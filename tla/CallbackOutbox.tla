--------------------------- MODULE CallbackOutbox ---------------------------
(***************************************************************************)
(* The outbox of terminal events (services/outbox.py) and its dispatchers  *)
(* (workers/outbox_dispatcher.py).  A row is written by the transaction    *)
(* that finalises an order; a dispatcher claims it, posts it outside any   *)
(* transaction and writes the result back if its claim still stands.       *)
(*                                                                         *)
(* A claim token is a fresh uuid4.  A dispatcher works on one row at a     *)
(* time and a row it has claimed cannot be claimed again before its claim  *)
(* is void, so the token of a row is represented by the dispatcher that    *)
(* drew it.  Time is represented by what it decides: which claims are      *)
(* older than the claim timeout, which rows still wait for their retry.    *)
(***************************************************************************)
EXTENDS Naturals, FiniteSets

CONSTANTS Rows,         \* outbox rows, each with its own dedup key
          Dispatchers,  \* dispatcher processes: replicas, or old and new
          Stalling,     \* those whose post may outlast the claim timeout
          Admins,       \* requests of administrators to replay a row
          MaxAttempts,  \* outbox_max_attempts
          NoOne         \* the null claim token

ASSUME AttemptsAssumption == MaxAttempts \in Nat \ {0}
ASSUME StallingAssumption == Stalling \subseteq Dispatchers
ASSUME NoOneAssumption == NoOne \notin Dispatchers \union Rows

VARIABLES
  status,      \* callback_outbox.status, "ABSENT" when there is no row
  attempts,    \* callback_outbox.attempts
  holder,      \* callback_outbox.claim_token
  stale,       \* rows whose locked_at is older than the claim timeout
  waiting,     \* rows whose next_retry_at lies in the future
  dispatcher,  \* the rounds of the dispatchers
  replaying,   \* the row a replay has read as DEAD and is about to reset
  accepted,    \* rows the downstream service has accepted (external)
  tries        \* posts tried since a row was queued, counted up to MaxAttempts

row == <<status, attempts, holder, stale, waiting>>
outside == <<accepted, tries>>
vars == <<row, dispatcher, replaying, outside>>

\* Wrong on purpose: a failed row is never tried again.
DeliverableOnce == {"PENDING"}

\* The statuses a round looks for.
Deliverable == {"PENDING", "FAILED"}

-----------------------------------------------------------------------------
\* Between rounds.  batch: the candidates still to be tried; late: the rows
\* whose next_retry_at is after the start of the round; row, read and ok: the
\* claimed row, its attempts when read, and whether the post succeeded.
Asleep == [pc |-> "asleep", batch |-> {}, late |-> {}, row |-> NoOne, read |-> 0, ok |-> FALSE]

Init ==
  /\ status = [r \in Rows |-> "ABSENT"]
  /\ attempts = [r \in Rows |-> 0]
  /\ holder = [r \in Rows |-> NoOne]
  /\ stale = {} /\ waiting = {}
  /\ dispatcher = [d \in Dispatchers |-> Asleep]
  /\ replaying = [a \in Admins |-> NoOne]
  /\ accepted = {}
  /\ tries = [r \in Rows |-> 0]

Step(d, changes) == dispatcher' = [dispatcher EXCEPT ![d] = changes]

\* enqueue_forward, in the transaction that finalises an order; under a key
\* that exists already it changes nothing.
Enqueue(r) ==
  /\ status[r] = "ABSENT"
  /\ status' = [status EXCEPT ![r] = "PENDING"]
  /\ UNCHANGED <<attempts, holder, stale, waiting, dispatcher, replaying, outside>>

\* Wrong on purpose: giving up a stale claim counts as a failed attempt.
ReclaimCounts(d) ==
  LET lost == {r \in Rows : status[r] = "SENDING" /\ r \in stale} IN
  /\ dispatcher[d].pc = "asleep"
  /\ status' = [r \in Rows |-> IF r \in lost THEN "FAILED" ELSE status[r]]
  /\ attempts' = [r \in Rows |-> IF r \in lost THEN attempts[r] + 1 ELSE attempts[r]]
  /\ holder' = [r \in Rows |-> IF r \in lost THEN NoOne ELSE holder[r]]
  /\ stale' = stale \ lost
  /\ Step(d, [Asleep EXCEPT !.pc = "select", !.late = waiting])
  /\ UNCHANGED <<waiting, replaying, outside>>

\* dispatch_once begins: the clock is read, stale claims are given up.
Reclaim(d) ==
  LET lost == {r \in Rows : status[r] = "SENDING" /\ r \in stale} IN
  /\ dispatcher[d].pc = "asleep"
  /\ status' = [r \in Rows |-> IF r \in lost THEN "FAILED" ELSE status[r]]
  /\ holder' = [r \in Rows |-> IF r \in lost THEN NoOne ELSE holder[r]]
  /\ stale' = stale \ lost
  /\ Step(d, [Asleep EXCEPT !.pc = "select", !.late = waiting])
  /\ UNCHANGED <<attempts, waiting, replaying, outside>>

\* The candidates of the round, read without a lock.
Select(d) ==
  /\ dispatcher[d].pc = "select"
  /\ Step(d, [dispatcher[d] EXCEPT !.pc = "round",
        !.batch = {r \in Rows : status[r] \in Deliverable} \ dispatcher[d].late])
  /\ UNCHANGED <<row, replaying, outside>>

\* Wrong on purpose: the update does not look at the row again.
ClaimableBlindly(d, r) == status[r] # "SENT"

\* The condition of the claiming update.
Claimable(d, r) == status[r] \in Deliverable /\ r \notin dispatcher[d].late

\* A candidate comes up: it is claimed, or skipped when it is no longer there.
Claim(d, r) ==
  /\ dispatcher[d].pc = "round" /\ r \in dispatcher[d].batch
  /\ Claimable(d, r)
  /\ status' = [status EXCEPT ![r] = "SENDING"]
  /\ holder' = [holder EXCEPT ![r] = d]
  /\ stale' = stale \ {r}
  /\ Step(d, [dispatcher[d] EXCEPT !.pc = "claimed", !.row = r, !.batch = @ \ {r}])
  /\ UNCHANGED <<attempts, waiting, replaying, outside>>

Skip(d, r) ==
  /\ dispatcher[d].pc = "round" /\ r \in dispatcher[d].batch
  /\ ~Claimable(d, r)
  /\ Step(d, [dispatcher[d] EXCEPT !.batch = @ \ {r}])
  /\ UNCHANGED <<row, replaying, outside>>

\* The claimed row is read in a transaction of its own.
Read(d) ==
  /\ dispatcher[d].pc = "claimed"
  /\ Step(d, [dispatcher[d] EXCEPT !.pc = "post", !.read = attempts[dispatcher[d].row]])
  /\ UNCHANGED <<row, replaying, outside>>

\* The post: refused or never arrived; accepted; accepted, the answer lost.
Post(d, taken, ok) ==
  /\ dispatcher[d].pc = "post"
  /\ ok => taken
  /\ accepted' = IF taken THEN accepted \union {dispatcher[d].row} ELSE accepted
  /\ tries' = [tries EXCEPT ![dispatcher[d].row] = IF @ < MaxAttempts THEN @ + 1 ELSE @]
  /\ Step(d, [dispatcher[d] EXCEPT !.pc = "answered", !.ok = ok])
  /\ UNCHANGED <<row, replaying>>

\* Wrong on purpose: the result is written whoever holds the row.
HoldsAnyway(d) == TRUE

\* The condition of the finalising update.
Holds(d) ==
  status[dispatcher[d].row] = "SENDING" /\ holder[dispatcher[d].row] = d

\* The row is written; the dispatcher goes on with its round.  A back-off
\* lies after the start of every round that is under way.
Write(d, s, backoff) ==
  LET r == dispatcher[d].row IN
  /\ status' = [status EXCEPT ![r] = s]
  /\ attempts' = [attempts EXCEPT ![r] = dispatcher[d].read + 1]
  /\ holder' = [holder EXCEPT ![r] = NoOne]
  /\ stale' = stale \ {r}
  /\ waiting' = IF backoff THEN waiting \union {r} ELSE waiting
  /\ dispatcher' = [e \in Dispatchers |->
       LET late == IF backoff /\ dispatcher[e].pc # "asleep"
                     THEN dispatcher[e].late \union {r} ELSE dispatcher[e].late
       IN  IF e = d THEN [Asleep EXCEPT !.pc = "round", !.late = late,
                                        !.batch = dispatcher[d].batch]
                    ELSE [dispatcher[e] EXCEPT !.late = late]]
  /\ UNCHANGED <<replaying, outside>>

Resume(d) ==
  /\ Step(d, [Asleep EXCEPT !.pc = "round", !.late = dispatcher[d].late,
                            !.batch = dispatcher[d].batch])
  /\ UNCHANGED <<row, replaying, outside>>

\* Wrong on purpose: one attempt too many.
ExhaustedLate(d) == dispatcher[d].read >= MaxAttempts

Exhausted(d) == dispatcher[d].read + 1 >= MaxAttempts

\* _finalize_after_send, by a dispatcher whose claim stands.
Finalize(d) ==
  /\ dispatcher[d].pc = "answered" /\ Holds(d)
  /\ \/ dispatcher[d].ok /\ Write(d, "SENT", FALSE)
     \/ ~dispatcher[d].ok /\ Exhausted(d) /\ Write(d, "DEAD", FALSE)
     \/ ~dispatcher[d].ok /\ ~Exhausted(d) /\ Write(d, "FAILED", TRUE)

\* _finalize_after_send, by one whose row has been reclaimed meanwhile.
FinalizeLate(d) ==
  /\ dispatcher[d].pc = "answered" /\ ~Holds(d)
  /\ Resume(d)

EndRound(d) ==
  /\ dispatcher[d].pc = "round" /\ dispatcher[d].batch = {}
  /\ Step(d, Asleep)
  /\ UNCHANGED <<row, replaying, outside>>

\* The process dies, or a database error ends the round and the supervisor
\* starts the loop again; the claim stays in the row.
Crash(d) ==
  /\ dispatcher[d].pc # "asleep"
  /\ Step(d, Asleep)
  /\ UNCHANGED <<row, replaying, outside>>

\* Wrong on purpose: any row can be replayed.
ReplayReadAny(a, r) ==
  /\ replaying[a] = NoOne /\ status[r] # "ABSENT"
  /\ replaying' = [replaying EXCEPT ![a] = r]
  /\ UNCHANGED <<row, dispatcher, outside>>

\* replay_dead, at an administrator's request: the row is read without a lock.
ReplayRead(a, r) ==
  /\ replaying[a] = NoOne /\ status[r] = "DEAD"
  /\ replaying' = [replaying EXCEPT ![a] = r]
  /\ UNCHANGED <<row, dispatcher, outside>>

\* The commit writes by primary key, whatever became of the row meanwhile.
ReplayWrite(a) ==
  LET r == replaying[a] IN
  /\ r # NoOne
  /\ replaying' = [replaying EXCEPT ![a] = NoOne]
  /\ status' = [status EXCEPT ![r] = "PENDING"]
  /\ attempts' = [attempts EXCEPT ![r] = 0]
  /\ waiting' = waiting \ {r}
  /\ dispatcher' = [d \in Dispatchers |-> [dispatcher[d] EXCEPT !.late = @ \ {r}]]
  /\ tries' = [tries EXCEPT ![r] = 0]
  /\ UNCHANGED <<holder, stale, accepted>>

\* The request dies, or its transaction is rolled back.
ReplayFails(a) ==
  /\ replaying[a] # NoOne
  /\ replaying' = [replaying EXCEPT ![a] = NoOne]
  /\ UNCHANGED <<row, dispatcher, outside>>

-----------------------------------------------------------------------------
(* Time.                                                                   *)

Calling(d) == dispatcher[d].pc \in {"claimed", "post", "answered"}

\* A claim grows older than the timeout.  A post ends within 10 s and the
\* timeout is 300 s, so a dispatcher that does not stall is done by then.
ClaimExpires(r) ==
  /\ status[r] = "SENDING" /\ r \notin stale
  /\ \A d \in Dispatchers \ Stalling : ~(Calling(d) /\ dispatcher[d].row = r /\ holder[r] = d)
  /\ stale' = stale \union {r}
  /\ UNCHANGED <<status, attempts, holder, waiting, dispatcher, replaying, outside>>

BackoffEnds(r) ==
  /\ r \in waiting
  /\ waiting' = waiting \ {r}
  /\ UNCHANGED <<status, attempts, holder, stale, dispatcher, replaying, outside>>

-----------------------------------------------------------------------------
Next ==
  \/ \E r \in Rows : Enqueue(r) \/ ClaimExpires(r) \/ BackoffEnds(r)
  \/ \E a \in Admins : \/ \E r \in Rows : ReplayRead(a, r)
                       \/ ReplayWrite(a) \/ ReplayFails(a)
  \/ \E d \in Dispatchers :
       \/ Reclaim(d) \/ Select(d) \/ Read(d) \/ Finalize(d) \/ FinalizeLate(d)
       \/ EndRound(d) \/ Crash(d)
       \/ \E r \in Rows : Claim(d, r) \/ Skip(d, r)
       \/ \E taken, ok \in BOOLEAN : Post(d, taken, ok)

Spec == Init /\ [][Next]_vars

-----------------------------------------------------------------------------
(* Properties.                                                             *)

Rounds ==
  [pc : {"asleep", "select", "round", "claimed", "post", "answered"},
   batch : SUBSET Rows, late : SUBSET Rows, row : Rows \union {NoOne},
   read : 0 .. MaxAttempts, ok : BOOLEAN]

\* Every column and every round holds what it can hold; no row counts more
\* than MaxAttempts attempts.
TypeOK ==
  /\ status \in [Rows -> {"ABSENT", "PENDING", "SENDING", "SENT", "FAILED", "DEAD"}]
  /\ attempts \in [Rows -> 0 .. MaxAttempts]
  /\ holder \in [Rows -> Dispatchers \union {NoOne}]
  /\ stale \subseteq Rows /\ waiting \subseteq Rows
  /\ dispatcher \in [Dispatchers -> Rounds]
  /\ replaying \in [Admins -> Rows \union {NoOne}]
  /\ accepted \subseteq Rows
  /\ tries \in [Rows -> 0 .. MaxAttempts]

\* A row is given up only after MaxAttempts posts were tried since it was queued,
\* whatever claims were lost to crashes and reclaimed in between.
DeadIsEarned == \A r \in Rows : status[r] = "DEAD" => tries[r] = MaxAttempts

\* While no dispatcher outlasts the claim timeout and one row is replayed at a
\* time, no two dispatchers deliver the same row, however they crash and restart.
OneCaller ==
  \A d, e \in Dispatchers \ Stalling :
    d # e /\ Calling(d) /\ Calling(e) => dispatcher[d].row # dispatcher[e].row

\* While one row is replayed at a time, a row that was sent stays sent: a
\* dispatcher that comes late, its claim reclaimed and the row delivered by
\* another, does not open it again.
SentStays == [][\A r \in Rows : status[r] = "SENT" => status'[r] = "SENT"]_vars

Phase(r) ==
  CASE status[r] = "ABSENT" -> "none"
    [] status[r] = "SENT"   -> "sent"
    [] status[r] = "DEAD"   -> "dead"
    [] OTHER                -> "queued"

Delivery == INSTANCE OutboxContract
  WITH Events <- Rows, phase <- [r \in Rows |-> Phase(r)], taken <- accepted

\* While one row is replayed at a time, the outbox implements at-least-once
\* delivery.
ImplementsDelivery == Delivery!Spec

-----------------------------------------------------------------------------
\* The dispatcher loops for ever and is restarted when it crashes; it does not
\* crash, or lose its claim, at the same point of every round.
Fairness ==
  /\ \A d \in Dispatchers :
       /\ WF_vars(Reclaim(d)) /\ SF_vars(Select(d)) /\ WF_vars(EndRound(d))
       /\ WF_vars(FinalizeLate(d)) /\ WF_vars(\E r \in Rows : Claim(d, r) \/ Skip(d, r))
  /\ \A r \in Rows :
       /\ SF_vars(\E d \in Dispatchers : Claim(d, r))
       /\ SF_vars(\E d \in Dispatchers : dispatcher[d].row = r /\ Read(d))
       /\ SF_vars(\E d \in Dispatchers, t, ok \in BOOLEAN : dispatcher[d].row = r /\ Post(d, t, ok))
       /\ SF_vars(\E d \in Dispatchers : dispatcher[d].row = r /\ Finalize(d))
       /\ WF_vars(ClaimExpires(r)) /\ WF_vars(BackoffEnds(r))

FairSpec == Spec /\ Fairness

\* An event that is queued is sent, or given up for an administrator to replay:
\* none is lost in SENDING when its dispatcher dies.
EveryRowEnds ==
  \A r \in Rows : status[r] = "PENDING" ~> status[r] \in {"SENT", "DEAD"}

-----------------------------------------------------------------------------
\* replay_dead's docstring (outbox.py:320-322): a DEAD row is reset to PENDING,
\* a row in any other status is left alone.
ReplaysDeadOnly ==
  [][\A r \in Rows : status'[r] = "PENDING" /\ status[r] # "PENDING"
       => status[r] \in {"ABSENT", "DEAD"}]_vars
=============================================================================
