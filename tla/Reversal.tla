------------------------------ MODULE Reversal ------------------------------
(***************************************************************************)
(* Reversing a money order (services/reversal.py).  A reversal is an order *)
(* of its own (RVSL); when wedap accepts it, one transaction settles it    *)
(* and flips the original order to REVERSED.  Callbacks and status queries *)
(* settle either order at the same time, several reversals may aim at one  *)
(* original, and each of these transactions appends to the tenant's audit  *)
(* chain while it holds the rows it has locked.                            *)
(*                                                                         *)
(* A transaction takes its locks one by one, works on drafts, and publishes*)
(* them when it commits.  It may be rolled back at any moment: a database  *)
(* error, a lock that is waited for too long, the victim of a deadlock.    *)
(***************************************************************************)
EXTENDS OrderStates, AuditChain

CONSTANTS Original,   \* the order that is reversed
          Reversals,  \* the bizSeqNo of reversals of it
          Threads     \* requests to reverse; other transactions settle orders

Settlers == Txns \ Threads
Orders == Reversals \union {Original}

ASSUME ThreadsAssumption == Threads \subseteq Txns
ASSUME OriginalAssumption == Original \notin Reversals
ASSUME SubjectsAssumption == Subjects = Orders \X Statuses
ASSUME NoValueAssumption == NoOne \notin Statuses \union Answers \union Outcomes \union Orders

VARIABLES status,    \* bank_txn_order.status, "ABSENT" when there is no row
          via,       \* finalized_via: SYNC, by the request, or LATE; NoOne if open
          forwarded, \* the statuses with an outbox row
          intent,    \* the reversal each request asks for
          pc,        \* where a transaction stands
          answer,    \* wedap's answer to a request
          verdict,   \* what a settler has been told, of which order
          holder,    \* who holds the lock of an order's row
          staged,    \* the statuses a transaction has written, per order
          said,      \* the outcome in the frozen response of a reversal
          bank       \* what wedap has done with an order (external)

rows == <<status, via, forwarded, said>>
locks == <<holder, staged>>
vars == <<chain, rows, intent, pc, answer, verdict, locks, bank>>

-----------------------------------------------------------------------------
NoWrites == [x \in Orders |-> NoOne]

\* How the original may stand when its own request has ended, and at wedap.
\* A FAILED order may have been executed (see RepaymentFailureConfirmed).
Starts == {<<"ABSENT", "SUCCEEDED">>, <<"RESULT_UNKNOWN", "processing">>,
           <<"RESULT_UNKNOWN", "SUCCEEDED">>, <<"SUCCEEDED", "SUCCEEDED">>,
           <<"FAILED", "SUCCEEDED">>}

InitOf(start) ==
  LET settled == start[1] \in Terminal
  IN  /\ status = [x \in Orders |-> IF x = Original THEN start[1] ELSE "ABSENT"]
      /\ bank = [x \in Orders |-> IF x = Original THEN start[2] ELSE "unseen"]
      /\ via = [x \in Orders |-> IF x = Original /\ settled THEN "LATE" ELSE NoOne]
      /\ forwarded = [x \in Orders |-> IF x = Original /\ settled THEN {start[1]} ELSE {}]
      /\ Inherited(IF settled
                     THEN <<[prev |-> 0, about |-> <<Original, start[1]>>]>> ELSE <<>>)

Init ==
  /\ \E start \in Starts : InitOf(start)
  /\ ChainInit
  /\ intent \in [Threads -> Reversals]
  /\ pc = [t \in Txns |-> IF t \in Threads THEN "register" ELSE "idle"]
  /\ answer = [p \in Threads |-> NoOne]
  /\ verdict = [q \in Settlers |-> NoOne]
  /\ holder = [x \in Orders |-> NoOne]
  /\ staged = [t \in Txns |-> NoWrites]
  /\ said = [r \in Reversals |-> NoOne]

-----------------------------------------------------------------------------
(* A transaction: row locks, drafts, commit and rollback.                  *)

At(t, label) == pc' = [pc EXCEPT ![t] = label]

\* SELECT ... FOR UPDATE of an order's row; a row that is not there locks nothing.
Lock(t, x) ==
  /\ holder[x] = NoOne
  /\ holder' = IF status[x] = "ABSENT" THEN holder ELSE [holder EXCEPT ![x] = t]

\* A new status, and write_audit about it.
Stage(t, x, s) ==
  /\ staged' = [staged EXCEPT ![t][x] = s]
  /\ BeginAudit(t, <<x, s>>)

Unlock(t) ==
  /\ holder' = [x \in Orders |-> IF holder[x] = t THEN NoOne ELSE holder[x]]
  /\ staged' = [staged EXCEPT ![t] = NoWrites]

\* What the transaction has written becomes visible.  A terminal status has
\* its outbox row with it, whose dedup key makes a second one a no-op.
Publish(t, source) ==
  LET w == staged[t]
      final == {x \in Orders : w[x] \in Terminal}
  IN  /\ status' = [x \in Orders |-> IF w[x] = NoOne THEN status[x] ELSE w[x]]
      /\ via' = [x \in Orders |-> IF x \in final THEN source ELSE via[x]]
      /\ forwarded' = [x \in Orders |->
                         forwarded[x] \union IF x \in final THEN {w[x]} ELSE {}]
      /\ CommitChain(t)
      /\ Unlock(t)

\* write_audit runs inside the transaction.
AuditStep(t) == Audit(t) /\ UNCHANGED <<rows, intent, pc, answer, verdict, locks, bank>>

-----------------------------------------------------------------------------
(* A request to reverse (submit_reversal).                                 *)

\* Transaction 1, register_and_accept_order: only the first request with a
\* bizSeqNo goes on; a second one is answered from the first one's record.
Register(p) ==
  /\ pc[p] = "register"
  /\ IF status[intent[p]] = "ABSENT"
       THEN /\ status' = [status EXCEPT ![intent[p]] = "ACCEPTED"]
            /\ At(p, "dispatch")
       ELSE At(p, "done") /\ UNCHANGED status
  /\ UNCHANGED <<chain, via, forwarded, said, intent, answer, verdict, locks, bank>>

\* The call leaves; no transaction is open.
Dispatch(p) ==
  /\ pc[p] = "dispatch"
  /\ bank' = [bank EXCEPT ![intent[p]] = "sent"]
  /\ At(p, "calling")
  /\ UNCHANGED <<chain, rows, intent, answer, verdict, locks>>

\* The ways the call can end: 200, no answer, a rejection at the door, and an
\* error that proves nothing.
Endings == {"SUCCESS", "NO_ANSWER", "HTTP_DOOR", "UNLISTED"}

MayAnswer(r, a) ==
  CASE a = "SUCCESS" -> bank[r] = "SUCCEEDED"
    [] AtDoor(a)     -> bank[r] = "refused"
    [] OTHER         -> TRUE

Answered(p, a) ==
  /\ pc[p] = "calling"
  /\ MayAnswer(intent[p], a)
  /\ answer' = [answer EXCEPT ![p] = a]
  /\ At(p, "answered")
  /\ UNCHANGED <<chain, rows, intent, verdict, locks, bank>>

\* Wrong on purpose: wedap's own words go into the ledger.
ReversalStatusUnmapped(a) == IF a = "NO_ANSWER" THEN "RESULT_UNKNOWN" ELSE a

\* Wrong on purpose: a call that timed out counts as accepted.
ReversalStatusHopeful(a) == IF a \in {"SUCCESS", "NO_ANSWER"} THEN "SUCCEEDED" ELSE "FAILED"

\* The status of the reversal that follows from the answer.
ReversalStatus(a) ==
  CASE a = "SUCCESS"   -> "SUCCEEDED"
    [] a = "NO_ANSWER" -> "RESULT_UNKNOWN"
    [] OTHER           -> "FAILED"

\* Transaction 2 begins: it locks the reversal and moves it if nothing else
\* has; only then it turns to the original.
LockReversal(p) ==
  /\ pc[p] = "answered"
  /\ Lock(p, intent[p])
  /\ LET s == ReversalStatus(answer[p])
     IN  IF status[intent[p]] = "ACCEPTED"
           THEN Stage(p, intent[p], s) /\ At(p, IF s = "SUCCEEDED" THEN "flip" ELSE "commit")
           ELSE At(p, "commit") /\ UNCHANGED <<chain, staged>>
  /\ UNCHANGED <<rows, intent, answer, verdict, bank>>

\* Wrong on purpose: an original that is not SUCCEEDED is left as it is.
FlipsSucceeded(s) == s = "SUCCEEDED"

\* Whether _reverse_original moves an original with this status: there is a
\* row, it is not REVERSED yet, and the table allows it.
Flips(s) == s # "ABSENT" /\ CanMove(s, "REVERSED")

\* _reverse_original, in the same transaction.
LockOriginal(p) ==
  /\ pc[p] = "flip" /\ writing[p] = "rest"
  /\ Lock(p, Original)
  /\ IF Flips(status[Original]) THEN Stage(p, Original, "REVERSED")
                                ELSE UNCHANGED <<chain, staged>>
  /\ At(p, "commit")
  /\ UNCHANGED <<rows, intent, answer, verdict, bank>>

\* The response follows the ledger after the compare-and-set; it is frozen in
\* the transaction that settles the pair.
Complete(p) ==
  /\ pc[p] = "commit" /\ p \in Threads
  /\ Publish(p, "SYNC")
  /\ said' = [said EXCEPT ![intent[p]] =
                Outcome(status'[intent[p]], NoEffectEvidence(answer[p], FALSE), TRUE)]
  /\ At(p, "done")
  /\ UNCHANGED <<intent, answer, verdict, bank>>

Request(p) ==
  \/ Register(p) \/ Dispatch(p) \/ LockReversal(p) \/ LockOriginal(p) \/ Complete(p)
  \/ \E a \in Endings : Answered(p, a)

-----------------------------------------------------------------------------
(* A callback or a status query about one of the orders.                   *)

\* wedap reports what it has done; by the time the row is locked it may have
\* done more.
Hear(q, x) ==
  /\ pc[q] = "idle" /\ q \in Settlers
  /\ status[x] # "ABSENT" /\ bank[x] \in Terminal
  /\ verdict' = [verdict EXCEPT ![q] = <<x, bank[x]>>]
  /\ At(q, "heard")
  /\ UNCHANGED <<chain, rows, intent, answer, locks, bank>>

\* Wrong on purpose: any status but the same one takes the verdict.
TakesAnything(x, s) == status[x] # s

\* Whether a verdict changes the order: see Takes in OrderLedger.
Takes(x, s) ==
  IF status[x] \in Absorbing THEN status[x] = "SUCCEEDED" /\ s = "REVERSED"
                             ELSE CanMove(status[x], s)

\* The locked part of resolve_callback_terminal and of the status query.
LockVerdict(q) ==
  /\ pc[q] = "heard"
  /\ LET x == verdict[q][1]
         s == verdict[q][2]
     IN  /\ Lock(q, x)
         /\ IF Takes(x, s) THEN Stage(q, x, s) ELSE UNCHANGED <<chain, staged>>
  /\ At(q, "commit")
  /\ UNCHANGED <<rows, intent, answer, verdict, bank>>

Settle(q) ==
  /\ pc[q] = "commit" /\ q \in Settlers
  /\ Publish(q, "LATE")
  /\ verdict' = [verdict EXCEPT ![q] = NoOne]
  /\ At(q, "idle")
  /\ UNCHANGED <<said, intent, answer, bank>>

Settler(q) == (\E x \in Orders : Hear(q, x)) \/ LockVerdict(q) \/ Settle(q)

-----------------------------------------------------------------------------
\* A transaction is rolled back, or its process dies: the request ends with an
\* error and its order as it was; a verdict is heard again.
Abort(t) ==
  /\ pc[t] \in {"dispatch", "calling", "answered", "flip", "commit", "heard"}
  /\ RollbackChain(t) /\ Unlock(t)
  /\ IF t \in Threads
       THEN At(t, "failed") /\ UNCHANGED verdict
       ELSE At(t, "idle") /\ verdict' = [verdict EXCEPT ![t] = NoOne]
  /\ UNCHANGED <<rows, intent, answer, bank>>

\* wedap, external.  It accepts a reversal of what it has executed, and with
\* the acceptance the original is reversed; a second one it may accept too.
BankDecides(r) ==
  /\ bank[r] = "sent"
  /\ \/ \E no \in {"refused", "FAILED"} : bank' = [bank EXCEPT ![r] = no]
     \/ /\ bank[Original] \in {"SUCCEEDED", "REVERSED"}
        /\ bank' = [bank EXCEPT ![r] = "SUCCEEDED", ![Original] = "REVERSED"]
  /\ UNCHANGED <<chain, rows, intent, pc, answer, verdict, locks>>

\* It settles the original, and reverses it at the counter.
BankSettles ==
  /\ \/ bank[Original] = "processing" /\ \E s \in Terminal : bank' = [bank EXCEPT ![Original] = s]
     \/ bank[Original] = "SUCCEEDED" /\ bank' = [bank EXCEPT ![Original] = "REVERSED"]
  /\ UNCHANGED <<chain, rows, intent, pc, answer, verdict, locks>>

Next ==
  \/ \E t \in Txns : AuditStep(t) \/ Abort(t)
  \/ \E p \in Threads : Request(p)
  \/ \E q \in Settlers : Settler(q)
  \/ \E r \in Reversals : BankDecides(r)
  \/ BankSettles

Spec == Init /\ [][Next]_vars

-----------------------------------------------------------------------------
Labels == {"register", "dispatch", "calling", "answered", "flip", "commit", "done",
           "failed", "idle", "heard"}

\* Rows, drafts, locks and call frames hold what the tables and the code can hold.
ReversalTypeOK ==
  /\ ChainTypeOK
  /\ status \in [Orders -> Statuses \union {"ABSENT"}]
  /\ via \in [Orders -> {"SYNC", "LATE", NoOne}]
  /\ forwarded \in [Orders -> SUBSET Terminal]
  /\ intent \in [Threads -> Reversals]
  /\ pc \in [Txns -> Labels]
  /\ answer \in [Threads -> Endings \union {NoOne}]
  /\ verdict \in [Settlers -> (Orders \X Terminal) \union {NoOne}]
  /\ holder \in [Orders -> Txns \union {NoOne}]
  /\ staged \in [Txns -> [Orders -> Statuses \union {NoOne}]]
  /\ said \in [Reversals -> Outcomes \union {NoOne}]
  /\ bank \in [Orders -> {"unseen", "sent", "refused", "processing"} \union Terminal]

EntriesAbout(x, s) == {i \in 1..Len(log) : log[i].about = <<x, s>>}

\* However reversals, callbacks and queries race for the two orders and are
\* rolled back, the committed chain holds one entry for each verdict announced
\* to lifecycle and none for another, and the verdict an order has is announced.
ChainTellsTheLedger ==
  \A x \in Orders :
    /\ status[x] \in Terminal => status[x] \in forwarded[x]
    /\ \A s \in Terminal :
         IF s \in forwarded[x] THEN \E i \in EntriesAbout(x, s) : EntriesAbout(x, s) = {i}
                               ELSE EntriesAbout(x, s) = {}

\* A reversal that its own request has settled is whole: no original is left
\* that could still be flipped.
PairFlipsTogether ==
  \A r \in Reversals :
    via[r] = "SYNC" /\ status[r] = "SUCCEEDED" /\ status[Original] # "ABSENT"
      => ~CanMove(status[Original], "REVERSED")

\* The gateway says REVERSED only of an original that wedap has reversed, and
\* NOT_APPLIED only of a reversal that wedap has refused.
ReversalIsTrue ==
  /\ status[Original] = "REVERSED" => bank[Original] = "REVERSED"
  /\ \A r \in Reversals : said[r] = "NOT_APPLIED" => bank[r] = "refused"

-----------------------------------------------------------------------------
(* What documents and comments say and the code does not do.               *)

\* docs/20260811-...:29: a reversal that is SUCCEEDED and an original that is
\* REVERSED come in pairs, there is no half flip.
NoHalfFlip ==
  \A r \in Reversals :
    status[r] = "SUCCEEDED" /\ status[Original] # "ABSENT"
      => ~CanMove(status[Original], "REVERSED")

\* Whom a transaction waits for.
WaitsFor(t) ==
  LET row == CASE pc[t] = "answered" -> intent[t]
               [] pc[t] = "flip" /\ writing[t] = "rest" -> Original
               [] pc[t] = "heard" -> verdict[t][1]
               [] OTHER -> NoOne
  IN  (IF row = NoOne THEN {} ELSE {holder[row]} \ {NoOne})
        \union (IF writing[t] = "insert" /\ ~Unlocked(t) THEN {owner} ELSE {})
        \union (IF writing[t] = "append" /\ ~Exclusive(t)
                  THEN (sharers \union {owner}) \ {t, NoOne} ELSE {})

\* audit.py:34: appending to the chain cannot deadlock.
NoDeadlock == ~\E t, u \in Txns : u # t /\ u \in WaitsFor(t) /\ t \in WaitsFor(u)
=============================================================================
