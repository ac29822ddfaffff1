-------------------------- MODULE OrderLedgerProofs --------------------------
(***************************************************************************)
(* Theorems about OrderLedger, for every set of orders, scopes, threads,   *)
(* handlers and callbacks.                                                 *)
(***************************************************************************)
EXTENDS OrderLedger, TLAPS

-----------------------------------------------------------------------------
(* The pure definitions.                                                   *)

\* What submit_order writes after a call is never ABSENT, never undone work:
\* it is a status that ACCEPTED may move to.
LEMMA LedgerStatusRange ==
  ASSUME NEW a, NEW r \in BOOLEAN
  PROVE  /\ LedgerStatus(a, r) \in {"SUBMITTED", "RESULT_UNKNOWN"} \union Terminal
         /\ CanMove("ACCEPTED", LedgerStatus(a, r))
BY DEF LedgerStatus, MapRepaymentStatus, MapTxnStatus, Words, Unmapped, Codes, Terminal, CanMove

\* A word of wedap maps to a terminal status or to none.
LEMMA MapTxnStatusRange ==
  ASSUME NEW w
  PROVE  MapTxnStatus(w) \in Results
BY DEF MapTxnStatus, Results, Terminal, Unmapped

\* A frozen response has the type of the response column.
LEMMA ResponseRange ==
  ASSUME NEW p \in Threads, NEW s \in Statuses, NEW applied \in BOOLEAN,
         answer[p] \in Answers \union {None}
  PROVE  ResponseOf(p, s, applied) \in Responses
<1>1. NorthboundWord(answer[p], Repayment(p)) \in Words \union {"RESULT_UNKNOWN"}
  BY DEF NorthboundWord, Words, Codes, LedgerStatus, Trusted, ListedCode
<1>2. Outcome(s, NoEffectEvidence(answer[p], Repayment(p)),
              Trusted(answer[p], Repayment(p)) \/ ~applied) \in Outcomes
  BY DEF Outcome, Outcomes
<1> QED
  BY <1>1, <1>2 DEF ResponseOf, Responses

-----------------------------------------------------------------------------
(* Type correctness.                                                       *)

LedgerType ==
  /\ status \in [Biz -> Statuses \union {"ABSENT"}]
  /\ finalized \in [Biz -> BOOLEAN]
  /\ audited \in [Biz -> [Statuses -> Nat]]
  /\ forwarded \in [Biz -> SUBSET Terminal]

LEMMA FinalizeType ==
  ASSUME LedgerType, NEW b \in Biz, NEW s \in Terminal, NEW u \in BOOLEAN, Finalize(b, s, u)
  PROVE  LedgerType'
<1>1. s \in Statuses
  BY DEF Terminal, Statuses
<1>2. status' \in [Biz -> Statuses \union {"ABSENT"}]
  BY <1>1 DEF Finalize, LedgerType
<1>3. finalized' \in [Biz -> BOOLEAN]
  BY DEF Finalize, LedgerType
<1>4. forwarded' \in [Biz -> SUBSET Terminal]
  BY DEF Finalize, LedgerType
<1>5. audited' \in [Biz -> [Statuses -> Nat]]
  <2>1. /\ audited[b] \in [Statuses -> Nat]
        /\ audited[b][s] \in Nat
    BY <1>1 DEF LedgerType
  <2>2. [audited[b] EXCEPT ![s] = audited[b][s] + 1] \in [Statuses -> Nat]
    BY <1>1, <2>1
  <2>3. \/ audited' = audited
        \/ audited' = [audited EXCEPT ![b] = [audited[b] EXCEPT ![s] = audited[b][s] + 1]]
    BY DEF Finalize
  <2> QED
    BY <2>2, <2>3 DEF LedgerType
<1> QED
  BY <1>2, <1>3, <1>4, <1>5 DEF LedgerType

LEMMA VerdictType ==
  ASSUME LedgerType, NEW b \in Biz, NEW s \in Results, Verdict(b, s)
  PROVE  LedgerType'
<1>1. CASE Takes(b, s)
  <2>1. s \in Terminal
    BY <1>1 DEF Takes, Upgrades, CanMove, Results, Terminal, Unmapped
  <2> QED
    BY <1>1, <2>1, FinalizeType DEF Verdict, Settled
<1>2. CASE ~Takes(b, s)
  BY <1>2 DEF Verdict, ledger, LedgerType
<1> QED
  BY <1>1, <1>2

IdemType ==
  idem \in [Keys -> {None} \union Records]

ThreadsType ==
  /\ intent \in [Threads -> Intents]
  /\ pc \in [Threads -> Labels]
  /\ answer \in [Threads -> Answers \union {None}]
  /\ reply \in [Threads -> Replies]

BankType ==
  /\ bank \in [Biz -> BankStates]
  /\ calls \in [Biz -> Nat]

CallbacksType ==
  /\ notices \subseteq Notices
  /\ inbox \in [Callbacks -> {None} \union Rows]
  /\ handler \in [Handlers -> HandlerStates]

SweepType ==
  /\ worker \in [pc : {"idle", "query", "apply"}, biz : Biz \union {None}, result : Results]
  /\ aged \in [Biz -> BOOLEAN]
  /\ alerted \in [Biz -> BOOLEAN]

\* The type invariant, table by table.
LEMMA TypeParts ==
  /\ TypeOK <=> LedgerType /\ IdemType /\ ThreadsType /\ BankType /\ CallbacksType /\ SweepType
  /\ TypeOK' <=>
       (LedgerType /\ IdemType /\ ThreadsType /\ BankType /\ CallbacksType /\ SweepType)'
BY DEF TypeOK, LedgerType, IdemType, ThreadsType, BankType, CallbacksType, SweepType

\* A table keeps its type when it does not change.
LEMMA UnchangedTypes ==
  /\ LedgerType /\ UNCHANGED ledger => LedgerType'
  /\ IdemType /\ UNCHANGED idem => IdemType'
  /\ ThreadsType /\ UNCHANGED threads => ThreadsType'
  /\ BankType /\ UNCHANGED <<bank, calls>> => BankType'
  /\ CallbacksType /\ UNCHANGED callbacks => CallbacksType'
  /\ SweepType /\ UNCHANGED sweep => SweepType'
BY DEF LedgerType, IdemType, ThreadsType, BankType, CallbacksType, SweepType,
       ledger, threads, callbacks, sweep

LEMMA RequestType ==
  ASSUME ThreadsType, NEW p \in Threads
  PROVE  /\ Key(p) \in Keys
         /\ intent[p].biz \in Biz
         /\ intent[p].payload \in Payloads
         /\ Repayment(p) \in BOOLEAN
         /\ KnownKeyReply(p) \in Replies
         /\ \A l \in Labels : Continue(p, l) => ThreadsType'
         /\ \A r \in Replies : Respond(p, r) => ThreadsType'
<1>1. intent[p].biz \in Biz /\ intent[p].scope \in Scopes /\ intent[p].payload \in Payloads
  BY DEF ThreadsType, Intents
<1>2. ASSUME NEW l \in Labels, Continue(p, l)
      PROVE  ThreadsType'
  BY <1>2 DEF Continue, ThreadsType
<1>3. ASSUME NEW r \in Replies, Respond(p, r)
      PROVE  ThreadsType'
  BY <1>3 DEF Respond, ThreadsType, Labels
<1>4. KnownKeyReply(p) \in Replies
  BY DEF KnownKeyReply, Replies
<1> QED
  BY <1>1, <1>2, <1>3, <1>4 DEF Key, Keys, Repayment

\* Between its two transactions a request owns its order: it has registered
\* the key with its own body, nobody else is between the two for the same
\* bizSeqNo, and its call has been sent exactly if it is past the dispatch.
Active(p) == pc[p] \in {"dispatch", "calling", "answered"}

ActiveInv ==
  \A p \in Threads : Active(p) =>
    /\ status[intent[p].biz] # "ABSENT"
    /\ idem[Key(p)] # None
    /\ idem[Key(p)].payload = intent[p].payload
    /\ idem[Key(p)].response = None
    /\ calls[intent[p].biz] = IF pc[p] = "dispatch" THEN 0 ELSE 1

ExclusiveInv ==
  \A p, q \in Threads : Active(p) /\ Active(q) /\ p # q => intent[p].biz # intent[q].biz

\* Nothing is sent for, and nothing is recorded of, a bizSeqNo without an order.
AbsentInv ==
  /\ \A b \in Biz : calls[b] <= 1 /\ (status[b] = "ABSENT" => calls[b] = 0)
  /\ \A k \in Keys : idem[k] # None => status[k[1]] # "ABSENT"

RequestInv == ActiveInv /\ ExclusiveInv /\ AbsentInv

LEMMA InitType == Init => TypeOK
<1> SUFFICES ASSUME Init
             PROVE  LedgerType /\ IdemType /\ ThreadsType /\ BankType /\ CallbacksType /\ SweepType
  BY TypeParts
<1>1. LedgerType
  BY DEF Init, LedgerType, Terminal
<1>2. IdemType
  BY DEF Init, IdemType
<1>3. ThreadsType /\ BankType
  BY DEF Init, ThreadsType, BankType, Labels, Replies, BankStates
<1>4. Unmapped \in Results
  BY DEF Results
<1>5. CallbacksType
  BY <1>4 DEF Init, CallbacksType, Idle, HandlerStates
<1>6. SweepType
  BY <1>4 DEF Init, SweepType, Resting
<1> QED
  BY <1>1, <1>2, <1>3, <1>5, <1>6

LEMMA SubmitType ==
  ASSUME TypeOK, RequestInv, NEW p \in Threads, Submit(p)
  PROVE  TypeOK'
<1> USE TypeParts
<1>1. CASE Lookup(p)
  BY <1>1, RequestType, UnchangedTypes DEF Lookup, Labels
<1>2. CASE Register(p)
  <2>1. ThreadsType'
    BY <1>2, RequestType DEF Register, Labels, Replies
  <2>2. LedgerType'
    BY <1>2, RequestType, UnchangedTypes DEF Register, LedgerType, Statuses, ledger
  <2>3. IdemType'
    BY <1>2, RequestType DEF Register, IdemType, Records
  <2> QED
    BY <1>2, <2>1, <2>2, <2>3, UnchangedTypes DEF Register
<1>3. CASE Dispatch(p)
  <2>1. ThreadsType'
    BY <1>3, RequestType DEF Dispatch, Labels
  <2>2. BankType'
    BY <1>3, RequestType DEF Dispatch, BankType
  <2> QED
    BY <1>3, <2>1, <2>2, UnchangedTypes DEF Dispatch
<1>4. ASSUME NEW a \in Answers, Answered(p, a)
      PROVE  TypeOK'
  <2>1. ThreadsType'
    BY <1>4 DEF Answered, ThreadsType, Labels
  <2> QED
    BY <1>4, <2>1, UnchangedTypes DEF Answered
<1>5. CASE AnsweredGarbage(p)
  BY <1>5, RequestType, UnchangedTypes DEF AnsweredGarbage, Replies
<1>6. CASE Complete(p)
  <2> DEFINE b == intent[p].biz
             s == LedgerStatus(answer[p], Repayment(p))
  <2>1. ThreadsType'
    BY <1>6, RequestType DEF Complete, Replies
  <2>2. s \in {"SUBMITTED", "RESULT_UNKNOWN"} \union Terminal
    BY LedgerStatusRange, RequestType
  <2>3. LedgerType'
    <3>1. CASE ~StillAccepted(b)
      BY <1>6, <3>1, UnchangedTypes DEF Complete
    <3>2. CASE StillAccepted(b) /\ s \in Terminal
      BY <1>6, <3>2, FinalizeType, RequestType DEF Complete
    <3>3. CASE StillAccepted(b) /\ s \notin Terminal
      <4>1. /\ s \in Statuses
            /\ b \in Biz
        BY <2>2, RequestType DEF Statuses, Terminal
      <4>2. /\ status' = [status EXCEPT ![b] = s]
            /\ audited' = [audited EXCEPT ![b] = [audited[b] EXCEPT ![s] = audited[b][s] + 1]]
            /\ UNCHANGED <<finalized, forwarded>>
        BY <1>6, <3>3 DEF Complete
      <4>3. /\ audited[b] \in [Statuses -> Nat]
            /\ audited[b][s] \in Nat
        BY <4>1 DEF LedgerType
      <4>4. [audited[b] EXCEPT ![s] = audited[b][s] + 1] \in [Statuses -> Nat]
        BY <4>1, <4>3
      <4> QED
        BY <4>1, <4>2, <4>4 DEF LedgerType
    <3> QED
      BY <3>1, <3>2, <3>3
  <2>4. IdemType'
    <3>1. status'[b] \in Statuses
      <4>1. CASE StillAccepted(b)
        BY <1>6, <2>2, <4>1, RequestType
           DEF Complete, Finalize, LedgerType, Statuses, Terminal
      <4>2. CASE ~StillAccepted(b)
        BY <1>6, <4>2, RequestType
           DEF Complete, ledger, LedgerType, RequestInv, ActiveInv, Active
      <4> QED
        BY <4>1, <4>2
    <3>2. answer[p] \in Answers \union {None} /\ StillAccepted(b) \in BOOLEAN
      BY DEF ThreadsType, StillAccepted
    <3>3. ResponseOf(p, status'[b], StillAccepted(b)) \in Responses
      BY <3>1, <3>2, ResponseRange
    <3>4. idem[Key(p)] # None /\ Key(p) \in Keys
      BY <1>6, RequestType DEF Complete, RequestInv, ActiveInv, Active
    <3>5. idem' = [idem EXCEPT ![Key(p)] =
                     [idem[Key(p)] EXCEPT !.response = ResponseOf(p, status'[b], StillAccepted(b))]]
      BY <1>6 DEF Complete
    <3>6. [idem[Key(p)] EXCEPT !.response = ResponseOf(p, status'[b], StillAccepted(b))]
            \in Records
      BY <3>3, <3>4 DEF IdemType, Records
    <3> QED
      BY <3>5, <3>6 DEF IdemType
  <2> QED
    BY <1>6, <2>1, <2>3, <2>4, UnchangedTypes DEF Complete
<1>7. CASE Crash(p)
  <2>1. ThreadsType'
    BY <1>7 DEF Crash, ThreadsType, Labels
  <2> QED
    BY <1>7, <2>1, UnchangedTypes DEF Crash
<1> QED
  BY <1>1, <1>2, <1>3, <1>4, <1>5, <1>6, <1>7 DEF Submit

LEMMA BankKeepsType ==
  ASSUME TypeOK, Bank
  PROVE  TypeOK'
<1> USE TypeParts
<1>1. ASSUME NEW b \in Biz, NEW next \in BankStates, BankMoves(b, next)
      PROVE  TypeOK'
  <2>1. BankType'
    BY <1>1 DEF BankMoves, BankType
  <2> QED
    BY <1>1, <2>1, UnchangedTypes DEF BankMoves
<1>2. ASSUME NEW b \in Biz, BankReceives(b) \/ BankSettles(b)
      PROVE  TypeOK'
  BY <1>1, <1>2 DEF BankReceives, BankSettles, BankStates, Terminal
<1>3. ASSUME NEW n \in [id : Callbacks, biz : Biz, word : Words \ {"PROCESSING"}],
             BankNotifies(n)
      PROVE  TypeOK'
  <2>1. n \in Notices
    BY DEF Notices
  <2>2. CallbacksType'
    BY <1>3, <2>1 DEF BankNotifies, CallbacksType
  <2> QED
    BY <1>3, <2>2, UnchangedTypes DEF BankNotifies
<1> QED
  BY <1>2, <1>3 DEF Bank

\* Past its first step a handler works for a row of the inbox, with the body
\* of that row.
HandlerInv ==
  \A h \in Handlers : handler[h].pc # "idle" =>
    /\ handler[h].id \in Callbacks
    /\ inbox[handler[h].id] # None
    /\ handler[h].pc # "duplicate" => handler[h].body = inbox[handler[h].id].body
    /\ handler[h].pc = "apply" => handler[h].result \in Terminal

LEMMA HandlerFacts ==
  ASSUME TypeOK, HandlerInv, NEW h \in Handlers, handler[h].pc # "idle"
  PROVE  /\ handler[h] \in HandlerStates
         /\ handler[h].id \in Callbacks
         /\ inbox[handler[h].id] \in Rows
         /\ inbox[handler[h].id].body \in Bodies
         /\ handler[h].pc # "duplicate" =>
              /\ handler[h].body \in Bodies
              /\ handler[h].body.biz \in Biz
BY DEF TypeOK, HandlerInv, HandlerStates, Bodies, Rows

LEMMA HandleType ==
  ASSUME TypeOK, HandlerInv, NEW h \in Handlers,
         \/ \E n \in notices : Receive(h, n)
         \/ Handle(h) \/ HandlerFails(h) \/ HandlerCrash(h)
  PROVE  TypeOK'
<1> USE TypeParts
<1> DEFINE H == handler[h]
           Goes(f) == handler' = [handler EXCEPT ![h] = f]
<1>1. H \in HandlerStates
  BY DEF TypeOK
<1>2. Idle \in HandlerStates
  BY DEF Idle, HandlerStates, Results
<1>3. ASSUME NEW f \in HandlerStates, Goes(f), UNCHANGED <<notices, inbox>>
      PROVE  CallbacksType'
  BY <1>3 DEF CallbacksType
<1>4. ASSUME NEW f \in HandlerStates, Goes(f), UNCHANGED notices,
             NEW s \in {"RECEIVED", "PROCESSED"}, SetInbox(h, s), H.pc # "idle"
      PROVE  CallbacksType'
  <2>1. inbox' = [inbox EXCEPT ![H.id] = [inbox[H.id] EXCEPT !.state = s]]
    BY <1>4 DEF SetInbox
  <2>2. [inbox[H.id] EXCEPT !.state = s] \in Rows
    BY <1>4, HandlerFacts DEF Rows
  <2> QED
    BY <1>4, <2>1, <2>2 DEF CallbacksType
<1>5. ASSUME NEW n \in notices, Receive(h, n)
      PROVE  TypeOK'
  <2>1. /\ n.id \in Callbacks
        /\ [biz |-> n.biz, word |-> n.word] \in Bodies
    BY DEF CallbacksType, Notices, Bodies
  <2>2. CASE inbox[n.id] = None
    <3>1. [Idle EXCEPT !.pc = "resolve", !.id = n.id,
             !.body = [biz |-> n.biz, word |-> n.word]] \in HandlerStates
      BY <1>2, <2>1 DEF HandlerStates
    <3>2. /\ inbox' = [inbox EXCEPT ![n.id] =
                         [state |-> "RECEIVED", body |-> [biz |-> n.biz, word |-> n.word]]]
          /\ Goes([Idle EXCEPT !.pc = "resolve", !.id = n.id,
                     !.body = [biz |-> n.biz, word |-> n.word]])
          /\ UNCHANGED notices
      BY <1>5, <2>2 DEF Receive, Step
    <3>3. CallbacksType'
      BY <2>1, <3>1, <3>2 DEF CallbacksType, Rows
    <3> QED
      BY <1>5, <3>3, UnchangedTypes DEF Receive
  <2>3. CASE inbox[n.id] # None
    <3>1. [Idle EXCEPT !.pc = "duplicate", !.id = n.id] \in HandlerStates
      BY <1>2, <2>1 DEF HandlerStates
    <3> QED
      BY <1>5, <2>3, <3>1, <1>3, UnchangedTypes DEF Receive, Step
  <2> QED
    BY <2>2, <2>3
<1>6. CASE Duplicate(h)
  <2>1. [H EXCEPT !.pc = "resolve", !.body = inbox[H.id].body, !.replay = TRUE]
          \in HandlerStates
    BY <1>1, <1>6, HandlerFacts DEF HandlerStates, Duplicate
  <2> QED
    BY <1>6, <1>2, <2>1, <1>3, UnchangedTypes DEF Duplicate, Step
<1>7. CASE ResolveTerminal(h)
  <2>1. handler[h].body.biz \in Biz
    BY <1>7, HandlerFacts DEF ResolveTerminal
  <2>2. LedgerType'
    BY <1>7, <2>1, MapTxnStatusRange, VerdictType DEF ResolveTerminal
  <2>3. \A l \in {"mark", "unresolved"} : [H EXCEPT !.pc = l] \in HandlerStates
    BY <1>1 DEF HandlerStates
  <2>4. PICK l \in {"mark", "unresolved"} : Goes([H EXCEPT !.pc = l])
    BY <1>7 DEF ResolveTerminal, Step
  <2>5. CallbacksType'
    BY <1>7, <2>3, <2>4, <1>3 DEF ResolveTerminal
  <2> QED
    BY <1>7, <2>2, <2>5, UnchangedTypes DEF ResolveTerminal
<1>8. CASE ResolvePeek(h)
  <2> DEFINE b == H.body.biz
             o == status[b] = "SUCCEEDED"
             l == CASE status[b] = "ABSENT" -> "unresolved"
                    [] Finished(b) /\ status[b] \notin {"ABSENT", "SUCCEEDED"} -> "mark"
                    [] OTHER -> "query"
  <2>1. Goes([H EXCEPT !.optional = o, !.pc = l])
    BY <1>8 DEF ResolvePeek, Step
  <2>2. l \in {"mark", "unresolved", "query"} /\ o \in BOOLEAN
    OBVIOUS
  <2> HIDE DEF l, o
  <2>3. [H EXCEPT !.optional = o, !.pc = l] \in HandlerStates
    BY <1>1, <2>2 DEF HandlerStates
  <2> QED
    BY <1>8, <2>1, <2>3, <1>3, UnchangedTypes DEF ResolvePeek
<1>9. ASSUME NEW r \in Results, HandlerQuery(h, r)
      PROVE  TypeOK'
  <2>1. \A l \in {"apply", "mark", "recheck"} : [H EXCEPT !.result = r, !.pc = l] \in HandlerStates
    BY <1>1 DEF HandlerStates
  <2> QED
    BY <1>9, <2>1, <1>3, UnchangedTypes DEF HandlerQuery, Step
<1>10. CASE HandlerApply(h)
  <2>1. handler[h].body.biz \in Biz /\ handler[h].result \in Results
    BY <1>10, HandlerFacts DEF HandlerApply, HandlerStates
  <2>2. LedgerType'
    BY <1>10, <2>1, VerdictType DEF HandlerApply
  <2>3. \A l \in {"mark", "recheck"} : [H EXCEPT !.pc = l] \in HandlerStates
    BY <1>1 DEF HandlerStates
  <2> QED
    BY <1>10, <2>2, <2>3, <1>3, UnchangedTypes DEF HandlerApply, Step
<1>11. CASE Recheck(h)
  <2>1. \A l \in {"mark", "unresolved"} : [H EXCEPT !.pc = l] \in HandlerStates
    BY <1>1 DEF HandlerStates
  <2> QED
    BY <1>11, <2>1, <1>3, UnchangedTypes DEF Recheck, Step
<1>12. CASE MarkProcessed(h)
  BY <1>12, <1>2, <1>4, UnchangedTypes DEF MarkProcessed, Step
<1>13. CASE MarkUnresolved(h)
  BY <1>13, <1>2, <1>3, <1>4, UnchangedTypes DEF MarkUnresolved, Step
<1>14. CASE HandlerFails(h)
  <2>1. \A l \in {"mark", "unresolved"} : [H EXCEPT !.pc = l] \in HandlerStates
    BY <1>1 DEF HandlerStates
  <2> QED
    BY <1>14, <2>1, <1>3, UnchangedTypes DEF HandlerFails, Step
<1>15. CASE HandlerCrash(h)
  BY <1>15, <1>2, <1>3, UnchangedTypes DEF HandlerCrash, Step
<1> QED
  BY <1>5, <1>6, <1>7, <1>8, <1>9, <1>10, <1>11, <1>12, <1>13, <1>14, <1>15 DEF Handle

WorkerInv ==
  worker.pc # "idle" => worker.biz \in Biz

LEMMA ReconcileType ==
  ASSUME TypeOK, WorkerInv, Reconcile
  PROVE  TypeOK'
<1> USE TypeParts
<1>1. Resting \in [pc : {"idle", "query", "apply"}, biz : Biz \union {None}, result : Results]
  BY DEF Resting, Results
<1>2. ASSUME NEW b \in Biz, Pick(b) \/ Ages(b) \/ Alert(b)
      PROVE  TypeOK'
  <2>1. SweepType'
    BY <1>2 DEF Pick, Ages, Alert, SweepType
  <2> QED
    BY <1>2, <2>1, UnchangedTypes DEF Pick, Ages, Alert
<1>3. ASSUME NEW r \in Results, WorkerQuery(r)
      PROVE  TypeOK'
  <2>1. SweepType'
    BY <1>1, <1>3 DEF WorkerQuery, SweepType
  <2> QED
    BY <1>3, <2>1, UnchangedTypes DEF WorkerQuery
<1>4. CASE WorkerApply
  <2>1. LedgerType'
    BY <1>4, VerdictType DEF WorkerApply, WorkerInv, SweepType
  <2>2. SweepType'
    BY <1>1, <1>4 DEF WorkerApply, SweepType
  <2> QED
    BY <1>4, <2>1, <2>2, UnchangedTypes DEF WorkerApply
<1>5. CASE WorkerFails
  <2>1. SweepType'
    BY <1>1, <1>5 DEF WorkerFails, SweepType
  <2> QED
    BY <1>5, <2>1, UnchangedTypes DEF WorkerFails
<1> QED
  BY <1>2, <1>3, <1>4, <1>5 DEF Reconcile

-----------------------------------------------------------------------------
(* How a step may change the ledger.                                       *)

Accepts(b) ==
  /\ status[b] = "ABSENT"
  /\ status' = [status EXCEPT ![b] = "ACCEPTED"]
  /\ UNCHANGED <<finalized, audited, forwarded>>

Suspends(b, s) ==
  /\ status[b] = "ACCEPTED"
  /\ status' = [status EXCEPT ![b] = s]
  /\ audited' = [audited EXCEPT ![b] = [audited[b] EXCEPT ![s] = audited[b][s] + 1]]
  /\ UNCHANGED <<finalized, forwarded>>

Settles(b, s) ==
  /\ s \in Terminal
  /\ \/ status[b] = "ACCEPTED" /\ Finalize(b, s, FALSE)
     \/ Takes(b, s) /\ Finalize(b, s, Settled(b))

LedgerStep ==
  \/ UNCHANGED ledger
  \/ \E b \in Biz : Accepts(b) \/ \E s \in {"SUBMITTED", "RESULT_UNKNOWN"} : Suspends(b, s)
  \/ \E b \in Biz, s \in Terminal : Settles(b, s)

\* A verdict is taken only if it is terminal.
LEMMA TakesTerminal ==
  ASSUME NEW b, NEW s \in Results, Takes(b, s)
  PROVE  s \in Terminal
BY DEF Takes, Upgrades, CanMove, Results, Terminal, Unmapped

LEMMA VerdictSteps ==
  ASSUME NEW b \in Biz, NEW s \in Results, Verdict(b, s)
  PROVE  \/ UNCHANGED ledger
         \/ Takes(b, s) /\ Settles(b, s)
BY TakesTerminal DEF Verdict, Settles

LEMMA SubmitLedger ==
  ASSUME TypeOK, NEW p \in Threads, Submit(p)
  PROVE  \/ UNCHANGED ledger
         \/ LET b == intent[p].biz IN
            \/ Accepts(b) /\ Register(p)
            \/ /\ Complete(p) /\ status[b] = "ACCEPTED"
               /\ \/ \E s \in {"SUBMITTED", "RESULT_UNKNOWN"} : Suspends(b, s)
                  \/ \E s \in Terminal : s = LedgerStatus(answer[p], Repayment(p)) /\ Settles(b, s)
<1>1. CASE Register(p)
  BY <1>1 DEF Register, Accepts, BizFree, ledger
<1>2. CASE Complete(p)
  <2> DEFINE b == intent[p].biz
             s == LedgerStatus(answer[p], Repayment(p))
  <2>1. s \in {"SUBMITTED", "RESULT_UNKNOWN"} \union Terminal
    <3>1. Repayment(p) \in BOOLEAN
      BY DEF Repayment
    <3> QED
      BY <3>1, LedgerStatusRange
  <2>2. CASE s \in Terminal
    BY <1>2, <2>2 DEF Complete, StillAccepted, Settles
  <2>3. CASE s \notin Terminal
    BY <1>2, <2>1, <2>3 DEF Complete, StillAccepted, Suspends
  <2> QED
    BY <2>2, <2>3
<1> QED
  BY <1>1, <1>2 DEF Submit, Lookup, Dispatch, Answered, AnsweredGarbage, Crash

LEMMA HandleLedger ==
  ASSUME TypeOK, HandlerInv, NEW h \in Handlers,
         \/ \E n \in notices : Receive(h, n)
         \/ Handle(h) \/ HandlerFails(h) \/ HandlerCrash(h)
  PROVE  \/ UNCHANGED ledger
         \/ \E s \in Terminal : /\ Takes(handler[h].body.biz, s)
                                /\ Settles(handler[h].body.biz, s)
                                /\ \/ ResolveTerminal(h) /\ s = MapTxnStatus(handler[h].body.word)
                                   \/ HandlerApply(h) /\ s = handler[h].result
<1>1. CASE ResolveTerminal(h)
  BY <1>1, HandlerFacts, MapTxnStatusRange, VerdictSteps, TakesTerminal DEF ResolveTerminal
<1>2. CASE HandlerApply(h)
  BY <1>2, HandlerFacts, VerdictSteps, TakesTerminal DEF HandlerApply, HandlerStates
<1> QED
  BY <1>1, <1>2 DEF Handle, Receive, HandlerFails, HandlerCrash, Duplicate, ResolvePeek,
     HandlerQuery, Recheck, MarkProcessed, MarkUnresolved

LEMMA ReconcileLedger ==
  ASSUME TypeOK, WorkerInv, Reconcile
  PROVE  \/ UNCHANGED ledger
         \/ /\ worker.biz \in Biz /\ worker.result \in Terminal /\ WorkerApply
            /\ Takes(worker.biz, worker.result) /\ Settles(worker.biz, worker.result)
<1>1. CASE WorkerApply
  BY <1>1, VerdictSteps, TakesTerminal DEF WorkerApply, WorkerInv, TypeOK
<1> QED
  BY <1>1 DEF Reconcile, Pick, Ages, Alert, WorkerQuery, WorkerFails

\* A verdict leaves an order that is not registered alone.
LEMMA VerdictNeedsOrder ==
  ASSUME TypeOK, NEW b \in Biz, NEW s, Takes(b, s), Settles(b, s)
  PROVE  \A c \in Biz : status[c] = "ABSENT" => status'[c] = "ABSENT"
BY DEF Takes, Settles, Finalize, TypeOK

LEMMA BankLedger ==
  ASSUME Bank
  PROVE  UNCHANGED <<ledger, idem, threads, calls, inbox, handler, sweep>>
BY DEF Bank, BankReceives, BankSettles, BankNotifies, BankMoves, callbacks

\* What the theorems below need to know of a step.
LEMMA NextLedger ==
  ASSUME TypeOK, HandlerInv, WorkerInv, [Next]_vars
  PROVE  LedgerStep
<1>1. ASSUME NEW p \in Threads, Submit(p)
      PROVE  LedgerStep
  <2>1. intent[p].biz \in Biz
    BY DEF TypeOK, Intents
  <2> QED
    BY <1>1, <2>1, SubmitLedger DEF LedgerStep
<1>2. ASSUME NEW h \in Handlers,
             \/ \E n \in notices : Receive(h, n)
             \/ Handle(h) \/ HandlerFails(h) \/ HandlerCrash(h)
      PROVE  LedgerStep
  <2>1. CASE UNCHANGED ledger
    BY <2>1 DEF LedgerStep
  <2>2. CASE ~UNCHANGED ledger
    <3>1. handler[h].pc \notin {"idle", "duplicate"}
      BY <1>2, <2>2, HandleLedger DEF ResolveTerminal, HandlerApply
    <3>2. handler[h].body.biz \in Biz
      BY <3>1, HandlerFacts
    <3> QED
      BY <1>2, <2>2, <3>2, HandleLedger DEF LedgerStep
  <2> QED
    BY <2>1, <2>2
<1>3. CASE Bank
  BY <1>3, BankLedger DEF LedgerStep, ledger
<1>4. CASE Reconcile
  BY <1>4, ReconcileLedger DEF LedgerStep
<1>5. CASE UNCHANGED vars
  BY <1>5 DEF LedgerStep, vars
<1> QED
  BY <1>1, <1>2, <1>3, <1>4, <1>5 DEF Next

\* An order, once registered, is never forgotten.
LEMMA NeverAbsentAgain ==
  ASSUME TypeOK, LedgerStep, NEW b \in Biz, status[b] # "ABSENT"
  PROVE  status'[b] # "ABSENT"
BY DEF LedgerStep, Accepts, Suspends, Settles, Finalize, Terminal, ledger, TypeOK

LEMMA RequestInvInit == Init => RequestInv
BY DEF Init, RequestInv, ActiveInv, ExclusiveInv, AbsentInv, Active

\* Other actors leave the requests alone.
LEMMA RequestInvOthers ==
  ASSUME TypeOK, LedgerStep, RequestInv, UNCHANGED <<idem, threads, calls>>,
         \A b \in Biz : status[b] = "ABSENT" => status'[b] = "ABSENT"
  PROVE  RequestInv'
<1>1. \A b \in Biz : status[b] # "ABSENT" => status'[b] # "ABSENT"
  BY NeverAbsentAgain
<1>2. \A p \in Threads : intent[p].biz \in Biz /\ Key(p) \in Keys
  BY DEF TypeOK, Intents, Key, Keys
<1>3. \A p \in Threads : (Active(p)' <=> Active(p)) /\ Key(p)' = Key(p)
  BY DEF Active, Key, threads
<1>4. ActiveInv' /\ ExclusiveInv'
  BY <1>1, <1>2, <1>3 DEF RequestInv, ActiveInv, ExclusiveInv, threads
<1>5. AbsentInv'
  BY <1>1 DEF RequestInv, AbsentInv, Keys
<1> QED
  BY <1>4, <1>5 DEF RequestInv

LEMMA RequestInvSubmit ==
  ASSUME TypeOK, LedgerStep, RequestInv, NEW p \in Threads, Submit(p)
  PROVE  RequestInv'
<1> DEFINE b == intent[p].biz
<1>1. \A c \in Biz : status[c] # "ABSENT" => status'[c] # "ABSENT"
  BY NeverAbsentAgain
<1>2. \A q \in Threads : intent[q].biz \in Biz /\ Key(q) \in Keys /\ Key(q)[1] = intent[q].biz
  BY DEF TypeOK, Intents, Key, Keys
<1>3. intent' = intent /\ \A q \in Threads : Key(q)' = Key(q)
  BY DEF Submit, Lookup, Register, Dispatch, Answered, AnsweredGarbage, Complete, Crash,
     Respond, Continue, Key
<1>4. ASSUME UNCHANGED <<idem, calls, status>>,
             \/ \E l \in {"register", "done", "crashed"} : pc' = [pc EXCEPT ![p] = l]
             \/ pc[p] = "calling" /\ pc' = [pc EXCEPT ![p] = "answered"]
      PROVE  RequestInv'
  <2>1. \A q \in Threads : Active(q)' => Active(q) /\ (pc'[q] = "dispatch" <=> pc[q] = "dispatch")
    BY <1>4 DEF Active, TypeOK
  <2> QED
    BY <1>2, <1>3, <1>4, <2>1 DEF RequestInv, ActiveInv, ExclusiveInv, AbsentInv
<1>5. CASE Lookup(p)
  BY <1>4, <1>5 DEF Lookup, Respond, Continue, ledger
<1>6. CASE Register(p)
  <2>1. CASE idem[Key(p)] # None \/ ~BizFree(b)
    BY <1>4, <1>6, <2>1 DEF Register, Respond, ledger
  <2>2. CASE idem[Key(p)] = None /\ BizFree(b)
    <3>1. /\ idem[Key(p)] = None
          /\ status[b] = "ABSENT"
          /\ idem' = [idem EXCEPT ![Key(p)] = [payload |-> intent[p].payload, response |-> None]]
          /\ status' = [status EXCEPT ![b] = "ACCEPTED"]
          /\ pc' = [pc EXCEPT ![p] = "dispatch"]
          /\ UNCHANGED calls
      BY <1>6, <2>2 DEF Register, Continue, BizFree
    <3>2. calls[b] = 0
      BY <1>2, <3>1 DEF RequestInv, AbsentInv
    <3>3. \A q \in Threads : q # p /\ Active(q) => intent[q].biz # b
      BY <3>1 DEF RequestInv, ActiveInv
    <3>4. \A q \in Threads : q # p => (Active(q)' <=> Active(q)) /\ pc'[q] = pc[q]
      BY <3>1 DEF Active, TypeOK
    <3>5. pc'[p] = "dispatch"
      BY <3>1 DEF TypeOK
    <3>6. idem'[Key(p)] = [payload |-> intent[p].payload, response |-> None]
      BY <1>2, <3>1 DEF TypeOK
    <3>7. status'[b] = "ACCEPTED"
      BY <1>2, <3>1 DEF TypeOK
    <3>8. idem'[Key(p)] # None
      <4>1. [payload |-> intent[p].payload, response |-> None] \in Records
        BY DEF Records, TypeOK, Intents
      <4> QED
        BY <3>6, <4>1, NoneAssumption
    <3>9. \A q \in Threads : q # p /\ Active(q) => idem'[Key(q)] = idem[Key(q)]
      <4>1. \A q \in Threads : q # p /\ Active(q) => Key(q) # Key(p)
        BY <1>2, <3>3
      <4>2. idem \in [Keys -> {None} \union Records]
        BY DEF TypeOK
      <4> QED
        BY <1>2, <3>1, <4>1, <4>2
    <3>10. ActiveInv'
      BY <1>1, <1>2, <1>3, <3>1, <3>2, <3>4, <3>5, <3>6, <3>7, <3>8, <3>9
         DEF RequestInv, ActiveInv
    <3>11. ExclusiveInv'
      BY <1>3, <3>3, <3>4 DEF RequestInv, ExclusiveInv
    <3>12. AbsentInv'
      BY <1>1, <1>2, <3>1, <3>7 DEF RequestInv, AbsentInv, TypeOK, Keys
    <3> QED
      BY <3>10, <3>11, <3>12 DEF RequestInv
  <2> QED
    BY <2>1, <2>2
<1>7. CASE Dispatch(p)
  <2>1. /\ pc[p] = "dispatch"
        /\ pc' = [pc EXCEPT ![p] = "calling"]
        /\ calls' = [calls EXCEPT ![b] = calls[b] + 1]
        /\ UNCHANGED <<idem, status>>
    BY <1>7 DEF Dispatch, Continue, ledger
  <2>2. Active(p)
    BY <2>1 DEF Active
  <2>3. \A q \in Threads : q # p /\ Active(q) => intent[q].biz # b
    BY <2>2 DEF RequestInv, ExclusiveInv
  <2>4. \A q \in Threads : Active(q)' <=> Active(q)
    BY <2>1 DEF Active, TypeOK
  <2>5. \A q \in Threads : q # p => pc'[q] = pc[q]
    BY <2>1 DEF TypeOK
  <2>6. calls'[b] = 1 /\ pc'[p] = "calling"
    BY <1>2, <2>1, <2>2 DEF RequestInv, ActiveInv, TypeOK
  <2>7. ActiveInv'
    BY <1>2, <1>3, <2>1, <2>3, <2>4, <2>5, <2>6 DEF RequestInv, ActiveInv, TypeOK
  <2>8. ExclusiveInv'
    BY <1>3, <2>4 DEF RequestInv, ExclusiveInv
  <2>9. AbsentInv'
    BY <1>2, <2>1, <2>2 DEF RequestInv, AbsentInv, ActiveInv, TypeOK, Keys
  <2> QED
    BY <2>7, <2>8, <2>9 DEF RequestInv
<1>8. ASSUME NEW a \in Answers, Answered(p, a)
      PROVE  RequestInv'
  BY <1>4, <1>8 DEF Answered, ledger
<1>9. CASE AnsweredGarbage(p)
  BY <1>4, <1>9 DEF AnsweredGarbage, Respond, ledger
<1>10. CASE Complete(p)
  <2>1. /\ pc[p] = "answered"
        /\ pc' = [pc EXCEPT ![p] = "done"]
        /\ UNCHANGED calls
        /\ \A k \in Keys : k # Key(p) => idem'[k] = idem[k]
    BY <1>10 DEF Complete, Respond, TypeOK
  <2>2. Active(p)
    BY <2>1 DEF Active
  <2>3. \A q \in Threads : Active(q)' => q # p /\ Active(q) /\ pc'[q] = pc[q]
    BY <2>1 DEF Active, TypeOK
  <2>4. \A q \in Threads : q # p /\ Active(q) => intent[q].biz # b
    BY <2>2 DEF RequestInv, ExclusiveInv
  <2>5. \A q \in Threads : q # p /\ Active(q) => idem'[Key(q)] = idem[Key(q)]
    BY <1>2, <2>1, <2>4
  <2>6. ActiveInv'
    BY <1>1, <1>2, <1>3, <2>1, <2>3, <2>5 DEF RequestInv, ActiveInv
  <2>7. ExclusiveInv'
    BY <1>3, <2>3 DEF RequestInv, ExclusiveInv
  <2>8. \A c \in Biz : status[c] = "ABSENT" => status'[c] = "ABSENT"
    <3>1. status' = status \/ (status[b] = "ACCEPTED" /\ \E t : status' = [status EXCEPT ![b] = t])
      BY <1>10 DEF Complete, StillAccepted, Finalize, ledger
    <3> QED
      BY <3>1 DEF TypeOK
  <2>9. status[b] # "ABSENT"
    BY <2>2 DEF RequestInv, ActiveInv
  <2>10. AbsentInv'
    BY <1>1, <1>2, <2>1, <2>9 DEF RequestInv, AbsentInv, Keys
  <2> QED
    BY <2>6, <2>7, <2>10 DEF RequestInv
<1>11. CASE Crash(p)
  BY <1>4, <1>11 DEF Crash, ledger
<1> QED
  BY <1>5, <1>6, <1>7, <1>8, <1>9, <1>10, <1>11 DEF Submit

-----------------------------------------------------------------------------
(* Handlers, the inbox and the worker.                                     *)

\* What a step of handler h does to h itself and to the inbox.
HandlerMoves(h) ==
  /\ \A g \in Handlers : g # h => handler'[g] = handler[g]
  /\ \A c \in Callbacks : inbox[c] # None =>
       /\ inbox'[c] # None
       /\ inbox'[c].body = inbox[c].body

HandlerFine(h) ==
  handler[h].pc # "idle" =>
    /\ handler[h].id \in Callbacks
    /\ inbox[handler[h].id] # None
    /\ handler[h].pc # "duplicate" => handler[h].body = inbox[handler[h].id].body
    /\ handler[h].pc = "apply" => handler[h].result \in Terminal

LEMMA SetInboxFacts ==
  ASSUME TypeOK, NEW c \in Callbacks, inbox[c] # None, NEW s \in {"RECEIVED", "PROCESSED"},
         inbox' = [inbox EXCEPT ![c].state = s]
  PROVE  /\ inbox'[c] = [state |-> s, body |-> inbox[c].body]
         /\ \A d \in Callbacks : inbox[d] # None =>
              inbox'[d] # None /\ inbox'[d].body = inbox[d].body
<1>1. inbox[c] \in Rows
  BY DEF TypeOK
<1>2. inbox'[c] = [inbox[c] EXCEPT !.state = s]
  BY DEF TypeOK
<1>3. inbox'[c] = [state |-> s, body |-> inbox[c].body] /\ inbox'[c] \in Rows
  BY <1>1, <1>2 DEF Rows
<1>4. \A d \in Callbacks : d # c => inbox'[d] = inbox[d]
  BY DEF TypeOK
<1> QED
  BY <1>3, <1>4, NoneAssumption

LEMMA HandlerFineSteps ==
  ASSUME TypeOK, HandlerInv, NEW h \in Handlers,
         \/ \E n \in notices : Receive(h, n)
         \/ Handle(h) \/ HandlerFails(h) \/ HandlerCrash(h)
  PROVE  HandlerFine(h)' /\ HandlerMoves(h)
<1> DEFINE H == handler[h]
           Goes(f) == handler' = [handler EXCEPT ![h] = f]
<1> USE DEF HandlerMoves
<1>1. HandlerFine(h) /\ H \in HandlerStates
  BY DEF HandlerInv, HandlerFine, TypeOK
<1>2. \A f : Goes(f) => handler'[h] = f /\ \A g \in Handlers : g # h => handler'[g] = handler[g]
  BY DEF TypeOK
<1>3. ASSUME NEW l, l \notin {"idle", "apply"}, H.pc \notin {"idle", "duplicate"},
             Goes([H EXCEPT !.pc = l]), UNCHANGED inbox
      PROVE  HandlerFine(h)' /\ HandlerMoves(h)
  BY <1>1, <1>2, <1>3 DEF HandlerFine, HandlerStates
<1>4. ASSUME NEW n \in notices, Receive(h, n)
      PROVE  HandlerFine(h)' /\ HandlerMoves(h)
  <2> DEFINE body == [biz |-> n.biz, word |-> n.word]
  <2>1. n.id \in Callbacks /\ body \in Bodies
    BY DEF TypeOK, Notices, Bodies
  <2>2. CASE inbox[n.id] = None
    <3>1. /\ inbox' = [inbox EXCEPT ![n.id] = [state |-> "RECEIVED", body |-> body]]
          /\ Goes([Idle EXCEPT !.pc = "resolve", !.id = n.id, !.body = body])
      BY <1>4, <2>2 DEF Receive, Step
    <3>2. /\ inbox'[n.id] = [state |-> "RECEIVED", body |-> body]
          /\ \A c \in Callbacks : c # n.id => inbox'[c] = inbox[c]
      BY <2>1, <3>1 DEF TypeOK
    <3>3. inbox'[n.id] # None
      BY <2>1, <3>2, NoneAssumption DEF Rows
    <3>4. /\ handler'[h].pc = "resolve"
          /\ handler'[h].id = n.id
          /\ handler'[h].body = body
      BY <1>2, <3>1 DEF Idle
    <3> QED
      BY <1>2, <2>1, <2>2, <3>1, <3>2, <3>3, <3>4 DEF HandlerFine
  <2>3. CASE inbox[n.id] # None
    <3>1. Goes([Idle EXCEPT !.pc = "duplicate", !.id = n.id]) /\ UNCHANGED inbox
      BY <1>4, <2>3 DEF Receive, Step
    <3>2. handler'[h].pc = "duplicate" /\ handler'[h].id = n.id
      BY <1>2, <3>1 DEF Idle
    <3> QED
      BY <1>2, <2>1, <2>3, <3>1, <3>2 DEF HandlerFine
  <2> QED
    BY <2>2, <2>3
<1>5. CASE Duplicate(h)
  <2>1. CASE inbox[H.id].state = "RECEIVED"
    <3>1. /\ H.pc = "duplicate"
          /\ UNCHANGED inbox
          /\ Goes([H EXCEPT !.pc = "resolve", !.body = inbox[H.id].body, !.replay = TRUE])
      BY <1>5, <2>1 DEF Duplicate, Step
    <3> QED
      BY <1>1, <1>2, <3>1 DEF HandlerFine, HandlerStates
  <2>2. CASE inbox[H.id].state # "RECEIVED"
    BY <1>5, <1>2, <2>2 DEF Duplicate, Step, HandlerFine, Idle
  <2> QED
    BY <2>1, <2>2
<1>6. CASE ResolveTerminal(h)
  <2>1. PICK l \in {"mark", "unresolved"} : Goes([H EXCEPT !.pc = l])
    BY <1>6 DEF ResolveTerminal, Step
  <2>2. UNCHANGED inbox /\ H.pc = "resolve"
    BY <1>6 DEF ResolveTerminal
  <2> QED
    BY <1>3, <2>1, <2>2
<1>7. CASE ResolvePeek(h)
  <2> DEFINE b == H.body.biz
             o == status[b] = "SUCCEEDED"
             l == CASE status[b] = "ABSENT" -> "unresolved"
                    [] Finished(b) /\ status[b] \notin {"ABSENT", "SUCCEEDED"} -> "mark"
                    [] OTHER -> "query"
  <2>1. Goes([H EXCEPT !.optional = o, !.pc = l]) /\ UNCHANGED inbox /\ H.pc = "resolve"
    BY <1>7 DEF ResolvePeek, Step
  <2>2. l \notin {"idle", "apply"}
    OBVIOUS
  <2> HIDE DEF l, o
  <2> QED
    BY <1>1, <1>2, <2>1, <2>2 DEF HandlerFine, HandlerStates
<1>8. ASSUME NEW r \in Results, HandlerQuery(h, r)
      PROVE  HandlerFine(h)' /\ HandlerMoves(h)
  <2> DEFINE l == CASE r # Unmapped -> "apply"
                    [] r = Unmapped /\ H.optional -> "mark"
                    [] OTHER -> "recheck"
  <2>1. Goes([H EXCEPT !.result = r, !.pc = l])
    BY <1>8 DEF HandlerQuery, Step
  <2>3. l \in {"apply", "mark", "recheck"} /\ (l = "apply" => r # Unmapped)
    OBVIOUS
  <2> HIDE DEF l
  <2>2. UNCHANGED inbox /\ H.pc = "query"
    BY <1>8 DEF HandlerQuery
  <2> QED
    BY <1>1, <1>2, <2>1, <2>2, <2>3 DEF HandlerFine, HandlerStates, Results
<1>9. CASE HandlerApply(h)
  <2>1. PICK l \in {"mark", "recheck"} : Goes([H EXCEPT !.pc = l])
    BY <1>9 DEF HandlerApply, Step
  <2>2. UNCHANGED inbox /\ H.pc = "apply"
    BY <1>9 DEF HandlerApply
  <2> QED
    BY <1>3, <2>1, <2>2
<1>10. CASE Recheck(h)
  <2>1. PICK l \in {"mark", "unresolved"} : Goes([H EXCEPT !.pc = l])
    BY <1>10 DEF Recheck, Step
  <2>2. UNCHANGED inbox /\ H.pc = "recheck"
    BY <1>10 DEF Recheck
  <2> QED
    BY <1>3, <2>1, <2>2
<1>11. CASE MarkProcessed(h)
  <2>1. Goes(Idle) /\ H.pc # "idle" /\ SetInbox(h, "PROCESSED")
    BY <1>11 DEF MarkProcessed, Step
  <2> QED
    BY <1>1, <1>2, <2>1, SetInboxFacts DEF SetInbox, HandlerFine, Idle
<1>12. CASE MarkUnresolved(h)
  <2>1. Goes(Idle) /\ H.pc # "idle"
    BY <1>12 DEF MarkUnresolved, Step
  <2>2. CASE UNCHANGED inbox
    BY <1>2, <2>1, <2>2 DEF HandlerFine, Idle
  <2>3. CASE SetInbox(h, "RECEIVED")
    BY <1>1, <1>2, <2>1, <2>3, SetInboxFacts DEF SetInbox, HandlerFine, Idle
  <2> QED
    BY <1>12, <2>2, <2>3 DEF MarkUnresolved
<1>13. CASE HandlerFails(h)
  <2>1. PICK l \in {"mark", "unresolved"} : Goes([H EXCEPT !.pc = l])
    BY <1>13 DEF HandlerFails, Step
  <2>2. UNCHANGED inbox /\ H.pc \notin {"idle", "duplicate"}
    BY <1>13 DEF HandlerFails
  <2> QED
    BY <1>3, <2>1, <2>2
<1>14. CASE HandlerCrash(h)
  BY <1>2, <1>14 DEF HandlerCrash, Step, HandlerFine, Idle
<1> QED
  BY <1>4, <1>5, <1>6, <1>7, <1>8, <1>9, <1>10, <1>11, <1>12, <1>13, <1>14 DEF Handle

LEMMA HandlerInvSteps ==
  ASSUME TypeOK, HandlerInv, NEW h \in Handlers,
         \/ \E n \in notices : Receive(h, n)
         \/ Handle(h) \/ HandlerFails(h) \/ HandlerCrash(h)
  PROVE  HandlerInv'
<1>1. HandlerFine(h)' /\ HandlerMoves(h)
  BY HandlerFineSteps
<1>2. \A g \in Handlers : g # h => HandlerFine(g)'
  BY <1>1 DEF HandlerMoves, HandlerInv, HandlerFine
<1> QED
  BY <1>1, <1>2 DEF HandlerInv, HandlerFine

-----------------------------------------------------------------------------
(* The first layer of the inductive invariant.                             *)

LEMMA WorkerInvSteps ==
  ASSUME TypeOK, WorkerInv, Reconcile
  PROVE  WorkerInv'
<1> USE DEF WorkerInv, Resting
<1>1. ASSUME NEW b \in Biz, Pick(b)
      PROVE  WorkerInv'
  BY <1>1 DEF Pick, TypeOK
<1>2. ASSUME NEW b \in Biz, Ages(b) \/ Alert(b)
      PROVE  WorkerInv'
  BY <1>2 DEF Ages, Alert
<1>3. ASSUME NEW r \in Results, WorkerQuery(r)
      PROVE  WorkerInv'
  BY <1>3 DEF WorkerQuery, TypeOK
<1>4. CASE WorkerApply \/ WorkerFails
  BY <1>4 DEF WorkerApply, WorkerFails
<1> QED
  BY <1>1, <1>2, <1>3, <1>4 DEF Reconcile

CoreInv == TypeOK /\ RequestInv /\ HandlerInv /\ WorkerInv

LEMMA CoreInit == Init => CoreInv
BY InitType, RequestInvInit DEF Init, CoreInv, HandlerInv, WorkerInv, Idle, Resting

LEMMA CoreStep == CoreInv /\ [Next]_vars => CoreInv'
<1> SUFFICES ASSUME CoreInv, [Next]_vars
             PROVE  CoreInv'
  OBVIOUS
<1> USE DEF CoreInv
<1>1. LedgerStep
  BY NextLedger
<1>2. ASSUME NEW p \in Threads, Submit(p)
      PROVE  CoreInv'
  <2>1. TypeOK' /\ RequestInv'
    BY <1>1, <1>2, SubmitType, RequestInvSubmit
  <2>2. UNCHANGED <<callbacks, sweep>>
    BY <1>2 DEF Submit, Lookup, Register, Dispatch, Answered, AnsweredGarbage, Complete, Crash
  <2> QED
    BY <2>1, <2>2 DEF HandlerInv, WorkerInv, callbacks, sweep
<1>3. ASSUME NEW h \in Handlers,
             \/ \E n \in notices : Receive(h, n)
             \/ Handle(h) \/ HandlerFails(h) \/ HandlerCrash(h)
      PROVE  CoreInv'
  <2>1. TypeOK' /\ HandlerInv'
    BY <1>3, HandleType, HandlerInvSteps
  <2>2. UNCHANGED <<idem, threads, calls, sweep>>
    BY <1>3 DEF Handle, Receive, HandlerFails, HandlerCrash, Duplicate, ResolveTerminal,
       ResolvePeek, HandlerQuery, HandlerApply, Recheck, MarkProcessed, MarkUnresolved
  <2>3. \A b \in Biz : status[b] = "ABSENT" => status'[b] = "ABSENT"
    <3>1. CASE UNCHANGED ledger
      BY <3>1 DEF ledger
    <3>2. CASE ~UNCHANGED ledger
      <4>1. handler[h].pc \notin {"idle", "duplicate"}
        BY <1>3, <3>2, HandleLedger DEF ResolveTerminal, HandlerApply
      <4> QED
        BY <1>3, <3>2, <4>1, HandleLedger, HandlerFacts, VerdictNeedsOrder
    <3> QED
      BY <3>1, <3>2
  <2> QED
    BY <1>1, <2>1, <2>2, <2>3, RequestInvOthers DEF WorkerInv, sweep
<1>4. CASE Bank
  <2>1. TypeOK'
    BY <1>4, BankKeepsType
  <2>2. UNCHANGED <<ledger, idem, threads, calls, inbox, handler, sweep>>
    BY <1>4, BankLedger
  <2>3. RequestInv'
    BY <1>1, <2>2, RequestInvOthers DEF ledger
  <2> QED
    BY <2>1, <2>2, <2>3 DEF HandlerInv, WorkerInv, sweep
<1>5. CASE Reconcile
  <2>1. TypeOK'
    BY <1>5, ReconcileType
  <2>2. UNCHANGED <<idem, threads, calls, callbacks>>
    BY <1>5 DEF Reconcile, Pick, Ages, Alert, WorkerQuery, WorkerApply, WorkerFails
  <2>3. \A b \in Biz : status[b] = "ABSENT" => status'[b] = "ABSENT"
    BY <1>5, ReconcileLedger, VerdictNeedsOrder DEF ledger
  <2>4. WorkerInv'
    BY <1>5, WorkerInvSteps
  <2> QED
    BY <1>1, <2>1, <2>2, <2>3, <2>4, RequestInvOthers DEF HandlerInv, callbacks
<1>6. CASE UNCHANGED vars
  <2>1. UNCHANGED <<ledger, idem, threads, bank, calls, callbacks, sweep>>
    BY <1>6 DEF vars
  <2>2. TypeOK'
    BY <2>1, TypeParts, UnchangedTypes
  <2>3. RequestInv'
    BY <1>1, <2>1, RequestInvOthers DEF ledger
  <2> QED
    BY <2>1, <2>2, <2>3 DEF HandlerInv, WorkerInv, callbacks, sweep
<1> QED
  BY <1>2, <1>3, <1>4, <1>5, <1>6 DEF Next

LEMMA CoreAlways == Spec => []CoreInv
<1> QED
  BY CoreInit, CoreStep, PTL DEF Spec

\* Every row and every call frame stays within its type.
THEOREM TypeCorrect == Spec => []TypeOK
<1>1. CoreInv => TypeOK
  BY DEF CoreInv
<1> QED
  BY <1>1, CoreAlways, PTL

\* However many requests name a bizSeqNo, over however many scopes, and
\* wherever they crash, at most one money call leaves for it.
THEOREM OneDispatchCorrect == Spec => []OneDispatch
<1>1. CoreInv => OneDispatch
  BY DEF CoreInv, RequestInv, AbsentInv, OneDispatch
<1> QED
  BY <1>1, CoreAlways, PTL

-----------------------------------------------------------------------------
(* The ledger is settled once and never goes back.                         *)

\* Only the statuses the code writes occur.
WrittenInv == \A b \in Biz : status[b] \in {"ABSENT"} \union Open \union Terminal

SettledInv == WrittenInv /\ SettledOnce

\* What is true of one order; SettledOnce says it of all.
Fine(b) ==
  /\ status[b] \in {"ABSENT"} \union Open \union Terminal
  /\ finalized[b] <=> status[b] \in Terminal
  /\ \A s \in Terminal : audited[b][s] = IF s \in forwarded[b] THEN 1 ELSE 0
  /\ finalized[b] => status[b] \in forwarded[b]
  /\ forwarded[b] \ {status[b]} \subseteq
       IF status[b] = "REVERSED" THEN {"SUCCEEDED"} ELSE {}

LEMMA SettledInit == Init => SettledInv
<1> SUFFICES ASSUME Init, NEW b \in Biz
             PROVE  Fine(b)
  BY DEF SettledInv, WrittenInv, SettledOnce, Fine
<1>1. status[b] = "ABSENT" /\ finalized[b] = FALSE /\ forwarded[b] = {}
  BY DEF Init
<1>2. \A s \in Terminal : audited[b][s] = 0
  BY DEF Init, Terminal, Statuses
<1> QED
  BY <1>1, <1>2 DEF Fine, Terminal

\* The two ways a settlement happens: first verdict, or reversal of a success.
LEMMA SettlesHow ==
  ASSUME TypeOK, SettledInv, NEW b \in Biz, NEW s \in Terminal, Settles(b, s)
  PROVE  /\ \/ status[b] \in Open /\ ~finalized[b] /\ CanMove(status[b], s)
            \/ status[b] = "SUCCEEDED" /\ finalized[b] /\ s = "REVERSED"
         /\ status' = [status EXCEPT ![b] = s]
         /\ finalized' = [finalized EXCEPT ![b] = TRUE]
         /\ audited' = [audited EXCEPT ![b] = [audited[b] EXCEPT ![s] = audited[b][s] + 1]]
         /\ forwarded' = [forwarded EXCEPT ![b] = forwarded[b] \union {s}]
<1>1. /\ status[b] \in {"ABSENT"} \union Open \union Terminal
      /\ finalized[b] <=> status[b] \in Terminal
  BY DEF SettledInv, WrittenInv, SettledOnce
<1>2. CASE status[b] = "ACCEPTED" /\ Finalize(b, s, FALSE)
  <2>1. ~finalized[b] /\ CanMove(status[b], s) /\ status[b] \in Open
    BY <1>1, <1>2 DEF Terminal, CanMove, Open
  <2> QED
    BY <1>2, <2>1 DEF Finalize
<1>3. CASE Takes(b, s) /\ Finalize(b, s, Settled(b))
  <2>1. CASE Settled(b)
    <3>1. status[b] = "SUCCEEDED" /\ finalized[b] /\ s = "REVERSED"
      BY <1>1, <1>3, <2>1 DEF Takes, Upgrades, Terminal
    <3> QED
      BY <1>3, <2>1, <3>1 DEF Finalize
  <2>2. CASE ~Settled(b)
    <3>1. status[b] \in Open /\ ~finalized[b] /\ CanMove(status[b], s)
      BY <1>1, <1>3, <2>2 DEF Takes, Settled, Absorbing
    <3> QED
      BY <1>3, <2>2, <3>1 DEF Finalize
  <2> QED
    BY <2>1, <2>2
<1> QED
  BY <1>2, <1>3 DEF Settles

LEMMA SettledStep ==
  ASSUME TypeOK, SettledInv, LedgerStep
  PROVE  SettledInv'
<1>1. \A b \in Biz : Fine(b)
  BY DEF SettledInv, WrittenInv, SettledOnce, Fine
<1>2. ASSUME UNCHANGED ledger
      PROVE  \A b \in Biz : Fine(b)'
  BY <1>1, <1>2 DEF ledger, Fine
<1>3. ASSUME NEW b \in Biz, Accepts(b)
      PROVE  \A c \in Biz : Fine(c)'
  <2>1. forwarded[b] = {}
    BY <1>1, <1>3 DEF Accepts, Fine, TypeOK, Terminal
  <2>2. Fine(b)'
    BY <1>1, <1>3, <2>1 DEF Accepts, Fine, TypeOK, Terminal, Open
  <2>3. \A c \in Biz \ {b} : Fine(c)'
    BY <1>1, <1>3 DEF Accepts, Fine, TypeOK
  <2> QED
    BY <2>2, <2>3
<1>4. ASSUME NEW b \in Biz, NEW s \in {"SUBMITTED", "RESULT_UNKNOWN"}, Suspends(b, s)
      PROVE  \A c \in Biz : Fine(c)'
  <2>1. forwarded[b] = {} /\ ~finalized[b]
    <3>1. status[b] = "ACCEPTED" /\ forwarded[b] \subseteq Terminal
      BY <1>4 DEF Suspends, TypeOK
    <3> QED
      BY <1>1, <3>1 DEF Fine, Terminal
  <2>2. /\ status'[b] = s
        /\ \A t \in Terminal : audited'[b][t] = audited[b][t]
        /\ finalized'[b] = finalized[b]
        /\ forwarded'[b] = forwarded[b]
    BY <1>4 DEF Suspends, TypeOK, Terminal, Statuses
  <2>3. Fine(b)'
    BY <1>1, <2>1, <2>2 DEF Fine, Terminal, Open
  <2>4. \A c \in Biz \ {b} : /\ status'[c] = status[c] /\ audited'[c] = audited[c]
                             /\ finalized'[c] = finalized[c] /\ forwarded'[c] = forwarded[c]
    BY <1>4 DEF Suspends, TypeOK
  <2>5. \A c \in Biz \ {b} : Fine(c)'
    BY <1>1, <2>4 DEF Fine
  <2> QED
    BY <2>3, <2>5
<1>5. ASSUME NEW b \in Biz, NEW s \in Terminal, Settles(b, s)
      PROVE  \A c \in Biz : Fine(c)'
  <2>1. forwarded[b] = IF finalized[b] THEN {"SUCCEEDED"} ELSE {}
    BY <1>1, <1>5, SettlesHow DEF Fine, TypeOK, Terminal, Open
  <2>2. finalized[b] => s = "REVERSED"
    BY <1>5, SettlesHow
  <2>3. /\ status'[b] = s
        /\ finalized'[b]
        /\ forwarded'[b] = forwarded[b] \union {s}
    BY <1>5, SettlesHow DEF TypeOK
  <2>4. /\ audited[b] \in [Statuses -> Nat]
        /\ s \in Statuses
        /\ audited'[b] = [audited[b] EXCEPT ![s] = audited[b][s] + 1]
    <3>1. audited' = [audited EXCEPT ![b] = [audited[b] EXCEPT ![s] = audited[b][s] + 1]]
      BY <1>5, SettlesHow
    <3>2. audited \in [Biz -> [Statuses -> Nat]]
      BY DEF TypeOK
    <3> QED
      BY <3>1, <3>2 DEF Terminal, Statuses
  <2>5. \A t \in Terminal : audited'[b][t] = audited[b][t] + (IF t = s THEN 1 ELSE 0)
    BY <2>4 DEF Terminal, Statuses
  <2>6. s \notin forwarded[b]
    BY <2>1, <2>2
  <2>7. \A t \in Terminal : audited'[b][t] = IF t \in forwarded'[b] THEN 1 ELSE 0
    BY <1>1, <2>3, <2>5, <2>6 DEF Fine
  <2>8. Fine(b)'
    BY <2>1, <2>2, <2>3, <2>7 DEF Fine
  <2>9. \A c \in Biz \ {b} : /\ status'[c] = status[c] /\ audited'[c] = audited[c]
                             /\ finalized'[c] = finalized[c] /\ forwarded'[c] = forwarded[c]
    BY <1>5, SettlesHow DEF TypeOK
  <2>10. \A c \in Biz \ {b} : Fine(c)'
    BY <1>1, <2>9 DEF Fine
  <2> QED
    BY <2>8, <2>10
<1>6. \A b \in Biz : Fine(b)'
  BY <1>2, <1>3, <1>4, <1>5 DEF LedgerStep
<1> QED
  BY <1>6 DEF SettledInv, WrittenInv, SettledOnce, Fine

LEMMA SettledAlways == Spec => [](CoreInv /\ SettledInv)
<1>1. Init => CoreInv /\ SettledInv
  BY CoreInit, SettledInit
<1>2. CoreInv /\ SettledInv /\ [Next]_vars => (CoreInv /\ SettledInv)'
  BY CoreStep, NextLedger, SettledStep DEF CoreInv
<1> QED
  BY <1>1, <1>2, PTL DEF Spec

\* Whoever settles an order, in whatever order: it is finalised exactly when
\* it is settled, and audited and forwarded once for each of its verdicts.
THEOREM SettledOnceCorrect == Spec => []SettledOnce
<1>1. SettledInv => SettledOnce
  BY DEF SettledInv
<1> QED
  BY <1>1, SettledAlways, PTL

\* A late or stale answer never moves an order against _ALLOWED.
THEOREM NoRegressCorrect == Spec => NoRegress
<1> DEFINE Forward ==
      \A b \in Biz : status'[b] # status[b] =>
        IF status[b] = "ABSENT" THEN status'[b] = "ACCEPTED"
                                ELSE CanMove(status[b], status'[b])
<1>1. CoreInv /\ SettledInv /\ [Next]_vars => Forward
  <2> SUFFICES ASSUME CoreInv, SettledInv, [Next]_vars
               PROVE  Forward
    OBVIOUS
  <2>1. LedgerStep
    BY NextLedger DEF CoreInv
  <2>2. TypeOK
    BY DEF CoreInv
  <2>3. CASE UNCHANGED ledger
    BY <2>3 DEF ledger
  <2>4. ASSUME NEW b \in Biz, Accepts(b)
        PROVE  Forward
    BY <2>2, <2>4 DEF Accepts, TypeOK
  <2>5. ASSUME NEW b \in Biz, NEW s \in {"SUBMITTED", "RESULT_UNKNOWN"}, Suspends(b, s)
        PROVE  Forward
    BY <2>2, <2>5 DEF Suspends, TypeOK, CanMove
  <2>6. ASSUME NEW b \in Biz, NEW s \in Terminal, Settles(b, s)
        PROVE  Forward
    <3>1. status' = [status EXCEPT ![b] = s] /\ status[b] # "ABSENT" /\ CanMove(status[b], s)
      BY <2>2, <2>6, SettlesHow DEF CanMove, Open
    <3> QED
      BY <2>2, <3>1 DEF TypeOK
  <2> QED
    BY <2>1, <2>3, <2>4, <2>5, <2>6 DEF LedgerStep
<1> QED
  BY <1>1, SettledAlways, PTL DEF Spec, NoRegress
=============================================================================
