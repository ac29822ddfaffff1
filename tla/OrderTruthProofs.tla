--------------------------- MODULE OrderTruthProofs ---------------------------
(***************************************************************************)
(* What the ledger and the responses say of an order is true of the bank:  *)
(* theorems about OrderLedger that need to know where an answer, a         *)
(* callback body or the result of a query comes from, and that none of     *)
(* them becomes untrue however long it is held.                            *)
(***************************************************************************)
EXTENDS OrderLedgerProofs

\* wedap has come to the decision s of order b; a success it may have
\* reversed since.
Reached(b, s) == bank[b] = s \/ (s = "SUCCEEDED" /\ bank[b] = "REVERSED")

Decisions == Terminal \union {"refused"}

\* A word about b is true, if it states a terminal status at all.
Told(b, word) == MapTxnStatus(word) # Unmapped => Reached(b, MapTxnStatus(word))

NotExecuted(b, repayment) == bank[b] = "refused" \/ (bank[b] = "FAILED" /\ repayment)

\* The answer a request holds between its call and its second transaction.
AnswersTrue ==
  \A p \in Threads : pc[p] = "answered" =>
    /\ answer[p] \in Answers
    /\ answer[p] \in Words => Told(intent[p].biz, answer[p])
    /\ NoEffectEvidence(answer[p], Repayment(p)) => NotExecuted(intent[p].biz, Repayment(p))

\* Callbacks on their way, and those that have been stored.
NoticesTrue == \A n \in notices : Told(n.biz, n.word)

InboxTrue ==
  \A c \in Callbacks : inbox[c] # None => Told(inbox[c].body.biz, inbox[c].body.word)

\* The result of a status query, held until it is applied.
HandlersTrue ==
  \A h \in Handlers :
    handler[h].pc = "apply" => Reached(handler[h].body.biz, handler[h].result)

WorkerTrue ==
  worker.pc = "apply" => worker.result \in Terminal /\ Reached(worker.biz, worker.result)

\* wedap knows of an order, and an order is settled, only after its call.
CalledInv ==
  \A b \in Biz : bank[b] # "unseen" \/ status[b] \in Terminal => calls[b] = 1

HeldInv == AnswersTrue /\ NoticesTrue /\ InboxTrue /\ HandlersTrue /\ WorkerTrue

TruthInv == HeldInv /\ CalledInv /\ LedgerMatchesBank /\ NotAppliedIsTrue

-----------------------------------------------------------------------------
(* The bank only advances.                                                 *)

BankAdvances ==
  \A b \in Biz : /\ \A s \in Decisions : Reached(b, s) => Reached(b, s)'
                 /\ bank[b] # "unseen" => bank'[b] # "unseen"
                 /\ bank'[b] # "unseen" => bank[b] # "unseen" \/ calls[b] > 0

LEMMA BankMovesOn ==
  ASSUME TypeOK, NEW b \in Biz, NEW next, BankMoves(b, next),
         \/ bank[b] = "unseen" /\ calls[b] > 0
         \/ bank[b] = "processing"
         \/ bank[b] = "SUCCEEDED" /\ next = "REVERSED",
         next # "unseen"
  PROVE  BankAdvances
<1>1. bank' = [bank EXCEPT ![b] = next]
  BY DEF BankMoves
<1>2. /\ bank'[b] = next
      /\ \A c \in Biz : c # b => bank'[c] = bank[c]
  BY <1>1 DEF TypeOK
<1>3. \A s \in Decisions : Reached(b, s) => Reached(b, s)'
  BY <1>2 DEF Reached, Decisions, Terminal
<1> QED
  BY <1>2, <1>3 DEF BankAdvances, Reached

\* Requests, handlers and the worker do not touch the bank.
LEMMA BankUntouched ==
  ASSUME \/ \E p \in Threads : Submit(p)
         \/ \E h \in Handlers : \/ \E n \in notices : Receive(h, n)
                                \/ Handle(h) \/ HandlerFails(h) \/ HandlerCrash(h)
         \/ Reconcile
         \/ UNCHANGED vars
  PROVE  UNCHANGED bank
<1>1. ASSUME NEW p \in Threads, Submit(p)
      PROVE  UNCHANGED bank
  BY <1>1 DEF Submit, Lookup, Register, Dispatch, Answered, AnsweredGarbage, Complete, Crash
<1>2. ASSUME NEW h \in Handlers,
             \/ \E n \in notices : Receive(h, n)
             \/ Handle(h) \/ HandlerFails(h) \/ HandlerCrash(h)
      PROVE  UNCHANGED bank
  BY <1>2 DEF Handle, Receive, HandlerFails, HandlerCrash, Duplicate, ResolveTerminal,
     ResolvePeek, HandlerQuery, HandlerApply, Recheck, MarkProcessed, MarkUnresolved
<1>3. CASE Reconcile
  BY <1>3 DEF Reconcile, Pick, Ages, Alert, WorkerQuery, WorkerApply, WorkerFails
<1>4. CASE UNCHANGED vars
  BY <1>4 DEF vars
<1> QED
  BY <1>1, <1>2, <1>3, <1>4

LEMMA BankStep ==
  ASSUME TypeOK, [Next]_vars
  PROVE  BankAdvances
<1>1. CASE UNCHANGED bank
  BY <1>1 DEF BankAdvances, Reached
<1>2. ASSUME NEW b \in Biz, BankReceives(b)
      PROVE  BankAdvances
  BY <1>2, BankMovesOn DEF BankReceives
<1>3. ASSUME NEW b \in Biz, BankSettles(b)
      PROVE  BankAdvances
  BY <1>3, BankMovesOn DEF BankSettles, Terminal
<1>4. CASE Bank
  BY <1>1, <1>2, <1>3, <1>4 DEF Bank, BankNotifies
<1> QED
  BY <1>1, <1>4, BankUntouched DEF Next

-----------------------------------------------------------------------------
(* What is held stays true while it is held.                               *)

\* A word that was true stays true.
LEMMA ToldStays ==
  ASSUME BankAdvances, NEW b \in Biz, NEW w, Told(b, w)
  PROVE  Told(b, w)'
BY MapTxnStatusRange DEF Told, BankAdvances, Results, Decisions

LEMMA NotExecutedStays ==
  ASSUME BankAdvances, NEW b \in Biz, NEW r, NotExecuted(b, r)
  PROVE  NotExecuted(b, r)'
<1>1. \A s \in {"refused", "FAILED"} : bank[b] = s => bank'[b] = s
  BY DEF BankAdvances, Reached, Decisions, Terminal
<1> QED
  BY <1>1 DEF NotExecuted

AnswerTrue(p) ==
  pc[p] = "answered" =>
    /\ answer[p] \in Answers
    /\ answer[p] \in Words => Told(intent[p].biz, answer[p])
    /\ NoEffectEvidence(answer[p], Repayment(p)) => NotExecuted(intent[p].biz, Repayment(p))

LEMMA AnswerKept ==
  ASSUME TypeOK, BankAdvances, NEW p \in Threads, AnswerTrue(p),
         UNCHANGED intent, UNCHANGED <<pc[p], answer[p]>>
  PROVE  AnswerTrue(p)'
<1>1. intent[p].biz \in Biz
  BY DEF TypeOK, Intents
<1>2. UNCHANGED <<intent[p].biz, Repayment(p)>>
  BY DEF Repayment
<1>3. Told(intent[p].biz, answer[p]) => Told(intent[p].biz, answer[p])'
  BY <1>1, <1>2, ToldStays DEF Told, Reached
<1>4. NotExecuted(intent[p].biz, Repayment(p)) => NotExecuted(intent[p].biz, Repayment(p))'
  BY <1>1, <1>2, NotExecutedStays DEF NotExecuted
<1> QED
  BY <1>2, <1>3, <1>4 DEF AnswerTrue

\* What does not change hands stays true.
LEMMA HeldKept ==
  ASSUME TypeOK, HandlerInv, WorkerInv, BankAdvances, HeldInv
  PROVE  /\ UNCHANGED threads => AnswersTrue'
         /\ UNCHANGED notices => NoticesTrue'
         /\ UNCHANGED inbox => InboxTrue'
         /\ UNCHANGED handler => HandlersTrue'
         /\ UNCHANGED worker => WorkerTrue'
<1>1. ASSUME UNCHANGED threads
      PROVE  AnswersTrue'
  <2>1. \A p \in Threads : AnswerTrue(p)
    BY DEF HeldInv, AnswersTrue, AnswerTrue
  <2>2. \A p \in Threads : AnswerTrue(p)'
    BY <1>1, <2>1, AnswerKept DEF threads
  <2> QED
    BY <2>2 DEF AnswersTrue, AnswerTrue
<1>2. ASSUME UNCHANGED notices
      PROVE  NoticesTrue'
  <2>1. \A n \in notices : n.biz \in Biz /\ Told(n.biz, n.word)
    BY DEF TypeOK, Notices, HeldInv, NoticesTrue
  <2>2. \A n \in notices : Told(n.biz, n.word)'
    BY <2>1, ToldStays
  <2> QED
    BY <1>2, <2>2 DEF NoticesTrue
<1>3. ASSUME UNCHANGED inbox
      PROVE  InboxTrue'
  <2>1. \A c \in Callbacks : inbox[c] # None =>
          inbox[c].body.biz \in Biz /\ Told(inbox[c].body.biz, inbox[c].body.word)
    BY DEF TypeOK, Rows, Bodies, HeldInv, InboxTrue
  <2>2. ASSUME NEW c \in Callbacks, inbox[c] # None
        PROVE  Told(inbox[c].body.biz, inbox[c].body.word)'
    BY <1>3, <2>1, <2>2, ToldStays DEF Told, Reached
  <2> QED
    BY <1>3, <2>2 DEF InboxTrue
<1>4. ASSUME UNCHANGED handler
      PROVE  HandlersTrue'
  <2>1. ASSUME NEW h \in Handlers, handler[h].pc = "apply"
        PROVE  Reached(handler[h].body.biz, handler[h].result)'
    <3>1. /\ handler[h].body.biz \in Biz
          /\ handler[h].result \in Decisions
          /\ Reached(handler[h].body.biz, handler[h].result)
      BY <2>1, HandlerFacts DEF HandlerInv, HeldInv, HandlersTrue, Decisions
    <3> QED
      BY <1>4, <3>1 DEF BankAdvances, Reached
  <2> QED
    BY <1>4, <2>1 DEF HandlersTrue
<1>5. ASSUME UNCHANGED worker
      PROVE  WorkerTrue'
  BY <1>5 DEF WorkerTrue, HeldInv, WorkerInv, BankAdvances, Reached, Decisions
<1> QED
  BY <1>1, <1>2, <1>3, <1>4, <1>5

\* What a call answers is true when it is given.
LEMMA AnswerGiven ==
  ASSUME NEW b, NEW a \in Answers, NEW r \in BOOLEAN, MayAnswer(b, a, r)
  PROVE  /\ a \in Words => Told(b, a)
         /\ NoEffectEvidence(a, r) => NotExecuted(b, r)
<1>1. CASE a \in {"SUCCESS", "FAILED", "REVERSED"}
  <2>1. bank[b] = MapTxnStatus(a)
    BY <1>1 DEF MayAnswer, ListedCode, AtDoor
  <2> QED
    BY <1>1, <2>1 DEF Told, Reached, NoEffectEvidence, NotExecuted, Words, Codes, AtDoor,
       MapTxnStatus
<1>2. CASE a \in {"PROCESSING", "OTHER"}
  BY <1>2 DEF Told, MapTxnStatus, NoEffectEvidence, Words, Codes, AtDoor
<1>3. CASE a \notin Words
  BY <1>3 DEF MayAnswer, NoEffectEvidence, NotExecuted, Answers, Words, Codes, ListedCode, AtDoor
<1> QED
  BY <1>1, <1>2, <1>3 DEF Words

LEMMA SubmitHeld ==
  ASSUME TypeOK, BankAdvances, AnswersTrue, NEW p \in Threads, Submit(p)
  PROVE  AnswersTrue'
<1>1. intent' = intent /\ UNCHANGED bank
  BY BankUntouched
     DEF Submit, Lookup, Register, Dispatch, Answered, AnsweredGarbage, Complete, Crash,
     Respond, Continue
<1>2. \A q \in Threads : q # p => UNCHANGED <<pc[q], answer[q]>>
  BY DEF Submit, Lookup, Register, Dispatch, Answered, AnsweredGarbage, Complete, Crash,
     Respond, Continue, TypeOK
<1>3. \A q \in Threads : AnswerTrue(q)
  BY DEF AnswersTrue, AnswerTrue
<1>4. \A q \in Threads : q # p => AnswerTrue(q)'
  BY <1>1, <1>2, <1>3, AnswerKept
<1>5. ASSUME pc'[p] # "answered"
      PROVE  AnswerTrue(p)'
  BY <1>5 DEF AnswerTrue
<1>6. ASSUME NEW a \in Answers, Answered(p, a)
      PROVE  AnswerTrue(p)'
  <2>1. Repayment(p) \in BOOLEAN /\ MayAnswer(intent[p].biz, a, Repayment(p))
    BY <1>6 DEF Answered, Repayment
  <2>2. /\ a \in Words => Told(intent[p].biz, a)
        /\ NoEffectEvidence(a, Repayment(p)) => NotExecuted(intent[p].biz, Repayment(p))
    BY <2>1, AnswerGiven
  <2>3. answer'[p] = a
    BY <1>6 DEF Answered, TypeOK
  <2> QED
    BY <1>1, <2>2, <2>3 DEF AnswerTrue, Told, Reached, NotExecuted, Repayment
<1>7. ASSUME \/ Lookup(p) \/ Register(p) \/ Dispatch(p)
             \/ AnsweredGarbage(p) \/ Complete(p) \/ Crash(p)
      PROVE  AnswerTrue(p)'
  <2>1. pc'[p] # "answered"
    BY <1>7 DEF Lookup, Register, Dispatch, AnsweredGarbage, Complete, Crash, Respond, Continue,
       TypeOK
  <2> QED
    BY <1>5, <2>1
<1>8. AnswerTrue(p)'
  BY <1>6, <1>7 DEF Submit
<1> QED
  BY <1>4, <1>8 DEF AnswersTrue, AnswerTrue

\* What a step of handler h can do to the inbox: it stores a notice, or writes
\* the state of a row, PROCESSED only at the mark.
LEMMA InboxMoves ==
  ASSUME TypeOK, HandlerInv, NEW h \in Handlers,
         \/ \E n \in notices : Receive(h, n)
         \/ Handle(h) \/ HandlerFails(h) \/ HandlerCrash(h),
         NEW c \in Callbacks, inbox'[c] # None
  PROVE  \/ /\ inbox[c] # None
            /\ inbox'[c].body = inbox[c].body
            /\ inbox'[c].state = "PROCESSED" =>
                 \/ inbox[c].state = "PROCESSED"
                 \/ handler[h].pc = "mark" /\ handler[h].id = c
         \/ \E n \in notices :
              inbox'[c] = [state |-> "RECEIVED", body |-> [biz |-> n.biz, word |-> n.word]]
<1>1. CASE UNCHANGED inbox
  BY <1>1
<1>2. ASSUME NEW n \in notices, Receive(h, n), ~UNCHANGED inbox
      PROVE  \/ inbox'[c] = inbox[c]
             \/ inbox'[c] = [state |-> "RECEIVED", body |-> [biz |-> n.biz, word |-> n.word]]
  <2>1. inbox' = [inbox EXCEPT ![n.id] =
                    [state |-> "RECEIVED", body |-> [biz |-> n.biz, word |-> n.word]]]
    BY <1>2 DEF Receive
  <2> QED
    BY <2>1 DEF TypeOK
<1>3. ASSUME NEW s \in {"RECEIVED", "PROCESSED"}, SetInbox(h, s), handler[h].pc # "idle",
             s = "PROCESSED" => handler[h].pc = "mark"
      PROVE  /\ inbox[c] # None
             /\ inbox'[c].body = inbox[c].body
             /\ inbox'[c].state = "PROCESSED" =>
                  \/ inbox[c].state = "PROCESSED"
                  \/ handler[h].pc = "mark" /\ handler[h].id = c
  <2> DEFINE i == handler[h].id
  <2>1. i \in Callbacks /\ inbox[i] # None
    BY <1>3 DEF HandlerInv
  <2>2. inbox' = [inbox EXCEPT ![i].state = s]
    BY <1>3 DEF SetInbox
  <2>3. /\ inbox'[i] = [state |-> s, body |-> inbox[i].body]
        /\ \A d \in Callbacks : d # i => inbox'[d] = inbox[d]
    BY <2>1, <2>2, SetInboxFacts DEF TypeOK
  <2> QED
    BY <1>3, <2>1, <2>3
<1>4. CASE MarkProcessed(h)
  BY <1>3, <1>4 DEF MarkProcessed
<1>5. CASE MarkUnresolved(h)
  BY <1>1, <1>3, <1>5 DEF MarkUnresolved
<1>6. CASE Handle(h) \/ HandlerFails(h) \/ HandlerCrash(h)
  BY <1>1, <1>4, <1>5, <1>6 DEF Handle, HandlerFails, HandlerCrash, Duplicate, ResolveTerminal,
     ResolvePeek, HandlerQuery, HandlerApply, Recheck
<1> QED
  BY <1>1, <1>2, <1>6

\* A handler comes to apply a result only by asking wedap for it.
LEMMA HandlerAsks ==
  ASSUME TypeOK, HandlerInv, NEW h \in Handlers,
         \/ \E n \in notices : Receive(h, n)
         \/ Handle(h) \/ HandlerFails(h) \/ HandlerCrash(h),
         handler'[h].pc = "apply"
  PROVE  /\ handler[h].pc = "query"
         /\ handler'[h].body = handler[h].body
         /\ handler'[h].optional = handler[h].optional
         /\ handler'[h].result # Unmapped
         /\ MayReport(handler[h].body.biz, handler'[h].result)
<1> DEFINE H == handler[h]
           Goes(f) == handler' = [handler EXCEPT ![h] = f]
<1>1. H \in HandlerStates
  BY DEF TypeOK
<1>2. \A f : Goes(f) => handler'[h] = f
  BY DEF TypeOK
<1>3. ASSUME NEW l, l # "apply", Goes([H EXCEPT !.pc = l])
      PROVE  FALSE
  <2>1. handler'[h] = [H EXCEPT !.pc = l]
    BY <1>2, <1>3
  <2> QED
    BY <1>1, <1>3, <2>1 DEF HandlerStates
<1>4. ASSUME NEW n \in notices, Receive(h, n)
      PROVE  FALSE
  BY <1>2, <1>4 DEF Receive, Step, Idle
<1>5. ~Duplicate(h)
  <2>1. SUFFICES ASSUME Duplicate(h) PROVE FALSE
    OBVIOUS
  <2>2. CASE inbox[H.id].state = "RECEIVED"
    BY <1>1, <1>2, <2>1, <2>2 DEF Duplicate, Step, HandlerStates
  <2>3. CASE inbox[H.id].state # "RECEIVED"
    BY <1>2, <2>1, <2>3 DEF Duplicate, Step, Idle
  <2> QED
    BY <2>2, <2>3
<1>6. ~ResolveTerminal(h) /\ ~HandlerApply(h) /\ ~Recheck(h) /\ ~HandlerFails(h)
  BY <1>3 DEF ResolveTerminal, HandlerApply, Recheck, HandlerFails, Step
<1>7. ~ResolvePeek(h)
  <2>1. SUFFICES ASSUME ResolvePeek(h) PROVE FALSE
    OBVIOUS
  <2> DEFINE b == H.body.biz
             o == status[b] = "SUCCEEDED"
             l == CASE status[b] = "ABSENT" -> "unresolved"
                    [] Finished(b) /\ status[b] \notin {"ABSENT", "SUCCEEDED"} -> "mark"
                    [] OTHER -> "query"
  <2>2. Goes([H EXCEPT !.optional = o, !.pc = l])
    BY <2>1 DEF ResolvePeek, Step
  <2>3. l # "apply"
    OBVIOUS
  <2> HIDE DEF l, o
  <2>4. handler'[h] = [H EXCEPT !.optional = o, !.pc = l]
    BY <1>2, <2>2
  <2> QED
    BY <1>1, <2>3, <2>4 DEF HandlerStates
<1>8. ~MarkProcessed(h) /\ ~MarkUnresolved(h) /\ ~HandlerCrash(h)
  BY <1>2 DEF MarkProcessed, MarkUnresolved, HandlerCrash, Step, Idle
<1>9. PICK r \in Results : HandlerQuery(h, r)
  BY <1>4, <1>5, <1>6, <1>7, <1>8 DEF Handle
<1> DEFINE l == CASE r # Unmapped -> "apply"
                    [] r = Unmapped /\ H.optional -> "mark"
                    [] OTHER -> "recheck"
<1>10. /\ H.pc = "query"
       /\ MayReport(H.body.biz, r)
       /\ Goes([H EXCEPT !.result = r, !.pc = l])
  BY <1>9 DEF HandlerQuery, Step
<1>11. l = "apply" => r # Unmapped
  OBVIOUS
<1> HIDE DEF l
<1>12. handler'[h] = [H EXCEPT !.result = r, !.pc = l]
  BY <1>2, <1>10
<1> QED
  BY <1>1, <1>10, <1>11, <1>12 DEF HandlerStates

LEMMA HandleHeld ==
  ASSUME TypeOK, HandlerInv, HeldInv, NEW h \in Handlers,
         \/ \E n \in notices : Receive(h, n)
         \/ Handle(h) \/ HandlerFails(h) \/ HandlerCrash(h)
  PROVE  InboxTrue' /\ HandlersTrue'
<1>1. UNCHANGED bank
  BY BankUntouched
<1>2. \A b, w : Told(b, w) => Told(b, w)'
  BY <1>1 DEF Told, Reached
<1>3. ASSUME NEW c \in Callbacks, inbox'[c] # None
      PROVE  Told(inbox[c].body.biz, inbox[c].body.word)'
  <2>1. CASE inbox[c] # None /\ inbox'[c].body = inbox[c].body
    <3>1. Told(inbox[c].body.biz, inbox[c].body.word)
      BY <2>1 DEF HeldInv, InboxTrue
    <3> QED
      BY <1>1, <2>1, <3>1 DEF Told, Reached
  <2>2. ASSUME NEW n \in notices,
               inbox'[c] = [state |-> "RECEIVED", body |-> [biz |-> n.biz, word |-> n.word]]
        PROVE  Told(inbox[c].body.biz, inbox[c].body.word)'
    <3>1. Told(n.biz, n.word)
      BY DEF HeldInv, NoticesTrue
    <3>2. inbox'[c].body.biz = n.biz /\ inbox'[c].body.word = n.word
      BY <2>2
    <3> QED
      BY <1>1, <3>1, <3>2 DEF Told, Reached
  <2> QED
    BY <1>3, <2>1, <2>2, InboxMoves
<1>4. ASSUME NEW g \in Handlers, handler'[g].pc = "apply"
      PROVE  Reached(handler[g].body.biz, handler[g].result)'
  <2>1. CASE g = h
    BY <1>1, <1>4, <2>1, HandlerAsks DEF MayReport, Reached
  <2>2. CASE g # h
    <3>1. handler'[g] = handler[g]
      BY <2>2, HandlerFineSteps DEF HandlerMoves
    <3>2. Reached(handler[g].body.biz, handler[g].result)
      BY <1>4, <3>1 DEF HeldInv, HandlersTrue
    <3> QED
      BY <1>1, <3>1, <3>2 DEF Reached
  <2> QED
    BY <2>1, <2>2
<1> QED
  BY <1>3, <1>4 DEF InboxTrue, HandlersTrue

LEMMA ReconcileHeld ==
  ASSUME TypeOK, WorkerTrue, Reconcile
  PROVE  WorkerTrue'
<1>1. UNCHANGED bank
  BY BankUntouched
<1>2. ASSUME NEW b \in Biz, Pick(b) \/ Ages(b) \/ Alert(b)
      PROVE  WorkerTrue'
  BY <1>1, <1>2 DEF Pick, Ages, Alert, WorkerTrue, Reached, TypeOK
<1>3. ASSUME NEW r \in Results, WorkerQuery(r)
      PROVE  WorkerTrue'
  <2>1. CASE r = Unmapped
    BY <1>3, <2>1 DEF WorkerQuery, WorkerTrue, Resting
  <2>2. CASE r # Unmapped
    <3>1. worker' = [worker EXCEPT !.pc = "apply", !.result = r] /\ bank[worker.biz] = r
      BY <1>3, <2>2 DEF WorkerQuery, MayReport
    <3>2. worker'.biz = worker.biz /\ worker'.result = r
      BY <3>1 DEF TypeOK
    <3> QED
      BY <1>1, <2>2, <3>1, <3>2 DEF WorkerTrue, Reached, Results
  <2> QED
    BY <2>1, <2>2
<1>4. CASE WorkerApply \/ WorkerFails
  BY <1>4 DEF WorkerApply, WorkerFails, WorkerTrue, Resting
<1> QED
  BY <1>2, <1>3, <1>4 DEF Reconcile

LEMMA BankHeld ==
  ASSUME TypeOK, HeldInv, BankAdvances, Bank
  PROVE  NoticesTrue'
<1>1. \A n \in notices : Told(n.biz, n.word)'
  BY ToldStays DEF TypeOK, Notices, HeldInv, NoticesTrue
<1>2. CASE UNCHANGED notices
  BY <1>1, <1>2 DEF NoticesTrue
<1>3. ASSUME NEW n \in [id : Callbacks, biz : Biz, word : Words \ {"PROCESSING"}],
             BankNotifies(n)
      PROVE  NoticesTrue'
  <2>1. notices' = notices \union {n} /\ UNCHANGED bank
    BY <1>3 DEF BankNotifies
  <2>2. Told(n.biz, n.word)
    BY <1>3 DEF BankNotifies, Told, Reached
  <2>3. Told(n.biz, n.word)'
    BY <2>1, <2>2 DEF Told, Reached
  <2> QED
    BY <1>1, <2>1, <2>3 DEF NoticesTrue
<1>4. ASSUME NEW b \in Biz, BankReceives(b) \/ BankSettles(b)
      PROVE  UNCHANGED notices
  BY <1>4 DEF BankReceives, BankSettles, BankMoves, callbacks
<1> QED
  BY <1>2, <1>3, <1>4 DEF Bank

LEMMA HeldStep ==
  ASSUME CoreInv, HeldInv, [Next]_vars
  PROVE  HeldInv'
<1> USE DEF CoreInv
<1>1. BankAdvances
  BY BankStep
<1>2. ASSUME NEW p \in Threads, Submit(p)
      PROVE  HeldInv'
  <2>1. UNCHANGED <<callbacks, sweep>>
    BY <1>2 DEF Submit, Lookup, Register, Dispatch, Answered, AnsweredGarbage, Complete, Crash
  <2> QED
    BY <1>1, <1>2, <2>1, SubmitHeld, HeldKept DEF HeldInv, callbacks, sweep
<1>3. ASSUME NEW h \in Handlers,
             \/ \E n \in notices : Receive(h, n)
             \/ Handle(h) \/ HandlerFails(h) \/ HandlerCrash(h)
      PROVE  HeldInv'
  <2>1. UNCHANGED <<threads, notices, sweep>>
    BY <1>3 DEF Handle, Receive, HandlerFails, HandlerCrash, Duplicate, ResolveTerminal,
       ResolvePeek, HandlerQuery, HandlerApply, Recheck, MarkProcessed, MarkUnresolved
  <2> QED
    BY <1>1, <1>3, <2>1, HandleHeld, HeldKept DEF HeldInv, sweep
<1>4. CASE Bank
  BY <1>1, <1>4, BankHeld, BankLedger, HeldKept DEF HeldInv, sweep
<1>5. CASE Reconcile
  <2>1. UNCHANGED <<threads, callbacks>>
    BY <1>5 DEF Reconcile, Pick, Ages, Alert, WorkerQuery, WorkerApply, WorkerFails
  <2> QED
    BY <1>1, <1>5, <2>1, ReconcileHeld, HeldKept DEF HeldInv, callbacks
<1>6. CASE UNCHANGED vars
  BY <1>1, <1>6, HeldKept DEF HeldInv, vars, callbacks, sweep
<1> QED
  BY <1>2, <1>3, <1>4, <1>5, <1>6 DEF Next

-----------------------------------------------------------------------------
(* Every verdict the ledger takes is justified.                            *)

\* The errors on which transaction 2 takes FAILED although the answer does not
\* prove that no money moved: of a repayment a 4xx whose body does not parse,
\* of the other writes that one, unless it is listed as a rejection at the
\* door, and a business code carried by no such 4xx.
UnprovenFailures(repayment) ==
  IF repayment THEN {"HTTP_DOOR", "HTTP_4XX"} ELSE {"HTTP_4XX", "LISTED", "UNLISTED"}

FailedGrounds(b) ==
  \/ bank[b] \in {"refused", "FAILED"}
  \/ \E p \in Threads : /\ intent[p].biz = b /\ Complete(p)
                        /\ answer[p] \in UnprovenFailures(Repayment(p))

Justified(b, s) ==
  /\ calls[b] = 1
  /\ IF s = "FAILED" THEN FailedGrounds(b) ELSE Reached(b, s)

\* LedgerStep, with what is known of the verdict, and the money calls.
JustifiedStep ==
  \/ UNCHANGED ledger
  \/ /\ UNCHANGED calls
     /\ \/ \E b \in Biz : Accepts(b) \/ \E s \in {"SUBMITTED", "RESULT_UNKNOWN"} : Suspends(b, s)
        \/ \E b \in Biz, s \in Terminal : Settles(b, s) /\ Justified(b, s)

CallsStep ==
  \/ UNCHANGED calls
  \/ /\ UNCHANGED ledger
     /\ \E b \in Biz : /\ status[b] # "ABSENT" /\ calls[b] = 0
                       /\ calls' = [calls EXCEPT ![b] = 1]

\* A terminal word that is true speaks of an order that was called for.
LEMMA ReachedMeansCalled ==
  ASSUME CalledInv, NEW b \in Biz, NEW s \in Terminal, Reached(b, s)
  PROVE  Justified(b, s)
BY DEF CalledInv, Reached, Justified, FailedGrounds, Terminal

LEMMA NextCalls ==
  ASSUME CoreInv, [Next]_vars
  PROVE  CallsStep
<1> USE DEF CoreInv
<1>1. ASSUME NEW p \in Threads, Dispatch(p)
      PROVE  CallsStep
  <2> DEFINE b == intent[p].biz
  <2>1. b \in Biz
    BY DEF TypeOK, Intents
  <2>2. status[b] # "ABSENT" /\ calls[b] = 0
    BY <1>1 DEF Dispatch, RequestInv, ActiveInv, Active
  <2>3. UNCHANGED ledger /\ calls' = [calls EXCEPT ![b] = calls[b] + 1]
    BY <1>1 DEF Dispatch
  <2>4. calls[b] + 1 = 1
    BY <2>2
  <2>5. calls' = [calls EXCEPT ![b] = 1]
    BY <2>3, <2>4
  <2> HIDE DEF b
  <2> QED
    BY <2>1, <2>2, <2>3, <2>5 DEF CallsStep
<1>2. ASSUME NEW p \in Threads, Submit(p)
      PROVE  CallsStep
  BY <1>1, <1>2 DEF CallsStep, Submit, Lookup, Register, Answered, AnsweredGarbage, Complete, Crash
<1>3. ASSUME NEW h \in Handlers,
             \/ \E n \in notices : Receive(h, n)
             \/ Handle(h) \/ HandlerFails(h) \/ HandlerCrash(h)
      PROVE  CallsStep
  BY <1>3 DEF CallsStep, Handle, Receive, HandlerFails, HandlerCrash, Duplicate, ResolveTerminal,
     ResolvePeek, HandlerQuery, HandlerApply, Recheck, MarkProcessed, MarkUnresolved
<1>4. CASE Bank
  BY <1>4, BankLedger DEF CallsStep
<1>5. CASE Reconcile
  BY <1>5 DEF CallsStep, Reconcile, Pick, Ages, Alert, WorkerQuery, WorkerApply, WorkerFails
<1>6. CASE UNCHANGED vars
  BY <1>6 DEF CallsStep, vars
<1> QED
  BY <1>2, <1>3, <1>4, <1>5, <1>6 DEF Next

\* An answer that makes an order FAILED proves it, or is one of those errors.
LEMMA FailingAnswer ==
  ASSUME NEW a \in Answers, NEW r \in BOOLEAN, LedgerStatus(a, r) = "FAILED"
  PROVE  \/ a \in Words /\ MapTxnStatus(a) = "FAILED"
         \/ NoEffectEvidence(a, r)
         \/ a \in UnprovenFailures(r)
<1>1. CASE a \in Words
  <2>1. MapRepaymentStatus(a) \in {Unmapped, MapTxnStatus(a)}
    BY DEF MapRepaymentStatus
  <2> QED
    BY <1>1, <2>1 DEF LedgerStatus, Unmapped, Words, Codes
<1>2. CASE a \notin Words
  BY <1>2 DEF LedgerStatus, NoEffectEvidence, UnprovenFailures, Answers, Codes, ListedCode, AtDoor
<1> QED
  BY <1>1, <1>2

\* Only a word of wedap makes an answer more than a failure.
LEMMA JustifyingAnswer ==
  ASSUME NEW a, NEW r, LedgerStatus(a, r) \in Terminal, LedgerStatus(a, r) # "FAILED"
  PROVE  /\ a \in Words
         /\ MapTxnStatus(a) = LedgerStatus(a, r)
         /\ LedgerStatus(a, r) # Unmapped
<1>1. CASE a \in Words
  <2>1. MapRepaymentStatus(a) \in {Unmapped, MapTxnStatus(a)}
    BY DEF MapRepaymentStatus
  <2> QED
    BY <1>1, <2>1 DEF LedgerStatus, Terminal, Unmapped
<1>2. CASE a \notin Words
  BY <1>2 DEF LedgerStatus, Terminal
<1> QED
  BY <1>1, <1>2

LEMMA NextJustified ==
  ASSUME CoreInv, HeldInv, CalledInv, [Next]_vars
  PROVE  JustifiedStep
<1> USE DEF CoreInv
<1>1. ASSUME NEW p \in Threads, Submit(p)
      PROVE  JustifiedStep
  <2> DEFINE b == intent[p].biz
  <2>1. b \in Biz
    BY DEF TypeOK, Intents
  <2>2. CASE Accepts(b) /\ Register(p)
    BY <2>1, <2>2 DEF JustifiedStep, Register
  <2>3. ASSUME NEW s \in {"SUBMITTED", "RESULT_UNKNOWN"}, Complete(p), Suspends(b, s)
        PROVE  JustifiedStep
    BY <2>1, <2>3 DEF JustifiedStep, Complete
  <2>4. ASSUME NEW s \in Terminal, Complete(p), s = LedgerStatus(answer[p], Repayment(p)),
               Settles(b, s)
        PROVE  JustifiedStep
    <3>1. calls[b] = 1 /\ pc[p] = "answered"
      BY <2>4 DEF Complete, RequestInv, ActiveInv, Active
    <3>2. ASSUME s # "FAILED"
          PROVE  Reached(b, s)
      <4>1. answer[p] \in Words /\ MapTxnStatus(answer[p]) = s /\ s # Unmapped
        BY <2>4, <3>2, JustifyingAnswer
      <4> QED
        BY <3>1, <4>1 DEF HeldInv, AnswersTrue, Told
    <3>3. ASSUME s = "FAILED"
          PROVE  FailedGrounds(b)
      <4>1. answer[p] \in Answers /\ Repayment(p) \in BOOLEAN
        BY <3>1 DEF HeldInv, AnswersTrue, Repayment
      <4>2. CASE answer[p] \in Words /\ MapTxnStatus(answer[p]) = "FAILED"
        <5>1. Reached(b, "FAILED")
          BY <3>1, <4>2 DEF HeldInv, AnswersTrue, Told, Unmapped
        <5> QED
          BY <5>1 DEF Reached, FailedGrounds
      <4>3. CASE NoEffectEvidence(answer[p], Repayment(p))
        BY <3>1, <4>3 DEF HeldInv, AnswersTrue, NotExecuted, FailedGrounds
      <4>4. CASE answer[p] \in UnprovenFailures(Repayment(p))
        BY <2>4, <4>4 DEF FailedGrounds
      <4> QED
        BY <2>4, <3>3, <4>1, <4>2, <4>3, <4>4, FailingAnswer
    <3> QED
      BY <2>1, <2>4, <3>1, <3>2, <3>3 DEF JustifiedStep, Justified, Complete
  <2> QED
    BY <1>1, <2>2, <2>3, <2>4, SubmitLedger DEF JustifiedStep
<1>2. ASSUME NEW h \in Handlers,
             \/ \E n \in notices : Receive(h, n)
             \/ Handle(h) \/ HandlerFails(h) \/ HandlerCrash(h)
      PROVE  JustifiedStep
  <2> DEFINE b == handler[h].body.biz
  <2>1. CASE UNCHANGED ledger
    BY <2>1 DEF JustifiedStep
  <2>2. ASSUME NEW s \in Terminal, Settles(b, s),
               ResolveTerminal(h), s = MapTxnStatus(handler[h].body.word)
        PROVE  JustifiedStep
    <3>1. handler[h].pc = "resolve" /\ UNCHANGED calls /\ s # Unmapped
      BY <2>2 DEF ResolveTerminal
    <3>2. b \in Biz
      BY <3>1, HandlerFacts
    <3>3. /\ handler[h].id \in Callbacks
          /\ inbox[handler[h].id] # None
          /\ handler[h].body = inbox[handler[h].id].body
      BY <3>1 DEF HandlerInv
    <3>4. Reached(b, s)
      BY <2>2, <3>1, <3>3 DEF HeldInv, InboxTrue, Told
    <3> QED
      BY <2>2, <3>1, <3>2, <3>4, ReachedMeansCalled DEF JustifiedStep
  <2>3. ASSUME NEW s \in Terminal, Settles(b, s), HandlerApply(h), s = handler[h].result
        PROVE  JustifiedStep
    <3>1. handler[h].pc = "apply" /\ UNCHANGED calls
      BY <2>3 DEF HandlerApply
    <3>2. b \in Biz
      BY <3>1, HandlerFacts
    <3>3. Reached(b, s)
      BY <2>3, <3>1 DEF HeldInv, HandlersTrue
    <3> QED
      BY <2>3, <3>1, <3>2, <3>3, ReachedMeansCalled DEF JustifiedStep
  <2> QED
    BY <1>2, <2>1, <2>2, <2>3, HandleLedger
<1>3. CASE Reconcile
  <2>1. CASE UNCHANGED ledger
    BY <2>1 DEF JustifiedStep
  <2>2. CASE ~UNCHANGED ledger
    <3>1. /\ worker.biz \in Biz /\ worker.result \in Terminal /\ WorkerApply
          /\ Settles(worker.biz, worker.result)
      BY <1>3, <2>2, ReconcileLedger
    <3>2. Reached(worker.biz, worker.result) /\ UNCHANGED calls
      BY <3>1 DEF WorkerApply, HeldInv, WorkerTrue
    <3> QED
      BY <3>1, <3>2, ReachedMeansCalled DEF JustifiedStep
  <2> QED
    BY <2>1, <2>2
<1>4. CASE Bank \/ UNCHANGED vars
  BY <1>4, BankLedger DEF JustifiedStep, vars
<1> QED
  BY <1>1, <1>2, <1>3, <1>4 DEF Next

-----------------------------------------------------------------------------
(* The ledger and the responses.                                           *)

\* Where the status of an order comes from in a step.
LEMMA StatusComesFrom ==
  ASSUME TypeOK, JustifiedStep, NEW b \in Biz, status'[b] \in Terminal
  PROVE  \/ status'[b] = status[b]
         \/ Justified(b, status'[b])
<1>1. CASE UNCHANGED ledger
  BY <1>1 DEF ledger
<1>2. ASSUME NEW c \in Biz, Accepts(c)
      PROVE  status'[b] = status[b]
  BY <1>2 DEF Accepts, TypeOK, Terminal
<1>3. ASSUME NEW c \in Biz, NEW s \in {"SUBMITTED", "RESULT_UNKNOWN"}, Suspends(c, s)
      PROVE  status'[b] = status[b]
  BY <1>3 DEF Suspends, TypeOK, Terminal
<1>4. ASSUME NEW c \in Biz, NEW s \in Terminal, Settles(c, s), Justified(c, s)
      PROVE  \/ status'[b] = status[b]
             \/ Justified(b, status'[b])
  <2>1. status' = [status EXCEPT ![c] = s]
    BY <1>4 DEF Settles, Finalize
  <2> QED
    BY <1>4, <2>1 DEF TypeOK
<1> QED
  BY <1>1, <1>2, <1>3, <1>4 DEF JustifiedStep

LEMMA CalledStep ==
  ASSUME CoreInv, CalledInv, JustifiedStep, CallsStep, BankAdvances
  PROVE  CalledInv'
<1> SUFFICES ASSUME NEW b \in Biz, bank'[b] # "unseen" \/ status'[b] \in Terminal
             PROVE  calls'[b] = 1
  BY DEF CalledInv
<1>1. calls[b] \in {0, 1}
  <2>1. calls[b] \in Nat /\ calls[b] <= 1
    BY DEF CoreInv, TypeOK, RequestInv, AbsentInv
  <2> QED
    BY <2>1
<1>2. calls[b] = 1
  <2>1. CASE bank'[b] # "unseen"
    BY <1>1, <2>1 DEF BankAdvances, CalledInv
  <2>2. CASE status'[b] \in Terminal
    BY <2>2, StatusComesFrom DEF CoreInv, CalledInv, Justified
  <2> QED
    BY <2>1, <2>2
<1> QED
  BY <1>2 DEF CallsStep, CoreInv, TypeOK

LEMMA MatchStep ==
  ASSUME TypeOK, LedgerMatchesBank, JustifiedStep, BankAdvances
  PROVE  LedgerMatchesBank'
<1>1. ASSUME NEW b \in Biz, NEW s \in {"SUCCEEDED", "REVERSED"}, status'[b] = s
      PROVE  Reached(b, s)'
  <2>1. s \in Terminal /\ s \in Decisions /\ s # "FAILED"
    BY DEF Terminal, Decisions
  <2>2. CASE s = status[b]
    BY <2>1, <2>2 DEF LedgerMatchesBank, Reached, BankAdvances
  <2>3. CASE Justified(b, s)
    BY <2>1, <2>3 DEF Justified, BankAdvances
  <2> QED
    BY <1>1, <2>1, <2>2, <2>3, StatusComesFrom
<1> QED
  BY <1>1 DEF LedgerMatchesBank, Reached

\* What a step does to the idempotency records: one is inserted, or an empty
\* response is filled in.
IdemStep(p) ==
  \/ UNCHANGED idem
  \/ /\ Register(p)
     /\ idem[Key(p)] = None
     /\ idem' = [idem EXCEPT ![Key(p)] = [payload |-> intent[p].payload, response |-> None]]
  \/ /\ Complete(p)
     /\ idem[Key(p)] # None
     /\ idem[Key(p)].response = None
     /\ \E s \in Statuses, applied \in BOOLEAN :
          idem' = [idem EXCEPT ![Key(p)] = [payload  |-> idem[Key(p)].payload,
                                            response |-> ResponseOf(p, s, applied)]]

LEMMA SubmitIdem ==
  ASSUME TypeOK, RequestInv, NEW p \in Threads, Submit(p)
  PROVE  IdemStep(p)
<1>1. CASE Register(p)
  BY <1>1 DEF Register, IdemStep
<1>2. CASE Complete(p)
  <2> DEFINE b == intent[p].biz
             s == status'[b]
             applied == StillAccepted(b)
             r == ResponseOf(p, s, applied)
  <2>1. /\ idem[Key(p)] # None
        /\ idem[Key(p)].response = None
        /\ status[b] # "ABSENT"
    BY <1>2 DEF Complete, RequestInv, ActiveInv, Active
  <2>2. Key(p) \in Keys /\ idem[Key(p)] \in Records /\ b \in Biz
    BY <2>1 DEF TypeOK, Key, Keys, Intents
  <2>3. idem' = [idem EXCEPT ![Key(p)] = [idem[Key(p)] EXCEPT !.response = r]]
    BY <1>2 DEF Complete
  <2>4. s \in Statuses
    <3>1. TypeOK' /\ status'[b] # "ABSENT"
      <4>1. LedgerStep
        BY <1>2, <2>2, SubmitLedger DEF LedgerStep
      <4> QED
        BY <2>1, <2>2, <4>1, SubmitType, NeverAbsentAgain
    <3> QED
      BY <2>2, <3>1 DEF TypeOK
  <2>5. applied \in BOOLEAN
    BY DEF StillAccepted
  <2> HIDE DEF r
  <2>6. [idem[Key(p)] EXCEPT !.response = r] = [payload |-> idem[Key(p)].payload, response |-> r]
    BY <2>2 DEF Records
  <2>7. idem' = [idem EXCEPT ![Key(p)] = [payload  |-> idem[Key(p)].payload,
                                          response |-> ResponseOf(p, s, applied)]]
    BY <2>3, <2>6 DEF r
  <2> HIDE DEF s, applied
  <2> QED
    BY <1>2, <2>1, <2>4, <2>5, <2>7 DEF IdemStep
<1> QED
  BY <1>1, <1>2
     DEF IdemStep, Submit, Lookup, Dispatch, Answered, AnsweredGarbage, Crash

LEMMA OthersIdem ==
  ASSUME [Next]_vars, ~ \E p \in Threads : Submit(p)
  PROVE  UNCHANGED idem
<1>1. ASSUME NEW h \in Handlers,
             \/ \E n \in notices : Receive(h, n)
             \/ Handle(h) \/ HandlerFails(h) \/ HandlerCrash(h)
      PROVE  UNCHANGED idem
  BY <1>1 DEF Handle, Receive, HandlerFails, HandlerCrash, Duplicate, ResolveTerminal,
     ResolvePeek, HandlerQuery, HandlerApply, Recheck, MarkProcessed, MarkUnresolved
<1>2. CASE Bank \/ UNCHANGED vars
  BY <1>2, BankLedger DEF vars
<1>3. CASE Reconcile
  BY <1>3 DEF Reconcile, Pick, Ages, Alert, WorkerQuery, WorkerApply, WorkerFails
<1> QED
  BY <1>1, <1>2, <1>3 DEF Next

\* NOT_APPLIED is only said of evidence.
LEMMA NotAppliedNeedsEvidence ==
  ASSUME NEW p \in Threads, NEW s, NEW applied, ResponseOf(p, s, applied).outcome = "NOT_APPLIED"
  PROVE  NoEffectEvidence(answer[p], Repayment(p))
<1>1. ResponseOf(p, s, applied).outcome =
        Outcome(s, NoEffectEvidence(answer[p], Repayment(p)),
                Trusted(answer[p], Repayment(p)) \/ ~applied)
  BY DEF ResponseOf
<1>2. ASSUME NEW e, NEW u, Outcome(s, e, u) = "NOT_APPLIED"
      PROVE  e
  BY <1>2 DEF Outcome
<1> QED
  BY <1>1, <1>2

LEMMA NotAppliedStep ==
  ASSUME CoreInv, HeldInv, NotAppliedIsTrue, BankAdvances, [Next]_vars
  PROVE  NotAppliedIsTrue'
<1> USE DEF CoreInv
<1> DEFINE Says(k) == /\ idem[k] # None
                      /\ idem[k].response # None
                      /\ idem[k].response.outcome = "NOT_APPLIED"
           Holds(k) == NotExecuted(k[1], k[2] \in RepaymentScopes)
<1>1. \A k \in Keys : k[1] \in Biz
  BY DEF Keys
<1>2. \A k \in Keys : Holds(k) => Holds(k)'
  BY <1>1, NotExecutedStays
<1>3. \A k \in Keys : Says(k) => Holds(k)
  BY DEF NotAppliedIsTrue, NotExecuted
<1>4. CASE UNCHANGED idem
  <2>1. \A k \in Keys : Says(k)' => Holds(k)'
    BY <1>2, <1>3, <1>4
  <2> QED
    BY <2>1 DEF NotAppliedIsTrue, NotExecuted
<1>5. ASSUME NEW p \in Threads, Submit(p), ~UNCHANGED idem
      PROVE  NotAppliedIsTrue'
  <2>1. Key(p) \in Keys /\ idem \in [Keys -> {None} \union Records]
    BY DEF TypeOK, Key, Keys, Intents
  <2>2. \A k \in Keys : k # Key(p) => idem'[k] = idem[k]
    BY <1>5, <2>1, SubmitIdem DEF IdemStep
  <2>3. ASSUME NEW k \in Keys, k = Key(p), Says(k)'
        PROVE  Holds(k)'
    <3>1. CASE /\ Register(p)
               /\ idem' = [idem EXCEPT ![Key(p)] =
                            [payload |-> intent[p].payload, response |-> None]]
      BY <2>1, <2>3, <3>1
    <3>2. ASSUME NEW s \in Statuses, NEW applied \in BOOLEAN, Complete(p),
                 idem' = [idem EXCEPT ![Key(p)] = [payload  |-> idem[Key(p)].payload,
                                                   response |-> ResponseOf(p, s, applied)]]
          PROVE  Holds(k)'
      <4>1. idem'[k].response = ResponseOf(p, s, applied)
        BY <2>1, <2>3, <3>2
      <4>2. NoEffectEvidence(answer[p], Repayment(p))
        BY <2>3, <4>1, NotAppliedNeedsEvidence
      <4>3. NotExecuted(intent[p].biz, Repayment(p))
        BY <3>2, <4>2 DEF HeldInv, AnswersTrue, Complete
      <4>4. Holds(k)
        BY <2>3, <4>3 DEF Key, Repayment
      <4> QED
        BY <1>2, <4>4
    <3> HIDE DEF Says, Holds
    <3> QED
      BY <1>5, <3>1, <3>2, SubmitIdem DEF IdemStep
  <2>4. \A k \in Keys : Says(k)' => Holds(k)'
    <3>1. ASSUME NEW k \in Keys, k # Key(p), Says(k)'
          PROVE  Holds(k)'
      BY <1>2, <1>3, <2>2, <3>1
    <3> HIDE DEF Says, Holds
    <3> QED
      BY <2>3, <3>1
  <2> QED
    BY <2>4 DEF NotAppliedIsTrue, NotExecuted
<1> QED
  BY <1>4, <1>5, OthersIdem

LEMMA TruthInit == Init => TruthInv
<1> SUFFICES ASSUME Init
             PROVE  TruthInv
  OBVIOUS
<1>1. AnswersTrue /\ NoticesTrue /\ InboxTrue /\ HandlersTrue /\ WorkerTrue
  BY DEF Init, AnswersTrue, NoticesTrue, InboxTrue, HandlersTrue, WorkerTrue, Idle, Resting
<1>2. CalledInv /\ LedgerMatchesBank
  BY DEF Init, CalledInv, LedgerMatchesBank, Terminal
<1>3. NotAppliedIsTrue
  BY DEF Init, NotAppliedIsTrue
<1> QED
  BY <1>1, <1>2, <1>3 DEF TruthInv, HeldInv

LEMMA TruthStep ==
  ASSUME CoreInv, TruthInv, [Next]_vars
  PROVE  TruthInv' /\ JustifiedStep /\ CallsStep
<1>1. TypeOK
  BY DEF CoreInv
<1>2. BankAdvances /\ JustifiedStep /\ CallsStep
  BY <1>1, BankStep, NextJustified, NextCalls DEF TruthInv
<1>3. HeldInv'
  BY HeldStep DEF TruthInv
<1>4. CalledInv' /\ LedgerMatchesBank' /\ NotAppliedIsTrue'
  BY <1>1, <1>2, CalledStep, MatchStep, NotAppliedStep DEF TruthInv
<1> QED
  BY <1>2, <1>3, <1>4 DEF TruthInv

LEMMA TruthAlways == Spec => [](CoreInv /\ TruthInv)
<1>1. Init => CoreInv /\ TruthInv
  BY CoreInit, TruthInit
<1>2. CoreInv /\ TruthInv /\ [Next]_vars => (CoreInv /\ TruthInv)'
  BY CoreStep, TruthStep
<1> QED
  BY <1>1, <1>2, PTL DEF Spec

\* However stale the answer, the callback or the query result that settled an
\* order: the ledger never claims more than wedap has done.
THEOREM LedgerMatchesBankCorrect == Spec => []LedgerMatchesBank
<1>1. TruthInv => LedgerMatchesBank
  BY DEF TruthInv
<1> QED
  BY <1>1, TruthAlways, PTL

\* A caller that is told to start anew is never told so of an order that wedap
\* has executed or may still execute.
THEOREM NotAppliedCorrect == Spec => []NotAppliedIsTrue
<1>1. TruthInv => NotAppliedIsTrue
  BY DEF TruthInv
<1> QED
  BY <1>1, TruthAlways, PTL

\* An order becomes FAILED only if wedap has refused or failed it, or by its own
\* request at an error that proves nothing: RepaymentFailureConfirmed, which the
\* code does not keep, is never lost by a callback or by a status query.
FailsGrounded ==
  \A b \in Biz : status[b] # "FAILED" /\ status'[b] = "FAILED" => FailedGrounds(b)

FailedIsGrounded == [][FailsGrounded]_vars

\* The line that sets FAILED without grounds is submit.py:249 and its like in
\* transaction 2: whatever else writes the ledger repeats what wedap has decided.
THEOREM FailedIsGroundedCorrect == Spec => FailedIsGrounded
<1>1. CoreInv /\ TruthInv /\ [Next]_vars => FailsGrounded
  BY TruthStep, StatusComesFrom DEF CoreInv, Justified, Terminal, FailsGrounded
<1> QED
  BY <1>1, TruthAlways, PTL DEF Spec, FailedIsGrounded

-----------------------------------------------------------------------------
(* A callback is only put away when its order is settled.                  *)

\* A handler that is about to mark its row, or to mark it whatever happens to
\* its query, knows that the order is settled.
HandlerKnows(h) ==
  /\ handler[h].pc = "mark" => finalized[handler[h].body.biz]
  /\ handler[h].optional /\ handler[h].pc \in {"query", "apply"}
       => finalized[handler[h].body.biz]

ProcessedInv ==
  /\ InboxProcessedMeansSettled
  /\ \A h \in Handlers : HandlerKnows(h)

LEMMA FinalStays ==
  ASSUME TypeOK, LedgerStep, NEW b \in Biz, finalized[b]
  PROVE  finalized'[b]
BY DEF TypeOK, LedgerStep, Accepts, Suspends, Settles, Finalize, ledger

\* A settled order is final, and a verdict leaves its order so.
LEMMA VerdictSettles ==
  ASSUME TypeOK, SettledInv, NEW b \in Biz, NEW s \in Results, Verdict(b, s),
         Settled(b) \/ Takes(b, s)
  PROVE  finalized'[b]
<1>1. CASE Takes(b, s)
  <2>1. s \in Terminal /\ Settles(b, s)
    BY <1>1, TakesTerminal DEF Verdict, Settles
  <2> QED
    BY <2>1, SettlesHow DEF TypeOK
<1>2. CASE ~Takes(b, s)
  <2>1. UNCHANGED ledger /\ Settled(b)
    BY <1>2 DEF Verdict
  <2>2. status[b] \in {"ABSENT"} \union Open \union Terminal
    BY DEF SettledInv, WrittenInv
  <2>3. finalized[b]
    BY <2>1, <2>2 DEF Settled, SettledInv, SettledOnce, Absorbing, Terminal, Open
  <2> QED
    BY <2>1, <2>3 DEF ledger
<1> QED
  BY <1>1, <1>2

LEMMA FinishedIsFinal ==
  ASSUME SettledInv, NEW b \in Biz, Finished(b) \/ status[b] = "SUCCEEDED"
  PROVE  finalized[b]
BY DEF SettledInv, SettledOnce, Finished, Terminal

LEMMA HandlerKnowsSteps ==
  ASSUME TypeOK, HandlerInv, SettledInv, ProcessedInv, LedgerStep, NEW h \in Handlers,
         \/ \E n \in notices : Receive(h, n)
         \/ Handle(h) \/ HandlerFails(h) \/ HandlerCrash(h)
  PROVE  HandlerKnows(h)'
<1> DEFINE H == handler[h]
           b == H.body.biz
           Goes(f) == handler' = [handler EXCEPT ![h] = f]
<1>1. HandlerKnows(h) /\ H \in HandlerStates
  BY DEF ProcessedInv, TypeOK
<1>2. \A f : Goes(f) => handler'[h] = f
  BY DEF TypeOK
<1>3. ASSUME handler'[h] = Idle
      PROVE  HandlerKnows(h)'
  BY <1>3 DEF HandlerKnows, Idle
<1>4. ASSUME NEW l, l \notin {"query", "apply"}, Goes([H EXCEPT !.pc = l]),
             l = "mark" => finalized'[b]
      PROVE  HandlerKnows(h)'
  <2>1. handler'[h] = [H EXCEPT !.pc = l]
    BY <1>2, <1>4
  <2>2. handler'[h].pc = l /\ handler'[h].body = H.body
    BY <1>1, <2>1 DEF HandlerStates
  <2> QED
    BY <1>4, <2>2 DEF HandlerKnows
<1>5. ASSUME NEW n \in notices, Receive(h, n)
      PROVE  HandlerKnows(h)'
  <2>1. handler'[h].pc \in {"resolve", "duplicate"}
    BY <1>2, <1>5 DEF Receive, Step, Idle
  <2> QED
    BY <2>1 DEF HandlerKnows
<1>6. ASSUME Duplicate(h)
      PROVE  HandlerKnows(h)'
  <2>1. CASE inbox[H.id].state = "RECEIVED"
    <3>1. Goes([H EXCEPT !.pc = "resolve", !.body = inbox[H.id].body, !.replay = TRUE])
      BY <1>6, <2>1 DEF Duplicate, Step
    <3>2. handler'[h] = [H EXCEPT !.pc = "resolve", !.body = inbox[H.id].body, !.replay = TRUE]
      BY <1>2, <3>1
    <3>3. handler'[h].pc = "resolve"
      BY <1>1, <3>2 DEF HandlerStates
    <3> QED
      BY <3>3 DEF HandlerKnows
  <2>2. CASE inbox[H.id].state # "RECEIVED"
    BY <1>2, <1>3, <1>6, <2>2 DEF Duplicate, Step
  <2> QED
    BY <2>1, <2>2
<1>7. ASSUME ResolveTerminal(h)
      PROVE  HandlerKnows(h)'
  <2> DEFINE s == MapTxnStatus(H.body.word)
             l == IF status[b] # "ABSENT" /\ (Settled(b) \/ Takes(b, s)) THEN "mark" ELSE "unresolved"
  <2>1. Verdict(b, s) /\ Goes([H EXCEPT !.pc = l]) /\ H.pc = "resolve"
    BY <1>7 DEF ResolveTerminal, Step
  <2>2. b \in Biz /\ s \in Results
    BY <2>1, HandlerFacts, MapTxnStatusRange
  <2>3. l = "mark" => Settled(b) \/ Takes(b, s)
    OBVIOUS
  <2>4. l \notin {"query", "apply"}
    OBVIOUS
  <2> HIDE DEF s, l
  <2>5. l = "mark" => finalized'[b]
    BY <2>1, <2>2, <2>3, VerdictSettles
  <2> QED
    BY <1>4, <2>1, <2>4, <2>5
<1>8. ASSUME ResolvePeek(h)
      PROVE  HandlerKnows(h)'
  <2> DEFINE o == status[b] = "SUCCEEDED"
             l == CASE status[b] = "ABSENT" -> "unresolved"
                    [] Finished(b) /\ status[b] \notin {"ABSENT", "SUCCEEDED"} -> "mark"
                    [] OTHER -> "query"
  <2>1. Goes([H EXCEPT !.optional = o, !.pc = l]) /\ UNCHANGED ledger /\ H.pc = "resolve"
    BY <1>8 DEF ResolvePeek, Step
  <2>2. b \in Biz
    BY <2>1, HandlerFacts
  <2>3. /\ l = "mark" => Finished(b)
        /\ o => status[b] = "SUCCEEDED"
    OBVIOUS
  <2>4. (l = "mark" \/ o) => finalized'[b]
    BY <2>1, <2>2, <2>3, FinishedIsFinal DEF ledger
  <2> HIDE DEF l, o
  <2>5. handler'[h] = [H EXCEPT !.optional = o, !.pc = l]
    BY <1>2, <2>1
  <2>6. /\ handler'[h].pc = l
        /\ handler'[h].optional = o
        /\ handler'[h].body = H.body
    BY <1>1, <2>5 DEF HandlerStates
  <2> QED
    BY <2>4, <2>6 DEF HandlerKnows
<1>9. ASSUME NEW r \in Results, HandlerQuery(h, r)
      PROVE  HandlerKnows(h)'
  <2> DEFINE l == CASE r # Unmapped -> "apply"
                    [] r = Unmapped /\ H.optional -> "mark"
                    [] OTHER -> "recheck"
  <2>1. Goes([H EXCEPT !.result = r, !.pc = l]) /\ UNCHANGED ledger /\ H.pc = "query"
    BY <1>9 DEF HandlerQuery, Step
  <2>2. l = "mark" => H.optional
    OBVIOUS
  <2> HIDE DEF l
  <2>3. H.optional => finalized'[b]
    BY <1>1, <2>1 DEF HandlerKnows, ledger
  <2>4. handler'[h] = [H EXCEPT !.result = r, !.pc = l]
    BY <1>2, <2>1
  <2>5. /\ handler'[h].pc = l
        /\ handler'[h].optional = H.optional
        /\ handler'[h].body = H.body
    BY <1>1, <2>4 DEF HandlerStates
  <2> QED
    BY <2>2, <2>3, <2>5 DEF HandlerKnows
<1>10. ASSUME HandlerApply(h)
       PROVE  HandlerKnows(h)'
  <2> DEFINE s == H.result
             l == IF H.optional \/ Takes(b, s) THEN "mark" ELSE "recheck"
  <2>1. Verdict(b, s) /\ Goes([H EXCEPT !.pc = l]) /\ H.pc = "apply"
    BY <1>10 DEF HandlerApply, Step
  <2>2. b \in Biz /\ s \in Results
    BY <1>1, <2>1, HandlerFacts DEF HandlerStates
  <2>3. /\ l = "mark" => H.optional \/ Takes(b, s)
        /\ l \notin {"query", "apply"}
    OBVIOUS
  <2>4. H.optional => finalized[b]
    BY <1>1, <2>1 DEF HandlerKnows
  <2> HIDE DEF s, l
  <2>5. l = "mark" => finalized'[b]
    BY <2>1, <2>2, <2>3, <2>4, VerdictSettles, FinalStays
  <2> QED
    BY <1>4, <2>1, <2>3, <2>5
<1>11. ASSUME Recheck(h)
       PROVE  HandlerKnows(h)'
  <2> DEFINE l == IF Finished(b) THEN "mark" ELSE "unresolved"
  <2>1. Goes([H EXCEPT !.pc = l]) /\ UNCHANGED ledger /\ H.pc = "recheck"
    BY <1>11 DEF Recheck, Step
  <2>2. b \in Biz
    BY <2>1, HandlerFacts
  <2>3. l = "mark" => finalized'[b]
    BY <2>1, <2>2, FinishedIsFinal DEF ledger
  <2>4. l \notin {"query", "apply"}
    OBVIOUS
  <2> HIDE DEF l
  <2> QED
    BY <1>4, <2>1, <2>3, <2>4
<1>12. ASSUME HandlerFails(h)
       PROVE  HandlerKnows(h)'
  <2> DEFINE l == IF H.optional /\ H.pc \in {"query", "apply"} THEN "mark" ELSE "unresolved"
  <2>1. Goes([H EXCEPT !.pc = l]) /\ UNCHANGED ledger
    BY <1>12 DEF HandlerFails, Step
  <2>2. l = "mark" => finalized'[b]
    BY <1>1, <2>1 DEF HandlerKnows, ledger
  <2>3. l \notin {"query", "apply"}
    OBVIOUS
  <2> HIDE DEF l
  <2> QED
    BY <1>4, <2>1, <2>2, <2>3
<1>13. ASSUME MarkProcessed(h) \/ MarkUnresolved(h) \/ HandlerCrash(h)
       PROVE  HandlerKnows(h)'
  BY <1>2, <1>3, <1>13 DEF MarkProcessed, MarkUnresolved, HandlerCrash, Step
<1> QED
  BY <1>5, <1>6, <1>7, <1>8, <1>9, <1>10, <1>11, <1>12, <1>13 DEF Handle

LEMMA HandleProcessed ==
  ASSUME TypeOK, HandlerInv, SettledInv, ProcessedInv, LedgerStep, NEW h \in Handlers,
         \/ \E n \in notices : Receive(h, n)
         \/ Handle(h) \/ HandlerFails(h) \/ HandlerCrash(h)
  PROVE  ProcessedInv'
<1>1. ASSUME NEW c \in Callbacks, inbox'[c] # None, inbox'[c].state = "PROCESSED"
      PROVE  finalized'[inbox'[c].body.biz]
  <2> DEFINE Written == /\ inbox[c] # None
                        /\ inbox'[c].body = inbox[c].body
                        /\ inbox'[c].state = "PROCESSED" =>
                             \/ inbox[c].state = "PROCESSED"
                             \/ handler[h].pc = "mark" /\ handler[h].id = c
             Stored == \E n \in notices :
               inbox'[c] = [state |-> "RECEIVED", body |-> [biz |-> n.biz, word |-> n.word]]
  <2>0. Written \/ Stored
    BY <1>1, InboxMoves
  <2>1. CASE Written
    <3>1. inbox[c].body.biz \in Biz
      BY <2>1 DEF TypeOK, Rows, Bodies
    <3>2. CASE inbox[c].state = "PROCESSED"
      BY <2>1, <3>1, <3>2, FinalStays DEF ProcessedInv, InboxProcessedMeansSettled
    <3>3. CASE handler[h].pc = "mark" /\ handler[h].id = c
      <4>1. handler[h].body = inbox[c].body
        BY <3>3 DEF HandlerInv
      <4>2. finalized[handler[h].body.biz]
        BY <3>3 DEF ProcessedInv, HandlerKnows
      <4>3. finalized[inbox[c].body.biz]
        BY <4>1, <4>2
      <4>4. finalized'[inbox[c].body.biz]
        BY <3>1, <4>3, FinalStays
      <4> QED
        BY <2>1, <4>4
    <3> QED
      BY <1>1, <2>1, <3>2, <3>3
  <2>2. CASE Stored
    BY <1>1, <2>2
  <2> QED
    BY <2>0, <2>1, <2>2
<1>2. ASSUME NEW g \in Handlers, g # h
      PROVE  HandlerKnows(g)'
  <2>1. handler'[g] = handler[g]
    BY <1>2, HandlerFineSteps DEF HandlerMoves
  <2>2. handler[g].pc \in {"mark", "query", "apply"} => handler[g].body.biz \in Biz
    BY HandlerFacts
  <2>3. HandlerKnows(g)
    BY DEF ProcessedInv
  <2> QED
    BY <2>1, <2>2, <2>3, FinalStays DEF HandlerKnows
<1> QED
  BY <1>1, <1>2, HandlerKnowsSteps DEF ProcessedInv, InboxProcessedMeansSettled

\* The other actors settle orders, but never unsettle one.
LEMMA ProcessedKept ==
  ASSUME TypeOK, HandlerInv, ProcessedInv, LedgerStep, UNCHANGED <<inbox, handler>>
  PROVE  ProcessedInv'
<1>1. ASSUME NEW c \in Callbacks, inbox[c] # None, inbox[c].state = "PROCESSED"
      PROVE  finalized'[inbox[c].body.biz]
  <2>1. inbox[c].body.biz \in Biz
    BY <1>1 DEF TypeOK, Rows, Bodies
  <2> QED
    BY <1>1, <2>1, FinalStays DEF ProcessedInv, InboxProcessedMeansSettled
<1>2. ASSUME NEW h \in Handlers
      PROVE  HandlerKnows(h)'
  <2>1. handler[h].pc \in {"mark", "query", "apply"} => handler[h].body.biz \in Biz
    BY HandlerFacts
  <2>2. HandlerKnows(h)
    BY DEF ProcessedInv
  <2> QED
    BY <2>1, <2>2, FinalStays DEF HandlerKnows
<1> QED
  BY <1>1, <1>2 DEF ProcessedInv, InboxProcessedMeansSettled

LEMMA ProcessedStep ==
  ASSUME CoreInv, SettledInv, ProcessedInv, [Next]_vars
  PROVE  ProcessedInv'
<1> USE DEF CoreInv
<1>1. LedgerStep
  BY NextLedger
<1>2. ASSUME NEW h \in Handlers,
             \/ \E n \in notices : Receive(h, n)
             \/ Handle(h) \/ HandlerFails(h) \/ HandlerCrash(h)
      PROVE  ProcessedInv'
  BY <1>1, <1>2, HandleProcessed
<1>3. ASSUME NEW p \in Threads, Submit(p)
      PROVE  UNCHANGED <<inbox, handler>>
  BY <1>3 DEF Submit, Lookup, Register, Dispatch, Answered, AnsweredGarbage, Complete, Crash,
     callbacks
<1>4. ASSUME Reconcile
      PROVE  UNCHANGED <<inbox, handler>>
  BY <1>4 DEF Reconcile, Pick, Ages, Alert, WorkerQuery, WorkerApply, WorkerFails, callbacks
<1>5. ASSUME Bank \/ UNCHANGED vars
      PROVE  UNCHANGED <<inbox, handler>>
  BY <1>5, BankLedger DEF vars, callbacks
<1> QED
  BY <1>1, <1>2, <1>3, <1>4, <1>5, ProcessedKept DEF Next

\* A callback that no replay will drive again has its order finalised, whatever
\* raced its handler between two unlocked reads.
THEOREM ProcessedCorrect == Spec => []InboxProcessedMeansSettled
<1>1. Init => CoreInv /\ SettledInv /\ ProcessedInv
  <2>1. Init => ProcessedInv
    BY DEF Init, ProcessedInv, InboxProcessedMeansSettled, HandlerKnows, Idle
  <2> QED
    BY <2>1, CoreInit, SettledInit
<1>2. CoreInv /\ SettledInv /\ ProcessedInv /\ [Next]_vars
        => (CoreInv /\ SettledInv /\ ProcessedInv)'
  <2>1. CoreInv /\ SettledInv /\ [Next]_vars => SettledInv'
    BY NextLedger, SettledStep DEF CoreInv
  <2> QED
    BY <2>1, CoreStep, ProcessedStep
<1>3. ProcessedInv => InboxProcessedMeansSettled
  BY DEF ProcessedInv
<1> QED
  BY <1>1, <1>2, <1>3, PTL DEF Spec

-----------------------------------------------------------------------------
(* Idempotency.                                                            *)

\* A record keeps its fingerprint and its response.
RecordsKept ==
  \A k \in Keys : idem[k] # None =>
    /\ idem'[k] # None
    /\ idem'[k].payload = idem[k].payload
    /\ idem[k].response # None => idem'[k].response = idem[k].response

LEMMA RecordsStep ==
  ASSUME CoreInv, [Next]_vars
  PROVE  RecordsKept
<1> USE DEF CoreInv
<1>1. CASE UNCHANGED idem
  BY <1>1 DEF RecordsKept
<1>2. ASSUME NEW p \in Threads, Submit(p), ~UNCHANGED idem
      PROVE  RecordsKept
  <2>1. TypeOK' /\ Key(p) \in Keys
    BY <1>2, SubmitType DEF TypeOK, Key, Keys, Intents
  <2>2. CASE idem[Key(p)] = None
    <3>1. \A k \in Keys : k # Key(p) => idem'[k] = idem[k]
      BY <1>2, <2>1, SubmitIdem DEF IdemStep, TypeOK
    <3> QED
      BY <2>2, <3>1 DEF RecordsKept
  <2>3. ASSUME NEW r \in Responses, idem[Key(p)] # None, idem[Key(p)].response = None,
               idem' = [idem EXCEPT ![Key(p)] =
                         [payload |-> idem[Key(p)].payload, response |-> r]]
        PROVE  RecordsKept
    <3>1. \A k \in Keys : k # Key(p) => idem'[k] = idem[k]
      BY <2>1, <2>3 DEF TypeOK
    <3>2. idem'[Key(p)] = [payload |-> idem[Key(p)].payload, response |-> r]
      BY <2>1, <2>3 DEF TypeOK
    <3>3. [payload |-> idem[Key(p)].payload, response |-> r] \in Records
      BY <2>1, <2>3 DEF TypeOK, Records
    <3>4. idem'[Key(p)] # None
      BY <3>2, <3>3, NoneAssumption
    <3> QED
      BY <2>3, <3>1, <3>2, <3>4 DEF RecordsKept
  <2>4. \A s \in Statuses, applied \in BOOLEAN : ResponseOf(p, s, applied) \in Responses
    BY ResponseRange DEF TypeOK
  <2> QED
    BY <1>2, <2>2, <2>3, <2>4, SubmitIdem DEF IdemStep
<1> QED
  BY <1>1, <1>2, OthersIdem

\* Every replay of a request gets the first response there was, and a record
\* never changes the body it stands for.
THEOREM FirstResponseFrozenCorrect == Spec => FirstResponseFrozen
<1>1. CoreInv /\ [Next]_vars => RecordsKept
  BY RecordsStep
<1> QED
  BY <1>1, CoreAlways, PTL DEF Spec, FirstResponseFrozen, RecordsKept

AnsweredFrom(p) ==
  reply[p] \in {"IN_FLIGHT", "FIRST_RESPONSE"}
    => /\ idem[Key(p)] # None
       /\ idem[Key(p)].payload = intent[p].payload

LEMMA KnownKeyReplies ==
  ASSUME NEW p, idem[Key(p)] # None, KnownKeyReply(p) \in {"IN_FLIGHT", "FIRST_RESPONSE"}
  PROVE  idem[Key(p)].payload = intent[p].payload
BY DEF KnownKeyReply

LEMMA ReplyStep ==
  ASSUME CoreInv, ReplyOnlyToSamePayload, [Next]_vars
  PROVE  ReplyOnlyToSamePayload'
<1> USE DEF CoreInv
<1>1. RecordsKept
  BY RecordsStep
<1>2. \A p \in Threads : Key(p) \in Keys /\ AnsweredFrom(p)
  BY DEF TypeOK, Key, Keys, Intents, ReplyOnlyToSamePayload, AnsweredFrom
<1>3. ASSUME NEW p \in Threads, UNCHANGED intent, idem[Key(p)] # None,
             idem[Key(p)].payload = intent[p].payload
      PROVE  AnsweredFrom(p)'
  BY <1>1, <1>2, <1>3 DEF RecordsKept, AnsweredFrom, Key
<1>4. ASSUME NEW p \in Threads, UNCHANGED <<intent, reply[p]>>
      PROVE  AnsweredFrom(p)'
  BY <1>1, <1>2, <1>4 DEF RecordsKept, AnsweredFrom, Key
<1>5. ASSUME NEW p \in Threads, Submit(p)
      PROVE  ReplyOnlyToSamePayload'
  <2>1. UNCHANGED intent /\ \A q \in Threads : q # p => UNCHANGED reply[q]
    BY <1>5 DEF Submit, Lookup, Register, Dispatch, Answered, AnsweredGarbage, Complete, Crash,
       Respond, Continue, TypeOK
  <2>2. ASSUME idem[Key(p)] # None, Respond(p, KnownKeyReply(p))
        PROVE  AnsweredFrom(p)'
    <3>1. reply'[p] = KnownKeyReply(p)
      BY <2>2 DEF Respond, TypeOK
    <3>2. CASE KnownKeyReply(p) \in {"IN_FLIGHT", "FIRST_RESPONSE"}
      BY <1>3, <2>1, <2>2, <3>2, KnownKeyReplies
    <3>3. CASE KnownKeyReply(p) \notin {"IN_FLIGHT", "FIRST_RESPONSE"}
      BY <3>1, <3>3 DEF AnsweredFrom
    <3> QED
      BY <3>2, <3>3
  <2>3. ASSUME NEW r \in {"CONFLICT_409", "ERROR_400"}, Respond(p, r)
        PROVE  AnsweredFrom(p)'
    <3>1. reply'[p] = r
      BY <2>3 DEF Respond, TypeOK
    <3> QED
      BY <3>1 DEF AnsweredFrom
  <2>4. ASSUME Complete(p)
        PROVE  AnsweredFrom(p)'
    <3>1. idem[Key(p)] # None /\ idem[Key(p)].payload = intent[p].payload
      BY <2>4 DEF Complete, RequestInv, ActiveInv, Active
    <3> QED
      BY <1>3, <2>1, <3>1
  <2>5. ASSUME Lookup(p)
        PROVE  AnsweredFrom(p)'
    BY <1>4, <2>2, <2>5 DEF Lookup, Continue
  <2>6. ASSUME Register(p)
        PROVE  AnsweredFrom(p)'
    BY <1>4, <2>2, <2>3, <2>6 DEF Register, Continue
  <2>7. ASSUME NEW a \in Answers, Answered(p, a)
        PROVE  AnsweredFrom(p)'
    BY <1>4, <2>7 DEF Answered
  <2>8. ASSUME Dispatch(p) \/ AnsweredGarbage(p) \/ Crash(p)
        PROVE  AnsweredFrom(p)'
    BY <1>4, <2>3, <2>8 DEF Dispatch, AnsweredGarbage, Crash, Continue
  <2>9. AnsweredFrom(p)'
    BY <1>5, <2>4, <2>5, <2>6, <2>7, <2>8 DEF Submit
  <2>10. \A q \in Threads : q # p => AnsweredFrom(q)'
    BY <1>4, <2>1
  <2> QED
    BY <2>9, <2>10 DEF ReplyOnlyToSamePayload, AnsweredFrom
<1>6. ASSUME UNCHANGED threads
      PROVE  ReplyOnlyToSamePayload'
  BY <1>4, <1>6 DEF threads, ReplyOnlyToSamePayload, AnsweredFrom
<1>7. ASSUME NEW h \in Handlers,
             \/ \E n \in notices : Receive(h, n)
             \/ Handle(h) \/ HandlerFails(h) \/ HandlerCrash(h)
      PROVE  UNCHANGED threads
  BY <1>7 DEF Handle, Receive, HandlerFails, HandlerCrash, Duplicate, ResolveTerminal,
     ResolvePeek, HandlerQuery, HandlerApply, Recheck, MarkProcessed, MarkUnresolved
<1>8. ASSUME Reconcile
      PROVE  UNCHANGED threads
  BY <1>8 DEF Reconcile, Pick, Ages, Alert, WorkerQuery, WorkerApply, WorkerFails
<1>9. ASSUME Bank \/ UNCHANGED vars
      PROVE  UNCHANGED threads
  BY <1>9, BankLedger DEF vars
<1> QED
  BY <1>5, <1>6, <1>7, <1>8, <1>9 DEF Next

\* Nobody is answered from the record of another request body, whoever wins
\* the race for the key.
THEOREM ReplyCorrect == Spec => []ReplyOnlyToSamePayload
<1>1. Init => ReplyOnlyToSamePayload
  BY DEF Init, ReplyOnlyToSamePayload
<1>2. CoreInv /\ ReplyOnlyToSamePayload /\ [Next]_vars => ReplyOnlyToSamePayload'
  BY ReplyStep
<1> QED
  BY <1>1, <1>2, CoreAlways, PTL DEF Spec

-----------------------------------------------------------------------------
(* The contract.                                                           *)

LEMMA ContractStep ==
  ASSUME CoreInv, SettledInv, CalledInv, JustifiedStep, CallsStep
  PROVE  [Contract!Next]_(Contract!vars)
<1> USE DEF CoreInv
<1> DEFINE ph == [b \in Biz |-> Phase(b)]
<1>1. ASSUME UNCHANGED calls, UNCHANGED forwarded, \A b \in Biz : Phase(b)' = Phase(b)
      PROVE  [Contract!Next]_(Contract!vars)
  BY <1>1 DEF Contract!vars
<1>2. ASSUME UNCHANGED ledger
      PROVE  [Contract!Next]_(Contract!vars)
  <2>1. ph' = ph /\ UNCHANGED forwarded
    BY <1>2 DEF ledger, Phase
  <2>2. CASE UNCHANGED calls
    BY <2>1, <2>2 DEF Contract!vars
  <2>3. ASSUME NEW b \in Biz, status[b] # "ABSENT", calls[b] = 0,
               calls' = [calls EXCEPT ![b] = 1]
        PROVE  Contract!Send(b)
    <3>1. status[b] \notin Terminal
      BY <2>3 DEF CalledInv
    <3>2. ph[b] = "open"
      BY <2>3, <3>1 DEF Phase
    <3> QED
      BY <2>1, <2>3, <3>2 DEF Contract!Send
  <2> QED
    BY <2>2, <2>3 DEF CallsStep, Contract!Next
<1>3. ASSUME NEW b \in Biz, UNCHANGED calls, Accepts(b)
      PROVE  Contract!Accept(b)
  <2>1. status' = [status EXCEPT ![b] = "ACCEPTED"] /\ status[b] = "ABSENT" /\ UNCHANGED forwarded
    BY <1>3 DEF Accepts
  <2>2. ph[b] = "none"
    BY <2>1 DEF Phase, Terminal
  <2>3. Phase(b)' = "open"
    BY <2>1 DEF Phase, TypeOK, Terminal
  <2>4. \A c \in Biz : c # b => Phase(c)' = Phase(c)
    BY <2>1 DEF Phase, TypeOK
  <2>5. ph' = [ph EXCEPT ![b] = "open"]
    BY <2>3, <2>4
  <2> QED
    BY <1>3, <2>1, <2>2, <2>5 DEF Contract!Accept
<1>4. ASSUME NEW b \in Biz, NEW s \in {"SUBMITTED", "RESULT_UNKNOWN"}, UNCHANGED calls,
             Suspends(b, s)
      PROVE  [Contract!Next]_(Contract!vars)
  <2>1. status' = [status EXCEPT ![b] = s] /\ status[b] = "ACCEPTED" /\ UNCHANGED forwarded
    BY <1>4 DEF Suspends
  <2>2. \A c \in Biz : Phase(c)' = Phase(c)
    BY <2>1 DEF Phase, TypeOK, Terminal
  <2> QED
    BY <1>1, <1>4, <2>1, <2>2
<1>5. ASSUME NEW b \in Biz, NEW s \in Terminal, UNCHANGED calls, Settles(b, s), Justified(b, s)
      PROVE  Contract!Settle(b, s) \/ Contract!Reverse(b)
  <2>1. /\ \/ status[b] \in Open
           \/ status[b] = "SUCCEEDED" /\ s = "REVERSED"
        /\ status' = [status EXCEPT ![b] = s]
        /\ forwarded' = [forwarded EXCEPT ![b] = forwarded[b] \union {s}]
    BY <1>5, SettlesHow
  <2>2. Phase(b)' = s
    BY <2>1 DEF Phase, TypeOK, Terminal
  <2>3. \A c \in Biz : c # b => Phase(c)' = Phase(c)
    BY <2>1 DEF Phase, TypeOK
  <2>4. ph' = [ph EXCEPT ![b] = s]
    BY <2>2, <2>3
  <2>5. Contract!Tell(b, s)
    BY <1>5, <2>1, <2>4 DEF Contract!Tell
  <2>6. CASE status[b] \in Open
    <3>1. ph[b] = "open"
      BY <2>6 DEF Phase, Open, Terminal
    <3> QED
      BY <1>5, <2>5, <3>1 DEF Contract!Settle, Justified
  <2>7. CASE status[b] = "SUCCEEDED" /\ s = "REVERSED"
    <3>1. ph[b] = "SUCCEEDED"
      BY <2>7 DEF Phase, Terminal
    <3> QED
      BY <2>5, <2>7, <3>1 DEF Contract!Reverse
  <2> QED
    BY <2>1, <2>6, <2>7
<1>6. Terminal \subseteq Contract!Verdicts
  BY DEF Terminal, Contract!Verdicts
<1> QED
  BY <1>2, <1>3, <1>4, <1>5, <1>6 DEF JustifiedStep, Contract!Next

\* The ledger implements the contract of an order: one acceptance, at most one
\* money call, at most one verdict and only after the call, one reversal of a
\* success, and lifecycle told in the same step.
THEOREM ContractImplemented == Spec => ImplementsContract
<1>1. Init => Contract!Init
  <2> SUFFICES ASSUME Init
               PROVE  Contract!Init
    OBVIOUS
  <2>1. \A b \in Biz : Phase(b) = "none"
    BY DEF Init, Phase, Terminal
  <2> QED
    BY <2>1 DEF Init, Contract!Init
<1>2. CoreInv /\ SettledInv /\ TruthInv /\ [Next]_vars => [Contract!Next]_(Contract!vars)
  BY TruthStep, ContractStep DEF TruthInv
<1> QED
  BY <1>1, <1>2, SettledAlways, TruthAlways, PTL DEF Spec, ImplementsContract, Contract!Spec
=============================================================================
