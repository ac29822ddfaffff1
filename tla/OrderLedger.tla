---------------------------- MODULE OrderLedger ----------------------------
(***************************************************************************)
(* The money path of the gateway.  Request threads register a bizSeqNo,    *)
(* call the bank core (wedap) outside any transaction and settle the order *)
(* (services/submit.py, services/idempotency.py); callback handlers drive  *)
(* an inbox (api/v1/callbacks.py, services/callback_finalize.py); the      *)
(* reconcile worker asks wedap about the orders that are still open        *)
(* (workers/order_reconcile_worker.py, services/order_status_reconcile.py).*)
(* All of them finalise through services/order_finalize.py.                *)
(*                                                                         *)
(* Each action is one database transaction, one external call or one       *)
(* answer of it: what a handler holds between two of them may be stale.    *)
(***************************************************************************)
EXTENDS OrderStates, Naturals, FiniteSets

CONSTANTS Biz,              \* the bizSeqNo of one tenant
          Scopes,           \* business scopes, one per money endpoint
          RepaymentScopes,  \* those that follow the repayment contract
          Payloads,         \* fingerprints of request bodies
          Threads,          \* request threads: each serves one request
          Callbacks,        \* request ids of wedap's callbacks
          Handlers,         \* callback handlers
          MaxNotices,       \* bound: callback bodies wedap sends
          Ageing,           \* bound: orders whose max_age may pass
          None              \* the null of the database and of the code

Keys == Biz \X Scopes
Intents == [biz : Biz, scope : Scopes, payload : Payloads]
Bodies == [biz : Biz, word : Words]
Notices == [id : Callbacks, biz : Biz, word : Words]
Results == Terminal \union {Unmapped}
Records == [payload : Payloads, response : {None} \union Responses]
Rows == [state : {"RECEIVED", "PROCESSED"}, body : Bodies]

ASSUME ScopesAssumption == RepaymentScopes \subseteq Scopes
ASSUME BoundAssumption == MaxNotices \in Nat
ASSUME NoneAssumption ==
  None \notin Responses \union Answers \union Bodies \union Biz \union Results
             \union Records \union Rows

VARIABLES
  status,     \* bank_txn_order.status, "ABSENT" when there is no row
  finalized,  \* bank_txn_order.finalized_at is set
  audited,    \* how many audit entries ORDER_<status> the order has
  forwarded,  \* the statuses with an outbox row fwd-<tenant>-<biz>-<status>
  idem,       \* idempotency_record rows
  intent,     \* the request each thread serves
  pc, answer, reply,  \* where a thread stands, wedap's answer to it, its own
  bank,       \* what wedap knows of a bizSeqNo (external)
  calls,      \* how many money calls the gateway has sent for it
  notices,    \* callbacks wedap has sent: they repeat, reorder or get lost
  inbox,      \* callback_inbox rows
  handler,    \* the callback handlers
  worker,     \* the reconcile worker's current order
  aged,       \* the order is older than max_age
  alerted     \* order_stuck_alert rows

ledger == <<status, finalized, audited, forwarded>>
threads == <<intent, pc, answer, reply>>
callbacks == <<notices, inbox, handler>>
sweep == <<worker, aged, alerted>>
vars == <<ledger, idem, threads, bank, calls, callbacks, sweep>>

-----------------------------------------------------------------------------
Idle == [pc |-> "idle", id |-> None, body |-> None,
         replay |-> FALSE, optional |-> FALSE, result |-> Unmapped]

Resting == [pc |-> "idle", biz |-> None, result |-> Unmapped]

Init ==
  /\ status = [b \in Biz |-> "ABSENT"]
  /\ finalized = [b \in Biz |-> FALSE]
  /\ audited = [b \in Biz |-> [s \in Statuses |-> 0]]
  /\ forwarded = [b \in Biz |-> {}]
  /\ idem = [k \in Keys |-> None]
  /\ intent \in [Threads -> Intents]
  /\ pc = [p \in Threads |-> "lookup"]
  /\ answer = [p \in Threads |-> None]
  /\ reply = [p \in Threads |-> "NONE"]
  /\ bank = [b \in Biz |-> "unseen"]
  /\ calls = [b \in Biz |-> 0]
  /\ notices = {}
  /\ inbox = [c \in Callbacks |-> None]
  /\ handler = [h \in Handlers |-> Idle]
  /\ worker = Resting
  /\ aged = [b \in Biz |-> FALSE]
  /\ alerted = [b \in Biz |-> FALSE]

-----------------------------------------------------------------------------
(* Writing the ledger, inside a transaction that holds the order's row.    *)

\* finalize_terminal_in_session, the caller having set status s: unless the
\* order is finalised already and this is no upgrade, one audit entry and
\* one outbox row, whose dedup key makes a second one a no-op.
Finalize(b, s, upgrade) ==
  /\ status' = [status EXCEPT ![b] = s]
  /\ IF finalized[b] /\ ~upgrade
       THEN UNCHANGED <<finalized, audited, forwarded>>
       ELSE /\ finalized' = [finalized EXCEPT ![b] = TRUE]
            /\ audited' = [audited EXCEPT ![b][s] = @ + 1]
            /\ forwarded' = [forwarded EXCEPT ![b] = @ \union {s}]

Settled(b) == finalized[b] \/ status[b] \in Absorbing

\* Wrong on purpose: a FAILED order, of which no money moved, can be reversed.
UpgradesAnything(b, s) == status[b] \in {"SUCCEEDED", "FAILED"} /\ s = "REVERSED"

\* A settled order takes one more verdict: SUCCEEDED is upgraded to REVERSED.
Upgrades(b, s) == status[b] = "SUCCEEDED" /\ s = "REVERSED"

\* Whether a verdict that arrives late changes the order.
Takes(b, s) ==
  /\ status[b] # "ABSENT"
  /\ IF Settled(b) THEN Upgrades(b, s) ELSE CanMove(status[b], s)

\* Wrong on purpose: upgrade_from is forgotten, the reversal is not announced.
VerdictUnannounced(b, s) == IF Takes(b, s) THEN Finalize(b, s, FALSE) ELSE UNCHANGED ledger

\* The locked part shared by a callback and a status query.
Verdict(b, s) ==
  IF Takes(b, s) THEN Finalize(b, s, Settled(b)) ELSE UNCHANGED ledger

-----------------------------------------------------------------------------
(* A money request (submit_order).                                         *)

Key(p) == <<intent[p].biz, intent[p].scope>>
Repayment(p) == intent[p].scope \in RepaymentScopes

\* Wrong on purpose: no unique key on the order.
BizAlwaysFree(b) == TRUE

\* uq_order_tenant_biz: no other scope has used the bizSeqNo.
BizFree(b) == status[b] = "ABSENT"

\* Wrong on purpose: transaction 2 writes without looking.
BlindWrite(b) == TRUE

\* The compare-and-set of transaction 2: nothing else has moved the order.
StillAccepted(b) == status[b] = "ACCEPTED"

\* Wrong on purpose: the fingerprint is not compared.
ReplyToAnyPayload(p) ==
  IF idem[Key(p)].response = None THEN "IN_FLIGHT" ELSE "FIRST_RESPONSE"

\* check_or_register found the row: mismatch, in flight or replay.
KnownKeyReply(p) ==
  LET own == idem[Key(p)].payload = intent[p].payload
  IN  CASE ~own                                   -> "MISMATCH_422"
        [] own /\ idem[Key(p)].response = None    -> "IN_FLIGHT"
        [] own /\ idem[Key(p)].response # None    -> "FIRST_RESPONSE"

\* The request ends with a reply, and its local variables with it.
Respond(p, r) ==
  /\ pc' = [pc EXCEPT ![p] = "done"]
  /\ answer' = [answer EXCEPT ![p] = None]
  /\ reply' = [reply EXCEPT ![p] = r]
  /\ UNCHANGED intent

Continue(p, label) ==
  /\ pc' = [pc EXCEPT ![p] = label]
  /\ UNCHANGED <<intent, answer, reply>>

\* The SELECT of check_or_register.  Another thread may insert the row
\* between this read and the INSERT of Register.
Lookup(p) ==
  /\ pc[p] = "lookup"
  /\ IF idem[Key(p)] = None THEN Continue(p, "register")
                            ELSE Respond(p, KnownKeyReply(p))
  /\ UNCHANGED <<ledger, idem, bank, calls, callbacks, sweep>>

\* Wrong on purpose: an upsert, which takes over the row of another thread.
RegisterByUpsert(p) ==
  /\ pc[p] = "register"
  /\ idem' = [idem EXCEPT ![Key(p)] = [payload |-> intent[p].payload, response |-> None]]
  /\ status' = [status EXCEPT ![intent[p].biz] = "ACCEPTED"]
  /\ Continue(p, "dispatch")
  /\ UNCHANGED <<finalized, audited, forwarded, bank, calls, callbacks, sweep>>

\* The rest of transaction 1: the INSERT decides a race for the key, and
\* the order's own unique key refuses a bizSeqNo another scope has used.
Register(p) ==
  /\ pc[p] = "register"
  /\ LET b == intent[p].biz IN
     IF idem[Key(p)] # None
       THEN Respond(p, KnownKeyReply(p)) /\ UNCHANGED <<ledger, idem>>
       ELSE IF ~BizFree(b)
         THEN Respond(p, "CONFLICT_409") /\ UNCHANGED <<ledger, idem>>
         ELSE /\ idem' = [idem EXCEPT ![Key(p)] =
                            [payload |-> intent[p].payload, response |-> None]]
              /\ status' = [status EXCEPT ![b] = "ACCEPTED"]
              /\ Continue(p, "dispatch")
              /\ UNCHANGED <<finalized, audited, forwarded>>
  /\ UNCHANGED <<bank, calls, callbacks, sweep>>

\* wedap_call: the request leaves the gateway, no transaction being open.
Dispatch(p) ==
  /\ pc[p] = "dispatch"
  /\ calls' = [calls EXCEPT ![intent[p].biz] = @ + 1]
  /\ Continue(p, "calling")
  /\ UNCHANGED <<ledger, idem, bank, callbacks, sweep>>

\* What wedap may answer, given what it has done with the request.  The
\* words report the truth; a rejection at the door, and for a repayment a
\* listed code, is only given when nothing was executed; the other errors
\* say nothing of the truth.
MayAnswer(b, a, repayment) ==
  CASE a \in {"SUCCESS", "FAILED", "REVERSED"} -> bank[b] = MapTxnStatus(a)
    [] a = "PROCESSING"                         -> bank[b] = "processing"
    [] a = "OTHER"                              -> bank[b] # "unseen"
    [] repayment /\ ListedCode(a)               -> bank[b] = "refused"
    [] ~repayment /\ AtDoor(a)                  -> bank[b] = "refused"
    [] OTHER                                    -> TRUE

\* The call returns or fails: the answer is kept until transaction 2.
Answered(p, a) ==
  /\ pc[p] = "calling"
  /\ MayAnswer(intent[p].biz, a, Repayment(p))
  /\ answer' = [answer EXCEPT ![p] = a]
  /\ pc' = [pc EXCEPT ![p] = "answered"]
  /\ UNCHANGED <<ledger, idem, intent, reply, bank, calls, callbacks, sweep>>

\* A 2xx that is no JSON raises ValueError: 400 to the caller, and
\* transaction 2 never runs.
AnsweredGarbage(p) ==
  /\ pc[p] = "calling"
  /\ bank[intent[p].biz] # "unseen"
  /\ Respond(p, "ERROR_400")
  /\ UNCHANGED <<ledger, idem, bank, calls, callbacks, sweep>>

\* The response, from the answer and the status after the compare-and-set.
ResponseOf(p, orderStatus, applied) ==
  LET a == answer[p] IN
  [txn     |-> NorthboundWord(a, Repayment(p)),
   order   |-> orderStatus,
   outcome |-> Outcome(orderStatus, NoEffectEvidence(a, Repayment(p)),
                       Trusted(a, Repayment(p)) \/ ~applied)]

\* Transaction 2: the answer moves the order only if it is still ACCEPTED;
\* the response follows the ledger and is frozen for every replay.
Complete(p) ==
  /\ pc[p] = "answered"
  /\ LET b == intent[p].biz
         s == LedgerStatus(answer[p], Repayment(p))
         applied == StillAccepted(b)
     IN  /\ IF ~applied
              THEN UNCHANGED ledger
              ELSE IF s \in Terminal
                THEN Finalize(b, s, FALSE)
                ELSE /\ status' = [status EXCEPT ![b] = s]
                     /\ audited' = [audited EXCEPT ![b][s] = @ + 1]
                     /\ UNCHANGED <<finalized, forwarded>>
         /\ idem' = [idem EXCEPT ![Key(p)].response = ResponseOf(p, status'[b], applied)]
  /\ Respond(p, "FIRST_RESPONSE")
  /\ UNCHANGED <<bank, calls, callbacks, sweep>>

\* The thread dies between two steps; what is committed stays.
Crash(p) ==
  /\ pc[p] \notin {"done", "crashed"}
  /\ pc' = [pc EXCEPT ![p] = "crashed"]
  /\ answer' = [answer EXCEPT ![p] = None]
  /\ UNCHANGED <<intent, reply>>
  /\ UNCHANGED <<ledger, idem, bank, calls, callbacks, sweep>>

Submit(p) ==
  \/ Lookup(p) \/ Register(p) \/ Dispatch(p) \/ Complete(p)
  \/ AnsweredGarbage(p) \/ Crash(p)
  \/ \E a \in Answers : Answered(p, a)

-----------------------------------------------------------------------------
(* The bank core, external.  A request is executed at most once, possibly  *)
(* after the gateway gave up waiting for it.                               *)

BankStates == {"unseen", "refused", "processing"} \union Terminal

BankMoves(b, next) ==
  /\ bank' = [bank EXCEPT ![b] = next]
  /\ UNCHANGED <<ledger, idem, threads, calls, callbacks, sweep>>

BankReceives(b) ==
  /\ bank[b] = "unseen" /\ calls[b] > 0
  /\ \E next \in {"refused", "processing", "SUCCEEDED", "FAILED"} : BankMoves(b, next)

BankSettles(b) ==
  \/ /\ bank[b] = "processing"
     /\ \E next \in Terminal : BankMoves(b, next)
  \/ bank[b] = "SUCCEEDED" /\ BankMoves(b, "REVERSED")

\* A callback body either states the truth or states no terminal status.
BankNotifies(n) ==
  /\ n \notin notices /\ Cardinality(notices) < MaxNotices
  /\ MapTxnStatus(n.word) \in {bank[n.biz], Unmapped}
  /\ notices' = notices \union {n}
  /\ UNCHANGED <<ledger, idem, threads, bank, calls, inbox, handler, sweep>>

\* What a status query may return: an error or an unsettled status count
\* as Unmapped, a terminal status is the truth at that moment.
MayReport(b, r) == r \in {bank[b], Unmapped}

Bank ==
  \/ \E b \in Biz : BankReceives(b) \/ BankSettles(b)
  \/ \E n \in [id : Callbacks, biz : Biz, word : Words \ {"PROCESSING"}] : BankNotifies(n)

-----------------------------------------------------------------------------
(* A callback handler (wedap_transaction_callback, resolve_callback_terminal). *)

Step(h, changes) == handler' = [handler EXCEPT ![h] = changes]

\* The request arrives and its body is inserted into the inbox, unless the
\* request id is there already.
Receive(h, n) ==
  /\ handler[h].pc = "idle" /\ n \in notices
  /\ LET body == [biz |-> n.biz, word |-> n.word]
     IN  IF inbox[n.id] = None
           THEN /\ inbox' = [inbox EXCEPT ![n.id] = [state |-> "RECEIVED", body |-> body]]
                /\ Step(h, [Idle EXCEPT !.pc = "resolve", !.id = n.id, !.body = body])
           ELSE /\ Step(h, [Idle EXCEPT !.pc = "duplicate", !.id = n.id])
                /\ UNCHANGED inbox
  /\ UNCHANGED <<ledger, idem, threads, bank, calls, notices, sweep>>

\* A duplicate drives a row that is still RECEIVED again, with the body
\* stored first, and is otherwise acknowledged.
Duplicate(h) ==
  /\ handler[h].pc = "duplicate"
  /\ LET row == inbox[handler[h].id]
     IN  Step(h, IF row.state = "RECEIVED"
                   THEN [handler[h] EXCEPT !.pc = "resolve", !.body = row.body,
                                           !.replay = TRUE]
                   ELSE Idle)
  /\ UNCHANGED <<ledger, idem, threads, bank, calls, notices, inbox, sweep>>

\* The body carries a terminal status: one locked transaction.
ResolveTerminal(h) ==
  /\ handler[h].pc = "resolve"
  /\ LET b == handler[h].body.biz
         s == MapTxnStatus(handler[h].body.word)
     IN  /\ s # Unmapped
         /\ Verdict(b, s)
         /\ Step(h, [handler[h] EXCEPT !.pc =
              IF status[b] # "ABSENT" /\ (Settled(b) \/ Takes(b, s))
                THEN "mark" ELSE "unresolved"])
  /\ UNCHANGED <<idem, threads, bank, calls, notices, inbox, sweep>>

\* Wrong on purpose: any order that has been answered counts as finished.
FinishedWhenAnswered(b) == status[b] # "ACCEPTED"

\* is_terminal or finalized_at set.
Finished(b) == finalized[b] \/ status[b] \in Terminal

\* The body carries none: an unlocked read decides whether to ask wedap.
\* A SUCCEEDED order is asked about too, to learn of a reversal, but then
\* nothing that goes wrong matters.
ResolvePeek(h) ==
  /\ handler[h].pc = "resolve"
  /\ MapTxnStatus(handler[h].body.word) = Unmapped
  /\ LET b == handler[h].body.biz
     IN  Step(h, [handler[h] EXCEPT
           !.optional = status[b] = "SUCCEEDED",
           !.pc = CASE status[b] = "ABSENT"                                   -> "unresolved"
                    [] Finished(b) /\ status[b] \notin {"ABSENT", "SUCCEEDED"} -> "mark"
                    [] OTHER                                                  -> "query"])
  /\ UNCHANGED <<ledger, idem, threads, bank, calls, notices, inbox, sweep>>

\* resolve_terminal_via_status_query: the call, outside any transaction.
HandlerQuery(h, r) ==
  /\ handler[h].pc = "query"
  /\ MayReport(handler[h].body.biz, r)
  /\ Step(h, [handler[h] EXCEPT !.result = r,
                !.pc = CASE r # Unmapped                         -> "apply"
                         [] r = Unmapped /\ handler[h].optional -> "mark"
                         [] OTHER                               -> "recheck"])
  /\ UNCHANGED <<ledger, idem, threads, bank, calls, notices, inbox, sweep>>

\* resolve_terminal_via_status_query: the locked transaction.
HandlerApply(h) ==
  /\ handler[h].pc = "apply"
  /\ LET b == handler[h].body.biz
         s == handler[h].result
     IN  /\ Verdict(b, s)
         /\ Step(h, [handler[h] EXCEPT !.pc =
              IF handler[h].optional \/ Takes(b, s) THEN "mark" ELSE "recheck"])
  /\ UNCHANGED <<idem, threads, bank, calls, notices, inbox, sweep>>

\* Not converged: another path may have settled the order meanwhile.
Recheck(h) ==
  /\ handler[h].pc = "recheck"
  /\ Step(h, [handler[h] EXCEPT !.pc =
       IF Finished(handler[h].body.biz) THEN "mark" ELSE "unresolved"])
  /\ UNCHANGED <<ledger, idem, threads, bank, calls, notices, inbox, sweep>>

\* _set_inbox_status writes without looking at the row.
SetInbox(h, state) == inbox' = [inbox EXCEPT ![handler[h].id].state = state]

MarkProcessed(h) ==
  /\ handler[h].pc = "mark"
  /\ SetInbox(h, "PROCESSED")
  /\ Step(h, Idle)
  /\ UNCHANGED <<ledger, idem, threads, bank, calls, notices, sweep>>

\* after_ingest raised: the first delivery writes RECEIVED, a replay nothing.
MarkUnresolved(h) ==
  /\ handler[h].pc = "unresolved"
  /\ IF handler[h].replay THEN UNCHANGED inbox ELSE SetInbox(h, "RECEIVED")
  /\ Step(h, Idle)
  /\ UNCHANGED <<ledger, idem, threads, bank, calls, notices, sweep>>

\* A database error anywhere in after_ingest takes the same way out.
HandlerFails(h) ==
  /\ handler[h].pc \in {"resolve", "query", "apply", "recheck", "mark"}
  /\ Step(h, [handler[h] EXCEPT !.pc =
       IF handler[h].optional /\ handler[h].pc \in {"query", "apply"}
         THEN "mark" ELSE "unresolved"])
  /\ UNCHANGED <<ledger, idem, threads, bank, calls, notices, inbox, sweep>>

HandlerCrash(h) ==
  /\ handler[h].pc # "idle"
  /\ Step(h, Idle)
  /\ UNCHANGED <<ledger, idem, threads, bank, calls, notices, inbox, sweep>>

Handle(h) ==
  \/ Duplicate(h) \/ ResolveTerminal(h) \/ ResolvePeek(h) \/ HandlerApply(h)
  \/ Recheck(h) \/ MarkProcessed(h) \/ MarkUnresolved(h)
  \/ \E r \in Results : HandlerQuery(h, r)

-----------------------------------------------------------------------------
(* The reconcile worker (reconcile_once, alert_stuck_orders).              *)

\* An order of the candidate list comes up.  The list is older than the
\* query: the order may have been settled since it was selected.
Pick(b) ==
  /\ worker.pc = "idle"
  /\ status[b] \in Open /\ ~aged[b]
  /\ worker' = [worker EXCEPT !.pc = "query", !.biz = b]
  /\ UNCHANGED <<ledger, idem, threads, bank, calls, callbacks, aged, alerted>>

WorkerQuery(r) ==
  /\ worker.pc = "query"
  /\ MayReport(worker.biz, r)
  /\ worker' = IF r = Unmapped THEN Resting
                               ELSE [worker EXCEPT !.pc = "apply", !.result = r]
  /\ UNCHANGED <<ledger, idem, threads, bank, calls, callbacks, aged, alerted>>

WorkerApply ==
  /\ worker.pc = "apply"
  /\ Verdict(worker.biz, worker.result)
  /\ worker' = Resting
  /\ UNCHANGED <<idem, threads, bank, calls, callbacks, aged, alerted>>

\* An error of one order is caught, a crash is restarted by the supervisor.
WorkerFails ==
  /\ worker.pc # "idle"
  /\ worker' = Resting
  /\ UNCHANGED <<ledger, idem, threads, bank, calls, callbacks, aged, alerted>>

\* Time passes: the order leaves the window in which the worker asks.
Ages(b) ==
  /\ b \in Ageing /\ status[b] # "ABSENT" /\ ~aged[b]
  /\ aged' = [aged EXCEPT ![b] = TRUE]
  /\ UNCHANGED <<ledger, idem, threads, bank, calls, callbacks, worker, alerted>>

\* alert_stuck_orders: the unique key keeps the alert to one per order.
Alert(b) ==
  /\ worker.pc = "idle"
  /\ status[b] \in Open /\ aged[b] /\ ~alerted[b]
  /\ alerted' = [alerted EXCEPT ![b] = TRUE]
  /\ UNCHANGED <<ledger, idem, threads, bank, calls, callbacks, worker, aged>>

Reconcile ==
  \/ \E b \in Biz : Pick(b) \/ Ages(b) \/ Alert(b)
  \/ \E r \in Results : WorkerQuery(r)
  \/ WorkerApply \/ WorkerFails

-----------------------------------------------------------------------------
Next ==
  \/ \E p \in Threads : Submit(p)
  \/ Bank
  \/ \E h \in Handlers : \/ \E n \in notices : Receive(h, n)
                         \/ Handle(h) \/ HandlerFails(h) \/ HandlerCrash(h)
  \/ Reconcile

Spec == Init /\ [][Next]_vars

-----------------------------------------------------------------------------
(* Invariants.                                                             *)

Labels == {"lookup", "register", "dispatch", "calling", "answered", "done", "crashed"}

Replies == {"NONE", "MISMATCH_422", "IN_FLIGHT", "FIRST_RESPONSE", "CONFLICT_409", "ERROR_400"}

HandlerStates ==
  [pc : {"idle", "duplicate", "resolve", "query", "apply", "recheck", "mark", "unresolved"},
   id : Callbacks \union {None}, body : Bodies \union {None},
   replay : BOOLEAN, optional : BOOLEAN, result : Results]

\* Every variable holds what the tables and the call frames can hold.
TypeOK ==
  /\ status \in [Biz -> Statuses \union {"ABSENT"}]
  /\ finalized \in [Biz -> BOOLEAN]
  /\ audited \in [Biz -> [Statuses -> Nat]]
  /\ forwarded \in [Biz -> SUBSET Terminal]
  /\ idem \in [Keys -> {None} \union Records]
  /\ intent \in [Threads -> Intents]
  /\ pc \in [Threads -> Labels]
  /\ answer \in [Threads -> Answers \union {None}]
  /\ reply \in [Threads -> Replies]
  /\ bank \in [Biz -> BankStates]
  /\ calls \in [Biz -> Nat]
  /\ notices \subseteq Notices
  /\ inbox \in [Callbacks -> {None} \union Rows]
  /\ handler \in [Handlers -> HandlerStates]
  /\ worker \in [pc : {"idle", "query", "apply"}, biz : Biz \union {None}, result : Results]
  /\ aged \in [Biz -> BOOLEAN]
  /\ alerted \in [Biz -> BOOLEAN]

\* However many requests, scopes and retries name a bizSeqNo, and wherever
\* they crash, the gateway sends wedap one money call for it.
OneDispatch == \A b \in Biz : calls[b] <= 1

\* A response that tells the caller NOT_APPLIED ("no money moved, start anew")
\* is never given for an order wedap has executed or may still be executing.
NotAppliedIsTrue ==
  \A k \in Keys :
    /\ idem[k] # None
    /\ idem[k].response # None
    /\ idem[k].response.outcome = "NOT_APPLIED"
    => bank[k[1]] = "refused" \/ (bank[k[1]] = "FAILED" /\ k[2] \in RepaymentScopes)

\* Whichever of the request, the callbacks and the worker settle an order, in
\* whatever order: it is finalised exactly when it is settled, each terminal
\* status is audited at most once, the events forwarded to lifecycle are the
\* audited terminal statuses, and the order's own status is among them.
SettledOnce ==
  \A b \in Biz :
    /\ finalized[b] <=> status[b] \in Terminal
    /\ \A s \in Terminal : audited[b][s] = IF s \in forwarded[b] THEN 1 ELSE 0
    /\ finalized[b] => status[b] \in forwarded[b]
    /\ forwarded[b] \ {status[b]} \subseteq
         IF status[b] = "REVERSED" THEN {"SUCCEEDED"} ELSE {}

\* The ledger never claims more than wedap has done: a SUCCEEDED order was
\* executed, a REVERSED one was reversed, however stale the answer was.
LedgerMatchesBank ==
  \A b \in Biz : /\ status[b] = "SUCCEEDED" => bank[b] \in {"SUCCEEDED", "REVERSED"}
                 /\ status[b] = "REVERSED" => bank[b] = "REVERSED"

\* A caller is answered from the idempotency record (replayed or in flight)
\* only if the record holds the fingerprint of its own body.
ReplyOnlyToSamePayload ==
  \A p \in Threads :
    reply[p] \in {"IN_FLIGHT", "FIRST_RESPONSE"}
      => /\ idem[Key(p)] # None
         /\ idem[Key(p)].payload = intent[p].payload

\* A callback marked PROCESSED, after which no replay drives it again, has its
\* order finalised, whatever raced it between its unlocked reads.
InboxProcessedMeansSettled ==
  \A c \in Callbacks :
    inbox[c] # None => (inbox[c].state = "PROCESSED" => finalized[inbox[c].body.biz])

-----------------------------------------------------------------------------
(* Action properties and the contract.                                     *)

\* An order only moves along _ALLOWED, so a stale answer never undoes what a
\* callback or the worker has settled.
NoRegress ==
  [][\A b \in Biz : status'[b] # status[b] =>
       IF status[b] = "ABSENT" THEN status'[b] = "ACCEPTED"
                               ELSE CanMove(status[b], status'[b])]_vars

\* An idempotency record keeps its fingerprint, and its first response once it
\* has one: every replay gets the same answer.
FirstResponseFrozen ==
  [][\A k \in Keys : idem[k] # None =>
       /\ idem'[k] # None
       /\ idem'[k].payload = idem[k].payload
       /\ idem[k].response # None => idem'[k].response = idem[k].response]_vars

Phase(b) ==
  CASE status[b] = "ABSENT"    -> "none"
    [] status[b] \in Terminal -> status[b]
    [] OTHER                   -> "open"

Contract == INSTANCE OrderContract
  WITH Orders <- Biz, phase <- [b \in Biz |-> Phase(b)], told <- forwarded, sent <- calls

\* The ledger implements the contract an order has with the rest of the world.
ImplementsContract == Contract!Spec

-----------------------------------------------------------------------------
(* Liveness.                                                               *)

Work(p) ==
  \/ Lookup(p) \/ Register(p) \/ Dispatch(p) \/ Complete(p)
  \/ \E a \in Answers : Answered(p, a)

\* Request and callback coroutines run on (httpx calls time out); the worker
\* loops for ever over all candidates, is restarted by the supervisor, does not
\* fail on the same order every time, and finds wedap up again and again.
\* wedap's repetition of a callback, crashes, reversals and the passing of an
\* order's age are not fair.
Fairness ==
  /\ \A p \in Threads : WF_vars(Work(p))
  /\ \A h \in Handlers : WF_vars(Handle(h))
  /\ \A b \in Biz : /\ SF_vars(Pick(b))
                    /\ SF_vars(Alert(b))
                    /\ SF_vars(worker.biz = b /\ \E r \in Terminal : WorkerQuery(r))
                    /\ SF_vars(worker.biz = b /\ WorkerApply)
  /\ WF_vars(\E r \in Results : WorkerQuery(r))

FairSpec == Spec /\ Fairness

\* No order is silently given up: one that grows too old to be asked about, even
\* if its request crashed before its call, is settled or handed to a human.
EveryOrderSettlesOrAlerts ==
  \A b \in Biz : aged[b] ~> finalized[b] \/ alerted[b]

\* Unless an order grows too old to be asked about, what wedap has decided
\* reaches the ledger although every callback may be lost.
WorkerConverges ==
  \A b \in Biz : status[b] # "ABSENT" /\ bank[b] \in Terminal ~> finalized[b] \/ aged[b]

-----------------------------------------------------------------------------
(* What comments in the code say and the code does not do.                 *)

\* states.py:40: of a repayment, only the listed codes mean FAILED; in any
\* other case its order stays open until wedap's status is known.
RepaymentFailureConfirmed ==
  \A k \in Keys :
    k[2] \in RepaymentScopes /\ idem[k] # None /\ status[k[1]] = "FAILED"
      => bank[k[1]] \notin {"processing", "SUCCEEDED", "REVERSED"}

\* submit.py:77: the txnStatus of a response never makes the caller roll back
\* (FAILED) an order the ledger holds as SUCCEEDED.
NoTornResponse ==
  \A k \in Keys :
    /\ idem[k] # None
    /\ idem[k].response # None
    /\ idem[k].response.order = "SUCCEEDED"
    => idem[k].response.txn # "FAILED"

\* callbacks.py:10: a callback that stays RECEIVED beyond wedap's own retries
\* is replayed by a worker or by an administrator; once its order is finalised
\* one replay is enough to mark it PROCESSED.
InboxConverges ==
  \A c \in Callbacks :
    (inbox[c] # None /\ finalized[inbox[c].body.biz])
      ~> (inbox[c] # None /\ inbox[c].state = "PROCESSED")
=============================================================================
