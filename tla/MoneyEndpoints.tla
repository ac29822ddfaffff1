--------------------------- MODULE MoneyEndpoints ---------------------------
(***************************************************************************)
(* A money request on its way through an endpoint (api/v1/bank_funds.py,   *)
(* api/v1/loans.py): the checks of the body, the guard of the platform     *)
(* account, the entry into the service, and what the answer claims about   *)
(* the money (api/deps.py, the handlers of main.py).  Administrators       *)
(* change the whitelist meanwhile (AccountGuard).                          *)
(*                                                                         *)
(* Requests that name one bizSeqNo carry one intent: a caller that retries *)
(* sends the same again.  The service itself is the subject of OrderLedger *)
(* and Reversal; here it places the order of an intent at most once and    *)
(* ends in one of the ways it has.                                         *)
(***************************************************************************)
EXTENDS AccountGuard

CONSTANTS Requests,  \* HTTP requests
          Intents,   \* what they are for, one for each bizSeqNo
          Asks,      \* what callers may ask, a sequence of endpoints with bodies
          Modes      \* the values GW_ACCOUNT_GUARD_MODE may have

Kinds == {"collect", "distribute", "refund", "reverse", "disburse", "repay"}
Guarded == {"collect", "distribute", "refund"}

Answers == [code : {200, 400, 403, 409, 422, 500},
            claim : {"none", "NOT_APPLIED", "UNKNOWN"}]

ASSUME ModesAssumption == Modes \subseteq {"off", "observe", "enforce"}
ASSUME NoRequestAssumption == None \notin Requests \union Answers

VARIABLES mode,     \* settings.account_guard_mode
          asked,    \* which of Asks each intent is
          known,    \* is the original of a refund in the ledger?
          placed,   \* the request that placed the order of an intent
          at,       \* where each request stands
          about,    \* its intent
          answer,   \* what its caller was told
          recorded, \* the guard's audit entries about each request
          allowed   \* observed: the account was allowed at some time since it began

front == <<mode, asked, known, placed, at, about, answer, recorded, allowed>>
vars == <<front, whitelist>>

Ask(i) == Asks[asked[i]]
Intent(r) == Ask(about[r])
AllowedNow(account, ask) == Allows(account, ask.kind, ask.body.currency)

Init ==
  /\ WhitelistInit
  /\ mode \in Modes
  /\ asked \in [Intents -> DOMAIN Asks]
  /\ known = FALSE
  /\ placed = [i \in Intents |-> None]
  /\ at = [r \in Requests |-> "unsent"]
  /\ about = [r \in Requests |-> None]
  /\ answer = [r \in Requests |-> None]
  /\ recorded = [r \in Requests |-> <<>>]
  /\ allowed = [r \in Requests |-> FALSE]

-----------------------------------------------------------------------------
Moves(r, label) ==
  /\ at' = [at EXCEPT ![r] = label]
  /\ UNCHANGED answer

\* Wrong on purpose: nothing tells an error after the dispatch from one before.
ClaimUnmarked(r, code) == IF code \in {400, 409, 422} THEN "NOT_APPLIED" ELSE "none"

\* money_write_error_extra: a 4xx other than 401 and 403 says NOT_APPLIED until
\* the request is marked as dispatched, and UNKNOWN from there on.
Claim(r, code) ==
  IF code \notin {400, 409, 422} THEN "none"
  ELSE IF at[r] = "service" THEN "UNKNOWN" ELSE "NOT_APPLIED"

Answered(r, code) ==
  /\ at' = [at EXCEPT ![r] = "done"]
  /\ answer' = [answer EXCEPT ![r] = [code |-> code, claim |-> Claim(r, code)]]

\* An endpoint is called; a body that fails its checks is answered 400.
Called(r, i, passes, next) ==
  /\ at[r] = "unsent"
  /\ about' = [about EXCEPT ![r] = i]
  /\ allowed' = [allowed EXCEPT ![r] = AllowedNow(row, Ask(i))]
  /\ IF passes THEN Moves(r, next) ELSE Answered(r, 400)
  /\ UNCHANGED <<mode, asked, known, placed, recorded, whitelist>>

For(kind) == {i \in Intents : Ask(i).kind = kind}

CollectFromUsers(r) ==
  \E i \in For("collect") : Called(r, i, CollectBody(Ask(i).body), "guard")
DistributeToUsers(r) ==
  \E i \in For("distribute") : Called(r, i, DistributeBody(Ask(i).body), "guard")
RefundToUser(r) ==
  \E i \in For("refund") : Called(r, i, RefundBody(Ask(i).body), "original")
ReverseTransaction(r) ==
  \E i \in For("reverse") : Called(r, i, ReverseBody(Ask(i).body), "enter")
P2PDisbursement(r) ==
  \E i \in For("disburse") : Called(r, i, DisburseBody(Ask(i).body), "enter")
P2PRepayment(r) ==
  \E i \in For("repay") : Called(r, i, RepayBody(Ask(i).body), "enter")

\* A refund of a whole original that the ledger knows must be a reversal; the
\* ledger is read once, without a lock.
CheckOriginal(r) ==
  /\ at[r] = "original"
  /\ LET body == Intent(r).body IN
       \/ known /\ body.whole /\ Answered(r, 422)
       \/ ~(known /\ body.whole) /\ ~Fills(body, RefundRequired) /\ Answered(r, 400)
       \/ ~(known /\ body.whole) /\ Fills(body, RefundRequired) /\ Moves(r, "guard")
  /\ UNCHANGED <<mode, asked, known, placed, about, recorded, allowed, whitelist>>

\* Another request places the original's order (OrderLedger's Register).
OriginalAppears ==
  /\ ~known /\ known' = TRUE
  /\ \E i \in Intents : Ask(i).kind = "refund"
  /\ UNCHANGED <<mode, asked, placed, at, about, answer, recorded, allowed, whitelist>>

-----------------------------------------------------------------------------
\* The guard is switched off, or finds the account allowed, and lets the
\* request pass; otherwise there is a verdict to record.
Judge(r) ==
  /\ at[r] = "guard"
  /\ Moves(r, IF mode = "off" \/ AllowedNow(row, Intent(r)) THEN "enter" ELSE "record")
  /\ UNCHANGED <<mode, asked, known, placed, about, recorded, allowed, whitelist>>

\* What write_audit adds for a verdict: "account_guard.observe" or ".reject".
Records(r) ==
  recorded' = [recorded EXCEPT ![r] = Append(@, IF mode = "observe" THEN "observe" ELSE "reject")]

\* Wrong on purpose: the refusal is raised inside the transaction of its entry.
RefuseUnrecorded(r) ==
  /\ at[r] = "record"
  /\ IF mode = "enforce"
       THEN Answered(r, 403) /\ UNCHANGED recorded
       ELSE Moves(r, "enter") /\ Records(r)
  /\ UNCHANGED <<mode, asked, known, placed, about, allowed, whitelist>>

\* The verdict's entry is committed, in a transaction of its own, and only then
\* is the request refused, or let pass where the guard only observes.
Refuse(r) ==
  /\ at[r] = "record"
  /\ Records(r)
  /\ IF mode = "observe" THEN Moves(r, "enter") ELSE Answered(r, 403)
  /\ UNCHANGED <<mode, asked, known, placed, about, allowed, whitelist>>

\* Wrong on purpose: a guard that cannot answer lets every request pass.
UnableOpen(r) == Moves(r, "enter")

\* A guard that cannot answer stops the request, unless it only observes.
Unable(r) == IF mode = "observe" THEN Moves(r, "enter") ELSE Answered(r, 500)

\* The guard's database fails: at the read, or at the commit of its entry,
\* which may be there all the same.
GuardFails(r) ==
  /\ mode # "off" /\ at[r] \in {"guard", "record"}
  /\ Unable(r)
  /\ \/ UNCHANGED recorded
     \/ at[r] = "record" /\ Records(r)
  /\ UNCHANGED <<mode, asked, known, placed, about, allowed, whitelist>>

\* The last check, of bizSeqNo (None if it is no name that can be stored); then
\* the request is marked as dispatched.
Enter(r) ==
  /\ at[r] = "enter"
  /\ IF Intent(r).body.bizSeqNo # None THEN Moves(r, "service") ELSE Answered(r, 400)
  /\ UNCHANGED <<mode, asked, known, placed, about, recorded, allowed, whitelist>>

\* The service's first transaction places the order (and may fail before, 500).
Place(r) ==
  /\ at[r] = "service" /\ placed[about[r]] = None
  /\ placed' = [placed EXCEPT ![about[r]] = r]
  /\ UNCHANGED <<mode, asked, known, at, about, answer, recorded, allowed, whitelist>>

\* How the service returns: a result or a replay, a ValueError of the call, a
\* rejection of the key, which another order must hold, or another error.
Return(r) ==
  /\ at[r] = "service"
  /\ \E code \in {200, 400, 409, 422, 500} :
       /\ code # 500 => placed[about[r]] # None
       /\ code \in {409, 422} => placed[about[r]] # r
       /\ Answered(r, code)
  /\ UNCHANGED <<mode, asked, known, placed, about, recorded, allowed, whitelist>>

\* The process dies: the caller hears nothing.
Crash(r) ==
  /\ at[r] \notin {"unsent", "done"}
  /\ Moves(r, "done")
  /\ UNCHANGED <<mode, asked, known, placed, about, recorded, allowed, whitelist>>

\* The whitelist changes under the requests that are on their way.
Administer(a) ==
  /\ Register(a) \/ Load(a) \/ Flush(a) \/ CommitWrite(a) \/ WriteFails(a)
  /\ allowed' = [r \in Requests |->
                   \/ allowed[r]
                   \/ at[r] \notin {"unsent", "done"} /\ AllowedNow(row', Intent(r))]
  /\ UNCHANGED <<mode, asked, known, placed, at, about, answer, recorded>>

Next ==
  \/ \E r \in Requests :
       \/ CollectFromUsers(r) \/ DistributeToUsers(r) \/ RefundToUser(r)
       \/ ReverseTransaction(r) \/ P2PDisbursement(r) \/ P2PRepayment(r)
       \/ CheckOriginal(r) \/ Judge(r) \/ Refuse(r) \/ GuardFails(r)
       \/ Enter(r) \/ Place(r) \/ Return(r) \/ Crash(r)
  \/ \E a \in Admins : Administer(a)
  \/ OriginalAppears

Spec == Init /\ [][Next]_vars

-----------------------------------------------------------------------------
TypeOK ==
  /\ WhitelistTypeOK
  /\ mode \in Modes
  /\ asked \in [Intents -> DOMAIN Asks]
  /\ known \in BOOLEAN
  /\ placed \in [Intents -> Requests \union {None}]
  /\ at \in [Requests -> {"unsent", "original", "guard", "record", "enter", "service", "done"}]
  /\ about \in [Requests -> Intents \union {None}]
  /\ answer \in [Requests -> Answers \union {None}]
  /\ recorded \in [Requests -> Seq({"observe", "reject"})]
  /\ allowed \in [Requests -> BOOLEAN]

\* While the guard enforces, no order is placed for a platform account that was
\* at no time allowed since its request began: an account that is not
\* registered, or was disabled before, stops every request of every guarded
\* endpoint, whatever fails in the guard and however late a change commits.
DisabledMeansStopped ==
  \A i \in Intents :
    mode = "enforce" /\ Ask(i).kind \in Guarded /\ placed[i] # None
      => allowed[placed[i]]

\* Every refusal is on record, once, and nothing is on record as refused whose
\* order was placed; a guard that does not enforce refuses nobody.
RefusalsAreOnRecord ==
  \A r \in Requests :
    /\ answer[r] # None /\ answer[r].code = 403 => recorded[r] = <<"reject">>
    /\ "reject" \in Range(recorded[r]) =>
         /\ mode = "enforce" /\ Len(recorded[r]) = 1
         /\ \A i \in Intents : placed[i] # r

\* What an error claims about the money holds for its intent, whichever of its
\* requests gets the error and whatever the others do before and after it:
\* NOT_APPLIED means that no order is placed, and the address to poll that
\* comes with UNKNOWN leads to one.  (Not so for a refund of the whole amount
\* whose original appears between two requests: see the README.)
ClaimsAreTrue ==
  \A r \in Requests :
    answer[r] # None =>
      /\ answer[r].claim = "NOT_APPLIED" /\ ~(Intent(r).kind = "refund" /\ Intent(r).body.whole)
           => placed[about[r]] = None
      /\ answer[r].claim = "UNKNOWN" => placed[about[r]] # None

\* The same without the exception, as money_write_reject_fields has it: an
\* error before the dispatch proves that no operation exists.
NotAppliedMeansNoOrder ==
  \A r \in Requests :
    answer[r] # None /\ answer[r].claim = "NOT_APPLIED" => placed[about[r]] = None
=============================================================================
