------------------------ MODULE MoneyEndpointsProofs ------------------------
(***************************************************************************)
(* Proofs about MoneyEndpoints: the guard of the platform account, the     *)
(* record of its refusals and the claims of errors, for any requests,      *)
(* intents, bodies and administrators.                                     *)
(*                                                                         *)
(* The inductive invariant says what has been checked of a request by the  *)
(* stage it has reached, that a platform account which is allowed now      *)
(* counts as allowed since the request began, and what an order that is    *)
(* placed owes to the request that placed it.                              *)
(***************************************************************************)
EXTENDS MoneyEndpoints, TLAPS

Stages == {"unsent", "original", "guard", "record", "enter", "service", "done"}
Guarding == {"guard", "record", "enter", "service"}
OnTheWay == {"original"} \union Guarding

\* The checks of the body at the endpoint, and all that come before the service.
BodyPasses(ask) ==
  \/ ask.kind = "collect" /\ CollectBody(ask.body)
  \/ ask.kind = "distribute" /\ DistributeBody(ask.body)
  \/ ask.kind = "refund" /\ RefundBody(ask.body)
  \/ ask.kind = "reverse" /\ ReverseBody(ask.body)
  \/ ask.kind = "disburse" /\ DisburseBody(ask.body)
  \/ ask.kind = "repay" /\ RepayBody(ask.body)

Complete(ask) == ask.kind = "refund" => Fills(ask.body, RefundRequired)

Passes(ask) == BodyPasses(ask) /\ Complete(ask) /\ ask.body.bizSeqNo # None

\* A refund of the whole, of which NOT_APPLIED is said for another reason.
Exempt(ask) == ask.kind = "refund" /\ ask.body.whole

\* Whether the guard must have found the account allowed.
MustBeAllowed(ask) == mode = "enforce" /\ ask.kind \in Guarded

-----------------------------------------------------------------------------
(* The invariant.                                                          *)

\* What has been checked and recorded by the stage that r has reached.
StageInv(r) ==
  /\ at[r] # "unsent" => about[r] \in Intents
  /\ at[r] # "done" => answer[r] = None
  /\ at[r] = "original" => Intent(r).kind = "refund"
  /\ at[r] = "record" => mode # "off"
  /\ at[r] \in OnTheWay => BodyPasses(Intent(r))
  /\ at[r] \in Guarding => Complete(Intent(r))
  /\ at[r] = "service" => Intent(r).body.bizSeqNo # None

\* The guard's entry is there from the end of its stage on.
RecordInv(r) ==
  /\ recorded[r] \in {<<>>, <<"observe">>, <<"reject">>}
  /\ at[r] \in {"unsent", "original", "guard", "record"} => recorded[r] = <<>>
  /\ recorded[r] = <<"reject">> => at[r] = "done" /\ mode = "enforce"

\* An account that is allowed now has been allowed since r began, and a guarded
\* request that has passed was allowed at some time.
AllowedInv(r) ==
  /\ at[r] \in OnTheWay /\ AllowedNow(row, Intent(r)) => allowed[r]
  /\ at[r] \in {"enter", "service"} /\ MustBeAllowed(Intent(r)) => allowed[r]

\* What the answer of r says is so.
AnswerInv(r) ==
  answer[r] # None =>
    /\ answer[r].code = 403 => recorded[r] = <<"reject">>
    /\ answer[r].claim = "NOT_APPLIED" /\ ~Exempt(Intent(r)) => ~Passes(Intent(r))
    /\ answer[r].claim = "UNKNOWN" => placed[about[r]] # None

\* An order that is placed has passed everything its request had to pass.
PlacedInv(i) ==
  placed[i] # None =>
    /\ at[placed[i]] \in {"service", "done"}
    /\ about[placed[i]] = i
    /\ recorded[placed[i]] # <<"reject">>
    /\ Passes(Ask(i))
    /\ MustBeAllowed(Ask(i)) => allowed[placed[i]]

\* What an administrator's transaction knows: a registration that is written has
\* the lock of a row that is not there yet, a change has a row to change.
AdminInv(a) ==
  /\ adm[a].at = "loaded" => adm[a].seen # None /\ adm[a].sent \in Patches
  /\ adm[a].at = "written" /\ adm[a].seen = None =>
       lock = a /\ row = None /\ adm[a].dirty = Columns /\ adm[a].sent \in Registrations
  /\ adm[a].at # "idle" /\ adm[a].seen # None =>
       row # None /\ adm[a].sent \in Patches /\ adm[a].dirty \subseteq DOMAIN adm[a].sent

RequestInv(r) == StageInv(r) /\ RecordInv(r) /\ AllowedInv(r) /\ AnswerInv(r)

DoorInv ==
  /\ TypeOK
  /\ \A r \in Requests : RequestInv(r)
  /\ \A i \in Intents : PlacedInv(i)
  /\ \A a \in Admins : AdminInv(a)

-----------------------------------------------------------------------------
(* The initial states.                                                     *)

LEMMA DoorInvInit == Init => DoorInv
<1> SUFFICES ASSUME Init PROVE DoorInv
  OBVIOUS
<1>1. TypeOK
  <2>1. row \in Accounts \union {None}
    BY RegistrationsAssumption DEF Init, WhitelistInit
  <2>2. Idle \in Frames
    BY DEF Idle, Frames, Sendings, Columns
  <2>3. /\ log \in Seq([action : {"create", "update"}, told : Sendings])
        /\ lock \in Admins \union {None}
        /\ adm \in [Admins -> Frames]
        /\ writes \in Nat
    BY <2>2 DEF Init, WhitelistInit
  <2>4. /\ mode \in Modes /\ asked \in [Intents -> DOMAIN Asks] /\ known \in BOOLEAN
        /\ placed \in [Intents -> Requests \union {None}]
        /\ at \in [Requests -> Stages]
        /\ about \in [Requests -> Intents \union {None}]
    BY DEF Init, Stages
  <2>5. /\ answer \in [Requests -> Answers \union {None}]
        /\ allowed \in [Requests -> BOOLEAN]
    BY DEF Init
  <2>6. recorded \in [Requests -> Seq({"observe", "reject"})]
    BY DEF Init
  <2> QED
    BY <2>1, <2>3, <2>4, <2>5, <2>6 DEF TypeOK, WhitelistTypeOK, Stages
<1>2. ASSUME NEW r \in Requests PROVE RequestInv(r)
  BY DEF Init, RequestInv, StageInv, RecordInv, AllowedInv, AnswerInv, OnTheWay, Guarding
<1>3. ASSUME NEW i \in Intents PROVE PlacedInv(i)
  BY DEF Init, PlacedInv
<1>4. ASSUME NEW a \in Admins PROVE AdminInv(a)
  BY DEF Init, WhitelistInit, AdminInv, Idle
<1> QED
  BY <1>1, <1>2, <1>3, <1>4 DEF DoorInv

-----------------------------------------------------------------------------
(* A step of one request.                                                  *)

\* Nothing of another request changes, and nothing that all share.
OnlyRequest(r) ==
  /\ UNCHANGED <<mode, asked, whitelist>>
  /\ \A q \in Requests \ {r} :
       /\ at'[q] = at[q] /\ about'[q] = about[q] /\ answer'[q] = answer[q]
       /\ recorded'[q] = recorded[q] /\ allowed'[q] = allowed[q]

\* The order that r may have placed keeps what it owes to r.
KeepsOrder(r) ==
  at[r] \in {"service", "done"} =>
    /\ at'[r] \in {"service", "done"}
    /\ about'[r] = about[r] /\ recorded'[r] = recorded[r] /\ allowed'[r] = allowed[r]

\* The intent of a request that does not move stays what it was.
LEMMA OthersKeepTheirInvariant ==
  ASSUME NEW r \in Requests, OnlyRequest(r), NEW q \in Requests \ {r}, RequestInv(q),
         answer[q] # None => (placed[about[q]] # None => placed'[about[q]] # None)
  PROVE  RequestInv(q)'
<1>1. /\ at'[q] = at[q] /\ about'[q] = about[q] /\ answer'[q] = answer[q]
      /\ recorded'[q] = recorded[q] /\ allowed'[q] = allowed[q]
      /\ mode' = mode /\ asked' = asked /\ row' = row
  BY DEF OnlyRequest, whitelist
<1>2. Intent(q)' = Intent(q)
  BY <1>1 DEF Intent, Ask
<1>3. AllowedNow(row, Intent(q))' = AllowedNow(row, Intent(q))
  BY <1>1, <1>2 DEF AllowedNow, Allows
<1>4. MustBeAllowed(Intent(q))' = MustBeAllowed(Intent(q))
  BY <1>1, <1>2 DEF MustBeAllowed
<1>5. /\ BodyPasses(Intent(q))' = BodyPasses(Intent(q))
      /\ Complete(Intent(q))' = Complete(Intent(q))
      /\ Passes(Intent(q))' = Passes(Intent(q))
      /\ Exempt(Intent(q))' = Exempt(Intent(q))
  BY <1>2 DEF BodyPasses, Complete, Passes, Exempt, CollectBody, DistributeBody, RefundBody,
    ReverseBody, DisburseBody, RepayBody
<1>6. StageInv(q)'
  BY <1>1, <1>2, <1>5 DEF RequestInv, StageInv
<1>7. RecordInv(q)'
  BY <1>1 DEF RequestInv, RecordInv
<1>8. AllowedInv(q)'
  BY <1>1, <1>3, <1>4 DEF RequestInv, AllowedInv
<1>9. AnswerInv(q)'
  BY <1>1, <1>5 DEF RequestInv, AnswerInv
<1> QED
  BY <1>6, <1>7, <1>8, <1>9 DEF RequestInv

\* What a step of r has to show, when it places no order.
LEMMA RequestStep ==
  ASSUME DoorInv, NEW r \in Requests, OnlyRequest(r), KeepsOrder(r), placed' = placed,
         TypeOK', RequestInv(r)'
  PROVE  DoorInv'
<1>1. ASSUME NEW q \in Requests PROVE RequestInv(q)'
  BY OthersKeepTheirInvariant DEF DoorInv
<1>2. ASSUME NEW i \in Intents PROVE PlacedInv(i)'
  <2> SUFFICES ASSUME placed'[i] # None
               PROVE  PlacedInv(i)'
    BY DEF PlacedInv
  <2> DEFINE q == placed[i]
  <2>1. q \in Requests /\ q # None /\ placed'[i] = q
    BY DEF DoorInv, TypeOK
  <2>2. PlacedInv(i)
    BY DEF DoorInv
  <2>3. /\ at'[q] \in {"service", "done"}
        /\ about'[q] = about[q] /\ recorded'[q] = recorded[q] /\ allowed'[q] = allowed[q]
    BY <2>1, <2>2 DEF PlacedInv, OnlyRequest, KeepsOrder
  <2>4. Ask(i)' = Ask(i) /\ mode' = mode
    BY DEF OnlyRequest, Ask
  <2>5. Passes(Ask(i))' = Passes(Ask(i)) /\ MustBeAllowed(Ask(i))' = MustBeAllowed(Ask(i))
    BY <2>4 DEF Passes, BodyPasses, Complete, MustBeAllowed, CollectBody, DistributeBody,
      RefundBody, ReverseBody, DisburseBody, RepayBody
  <2> QED
    BY <2>1, <2>2, <2>3, <2>5 DEF PlacedInv
<1>3. ASSUME NEW a \in Admins PROVE AdminInv(a)'
  BY DEF DoorInv, AdminInv, OnlyRequest, whitelist
<1> QED
  BY <1>1, <1>2, <1>3 DEF DoorInv

LEMMA TypesKept ==
  ASSUME TypeOK, UNCHANGED <<mode, asked, known, placed, whitelist>>,
         at' \in [Requests -> Stages], about' \in [Requests -> Intents \union {None}],
         answer' \in [Requests -> Answers \union {None}],
         recorded' \in [Requests -> Seq({"observe", "reject"})],
         allowed' \in [Requests -> BOOLEAN]
  PROVE  TypeOK'
BY DEF TypeOK, WhitelistTypeOK, whitelist, Stages

LEMMA MovesMoves ==
  ASSUME TypeOK, NEW r \in Requests, NEW label \in Stages, Moves(r, label)
  PROVE  /\ at' \in [Requests -> Stages] /\ answer' \in [Requests -> Answers \union {None}]
         /\ at'[r] = label /\ answer' = answer
         /\ \A q \in Requests \ {r} : at'[q] = at[q]
BY DEF Moves, TypeOK, Stages

LEMMA AnsweredAnswers ==
  ASSUME TypeOK, NEW r \in Requests, NEW code \in {200, 400, 403, 409, 422, 500},
         Answered(r, code)
  PROVE  /\ at' \in [Requests -> Stages] /\ answer' \in [Requests -> Answers \union {None}]
         /\ at'[r] = "done" /\ answer'[r] # None
         /\ answer'[r].code = code /\ answer'[r].claim = Claim(r, code)
         /\ \A q \in Requests \ {r} : at'[q] = at[q] /\ answer'[q] = answer[q]
<1> DEFINE said == [code |-> code, claim |-> Claim(r, code)]
<1>1. Claim(r, code) \in {"none", "NOT_APPLIED", "UNKNOWN"}
  BY DEF Claim
<1>2. said \in Answers /\ said # None /\ said.code = code /\ said.claim = Claim(r, code)
  BY <1>1, NoRequestAssumption DEF Answers
<1>3. answer' = [answer EXCEPT ![r] = said] /\ at' = [at EXCEPT ![r] = "done"]
  BY DEF Answered
<1> HIDE DEF said
<1> QED
  BY <1>2, <1>3 DEF TypeOK, Stages

-----------------------------------------------------------------------------
(* The checks of the body.                                                 *)

\* What is true of every step that only moves r or answers it.
LEMMA OnlyRequestMoves ==
  ASSUME TypeOK, NEW r \in Requests, UNCHANGED <<mode, asked, whitelist>>,
         about' = about \/ \E i \in Intents : about' = [about EXCEPT ![r] = i],
         allowed' = allowed \/ \E b \in BOOLEAN : allowed' = [allowed EXCEPT ![r] = b],
         recorded' = recorded \/ \E e \in {"observe", "reject"} :
                                   recorded' = [recorded EXCEPT ![r] = Append(@, e)],
         \A q \in Requests \ {r} : at'[q] = at[q] /\ answer'[q] = answer[q]
  PROVE  /\ OnlyRequest(r)
         /\ about' \in [Requests -> Intents \union {None}]
         /\ recorded' \in [Requests -> Seq({"observe", "reject"})]
         /\ allowed' \in [Requests -> BOOLEAN]
<1>1. /\ about' \in [Requests -> Intents \union {None}]
      /\ \A q \in Requests \ {r} : about'[q] = about[q]
  BY DEF TypeOK
<1>2. /\ recorded' \in [Requests -> Seq({"observe", "reject"})]
      /\ \A q \in Requests \ {r} : recorded'[q] = recorded[q]
  <2>1. ASSUME NEW e \in {"observe", "reject"}
        PROVE  Append(recorded[r], e) \in Seq({"observe", "reject"})
    BY DEF TypeOK
  <2> QED
    BY <2>1 DEF TypeOK
<1>3. /\ allowed' \in [Requests -> BOOLEAN]
      /\ \A q \in Requests \ {r} : allowed'[q] = allowed[q]
  BY DEF TypeOK
<1> QED
  BY <1>1, <1>2, <1>3 DEF OnlyRequest

\* The call of an endpoint: "passes" is its check of the body.
LEMMA CalledKeeps ==
  ASSUME DoorInv, NEW r \in Requests, NEW i \in Intents, NEW passes \in BOOLEAN,
         NEW next \in {"original", "guard", "enter"}, Called(r, i, passes, next),
         passes = BodyPasses(Ask(i)),
         next = "original" <=> Ask(i).kind = "refund",
         next = "enter" => Ask(i).kind \notin Guarded
  PROVE  DoorInv'
<1>1. /\ TypeOK /\ RequestInv(r) /\ at[r] = "unsent" /\ next \in Stages
      /\ UNCHANGED <<mode, asked, known, placed, recorded, whitelist>>
  BY DEF DoorInv, Called, Stages
<1> DEFINE ok == AllowedNow(row, Ask(i))
<1>2. ok \in BOOLEAN
  BY DEF AllowedNow, Allows
<1>3. about' = [about EXCEPT ![r] = i] /\ allowed' = [allowed EXCEPT ![r] = ok]
  BY DEF Called
<1>4. about'[r] = i /\ allowed'[r] = ok /\ recorded'[r] = recorded[r]
  BY <1>1, <1>3 DEF TypeOK
<1>5. Intent(r)' = Ask(i) /\ Ask(i)' = Ask(i)
  BY <1>1, <1>4 DEF Intent, Ask
<1>6. AllowedNow(row, Intent(r))' = ok
  BY <1>1, <1>5 DEF AllowedNow, Allows, whitelist
<1>7. Complete(Ask(i)) \/ next = "original"
  BY DEF Complete
<1> HIDE DEF ok
<1>8. RecordInv(r) /\ recorded[r] = <<>> /\ answer[r] = None
  BY <1>1 DEF RequestInv, RecordInv, StageInv
<1>9. RecordInv(r)'
  BY <1>1, <1>4, <1>8 DEF RecordInv
<1>10. /\ BodyPasses(Intent(r))' = BodyPasses(Ask(i)) /\ Complete(Intent(r))' = Complete(Ask(i))
       /\ Passes(Intent(r))' = Passes(Ask(i))
  BY <1>5 DEF BodyPasses, Complete, Passes, CollectBody, DistributeBody,
    RefundBody, ReverseBody, DisburseBody, RepayBody
<1>11. MustBeAllowed(Intent(r))' = MustBeAllowed(Ask(i))
  BY <1>1, <1>5 DEF MustBeAllowed
<1>12. CASE passes
  <2>1. Moves(r, next)
    BY <1>12 DEF Called
  <2>2. /\ at' \in [Requests -> Stages] /\ answer' \in [Requests -> Answers \union {None}]
        /\ at'[r] = next /\ answer' = answer
        /\ \A q \in Requests \ {r} : at'[q] = at[q]
    BY <1>1, <2>1, MovesMoves
  <2>3. /\ OnlyRequest(r)
        /\ about' \in [Requests -> Intents \union {None}]
        /\ recorded' \in [Requests -> Seq({"observe", "reject"})]
        /\ allowed' \in [Requests -> BOOLEAN]
    BY <1>1, <1>2, <1>3, <2>2, OnlyRequestMoves
  <2>4. TypeOK'
    BY <1>1, <2>2, <2>3, TypesKept
  <2>5. StageInv(r)'
    BY <1>4, <1>5, <1>7, <1>8, <1>10, <1>12, <2>2 DEF StageInv, OnTheWay, Guarding
  <2>6. AllowedInv(r)'
    BY <1>4, <1>6, <1>11, <2>2 DEF AllowedInv, MustBeAllowed
  <2>7. AnswerInv(r)'
    BY <1>8, <2>2 DEF AnswerInv
  <2> QED
    BY <1>1, <1>9, <2>3, <2>4, <2>5, <2>6, <2>7, RequestStep DEF RequestInv, KeepsOrder
<1>13. CASE ~passes
  <2>1. Answered(r, 400)
    BY <1>13 DEF Called
  <2>2. /\ at' \in [Requests -> Stages] /\ answer' \in [Requests -> Answers \union {None}]
        /\ at'[r] = "done" /\ answer'[r] # None
        /\ answer'[r].code = 400 /\ answer'[r].claim = Claim(r, 400)
        /\ \A q \in Requests \ {r} : at'[q] = at[q] /\ answer'[q] = answer[q]
    BY <1>1, <2>1, AnsweredAnswers
  <2>3. /\ OnlyRequest(r)
        /\ about' \in [Requests -> Intents \union {None}]
        /\ recorded' \in [Requests -> Seq({"observe", "reject"})]
        /\ allowed' \in [Requests -> BOOLEAN]
    <3>1. /\ UNCHANGED <<mode, asked, whitelist>> /\ recorded' = recorded
          /\ \E j \in Intents : about' = [about EXCEPT ![r] = j]
          /\ \E b \in BOOLEAN : allowed' = [allowed EXCEPT ![r] = b]
      BY <1>1, <1>2, <1>3
    <3>2. \A q \in Requests \ {r} : at'[q] = at[q] /\ answer'[q] = answer[q]
      BY <2>2
    <3> QED
      BY <1>1, <3>1, <3>2, OnlyRequestMoves
  <2>4. TypeOK'
    BY <1>1, <2>2, <2>3, TypesKept
  <2>5. StageInv(r)'
    BY <1>4, <2>2 DEF StageInv, OnTheWay, Guarding
  <2>6. AllowedInv(r)'
    BY <2>2 DEF AllowedInv, OnTheWay, Guarding
  <2>7. ~Passes(Ask(i)) /\ Claim(r, 400) = "NOT_APPLIED"
    BY <1>1, <1>13 DEF Passes, Claim
  <2>8. AnswerInv(r)'
    BY <1>10, <2>2, <2>7 DEF AnswerInv
  <2> QED
    BY <1>1, <1>9, <2>3, <2>4, <2>5, <2>6, <2>8, RequestStep DEF RequestInv, KeepsOrder
<1> QED
  BY <1>12, <1>13

\* The six endpoints.
LEMMA EndpointsKeep ==
  ASSUME DoorInv, NEW r \in Requests,
         \/ CollectFromUsers(r) \/ DistributeToUsers(r) \/ RefundToUser(r)
         \/ ReverseTransaction(r) \/ P2PDisbursement(r) \/ P2PRepayment(r)
  PROVE  DoorInv'
<1>1. CASE CollectFromUsers(r)
  <2> PICK i \in For("collect") : Called(r, i, CollectBody(Ask(i).body), "guard")
    BY <1>1 DEF CollectFromUsers
  <2>1. i \in Intents /\ Ask(i).kind = "collect"
    BY DEF For
  <2>2. CollectBody(Ask(i).body) = BodyPasses(Ask(i)) /\ CollectBody(Ask(i).body) \in BOOLEAN
    BY <2>1 DEF BodyPasses, CollectBody
  <2> QED
    BY <2>1, <2>2, CalledKeeps
<1>2. CASE DistributeToUsers(r)
  <2> PICK i \in For("distribute") : Called(r, i, DistributeBody(Ask(i).body), "guard")
    BY <1>2 DEF DistributeToUsers
  <2>1. i \in Intents /\ Ask(i).kind = "distribute"
    BY DEF For
  <2>2. /\ DistributeBody(Ask(i).body) = BodyPasses(Ask(i))
        /\ DistributeBody(Ask(i).body) \in BOOLEAN
    BY <2>1 DEF BodyPasses, DistributeBody
  <2> QED
    BY <2>1, <2>2, CalledKeeps
<1>3. CASE RefundToUser(r)
  <2> PICK i \in For("refund") : Called(r, i, RefundBody(Ask(i).body), "original")
    BY <1>3 DEF RefundToUser
  <2>1. i \in Intents /\ Ask(i).kind = "refund"
    BY DEF For
  <2>2. RefundBody(Ask(i).body) = BodyPasses(Ask(i)) /\ RefundBody(Ask(i).body) \in BOOLEAN
    BY <2>1 DEF BodyPasses, RefundBody
  <2> QED
    BY <2>1, <2>2, CalledKeeps
<1>4. CASE ReverseTransaction(r)
  <2> PICK i \in For("reverse") : Called(r, i, ReverseBody(Ask(i).body), "enter")
    BY <1>4 DEF ReverseTransaction
  <2>1. i \in Intents /\ Ask(i).kind = "reverse"
    BY DEF For
  <2>2. ReverseBody(Ask(i).body) = BodyPasses(Ask(i)) /\ ReverseBody(Ask(i).body) \in BOOLEAN
    BY <2>1 DEF BodyPasses, ReverseBody
  <2> QED
    BY <2>1, <2>2, CalledKeeps DEF Guarded
<1>5. CASE P2PDisbursement(r)
  <2> PICK i \in For("disburse") : Called(r, i, DisburseBody(Ask(i).body), "enter")
    BY <1>5 DEF P2PDisbursement
  <2>1. i \in Intents /\ Ask(i).kind = "disburse"
    BY DEF For
  <2>2. DisburseBody(Ask(i).body) = BodyPasses(Ask(i)) /\ DisburseBody(Ask(i).body) \in BOOLEAN
    BY <2>1 DEF BodyPasses, DisburseBody
  <2> QED
    BY <2>1, <2>2, CalledKeeps DEF Guarded
<1>6. CASE P2PRepayment(r)
  <2> PICK i \in For("repay") : Called(r, i, RepayBody(Ask(i).body), "enter")
    BY <1>6 DEF P2PRepayment
  <2>1. i \in Intents /\ Ask(i).kind = "repay"
    BY DEF For
  <2>2. RepayBody(Ask(i).body) = BodyPasses(Ask(i)) /\ RepayBody(Ask(i).body) \in BOOLEAN
    BY <2>1 DEF BodyPasses, RepayBody
  <2> QED
    BY <2>1, <2>2, CalledKeeps DEF Guarded
<1> QED
  BY <1>1, <1>2, <1>3, <1>4, <1>5, <1>6

-----------------------------------------------------------------------------
(* The stages between the body and the service.                            *)

\* The intent of a request that keeps it, and what has been checked of it.
LEMMA SameIntent ==
  ASSUME NEW r \in Requests, UNCHANGED <<mode, asked, about, whitelist>>
  PROVE  /\ Intent(r)' = Intent(r)
         /\ AllowedNow(row, Intent(r))' = AllowedNow(row, Intent(r))
         /\ MustBeAllowed(Intent(r))' = MustBeAllowed(Intent(r))
         /\ BodyPasses(Intent(r))' = BodyPasses(Intent(r))
         /\ Complete(Intent(r))' = Complete(Intent(r))
         /\ Passes(Intent(r))' = Passes(Intent(r))
         /\ Exempt(Intent(r))' = Exempt(Intent(r))
<1>1. Intent(r)' = Intent(r)
  BY DEF Intent, Ask
<1> QED
  BY <1>1 DEF AllowedNow, Allows, MustBeAllowed, BodyPasses, Complete, Passes, Exempt, whitelist,
    CollectBody, DistributeBody, RefundBody, ReverseBody, DisburseBody, RepayBody

\* A step to the next stage, or to the end with nothing said: the request keeps
\* its intent, and what it has recorded but for the guard's entry.
LEMMA MovingOn ==
  ASSUME DoorInv, NEW r \in Requests, NEW label \in Stages, Moves(r, label),
         UNCHANGED <<mode, asked, known, placed, about, allowed, whitelist>>,
         recorded' = recorded \/ \E e \in {"observe", "reject"} :
                                   recorded' = [recorded EXCEPT ![r] = Append(@, e)],
         at[r] \in OnTheWay, label \notin {"unsent", "original"},
         at[r] = "service" => label = "done" /\ recorded' = recorded,
         label = "record" => mode # "off",
         label \in Guarding => Complete(Intent(r)),
         label = "service" => Intent(r).body.bizSeqNo # None,
         label \in {"enter", "service"} /\ MustBeAllowed(Intent(r)) => allowed[r],
         RecordInv(r)'
  PROVE  DoorInv'
<1>1. TypeOK /\ RequestInv(r)
  BY DEF DoorInv
<1>2. /\ at' \in [Requests -> Stages] /\ answer' \in [Requests -> Answers \union {None}]
      /\ at'[r] = label /\ answer' = answer
      /\ \A q \in Requests \ {r} : at'[q] = at[q]
  BY <1>1, MovesMoves
<1>3. /\ OnlyRequest(r)
      /\ about' \in [Requests -> Intents \union {None}]
      /\ recorded' \in [Requests -> Seq({"observe", "reject"})]
      /\ allowed' \in [Requests -> BOOLEAN]
  BY <1>1, <1>2, OnlyRequestMoves
<1>4. TypeOK'
  BY <1>1, <1>2, <1>3, TypesKept
<1>5. /\ Intent(r)' = Intent(r)
      /\ AllowedNow(row, Intent(r))' = AllowedNow(row, Intent(r))
      /\ MustBeAllowed(Intent(r))' = MustBeAllowed(Intent(r))
      /\ BodyPasses(Intent(r))' = BodyPasses(Intent(r))
      /\ Complete(Intent(r))' = Complete(Intent(r))
  BY SameIntent
<1>6. /\ BodyPasses(Intent(r)) /\ about[r] \in Intents /\ answer[r] = None
      /\ AllowedNow(row, Intent(r)) => allowed[r]
  BY <1>1 DEF RequestInv, StageInv, AllowedInv, OnTheWay, Guarding
<1>7. StageInv(r)'
  BY <1>2, <1>5, <1>6 DEF StageInv, OnTheWay, Guarding
<1>8. AllowedInv(r)'
  BY <1>2, <1>5, <1>6 DEF AllowedInv
<1>9. AnswerInv(r)'
  BY <1>2, <1>6 DEF AnswerInv
<1>10. KeepsOrder(r)
  BY <1>2 DEF KeepsOrder, OnTheWay, Guarding
<1> QED
  BY <1>3, <1>4, <1>7, <1>8, <1>9, <1>10, RequestStep DEF RequestInv

\* A step that answers a request: what it says has to be so.
LEMMA Answering ==
  ASSUME DoorInv, NEW r \in Requests, NEW code \in {200, 400, 403, 409, 422, 500},
         Answered(r, code),
         UNCHANGED <<mode, asked, known, placed, about, allowed, whitelist>>,
         recorded' = recorded \/ \E e \in {"observe", "reject"} :
                                   recorded' = [recorded EXCEPT ![r] = Append(@, e)],
         at[r] \in OnTheWay,
         at[r] = "service" => recorded' = recorded,
         RecordInv(r)',
         code = 403 => recorded'[r] = <<"reject">>,
         Claim(r, code) = "NOT_APPLIED" /\ ~Exempt(Intent(r)) => ~Passes(Intent(r)),
         Claim(r, code) = "UNKNOWN" => placed[about[r]] # None
  PROVE  DoorInv'
<1>1. TypeOK /\ RequestInv(r)
  BY DEF DoorInv
<1>2. /\ at' \in [Requests -> Stages] /\ answer' \in [Requests -> Answers \union {None}]
      /\ at'[r] = "done" /\ answer'[r] # None
      /\ answer'[r].code = code /\ answer'[r].claim = Claim(r, code)
      /\ \A q \in Requests \ {r} : at'[q] = at[q] /\ answer'[q] = answer[q]
  BY <1>1, AnsweredAnswers
<1>3. /\ OnlyRequest(r)
      /\ about' \in [Requests -> Intents \union {None}]
      /\ recorded' \in [Requests -> Seq({"observe", "reject"})]
      /\ allowed' \in [Requests -> BOOLEAN]
  <2>1. \A q \in Requests \ {r} : at'[q] = at[q] /\ answer'[q] = answer[q]
    BY <1>2
  <2>2. UNCHANGED <<mode, asked, whitelist>> /\ about' = about /\ allowed' = allowed
    OBVIOUS
  <2> QED
    BY <1>1, <2>1, <2>2, OnlyRequestMoves
<1>4. TypeOK'
  BY <1>1, <1>2, <1>3, TypesKept
<1>5. /\ Passes(Intent(r))' = Passes(Intent(r)) /\ Exempt(Intent(r))' = Exempt(Intent(r))
  BY SameIntent
<1>6. about[r] \in Intents
  BY <1>1 DEF RequestInv, StageInv, OnTheWay, Guarding
<1>7. StageInv(r)'
  BY <1>2, <1>6 DEF StageInv, OnTheWay, Guarding
<1>8. AllowedInv(r)'
  BY <1>2 DEF AllowedInv, OnTheWay, Guarding
<1>9. AnswerInv(r)'
  BY <1>2, <1>5 DEF AnswerInv
<1>10. KeepsOrder(r)
  BY <1>2 DEF KeepsOrder, OnTheWay, Guarding
<1> QED
  BY <1>3, <1>4, <1>7, <1>8, <1>9, <1>10, RequestStep DEF RequestInv

\* The entry of the guard, where the stages and the mode allow it.
LEMMA RecordsOnce ==
  ASSUME DoorInv, NEW r \in Requests, at[r] = "record", Records(r)
  PROVE  /\ \E e \in {"observe", "reject"} : recorded' = [recorded EXCEPT ![r] = Append(@, e)]
         /\ mode = "observe" => recorded'[r] = <<"observe">>
         /\ mode # "observe" => recorded'[r] = <<"reject">> /\ mode = "enforce"
<1>1. /\ recorded[r] = <<>> /\ mode # "off" /\ mode \in Modes
      /\ recorded \in [Requests -> Seq({"observe", "reject"})]
  BY DEF DoorInv, RequestInv, StageInv, RecordInv, TypeOK
<1>2. Append(<<>>, "observe") = <<"observe">> /\ Append(<<>>, "reject") = <<"reject">>
  OBVIOUS
<1>3. mode # "observe" => mode = "enforce"
  BY <1>1, ModesAssumption
<1>4. CASE mode = "observe"
  <2>1. recorded' = [recorded EXCEPT ![r] = Append(@, "observe")]
    BY <1>4 DEF Records
  <2> QED
    BY <1>1, <1>2, <1>4, <2>1
<1>5. CASE mode # "observe"
  <2>1. recorded' = [recorded EXCEPT ![r] = Append(@, "reject")]
    BY <1>5 DEF Records
  <2> QED
    BY <1>1, <1>2, <1>3, <1>5, <2>1
<1> QED
  BY <1>4, <1>5

LEMMA CheckOriginalKeeps ==
  ASSUME DoorInv, NEW r \in Requests, CheckOriginal(r) PROVE DoorInv'
<1>1. /\ at[r] = "original" /\ recorded' = recorded
      /\ UNCHANGED <<mode, asked, known, placed, about, allowed, whitelist>>
      /\ at[r] \in OnTheWay /\ RequestInv(r) /\ TypeOK
  BY DEF CheckOriginal, DoorInv, OnTheWay, Guarding
<1>2. RecordInv(r) /\ recorded[r] = <<>> /\ Intent(r).kind = "refund"
  BY <1>1 DEF RequestInv, RecordInv, StageInv
<1>3. RecordInv(r)'
  BY <1>1, <1>2 DEF RecordInv
<1>4. CASE Intent(r).body.whole /\ Answered(r, 422)
  BY <1>1, <1>2, <1>3, <1>4, Answering DEF Claim, Exempt
<1>5. CASE ~Fills(Intent(r).body, RefundRequired) /\ Answered(r, 400)
  BY <1>1, <1>2, <1>3, <1>5, Answering DEF Claim, Passes, Complete
<1>6. CASE Fills(Intent(r).body, RefundRequired) /\ Moves(r, "guard")
  BY <1>1, <1>2, <1>3, <1>6, MovingOn DEF Complete, Stages
<1> QED
  BY <1>4, <1>5, <1>6 DEF CheckOriginal

LEMMA JudgeKeeps ==
  ASSUME DoorInv, NEW r \in Requests, Judge(r) PROVE DoorInv'
<1>1. /\ at[r] = "guard" /\ recorded' = recorded
      /\ UNCHANGED <<mode, asked, known, placed, about, allowed, whitelist>>
      /\ at[r] \in OnTheWay /\ at[r] \in Guarding /\ RequestInv(r) /\ TypeOK
  BY DEF Judge, DoorInv, OnTheWay, Guarding
<1>2. /\ RecordInv(r) /\ recorded[r] = <<>> /\ Complete(Intent(r))
      /\ AllowedNow(row, Intent(r)) => allowed[r]
  BY <1>1 DEF RequestInv, RecordInv, StageInv, AllowedInv
<1>3. RecordInv(r)'
  BY <1>1, <1>2 DEF RecordInv
<1>4. CASE mode = "off" \/ AllowedNow(row, Intent(r))
  <2>1. Moves(r, "enter")
    BY <1>4 DEF Judge
  <2> QED
    BY <1>1, <1>2, <1>3, <1>4, <2>1, MovingOn DEF Stages, MustBeAllowed
<1>5. CASE ~(mode = "off" \/ AllowedNow(row, Intent(r)))
  <2>1. Moves(r, "record")
    BY <1>5 DEF Judge
  <2> QED
    BY <1>1, <1>2, <1>3, <1>5, <2>1, MovingOn DEF Stages
<1> QED
  BY <1>4, <1>5

\* A guard that observes lets the request pass, and owes it nothing.
LEMMA RefuseKeeps ==
  ASSUME DoorInv, NEW r \in Requests, Refuse(r) PROVE DoorInv'
<1>1. /\ at[r] = "record" /\ Records(r)
      /\ UNCHANGED <<mode, asked, known, placed, about, allowed, whitelist>>
      /\ at[r] \in OnTheWay /\ at[r] \in Guarding /\ RequestInv(r) /\ TypeOK
  BY DEF Refuse, DoorInv, OnTheWay, Guarding
<1>2. Complete(Intent(r))
  BY <1>1 DEF RequestInv, StageInv
<1>3. /\ \E e \in {"observe", "reject"} : recorded' = [recorded EXCEPT ![r] = Append(@, e)]
      /\ mode = "observe" => recorded'[r] = <<"observe">>
      /\ mode # "observe" => recorded'[r] = <<"reject">> /\ mode = "enforce"
  BY <1>1, RecordsOnce
<1>4. <<"observe">> # <<"reject">>
  OBVIOUS
<1>5. CASE mode = "observe"
  <2>1. Moves(r, "enter")
    BY <1>5 DEF Refuse
  <2>2. at'[r] = "enter"
    BY <1>1, <2>1, MovesMoves DEF Stages
  <2>3. RecordInv(r)'
    BY <1>3, <1>4, <1>5, <2>2 DEF RecordInv
  <2> QED
    BY <1>1, <1>2, <1>3, <1>5, <2>1, <2>3, MovingOn DEF Stages, MustBeAllowed
<1>6. CASE mode # "observe"
  <2>1. Answered(r, 403)
    BY <1>6 DEF Refuse
  <2>2. at'[r] = "done"
    BY <1>1, <2>1, AnsweredAnswers
  <2>3. RecordInv(r)'
    BY <1>1, <1>3, <1>6, <2>2 DEF RecordInv
  <2> QED
    <3> DEFINE code == 403
    <3>1. code \in {200, 400, 403, 409, 422, 500} /\ Answered(r, code)
      BY <2>1
    <3>2. /\ recorded'[r] = <<"reject">> /\ at[r] # "service"
          /\ Claim(r, code) \notin {"NOT_APPLIED", "UNKNOWN"}
      BY <1>1, <1>3, <1>6 DEF Claim
    <3> HIDE DEF code
    <3>3. /\ code = 403 => recorded'[r] = <<"reject">>
          /\ Claim(r, code) = "NOT_APPLIED" /\ ~Exempt(Intent(r)) => ~Passes(Intent(r))
          /\ Claim(r, code) = "UNKNOWN" => placed[about[r]] # None
          /\ at[r] = "service" => recorded' = recorded
          /\ \/ recorded' = recorded
             \/ \E e \in {"observe", "reject"} :
                  recorded' = [recorded EXCEPT ![r] = Append(@, e)]
      BY <1>1, <1>3, <3>2
    <3> QED
      BY <1>1, <2>3, <3>1, <3>3, Answering
<1> QED
  BY <1>5, <1>6

LEMMA GuardFailsKeeps ==
  ASSUME DoorInv, NEW r \in Requests, GuardFails(r) PROVE DoorInv'
<1>1. /\ at[r] \in {"guard", "record"} /\ Unable(r)
      /\ recorded' = recorded \/ (at[r] = "record" /\ Records(r))
      /\ UNCHANGED <<mode, asked, known, placed, about, allowed, whitelist>>
      /\ at[r] \in OnTheWay /\ at[r] \in Guarding /\ at[r] # "service"
      /\ RequestInv(r) /\ TypeOK
  BY DEF GuardFails, DoorInv, OnTheWay, Guarding
<1>2. Complete(Intent(r)) /\ recorded[r] = <<>>
  BY <1>1 DEF RequestInv, StageInv, RecordInv
<1>3. \/ recorded' = recorded
      \/ \E e \in {"observe", "reject"} : recorded' = [recorded EXCEPT ![r] = Append(@, e)]
  BY <1>1, RecordsOnce
<1>4. \/ recorded'[r] = <<>>
      \/ mode = "observe" /\ recorded'[r] = <<"observe">>
      \/ mode = "enforce" /\ recorded'[r] = <<"reject">>
  BY <1>1, <1>2, RecordsOnce
<1>5. <<"observe">> # <<"reject">> /\ <<>> # <<"reject">>
  OBVIOUS
<1>6. CASE mode = "observe"
  <2>1. Moves(r, "enter")
    BY <1>1, <1>6 DEF Unable
  <2>2. at'[r] = "enter"
    BY <1>1, <2>1, MovesMoves DEF Stages
  <2>3. RecordInv(r)'
    BY <1>1, <1>4, <1>5, <1>6, <2>2 DEF RecordInv
  <2> QED
    BY <1>1, <1>2, <1>3, <1>6, <2>1, <2>3, MovingOn DEF Stages, MustBeAllowed
<1>7. CASE mode # "observe"
  <2>1. Answered(r, 500)
    BY <1>1, <1>7 DEF Unable
  <2>2. at'[r] = "done"
    BY <1>1, <2>1, AnsweredAnswers
  <2>3. RecordInv(r)'
    BY <1>1, <1>4, <1>5, <1>7, <2>2 DEF RecordInv
  <2> QED
    BY <1>1, <1>3, <2>1, <2>3, Answering DEF Claim
<1> QED
  BY <1>6, <1>7

LEMMA EnterKeeps ==
  ASSUME DoorInv, NEW r \in Requests, Enter(r) PROVE DoorInv'
<1>1. /\ at[r] = "enter" /\ recorded' = recorded
      /\ UNCHANGED <<mode, asked, known, placed, about, allowed, whitelist>>
      /\ at[r] \in OnTheWay /\ at[r] \in Guarding /\ RequestInv(r) /\ TypeOK
  BY DEF Enter, DoorInv, OnTheWay, Guarding
<1>2. /\ Complete(Intent(r)) /\ recorded[r] \in {<<>>, <<"observe">>}
      /\ MustBeAllowed(Intent(r)) => allowed[r]
  BY <1>1 DEF RequestInv, RecordInv, StageInv, AllowedInv
<1>3. <<"observe">> # <<"reject">> /\ <<>> # <<"reject">>
  OBVIOUS
<1>4. CASE Intent(r).body.bizSeqNo # None
  <2>1. Moves(r, "service")
    BY <1>4 DEF Enter
  <2>2. at'[r] = "service"
    BY <1>1, <2>1, MovesMoves DEF Stages
  <2>3. RecordInv(r)'
    BY <1>1, <1>2, <1>3, <2>2 DEF RecordInv
  <2> QED
    BY <1>1, <1>2, <1>4, <2>1, <2>3, MovingOn DEF Stages
<1>5. CASE Intent(r).body.bizSeqNo = None
  <2>1. Answered(r, 400)
    BY <1>5 DEF Enter
  <2>2. at'[r] = "done"
    BY <1>1, <2>1, AnsweredAnswers
  <2>3. RecordInv(r)'
    BY <1>1, <1>2, <1>3, <2>2 DEF RecordInv
  <2> QED
    <3>1. Claim(r, 400) = "NOT_APPLIED" /\ ~Passes(Intent(r))
      BY <1>1, <1>5 DEF Claim, Passes
    <3> QED
      BY <1>1, <2>1, <2>3, <3>1, Answering
<1> QED
  BY <1>4, <1>5

\* What the service returns: UNKNOWN only where an order is placed.
LEMMA ReturnKeeps ==
  ASSUME DoorInv, NEW r \in Requests, Return(r) PROVE DoorInv'
<1>1. /\ at[r] = "service" /\ recorded' = recorded
      /\ UNCHANGED <<mode, asked, known, placed, about, allowed, whitelist>>
      /\ at[r] \in OnTheWay /\ RequestInv(r) /\ TypeOK
  BY DEF Return, DoorInv, OnTheWay, Guarding
<1> PICK code \in {200, 400, 409, 422, 500} :
      (code # 500 => placed[about[r]] # None) /\ Answered(r, code)
  BY DEF Return
<1>2. at'[r] = "done" /\ RecordInv(r)
  BY <1>1, AnsweredAnswers DEF RequestInv
<1>3. RecordInv(r)'
  BY <1>1, <1>2 DEF RecordInv
<1>4. Claim(r, code) # "NOT_APPLIED" /\ (Claim(r, code) = "UNKNOWN" => code # 500)
  BY <1>1 DEF Claim
<1> QED
  BY <1>1, <1>3, <1>4, Answering

LEMMA CrashKeeps ==
  ASSUME DoorInv, NEW r \in Requests, Crash(r) PROVE DoorInv'
<1>1. /\ at[r] \notin {"unsent", "done"} /\ recorded' = recorded /\ Moves(r, "done")
      /\ UNCHANGED <<mode, asked, known, placed, about, allowed, whitelist>>
      /\ RequestInv(r) /\ TypeOK
  BY DEF Crash, DoorInv
<1>2. at[r] \in OnTheWay
  BY <1>1 DEF TypeOK, OnTheWay, Guarding
<1>3. at'[r] = "done" /\ RecordInv(r)
  BY <1>1, MovesMoves DEF Stages, RequestInv
<1>4. RecordInv(r)'
  BY <1>1, <1>3 DEF RecordInv
<1> QED
  BY <1>1, <1>2, <1>4, MovingOn DEF Stages, Guarding

\* An order is placed by a request that stands at the service, where none is.
LEMMA PlaceKeeps ==
  ASSUME DoorInv, NEW r \in Requests, Place(r) PROVE DoorInv'
<1> DEFINE mine == about[r]
<1>1. /\ at[r] = "service" /\ placed[mine] = None /\ placed' = [placed EXCEPT ![mine] = r]
      /\ UNCHANGED <<mode, asked, known, at, about, answer, recorded, allowed, whitelist>>
      /\ RequestInv(r) /\ TypeOK
  BY DEF Place, DoorInv
<1>2. /\ mine \in Intents /\ recorded[r] # <<"reject">> /\ Passes(Intent(r))
      /\ MustBeAllowed(Intent(r)) => allowed[r]
  BY <1>1 DEF RequestInv, StageInv, RecordInv, AllowedInv, OnTheWay, Guarding, Passes
<1>3. /\ placed' \in [Intents -> Requests \union {None}] /\ placed'[mine] = r
      /\ \A i \in Intents \ {mine} : placed'[i] = placed[i]
  BY <1>1, <1>2 DEF TypeOK
<1>4. TypeOK'
  BY <1>1, <1>3 DEF TypeOK, WhitelistTypeOK, whitelist
<1>5. r # None
  BY NoRequestAssumption
<1>6. ASSUME NEW q \in Requests PROVE RequestInv(q)'
  <2>1. /\ Intent(q)' = Intent(q)
        /\ AllowedNow(row, Intent(q))' = AllowedNow(row, Intent(q))
        /\ MustBeAllowed(Intent(q))' = MustBeAllowed(Intent(q))
        /\ BodyPasses(Intent(q))' = BodyPasses(Intent(q))
        /\ Complete(Intent(q))' = Complete(Intent(q))
        /\ Passes(Intent(q))' = Passes(Intent(q))
        /\ Exempt(Intent(q))' = Exempt(Intent(q))
    BY <1>1, SameIntent
  <2>2. RequestInv(q)
    BY DEF DoorInv
  <2>3. placed[about[q]] # None => placed'[about[q]] # None
    BY <1>1, <1>5 DEF TypeOK
  <2>4. StageInv(q)' /\ RecordInv(q)'
    BY <1>1, <2>1, <2>2 DEF RequestInv, StageInv, RecordInv
  <2>5. AllowedInv(q)'
    BY <1>1, <2>1, <2>2 DEF RequestInv, AllowedInv
  <2>6. AnswerInv(q)'
    BY <1>1, <2>1, <2>2, <2>3 DEF RequestInv, AnswerInv
  <2> QED
    BY <2>4, <2>5, <2>6 DEF RequestInv
<1>7. ASSUME NEW i \in Intents PROVE PlacedInv(i)'
  <2>1. PlacedInv(i) /\ Ask(i)' = Ask(i)
    BY <1>1 DEF DoorInv, Ask
  <2>2. Passes(Ask(i))' = Passes(Ask(i)) /\ MustBeAllowed(Ask(i))' = MustBeAllowed(Ask(i))
    BY <1>1, <2>1 DEF Passes, BodyPasses, Complete, MustBeAllowed, CollectBody, DistributeBody,
      RefundBody, ReverseBody, DisburseBody, RepayBody
  <2>3. CASE i = mine
    <3>1. Intent(r) = Ask(i) /\ placed'[i] = r /\ about[r] = i
      BY <1>3, <2>3 DEF Intent
    <3> HIDE DEF mine
    <3> QED
      BY <1>1, <1>2, <2>2, <3>1 DEF PlacedInv
  <2>4. CASE i # mine
    <3>1. placed'[i] = placed[i]
      BY <1>3, <2>4
    <3> QED
      BY <1>1, <2>1, <2>2, <3>1 DEF PlacedInv
  <2> QED
    BY <2>3, <2>4
<1>8. ASSUME NEW a \in Admins PROVE AdminInv(a)'
  BY <1>1 DEF DoorInv, AdminInv, whitelist
<1> QED
  BY <1>4, <1>6, <1>7, <1>8 DEF DoorInv

\* Steps that change nothing the invariant speaks of, but the type of "known".
LEMMA UnheededStep ==
  ASSUME DoorInv, known' \in BOOLEAN,
         UNCHANGED <<mode, asked, placed, at, about, answer, recorded, allowed, whitelist>>
  PROVE  DoorInv'
<1>1. TypeOK'
  BY DEF DoorInv, TypeOK, WhitelistTypeOK, whitelist
<1>2. ASSUME NEW q \in Requests PROVE RequestInv(q)'
  <2>1. /\ Intent(q)' = Intent(q)
        /\ AllowedNow(row, Intent(q))' = AllowedNow(row, Intent(q))
        /\ MustBeAllowed(Intent(q))' = MustBeAllowed(Intent(q))
        /\ BodyPasses(Intent(q))' = BodyPasses(Intent(q))
        /\ Complete(Intent(q))' = Complete(Intent(q))
        /\ Passes(Intent(q))' = Passes(Intent(q))
        /\ Exempt(Intent(q))' = Exempt(Intent(q))
    BY SameIntent
  <2>2. RequestInv(q)
    BY DEF DoorInv
  <2>3. StageInv(q)' /\ RecordInv(q)'
    BY <2>1, <2>2 DEF RequestInv, StageInv, RecordInv
  <2>4. AllowedInv(q)' /\ AnswerInv(q)'
    BY <2>1, <2>2 DEF RequestInv, AllowedInv, AnswerInv
  <2> QED
    BY <2>3, <2>4 DEF RequestInv
<1>3. ASSUME NEW i \in Intents PROVE PlacedInv(i)'
  <2>1. PlacedInv(i) /\ Ask(i)' = Ask(i)
    BY DEF DoorInv, Ask
  <2>2. Passes(Ask(i))' = Passes(Ask(i)) /\ MustBeAllowed(Ask(i))' = MustBeAllowed(Ask(i))
    BY <2>1 DEF Passes, BodyPasses, Complete, MustBeAllowed, CollectBody, DistributeBody,
      RefundBody, ReverseBody, DisburseBody, RepayBody
  <2> QED
    BY <2>1, <2>2 DEF PlacedInv
<1>4. ASSUME NEW a \in Admins PROVE AdminInv(a)'
  BY DEF DoorInv, AdminInv, whitelist
<1> QED
  BY <1>1, <1>2, <1>3, <1>4 DEF DoorInv

-----------------------------------------------------------------------------
(* The administrators.                                                     *)

\* The sum of what an administrator's transactions know, and the types.
WhitelistInv == WhitelistTypeOK /\ \A a \in Admins : AdminInv(a)

\* A transaction that does not move keeps what it knows, if the row does not
\* vanish and nobody takes its lock.
LEMMA OtherAdmins ==
  ASSUME WhitelistInv, NEW b \in Admins, adm'[b] = adm[b],
         row # None => row' # None,
         lock = b => lock' = b /\ row' = row
  PROVE  AdminInv(b)'
BY DEF WhitelistInv, AdminInv

LEMMA RegisterKeeps ==
  ASSUME WhitelistInv, NEW a \in Admins, Register(a) PROVE WhitelistInv'
<1> PICK new \in Registrations :
      Becomes(a, [at |-> "written", seen |-> None, sent |-> new, dirty |-> Columns])
  BY DEF Register
<1> DEFINE frame == [at |-> "written", seen |-> None, sent |-> new, dirty |-> Columns]
<1>1. row = None /\ lock = None /\ lock' = a /\ UNCHANGED <<row, log, writes>>
  BY DEF Register
<1>2. frame \in Frames
  BY DEF Frames, Sendings
<1>3. /\ frame.at = "written" /\ frame.seen = None /\ frame.sent = new
      /\ frame.dirty = Columns
  OBVIOUS
<1>4. adm' = [adm EXCEPT ![a] = frame]
  BY DEF Becomes
<1> HIDE DEF frame
<1>5. /\ adm' \in [Admins -> Frames] /\ adm'[a] = frame
      /\ \A b \in Admins \ {a} : adm'[b] = adm[b]
  BY <1>2, <1>4 DEF WhitelistInv, WhitelistTypeOK
<1>6. WhitelistTypeOK'
  BY <1>1, <1>5 DEF WhitelistInv, WhitelistTypeOK
<1>7. AdminInv(a)'
  BY <1>1, <1>3, <1>5 DEF AdminInv
<1>8. ASSUME NEW b \in Admins \ {a} PROVE AdminInv(b)'
  <2>1. lock # b
    BY <1>1, NobodyAssumption
  <2> QED
    BY <1>1, <1>5, <2>1, OtherAdmins
<1> QED
  BY <1>6, <1>7, <1>8 DEF WhitelistInv

LEMMA LoadKeeps ==
  ASSUME WhitelistInv, NEW a \in Admins, Load(a) PROVE WhitelistInv'
<1> PICK sent \in Patches :
      Becomes(a, [at |-> "loaded", seen |-> row, sent |-> sent, dirty |-> {}])
  BY DEF Load
<1> DEFINE frame == [at |-> "loaded", seen |-> row, sent |-> sent, dirty |-> {}]
<1>1. row # None /\ UNCHANGED <<row, log, lock, writes>>
  BY DEF Load
<1>2. frame \in Frames
  BY DEF Frames, Sendings, WhitelistInv, WhitelistTypeOK
<1>3. frame.at = "loaded" /\ frame.seen = row /\ frame.sent = sent /\ frame.dirty = {}
  OBVIOUS
<1>4. adm' = [adm EXCEPT ![a] = frame]
  BY DEF Becomes
<1> HIDE DEF frame
<1>5. /\ adm' \in [Admins -> Frames] /\ adm'[a] = frame
      /\ \A b \in Admins \ {a} : adm'[b] = adm[b]
  BY <1>2, <1>4 DEF WhitelistInv, WhitelistTypeOK
<1>6. WhitelistTypeOK'
  BY <1>1, <1>5 DEF WhitelistInv, WhitelistTypeOK
<1>7. AdminInv(a)'
  BY <1>1, <1>3, <1>5 DEF AdminInv
<1>8. ASSUME NEW b \in Admins \ {a} PROVE AdminInv(b)'
  BY <1>1, <1>5, OtherAdmins
<1> QED
  BY <1>6, <1>7, <1>8 DEF WhitelistInv

LEMMA FlushKeeps ==
  ASSUME WhitelistInv, NEW a \in Admins, Flush(a) PROVE WhitelistInv'
<1> DEFINE dirty == Dirty(adm[a])
           frame == [adm[a] EXCEPT !.at = "written", !.dirty = dirty]
<1>1. /\ adm[a].at = "loaded" /\ UNCHANGED <<row, log, writes>>
      /\ dirty # {} => lock = None
      /\ lock' = IF dirty = {} THEN lock ELSE a
      /\ adm' = [adm EXCEPT ![a] = frame]
  BY DEF Flush, Becomes
<1>2. AdminInv(a) /\ adm[a] \in Frames /\ adm[a].seen # None /\ adm[a].sent \in Patches
  BY <1>1 DEF WhitelistInv, WhitelistTypeOK, AdminInv
<1>3. dirty \subseteq DOMAIN adm[a].sent /\ dirty \subseteq Columns
  BY <1>2, PatchesAssumption DEF Dirty
<1>4. row # None
  BY <1>1, <1>2 DEF AdminInv
<1> HIDE DEF dirty
<1>5. frame \in Frames
  BY <1>2, <1>3 DEF Frames
<1>6. /\ frame.at = "written" /\ frame.seen = adm[a].seen
      /\ frame.sent = adm[a].sent /\ frame.dirty = dirty
  BY <1>2 DEF Frames
<1> HIDE DEF frame
<1>7. /\ adm' \in [Admins -> Frames] /\ adm'[a] = frame
      /\ \A b \in Admins \ {a} : adm'[b] = adm[b]
  BY <1>1, <1>5 DEF WhitelistInv, WhitelistTypeOK
<1>8. WhitelistTypeOK'
  BY <1>1, <1>7 DEF WhitelistInv, WhitelistTypeOK
<1>9. AdminInv(a)'
  BY <1>1, <1>2, <1>3, <1>4, <1>6, <1>7 DEF AdminInv
<1>10. ASSUME NEW b \in Admins \ {a} PROVE AdminInv(b)'
  <2>1. lock = b => dirty = {}
    BY <1>1, NobodyAssumption
  <2> QED
    BY <1>1, <1>7, <2>1, OtherAdmins
<1> QED
  BY <1>8, <1>9, <1>10 DEF WhitelistInv

\* What a commit makes of the row: a registration as it was sent, or the row
\* with the columns of the change that differ from what was read.
LEMMA MergedIsARow ==
  ASSUME WhitelistInv, NEW a \in Admins, adm[a].at = "written"
  PROVE  /\ Merged(adm[a]) \in Accounts
         /\ adm[a].seen = None => row = None /\ Merged(adm[a]) = adm[a].sent
         /\ adm[a].seen # None =>
              /\ row # None
              /\ \A c \in Columns : Merged(adm[a])[c] # row[c] =>
                   c \in DOMAIN adm[a].sent /\ adm[a].sent[c] = Merged(adm[a])[c]
<1> DEFINE f == adm[a]
<1>1. f \in Frames /\ AdminInv(a) /\ row \in Accounts \union {None}
  BY DEF WhitelistInv, WhitelistTypeOK
<1>2. CASE f.seen = None
  <2>1. f.dirty = Columns /\ f.sent \in Registrations /\ row = None
    BY <1>1, <1>2 DEF AdminInv
  <2>2. f.sent \in Accounts
    BY <2>1, RegistrationsAssumption
  <2>3. DOMAIN f.sent = Columns
    BY <2>2 DEF Accounts, Columns
  <2>4. Merged(f) = [c \in Columns |-> f.sent[c]]
    BY <2>1, <2>3 DEF Merged, Written
  <2>5. f.sent = [c \in Columns |-> f.sent[c]]
    BY <2>2 DEF Accounts, Columns
  <2> QED
    BY <1>2, <2>1, <2>2, <2>4, <2>5
<1>3. CASE f.seen # None
  <2>1. row \in Accounts /\ f.sent \in Patches /\ f.dirty \subseteq DOMAIN f.sent
    BY <1>1, <1>3 DEF AdminInv
  <2> PICK account \in Accounts : \A c \in DOMAIN f.sent : f.sent[c] = account[c]
    BY <2>1, PatchesAssumption
  <2>2. /\ DOMAIN Merged(f) = Columns
        /\ \A c \in Columns : Merged(f)[c] = IF c \in f.dirty THEN account[c] ELSE row[c]
    BY <2>1 DEF Merged, Written
  <2>3. Merged(f) = [c \in Columns |-> IF c \in f.dirty THEN account[c] ELSE row[c]]
    BY <2>1 DEF Merged, Written
  <2>4. Merged(f) \in Accounts
    BY <2>1, <2>3 DEF Accounts, Columns
  <2>5. \A c \in Columns : Merged(f)[c] # row[c] =>
          c \in DOMAIN f.sent /\ f.sent[c] = Merged(f)[c]
    BY <2>1, <2>2
  <2> QED
    BY <1>1, <1>3, <2>1, <2>4, <2>5 DEF AdminInv
<1> QED
  BY <1>2, <1>3

LEMMA CommitWriteKeeps ==
  ASSUME WhitelistInv, NEW a \in Admins, CommitWrite(a) PROVE WhitelistInv'
<1> DEFINE action == IF adm[a].seen = None THEN "create" ELSE "update"
           entry == Entry(action, adm[a].sent)
<1>1. /\ adm[a].at = "written" /\ row' = Merged(adm[a]) /\ log' = Append(log, entry)
      /\ lock' = (IF lock = a THEN None ELSE lock) /\ writes' = writes + 1
      /\ adm' = [adm EXCEPT ![a] = Idle]
  BY DEF CommitWrite, Unlock, Becomes
<1>2. row' \in Accounts /\ row' # None
  BY <1>1, MergedIsARow, NobodyAssumption
<1>3. entry \in [action : {"create", "update"}, told : Sendings]
  BY DEF WhitelistInv, WhitelistTypeOK, Frames, Entry
<1> HIDE DEF entry, action
<1>4. log' \in Seq([action : {"create", "update"}, told : Sendings])
  BY <1>1, <1>3 DEF WhitelistInv, WhitelistTypeOK
<1>5. Idle \in Frames /\ Idle.at = "idle"
  BY DEF Idle, Frames, Sendings, Columns
<1>6. /\ adm' \in [Admins -> Frames] /\ adm'[a] = Idle
      /\ \A b \in Admins \ {a} : adm'[b] = adm[b]
  BY <1>1, <1>5 DEF WhitelistInv, WhitelistTypeOK
<1>7. WhitelistTypeOK'
  BY <1>1, <1>2, <1>4, <1>6 DEF WhitelistInv, WhitelistTypeOK
<1>8. AdminInv(a)'
  BY <1>5, <1>6 DEF AdminInv
<1>9. ASSUME NEW b \in Admins \ {a} PROVE AdminInv(b)'
  <2>1. AdminInv(a) /\ AdminInv(b) /\ adm'[b] = adm[b]
    BY <1>6 DEF WhitelistInv
  <2>2. ~(adm[b].at = "written" /\ adm[b].seen = None)
    BY <1>1, <2>1 DEF AdminInv
  <2> QED
    BY <1>2, <2>1, <2>2 DEF AdminInv
<1> QED
  BY <1>7, <1>8, <1>9 DEF WhitelistInv

LEMMA WriteFailsKeeps ==
  ASSUME WhitelistInv, NEW a \in Admins, WriteFails(a) PROVE WhitelistInv'
<1>1. /\ lock' = (IF lock = a THEN None ELSE lock) /\ writes' = writes + 1
      /\ UNCHANGED <<row, log>> /\ adm' = [adm EXCEPT ![a] = Idle]
  BY DEF WriteFails, Unlock, Becomes
<1>2. Idle \in Frames /\ Idle.at = "idle"
  BY DEF Idle, Frames, Sendings, Columns
<1>3. /\ adm' \in [Admins -> Frames] /\ adm'[a] = Idle
      /\ \A b \in Admins \ {a} : adm'[b] = adm[b]
  BY <1>1, <1>2 DEF WhitelistInv, WhitelistTypeOK
<1>4. WhitelistTypeOK'
  BY <1>1, <1>3 DEF WhitelistInv, WhitelistTypeOK
<1>5. AdminInv(a)'
  BY <1>2, <1>3 DEF AdminInv
<1>6. ASSUME NEW b \in Admins \ {a} PROVE AdminInv(b)'
  BY <1>1, <1>3, OtherAdmins
<1> QED
  BY <1>4, <1>5, <1>6 DEF WhitelistInv

LEMMA AdministerKeeps ==
  ASSUME DoorInv, NEW a \in Admins, Administer(a) PROVE DoorInv'
<1>1. /\ UNCHANGED <<mode, asked, known, placed, at, about, answer, recorded>>
      /\ allowed' = [r \in Requests |->
                       \/ allowed[r]
                       \/ at[r] \notin {"unsent", "done"} /\ AllowedNow(row', Intent(r))]
      /\ TypeOK
  BY DEF Administer, DoorInv
<1>2. WhitelistInv
  BY DEF DoorInv, TypeOK, WhitelistInv
<1>3. WhitelistInv'
  BY <1>2, RegisterKeeps, LoadKeeps, FlushKeeps, CommitWriteKeeps, WriteFailsKeeps
    DEF Administer
<1>4. allowed' \in [Requests -> BOOLEAN]
  BY <1>1 DEF TypeOK, AllowedNow, Allows
<1>5. \A r \in Requests :
        /\ allowed[r] => allowed'[r]
        /\ at[r] \in OnTheWay /\ AllowedNow(row', Intent(r)) => allowed'[r]
  BY <1>1 DEF OnTheWay, Guarding
<1>6. TypeOK'
  BY <1>1, <1>3, <1>4 DEF TypeOK, WhitelistInv
<1>7. ASSUME NEW q \in Requests PROVE RequestInv(q)'
  <2>1. Intent(q)' = Intent(q)
    BY <1>1 DEF Intent, Ask
  <2>2. /\ AllowedNow(row, Intent(q))' = AllowedNow(row', Intent(q))
        /\ MustBeAllowed(Intent(q))' = MustBeAllowed(Intent(q))
    BY <1>1, <2>1 DEF AllowedNow, Allows, MustBeAllowed
  <2>3. /\ BodyPasses(Intent(q))' = BodyPasses(Intent(q))
        /\ Complete(Intent(q))' = Complete(Intent(q))
        /\ Passes(Intent(q))' = Passes(Intent(q))
        /\ Exempt(Intent(q))' = Exempt(Intent(q))
    BY <2>1 DEF BodyPasses, Complete, Passes, Exempt, CollectBody, DistributeBody, RefundBody,
      ReverseBody, DisburseBody, RepayBody
  <2>4. RequestInv(q)
    BY DEF DoorInv
  <2>5. StageInv(q)' /\ RecordInv(q)'
    BY <1>1, <2>1, <2>3, <2>4 DEF RequestInv, StageInv, RecordInv
  <2>6. AllowedInv(q)'
    BY <1>1, <1>5, <2>2, <2>4 DEF RequestInv, AllowedInv
  <2>7. AnswerInv(q)'
    BY <1>1, <2>3, <2>4 DEF RequestInv, AnswerInv
  <2> QED
    BY <2>5, <2>6, <2>7 DEF RequestInv
<1>8. ASSUME NEW i \in Intents PROVE PlacedInv(i)'
  <2>1. PlacedInv(i) /\ Ask(i)' = Ask(i)
    BY <1>1 DEF DoorInv, Ask
  <2>2. Passes(Ask(i))' = Passes(Ask(i)) /\ MustBeAllowed(Ask(i))' = MustBeAllowed(Ask(i))
    BY <1>1, <2>1 DEF Passes, BodyPasses, Complete, MustBeAllowed, CollectBody, DistributeBody,
      RefundBody, ReverseBody, DisburseBody, RepayBody
  <2>3. placed[i] # None => placed[i] \in Requests
    BY <1>1 DEF TypeOK
  <2> QED
    BY <1>1, <1>5, <2>1, <2>2, <2>3 DEF PlacedInv
<1> QED
  BY <1>3, <1>6, <1>7, <1>8 DEF DoorInv, WhitelistInv

LEMMA DoorInvNext == DoorInv /\ [Next]_vars => DoorInv'
<1> SUFFICES ASSUME DoorInv, [Next]_vars PROVE DoorInv'
  OBVIOUS
<1>1. ASSUME NEW r \in Requests,
             \/ CollectFromUsers(r) \/ DistributeToUsers(r) \/ RefundToUser(r)
             \/ ReverseTransaction(r) \/ P2PDisbursement(r) \/ P2PRepayment(r)
      PROVE  DoorInv'
  BY <1>1, EndpointsKeep
<1>2. ASSUME NEW r \in Requests,
             \/ CheckOriginal(r) \/ Judge(r) \/ Refuse(r) \/ GuardFails(r)
             \/ Enter(r) \/ Place(r) \/ Return(r) \/ Crash(r)
      PROVE  DoorInv'
  BY <1>2, CheckOriginalKeeps, JudgeKeeps, RefuseKeeps, GuardFailsKeeps, EnterKeeps, PlaceKeeps,
    ReturnKeeps, CrashKeeps
<1>3. ASSUME NEW a \in Admins, Administer(a) PROVE DoorInv'
  BY <1>3, AdministerKeeps
<1>4. CASE OriginalAppears
  BY <1>4, UnheededStep DEF OriginalAppears
<1>5. CASE UNCHANGED vars
  <2>1. /\ known' \in BOOLEAN
        /\ UNCHANGED <<mode, asked, placed, at, about, answer, recorded, allowed, whitelist>>
    BY <1>5 DEF vars, front, DoorInv, TypeOK
  <2> QED
    BY <2>1, UnheededStep
<1> QED
  BY <1>1, <1>2, <1>3, <1>4, <1>5 DEF Next

-----------------------------------------------------------------------------
(* The theorems.                                                           *)

\* The inductive invariant holds of every request, intent and administrator.
THEOREM DoorInvariant == Spec => []DoorInv
BY DoorInvInit, DoorInvNext, PTL DEF Spec

\* Requests, answers, the whitelist and its transactions keep their types.
THEOREM DoorTypeCorrect == Spec => []TypeOK
<1>1. DoorInv => TypeOK
  BY DEF DoorInv
<1> QED
  BY <1>1, DoorInvariant, PTL

\* An account that was at no time allowed since a request began stops it while
\* the guard enforces, whatever fails in account_guard.py and however many
\* administrators change the account meanwhile.
THEOREM DisabledMeansStoppedCorrect == Spec => []DisabledMeansStopped
<1>1. DoorInv => DisabledMeansStopped
  BY DEF DoorInv, PlacedInv, MustBeAllowed, DisabledMeansStopped
<1> QED
  BY <1>1, DoorInvariant, PTL

\* Refusals of the guard and their audit entries come in pairs, and the order of
\* a request that is on record as refused is not placed.
THEOREM RefusalsAreOnRecordCorrect == Spec => []RefusalsAreOnRecord
<1>1. ASSUME DoorInv, NEW r \in Requests
      PROVE  /\ answer[r] # None /\ answer[r].code = 403 => recorded[r] = <<"reject">>
             /\ "reject" \in Range(recorded[r]) =>
                  /\ mode = "enforce" /\ Len(recorded[r]) = 1
                  /\ \A i \in Intents : placed[i] # r
  <2>1. RecordInv(r) /\ AnswerInv(r)
    BY <1>1 DEF DoorInv, RequestInv
  <2>2. /\ Range(<<>>) = {} /\ Range(<<"observe">>) = {"observe"}
        /\ Len(<<"reject">>) = 1
    BY DEF Range
  <2>3. "reject" \in Range(recorded[r]) => recorded[r] = <<"reject">>
    BY <2>1, <2>2 DEF RecordInv
  <2>4. ASSUME recorded[r] = <<"reject">>, NEW i \in Intents PROVE placed[i] # r
    <3>1. PlacedInv(i)
      BY <1>1 DEF DoorInv
    <3>2. r # None
      BY NoRequestAssumption
    <3> QED
      BY <2>4, <3>1, <3>2 DEF PlacedInv
  <2> QED
    BY <2>1, <2>2, <2>3, <2>4 DEF RecordInv, AnswerInv
<1>2. DoorInv => RefusalsAreOnRecord
  BY <1>1 DEF RefusalsAreOnRecord
<1> QED
  BY <1>2, DoorInvariant, PTL

\* NOT_APPLIED is said only of an intent whose order is not placed, by whichever
\* request, and UNKNOWN only of one whose order is; for any bodies.
THEOREM ClaimsAreTrueCorrect == Spec => []ClaimsAreTrue
<1>1. ASSUME DoorInv, NEW r \in Requests, answer[r] # None
      PROVE  /\ answer[r].claim = "NOT_APPLIED" /\ ~Exempt(Intent(r)) => placed[about[r]] = None
             /\ answer[r].claim = "UNKNOWN" => placed[about[r]] # None
  <2>1. RequestInv(r)
    BY <1>1 DEF DoorInv
  <2>2. about[r] \in Intents
    <3>1. at[r] = "done"
      BY <1>1, <2>1 DEF RequestInv, StageInv
    <3> QED
      BY <2>1, <3>1 DEF RequestInv, StageInv
  <2>3. PlacedInv(about[r])
    BY <1>1, <2>2 DEF DoorInv
  <2>4. placed[about[r]] # None => Passes(Intent(r))
    BY <2>3 DEF PlacedInv, Intent
  <2> QED
    BY <1>1, <2>1, <2>4 DEF RequestInv, AnswerInv
<1>2. DoorInv => ClaimsAreTrue
  BY <1>1 DEF ClaimsAreTrue, Exempt
<1> QED
  BY <1>2, DoorInvariant, PTL

\* No column of the account changes but to what the entry of the same commit
\* tells, for any registrations, changes and administrators.
THEOREM RowChangesAreToldCorrect == Spec => RowChangesAreTold
<1> DEFINE Told == row' # row =>
       /\ Len(log') = Len(log) + 1
       /\ LET entry == log'[Len(log')] IN
            IF row = None
              THEN entry.action = "create" /\ row' = entry.told
              ELSE \A c \in Columns :
                     row'[c] # row[c] => c \in DOMAIN entry.told /\ entry.told[c] = row'[c]
<1>1. ASSUME DoorInv, NEW a \in Admins, CommitWrite(a) PROVE Told
  <2> DEFINE entry == Entry(IF adm[a].seen = None THEN "create" ELSE "update", adm[a].sent)
  <2>1. adm[a].at = "written" /\ row' = Merged(adm[a]) /\ log' = Append(log, entry)
    BY <1>1 DEF CommitWrite
  <2>2. WhitelistInv
    BY <1>1 DEF DoorInv, TypeOK, WhitelistInv
  <2>3. /\ adm[a].seen = None => row = None /\ Merged(adm[a]) = adm[a].sent
        /\ adm[a].seen # None =>
             /\ row # None
             /\ \A c \in Columns : Merged(adm[a])[c] # row[c] =>
                  c \in DOMAIN adm[a].sent /\ adm[a].sent[c] = Merged(adm[a])[c]
    BY <2>1, <2>2, MergedIsARow
  <2>4. /\ entry.told = adm[a].sent
        /\ adm[a].seen = None => entry.action = "create"
    BY DEF Entry
  <2>5. entry \in [action : {"create", "update"}, told : Sendings]
    BY <2>2 DEF WhitelistInv, WhitelistTypeOK, Frames, Entry
  <2> HIDE DEF entry
  <2>6. Len(log') = Len(log) + 1 /\ log'[Len(log')] = entry
    BY <2>1, <2>2, <2>5 DEF WhitelistInv, WhitelistTypeOK
  <2> QED
    BY <2>1, <2>3, <2>4, <2>6
<1>2. ASSUME DoorInv, [Next]_vars PROVE [Told]_<<row, log>>
  <2>1. ASSUME NEW a \in Admins, Administer(a) PROVE Told
    <3>1. CommitWrite(a) \/ row' = row
      BY <2>1 DEF Administer, Register, Load, Flush, WriteFails
    <3> QED
      BY <1>1, <1>2, <3>1
  <2>2. CASE UNCHANGED whitelist
    BY <2>2 DEF whitelist
  <2>3. CASE \E a \in Admins : Administer(a)
    BY <2>1, <2>3
  <2>4. UNCHANGED whitelist \/ \E a \in Admins : Administer(a)
    BY <1>2 DEF Next, vars, CollectFromUsers, DistributeToUsers, RefundToUser, ReverseTransaction,
      P2PDisbursement, P2PRepayment, Called, CheckOriginal, Judge, Refuse, GuardFails, Enter,
      Place, Return, Crash, OriginalAppears
  <2> QED
    BY <2>2, <2>3, <2>4
<1>3. [][Told]_<<row, log>> <=> RowChangesAreTold
  BY PTL DEF RowChangesAreTold
<1> HIDE DEF Told
<1> QED
  BY <1>2, <1>3, DoorInvariant, PTL DEF Spec
=============================================================================
