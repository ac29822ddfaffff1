---------------------------- MODULE OrderStates ----------------------------
(***************************************************************************)
(* The vocabulary of the order ledger: the statuses of a bank_txn_order    *)
(* row and the moves between them (app/domain/states.py), what an answer   *)
(* of the bank core (wedap) to a money call means for the ledger           *)
(* (app/services/submit.py), and the typed outcome the caller is told      *)
(* (app/domain/money_write.py).  Everything here is a pure definition.     *)
(***************************************************************************)

Statuses == {"ACCEPTED", "SUBMITTED", "PROCESSING", "RESULT_UNKNOWN",
             "SUCCEEDED", "FAILED", "EXPIRED", "CANCELLED",
             "PARTIALLY_REVERSED", "REVERSED"}

\* Wrong on purpose: a request that died before its call is forgotten.
OpenWithoutAccepted == {"SUBMITTED", "PROCESSING", "RESULT_UNKNOWN"}

\* What the reconcile worker regards as still open (_NON_TERMINAL).
Open == {"ACCEPTED", "SUBMITTED", "PROCESSING", "RESULT_UNKNOWN"}

\* The statuses that trigger finalisation and the forward to lifecycle.
Terminal == {"SUCCEEDED", "FAILED", "REVERSED"}

\* The statuses that take no further move, but for the reversal upgrade.
Absorbing == Terminal \union {"CANCELLED", "EXPIRED"}

\* Wrong on purpose: the row of RESULT_UNKNOWN is missing from the table.
CanMoveUnlessUnknown(src, dst) ==
  \/ src \in {"ACCEPTED", "SUBMITTED", "PROCESSING"} /\ dst \in {"RESULT_UNKNOWN"} \union Terminal
  \/ src = "SUCCEEDED" /\ dst = "REVERSED"

\* _ALLOWED and assert_transition.
CanMove(src, dst) ==
  \/ src = "ACCEPTED" /\ dst \in {"SUBMITTED", "RESULT_UNKNOWN", "CANCELLED"} \union Terminal
  \/ src = "SUBMITTED" /\ dst \in {"PROCESSING", "RESULT_UNKNOWN", "EXPIRED"} \union Terminal
  \/ src = "PROCESSING" /\ dst \in {"RESULT_UNKNOWN", "EXPIRED"} \union Terminal
  \/ src = "RESULT_UNKNOWN" /\ dst \in {"PROCESSING", "EXPIRED"} \union Terminal
  \/ src = "SUCCEEDED" /\ dst \in {"PARTIALLY_REVERSED", "REVERSED"}
  \/ src = "PARTIALLY_REVERSED" /\ dst = "REVERSED"

-----------------------------------------------------------------------------
(* Words of the bank core.  "OTHER" stands for every missing, unknown or   *)
(* garbled word, "PROCESSING" for PENDING too.                             *)

Words == {"SUCCESS", "FAILED", "REVERSED", "PROCESSING", "OTHER"}

Unmapped == "NONE"

\* Wrong on purpose: an answer that is not terminal counts as success.
MapOptimistically(word) ==
  IF word \in {"FAILED", "REVERSED"} THEN word ELSE "SUCCEEDED"

\* map_wedap_txn_status, used by callbacks, status queries and generic acks.
MapTxnStatus(word) ==
  CASE word = "SUCCESS"  -> "SUCCEEDED"
    [] word = "FAILED"   -> "FAILED"
    [] word = "REVERSED" -> "REVERSED"
    [] OTHER             -> Unmapped

\* map_wedap_repayment_status: a repayment never reports REVERSED.
MapRepaymentStatus(word) ==
  IF word = "REVERSED" THEN Unmapped ELSE MapTxnStatus(word)

-----------------------------------------------------------------------------
(* How a money call can end, as the exception clauses of submit_order tell *)
(* the cases apart: an acknowledged body with one of the words; no answer  *)
(* (timeout, transport error, 5xx); a 4xx whose body does not parse, with  *)
(* a status listed as a rejection at the door or not; a business code,     *)
(* listed as a confirmed repayment rejection or not, carried by a listed   *)
(* 4xx or not; and a 2xx whose body is no JSON.                            *)

Codes == {"LISTED_AT_DOOR", "LISTED", "UNLISTED_AT_DOOR", "UNLISTED"}
Answers == Words \union Codes \union {"NO_ANSWER", "HTTP_DOOR", "HTTP_4XX"}

\* is_repayment_terminal_reject
ListedCode(a) == a \in {"LISTED_AT_DOOR", "LISTED"}

\* is_door_reject_http_status
AtDoor(a) == a \in {"LISTED_AT_DOOR", "UNLISTED_AT_DOOR", "HTTP_DOOR"}

\* _parse_ack's third result: the acknowledged word is one the contract knows.
Trusted(a, repayment) ==
  a \in Words => a # "OTHER" /\ ~(repayment /\ a = "REVERSED")

\* Wrong on purpose: no fallback to SUBMITTED for a word without a mapping.
LedgerStatusUnmapped(a, repayment) ==
  IF a \in Words THEN MapTxnStatus(a) ELSE "RESULT_UNKNOWN"

\* The status submit_order wants the ledger to take after the call.
LedgerStatus(a, repayment) ==
  LET mapped == IF repayment THEN MapRepaymentStatus(a) ELSE MapTxnStatus(a)
  IN  CASE a \in Words     -> IF mapped = Unmapped THEN "SUBMITTED" ELSE mapped
        [] a = "NO_ANSWER" -> "RESULT_UNKNOWN"
        [] a \in Codes     -> IF repayment /\ ~ListedCode(a) THEN "RESULT_UNKNOWN"
                                                             ELSE "FAILED"
        [] OTHER           -> "FAILED"

\* Wrong on purpose: every FAILED counts as proof that no money moved.
EvidenceFromFailure(a, repayment) == LedgerStatus(a, repayment) = "FAILED"

\* Whether the answer proves that no money moved (no_effect_evidence).
NoEffectEvidence(a, repayment) ==
  CASE a \in Words -> repayment /\ a = "FAILED"
    [] a \in Codes -> IF repayment THEN ListedCode(a) ELSE AtDoor(a)
    [] OTHER       -> ~repayment /\ AtDoor(a)

\* The northbound txnStatus of the response.
NorthboundWord(a, repayment) ==
  CASE a \in Words     -> IF Trusted(a, repayment) THEN a ELSE "RESULT_UNKNOWN"
    [] a \in Codes     -> LedgerStatus(a, repayment)
    [] a = "NO_ANSWER" -> "RESULT_UNKNOWN"
    [] OTHER           -> "FAILED"

Outcomes == {"OMITTED_OUTCOME", "PENDING", "ACCEPTED", "NOT_APPLIED", "UNKNOWN"}

\* money_write_fields; operationStatus and retryPolicy are functions of this.
Outcome(orderStatus, evidence, trusted) ==
  CASE orderStatus = "SUCCEEDED"                              -> "OMITTED_OUTCOME"
    [] orderStatus = "ACCEPTED"                               -> "PENDING"
    [] orderStatus \in {"SUBMITTED", "PROCESSING"} /\ trusted -> "ACCEPTED"
    [] orderStatus = "FAILED" /\ evidence                     -> "NOT_APPLIED"
    [] OTHER                                                  -> "UNKNOWN"

\* The data of a response that the properties tell apart.
Responses == [txn : Words \union {"RESULT_UNKNOWN"}, order : Statuses, outcome : Outcomes]
=============================================================================
