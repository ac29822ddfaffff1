----------------------------- MODULE MoneyBodies -----------------------------
(***************************************************************************)
(* What the money endpoints check in a body before anything else happens   *)
(* (api/deps.py, core/amounts.py, domain/wedap_contract.py).  An amount is *)
(* a number of the ten thousandths that the column keeps, or None where    *)
(* the body has none, or none that is a finite number of them.  The fields *)
(* of a body, and of an item of its list, are the names it gives and those *)
(* it fills, nested names with their place in front.                       *)
(***************************************************************************)
EXTENDS Integers, Sequences, SequencesExt

CONSTANTS Step,      \* the smallest amount of each currency
          Capacity,  \* the first amount that the column cannot hold
          None       \* no value

Currencies == DOMAIN Step

CollectRequired == {"channelId", "userId", "custAccountNo", "bankAccountNo", "bankAccountName"}
CollectRejected == {"user"}
DistributeRequired == {"channelId", "bankAccountNo", "bankAccountName"}
RecipientRequired == {"userId", "userName", "currencyCode", "custAccountNo"}
RecipientRejected == {"bankAccountNo", "bankAccountName"}
RefundRequired == {"channelId", "bankAccountNo", "custAccountNo", "subaccountSerialNo"}
DisbursementRequired == {"channelId", "disbursementInfo.userId", "disbursementInfo.userName"}
DisbursementLenderRequired == {"currencyCode"}
RepaymentRequired ==
  {"channelId", "loanNo", "repaymentInfo.interestAmount", "repaymentInfo.principalAmount",
   "repaymentInfo.repaymentType", "repaymentInfo.userId", "repaymentInfo.userName"}
RepaymentLenderRequired == {"interestAmount", "principalAmount"}

-----------------------------------------------------------------------------
\* The Idempotency-Key header is absent or names the bizSeqNo of the body.
KeyMatches(b) == b.key \in {None, b.bizSeqNo}

\* No field that wedap needs is missing or blank.
Fills(part, required) == required \subseteq part.filled

\* No field is there that wedap refuses a body for.
Avoids(part, rejected) == rejected \intersect part.given = {}

\* parse_guarded_decimal: a number that the column can hold.
InColumn(raw) == raw # None /\ raw < Capacity

\* parse_amount: positive, and no finer than its currency.
IsAmount(raw, currency) == InColumn(raw) /\ raw > 0 /\ raw % Step[currency] = 0

Priced(items, currency) ==
  \A n \in DOMAIN items : IsAmount(items[n].amount, currency)

SumOf(items) == FoldLeft(LAMBDA sum, item : sum + item.amount, 0, items)

\* validate_detail_consistency: a list that is there and not empty, all of it
\* in one currency, and with a total, every part priced and the sum the total.
Detailed(b, fees) ==
  /\ b.items # None /\ b.items # <<>>
  /\ \A n \in DOMAIN (b.items \o fees) :
       (b.items \o fees)[n].currency \in {None, b.currency}

AddsUp(b, fees) ==
  /\ Priced(fees, b.currency) /\ Priced(b.items, b.currency)
  /\ SumOf(b.items) + SumOf(fees) = b.amount

Parts(b) == {b.items[n] : n \in DOMAIN b.items}

-----------------------------------------------------------------------------
\* What each endpoint checks before _submit or submit_reversal.
CollectBody(b) ==
  /\ KeyMatches(b) /\ IsAmount(b.amount, b.currency)
  /\ Avoids(b, CollectRejected) /\ Fills(b, CollectRequired)

DistributeBody(b) ==
  /\ KeyMatches(b) /\ Fills(b, DistributeRequired)
  /\ Detailed(b, <<>>) /\ Priced(b.items, b.currency)
  /\ \A part \in Parts(b) : Avoids(part, RecipientRejected) /\ Fills(part, RecipientRequired)

\* A refund's required fields come after its look at the original.
RefundBody(b) == KeyMatches(b) /\ IsAmount(b.amount, b.currency)

\* A reversal has no required fields: wedap checks it against the original.
ReverseBody(b) == KeyMatches(b) /\ IsAmount(b.amount, b.currency)

DisburseBody(b) ==
  /\ KeyMatches(b) /\ IsAmount(b.amount, b.currency)
  /\ Detailed(b, <<>>) /\ AddsUp(b, <<>>)
  /\ Fills(b, DisbursementRequired)
  /\ \A part \in Parts(b) : Fills(part, DisbursementLenderRequired)

\* The total of a repayment includes its fees.
RepayBody(b) ==
  /\ KeyMatches(b) /\ IsAmount(b.amount, b.currency)
  /\ Detailed(b, b.fees) /\ AddsUp(b, b.fees)
  /\ Fills(b, RepaymentRequired)
  /\ \A part \in Parts(b) : Fills(part, RepaymentLenderRequired)
=============================================================================
