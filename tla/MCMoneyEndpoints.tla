-------------------------- MODULE MCMoneyEndpoints --------------------------
(* Instances of MoneyEndpoints for TLC. *)
EXTENDS MoneyEndpoints, TLC

MCStep == "USD" :> 2 @@ "EUR" :> 2

ItemFields == RecipientRequired \union DisbursementLenderRequired \union RepaymentLenderRequired
Item(amount, currency) ==
  [amount |-> amount, currency |-> currency, given |-> ItemFields, filled |-> ItemFields]

BodyFields ==
  CollectRequired \union RefundRequired \union DisbursementRequired \union RepaymentRequired

\* A body that suits every endpoint; a repayment with fees that is also the
\* refund of a whole; one with a blank field; a bizSeqNo nobody can store.
Sound == [bizSeqNo |-> "biz", key |-> None, given |-> BodyFields, filled |-> BodyFields,
          whole |-> FALSE, amount |-> 6, currency |-> "USD",
          items |-> <<Item(6, "USD")>>, fees |-> <<>>]
WithFees == [Sound EXCEPT !.whole = TRUE, !.key = "biz",
                          !.items = <<Item(2, "USD"), Item(2, "USD")>>,
                          !.fees = <<Item(2, None)>>]
Incomplete == [Sound EXCEPT !.filled = @ \ {"channelId"}]
Unstorable == [WithFees EXCEPT !.bizSeqNo = None, !.key = None]

Asking(kind, body) == [kind |-> kind, body |-> body]

MCAsks ==
  <<Asking("collect", Sound), Asking("distribute", Sound),
   Asking("refund", WithFees), Asking("refund", Incomplete),
   Asking("reverse", Incomplete), Asking("disburse", Unstorable), Asking("repay", WithFees)>>

MCRegistrations == {[status |-> "active", scopes |-> {"collect", "refund"}, currency |-> None]}

MCPatches ==
  {"status" :> "disabled", "status" :> "active" @@ "scopes" :> {"distribute", "refund"}}

Symmetry == Permutations(Requests) \union Permutations(Admins)
=============================================================================
