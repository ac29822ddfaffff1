---------------------------- MODULE OrderContract ----------------------------
(***************************************************************************)
(* What the gateway promises about an order, whatever happens inside: it   *)
(* is accepted once, its money call leaves at most once, it gets at most   *)
(* one verdict and only after the call, a success may later be reversed,   *)
(* and lifecycle is told of a verdict in the step that reaches it.         *)
(***************************************************************************)
EXTENDS Naturals

CONSTANT Orders

VARIABLES phase,  \* "none", "open" or the verdict
          told,   \* the verdicts queued for lifecycle
          sent    \* money calls that have left the gateway

vars == <<phase, told, sent>>

Verdicts == {"SUCCEEDED", "FAILED", "REVERSED"}

Init ==
  /\ phase = [o \in Orders |-> "none"]
  /\ told = [o \in Orders |-> {}]
  /\ sent = [o \in Orders |-> 0]

Accept(o) ==
  /\ phase[o] = "none"
  /\ phase' = [phase EXCEPT ![o] = "open"]
  /\ UNCHANGED <<told, sent>>

Send(o) ==
  /\ phase[o] = "open" /\ sent[o] = 0
  /\ sent' = [sent EXCEPT ![o] = 1]
  /\ UNCHANGED <<phase, told>>

Tell(o, v) ==
  /\ phase' = [phase EXCEPT ![o] = v]
  /\ told' = [told EXCEPT ![o] = @ \union {v}]
  /\ UNCHANGED sent

Settle(o, v) == phase[o] = "open" /\ sent[o] = 1 /\ Tell(o, v)

Reverse(o) == phase[o] = "SUCCEEDED" /\ Tell(o, "REVERSED")

Next ==
  \E o \in Orders : \/ Accept(o) \/ Send(o) \/ Reverse(o)
                    \/ \E v \in Verdicts : Settle(o, v)

Spec == Init /\ [][Next]_vars
=============================================================================
