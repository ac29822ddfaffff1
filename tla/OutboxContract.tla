--------------------------- MODULE OutboxContract ---------------------------
(***************************************************************************)
(* What the outbox promises about an event: queued once, it is marked sent *)
(* only after the downstream service has taken it (which may happen more   *)
(* than once, and even after it was given up), sent is final, and an event *)
(* that was given up can be queued again.                                  *)
(***************************************************************************)
CONSTANT Events

VARIABLES phase,  \* "none", "queued", "sent" or "dead"
          taken   \* the events the downstream service has taken

vars == <<phase, taken>>

Init == phase = [e \in Events |-> "none"] /\ taken = {}

Move(e, from, to) ==
  /\ phase[e] = from
  /\ phase' = [phase EXCEPT ![e] = to]
  /\ UNCHANGED taken

Take(e) ==
  /\ phase[e] # "none"
  /\ taken' = taken \union {e}
  /\ UNCHANGED phase

Next ==
  \E e \in Events : \/ Move(e, "none", "queued") \/ Take(e)
                    \/ e \in taken /\ Move(e, "queued", "sent")
                    \/ Move(e, "queued", "dead") \/ Move(e, "dead", "queued")

Spec == Init /\ [][Next]_vars
=============================================================================
