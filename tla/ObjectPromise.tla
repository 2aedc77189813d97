--------------------------- MODULE ObjectPromise ---------------------------
(***************************************************************************)
(* What the content-addressed store promises: a digest names its bytes or  *)
(* nothing, and once a call has returned a digest the object is there for  *)
(* good.  What nobody was promised may vanish when the power fails; damage *)
(* from outside is the one thing that ever makes an object unreadable.     *)
(* ObjectStore implements this specification.                              *)
(***************************************************************************)
CONSTANT Digests

VARIABLES
  bytes,     \* "absent", "whole" or "damaged"
  promised   \* digests some call has returned

vars == <<bytes, promised>>

Init ==
  /\ bytes = [d \in Digests |-> "absent"]
  /\ promised = {}

Appear(d) ==
  /\ bytes[d] = "absent"
  /\ bytes' = [bytes EXCEPT ![d] = "whole"]
  /\ UNCHANGED promised

Promise(d) ==
  /\ bytes[d] # "absent"
  /\ promised' = promised \cup {d}
  /\ UNCHANGED bytes

Lose ==
  /\ \E lost \in SUBSET (Digests \ promised) :
       bytes' = [d \in Digests |-> IF d \in lost THEN "absent" ELSE bytes[d]]
  /\ UNCHANGED promised

Damage(d) ==
  /\ bytes[d] = "whole"
  /\ bytes' = [bytes EXCEPT ![d] = "damaged"]
  /\ UNCHANGED promised

Next ==
  \/ \E d \in Digests : Appear(d) \/ Promise(d) \/ Damage(d)
  \/ Lose

Spec == Init /\ [][Next]_vars
=============================================================================
