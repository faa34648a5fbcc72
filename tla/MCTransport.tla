----------------------------- MODULE MCTransport -----------------------------
(* Instances of Transport for TLC. *)
EXTENDS Transport, TLC

CONSTANTS b1, b2, i1, i2, p1, p2

(* two announces, the second emitted later *)
MCEmission == b1 :> 1 @@ b2 :> 2

MCOneEmission == b1 :> 1

MCOneGravity == i1 :> NoGravity
=============================================================================
