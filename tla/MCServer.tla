------------------------------ MODULE MCServer ------------------------------
(***************************************************************************)
(* Small instances of Server for TLC.                                      *)
(***************************************************************************)
EXTENDS ServerProperties

CONSTANTS p1, p2, p3

OneSends == [p \in Clients |-> IF p = p1 THEN << 2, 2 >> ELSE << >>]
ThreeSegments == [p \in Clients |-> << 1, 2, 2 >>]

Idle == Permutations({p2, p3})    \* the clients of OneSends that send no data
=============================================================================
