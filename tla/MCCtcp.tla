------------------------------- MODULE MCCtcp -------------------------------
(***************************************************************************)
(* Small instances of Ctcp for TLC.  Sizes are in units of a segment's     *)
(* payload, times in units of the library's timer period.                  *)
(***************************************************************************)
EXTENDS CtcpRefinement, TLC

OneWay(n) == Client :> n @@ Server :> 0
OneWay2 == OneWay(2)
OneWay3 == OneWay(3)
OneWay5 == OneWay(5)
=============================================================================
