------------------------------- MODULE MCBbr --------------------------------
(***************************************************************************)
(* Small instances of Bbr for TLC: a clock of few ticks, a short window    *)
(* and small units; the gains are the real ones.                           *)
(***************************************************************************)
EXTENDS BbrProperties, TLC
=============================================================================
