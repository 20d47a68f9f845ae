--------------------------- MODULE CtcpRefinement ---------------------------
(***************************************************************************)
(* The endpoint of module Ctcp implements a reliable stream.  A chunk is   *)
(* named by its position among those its host read, as in Ctcp.            *)
(***************************************************************************)
EXTENDS CtcpProperties

Streams == INSTANCE ReliableStream WITH
  written <- [h \in Host |-> [i \in 1..Len(input[h]) |-> i]],
  given   <- output,
  ended   <- [h \in Host |-> FinSent(h)],
  learned <- [h \in Host |-> FinSeen(h)],
  fate    <- [h \in Host |-> IF status[h] \in {"up", "closed"} THEN status[h] ELSE "stopped"]

(* Every step of the two endpoints and of the faulty network is a step of   *)
(* the reliable stream, or none at all: what was given is never taken back, *)
(* nothing is given after the end is known, a stream ends (ctcp_read on     *)
(* EOF) only when the peer has output it all, and ctcp_destroy from         *)
(* LAST_ACK or TIME_WAIT finds both streams complete.                       *)
ImplementsStreams == Streams!Spec
=============================================================================
