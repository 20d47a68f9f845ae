--------------------------- MODULE ReliableStream ---------------------------
(***************************************************************************)
(* What two connected cTCP hosts promise, with no segment, acknowledgement *)
(* or timer in sight: each host writes a stream and ends it; its peer is   *)
(* given a growing prefix of that stream and learns of the end only after  *)
(* the last chunk; a host ends its own stream only once the peer has all   *)
(* of it, and closes only when both streams are complete.  A host may also *)
(* stop short of that, which promises nothing more but takes nothing back. *)
(***************************************************************************)
EXTENDS Naturals, Sequences

CONSTANTS Client, Server

Host == {Client, Server}
Peer(h) == IF h = Client THEN Server ELSE Client

VARIABLES
  written,            \* written[h]: the chunks h has written
  given,              \* given[h]: the chunks of its peer that h was given
  ended,              \* h will write no more
  learned,            \* h knows that its peer will write no more
  fate                \* "up", "closed" in order or "stopped"

vars == << written, given, ended, learned, fate >>

Complete(h) == given[Peer(h)] = written[h]

Write(h) ==           \* a chunk is named by its position
  /\ fate[h] = "up" /\ ~ended[h]
  /\ written' = [written EXCEPT ![h] = Append(@, Len(@) + 1)]
  /\ UNCHANGED << given, ended, learned, fate >>

Give(h) ==            \* everything up to the n-th chunk, each one once
  /\ fate[h] = "up" /\ ~learned[h]
  /\ \E n \in (Len(given[h]) + 1)..Len(written[Peer(h)]) :
       given' = [given EXCEPT ![h] = SubSeq(written[Peer(h)], 1, n)]
  /\ UNCHANGED << written, ended, learned, fate >>

End(h) ==
  /\ fate[h] = "up" /\ ~ended[h] /\ Complete(h)
  /\ ended' = [ended EXCEPT ![h] = TRUE]
  /\ UNCHANGED << written, given, learned, fate >>

Learn(h) ==
  /\ fate[h] = "up" /\ ~learned[h] /\ ended[Peer(h)] /\ Complete(Peer(h))
  /\ learned' = [learned EXCEPT ![h] = TRUE]
  /\ UNCHANGED << written, given, ended, fate >>

Close(h) ==
  /\ fate[h] = "up" /\ ended[h] /\ learned[h]
  /\ fate' = [fate EXCEPT ![h] = "closed"]
  /\ UNCHANGED << written, given, ended, learned >>

Stop(h) ==
  /\ fate[h] = "up"
  /\ fate' = [fate EXCEPT ![h] = "stopped"]
  /\ UNCHANGED << written, given, ended, learned >>

Init ==
  /\ written = [h \in Host |-> << >>]
  /\ given = [h \in Host |-> << >>]
  /\ ended = [h \in Host |-> FALSE]
  /\ learned = [h \in Host |-> FALSE]
  /\ fate = [h \in Host |-> "up"]

Next == \E h \in Host :
  \/ Write(h) \/ Give(h) \/ End(h) \/ Learn(h) \/ Close(h) \/ Stop(h)

Spec == Init /\ [][Next]_vars
=============================================================================
