--------------------------- MODULE WireProperties ---------------------------
(***************************************************************************)
(* What the conversions, the checksum and the filter of module Wire        *)
(* promise.                                                                *)
(***************************************************************************)
EXTENDS Wire

(* convert_to_datagram and convert_to_ctcp cancel out to the bit, on every  *)
(* sequence number, wrapped or not: a segment that nothing corrupted        *)
(* arrives with the fields it was sent with and a checksum that is valid,   *)
(* although both conversions recompute it over different headers.           *)
IntactSurvives ==
  wire # None /\ ~wire.corrupt =>
    /\ is_cksum_valid(Arrived)
    /\ [Arrived EXCEPT !.cksum = 0] = [wire.sent EXCEPT !.cksum = 0]

(* A single flipped bit of the window, the checksum or the data is found by *)
(* ctcp_receive, whichever it is, through the checksum of another protocol. *)
FlipIsRefused == wire # None /\ wire.corrupt => ~is_cksum_valid(Arrived)

LongestPayload == CHOOSE n \in {Len(d) : d \in Payloads} : \A d \in Payloads : Len(d) <= n

(* No byte is taken twice, though ACKs are lost and segments sent again,    *)
(* past any number of bytes: before the 32-bit comparisons of ctcp.c can go *)
(* wrong, the comparison of recv_filter has gone wrong and lets nothing     *)
(* pass.  It needs an initial number that is not nearly zero.               *)
TakenOnce ==
  conn["receiver"].their_init_seqno >= LongestPayload =>
    taken \in {acked} \cup (IF unacked = None THEN {} ELSE {acked + Len(unacked.data)})

(* As long as the absolute numbers have not wrapped, recv_filter lets every *)
(* segment pass, of both directions: a connection carries all but the last  *)
(* few of the bytes between its initial number and 2^32.                    *)
PassesUntilWrap ==
  wire # None /\ conn["sender"].init_seqno + taken + 1 < Word =>
    IsExpected(conn[wire.to], wire.pkt)
=============================================================================
