-------------------------------- MODULE Wire --------------------------------
(***************************************************************************)
(* What happens to a segment between conn_send of one host and             *)
(* ctcp_receive of the other: its checksum (ctcp_utils.c), a flipped bit,  *)
(* the conversion to a TCP datagram and back with relative and absolute    *)
(* sequence numbers, and the filter on arrival (ctcp_sys_internal.c), at   *)
(* the width of every field.  A sender transmits one segment at a time     *)
(* until its ACK comes; loss and order are the subject of module Ctcp, and *)
(* so is the FIN: every segment here has the flags TH_ACK.                 *)
(*                                                                         *)
(* A byte has Bits bits (8 in the code), so that TLC can count past 2^32.  *)
(* Numbers are held by value; the checksum alone is computed in network    *)
(* order and used as it lies in memory, which htons accounts for.          *)
(***************************************************************************)
EXTENDS Integers, Sequences

CONSTANTS
  Bits,
  HeaderSize,         \* sizeof(ctcp_segment_t)
  PseudoHeader,       \* sum of the addresses, ports and constants under a TCP checksum
  TH_ACK,
  InitSeqnos,         \* what rand() may give
  Window,             \* recv_window
  Payloads,           \* what one segment may carry
  MaxBytes,           \* bound: bytes sent
  None

Shifted(n) ==         \* 1 << n
  LET power[i \in 0..n] == IF i = 0 THEN 1 ELSE 2 * power[i - 1]
  IN  power[n]

Byte == Shifted(Bits)
HalfWord == Byte * Byte
Word == HalfWord * HalfWord

ASSUME WireAssumption ==
  /\ Bits \in Nat \ {0} /\ HeaderSize \in 1..(HalfWord - 1) /\ PseudoHeader \in Nat
  /\ TH_ACK \in 0..(Byte - 1) /\ MaxBytes \in Nat
  /\ InitSeqnos \subseteq 0..((Word \div 2) - 1) /\ Window \in 0..(HalfWord - 1)
  /\ Payloads \subseteq Seq(0..(Byte - 1)) \ {<< >>}
  /\ \A d \in Payloads : HeaderSize + Len(d) < HalfWord      \* len is a half word

VARIABLES
  conn,               \* conn[h]: init_seqno and their_init_seqno of host h
  unacked,            \* the sender's segment, or None
  acked,              \* bytes the sender knows received
  taken,              \* bytes the receiver has taken; curr_ackno - 1, not wrapped
  wire                \* the datagram in transit and the segment it was made of, or None

vars == << conn, unacked, acked, taken, wire >>

Host == {"sender", "receiver"}
Peer(h) == IF h = "sender" THEN "receiver" ELSE "sender"

-----------------------------------------------------------------------------
(* Checksums *)

htons(x) == (x % Byte) * Byte + (x \div Byte)

Halves(x) == << x \div HalfWord, x % HalfWord >>

Paired(bytes) ==      \* an odd last byte is the upper half of a half word
  [i \in 1..((Len(bytes) + 1) \div 2) |->
     bytes[2 * i - 1] * Byte + (IF 2 * i <= Len(bytes) THEN bytes[2 * i] ELSE 0)]

Folded[sum \in Nat] ==
  IF sum < HalfWord THEN sum ELSE Folded[(sum \div HalfWord) + (sum % HalfWord)]

Total(words) ==
  LET sum[i \in 0..Len(words)] == IF i = 0 THEN 0 ELSE sum[i - 1] + words[i]
  IN  sum[Len(words)]

cksum(words) ==
  LET sum == HalfWord - 1 - Folded[Total(words)]
  IN  IF sum = 0 THEN HalfWord - 1 ELSE htons(sum)

(* The 32-bit flags lie in memory in the order of the machine.              *)
Header(s) == Halves(s.seqno) \o Halves(s.ackno)
                \o << s.len, TH_ACK * Byte, s.window, htons(s.cksum) >>

SegmentSum(s) == cksum(Header(s) \o Paired(s.data))

cksum_tcp(p) ==
  cksum(Halves(p.th_seq) \o Halves(p.th_ack)
        \o << PseudoHeader, Len(p.data), TH_ACK, p.th_win >> \o Paired(p.data))

is_cksum_valid(s) == s.cksum = SegmentSum([s EXCEPT !.cksum = 0])

-----------------------------------------------------------------------------
(* Segments *)

create_segment(seqno, ackno, data) ==
  LET s == [seqno |-> seqno % Word, ackno |-> ackno % Word, len |-> HeaderSize + Len(data),
            window |-> Window, cksum |-> 0, data |-> data]
  IN  [s EXCEPT !.cksum = SegmentSum(s)]

(* The bytes behind the flags as they lie in memory, which corruption hits. *)
Tail4(s) == << s.window \div Byte, s.window % Byte, s.cksum % Byte, s.cksum \div Byte >> \o s.data

flipbit(s, bit) ==
  LET mask == Shifted(bit % Bits)
      byte == Tail4(s)[(bit \div Bits) + 1]
      flipped == IF (byte \div mask) % 2 = 1 THEN byte - mask ELSE byte + mask
      mem == [Tail4(s) EXCEPT ![(bit \div Bits) + 1] = flipped]
  IN  [s EXCEPT !.window = mem[1] * Byte + mem[2], !.cksum = mem[4] * Byte + mem[3],
                !.data = SubSeq(mem, 5, Len(mem))]

(* All bits but the last one are candidates.                                *)
Corrupted(s) == {flipbit(s, bit) : bit \in 0..((4 + Len(s.data)) * Bits - 2)}

-----------------------------------------------------------------------------
(* Datagrams *)

Absolute(c, s) ==
  [th_seq |-> (s.seqno + c.init_seqno) % Word, th_ack |-> (s.ackno + c.their_init_seqno) % Word,
   th_win |-> s.window, th_sum |-> 0, data |-> s.data]

DatagramOfSum(c, s) ==  \* mutant: the correct sum is taken with the sent one in place
  [Absolute(c, s) EXCEPT
     !.th_sum = (cksum_tcp(Absolute(c, s)) + SegmentSum(s) - s.cksum) % HalfWord]
convert_to_datagram(c, s) ==
  LET correct_sum == SegmentSum([s EXCEPT !.cksum = 0])
  IN  [Absolute(c, s) EXCEPT
         !.th_sum = (cksum_tcp(Absolute(c, s)) + correct_sum - s.cksum) % HalfWord]

Relative(c, p) ==
  [seqno |-> (p.th_seq - c.their_init_seqno) % Word, ackno |-> (p.th_ack - c.init_seqno) % Word,
   len |-> HeaderSize + Len(p.data), window |-> p.th_win,
   cksum |-> 0, data |-> p.data]

OwnSum(c, p) ==       \* mutant: the difference is not carried over
  [Relative(c, p) EXCEPT !.cksum = SegmentSum(Relative(c, p))]
convert_to_ctcp(c, p) ==
  [Relative(c, p) EXCEPT
     !.cksum = (SegmentSum(Relative(c, p)) + cksum_tcp(p) - p.th_sum) % HalfWord]

AnyNumbers(c, p) == TRUE  \* mutant: only address and port are compared
Signed(x) == IF x < Word \div 2 THEN x ELSE x - Word
IsExpectedSigned(c, p) ==  \* mutant: the numbers compared as int
  Signed(p.th_seq) >= c.their_init_seqno /\ Signed(p.th_ack) >= c.init_seqno
IsExpected(c, p) == p.th_seq >= c.their_init_seqno /\ p.th_ack >= c.init_seqno  \* recv_filter

-----------------------------------------------------------------------------
conn_send(from, s) == \E t \in {s} \cup Corrupted(s) :
  wire' = [to |-> Peer(from), sent |-> s, corrupt |-> t # s,
           pkt |-> convert_to_datagram(conn[from], t)]

NewSegment ==         \* ctcp_read
  /\ unacked = None /\ wire = None /\ acked < MaxBytes
  /\ \E data \in Payloads : unacked' = create_segment(acked + 1, 1, data)
  /\ UNCHANGED << conn, acked, taken, wire >>

Transmit ==           \* the pacing timer, or ctcp_timer again
  /\ unacked # None /\ wire = None
  /\ conn_send("sender", unacked)
  /\ UNCHANGED << conn, unacked, acked, taken >>

Arrived == convert_to_ctcp(conn[wire.to], wire.pkt)
Passes == IsExpected(conn[wire.to], wire.pkt) /\ is_cksum_valid(Arrived)

IsNew(s) == (taken + 1) % Word <= s.seqno

Takes ==              \* ctcp_receive and send_only_ack of new data
  /\ wire # None /\ wire.to = "receiver" /\ Passes /\ IsNew(Arrived)
  /\ taken' = taken + Len(Arrived.data)
  /\ conn_send("receiver", create_segment(1, taken' + 1, << >>))
  /\ UNCHANGED << conn, unacked, acked >>

Acknowledges(s) == unacked # None /\ unacked.seqno < s.ackno

Released ==           \* ctcp_receive of the ACK
  /\ wire # None /\ wire.to = "sender" /\ Passes /\ Acknowledges(Arrived)
  /\ acked' = acked + Len(unacked.data) /\ unacked' = None /\ wire' = None
  /\ UNCHANGED << conn, taken >>

Dropped ==            \* by recv_filter, the checksum, or as old
  /\ wire # None /\ (wire.to = "receiver" => ~(Passes /\ IsNew(Arrived)))
  /\ wire.to = "sender" => ~(Passes /\ Acknowledges(Arrived))
  /\ wire' = None
  /\ UNCHANGED << conn, unacked, acked, taken >>

Init ==
  /\ \E mine, theirs \in InitSeqnos :
       conn = [h \in Host |-> IF h = "sender"
                              THEN [init_seqno |-> mine, their_init_seqno |-> theirs]
                              ELSE [init_seqno |-> theirs, their_init_seqno |-> mine]]
  /\ unacked = None /\ acked = 0 /\ taken = 0 /\ wire = None

Next == NewSegment \/ Transmit \/ Takes \/ Released \/ Dropped

Spec == Init /\ [][Next]_vars
=============================================================================
