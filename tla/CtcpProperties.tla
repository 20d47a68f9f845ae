--------------------------- MODULE CtcpProperties ---------------------------
(***************************************************************************)
(* What the endpoint of module Ctcp promises.  The first parts hold; the   *)
(* last part is what comments and tests say and the code does not do.      *)
(***************************************************************************)
EXTENDS Ctcp

TxTypeOK ==
  /\ curr_seqno \in [Host -> Nat]
  /\ tx_in_flight_bytes \in [Host -> Int]
  /\ cwnd \in [Host -> Nat]
  /\ segments \in [Host -> Seq(TransmissionInfo)]
  /\ waiting_segments \in [Host -> Seq(TransmissionInfo)]

RxTypeOK ==
  /\ curr_ackno \in [Host -> Nat]
  /\ rx_next_output_seqno \in [Host -> Nat]
  /\ rx_waiting_bytes \in [Host -> Int]
  /\ received_segments \in [Host -> Seq(Segment)]
  /\ out_queue \in [Host -> Int]
  /\ output \in [Host -> Seq(Nat)]

Status == {"up", "closed", "torn down", "hung", "crashed", "aborted"}

CtlTypeOK ==
  /\ termination_state \in [Host -> {"CONN_ESTABLISHED", "FIN_WAIT_1", "FIN_WAIT_2",
       "CLOSING", "TIME_WAIT", "CLOSE_WAIT", "LAST_ACK", "CLOSED"}]
  /\ time_wait_in_ms \in [Host -> Nat]
  /\ status \in [Host -> Status]

AppTypeOK ==
  /\ read_eof \in [Host -> BOOLEAN]
  /\ input \in [Host -> Seq([seqno : Nat, len : Nat])]

NetTypeOK == net \in [Host -> Seq(Segment)] /\ faults \in Nat

(* The fields of ctcp_state_t hold what their declarations say, the three   *)
(* lists hold segments, and every segment in transit is one.                *)
TypeOK == TxTypeOK /\ RxTypeOK /\ CtlTypeOK /\ AppTypeOK /\ NetTypeOK

-----------------------------------------------------------------------------
(* Data transfer *)

AllOutput(h) == Len(output[Peer(h)]) = Len(input[h])

(* What a host passes to conn_output is what its peer read from STDIN, each *)
(* chunk once and in order, whatever is lost, duplicated, delayed, corrupted *)
(* or retransmitted (ctcp_output and the receive buffer).                    *)
InOrderDelivery == \A h \in Host :
  /\ Len(output[h]) <= Len(input[Peer(h)])
  /\ \A i \in 1..Len(output[h]) : output[h][i] = i

Sent(h) == {segments[h][i].segment : i \in 1..Len(segments[h])}
Waiting(h) == {waiting_segments[h][i].segment : i \in 1..Len(waiting_segments[h])}

Buffered(h, i) == \E s \in Sent(h) \cup Waiting(h) : s.seqno = input[h][i].seqno

(* A chunk leaves the sender's buffers (ll_remove in the ACK loop) only     *)
(* after the peer has output it: an acknowledgement is never early and      *)
(* never for the wrong chunk.                                               *)
AckedWasOutput == \A h \in Host : \A i \in 1..Len(input[h]) :
  Buffered(h, i) \/ i <= Len(output[Peer(h)])

(* send_only_ack asserts that the segment it acknowledges is the one        *)
(* curr_ackno expects; with NDEBUG off a failure would kill the process.    *)
NoAssertFails == \A h \in Host : status[h] # "aborted"

FirstUnsent(h) == IF waiting_segments[h] = << >> THEN curr_seqno[h]
                  ELSE waiting_segments[h][1].segment.seqno

(* tx_in_flight_bytes, which the window test reads and three functions      *)
(* update, is the distance from the oldest unacknowledged byte to the next  *)
(* unsent one.                                                              *)
InFlightAccounting == \A h \in Host :
  IF segments[h] # << >>
  THEN tx_in_flight_bytes[h] = FirstUnsent(h) - segments[h][1].segment.seqno
  ELSE termination_state[h] \in DOMAIN OnEof => tx_in_flight_bytes[h] = 0

BytesIn(list) ==
  LET sum[i \in 0..Len(list)] == IF i = 0 THEN 0 ELSE sum[i - 1] + list[i].len
  IN  sum[Len(list)]

(* rx_waiting_bytes, which guards the receive window, counts exactly the    *)
(* bytes in received_segments, through insertions, refusals and output.     *)
ReceiveAccounting == \A h \in Host : status[h] = "up" =>
  /\ rx_waiting_bytes[h] = BytesIn(received_segments[h])
  /\ rx_waiting_bytes[h] <= RecvWindow

(* The receive buffer holds no segment twice and none that was output: it   *)
(* is strictly ordered by the comparison ll_add_in_order makes, and all of  *)
(* it is still to be acknowledged.  ctcp_output relies on it: it looks only *)
(* at the head, so a stale head would block the connection for ever.  That  *)
(* the comparison is not the one of sequence numbers is another matter      *)
(* (Blocked).                                                               *)
NothingStaleBuffered == \A h \in Host : status[h] = "up" =>
  /\ \A i, j \in 1..Len(received_segments[h]) :
       i < j => NetLess(received_segments[h][i].seqno, received_segments[h][j].seqno)
  /\ \A i \in 1..Len(received_segments[h]) :
       received_segments[h][i].seqno >= rx_next_output_seqno[h]

-----------------------------------------------------------------------------
(* Closing *)

Open == {"CONN_ESTABLISHED", "CLOSE_WAIT"}
FinSent(h) == termination_state[h] \notin Open
FinReceived(h) == curr_ackno[h] > rx_next_output_seqno[h]

(* A FIN is sent only when the peer has output everything, so neither side  *)
(* of a close can cut data off; with the FIN received and sent, an ordered  *)
(* close (ctcp_destroy from LAST_ACK or TIME_WAIT) leaves both streams      *)
(* complete: what ctcp.h asks of ctcp_destroy.                              *)
CloseIsComplete == \A h \in Host :
  /\ FinSent(h) => AllOutput(h)
  /\ FinReceived(h) => AllOutput(Peer(h))
  /\ status[h] = "closed" => FinSent(h) /\ FinReceived(h)

(* The two termination states agree: a host believes its FIN acknowledged   *)
(* (FIN_WAIT_2, TIME_WAIT) only when the peer has it, and is on the passive *)
(* side only when the peer has sent its own.                                *)
TerminationAgrees == \A h \in Host :
  /\ termination_state[h] \in {"FIN_WAIT_2", "TIME_WAIT"} => FinReceived(Peer(h))
  /\ termination_state[h] \in {"CLOSE_WAIT", "LAST_ACK", "CLOSING", "TIME_WAIT"}
       => FinReceived(h) /\ FinSent(Peer(h))
  /\ termination_state[h] \in {"FIN_WAIT_1", "FIN_WAIT_2"} => ~FinReceived(h)

(* send_segment sends and stores the FIN only when the window has room; the *)
(* state moves on regardless.  The FIN is never lost that way: a host in    *)
(* FIN_WAIT_1, CLOSING or LAST_ACK always holds it for retransmission.      *)
(* Afterwards nothing is stored: the first tick of ctcp_timer ends          *)
(* TIME_WAIT, which never waits for a repeated FIN.                         *)
FinStored == \A h \in Host :
  /\ termination_state[h] \in {"FIN_WAIT_1", "CLOSING", "LAST_ACK"} =>
       Len(segments[h]) = 1 /\ segments[h][1].segment.flag = "FIN"
  /\ termination_state[h] \in {"FIN_WAIT_2", "TIME_WAIT"} => segments[h] = << >>

-----------------------------------------------------------------------------
(* One stream, from h to its peer *)

Start(h, k) == IF k = 1 THEN 1 ELSE End(input[h][k - 1])

DataEnd(h) == IF FinSent(h) THEN curr_seqno[h] - 1 ELSE curr_seqno[h]

(* What h read lies in its sequence space without gaps, each chunk after    *)
(* the ones before it, and a FIN after them all.                            *)
InputInv(h) ==
  /\ \A i \in 1..Len(input[h]) : input[h][i].len > 0 /\ input[h][i].seqno = Start(h, i)
  /\ \A i \in 1..Len(input[h]) : 1 <= input[h][i].seqno /\ End(input[h][i]) <= DataEnd(h)
  /\ \A i, j \in 1..Len(input[h]) : i < j => End(input[h][i]) <= input[h][j].seqno
  /\ DataEnd(h) = Start(h, Len(input[h]) + 1)
  /\ FinSent(h) => read_eof[h]

IsChunk(h, s) == /\ s.flag = "ACK" /\ s.data \in 1..Len(input[h])
                 /\ s.seqno = input[h][s.data].seqno /\ s.len = input[h][s.data].len
IsFin(h, s) == s.flag = "FIN" /\ FinSent(h) /\ s.seqno = DataEnd(h) /\ s.len = 1

(* A segment from h, however old, carries what h read, or its FIN, or       *)
(* nothing, and acknowledges no more than h has received.                   *)
Genuine(h, s) == /\ s.ackno <= curr_ackno[h]
                 /\ is_ack(s) \/ IsChunk(h, s) \/ IsFin(h, s)

InTransit(h) == {net[Peer(h)][i] : i \in 1..Len(net[Peer(h)])}
Received(h) == {received_segments[h][i] : i \in 1..Len(received_segments[h])}

SenderInv(h) ==
  /\ \A s \in Sent(h) :
       Genuine(h, s) /\ (IF FinSent(h) THEN IsFin(h, s) ELSE IsChunk(h, s))
  /\ \A s \in Waiting(h) : Genuine(h, s) /\ IsChunk(h, s)
  /\ FinSent(h) => waiting_segments[h] = << >>

TransitInv(h) == \A s \in InTransit(h) : Genuine(h, s)

FinSeen(h) == termination_state[h] \in {"CLOSE_WAIT", "LAST_ACK", "CLOSING", "TIME_WAIT", "CLOSED"}

(* The receiver g of the stream has output a prefix, numbers what comes     *)
(* next accordingly, and buffers chunks only.                               *)
ReceiverInv(g) ==
  /\ \A s \in Received(g) : IsChunk(Peer(g), s)
  /\ Len(output[g]) <= Len(input[Peer(g)])
  /\ \A i \in 1..Len(output[g]) : output[g][i] = i
  /\ rx_next_output_seqno[g] = Start(Peer(g), Len(output[g]) + 1)
  /\ curr_ackno[g] = rx_next_output_seqno[g] + (IF FinSeen(g) THEN 1 ELSE 0)

CloseInv(h) ==
  /\ FinSent(h) => AllOutput(h)
  /\ FinSeen(h) => FinSent(Peer(h))
  /\ termination_state[h] \in {"FIN_WAIT_2", "TIME_WAIT"} => FinSeen(Peer(h))
  /\ status[h] = "closed" => termination_state[h] = "CLOSED"
  /\ status[h] # "aborted"

(* The invariant from which the delivery and the close follow, whatever the *)
(* constants: it ties what a host read to its buffers, the segments on the  *)
(* way and what the other host made of them, and every handler of ctcp.c    *)
(* preserves it.                                                            *)
StreamInvariant ==
  /\ \A h \in Host : InputInv(h) /\ SenderInv(h) /\ TransitInv(h) /\ ReceiverInv(h) /\ CloseInv(h)
  /\ AckedWasOutput

-----------------------------------------------------------------------------
(* Liveness *)

Closed == \A h \in Host : status[h] = "closed"

(* A segment in the buffer comes, in the comparison of ll_add_in_order,     *)
(* before the next one to output: that one is not put at the head, where    *)
(* alone ctcp_output looks, however often it arrives.                       *)
Blocked(h) == \E s \in Received(h) : NetLess(s.seqno, rx_next_output_seqno[h])

(* The three ways a data segment obstructs its receiver: InsertionEnds,     *)
(* OverflowIsDropped and DropIsRecovered below say that there are none.     *)
Obstructed == \E h \in Host : status[h] \in {"hung", "crashed"} \/ Blocked(h)

(* When only data is lost or delayed and STDIN is a file, every connection  *)
(* ends in an ordered close on both sides, unless a receiver is stopped by  *)
(* the data: the EOF that was read while busy is read again after the last  *)
(* ACK (ctcp_read), and no host waits for the other for ever.               *)
AlwaysCloses == <>(Closed \/ Obstructed)

(* When only data is lost or delayed, retransmission heals the hole: what   *)
(* a host read from STDIN is all output by the peer in the end, unless a    *)
(* receiver is obstructed (ctcp_timer's retransmission and ctcp_receive's   *)
(* buffering behind the hole).                                              *)
LostDataIsRecovered == \A h \in Host : []<>(AllOutput(h) \/ Obstructed)

-----------------------------------------------------------------------------
(* What the repository says and the code does not do *)

(* ctcp_linked_list.c: "Adds object into the middle where in-order rule is  *)
(* satisfied".                                                              *)
InsertionEnds == \A h \in Host : status[h] # "hung"

(* ctcp_tests.py: "Drops a segment from client 1 to client 2.  Checks that  *)
(* client 2 eventually gets and outputs a correct segment."                 *)
DropIsRecovered == \A h \in Host : []<>AllOutput(h)

(* ctcp.c: "if this host's receiver buffer overflows, drop packets until    *)
(* receiver buffer is available".                                           *)
OverflowIsDropped == \A h \in Host : status[h] # "crashed"

(* ctcp.h: a connection is torn down when "the other side is unresponsive". *)
TornDownIfUnresponsive == \A h \in Host :
  status[h] = "torn down" => status[Peer(h)] # "up"
=============================================================================
