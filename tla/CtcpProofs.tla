----------------------------- MODULE CtcpProofs -----------------------------
(***************************************************************************)
(* Proofs about the endpoint of module Ctcp, for every value of its        *)
(* constants: its types; and what the proof that StreamInvariant is        *)
(* inductive rests on, which is what a step leaves alone, and the steps    *)
(* that reach the streams only through the segments in transit.            *)
(***************************************************************************)
EXTENDS CtcpProperties, SequenceTheorems, FiniteSetTheorems, ProofLemmas

-----------------------------------------------------------------------------
(* Types of the operators *)

(* A function on an initial segment of the integers is a sequence.          *)
LEMMA FunctionIsSeq ==
  ASSUME NEW S, NEW n \in Nat, NEW f \in [1..n -> S]
  PROVE  f \in Seq(S) /\ Len(f) = n
<1>1. f \in Seq(S)
  BY SeqDef, Zenon
<1>2. DOMAIN f = 1..n /\ DOMAIN f = 1..Len(f) /\ Len(f) \in Nat
  BY <1>1, LenProperties
<1> QED
  BY <1>1, <1>2

(* The peer of a host is the other host.                                    *)
LEMMA PeerType == \A h \in Host : Peer(h) \in Host /\ Peer(h) # h /\ Peer(Peer(h)) = h
  BY HostsDiffer DEF Host, Peer

(* What the code builds from a typed state is a segment, or a segment with  *)
(* its transmission record.                                                 *)
LEMMA SegmentTypes ==
  ASSUME TypeOK, NEW h \in Host
  PROVE  /\ \A n \in Nat : AckSegment(h, n) \in Segment
         /\ \A n, d \in Nat, f \in {"ACK", "FIN"} :
              create_segment(h, f, n, d) \in TransmissionInfo
         /\ \A t \in TransmissionInfo :
              Stamped(h, t) \in TransmissionInfo /\ Aged(h, t) \in TransmissionInfo
         /\ \A s \in Segment : End(s) \in Nat
<1>1. curr_seqno[h] \in Nat /\ curr_ackno[h] \in Nat
  BY DEF TypeOK, TxTypeOK, RxTypeOK, CtlTypeOK, AppTypeOK, NetTypeOK
<1>2. \A n \in Nat : AckSegment(h, n) \in Segment
  BY <1>1 DEF AckSegment, Segment
<1>3. \A n, d \in Nat, f \in {"ACK", "FIN"} : create_segment(h, f, n, d) \in TransmissionInfo
  BY <1>1 DEF create_segment, TransmissionInfo, Segment
<1>4. ASSUME NEW t \in TransmissionInfo
      PROVE  Stamped(h, t) \in TransmissionInfo
  <2>1. [t.segment EXCEPT !.ackno = curr_ackno[h]] \in Segment
    BY <1>1 DEF TransmissionInfo, Segment
  <2>2. t.num_of_transmission + 1 \in Nat
    BY DEF TransmissionInfo
  <2> QED
    BY <2>1, <2>2 DEF Stamped, TransmissionInfo
<1>5. ASSUME NEW t \in TransmissionInfo
      PROVE  Aged(h, t) \in TransmissionInfo
  <2>1. Elapsed(t) \in Nat
    BY TimesAssumption DEF Elapsed, TransmissionInfo
  <2>2. Stamped(h, t) \in TransmissionInfo
    BY <1>4
  <2> QED
    BY <2>1, <2>2 DEF Aged, TransmissionInfo
<1>6. \A s \in Segment : End(s) \in Nat
  BY DEF End, Segment
<1> QED
  BY <1>2, <1>3, <1>4, <1>5, <1>6

(* Segments in transit keep their type when one is received and others are  *)
(* sent.                                                                    *)
LEMMA TransitType ==
  ASSUME NEW h \in Host, net \in [Host -> Seq(Segment)], net[h] # << >>
  PROVE  /\ Head(net[h]) \in Segment
         /\ Transit(h) \in [Host -> Seq(Segment)]
<1>1. Head(net[h]) \in Segment /\ Tail(net[h]) \in Seq(Segment)
  BY HeadTailProperties
<1> QED
  BY <1>1 DEF Transit

(* Sending adds segments to those in transit.                               *)
LEMMA SendType ==
  ASSUME NEW h \in Host, NEW t \in [Host -> Seq(Segment)], NEW sent \in Seq(Segment)
  PROVE  [t EXCEPT ![Peer(h)] = @ \o sent] \in [Host -> Seq(Segment)]
<1>1. Peer(h) \in Host
  BY PeerType
<1>2. t[Peer(h)] \o sent \in Seq(Segment)
  BY <1>1, ConcatProperties
<1> QED
  BY <1>1, <1>2

(* ctcp_output leaves the receiver's state and the network well typed.      *)
LEMMA OutputType ==
  ASSUME TypeOK, NEW h \in Host, NEW rcvd \in Seq(Segment), NEW waiting \in Int,
         NEW queued \in Int, NEW transit \in [Host -> Seq(Segment)],
         ctcp_output(h, rcvd, waiting, queued, transit)
  PROVE  /\ rx_next_output_seqno' \in [Host -> Nat]
         /\ rx_waiting_bytes' \in [Host -> Int]
         /\ received_segments' \in [Host -> Seq(Segment)]
         /\ out_queue' \in [Host -> Int]
         /\ output' \in [Host -> Seq(Nat)]
         /\ curr_ackno' \in [Host -> Nat]
         /\ status' \in [Host -> Status]
         /\ net' \in [Host -> Seq(Segment)]
<1> DEFINE nextOf(n) == IF n = 0 THEN rx_next_output_seqno[h] ELSE End(rcvd[n])
           bytesOf(n) == nextOf(n) - rx_next_output_seqno[h]
           Effect(n, taken) ==
             /\ rx_next_output_seqno' = [rx_next_output_seqno EXCEPT ![h] = nextOf(n)]
             /\ rx_waiting_bytes' = [rx_waiting_bytes EXCEPT ![h] = waiting - bytesOf(n)]
             /\ received_segments' = [received_segments EXCEPT ![h] = SubSeq(rcvd, n + 1, Len(rcvd))]
             /\ out_queue' = [out_queue EXCEPT ![h] = queued + bytesOf(n) - taken]
             /\ output' = [output EXCEPT ![h] = @ \o [i \in 1..n |-> rcvd[i].data]]
             /\ curr_ackno' = [curr_ackno EXCEPT ![h] = IF n = 0 THEN @ ELSE nextOf(n)]
             /\ status' = [status EXCEPT ![h] =
                   IF n > 0 /\ curr_ackno[h] # rcvd[1].seqno THEN "aborted" ELSE @]
             /\ net' = [transit EXCEPT ![Peer(h)] =
                   @ \o [i \in 1..n |-> AckSegment(h, End(rcvd[i]))]]
<1>1. PICK n \in 0..Len(rcvd) : \E taken \in TakenAtOnce(n, bytesOf(n), queued) : Effect(n, taken)
  BY DEF ctcp_output
<1>2. PICK taken \in TakenAtOnce(n, bytesOf(n), queued) : Effect(n, taken)
  BY <1>1
<1>3. /\ Len(rcvd) \in Nat /\ n \in Nat
      /\ \A i \in 1..Len(rcvd) : rcvd[i] \in Segment
      /\ \A s \in Segment : End(s) \in Nat
  BY LenProperties, ElementOfSeq, SegmentTypes
<1>4. \A i \in 1..n : rcvd[i] \in Segment
  BY <1>3
<1>5. nextOf(n) \in Nat /\ bytesOf(n) \in Int
  <2>1. rx_next_output_seqno[h] \in Nat
    BY DEF TypeOK, TxTypeOK, RxTypeOK, CtlTypeOK, AppTypeOK, NetTypeOK
  <2>2. n # 0 => rcvd[n] \in Segment
    BY <1>3, <1>4
  <2> QED
    BY <1>3, <2>1, <2>2
<1>6. taken \in Int
  BY <1>2, <1>5 DEF TakenAtOnce
<1> HIDE DEF nextOf, bytesOf
<1>7. rx_next_output_seqno' \in [Host -> Nat] /\ rx_waiting_bytes' \in [Host -> Int]
      /\ curr_ackno' \in [Host -> Nat] /\ out_queue' \in [Host -> Int]
  <2>1. waiting - bytesOf(n) \in Int /\ queued + bytesOf(n) - taken \in Int
    BY <1>5, <1>6
  <2>5. (IF n = 0 THEN curr_ackno[h] ELSE nextOf(n)) \in Nat
    BY <1>5 DEF TypeOK, TxTypeOK, RxTypeOK, CtlTypeOK, AppTypeOK, NetTypeOK
  <2>2. rx_next_output_seqno' \in [Host -> Nat] /\ rx_waiting_bytes' \in [Host -> Int]
    BY <1>2, <1>5, <2>1 DEF TypeOK, TxTypeOK, RxTypeOK, CtlTypeOK, AppTypeOK, NetTypeOK
  <2>3. curr_ackno' \in [Host -> Nat]
    BY <1>2, <2>5 DEF TypeOK, TxTypeOK, RxTypeOK, CtlTypeOK, AppTypeOK, NetTypeOK
  <2>4. out_queue' \in [Host -> Int]
    BY <1>2, <2>1 DEF TypeOK, TxTypeOK, RxTypeOK, CtlTypeOK, AppTypeOK, NetTypeOK
  <2> QED
    BY <2>2, <2>3, <2>4
<1>8. received_segments' \in [Host -> Seq(Segment)]
  <2>1. \A i \in (n + 1)..Len(rcvd) : rcvd[i] \in Segment
    BY <1>3
  <2>2. SubSeq(rcvd, n + 1, Len(rcvd)) \in Seq(Segment)
    BY <1>3, <2>1, SubSeqProperties
  <2> QED
    BY <1>2, <2>2 DEF TypeOK, TxTypeOK, RxTypeOK, CtlTypeOK, AppTypeOK, NetTypeOK
<1>9. output' \in [Host -> Seq(Nat)]
  <2>1. \A i \in 1..n : rcvd[i].data \in Nat
    BY <1>4 DEF Segment
  <2>2. [i \in 1..n |-> rcvd[i].data] \in [1..n -> Nat]
    BY <2>1
  <2>3. [i \in 1..n |-> rcvd[i].data] \in Seq(Nat)
    BY <1>3, <2>2, FunctionIsSeq
  <2>4. output[h] \o [i \in 1..n |-> rcvd[i].data] \in Seq(Nat)
    BY <2>3, ConcatProperties DEF TypeOK, TxTypeOK, RxTypeOK, CtlTypeOK, AppTypeOK, NetTypeOK
  <2> QED
    BY <1>2, <2>4 DEF TypeOK, TxTypeOK, RxTypeOK, CtlTypeOK, AppTypeOK, NetTypeOK
<1>10. status' \in [Host -> Status]
  BY <1>2 DEF Status, TypeOK, TxTypeOK, RxTypeOK, CtlTypeOK, AppTypeOK, NetTypeOK
<1>11. net' \in [Host -> Seq(Segment)]
  <2>1. \A i \in 1..n : AckSegment(h, End(rcvd[i])) \in Segment
    BY <1>3, <1>4, SegmentTypes
  <2>2. [i \in 1..n |-> AckSegment(h, End(rcvd[i]))] \in Seq(Segment)
    BY <1>3, <2>1
  <2>3. [transit EXCEPT ![Peer(h)] = @ \o [i \in 1..n |-> AckSegment(h, End(rcvd[i]))]]
          \in [Host -> Seq(Segment)]
    BY <2>2, SendType
  <2> QED
    BY <1>2, <2>3
<1> QED
  BY <1>7, <1>8, <1>9, <1>10, <1>11

-----------------------------------------------------------------------------
(* Type correctness *)

(* The variables a handler leaves alone keep their types.                   *)
LEMMA UnchangedTypes ==
  /\ TxTypeOK /\ UNCHANGED txVars => TxTypeOK'
  /\ RxTypeOK /\ UNCHANGED rxVars => RxTypeOK'
  /\ CtlTypeOK /\ UNCHANGED ctlVars => CtlTypeOK'
  /\ AppTypeOK /\ UNCHANGED appVars => AppTypeOK'
  /\ NetTypeOK /\ UNCHANGED netVars => NetTypeOK'
<1>1. TxTypeOK /\ UNCHANGED txVars => TxTypeOK'
  BY DEF TxTypeOK, txVars
<1>2. RxTypeOK /\ UNCHANGED rxVars => RxTypeOK'
  BY DEF RxTypeOK, rxVars
<1>3. CtlTypeOK /\ UNCHANGED ctlVars => CtlTypeOK'
  BY DEF CtlTypeOK, ctlVars
<1>4. AppTypeOK /\ UNCHANGED appVars => AppTypeOK'
  BY DEF AppTypeOK, appVars
<1>5. NetTypeOK /\ UNCHANGED netVars => NetTypeOK'
  BY DEF NetTypeOK, netVars
<1> QED
  BY <1>1, <1>2, <1>3, <1>4, <1>5

(* ctcp_init leaves every field typed.                                      *)
LEMMA InitType == Init => TypeOK
<1> SUFFICES ASSUME Init PROVE TypeOK
  OBVIOUS
<1>1. TxTypeOK
  BY SizesAssumption, EmptySeq DEF Init, TxTypeOK
<1>2. RxTypeOK
  BY EmptySeq DEF Init, RxTypeOK
<1>3. CtlTypeOK
  BY DEF Init, CtlTypeOK, Status
<1>4. AppTypeOK
  BY EmptySeq DEF Init, AppTypeOK
<1>5. NetTypeOK
  BY EmptySeq DEF Init, NetTypeOK
<1> QED
  BY <1>1, <1>2, <1>3, <1>4, <1>5 DEF TypeOK

(* Reading from STDIN and sending new segments.                             *)
LEMMA SenderType ==
  ASSUME TypeOK, NEW h \in Host,
         ReadData(h) \/ ReadEofBusy(h) \/ ReadEofCloses(h) \/ PacingTimer(h)
  PROVE  TypeOK'
<1> USE DEF TypeOK
<1>1. CASE ReadData(h)
  <2>1. PICK len \in ChunkSizes :
          /\ waiting_segments' = [waiting_segments EXCEPT ![h] =
               Append(@, create_segment(h, "ACK", len, Len(input[h]) + 1))]
          /\ curr_seqno' = [curr_seqno EXCEPT ![h] = @ + len]
          /\ input' = [input EXCEPT ![h] =
               Append(@, [seqno |-> curr_seqno[h], len |-> len])]
    BY <1>1 DEF ReadData
  <2>2. len \in Nat /\ Len(input[h]) + 1 \in Nat
    BY <2>1, SizesAssumption, LenProperties DEF AppTypeOK
  <2>3. create_segment(h, "ACK", len, Len(input[h]) + 1) \in TransmissionInfo
    BY <2>2, SegmentTypes
  <2>4. TxTypeOK'
    <3>1. waiting_segments' \in [Host -> Seq(TransmissionInfo)]
      BY <2>1, <2>3, AppendProperties DEF TxTypeOK
    <3>2. curr_seqno' \in [Host -> Nat]
      BY <2>1, <2>2 DEF TxTypeOK
    <3> QED
      BY <1>1, <3>1, <3>2 DEF ReadData, TxTypeOK
  <2>5. AppTypeOK'
    <3>1. [seqno |-> curr_seqno[h], len |-> len] \in [seqno : Nat, len : Nat]
      BY <2>2 DEF TxTypeOK
    <3>2. input' \in [Host -> Seq([seqno : Nat, len : Nat])]
      BY <2>1, <3>1, AppendProperties DEF AppTypeOK
    <3> QED
      BY <1>1, <3>2 DEF ReadData, AppTypeOK
  <2> QED
    BY <1>1, <2>4, <2>5, UnchangedTypes DEF ReadData
<1>2. CASE ReadEofBusy(h)
  <2>1. AppTypeOK'
    BY <1>2 DEF ReadEofBusy, AppTypeOK
  <2> QED
    BY <1>2, <2>1, UnchangedTypes DEF ReadEofBusy
<1>3. CASE ReadEofCloses(h)
  <2> DEFINE fin == Stamped(h, create_segment(h, "FIN", 1, 0))
  <2>1. fin \in TransmissionInfo /\ fin.segment \in Segment
    BY SegmentTypes DEF TransmissionInfo
  <2>2. << fin.segment >> \in Seq(Segment)
    BY <2>1
  <2> HIDE DEF fin
  <2>3. \/ /\ tx_in_flight_bytes' = [tx_in_flight_bytes EXCEPT ![h] = @ + 1]
           /\ segments' = [segments EXCEPT ![h] = Append(@, fin)]
           /\ Send(h, << fin.segment >>)
        \/ UNCHANGED << tx_in_flight_bytes, segments, net >>
    BY <1>3 DEF ReadEofCloses, fin
  <2>4. TxTypeOK'
    <3>1. tx_in_flight_bytes' \in [Host -> Int]
      BY <2>3 DEF TxTypeOK
    <3> Append(segments[h], fin) \in Seq(TransmissionInfo)
      BY <2>1, AppendProperties DEF TxTypeOK
    <3>2. segments' \in [Host -> Seq(TransmissionInfo)]
      BY <2>3 DEF TxTypeOK
    <3>3. curr_seqno' \in [Host -> Nat]
      BY <1>3 DEF ReadEofCloses, TxTypeOK
    <3> QED
      BY <1>3, <3>1, <3>2, <3>3 DEF ReadEofCloses, TxTypeOK
  <2>5. CtlTypeOK'
    BY <1>3 DEF ReadEofCloses, MayClose, OnEof, CtlTypeOK
  <2>6. AppTypeOK'
    BY <1>3 DEF ReadEofCloses, AppTypeOK
  <2>7. NetTypeOK'
    <3> [net EXCEPT ![Peer(h)] = @ \o << fin.segment >>] \in [Host -> Seq(Segment)]
      BY <2>2, SendType DEF NetTypeOK
    <3>1. net' \in [Host -> Seq(Segment)]
      BY <2>3 DEF Send, NetTypeOK
    <3> QED
      BY <1>3, <3>1 DEF ReadEofCloses, NetTypeOK
  <2> QED
    BY <1>3, <2>4, <2>5, <2>6, <2>7, UnchangedTypes DEF ReadEofCloses
<1>4. CASE PacingTimer(h)
  <2> DEFINE t == Stamped(h, Head(waiting_segments[h]))
  <2>1. /\ Head(waiting_segments[h]) \in TransmissionInfo
        /\ Tail(waiting_segments[h]) \in Seq(TransmissionInfo)
    BY <1>4, HeadTailProperties DEF PacingTimer, TxTypeOK
  <2>2. t \in TransmissionInfo /\ t.segment \in Segment /\ t.segment.len \in Nat
    BY <2>1, SegmentTypes DEF TransmissionInfo, Segment
  <2>3. << t.segment >> \in Seq(Segment)
    BY <2>2
  <2> HIDE DEF t
  <2>4. /\ tx_in_flight_bytes' = [tx_in_flight_bytes EXCEPT ![h] = @ + t.segment.len]
        /\ segments' = [segments EXCEPT ![h] = Append(@, t)]
        /\ Send(h, << t.segment >>)
        /\ waiting_segments' = [waiting_segments EXCEPT ![h] = Tail(@)]
    BY <1>4 DEF PacingTimer, t
  <2>5. TxTypeOK'
    <3>1. tx_in_flight_bytes' \in [Host -> Int]
      BY <2>2, <2>4 DEF TxTypeOK
    <3>2. segments' \in [Host -> Seq(TransmissionInfo)]
      BY <2>2, <2>4, AppendProperties DEF TxTypeOK
    <3>3. waiting_segments' \in [Host -> Seq(TransmissionInfo)]
      BY <2>1, <2>4 DEF TxTypeOK
    <3> QED
      BY <1>4, <3>1, <3>2, <3>3 DEF PacingTimer, TxTypeOK
  <2>6. NetTypeOK'
    <3>1. net' \in [Host -> Seq(Segment)]
      BY <2>3, <2>4, SendType DEF Send, NetTypeOK
    <3> QED
      BY <1>4, <3>1 DEF PacingTimer, NetTypeOK
  <2> QED
    BY <1>4, <2>5, <2>6, UnchangedTypes DEF PacingTimer
<1> QED
  BY <1>1, <1>2, <1>3, <1>4

(* Receiving and output.                                                    *)
LEMMA OutputStepType ==
  ASSUME TypeOK, NEW h \in Host, NEW rcvd \in Seq(Segment), NEW waiting \in Int,
         NEW queued \in Int, NEW transit \in [Host -> Seq(Segment)],
         ctcp_output(h, rcvd, waiting, queued, transit),
         UNCHANGED << txVars, termination_state, time_wait_in_ms, appVars, faults >>
  PROVE  TypeOK'
<1>1. RxTypeOK'
  BY OutputType DEF RxTypeOK
<1>2. CtlTypeOK'
  BY OutputType DEF CtlTypeOK, TypeOK
<1>3. NetTypeOK'
  BY OutputType DEF NetTypeOK, TypeOK
<1> QED
  BY <1>1, <1>2, <1>3, UnchangedTypes DEF TypeOK

(* conn_drain and ctcp_output keep the types.                               *)
LEMMA DrainType == ASSUME TypeOK, NEW h \in Host, Drain(h) PROVE TypeOK'
<1>1. PICK w \in 1..out_queue[h] :
        ctcp_output(h, received_segments[h], rx_waiting_bytes[h], out_queue[h] - w, net)
  BY DEF Drain
<1>2. /\ received_segments[h] \in Seq(Segment) /\ rx_waiting_bytes[h] \in Int
      /\ out_queue[h] - w \in Int /\ net \in [Host -> Seq(Segment)]
  BY DEF TypeOK, RxTypeOK, NetTypeOK
<1> QED
  BY <1>1, <1>2, OutputStepType DEF Drain

(* Where a segment goes in the receive buffer, the buffer stays one.        *)
LEMMA AddInOrderType ==
  ASSUME NEW list \in Seq(Segment), NEW seg \in Segment
  PROVE  AddInOrder(list, seg) \in Seq(Segment)
<1>1. << seg >> \o list \in Seq(Segment)
  BY ConcatProperties
<1>2. Append(list, seg) \in Seq(Segment)
  BY AppendProperties
<1> QED
  BY <1>1, <1>2 DEF AddInOrder

(* ll_remove_acked_segments leaves a list of transmissions.                 *)
LEMMA RemoveAckedType ==
  ASSUME NEW list \in Seq(TransmissionInfo), NEW ackno
  PROVE  RemoveAcked(list, ackno) \in Seq(TransmissionInfo)
  BY HeadTailProperties DEF RemoveAcked, HeadAcked

(* Every way through ctcp_receive keeps the types.                          *)
LEMMA ReceiveType == ASSUME TypeOK, NEW h \in Host, Receive(h) PROVE TypeOK'
<1> USE DEF TypeOK
<1> DEFINE s == Head(net[h])
<1>1. net[h] # << >>
  BY DEF Receive, ReceiveCorrupt, ReceiveFin, ReceiveFinAck, ReceiveAck, ReceiveData,
         ReceiveOldData, ReceiveHangs, ReceiveOverflows, NewData, Ordinary, Arrives
<1>2. s \in Segment /\ s.seqno \in Nat /\ s.len \in Nat /\ End(s) \in Nat
      /\ Transit(h) \in [Host -> Seq(Segment)]
  BY <1>1, TransitType, SegmentTypes DEF NetTypeOK, Segment
<1>3. net' = Transit(h) /\ UNCHANGED faults => NetTypeOK'
  BY <1>2 DEF NetTypeOK
<1>4. CASE ReceiveCorrupt(h)
  BY <1>3, <1>4, UnchangedTypes DEF ReceiveCorrupt
<1>5. CASE ReceiveFin(h)
  <2>1. RxTypeOK'
    BY <1>2, <1>5 DEF ReceiveFin, RxTypeOK
  <2>2. CtlTypeOK'
    <3>1. termination_state[h] \in DOMAIN OnFin
      BY <1>5 DEF ReceiveFin, FinExpected
    <3>2. OnFin[termination_state[h]] \in {"CLOSE_WAIT", "CLOSING", "TIME_WAIT"}
      BY <3>1 DEF OnFin
    <3>3. status' \in [Host -> Status]
      BY <1>5 DEF ReceiveFin, CtlTypeOK, Status
    <3> QED
      BY <1>5, <3>2, <3>3 DEF ReceiveFin, CtlTypeOK
  <2>3. NetTypeOK'
    <3>1. AckSegment(h, End(s)) \in Segment /\ << AckSegment(h, End(s)) >> \in Seq(Segment)
      BY <1>2, SegmentTypes
    <3>2. Peer(h) \in Host /\ Transit(h)[Peer(h)] \in Seq(Segment)
      BY <1>2, PeerType
    <3>3. Append(Transit(h)[Peer(h)], AckSegment(h, End(s))) \in Seq(Segment)
      BY <3>1, <3>2, AppendProperties
    <3>4. net' = [Transit(h) EXCEPT ![Peer(h)] = Append(@, AckSegment(h, End(s)))]
      BY <1>5 DEF ReceiveFin
    <3> QED
      BY <1>2, <1>5, <3>2, <3>3, <3>4 DEF ReceiveFin, NetTypeOK
  <2> QED
    BY <1>5, <2>1, <2>2, <2>3, UnchangedTypes DEF ReceiveFin
<1>6. CASE ReceiveFinAck(h)
  <2>1. TxTypeOK'
    BY <1>6, RemoveAckedType DEF ReceiveFinAck, TxTypeOK
  <2>2. CtlTypeOK'
    <3>1. termination_state[h] \in DOMAIN OnFinAcked
      BY <1>6 DEF ReceiveFinAck, FinAcked
    <3>2. OnFinAcked[termination_state[h]] \in {"FIN_WAIT_2", "TIME_WAIT", "CLOSED"}
      BY <3>1 DEF OnFinAcked
    <3>3. status' \in [Host -> Status]
      BY <1>6 DEF ReceiveFinAck, CtlTypeOK, Status
    <3> QED
      BY <1>6, <3>2, <3>3 DEF ReceiveFinAck, CtlTypeOK
  <2> QED
    BY <1>3, <1>6, <2>1, <2>2, UnchangedTypes DEF ReceiveFinAck
<1>7. CASE ReceiveAck(h)
  <2>1. TxTypeOK'
    <3>1. cwnd' \in [Host -> Nat]
      BY <1>7, SizesAssumption DEF ReceiveAck, TxTypeOK
    <3> DEFINE rest == RemoveAcked(segments[h], s.ackno)
    <3>4. rest \in Seq(TransmissionInfo)
      BY RemoveAckedType DEF TxTypeOK
    <3>5. segments' = [segments EXCEPT ![h] = rest] \/ segments' = segments
      BY <1>7 DEF ReceiveAck
    <3> HIDE DEF rest
    <3>2. segments' \in [Host -> Seq(TransmissionInfo)]
      BY <3>4, <3>5 DEF TxTypeOK
    <3>3. tx_in_flight_bytes' \in [Host -> Int]
      <4>1. HeadAcked(segments[h], s.ackno) => segments[h][1] \in TransmissionInfo
        BY LenProperties, ElementOfSeq, EmptySeq DEF HeadAcked, TxTypeOK
      <4>2. HeadAcked(segments[h], s.ackno) => segments[h][1].segment.len \in Nat
        BY <4>1 DEF TransmissionInfo, Segment
      <4> QED
        BY <1>7, <4>2 DEF ReceiveAck, TxTypeOK
    <3> QED
      BY <1>7, <3>1, <3>2, <3>3 DEF ReceiveAck, TxTypeOK
  <2> QED
    BY <1>3, <1>7, <2>1, UnchangedTypes DEF ReceiveAck
<1>8. CASE ReceiveData(h)
  <2>1. AddInOrder(received_segments[h], s) \in Seq(Segment)
    BY <1>2, AddInOrderType DEF RxTypeOK
  <2>2. WaitingWith(h) \in Int /\ out_queue[h] \in Int
    BY <1>2 DEF WaitingWith, RxTypeOK
  <2> QED
    BY <1>2, <1>8, <2>1, <2>2, OutputStepType DEF ReceiveData
<1>9. CASE ReceiveOldData(h)
  <2>1. /\ received_segments[h] \in Seq(Segment) /\ rx_waiting_bytes[h] \in Int
        /\ out_queue[h] \in Int
    BY DEF RxTypeOK
  <2> QED
    BY <1>2, <1>9, <2>1, OutputStepType DEF ReceiveOldData
<1>10. ASSUME NEW how \in {"hung", "crashed"}, ReceiverStops(h, how)
       PROVE  TypeOK'
  <2>1. CtlTypeOK'
    BY <1>10 DEF ReceiverStops, CtlTypeOK, Status
  <2> QED
    BY <1>3, <1>10, <2>1, UnchangedTypes DEF ReceiverStops
<1>11. CASE ReceiveHangs(h) \/ ReceiveOverflows(h)
  BY <1>10, <1>11 DEF ReceiveHangs, ReceiveOverflows
<1> QED
  BY <1>4, <1>5, <1>6, <1>7, <1>8, <1>9, <1>11 DEF Receive

(* A stopped process changes nothing but what is in transit.                *)
LEMMA AbsorbType == ASSUME TypeOK, NEW h \in Host, Absorb(h) PROVE TypeOK'
<1>1. NetTypeOK'
  BY TransitType DEF Absorb, TypeOK, NetTypeOK
<1> QED
  BY <1>1, UnchangedTypes DEF Absorb, TypeOK

(* What a timer retransmits are segments, sent to the peer.                 *)
LEMMA RetransmitType ==
  ASSUME TypeOK, NEW h \in Host, NEW I \in SUBSET (DOMAIN segments[h]), Retransmit(h, I)
  PROVE  net' \in [Host -> Seq(Segment)]
<1> DEFINE n == Cardinality(I)
<1>1. segments[h] \in Seq(TransmissionInfo) /\ DOMAIN segments[h] = 1..Len(segments[h])
      /\ Len(segments[h]) \in Nat
  BY LenProperties DEF TypeOK, TxTypeOK
<1>2. n \in Nat
  <2>1. IsFiniteSet(DOMAIN segments[h])
    BY <1>1, FS_Interval
  <2>2. IsFiniteSet(I)
    BY <2>1, FS_Subset
  <2> QED
    BY <2>2, FS_CardinalityType
<1> HIDE DEF n
<1>3. PICK f \in [1..n -> I] :
        Send(h, [i \in DOMAIN f |-> Stamped(h, segments[h][f[i]]).segment])
  BY DEF Retransmit, InOrder, n
<1>4. \A i \in 1..n : Stamped(h, segments[h][f[i]]).segment \in Segment
  <2> SUFFICES ASSUME NEW i \in 1..n
               PROVE  Stamped(h, segments[h][f[i]]).segment \in Segment
    OBVIOUS
  <2>1. segments[h][f[i]] \in TransmissionInfo
    BY <1>1, ElementOfSeq
  <2>2. Stamped(h, segments[h][f[i]]) \in TransmissionInfo
    BY <2>1, SegmentTypes
  <2> QED
    BY <2>2 DEF TransmissionInfo
<1> DEFINE sent == [i \in 1..n |-> Stamped(h, segments[h][f[i]]).segment]
<1>5. sent \in [1..n -> Segment]
  BY <1>4
<1>6. Send(h, sent)
  BY <1>3
<1> HIDE DEF sent
<1>7. sent \in Seq(Segment)
  BY <1>2, <1>5, FunctionIsSeq
<1> QED
  BY <1>6, <1>7, SendType DEF Send, TypeOK, NetTypeOK

(* ctcp_timer keeps the types.                                              *)
LEMMA TimerType == ASSUME TypeOK, NEW h \in Host, ctcp_timer(h) PROVE TypeOK'
<1> USE DEF TypeOK
<1>1. CASE TimerCloses(h)
  <2>1. CtlTypeOK'
    <3>1. time_wait_in_ms' \in [Host -> Nat]
      BY <1>1, TimesAssumption DEF TimerCloses, CtlTypeOK
    <3>2. status' \in [Host -> Status]
      BY <1>1 DEF TimerCloses, CtlTypeOK, Status
    <3> QED
      BY <1>1, <3>1, <3>2 DEF TimerCloses, CtlTypeOK
  <2> QED
    BY <1>1, <2>1, UnchangedTypes DEF TimerCloses
<1>2. CASE TimerWaits(h)
  <2>1. CtlTypeOK'
    BY <1>2, TimesAssumption DEF TimerWaits, CtlTypeOK
  <2> QED
    BY <1>2, <2>1, UnchangedTypes DEF TimerWaits
<1>3. CASE TimerRetransmits(h)
  <2>1. NetTypeOK'
    BY <1>3, RetransmitType DEF TimerRetransmits, NetTypeOK
  <2>2. TxTypeOK'
    <3>1. /\ segments[h] \in Seq(TransmissionInfo) /\ Len(segments[h]) \in Nat
          /\ DOMAIN segments[h] = 1..Len(segments[h])
      BY LenProperties DEF TxTypeOK
    <3> DEFINE aged == [i \in DOMAIN segments[h] |-> Aged(h, segments[h][i])]
    <3>2. \A i \in 1..Len(segments[h]) : Aged(h, segments[h][i]) \in TransmissionInfo
      BY <3>1, ElementOfSeq, SegmentTypes
    <3>3. aged \in [1..Len(segments[h]) -> TransmissionInfo]
      BY <3>1, <3>2
    <3>4. segments' = [segments EXCEPT ![h] = aged]
      BY <1>3 DEF TimerRetransmits
    <3> HIDE DEF aged
    <3>5. aged \in Seq(TransmissionInfo)
      BY <3>1, <3>3, FunctionIsSeq
    <3>6. segments' \in [Host -> Seq(TransmissionInfo)]
      BY <3>4, <3>5 DEF TxTypeOK
    <3> QED
      BY <1>3, <3>6 DEF TimerRetransmits, TxTypeOK
  <2> QED
    BY <1>3, <2>1, <2>2, UnchangedTypes DEF TimerRetransmits
<1>4. CASE TimerTearsDown(h)
  <2>1. PICK k \in DOMAIN segments[h] : Retransmit(h, {i \in 1..(k - 1) : Due(segments[h][i])})
    BY <1>4 DEF TimerTearsDown
  <2>2. {i \in 1..(k - 1) : Due(segments[h][i])} \subseteq DOMAIN segments[h]
    <3>1. DOMAIN segments[h] = 1..Len(segments[h]) /\ Len(segments[h]) \in Nat
      BY LenProperties DEF TxTypeOK
    <3> QED
      BY <3>1
  <2>3. NetTypeOK'
    BY <1>4, <2>1, <2>2, RetransmitType DEF TimerTearsDown, NetTypeOK
  <2>4. CtlTypeOK'
    BY <1>4 DEF TimerTearsDown, CtlTypeOK, Status
  <2> QED
    BY <1>4, <2>3, <2>4, UnchangedTypes DEF TimerTearsDown
<1> QED
  BY <1>1, <1>2, <1>3, <1>4 DEF ctcp_timer

(* The network's faults keep the types.                                     *)
LEMMA FaultType == ASSUME TypeOK, NEW h \in Host, Fault(h) PROVE TypeOK'
<1> DEFINE first == Head(net[h])
           rest == Tail(net[h])
<1>1. net \in [Host -> Seq(Segment)] /\ faults \in Nat /\ faults' \in Nat
      /\ UNCHANGED << txVars, rxVars, ctlVars, appVars >> /\ net[h] # << >>
  BY DEF Fault, Drop, Duplicate, Delay, Corrupt, Strikes, TypeOK, NetTypeOK
<1>2. first \in Segment /\ rest \in Seq(Segment) /\ net[h] \in Seq(Segment)
  BY <1>1, HeadTailProperties
<1> DEFINE spoilt == [first EXCEPT !.cksum = FALSE]
<1>3. spoilt \in Segment
  BY <1>2 DEF Segment
<1>4. \E list \in {rest, << first >> \o net[h], Append(rest, first), << spoilt >> \o rest} :
        net' = [net EXCEPT ![h] = list]
  BY DEF Fault, Drop, Duplicate, Delay, Corrupt, Transit
<1> HIDE DEF first, rest, spoilt
<1>5. /\ << first >> \o net[h] \in Seq(Segment) /\ Append(rest, first) \in Seq(Segment)
      /\ << spoilt >> \o rest \in Seq(Segment)
  BY <1>2, <1>3, ConcatProperties, AppendProperties
<1>6. net' \in [Host -> Seq(Segment)]
  BY <1>1, <1>2, <1>4, <1>5
<1> QED
  BY <1>1, <1>6, UnchangedTypes DEF TypeOK, NetTypeOK

(* The fields of ctcp_state_t, conn_t and the network keep their types in   *)
(* every behaviour of two ctcp.c endpoints, whatever the network does.      *)
THEOREM TypeCorrect == Spec => []TypeOK
<1>1. TypeOK /\ [Next]_vars => TypeOK'
  <2> SUFFICES ASSUME TypeOK, [Next]_vars PROVE TypeOK'
    OBVIOUS
  <2>1. CASE Next
    BY <2>1, SenderType, DrainType, ReceiveType, AbsorbType, TimerType, FaultType DEF Next
  <2>2. CASE UNCHANGED vars
    BY <2>2, UnchangedTypes DEF vars, TypeOK
  <2> QED
    BY <2>1, <2>2
<1> QED
  BY InitType, <1>1, PTL DEF Spec

-----------------------------------------------------------------------------
(* What a step leaves alone *)

(* Reflexivity, in the form in which first-order reasoning can use it.      *)
LEMMA EqualIsLeq == \A m \in Nat : \A n : n = m => m <= n /\ n \in Nat
OBVIOUS

(* The types of one host's variables, as far as the streams need them.      *)
LEMMA HostTypes ==
  ASSUME TypeOK, NEW g \in Host
  PROVE  /\ curr_seqno[g] \in Nat /\ curr_ackno[g] \in Nat /\ rx_next_output_seqno[g] \in Nat
         /\ input[g] \in Seq([seqno : Nat, len : Nat]) /\ Len(input[g]) \in Nat
         /\ \A i \in 1..Len(input[g]) : input[g][i] \in [seqno : Nat, len : Nat]
         /\ output[g] \in Seq(Nat) /\ Len(output[g]) \in Nat
         /\ segments[g] \in Seq(TransmissionInfo) /\ Len(segments[g]) \in Nat
         /\ \A i \in 1..Len(segments[g]) :
              segments[g][i] \in TransmissionInfo /\ segments[g][i].segment \in Segment
         /\ waiting_segments[g] \in Seq(TransmissionInfo) /\ Len(waiting_segments[g]) \in Nat
         /\ \A i \in 1..Len(waiting_segments[g]) :
              waiting_segments[g][i] \in TransmissionInfo /\ waiting_segments[g][i].segment \in Segment
         /\ received_segments[g] \in Seq(Segment) /\ Len(received_segments[g]) \in Nat
         /\ \A i \in 1..Len(received_segments[g]) : received_segments[g][i] \in Segment
         /\ net[g] \in Seq(Segment) /\ Len(net[g]) \in Nat
         /\ \A i \in 1..Len(net[g]) : net[g][i] \in Segment
<1>1. /\ curr_seqno[g] \in Nat /\ curr_ackno[g] \in Nat /\ rx_next_output_seqno[g] \in Nat
      /\ input[g] \in Seq([seqno : Nat, len : Nat]) /\ output[g] \in Seq(Nat)
      /\ segments[g] \in Seq(TransmissionInfo) /\ waiting_segments[g] \in Seq(TransmissionInfo)
      /\ received_segments[g] \in Seq(Segment) /\ net[g] \in Seq(Segment)
  BY DEF TypeOK, TxTypeOK, RxTypeOK, AppTypeOK, NetTypeOK
<1>2. \A i \in 1..Len(input[g]) : input[g][i] \in [seqno : Nat, len : Nat]
  BY <1>1, ElementOfSeq
<1>3. \A i \in 1..Len(segments[g]) : segments[g][i] \in TransmissionInfo
  BY <1>1, ElementOfSeq
<1>4. \A i \in 1..Len(waiting_segments[g]) : waiting_segments[g][i] \in TransmissionInfo
  BY <1>1, ElementOfSeq
<1>5. \A i \in 1..Len(received_segments[g]) : received_segments[g][i] \in Segment
  BY <1>1, ElementOfSeq
<1>6. \A i \in 1..Len(net[g]) : net[g][i] \in Segment
  BY <1>1, ElementOfSeq
<1>7. \A t \in TransmissionInfo : t.segment \in Segment
  BY DEF TransmissionInfo
<1>8. /\ Len(input[g]) \in Nat /\ Len(output[g]) \in Nat /\ Len(segments[g]) \in Nat
      /\ Len(waiting_segments[g]) \in Nat /\ Len(received_segments[g]) \in Nat
      /\ Len(net[g]) \in Nat
  BY <1>1, LenProperties
<1> QED
  BY <1>1, <1>2, <1>3, <1>4, <1>5, <1>6, <1>7, <1>8

-----------------------------------------------------------------------------
(* What no step takes back *)

(* The stream of g only grows: what g read, sent and acknowledged stays.    *)
Grows(g) ==
  /\ Len(input[g]) <= Len(input'[g])
  /\ \A i \in 1..Len(input[g]) : input'[g][i] = input[g][i]
  /\ FinSent(g) => FinSent(g)' /\ DataEnd(g)' = DataEnd(g)
  /\ curr_ackno[g] <= curr_ackno'[g]

(* A segment of the stream remains one.                                     *)
LEMMA GenuineStays ==
  ASSUME TypeOK, TypeOK', NEW g \in Host, Grows(g), NEW s \in Segment
  PROVE  /\ IsChunk(g, s) => IsChunk(g, s)'
         /\ IsFin(g, s) => IsFin(g, s)'
         /\ Genuine(g, s) => Genuine(g, s)'
<1>1. Len(input[g]) \in Nat /\ Len(input'[g]) \in Nat
      /\ curr_ackno[g] \in Nat /\ curr_ackno'[g] \in Nat
  <2>1. input[g] \in Seq([seqno : Nat, len : Nat]) /\ input'[g] \in Seq([seqno : Nat, len : Nat])
    BY DEF TypeOK, AppTypeOK
  <2>2. Len(input[g]) \in Nat /\ Len(input'[g]) \in Nat
    BY <2>1, LenProperties
  <2>3. curr_ackno[g] \in Nat /\ curr_ackno'[g] \in Nat
    BY DEF TypeOK, RxTypeOK
  <2> QED
    BY <2>2, <2>3
<1>2. s.ackno \in Nat /\ s.data \in Nat
  BY DEF Segment
<1>3. IsChunk(g, s) => IsChunk(g, s)'
  BY <1>1, <1>2 DEF IsChunk, Grows
<1>4. IsFin(g, s) => IsFin(g, s)'
  BY DEF IsFin, Grows
<1>5. s.ackno <= curr_ackno[g] => s.ackno <= curr_ackno'[g]
  BY <1>1, <1>2 DEF Grows
<1> QED
  BY <1>3, <1>4, <1>5 DEF Genuine, is_ack

-----------------------------------------------------------------------------
(* The parts of the invariant that a step leaves alone *)

(* A step that changes nothing of what g read keeps it in order.            *)
LEMMA InputStays ==
  ASSUME NEW g \in Host, InputInv(g), input'[g] = input[g],
         curr_seqno'[g] = curr_seqno[g], FinSent(g)' = FinSent(g),
         read_eof[g] => read_eof'[g]
  PROVE  InputInv(g)'
<1>1. DataEnd(g)' = DataEnd(g)
  BY DEF DataEnd
<1>2. \A k : Start(g, k)' = Start(g, k)
  BY DEF Start
<1> QED
  BY <1>1, <1>2 DEF InputInv

(* The sender's lists keep what they hold, or part of it.                   *)
LEMMA SenderStays ==
  ASSUME TypeOK, TypeOK', NEW g \in Host, Grows(g), SenderInv(g),
         Sent(g)' \subseteq Sent(g), Waiting(g)' \subseteq Waiting(g),
         FinSent(g)' = FinSent(g),
         waiting_segments[g] = << >> => waiting_segments'[g] = << >>
  PROVE  SenderInv(g)'
<1>1. Sent(g) \subseteq Segment /\ Waiting(g) \subseteq Segment
  BY HostTypes DEF Sent, Waiting
<1>2. \A s \in Sent(g)' :
        Genuine(g, s)' /\ (IF FinSent(g)' THEN IsFin(g, s)' ELSE IsChunk(g, s)')
  BY <1>1, GenuineStays DEF SenderInv
<1>3. \A s \in Waiting(g)' : Genuine(g, s)' /\ IsChunk(g, s)'
  BY <1>1, GenuineStays DEF SenderInv
<1> QED
  BY <1>2, <1>3 DEF SenderInv

(* What g has in transit stays genuine when what a step adds is.            *)
LEMMA TransitStays ==
  ASSUME TypeOK, TypeOK', NEW g \in Host, Grows(g), TransitInv(g),
         \A s \in InTransit(g)' : s \in InTransit(g) \/ Genuine(g, s)'
  PROVE  TransitInv(g)'
<1>1. InTransit(g) \subseteq Segment
  BY HostTypes, PeerType DEF InTransit
<1> QED
  BY <1>1, GenuineStays DEF TransitInv

(* The receiver's part survives while the sender's stream only grows.       *)
LEMMA ReceiverStays ==
  ASSUME TypeOK, TypeOK', NEW g \in Host, Grows(Peer(g)), ReceiverInv(g),
         received_segments'[g] = received_segments[g], output'[g] = output[g],
         rx_next_output_seqno'[g] = rx_next_output_seqno[g],
         curr_ackno'[g] = curr_ackno[g], FinSeen(g)' = FinSeen(g)
  PROVE  ReceiverInv(g)'
<1>1. Peer(g) \in Host
  BY PeerType
<1>2. /\ Len(input[Peer(g)]) \in Nat /\ Len(input'[Peer(g)]) \in Nat
      /\ Len(output[g]) \in Nat /\ Received(g) \subseteq Segment
  <2>1. Len(input'[Peer(g)]) \in Nat
    BY <1>1, LenProperties DEF TypeOK, AppTypeOK
  <2> QED
    BY <1>1, <2>1, HostTypes DEF Received
<1>3. Received(g)' = Received(g)
  BY DEF Received
<1>4. \A s \in Received(g)' : IsChunk(Peer(g), s)'
  BY <1>1, <1>2, <1>3, GenuineStays DEF ReceiverInv
<1>5. Start(Peer(g), Len(output[g]) + 1)' = Start(Peer(g), Len(output[g]) + 1)
  BY <1>2 DEF Start, Grows, ReceiverInv
<1> QED
  BY <1>2, <1>4, <1>5 DEF ReceiverInv, Grows

(* A step that changes no termination state keeps the close consistent,     *)
(* even when it ends the process.                                           *)
LEMMA CloseStays ==
  ASSUME NEW g \in Host, CloseInv(g), FinSent(g)' => FinSent(g),
         termination_state'[g] = termination_state[g],
         termination_state'[Peer(g)] = termination_state[Peer(g)],
         Len(input'[g]) = Len(input[g]), Len(output'[Peer(g)]) = Len(output[Peer(g)]),
         status'[g] \in {status[g], "torn down", "hung", "crashed"}
  PROVE  CloseInv(g)'
<1>1. FinSent(g)' = FinSent(g) /\ FinSent(Peer(g))' = FinSent(Peer(g))
      /\ FinSeen(g)' = FinSeen(g) /\ FinSeen(Peer(g))' = FinSeen(Peer(g))
  BY DEF FinSent, FinSeen
<1>2. AllOutput(g)' = AllOutput(g)
  BY DEF AllOutput
<1> QED
  BY <1>1, <1>2 DEF CloseInv

(* What g read is in its buffers or was output.                             *)
AckedOf(g) == \A i \in 1..Len(input[g]) : Buffered(g, i) \/ i <= Len(output[Peer(g)])

(* A chunk that is buffered or output remains so.                           *)
LEMMA AckedStays ==
  ASSUME TypeOK, NEW g \in Host, AckedOf(g), input'[g] = input[g],
         Sent(g) \cup Waiting(g) \subseteq (Sent(g) \cup Waiting(g))',
         Len(output[Peer(g)]) <= Len(output'[Peer(g)]), Len(output'[Peer(g)]) \in Nat
  PROVE  AckedOf(g)'
<1>1. Len(output[Peer(g)]) \in Nat /\ Len(input[g]) \in Nat
  BY HostTypes, PeerType
<1> SUFFICES ASSUME NEW i \in 1..Len(input[g])
             PROVE  Buffered(g, i)' \/ i <= Len(output'[Peer(g)])
  BY DEF AckedOf
<1>2. Buffered(g, i) \/ i <= Len(output[Peer(g)])
  BY DEF AckedOf
<1>3. Buffered(g, i) => Buffered(g, i)'
  BY DEF Buffered
<1> QED
  BY <1>1, <1>2, <1>3

-----------------------------------------------------------------------------
(* Steps *)

(* The invariant of one stream.                                             *)
StreamInv(g) == /\ InputInv(g) /\ SenderInv(g) /\ TransitInv(g) /\ ReceiverInv(g) /\ CloseInv(g)
                /\ AckedOf(g)

(* StreamInvariant, stream by stream.                                       *)
LEMMA ByStream == StreamInvariant <=> \A g \in Host : StreamInv(g)
  BY DEF StreamInvariant, StreamInv, AckedWasOutput, AckedOf

streamVars == << curr_seqno, segments, waiting_segments, curr_ackno, rx_next_output_seqno,
                 received_segments, output, termination_state, read_eof, input >>

(* A step that loses, repeats or reorders segments on their way, or stops   *)
(* a process, and does nothing else.                                        *)
LEMMA TransitStep ==
  ASSUME TypeOK, TypeOK', \A g \in Host : StreamInv(g), UNCHANGED streamVars,
         \A g \in Host : status'[g] \in {status[g], "torn down", "hung", "crashed"},
         \A g \in Host : \A s \in InTransit(g)' : s \in InTransit(g) \/ Genuine(g, s)
  PROVE  \A g \in Host : StreamInv(g)'
<1> SUFFICES ASSUME NEW g \in Host PROVE StreamInv(g)'
  OBVIOUS
<1>1. StreamInv(g) /\ Peer(g) \in Host
  BY PeerType
<1>2. FinSent(g)' = FinSent(g) /\ FinSeen(g)' = FinSeen(g) /\ DataEnd(g)' = DataEnd(g)
  BY DEF FinSent, FinSeen, DataEnd, streamVars
<1>3. Grows(g) /\ Grows(Peer(g))
  <2> SUFFICES ASSUME NEW q \in Host PROVE Grows(q)
    BY <1>1
  <2>1. Len(input[q]) \in Nat /\ curr_ackno[q] \in Nat
    BY HostTypes
  <2>2. FinSent(q)' = FinSent(q)
    BY DEF FinSent, streamVars
  <2>3. DataEnd(q)' = DataEnd(q)
    BY <2>2 DEF DataEnd, streamVars
  <2>4. input' = input /\ curr_ackno' = curr_ackno
    BY DEF streamVars
  <2>6. curr_ackno'[q] = curr_ackno[q] /\ Len(input'[q]) = Len(input[q])
    BY <2>4, Zenon
  <2>5. curr_ackno[q] <= curr_ackno'[q] /\ Len(input[q]) <= Len(input'[q])
    BY <2>1, <2>6, EqualIsLeq, Zenon
  <2> QED
    BY <2>2, <2>3, <2>4, <2>5, Zenon DEF Grows
<1>4. InputInv(g)'
  BY <1>1, <1>2, InputStays DEF StreamInv, streamVars
<1>5. SenderInv(g)'
  <2>1. Sent(g)' = Sent(g) /\ Waiting(g)' = Waiting(g)
    BY DEF Sent, Waiting, streamVars
  <2> QED
    BY <1>1, <1>2, <1>3, <2>1, SenderStays DEF StreamInv, streamVars
<1>6. TransitInv(g)'
  <2>1. \A s \in InTransit(g)' : Genuine(g, s) => Genuine(g, s)'
    BY <1>2 DEF Genuine, IsChunk, IsFin, is_ack, streamVars
  <2> QED
    BY <1>1, <1>3, <2>1, TransitStays DEF StreamInv
<1>7. ReceiverInv(g)'
  BY <1>1, <1>2, <1>3, ReceiverStays DEF StreamInv, streamVars
<1>8. CloseInv(g)'
  BY <1>1, <1>2, CloseStays DEF StreamInv, streamVars
<1>9. AckedOf(g)'
  <2>1. Sent(g)' = Sent(g) /\ Waiting(g)' = Waiting(g)
    BY DEF Sent, Waiting, streamVars
  <2>2. Len(output[Peer(g)]) \in Nat /\ output' = output /\ input' = input
    BY <1>1, HostTypes DEF streamVars
  <2>3. /\ Len(output[Peer(g)]) <= Len(output'[Peer(g)]) /\ Len(output'[Peer(g)]) \in Nat
        /\ Sent(g) \cup Waiting(g) \subseteq (Sent(g) \cup Waiting(g))'
    <3>3. Len(output'[Peer(g)]) = Len(output[Peer(g)])
      BY <2>2, Zenon
    <3>1. Len(output[Peer(g)]) <= Len(output'[Peer(g)]) /\ Len(output'[Peer(g)]) \in Nat
      BY <2>2, <3>3, EqualIsLeq, Zenon
    <3>2. Sent(g) \cup Waiting(g) \subseteq (Sent(g) \cup Waiting(g))'
      BY <2>1
    <3> QED
      BY <3>1, <3>2
  <2> QED
    BY <1>1, <2>2, <2>3, AckedStays DEF StreamInv
<1> QED
  BY <1>4, <1>5, <1>6, <1>7, <1>8, <1>9 DEF StreamInv

(* A step of h that changes at most its own stream's sender, its            *)
(* termination state, and what is in transit.                               *)
LEMMA SenderStep ==
  ASSUME TypeOK, TypeOK', \A g \in Host : StreamInv(g), NEW h \in Host,
         UNCHANGED << curr_ackno, rx_next_output_seqno, received_segments, output >>,
         curr_seqno'[Peer(h)] = curr_seqno[Peer(h)], segments'[Peer(h)] = segments[Peer(h)],
         waiting_segments'[Peer(h)] = waiting_segments[Peer(h)],
         input'[Peer(h)] = input[Peer(h)], read_eof'[Peer(h)] = read_eof[Peer(h)],
         termination_state'[Peer(h)] = termination_state[Peer(h)],
         status'[Peer(h)] = status[Peer(h)],
         \A g \in Host : \A s \in InTransit(g)' : s \in InTransit(g) \/ Genuine(g, s)',
         Grows(h), FinSeen(h)' = FinSeen(h),
         InputInv(h)', SenderInv(h)', CloseInv(h)', AckedOf(h)'
  PROVE  \A g \in Host : StreamInv(g)'
<1> DEFINE p == Peer(h)
<1>1. p \in Host /\ Peer(p) = h /\ \A g \in Host : g = h \/ g = p
  BY PeerType DEF Host, Peer
<1>2. StreamInv(h) /\ StreamInv(p)
  BY <1>1
<1>3. FinSent(p)' = FinSent(p) /\ FinSeen(p)' = FinSeen(p) /\ DataEnd(p)' = DataEnd(p)
  BY DEF FinSent, FinSeen, DataEnd
<1>4. Grows(p)
  <2>1. Len(input[p]) \in Nat /\ curr_ackno[p] \in Nat
    BY <1>1, HostTypes
  <2>2. curr_ackno'[p] = curr_ackno[p] /\ Len(input'[p]) = Len(input[p])
    OBVIOUS
  <2>3. curr_ackno[p] <= curr_ackno'[p] /\ Len(input[p]) <= Len(input'[p])
    BY <2>1, <2>2, EqualIsLeq, Zenon
  <2> QED
    BY <1>3, <2>3, Zenon DEF Grows
<1>5. \A g \in Host : TransitInv(g)'
  <2> SUFFICES ASSUME NEW g \in Host PROVE TransitInv(g)'
    OBVIOUS
  <2>1. Grows(g)
    BY <1>1, <1>4
  <2> QED
    BY <2>1, TransitStays DEF StreamInv
<1>6. ReceiverInv(h)' /\ ReceiverInv(p)'
  <2>1. ReceiverInv(h)'
    BY <1>2, <1>4, ReceiverStays DEF StreamInv
  <2>2. ReceiverInv(p)'
    BY <1>1, <1>2, <1>3, ReceiverStays DEF StreamInv
  <2> QED
    BY <2>1, <2>2
<1>7. InputInv(p)'
  BY <1>1, <1>2, <1>3, InputStays DEF StreamInv
<1>8. SenderInv(p)'
  <2>1. Sent(p)' = Sent(p) /\ Waiting(p)' = Waiting(p)
    BY DEF Sent, Waiting
  <2> QED
    BY <1>1, <1>2, <1>3, <1>4, <2>1, SenderStays DEF StreamInv
<1>9. CloseInv(p)'
  <2>1. AllOutput(p)' = AllOutput(p)
    BY DEF AllOutput
  <2>2. FinSent(h) => FinSent(h)'
    BY DEF Grows
  <2> QED
    BY <1>1, <1>2, <1>3, <2>1, <2>2 DEF StreamInv, CloseInv
<1>10. AckedOf(p)'
  <2>1. Sent(p)' = Sent(p) /\ Waiting(p)' = Waiting(p)
    BY DEF Sent, Waiting
  <2>2. Len(output[h]) \in Nat /\ Len(output'[h]) = Len(output[h])
    BY HostTypes
  <2>3. Len(output[h]) <= Len(output'[h]) /\ Len(output'[h]) \in Nat
    BY <2>2, EqualIsLeq, Zenon
  <2>4. Sent(p) \cup Waiting(p) \subseteq (Sent(p) \cup Waiting(p))'
    BY <2>1
  <2> QED
    BY <1>1, <1>2, <2>3, <2>4, AckedStays DEF StreamInv
<1> QED
  BY <1>1, <1>5, <1>6, <1>7, <1>8, <1>9, <1>10 DEF StreamInv

(* A step of h that changes at most what it received of its peer's stream,  *)
(* its termination state, and what is in transit.                           *)
LEMMA ReceiverStep ==
  ASSUME TypeOK, TypeOK', \A g \in Host : StreamInv(g), NEW h \in Host,
         UNCHANGED << curr_seqno, segments, waiting_segments, input, read_eof >>,
         curr_ackno'[Peer(h)] = curr_ackno[Peer(h)],
         rx_next_output_seqno'[Peer(h)] = rx_next_output_seqno[Peer(h)],
         received_segments'[Peer(h)] = received_segments[Peer(h)],
         output'[Peer(h)] = output[Peer(h)],
         termination_state'[Peer(h)] = termination_state[Peer(h)],
         \A g \in Host : \A s \in InTransit(g)' : s \in InTransit(g) \/ Genuine(g, s)',
         FinSent(h)' = FinSent(h), curr_ackno[h] <= curr_ackno'[h],
         Len(output[h]) <= Len(output'[h]),
         ReceiverInv(h)', \A g \in Host : CloseInv(g)'
  PROVE  \A g \in Host : StreamInv(g)'
<1> DEFINE p == Peer(h)
<1>1. p \in Host /\ Peer(p) = h /\ \A g \in Host : g = h \/ g = p
  BY PeerType DEF Host, Peer
<1>2. StreamInv(h) /\ StreamInv(p)
  BY <1>1
<1>3. FinSent(p)' = FinSent(p) /\ FinSeen(p)' = FinSeen(p)
  BY DEF FinSent, FinSeen
<1>4. \A g \in Host : FinSent(g)' = FinSent(g)
  BY <1>1, <1>3
<1>5. \A g \in Host : curr_ackno[g] <= curr_ackno'[g] /\ Len(output[g]) <= Len(output'[g])
  <2>1. curr_ackno[p] \in Nat /\ Len(output[p]) \in Nat /\ Len(output'[p]) = Len(output[p])
    BY <1>1, HostTypes
  <2>2. curr_ackno[p] <= curr_ackno'[p] /\ Len(output[p]) <= Len(output'[p])
    BY <2>1, EqualIsLeq, Zenon
  <2> QED
    BY <1>1, <2>2
<1>6. \A g \in Host : Grows(g)
  <2> SUFFICES ASSUME NEW g \in Host PROVE Grows(g)
    OBVIOUS
  <2>1. Len(input[g]) \in Nat /\ Len(input'[g]) = Len(input[g])
    BY HostTypes
  <2>2. Len(input[g]) <= Len(input'[g])
    BY <2>1, EqualIsLeq, Zenon
  <2>3. DataEnd(g)' = DataEnd(g)
    BY <1>4 DEF DataEnd
  <2> QED
    BY <1>4, <1>5, <2>2, <2>3, Zenon DEF Grows
<1> SUFFICES ASSUME NEW g \in Host PROVE StreamInv(g)'
  OBVIOUS
<1>7. StreamInv(g) /\ Peer(g) \in Host
  BY PeerType
<1>8. Sent(g)' = Sent(g) /\ Waiting(g)' = Waiting(g)
  BY DEF Sent, Waiting
<1>9. InputInv(g)'
  BY <1>4, <1>7, InputStays DEF StreamInv
<1>10. SenderInv(g)'
  BY <1>4, <1>6, <1>7, <1>8, SenderStays DEF StreamInv
<1>11. TransitInv(g)'
  BY <1>6, <1>7, TransitStays DEF StreamInv
<1>12. ReceiverInv(g)'
  <2>1. ReceiverInv(p)'
    BY <1>1, <1>2, <1>3, <1>6, ReceiverStays DEF StreamInv
  <2> QED
    BY <1>1, <2>1
<1>13. AckedOf(g)'
  <2>1. Len(output'[Peer(g)]) \in Nat
    <3>1. output'[Peer(g)] \in Seq(Nat)
      BY <1>7 DEF TypeOK, RxTypeOK
    <3> QED
      BY <3>1, LenProperties
  <2>2. Sent(g) \cup Waiting(g) \subseteq (Sent(g) \cup Waiting(g))'
    BY <1>8
  <2> QED
    BY <1>5, <1>7, <2>1, <2>2, AckedStays DEF StreamInv
<1> QED
  BY <1>9, <1>10, <1>11, <1>12, <1>13 DEF StreamInv

-----------------------------------------------------------------------------
(* What a step puts in transit *)

(* Taking the segment that arrives adds none.                               *)
LEMMA TransitShrinks ==
  ASSUME TypeOK, NEW h \in Host, net[h] # << >>, NEW q \in Host
  PROVE  /\ Transit(h)[q] \in Seq(Segment)
         /\ \A i \in 1..Len(Transit(h)[q]) :
              \E j \in 1..Len(net[q]) : Transit(h)[q][i] = net[q][j]
<1>1. net \in [Host -> Seq(Segment)] /\ net[q] \in Seq(Segment) /\ Len(net[q]) \in Nat
      /\ Transit(h) \in [Host -> Seq(Segment)]
  BY HostTypes, TransitType DEF TypeOK, NetTypeOK
<1>2. CASE q = h
  <2>1. Transit(h)[q] = Tail(net[q])
    BY <1>1, <1>2 DEF Transit
  <2>2. /\ Len(Tail(net[q])) = Len(net[q]) - 1
        /\ \A i \in 1..Len(Tail(net[q])) : Tail(net[q])[i] = net[q][i + 1]
    BY <1>1, <1>2, HeadTailProperties
  <2>3. \A i \in 1..Len(Tail(net[q])) : i + 1 \in 1..Len(net[q])
    BY <1>1, <2>2
  <2> QED
    BY <1>1, <2>1, <2>2, <2>3
<1>3. CASE q # h
  <2>1. Transit(h)[q] = net[q]
    BY <1>1, <1>3 DEF Transit
  <2> QED
    BY <1>1, <2>1
<1> QED
  BY <1>2, <1>3

(* A step that only takes the segment that arrives.                         *)
LEMMA TakenTransit ==
  ASSUME TypeOK, NEW h \in Host, net[h] # << >>, net' = Transit(h)
  PROVE  \A g \in Host : \A s \in InTransit(g)' : s \in InTransit(g)
<1> SUFFICES ASSUME NEW g \in Host, NEW s \in InTransit(g)' PROVE s \in InTransit(g)
  OBVIOUS
<1>1. Peer(g) \in Host
  BY PeerType
<1>2. PICK i \in 1..Len(net'[Peer(g)]) : s = net'[Peer(g)][i]
  BY DEF InTransit
<1>3. PICK j \in 1..Len(net[Peer(g)]) : s = net[Peer(g)][j]
  BY <1>1, <1>2, TransitShrinks
<1> QED
  BY <1>3 DEF InTransit

(* What h sends is all that a step of h adds.                               *)
LEMMA SentTransit ==
  ASSUME TypeOK, NEW h \in Host, NEW t \in [Host -> Seq(Segment)],
         t = net \/ (net[h] # << >> /\ t = Transit(h)),
         NEW sent \in Seq(Segment), net' = [t EXCEPT ![Peer(h)] = @ \o sent]
  PROVE  \A g \in Host : \A s \in InTransit(g)' :
           s \in InTransit(g) \/ (g = h /\ \E i \in 1..Len(sent) : s = sent[i])
<1> SUFFICES ASSUME NEW g \in Host, NEW s \in InTransit(g)', s \notin InTransit(g)
             PROVE  g = h /\ \E i \in 1..Len(sent) : s = sent[i]
  OBVIOUS
<1> DEFINE q == Peer(g)
<1>1. q \in Host /\ Peer(h) \in Host /\ (q = Peer(h) => g = h)
  BY PeerType
<1>2. PICK i \in 1..Len(net'[q]) : s = net'[q][i]
  BY DEF InTransit
<1>3. \A j \in 1..Len(t[q]) : s # t[q][j]
  <2>1. \A j \in 1..Len(t[q]) : \E k \in 1..Len(net[q]) : t[q][j] = net[q][k]
    <3>1. CASE t = net
      BY <3>1
    <3>2. CASE net[h] # << >> /\ t = Transit(h)
      <4>1. \A j \in 1..Len(Transit(h)[q]) : \E k \in 1..Len(net[q]) : Transit(h)[q][j] = net[q][k]
        BY <1>1, <3>2, TransitShrinks
      <4> QED
        BY <3>2, <4>1
    <3> QED
      BY <3>1, <3>2
  <2> QED
    BY <2>1 DEF InTransit
<1>4. q = Peer(h)
  <2> SUFFICES ASSUME q # Peer(h) PROVE FALSE
    OBVIOUS
  <2>1. net'[q] = t[q]
    BY <1>1
  <2> QED
    BY <1>2, <1>3, <2>1
<1>5. net'[q] = t[q] \o sent /\ t[q] \in Seq(Segment)
  BY <1>1, <1>4
<1>6. Len(t[q]) \in Nat /\ Len(sent) \in Nat /\ Len(net'[q]) = Len(t[q]) + Len(sent)
  <2>1. Len(t[q]) \in Nat /\ Len(sent) \in Nat
    BY <1>5, LenProperties
  <2>2. Len(t[q] \o sent) = Len(t[q]) + Len(sent)
    BY <1>5, ConcatProperties
  <2> QED
    BY <1>5, <2>1, <2>2
<1>7. ~ (i <= Len(t[q]))
  <2> SUFFICES ASSUME i <= Len(t[q]) PROVE FALSE
    OBVIOUS
  <2>1. i \in 1..Len(t[q])
    BY <1>6
  <2>2. net'[q][i] = t[q][i]
    BY <1>5, <1>6, <2>1, ConcatProperties
  <2> QED
    BY <1>2, <1>3, <2>1, <2>2
<1>8. i - Len(t[q]) \in 1..Len(sent)
  BY <1>6, <1>7
<1>9. net'[q][i] = sent[i - Len(t[q])]
  BY <1>5, <1>6, <1>7, <1>8, ConcatProperties
<1> QED
  BY <1>1, <1>2, <1>4, <1>8, <1>9

(* What is in transit to h after its first segment is gone, or comes again. *)
LEMMA HeadOrTail ==
  ASSUME NEW list \in Seq(Segment), list # << >>, NEW first \in Segment
  PROVE  /\ \E j \in 1..Len(list) : Head(list) = list[j]
         /\ \A i \in 1..Len(Tail(list)) : \E j \in 1..Len(list) : Tail(list)[i] = list[j]
         /\ \A i \in 1..Len(<< first >> \o list) :
              \/ (<< first >> \o list)[i] = first
              \/ \E j \in 1..Len(list) : (<< first >> \o list)[i] = list[j]
         /\ \A i \in 1..Len(Append(Tail(list), first)) :
              \/ Append(Tail(list), first)[i] = first
              \/ \E j \in 1..Len(list) : Append(Tail(list), first)[i] = list[j]
         /\ \A i \in 1..Len(<< first >> \o Tail(list)) :
              \/ (<< first >> \o Tail(list))[i] = first
              \/ \E j \in 1..Len(list) : (<< first >> \o Tail(list))[i] = list[j]
<1> DEFINE tail == Tail(list)
           one == << first >>
<1>1. /\ tail \in Seq(Segment) /\ Len(tail) \in Nat /\ Len(list) \in Nat
      /\ Len(tail) = Len(list) - 1 /\ Len(list) >= 1
      /\ Head(list) = list[1]
      /\ \A i \in 1..Len(tail) : tail[i] = list[i + 1]
  BY HeadTailProperties, LenProperties, EmptySeq
<1>2. \A i \in 1..Len(tail) : \E j \in 1..Len(list) : tail[i] = list[j]
  <2>1. \A i \in 1..Len(tail) : i + 1 \in 1..Len(list)
    BY <1>1
  <2> QED
    BY <1>1, <2>1
<1>3. one \in Seq(Segment) /\ Len(one) = 1 /\ one[1] = first
  OBVIOUS
<1> HIDE DEF tail, one
<1>4. ASSUME NEW rest \in Seq(Segment), NEW i \in 1..Len(one \o rest)
      PROVE  (one \o rest)[i] = first \/ \E k \in 1..Len(rest) : (one \o rest)[i] = rest[k]
  <2>1. Len(rest) \in Nat
    BY LenProperties
  <2>2. Len(one \o rest) = Len(one) + Len(rest)
    BY <1>3, ConcatProperties
  <2>3. Len(rest) \in Nat /\ Len(one \o rest) = 1 + Len(rest)
    BY <1>3, <2>1, <2>2
  <2>4. i \in 1..Len(one) + Len(rest)
    BY <1>3, <2>3
  <2>5. (one \o rest)[i] = IF i <= Len(one) THEN one[i] ELSE rest[i - Len(one)]
    BY <1>3, <2>4, ConcatProperties
  <2>6. (one \o rest)[i] = IF i <= 1 THEN one[i] ELSE rest[i - 1]
    BY <1>3, <2>5
  <2>7. i = 1 \/ (~ (i <= 1) /\ i - 1 \in 1..Len(rest))
    BY <2>3
  <2> QED
    BY <1>3, <2>6, <2>7
<1>5. ASSUME NEW i \in 1..Len(Append(tail, first))
      PROVE  Append(tail, first)[i] = first \/ \E j \in 1..Len(list) : Append(tail, first)[i] = list[j]
  <2>1. Len(Append(tail, first)) = Len(tail) + 1
        /\ \A k \in 1..Len(tail) : Append(tail, first)[k] = tail[k]
        /\ Append(tail, first)[Len(tail) + 1] = first
    BY <1>1, AppendProperties
  <2>2. i \in 1..Len(tail) \/ i = Len(tail) + 1
    BY <1>1, <2>1
  <2> QED
    BY <1>2, <2>1, <2>2
<1>6. \E j \in 1..Len(list) : Head(list) = list[j]
  BY <1>1
<1>7. \A i \in 1..Len(one \o list) :
        (one \o list)[i] = first \/ \E j \in 1..Len(list) : (one \o list)[i] = list[j]
  BY <1>4
<1>8. \A i \in 1..Len(one \o tail) :
        (one \o tail)[i] = first \/ \E j \in 1..Len(list) : (one \o tail)[i] = list[j]
  <2> SUFFICES ASSUME NEW i \in 1..Len(one \o tail)
               PROVE  (one \o tail)[i] = first \/ \E j \in 1..Len(list) : (one \o tail)[i] = list[j]
    OBVIOUS
  <2>1. (one \o tail)[i] = first \/ \E k \in 1..Len(tail) : (one \o tail)[i] = tail[k]
    BY <1>1, <1>4
  <2> QED
    BY <1>2, <2>1
<1> QED
  BY <1>2, <1>5, <1>6, <1>7, <1>8 DEF tail, one

(* The faults of the network.                                               *)
LEMMA FaultStep ==
  ASSUME TypeOK, TypeOK', \A g \in Host : StreamInv(g), NEW h \in Host, Fault(h)
  PROVE  \A g \in Host : StreamInv(g)'
<1> DEFINE first == Head(net[h])
<1>1. /\ net[h] # << >> /\ UNCHANGED streamVars /\ UNCHANGED status
  BY DEF Fault, Drop, Duplicate, Delay, Corrupt, Strikes, streamVars,
         txVars, rxVars, ctlVars, appVars
<1>2. /\ net \in [Host -> Seq(Segment)] /\ net[h] \in Seq(Segment)
      /\ first \in Segment /\ [first EXCEPT !.cksum = FALSE] \in Segment
  <2>1. net \in [Host -> Seq(Segment)] /\ net[h] \in Seq(Segment) /\ first \in Segment
    BY <1>1, TransitType DEF TypeOK, NetTypeOK
  <2> QED
    BY <2>1 DEF Segment
<1>3. \E sent \in Segment :
        /\ \A i \in 1..Len(net'[h]) : net'[h][i] = sent \/ \E j \in 1..Len(net[h]) : net'[h][i] = net[h][j]
        /\ sent = first \/ sent = [first EXCEPT !.cksum = FALSE]
        /\ \A q \in Host \ {h} : net'[q] = net[q]
  <2>1. CASE Drop(h)
    <3>1. net'[h] = Tail(net[h]) /\ \A q \in Host \ {h} : net'[q] = net[q]
      BY <1>2, <2>1 DEF Drop, Transit
    <3> QED
      BY <1>1, <1>2, <3>1, HeadOrTail
  <2>2. CASE Duplicate(h)
    <3>1. net'[h] = << first >> \o net[h] /\ \A q \in Host \ {h} : net'[q] = net[q]
      BY <1>2, <2>2 DEF Duplicate
    <3>2. \A i \in 1..Len(net'[h]) : net'[h][i] = first \/ \E j \in 1..Len(net[h]) : net'[h][i] = net[h][j]
      BY <1>1, <1>2, <3>1, HeadOrTail
    <3> QED
      BY <1>2, <3>1, <3>2
  <2>3. CASE Delay(h)
    <3>1. net'[h] = Append(Tail(net[h]), first) /\ \A q \in Host \ {h} : net'[q] = net[q]
      BY <1>2, <2>3 DEF Delay
    <3>2. \A i \in 1..Len(net'[h]) : net'[h][i] = first \/ \E j \in 1..Len(net[h]) : net'[h][i] = net[h][j]
      <4>1. \A i \in 1..Len(Append(Tail(net[h]), first)) :
              \/ Append(Tail(net[h]), first)[i] = first
              \/ \E j \in 1..Len(net[h]) : Append(Tail(net[h]), first)[i] = net[h][j]
        BY <1>1, <1>2, HeadOrTail
      <4> QED
        BY <3>1, <4>1
    <3> QED
      BY <1>2, <3>1, <3>2
  <2>4. CASE Corrupt(h)
    <3> DEFINE bad == [first EXCEPT !.cksum = FALSE]
    <3>1. net'[h] = << bad >> \o Tail(net[h]) /\ \A q \in Host \ {h} : net'[q] = net[q]
      BY <1>2, <2>4 DEF Corrupt
    <3>2. bad \in Segment
      BY <1>2
    <3> HIDE DEF bad
    <3>3. \A i \in 1..Len(net'[h]) : net'[h][i] = bad \/ \E j \in 1..Len(net[h]) : net'[h][i] = net[h][j]
      BY <1>1, <1>2, <3>1, <3>2, HeadOrTail
    <3> QED
      BY <3>1, <3>2, <3>3 DEF bad
  <2> QED
    BY <2>1, <2>2, <2>3, <2>4 DEF Fault
<1>4. PICK sent \in Segment :
        /\ \A i \in 1..Len(net'[h]) : net'[h][i] = sent \/ \E j \in 1..Len(net[h]) : net'[h][i] = net[h][j]
        /\ sent = first \/ sent = [first EXCEPT !.cksum = FALSE]
        /\ \A q \in Host \ {h} : net'[q] = net[q]
  BY <1>3
<1>5. \A g \in Host : \A s \in InTransit(g)' : s \in InTransit(g) \/ Genuine(g, s)
  <2> SUFFICES ASSUME NEW g \in Host, NEW s \in InTransit(g)', s \notin InTransit(g)
               PROVE  Genuine(g, s)
    OBVIOUS
  <2>1. Peer(g) \in Host
    BY PeerType
  <2>2. PICK i \in 1..Len(net'[Peer(g)]) : s = net'[Peer(g)][i]
    BY DEF InTransit
  <2>3. Peer(g) = h /\ s = sent
    BY <1>4, <2>1, <2>2 DEF InTransit
  <2>4. first \in InTransit(g)
    <3>1. \E j \in 1..Len(net[h]) : first = net[h][j]
      BY <1>1, <1>2, HeadOrTail
    <3> QED
      BY <2>3, <3>1 DEF InTransit
  <2>5. Genuine(g, first)
    BY <2>4 DEF StreamInv, TransitInv
  <2>6. s.flag = first.flag /\ s.seqno = first.seqno /\ s.len = first.len
        /\ s.data = first.data /\ s.ackno = first.ackno
    BY <1>2, <1>4, <2>3 DEF Segment
  <2> QED
    BY <2>5, <2>6 DEF Genuine, IsChunk, IsFin, is_ack
<1> QED
  BY <1>1, <1>5, TransitStep

(* A segment that nobody handles.                                           *)
LEMMA LostStep ==
  ASSUME TypeOK, TypeOK', \A g \in Host : StreamInv(g), NEW h \in Host,
         Absorb(h) \/ ReceiveCorrupt(h) \/ ReceiveHangs(h) \/ ReceiveOverflows(h)
  PROVE  \A g \in Host : StreamInv(g)'
<1>1. net[h] # << >> /\ net' = Transit(h) /\ UNCHANGED streamVars
  BY DEF Absorb, ReceiveCorrupt, ReceiveHangs, ReceiveOverflows, ReceiverStops, NewData,
         Ordinary, Arrives, streamVars, txVars, rxVars, ctlVars, appVars
<1>2. \A g \in Host : status'[g] \in {status[g], "torn down", "hung", "crashed"}
  BY DEF Absorb, ReceiveCorrupt, ReceiveHangs, ReceiveOverflows, ReceiverStops, ctlVars,
         TypeOK, CtlTypeOK
<1>3. \A g \in Host : \A s \in InTransit(g)' : s \in InTransit(g)
  BY <1>1, TakenTransit
<1> QED
  BY <1>1, <1>2, <1>3, TransitStep
=============================================================================
