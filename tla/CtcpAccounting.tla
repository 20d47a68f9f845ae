--------------------------- MODULE CtcpAccounting ---------------------------
(***************************************************************************)
(* The counters and lists of one endpoint agree: tx_in_flight_bytes with   *)
(* the segments sent, the FIN with the termination state, rx_waiting_bytes *)
(* with the receive buffer, and the receive buffer with what was output.   *)
(***************************************************************************)
EXTENDS CtcpDelivery

-----------------------------------------------------------------------------
(* The sender's lists *)

(* The segments of a list follow each other without a gap, up to end.       *)
Chained(list, end) ==
  /\ \A i \in 1..(Len(list) - 1) : End(list[i].segment) = list[i + 1].segment.seqno
  /\ list # << >> => End(list[Len(list)].segment) = end

FlightOf(h) ==
  IF segments[h] # << >>
  THEN tx_in_flight_bytes[h] = FirstUnsent(h) - segments[h][1].segment.seqno
  ELSE termination_state[h] \in DOMAIN OnEof => tx_in_flight_bytes[h] = 0

FinOf(h) ==
  /\ termination_state[h] \in {"FIN_WAIT_1", "CLOSING", "LAST_ACK"} =>
       Len(segments[h]) = 1 /\ segments[h][1].segment.flag = "FIN"
  /\ termination_state[h] \in {"FIN_WAIT_2", "TIME_WAIT"} => segments[h] = << >>

(* What is sent and not acknowledged lies without a gap before what waits,  *)
(* and that before what will be read next.                                  *)
SendInv(h) == /\ Chained(segments[h], FirstUnsent(h))
              /\ Chained(waiting_segments[h], curr_seqno[h])
              /\ FlightOf(h) /\ FinOf(h)

LEMMA ChainAppend ==
  ASSUME NEW list \in Seq(TransmissionInfo), NEW t \in TransmissionInfo,
         Chained(list, t.segment.seqno)
  PROVE  Chained(Append(list, t), End(t.segment))
<1> DEFINE n == Len(list)
           longer == Append(list, t)
<1>1. /\ n \in Nat /\ Len(longer) = n + 1 /\ longer[n + 1] = t
      /\ \A i \in 1..n : longer[i] = list[i]
  BY LenProperties, AppendProperties
<1>2. n > 0 => End(list[n].segment) = t.segment.seqno
  <2>1. n > 0 => list # << >>
    BY EmptySeq
  <2> QED
    BY <2>1 DEF Chained
<1> HIDE DEF longer
<1>3. ASSUME NEW i \in 1..n PROVE End(longer[i].segment) = longer[i + 1].segment.seqno
  <2>1. CASE i = n
    BY <1>1, <1>2, <2>1
  <2>2. CASE i # n
    <3>1. i \in 1..(n - 1) /\ i + 1 \in 1..n
      BY <1>1, <2>2
    <3> QED
      BY <1>1, <3>1 DEF Chained
  <2> QED
    BY <2>1, <2>2
<1>4. \A i \in 1..(Len(longer) - 1) : i \in 1..n
  BY <1>1
<1> QED
  BY <1>1, <1>3, <1>4 DEF Chained, longer

LEMMA ChainTail ==
  ASSUME NEW list \in Seq(TransmissionInfo), list # << >>, NEW end, Chained(list, end)
  PROVE  /\ Chained(Tail(list), end)
         /\ End(list[1].segment) =
              IF Tail(list) = << >> THEN end ELSE Tail(list)[1].segment.seqno
<1> DEFINE n == Len(list)
           rest == Tail(list)
<1>1. /\ n \in Nat \ {0} /\ Len(rest) = n - 1 /\ rest \in Seq(TransmissionInfo)
      /\ \A i \in 1..(n - 1) : rest[i] = list[i + 1]
  BY EmptySeq, LenProperties, HeadTailProperties
<1> HIDE DEF rest
<1>2. rest = << >> <=> n = 1
  <2>1. rest = << >> <=> Len(rest) = 0
    BY <1>1, EmptySeq
  <2> QED
    BY <1>1, <2>1
<1>3. ASSUME NEW i \in 1..(Len(rest) - 1)
      PROVE  End(rest[i].segment) = rest[i + 1].segment.seqno
  <2>1. i \in 1..(n - 1) /\ i + 1 \in 1..(n - 1)
    BY <1>1
  <2> QED
    BY <1>1, <2>1 DEF Chained
<1>4. rest # << >> => End(rest[Len(rest)].segment) = end
  <2>1. rest # << >> => n - 1 \in 1..(n - 1) /\ (n - 1) + 1 = n
    BY <1>1, <1>2
  <2> QED
    BY <1>1, <2>1 DEF Chained
<1>5. Chained(rest, end)
  BY <1>3, <1>4 DEF Chained
<1>6. End(list[1].segment) = IF rest = << >> THEN end ELSE rest[1].segment.seqno
  <2>1. CASE n = 1
    BY <1>2, <2>1 DEF Chained
  <2>2. CASE n # 1
    <3>1. 1 \in 1..(n - 1) /\ rest[1] = list[1 + 1] /\ rest # << >>
      BY <1>1, <1>2, <2>2
    <3> QED
      BY <3>1 DEF Chained
  <2> QED
    BY <2>1, <2>2
<1> QED
  BY <1>5, <1>6 DEF rest

(* What reaches neither the sender's lists nor the termination state.       *)
LEMMA SendStays ==
  ASSUME NEW g \in Host, SendInv(g),
         curr_seqno'[g] = curr_seqno[g], segments'[g] = segments[g],
         waiting_segments'[g] = waiting_segments[g],
         tx_in_flight_bytes'[g] = tx_in_flight_bytes[g],
         termination_state'[g] = termination_state[g]
  PROVE  SendInv(g)'
BY DEF SendInv, Chained, FlightOf, FinOf, FirstUnsent

(* A transition that leaves the lists alone.                                *)
LEMMA StateMoves ==
  ASSUME NEW g \in Host, SendInv(g),
         curr_seqno'[g] = curr_seqno[g], segments'[g] = segments[g],
         waiting_segments'[g] = waiting_segments[g],
         tx_in_flight_bytes'[g] = tx_in_flight_bytes[g],
         << termination_state[g], termination_state'[g] >> \in
           {<< "CONN_ESTABLISHED", "CLOSE_WAIT" >>, << "FIN_WAIT_1", "CLOSING" >>,
            << "FIN_WAIT_2", "TIME_WAIT" >>, << "TIME_WAIT", "CLOSED" >>,
            << "LAST_ACK", "CLOSED" >>}
  PROVE  SendInv(g)'
<1>1. Chained(segments[g], FirstUnsent(g))' /\ Chained(waiting_segments[g], curr_seqno[g])'
  BY DEF SendInv, Chained, FirstUnsent
<1>2. DOMAIN OnEof = {"CONN_ESTABLISHED", "CLOSE_WAIT"}
  BY DEF OnEof
<1>3. FlightOf(g)'
  <2>1. termination_state'[g] \in DOMAIN OnEof => termination_state[g] \in DOMAIN OnEof
    BY <1>2
  <2> QED
    BY <2>1 DEF SendInv, FlightOf, FirstUnsent
<1>4. FinOf(g)'
  BY DEF SendInv, FinOf
<1> QED
  BY <1>1, <1>3, <1>4 DEF SendInv

(* A segment given out in place of another keeps the chain.                 *)
LEMMA ChainSame ==
  ASSUME NEW list \in Seq(TransmissionInfo), NEW other \in Seq(TransmissionInfo),
         Len(other) = Len(list), NEW end, Chained(list, end),
         \A i \in 1..Len(list) : /\ other[i].segment.seqno = list[i].segment.seqno
                                  /\ other[i].segment.len = list[i].segment.len
  PROVE  Chained(other, end)
<1>1. Len(list) \in Nat /\ (other = << >> <=> Len(list) = 0) /\ (list = << >> <=> Len(list) = 0)
  BY LenProperties, EmptySeq
<1>2. \A i \in 1..Len(list) : End(other[i].segment) = End(list[i].segment)
  BY DEF End
<1>3. \A i \in 1..(Len(list) - 1) : i \in 1..Len(list) /\ i + 1 \in 1..Len(list)
  BY <1>1
<1>4. list # << >> => Len(list) \in 1..Len(list)
  BY <1>1
<1> QED
  BY <1>1, <1>2, <1>3, <1>4 DEF Chained

-----------------------------------------------------------------------------
(* The handlers *)

(* ctcp_read of data appends to the waiting list.                           *)
LEMMA ReadDataSends ==
  ASSUME TypeOK, NEW h \in Host, SendInv(h), ReadData(h)
  PROVE  SendInv(h)'
<1>1. PICK len \in ChunkSizes :
        /\ waiting_segments' = [waiting_segments EXCEPT ![h] =
             Append(@, create_segment(h, "ACK", len, Len(input[h]) + 1))]
        /\ curr_seqno' = [curr_seqno EXCEPT ![h] = @ + len]
  BY DEF ReadData
<1> DEFINE t == create_segment(h, "ACK", len, Len(input[h]) + 1)
           list == waiting_segments[h]
<1>2. len \in Nat /\ Len(input[h]) + 1 \in Nat
  BY SizesAssumption, HostTypes
<1>3. t \in TransmissionInfo /\ t.segment.seqno = curr_seqno[h]
      /\ End(t.segment) = curr_seqno[h] + len
  <2>1. t \in TransmissionInfo
    BY <1>2, SegmentTypes
  <2> QED
    BY <2>1 DEF create_segment, End
<1> HIDE DEF t
<1>4. /\ waiting_segments'[h] = Append(list, t) /\ curr_seqno'[h] = curr_seqno[h] + len
      /\ segments' = segments /\ tx_in_flight_bytes' = tx_in_flight_bytes
      /\ termination_state' = termination_state
  BY <1>1 DEF ReadData, t, ctlVars, TypeOK, TxTypeOK
<1>5. list \in Seq(TransmissionInfo) /\ Len(list) \in Nat
  BY HostTypes
<1>6. Chained(waiting_segments[h], curr_seqno[h])'
  BY <1>3, <1>4, <1>5, ChainAppend DEF SendInv
<1>7. FirstUnsent(h)' = FirstUnsent(h)
  <2>1. Append(list, t) # << >> /\ (list = << >> => Append(list, t)[1] = t)
        /\ (list # << >> => Append(list, t)[1] = list[1])
    BY <1>3, <1>5, AppendProperties, EmptySeq
  <2> QED
    BY <1>3, <1>4, <2>1 DEF FirstUnsent
<1> QED
  BY <1>4, <1>6, <1>7 DEF SendInv, Chained, FlightOf, FinOf

(* The FIN is stored whatever the window: nothing is in flight, and the     *)
(* window of send_segment has room for one byte.                            *)
LEMMA ReadEofClosesSends ==
  ASSUME TypeOK, NEW h \in Host, SendInv(h), ReadEofCloses(h)
  PROVE  SendInv(h)'
<1> DEFINE fin == Stamped(h, create_segment(h, "FIN", 1, 0))
<1>1. /\ segments[h] = << >> /\ waiting_segments[h] = << >>
      /\ termination_state[h] \in {"CONN_ESTABLISHED", "CLOSE_WAIT"}
      /\ DOMAIN OnEof = {"CONN_ESTABLISHED", "CLOSE_WAIT"}
  BY DEF ReadEofCloses, MayClose, OnEof
<1>2. tx_in_flight_bytes[h] = 0
  BY <1>1 DEF SendInv, FlightOf
<1>3. tx_in_flight_bytes[h] + 1 <= SendWindow
  BY <1>2, SizesAssumption
<1>4. /\ tx_in_flight_bytes'[h] = 1 /\ curr_seqno'[h] = curr_seqno[h] + 1
      /\ segments'[h] = Append(segments[h], fin) /\ waiting_segments'[h] = << >>
      /\ termination_state'[h] \in {"FIN_WAIT_1", "LAST_ACK"}
  BY <1>1, <1>2, <1>3 DEF ReadEofCloses, OnEof, TypeOK, TxTypeOK, CtlTypeOK
<1>5. /\ fin.segment.seqno = curr_seqno[h] /\ End(fin.segment) = curr_seqno[h] + 1
      /\ fin.segment.flag = "FIN"
  BY DEF Stamped, create_segment, End
<1> HIDE DEF fin
<1>6. segments'[h] = << fin >>
  BY <1>1, <1>4
<1>7. FirstUnsent(h)' = curr_seqno[h] + 1 /\ curr_seqno[h] \in Nat
  BY <1>4, HostTypes DEF FirstUnsent
<1>8. Chained(segments[h], FirstUnsent(h))' /\ Chained(waiting_segments[h], curr_seqno[h])'
  BY <1>4, <1>5, <1>6, <1>7 DEF Chained
<1>9. FlightOf(h)'
  BY <1>4, <1>5, <1>6, <1>7 DEF FlightOf
<1>10. FinOf(h)'
  BY <1>4, <1>5, <1>6 DEF FinOf
<1> QED
  BY <1>8, <1>9, <1>10 DEF SendInv

(* The pacing timer moves the oldest waiting segment over.                  *)
LEMMA PacingTimerSends ==
  ASSUME TypeOK, NEW h \in Host, SendInv(h), SenderInv(h), PacingTimer(h)
  PROVE  SendInv(h)'
<1> DEFINE first == Head(waiting_segments[h])
           t == Stamped(h, first)
<1>1. /\ waiting_segments[h] # << >>
      /\ waiting_segments[h] \in Seq(TransmissionInfo) /\ segments[h] \in Seq(TransmissionInfo)
      /\ first \in TransmissionInfo /\ first = waiting_segments[h][1]
  BY HostTypes, HeadTailProperties DEF PacingTimer
<1>2. /\ tx_in_flight_bytes'[h] = tx_in_flight_bytes[h] + t.segment.len
      /\ segments'[h] = Append(segments[h], t)
      /\ waiting_segments'[h] = Tail(waiting_segments[h])
      /\ curr_seqno' = curr_seqno /\ termination_state' = termination_state
  BY DEF PacingTimer, ctlVars, TypeOK, TxTypeOK
<1>3. /\ t \in TransmissionInfo /\ t.segment.seqno = first.segment.seqno
      /\ End(t.segment) = End(first.segment)
      /\ t.segment.seqno \in Nat /\ t.segment.len \in Nat
  <2>1. t \in TransmissionInfo
    BY <1>1, SegmentTypes
  <2>2. t.segment.seqno = first.segment.seqno /\ t.segment.len = first.segment.len
    BY <1>1, StampedSegment
  <2> HIDE DEF t
  <2> QED
    BY <2>1, <2>2 DEF End, TransmissionInfo, Segment
<1> HIDE DEF t, first
<1>4. FirstUnsent(h) = t.segment.seqno
  BY <1>1, <1>3 DEF FirstUnsent
<1>5. Chained(waiting_segments[h], curr_seqno[h])'
  BY <1>1, <1>2, ChainTail DEF SendInv
<1>6. End(t.segment) = FirstUnsent(h)'
  BY <1>1, <1>2, <1>3, ChainTail DEF SendInv, FirstUnsent
<1>7. Chained(segments[h], FirstUnsent(h))'
  BY <1>1, <1>2, <1>3, <1>4, <1>6, ChainAppend DEF SendInv
<1>8. ~FinSent(h)
  BY <1>1 DEF SenderInv
<1>9. FinOf(h)'
  BY <1>2, <1>8 DEF FinOf, FinSent, Open
<1>10. FlightOf(h)'
  <2>1. /\ Append(segments[h], t) # << >>
        /\ Append(segments[h], t)[1] = IF segments[h] = << >> THEN t ELSE segments[h][1]
    BY <1>1, <1>3, AppendProperties, EmptySeq, LenProperties
  <2>2. FirstUnsent(h)' = t.segment.seqno + t.segment.len
    BY <1>6 DEF End
  <2>3. CASE segments[h] = << >>
    <3>1. tx_in_flight_bytes[h] = 0
      BY <1>8, <2>3 DEF SendInv, FlightOf, FinSent, Open, OnEof
    <3> QED
      BY <1>2, <1>3, <2>1, <2>2, <2>3, <3>1 DEF FlightOf
  <2>4. CASE segments[h] # << >>
    <3>1. tx_in_flight_bytes[h] = t.segment.seqno - segments[h][1].segment.seqno
      BY <1>4, <2>4 DEF SendInv, FlightOf
    <3>2. segments[h][1].segment.seqno \in Nat
      <4>1. segments[h][1] \in TransmissionInfo
        BY <1>1, <2>4, HeadTailProperties
      <4> QED
        BY <4>1 DEF TransmissionInfo, Segment
    <3> QED
      BY <1>2, <1>3, <2>1, <2>2, <2>4, <3>1, <3>2 DEF FlightOf
  <2> QED
    BY <2>3, <2>4
<1> QED
  BY <1>5, <1>7, <1>9, <1>10 DEF SendInv

(* ctcp_timer sends again what the chain holds, and nothing in LAST_ACK.    *)
LEMMA TimerSends ==
  ASSUME TypeOK, TypeOK', NEW h \in Host, SendInv(h), ctcp_timer(h)
  PROVE  SendInv(h)'
<1>1. CASE TimerTearsDown(h) \/ TimerWaits(h)
  BY <1>1, SendStays DEF TimerTearsDown, TimerWaits, txVars
<1>2. CASE TimerCloses(h)
  <2>1. termination_state'[h] = "CLOSED" /\ termination_state[h] \in {"TIME_WAIT", "LAST_ACK"}
        /\ UNCHANGED txVars
    BY <1>2 DEF TimerCloses, Waits, TypeOK, CtlTypeOK
  <2> QED
    BY <2>1, StateMoves DEF txVars
<1>3. CASE TimerRetransmits(h)
  <2>1. /\ segments'[h] = [i \in DOMAIN segments[h] |-> Aged(h, segments[h][i])]
        /\ UNCHANGED << curr_seqno, waiting_segments, tx_in_flight_bytes, termination_state >>
        /\ termination_state[h] # "LAST_ACK" /\ segments[h] # << >>
    BY <1>3 DEF TimerRetransmits, Waits, ctlVars, TypeOK, TxTypeOK
  <2>2. /\ segments[h] \in Seq(TransmissionInfo) /\ segments'[h] \in Seq(TransmissionInfo)
        /\ DOMAIN segments[h] = 1..Len(segments[h]) /\ Len(segments[h]) \in Nat
        /\ DOMAIN segments'[h] = 1..Len(segments'[h]) /\ Len(segments'[h]) \in Nat
    BY LenProperties DEF TypeOK, TxTypeOK
  <2>3. Len(segments'[h]) = Len(segments[h])
    <3>1. 1..Len(segments'[h]) = 1..Len(segments[h])
      BY <2>1, <2>2
    <3> QED
      BY <2>2, <3>1
  <2>4. ASSUME NEW i \in 1..Len(segments[h])
        PROVE  /\ segments'[h][i].segment.seqno = segments[h][i].segment.seqno
               /\ segments'[h][i].segment.len = segments[h][i].segment.len
               /\ segments'[h][i].segment.flag = segments[h][i].segment.flag
    <3> DEFINE u == Aged(h, segments[h][i])
    <3>1. segments[h][i] \in TransmissionInfo /\ segments'[h][i] = u
      BY <2>1, <2>2, HostTypes
    <3>2. /\ u.segment.seqno = segments[h][i].segment.seqno
          /\ u.segment.len = segments[h][i].segment.len
          /\ u.segment.flag = segments[h][i].segment.flag
      BY <3>1, StampedSegment
    <3> QED
      BY <3>1, <3>2
  <2>5. FirstUnsent(h)' = FirstUnsent(h)
    BY <2>1 DEF FirstUnsent
  <2>6. Chained(segments[h], FirstUnsent(h))'
    BY <2>2, <2>3, <2>4, <2>5, ChainSame, SMTT(30) DEF SendInv
  <2>7. 1 \in 1..Len(segments[h]) /\ segments'[h] # << >>
    BY <2>1, <2>2, <2>3, EmptySeq
  <2>8. FlightOf(h)'
    BY <2>1, <2>4, <2>5, <2>7 DEF SendInv, FlightOf
  <2>9. FinOf(h)'
    BY <2>1, <2>3, <2>4, <2>7 DEF SendInv, FinOf
  <2> QED
    BY <2>1, <2>6, <2>8, <2>9 DEF SendInv, Chained
<1> QED
  BY <1>1, <1>2, <1>3 DEF ctcp_timer

(* The head of the list leaves when an acknowledgement passes it.           *)
LEMMA RemovedHead ==
  ASSUME NEW list \in Seq(TransmissionInfo), NEW ackno, HeadAcked(list, ackno)
  PROVE  /\ list # << >> /\ RemoveAcked(list, ackno) = Tail(list)
         /\ list[1] \in TransmissionInfo
         /\ list[1].segment.seqno \in Nat /\ list[1].segment.len \in Nat
         /\ Len(list) = 1 => Tail(list) = << >>
<1>1. list # << >> /\ RemoveAcked(list, ackno) = Tail(list)
  BY DEF HeadAcked, RemoveAcked
<1>2. list[1] \in TransmissionInfo /\ Tail(list) \in Seq(TransmissionInfo)
      /\ Len(Tail(list)) = Len(list) - 1
  BY <1>1, HeadTailProperties
<1> DEFINE rest == Tail(list)
<1>3. Len(list) = 1 => rest = << >>
  <2> HIDE DEF rest
  <2>1. rest \in Seq(TransmissionInfo) /\ (Len(list) = 1 => Len(rest) = 0)
    BY <1>2 DEF rest
  <2> QED
    BY <2>1, EmptySeq
<1> QED
  BY <1>1, <1>2, <1>3 DEF TransmissionInfo, Segment

(* ctcp_receive of an ACK takes the head's bytes out of the flight.         *)
LEMMA ReceiveAckSends ==
  ASSUME TypeOK, NEW h \in Host, SendInv(h), SenderInv(h), ReceiveAck(h)
  PROVE  SendInv(h)'
<1> DEFINE s == Head(net[h])
           list == segments[h]
<1>1. list \in Seq(TransmissionInfo) /\ waiting_segments'[h] = waiting_segments[h]
      /\ curr_seqno'[h] = curr_seqno[h] /\ termination_state'[h] = termination_state[h]
  BY HostTypes DEF ReceiveAck, ctlVars
<1>2. CASE HeadAcked(list, s.ackno) /\ list[1].segment.flag = "ACK"
  <2>1. /\ tx_in_flight_bytes'[h] = tx_in_flight_bytes[h] - list[1].segment.len
        /\ segments'[h] = Tail(list)
    BY <1>1, <1>2, RemovedHead DEF ReceiveAck, TypeOK, TxTypeOK
  <2>2. list # << >> /\ list[1].segment.seqno \in Nat /\ list[1].segment.len \in Nat
    BY <1>1, <1>2, RemovedHead
  <2>3. FirstUnsent(h)' = FirstUnsent(h)
    BY <1>1 DEF FirstUnsent
  <2>4. /\ Chained(Tail(list), FirstUnsent(h))
        /\ End(list[1].segment) =
             IF Tail(list) = << >> THEN FirstUnsent(h) ELSE Tail(list)[1].segment.seqno
    BY <1>1, <2>2, ChainTail DEF SendInv
  <2>5. tx_in_flight_bytes[h] = FirstUnsent(h) - list[1].segment.seqno /\ FirstUnsent(h) \in Nat
    <3>1. FirstUnsent(h) \in Nat
      <4>1. waiting_segments[h] # << >> => waiting_segments[h][1] \in TransmissionInfo
        BY HostTypes, HeadTailProperties
      <4> QED
        BY <4>1, HostTypes DEF FirstUnsent, TransmissionInfo, Segment
    <3> QED
      BY <2>2, <3>1 DEF SendInv, FlightOf
  <2>6. ASSUME Tail(list) = << >> PROVE FlightOf(h)'
    <3>1. tx_in_flight_bytes'[h] = 0
      BY <2>1, <2>2, <2>4, <2>5, <2>6, SMTT(30) DEF End
    <3> QED
      BY <2>1, <2>6, <3>1 DEF FlightOf
  <2>7. ASSUME Tail(list) # << >> PROVE FlightOf(h)'
    <3>1. list[1].segment.seqno + list[1].segment.len = Tail(list)[1].segment.seqno
      BY <2>4, <2>7 DEF End
    <3>2. tx_in_flight_bytes'[h] = FirstUnsent(h) - Tail(list)[1].segment.seqno
      <4> DEFINE first == list[1].segment.seqno
                 len == list[1].segment.len
                 unsent == FirstUnsent(h)
      <4>1. first \in Nat /\ len \in Nat /\ unsent \in Nat
            /\ tx_in_flight_bytes'[h] = (unsent - first) - len
        BY <2>1, <2>2, <2>5
      <4>2. first + len = Tail(list)[1].segment.seqno
        BY <3>1
      <4> HIDE DEF first, len, unsent
      <4>3. (unsent - first) - len = unsent - (first + len)
        BY <4>1
      <4> QED
        BY <4>1, <4>2, <4>3 DEF unsent
    <3> QED
      BY <2>1, <2>3, <2>7, <3>2 DEF FlightOf
  <2>8. ~FinSent(h)
    <3>1. list[1].segment \in Sent(h)
      <4>1. 1 \in 1..Len(list)
        BY <1>1, <2>2, EmptySeq, LenProperties
      <4> QED
        BY <4>1 DEF Sent
    <3>2. FinSent(h) => list[1].segment.flag = "FIN"
      BY <3>1 DEF SenderInv, IsFin
    <3> QED
      BY <1>2, <3>2
  <2>9. FinOf(h)'
    BY <1>1, <2>8 DEF FinOf, FinSent, Open
  <2>10. FlightOf(h)'
    BY <2>6, <2>7
  <2>11. Chained(segments[h], FirstUnsent(h))'
    BY <2>1, <2>3, <2>4
  <2> QED
    BY <1>1, <2>9, <2>10, <2>11 DEF SendInv, Chained
<1>3. CASE ~ (HeadAcked(list, s.ackno) /\ list[1].segment.flag = "ACK")
  BY <1>1, <1>3, SendStays DEF ReceiveAck
<1> QED
  BY <1>2, <1>3

(* ctcp_receive of what covers the FIN: the only segment in flight leaves.  *)
LEMMA ReceiveFinAckSends ==
  ASSUME TypeOK, NEW h \in Host, SendInv(h), ReceiveFinAck(h)
  PROVE  SendInv(h)'
<1> DEFINE list == segments[h]
<1>1. /\ HeadAcked(list, Head(net[h]).ackno) /\ list \in Seq(TransmissionInfo)
      /\ termination_state[h] \in {"FIN_WAIT_1", "CLOSING", "LAST_ACK"}
  BY HostTypes DEF ReceiveFinAck, FinAcked, OnFinAcked
<1>2. Len(list) = 1
  BY <1>1 DEF SendInv, FinOf
<1>3. segments'[h] = RemoveAcked(list, Head(net[h]).ackno)
  BY DEF ReceiveFinAck, TypeOK, TxTypeOK
<1>4. RemoveAcked(list, Head(net[h]).ackno) = << >>
  BY <1>1, <1>2, RemovedHead
<1>5. /\ segments'[h] = << >>
      /\ termination_state'[h] \in {"FIN_WAIT_2", "TIME_WAIT", "CLOSED"}
      /\ UNCHANGED << curr_seqno, waiting_segments, tx_in_flight_bytes >>
  BY <1>1, <1>3, <1>4 DEF ReceiveFinAck, OnFinAcked, TypeOK, CtlTypeOK
<1>6. FlightOf(h)' /\ FinOf(h)'
  BY <1>5 DEF FlightOf, FinOf, OnEof
<1>7. Chained(segments[h], FirstUnsent(h))'
  <2>1. Len(segments'[h]) = 0
    BY <1>5
  <2> QED
    BY <1>5, <2>1 DEF Chained
<1> QED
  BY <1>5, <1>6, <1>7 DEF SendInv, Chained

(* ctcp_receive of a FIN moves the state alone.                             *)
LEMMA ReceiveFinSends ==
  ASSUME TypeOK, NEW h \in Host, SendInv(h), ReceiveFin(h)
  PROVE  SendInv(h)'
<1>1. termination_state[h] \in {"CONN_ESTABLISHED", "FIN_WAIT_1", "FIN_WAIT_2"}
  BY DEF ReceiveFin, FinExpected, OnFin
<1>2. UNCHANGED txVars /\ termination_state'[h] = OnFin[termination_state[h]]
  BY DEF ReceiveFin, TypeOK, CtlTypeOK
<1>3. << termination_state[h], termination_state'[h] >> \in
        {<< "CONN_ESTABLISHED", "CLOSE_WAIT" >>, << "FIN_WAIT_1", "CLOSING" >>,
         << "FIN_WAIT_2", "TIME_WAIT" >>}
  BY <1>1, <1>2 DEF OnFin
<1> QED
  BY <1>2, <1>3, StateMoves DEF txVars

(* Every handler keeps the sender's lists and counters in agreement.        *)
LEMMA HandlerSends ==
  ASSUME TypeOK, TypeOK', NEW h \in Host, SendInv(h), SenderInv(h),
         \/ ReadData(h) \/ ReadEofBusy(h) \/ ReadEofCloses(h) \/ PacingTimer(h)
         \/ Drain(h) \/ Receive(h) \/ Absorb(h) \/ ctcp_timer(h) \/ Fault(h)
  PROVE  SendInv(h)'
<1>1. CASE \/ ReadEofBusy(h) \/ Drain(h) \/ ReceiveCorrupt(h) \/ ReceiveData(h)
           \/ ReceiveOldData(h) \/ ReceiveHangs(h) \/ ReceiveOverflows(h)
           \/ Absorb(h) \/ Fault(h)
  <2>1. UNCHANGED txVars /\ UNCHANGED termination_state
    BY <1>1 DEF ReadEofBusy, Drain, ReceiveCorrupt, ReceiveData, ReceiveOldData,
                ReceiveHangs, ReceiveOverflows, ReceiverStops, Absorb, Fault, Drop,
                Duplicate, Delay, Corrupt, Strikes, ctlVars
  <2> QED
    BY <2>1, SendStays DEF txVars
<1>2. CASE ReadData(h) \/ ReadEofCloses(h) \/ PacingTimer(h) \/ ctcp_timer(h)
  BY <1>2, ReadDataSends, ReadEofClosesSends, PacingTimerSends, TimerSends
<1>3. CASE ReceiveFin(h) \/ ReceiveFinAck(h) \/ ReceiveAck(h)
  BY <1>3, ReceiveFinSends, ReceiveFinAckSends, ReceiveAckSends
<1> QED
  BY <1>1, <1>2, <1>3 DEF Receive

(* A handler of one host leaves the other's lists and counters alone.       *)
LEMMA PeerSends ==
  ASSUME TypeOK, NEW h \in Host, NEW g \in Host, g # h, SendInv(g),
         \/ ReadData(h) \/ ReadEofBusy(h) \/ ReadEofCloses(h) \/ PacingTimer(h)
         \/ Drain(h) \/ Receive(h) \/ Absorb(h) \/ ctcp_timer(h) \/ Fault(h)
  PROVE  SendInv(g)'
<1> USE DEF txVars, ctlVars, TypeOK, TxTypeOK, CtlTypeOK
<1>1. CASE \/ ReadEofBusy(h) \/ Drain(h) \/ ReceiveCorrupt(h) \/ ReceiveData(h)
           \/ ReceiveOldData(h) \/ ReceiveHangs(h) \/ ReceiveOverflows(h)
           \/ Absorb(h) \/ Fault(h)
  <2>1. UNCHANGED txVars /\ UNCHANGED termination_state
    BY <1>1 DEF ReadEofBusy, Drain, ReceiveCorrupt, ReceiveData, ReceiveOldData,
                ReceiveHangs, ReceiveOverflows, ReceiverStops, Absorb, Fault, Drop,
                Duplicate, Delay, Corrupt, Strikes
  <2> QED
    BY <2>1, SendStays
<1>2. CASE ReadData(h)
  BY <1>2, SendStays DEF ReadData
<1>3. CASE ReadEofCloses(h)
  BY <1>3, SendStays DEF ReadEofCloses
<1>4. CASE PacingTimer(h)
  BY <1>4, SendStays DEF PacingTimer
<1>5. CASE ctcp_timer(h)
  BY <1>5, SendStays DEF ctcp_timer, TimerCloses, TimerWaits, TimerRetransmits, TimerTearsDown
<1>6. CASE ReceiveFin(h)
  BY <1>6, SendStays DEF ReceiveFin
<1>7. CASE ReceiveFinAck(h)
  BY <1>7, SendStays DEF ReceiveFinAck
<1>8. CASE ReceiveAck(h)
  BY <1>8, SendStays DEF ReceiveAck
<1> QED
  BY <1>1, <1>2, <1>3, <1>4, <1>5, <1>6, <1>7, <1>8 DEF Receive

(* The sender's lists, tx_in_flight_bytes and the FIN agree in every        *)
(* behaviour: what is sent lies without a gap before what waits.            *)
THEOREM SendCorrect == Spec => [](\A h \in Host : SendInv(h))
<1>1. Init => \A h \in Host : SendInv(h)
  <2> SUFFICES ASSUME Init, NEW h \in Host PROVE SendInv(h)
    OBVIOUS
  <2>1. /\ segments[h] = << >> /\ waiting_segments[h] = << >>
        /\ tx_in_flight_bytes[h] = 0 /\ termination_state[h] = "CONN_ESTABLISHED"
    BY DEF Init
  <2>2. Len(segments[h]) = 0 /\ Len(waiting_segments[h]) = 0
    BY <2>1
  <2> QED
    BY <2>1, <2>2 DEF SendInv, Chained, FlightOf, FinOf
<1>2. TypeOK /\ TypeOK' /\ StreamInvariant /\ (\A h \in Host : SendInv(h)) /\ [Next]_vars
        => (\A h \in Host : SendInv(h))'
  <2> SUFFICES ASSUME TypeOK, TypeOK', StreamInvariant, \A h \in Host : SendInv(h), [Next]_vars,
                      NEW g \in Host
               PROVE  SendInv(g)'
    OBVIOUS
  <2>1. CASE UNCHANGED vars
    BY <2>1, SendStays DEF vars, txVars, ctlVars
  <2>2. CASE Next
    <3>1. PICK h \in Host :
            \/ ReadData(h) \/ ReadEofBusy(h) \/ ReadEofCloses(h) \/ PacingTimer(h)
            \/ Drain(h) \/ Receive(h) \/ Absorb(h) \/ ctcp_timer(h) \/ Fault(h)
      BY <2>2 DEF Next
    <3>2. CASE g = h
      <4>1. SenderInv(h)
        BY DEF StreamInvariant
      <4> QED
        BY <3>1, <3>2, <4>1, HandlerSends
    <3>3. CASE g # h
      BY <3>1, <3>3, PeerSends
    <3> QED
      BY <3>2, <3>3
  <2> QED
    BY <2>1, <2>2
<1> QED
  BY <1>1, <1>2, TypeCorrect, StreamCorrect, PTL DEF Spec

(* tx_in_flight_bytes is the distance from the oldest unacknowledged byte   *)
(* to the next unsent one, whatever is retransmitted, lost or acknowledged  *)
(* (send_segment, the ACK loop of ctcp_receive).                            *)
THEOREM InFlight == Spec => []InFlightAccounting
<1>1. (\A h \in Host : SendInv(h)) => InFlightAccounting
  BY DEF SendInv, FlightOf, InFlightAccounting
<1> QED
  BY <1>1, SendCorrect, PTL

(* A FIN is never lost between the change of the state and the window test  *)
(* of send_segment: it is stored until it is acknowledged.                  *)
THEOREM FinIsStored == Spec => []FinStored
<1>1. (\A h \in Host : SendInv(h)) => FinStored
  BY DEF SendInv, FinOf, FinStored
<1> QED
  BY <1>1, SendCorrect, PTL

-----------------------------------------------------------------------------
(* The receive buffer *)

(* A list is strictly ordered by the comparison of ll_add_in_order.         *)
Sorted(list) ==
  \A i, j \in 1..Len(list) : i < j => NetLess(list[i].seqno, list[j].seqno)

(* The partial sums of the lengths in a list, up to total.                  *)
PartialSums(list, f) ==
  /\ f \in [0..Len(list) -> Int] /\ f[0] = 0
  /\ \A i \in 1..Len(list) : f[i] = f[i - 1] + list[i].len
HasBytes(list, total) == \E f : PartialSums(list, f) /\ f[Len(list)] = total

BufferInv(h) ==
  /\ HasBytes(received_segments[h], rx_waiting_bytes[h])
  /\ rx_waiting_bytes[h] <= RecvWindow
  /\ Sorted(received_segments[h])
  /\ \A i \in 1..Len(received_segments[h]) :
       received_segments[h][i].seqno >= rx_next_output_seqno[h]

(* The order of bytes reversed is a strict order.                           *)
LEMMA NetLessOrder ==
  ASSUME NEW a \in Nat, NEW b \in Nat, NEW c \in Nat
  PROVE  /\ NetLess(a, b) /\ NetLess(b, c) => NetLess(a, c)
         /\ ~NetLess(a, a)
<1>1. \A n \in Nat : NetworkBytes(n) \in [1..4 -> Int]
  <2> SUFFICES ASSUME NEW n \in Nat PROVE NetworkBytes(n) \in [1..4 -> Int]
    OBVIOUS
  <2> DEFINE b1 == n % 256
             b2 == (n \div 256) % 256
             b3 == (n \div 65536) % 256
             b4 == (n \div 16777216) % 256
  <2>1. b1 \in Int /\ b2 \in Int /\ b3 \in Int /\ b4 \in Int
    OBVIOUS
  <2> HIDE DEF b1, b2, b3, b4
  <2>2. << b1, b2, b3, b4 >> \in [1..4 -> Int]
    BY <2>1
  <2> QED
    BY <2>2 DEF NetworkBytes, b1, b2, b3, b4
<1> DEFINE A == NetworkBytes(a)
           B == NetworkBytes(b)
           C == NetworkBytes(c)
<1>2. A \in [1..4 -> Int] /\ B \in [1..4 -> Int] /\ C \in [1..4 -> Int]
  BY <1>1
<1>3. ASSUME NetLess(a, b), NetLess(b, c) PROVE NetLess(a, c)
  <2>1. PICK i \in 1..4 : A[i] < B[i] /\ \A k \in 1..(i - 1) : A[k] = B[k]
    BY <1>3 DEF NetLess
  <2>2. PICK j \in 1..4 : B[j] < C[j] /\ \A k \in 1..(j - 1) : B[k] = C[k]
    BY <1>3 DEF NetLess
  <2> HIDE DEF A, B, C
  <2>3. \E l \in 1..4 : A[l] < C[l] /\ \A k \in 1..(l - 1) : A[k] = C[k]
    <3>1. CASE i < j
      <4>1. B[i] = C[i] /\ \A k \in 1..(i - 1) : k \in 1..(j - 1)
        BY <2>2, <3>1
      <4>2. A[i] < C[i] /\ \A k \in 1..(i - 1) : A[k] = C[k]
        BY <2>1, <2>2, <4>1
      <4> QED
        BY <4>2
    <3>2. CASE i = j
      <4>1. A[i] < C[i]
        BY <1>2, <2>1, <2>2, <3>2
      <4> QED
        BY <2>1, <2>2, <3>2, <4>1
    <3>3. CASE j < i
      <4>1. A[j] = B[j] /\ \A k \in 1..(j - 1) : k \in 1..(i - 1)
        BY <2>1, <3>3
      <4>2. A[j] < C[j] /\ \A k \in 1..(j - 1) : A[k] = C[k]
        BY <2>1, <2>2, <4>1
      <4> QED
        BY <4>2
    <3> QED
      BY <3>1, <3>2, <3>3
  <2> QED
    BY <2>3 DEF NetLess, A, C
<1>4. ~NetLess(a, a)
  <2> SUFFICES ASSUME NEW i \in 1..4 PROVE ~ (A[i] < A[i])
    BY DEF NetLess
  <2> HIDE DEF A
  <2> QED
    BY <1>2
<1> QED
  BY <1>3, <1>4

(* The sum of a list is the last of its partial sums.                       *)
LEMMA BytesOfSums ==
  ASSUME NEW list \in Seq(Segment), NEW f, PartialSums(list, f)
  PROVE  BytesIn(list) = f[Len(list)]
<1> DEFINE n == Len(list)
           Sums(g) == g = [i \in 0..n |-> IF i = 0 THEN 0 ELSE g[i - 1] + list[i].len]
<1>1. n \in Nat
  BY LenProperties
<1>2. Sums(f)
  <2>1. \A i \in 0..n : f[i] = IF i = 0 THEN 0 ELSE f[i - 1] + list[i].len
    BY <1>1 DEF PartialSums
  <2> QED
    BY <2>1 DEF PartialSums
<1> DEFINE s == CHOOSE g : Sums(g)
<1>3. Sums(s)
  BY <1>2
<1>4. BytesIn(list) = s[n]
  BY DEF BytesIn
<1> HIDE DEF s
<1>5. \A i \in 0..n : s[i] = IF i = 0 THEN 0 ELSE s[i - 1] + list[i].len
  BY <1>3
<1> DEFINE T == {i \in 0..n : s[i] # f[i]}
<1>6. T = {}
  <2> SUFFICES ASSUME T # {} PROVE FALSE
    OBVIOUS
  <2>0. T \subseteq Nat
    BY <1>1
  <2>1. PICK x \in T : \A y \in T : x <= y
    BY <2>0, LeastElement
  <2>2. x # 0
    BY <1>5, <2>1 DEF PartialSums
  <2>3. x - 1 \in 0..n /\ x \in 1..n /\ ~ (x <= x - 1)
    BY <1>1, <2>1, <2>2
  <2>4. s[x - 1] = f[x - 1]
    BY <2>1, <2>3
  <2>5. s[x] = s[x - 1] + list[x].len
    BY <1>5, <2>2, <2>3
  <2>6. f[x] = f[x - 1] + list[x].len
    BY <2>3 DEF PartialSums
  <2> QED
    BY <2>1, <2>4, <2>5, <2>6
<1> QED
  BY <1>1, <1>4, <1>6

(* A segment put before the others, or after them.                          *)
LEMMA BytesOfFront ==
  ASSUME NEW list \in Seq(Segment), NEW s \in Segment, NEW total \in Int, HasBytes(list, total)
  PROVE  HasBytes(<< s >> \o list, total + s.len)
<1> DEFINE n == Len(list)
           longer == << s >> \o list
<1>1. PICK f : PartialSums(list, f) /\ f[n] = total
  BY DEF HasBytes
<1>2. n \in Nat /\ s.len \in Nat
  BY LenProperties DEF Segment
<1>3. Len(longer) = n + 1 /\ longer[1] = s /\ \A i \in 2..(n + 1) : longer[i] = list[i - 1]
  <2>1. << s >> \in Seq(Segment) /\ Len(<< s >>) = 1
    OBVIOUS
  <2> QED
    BY <1>2, <2>1, ConcatProperties
<1> HIDE DEF longer
<1> DEFINE g == [i \in 0..(n + 1) |-> IF i = 0 THEN 0 ELSE f[i - 1] + s.len]
<1>4. \A i \in 1..(n + 1) : i - 1 \in 0..n /\ f[i - 1] \in Int
  BY <1>1, <1>2, SMTT(30) DEF PartialSums
<1>5. g \in [0..(n + 1) -> Int] /\ g[0] = 0 /\ g[n + 1] = total + s.len
  BY <1>1, <1>2, <1>4
<1>6. \A i \in 1..(n + 1) : g[i] = f[i - 1] + s.len
  BY <1>2
<1> HIDE DEF g
<1>7. ASSUME NEW i \in 1..(n + 1) PROVE g[i] = g[i - 1] + longer[i].len
  <2>1. CASE i = 1
    <3>1. f[0] = 0
      BY <1>1 DEF PartialSums
    <3> QED
      BY <1>2, <1>3, <1>5, <1>6, <2>1, <3>1
  <2>2. CASE i # 1
    <3>1. i - 1 \in 1..n /\ i \in 2..(n + 1) /\ i - 1 \in 1..(n + 1)
      BY <1>2, <2>2
    <3>2. f[i - 1] = f[(i - 1) - 1] + list[i - 1].len
      BY <1>1, <3>1 DEF PartialSums
    <3>3. list[i - 1].len \in Nat /\ f[(i - 1) - 1] \in Int
      <4>1. list[i - 1] \in Segment
        BY <3>1, ElementOfSeq
      <4> QED
        BY <1>4, <3>1, <4>1 DEF Segment
    <3>4. g[i] = f[i - 1] + s.len /\ g[i - 1] = f[(i - 1) - 1] + s.len
      BY <1>6, <3>1
    <3>5. longer[i] = list[i - 1]
      BY <1>3, <3>1
    <3> QED
      BY <1>2, <3>2, <3>3, <3>4, <3>5
  <2> QED
    BY <2>1, <2>2
<1>8. PartialSums(longer, g) /\ g[Len(longer)] = total + s.len
  BY <1>3, <1>5, <1>7 DEF PartialSums
<1> QED
  BY <1>8 DEF HasBytes, longer

LEMMA BytesOfBack ==
  ASSUME NEW list \in Seq(Segment), NEW s \in Segment, NEW total \in Int, HasBytes(list, total)
  PROVE  HasBytes(Append(list, s), total + s.len)
<1> DEFINE n == Len(list)
           longer == Append(list, s)
<1>1. PICK f : PartialSums(list, f) /\ f[n] = total
  BY DEF HasBytes
<1>2. n \in Nat /\ s.len \in Nat
  BY LenProperties DEF Segment
<1>3. Len(longer) = n + 1 /\ longer[n + 1] = s /\ \A i \in 1..n : longer[i] = list[i]
  BY AppendProperties
<1> HIDE DEF longer
<1> DEFINE g == [i \in 0..(n + 1) |-> IF i = n + 1 THEN total + s.len ELSE f[i]]
<1>4. \A i \in 0..n : f[i] \in Int
  BY <1>1 DEF PartialSums
<1>5. g \in [0..(n + 1) -> Int] /\ g[0] = 0 /\ g[n + 1] = total + s.len
  BY <1>1, <1>2, <1>4 DEF PartialSums
<1>6. \A i \in 0..n : g[i] = f[i]
  BY <1>2
<1> HIDE DEF g
<1>7. ASSUME NEW i \in 1..(n + 1) PROVE g[i] = g[i - 1] + longer[i].len
  <2>1. i - 1 \in 0..n /\ (i # n + 1 => i \in 1..n /\ i \in 0..n)
    BY <1>2
  <2>2. CASE i = n + 1
    BY <1>1, <1>2, <1>3, <1>5, <1>6, <2>1, <2>2
  <2>3. CASE i # n + 1
    <3>1. f[i] = f[i - 1] + list[i].len
      BY <1>1, <2>1, <2>3 DEF PartialSums
    <3> QED
      BY <1>3, <1>6, <2>1, <2>3, <3>1
  <2> QED
    BY <2>2, <2>3
<1>8. PartialSums(longer, g) /\ g[Len(longer)] = total + s.len
  BY <1>3, <1>5, <1>7 DEF PartialSums
<1> QED
  BY <1>8 DEF HasBytes, longer

LEMMA RestOfSeq ==
  ASSUME NEW list \in Seq(Segment), NEW n \in 0..Len(list)
  PROVE  LET rest == SubSeq(list, n + 1, Len(list))
         IN  /\ rest \in Seq(Segment) /\ Len(rest) = Len(list) - n
             /\ \A i \in 1..(Len(list) - n) : rest[i] = list[n + i]
<1> DEFINE m == Len(list)
<1>1. m \in Nat /\ n \in Nat /\ n <= m
  BY LenProperties
<1>2. \A i \in (n + 1)..m : list[i] \in Segment
  BY <1>1, ElementOfSeq
<1> QED
  BY <1>1, <1>2, SubSeqProperties

(* What is left after the first n segments.                                 *)
LEMMA BytesOfRest ==
  ASSUME NEW list \in Seq(Segment), NEW f, PartialSums(list, f), NEW n \in 0..Len(list)
  PROVE  HasBytes(SubSeq(list, n + 1, Len(list)), f[Len(list)] - f[n])
<1> DEFINE m == Len(list)
           rest == SubSeq(list, n + 1, m)
<1>1. m \in Nat /\ n \in Nat /\ n <= m
  BY LenProperties
<1>2. Len(rest) = m - n /\ \A i \in 1..(m - n) : rest[i] = list[n + i]
  BY <1>1, RestOfSeq
<1> HIDE DEF rest
<1> DEFINE g == [i \in 0..(m - n) |-> f[n + i] - f[n]]
<1>3. \A i \in 0..m : f[i] \in Int
  BY DEF PartialSums
<1>4. \A i \in 0..(m - n) : n + i \in 0..m
  BY <1>1
<1>5. g \in [0..(m - n) -> Int]
  BY <1>1, <1>3, <1>4
<1>6. g[0] = 0 /\ g[m - n] = f[m] - f[n]
  BY <1>1, <1>3
<1>7. \A i \in 0..(m - n) : g[i] = f[n + i] - f[n]
  OBVIOUS
<1> HIDE DEF g
<1>8. ASSUME NEW i \in 1..(m - n) PROVE g[i] = g[i - 1] + rest[i].len
  <2>1. /\ n + i \in 1..m /\ i - 1 \in 0..(m - n) /\ i \in 0..(m - n)
        /\ (n + i) - 1 = n + (i - 1) /\ n + (i - 1) \in 0..m /\ n + i \in 0..m
    BY <1>1
  <2>2. f[n + i] = f[n + (i - 1)] + list[n + i].len
    <3>1. f[n + i] = f[(n + i) - 1] + list[n + i].len
      BY <2>1 DEF PartialSums
    <3> QED
      BY <2>1, <3>1
  <2>3. list[n + i].len \in Nat
    <3>1. list[n + i] \in Segment
      BY <2>1, ElementOfSeq
    <3> QED
      BY <3>1 DEF Segment
  <2>4. f[n + (i - 1)] \in Int /\ f[n] \in Int
    BY <1>1, <1>3, <2>1
  <2>5. g[i] = f[n + i] - f[n] /\ g[i - 1] = f[n + (i - 1)] - f[n]
    BY <1>7, <2>1
  <2>6. rest[i] = list[n + i]
    BY <1>2
  <2> QED
    BY <2>2, <2>3, <2>4, <2>5, <2>6
<1>9. PartialSums(rest, g) /\ g[Len(rest)] = f[m] - f[n]
  BY <1>1, <1>2, <1>5, <1>6, <1>8 DEF PartialSums
<1> QED
  BY <1>9 DEF HasBytes, rest

(* ll_add_in_order keeps the order, wherever it finds a place.              *)
LEMMA InsertSorted ==
  ASSUME NEW list \in Seq(Segment), NEW s \in Segment, Sorted(list)
  PROVE  Sorted(AddInOrder(list, s))
<1> DEFINE n == Len(list)
           place == AddInOrderPlace(list, s)
<1>1. /\ n \in Nat /\ (list = << >> <=> n = 0) /\ s.seqno \in Nat
      /\ \A i \in 1..n : list[i] \in Segment /\ list[i].seqno \in Nat
  <2>1. n \in Nat /\ (list = << >> <=> n = 0)
    BY LenProperties, EmptySeq
  <2>2. \A i \in 1..n : list[i] \in Segment
    BY ElementOfSeq
  <2> QED
    BY <2>1, <2>2 DEF Segment
<1>2. CASE place = "front"
  <2> DEFINE longer == << s >> \o list
  <2>1. AddInOrder(list, s) = longer /\ n # 0 /\ NetLess(s.seqno, list[1].seqno)
    BY <1>1, <1>2 DEF AddInOrder, AddInOrderPlace
  <2>2. Len(longer) = n + 1 /\ longer[1] = s /\ \A i \in 2..(n + 1) : longer[i] = list[i - 1]
    <3>1. << s >> \in Seq(Segment) /\ Len(<< s >>) = 1
      OBVIOUS
    <3> QED
      BY <1>1, <3>1, ConcatProperties
  <2> HIDE DEF longer
  <2>3. \A j \in 1..n : NetLess(s.seqno, list[j].seqno)
    <3> SUFFICES ASSUME NEW j \in 1..n PROVE NetLess(s.seqno, list[j].seqno)
      OBVIOUS
    <3>1. 1 \in 1..n /\ (j = 1 \/ 1 < j)
      BY <1>1
    <3>2. 1 < j => NetLess(list[1].seqno, list[j].seqno)
      BY <3>1 DEF Sorted
    <3> QED
      BY <1>1, <2>1, <3>1, <3>2, NetLessOrder
  <2>4. ASSUME NEW i \in 1..(n + 1), NEW j \in 1..(n + 1), i < j
        PROVE  NetLess(longer[i].seqno, longer[j].seqno)
    <3>1. j \in 2..(n + 1) /\ j - 1 \in 1..n /\ (i # 1 => i \in 2..(n + 1) /\ i - 1 \in 1..n)
          /\ i - 1 < j - 1
      BY <1>1, <2>4
    <3> QED
      BY <2>2, <2>3, <3>1 DEF Sorted
  <2> QED
    BY <2>1, <2>2, <2>4 DEF Sorted
<1>3. CASE place = "back"
  <2> DEFINE longer == Append(list, s)
  <2>1. AddInOrder(list, s) = longer /\ (n # 0 => NetLess(list[n].seqno, s.seqno))
    BY <1>1, <1>3 DEF AddInOrder, AddInOrderPlace
  <2>2. Len(longer) = n + 1 /\ longer[n + 1] = s /\ \A i \in 1..n : longer[i] = list[i]
    BY AppendProperties
  <2> HIDE DEF longer
  <2>3. \A i \in 1..n : NetLess(list[i].seqno, s.seqno)
    <3> SUFFICES ASSUME NEW i \in 1..n PROVE NetLess(list[i].seqno, s.seqno)
      OBVIOUS
    <3>1. n \in 1..n /\ (i = n \/ i < n)
      BY <1>1
    <3>2. i < n => NetLess(list[i].seqno, list[n].seqno)
      BY <3>1 DEF Sorted
    <3> QED
      BY <1>1, <2>1, <3>1, <3>2, NetLessOrder
  <2>4. ASSUME NEW i \in 1..(n + 1), NEW j \in 1..(n + 1), i < j
        PROVE  NetLess(longer[i].seqno, longer[j].seqno)
    <3>1. i \in 1..n /\ (j # n + 1 => j \in 1..n)
      BY <1>1, <2>4
    <3> QED
      BY <2>2, <2>3, <2>4, <3>1 DEF Sorted
  <2> QED
    BY <2>1, <2>2, <2>4 DEF Sorted
<1>4. CASE place \notin {"front", "back"}
  BY <1>4 DEF AddInOrder
<1> QED
  BY <1>2, <1>3, <1>4

(* rx_waiting_bytes is counted up exactly when ll_add_in_order inserts.     *)
LEMMA InsertCounted ==
  ASSUME TypeOK, NEW h \in Host, BufferInv(h), Head(net[h]) \in Segment
  PROVE  /\ HasBytes(AddInOrder(received_segments[h], Head(net[h])), WaitingWith(h))
         /\ WaitingWith(h) \in Int
<1> DEFINE list == received_segments[h]
           s == Head(net[h])
<1>1. list \in Seq(Segment) /\ rx_waiting_bytes[h] \in Int /\ s \in Segment /\ s.len \in Nat
      /\ HasBytes(list, rx_waiting_bytes[h])
  BY DEF TypeOK, RxTypeOK, Segment, BufferInv
<1>2. CASE Place(h) = "front"
  <2>1. AddInOrder(list, s) = << s >> \o list /\ WaitingWith(h) = rx_waiting_bytes[h] + s.len
    BY <1>2 DEF AddInOrder, Place, WaitingWith
  <2>2. HasBytes(<< s >> \o list, rx_waiting_bytes[h] + s.len)
    BY <1>1, BytesOfFront
  <2>3. rx_waiting_bytes[h] + s.len \in Int
    BY <1>1
  <2>4. HasBytes(AddInOrder(list, s), WaitingWith(h))
    BY <2>1, <2>2, Zenon
  <2> QED
    BY <2>1, <2>3, <2>4
<1>3. CASE Place(h) = "back"
  <2>1. AddInOrder(list, s) = Append(list, s) /\ WaitingWith(h) = rx_waiting_bytes[h] + s.len
    BY <1>3 DEF AddInOrder, Place, WaitingWith
  <2>2. HasBytes(Append(list, s), rx_waiting_bytes[h] + s.len)
    BY <1>1, BytesOfBack
  <2>3. rx_waiting_bytes[h] + s.len \in Int
    BY <1>1
  <2>4. HasBytes(AddInOrder(list, s), WaitingWith(h))
    BY <2>1, <2>2, Zenon
  <2> QED
    BY <2>1, <2>3, <2>4
<1>4. CASE Place(h) \notin {"front", "back"}
  BY <1>1, <1>4 DEF AddInOrder, Place, WaitingWith
<1> QED
  BY <1>2, <1>3, <1>4

(* The bytes of the first segments output are the distance they advance     *)
(* rx_next_output_seqno.                                                    *)
LEMMA OutputBytes ==
  ASSUME TypeOK, NEW h \in Host, NEW rcvd \in Seq(Segment), NEW f, PartialSums(rcvd, f),
         NEW n \in 0..Len(rcvd), NEW taken, NEW queued, Outputs(h, rcvd, n, taken, queued)
  PROVE  /\ n # 0 => f[n] = End(rcvd[n]) - rx_next_output_seqno[h]
         /\ f[n] \in Nat
<1> DEFINE m == Len(rcvd)
           next == rx_next_output_seqno[h]
           T == {i \in 1..n : ~ (f[i] = End(rcvd[i]) - next /\ f[i] >= 0)}
<1>1. m \in Nat /\ n \in Nat /\ n <= m /\ next \in Nat
  BY LenProperties, HostTypes
<1>2. \A i \in 1..n : /\ rcvd[i] \in Segment /\ rcvd[i].seqno \in Nat /\ rcvd[i].len \in Nat
                      /\ rcvd[i].seqno = (IF i = 1 THEN next ELSE End(rcvd[i - 1]))
                      /\ f[i] = f[i - 1] + rcvd[i].len /\ f[i] \in Int
                      /\ End(rcvd[i]) = rcvd[i].seqno + rcvd[i].len
  <2> SUFFICES ASSUME NEW i \in 1..n
               PROVE  /\ rcvd[i] \in Segment /\ rcvd[i].seqno \in Nat /\ rcvd[i].len \in Nat
                      /\ rcvd[i].seqno = (IF i = 1 THEN next ELSE End(rcvd[i - 1]))
                      /\ f[i] = f[i - 1] + rcvd[i].len /\ f[i] \in Int
                      /\ End(rcvd[i]) = rcvd[i].seqno + rcvd[i].len
    OBVIOUS
  <2>1. i \in 1..m /\ i \in 0..m
    BY <1>1
  <2>2. rcvd[i] \in Segment
    BY <2>1, ElementOfSeq
  <2> QED
    BY <2>1, <2>2 DEF Segment, Outputs, PartialSums, End
<1>3. f[0] = 0
  BY DEF PartialSums
<1>4. T = {}
  <2> SUFFICES ASSUME T # {} PROVE FALSE
    OBVIOUS
  <2>0. T \subseteq Nat
    BY <1>1
  <2>1. PICK x \in T : \A y \in T : x <= y
    BY <2>0, LeastElement
  <2>2. CASE x = 1
    <3>1. f[1] = f[1 - 1] + rcvd[1].len /\ rcvd[1].seqno = next /\ rcvd[1].len \in Nat
          /\ End(rcvd[1]) = rcvd[1].seqno + rcvd[1].len
      BY <1>2, <2>1, <2>2
    <3> QED
      BY <1>1, <1>3, <2>1, <2>2, <3>1
  <2>3. CASE x # 1
    <3>1. x - 1 \in 1..n /\ ~ (x <= x - 1)
      BY <1>1, <2>1, <2>3
    <3>2. f[x - 1] = End(rcvd[x - 1]) - next /\ f[x - 1] >= 0
      BY <2>1, <3>1
    <3>3. /\ f[x] = f[x - 1] + rcvd[x].len /\ rcvd[x].seqno = End(rcvd[x - 1])
          /\ End(rcvd[x]) = rcvd[x].seqno + rcvd[x].len /\ rcvd[x].len \in Nat
          /\ rcvd[x].seqno \in Nat /\ f[x - 1] \in Int
      BY <1>2, <2>1, <2>3, <3>1
    <3>4. f[x] = End(rcvd[x]) - next /\ f[x] >= 0
      BY <1>1, <3>2, <3>3, SMTT(30)
    <3> QED
      BY <2>1, <3>4
  <2> QED
    BY <2>2, <2>3
<1>5. n # 0 => n \in 1..n
  BY <1>1
<1> QED
  BY <1>1, <1>2, <1>3, <1>4, <1>5

(* A chunk that is not among the next ones, and not before them, starts     *)
(* after the last of them.                                                  *)
LEMMA LaterChunk ==
  ASSUME TypeOK, NEW p \in Host, InputInv(p), NEW l \in Nat, NEW n \in Nat,
         l + n <= Len(input[p]), NEW d \in 1..Len(input[p]),
         input[p][d].seqno >= Start(p, l + 1),
         \A i \in 1..n : d # l + i
  PROVE  input[p][d].seqno >= Start(p, l + n + 1)
<1> DEFINE m == Len(input[p])
           from(i) == input[p][i].seqno
           to(i) == End(input[p][i])
<1>1. /\ m \in Nat
      /\ \A i \in 1..m : from(i) \in Nat /\ to(i) \in Nat /\ from(i) < to(i)
  <2>1. m \in Nat /\ \A i \in 1..m : input[p][i] \in [seqno : Nat, len : Nat]
    BY HostTypes
  <2> QED
    BY <2>1, SMTT(30) DEF InputInv, End
<1>2. \A i \in 1..m : from(i) = Start(p, i) /\ Start(p, i + 1) = to(i)
  <2>1. ASSUME NEW i \in 1..m PROVE from(i) = Start(p, i) /\ Start(p, i + 1) = to(i)
    <3>1. i + 1 # 1 /\ (i + 1) - 1 = i
      BY <1>1
    <3>2. from(i) = Start(p, i)
      BY DEF InputInv
    <3> QED
      BY <3>1, <3>2 DEF Start
  <2> QED
    BY <2>1
<1>3. \A i, j \in 1..m : i < j => to(i) <= from(j)
  BY DEF InputInv
<1>d. d \in 1..m /\ from(d) >= Start(p, l + 1) /\ l + n <= m
  OBVIOUS
<1>g. SUFFICES from(d) >= Start(p, l + n + 1)
  OBVIOUS
<1> HIDE DEF m, from, to
<1>4. ~ (d <= l)
  <2> SUFFICES ASSUME d <= l PROVE FALSE
    OBVIOUS
  <2>1. l \in 1..m /\ d \in 1..m
    BY <1>1, <1>d
  <2>2. Start(p, l + 1) = to(l) /\ from(l) < to(l) /\ from(d) < to(d)
        /\ from(l) \in Nat /\ to(l) \in Nat /\ from(d) \in Nat /\ to(d) \in Nat
    BY <1>1, <1>2, <2>1
  <2>3. d = l \/ to(d) <= from(l)
    BY <1>1, <1>3, <2>1
  <2> QED
    BY <1>d, <2>2, <2>3
<1>5. d > l + n
  <2>1. d - l \in 1..n \/ d > l + n
    BY <1>1, <1>4, <1>d
  <2>2. l + (d - l) = d
    BY <1>1, <1>d
  <2> QED
    BY <2>1, <2>2
<1>6. CASE d = l + n + 1
  <2>1. from(d) = Start(p, d) /\ from(d) \in Nat
    BY <1>1, <1>2, <1>d
  <2> QED
    BY <1>6, <2>1
<1>7. CASE d # l + n + 1
  <2>1. l + n + 1 \in 1..m /\ l + n + 1 < d
    BY <1>1, <1>5, <1>7, <1>d
  <2> DEFINE q == l + n + 1
  <2>2. to(q) <= from(d) /\ Start(p, q) = from(q)
    BY <1>1, <1>2, <1>3, <2>1, <1>d
  <2>3. from(q) < to(q) /\ from(q) \in Nat /\ to(q) \in Nat /\ from(d) \in Nat
    BY <1>1, <2>1, <1>d
  <2> QED
    BY <2>2, <2>3
<1> QED
  BY <1>6, <1>7

(* ctcp_output leaves in the buffer what comes later, and counts it.        *)
LEMMA OutputBuffers ==
  ASSUME TypeOK, \A g \in Host : StreamInv(g), NEW h \in Host,
         NEW rcvd \in Seq(Segment), \A i \in 1..Len(rcvd) : IsChunk(Peer(h), rcvd[i]),
         Sorted(rcvd), \A i \in 1..Len(rcvd) : rcvd[i].seqno >= rx_next_output_seqno[h],
         NEW waiting \in Int, HasBytes(rcvd, waiting), waiting <= RecvWindow,
         NEW queued, NEW transit, ctcp_output(h, rcvd, waiting, queued, transit)
  PROVE  BufferInv(h)'
<1> DEFINE p == Peer(h)
<1>1. PICK n, taken :
        /\ n \in 0..Len(rcvd) /\ Outputs(h, rcvd, n, taken, queued)
        /\ LET next == IF n = 0 THEN rx_next_output_seqno[h] ELSE End(rcvd[n])
           IN  /\ rx_next_output_seqno' = [rx_next_output_seqno EXCEPT ![h] = next]
               /\ rx_waiting_bytes' =
                    [rx_waiting_bytes EXCEPT ![h] = waiting - (next - rx_next_output_seqno[h])]
        /\ received_segments' = [received_segments EXCEPT ![h] = SubSeq(rcvd, n + 1, Len(rcvd))]
  BY DEF ctcp_output
<1>2. PICK f : PartialSums(rcvd, f) /\ f[Len(rcvd)] = waiting
  BY DEF HasBytes
<1> DEFINE m == Len(rcvd)
           next == IF n = 0 THEN rx_next_output_seqno[h] ELSE End(rcvd[n])
           rest == SubSeq(rcvd, n + 1, m)
<1>3. /\ m \in Nat /\ n \in Nat /\ n <= m /\ rx_next_output_seqno[h] \in Nat
      /\ \A i \in 1..m : rcvd[i] \in Segment /\ rcvd[i].seqno \in Nat
  <2>1. \A i \in 1..m : rcvd[i] \in Segment
    BY ElementOfSeq
  <2> QED
    BY <1>1, <2>1, LenProperties, HostTypes, SMTT(30) DEF Segment
<1>4. /\ rx_next_output_seqno'[h] = next /\ received_segments'[h] = rest
      /\ rx_waiting_bytes'[h] = waiting - (next - rx_next_output_seqno[h])
  BY <1>1 DEF TypeOK, RxTypeOK
<1>5. f[n] \in Nat /\ f[n] = next - rx_next_output_seqno[h]
  <2>1. f[n] \in Nat /\ (n # 0 => f[n] = End(rcvd[n]) - rx_next_output_seqno[h])
    BY <1>1, <1>2, OutputBytes
  <2>2. n = 0 => f[n] = 0
    BY <1>2 DEF PartialSums
  <2> QED
    BY <1>3, <2>1, <2>2
<1>6. /\ rest \in Seq(Segment) /\ Len(rest) = m - n
      /\ \A i \in 1..(m - n) : rest[i] = rcvd[n + i] /\ n + i \in 1..m
  BY <1>1, <1>3, RestOfSeq, SMTT(30)
<1>7. HasBytes(rest, f[m] - f[n])
  BY <1>1, <1>2, BytesOfRest
<1>8. HasBytes(rest, rx_waiting_bytes'[h]) /\ rx_waiting_bytes'[h] <= RecvWindow
  <2>1. rx_waiting_bytes'[h] = f[m] - f[n]
    BY <1>2, <1>4, <1>5
  <2>2. f[m] - f[n] <= RecvWindow
    BY <1>2, <1>5, SizesAssumption
  <2> QED
    BY <1>7, <2>1, <2>2
<1> HIDE DEF rest
<1>9. Sorted(rest)
  <2>1. ASSUME NEW i \in 1..(m - n), NEW j \in 1..(m - n), i < j
        PROVE  NetLess(rest[i].seqno, rest[j].seqno)
    <3>1. n + i \in 1..m /\ n + j \in 1..m /\ n + i < n + j
      BY <1>3, <1>6, <2>1
    <3> QED
      BY <1>6, <3>1 DEF Sorted
  <2> QED
    BY <1>6, <2>1 DEF Sorted
<1>10. PICK l \in Nat : l = Len(output[h])
  BY HostTypes
<1>11. p \in Host /\ InputInv(p) /\ Len(input[p]) \in Nat
       /\ rx_next_output_seqno[h] = Start(p, l + 1) /\ l <= Len(input[p])
  BY <1>10, PeerType, HostTypes DEF StreamInv, ReceiverInv
<1>12. \A i \in 1..n : /\ rcvd[i].data = l + i /\ l + i \in 1..Len(input[p])
                       /\ End(rcvd[i]) = Start(p, l + i + 1)
  BY <1>1, <1>10, OutputsNextChunks
<1>13. l + n <= Len(input[p]) /\ next = Start(p, l + n + 1)
  <2>1. CASE n = 0
    BY <1>3, <1>11, <2>1
  <2>2. CASE n # 0
    <3>1. n \in 1..n
      BY <1>3, <2>2
    <3> QED
      BY <1>11, <1>12, <2>2, <3>1
  <2> QED
    BY <2>1, <2>2
<1> HIDE DEF next
<1>14. ASSUME NEW i \in 1..(m - n) PROVE rest[i].seqno >= next
  <2>1. n + i \in 1..m /\ rest[i] = rcvd[n + i]
    BY <1>6
  <2>2. PICK d \in 1..Len(input[p]) : d = rcvd[n + i].data /\ rcvd[n + i].seqno = input[p][d].seqno
    BY <2>1 DEF IsChunk
  <2>3. \A k \in 1..n : d # l + k
    <3> SUFFICES ASSUME NEW k \in 1..n, d = l + k PROVE FALSE
      OBVIOUS
    <3>1. k \in 1..m /\ k < n + i
      BY <1>3
    <3>2. rcvd[k].data = d /\ rcvd[k].seqno = input[p][d].seqno
      BY <1>12, <3>1 DEF IsChunk
    <3>3. NetLess(rcvd[k].seqno, rcvd[n + i].seqno)
      BY <2>1, <3>1 DEF Sorted
    <3> QED
      BY <1>3, <2>1, <2>2, <3>1, <3>2, <3>3, NetLessOrder
  <2>4. input[p][d].seqno >= Start(p, l + 1)
    BY <1>11, <2>1, <2>2
  <2>5. input[p][d].seqno >= Start(p, l + n + 1)
    BY <1>3, <1>11, <1>13, <2>3, <2>4, LaterChunk
  <2> QED
    BY <1>13, <2>1, <2>2, <2>5
<1> QED
  BY <1>4, <1>6, <1>8, <1>9, <1>14 DEF BufferInv

-----------------------------------------------------------------------------
(* The handlers and the receive buffer *)

LEMMA BufferStays ==
  ASSUME NEW g \in Host, BufferInv(g), received_segments'[g] = received_segments[g],
         rx_waiting_bytes'[g] = rx_waiting_bytes[g],
         rx_next_output_seqno'[g] = rx_next_output_seqno[g]
  PROVE  BufferInv(g)'
BY DEF BufferInv, HasBytes, Sorted

(* ctcp_receive of data, new or old, and conn_drain.                        *)
LEMMA HandlerBuffers ==
  ASSUME TypeOK, \A g \in Host : StreamInv(g), NEW h \in Host, BufferInv(h),
         ReceiveData(h) \/ ReceiveOldData(h) \/ Drain(h)
  PROVE  BufferInv(h)'
<1> DEFINE list == received_segments[h]
<1>1. /\ list \in Seq(Segment) /\ rx_waiting_bytes[h] \in Int
      /\ \A i \in 1..Len(list) : IsChunk(Peer(h), list[i]) /\ list[i] \in Segment
  BY HostTypes, ReceivedIsChunk DEF TypeOK, RxTypeOK
<1>2. CASE ReceiveOldData(h) \/ Drain(h)
  <2>1. PICK queued, transit : ctcp_output(h, list, rx_waiting_bytes[h], queued, transit)
    BY <1>2 DEF ReceiveOldData, Drain
  <2> QED
    BY <1>1, <2>1, OutputBuffers DEF BufferInv
<1>3. CASE ReceiveData(h)
  <2> DEFINE s == Head(net[h])
             longer == AddInOrder(list, s)
  <2>1. s \in Segment /\ IsChunk(Peer(h), s)
    BY <1>3, NewDataIsChunk DEF ReceiveData
  <2>2. longer \in Seq(Segment) /\ Sorted(longer)
    BY <1>1, <2>1, AddInOrderType, InsertSorted DEF BufferInv
  <2>3. HasBytes(longer, WaitingWith(h)) /\ WaitingWith(h) \in Int
    BY <2>1, InsertCounted
  <2>4. s.seqno >= rx_next_output_seqno[h]
    <3>1. curr_ackno[h] <= s.seqno
      BY <1>3 DEF ReceiveData, NewData, is_new_data_segment
    <3>2. curr_ackno[h] >= rx_next_output_seqno[h]
      BY HostTypes DEF StreamInv, ReceiverInv
    <3>3. s.seqno \in Nat /\ curr_ackno[h] \in Nat /\ rx_next_output_seqno[h] \in Nat
      BY <2>1, HostTypes DEF Segment
    <3> QED
      BY <3>1, <3>2, <3>3
  <2>5. \A i \in 1..Len(longer) :
          IsChunk(Peer(h), longer[i]) /\ longer[i].seqno >= rx_next_output_seqno[h]
    <3> SUFFICES ASSUME NEW i \in 1..Len(longer)
                 PROVE  IsChunk(Peer(h), longer[i]) /\ longer[i].seqno >= rx_next_output_seqno[h]
      OBVIOUS
    <3>1. longer[i] = s \/ \E j \in 1..Len(list) : longer[i] = list[j]
      BY <1>1, <2>1, AddInOrderElements
    <3> HIDE DEF longer, s
    <3> QED
      BY <1>1, <2>1, <2>4, <3>1 DEF BufferInv
  <2>6. WaitingWith(h) <= RecvWindow /\ ctcp_output(h, longer, WaitingWith(h), out_queue[h], Transit(h))
    BY <1>3 DEF ReceiveData
  <2> HIDE DEF longer
  <2> QED
    BY <2>2, <2>3, <2>5, <2>6, OutputBuffers
<1> QED
  BY <1>2, <1>3

LEMMA OtherBuffers ==
  ASSUME TypeOK, NEW h \in Host, NEW g \in Host, BufferInv(g),
         \/ ReadData(h) \/ ReadEofBusy(h) \/ ReadEofCloses(h) \/ PacingTimer(h)
         \/ Drain(h) \/ Receive(h) \/ Absorb(h) \/ ctcp_timer(h) \/ Fault(h),
         g # h \/ ~ (ReceiveData(h) \/ ReceiveOldData(h) \/ Drain(h))
  PROVE  BufferInv(g)'
<1> USE DEF rxVars, TypeOK, RxTypeOK
<1>1. CASE ReadData(h) \/ ReadEofBusy(h) \/ ReadEofCloses(h) \/ PacingTimer(h)
  BY <1>1, BufferStays DEF ReadData, ReadEofBusy, ReadEofCloses, PacingTimer
<1>2. CASE ctcp_timer(h)
  BY <1>2, BufferStays DEF ctcp_timer, TimerCloses, TimerWaits, TimerRetransmits, TimerTearsDown
<1>3. CASE Absorb(h) \/ Fault(h)
  BY <1>3, BufferStays DEF Absorb, Fault, Drop, Duplicate, Delay, Corrupt, Strikes
<1>4. CASE \/ ReceiveCorrupt(h) \/ ReceiveFin(h) \/ ReceiveFinAck(h) \/ ReceiveAck(h)
           \/ ReceiveHangs(h) \/ ReceiveOverflows(h)
  BY <1>4, BufferStays DEF ReceiveCorrupt, ReceiveFin, ReceiveFinAck, ReceiveAck,
                           ReceiveHangs, ReceiveOverflows, ReceiverStops
<1>5. CASE ReceiveData(h) \/ ReceiveOldData(h) \/ Drain(h)
  <2>1. g # h
    BY <1>5
  <2>2. PICK rcvd, waiting, queued, transit : ctcp_output(h, rcvd, waiting, queued, transit)
    BY <1>5 DEF ReceiveData, ReceiveOldData, Drain
  <2> QED
    BY <2>1, <2>2, BufferStays DEF ctcp_output
<1> QED
  BY <1>1, <1>2, <1>3, <1>4, <1>5 DEF Receive

(* The receive buffer is counted, ordered and current in every behaviour.   *)
THEOREM BufferCorrect == Spec => [](\A h \in Host : BufferInv(h))
<1>1. Init => \A h \in Host : BufferInv(h)
  <2> SUFFICES ASSUME Init, NEW h \in Host PROVE BufferInv(h)
    OBVIOUS
  <2>1. received_segments[h] = << >> /\ rx_waiting_bytes[h] = 0
    BY DEF Init
  <2>2. Len(received_segments[h]) = 0
    BY <2>1
  <2>3. HasBytes(received_segments[h], 0)
    <3>1. PartialSums(received_segments[h], [i \in 0..0 |-> 0])
      BY <2>2 DEF PartialSums
    <3> QED
      BY <2>2, <3>1 DEF HasBytes
  <2> QED
    BY <2>1, <2>2, <2>3, SizesAssumption DEF BufferInv, Sorted
<1>2. TypeOK /\ StreamInvariant /\ (\A h \in Host : BufferInv(h)) /\ [Next]_vars
        => (\A h \in Host : BufferInv(h))'
  <2> SUFFICES ASSUME TypeOK, StreamInvariant, \A h \in Host : BufferInv(h), [Next]_vars,
                      NEW g \in Host
               PROVE  BufferInv(g)'
    OBVIOUS
  <2>1. CASE UNCHANGED vars
    BY <2>1, BufferStays DEF vars, rxVars
  <2>2. CASE Next
    <3>1. PICK h \in Host :
            \/ ReadData(h) \/ ReadEofBusy(h) \/ ReadEofCloses(h) \/ PacingTimer(h)
            \/ Drain(h) \/ Receive(h) \/ Absorb(h) \/ ctcp_timer(h) \/ Fault(h)
      BY <2>2 DEF Next
    <3>2. CASE g = h /\ (ReceiveData(h) \/ ReceiveOldData(h) \/ Drain(h))
      BY <3>2, ByStream, HandlerBuffers
    <3>3. CASE ~ (g = h /\ (ReceiveData(h) \/ ReceiveOldData(h) \/ Drain(h)))
      BY <3>1, <3>3, OtherBuffers
    <3> QED
      BY <3>2, <3>3
  <2> QED
    BY <2>1, <2>2
<1> QED
  BY <1>1, <1>2, TypeCorrect, StreamCorrect, PTL DEF Spec

(* rx_waiting_bytes is the number of bytes in the receive buffer, within    *)
(* the receive window, on any host that is up (ctcp_receive, ctcp_output).  *)
THEOREM ReceiveCounted == Spec => []ReceiveAccounting
<1>1. TypeOK /\ (\A h \in Host : BufferInv(h)) => ReceiveAccounting
  BY HostTypes, BytesOfSums DEF BufferInv, HasBytes, ReceiveAccounting
<1> QED
  BY <1>1, TypeCorrect, BufferCorrect, PTL

(* The receive buffer holds nothing twice and nothing that was output, so   *)
(* its head never blocks ctcp_output for ever.                              *)
THEOREM NothingStale == Spec => []NothingStaleBuffered
<1>1. (\A h \in Host : BufferInv(h)) => NothingStaleBuffered
  BY DEF BufferInv, Sorted, NothingStaleBuffered
<1> QED
  BY <1>1, BufferCorrect, PTL
=============================================================================
