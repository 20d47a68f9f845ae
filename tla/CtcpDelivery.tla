---------------------------- MODULE CtcpDelivery ----------------------------
(***************************************************************************)
(* The handlers that send (the timer, reading and the pacing timer) and    *)
(* those that receive keep StreamInvariant, so it holds for every value of *)
(* the constants of module Ctcp; delivery and close are correct.           *)
(***************************************************************************)
EXTENDS CtcpProofs

-----------------------------------------------------------------------------
(* Segments sent again *)

(* Stamping and ageing change a segment's ackno only.                       *)
LEMMA StampedSegment ==
  ASSUME TypeOK, NEW h \in Host, NEW t \in TransmissionInfo, NEW u \in {Stamped(h, t), Aged(h, t)}
  PROVE  /\ u.segment.seqno = t.segment.seqno /\ u.segment.len = t.segment.len
         /\ u.segment.flag = t.segment.flag /\ u.segment.data = t.segment.data
         /\ u.segment.ackno \in {t.segment.ackno, curr_ackno[h]}
<1>1. /\ t.segment \in Segment
      /\ t = [segment |-> t.segment, time_elapsed |-> t.time_elapsed,
              num_of_transmission |-> t.num_of_transmission]
  BY DEF TransmissionInfo
<1>2. Stamped(h, t).segment = [t.segment EXCEPT !.ackno = curr_ackno[h]]
  BY <1>1 DEF Stamped
<1>3. Aged(h, t).segment = t.segment \/ Aged(h, t).segment = Stamped(h, t).segment
  <2>1. CASE Due(t)
    <3> DEFINE v == Stamped(h, t)
    <3>1. Aged(h, t) = [v EXCEPT !.time_elapsed = Elapsed(t)]
      BY <2>1 DEF Aged
    <3>2. v \in TransmissionInfo
      BY SegmentTypes
    <3> HIDE DEF v
    <3>3. Aged(h, t).segment = v.segment
      BY <3>1, <3>2 DEF TransmissionInfo
    <3> QED
      BY <3>3 DEF v
  <2>2. CASE ~Due(t)
    BY <1>1, <2>2 DEF Aged
  <2> QED
    BY <2>1, <2>2
<1> DEFINE new == [t.segment EXCEPT !.ackno = curr_ackno[h]]
<1>4. /\ new.seqno = t.segment.seqno /\ new.len = t.segment.len
      /\ new.flag = t.segment.flag /\ new.data = t.segment.data
      /\ new.ackno = curr_ackno[h]
  BY <1>1 DEF Segment
<1> HIDE DEF new
<1>5. u.segment = t.segment \/ u.segment = new
  BY <1>2, <1>3 DEF new
<1> QED
  BY <1>4, <1>5

(* A segment of the stream sent again is one.                               *)
LEMMA SameSegment ==
  ASSUME TypeOK, NEW g \in Host, NEW s, NEW r,
         r.seqno = s.seqno, r.len = s.len, r.flag = s.flag, r.data = s.data,
         r.ackno \in {s.ackno, curr_ackno[g]}
  PROVE  /\ IsChunk(g, s) => IsChunk(g, r)
         /\ IsFin(g, s) => IsFin(g, r)
         /\ Genuine(g, s) => Genuine(g, r)
<1>1. (IsChunk(g, s) => IsChunk(g, r)) /\ (IsFin(g, s) => IsFin(g, r))
      /\ (is_ack(s) => is_ack(r))
  BY DEF IsChunk, IsFin, is_ack
<1>2. curr_ackno[g] <= curr_ackno[g]
  BY HostTypes
<1>3. s.ackno <= curr_ackno[g] => r.ackno <= curr_ackno[g]
  BY <1>2
<1> QED
  BY <1>1, <1>3 DEF Genuine

(* What is retransmitted is genuine.                                        *)
LEMMA RetransmitTransit ==
  ASSUME TypeOK, NEW h \in Host, SenderInv(h), NEW I \in SUBSET (DOMAIN segments[h]),
         Retransmit(h, I)
  PROVE  \A g \in Host : \A s \in InTransit(g)' : s \in InTransit(g) \/ Genuine(g, s)
<1> DEFINE n == Cardinality(I)
           item(i) == segments[h][i]
<1>1. segments[h] \in Seq(TransmissionInfo) /\ DOMAIN segments[h] = 1..Len(segments[h])
      /\ Len(segments[h]) \in Nat
  BY LenProperties DEF TypeOK, TxTypeOK
<1>2. IsFiniteSet(I)
  <2>1. IsFiniteSet(DOMAIN segments[h])
    BY <1>1, FS_Interval
  <2> QED
    BY <2>1, FS_Subset
<1>3. n \in Nat
  BY <1>2, FS_CardinalityType
<1>4. PICK f \in [1..n -> I] : net' =
        [net EXCEPT ![Peer(h)] = @ \o [i \in DOMAIN f |-> Stamped(h, item(f[i])).segment]]
  BY DEF Retransmit, InOrder, Send
<1> DEFINE sent == [i \in 1..n |-> Stamped(h, item(f[i])).segment]
<1>5. \A i \in 1..n : item(f[i]) \in TransmissionInfo /\ item(f[i]).segment \in Sent(h)
  BY <1>1, HostTypes DEF Sent
<1>6. \A i \in 1..n : Stamped(h, item(f[i])).segment \in Segment
  BY <1>5, SegmentTypes DEF TransmissionInfo
<1>7. sent \in [1..n -> Segment]
  BY <1>6
<1>8. net' = [net EXCEPT ![Peer(h)] = @ \o sent]
  BY <1>4
<1>9. ASSUME NEW i \in 1..n PROVE Genuine(h, sent[i])
  <2>1. Genuine(h, item(f[i]).segment)
    BY <1>5 DEF SenderInv
  <2>2. sent[i] = Stamped(h, item(f[i])).segment
    OBVIOUS
  <2> DEFINE t == item(f[i])
  <2>3. t \in TransmissionInfo
    BY <1>5
  <2> HIDE DEF t
  <2>4. Genuine(h, t.segment) => Genuine(h, Stamped(h, t).segment)
    <3>1. Stamped(h, t) \in {Stamped(h, t), Aged(h, t)}
      OBVIOUS
    <3> DEFINE u == Stamped(h, t)
    <3> HIDE DEF u
    <3>2. /\ u.segment.seqno = t.segment.seqno /\ u.segment.len = t.segment.len
          /\ u.segment.flag = t.segment.flag /\ u.segment.data = t.segment.data
          /\ u.segment.ackno \in {t.segment.ackno, curr_ackno[h]}
      BY <2>3, <3>1, StampedSegment DEF u
    <3>3. Genuine(h, t.segment) => Genuine(h, u.segment)
      BY <3>2, SameSegment
    <3> QED
      BY <3>3 DEF u
  <2> QED
    BY <2>1, <2>2, <2>4 DEF t
<1> HIDE DEF n, sent
<1>10. sent \in Seq(Segment) /\ Len(sent) = n
  BY <1>3, <1>7, FunctionIsSeq
<1>11. net \in [Host -> Seq(Segment)]
  BY DEF TypeOK, NetTypeOK
<1>12. \A g \in Host : \A s \in InTransit(g)' :
         s \in InTransit(g) \/ (g = h /\ \E i \in 1..Len(sent) : s = sent[i])
  BY <1>8, <1>10, <1>11, SentTransit
<1> QED
  BY <1>9, <1>10, <1>12

(* A segment given up ends the process.                                     *)
LEMMA TearDownStep ==
  ASSUME TypeOK, TypeOK', \A g \in Host : StreamInv(g), NEW h \in Host,
         TimerTearsDown(h)
  PROVE  \A g \in Host : StreamInv(g)'
<1>1. PICK k \in DOMAIN segments[h] : Retransmit(h, {i \in 1..(k - 1) : Due(segments[h][i])})
  BY DEF TimerTearsDown
<1>2. {i \in 1..(k - 1) : Due(segments[h][i])} \in SUBSET (DOMAIN segments[h])
  <2>1. segments[h] \in Seq(TransmissionInfo) /\ DOMAIN segments[h] = 1..Len(segments[h])
        /\ Len(segments[h]) \in Nat
    BY LenProperties DEF TypeOK, TxTypeOK
  <2> QED
    BY <2>1
<1>3. \A g \in Host : \A s \in InTransit(g)' : s \in InTransit(g) \/ Genuine(g, s)
  BY <1>1, <1>2, RetransmitTransit DEF StreamInv
<1>4. UNCHANGED streamVars /\ status' = [status EXCEPT ![h] = "torn down"]
  BY DEF TimerTearsDown, streamVars, txVars, rxVars, appVars
<1>5. \A g \in Host : status'[g] \in {status[g], "torn down", "hung", "crashed"}
  BY <1>4 DEF TypeOK, CtlTypeOK
<1> QED
  BY <1>3, <1>4, <1>5, TransitStep

-----------------------------------------------------------------------------
(* The timer *)

(* A chunk stays buffered when a segment takes its place that has the same  *)
(* sequence number.                                                         *)
LEMMA AckedBySeqno ==
  ASSUME TypeOK, NEW g \in Host, AckedOf(g), input'[g] = input[g],
         output'[Peer(g)] = output[Peer(g)],
         \A s \in Sent(g) \cup Waiting(g) : \E r \in (Sent(g) \cup Waiting(g))' : r.seqno = s.seqno
  PROVE  AckedOf(g)'
<1> SUFFICES ASSUME NEW i \in 1..Len(input[g])
             PROVE  Buffered(g, i)' \/ i <= Len(output'[Peer(g)])
  BY DEF AckedOf
<1>1. Buffered(g, i) \/ i <= Len(output[Peer(g)])
  BY DEF AckedOf
<1>2. Buffered(g, i) => Buffered(g, i)'
  BY DEF Buffered
<1> QED
  BY <1>1, <1>2

(* Nothing of the stream of h, or of the other, changes but what is given.  *)
LEMMA SameStream ==
  ASSUME TypeOK, NEW h \in Host, input'[h] = input[h], curr_ackno'[h] = curr_ackno[h],
         curr_seqno'[h] = curr_seqno[h], FinSent(h)' = FinSent(h)
  PROVE  /\ Grows(h) /\ DataEnd(h)' = DataEnd(h)
         /\ \A s : /\ IsChunk(h, s)' <=> IsChunk(h, s)
                   /\ IsFin(h, s)' <=> IsFin(h, s)
                   /\ Genuine(h, s)' <=> Genuine(h, s)
<1>1. DataEnd(h)' = DataEnd(h)
  BY DEF DataEnd
<1>2. Len(input[h]) \in Nat /\ curr_ackno[h] \in Nat /\ Len(input'[h]) = Len(input[h])
  BY HostTypes
<1>3. Len(input[h]) <= Len(input'[h]) /\ curr_ackno[h] <= curr_ackno'[h]
  BY <1>2, EqualIsLeq, Zenon
<1>4. Grows(h)
  BY <1>1, <1>3, Zenon DEF Grows
<1> SUFFICES ASSUME NEW s
             PROVE  /\ IsChunk(h, s)' <=> IsChunk(h, s)
                    /\ IsFin(h, s)' <=> IsFin(h, s)
                    /\ Genuine(h, s)' <=> Genuine(h, s)
  BY <1>1, <1>4
<1>5. IsChunk(h, s)' <=> IsChunk(h, s)
  BY DEF IsChunk
<1>6. IsFin(h, s)' <=> IsFin(h, s)
  BY <1>1 DEF IsFin
<1> QED
  BY <1>5, <1>6 DEF Genuine

(* ctcp_timer: a retransmission has the sequence number of its original,    *)
(* and what ends a wait has both streams complete.                          *)
LEMMA TimerStep ==
  ASSUME TypeOK, TypeOK', \A g \in Host : StreamInv(g), NEW h \in Host, ctcp_timer(h)
  PROVE  \A g \in Host : StreamInv(g)'
<1> DEFINE p == Peer(h)
<1>1. p \in Host /\ p # h /\ StreamInv(h)
  BY PeerType
<1>2. CASE TimerTearsDown(h)
  BY <1>2, TearDownStep
<1>3. CASE TimerWaits(h)
  <2>1. UNCHANGED streamVars /\ UNCHANGED status /\ UNCHANGED net
    BY <1>3 DEF TimerWaits, streamVars, txVars, rxVars, appVars, netVars
  <2>2. \A g \in Host : InTransit(g)' = InTransit(g)
    BY <2>1 DEF InTransit
  <2> QED
    BY <2>1, <2>2, TransitStep
<1>4. CASE TimerCloses(h)
  <2>1. /\ UNCHANGED << curr_ackno, rx_next_output_seqno, received_segments, output,
                        curr_seqno, segments, waiting_segments, input, read_eof, net >>
        /\ termination_state'[h] = "CLOSED" /\ termination_state'[p] = termination_state[p]
        /\ status'[p] = status[p]
    BY <1>1, <1>4 DEF TimerCloses, txVars, rxVars, appVars, netVars, TypeOK, CtlTypeOK
  <2>2. termination_state[h] \in {"TIME_WAIT", "LAST_ACK"} /\ status'[h] = "closed"
    BY <1>4 DEF TimerCloses, Waits, TypeOK, CtlTypeOK
  <2>3. FinSent(h) /\ FinSent(h)' /\ FinSeen(h) /\ FinSeen(h)' /\ FinSent(p)' = FinSent(p)
        /\ FinSeen(p)' = FinSeen(p)
    BY <2>1, <2>2 DEF FinSent, FinSeen, Open
  <2>4. \A g \in Host : InTransit(g)' = InTransit(g)
    BY <2>1 DEF InTransit
  <2>5. /\ Grows(h)
        /\ \A s : /\ IsChunk(h, s)' <=> IsChunk(h, s)
                  /\ IsFin(h, s)' <=> IsFin(h, s)
                  /\ Genuine(h, s)' <=> Genuine(h, s)
    BY <2>1, <2>3, SameStream
  <2>6. InputInv(h)'
    BY <1>1, <2>1, <2>3, InputStays DEF StreamInv
  <2>7. Sent(h)' = Sent(h) /\ Waiting(h)' = Waiting(h)
    BY <2>1 DEF Sent, Waiting
  <2>8. SenderInv(h)'
    BY <1>1, <2>1, <2>3, <2>5, <2>7, SenderStays DEF StreamInv
  <2>9. CloseInv(h)'
    <3>1. AllOutput(h)' = AllOutput(h)
      BY <2>1 DEF AllOutput
    <3> QED
      BY <1>1, <2>1, <2>2, <2>3, <3>1 DEF StreamInv, CloseInv
  <2>10. AckedOf(h)'
    BY <1>1, <2>1, <2>7, AckedBySeqno DEF StreamInv
  <2> QED
    BY <1>1, <2>1, <2>3, <2>4, <2>5, <2>6, <2>8, <2>9, <2>10, SenderStep
<1>5. CASE TimerRetransmits(h)
  <2>1. /\ UNCHANGED << curr_ackno, rx_next_output_seqno, received_segments, output,
                        curr_seqno, waiting_segments, input, read_eof, termination_state, status >>
        /\ segments'[p] = segments[p]
        /\ segments'[h] = [i \in DOMAIN segments[h] |-> Aged(h, segments[h][i])]
    BY <1>1, <1>5 DEF TimerRetransmits, rxVars, appVars, ctlVars, TypeOK, TxTypeOK
  <2>2. \A g \in Host : FinSent(g)' = FinSent(g) /\ FinSeen(g)' = FinSeen(g)
    BY <2>1 DEF FinSent, FinSeen
  <2>3. \A g \in Host :
          /\ Grows(g)
          /\ \A s : /\ IsChunk(g, s)' <=> IsChunk(g, s)
                    /\ IsFin(g, s)' <=> IsFin(g, s)
                    /\ Genuine(g, s)' <=> Genuine(g, s)
    BY <2>1, <2>2, SameStream
  <2>4. \A g \in Host : \A s \in InTransit(g)' : s \in InTransit(g) \/ Genuine(g, s)'
    <3>1. {i \in DOMAIN segments[h] : Due(segments[h][i])} \in SUBSET (DOMAIN segments[h])
      OBVIOUS
    <3>2. Retransmit(h, {i \in DOMAIN segments[h] : Due(segments[h][i])})
      BY <1>5 DEF TimerRetransmits
    <3>3. \A g \in Host : \A s \in InTransit(g)' : s \in InTransit(g) \/ Genuine(g, s)
      BY <1>1, <3>1, <3>2, RetransmitTransit DEF StreamInv
    <3> QED
      BY <2>3, <3>3
  <2>5. InputInv(h)'
    BY <1>1, <2>1, <2>2, InputStays DEF StreamInv
  <2>6. /\ DOMAIN segments[h] = 1..Len(segments[h]) /\ Len(segments[h]) \in Nat
        /\ DOMAIN segments'[h] = 1..Len(segments'[h])
        /\ DOMAIN segments'[h] = DOMAIN segments[h]
        /\ \A i \in 1..Len(segments[h]) : segments[h][i] \in TransmissionInfo
    <3>1. segments[h] \in Seq(TransmissionInfo) /\ segments'[h] \in Seq(TransmissionInfo)
      BY DEF TypeOK, TxTypeOK
    <3>2. /\ DOMAIN segments[h] = 1..Len(segments[h]) /\ Len(segments[h]) \in Nat
          /\ DOMAIN segments'[h] = 1..Len(segments'[h])
      BY <3>1, LenProperties
    <3>3. \A i \in 1..Len(segments[h]) : segments[h][i] \in TransmissionInfo
      BY HostTypes
    <3> QED
      BY <2>1, <3>2, <3>3
  <2>7. ASSUME NEW i \in 1..Len(segments[h])
        PROVE  LET s == segments[h][i].segment
                   r == segments'[h][i].segment
               IN  /\ r.seqno = s.seqno /\ r.len = s.len /\ r.flag = s.flag
                   /\ r.data = s.data /\ r.ackno \in {s.ackno, curr_ackno[h]}
    <3> DEFINE t == segments[h][i]
               u == Aged(h, t)
    <3>1. t \in TransmissionInfo /\ segments'[h][i] = u
      BY <2>1, <2>6
    <3>2. u \in {Stamped(h, t), Aged(h, t)}
      OBVIOUS
    <3> HIDE DEF t, u
    <3>3. /\ u.segment.seqno = t.segment.seqno /\ u.segment.len = t.segment.len
          /\ u.segment.flag = t.segment.flag /\ u.segment.data = t.segment.data
          /\ u.segment.ackno \in {t.segment.ackno, curr_ackno[h]}
      BY <3>1, <3>2, StampedSegment
    <3> QED
      BY <3>1, <3>3 DEF t
  <2>8. Waiting(h)' = Waiting(h)
    BY <2>1 DEF Waiting
  <2>9. SenderInv(h)'
    <3>1. ASSUME NEW r \in Sent(h)'
          PROVE  Genuine(h, r) /\ (IF FinSent(h) THEN IsFin(h, r) ELSE IsChunk(h, r))
      <4>1. PICK i \in 1..Len(segments[h]) : r = segments'[h][i].segment
        BY <2>6 DEF Sent
      <4> DEFINE s == segments[h][i].segment
      <4>2. /\ r.seqno = s.seqno /\ r.len = s.len /\ r.flag = s.flag
            /\ r.data = s.data /\ r.ackno \in {s.ackno, curr_ackno[h]}
        BY <2>7, <4>1
      <4>3. s \in Sent(h)
        BY DEF Sent
      <4> HIDE DEF s
      <4>4. Genuine(h, s) /\ (IF FinSent(h) THEN IsFin(h, s) ELSE IsChunk(h, s))
        BY <1>1, <4>3 DEF StreamInv, SenderInv
      <4> QED
        BY <4>2, <4>4, SameSegment
    <3>2. \A r \in Sent(h)' :
            Genuine(h, r)' /\ (IF FinSent(h)' THEN IsFin(h, r)' ELSE IsChunk(h, r)')
      BY <2>2, <2>3, <3>1
    <3>3. \A s \in Waiting(h)' : Genuine(h, s)' /\ IsChunk(h, s)'
      BY <1>1, <2>3, <2>8 DEF StreamInv, SenderInv
    <3> QED
      BY <1>1, <2>1, <2>2, <3>2, <3>3 DEF StreamInv, SenderInv
  <2>10. CloseInv(h)'
    <3>1. AllOutput(h)' = AllOutput(h)
      BY <2>1 DEF AllOutput
    <3> QED
      BY <1>1, <2>1, <2>2, <3>1 DEF StreamInv, CloseInv
  <2>11. AckedOf(h)'
    <3>1. ASSUME NEW s \in Sent(h) \cup Waiting(h)
          PROVE  \E r \in (Sent(h) \cup Waiting(h))' : r.seqno = s.seqno
      <4>1. CASE s \in Waiting(h)
        BY <2>8, <4>1
      <4>2. CASE s \in Sent(h)
        <5>1. PICK i \in 1..Len(segments[h]) : s = segments[h][i].segment
          BY <4>2 DEF Sent
        <5>2. segments'[h][i].segment.seqno = s.seqno
          BY <2>7, <5>1
        <5>3. segments'[h][i].segment \in Sent(h)'
          BY <2>6 DEF Sent
        <5> QED
          BY <5>2, <5>3
      <4> QED
        BY <4>1, <4>2
    <3> QED
      BY <1>1, <2>1, <3>1, AckedBySeqno DEF StreamInv
  <2> QED
    BY <1>1, <2>1, <2>2, <2>3, <2>4, <2>5, <2>9, <2>10, <2>11, SenderStep
<1> QED
  BY <1>2, <1>3, <1>4, <1>5 DEF ctcp_timer

-----------------------------------------------------------------------------
(* Reading and sending *)

(* The segments of a list of transmissions.                                 *)
InList(list) == {list[i].segment : i \in 1..Len(list)}

(* What appending to a list and taking its head do to its segments.         *)
LEMMA ListSegments ==
  /\ \A list \in Seq(TransmissionInfo), t \in TransmissionInfo :
       InList(Append(list, t)) = InList(list) \cup {t.segment}
  /\ \A list \in Seq(TransmissionInfo) : list # << >> =>
       InList(list) = {Head(list).segment} \cup InList(Tail(list))
<1>1. ASSUME NEW list \in Seq(TransmissionInfo), NEW t \in TransmissionInfo
      PROVE  InList(Append(list, t)) = InList(list) \cup {t.segment}
  <2> DEFINE new == Append(list, t)
  <2>1. /\ Len(list) \in Nat /\ Len(new) = Len(list) + 1
        /\ \A i \in 1..Len(list) : new[i] = list[i]
        /\ new[Len(list) + 1] = t
    BY AppendProperties, LenProperties
  <2> HIDE DEF new
  <2>2. \A i \in 1..Len(new) : i \in 1..Len(list) \/ i = Len(list) + 1
    BY <2>1
  <2>3. \A i \in 1..Len(list) : i \in 1..Len(new)
    BY <2>1
  <2>4. Len(list) + 1 \in 1..Len(new)
    BY <2>1
  <2>5. InList(new) \subseteq InList(list) \cup {t.segment}
    BY <2>1, <2>2 DEF InList
  <2>6. InList(list) \cup {t.segment} \subseteq InList(new)
    BY <2>1, <2>3, <2>4 DEF InList
  <2> QED
    BY <2>5, <2>6 DEF new
<1>2. ASSUME NEW list \in Seq(TransmissionInfo), list # << >>
      PROVE  InList(list) = {Head(list).segment} \cup InList(Tail(list))
  <2> DEFINE tail == Tail(list)
  <2>1. /\ Len(list) \in Nat /\ Len(list) >= 1 /\ Len(tail) = Len(list) - 1
        /\ Head(list) = list[1]
        /\ \A i \in 1..Len(tail) : tail[i] = list[i + 1]
    BY <1>2, HeadTailProperties, LenProperties, EmptySeq
  <2> HIDE DEF tail
  <2>2. \A i \in 1..Len(tail) : i + 1 \in 1..Len(list)
    BY <2>1
  <2>3. \A i \in 1..Len(list) : i = 1 \/ (i - 1 \in 1..Len(tail) /\ (i - 1) + 1 = i)
    BY <2>1
  <2>4. 1 \in 1..Len(list)
    BY <2>1
  <2>5. InList(tail) \cup {Head(list).segment} \subseteq InList(list)
    BY <2>1, <2>2, <2>4 DEF InList
  <2>6. InList(list) \subseteq {Head(list).segment} \cup InList(tail)
    <3> SUFFICES ASSUME NEW i \in 1..Len(list), i # 1 PROVE list[i].segment \in InList(tail)
      BY <2>1 DEF InList
    <3>1. i - 1 \in 1..Len(tail) /\ tail[i - 1] = list[i]
      BY <2>1, <2>3
    <3> QED
      BY <3>1 DEF InList
  <2> QED
    BY <2>5, <2>6 DEF tail
<1> QED
  BY <1>1, <1>2

(* EOF read while data is pending.                                          *)
LEMMA ReadEofBusyStep ==
  ASSUME TypeOK, TypeOK', \A g \in Host : StreamInv(g), NEW h \in Host, ReadEofBusy(h)
  PROVE  \A g \in Host : StreamInv(g)'
<1> DEFINE p == Peer(h)
<1>1. p \in Host /\ p # h /\ StreamInv(h)
  BY PeerType
<1>2. /\ UNCHANGED << curr_ackno, rx_next_output_seqno, received_segments, output, curr_seqno,
                      segments, waiting_segments, input, termination_state, status, net >>
      /\ read_eof'[p] = read_eof[p] /\ read_eof'[h]
  BY <1>1 DEF ReadEofBusy, txVars, rxVars, ctlVars, netVars, TypeOK, AppTypeOK
<1>3. FinSent(h)' = FinSent(h) /\ FinSeen(h)' = FinSeen(h) /\ FinSeen(p)' = FinSeen(p)
      /\ FinSent(p)' = FinSent(p)
  BY <1>2 DEF FinSent, FinSeen
<1>4. Grows(h)
  BY <1>2, <1>3, SameStream
<1>5. Sent(h)' = Sent(h) /\ Waiting(h)' = Waiting(h)
      /\ \A g \in Host : InTransit(g)' = InTransit(g)
  BY <1>2 DEF Sent, Waiting, InTransit
<1>6. InputInv(h)'
  BY <1>1, <1>2, <1>3, InputStays DEF StreamInv
<1>7. SenderInv(h)'
  BY <1>1, <1>2, <1>3, <1>4, <1>5, SenderStays DEF StreamInv
<1>8. CloseInv(h)'
  <2>1. AllOutput(h)' = AllOutput(h)
    BY <1>2 DEF AllOutput
  <2> QED
    BY <1>1, <1>2, <1>3, <2>1 DEF StreamInv, CloseInv
<1>9. AckedOf(h)'
  BY <1>1, <1>2, <1>5, AckedBySeqno DEF StreamInv
<1> QED
  BY <1>1, <1>2, <1>3, <1>4, <1>5, <1>6, <1>7, <1>8, <1>9, SenderStep

(* ctcp_read of data: the chunk read is the next of the stream.             *)
LEMMA ReadDataStep ==
  ASSUME TypeOK, TypeOK', \A g \in Host : StreamInv(g), NEW h \in Host, ReadData(h)
  PROVE  \A g \in Host : StreamInv(g)'
<1> DEFINE p == Peer(h)
<1>0. PICK n \in Nat : n = Len(input[h])
  BY HostTypes
<1>1. p \in Host /\ p # h /\ StreamInv(h) /\ n \in Nat /\ curr_seqno[h] \in Nat
      /\ curr_ackno[h] \in Nat /\ ~read_eof[h]
  BY <1>0, PeerType, HostTypes DEF ReadData
<1>2. PICK len \in ChunkSizes :
        /\ waiting_segments' = [waiting_segments EXCEPT ![h] =
             Append(@, create_segment(h, "ACK", len, n + 1))]
        /\ curr_seqno' = [curr_seqno EXCEPT ![h] = @ + len]
        /\ input' = [input EXCEPT ![h] = Append(@, [seqno |-> curr_seqno[h], len |-> len])]
  BY <1>0 DEF ReadData
<1> DEFINE new == [seqno |-> curr_seqno[h], len |-> len]
           t == create_segment(h, "ACK", len, n + 1)
<1>3. len \in Nat /\ len > 0
  BY SizesAssumption
<1>4. /\ UNCHANGED << curr_ackno, rx_next_output_seqno, received_segments, output, segments,
                      termination_state, status, read_eof, net >>
      /\ curr_seqno'[p] = curr_seqno[p] /\ waiting_segments'[p] = waiting_segments[p]
      /\ input'[p] = input[p]
  BY <1>1, <1>2 DEF ReadData, rxVars, ctlVars, netVars, TypeOK, TxTypeOK, AppTypeOK
<1>5. /\ curr_seqno'[h] = curr_seqno[h] + len
      /\ input'[h] = Append(input[h], new)
      /\ waiting_segments'[h] = Append(waiting_segments[h], t)
  BY <1>2 DEF TypeOK, TxTypeOK, AppTypeOK
<1>6. /\ Len(input'[h]) = n + 1 /\ input'[h][n + 1] = new
      /\ \A i \in 1..n : input'[h][i] = input[h][i]
  <2>1. input[h] \in Seq([seqno : Nat, len : Nat]) /\ new \in [seqno : Nat, len : Nat]
    BY <1>1, <1>3, HostTypes
  <2> QED
    BY <1>0, <1>5, <2>1, AppendProperties
<1>7. new.seqno = curr_seqno[h] /\ new.len = len /\ End(new) = curr_seqno[h] + len
  BY DEF End
<1> HIDE DEF new
<1>8. ~FinSent(h) /\ ~FinSent(h)' /\ \A g \in Host : FinSent(g)' = FinSent(g) /\ FinSeen(g)' = FinSeen(g)
  BY <1>1, <1>4 DEF StreamInv, InputInv, FinSent, FinSeen
<1>9. DataEnd(h) = curr_seqno[h] /\ DataEnd(h)' = curr_seqno[h] + len
  BY <1>5, <1>8 DEF DataEnd
<1>10. Grows(h)
  <2>1. Len(input[h]) <= Len(input'[h])
    BY <1>0, <1>1, <1>6
  <2>2. curr_ackno[h] <= curr_ackno'[h]
    BY <1>1, <1>4
  <2> QED
    BY <1>0, <1>6, <1>8, <2>1, <2>2 DEF Grows
<1>11. InputInv(h)'
  <2>1. \A k \in 1..(n + 1) : Start(h, k)' = Start(h, k)
    <3> SUFFICES ASSUME NEW k \in 1..(n + 1) PROVE Start(h, k)' = Start(h, k)
      OBVIOUS
    <3>1. k = 1 \/ k - 1 \in 1..n
      BY <1>1
    <3> QED
      BY <1>6, <3>1 DEF Start
  <2>2. Start(h, n + 1) = curr_seqno[h]
    BY <1>0, <1>1, <1>9 DEF StreamInv, InputInv
  <2>3. Start(h, n + 2)' = curr_seqno[h] + len
    <3>1. n + 2 # 1 /\ (n + 2) - 1 = n + 1
      BY <1>1
    <3> QED
      BY <1>6, <1>7, <3>1 DEF Start
  <2>4. \A i \in 1..n : /\ input[h][i].len > 0 /\ input[h][i].seqno = Start(h, i)
                        /\ 1 <= input[h][i].seqno /\ End(input[h][i]) <= curr_seqno[h]
                        /\ End(input[h][i]) \in Nat
    <3>1. \A i \in 1..n : input[h][i] \in [seqno : Nat, len : Nat]
      BY <1>0, HostTypes
    <3>2. \A i \in 1..n : End(input[h][i]) \in Nat
      BY <3>1 DEF End
    <3> QED
      BY <1>0, <1>1, <1>9, <3>2 DEF StreamInv, InputInv
  <2>5. 1 <= curr_seqno[h]
    <3>1. CASE n = 0
      BY <2>2, <3>1 DEF Start
    <3>2. CASE n # 0
      <4>1. n \in 1..n /\ input[h][n] \in [seqno : Nat, len : Nat]
        BY <1>0, <1>1, <3>2, HostTypes
      <4>2. 1 <= input[h][n].seqno /\ End(input[h][n]) <= curr_seqno[h]
        BY <2>4, <4>1
      <4> QED
        BY <1>1, <4>1, <4>2 DEF End
    <3> QED
      BY <3>1, <3>2
  <2>6. \A i \in 1..(n + 1) : i \in 1..n \/ i = n + 1
    BY <1>1
  <2>7. \A i \in 1..n : i \in 1..(n + 1)
    BY <1>1
  <2>8. \A i \in 1..(n + 1) : input'[h][i].len > 0 /\ input'[h][i].seqno = Start(h, i)'
    <3>1. n + 1 \in 1..(n + 1)
      BY <1>1
    <3>2. new.len > 0 /\ new.seqno = Start(h, n + 1)'
      BY <1>3, <1>7, <2>1, <2>2, <3>1
    <3>3. \A i \in 1..n : input'[h][i].len > 0 /\ input'[h][i].seqno = Start(h, i)'
      BY <1>6, <2>1, <2>4, <2>7
    <3> QED
      BY <1>6, <2>6, <3>2, <3>3
  <2>9. \A i \in 1..(n + 1) : 1 <= input'[h][i].seqno /\ End(input'[h][i]) <= curr_seqno[h] + len
    <3>1. \A i \in 1..n : 1 <= input[h][i].seqno /\ End(input[h][i]) <= curr_seqno[h] + len
      BY <1>1, <1>3, <2>4
    <3>2. 1 <= new.seqno /\ End(new) <= curr_seqno[h] + len
      BY <1>1, <1>3, <1>7, <2>5
    <3> QED
      BY <1>6, <2>6, <3>1, <3>2
  <2>10. \A i, j \in 1..(n + 1) : i < j => End(input'[h][i]) <= input'[h][j].seqno
    <3> SUFFICES ASSUME NEW i \in 1..(n + 1), NEW j \in 1..(n + 1), i < j
                 PROVE  End(input'[h][i]) <= input'[h][j].seqno
      OBVIOUS
    <3>1. i \in 1..n /\ (j \in 1..n \/ j = n + 1)
      BY <1>1
    <3>2. input'[h][i] = input[h][i]
      BY <1>6, <3>1
    <3>3. CASE j \in 1..n
      BY <1>0, <1>1, <1>6, <3>1, <3>2, <3>3 DEF StreamInv, InputInv
    <3>4. CASE j = n + 1
      BY <1>6, <1>7, <2>4, <3>1, <3>2, <3>4
    <3> QED
      BY <3>1, <3>3, <3>4
  <2>11. Len(input'[h]) + 1 = n + 2
    BY <1>1, <1>6
  <2>12. DataEnd(h)' = Start(h, Len(input[h]) + 1)'
    <3>1. Start(h, Len(input[h]) + 1)' = Start(h, n + 2)'
      BY <2>11 DEF Start
    <3> QED
      BY <1>9, <2>3, <3>1
  <2> QED
    BY <1>6, <1>8, <1>9, <2>8, <2>9, <2>10, <2>12 DEF InputInv
<1>12. t \in TransmissionInfo
  BY <1>1, <1>3, SegmentTypes
<1>18. PICK s0 \in Segment :
         /\ s0 = t.segment /\ s0.seqno = curr_seqno[h] /\ s0.len = len
         /\ s0.flag = "ACK" /\ s0.data = n + 1 /\ s0.ackno = curr_ackno[h]
  <2>1. t.segment \in Segment
    BY <1>12 DEF TransmissionInfo
  <2>2. /\ t.segment.seqno = curr_seqno[h] /\ t.segment.len = len
        /\ t.segment.flag = "ACK" /\ t.segment.data = n + 1 /\ t.segment.ackno = curr_ackno[h]
    BY DEF create_segment
  <2> HIDE DEF t
  <2> QED
    BY <2>1, <2>2
<1> HIDE DEF t
<1>13. Sent(h)' = Sent(h) /\ Waiting(h)' = Waiting(h) \cup {s0}
  <2>1. waiting_segments[h] \in Seq(TransmissionInfo)
    BY HostTypes
  <2> QED
    BY <1>4, <1>5, <1>12, <1>18, <2>1, ListSegments DEF Sent, Waiting, InList
<1>14. SenderInv(h)'
  <2>1. IsChunk(h, s0)' /\ Genuine(h, s0)'
    <3>1. n + 1 \in 1..(n + 1) /\ curr_ackno[h] <= curr_ackno'[h]
      BY <1>1, <1>4
    <3>2. IsChunk(h, s0)'
      BY <1>6, <1>7, <1>18, <3>1 DEF IsChunk
    <3> QED
      BY <1>4, <1>18, <3>1, <3>2 DEF Genuine
  <2>2. Sent(h) \subseteq Segment /\ Waiting(h) \subseteq Segment
    BY HostTypes DEF Sent, Waiting
  <2>3. \A s \in Sent(h)' : Genuine(h, s)' /\ IsChunk(h, s)'
    BY <1>1, <1>8, <1>10, <1>13, <2>2, GenuineStays DEF StreamInv, SenderInv
  <2>4. \A s \in Waiting(h) : Genuine(h, s)' /\ IsChunk(h, s)'
    <3>1. \A s \in Waiting(h) : Genuine(h, s) /\ IsChunk(h, s)
      BY <1>1 DEF StreamInv, SenderInv
    <3> QED
      BY <1>10, <2>2, <3>1, GenuineStays
  <2>5. \A s \in Waiting(h)' : Genuine(h, s)' /\ IsChunk(h, s)'
    BY <1>13, <2>1, <2>4
  <2> QED
    BY <1>8, <2>3, <2>5 DEF SenderInv
<1>15. CloseInv(h)'
  BY <1>1, <1>4, <1>8 DEF StreamInv, CloseInv
<1>16. AckedOf(h)'
  <2> SUFFICES ASSUME NEW i \in 1..(n + 1) PROVE Buffered(h, i)' \/ i <= Len(output[p])
    BY <1>4, <1>6 DEF AckedOf
  <2>1. CASE i \in 1..n
    <3>1. Buffered(h, i) => Buffered(h, i)'
      BY <1>6, <1>13, <2>1 DEF Buffered
    <3> QED
      BY <1>0, <1>1, <2>1, <3>1 DEF StreamInv, AckedOf
  <2>2. CASE i = n + 1
    BY <1>6, <1>7, <1>13, <1>18, <2>2 DEF Buffered
  <2> QED
    BY <1>1, <2>1, <2>2
<1>17. \A g \in Host : InTransit(g)' = InTransit(g)
  BY <1>4 DEF InTransit
<1> QED
  BY <1>1, <1>4, <1>8, <1>10, <1>11, <1>14, <1>15, <1>16, <1>17, SenderStep

(* ctcp_read of EOF with empty buffers: everything was output, so a FIN may *)
(* follow.                                                                  *)
LEMMA ReadEofClosesStep ==
  ASSUME TypeOK, TypeOK', \A g \in Host : StreamInv(g), NEW h \in Host, ReadEofCloses(h)
  PROVE  \A g \in Host : StreamInv(g)'
<1> DEFINE p == Peer(h)
           fin == Stamped(h, create_segment(h, "FIN", 1, 0))
<1>1. /\ p \in Host /\ p # h /\ StreamInv(h) /\ StreamInv(p) /\ Peer(p) = h
      /\ curr_seqno[h] \in Nat /\ curr_ackno[h] \in Nat
      /\ Len(output[p]) \in Nat /\ Len(input[h]) \in Nat
  <2>1. p \in Host /\ p # h /\ Peer(p) = h
    BY PeerType
  <2> QED
    BY <2>1, HostTypes
<1>2. /\ UNCHANGED << curr_ackno, rx_next_output_seqno, received_segments, output,
                      waiting_segments, input, status >>
      /\ curr_seqno'[p] = curr_seqno[p] /\ curr_seqno'[h] = curr_seqno[h] + 1
      /\ read_eof'[p] = read_eof[p] /\ read_eof'[h]
      /\ termination_state'[p] = termination_state[p]
      /\ termination_state'[h] = OnEof[termination_state[h]]
  BY <1>1 DEF ReadEofCloses, rxVars, TypeOK, TxTypeOK, AppTypeOK, CtlTypeOK
<1>3. segments[h] = << >> /\ waiting_segments[h] = << >> /\ status[h] = "up"
      /\ termination_state[h] \in {"CONN_ESTABLISHED", "CLOSE_WAIT"}
  BY DEF ReadEofCloses, MayClose, OnEof
<1>4. \/ segments' = segments /\ net' = net
      \/ /\ segments' = [segments EXCEPT ![h] = Append(@, fin)]
         /\ net' = [net EXCEPT ![Peer(h)] = @ \o << fin.segment >>]
  BY DEF ReadEofCloses, Send
<1>5. termination_state'[h] =
        (IF termination_state[h] = "CONN_ESTABLISHED" THEN "FIN_WAIT_1" ELSE "LAST_ACK")
  BY <1>2, <1>3 DEF OnEof
<1>6. ~FinSent(h) /\ FinSent(h)' /\ FinSeen(h)' = FinSeen(h) /\ FinSent(p)' = FinSent(p)
      /\ FinSeen(p)' = FinSeen(p)
  BY <1>2, <1>3, <1>5 DEF FinSent, FinSeen, Open
<1>7. DataEnd(h) = curr_seqno[h] /\ DataEnd(h)' = curr_seqno[h]
  BY <1>1, <1>2, <1>6 DEF DataEnd
<1>8. AllOutput(h)
  <2>1. Sent(h) = {} /\ Waiting(h) = {}
    BY <1>3 DEF Sent, Waiting
  <2>2. \A i \in 1..Len(input[h]) : i <= Len(output[p])
    BY <1>1, <2>1 DEF StreamInv, AckedOf, Buffered
  <2>3. Len(input[h]) <= Len(output[p])
    BY <1>1, <2>2
  <2>4. Len(output[p]) <= Len(input[h])
    BY <1>1 DEF StreamInv, ReceiverInv
  <2> QED
    BY <1>1, <2>3, <2>4 DEF AllOutput
<1>9. Grows(h)
  <2>1. Len(input'[h]) = Len(input[h]) /\ curr_ackno'[h] = curr_ackno[h]
    BY <1>2
  <2>2. Len(input[h]) <= Len(input'[h]) /\ curr_ackno[h] <= curr_ackno'[h]
    BY <1>1, <2>1, EqualIsLeq, Zenon
  <2> QED
    BY <1>2, <1>6, <2>2 DEF Grows
<1>10. PICK s0 \in Segment : s0 = fin.segment /\ s0.flag = "FIN" /\ s0.seqno = curr_seqno[h]
         /\ s0.len = 1 /\ s0.ackno = curr_ackno[h] /\ fin \in TransmissionInfo
  <2> DEFINE t == create_segment(h, "FIN", 1, 0)
             u == Stamped(h, t)
  <2>1. t \in TransmissionInfo /\ u \in TransmissionInfo
    BY SegmentTypes
  <2>2. t.segment.flag = "FIN" /\ t.segment.seqno = curr_seqno[h] /\ t.segment.len = 1
        /\ t.segment.ackno = curr_ackno[h]
    BY DEF create_segment
  <2>3. u \in {Stamped(h, t), Aged(h, t)}
    OBVIOUS
  <2> HIDE DEF t, u
  <2>4. u.segment.flag = "FIN" /\ u.segment.seqno = curr_seqno[h] /\ u.segment.len = 1
        /\ u.segment.ackno = curr_ackno[h]
    BY <2>1, <2>2, <2>3, StampedSegment
  <2>5. u.segment \in Segment
    BY <2>1 DEF TransmissionInfo
  <2>6. u = fin
    BY DEF u, t
  <2> HIDE DEF fin
  <2> QED
    BY <2>1, <2>4, <2>5, <2>6
<1> HIDE DEF fin
<1>11. IsFin(h, s0)' /\ Genuine(h, s0)'
  <2>1. IsFin(h, s0)'
    BY <1>6, <1>7, <1>10 DEF IsFin
  <2>2. s0.ackno <= curr_ackno'[h]
    BY <1>1, <1>2, <1>10
  <2> QED
    BY <2>1, <2>2 DEF Genuine
<1>12. segments'[p] = segments[p] /\ Sent(h)' \subseteq {s0}
  <2>1. CASE segments' = segments
    BY <1>3, <2>1 DEF Sent
  <2>2. CASE segments' = [segments EXCEPT ![h] = Append(@, fin)]
    <3>1. segments'[p] = segments[p] /\ segments'[h] = Append(segments[h], fin)
      BY <1>1, <2>2 DEF TypeOK, TxTypeOK
    <3>2. InList(Append(segments[h], fin)) = InList(segments[h]) \cup {s0}
      BY <1>10, HostTypes, ListSegments
    <3>3. InList(segments[h]) = {}
      BY <1>3 DEF InList
    <3> QED
      BY <3>1, <3>2, <3>3 DEF Sent, InList
  <2> QED
    BY <1>4, <2>1, <2>2
<1>13. \A g \in Host : \A s \in InTransit(g)' : s \in InTransit(g) \/ Genuine(g, s)'
  <2>1. CASE net' = net
    BY <2>1 DEF InTransit
  <2>2. CASE net' = [net EXCEPT ![Peer(h)] = @ \o << fin.segment >>]
    <3> DEFINE one == << s0 >>
    <3>1. one \in Seq(Segment) /\ Len(one) = 1 /\ one[1] = s0
      BY <1>10
    <3>2. net' = [net EXCEPT ![Peer(h)] = @ \o one] /\ net \in [Host -> Seq(Segment)]
      BY <1>10, <2>2 DEF TypeOK, NetTypeOK
    <3> HIDE DEF one
    <3>3. \A g \in Host : \A s \in InTransit(g)' :
            s \in InTransit(g) \/ (g = h /\ \E i \in 1..Len(one) : s = one[i])
      BY <3>1, <3>2, SentTransit
    <3>4. \A i \in 1..Len(one) : one[i] = s0
      BY <3>1
    <3> QED
      BY <1>11, <3>3, <3>4
  <2> QED
    BY <1>4, <2>1, <2>2
<1>14. InputInv(h)'
  <2>1. \A k : Start(h, k)' = Start(h, k)
    BY <1>2 DEF Start
  <2> QED
    BY <1>1, <1>2, <1>7, <2>1 DEF StreamInv, InputInv
<1>15. SenderInv(h)'
  <2>1. Waiting(h)' = {} /\ waiting_segments'[h] = << >>
    BY <1>2, <1>3 DEF Waiting
  <2>2. \A s \in Sent(h)' :
          Genuine(h, s)' /\ (IF FinSent(h)' THEN IsFin(h, s)' ELSE IsChunk(h, s)')
    BY <1>6, <1>11, <1>12
  <2> QED
    BY <2>1, <2>2 DEF SenderInv
<1>16. AllOutput(h)'
  BY <1>2, <1>8 DEF AllOutput
<1>17. CloseInv(h)'
  BY <1>1, <1>2, <1>3, <1>5, <1>6, <1>16 DEF StreamInv, CloseInv
<1>18. AckedOf(h)'
  BY <1>1, <1>2, <1>8 DEF AckedOf, AllOutput
<1> QED
  BY <1>1, <1>2, <1>6, <1>9, <1>12, <1>13, <1>14, <1>15, <1>17, <1>18, SenderStep

(* The pacing timer moves the first waiting segment to those sent.          *)
LEMMA PacingTimerStep ==
  ASSUME TypeOK, TypeOK', \A g \in Host : StreamInv(g), NEW h \in Host, PacingTimer(h)
  PROVE  \A g \in Host : StreamInv(g)'
<1> DEFINE p == Peer(h)
           first == Head(waiting_segments[h])
           t == Stamped(h, first)
<1>1. p \in Host /\ p # h /\ StreamInv(h)
  BY PeerType
<1>2. /\ UNCHANGED << curr_ackno, rx_next_output_seqno, received_segments, output, curr_seqno,
                      input, read_eof, termination_state, status >>
      /\ waiting_segments[h] # << >>
      /\ segments' = [segments EXCEPT ![h] = Append(@, t)]
      /\ net' = [net EXCEPT ![Peer(h)] = @ \o << t.segment >>]
      /\ waiting_segments' = [waiting_segments EXCEPT ![h] = Tail(@)]
  BY DEF PacingTimer, Send, rxVars, ctlVars, appVars
<1>3. first \in TransmissionInfo /\ first.segment \in Segment /\ t \in TransmissionInfo
      /\ waiting_segments[h] \in Seq(TransmissionInfo) /\ segments[h] \in Seq(TransmissionInfo)
  <2>1. waiting_segments[h] \in Seq(TransmissionInfo) /\ segments[h] \in Seq(TransmissionInfo)
    BY HostTypes
  <2>2. first \in TransmissionInfo
    BY <1>2, <2>1, HeadTailProperties
  <2>3. t \in TransmissionInfo
    BY <2>2, SegmentTypes
  <2> QED
    BY <2>1, <2>2, <2>3 DEF TransmissionInfo
<1>4. \A g \in Host : FinSent(g)' = FinSent(g) /\ FinSeen(g)' = FinSeen(g)
  BY <1>2 DEF FinSent, FinSeen
<1>5. ~FinSent(h)
  BY <1>1, <1>2 DEF StreamInv, SenderInv
<1>6. \A g \in Host :
        /\ Grows(g)
        /\ \A s : /\ IsChunk(g, s)' <=> IsChunk(g, s)
                  /\ IsFin(g, s)' <=> IsFin(g, s)
                  /\ Genuine(g, s)' <=> Genuine(g, s)
  BY <1>2, <1>4, SameStream
<1>7. /\ segments'[p] = segments[p] /\ waiting_segments'[p] = waiting_segments[p]
      /\ segments'[h] = Append(segments[h], t)
      /\ waiting_segments'[h] = Tail(waiting_segments[h])
  BY <1>1, <1>2 DEF TypeOK, TxTypeOK
<1>8. PICK s0 \in Segment : s0 = first.segment
  BY <1>3
<1>9. PICK r0 \in Segment : r0 = t.segment
  BY <1>3 DEF TransmissionInfo
<1>10. /\ r0.seqno = s0.seqno /\ r0.len = s0.len /\ r0.flag = s0.flag /\ r0.data = s0.data
       /\ r0.ackno \in {s0.ackno, curr_ackno[h]}
  <2>1. t \in {Stamped(h, first), Aged(h, first)}
    OBVIOUS
  <2> HIDE DEF t, first
  <2> QED
    BY <1>3, <1>8, <1>9, <2>1, StampedSegment
<1> HIDE DEF t, first
<1>11. Sent(h)' = Sent(h) \cup {r0} /\ Waiting(h) = {s0} \cup Waiting(h)'
  <2>1. InList(Append(segments[h], t)) = InList(segments[h]) \cup {r0}
    BY <1>3, <1>9, ListSegments
  <2>2. InList(waiting_segments[h]) = {s0} \cup InList(Tail(waiting_segments[h]))
    BY <1>2, <1>3, <1>8, ListSegments DEF first
  <2> QED
    BY <1>7, <2>1, <2>2, ZenonT(60) DEF Sent, Waiting, InList
<1>12. IsChunk(h, r0) /\ Genuine(h, r0)
  <2>1. IsChunk(h, s0) /\ Genuine(h, s0)
    BY <1>1, <1>11 DEF StreamInv, SenderInv
  <2> QED
    BY <1>10, <2>1, SameSegment
<1>13. \A g \in Host : \A s \in InTransit(g)' : s \in InTransit(g) \/ Genuine(g, s)'
  <2> DEFINE one == << r0 >>
  <2>1. one \in Seq(Segment) /\ Len(one) = 1 /\ one[1] = r0
    BY <1>9
  <2>2. net' = [net EXCEPT ![Peer(h)] = @ \o one] /\ net \in [Host -> Seq(Segment)]
    BY <1>2, <1>9 DEF TypeOK, NetTypeOK
  <2> HIDE DEF one
  <2>3. \A g \in Host : \A s \in InTransit(g)' :
          s \in InTransit(g) \/ (g = h /\ \E i \in 1..Len(one) : s = one[i])
    BY <2>1, <2>2, SentTransit
  <2>4. \A i \in 1..Len(one) : one[i] = r0
    BY <2>1
  <2> QED
    BY <1>6, <1>12, <2>3, <2>4
<1>14. InputInv(h)'
  BY <1>1, <1>2, <1>4, InputStays DEF StreamInv
<1>15. SenderInv(h)'
  <2>1. \A s \in Sent(h)' : Genuine(h, s) /\ IsChunk(h, s)
    BY <1>1, <1>5, <1>11, <1>12 DEF StreamInv, SenderInv
  <2>2. \A s \in Waiting(h)' : Genuine(h, s) /\ IsChunk(h, s)
    BY <1>1, <1>11 DEF StreamInv, SenderInv
  <2> QED
    BY <1>4, <1>5, <1>6, <2>1, <2>2 DEF SenderInv
<1>16. CloseInv(h)'
  <2>1. AllOutput(h)' = AllOutput(h)
    BY <1>2 DEF AllOutput
  <2> QED
    BY <1>1, <1>2, <1>4, <2>1 DEF StreamInv, CloseInv
<1>17. AckedOf(h)'
  <2>1. \A s \in Sent(h) \cup Waiting(h) : \E r \in (Sent(h) \cup Waiting(h))' : r.seqno = s.seqno
    BY <1>10, <1>11
  <2> QED
    BY <1>1, <1>2, <2>1, AckedBySeqno DEF StreamInv
<1> QED
  BY <1>1, <1>2, <1>4, <1>6, <1>7, <1>13, <1>14, <1>15, <1>16, <1>17, SenderStep

-----------------------------------------------------------------------------
(* Receiving an acknowledgement or a FIN *)

(* The segment that arrives is genuine.                                     *)
LEMMA ArrivalGenuine ==
  ASSUME TypeOK, \A g \in Host : StreamInv(g), NEW h \in Host, net[h] # << >>
  PROVE  Head(net[h]) \in Segment /\ Genuine(Peer(h), Head(net[h]))
<1> DEFINE p == Peer(h)
           s == Head(net[h])
<1>1. p \in Host /\ Peer(p) = h
  BY PeerType
<1>2. s \in Segment /\ net[h] \in Seq(Segment)
  BY TransitType DEF TypeOK, NetTypeOK
<1>3. \E j \in 1..Len(net[h]) : s = net[h][j]
  BY <1>2, HeadOrTail
<1>4. s \in InTransit(p)
  BY <1>1, <1>3 DEF InTransit
<1> QED
  BY <1>1, <1>2, <1>4 DEF StreamInv, TransitInv

(* What the peer has not output lies past its next sequence number.         *)
LEMMA NotOutputIsPast ==
  ASSUME TypeOK, NEW h \in Host, InputInv(h), ReceiverInv(Peer(h)),
         NEW i \in 1..Len(input[h]), ~ (i <= Len(output[Peer(h)]))
  PROVE  rx_next_output_seqno[Peer(h)] <= input[h][i].seqno
<1> DEFINE p == Peer(h)
<1>1. /\ p \in Host /\ Peer(p) = h /\ Len(input[h]) \in Nat
  BY PeerType, HostTypes
<1>2. PICK n \in Nat : n = Len(output[p])
  BY <1>1, HostTypes
<1>3. rx_next_output_seqno[p] = Start(h, n + 1)
  BY <1>1, <1>2 DEF ReceiverInv
<1>4. CASE n = 0
  BY <1>3, <1>4 DEF InputInv, Start
<1>5. CASE n # 0
  <2>1. n \in 1..Len(input[h]) /\ n < i /\ n + 1 # 1 /\ (n + 1) - 1 = n
    BY <1>1, <1>2, <1>5
  <2>2. Start(h, n + 1) = End(input[h][n])
    BY <2>1 DEF Start
  <2> QED
    BY <1>3, <2>1, <2>2 DEF InputInv
<1> QED
  BY <1>4, <1>5

(* The ACK loop removes a segment whose chunk was output.                   *)
LEMMA ReceiveAckStep ==
  ASSUME TypeOK, TypeOK', \A g \in Host : StreamInv(g), NEW h \in Host, ReceiveAck(h)
  PROVE  \A g \in Host : StreamInv(g)'
<1> DEFINE p == Peer(h)
           s == Head(net[h])
           removes == HeadAcked(segments[h], s.ackno) /\ segments[h][1].segment.flag = "ACK"
<1>1. p \in Host /\ p # h /\ StreamInv(h) /\ StreamInv(p) /\ Peer(p) = h
  BY PeerType
<1>2. /\ UNCHANGED << curr_ackno, rx_next_output_seqno, received_segments, output, curr_seqno,
                      waiting_segments, input, read_eof, termination_state, status >>
      /\ net[h] # << >> /\ net' = Transit(h)
      /\ segments' = IF removes THEN [segments EXCEPT ![h] = RemoveAcked(@, s.ackno)]
                                ELSE segments
  BY DEF ReceiveAck, Ordinary, Arrives, rxVars, ctlVars, appVars
<1>3. \A g \in Host : FinSent(g)' = FinSent(g) /\ FinSeen(g)' = FinSeen(g)
  BY <1>2 DEF FinSent, FinSeen
<1>4. Grows(h)
  BY <1>2, <1>3, SameStream
<1>5. s \in Segment /\ Genuine(p, s)
  BY <1>2, ArrivalGenuine
<1>6. \A g \in Host : \A r \in InTransit(g)' : r \in InTransit(g)
  BY <1>2, TakenTransit
<1>7. InputInv(h)'
  BY <1>1, <1>2, <1>3, InputStays DEF StreamInv
<1>8. CloseInv(h)'
  <2>1. AllOutput(h)' = AllOutput(h)
    BY <1>2 DEF AllOutput
  <2> QED
    BY <1>1, <1>2, <1>3, <2>1 DEF StreamInv, CloseInv
<1>9. Waiting(h)' = Waiting(h)
  BY <1>2 DEF Waiting
<1>10. segments'[p] = segments[p] /\ Sent(h)' \subseteq Sent(h) /\ AckedOf(h)'
  <2>1. CASE ~removes
    <3>1. segments' = segments
      BY <1>2, <2>1
    <3>2. Sent(h)' = Sent(h)
      BY <3>1 DEF Sent
    <3> QED
      BY <1>1, <1>2, <1>9, <3>1, <3>2, AckedBySeqno DEF StreamInv
  <2>2. CASE removes
    <3>1. segments[h] # << >> /\ segments[h][1].segment.seqno < s.ackno
          /\ segments[h][1].segment.flag = "ACK"
      BY <2>2 DEF HeadAcked
    <3>2. segments'[p] = segments[p] /\ segments'[h] = Tail(segments[h])
      BY <1>1, <1>2, <2>2 DEF TypeOK, TxTypeOK, RemoveAcked
    <3>3. segments[h] \in Seq(TransmissionInfo) /\ Head(segments[h]) = segments[h][1]
          /\ Head(segments[h]) \in TransmissionInfo
      BY <3>1, HostTypes, HeadTailProperties
    <3>4. PICK r0 \in Segment : r0 = Head(segments[h]).segment
      BY <3>3 DEF TransmissionInfo
    <3>5. Sent(h) = {r0} \cup Sent(h)'
      <4>1. InList(segments[h]) = {Head(segments[h]).segment} \cup InList(Tail(segments[h]))
        BY <3>1, <3>3, ListSegments
      <4> QED
        BY <3>2, <3>4, <4>1 DEF Sent, InList
    <3>6. ~FinSent(h)
      BY <1>1, <3>1, <3>3, <3>4, <3>5 DEF StreamInv, SenderInv, IsFin
    <3>7. curr_ackno[p] = rx_next_output_seqno[p]
      <4>1. ~FinSeen(p)
        BY <1>1, <3>6 DEF StreamInv, CloseInv
      <4>2. rx_next_output_seqno[p] \in Nat
        BY <1>1, HostTypes
      <4>3. curr_ackno[p] = rx_next_output_seqno[p] + 0
        BY <1>1, <4>1 DEF StreamInv, ReceiverInv
      <4> QED
        BY <4>2, <4>3
    <3>8. r0.seqno < rx_next_output_seqno[p]
      <4>1. r0.seqno < s.ackno /\ s.ackno <= rx_next_output_seqno[p]
        BY <1>5, <3>1, <3>3, <3>4, <3>7 DEF Genuine
      <4>2. r0.seqno \in Nat /\ s.ackno \in Nat /\ rx_next_output_seqno[p] \in Nat
        BY <1>1, <1>5, HostTypes DEF Segment
      <4> QED
        BY <4>1, <4>2
    <3>9. ASSUME NEW i \in 1..Len(input[h]) PROVE Buffered(h, i)' \/ i <= Len(output[p])
      <4> SUFFICES ASSUME ~ (i <= Len(output[p])) PROVE Buffered(h, i)'
        OBVIOUS
      <4>1. rx_next_output_seqno[p] <= input[h][i].seqno
        BY <1>1, NotOutputIsPast DEF StreamInv
      <4>2. PICK r \in Sent(h) \cup Waiting(h) : r.seqno = input[h][i].seqno
        BY <1>1 DEF StreamInv, AckedOf, Buffered
      <4>3. r0.seqno # input[h][i].seqno
        <5>1. r0.seqno \in Nat /\ rx_next_output_seqno[p] \in Nat /\ input[h][i].seqno \in Nat
          <6>1. input[h][i] \in [seqno : Nat, len : Nat]
            BY HostTypes
          <6> QED
            BY <1>1, <6>1, HostTypes DEF Segment
        <5> QED
          BY <3>8, <4>1, <5>1
      <4>4. r \in Sent(h)' \cup Waiting(h)'
        BY <1>9, <3>5, <4>2, <4>3
      <4> QED
        BY <1>2, <4>2, <4>4 DEF Buffered
    <3>10. AckedOf(h)'
      BY <1>2, <3>9 DEF AckedOf
    <3> QED
      BY <3>2, <3>5, <3>10
  <2> QED
    BY <2>1, <2>2
<1>11. SenderInv(h)'
  BY <1>1, <1>2, <1>3, <1>4, <1>9, <1>10, SenderStays DEF StreamInv
<1> QED
  BY <1>1, <1>2, <1>3, <1>4, <1>6, <1>7, <1>8, <1>10, <1>11, SenderStep

(* The acknowledgement of a FIN: the peer has received it.                  *)
LEMMA ReceiveFinAckStep ==
  ASSUME TypeOK, TypeOK', \A g \in Host : StreamInv(g), NEW h \in Host, ReceiveFinAck(h)
  PROVE  \A g \in Host : StreamInv(g)'
<1> DEFINE p == Peer(h)
           s == Head(net[h])
<1>1. /\ p \in Host /\ p # h /\ StreamInv(h) /\ StreamInv(p) /\ Peer(p) = h
      /\ Len(output[p]) \in Nat /\ Len(input[h]) \in Nat
  <2>1. p \in Host /\ p # h /\ Peer(p) = h
    BY PeerType
  <2> QED
    BY <2>1, HostTypes
<1>2. /\ UNCHANGED << curr_ackno, rx_next_output_seqno, received_segments, output, curr_seqno,
                      waiting_segments, input, read_eof >>
      /\ net[h] # << >> /\ net' = Transit(h)
      /\ segments' = [segments EXCEPT ![h] = RemoveAcked(@, s.ackno)]
      /\ termination_state' = [termination_state EXCEPT ![h] = OnFinAcked[@]]
      /\ status' = [status EXCEPT ![h] =
           IF termination_state[h] = "LAST_ACK" THEN "closed" ELSE @]
      /\ termination_state[h] \in {"FIN_WAIT_1", "CLOSING", "LAST_ACK"}
      /\ HeadAcked(segments[h], s.ackno)
  BY DEF ReceiveFinAck, FinAcked, OnFinAcked, Arrives, rxVars, appVars
<1>3. /\ termination_state'[p] = termination_state[p] /\ status'[p] = status[p]
      /\ segments'[p] = segments[p] /\ segments'[h] = Tail(segments[h])
      /\ status'[h] = (IF termination_state[h] = "LAST_ACK" THEN "closed" ELSE status[h])
  BY <1>1, <1>2 DEF TypeOK, TxTypeOK, CtlTypeOK, RemoveAcked
<1>4. termination_state'[h] =
        CASE termination_state[h] = "FIN_WAIT_1" -> "FIN_WAIT_2"
          [] termination_state[h] = "CLOSING"    -> "TIME_WAIT"
          [] termination_state[h] = "LAST_ACK"   -> "CLOSED"
  BY <1>2 DEF OnFinAcked, TypeOK, CtlTypeOK
<1>5. \A g \in Host : FinSent(g)' = FinSent(g) /\ FinSeen(g)' = FinSeen(g)
  <2>1. FinSent(h) /\ FinSent(h)' /\ FinSeen(h)' = FinSeen(h)
    BY <1>2, <1>4 DEF FinSent, FinSeen, Open
  <2>2. FinSent(p)' = FinSent(p) /\ FinSeen(p)' = FinSeen(p)
    BY <1>3 DEF FinSent, FinSeen
  <2>3. \A g \in Host : g = h \/ g = p
    BY DEF Host, Peer
  <2> SUFFICES ASSUME NEW g \in Host PROVE FinSent(g)' = FinSent(g) /\ FinSeen(g)' = FinSeen(g)
    OBVIOUS
  <2>4. CASE g = h
    BY <2>1, <2>4
  <2>5. CASE g = p
    BY <2>2, <2>5
  <2> QED
    BY <2>3, <2>4, <2>5
<1>6. FinSent(h) /\ AllOutput(h)
  <2>1. FinSent(h)
    BY <1>2 DEF FinSent, Open
  <2> QED
    BY <1>1, <2>1 DEF StreamInv, CloseInv
<1>7. s \in Segment /\ Genuine(p, s)
  BY <1>2, ArrivalGenuine
<1>8. segments[h] # << >> /\ segments[h][1].segment.seqno < s.ackno
  BY <1>2 DEF HeadAcked
<1>9. segments[h] \in Seq(TransmissionInfo) /\ Head(segments[h]) = segments[h][1]
      /\ Head(segments[h]) \in TransmissionInfo
  BY <1>8, HostTypes, HeadTailProperties
<1>10. PICK r0 \in Segment : r0 = Head(segments[h]).segment
  BY <1>9 DEF TransmissionInfo
<1>11. Sent(h) = {r0} \cup Sent(h)'
  <2>1. InList(segments[h]) = {Head(segments[h]).segment} \cup InList(Tail(segments[h]))
    BY <1>8, <1>9, ListSegments
  <2> QED
    BY <1>3, <1>10, <2>1 DEF Sent, InList
<1>12. FinSeen(p)
  <2>1. r0.seqno = DataEnd(h)
    BY <1>1, <1>6, <1>11 DEF StreamInv, SenderInv, IsFin
  <2>2. r0.seqno < s.ackno /\ s.ackno <= curr_ackno[p]
    BY <1>7, <1>8, <1>9, <1>10 DEF Genuine
  <2>3. rx_next_output_seqno[p] = DataEnd(h)
    <3>1. rx_next_output_seqno[p] = Start(h, Len(input[h]) + 1)
      BY <1>1, <1>6 DEF StreamInv, ReceiverInv, AllOutput
    <3> QED
      BY <1>1, <3>1 DEF StreamInv, InputInv
  <2>4. r0.seqno \in Nat /\ s.ackno \in Nat /\ curr_ackno[p] \in Nat
        /\ rx_next_output_seqno[p] \in Nat
    BY <1>1, <1>7, HostTypes DEF Segment
  <2>5. curr_ackno[p] # rx_next_output_seqno[p]
    BY <2>1, <2>2, <2>3, <2>4
  <2>6. ~FinSeen(p) => curr_ackno[p] = rx_next_output_seqno[p] + 0
    BY <1>1 DEF StreamInv, ReceiverInv
  <2> QED
    BY <2>4, <2>5, <2>6
<1>13. Grows(h)
  BY <1>2, <1>5, SameStream
<1>14. \A g \in Host : \A r \in InTransit(g)' : r \in InTransit(g)
  BY <1>2, TakenTransit
<1>15. InputInv(h)'
  BY <1>1, <1>2, <1>5, InputStays DEF StreamInv
<1>16. SenderInv(h)'
  <2>1. Waiting(h)' = Waiting(h)
    BY <1>2 DEF Waiting
  <2> QED
    BY <1>1, <1>2, <1>5, <1>11, <1>13, <2>1, SenderStays DEF StreamInv
<1>17. CloseInv(h)'
  <2>1. AllOutput(h)'
    BY <1>2, <1>6 DEF AllOutput
  <2>2. FinSeen(p)'
    BY <1>1, <1>5, <1>12
  <2>3. FinSeen(h)' => FinSent(p)'
    BY <1>1, <1>5 DEF StreamInv, CloseInv
  <2>4. /\ status'[h] # "aborted"
        /\ status'[h] = "closed" => termination_state'[h] = "CLOSED"
    BY <1>1, <1>2, <1>3, <1>4 DEF StreamInv, CloseInv
  <2> QED
    BY <2>1, <2>2, <2>3, <2>4 DEF CloseInv
<1>18. AckedOf(h)'
  BY <1>1, <1>2, <1>6 DEF AckedOf, AllOutput
<1> QED
  BY <1>1, <1>2, <1>3, <1>5, <1>13, <1>14, <1>15, <1>16, <1>17, <1>18, SenderStep

(* Once the peer sent its FIN, all its data was output.                     *)
LEMMA DataEndIsOutput ==
  ASSUME NEW h \in Host, StreamInv(h), StreamInv(Peer(h)), Peer(Peer(h)) = h, FinSent(Peer(h))
  PROVE  AllOutput(Peer(h)) /\ rx_next_output_seqno[h] = DataEnd(Peer(h))
<1> DEFINE p == Peer(h)
<1>1. AllOutput(p)
  BY DEF StreamInv, CloseInv
<1>2. rx_next_output_seqno[h] = Start(p, Len(input[p]) + 1)
  BY <1>1 DEF StreamInv, ReceiverInv, AllOutput
<1> QED
  BY <1>1, <1>2 DEF StreamInv, InputInv

(* A FIN is received when everything before it was output.                  *)
LEMMA ReceiveFinStep ==
  ASSUME TypeOK, TypeOK', \A g \in Host : StreamInv(g), NEW h \in Host, ReceiveFin(h)
  PROVE  \A g \in Host : StreamInv(g)'
<1> DEFINE p == Peer(h)
<1>1. /\ p \in Host /\ p # h /\ StreamInv(h) /\ StreamInv(p) /\ Peer(p) = h
      /\ curr_ackno[h] \in Nat /\ rx_next_output_seqno[h] \in Nat /\ Len(output[h]) \in Nat
  BY PeerType, HostTypes
<1>2. PICK s \in Segment : s = Head(net[h]) /\ Genuine(p, s) /\ net[h] # << >>
  BY ArrivalGenuine DEF ReceiveFin, Arrives
<1>3. /\ UNCHANGED << rx_next_output_seqno, received_segments, output, curr_seqno, segments,
                      waiting_segments, input, read_eof >>
      /\ curr_ackno' = [curr_ackno EXCEPT ![h] = End(s)]
      /\ termination_state' = [termination_state EXCEPT ![h] = OnFin[@]]
      /\ status' = [status EXCEPT ![h] = IF curr_ackno[h] # s.seqno THEN "aborted" ELSE @]
      /\ net' = [Transit(h) EXCEPT ![Peer(h)] = Append(@, AckSegment(h, End(s)))]
      /\ status[h] = "up" /\ s.flag = "FIN"
      /\ termination_state[h] \in {"CONN_ESTABLISHED", "FIN_WAIT_1", "FIN_WAIT_2"}
  BY <1>2 DEF ReceiveFin, FinExpected, OnFin, Arrives, txVars, appVars
<1>4. ~FinSeen(h) /\ IsFin(p, s)
  <2>1. ~is_ack(s) /\ ~IsChunk(p, s)
    BY <1>3 DEF is_ack, IsChunk
  <2> QED
    BY <1>2, <1>3, <2>1 DEF FinSeen, Genuine
<1>5. s.seqno = rx_next_output_seqno[h] /\ curr_ackno[h] = s.seqno /\ s.len = 1 /\ FinSent(p)
  <2>1. FinSent(p) /\ s.seqno = DataEnd(p) /\ s.len = 1
    BY <1>4 DEF IsFin
  <2>2. curr_ackno[h] = rx_next_output_seqno[h] + 0
    BY <1>1, <1>4 DEF StreamInv, ReceiverInv
  <2>3. rx_next_output_seqno[h] = DataEnd(p)
    BY <1>1, <2>1, DataEndIsOutput
  <2> QED
    BY <1>1, <2>1, <2>2, <2>3
<1>6. End(s) = rx_next_output_seqno[h] + 1
  BY <1>1, <1>5 DEF End
<1>7. /\ curr_ackno'[p] = curr_ackno[p] /\ curr_ackno'[h] = rx_next_output_seqno[h] + 1
      /\ status'[h] = "up" /\ status'[p] = status[p]
      /\ termination_state'[p] = termination_state[p]
      /\ termination_state'[h] = OnFin[termination_state[h]]
  BY <1>1, <1>3, <1>5, <1>6 DEF TypeOK, RxTypeOK, CtlTypeOK
<1>8. termination_state'[h] =
        CASE termination_state[h] = "CONN_ESTABLISHED" -> "CLOSE_WAIT"
          [] termination_state[h] = "FIN_WAIT_1" -> "CLOSING"
          [] termination_state[h] = "FIN_WAIT_2" -> "TIME_WAIT"
  BY <1>3, <1>7 DEF OnFin
<1>9. /\ FinSent(h)' = FinSent(h) /\ FinSeen(h)'
      /\ FinSent(p)' = FinSent(p) /\ FinSeen(p)' = FinSeen(p)
  <2>1. FinSent(p)' = FinSent(p) /\ FinSeen(p)' = FinSeen(p)
    BY <1>7 DEF FinSent, FinSeen
  <2>2. FinSent(h)' = FinSent(h)
    BY <1>3, <1>8 DEF FinSent, Open
  <2>3. FinSeen(h)'
    BY <1>3, <1>8 DEF FinSeen
  <2> QED
    BY <2>1, <2>2, <2>3
<1>10. /\ Grows(p)
       /\ \A r : IsChunk(p, r)' <=> IsChunk(p, r)
  BY <1>1, <1>3, <1>7, <1>9, SameStream
<1>11. \A g \in Host : \A r \in InTransit(g)' : r \in InTransit(g) \/ Genuine(g, r)'
  <2>1. AckSegment(h, End(s)) \in Segment
    BY <1>1, <1>6, SegmentTypes
  <2>2. PICK a \in Segment : a = AckSegment(h, End(s)) /\ is_ack(a) /\ a.ackno = End(s)
    BY <2>1 DEF AckSegment, is_ack
  <2> DEFINE one == << a >>
  <2>3. one \in Seq(Segment) /\ Len(one) = 1 /\ one[1] = a
    BY <2>2
  <2>4. net' = [Transit(h) EXCEPT ![Peer(h)] = @ \o one] /\ Transit(h) \in [Host -> Seq(Segment)]
    <3>1. Transit(h) \in [Host -> Seq(Segment)]
      BY <1>2, TransitType DEF TypeOK, NetTypeOK
    <3>2. Transit(h)[p] \in Seq(Segment)
      BY <1>1, <3>1
    <3>3. Append(Transit(h)[p], a) = Transit(h)[p] \o one
      BY <2>2, <3>2, AppendIsConcat
    <3> QED
      BY <1>3, <2>2, <3>1, <3>3
  <2> HIDE DEF one
  <2>5. \A g \in Host : \A r \in InTransit(g)' :
          r \in InTransit(g) \/ (g = h /\ \E i \in 1..Len(one) : r = one[i])
    <3>1. PICK t \in [Host -> Seq(Segment)] : t = Transit(h)
      BY <2>4
    <3>2. net' = [t EXCEPT ![Peer(h)] = @ \o one] /\ net[h] # << >>
      BY <1>2, <2>4, <3>1
    <3>3. t = net \/ (net[h] # << >> /\ t = Transit(h))
      BY <3>1, <3>2
    <3>4. TypeOK /\ h \in Host /\ t \in [Host -> Seq(Segment)] /\ one \in Seq(Segment)
      BY <2>3
    <3>5. net' = [t EXCEPT ![Peer(h)] = @ \o one]
      BY <3>2
    <3> QED
      BY <3>3, <3>4, <3>5, SentTransit
  <2>6. Genuine(h, a)'
    <3>1. a.ackno <= curr_ackno'[h]
      BY <1>1, <1>6, <1>7, <2>2
    <3> QED
      BY <2>2, <3>1 DEF Genuine
  <2>7. \A i \in 1..Len(one) : one[i] = a
    BY <2>3
  <2> QED
    BY <2>5, <2>6, <2>7
<1>12. ReceiverInv(h)'
  <2>1. Received(h)' = Received(h)
    BY <1>3 DEF Received
  <2>2. Start(p, Len(output[h]) + 1)' = Start(p, Len(output[h]) + 1)
    BY <1>3 DEF Start
  <2> QED
    BY <1>1, <1>3, <1>7, <1>9, <1>10, <2>1, <2>2 DEF StreamInv, ReceiverInv
<1>13. CloseInv(h)' /\ CloseInv(p)'
  <2>1. AllOutput(h)' = AllOutput(h) /\ AllOutput(p)' = AllOutput(p)
    BY <1>3 DEF AllOutput
  <2>2. CloseInv(h)'
    <3>1. termination_state'[h] \in {"FIN_WAIT_2", "TIME_WAIT"} => FinSeen(p)'
      BY <1>1, <1>3, <1>8, <1>9 DEF StreamInv, CloseInv
    <3>2. FinSent(h)' => AllOutput(h)'
      BY <1>1, <1>9, <2>1 DEF StreamInv, CloseInv
    <3>3. FinSent(p)'
      BY <1>5, <1>9
    <3> QED
      BY <1>7, <3>1, <3>2, <3>3 DEF CloseInv
  <2>3. CloseInv(p)'
    BY <1>1, <1>7, <1>9, <2>1 DEF StreamInv, CloseInv
  <2> QED
    BY <2>2, <2>3
<1>14. \A g \in Host : CloseInv(g)'
  BY <1>13 DEF Host, Peer
<1>15. curr_ackno[h] <= curr_ackno'[h] /\ Len(output[h]) <= Len(output'[h])
  <2>1. curr_ackno[h] <= curr_ackno'[h]
    BY <1>1, <1>5, <1>7
  <2>2. Len(output'[h]) = Len(output[h])
    BY <1>3
  <2> QED
    BY <1>1, <2>1, <2>2, EqualIsLeq, Zenon
<1> QED
  BY <1>1, <1>3, <1>7, <1>9, <1>11, <1>12, <1>14, <1>15, ReceiverStep

-----------------------------------------------------------------------------
(* Receiving data *)

(* No two positions of a stream start at the same sequence number.          *)
LEMMA StartInjective ==
  ASSUME TypeOK, NEW p \in Host, InputInv(p),
         NEW c \in 1..Len(input[p]), NEW k \in 1..(Len(input[p]) + 1), Start(p, c) = Start(p, k)
  PROVE  c = k
<1>1. PICK m \in Nat : m = Len(input[p])
  BY HostTypes
<1>2. \A i \in 1..m : /\ input[p][i].seqno = Start(p, i) /\ input[p][i].len > 0
                      /\ input[p][i].seqno \in Nat /\ input[p][i].len \in Nat
  BY <1>1, HostTypes DEF InputInv
<1>3. \A i \in 1..m : End(input[p][i]) > input[p][i].seqno /\ End(input[p][i]) \in Nat
  <2> SUFFICES ASSUME NEW i \in 1..m
               PROVE  End(input[p][i]) > input[p][i].seqno /\ End(input[p][i]) \in Nat
    OBVIOUS
  <2>1. End(input[p][i]) = input[p][i].seqno + input[p][i].len
    BY DEF End
  <2> QED
    BY <1>2, <2>1
<1>4. \A i, j \in 1..m : i < j => End(input[p][i]) <= input[p][j].seqno
  BY <1>1 DEF InputInv
<1>5. CASE c < k
  <2>1. k - 1 \in 1..m /\ k # 1 /\ (c = k - 1 \/ c < k - 1) /\ c \in 1..m
    BY <1>1, <1>5
  <2>2. Start(p, k) = End(input[p][k - 1])
    BY <2>1 DEF Start
  <2>3. input[p][c].seqno <= input[p][k - 1].seqno
    <3>1. CASE c = k - 1
      BY <1>2, <2>1, <3>1
    <3>2. CASE c < k - 1
      <4>1. End(input[p][c]) <= input[p][k - 1].seqno
        BY <1>4, <2>1, <3>2
      <4> QED
        BY <1>2, <1>3, <2>1, <4>1
    <3> QED
      BY <2>1, <3>1, <3>2
  <2>4. input[p][c].seqno < Start(p, k)
    BY <1>2, <1>3, <2>1, <2>2, <2>3
  <2> QED
    BY <1>2, <2>1, <2>4
<1>6. CASE k < c
  <2>1. k \in 1..m /\ c \in 1..m
    BY <1>1, <1>6
  <2>2. input[p][k].seqno < input[p][c].seqno
    <3>1. End(input[p][k]) <= input[p][c].seqno
      BY <1>4, <1>6, <2>1
    <3> QED
      BY <1>2, <1>3, <2>1, <3>1
  <2> QED
    BY <1>2, <2>1, <2>2
<1>7. c \in Nat /\ k \in Nat
  BY <1>1
<1> QED
  BY <1>5, <1>6, <1>7

(* The n segments that ctcp_output finds without a hole are the n chunks    *)
(* that come next.                                                          *)
LEMMA OutputsNextChunks ==
  ASSUME TypeOK, \A g \in Host : StreamInv(g), NEW h \in Host,
         NEW rcvd \in Seq(Segment), \A i \in 1..Len(rcvd) : IsChunk(Peer(h), rcvd[i]),
         NEW n \in 0..Len(rcvd), NEW taken, NEW queued, Outputs(h, rcvd, n, taken, queued)
  PROVE  \A i \in 1..n : /\ rcvd[i].data = Len(output[h]) + i
                         /\ Len(output[h]) + i \in 1..Len(input[Peer(h)])
                         /\ End(rcvd[i]) = Start(Peer(h), Len(output[h]) + i + 1)
<1> DEFINE p == Peer(h)
<1>1. p \in Host /\ Peer(p) = h /\ StreamInv(h) /\ StreamInv(p)
  BY PeerType
<1>2. PICK l \in Nat : l = Len(output[h])
  BY HostTypes
<1>3. PICK m \in Nat : m = Len(input[p]) /\ l <= m
  BY <1>1, <1>2, HostTypes DEF StreamInv, ReceiverInv
<1>4. n \in Nat /\ \A i \in 1..n : i \in 1..Len(rcvd)
  BY LenProperties
<1>5. \A i \in 1..n : /\ IsChunk(p, rcvd[i])
                      /\ rcvd[i].seqno = (IF i = 1 THEN rx_next_output_seqno[h] ELSE End(rcvd[i - 1]))
  BY <1>4 DEF Outputs
<1>6. \A i \in 1..n : /\ rcvd[i].data \in 1..m
                      /\ End(rcvd[i]) = Start(p, rcvd[i].data + 1)
                      /\ rcvd[i].seqno = Start(p, rcvd[i].data)
  <2> SUFFICES ASSUME NEW i \in 1..n
               PROVE  /\ rcvd[i].data \in 1..m /\ End(rcvd[i]) = Start(p, rcvd[i].data + 1)
                      /\ rcvd[i].seqno = Start(p, rcvd[i].data)
    OBVIOUS
  <2>1. PICK d \in 1..m : d = rcvd[i].data /\ rcvd[i].seqno = input[p][d].seqno
          /\ rcvd[i].len = input[p][d].len
    BY <1>3, <1>5 DEF IsChunk
  <2>2. d + 1 # 1 /\ (d + 1) - 1 = d
    BY <1>3
  <2>3. End(rcvd[i]) = End(input[p][d])
    BY <2>1 DEF End
  <2>4. Start(p, d + 1) = End(input[p][d])
    BY <2>2 DEF Start
  <2>5. input[p][d].seqno = Start(p, d)
    BY <1>1, <1>3 DEF StreamInv, InputInv
  <2> QED
    BY <2>1, <2>3, <2>4, <2>5
<1> DEFINE T == {i \in 1..n : rcvd[i].data # l + i}
<1>7. T = {}
  <2> SUFFICES ASSUME T # {} PROVE FALSE
    OBVIOUS
  <2>1. T \subseteq Nat
    BY <1>4
  <2>2. PICK x \in T : \A y \in T : x <= y
    BY <2>1, LeastElement
  <2>3. x \in 1..n /\ rcvd[x].data # l + x
    BY <2>2
  <2>4. rcvd[x].seqno = Start(p, l + x) /\ l + x \in 1..(m + 1)
    <3>1. CASE x = 1
      <4>1. rcvd[x].seqno = rx_next_output_seqno[h]
        BY <1>5, <2>3, <3>1
      <4>2. rx_next_output_seqno[h] = Start(p, l + 1)
        BY <1>1, <1>2 DEF StreamInv, ReceiverInv
      <4>3. l + 1 \in 1..(m + 1)
        BY <1>3
      <4> QED
        BY <3>1, <4>1, <4>2, <4>3
    <3>2. CASE x # 1
      <4>1. x - 1 \in 1..n /\ ~ (x <= x - 1)
        BY <1>4, <2>3, <3>2
      <4>2. rcvd[x - 1].data = l + (x - 1)
        BY <2>2, <4>1
      <4>3. rcvd[x].seqno = End(rcvd[x - 1])
        BY <1>5, <2>3, <3>2
      <4>4. (l + (x - 1)) + 1 = l + x
        BY <1>4, <2>3
      <4>5. rcvd[x].seqno = Start(p, l + x)
        BY <1>6, <4>1, <4>2, <4>3, <4>4
      <4>6. l + x \in 1..(m + 1)
        <5>1. l + (x - 1) \in 1..m
          BY <1>6, <4>1, <4>2
        <5> QED
          BY <1>3, <2>3, <4>4, <5>1
      <4> QED
        BY <4>5, <4>6
    <3> QED
      BY <3>1, <3>2
  <2>5. PICK c \in 1..m : c = rcvd[x].data /\ rcvd[x].seqno = Start(p, c)
    BY <1>6, <2>3
  <2>6. c = l + x
    BY <1>1, <1>3, <2>4, <2>5, StartInjective DEF StreamInv
  <2> QED
    BY <2>3, <2>5, <2>6
<1>8. \A i \in 1..n : rcvd[i].data = l + i
  BY <1>7
<1> QED
  BY <1>2, <1>3, <1>6, <1>8

(* ctcp_output, run on chunks of the peer's stream.                         *)
LEMMA OutputStep ==
  ASSUME TypeOK, TypeOK', \A g \in Host : StreamInv(g), NEW h \in Host, status[h] = "up",
         NEW rcvd \in Seq(Segment), \A i \in 1..Len(rcvd) : IsChunk(Peer(h), rcvd[i]),
         NEW waiting, NEW queued, NEW transit \in [Host -> Seq(Segment)],
         transit = net \/ (net[h] # << >> /\ transit = Transit(h)),
         ctcp_output(h, rcvd, waiting, queued, transit),
         UNCHANGED << txVars, termination_state, time_wait_in_ms, appVars, faults >>
  PROVE  \A g \in Host : StreamInv(g)'
<1> DEFINE p == Peer(h)
<1>1. /\ p \in Host /\ p # h /\ StreamInv(h) /\ StreamInv(p) /\ Peer(p) = h
      /\ curr_ackno[h] \in Nat /\ rx_next_output_seqno[h] \in Nat
  BY PeerType, HostTypes
<1>2. PICK l \in Nat : l = Len(output[h])
  BY HostTypes
<1>3. PICK m \in Nat : m = Len(input[p])
  BY <1>1, HostTypes
<1>4. PICK n, taken :
        /\ n \in 0..Len(rcvd)
        /\ Outputs(h, rcvd, n, taken, queued)
        /\ LET next == IF n = 0 THEN rx_next_output_seqno[h] ELSE End(rcvd[n])
           IN  /\ rx_next_output_seqno' = [rx_next_output_seqno EXCEPT ![h] = next]
               /\ curr_ackno' = [curr_ackno EXCEPT ![h] = IF n = 0 THEN @ ELSE next]
        /\ received_segments' = [received_segments EXCEPT ![h] = SubSeq(rcvd, n + 1, Len(rcvd))]
        /\ output' = [output EXCEPT ![h] = @ \o [i \in 1..n |-> rcvd[i].data]]
        /\ status' = [status EXCEPT ![h] =
             IF n > 0 /\ curr_ackno[h] # rcvd[1].seqno THEN "aborted" ELSE @]
        /\ net' = [transit EXCEPT ![Peer(h)] =
             @ \o [i \in 1..n |-> AckSegment(h, End(rcvd[i]))]]
  BY DEF ctcp_output
<1>5. n \in Nat /\ Len(rcvd) \in Nat /\ \A i \in 1..n : i \in 1..Len(rcvd) /\ rcvd[i] \in Segment
  BY <1>4, LenProperties, ElementOfSeq
<1>6. \A i \in 1..n : /\ rcvd[i].data = l + i /\ l + i \in 1..m
                      /\ End(rcvd[i]) = Start(p, l + i + 1)
  BY <1>2, <1>3, OutputsNextChunks, <1>4
<1>7. /\ UNCHANGED << curr_seqno, segments, waiting_segments, input, read_eof, termination_state >>
      /\ curr_ackno'[p] = curr_ackno[p] /\ rx_next_output_seqno'[p] = rx_next_output_seqno[p]
      /\ received_segments'[p] = received_segments[p] /\ output'[p] = output[p]
      /\ received_segments'[h] = SubSeq(rcvd, n + 1, Len(rcvd))
      /\ output'[h] = output[h] \o [i \in 1..n |-> rcvd[i].data]
      /\ curr_ackno'[h] = (IF n = 0 THEN curr_ackno[h] ELSE End(rcvd[n]))
      /\ rx_next_output_seqno'[h] = (IF n = 0 THEN rx_next_output_seqno[h] ELSE End(rcvd[n]))
      /\ status'[p] = status[p]
  BY <1>1, <1>4, ZenonT(60) DEF txVars, appVars, TypeOK, RxTypeOK, CtlTypeOK
<1>8. \A g \in Host : FinSent(g)' = FinSent(g) /\ FinSeen(g)' = FinSeen(g)
  BY <1>7 DEF FinSent, FinSeen
<1>9. rx_next_output_seqno[h] = Start(p, l + 1) /\ l <= m
  BY <1>1, <1>2, <1>3 DEF StreamInv, ReceiverInv
(* A FIN comes after everything.                                            *)
<1>10. FinSent(p) => l = m /\ n = 0
  <2> SUFFICES ASSUME FinSent(p) PROVE l = m /\ n = 0
    OBVIOUS
  <2>1. l = m
    BY <1>1, <1>2, <1>3, DataEndIsOutput DEF AllOutput
  <2>2. n # 0 => n \in 1..n
    BY <1>5
  <2>3. n = 0
    BY <1>3, <1>5, <1>6, <2>1, <2>2
  <2> QED
    BY <2>1, <2>3
<1>11. n # 0 => ~FinSeen(h) /\ curr_ackno[h] = rx_next_output_seqno[h]
  <2> SUFFICES ASSUME n # 0 PROVE ~FinSeen(h) /\ curr_ackno[h] = rx_next_output_seqno[h]
    OBVIOUS
  <2>1. ~FinSeen(h)
    BY <1>1, <1>10 DEF StreamInv, CloseInv
  <2>2. curr_ackno[h] = rx_next_output_seqno[h] + 0
    BY <1>1, <2>1 DEF StreamInv, ReceiverInv
  <2> QED
    BY <1>1, <2>1, <2>2
<1>12. status' = status
  <2>1. n # 0 => curr_ackno[h] = rcvd[1].seqno
    <3>1. n # 0 => rcvd[1].seqno = rx_next_output_seqno[h]
      BY <1>4, <1>5 DEF Outputs
    <3> QED
      BY <1>11, <3>1
  <2> QED
    BY <1>4, <1>5, <2>1 DEF TypeOK, CtlTypeOK
(* The segments output end in order.                                        *)
<1>13. \A i, j \in 1..n : i <= j => End(rcvd[i]) <= End(rcvd[j])
  <2> SUFFICES ASSUME NEW i \in 1..n, NEW j \in 1..n, i <= j
               PROVE  End(rcvd[i]) <= End(rcvd[j])
    OBVIOUS
  <2>1. End(rcvd[i]) \in Nat /\ End(rcvd[j]) \in Nat /\ rcvd[j].seqno \in Nat /\ rcvd[j].len \in Nat
    BY <1>5, SegmentTypes DEF Segment
  <2>2. PICK c \in 1..m : c = l + i /\ IsChunk(p, rcvd[i]) /\ rcvd[i].data = c
    BY <1>5, <1>6
  <2>3. PICK d \in 1..m : d = l + j /\ IsChunk(p, rcvd[j]) /\ rcvd[j].data = d
    BY <1>5, <1>6
  <2>4. CASE i = j
    BY <2>1, <2>4
  <2>5. CASE i < j
    <3>1. c < d
      BY <1>5, <2>2, <2>3, <2>5
    <3>2. End(input[p][c]) <= input[p][d].seqno
      BY <1>1, <1>3, <3>1 DEF StreamInv, InputInv
    <3>3. End(rcvd[i]) = End(input[p][c]) /\ rcvd[j].seqno = input[p][d].seqno
      BY <2>2, <2>3 DEF IsChunk, End
    <3>4. End(rcvd[j]) = rcvd[j].seqno + rcvd[j].len
      BY DEF End
    <3> QED
      BY <2>1, <3>2, <3>3, <3>4
  <2> QED
    BY <1>5, <2>4, <2>5
<1>14. curr_ackno[h] <= curr_ackno'[h]
  <2>1. CASE n = 0
    BY <1>1, <1>7, <2>1
  <2>2. CASE n # 0
    <3>1. 1 \in 1..n /\ n \in 1..n /\ 1 <= n
      BY <1>5, <2>2
    <3>2. curr_ackno[h] = rcvd[1].seqno
      BY <1>4, <1>11, <2>2, <3>1 DEF Outputs
    <3>3. rcvd[1].seqno \in Nat /\ rcvd[1].len \in Nat /\ End(rcvd[1]) = rcvd[1].seqno + rcvd[1].len
          /\ End(rcvd[n]) \in Nat
      BY <1>5, <3>1, SegmentTypes DEF Segment, End
    <3>4. End(rcvd[1]) <= End(rcvd[n])
      BY <1>13, <3>1
    <3>5. curr_ackno'[h] = End(rcvd[n])
      BY <1>7, <2>2
    <3> QED
      BY <3>2, <3>3, <3>4, <3>5
  <2> QED
    BY <2>1, <2>2
(* What was output.                                                         *)
<1>15. /\ Len(output'[h]) = l + n
       /\ \A i \in 1..l : output'[h][i] = i
       /\ \A i \in 1..n : output'[h][l + i] = l + i
  <2> DEFINE more == [i \in 1..n |-> rcvd[i].data]
  <2>1. more \in [1..n -> Nat] /\ \A i \in 1..n : more[i] = l + i
    BY <1>2, <1>5, <1>6 DEF Segment
  <2>2. output'[h] = output[h] \o more
    BY <1>7
  <2> HIDE DEF more
  <2>3. more \in Seq(Nat) /\ Len(more) = n
    BY <1>5, <2>1, FunctionIsSeq
  <2>4. output[h] \in Seq(Nat)
    BY HostTypes
  <2>5. Len(output'[h]) = l + n
    BY <1>2, <2>2, <2>3, <2>4, ConcatProperties
  <2>6. \A i \in 1..(l + n) : output'[h][i] = IF i <= l THEN output[h][i] ELSE more[i - l]
    BY <1>2, <2>2, <2>3, <2>4, ConcatProperties
  <2>7. ASSUME NEW i \in 1..l PROVE output'[h][i] = i
    <3>1. i \in 1..(l + n) /\ i <= l
      BY <1>2, <1>5
    <3>2. output[h][i] = i
      BY <1>1, <1>2 DEF StreamInv, ReceiverInv
    <3> QED
      BY <2>6, <3>1, <3>2
  <2>8. ASSUME NEW i \in 1..n PROVE output'[h][l + i] = l + i
    <3>1. l + i \in 1..(l + n) /\ ~ (l + i <= l) /\ (l + i) - l = i
      BY <1>2, <1>5
    <3>2. output'[h][l + i] = more[(l + i) - l]
      BY <2>6, <3>1
    <3> QED
      BY <2>1, <3>1, <3>2
  <2> QED
    BY <2>5, <2>7, <2>8
<1>16. l + n <= m /\ Len(output[h]) <= Len(output'[h])
  <2>1. n # 0 => n \in 1..n
    BY <1>4, <1>5
  <2>2. l + n <= m
    <3>1. CASE n = 0
      BY <1>9, <3>1
    <3>2. CASE n # 0
      <4>1. l + n \in 1..m
        BY <1>6, <2>1, <3>2
      <4> QED
        BY <4>1
    <3> QED
      BY <3>1, <3>2
  <2> QED
    BY <1>2, <1>5, <1>15, <2>2
<1>17. /\ Grows(p)
       /\ \A r : IsChunk(p, r)' <=> IsChunk(p, r)
  BY <1>1, <1>7, <1>8, SameStream
<1>18. ReceiverInv(h)'
  <2>1. \A s \in Received(h)' : IsChunk(p, s)'
    <3>1. ASSUME NEW i \in 1..Len(received_segments'[h])
          PROVE  \E j \in 1..Len(rcvd) : received_segments'[h][i] = rcvd[j]
      <4> DEFINE rest == SubSeq(rcvd, n + 1, Len(rcvd))
      <4>1. \A k \in (n + 1)..Len(rcvd) : rcvd[k] \in Segment
        BY <1>5, ElementOfSeq
      <4>2. n + 1 \in Int /\ Len(rcvd) \in Int
        BY <1>5
      <4>3. /\ Len(rest) = (IF n + 1 <= Len(rcvd) THEN Len(rcvd) - (n + 1) + 1 ELSE 0)
            /\ \A k \in 1..(Len(rcvd) - (n + 1) + 1) : rest[k] = rcvd[(n + 1) + k - 1]
        BY <4>1, <4>2, SubSeqProperties
      <4>4. received_segments'[h] = rest
        BY <1>7
      <4> HIDE DEF rest
      <4>5. i \in 1..(Len(rcvd) - (n + 1) + 1) /\ (n + 1) + i - 1 \in 1..Len(rcvd)
        BY <1>5, <4>3, <4>4
      <4> QED
        BY <4>3, <4>4, <4>5
    <3>2. \A s \in Received(h)' : \E j \in 1..Len(rcvd) : s = rcvd[j]
      BY <3>1 DEF Received
    <3> QED
      BY <1>17, <3>2
  <2>2. Len(output'[h]) <= Len(input'[p])
    BY <1>3, <1>7, <1>15, <1>16
  <2>3. ASSUME NEW i \in 1..Len(output'[h]) PROVE output'[h][i] = i
    <3>1. i \in 1..l \/ (i - l \in 1..n /\ l + (i - l) = i)
      BY <1>2, <1>5, <1>15
    <3>2. CASE i \in 1..l
      BY <1>15, <3>2
    <3>3. CASE i - l \in 1..n /\ l + (i - l) = i
      <4>1. output'[h][l + (i - l)] = l + (i - l)
        BY <1>15, <3>3
      <4> QED
        BY <3>3, <4>1
    <3> QED
      BY <3>1, <3>2, <3>3
  <2>4. rx_next_output_seqno'[h] = Start(p, Len(output[h]) + 1)'
    <3>1. rx_next_output_seqno'[h] = Start(p, l + n + 1)
      <4>1. CASE n = 0
        <5>1. l + n + 1 = l + 1
          BY <1>2, <4>1
        <5> QED
          BY <1>7, <1>9, <4>1, <5>1
      <4>2. CASE n # 0
        <5>1. n \in 1..n
          BY <1>5, <4>2
        <5> QED
          BY <1>6, <1>7, <4>2, <5>1
      <4> QED
        BY <4>1, <4>2
    <3>2. Start(p, l + n + 1) = Start(p, l + n + 1)'
      BY <1>7 DEF Start
    <3>3. Start(p, Len(output[h]) + 1)' = Start(p, l + n + 1)'
      BY <1>15 DEF Start
    <3> QED
      BY <3>1, <3>2, <3>3
  <2>5. curr_ackno'[h] = rx_next_output_seqno'[h] + (IF FinSeen(h)' THEN 1 ELSE 0)
    <3>1. CASE n = 0
      <4>1. curr_ackno'[h] = curr_ackno[h] /\ rx_next_output_seqno'[h] = rx_next_output_seqno[h]
        BY <1>7, <3>1
      <4>2. curr_ackno[h] = rx_next_output_seqno[h] + (IF FinSeen(h) THEN 1 ELSE 0)
        BY <1>1 DEF StreamInv, ReceiverInv
      <4>3. FinSeen(h)' = FinSeen(h)
        BY <1>8
      <4>4. CASE FinSeen(h)
        BY <4>1, <4>2, <4>3, <4>4
      <4>5. CASE ~FinSeen(h)
        BY <4>1, <4>2, <4>3, <4>5
      <4> QED
        BY <4>4, <4>5
    <3>2. CASE n # 0
      <4>1. ~FinSeen(h)' /\ curr_ackno'[h] = End(rcvd[n]) /\ rx_next_output_seqno'[h] = End(rcvd[n])
        BY <1>7, <1>8, <1>11, <3>2
      <4>2. End(rcvd[n]) \in Nat
        <5>1. n \in 1..n
          BY <1>5, <3>2
        <5> QED
          BY <1>5, <5>1, SegmentTypes
      <4> QED
        BY <4>1, <4>2
    <3> QED
      BY <3>1, <3>2
  <2> QED
    BY <2>1, <2>2, <2>3, <2>4, <2>5 DEF ReceiverInv
<1>19. \A g \in Host : CloseInv(g)'
  <2>1. AllOutput(h)' = AllOutput(h)
    BY <1>7 DEF AllOutput
  <2>2. FinSent(p) => AllOutput(p)'
    <3>1. FinSent(p) => Len(output'[h]) = m
      BY <1>2, <1>10, <1>15
    <3> QED
      BY <1>1, <1>3, <1>7, <3>1 DEF AllOutput
  <2>3. CloseInv(h)'
    BY <1>1, <1>7, <1>8, <1>12, <2>1 DEF StreamInv, CloseInv
  <2>4. CloseInv(p)'
    BY <1>1, <1>7, <1>8, <1>12, <2>2 DEF StreamInv, CloseInv
  <2> QED
    BY <2>3, <2>4 DEF Host, Peer
(* The acknowledgements.                                                    *)
<1>20. \A g \in Host : \A s \in InTransit(g)' : s \in InTransit(g) \/ Genuine(g, s)'
  <2>1. \A i \in 1..n : AckSegment(h, End(rcvd[i])) \in Segment
    BY <1>5, SegmentTypes
  <2>2. PICK acks : acks = [i \in 1..n |-> AckSegment(h, End(rcvd[i]))]
    OBVIOUS
  <2>3. acks \in [1..n -> Segment]
    BY <2>1, <2>2
  <2>4. acks \in Seq(Segment) /\ Len(acks) = n
    BY <1>5, <2>3, FunctionIsSeq
  <2>5. net' = [transit EXCEPT ![Peer(h)] = @ \o acks]
    BY <1>4, <2>2
  <2>6. \A g \in Host : \A s \in InTransit(g)' :
          s \in InTransit(g) \/ (g = h /\ \E i \in 1..Len(acks) : s = acks[i])
    BY <2>4, <2>5, SentTransit
  <2>7. ASSUME NEW i \in 1..n PROVE Genuine(h, acks[i])'
    <3>1. PICK a \in Segment : a = acks[i] /\ a = AckSegment(h, End(rcvd[i]))
      BY <2>1, <2>2
    <3>2. is_ack(a) /\ a.ackno = End(rcvd[i])
      BY <3>1 DEF AckSegment, is_ack
    <3>3. n # 0 /\ n \in 1..n /\ i <= n
      BY <1>5
    <3>4. curr_ackno'[h] = End(rcvd[n])
      BY <1>7, <3>3
    <3>5. a.ackno <= curr_ackno'[h]
      BY <1>13, <3>2, <3>3, <3>4
    <3>6. Genuine(h, a)'
      BY <3>2, <3>5 DEF Genuine
    <3> QED
      BY <3>1, <3>6
  <2> QED
    BY <2>4, <2>6, <2>7
<1> QED
  BY <1>1, <1>7, <1>8, <1>14, <1>16, <1>18, <1>19, <1>20, ReceiverStep

(* Whatever its order, ll_add_in_order adds no other segment.               *)
LEMMA AddInOrderElements ==
  ASSUME NEW list \in Seq(Segment), NEW s \in Segment,
         NEW i \in 1..Len(AddInOrder(list, s))
  PROVE  AddInOrder(list, s)[i] = s \/ \E j \in 1..Len(list) : AddInOrder(list, s)[i] = list[j]
<1> DEFINE place == AddInOrderPlace(list, s)
           one == << s >>
<1>1. Len(list) \in Nat /\ one \in Seq(Segment) /\ Len(one) = 1 /\ one[1] = s
  BY LenProperties
<1> HIDE DEF one
<1>2. CASE place = "front"
  <2>1. AddInOrder(list, s) = one \o list
    BY <1>2 DEF AddInOrder, one
  <2>2. Len(one \o list) = 1 + Len(list)
    BY <1>1, ConcatProperties
  <2>3. i \in 1..Len(one) + Len(list)
    BY <1>1, <2>1, <2>2
  <2>4. (one \o list)[i] = IF i <= Len(one) THEN one[i] ELSE list[i - Len(one)]
    BY <1>1, <2>3, ConcatProperties
  <2>5. i = 1 \/ (~ (i <= 1) /\ i - 1 \in 1..Len(list))
    BY <1>1, <2>3
  <2> QED
    BY <1>1, <2>1, <2>4, <2>5
<1>3. CASE place = "back"
  <2>1. AddInOrder(list, s) = Append(list, s)
    BY <1>3 DEF AddInOrder
  <2>2. /\ Len(Append(list, s)) = Len(list) + 1
        /\ \A k \in 1..Len(list) : Append(list, s)[k] = list[k]
        /\ Append(list, s)[Len(list) + 1] = s
    BY AppendProperties
  <2>3. i \in 1..Len(list) \/ i = Len(list) + 1
    BY <1>1, <2>1, <2>2
  <2> QED
    BY <2>1, <2>2, <2>3
<1>4. CASE place # "front" /\ place # "back"
  <2>1. AddInOrder(list, s) = list
    BY <1>4 DEF AddInOrder
  <2> QED
    BY <2>1
<1> QED
  BY <1>2, <1>3, <1>4

(* What passes the test of ctcp_receive for new data is data: a FIN that    *)
(* comes again is below curr_ackno.                                         *)
LEMMA NewDataIsChunk ==
  ASSUME TypeOK, \A g \in Host : StreamInv(g), NEW h \in Host, NewData(h)
  PROVE  Head(net[h]) \in Segment /\ IsChunk(Peer(h), Head(net[h]))
<1> DEFINE p == Peer(h)
<1>1. /\ p \in Host /\ Peer(p) = h /\ StreamInv(h) /\ StreamInv(p)
      /\ curr_ackno[h] \in Nat /\ rx_next_output_seqno[h] \in Nat
  BY PeerType, HostTypes
<1>2. PICK s \in Segment : s = Head(net[h]) /\ Genuine(p, s)
  BY ArrivalGenuine DEF NewData, Ordinary, Arrives
<1>3. ~is_ack(s) /\ curr_ackno[h] <= s.seqno /\ ~FinExpected(h, s) /\ is_new_data_segment(h, s)
  BY <1>2 DEF NewData, Ordinary, is_new_data_segment
<1>4. ~IsFin(p, s)
  <2> SUFFICES ASSUME IsFin(p, s) PROVE FALSE
    OBVIOUS
  <2>1. s.flag = "FIN" /\ FinSent(p) /\ s.seqno = DataEnd(p)
    BY DEF IsFin
  <2>2. termination_state[h] \notin {"CONN_ESTABLISHED", "FIN_WAIT_1", "FIN_WAIT_2"}
    BY <1>3, <2>1 DEF FinExpected, OnFin
  <2>3. FinSeen(h)
    BY <2>2 DEF FinSeen, TypeOK, CtlTypeOK
  <2>4. curr_ackno[h] = rx_next_output_seqno[h] + 1
    BY <1>1, <2>3 DEF StreamInv, ReceiverInv
  <2>5. rx_next_output_seqno[h] = s.seqno
    BY <1>1, <2>1, DataEndIsOutput
  <2> QED
    BY <1>1, <1>3, <2>4, <2>5
<1> QED
  BY <1>2, <1>3, <1>4 DEF Genuine

(* The receive buffer holds chunks.                                         *)
LEMMA ReceivedIsChunk ==
  ASSUME TypeOK, NEW h \in Host, StreamInv(h)
  PROVE  /\ received_segments[h] \in Seq(Segment)
         /\ \A i \in 1..Len(received_segments[h]) : IsChunk(Peer(h), received_segments[h][i])
  BY HostTypes DEF StreamInv, ReceiverInv, Received

(* A data segment, new or old, and the run of ctcp_output it leads to.      *)
LEMMA ReceiveDataStep ==
  ASSUME TypeOK, TypeOK', \A g \in Host : StreamInv(g), NEW h \in Host,
         ReceiveData(h) \/ ReceiveOldData(h)
  PROVE  \A g \in Host : StreamInv(g)'
<1>1. net[h] # << >> /\ status[h] = "up"
      /\ UNCHANGED << txVars, termination_state, time_wait_in_ms, appVars, faults >>
  BY DEF ReceiveData, ReceiveOldData, NewData, Ordinary, Arrives
<1>2. PICK transit \in [Host -> Seq(Segment)] : transit = Transit(h)
  BY <1>1, TransitType DEF TypeOK, NetTypeOK
<1>3. transit = net \/ (net[h] # << >> /\ transit = Transit(h))
  BY <1>1, <1>2
<1>4. CASE ReceiveData(h)
  <2>1. PICK s \in Segment : s = Head(net[h]) /\ IsChunk(Peer(h), s)
    BY <1>4, NewDataIsChunk DEF ReceiveData
  <2>2. PICK list \in Seq(Segment) : list = received_segments[h]
          /\ \A i \in 1..Len(list) : IsChunk(Peer(h), list[i])
    BY ReceivedIsChunk
  <2>3. PICK rcvd \in Seq(Segment) : rcvd = AddInOrder(list, s)
    BY AddInOrderType
  <2>4. \A i \in 1..Len(rcvd) : IsChunk(Peer(h), rcvd[i])
    <3> SUFFICES ASSUME NEW i \in 1..Len(rcvd) PROVE IsChunk(Peer(h), rcvd[i])
      OBVIOUS
    <3>1. rcvd[i] = s \/ \E j \in 1..Len(list) : rcvd[i] = list[j]
      BY <2>3, AddInOrderElements
    <3> QED
      BY <2>1, <2>2, <3>1
  <2>5. ctcp_output(h, rcvd, WaitingWith(h), out_queue[h], transit)
    BY <1>2, <1>4, <2>1, <2>2, <2>3 DEF ReceiveData
  <2> QED
    BY <1>1, <1>3, <2>4, <2>5, OutputStep
<1>5. CASE ReceiveOldData(h)
  <2>1. PICK rcvd \in Seq(Segment) : rcvd = received_segments[h]
          /\ \A i \in 1..Len(rcvd) : IsChunk(Peer(h), rcvd[i])
    BY ReceivedIsChunk
  <2>2. ctcp_output(h, rcvd, rx_waiting_bytes[h], out_queue[h], transit)
    BY <1>2, <1>5, <2>1 DEF ReceiveOldData
  <2> QED
    BY <1>1, <1>3, <2>1, <2>2, OutputStep
<1> QED
  BY <1>4, <1>5

(* STDOUT takes more, and ctcp_output runs.                                 *)
LEMMA DrainStep ==
  ASSUME TypeOK, TypeOK', \A g \in Host : StreamInv(g), NEW h \in Host, Drain(h)
  PROVE  \A g \in Host : StreamInv(g)'
<1>1. status[h] = "up"
      /\ UNCHANGED << txVars, termination_state, time_wait_in_ms, appVars, faults >>
  BY DEF Drain
<1>2. PICK transit \in [Host -> Seq(Segment)] : transit = net
  BY DEF TypeOK, NetTypeOK
<1>3. PICK rcvd \in Seq(Segment) : rcvd = received_segments[h]
        /\ \A i \in 1..Len(rcvd) : IsChunk(Peer(h), rcvd[i])
  BY ReceivedIsChunk
<1>4. PICK w \in 1..out_queue[h] :
        ctcp_output(h, rcvd, rx_waiting_bytes[h], out_queue[h] - w, transit)
  BY <1>2, <1>3 DEF Drain
<1> QED
  BY <1>1, <1>2, <1>3, <1>4, OutputStep

(* Every way through ctcp_receive.                                          *)
LEMMA ReceiveStep ==
  ASSUME TypeOK, TypeOK', \A g \in Host : StreamInv(g), NEW h \in Host, Receive(h)
  PROVE  \A g \in Host : StreamInv(g)'
  BY LostStep, ReceiveFinStep, ReceiveFinAckStep, ReceiveAckStep, ReceiveDataStep DEF Receive

-----------------------------------------------------------------------------
(* The invariant *)

(* Nothing was read, sent or received at first.                             *)
LEMMA StreamInit == ASSUME Init, NEW g \in Host PROVE StreamInv(g)
<1>1. Peer(g) \in Host
  BY PeerType
<1>2. /\ ~FinSent(g) /\ ~FinSeen(g) /\ termination_state[g] = "CONN_ESTABLISHED"
      /\ status[g] = "up"
  BY DEF Init, FinSent, FinSeen, Open
<1>3. input[g] = << >> /\ input[Peer(g)] = << >> /\ output[g] = << >> /\ output[Peer(g)] = << >>
      /\ curr_seqno[g] = 1 /\ curr_ackno[g] = 1 /\ rx_next_output_seqno[g] = 1
      /\ segments[g] = << >> /\ waiting_segments[g] = << >> /\ received_segments[g] = << >>
      /\ net[Peer(g)] = << >>
  BY <1>1 DEF Init
<1>4. Sent(g) = {} /\ Waiting(g) = {} /\ InTransit(g) = {} /\ Received(g) = {}
  BY <1>3 DEF Sent, Waiting, InTransit, Received
<1>5. Start(g, 0 + 1) = 1 /\ Start(Peer(g), 0 + 1) = 1
  BY DEF Start
<1>6. InputInv(g)
  BY <1>2, <1>3, <1>5 DEF InputInv, DataEnd
<1>7. SenderInv(g) /\ TransitInv(g)
  BY <1>2, <1>4 DEF SenderInv, TransitInv
<1>8. ReceiverInv(g)
  BY <1>2, <1>3, <1>4, <1>5 DEF ReceiverInv
<1>9. CloseInv(g) /\ AckedOf(g)
  BY <1>2, <1>3 DEF CloseInv, AckedOf
<1> QED
  BY <1>6, <1>7, <1>8, <1>9 DEF StreamInv

(* StreamInvariant holds throughout: it is inductive, relative to the types. *)
THEOREM StreamCorrect == Spec => []StreamInvariant
<1>1. Init => StreamInvariant
  BY StreamInit, ByStream
<1>2. ASSUME TypeOK, TypeOK', StreamInvariant, [Next]_vars PROVE StreamInvariant'
  <2>1. \A g \in Host : StreamInv(g)
    BY <1>2, ByStream
  <2>2. CASE Next
    <3>1. PICK h \in Host :
            \/ ReadData(h) \/ ReadEofBusy(h) \/ ReadEofCloses(h) \/ PacingTimer(h)
            \/ Drain(h) \/ Receive(h) \/ Absorb(h) \/ ctcp_timer(h) \/ Fault(h)
      BY <2>2 DEF Next
    <3>2. \A g \in Host : StreamInv(g)'
      BY <1>2, <2>1, <3>1, ReadDataStep, ReadEofBusyStep, ReadEofClosesStep, PacingTimerStep,
         DrainStep, ReceiveStep, LostStep, TimerStep, FaultStep
    <3> QED
      BY <3>2 DEF StreamInvariant, StreamInv, AckedWasOutput, AckedOf
  <2>3. CASE UNCHANGED vars
    <3>1. UNCHANGED streamVars /\ UNCHANGED << status, net >>
      BY <2>3 DEF vars, txVars, rxVars, ctlVars, appVars, netVars, streamVars
    <3>2. \A g \in Host : InTransit(g)' = InTransit(g)
      BY <3>1 DEF InTransit
    <3>3. \A g \in Host : StreamInv(g)'
      BY <1>2, <2>1, <3>1, <3>2, TransitStep
    <3> QED
      BY <3>3 DEF StreamInvariant, StreamInv, AckedWasOutput, AckedOf
  <2> QED
    BY <1>2, <2>2, <2>3
<1> QED
  BY <1>1, <1>2, TypeCorrect, PTL DEF Spec

-----------------------------------------------------------------------------
(* What follows *)

(* The state machine and curr_ackno agree on the peer's FIN.                *)
LEMMA FinReceivedIsSeen ==
  ASSUME TypeOK, StreamInvariant, NEW h \in Host
  PROVE  FinReceived(h) <=> FinSeen(h)
<1>1. curr_ackno[h] \in Nat /\ rx_next_output_seqno[h] \in Nat
  BY HostTypes
<1>2. curr_ackno[h] = rx_next_output_seqno[h] + (IF FinSeen(h) THEN 1 ELSE 0)
  BY DEF StreamInvariant, ReceiverInv
<1>3. CASE FinSeen(h)
  BY <1>1, <1>2, <1>3 DEF FinReceived
<1>4. CASE ~FinSeen(h)
  BY <1>1, <1>2, <1>4 DEF FinReceived
<1> QED
  BY <1>3, <1>4

(* Each host passes to STDOUT what its peer read from STDIN, in order and   *)
(* once, with any windows, any number of chunks and any number of faults.   *)
THEOREM Delivery == Spec => []InOrderDelivery
<1>1. StreamInvariant => InOrderDelivery
  BY DEF StreamInvariant, ReceiverInv, InOrderDelivery
<1> QED
  BY <1>1, StreamCorrect, PTL

(* A chunk leaves the sender's buffers only once the peer has output it.    *)
THEOREM Acknowledgement == Spec => []AckedWasOutput
<1>1. StreamInvariant => AckedWasOutput
  BY DEF StreamInvariant
<1> QED
  BY <1>1, StreamCorrect, PTL

(* The assertion of send_only_ack never fails.                              *)
THEOREM AssertionHolds == Spec => []NoAssertFails
<1>1. StreamInvariant => NoAssertFails
  BY DEF StreamInvariant, CloseInv, NoAssertFails
<1> QED
  BY <1>1, StreamCorrect, PTL

(* No close, from either side, loses data.                                  *)
THEOREM Close == Spec => []CloseIsComplete
<1>1. TypeOK /\ StreamInvariant => CloseIsComplete
  <2> SUFFICES ASSUME TypeOK, StreamInvariant, NEW h \in Host
               PROVE  /\ FinSent(h) => AllOutput(h)
                      /\ FinReceived(h) => AllOutput(Peer(h))
                      /\ status[h] = "closed" => FinSent(h) /\ FinReceived(h)
    BY DEF CloseIsComplete
  <2>1. CloseInv(h) /\ CloseInv(Peer(h)) /\ (FinReceived(h) <=> FinSeen(h))
    BY PeerType, FinReceivedIsSeen DEF StreamInvariant
  <2>2. status[h] = "closed" => FinSent(h) /\ FinSeen(h)
    BY <2>1 DEF CloseInv, FinSent, FinSeen, Open
  <2> QED
    BY <2>1, <2>2 DEF CloseInv
<1> QED
  BY <1>1, TypeCorrect, StreamCorrect, PTL

(* The termination states of the two hosts agree.                           *)
THEOREM Agreement == Spec => []TerminationAgrees
<1>1. TypeOK /\ StreamInvariant => TerminationAgrees
  <2> SUFFICES ASSUME TypeOK, StreamInvariant, NEW h \in Host
               PROVE  /\ termination_state[h] \in {"FIN_WAIT_2", "TIME_WAIT"} => FinReceived(Peer(h))
                      /\ termination_state[h] \in {"CLOSE_WAIT", "LAST_ACK", "CLOSING", "TIME_WAIT"}
                           => FinReceived(h) /\ FinSent(Peer(h))
                      /\ termination_state[h] \in {"FIN_WAIT_1", "FIN_WAIT_2"} => ~FinReceived(h)
    BY DEF TerminationAgrees
  <2>1. CloseInv(h) /\ (FinReceived(h) <=> FinSeen(h)) /\ (FinReceived(Peer(h)) <=> FinSeen(Peer(h)))
    BY PeerType, FinReceivedIsSeen DEF StreamInvariant
  <2> QED
    BY <2>1 DEF CloseInv, FinSeen
<1> QED
  BY <1>1, TypeCorrect, StreamCorrect, PTL
=============================================================================
