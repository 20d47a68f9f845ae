------------------------- MODULE CtcpImplementation -------------------------
(***************************************************************************)
(* The endpoint implements the reliable stream, for every value of the     *)
(* constants: each handler is one step of ReliableStream or none.          *)
(***************************************************************************)
EXTENDS CtcpRefinement, CtcpDelivery

(* The abstract state, one operator per variable of ReliableStream.         *)
Written == [h \in Host |-> [i \in 1..Len(input[h]) |-> i]]
Ended   == [h \in Host |-> FinSent(h)]
Learned == [h \in Host |-> FinSeen(h)]
Fate    == [h \in Host |-> IF status[h] \in {"up", "closed"} THEN status[h] ELSE "stopped"]

LEMMA SameHosts == Streams!Host = Host /\ \A h \in Host : Streams!Peer(h) = Peer(h)
BY DEF Streams!Host, Streams!Peer, Host, Peer

(* What the four concrete variables that carry the streams leave unchanged. *)
LEMMA SameStreams ==
  ASSUME UNCHANGED << input, output, termination_state, status >>
  PROVE  UNCHANGED Streams!vars
<1>1. Written' = Written
  BY DEF Written
<1>2. Ended' = Ended /\ Learned' = Learned
  BY DEF Ended, Learned, FinSent, FinSeen
<1>3. Fate' = Fate
  BY DEF Fate
<1> QED
  BY <1>1, <1>2, <1>3 DEF Streams!vars, Written, Ended, Learned, Fate

(* What a host was given is a prefix of what its peer wrote.                *)
GivenPrefix == \A h \in Host :
  /\ output[h] = [i \in 1..Len(output[h]) |-> i]
  /\ Len(output[h]) \in Nat /\ Len(input[Peer(h)]) \in Nat
  /\ Len(output[h]) <= Len(input[Peer(h)])

LEMMA GivenIsPrefix == TypeOK /\ StreamInvariant => GivenPrefix
<1> SUFFICES ASSUME TypeOK, StreamInvariant, NEW h \in Host
             PROVE  /\ output[h] = [i \in 1..Len(output[h]) |-> i]
                    /\ Len(output[h]) \in Nat /\ Len(input[Peer(h)]) \in Nat
                    /\ Len(output[h]) <= Len(input[Peer(h)])
  BY DEF GivenPrefix
<1>1. output[h] \in Seq(Nat) /\ Len(output[h]) \in Nat /\ Len(input[Peer(h)]) \in Nat
  BY HostTypes, PeerType
<1>2. Len(output[h]) <= Len(input[Peer(h)]) /\ \A i \in 1..Len(output[h]) : output[h][i] = i
  BY DEF StreamInvariant, ReceiverInv
<1>3. output[h] \in [1..Len(output[h]) -> Nat]
  BY <1>1
<1>4. output[h] = [i \in 1..Len(output[h]) |-> i]
  BY <1>2, <1>3
<1> QED
  BY <1>1, <1>2, <1>4

LEMMA InitStreams == Init => Streams!Init
<1> SUFFICES ASSUME Init PROVE Streams!Init
  OBVIOUS
<1>1. Written = [h \in Host |-> << >>]
  BY DEF Init, Written
<1>2. Ended = [h \in Host |-> FALSE] /\ Learned = [h \in Host |-> FALSE]
  <2>1. \A h \in Host : termination_state[h] = "CONN_ESTABLISHED"
    BY DEF Init
  <2>2. \A h \in Host : FinSent(h) = FALSE /\ FinSeen(h) = FALSE
    BY <2>1 DEF FinSent, FinSeen, Open
  <2> QED
    BY <2>2 DEF Ended, Learned
<1>3. Fate = [h \in Host |-> "up"] /\ output = [h \in Host |-> << >>]
  BY DEF Init, Fate
<1> QED
  BY <1>1, <1>2, <1>3, SameHosts DEF Streams!Init, Written, Ended, Learned, Fate

-----------------------------------------------------------------------------
(* The steps that write, give and end *)

(* ctcp_read of data writes one chunk.                                      *)
LEMMA ReadDataWrites ==
  ASSUME TypeOK, StreamInvariant, NEW h \in Host, ReadData(h)
  PROVE  Streams!Write(h)
<1>1. status[h] = "up" /\ ~read_eof[h]
  BY DEF ReadData
<1>2. /\ Fate[h] = "up" /\ Fate' = Fate /\ output' = output
      /\ Ended' = Ended /\ Learned' = Learned
  BY <1>1 DEF ReadData, rxVars, ctlVars, Fate, Ended, Learned, FinSent, FinSeen
<1>3. ~Ended[h]
  BY <1>1 DEF StreamInvariant, InputInv, Ended
<1>4. PICK chunk : input' = [input EXCEPT ![h] = Append(@, chunk)]
  BY DEF ReadData
<1>5. \A g \in Host : input[g] \in Seq([seqno : Nat, len : Nat]) /\ Len(input[g]) \in Nat
  BY HostTypes
<1>6. input \in [Host -> Seq([seqno : Nat, len : Nat])]
  BY DEF TypeOK, AppTypeOK
<1>7. Len(input'[h]) = Len(input[h]) + 1 /\ \A g \in Host : g # h => input'[g] = input[g]
  <2>1. input'[h] = Append(input[h], chunk)
    BY <1>4, <1>6
  <2> QED
    BY <1>4, <1>5, <1>6, <2>1
<1>8. Written' = [Written EXCEPT ![h] = Append(@, Len(@) + 1)]
  <2> DEFINE numbers(n) == [i \in 1..n |-> i]
  <2>1. \A n \in Nat : numbers(n) \in Seq(Nat) /\ Len(numbers(n)) = n
    OBVIOUS
  <2>2. \A n \in Nat : numbers(n + 1) = Append(numbers(n), n + 1)
    OBVIOUS
  <2>3. numbers(Len(input[h]) + 1) = Append(numbers(Len(input[h])), Len(numbers(Len(input[h]))) + 1)
    BY <1>5, <2>1, <2>2
  <2>4. Written = [g \in Host |-> numbers(Len(input[g]))]
    BY DEF Written
  <2>5. Written' = [g \in Host |-> numbers(Len(input'[g]))]
    BY DEF Written
  <2> HIDE DEF numbers
  <2> QED
    BY <1>7, <2>3, <2>4, <2>5
<1> QED
  BY <1>2, <1>3, <1>8 DEF Streams!Write, Written, Ended, Learned, Fate

(* ctcp_output gives what it outputs, and nothing once the end is known.    *)
LEMMA OutputGives ==
  ASSUME TypeOK, StreamInvariant, TypeOK', StreamInvariant', NEW h \in Host, status[h] = "up",
         NEW rcvd \in Seq(Segment), NEW waiting, NEW queued, NEW transit,
         ctcp_output(h, rcvd, waiting, queued, transit),
         UNCHANGED << input, termination_state >>
  PROVE  Streams!Next \/ UNCHANGED Streams!vars
<1>1. PICK n \in 0..Len(rcvd) :
        /\ output' = [output EXCEPT ![h] = @ \o [i \in 1..n |-> rcvd[i].data]]
        /\ status' = [status EXCEPT ![h] =
             IF n > 0 /\ curr_ackno[h] # rcvd[1].seqno THEN "aborted" ELSE @]
  BY DEF ctcp_output
<1>2. output \in [Host -> Seq(Nat)] /\ status \in [Host -> Status] /\ Len(rcvd) \in Nat
  BY SMTT(30) DEF TypeOK, RxTypeOK, CtlTypeOK
<1>3. status' = status
  <2>1. status'[h] # "aborted"
    BY DEF StreamInvariant, CloseInv
  <2> QED
    BY <1>1, <1>2, <2>1
<1>4. CASE n = 0
  <2>1. [i \in 1..n |-> rcvd[i].data] = << >>
    BY <1>4
  <2>2. output[h] \o << >> = output[h]
    BY <1>2, ConcatEmptySeq
  <2>3. output' = output
    BY <1>1, <1>2, <2>1, <2>2
  <2> QED
    BY <1>3, <2>3, SameStreams
<1>5. CASE n > 0
  <2> DEFINE more == [i \in 1..n |-> rcvd[i].data]
  <2>1. more \in Seq(Nat) /\ Len(more) = n
    <3>1. \A i \in 1..n : rcvd[i] \in Segment
      BY <1>2, ElementOfSeq
    <3>2. \A i \in 1..n : rcvd[i].data \in Nat
      BY <3>1 DEF Segment
    <3> QED
      BY <1>5, <3>2
  <2>2. output'[h] = output[h] \o more /\ output[h] \in Seq(Nat)
    BY <1>1, <1>2
  <2>3. Len(output'[h]) = Len(output[h]) + n /\ Len(output[h]) \in Nat
    BY <2>1, <2>2
  <2> HIDE DEF more
  <2>4. /\ output'[h] = [i \in 1..Len(output'[h]) |-> i]
        /\ Len(output'[h]) <= Len(input[Peer(h)]) /\ Len(input[Peer(h)]) \in Nat
    <3>1. GivenPrefix'
      BY GivenIsPrefix, PTL
    <3> QED
      BY <3>1, PeerType DEF GivenPrefix
  <2>5. ~FinSeen(h)
    <3>1. FinSeen(h) => AllOutput(Peer(h))
      BY PeerType DEF StreamInvariant, CloseInv
    <3>2. AllOutput(Peer(h)) => Len(output[h]) = Len(input[Peer(h)])
      BY PeerType DEF AllOutput
    <3> QED
      BY <1>2, <1>5, <2>3, <2>4, <3>1, <3>2
  <2>6. output'[h] = SubSeq(Written[Peer(h)], 1, Len(output'[h]))
    <3> DEFINE W == [i \in 1..Len(input[Peer(h)]) |-> i]
    <3>1. W \in Seq(Nat) /\ Len(W) = Len(input[Peer(h)])
      BY <2>4
    <3>2. SubSeq(W, 1, Len(output'[h])) = [i \in 1..Len(output'[h]) |-> i]
      BY <2>3, <2>4, <3>1, <1>2
    <3>3. Written[Peer(h)] = W
      BY PeerType DEF Written
    <3> QED
      BY <2>4, <3>2, <3>3
  <2>7. /\ Len(Written[Peer(h)]) = Len(input[Peer(h)])
        /\ Len(output'[h]) \in (Len(output[h]) + 1)..Len(Written[Peer(h)])
    <3>1. Len(Written[Peer(h)]) = Len(input[Peer(h)])
      BY <2>4, PeerType DEF Written
    <3> QED
      BY <1>2, <1>5, <2>3, <2>4, <3>1
  <2>8. output' = [output EXCEPT ![h] = output'[h]]
    BY <1>1, <1>2
  <2>9. /\ Fate[h] = "up" /\ ~Learned[h] /\ Fate' = Fate
        /\ Written' = Written /\ Ended' = Ended /\ Learned' = Learned
    BY <1>3, <2>5 DEF Fate, Learned, Written, Ended, FinSent, FinSeen
  <2>10. Streams!Give(h)
    <3>1. \E k \in (Len(output[h]) + 1)..Len(Written[Peer(h)]) :
            output' = [output EXCEPT ![h] = SubSeq(Written[Peer(h)], 1, k)]
      BY <2>6, <2>7, <2>8
    <3>2. Streams!Peer(h) = Peer(h)
      BY SameHosts
    <3> QED
      BY <2>9, <3>1, <3>2, Zenon DEF Streams!Give, Written, Ended, Learned, Fate
  <2> QED
    BY <2>10, SameHosts DEF Streams!Next
<1> QED
  BY <1>1, <1>2, <1>4, <1>5

(* ctcp_read of EOF ends the stream once the peer has all of it.            *)
LEMMA EofEnds ==
  ASSUME TypeOK, StreamInvariant', NEW h \in Host, ReadEofCloses(h),
         GivenPrefix, GivenPrefix'
  PROVE  Streams!End(h)
<1>1. /\ status[h] = "up" /\ termination_state[h] \in DOMAIN OnEof
      /\ termination_state' = [termination_state EXCEPT ![h] = OnEof[@]]
      /\ UNCHANGED << input, output, status >>
  BY DEF ReadEofCloses, MayClose, rxVars
<1>2. /\ ~FinSent(h) /\ FinSent(h)' /\ FinSeen(h)' = FinSeen(h)
      /\ \A g \in Host : g # h => FinSent(g)' = FinSent(g) /\ FinSeen(g)' = FinSeen(g)
  <2>1. termination_state'[h] = OnEof[termination_state[h]]
    BY <1>1 DEF TypeOK, CtlTypeOK
  <2>2. \A g \in Host : g # h => termination_state'[g] = termination_state[g]
    BY <1>1 DEF TypeOK, CtlTypeOK
  <2> QED
    BY <1>1, <2>1, <2>2 DEF FinSent, FinSeen, Open, OnEof
<1>3. Ended' = [Ended EXCEPT ![h] = TRUE] /\ ~Ended[h] /\ Learned' = Learned
  BY <1>2 DEF Ended, Learned
<1>4. Written' = Written /\ Fate' = Fate /\ Fate[h] = "up"
  BY <1>1 DEF Written, Fate
<1>5. output[Peer(h)] = Written[h]
  <2>1. Len(output'[Peer(h)]) = Len(input'[h])
    BY <1>2 DEF StreamInvariant, CloseInv, AllOutput
  <2>2. output[Peer(h)] = [i \in 1..Len(input[h]) |-> i]
    BY <1>1, <2>1, PeerType DEF GivenPrefix
  <2> QED
    BY <2>2 DEF Written
<1> QED
  BY <1>1, <1>3, <1>4, <1>5, SameHosts, Zenon
  DEF Streams!End, Streams!Complete, Written, Ended, Learned, Fate

(* ctcp_receive of a FIN learns of the end.                                 *)
LEMMA FinLearns ==
  ASSUME TypeOK, StreamInvariant', NEW h \in Host, ReceiveFin(h), GivenPrefix, GivenPrefix'
  PROVE  Streams!Learn(h)
<1>1. /\ status[h] = "up" /\ termination_state[h] \in DOMAIN OnFin
      /\ termination_state' = [termination_state EXCEPT ![h] = OnFin[@]]
      /\ UNCHANGED << input, output >>
  BY DEF ReceiveFin, Arrives, FinExpected, appVars
<1>2. status' = status
  <2>1. PICK aborts : status' = [status EXCEPT ![h] = IF aborts THEN "aborted" ELSE @]
    BY DEF ReceiveFin
  <2>2. status'[h] # "aborted"
    BY DEF StreamInvariant, CloseInv
  <2> QED
    BY <2>1, <2>2 DEF TypeOK, CtlTypeOK
<1>3. /\ ~FinSeen(h) /\ FinSeen(h)' /\ FinSent(h)' = FinSent(h)
      /\ \A g \in Host : g # h => FinSent(g)' = FinSent(g) /\ FinSeen(g)' = FinSeen(g)
  <2>1. termination_state'[h] = OnFin[termination_state[h]]
    BY <1>1 DEF TypeOK, CtlTypeOK
  <2>2. \A g \in Host : g # h => termination_state'[g] = termination_state[g]
    BY <1>1 DEF TypeOK, CtlTypeOK
  <2> QED
    BY <1>1, <2>1, <2>2 DEF FinSent, FinSeen, Open, OnFin
<1>4. Learned' = [Learned EXCEPT ![h] = TRUE] /\ ~Learned[h] /\ Ended' = Ended
  BY <1>3 DEF Ended, Learned
<1>5. Written' = Written /\ Fate' = Fate /\ Fate[h] = "up"
  BY <1>1, <1>2 DEF Written, Fate
<1>6. Ended[Peer(h)] /\ output[h] = Written[Peer(h)]
  <2>1. FinSent(Peer(h))' /\ AllOutput(Peer(h))'
    BY <1>3, PeerType DEF StreamInvariant, CloseInv
  <2>2. FinSent(Peer(h)) /\ Len(output'[h]) = Len(input'[Peer(h)])
    BY <1>3, <2>1, PeerType DEF AllOutput
  <2>3. output[h] = [i \in 1..Len(input[Peer(h)]) |-> i]
    BY <1>1, <2>2 DEF GivenPrefix
  <2> QED
    BY <2>2, <2>3, PeerType DEF Written, Ended
<1>7. Streams!Peer(h) = Peer(h) /\ Streams!Peer(Streams!Peer(h)) = h
  BY SameHosts, PeerType
<1> QED
  BY <1>1, <1>4, <1>5, <1>6, <1>7, Zenon
  DEF Streams!Learn, Streams!Complete, Written, Ended, Learned, Fate

-----------------------------------------------------------------------------
(* The steps that close or stop, and the others *)

(* A host closes when its stream has ended and it knows of its peer's end.  *)
LEMMA ClosingCloses ==
  ASSUME TypeOK, NEW h \in Host, status[h] = "up", FinSent(h), FinSeen(h),
         termination_state' = [termination_state EXCEPT ![h] = "CLOSED"],
         status' = [status EXCEPT ![h] = "closed"],
         UNCHANGED << input, output >>
  PROVE  Streams!Close(h)
<1>1. \A g \in Host : FinSent(g)' = FinSent(g) /\ FinSeen(g)' = FinSeen(g)
  <2>1. /\ termination_state'[h] = "CLOSED"
        /\ \A g \in Host : g # h => termination_state'[g] = termination_state[g]
    BY DEF TypeOK, CtlTypeOK
  <2> QED
    BY <2>1 DEF FinSent, FinSeen, Open
<1>2. Ended' = Ended /\ Learned' = Learned /\ Ended[h] /\ Learned[h]
  BY <1>1 DEF Ended, Learned
<1>3. Written' = Written /\ Fate[h] = "up"
  BY DEF Written, Fate
<1>4. Fate' = [Fate EXCEPT ![h] = "closed"]
  BY DEF Fate, TypeOK, CtlTypeOK
<1> QED
  BY <1>2, <1>3, <1>4, Zenon DEF Streams!Close, Written, Ended, Learned, Fate

(* Hanging, crashing and being torn down stop a host.                       *)
LEMMA StoppingStops ==
  ASSUME TypeOK, NEW h \in Host, status[h] = "up",
         NEW how \in {"hung", "crashed", "torn down"},
         status' = [status EXCEPT ![h] = how],
         UNCHANGED << input, output, termination_state >>
  PROVE  Streams!Stop(h)
<1>1. Written' = Written /\ Ended' = Ended /\ Learned' = Learned /\ Fate[h] = "up"
  BY DEF Written, Ended, Learned, FinSent, FinSeen, Fate
<1>2. Fate' = [Fate EXCEPT ![h] = "stopped"]
  BY DEF Fate, TypeOK, CtlTypeOK
<1> QED
  BY <1>1, <1>2, Zenon DEF Streams!Stop, Written, Ended, Learned, Fate

(* ctcp_receive of the acknowledgement of the FIN closes from LAST_ACK;     *)
(* elsewhere it only moves the termination state.                           *)
LEMMA FinAckCloses ==
  ASSUME TypeOK, StreamInvariant, NEW h \in Host, ReceiveFinAck(h)
  PROVE  Streams!Close(h) \/ UNCHANGED Streams!vars
<1>1. /\ status[h] = "up" /\ termination_state[h] \in DOMAIN OnFinAcked
      /\ termination_state' = [termination_state EXCEPT ![h] = OnFinAcked[@]]
      /\ status' = [status EXCEPT ![h] =
           IF termination_state[h] = "LAST_ACK" THEN "closed" ELSE @]
      /\ UNCHANGED << input, output >>
  BY DEF ReceiveFinAck, Arrives, FinAcked, rxVars, appVars
<1>2. CASE termination_state[h] = "LAST_ACK"
  <2>1. FinSent(h) /\ FinSeen(h)
    BY <1>2 DEF FinSent, FinSeen, Open
  <2>2. /\ termination_state' = [termination_state EXCEPT ![h] = "CLOSED"]
        /\ status' = [status EXCEPT ![h] = "closed"]
    BY <1>1, <1>2 DEF OnFinAcked, TypeOK, CtlTypeOK
  <2> QED
    BY <1>1, <2>1, <2>2, ClosingCloses
<1>3. CASE termination_state[h] # "LAST_ACK"
  <2>1. status' = status
    BY <1>1, <1>3 DEF TypeOK, CtlTypeOK
  <2>2. \A g \in Host : FinSent(g)' = FinSent(g) /\ FinSeen(g)' = FinSeen(g)
    <3>1. /\ termination_state'[h] = OnFinAcked[termination_state[h]]
          /\ \A g \in Host : g # h => termination_state'[g] = termination_state[g]
      BY <1>1 DEF TypeOK, CtlTypeOK
    <3> QED
      BY <1>1, <1>3, <3>1 DEF FinSent, FinSeen, Open, OnFinAcked
  <2>3. Ended' = Ended /\ Learned' = Learned
    BY <2>2 DEF Ended, Learned
  <2>4. Written' = Written /\ Fate' = Fate
    BY <1>1, <2>1 DEF Written, Fate
  <2> QED
    BY <1>1, <2>3, <2>4 DEF Streams!vars, Written, Ended, Learned, Fate
<1> QED
  BY <1>2, <1>3

(* ctcp_receive, by the way taken through it.                               *)
LEMMA ReceiveImplements ==
  ASSUME TypeOK, StreamInvariant, TypeOK', StreamInvariant', GivenPrefix, GivenPrefix',
         NEW h \in Host, Receive(h)
  PROVE  Streams!Next \/ UNCHANGED Streams!vars
<1>1. CASE ReceiveCorrupt(h) \/ ReceiveAck(h)
  BY <1>1, SameStreams DEF ReceiveCorrupt, ReceiveAck, rxVars, ctlVars, appVars
<1>2. CASE ReceiveFin(h)
  BY <1>2, FinLearns, SameHosts DEF Streams!Next
<1>3. CASE ReceiveFinAck(h)
  BY <1>3, FinAckCloses, SameHosts DEF Streams!Next
<1>4. CASE ReceiveData(h) \/ ReceiveOldData(h)
  <2>1. received_segments[h] \in Seq(Segment) /\ (net[h] # << >> => Head(net[h]) \in Segment)
    BY HostTypes, HeadTailProperties
  <2>2. PICK rcvd, waiting, transit :
          rcvd \in Seq(Segment) /\ ctcp_output(h, rcvd, waiting, out_queue[h], transit)
    <3>1. CASE ReceiveData(h)
      <4>1. AddInOrder(received_segments[h], Head(net[h])) \in Seq(Segment)
        BY <2>1, <3>1, AddInOrderType DEF ReceiveData, NewData, Ordinary, Arrives
      <4> QED
        BY <3>1, <4>1 DEF ReceiveData
    <3>2. CASE ReceiveOldData(h)
      BY <2>1, <3>2 DEF ReceiveOldData
    <3> QED
      BY <1>4, <3>1, <3>2
  <2>3. status[h] = "up" /\ UNCHANGED << input, termination_state >>
    BY <1>4 DEF ReceiveData, ReceiveOldData, NewData, Ordinary, Arrives, appVars
  <2> QED
    BY <2>2, <2>3, OutputGives
<1>5. CASE ReceiveHangs(h) \/ ReceiveOverflows(h)
  <2>1. PICK how \in {"hung", "crashed", "torn down"} : ReceiverStops(h, how)
    BY <1>5 DEF ReceiveHangs, ReceiveOverflows
  <2>2. Streams!Stop(h)
    BY <1>5, <2>1, StoppingStops
    DEF ReceiverStops, ReceiveHangs, ReceiveOverflows, NewData, Ordinary, Arrives, rxVars, appVars
  <2> QED
    BY <2>2, SameHosts DEF Streams!Next
<1> QED
  BY <1>1, <1>2, <1>3, <1>4, <1>5 DEF Receive

(* ctcp_timer closes, tears down, or leaves the streams alone.              *)
LEMMA TimerImplements ==
  ASSUME TypeOK, StreamInvariant, NEW h \in Host, ctcp_timer(h)
  PROVE  Streams!Next \/ UNCHANGED Streams!vars
<1>1. CASE TimerCloses(h)
  <2>1. status[h] = "up" /\ Waits(h) /\ UNCHANGED << input, output >>
    BY <1>1 DEF TimerCloses, TimerFires, rxVars, appVars
  <2>2. FinSent(h) /\ FinSeen(h)
    BY <2>1 DEF Waits, FinSent, FinSeen, Open
  <2>3. Streams!Close(h)
    BY <1>1, <2>1, <2>2, ClosingCloses DEF TimerCloses
  <2> QED
    BY <2>3, SameHosts DEF Streams!Next
<1>2. CASE TimerWaits(h) \/ TimerRetransmits(h)
  BY <1>2, SameStreams DEF TimerWaits, TimerRetransmits, rxVars, ctlVars, appVars
<1>3. CASE TimerTearsDown(h)
  <2>1. Streams!Stop(h)
    BY <1>3, StoppingStops DEF TimerTearsDown, TimerFires, rxVars, appVars
  <2> QED
    BY <2>1, SameHosts DEF Streams!Next
<1> QED
  BY <1>1, <1>2, <1>3 DEF ctcp_timer

(* Every step is a step of the reliable stream or leaves it alone.          *)
LEMMA StepImplements ==
  ASSUME TypeOK, StreamInvariant, TypeOK', StreamInvariant', GivenPrefix, GivenPrefix', [Next]_vars
  PROVE  [Streams!Next]_(Streams!vars)
<1>1. CASE UNCHANGED vars
  BY <1>1, SameStreams DEF vars, rxVars, ctlVars, appVars
<1>2. CASE Next
  <2>1. PICK h \in Host :
          \/ ReadData(h) \/ ReadEofBusy(h) \/ ReadEofCloses(h) \/ PacingTimer(h)
          \/ Drain(h) \/ Receive(h) \/ Absorb(h) \/ ctcp_timer(h) \/ Fault(h)
    BY <1>2 DEF Next
  <2>2. CASE ReadData(h)
    BY <2>2, ReadDataWrites, SameHosts DEF Streams!Next
  <2>3. CASE ReadEofCloses(h)
    BY <2>3, EofEnds, SameHosts DEF Streams!Next
  <2>4. CASE ReadEofBusy(h) \/ PacingTimer(h) \/ Absorb(h)
    BY <2>4, SameStreams DEF ReadEofBusy, PacingTimer, Absorb, rxVars, ctlVars, appVars
  <2>5. CASE Drain(h)
    <3>1. PICK w \in 1..out_queue[h] :
            ctcp_output(h, received_segments[h], rx_waiting_bytes[h], out_queue[h] - w, net)
      BY <2>5 DEF Drain
    <3>2. status[h] = "up" /\ received_segments[h] \in Seq(Segment)
          /\ UNCHANGED << input, termination_state >>
      BY <2>5, HostTypes DEF Drain, appVars
    <3> QED
      BY <3>1, <3>2, OutputGives
  <2>6. CASE Receive(h)
    BY <2>6, ReceiveImplements
  <2>7. CASE ctcp_timer(h)
    BY <2>7, TimerImplements
  <2>8. CASE Fault(h)
    BY <2>8, SameStreams
    DEF Fault, Drop, Duplicate, Delay, Corrupt, Strikes, rxVars, ctlVars, appVars
  <2> QED
    BY <2>1, <2>2, <2>3, <2>4, <2>5, <2>6, <2>7, <2>8
<1> QED
  BY <1>1, <1>2

(* Two endpoints over a network that drops, duplicates, delays and corrupts *)
(* segments implement two reliable streams and their ordered close.         *)
THEOREM Implementation == Spec => ImplementsStreams
<1>1. Init => Streams!Init
  BY InitStreams
<1>2. TypeOK /\ StreamInvariant => GivenPrefix
  BY GivenIsPrefix
<1>3. TypeOK /\ StreamInvariant /\ GivenPrefix /\ TypeOK' /\ StreamInvariant' /\ GivenPrefix'
        /\ [Next]_vars => [Streams!Next]_(Streams!vars)
  BY StepImplements
<1> QED
  BY <1>1, <1>2, <1>3, TypeCorrect, StreamCorrect, PTL DEF Spec, ImplementsStreams, Streams!Spec
=============================================================================
