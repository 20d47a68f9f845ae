-------------------------------- MODULE Ctcp --------------------------------
(***************************************************************************)
(* Two hosts running the cTCP endpoint of ctcp.c over a network that may   *)
(* drop, duplicate, delay or corrupt segments (conn_send's own options).   *)
(* A host is one process with one event loop, so a handler runs to its end *)
(* before the next one starts: an action is a whole handler, and the hosts *)
(* and the network interleave between handlers.                            *)
(*                                                                         *)
(* The connection is past its handshake.  Bytes are counted, not stored: a *)
(* chunk read from STDIN is named by its position in input[h].  Sequence   *)
(* numbers are unbounded here.                                             *)
(***************************************************************************)
EXTENDS LinkedList, FiniteSets

CONSTANTS
  Client, Server,     \* the two hosts
  ChunkSizes,         \* sizes conn_input may return
  MaxChunks,          \* bound: how many chunks each host reads before EOF
  MSS,                \* MAX_SEG_DATA_SIZE
  RecvWindow,         \* config.recv_window, in bytes
  SendWindow,         \* config.send_window, in bytes
  InitialCwnd,        \* CTCP_INITIAL_CWND, in segments
  MinCwnd,            \* bbr_cwnd_min_target: cwnd after any on_ack
  BufSpace,           \* MAX_BUF_SPACE
  StdoutBlocks,       \* whether a write to STDOUT may be partial
  Timer,              \* config.timer
  RtTimeout,          \* config.rt_timeout
  MaxTransmissions,   \* transmissions of a segment before tear-down (6)
  TimeWaitLimit,      \* 2 * MSL
  FaultKinds,         \* the conn_send options in force
  FaultTargets,       \* bound: the segments they hit: "data", "ack", "fin"
  MaxFaults,          \* bound: how often they hit
  NetCapacity,        \* bound: segments in transit to one host
  Prompt              \* whether a round trip is shorter than a timer period

Host == {Client, Server}
Peer(h) == IF h = Client THEN Server ELSE Client

ASSUME HostsDiffer == Client # Server
ASSUME SizesAssumption ==
  /\ MSS \in Nat \ {0} /\ ChunkSizes \subseteq 1..MSS
  /\ MaxChunks \in [Host -> Nat]
  /\ RecvWindow \in Nat /\ SendWindow \in Nat \ {0}
  /\ InitialCwnd \in Nat \ {0} /\ MinCwnd \in Nat \ {0}
  /\ BufSpace \in Nat /\ BufSpace >= MSS
  /\ StdoutBlocks \in BOOLEAN
ASSUME TimesAssumption ==
  /\ Timer \in Nat \ {0} /\ RtTimeout \in Nat \ {0}
  /\ MaxTransmissions \in Nat \ {0} /\ TimeWaitLimit \in Nat
ASSUME NetworkAssumption ==
  /\ FaultKinds \subseteq {"drop", "duplicate", "delay", "corrupt"}
  /\ FaultTargets \subseteq {"data", "ack", "fin"}
  /\ MaxFaults \in Nat /\ NetCapacity \in Nat /\ Prompt \in BOOLEAN

VARIABLES
  \* ctcp_state_t, one per host
  curr_seqno, tx_in_flight_bytes, cwnd, segments, waiting_segments,
  curr_ackno, rx_next_output_seqno, rx_waiting_bytes, received_segments,
  termination_state, time_wait_in_ms,
  \* conn_t and the process
  read_eof,           \* conn_input has seen the end of STDIN
  out_queue,          \* bytes conn_output accepted and STDOUT has not
  status,             \* what became of the process
  \* the network
  net,                \* net[h]: segments in transit to h, oldest first
  faults,             \* faults so far
  \* history
  input,              \* input[h]: the chunks h read from its STDIN
  output              \* output[h]: the chunks h passed to conn_output

txVars  == << curr_seqno, tx_in_flight_bytes, cwnd, segments, waiting_segments >>
rxVars  == << curr_ackno, rx_next_output_seqno, rx_waiting_bytes,
              received_segments, out_queue, output >>
ctlVars == << termination_state, time_wait_in_ms, status >>
appVars == << read_eof, input >>
netVars == << net, faults >>
vars == << txVars, rxVars, ctlVars, appVars, netVars >>

-----------------------------------------------------------------------------
(* Segments *)

Segment == [seqno : Nat, ackno : Nat, len : Nat, flag : {"ACK", "FIN"},
            data : Nat, cksum : BOOLEAN]
TransmissionInfo == [segment : Segment, time_elapsed : Nat,
                     num_of_transmission : Nat]

EndLessHeader(s) == s.seqno + s.len - 20       \* mutant: the header counted as data
End(s) == s.seqno + s.len

create_segment(h, flag, len, data) ==
  [segment |-> [seqno |-> curr_seqno[h], ackno |-> curr_ackno[h], len |-> len,
                flag |-> flag, data |-> data, cksum |-> TRUE],
   time_elapsed |-> 0, num_of_transmission |-> 0]

Stamped(h, t) ==      \* a segment leaves with the up-to-date ackno
  [t EXCEPT !.segment = [@ EXCEPT !.ackno = curr_ackno[h]],
            !.num_of_transmission = @ + 1]

AckSegment(h, ackno) ==
  [seqno |-> curr_seqno[h], ackno |-> ackno, len |-> 0, flag |-> "ACK",
   data |-> 0, cksum |-> TRUE]

is_ack(s) == s.flag = "ACK" /\ s.len = 0

AnyDataIsNew(h, s) == s.len > 0                         \* mutant: no test of seqno
NewPastExpected(h, s) == curr_ackno[h] < s.seqno /\ s.len > 0   \* mutant: < for <=
is_new_data_segment(h, s) == curr_ackno[h] <= s.seqno /\ s.len > 0

Kind(s) == IF s.flag = "FIN" THEN "fin" ELSE IF s.len = 0 THEN "ack" ELSE "data"

-----------------------------------------------------------------------------
(* Input and sending *)

Send(h, sent) == net' = [net EXCEPT ![Peer(h)] = @ \o sent]

ReadData(h) ==
  /\ status[h] = "up" /\ ~read_eof[h]
  /\ Len(input[h]) < MaxChunks[h]
  /\ \E len \in ChunkSizes :
       /\ waiting_segments' = [waiting_segments EXCEPT ![h] =
            Append(@, create_segment(h, "ACK", len, Len(input[h]) + 1))]
       /\ curr_seqno' = [curr_seqno EXCEPT ![h] = @ + len]
       /\ input' = [input EXCEPT ![h] =
            Append(@, [seqno |-> curr_seqno[h], len |-> len])]
  /\ UNCHANGED << tx_in_flight_bytes, cwnd, segments, read_eof,
                  rxVars, ctlVars, netVars >>

OnEof == [CONN_ESTABLISHED |-> "FIN_WAIT_1", CLOSE_WAIT |-> "LAST_ACK"]

MayCloseUnsent(h) ==  \* mutant: pending segments forgotten
  segments[h] = << >> /\ termination_state[h] \in DOMAIN OnEof
MayCloseBusy(h) ==    \* mutant: a FIN goes out as soon as EOF is read
  termination_state[h] \in DOMAIN OnEof
MayCloseAtFirstEof(h) ==  \* mutant: an EOF read while busy is forgotten
  /\ segments[h] = << >> /\ waiting_segments[h] = << >> /\ ~read_eof[h]
  /\ termination_state[h] \in DOMAIN OnEof
MayClose(h) == /\ segments[h] = << >> /\ waiting_segments[h] = << >>
               /\ termination_state[h] \in DOMAIN OnEof

ReadEofBusy(h) ==     \* EOF while data is unacknowledged: nothing is sent
  /\ status[h] = "up" /\ ~read_eof[h] /\ ~MayClose(h)
  /\ read_eof' = [read_eof EXCEPT ![h] = TRUE]
  /\ UNCHANGED << input, txVars, rxVars, ctlVars, netVars >>

ReadEofCloses(h) ==   \* a FIN is sent past the pacing queue, by send_segment
  /\ status[h] = "up" /\ MayClose(h)
  /\ LET fin == Stamped(h, create_segment(h, "FIN", 1, 0))
     IN  IF tx_in_flight_bytes[h] + 1 <= SendWindow
         THEN /\ tx_in_flight_bytes' = [tx_in_flight_bytes EXCEPT ![h] = @ + 1]
              /\ segments' = [segments EXCEPT ![h] = Append(@, fin)]
              /\ Send(h, << fin.segment >>)
         ELSE UNCHANGED << tx_in_flight_bytes, segments, net >>
  /\ curr_seqno' = [curr_seqno EXCEPT ![h] = @ + 1]
  /\ termination_state' = [termination_state EXCEPT ![h] = OnEof[@]]
  /\ read_eof' = [read_eof EXCEPT ![h] = TRUE]
  /\ UNCHANGED << cwnd, waiting_segments, input, time_wait_in_ms, status, faults, rxVars >>

WindowAllows(h, len) == tx_in_flight_bytes[h] + len <= cwnd[h] * MSS

PacingTimer(h) ==     \* send_front_segment_in_tx_buffer
  /\ status[h] = "up" /\ waiting_segments[h] # << >>
  /\ LET t == Stamped(h, Head(waiting_segments[h]))
     IN  /\ WindowAllows(h, t.segment.len)
         /\ tx_in_flight_bytes' = [tx_in_flight_bytes EXCEPT ![h] = @ + t.segment.len]
         /\ segments' = [segments EXCEPT ![h] = Append(@, t)]
         /\ Send(h, << t.segment >>)
  /\ waiting_segments' = [waiting_segments EXCEPT ![h] = Tail(@)]
  /\ UNCHANGED << curr_seqno, cwnd, faults, rxVars, ctlVars, appVars >>

-----------------------------------------------------------------------------
(* Output *)

(***************************************************************************)
(* The first n received segments can be output in turn when they follow    *)
(* rx_next_output_seqno without a hole and each fits: STDOUT takes the     *)
(* first `taken' bytes at once and the rest joins the `queued' ones.       *)
(***************************************************************************)
OutputsAnyHead(h, rcvd, n, taken, queued) ==  \* mutant: no test of the hole
  \A i \in 1..n :
    queued + End(rcvd[i]) - rx_next_output_seqno[h] <= taken + BufSpace
Outputs(h, rcvd, n, taken, queued) ==
  \A i \in 1..n :
    /\ rcvd[i].seqno = (IF i = 1 THEN rx_next_output_seqno[h] ELSE End(rcvd[i - 1]))
    /\ queued + End(rcvd[i]) - rx_next_output_seqno[h] <= taken + BufSpace

TakenAtOnce(n, bytes, queued) ==
  IF queued > 0 THEN {0} ELSE IF StdoutBlocks THEN 0..bytes ELSE {bytes}

(***************************************************************************)
(* ctcp_output, on the receive buffer `rcvd' that accounts for `waiting'   *)
(* bytes, with `transit' the network before its ACKs.  Each segment output *)
(* is acknowledged on its own; send_only_ack asserts that it is the one    *)
(* curr_ackno expects.                                                     *)
(***************************************************************************)
ctcp_output(h, rcvd, waiting, queued, transit) ==
  \E n \in 0..Len(rcvd) :
    LET next  == IF n = 0 THEN rx_next_output_seqno[h] ELSE End(rcvd[n])
        bytes == next - rx_next_output_seqno[h]
    IN  \E taken \in TakenAtOnce(n, bytes, queued) :
          /\ Outputs(h, rcvd, n, taken, queued)
          /\ n < Len(rcvd) => ~Outputs(h, rcvd, n + 1, taken, queued)
          /\ rx_next_output_seqno' = [rx_next_output_seqno EXCEPT ![h] = next]
          /\ rx_waiting_bytes' = [rx_waiting_bytes EXCEPT ![h] = waiting - bytes]
          /\ received_segments' = [received_segments EXCEPT ![h] = SubSeq(rcvd, n + 1, Len(rcvd))]
          /\ out_queue' = [out_queue EXCEPT ![h] = queued + bytes - taken]
          /\ output' = [output EXCEPT ![h] = @ \o [i \in 1..n |-> rcvd[i].data]]
          /\ curr_ackno' = [curr_ackno EXCEPT ![h] = IF n = 0 THEN @ ELSE next]
          /\ status' = [status EXCEPT ![h] =
               IF n > 0 /\ curr_ackno[h] # rcvd[1].seqno THEN "aborted" ELSE @]
          /\ net' = [transit EXCEPT ![Peer(h)] =
               @ \o [i \in 1..n |-> AckSegment(h, End(rcvd[i]))]]

Drain(h) ==           \* conn_drain: STDOUT takes more of the queue
  /\ status[h] = "up"
  /\ \E w \in 1..out_queue[h] :
       ctcp_output(h, received_segments[h], rx_waiting_bytes[h], out_queue[h] - w, net)
  /\ UNCHANGED << txVars, termination_state, time_wait_in_ms, appVars, faults >>

-----------------------------------------------------------------------------
(* ctcp_receive: one action per way through the handler *)

Transit(h) == [net EXCEPT ![h] = Tail(@)]

Arrives(h, valid) == /\ status[h] = "up" /\ net[h] # << >>
                     /\ Head(net[h]).cksum = valid

ReceiveCorrupt(h) ==
  /\ Arrives(h, FALSE)
  /\ net' = Transit(h)
  /\ UNCHANGED << txVars, rxVars, ctlVars, appVars, faults >>

OnFin == [CONN_ESTABLISHED |-> "CLOSE_WAIT", FIN_WAIT_1 |-> "CLOSING",
          FIN_WAIT_2 |-> "TIME_WAIT"]
OnFinAcked == [FIN_WAIT_1 |-> "FIN_WAIT_2", CLOSING |-> "TIME_WAIT",
               LAST_ACK |-> "CLOSED"]

FinExpected(h, s) ==
  /\ s.flag = "FIN" /\ termination_state[h] \in DOMAIN OnFin
  /\ termination_state[h] # "CONN_ESTABLISHED" => is_new_data_segment(h, s)

AnyAckIsFinAck(h, s) ==   \* mutant: ackno is not compared
  termination_state[h] \in DOMAIN OnFinAcked
FinAcked(h, s) ==
  /\ termination_state[h] \in DOMAIN OnFinAcked
  /\ HeadAcked(segments[h], s.ackno)

ReceiveFin(h) ==      \* acknowledged at once, by send_only_ack
  /\ Arrives(h, TRUE)
  /\ LET s == Head(net[h])
     IN  /\ FinExpected(h, s)
         /\ curr_ackno' = [curr_ackno EXCEPT ![h] = End(s)]
         /\ status' = [status EXCEPT ![h] =
              IF curr_ackno[h] # s.seqno THEN "aborted" ELSE @]
         /\ net' = [Transit(h) EXCEPT ![Peer(h)] = Append(@, AckSegment(h, End(s)))]
  /\ termination_state' = [termination_state EXCEPT ![h] = OnFin[@]]
  /\ UNCHANGED << rx_next_output_seqno, rx_waiting_bytes, received_segments,
                  out_queue, output, time_wait_in_ms, txVars, appVars, faults >>

ReceiveFinAck(h) ==   \* any segment that covers the FIN; its data is not kept
  /\ Arrives(h, TRUE)
  /\ LET s == Head(net[h])
     IN  /\ ~FinExpected(h, s) /\ FinAcked(h, s)
         /\ segments' = [segments EXCEPT ![h] = RemoveAcked(@, s.ackno)]
  /\ net' = Transit(h)
  /\ termination_state' = [termination_state EXCEPT ![h] = OnFinAcked[@]]
  /\ status' = [status EXCEPT ![h] =
       IF termination_state[h] = "LAST_ACK" THEN "closed" ELSE @]
  /\ UNCHANGED << curr_seqno, tx_in_flight_bytes, cwnd, waiting_segments,
                  time_wait_in_ms, rxVars, appVars, faults >>

Ordinary(h) ==        \* the segment does not move the termination state
  /\ Arrives(h, TRUE)
  /\ ~FinExpected(h, Head(net[h])) /\ ~FinAcked(h, Head(net[h]))

(***************************************************************************)
(* The ACK loop skips a FIN (its flags lack TH_ACK).  on_ack ends in       *)
(* bbr_set_cwnd, whose local cwnd starts from 0: the window is the minimum *)
(* one after every acknowledgement.                                        *)
(***************************************************************************)
ReceiveAck(h) ==
  /\ Ordinary(h)
  /\ LET s == Head(net[h])
     IN  /\ is_ack(s)
         /\ IF HeadAcked(segments[h], s.ackno) /\ segments[h][1].segment.flag = "ACK"
            THEN /\ tx_in_flight_bytes' =
                      [tx_in_flight_bytes EXCEPT ![h] = @ - segments[h][1].segment.len]
                 /\ segments' = [segments EXCEPT ![h] = RemoveAcked(@, s.ackno)]
                 /\ cwnd' = [cwnd EXCEPT ![h] = MinCwnd]
            ELSE UNCHANGED << tx_in_flight_bytes, segments, cwnd >>
  /\ net' = Transit(h)
  /\ UNCHANGED << curr_seqno, waiting_segments, rxVars, ctlVars, appVars, faults >>

NewData(h) == /\ Ordinary(h) /\ ~is_ack(Head(net[h]))
              /\ is_new_data_segment(h, Head(net[h]))

Place(h) == AddInOrderPlace(received_segments[h], Head(net[h]))

WaitingWithRefused(h) ==  \* mutant: counted even when not inserted
  rx_waiting_bytes[h] + Head(net[h]).len
WaitingWith(h) ==     \* rx_waiting_bytes once the segment is in the buffer
  rx_waiting_bytes[h] + (IF Place(h) \in {"front", "back"} THEN Head(net[h]).len ELSE 0)

ReceiveData(h) ==
  /\ NewData(h) /\ Place(h) # "hang" /\ WaitingWith(h) <= RecvWindow
  /\ ctcp_output(h, AddInOrder(received_segments[h], Head(net[h])),
                 WaitingWith(h), out_queue[h], Transit(h))
  /\ UNCHANGED << txVars, termination_state, time_wait_in_ms, appVars, faults >>

ReceiveOldData(h) ==  \* dropped without an ACK, but ctcp_output still runs
  /\ Ordinary(h) /\ ~is_ack(Head(net[h])) /\ ~is_new_data_segment(h, Head(net[h]))
  /\ ctcp_output(h, received_segments[h], rx_waiting_bytes[h], out_queue[h], Transit(h))
  /\ UNCHANGED << txVars, termination_state, time_wait_in_ms, appVars, faults >>

(***************************************************************************)
(* The two ways a data segment stops the receiver.  The search loop of     *)
(* ll_add_in_order does not end; or the receive buffer overflows: the loop *)
(* that should make room subtracts ntohl of the 16-bit length, len * 2^16, *)
(* from the unsigned rx_waiting_bytes, which wraps above recv_window, so   *)
(* the loop empties the list and dereferences its NULL tail.               *)
(***************************************************************************)
ReceiverStops(h, how) ==
  /\ status' = [status EXCEPT ![h] = how]
  /\ net' = Transit(h)
  /\ UNCHANGED << txVars, rxVars, termination_state, time_wait_in_ms, appVars, faults >>

ReceiveHangs(h) == NewData(h) /\ Place(h) = "hang" /\ ReceiverStops(h, "hung")

ReceiveOverflows(h) == /\ NewData(h) /\ Place(h) # "hang"
                       /\ WaitingWith(h) > RecvWindow
                       /\ ReceiverStops(h, "crashed")

Receive(h) == \/ ReceiveCorrupt(h) \/ ReceiveFin(h) \/ ReceiveFinAck(h)
              \/ ReceiveAck(h) \/ ReceiveData(h) \/ ReceiveOldData(h)
              \/ ReceiveHangs(h) \/ ReceiveOverflows(h)

Absorb(h) ==          \* nobody handles what reaches a process that stopped
  /\ status[h] # "up" /\ net[h] # << >>
  /\ net' = Transit(h)
  /\ UNCHANGED << txVars, rxVars, ctlVars, appVars, faults >>

-----------------------------------------------------------------------------
(* ctcp_timer *)

TimerFires(h) == status[h] = "up" /\ (Prompt => \A g \in Host : net[g] = << >>)

Waits(h) == termination_state[h] \in {"TIME_WAIT", "LAST_ACK"}

TimerCloses(h) ==     \* TIME_WAIT or LAST_ACK is over: CLOSED
  /\ TimerFires(h) /\ Waits(h)
  /\ \/ time_wait_in_ms[h] + Timer > TimeWaitLimit
     \/ segments[h] = << >>
  /\ time_wait_in_ms' = [time_wait_in_ms EXCEPT ![h] = @ + Timer]
  /\ termination_state' = [termination_state EXCEPT ![h] = "CLOSED"]
  /\ status' = [status EXCEPT ![h] = "closed"]
  /\ UNCHANGED << txVars, rxVars, appVars, netVars >>

TimerWaits(h) ==      \* nothing is retransmitted meanwhile, not even a FIN
  /\ TimerFires(h) /\ Waits(h)
  /\ time_wait_in_ms[h] + Timer <= TimeWaitLimit /\ segments[h] # << >>
  /\ time_wait_in_ms' = [time_wait_in_ms EXCEPT ![h] = @ + Timer]
  /\ UNCHANGED << termination_state, status, txVars, rxVars, appVars, netVars >>

Elapsed(t) == t.time_elapsed + Timer

GivenUp(t) == \/ t.num_of_transmission >= MaxTransmissions
              \/ Elapsed(t) >= MaxTransmissions * RtTimeout

Due(t) == Elapsed(t) % RtTimeout = 0

Aged(h, t) == IF Due(t) THEN [Stamped(h, t) EXCEPT !.time_elapsed = Elapsed(t)]
                        ELSE [t EXCEPT !.time_elapsed = Elapsed(t)]

(* The retransmissions of the segments at the positions I, in list order. *)
InOrder(I) == {f \in [1..Cardinality(I) -> I] :
                 \A i, j \in 1..Cardinality(I) : i < j => f[i] < f[j]}

Retransmit(h, I) ==
  \E f \in InOrder(I) :
    Send(h, [i \in DOMAIN f |-> Stamped(h, segments[h][f[i]]).segment])

TimerRetransmits(h) ==
  /\ TimerFires(h) /\ ~Waits(h) /\ segments[h] # << >>
  /\ \A i \in DOMAIN segments[h] : ~GivenUp(segments[h][i])
  /\ Len(net[Peer(h)]) + Len(segments[h]) <= NetCapacity
  /\ Retransmit(h, {i \in DOMAIN segments[h] : Due(segments[h][i])})
  /\ segments' = [segments EXCEPT ![h] = [i \in DOMAIN @ |-> Aged(h, @[i])]]
  /\ UNCHANGED << curr_seqno, tx_in_flight_bytes, cwnd, waiting_segments,
                  faults, rxVars, ctlVars, appVars >>

TimerTearsDown(h) ==  \* the segments before the one given up are sent first
  /\ TimerFires(h) /\ ~Waits(h)
  /\ \E k \in DOMAIN segments[h] :
       /\ GivenUp(segments[h][k])
       /\ \A i \in 1..(k - 1) : ~GivenUp(segments[h][i])
       /\ Retransmit(h, {i \in 1..(k - 1) : Due(segments[h][i])})
  /\ status' = [status EXCEPT ![h] = "torn down"]
  /\ UNCHANGED << termination_state, time_wait_in_ms, faults, txVars, rxVars, appVars >>

ctcp_timer(h) == \/ TimerCloses(h) \/ TimerWaits(h)
                 \/ TimerRetransmits(h) \/ TimerTearsDown(h)

-----------------------------------------------------------------------------
(* The network's faults strike the segment that would arrive next. *)

Strikes(h, fault) ==
  /\ fault \in FaultKinds /\ faults < MaxFaults
  /\ net[h] # << >> /\ Kind(Head(net[h])) \in FaultTargets
  /\ faults' = faults + 1
  /\ UNCHANGED << txVars, rxVars, ctlVars, appVars >>

Drop(h) == Strikes(h, "drop") /\ net' = Transit(h)

Duplicate(h) == /\ Strikes(h, "duplicate")
                /\ net' = [net EXCEPT ![h] = << Head(@) >> \o @]

Delay(h) == /\ Strikes(h, "delay") /\ Len(net[h]) > 1
            /\ net' = [net EXCEPT ![h] = Append(Tail(@), Head(@))]

Corrupt(h) == /\ Strikes(h, "corrupt") /\ Head(net[h]).cksum
              /\ net' = [net EXCEPT ![h] = << [Head(@) EXCEPT !.cksum = FALSE] >> \o Tail(@)]

Fault(h) == Drop(h) \/ Duplicate(h) \/ Delay(h) \/ Corrupt(h)

-----------------------------------------------------------------------------
Init ==               \* ctcp_init, on both sides of the handshake
  /\ curr_seqno = [h \in Host |-> 1]
  /\ curr_ackno = [h \in Host |-> 1]
  /\ rx_next_output_seqno = [h \in Host |-> 1]
  /\ tx_in_flight_bytes = [h \in Host |-> 0]
  /\ rx_waiting_bytes = [h \in Host |-> 0]
  /\ cwnd = [h \in Host |-> InitialCwnd]
  /\ segments = [h \in Host |-> << >>]
  /\ waiting_segments = [h \in Host |-> << >>]
  /\ received_segments = [h \in Host |-> << >>]
  /\ termination_state = [h \in Host |-> "CONN_ESTABLISHED"]
  /\ time_wait_in_ms = [h \in Host |-> 0]
  /\ read_eof = [h \in Host |-> FALSE]
  /\ out_queue = [h \in Host |-> 0]
  /\ status = [h \in Host |-> "up"]
  /\ net = [h \in Host |-> << >>]
  /\ faults = 0
  /\ input = [h \in Host |-> << >>]
  /\ output = [h \in Host |-> << >>]

Next == \E h \in Host :
  \/ ReadData(h) \/ ReadEofBusy(h) \/ ReadEofCloses(h) \/ PacingTimer(h)
  \/ Drain(h) \/ Receive(h) \/ Absorb(h) \/ ctcp_timer(h) \/ Fault(h)

Spec == Init /\ [][Next]_vars

(***************************************************************************)
(* The event loop polls for ever, so on a running host every handler whose *)
(* condition stays true runs, and a segment in transit is received.        *)
(* Faults and what STDIN holds are the environment's.                      *)
(***************************************************************************)
Fairness == \A h \in Host :
  /\ WF_vars(PacingTimer(h)) /\ WF_vars(Drain(h))
  /\ WF_vars(Receive(h)) /\ WF_vars(Absorb(h)) /\ WF_vars(ctcp_timer(h))

FairSpec == Spec /\ Fairness

(***************************************************************************)
(* The end of STDIN is reported once by a terminal and not at all by a     *)
(* pipe (do_loop tests POLLIN alone), so nothing calls ctcp_read for it    *)
(* again.  Only a regular file stays readable at its end.                  *)
(***************************************************************************)
FileSpec == FairSpec /\ \A h \in Host : WF_vars(ReadEofCloses(h))
=============================================================================
