------------------------------- MODULE Server -------------------------------
(***************************************************************************)
(* The server process of ctcp_sys_internal.c: the event loop of do_loop,   *)
(* the list of connections and the sharing of STDIN, STDOUT and the socket *)
(* among them, without a program behind each connection.  A pass of the    *)
(* loop is a sequence of phases, one action each.  A segment that arrives  *)
(* during a pass is first seen by the next poll(), so clients act     *)
(* between passes; the reader of STDOUT may leave at any moment.       *)
(*                                                                         *)
(* The endpoint behind a connection is what module Ctcp details; here it   *)
(* takes segments in order, outputs them, and is destroyed by the last ACK *)
(* of a close or by a timer.  A client uses a port of its own, which names *)
(* it and its connection; sequence numbers are those of its segments.      *)
(***************************************************************************)
EXTENDS ConnIO

CONSTANTS
  Clients,
  NoClient,           \* new_connection = 0
  MaxClients,         \* MAX_NUM_CLIENTS
  Sizes,              \* Sizes[p]: the sizes of the data segments of client p, in order
  ReaderMayLeave,     \* whether the reader of STDOUT may go away
  MaxLosses,          \* bound: handshake ACKs lost
  NetCapacity         \* bound: segments in transit to the server

ASSUME ServerAssumption ==
  /\ NoClient \notin Clients
  /\ MaxClients \in Nat \ {0} /\ MaxLosses \in Nat /\ NetCapacity \in Nat
  /\ Sizes \in [Clients -> Seq(1..BufSpace)] /\ ReaderMayLeave \in BOOLEAN

VARIABLES
  connections,        \* config->connections, from the head
  conn,               \* conn[p]: the connection of the client on port p
  freed,              \* connections whose memory was freed
  pollout,            \* POLLOUT in events[STDOUT_FILENO].events
  new_connection,     \* port of the client whose handshake ACK is to come
  phase,     \* the pass of do_loop
  net,                \* segments in transit to the server
  client,             \* what each client is doing
  reader,             \* somebody reads STDOUT
  \* history
  accepted,           \* clients in the order of their connections (num_connected)
  newest_freed,       \* position in accepted of the last one freed as the head
  closed,             \* connections destroyed by an ordered close, until they are freed
  cut,                \* those freed before STDOUT had all that was acknowledged
  swallowed,          \* kinds of segments of a client not passed to ctcp_receive
  ack_lost            \* clients whose handshake ACK was lost

listVars == << connections, freed, newest_freed, cut >>
ioVars == << pollout, reader >>
envVars == << net, client, ack_lost >>
handshakeVars == << new_connection, accepted, swallowed >>
vars == << listVars, conn, ioVars, handshakeVars, phase, envVars, closed >>

Listed == {connections[i] : i \in DOMAIN connections}
Accepted == {accepted[i] : i \in DOMAIN accepted}
Live == {p \in Accepted : ~conn[p].delete_me}

-----------------------------------------------------------------------------
(* Clients and their environment *)

Segment == [from : Clients, kind : {"syn", "ack", "data", "last"}, n : Nat]

Sends(p, kind, n) == /\ Len(net) < NetCapacity
                     /\ net' = Append(net, [from |-> p, kind |-> kind, n |-> n])

(* Losing a segment is the same as not sending it, but for the handshake    *)
(* ACK, which the client sends once and takes for received.                 *)
SendSyn(p) ==         \* tcp_handshake
  /\ client[p] = "idle" /\ Sends(p, "syn", 0)
  /\ client' = [client EXCEPT ![p] = "handshake"]
  /\ UNCHANGED ack_lost

SynAckArrives(p) ==
  /\ client[p] = "handshake" /\ p \in Accepted
  /\ \/ Sends(p, "ack", 0) /\ UNCHANGED ack_lost
     \/ /\ Cardinality(ack_lost) < MaxLosses
        /\ ack_lost' = ack_lost \cup {p} /\ UNCHANGED net
  /\ client' = [client EXCEPT ![p] = "connected"]

Unacked(p) == (conn[p].received - Len(conn[p].waiting) + 1)..conn[p].received

SendData(p) ==        \* the next segment, or a retransmission
  /\ client[p] = "connected"
  /\ \E n \in Unacked(p) \cup {conn[p].received + 1} :
       n <= Len(Sizes[p]) /\ Sends(p, "data", n)
  /\ UNCHANGED << client, ack_lost >>

SendLast(p) ==        \* FINs went both ways; the ACK of the server's one
  /\ client[p] = "connected" /\ conn[p].read_eof /\ conn[p].waiting = << >>
  /\ ~\E i \in DOMAIN net : net[i].from = p
  /\ Sends(p, "last", 0)
  /\ client' = [client EXCEPT ![p] = "done"]
  /\ UNCHANGED ack_lost

ClientActs ==
  /\ phase = "poll"
  /\ \E p \in Clients : SendSyn(p) \/ SynAckArrives(p) \/ SendData(p) \/ SendLast(p)
  /\ UNCHANGED << listVars, conn, ioVars, handshakeVars, phase, closed >>

ReaderLeaves ==
  /\ ReaderMayLeave /\ reader /\ reader' = FALSE
  /\ UNCHANGED << pollout, envVars, listVars, conn, handshakeVars, phase, closed >>

-----------------------------------------------------------------------------
(* The list of connections *)

conn_addAtTail(p) == connections' = Append(connections, p)   \* mutant: at the wrong end
conn_add(p) == connections' = << p >> \o connections

(***************************************************************************)
(* conn_free unlinks the connection.  When it is the head the list becomes *)
(* empty, whatever follows: the older connections are not reached again.   *)
(* The walk of delete_all_connections goes on from the saved next pointer. *)
(***************************************************************************)
conn_freeNotTheOlder(list, p) ==  \* mutant: only the head is unlinked
  IF list # << >> /\ Head(list) = p THEN << >> ELSE list
conn_free(list, p) ==
  IF list = << >> \/ Head(list) = p THEN << >>
  ELSE RemoveAt(list, CHOOSE i \in DOMAIN list : list[i] = p)

conn_remove(c) == [c EXCEPT !.delete_me = TRUE]

Unwritten(c) == ~c.wrote_err /\ Len(c.written) < c.acked

Remaining(doomed) ==
  LET list[i \in 0..Len(connections)] ==
        IF i = 0 THEN connections
        ELSE IF connections[i] \in doomed THEN conn_free(list[i - 1], connections[i])
        ELSE list[i - 1]
  IN  list[Len(connections)]

delete_all_connections(doomed) ==
  /\ connections' = Remaining(doomed)
  /\ freed' = freed \cup doomed
  /\ newest_freed' = IF connections # << >> /\ Head(connections) \in doomed
                     THEN CHOOSE i \in DOMAIN accepted : accepted[i] = Head(connections)
                     ELSE newest_freed
  /\ cut' = cut \cup {p \in closed \cap doomed : Unwritten(conn[p])}

-----------------------------------------------------------------------------
(* do_loop *)

Goes(from, to) == phase = from /\ phase' = to

(* poll(), then the input of STDIN, which only the newest connection reads: *)
(* only that one sees the end of it.  POLLERR is reported whether or not    *)
(* POLLOUT is asked for.                                                    *)
Poll ==
  /\ phase = "poll" /\ phase' \in {"stdout", "socket"}
  /\ phase' = "stdout" => pollout \/ ~reader
  /\ \E eof \in IF connections = << >> THEN {FALSE} ELSE BOOLEAN :
       conn' = IF eof THEN [conn EXCEPT ![Head(connections)].read_eof = TRUE] ELSE conn
  /\ UNCHANGED << listVars, ioVars, handshakeVars, envVars, closed >>

(* The connections are drained from the newest to the oldest; x carries the *)
(* connections done so far and the one request for POLLOUT they all share.  *)
DrainOne(x, p) ==
  {[conns |-> [x.conns EXCEPT ![p] = y.conn], pollout |-> y.pollout, room |-> y.room] :
     y \in conn_drain(Begun(x.conns[p], x.pollout, x.room), reader)}

DrainAll ==
  LET after[i \in 0..Len(connections)] ==
        IF i = 0 THEN {[conns |-> conn, pollout |-> pollout, room |-> TRUE]}
        ELSE UNION {DrainOne(y, connections[i]) : y \in after[i - 1]}
  IN  after[Len(connections)]

DrainStdout ==
  /\ Goes("stdout", "socket")
  /\ \E x \in DrainAll : conn' = x.conns /\ pollout' = x.pollout
  /\ UNCHANGED << listVars, reader, handshakeVars, envVars, closed >>

(* tcp_new_connection: num_connected only grows, so a client is refused for *)
(* good once MaxClients have connected.                                     *)
NewConnection(p) ==
  IF Len(accepted) < MaxClients
  THEN /\ conn_add(p) /\ conn' = [conn EXCEPT ![p] = NewConn]
       /\ accepted' = Append(accepted, p) /\ new_connection' = p
       /\ UNCHANGED << freed, newest_freed, cut, pollout, swallowed, closed >>
  ELSE UNCHANGED << listVars, conn, handshakeVars, pollout, closed >>

(* The handshake ACK is numbered (1, 1), like the first data segment.       *)
IsHandshakeAckByPort(s) == s.from = new_connection   \* mutant: the numbers not compared
IsHandshakeAck(s) == s.from = new_connection /\ (s.kind = "ack" \/ (s.kind = "data" /\ s.n = 1))

SwallowKeepsFilter(s) ==  \* mutant: new_connection is not reset
  swallowed' = [swallowed EXCEPT ![s.from] = @ \cup {s.kind}] /\ UNCHANGED new_connection
Swallow(s) ==
  swallowed' = [swallowed EXCEPT ![s.from] = @ \cup {s.kind}] /\ new_connection' = NoClient

Take(c, s) ==         \* the receive buffer, for a segment that is in order
  IF s.n = c.received + 1
  THEN [c EXCEPT !.received = @ + 1, !.waiting = Append(@, Sizes[s.from][s.n])] ELSE c

ctcp_receive(s) ==
  CASE s.kind = "ack"  -> UNCHANGED << conn, pollout, closed >>
    [] s.kind = "data" -> /\ \E x \in ctcp_output(Begun(Take(conn[s.from], s), pollout, FALSE),
                                                  reader) :
                               conn' = [conn EXCEPT ![s.from] = x.conn] /\ pollout' = x.pollout
                          /\ UNCHANGED closed
    [] s.kind = "last" -> /\ conn' = [conn EXCEPT ![s.from] = conn_remove(@)]
                          /\ closed' = closed \cup {s.from} /\ UNCHANGED pollout

Established(s) ==     \* recv_filter found the connection of the sender
  IF IsHandshakeAck(s)
  THEN Swallow(s) /\ UNCHANGED << listVars, conn, accepted, pollout, closed >>
  ELSE ctcp_receive(s) /\ UNCHANGED << listVars, handshakeVars >>

ReceivePacket ==
  /\ Goes("socket", "timer")
  /\ IF net # << >>
     THEN LET s == Head(net)
          IN  /\ net' = Tail(net)
              /\ IF s.kind = "syn" THEN NewConnection(s.from)
                 ELSE IF s.from \in Listed THEN Established(s)
                 ELSE UNCHANGED << listVars, conn, handshakeVars, pollout, closed >>
     ELSE UNCHANGED << net, listVars, conn, handshakeVars, pollout, closed >>
  /\ UNCHANGED << reader, client, ack_lost >>

(* ctcp_timer walks its own list of states, which the orphans stay on: it   *)
(* may destroy any of them.  conn_remove only marks the connection, and the *)
(* pass ends with the deletion of the marked ones that are listed.          *)
TimerAndDelete ==
  /\ Goes("timer", "poll")
  /\ \E D \in SUBSET Live :
       LET doomed == {p \in Listed : p \in D \/ conn[p].delete_me}
       IN  /\ delete_all_connections(doomed)
           /\ conn' = [p \in Clients |->
                IF p \in doomed THEN conn_remove(NewConn)      \* its memory is gone
                ELSE IF p \in D THEN conn_remove(conn[p]) ELSE conn[p]]
  /\ closed' = {}
  /\ UNCHANGED << ioVars, handshakeVars, envVars >>

Loop == Poll \/ DrainStdout \/ ReceivePacket \/ TimerAndDelete

-----------------------------------------------------------------------------
Init ==               \* setup_poll asks for POLLOUT
  /\ connections = << >> /\ freed = {} /\ newest_freed = 0
  /\ conn = [p \in Clients |-> NewConn]
  /\ pollout = TRUE /\ reader = TRUE
  /\ new_connection = NoClient /\ accepted = << >> /\ swallowed = [p \in Clients |-> {}]
  /\ phase = "poll"
  /\ net = << >> /\ client = [p \in Clients |-> "idle"] /\ ack_lost = {}
  /\ closed = {} /\ cut = {}

Next == Loop \/ ClientActs \/ ReaderLeaves

Spec == Init /\ [][Next]_vars

(***************************************************************************)
(* The loop runs for ever, and whoever reads STDOUT goes on reading: when  *)
(* POLLOUT is asked for again and again it is reported again and again.    *)
(* Clients and timers owe nothing.                                         *)
(***************************************************************************)
Fairness == WF_vars(Loop) /\ SF_vars(Poll /\ phase' = "stdout")

FairSpec == Spec /\ Fairness
=============================================================================
