# cTCP with BBR: specifications, checks and proofs

The program is a user-level TCP (cTCP) of some 4000 lines of C. A process reads
STDIN, sends it as cTCP segments over a raw socket, writes what it receives to
STDOUT, closes with the TCP state machine of RFC 793, and paces itself with a
small version of BBR. This directory models it in TLA+: the endpoint, its
congestion control, the server's event loop with several connections, and the
conversion between cTCP segments and TCP datagrams. TLC checks small instances;
TLAPS proves every safety property that these checks confirm, for every instance:
among them that two endpoints over a faulty network implement a reliable stream in each
direction, that STDOUT gets what was acknowledged, and that a checksum finds
each flipped bit.

All line numbers are of the files under `src/`. `PROJECT.json` has the exact
line range of every definition, the hazards and the findings.

## 1. Inventory

### Components

| component | files | state | operations | what makes it correct |
|---|---|---|---|---|
| cTCP endpoint | `ctcp.c`, `ctcp.h` | `ctcp_state_t`: counters, three lists, termination state, window | `ctcp_init`, `ctcp_read`, `ctcp_pacing_timer`, `ctcp_receive`, `ctcp_output`, `ctcp_timer`, `ctcp_destroy` | the stream arrives once, in order; nothing is forgotten before it arrived; the close cuts nothing off |
| segment lists | `ctcp_linked_list.c` | doubly linked list | `ll_add`, `ll_add_in_order`, `ll_remove`, `ll_remove_acked_segments` | sequence order, no duplicates, loops end |
| BBR | `ctcp_bbr.c`, `ctcp_bbr.h` | `ctcp_bbr_t`: mode, bandwidth, min RTT, gains, counters | `on_send`, `on_ack` | modes follow the full-pipe estimate; the small flight of PROBE_RTT; the app-limited mark expires |
| bandwidth filter | `ctcp_bbr_minmax.c/.h` | ring of samples | `minmax_insert`, `minmax_get`, `minmax_reset` | the maximum of the recent samples |
| connection I/O | `ctcp_sys_internal.c` | `conn_t`: out queue, EOF and error flags, poll events | `conn_input`, `conn_bufspace`, `conn_output`, `conn_drain` | every acknowledged byte is written once, in order, or still queued |
| connection table and loop | `ctcp_sys_internal.c` | list of `conn_t`, number of clients | `conn_add`, `conn_free`, `tcp_new_connection`, `do_loop` | what is listed is alive; the list holds what it should; no client's data is taken for a handshake |
| wire format and faults | `ctcp_sys_internal.c`, `ctcp_utils.c` | initial sequence numbers of a connection | `conn_send`, `convert_to_datagram`, `convert_to_ctcp`, `recv_filter`, `cksum` | what a segment carries survives both conversions; a flipped bit is found; nothing is taken twice when numbers wrap |
| start-up, options | `ctcp_sys_internal.c` | globals | `main` | straight-line |
| utilities | `ctcp_utils.c` | none | clocks, printing | straight-line |
| tests, topology scripts, web server | `ctcp_tests.py`, `tester`, `lab3_*.py`, `http_server1` | none | none | drivers, read as documentation |

### Interactions

One process has one thread. `do_loop` polls STDIN, STDOUT and the raw socket and
calls `ctcp_read` (STDIN readable), `conn_drain` then `ctcp_output` (STDOUT
writable), `ctcp_receive` (a segment came), `ctcp_pacing_timer` and, every
`timer` ms, `ctcp_timer`. A handler runs to its end, so the interleaving is
between handlers, and between the two hosts and the network. The endpoint calls
BBR's `on_send` and `on_ack`; BBR writes back `cwnd` and `pacing_gap_us` of
`ctcp_state_t`, and the pacing timer writes `app_limited_until` of BBR's.

### Hard behaviours

- segments lost, duplicated, delayed and corrupted, by `conn_send`'s options
  and by the network; retransmissions that overlap their originals;
- the close started by either side, by both at once, with FIN and ACK crossing,
  moved by segments and by the timer;
- backpressure from STDOUT, partial writes, EOF read while data is in flight;
- a buffer ordered by a comparison of bytes in network order (`ctcp_linked_list.c:85`);
- loops over a list that is being changed (`ctcp.c:309-335`);
- estimates that mix two clocks, ACK counts and app-limited marks;
- one POLLOUT request, one STDIN, one STDOUT and one handshake filter shared by
  all connections of a server; a list of connections that forgets its older
  members when the newest one is freed;
- sequence numbers compared as plain integers, relative ones in `ctcp.c` and
  absolute ones in `recv_filter`, which wrap at different places.

The list in `PROJECT.json` under `hazards` places each at its line.

## 2. Plan

In order of importance:

1. **Done.** `LinkedList`, `Ctcp`, `CtcpProperties`: the endpoint with two hosts
   and a faulty network, delivery, accounting and close.
2. **Done.** `CtcpProofs`: type correctness. `CtcpDelivery`: an inductive invariant
   that relates input, the sender's lists, the segments in transit, the receive
   buffer and output, and from it delivery and close. `CtcpAccounting`: the
   counters and the order of the lists.
3. **Done.** `MinMax`, `Bbr`, `BbrProperties`: the congestion control of a sender.
4. **Done.** `ReliableStream`, the abstract specification of two hosts that
   write, are given and end streams; `CtcpRefinement`, the mapping; and
   `CtcpImplementation`, the proof that `Ctcp` implements it.
5. **Done.** `ConnIO`: the output queue with its POLLOUT request, EAGAIN, partial
   writes and write errors. `Server`: the event loop, several clients, the
   handshake's filter, `conn_free` and the client count, on top of `ConnIO`.
6. **Done.** `Wire`: segments, datagrams, checksums and the comparisons of
   sequence numbers at the width of their fields.
7. **Done.** `BbrProofs`: an inductive invariant of the congestion control, and
   from it all of its properties. `ServerProofs`, `WireProofs`: the same for the
   server and for the wire. What the proofs share is in `ProofLemmas`.
8. Left: abstract specifications of the output side of a connection and of the
   wire, with proofs that `Server` and `Wire` implement them.
9. Left: the server that starts a program for each client, and the client's
   handshake that continues an earlier connection.

## 3. The modules

### `LinkedList`

`AddInOrderPlace` is where `ll_add_in_order` puts a segment: at the front, at the
back, nowhere (NULL, the caller frees it), or not at all because the search loop
never advances its cursor. `NetLess` is the comparison the code makes: two
integers in network order, read by a little-endian machine. `RemoveAcked` is a
walk that follows `prev` after removing the head and so removes one segment.

### `Ctcp`

Two hosts. The variables are the fields of `ctcp_state_t` under their names, the
part of `conn_t` the endpoint sees (`read_eof`, `out_queue`), the fate of the
process (`status`), the network and two histories (`input`, `output`).

| action | code |
|---|---|
| `ReadData`, `ReadEofBusy`, `ReadEofCloses` | `ctcp_read` with data, EOF while data is pending, EOF with nothing pending (`send_segment` of the FIN) |
| `PacingTimer` | `send_front_segment_in_tx_buffer` |
| `Drain` | `conn_drain`, then `ctcp_output` |
| `ReceiveCorrupt`, `ReceiveFin`, `ReceiveFinAck`, `ReceiveAck`, `ReceiveData`, `ReceiveOldData` | the paths through `ctcp_receive`; the data paths include `ctcp_output`, which sends one ACK for each segment output |
| `ReceiveHangs`, `ReceiveOverflows` | the two ways data stops the receiver |
| `TimerCloses`, `TimerWaits`, `TimerRetransmits`, `TimerTearsDown` | `ctcp_timer` |
| `Drop`, `Duplicate`, `Delay`, `Corrupt` | `conn_send`'s faults and the network's |
| `Absorb` | a segment reaches a process that has stopped |

`status` is "up", or "closed" (`ctcp_destroy` after an ordered close), "torn down"
(`ctcp_destroy` by the timer), "hung" (the loop of `ll_add_in_order`), "crashed"
(the overflow loop dereferences NULL), "aborted" (an assert fails).

Some behaviour of the code that a reader may not expect, and that the model has:

- the sender compares with `cwnd * MAX_SEG_DATA_SIZE` only; the peer's window
  (`send_window`) bounds nothing but the FIN (`ctcp.c:120`, `:549`);
- an ACK that covers several segments releases one (`ctcp.c:324`);
- old data is dropped without an ACK (`ctcp.c:366`);
- TIME_WAIT ends at the next timer tick, because nothing is in flight
  (`ctcp.c:426`), and LAST_ACK never retransmits (`ctcp.c:422`);
- the end of STDIN is forgotten when it is read while data is pending
  (`ctcp.c:184`);
- a connection can be destroyed with bytes in its out queue (`ctcp.c:281`);
- every ACK of data leaves the minimum window, four segments: `bbr_set_cwnd`
  starts from a local 0 (`ctcp_bbr.c:305`). `Ctcp` takes this as the constant
  `MinCwnd`; that the window stays there is a conjunct of `BbrInvariant`, which
  `BbrProofs` proves (`CwndStaysMinimal`);
- the receive buffer is ordered by swapped bytes, so a missing segment may be put
  behind its successor, where `ctcp_output`, which looks at the head alone, never
  finds it (`ctcp_linked_list.c:85`; run `recovery`).

### `ReliableStream`, `CtcpRefinement`

`ReliableStream` says what the two hosts promise without a segment,
acknowledgement or timer: a host writes a stream and ends it, its peer is given
a growing prefix and learns of the end after the last chunk, a host ends its own
stream only when the peer has all of it, and closes only when both streams are
complete; or it stops, which takes nothing back. `CtcpRefinement` maps it:

| `ReliableStream` | `Ctcp` |
|---|---|
| `written[h]` | the positions of `input[h]`, what `ctcp_read` took from STDIN |
| `given[h]` | `output[h]`, what `conn_output` accepted |
| `ended[h]` | `FinSent(h)`: the termination state says that a FIN was sent |
| `learned[h]` | `FinSeen(h)`: it says that the peer's FIN came |
| `fate[h]` | `status[h]`, with all but "up" and "closed" as "stopped" |

### `MinMax`, `Bbr`

`MinMax` is the ring and its insertion. `Bbr` is one sender: STDIN delivers
segments when it likes (`ReadSegment`), the pacing timer sends, finds the window
full or finds nothing to send (`SendFront`, `WindowFull`, `NothingWaiting`),
acknowledgements come in order after any time up to `MaxRtt` (`ReceiveAck`), and
time passes (`Tick`). `bbr_on_ack` composes the functions of `ctcp_bbr.c` in their
order, each under its own name; a function that reads a field after another wrote
it sees the new value, as in the code. The history `recent` (the last samples and
whether they were inserted) serves the properties only.

### `ConnIO`, `Server`

`ConnIO` has the output side of one connection as operators on a record: what
`conn_output`, `conn_drain` and `ctcp_output` may make of it, as a set of
outcomes, since STDOUT decides how much of a write it takes (all, part, nothing
for EAGAIN, or an error once nobody reads it). A byte is named by its position.

`Server` is a server process. A pass of `do_loop` is four actions, in order:

| action | code |
|---|---|
| `Poll` | `poll`, and the input of STDIN, which only the newest connection reads |
| `DrainStdout` | `conn_drain` of each listed connection, newest first, when STDOUT has room or its reader is gone |
| `ReceivePacket` | one datagram: refused by `recv_filter`, a new connection (`tcp_new_connection`, `conn_add`), a handshake's ACK that is swallowed, or `ctcp_receive` |
| `TimerAndDelete` | `ctcp_timer`, which may destroy any connection, listed or not; `delete_all_connections`, `conn_free` |

The clients (`SendSyn`, `SynAckArrives`, `SendData`, `SendLast`) act between
passes: a segment that arrives during a pass waits in the socket until the next
`poll`. The reader of STDOUT may leave at any moment. What `Ctcp` details is
simplified here: a client's segments are taken in order, and a connection is
destroyed by the last ACK of a close or by a timer at any time. A client whose
SYN is lost is one that has not sent it.

The composition shows what one component does to another: a connection's POLLOUT
request is the one of all connections, `conn_drain` of one withdraws what another
asked for, and `conn_free` of the newest leaves the others (the *orphans*) off
the list, where neither STDIN, nor `conn_drain`, nor a segment finds them, while
`ctcp_timer`, which has its own list, still does.

### `Wire`

One sender and one receiver with one segment at a time, at the width of the
fields: a byte has `Bits` bits, a sequence number four bytes. `convert_to_datagram`
turns relative numbers into absolute ones and carries over the *difference*
between the sent checksum and the correct one; `convert_to_ctcp` takes both back.
`Corrupted` has every flip of one bit behind the flags, which is what `conn_send`
corrupts. `IsExpected` is `recv_filter`'s comparison of absolute numbers, `IsNew`
and `Acknowledges` are the comparisons of relative ones in `ctcp.c`.

### Properties and instances

`CtcpProperties`, `BbrProperties`, `ServerProperties` and `WireProperties` state
what holds; the first and the third also, in their last part, what the repository
says and the code does not do. `MCCtcp`, `MCBbr`, `MCServer` and `MCWire` give TLC its instances. The
modules with proofs are listed in section 5.

## 4. The runs

| run | instance | shows |
|---|---|---|
| `lossy` | 2 chunks one way, a STDOUT with room for one chunk at a time, 1 fault of any kind on any segment, timeouts that race answers, up to 3 transmissions | `TypeOK`, `InOrderDelivery`, `AckedWasOutput`, `InFlightAccounting`, `CloseIsComplete`, `TerminationAgrees`, `FinStored`, `NoAssertFails`, `StreamInvariant`, `ImplementsStreams` |
| `data_faults` | 5 segments of 1440 bytes, a window of three, 2 segments of data lost or overtaken, up to 4 transmissions, fair, STDIN a file | `ReceiveAccounting`, `NothingStaleBuffered`, `LostDataIsRecovered`, `AlwaysCloses` |
| `bbr` | 5 segments, 9 ticks, a filter of 3 samples, the min-RTT filter of 3 ticks | the properties of `BbrProperties`: the maximum of the filter, mode against full pipe, the app-limited mark, and the flight of PROBE_RTT |
| `server` | 3 clients, one of which sends two segments of two bytes into a queue of three; a lost handshake ACK; a reader that leaves | the properties of `ServerProperties` that hold |
| `wire` | bytes of two bits, 260 bytes past a wrap at 256, all flips of one bit, any loss | `IntactSurvives`, `FlipIsRefused`, `TakenOnce`, `PassesUntilWrap` |
| `insertion` | 5 segments, 2 faults | violated: the search for a place ends |
| `overflow` | 3 segments, a window of one, 1 loss | violated: an overflow drops a segment |
| `lost_ack` | 1 lost ACK | violated: only an unresponsive peer is torn down |
| `discarded` | one client, STDOUT blocks, an ordered close; a second client is refused | violated: what was acknowledged is written before the connection is freed |
| `stalled` | one client, a STDOUT that takes a chunk as a whole or not at all, fair | violated: output goes on when STDOUT has room |
| `orphans` | two clients, timers that destroy either | violated: every connection that lives is in the list |
| `recovery` | 3 segments of 1440 bytes, room for all, 1 loss of data, fair, STDIN a file | violated: a lost segment is output in the end |

**Why the bounds are enough.** The endpoint's hazards need a hole (one loss with
one segment after it), a duplicate or overlapping retransmission, or two segments
crossing. `lossy` has a second chunk behind the first, a FIN each way, and a timer that
may fire whenever it likes, so every segment may be sent three times on top of the one
fault, and its answers cross the repetitions. Two faults meet in `data_faults`. Data
both ways, where a repeated chunk carries an old acknowledgement, is left to the proofs;
in `lossy` a repeated FIN and a delayed ACK carry one. The endless search and the
overflow need three to five segments, which `data_faults` and `insertion` have. One
fault is enough for the close, since each direction has one
FIN and one ACK; the timer's own retransmissions come on top. What holds in `lossy`,
and both invariants of `data_faults`, are proved too, for any number of chunks,
faults and transmissions, and with data both ways (section 5). `NetCapacity`
bounds only the timer's retransmissions, and is never below what a host can have
in flight plus one round of retransmissions. `Prompt` says whether a round trip
is shorter than a timer period; it is FALSE in `lossy`, where every
race of a timeout with an answer counts, and TRUE where the number of
transmissions would otherwise dominate.

`data_faults` asks what becomes of a transfer when only data is lost or overtaken. Its five segments
have the real size, so their numbers compare as they do in the program. With two
faults and a window of three segments all three obstructions happen in it: the
endless search, the overflow, and a segment that stays before the one it should
follow (`Blocked`). `LostDataIsRecovered` and `AlwaysCloses` say that these are
all: whatever else is lost is sent again and output, and the connection ends in an
ordered close, which is reached with both faults and all five segments. Drops
stand for corruptions there, since both end in nothing being received. A segment
is sent again at each tick and given up after four transmissions, one more
than two losses can take, so that the run stays small; the code's numbers are five
ticks and six transmissions.

Faults hit the segment that would arrive next; since they may hit again and a
delayed segment goes to the end, this gives every order that the bound on faults
allows.

In `bbr` all modes are reached: PROBE_RTT is entered before and after the pipe is
full, and left for each of the other three; DRAIN lasts and ends at once; the phase advances;
samples are left out; and the 16-bit sum that marks a sample wraps to zero (at
`ShortWord` = 4). The gains are the real ones.
One acknowledgement without growth fills the pipe there (`FullBwCnt` = 1, so that
what follows fits the clock; the code's count is three).

The list of connections needs three clients to have one before, one at and one
behind the one that is freed; in `server` all three are accepted, in every order,
and any subset of them is destroyed in a pass. One of them sends data, since
queues of two connections meet only in the POLLOUT bit, which the drains of the
two others withdraw as well. A segment that is queued whole leaves the second one
waiting; one that is written in part lets the second one join it in the queue. The client that is refused is in `discarded`.

`wire` counts every initial number it is given up to the wrap and past it, with
payloads of one, two and three bytes, even and odd ones for the checksum. An
initial number of 3 is as long as the longest payload: the relative and the
absolute numbers wrap three bytes apart; 127 is the largest that `rand` gives in
a word of 256. Smaller initial numbers are left out of `TakenOnce` by its
condition: there the relative numbers wrap while the absolute ones still pass,
which in the code needs a `rand` below 1440.

**Symmetry** is used in `server` only, between the two clients that send no data;
no property there tells them apart, and no liveness is checked. Elsewhere the
hosts differ in what they send.
**Deadlock** is checked in `server` and `wire`, where the loop and the sender go on
for ever; elsewhere a run ends when both connections are closed, or when the
clock stops.

**Fairness** (`FairSpec`): weak fairness for every handler of a running host
whose condition stays true. `do_loop` polls for ever, `poll` reports a segment on
the socket and a writable STDOUT again on each round, and the timers are called
in each round. Faults are bounded and not fair, and nothing is required of the
amount read, nor of `ctcp_read` at the end of STDIN: a terminal reports its end
once, so does the end that the tester marks with a byte 0x1a
(`ctcp_sys_internal.c:759`), and a pipe whose writer is gone, as the tests use
(`ctcp_tests.py:154`, `:171`), reports POLLHUP alone, which `do_loop` does not test
(`:1166`). Without that call no FIN is sent.
`FileSpec` adds weak fairness of `ReadEofCloses`: STDIN is a regular file, which
`poll` reports as readable at its end for ever. `data_faults` and `recovery` use
it. `data_faults` says nothing of lost ACKs or FINs, because after one the transfer
need not recover: `lost_ack` shows it for an ACK, and section 6 tells it of the last
FIN and the last ACK.

`Server`'s `FairSpec` has weak fairness of the loop, and strong fairness of a
`Poll` that reports STDOUT: whoever reads STDOUT goes on reading, so while POLLOUT
is asked for again and again, it is reported again and again. Clients and timers
owe nothing. `stalled` is a behaviour under this fairness: STDOUT is read, and the
queue stays, because POLLOUT is not asked for.

## 5. What is proved

Each theorem is of its component's `Spec`, for all values of the constants that
satisfy the assumptions its module names:

- `Ctcp` (`HostsDiffer`, `SizesAssumption`, `TimesAssumption`, `NetworkAssumption`):
  two hosts are fixed; the number and sizes of chunks, windows, time-outs, buffer
  space, and the kinds and number of faults are arbitrary;
- `Bbr` (`BbrAssumption`, `WordAssumption`): any clock, unit of bandwidth, segment
  size, filter length and bound;
- `Server` (`ServerAssumption`, `OutputAssumption`): any number of clients, sizes
  of segments, space in the queues and bound on clients;
- `Wire` (`WireAssumption`): any width of a byte, header size, initial numbers that
  are below half a word as `rand`'s are, and payloads whose length with the header
  fits the half word of `len`.

| theorem | states | run that checks it |
|---|---|---|
| `TypeCorrect` | `[]TypeOK` | `lossy` |
| `StreamCorrect` | `[]StreamInvariant` | `lossy` |
| `Delivery` | `[]InOrderDelivery` | `lossy` |
| `Acknowledgement` | `[]AckedWasOutput` | `lossy` |
| `AssertionHolds` | `[]NoAssertFails` | `lossy` |
| `Close` | `[]CloseIsComplete` | `lossy` |
| `Agreement` | `[]TerminationAgrees` | `lossy` |
| `Implementation` | `ImplementsStreams`: the two endpoints implement `ReliableStream` | `lossy` |
| `SendCorrect` | the sender's lists follow each other without gaps (`SendInv`) | |
| `InFlight` | `[]InFlightAccounting` | `lossy` |
| `FinIsStored` | `[]FinStored` | `lossy` |
| `BufferCorrect` | the receive buffer is ordered and counted (`BufferInv`) | |
| `ReceiveCounted` | `[]ReceiveAccounting` | `data_faults` |
| `NothingStale` | `[]NothingStaleBuffered` | `data_faults` |
| `BbrTypeCorrect` | `[]BbrTypeOK` | `bbr` |
| `FilterCorrect` | `[]FilterHoldsMaximum` | `bbr` |
| `PipeFull` | `[]PipeFullAndMode` | `bbr` |
| `AppLimited` | `[]AppLimitedWithinFlight` | `bbr` |
| `ProbeRtt` | `[]ProbeRttFlight` | `bbr` |
| `ServerCorrect` | `[]ServerInvariant` | |
| `ServerTypes` | `[]ServerTypeOK` | `server` |
| `AckedWritten` | `[]AckedIsWrittenOrQueued` | `server` |
| `QueueWithinBound` | `[]QueueBounded` | `server` |
| `ListedLive` | `[]ListedAreLive` | `server` |
| `NewestIsFirst` | `[]NewestFirst` | `server` |
| `HandshakeOnly` | `[]OnlyHandshakeSwallowed` | `server` |
| `SurvivesIntact` | `[]IntactSurvives` | `wire` |
| `RefusesFlips` | `[]FlipIsRefused` | `wire` |
| `TakesOnce` | `[]TakenOnce` | `wire` |
| `FilterPasses` | `[]PassesUntilWrap` | `wire` |

`ProofLemmas` has what the modules below share: division with a remainder, the
least element of a set of naturals, counting up to a bound (`UpTo`), and that a
loop of n steps passes through states of which each follows from the one before
(`Iterates`).

**Types** (`CtcpProofs`). `TypeOK` is inductive as it stands. It is a conjunction
of five parts, by the groups of variables an action leaves alone together; each
action has a lemma with a step for each part it changes. Several counters are
typed as integers and not as naturals: that `tx_in_flight_bytes` and
`rx_waiting_bytes` do not go below zero is a consequence of the accounting
(`InFlight`, `ReceiveCounted`), which rests on these types.

**The invariant** (`StreamInvariant`, last section but two of
`CtcpProperties`). `InOrderDelivery` says nothing of the segments in transit, so
no single handler can be shown to preserve it: a receiver outputs rightly only if
what arrives is right. `StreamInvariant` says, for the stream from each host to
its peer:

- `InputInv`: the chunks read lie in the sequence space without gaps, in order,
  and a FIN after them all;
- `SenderInv`, `TransitInv`: the sender's lists and the segments in transit,
  however old, hold chunks of the stream, its FIN or nothing, and acknowledge no
  more than the sender has received;
- `ReceiverInv`: a prefix was output, `rx_next_output_seqno` is where the next
  chunk starts, `curr_ackno` is that, or one more once the FIN was received, and
  the receive buffer holds chunks;
- `CloseInv`: a FIN is sent after everything was output, a state that says the
  peer's FIN came, or one's own was acknowledged, says the truth;
- `AckedWasOutput`: a chunk is buffered by the sender or was output.

**That it is inductive.** `CtcpProofs` has the parts a step leaves alone
(`InputStays` to `AckedStays`, from the fact that a stream only grows), and three
general steps: one that reaches the streams only through the segments in transit
(`TransitStep`), one of a sender (`SenderStep`), one of a receiver
(`ReceiverStep`). Each handler is then an instance, in `CtcpDelivery`. Four of
them carry the argument:

- `ReceiveAckStep`: an acknowledgement is at most the peer's `curr_ackno`, which
  without a FIN is where the next chunk starts; so a removed segment was output;
- `ReceiveFinStep`, `ReceiveFinAckStep`: a FIN was sent after everything was
  output, so its number is the one expected, and an acknowledgement past it means
  it was received;
- `NewDataIsChunk`: what passes for new data is no FIN sent again;
- `OutputsNextChunks`: the segments that `ctcp_output` finds without a hole are the
  next chunks. This is an induction over the buffer, done as the absence of a
  least counterexample (`LeastElement`, from the well-foundedness of `<`), since
  chunks that start at the same number are the same (`StartInjective`). The
  order of the receive buffer is not used: a wrong order delays, and may block the
  receiver for ever (`recovery`), but it never misdelivers.

**The refinement** (`CtcpImplementation`). The initial states map to the initial
state, and each action is shown to be a step of `ReliableStream` or to leave its
variables alone, with `StreamInvariant` before and after. Most actions touch
nothing the mapping sees (`SameStreams`). Of the others:

- `ReadData` is `Write`, and `ctcp_output` is `Give` (`OutputGives`): it lengthens
  a prefix of the written stream, as the invariant of the next state says, and
  by at least one chunk or by none;
- a FIN is sent only with nothing pending and nothing in flight, so by
  `AckedWasOutput` the peer has everything: `ReadEofCloses` is `End`;
- `ReceiveFin` is `Learn` (`FinLearns`): the FIN in transit proves that its sender
  had everything acknowledged;
- the last ACK and the timer's end of a wait are `Close` (`FinAckCloses`,
  `TimerImplements`), since those termination states say that both FINs went
  through; every other end is `Stop`.

**Accounting** (`CtcpAccounting`). `SendInv` says that the segments in flight lie
without a gap before those that wait, and those before what will be read next
(`Chained`), that `tx_in_flight_bytes` is the distance from the oldest of them to
the first unsent one, and in which termination states a FIN is the one segment in
flight. The chain is what makes the counter right: the timer and the ACK loop
change it by the length of single segments, and only without gaps do these add up
to a distance. `BufferInv` says that the receive buffer is ordered as
`ll_add_in_order` compares, holds nothing before `rx_next_output_seqno`, and that
`rx_waiting_bytes` is the sum of its segments and within the window. The invariant
says so through the partial sums of the list, whose last is what `BytesIn` computes
(`BytesOfSums`); `BytesOfFront`, `BytesOfBack` and `BytesOfRest` say what an insertion
and the output of the first n segments make of them. `ctcp_output` takes the bytes of the next chunks
out of the counter, which are the distance it advances (`OutputBytes`), and by
`StreamInvariant` a chunk that stays starts after them (`LaterChunk`). A buffer
without repetition follows from the strict order.

**Congestion control** (`BbrProofs`). The properties hold each other up: the flight
of PROBE_RTT stays small only because the window is minimal, and a state that
counts PROBE_RTT's time has seen an acknowledgement. `BbrInvariant` is their
conjunction with

- `TypesInv`, `ClockInv`: types, and that a sample was taken no later than its
  segment was sent, so that the rate divides by a positive number, is below
  `Word`, and the ring of samples has a greatest one (`GreatestElement`);
- `FlightInv`: there are partial sums over the segments in flight, the last of
  which is `tx_in_flight_bytes`, and one of which is `app_limited_until`. The mark
  was set to all that was in flight, and segments leave in order; so an
  acknowledgement takes the oldest segment out of both. The sums are an
  existentially quantified function, which a sent segment extends
  (`SumOfAppended`) and an acknowledgement shifts (`SumOfTail`): no sum is ever
  computed, and no induction is needed.

The filter's maximum is a second invariant on top of it, `RecentInv`: a sample of the
last `WindowRtts` that was taken is in the slot of its round, with its value, and
is no larger than the reported maximum. Samples less than a window apart have
different slots (`SlotsDiffer`), so an insertion overwrites none that still counts.

Each function of `ctcp_bbr.c` has a lemma (`MinRttTypes` to `CheckDrainTypes`) that
says what it makes of the state; `OnAck` composes them in the order of `bbr_on_ack`.

**The server** (`ServerProofs`). `ServerInvariant` has five parts: `TypesInv`;
`OutputInv`, for each connection the chunks of its queue follow each other in the
stream, they span at most the buffer space, and what STDOUT took, what is queued
and what was acknowledged follow on each other; `ListInv`, the list is, newest
first, what was accepted after the last one freed as the head, less what was freed
since (`ListIsExact`: with each head `conn_free` loses the older ones, and the
invariant has to say so) and, outside the last action of a pass, names no
connection marked for deletion;
`NetInv`, a client's SYN is the only segment of its under way, and what it sends
later comes from an accepted connection; `SwallowInv`, while the filter waits for
the handshake's ACK of a listed client, that ACK was lost or is the first segment
of the client. Four loops of the code are recursive functions in the model: `conn_drain` over the
chunks of a queue, `ctcp_output` over the segments that wait, the loop of `do_loop`
over the connections, and `delete_all_connections`. Each has lemmas by `Iterates`
and `UpTo` on its n-th state, so the outcome holds for queues and lists of any
length. For `NewestFirst` a second
invariant, `FreedInv`, says that a freed connection stays marked: what was accepted
after the head is listed or was freed. The
property of the output queue then needs that EAGAIN and partial writes leave the
rest of a chunk at the head, and that a chunk that is done with is removed before
the next one is begun.

**The wire** (`WireProofs`). `WireInvariant` says that the datagram in transit was
made of the segment its sender would send now, or of that with one bit flipped; and
that the receiver is at the sender's segment or just behind it, as long as relative
numbers have not wrapped (`BeforeWrap`), and for ever if no payload is longer than
the initial number (`FilterInv`). The steps rest on three groups of lemmas:

- *Checksums.* The end-around carry keeps a sum modulo `HalfWord - 1` (`FoldedIs`,
  since there is no least sum for which it fails), and the exchange of bytes is one to one,
  so two sums that differ by less than `HalfWord - 1` have different checksums
  (`CksumDiffers`).
- *Flips.* A flipped bit changes one of the checksum, the window and one byte of
  the data, by at most half a byte's range (`FlipCases`); so it changes one half
  word of the sum by too little to bring it back to the same checksum
  (`RefusedSum`). The length of the data does not matter.
- *Conversions.* What is added and subtracted modulo a word cancels out
  (`WrapsBack`), and the carried difference of checksums is the sent checksum
  again (`CarriesBack`), so `convert_to_ctcp` gives back the segment
  (`Arrives`), corrupted or not.

`ReleasedKeeps` has the argument of `TakenOnce`: the acknowledgement that would
bring the sender to the wrap has a number that, taken modulo a word, is below the
initial one, and `recv_filter` refuses it.

**Only model-checked**: liveness (`data_faults`, under `FileSpec`), which is out
of the prover's reach, as is ENABLED; and all that section 6 lists, which a
counterexample shows. No module uses a RECURSIVE operator. The
sums and carries that are recursive functions are proved about through the least
element of a set of counterexamples, not by the library's induction theorems.

## 6. Where code and comments part

Seven of these are runs in which TLC finds what the comment, the test or the README
says violated; `PROJECT.json` quotes it under `findings`.

- The search for a place in the receive buffer may never end (`insertion`).
- The overflow of the receive window crashes instead of dropping (`overflow`).
- The receive buffer is in the order of the bytes of network-order numbers, not
  in sequence order as `ctcp_linked_list.h:62` says. With segments of 1440 bytes one
  loss is enough for the missing segment to be put behind its successor: neither is
  output or acknowledged again, and the sender tears the connection down (`recovery`).
- One lost ACK makes the sender give up a live peer (`lost_ack`).
- A close frees acknowledged bytes that are still queued (`discarded`).
- POLLOUT is withdrawn while a queue waits for it (`stalled`).
- Freeing the newest connection empties the list: the older ones are orphans
  (`orphans`).

The others are in the model, where they can be read off a single definition. No
run is spent on them, and no property says that they hold:

- The peer's receive window is not consulted before data is sent, though
  `ctcp.c:118` says "first check if receiver's buffer is available.(Flow control)":
  `ctcp.c:120` compares with the congestion window alone (`PacingTimer`).
- The passive closer's FIN is sent once: in LAST_ACK the timer waits and never
  retransmits (`ctcp.c:422`, `TimerWaits`), and destroys the connection with the FIN
  unacknowledged. `ctcp.h:131` asks for "All sent segments (including the FIN)" to be
  acknowledged, and `:134` for five retransmissions before giving up.
- TIME_WAIT ends at the first tick, since nothing is in flight (`ctcp.c:426`,
  `TimerCloses`), so nobody repeats a lost last ACK. `ctcp.h:278` says that the host
  waits "to ensure the ACK it sent was received".
- The end of STDIN, read while data is unacknowledged, is forgotten (`ctcp.c:184`,
  `ReadEofBusy`); unless it is reported again, as a file's is, no FIN is sent.
  `ctcp.h:150` says "You should send a FIN to the other side when this occurs".
- An old bandwidth maximum stays until a larger sample or its slot's reuse: its age
  is not tested (`ctcp_bbr_minmax.c:15`, `InWindow`). `ctcp_bbr.c:18` speaks of "the
  windowed max recent bandwidth sample".
- The mark of PROBE_RTT's samples is a 32-bit sum stored in 16 bits
  (`ctcp_bbr.c:276`), so it may wrap to zero and a low sample is taken. `:274` says
  "Ignore low rate samples during this mode."
- The window does not grow toward its target, and the one noted before PROBE_RTT
  (`ctcp_bbr.c:269`, `:293`) is overwritten: `bbr_set_cwnd` starts from a local 0
  (`:305`), so the first acknowledgement leaves the minimum. `:307` says "slow start
  cwnd toward target cwnd".
- PROBE_BW does not cycle its gain: advancing the phase moves the index alone
  (`ctcp_bbr.c:147`), and the index is set back to 0 after the gain was taken (`:189`).
  `:150` says "cycle pacing gain to converge to fair share of available bw".
- The three rounds after which the pipe counts as full are three ACKs
  (`ctcp_bbr.c:182`), since every round of the code is an ACK.

## 7. Not modelled, and limits

- The machine is little-endian (the order of the receive buffer depends on it).
- Sequence numbers and clocks are unbounded in `Ctcp`; what happens at the wrap is
  the subject of `Wire`, with one segment in flight and no FIN.
- A handler takes no time: the several readings of the clock within one are equal.
- The overflow of the receive window (`ctcp.c:353-363`) crashes for every window
  up to some 60000 bytes; for larger ones the unsigned arithmetic may come back
  into range, which is not modelled.
- In `Ctcp` a chunk is its position in the input, and the checksum's verdict is a
  field; that the checksum finds a flipped bit is proved of `Wire`.
- In `Ctcp` a write to STDOUT may be partial but not fail, and STDOUT is asked for
  room as long as there is a queue; what POLLOUT and write errors do is in `ConnIO`
  and `Server`.
- BBR's path loses nothing; retransmitted segments are not sampled. The 64-bit
  products and the cap of 10^9 on the window are left out. A shift that wraps in
  32 bits is modelled, but the instance does not reach it.
- The server that starts a program for each client (`execute_program`): input and
  output of the programs are other descriptors under the same code. `wrote_eof` is
  left out, since `ctcp.c` never outputs an empty segment.
- The end of STDIN may be reported once, again and again, or not at all (section 4,
  Fairness); which descriptor does what is `poll`'s, and not modelled.
- `conn_input`'s line endings for a web server, and its addition of a failed
  `read`'s -1 to the count there.
- The handshake is its order of segments; its retransmission does not exist in the
  code. A client that gets an ACK where it waits for a SYN-ACK continues an earlier
  connection, and a host that starts resets stale ones (`send_resets`): both are
  left out.
- `conn_add` stores the address of its own local variable, and `conn_free` of the
  newest connection writes through it (`ctcp_sys_internal.c:595`, `:699`). The
  models take that stack slot to be dead; what it hits depends on the build.
- Start-up, options, raw and Unix sockets, the IP header, logging.
