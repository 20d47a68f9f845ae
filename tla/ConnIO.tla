------------------------------- MODULE ConnIO -------------------------------
(***************************************************************************)
(* The output side of a connection: conn_bufspace, conn_output and         *)
(* conn_drain of ctcp_sys_internal.c, and ctcp_output of ctcp.c, which     *)
(* calls the first two and is called by the third.                         *)
(*                                                                         *)
(* A connection is a record; a byte is named by its position among those   *)
(* the peer sent.  STDOUT decides how much of a write it takes, so an      *)
(* operation yields the set of its possible outcomes: records x with the   *)
(* connection x.conn and the POLLOUT request x.pollout, the one bit of     *)
(* events[STDOUT_FILENO] that all connections share.                       *)
(***************************************************************************)
EXTENDS Integers, FiniteSetsExt, SequencesExt

CONSTANTS
  BufSpace,           \* MAX_BUF_SPACE
  Atomic              \* STDOUT is a pipe: it takes a chunk as a whole or not at all

ASSUME OutputAssumption == BufSpace \in Nat \ {0} /\ Atomic \in BOOLEAN

Chunk == [first : Nat, size : Nat, used : Nat]

NewConn == [out_queue |-> << >>, wrote_err |-> FALSE, delete_me |-> FALSE,
            read_eof |-> FALSE,
            waiting |-> << >>,        \* sizes of the received segments not yet output
            received |-> 0,           \* segments received so far
            acked |-> 0,              \* bytes passed to conn_output and acknowledged
            written |-> << >>]        \* bytes STDOUT took, in the order it took them

Left(chunk) == chunk.size - chunk.used
Queued(c) ==
  LET used[i \in 0..Len(c.out_queue)] ==
        IF i = 0 THEN 0 ELSE used[i - 1] + Left(c.out_queue[i])
  IN  used[Len(c.out_queue)]

conn_bufspaceOfUsed(c) ==   \* mutant: the bytes written are counted, not those left
  LET used == MapThenSumSet(LAMBDA i : c.out_queue[i].used, DOMAIN c.out_queue)
  IN  IF used > BufSpace THEN 0 ELSE BufSpace - used
conn_bufspace(c) == IF Queued(c) > BufSpace THEN 0 ELSE BufSpace - Queued(c)

(* One operation of a connection that has begun: nothing is written yet.    *)
Begun(c, pollout, room) ==
  [conn |-> c, pollout |-> pollout, room |-> room, outputted |-> FALSE, stop |-> FALSE]

Bytes(first, n) == [i \in 1..n |-> first + i - 1]

(***************************************************************************)
(* write() of n bytes: how many STDOUT takes, 0 for EAGAIN, -1 when nobody *)
(* reads it any more.  After poll() reported room the first write succeeds.*)
(***************************************************************************)
Writes(n, reader, room) ==
  IF ~reader THEN {-1}
  ELSE (IF Atomic THEN {0, n} ELSE 0..n) \ (IF room THEN {0} ELSE {})

-----------------------------------------------------------------------------
EnqueueAny(c, first, n) ==  \* mutant: a chunk even when all was written
  [c EXCEPT !.out_queue = Append(@, [first |-> first, size |-> n, used |-> 0])]
Enqueue(c, first, n) ==
  IF n = 0 THEN c
  ELSE [c EXCEPT !.out_queue = Append(@, [first |-> first, size |-> n, used |-> 0])]

(* One outcome of conn_output: w bytes of len are taken at once, the rest is *)
(* queued, and POLLOUT is asked for when there is a queue.                  *)
Output(x, len, w) ==
  IF w = -1 THEN [x EXCEPT !.conn.wrote_err = TRUE]
  ELSE LET first == x.conn.acked + 1
           c == Enqueue([x.conn EXCEPT !.written = @ \o Bytes(first, w)], first + w, len - w)
       IN  [x EXCEPT !.conn = c, !.pollout = @ \/ c.out_queue # << >>]

conn_outputAlwaysDirect(x, len, reader) ==  \* mutant: written at once past the queue
  IF x.conn.wrote_err THEN {x} ELSE {Output(x, len, w) : w \in Writes(len, reader, FALSE)}
conn_output(x, len, reader) ==
  IF x.conn.wrote_err THEN {x}
  ELSE {Output(x, len, w) :
          w \in IF x.conn.out_queue = << >> THEN Writes(len, reader, FALSE) ELSE {0}}

(***************************************************************************)
(* ctcp_output: the waiting segments in turn, while each fits.  The result *)
(* of conn_output is only asserted not to be 0, so a segment refused after *)
(* a write error is acknowledged and dropped like one that was output.     *)
(***************************************************************************)
OutputNext(x, reader) ==
  LET c == x.conn IN
  IF c.waiting = << >> \/ conn_bufspace(c) < Head(c.waiting) THEN {x}
  ELSE {[y EXCEPT !.conn.acked = @ + Head(c.waiting), !.conn.waiting = Tail(@)] :
          y \in conn_output(x, Head(c.waiting), reader)}

ctcp_output(x, reader) ==
  LET after[i \in 0..Len(x.conn.waiting)] ==
        IF i = 0 THEN {x} ELSE UNION {OutputNext(y, reader) : y \in after[i - 1]}
  IN  after[Len(x.conn.waiting)]

-----------------------------------------------------------------------------
(***************************************************************************)
(* conn_drain.  It withdraws the request for POLLOUT first and repeats it  *)
(* only after a partial write.  x.room: poll() reported room that no write *)
(* of this pass has used yet.                                              *)
(***************************************************************************)
DrainChunk(x, w) ==
  LET chunk == Head(x.conn.out_queue)
      taken == [x EXCEPT !.room = FALSE, !.outputted = TRUE,
                         !.conn.written = @ \o Bytes(chunk.first + chunk.used, w)]
  IN  IF w = -1 THEN [x EXCEPT !.conn.wrote_err = TRUE, !.stop = TRUE]
      ELSE IF w = 0 THEN [x EXCEPT !.stop = TRUE]
      ELSE IF w < Left(chunk)
      THEN [taken EXCEPT !.conn.out_queue[1].used = @ + w, !.pollout = TRUE, !.stop = TRUE]
      ELSE [taken EXCEPT !.conn.out_queue = Tail(@)]

DrainNext(x, reader) ==
  IF x.stop \/ x.conn.out_queue = << >> THEN {x}
  ELSE {DrainChunk(x, w) : w \in Writes(Left(Head(x.conn.out_queue)), reader, x.room)}

Drained(x, reader) ==  \* the ends of the loop over the output queue
  LET after[i \in 0..Len(x.conn.out_queue)] ==
        IF i = 0 THEN {x} ELSE UNION {DrainNext(y, reader) : y \in after[i - 1]}
  IN  after[Len(x.conn.out_queue)]

conn_drain(x, reader) ==
  UNION {IF y.outputted /\ ~y.conn.delete_me THEN ctcp_output(y, reader) ELSE {y} :
           y \in Drained([x EXCEPT !.pollout = FALSE, !.stop = x.conn.wrote_err], reader)}
=============================================================================
