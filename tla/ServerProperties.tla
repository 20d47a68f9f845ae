-------------------------- MODULE ServerProperties --------------------------
(***************************************************************************)
(* What the event loop and the output side of module Server promise; the   *)
(* last part is what comments say and the code does not do.                *)
(***************************************************************************)
EXTENDS Server

(* conn_t and the variables of the loop hold what their declarations say,   *)
(* and no chunk of an output queue is empty or done with (conn_output,      *)
(* conn_drain).                                                             *)
ServerTypeOK ==
  /\ connections \in Seq(Clients) /\ freed \subseteq Clients
  /\ \A p \in Clients :
       /\ conn[p].out_queue \in Seq(Chunk) /\ conn[p].waiting \in Seq(Nat)
       /\ \A i \in DOMAIN conn[p].out_queue : Left(conn[p].out_queue[i]) > 0
       /\ conn[p].written \in Seq(Nat) /\ {conn[p].acked, conn[p].received} \subseteq Nat
       /\ {conn[p].wrote_err, conn[p].delete_me, conn[p].read_eof} \subseteq BOOLEAN
  /\ pollout \in BOOLEAN /\ reader \in BOOLEAN
  /\ new_connection \in Clients \cup {NoClient}
  /\ phase \in {"poll", "stdout", "socket", "timer"}
  /\ net \in Seq(Segment)

QueuedBytes(c) ==
  LET bytes[i \in 0..Len(c.out_queue)] ==
        IF i = 0 THEN << >>
        ELSE bytes[i - 1] \o Bytes(c.out_queue[i].first + c.out_queue[i].used,
                                   Left(c.out_queue[i]))
  IN  bytes[Len(c.out_queue)]

(* Of the bytes a connection has acknowledged, STDOUT has taken the first   *)
(* ones, in order and once, and the output queue holds all the others:      *)
(* through partial writes, EAGAIN and the two places that write             *)
(* (conn_output, conn_drain).  A write error is the exception: what is      *)
(* acknowledged after it is lost, and what was written is still a prefix.   *)
AckedIsWrittenOrQueued == \A p \in Accepted :
  IF conn[p].wrote_err THEN conn[p].written = Bytes(1, Len(conn[p].written))
  ELSE conn[p].written \o QueuedBytes(conn[p]) = Bytes(1, conn[p].acked)

(* No connection queues more than MAX_BUF_SPACE bytes, counted to the byte  *)
(* across partially written chunks, though each conn_output is allowed its  *)
(* whole segment (conn_bufspace).                                           *)
QueueBounded == \A p \in Clients : Queued(conn[p]) <= BufSpace

(* From one pass of the loop to the next no listed connection is destroyed  *)
(* or freed, whichever of them the socket or the timers destroyed: neither  *)
(* STDIN, nor a drain, nor a segment reaches a state that ctcp_destroy      *)
(* freed (delete_all_connections, conn_free).                               *)
ListedAreLive ==
  /\ Listed \cap freed = {}
  /\ phase \in {"poll", "stdout", "socket"} => Listed \subseteq Live

AcceptedAfter(p, q) ==
  \E a, b \in DOMAIN accepted : accepted[a] = p /\ accepted[b] = q /\ a > b

(* README: the server "will send only to the most recently connected        *)
(* client".  The list is newest first, and no connection that lives was     *)
(* accepted after its head, which reads STDIN: through refusals and the     *)
(* deletion of the head, of connections in the middle and of several at     *)
(* once (conn_add, conn_free, do_loop).                                     *)
NewestFirst ==
  /\ \A i, j \in DOMAIN connections : i < j => AcceptedAfter(connections[i], connections[j])
  /\ connections # << >> => \A p \in Live : ~AcceptedAfter(p, Head(connections))

(* do_loop keeps from ctcp_receive one handshake ACK per connection at most, *)
(* and a data segment only in place of a handshake ACK that was lost.       *)
OnlyHandshakeSwallowed == \A p \in Clients :
  /\ swallowed[p] # {"ack", "data"} /\ "last" \notin swallowed[p]
  /\ "data" \in swallowed[p] => p \in ack_lost

-----------------------------------------------------------------------------
(* What the repository says and the code does not do *)

(* ctcp.h: "If there is no room, ctcp_output() will automatically be called *)
(* by the library when there is."  Here: received segments do not wait for  *)
(* ever, while STDOUT is read, on a connection that is not destroyed.       *)
OutputResumes == \A p \in Clients :
  [](conn[p].waiting # << >> => <>(conn[p].waiting = << >> \/ conn[p].delete_me))

(* ctcp.h: ctcp_destroy is called when "All received segments have been     *)
(* outputted."  Here: when an ordered close frees a connection, STDOUT has  *)
(* all that was acknowledged.                                               *)
ClosedIsWritten == cut = {}

(* README: "The server will output all of the received data from the        *)
(* clients"; of conn_free, "Removes a connection object from the conn_t     *)
(* list".  Here: when poll() is called every connection that lives is in    *)
(* the list, where conn_drain, recv_filter and a later deletion find it.    *)
LiveAreListed == phase = "poll" => Live \subseteq Listed
=============================================================================
