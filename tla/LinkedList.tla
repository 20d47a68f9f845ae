----------------------------- MODULE LinkedList -----------------------------
(***************************************************************************)
(* The operations of ctcp_linked_list.c that decide what a buffer holds.   *)
(* A list is a sequence, its head first; the objects are records with a    *)
(* field seqno.  What the code does node by node is written here as the    *)
(* list that results; the aliasing of prev/next pointers is the subject of *)
(* the comments, because it is what gives the loops their meaning.         *)
(***************************************************************************)
EXTENDS Integers, Sequences

(***************************************************************************)
(* ll_add_in_order compares the seqno fields as they arrived, in network   *)
(* byte order.  On the little-endian machines the program is built for, an *)
(* integer in network order is read with its bytes reversed: the least     *)
(* significant byte of the sequence number weighs most.                    *)
(***************************************************************************)
NetworkBytes(n) == << n % 256, (n \div 256) % 256,
                      (n \div 65536) % 256, (n \div 16777216) % 256 >>

NetLess(m, n) ==
  \E i \in 1..4 : /\ NetworkBytes(m)[i] < NetworkBytes(n)[i]
                  /\ \A j \in 1..(i - 1) : NetworkBytes(m)[j] = NetworkBytes(n)[j]

(***************************************************************************)
(* Where ll_add_in_order puts a segment:                                   *)
(*   "front", "back"  it is before the head or after the tail;             *)
(*   "hang"           the search loop never moves curr, so it compares the *)
(*                    second element for ever when that one is smaller;    *)
(*   "null"           NULL is returned and the caller frees the segment:   *)
(*                    for a duplicate of the head or of the second         *)
(*                    element, and for a segment that belongs between      *)
(*                    them, because ll_add_after is given curr->prev, the  *)
(*                    NULL before the head.                                *)
(***************************************************************************)
AddInOrderPlace(list, seg) ==
  IF list = << >> THEN "back"
  ELSE IF NetLess(seg.seqno, list[1].seqno) THEN "front"
  ELSE IF NetLess(list[Len(list)].seqno, seg.seqno) THEN "back"
  ELSE IF /\ NetLess(list[1].seqno, seg.seqno)
          /\ NetLess(list[2].seqno, seg.seqno) THEN "hang"
  ELSE "null"

AddInOrder(list, seg) ==
  LET place == AddInOrderPlace(list, seg)
  IN  IF place = "front" THEN << seg >> \o list
      ELSE IF place = "back" THEN Append(list, seg)
      ELSE list

(***************************************************************************)
(* The walk of ll_remove_acked_segments, which the ACK loop of             *)
(* ctcp_receive repeats: after the head is removed the cursor is           *)
(* head->prev, which is NULL, and the walk stops.  At most one segment     *)
(* leaves, however many the acknowledgement covers.  (Segments are added   *)
(* in sequence order, so when the head is not covered none is.)  The list  *)
(* holds transmission infos, whose segment field carries the seqno.        *)
(***************************************************************************)
HeadAckedInclusive(list, ackno) ==  \* mutant: <= for <
  list # << >> /\ list[1].segment.seqno <= ackno
HeadAcked(list, ackno) == list # << >> /\ list[1].segment.seqno < ackno

RemoveNothing(list, ackno) == list  \* mutant: counted as acked, never unlinked
RemoveAcked(list, ackno) == IF HeadAcked(list, ackno) THEN Tail(list) ELSE list
=============================================================================
