---------------------------- MODULE ServerProofs ----------------------------
(***************************************************************************)
(* Proofs about the event loop, the list of connections and the output     *)
(* side of module Server, for every value of its constants.                *)
(***************************************************************************)
EXTENDS ServerProperties, SequenceTheorems, ProofLemmas

-----------------------------------------------------------------------------
(* The inductive invariant *)

(* The bytes of a chunk that are left are from(k)..(until(k) - 1).          *)
From(chunk) == chunk.first + chunk.used
Until(chunk) == chunk.first + chunk.size

Chained(queue) ==
  /\ queue \in Seq(Chunk)
  /\ \A i \in 1..Len(queue) : queue[i].used < queue[i].size
  /\ \A i \in 1..(Len(queue) - 1) : Until(queue[i]) = From(queue[i + 1])

Span(queue) == IF queue = << >> THEN 0 ELSE Until(queue[Len(queue)]) - From(queue[1])

ConnRecord == [out_queue : Seq(Chunk), wrote_err : BOOLEAN, delete_me : BOOLEAN,
               read_eof : BOOLEAN, waiting : Seq(Nat), received : Nat, acked : Nat,
               written : Seq(Nat)]

(* What was written, what is queued and what was acknowledged follow on     *)
(* each other, and the queue is within its bound.                           *)
ConnInv(c) ==
  /\ c \in ConnRecord /\ Chained(c.out_queue) /\ Span(c.out_queue) <= BufSpace
  /\ c.written = Bytes(1, Len(c.written))
  /\ c.out_queue # << >> => From(c.out_queue[1]) = Len(c.written) + 1
  /\ ~c.wrote_err => Len(c.written) + Span(c.out_queue) = c.acked
  /\ Len(c.waiting) <= c.received

TypesInv ==
  /\ connections \in Seq(Clients) /\ freed \subseteq Clients
  /\ pollout \in BOOLEAN /\ reader \in BOOLEAN
  /\ new_connection \in Clients \cup {NoClient}
  /\ phase \in {"poll", "stdout", "socket", "timer"}
  /\ net \in Seq(Segment)
  /\ client \in [Clients -> {"idle", "handshake", "connected", "done"}]
  /\ accepted \in Seq(Clients) /\ newest_freed \in 0..Len(accepted)
  /\ swallowed \in [Clients -> SUBSET {"ack", "data"}]

OutputInv == conn \in [Clients -> ConnRecord] /\ \A p \in Clients : ConnInv(conn[p])

(* The list holds, newest first and once, the connections accepted after    *)
(* the last one that was freed as the head, less those freed since.         *)
ListIsExact ==
  /\ Listed = {accepted[i] : i \in (newest_freed + 1)..Len(accepted)} \ freed
  /\ \A i, j \in DOMAIN connections : i < j =>
       \E a, b \in DOMAIN accepted :
         accepted[a] = connections[i] /\ accepted[b] = connections[j] /\ a > b

ListInv ==
  /\ ListIsExact
  /\ \A a, b \in DOMAIN accepted : accepted[a] = accepted[b] => a = b
  /\ freed \subseteq Accepted
  /\ phase # "timer" => \A p \in Listed : ~conn[p].delete_me

(* A client sends its SYN once, and nothing else before it was accepted.    *)
NetInv ==
  /\ \A i \in DOMAIN net :
       LET p == net[i].from
       IN  IF net[i].kind = "syn"
           THEN /\ client[p] = "handshake" /\ p \notin Accepted
                /\ \A j \in DOMAIN net : net[j].from = p => j = i
           ELSE client[p] \in {"connected", "done"} /\ p \in Accepted
  /\ \A i \in DOMAIN net : net[i].kind = "data" => net[i].n \in DOMAIN Sizes[net[i].from]
  /\ \A p \in Clients : client[p] = "idle" => p \notin Accepted
  /\ \A p \in Clients : client[p] \in {"connected", "done"} => p \in Accepted

(* As long as the filter waits for the handshake ACK of a listed client,    *)
(* that ACK was lost, or comes before all else the client sends.            *)
SwallowInv ==
  /\ \A p \in Clients : swallowed[p] # {} => p \in Accepted
  /\ OnlyHandshakeSwallowed
  /\ new_connection # NoClient =>
       /\ new_connection \in Accepted /\ swallowed[new_connection] = {}
       /\ (/\ new_connection \in Listed /\ new_connection \notin ack_lost
           /\ client[new_connection] # "handshake")
            => \E i \in DOMAIN net :
                 /\ net[i].from = new_connection /\ net[i].kind = "ack"
                 /\ \A j \in 1..(i - 1) : net[j].from # new_connection

(* The memory of a freed connection is not used again.                      *)
FreedInv == \A p \in freed : p \in Clients /\ conn[p].delete_me

ServerInvariant == TypesInv /\ OutputInv /\ ListInv /\ NetInv /\ SwallowInv

-----------------------------------------------------------------------------
(* Bytes and chunks *)

LEMMA BytesAre ==
  ASSUME NEW a \in Nat, NEW n \in Nat
  PROVE  /\ Bytes(a + 1, n) \in Seq(Nat) /\ Len(Bytes(a + 1, n)) = n
         /\ \A i \in 1..n : Bytes(a + 1, n)[i] = a + i
<1>1. \A i \in 1..n : (a + 1) + i - 1 = a + i /\ a + i \in Nat
  OBVIOUS
<1>2. Bytes(a + 1, n) = [i \in 1..n |-> a + i]
  BY <1>1 DEF Bytes
<1>3. [i \in 1..n |-> a + i] \in Seq(Nat)
  BY <1>1
<1> QED
  BY <1>2, <1>3

(* Bytes that follow on bytes.                                              *)
LEMMA BytesFollow ==
  ASSUME NEW a \in Nat, NEW n \in Nat, NEW m \in Nat
  PROVE  Bytes(a + 1, n) \o Bytes((a + n) + 1, m) = Bytes(a + 1, n + m)
<1> DEFINE b == Bytes(a + 1, n)
           c == Bytes((a + n) + 1, m)
           d == Bytes(a + 1, n + m)
<1>1. b \in Seq(Nat) /\ Len(b) = n /\ \A i \in 1..n : b[i] = a + i
  BY BytesAre
<1>2. c \in Seq(Nat) /\ Len(c) = m /\ \A i \in 1..m : c[i] = (a + n) + i
  <2>1. a + n \in Nat
    OBVIOUS
  <2> QED
    BY <2>1, BytesAre
<1>3. d \in Seq(Nat) /\ Len(d) = n + m /\ \A i \in 1..(n + m) : d[i] = a + i
  <2>1. n + m \in Nat
    OBVIOUS
  <2> QED
    BY <2>1, BytesAre
<1> HIDE DEF b, c, d
<1>4. b \o c \in Seq(Nat) /\ Len(b \o c) = n + m
  BY <1>1, <1>2, ConcatProperties
<1>5. ASSUME NEW i \in 1..(n + m) PROVE (b \o c)[i] = d[i]
  <2>1. CASE i <= n
    <3>1. i \in 1..n
      BY <2>1
    <3>2. (b \o c)[i] = b[i]
      BY <1>1, <1>2, <3>1, ConcatProperties
    <3> QED
      BY <1>1, <1>3, <3>1, <3>2
  <2>2. CASE ~(i <= n)
    <3>1. i - n \in 1..m /\ i > Len(b) /\ i \in 1..(Len(b) + Len(c))
      BY <1>1, <1>2, <2>2
    <3>2. (b \o c)[i] = c[i - n]
      BY <1>1, <1>2, <3>1, ConcatProperties
    <3> QED
      BY <1>2, <1>3, <3>1, <3>2
  <2> QED
    BY <2>1, <2>2
<1>6. Len(b \o c) = Len(d) /\ \A i \in 1..Len(b \o c) : (b \o c)[i] = d[i]
  BY <1>3, <1>4, <1>5
<1>7. b \o c = d
  BY <1>3, <1>4, <1>6, SeqEqual
<1> QED
  BY <1>7 DEF b, c, d

(* The chunks of a queue follow on each other, so that what is left of the  *)
(* first i of them are the bytes between the first and the last.            *)
LEMMA ChunkTypes ==
  ASSUME NEW queue, Chained(queue)
  PROVE  /\ Len(queue) \in Nat
         /\ \A i \in 1..Len(queue) :
              /\ queue[i] \in Chunk /\ From(queue[i]) \in Nat /\ Until(queue[i]) \in Nat
              /\ From(queue[i]) < Until(queue[i])
              /\ Left(queue[i]) = Until(queue[i]) - From(queue[i])
<1>1. \A i \in 1..Len(queue) : queue[i] \in Chunk
  BY ElementOfSeq DEF Chained
<1> QED
  BY <1>1, LenProperties, SMTT(30) DEF Chained, Chunk, From, Until, Left

LEMMA ChainGrows ==
  ASSUME NEW queue, Chained(queue), NEW i \in 1..Len(queue)
  PROVE  Until(queue[i]) > From(queue[1])
<1> DEFINE n == Len(queue)
           T == {k \in 1..n : ~(Until(queue[k]) > From(queue[1]))}
<1>1. n \in Nat /\ \A k \in 1..n : From(queue[k]) \in Nat /\ Until(queue[k]) \in Nat
                                   /\ From(queue[k]) < Until(queue[k])
  BY ChunkTypes
<1>2. \A k \in 1..(n - 1) : Until(queue[k]) = From(queue[k + 1])
  BY DEF Chained
<1>3. T = {}
  <2> SUFFICES ASSUME T # {} PROVE FALSE
    OBVIOUS
  <2>0. T \subseteq Nat
    BY <1>1
  <2>1. PICK x \in T : \A y \in T : x <= y
    BY <2>0, LeastElement
  <2>2. x # 1
    BY <1>1, <2>1
  <2>3. x - 1 \in 1..(n - 1) /\ x - 1 \in 1..n /\ (x - 1) + 1 = x /\ ~ (x <= x - 1)
    BY <1>1, <2>1, <2>2
  <2>4. Until(queue[x - 1]) > From(queue[1]) /\ Until(queue[x - 1]) = From(queue[x])
    BY <1>2, <2>1, <2>3
  <2>5. 1 \in 1..n
    BY <1>1, <2>1
  <2> QED
    BY <1>1, <2>1, <2>3, <2>4, <2>5
<1> QED
  BY <1>3

LEMMA SpanIsNat ==
  ASSUME NEW queue, Chained(queue)
  PROVE  Span(queue) \in Nat /\ (queue # << >> => Span(queue) > 0 /\ 1 \in 1..Len(queue))
<1>1. CASE queue = << >>
  BY <1>1 DEF Span
<1>2. CASE queue # << >>
  <2>1. Len(queue) \in Nat \ {0}
    BY <1>2, EmptySeq DEF Chained
  <2>2. 1 \in 1..Len(queue) /\ Len(queue) \in 1..Len(queue)
    BY <2>1
  <2>3. Until(queue[Len(queue)]) > From(queue[1])
    BY <2>2, ChainGrows
  <2>4. Until(queue[Len(queue)]) \in Nat /\ From(queue[1]) \in Nat
    BY <2>2, ChunkTypes
  <2> QED
    BY <1>2, <2>2, <2>3, <2>4 DEF Span
<1> QED
  BY <1>1, <1>2

(* conn_bufspace counts the bytes left in the queue.                        *)
LEMMA QueuedIsSpan ==
  ASSUME NEW c, Chained(c.out_queue)
  PROVE  Queued(c) = Span(c.out_queue)
<1> DEFINE q == c.out_queue
           n == Len(q)
           Counts(g) == g = [i \in 0..n |-> IF i = 0 THEN 0 ELSE g[i - 1] + Left(q[i])]
           f == [i \in 0..n |-> IF i = 0 THEN 0 ELSE Until(q[i]) - From(q[1])]
<1>1. /\ n \in Nat
      /\ \A i \in 1..n : /\ From(q[i]) \in Nat /\ Until(q[i]) \in Nat
                         /\ Left(q[i]) = Until(q[i]) - From(q[i])
  BY ChunkTypes
<1>2. \A i \in 1..(n - 1) : Until(q[i]) = From(q[i + 1])
  BY DEF Chained
<1>3. ASSUME NEW i \in 1..n PROVE f[i] = f[i - 1] + Left(q[i]) /\ f[i] \in Int
  <2>0. f[i] = Until(q[i]) - From(q[1]) /\ 1 \in 1..n
    BY <1>1
  <2>1. CASE i = 1
    <3>1. f[i - 1] = 0
      BY <1>1, <2>1
    <3> QED
      BY <1>1, <2>0, <2>1, <3>1
  <2>2. CASE i # 1
    <3>1. i - 1 \in 1..(n - 1) /\ i - 1 \in 1..n /\ i - 1 # 0 /\ i - 1 \in 0..n /\ (i - 1) + 1 = i
      BY <1>1, <2>2
    <3>2. f[i - 1] = Until(q[i - 1]) - From(q[1]) /\ Until(q[i - 1]) = From(q[i])
      BY <1>2, <3>1
    <3> QED
      BY <1>1, <2>0, <3>1, <3>2
  <2> QED
    BY <2>1, <2>2
<1>4. f[0] = 0
  BY <1>1
<1>5. Counts(f)
  <2>1. f = [i \in 0..n |-> f[i]]
    OBVIOUS
  <2> HIDE DEF f
  <2>2. ASSUME NEW i \in 0..n PROVE f[i] = IF i = 0 THEN 0 ELSE f[i - 1] + Left(q[i])
    <3>1. CASE i = 0
      BY <1>4, <3>1
    <3>2. CASE i # 0
      <4>1. i \in 1..n
        BY <1>1, <3>2
      <4> QED
        BY <1>3, <3>2, <4>1
    <3> QED
      BY <3>1, <3>2
  <2> QED
    BY <2>1, <2>2
<1> DEFINE s == CHOOSE g : Counts(g)
<1>6. Counts(s)
  BY <1>5
<1>7. Queued(c) = s[n]
  BY DEF Queued
<1> HIDE DEF s
<1>8. \A i \in 0..n : s[i] = IF i = 0 THEN 0 ELSE s[i - 1] + Left(q[i])
  BY <1>6
<1>9. f[n] = Span(q)
  BY <1>1, EmptySeq DEF Span, Chained
<1> HIDE DEF f
<1> DEFINE T == {i \in 0..n : s[i] # f[i]}
<1>10. T = {}
  <2> SUFFICES ASSUME T # {} PROVE FALSE
    OBVIOUS
  <2>0. T \subseteq Nat
    BY <1>1
  <2>1. PICK x \in T : \A y \in T : x <= y
    BY <2>0, LeastElement
  <2>2. x # 0
    BY <1>1, <1>4, <1>8, <2>1
  <2>3. x - 1 \in 0..n /\ x \in 1..n /\ ~ (x <= x - 1)
    BY <1>1, <2>1, <2>2
  <2>4. s[x - 1] = f[x - 1]
    BY <2>1, <2>3
  <2>5. s[x] = s[x - 1] + Left(q[x])
    BY <1>8, <2>2, <2>3
  <2> QED
    BY <1>3, <2>1, <2>3, <2>4, <2>5
<1> QED
  BY <1>1, <1>7, <1>9, <1>10

(* The queue holds the bytes from the first one it has left.                *)
LEMMA QueuedBytesAre ==
  ASSUME NEW c, Chained(c.out_queue), NEW a \in Nat,
         c.out_queue # << >> => From(c.out_queue[1]) = a + 1
  PROVE  QueuedBytes(c) = Bytes(a + 1, Span(c.out_queue))
<1> DEFINE q == c.out_queue
           n == Len(q)
           part(i) == Bytes(q[i].first + q[i].used, Left(q[i]))
           Joins(g) == g = [i \in 0..n |-> IF i = 0 THEN << >> ELSE g[i - 1] \o part(i)]
           u == [i \in 0..n |-> IF i = 0 THEN 0 ELSE Until(q[i]) - From(q[1])]
           f == [i \in 0..n |-> Bytes(a + 1, u[i])]
<1>1. /\ n \in Nat
      /\ \A i \in 1..n : /\ From(q[i]) \in Nat /\ Until(q[i]) \in Nat
                         /\ Left(q[i]) = Until(q[i]) - From(q[i])
                         /\ From(q[i]) < Until(q[i])
  BY ChunkTypes
<1>2. \A i \in 1..(n - 1) : Until(q[i]) = From(q[i + 1])
  BY DEF Chained
<1>3. \A i \in 1..n : Until(q[i]) > From(q[1]) /\ 1 \in 1..n
  BY <1>1, ChainGrows
<1>4. n > 0 => From(q[1]) = a + 1
  BY EmptySeq DEF Chained
<1>5. \A i \in 1..n : u[i] = Until(q[i]) - From(q[1]) /\ u[i] \in Nat
  BY <1>1, <1>3
<1>6. u[0] = 0
  BY <1>1
<1>7. u[n] = Span(q)
  BY <1>1, EmptySeq DEF Span, Chained
<1> HIDE DEF u
<1>8. ASSUME NEW i \in 1..n
      PROVE  /\ From(q[i]) = (a + u[i - 1]) + 1 /\ u[i - 1] \in Nat
             /\ Left(q[i]) \in Nat /\ u[i - 1] + Left(q[i]) = u[i]
  <2>0. n > 0
    BY <1>1
  <2>1. CASE i = 1
    BY <1>1, <1>3, <1>4, <1>5, <1>6, <2>0, <2>1
  <2>2. CASE i # 1
    <3>1. i - 1 \in 1..(n - 1) /\ i - 1 \in 1..n /\ (i - 1) + 1 = i /\ 1 \in 1..n
      BY <1>1, <2>2
    <3>2. Until(q[i - 1]) = From(q[i])
      BY <1>2, <3>1
    <3>3. u[i - 1] = Until(q[i - 1]) - From(q[1]) /\ u[i - 1] \in Nat
      BY <1>5, <3>1
    <3>4. u[i] = Until(q[i]) - From(q[1]) /\ u[i] \in Nat
      BY <1>5
    <3>5. /\ From(q[1]) = a + 1 /\ From(q[i]) \in Nat /\ Until(q[i]) \in Nat
          /\ Left(q[i]) = Until(q[i]) - From(q[i]) /\ From(q[i]) < Until(q[i])
      BY <1>1, <1>4, <2>0
    <3>6. From(q[i]) = (a + u[i - 1]) + 1
      BY <3>2, <3>3, <3>5
    <3>7. Left(q[i]) \in Nat
      BY <3>5
    <3>8. u[i - 1] + Left(q[i]) = u[i]
      BY <3>2, <3>3, <3>4, <3>5
    <3> QED
      BY <3>3, <3>6, <3>7, <3>8
  <2> QED
    BY <2>1, <2>2
<1>9. \A i \in 1..n : i \in 0..n /\ i # 0 /\ i - 1 \in 0..n
  BY <1>1
<1>10. ASSUME NEW i \in 1..n PROVE f[i] = f[i - 1] \o part(i)
  <2>1. f[i] = Bytes(a + 1, u[i]) /\ f[i - 1] = Bytes(a + 1, u[i - 1])
    BY <1>9
  <2>2. part(i) = Bytes((a + u[i - 1]) + 1, Left(q[i]))
    BY <1>8 DEF From
  <2>3. Bytes(a + 1, u[i - 1]) \o Bytes((a + u[i - 1]) + 1, Left(q[i]))
        = Bytes(a + 1, u[i - 1] + Left(q[i]))
    BY <1>8, BytesFollow
  <2> QED
    BY <1>8, <2>1, <2>2, <2>3
<1>11. f[0] = << >>
  <2>1. f[0] = Bytes(a + 1, 0)
    BY <1>1, <1>6
  <2>2. Bytes(a + 1, 0) \in Seq(Nat) /\ Len(Bytes(a + 1, 0)) = 0
    BY BytesAre
  <2> QED
    BY <2>1, <2>2, EmptySeq
<1>12. f = [i \in 0..n |-> f[i]]
  OBVIOUS
<1>13. f[n] = Bytes(a + 1, Span(q))
  BY <1>1, <1>7
<1> HIDE DEF f, part
<1>14. Joins(f)
  <2>1. ASSUME NEW i \in 0..n PROVE f[i] = IF i = 0 THEN << >> ELSE f[i - 1] \o part(i)
    <3>1. CASE i = 0
      BY <1>11, <3>1
    <3>2. CASE i # 0
      <4>1. i \in 1..n
        BY <1>1, <3>2
      <4> QED
        BY <1>10, <3>2, <4>1, SMTT(30)
    <3> QED
      BY <3>1, <3>2
  <2> QED
    BY <1>12, <2>1
<1> DEFINE s == CHOOSE g : Joins(g)
<1>15. Joins(s)
  BY <1>14, Zenon
<1>16. QueuedBytes(c) = s[n]
  BY DEF QueuedBytes, part
<1> HIDE DEF s
<1>17. \A i \in 0..n : s[i] = IF i = 0 THEN << >> ELSE s[i - 1] \o part(i)
  BY <1>15
<1> DEFINE G == {i \in 0..n : s[i] = f[i]}
<1>18. 0 \in G
  BY <1>1, <1>11, <1>17
<1>19. ASSUME NEW i \in 1..n, i - 1 \in G PROVE i \in G
  <2>1. s[i] = s[i - 1] \o part(i)
    BY <1>9, <1>17
  <2> QED
    BY <1>9, <1>10, <1>19, <2>1
<1> HIDE DEF G
<1>20. n \in Nat /\ n \in 0..n
  BY <1>1
<1> HIDE DEF n
<1>21. \A i \in 0..n : i \in G
  BY <1>18, <1>19, <1>20, UpTo
<1> QED
  BY <1>13, <1>16, <1>20, <1>21 DEF G

-----------------------------------------------------------------------------
(* Queues of chunks *)

LEMMA QueueEnds ==
  ASSUME NEW queue, Chained(queue), queue # << >>
  PROVE  /\ Len(queue) \in Nat \ {0} /\ 1 \in 1..Len(queue) /\ Len(queue) \in 1..Len(queue)
         /\ From(queue[1]) \in Nat /\ Until(queue[Len(queue)]) \in Nat
         /\ Span(queue) = Until(queue[Len(queue)]) - From(queue[1])
         /\ Span(queue) \in Nat
<1>1. Len(queue) \in Nat \ {0}
  BY EmptySeq DEF Chained
<1>2. 1 \in 1..Len(queue) /\ Len(queue) \in 1..Len(queue)
  BY <1>1
<1>3. From(queue[1]) \in Nat /\ Until(queue[Len(queue)]) \in Nat
  BY <1>2, ChunkTypes
<1>4. Span(queue) \in Nat
  BY SpanIsNat
<1> QED
  BY <1>1, <1>2, <1>3, <1>4 DEF Span

LEMMA EmptyQueue ==
  /\ Chained(<< >>) /\ Span(<< >>) = 0
<1>1. << >> \in Seq(Chunk) /\ Len(<< >>) = 0
  OBVIOUS
<1> QED
  BY <1>1 DEF Chained, Span

(* A chunk that follows on the queue (conn_output).                         *)
LEMMA ChainAppend ==
  ASSUME NEW queue, Chained(queue), NEW chunk \in Chunk, chunk.used < chunk.size,
         queue # << >> => Until(queue[Len(queue)]) = From(chunk)
  PROVE  /\ Append(queue, chunk) # << >> /\ Chained(Append(queue, chunk))
         /\ Span(Append(queue, chunk)) = Span(queue) + Left(chunk)
         /\ From(Append(queue, chunk)[1]) = IF queue = << >> THEN From(chunk)
                                            ELSE From(queue[1])
<1> DEFINE n == Len(queue)
           longer == Append(queue, chunk)
<1>1. queue \in Seq(Chunk) /\ n \in Nat
  BY DEF Chained
<1>2. /\ longer \in Seq(Chunk) /\ Len(longer) = n + 1 /\ longer[n + 1] = chunk
      /\ \A i \in 1..n : longer[i] = queue[i]
  BY <1>1, AppendProperties
<1>3. longer # << >>
  BY <1>1, <1>2
<1> HIDE DEF longer, n
<1>4. \A i \in 1..Len(longer) : longer[i].used < longer[i].size
  <2> SUFFICES ASSUME NEW i \in 1..(n + 1) PROVE longer[i].used < longer[i].size
    BY <1>2
  <2>1. CASE i = n + 1
    BY <1>2, <2>1
  <2>2. CASE i # n + 1
    <3>1. i \in 1..n
      BY <1>1, <2>2
    <3> QED
      BY <1>2, <3>1 DEF Chained, n
  <2> QED
    BY <2>1, <2>2
<1>5. ASSUME NEW i \in 1..n PROVE Until(longer[i]) = From(longer[i + 1])
  <2>1. CASE i = n
    <3>1. queue # << >> /\ longer[n] = queue[n]
      BY <1>1, <1>2, EmptySeq DEF n
    <3> QED
      BY <1>2, <2>1, <3>1 DEF n
  <2>2. CASE i # n
    <3>1. i \in 1..(n - 1) /\ i + 1 \in 1..n
      BY <1>1, <2>2
    <3>2. Until(queue[i]) = From(queue[i + 1])
      BY <3>1 DEF Chained, n
    <3> QED
      BY <1>2, <3>1, <3>2
  <2> QED
    BY <2>1, <2>2
<1>6. Chained(longer)
  <2>1. Len(longer) - 1 = n
    BY <1>1, <1>2
  <2> QED
    BY <1>2, <1>4, <1>5, <2>1 DEF Chained
<1>7. /\ From(chunk) \in Nat /\ Until(chunk) \in Nat /\ Left(chunk) = Until(chunk) - From(chunk)
  BY DEF Chunk, From, Until, Left
<1>8. CASE queue = << >>
  <2>1. n = 0
    BY <1>8 DEF n
  <2>2. longer[1] = chunk /\ Len(longer) = 1
    BY <1>2, <2>1
  <2>3. Span(longer) = Until(chunk) - From(chunk) /\ Span(queue) = 0
    BY <1>3, <1>8, <2>2 DEF Span
  <2> QED
    BY <1>3, <1>6, <1>7, <1>8, <2>2, <2>3 DEF longer
<1>9. CASE queue # << >>
  <2>1. /\ 1 \in 1..n /\ From(queue[1]) \in Nat /\ Until(queue[n]) \in Nat
        /\ Span(queue) = Until(queue[n]) - From(queue[1]) /\ Until(queue[n]) = From(chunk)
    BY <1>9, QueueEnds DEF n
  <2>2. longer[1] = queue[1] /\ longer[Len(longer)] = chunk
    BY <1>2, <2>1
  <2>3. Span(longer) = Until(chunk) - From(queue[1])
    BY <1>3, <2>2 DEF Span
  <2>4. Span(longer) = Span(queue) + Left(chunk)
    BY <1>7, <2>1, <2>3
  <2> QED
    BY <1>3, <1>6, <1>9, <2>2, <2>4 DEF longer
<1> QED
  BY <1>8, <1>9

(* The first chunk is done with (conn_drain).                               *)
LEMMA ChainTail ==
  ASSUME NEW queue, Chained(queue), queue # << >>
  PROVE  /\ Chained(Tail(queue)) /\ Span(Tail(queue)) = Span(queue) - Left(Head(queue))
         /\ Tail(queue) # << >> => From(Tail(queue)[1]) = From(Head(queue)) + Left(Head(queue))
<1> DEFINE n == Len(queue)
           rest == Tail(queue)
<1>1. queue \in Seq(Chunk) /\ n \in Nat \ {0} /\ 1 \in 1..n
  BY QueueEnds DEF Chained
<1>2. /\ rest \in Seq(Chunk) /\ Len(rest) = n - 1 /\ Head(queue) = queue[1]
      /\ \A i \in 1..(n - 1) : rest[i] = queue[i + 1]
  BY <1>1, HeadTailProperties
<1>3. /\ From(queue[1]) \in Nat /\ Until(queue[1]) \in Nat /\ Until(queue[n]) \in Nat
      /\ Left(queue[1]) = Until(queue[1]) - From(queue[1])
      /\ Span(queue) = Until(queue[n]) - From(queue[1])
  BY <1>1, ChunkTypes, QueueEnds
<1>4. /\ \A i \in 1..n : queue[i].used < queue[i].size
      /\ \A i \in 1..(n - 1) : Until(queue[i]) = From(queue[i + 1])
  BY DEF Chained
<1> HIDE DEF rest, n
<1>5. Chained(rest)
  <2>1. \A i \in 1..Len(rest) : i + 1 \in 1..n /\ rest[i] = queue[i + 1]
    BY <1>1, <1>2
  <2>2. \A i \in 1..(Len(rest) - 1) : i + 1 \in 1..(n - 1) /\ i \in 1..Len(rest)
                                      /\ i + 1 \in 1..Len(rest)
    BY <1>1, <1>2
  <2>3. \A i \in 1..Len(rest) : rest[i].used < rest[i].size
    BY <1>4, <2>1
  <2>4. ASSUME NEW i \in 1..(Len(rest) - 1) PROVE Until(rest[i]) = From(rest[i + 1])
    <3>1. rest[i] = queue[i + 1] /\ rest[i + 1] = queue[(i + 1) + 1]
      BY <2>1, <2>2
    <3> QED
      BY <1>4, <2>2, <3>1
  <2> QED
    BY <1>2, <2>3, <2>4 DEF Chained
<1>6. CASE n = 1
  <2>1. rest = << >>
    BY <1>2, <1>6, EmptySeq
  <2>2. Span(rest) = 0
    BY <2>1 DEF Span
  <2>3. Span(queue) - Left(queue[1]) = 0
    BY <1>3, <1>6
  <2> QED
    BY <1>2, <1>5, <2>1, <2>2, <2>3 DEF rest
<1>7. CASE n # 1
  <2>1. 1 \in 1..(n - 1) /\ n - 1 \in 1..(n - 1) /\ (n - 1) + 1 = n /\ 1 + 1 = 2
    BY <1>1, <1>7
  <2>2. rest[1] = queue[2] /\ rest[n - 1] = queue[n] /\ rest # << >>
    BY <1>2, <2>1
  <2>3. Until(queue[1]) = From(queue[2])
    BY <1>4, <2>1
  <2>4. Span(rest) = Until(queue[n]) - From(queue[2])
    BY <1>2, <2>2 DEF Span
  <2>5. /\ Span(rest) = Span(queue) - Left(queue[1])
        /\ From(rest[1]) = From(queue[1]) + Left(queue[1])
    BY <1>3, <2>2, <2>3, <2>4
  <2> QED
    BY <1>2, <1>5, <2>5 DEF rest
<1> QED
  BY <1>6, <1>7

(* The first chunk is written in part (conn_drain).                         *)
LEMMA ChainUses ==
  ASSUME NEW queue, Chained(queue), queue # << >>, NEW w \in Nat, w < Left(queue[1])
  PROVE  /\ Chained([queue EXCEPT ![1].used = @ + w]) /\ [queue EXCEPT ![1].used = @ + w] # << >>
         /\ Span([queue EXCEPT ![1].used = @ + w]) = Span(queue) - w
         /\ From([queue EXCEPT ![1].used = @ + w][1]) = From(queue[1]) + w
<1> DEFINE n == Len(queue)
           less == [queue EXCEPT ![1].used = @ + w]
           chunk == queue[1]
           rest == [chunk EXCEPT !.used = @ + w]
<1>1. queue \in Seq(Chunk) /\ n \in Nat \ {0} /\ 1 \in 1..n /\ n \in 1..n
  BY QueueEnds DEF Chained
<1>2. chunk \in Chunk /\ chunk.used < chunk.size
  BY <1>1, ElementOfSeq DEF Chained
<1>3. /\ rest \in Chunk /\ rest.used < rest.size
      /\ From(rest) = From(chunk) + w /\ Until(rest) = Until(chunk)
  BY <1>2 DEF Chunk, Left, From, Until
<1>4. /\ From(queue[1]) \in Nat /\ Until(queue[n]) \in Nat
      /\ Span(queue) = Until(queue[n]) - From(queue[1])
  BY QueueEnds
<1>5. less = [queue EXCEPT ![1] = rest]
  OBVIOUS
<1> HIDE DEF rest
<1>6. /\ less \in Seq(Chunk) /\ Len(less) = n /\ less[1] = rest
      /\ \A i \in 1..n : i # 1 => less[i] = queue[i]
  BY <1>1, <1>3, <1>5, ExceptSeq
<1> HIDE DEF less, n, chunk
<1>7. Chained(less)
  <2>1. ASSUME NEW i \in 1..n PROVE less[i].used < less[i].size /\ Until(less[i]) = Until(queue[i])
    BY <1>3, <1>6 DEF Chained, n, chunk
  <2>2. ASSUME NEW i \in 1..(n - 1) PROVE Until(less[i]) = From(less[i + 1])
    <3>1. i \in 1..n /\ i + 1 \in 1..n /\ i + 1 # 1
      BY <1>1
    <3>2. Until(queue[i]) = From(queue[i + 1])
      BY DEF Chained, n
    <3> QED
      BY <1>6, <2>1, <3>1, <3>2
  <2> QED
    BY <1>6, <2>1, <2>2 DEF Chained
<1>8. less # << >>
  BY <1>1, <1>6
<1>9. Span(less) = Until(less[n]) - From(less[1])
  BY <1>6, <1>8 DEF Span
<1>10. Until(less[n]) = Until(queue[n])
  BY <1>1, <1>3, <1>6 DEF chunk
<1>11. From(less[1]) = From(queue[1]) + w
  BY <1>3, <1>6 DEF chunk
<1>12. Span(less) = Span(queue) - w
  BY <1>4, <1>9, <1>10, <1>11
<1> QED
  BY <1>7, <1>8, <1>11, <1>12 DEF less

-----------------------------------------------------------------------------
(* The operations of a connection *)

(* What they may come to: a connection as it should be, destroyed or not as *)
(* before.                                                                  *)
Outcomes(destroyed) ==
  {x \in [conn : ConnRecord, pollout : BOOLEAN, room : BOOLEAN, outputted : BOOLEAN,
          stop : BOOLEAN] : ConnInv(x.conn) /\ x.conn.delete_me = destroyed}

LEMMA WritesRange ==
  ASSUME NEW n \in Nat, NEW someone, NEW room, NEW w \in Writes(n, someone, room)
  PROVE  w \in {-1} \cup 0..n
BY DEF Writes

(* Bytes that follow on what was written.                                   *)
LEMMA WrittenGrows ==
  ASSUME NEW c, ConnInv(c), NEW w \in Nat
  PROVE  /\ c.written \o Bytes(Len(c.written) + 1, w) \in Seq(Nat)
         /\ Len(c.written \o Bytes(Len(c.written) + 1, w)) = Len(c.written) + w
         /\ c.written \o Bytes(Len(c.written) + 1, w) = Bytes(1, Len(c.written) + w)
<1> DEFINE a == Len(c.written)
<1>1. a \in Nat /\ c.written = Bytes(0 + 1, a) /\ 0 + a = a /\ 0 + 1 = 1
  BY LenProperties DEF ConnInv, ConnRecord
<1> HIDE DEF a
<1>2. Bytes(0 + 1, a) \o Bytes((0 + a) + 1, w) = Bytes(0 + 1, a + w)
  BY <1>1, BytesFollow
<1>3. Bytes(0 + 1, a + w) \in Seq(Nat) /\ Len(Bytes(0 + 1, a + w)) = a + w
  <2>1. a + w \in Nat
    BY <1>1
  <2> QED
    BY <2>1, BytesAre
<1> QED
  BY <1>1, <1>2, <1>3 DEF a

LEMMA ConnTypes ==
  ASSUME NEW c, ConnInv(c)
  PROVE  /\ c \in ConnRecord /\ Chained(c.out_queue) /\ c.acked \in Nat /\ c.received \in Nat
         /\ c.out_queue \in Seq(Chunk) /\ c.written \in Seq(Nat) /\ c.waiting \in Seq(Nat)
         /\ {c.wrote_err, c.delete_me, c.read_eof} \subseteq BOOLEAN
         /\ Len(c.written) \in Nat /\ Span(c.out_queue) \in Nat /\ Queued(c) = Span(c.out_queue)
<1>1. c \in ConnRecord /\ Chained(c.out_queue)
  BY DEF ConnInv
<1>2. Span(c.out_queue) \in Nat /\ Queued(c) = Span(c.out_queue)
  BY <1>1, SpanIsNat, QueuedIsSpan
<1>3. c.written \in Seq(Nat)
  BY <1>1 DEF ConnRecord
<1>4. Len(c.written) \in Nat
  BY <1>3, LenProperties
<1> QED
  BY <1>1, <1>2, <1>3, <1>4 DEF ConnRecord

(* The queue once conn_output has written w of len bytes.                   *)
Longer(c, w, len) ==
  IF len - w = 0 THEN c.out_queue
  ELSE Append(c.out_queue, [first |-> (c.acked + 1) + w, size |-> len - w, used |-> 0])

LEMMA LongerFollows ==
  ASSUME NEW c, ConnInv(c), ~c.wrote_err, NEW len \in Nat, NEW w \in 0..len,
         c.out_queue # << >> => w = 0
  PROVE  /\ Chained(Longer(c, w, len))
         /\ Span(Longer(c, w, len)) = Span(c.out_queue) + (len - w)
         /\ Longer(c, w, len) # << >> =>
              From(Longer(c, w, len)[1]) = (Len(c.written) + w) + 1
<1> DEFINE chunk == [first |-> (c.acked + 1) + w, size |-> len - w, used |-> 0]
           old == c.out_queue
           queue == Longer(c, w, len)
           a == Len(c.written)
<1>1. /\ Chained(old) /\ c.acked \in Nat /\ a \in Nat /\ Span(old) \in Nat
      /\ a + Span(old) = c.acked /\ w \in Nat /\ len - w \in Nat
      /\ old # << >> => w = 0 /\ From(old[1]) = a + 1
  BY ConnTypes DEF ConnInv
<1>2. queue = IF len - w = 0 THEN old ELSE Append(old, chunk)
  BY DEF Longer
<1> HIDE DEF old, queue, a
<1>3. CASE len - w = 0
  <2>1. queue = old
    BY <1>2, <1>3
  <2>2. queue # << >> => From(queue[1]) = (a + w) + 1
    BY <1>1, <2>1
  <2>3. Span(queue) = Span(old) + (len - w)
    BY <1>1, <1>3, <2>1
  <2> QED
    BY <1>1, <2>1, <2>2, <2>3 DEF queue, old, a
<1>4. CASE len - w # 0
  <2>1. /\ chunk \in Chunk /\ chunk.used < chunk.size /\ Left(chunk) = len - w
        /\ From(chunk) = (c.acked + 1) + w
    BY <1>1, <1>4 DEF Chunk, Left, From
  <2>2. queue = Append(old, chunk)
    BY <1>2, <1>4
  <2> HIDE DEF chunk
  <2>3. ASSUME old # << >> PROVE Until(old[Len(old)]) = From(chunk)
    <3>1. /\ Until(old[Len(old)]) \in Nat /\ From(old[1]) \in Nat
          /\ Span(old) = Until(old[Len(old)]) - From(old[1])
      BY <1>1, <2>3, QueueEnds
    <3>2. w = 0 /\ From(old[1]) = a + 1 /\ From(chunk) = (c.acked + 1) + w
      BY <1>1, <2>1, <2>3
    <3> QED
      BY <1>1, <3>1, <3>2
  <2>4. /\ Chained(queue) /\ Span(queue) = Span(old) + Left(chunk)
        /\ From(queue[1]) = IF old = << >> THEN From(chunk) ELSE From(old[1])
    BY <1>1, <2>1, <2>2, <2>3, ChainAppend
  <2>5. From(queue[1]) = (a + w) + 1
    <3>1. CASE old = << >>
      <4>1. Span(old) = 0
        BY <3>1, EmptyQueue
      <4>2. c.acked = a
        BY <1>1, <4>1
      <4> QED
        BY <1>1, <2>1, <2>4, <3>1, <4>2
    <3>2. CASE old # << >>
      BY <1>1, <2>4, <3>2
    <3> QED
      BY <3>1, <3>2
  <2> QED
    BY <2>1, <2>4, <2>5 DEF queue, old, a
<1> QED
  BY <1>3, <1>4

(* The connection once the first waiting segment is output.                 *)
Served(c, queue, bytes, err) ==
  [c EXCEPT !.out_queue = queue, !.written = bytes, !.wrote_err = err,
            !.acked = @ + Head(c.waiting), !.waiting = Tail(@)]

LEMMA ServedIs ==
  ASSUME NEW c \in ConnRecord, c.waiting # << >>, NEW queue \in Seq(Chunk),
         NEW bytes \in Seq(Nat), NEW err \in BOOLEAN
  PROVE  /\ Served(c, queue, bytes, err) \in ConnRecord
         /\ Served(c, queue, bytes, err).out_queue = queue
         /\ Served(c, queue, bytes, err).written = bytes
         /\ Served(c, queue, bytes, err).wrote_err = err
         /\ Served(c, queue, bytes, err).acked = c.acked + Head(c.waiting)
         /\ Served(c, queue, bytes, err).waiting = Tail(c.waiting)
         /\ Served(c, queue, bytes, err).received = c.received
         /\ Served(c, queue, bytes, err).delete_me = c.delete_me
<1> DEFINE len == Head(c.waiting)
           rest == Tail(c.waiting)
<1>1. c.waiting \in Seq(Nat)
  BY DEF ConnRecord
<1>2. len \in Nat /\ rest \in Seq(Nat)
  BY <1>1, HeadTailProperties
<1>3. Served(c, queue, bytes, err) =
        [c EXCEPT !.out_queue = queue, !.written = bytes, !.wrote_err = err,
                  !.acked = @ + len, !.waiting = rest]
  BY DEF Served
<1> HIDE DEF len, rest
<1>4. c.acked + len \in Nat
  BY <1>2 DEF ConnRecord
<1>5. Served(c, queue, bytes, err) \in ConnRecord
  BY <1>2, <1>3, <1>4 DEF ConnRecord
<1> QED
  BY <1>3, <1>5 DEF ConnRecord, len, rest

(* One waiting segment is output and acknowledged.                          *)
LEMMA OutputStep ==
  ASSUME NEW destroyed, NEW x \in Outcomes(destroyed), x.conn.waiting # << >>,
         ~x.conn.wrote_err, NEW w \in {-1} \cup 0..Head(x.conn.waiting),
         x.conn.out_queue # << >> => w \in {0},
         Span(x.conn.out_queue) + Head(x.conn.waiting) <= BufSpace
  PROVE  [Output(x, Head(x.conn.waiting), w) EXCEPT
            !.conn.acked = @ + Head(x.conn.waiting), !.conn.waiting = Tail(@)]
         \in Outcomes(destroyed)
<1> DEFINE c == x.conn
           len == Head(c.waiting)
           z == [Output(x, len, w) EXCEPT !.conn.acked = @ + len, !.conn.waiting = Tail(@)]
           C == [conn : ConnRecord, pollout : BOOLEAN, room : BOOLEAN, outputted : BOOLEAN,
                 stop : BOOLEAN]
<1>1. x \in C /\ ConnInv(c) /\ c.delete_me = destroyed
  BY DEF Outcomes
<1>2. /\ c \in ConnRecord /\ Chained(c.out_queue) /\ c.acked \in Nat /\ c.received \in Nat
      /\ c.out_queue \in Seq(Chunk)
      /\ c.written \in Seq(Nat) /\ c.waiting \in Seq(Nat) /\ Len(c.written) \in Nat
      /\ Span(c.out_queue) \in Nat
  BY <1>1, ConnTypes
<1>3. len \in Nat /\ Tail(c.waiting) \in Seq(Nat) /\ Len(Tail(c.waiting)) = Len(c.waiting) - 1
      /\ Len(c.waiting) \in Nat
  BY <1>2, HeadTailProperties, LenProperties
<1>4. /\ c.written = Bytes(1, Len(c.written)) /\ Len(c.waiting) <= c.received
      /\ Span(c.out_queue) <= BufSpace
      /\ c.out_queue # << >> => From(c.out_queue[1]) = Len(c.written) + 1
      /\ ~c.wrote_err => Len(c.written) + Span(c.out_queue) = c.acked
  BY <1>1 DEF ConnInv
<1>5. /\ c.waiting # << >> /\ len = Head(c.waiting) /\ w \in {-1} \cup 0..len
      /\ (c.out_queue # << >> => w = 0)
      /\ ~c.wrote_err /\ Span(c.out_queue) + len <= BufSpace
  OBVIOUS
<1>6. CASE w = -1
  <2> DEFINE c2 == Served(c, c.out_queue, c.written, TRUE)
  <2>1. z = [x EXCEPT !.conn = c2]
    BY <1>1, <1>2, <1>6, ZenonT(60) DEF Output, ConnRecord, Served
  <2>2. /\ c2 \in ConnRecord /\ c2.out_queue = c.out_queue /\ c2.written = c.written
        /\ c2.wrote_err = TRUE /\ c2.waiting = Tail(c.waiting) /\ c2.received = c.received
        /\ c2.delete_me = c.delete_me
    <3> HIDE DEF c
    <3>1. c \in ConnRecord /\ c.waiting # << >> /\ c.out_queue \in Seq(Chunk)
          /\ c.written \in Seq(Nat) /\ TRUE \in BOOLEAN
      BY <1>2, <1>5
    <3>2. \A err \in BOOLEAN : LET d == Served(c, c.out_queue, c.written, err) IN
             /\ d \in ConnRecord /\ d.out_queue = c.out_queue /\ d.written = c.written
             /\ d.wrote_err = err /\ d.waiting = Tail(c.waiting) /\ d.received = c.received
             /\ d.delete_me = c.delete_me
      BY <3>1, ServedIs
    <3> QED
      BY <3>1, <3>2, Zenon
  <2> HIDE DEF c2, z, c
  <2>3. Len(c2.waiting) <= c2.received
    BY <1>2, <1>3, <1>4, <2>2
  <2>4. ConnInv(c2)
    BY <1>2, <1>4, <2>2, <2>3 DEF ConnInv
  <2>5. z \in C /\ z.conn = c2
    BY <1>1, <2>1, <2>2
  <2>6. z \in Outcomes(destroyed)
    BY <1>1, <2>2, <2>4, <2>5 DEF Outcomes
  <2> QED
    BY <2>6 DEF z, c
<1>7. CASE w # -1
  <2>1. w \in 0..len /\ w \in Nat /\ (c.out_queue # << >> => w = 0)
    BY <1>3, <1>5, <1>7
  <2> DEFINE queue == Longer(c, w, len)
             bytes == c.written \o Bytes(c.acked + 1, w)
             c2 == Served(c, queue, bytes, c.wrote_err)
             p2 == x.pollout \/ queue # << >>
  <2>2. /\ Chained(queue) /\ Span(queue) = Span(c.out_queue) + (len - w)
        /\ queue # << >> => From(queue[1]) = (Len(c.written) + w) + 1
    <3> HIDE DEF len, c
    <3> QED
      BY <1>1, <1>3, <1>5, <2>1, LongerFollows
  <2>3. /\ bytes \in Seq(Nat) /\ Len(bytes) = Len(c.written) + w
        /\ bytes = Bytes(1, Len(c.written) + w)
    <3>1. bytes = c.written \o Bytes(Len(c.written) + 1, w)
      <4>1. CASE c.out_queue = << >>
        <5>1. c.acked = Len(c.written)
          BY <1>2, <1>4, <4>1, EmptyQueue
        <5> QED
          BY <5>1
      <4>2. CASE c.out_queue # << >>
        <5>1. w = 0
          BY <2>1, <4>2
        <5>2. Bytes(c.acked + 1, 0) = << >> /\ Bytes(Len(c.written) + 1, 0) = << >>
          <6>1. /\ Bytes(c.acked + 1, 0) \in Seq(Nat) /\ Len(Bytes(c.acked + 1, 0)) = 0
                /\ Bytes(Len(c.written) + 1, 0) \in Seq(Nat)
                /\ Len(Bytes(Len(c.written) + 1, 0)) = 0
            BY <1>2, BytesAre
          <6> QED
            BY <6>1, EmptySeq
        <5> QED
          BY <5>1, <5>2
      <4> QED
        BY <4>1, <4>2
    <3> QED
      BY <1>1, <2>1, <3>1, WrittenGrows
  <2>4. z = [x EXCEPT !.conn = c2, !.pollout = p2]
    <3>1. (c.acked + 1) + w = c.acked + 1 + w
      OBVIOUS
    <3>2. Output(x, len, w) = [x EXCEPT !.conn.written = bytes, !.conn.out_queue = queue,
                                        !.pollout = p2]
      BY <1>1, <1>2, <1>7, <3>1 DEF Output, Enqueue, ConnRecord, Longer
    <3> DEFINE o == Output(x, len, w)
               c1 == [c EXCEPT !.written = bytes, !.out_queue = queue]
    <3>3. o = [x EXCEPT !.conn = c1, !.pollout = p2]
      BY <1>1, <1>2, <3>2
    <3>4. z = [o EXCEPT !.conn = [o.conn EXCEPT !.acked = @ + len, !.waiting = Tail(@)]]
      OBVIOUS
    <3> HIDE DEF o, p2, queue, bytes
    <3>5. o.conn = c1 /\ c1.acked = c.acked /\ c1.waiting = c.waiting
      BY <1>1, <1>2, <3>3 DEF ConnRecord
    <3>6. [c1 EXCEPT !.acked = @ + len, !.waiting = Tail(@)] = c2
      BY <1>2, <3>5 DEF ConnRecord, Served
    <3>7. z = [o EXCEPT !.conn = c2]
      BY <3>4, <3>5, <3>6
    <3> HIDE DEF c1, c2, z
    <3> QED
      BY <1>1, <3>3, <3>7
  <2>5. queue \in Seq(Chunk) /\ c.wrote_err \in BOOLEAN
    BY <1>2, <2>2 DEF Chained, ConnRecord
  <2> HIDE DEF queue, bytes
  <2>6. /\ c2 \in ConnRecord /\ c2.out_queue = queue /\ c2.written = bytes
        /\ c2.wrote_err = c.wrote_err /\ c2.waiting = Tail(c.waiting)
        /\ c2.received = c.received /\ c2.delete_me = c.delete_me /\ c2.acked = c.acked + len
    <3> HIDE DEF c
    <3>1. c \in ConnRecord /\ c.waiting # << >> /\ queue \in Seq(Chunk)
          /\ bytes \in Seq(Nat) /\ c.wrote_err \in BOOLEAN
      BY <1>2, <1>5, <2>3, <2>5
    <3> QED
      BY <3>1, ServedIs
  <2> HIDE DEF c2, len, z, c
  <2>7. Len(c2.waiting) <= c2.received
    BY <1>2, <1>3, <1>4, <2>6, SMTT(30)
  <2>8. Span(c2.out_queue) <= BufSpace
    <3>1. Span(c2.out_queue) = Span(c.out_queue) + (len - w)
      BY <2>2, <2>6
    <3>2. Span(c.out_queue) + len <= BufSpace /\ BufSpace \in Nat /\ Span(c.out_queue) \in Nat
      BY <1>2, <1>5, OutputAssumption
    <3> QED
      BY <1>3, <2>1, <3>1, <3>2
  <2>9. Len(c2.written) + Span(c2.out_queue) = c2.acked
    <3>1. Span(c2.out_queue) = Span(c.out_queue) + (len - w) /\ Span(c.out_queue) \in Nat
      BY <1>2, <2>2, <2>6
    <3>2. Len(c2.written) = Len(c.written) + w /\ Len(c.written) \in Nat
      BY <1>2, <2>3, <2>6
    <3>3. c2.acked = c.acked + len /\ Len(c.written) + Span(c.out_queue) = c.acked
      BY <1>4, <1>5, <2>6
    <3> QED
      BY <1>3, <2>1, <3>1, <3>2, <3>3
  <2>10. ConnInv(c2)
    BY <2>2, <2>3, <2>6, <2>7, <2>8, <2>9 DEF ConnInv
  <2>11. z \in C /\ z.conn = c2
    BY <1>1, <2>4, <2>6
  <2>12. z \in Outcomes(destroyed)
    BY <1>1, <2>6, <2>10, <2>11 DEF Outcomes
  <2> QED
    BY <2>12 DEF z, c, len
<1> QED
  BY <1>5, <1>6, <1>7

(* A segment refused after a write error is acknowledged all the same.      *)
LEMMA RefusedStep ==
  ASSUME NEW destroyed, NEW x \in Outcomes(destroyed), x.conn.waiting # << >>, x.conn.wrote_err
  PROVE  [x EXCEPT !.conn.acked = @ + Head(x.conn.waiting), !.conn.waiting = Tail(@)]
         \in Outcomes(destroyed)
<1> DEFINE c == x.conn
           c2 == Served(c, c.out_queue, c.written, c.wrote_err)
           z == [x EXCEPT !.conn.acked = @ + Head(x.conn.waiting), !.conn.waiting = Tail(@)]
           C == [conn : ConnRecord, pollout : BOOLEAN, room : BOOLEAN, outputted : BOOLEAN,
                 stop : BOOLEAN]
<1>1. x \in C /\ ConnInv(c) /\ c.delete_me = destroyed /\ c.waiting # << >> /\ c.wrote_err
  BY DEF Outcomes
<1>2. /\ c \in ConnRecord /\ c.waiting \in Seq(Nat) /\ c.received \in Nat
      /\ c.out_queue \in Seq(Chunk) /\ c.written \in Seq(Nat) /\ c.wrote_err \in BOOLEAN
  BY <1>1, ConnTypes
<1>3. z = [x EXCEPT !.conn = c2]
  BY <1>1, <1>2 DEF ConnRecord, Served
<1> HIDE DEF c, z
<1>4. /\ c2 \in ConnRecord /\ c2.out_queue = c.out_queue /\ c2.written = c.written
      /\ c2.wrote_err = c.wrote_err /\ c2.waiting = Tail(c.waiting)
      /\ c2.received = c.received /\ c2.delete_me = c.delete_me
  <2>1. c \in ConnRecord /\ c.waiting # << >> /\ c.out_queue \in Seq(Chunk)
        /\ c.written \in Seq(Nat) /\ c.wrote_err \in BOOLEAN
    BY <1>1, <1>2
  <2> QED
    BY <2>1, ServedIs
<1>5. Len(Tail(c.waiting)) = Len(c.waiting) - 1 /\ Len(c.waiting) \in Nat
  BY <1>1, <1>2, HeadTailProperties, LenProperties
<1> HIDE DEF c2
<1>6. Len(c.waiting) <= c.received
  BY <1>1 DEF ConnInv
<1>7. Len(c2.waiting) <= c2.received
  BY <1>2, <1>4, <1>5, <1>6
<1>8. ConnInv(c2)
  BY <1>1, <1>4, <1>7 DEF ConnInv
<1>9. z \in C /\ z.conn = c2
  BY <1>1, <1>3, <1>4
<1> QED
  BY <1>1, <1>4, <1>8, <1>9 DEF Outcomes, z, c

(* conn_bufspace and conn_output, for one segment.                          *)
LEMMA OutputNextStays ==
  ASSUME NEW destroyed, NEW x \in Outcomes(destroyed), NEW someone, NEW z \in OutputNext(x, someone)
  PROVE  z \in Outcomes(destroyed)
<1> DEFINE c == x.conn
           len == Head(c.waiting)
           Ends(y) == [y EXCEPT !.conn.acked = @ + Head(c.waiting), !.conn.waiting = Tail(@)]
<1>1. CASE c.waiting = << >> \/ conn_bufspace(c) < len
  BY <1>1 DEF OutputNext
<1>2. CASE ~(c.waiting = << >> \/ conn_bufspace(c) < len)
  <2>0. z \in {Ends(y) : y \in conn_output(x, len, someone)}
    BY <1>2 DEF OutputNext
  <2>1. PICK y \in conn_output(x, len, someone) : z = Ends(y)
    BY <2>0
  <2>2. ConnInv(c)
    BY DEF Outcomes
  <2>3. c.waiting \in Seq(Nat) /\ c.waiting # << >>
    BY <1>2, <2>2, ConnTypes
  <2>4. len \in Nat
    BY <2>3, HeadTailProperties
  <2>5. CASE c.wrote_err
    <3>1. y = x
      BY <2>1, <2>5 DEF conn_output
    <3>2. z = [x EXCEPT !.conn.acked = @ + Head(x.conn.waiting), !.conn.waiting = Tail(@)]
      BY <2>1, <3>1
    <3> QED
      BY <2>3, <2>5, <3>2, RefusedStep
  <2>6. CASE ~c.wrote_err
    <3>1. y \in {Output(x, len, w) :
                   w \in IF c.out_queue = << >> THEN Writes(len, someone, FALSE) ELSE {0}}
      BY <2>1, <2>6 DEF conn_output
    <3>2. PICK w \in IF c.out_queue = << >> THEN Writes(len, someone, FALSE) ELSE {0} :
            y = Output(x, len, w)
      BY <3>1
    <3>3. w \in {-1} \cup 0..len
      <4>1. CASE c.out_queue = << >>
        <5>1. w \in Writes(len, someone, FALSE)
          BY <3>2, <4>1
        <5> HIDE DEF len
        <5> QED
          BY <2>4, <5>1, WritesRange
      <4>2. CASE c.out_queue # << >>
        BY <2>4, <3>2, <4>2
      <4> QED
        BY <4>1, <4>2
    <3>4. c.out_queue # << >> => w \in {0}
      BY <3>2
    <3>5. Queued(c) = Span(c.out_queue) /\ Span(c.out_queue) \in Nat
      BY <2>2, ConnTypes
    <3>6. Span(c.out_queue) <= BufSpace /\ BufSpace \in Nat
      BY <2>2, OutputAssumption DEF ConnInv
    <3>7. ~(conn_bufspace(c) < len)
      BY <1>2
    <3>8. conn_bufspace(c) = BufSpace - Span(c.out_queue)
      BY <3>5, <3>6 DEF conn_bufspace
    <3> HIDE DEF c
    <3>9. Span(c.out_queue) + len <= BufSpace
      BY <2>4, <3>5, <3>6, <3>7, <3>8, SMTT(30)
    <3>10. [Output(x, Head(x.conn.waiting), w) EXCEPT
              !.conn.acked = @ + Head(x.conn.waiting), !.conn.waiting = Tail(@)]
           \in Outcomes(destroyed)
      BY <2>3, <2>6, <3>3, <3>4, <3>9, OutputStep, Zenon DEF c
    <3> QED
      BY <2>1, <3>2, <3>10 DEF c
  <2> QED
    BY <2>5, <2>6
<1> QED
  BY <1>1, <1>2

(* ctcp_output, for all the waiting segments.                               *)
LEMMA OutputStays ==
  ASSUME NEW destroyed, NEW x \in Outcomes(destroyed), NEW someone
  PROVE  ctcp_output(x, someone) \subseteq Outcomes(destroyed)
<1> DEFINE O == Outcomes(destroyed)
           n == Len(x.conn.waiting)
           Does(g) == g = [i \in 0..n |-> IF i = 0 THEN {x}
                             ELSE UNION {OutputNext(y, someone) : y \in g[i - 1]}]
           h == [p \in (1..n) \X SUBSET O |-> UNION {OutputNext(y, someone) : y \in p[2]}]
           s == CHOOSE g : Does(g)
<1>1. ConnInv(x.conn)
  BY DEF Outcomes
<1>2. n \in Nat
  <2>1. x.conn.waiting \in Seq(Nat)
    BY <1>1, ConnTypes
  <2> QED
    BY <2>1, LenProperties
<1>3. \A X \in SUBSET O : UNION {OutputNext(y, someone) : y \in X} \in SUBSET O
  BY OutputNextStays
<1>4. ctcp_output(x, someone) = s[n]
  BY DEF ctcp_output
<1>5. {x} \in SUBSET O
  OBVIOUS
<1> HIDE DEF O, n
<1>6. h \in [(1..n) \X SUBSET O -> SUBSET O]
  BY <1>3
<1>7. \A i \in 1..n, X \in SUBSET O : h[<< i, X >>] = UNION {OutputNext(y, someone) : y \in X}
  OBVIOUS
<1> HIDE DEF h
<1>8. PICK g : Run(g, h, {x}, n, SUBSET O)
  BY <1>2, <1>5, <1>6, Iterates DEF Steps
<1>9. \A i \in 0..n : i # 0 => i \in 1..n /\ i - 1 \in 0..n
  BY <1>2
<1>10. Does(g)
  <2>1. \A i \in 0..n : g[i] = IF i = 0 THEN {x}
                               ELSE UNION {OutputNext(y, someone) : y \in g[i - 1]}
    <3> TAKE i \in 0..n
    <3>1. CASE i = 0
      BY <1>8, <3>1 DEF Run
    <3>2. CASE i # 0
      <4>1. i \in 1..n /\ i - 1 \in 0..n
        BY <1>9, <3>2
      <4>2. g[i] = h[<< i, g[i - 1] >>] /\ g[i - 1] \in SUBSET O
        BY <1>8, <4>1 DEF Run
      <4> QED
        BY <1>7, <3>2, <4>1, <4>2
    <3> QED
      BY <3>1, <3>2
  <2> QED
    BY <1>8, <2>1 DEF Run
<1>11. Does(s)
  BY <1>10
<1> HIDE DEF s
<1> DEFINE G == {i \in 0..n : s[i] \in SUBSET O}
<1>12. 0 \in G
  BY <1>2, <1>5, <1>11
<1>13. ASSUME NEW i \in 1..n, i - 1 \in G PROVE i \in G
  <2>1. i \in 0..n /\ i # 0
    BY <1>2
  <2>2. s[i] = UNION {OutputNext(y, someone) : y \in s[i - 1]}
    BY <1>11, <2>1
  <2> QED
    BY <1>3, <1>13, <2>1, <2>2
<1> HIDE DEF G
<1>14. \A i \in 0..n : i \in G
  BY <1>2, <1>12, <1>13, UpTo
<1>15. n \in 0..n
  BY <1>2
<1> QED
  BY <1>4, <1>14, <1>15 DEF G, O

(* STDOUT takes w bytes of the queue, and nothing else changes.             *)
Takes(c, w, queue) ==
  [c EXCEPT !.written = @ \o Bytes(From(c.out_queue[1]), w), !.out_queue = queue]

LEMMA TakenStays ==
  ASSUME NEW c, ConnInv(c), NEW w \in Nat, NEW queue, Chained(queue),
         Span(queue) = Span(c.out_queue) - w, c.out_queue # << >>,
         queue # << >> => From(queue[1]) = From(c.out_queue[1]) + w
  PROVE  ConnInv(Takes(c, w, queue)) /\ Takes(c, w, queue).delete_me = c.delete_me
<1> DEFINE d == Takes(c, w, queue)
           bytes == c.written \o Bytes(From(c.out_queue[1]), w)
           a == Len(c.written)
<1>1. /\ c \in ConnRecord /\ a \in Nat /\ Span(c.out_queue) \in Nat /\ c.acked \in Nat
      /\ BufSpace \in Nat
  BY ConnTypes, OutputAssumption
<1>2. /\ From(c.out_queue[1]) = a + 1 /\ Span(c.out_queue) <= BufSpace
      /\ ~c.wrote_err => a + Span(c.out_queue) = c.acked
      /\ Len(c.waiting) <= c.received
  BY DEF ConnInv
<1>3. bytes \in Seq(Nat) /\ Len(bytes) = a + w /\ bytes = Bytes(1, a + w)
  <2>1. bytes = c.written \o Bytes(Len(c.written) + 1, w)
    BY <1>2
  <2> QED
    BY <2>1, WrittenGrows
<1>4. d = [c EXCEPT !.written = bytes, !.out_queue = queue]
  BY DEF Takes
<1>5. queue \in Seq(Chunk)
  BY DEF Chained
<1> HIDE DEF bytes, d
<1>6. /\ d \in ConnRecord /\ d.out_queue = queue /\ d.written = bytes
      /\ d.wrote_err = c.wrote_err /\ d.waiting = c.waiting /\ d.acked = c.acked
      /\ d.received = c.received /\ d.delete_me = c.delete_me
  BY <1>1, <1>3, <1>4, <1>5 DEF ConnRecord
<1>7. Span(queue) = Span(c.out_queue) - w
  OBVIOUS
<1>8. Span(queue) <= BufSpace
  BY <1>1, <1>2, <1>7
<1>9. ~d.wrote_err => Len(d.written) + Span(d.out_queue) = d.acked
  <2> SUFFICES ASSUME ~d.wrote_err PROVE Len(d.written) + Span(d.out_queue) = d.acked
    OBVIOUS
  <2>1. a + Span(c.out_queue) = c.acked
    BY <1>2, <1>6
  <2>2. Len(d.written) = a + w /\ Span(d.out_queue) = Span(c.out_queue) - w /\ d.acked = c.acked
    BY <1>3, <1>6, <1>7
  <2> DEFINE span == Span(c.out_queue)
  <2>3. span \in Nat /\ a \in Nat
    BY <1>1
  <2>4. (a + w) + (span - w) = a + span
    <3> HIDE DEF a, span
    <3> QED
      BY <2>3
  <2> QED
    BY <2>1, <2>2, <2>4
<1>10. queue # << >> => From(queue[1]) = (a + w) + 1
  BY <1>1, <1>2
<1>11. ConnInv(d)
  BY <1>2, <1>3, <1>6, <1>8, <1>9, <1>10 DEF ConnInv
<1> QED
  BY <1>6, <1>11 DEF d

(* One write of conn_drain.                                                 *)
LEMMA DrainNextStays ==
  ASSUME NEW destroyed, NEW x \in Outcomes(destroyed), NEW someone, NEW z \in DrainNext(x, someone)
  PROVE  z \in Outcomes(destroyed)
<1> DEFINE c == x.conn
           q == c.out_queue
           chunk == Head(q)
           C == [conn : ConnRecord, pollout : BOOLEAN, room : BOOLEAN, outputted : BOOLEAN,
                 stop : BOOLEAN]
<1>1. CASE x.stop \/ q = << >>
  BY <1>1 DEF DrainNext
<1>2. CASE ~(x.stop \/ q = << >>)
  <2>1. x \in C /\ ConnInv(c) /\ c.delete_me = destroyed /\ q # << >>
    BY <1>2 DEF Outcomes
  <2>2. c \in ConnRecord /\ Chained(q) /\ q \in Seq(Chunk)
    BY <2>1, ConnTypes
  <2>3. /\ 1 \in 1..Len(q) /\ chunk = q[1] /\ chunk \in Chunk /\ chunk.used < chunk.size
        /\ From(chunk) = chunk.first + chunk.used
    BY <2>1, <2>2, QueueEnds, ElementOfSeq DEF Chained, From
  <2>4. Left(chunk) \in Nat
    BY <2>3 DEF Left, Chunk
  <2>5. z \in {DrainChunk(x, w) : w \in Writes(Left(chunk), someone, x.room)}
    BY <1>2 DEF DrainNext
  <2>6. PICK w \in Writes(Left(chunk), someone, x.room) : z = DrainChunk(x, w)
    BY <2>5
  <2>7. w \in {-1} \cup 0..Left(chunk)
    <3> HIDE DEF chunk
    <3> QED
      BY <2>4, <2>6, WritesRange
  <2>8. CASE w = -1
    <3> DEFINE d == [c EXCEPT !.wrote_err = TRUE]
    <3>1. z = [x EXCEPT !.conn = d, !.stop = TRUE]
      BY <2>1, <2>6, <2>8 DEF DrainChunk
    <3>2. d \in ConnRecord
      BY <2>2 DEF ConnRecord
    <3>3. /\ d.out_queue = q /\ d.written = c.written /\ d.wrote_err
          /\ d.waiting = c.waiting /\ d.received = c.received /\ d.delete_me = c.delete_me
      BY <2>2 DEF ConnRecord
    <3> HIDE DEF d, c
    <3>4. ConnInv(d)
      BY <2>1, <3>2, <3>3 DEF ConnInv
    <3> QED
      BY <2>1, <3>1, <3>2, <3>3, <3>4 DEF Outcomes
  <2>9. CASE w = 0
    <3>1. z = [x EXCEPT !.stop = TRUE]
      BY <2>6, <2>9 DEF DrainChunk
    <3>2. z \in C /\ z.conn = c
      BY <2>1, <3>1
    <3> QED
      BY <2>1, <3>2 DEF Outcomes
  <2>10. CASE w # -1 /\ w # 0 /\ w < Left(chunk)
    <3> DEFINE queue == [q EXCEPT ![1].used = @ + w]
               d == Takes(c, w, queue)
    <3>1. w \in Nat /\ w < Left(q[1])
      BY <2>3, <2>4, <2>7, <2>10
    <3>2. /\ Chained(queue) /\ Span(queue) = Span(q) - w
          /\ From(queue[1]) = From(q[1]) + w
      BY <2>1, <2>2, <3>1, ChainUses
    <3>3. ConnInv(d) /\ d.delete_me = c.delete_me
      <4>1. /\ w \in Nat /\ Chained(queue) /\ Span(queue) = Span(c.out_queue) - w
            /\ c.out_queue # << >> /\ ConnInv(c)
            /\ queue # << >> => From(queue[1]) = From(c.out_queue[1]) + w
        BY <2>1, <3>1, <3>2, SMTT(30)
      <4> HIDE DEF c, queue
      <4> QED
        BY <4>1, TakenStays
    <3>4. z = [x EXCEPT !.room = FALSE, !.outputted = TRUE, !.conn = d, !.pollout = TRUE,
                        !.stop = TRUE]
      BY <2>1, <2>2, <2>3, <2>4, <2>6, <2>7, <2>10, ZenonT(60) DEF DrainChunk, ConnRecord, Takes
    <3> HIDE DEF d, c
    <3>5. d \in ConnRecord
      BY <3>3, ConnTypes
    <3>6. z \in C /\ z.conn = d
      BY <2>1, <3>4, <3>5
    <3> QED
      BY <2>1, <3>3, <3>6 DEF Outcomes
  <2>11. CASE w # -1 /\ w # 0 /\ ~(w < Left(chunk))
    <3> DEFINE queue == Tail(q)
               d == Takes(c, w, queue)
    <3>1. w \in Nat /\ w = Left(Head(q))
      BY <2>3, <2>4, <2>7, <2>11
    <3>2. /\ Chained(queue) /\ Span(queue) = Span(q) - w
          /\ queue # << >> => From(queue[1]) = From(q[1]) + w
      BY <2>1, <2>2, <2>3, <3>1, ChainTail
    <3>3. ConnInv(d) /\ d.delete_me = c.delete_me
      <4>1. /\ w \in Nat /\ Chained(queue) /\ Span(queue) = Span(c.out_queue) - w
            /\ c.out_queue # << >> /\ ConnInv(c)
            /\ queue # << >> => From(queue[1]) = From(c.out_queue[1]) + w
        BY <2>1, <3>1, <3>2
      <4> HIDE DEF c, queue
      <4> QED
        BY <4>1, TakenStays
    <3>4. z = [x EXCEPT !.room = FALSE, !.outputted = TRUE, !.conn = d]
      BY <2>1, <2>2, <2>3, <2>4, <2>6, <2>7, <2>11 DEF DrainChunk, ConnRecord, Takes
    <3> HIDE DEF d, c
    <3>5. d \in ConnRecord
      BY <3>3, ConnTypes
    <3>6. z \in C /\ z.conn = d
      BY <2>1, <3>4, <3>5
    <3> QED
      BY <2>1, <3>3, <3>6 DEF Outcomes
  <2> QED
    BY <2>8, <2>9, <2>10, <2>11
<1> QED
  BY <1>1, <1>2

(* All the writes of conn_drain.                                            *)
LEMMA DrainedStays ==
  ASSUME NEW destroyed, NEW x \in Outcomes(destroyed), NEW someone
  PROVE  Drained(x, someone) \subseteq Outcomes(destroyed)
<1> DEFINE O == Outcomes(destroyed)
           n == Len(x.conn.out_queue)
           Does(g) == g = [i \in 0..n |-> IF i = 0 THEN {x}
                             ELSE UNION {DrainNext(y, someone) : y \in g[i - 1]}]
           h == [p \in (1..n) \X SUBSET O |-> UNION {DrainNext(y, someone) : y \in p[2]}]
           s == CHOOSE g : Does(g)
<1>1. ConnInv(x.conn)
  BY DEF Outcomes
<1>2. n \in Nat
  <2>1. x.conn.out_queue \in Seq(Chunk)
    BY <1>1, ConnTypes
  <2> QED
    BY <2>1, LenProperties
<1>3. \A X \in SUBSET O : UNION {DrainNext(y, someone) : y \in X} \in SUBSET O
  BY DrainNextStays
<1>4. Drained(x, someone) = s[n]
  BY DEF Drained
<1>5. {x} \in SUBSET O
  OBVIOUS
<1> HIDE DEF O, n
<1>6. h \in [(1..n) \X SUBSET O -> SUBSET O]
  BY <1>3
<1>7. \A i \in 1..n, X \in SUBSET O : h[<< i, X >>] = UNION {DrainNext(y, someone) : y \in X}
  OBVIOUS
<1> HIDE DEF h
<1>8. PICK g : Run(g, h, {x}, n, SUBSET O)
  BY <1>2, <1>5, <1>6, Iterates DEF Steps
<1>9. \A i \in 0..n : i # 0 => i \in 1..n /\ i - 1 \in 0..n
  BY <1>2
<1>10. Does(g)
  <2>1. \A i \in 0..n : g[i] = IF i = 0 THEN {x}
                               ELSE UNION {DrainNext(y, someone) : y \in g[i - 1]}
    <3> TAKE i \in 0..n
    <3>1. CASE i = 0
      BY <1>8, <3>1 DEF Run
    <3>2. CASE i # 0
      <4>1. i \in 1..n /\ i - 1 \in 0..n
        BY <1>9, <3>2
      <4>2. g[i] = h[<< i, g[i - 1] >>] /\ g[i - 1] \in SUBSET O
        BY <1>8, <4>1 DEF Run
      <4> QED
        BY <1>7, <3>2, <4>1, <4>2
    <3> QED
      BY <3>1, <3>2
  <2> QED
    BY <1>8, <2>1 DEF Run
<1>11. Does(s)
  BY <1>10
<1> HIDE DEF s
<1> DEFINE G == {i \in 0..n : s[i] \in SUBSET O}
<1>12. 0 \in G
  BY <1>2, <1>5, <1>11
<1>13. ASSUME NEW i \in 1..n, i - 1 \in G PROVE i \in G
  <2>1. i \in 0..n /\ i # 0
    BY <1>2
  <2>2. s[i] = UNION {DrainNext(y, someone) : y \in s[i - 1]}
    BY <1>11, <2>1
  <2> QED
    BY <1>3, <1>13, <2>1, <2>2
<1> HIDE DEF G
<1>14. \A i \in 0..n : i \in G
  BY <1>2, <1>12, <1>13, UpTo
<1>15. n \in 0..n
  BY <1>2
<1> QED
  BY <1>4, <1>14, <1>15 DEF G, O

LEMMA DrainStays ==
  ASSUME NEW destroyed \in BOOLEAN, NEW x \in Outcomes(destroyed), NEW someone,
         NEW z \in conn_drain(x, someone)
  PROVE  z \in Outcomes(destroyed)
<1> DEFINE begun == [x EXCEPT !.pollout = FALSE, !.stop = x.conn.wrote_err]
<1>1. begun \in Outcomes(destroyed)
  <2>1. x.conn.wrote_err \in BOOLEAN
    BY DEF Outcomes, ConnRecord
  <2> QED
    BY <2>1 DEF Outcomes
<1>2. conn_drain(x, someone) =
        UNION {IF y.outputted /\ ~y.conn.delete_me THEN ctcp_output(y, someone) ELSE {y} :
                 y \in Drained(begun, someone)}
  BY DEF conn_drain
<1>3. PICK y \in Drained(begun, someone) :
        z \in IF y.outputted /\ ~y.conn.delete_me THEN ctcp_output(y, someone) ELSE {y}
  BY <1>2
<1>4. y \in Outcomes(destroyed)
  BY <1>1, <1>3, DrainedStays
<1>5. ctcp_output(y, someone) \subseteq Outcomes(destroyed)
  BY <1>4, OutputStays
<1> QED
  BY <1>3, <1>4, <1>5

(* What a pass over the connections comes to.                               *)
Passes ==
  {y \in [conns : [Clients -> ConnRecord], pollout : BOOLEAN, room : BOOLEAN] :
     \A p \in Clients : ConnInv(y.conns[p]) /\ y.conns[p].delete_me = conn[p].delete_me}

LEMMA DrainOneStays ==
  ASSUME OutputInv, NEW y \in Passes, NEW p \in Clients, NEW z \in DrainOne(y, p)
  PROVE  z \in Passes
<1> DEFINE c == y.conns[p]
           begun == Begun(c, y.pollout, y.room)
           destroyed == conn[p].delete_me
           P == [conns : [Clients -> ConnRecord], pollout : BOOLEAN, room : BOOLEAN]
<1>1. /\ y \in P
      /\ \A q \in Clients : ConnInv(y.conns[q]) /\ y.conns[q].delete_me = conn[q].delete_me
  BY DEF Passes
<1>2. destroyed \in BOOLEAN /\ ConnInv(c) /\ c.delete_me = destroyed /\ c \in ConnRecord
  BY <1>1 DEF OutputInv, ConnRecord
<1>3. begun \in Outcomes(destroyed)
  BY <1>1, <1>2 DEF Outcomes, Begun
<1>4. PICK u \in conn_drain(begun, reader) :
        z = [conns |-> [y.conns EXCEPT ![p] = u.conn], pollout |-> u.pollout, room |-> u.room]
  BY DEF DrainOne
<1>5. u \in Outcomes(destroyed)
  <2> HIDE DEF begun, destroyed
  <2> QED
    BY <1>2, <1>3, <1>4, DrainStays
<1>6. /\ u.conn \in ConnRecord /\ u.pollout \in BOOLEAN /\ u.room \in BOOLEAN
      /\ ConnInv(u.conn) /\ u.conn.delete_me = conn[p].delete_me
  BY <1>5 DEF Outcomes
<1>7. z \in P
  BY <1>1, <1>4, <1>6
<1>8. ASSUME NEW q \in Clients
      PROVE  ConnInv(z.conns[q]) /\ z.conns[q].delete_me = conn[q].delete_me
  <2>1. z.conns = [y.conns EXCEPT ![p] = u.conn] /\ y.conns \in [Clients -> ConnRecord]
    BY <1>1, <1>4
  <2>2. CASE q = p
    <3>1. z.conns[q] = u.conn
      BY <2>1, <2>2
    <3> QED
      BY <1>6, <2>2, <3>1
  <2>3. CASE q # p
    <3>1. z.conns[q] = y.conns[q]
      BY <2>1, <2>3
    <3> QED
      BY <1>1, <3>1
  <2> QED
    BY <2>2, <2>3
<1> QED
  BY <1>7, <1>8 DEF Passes

LEMMA DrainAllStays ==
  ASSUME OutputInv, connections \in Seq(Clients), pollout \in BOOLEAN
  PROVE  DrainAll \subseteq Passes
<1> DEFINE O == Passes
           n == Len(connections)
           x == [conns |-> conn, pollout |-> pollout, room |-> TRUE]
           Does(g) == g = [i \in 0..n |-> IF i = 0 THEN {x}
                             ELSE UNION {DrainOne(y, connections[i]) : y \in g[i - 1]}]
           h == [p \in (1..n) \X SUBSET O |->
                   UNION {DrainOne(y, connections[p[1]]) : y \in p[2]}]
           s == CHOOSE g : Does(g)
<1>1. x \in O
  BY DEF Passes, OutputInv
<1>2. n \in Nat /\ \A i \in 1..n : connections[i] \in Clients
  BY LenProperties, ElementOfSeq
<1>3. \A i \in 1..n, X \in SUBSET O :
        UNION {DrainOne(y, connections[i]) : y \in X} \in SUBSET O
  BY <1>2, DrainOneStays
<1>4. DrainAll = s[n]
  BY DEF DrainAll
<1>5. {x} \in SUBSET O
  BY <1>1
<1> HIDE DEF O, n, x
<1>6. h \in [(1..n) \X SUBSET O -> SUBSET O]
  BY <1>3
<1>7. \A i \in 1..n, X \in SUBSET O :
        h[<< i, X >>] = UNION {DrainOne(y, connections[i]) : y \in X}
  OBVIOUS
<1> HIDE DEF h
<1>8. PICK g : Run(g, h, {x}, n, SUBSET O)
  BY <1>2, <1>5, <1>6, Iterates DEF Steps
<1>9. \A i \in 0..n : i # 0 => i \in 1..n /\ i - 1 \in 0..n
  BY <1>2
<1>10. Does(g)
  <2>1. \A i \in 0..n : g[i] = IF i = 0 THEN {x}
                               ELSE UNION {DrainOne(y, connections[i]) : y \in g[i - 1]}
    <3> TAKE i \in 0..n
    <3>1. CASE i = 0
      BY <1>8, <3>1 DEF Run
    <3>2. CASE i # 0
      <4>1. i \in 1..n /\ i - 1 \in 0..n
        BY <1>9, <3>2
      <4>2. g[i] = h[<< i, g[i - 1] >>] /\ g[i - 1] \in SUBSET O
        BY <1>8, <4>1 DEF Run
      <4> QED
        BY <1>7, <3>2, <4>1, <4>2
    <3> QED
      BY <3>1, <3>2
  <2> QED
    BY <1>8, <2>1 DEF Run
<1>11. Does(s)
  BY <1>10
<1> HIDE DEF s
<1> DEFINE G == {i \in 0..n : s[i] \in SUBSET O}
<1>12. 0 \in G
  BY <1>2, <1>5, <1>11
<1>13. ASSUME NEW i \in 1..n, i - 1 \in G PROVE i \in G
  <2>1. i \in 0..n /\ i # 0
    BY <1>2
  <2>2. s[i] = UNION {DrainOne(y, connections[i]) : y \in s[i - 1]}
    BY <1>11, <2>1
  <2> QED
    BY <1>3, <1>13, <2>1, <2>2
<1> HIDE DEF G
<1>14. \A i \in 0..n : i \in G
  BY <1>2, <1>12, <1>13, UpTo
<1>15. n \in 0..n
  BY <1>2
<1> QED
  BY <1>4, <1>14, <1>15 DEF G, O

-----------------------------------------------------------------------------
(* The list of connections *)

Elements(list) == {list[i] : i \in 1..Len(list)}
Distinct(list) == \A i, j \in 1..Len(list) : list[i] = list[j] => i = j
(* Elements of a list, in the order they have in another one.               *)
Within(list, longer) ==
  \A i, j \in 1..Len(list) : i < j =>
    \E a, b \in 1..Len(longer) : a < b /\ longer[a] = list[i] /\ longer[b] = list[j]

LEMMA RemovedIs ==
  ASSUME NEW S, NEW list \in Seq(S), NEW m \in 1..Len(list)
  PROVE  /\ RemoveAt(list, m) \in Seq(S) /\ Len(RemoveAt(list, m)) = Len(list) - 1
         /\ \A i \in 1..(Len(list) - 1) :
              RemoveAt(list, m)[i] = IF i < m THEN list[i] ELSE list[i + 1]
<1> DEFINE n == Len(list)
           before == SubSeq(list, 1, m - 1)
           after == SubSeq(list, m + 1, n)
<1>1. n \in Nat /\ m \in Nat /\ m >= 1 /\ m <= n
  BY LenProperties
<1>2. /\ before \in Seq(S) /\ Len(before) = m - 1
      /\ \A i \in 1..(m - 1) : before[i] = list[i]
  <2>1. 1 \in Int /\ m - 1 \in Int /\ m - 1 <= n /\ \A i \in 1..(m - 1) : i \in 1..n
    BY <1>1
  <2>2. SubSeq(list, 1, m - 1) = [i \in 1..(m - 1) |-> list[i]]
    BY <1>1
  <2>3. \A i \in 1..(m - 1) : list[i] \in S
    BY <2>1, ElementOfSeq
  <2>4. m - 1 \in Nat
    BY <1>1
  <2> QED
    BY <2>2, <2>3, <2>4, IsASeq
<1>3. /\ after \in Seq(S) /\ Len(after) = n - m
      /\ \A i \in 1..(n - m) : after[i] = list[i + m]
  <2>1. \A i \in 1..(n - m) : i + m \in 1..n /\ (m + 1) + i - 1 = i + m
    BY <1>1
  <2>2. SubSeq(list, m + 1, n) = [i \in 1..(n - m) |-> list[i + m]]
    BY <1>1, <2>1
  <2>3. \A i \in 1..(n - m) : list[i + m] \in S
    BY <2>1, ElementOfSeq
  <2>4. n - m \in Nat
    BY <1>1
  <2> QED
    BY <2>2, <2>3, <2>4, IsASeq
<1>4. RemoveAt(list, m) = before \o after
  BY DEF RemoveAt
<1> HIDE DEF before, after, n
<1>5. before \o after \in Seq(S) /\ Len(before \o after) = n - 1
  <2>1. before \o after \in Seq(S) /\ Len(before \o after) = Len(before) + Len(after)
    BY <1>2, <1>3, ConcatProperties
  <2> QED
    BY <1>1, <1>2, <1>3, <2>1
<1>6. ASSUME NEW i \in 1..(n - 1)
      PROVE  (before \o after)[i] = IF i < m THEN list[i] ELSE list[i + 1]
  <2>1. i \in 1..(Len(before) + Len(after))
    BY <1>1, <1>2, <1>3
  <2>2. CASE i < m
    <3>1. i \in 1..(m - 1)
      BY <1>1, <2>2
    <3>2. (before \o after)[i] = before[i]
      BY <1>2, <1>3, <2>1, <3>1, ConcatProperties
    <3> QED
      BY <1>2, <2>2, <3>1, <3>2
  <2>3. CASE ~(i < m)
    <3>1. i - (m - 1) \in 1..(n - m) /\ (i - (m - 1)) + m = i + 1 /\ i > m - 1
      BY <1>1, <2>3
    <3>2. (before \o after)[i] = after[i - (m - 1)]
      BY <1>2, <1>3, <2>1, <3>1, ConcatProperties, SMTT(30)
    <3> QED
      BY <1>3, <2>3, <3>1, <3>2
  <2> QED
    BY <2>2, <2>3
<1> QED
  BY <1>4, <1>5, <1>6 DEF n

LEMMA WithinTransitive ==
  ASSUME NEW r, NEW s, NEW t, Within(r, s), Within(s, t)
  PROVE  Within(r, t)
<1> SUFFICES ASSUME NEW i \in 1..Len(r), NEW j \in 1..Len(r), i < j
             PROVE  \E a, b \in 1..Len(t) : a < b /\ t[a] = r[i] /\ t[b] = r[j]
  BY DEF Within
<1>1. PICK k \in 1..Len(s), l \in 1..Len(s) : k < l /\ s[k] = r[i] /\ s[l] = r[j]
  BY DEF Within
<1>2. PICK a \in 1..Len(t), b \in 1..Len(t) : a < b /\ t[a] = s[k] /\ t[b] = s[l]
  BY <1>1 DEF Within
<1> QED
  BY <1>1, <1>2

LEMMA WithinDistinct ==
  ASSUME NEW S, NEW list \in Seq(S), NEW longer, Distinct(longer), Within(list, longer)
  PROVE  Distinct(list)
<1>1. Len(list) \in Nat
  BY LenProperties
<1> SUFFICES ASSUME NEW i \in 1..Len(list), NEW j \in 1..Len(list), list[i] = list[j], i # j
             PROVE  FALSE
  BY DEF Distinct
<1>2. \A k, l \in 1..Len(list) : k < l => list[k] # list[l]
  <2> SUFFICES ASSUME NEW k \in 1..Len(list), NEW l \in 1..Len(list), k < l, list[k] = list[l]
               PROVE  FALSE
    OBVIOUS
  <2>1. PICK a, b \in 1..Len(longer) : a < b /\ longer[a] = list[k] /\ longer[b] = list[l]
    BY DEF Within
  <2>2. a = b
    BY <2>1 DEF Distinct
  <2> QED
    BY <2>1, <2>2
<1> QED
  BY <1>1, <1>2

LEMMA RemovedKeeps ==
  ASSUME NEW S, NEW list \in Seq(S), Distinct(list), NEW m \in 1..Len(list)
  PROVE  /\ RemoveAt(list, m) \in Seq(S)
         /\ Elements(RemoveAt(list, m)) = Elements(list) \ {list[m]}
         /\ Within(RemoveAt(list, m), list)
         /\ m # 1 => RemoveAt(list, m) # << >> /\ Head(RemoveAt(list, m)) = Head(list)
<1> DEFINE n == Len(list)
           rest == RemoveAt(list, m)
           at(i) == IF i < m THEN i ELSE i + 1
<1>1. n \in Nat /\ m \in 1..n /\ n = Len(list)
  BY LenProperties
<1>2. /\ rest \in Seq(S) /\ Len(rest) = n - 1
      /\ \A i \in 1..(n - 1) : rest[i] = IF i < m THEN list[i] ELSE list[i + 1]
  BY RemovedIs
<1> HIDE DEF n, rest
<1>3. \A i \in 1..(n - 1) : at(i) \in 1..n /\ at(i) # m /\ rest[i] = list[at(i)]
  BY <1>1, <1>2
<1>4. \A i, j \in 1..(n - 1) : i < j => at(i) < at(j)
  BY <1>1
<1> HIDE DEF at
<1>5. Within(rest, list)
  <2>1. Len(rest) = n - 1 /\ Len(list) = n
    BY <1>1, <1>2
  <2>2. ASSUME NEW i \in 1..Len(rest), NEW j \in 1..Len(rest), i < j
        PROVE  \E a, b \in 1..Len(list) : a < b /\ list[a] = rest[i] /\ list[b] = rest[j]
    <3>1. at(i) \in 1..Len(list) /\ at(j) \in 1..Len(list) /\ at(i) < at(j)
      BY <1>3, <1>4, <2>1, <2>2
    <3>2. list[at(i)] = rest[i] /\ list[at(j)] = rest[j]
      BY <1>3, <2>1
    <3> QED
      BY <3>1, <3>2
  <2> QED
    BY <2>2 DEF Within
<1>6. ASSUME NEW e \in Elements(rest) PROVE e \in Elements(list) \ {list[m]}
  <2>1. PICK i \in 1..(n - 1) : e = rest[i]
    BY <1>2 DEF Elements
  <2>2. e = list[at(i)] /\ at(i) \in 1..n /\ at(i) # m
    BY <1>3, <2>1
  <2>3. list[at(i)] # list[m]
    BY <1>1, <2>2 DEF Distinct, n
  <2> QED
    BY <2>2, <2>3 DEF Elements, n
<1>7. ASSUME NEW e \in Elements(list) \ {list[m]} PROVE e \in Elements(rest)
  <2>1. PICK k \in 1..n : e = list[k]
    BY DEF Elements, n
  <2>2. k # m
    BY <2>1
  <2>3. CASE k < m
    <3>1. k \in 1..(n - 1)
      BY <1>1, <2>3
    <3>2. rest[k] = list[k]
      BY <1>2, <2>3, <3>1
    <3> QED
      BY <1>2, <2>1, <3>1, <3>2 DEF Elements
  <2>4. CASE ~(k < m)
    <3>1. k - 1 \in 1..(n - 1) /\ ~(k - 1 < m) /\ (k - 1) + 1 = k
      BY <1>1, <2>2, <2>4
    <3>2. rest[k - 1] = list[k]
      BY <1>2, <3>1
    <3> QED
      BY <1>2, <2>1, <3>1, <3>2 DEF Elements
  <2> QED
    BY <2>3, <2>4
<1>8. ASSUME m # 1 PROVE rest # << >> /\ Head(rest) = Head(list)
  <2>1. 1 \in 1..(n - 1) /\ 1 < m
    BY <1>1, <1>8
  <2>2. rest[1] = list[1]
    BY <1>2, <2>1
  <2>3. rest # << >>
    BY <1>2, <2>1
  <2> QED
    BY <2>2, <2>3
<1>9. Elements(rest) = Elements(list) \ {list[m]}
  BY <1>6, <1>7
<1> QED
  BY <1>2, <1>5, <1>8, <1>9 DEF rest

(* conn_free of a listed connection other than the head.                    *)
LEMMA FreeOther ==
  ASSUME NEW S, NEW list \in Seq(S), Distinct(list), list # << >>,
         NEW p \in Elements(list), Head(list) # p
  PROVE  /\ conn_free(list, p) \in Seq(S)
         /\ Elements(conn_free(list, p)) = Elements(list) \ {p}
         /\ Within(conn_free(list, p), list)
         /\ conn_free(list, p) # << >> /\ Head(conn_free(list, p)) = Head(list)
<1> DEFINE m == CHOOSE i \in DOMAIN list : list[i] = p
<1>1. DOMAIN list = 1..Len(list)
  BY LenProperties
<1>2. \E i \in DOMAIN list : list[i] = p
  BY <1>1 DEF Elements
<1>3. m \in 1..Len(list) /\ list[m] = p
  BY <1>1, <1>2
<1>4. conn_free(list, p) = RemoveAt(list, m)
  BY DEF conn_free
<1> HIDE DEF m
<1>5. m # 1
  BY <1>3
<1> QED
  BY <1>3, <1>4, <1>5, RemovedKeeps

(* What delete_all_connections leaves in the list.                          *)
LEMMA RemainingIs ==
  ASSUME connections \in Seq(Clients), Distinct(connections), NEW doomed
  PROVE  /\ Remaining(doomed) \in Seq(Clients)
         /\ connections # << >> /\ Head(connections) \in doomed => Remaining(doomed) = << >>
         /\ connections = << >> \/ Head(connections) \notin doomed =>
              Elements(Remaining(doomed)) = Elements(connections) \ doomed
         /\ Within(Remaining(doomed), connections)
<1> DEFINE n == Len(connections)
           c == connections
           Lists == Seq(Clients)
           Deletes(g) == g = [i \in 0..n |->
                          IF i = 0 THEN c
                          ELSE IF c[i] \in doomed THEN conn_free(g[i - 1], c[i]) ELSE g[i - 1]]
           Step(i, list) == IF c[i] \in doomed THEN conn_free(list, c[i]) ELSE list
           Known(i, list) == list = << >> \/ Head(list) = c[i] \/ c[i] \in Elements(list)
           h == [q \in (1..n) \X Lists |-> IF Known(q[1], q[2]) THEN Step(q[1], q[2]) ELSE q[2]]
           Gone(k) == {e \in doomed : \E j \in 1..k : e = c[j]}
           Done(k, list) ==
             /\ list \in Lists /\ Distinct(list) /\ Within(list, c)
             /\ IF k > 0 /\ c[1] \in doomed THEN list = << >>
                ELSE /\ Elements(list) = Elements(c) \ Gone(k)
                     /\ n > 0 => list # << >> /\ Head(list) = c[1]
           s == CHOOSE g : Deletes(g)
<1>1. n \in Nat /\ DOMAIN c = 1..n /\ \A i \in 1..n : c[i] \in Clients
  BY LenProperties, ElementOfSeq
<1>2. Remaining(doomed) = s[n]
  BY DEF Remaining
<1>3. << >> \in Lists /\ Distinct(<< >>) /\ Within(<< >>, c) /\ \A e : ~(e \in Elements(<< >>))
  BY DEF Distinct, Within, Elements
<1>4. c \in Lists /\ Distinct(c) /\ Within(c, c) /\ n = Len(c)
  BY DEF Within
<1>5. n > 0 => c # << >> /\ Head(c) = c[1]
  BY EmptySeq
<1>6. n = 0 <=> c = << >>
  BY EmptySeq
<1> HIDE DEF n, c, s
<1>7. Done(0, c)
  BY <1>1, <1>4, <1>5
<1>8. ASSUME NEW k \in 1..n, NEW list, Done(k - 1, list)
      PROVE  Done(k, Step(k, list)) /\ Known(k, list)
  <2>0. k - 1 \in 0..n /\ k > 0 /\ n > 0 /\ 1 \in 1..n /\ k \in 1..k
    BY <1>1
  <2>1. list \in Lists /\ Distinct(list) /\ Within(list, c)
    BY <1>8
  <2>2. CASE k - 1 > 0 /\ c[1] \in doomed
    <3>1. list = << >>
      BY <1>8, <2>2
    <3>2. Step(k, list) = << >>
      BY <3>1 DEF conn_free
    <3> QED
      BY <1>3, <2>0, <2>2, <3>1, <3>2
  <2>3. CASE ~(k - 1 > 0 /\ c[1] \in doomed)
    <3>1. /\ Elements(list) = Elements(c) \ Gone(k - 1)
          /\ list # << >> /\ Head(list) = c[1]
      BY <1>8, <2>0, <2>3
    <3>2. \A j \in 1..n : c[j] = c[k] => j = k
      BY <1>4 DEF Distinct
    <3>3. c[k] \in Elements(c)
      BY <1>4 DEF Elements
    <3>4. c[k] \notin Gone(k - 1)
      <4> SUFFICES ASSUME NEW j \in 1..(k - 1), c[k] = c[j] PROVE FALSE
        OBVIOUS
      <4>1. j \in 1..n /\ j # k
        BY <1>1
      <4> QED
        BY <3>2, <4>1
    <3>5. c[k] \in Elements(list)
      BY <3>1, <3>3, <3>4
    <3>6. CASE c[k] \notin doomed
      <4>1. Step(k, list) = list /\ ~(k > 0 /\ c[1] \in doomed)
        <5>1. k = 1 \/ k - 1 > 0
          BY <1>1
        <5> QED
          BY <2>3, <3>6, <5>1
      <4>2. Gone(k) = Gone(k - 1)
        <5>1. \A j \in 1..k : j = k \/ j \in 1..(k - 1)
          BY <1>1
        <5>2. \A j \in 1..(k - 1) : j \in 1..k
          BY <1>1
        <5> QED
          BY <3>6, <5>1, <5>2
      <4> HIDE DEF Gone
      <4> QED
        BY <2>1, <3>1, <3>5, <4>1, <4>2
    <3>7. CASE c[k] \in doomed /\ k = 1
      <4>1. Step(k, list) = << >>
        BY <3>1, <3>7 DEF conn_free
      <4> HIDE DEF Gone
      <4> QED
        BY <1>3, <2>0, <3>5, <3>7, <4>1
    <3>8. CASE c[k] \in doomed /\ k # 1
      <4>1. c[1] \notin doomed
        BY <1>1, <2>3, <3>8
      <4>2. Head(list) # c[k]
        BY <2>0, <3>1, <3>2, <3>8
      <4>3. Step(k, list) = conn_free(list, c[k])
        BY <3>8
      <4> DEFINE next == conn_free(list, c[k])
      <4>4. /\ next \in Lists /\ Elements(next) = Elements(list) \ {c[k]}
            /\ Within(next, list) /\ next # << >> /\ Head(next) = Head(list)
        BY <2>1, <3>1, <3>5, <4>2, FreeOther
      <4> HIDE DEF next
      <4>5. Distinct(next)
        BY <2>1, <4>4, WithinDistinct
      <4>6. Within(next, c)
        BY <2>1, <4>4, WithinTransitive
      <4>7. Gone(k) = Gone(k - 1) \cup {c[k]}
        <5>1. \A j \in 1..k : j = k \/ j \in 1..(k - 1)
          BY <1>1
        <5>2. \A j \in 1..(k - 1) : j \in 1..k
          BY <1>1
        <5> QED
          BY <2>0, <3>8, <5>1, <5>2
      <4>8. Elements(next) = Elements(c) \ Gone(k)
        BY <3>1, <4>4, <4>7
      <4> HIDE DEF Gone
      <4>9. Done(k, next)
        BY <3>1, <4>1, <4>4, <4>5, <4>6, <4>8
      <4> QED
        BY <3>5, <4>3, <4>9 DEF next
    <3> QED
      BY <3>6, <3>7, <3>8
  <2> QED
    BY <2>2, <2>3
<1>9. ASSUME NEW k \in 1..n, NEW list \in Lists, Known(k, list) PROVE Step(k, list) \in Lists
  <2>1. CASE c[k] \notin doomed
    BY <2>1
  <2>2. CASE c[k] \in doomed /\ (list = << >> \/ Head(list) = c[k])
    BY <1>3, <2>2 DEF conn_free
  <2>3. CASE c[k] \in doomed /\ ~(list = << >> \/ Head(list) = c[k])
    <3> DEFINE m == CHOOSE i \in DOMAIN list : list[i] = c[k]
    <3>1. DOMAIN list = 1..Len(list)
      BY LenProperties
    <3>2. c[k] \in Elements(list)
      BY <1>9, <2>3
    <3>3. \E i \in DOMAIN list : list[i] = c[k]
      BY <3>1, <3>2 DEF Elements
    <3>4. m \in 1..Len(list)
      BY <3>1, <3>3
    <3>5. Step(k, list) = RemoveAt(list, m)
      BY <2>3 DEF conn_free
    <3> HIDE DEF m
    <3>6. RemoveAt(list, m) \in Seq(Clients)
      BY <3>4, RemovedIs
    <3> QED
      BY <3>5, <3>6
  <2> QED
    BY <2>1, <2>2, <2>3
<1>10. Done(n, s[n])
  <2> HIDE DEF Done, Known, Step
  <2>0. \A k \in 0..n : \A list : Done(k, list) => list \in Lists
    BY DEF Done
  <2> HIDE DEF Lists
  <2>1. h \in [(1..n) \X Lists -> Lists]
    BY <1>9
  <2>2. \A k \in 1..n, list \in Lists : Known(k, list) => h[<< k, list >>] = Step(k, list)
    OBVIOUS
  <2> HIDE DEF h
  <2>3. PICK g : Run(g, h, c, n, Lists)
    BY <1>1, <1>4, <2>1, Iterates DEF Steps
  <2>4. \A k \in 1..n : k \in 0..n /\ k # 0 /\ k - 1 \in 0..n
    BY <1>1
  <2> DEFINE G == {k \in 0..n : Done(k, g[k])}
  <2>5. 0 \in G
    BY <1>1, <1>7, <2>3 DEF Run
  <2>6. ASSUME NEW k \in 1..n, k - 1 \in G PROVE k \in G /\ g[k] = Step(k, g[k - 1])
    <3>1. Done(k - 1, g[k - 1])
      BY <2>6
    <3>2. Known(k, g[k - 1]) /\ g[k - 1] \in Lists /\ Done(k, Step(k, g[k - 1]))
      BY <1>8, <2>0, <2>4, <3>1
    <3>3. g[k] = Step(k, g[k - 1])
      BY <2>2, <2>3, <3>2 DEF Run
    <3> QED
      BY <2>4, <3>2, <3>3
  <2>7. \A k \in 0..n : k \in G
    <3> HIDE DEF G
    <3> QED
      BY <1>1, <2>5, <2>6, UpTo
  <2>8. Deletes(g)
    <3>1. \A k \in 0..n : k # 0 => k \in 1..n
      BY <1>1
    <3>2. ASSUME NEW k \in 0..n PROVE g[k] = IF k = 0 THEN c ELSE Step(k, g[k - 1])
      <4> HIDE DEF G
      <4> QED
        BY <2>3, <2>4, <2>6, <2>7, <3>1 DEF Run
    <3>3. g = [k \in 0..n |-> g[k]]
      BY <2>3 DEF Run
    <3> QED
      BY <3>2, <3>3 DEF Step
  <2>9. Deletes(s)
    BY <2>8 DEF s
  <2> HIDE DEF G
  <2> DEFINE H == {k \in 0..n : Done(k, s[k])}
  <2>10. 0 \in H
    BY <1>1, <1>7, <2>9
  <2>11. ASSUME NEW k \in 1..n, k - 1 \in H PROVE k \in H
    <3>1. s[k] = Step(k, s[k - 1])
      BY <2>4, <2>9 DEF Step
    <3> HIDE DEF Deletes
    <3>2. Done(k - 1, s[k - 1])
      BY <2>11
    <3>3. Done(k, Step(k, s[k - 1]))
      BY <1>8, <3>2
    <3> QED
      BY <2>4, <3>1, <3>3
  <2>12. \A k \in 0..n : k \in H
    <3> HIDE DEF H, Deletes
    <3> QED
      BY <1>1, <2>10, <2>11, UpTo
  <2>13. n \in 0..n
    BY <1>1
  <2> QED
    BY <2>12, <2>13
<1>11. Elements(c) \ Gone(n) = Elements(c) \ doomed
  BY <1>4 DEF Elements
<1>12. n > 0 \/ n = 0
  BY <1>1
<1> HIDE DEF Gone, Step, Known, h, Deletes
<1>13. /\ s[n] \in Lists /\ Within(s[n], c)
       /\ c # << >> /\ Head(c) \in doomed => s[n] = << >>
       /\ c = << >> \/ Head(c) \notin doomed => Elements(s[n]) = Elements(c) \ doomed
  BY <1>5, <1>6, <1>10, <1>11, <1>12
<1> QED
  BY <1>2, <1>13 DEF c, n

-----------------------------------------------------------------------------
(* The steps of the server *)

(* Fields of a connection that the queue does not depend on.                *)
LEMMA MarksAside ==
  ASSUME NEW c, ConnInv(c), NEW d \in ConnRecord,
         d.out_queue = c.out_queue, d.written = c.written, d.wrote_err = c.wrote_err,
         d.acked = c.acked, Len(d.waiting) <= d.received
  PROVE  ConnInv(d)
BY DEF ConnInv

LEMMA NewConnInv ==
  ConnInv(NewConn) /\ ConnInv(conn_remove(NewConn)) /\ NewConn.delete_me = FALSE
<1>1. NewConn \in ConnRecord
  BY DEF NewConn, ConnRecord
<1>2. /\ NewConn.out_queue = << >> /\ NewConn.written = << >> /\ NewConn.acked = 0
      /\ NewConn.waiting = << >> /\ NewConn.received = 0 /\ NewConn.delete_me = FALSE
  BY DEF NewConn
<1>3. Bytes(1, 0) = << >>
  <2>1. Bytes(0 + 1, 0) \in Seq(Nat) /\ Len(Bytes(0 + 1, 0)) = 0 /\ 0 + 1 = 1
    BY BytesAre
  <2> QED
    BY <2>1, EmptySeq
<1>4. Len(<< >>) = 0 /\ 0 <= BufSpace
  BY OutputAssumption
<1>5. ConnInv(NewConn)
  BY <1>1, <1>2, <1>3, <1>4, EmptyQueue DEF ConnInv
<1>6. conn_remove(NewConn) \in ConnRecord
  BY <1>1 DEF conn_remove, ConnRecord
<1>7. LET d == conn_remove(NewConn) c == NewConn IN
      /\ d.out_queue = c.out_queue /\ d.written = c.written /\ d.wrote_err = c.wrote_err
      /\ d.acked = c.acked /\ d.waiting = c.waiting /\ d.received = c.received
  BY <1>1 DEF conn_remove, ConnRecord
<1>8. Len(conn_remove(NewConn).waiting) <= conn_remove(NewConn).received
  BY <1>2, <1>4, <1>7
<1>9. ConnInv(conn_remove(NewConn))
  BY <1>5, <1>6, <1>7, <1>8, MarksAside
<1> QED
  BY <1>2, <1>5, <1>9

LEMMA RemoveKeeps ==
  ASSUME NEW c, ConnInv(c)
  PROVE  ConnInv(conn_remove(c)) /\ conn_remove(c) \in ConnRecord
<1>1. c \in ConnRecord /\ Len(c.waiting) <= c.received
  BY DEF ConnInv
<1>2. conn_remove(c) \in ConnRecord
  BY <1>1 DEF conn_remove, ConnRecord
<1>3. LET d == conn_remove(c) IN
      /\ d.out_queue = c.out_queue /\ d.written = c.written /\ d.wrote_err = c.wrote_err
      /\ d.acked = c.acked /\ d.waiting = c.waiting /\ d.received = c.received
  BY <1>1 DEF conn_remove, ConnRecord
<1>4. Len(conn_remove(c).waiting) <= conn_remove(c).received
  BY <1>1, <1>3
<1> QED
  BY <1>2, <1>3, <1>4, MarksAside

(* The receive buffer of a connection takes a segment.                      *)
LEMMA TakeKeeps ==
  ASSUME NEW c, ConnInv(c), NEW s \in Segment, s.n \in DOMAIN Sizes[s.from]
  PROVE  ConnInv(Take(c, s)) /\ Take(c, s) \in ConnRecord /\ Take(c, s).delete_me = c.delete_me
<1>1. c \in ConnRecord /\ c.waiting \in Seq(Nat) /\ c.received \in Nat
  BY ConnTypes
<1>2. Len(c.waiting) <= c.received /\ Len(c.waiting) \in Nat
  BY <1>1, LenProperties DEF ConnInv
<1>3. CASE s.n # c.received + 1
  BY <1>1, <1>3 DEF Take
<1>4. CASE s.n = c.received + 1
  <2> DEFINE size == Sizes[s.from][s.n]
             d == [c EXCEPT !.received = @ + 1, !.waiting = Append(@, size)]
             longer == Append(c.waiting, size)
  <2>1. size \in Nat
    <3>1. Sizes[s.from] \in Seq(1..BufSpace)
      BY ServerAssumption DEF Segment
    <3>2. size \in 1..BufSpace /\ BufSpace \in Nat
      BY <3>1, LenProperties, ElementOfSeq, OutputAssumption
    <3> QED
      BY <3>2
  <2> HIDE DEF size
  <2>2. longer \in Seq(Nat) /\ Len(longer) = Len(c.waiting) + 1
    BY <1>1, <2>1, AppendProperties
  <2>3. d = [c EXCEPT !.received = @ + 1, !.waiting = longer]
    OBVIOUS
  <2> HIDE DEF longer, d
  <2>4. /\ d \in ConnRecord /\ d.out_queue = c.out_queue /\ d.written = c.written
        /\ d.wrote_err = c.wrote_err /\ d.acked = c.acked /\ d.waiting = longer
        /\ d.received = c.received + 1 /\ d.delete_me = c.delete_me
    <3>1. c.received + 1 \in Nat
      BY <1>1
    <3> DEFINE received == c.received + 1
    <3>2. d = [c EXCEPT !.received = received, !.waiting = longer]
      BY <2>3
    <3>3. received \in Nat
      BY <3>1
    <3> HIDE DEF received
    <3>4. d \in ConnRecord
      BY <1>1, <2>2, <3>2, <3>3 DEF ConnRecord
    <3>5. d.received = received /\ d.waiting = longer
      BY <1>1, <3>2 DEF ConnRecord
    <3>6. /\ d.out_queue = c.out_queue /\ d.written = c.written /\ d.wrote_err = c.wrote_err
          /\ d.acked = c.acked /\ d.delete_me = c.delete_me
      BY <1>1, <3>2 DEF ConnRecord
    <3> QED
      BY <3>4, <3>5, <3>6 DEF received
  <2>5. Len(d.waiting) <= d.received
    BY <1>1, <1>2, <2>2, <2>4
  <2>6. ConnInv(d)
    BY <2>4, <2>5, MarksAside
  <2>7. Take(c, s) = d
    BY <1>4 DEF Take, d, size
  <2> QED
    BY <2>4, <2>6, <2>7
<1> QED
  BY <1>3, <1>4

LEMMA ListedAre ==
  ASSUME connections \in Seq(Clients), accepted \in Seq(Clients)
  PROVE  /\ Listed = Elements(connections) /\ DOMAIN connections = 1..Len(connections)
         /\ Accepted = Elements(accepted) /\ DOMAIN accepted = 1..Len(accepted)
         /\ Len(accepted) \in Nat /\ Len(connections) \in Nat
BY LenProperties DEF Listed, Accepted, Elements

(* No connection is in the list twice, and the list is newest first.        *)
LEMMA ListOrder ==
  ASSUME ServerInvariant
  PROVE  /\ Distinct(connections) /\ Listed \subseteq Accepted
         /\ Listed \cap freed = {} /\ Listed \subseteq Clients /\ Accepted \subseteq Clients
<1>1. connections \in Seq(Clients) /\ accepted \in Seq(Clients) /\ newest_freed \in 0..Len(accepted)
  BY DEF ServerInvariant, TypesInv
<1>2. /\ Listed = {accepted[i] : i \in (newest_freed + 1)..Len(accepted)} \ freed
      /\ \A i, j \in DOMAIN connections : i < j =>
           \E a, b \in DOMAIN accepted :
             accepted[a] = connections[i] /\ accepted[b] = connections[j] /\ a > b
      /\ \A a, b \in DOMAIN accepted : accepted[a] = accepted[b] => a = b
  BY DEF ServerInvariant, ListInv, ListIsExact
<1>3. /\ DOMAIN connections = 1..Len(connections) /\ DOMAIN accepted = 1..Len(accepted)
      /\ Len(accepted) \in Nat /\ Len(connections) \in Nat
  BY <1>1, ListedAre
<1>4. \A i, j \in 1..Len(connections) : i < j => connections[i] # connections[j]
  <2> SUFFICES ASSUME NEW i \in 1..Len(connections), NEW j \in 1..Len(connections), i < j,
                      connections[i] = connections[j]
               PROVE  FALSE
    OBVIOUS
  <2>1. PICK a, b \in 1..Len(accepted) :
          accepted[a] = connections[i] /\ accepted[b] = connections[j] /\ a > b
    BY <1>2, <1>3
  <2>2. a = b
    BY <1>2, <1>3, <2>1
  <2> QED
    BY <1>3, <2>1, <2>2
<1>5. Distinct(connections)
  <2> SUFFICES ASSUME NEW i \in 1..Len(connections), NEW j \in 1..Len(connections),
                      connections[i] = connections[j], i # j
               PROVE  FALSE
    BY DEF Distinct
  <2>1. i < j \/ j < i
    BY <1>3
  <2> QED
    BY <1>4, <2>1
<1>6. Accepted \subseteq Clients
  BY <1>1, <1>3, ElementOfSeq DEF Accepted
<1>7. Listed \subseteq Accepted
  <2>1. \A i \in (newest_freed + 1)..Len(accepted) : i \in 1..Len(accepted)
    BY <1>1, <1>3
  <2> QED
    BY <1>2, <1>3, <2>1 DEF Accepted
<1> QED
  BY <1>2, <1>5, <1>6, <1>7

LEMMA TimerAndDeleteStep ==
  ASSUME ServerInvariant, TimerAndDelete
  PROVE  ServerInvariant'
<1> PICK D \in SUBSET Live :
      LET doomed == {p \in Listed : p \in D \/ conn[p].delete_me}
      IN  /\ delete_all_connections(doomed)
          /\ conn' = [p \in Clients |->
               IF p \in doomed THEN conn_remove(NewConn)
               ELSE IF p \in D THEN conn_remove(conn[p]) ELSE conn[p]]
  BY DEF TimerAndDelete
<1> DEFINE doomed == {p \in Listed : p \in D \/ conn[p].delete_me}
           left == Remaining(doomed)
           top == CHOOSE i \in DOMAIN accepted : accepted[i] = Head(connections)
<1>1. /\ conn' = [p \in Clients |->
                    IF p \in doomed THEN conn_remove(NewConn)
                    ELSE IF p \in D THEN conn_remove(conn[p]) ELSE conn[p]]
      /\ connections' = left /\ freed' = freed \cup doomed
      /\ newest_freed' = IF connections # << >> /\ Head(connections) \in doomed THEN top
                         ELSE newest_freed
      /\ phase' = "poll"
      /\ pollout' = pollout /\ reader' = reader /\ new_connection' = new_connection
      /\ accepted' = accepted /\ swallowed' = swallowed
      /\ net' = net /\ client' = client /\ ack_lost' = ack_lost
  BY DEF TimerAndDelete, delete_all_connections, ioVars, handshakeVars, envVars, Goes
<1>2. TypesInv /\ OutputInv /\ ListInv /\ NetInv /\ SwallowInv
  BY DEF ServerInvariant
<1>3. /\ connections \in Seq(Clients) /\ accepted \in Seq(Clients)
      /\ newest_freed \in 0..Len(accepted)
  BY <1>2 DEF TypesInv
<1>4. /\ Distinct(connections) /\ Listed \subseteq Accepted /\ Listed \subseteq Clients
      /\ Accepted \subseteq Clients
  BY ListOrder
<1>5. /\ Listed = Elements(connections) /\ DOMAIN connections = 1..Len(connections)
      /\ DOMAIN accepted = 1..Len(accepted)
      /\ Len(accepted) \in Nat /\ Len(connections) \in Nat
  BY <1>3, ListedAre
<1>6. doomed \subseteq Listed
  OBVIOUS
<1>7. /\ left \in Seq(Clients) /\ Within(left, connections)
      /\ connections # << >> /\ Head(connections) \in doomed => left = << >>
      /\ connections = << >> \/ Head(connections) \notin doomed =>
           Elements(left) = Elements(connections) \ doomed
  <2> HIDE DEF doomed
  <2> QED
    BY <1>3, <1>4, RemainingIs
<1> HIDE DEF left
<1>8. Listed' = Elements(left) /\ Len(left) \in Nat /\ DOMAIN left = 1..Len(left)
  <2>1. left \in Seq(Clients) /\ connections' = left
    BY <1>1, <1>7
  <2>2. Len(left) \in Nat /\ DOMAIN left = 1..Len(left)
    BY <2>1, LenProperties
  <2> QED
    BY <2>1, <2>2 DEF Listed, Elements
<1>9. Elements(left) \subseteq Listed \ doomed
  <2>1. Elements(<< >>) = {}
    BY DEF Elements
  <2> HIDE DEF doomed
  <2> QED
    BY <1>5, <1>7, <2>1
<1>10. /\ Listed = {accepted[i] : i \in (newest_freed + 1)..Len(accepted)} \ freed
       /\ \A i, j \in DOMAIN connections : i < j =>
            \E a, b \in DOMAIN accepted :
              accepted[a] = connections[i] /\ accepted[b] = connections[j] /\ a > b
       /\ \A a, b \in DOMAIN accepted : accepted[a] = accepted[b] => a = b
  BY <1>2 DEF ListInv, ListIsExact
<1>11. ASSUME connections # << >>
       PROVE  /\ top \in 1..Len(accepted) /\ accepted[top] = Head(connections)
              /\ Head(connections) = connections[1] /\ 1 \in 1..Len(connections)
  <2>1. Head(connections) = connections[1] /\ 1 \in 1..Len(connections)
    BY <1>3, <1>5, <1>11, EmptySeq
  <2>2. Head(connections) \in Accepted
    BY <1>4, <1>5, <2>1 DEF Elements
  <2>3. \E i \in DOMAIN accepted : accepted[i] = Head(connections)
    BY <2>2 DEF Accepted
  <2> QED
    BY <1>5, <2>1, <2>3
<1> HIDE DEF top
<1>12. TypesInv'
  <2>1. freed' \subseteq Clients
    BY <1>1, <1>2, <1>4, <1>6 DEF TypesInv
  <2>2. newest_freed' \in 0..Len(accepted)
    <3>1. CASE connections # << >> /\ Head(connections) \in doomed
      BY <1>1, <1>5, <1>11, <3>1
    <3>2. CASE ~(connections # << >> /\ Head(connections) \in doomed)
      BY <1>1, <1>3, <3>2
    <3> QED
      BY <3>1, <3>2
  <2> QED
    BY <1>1, <1>2, <1>7, <2>1, <2>2 DEF TypesInv
<1>13. OutputInv'
  <2>1. ASSUME NEW p \in Clients PROVE ConnInv(conn'[p]) /\ conn'[p] \in ConnRecord
    <3>1. ConnInv(conn[p]) /\ conn[p] \in ConnRecord
      BY <1>2 DEF OutputInv
    <3>2. /\ ConnInv(conn_remove(NewConn)) /\ ConnInv(conn_remove(conn[p]))
          /\ conn_remove(NewConn) \in ConnRecord /\ conn_remove(conn[p]) \in ConnRecord
      BY <3>1, NewConnInv, RemoveKeeps
    <3> HIDE DEF doomed
    <3> QED
      BY <1>1, <3>1, <3>2
  <2>2. conn' = [p \in Clients |-> conn'[p]]
    BY <1>1
  <2>3. conn' \in [Clients -> ConnRecord]
    BY <2>1, <2>2
  <2> QED
    BY <2>1, <2>3 DEF OutputInv
<1>14. ListInv'
  <2>1. Elements(left) = {accepted[i] : i \in (newest_freed' + 1)..Len(accepted)} \ freed'
    <3>1. CASE connections # << >> /\ Head(connections) \in doomed
      <4>1. Elements(left) = {} /\ newest_freed' = top
        BY <1>1, <1>7, <3>1 DEF Elements
      <4>2. ASSUME NEW i \in (top + 1)..Len(accepted), accepted[i] \notin freed PROVE FALSE
        <5>0. top \in 1..Len(accepted) /\ accepted[top] = connections[1] /\ 1 \in 1..Len(connections)
          BY <1>11, <3>1
        <5>1. i \in 1..Len(accepted) /\ i > top
          BY <1>5, <5>0
        <5>2. i \in (newest_freed + 1)..Len(accepted)
          <6>1. top > newest_freed
            <7>1. accepted[top] \in Listed
              BY <1>5, <5>0 DEF Elements
            <7>2. PICK k \in (newest_freed + 1)..Len(accepted) : accepted[k] = accepted[top]
              BY <1>10, <7>1
            <7>3. k \in 1..Len(accepted)
              BY <1>3, <1>5
            <7>4. k = top
              BY <1>5, <1>10, <5>0, <7>2, <7>3
            <7> QED
              BY <1>3, <1>5, <7>4
          <6> QED
            BY <1>3, <1>5, <5>0, <5>1, <6>1
        <5>3. accepted[i] \in Listed
          BY <1>10, <4>2, <5>2
        <5>4. PICK j \in 1..Len(connections) : accepted[i] = connections[j]
          BY <1>5, <5>3 DEF Elements
        <5>5. j # 1
          <6>1. top # i
            BY <1>5, <5>0, <5>1
          <6>2. accepted[i] # accepted[top]
            BY <1>5, <1>10, <5>0, <5>1, <6>1
          <6> QED
            BY <5>0, <5>4, <6>2
        <5>6. 1 < j
          BY <1>5, <5>4, <5>5
        <5>7. PICK a, b \in 1..Len(accepted) :
                accepted[a] = connections[1] /\ accepted[b] = connections[j] /\ a > b
          BY <1>5, <1>10, <5>0, <5>6
        <5>8. a = top /\ b = i
          BY <1>5, <1>10, <5>0, <5>1, <5>4, <5>7
        <5> QED
          BY <1>5, <5>0, <5>1, <5>7, <5>8
      <4>3. freed' = freed \cup doomed
        BY <1>1
      <4> HIDE DEF doomed
      <4> QED
        BY <4>1, <4>2, <4>3
    <3>2. CASE ~(connections # << >> /\ Head(connections) \in doomed)
      <4>1. Elements(left) = Listed \ doomed /\ newest_freed' = newest_freed
        BY <1>1, <1>5, <1>7, <3>2
      <4>2. freed' = freed \cup doomed
        BY <1>1
      <4> HIDE DEF doomed
      <4> QED
        BY <1>10, <4>1, <4>2
    <3> QED
      BY <3>1, <3>2
  <2>2. ASSUME NEW i \in 1..Len(left), NEW j \in 1..Len(left), i < j
        PROVE  \E a, b \in 1..Len(accepted) :
                 accepted[a] = left[i] /\ accepted[b] = left[j] /\ a > b
    <3>1. PICK k, l \in 1..Len(connections) :
            k < l /\ connections[k] = left[i] /\ connections[l] = left[j]
      BY <1>7, <2>2 DEF Within
    <3>2. \E a, b \in DOMAIN accepted :
            accepted[a] = connections[k] /\ accepted[b] = connections[l] /\ a > b
      BY <1>5, <1>10, <3>1
    <3> QED
      BY <1>5, <3>1, <3>2
  <2>3. ListIsExact'
    <3>1. Listed' = {accepted'[i] : i \in (newest_freed' + 1)..Len(accepted')} \ freed'
      BY <1>1, <1>8, <2>1
    <3>2. DOMAIN connections' = 1..Len(left) /\ DOMAIN accepted' = 1..Len(accepted)
      BY <1>1, <1>5, <1>8
    <3>3. \A i, j \in DOMAIN connections' : i < j =>
            \E a, b \in DOMAIN accepted' :
              accepted'[a] = connections'[i] /\ accepted'[b] = connections'[j] /\ a > b
      <4>1. ASSUME NEW i \in DOMAIN connections', NEW j \in DOMAIN connections', i < j
            PROVE  \E a, b \in DOMAIN accepted' :
                     accepted'[a] = connections'[i] /\ accepted'[b] = connections'[j] /\ a > b
        <5>1. i \in 1..Len(left) /\ j \in 1..Len(left)
          BY <3>2
        <5>2. PICK a, b \in 1..Len(accepted) :
                accepted[a] = left[i] /\ accepted[b] = left[j] /\ a > b
          BY <2>2, <4>1, <5>1
        <5> QED
          BY <1>1, <3>2, <5>2
      <4> QED
        BY <4>1
    <3> QED
      BY <3>1, <3>3 DEF ListIsExact
  <2>4. freed' \subseteq Accepted'
    <3>1. Accepted' = Accepted
      BY <1>1 DEF Accepted
    <3> QED
      BY <1>1, <1>2, <1>4, <3>1 DEF ListInv
  <2>5. ASSUME NEW p \in Listed' PROVE ~conn'[p].delete_me
    <3>1. p \in Listed /\ p \notin doomed /\ p \in Clients
      BY <1>4, <1>8, <1>9
    <3>2. conn'[p] = conn[p] /\ ~conn[p].delete_me
      BY <1>1, <3>1
    <3> QED
      BY <3>2
  <2> QED
    BY <1>1, <1>10, <2>3, <2>4, <2>5 DEF ListInv
<1>15. NetInv'
  BY <1>1, <1>2 DEF NetInv, Accepted
<1>16. SwallowInv'
  <2>1. Listed' \subseteq Listed /\ Accepted' = Accepted
    BY <1>1, <1>8, <1>9 DEF Accepted
  <2>2. OnlyHandshakeSwallowed'
    BY <1>1, <1>2 DEF SwallowInv, OnlyHandshakeSwallowed
  <2> HIDE DEF doomed
  <2> QED
    BY <1>1, <1>2, <2>1, <2>2 DEF SwallowInv
<1> QED
  BY <1>12, <1>13, <1>14, <1>15, <1>16 DEF ServerInvariant

LEMMA NetTypes ==
  ASSUME net \in Seq(Segment)
  PROVE  /\ DOMAIN net = 1..Len(net) /\ Len(net) \in Nat
         /\ \A i \in 1..Len(net) : net[i] \in Segment
BY LenProperties, ElementOfSeq

(* The first segment in transit is taken.                                   *)
LEMMA NetTail ==
  ASSUME net \in Seq(Segment), net # << >>, net' = Tail(net)
  PROVE  /\ Len(net) \in Nat /\ 1 \in 1..Len(net) /\ Head(net) = net[1] /\ net[1] \in Segment
         /\ DOMAIN net = 1..Len(net)
         /\ net' \in Seq(Segment) /\ DOMAIN net' = 1..(Len(net) - 1)
         /\ \A i \in 1..(Len(net) - 1) : net'[i] = net[i + 1] /\ i + 1 \in 1..Len(net)
<1>1. Len(net) \in Nat /\ Len(net) # 0
  BY EmptySeq, LenProperties
<1>2. 1 \in 1..Len(net) /\ DOMAIN net = 1..Len(net)
  BY <1>1, LenProperties
<1>3. /\ Tail(net) \in Seq(Segment) /\ Len(Tail(net)) = Len(net) - 1
      /\ \A i \in 1..(Len(net) - 1) : Tail(net)[i] = net[i + 1]
  BY HeadTailProperties
<1>4. DOMAIN Tail(net) = 1..(Len(net) - 1)
  BY <1>3, LenProperties
<1>5. \A i \in 1..(Len(net) - 1) : i + 1 \in 1..Len(net)
  BY <1>1
<1>6. net[1] \in Segment
  BY <1>2, ElementOfSeq
<1> QED
  BY <1>1, <1>2, <1>3, <1>4, <1>5, <1>6

LEMMA NetAfter ==
  ASSUME ServerInvariant, net # << >>, net' = Tail(net), client' = client,
         \/ Accepted' = Accepted
         \/ net[1].kind = "syn" /\ Accepted' = Accepted \cup {net[1].from}
  PROVE  NetInv'
<1> DEFINE n == Len(net)
<1>1. NetInv /\ net \in Seq(Segment)
  BY DEF ServerInvariant, TypesInv
<1>2. /\ n \in Nat /\ 1 \in 1..n /\ net[1] \in Segment /\ DOMAIN net = 1..n
      /\ DOMAIN net' = 1..(n - 1)
      /\ \A i \in 1..(n - 1) : net'[i] = net[i + 1] /\ i + 1 \in 1..n
  BY <1>1, NetTail
<1> HIDE DEF n
<1>3. \A p \in Clients : p \in Accepted => p \in Accepted'
  OBVIOUS
<1>4. \A p \in Clients : p \in Accepted' /\ p \notin Accepted =>
        net[1].kind = "syn" /\ p = net[1].from /\ client[p] = "handshake"
  BY <1>1, <1>2 DEF NetInv
<1>5. ASSUME NEW i \in DOMAIN net'
      PROVE  LET p == net'[i].from
             IN  IF net'[i].kind = "syn"
                 THEN /\ client'[p] = "handshake" /\ p \notin Accepted'
                      /\ \A j \in DOMAIN net' : net'[j].from = p => j = i
                 ELSE client'[p] \in {"connected", "done"} /\ p \in Accepted'
  <2> DEFINE p == net[i + 1].from
  <2>1. net'[i] = net[i + 1] /\ i + 1 \in 1..n /\ i \in 1..(n - 1) /\ i + 1 # 1
    BY <1>2
  <2>2. net[i + 1] \in Segment /\ p \in Clients
    <3>1. net[i + 1] \in Segment
      BY <1>1, <1>2, <2>1, NetTypes DEF n
    <3> QED
      BY <3>1 DEF Segment
  <2>3. CASE net[i + 1].kind = "syn"
    <3>1. client[p] = "handshake" /\ p \notin Accepted /\ \A j \in 1..n : net[j].from = p => j = i + 1
      BY <1>1, <1>2, <2>1, <2>3 DEF NetInv
    <3>2. net[1].from # p
      BY <1>2, <2>1, <3>1
    <3>3. p \notin Accepted'
      BY <1>4, <2>2, <3>1, <3>2
    <3>4. ASSUME NEW j \in DOMAIN net', net'[j].from = p PROVE j = i
      <4>1. j \in 1..(n - 1) /\ net'[j] = net[j + 1] /\ j + 1 \in 1..n
        BY <1>2
      <4>2. j + 1 = i + 1
        BY <3>1, <3>4, <4>1
      <4> QED
        BY <1>2, <2>1, <4>1, <4>2
    <3> QED
      BY <2>1, <2>3, <3>1, <3>3, <3>4
  <2>4. CASE net[i + 1].kind # "syn"
    <3>1. client[p] \in {"connected", "done"} /\ p \in Accepted
      BY <1>1, <1>2, <2>1, <2>4 DEF NetInv
    <3> QED
      BY <1>3, <2>1, <2>2, <2>4, <3>1
  <2> QED
    BY <2>3, <2>4
<1>6. \A i \in DOMAIN net' : net'[i].kind = "data" => net'[i].n \in DOMAIN Sizes[net'[i].from]
  BY <1>1, <1>2 DEF NetInv
<1>7. \A p \in Clients : client'[p] = "idle" => p \notin Accepted'
  BY <1>1, <1>4 DEF NetInv
<1>8. \A p \in Clients : client'[p] \in {"connected", "done"} => p \in Accepted'
  BY <1>1, <1>3 DEF NetInv
<1> QED
  BY <1>5, <1>6, <1>7, <1>8 DEF NetInv

(* What is taken is not the handshake ACK the filter waits for.             *)
LEMMA FilterAfter ==
  ASSUME ServerInvariant, net # << >>, net' = Tail(net), client' = client,
         ack_lost' = ack_lost, new_connection' = new_connection, swallowed' = swallowed,
         Accepted' = Accepted, Listed' = Listed,
         net[1].from = new_connection /\ net[1].from \in Listed => net[1].kind # "ack"
  PROVE  SwallowInv'
<1> DEFINE n == Len(net)
<1>1. SwallowInv /\ net \in Seq(Segment)
  BY DEF ServerInvariant, TypesInv
<1>2. /\ n \in Nat /\ 1 \in 1..n /\ net[1] \in Segment /\ DOMAIN net = 1..n
      /\ DOMAIN net' = 1..(n - 1)
      /\ \A i \in 1..(n - 1) : net'[i] = net[i + 1] /\ i + 1 \in 1..n
  BY <1>1, NetTail
<1> HIDE DEF n
<1>3. /\ \A p \in Clients : swallowed'[p] # {} => p \in Accepted'
      /\ OnlyHandshakeSwallowed'
  BY <1>1 DEF SwallowInv, OnlyHandshakeSwallowed
<1>4. ASSUME new_connection # NoClient, new_connection \in Listed, new_connection \notin ack_lost,
             client[new_connection] # "handshake"
      PROVE  \E i \in DOMAIN net' :
               /\ net'[i].from = new_connection /\ net'[i].kind = "ack"
               /\ \A j \in 1..(i - 1) : net'[j].from # new_connection
  <2>1. PICK i \in 1..n :
          /\ net[i].from = new_connection /\ net[i].kind = "ack"
          /\ \A j \in 1..(i - 1) : net[j].from # new_connection
    BY <1>1, <1>2, <1>4 DEF SwallowInv
  <2>2. i # 1
    BY <1>4, <2>1
  <2>3. i - 1 \in 1..(n - 1) /\ (i - 1) + 1 = i
    BY <1>2, <2>1, <2>2
  <2>4. net'[i - 1] = net[i]
    BY <1>2, <2>3
  <2>5. ASSUME NEW j \in 1..((i - 1) - 1) PROVE net'[j].from # new_connection
    <3>1. j \in 1..(n - 1) /\ j + 1 \in 1..(i - 1)
      BY <1>2, <2>3
    <3> QED
      BY <1>2, <2>1, <3>1
  <2> QED
    BY <1>2, <2>1, <2>3, <2>4, <2>5
<1>5. new_connection # NoClient => new_connection \in Accepted /\ swallowed[new_connection] = {}
  BY <1>1 DEF SwallowInv
<1> QED
  BY <1>3, <1>4, <1>5 DEF SwallowInv

(* What ReceivePacket does whatever the segment is.                         *)
Arrives ==
  /\ phase = "socket" /\ phase' = "timer" /\ net # << >> /\ net' = Tail(net)
  /\ reader' = reader /\ client' = client /\ ack_lost' = ack_lost

(* The invariant of the list does not see what a step in phase "socket"     *)
(* leaves of the connections.                                               *)
LEMMA ListUntouched ==
  ASSUME ListInv, UNCHANGED << listVars, accepted >>, phase' = "timer"
  PROVE  ListInv' /\ Listed' = Listed /\ Accepted' = Accepted
<1>1. Listed' = Listed /\ Accepted' = Accepted
  BY DEF Listed, Accepted, listVars
<1>2. ListIsExact'
  BY <1>1 DEF ListInv, ListIsExact, listVars
<1> QED
  BY <1>1, <1>2 DEF ListInv, listVars

LEMMA IgnoredStep ==
  ASSUME ServerInvariant, Arrives,
         UNCHANGED << listVars, conn, new_connection, accepted, swallowed, pollout >>,
         net[1].from = new_connection /\ net[1].from \in Listed => net[1].kind # "ack"
  PROVE  ServerInvariant'
<1>1. TypesInv /\ OutputInv /\ ListInv
  BY DEF ServerInvariant
<1>2. ListInv' /\ Listed' = Listed /\ Accepted' = Accepted
  BY <1>1, ListUntouched DEF Arrives
<1>3. NetInv'
  BY <1>2, NetAfter DEF Arrives
<1>4. SwallowInv'
  BY <1>2, FilterAfter DEF Arrives
<1>5. net' \in Seq(Segment)
  BY <1>1, NetTail DEF Arrives, TypesInv
<1>6. TypesInv'
  BY <1>1, <1>5 DEF TypesInv, Arrives, listVars
<1>7. OutputInv'
  BY <1>1 DEF OutputInv
<1> QED
  BY <1>2, <1>3, <1>4, <1>6, <1>7 DEF ServerInvariant

(* tcp_new_connection.                                                      *)
LEMMA NewConnectionStep ==
  ASSUME ServerInvariant, Arrives, net[1].kind = "syn", NewConnection(net[1].from)
  PROVE  ServerInvariant'
<1> DEFINE p == net[1].from
           n == Len(accepted)
           m == Len(connections)
<1>1. TypesInv /\ OutputInv /\ ListInv /\ NetInv /\ SwallowInv
  BY DEF ServerInvariant
<1>2. /\ net \in Seq(Segment) /\ accepted \in Seq(Clients) /\ connections \in Seq(Clients)
      /\ newest_freed \in 0..n
  BY <1>1 DEF TypesInv
<1>3. net' \in Seq(Segment) /\ DOMAIN net = 1..Len(net) /\ 1 \in 1..Len(net) /\ net[1] \in Segment
  BY <1>2, NetTail DEF Arrives
<1>4. p \in Clients /\ client[p] = "handshake" /\ p \notin Accepted
  BY <1>1, <1>3 DEF NetInv, Segment
<1>5. CASE n < MaxClients
  <2>1. /\ connections' = << p >> \o connections /\ conn' = [conn EXCEPT ![p] = NewConn]
        /\ accepted' = Append(accepted, p) /\ new_connection' = p
        /\ freed' = freed /\ newest_freed' = newest_freed /\ pollout' = pollout
        /\ swallowed' = swallowed
    BY <1>5 DEF NewConnection, conn_add
  <2>2. /\ Listed = Elements(connections) /\ DOMAIN connections = 1..m
        /\ Accepted = Elements(accepted) /\ DOMAIN accepted = 1..n /\ n \in Nat /\ m \in Nat
    BY <1>2, ListedAre
  <2>3. /\ accepted' \in Seq(Clients) /\ Len(accepted') = n + 1 /\ accepted'[n + 1] = p
        /\ \A i \in 1..n : accepted'[i] = accepted[i]
    BY <1>2, <1>4, <2>1, AppendProperties
  <2>4. << p >> \in Seq(Clients) /\ Len(<< p >>) = 1 /\ << p >>[1] = p
    BY <1>4
  <2>5. connections' \in Seq(Clients) /\ Len(connections') = m + 1
    <3>1. connections' \in Seq(Clients) /\ Len(connections') = Len(<< p >>) + m
      BY <1>2, <2>1, <2>4, ConcatProperties
    <3> QED
      BY <2>2, <2>4, <3>1
  <2>6. connections'[1] = p
    BY <1>2, <2>1, <2>2, <2>4, ConcatProperties
  <2>7. ASSUME NEW i \in 2..(m + 1) PROVE connections'[i] = connections[i - 1]
    <3>1. i \in 1..(Len(<< p >>) + Len(connections)) /\ i > Len(<< p >>)
      BY <2>2, <2>4
    <3>2. (<< p >> \o connections)[i] = connections[i - Len(<< p >>)]
      BY <1>2, <2>4, <3>1, ConcatProperties
    <3> QED
      BY <2>1, <2>4, <3>2
  <2> HIDE DEF p, n, m
  <2>8. DOMAIN accepted' = 1..(n + 1) /\ DOMAIN connections' = 1..(m + 1)
    BY <2>3, <2>5, LenProperties
  <2>9. \A i \in 1..(n + 1) : i = n + 1 \/ i \in 1..n
    BY <2>2
  <2>10. \A i \in 1..(m + 1) : i = 1 \/ (i \in 2..(m + 1) /\ i - 1 \in 1..m)
    BY <2>2
  <2>11. Accepted' = Accepted \cup {p}
    <3>1. Accepted' = {accepted'[i] : i \in 1..(n + 1)} /\ Accepted = {accepted[i] : i \in 1..n}
      BY <2>2, <2>8 DEF Accepted
    <3>2. n + 1 \in 1..(n + 1) /\ \A i \in 1..n : i \in 1..(n + 1)
      BY <2>2
    <3> QED
      BY <2>3, <2>9, <3>1, <3>2
  <2>12. Listed' = Listed \cup {p}
    <3>1. Listed' = {connections'[i] : i \in 1..(m + 1)} /\ Listed = {connections[i] : i \in 1..m}
      BY <2>2, <2>8 DEF Listed
    <3>2. 1 \in 1..(m + 1)
      BY <2>2
    <3>3. \A i \in 1..m : i + 1 \in 2..(m + 1) /\ (i + 1) - 1 = i /\ i + 1 \in 1..(m + 1)
      BY <2>2
    <3>4. \A i \in 1..m : connections'[i + 1] = connections[i]
      BY <2>7, <3>3
    <3> QED
      BY <2>6, <2>7, <2>10, <3>1, <3>2, <3>3, <3>4
  <2>13. p \notin freed /\ p \notin Listed
    BY <1>1, <1>4, ListOrder DEF ListInv
  <2>14. TypesInv'
    <3>1. newest_freed \in 0..(n + 1)
      BY <1>2, <2>2 DEF n
    <3> QED
      BY <1>1, <1>3, <1>4, <2>1, <2>3, <2>5, <3>1 DEF TypesInv, Arrives
  <2>15. OutputInv'
    <3>1. NewConn \in ConnRecord /\ ConnInv(NewConn)
      BY NewConnInv, ConnTypes
    <3> QED
      BY <1>1, <2>1, <3>1 DEF OutputInv
  <2>16. ListInv'
    <3>1. /\ Listed = {accepted[i] : i \in (newest_freed + 1)..n} \ freed
          /\ \A i, j \in 1..m : i < j =>
               \E a, b \in 1..n :
                 accepted[a] = connections[i] /\ accepted[b] = connections[j] /\ a > b
          /\ \A a, b \in 1..n : accepted[a] = accepted[b] => a = b
          /\ freed \subseteq Accepted
      BY <1>1, <2>2 DEF ListInv, ListIsExact, n
    <3>2. Listed' = {accepted'[i] : i \in (newest_freed' + 1)..Len(accepted')} \ freed'
      <4>1. \A i \in (newest_freed + 1)..(n + 1) : i = n + 1 \/ (i \in (newest_freed + 1)..n /\ i \in 1..n)
        BY <1>2, <2>2, SMTT(30)
      <4>2. /\ n + 1 \in (newest_freed + 1)..(n + 1)
            /\ \A i \in (newest_freed + 1)..n : i \in (newest_freed + 1)..(n + 1) /\ i \in 1..n
        BY <1>2, <2>2 DEF n
      <4>3. {accepted'[i] : i \in (newest_freed + 1)..(n + 1)}
            = {accepted[i] : i \in (newest_freed + 1)..n} \cup {p}
        BY <2>3, <4>1, <4>2
      <4> DEFINE before == {accepted[i] : i \in (newest_freed + 1)..n}
                 after == {accepted'[i] : i \in (newest_freed' + 1)..Len(accepted')}
      <4>4. after = before \cup {p} /\ Listed = before \ freed
        BY <2>1, <2>3, <3>1, <4>3
      <4> HIDE DEF before, after
      <4>5. Listed' = after \ freed'
        BY <2>1, <2>12, <2>13, <4>4
      <4> QED
        BY <4>5 DEF after
    <3>3. ASSUME NEW i \in DOMAIN connections', NEW j \in DOMAIN connections', i < j
          PROVE  \E a, b \in DOMAIN accepted' :
                   accepted'[a] = connections'[i] /\ accepted'[b] = connections'[j] /\ a > b
      <4>1. i \in 1..(m + 1) /\ j \in 1..(m + 1) /\ j \in 2..(m + 1) /\ j - 1 \in 1..m
            /\ connections'[j] = connections[j - 1]
        BY <2>2, <2>7, <2>8, <3>3
      <4>2. CASE i = 1
        <5>1. connections[j - 1] \in Accepted
          <6>1. connections[j - 1] \in Listed
            BY <2>2, <4>1 DEF Elements, m
          <6> QED
            BY <6>1, ListOrder
        <5>2. PICK b \in 1..n : accepted[b] = connections[j - 1]
          BY <2>2, <5>1 DEF Accepted
        <5>3. n + 1 \in 1..(n + 1) /\ b \in 1..(n + 1) /\ n + 1 > b
          BY <2>2
        <5> QED
          BY <2>3, <2>6, <2>8, <4>1, <4>2, <5>2, <5>3
      <4>3. CASE i # 1
        <5>1. i \in 2..(m + 1) /\ i - 1 \in 1..m /\ i - 1 < j - 1
          BY <2>2, <3>3, <4>1, <4>3
        <5>2. connections'[i] = connections[i - 1]
          BY <2>7, <5>1
        <5>3. PICK a, b \in 1..n :
                accepted[a] = connections[i - 1] /\ accepted[b] = connections[j - 1] /\ a > b
          BY <3>1, <4>1, <5>1
        <5>4. a \in 1..(n + 1) /\ b \in 1..(n + 1)
          BY <2>2
        <5> QED
          BY <2>3, <2>8, <4>1, <5>2, <5>3, <5>4
      <4> QED
        BY <4>2, <4>3
    <3>4. ListIsExact'
      BY <3>2, <3>3 DEF ListIsExact
    <3>5. ASSUME NEW a \in DOMAIN accepted', NEW b \in DOMAIN accepted', accepted'[a] = accepted'[b]
          PROVE  a = b
      <4>1. \A i \in 1..n : accepted'[i] # p
        BY <1>4, <2>2, <2>3 DEF Elements, n, p
      <4>2. (a = n + 1 \/ a \in 1..n) /\ (b = n + 1 \/ b \in 1..n)
        BY <2>8, <2>9
      <4> QED
        BY <2>3, <3>1, <3>5, <4>1, <4>2
    <3>6. freed' \subseteq Accepted'
      BY <2>1, <2>11, <3>1
    <3> QED
      BY <3>4, <3>5, <3>6 DEF ListInv, Arrives
  <2>17. NetInv'
    BY <2>11, NetAfter DEF Arrives, p
  <2>18. SwallowInv'
    <3>1. /\ \A q \in Clients : swallowed'[q] # {} => q \in Accepted'
          /\ OnlyHandshakeSwallowed'
      BY <1>1, <2>1, <2>11 DEF SwallowInv, OnlyHandshakeSwallowed, Arrives
    <3>2. p \in Accepted' /\ swallowed'[p] = {} /\ client'[p] = "handshake"
      BY <1>1, <1>4, <2>1, <2>11 DEF SwallowInv, Arrives, p
    <3> QED
      BY <2>1, <3>1, <3>2 DEF SwallowInv
  <2> QED
    BY <2>14, <2>15, <2>16, <2>17, <2>18 DEF ServerInvariant
<1>6. CASE ~(n < MaxClients)
  <2>1. UNCHANGED << listVars, conn, new_connection, accepted, swallowed, pollout >>
    BY <1>6 DEF NewConnection, handshakeVars
  <2> QED
    BY <2>1, IgnoredStep
<1> QED
  BY <1>5, <1>6

(* The filter takes a segment for the handshake ACK (do_loop).              *)
LEMMA SwallowStep ==
  ASSUME ServerInvariant, Arrives, net[1].from \in Listed, net[1].kind # "syn",
         IsHandshakeAck(net[1]), Swallow(net[1]),
         UNCHANGED << listVars, conn, accepted, pollout >>
  PROVE  ServerInvariant'
<1> DEFINE s == net[1]
           p == s.from
<1>1. TypesInv /\ OutputInv /\ ListInv /\ NetInv /\ SwallowInv
  BY DEF ServerInvariant
<1>2. net' \in Seq(Segment) /\ DOMAIN net = 1..Len(net) /\ 1 \in 1..Len(net) /\ s \in Segment
      /\ Len(net) \in Nat
  BY <1>1, NetTail DEF Arrives, TypesInv
<1>3. ListInv' /\ Listed' = Listed /\ Accepted' = Accepted
  BY <1>1, ListUntouched DEF Arrives
<1>4. NetInv'
  BY <1>3, NetAfter DEF Arrives
<1>5. /\ p \in Clients /\ p = new_connection /\ s.kind \in {"ack", "data"}
      /\ client[p] \in {"connected", "done"} /\ p \in Accepted /\ p # NoClient
  BY <1>1, <1>2, ServerAssumption DEF IsHandshakeAck, NetInv, Segment
<1>6. swallowed' = [swallowed EXCEPT ![p] = @ \cup {s.kind}] /\ new_connection' = NoClient
  BY DEF Swallow
<1>7. swallowed \in [Clients -> SUBSET {"ack", "data"}] /\ swallowed[p] = {}
  BY <1>1, <1>5 DEF TypesInv, SwallowInv
<1>8. s.kind = "data" => p \in ack_lost
  <2> SUFFICES ASSUME s.kind = "data", p \notin ack_lost PROVE FALSE
    OBVIOUS
  <2>1. PICK i \in DOMAIN net :
          /\ net[i].from = new_connection /\ net[i].kind = "ack"
          /\ \A j \in 1..(i - 1) : net[j].from # new_connection
    BY <1>1, <1>5 DEF SwallowInv
  <2>2. i = 1 \/ 1 \in 1..(i - 1)
    BY <1>2, <2>1
  <2> QED
    BY <1>5, <2>1, <2>2
<1> HIDE DEF s, p
<1>9. swallowed' \in [Clients -> SUBSET {"ack", "data"}]
  BY <1>5, <1>6, <1>7
<1>10. swallowed'[p] = {s.kind} /\ \A q \in Clients : q # p => swallowed'[q] = swallowed[q]
  BY <1>5, <1>6, <1>7
<1>11. TypesInv'
  BY <1>1, <1>2, <1>6, <1>9 DEF TypesInv, Arrives, listVars
<1>12. OutputInv'
  BY <1>1 DEF OutputInv
<1>13. SwallowInv'
  <2>1. ASSUME NEW q \in Clients
        PROVE  /\ swallowed'[q] # {} => q \in Accepted'
               /\ swallowed'[q] # {"ack", "data"} /\ "last" \notin swallowed'[q]
               /\ "data" \in swallowed'[q] => q \in ack_lost'
    <3>1. CASE q = p
      BY <1>3, <1>5, <1>8, <1>10, <3>1 DEF Arrives
    <3>2. CASE q # p
      <4>1. swallowed'[q] = swallowed[q] /\ Accepted' = Accepted /\ ack_lost' = ack_lost
        BY <1>3, <1>10, <3>2 DEF Arrives
      <4> QED
        BY <1>1, <4>1 DEF SwallowInv, OnlyHandshakeSwallowed
    <3> QED
      BY <3>1, <3>2
  <2> QED
    BY <1>6, <2>1 DEF SwallowInv, OnlyHandshakeSwallowed
<1> QED
  BY <1>3, <1>4, <1>11, <1>12, <1>13 DEF ServerInvariant

LEMMA ReceiveStep ==
  ASSUME ServerInvariant, Arrives, net[1].from \in Listed, net[1].kind # "syn",
         ~IsHandshakeAck(net[1]), ctcp_receive(net[1]), UNCHANGED << listVars, handshakeVars >>
  PROVE  ServerInvariant'
<1> DEFINE s == net[1]
           p == s.from
<1>1. TypesInv /\ OutputInv /\ ListInv /\ NetInv /\ SwallowInv
  BY DEF ServerInvariant
<1>2. net' \in Seq(Segment) /\ DOMAIN net = 1..Len(net) /\ 1 \in 1..Len(net) /\ s \in Segment
  BY <1>1, NetTail DEF Arrives, TypesInv
<1>3. UNCHANGED << new_connection, accepted, swallowed >>
  BY DEF handshakeVars
<1>4. ListInv' /\ Listed' = Listed /\ Accepted' = Accepted
  BY <1>1, <1>3, ListUntouched DEF Arrives
<1>5. NetInv'
  BY <1>4, NetAfter DEF Arrives
<1>6. SwallowInv'
  <2>1. ~(net[1].from = new_connection /\ net[1].kind = "ack")
    BY DEF IsHandshakeAck
  <2> QED
    BY <1>3, <1>4, <2>1, FilterAfter DEF Arrives
<1>7. p \in Clients /\ s.kind \in {"ack", "data", "last"}
      /\ (s.kind = "data" => s.n \in DOMAIN Sizes[p])
  BY <1>1, <1>2 DEF Segment, NetInv
<1>8. ConnInv(conn[p]) /\ conn[p] \in ConnRecord /\ conn \in [Clients -> ConnRecord]
  BY <1>1, <1>7 DEF OutputInv
<1>9. /\ pollout' \in BOOLEAN
      /\ conn' = conn \/ \E c \in ConnRecord : ConnInv(c) /\ conn' = [conn EXCEPT ![p] = c]
  <2>1. CASE s.kind = "ack"
    BY <1>1, <2>1 DEF ctcp_receive, TypesInv
  <2>2. CASE s.kind = "data"
    <3> DEFINE taken == Take(conn[p], s)
               begun == Begun(taken, pollout, FALSE)
    <3>1. PICK x \in ctcp_output(begun, reader) :
            conn' = [conn EXCEPT ![p] = x.conn] /\ pollout' = x.pollout
      BY <2>2 DEF ctcp_receive
    <3>2. ConnInv(taken) /\ taken \in ConnRecord
      BY <1>2, <1>7, <1>8, <2>2, TakeKeeps
    <3> HIDE DEF taken
    <3>3. begun \in Outcomes(taken.delete_me)
      BY <1>1, <3>2 DEF Outcomes, Begun, TypesInv
    <3> HIDE DEF begun
    <3>4. x \in Outcomes(taken.delete_me)
      BY <3>1, <3>3, OutputStays
    <3>5. x.conn \in ConnRecord /\ ConnInv(x.conn) /\ x.pollout \in BOOLEAN
      BY <3>4 DEF Outcomes
    <3> HIDE DEF p, s
    <3> QED
      BY <3>1, <3>5
  <2>3. CASE s.kind = "last"
    <3>1. conn' = [conn EXCEPT ![p] = conn_remove(conn[p])] /\ pollout' = pollout
      BY <2>3 DEF ctcp_receive
    <3>2. conn_remove(conn[p]) \in ConnRecord /\ ConnInv(conn_remove(conn[p]))
      BY <1>8, RemoveKeeps
    <3> HIDE DEF p, s
    <3> QED
      BY <1>1, <3>1, <3>2 DEF TypesInv
  <2> QED
    BY <1>7, <2>1, <2>2, <2>3
<1> HIDE DEF p, s
<1>10. OutputInv'
  <2>1. CASE conn' = conn
    BY <1>1, <2>1 DEF OutputInv
  <2>2. CASE \E c \in ConnRecord : ConnInv(c) /\ conn' = [conn EXCEPT ![p] = c]
    <3>1. PICK c \in ConnRecord : ConnInv(c) /\ conn' = [conn EXCEPT ![p] = c]
      BY <2>2
    <3> QED
      BY <1>1, <1>7, <3>1 DEF OutputInv
  <2> QED
    BY <1>9, <2>1, <2>2
<1>11. TypesInv'
  BY <1>1, <1>2, <1>3, <1>9 DEF TypesInv, Arrives, listVars
<1> QED
  BY <1>4, <1>5, <1>6, <1>10, <1>11 DEF ServerInvariant

LEMMA ReceivePacketStep ==
  ASSUME ServerInvariant, ReceivePacket
  PROVE  ServerInvariant'
<1>1. CASE net # << >>
  <2>1. Arrives /\ Head(net) = net[1]
    <3>1. net \in Seq(Segment)
      BY DEF ServerInvariant, TypesInv
    <3>2. Head(net) = net[1]
      BY <1>1, <3>1
    <3> QED
      BY <1>1, <3>2 DEF ReceivePacket, Arrives, Goes
  <2>2. IF net[1].kind = "syn" THEN NewConnection(net[1].from)
        ELSE IF net[1].from \in Listed THEN Established(net[1])
        ELSE UNCHANGED << listVars, conn, handshakeVars, pollout, closed >>
    BY <1>1, <2>1 DEF ReceivePacket
  <2>3. CASE net[1].kind = "syn"
    BY <2>1, <2>2, <2>3, NewConnectionStep
  <2>4. CASE net[1].kind # "syn" /\ net[1].from \in Listed
    <3>1. CASE IsHandshakeAck(net[1])
      BY <2>1, <2>2, <2>4, <3>1, SwallowStep DEF Established
    <3>2. CASE ~IsHandshakeAck(net[1])
      BY <2>1, <2>2, <2>4, <3>2, ReceiveStep DEF Established
    <3> QED
      BY <3>1, <3>2
  <2>5. CASE net[1].kind # "syn" /\ net[1].from \notin Listed
    <3>1. UNCHANGED << listVars, conn, new_connection, accepted, swallowed, pollout >>
      BY <2>2, <2>5 DEF handshakeVars
    <3> QED
      BY <2>1, <2>5, <3>1, IgnoredStep
  <2> QED
    BY <2>3, <2>4, <2>5
<1>2. CASE net = << >>
  <2>1. /\ UNCHANGED << net, listVars, conn, handshakeVars, pollout, reader, client, ack_lost >>
        /\ phase' = "timer"
    BY <1>2 DEF ReceivePacket, Goes
  <2>2. TypesInv /\ OutputInv /\ ListInv /\ NetInv /\ SwallowInv
    BY DEF ServerInvariant
  <2>3. ListInv' /\ Listed' = Listed /\ Accepted' = Accepted
    BY <2>1, <2>2, ListUntouched DEF handshakeVars
  <2>4. TypesInv' /\ OutputInv'
    BY <2>1, <2>2 DEF TypesInv, OutputInv, listVars, handshakeVars
  <2>5. NetInv'
    BY <2>1, <2>2, <2>3 DEF NetInv
  <2>6. SwallowInv'
    BY <2>1, <2>2, <2>3 DEF SwallowInv, OnlyHandshakeSwallowed, handshakeVars
  <2> QED
    BY <2>3, <2>4, <2>5, <2>6 DEF ServerInvariant
<1> QED
  BY <1>1, <1>2

(* Steps that change the connections, but not which are destroyed.          *)
LEMMA ConnectionsStep ==
  ASSUME ServerInvariant, UNCHANGED << listVars, handshakeVars, envVars, reader >>,
         phase # "timer", phase' \in {"stdout", "socket"}, pollout' \in BOOLEAN,
         conn' \in [Clients -> ConnRecord],
         \A p \in Clients : ConnInv(conn'[p]) /\ conn'[p].delete_me = conn[p].delete_me
  PROVE  ServerInvariant'
<1>1. TypesInv /\ OutputInv /\ ListInv /\ NetInv /\ SwallowInv
  BY DEF ServerInvariant
<1>2. Listed' = Listed /\ Accepted' = Accepted /\ Listed \subseteq Clients
  BY ListOrder DEF Listed, Accepted, listVars, handshakeVars
<1>3. TypesInv'
  BY <1>1 DEF TypesInv, listVars, handshakeVars, envVars
<1>4. OutputInv'
  BY DEF OutputInv
<1>5. ListInv'
  <2>1. ListIsExact'
    BY <1>1, <1>2 DEF ListInv, ListIsExact, listVars, handshakeVars
  <2>2. \A p \in Listed' : ~conn'[p].delete_me
    BY <1>1, <1>2 DEF ListInv
  <2> QED
    BY <1>1, <1>2, <2>1, <2>2 DEF ListInv, listVars, handshakeVars
<1>6. NetInv'
  BY <1>1, <1>2 DEF NetInv, envVars
<1>7. SwallowInv'
  BY <1>1, <1>2 DEF SwallowInv, OnlyHandshakeSwallowed, envVars, handshakeVars
<1> QED
  BY <1>3, <1>4, <1>5, <1>6, <1>7 DEF ServerInvariant

LEMMA PollStep ==
  ASSUME ServerInvariant, Poll
  PROVE  ServerInvariant'
<1>1. /\ phase = "poll" /\ phase' \in {"stdout", "socket"} /\ pollout' = pollout
      /\ UNCHANGED << listVars, handshakeVars, envVars, reader >>
  BY DEF Poll, ioVars
<1>2. PICK eof \in IF connections = << >> THEN {FALSE} ELSE BOOLEAN :
        conn' = IF eof THEN [conn EXCEPT ![Head(connections)].read_eof = TRUE] ELSE conn
  BY DEF Poll
<1>3. TypesInv /\ OutputInv
  BY DEF ServerInvariant
<1>4. CASE conn' = conn
  BY <1>1, <1>3, <1>4, ConnectionsStep DEF OutputInv, TypesInv
<1>5. CASE conn' # conn
  <2> DEFINE p == Head(connections)
             c == conn[p]
             d == [c EXCEPT !.read_eof = TRUE]
  <2>1. connections # << >> /\ eof
    BY <1>2, <1>5
  <2>2. p \in Clients
    BY <1>3, <2>1, HeadTailProperties DEF TypesInv
  <2>3. conn' = [conn EXCEPT ![p] = d]
    BY <1>2, <2>1
  <2> HIDE DEF p
  <2>4. ConnInv(c) /\ c \in ConnRecord
    BY <1>3, <2>2 DEF OutputInv
  <2>5. d \in ConnRecord
    BY <2>4 DEF ConnRecord
  <2>6. /\ d.out_queue = c.out_queue /\ d.written = c.written /\ d.wrote_err = c.wrote_err
        /\ d.acked = c.acked /\ d.waiting = c.waiting /\ d.received = c.received
        /\ d.delete_me = c.delete_me
    BY <2>4 DEF ConnRecord
  <2> HIDE DEF d
  <2>7. Len(d.waiting) <= d.received
    BY <2>4, <2>6 DEF ConnInv
  <2>8. ConnInv(d)
    BY <2>4, <2>5, <2>6, <2>7, MarksAside
  <2>9. conn' \in [Clients -> ConnRecord]
    BY <1>3, <2>2, <2>3, <2>5 DEF OutputInv
  <2>10. ASSUME NEW q \in Clients
         PROVE  ConnInv(conn'[q]) /\ conn'[q].delete_me = conn[q].delete_me
    <3>1. CASE q = p
      <4>1. conn'[q] = d
        BY <1>3, <2>2, <2>3, <3>1 DEF OutputInv
      <4> QED
        BY <2>6, <2>8, <3>1, <4>1
    <3>2. CASE q # p
      <4>1. conn'[q] = conn[q]
        BY <1>3, <2>2, <2>3, <3>2 DEF OutputInv
      <4> QED
        BY <1>3, <4>1 DEF OutputInv
    <3> QED
      BY <3>1, <3>2
  <2> QED
    BY <1>1, <1>3, <2>9, <2>10, ConnectionsStep DEF TypesInv
<1> QED
  BY <1>4, <1>5

LEMMA DrainStdoutStep ==
  ASSUME ServerInvariant, DrainStdout
  PROVE  ServerInvariant'
<1>1. /\ phase = "stdout" /\ phase' = "socket"
      /\ UNCHANGED << listVars, handshakeVars, envVars, reader >>
  BY DEF DrainStdout, Goes
<1>2. PICK x \in DrainAll : conn' = x.conns /\ pollout' = x.pollout
  BY DEF DrainStdout
<1>3. x \in Passes
  BY <1>2, DrainAllStays DEF ServerInvariant, TypesInv
<1>4. /\ x.conns \in [Clients -> ConnRecord] /\ x.pollout \in BOOLEAN
      /\ \A p \in Clients : ConnInv(x.conns[p]) /\ x.conns[p].delete_me = conn[p].delete_me
  BY <1>3 DEF Passes
<1> QED
  BY <1>1, <1>2, <1>4, ConnectionsStep

(* What a client does leaves the server alone.                              *)
LEMMA ClientsAside ==
  ASSUME ServerInvariant, UNCHANGED << listVars, conn, ioVars, handshakeVars, phase >>,
         net' \in Seq(Segment),
         client' \in [Clients -> {"idle", "handshake", "connected", "done"}]
  PROVE  TypesInv' /\ OutputInv' /\ ListInv' /\ Listed' = Listed /\ Accepted' = Accepted
<1>1. TypesInv /\ OutputInv /\ ListInv
  BY DEF ServerInvariant
<1>2. Listed' = Listed /\ Accepted' = Accepted
  BY DEF Listed, Accepted, listVars, handshakeVars
<1>3. TypesInv'
  BY <1>1 DEF TypesInv, listVars, handshakeVars, ioVars
<1>4. OutputInv'
  BY <1>1 DEF OutputInv
<1>5. ListIsExact'
  BY <1>1, <1>2 DEF ListInv, ListIsExact, listVars, handshakeVars
<1>6. ListInv'
  BY <1>1, <1>2, <1>5 DEF ListInv, listVars, handshakeVars
<1> QED
  BY <1>2, <1>3, <1>4, <1>6

(* A segment is sent by a client that may send it.                          *)
LEMMA SentStep ==
  ASSUME ServerInvariant, UNCHANGED << listVars, conn, ioVars, handshakeVars, phase >>,
         ack_lost' = ack_lost,
         NEW p \in Clients, NEW s \in Segment, s.from = p, net' = Append(net, s),
         NEW state \in {"handshake", "connected", "done"}, client' = [client EXCEPT ![p] = state],
         IF s.kind = "syn" THEN state = "handshake" /\ client[p] = "idle"
         ELSE /\ state # "handshake" /\ p \in Accepted
              /\ s.kind # "ack" => client[p] # "handshake",
         s.kind = "data" => s.n \in DOMAIN Sizes[p]
  PROVE  ServerInvariant'
<1> DEFINE n == Len(net)
<1>1. TypesInv /\ NetInv /\ SwallowInv
  BY DEF ServerInvariant
<1>2. net \in Seq(Segment) /\ client \in [Clients -> {"idle", "handshake", "connected", "done"}]
  BY <1>1 DEF TypesInv
<1>3. /\ net' \in Seq(Segment) /\ Len(net') = n + 1 /\ net'[n + 1] = s
      /\ \A i \in 1..n : net'[i] = net[i]
  BY <1>2, AppendProperties
<1>4. /\ n \in Nat /\ DOMAIN net = 1..n /\ DOMAIN net' = 1..(n + 1)
      /\ \A i \in 1..n : net[i] \in Segment
  BY <1>2, <1>3, NetTypes, LenProperties
<1> HIDE DEF n
<1>5. \A i \in 1..(n + 1) : i = n + 1 \/ i \in 1..n
  BY <1>4
<1>6. /\ client' \in [Clients -> {"idle", "handshake", "connected", "done"}]
      /\ client'[p] = state /\ \A q \in Clients : q # p => client'[q] = client[q]
  BY <1>2
<1>7. TypesInv' /\ OutputInv' /\ ListInv' /\ Listed' = Listed /\ Accepted' = Accepted
  BY <1>3, <1>6, ClientsAside
(* What p has in transit already.                                           *)
<1>8. ASSUME NEW i \in 1..n, net[i].from = p
      PROVE  net[i].kind # "syn" /\ client[p] \in {"connected", "done"} /\ s.kind # "syn"
  <2>1. CASE s.kind = "syn"
    BY <1>1, <1>4, <1>8, <2>1 DEF NetInv
  <2>2. CASE s.kind # "syn"
    BY <1>1, <1>4, <1>8, <2>2 DEF NetInv
  <2> QED
    BY <2>1, <2>2
<1>9. NetInv'
  <2>1. ASSUME NEW i \in DOMAIN net'
        PROVE  LET q == net'[i].from
               IN  IF net'[i].kind = "syn"
                   THEN /\ client'[q] = "handshake" /\ q \notin Accepted'
                        /\ \A j \in DOMAIN net' : net'[j].from = q => j = i
                   ELSE client'[q] \in {"connected", "done"} /\ q \in Accepted'
    <3>1. CASE i = n + 1
      <4>1. net'[i] = s
        BY <1>3, <3>1
      <4>2. CASE s.kind = "syn"
        <5>1. client'[p] = "handshake" /\ p \notin Accepted'
          BY <1>1, <1>6, <1>7, <4>2 DEF NetInv
        <5>2. ASSUME NEW j \in DOMAIN net', net'[j].from = p PROVE j = i
          BY <1>3, <1>4, <1>5, <1>8, <3>1, <4>2, <5>2
        <5> QED
          BY <4>1, <4>2, <5>1, <5>2
      <4>3. CASE s.kind # "syn"
        BY <1>6, <1>7, <4>1, <4>3
      <4> QED
        BY <4>2, <4>3
    <3>2. CASE i \in 1..n
      <4>1. net'[i] = net[i] /\ net[i].from \in Clients
        BY <1>3, <1>4, <3>2 DEF Segment
      <4>2. CASE net[i].from = p
        <5>1. net[i].kind # "syn" /\ s.kind # "syn"
          BY <1>8, <3>2, <4>2
        <5> QED
          BY <1>6, <1>7, <4>1, <4>2, <5>1
      <4>3. CASE net[i].from # p
        <5>1. client'[net[i].from] = client[net[i].from]
          BY <1>6, <4>1, <4>3
        <5>2. CASE net[i].kind = "syn"
          <6>1. /\ client[net[i].from] = "handshake" /\ net[i].from \notin Accepted
                /\ \A j \in 1..n : net[j].from = net[i].from => j = i
            BY <1>1, <1>4, <3>2, <5>2 DEF NetInv
          <6>2. ASSUME NEW j \in DOMAIN net', net'[j].from = net[i].from PROVE j = i
            <7>1. j # n + 1
              BY <1>3, <4>3, <6>2
            <7>2. j \in 1..n /\ net'[j] = net[j]
              BY <1>3, <1>4, <1>5, <7>1
            <7> QED
              BY <6>1, <6>2, <7>2
          <6> QED
            BY <1>7, <4>1, <5>1, <5>2, <6>1, <6>2
        <5>3. CASE net[i].kind # "syn"
          BY <1>1, <1>4, <1>7, <3>2, <4>1, <5>1, <5>3 DEF NetInv
        <5> QED
          BY <5>2, <5>3
      <4> QED
        BY <4>2, <4>3
    <3> QED
      BY <1>4, <1>5, <3>1, <3>2
  <2>2. ASSUME NEW i \in DOMAIN net', net'[i].kind = "data"
        PROVE  net'[i].n \in DOMAIN Sizes[net'[i].from]
    <3>1. CASE i = n + 1
      BY <1>3, <2>2, <3>1
    <3>2. CASE i \in 1..n
      BY <1>1, <1>3, <1>4, <2>2, <3>2 DEF NetInv
    <3> QED
      BY <1>4, <1>5, <3>1, <3>2
  <2>3. ASSUME NEW q \in Clients
        PROVE  /\ client'[q] = "idle" => q \notin Accepted'
               /\ client'[q] \in {"connected", "done"} => q \in Accepted'
    <3>1. CASE q = p
      BY <1>6, <1>7, <3>1
    <3>2. CASE q # p
      BY <1>1, <1>6, <1>7, <3>2 DEF NetInv
    <3> QED
      BY <3>1, <3>2
  <2> QED
    BY <2>1, <2>2, <2>3 DEF NetInv
<1>10. SwallowInv'
  <2>1. new_connection' = new_connection /\ swallowed' = swallowed
    BY DEF handshakeVars
  <2>2. ASSUME new_connection # NoClient, new_connection \in Listed,
               new_connection \notin ack_lost, client'[new_connection] # "handshake"
        PROVE  \E i \in DOMAIN net' :
                 /\ net'[i].from = new_connection /\ net'[i].kind = "ack"
                 /\ \A j \in 1..(i - 1) : net'[j].from # new_connection
    <3>0. new_connection \in Clients
      BY <1>1, <2>2 DEF TypesInv
    <3>1. CASE client[new_connection] # "handshake"
      <4>1. PICK i \in 1..n :
              /\ net[i].from = new_connection /\ net[i].kind = "ack"
              /\ \A j \in 1..(i - 1) : net[j].from # new_connection
        BY <1>1, <1>4, <2>2, <3>1 DEF SwallowInv
      <4>2. \A j \in 1..(i - 1) : j \in 1..n
        BY <1>4
      <4>3. i \in DOMAIN net'
        BY <1>4
      <4> QED
        BY <1>3, <4>1, <4>2, <4>3
    <3>2. CASE client[new_connection] = "handshake"
      <4>1. new_connection = p
        BY <1>6, <2>2, <3>0, <3>2
      <4>2. s.kind = "ack"
        BY <1>6, <2>2, <3>2, <4>1
      <4>3. \A j \in 1..n : net[j].from # p
        BY <1>8, <3>2, <4>1
      <4>4. n + 1 \in DOMAIN net' /\ (n + 1) - 1 = n
        BY <1>4
      <4> QED
        BY <1>3, <4>1, <4>2, <4>3, <4>4
    <3> QED
      BY <3>1, <3>2
  <2>3. OnlyHandshakeSwallowed'
    BY <1>1, <2>1 DEF SwallowInv, OnlyHandshakeSwallowed
  <2> QED
    BY <1>1, <1>7, <2>1, <2>2, <2>3 DEF SwallowInv
<1> QED
  BY <1>7, <1>9, <1>10 DEF ServerInvariant

(* The handshake ACK is lost: the client takes it for received.             *)
LEMMA AckLostStep ==
  ASSUME ServerInvariant, UNCHANGED << listVars, conn, ioVars, handshakeVars, phase, net >>,
         NEW p \in Clients, client[p] = "handshake", p \in Accepted,
         ack_lost' = ack_lost \cup {p}, client' = [client EXCEPT ![p] = "connected"]
  PROVE  ServerInvariant'
<1>1. TypesInv /\ NetInv /\ SwallowInv
  BY DEF ServerInvariant
<1>2. /\ client' \in [Clients -> {"idle", "handshake", "connected", "done"}]
      /\ client'[p] = "connected" /\ \A q \in Clients : q # p => client'[q] = client[q]
  BY <1>1 DEF TypesInv
<1>3. net' \in Seq(Segment) /\ \A i \in DOMAIN net : net[i] \in Segment
  BY <1>1, NetTypes DEF TypesInv
<1>4. TypesInv' /\ OutputInv' /\ ListInv' /\ Listed' = Listed /\ Accepted' = Accepted
  BY <1>2, <1>3, ClientsAside
<1>5. \A i \in DOMAIN net : net[i].from # p
  BY <1>1, <1>2 DEF NetInv
<1>6. NetInv'
  <2>1. \A i \in DOMAIN net : client'[net[i].from] = client[net[i].from]
    BY <1>2, <1>3, <1>5 DEF Segment
  <2>2. \A q \in Clients : /\ client'[q] = "idle" => q \notin Accepted'
                           /\ client'[q] \in {"connected", "done"} => q \in Accepted'
    BY <1>1, <1>2, <1>4 DEF NetInv
  <2> QED
    BY <1>1, <1>4, <2>1, <2>2 DEF NetInv
<1>7. SwallowInv'
  <2>1. new_connection' = new_connection /\ swallowed' = swallowed
    BY DEF handshakeVars
  <2>2. ASSUME new_connection # NoClient, new_connection \in Listed,
               new_connection \notin ack_lost', client'[new_connection] # "handshake"
        PROVE  new_connection \notin ack_lost /\ client[new_connection] # "handshake"
    <3>1. new_connection \in Clients /\ new_connection # p
      BY <1>1, <2>2 DEF TypesInv
    <3> QED
      BY <1>2, <2>2, <3>1
  <2>3. OnlyHandshakeSwallowed'
    BY <1>1, <2>1 DEF SwallowInv, OnlyHandshakeSwallowed
  <2> QED
    BY <1>1, <1>4, <2>1, <2>2, <2>3 DEF SwallowInv
<1> QED
  BY <1>4, <1>6, <1>7 DEF ServerInvariant

LEMMA ClientActsStep ==
  ASSUME ServerInvariant, ClientActs
  PROVE  ServerInvariant'
<1>1. UNCHANGED << listVars, conn, ioVars, handshakeVars, phase >>
  BY DEF ClientActs
<1>2. TypesInv /\ OutputInv /\ NetInv
  BY DEF ServerInvariant
<1>3. client \in [Clients -> {"idle", "handshake", "connected", "done"}]
  BY <1>2 DEF TypesInv
<1>4. PICK p \in Clients : SendSyn(p) \/ SynAckArrives(p) \/ SendData(p) \/ SendLast(p)
  BY DEF ClientActs
<1>5. \A kind \in {"syn", "ack", "data", "last"}, n \in Nat :
        [from |-> p, kind |-> kind, n |-> n] \in Segment
  BY DEF Segment
<1>6. CASE SendSyn(p)
  <2> DEFINE s == [from |-> p, kind |-> "syn", n |-> 0]
  <2>1. /\ client[p] = "idle" /\ net' = Append(net, s) /\ ack_lost' = ack_lost
        /\ client' = [client EXCEPT ![p] = "handshake"]
    BY <1>6 DEF SendSyn, Sends
  <2>2. s \in Segment /\ s.from = p /\ s.kind = "syn"
    BY <1>5
  <2> HIDE DEF s
  <2> QED
    BY <1>1, <2>1, <2>2, SentStep
<1>7. CASE SynAckArrives(p)
  <2>1. /\ client[p] = "handshake" /\ p \in Accepted
        /\ client' = [client EXCEPT ![p] = "connected"]
    BY <1>7 DEF SynAckArrives
  <2>2. CASE Sends(p, "ack", 0) /\ UNCHANGED ack_lost
    <3> DEFINE s == [from |-> p, kind |-> "ack", n |-> 0]
    <3>1. net' = Append(net, s) /\ ack_lost' = ack_lost
      BY <2>2 DEF Sends
    <3>2. s \in Segment /\ s.from = p /\ s.kind = "ack"
      BY <1>5
    <3> HIDE DEF s
    <3> QED
      BY <1>1, <2>1, <3>1, <3>2, SentStep
  <2>3. CASE ack_lost' = ack_lost \cup {p} /\ UNCHANGED net
    BY <1>1, <2>1, <2>3, AckLostStep
  <2> QED
    BY <1>7, <2>2, <2>3 DEF SynAckArrives
<1>8. CASE SendData(p)
  <2>1. client[p] = "connected" /\ client' = client /\ ack_lost' = ack_lost
    BY <1>8 DEF SendData
  <2>2. PICK n \in Unacked(p) \cup {conn[p].received + 1} :
          n <= Len(Sizes[p]) /\ Sends(p, "data", n)
    BY <1>8 DEF SendData
  <2>3. n \in Nat \ {0}
    <3>1. ConnInv(conn[p])
      BY <1>2 DEF OutputInv
    <3>2. /\ conn[p].received \in Nat /\ conn[p].waiting \in Seq(Nat)
          /\ Len(conn[p].waiting) <= conn[p].received
      BY <3>1, ConnTypes DEF ConnInv
    <3>3. Len(conn[p].waiting) \in Nat
      BY <3>2, LenProperties
    <3> QED
      BY <2>2, <3>2, <3>3 DEF Unacked
  <2>4. n \in DOMAIN Sizes[p]
    <3>1. Sizes[p] \in Seq(1..BufSpace)
      BY ServerAssumption
    <3>2. DOMAIN Sizes[p] = 1..Len(Sizes[p]) /\ Len(Sizes[p]) \in Nat
      BY <3>1, LenProperties
    <3> QED
      BY <2>2, <2>3, <3>2
  <2> DEFINE s == [from |-> p, kind |-> "data", n |-> n]
  <2>5. net' = Append(net, s)
    BY <2>2 DEF Sends
  <2>6. s \in Segment /\ s.from = p /\ s.kind = "data" /\ s.n = n
    BY <1>5, <2>3
  <2>7. client' = [client EXCEPT ![p] = "connected"] /\ p \in Accepted
    BY <1>2, <1>3, <2>1 DEF NetInv
  <2> HIDE DEF s
  <2> QED
    BY <1>1, <2>1, <2>4, <2>5, <2>6, <2>7, SentStep
<1>9. CASE SendLast(p)
  <2> DEFINE s == [from |-> p, kind |-> "last", n |-> 0]
  <2>1. /\ client[p] = "connected" /\ net' = Append(net, s) /\ ack_lost' = ack_lost
        /\ client' = [client EXCEPT ![p] = "done"]
    BY <1>9 DEF SendLast, Sends
  <2>2. s \in Segment /\ s.from = p /\ s.kind = "last" /\ p \in Accepted
    BY <1>2, <1>5, <2>1 DEF NetInv
  <2> HIDE DEF s
  <2> QED
    BY <1>1, <2>1, <2>2, SentStep
<1> QED
  BY <1>4, <1>6, <1>7, <1>8, <1>9

LEMMA ReaderLeavesStep ==
  ASSUME ServerInvariant, ReaderLeaves
  PROVE  ServerInvariant'
<1>1. /\ UNCHANGED << pollout, envVars, listVars, conn, handshakeVars, phase >>
      /\ reader' = FALSE
  BY DEF ReaderLeaves
<1>2. TypesInv /\ OutputInv /\ ListInv /\ NetInv /\ SwallowInv
  BY DEF ServerInvariant
<1>3. Listed' = Listed /\ Accepted' = Accepted
  BY <1>1 DEF Listed, Accepted, listVars, handshakeVars
<1>4. TypesInv' /\ OutputInv'
  BY <1>1, <1>2 DEF TypesInv, OutputInv, listVars, handshakeVars, envVars
<1>5. ListInv'
  BY <1>1, <1>2, <1>3 DEF ListInv, ListIsExact, listVars, handshakeVars
<1>6. NetInv' /\ SwallowInv'
  BY <1>1, <1>2, <1>3
     DEF NetInv, SwallowInv, OnlyHandshakeSwallowed, envVars, handshakeVars
<1> QED
  BY <1>4, <1>5, <1>6 DEF ServerInvariant

-----------------------------------------------------------------------------
(* Freed connections *)

(* A step frees no connection but the ones the timer phase deletes, and     *)
(* leaves the mark of those that are freed.                                 *)
LEMMA FreedSteps == ServerInvariant /\ FreedInv /\ [Next]_vars => FreedInv'
<1> SUFFICES ASSUME ServerInvariant, FreedInv, [Next]_vars PROVE FreedInv'
  OBVIOUS
<1>1. /\ connections \in Seq(Clients) /\ conn \in [Clients -> ConnRecord]
      /\ pollout \in BOOLEAN /\ OutputInv /\ net \in Seq(Segment)
  BY DEF ServerInvariant, TypesInv, OutputInv
<1>2. Listed \cap freed = {} /\ Listed \subseteq Accepted
  BY ListOrder
<1>3. ASSUME freed' = freed, NEW q \in Clients, q \notin freed,
             NEW c, conn' = conn \/ conn' = [conn EXCEPT ![q] = c]
      PROVE  FreedInv'
  <2>1. \A p \in freed : p \in Clients /\ p # q /\ conn[p].delete_me
    BY <1>3 DEF FreedInv
  <2>2. \A p \in freed : conn'[p] = conn[p]
    BY <1>1, <1>3, <2>1
  <2> QED
    BY <1>3, <2>1, <2>2 DEF FreedInv
<1>4. ASSUME freed' = freed, conn' = conn PROVE FreedInv'
  BY <1>4 DEF FreedInv
<1>5. CASE Poll
  <2>1. freed' = freed
    BY <1>5 DEF Poll, listVars
  <2>2. PICK eof \in IF connections = << >> THEN {FALSE} ELSE BOOLEAN :
          conn' = IF eof THEN [conn EXCEPT ![Head(connections)].read_eof = TRUE] ELSE conn
    BY <1>5 DEF Poll
  <2>3. CASE conn' = conn
    BY <1>4, <2>1, <2>3
  <2>4. CASE conn' # conn
    <3> DEFINE q == Head(connections)
    <3>1. connections # << >> /\ conn' = [conn EXCEPT ![q] = [conn[q] EXCEPT !.read_eof = TRUE]]
      BY <2>2, <2>4
    <3>2. q \in Clients /\ q \in Listed
      <4>1. q = connections[1] /\ 1 \in DOMAIN connections
        BY <1>1, <3>1, EmptySeq, LenProperties
      <4> QED
        BY <1>1, <4>1, ElementOfSeq DEF Listed
    <3> QED
      BY <1>2, <1>3, <2>1, <3>1, <3>2
  <2> QED
    BY <2>3, <2>4
<1>6. CASE DrainStdout
  <2>1. freed' = freed
    BY <1>6 DEF DrainStdout, listVars
  <2>2. PICK x \in DrainAll : conn' = x.conns
    BY <1>6 DEF DrainStdout
  <2>3. x \in Passes
    BY <1>1, <2>2, DrainAllStays
  <2>4. \A p \in Clients : conn'[p].delete_me = conn[p].delete_me
    BY <2>2, <2>3 DEF Passes
  <2> QED
    BY <2>1, <2>4 DEF FreedInv
<1>7. CASE ReceivePacket
  <2> DEFINE s == Head(net)
  <2>1. CASE net = << >>
    <3>1. freed' = freed /\ conn' = conn
      BY <1>7, <2>1 DEF ReceivePacket, listVars
    <3> QED
      BY <1>4, <3>1
  <2>2. CASE net # << >>
    <3>1. IF s.kind = "syn" THEN NewConnection(s.from)
          ELSE IF s.from \in Listed THEN Established(s)
          ELSE UNCHANGED << listVars, conn, handshakeVars, pollout, closed >>
      BY <1>7, <2>2 DEF ReceivePacket
    <3>2. s \in Segment /\ s = net[1] /\ 1 \in DOMAIN net
      BY <1>1, <2>2, EmptySeq, LenProperties, ElementOfSeq
    <3>3. s.from \in Clients /\ s.kind \in {"syn", "ack", "data", "last"}
      BY <3>2 DEF Segment
    <3>4. CASE s.kind = "syn"
      <4>1. s.from \notin freed
        BY <3>2, <3>4 DEF ServerInvariant, NetInv, ListInv
      <4>2. freed' = freed /\ (conn' = conn \/ conn' = [conn EXCEPT ![s.from] = NewConn])
        BY <3>1, <3>4 DEF NewConnection, listVars
      <4> QED
        BY <1>3, <3>3, <4>1, <4>2
    <3>5. CASE s.kind # "syn" /\ s.from \in Listed
      <4>1. CASE IsHandshakeAck(s)
        BY <1>4, <3>1, <3>5, <4>1 DEF Established, listVars
      <4>2. CASE ~IsHandshakeAck(s)
        <5>1. freed' = freed /\ ctcp_receive(s)
          BY <3>1, <3>5, <4>2 DEF Established, listVars
        <5>2. \/ conn' = conn
              \/ \E c : conn' = [conn EXCEPT ![s.from] = c]
          BY <3>3, <3>5, <5>1 DEF ctcp_receive
        <5>3. s.from \notin freed
          BY <1>2, <3>5
        <5> QED
          BY <1>3, <1>4, <3>3, <5>1, <5>2, <5>3
      <4> QED
        BY <4>1, <4>2
    <3>6. CASE s.kind # "syn" /\ s.from \notin Listed
      BY <1>4, <3>1, <3>6 DEF listVars
    <3> QED
      BY <3>4, <3>5, <3>6
  <2> QED
    BY <2>1, <2>2
<1>8. CASE TimerAndDelete
  <2> PICK D \in SUBSET Live :
        LET doomed == {p \in Listed : p \in D \/ conn[p].delete_me}
        IN  /\ delete_all_connections(doomed)
            /\ conn' = [p \in Clients |->
                 IF p \in doomed THEN conn_remove(NewConn)
                 ELSE IF p \in D THEN conn_remove(conn[p]) ELSE conn[p]]
    BY <1>8 DEF TimerAndDelete
  <2> DEFINE doomed == {p \in Listed : p \in D \/ conn[p].delete_me}
  <2>1. freed' = freed \cup doomed
    BY DEF delete_all_connections
  <2>2. \A c \in ConnRecord : conn_remove(c).delete_me
    BY DEF conn_remove, ConnRecord
  <2>3. NewConn \in ConnRecord
    BY NewConnInv DEF ConnInv
  <2>4. doomed \subseteq Clients /\ freed \subseteq Clients
    BY ListOrder DEF FreedInv
  <2>5. ASSUME NEW p \in Clients, p \in freed \/ p \in doomed PROVE conn'[p].delete_me
    <3>1. conn'[p] = IF p \in doomed THEN conn_remove(NewConn)
                     ELSE IF p \in D THEN conn_remove(conn[p]) ELSE conn[p]
      OBVIOUS
    <3>2. conn[p] \in ConnRecord
      BY <1>1
    <3> HIDE DEF doomed
    <3> QED
      BY <2>2, <2>3, <2>5, <3>1, <3>2 DEF FreedInv
  <2> HIDE DEF doomed
  <2> QED
    BY <2>1, <2>4, <2>5 DEF FreedInv
<1>9. CASE ClientActs \/ ReaderLeaves \/ UNCHANGED vars
  <2>1. freed' = freed /\ conn' = conn
    BY <1>9 DEF ClientActs, ReaderLeaves, vars, listVars
  <2> QED
    BY <1>4, <2>1
<1> QED
  BY <1>5, <1>6, <1>7, <1>8, <1>9 DEF Next, Loop

(* Whatever was accepted after the head is not listed, so it was freed.     *)
LEMMA NewestAtHead ==
  ASSUME ServerInvariant, FreedInv
  PROVE  NewestFirst
<1>1. /\ connections \in Seq(Clients) /\ accepted \in Seq(Clients)
      /\ newest_freed \in 0..Len(accepted)
  BY DEF ServerInvariant, TypesInv
<1>2. /\ Listed = {accepted[i] : i \in (newest_freed + 1)..Len(accepted)} \ freed
      /\ \A i, j \in DOMAIN connections : i < j => AcceptedAfter(connections[i], connections[j])
      /\ \A a, b \in DOMAIN accepted : accepted[a] = accepted[b] => a = b
  BY DEF ServerInvariant, ListInv, ListIsExact, AcceptedAfter
<1>3. /\ DOMAIN connections = 1..Len(connections) /\ DOMAIN accepted = 1..Len(accepted)
      /\ Len(accepted) \in Nat /\ Len(connections) \in Nat
  BY <1>1, ListedAre
<1>4. ASSUME connections # << >>, NEW p \in Live, AcceptedAfter(p, Head(connections))
      PROVE  FALSE
  <2>1. Head(connections) = connections[1] /\ 1 \in DOMAIN connections
    BY <1>1, <1>3, <1>4, EmptySeq
  <2>2. PICK a, b \in 1..Len(accepted) :
          accepted[a] = p /\ accepted[b] = connections[1] /\ a > b
    BY <1>3, <1>4, <2>1 DEF AcceptedAfter
  <2>3. PICK i \in (newest_freed + 1)..Len(accepted) : accepted[i] = connections[1]
    BY <1>2, <2>1 DEF Listed
  <2>4. b = i /\ a \in (newest_freed + 1)..Len(accepted)
    BY <1>1, <1>2, <1>3, <2>2, <2>3
  <2>5. p \notin freed
    BY <1>4 DEF FreedInv, Live
  <2>6. p \in Listed
    BY <1>2, <2>2, <2>4, <2>5
  <2>7. PICK j \in DOMAIN connections : connections[j] = p
    BY <2>6 DEF Listed
  <2>8. j # 1
    BY <1>2, <1>3, <2>2, <2>7
  <2>9. PICK x, y \in DOMAIN accepted :
          accepted[x] = connections[1] /\ accepted[y] = p /\ x > y
    BY <1>2, <1>3, <2>1, <2>7, <2>8 DEF AcceptedAfter
  <2>10. x = b /\ y = a
    BY <1>2, <1>3, <2>2, <2>9
  <2> QED
    BY <1>3, <2>2, <2>9, <2>10
<1> QED
  BY <1>2, <1>4 DEF NewestFirst

-----------------------------------------------------------------------------
(* The theorems *)

LEMMA ServerStarts == Init => ServerInvariant
<1> SUFFICES ASSUME Init PROVE ServerInvariant
  OBVIOUS
<1>1. /\ connections = << >> /\ freed = {} /\ newest_freed = 0
      /\ conn = [p \in Clients |-> NewConn]
      /\ pollout = TRUE /\ reader = TRUE /\ new_connection = NoClient /\ accepted = << >>
      /\ swallowed = [p \in Clients |-> {}] /\ phase = "poll" /\ net = << >>
      /\ client = [p \in Clients |-> "idle"] /\ ack_lost = {}
  BY DEF Init
<1>2. Listed = {} /\ Accepted = {} /\ DOMAIN connections = {} /\ DOMAIN accepted = {}
      /\ DOMAIN net = {} /\ Len(accepted) = 0
  BY <1>1 DEF Listed, Accepted
<1>3. TypesInv
  BY <1>1, <1>2 DEF TypesInv
<1>4. OutputInv
  <2>1. NewConn \in ConnRecord /\ ConnInv(NewConn)
    BY NewConnInv, ConnTypes
  <2> QED
    BY <1>1, <2>1 DEF OutputInv
<1>5. ListInv
  <2>1. {accepted[i] : i \in (newest_freed + 1)..Len(accepted)} = {}
    BY <1>1, <1>2
  <2>2. ListIsExact
    BY <1>2, <2>1 DEF ListIsExact
  <2> QED
    BY <1>1, <1>2, <2>2 DEF ListInv
<1>6. NetInv
  BY <1>1, <1>2 DEF NetInv
<1>7. SwallowInv
  BY <1>1 DEF SwallowInv, OnlyHandshakeSwallowed
<1> QED
  BY <1>3, <1>4, <1>5, <1>6, <1>7 DEF ServerInvariant

LEMMA ServerSteps == ServerInvariant /\ [Next]_vars => ServerInvariant'
<1> SUFFICES ASSUME ServerInvariant, [Next]_vars PROVE ServerInvariant'
  OBVIOUS
<1>1. CASE Poll
  BY <1>1, PollStep
<1>2. CASE DrainStdout
  BY <1>2, DrainStdoutStep
<1>3. CASE ReceivePacket
  BY <1>3, ReceivePacketStep
<1>4. CASE TimerAndDelete
  BY <1>4, TimerAndDeleteStep
<1>5. CASE ClientActs
  BY <1>5, ClientActsStep
<1>6. CASE ReaderLeaves
  BY <1>6, ReaderLeavesStep
<1>7. CASE UNCHANGED vars
  <2>1. UNCHANGED << connections, freed, newest_freed, cut, conn, pollout, reader,
                     new_connection, accepted, swallowed, phase, net, client, ack_lost >>
    BY <1>7 DEF vars, listVars, ioVars, envVars, handshakeVars
  <2>2. Listed' = Listed /\ Accepted' = Accepted
    BY <2>1 DEF Listed, Accepted
  <2> QED
    BY <2>1, <2>2 DEF ServerInvariant, TypesInv, OutputInv, ListInv, ListIsExact, NetInv,
                      SwallowInv, OnlyHandshakeSwallowed
<1> QED
  BY <1>1, <1>2, <1>3, <1>4, <1>5, <1>6, <1>7 DEF Next, Loop

(* The server keeps its invariant: what the others rest on.                 *)
THEOREM ServerCorrect == Spec => []ServerInvariant
BY ServerStarts, ServerSteps, PTL DEF Spec

(* ServerTypeOK: the variables hold what their declarations say, and no     *)
(* chunk in an output queue is empty or done with (conn_output, conn_drain).*)
THEOREM ServerTypes == Spec => []ServerTypeOK
<1>1. ServerInvariant => ServerTypeOK
  <2> SUFFICES ASSUME ServerInvariant PROVE ServerTypeOK
    OBVIOUS
  <2>1. TypesInv /\ OutputInv
    BY DEF ServerInvariant
  <2>2. ASSUME NEW p \in Clients
        PROVE  /\ conn[p].out_queue \in Seq(Chunk) /\ conn[p].waiting \in Seq(Nat)
               /\ \A i \in DOMAIN conn[p].out_queue : Left(conn[p].out_queue[i]) > 0
               /\ conn[p].written \in Seq(Nat)
               /\ {conn[p].acked, conn[p].received} \subseteq Nat
               /\ {conn[p].wrote_err, conn[p].delete_me, conn[p].read_eof} \subseteq BOOLEAN
    <3>1. ConnInv(conn[p])
      BY <2>1 DEF OutputInv
    <3>2. /\ Chained(conn[p].out_queue) /\ conn[p].out_queue \in Seq(Chunk)
          /\ conn[p].waiting \in Seq(Nat)
          /\ conn[p].written \in Seq(Nat) /\ conn[p].acked \in Nat /\ conn[p].received \in Nat
          /\ {conn[p].wrote_err, conn[p].delete_me, conn[p].read_eof} \subseteq BOOLEAN
      BY <3>1, ConnTypes
    <3>3. DOMAIN conn[p].out_queue = 1..Len(conn[p].out_queue)
      BY <3>2, LenProperties
    <3>4. ASSUME NEW i \in DOMAIN conn[p].out_queue PROVE Left(conn[p].out_queue[i]) > 0
      <4> DEFINE chunk == conn[p].out_queue[i]
      <4>1. /\ From(chunk) \in Nat /\ Until(chunk) \in Nat /\ From(chunk) < Until(chunk)
            /\ Left(chunk) = Until(chunk) - From(chunk)
        BY <3>2, <3>3, ChunkTypes
      <4> QED
        BY <4>1
    <3> QED
      BY <3>2, <3>4
  <2> QED
    BY <2>1, <2>2 DEF ServerTypeOK, TypesInv
<1> QED
  BY <1>1, ServerCorrect, PTL

(* AckedIsWrittenOrQueued: of the bytes a connection has acknowledged       *)
(* STDOUT has taken the first ones, in order and once, and the output queue *)
(* holds the others, in order and once, until a write fails; what was       *)
(* written is a prefix even then (conn_output, conn_drain, ctcp_output).    *)
THEOREM AckedWritten == Spec => []AckedIsWrittenOrQueued
<1>1. ServerInvariant => AckedIsWrittenOrQueued
  <2> SUFFICES ASSUME ServerInvariant, NEW p \in Accepted
               PROVE  IF conn[p].wrote_err
                      THEN conn[p].written = Bytes(1, Len(conn[p].written))
                      ELSE conn[p].written \o QueuedBytes(conn[p]) = Bytes(1, conn[p].acked)
    BY DEF AckedIsWrittenOrQueued
  <2> DEFINE c == conn[p]
             a == Len(c.written)
             m == Span(c.out_queue)
  <2>1. ConnInv(c)
    BY ListOrder DEF ServerInvariant, OutputInv
  <2>2. /\ c.written = Bytes(1, a) /\ Chained(c.out_queue)
        /\ c.out_queue # << >> => From(c.out_queue[1]) = a + 1
        /\ ~c.wrote_err => a + m = c.acked
    BY <2>1 DEF ConnInv
  <2>3. a \in Nat /\ m \in Nat
    BY <2>1, ConnTypes
  <2>4. QueuedBytes(c) = Bytes(a + 1, m)
    BY <2>2, <2>3, QueuedBytesAre
  <2> HIDE DEF a, m
  <2>5. Bytes(0 + 1, a) \o Bytes((0 + a) + 1, m) = Bytes(0 + 1, a + m)
    BY <2>3, BytesFollow
  <2>6. 0 + 1 = 1 /\ 0 + a = a
    BY <2>3
  <2>7. c.written \o QueuedBytes(c) = Bytes(1, a + m)
    BY <2>2, <2>4, <2>5, <2>6
  <2> QED
    BY <2>2, <2>7 DEF a
<1> QED
  BY <1>1, ServerCorrect, PTL

(* QueueBounded: no connection queues more than MAX_BUF_SPACE bytes         *)
(* (conn_bufspace, and ctcp_output that asks it).                           *)
THEOREM QueueWithinBound == Spec => []QueueBounded
<1>1. ServerInvariant => QueueBounded
  <2> SUFFICES ASSUME ServerInvariant, NEW p \in Clients PROVE Queued(conn[p]) <= BufSpace
    BY DEF QueueBounded
  <2>1. ConnInv(conn[p])
    BY DEF ServerInvariant, OutputInv
  <2>2. Queued(conn[p]) = Span(conn[p].out_queue) /\ Span(conn[p].out_queue) <= BufSpace
    BY <2>1, ConnTypes DEF ConnInv
  <2> QED
    BY <2>2
<1> QED
  BY <1>1, ServerCorrect, PTL

(* ListedAreLive: STDIN, conn_drain and recv_filter never reach a           *)
(* connection that was destroyed or freed (delete_all_connections).         *)
THEOREM ListedLive == Spec => []ListedAreLive
<1>1. ServerInvariant => ListedAreLive
  BY ListOrder DEF ServerInvariant, ListInv, ListedAreLive, Live
<1> QED
  BY <1>1, ServerCorrect, PTL

(* NewestFirst: the list is newest first, and no connection that lives is   *)
(* newer than its head, the one that reads STDIN (conn_add, conn_free).     *)
THEOREM NewestIsFirst == Spec => []NewestFirst
<1>1. Init => FreedInv
  BY DEF Init, FreedInv
<1>2. ServerInvariant /\ FreedInv => NewestFirst
  BY NewestAtHead
<1> QED
  BY <1>1, <1>2, FreedSteps, ServerCorrect, PTL DEF Spec

(* OnlyHandshakeSwallowed: do_loop keeps from ctcp_receive one handshake    *)
(* ACK per connection at most, or the first data segment in place of one    *)
(* that was lost.                                                           *)
THEOREM HandshakeOnly == Spec => []OnlyHandshakeSwallowed
<1>1. ServerInvariant => OnlyHandshakeSwallowed
  BY DEF ServerInvariant, SwallowInv
<1> QED
  BY <1>1, ServerCorrect, PTL
=============================================================================
