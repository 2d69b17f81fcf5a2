----------------------------- MODULE FlowProofs -----------------------------
(***************************************************************************)
(* Where the sequence numbers of a node travel, for every propagation       *)
(* graph: the invariant of the data path on which the proofs about          *)
(* delivery rest.                                                           *)
(***************************************************************************)
EXTENDS QuiltDBProofs, Delivery

-----------------------------------------------------------------------------
(* The nodes whose receivers the updates of p come to.                     *)
Fed(p) == {m \in Nodes : \E a \in Reach(p) : Downstream[a] = m}

OnRing(p) == p \in Fed(p)

-----------------------------------------------------------------------------
(* The buffers in a pipe, and the range of node p that a message carries.  *)

IsBuff(x) == x.type \in {"EPRUpdateBuffer", "EPUpdateBuffer"}

Buffs(q) == {x \in {q[i] : i \in 1 .. Len(q)} : IsBuff(x)}

Has(x, p) == HasNodeRange(x.buff, p)

From(x, p) == GetNodeRange(x.buff, p).st

To(x, p) == GetNodeRange(x.buff, p).end

(* A buffer has one range for a node, and no empty range.                  *)
Sound(b) ==
    /\ \A i, j \in DOMAIN b.ranges :
        (b.ranges[i].id # NoNode /\ b.ranges[i].id = b.ranges[j].id) => i = j
    /\ \A i \in DOMAIN b.ranges : b.ranges[i].id # NoNode =>
        b.ranges[i].st \in Nat /\ b.ranges[i].st <= b.ranges[i].end

(* No free slot comes before a used one.                                   *)
Solid(b) ==
    /\ Sound(b)
    /\ \A i \in DOMAIN b.ranges : b.ranges[i].id # NoNode =>
        \A j \in 1 .. i : b.ranges[j].id # NoNode

(* The buffers at a node, and the ranges the next ones are made from.  The *)
(* node's own range is never forwarded to its propagator.                  *)
BuffersInv(n) ==
    /\ \A x \in Buffs(tcp[n]) \cup Buffs(outBuff[n]) \cup Buffs(recvBuff[n]) :
            Solid(x.buff)
    /\ \A x \in Buffs(fwdPipe[n]) : Sound(x.buff) /\ ~Has(x, n)
    /\ IF pPc[n] \in {"ack", "send"} THEN Len(outBuff[n]) = 1 ELSE outBuff[n] = <<>>
    /\ IF rPc[n] = "dedup"
       THEN Len(recvBuff[n]) = 1 /\ Has(recvBuff[n][1], n)
       ELSE recvBuff[n] = <<>>
    /\ \A t \in Tables :
        /\ myUpdateRange[n][t].st \in Nat
        /\ myUpdateRange[n][t].st <= myUpdateRange[n][t].end + 1
        /\ n \notin peerUpdateRange[n][t].known
        /\ \A p \in Nodes :
            /\ peerUpdateRange[n][t].range[p].st \in Nat
            /\ p \notin peerUpdateRange[n][t].known =>
                    peerUpdateRange[n][t].range[p] = Span(0, -1)

(* The numbers of p are only where its updates pass, and all of them are   *)
(* numbers that p has sent; what p is about to send is its current range.  *)
PlacesInv(p) ==
    \A a \in Nodes :
        /\ \A x \in Buffs(tcp[a]) \cup Buffs(outBuff[a]) : Has(x, p) => a \in Reach(p)
        /\ \A x \in Buffs(recvBuff[a]) \cup Buffs(fwdPipe[a]) : Has(x, p) => a \in Fed(p)
        /\ \A x \in Buffs(tcp[a]) \cup Buffs(fwdPipe[a]) \cup Buffs(recvBuff[a]) :
                Has(x, p) => To(x, p) < myUpdateRange[p][x.table].st
        /\ \A x \in Buffs(outBuff[a]) : Has(x, p) =>
                IF a = p THEN GetNodeRange(x.buff, p) = myUpdateRange[p][x.table]
                ELSE To(x, p) < myUpdateRange[p][x.table].st
        /\ \A t \in Tables :
            /\ p \in peerUpdateRange[a][t].known => a \in Fed(p)
            /\ peerUpdateRange[a][t].range[p].end < myUpdateRange[p][t].st

FlowInv == ShutdownInv /\ \A n \in Nodes : BuffersInv(n) /\ PlacesInv(n)

-----------------------------------------------------------------------------
(* The order of the numbers of p on its way.                               *)

Precedes(x, y, p) ==
    (Has(x, p) /\ Has(y, p) /\ x.table = y.table) => To(x, p) < From(y, p)

Sorted(q, p) ==
    \A i, j \in 1 .. Len(q) :
        (i < j /\ IsBuff(q[i]) /\ IsBuff(q[j])) => Precedes(q[i], q[j], p)

(* How a pipe changes: only signals come or go; its head, a buffer, is     *)
(* taken; a buffer is sent.                                                *)
Keeps(q, r) == Buffs(r) = Buffs(q) /\ \A p \in Nodes : Sorted(q, p) => Sorted(r, p)

Pops(q, r, x) ==
    /\ x \in Buffs(q)
    /\ Buffs(q) = Buffs(r) \cup {x}
    /\ \A p \in Nodes : Sorted(q, p) =>
        Sorted(r, p) /\ \A y \in Buffs(r) : Precedes(x, y, p)

Pushes(q, r, x) ==
    /\ Buffs(r) = Buffs(q) \cup {x}
    /\ \A p \in Nodes :
        (Sorted(q, p) /\ \A y \in Buffs(q) : Precedes(y, x, p)) => Sorted(r, p)

(* A pipe that does not change keeps its buffers and their order.          *)
LEMMA KeepsSame == \A q : Keeps(q, q)
BY DEF Keeps

(* Receiving.                                                              *)
LEMMA TailOfPipe ==
    ASSUME NEW S, NEW q \in Seq(S), q # <<>>
    PROVE  /\ IsBuff(Head(q)) => Pops(q, Tail(q), Head(q))
           /\ ~IsBuff(Head(q)) => Keeps(q, Tail(q))
<1> DEFINE r == Tail(q)
<1>1. /\ Len(q) \in Nat /\ Len(q) > 0 /\ Head(q) = q[1]
      /\ r \in Seq(S) /\ Len(r) = Len(q) - 1
      /\ \A i \in 1 .. Len(r) : r[i] = q[i + 1]
  OBVIOUS
<1> HIDE DEF r
<1>2. ASSUME NEW x \in Buffs(r)
      PROVE  /\ x \in Buffs(q)
             /\ \A p \in Nodes : (Sorted(q, p) /\ IsBuff(q[1])) => Precedes(q[1], x, p)
  <2>1. PICK i \in 1 .. Len(r) : x = r[i] /\ IsBuff(x)
    BY DEF Buffs
  <2>2. i + 1 \in 1 .. Len(q) /\ x = q[i + 1] /\ 1 < i + 1 /\ 1 \in 1 .. Len(q)
    BY <1>1, <2>1
  <2> QED
    BY <2>1, <2>2 DEF Buffs, Sorted
<1>3. ASSUME NEW x \in Buffs(q)
      PROVE  x = q[1] \/ x \in Buffs(r)
  <2>1. PICK i \in 1 .. Len(q) : x = q[i] /\ IsBuff(x)
    BY DEF Buffs
  <2>2. CASE i = 1
    BY <2>1, <2>2
  <2>3. CASE i # 1
    <3>1. i - 1 \in 1 .. Len(r) /\ (i - 1) + 1 = i
      BY <1>1, <2>3
    <3> QED
      BY <1>1, <2>1, <3>1 DEF Buffs
  <2> QED
    BY <2>2, <2>3
<1>4. ASSUME NEW p \in Nodes, Sorted(q, p)
      PROVE  Sorted(r, p)
  <2> SUFFICES ASSUME NEW i \in 1 .. Len(r), NEW j \in 1 .. Len(r), i < j,
                      IsBuff(r[i]), IsBuff(r[j])
               PROVE  Precedes(r[i], r[j], p)
    BY DEF Sorted
  <2>1. i + 1 \in 1 .. Len(q) /\ j + 1 \in 1 .. Len(q) /\ i + 1 < j + 1
    BY <1>1
  <2> QED
    BY <1>1, <1>4, <2>1 DEF Sorted
<1>5. IsBuff(q[1]) => q[1] \in Buffs(q)
  BY <1>1 DEF Buffs
<1>6. \A x \in Buffs(q) : IsBuff(x)
  BY DEF Buffs
<1>7. IsBuff(q[1]) => Buffs(q) = Buffs(r) \cup {q[1]}
  BY <1>2, <1>3, <1>5
<1>8. ~IsBuff(q[1]) => Buffs(q) = Buffs(r)
  BY <1>2, <1>3, <1>6
<1> QED
  BY <1>1, <1>2, <1>4, <1>5, <1>7, <1>8 DEF Keeps, Pops, r

(* Sending.                                                                *)
LEMMA AppendToPipe ==
    ASSUME NEW S, NEW q \in Seq(S), NEW x
    PROVE  /\ IsBuff(x) => Pushes(q, Append(q, x), x)
           /\ ~IsBuff(x) => Keeps(q, Append(q, x))
<1> DEFINE r == Append(q, x)
<1>1. /\ Len(q) \in Nat /\ Len(r) = Len(q) + 1
      /\ \A i \in 1 .. Len(q) : r[i] = q[i]
      /\ r[Len(q) + 1] = x
  <2> DEFINE T == S \cup {x}
  <2>1. q \in Seq(T) /\ x \in T
    OBVIOUS
  <2> HIDE DEF T
  <2> QED
    BY <2>1
<1> HIDE DEF r
<1>2. \A i \in 1 .. Len(r) : i = Len(q) + 1 \/ i \in 1 .. Len(q)
  BY <1>1
<1>3. \A i \in 1 .. Len(q) : i \in 1 .. Len(r) /\ i < Len(q) + 1
  BY <1>1
<1>4. Len(q) + 1 \in 1 .. Len(r)
  BY <1>1
<1>5. \A y \in Buffs(q) : y \in Buffs(r)
  BY <1>1, <1>3 DEF Buffs
<1>6. IsBuff(x) => x \in Buffs(r)
  BY <1>1, <1>4 DEF Buffs
<1>7. ASSUME NEW y \in Buffs(r) PROVE y \in Buffs(q) \/ (y = x /\ IsBuff(x))
  <2>1. PICK i \in 1 .. Len(r) : y = r[i] /\ IsBuff(y)
    BY DEF Buffs
  <2> QED
    BY <1>1, <1>2, <2>1 DEF Buffs
<1>8. ASSUME NEW p \in Nodes, Sorted(q, p),
             IsBuff(x) => \A y \in Buffs(q) : Precedes(y, x, p)
      PROVE  Sorted(r, p)
  <2> SUFFICES ASSUME NEW i \in 1 .. Len(r), NEW j \in 1 .. Len(r), i < j,
                      IsBuff(r[i]), IsBuff(r[j])
               PROVE  Precedes(r[i], r[j], p)
    BY DEF Sorted
  <2>1. i \in 1 .. Len(q)
    BY <1>1
  <2>2. CASE j \in 1 .. Len(q)
    BY <1>1, <1>8, <2>1, <2>2 DEF Sorted
  <2>3. CASE j = Len(q) + 1
    <3>1. r[i] \in Buffs(q) /\ r[j] = x
      BY <1>1, <2>1, <2>3 DEF Buffs
    <3> QED
      BY <1>8, <3>1
  <2> QED
    BY <1>2, <2>2, <2>3
<1>9. IsBuff(x) => Buffs(r) = Buffs(q) \cup {x}
  BY <1>5, <1>6, <1>7
<1>10. ~IsBuff(x) => Buffs(r) = Buffs(q)
  BY <1>5, <1>7
<1> QED
  BY <1>8, <1>9, <1>10 DEF Keeps, Pushes, r

(* A pipe of no or one message.                                            *)
LEMMA ShortPipe ==
    /\ Buffs(<<>>) = {}
    /\ \A x : Len(<<x>>) = 1 /\ <<x>>[1] = x /\ (IsBuff(x) => Buffs(<<x>>) = {x})
    /\ \A p : Sorted(<<>>, p)
<1>1. Len(<<>>) = 0
  OBVIOUS
<1>2. \A x : Len(<<x>>) = 1 /\ <<x>>[1] = x
  OBVIOUS
<1>3. ASSUME NEW x, IsBuff(x) PROVE Buffs(<<x>>) = {x}
  <2>1. Len(<<x>>) = 1 /\ <<x>>[1] = x
    BY <1>2
  <2> QED
    BY <1>3, <2>1 DEF Buffs
<1> QED
  BY <1>1, <1>2, <1>3 DEF Buffs, Sorted

(* A pipe with one message is that message.                                *)
LEMMA OneInPipe ==
    ASSUME NEW S, NEW q \in Seq(S), Len(q) = 1
    PROVE  /\ q = <<q[1]>> /\ Head(q) = q[1] /\ q # <<>> /\ q[1] \in S
           /\ IsBuff(q[1]) => Buffs(q) = {q[1]}
<1>1. Head(q) = q[1] /\ q # <<>> /\ q[1] \in S
  OBVIOUS
<1>2. q = <<q[1]>>
  OBVIOUS
<1> QED
  BY <1>1, <1>2, ShortPipe

-----------------------------------------------------------------------------
(* Ranges of buffers.                                                      *)

(* Nodes are told apart from the absence of one.                           *)
LEMMA NodeIsNotNoNode == NoNode \notin Nodes /\ \A n \in Nodes : n # NoNode
BY NodesAssumption DEF NoNode

(* The range of a node is the one in its slot.                             *)
LEMMA RangeInSlot ==
    ASSUME NEW b \in Buffer, Sound(b), NEW p \in Nodes,
           NEW i \in DOMAIN b.ranges, b.ranges[i].id = p
    PROVE  /\ HasNodeRange(b, p)
           /\ GetNodeRange(b, p) = Span(b.ranges[i].st, b.ranges[i].end)
           /\ GetNodeRange(b, p).st = b.ranges[i].st
           /\ GetNodeRange(b, p).end = b.ranges[i].end
           /\ GetNodeRange(b, p).st \in Nat /\ GetNodeRange(b, p).end \in Nat
           /\ GetNodeRange(b, p).st <= GetNodeRange(b, p).end
           /\ Numbers(p, b) = GetNodeRange(b, p).st .. GetNodeRange(b, p).end
<1>1. DOMAIN b.ranges = 1 .. Len(b.ranges) /\ Len(b.ranges) \in Nat
  BY BufferSlots DEF Buffer
<1>2. \A j \in DOMAIN b.ranges : b.ranges[j].id = p => j = i
  BY NodeIsNotNoNode DEF Sound
<1>3. i \in SlotOf(b, p)
  <2>1. \A j \in 1 .. i - 1 : j \in DOMAIN b.ranges /\ j # i
    BY <1>1
  <2> QED
    BY <1>2, <2>1 DEF SlotOf
<1>4. \A j \in SlotOf(b, p) : j = i
  BY <1>2 DEF SlotOf
<1>5. (CHOOSE j \in SlotOf(b, p) : TRUE) = i
  BY <1>3, <1>4
<1>6. GetNodeRange(b, p) = Span(b.ranges[i].st, b.ranges[i].end)
  BY <1>5 DEF GetNodeRange
<1>7. b.ranges[i].st \in Nat /\ b.ranges[i].end \in Int /\ b.ranges[i].st <= b.ranges[i].end
  BY BufferSlots, NodeIsNotNoNode DEF Sound
<1>8. Numbers(p, b) = b.ranges[i].st .. b.ranges[i].end
  <2>1. {j \in DOMAIN b.ranges : b.ranges[j].id = p} = {i}
    BY <1>2
  <2> QED
    BY <2>1 DEF Numbers
<1>9. GetNodeRange(b, p).st = b.ranges[i].st /\ GetNodeRange(b, p).end = b.ranges[i].end
  BY <1>6 DEF Span
<1> QED
  BY <1>6, <1>7, <1>8, <1>9 DEF HasNodeRange

(* What a node's range in a buffer looks like.                             *)
LEMMA RangeOfNode ==
    ASSUME NEW b \in Buffer, Sound(b), NEW p \in Nodes, HasNodeRange(b, p)
    PROVE  /\ GetNodeRange(b, p) \in UpdateRange
           /\ GetNodeRange(b, p).st \in Nat /\ GetNodeRange(b, p).end \in Nat
           /\ GetNodeRange(b, p).st <= GetNodeRange(b, p).end
           /\ Numbers(p, b) = GetNodeRange(b, p).st .. GetNodeRange(b, p).end
<1>1. PICK i \in DOMAIN b.ranges : b.ranges[i].id = p
  BY DEF HasNodeRange
<1> QED
  BY <1>1, RangeInSlot, GetNodeRangeType

(* Only the slots of a buffer matter for its ranges.                       *)
LEMMA SameSlots ==
    ASSUME NEW b, NEW c, c.ranges = b.ranges
    PROVE  /\ Sound(b) => Sound(c)
           /\ Solid(b) => Solid(c)
           /\ Visited(c) = Visited(b)
           /\ \A p : /\ HasNodeRange(c, p) = HasNodeRange(b, p)
                     /\ GetNodeRange(c, p) = GetNodeRange(b, p)
                     /\ Numbers(p, c) = Numbers(p, b)
BY DEF Sound, Solid, Visited, HasNodeRange, GetNodeRange, SlotOf, Numbers

(* Removing updates leaves the slots and the keys alone.                   *)
LEMMA SubtractedBuffer ==
    ASSUME NEW b \in Buffer, NEW s \in Store
    PROVE  LET c == [b EXCEPT !.updates = SubUpdates(@, s)]
           IN  /\ c \in Buffer /\ c.ranges = b.ranges
               /\ c.updates.keys = b.updates.keys
<1> DEFINE u == SubUpdates(b.updates, s)
<1>1. b = [ranges |-> b.ranges, updates |-> b.updates]
  BY BufferSlots
<1>2. [b EXCEPT !.updates = SubUpdates(@, s)] = [ranges |-> b.ranges, updates |-> u]
  BY <1>1
<1>3. u \in Store /\ b.ranges \in Seq(Slot) /\ b.updates \in Store
  BY BufferSlots, SubUpdatesType
<1>4. u.keys = b.updates.keys
  BY <1>3 DEF SubUpdates, Store
<1> HIDE DEF u
<1> QED
  BY <1>2, <1>3, <1>4 DEF Buffer

(* DeleteNodeRange on a buffer as it was sent: the own range is gone, and  *)
(* only it.                                                                *)
LEMMA DeletedRange ==
    ASSUME NEW b \in Buffer, Solid(b), NEW n \in Nodes
    PROVE  LET d == DeleteNodeRange(b, n)
           IN  /\ Sound(d) /\ ~HasNodeRange(d, n) /\ d.updates = b.updates
               /\ \A p \in Nodes \ {n} :
                    /\ HasNodeRange(d, p) <=> HasNodeRange(b, p)
                    /\ HasNodeRange(b, p) => GetNodeRange(d, p) = GetNodeRange(b, p)
<1> DEFINE d == DeleteNodeRange(b, n)
<1>1. DOMAIN b.ranges = 1 .. Len(b.ranges) /\ Len(b.ranges) \in Nat
  BY BufferSlots DEF Buffer
<1>2. d \in Buffer
  BY DeleteNodeRangeType
<1> DEFINE Hit(i) == /\ b.ranges[i].id = n
                     /\ \A j \in 1 .. i - 1 : b.ranges[j].id \notin {NoNode, n}
<1>3. /\ d.updates = b.updates
      /\ d.ranges = [i \in DOMAIN b.ranges |->
            IF Hit(i) THEN [b.ranges[i] EXCEPT !.id = NoNode] ELSE b.ranges[i]]
  <2>1. b = [ranges |-> b.ranges, updates |-> b.updates]
    BY BufferSlots
  <2> QED
    BY <2>1 DEF DeleteNodeRange
<1>4. ASSUME NEW i \in DOMAIN b.ranges PROVE Hit(i) <=> b.ranges[i].id = n
  <2> SUFFICES ASSUME b.ranges[i].id = n, NEW j \in 1 .. i - 1
               PROVE  b.ranges[j].id \notin {NoNode, n}
    OBVIOUS
  <2>1. j \in DOMAIN b.ranges /\ j \in 1 .. i /\ j # i
    BY <1>1
  <2> QED
    BY <2>1, NodeIsNotNoNode DEF Solid, Sound
<1> HIDE DEF Hit, d
<1>5. DOMAIN d.ranges = DOMAIN b.ranges
  BY <1>3
<1>6. ASSUME NEW i \in DOMAIN b.ranges
      PROVE  /\ b.ranges[i].id = n => d.ranges[i].id = NoNode
             /\ b.ranges[i].id # n => d.ranges[i] = b.ranges[i]
  <2>1. d.ranges[i] = IF Hit(i) THEN [b.ranges[i] EXCEPT !.id = NoNode] ELSE b.ranges[i]
    BY <1>3
  <2>2. \A s \in Slot : [s EXCEPT !.id = NoNode].id = NoNode
    BY DEF Slot
  <2>3. b.ranges[i] \in Slot
    BY BufferSlots
  <2> QED
    BY <1>4, <2>1, <2>2, <2>3
<1>7. Sound(d)
  BY <1>5, <1>6 DEF Sound, Solid
<1>8. ~HasNodeRange(d, n)
  BY <1>5, <1>6, NodeIsNotNoNode DEF HasNodeRange
<1>9. ASSUME NEW p \in Nodes, p # n
      PROVE  /\ HasNodeRange(d, p) <=> HasNodeRange(b, p)
             /\ HasNodeRange(b, p) => GetNodeRange(d, p) = GetNodeRange(b, p)
  <2>1. \A i \in DOMAIN b.ranges : d.ranges[i].id = p <=> b.ranges[i].id = p
    BY <1>6, <1>9, NodeIsNotNoNode
  <2>2. HasNodeRange(d, p) <=> HasNodeRange(b, p)
    BY <1>5, <2>1 DEF HasNodeRange
  <2>3. ASSUME HasNodeRange(b, p) PROVE GetNodeRange(d, p) = GetNodeRange(b, p)
    <3>1. PICK i \in DOMAIN b.ranges : b.ranges[i].id = p
      BY <2>3 DEF HasNodeRange
    <3>2. d.ranges[i] = b.ranges[i] /\ i \in DOMAIN d.ranges
      BY <1>5, <1>6, <1>9, <3>1
    <3>3. GetNodeRange(b, p) = Span(b.ranges[i].st, b.ranges[i].end)
      BY <3>1, RangeInSlot DEF Solid
    <3>4. GetNodeRange(d, p) = Span(d.ranges[i].st, d.ranges[i].end)
      BY <1>2, <1>7, <3>1, <3>2, RangeInSlot
    <3> QED
      BY <3>2, <3>3, <3>4
  <2> QED
    BY <2>2, <2>3
<1> QED
  BY <1>3, <1>7, <1>8, <1>9 DEF d

(* The buffer a propagator builds: one range for each peer with news and   *)
(* one for itself, in the first slots.                                     *)
LEMMA FlushedRanges ==
    ASSUME TypeInv, NEW n \in Nodes, BuffersInv(n), NEW t \in Tables,
           NEW order \in Orders(NewPeers(n, t)), NEW s \in Store
    PROVE  LET b == [ranges |-> FlushSlots(n, t, order), updates |-> s]
           IN  /\ b \in Buffer /\ Solid(b)
               /\ \A p \in Nodes :
                    /\ HasNodeRange(b, p) <=>
                            p \in NewPeers(n, t) \/ (p = n /\ HasOwnRange(n, t))
                    /\ p \in NewPeers(n, t) =>
                            GetNodeRange(b, p) = peerUpdateRange[n][t].range[p]
                    /\ p = n /\ HasOwnRange(n, t) =>
                            GetNodeRange(b, p) = myUpdateRange[n][t]
<1> DEFINE k     == Cardinality(peerUpdateRange[n][t].known)
           c     == Cardinality(NewPeers(n, t))
           peers == [i \in DOMAIN order |->
                NodeSlot(order[i], peerUpdateRange[n][t].range[order[i]])]
           own   == IF HasOwnRange(n, t)
                    THEN <<NodeSlot(n, myUpdateRange[n][t])>> ELSE <<>>
           o     == IF HasOwnRange(n, t) THEN 1 ELSE 0
           b     == [ranges |-> FlushSlots(n, t, order), updates |-> s]
<1>1. /\ peerUpdateRange[n][t] \in PeerRanges
      /\ myUpdateRange[n][t] \in UpdateRange
      /\ PropagatorTypeOK
  BY DEF TypeInv, TypeOK, PropagatorTypeOK
<1>2. /\ peerUpdateRange[n][t].known \subseteq Nodes
      /\ peerUpdateRange[n][t].range \in [Nodes -> UpdateRange]
  BY <1>1 DEF PeerRanges
<1>3. NewPeers(n, t) \subseteq peerUpdateRange[n][t].known
  BY DEF NewPeers
<1>4. IsFiniteSet(peerUpdateRange[n][t].known)
  BY <1>2, NodesAssumption, FS_Subset
<1>5. c \in Nat /\ k \in Nat /\ c <= k
  BY <1>3, <1>4, FS_Subset, FS_CardinalityType
<1>6. /\ order \in [1 .. c -> NewPeers(n, t)]
      /\ \A i, j \in 1 .. c : order[i] = order[j] => i = j
      /\ \A p \in NewPeers(n, t) : \E i \in 1 .. c : order[i] = p
  BY DEF Orders, Bijection, Injection, Surjection, IsInjective
<1>7. b \in Buffer
  BY <1>1, FlushSlotsType DEF Buffer
<1>8. n \notin NewPeers(n, t)
  BY <1>3 DEF BuffersInv
<1>9. /\ o \in 0 .. 1 /\ (HasOwnRange(n, t) <=> o = 1)
      /\ own \in Seq(Slot) /\ Len(own) = o
      /\ HasOwnRange(n, t) => own[1] = NodeSlot(n, myUpdateRange[n][t])
  <2>1. NodeSlot(n, myUpdateRange[n][t]) \in Slot
    BY <1>1 DEF NodeSlot, UpdateRange, Slot
  <2> QED
    BY <2>1
<1>10. peers \in Seq(Slot) /\ Len(peers) = c
       /\ \A i \in 1 .. c :
            peers[i] = NodeSlot(order[i], peerUpdateRange[n][t].range[order[i]])
  <2>1. \A p \in Nodes, r \in UpdateRange : NodeSlot(p, r) \in Slot
    BY DEF NodeSlot, UpdateRange, Slot
  <2>2. peers \in [1 .. c -> Slot]
    BY <1>2, <1>3, <1>6, <2>1
  <2> QED
    BY <1>5, <1>6, <2>2
<1> HIDE DEF peers, own, o, c, k
<1>11. /\ Len(peers \o own) = c + o
       /\ \A i \in 1 .. c : (peers \o own)[i] = peers[i]
       /\ o = 1 => (peers \o own)[c + 1] = own[1]
  BY <1>5, <1>9, <1>10
<1>12. b.ranges = [i \in 1 .. k + 1 |->
                    IF i <= Len(peers \o own) THEN (peers \o own)[i] ELSE FreeSlot]
  BY DEF FlushSlots, peers, own, k
<1> HIDE DEF b
<1>13. ASSUME NEW i \in 1 .. c
       PROVE  /\ i \in 1 .. k + 1
              /\ b.ranges[i].id = order[i]
              /\ b.ranges[i].st = peerUpdateRange[n][t].range[order[i]].st
              /\ b.ranges[i].end = peerUpdateRange[n][t].range[order[i]].end
  <2>1. i \in 1 .. k + 1 /\ i <= Len(peers \o own)
    BY <1>5, <1>9, <1>11
  <2>2. b.ranges[i] = NodeSlot(order[i], peerUpdateRange[n][t].range[order[i]])
    BY <1>10, <1>11, <1>12, <2>1
  <2> QED
    BY <2>1, <2>2 DEF NodeSlot
<1>14. ASSUME o = 1
       PROVE  /\ c + 1 \in 1 .. k + 1
              /\ b.ranges[c + 1].id = n
              /\ b.ranges[c + 1].st = myUpdateRange[n][t].st
              /\ b.ranges[c + 1].end = myUpdateRange[n][t].end
  <2>1. c + 1 \in 1 .. k + 1 /\ c + 1 <= Len(peers \o own)
    BY <1>5, <1>11, <1>14
  <2>2. b.ranges[c + 1] = NodeSlot(n, myUpdateRange[n][t])
    BY <1>9, <1>11, <1>12, <1>14, <2>1
  <2> QED
    BY <2>1, <2>2 DEF NodeSlot
<1>15. ASSUME NEW i \in 1 .. k + 1, b.ranges[i].id # NoNode
       PROVE  i \in 1 .. c \/ (o = 1 /\ i = c + 1)
  <2>1. CASE i <= Len(peers \o own)
    BY <1>5, <1>9, <1>11, <2>1
  <2>2. CASE ~(i <= Len(peers \o own))
    BY <1>12, <1>15, <2>2 DEF FreeSlot
  <2> QED
    BY <2>1, <2>2
<1>16. DOMAIN b.ranges = 1 .. k + 1
  BY <1>12
<1>17. \A p \in NewPeers(n, t) :
         /\ p \in Nodes /\ p # NoNode /\ p # n
         /\ peerUpdateRange[n][t].range[p].st \in Nat
         /\ peerUpdateRange[n][t].range[p].st <= peerUpdateRange[n][t].range[p].end
  BY <1>2, <1>3, <1>8, NodeIsNotNoNode DEF NewPeers, BuffersInv
<1>18. o = 1 => myUpdateRange[n][t].st \in Nat
                /\ myUpdateRange[n][t].st <= myUpdateRange[n][t].end
  BY <1>9 DEF HasOwnRange, BuffersInv
<1>19. \A i \in 1 .. c : order[i] \in NewPeers(n, t)
  BY <1>6
<1>20. Sound(b)
  <2>1. ASSUME NEW i \in 1 .. k + 1, NEW j \in 1 .. k + 1,
               b.ranges[i].id # NoNode, b.ranges[i].id = b.ranges[j].id
        PROVE  i = j
    <3>1. i \in 1 .. c \/ (o = 1 /\ i = c + 1)
      BY <1>15, <2>1
    <3>2. j \in 1 .. c \/ (o = 1 /\ j = c + 1)
      BY <1>15, <2>1
    <3> QED
      BY <1>6, <1>13, <1>14, <1>17, <1>19, <2>1, <3>1, <3>2
  <2>2. ASSUME NEW i \in 1 .. k + 1, b.ranges[i].id # NoNode
        PROVE  b.ranges[i].st \in Nat /\ b.ranges[i].st <= b.ranges[i].end
    BY <1>13, <1>14, <1>15, <1>17, <1>18, <1>19, <2>2
  <2> QED
    BY <1>16, <2>1, <2>2 DEF Sound
<1>21. Solid(b)
  <2> SUFFICES ASSUME NEW i \in 1 .. k + 1, b.ranges[i].id # NoNode, NEW j \in 1 .. i
               PROVE  b.ranges[j].id # NoNode
    BY <1>16, <1>20 DEF Solid
  <2>1. i \in 1 .. c \/ (o = 1 /\ i = c + 1)
    BY <1>15
  <2>2. j \in 1 .. c \/ (o = 1 /\ j = c + 1)
    BY <1>5, <2>1
  <2> QED
    BY <1>13, <1>14, <1>17, <1>19, <2>2, NodeIsNotNoNode
<1>22. ASSUME NEW p \in NewPeers(n, t)
       PROVE  HasNodeRange(b, p) /\ GetNodeRange(b, p) = peerUpdateRange[n][t].range[p]
  <2>1. PICK i \in 1 .. c : order[i] = p
    BY <1>6
  <2>2. /\ i \in DOMAIN b.ranges /\ b.ranges[i].id = p /\ p \in Nodes
        /\ b.ranges[i].st = peerUpdateRange[n][t].range[p].st
        /\ b.ranges[i].end = peerUpdateRange[n][t].range[p].end
    BY <1>13, <1>16, <1>17, <2>1
  <2>3. HasNodeRange(b, p) /\ GetNodeRange(b, p) = Span(b.ranges[i].st, b.ranges[i].end)
    BY <1>7, <1>20, <2>2, RangeInSlot DEF b
  <2>4. \A r \in UpdateRange : Span(r.st, r.end) = r
    BY DEF Span, UpdateRange
  <2>5. peerUpdateRange[n][t].range[p] \in UpdateRange
    BY <1>2, <2>2
  <2> QED
    BY <2>2, <2>3, <2>4, <2>5
<1>23. ASSUME HasOwnRange(n, t)
       PROVE  HasNodeRange(b, n) /\ GetNodeRange(b, n) = myUpdateRange[n][t]
  <2>1. /\ c + 1 \in DOMAIN b.ranges /\ b.ranges[c + 1].id = n
        /\ b.ranges[c + 1].st = myUpdateRange[n][t].st
        /\ b.ranges[c + 1].end = myUpdateRange[n][t].end
    BY <1>9, <1>14, <1>16, <1>23
  <2>2. /\ HasNodeRange(b, n)
        /\ GetNodeRange(b, n) = Span(b.ranges[c + 1].st, b.ranges[c + 1].end)
    BY <1>7, <1>20, <2>1, RangeInSlot DEF b
  <2>3. \A r \in UpdateRange : Span(r.st, r.end) = r
    BY DEF Span, UpdateRange
  <2> QED
    BY <1>1, <2>1, <2>2, <2>3
<1>24. ASSUME NEW p \in Nodes, HasNodeRange(b, p)
       PROVE  p \in NewPeers(n, t) \/ (p = n /\ HasOwnRange(n, t))
  <2>1. PICK i \in 1 .. k + 1 : b.ranges[i].id = p
    BY <1>16, <1>24 DEF HasNodeRange
  <2>2. i \in 1 .. c \/ (o = 1 /\ i = c + 1)
    BY <1>15, <2>1, NodeIsNotNoNode
  <2> QED
    BY <1>9, <1>13, <1>14, <1>19, <2>1, <2>2
<1> QED
  BY <1>7, <1>21, <1>22, <1>23, <1>24 DEF b

(* The messages in the pipes.                                              *)
LEMMA BuffTypes ==
    ASSUME TypeInv, NEW a \in Nodes
    PROVE  /\ \A x \in Buffs(tcp[a]) \cup Buffs(outBuff[a]) \cup Buffs(recvBuff[a]) :
                x \in UpdateBufferMsg /\ x.type = "EPRUpdateBuffer"
           /\ \A x \in Buffs(fwdPipe[a]) : x.type = "EPUpdateBuffer"
           /\ \A x \in Buffs(tcp[a]) \cup Buffs(outBuff[a]) \cup Buffs(recvBuff[a])
                        \cup Buffs(fwdPipe[a]) :
                x.table \in Tables /\ x.buff \in Buffer /\ IsBuff(x)
<1>1. /\ tcp[a] \in Seq(TcpMsg) /\ fwdPipe[a] \in Seq(FwdMsg)
      /\ outBuff[a] \in Seq(UpdateBufferMsg) /\ recvBuff[a] \in Seq(UpdateBufferMsg)
  BY DEF TypeInv, TypeOK, WiresTypeOK, PropagatorTypeOK, ReceiverTypeOK
<1>2. ASSUME NEW S, NEW q \in Seq(S), NEW x \in Buffs(q) PROVE x \in S /\ IsBuff(x)
  BY DEF Buffs
<1>3. \A x \in TcpMsg : IsBuff(x) => x \in UpdateBufferMsg
  BY DEF TcpMsg, UpdateBufferMsg, IsBuff
<1>4. \A x \in UpdateBufferMsg :
        x.type = "EPRUpdateBuffer" /\ x.table \in Tables /\ x.buff \in Buffer
  BY DEF UpdateBufferMsg
<1>5. \A x \in FwdMsg : IsBuff(x) =>
        x.type = "EPUpdateBuffer" /\ x.table \in Tables /\ x.buff \in Buffer
  BY DEF FwdMsg, IsBuff
<1>6. \A x \in Buffs(tcp[a]) : x \in UpdateBufferMsg /\ IsBuff(x)
  BY <1>1, <1>2, <1>3
<1>7. \A x \in Buffs(outBuff[a]) \cup Buffs(recvBuff[a]) : x \in UpdateBufferMsg /\ IsBuff(x)
  BY <1>1, <1>2
<1>8. \A x \in Buffs(fwdPipe[a]) : x \in FwdMsg /\ IsBuff(x)
  BY <1>1, <1>2
<1> QED
  BY <1>4, <1>5, <1>6, <1>7, <1>8

-----------------------------------------------------------------------------
(* The steps that move no buffer: signals come and go, threads leave RUN.  *)
IdleAt(a) ==
    /\ Keeps(tcp[a], tcp'[a]) /\ Keeps(fwdPipe[a], fwdPipe'[a])
    /\ (pPc[a] \in {"ack", "send"} \/ pPc'[a] \in {"ack", "send"}) => pPc'[a] = pPc[a]
    /\ pPc'[a] = "flush" =>
            pPc[a] = "flush" \/ \E t \in Tables : updateStore[a][t].keys # {}
    /\ (timer[a] = "none" /\ pPc[a] \in {"poll", "exit"}) =>
            timer'[a] = "none" /\ pPc'[a] \in {"poll", "exit"}
    /\ rPc'[a] = "dedup" <=> rPc[a] = "dedup"
    /\ pState'[a] = "RUN" => pState[a] = "RUN" /\ updateStore'[a] = updateStore[a]
    /\ \A t \in Tables : updateStore'[a][t] \in {updateStore[a][t], EmptyStore}
    /\ rState'[a] = "RUN" => rState[a] = "RUN" /\ myUpdates'[a] = myUpdates[a]
    /\ \A t \in Tables : myUpdates'[a][t] \in {myUpdates[a][t], <<>>}
    /\ \A i \in 1 .. Len(p2r'[a]) : p2r'[a][i].type = "EMyUpdates" =>
            \E j \in 1 .. Len(p2r[a]) : p2r[a][j] = p2r'[a][i]

Idle ==
    /\ UNCHANGED <<outBuff, recvBuff, peerUpdateRange, myUpdateRange,
                   myUpdateStore, hasMyUpdates, r2p, fatal>>
    /\ \A a \in Nodes : IdleAt(a)

(* The steps that do move buffers or count, send and record own updates.   *)
LogStep(n, th) ==
    /\ RecvUpdateLog(n, th) /\ pState[n] = "RUN"
    /\ UNCHANGED <<storage, recvVars, appVars>>

FlushStep(n, t) == FlushTable(n, t) /\ UNCHANGED <<storage, recvVars, appVars>>

SendStep(n) == SendBuffer(n) /\ UNCHANGED <<storage, recvVars, appVars>>

MergeStep(n) == RecvPUpdateBuffer(n) /\ UNCHANGED <<storage, recvVars, appVars>>

RecordStep(n) == RecvMyUpdates(n) /\ UNCHANGED <<timer, propVars, appVars>>

TakeStep(n, u) == RecvUpdateBuffer(n, u) /\ UNCHANGED <<timer, propVars, appVars>>

DedupStep(n) == Dedup(n) /\ UNCHANGED <<timer, propVars, appVars>>

(* The rest of the types.                                                  *)
DataTypes ==
    /\ updateStore \in [Nodes -> [Tables -> Store]]
    /\ myUpdateStore \in [Nodes -> [Tables -> Store]]
    /\ myUpdateRange \in [Nodes -> [Tables -> UpdateRange]]
    /\ peerUpdateRange \in [Nodes -> [Tables -> PeerRanges]]
    /\ outBuff \in [Nodes -> Seq(UpdateBufferMsg)]
    /\ recvBuff \in [Nodes -> Seq(UpdateBufferMsg)]
    /\ myUpdates \in [Nodes -> [Tables -> Seq(Buffer)]]
    /\ hasMyUpdates \in [Nodes -> SUBSET Tables]
    /\ fatal \in [Nodes -> FatalSites]

(* The type invariant, in the parts the lemmas use.                        *)
LEMMA AllTypes == TypeInv => ControlTypes /\ PipeTypes /\ DataTypes
BY Types DEF TypeInv, TypeOK, WiresTypeOK, PropagatorTypeOK, ReceiverTypeOK, DataTypes

(* A node at which nothing of this changes.                                *)
LEMMA IdleSame ==
    ASSUME NEW a \in Nodes, tcp'[a] = tcp[a], fwdPipe'[a] = fwdPipe[a],
           pPc'[a] = pPc[a], rPc'[a] = rPc[a], pState'[a] = pState[a],
           rState'[a] = rState[a], updateStore'[a] = updateStore[a],
           myUpdates'[a] = myUpdates[a], p2r'[a] = p2r[a],
           timer[a] = "none" => timer'[a] = "none"
    PROVE  IdleAt(a)
BY KeepsSame DEF IdleAt

(* The steps of the timer threads leave the data path alone.               *)
LEMMA IdleTimer ==
    ASSUME TypeInv, NEW n \in Nodes, TimerNext(n)
    PROVE  Idle
<1>1. UNCHANGED <<wireVars, fatal, propVars, storage, recvVars, appVars>>
  BY DEF TimerNext, TimerStep
<1>2. ASSUME NEW a \in Nodes PROVE timer[a] = "none" => timer'[a] = "none"
  BY AllTypes DEF ControlTypes, TimerNext, TimerStep, Trigger, Command
<1>3. ASSUME NEW a \in Nodes PROVE IdleAt(a)
  BY <1>1, <1>2, IdleSame DEF wireVars, propVars, propStores, recvVars
<1> QED
  BY <1>1, <1>3 DEF Idle, wireVars, propVars, propStores, recvVars

(* So do those of the application threads.                                 *)
LEMMA IdleApplication ==
    ASSUME TypeInv, NEW n \in Nodes, ApplicationNext(n)
    PROVE  Idle
<1>1. UNCHANGED <<fatal, timer, propVars, recvVars>>
  BY DEF ApplicationNext
<1>2. UNCHANGED <<fwdPipe, p2r, r2p, tcp>>
  BY DEF ApplicationNext, ApplicationStep, RegisterThr, DeregisterThr, PropagatorInc,
    Inc, SignalTermPropagator, ShutDownStep, SignalTermReceiver, WaitTermPropagator,
    WaitTermReceiver, wireVars
<1>3. ASSUME NEW a \in Nodes PROVE IdleAt(a)
  BY <1>1, <1>2, IdleSame DEF propVars, propStores, recvVars
<1> QED
  BY <1>1, <1>2, <1>3 DEF Idle, propVars, propStores, recvVars

(* A propagator at work on something else.                                 *)
LEMMA IdlePropagator ==
    ASSUME TypeInv, NEW n \in Nodes, PropagatorNext(n)
    PROVE  \/ Idle
           \/ \E th \in Threads : LogStep(n, th)
           \/ \E t \in Tables : FlushStep(n, t)
           \/ SendStep(n)
           \/ MergeStep(n)
<1>1. UNCHANGED <<storage, recvVars, appVars>>
  BY DEF PropagatorNext
<1>2. ControlTypes /\ PipeTypes /\ DataTypes
  BY AllTypes
<1>3. CASE TimerTick(n)
  <2>1. ASSUME NEW a \in Nodes, a # n PROVE IdleAt(a)
    BY <1>1, <1>2, <1>3, <2>1, IdleSame DEF TimerTick, wireVars, propStores, recvVars, ControlTypes
  <2>2. IdleAt(n)
    <3>1. /\ pPc[n] = "poll" /\ timer[n] = "triggered"
          /\ pPc'[n] \in {"join", "poll", "flush"}
          /\ pPc'[n] = "flush" => \E t \in Tables : updateStore[n][t].keys # {}
      BY <1>2, <1>3 DEF TimerTick, Polling, AfterFlush, ControlTypes
    <3> QED
      BY <1>1, <1>3, <3>1, KeepsSame DEF IdleAt, TimerTick, wireVars, propStores, recvVars
  <2> QED
    BY <1>1, <1>3, <2>1, <2>2 DEF Idle, TimerTick, wireVars, propStores, recvVars
<1>4. CASE JoinTimer(n)
  <2>1. ASSUME NEW a \in Nodes, a # n PROVE IdleAt(a)
    BY <1>1, <1>2, <1>4, <2>1, IdleSame
      DEF JoinTimer, ExitIf, wireVars, propStores, recvVars, ControlTypes
  <2>2. IdleAt(n)
    <3>1. /\ pPc[n] = "join" /\ pPc'[n] \in {"poll", "exit"}
          /\ pState'[n] = "RUN" => pState[n] = "RUN"
      BY <1>2, <1>4 DEF JoinTimer, ExitIf, ControlTypes
    <3> QED
      BY <1>1, <1>4, <3>1, KeepsSame DEF IdleAt, JoinTimer, wireVars, propStores, recvVars
  <2> QED
    BY <1>1, <1>4, <2>1, <2>2 DEF Idle, JoinTimer, wireVars, propStores, recvVars
<1>5. ASSUME NEW th \in Threads, RecvUpdateLog(n, th) PROVE Idle \/ LogStep(n, th)
  <2>1. CASE pState[n] = "RUN"
    BY <1>1, <1>5, <2>1 DEF LogStep
  <2>2. CASE pState[n] # "RUN"
    <3>1. UNCHANGED <<myUpdateRange, updateStore, myUpdateStore>>
      BY <1>5, <2>2 DEF RecvUpdateLog
    <3>2. ASSUME NEW a \in Nodes PROVE IdleAt(a)
      BY <1>1, <1>5, <3>1, IdleSame DEF RecvUpdateLog, recvVars
    <3> QED
      BY <1>1, <1>5, <3>1, <3>2 DEF Idle, RecvUpdateLog, recvVars
  <2> QED
    BY <2>1, <2>2
<1>6. ASSUME NEW th \in Threads, RecvInternalTerminate(n, th) PROVE Idle
  <2>1. ASSUME NEW a \in Nodes, a # n PROVE IdleAt(a)
    BY <1>1, <1>2, <1>6, <2>1, IdleSame, ZenonT(40)
      DEF RecvInternalTerminate, recvVars, ControlTypes, PipeTypes, DataTypes
  <2>2. Keeps(tcp[n], tcp'[n])
    <3>1. tcp'[n] = Append(tcp[n], TermAck(n)) \/ tcp'[n] = tcp[n]
      BY <1>2, <1>6 DEF RecvInternalTerminate, PipeTypes
    <3>2. tcp[n] \in Seq(TcpMsg) /\ ~IsBuff(TermAck(n))
      BY <1>2 DEF PipeTypes, TermAck, IsBuff
    <3> QED
      BY <3>1, <3>2, AppendToPipe, KeepsSame
  <2>3. \A i \in 1 .. Len(p2r'[n]) : p2r'[n][i].type = "EMyUpdates" =>
            \E j \in 1 .. Len(p2r[n]) : p2r[n][j] = p2r'[n][i]
    <3> DEFINE x == Msg("EPRInternalTerminate")
    <3>1. p2r'[n] = Append(p2r[n], x)
      BY <1>2, <1>6 DEF RecvInternalTerminate, PipeTypes
    <3>2. p2r[n] \in Seq(P2RMsg) /\ x \in P2RMsg /\ x.type # "EMyUpdates"
      BY <1>2, BuffMsgType DEF PipeTypes, Msg
    <3> HIDE DEF x
    <3> QED
      BY <3>1, <3>2
  <2>4. /\ pPc'[n] = pPc[n] /\ pState'[n] # "RUN" /\ fwdPipe' = fwdPipe /\ timer' = timer
        /\ updateStore'[n] = [tb \in Tables |-> EmptyStore]
    BY <1>2, <1>6 DEF RecvInternalTerminate, ControlTypes, DataTypes
  <2>5. IdleAt(n)
    BY <1>1, <2>2, <2>3, <2>4, KeepsSame DEF IdleAt, recvVars
  <2> QED
    BY <1>1, <1>6, <2>1, <2>5 DEF Idle, RecvInternalTerminate, recvVars
<1>7. CASE RecvInternalTerminateACK(n)
  <2>1. ASSUME NEW a \in Nodes, a # n PROVE IdleAt(a)
    BY <1>1, <1>2, <1>7, <2>1, IdleSame
      DEF RecvInternalTerminateACK, ExitIf, propStores, recvVars, ControlTypes, PipeTypes
  <2>2. Keeps(fwdPipe[n], fwdPipe'[n])
    <3>1. fwdPipe[n] \in Seq(FwdMsg) /\ fwdPipe[n] # <<>> /\ ~IsBuff(Head(fwdPipe[n]))
      BY <1>2, <1>7 DEF RecvInternalTerminateACK, IsNext, PipeTypes, IsBuff
    <3>2. fwdPipe'[n] = Tail(fwdPipe[n])
      BY <1>2, <1>7 DEF RecvInternalTerminateACK, PipeTypes
    <3> QED
      BY <3>1, <3>2, TailOfPipe
  <2>3. /\ pPc[n] = "poll" /\ pPc'[n] \in {"poll", "exit"}
        /\ pState'[n] = "RUN" => pState[n] = "RUN"
    BY <1>2, <1>7 DEF RecvInternalTerminateACK, UpdateBranch, Polling, ExitIf, ControlTypes
  <2>4. IdleAt(n)
    BY <1>1, <1>7, <2>2, <2>3, KeepsSame DEF IdleAt, RecvInternalTerminateACK, propStores, recvVars
  <2> QED
    BY <1>1, <1>7, <2>1, <2>4 DEF Idle, RecvInternalTerminateACK, propStores, recvVars
<1>8. CASE RecvEPRTerminate(n)
  <2>1. ASSUME NEW a \in Nodes, a # n PROVE IdleAt(a)
    <3>1. pPc'[a] = pPc[a] /\ pState'[a] = pState[a] /\ tcp'[a] = tcp[a]
      <4>1. CASE MayReplyDs(n)
        BY <1>2, <1>8, <2>1, <4>1 DEF RecvEPRTerminate, ExitIf, ControlTypes, PipeTypes
      <4>2. CASE ~MayReplyDs(n)
        BY <1>8, <4>2 DEF RecvEPRTerminate
      <4> QED
        BY <4>1, <4>2
    <3>2. UNCHANGED <<rPc, rState, myUpdates, updateStore, timer, fwdPipe, p2r>>
      BY <1>1, <1>8 DEF RecvEPRTerminate, propStores, recvVars
    <3> QED
      BY <3>1, <3>2, IdleSame
  <2>2. Keeps(tcp[n], tcp'[n])
    <3>1. tcp'[n] = Append(tcp[n], TermAck(n)) \/ tcp'[n] = tcp[n]
      BY <1>2, <1>8 DEF RecvEPRTerminate, PipeTypes
    <3>2. tcp[n] \in Seq(TcpMsg) /\ ~IsBuff(TermAck(n))
      BY <1>2 DEF PipeTypes, TermAck, IsBuff
    <3> QED
      BY <3>1, <3>2, AppendToPipe, KeepsSame
  <2>3. /\ pPc[n] = "poll" /\ pPc'[n] \in {"poll", "exit"}
        /\ pState'[n] = "RUN" => pState[n] = "RUN"
    BY <1>2, <1>8 DEF RecvEPRTerminate, TermBranch, UpdateBranch, Polling, ExitIf, ControlTypes
  <2>4. IdleAt(n)
    BY <1>1, <1>8, <2>2, <2>3, KeepsSame DEF IdleAt, RecvEPRTerminate, propStores, recvVars
  <2> QED
    BY <1>1, <1>8, <2>1, <2>4 DEF Idle, RecvEPRTerminate, propStores, recvVars
<1> QED
  BY <1>1, <1>3, <1>4, <1>5, <1>6, <1>7, <1>8
    DEF PropagatorNext, PropagatorStep, FlushStep, SendStep, MergeStep

(* A receiver at work on something else.                                   *)
LEMMA IdleReceiver ==
    ASSUME TypeInv, NEW n \in Nodes, ReceiverNext(n)
    PROVE  \/ Idle
           \/ RecordStep(n)
           \/ \E u \in Nodes : TakeStep(n, u)
           \/ DedupStep(n)
<1>1. UNCHANGED <<timer, propVars, appVars>>
  BY DEF ReceiverNext
<1>2. ControlTypes /\ PipeTypes /\ DataTypes
  BY AllTypes
<1> USE DEF propVars, propStores
<1>3. CASE RecvERInternalTerminate(n)
  <2>1. ASSUME NEW a \in Nodes, a # n PROVE IdleAt(a)
    BY <1>1, <1>2, <1>3, <2>1, IdleSame
      DEF RecvERInternalTerminate, ReplyPairTerm, ControlTypes, PipeTypes, DataTypes
  <2>2. Keeps(fwdPipe[n], fwdPipe'[n])
    <3> DEFINE x == Msg("EPRecvInternalTerminateACK")
    <3>1. fwdPipe'[n] = Append(fwdPipe[n], x) \/ fwdPipe'[n] = fwdPipe[n]
      BY <1>2, <1>3 DEF RecvERInternalTerminate, ReplyPairTerm, PipeTypes
    <3>2. fwdPipe[n] \in Seq(FwdMsg) /\ ~IsBuff(x)
      BY <1>2 DEF PipeTypes, Msg, IsBuff
    <3> HIDE DEF x
    <3> QED
      BY <3>1, <3>2, AppendToPipe, KeepsSame
  <2>3. /\ rState'[n] # "RUN" /\ myUpdates'[n] = [t \in Tables |-> <<>>]
        /\ rPc' = rPc /\ p2r' = p2r /\ tcp' = tcp
    BY <1>2, <1>3 DEF RecvERInternalTerminate, ControlTypes, DataTypes
  <2>4. IdleAt(n)
    BY <1>1, <2>2, <2>3, KeepsSame DEF IdleAt
  <2> QED
    BY <1>1, <1>3, <2>1, <2>4 DEF Idle, RecvERInternalTerminate
<1>4. CASE RecvEPRInternalTerminate(n)
  <2>1. ASSUME NEW a \in Nodes, a # n PROVE IdleAt(a)
    <3>1. rPc'[a] = rPc[a] /\ rState'[a] = rState[a] /\ fwdPipe'[a] = fwdPipe[a]
      <4>1. CASE rState[n] = "RUN"
        BY <1>4, <4>1 DEF RecvEPRInternalTerminate
      <4>2. CASE rState[n] # "RUN"
        BY <1>2, <1>4, <2>1, <4>2
          DEF RecvEPRInternalTerminate, ReplyPairTerm, RecvExitIf, ControlTypes, PipeTypes
      <4> QED
        BY <4>1, <4>2
    <3>2. p2r'[a] = p2r[a] /\ UNCHANGED <<tcp, myUpdates>>
      BY <1>2, <1>4, <2>1 DEF RecvEPRInternalTerminate, PipeTypes
    <3> QED
      BY <1>1, <3>1, <3>2, IdleSame
  <2>2. Keeps(fwdPipe[n], fwdPipe'[n])
    <3> DEFINE x == Msg("EPRecvInternalTerminateACK")
    <3>1. fwdPipe'[n] = Append(fwdPipe[n], x) \/ fwdPipe'[n] = fwdPipe[n]
      BY <1>2, <1>4 DEF RecvEPRInternalTerminate, ReplyPairTerm, PipeTypes
    <3>2. fwdPipe[n] \in Seq(FwdMsg) /\ ~IsBuff(x)
      BY <1>2 DEF PipeTypes, Msg, IsBuff
    <3> HIDE DEF x
    <3> QED
      BY <3>1, <3>2, AppendToPipe, KeepsSame
  <2>3. \A i \in 1 .. Len(p2r'[n]) : \E j \in 1 .. Len(p2r[n]) : p2r[n][j] = p2r'[n][i]
    <3>1. p2r[n] \in Seq(P2RMsg) /\ p2r[n] # <<>> /\ p2r'[n] = Tail(p2r[n])
      BY <1>2, <1>4 DEF RecvEPRInternalTerminate, IsNext, PipeTypes
    <3>2. Len(p2r'[n]) = Len(p2r[n]) - 1 /\ \A i \in 1 .. Len(p2r'[n]) : p2r'[n][i] = p2r[n][i + 1]
      BY <3>1
    <3>3. \A i \in 1 .. Len(p2r'[n]) : i + 1 \in 1 .. Len(p2r[n])
      BY <3>1, <3>2
    <3> QED
      BY <3>2, <3>3
  <2>4. /\ rState'[n] = "RUN" => rState[n] = "RUN"
        /\ rPc[n] = "poll" /\ rPc'[n] \in {"poll", "exit"}
        /\ tcp' = tcp /\ myUpdates' = myUpdates
    BY <1>2, <1>4 DEF RecvEPRInternalTerminate, InternalBranch, RecvExitIf, ControlTypes
  <2>5. IdleAt(n)
    BY <1>1, <2>2, <2>3, <2>4, KeepsSame DEF IdleAt
  <2> QED
    BY <1>1, <1>4, <2>1, <2>5 DEF Idle, RecvEPRInternalTerminate
<1>5. ASSUME NEW u \in Nodes, RecvTerminateACK(n, u) PROVE Idle
  <2>1. \A a \in Nodes : Keeps(tcp[a], tcp'[a])
    <3>1. tcp[u] \in Seq(TcpMsg) /\ tcp[u] # <<>> /\ ~IsBuff(Head(tcp[u]))
      BY <1>2, <1>5 DEF RecvTerminateACK, IsNext, PipeTypes, IsBuff
    <3>2. tcp' = [tcp EXCEPT ![u] = Tail(@)]
      BY <1>5 DEF RecvTerminateACK
    <3>3. Keeps(tcp[u], Tail(tcp[u]))
      BY <3>1, TailOfPipe
    <3> QED
      BY <1>2, <3>2, <3>3, KeepsSame DEF PipeTypes
  <2>2. ASSUME NEW a \in Nodes
        PROVE  /\ rState'[a] = "RUN" => rState[a] = "RUN"
               /\ rPc'[a] = "dedup" <=> rPc[a] = "dedup"
    BY <1>2, <1>5 DEF RecvTerminateACK, UpdateSockBranch, InternalBranch, RecvExitIf, ControlTypes
  <2>3. UNCHANGED <<fwdPipe, p2r, r2p, fatal, myUpdates, hasMyUpdates, recvBuff>>
    BY <1>5 DEF RecvTerminateACK
  <2>4. ASSUME NEW a \in Nodes PROVE IdleAt(a)
    BY <1>1, <2>1, <2>2, <2>3, KeepsSame DEF IdleAt
  <2> QED
    BY <1>1, <2>3, <2>4 DEF Idle
<1>6. CASE ApplyUpdate(n)
  <2>1. UNCHANGED <<wireVars, fatal, rState, myUpdates, hasMyUpdates, recvBuff>>
    BY <1>6 DEF ApplyUpdate
  <2>2. rPc[n] = "apply" /\ \E loc \in {"poll", "apply"} : rPc' = [rPc EXCEPT ![n] = loc]
    BY <1>6 DEF ApplyUpdate, AfterApply
  <2>3. \A a \in Nodes : rPc'[a] = "dedup" <=> rPc[a] = "dedup"
    BY <1>2, <2>2 DEF ControlTypes
  <2>4. ASSUME NEW a \in Nodes PROVE IdleAt(a)
    BY <1>1, <2>1, <2>3, KeepsSame DEF IdleAt, wireVars
  <2> QED
    BY <1>1, <2>1, <2>4 DEF Idle, wireVars
<1> QED
  BY <1>1, <1>3, <1>4, <1>5, <1>6
    DEF ReceiverNext, ReceiverStep, RecordStep, TakeStep, DedupStep

(* Every step is idle or one of those that follow.                         *)
LEMMA FlowSteps ==
    ASSUME TypeInv, [Next]_vars
    PROVE  \/ Idle
           \/ \E n \in Nodes :
                \/ \E th \in Threads : LogStep(n, th)
                \/ \E t \in Tables : FlushStep(n, t)
                \/ SendStep(n)
                \/ MergeStep(n)
                \/ RecordStep(n)
                \/ \E u \in Nodes : TakeStep(n, u)
                \/ DedupStep(n)
<1>1. CASE UNCHANGED vars
  <2>1. UNCHANGED <<wireVars, fatal, timer, propVars, storage, recvVars, appVars>>
    BY <1>1 DEF vars
  <2>2. ASSUME NEW a \in Nodes PROVE IdleAt(a)
    BY <2>1, IdleSame DEF wireVars, propVars, propStores, recvVars
  <2> QED
    BY <2>1, <2>2 DEF Idle, wireVars, propVars, propStores, recvVars
<1>2. CASE Stop
  BY <1>1, <1>2 DEF Stop
<1>3. ASSUME NEW n \in Nodes, TimerNext(n) PROVE Idle
  BY <1>3, IdleTimer
<1>4. ASSUME NEW n \in Nodes, ApplicationNext(n) PROVE Idle
  BY <1>4, IdleApplication
<1> QED
  BY <1>1, <1>2, <1>3, <1>4, IdlePropagator, IdleReceiver DEF Next

-----------------------------------------------------------------------------
(* The graph.                                                              *)

(* The updates of a node are at the node itself, and where they come from  *)
(* there.                                                                  *)
LEMMA Graph ==
    ASSUME NEW p \in Nodes
    PROVE  /\ p \in Reach(p)
           /\ \A a \in Reach(p) : Downstream[a] \in Nodes => Downstream[a] \in Fed(p)
           /\ Fed(p) \subseteq Reach(p)
           /\ Reach(p) \subseteq Nodes
<1>1. ASSUME NEW m \in Fed(p) PROVE m \in Reach(p)
  <2>1. PICK a \in Reach(p) : Downstream[a] = m
    BY DEF Fed
  <2>2. m \in Nodes /\ m # NoNode
    BY NodeIsNotNoNode DEF Fed
  <2> SUFFICES ASSUME NEW S \in SUBSET Nodes, p \in S, Closed(S) PROVE m \in S
    BY <2>2 DEF Reach
  <2>3. a \in S
    BY DEF Reach
  <2> QED
    BY <2>1, <2>2, <2>3 DEF Closed
<1> QED
  BY <1>1 DEF Reach, Fed

-----------------------------------------------------------------------------
(* What each of the steps does.                                            *)

Known(a, t, p) == p \in peerUpdateRange[a][t].known

First(a, t, p) == peerUpdateRange[a][t].range[p].st

(* The last number of p that the propagator of a has merged.               *)
Merged(a, t, p) == peerUpdateRange[a][t].range[p].end

(* An update log: one number more.                                         *)
LogDoes(n, t) ==
    /\ pPc[n] = "poll" /\ pState[n] = "RUN"
    /\ UNCHANGED <<tcp, outBuff, fwdPipe, recvBuff, peerUpdateRange, p2r, r2p, fatal,
                   myUpdates, hasMyUpdates, pPc, pState, timer, rPc, rState>>
    /\ myUpdateRange'[n][t].st = myUpdateRange[n][t].st
    /\ myUpdateRange'[n][t].end = myUpdateRange[n][t].end + 1
    /\ \A a \in Nodes, s \in Tables : (a # n \/ s # t) =>
        /\ myUpdateRange'[a][s] = myUpdateRange[a][s]
        /\ myUpdateStore'[a][s] = myUpdateStore[a][s]
        /\ updateStore'[a][s] = updateStore[a][s]
    /\ n \notin Batched =>
        updateStore'[n][t] = updateStore[n][t] /\ myUpdateStore'[n][t] = myUpdateStore[n][t]
    /\ n \in Batched => \E k \in AllKeys :
        /\ updateStore'[n][t].keys = updateStore[n][t].keys \cup {k}
        /\ IF t \in Loop[n]
           THEN myUpdateStore'[n][t].keys = myUpdateStore[n][t].keys \cup {k}
           ELSE myUpdateStore'[n][t] = myUpdateStore[n][t]

(* EPUpdateLog is merged in the store of its table, and takes a number.    *)
LEMMA LogEffect ==
    ASSUME TypeInv, NEW n \in Nodes, NEW th \in Threads, LogStep(n, th)
    PROVE  \E t \in Tables : LogDoes(n, t) /\ IsNext(logPipe[n][th], "EPUpdateLog")
<1> DEFINE m == Head(logPipe[n][th])
           t == m.table
<1>1. ControlTypes /\ PipeTypes /\ DataTypes
  BY AllTypes
<1>2. /\ RecvUpdateLog(n, th) /\ pState[n] = "RUN" /\ UNCHANGED recvVars
      /\ logPipe[n][th] # <<>> /\ m.type = "EPUpdateLog"
  BY DEF LogStep, RecvUpdateLog, IsNext
<1>3. m \in LogMsg
  BY <1>1, <1>2 DEF PipeTypes
<1>4. t \in Tables /\ m.key \in AllKeys /\ m.delta \in Value
  BY <1>2, <1>3 DEF LogMsg
<1>5. /\ myUpdateRange' = [myUpdateRange EXCEPT ![n][t].end = @ + 1]
      /\ n \in Batched =>
            updateStore' = [updateStore EXCEPT ![n][t] = AddUpdate(@, m.key, m.delta)]
      /\ n \notin Batched => updateStore' = updateStore
      /\ (n \in Batched /\ t \in Loop[n]) =>
            myUpdateStore' = [myUpdateStore EXCEPT ![n][t] = AddUpdate(@, m.key, m.delta)]
      /\ ~(n \in Batched /\ t \in Loop[n]) => myUpdateStore' = myUpdateStore
  BY <1>2 DEF RecvUpdateLog
<1>6. /\ pPc[n] = "poll"
      /\ UNCHANGED <<tcp, outBuff, fwdPipe, recvBuff, peerUpdateRange, p2r, r2p, fatal,
                     myUpdates, hasMyUpdates, pPc, pState, timer, rPc, rState>>
  BY <1>2 DEF RecvUpdateLog, UpdateBranch, Polling, recvVars
<1> HIDE DEF m
<1>7. /\ myUpdateRange'[n][t] = [myUpdateRange[n][t] EXCEPT !.end = @ + 1]
      /\ \A a \in Nodes, s \in Tables : (a # n \/ s # t) =>
            myUpdateRange'[a][s] = myUpdateRange[a][s]
  <2>1. /\ myUpdateRange \in [Nodes -> [Tables -> UpdateRange]]
        /\ myUpdateRange' = [myUpdateRange EXCEPT ![n][t].end = @ + 1]
    BY <1>1, <1>5 DEF DataTypes
  <2> HIDE DEF t
  <2>2. myUpdateRange'[n][t] = [myUpdateRange[n][t] EXCEPT !.end = @ + 1]
    BY <2>1, <1>4
  <2>3. \A a \in Nodes, s \in Tables : (a # n \/ s # t) =>
            myUpdateRange'[a][s] = myUpdateRange[a][s]
    BY <2>1, <1>4
  <2> QED
    BY <2>2, <2>3
<1>8. /\ myUpdateRange'[n][t].st = myUpdateRange[n][t].st
      /\ myUpdateRange'[n][t].end = myUpdateRange[n][t].end + 1
  <2>1. myUpdateRange[n][t] \in UpdateRange
    BY <1>1, <1>4 DEF DataTypes
  <2> QED
    BY <1>7, <2>1 DEF UpdateRange
<1>9. \A s \in Store : AddUpdate(s, m.key, m.delta).keys = s.keys \cup {m.key}
  BY DEF AddUpdate
<1>10. \A a \in Nodes, s \in Tables : (a # n \/ s # t) =>
            /\ updateStore'[a][s] = updateStore[a][s]
            /\ myUpdateStore'[a][s] = myUpdateStore[a][s]
  BY <1>1, <1>4, <1>5 DEF DataTypes
<1>11. n \in Batched => updateStore'[n][t].keys = updateStore[n][t].keys \cup {m.key}
  BY <1>1, <1>4, <1>5, <1>9 DEF DataTypes
<1>12. n \in Batched =>
            IF t \in Loop[n]
            THEN myUpdateStore'[n][t].keys = myUpdateStore[n][t].keys \cup {m.key}
            ELSE myUpdateStore'[n][t] = myUpdateStore[n][t]
  BY <1>1, <1>4, <1>5, <1>9 DEF DataTypes
<1>13. n \notin Batched =>
        updateStore'[n][t] = updateStore[n][t] /\ myUpdateStore'[n][t] = myUpdateStore[n][t]
  BY <1>5
<1>14. LogDoes(n, t)
  BY <1>2, <1>4, <1>6, <1>7, <1>8, <1>10, <1>11, <1>12, <1>13 DEF LogDoes
<1> QED
  BY <1>2, <1>4, <1>14 DEF IsNext, m

(* A buffer x is made of table t.                                          *)
FlushDoes(n, t, x) ==
    /\ fatal[n] = "none" /\ pPc[n] = "flush" /\ outBuff[n] = <<>>
    /\ UNCHANGED <<tcp, fwdPipe, recvBuff, myUpdateRange, r2p,
                   myUpdates, hasMyUpdates, pState, timer, rPc, rState>>
    /\ \A a \in Nodes \ {n} :
        /\ outBuff'[a] = outBuff[a] /\ p2r'[a] = p2r[a] /\ pPc'[a] = pPc[a]
        /\ fatal'[a] = fatal[a]
    /\ \A a \in Nodes, s \in Tables : (a # n \/ s # t) =>
        /\ peerUpdateRange'[a][s] = peerUpdateRange[a][s]
        /\ updateStore'[a][s] = updateStore[a][s]
        /\ myUpdateStore'[a][s] = myUpdateStore[a][s]
    /\ x \in UpdateBufferMsg /\ IsBuff(x) /\ x.table = t
    /\ Solid(x.buff) /\ x.buff.updates = updateStore[n][t]
    /\ outBuff'[n] = <<x>> /\ updateStore'[n][t] = EmptyStore
    /\ \A p \in Nodes :
        /\ Known(n, t, p)' <=> Known(n, t, p)
        /\ Merged(n, t, p)' = Merged(n, t, p)
        /\ Has(x, p) <=> p \in NewPeers(n, t) \/ (p = n /\ HasOwnRange(n, t))
        /\ p \in NewPeers(n, t) =>
            /\ p # n /\ Known(n, t, p)
            /\ From(x, p) = First(n, t, p) /\ To(x, p) = Merged(n, t, p)
            /\ First(n, t, p) <= Merged(n, t, p)
            /\ First(n, t, p)' = Merged(n, t, p) + 1
        /\ p \notin NewPeers(n, t) =>
            /\ peerUpdateRange'[n][t].range[p] = peerUpdateRange[n][t].range[p]
            /\ Known(n, t, p) => First(n, t, p) > Merged(n, t, p)
    /\ HasOwnRange(n, t) => GetNodeRange(x.buff, n) = myUpdateRange[n][t]
    /\ IF t \in Loop[n] /\ myUpdateStore[n][t].keys # {}
       THEN /\ p2r'[n] = Append(p2r[n], BuffMsg("EMyUpdates", t,
                    [ranges |-> <<NodeSlot(n, myUpdateRange[n][t])>>,
                     updates |-> myUpdateStore[n][t]]))
            /\ myUpdateStore'[n][t] = EmptyStore
            /\ pPc'[n] = "ack"
            /\ fatal'[n] = IF HasOwnRange(n, t) THEN fatal[n] ELSE "my_update_range"
       ELSE /\ p2r'[n] = p2r[n] /\ myUpdateStore'[n][t] = myUpdateStore[n][t]
            /\ pPc'[n] = "send" /\ fatal'[n] = fatal[n]

(* The timer branch up to EMyUpdates: what the buffer it makes holds.      *)
LEMMA FlushEffect ==
    ASSUME FlowInv, NEW n \in Nodes, NEW t \in Tables, FlushStep(n, t)
    PROVE  \E x : FlushDoes(n, t, x)
<1>1. TypeInv /\ BuffersInv(n) /\ FlushTable(n, t) /\ UNCHANGED recvVars
  BY DEF FlowInv, ShutdownInv, FlushStep
<1>2. ControlTypes /\ PipeTypes /\ DataTypes
  BY <1>1, AllTypes
<1>3. PICK order \in Orders(NewPeers(n, t)) :
        outBuff' = [outBuff EXCEPT ![n] =
            <<BuffMsg("EPRUpdateBuffer", t,
                [ranges |-> FlushSlots(n, t, order),
                 updates |-> updateStore[n][t]])>>]
  BY <1>1 DEF FlushTable
<1> DEFINE b == [ranges |-> FlushSlots(n, t, order), updates |-> updateStore[n][t]]
           x == BuffMsg("EPRUpdateBuffer", t, b)
<1>4. updateStore[n][t] \in Store
  BY <1>2 DEF DataTypes
<1>5. /\ b \in Buffer /\ Solid(b)
      /\ \A p \in Nodes :
            /\ HasNodeRange(b, p) <=>
                    p \in NewPeers(n, t) \/ (p = n /\ HasOwnRange(n, t))
            /\ p \in NewPeers(n, t) =>
                    GetNodeRange(b, p) = peerUpdateRange[n][t].range[p]
            /\ p = n /\ HasOwnRange(n, t) =>
                    GetNodeRange(b, p) = myUpdateRange[n][t]
  BY <1>1, <1>4, FlushedRanges
<1>6. b.updates = updateStore[n][t]
  OBVIOUS
<1> HIDE DEF b
<1>7. x.buff = b /\ x.table = t /\ x.type = "EPRUpdateBuffer"
  BY DEF BuffMsg
<1>8. x \in UpdateBufferMsg /\ IsBuff(x)
  BY <1>5 DEF BuffMsg, UpdateBufferMsg, IsBuff
<1>9. outBuff'[n] = <<x>> /\ \A a \in Nodes \ {n} : outBuff'[a] = outBuff[a]
  BY <1>2, <1>3 DEF DataTypes, b
<1> HIDE DEF x
<1>10. /\ updateStore'[n][t] = EmptyStore
       /\ \A a \in Nodes, s \in Tables : (a # n \/ s # t) =>
            updateStore'[a][s] = updateStore[a][s]
  BY <1>1, <1>2 DEF FlushTable, DataTypes
<1> DEFINE R == [p \in Nodes |-> IF p \in NewPeers(n, t)
                                 THEN Advance(peerUpdateRange[n][t].range[p])
                                 ELSE peerUpdateRange[n][t].range[p]]
<1>11. peerUpdateRange' = [peerUpdateRange EXCEPT ![n][t].range = R]
  BY <1>1 DEF FlushTable
<1>12. /\ peerUpdateRange'[n][t].known = peerUpdateRange[n][t].known
       /\ peerUpdateRange'[n][t].range = R
       /\ \A a \in Nodes, s \in Tables : (a # n \/ s # t) =>
            peerUpdateRange'[a][s] = peerUpdateRange[a][s]
  <2> HIDE DEF R
  <2>1. peerUpdateRange'[n][t] = [peerUpdateRange[n][t] EXCEPT !.range = R]
    BY <1>2, <1>11 DEF DataTypes
  <2>2. peerUpdateRange[n][t] \in PeerRanges
    BY <1>2 DEF DataTypes
  <2>3. \A a \in Nodes, s \in Tables : (a # n \/ s # t) =>
            peerUpdateRange'[a][s] = peerUpdateRange[a][s]
    BY <1>2, <1>11 DEF DataTypes
  <2> QED
    BY <2>1, <2>2, <2>3 DEF PeerRanges
<1>13. \A p \in Nodes :
        /\ p \in NewPeers(n, t) => peerUpdateRange'[n][t].range[p] =
                                        Advance(peerUpdateRange[n][t].range[p])
        /\ p \notin NewPeers(n, t) => peerUpdateRange'[n][t].range[p] =
                                        peerUpdateRange[n][t].range[p]
  BY <1>12
<1> HIDE DEF R
<1>14. ASSUME NEW p \in Nodes
       PROVE  /\ Known(n, t, p)' <=> Known(n, t, p)
              /\ Merged(n, t, p)' = Merged(n, t, p)
              /\ Has(x, p) <=> p \in NewPeers(n, t) \/ (p = n /\ HasOwnRange(n, t))
              /\ p \in NewPeers(n, t) =>
                  /\ p # n /\ Known(n, t, p)
                  /\ From(x, p) = First(n, t, p) /\ To(x, p) = Merged(n, t, p)
                  /\ First(n, t, p) <= Merged(n, t, p)
                  /\ First(n, t, p)' = Merged(n, t, p) + 1
              /\ p \notin NewPeers(n, t) =>
                  /\ peerUpdateRange'[n][t].range[p] = peerUpdateRange[n][t].range[p]
                  /\ Known(n, t, p) => First(n, t, p) > Merged(n, t, p)
  <2>1. peerUpdateRange[n][t].range[p] \in UpdateRange
    BY <1>2 DEF DataTypes, PeerRanges
  <2>2. First(n, t, p) \in Int /\ Merged(n, t, p) \in Int
    BY <2>1 DEF UpdateRange, First, Merged
  <2>3. p \in NewPeers(n, t) <=> Known(n, t, p) /\ First(n, t, p) <= Merged(n, t, p)
    BY DEF NewPeers, Known, First, Merged
  <2>4. Known(n, t, p)' <=> Known(n, t, p)
    BY <1>12 DEF Known
  <2>5. Has(x, p) <=> p \in NewPeers(n, t) \/ (p = n /\ HasOwnRange(n, t))
    BY <1>5, <1>7 DEF Has
  <2>6. p \in NewPeers(n, t) =>
            /\ Merged(n, t, p)' = Merged(n, t, p)
            /\ First(n, t, p)' = Merged(n, t, p) + 1
    <3> SUFFICES ASSUME p \in NewPeers(n, t)
                 PROVE  /\ Merged(n, t, p)' = Merged(n, t, p)
                        /\ First(n, t, p)' = Merged(n, t, p) + 1
      OBVIOUS
    <3>1. peerUpdateRange'[n][t].range[p] = Advance(peerUpdateRange[n][t].range[p])
      BY <1>13
    <3>2. Advance(peerUpdateRange[n][t].range[p]) = Span(Merged(n, t, p) + 1, Merged(n, t, p))
      BY DEF Advance, Merged
    <3>3. \A i, j : Span(i, j).st = i /\ Span(i, j).end = j
      BY DEF Span
    <3> QED
      BY <3>1, <3>2, <3>3 DEF Merged, First
  <2>7. p \notin NewPeers(n, t) => Merged(n, t, p)' = Merged(n, t, p)
    BY <1>13 DEF Merged
  <2>8. p \in NewPeers(n, t) =>
            From(x, p) = First(n, t, p) /\ To(x, p) = Merged(n, t, p)
    BY <1>5, <1>7 DEF From, To, First, Merged
  <2>9. p \in NewPeers(n, t) => p # n
    BY <1>1 DEF BuffersInv, NewPeers
  <2> QED
    BY <1>13, <2>2, <2>3, <2>4, <2>5, <2>6, <2>7, <2>8, <2>9
<1>15. HasOwnRange(n, t) => GetNodeRange(x.buff, n) = myUpdateRange[n][t]
  BY <1>5, <1>7
<1>16. /\ fatal[n] = "none" /\ pPc[n] = "flush" /\ outBuff[n] = <<>>
       /\ UNCHANGED <<tcp, fwdPipe, recvBuff, myUpdateRange, r2p,
                      myUpdates, hasMyUpdates, pState, timer, rPc, rState>>
  BY <1>1 DEF FlushTable, Alive, recvVars, BuffersInv
<1> DEFINE y == BuffMsg("EMyUpdates", t,
                    [ranges |-> <<NodeSlot(n, myUpdateRange[n][t])>>,
                     updates |-> myUpdateStore[n][t]])
<1>17. CASE t \in Loop[n] /\ myUpdateStore[n][t].keys # {}
  <2>1. /\ p2r' = [p2r EXCEPT ![n] = Append(@, y)]
        /\ myUpdateStore' = [myUpdateStore EXCEPT ![n][t] = EmptyStore]
        /\ pPc' = [pPc EXCEPT ![n] = "ack"]
        /\ fatal' = [fatal EXCEPT ![n] =
                IF HasOwnRange(n, t) THEN @ ELSE "my_update_range"]
    BY <1>1, <1>17 DEF FlushTable
  <2> HIDE DEF y
  <2>2. /\ p2r'[n] = Append(p2r[n], y) /\ \A a \in Nodes \ {n} : p2r'[a] = p2r[a]
        /\ pPc'[n] = "ack" /\ \A a \in Nodes \ {n} : pPc'[a] = pPc[a]
        /\ myUpdateStore'[n][t] = EmptyStore
        /\ fatal'[n] = IF HasOwnRange(n, t) THEN fatal[n] ELSE "my_update_range"
        /\ \A a \in Nodes \ {n} : fatal'[a] = fatal[a]
        /\ \A a \in Nodes, s \in Tables : (a # n \/ s # t) =>
            myUpdateStore'[a][s] = myUpdateStore[a][s]
    BY <1>2, <2>1 DEF ControlTypes, PipeTypes, DataTypes
  <2> USE DEF y
  <2> QED
    BY <1>5, <1>6, <1>7, <1>8, <1>9, <1>10, <1>12, <1>14, <1>15, <1>16, <1>17, <2>2
      DEF FlushDoes
<1>18. CASE ~(t \in Loop[n] /\ myUpdateStore[n][t].keys # {})
  <2>1. pPc' = [pPc EXCEPT ![n] = "send"] /\ UNCHANGED <<p2r, myUpdateStore, fatal>>
    BY <1>1, <1>18 DEF FlushTable
  <2>2. pPc'[n] = "send" /\ \A a \in Nodes \ {n} : pPc'[a] = pPc[a]
    BY <1>2, <2>1 DEF ControlTypes
  <2> QED
    BY <1>5, <1>6, <1>7, <1>8, <1>9, <1>10, <1>12, <1>14, <1>15, <1>16, <1>18, <2>1, <2>2
      DEF FlushDoes
<1> QED
  BY <1>17, <1>18

(* The buffer x leaves, or has nowhere to go.                              *)
SendDoes(n, x) ==
    /\ fatal[n] = "none" /\ pPc[n] \in {"ack", "send"} /\ pPc'[n] \notin {"ack", "send"}
    /\ pPc[n] = "ack" => r2p[n] # <<>> /\ r2p'[n] = Tail(r2p[n])
    /\ pPc[n] = "send" => r2p'[n] = r2p[n]
    /\ pPc'[n] = "flush" => flushTodo[n] # {}
    /\ UNCHANGED <<fwdPipe, recvBuff, peerUpdateRange, p2r, updateStore, myUpdateStore,
                   myUpdates, hasMyUpdates, pState, timer, rPc, rState>>
    /\ \A a \in Nodes \ {n} :
        /\ tcp'[a] = tcp[a] /\ outBuff'[a] = outBuff[a] /\ pPc'[a] = pPc[a]
        /\ r2p'[a] = r2p[a] /\ fatal'[a] = fatal[a]
        /\ myUpdateRange'[a] = myUpdateRange[a]
    /\ outBuff[n] = <<x>> /\ Buffs(outBuff[n]) = {x} /\ outBuff'[n] = <<>>
    /\ x.table \in Tables /\ IsBuff(x)
    /\ myUpdateRange'[n][x.table] =
            Span(myUpdateRange[n][x.table].end + 1, myUpdateRange[n][x.table].end)
    /\ \A s \in Tables \ {x.table} : myUpdateRange'[n][s] = myUpdateRange[n][s]
    /\ IF HasDownstream(n)
       THEN Pushes(tcp[n], tcp'[n], x) /\ fatal'[n] = fatal[n]
       ELSE tcp'[n] = tcp[n] /\ fatal'[n] = "prop_push_sock"

(* The timer branch from EMyUpdatesACK on: the buffer is sent.             *)
LEMMA SendEffect ==
    ASSUME FlowInv, NEW n \in Nodes, SendStep(n)
    PROVE  \E x : SendDoes(n, x)
<1> DEFINE x == outBuff[n][1]
           t == x.table
<1>1. TypeInv /\ BuffersInv(n) /\ SendBuffer(n) /\ UNCHANGED recvVars
  BY DEF FlowInv, ShutdownInv, SendStep
<1>2. ControlTypes /\ PipeTypes /\ DataTypes
  BY <1>1, AllTypes
<1>3. /\ fatal[n] = "none" /\ pPc[n] \in {"ack", "send"}
      /\ pPc[n] = "ack" => r2p[n] # <<>> /\ r2p' = [r2p EXCEPT ![n] = Tail(@)]
      /\ pPc[n] = "send" => r2p' = r2p
  BY <1>1 DEF SendBuffer, Alive
<1>4. Len(outBuff[n]) = 1
  BY <1>1, <1>3 DEF BuffersInv
<1>5. /\ outBuff[n] = <<x>> /\ Head(outBuff[n]) = x /\ x \in UpdateBufferMsg
      /\ IsBuff(x) => Buffs(outBuff[n]) = {x}
  BY <1>2, <1>4, OneInPipe DEF DataTypes
<1>6. t \in Tables /\ IsBuff(x)
  BY <1>5 DEF UpdateBufferMsg, IsBuff
<1>7. /\ myUpdateRange' = [myUpdateRange EXCEPT ![n][t] = Advance(@)]
      /\ pPc' = [pPc EXCEPT ![n] =
            IF flushTodo[n] \ {t} = {} THEN AfterFlush(n) ELSE "flush"]
      /\ outBuff' = [outBuff EXCEPT ![n] = <<>>]
  BY <1>1, <1>5 DEF SendBuffer
<1>8. /\ HasDownstream(n) => tcp' = [tcp EXCEPT ![n] = Enqueue(@, outBuff[n])] /\ fatal' = fatal
      /\ ~HasDownstream(n) => fatal' = [fatal EXCEPT ![n] = "prop_push_sock"] /\ tcp' = tcp
      /\ UNCHANGED <<fwdPipe, recvBuff, peerUpdateRange, p2r, updateStore, myUpdateStore,
                     myUpdates, hasMyUpdates, pState, timer, rPc, rState>>
  BY <1>1 DEF SendBuffer, recvVars
<1> HIDE DEF x
<1>9. HasDownstream(n) => tcp'[n] = Append(tcp[n], x)
  <2>1. tcp[n] \in Seq(TcpMsg) /\ x \in TcpMsg
    BY <1>2, <1>5 DEF PipeTypes, TcpMsg
  <2>2. tcp[n] \o <<x>> = Append(tcp[n], x)
    BY <2>1
  <2> QED
    BY <1>2, <1>5, <1>8, <2>2 DEF PipeTypes, Enqueue
<1>10. HasDownstream(n) => Pushes(tcp[n], tcp'[n], x) /\ fatal'[n] = fatal[n]
  <2>1. tcp[n] \in Seq(TcpMsg)
    BY <1>2 DEF PipeTypes
  <2>2. Pushes(tcp[n], Append(tcp[n], x), x)
    BY <1>6, <2>1, AppendToPipe
  <2> QED
    BY <1>8, <1>9, <2>2
<1>11. ~HasDownstream(n) => tcp'[n] = tcp[n] /\ fatal'[n] = "prop_push_sock"
  BY <1>2, <1>8 DEF DataTypes
<1>12. \A a \in Nodes \ {n} :
        /\ tcp'[a] = tcp[a] /\ outBuff'[a] = outBuff[a] /\ pPc'[a] = pPc[a]
        /\ r2p'[a] = r2p[a] /\ fatal'[a] = fatal[a]
        /\ myUpdateRange'[a] = myUpdateRange[a]
  BY <1>2, <1>3, <1>7, <1>8 DEF ControlTypes, PipeTypes, DataTypes
<1>13. /\ pPc'[n] = IF flushTodo[n] \ {t} = {} THEN AfterFlush(n) ELSE "flush"
       /\ outBuff'[n] = <<>>
       /\ pPc[n] = "ack" => r2p'[n] = Tail(r2p[n])
       /\ pPc[n] = "send" => r2p'[n] = r2p[n]
  BY <1>2, <1>3, <1>7 DEF ControlTypes, PipeTypes, DataTypes
<1>14. /\ pPc'[n] \notin {"ack", "send"}
       /\ pPc'[n] = "flush" => flushTodo[n] # {}
  BY <1>13 DEF AfterFlush
<1>15. /\ myUpdateRange'[n][t] = Advance(myUpdateRange[n][t])
       /\ \A s \in Tables \ {t} : myUpdateRange'[n][s] = myUpdateRange[n][s]
  BY <1>2, <1>6, <1>7 DEF DataTypes
<1> QED
  BY <1>3, <1>5, <1>6, <1>8, <1>10, <1>11, <1>12, <1>13, <1>14, <1>15 DEF SendDoes, Advance

(* The nodes that the iteration over a buffer yields.                      *)
Shown(x) == {x.buff.ranges[i].id : i \in Visited(x.buff)}

(* A forwarded buffer x is merged, or dropped once terminating.            *)
MergeDoes(n, x) ==
    /\ fatal[n] = "none" /\ pPc[n] = "poll"
    /\ Pops(fwdPipe[n], fwdPipe'[n], x)
    /\ UNCHANGED <<tcp, outBuff, recvBuff, myUpdateRange, p2r, r2p, myUpdateStore,
                   myUpdates, hasMyUpdates, pPc, pState, timer, rPc, rState>>
    /\ \A a \in Nodes \ {n} : fwdPipe'[a] = fwdPipe[a] /\ fatal'[a] = fatal[a]
    /\ \A a \in Nodes, t \in Tables :
        (a # n \/ t # x.table \/ pState[n] # "RUN") =>
            /\ peerUpdateRange'[a][t] = peerUpdateRange[a][t]
            /\ updateStore'[a][t] = updateStore[a][t]
    /\ pState[n] # "RUN" => fatal'[n] = fatal[n]
    /\ pState[n] = "RUN" =>
        /\ updateStore'[n][x.table].keys = updateStore[n][x.table].keys \cup x.buff.updates.keys
        /\ fatal'[n] = IF Contiguous(peerUpdateRange[n][x.table], x.buff)
                       THEN fatal[n] ELSE "contiguous"
        /\ \A p \in Nodes :
            /\ p \in Shown(x) =>
                /\ Has(x, p) /\ Known(n, x.table, p)'
                /\ Merged(n, x.table, p)' = To(x, p)
                /\ First(n, x.table, p)' = IF Known(n, x.table, p)
                                           THEN First(n, x.table, p) ELSE From(x, p)
            /\ p \notin Shown(x) =>
                /\ Known(n, x.table, p)' <=> Known(n, x.table, p)
                /\ peerUpdateRange'[n][x.table].range[p] = peerUpdateRange[n][x.table].range[p]

(* EPUpdateBuffer: its ranges are added to those of the peers.             *)
LEMMA MergeEffect ==
    ASSUME TypeInv, NEW n \in Nodes, MergeStep(n)
    PROVE  \E x : MergeDoes(n, x) /\ x = Head(fwdPipe[n])
<1>0. PICK x : x = Head(fwdPipe[n])
  OBVIOUS
<1> DEFINE t == x.table
<1>1. RecvPUpdateBuffer(n) /\ UNCHANGED recvVars
  BY DEF MergeStep
<1>2. ControlTypes /\ PipeTypes /\ DataTypes
  BY AllTypes
<1>3. /\ fatal[n] = "none" /\ pPc[n] = "poll" /\ fwdPipe[n] # <<>> /\ x.type = "EPUpdateBuffer"
      /\ fwdPipe' = [fwdPipe EXCEPT ![n] = Tail(@)]
      /\ UNCHANGED <<tcp, outBuff, recvBuff, myUpdateRange, p2r, r2p, myUpdateStore,
                     myUpdates, hasMyUpdates, pPc, pState, timer, rPc, rState>>
  BY <1>0, <1>1 DEF RecvPUpdateBuffer, UpdateBranch, Polling, Alive, IsNext, recvVars
<1>4. x \in FwdMsg /\ IsBuff(x)
  BY <1>0, <1>2, <1>3 DEF PipeTypes, IsBuff
<1>5. t \in Tables /\ x.buff \in Buffer
  BY <1>3, <1>4 DEF FwdMsg
<1>6. Pops(fwdPipe[n], Tail(fwdPipe[n]), x)
  BY <1>0, <1>2, <1>3, <1>4, TailOfPipe DEF PipeTypes
<1>7. /\ pState[n] = "RUN" =>
            /\ updateStore' = [updateStore EXCEPT ![n][t] = AddUpdates(@, x.buff.updates)]
            /\ peerUpdateRange' = [peerUpdateRange EXCEPT ![n][t] = MergeRanges(@, x.buff)]
            /\ fatal' = [fatal EXCEPT ![n] =
                    IF Contiguous(peerUpdateRange[n][t], x.buff) THEN @ ELSE "contiguous"]
      /\ pState[n] # "RUN" => UNCHANGED <<updateStore, peerUpdateRange, fatal>>
  BY <1>0, <1>1 DEF RecvPUpdateBuffer
<1>8. fwdPipe'[n] = Tail(fwdPipe[n]) /\ \A a \in Nodes \ {n} : fwdPipe'[a] = fwdPipe[a]
  BY <1>2, <1>3 DEF PipeTypes
<1>9. \A a \in Nodes, s \in Tables : (a # n \/ s # t \/ pState[n] # "RUN") =>
            /\ peerUpdateRange'[a][s] = peerUpdateRange[a][s]
            /\ updateStore'[a][s] = updateStore[a][s]
  BY <1>2, <1>5, <1>7 DEF DataTypes
<1>10. \A a \in Nodes \ {n} : fatal'[a] = fatal[a]
  BY <1>2, <1>7 DEF DataTypes
<1>11. CASE pState[n] # "RUN"
  BY <1>0, <1>3, <1>6, <1>7, <1>8, <1>9, <1>10, <1>11 DEF MergeDoes
<1>12. CASE pState[n] = "RUN"
  <2>1. fatal'[n] = IF Contiguous(peerUpdateRange[n][t], x.buff)
                    THEN fatal[n] ELSE "contiguous"
    BY <1>2, <1>7, <1>12 DEF DataTypes
  <2>2. updateStore'[n][t].keys = updateStore[n][t].keys \cup x.buff.updates.keys
    <3>1. updateStore'[n][t] = AddUpdates(updateStore[n][t], x.buff.updates)
      BY <1>2, <1>5, <1>7, <1>12 DEF DataTypes
    <3> QED
      BY <3>1 DEF AddUpdates
  <2> DEFINE old == peerUpdateRange[n][t]
             ids == Shown(x)
  <2>3. peerUpdateRange'[n][t] = MergeRanges(old, x.buff)
    BY <1>2, <1>5, <1>7, <1>12 DEF DataTypes
  <2>4. /\ peerUpdateRange'[n][t].known = old.known \cup ids
        /\ peerUpdateRange'[n][t].range = [p \in Nodes |->
            CASE p \notin ids -> old.range[p]
              [] p \in ids \ old.known -> GetNodeRange(x.buff, p)
              [] p \in ids \cap old.known ->
                    Span(old.range[p].st, GetNodeRange(x.buff, p).end)]
    <3> DEFINE R == [p \in Nodes |->
                CASE p \notin ids -> old.range[p]
                  [] p \in ids \ old.known -> GetNodeRange(x.buff, p)
                  [] p \in ids \cap old.known ->
                        Span(old.range[p].st, GetNodeRange(x.buff, p).end)]
    <3>1. peerUpdateRange'[n][t] = [known |-> old.known \cup ids, range |-> R]
      BY <2>3 DEF MergeRanges, Shown
    <3> HIDE DEF R
    <3>2. peerUpdateRange'[n][t].known = old.known \cup ids /\ peerUpdateRange'[n][t].range = R
      BY <3>1
    <3> QED
      BY <3>2 DEF R
  <2> HIDE DEF old, ids
  <2>5. ASSUME NEW p \in Nodes
        PROVE  /\ p \in ids => Has(x, p)
               /\ p \notin ids => peerUpdateRange'[n][t].range[p] = old.range[p]
               /\ (p \in ids /\ p \notin old.known) =>
                    peerUpdateRange'[n][t].range[p] = GetNodeRange(x.buff, p)
               /\ (p \in ids /\ p \in old.known) =>
                    peerUpdateRange'[n][t].range[p] =
                        Span(old.range[p].st, GetNodeRange(x.buff, p).end)
    <3>1. p \in ids => Has(x, p)
      BY DEF ids, Shown, Has, HasNodeRange, Visited
    <3>2. CASE p \notin ids
      BY <2>4, <3>1, <3>2
    <3>3. CASE p \in ids \ old.known
      BY <2>4, <3>1, <3>3
    <3>4. CASE p \in ids \cap old.known
      BY <2>4, <3>1, <3>4
    <3> QED
      BY <3>1, <3>2, <3>3, <3>4
  <2>6. \A i, j : Span(i, j).st = i /\ Span(i, j).end = j
    BY DEF Span
  <2>7. ASSUME NEW p \in Nodes, p \in ids
        PROVE  /\ Has(x, p) /\ Known(n, t, p)'
               /\ Merged(n, t, p)' = To(x, p)
               /\ First(n, t, p)' = IF Known(n, t, p) THEN First(n, t, p) ELSE From(x, p)
    <3>1. CASE p \in old.known
      <4>1. peerUpdateRange'[n][t].range[p] =
                Span(First(n, t, p), To(x, p))
        BY <2>5, <2>7, <3>1 DEF First, To, old
      <4>2. Merged(n, t, p)' = To(x, p) /\ First(n, t, p)' = First(n, t, p)
        BY <2>6, <4>1 DEF Merged, First
      <4> QED
        BY <2>4, <2>5, <2>7, <3>1, <4>2 DEF Known, old
    <3>2. CASE p \notin old.known
      BY <2>4, <2>5, <2>7, <3>2 DEF Known, Merged, First, To, From, old
    <3> QED
      BY <3>1, <3>2
  <2>8. ASSUME NEW p \in Nodes, p \notin ids
        PROVE  /\ Known(n, t, p)' <=> Known(n, t, p)
               /\ peerUpdateRange'[n][t].range[p] = peerUpdateRange[n][t].range[p]
    BY <2>4, <2>5, <2>8 DEF Known, old
  <2> QED
    BY <1>0, <1>3, <1>6, <1>8, <1>9, <1>10, <1>12, <2>1, <2>2, <2>7, <2>8 DEF MergeDoes, ids
<1> QED
  BY <1>0, <1>11, <1>12

(* The receiver answers EMyUpdates, and records it while it runs.          *)
RecordDoes(n, m) ==
    /\ rPc[n] = "poll" /\ p2r[n] # <<>> /\ m = Head(p2r[n]) /\ m \in P2RMsg
    /\ m.type = "EMyUpdates" /\ m.table \in Tables /\ m.buff \in Buffer
    /\ UNCHANGED <<tcp, outBuff, fwdPipe, recvBuff, peerUpdateRange, myUpdateRange, fatal,
                   updateStore, myUpdateStore, pPc, pState, timer, rPc, rState>>
    /\ p2r'[n] = Tail(p2r[n]) /\ r2p'[n] = Append(r2p[n], Msg("EMyUpdatesACK"))
    /\ \A a \in Nodes \ {n} : p2r'[a] = p2r[a] /\ r2p'[a] = r2p[a]
    /\ \A a \in Nodes, t \in Tables : (a # n \/ t # m.table \/ rState[n] # "RUN") =>
        /\ myUpdates'[a][t] = myUpdates[a][t]
        /\ t \in hasMyUpdates'[a] <=> t \in hasMyUpdates[a]
    /\ rState[n] = "RUN" =>
        /\ myUpdates'[n][m.table] = Append(myUpdates[n][m.table], m.buff)
        /\ m.table \in hasMyUpdates'[n]

(* EMyUpdates: the receiver appends the buffer to its record.              *)
LEMMA RecordEffect ==
    ASSUME TypeInv, NEW n \in Nodes, RecordStep(n)
    PROVE  \E m : RecordDoes(n, m)
<1>0. PICK m : m = Head(p2r[n])
  OBVIOUS
<1>1. RecvMyUpdates(n) /\ UNCHANGED <<timer, propVars>>
  BY DEF RecordStep
<1>2. ControlTypes /\ PipeTypes /\ DataTypes
  BY AllTypes
<1>3. /\ rPc[n] = "poll" /\ p2r[n] # <<>> /\ m.type = "EMyUpdates"
      /\ p2r' = [p2r EXCEPT ![n] = Tail(@)]
      /\ r2p' = [r2p EXCEPT ![n] = Append(@, Msg("EMyUpdatesACK"))]
      /\ UNCHANGED <<tcp, outBuff, fwdPipe, recvBuff, peerUpdateRange, myUpdateRange, fatal,
                     updateStore, myUpdateStore, pPc, pState, timer, rPc, rState>>
  BY <1>0, <1>1 DEF RecvMyUpdates, InternalBranch, IsNext, propVars, propStores
<1>4. m \in P2RMsg
  BY <1>0, <1>2, <1>3 DEF PipeTypes
<1>5. m.table \in Tables /\ m.buff \in Buffer
  BY <1>3, <1>4 DEF P2RMsg
<1>6. /\ rState[n] = "RUN" =>
            /\ myUpdates' = [myUpdates EXCEPT ![n][m.table] = Append(@, m.buff)]
            /\ hasMyUpdates' = [hasMyUpdates EXCEPT ![n] = @ \cup {m.table}]
      /\ rState[n] # "RUN" => UNCHANGED <<myUpdates, hasMyUpdates>>
  BY <1>0, <1>1 DEF RecvMyUpdates, Recording, Record
<1>7. /\ p2r'[n] = Tail(p2r[n]) /\ r2p'[n] = Append(r2p[n], Msg("EMyUpdatesACK"))
      /\ \A a \in Nodes \ {n} : p2r'[a] = p2r[a] /\ r2p'[a] = r2p[a]
  BY <1>2, <1>3 DEF PipeTypes
<1>8. \A a \in Nodes, t \in Tables : (a # n \/ t # m.table \/ rState[n] # "RUN") =>
        myUpdates'[a][t] = myUpdates[a][t]
  BY <1>2, <1>5, <1>6 DEF DataTypes
<1>9. \A a \in Nodes, t \in Tables : (a # n \/ t # m.table \/ rState[n] # "RUN") =>
        (t \in hasMyUpdates'[a] <=> t \in hasMyUpdates[a])
  BY <1>2, <1>5, <1>6 DEF DataTypes
<1>10. rState[n] = "RUN" =>
        /\ myUpdates'[n][m.table] = Append(myUpdates[n][m.table], m.buff)
        /\ m.table \in hasMyUpdates'[n]
  BY <1>2, <1>5, <1>6 DEF DataTypes
<1>11. \A a \in Nodes, t \in Tables : (a # n \/ t # m.table \/ rState[n] # "RUN") =>
        /\ myUpdates'[a][t] = myUpdates[a][t]
        /\ t \in hasMyUpdates'[a] <=> t \in hasMyUpdates[a]
  BY <1>8, <1>9
<1>12. RecordDoes(n, m)
  BY <1>0, <1>3, <1>4, <1>5, <1>7, <1>10, <1>11, Zenon DEF RecordDoes
<1> QED
  BY <1>12

(* y carries the ranges of x but for those of node n.                      *)
Copies(y, x, n) ==
    /\ IsBuff(y) /\ y.type = "EPUpdateBuffer" /\ y.table = x.table
    /\ Sound(y.buff) /\ ~Has(y, n)
    /\ y.buff.updates.keys = x.buff.updates.keys
    /\ \A p \in Nodes \ {n} :
        /\ Has(y, p) <=> Has(x, p)
        /\ Has(x, p) => GetNodeRange(y.buff, p) = GetNodeRange(x.buff, p)

(* The receiver of n has taken buffer x from node u and dropped it,        *)
(* delivered it, or found its own range in it.                             *)
TakeDoes(n, u, x) ==
    /\ fatal[n] = "none" /\ rPc[n] = "poll" /\ recvBuff[n] = <<>> /\ p2r[n] = <<>>
    /\ Downstream[u] = n
    /\ Pops(tcp[u], tcp'[u], x) /\ x \in UpdateBufferMsg
    /\ UNCHANGED <<outBuff, peerUpdateRange, myUpdateRange, p2r, r2p, updateStore,
                   myUpdateStore, myUpdates, hasMyUpdates, pPc, pState, timer, rState>>
    /\ \A a \in Nodes \ {u} : tcp'[a] = tcp[a]
    /\ \A a \in Nodes \ {n} :
        /\ fwdPipe'[a] = fwdPipe[a] /\ recvBuff'[a] = recvBuff[a]
        /\ rPc'[a] = rPc[a] /\ fatal'[a] = fatal[a]
    /\ \/ /\ rState[n] # "RUN" \/ ~HasForeignRange(n, x.buff)
          /\ fwdPipe'[n] = fwdPipe[n] /\ recvBuff'[n] = <<>>
          /\ rPc'[n] # "dedup" /\ fatal'[n] = fatal[n]
       \/ /\ rState[n] = "RUN" /\ ~Has(x, n)
          /\ recvBuff'[n] = <<>> /\ rPc'[n] # "dedup" /\ fatal'[n] = fatal[n]
          /\ IF x.table \in Forward[n]
             THEN \E y : /\ Copies(y, x, n) /\ y.buff = x.buff
                         /\ Pushes(fwdPipe[n], fwdPipe'[n], y)
             ELSE fwdPipe'[n] = fwdPipe[n]
       \/ /\ rState[n] = "RUN" /\ Has(x, n)
          /\ recvBuff'[n] = <<x>> /\ rPc'[n] = "dedup"
          /\ fwdPipe'[n] = fwdPipe[n]
          /\ fatal'[n] = IF x.table \in hasMyUpdates[n] THEN fatal[n] ELSE "my_updates"

(* EPRUpdateBuffer: the receiver applies and forwards a buffer, drops it,  *)
(* or begins to remove its own updates.                                    *)
LEMMA TakeEffect ==
    ASSUME FlowInv, NEW n \in Nodes, NEW u \in Nodes, TakeStep(n, u)
    PROVE  \E x : TakeDoes(n, u, x) /\ x = Head(tcp[u])
<1>0. PICK x : x = Head(tcp[u])
  OBVIOUS
<1>1. /\ TypeInv /\ BuffersInv(n) /\ BuffersInv(u)
      /\ RecvUpdateBuffer(n, u) /\ UNCHANGED <<timer, propVars>>
  BY DEF FlowInv, ShutdownInv, TakeStep
<1>2. ControlTypes /\ PipeTypes /\ DataTypes
  BY <1>1, AllTypes
<1>3. /\ fatal[n] = "none" /\ rPc[n] = "poll" /\ p2r[n] = <<>> /\ u \in Upstream(n)
      /\ tcp[u] # <<>> /\ x.type = "EPRUpdateBuffer"
      /\ tcp' = [tcp EXCEPT ![u] = Tail(@)]
      /\ UNCHANGED <<outBuff, peerUpdateRange, myUpdateRange, p2r, r2p, updateStore,
                     myUpdateStore, myUpdates, hasMyUpdates, pPc, pState, timer, rState>>
  BY <1>0, <1>1 DEF RecvUpdateBuffer, UpdateSockBranch, InternalBranch, InternalSockEmpty,
    Alive, IsNext, propVars, propStores
<1>4. x \in TcpMsg /\ IsBuff(x)
  BY <1>0, <1>2, <1>3 DEF PipeTypes, IsBuff
<1>5. x \in UpdateBufferMsg /\ x.table \in Tables /\ x.buff \in Buffer
  BY <1>3, <1>4 DEF TcpMsg, UpdateBufferMsg
<1>6. Downstream[u] = n
  BY <1>3 DEF Upstream
<1>7. Pops(tcp[u], tcp'[u], x) /\ \A a \in Nodes \ {u} : tcp'[a] = tcp[a]
  <2>1. Pops(tcp[u], Tail(tcp[u]), x)
    BY <1>0, <1>2, <1>3, <1>4, TailOfPipe DEF PipeTypes
  <2> QED
    BY <1>2, <1>3, <2>1 DEF PipeTypes
<1>8. recvBuff[n] = <<>>
  BY <1>1, <1>3 DEF BuffersInv
<1>9. Solid(x.buff)
  BY <1>1, <1>7 DEF BuffersInv, Pops
<1>10. CASE /\ rState[n] # "RUN" \/ ~HasForeignRange(n, x.buff)
            /\ UNCHANGED <<fwdPipe, fatal, rPc, recvBuff>>
  BY <1>0, <1>3, <1>5, <1>6, <1>7, <1>8, <1>10 DEF TakeDoes
<1>11. CASE /\ rState[n] = "RUN" /\ ~HasNodeRange(x.buff, n)
            /\ Deliver(n, x.table, x.buff)
            /\ UNCHANGED <<fatal, recvBuff>>
  <2> DEFINE y == BuffMsg("EPUpdateBuffer", x.table, x.buff)
  <2>1. y.type = "EPUpdateBuffer" /\ y.table = x.table /\ y.buff = x.buff
    BY DEF BuffMsg
  <2>2. /\ x.table \in Forward[n] => fwdPipe' = [fwdPipe EXCEPT ![n] = Append(@, y)]
        /\ x.table \notin Forward[n] => fwdPipe' = fwdPipe
    BY <1>11 DEF Deliver
  <2> HIDE DEF y
  <2>3. Copies(y, x, n)
    BY <1>9, <1>11, <2>1 DEF Copies, Has, IsBuff, Solid
  <2>4. Pushes(fwdPipe[n], Append(fwdPipe[n], y), y)
    <3>1. fwdPipe[n] \in Seq(FwdMsg) /\ IsBuff(y)
      BY <1>2, <2>1 DEF PipeTypes, IsBuff
    <3> QED
      BY <3>1, AppendToPipe
  <2>5. /\ x.table \in Forward[n] => fwdPipe'[n] = Append(fwdPipe[n], y)
        /\ \A a \in Nodes \ {n} : fwdPipe'[a] = fwdPipe[a]
    BY <1>2, <2>2 DEF PipeTypes
  <2>6. IF x.table \in Forward[n]
        THEN \E z : /\ Copies(z, x, n) /\ z.buff = x.buff
                    /\ Pushes(fwdPipe[n], fwdPipe'[n], z)
        ELSE fwdPipe'[n] = fwdPipe[n]
    BY <2>1, <2>2, <2>3, <2>4, <2>5
  <2>7. rPc'[n] # "dedup" /\ \A a \in Nodes \ {n} : rPc'[a] = rPc[a]
    BY <1>2, <1>11, DeliverGoes DEF ControlTypes
  <2> QED
    BY <1>0, <1>3, <1>5, <1>6, <1>7, <1>8, <1>11, <2>5, <2>6, <2>7 DEF TakeDoes, Has
<1>12. CASE /\ rState[n] = "RUN" /\ HasNodeRange(x.buff, n)
            /\ fatal' = [fatal EXCEPT ![n] =
                    IF x.table \in hasMyUpdates[n] THEN @ ELSE "my_updates"]
            /\ rPc' = [rPc EXCEPT ![n] = "dedup"]
            /\ recvBuff' = [recvBuff EXCEPT ![n] = <<x>>]
            /\ UNCHANGED fwdPipe
  <2>1. /\ fatal'[n] = IF x.table \in hasMyUpdates[n] THEN fatal[n] ELSE "my_updates"
        /\ rPc'[n] = "dedup" /\ recvBuff'[n] = <<x>>
        /\ \A a \in Nodes \ {n} :
            recvBuff'[a] = recvBuff[a] /\ rPc'[a] = rPc[a] /\ fatal'[a] = fatal[a]
    BY <1>2, <1>12 DEF ControlTypes, DataTypes
  <2> QED
    BY <1>0, <1>3, <1>5, <1>6, <1>7, <1>8, <1>12, <2>1 DEF TakeDoes, Has
<1> QED
  BY <1>0, <1>1, <1>10, <1>11, <1>12 DEF RecvUpdateBuffer

(* The receiver of n removes one recorded buffer from x.                   *)
DedupDoes(n, x) ==
    /\ rPc[n] = "dedup" /\ fatal[n] = "none" /\ recvBuff[n] = <<x>> /\ x \in UpdateBufferMsg
    /\ Buffs(recvBuff[n]) = {x}
    /\ UNCHANGED <<tcp, outBuff, peerUpdateRange, myUpdateRange, p2r, r2p, updateStore,
                   myUpdateStore, hasMyUpdates, pPc, pState, timer, rState>>
    /\ \A a \in Nodes \ {n} :
        /\ fwdPipe'[a] = fwdPipe[a] /\ recvBuff'[a] = recvBuff[a]
        /\ rPc'[a] = rPc[a] /\ fatal'[a] = fatal[a]
    /\ \A a \in Nodes, t \in Tables : (a # n \/ t # x.table) =>
        myUpdates'[a][t] = myUpdates[a][t]
    /\ \/ /\ fatal'[n] = DedupFault(n, myUpdates[n][x.table], x.buff)
          /\ fatal'[n] # "none"
          /\ fwdPipe'[n] = fwdPipe[n] /\ recvBuff'[n] = recvBuff[n] /\ rPc'[n] = rPc[n]
          /\ myUpdates'[n][x.table] = myUpdates[n][x.table]
       \/ /\ DedupFault(n, myUpdates[n][x.table], x.buff) = "none"
          /\ fatal'[n] = fatal[n]
          /\ myUpdates'[n][x.table] = Tail(myUpdates[n][x.table])
          /\ \/ /\ GetNodeRange(Head(myUpdates[n][x.table]), n).end < To(x, n)
                /\ fwdPipe'[n] = fwdPipe[n] /\ rPc'[n] = "dedup"
                /\ \E z \in UpdateBufferMsg :
                    /\ recvBuff'[n] = <<z>> /\ z.table = x.table
                    /\ z.buff.ranges = x.buff.ranges
                    /\ z.buff.updates.keys = x.buff.updates.keys
             \/ /\ ~(GetNodeRange(Head(myUpdates[n][x.table]), n).end < To(x, n))
                /\ recvBuff'[n] = <<>> /\ rPc'[n] # "dedup"
                /\ IF x.table \in Forward[n]
                   THEN \E y : Copies(y, x, n) /\ Pushes(fwdPipe[n], fwdPipe'[n], y)
                   ELSE fwdPipe'[n] = fwdPipe[n]

(* One round of the removal of own updates, and what is forwarded after    *)
(* the last.                                                               *)
LEMMA DedupEffect ==
    ASSUME FlowInv, NEW n \in Nodes, DedupStep(n)
    PROVE  \E x : DedupDoes(n, x)
<1>0. PICK x : x = recvBuff[n][1]
  OBVIOUS
<1>1. TypeInv /\ BuffersInv(n) /\ Dedup(n) /\ UNCHANGED <<timer, propVars>>
  BY DEF FlowInv, ShutdownInv, DedupStep
<1>2. ControlTypes /\ PipeTypes /\ DataTypes
  BY <1>1, AllTypes
<1>3. rPc[n] = "dedup" /\ fatal[n] = "none"
  BY <1>1 DEF Dedup, Alive
<1>4. Len(recvBuff[n]) = 1 /\ recvBuff[n] \in Seq(UpdateBufferMsg)
  BY <1>1, <1>2, <1>3 DEF BuffersInv, DataTypes
<1>5. /\ recvBuff[n] = <<x>> /\ Head(recvBuff[n]) = x /\ x \in UpdateBufferMsg
      /\ IsBuff(x) => Buffs(recvBuff[n]) = {x}
  BY <1>0, <1>4, OneInPipe
<1>6. x.table \in Tables /\ x.buff \in Buffer /\ IsBuff(x)
  BY <1>5 DEF UpdateBufferMsg, IsBuff
<1>7. x \in Buffs(recvBuff[n]) /\ Solid(x.buff)
  <2>1. x \in Buffs(recvBuff[n])
    BY <1>5, <1>6
  <2> QED
    BY <1>1, <2>1 DEF BuffersInv
<1> DEFINE t     == x.table
           queue == myUpdates[n][t]
           fault == DedupFault(n, queue, x.buff)
           mine  == GetNodeRange(Head(queue), n)
           rest  == [x.buff EXCEPT !.updates = SubUpdates(@, Head(queue).updates)]
<1>8. UNCHANGED <<tcp, outBuff, peerUpdateRange, myUpdateRange, p2r, r2p, updateStore,
                  myUpdateStore, hasMyUpdates, pPc, pState, timer, rState>>
  BY <1>1 DEF Dedup, propVars, propStores
<1>9. \/ /\ fault # "none" /\ fatal' = [fatal EXCEPT ![n] = fault]
         /\ UNCHANGED <<fwdPipe, rPc, myUpdates, recvBuff>>
      \/ /\ fault = "none"
         /\ myUpdates' = [myUpdates EXCEPT ![n][t] = Tail(@)]
         /\ IF NextSeqNum(mine) < GetNodeRange(x.buff, n).end
            THEN /\ recvBuff' = [recvBuff EXCEPT ![n] = <<[x EXCEPT !.buff = rest]>>]
                 /\ UNCHANGED <<fwdPipe, rPc>>
            ELSE /\ recvBuff' = [recvBuff EXCEPT ![n] = <<>>]
                 /\ Deliver(n, t, DeleteNodeRange(rest, n))
         /\ UNCHANGED fatal
  BY <1>1, <1>5 DEF Dedup
<1>10. CASE fault # "none"
  <2>1. fatal' = [fatal EXCEPT ![n] = fault] /\ UNCHANGED <<fwdPipe, rPc, myUpdates, recvBuff>>
    BY <1>9, <1>10
  <2>2. fatal'[n] = fault /\ \A a \in Nodes \ {n} : fatal'[a] = fatal[a]
    BY <1>2, <2>1 DEF DataTypes
  <2> QED
    BY <1>3, <1>5, <1>6, <1>8, <1>10, <2>1, <2>2 DEF DedupDoes
<1>11. CASE fault = "none"
  <2>1. /\ myUpdates' = [myUpdates EXCEPT ![n][t] = Tail(@)] /\ UNCHANGED fatal
        /\ mine.end < To(x, n) =>
            /\ recvBuff' = [recvBuff EXCEPT ![n] = <<[x EXCEPT !.buff = rest]>>]
            /\ UNCHANGED <<fwdPipe, rPc>>
        /\ ~(mine.end < To(x, n)) =>
            /\ recvBuff' = [recvBuff EXCEPT ![n] = <<>>]
            /\ Deliver(n, t, DeleteNodeRange(rest, n))
    BY <1>9, <1>11 DEF NextSeqNum, To
  <2>2. /\ myUpdates'[n][t] = Tail(queue)
        /\ \A a \in Nodes, s \in Tables : (a # n \/ s # t) =>
            myUpdates'[a][s] = myUpdates[a][s]
    BY <1>2, <1>6, <2>1 DEF DataTypes
  <2>3. queue \in Seq(Buffer) /\ queue # <<>>
    <3>1. queue # <<>>
      BY <1>11 DEF DedupFault
    <3> QED
      BY <1>2, <1>6, <3>1 DEF DataTypes
  <2>4. Head(queue) \in Buffer
    BY <2>3
  <2>5. Head(queue).updates \in Store
    BY <2>4, BufferSlots
  <2>6. rest \in Buffer /\ rest.ranges = x.buff.ranges /\ rest.updates.keys = x.buff.updates.keys
    BY <1>6, <2>5, SubtractedBuffer
  <2> HIDE DEF rest, queue, fault, mine
  <2>7. CASE mine.end < To(x, n)
    <3> DEFINE z == [x EXCEPT !.buff = rest]
    <3>1. z \in UpdateBufferMsg /\ z.table = t /\ z.buff = rest
      BY <1>5, <2>6 DEF UpdateBufferMsg
    <3> HIDE DEF z
    <3>2. recvBuff'[n] = <<z>> /\ \A a \in Nodes \ {n} : recvBuff'[a] = recvBuff[a]
      BY <1>2, <2>1, <2>7 DEF DataTypes, z
    <3>3. UNCHANGED <<fwdPipe, rPc, fatal>>
      BY <2>1, <2>7
    <3>4. \E zz \in UpdateBufferMsg :
            /\ recvBuff'[n] = <<zz>> /\ zz.table = x.table
            /\ zz.buff.ranges = x.buff.ranges
            /\ zz.buff.updates.keys = x.buff.updates.keys
      BY <2>6, <3>1, <3>2
    <3> QED
      BY <1>3, <1>5, <1>6, <1>8, <1>11, <2>2, <2>7, <3>2, <3>3, <3>4
        DEF DedupDoes, queue, fault, mine
  <2>8. CASE ~(mine.end < To(x, n))
    <3> DEFINE d == DeleteNodeRange(rest, n)
               y == BuffMsg("EPUpdateBuffer", t, d)
    <3>1. Solid(rest) /\ Solid(x.buff)
      BY <1>7, <2>6, SameSlots
    <3>2. /\ Sound(d) /\ ~HasNodeRange(d, n) /\ d.updates = rest.updates
          /\ \A p \in Nodes \ {n} :
                /\ HasNodeRange(d, p) <=> HasNodeRange(rest, p)
                /\ HasNodeRange(rest, p) => GetNodeRange(d, p) = GetNodeRange(rest, p)
      BY <2>6, <3>1, DeletedRange
    <3> HIDE DEF d
    <3>3. \A p : /\ HasNodeRange(rest, p) = HasNodeRange(x.buff, p)
                 /\ GetNodeRange(rest, p) = GetNodeRange(x.buff, p)
      BY <2>6, SameSlots
    <3>4. y.type = "EPUpdateBuffer" /\ y.table = t /\ y.buff = d
      BY DEF BuffMsg
    <3>5. /\ t \in Forward[n] => fwdPipe' = [fwdPipe EXCEPT ![n] = Append(@, y)]
          /\ t \notin Forward[n] => fwdPipe' = fwdPipe
      BY <2>1, <2>8 DEF Deliver, d
    <3> HIDE DEF y
    <3>6. Copies(y, x, n)
      BY <2>6, <3>2, <3>3, <3>4 DEF Copies, Has, IsBuff
    <3>7. Pushes(fwdPipe[n], Append(fwdPipe[n], y), y)
      <4>1. fwdPipe[n] \in Seq(FwdMsg) /\ IsBuff(y)
        BY <1>2, <3>4 DEF PipeTypes, IsBuff
      <4> QED
        BY <4>1, AppendToPipe
    <3>8. /\ t \in Forward[n] => fwdPipe'[n] = Append(fwdPipe[n], y)
          /\ \A a \in Nodes \ {n} : fwdPipe'[a] = fwdPipe[a]
      BY <1>2, <3>5 DEF PipeTypes
    <3>9. IF x.table \in Forward[n]
          THEN \E yy : Copies(yy, x, n) /\ Pushes(fwdPipe[n], fwdPipe'[n], yy)
          ELSE fwdPipe'[n] = fwdPipe[n]
      BY <3>5, <3>6, <3>7, <3>8
    <3>10. /\ recvBuff'[n] = <<>> /\ rPc'[n] # "dedup"
           /\ \A a \in Nodes \ {n} : recvBuff'[a] = recvBuff[a] /\ rPc'[a] = rPc[a]
      <4>1. Deliver(n, t, d) /\ recvBuff' = [recvBuff EXCEPT ![n] = <<>>]
        BY <2>1, <2>8 DEF d
      <4>2. PICK loc \in {"poll", "apply"} : rPc' = [rPc EXCEPT ![n] = loc]
        BY <4>1, DeliverGoes
      <4> QED
        BY <1>2, <4>1, <4>2 DEF ControlTypes, DataTypes
    <3> QED
      BY <1>3, <1>5, <1>6, <1>8, <1>11, <2>1, <2>2, <2>8, <3>8, <3>9, <3>10
        DEF DedupDoes, queue, fault, mine
  <2> QED
    BY <2>7, <2>8
<1> QED
  BY <1>10, <1>11

-----------------------------------------------------------------------------
(* The invariant holds at the start, and every step keeps it.              *)

(* The parts of the invariant, and the types they need.                    *)
LEMMA FlowParts ==
    ASSUME FlowInv, NEW a \in Nodes
    PROVE  /\ TypeInv /\ Phases(a) /\ ControlTypes /\ PipeTypes /\ DataTypes
           /\ BuffersInv(a) /\ PlacesInv(a)
           /\ \A t \in Tables :
                /\ myUpdateRange[a][t] \in UpdateRange
                /\ myUpdateRange[a][t].st \in Int /\ myUpdateRange[a][t].end \in Int
                /\ \A p \in Nodes : First(a, t, p) \in Nat /\ Merged(a, t, p) \in Int
           /\ \A x \in Buffs(tcp[a]) \cup Buffs(outBuff[a]) \cup Buffs(recvBuff[a])
                        \cup Buffs(fwdPipe[a]) :
                /\ x.table \in Tables /\ x.buff \in Buffer /\ Sound(x.buff) /\ IsBuff(x)
                /\ \A p \in Nodes : Has(x, p) =>
                    From(x, p) \in Nat /\ To(x, p) \in Nat /\ From(x, p) <= To(x, p)
<1>1. TypeInv /\ Phases(a) /\ BuffersInv(a) /\ PlacesInv(a)
  BY DEF FlowInv, ShutdownInv
<1>2. ControlTypes /\ PipeTypes /\ DataTypes
  BY <1>1, AllTypes
<1>3. ASSUME NEW t \in Tables
      PROVE  /\ myUpdateRange[a][t] \in UpdateRange
             /\ myUpdateRange[a][t].st \in Int /\ myUpdateRange[a][t].end \in Int
             /\ \A p \in Nodes : First(a, t, p) \in Nat /\ Merged(a, t, p) \in Int
  <2>1. myUpdateRange[a][t] \in UpdateRange /\ peerUpdateRange[a][t] \in PeerRanges
    BY <1>2 DEF DataTypes
  <2>2. \A p \in Nodes : peerUpdateRange[a][t].range[p] \in UpdateRange
    BY <2>1 DEF PeerRanges
  <2>3. \A p \in Nodes : First(a, t, p) \in Nat
    BY <1>1 DEF BuffersInv, First
  <2>4. \A r \in UpdateRange : r.st \in Int /\ r.end \in Int
    BY DEF UpdateRange
  <2> QED
    BY <2>1, <2>2, <2>3, <2>4 DEF Merged
<1>4. \A x \in Buffs(tcp[a]) \cup Buffs(outBuff[a]) \cup Buffs(recvBuff[a])
                \cup Buffs(fwdPipe[a]) :
        x.table \in Tables /\ x.buff \in Buffer /\ Sound(x.buff) /\ IsBuff(x)
  BY <1>1, BuffTypes DEF BuffersInv, Solid
<1>5. ASSUME NEW b \in Buffer, Sound(b), NEW p \in Nodes, HasNodeRange(b, p)
      PROVE  /\ GetNodeRange(b, p).st \in Nat /\ GetNodeRange(b, p).end \in Nat
             /\ GetNodeRange(b, p).st <= GetNodeRange(b, p).end
  BY <1>5, RangeOfNode
<1> QED
  BY <1>1, <1>2, <1>3, <1>4, <1>5 DEF Has, From, To

(* Initially nothing is on its way.                                        *)
LEMMA FlowInit == Init => FlowInv
<1> SUFFICES ASSUME Init PROVE FlowInv
  OBVIOUS
<1>1. ShutdownInv
  BY ShutdownInit
<1>2. ASSUME NEW a \in Nodes
      PROVE  /\ tcp[a] = <<>> /\ outBuff[a] = <<>> /\ recvBuff[a] = <<>> /\ fwdPipe[a] = <<>>
             /\ pPc[a] = "poll" /\ rPc[a] = "poll"
             /\ \A t \in Tables :
                /\ myUpdateRange[a][t] = Span(0, -1)
                /\ peerUpdateRange[a][t].known = {}
                /\ \A p \in Nodes : peerUpdateRange[a][t].range[p] = Span(0, -1)
  BY DEF Init, WiresInit, PropagatorInit, ReceiverInit
<1>3. Span(0, -1).st = 0 /\ Span(0, -1).end = -1
  BY DEF Span
<1>4. ASSUME NEW a \in Nodes PROVE BuffersInv(a)
  BY <1>2, <1>3, ShortPipe DEF BuffersInv
<1>5. ASSUME NEW p \in Nodes PROVE PlacesInv(p)
  BY <1>2, <1>3, ShortPipe DEF PlacesInv
<1> QED
  BY <1>1, <1>4, <1>5 DEF FlowInv

(* A step that leaves the data path alone keeps the invariant.             *)
LEMMA FlowIdle ==
    ASSUME FlowInv, Idle, NEW p \in Nodes
    PROVE  BuffersInv(p)' /\ PlacesInv(p)'
<1>1. ASSUME NEW a \in Nodes
      PROVE  /\ Buffs(tcp'[a]) = Buffs(tcp[a]) /\ Buffs(fwdPipe'[a]) = Buffs(fwdPipe[a])
             /\ (pPc[a] \in {"ack", "send"} \/ pPc'[a] \in {"ack", "send"}) => pPc'[a] = pPc[a]
             /\ rPc'[a] = "dedup" <=> rPc[a] = "dedup"
             /\ BuffersInv(a)
  BY DEF Idle, IdleAt, Keeps, FlowInv
<1>2. UNCHANGED <<outBuff, recvBuff, peerUpdateRange, myUpdateRange>>
  BY DEF Idle
<1>3. BuffersInv(p)'
  BY <1>1, <1>2 DEF BuffersInv
<1>4. PlacesInv(p)'
  BY <1>1, <1>2 DEF PlacesInv, FlowInv
<1> QED
  BY <1>3, <1>4

(* A new number is not on its way yet.                                     *)
LEMMA FlowLog ==
    ASSUME FlowInv, NEW n \in Nodes, NEW t \in Tables, LogDoes(n, t), NEW p \in Nodes
    PROVE  BuffersInv(p)' /\ PlacesInv(p)'
<1>1. UNCHANGED <<tcp, outBuff, fwdPipe, recvBuff, peerUpdateRange, pPc, rPc>>
  BY DEF LogDoes
<1>2. ASSUME NEW s \in Tables, NEW a \in Nodes
      PROVE  /\ myUpdateRange'[a][s].st = myUpdateRange[a][s].st
             /\ myUpdateRange[a][s].end <= myUpdateRange'[a][s].end
             /\ myUpdateRange[a][s].st \in Int /\ myUpdateRange[a][s].end \in Int
             /\ myUpdateRange'[a][s].end \in Int
  BY FlowParts DEF LogDoes
<1>3. BuffersInv(p) /\ PlacesInv(p)
  BY DEF FlowInv
<1>4. BuffersInv(p)'
  <2>1. ASSUME NEW s \in Tables
        PROVE  /\ myUpdateRange'[p][s].st \in Nat
               /\ myUpdateRange'[p][s].st <= myUpdateRange'[p][s].end + 1
    <3>1. /\ myUpdateRange[p][s].st \in Nat
          /\ myUpdateRange[p][s].st <= myUpdateRange[p][s].end + 1
      BY <1>3 DEF BuffersInv
    <3> QED
      BY <1>2, <3>1
  <2> QED
    BY <1>1, <1>3, <2>1 DEF BuffersInv
<1>5. outBuff[n] = <<>>
  BY FlowParts DEF LogDoes, BuffersInv
<1>6. ASSUME NEW x \in Buffs(outBuff[p]), Has(x, p)
      PROVE  GetNodeRange(x.buff, p) = myUpdateRange'[p][x.table]
  <2>1. p # n
    BY <1>5, <1>6, ShortPipe
  <2>2. x.table \in Tables
    BY FlowParts
  <2> QED
    BY <1>3, <1>6, <2>1, <2>2 DEF PlacesInv, LogDoes
<1>7. \A a \in Nodes : \A x \in Buffs(tcp[a]) \cup Buffs(outBuff[a]) \cup Buffs(recvBuff[a])
                        \cup Buffs(fwdPipe[a]) : x.table \in Tables
  BY FlowParts
<1>8. PlacesInv(p)'
  BY <1>1, <1>2, <1>3, <1>6, <1>7 DEF PlacesInv
<1> QED
  BY <1>4, <1>8

(* The buffer made by the timer branch holds the ranges of the propagator. *)
LEMMA FlowFlush ==
    ASSUME FlowInv, NEW n \in Nodes, NEW t \in Tables, NEW x, FlushDoes(n, t, x),
           NEW p \in Nodes
    PROVE  BuffersInv(p)' /\ PlacesInv(p)'
<1>1. UNCHANGED <<tcp, fwdPipe, recvBuff, myUpdateRange, rPc>>
  BY DEF FlushDoes
<1>2. /\ Buffs(outBuff'[n]) = {x} /\ Len(outBuff'[n]) = 1 /\ Solid(x.buff)
      /\ pPc'[n] \in {"ack", "send"}
      /\ \A a \in Nodes \ {n} : outBuff'[a] = outBuff[a] /\ pPc'[a] = pPc[a]
  BY ShortPipe DEF FlushDoes
<1>3. ASSUME NEW a \in Nodes, NEW s \in Tables, NEW q \in Nodes
      PROVE  /\ Known(a, s, q)' <=> Known(a, s, q)
             /\ Merged(a, s, q)' = Merged(a, s, q)
             /\ First(a, s, q)' = First(a, s, q)
                \/ (Known(a, s, q) /\ First(a, s, q)' = Merged(a, s, q) + 1
                    /\ First(a, s, q) <= Merged(a, s, q))
             /\ ~Known(a, s, q) =>
                    peerUpdateRange'[a][s].range[q] = peerUpdateRange[a][s].range[q]
  <2>1. CASE a = n /\ s = t
    <3>1. CASE q \in NewPeers(n, t)
      BY <2>1, <3>1 DEF FlushDoes
    <3>2. CASE q \notin NewPeers(n, t)
      <4>1. /\ peerUpdateRange'[n][t].range[q] = peerUpdateRange[n][t].range[q]
            /\ Known(n, t, q)' <=> Known(n, t, q)
        BY <3>2 DEF FlushDoes
      <4> QED
        BY <2>1, <4>1 DEF Merged, First
    <3> QED
      BY <3>1, <3>2
  <2>2. CASE a # n \/ s # t
    <3>1. peerUpdateRange'[a][s] = peerUpdateRange[a][s]
      BY <2>2 DEF FlushDoes
    <3> QED
      BY <3>1 DEF Known, Merged, First
  <2> QED
    BY <2>1, <2>2
<1>4. ASSUME NEW a \in Nodes, NEW s \in Tables, NEW q \in Nodes PROVE First(a, s, q)' \in Nat
  BY <1>3, FlowParts
<1>5. BuffersInv(p)'
  <2>1. BuffersInv(p)
    BY DEF FlowInv
  <2>2. \A s \in Tables : p \notin peerUpdateRange'[p][s].known
    BY <1>3, <2>1 DEF BuffersInv, Known
  <2>3. \A s \in Tables, q \in Nodes :
            /\ peerUpdateRange'[p][s].range[q].st \in Nat
            /\ q \notin peerUpdateRange'[p][s].known =>
                    peerUpdateRange'[p][s].range[q] = Span(0, -1)
    <3> TAKE s \in Tables, q \in Nodes
    <3>1. peerUpdateRange'[p][s].range[q].st \in Nat
      BY <1>4 DEF First
    <3>2. (q \in peerUpdateRange'[p][s].known) <=> (q \in peerUpdateRange[p][s].known)
      BY <1>3 DEF Known
    <3>3. q \notin peerUpdateRange[p][s].known =>
            peerUpdateRange'[p][s].range[q] = peerUpdateRange[p][s].range[q]
      BY <1>3 DEF Known
    <3> QED
      BY <2>1, <3>1, <3>2, <3>3 DEF BuffersInv
  <2>4. \A y \in Buffs(outBuff'[p]) : Solid(y.buff)
    BY <1>2, <2>1 DEF BuffersInv
  <2>5. IF pPc'[p] \in {"ack", "send"} THEN Len(outBuff'[p]) = 1 ELSE outBuff'[p] = <<>>
    BY <1>2, <2>1 DEF BuffersInv
  <2> QED
    BY <1>1, <2>1, <2>2, <2>3, <2>4, <2>5 DEF BuffersInv
<1>6. PlacesInv(p)'
  <2>1. PlacesInv(p)
    BY DEF FlowInv
  <2>2. ASSUME NEW a \in Nodes, NEW y \in Buffs(outBuff'[a]), Has(y, p)
        PROVE  /\ a \in Reach(p)
               /\ IF a = p THEN GetNodeRange(y.buff, p) = myUpdateRange[p][y.table]
                  ELSE To(y, p) < myUpdateRange[p][y.table].st
    <3>1. CASE a # n
      BY <1>2, <2>1, <2>2, <3>1 DEF PlacesInv
    <3>2. CASE a = n
      <4>1. y = x /\ x.table = t
        BY <1>2, <2>2, <3>2 DEF FlushDoes
      <4>2. CASE p \in NewPeers(n, t)
        <5>1. p # n /\ Known(n, t, p) /\ To(x, p) = Merged(n, t, p)
          BY <4>2 DEF FlushDoes
        <5>2. n \in Fed(p) /\ Merged(n, t, p) < myUpdateRange[p][t].st
          BY <2>1, <5>1 DEF PlacesInv, Known, Merged
        <5> QED
          BY <3>2, <4>1, <5>1, <5>2, Graph
      <4>3. CASE p \notin NewPeers(n, t)
        <5>1. p = n /\ HasOwnRange(n, t)
          BY <2>2, <4>1, <4>3 DEF FlushDoes
        <5> QED
          BY <3>2, <4>1, <5>1, Graph DEF FlushDoes
      <4> QED
        BY <4>2, <4>3
    <3> QED
      BY <3>1, <3>2
  <2>3. \A a \in Nodes, s \in Tables :
            /\ p \in peerUpdateRange'[a][s].known => a \in Fed(p)
            /\ peerUpdateRange'[a][s].range[p].end < myUpdateRange[p][s].st
    BY <1>3, <2>1 DEF PlacesInv, Known, Merged
  <2> QED
    BY <1>1, <2>1, <2>2, <2>3 DEF PlacesInv
<1> QED
  BY <1>5, <1>6

(* A buffer that is sent stays on the way of its numbers.                  *)
LEMMA FlowSend ==
    ASSUME FlowInv, NEW n \in Nodes, NEW x, SendDoes(n, x), NEW p \in Nodes
    PROVE  BuffersInv(p)' /\ PlacesInv(p)'
<1>1. UNCHANGED <<fwdPipe, recvBuff, peerUpdateRange, rPc>>
  BY DEF SendDoes
<1>2. /\ Buffs(outBuff[n]) = {x} /\ outBuff'[n] = <<>> /\ Buffs(outBuff'[n]) = {}
      /\ pPc'[n] \notin {"ack", "send"}
      /\ \A a \in Nodes \ {n} :
            outBuff'[a] = outBuff[a] /\ pPc'[a] = pPc[a] /\ tcp'[a] = tcp[a]
      /\ x.table \in Tables
  BY ShortPipe DEF SendDoes
<1>3. Buffs(tcp'[n]) = Buffs(tcp[n]) \cup {x} \/ Buffs(tcp'[n]) = Buffs(tcp[n])
  BY DEF SendDoes, Pushes
<1>4. ASSUME NEW a \in Nodes, NEW s \in Tables
      PROVE  /\ myUpdateRange'[a][s].st \in Nat
             /\ myUpdateRange'[a][s].st <= myUpdateRange'[a][s].end + 1
             /\ myUpdateRange[a][s].st <= myUpdateRange'[a][s].st
             /\ (a = n /\ s = x.table) => myUpdateRange'[a][s].st = myUpdateRange[a][s].end + 1
             /\ (a # n \/ s # x.table) => myUpdateRange'[a][s] = myUpdateRange[a][s]
  <2>1. /\ myUpdateRange[a][s].st \in Nat /\ myUpdateRange[a][s].end \in Int
        /\ myUpdateRange[a][s].st <= myUpdateRange[a][s].end + 1
    BY FlowParts DEF BuffersInv
  <2>2. CASE a = n /\ s = x.table
    <3>1. /\ myUpdateRange'[a][s].st = myUpdateRange[a][s].end + 1
          /\ myUpdateRange'[a][s].end = myUpdateRange[a][s].end
      BY <2>2 DEF SendDoes, Span
    <3> QED
      BY <2>1, <2>2, <3>1
  <2>3. CASE a # n \/ s # x.table
    <3>1. myUpdateRange'[a][s] = myUpdateRange[a][s]
      BY <2>3 DEF SendDoes
    <3> QED
      BY <2>1, <2>3, <3>1
  <2> QED
    BY <2>2, <2>3
<1>5. BuffersInv(p)'
  <2>1. BuffersInv(p)
    BY DEF FlowInv
  <2>2. \A y \in Buffs(tcp'[p]) \cup Buffs(outBuff'[p]) : Solid(y.buff)
    BY <1>2, <1>3, <2>1 DEF BuffersInv
  <2>3. IF pPc'[p] \in {"ack", "send"} THEN Len(outBuff'[p]) = 1 ELSE outBuff'[p] = <<>>
    BY <1>2, <2>1 DEF BuffersInv
  <2> QED
    BY <1>1, <1>4, <2>1, <2>2, <2>3 DEF BuffersInv
<1>6. PlacesInv(p)'
  <2>1. PlacesInv(p)
    BY DEF FlowInv
  <2>2. ASSUME NEW a \in Nodes, NEW y \in Buffs(tcp[a]) \cup Buffs(outBuff[a])
                    \cup Buffs(recvBuff[a]) \cup Buffs(fwdPipe[a]), Has(y, p)
        PROVE  y.table \in Tables /\ To(y, p) \in Int
               /\ myUpdateRange[p][y.table].st \in Int /\ myUpdateRange[p][y.table].end \in Int
    BY <2>2, FlowParts
  <2>3. ASSUME NEW a \in Nodes, NEW y \in Buffs(tcp'[a]), Has(y, p)
        PROVE  a \in Reach(p) /\ To(y, p) < myUpdateRange'[p][y.table].st
    <3>1. CASE y \in Buffs(tcp[a])
      BY <1>4, <2>1, <2>2, <2>3, <3>1 DEF PlacesInv
    <3>2. CASE a = n /\ y = x
      <4>1. a \in Reach(p)
        BY <1>2, <2>1, <2>3, <3>2 DEF PlacesInv
      <4>2. CASE p # n
        BY <1>2, <1>4, <2>1, <2>2, <2>3, <3>2, <4>1, <4>2 DEF PlacesInv
      <4>3. CASE p = n
        <5>1. GetNodeRange(x.buff, p) = myUpdateRange[p][x.table]
          BY <1>2, <2>1, <2>3, <3>2, <4>3 DEF PlacesInv
        <5>2. To(x, p) = myUpdateRange[p][x.table].end
          BY <5>1 DEF To
        <5>3. myUpdateRange'[p][x.table].st = myUpdateRange[p][x.table].end + 1
          BY <1>2, <1>4, <4>3
        <5>4. To(x, p) \in Int
          BY <1>2, <2>2, <2>3, <3>2
        <5> QED
          BY <3>2, <4>1, <5>2, <5>3, <5>4
      <4> QED
        BY <4>2, <4>3
    <3> QED
      BY <1>2, <1>3, <2>3, <3>1, <3>2
  <2>4. ASSUME NEW a \in Nodes, NEW y \in Buffs(recvBuff[a]) \cup Buffs(fwdPipe[a]), Has(y, p)
        PROVE  To(y, p) < myUpdateRange'[p][y.table].st
    BY <1>4, <2>1, <2>2, <2>4 DEF PlacesInv
  <2>5. ASSUME NEW a \in Nodes, NEW y \in Buffs(outBuff'[a]), Has(y, p)
        PROVE  IF a = p THEN GetNodeRange(y.buff, p) = myUpdateRange'[p][y.table]
               ELSE To(y, p) < myUpdateRange'[p][y.table].st
    <3>1. a # n /\ y \in Buffs(outBuff[a])
      BY <1>2, <2>5
    <3>2. y.table \in Tables
      BY <2>2, <2>5, <3>1
    <3>3. CASE a = p
      BY <1>4, <2>1, <2>5, <3>1, <3>2, <3>3 DEF PlacesInv
    <3>4. CASE a # p
      BY <1>4, <2>1, <2>2, <2>5, <3>1, <3>2, <3>4 DEF PlacesInv
    <3> QED
      BY <3>3, <3>4
  <2>6. \A a \in Nodes, s \in Tables : peerUpdateRange[a][s].range[p].end < myUpdateRange'[p][s].st
    <3>1. \A a \in Nodes, s \in Tables :
            /\ peerUpdateRange[a][s].range[p].end \in Int
            /\ myUpdateRange[p][s].st \in Int
      BY FlowParts DEF Merged
    <3> QED
      BY <1>4, <2>1, <3>1 DEF PlacesInv
  <2>7. \A a \in Nodes : \A y \in Buffs(outBuff'[a]) : y \in Buffs(outBuff[a])
    BY <1>2
  <2> QED
    BY <1>1, <2>1, <2>3, <2>4, <2>5, <2>6, <2>7 DEF PlacesInv
<1> QED
  BY <1>5, <1>6

(* The propagator takes over the ranges of a forwarded buffer.             *)
LEMMA FlowMerge ==
    ASSUME FlowInv, NEW n \in Nodes, NEW x, MergeDoes(n, x), NEW p \in Nodes
    PROVE  BuffersInv(p)' /\ PlacesInv(p)'
<1>1. UNCHANGED <<tcp, outBuff, recvBuff, myUpdateRange, pPc, rPc>>
  BY DEF MergeDoes
<1>2. /\ x \in Buffs(fwdPipe[n])
      /\ \A a \in Nodes : Buffs(fwdPipe'[a]) \subseteq Buffs(fwdPipe[a])
  <2>1. x \in Buffs(fwdPipe[n]) /\ Buffs(fwdPipe'[n]) \subseteq Buffs(fwdPipe[n])
    BY DEF MergeDoes, Pops
  <2>2. \A a \in Nodes \ {n} : fwdPipe'[a] = fwdPipe[a]
    BY DEF MergeDoes
  <2> QED
    BY <2>1, <2>2
<1>3. x.table \in Tables /\ ~Has(x, n)
  BY <1>2, FlowParts DEF BuffersInv
<1>4. ASSUME NEW a \in Nodes, NEW s \in Tables, NEW q \in Nodes
      PROVE  \/ /\ peerUpdateRange'[a][s].range[q] = peerUpdateRange[a][s].range[q]
                /\ Known(a, s, q)' <=> Known(a, s, q)
             \/ /\ a = n /\ s = x.table /\ Has(x, q) /\ Known(n, s, q)'
                /\ Merged(n, s, q)' = To(x, q)
                /\ First(n, s, q)' \in {First(n, s, q), From(x, q)}
  <2>1. CASE a = n /\ s = x.table /\ pState[n] = "RUN" /\ q \in Shown(x)
    BY <2>1 DEF MergeDoes
  <2>2. CASE a = n /\ s = x.table /\ pState[n] = "RUN" /\ q \notin Shown(x)
    BY <2>2 DEF MergeDoes
  <2>3. CASE a # n \/ s # x.table \/ pState[n] # "RUN"
    BY <2>3 DEF MergeDoes, Known
  <2> QED
    BY <2>1, <2>2, <2>3
<1>5. BuffersInv(p)'
  <2>1. BuffersInv(p)
    BY DEF FlowInv
  <2>2. ASSUME NEW s \in Tables PROVE p \notin peerUpdateRange'[p][s].known
    BY <1>3, <1>4, <2>1 DEF BuffersInv, Known
  <2>3. ASSUME NEW s \in Tables, NEW q \in Nodes
        PROVE  /\ peerUpdateRange'[p][s].range[q].st \in Nat
               /\ q \notin peerUpdateRange'[p][s].known =>
                    peerUpdateRange'[p][s].range[q] = Span(0, -1)
    <3>1. CASE /\ peerUpdateRange'[p][s].range[q] = peerUpdateRange[p][s].range[q]
               /\ Known(p, s, q)' <=> Known(p, s, q)
      BY <2>1, <3>1 DEF BuffersInv, Known
    <3>2. CASE /\ p = n /\ s = x.table /\ Has(x, q) /\ Known(n, s, q)'
               /\ First(n, s, q)' \in {First(n, s, q), From(x, q)}
      <4>1. First(n, s, q) \in Nat /\ From(x, q) \in Nat
        BY <1>2, <3>2, FlowParts
      <4> QED
        BY <3>2, <4>1 DEF First, Known
    <3> QED
      BY <1>4, <3>1, <3>2
  <2>4. \A y \in Buffs(fwdPipe'[p]) : Sound(y.buff) /\ ~Has(y, p)
    BY <1>2, <2>1 DEF BuffersInv
  <2> QED
    BY <1>1, <2>1, <2>2, <2>3, <2>4 DEF BuffersInv
<1>6. PlacesInv(p)'
  <2>1. PlacesInv(p)
    BY DEF FlowInv
  <2>2. ASSUME NEW a \in Nodes, NEW s \in Tables
        PROVE  /\ p \in peerUpdateRange'[a][s].known => a \in Fed(p)
               /\ peerUpdateRange'[a][s].range[p].end < myUpdateRange[p][s].st
    <3>1. CASE /\ peerUpdateRange'[a][s].range[p] = peerUpdateRange[a][s].range[p]
               /\ Known(a, s, p)' <=> Known(a, s, p)
      BY <2>1, <3>1 DEF PlacesInv, Known
    <3>2. CASE a = n /\ s = x.table /\ Has(x, p) /\ Merged(n, s, p)' = To(x, p)
      BY <1>2, <2>1, <3>2 DEF PlacesInv, Merged
    <3> QED
      BY <1>4, <3>1, <3>2
  <2> QED
    BY <1>1, <1>2, <2>1, <2>2 DEF PlacesInv
<1> QED
  BY <1>5, <1>6

(* The record is not on the way of any number.                             *)
LEMMA FlowRecord ==
    ASSUME FlowInv, NEW n \in Nodes, NEW m, RecordDoes(n, m), NEW p \in Nodes
    PROVE  BuffersInv(p)' /\ PlacesInv(p)'
<1>1. UNCHANGED <<tcp, outBuff, fwdPipe, recvBuff, peerUpdateRange, myUpdateRange, pPc, rPc>>
  BY DEF RecordDoes
<1>2. BuffersInv(p) /\ PlacesInv(p)
  BY DEF FlowInv
<1>3. BuffersInv(p)'
  BY <1>1, <1>2 DEF BuffersInv
<1>4. PlacesInv(p)'
  BY <1>1, <1>2 DEF PlacesInv
<1> QED
  BY <1>3, <1>4

(* What the receiver of n passes on came from above it.                    *)
LEMMA FlowCopy ==
    ASSUME NEW x, NEW y, NEW n \in Nodes, Copies(y, x, n), NEW p \in Nodes, Has(y, p)
    PROVE  /\ p # n /\ Has(x, p) /\ y.table = x.table
           /\ From(y, p) = From(x, p) /\ To(y, p) = To(x, p)
BY DEF Copies, From, To

(* The receiver of the downstream node is on the way too, and forwards no  *)
(* range of its own node.                                                  *)
LEMMA FlowTake ==
    ASSUME FlowInv, NEW n \in Nodes, NEW u \in Nodes, NEW x, TakeDoes(n, u, x),
           NEW p \in Nodes
    PROVE  BuffersInv(p)' /\ PlacesInv(p)'
<1>1. UNCHANGED <<outBuff, peerUpdateRange, myUpdateRange, pPc>>
  BY DEF TakeDoes
<1>2. /\ x \in Buffs(tcp[u])
      /\ \A a \in Nodes : Buffs(tcp'[a]) \subseteq Buffs(tcp[a])
  <2>1. x \in Buffs(tcp[u]) /\ Buffs(tcp'[u]) \subseteq Buffs(tcp[u])
    BY DEF TakeDoes, Pops
  <2>2. \A a \in Nodes \ {u} : tcp'[a] = tcp[a]
    BY DEF TakeDoes
  <2> QED
    BY <2>1, <2>2
<1>3. Solid(x.buff) /\ IsBuff(x)
  BY <1>2, FlowParts DEF BuffersInv
<1>4. /\ \A a \in Nodes \ {n} :
            fwdPipe'[a] = fwdPipe[a] /\ recvBuff'[a] = recvBuff[a] /\ rPc'[a] = rPc[a]
      /\ Downstream[u] = n
  BY DEF TakeDoes
<1>5. \/ recvBuff'[n] = <<>> /\ rPc'[n] # "dedup" /\ Buffs(recvBuff'[n]) = {}
      \/ /\ recvBuff'[n] = <<x>> /\ rPc'[n] = "dedup" /\ Has(x, n)
         /\ Buffs(recvBuff'[n]) = {x} /\ Len(recvBuff'[n]) = 1 /\ recvBuff'[n][1] = x
  <2>1. \/ recvBuff'[n] = <<>> /\ rPc'[n] # "dedup"
        \/ recvBuff'[n] = <<x>> /\ rPc'[n] = "dedup" /\ Has(x, n)
    BY DEF TakeDoes
  <2>2. CASE recvBuff'[n] = <<>> /\ rPc'[n] # "dedup"
    BY <2>2, ShortPipe
  <2>3. CASE recvBuff'[n] = <<x>> /\ rPc'[n] = "dedup" /\ Has(x, n)
    <3>1. Buffs(<<x>>) = {x} /\ Len(<<x>>) = 1 /\ <<x>>[1] = x
      BY <1>3, ShortPipe
    <3> QED
      BY <2>3, <3>1
  <2> QED
    BY <2>1, <2>2, <2>3
<1>6. ASSUME NEW y \in Buffs(fwdPipe'[n]) PROVE y \in Buffs(fwdPipe[n]) \/ Copies(y, x, n)
  BY DEF TakeDoes, Pushes
<1>7. BuffersInv(p)'
  <2>1. BuffersInv(p)
    BY DEF FlowInv
  <2>2. \A y \in Buffs(tcp'[p]) \cup Buffs(recvBuff'[p]) : Solid(y.buff)
    BY <1>2, <1>3, <1>4, <1>5, <2>1 DEF BuffersInv
  <2>3. \A y \in Buffs(fwdPipe'[p]) : Sound(y.buff) /\ ~Has(y, p)
    BY <1>4, <1>6, <2>1 DEF BuffersInv, Copies
  <2>4. IF rPc'[p] = "dedup"
        THEN Len(recvBuff'[p]) = 1 /\ Has(recvBuff'[p][1], p)
        ELSE recvBuff'[p] = <<>>
    BY <1>4, <1>5, <2>1 DEF BuffersInv
  <2> QED
    BY <1>1, <2>1, <2>2, <2>3, <2>4 DEF BuffersInv
<1>8. PlacesInv(p)'
  <2>1. PlacesInv(p)
    BY DEF FlowInv
  <2>2. Has(x, p) => n \in Fed(p) /\ To(x, p) < myUpdateRange[p][x.table].st
    BY <1>2, <1>4, <2>1, Graph DEF PlacesInv
  <2>3. ASSUME NEW a \in Nodes, NEW y \in Buffs(recvBuff'[a]) \cup Buffs(fwdPipe'[a]), Has(y, p)
        PROVE  a \in Fed(p) /\ To(y, p) < myUpdateRange[p][y.table].st
    <3>1. CASE y \in Buffs(recvBuff[a]) \cup Buffs(fwdPipe[a])
      BY <2>1, <2>3, <3>1 DEF PlacesInv
    <3>2. CASE a = n /\ y = x
      BY <2>2, <2>3, <3>2
    <3>3. CASE a = n /\ Copies(y, x, n)
      BY <2>2, <2>3, <3>3, FlowCopy
    <3> QED
      BY <1>4, <1>5, <1>6, <2>3, <3>1, <3>2, <3>3
  <2> QED
    BY <1>1, <1>2, <2>1, <2>3 DEF PlacesInv
<1> QED
  BY <1>7, <1>8

(* What remains of a buffer after the removal has no range of the node.    *)
LEMMA FlowDedup ==
    ASSUME FlowInv, NEW n \in Nodes, NEW x, DedupDoes(n, x), NEW p \in Nodes
    PROVE  BuffersInv(p)' /\ PlacesInv(p)'
<1>1. UNCHANGED <<tcp, outBuff, peerUpdateRange, myUpdateRange, pPc>>
  BY DEF DedupDoes
<1>2. /\ rPc[n] = "dedup" /\ recvBuff[n] = <<x>> /\ Buffs(recvBuff[n]) = {x}
      /\ \A a \in Nodes \ {n} :
            fwdPipe'[a] = fwdPipe[a] /\ recvBuff'[a] = recvBuff[a] /\ rPc'[a] = rPc[a]
  BY DEF DedupDoes
<1>3. Solid(x.buff) /\ Has(x, n)
  <2>1. <<x>>[1] = x
    BY ShortPipe
  <2> QED
    BY <1>2, <2>1, FlowParts DEF BuffersInv
<1>4. \/ recvBuff'[n] = <<>> /\ rPc'[n] # "dedup" /\ Buffs(recvBuff'[n]) = {}
      \/ \E z : /\ recvBuff'[n] = <<z>> /\ rPc'[n] = "dedup" /\ Solid(z.buff) /\ Has(z, n)
                /\ Buffs(recvBuff'[n]) = {z} /\ Len(recvBuff'[n]) = 1 /\ recvBuff'[n][1] = z
                /\ z.table = x.table
                /\ \A q : Has(z, q) = Has(x, q) /\ To(z, q) = To(x, q)
  <2>1. CASE recvBuff'[n] = <<>> /\ rPc'[n] # "dedup"
    BY <2>1, ShortPipe
  <2>2. CASE recvBuff'[n] = recvBuff[n] /\ rPc'[n] = rPc[n]
    <3>1. IsBuff(x)
      BY DEF DedupDoes, UpdateBufferMsg, IsBuff
    <3> QED
      BY <1>2, <1>3, <2>2, <3>1, ShortPipe
  <2>3. ASSUME NEW z \in UpdateBufferMsg,
               recvBuff'[n] = <<z>> /\ z.table = x.table /\ z.buff.ranges = x.buff.ranges,
               rPc'[n] = "dedup"
        PROVE  \E zz : /\ recvBuff'[n] = <<zz>> /\ rPc'[n] = "dedup" /\ Solid(zz.buff) /\ Has(zz, n)
                /\ Buffs(recvBuff'[n]) = {zz} /\ Len(recvBuff'[n]) = 1 /\ recvBuff'[n][1] = zz
                /\ zz.table = x.table
                /\ \A q : Has(zz, q) = Has(x, q) /\ To(zz, q) = To(x, q)
    <3>1. IsBuff(z)
      BY DEF UpdateBufferMsg, IsBuff
    <3>2. /\ Solid(x.buff) => Solid(z.buff)
          /\ \A q : /\ HasNodeRange(z.buff, q) = HasNodeRange(x.buff, q)
                    /\ GetNodeRange(z.buff, q) = GetNodeRange(x.buff, q)
      BY <2>3, SameSlots
    <3>3. Solid(z.buff) /\ Has(z, n) /\ \A q : Has(z, q) = Has(x, q) /\ To(z, q) = To(x, q)
      BY <1>3, <3>2 DEF Has, To
    <3> QED
      BY <2>3, <3>1, <3>3, ShortPipe
  <2> QED
    BY <2>1, <2>2, <2>3 DEF DedupDoes
<1>5. ASSUME NEW y \in Buffs(fwdPipe'[n]) PROVE y \in Buffs(fwdPipe[n]) \/ Copies(y, x, n)
  BY DEF DedupDoes, Pushes
<1>6. BuffersInv(p)'
  <2>1. BuffersInv(p)
    BY DEF FlowInv
  <2>2. \A y \in Buffs(recvBuff'[p]) : Solid(y.buff)
    BY <1>2, <1>4, <2>1 DEF BuffersInv
  <2>3. \A y \in Buffs(fwdPipe'[p]) : Sound(y.buff) /\ ~Has(y, p)
    BY <1>2, <1>5, <2>1 DEF BuffersInv, Copies
  <2>4. IF rPc'[p] = "dedup"
        THEN Len(recvBuff'[p]) = 1 /\ Has(recvBuff'[p][1], p)
        ELSE recvBuff'[p] = <<>>
    BY <1>2, <1>4, <2>1 DEF BuffersInv
  <2> QED
    BY <1>1, <2>1, <2>2, <2>3, <2>4 DEF BuffersInv
<1>7. PlacesInv(p)'
  <2>1. PlacesInv(p)
    BY DEF FlowInv
  <2>2. Has(x, p) => n \in Fed(p) /\ To(x, p) < myUpdateRange[p][x.table].st
    BY <1>2, <2>1 DEF PlacesInv
  <2>3. ASSUME NEW a \in Nodes, NEW y \in Buffs(recvBuff'[a]) \cup Buffs(fwdPipe'[a]), Has(y, p)
        PROVE  a \in Fed(p) /\ To(y, p) < myUpdateRange[p][y.table].st
    <3>1. CASE y \in Buffs(recvBuff[a]) \cup Buffs(fwdPipe[a])
      BY <2>1, <2>3, <3>1 DEF PlacesInv
    <3>2. CASE a = n /\ y.table = x.table /\ (Has(y, p) => Has(x, p)) /\ To(y, p) = To(x, p)
      BY <2>2, <2>3, <3>2
    <3>3. CASE a = n /\ Copies(y, x, n)
      BY <2>2, <2>3, <3>3, FlowCopy
    <3>4. CASE a # n
      BY <1>2, <2>3, <3>1, <3>4
    <3>5. CASE a = n /\ y \in Buffs(recvBuff'[n])
      BY <1>4, <3>2, <3>5
    <3>6. CASE a = n /\ y \in Buffs(fwdPipe'[n])
      BY <1>5, <3>1, <3>3, <3>6
    <3> QED
      BY <2>3, <3>4, <3>5, <3>6
  <2> QED
    BY <1>1, <2>1, <2>3 DEF PlacesInv
<1> QED
  BY <1>6, <1>7

(* Every step of a node's data path.                                       *)
FlowStepOf(n) ==
    \/ \E t \in Tables : LogDoes(n, t) /\ \E th \in Threads : IsNext(logPipe[n][th], "EPUpdateLog")
    \/ \E t \in Tables : \E x : FlushDoes(n, t, x)
    \/ \E x : SendDoes(n, x)
    \/ \E x : MergeDoes(n, x)
    \/ \E m : RecordDoes(n, m)
    \/ \E u \in Nodes : \E x : TakeDoes(n, u, x)
    \/ \E x : DedupDoes(n, x)

(* Every step of the system is idle or does one of these.                  *)
LEMMA FlowEffects ==
    ASSUME FlowInv, [Next]_vars
    PROVE  Idle \/ \E n \in Nodes : FlowStepOf(n)
<1>1. TypeInv
  BY DEF FlowInv, ShutdownInv
<1>2. ASSUME NEW n \in Nodes, \E th \in Threads : LogStep(n, th) PROVE FlowStepOf(n)
  BY <1>1, <1>2, LogEffect DEF FlowStepOf
<1>3. ASSUME NEW n \in Nodes, \E t \in Tables : FlushStep(n, t) PROVE FlowStepOf(n)
  BY <1>3, FlushEffect DEF FlowStepOf
<1>4. ASSUME NEW n \in Nodes, SendStep(n) PROVE FlowStepOf(n)
  BY <1>4, SendEffect DEF FlowStepOf
<1>5. ASSUME NEW n \in Nodes, MergeStep(n) PROVE FlowStepOf(n)
  BY <1>1, <1>5, MergeEffect DEF FlowStepOf
<1>6. ASSUME NEW n \in Nodes, RecordStep(n) PROVE FlowStepOf(n)
  BY <1>1, <1>6, RecordEffect DEF FlowStepOf
<1>7. ASSUME NEW n \in Nodes, \E u \in Nodes : TakeStep(n, u) PROVE FlowStepOf(n)
  BY <1>7, TakeEffect DEF FlowStepOf
<1>8. ASSUME NEW n \in Nodes, DedupStep(n) PROVE FlowStepOf(n)
  BY <1>8, DedupEffect DEF FlowStepOf
<1> QED
  BY <1>1, <1>2, <1>3, <1>4, <1>5, <1>6, <1>7, <1>8, FlowSteps

(* The invariant is inductive: one case per effect.                        *)
LEMMA FlowStep == FlowInv /\ [Next]_vars => FlowInv'
<1> SUFFICES ASSUME FlowInv, [Next]_vars PROVE FlowInv'
  OBVIOUS
<1>1. ShutdownInv'
  BY ShutdownStep DEF FlowInv
<1>2. ASSUME NEW p \in Nodes PROVE BuffersInv(p)' /\ PlacesInv(p)'
  <2>1. CASE Idle
    BY <2>1, FlowIdle
  <2>2. ASSUME NEW n \in Nodes, FlowStepOf(n) PROVE BuffersInv(p)' /\ PlacesInv(p)'
    BY <2>2, FlowLog, FlowFlush, FlowSend, FlowMerge, FlowRecord, FlowTake, FlowDedup
      DEF FlowStepOf
  <2> QED
    BY <2>1, <2>2, FlowEffects
<1> QED
  BY <1>1, <1>2 DEF FlowInv

(* For every propagation graph: the updates of a node are only found on    *)
(* the way downstream of it, with numbers it has sent, and a receiver      *)
(* passes no update of its own node on to its propagator.                  *)
THEOREM FlowInvariant == Spec => []FlowInv
BY FlowInit, FlowStep, PTL DEF Spec
=============================================================================
