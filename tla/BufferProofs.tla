---------------------------- MODULE BufferProofs ----------------------------
(***************************************************************************)
(* The buffer of BufferProtocol agrees with its reference, for every        *)
(* capacity, every set of nodes and every range of numbers.                 *)
(***************************************************************************)
EXTENDS BufferProtocol, TLAPS

(* What slot i holds: the i-th node written, with its last range, until it *)
(* is deleted (the slot keeps the range, the id is gone); a free slot past *)
(* the nodes written.                                                      *)
SlotAt(i) ==
    IF i <= Len(order)
    THEN [id  |-> IF order[i] = deleted THEN NoNode ELSE order[i],
          st  |-> span[order[i]].st,
          end |-> span[order[i]].end]
    ELSE FreeSlot

(* The inductive invariant: the slots are the reference, slot by slot.     *)
BufferInv ==
    /\ order \in Seq(Nodes)
    /\ Len(order) <= Capacity
    /\ \A i, j \in 1 .. Len(order) : order[i] = order[j] => i = j
    /\ span \in [Nodes -> UpdateRange]
    /\ deleted \in Nodes \cup {NoNode}
    /\ buf = [ranges  |-> [i \in 1 .. Capacity |-> SlotAt(i)],
              updates |-> EmptyStore]

-----------------------------------------------------------------------------
(* The id of a free slot is no node.                                       *)
LEMMA NoNodeIsNoNode == NoNode \notin Nodes /\ NoNode \in Int
  BY NodesAssumption DEF NoNode

(* The slots, read through the invariant.                                  *)
LEMMA SlotFacts ==
    ASSUME BufferInv
    PROVE  /\ DOMAIN buf.ranges = 1 .. Capacity
           /\ DOMAIN order = 1 .. Len(order)
           /\ Len(order) \in 0 .. Capacity
           /\ \A i \in 1 .. Len(order) :
                /\ i \in 1 .. Capacity
                /\ order[i] \in Nodes
                /\ buf.ranges[i].id = IF order[i] = deleted THEN NoNode ELSE order[i]
                /\ buf.ranges[i].st = span[order[i]].st
                /\ buf.ranges[i].end = span[order[i]].end
           /\ \A i \in 1 .. Capacity : i > Len(order) => buf.ranges[i] = FreeSlot
<1>1. DOMAIN order = 1 .. Len(order) /\ Len(order) \in 0 .. Capacity
  BY BufferAssumption DEF BufferInv
<1>2. DOMAIN buf.ranges = 1 .. Capacity /\ \A i \in 1 .. Capacity : buf.ranges[i] = SlotAt(i)
  BY DEF BufferInv
<1>3. ASSUME NEW i \in 1 .. Len(order)
      PROVE  /\ i \in 1 .. Capacity
             /\ order[i] \in Nodes
             /\ buf.ranges[i] = [id  |-> IF order[i] = deleted THEN NoNode ELSE order[i],
                                 st  |-> span[order[i]].st,
                                 end |-> span[order[i]].end]
  <2>1. i \in 1 .. Capacity /\ i <= Len(order)
    BY <1>1, BufferAssumption
  <2>2. order[i] \in Nodes
    BY DEF BufferInv
  <2> QED
    BY <2>1, <2>2, <1>2 DEF SlotAt
<1>4. ASSUME NEW i \in 1 .. Capacity, i > Len(order)
      PROVE  buf.ranges[i] = FreeSlot
  <2>1. ~(i <= Len(order))
    BY <1>1, <1>4
  <2> QED
    BY <1>2, <2>1 DEF SlotAt
<1>5. ASSUME NEW i \in 1 .. Len(order)
      PROVE  /\ buf.ranges[i].id = IF order[i] = deleted THEN NoNode ELSE order[i]
             /\ buf.ranges[i].st = span[order[i]].st
             /\ buf.ranges[i].end = span[order[i]].end
  <2> DEFINE shown == IF order[i] = deleted THEN NoNode ELSE order[i]
             from  == span[order[i]].st
             to    == span[order[i]].end
  <2>1. buf.ranges[i] = [id |-> shown, st |-> from, end |-> to]
    BY <1>3
  <2> HIDE DEF shown, from, to
  <2>2. buf.ranges[i].id = shown /\ buf.ranges[i].st = from /\ buf.ranges[i].end = to
    BY <2>1
  <2> QED
    BY <2>2 DEF shown, from, to
<1> QED
  BY <1>1, <1>2, <1>3, <1>4, <1>5

(* A slot has a node's id exactly when it is the slot the node was written *)
(* to and the node is not deleted.                                         *)
LEMMA IdOfSlot ==
    ASSUME BufferInv, NEW id \in Nodes, NEW i \in 1 .. Capacity
    PROVE  buf.ranges[i].id = id <=> (i \in IndexesOf(id) /\ id # deleted)
<1>1. CASE i <= Len(order)
  <2>1. i \in 1 .. Len(order)
    BY <1>1, SlotFacts
  <2>2. buf.ranges[i].id = IF order[i] = deleted THEN NoNode ELSE order[i]
    BY <2>1, SlotFacts
  <2>3. i \in IndexesOf(id) <=> order[i] = id
    BY <2>1, SlotFacts DEF IndexesOf
  <2> QED
    BY <2>2, <2>3, NoNodeIsNoNode
<1>2. CASE i > Len(order)
  <2>1. buf.ranges[i].id = NoNode
    BY <1>2, SlotFacts DEF FreeSlot
  <2>2. i \notin IndexesOf(id)
    BY <1>2, SlotFacts DEF IndexesOf
  <2> QED
    BY <2>1, <2>2, NoNodeIsNoNode
<1> QED
  BY <1>1, <1>2, SlotFacts

(* A node has at most one slot.                                            *)
LEMMA OneIndex ==
    ASSUME BufferInv, NEW id, NEW i \in IndexesOf(id), NEW j \in IndexesOf(id)
    PROVE  i = j
<1>1. i \in 1 .. Len(order) /\ j \in 1 .. Len(order) /\ order[i] = order[j]
  BY SlotFacts DEF IndexesOf
<1> QED
  BY <1>1 DEF BufferInv

(* SlotOf of a node is the set of its indexes.                             *)
LEMMA SlotOfNode ==
    ASSUME BufferInv, NEW id \in Nodes
    PROVE  SlotOf(buf, id) = IF id = deleted THEN {} ELSE IndexesOf(id)
<1>1. ASSUME NEW i \in SlotOf(buf, id)
      PROVE  i \in IndexesOf(id) /\ id # deleted
  BY SlotFacts, IdOfSlot DEF SlotOf
<1>2. ASSUME NEW i \in IndexesOf(id), id # deleted
      PROVE  i \in SlotOf(buf, id)
  <2>1. i \in 1 .. Capacity
    BY SlotFacts DEF IndexesOf
  <2>2. buf.ranges[i].id = id
    BY <1>2, <2>1, IdOfSlot
  <2>3. ASSUME NEW j \in 1 .. i - 1, buf.ranges[j].id = id
        PROVE  FALSE
    <3>1. j \in 1 .. Capacity /\ j # i
      BY <2>1, BufferAssumption
    <3>2. j \in IndexesOf(id)
      BY <3>1, <2>3, IdOfSlot
    <3> QED
      BY <3>1, <3>2, OneIndex
  <2> QED
    BY <2>1, <2>2, <2>3, SlotFacts DEF SlotOf
<1> QED
  BY <1>1, <1>2

(* As long as nothing is deleted the first free slot follows the nodes     *)
(* written, if there is one.                                               *)
LEMMA SlotOfFree ==
    ASSUME BufferInv, deleted = NoNode
    PROVE  SlotOf(buf, NoNode) = IF Len(order) = Capacity THEN {} ELSE {Len(order) + 1}
<1>1. ASSUME NEW i \in 1 .. Len(order)
      PROVE  buf.ranges[i].id # NoNode
  BY SlotFacts, NoNodeIsNoNode
<1>2. ASSUME NEW i \in 1 .. Capacity, i > Len(order)
      PROVE  buf.ranges[i].id = NoNode
  BY <1>2, SlotFacts DEF FreeSlot
<1>3. Len(order) \in 0 .. Capacity /\ DOMAIN buf.ranges = 1 .. Capacity
  BY SlotFacts
<1>4. ASSUME NEW i \in SlotOf(buf, NoNode)
      PROVE  i = Len(order) + 1 /\ Len(order) # Capacity
  <2>1. i \in 1 .. Capacity /\ buf.ranges[i].id = NoNode /\ \A j \in 1 .. i - 1 : buf.ranges[j].id # NoNode
    BY <1>3 DEF SlotOf
  <2>2. i > Len(order)
    BY <2>1, <1>1, <1>3, BufferAssumption
  <2>3. ~(Len(order) + 1 \in 1 .. i - 1)
    <3>1. Len(order) + 1 \in 1 .. i - 1 => Len(order) + 1 \in 1 .. Capacity /\ Len(order) + 1 > Len(order)
      BY <2>1, <1>3, BufferAssumption
    <3> QED
      BY <2>1, <1>2, <3>1
  <2> QED
    BY <2>1, <2>2, <2>3, <1>3, BufferAssumption
<1>5. ASSUME Len(order) # Capacity
      PROVE  Len(order) + 1 \in SlotOf(buf, NoNode)
  <2>1. Len(order) + 1 \in 1 .. Capacity /\ Len(order) + 1 > Len(order)
    BY <1>5, <1>3, BufferAssumption
  <2>2. (Len(order) + 1) - 1 = Len(order)
    BY <1>3
  <2> QED
    BY <2>1, <2>2, <1>1, <1>2, <1>3 DEF SlotOf
<1> QED
  BY <1>4, <1>5

-----------------------------------------------------------------------------
(* A new buffer agrees with the empty reference.                           *)
LEMMA EmptyBuffer ==
    BufferInit => BufferInv
<1> SUFFICES ASSUME BufferInit
             PROVE  BufferInv
  OBVIOUS
<1> USE DEF BufferInit
<1>1. order \in Seq(Nodes) /\ Len(order) = 0 /\ Len(order) <= Capacity
  BY BufferAssumption
<1>2. \A i \in 1 .. Capacity : SlotAt(i) = FreeSlot
  BY <1>1, BufferAssumption DEF SlotAt
<1>3. buf = [ranges |-> [i \in 1 .. Capacity |-> SlotAt(i)], updates |-> EmptyStore]
  BY <1>2 DEF CreateUpdateBuffer
<1>4. span \in [Nodes -> UpdateRange]
  BY DEF UpdateRange, Span
<1>5. \A i, j \in 1 .. Len(order) : order[i] = order[j] => i = j
  BY <1>1
<1> QED
  BY <1>1, <1>3, <1>4, <1>5 DEF BufferInv

(* UpdateNodeRange writes the slot of the node or the first free one.      *)
LEMMA WriteKeeps ==
    ASSUME BufferInv, NEW id \in Nodes, NEW st \in Numbers, NEW end \in Numbers,
           Write(id, st, end)
    PROVE  BufferInv'
<1> DEFINE new == [id |-> id, st |-> st, end |-> end]
<1>1. /\ deleted = NoNode /\ deleted' = NoNode
      /\ st \in Int /\ end \in Int /\ id # NoNode
  BY BufferAssumption, NoNodeIsNoNode DEF Write
<1>2. SlotOf(buf, id) = IndexesOf(id)
  BY <1>1, SlotOfNode
<1>3. SlotOf(buf, NoNode) = IF Len(order) = Capacity THEN {} ELSE {Len(order) + 1}
  BY <1>1, SlotOfFree
<1>4. DOMAIN buf.ranges = 1 .. Capacity /\ Len(order) \in 0 .. Capacity /\ order \in Seq(Nodes)
  BY SlotFacts DEF BufferInv
<1>5. buf' = [ranges  |-> [i \in 1 .. Capacity |->
                            IF i \in TargetSlot(buf, id) THEN new ELSE buf.ranges[i]],
              updates |-> EmptyStore]
  <2>1. buf = [ranges |-> [i \in 1 .. Capacity |-> SlotAt(i)], updates |-> EmptyStore]
    BY DEF BufferInv
  <2> QED
    BY <2>1, <1>4 DEF Write, UpdateNodeRange
<1>6. \A i \in 1 .. Capacity : buf.ranges[i] = SlotAt(i)
  BY DEF BufferInv
<1>7. ASSUME NEW i \in 1 .. Len(order) PROVE order[i] \in Nodes /\ order[i] # NoNode
  BY <1>4, NoNodeIsNoNode
<1>8. CASE IndexesOf(id) = {} /\ Len(order) = Capacity
  <2>1. TargetSlot(buf, id) = {} /\ order' = order /\ span' = span
    BY <1>2, <1>3, <1>8 DEF TargetSlot, Write
  <2>2. \A i \in 1 .. Capacity : SlotAt(i)' = SlotAt(i)
    BY <2>1, <1>1 DEF SlotAt
  <2>3. buf' = [ranges |-> [i \in 1 .. Capacity |-> SlotAt(i)'], updates |-> EmptyStore]
    BY <2>1, <2>2, <1>5, <1>6
  <2> QED
    BY <2>1, <2>3, <1>1 DEF BufferInv
<1>9. CASE IndexesOf(id) = {} /\ Len(order) # Capacity
  <2>1. TargetSlot(buf, id) = {Len(order) + 1}
    BY <1>2, <1>3, <1>9 DEF TargetSlot
  <2>2. order' = Append(order, id) /\ span' = [span EXCEPT ![id] = Span(st, end)]
    BY <1>9 DEF Write
  <2>3. /\ order' \in Seq(Nodes) /\ Len(order') = Len(order) + 1
        /\ order'[Len(order) + 1] = id
        /\ \A i \in 1 .. Len(order) : order'[i] = order[i]
    BY <2>2, <1>4
  <2>4. \A i \in 1 .. Len(order) : order[i] # id
    BY <1>9, SlotFacts DEF IndexesOf
  <2>5. span' \in [Nodes -> UpdateRange] /\ span'[id] = Span(st, end)
        /\ \A m \in Nodes : m # id => span'[m] = span[m]
    BY <2>2, <1>1 DEF BufferInv, UpdateRange, Span
  <2>6. ASSUME NEW i \in 1 .. Capacity
        PROVE  SlotAt(i)' = IF i = Len(order) + 1 THEN new ELSE SlotAt(i)
    <3>1. CASE i <= Len(order)
      <4>1. i \in 1 .. Len(order)
        BY <3>1
      <4>2. order'[i] = order[i] /\ order[i] \in Nodes /\ order[i] # id
        BY <4>1, <1>7, <2>3, <2>4
      <4>3. i <= Len(order')
        BY <3>1, <2>3, <1>4
      <4>4. i # Len(order) + 1
        BY <3>1, <1>4
      <4> QED
        BY <3>1, <4>2, <4>3, <4>4, <2>5, <1>1 DEF SlotAt
    <3>2. CASE i = Len(order) + 1
      BY <3>2, <2>3, <2>5, <1>1, <1>4 DEF SlotAt, Span
    <3>3. CASE i > Len(order) + 1
      BY <3>3, <2>3, <1>4 DEF SlotAt
    <3> QED
      BY <3>1, <3>2, <3>3, <1>4
  <2>7. buf' = [ranges |-> [i \in 1 .. Capacity |-> SlotAt(i)'], updates |-> EmptyStore]
    BY <2>1, <2>6, <1>5, <1>6
  <2>8. \A i, j \in 1 .. Len(order') : order'[i] = order'[j] => i = j
    <3>1. \A i, j \in 1 .. Len(order) : order[i] = order[j] => i = j
      BY DEF BufferInv
    <3>2. \A i \in 1 .. Len(order') : i = Len(order) + 1 \/ i \in 1 .. Len(order)
      BY <2>3, <1>4
    <3> QED
      BY <3>1, <3>2, <2>3, <2>4
  <2>9. Len(order') <= Capacity
    BY <2>3, <1>4, <1>9, BufferAssumption
  <2> QED
    BY <2>3, <2>5, <2>7, <2>8, <2>9, <1>1 DEF BufferInv
<1>10. CASE IndexesOf(id) # {}
  <2>1. TargetSlot(buf, id) = IndexesOf(id)
    BY <1>2, <1>10 DEF TargetSlot
  <2>2. order' = order /\ span' = [span EXCEPT ![id] = Span(st, end)]
    BY <1>10 DEF Write
  <2>3. span' \in [Nodes -> UpdateRange] /\ span'[id] = Span(st, end)
        /\ \A m \in Nodes : m # id => span'[m] = span[m]
    BY <2>2, <1>1 DEF BufferInv, UpdateRange, Span
  <2>4. ASSUME NEW i \in 1 .. Capacity
        PROVE  SlotAt(i)' = IF i \in IndexesOf(id) THEN new ELSE SlotAt(i)
    <3>1. CASE i <= Len(order)
      <4>1. i \in 1 .. Len(order)
        BY <3>1
      <4>2. order'[i] = order[i] /\ order[i] \in Nodes /\ Len(order') = Len(order) /\ order[i] # NoNode
        BY <4>1, <1>7, <2>2
      <4>3. i \in IndexesOf(id) <=> order[i] = id
        BY <4>1, SlotFacts DEF IndexesOf
      <4> QED
        BY <3>1, <4>2, <4>3, <2>3, <1>1 DEF SlotAt, Span
    <3>2. CASE i > Len(order)
      <4>1. i \notin IndexesOf(id)
        BY <3>2, SlotFacts DEF IndexesOf
      <4> QED
        BY <4>1, <3>2, <2>2, <1>4 DEF SlotAt
    <3> QED
      BY <3>1, <3>2, <1>4
  <2>5. buf' = [ranges |-> [i \in 1 .. Capacity |-> SlotAt(i)'], updates |-> EmptyStore]
    BY <2>1, <2>4, <1>5, <1>6
  <2> QED
    BY <2>2, <2>3, <2>5, <1>1 DEF BufferInv
<1> QED
  BY <1>8, <1>9, <1>10

(* DeleteNodeRange clears the id of the slot of the node: no free slot     *)
(* comes before it, so the search does not give up.                        *)
LEMMA DeleteKeeps ==
    ASSUME BufferInv, NEW id \in Nodes, Delete(id)
    PROVE  BufferInv'
<1>1. deleted = NoNode /\ deleted' = id /\ order' = order /\ span' = span /\ id # NoNode
  BY NoNodeIsNoNode DEF Delete
<1>2. DOMAIN buf.ranges = 1 .. Capacity /\ Len(order) \in 0 .. Capacity
  BY SlotFacts
<1>3. \A i \in 1 .. Capacity : buf.ranges[i] = SlotAt(i)
  BY DEF BufferInv
<1> DEFINE Hit(i) == /\ buf.ranges[i].id = id
                     /\ \A j \in 1 .. i - 1 : buf.ranges[j].id \notin {NoNode, id}
<1>4. buf' = [ranges  |-> [i \in 1 .. Capacity |->
                    IF Hit(i) THEN [buf.ranges[i] EXCEPT !.id = NoNode] ELSE buf.ranges[i]],
              updates |-> EmptyStore]
  <2>1. buf = [ranges |-> [i \in 1 .. Capacity |-> SlotAt(i)], updates |-> EmptyStore]
    BY DEF BufferInv
  <2> QED
    BY <2>1, <1>2 DEF Delete, DeleteNodeRange
<1>5. ASSUME NEW i \in 1 .. Capacity
      PROVE  SlotAt(i)' = IF Hit(i) THEN [buf.ranges[i] EXCEPT !.id = NoNode] ELSE buf.ranges[i]
  <2>1. CASE i <= Len(order)
    <3>1. i \in 1 .. Len(order) /\ Len(order') = Len(order)
      BY <2>1, <1>1
    <3>2. /\ order[i] \in Nodes /\ order[i] # NoNode
          /\ buf.ranges[i] = [id |-> order[i], st |-> span[order[i]].st, end |-> span[order[i]].end]
      BY <3>1, <2>1, <1>1, <1>3, SlotFacts, NoNodeIsNoNode DEF SlotAt
    <3>3. Hit(i) <=> order[i] = id
      <4>1. Hit(i) => order[i] = id
        BY <3>2
      <4>2. ASSUME order[i] = id, NEW j \in 1 .. i - 1
            PROVE  buf.ranges[j].id \notin {NoNode, id}
        <5>1. j \in 1 .. Len(order) /\ j # i
          BY <3>1, <1>2
        <5>2. order[j] \in Nodes /\ order[j] # NoNode /\ buf.ranges[j].id = order[j]
          BY <5>1, <1>1, SlotFacts, NoNodeIsNoNode
        <5>3. order[j] # order[i]
          BY <5>1, <3>1 DEF BufferInv
        <5> QED
          BY <5>2, <5>3, <4>2
      <4> QED
        BY <4>1, <4>2, <3>2
    <3>4. SlotAt(i)' = [id |-> IF order[i] = id THEN NoNode ELSE order[i],
                        st |-> span[order[i]].st, end |-> span[order[i]].end]
      BY <3>1, <2>1, <1>1 DEF SlotAt
    <3> HIDE DEF Hit
    <3> QED
      BY <3>2, <3>3, <3>4
  <2>2. CASE i > Len(order)
    <3>1. buf.ranges[i] = FreeSlot /\ SlotAt(i)' = FreeSlot
      BY <2>2, <1>1, <1>2, SlotFacts DEF SlotAt
    <3>2. ~Hit(i)
      BY <3>1, <1>1 DEF FreeSlot
    <3> HIDE DEF Hit
    <3> QED
      BY <3>1, <3>2
  <2> QED
    BY <2>1, <2>2, <1>2
<1>6. buf' = [ranges |-> [i \in 1 .. Capacity |-> SlotAt(i)'], updates |-> EmptyStore]
  <2> HIDE DEF Hit
  <2> QED
    BY <1>4, <1>5
<1> QED
  BY <1>1, <1>6 DEF BufferInv

-----------------------------------------------------------------------------
(* The buffer of the code and the reference agree in every reachable state.*)
THEOREM BufferInvariant == BufferSpec => []BufferInv
<1>1. BufferInit => BufferInv
  BY EmptyBuffer
<1>2. BufferInv /\ [BufferNext]_bufferVars => BufferInv'
  <2> SUFFICES ASSUME BufferInv, [BufferNext]_bufferVars
               PROVE  BufferInv'
    OBVIOUS
  <2>1. ASSUME NEW id \in Nodes, NEW st \in Numbers, NEW end \in Numbers, Write(id, st, end)
        PROVE  BufferInv'
    BY <2>1, WriteKeeps
  <2>2. ASSUME NEW id \in Nodes, Delete(id)
        PROVE  BufferInv'
    BY <2>2, DeleteKeeps
  <2>3. CASE Recreate
    <3>1. BufferInit'
      BY <2>3 DEF Recreate, BufferInit
    <3> QED
      BY <3>1, EmptyBuffer, PTL
  <2>4. CASE UNCHANGED bufferVars
    BY <2>4 DEF bufferVars, BufferInv, SlotAt
  <2> QED
    BY <2>1, <2>2, <2>3, <2>4 DEF BufferNext
<1> QED
  BY <1>1, <1>2, PTL DEF BufferSpec

(* After any writes and up to one deletion, which is all a buffer meets,   *)
(* GetNodeRange finds exactly the nodes written and not deleted, each with *)
(* the last range written for it, although UpdateNodeRange, DeleteNodeRange *)
(* and GetNodeRange search the slots in three different ways.              *)
THEOREM LookupExact == BufferSpec => []LookupIsExact
<1>1. BufferInv => LookupIsExact
  <2> SUFFICES ASSUME BufferInv, NEW id \in Nodes
               PROVE  IF IndexesOf(id) # {} /\ id # deleted
                      THEN HasNodeRange(buf, id) /\ GetNodeRange(buf, id) = span[id]
                      ELSE ~HasNodeRange(buf, id)
    BY DEF LookupIsExact
  <2>1. DOMAIN buf.ranges = 1 .. Capacity
    BY SlotFacts
  <2>2. CASE IndexesOf(id) # {} /\ id # deleted
    <3>1. PICK i \in IndexesOf(id) : TRUE
      BY <2>2
    <3>2. i \in 1 .. Capacity /\ i \in 1 .. Len(order) /\ order[i] = id
      BY SlotFacts DEF IndexesOf
    <3>3. HasNodeRange(buf, id)
      BY <3>2, <2>1, <2>2, IdOfSlot DEF HasNodeRange
    <3>4. \A j \in SlotOf(buf, id) : j = i
      BY <2>2, SlotOfNode, OneIndex
    <3>5. i \in SlotOf(buf, id)
      BY <2>2, SlotOfNode
    <3>6. (CHOOSE j \in SlotOf(buf, id) : TRUE) = i
      BY <3>4, <3>5
    <3>7. GetNodeRange(buf, id) = Span(span[id].st, span[id].end)
      BY <3>2, <3>6, SlotFacts DEF GetNodeRange
    <3>8. span[id] \in UpdateRange
      BY DEF BufferInv
    <3>9. Span(span[id].st, span[id].end) = span[id]
      BY <3>8 DEF Span, UpdateRange
    <3> QED
      BY <2>2, <3>3, <3>7, <3>9
  <2>3. CASE ~(IndexesOf(id) # {} /\ id # deleted)
    BY <2>1, <2>3, IdOfSlot DEF HasNodeRange
  <2> QED
    BY <2>2, <2>3
<1> QED
  BY <1>1, BufferInvariant, PTL

(* NextNodeRange returns the nodes in the order in which they were first   *)
(* written, up to the deleted one: nothing is skipped before it and        *)
(* nothing is returned after it.                                           *)
THEOREM IterationPrefix == BufferSpec => []IterationIsPrefix
<1>1. BufferInv => IterationIsPrefix
  <2> SUFFICES ASSUME BufferInv
               PROVE  IterationIsPrefix
    OBVIOUS
  <2> DEFINE stop == IF IndexesOf(deleted) = {} THEN Len(order) + 1
                     ELSE CHOOSE i \in IndexesOf(deleted) : TRUE
  <2>1. DOMAIN buf.ranges = 1 .. Capacity /\ Len(order) \in 0 .. Capacity
    BY SlotFacts
  <2>2. /\ stop \in 1 .. Len(order) + 1
        /\ \A j \in 1 .. Len(order) : order[j] = deleted <=> j = stop
    <3>1. CASE IndexesOf(deleted) = {}
      BY <3>1, <2>1, SlotFacts DEF IndexesOf
    <3>2. CASE IndexesOf(deleted) # {}
      <4>1. stop \in IndexesOf(deleted)
        BY <3>2
      <4> HIDE DEF stop
      <4>2. stop \in 1 .. Len(order)
        BY <4>1, SlotFacts DEF IndexesOf
      <4>3. ASSUME NEW j \in 1 .. Len(order) PROVE order[j] = deleted <=> j = stop
        BY <4>1, SlotFacts, OneIndex DEF IndexesOf
      <4> QED
        BY <4>2, <4>3, <2>1
    <3> QED
      BY <3>1, <3>2
  <2> HIDE DEF stop
  <2>3. ASSUME NEW i \in 1 .. Capacity + 1
        PROVE  NextNodeRange(buf, i) = IF i < stop THEN order[i] ELSE NoNode
    <3>1. CASE i < stop
      <4>1. ASSUME NEW j \in 1 .. i
            PROVE  j \in 1 .. Capacity /\ order[j] \in Nodes /\ buf.ranges[j].id = order[j]
        <5>1. j \in 1 .. Len(order) /\ j # stop
          BY <3>1, <2>1, <2>2
        <5> QED
          BY <5>1, <2>2, SlotFacts
      <4>2. i \in 1 .. i
        OBVIOUS
      <4>3. i \in Visited(buf)
        BY <4>1, <4>2, <2>1, NoNodeIsNoNode DEF Visited
      <4> QED
        BY <3>1, <4>1, <4>2, <4>3 DEF NextNodeRange
    <3>2. CASE ~(i < stop)
      <4>1. stop \in 1 .. i
        BY <3>2, <2>1, <2>2, BufferAssumption
      <4>2. stop \in 1 .. Capacity => buf.ranges[stop].id = NoNode
        <5>1. CASE stop \in 1 .. Len(order)
          BY <5>1, <2>2, SlotFacts
        <5>2. CASE stop = Len(order) + 1
          <6>1. stop > Len(order)
            BY <5>2, <2>1
          <6> QED
            BY <6>1, SlotFacts DEF FreeSlot
        <5> QED
          BY <5>1, <5>2, <2>1, <2>2
      <4>3. i \notin Visited(buf)
        <5>1. i \in 1 .. Capacity => stop \in 1 .. Capacity
          BY <4>1, BufferAssumption
        <5> QED
          BY <5>1, <4>1, <4>2, <2>1 DEF Visited
      <4> QED
        BY <3>2, <4>3 DEF NextNodeRange
    <3> QED
      BY <3>1, <3>2
  <2> QED
    BY <2>3 DEF IterationIsPrefix, stop
<1> QED
  BY <1>1, BufferInvariant, PTL
=============================================================================
