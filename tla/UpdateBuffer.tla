---------------------------- MODULE UpdateBuffer ----------------------------
(***************************************************************************)
(* utils/memstruct: the flat buffer that carries one batch of updates of    *)
(* one table, and with it the range of sequence numbers of every node whose *)
(* updates were aggregated into the batch.                                  *)
(*                                                                          *)
(* The node ranges are an array of slots; a slot whose id is negative is    *)
(* free.  The loops below are written as the choice of the slot at which    *)
(* the loop of the code stops.                                              *)
(***************************************************************************)
EXTENDS QuiltCommon

UpdateRange == [st : Int, end : Int]

(* The ranges of the peers of a node: of the peers seen so far.            *)
PeerRanges == [known : SUBSET Nodes, range : [Nodes -> UpdateRange]]

Slot == [id : Nodes \cup {NoNode}, st : Int, end : Int]

Buffer == [ranges : Seq(Slot), updates : Store]

FreeSlot == [id |-> NoNode, st |-> -1, end |-> -1]

Span(st, end) == [st |-> st, end |-> end]

(* Mutant of Advance: the start stays.                                     *)
NoAdvance(r) == r

(* What is left of a range once its updates are in a buffer: st_ passes    *)
(* end_.                                                                   *)
Advance(r) == Span(r.end + 1, r.end)

(* UpdateRange::Contains.                                                  *)
Contains(r, s) == r.st <= s.st /\ r.end >= s.end

(* CreateUpdateBuffer, then AppendUpdate for each key of updates.          *)
CreateUpdateBuffer(updates, capacity) ==
    [ranges |-> [i \in 1 .. capacity |-> FreeSlot], updates |-> updates]

(* The first slot of a node (of NoNode: the first free slot), as a set of  *)
(* at most one index.                                                      *)
SlotOf(b, id) ==
    {i \in DOMAIN b.ranges :
        /\ b.ranges[i].id = id
        /\ \A j \in 1 .. i - 1 : b.ranges[j].id # id}

(* Mutant of TargetSlot: always the first free slot.                       *)
FirstFreeSlot(b, id) == SlotOf(b, NoNode)

(* UpdateNodeRange: the slot of the node if there is one, else the first   *)
(* free slot; the call fails (-1) when there is neither.                   *)
TargetSlot(b, id) ==
    IF SlotOf(b, id) # {} THEN SlotOf(b, id) ELSE SlotOf(b, NoNode)

UpdateNodeRange(b, id, st, end) ==
    [b EXCEPT !.ranges = [i \in DOMAIN b.ranges |->
        IF i \in TargetSlot(b, id)
        THEN [id |-> id, st |-> st, end |-> end] ELSE b.ranges[i]]]

(* Mutant of DeleteNodeRange: the slot is not marked free.                 *)
DeleteNothing(b, id) == b

(* DeleteNodeRange: the search gives up at the first free slot; the slot   *)
(* found is freed, its range is left in place.                             *)
DeleteNodeRange(b, id) ==
    [b EXCEPT !.ranges = [i \in DOMAIN b.ranges |->
        IF /\ b.ranges[i].id = id
           /\ \A j \in 1 .. i - 1 : b.ranges[j].id \notin {NoNode, id}
        THEN [b.ranges[i] EXCEPT !.id = NoNode] ELSE b.ranges[i]]]

(* GetNodeRange: searches all slots.                                       *)
HasNodeRange(b, id) == \E i \in DOMAIN b.ranges : b.ranges[i].id = id

GetNodeRange(b, id) ==
    LET i == CHOOSE i \in SlotOf(b, id) : TRUE
    IN  Span(b.ranges[i].st, b.ranges[i].end)

(* The slots that StartNodeRangeIteration and the calls of NextNodeRange   *)
(* return.  The loop meant to skip free slots tests that the iterator is   *)
(* past the slots, which it never is: the iteration ends at the first free *)
(* slot.                                                                   *)
Visited(b) ==
    {i \in DOMAIN b.ranges : \A j \in 1 .. i : b.ranges[j].id # NoNode}

(* What the i-th call of NextNodeRange returns.                            *)
NextNodeRange(b, i) == IF i \in Visited(b) THEN b.ranges[i].id ELSE NoNode

(* GetUpdate, for all keys of a store: none of the lookups returns NULL.   *)
HasUpdates(b, updates) == updates.keys \subseteq b.updates.keys
=============================================================================
