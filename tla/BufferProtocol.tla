--------------------------- MODULE BufferProtocol ---------------------------
(***************************************************************************)
(* The life of the node ranges of a buffer, against a reference.  The       *)
(* propagator creates a buffer and writes ranges to it; the receiver may    *)
(* delete one range, its node's own, from what it received; then the paired *)
(* propagator iterates over what is left.  The reference is the list of the *)
(* nodes in the order in which they were first written, the last range      *)
(* written for each, and the node deleted.                                  *)
(***************************************************************************)
EXTENDS UpdateBuffer

CONSTANTS
    Capacity,    \* _node_range_capacity
    Numbers      \* bound: the sequence numbers used

ASSUME BufferAssumption ==
    /\ Capacity \in Nat
    /\ Numbers \subseteq Int

VARIABLES buf, order, span, deleted

bufferVars == <<buf, order, span, deleted>>

IndexesOf(id) == {i \in DOMAIN order : order[i] = id}

BufferInit ==
    /\ buf = CreateUpdateBuffer(EmptyStore, Capacity)
    /\ order = <<>>
    /\ span = [id \in Nodes |-> Span(-1, -1)]
    /\ deleted = NoNode

(* A full buffer refuses a node it does not have.                          *)
Write(id, st, end) ==
    /\ deleted = NoNode
    /\ buf' = UpdateNodeRange(buf, id, st, end)
    /\ IF IndexesOf(id) = {} /\ Len(order) = Capacity
       THEN UNCHANGED <<order, span>>
       ELSE /\ order' = IF IndexesOf(id) = {} THEN Append(order, id) ELSE order
            /\ span' = [span EXCEPT ![id] = Span(st, end)]
    /\ UNCHANGED deleted

Delete(id) ==
    /\ deleted = NoNode
    /\ buf' = DeleteNodeRange(buf, id)
    /\ deleted' = id
    /\ UNCHANGED <<order, span>>

Recreate ==
    /\ buf' = CreateUpdateBuffer(EmptyStore, Capacity)
    /\ order' = <<>>
    /\ span' = [id \in Nodes |-> Span(-1, -1)]
    /\ deleted' = NoNode

BufferNext ==
    \/ \E id \in Nodes, st \in Numbers, end \in Numbers : Write(id, st, end)
    \/ \E id \in Nodes : Delete(id)
    \/ Recreate

BufferSpec == BufferInit /\ [][BufferNext]_bufferVars

(* Lookup (GetNodeRange) finds exactly the nodes written and not deleted,  *)
(* each with the last range written for it.                                *)
LookupIsExact ==
    \A id \in Nodes :
        IF IndexesOf(id) # {} /\ id # deleted
        THEN HasNodeRange(buf, id) /\ GetNodeRange(buf, id) = span[id]
        ELSE ~HasNodeRange(buf, id)

(* The iteration (NextNodeRange) returns the nodes in the order in which   *)
(* they were first written, and all of them as long as none is deleted;    *)
(* the buffers of the propagator, built by concatenation in FlushSlots,    *)
(* rely on it.  After a deletion it returns those before the deleted one.  *)
IterationIsPrefix ==
    LET stop == IF IndexesOf(deleted) = {} THEN Len(order) + 1
                ELSE CHOOSE i \in IndexesOf(deleted) : TRUE
    IN  \A i \in 1 .. Capacity + 1 :
            NextNodeRange(buf, i) = IF i < stop THEN order[i] ELSE NoNode
=============================================================================
