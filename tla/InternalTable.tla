---------------------------- MODULE InternalTable ----------------------------
(***************************************************************************)
(* internal_table: the values of the tables of a node.  storage[n][t] maps  *)
(* the keys present to their values; the concurrent hash map holds a lock   *)
(* on the key for the whole of IncRaw, so an increment is atomic.           *)
(***************************************************************************)
EXTENDS Wires

VARIABLE storage

InternalTableTypeOK == storage \in [Nodes -> [Tables -> Store]]

InternalTableInit ==
    storage = [n \in Nodes |-> [t \in Tables |-> EmptyStore]]

(* IncRaw: a missing key is inserted with value zero first.                *)
IncRaw(n, t, k, d) ==
    storage' = [storage EXCEPT ![n][t] = AddUpdate(@, k, d)]

(* Get: the value of the key, zero for a missing key (which it inserts; a  *)
(* present zero and a missing key cannot be told apart through the API).   *)
Get(n, t, k) == storage[n][t].val[k]
=============================================================================
