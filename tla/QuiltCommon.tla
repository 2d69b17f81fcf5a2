---------------------------- MODULE QuiltCommon ----------------------------
(***************************************************************************)
(* The configuration of a propagation graph of QuiltDB and the data that    *)
(* flows along it.                                                          *)
(*                                                                          *)
(* A logical node is one Propagator/Receiver pair (a process runs two       *)
(* unconnected pairs, a horizontal and a vertical one).  Each propagator    *)
(* sends to the receiver of at most one downstream node.                    *)
(*                                                                          *)
(* Data abstraction.  A table value is an element of a commutative group,   *)
(* combined with the application's vadd and vsub.  Every Inc of a behaviour *)
(* is a distinct token <<node, index>>, and a value is the function giving  *)
(* the multiplicity of each token: the free commutative group, in which two *)
(* values agree only if they were made from the same updates.               *)
(***************************************************************************)
EXTENDS Integers, FiniteSets, Sequences

CONSTANTS
    Nodes,        \* node ids, my_id_
    Downstream,   \* Downstream[n]: node whose receiver n sends to, or NoNode
    Tables,       \* table ids
    Loop,         \* Loop[n]: tables created with loop_ on node n
    Forward,      \* Forward[n]: tables created with forward_updates_
    Apply,        \* Apply[n]: tables created with apply_updates_
    Batched,      \* nodes whose batch interval nanosec_ is positive
    Threads,      \* application threads of a node
    Main,         \* the application thread that calls ShutDown
    Writers,      \* nodes whose application calls Inc
    Closers,      \* nodes whose application calls ShutDown
    Keys,         \* the int64_t keys the application uses
    KeyHalf,      \* 2^31, scaled down: an int32_t is in -KeyHalf..KeyHalf-1
    MaxInc        \* bound: the number of Incs of a node

NoNode == -1

ASSUME NodesAssumption ==
    /\ Nodes \subseteq Nat
    /\ IsFiniteSet(Nodes)

ASSUME GraphAssumption ==
    /\ Downstream \in [Nodes -> Nodes \cup {NoNode}]
    /\ \A n \in Nodes : Downstream[n] # n

ASSUME TablesAssumption ==
    /\ Loop \in [Nodes -> SUBSET Tables]
    /\ Forward \in [Nodes -> SUBSET Tables]
    /\ Apply \in [Nodes -> SUBSET Tables]

ASSUME ApplicationAssumption ==
    /\ Main \in Threads
    /\ Batched \subseteq Nodes
    /\ Writers \subseteq Nodes
    /\ Closers \subseteq Nodes
    /\ Keys \subseteq Int
    /\ KeyHalf \in Nat \ {0}
    /\ MaxInc \in Nat

(* Keys are int64_t and a process has finitely many threads, so that the   *)
(* updates under all keys and in the pipes of all threads can be counted.  *)
ASSUME FiniteAssumption == IsFiniteSet(Keys) /\ IsFiniteSet(Threads)

(* The peers a receiver waits for: num_expected_propagators_.              *)
Upstream(n) == {m \in Nodes : Downstream[m] = n}

HasDownstream(n) == Downstream[n] # NoNode

(***************************************************************************)
(* Keys.  Table::Inc takes an int64_t, Propagator::Inc an int32_t: the      *)
(* conversion keeps the low 32 bits, as a two's-complement number.          *)
(***************************************************************************)
NarrowKey(k) == ((k + KeyHalf) % (2 * KeyHalf)) - KeyHalf

AllKeys == Keys \cup {NarrowKey(k) : k \in Keys}

(***************************************************************************)
(* Values and stores.  A store maps the keys present to values; the value   *)
(* of a key that is not present counts as zero.                             *)
(***************************************************************************)
Updates == Nodes \X (0 .. MaxInc - 1)

Value == [Updates -> Int]

Zero == [u \in Updates |-> 0]

Delta(u) == [v \in Updates |-> IF v = u THEN 1 ELSE 0]

VAdd(a, b) == [u \in Updates |-> a[u] + b[u]]

VSub(a, b) == [u \in Updates |-> a[u] - b[u]]

Store == [keys : SUBSET AllKeys, val : [AllKeys -> Value]]

EmptyStore == [keys |-> {}, val |-> [k \in AllKeys |-> Zero]]

(* Adding a delta to a store: a missing key is inserted with value zero.   *)
AddUpdate(s, k, d) ==
    [keys |-> s.keys \cup {k}, val |-> [s.val EXCEPT ![k] = VAdd(@, d)]]

(* Mutant of AddUpdates: the new delta replaces the old one.               *)
OverwriteUpdates(s, updates) ==
    [keys |-> s.keys \cup updates.keys,
     val  |-> [k \in AllKeys |->
                IF k \in updates.keys THEN updates.val[k] ELSE s.val[k]]]

(* The same for every key of another store.                                *)
AddUpdates(s, updates) ==
    [keys |-> s.keys \cup updates.keys,
     val  |-> [k \in AllKeys |-> VAdd(s.val[k], updates.val[k])]]

(* What is left of a store without one of its keys.                        *)
Without(s, k) ==
    [keys |-> s.keys \ {k}, val |-> [s.val EXCEPT ![k] = Zero]]

(* Mutant of SubUpdates: nothing is removed.                               *)
SubNothing(s, updates) == s

(* Removing the deltas of another store, whose keys must be present.       *)
SubUpdates(s, updates) ==
    [s EXCEPT !.val = [k \in AllKeys |-> VSub(s.val[k], updates.val[k])]]
=============================================================================
