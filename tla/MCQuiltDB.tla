------------------------------ MODULE MCQuiltDB ------------------------------
(***************************************************************************)
(* Small propagation graphs for TLC.                                        *)
(***************************************************************************)
EXTENDS Delivery

(* The two-node ring 0 -> 1 -> 0 and the three-node ring 0 -> 1 -> 2 -> 0. *)
Ring == [n \in Nodes |-> (n + 1) % Cardinality(Nodes)]

(* The chain 0 -> 1 -> ...; the last node has no downstream receiver.      *)
Chain == [n \in Nodes |-> IF n + 1 \in Nodes THEN n + 1 ELSE NoNode]

EveryTable == [n \in Nodes |-> Tables]

NoTable == [n \in Nodes |-> {}]

(* Tables that are forwarded wherever there is somewhere to forward to.    *)
WhereDownstream == [n \in Nodes |-> IF HasDownstream(n) THEN Tables ELSE {}]
=============================================================================
