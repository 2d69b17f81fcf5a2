------------------------------ MODULE MCBuffer ------------------------------
(***************************************************************************)
(* Constants for BufferProtocol.                                            *)
(***************************************************************************)
EXTENDS BufferProtocol

Chain == [n \in Nodes |-> IF n + 1 \in Nodes THEN n + 1 ELSE NoNode]

EveryTable == [n \in Nodes |-> Tables]

NoTable == [n \in Nodes |-> {}]

WhereDownstream == EveryTable
=============================================================================
