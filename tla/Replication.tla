---------------------------- MODULE Replication ----------------------------
(***************************************************************************)
(* What QuiltDB promises of its replicated tables, without threads, batches *)
(* or messages.  An update is applied at once by the node that makes it.    *)
(* The others get to know it, each from its upstream node, which knows it   *)
(* then but need not have applied it.  A node gets to know the updates of   *)
(* each node to a table once each and in the order they were made, and      *)
(* applies what it knows key by key before it gets to know more.            *)
(***************************************************************************)
EXTENDS Integers

CONSTANTS
    Nodes, Tables, Keys,
    Downstream,  \* Downstream[n]: the node that n sends to, if any
    Updates      \* pairs <<node, index>>

VARIABLES
    known,       \* known[n][t][k][u]: how often u to key k has come to n
    replica      \* replica[n][t][k][u]: how often n has applied u to key k

absVars == <<known, replica>>

Nothing == [t \in Tables |-> [k \in Keys |-> [u \in Updates |-> 0]]]

Init == known = [n \in Nodes |-> Nothing] /\ replica = [n \in Nodes |-> Nothing]

(* The updates that node n knows of table t, each with its key.            *)
Known(n, t) == {p \in Keys \X Updates : known[n][t][p[1]][p[2]] > 0}

Made(u) == \E t \in Tables, k \in Keys : <<k, u>> \in Known(u[1], t)

(* The updates in S, to table t, come once more to what node n has.        *)
Plus(has, n, t, S) ==
    [has EXCEPT ![n][t] =
        [k \in Keys |-> [u \in Updates |->
            IF <<k, u>> \in S THEN @[k][u] + 1 ELSE @[k][u]]]]

(* Node n makes an update: the first one it has not made yet.              *)
Make(n) ==
    \E u \in Updates, t \in Tables, k \in Keys :
        /\ u[1] = n
        /\ ~Made(u)
        /\ \A v \in Updates : v[1] = n /\ v[2] < u[2] => Made(v)
        /\ known' = Plus(known, n, t, {<<k, u>>})
        /\ replica' = Plus(replica, n, t, {<<k, u>>})

(* S leaves no gap in the updates of any node to table t.                  *)
KeepsOrder(n, t, S) ==
    \A p \in S : \A q \in Known(p[2][1], t) :
        q[2][1] = p[2][1] /\ q[2][2] < p[2][2] => q \in Known(n, t) \cup S

(* Updates come from node m to n, which has applied all it knew.           *)
Deliver(m, n) ==
    /\ Downstream[m] = n
    /\ replica[n] = known[n]
    /\ \E t \in Tables : \E S \in SUBSET (Known(m, t) \ Known(n, t)) :
        /\ S # {}
        /\ KeepsOrder(n, t, S)
        /\ known' = Plus(known, n, t, S)
    /\ UNCHANGED replica

(* Node n applies all it knows of one key.                                 *)
ApplyKey(n) ==
    /\ \E t \in Tables, k \in Keys :
        replica' = [replica EXCEPT ![n][t][k] = known[n][t][k]]
    /\ UNCHANGED known

Next == \E n \in Nodes : Make(n) \/ ApplyKey(n) \/ \E m \in Nodes : Deliver(m, n)

Spec == Init /\ [][Next]_absVars
=============================================================================
