--------------------------- MODULE DeliveryProofs ---------------------------
(***************************************************************************)
(* What becomes of an update, in every graph without a ring: no table ever  *)
(* holds it twice, none is lost between two nodes that run, and the tables  *)
(* are replicas that see the updates of each node in order.                 *)
(*                                                                          *)
(* The argument rests on the account of TreeProofs.  What is on the way     *)
(* from node a to its downstream node d and what has come to d is never     *)
(* more than what has come to a, and as much as that while the two run.     *)
(* (What has come to a node is in its table, or its receiver is about to    *)
(* apply it: the receiver forwards a buffer before it applies it.)          *)
(* An update keeps its key, and the places on the way from a node are in    *)
(* line: an earlier update of the same node is never behind a later one.    *)
(***************************************************************************)
EXTENDS TreeProofs

-----------------------------------------------------------------------------
(* No update is applied twice.                                             *)

(* Update u of table t went from its node to the nodes of w, one after the *)
(* other: each of them has it once, in its table or on to the next; nobody *)
(* else has it, and who does not forward the table sends only its own.     *)
Next1(w, a) == IF Downstream[a] \in Nodes THEN w[Downstream[a]] ELSE 0

OnceBy(w, t, u) ==
    /\ \A a \in Nodes : w[a] \in {0, 1}
    /\ \A a \in Nodes :
        Reached(a, t, u) = IF a = u[1] \/ t \in Apply[a] THEN w[a] ELSE 0
    /\ \A a \in Nodes \ Reach(u[1]) : w[a] = 0 /\ OnTheWay(a, t, u) = 0
    /\ \A a \in Reach(u[1]) : OnTheWay(a, t, u) + Next1(w, a) <= w[a]
    /\ \A a \in Nodes : (a # u[1] /\ t \notin Forward[a]) => OnTheWay(a, t, u) = 0
    /\ u[2] >= incs[u[1]] => w[u[1]] = 0

Once == \A t \in Tables, u \in Updates : \E w \in [Nodes -> {0, 1}] : OnceBy(w, t, u)

OnceInv == FlowInv /\ Counts /\ Once

(* The node and the number of an update.                                   *)
LEMMA UpdateParts ==
    ASSUME NEW u \in Updates
    PROVE  u[1] \in Nodes /\ u[2] \in Nat /\ u = <<u[1], u[2]>>
BY ApplicationAssumption DEF Updates

(* Nothing happens.                                                        *)
LEMMA OnceRests ==
    ASSUME Counted, Counted', Rests, NEW t \in Tables, NEW u \in Updates,
           NEW w \in [Nodes -> {0, 1}], OnceBy(w, t, u)
    PROVE  OnceBy(w, t, u)'
<1>1. \A a \in Nodes :
        /\ Reached(a, t, u)' = Reached(a, t, u) /\ OnTheWay(a, t, u)' <= OnTheWay(a, t, u)
        /\ OnTheWay(a, t, u) \in Nat /\ OnTheWay(a, t, u)' \in Nat
        /\ incs'[a] = incs[a]
  BY DEF Rests, AllSteady, Steady, Counted
<1>2. u[1] \in Nodes /\ Reach(u[1]) \subseteq Nodes
  BY UpdateParts, Graph
<1>3. \A a \in Nodes : Next1(w, a) \in Nat /\ w[a] \in Nat
  BY DEF Next1
<1>4. ASSUME NEW a \in Nodes \ Reach(u[1]) PROVE w[a] = 0 /\ OnTheWay(a, t, u)' = 0
  <2>1. w[a] = 0 /\ OnTheWay(a, t, u) = 0
    BY DEF OnceBy
  <2> QED
    BY <1>1, <2>1
<1>5. ASSUME NEW a \in Reach(u[1]) PROVE OnTheWay(a, t, u)' + Next1(w, a) <= w[a]
  <2>1. OnTheWay(a, t, u) + Next1(w, a) <= w[a]
    BY DEF OnceBy
  <2> QED
    BY <1>1, <1>2, <1>3, <2>1
<1>6. u[2] >= incs'[u[1]] => w[u[1]] = 0
  BY <1>1, <1>2 DEF OnceBy
<1>7. \A a \in Nodes :
        Reached(a, t, u)' = IF a = u[1] \/ t \in Apply[a] THEN w[a] ELSE 0
  BY <1>1 DEF OnceBy
<1>8. \A a \in Nodes : w[a] \in {0, 1}
  OBVIOUS
<1>9. ASSUME NEW a \in Nodes, a # u[1], t \notin Forward[a] PROVE OnTheWay(a, t, u)' = 0
  <2>1. OnTheWay(a, t, u) = 0
    BY <1>9 DEF OnceBy
  <2> QED
    BY <1>1, <2>1
<1> QED
  BY <1>4, <1>5, <1>6, <1>7, <1>8, <1>9 DEF OnceBy, Next1

(* An account in which nothing changes.                                    *)
LEMMA OnceSame ==
    ASSUME NEW t \in Tables, NEW u \in Updates, NEW w \in [Nodes -> {0, 1}], OnceBy(w, t, u),
           \A a \in Nodes : /\ Reached(a, t, u)' = Reached(a, t, u)
                            /\ OnTheWay(a, t, u)' = OnTheWay(a, t, u),
           u[2] >= incs'[u[1]] => u[2] >= incs[u[1]]
    PROVE  OnceBy(w, t, u)'
<1>1. u[1] \in Nodes /\ Reach(u[1]) \subseteq Nodes
  BY UpdateParts, Graph
<1> QED
  BY <1>1 DEF OnceBy, Next1

(* An update is made.                                                      *)
LEMMA OnceBegins ==
    ASSUME Counted, NoRing, NEW n \in Nodes, NEW t0 \in Tables, Begins(n, t0),
           \A a \in Nodes : incs[a] \in Nat,
           NEW t \in Tables, NEW u \in Updates, NEW w \in [Nodes -> {0, 1}], OnceBy(w, t, u)
    PROVE  \E v \in [Nodes -> {0, 1}] : OnceBy(v, t, u)'
<1>1. /\ u[1] \in Nodes /\ Reach(u[1]) \subseteq Nodes /\ u[1] \in Reach(u[1])
      /\ u[2] \in Nat /\ u = <<u[1], u[2]>>
  BY UpdateParts, Graph
<1>2. \A a \in Nodes : Reached(a, t, u) \in Nat /\ OnTheWay(a, t, u) \in Nat
  BY DEF Counted
<1>3. CASE ~(t = t0 /\ u = NewToken(n))
  <2>1. \A a \in Nodes : /\ Reached(a, t, u)' = Reached(a, t, u)
                         /\ OnTheWay(a, t, u)' = OnTheWay(a, t, u)
    BY <1>2, <1>3 DEF Begins, Makes
  <2>2. u[2] >= incs'[u[1]] => u[2] >= incs[u[1]]
    BY <1>1 DEF Begins
  <2> QED
    BY <2>1, <2>2, OnceSame
<1>4. CASE t = t0 /\ u = NewToken(n)
  <2>1. u[1] = n /\ u[2] = incs[n]
    BY <1>4 DEF NewToken
  <2>2. w[n] = 0 /\ OnTheWay(n, t, u) + Next1(w, n) <= w[n]
    BY <1>1, <2>1 DEF OnceBy, Begins
  <2>3. OnTheWay(n, t, u) = 0 /\ Next1(w, n) = 0
    <3>1. Next1(w, n) \in Nat
      BY DEF Next1
    <3> QED
      BY <1>2, <2>2, <3>1
  <2>4. PICK v \in [Nodes -> {0, 1}] : v = [w EXCEPT ![n] = 1]
    OBVIOUS
  <2>5. v[n] = 1 /\ \A a \in Nodes \ {n} : v[a] = w[a]
    BY <2>4
  <2>6. \A a \in Reach(n) : Downstream[a] # n
    BY TreeStraight
  <2>7. \A a \in Reach(n) : Next1(v, a) = Next1(w, a)
    BY <1>1, <2>5, <2>6 DEF Next1
  <2>8. /\ Reached(n, t, u)' = Reached(n, t, u) + 1 /\ OnTheWay(n, t, u)' = OnTheWay(n, t, u) + 1
        /\ \A a \in Nodes \ {n} : /\ Reached(a, t, u)' = Reached(a, t, u)
                                  /\ OnTheWay(a, t, u)' = OnTheWay(a, t, u)
    BY <1>2, <1>4 DEF Begins, Makes
  <2>9. Reached(n, t, u) = 0
    BY <2>1, <2>2 DEF OnceBy
  <2>10. ASSUME NEW a \in Nodes
         PROVE  Reached(a, t, u)' = IF a = u[1] \/ t \in Apply[a] THEN v[a] ELSE 0
    BY <2>1, <2>5, <2>8, <2>9 DEF OnceBy
  <2>11. ASSUME NEW a \in Nodes \ Reach(u[1]) PROVE v[a] = 0 /\ OnTheWay(a, t, u)' = 0
    BY <1>1, <2>1, <2>5, <2>8 DEF OnceBy
  <2>12. ASSUME NEW a \in Reach(u[1]) PROVE OnTheWay(a, t, u)' + Next1(v, a) <= v[a]
    <3>1. CASE a = n
      BY <2>1, <2>3, <2>5, <2>7, <2>8, <3>1
    <3>2. CASE a # n
      BY <1>1, <2>1, <2>5, <2>7, <2>8, <3>2 DEF OnceBy
    <3> QED
      BY <3>1, <3>2
  <2>13. ~(u[2] >= incs'[u[1]])
    BY <1>1, <2>1 DEF Begins
  <2>14. \A a \in Nodes : (a # u[1] /\ t \notin Forward[a]) => OnTheWay(a, t, u)' = 0
    BY <2>1, <2>8 DEF OnceBy
  <2> QED
    BY <2>10, <2>11, <2>12, <2>13, <2>14 DEF OnceBy, Next1
<1> QED
  BY <1>3, <1>4

(* A buffer goes from node m to node n.                                    *)
LEMMA OnceArrives ==
    ASSUME Counted, NoRing, NEW n \in Nodes, NEW m \in Nodes, NEW x, Arrives(n, m, x),
           NEW t \in Tables, NEW u \in Updates, NEW w \in [Nodes -> {0, 1}], OnceBy(w, t, u)
    PROVE  \E v \in [Nodes -> {0, 1}] : OnceBy(v, t, u)'
<1>1. /\ u[1] \in Nodes /\ Reach(u[1]) \subseteq Nodes /\ Fed(u[1]) \subseteq Reach(u[1])
      /\ Downstream[m] = n /\ m # n /\ incs' = incs
  BY UpdateParts, Graph, GraphAssumption DEF Arrives, Comes
<1>2. \A a \in Nodes : Reached(a, t, u) \in Nat /\ OnTheWay(a, t, u) \in Nat
  BY DEF Counted
<1>3. PICK c : c = InMessage(x, t, u)
  OBVIOUS
<1>4. /\ c \in Nat /\ c <= OnTheWay(m, t, u)
      /\ OnTheWay(m, t, u)' = OnTheWay(m, t, u) - c /\ Reached(m, t, u)' = Reached(m, t, u)
      /\ OnTheWay(n, t, u)' =
            OnTheWay(n, t, u) + (IF Accepts(n, x) /\ t \in Forward[n] THEN c ELSE 0)
      /\ Reached(n, t, u)' =
            Reached(n, t, u) + (IF Accepts(n, x) /\ t \in Apply[n] THEN c ELSE 0)
      /\ \A a \in Nodes \ {m, n} : /\ OnTheWay(a, t, u)' = OnTheWay(a, t, u)
                                   /\ Reached(a, t, u)' = Reached(a, t, u)
  BY <1>3 DEF Arrives, Comes, Came
<1>5. CASE c = 0
  <2>1. \A a \in Nodes : /\ Reached(a, t, u)' = Reached(a, t, u)
                         /\ OnTheWay(a, t, u)' = OnTheWay(a, t, u)
    BY <1>2, <1>4, <1>5
  <2> QED
    BY <1>1, <2>1, OnceSame
<1>6. CASE c # 0
  <2>1. m \in Reach(u[1])
    BY <1>2, <1>4, <1>6 DEF OnceBy
  <2>2. n \in Reach(u[1]) /\ n # u[1]
    BY <1>1, <2>1, TreeStraight DEF Fed
  <2>3. OnTheWay(m, t, u) + w[n] <= w[m] /\ OnTheWay(n, t, u) + Next1(w, n) <= w[n]
    BY <1>1, <2>1, <2>2 DEF OnceBy, Next1
  <2>4. c = 1 /\ OnTheWay(m, t, u) = 1 /\ w[n] = 0 /\ w[m] = 1
    BY <1>2, <1>4, <1>6, <2>3
  <2>5. OnTheWay(n, t, u) = 0 /\ Next1(w, n) = 0
    <3>1. Next1(w, n) \in Nat
      BY DEF Next1
    <3> QED
      BY <1>2, <2>3, <2>4, <3>1
  <2>6. PICK v \in [Nodes -> {0, 1}] : v = [w EXCEPT ![n] = IF Accepts(n, x) THEN 1 ELSE 0]
    OBVIOUS
  <2>7. v[n] = (IF Accepts(n, x) THEN 1 ELSE 0) /\ \A a \in Nodes \ {n} : v[a] = w[a]
    BY <2>6
  <2>8. \A a \in Reach(u[1]) \ {m} : Next1(v, a) = Next1(w, a)
    <3>1. \A a \in Reach(u[1]) \ {m} : Downstream[a] # n
      BY <1>1, <2>1, TreeStraight DEF Straight
    <3> QED
      BY <1>1, <2>7, <3>1 DEF Next1
  <2>9. Reached(n, t, u) = 0
    BY <2>2, <2>4 DEF OnceBy
  <2>10. ASSUME NEW a \in Nodes
         PROVE  Reached(a, t, u)' = IF a = u[1] \/ t \in Apply[a] THEN v[a] ELSE 0
    <3>1. CASE a = n
      BY <1>4, <2>2, <2>4, <2>7, <2>9, <3>1
    <3>2. CASE a # n
      BY <1>4, <2>7, <3>2 DEF OnceBy
    <3> QED
      BY <3>1, <3>2
  <2>11. ASSUME NEW a \in Nodes \ Reach(u[1]) PROVE v[a] = 0 /\ OnTheWay(a, t, u)' = 0
    BY <1>4, <2>1, <2>2, <2>7 DEF OnceBy
  <2>12. ASSUME NEW a \in Reach(u[1]) PROVE OnTheWay(a, t, u)' + Next1(v, a) <= v[a]
    <3>1. CASE a = n
      BY <1>1, <1>4, <2>2, <2>4, <2>5, <2>7, <2>8, <3>1
    <3>2. CASE a = m
      BY <1>1, <1>4, <2>4, <2>7, <3>2 DEF Next1
    <3>3. CASE a # n /\ a # m
      BY <1>1, <1>4, <2>7, <2>8, <3>3 DEF OnceBy
    <3> QED
      BY <3>1, <3>2, <3>3
  <2>13. u[2] >= incs'[u[1]] => v[u[1]] = 0
    BY <1>1, <2>2, <2>7 DEF OnceBy
  <2>14. ASSUME NEW a \in Nodes, a # u[1], t \notin Forward[a] PROVE OnTheWay(a, t, u)' = 0
    <3>1. OnTheWay(a, t, u) = 0
      BY <2>14 DEF OnceBy
    <3> QED
      BY <1>2, <1>4, <2>4, <2>14, <3>1
  <2> QED
    BY <2>10, <2>11, <2>12, <2>13, <2>14 DEF OnceBy, Next1
<1> QED
  BY <1>5, <1>6

(* Initially nobody has anything.                                          *)
LEMMA OnceInit == Init => OnceInv
<1> SUFFICES ASSUME Init PROVE Once
  BY FlowInit, CountsInit DEF OnceInv
<1> SUFFICES ASSUME NEW t \in Tables, NEW u \in Updates
             PROVE  \E w \in [Nodes -> {0, 1}] : OnceBy(w, t, u)
  BY DEF Once
<1>1. PICK w \in [Nodes -> {0, 1}] : w = [a \in Nodes |-> 0]
  OBVIOUS
<1>2. \A a \in Nodes : Reached(a, t, u) = 0 /\ OnTheWay(a, t, u) = 0
  BY CountsInit
<1>3. u[1] \in Nodes /\ Reach(u[1]) \subseteq Nodes
  BY UpdateParts, Graph
<1> QED
  BY <1>1, <1>2, <1>3 DEF OnceBy, Next1

(* Every step.                                                             *)
LEMMA OnceKept ==
    ASSUME NoRing, OnceInv, [Next]_vars
    PROVE  OnceInv'
<1>1. FlowInv /\ FlowInv' /\ Counts
  BY FlowStep DEF OnceInv
<1>2. Counts'
  BY <1>1, CountsStep
<1>3. Counted /\ Counted'
  BY <1>1, <1>2, AllCounted, NextCounted DEF FlowInv, ShutdownInv
<1>4. \A a \in Nodes : incs[a] \in Nat
  <2>1. incs \in [Nodes -> 0 .. MaxInc]
    BY <1>1 DEF FlowInv, ShutdownInv, TypeInv, TypeOK, ApplicationTypeOK
  <2> QED
    BY <2>1, ApplicationAssumption
<1>5. ASSUME NEW t \in Tables, NEW u \in Updates
      PROVE  \E v \in [Nodes -> {0, 1}] : OnceBy(v, t, u)'
  <2>1. PICK w \in [Nodes -> {0, 1}] : OnceBy(w, t, u)
    BY DEF OnceInv, Once
  <2>2. CASE Rests
    BY <1>3, <2>1, <2>2, OnceRests
  <2>3. ASSUME NEW n \in Nodes, NEW t0 \in Tables, Begins(n, t0)
        PROVE  \E v \in [Nodes -> {0, 1}] : OnceBy(v, t, u)'
    BY <1>3, <1>4, <2>1, <2>3, OnceBegins
  <2>4. ASSUME NEW n \in Nodes, NEW m \in Nodes, NEW x, Arrives(n, m, x)
        PROVE  \E v \in [Nodes -> {0, 1}] : OnceBy(v, t, u)'
    BY <1>3, <2>1, <2>4, OnceArrives
  <2> QED
    BY <1>1, <2>2, <2>3, <2>4, Account DEF Counts
<1>6. Once'
  BY <1>5 DEF Once
<1> QED
  BY <1>1, <1>2, <1>6 DEF OnceInv

(* What has reached a table is applied, or the receiver is applying it.    *)
LEMMA AppliedOfReached ==
    ASSUME NEW a \in Nodes, LoopInv(a), NEW t \in Tables, NEW u \in Updates
    PROVE  /\ Reached(a, t, u) = Applied(a, t, u) + InStore(toApply[a][t], u)
           /\ Applied(a, t, u) \in Nat /\ InStore(toApply[a][t], u) \in Nat
           /\ Applying(a, t, u) = InStore(toApply[a][t], u)
<1>1. NatStore(storage[a][t]) /\ NatStore(toApply[a][t])
  BY DEF LoopInv
<1>2. Applied(a, t, u) = InStore(storage[a][t], u)
  BY DEF Applied, Get, InStore
<1>3. rPc[a] # "apply" => InStore(toApply[a][t], u) = 0
  BY EmptyCount DEF LoopInv
<1>4. InStore(storage[a][t], u) \in Nat /\ InStore(toApply[a][t], u) \in Nat
  BY <1>1, StoreCount
<1> QED
  BY <1>2, <1>3, <1>4, KnownCount DEF Applying

(* The updates of no node come back to it, so that no table ever holds one *)
(* twice: whatever the threads of the nodes do, whoever shuts down, and    *)
(* whichever tables are applied, forwarded or batched where.               *)
THEOREM TreesApplyOnce == NoRing => (Spec => []AppliedAtMostOnce)
<1> SUFFICES ASSUME NoRing PROVE Spec => []AppliedAtMostOnce
  OBVIOUS
<1>1. OnceInv => AppliedAtMostOnce
  <2> SUFFICES ASSUME OnceInv, NEW n \in Nodes, NEW t \in Tables, NEW u \in Updates
               PROVE  Applied(n, t, u) \in {0, 1}
    BY DEF AppliedAtMostOnce
  <2>1. PICK w \in [Nodes -> {0, 1}] : OnceBy(w, t, u)
    BY DEF OnceInv, Once
  <2>2. Reached(n, t, u) \in {0, 1}
    BY <2>1 DEF OnceBy
  <2>3. LoopInv(n)
    BY DEF OnceInv, Counts, NatInv, StoresNat
  <2>4. /\ Reached(n, t, u) = Applied(n, t, u) + InStore(toApply[n][t], u)
        /\ Applied(n, t, u) \in Nat /\ InStore(toApply[n][t], u) \in Nat
    BY <2>3, AppliedOfReached
  <2> QED
    BY <2>2, <2>4
<1> QED
  BY <1>1, OnceInit, OnceKept, PTL DEF Spec

-----------------------------------------------------------------------------
(* What carries an update carries a range of its node, so that no receiver *)
(* takes it for empty.                                                     *)

Labelled(x) == \A u \in Updates : InStore(x.buff.updates, u) # 0 => Has(x, u[1])

(* The next buffer of table t of node a will have a range of p.            *)
Covers(a, t, p) == (p = a /\ HasOwnRange(a, t)) \/ p \in NewPeers(a, t)

CarriedAt(a) ==
    /\ \A x \in Buffs(tcp[a]) \cup Buffs(outBuff[a]) \cup Buffs(fwdPipe[a]) : Labelled(x)
    /\ \A x \in Buffs(outBuff[a]) : updateStore[a][x.table] = EmptyStore
    /\ \A t \in Tables, u \in Updates :
        InStore(updateStore[a][t], u) # 0 => Covers(a, t, u[1])
    /\ \A t \in Tables, p \in Nodes :
        Known(a, t, p) => First(a, t, p) <= Merged(a, t, p) + 1

(* The threads of a node hand over updates of their node.                  *)
OwnThreads(a) ==
    \A t \in Tables, u \in Updates : FromThreads(a, t, u) # 0 => u[1] = a

Carried == \A a \in Nodes : CarriedAt(a) /\ OwnThreads(a)

CarriedInv == TreeInv /\ Counts /\ Carried

(* A peer with numbers that were not sent.                                 *)
LEMMA PeerIsNew ==
    ASSUME NEW a, NEW t, NEW p
    PROVE  p \in NewPeers(a, t) <=> (Known(a, t, p) /\ First(a, t, p) <= Merged(a, t, p))
BY DEF NewPeers, Known, First, Merged

(* The part of a node that a step does not touch.                          *)
LEMMA CarriedSame ==
    ASSUME NEW a \in Nodes, CarriedAt(a),
           Buffs(tcp'[a]) \subseteq Buffs(tcp[a]), Buffs(fwdPipe'[a]) \subseteq Buffs(fwdPipe[a]),
           outBuff'[a] = outBuff[a],
           \A t \in Tables : /\ updateStore'[a][t] \in {updateStore[a][t], EmptyStore}
                             /\ peerUpdateRange'[a][t] = peerUpdateRange[a][t]
                             /\ myUpdateRange'[a][t] = myUpdateRange[a][t],
           \A x \in Buffs(outBuff[a]) : x.table \in Tables
    PROVE  CarriedAt(a)'
<1>1. \A x \in Buffs(tcp'[a]) \cup Buffs(outBuff'[a]) \cup Buffs(fwdPipe'[a]) : Labelled(x)
  BY DEF CarriedAt
<1>2. \A x \in Buffs(outBuff'[a]) : updateStore'[a][x.table] = EmptyStore
  BY DEF CarriedAt
<1>3. ASSUME NEW t \in Tables, NEW u \in Updates, InStore(updateStore'[a][t], u) # 0
      PROVE  Covers(a, t, u[1])'
  <2>1. InStore(updateStore[a][t], u) # 0
    BY <1>3, EmptyCount
  <2>2. Covers(a, t, u[1])
    BY <2>1 DEF CarriedAt
  <2> QED
    BY <2>2 DEF Covers, HasOwnRange, NewPeers
<1>4. \A t \in Tables, p \in Nodes :
        Known(a, t, p)' => First(a, t, p)' <= Merged(a, t, p)' + 1
  BY DEF CarriedAt, Known, First, Merged
<1> QED
  BY <1>1, <1>2, <1>3, <1>4 DEF CarriedAt, Labelled, Has

(* Updates of threads.                                                     *)
LEMMA CarriedPut ==
    ASSUME CarriedInv, NEW n \in Nodes, NEW th \in Threads, NEW m, PutDoes(n, th, m),
           pState[n] = "RUN"
    PROVE  CarriedAt(n)'
<1>1. FlowInv /\ TypeInv /\ PipeTypes /\ BuffersInv(n) /\ CarriedAt(n) /\ OwnThreads(n) /\ NatInv(n)
  BY FlowParts DEF CarriedInv, TreeInv, RecordsInv, Carried, Counts
<1>2. PICK t0 : t0 = m.table
  OBVIOUS
<1>3. /\ t0 \in Tables /\ m.key \in AllKeys /\ m.delta \in Value /\ m.type = "EPUpdateLog"
      /\ pPc[n] = "poll" /\ logPipe[n][th] # <<>> /\ m = Head(logPipe[n][th])
      /\ UNCHANGED <<fwdPipe, tcp, outBuff, peerUpdateRange>>
      /\ updateStore'[n][t0] = (IF n \in Batched
            THEN AddUpdate(updateStore[n][t0], m.key, m.delta) ELSE updateStore[n][t0])
      /\ myUpdateRange'[n][t0].st = myUpdateRange[n][t0].st
      /\ myUpdateRange'[n][t0].end = myUpdateRange[n][t0].end + 1
      /\ \A s \in Tables \ {t0} : /\ updateStore'[n][s] = updateStore[n][s]
                                  /\ myUpdateRange'[n][s] = myUpdateRange[n][s]
  BY <1>2 DEF PutDoes
<1>4. Buffs(outBuff[n]) = {}
  BY <1>1, <1>3, ShortPipe DEF BuffersInv
<1>5. HasOwnRange(n, t0)'
  <2>1. myUpdateRange[n][t0].st \in Int /\ myUpdateRange[n][t0].end \in Int
    BY <1>1, <1>3, FlowParts
  <2>2. myUpdateRange[n][t0].st <= myUpdateRange[n][t0].end + 1
    BY <1>1, <1>3 DEF BuffersInv
  <2> QED
    BY <1>3, <2>1, <2>2 DEF HasOwnRange
<1>6. NatMsg(m) /\ \A u \in Updates : m.delta[u] \in Nat /\ (m.delta[u] # 0 => u[1] = n)
  <2>1. PICK q : q = logPipe[n][th]
    OBVIOUS
  <2>2. q \in Seq(LogMsg) /\ NatPipe(q) /\ q # <<>> /\ m = Head(q) /\ m = q[1] /\ 1 \in 1 .. Len(q)
    BY <1>1, <1>3, <2>1 DEF PipeTypes, NatInv, ThreadsNat
  <2>3. NatMsg(m)
    BY <2>2 DEF NatPipe
  <2>4. ASSUME NEW u \in Updates, m.delta[u] # 0 PROVE u[1] = n
    <3>1. InMessage(m, t0, u) = m.delta[u] /\ m.delta[u] \in Nat
      BY <1>2, <1>3, <2>3, MessageCount DEF NatMsg
    <3>2. InMessage(m, t0, u) <= InPipe(q, t0, u)
      BY <2>2, PipeCount
    <3>3. /\ InPipe(pend[n][th], t0, u) \in Nat /\ InPipe(q, t0, u) \in Nat
          /\ InPipe(pend[n][th], t0, u) + InPipe(q, t0, u) <= FromThreads(n, t0, u)
          /\ FromThreads(n, t0, u) \in Nat
      BY <1>1, <1>3, <2>1, WayCount
    <3>4. FromThreads(n, t0, u) # 0
      BY <2>4, <3>1, <3>2, <3>3
    <3> QED
      BY <1>1, <1>3, <3>4 DEF OwnThreads
  <2> QED
    BY <1>3, <2>3, <2>4 DEF NatMsg
<1>7. ASSUME NEW t \in Tables, NEW u \in Updates, InStore(updateStore'[n][t], u) # 0
      PROVE  Covers(n, t, u[1])'
  <2>1. CASE t = t0
    <3>1. CASE u[1] = n
      BY <1>5, <2>1, <3>1 DEF Covers
    <3>2. CASE u[1] # n
      <4>1. m.delta[u] = 0
        BY <1>6, <3>2
      <4>2. NatStore(updateStore[n][t0])
        BY <1>1, <1>3 DEF NatInv, StoresNat
      <4>3. InStore(AddUpdate(updateStore[n][t0], m.key, m.delta), u)
                = InStore(updateStore[n][t0], u) + m.delta[u]
        BY <1>3, <1>6, <4>2, AddCount
      <4>4. InStore(updateStore[n][t0], u) \in Nat
        BY <4>2, StoreCount
      <4>5. InStore(updateStore[n][t0], u) # 0
        BY <1>3, <1>7, <2>1, <4>1, <4>3, <4>4
      <4>6. u[1] \in NewPeers(n, t0)
        BY <1>1, <1>3, <3>2, <4>5 DEF CarriedAt, Covers
      <4> QED
        BY <1>3, <2>1, <4>6 DEF Covers, NewPeers
    <3> QED
      BY <3>1, <3>2
  <2>2. CASE t # t0
    <3>1. Covers(n, t, u[1])
      BY <1>1, <1>3, <1>7, <2>2 DEF CarriedAt
    <3> QED
      BY <1>3, <2>2, <3>1 DEF Covers, HasOwnRange, NewPeers
  <2> QED
    BY <2>1, <2>2
<1>8. \A x \in Buffs(tcp'[n]) \cup Buffs(outBuff'[n]) \cup Buffs(fwdPipe'[n]) : Labelled(x)
  BY <1>1, <1>3 DEF CarriedAt
<1>9. \A t \in Tables, p \in Nodes : Known(n, t, p)' => First(n, t, p)' <= Merged(n, t, p)' + 1
  BY <1>1, <1>3 DEF CarriedAt, Known, First, Merged
<1> QED
  BY <1>3, <1>4, <1>7, <1>8, <1>9 DEF CarriedAt, Labelled, Has

(* A batch.                                                                *)
LEMMA CarriedFlush ==
    ASSUME CarriedInv, NEW n \in Nodes, NEW t0 \in Tables, NEW x, FlushDoes(n, t0, x)
    PROVE  CarriedAt(n)'
<1>1. FlowInv /\ CarriedAt(n)
  BY DEF CarriedInv, TreeInv, RecordsInv, Carried
<1>2. /\ UNCHANGED <<tcp, fwdPipe, myUpdateRange>>
      /\ outBuff'[n] = <<x>> /\ updateStore'[n][t0] = EmptyStore /\ x.table = t0 /\ IsBuff(x)
      /\ x.buff.updates = updateStore[n][t0]
      /\ \A s \in Tables \ {t0} : /\ peerUpdateRange'[n][s] = peerUpdateRange[n][s]
                                  /\ updateStore'[n][s] = updateStore[n][s]
      /\ \A p \in Nodes : Has(x, p) <=> p \in NewPeers(n, t0) \/ (p = n /\ HasOwnRange(n, t0))
  BY DEF FlushDoes
<1>3. Buffs(outBuff'[n]) = {x}
  BY <1>2, ShortPipe
<1>4. Labelled(x)
  <2> SUFFICES ASSUME NEW u \in Updates, InStore(updateStore[n][t0], u) # 0 PROVE Has(x, u[1])
    BY <1>2 DEF Labelled
  <2>1. Covers(n, t0, u[1]) /\ u[1] \in Nodes
    BY <1>1, UpdateParts DEF CarriedAt
  <2> QED
    BY <1>2, <2>1 DEF Covers
<1>5. ASSUME NEW t \in Tables, NEW u \in Updates, InStore(updateStore'[n][t], u) # 0
      PROVE  Covers(n, t, u[1])'
  <2>1. t # t0
    BY <1>2, <1>5, EmptyCount
  <2>2. Covers(n, t, u[1])
    BY <1>1, <1>2, <1>5, <2>1 DEF CarriedAt
  <2> QED
    BY <1>2, <2>1, <2>2 DEF Covers, HasOwnRange, NewPeers
<1>6. ASSUME NEW t \in Tables, NEW p \in Nodes, Known(n, t, p)'
      PROVE  First(n, t, p)' <= Merged(n, t, p)' + 1
  <2>1. CASE t # t0
    BY <1>1, <1>2, <1>6, <2>1 DEF CarriedAt, Known, First, Merged
  <2>2. CASE t = t0 /\ p \in NewPeers(n, t0)
    <3>1. Merged(n, t0, p)' = Merged(n, t0, p) /\ First(n, t0, p)' = Merged(n, t0, p) + 1
      BY <2>2 DEF FlushDoes
    <3>2. Merged(n, t0, p) \in Int
      BY <1>1, FlowParts
    <3> QED
      BY <2>2, <3>1, <3>2
  <2>3. CASE t = t0 /\ p \notin NewPeers(n, t0)
    <3>1. /\ Known(n, t0, p)
          /\ peerUpdateRange'[n][t0].range[p] = peerUpdateRange[n][t0].range[p]
      BY <1>6, <2>3 DEF FlushDoes
    <3> QED
      BY <1>1, <2>3, <3>1 DEF CarriedAt, First, Merged
  <2> QED
    BY <2>1, <2>2, <2>3
<1>7. \A y \in Buffs(tcp'[n]) \cup Buffs(outBuff'[n]) \cup Buffs(fwdPipe'[n]) : Labelled(y)
  BY <1>1, <1>2, <1>3, <1>4 DEF CarriedAt
<1> QED
  BY <1>2, <1>3, <1>5, <1>6, <1>7 DEF CarriedAt, Labelled, Has

(* Its sending.                                                            *)
LEMMA CarriedSend ==
    ASSUME CarriedInv, NEW n \in Nodes, NEW x, SendDoes(n, x)
    PROVE  CarriedAt(n)'
<1>1. FlowInv /\ CarriedAt(n)
  BY DEF CarriedInv, TreeInv, RecordsInv, Carried
<1>2. /\ UNCHANGED <<fwdPipe, peerUpdateRange, updateStore>>
      /\ Buffs(outBuff[n]) = {x} /\ outBuff'[n] = <<>> /\ x.table \in Tables
      /\ \A s \in Tables \ {x.table} : myUpdateRange'[n][s] = myUpdateRange[n][s]
      /\ Buffs(tcp'[n]) \subseteq Buffs(tcp[n]) \cup {x}
  BY DEF SendDoes, Pushes
<1>3. Buffs(outBuff'[n]) = {} /\ updateStore[n][x.table] = EmptyStore
  BY <1>1, <1>2, ShortPipe DEF CarriedAt
<1>4. ASSUME NEW t \in Tables, NEW u \in Updates, InStore(updateStore'[n][t], u) # 0
      PROVE  Covers(n, t, u[1])'
  <2>1. t # x.table
    BY <1>2, <1>3, <1>4, EmptyCount
  <2>2. Covers(n, t, u[1])
    BY <1>1, <1>2, <1>4 DEF CarriedAt
  <2> QED
    BY <1>2, <2>1, <2>2 DEF Covers, HasOwnRange, NewPeers
<1>5. \A y \in Buffs(tcp'[n]) \cup Buffs(outBuff'[n]) \cup Buffs(fwdPipe'[n]) : Labelled(y)
  BY <1>1, <1>2, <1>3 DEF CarriedAt
<1>6. \A t \in Tables, p \in Nodes : Known(n, t, p)' => First(n, t, p)' <= Merged(n, t, p)' + 1
  BY <1>1, <1>2 DEF CarriedAt, Known, First, Merged
<1> QED
  BY <1>3, <1>4, <1>5, <1>6 DEF CarriedAt, Labelled, Has

(* A buffer of another node.                                               *)
LEMMA CarriedMerge ==
    ASSUME CarriedInv, NoRing, NEW n \in Nodes, MergeStep(n), NEW x, x = Head(fwdPipe[n]),
           MergeDoes(n, x), pState[n] = "RUN"
    PROVE  CarriedAt(n)'
<1>1. /\ TreeInv /\ FlowInv /\ TypeInv /\ BuffersInv(n) /\ CarriedAt(n) /\ NatInv(n)
      /\ TreeNode(n)
  BY FlowParts DEF CarriedInv, TreeInv, RecordsInv, Carried, Counts
<1>2. PICK t0 : t0 = x.table
  OBVIOUS
<1>3. /\ t0 \in Tables /\ x.buff \in Buffer /\ fwdPipe[n] # <<>> /\ fwdPipe[n] \in Seq(FwdMsg)
      /\ IsBuff(x) /\ updateStore'[n][t0] = AddUpdates(updateStore[n][t0], x.buff.updates)
      /\ \A s \in Tables \ {t0} : updateStore'[n][s] = updateStore[n][s]
  BY <1>1, <1>2, MergeAdds
<1>4. /\ pPc[n] = "poll" /\ UNCHANGED <<tcp, outBuff, myUpdateRange>>
      /\ x \in Buffs(fwdPipe[n]) /\ Buffs(fwdPipe[n]) = Buffs(fwdPipe'[n]) \cup {x}
      /\ \A s \in Tables \ {t0} : peerUpdateRange'[n][s] = peerUpdateRange[n][s]
      /\ \A p \in Nodes :
            /\ p \in Shown(x) =>
                /\ Has(x, p) /\ Known(n, t0, p)'
                /\ Merged(n, t0, p)' = To(x, p)
                /\ First(n, t0, p)' = IF Known(n, t0, p) THEN First(n, t0, p) ELSE From(x, p)
            /\ p \notin Shown(x) =>
                /\ Known(n, t0, p)' <=> Known(n, t0, p)
                /\ peerUpdateRange'[n][t0].range[p] = peerUpdateRange[n][t0].range[p]
  BY <1>2 DEF MergeDoes, Pops
<1>5. Buffs(outBuff[n]) = {}
  BY <1>1, <1>4, ShortPipe DEF BuffersInv
<1>6. Solid(x.buff) /\ Labelled(x)
  BY <1>1, <1>4 DEF TreeNode, CarriedAt
<1>7. \A p \in Nodes : Has(x, p) => p \in Shown(x)
  BY <1>3, <1>6, SolidShows DEF Has, Shown
<1>8. /\ \A p \in Nodes : First(n, t0, p) \in Int /\ Merged(n, t0, p) \in Int
      /\ \A p \in Nodes : Has(x, p) =>
            From(x, p) \in Nat /\ To(x, p) \in Nat /\ From(x, p) <= To(x, p)
  <2>1. \A y \in Buffs(fwdPipe[n]) : \A p \in Nodes : Has(y, p) =>
            From(y, p) \in Nat /\ To(y, p) \in Nat /\ From(y, p) <= To(y, p)
    BY <1>1, FlowParts
  <2> QED
    BY <1>1, <1>3, <1>4, <2>1, FlowParts
<1>9. ASSUME NEW p \in Nodes, Has(x, p)
      PROVE  Known(n, t0, p)' /\ First(n, t0, p)' <= Merged(n, t0, p)'
  <2>1. From(x, p) = Merged(n, t0, p) + 1
    BY <1>1, <1>2, <1>9, MergeContinues
  <2>2. From(x, p) \in Int /\ To(x, p) \in Int /\ From(x, p) <= To(x, p)
    BY <1>8, <1>9
  <2>3. Known(n, t0, p) => First(n, t0, p) <= Merged(n, t0, p) + 1
    BY <1>1, <1>3 DEF CarriedAt
  <2> QED
    BY <1>4, <1>7, <1>8, <1>9, <2>1, <2>2, <2>3
<1>10. ASSUME NEW p \in Nodes, ~Has(x, p)
       PROVE  /\ Known(n, t0, p)' <=> Known(n, t0, p)
              /\ First(n, t0, p)' = First(n, t0, p) /\ Merged(n, t0, p)' = Merged(n, t0, p)
  BY <1>4, <1>10 DEF First, Merged
<1>11. ASSUME NEW p \in Nodes, Covers(n, t0, p) \/ Has(x, p) PROVE Covers(n, t0, p)'
  <2>1. CASE p = n /\ HasOwnRange(n, t0)
    BY <1>4, <2>1 DEF Covers, HasOwnRange
  <2>2. CASE Has(x, p)
    BY <1>9, <2>2 DEF Covers, NewPeers, Known, First, Merged
  <2>3. CASE p \in NewPeers(n, t0) /\ ~Has(x, p)
    BY <1>10, <2>3 DEF Covers, NewPeers, Known, First, Merged
  <2> QED
    BY <1>11, <2>1, <2>2, <2>3 DEF Covers
<1>12. NatStore(updateStore[n][t0]) /\ NatStore(x.buff.updates)
  <2>1. NatPipe(fwdPipe[n]) /\ NatStore(updateStore[n][t0])
    BY <1>1, <1>3 DEF NatInv, PipesNat, StoresNat
  <2>2. x = fwdPipe[n][1] /\ 1 \in 1 .. Len(fwdPipe[n])
    BY <1>3
  <2>3. NatMsg(x)
    BY <2>1, <2>2 DEF NatPipe
  <2> QED
    BY <1>3, <2>1, <2>3 DEF NatMsg, IsBuff
<1>13. ASSUME NEW t \in Tables, NEW u \in Updates, InStore(updateStore'[n][t], u) # 0
       PROVE  Covers(n, t, u[1])'
  <2>1. CASE t = t0
    <3>1. InStore(updateStore'[n][t0], u) = InStore(updateStore[n][t0], u) + InStore(x.buff.updates, u)
      BY <1>3, <1>12, AddAllCount
    <3>2. InStore(updateStore[n][t0], u) # 0 \/ InStore(x.buff.updates, u) # 0
      BY <1>13, <2>1, <3>1
    <3>3. u[1] \in Nodes /\ (Covers(n, t0, u[1]) \/ Has(x, u[1]))
      BY <1>1, <1>3, <1>6, <3>2, UpdateParts DEF CarriedAt, Labelled
    <3> QED
      BY <1>11, <2>1, <3>3
  <2>2. CASE t # t0
    <3>1. Covers(n, t, u[1])
      BY <1>1, <1>3, <1>13, <2>2 DEF CarriedAt
    <3> QED
      BY <1>4, <2>2, <3>1 DEF Covers, HasOwnRange, NewPeers
  <2> QED
    BY <2>1, <2>2
<1>14. ASSUME NEW t \in Tables, NEW p \in Nodes, Known(n, t, p)'
       PROVE  First(n, t, p)' <= Merged(n, t, p)' + 1
  <2>1. CASE t # t0
    BY <1>1, <1>4, <1>14, <2>1 DEF CarriedAt, Known, First, Merged
  <2>2. CASE t = t0 /\ Has(x, p)
    <3>1. Merged(n, t0, p)' = To(x, p) /\ To(x, p) \in Int /\ From(x, p) \in Int
      BY <1>4, <1>7, <1>8, <2>2
    <3>2. First(n, t0, p)' \in Int
      BY <1>4, <1>7, <1>8, <2>2, <3>1
    <3> QED
      BY <1>9, <2>2, <3>1, <3>2
  <2>3. CASE t = t0 /\ ~Has(x, p)
    BY <1>1, <1>10, <1>14, <2>3 DEF CarriedAt
  <2> QED
    BY <2>1, <2>2, <2>3
<1>15. \A y \in Buffs(tcp'[n]) \cup Buffs(outBuff'[n]) \cup Buffs(fwdPipe'[n]) : Labelled(y)
  BY <1>1, <1>4 DEF CarriedAt
<1> QED
  BY <1>4, <1>5, <1>13, <1>14, <1>15 DEF CarriedAt, Labelled, Has

(* Its reception.                                                          *)
LEMMA CarriedTake ==
    ASSUME CarriedInv, NoRing, NEW n \in Nodes, NEW m \in Nodes, NEW x, TakeDoes(n, m, x),
           NEW a \in Nodes
    PROVE  CarriedAt(a)'
<1>1. TreeInv /\ FlowInv /\ CarriedAt(a) /\ CarriedAt(m)
  BY DEF CarriedInv, TreeInv, RecordsInv, Carried
<1>2. /\ x \in Buffs(tcp[m]) /\ Buffs(tcp[m]) = Buffs(tcp'[m]) \cup {x}
      /\ UNCHANGED <<outBuff, peerUpdateRange, myUpdateRange, updateStore>>
      /\ \A b \in Nodes \ {m} : tcp'[b] = tcp[b]
      /\ \A b \in Nodes \ {n} : fwdPipe'[b] = fwdPipe[b]
  BY DEF TakeDoes, Pops
<1>3. \/ fwdPipe'[n] = fwdPipe[n]
      \/ \E y : y.buff = x.buff /\ Buffs(fwdPipe'[n]) = Buffs(fwdPipe[n]) \cup {y}
  BY DEF TakeDoes, Pushes
<1>4. Labelled(x)
  BY <1>1, <1>2 DEF CarriedAt
<1>5. \A y \in Buffs(tcp'[a]) \cup Buffs(outBuff'[a]) : Labelled(y)
  <2>1. Buffs(tcp'[a]) \subseteq Buffs(tcp[a])
    BY <1>2
  <2> QED
    BY <1>1, <1>2, <2>1 DEF CarriedAt
<1>6. \A y \in Buffs(fwdPipe'[a]) : Labelled(y)
  <2>1. \A y : y.buff = x.buff => Labelled(y)
    BY <1>4 DEF Labelled, Has
  <2> QED
    BY <1>1, <1>2, <1>3, <2>1 DEF CarriedAt
<1>7. /\ \A p : \A t \in Tables : Covers(a, t, p)' <=> Covers(a, t, p)
      /\ \A t \in Tables, p \in Nodes :
            (Known(a, t, p)' <=> Known(a, t, p)) /\ First(a, t, p)' = First(a, t, p)
                /\ Merged(a, t, p)' = Merged(a, t, p)
  BY <1>2 DEF Covers, HasOwnRange, NewPeers, Known, First, Merged
<1> QED
  BY <1>1, <1>2, <1>5, <1>6, <1>7 DEF CarriedAt, Labelled, Has

(* A node where a step changes nothing that matters here.                  *)
LEMMA CarriedElse ==
    ASSUME CarriedInv, NEW a \in Nodes,
           tcp'[a] = tcp[a], fwdPipe'[a] = fwdPipe[a], outBuff'[a] = outBuff[a],
           \A t \in Tables : /\ updateStore'[a][t] = updateStore[a][t]
                             /\ peerUpdateRange'[a][t] = peerUpdateRange[a][t]
                             /\ myUpdateRange'[a][t] = myUpdateRange[a][t]
    PROVE  CarriedAt(a)'
<1>1. CarriedAt(a) /\ FlowInv
  BY DEF CarriedInv, TreeInv, RecordsInv, Carried
<1>2. \A x \in Buffs(outBuff[a]) : x.table \in Tables
  BY <1>1, FlowParts
<1> QED
  BY <1>1, <1>2, CarriedSame

(* Every step, at every node.                                              *)
LEMMA CarriedStep ==
    ASSUME CarriedInv, NoRing, NEW a \in Nodes, [Next]_vars
    PROVE  CarriedAt(a)'
<1>1. TreeInv /\ FlowInv /\ TypeInv /\ CarriedAt(a)
  BY DEF CarriedInv, TreeInv, RecordsInv, FlowInv, ShutdownInv, Carried
<1>2. CASE Idle
  <2>1. /\ UNCHANGED <<outBuff, peerUpdateRange, myUpdateRange>>
        /\ Buffs(tcp'[a]) = Buffs(tcp[a]) /\ Buffs(fwdPipe'[a]) = Buffs(fwdPipe[a])
        /\ \A t \in Tables : updateStore'[a][t] \in {updateStore[a][t], EmptyStore}
    BY <1>2 DEF Idle, IdleAt, Keeps
  <2>2. \A x \in Buffs(outBuff[a]) : x.table \in Tables
    BY <1>1, FlowParts
  <2> QED
    BY <1>1, <2>1, <2>2, CarriedSame
<1>3. ASSUME NEW n \in Nodes, NEW th \in Threads, LogStep(n, th) PROVE CarriedAt(a)'
  <2>1. PutStep(n, th) /\ pState[n] = "RUN"
    BY <1>3 DEF LogStep, PutStep
  <2>2. PICK m : PutDoes(n, th, m)
    BY <1>1, <2>1, PutEffect
  <2>3. CASE a = n
    BY <2>1, <2>2, <2>3, CarriedPut
  <2>4. CASE a # n
    BY <2>2, <2>4, CarriedElse DEF PutDoes
  <2> QED
    BY <2>3, <2>4
<1>4. ASSUME NEW n \in Nodes, NEW t \in Tables, FlushStep(n, t) PROVE CarriedAt(a)'
  <2>1. PICK x : FlushDoes(n, t, x)
    BY <1>1, <1>4, FlushEffect
  <2>2. CASE a = n
    BY <2>1, <2>2, CarriedFlush
  <2>3. CASE a # n
    BY <2>1, <2>3, CarriedElse DEF FlushDoes
  <2> QED
    BY <2>2, <2>3
<1>5. ASSUME NEW n \in Nodes, SendStep(n) PROVE CarriedAt(a)'
  <2>1. PICK x : SendDoes(n, x)
    BY <1>1, <1>5, SendEffect
  <2>2. CASE a = n
    <3>1. HasDownstream(n)
      BY <1>1, <2>1 DEF TreeInv, TreeNode, SendDoes
    <3> QED
      BY <2>1, <2>2, CarriedSend
  <2>3. CASE a # n
    BY <2>1, <2>3, CarriedElse DEF SendDoes
  <2> QED
    BY <2>2, <2>3
<1>6. ASSUME NEW n \in Nodes, MergeStep(n) PROVE CarriedAt(a)'
  <2>1. PICK x : MergeDoes(n, x) /\ x = Head(fwdPipe[n])
    BY <1>1, <1>6, MergeEffect
  <2>2. CASE a = n /\ pState[n] = "RUN"
    BY <1>6, <2>1, <2>2, CarriedMerge
  <2>3. CASE a = n /\ pState[n] # "RUN"
    <3>1. /\ UNCHANGED <<tcp, outBuff, myUpdateRange>>
          /\ Buffs(fwdPipe'[a]) \subseteq Buffs(fwdPipe[a])
          /\ \A t \in Tables : /\ updateStore'[a][t] = updateStore[a][t]
                               /\ peerUpdateRange'[a][t] = peerUpdateRange[a][t]
      BY <2>1, <2>3 DEF MergeDoes, Pops
    <3>2. \A y \in Buffs(outBuff[a]) : y.table \in Tables
      BY <1>1, FlowParts
    <3> QED
      BY <1>1, <3>1, <3>2, CarriedSame
  <2>4. CASE a # n
    BY <2>1, <2>4, CarriedElse DEF MergeDoes
  <2> QED
    BY <2>2, <2>3, <2>4
<1>7. ASSUME NEW n \in Nodes, RecordStep(n) PROVE CarriedAt(a)'
  <2>1. PICK m : RecordDoes(n, m)
    BY <1>1, <1>7, RecordEffect
  <2> QED
    BY <2>1, CarriedElse DEF RecordDoes
<1>8. ASSUME NEW n \in Nodes, NEW m \in Nodes, TakeStep(n, m) PROVE CarriedAt(a)'
  <2>1. PICK x : TakeDoes(n, m, x)
    BY <1>1, <1>8, TakeEffect
  <2> QED
    BY <2>1, CarriedTake
<1>9. \A n \in Nodes : ~DedupStep(n)
  BY <1>1, DedupNever
<1> QED
  BY <1>1, <1>2, <1>3, <1>4, <1>5, <1>6, <1>7, <1>8, <1>9, FlowSteps

(* The threads hand over what they made.                                   *)
LEMMA OwnThreadsStep ==
    ASSUME FlowInv, FlowInv', NoRing, Counts, Counts', NEW a \in Nodes, OwnThreads(a), [Next]_vars
    PROVE  OwnThreads(a)'
<1> SUFFICES ASSUME NEW t \in Tables, NEW u \in Updates, FromThreads(a, t, u)' # 0
             PROVE  u[1] = a
  BY DEF OwnThreads
<1>1. Counted /\ Counted'
  BY AllCounted, NextCounted DEF FlowInv, ShutdownInv
<1>2. FromThreads(a, t, u) \in Nat /\ FromThreads(a, t, u)' \in Nat
  BY <1>1 DEF Counted
<1>3. FromThreads(a, t, u) # 0 => u[1] = a
  BY DEF OwnThreads
<1>4. CASE Rests
  <2>1. FromThreads(a, t, u)' <= FromThreads(a, t, u)
    BY <1>4 DEF Rests, AllSteady, Steady
  <2> QED
    BY <1>2, <1>3, <2>1
<1>5. ASSUME NEW n \in Nodes, NEW t0 \in Tables, Begins(n, t0) PROVE u[1] = a
  <2>1. FromThreads(a, t, u)' = FromThreads(a, t, u)
            + (IF a = n /\ t = t0 /\ u = NewToken(n) THEN 1 ELSE 0)
    BY <1>5 DEF Begins, Makes
  <2>2. NewToken(n)[1] = n
    BY DEF NewToken
  <2> QED
    BY <1>2, <1>3, <2>1, <2>2
<1>6. ASSUME NEW n \in Nodes, NEW m \in Nodes, NEW x, Arrives(n, m, x) PROVE u[1] = a
  BY <1>3, <1>6 DEF Arrives, Comes
<1> QED
  BY <1>4, <1>5, <1>6, Account DEF Counts

(* Initially nothing carries anything.                                     *)
LEMMA CarriedInit == Init => CarriedInv
<1> SUFFICES ASSUME Init PROVE CarriedInv
  OBVIOUS
<1>1. TreeInv /\ Counts
  BY TreeInit, CountsInit
<1>2. ASSUME NEW a \in Nodes
      PROVE  /\ tcp[a] = <<>> /\ outBuff[a] = <<>> /\ fwdPipe[a] = <<>>
             /\ \A th \in Threads : pend[a][th] = <<>> /\ logPipe[a][th] = <<>>
             /\ \A t \in Tables :
                /\ updateStore[a][t] = EmptyStore
                /\ \A p \in Nodes : peerUpdateRange[a][t].range[p] = Span(0, -1)
  BY DEF Init, WiresInit, PropagatorInit, ApplicationInit
<1>3. Span(0, -1).st = 0 /\ Span(0, -1).end = -1
  BY DEF Span
<1>4. ASSUME NEW a \in Nodes PROVE CarriedAt(a)
  <2>1. Buffs(tcp[a]) = {} /\ Buffs(outBuff[a]) = {} /\ Buffs(fwdPipe[a]) = {}
    BY <1>2, ShortPipe
  <2>2. \A t \in Tables, u \in Updates : InStore(updateStore[a][t], u) = 0
    BY <1>2, EmptyCount
  <2>3. \A t \in Tables, p \in Nodes : First(a, t, p) <= Merged(a, t, p) + 1
    BY <1>2, <1>3 DEF First, Merged
  <2> QED
    BY <2>1, <2>2, <2>3 DEF CarriedAt
<1>5. ASSUME NEW a \in Nodes PROVE OwnThreads(a)
  <2> SUFFICES ASSUME NEW t \in Tables, NEW u \in Updates PROVE FromThreads(a, t, u) = 0
    BY DEF OwnThreads
  <2>1. TypeInv /\ NatInv(a) /\ OnTheWay(a, t, u) = 0
    BY <1>1, CountsInit DEF TreeInv, RecordsInv, FlowInv, ShutdownInv, Counts
  <2>2. /\ FromThreads(a, t, u) \in Nat /\ InPipe(fwdPipe[a], t, u) \in Nat
        /\ InStore(updateStore[a][t], u) \in Nat
        /\ InPipe(outBuff[a], t, u) \in Nat /\ InPipe(tcp[a], t, u) \in Nat
    BY <2>1, WayCount
  <2> QED
    BY <2>1, <2>2 DEF OnTheWay
<1> QED
  BY <1>1, <1>4, <1>5 DEF CarriedInv, Carried

(* The invariant is kept.                                                  *)
LEMMA CarriedKept ==
    ASSUME NoRing, QuietSinks, CarriedInv, [Next]_vars
    PROVE  CarriedInv'
<1>1. TreeInv /\ FlowInv /\ Counts
  BY DEF CarriedInv, TreeInv, RecordsInv
<1>2. TreeInv' /\ FlowInv'
  <2>1. TreeInv'
    BY <1>1, TreeStep
  <2> QED
    BY <2>1 DEF TreeInv, RecordsInv
<1>3. Counts'
  BY <1>1, <1>2, CountsStep
<1>4. ASSUME NEW a \in Nodes PROVE CarriedAt(a)' /\ OwnThreads(a)'
  <2>1. OwnThreads(a)
    BY DEF CarriedInv, Carried
  <2> QED
    BY <1>1, <1>2, <1>3, <2>1, CarriedStep, OwnThreadsStep
<1> QED
  BY <1>2, <1>3, <1>4 DEF CarriedInv, Carried

-----------------------------------------------------------------------------
(* Nothing is lost or doubled.                                             *)

(* Who receives the updates of another node applies what it forwards.      *)
AppliesForwarded ==
    \A a \in Nodes : HasDownstream(a) => Forward[Downstream[a]] \subseteq Apply[Downstream[a]]

(* Every node that sends has a batch interval; whoever receives applies    *)
(* every table, and forwards every table if it sends on.                   *)
Complete ==
    \A a \in Nodes : HasDownstream(a) =>
        /\ a \in Batched /\ Apply[Downstream[a]] = Tables
        /\ HasDownstream(Downstream[a]) => Forward[Downstream[a]] = Tables

(* Node a sends the updates u of table t, and d applies them.              *)
Carries(a, d, t, u) ==
    /\ Downstream[a] = d /\ a \in Reach(u[1]) /\ a \in Batched
    /\ a = u[1] \/ t \in Forward[a]
    /\ t \in Apply[d]

(* What has reached a is on its way to d or has reached it.                *)
Exact(a, d, t, u) ==
    (Carries(a, d, t, u) /\ pState[a] = "RUN" /\ rState[d] = "RUN")
        => Reached(a, t, u) = OnTheWay(a, t, u) + Reached(d, t, u)

AllExact == \A a \in Nodes, d \in Nodes, t \in Tables, u \in Updates : Exact(a, d, t, u)

ExactInv == CarriedInv /\ AllExact

(* A buffer goes from node m to node n, with update u of table t or not.   *)
LEMMA ArrivesWith ==
    ASSUME CarriedInv, NoRing, NEW n \in Nodes, NEW m \in Nodes, NEW x, Arrives(n, m, x),
           NEW t \in Tables, NEW u \in Updates, InMessage(x, t, u) # 0
    PROVE  /\ m \in Reach(u[1]) /\ x.table = t
           /\ Accepts(n, x) <=> rState[n] = "RUN"
           /\ \A a \in Reach(u[1]) : Downstream[a] = n => a = m
<1>1. FlowInv /\ CarriedAt(m) /\ NatInv(m) /\ BuffersInv(m) /\ PipeTypes
  BY FlowParts DEF CarriedInv, TreeInv, RecordsInv, Carried, Counts
<1>2. Downstream[m] = n /\ x \in Buffs(tcp[m]) /\ ~Has(x, n) /\ u[1] \in Nodes
  BY UpdateParts DEF Arrives, Comes
<1>3. NatMsg(x) /\ IsBuff(x)
  <2>1. PICK i \in 1 .. Len(tcp[m]) : x = tcp[m][i]
    BY <1>2 DEF Buffs
  <2> QED
    BY <1>1, <1>2, <2>1 DEF NatInv, PipesNat, NatPipe, Buffs
<1>4. InMessage(x, t, u) = IF x.table = t THEN InStore(x.buff.updates, u) ELSE 0
  BY <1>3, MessageCount
<1>5. x.table = t /\ Has(x, u[1])
  <2>1. Labelled(x)
    BY <1>1, <1>2 DEF CarriedAt
  <2> QED
    BY <1>4, <2>1 DEF Labelled
<1>6. Solid(x.buff) /\ x.buff \in Buffer
  BY <1>1, <1>2, FlowParts DEF BuffersInv
<1>7. HasForeignRange(n, x.buff)
  BY <1>2, <1>5, <1>6, SolidShows DEF Has
<1>8. m \in Reach(u[1])
  BY <1>1, <1>2, <1>5, FlowParts DEF PlacesInv
<1>9. \A a \in Reach(u[1]) : Downstream[a] = n => a = m
  BY <1>2, <1>8, TreeStraight DEF Straight
<1> QED
  BY <1>5, <1>7, <1>8, <1>9 DEF Accepts

(* Every step, for every pair of neighbours.                               *)
LEMMA ExactStep ==
    ASSUME CarriedInv, CarriedInv', NoRing, AppliesForwarded, [Next]_vars,
           NEW a \in Nodes, NEW d \in Nodes, NEW t \in Tables, NEW u \in Updates,
           Exact(a, d, t, u)
    PROVE  Exact(a, d, t, u)'
<1> SUFFICES ASSUME Carries(a, d, t, u), pState'[a] = "RUN", rState'[d] = "RUN"
             PROVE  Reached(a, t, u)' = OnTheWay(a, t, u)' + Reached(d, t, u)'
  BY DEF Exact, Carries
<1>1. FlowInv /\ FlowInv' /\ Counts /\ Counts'
  BY DEF CarriedInv, TreeInv, RecordsInv
<1>2. Counted
  BY <1>1, AllCounted DEF FlowInv, ShutdownInv
<1>3. /\ Reached(a, t, u) \in Nat /\ OnTheWay(a, t, u) \in Nat /\ Reached(d, t, u) \in Nat
      /\ a # d /\ u[1] \in Nodes /\ HasDownstream(a) /\ a \in Batched
      /\ Downstream[a] = d /\ a \in Reach(u[1]) /\ t \in Apply[d]
      /\ a = u[1] \/ t \in Forward[a]
  BY <1>2, UpdateParts, GraphAssumption, NodeIsNotNoNode DEF Counted, Carries, HasDownstream
<1>4. (pState[a] = "RUN" /\ rState[d] = "RUN")
            => Reached(a, t, u) = OnTheWay(a, t, u) + Reached(d, t, u)
  BY DEF Exact
<1>5. CASE Rests
  <2>1. /\ Reached(a, t, u)' = Reached(a, t, u) /\ Reached(d, t, u)' = Reached(d, t, u)
        /\ Sends(a)' => OnTheWay(a, t, u)' = OnTheWay(a, t, u)
        /\ pState[a] = "RUN" /\ rState[d] = "RUN"
    BY <1>5 DEF Rests, AllSteady, Steady
  <2>2. Sends(a)'
    BY <1>3 DEF Sends, HasDownstream
  <2> QED
    BY <1>4, <2>1, <2>2
<1>6. ASSUME NEW n \in Nodes, NEW t0 \in Tables, Begins(n, t0)
      PROVE  Reached(a, t, u)' = OnTheWay(a, t, u)' + Reached(d, t, u)'
  <2>1. PICK c : c = IF a = n /\ t = t0 /\ u = NewToken(n) THEN 1 ELSE 0
    OBVIOUS
  <2>2. c \in Nat /\ Reached(a, t, u)' = Reached(a, t, u) + c /\ OnTheWay(a, t, u)' = OnTheWay(a, t, u) + c
    BY <1>6, <2>1 DEF Begins, Makes
  <2>3. ~(d = n /\ u = NewToken(n))
    BY <1>3, TreeStraight DEF NewToken
  <2>4. Reached(d, t, u)' = Reached(d, t, u)
    BY <1>3, <1>6, <2>3 DEF Begins, Makes
  <2>5. pState[a] = "RUN" /\ rState[d] = "RUN"
    BY <1>6 DEF Begins
  <2> QED
    BY <1>3, <1>4, <2>2, <2>4, <2>5
<1>7. ASSUME NEW n \in Nodes, NEW m \in Nodes, NEW x, Arrives(n, m, x)
      PROVE  Reached(a, t, u)' = OnTheWay(a, t, u)' + Reached(d, t, u)'
  <2>1. PICK c : c = InMessage(x, t, u)
    OBVIOUS
  <2>2. /\ c \in Nat /\ Downstream[m] = n /\ pState' = pState /\ rState' = rState
        /\ OnTheWay(m, t, u)' = OnTheWay(m, t, u) - c /\ Reached(m, t, u)' = Reached(m, t, u)
        /\ OnTheWay(n, t, u)' =
                OnTheWay(n, t, u) + (IF Accepts(n, x) /\ t \in Forward[n] THEN c ELSE 0)
        /\ Reached(n, t, u)' =
                Reached(n, t, u) + (IF Accepts(n, x) /\ t \in Apply[n] THEN c ELSE 0)
        /\ \A b \in Nodes \ {m, n} : /\ OnTheWay(b, t, u)' = OnTheWay(b, t, u)
                                     /\ Reached(b, t, u)' = Reached(b, t, u)
    BY <1>7, <2>1 DEF Arrives, Comes, Came
  <2>3. Reached(a, t, u) = OnTheWay(a, t, u) + Reached(d, t, u)
    BY <1>4, <2>2
  <2>4. \A b \in Nodes : Reached(b, t, u) \in Nat /\ OnTheWay(b, t, u) \in Nat
    BY <1>2 DEF Counted
  <2>5. CASE c = 0
    <3>1. \A b \in Nodes : /\ Reached(b, t, u)' = Reached(b, t, u)
                           /\ OnTheWay(b, t, u)' = OnTheWay(b, t, u)
      BY <2>2, <2>4, <2>5
    <3> QED
      BY <2>3, <3>1
  <2>6. CASE c # 0
    <3>1. /\ Accepts(n, x) <=> rState[n] = "RUN"
          /\ \A b \in Reach(u[1]) : Downstream[b] = n => b = m
      BY <1>7, <2>1, <2>6, ArrivesWith
    <3>2. CASE a = m
      <4>1. d = n /\ Accepts(n, x) /\ t \in Apply[n]
        BY <1>3, <2>2, <3>1, <3>2
      <4> QED
        BY <1>3, <2>2, <2>3, <3>2, <4>1
    <3>3. CASE a = n
      <4>1. t \in Apply[n] /\ t \in Forward[n]
        <5>1. m \in Reach(u[1]) /\ n # u[1]
          BY <1>3, <1>7, <2>1, <2>2, <2>6, ArrivesWith, TreeStraight
        <5> QED
          BY <1>3, <2>2, <3>3, <5>1, NodeIsNotNoNode DEF AppliesForwarded, HasDownstream
      <4>2. Reached(d, t, u)' = Reached(d, t, u)
        BY <1>3, <2>2, <3>3
      <4> QED
        BY <1>3, <2>2, <2>3, <3>3, <4>1, <4>2
    <3>4. CASE a # m /\ a # n
      <4>1. d # n
        BY <1>3, <3>1, <3>4
      <4> QED
        BY <2>2, <2>3, <3>4, <4>1
    <3> QED
      BY <3>2, <3>3, <3>4
  <2> QED
    BY <2>5, <2>6
<1> QED
  BY <1>1, <1>5, <1>6, <1>7, Account DEF Counts

(* The other nodes that updates of p pass.                                 *)
LEMMA ReachFed ==
    ASSUME NEW p \in Nodes, NEW a \in Reach(p), a # p
    PROVE  \E b \in Reach(p) : Downstream[b] = a
<1>1. PICK S : S = {p} \cup Fed(p)
  OBVIOUS
<1>2. S \subseteq Reach(p) /\ S \in SUBSET Nodes /\ p \in S
  BY <1>1, Graph
<1>3. Closed(S)
  BY <1>1, <1>2, Graph, GraphAssumption DEF Closed
<1>4. a \in S
  BY <1>2, <1>3 DEF Reach
<1> QED
  BY <1>1, <1>4 DEF Fed

(* The invariant holds at the start ...                                    *)
LEMMA ExactInit == Init => ExactInv
<1> SUFFICES ASSUME Init PROVE AllExact
  BY CarriedInit DEF ExactInv
<1>1. \A a \in Nodes, t \in Tables, u \in Updates : Reached(a, t, u) = 0 /\ OnTheWay(a, t, u) = 0
  BY CountsInit
<1> QED
  BY <1>1 DEF AllExact, Exact

(* ... and after every step.                                               *)
LEMMA ExactKept ==
    ASSUME NoRing, QuietSinks, AppliesForwarded, ExactInv, [Next]_vars
    PROVE  ExactInv'
<1>1. CarriedInv /\ CarriedInv'
  BY CarriedKept DEF ExactInv
<1>2. ASSUME NEW a \in Nodes, NEW d \in Nodes, NEW t \in Tables, NEW u \in Updates
      PROVE  Exact(a, d, t, u)'
  <2>1. Exact(a, d, t, u)
    BY DEF ExactInv, AllExact
  <2> QED
    BY <1>1, <2>1, ExactStep
<1> QED
  BY <1>1, <1>2 DEF ExactInv, AllExact

(* Where every node sends, applies and forwards every table, and updates   *)
(* come back to nobody: while two neighbours run, what the one has applied *)
(* or is applying is exactly once on its way to the other, applied there   *)
(* or being applied, no matter what is batched, merged or forwarded, which *)
(* of the two applies it first and who else shuts down.                    *)
THEOREM TreesLoseNothing ==
    NoRing /\ QuietSinks /\ Complete => (Spec => []NothingLostOrDoubled)
<1> SUFFICES ASSUME NoRing, QuietSinks, Complete PROVE Spec => []NothingLostOrDoubled
  OBVIOUS
<1>1. AppliesForwarded
  BY TablesAssumption, GraphAssumption DEF Complete, AppliesForwarded, HasDownstream
<1>2. ExactInv /\ [Next]_vars => ExactInv'
  BY <1>1, ExactKept
<1>3. ExactInv => NothingLostOrDoubled
  <2> SUFFICES ASSUME ExactInv, NEW n \in Nodes, NEW t \in Tables, NEW u \in Updates,
                      NEW d, d = Downstream[n], d # NoNode, Running(n), Running(d),
                      Feeds(u[1], n)
               PROVE  Applied(n, t, u) + Applying(n, t, u)
                        = OnTheWay(n, t, u) + Applied(d, t, u) + Applying(d, t, u)
    BY DEF NothingLostOrDoubled
  <2>1. d \in Nodes /\ HasDownstream(n) /\ n \in Reach(u[1]) /\ u[1] \in Nodes
    BY GraphAssumption, UpdateParts DEF Feeds, HasDownstream
  <2>2. n # u[1] => \E b \in Nodes : Downstream[b] = n
    BY <2>1, ReachFed, Graph
  <2>3. n # u[1] => Forward[n] = Tables
    BY <2>1, <2>2, NodeIsNotNoNode DEF Complete, HasDownstream
  <2>4. Carries(n, d, t, u)
    BY <2>1, <2>3 DEF Complete, Carries
  <2>5. Reached(n, t, u) = OnTheWay(n, t, u) + Reached(d, t, u)
    BY <2>1, <2>4 DEF ExactInv, AllExact, Exact, Running
  <2>6. Counts /\ Counted
    BY AllCounted DEF ExactInv, CarriedInv, TreeInv, RecordsInv, FlowInv, ShutdownInv
  <2>7. LoopInv(n) /\ LoopInv(d) /\ OnTheWay(n, t, u) \in Nat
    BY <2>1, <2>6 DEF Counts, Counted, NatInv, StoresNat
  <2>8. /\ Reached(n, t, u) = Applied(n, t, u) + Applying(n, t, u)
        /\ Reached(d, t, u) = Applied(d, t, u) + Applying(d, t, u)
        /\ Applied(d, t, u) \in Nat /\ Applying(d, t, u) \in Nat
    BY <2>1, <2>7, AppliedOfReached
  <2> QED
    BY <2>5, <2>7, <2>8
<1> QED
  BY <1>2, <1>3, ExactInit, PTL DEF Spec
-----------------------------------------------------------------------------
(* A replicated table.                                                     *)

(* An update that has not reached its own node is nowhere.                 *)
LEMMA OnceStarts ==
    ASSUME Counted, NEW t \in Tables, NEW u \in Updates,
           NEW w \in [Nodes -> {0, 1}], OnceBy(w, t, u), w[u[1]] = 0
    PROVE  \A a \in Nodes : w[a] = 0 /\ Reached(a, t, u) = 0 /\ OnTheWay(a, t, u) = 0
<1>1. u[1] \in Nodes /\ Reach(u[1]) \subseteq Nodes /\ u[1] \in Reach(u[1])
  BY UpdateParts, Graph
<1>2. \A a \in Nodes : OnTheWay(a, t, u) \in Nat /\ Next1(w, a) \in Nat /\ w[a] \in Nat
  BY DEF Counted, Next1
<1>3. PICK S : S = {a \in Reach(u[1]) : w[a] = 0}
  OBVIOUS
<1>4. ASSUME NEW a \in S, Downstream[a] # NoNode PROVE Downstream[a] \in S
  <2>1. a \in Reach(u[1]) /\ a \in Nodes /\ w[a] = 0 /\ Downstream[a] \in Nodes
    BY <1>1, <1>3, <1>4, GraphAssumption
  <2>2. Downstream[a] \in Reach(u[1])
    BY <1>1, <2>1, Graph
  <2>3. OnTheWay(a, t, u) + Next1(w, a) <= w[a]
    BY <2>1 DEF OnceBy
  <2>4. Next1(w, a) = 0
    BY <1>2, <2>1, <2>3
  <2> QED
    BY <1>3, <2>1, <2>2, <2>4 DEF Next1
<1>5. Closed(S) /\ u[1] \in S /\ S \in SUBSET Nodes
  BY <1>1, <1>3, <1>4 DEF Closed
<1>6. \A a \in Reach(u[1]) : w[a] = 0
  BY <1>3, <1>5 DEF Reach
<1>7. \A a \in Nodes : w[a] = 0
  BY <1>6 DEF OnceBy
<1>8. ASSUME NEW a \in Nodes PROVE OnTheWay(a, t, u) = 0
  <2>1. CASE a \in Reach(u[1])
    <3>1. OnTheWay(a, t, u) + Next1(w, a) <= w[a]
      BY <2>1 DEF OnceBy
    <3> QED
      BY <1>2, <1>7, <3>1
  <2> QED
    BY <2>1 DEF OnceBy
<1> QED
  BY <1>7, <1>8 DEF OnceBy

(* Where an update is, and where it then is not.                           *)
PlaceOf(a, t, u) ==
    /\ Reached(a, t, u) \in {0, 1} /\ OnTheWay(a, t, u) \in {0, 1}
    /\ Reached(a, t, u) # 0 \/ OnTheWay(a, t, u) # 0 =>
        a \in Reach(u[1]) /\ Reached(u[1], t, u) = 1 /\ u[2] < incs[u[1]]
    /\ Reached(a, t, u) # 0 => a = u[1] \/ t \in Apply[a]
    /\ OnTheWay(a, t, u) # 0 =>
        /\ Reached(a, t, u) = 1 /\ (a = u[1] \/ t \in Forward[a])
        /\ \A d \in Nodes : Downstream[a] = d =>
            Reached(d, t, u) = 0 /\ OnTheWay(d, t, u) = 0

(* What follows from Once.                                                 *)
LEMMA OncePlaces ==
    ASSUME Counted, Once, AppliesForwarded, \A a \in Nodes : incs[a] \in Nat,
           NEW a \in Nodes, NEW t \in Tables, NEW u \in Updates
    PROVE  PlaceOf(a, t, u)
<1>1. PICK w \in [Nodes -> {0, 1}] : OnceBy(w, t, u)
  BY DEF Once
<1>2. /\ u[1] \in Nodes /\ Reach(u[1]) \subseteq Nodes /\ u[1] \in Reach(u[1])
      /\ u[2] \in Nat /\ incs[u[1]] \in Nat
  BY UpdateParts, Graph
<1>3. \A b \in Nodes : /\ OnTheWay(b, t, u) \in Nat /\ Next1(w, b) \in Nat /\ w[b] \in {0, 1}
                       /\ Reached(b, t, u) \in Nat
  BY DEF Counted, Next1
<1>4. /\ \A b \in Nodes : Reached(b, t, u) = IF b = u[1] \/ t \in Apply[b] THEN w[b] ELSE 0
      /\ \A b \in Nodes \ Reach(u[1]) : w[b] = 0 /\ OnTheWay(b, t, u) = 0
      /\ \A b \in Reach(u[1]) : OnTheWay(b, t, u) + Next1(w, b) <= w[b]
      /\ \A b \in Nodes : (b # u[1] /\ t \notin Forward[b]) => OnTheWay(b, t, u) = 0
      /\ u[2] >= incs[u[1]] => w[u[1]] = 0
  BY <1>1 DEF OnceBy
<1>5. w[u[1]] = 0 => (w[a] = 0 /\ Reached(a, t, u) = 0 /\ OnTheWay(a, t, u) = 0)
  BY <1>1, OnceStarts
<1>6. Reached(a, t, u) \in {0, 1} /\ (Reached(a, t, u) # 0 => w[a] = 1)
  BY <1>3, <1>4
<1>7. OnTheWay(a, t, u) \in {0, 1} /\ (OnTheWay(a, t, u) # 0 => w[a] = 1 /\ a \in Reach(u[1]) /\ Next1(w, a) = 0)
  BY <1>3, <1>4
<1>8. Reached(a, t, u) # 0 \/ OnTheWay(a, t, u) # 0 =>
        a \in Reach(u[1]) /\ Reached(u[1], t, u) = 1 /\ u[2] < incs[u[1]]
  <2>1. w[a] # 0 => a \in Reach(u[1])
    BY <1>4
  <2>2. w[a] # 0 => w[u[1]] = 1
    BY <1>2, <1>3, <1>5
  <2>3. w[u[1]] = 1 => Reached(u[1], t, u) = 1 /\ u[2] < incs[u[1]]
    BY <1>2, <1>4
  <2> QED
    BY <1>6, <1>7, <2>1, <2>2, <2>3
<1>9. ASSUME OnTheWay(a, t, u) # 0
      PROVE  /\ Reached(a, t, u) = 1 /\ (a = u[1] \/ t \in Forward[a])
             /\ \A d \in Nodes : Downstream[a] = d =>
                    Reached(d, t, u) = 0 /\ OnTheWay(d, t, u) = 0
  <2>1. a = u[1] \/ t \in Forward[a]
    BY <1>4, <1>9
  <2>2. a # u[1] => t \in Apply[a]
    <3> SUFFICES ASSUME a # u[1] PROVE t \in Apply[a]
      OBVIOUS
    <3>1. PICK b \in Reach(u[1]) : Downstream[b] = a
      BY <1>2, <1>7, <1>9, ReachFed
    <3> QED
      BY <1>2, <2>1, <3>1, NodeIsNotNoNode DEF AppliesForwarded, HasDownstream
  <2>3. Reached(a, t, u) = 1
    BY <1>4, <1>7, <1>9, <2>2
  <2>4. ASSUME NEW d \in Nodes, Downstream[a] = d
        PROVE  Reached(d, t, u) = 0 /\ OnTheWay(d, t, u) = 0
    <3>1. w[d] = 0
      BY <1>7, <1>9, <2>4 DEF Next1
    <3>2. d \in Reach(u[1])
      BY <1>2, <1>7, <1>9, <2>4, Graph
    <3>3. Reached(d, t, u) = 0
      BY <1>4, <3>1
    <3>4. OnTheWay(d, t, u) + Next1(w, d) <= 0
      BY <1>4, <3>1, <3>2
    <3> QED
      BY <1>3, <3>3, <3>4
  <2> QED
    BY <2>1, <2>3, <2>4
<1>10. Reached(a, t, u) # 0 => a = u[1] \/ t \in Apply[a]
  BY <1>4
<1> QED
  BY <1>6, <1>7, <1>8, <1>9, <1>10 DEF PlaceOf

(* Every step, by what it does.                                            *)
LEMMA Kinds ==
    ASSUME FlowInv, NoRing, Counts, [Next]_vars
    PROVE  \/ Calm
           \/ \E n \in Nodes, th \in Threads : \E m : HandDoes(n, th, m)
           \/ \E n \in Nodes, th \in Threads, t \in Tables, k \in Keys : MakeDoes(n, th, t, k)
           \/ \E n \in Nodes, th \in Threads : \E m : PutDoes(n, th, m)
           \/ \E n \in Nodes, t \in Tables : \E x : FlushStep(n, t) /\ FlushDoes(n, t, x)
           \/ \E n \in Nodes : \E x : SendStep(n) /\ SendDoes(n, x)
           \/ \E n \in Nodes : \E x : MergeStep(n) /\ x = Head(fwdPipe[n])
           \/ \E n \in Nodes, m \in Nodes : \E x : Arrives(n, m, x)
<1>1. TypeInv
  BY DEF FlowInv, ShutdownInv
<1>2. \A n \in Nodes, th \in Threads : HandStep(n, th) => \E m : HandDoes(n, th, m)
  BY HandEffect DEF Counts
<1>3. \A n \in Nodes, th \in Threads, t \in Tables, k \in Keys :
        MakeStep(n, th, t, k) => MakeDoes(n, th, t, k)
  BY MakeEffect
<1>4. \A n \in Nodes, th \in Threads : PutStep(n, th) => \E m : PutDoes(n, th, m)
  BY PutEffect
<1>5. \A n \in Nodes, t \in Tables : FlushStep(n, t) => \E x : FlushDoes(n, t, x)
  BY FlushEffect
<1>6. \A n \in Nodes : SendStep(n) => \E x : SendDoes(n, x)
  BY SendEffect
<1>7. \A n \in Nodes, m \in Nodes : TakeStep(n, m) => \E x : Arrives(n, m, x)
  BY TakeArrives
<1>8. \A n \in Nodes : ~DedupStep(n)
  BY DedupNever
<1>9. \A n \in Nodes : MergeStep(n) => \E x : MergeStep(n) /\ x = Head(fwdPipe[n])
  OBVIOUS
<1> QED
  BY <1>1, <1>2, <1>3, <1>4, <1>5, <1>6, <1>7, <1>8, <1>9, CalmSteps

(* All but two kinds of step bring nothing new to a table.                 *)
TablesSame == \A a \in Nodes, t \in Tables : Got(a, t)' = Got(a, t)

(* The kinds of step, by what they do to the tables.                       *)
LEMMA KindsSame ==
    ASSUME FlowInv, NoRing, Counts, [Next]_vars
    PROVE  \/ TablesSame
           \/ \E n \in Nodes, th \in Threads, t \in Tables, k \in Keys : MakeDoes(n, th, t, k)
           \/ \E n \in Nodes, m \in Nodes : \E x : Arrives(n, m, x)
<1>1. Calm => TablesSame
  BY DEF Calm, CalmAt, TablesSame
<1>2. ASSUME NEW n \in Nodes, NEW th \in Threads, NEW m,
             HandDoes(n, th, m) \/ PutDoes(n, th, m)
      PROVE  TablesSame
  BY <1>2 DEF HandDoes, PutDoes, TablesSame, Got, recvVars
<1>3. ASSUME NEW n \in Nodes,
             SendStep(n) \/ MergeStep(n) \/ \E t \in Tables : FlushStep(n, t)
      PROVE  TablesSame
  BY <1>3 DEF SendStep, MergeStep, FlushStep, TablesSame, Got, recvVars
<1> QED
  BY <1>1, <1>2, <1>3, Kinds

(* The buffer that a receiver takes.                                       *)
LEMMA ArrivesNat ==
    ASSUME FlowInv, Counts, NEW n \in Nodes, NEW m \in Nodes, NEW x, Arrives(n, m, x)
    PROVE  /\ NatMsg(x) /\ IsBuff(x) /\ x.table \in Tables /\ m # n
           /\ tcp[m] \in Seq(TcpMsg) /\ tcp[m] # <<>> /\ x = Head(tcp[m])
           /\ tcp'[m] = Tail(tcp[m]) /\ NatPipe(tcp[m])
<1>1. /\ tcp[m] \in Seq(TcpMsg) /\ tcp[m] # <<>> /\ x = Head(tcp[m]) /\ NatPipe(tcp[m])
      /\ IsBuff(x) /\ x.table \in Tables /\ m # n /\ tcp'[m] = Tail(tcp[m])
  BY FlowParts, GraphAssumption DEF PipeTypes, Counts, NatInv, PipesNat, Arrives, TakeGives
<1>2. PICK q : q = tcp[m]
  OBVIOUS
<1>3. q \in Seq(TcpMsg) /\ q # <<>> /\ NatPipe(q)
  BY <1>1, <1>2
<1>4. NatMsg(Head(q))
  BY ONLY <1>3, PipeMoves
<1> QED
  BY <1>1, <1>2, <1>4

(* What has reached a table stays there.                                   *)
LEMMA TablesGrow ==
    ASSUME FlowInv, NoRing, Counts, [Next]_vars
    PROVE  \A a \in Nodes, t \in Tables, k \in AllKeys, u \in Updates :
                Got(a, t).val[k][u] # 0 => Got(a, t)'.val[k][u] # 0
<1> SUFFICES ASSUME NEW a \in Nodes, NEW t \in Tables, NEW k \in AllKeys, NEW u \in Updates,
                    Got(a, t).val[k][u] # 0
             PROVE  Got(a, t)'.val[k][u] # 0
  OBVIOUS
<1>1. NatStore(Got(a, t))
  BY KnownCount DEF Counts, NatInv, StoresNat
<1>2. Got(a, t).val[k][u] \in Nat /\ Got(a, t).val \in [AllKeys -> Value]
  BY <1>1 DEF NatStore, Store
<1>3. ASSUME NEW n \in Nodes, NEW th \in Threads, NEW s \in Tables, NEW l \in Keys,
             MakeDoes(n, th, s, l)
      PROVE  Got(a, t)'.val[k][u] # 0
  <2>1. CASE a = n /\ t = s
    <3>1. PICK d : d = Delta(NewToken(n))
      OBVIOUS
    <3>2. d[u] \in Nat
      BY <3>1 DEF Delta
    <3>3. Got(a, t)' = AddUpdate(Got(a, t), l, d)
      BY <1>3, <2>1, <3>1, MakeKnown DEF Counts, NatInv, StoresNat
    <3>4. Got(a, t)'.val = [Got(a, t).val EXCEPT ![l] = VAdd(@, d)]
      BY <3>3 DEF AddUpdate
    <3>5. Got(a, t)'.val[k][u] \in {Got(a, t).val[k][u], Got(a, t).val[k][u] + d[u]}
      BY <1>2, <3>4 DEF VAdd
    <3>6. Got(a, t).val[k][u] + d[u] # 0
      BY <1>2, <3>2
    <3> QED
      BY <3>5, <3>6
  <2>2. CASE a # n \/ t # s
    BY <1>3, <2>2, MakeKnown DEF Counts, NatInv, StoresNat
  <2> QED
    BY <2>1, <2>2
<1>4. ASSUME NEW n \in Nodes, NEW m \in Nodes, NEW x, Arrives(n, m, x)
      PROVE  Got(a, t)'.val[k][u] # 0
  <2>1. NatMsg(x) /\ IsBuff(x)
    BY <1>4, ArrivesNat
  <2>2. NatStore(x.buff.updates)
    BY <2>1 DEF NatMsg
  <2>3. x.buff.updates.val[k][u] \in Nat
    BY <2>2 DEF NatStore
  <2>4. Got(a, t)' \in {Got(a, t), AddUpdates(Got(a, t), x.buff.updates)}
    <3>1. CASE a = n /\ t = x.table
      BY <1>4, <3>1 DEF Arrives, TakesIn
    <3>2. CASE a # n \/ t # x.table
      BY <1>4, <3>2 DEF Arrives, TakesIn
    <3> QED
      BY <3>1, <3>2
  <2>5. AddUpdates(Got(a, t), x.buff.updates).val[k][u]
            = Got(a, t).val[k][u] + x.buff.updates.val[k][u]
    BY <1>1, <2>2, AddAllCount
  <2> QED
    BY <1>2, <2>3, <2>4, <2>5
<1>5. TablesSame => Got(a, t)'.val[k][u] # 0
  BY DEF TablesSame
<1> QED
  BY <1>3, <1>4, <1>5, KindsSame

-----------------------------------------------------------------------------
(* An update keeps its key.                                                *)

(* The keys under which the nodes made their updates.                      *)
Made ==
    {p \in Tables \X AllKeys \X Updates : Got(p[3][1], p[1]).val[p[2]][p[3]] # 0}

KeyedAt(M, a) ==
    /\ \A t \in Tables : KeyedStore(M, Got(a, t), t) /\ KeyedStore(M, updateStore[a][t], t)
    /\ KeyedPipe(M, fwdPipe[a]) /\ KeyedPipe(M, outBuff[a]) /\ KeyedPipe(M, tcp[a])
    /\ \A th \in Threads : KeyedPipe(M, pend[a][th]) /\ KeyedPipe(M, logPipe[a][th])

Keyed == \A a \in Nodes : KeyedAt(Made, a)

(* Stores keep their keys when updates are added.                          *)
LEMMA KeyedStores ==
    ASSUME NEW M, NEW t
    PROVE  /\ KeyedStore(M, EmptyStore, t)
           /\ \A s, d : (/\ NatStore(s) /\ NatStore(d)
                         /\ KeyedStore(M, s, t) /\ KeyedStore(M, d, t))
                            => KeyedStore(M, AddUpdates(s, d), t)
           /\ \A s, k, d : (/\ NatStore(s) /\ k \in AllKeys /\ d \in Value
                            /\ KeyedStore(M, s, t)
                            /\ \A u \in Updates : d[u] # 0 => <<t, k, u>> \in M)
                            => KeyedStore(M, AddUpdate(s, k, d), t)
<1>1. KeyedStore(M, EmptyStore, t)
  <2>1. \A k \in AllKeys, u \in Updates : EmptyStore.val[k][u] = 0
    BY DEF EmptyStore, Zero
  <2> QED
    BY <2>1 DEF KeyedStore
<1>2. ASSUME NEW s, NEW d, NatStore(s), NatStore(d), KeyedStore(M, s, t), KeyedStore(M, d, t)
      PROVE  KeyedStore(M, AddUpdates(s, d), t)
  <2>1. \A k \in AllKeys, u \in Updates :
            AddUpdates(s, d).val[k][u] = s.val[k][u] + d.val[k][u]
    BY <1>2, AddAllCount
  <2>2. \A k \in AllKeys, u \in Updates : s.val[k][u] \in Nat /\ d.val[k][u] \in Nat
    BY <1>2 DEF NatStore
  <2>3. \A k \in AllKeys, u \in Updates :
            AddUpdates(s, d).val[k][u] # 0 => s.val[k][u] # 0 \/ d.val[k][u] # 0
    BY <2>1, <2>2
  <2> QED
    BY <1>2, <2>3 DEF KeyedStore
<1>3. ASSUME NEW s, NEW k, NEW d, NatStore(s), k \in AllKeys, d \in Value, KeyedStore(M, s, t),
             \A u \in Updates : d[u] # 0 => <<t, k, u>> \in M
      PROVE  KeyedStore(M, AddUpdate(s, k, d), t)
  <2>1. s.val \in [AllKeys -> Value]
    BY <1>3 DEF NatStore, Store
  <2>2. \A l \in AllKeys, u \in Updates :
            AddUpdate(s, k, d).val[l][u] = IF l = k THEN s.val[l][u] + d[u] ELSE s.val[l][u]
    BY <1>3, <2>1 DEF AddUpdate, VAdd, Value
  <2>3. \A l \in AllKeys, u \in Updates : s.val[l][u] \in Int /\ d[u] \in Int
    BY <1>3, <2>1 DEF Value
  <2>4. \A l \in AllKeys, u \in Updates :
            AddUpdate(s, k, d).val[l][u] # 0 => s.val[l][u] # 0 \/ (l = k /\ d[u] # 0)
    BY <2>2, <2>3
  <2> QED
    BY <1>3, <2>4 DEF KeyedStore
<1> QED
  BY <1>1, <1>2, <1>3

(* A larger set allows more.                                               *)
LEMMA KeyedMore ==
    ASSUME NEW M, NEW N, M \subseteq N
    PROVE  /\ \A s, t : KeyedStore(M, s, t) => KeyedStore(N, s, t)
           /\ \A m : KeyedMsg(M, m) => KeyedMsg(N, m)
           /\ \A q : KeyedPipe(M, q) => KeyedPipe(N, q)
<1>1. \A s, t : KeyedStore(M, s, t) => KeyedStore(N, s, t)
  BY DEF KeyedStore
<1>2. \A m : KeyedMsg(M, m) => KeyedMsg(N, m)
  BY <1>1 DEF KeyedMsg
<1> QED
  BY <1>1, <1>2 DEF KeyedPipe

(* A node where nothing moves.                                             *)
LEMMA KeyedCalm ==
    ASSUME NEW a \in Nodes, NatInv(a), CalmAt(a), NEW M, KeyedAt(M, a)
    PROVE  KeyedAt(M, a)'
<1>1. \A t \in Tables : KeyedStore(M, Got(a, t)', t) /\ KeyedStore(M, updateStore'[a][t], t)
  BY KeyedStores DEF CalmAt, KeyedAt
<1>2. KeyedPipe(M, fwdPipe'[a]) /\ KeyedPipe(M, outBuff'[a]) /\ KeyedPipe(M, tcp'[a])
  BY DEF CalmAt, KeyedAt, Silent, NatInv, PipesNat
<1>3. \A th \in Threads : KeyedPipe(M, pend'[a][th]) /\ KeyedPipe(M, logPipe'[a][th])
  BY DEF CalmAt, KeyedAt, Silent, NatInv, ThreadsNat
<1> QED
  BY <1>1, <1>2, <1>3 DEF KeyedAt

(* One message.                                                            *)
LEMMA KeyedOne ==
    ASSUME NEW M, NEW m
    PROVE  (KeyedPipe(M, <<m>>) <=> KeyedMsg(M, m)) /\ KeyedPipe(M, <<>>)
<1>1. Len(<<m>>) = 1 /\ <<m>>[1] = m /\ Len(<<>>) = 0
  OBVIOUS
<1> QED
  BY <1>1 DEF KeyedPipe

(* From a thread to the propagator's pipe.                                 *)
LEMMA KeyedHand ==
    ASSUME FlowInv, Counts, NEW n \in Nodes, NEW th \in Threads, NEW m, HandDoes(n, th, m),
           NEW M, NEW a \in Nodes, KeyedAt(M, a)
    PROVE  KeyedAt(M, a)'
<1>1. /\ UNCHANGED <<fwdPipe, tcp, outBuff, updateStore>>
      /\ \A t \in Tables : Got(a, t)' = Got(a, t)
  BY DEF HandDoes, propVars, propStores, recvVars, Got
<1>2. ASSUME NEW s \in Threads PROVE KeyedPipe(M, pend'[a][s]) /\ KeyedPipe(M, logPipe'[a][s])
  <2>1. KeyedPipe(M, pend[a][s]) /\ KeyedPipe(M, logPipe[a][s])
    BY DEF KeyedAt
  <2>2. CASE a = n /\ s = th
    <3>1. /\ pend[n][th] = <<m>> /\ pend'[n][th] = <<>> /\ m \in LogMsg
          /\ logPipe[n][th] \in Seq(LogMsg)
          /\ logPipe'[n][th] = IF pState[n] = "RUN" THEN Append(logPipe[n][th], m)
                               ELSE logPipe[n][th]
      BY FlowParts DEF HandDoes, PipeTypes
    <3>2. KeyedMsg(M, m) /\ KeyedPipe(M, <<>>)
      BY <2>1, <2>2, <3>1, KeyedOne
    <3>3. KeyedPipe(M, Append(logPipe[n][th], m))
      BY <2>1, <2>2, <3>1, <3>2, KeyedMoves
    <3> QED
      BY <2>1, <2>2, <3>1, <3>2, <3>3
  <2>3. CASE a # n \/ s # th
    BY <2>1, <2>3 DEF HandDoes
  <2> QED
    BY <2>2, <2>3
<1> QED
  BY <1>1, <1>2 DEF KeyedAt

(* From there to the store.                                                *)
LEMMA KeyedPut ==
    ASSUME FlowInv, Counts, NEW n \in Nodes, NEW th \in Threads, NEW m, PutDoes(n, th, m),
           NEW M, NEW a \in Nodes, KeyedAt(M, a)
    PROVE  KeyedAt(M, a)'
<1>1. /\ UNCHANGED <<fwdPipe, tcp, outBuff, pend>>
      /\ \A t \in Tables : Got(a, t)' = Got(a, t)
  BY DEF PutDoes, appVars, recvVars, Got
<1>2. /\ logPipe[n][th] \in Seq(LogMsg) /\ logPipe[n][th] # <<>> /\ m = Head(logPipe[n][th])
      /\ logPipe'[n][th] = Tail(logPipe[n][th])
  <2>1. logPipe[n][th] \in Seq(LogMsg)
    BY FlowParts DEF PipeTypes
  <2> QED
    BY <2>1 DEF PutDoes
<1>3. a = n => KeyedMsg(M, m) /\ KeyedPipe(M, logPipe'[n][th])
  BY <1>2, KeyedMoves DEF KeyedAt
<1>4. ASSUME NEW s \in Threads PROVE KeyedPipe(M, logPipe'[a][s])
  BY <1>3 DEF PutDoes, KeyedAt
<1>5. ASSUME NEW t \in Tables PROVE KeyedStore(M, updateStore'[a][t], t)
  <2>1. KeyedStore(M, updateStore[a][t], t) /\ NatStore(updateStore[a][t])
    BY DEF KeyedAt, Counts, NatInv, StoresNat
  <2>2. CASE a = n /\ t = m.table
    <3>1. \A u \in Updates : m.delta[u] # 0 => <<t, m.key, u>> \in M
      BY <1>3, <2>2 DEF KeyedMsg, PutDoes
    <3>2. KeyedStore(M, AddUpdate(updateStore[a][t], m.key, m.delta), t)
      BY <2>1, <3>1, KeyedStores DEF PutDoes
    <3> QED
      BY <2>1, <2>2, <3>2 DEF PutDoes
  <2>3. CASE a # n \/ t # m.table
    BY <2>1, <2>3 DEF PutDoes
  <2> QED
    BY <2>2, <2>3
<1> QED
  BY <1>1, <1>4, <1>5 DEF KeyedAt

(* From the store to the buffer ...                                        *)
LEMMA KeyedFlush ==
    ASSUME FlowInv, Counts, NEW n \in Nodes, NEW t0 \in Tables, NEW x, FlushStep(n, t0),
           FlushDoes(n, t0, x), NEW M, NEW a \in Nodes, KeyedAt(M, a)
    PROVE  KeyedAt(M, a)'
<1>1. /\ UNCHANGED <<logPipe, fwdPipe, tcp, pend>>
      /\ \A t \in Tables : Got(a, t)' = Got(a, t)
  BY DEF FlushStep, FlushTable, appVars, recvVars, Got
<1>2. /\ IsBuff(x) /\ x.table = t0 /\ x.buff.updates = updateStore[n][t0]
      /\ outBuff'[n] = <<x>> /\ updateStore'[n][t0] = EmptyStore
      /\ \A b \in Nodes \ {n} : outBuff'[b] = outBuff[b]
      /\ \A b \in Nodes, s \in Tables : (b # n \/ s # t0) => updateStore'[b][s] = updateStore[b][s]
  BY DEF FlushDoes
<1>3. \A t \in Tables : KeyedStore(M, updateStore'[a][t], t)
  BY <1>2, KeyedStores DEF KeyedAt
<1>4. KeyedPipe(M, outBuff'[a])
  <2>1. CASE a = n
    <3>1. KeyedMsg(M, x)
      BY <1>2, <2>1 DEF KeyedAt, KeyedMsg, IsBuff
    <3>2. KeyedPipe(M, <<x>>)
      BY ONLY <3>1, KeyedOne
    <3> QED
      BY <1>2, <2>1, <3>2
  <2> QED
    BY <1>2, <2>1 DEF KeyedAt
<1> QED
  BY <1>1, <1>3, <1>4 DEF KeyedAt

(* ... and on the wire.                                                    *)
LEMMA KeyedSend ==
    ASSUME FlowInv, NEW n \in Nodes, NEW x, SendStep(n), SendDoes(n, x),
           NEW M, NEW a \in Nodes, KeyedAt(M, a)
    PROVE  KeyedAt(M, a)'
<1>1. /\ UNCHANGED <<logPipe, fwdPipe, pend, updateStore>>
      /\ \A t \in Tables : Got(a, t)' = Got(a, t)
      /\ x \in TcpMsg /\ (HasDownstream(n) => tcp'[n] = Append(tcp[n], x))
  BY SendAppends DEF Got
<1>2. /\ outBuff[n] = <<x>> /\ outBuff'[n] = <<>> /\ (~HasDownstream(n) => tcp'[n] = tcp[n])
      /\ \A b \in Nodes \ {n} : tcp'[b] = tcp[b] /\ outBuff'[b] = outBuff[b]
  BY DEF SendDoes
<1>3. KeyedPipe(M, outBuff[a]) /\ KeyedPipe(M, tcp[a]) /\ tcp[a] \in Seq(TcpMsg)
  BY FlowParts DEF KeyedAt, PipeTypes
<1>4. KeyedPipe(M, tcp'[a]) /\ KeyedPipe(M, outBuff'[a])
  <2>1. CASE a = n
    <3>1. KeyedMsg(M, x) /\ KeyedPipe(M, <<>>)
      BY <1>2, <1>3, <2>1, KeyedOne
    <3>2. KeyedPipe(M, Append(tcp[a], x))
      BY <1>1, <1>3, <3>1, KeyedMoves
    <3> QED
      BY <1>1, <1>2, <1>3, <2>1, <3>1, <3>2
  <2> QED
    BY <1>2, <1>3, <2>1
<1> QED
  BY <1>1, <1>4 DEF KeyedAt

(* From the receiver's pipe to the store.                                  *)
LEMMA KeyedMerge ==
    ASSUME FlowInv, Counts, NEW n \in Nodes, NEW x, MergeStep(n), x = Head(fwdPipe[n]),
           NEW M, NEW a \in Nodes, KeyedAt(M, a)
    PROVE  KeyedAt(M, a)'
<1>1. /\ IsBuff(x) /\ x.table \in Tables
      /\ fwdPipe[n] # <<>> /\ fwdPipe'[n] = Tail(fwdPipe[n]) /\ fwdPipe[n] \in Seq(FwdMsg)
      /\ updateStore'[n][x.table] \in {updateStore[n][x.table],
                                       AddUpdates(updateStore[n][x.table], x.buff.updates)}
      /\ \A b \in Nodes, t \in Tables : (b # n \/ t # x.table) =>
            updateStore'[b][t] = updateStore[b][t]
      /\ \A b \in Nodes \ {n} : fwdPipe'[b] = fwdPipe[b]
      /\ UNCHANGED <<logPipe, tcp, outBuff, pend>>
      /\ \A t \in Tables : Got(a, t)' = Got(a, t)
  BY MergeAdds DEF Got
<1>2. a = n => KeyedMsg(M, x) /\ KeyedPipe(M, fwdPipe'[n])
  BY <1>1, KeyedMoves DEF KeyedAt
<1>3. KeyedPipe(M, fwdPipe'[a])
  BY <1>1, <1>2 DEF KeyedAt
<1>4. ASSUME NEW t \in Tables PROVE KeyedStore(M, updateStore'[a][t], t)
  <2>1. KeyedStore(M, updateStore[a][t], t) /\ NatStore(updateStore[a][t])
    BY DEF KeyedAt, Counts, NatInv, StoresNat
  <2>2. CASE a = n /\ t = x.table
    <3>1. KeyedStore(M, x.buff.updates, t)
      BY <1>1, <1>2, <2>2 DEF KeyedMsg
    <3>2. NatStore(x.buff.updates)
      <4>1. PICK q : q = fwdPipe[n]
        OBVIOUS
      <4>2. q \in Seq(FwdMsg) /\ q # <<>> /\ NatPipe(q)
        BY <1>1, <4>1 DEF Counts, NatInv, PipesNat
      <4>3. NatMsg(Head(q))
        BY ONLY <4>2, PipeMoves
      <4> QED
        BY <1>1, <4>1, <4>3 DEF NatMsg
    <3>3. KeyedStore(M, AddUpdates(updateStore[a][t], x.buff.updates), t)
      BY <2>1, <3>1, <3>2, KeyedStores
    <3> QED
      BY <1>1, <2>1, <2>2, <3>3
  <2>3. CASE a # n \/ t # x.table
    BY <1>1, <2>1, <2>3
  <2> QED
    BY <2>2, <2>3
<1> QED
  BY <1>1, <1>3, <1>4 DEF KeyedAt

(* From one node to the next.                                              *)
LEMMA KeyedTake ==
    ASSUME FlowInv, Counts, NEW n \in Nodes, NEW m \in Nodes, NEW x, Arrives(n, m, x),
           NEW M, NEW a \in Nodes, KeyedAt(M, a), KeyedAt(M, m)
    PROVE  KeyedAt(M, a)'
<1>1. /\ NatMsg(x) /\ IsBuff(x) /\ x.table \in Tables /\ m # n
      /\ tcp[m] \in Seq(TcpMsg) /\ tcp[m] # <<>> /\ x = Head(tcp[m])
      /\ tcp'[m] = Tail(tcp[m])
  BY ArrivesNat
<1>2. KeyedMsg(M, x) /\ KeyedPipe(M, tcp'[m])
  BY <1>1, KeyedMoves DEF KeyedAt
<1>3. PICK y : y = BuffMsg("EPUpdateBuffer", x.table, x.buff)
  OBVIOUS
<1>4. /\ \A b \in Nodes \ {m} : tcp'[b] = tcp[b]
      /\ UNCHANGED <<logPipe, outBuff, updateStore, pend>>
      /\ fwdPipe'[n] \in {fwdPipe[n], Append(fwdPipe[n], y)}
      /\ \A b \in Nodes \ {n} : fwdPipe'[b] = fwdPipe[b]
      /\ x \in UpdateBufferMsg /\ x.buff \in Buffer
  BY <1>3 DEF Arrives, TakeGives
<1>5. KeyedPipe(M, tcp'[a])
  BY <1>2, <1>4 DEF KeyedAt
<1>6. KeyedPipe(M, fwdPipe'[a])
  <2>1. y.type = "EPUpdateBuffer" /\ y.table = x.table /\ y.buff = x.buff
    BY <1>3 DEF BuffMsg
  <2>2. KeyedMsg(M, y)
    BY <1>1, <1>2, <2>1 DEF KeyedMsg
  <2>3. y \in FwdMsg /\ fwdPipe[n] \in Seq(FwdMsg)
    BY <1>1, <1>3, <1>4, BuffMsgType, FlowParts DEF PipeTypes
  <2>4. a = n => KeyedPipe(M, Append(fwdPipe[n], y))
    BY <2>2, <2>3, KeyedMoves DEF KeyedAt
  <2> QED
    BY <1>4, <2>4 DEF KeyedAt
<1>7. ASSUME NEW t \in Tables PROVE KeyedStore(M, Got(a, t)', t)
  <2>1. KeyedStore(M, Got(a, t), t) /\ NatStore(Got(a, t))
    BY KnownCount DEF KeyedAt, Counts, NatInv, StoresNat
  <2>2. CASE a = n /\ t = x.table
    <3>1. KeyedStore(M, x.buff.updates, t) /\ NatStore(x.buff.updates)
      BY <1>1, <1>2, <2>2 DEF KeyedMsg, NatMsg
    <3>2. KeyedStore(M, AddUpdates(Got(a, t), x.buff.updates), t)
      BY <2>1, <3>1, KeyedStores
    <3> QED
      BY <2>1, <2>2, <3>2 DEF Arrives, TakesIn
  <2>3. CASE a # n \/ t # x.table
    BY <2>1, <2>3 DEF Arrives, TakesIn
  <2> QED
    BY <2>2, <2>3
<1> QED
  BY <1>4, <1>5, <1>6, <1>7 DEF KeyedAt

(* Keys that fit in 32 bits.                                               *)
NarrowKeys == \A k \in Keys : NarrowKey(k) = k

(* A new update.                                                           *)
LEMMA KeyedMake ==
    ASSUME FlowInv, Counts, NarrowKeys, NEW n \in Nodes, NEW th \in Threads, NEW t0 \in Tables,
           NEW k \in Keys, MakeDoes(n, th, t0, k),
           NEW M, <<t0, k, NewToken(n)>> \in M, NEW a \in Nodes, KeyedAt(M, a)
    PROVE  KeyedAt(M, a)'
<1>1. UNCHANGED <<logPipe, fwdPipe, tcp, outBuff, updateStore>>
  BY DEF MakeDoes, propVars, propStores
<1>2. PICK d, m : d = Delta(NewToken(n)) /\ m = NewLog(n, t0, k)
  OBVIOUS
<1>3. /\ d \in Value /\ \A u \in Updates : d[u] # 0 => u = NewToken(n)
      /\ m.type = "EPUpdateLog" /\ m.table = t0 /\ m.key = k /\ m.delta = d /\ k \in AllKeys
  BY <1>2 DEF Delta, Value, NewLog, MakeDoes, NarrowKeys
<1>4. KeyedMsg(M, m)
  BY <1>3 DEF KeyedMsg, IsBuff
<1>5. ASSUME NEW s \in Threads PROVE KeyedPipe(M, pend'[a][s])
  <2>1. CASE a = n /\ s = th
    <3>1. pend'[n][th] = <<m>>
      BY <1>2 DEF MakeDoes
    <3> QED
      BY <1>4, <2>1, <3>1, KeyedOne
  <2> QED
    BY <2>1 DEF MakeDoes, KeyedAt
<1>6. ASSUME NEW t \in Tables PROVE KeyedStore(M, Got(a, t)', t)
  <2>1. KeyedStore(M, Got(a, t), t) /\ NatStore(Got(a, t))
    BY KnownCount DEF KeyedAt, Counts, NatInv, StoresNat
  <2>2. CASE a = n /\ t = t0
    <3>1. Got(a, t)' = AddUpdate(Got(a, t), k, d)
      BY <1>2, <2>2, MakeKnown DEF Counts, NatInv, StoresNat
    <3> QED
      BY <1>3, <2>1, <2>2, <3>1, KeyedStores
  <2>3. CASE a # n \/ t # t0
    BY <2>1, <2>3, MakeKnown DEF Counts, NatInv, StoresNat
  <2> QED
    BY <2>2, <2>3
<1> QED
  BY <1>1, <1>5, <1>6 DEF KeyedAt

(* Every step.                                                             *)
LEMMA KeyedStep ==
    ASSUME FlowInv, NoRing, Counts, NarrowKeys, Keyed, [Next]_vars
    PROVE  Keyed'
<1>1. PICK M, N : M = Made /\ N = Made'
  OBVIOUS
<1>2. M \subseteq N
  <2> SUFFICES ASSUME NEW p \in M PROVE p \in N
    OBVIOUS
  <2>1. /\ p \in Tables \X AllKeys \X Updates /\ p[1] \in Tables /\ p[2] \in AllKeys
        /\ p[3] \in Updates /\ Got(p[3][1], p[1]).val[p[2]][p[3]] # 0
    BY <1>1 DEF Made
  <2>2. p[3][1] \in Nodes
    BY <2>1, UpdateParts
  <2>3. Got(p[3][1], p[1])'.val[p[2]][p[3]] # 0
    BY <2>1, <2>2, TablesGrow
  <2> QED
    BY <1>1, <2>1, <2>3 DEF Made
<1>3. \A a \in Nodes : KeyedAt(M, a) /\ NatInv(a)
  BY <1>1 DEF Keyed, Counts
<1>4. \A a \in Nodes : KeyedAt(N, a)
  BY <1>2, <1>3, KeyedMore DEF KeyedAt
<1>5. ASSUME NEW a \in Nodes PROVE KeyedAt(N, a)'
  <2>1. CASE Calm
    BY <1>3, <1>4, <2>1, KeyedCalm DEF Calm
  <2>2. ASSUME NEW n \in Nodes, NEW th \in Threads, NEW m, HandDoes(n, th, m)
        PROVE  KeyedAt(N, a)'
    BY <1>4, <2>2, KeyedHand
  <2>3. ASSUME NEW n \in Nodes, NEW th \in Threads, NEW t \in Tables, NEW k \in Keys,
               MakeDoes(n, th, t, k)
        PROVE  KeyedAt(N, a)'
    <3>1. <<t, k, NewToken(n)>> \in N
      <4>1. PICK u : u = NewToken(n)
        OBVIOUS
      <4>2. u \in Updates /\ u[1] = n /\ k \in AllKeys
        BY <2>3, <4>1 DEF MakeDoes, NewToken
      <4>3. NatStore(Got(n, t)) /\ LoopInv(n)
        BY <1>3, KnownCount DEF NatInv, StoresNat
      <4>4. PICK s, d : s = Got(n, t) /\ d = Delta(u)
        OBVIOUS
      <4>5. s.val \in [AllKeys -> Value] /\ s.val[k][u] \in Nat /\ d[u] = 1
        BY <4>2, <4>3, <4>4 DEF NatStore, Store, Delta
      <4>6. Got(n, t)' = AddUpdate(s, k, d)
        BY <2>3, <4>1, <4>3, <4>4, MakeKnown
      <4>7. AddUpdate(s, k, d).val[k][u] = s.val[k][u] + d[u]
        BY <4>2, <4>5 DEF AddUpdate, VAdd
      <4>8. Got(n, t)'.val[k][u] # 0
        BY <4>5, <4>6, <4>7
      <4> QED
        BY <1>1, <4>1, <4>2, <4>8 DEF Made
    <3> QED
      BY <1>4, <2>3, <3>1, KeyedMake
  <2>4. ASSUME NEW n \in Nodes, NEW th \in Threads, NEW m, PutDoes(n, th, m)
        PROVE  KeyedAt(N, a)'
    BY <1>4, <2>4, KeyedPut
  <2>5. ASSUME NEW n \in Nodes, NEW t \in Tables, NEW x, FlushStep(n, t), FlushDoes(n, t, x)
        PROVE  KeyedAt(N, a)'
    BY <1>4, <2>5, KeyedFlush
  <2>6. ASSUME NEW n \in Nodes, NEW x, SendStep(n), SendDoes(n, x) PROVE KeyedAt(N, a)'
    BY <1>4, <2>6, KeyedSend
  <2>7. ASSUME NEW n \in Nodes, NEW x, MergeStep(n), x = Head(fwdPipe[n]) PROVE KeyedAt(N, a)'
    BY <1>4, <2>7, KeyedMerge
  <2>8. ASSUME NEW n \in Nodes, NEW m \in Nodes, NEW x, Arrives(n, m, x) PROVE KeyedAt(N, a)'
    BY <1>4, <2>8, KeyedTake
  <2> QED
    BY <2>1, <2>2, <2>3, <2>4, <2>5, <2>6, <2>7, <2>8, Kinds
<1> QED
  BY <1>1, <1>5 DEF Keyed, KeyedAt

-----------------------------------------------------------------------------
(* The updates of a node to a table stay in order.                         *)

Earlier(v, u) == v[1] = u[1] /\ v[2] < u[2]

(* Update v is in no pipe that leads to the store.                         *)
Merging(a, t, v) ==
    /\ InPipe(fwdPipe[a], t, v) = 0
    /\ InPipe(logPipe[a][Main], t, v) = 0 /\ InPipe(pend[a][Main], t, v) = 0

(* Update u has not overtaken v on its way from node a.                    *)
Line(a, t, v, u) ==
    /\ InPipe(tcp[a], t, u) # 0 =>
        InPipe(outBuff[a], t, v) = 0 /\ InStore(updateStore[a][t], v) = 0 /\ Merging(a, t, v)
    /\ InPipe(outBuff[a], t, u) # 0 =>
        InStore(updateStore[a][t], v) = 0 /\ Merging(a, t, v)
    /\ InStore(updateStore[a][t], u) # 0 => Merging(a, t, v)
    /\ InPipe(logPipe[a][Main], t, u) # 0 => InPipe(pend[a][Main], t, v) = 0

InLine(a, t, v, u) ==
    /\ Line(a, t, v, u)
    /\ InOrder(tcp[a], t, v, u) /\ InOrder(fwdPipe[a], t, v, u)
    /\ InOrder(logPipe[a][Main], t, v, u)

AllInLine ==
    \A a \in Nodes, t \in Tables, v \in Updates, u \in Updates :
        Earlier(v, u) => InLine(a, t, v, u)

(* What is on its way from a node with one thread.                         *)
LEMMA Stages ==
    ASSUME TypeInv, Threads = {Main}, NEW a \in Nodes, NatInv(a),
           NEW t \in Tables, NEW u \in Updates
    PROVE  /\ InPipe(fwdPipe[a], t, u) \in Nat /\ InStore(updateStore[a][t], u) \in Nat
           /\ InPipe(outBuff[a], t, u) \in Nat /\ InPipe(tcp[a], t, u) \in Nat
           /\ InPipe(pend[a][Main], t, u) \in Nat /\ InPipe(logPipe[a][Main], t, u) \in Nat
           /\ FromThreads(a, t, u)
                = InPipe(pend[a][Main], t, u) + InPipe(logPipe[a][Main], t, u)
           /\ OnTheWay(a, t, u) =
                InPipe(pend[a][Main], t, u) + InPipe(logPipe[a][Main], t, u)
                    + InPipe(fwdPipe[a], t, u) + InStore(updateStore[a][t], u)
                    + InPipe(outBuff[a], t, u) + InPipe(tcp[a], t, u)
           /\ OnTheWay(a, t, u) = 0 =>
                /\ InPipe(tcp[a], t, u) = 0 /\ InPipe(outBuff[a], t, u) = 0
                /\ InStore(updateStore[a][t], u) = 0 /\ Merging(a, t, u)
<1>1. /\ InPipe(fwdPipe[a], t, u) \in Nat /\ InStore(updateStore[a][t], u) \in Nat
      /\ InPipe(outBuff[a], t, u) \in Nat /\ InPipe(tcp[a], t, u) \in Nat
      /\ InPipe(pend[a][Main], t, u) \in Nat /\ InPipe(logPipe[a][Main], t, u) \in Nat
      /\ FromThreads(a, t, u) \in Nat
  BY WayCount
<1>2. FromThreads(a, t, u) = InPipe(pend[a][Main], t, u) + InPipe(logPipe[a][Main], t, u)
  <2>1. PICK f, g : /\ f = [th \in Threads |-> 0]
                    /\ g = [th \in Threads |-> InPipe(pend[a][th], t, u) + InPipe(logPipe[a][th], t, u)]
    OBVIOUS
  <2>2. /\ f \in [Threads -> Int] /\ f \in [Threads -> Nat] /\ g \in [Threads -> Int]
        /\ \A th \in Threads : f[th] = 0
        /\ \A th \in Threads \ {Main} : g[th] = f[th]
        /\ g[Main] = InPipe(pend[a][Main], t, u) + InPipe(logPipe[a][Main], t, u)
        /\ f[Main] = 0 /\ Main \in Threads /\ IsFiniteSet(Threads)
    BY <1>1, <2>1, FiniteAssumption
  <2>3. SumFunction(f) = 0
    BY ONLY <2>2, SumNat
  <2>4. SumFunction(g) = SumFunction(f) + (g[Main] - f[Main])
    BY ONLY <2>2, SumPoint
  <2>5. FromThreads(a, t, u) = SumFunction(g)
    BY <2>1 DEF FromThreads
  <2> QED
    BY <1>1, <2>2, <2>3, <2>4, <2>5
<1>3. OnTheWay(a, t, u) =
        InPipe(pend[a][Main], t, u) + InPipe(logPipe[a][Main], t, u)
            + InPipe(fwdPipe[a], t, u) + InStore(updateStore[a][t], u)
            + InPipe(outBuff[a], t, u) + InPipe(tcp[a], t, u)
  BY <1>2 DEF OnTheWay
<1>4. PICK b, c, d, e, f, g :
        /\ b = InPipe(pend[a][Main], t, u) /\ c = InPipe(logPipe[a][Main], t, u)
        /\ d = InPipe(fwdPipe[a], t, u) /\ e = InStore(updateStore[a][t], u)
        /\ f = InPipe(outBuff[a], t, u) /\ g = InPipe(tcp[a], t, u)
  OBVIOUS
<1>5. /\ b \in Nat /\ c \in Nat /\ d \in Nat /\ e \in Nat /\ f \in Nat /\ g \in Nat
      /\ OnTheWay(a, t, u) = b + c + d + e + f + g
  BY <1>1, <1>3, <1>4
<1>6. OnTheWay(a, t, u) = 0 => b = 0 /\ c = 0 /\ d = 0 /\ e = 0 /\ f = 0 /\ g = 0
  BY ONLY <1>5
<1> QED
  BY <1>1, <1>2, <1>3, <1>4, <1>6 DEF Merging

(* The threads hand over own updates, the receiver those of others.        *)
LEMMA OwnOrForeign ==
    ASSUME CarriedInv, NEW a \in Nodes, NEW t \in Tables, NEW u \in Updates
    PROVE  /\ InPipe(fwdPipe[a], t, u) # 0 => u[1] # a
           /\ (InPipe(logPipe[a][Main], t, u) # 0 \/ InPipe(pend[a][Main], t, u) # 0) => u[1] = a
<1>1. /\ FlowInv /\ TypeInv /\ PipeTypes /\ BuffersInv(a) /\ CarriedAt(a) /\ OwnThreads(a)
      /\ NatInv(a)
  BY FlowParts DEF CarriedInv, TreeInv, RecordsInv, Carried, Counts
<1>2. ASSUME InPipe(fwdPipe[a], t, u) # 0 PROVE u[1] # a
  <2>1. fwdPipe[a] \in Seq(FwdMsg) /\ NatPipe(fwdPipe[a])
    BY <1>1 DEF PipeTypes, NatInv, PipesNat
  <2>2. PICK i \in 1 .. Len(fwdPipe[a]) : InMessage(fwdPipe[a][i], t, u) # 0
    BY <1>2, <2>1, PipeCount
  <2>3. PICK x : x = fwdPipe[a][i]
    OBVIOUS
  <2>4. x \in FwdMsg /\ NatMsg(x) /\ InMessage(x, t, u) # 0
    BY <2>1, <2>2, <2>3 DEF NatPipe
  <2>5. x.type # "EPUpdateLog"
    BY <2>4 DEF FwdMsg, UpdateBufferMsg
  <2>6. IsBuff(x) /\ InStore(x.buff.updates, u) # 0
    BY <2>4, <2>5, MessageCount
  <2>7. x \in Buffs(fwdPipe[a])
    BY <2>1, <2>3, <2>6 DEF Buffs
  <2> QED
    BY <1>1, <2>6, <2>7 DEF CarriedAt, Labelled, BuffersInv
<1>3. ASSUME InPipe(logPipe[a][Main], t, u) # 0 \/ InPipe(pend[a][Main], t, u) # 0
      PROVE  u[1] = a
  <2>1. /\ InPipe(pend[a][Main], t, u) \in Nat /\ InPipe(logPipe[a][Main], t, u) \in Nat
        /\ FromThreads(a, t, u) \in Nat
        /\ InPipe(pend[a][Main], t, u) + InPipe(logPipe[a][Main], t, u) <= FromThreads(a, t, u)
    BY <1>1, ApplicationAssumption, WayCount
  <2>2. FromThreads(a, t, u) # 0
    BY <1>3, <2>1
  <2> QED
    BY <1>1, <2>2 DEF OwnThreads
<1> QED
  BY <1>2, <1>3

(* A node where nothing moves.                                             *)
LEMMA InLineCalm ==
    ASSUME NEW a \in Nodes, NatInv(a), CalmAt(a),
           NEW t \in Tables, NEW v \in Updates, NEW u \in Updates, InLine(a, t, v, u)
    PROVE  InLine(a, t, v, u)'
<1>1. /\ NatPipe(tcp[a]) /\ NatPipe(fwdPipe[a]) /\ NatPipe(logPipe[a][Main])
      /\ Silent(tcp[a], tcp'[a]) /\ Silent(fwdPipe[a], fwdPipe'[a])
      /\ Silent(logPipe[a][Main], logPipe'[a][Main])
  BY ApplicationAssumption DEF NatInv, PipesNat, ThreadsNat, CalmAt
<1>2. \A z \in Updates :
        /\ InPipe(tcp'[a], t, z) = InPipe(tcp[a], t, z)
        /\ InPipe(fwdPipe'[a], t, z) = InPipe(fwdPipe[a], t, z)
        /\ InPipe(logPipe'[a][Main], t, z) = InPipe(logPipe[a][Main], t, z)
  BY <1>1 DEF Silent
<1>3. /\ InOrder(tcp'[a], t, v, u) /\ InOrder(fwdPipe'[a], t, v, u)
      /\ InOrder(logPipe'[a][Main], t, v, u)
  BY <1>1 DEF Silent, InLine
<1>4. pend'[a] = pend[a] /\ outBuff'[a] = outBuff[a]
  BY DEF CalmAt
<1>5. \A z \in Updates :
        InStore(updateStore'[a][t], z) # 0 =>
            InStore(updateStore'[a][t], z) = InStore(updateStore[a][t], z)
  BY EmptyCount DEF CalmAt
<1>6. Line(a, t, v, u)'
  BY <1>2, <1>4, <1>5 DEF InLine, Line, Merging
<1> QED
  BY <1>3, <1>6 DEF InLine

(* The same for the nodes that a step does not touch.                      *)
LEMMA InLineElse ==
    ASSUME NEW a \in Nodes, NEW t \in Tables, NEW v \in Updates, NEW u \in Updates,
           InLine(a, t, v, u), tcp'[a] = tcp[a], fwdPipe'[a] = fwdPipe[a],
           outBuff'[a] = outBuff[a], updateStore'[a][t] = updateStore[a][t],
           pend'[a][Main] = pend[a][Main], logPipe'[a][Main] = logPipe[a][Main]
    PROVE  InLine(a, t, v, u)'
BY DEF InLine, Line, Merging

(* What SendBuffer does to the counts.                                     *)
LEMMA SendCounts ==
    ASSUME FlowInv, Counts, NEW n \in Nodes, NEW x, SendStep(n), SendDoes(n, x),
           HasDownstream(n), NEW t \in Tables, NEW z \in Updates
    PROVE  /\ InPipe(outBuff[n], t, z) = InMessage(x, t, z) /\ InPipe(outBuff'[n], t, z) = 0
           /\ InMessage(x, t, z) \in Nat /\ InPipe(tcp[n], t, z) \in Nat
           /\ InPipe(tcp'[n], t, z) = InMessage(x, t, z) + InPipe(tcp[n], t, z)
<1>1. x \in TcpMsg /\ tcp'[n] = Append(tcp[n], x)
  BY SendAppends
<1>2. outBuff[n] = <<x>> /\ outBuff'[n] = <<>> /\ NatPipe(outBuff[n])
  BY DEF SendDoes, Counts, NatInv, PipesNat
<1>3. NatMsg(x)
  <2>1. Len(<<x>>) = 1 /\ <<x>>[1] = x
    OBVIOUS
  <2> QED
    BY <1>2, <2>1 DEF NatPipe
<1>4. PICK q : q = tcp[n]
  OBVIOUS
<1>5. q \in Seq(TcpMsg) /\ NatPipe(q)
  BY <1>4, FlowParts DEF PipeTypes, Counts, NatInv, PipesNat
<1>6. InPipe(Append(q, x), t, z) = InMessage(x, t, z) + InPipe(q, t, z)
  BY ONLY <1>1, <1>3, <1>5, z \in Updates, PipeMoves
<1>7. InPipe(q, t, z) \in Nat /\ InMessage(x, t, z) \in Nat
  BY <1>3, <1>5, PipeCount, MessageCount
<1>8. InPipe(<<x>>, t, z) = InMessage(x, t, z) /\ InPipe(<<>>, t, z) = 0
  BY <1>3, OneMessage
<1> QED
  BY <1>1, <1>2, <1>4, <1>6, <1>7, <1>8

(* From a thread to the propagator's pipe.                                 *)
LEMMA InLineHand ==
    ASSUME FlowInv, Counts, Threads = {Main}, NEW n \in Nodes, NEW th \in Threads, NEW m,
           HandDoes(n, th, m), NEW a \in Nodes, NEW t \in Tables, NEW v \in Updates,
           NEW u \in Updates, InLine(a, t, v, u)
    PROVE  InLine(a, t, v, u)'
<1>1. UNCHANGED <<fwdPipe, tcp, outBuff, updateStore>>
  BY DEF HandDoes, propVars, propStores
<1>2. CASE a # n
  BY <1>1, <1>2, ApplicationAssumption, InLineElse DEF HandDoes
<1>3. CASE a = n
  <2>1. PICK q : q = logPipe[a][Main]
    OBVIOUS
  <2>2. /\ q \in Seq(LogMsg) /\ NatPipe(q) /\ m \in LogMsg /\ pend[a][Main] = <<m>>
        /\ pend'[a][Main] = <<>> /\ NatPipe(pend[a][Main])
        /\ logPipe'[a][Main] = IF pState[n] = "RUN" THEN Append(q, m) ELSE q
        /\ TypeInv /\ NatInv(a)
    BY <1>3, <2>1, FlowParts DEF HandDoes, PipeTypes, Counts, NatInv, ThreadsNat
  <2>3. NatMsg(m)
    <3>1. Len(<<m>>) = 1 /\ <<m>>[1] = m
      OBVIOUS
    <3> QED
      BY <2>2, <3>1 DEF NatPipe
  <2>4. \A z \in Updates :
            /\ InPipe(pend[a][Main], t, z) = InMessage(m, t, z) /\ InMessage(m, t, z) \in Nat
            /\ InPipe(pend'[a][Main], t, z) = 0
    BY <2>2, <2>3, OneMessage, MessageCount
  <2>5. \A z \in Updates : InPipe(Append(q, m), t, z) = InMessage(m, t, z) + InPipe(q, t, z)
    BY ONLY <2>2, <2>3, PipeMoves
  <2>6. \A z \in Updates :
            InPipe(logPipe'[a][Main], t, z) # 0 =>
                InPipe(logPipe[a][Main], t, z) # 0 \/ InPipe(pend[a][Main], t, z) # 0
    <3> TAKE z \in Updates
    <3>1. InPipe(q, t, z) \in Nat
      BY <2>2, PipeCount
    <3> QED
      BY <2>1, <2>2, <2>4, <2>5, <3>1
  <2>7. InOrder(logPipe'[a][Main], t, v, u)
    <3>1. InMessage(m, t, v) = 0 \/ InPipe(q, t, u) = 0
      BY <2>1, <2>4 DEF InLine, Line
    <3>2. InOrder(q, t, v, u)
      BY <2>1 DEF InLine
    <3>3. InOrder(Append(q, m), t, v, u)
      BY ONLY <2>2, <3>1, <3>2, v \in Updates, u \in Updates, OrderMoves
    <3> QED
      BY <2>2, <3>2, <3>3
  <2>8. Line(a, t, v, u)'
    BY <1>1, <2>4, <2>6 DEF InLine, Line, Merging
  <2> QED
    BY <1>1, <2>7, <2>8 DEF InLine
<1> QED
  BY <1>2, <1>3

(* A new update.  Later ones have not been made.                           *)
LEMMA InLineMake ==
    ASSUME FlowInv, Counts, Threads = {Main}, NEW n \in Nodes, NEW th \in Threads,
           NEW t0 \in Tables, NEW k \in Keys, MakeDoes(n, th, t0, k), NEW a \in Nodes,
           NEW t \in Tables, NEW v \in Updates, NEW u \in Updates, InLine(a, t, v, u),
           (a = n /\ v = NewToken(n)) => OnTheWay(a, t, u) = 0
    PROVE  InLine(a, t, v, u)'
<1>1. UNCHANGED <<logPipe, fwdPipe, tcp, outBuff, updateStore>>
  BY DEF MakeDoes, propVars, propStores
<1>2. CASE a # n
  BY <1>1, <1>2, ApplicationAssumption, InLineElse DEF MakeDoes
<1>3. CASE a = n
  <2>1. TypeInv /\ NatInv(a)
    BY FlowParts DEF Counts
  <2>2. PICK m : m = NewLog(n, t0, k)
    OBVIOUS
  <2>3. /\ m.type = "EPUpdateLog" /\ m.delta = Delta(NewToken(n))
        /\ pend'[a][Main] = <<m>> /\ m.table = t0
    BY <1>3, <2>2 DEF MakeDoes, NewLog
  <2>4. \A z \in Updates : m.delta[z] = IF z = NewToken(n) THEN 1 ELSE 0
    BY <2>3 DEF Delta
  <2>5. NatMsg(m)
    BY <2>3, <2>4 DEF NatMsg, IsBuff
  <2>6. \A z \in Updates : z # NewToken(n) => InPipe(pend'[a][Main], t, z) = 0
    <3> SUFFICES ASSUME NEW z \in Updates, z # NewToken(n) PROVE InPipe(<<m>>, t, z) = 0
      BY <2>3
    <3>1. InPipe(<<m>>, t, z) = InMessage(m, t, z)
      BY <2>5, OneMessage
    <3> QED
      BY <2>3, <2>4, <2>5, <3>1, MessageCount
  <2>7. v = NewToken(n) =>
            /\ InPipe(tcp[a], t, u) = 0 /\ InPipe(outBuff[a], t, u) = 0
            /\ InStore(updateStore[a][t], u) = 0 /\ InPipe(logPipe[a][Main], t, u) = 0
    <3>1. OnTheWay(a, t, u) = 0 =>
            /\ InPipe(tcp[a], t, u) = 0 /\ InPipe(outBuff[a], t, u) = 0
            /\ InStore(updateStore[a][t], u) = 0 /\ Merging(a, t, u)
      BY <2>1, Stages
    <3>2. v = NewToken(n) => OnTheWay(a, t, u) = 0
      BY <1>3
    <3> QED
      BY <3>1, <3>2 DEF Merging
  <2>8. Line(a, t, v, u)'
    BY <1>1, <2>6, <2>7 DEF InLine, Line, Merging
  <2> QED
    BY <1>1, <2>8 DEF InLine
<1> QED
  BY <1>2, <1>3

(* From the propagator's pipe to the store.                                *)
LEMMA InLinePut ==
    ASSUME CarriedInv, Threads = {Main}, NEW n \in Nodes, NEW th \in Threads, NEW m,
           PutDoes(n, th, m), NEW a \in Nodes, NEW t \in Tables, NEW v \in Updates,
           NEW u \in Updates, InLine(a, t, v, u), Earlier(v, u)
    PROVE  InLine(a, t, v, u)'
<1>1. UNCHANGED <<fwdPipe, tcp, outBuff, pend>>
  BY DEF PutDoes, appVars
<1>2. CASE a # n
  BY <1>1, <1>2, ApplicationAssumption, InLineElse DEF PutDoes
<1>3. CASE a = n
  <2>1. PICK q : q = logPipe[a][Main]
    OBVIOUS
  <2>2. FlowInv /\ NatInv(a) /\ TypeInv /\ PipeTypes
    BY FlowParts DEF CarriedInv, TreeInv, RecordsInv, Counts
  <2>3. /\ q \in Seq(LogMsg) /\ NatPipe(q) /\ q # <<>> /\ m = Head(q)
        /\ logPipe'[a][Main] = Tail(q)
    BY <1>3, <2>1, <2>2, ApplicationAssumption DEF PipeTypes, NatInv, ThreadsNat, PutDoes
  <2>4. /\ NatMsg(m) /\ NatPipe(Tail(q)) /\ Tail(q) \in Seq(LogMsg)
        /\ \A z \in Updates : InPipe(q, t, z) = InMessage(m, t, z) + InPipe(Tail(q), t, z)
    BY ONLY <2>3, PipeMoves
  <2>5. /\ InOrder(Tail(q), t, v, u)
        /\ InMessage(m, t, u) = 0 \/ InPipe(Tail(q), t, v) = 0
    <3>1. InOrder(q, t, v, u)
      BY <2>1 DEF InLine
    <3> QED
      BY ONLY <2>3, <3>1, v \in Updates, u \in Updates, OrderMoves
  <2>6. \A z \in Updates :
            /\ InMessage(m, t, z) \in Nat /\ InPipe(Tail(q), t, z) \in Nat
            /\ InStore(updateStore[a][t], z) \in Nat
    BY <2>2, <2>4, MessageCount, PipeCount, StoreCount DEF NatInv, StoresNat
  <2>7. \A z \in Updates :
            InStore(updateStore'[a][t], z) # 0 =>
                InStore(updateStore[a][t], z) # 0 \/ InMessage(m, t, z) # 0
    <3> TAKE z \in Updates
    <3>1. CASE t = m.table
      <4>1. NatStore(updateStore[a][t]) /\ m.key \in AllKeys /\ m.delta \in Value
        BY <2>2, <3>1 DEF NatInv, StoresNat, PutDoes
      <4>2. m.type = "EPUpdateLog" /\ \A y \in Updates : m.delta[y] \in Nat
        BY <2>4 DEF NatMsg, PutDoes
      <4>3. InStore(AddUpdate(updateStore[a][t], m.key, m.delta), z)
                = InStore(updateStore[a][t], z) + m.delta[z]
        BY <4>1, <4>2, AddCount
      <4>4. InMessage(m, t, z) = m.delta[z]
        BY <2>4, <3>1, <4>2, MessageCount
      <4>5. updateStore'[a][t] \in {updateStore[a][t],
                                    AddUpdate(updateStore[a][t], m.key, m.delta)}
        BY <1>3, <3>1 DEF PutDoes
      <4> QED
        BY <2>6, <4>3, <4>4, <4>5
    <3>2. CASE t # m.table
      BY <1>3, <3>2 DEF PutDoes
    <3> QED
      BY <3>1, <3>2
  <2>8. InMessage(m, t, u) # 0 =>
            /\ InPipe(fwdPipe[a], t, v) = 0 /\ InPipe(pend[a][Main], t, v) = 0
    <3> SUFFICES ASSUME InMessage(m, t, u) # 0
                 PROVE  InPipe(fwdPipe[a], t, v) = 0 /\ InPipe(pend[a][Main], t, v) = 0
      OBVIOUS
    <3>1. InPipe(logPipe[a][Main], t, u) # 0
      BY <2>1, <2>4, <2>6
    <3>2. v[1] = a
      BY <3>1, OwnOrForeign DEF Earlier
    <3>3. InPipe(fwdPipe[a], t, v) = 0
      BY <3>2, OwnOrForeign
    <3> QED
      BY <3>1, <3>3 DEF InLine, Line
  <2>9. \A z \in Updates :
            /\ InPipe(logPipe'[a][Main], t, z) # 0 => InPipe(logPipe[a][Main], t, z) # 0
            /\ InMessage(m, t, z) # 0 => InPipe(logPipe[a][Main], t, z) # 0
    BY <2>1, <2>3, <2>4, <2>6
  <2>10. Line(a, t, v, u)'
    BY <1>1, <2>3, <2>5, <2>7, <2>8, <2>9 DEF InLine, Line, Merging
  <2> QED
    BY <1>1, <2>3, <2>5, <2>10 DEF InLine
<1> QED
  BY <1>2, <1>3

(* From the store to the buffer ...                                        *)
LEMMA InLineFlush ==
    ASSUME FlowInv, Counts, NEW n \in Nodes, NEW t0 \in Tables, NEW x, FlushStep(n, t0),
           FlushDoes(n, t0, x), NEW a \in Nodes, NEW t \in Tables, NEW v \in Updates,
           NEW u \in Updates, InLine(a, t, v, u)
    PROVE  InLine(a, t, v, u)'
<1>1. UNCHANGED <<logPipe, fwdPipe, tcp, pend>>
  BY DEF FlushStep, FlushTable, appVars
<1>2. /\ outBuff[n] = <<>> /\ outBuff'[n] = <<x>> /\ IsBuff(x) /\ x.table = t0
      /\ x.buff.updates = updateStore[n][t0] /\ updateStore'[n][t0] = EmptyStore
      /\ \A b \in Nodes \ {n} : outBuff'[b] = outBuff[b]
      /\ \A b \in Nodes, s \in Tables : (b # n \/ s # t0) => updateStore'[b][s] = updateStore[b][s]
  BY DEF FlushDoes
<1>3. CASE a # n
  BY <1>1, <1>2, <1>3, InLineElse
<1>4. CASE a = n
  <2>1. NatStore(x.buff.updates)
    BY <1>2 DEF Counts, NatInv, StoresNat
  <2>2. NatMsg(x)
    BY <1>2, <2>1 DEF NatMsg, IsBuff
  <2>3. \A z \in Updates :
            /\ InPipe(outBuff[a], t, z) = 0
            /\ InPipe(outBuff'[a], t, z) = IF t = t0 THEN InStore(updateStore[a][t], z) ELSE 0
    <3> TAKE z \in Updates
    <3>1. InPipe(<<x>>, t, z) = InMessage(x, t, z) /\ InPipe(<<>>, t, z) = 0
      BY <2>2, OneMessage
    <3>2. InMessage(x, t, z) = IF x.table = t THEN InStore(x.buff.updates, z) ELSE 0
      BY <1>2, <2>2, MessageCount
    <3> QED
      BY <1>2, <1>4, <3>1, <3>2
  <2>4. \A z \in Updates :
            InStore(updateStore'[a][t], z) = IF t = t0 THEN 0 ELSE InStore(updateStore[a][t], z)
    BY <1>2, <1>4, EmptyCount
  <2>5. Line(a, t, v, u)'
    BY <1>1, <2>3, <2>4 DEF InLine, Line, Merging
  <2> QED
    BY <1>1, <2>5 DEF InLine
<1> QED
  BY <1>3, <1>4

(* ... and on the wire.                                                    *)
LEMMA InLineSend ==
    ASSUME FlowInv, Counts, NEW n \in Nodes, NEW x, SendStep(n), SendDoes(n, x),
           HasDownstream(n), NEW a \in Nodes, NEW t \in Tables, NEW v \in Updates,
           NEW u \in Updates, InLine(a, t, v, u)
    PROVE  InLine(a, t, v, u)'
<1>1. /\ UNCHANGED <<logPipe, fwdPipe, pend, updateStore>>
      /\ x \in TcpMsg /\ tcp'[n] = Append(tcp[n], x)
  BY SendAppends
<1>2. /\ outBuff[n] = <<x>> /\ outBuff'[n] = <<>>
      /\ \A b \in Nodes \ {n} : tcp'[b] = tcp[b] /\ outBuff'[b] = outBuff[b]
  BY DEF SendDoes
<1>3. CASE a # n
  BY <1>1, <1>2, <1>3, InLineElse
<1>4. CASE a = n
  <2>1. \A z \in Updates :
            /\ InPipe(outBuff[a], t, z) = InMessage(x, t, z) /\ InPipe(outBuff'[a], t, z) = 0
            /\ InMessage(x, t, z) \in Nat /\ InPipe(tcp[a], t, z) \in Nat
            /\ InPipe(tcp'[a], t, z) = InMessage(x, t, z) + InPipe(tcp[a], t, z)
    BY <1>4, SendCounts
  <2>2. InOrder(tcp'[a], t, v, u)
    <3>1. PICK q : q = tcp[a]
      OBVIOUS
    <3>2. q \in Seq(TcpMsg) /\ NatPipe(q)
      BY <3>1, FlowParts DEF PipeTypes, Counts, NatInv, PipesNat
    <3>3. InMessage(x, t, v) = 0 \/ InPipe(q, t, u) = 0
      BY <2>1, <3>1 DEF InLine, Line
    <3>4. InOrder(q, t, v, u)
      BY <3>1 DEF InLine
    <3>5. InOrder(Append(q, x), t, v, u)
      BY ONLY <1>1, <3>2, <3>3, <3>4, v \in Updates, u \in Updates, OrderMoves
    <3> QED
      BY <1>1, <1>4, <3>1, <3>5
  <2>3. Line(a, t, v, u)'
    BY <1>1, <2>1 DEF InLine, Line, Merging
  <2> QED
    BY <1>1, <2>2, <2>3 DEF InLine
<1> QED
  BY <1>3, <1>4

(* From the receiver's pipe to the store.                                  *)
LEMMA InLineMerge ==
    ASSUME CarriedInv, NEW n \in Nodes, NEW x, MergeStep(n), x = Head(fwdPipe[n]),
           NEW a \in Nodes, NEW t \in Tables, NEW v \in Updates,
           NEW u \in Updates, InLine(a, t, v, u), Earlier(v, u)
    PROVE  InLine(a, t, v, u)'
<1>1. FlowInv /\ NatInv(a) /\ TypeInv /\ Counts
  BY FlowParts DEF CarriedInv, TreeInv, RecordsInv, Counts
<1>2. /\ IsBuff(x) /\ x.table \in Tables
      /\ fwdPipe[n] # <<>> /\ fwdPipe'[n] = Tail(fwdPipe[n]) /\ fwdPipe[n] \in Seq(FwdMsg)
      /\ updateStore'[n][x.table] \in {updateStore[n][x.table],
                                       AddUpdates(updateStore[n][x.table], x.buff.updates)}
      /\ \A b \in Nodes, s \in Tables : (b # n \/ s # x.table) =>
            updateStore'[b][s] = updateStore[b][s]
      /\ \A b \in Nodes \ {n} : fwdPipe'[b] = fwdPipe[b]
      /\ UNCHANGED <<logPipe, tcp, outBuff, pend>>
  BY <1>1, MergeAdds
<1>3. CASE a # n
  BY <1>2, <1>3, InLineElse
<1>4. CASE a = n
  <2>1. PICK q : q = fwdPipe[a]
    OBVIOUS
  <2>2. /\ q \in Seq(FwdMsg) /\ NatPipe(q) /\ q # <<>> /\ x = Head(q)
        /\ fwdPipe'[a] = Tail(q)
    BY <1>1, <1>2, <1>4, <2>1 DEF NatInv, PipesNat
  <2>3. /\ NatMsg(x) /\ NatPipe(Tail(q)) /\ Tail(q) \in Seq(FwdMsg)
        /\ \A z \in Updates : InPipe(q, t, z) = InMessage(x, t, z) + InPipe(Tail(q), t, z)
    BY ONLY <2>2, PipeMoves
  <2>4. /\ InOrder(Tail(q), t, v, u)
        /\ InMessage(x, t, u) = 0 \/ InPipe(Tail(q), t, v) = 0
    <3>1. InOrder(q, t, v, u)
      BY <2>1 DEF InLine
    <3> QED
      BY ONLY <2>2, <3>1, v \in Updates, u \in Updates, OrderMoves
  <2>5. \A z \in Updates :
            /\ InMessage(x, t, z) \in Nat /\ InPipe(Tail(q), t, z) \in Nat
            /\ InStore(updateStore[a][t], z) \in Nat
    BY <1>1, <2>3, MessageCount, PipeCount, StoreCount DEF NatInv, StoresNat
  <2>6. \A z \in Updates :
            InStore(updateStore'[a][t], z) # 0 =>
                InStore(updateStore[a][t], z) # 0 \/ InMessage(x, t, z) # 0
    <3> TAKE z \in Updates
    <3>1. CASE t = x.table
      <4>1. NatStore(updateStore[a][t]) /\ NatStore(x.buff.updates)
        BY <1>1, <1>2, <2>3 DEF NatInv, StoresNat, NatMsg
      <4>2. InStore(AddUpdates(updateStore[a][t], x.buff.updates), z)
                = InStore(updateStore[a][t], z) + InStore(x.buff.updates, z)
        BY <4>1, AddAllCount
      <4>3. InMessage(x, t, z) = InStore(x.buff.updates, z)
        BY <1>2, <2>3, <3>1, MessageCount
      <4> QED
        BY <1>2, <1>4, <2>5, <3>1, <4>2, <4>3
    <3>2. CASE t # x.table
      BY <1>2, <3>2
    <3> QED
      BY <3>1, <3>2
  <2>7. InMessage(x, t, u) # 0 =>
            /\ InPipe(logPipe[a][Main], t, v) = 0 /\ InPipe(pend[a][Main], t, v) = 0
    <3> SUFFICES ASSUME InMessage(x, t, u) # 0
                 PROVE  InPipe(logPipe[a][Main], t, v) = 0 /\ InPipe(pend[a][Main], t, v) = 0
      OBVIOUS
    <3>1. InPipe(fwdPipe[a], t, u) # 0
      BY <2>1, <2>3, <2>5
    <3>2. v[1] # a
      BY <3>1, OwnOrForeign DEF Earlier
    <3> QED
      BY <3>2, OwnOrForeign
  <2>8. \A z \in Updates :
            /\ InPipe(fwdPipe'[a], t, z) # 0 => InPipe(fwdPipe[a], t, z) # 0
            /\ InMessage(x, t, z) # 0 => InPipe(fwdPipe[a], t, z) # 0
    BY <2>1, <2>2, <2>3, <2>5
  <2>9. Line(a, t, v, u)'
    BY <1>2, <2>2, <2>4, <2>6, <2>7, <2>8 DEF InLine, Line, Merging
  <2> QED
    BY <1>2, <2>2, <2>4, <2>9 DEF InLine
<1> QED
  BY <1>3, <1>4

(* From one node to the next.  Later updates have not come there.          *)
LEMMA InLineTake ==
    ASSUME FlowInv, Counts, Threads = {Main}, NEW n \in Nodes, NEW m \in Nodes, NEW x,
           Arrives(n, m, x), NEW a \in Nodes, NEW t \in Tables, NEW v \in Updates,
           NEW u \in Updates, InLine(a, t, v, u),
           (a = n /\ InMessage(x, t, v) # 0) => OnTheWay(a, t, u) = 0
    PROVE  InLine(a, t, v, u)'
<1>1. /\ NatMsg(x) /\ IsBuff(x) /\ x.table \in Tables /\ m # n
      /\ tcp[m] \in Seq(TcpMsg) /\ tcp[m] # <<>> /\ x = Head(tcp[m])
      /\ tcp'[m] = Tail(tcp[m]) /\ NatPipe(tcp[m])
  BY ArrivesNat
<1>2. PICK y : y = BuffMsg("EPUpdateBuffer", x.table, x.buff)
  OBVIOUS
<1>3. /\ \A b \in Nodes \ {m} : tcp'[b] = tcp[b]
      /\ UNCHANGED <<logPipe, outBuff, updateStore, pend>>
      /\ fwdPipe'[n] \in {fwdPipe[n], Append(fwdPipe[n], y)}
      /\ \A b \in Nodes \ {n} : fwdPipe'[b] = fwdPipe[b]
      /\ x \in UpdateBufferMsg /\ x.buff \in Buffer
  BY <1>2 DEF Arrives, TakeGives
<1>4. CASE a = m
  <2>1. PICK q : q = tcp[a]
    OBVIOUS
  <2>2. q \in Seq(TcpMsg) /\ q # <<>> /\ NatPipe(q) /\ x = Head(q) /\ tcp'[a] = Tail(q)
    BY <1>1, <1>4, <2>1
  <2>3. /\ NatPipe(Tail(q)) /\ Tail(q) \in Seq(TcpMsg)
        /\ \A z \in Updates : InPipe(q, t, z) = InMessage(x, t, z) + InPipe(Tail(q), t, z)
    BY ONLY <2>2, PipeMoves
  <2>4. \A z \in Updates : InMessage(x, t, z) \in Nat /\ InPipe(Tail(q), t, z) \in Nat
    BY <1>1, <2>3, MessageCount, PipeCount
  <2>5. InOrder(Tail(q), t, v, u)
    <3>1. InOrder(q, t, v, u)
      BY <2>1 DEF InLine
    <3> QED
      BY ONLY <2>2, <3>1, v \in Updates, u \in Updates, OrderMoves
  <2>6. \A z \in Updates : InPipe(tcp'[a], t, z) # 0 => InPipe(tcp[a], t, z) # 0
    BY <2>1, <2>2, <2>3, <2>4
  <2>7. fwdPipe'[a] = fwdPipe[a]
    BY <1>1, <1>3, <1>4
  <2>8. Line(a, t, v, u)'
    BY <1>3, <2>6, <2>7 DEF InLine, Line, Merging
  <2> QED
    BY <1>3, <2>2, <2>5, <2>7, <2>8 DEF InLine
<1>5. CASE a # m /\ fwdPipe'[a] = fwdPipe[a]
  BY <1>3, <1>5, InLineElse
<1>6. CASE a = n /\ fwdPipe'[a] = Append(fwdPipe[a], y)
  <2>1. TypeInv /\ NatInv(a) /\ tcp'[a] = tcp[a]
    BY <1>1, <1>3, <1>6, FlowParts DEF Counts
  <2>2. PICK q : q = fwdPipe[a]
    OBVIOUS
  <2>3. q \in Seq(FwdMsg) /\ NatPipe(q) /\ y \in FwdMsg /\ fwdPipe'[a] = Append(q, y)
    BY <1>1, <1>2, <1>3, <1>6, <2>1, <2>2, BuffMsgType, FlowParts DEF PipeTypes, NatInv, PipesNat
  <2>4. y.type = "EPUpdateBuffer" /\ y.table = x.table /\ y.buff = x.buff
    BY <1>2 DEF BuffMsg
  <2>5. IsBuff(y) /\ NatMsg(y)
    BY <1>1, <2>4 DEF IsBuff, NatMsg
  <2>6. \A z \in Updates : InMessage(y, t, z) = InMessage(x, t, z) /\ InMessage(x, t, z) \in Nat
    <3> TAKE z \in Updates
    <3>1. InMessage(y, t, z) = IF y.table = t THEN InStore(y.buff.updates, z) ELSE 0
      BY <2>5, MessageCount
    <3>2. /\ InMessage(x, t, z) = IF x.table = t THEN InStore(x.buff.updates, z) ELSE 0
          /\ InMessage(x, t, z) \in Nat
      BY <1>1, MessageCount
    <3> QED
      BY <2>4, <3>1, <3>2
  <2>7. \A z \in Updates : InPipe(Append(q, y), t, z) = InMessage(y, t, z) + InPipe(q, t, z)
    BY ONLY <2>3, <2>5, PipeMoves
  <2>8. /\ InPipe(fwdPipe[a], t, u) \in Nat /\ InStore(updateStore[a][t], u) \in Nat
        /\ InPipe(outBuff[a], t, u) \in Nat /\ InPipe(tcp[a], t, u) \in Nat
        /\ InPipe(pend[a][Main], t, u) \in Nat /\ InPipe(logPipe[a][Main], t, u) \in Nat
        /\ OnTheWay(a, t, u) =
                InPipe(pend[a][Main], t, u) + InPipe(logPipe[a][Main], t, u)
                    + InPipe(fwdPipe[a], t, u) + InStore(updateStore[a][t], u)
                    + InPipe(outBuff[a], t, u) + InPipe(tcp[a], t, u)
    BY <2>1, Stages
  <2>9. InMessage(x, t, v) # 0 =>
            /\ InPipe(tcp[a], t, u) = 0 /\ InPipe(outBuff[a], t, u) = 0
            /\ InStore(updateStore[a][t], u) = 0 /\ InPipe(fwdPipe[a], t, u) = 0
    BY <1>6, <2>8
  <2>10. InOrder(Append(q, y), t, v, u)
    <3>1. InMessage(y, t, v) = 0 \/ InPipe(q, t, u) = 0
      BY <2>2, <2>6, <2>9
    <3>2. InOrder(q, t, v, u)
      BY <2>2 DEF InLine
    <3> QED
      BY ONLY <2>3, <3>1, <3>2, v \in Updates, u \in Updates, OrderMoves
  <2>11. InPipe(fwdPipe'[a], t, v) # 0 => InPipe(fwdPipe[a], t, v) # 0 \/ InMessage(x, t, v) # 0
    <3>1. InPipe(q, t, v) \in Nat
      BY <2>3, PipeCount
    <3> QED
      BY <2>2, <2>3, <2>6, <2>7, <3>1
  <2>12. Line(a, t, v, u)'
    BY <1>3, <2>1, <2>9, <2>11 DEF InLine, Line, Merging
  <2> QED
    BY <1>3, <2>1, <2>3, <2>10, <2>12 DEF InLine
<1> QED
  BY <1>3, <1>4, <1>5, <1>6

(* The steps, by what they do to the wires.                                *)
LEMMA WireKinds ==
    ASSUME FlowInv, NoRing, Counts, [Next]_vars
    PROVE  \/ \A a \in Nodes, t \in Tables, z \in Updates :
                InPipe(tcp'[a], t, z) = InPipe(tcp[a], t, z)
           \/ \E n \in Nodes : \E x : SendStep(n) /\ SendDoes(n, x)
           \/ \E n \in Nodes, m \in Nodes : \E x : Arrives(n, m, x)
<1>1. Calm => \A a \in Nodes, t \in Tables, z \in Updates :
                InPipe(tcp'[a], t, z) = InPipe(tcp[a], t, z)
  BY DEF Calm, CalmAt, Silent, Counts, NatInv, PipesNat
<1>2. ASSUME NEW n \in Nodes, NEW th \in Threads, NEW m,
             HandDoes(n, th, m) \/ PutDoes(n, th, m)
      PROVE  tcp' = tcp
  BY <1>2 DEF HandDoes, PutDoes
<1>3. ASSUME NEW n \in Nodes, NEW th \in Threads, NEW t \in Tables, NEW k \in Keys,
             MakeDoes(n, th, t, k)
      PROVE  tcp' = tcp
  BY <1>3 DEF MakeDoes
<1>4. ASSUME NEW n \in Nodes, NEW t \in Tables, FlushStep(n, t)
      PROVE  tcp' = tcp
  BY <1>4 DEF FlushStep, FlushTable
<1>5. ASSUME NEW n \in Nodes, NEW x, MergeStep(n), x = Head(fwdPipe[n])
      PROVE  tcp' = tcp
  BY <1>5, MergeAdds
<1> QED
  BY <1>1, <1>2, <1>3, <1>4, <1>5, Kinds

-----------------------------------------------------------------------------
(* A node sees the updates of each node to a table in order.               *)

(* Where u has come v has, if the node that made them has made v.          *)
After(a, t, v, u) ==
    (Reached(a, t, u) # 0 /\ Reached(u[1], t, v) # 0) => Reached(a, t, v) # 0

(* Where u is on the wire to d, v is too or has come there.                *)
Ahead(a, d, t, v, u) ==
    (/\ Downstream[a] = d /\ t \in Apply[d] /\ rState[d] = "RUN"
     /\ InPipe(tcp[a], t, u) # 0 /\ Reached(u[1], t, v) # 0)
        => Reached(d, t, v) # 0 \/ InPipe(tcp[a], t, v) # 0

ReachedInOrder ==
    \A a \in Nodes, t \in Tables, v \in Updates, u \in Updates :
        Earlier(v, u) => After(a, t, v, u)

SentInOrder ==
    \A a \in Nodes, d \in Nodes, t \in Tables, v \in Updates, u \in Updates :
        Earlier(v, u) => Ahead(a, d, t, v, u)

(* The updates that a node has counted it has made.                        *)
MadeInOrder ==
    \A u \in Updates : u[2] < incs[u[1]] => \E t \in Tables : Reached(u[1], t, u) # 0

ReplicaInv ==
    /\ ExactInv /\ Once /\ Keyed /\ AllInLine
    /\ ReachedInOrder /\ SentInOrder /\ MadeInOrder

(* What follows at once.                                                   *)
LEMMA ReplicaParts ==
    ASSUME ReplicaInv, AppliesForwarded
    PROVE  /\ CarriedInv /\ TreeInv /\ FlowInv /\ TypeInv /\ Counts /\ Counted
           /\ \A a \in Nodes : incs[a] \in Nat
           /\ \A a \in Nodes, t \in Tables, u \in Updates : PlaceOf(a, t, u)
<1>1. CarriedInv /\ TreeInv /\ FlowInv /\ TypeInv /\ Counts
  BY DEF ReplicaInv, ExactInv, CarriedInv, TreeInv, RecordsInv, FlowInv, ShutdownInv
<1>2. Counted
  BY <1>1, AllCounted
<1>3. \A a \in Nodes : incs[a] \in Nat
  <2>1. incs \in [Nodes -> 0 .. MaxInc]
    BY <1>1 DEF TypeInv, TypeOK, ApplicationTypeOK
  <2> QED
    BY <2>1, ApplicationAssumption
<1>4. Once
  BY DEF ReplicaInv
<1>5. \A a \in Nodes, t \in Tables, u \in Updates : PlaceOf(a, t, u)
  BY <1>2, <1>3, <1>4, OncePlaces
<1> QED
  BY <1>1, <1>2, <1>3, <1>5

(* A node that an update has reached keeps it.                             *)
LEMMA ReachedStays ==
    ASSUME FlowInv, FlowInv', Counts, Counted, NoRing, [Next]_vars,
           NEW a \in Nodes, NEW t \in Tables, NEW u \in Updates, Reached(a, t, u) # 0
    PROVE  Reached(a, t, u)' # 0
<1>1. Reached(a, t, u) \in Nat
  BY DEF Counted
<1>2. CASE Rests
  BY <1>2 DEF Rests, AllSteady, Steady
<1>3. ASSUME NEW n \in Nodes, NEW t0 \in Tables, Begins(n, t0) PROVE Reached(a, t, u)' # 0
  <2>1. PICK c : c = IF a = n /\ t = t0 /\ u = NewToken(n) THEN 1 ELSE 0
    OBVIOUS
  <2>2. c \in Nat /\ Reached(a, t, u)' = Reached(a, t, u) + c
    BY <1>3, <2>1 DEF Begins, Makes
  <2> QED
    BY <1>1, <2>2
<1>4. ASSUME NEW n \in Nodes, NEW m \in Nodes, NEW x, Arrives(n, m, x)
      PROVE  Reached(a, t, u)' # 0
  <2>1. PICK c : c = Came(x, t, u, Accepts(n, x) /\ t \in Apply[n])
    OBVIOUS
  <2>2. c \in Nat
    BY <1>4, <2>1 DEF Arrives, Comes, Came
  <2>3. Reached(a, t, u)' = Reached(a, t, u) \/ Reached(a, t, u)' = Reached(a, t, u) + c
    BY <1>4, <2>1 DEF Arrives, Comes
  <2> QED
    BY <1>1, <2>2, <2>3
<1> QED
  BY <1>2, <1>3, <1>4, Account DEF Counts

(* No step makes an update that is earlier than one already made.          *)
LEMMA NoneIsLate ==
    ASSUME ReplicaInv, FlowInv', AppliesForwarded, NoRing, [Next]_vars,
           NEW t \in Tables, NEW v \in Updates, NEW u \in Updates, Earlier(v, u),
           u[2] < incs[u[1]], Reached(u[1], t, v)' # 0
    PROVE  Reached(u[1], t, v) # 0
<1>1. FlowInv /\ Counts /\ CarriedInv
  BY ReplicaParts
<1>2. /\ u[1] \in Nodes /\ v[1] = u[1] /\ u[2] \in Nat /\ v[2] \in Nat /\ v[2] < u[2]
      /\ incs[u[1]] \in Nat
  BY UpdateParts, ReplicaParts DEF Earlier
<1>3. CASE Rests
  BY <1>2, <1>3 DEF Rests, AllSteady, Steady
<1>4. ASSUME NEW n \in Nodes, NEW t0 \in Tables, Begins(n, t0) PROVE Reached(u[1], t, v) # 0
  <2>1. ~(u[1] = n /\ v = NewToken(n))
    <3> SUFFICES ASSUME u[1] = n, v = NewToken(n) PROVE FALSE
      OBVIOUS
    <3>1. v[2] = incs[n]
      BY DEF NewToken
    <3> QED
      BY <1>2, <3>1
  <2>2. Counted
    BY ReplicaParts
  <2>3. Reached(u[1], t, v)' = Reached(u[1], t, v)
    BY <1>2, <1>4, <2>1, <2>2 DEF Begins, Makes, Counted
  <2> QED
    BY <2>3
<1>5. ASSUME NEW n \in Nodes, NEW m \in Nodes, NEW x, Arrives(n, m, x)
      PROVE  Reached(u[1], t, v) # 0
  <2>1. CASE u[1] = n /\ InMessage(x, t, v) # 0
    <3>1. m \in Reach(v[1]) /\ Downstream[m] = n
      BY <1>1, <1>5, <2>1, ArrivesWith DEF Arrives, Comes
    <3> QED
      BY <1>2, <2>1, <3>1, TreeStraight
  <2>2. CASE u[1] # n \/ InMessage(x, t, v) = 0
    <3>1. Reached(u[1], t, v) \in Nat
      BY <1>2, ReplicaParts DEF Counted
    <3>2. Reached(u[1], t, v)' = Reached(u[1], t, v)
      BY <1>2, <1>5, <2>2, <3>1 DEF Arrives, Comes, Came
    <3> QED
      BY <3>2
  <2> QED
    BY <2>1, <2>2
<1> QED
  BY <1>1, <1>3, <1>4, <1>5, Account DEF Counts

(* What is received with u.                                                *)
LEMMA ArrivesAfter ==
    ASSUME ReplicaInv, AppliesForwarded, NoRing, NEW n \in Nodes, NEW m \in Nodes, NEW x,
           Arrives(n, m, x), NEW t \in Tables, NEW v \in Updates, NEW u \in Updates,
           Earlier(v, u), Accepts(n, x), t \in Apply[n], InMessage(x, t, u) # 0,
           Reached(u[1], t, v) # 0
    PROVE  Reached(n, t, v) # 0 \/ InMessage(x, t, v) # 0
<1>1. FlowInv /\ Counts
  BY ReplicaParts
<1>2. PICK q : q = tcp[m]
  OBVIOUS
<1>3. q \in Seq(TcpMsg) /\ q # <<>> /\ x = Head(q) /\ NatPipe(q) /\ NatMsg(x)
  BY <1>1, <1>2, ArrivesNat
<1>4. /\ NatPipe(Tail(q)) /\ Tail(q) \in Seq(TcpMsg)
      /\ \A z \in Updates : InPipe(q, t, z) = InMessage(x, t, z) + InPipe(Tail(q), t, z)
  BY ONLY <1>3, PipeMoves
<1>5. \A z \in Updates : InMessage(x, t, z) \in Nat /\ InPipe(Tail(q), t, z) \in Nat
  BY <1>3, <1>4, MessageCount, PipeCount
<1>6. InPipe(q, t, u) # 0
  BY <1>4, <1>5
<1>7. Reached(n, t, v) # 0 \/ InPipe(q, t, v) # 0
  <2>1. Ahead(m, n, t, v, u)
    BY DEF ReplicaInv, SentInOrder
  <2> QED
    BY <1>2, <1>6, <2>1 DEF Ahead, Arrives, Comes, Accepts
<1>8. InOrder(q, t, v, u)
  BY <1>2 DEF ReplicaInv, AllInLine, InLine
<1>9. InPipe(Tail(q), t, v) = 0
  <2>1. InMessage(Head(q), t, u) = 0 \/ InPipe(Tail(q), t, v) = 0
    BY ONLY <1>3, <1>8, v \in Updates, u \in Updates, OrderMoves
  <2> QED
    BY <1>3, <2>1
<1> QED
  BY <1>4, <1>5, <1>7, <1>9

(* Every step, in the tables.                                              *)
LEMMA AfterStep ==
    ASSUME ReplicaInv, FlowInv', AppliesForwarded, NoRing, [Next]_vars,
           NEW a \in Nodes, NEW t \in Tables, NEW v \in Updates, NEW u \in Updates, Earlier(v, u)
    PROVE  After(a, t, v, u)'
<1> SUFFICES ASSUME Reached(a, t, u)' # 0, Reached(u[1], t, v)' # 0
             PROVE  Reached(a, t, v)' # 0
  BY DEF After
<1>1. FlowInv /\ Counts /\ Counted /\ After(a, t, v, u) /\ PlaceOf(a, t, u) /\ u[1] \in Nodes
  BY ReplicaParts, UpdateParts DEF ReplicaInv, ReachedInOrder
<1>2. CASE a = u[1]
  BY <1>2
<1>3. CASE Reached(a, t, u) # 0
  <2>1. u[2] < incs[u[1]]
    BY <1>1, <1>3 DEF PlaceOf
  <2>2. Reached(u[1], t, v) # 0
    BY <2>1, NoneIsLate
  <2>3. Reached(a, t, v) # 0
    BY <1>1, <1>3, <2>2 DEF After
  <2> QED
    BY <1>1, <2>3, ReachedStays
<1>4. CASE a # u[1] /\ Reached(a, t, u) = 0
  <2>1. CASE Rests
    BY <1>4, <2>1 DEF Rests, AllSteady, Steady
  <2>2. ASSUME NEW n \in Nodes, NEW t0 \in Tables, Begins(n, t0) PROVE Reached(a, t, v)' # 0
    <3>1. ~(a = n /\ u = NewToken(n))
      BY <1>4 DEF NewToken
    <3>2. Reached(a, t, u)' = Reached(a, t, u)
      BY <1>4, <2>2, <3>1 DEF Begins, Makes
    <3> QED
      BY <1>4, <3>2
  <2>3. ASSUME NEW n \in Nodes, NEW m \in Nodes, NEW x, Arrives(n, m, x)
        PROVE  Reached(a, t, v)' # 0
    <3>1. /\ InMessage(x, t, v) \in Nat
          /\ Reached(n, t, v)' = Reached(n, t, v) + Came(x, t, v, Accepts(n, x) /\ t \in Apply[n])
          /\ Reached(n, t, u)' = Reached(n, t, u) + Came(x, t, u, Accepts(n, x) /\ t \in Apply[n])
          /\ \A b \in Nodes \ {n} : Reached(b, t, u)' = Reached(b, t, u)
      BY <2>3 DEF Arrives, Comes
    <3>2. a = n /\ Accepts(n, x) /\ t \in Apply[n] /\ InMessage(x, t, u) # 0
      <4>1. a = n
        BY <1>4, <3>1
      <4> QED
        BY <1>4, <3>1, <4>1 DEF Came
    <3>3. OnTheWay(m, t, u) # 0
      <4>1. InMessage(x, t, u) \in Nat /\ InMessage(x, t, u) <= OnTheWay(m, t, u)
        BY <2>3 DEF Arrives, Comes
      <4>2. OnTheWay(m, t, u) \in Nat
        BY <1>1 DEF Counted
      <4> QED
        BY <3>2, <4>1, <4>2
    <3>4. u[2] < incs[u[1]]
      BY <3>3, ReplicaParts DEF PlaceOf
    <3>5. Reached(u[1], t, v) # 0
      BY <3>4, NoneIsLate
    <3>6. Reached(n, t, v) # 0 \/ InMessage(x, t, v) # 0
      BY <2>3, <3>2, <3>5, ArrivesAfter
    <3>7. Reached(n, t, v)' = Reached(n, t, v) + InMessage(x, t, v)
      BY <3>1, <3>2 DEF Came
    <3>8. Reached(n, t, v) \in Nat
      BY <1>1 DEF Counted
    <3> QED
      BY <3>1, <3>2, <3>6, <3>7, <3>8
  <2> QED
    BY <1>1, <2>1, <2>2, <2>3, Account DEF Counts
<1> QED
  BY <1>2, <1>3, <1>4

(* Update u leaves node a: v has left it, or leaves it now.                *)
LEMMA SendsAhead ==
    ASSUME ReplicaInv, AppliesForwarded, Threads = {Main}, NEW a \in Nodes, NEW d \in Nodes,
           NEW t \in Tables, NEW v \in Updates, NEW u \in Updates, Earlier(v, u), NEW x,
           SendDoes(a, x), Downstream[a] = d, t \in Apply[d], rState[d] = "RUN",
           InPipe(outBuff[a], t, u) # 0, Reached(u[1], t, v) # 0
    PROVE  \/ Reached(d, t, v) # 0
           \/ InPipe(tcp[a], t, v) # 0 \/ InPipe(outBuff[a], t, v) # 0
<1>1. FlowInv /\ Counts /\ Counted /\ TypeInv /\ NatInv(a) /\ u[1] \in Nodes /\ u[1] = v[1]
  BY ReplicaParts, UpdateParts DEF Counts, Earlier
<1>2. pState[a] = "RUN" /\ a \in Batched
  <2>1. PropagatorPhase(a)
    BY <1>1, FlowParts DEF Phases
  <2>2. OwnInv(a)
    BY DEF ReplicaInv, ExactInv, CarriedInv, TreeInv, RecordsInv
  <2>3. pPc[a] \in {"ack", "send"}
    BY DEF SendDoes
  <2> QED
    BY <2>1, <2>2, <2>3 DEF PropagatorPhase, OwnInv
<1>3. OnTheWay(a, t, u) # 0
  BY <1>1, Stages
<1>4. Reached(a, t, u) = 1 /\ a \in Reach(u[1]) /\ (a = u[1] \/ t \in Forward[a])
  BY <1>3, ReplicaParts DEF PlaceOf
<1>5. Carries(a, d, t, v)
  BY <1>1, <1>2, <1>4 DEF Carries
<1>6. Reached(a, t, v) = OnTheWay(a, t, v) + Reached(d, t, v)
  <2>1. Exact(a, d, t, v)
    BY DEF ReplicaInv, ExactInv, AllExact
  <2> QED
    BY <1>2, <1>5, <2>1 DEF Exact
<1>7. Reached(a, t, v) # 0
  <2>1. After(a, t, v, u)
    BY DEF ReplicaInv, ReachedInOrder
  <2> QED
    BY <1>4, <2>1 DEF After
<1>8. InStore(updateStore[a][t], v) = 0 /\ Merging(a, t, v)
  BY DEF ReplicaInv, AllInLine, InLine, Line
<1>9. /\ InPipe(pend[a][Main], t, v) = 0 /\ InPipe(logPipe[a][Main], t, v) = 0
      /\ InPipe(fwdPipe[a], t, v) = 0
  BY <1>8 DEF Merging
<1>10. /\ InPipe(outBuff[a], t, v) \in Nat /\ InPipe(tcp[a], t, v) \in Nat
       /\ OnTheWay(a, t, v) =
            InPipe(pend[a][Main], t, v) + InPipe(logPipe[a][Main], t, v)
                + InPipe(fwdPipe[a], t, v) + InStore(updateStore[a][t], v)
                + InPipe(outBuff[a], t, v) + InPipe(tcp[a], t, v)
  BY <1>1, Stages
<1>11. OnTheWay(a, t, v) = InPipe(outBuff[a], t, v) + InPipe(tcp[a], t, v)
  BY <1>8, <1>9, <1>10
<1> QED
  BY <1>6, <1>7, <1>10, <1>11

(* Every step, on the wires.                                               *)
LEMMA AheadStep ==
    ASSUME ReplicaInv, FlowInv', AppliesForwarded, NoRing, Threads = {Main}, [Next]_vars,
           NEW a \in Nodes, NEW d \in Nodes, NEW t \in Tables, NEW v \in Updates,
           NEW u \in Updates, Earlier(v, u)
    PROVE  Ahead(a, d, t, v, u)'
<1> SUFFICES ASSUME Downstream[a] = d, t \in Apply[d], rState'[d] = "RUN",
                    InPipe(tcp'[a], t, u) # 0, Reached(u[1], t, v)' # 0
             PROVE  Reached(d, t, v)' # 0 \/ InPipe(tcp'[a], t, v) # 0
  BY DEF Ahead
<1>1. /\ FlowInv /\ Counts /\ Counted /\ TypeInv /\ CarriedInv /\ TreeInv
      /\ Ahead(a, d, t, v, u) /\ PlaceOf(a, t, u) /\ u[1] \in Nodes /\ NatInv(a)
  BY ReplicaParts, UpdateParts DEF ReplicaInv, SentInOrder, Counts
<1>2. rState[d] = "RUN"
  <2>1. Rests => rState[d] = "RUN"
    BY DEF Rests
  <2>2. ASSUME NEW n \in Nodes, NEW t0 \in Tables, Begins(n, t0) PROVE rState[d] = "RUN"
    BY <2>2 DEF Begins
  <2>3. ASSUME NEW n \in Nodes, NEW m \in Nodes, NEW x, Arrives(n, m, x)
        PROVE  rState[d] = "RUN"
    BY <2>3 DEF Arrives, Comes
  <2> QED
    BY <1>1, <2>1, <2>2, <2>3, Account DEF Counts
<1>3. Reached(d, t, v) # 0 => Reached(d, t, v)' # 0
  BY <1>1, ReachedStays
<1>4. OnTheWay(a, t, u) # 0 => Reached(u[1], t, v) # 0
  <2> SUFFICES ASSUME OnTheWay(a, t, u) # 0 PROVE Reached(u[1], t, v) # 0
    OBVIOUS
  <2>1. u[2] < incs[u[1]]
    BY <1>1 DEF PlaceOf
  <2> QED
    BY <2>1, NoneIsLate
<1>5. \A z \in Updates :
        /\ InPipe(tcp[a], t, z) \in Nat /\ InPipe(outBuff[a], t, z) \in Nat
        /\ InPipe(tcp[a], t, z) # 0 \/ InPipe(outBuff[a], t, z) # 0 => OnTheWay(a, t, z) # 0
  BY <1>1, Stages
<1>6. InPipe(tcp[a], t, u) # 0 => Reached(d, t, v) # 0 \/ InPipe(tcp[a], t, v) # 0
  BY <1>1, <1>2, <1>4, <1>5 DEF Ahead
<1>7. CASE \A z \in Updates : InPipe(tcp'[a], t, z) = InPipe(tcp[a], t, z)
  BY <1>3, <1>6, <1>7
<1>8. ASSUME NEW n \in Nodes, NEW x, SendStep(n), SendDoes(n, x)
      PROVE  Reached(d, t, v)' # 0 \/ InPipe(tcp'[a], t, v) # 0
  <2>1. CASE a # n
    <3>1. tcp'[a] = tcp[a]
      BY <1>8, <2>1 DEF SendDoes
    <3> QED
      BY <1>3, <1>6, <3>1
  <2>2. CASE a = n
    <3>1. HasDownstream(n)
      BY <2>2, NodeIsNotNoNode DEF HasDownstream
    <3>2. \A z \in Updates :
            /\ InPipe(outBuff[a], t, z) = InMessage(x, t, z) /\ InMessage(x, t, z) \in Nat
            /\ InPipe(tcp'[a], t, z) = InMessage(x, t, z) + InPipe(tcp[a], t, z)
      BY <1>1, <1>8, <2>2, <3>1, SendCounts
    <3>3. CASE InPipe(tcp[a], t, u) # 0
      BY <1>3, <1>5, <1>6, <3>2, <3>3
    <3>4. CASE InPipe(tcp[a], t, u) = 0
      <4>1. InPipe(outBuff[a], t, u) # 0
        BY <1>5, <3>2, <3>4
      <4>2. Reached(u[1], t, v) # 0
        BY <1>4, <1>5, <4>1
      <4>3. \/ Reached(d, t, v) # 0
            \/ InPipe(tcp[a], t, v) # 0 \/ InPipe(outBuff[a], t, v) # 0
        BY <1>2, <1>8, <2>2, <4>1, <4>2, SendsAhead
      <4> QED
        BY <1>3, <1>5, <3>2, <4>3
    <3> QED
      BY <3>3, <3>4
  <2> QED
    BY <2>1, <2>2
<1>9. ASSUME NEW n \in Nodes, NEW m \in Nodes, NEW x, Arrives(n, m, x)
      PROVE  Reached(d, t, v)' # 0 \/ InPipe(tcp'[a], t, v) # 0
  <2>1. CASE a # m
    <3>1. tcp'[a] = tcp[a]
      BY <1>9, <2>1 DEF Arrives, TakeGives
    <3> QED
      BY <1>3, <1>6, <3>1
  <2>2. CASE a = m
    <3>1. n = d
      BY <1>9, <2>2 DEF Arrives, Comes
    <3>2. PICK q : q = tcp[a]
      OBVIOUS
    <3>3. /\ q \in Seq(TcpMsg) /\ q # <<>> /\ x = Head(q) /\ NatPipe(q) /\ NatMsg(x)
          /\ tcp'[a] = Tail(q)
      BY <1>1, <1>9, <2>2, <3>2, ArrivesNat
    <3>4. \A z \in Updates : InPipe(q, t, z) = InMessage(x, t, z) + InPipe(Tail(q), t, z)
      BY ONLY <3>3, PipeMoves
    <3>5. /\ \A z \in Updates : InMessage(x, t, z) \in Nat /\ InPipe(Tail(q), t, z) \in Nat
      <4>1. Tail(q) \in Seq(TcpMsg) /\ NatPipe(Tail(q))
        BY ONLY <3>3, PipeMoves
      <4> QED
        BY <3>3, <4>1, MessageCount, PipeCount
    <3>6. InPipe(tcp[a], t, u) # 0
      BY <3>2, <3>3, <3>4, <3>5
    <3>7. CASE InMessage(x, t, v) # 0
      <4>1. Accepts(n, x)
        BY <1>1, <1>2, <1>9, <3>1, <3>7, ArrivesWith
      <4>2. Reached(n, t, v)' = Reached(n, t, v) + InMessage(x, t, v)
        BY <1>9, <3>1, <4>1 DEF Arrives, Comes, Came
      <4>3. Reached(n, t, v) \in Nat
        BY <1>1 DEF Counted
      <4> QED
        BY <3>1, <3>5, <3>7, <4>2, <4>3
    <3>8. CASE InMessage(x, t, v) = 0
      <4>1. InPipe(tcp[a], t, v) = InPipe(tcp'[a], t, v)
        BY <3>2, <3>3, <3>4, <3>5, <3>8
      <4> QED
        BY <1>3, <1>6, <3>6, <4>1
    <3> QED
      BY <3>7, <3>8, <3>5
  <2> QED
    BY <2>1, <2>2
<1> QED
  BY <1>1, <1>7, <1>8, <1>9, WireKinds

(* Every step, at every node.                                              *)
LEMMA InLineStep ==
    ASSUME ReplicaInv, AppliesForwarded, NoRing, Threads = {Main}, [Next]_vars,
           NEW a \in Nodes, NEW t \in Tables, NEW v \in Updates, NEW u \in Updates, Earlier(v, u)
    PROVE  InLine(a, t, v, u)'
<1>1. /\ FlowInv /\ Counts /\ Counted /\ CarriedInv /\ TreeInv /\ NatInv(a)
      /\ InLine(a, t, v, u) /\ PlaceOf(a, t, u)
  BY ReplicaParts DEF ReplicaInv, AllInLine, Counts
<1>2. /\ u[1] \in Nodes /\ v[1] = u[1] /\ u[2] \in Nat /\ v[2] \in Nat /\ v[2] < u[2]
  BY UpdateParts DEF Earlier
<1>3. CASE Calm
  BY <1>1, <1>3, InLineCalm DEF Calm
<1>4. ASSUME NEW n \in Nodes, NEW th \in Threads, NEW m, HandDoes(n, th, m)
      PROVE  InLine(a, t, v, u)'
  BY <1>1, <1>4, InLineHand
<1>5. ASSUME NEW n \in Nodes, NEW th \in Threads, NEW s \in Tables, NEW k \in Keys,
             MakeDoes(n, th, s, k)
      PROVE  InLine(a, t, v, u)'
  <2>1. ASSUME a = n, v = NewToken(n) PROVE OnTheWay(a, t, u) = 0
    <3>1. v[1] = n /\ v[2] = incs[n] /\ incs[n] \in Nat
      BY <2>1, ReplicaParts DEF NewToken
    <3>2. ~(u[2] < incs[u[1]])
      BY <1>2, <3>1
    <3> QED
      BY <1>1, <3>2 DEF PlaceOf
  <2> QED
    BY <1>1, <1>5, <2>1, InLineMake
<1>6. ASSUME NEW n \in Nodes, NEW th \in Threads, NEW m, PutDoes(n, th, m)
      PROVE  InLine(a, t, v, u)'
  BY <1>1, <1>6, InLinePut
<1>7. ASSUME NEW n \in Nodes, NEW s \in Tables, NEW x, FlushStep(n, s), FlushDoes(n, s, x)
      PROVE  InLine(a, t, v, u)'
  BY <1>1, <1>7, InLineFlush
<1>8. ASSUME NEW n \in Nodes, NEW x, SendStep(n), SendDoes(n, x) PROVE InLine(a, t, v, u)'
  <2>1. HasDownstream(n)
    BY <1>1, <1>8 DEF TreeInv, TreeNode, SendDoes
  <2> QED
    BY <1>1, <1>8, <2>1, InLineSend
<1>9. ASSUME NEW n \in Nodes, NEW x, MergeStep(n), x = Head(fwdPipe[n])
      PROVE  InLine(a, t, v, u)'
  BY <1>1, <1>9, InLineMerge
<1>10. ASSUME NEW n \in Nodes, NEW m \in Nodes, NEW x, Arrives(n, m, x)
       PROVE  InLine(a, t, v, u)'
  <2>1. ASSUME a = n, InMessage(x, t, v) # 0, OnTheWay(a, t, u) # 0 PROVE FALSE
    <3>1. /\ InMessage(x, t, v) \in Nat /\ InMessage(x, t, v) <= OnTheWay(m, t, v)
          /\ Downstream[m] = n
      BY <1>10 DEF Arrives, Comes
    <3>2. OnTheWay(m, t, v) \in Nat
      BY <1>1 DEF Counted
    <3>3. OnTheWay(m, t, v) # 0
      BY <2>1, <3>1, <3>2
    <3>4. Reached(v[1], t, v) = 1 /\ Reached(n, t, v) = 0
      BY <3>1, <3>3, ReplicaParts DEF PlaceOf
    <3>5. Reached(n, t, u) = 1
      BY <1>1, <2>1 DEF PlaceOf
    <3>6. After(n, t, v, u)
      BY DEF ReplicaInv, ReachedInOrder
    <3> QED
      BY <1>2, <3>4, <3>5, <3>6 DEF After
  <2> QED
    BY <1>1, <1>10, <2>1, InLineTake
<1> QED
  BY <1>1, <1>3, <1>4, <1>5, <1>6, <1>7, <1>8, <1>9, <1>10, Kinds

(* A node counts what it makes.                                            *)
LEMMA MadeStep ==
    ASSUME ReplicaInv, FlowInv', AppliesForwarded, NoRing, [Next]_vars
    PROVE  MadeInOrder'
<1>1. FlowInv /\ Counts /\ Counted
  BY ReplicaParts
<1> SUFFICES ASSUME NEW u \in Updates, u[2] < incs'[u[1]]
             PROVE  \E t \in Tables : Reached(u[1], t, u)' # 0
  BY DEF MadeInOrder
<1>2. u[1] \in Nodes /\ u[2] \in Nat /\ u = <<u[1], u[2]>>
  BY UpdateParts
<1>3. CASE u[2] < incs[u[1]]
  <2>1. PICK t \in Tables : Reached(u[1], t, u) # 0
    BY <1>3 DEF ReplicaInv, MadeInOrder
  <2> QED
    BY <1>1, <1>2, <2>1, ReachedStays
<1>4. CASE ~(u[2] < incs[u[1]])
  <2>1. CASE Rests
    BY <1>2, <1>4, <2>1 DEF Rests
  <2>2. ASSUME NEW n \in Nodes, NEW t \in Tables, Begins(n, t)
        PROVE  \E s \in Tables : Reached(u[1], s, u)' # 0
    <3>1. u[1] = n /\ u[2] = incs[n]
      BY <1>2, <1>4, <2>2 DEF Begins
    <3>2. u = NewToken(n)
      BY <1>2, <3>1 DEF NewToken
    <3>3. Reached(n, t, u)' = Reached(n, t, u) + 1
      BY <2>2, <3>2 DEF Begins, Makes
    <3>4. Reached(n, t, u) \in Nat
      BY <1>1 DEF Counted
    <3>5. Reached(n, t, u)' # 0
      BY <3>3, <3>4
    <3> QED
      BY <3>1, <3>5
  <2>3. ASSUME NEW n \in Nodes, NEW m \in Nodes, NEW x, Arrives(n, m, x)
        PROVE  \E s \in Tables : Reached(u[1], s, u)' # 0
    BY <1>2, <1>4, <2>3 DEF Arrives, Comes
  <2> QED
    BY <1>1, <2>1, <2>2, <2>3, Account DEF Counts
<1> QED
  BY <1>3, <1>4

(* Initially there is nothing to order.                                    *)
LEMMA ReplicaInit == Init => ReplicaInv
<1> SUFFICES ASSUME Init PROVE ReplicaInv
  OBVIOUS
<1>1. ExactInv /\ Once
  BY ExactInit, OnceInit DEF OnceInv
<1>2. /\ Counts
      /\ \A a \in Nodes, t \in Tables, u \in Updates :
            Reached(a, t, u) = 0 /\ OnTheWay(a, t, u) = 0
  BY CountsInit
<1>3. ASSUME NEW a \in Nodes
      PROVE  /\ tcp[a] = <<>> /\ outBuff[a] = <<>> /\ fwdPipe[a] = <<>>
             /\ \A th \in Threads : pend[a][th] = <<>> /\ logPipe[a][th] = <<>>
             /\ \A t \in Tables : /\ updateStore[a][t] = EmptyStore
                                 /\ storage[a][t] = EmptyStore /\ toApply[a][t] = EmptyStore
             /\ incs[a] = 0
  BY DEF Init, WiresInit, PropagatorInit, ReceiverInit, ApplicationInit, InternalTableInit
<1>4. PICK e : e = << >>
  OBVIOUS
<1>5. /\ NatPipe(e) /\ \A t, u : u \in Updates => InPipe(e, t, u) = 0
      /\ \A t, v, u : InOrder(e, t, v, u)
      /\ \A M : KeyedPipe(M, e)
  <2>1. e \in Seq(Nodes) /\ Len(e) = 0 /\ \A i \in 1 .. Len(e) : FALSE
    BY <1>4
  <2>2. NatPipe(e)
    BY <2>1 DEF NatPipe
  <2>3. \A t, u : u \in Updates => InPipe(e, t, u) = 0
    BY <2>1, <2>2, PipeCount
  <2>4. (\A t, v, u : InOrder(e, t, v, u)) /\ \A M : KeyedPipe(M, e)
    BY <2>1 DEF InOrder, KeyedPipe
  <2> QED
    BY <2>2, <2>3, <2>4
<1>6. Keyed
  <2>1. \A a \in Nodes : /\ tcp[a] = e /\ outBuff[a] = e /\ fwdPipe[a] = e
                         /\ \A th \in Threads : pend[a][th] = e /\ logPipe[a][th] = e
    BY <1>3, <1>4
  <2>2. \A a \in Nodes, t \in Tables : /\ KeyedStore(Made, Got(a, t), t)
                                       /\ KeyedStore(Made, updateStore[a][t], t)
    <3>1. NatStore(EmptyStore)
      BY EmptyCount
    <3>2. \A a \in Nodes, t \in Tables : Got(a, t) = EmptyStore
      BY <1>3, <3>1, AddNothing DEF Got
    <3> QED
      BY <1>3, <3>2, KeyedStores
  <2> QED
    BY <1>5, <2>1, <2>2 DEF Keyed, KeyedAt
<1>7. AllInLine
  <2> SUFFICES ASSUME NEW a \in Nodes, NEW t \in Tables, NEW v \in Updates, NEW u \in Updates
               PROVE  InLine(a, t, v, u)
    BY DEF AllInLine
  <2>1. /\ tcp[a] = e /\ outBuff[a] = e /\ fwdPipe[a] = e /\ logPipe[a][Main] = e
        /\ pend[a][Main] = e /\ updateStore[a][t] = EmptyStore
    BY <1>3, <1>4, ApplicationAssumption
  <2>2. InStore(updateStore[a][t], u) = 0 /\ InStore(updateStore[a][t], v) = 0
    BY <2>1, EmptyCount
  <2> QED
    BY <1>5, <2>1, <2>2 DEF InLine, Line
<1>8. ReachedInOrder /\ SentInOrder
  BY <1>2, UpdateParts DEF ReachedInOrder, SentInOrder, After, Ahead
<1>9. MadeInOrder
  BY <1>3, UpdateParts DEF MadeInOrder
<1> QED
  BY <1>1, <1>6, <1>7, <1>8, <1>9 DEF ReplicaInv

(* The invariant is kept.                                                  *)
LEMMA ReplicaKept ==
    ASSUME NoRing, QuietSinks, AppliesForwarded, NarrowKeys, Threads = {Main},
           ReplicaInv, [Next]_vars
    PROVE  ReplicaInv'
<1>1. ExactInv /\ Once /\ Keyed /\ FlowInv /\ Counts
  BY ReplicaParts DEF ReplicaInv
<1>2. ExactInv'
  BY <1>1, ExactKept
<1>3. FlowInv'
  BY <1>1, FlowStep
<1>4. Once'
  BY <1>1, OnceKept DEF OnceInv
<1>5. Keyed'
  BY <1>1, KeyedStep
<1>6. AllInLine'
  BY InLineStep DEF AllInLine, Earlier
<1>7. ReachedInOrder'
  BY <1>3, AfterStep DEF ReachedInOrder, Earlier
<1>8. SentInOrder'
  BY <1>3, AheadStep DEF SentInOrder, Earlier
<1>9. MadeInOrder'
  BY <1>3, MadeStep
<1> QED
  BY <1>2, <1>4, <1>5, <1>6, <1>7, <1>8, <1>9 DEF ReplicaInv

-----------------------------------------------------------------------------
(* The tables implement Replication.                                       *)

Knowns == [n \in Nodes |-> [t \in Tables |-> [k \in AllKeys |->
                VAdd(storage[n][t].val[k], toApply[n][t].val[k])]]]

Replicas == [n \in Nodes |-> [t \in Tables |-> storage[n][t].val]]

(* What the nodes know, table by table ...                                 *)
LEMMA KnownsAre ==
    /\ Knowns = [n \in Nodes |-> [t \in Tables |-> Got(n, t).val]]
    /\ \A n \in Nodes, t \in Tables : Got(n, t).val = Knowns[n][t]
<1>1. ASSUME NEW n \in Nodes, NEW t \in Tables
      PROVE  Got(n, t).val = [k \in AllKeys |-> VAdd(storage[n][t].val[k], toApply[n][t].val[k])]
  BY DEF Got, AddUpdates
<1> QED
  BY <1>1 DEF Knowns

(* ... also after a step ...                                               *)
LEMMA NextKnownsAre ==
    /\ Knowns' = [n \in Nodes |-> [t \in Tables |-> Got(n, t)'.val]]
    /\ \A n \in Nodes, t \in Tables : Got(n, t)'.val = Knowns'[n][t]
<1>1. ASSUME NEW n \in Nodes, NEW t \in Tables
      PROVE  Got(n, t)'.val
                = [k \in AllKeys |-> VAdd(storage'[n][t].val[k], toApply'[n][t].val[k])]
  BY DEF Got, AddUpdates
<1> QED
  BY <1>1 DEF Knowns

(* ... that tells them nothing.                                            *)
LEMMA KnownsSame ==
    ASSUME \A n \in Nodes, t \in Tables : Got(n, t)'.val = Got(n, t).val
    PROVE  Knowns' = Knowns
<1>1. [n \in Nodes |-> [t \in Tables |-> Got(n, t)'.val]]
        = [n \in Nodes |-> [t \in Tables |-> Got(n, t).val]]
  OBVIOUS
<1> QED
  BY <1>1, KnownsAre, NextKnownsAre

(* Taking a buffer applies nothing, and all it knew was applied.           *)
LEMMA ReplicasKeep ==
    ASSUME NEW n \in Nodes, NEW m, NEW x, TakeGives(n, m, x), TakesIn(n, x)
    PROVE  Replicas' = Replicas /\ Replicas[n] = Knowns[n]
<1>1. storage' = storage /\ \A t \in Tables : Got(n, t).val = storage[n][t].val
  BY DEF TakeGives, TakesIn
<1>2. Replicas' = Replicas
  BY <1>1 DEF Replicas
<1>3. Replicas[n] = [t \in Tables |-> storage[n][t].val]
  BY DEF Replicas
<1>4. Knowns[n] = [t \in Tables |-> Got(n, t).val]
  BY KnownsAre
<1>5. Replicas[n] = Knowns[n]
  BY <1>1, <1>3, <1>4
<1> QED
  BY <1>2, <1>5

(* At first all tables are empty.                                          *)
LEMMA AbstractInit == Init => Abstract!Init
<1> SUFFICES ASSUME Init PROVE Abstract!Init
  OBVIOUS
<1>1. \A n \in Nodes, t \in Tables : storage[n][t] = EmptyStore /\ toApply[n][t] = EmptyStore
  BY DEF Init, InternalTableInit, ReceiverInit
<1>2. EmptyStore.val = [k \in AllKeys |-> [u \in Updates |-> 0]]
  BY DEF EmptyStore, Zero
<1>3. \A k \in AllKeys : VAdd(EmptyStore.val[k], EmptyStore.val[k]) = [u \in Updates |-> 0]
  BY <1>2 DEF VAdd
<1>4. PICK e, z : z = [u \in Updates |-> 0] /\ e = [t \in Tables |-> [k \in AllKeys |-> z]]
  OBVIOUS
<1>5. \A n \in Nodes : [t \in Tables |-> storage[n][t].val] = e
  BY <1>1, <1>2, <1>4
<1>6. \A n \in Nodes : [t \in Tables |-> [k \in AllKeys |->
            VAdd(storage[n][t].val[k], toApply[n][t].val[k])]] = e
  <2>1. \A n \in Nodes, t \in Tables, k \in AllKeys :
            VAdd(storage[n][t].val[k], toApply[n][t].val[k]) = z
    BY <1>1, <1>3, <1>4
  <2> QED
    BY <1>4, <2>1
<1>7. Abstract!Nothing = e
  BY <1>4 DEF Abstract!Nothing
<1> QED
  BY <1>5, <1>6, <1>7 DEF Abstract!Init

(* An update that was made once has one key.                               *)
LEMMA OneKey ==
    ASSUME NEW s, NatStore(s), NEW u \in Updates, InStore(s, u) \in {0, 1},
           NEW k \in AllKeys, NEW l \in AllKeys, s.val[k][u] # 0, s.val[l][u] # 0
    PROVE  k = l
<1> SUFFICES ASSUME k # l PROVE FALSE
  OBVIOUS
<1>1. PICK f, g : /\ f = [j \in AllKeys |-> s.val[j][u]]
                  /\ g = [j \in AllKeys |-> IF j = k THEN 0 ELSE s.val[j][u]]
  OBVIOUS
<1>2. /\ f \in [AllKeys -> Nat] /\ f \in [AllKeys -> Int] /\ g \in [AllKeys -> Nat]
      /\ g \in [AllKeys -> Int] /\ \A j \in AllKeys \ {k} : g[j] = f[j]
      /\ g[k] = 0 /\ g[l] = s.val[l][u] /\ f[k] = s.val[k][u] /\ k \in AllKeys /\ l \in AllKeys
  BY <1>1 DEF NatStore
<1>3. SumFunction(g) = SumFunction(f) + (g[k] - f[k])
  BY ONLY <1>2, FiniteKeys, SumPoint
<1>4. SumFunction(g) \in Nat /\ g[l] <= SumFunction(g) /\ SumFunction(f) \in Nat
  BY ONLY <1>2, FiniteKeys, SumNat
<1>5. InStore(s, u) = SumFunction(f)
  BY <1>1 DEF InStore
<1>6. g[l] \in Nat /\ g[l] # 0 /\ f[k] \in Nat /\ f[k] # 0
  BY <1>2
<1> QED
  BY <1>2, <1>3, <1>4, <1>5, <1>6

(* Its copies have it too.                                                 *)
LEMMA KeysAgree ==
    ASSUME ReplicaInv, AppliesForwarded, NEW t \in Tables, NEW u \in Updates,
           NEW k \in AllKeys, NEW l \in AllKeys, <<t, k, u>> \in Made, <<t, l, u>> \in Made
    PROVE  k = l
<1>1. u[1] \in Nodes /\ TypeInv /\ NatInv(u[1]) /\ PlaceOf(u[1], t, u)
  BY UpdateParts, ReplicaParts DEF Counts
<1>2. PICK s : s = Got(u[1], t)
  OBVIOUS
<1>3. NatStore(s) /\ InStore(s, u) \in {0, 1}
  BY <1>1, <1>2, KnownCount DEF NatInv, StoresNat, PlaceOf, Reached
<1>4. s.val[k][u] # 0 /\ s.val[l][u] # 0
  BY <1>2 DEF Made
<1> QED
  BY ONLY <1>3, <1>4, u \in Updates, k \in AllKeys, l \in AllKeys, OneKey

(* What a replica knows.                                                   *)
LEMMA KnownIs ==
    ASSUME ReplicaInv, AppliesForwarded, NEW n \in Nodes, NEW t \in Tables
    PROVE  /\ NatStore(Got(n, t))
           /\ Abstract!Known(n, t) \subseteq AllKeys \X Updates
           /\ \A k \in AllKeys, u \in Updates :
                /\ <<k, u>> \in Abstract!Known(n, t) <=> Got(n, t).val[k][u] # 0
                /\ Got(n, t).val[k][u] # 0 => Reached(n, t, u) # 0 /\ <<t, k, u>> \in Made
           /\ \A u \in Updates : Reached(n, t, u) # 0 =>
                \E k \in AllKeys : Got(n, t).val[k][u] # 0
<1>1. TypeInv /\ NatInv(n) /\ Keyed
  BY ReplicaParts DEF Counts, ReplicaInv
<1>2. PICK s : s = Got(n, t)
  OBVIOUS
<1>3. NatStore(s)
  BY <1>1, <1>2, KnownCount DEF NatInv, StoresNat
<1>4. \A u \in Updates :
        /\ Reached(n, t, u) = InStore(s, u) /\ InStore(s, u) \in Nat
        /\ \A k \in AllKeys : s.val[k][u] \in Nat /\ s.val[k][u] <= InStore(s, u)
        /\ (\A k \in AllKeys : s.val[k][u] = 0) => InStore(s, u) = 0
  BY <1>2, <1>3, StoreCount DEF Reached
<1>5. Abstract!Known(n, t) = {p \in AllKeys \X Updates : s.val[p[1]][p[2]] > 0}
  BY <1>2, KnownsAre DEF Abstract!Known, Knowns
<1>6. \A k \in AllKeys, u \in Updates : <<k, u>> \in Abstract!Known(n, t) <=> s.val[k][u] # 0
  BY <1>4, <1>5
<1>7. \A k \in AllKeys, u \in Updates : s.val[k][u] # 0 => <<t, k, u>> \in Made
  BY <1>1, <1>2 DEF Keyed, KeyedAt, KeyedStore
<1>8. \A k \in AllKeys, u \in Updates : s.val[k][u] # 0 => Reached(n, t, u) # 0
  BY <1>4
<1>9. \A u \in Updates : Reached(n, t, u) # 0 => \E k \in AllKeys : s.val[k][u] # 0
  BY <1>4
<1> QED
  BY <1>2, <1>3, <1>5, <1>6, <1>7, <1>8, <1>9

(* The updates in S, added to a table.                                     *)
PlusOne(g, S) ==
    [k \in AllKeys |-> [u \in Updates |-> IF <<k, u>> \in S THEN g[k][u] + 1 ELSE g[k][u]]]

AllTables(R) == R = [b \in Nodes |-> [s \in Tables |-> R[b][s]]]

PlusAt(R, Q, n, t, S) ==
    /\ AllTables(R) /\ AllTables(Q) /\ Q[n][t] = PlusOne(R[n][t], S)
    /\ \A b \in Nodes, s \in Tables : (b # n \/ s # t) => Q[b][s] = R[b][s]

(* One table of all.                                                       *)
LEMMA PlusIs ==
    ASSUME NEW R, NEW Q, NEW n \in Nodes, NEW t \in Tables, NEW S, PlusAt(R, Q, n, t, S)
    PROVE  Q = Abstract!Plus(R, n, t, S)
<1>1. PICK f, h : f = Q[n][t] /\ h = [R[n] EXCEPT ![t] = f]
  OBVIOUS
<1>2. R[n] = [s \in Tables |-> R[n][s]] /\ Q[n] = [s \in Tables |-> Q[n][s]]
  BY DEF PlusAt, AllTables
<1>3. Q[n] = h
  BY <1>1, <1>2 DEF PlusAt
<1>4. ASSUME NEW b \in Nodes, b # n PROVE Q[b] = R[b]
  <2>1. R[b] = [s \in Tables |-> R[b][s]] /\ Q[b] = [s \in Tables |-> Q[b][s]]
    BY DEF PlusAt, AllTables
  <2>2. \A s \in Tables : Q[b][s] = R[b][s]
    BY <1>4 DEF PlusAt
  <2>3. [s \in Tables |-> Q[b][s]] = [s \in Tables |-> R[b][s]]
    BY <2>2
  <2> QED
    BY ONLY <2>1, <2>3
<1>5. Q = [b \in Nodes |-> Q[b]] /\ R = [b \in Nodes |-> R[b]]
  BY DEF PlusAt, AllTables
<1>6. Q = [R EXCEPT ![n] = h]
  BY ONLY <1>3, <1>4, <1>5, n \in Nodes
<1>7. Q = [R EXCEPT ![n][t] = f]
  BY ONLY <1>1, <1>6
<1>8. f = [k \in AllKeys |-> [u \in Updates |->
                IF <<k, u>> \in S THEN R[n][t][k][u] + 1 ELSE R[n][t][k][u]]]
  BY <1>1 DEF PlusAt, PlusOne
<1>9. Q = [R EXCEPT ![n][t] = [k \in AllKeys |-> [u \in Updates |->
                IF <<k, u>> \in S THEN @[k][u] + 1 ELSE @[k][u]]]]
  BY ONLY <1>7, <1>8
<1> QED
  BY ONLY <1>9 DEF Abstract!Plus

(* The same for what the nodes know ...                                    *)
LEMMA KnownsPlus ==
    ASSUME NEW n \in Nodes, NEW t \in Tables, NEW S,
           Got(n, t)'.val = PlusOne(Got(n, t).val, S),
           \A b \in Nodes, s \in Tables : (b # n \/ s # t) => Got(b, s)' = Got(b, s)
    PROVE  Knowns' = Abstract!Plus(Knowns, n, t, S)
<1>1. PICK R, Q : R = Knowns /\ Q = Knowns'
  OBVIOUS
<1>2. /\ R = [b \in Nodes |-> [s \in Tables |-> Got(b, s).val]]
      /\ Q = [b \in Nodes |-> [s \in Tables |-> Got(b, s)'.val]]
  BY <1>1, KnownsAre, NextKnownsAre
<1>3. /\ AllTables(R) /\ AllTables(Q)
      /\ \A b \in Nodes, s \in Tables :
            R[b][s] = Got(b, s).val /\ Q[b][s] = Got(b, s)'.val
  BY ONLY <1>2 DEF AllTables
<1>4. PlusAt(R, Q, n, t, S)
  BY <1>3 DEF PlusAt
<1>5. Q = Abstract!Plus(R, n, t, S)
  BY ONLY <1>4, n \in Nodes, t \in Tables, PlusIs
<1> QED
  BY ONLY <1>1, <1>5

(* ... and for the tables.                                                 *)
LEMMA ReplicasPlus ==
    ASSUME NEW n \in Nodes, NEW t \in Tables, NEW S,
           storage'[n][t].val = PlusOne(storage[n][t].val, S),
           \A b \in Nodes, s \in Tables : (b # n \/ s # t) => storage'[b][s] = storage[b][s]
    PROVE  Replicas' = Abstract!Plus(Replicas, n, t, S)
<1>1. PICK R, Q : R = Replicas /\ Q = Replicas'
  OBVIOUS
<1>2. /\ R = [b \in Nodes |-> [s \in Tables |-> storage[b][s].val]]
      /\ Q = [b \in Nodes |-> [s \in Tables |-> storage'[b][s].val]]
  BY <1>1 DEF Replicas
<1>3. /\ AllTables(R) /\ AllTables(Q)
      /\ \A b \in Nodes, s \in Tables :
            R[b][s] = storage[b][s].val /\ Q[b][s] = storage'[b][s].val
  BY ONLY <1>2 DEF AllTables
<1>4. PlusAt(R, Q, n, t, S)
  BY <1>3 DEF PlusAt
<1>5. Q = Abstract!Plus(R, n, t, S)
  BY ONLY <1>4, n \in Nodes, t \in Tables, PlusIs
<1> QED
  BY ONLY <1>1, <1>5

(* One new update in a store.                                              *)
LEMMA OneMore ==
    ASSUME NEW s, NatStore(s), NEW k \in AllKeys, NEW u \in Updates
    PROVE  AddUpdate(s, k, Delta(u)).val = PlusOne(s.val, {<<k, u>>})
<1>1. PICK f, d : f = s.val /\ d = Delta(u)
  OBVIOUS
<1>2. /\ f \in [AllKeys -> [Updates -> Int]]
      /\ \A z \in Updates : d[z] = IF z = u THEN 1 ELSE 0
  BY <1>1 DEF NatStore, Store, Value, Delta
<1>3. PICK S : S = {<<k, u>>}
  OBVIOUS
<1>4. \A l \in AllKeys, z \in Updates : <<l, z>> \in S <=> l = k /\ z = u
  BY <1>3
<1>5. VAdd(f[k], d) = [z \in Updates |-> IF <<k, z>> \in S THEN f[k][z] + 1 ELSE f[k][z]]
  <2>1. \A z \in Updates : f[k][z] \in Int
    BY <1>2
  <2>2. \A z \in Updates : f[k][z] + d[z] = IF <<k, z>> \in S THEN f[k][z] + 1 ELSE f[k][z]
    BY <1>2, <1>4, <2>1
  <2> QED
    BY <2>2 DEF VAdd
<1>6. \A l \in AllKeys \ {k} :
            f[l] = [z \in Updates |-> IF <<l, z>> \in S THEN f[l][z] + 1 ELSE f[l][z]]
  BY <1>2, <1>4
<1>7. PICK w : w = VAdd(f[k], d)
  OBVIOUS
<1>8. AddUpdate(s, k, d).val = [f EXCEPT ![k] = w]
  BY <1>1, <1>7 DEF AddUpdate
<1>9. AddUpdate(s, k, d).val = [l \in AllKeys |-> IF l = k THEN w ELSE f[l]]
  BY <1>2, <1>8
<1>10. AddUpdate(s, k, d).val = [l \in AllKeys |-> [z \in Updates |->
                IF <<l, z>> \in S THEN f[l][z] + 1 ELSE f[l][z]]]
  BY <1>5, <1>6, <1>7, <1>9
<1> QED
  BY <1>1, <1>3, <1>10 DEF PlusOne

(* Inc makes an update.                                                    *)
LEMMA AbstractMake ==
    ASSUME ReplicaInv, AppliesForwarded, NEW n \in Nodes, NEW th \in Threads, NEW t \in Tables,
           NEW k \in Keys, MakeDoes(n, th, t, k)
    PROVE  Abstract!Make(n)
<1>1. PICK u : u = NewToken(n)
  OBVIOUS
<1>2. u \in Updates /\ u[1] = n /\ u[2] = incs[n] /\ incs[n] \in Nat /\ k \in AllKeys
  BY <1>1 DEF MakeDoes, NewToken
<1>3. ~Abstract!Made(u)
  <2> SUFFICES ASSUME NEW s \in Tables, NEW l \in AllKeys, <<l, u>> \in Abstract!Known(n, s)
               PROVE  FALSE
    BY <1>2 DEF Abstract!Made
  <2>1. Reached(n, s, u) # 0
    BY <1>2, KnownIs
  <2> QED
    BY <1>2, <2>1, ReplicaParts DEF PlaceOf
<1>4. ASSUME NEW v \in Updates, v[1] = n, v[2] < u[2] PROVE Abstract!Made(v)
  <2>1. PICK s \in Tables : Reached(n, s, v) # 0
    BY <1>2, <1>4 DEF ReplicaInv, MadeInOrder
  <2>2. PICK l \in AllKeys : <<l, v>> \in Abstract!Known(n, s)
    BY <2>1, KnownIs
  <2> QED
    BY <1>4, <2>2 DEF Abstract!Made
<1>5. LoopInv(n)
  BY ReplicaParts DEF Counts, NatInv, StoresNat
<1>6. Knowns' = Abstract!Plus(Knowns, n, t, {<<k, u>>})
  <2>1. /\ Got(n, t)' = AddUpdate(Got(n, t), k, Delta(u))
        /\ \A b \in Nodes, s \in Tables : (b # n \/ s # t) => Got(b, s)' = Got(b, s)
    BY <1>1, <1>5, MakeKnown
  <2>2. NatStore(Got(n, t))
    BY <1>5, KnownCount
  <2>3. PICK s : s = Got(n, t)
    OBVIOUS
  <2>4. AddUpdate(s, k, Delta(u)).val = PlusOne(s.val, {<<k, u>>})
    BY <1>2, <2>2, <2>3, OneMore
  <2> QED
    BY <2>1, <2>3, <2>4, KnownsPlus
<1>7. Replicas' = Abstract!Plus(Replicas, n, t, {<<k, u>>})
  <2>1. /\ storage'[n][t] = AddUpdate(storage[n][t], k, Delta(u))
        /\ \A b \in Nodes, s \in Tables : (b # n \/ s # t) => storage'[b][s] = storage[b][s]
    BY <1>1 DEF MakeDoes
  <2>2. PICK s : s = storage[n][t]
    OBVIOUS
  <2>3. NatStore(s)
    BY <1>5, <2>2 DEF LoopInv
  <2>4. AddUpdate(s, k, Delta(u)).val = PlusOne(s.val, {<<k, u>>})
    BY <1>2, <2>3, OneMore
  <2> QED
    BY <2>1, <2>2, <2>4, ReplicasPlus
<1> QED
  BY <1>2, <1>3, <1>4, <1>6, <1>7 DEF Abstract!Make, Knowns, Replicas

(* What a receiver is to apply is new to its table, and in order.          *)
LEMMA AbstractDeliver ==
    ASSUME ReplicaInv, AppliesForwarded, NoRing, NEW n \in Nodes, NEW m \in Nodes, NEW x,
           Arrives(n, m, x)
    PROVE  Abstract!Deliver(m, n) \/ UNCHANGED <<Knowns, Replicas>>
<1>1. FlowInv /\ Counts /\ Counted /\ TypeInv /\ Keyed
  BY ReplicaParts DEF ReplicaInv
<1>2. /\ NatMsg(x) /\ IsBuff(x) /\ x.table \in Tables /\ Downstream[m] = n
      /\ tcp[m] \in Seq(TcpMsg) /\ tcp[m] # <<>> /\ x = Head(tcp[m])
  BY <1>1, ArrivesNat DEF Arrives, Comes
<1>3. PICK t, d : t = x.table /\ d = x.buff.updates
  OBVIOUS
<1>4. t \in Tables /\ NatStore(d) /\ KeyedStore(Made, d, t)
  <2>1. KeyedMsg(Made, x)
    BY <1>1, <1>2, KeyedMoves DEF Keyed, KeyedAt
  <2> QED
    BY <1>2, <1>3, <2>1 DEF NatMsg, KeyedMsg
<1>5. \A u \in Updates :
        /\ InMessage(x, t, u) = InStore(d, u) /\ InStore(d, u) \in Nat
        /\ \A k \in AllKeys : d.val[k][u] \in Nat /\ d.val[k][u] <= InStore(d, u)
        /\ (\A k \in AllKeys : d.val[k][u] = 0) => InStore(d, u) = 0
  BY <1>2, <1>3, <1>4, MessageCount, StoreCount
<1>6. \A u \in Updates : InStore(d, u) # 0 =>
        InStore(d, u) = 1 /\ Reached(m, t, u) = 1 /\ Reached(n, t, u) = 0
  <2> SUFFICES ASSUME NEW u \in Updates, InStore(d, u) # 0
               PROVE  InStore(d, u) = 1 /\ Reached(m, t, u) = 1 /\ Reached(n, t, u) = 0
    OBVIOUS
  <2>1. InStore(d, u) <= OnTheWay(m, t, u)
    BY <1>4, <1>5 DEF Arrives, Comes
  <2>2. PlaceOf(m, t, u)
    BY <1>4, ReplicaParts
  <2>3. OnTheWay(m, t, u) \in {0, 1}
    BY <2>2 DEF PlaceOf
  <2>4. OnTheWay(m, t, u) # 0 /\ InStore(d, u) = 1
    BY <1>5, <2>1, <2>3
  <2> QED
    BY <1>2, <2>2, <2>4 DEF PlaceOf
<1>7. PICK S : S = {p \in AllKeys \X Updates : d.val[p[1]][p[2]] # 0}
  OBVIOUS
<1>8. PICK s : s = Got(n, t)
  OBVIOUS
<1>9. NatStore(s)
  BY <1>4, <1>8, KnownIs
<1>10. \A k \in AllKeys, u \in Updates :
        /\ <<k, u>> \in S <=> d.val[k][u] # 0
        /\ d.val[k][u] # 0 => d.val[k][u] = 1 /\ InStore(d, u) # 0
  BY <1>5, <1>6, <1>7
<1>11. \A b \in Nodes, r \in Tables : (b # n \/ r # t) => Got(b, r)' = Got(b, r)
  BY <1>3 DEF Arrives, TakesIn
<1>12. /\ Replicas' = Replicas /\ Replicas[n] = Knowns[n]
  BY ReplicasKeep DEF Arrives
<1>13. CASE ~(Accepts(n, x) /\ t \in Apply[n])
  <2>1. Got(n, t)' = Got(n, t)
    BY <1>3, <1>13 DEF Arrives, TakesIn
  <2>2. \A b \in Nodes, r \in Tables : Got(b, r)' = Got(b, r)
    BY <1>11, <2>1
  <2> QED
    BY <1>12, <2>2, KnownsSame
<1>14. CASE Accepts(n, x) /\ t \in Apply[n]
  <2>1. Got(n, t)' = AddUpdates(s, d)
    BY <1>3, <1>8, <1>14 DEF Arrives, TakesIn
  <2>2. Got(n, t)'.val = [k \in AllKeys |-> VAdd(s.val[k], d.val[k])]
    BY <2>1 DEF AddUpdates
  <2>3. \A k \in AllKeys : VAdd(s.val[k], d.val[k]) =
            [u \in Updates |-> IF <<k, u>> \in S THEN s.val[k][u] + 1 ELSE s.val[k][u]]
    <3> TAKE k \in AllKeys
    <3>1. \A u \in Updates : s.val[k][u] \in Nat /\ d.val[k][u] \in Nat
      BY <1>5, <1>9 DEF NatStore
    <3>2. \A u \in Updates : s.val[k][u] + d.val[k][u]
                                = IF <<k, u>> \in S THEN s.val[k][u] + 1 ELSE s.val[k][u]
      BY <1>10, <3>1
    <3> QED
      BY <3>2 DEF VAdd
  <2>4. Got(n, t)'.val = [k \in AllKeys |-> [u \in Updates |->
                IF <<k, u>> \in S THEN s.val[k][u] + 1 ELSE s.val[k][u]]]
    BY <2>2, <2>3
  <2>5. Knowns' = Abstract!Plus(Knowns, n, t, S)
    <3>1. Got(n, t)'.val = PlusOne(Got(n, t).val, S)
      BY <1>8, <2>4 DEF PlusOne
    <3> QED
      BY <1>4, <1>11, <3>1, KnownsPlus
  <2>6. CASE S = {}
    <3>1. \A k \in AllKeys : [u \in Updates |-> s.val[k][u]] = s.val[k]
      BY <1>9 DEF NatStore, Store, Value
    <3>2. Got(n, t)'.val = s.val
      <4>1. s.val = [k \in AllKeys |-> s.val[k]]
        BY <1>9 DEF NatStore, Store
      <4> QED
        BY <2>4, <2>6, <3>1, <4>1
    <3>3. \A b \in Nodes, r \in Tables : Got(b, r)'.val = Got(b, r).val
      BY <1>8, <1>11, <3>2
    <3> QED
      BY <1>12, <3>3, KnownsSame
  <2>7. CASE S # {}
    <3>1. ASSUME NEW p \in S PROVE p \in Abstract!Known(m, t) /\ p \notin Abstract!Known(n, t)
      <4>1. PICK k \in AllKeys, u \in Updates : p = <<k, u>> /\ d.val[k][u] # 0
        BY <1>7
      <4>2. Reached(m, t, u) # 0 /\ Reached(n, t, u) = 0 /\ <<t, k, u>> \in Made
        BY <1>4, <1>6, <1>10, <4>1 DEF KeyedStore
      <4>3. PICK l \in AllKeys : Got(m, t).val[l][u] # 0
        BY <1>4, <4>2, KnownIs
      <4>4. <<t, l, u>> \in Made
        BY <1>4, <4>3, KnownIs
      <4>5. k = l
        BY <1>4, <4>2, <4>4, KeysAgree
      <4> QED
        BY <1>4, <4>1, <4>2, <4>3, <4>5, KnownIs
    <3>2. ASSUME NEW p \in S, NEW q \in Abstract!Known(p[2][1], t),
                 q[2][1] = p[2][1], q[2][2] < p[2][2]
          PROVE  q \in Abstract!Known(n, t) \cup S
      <4>1. PICK k \in AllKeys, u \in Updates : p = <<k, u>> /\ d.val[k][u] # 0
        BY <1>7
      <4>2. u[1] \in Nodes /\ p[2] = u
        BY <4>1, UpdateParts
      <4>3. q \in AllKeys \X Updates
        BY <1>4, <3>2, <4>2, KnownIs
      <4>4. PICK l \in AllKeys, v \in Updates : q = <<l, v>>
        BY <4>3
      <4>5. Earlier(v, u)
        BY <3>2, <4>2, <4>4 DEF Earlier
      <4>6. Reached(u[1], t, v) # 0 /\ <<t, l, v>> \in Made
        BY <1>4, <3>2, <4>2, <4>4, KnownIs
      <4>7. InMessage(x, t, u) # 0
        BY <1>5, <1>10, <4>1
      <4>8. Reached(n, t, v) # 0 \/ InMessage(x, t, v) # 0
        BY <1>4, <1>14, <4>5, <4>6, <4>7, ArrivesAfter
      <4>9. CASE Reached(n, t, v) # 0
        <5>1. PICK j \in AllKeys : Got(n, t).val[j][v] # 0
          BY <1>4, <4>9, KnownIs
        <5>2. <<t, j, v>> \in Made
          BY <1>4, <5>1, KnownIs
        <5>3. j = l
          BY <1>4, <4>6, <5>2, KeysAgree
        <5> QED
          BY <1>4, <4>4, <5>1, <5>3, KnownIs
      <4>10. CASE InMessage(x, t, v) # 0
        <5>1. PICK j \in AllKeys : d.val[j][v] # 0
          BY <1>5, <4>10
        <5>2. <<t, j, v>> \in Made
          BY <1>4, <5>1 DEF KeyedStore
        <5>3. j = l
          BY <1>4, <4>6, <5>2, KeysAgree
        <5> QED
          BY <1>10, <4>4, <5>1, <5>3
      <4> QED
        BY <4>8, <4>9, <4>10
    <3>3. Abstract!KeepsOrder(n, t, S)
      BY <3>2 DEF Abstract!KeepsOrder
    <3>4. S \in SUBSET (Abstract!Known(m, t) \ Abstract!Known(n, t))
      BY <3>1
    <3> QED
      BY <1>12, <1>2, <1>4, <2>5, <2>7, <3>3, <3>4 DEF Abstract!Deliver, Knowns, Replicas
  <2> QED
    BY <2>6, <2>7
<1> QED
  BY <1>13, <1>14

(* IncRaw of one key in the receiver's loop.                               *)
LEMMA AbstractApply ==
    ASSUME ReplicaInv, AppliesForwarded, NEW n \in Nodes, ApplyUpdate(n)
    PROVE  Abstract!ApplyKey(n)
<1>1. TypeInv
  BY ReplicaParts
<1>2. storage \in [Nodes -> [Tables -> Store]] /\ toApply \in [Nodes -> [Tables -> Store]]
  BY <1>1 DEF TypeInv, TypeOK, InternalTableTypeOK, ReceiverTypeOK
<1>3. PICK t \in Tables : \E k \in toApply[n][t].keys :
        storage' = [storage EXCEPT ![n][t] = AddUpdate(@, k, toApply[n][t].val[k])]
  BY DEF ApplyUpdate, IncRaw
<1>4. PICK k \in toApply[n][t].keys :
        storage' = [storage EXCEPT ![n][t] = AddUpdate(@, k, toApply[n][t].val[k])]
  BY <1>3
<1>5. PICK f, g, w : /\ f = storage[n][t].val /\ g = toApply[n][t].val
                     /\ w = VAdd(f[k], g[k])
  OBVIOUS
<1>6. k \in AllKeys /\ f \in [AllKeys -> Value] /\ g \in [AllKeys -> Value]
  BY <1>2, <1>4, <1>5 DEF Store
<1>7. PICK R, Q, K : R = Replicas /\ Q = Replicas' /\ K = Knowns
  OBVIOUS
<1>8. /\ R = [b \in Nodes |-> [s \in Tables |-> storage[b][s].val]]
      /\ Q = [b \in Nodes |-> [s \in Tables |-> storage'[b][s].val]]
  BY <1>7 DEF Replicas
<1>9. K[n][t][k] = w
  BY <1>5, <1>6, <1>7 DEF Knowns
<1>10. /\ storage'[n][t].val = [f EXCEPT ![k] = w]
       /\ \A b \in Nodes, s \in Tables : (b # n \/ s # t) => storage'[b][s] = storage[b][s]
  BY <1>2, <1>4, <1>5 DEF AddUpdate
<1>11. PICK e, h : e = [f EXCEPT ![k] = w] /\ h = [R[n] EXCEPT ![t] = e]
  OBVIOUS
<1>12. Q[n] = h
  <2>1. Q[n] = [s \in Tables |-> storage'[n][s].val] /\ R[n] = [s \in Tables |-> storage[n][s].val]
    BY ONLY <1>8, n \in Nodes
  <2>2. \A s \in Tables : storage'[n][s].val = IF s = t THEN e ELSE storage[n][s].val
    BY <1>10, <1>11
  <2>3. h = [s \in Tables |-> IF s = t THEN e ELSE storage[n][s].val]
    BY ONLY <1>11, <2>1, t \in Tables
  <2>4. [s \in Tables |-> storage'[n][s].val]
            = [s \in Tables |-> IF s = t THEN e ELSE storage[n][s].val]
    BY ONLY <2>2
  <2> QED
    BY ONLY <2>1, <2>3, <2>4
<1>13. ASSUME NEW b \in Nodes, b # n PROVE Q[b] = R[b]
  <2>1. [s \in Tables |-> storage'[b][s].val] = [s \in Tables |-> storage[b][s].val]
    BY <1>10, <1>13
  <2> QED
    BY ONLY <1>8, <2>1, b \in Nodes
<1>14. Q = [b \in Nodes |-> Q[b]] /\ R = [b \in Nodes |-> R[b]] /\ R[n][t] = f
  BY <1>5, <1>8
<1>15. Q = [R EXCEPT ![n] = h]
  BY ONLY <1>12, <1>13, <1>14, n \in Nodes
<1>16. Q = [R EXCEPT ![n][t][k] = K[n][t][k]]
  BY ONLY <1>9, <1>11, <1>14, <1>15
<1>17. Replicas' = [Replicas EXCEPT ![n][t][k] = Knowns[n][t][k]]
  BY ONLY <1>7, <1>16
<1>18. Knowns' = Knowns
  BY <1>1, LoopApplies, KnownsSame
<1>19. \E s \in Tables, l \in AllKeys :
            Replicas' = [Replicas EXCEPT ![n][s][l] = Knowns[n][s][l]]
  BY ONLY t \in Tables, <1>6, <1>17
<1> QED
  BY ONLY <1>18, <1>19 DEF Abstract!ApplyKey, Knowns, Replicas

(* Who writes to a table.                                                  *)
LEMMA TableWriters ==
    ASSUME FlowInv, [Next]_vars
    PROVE  \/ storage' = storage
           \/ \E n \in Nodes, th \in Threads, t \in Tables, k \in Keys : MakeDoes(n, th, t, k)
           \/ \E n \in Nodes : ApplyUpdate(n)
<1>1. CASE UNCHANGED vars
  BY <1>1 DEF vars
<1>2. ASSUME NEW n \in Nodes, TimerNext(n) \/ PropagatorNext(n) PROVE storage' = storage
  BY <1>2 DEF TimerNext, PropagatorNext
<1>3. ASSUME NEW n \in Nodes, ReceiverNext(n) PROVE storage' = storage \/ ApplyUpdate(n)
  BY <1>3 DEF ReceiverNext, ReceiverStep, RecvMyUpdates, RecvERInternalTerminate,
    RecvEPRInternalTerminate, RecvUpdateBuffer, RecvTerminateACK, Dedup
<1>4. ASSUME NEW n \in Nodes, ApplicationNext(n)
      PROVE  \/ storage' = storage
             \/ \E th \in Threads, t \in Tables, k \in Keys : MakeDoes(n, th, t, k)
  <2>1. ASSUME NEW th \in Threads,
               RegisterThr(n, th) \/ DeregisterThr(n, th) \/ PropagatorInc(n, th)
        PROVE  storage' = storage
    BY <2>1 DEF RegisterThr, DeregisterThr, PropagatorInc
  <2>2. ASSUME ShutDownStep(n) \/ SignalTermPropagator(n) PROVE storage' = storage
    BY <2>2 DEF ShutDownStep, SignalTermReceiver, WaitTermPropagator, WaitTermReceiver,
      SignalTermPropagator
  <2>3. ASSUME NEW th \in Threads, NEW t \in Tables, NEW k \in Keys, Inc(n, th, t, k)
        PROVE  MakeDoes(n, th, t, k)
    BY <1>4, <2>3, MakeEffect DEF MakeStep, ApplicationNext
  <2> QED
    BY <1>4, <2>1, <2>2, <2>3 DEF ApplicationNext, ApplicationStep
<1>5. CASE Stop
  BY <1>5 DEF Stop, vars
<1> QED
  BY <1>1, <1>2, <1>3, <1>4, <1>5 DEF Next

(* Every step is a step of Replication, or none.                           *)
LEMMA AbstractNext ==
    ASSUME ReplicaInv, AppliesForwarded, NoRing, [Next]_vars
    PROVE  [Abstract!Next]_<<Knowns, Replicas>>
<1>1. FlowInv /\ Counts
  BY ReplicaParts
<1>2. ASSUME NEW n \in Nodes, NEW th \in Threads, NEW t \in Tables, NEW k \in Keys,
             MakeDoes(n, th, t, k)
      PROVE  Abstract!Next
  BY <1>2, AbstractMake DEF Abstract!Next
<1>3. ASSUME NEW n \in Nodes, NEW m \in Nodes, NEW x, Arrives(n, m, x)
      PROVE  Abstract!Next \/ UNCHANGED <<Knowns, Replicas>>
  BY <1>3, AbstractDeliver DEF Abstract!Next
<1>4. ASSUME NEW n \in Nodes, ApplyUpdate(n) PROVE Abstract!Next
  BY <1>4, AbstractApply DEF Abstract!Next
<1>5. ASSUME TablesSame, storage' = storage PROVE UNCHANGED <<Knowns, Replicas>>
  BY <1>5, KnownsSame DEF TablesSame, Replicas
<1> QED
  BY <1>1, <1>2, <1>3, <1>4, <1>5, KindsSame, TableWriters

(* Where updates come back to nobody, a node applies what it forwards and  *)
(* has one thread that writes, and keys fit in 32 bits: however updates    *)
(* are batched, merged and forwarded, and whoever shuts down, each node    *)
(* gets to know the updates that its upstream node knows, once each, under *)
(* the same key and without overtaking an earlier one of the same node,    *)
(* and applies them all before it takes more.  (Its downstream node may    *)
(* apply them before it does.)                                             *)
THEOREM TreesReplicate ==
    NoRing /\ QuietSinks /\ AppliesForwarded /\ NarrowKeys /\ Threads = {Main}
        => (Spec => Replicated)
<1> SUFFICES ASSUME NoRing, QuietSinks, AppliesForwarded, NarrowKeys, Threads = {Main}
             PROVE  Spec => Replicated
  OBVIOUS
<1>1. ReplicaInv /\ [Next]_vars => ReplicaInv'
  BY ReplicaKept
<1>2. ReplicaInv /\ [Next]_vars => [Abstract!Next]_<<Knowns, Replicas>>
  BY AbstractNext
<1> QED
  BY <1>1, <1>2, ReplicaInit, AbstractInit, PTL
    DEF Spec, Replicated, Abstract!Spec, Abstract!absVars, Knowns, Replicas
=============================================================================
