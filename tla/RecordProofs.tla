---------------------------- MODULE RecordProofs ----------------------------
(***************************************************************************)
(* The record of own updates, for every propagation graph: a node's numbers *)
(* leave its process only once its receiver has them on record, and the     *)
(* receiver finds its record when its own updates come back.                *)
(***************************************************************************)
EXTENDS FlowProofs

-----------------------------------------------------------------------------
(* The order of the numbers of p on its way.                               *)

(* The updates of p reach every node along one way only.                   *)
Straight(p) ==
    \A a, b \in Reach(p) :
        (Downstream[a] = Downstream[b] /\ Downstream[a] \in Nodes) => a = b

(* The first number of p that node a has not put in a buffer or, of its    *)
(* own, not sent.                                                          *)
Unsent(a, t, p) == IF a = p THEN myUpdateRange[p][t].st ELSE First(a, t, p)

(* At node a: what is in its pipes is in order, and on the right side of   *)
(* what it has merged and sent.                                            *)
AtNode(a, p) ==
    /\ Sorted(tcp[a], p) /\ Sorted(fwdPipe[a], p)
    /\ \A x \in Buffs(tcp[a]) :
        /\ \A y \in Buffs(outBuff[a]) : Precedes(x, y, p)
        /\ Has(x, p) => To(x, p) < Unsent(a, x.table, p)
    /\ \A x \in Buffs(fwdPipe[a]) : \A y \in Buffs(recvBuff[a]) : Precedes(x, y, p)
    /\ \A x \in Buffs(fwdPipe[a]) \cup Buffs(recvBuff[a]) :
            Has(x, p) => Merged(a, x.table, p) < From(x, p)
    /\ a # p =>
        /\ \A y \in Buffs(outBuff[a]) : Has(y, p) => To(y, p) < Unsent(a, y.table, p)
        /\ \A t \in Tables : Unsent(a, t, p) <= Merged(a, t, p) + 1

(* From node a to the receiver of m, its downstream node.                  *)
OnEdge(a, m, p) ==
    /\ \A x \in Buffs(recvBuff[m]) \cup Buffs(fwdPipe[m]) :
        /\ \A y \in Buffs(tcp[a]) \cup Buffs(outBuff[a]) : Precedes(x, y, p)
        /\ Has(x, p) => To(x, p) < Unsent(a, x.table, p)
    /\ \A y \in Buffs(tcp[a]) \cup Buffs(outBuff[a]) :
            Has(y, p) => Merged(m, y.table, p) < From(y, p)
    /\ \A t \in Tables : Merged(m, t, p) < Unsent(a, t, p)

OrderInv(p) ==
    Straight(p) =>
        \A a \in Reach(p) :
            /\ AtNode(a, p)
            /\ Downstream[a] \in Nodes => OnEdge(a, Downstream[a], p)

-----------------------------------------------------------------------------
(* The own updates of a node.                                              *)

(* The propagator: without a batch interval nothing is sent, and on a loop *)
(* table there are own updates to tell the receiver of exactly when there  *)
(* are own numbers to send.                                                *)
OwnInv(n) ==
    /\ n \notin Batched => timer[n] = "none" /\ pPc[n] \in {"poll", "exit"}
    /\ \A t \in Tables :
        /\ t \notin Loop[n] => myUpdateStore[n][t].keys = {}
        /\ myUpdateStore[n][t].keys # {} => HasOwnRange(n, t)
        /\ pState[n] = "RUN" => myUpdateStore[n][t].keys \subseteq updateStore[n][t].keys
        /\ IF outBuff[n] # <<>> /\ outBuff[n][1].table = t
           THEN myUpdateStore[n][t].keys = {}
           ELSE (n \in Batched /\ pState[n] = "RUN" /\ t \in Loop[n] /\ HasOwnRange(n, t))
                    => myUpdateStore[n][t].keys # {}
    /\ fatal[n] # "my_update_range"

(* A recorded buffer has one range, of the node itself.                    *)
IsRecord(p, own) ==
    /\ Len(own.ranges) = 1
    /\ own.ranges[1].id = p
    /\ own.ranges[1].st <= own.ranges[1].end

(* The answer to the EMyUpdates of table t is on its way.                  *)
Answered(p, t) == r2p[p] # <<>> /\ outBuff[p][1].table = t

(* The records, and the EMyUpdates the next one will be made from: it      *)
(* describes the buffer that is about to be sent.                          *)
MyUpdatesInv(p) ==
    /\ \A t \in Tables :
        /\ \A own \in Range(myUpdates[p][t]) :
            /\ IsRecord(p, own)
            /\ own.ranges[1].end <= myUpdateRange[p][t].end
            /\ ~Answered(p, t) => own.ranges[1].end < myUpdateRange[p][t].st
        /\ myUpdates[p][t] # <<>> => t \in hasMyUpdates[p]
    /\ \A i \in 1 .. Len(p2r[p]) : p2r[p][i].type = "EMyUpdates" =>
        /\ outBuff[p][1].table = p2r[p][i].table
        /\ p2r[p][i].buff.ranges = <<NodeSlot(p, myUpdateRange[p][p2r[p][i].table])>>
        /\ HasOwnRange(p, p2r[p][i].table)
        /\ p2r[p][i].buff.updates.keys \subseteq outBuff[p][1].buff.updates.keys

(* The numbers of p on record.                                             *)
Recorded(p, t) == UNION {Numbers(p, own) : own \in Range(myUpdates[p][t])}

(* The records of some of the numbers low .. high have no other keys.      *)
KeysCovered(p, t, low, high, keys) ==
    \A own \in Range(myUpdates[p][t]) :
        Numbers(p, own) \cap (low .. high) # {} => own.updates.keys \subseteq keys

Covered(p, t, low, high, keys) ==
    low .. high \subseteq Recorded(p, t) /\ KeysCovered(p, t, low, high, keys)

CoveredBuff(x, p) ==
    (x.table \in Loop[p] /\ Has(x, p)) =>
        Covered(p, x.table, From(x, p), To(x, p), x.buff.updates.keys)

(* While p and its receiver run, its numbers are on record wherever they   *)
(* are, those that p is about to send once the receiver has answered; a    *)
(* range that has come back, at least to its last number.                  *)
RecordInv(p) ==
    (Alive(p) /\ rState[p] = "RUN") =>
        /\ \A a \in Nodes :
            /\ \A x \in Buffs(tcp[a]) \cup Buffs(fwdPipe[a]) : CoveredBuff(x, p)
            /\ a # p =>
                /\ \A x \in Buffs(recvBuff[a]) \cup Buffs(outBuff[a]) : CoveredBuff(x, p)
                /\ (Alive(a) /\ pState[a] = "RUN") =>
                    \A t \in Loop[p] :
                        Covered(p, t, First(a, t, p), Merged(a, t, p), updateStore[a][t].keys)
        /\ \A x \in Buffs(outBuff[p]) : (x.table \in Loop[p] /\ Has(x, p)) =>
            pPc[p] = "ack" /\ (r2p[p] # <<>> => CoveredBuff(x, p))
        /\ \A x \in Buffs(recvBuff[p]) : (x.table \in Loop[p] /\ Has(x, p)) =>
            /\ To(x, p) \in Recorded(p, x.table)
            /\ KeysCovered(p, x.table, From(x, p), To(x, p), x.buff.updates.keys)

RecordsInv ==
    FlowInv /\ \A p \in Nodes : OrderInv(p) /\ OwnInv(p) /\ MyUpdatesInv(p) /\ RecordInv(p)

(* Tables are created with loop_ where the updates of a node come back to  *)
(* it.                                                                     *)
LoopOnRings == \A n \in Nodes : OnRing(n) => Loop[n] = Tables

-----------------------------------------------------------------------------
(* The order is kept.                                                      *)

(* The order of the numbers of p everywhere.                               *)
Ordered(p) ==
    \A a \in Reach(p) :
        /\ AtNode(a, p)
        /\ Downstream[a] \in Nodes => OnEdge(a, Downstream[a], p)

(* All that is compared is a number.                                       *)
LEMMA Comparable ==
    ASSUME FlowInv, NEW a \in Nodes, NEW p \in Nodes
    PROVE  /\ \A t \in Tables :
                /\ Unsent(a, t, p) \in Nat /\ First(a, t, p) \in Nat
                /\ Merged(a, t, p) \in Int /\ myUpdateRange[a][t].end \in Int
           /\ \A x \in Buffs(tcp[a]) \cup Buffs(outBuff[a]) \cup Buffs(recvBuff[a])
                        \cup Buffs(fwdPipe[a]) :
                /\ x.table \in Tables
                /\ Has(x, p) => From(x, p) \in Nat /\ To(x, p) \in Nat
                                /\ From(x, p) <= To(x, p)
BY FlowParts DEF Unsent, BuffersInv

(* Between two nodes whose ranges do not change, buffers may go, and the   *)
(* upper one may move on.                                                  *)
LEMMA EdgeKept ==
    ASSUME FlowInv, NEW p \in Nodes, NEW a \in Nodes, NEW m \in Nodes, OnEdge(a, m, p),
           Buffs(recvBuff'[m]) \cup Buffs(fwdPipe'[m])
                \subseteq Buffs(recvBuff[m]) \cup Buffs(fwdPipe[m]),
           Buffs(tcp'[a]) \cup Buffs(outBuff'[a])
                \subseteq Buffs(tcp[a]) \cup Buffs(outBuff[a]),
           \A s \in Tables : /\ Merged(m, s, p)' = Merged(m, s, p)
                             /\ Unsent(a, s, p)' \in Int
                             /\ Unsent(a, s, p)' >= Unsent(a, s, p)
    PROVE  OnEdge(a, m, p)'
<1>1. /\ \A x \in Buffs(recvBuff[m]) \cup Buffs(fwdPipe[m]) :
            x.table \in Tables /\ (Has(x, p) => To(x, p) \in Int)
      /\ \A y \in Buffs(tcp[a]) \cup Buffs(outBuff[a]) : y.table \in Tables
      /\ \A s \in Tables : Merged(m, s, p) \in Int /\ Unsent(a, s, p) \in Int
  BY Comparable
<1>2. ASSUME NEW x \in Buffs(recvBuff'[m]) \cup Buffs(fwdPipe'[m])
      PROVE  /\ \A y \in Buffs(tcp'[a]) \cup Buffs(outBuff'[a]) : Precedes(x, y, p)
             /\ Has(x, p) => To(x, p) < Unsent(a, x.table, p)'
  BY <1>1 DEF OnEdge
<1>3. \A y \in Buffs(tcp'[a]) \cup Buffs(outBuff'[a]) :
            Has(y, p) => Merged(m, y.table, p)' < From(y, p)
  BY <1>1 DEF OnEdge
<1>4. \A t \in Tables : Merged(m, t, p)' < Unsent(a, t, p)'
  BY <1>1 DEF OnEdge
<1> QED
  BY <1>2, <1>3, <1>4 DEF OnEdge

(* A node at which nothing changes but that signals come or go.            *)
LEMMA NodeKept ==
    ASSUME FlowInv, NEW p \in Nodes, NEW a \in Nodes, AtNode(a, p),
           Buffs(tcp'[a]) = Buffs(tcp[a]), Sorted(tcp'[a], p),
           Buffs(fwdPipe'[a]) = Buffs(fwdPipe[a]), Sorted(fwdPipe'[a], p),
           outBuff'[a] = outBuff[a], recvBuff'[a] = recvBuff[a],
           \A s \in Tables : /\ Merged(a, s, p)' = Merged(a, s, p)
                             /\ Unsent(a, s, p)' = Unsent(a, s, p)
    PROVE  AtNode(a, p)'
BY Comparable DEF AtNode

(* Nothing moves and no range changes.                                     *)
LEMMA OrderSame ==
    ASSUME NEW p \in Nodes, Ordered(p),
           \A a \in Nodes : Keeps(tcp[a], tcp'[a]) /\ Keeps(fwdPipe[a], fwdPipe'[a]),
           UNCHANGED <<outBuff, recvBuff, peerUpdateRange>>,
           \A t \in Tables : myUpdateRange'[p][t].st = myUpdateRange[p][t].st,
           FlowInv
    PROVE  Ordered(p)'
<1>1. ASSUME NEW a \in Nodes
      PROVE  /\ Buffs(tcp'[a]) = Buffs(tcp[a]) /\ Buffs(fwdPipe'[a]) = Buffs(fwdPipe[a])
             /\ Sorted(tcp[a], p) => Sorted(tcp'[a], p)
             /\ Sorted(fwdPipe[a], p) => Sorted(fwdPipe'[a], p)
             /\ \A t \in Tables : Unsent(a, t, p)' = Unsent(a, t, p)
             /\ \A t : Merged(a, t, p)' = Merged(a, t, p)
  BY DEF Keeps, Unsent, First, Merged
<1> SUFFICES ASSUME NEW a \in Reach(p)
             PROVE  AtNode(a, p)' /\ (Downstream[a] \in Nodes => OnEdge(a, Downstream[a], p)')
  BY DEF Ordered
<1>2. a \in Nodes /\ AtNode(a, p) /\ (Downstream[a] \in Nodes => OnEdge(a, Downstream[a], p))
  BY Graph DEF Ordered
<1>3. AtNode(a, p)'
  BY <1>1, <1>2, Comparable DEF AtNode
<1>4. ASSUME NEW m \in Nodes, Downstream[a] = m PROVE OnEdge(a, m, p)'
  <2>1. OnEdge(a, m, p) /\ \A t \in Tables : Unsent(a, t, p) \in Int
    BY <1>2, <1>4, Comparable
  <2>2. \A t \in Tables : Unsent(a, t, p)' \in Int /\ Unsent(a, t, p)' >= Unsent(a, t, p)
    BY <1>1, <1>2, <2>1
  <2> QED
    BY <1>1, <1>2, <2>1, <2>2, EdgeKept
<1> QED
  BY <1>3, <1>4

(* The buffer made by the timer branch comes after all that was sent.      *)
LEMMA OrderFlush ==
    ASSUME FlowInv, NEW p \in Nodes, Ordered(p),
           NEW n \in Nodes, NEW t \in Tables, NEW x, FlushDoes(n, t, x)
    PROVE  Ordered(p)'
<1>1. /\ UNCHANGED <<tcp, fwdPipe, recvBuff, myUpdateRange>>
      /\ outBuff[n] = <<>> /\ Buffs(outBuff[n]) = {} /\ Buffs(outBuff'[n]) = {x}
      /\ \A a \in Nodes \ {n} : outBuff'[a] = outBuff[a]
      /\ x.table = t
  BY ShortPipe DEF FlushDoes
<1>2. \A a \in Nodes : \A s \in Tables : Merged(a, s, p)' = Merged(a, s, p)
  <2> TAKE a \in Nodes
  <2> TAKE s \in Tables
  <2>1. CASE a = n /\ s = t
    BY <2>1 DEF FlushDoes
  <2>2. CASE a # n \/ s # t
    BY <2>2 DEF FlushDoes, Merged
  <2> QED
    BY <2>1, <2>2
<1>3. \A a \in Nodes, s \in Tables : (a # n \/ s # t) => Unsent(a, s, p)' = Unsent(a, s, p)
  BY <1>1 DEF FlushDoes, Unsent, First
<1>4. CASE p \in NewPeers(n, t)
  <2>1. /\ p # n /\ Has(x, p) /\ From(x, p) = Unsent(n, t, p)
        /\ To(x, p) = Merged(n, t, p) /\ Unsent(n, t, p) <= Merged(n, t, p)
        /\ Unsent(n, t, p)' = Merged(n, t, p) + 1
    BY <1>4 DEF FlushDoes, Unsent
  <2>2. Unsent(n, t, p) \in Int /\ Merged(n, t, p) \in Int
    BY Comparable
  <2> SUFFICES ASSUME NEW a \in Reach(p)
               PROVE  AtNode(a, p)' /\ (Downstream[a] \in Nodes => OnEdge(a, Downstream[a], p)')
    BY DEF Ordered
  <2>3. a \in Nodes /\ AtNode(a, p) /\ (Downstream[a] \in Nodes => OnEdge(a, Downstream[a], p))
    BY Graph DEF Ordered
  <2>4. CASE a = n
    <3>1. \A y \in Buffs(tcp[n]) : Has(y, p) => y.table \in Tables /\ To(y, p) \in Int
      BY Comparable
    <3>2. ASSUME NEW y \in Buffs(tcp[n])
          PROVE  Precedes(y, x, p) /\ (Has(y, p) => To(y, p) < Unsent(n, y.table, p)')
      BY <1>1, <1>3, <2>1, <2>2, <2>3, <2>4, <3>1 DEF AtNode, Precedes
    <3>3. \A s \in Tables : Unsent(n, s, p)' <= Merged(n, s, p)' + 1
      <4> TAKE s \in Tables
      <4>1. CASE s = t
        BY <1>2, <2>1, <2>2, <4>1
      <4>2. CASE s # t
        BY <1>2, <1>3, <2>1, <2>3, <2>4, <4>2 DEF AtNode
      <4> QED
        BY <4>1, <4>2
    <3>4. Has(x, p) => To(x, p) < Unsent(n, x.table, p)'
      BY <1>1, <2>1, <2>2
    <3>5. AtNode(n, p)'
      <4>1. \A y \in Buffs(fwdPipe[n]) \cup Buffs(recvBuff[n]) :
                Has(y, p) => Merged(n, y.table, p)' < From(y, p)
        BY <1>2, <2>3, <2>4, Comparable DEF AtNode
      <4> QED
        BY <1>1, <2>3, <2>4, <3>2, <3>3, <3>4, <4>1 DEF AtNode
    <3>6. ASSUME NEW m \in Nodes, Downstream[n] = m PROVE OnEdge(n, m, p)'
      <4>1. OnEdge(n, m, p)
        BY <2>3, <2>4, <3>6
      <4>2. \A y \in Buffs(recvBuff[m]) \cup Buffs(fwdPipe[m]) :
                y.table \in Tables /\ (Has(y, p) => To(y, p) \in Int)
        BY Comparable
      <4>3. ASSUME NEW y \in Buffs(recvBuff[m]) \cup Buffs(fwdPipe[m])
            PROVE  Precedes(y, x, p) /\ (Has(y, p) => To(y, p) < Unsent(n, y.table, p)')
        BY <1>1, <1>3, <2>1, <2>2, <4>1, <4>2 DEF OnEdge, Precedes
      <4>4. ASSUME NEW s \in Tables PROVE Merged(m, s, p)' < Unsent(n, s, p)'
        <5>1. Merged(m, s, p) \in Int
          BY Comparable
        <5> QED
          BY <1>2, <1>3, <2>1, <2>2, <4>1, <5>1 DEF OnEdge
      <4>5. \A y \in Buffs(tcp[n]) : Has(y, p) => Merged(m, y.table, p)' < From(y, p)
        BY <1>2, <4>1, Comparable DEF OnEdge
      <4>6. Merged(m, x.table, p)' < From(x, p)
        BY <1>1, <1>2, <2>1, <4>1 DEF OnEdge
      <4> QED
        BY <1>1, <4>1, <4>3, <4>4, <4>5, <4>6 DEF OnEdge
    <3> QED
      BY <2>4, <3>5, <3>6
  <2>5. CASE a # n
    <3>1. AtNode(a, p)'
      BY <1>1, <1>2, <1>3, <2>3, <2>5, Comparable, ZenonT(40) DEF AtNode
    <3>2. ASSUME NEW m \in Nodes, Downstream[a] = m PROVE OnEdge(a, m, p)'
      <4>1. OnEdge(a, m, p) /\ outBuff'[a] = outBuff[a]
        BY <1>1, <2>3, <2>5, <3>2
      <4>2. \A s \in Tables : Unsent(a, s, p)' = Unsent(a, s, p) /\ Unsent(a, s, p) \in Int
        BY <1>3, <2>3, <2>5, Comparable
      <4>3. \A s \in Tables : Unsent(a, s, p)' \in Int /\ Unsent(a, s, p)' >= Unsent(a, s, p)
        BY <4>2
      <4> QED
        BY <1>1, <1>2, <2>3, <4>1, <4>3, EdgeKept
    <3> QED
      BY <3>1, <3>2
  <2> QED
    BY <2>4, <2>5
<1>5. CASE p \notin NewPeers(n, t)
  <2>1. \A s \in Tables : Unsent(n, s, p)' = Unsent(n, s, p)
    <3>1. peerUpdateRange'[n][t].range[p] = peerUpdateRange[n][t].range[p]
      BY <1>5 DEF FlushDoes
    <3> QED
      BY <1>1, <1>3, <3>1 DEF Unsent, First
  <2>2. Has(x, p) => p = n /\ From(x, p) = Unsent(n, t, p)
    BY <1>5 DEF FlushDoes, Unsent, From
  <2> SUFFICES ASSUME NEW a \in Reach(p)
               PROVE  AtNode(a, p)' /\ (Downstream[a] \in Nodes => OnEdge(a, Downstream[a], p)')
    BY DEF Ordered
  <2>3. a \in Nodes /\ AtNode(a, p) /\ (Downstream[a] \in Nodes => OnEdge(a, Downstream[a], p))
    BY Graph DEF Ordered
  <2>4. CASE a = n
    <3>1. \A y \in Buffs(tcp[n]) : Precedes(y, x, p)
      BY <1>1, <2>2, <2>3, <2>4 DEF AtNode, Precedes
    <3>2. AtNode(n, p)'
      <4>1. \A y \in Buffs(fwdPipe[n]) \cup Buffs(recvBuff[n]) :
                Has(y, p) => Merged(n, y.table, p)' < From(y, p)
        BY <1>2, <2>3, <2>4, Comparable DEF AtNode
      <4>2. \A y \in Buffs(tcp[n]) : Has(y, p) => To(y, p) < Unsent(n, y.table, p)'
        BY <2>1, <2>3, <2>4, Comparable DEF AtNode
      <4>3. n # p => ~Has(x, p) /\ \A s \in Tables : Unsent(n, s, p)' <= Merged(n, s, p)' + 1
        BY <1>2, <2>1, <2>2, <2>3, <2>4 DEF AtNode
      <4> QED
        BY <1>1, <2>3, <2>4, <3>1, <4>1, <4>2, <4>3 DEF AtNode
    <3>3. ASSUME NEW m \in Nodes, Downstream[n] = m PROVE OnEdge(n, m, p)'
      <4>1. OnEdge(n, m, p)
        BY <2>3, <2>4, <3>3
      <4>2. \A y \in Buffs(recvBuff[m]) \cup Buffs(fwdPipe[m]) : y.table \in Tables
        BY Comparable
      <4>3. ASSUME NEW y \in Buffs(recvBuff[m]) \cup Buffs(fwdPipe[m])
            PROVE  Precedes(y, x, p) /\ (Has(y, p) => To(y, p) < Unsent(n, y.table, p)')
        BY <1>1, <2>1, <2>2, <4>1, <4>2 DEF OnEdge, Precedes
      <4>4. \A s \in Tables : Merged(m, s, p)' < Unsent(n, s, p)'
        BY <1>2, <2>1, <4>1 DEF OnEdge
      <4>5. \A y \in Buffs(tcp[n]) : Has(y, p) => Merged(m, y.table, p)' < From(y, p)
        BY <1>2, <4>1, Comparable DEF OnEdge
      <4>6. Has(x, p) => Merged(m, x.table, p)' < From(x, p)
        BY <1>1, <1>2, <2>2, <4>1 DEF OnEdge
      <4> QED
        BY <1>1, <4>1, <4>3, <4>4, <4>5, <4>6 DEF OnEdge
    <3> QED
      BY <2>4, <3>2, <3>3
  <2>5. CASE a # n
    <3>1. AtNode(a, p)'
      BY <1>1, <1>2, <1>3, <2>3, <2>5, Comparable, ZenonT(40) DEF AtNode
    <3>2. ASSUME NEW m \in Nodes, Downstream[a] = m PROVE OnEdge(a, m, p)'
      <4>1. OnEdge(a, m, p) /\ outBuff'[a] = outBuff[a]
        BY <1>1, <2>3, <2>5, <3>2
      <4>2. \A s \in Tables : Unsent(a, s, p)' = Unsent(a, s, p) /\ Unsent(a, s, p) \in Int
        BY <1>3, <2>3, <2>5, Comparable
      <4>3. \A s \in Tables : Unsent(a, s, p)' \in Int /\ Unsent(a, s, p)' >= Unsent(a, s, p)
        BY <4>2
      <4> QED
        BY <1>1, <1>2, <2>3, <4>1, <4>3, EdgeKept
    <3> QED
      BY <3>1, <3>2
  <2> QED
    BY <2>4, <2>5
<1> QED
  BY <1>4, <1>5

(* It is appended to what is under way.                                    *)
LEMMA OrderSend ==
    ASSUME FlowInv, NEW p \in Nodes, Ordered(p), NEW n \in Nodes, NEW x, SendDoes(n, x)
    PROVE  Ordered(p)'
<1>1. /\ UNCHANGED <<fwdPipe, recvBuff, peerUpdateRange>>
      /\ Buffs(outBuff[n]) = {x} /\ outBuff'[n] = <<>> /\ Buffs(outBuff'[n]) = {}
      /\ \A a \in Nodes \ {n} : outBuff'[a] = outBuff[a] /\ tcp'[a] = tcp[a]
      /\ x.table \in Tables
  BY ShortPipe DEF SendDoes
<1>2. tcp'[n] = tcp[n] \/ Pushes(tcp[n], tcp'[n], x)
  BY DEF SendDoes
<1>3. Buffs(tcp'[n]) \subseteq Buffs(tcp[n]) \cup {x}
  BY <1>2 DEF Pushes
<1>4. ASSUME NEW s \in Tables
      PROVE  /\ Unsent(p, s, p)' \in Int /\ Unsent(p, s, p)' >= Unsent(p, s, p)
             /\ p # n => Unsent(p, s, p)' = Unsent(p, s, p)
             /\ (p = n /\ s = x.table) => Unsent(p, s, p)' = myUpdateRange[p][s].end + 1
  <2>1. /\ myUpdateRange[p][s].st \in Int /\ myUpdateRange[p][s].end \in Int
        /\ myUpdateRange[p][s].st <= myUpdateRange[p][s].end + 1
    BY FlowParts DEF BuffersInv
  <2>2. CASE p = n /\ s = x.table
    BY <2>1, <2>2 DEF SendDoes, Unsent, Span
  <2>3. CASE ~(p = n /\ s = x.table)
    <3>1. myUpdateRange'[p][s] = myUpdateRange[p][s]
      BY <2>3 DEF SendDoes
    <3> QED
      BY <2>1, <2>3, <3>1 DEF Unsent
  <2> QED
    BY <2>2, <2>3
<1>5. \A a \in Nodes, s \in Tables :
        /\ Merged(a, s, p)' = Merged(a, s, p)
        /\ a # p => Unsent(a, s, p)' = Unsent(a, s, p)
  BY <1>1 DEF Merged, Unsent, First
<1>6. \A a \in Nodes, s \in Tables :
        Unsent(a, s, p)' \in Int /\ Unsent(a, s, p)' >= Unsent(a, s, p)
  BY <1>4, <1>5, Comparable
<1> SUFFICES ASSUME NEW a \in Reach(p)
             PROVE  AtNode(a, p)' /\ (Downstream[a] \in Nodes => OnEdge(a, Downstream[a], p)')
  BY DEF Ordered
<1>7. a \in Nodes /\ AtNode(a, p) /\ (Downstream[a] \in Nodes => OnEdge(a, Downstream[a], p))
  BY Graph DEF Ordered
<1>8. ASSUME NEW m \in Nodes, Downstream[a] = m PROVE OnEdge(a, m, p)'
  <2>1. OnEdge(a, m, p)
    BY <1>7, <1>8
  <2>2. Buffs(tcp'[a]) \cup Buffs(outBuff'[a]) \subseteq Buffs(tcp[a]) \cup Buffs(outBuff[a])
    BY <1>1, <1>3, <1>7
  <2> QED
    BY <1>1, <1>5, <1>6, <1>7, <2>1, <2>2, EdgeKept
<1>9. CASE a # n
  <2>1. \A s \in Tables : Unsent(a, s, p)' = Unsent(a, s, p)
    BY <1>4, <1>5, <1>7, <1>9
  <2>2. Sorted(tcp'[a], p) /\ Sorted(fwdPipe'[a], p) /\ tcp'[a] = tcp[a] /\ outBuff'[a] = outBuff[a]
    BY <1>1, <1>7, <1>9 DEF AtNode
  <2>3. AtNode(a, p)'
    BY <1>1, <1>5, <1>7, <2>1, <2>2, NodeKept
  <2> QED
    BY <1>8, <2>3
<1>10. CASE a = n
  <2>1. Sorted(tcp'[n], p)
    BY <1>1, <1>2, <1>7, <1>10 DEF AtNode, Pushes
  <2>2. ASSUME NEW y \in Buffs(tcp'[n]), Has(y, p)
        PROVE  To(y, p) < Unsent(n, y.table, p)'
    <3>1. CASE y \in Buffs(tcp[n])
      <4>1. /\ To(y, p) < Unsent(n, y.table, p) /\ y.table \in Tables
            /\ To(y, p) \in Int /\ Unsent(n, y.table, p) \in Int
        BY <1>7, <1>10, <2>2, <3>1, Comparable DEF AtNode
      <4> QED
        BY <1>6, <4>1
    <3>2. CASE y = x /\ p # n
      <4>1. To(x, p) < Unsent(n, x.table, p)
        BY <1>1, <1>7, <1>10, <2>2, <3>2 DEF AtNode
      <4> QED
        BY <1>1, <1>5, <3>2, <4>1
    <3>3. CASE y = x /\ p = n
      <4>1. GetNodeRange(x.buff, p) = myUpdateRange[p][x.table]
        BY <1>1, <2>2, <3>3, FlowParts DEF PlacesInv
      <4>2. To(x, p) = myUpdateRange[p][x.table].end
        BY <4>1 DEF To
      <4>3. Unsent(n, x.table, p)' = myUpdateRange[p][x.table].end + 1
        BY <1>1, <1>4, <3>3
      <4>4. myUpdateRange[p][x.table].end \in Int
        BY <1>1, FlowParts
      <4> QED
        BY <3>3, <4>2, <4>3, <4>4
    <3> QED
      BY <1>3, <3>1, <3>2, <3>3
  <2>3. n # p => \A s \in Tables : Unsent(n, s, p)' <= Merged(n, s, p)' + 1
    BY <1>5, <1>7, <1>10 DEF AtNode
  <2>4. \A y \in Buffs(fwdPipe[n]) \cup Buffs(recvBuff[n]) :
            Has(y, p) => Merged(n, y.table, p)' < From(y, p)
    BY <1>5, <1>7, <1>10, Comparable DEF AtNode
  <2>5. AtNode(n, p)'
    BY <1>1, <1>7, <1>10, <2>1, <2>2, <2>3, <2>4 DEF AtNode
  <2> QED
    BY <1>8, <1>10, <2>5
<1> QED
  BY <1>9, <1>10

(* The first buffer in the pipe comes after what has been merged.          *)
LEMMA OrderMerge ==
    ASSUME FlowInv, NEW p \in Nodes, Ordered(p), NEW n \in Nodes, NEW x, MergeDoes(n, x)
    PROVE  Ordered(p)'
<1> DEFINE t == x.table
<1>1. /\ UNCHANGED <<tcp, outBuff, recvBuff, myUpdateRange>>
      /\ \A a \in Nodes \ {n} : fwdPipe'[a] = fwdPipe[a]
      /\ Pops(fwdPipe[n], fwdPipe'[n], x)
      /\ x \in Buffs(fwdPipe[n]) /\ Buffs(fwdPipe'[n]) \subseteq Buffs(fwdPipe[n])
  BY DEF MergeDoes, Pops
<1>2. outBuff[n] = <<>> /\ Buffs(outBuff[n]) = {}
  BY FlowParts, ShortPipe DEF MergeDoes, BuffersInv
<1>3. t \in Tables /\ ~Has(x, n) /\ (Has(x, p) => From(x, p) \in Nat /\ To(x, p) \in Nat /\ From(x, p) <= To(x, p))
  BY <1>1, FlowParts DEF BuffersInv
<1>4. \A a \in Nodes, s \in Tables : (a # n \/ s # t) =>
        Merged(a, s, p)' = Merged(a, s, p) /\ Unsent(a, s, p)' = Unsent(a, s, p)
  BY <1>1 DEF MergeDoes, Merged, Unsent, First
<1>5. CASE pState[n] = "RUN" /\ p \in Shown(x)
  <2>1. /\ Has(x, p) /\ p # n /\ Merged(n, t, p)' = To(x, p)
        /\ Unsent(n, t, p)' = IF Known(n, t, p) THEN Unsent(n, t, p) ELSE From(x, p)
    BY <1>3, <1>5 DEF MergeDoes, Unsent
  <2>2. n \in Reach(p)
    <3>1. n \in Fed(p)
      BY <1>1, <2>1, FlowParts DEF PlacesInv
    <3> QED
      BY <3>1, Graph
  <2>3. /\ AtNode(n, p) /\ Unsent(n, t, p) \in Nat /\ Merged(n, t, p) \in Int
    BY <1>3, <2>2, Comparable DEF Ordered
  <2>4. Merged(n, t, p) < From(x, p) /\ Unsent(n, t, p) <= Merged(n, t, p) + 1
    BY <1>1, <1>3, <2>1, <2>3 DEF AtNode
  <2>5. ~Known(n, t, p) => Unsent(n, t, p) = 0
    <3>1. ~Known(n, t, p) => peerUpdateRange[n][t].range[p] = Span(0, -1)
      BY <1>3, FlowParts DEF BuffersInv, Known
    <3> QED
      BY <2>1, <3>1 DEF Unsent, First, Span
  <2>6. /\ Unsent(n, t, p)' \in Nat /\ Unsent(n, t, p)' >= Unsent(n, t, p)
        /\ Unsent(n, t, p)' <= Merged(n, t, p)' + 1
    BY <1>3, <2>1, <2>3, <2>4, <2>5
  <2>7. \A a \in Nodes, s \in Tables :
            Unsent(a, s, p)' \in Int /\ Unsent(a, s, p)' >= Unsent(a, s, p)
    BY <1>4, <2>6, Comparable
  <2> SUFFICES ASSUME NEW a \in Reach(p)
               PROVE  AtNode(a, p)' /\ (Downstream[a] \in Nodes => OnEdge(a, Downstream[a], p)')
    BY DEF Ordered
  <2>8. a \in Nodes /\ AtNode(a, p) /\ (Downstream[a] \in Nodes => OnEdge(a, Downstream[a], p))
    BY Graph DEF Ordered
  <2>9. AtNode(a, p)'
    <3>1. CASE a # n
      <4>1. \A s \in Tables : Unsent(a, s, p)' = Unsent(a, s, p) /\ Merged(a, s, p)' = Merged(a, s, p)
        BY <1>4, <2>8, <3>1
      <4>2. fwdPipe'[a] = fwdPipe[a]
        BY <1>1, <2>8, <3>1
      <4>3. Sorted(tcp[a], p) /\ Sorted(fwdPipe[a], p)
        BY <2>8 DEF AtNode
      <4> QED
        BY <1>1, <2>8, <4>1, <4>2, <4>3, NodeKept
    <3>2. CASE a = n
      <4>1. Sorted(fwdPipe'[n], p) /\ \A y \in Buffs(fwdPipe'[n]) : Precedes(x, y, p)
        BY <1>1, <2>3 DEF AtNode, Pops
      <4>2. \A y \in Buffs(recvBuff[n]) : Precedes(x, y, p)
        BY <1>1, <2>3 DEF AtNode
      <4>3. ASSUME NEW y \in Buffs(fwdPipe'[n]) \cup Buffs(recvBuff[n]), Has(y, p)
            PROVE  Merged(n, y.table, p)' < From(y, p)
        <5>1. CASE y.table = t
          BY <2>1, <4>1, <4>2, <4>3, <5>1 DEF Precedes
        <5>2. CASE y.table # t
          <6>1. y \in Buffs(fwdPipe[n]) \cup Buffs(recvBuff[n])
            BY <1>1, <4>3
          <6>2. y.table \in Tables /\ Merged(n, y.table, p) < From(y, p)
            BY <2>3, <4>3, <6>1, Comparable DEF AtNode
          <6> QED
            BY <1>4, <5>2, <6>2
        <5> QED
          BY <5>1, <5>2
      <4>4. ASSUME NEW y \in Buffs(tcp[n]), Has(y, p) PROVE To(y, p) < Unsent(n, y.table, p)'
        <5>1. /\ y.table \in Tables /\ To(y, p) \in Int /\ Unsent(n, y.table, p) \in Int
              /\ To(y, p) < Unsent(n, y.table, p)
          BY <2>3, <4>4, Comparable DEF AtNode
        <5> QED
          BY <2>7, <5>1
      <4>5. \A s \in Tables : Unsent(n, s, p)' <= Merged(n, s, p)' + 1
        <5> TAKE s \in Tables
        <5>1. CASE s = t
          BY <2>6, <5>1
        <5>2. CASE s # t
          BY <1>4, <2>1, <2>3, <5>2 DEF AtNode
        <5> QED
          BY <5>1, <5>2
      <4>6. \A y \in Buffs(fwdPipe'[n]) : \A z \in Buffs(recvBuff[n]) : Precedes(y, z, p)
        BY <1>1, <2>3 DEF AtNode
      <4> QED
        BY <1>1, <1>2, <2>3, <3>2, <4>1, <4>3, <4>4, <4>5, <4>6 DEF AtNode
    <3> QED
      BY <3>1, <3>2
  <2>10. ASSUME NEW m \in Nodes, Downstream[a] = m PROVE OnEdge(a, m, p)'
    <3>1. OnEdge(a, m, p)
      BY <2>8, <2>10
    <3>2. CASE m # n
      <4>1. \A s \in Tables : Merged(m, s, p)' = Merged(m, s, p)
        BY <1>4, <3>2
      <4>2. fwdPipe'[m] = fwdPipe[m]
        BY <1>1, <3>2
      <4> QED
        BY <1>1, <2>7, <2>8, <3>1, <4>1, <4>2, EdgeKept
    <3>3. CASE m = n
      <4>1. /\ \A y \in Buffs(tcp[a]) \cup Buffs(outBuff[a]) : Precedes(x, y, p)
            /\ To(x, p) < Unsent(a, t, p)
        BY <1>1, <2>1, <3>1, <3>3 DEF OnEdge
      <4>2. ASSUME NEW y \in Buffs(tcp[a]) \cup Buffs(outBuff[a]), Has(y, p)
            PROVE  Merged(n, y.table, p)' < From(y, p)
        <5>1. CASE y.table = t
          BY <2>1, <4>1, <4>2, <5>1 DEF Precedes
        <5>2. CASE y.table # t
          <6>1. y.table \in Tables /\ Merged(n, y.table, p) < From(y, p)
            BY <2>8, <3>1, <3>3, <4>2, Comparable DEF OnEdge
          <6> QED
            BY <1>4, <5>2, <6>1
        <5> QED
          BY <5>1, <5>2
      <4>3. a # n
        BY <2>10, <3>3, GraphAssumption
      <4>4. \A s \in Tables : Unsent(a, s, p)' = Unsent(a, s, p)
        BY <1>4, <2>8, <4>3
      <4>5. \A s \in Tables : Merged(n, s, p)' < Unsent(a, s, p)'
        <5> TAKE s \in Tables
        <5>1. CASE s = t
          BY <2>1, <4>1, <4>4, <5>1
        <5>2. CASE s # t
          BY <1>4, <3>1, <3>3, <4>4, <5>2 DEF OnEdge
        <5> QED
          BY <5>1, <5>2
      <4>6. ASSUME NEW y \in Buffs(recvBuff[n]) \cup Buffs(fwdPipe'[n])
            PROVE  /\ \A z \in Buffs(tcp[a]) \cup Buffs(outBuff[a]) : Precedes(y, z, p)
                   /\ Has(y, p) => To(y, p) < Unsent(a, y.table, p)'
        <5>1. y \in Buffs(recvBuff[n]) \cup Buffs(fwdPipe[n])
          BY <1>1
        <5>2. y.table \in Tables
          BY <5>1, Comparable
        <5> QED
          BY <3>1, <3>3, <4>4, <5>1, <5>2 DEF OnEdge
      <4> QED
        BY <1>1, <3>3, <4>2, <4>5, <4>6 DEF OnEdge
    <3> QED
      BY <3>2, <3>3
  <2> QED
    BY <2>9, <2>10
<1>6. CASE ~(pState[n] = "RUN" /\ p \in Shown(x))
  <2>1. \A a \in Nodes, s \in Tables :
            Merged(a, s, p)' = Merged(a, s, p) /\ Unsent(a, s, p)' = Unsent(a, s, p)
    <3>1. peerUpdateRange'[n][t].range[p] = peerUpdateRange[n][t].range[p]
      BY <1>3, <1>6 DEF MergeDoes
    <3> QED
      BY <1>1, <1>4, <3>1 DEF Merged, Unsent, First
  <2>2. \A a \in Nodes, s \in Tables :
            Unsent(a, s, p)' \in Int /\ Unsent(a, s, p)' >= Unsent(a, s, p)
    BY <2>1, Comparable
  <2> SUFFICES ASSUME NEW a \in Reach(p)
               PROVE  AtNode(a, p)' /\ (Downstream[a] \in Nodes => OnEdge(a, Downstream[a], p)')
    BY DEF Ordered
  <2>3. a \in Nodes /\ AtNode(a, p) /\ (Downstream[a] \in Nodes => OnEdge(a, Downstream[a], p))
    BY Graph DEF Ordered
  <2>4. \A b \in Nodes : Buffs(fwdPipe'[b]) \subseteq Buffs(fwdPipe[b])
    BY <1>1
  <2>5. Sorted(fwdPipe'[a], p)
    BY <1>1, <2>3 DEF AtNode, Pops
  <2>6. AtNode(a, p)'
    <3>1. \A y \in Buffs(fwdPipe'[a]) \cup Buffs(recvBuff[a]) :
            Has(y, p) => Merged(a, y.table, p)' < From(y, p)
      BY <2>1, <2>3, <2>4, Comparable DEF AtNode
    <3>2. \A y \in Buffs(tcp[a]) : Has(y, p) => To(y, p) < Unsent(a, y.table, p)'
      BY <2>1, <2>3, Comparable DEF AtNode
    <3>3. a # p =>
            /\ \A y \in Buffs(outBuff[a]) : Has(y, p) => To(y, p) < Unsent(a, y.table, p)'
            /\ \A s \in Tables : Unsent(a, s, p)' <= Merged(a, s, p)' + 1
      BY <2>1, <2>3, Comparable DEF AtNode
    <3> QED
      BY <1>1, <2>3, <2>4, <2>5, <3>1, <3>2, <3>3 DEF AtNode
  <2>7. ASSUME NEW m \in Nodes, Downstream[a] = m PROVE OnEdge(a, m, p)'
    <3>1. OnEdge(a, m, p) /\ Buffs(fwdPipe'[m]) \subseteq Buffs(fwdPipe[m])
      BY <2>3, <2>4, <2>7
    <3> QED
      BY <1>1, <2>1, <2>2, <2>3, <3>1, EdgeKept
  <2> QED
    BY <2>6, <2>7
<1> QED
  BY <1>5, <1>6

(* A step of the receiver of n: buffers leave connections, and what is at  *)
(* the receiver and in its pipe to the propagator is in order.             *)
LEMMA OrderReceive ==
    ASSUME FlowInv, NEW p \in Nodes, Ordered(p), NEW n \in Nodes,
           UNCHANGED <<outBuff, peerUpdateRange, myUpdateRange>>,
           \A a \in Nodes : /\ Buffs(tcp'[a]) \subseteq Buffs(tcp[a])
                            /\ Sorted(tcp[a], p) => Sorted(tcp'[a], p),
           \A a \in Nodes \ {n} : fwdPipe'[a] = fwdPipe[a] /\ recvBuff'[a] = recvBuff[a],
           n \in Reach(p) =>
                /\ Sorted(fwdPipe'[n], p)
                /\ \A x \in Buffs(fwdPipe'[n]) : \A y \in Buffs(recvBuff'[n]) : Precedes(x, y, p)
                /\ \A x \in Buffs(fwdPipe'[n]) \cup Buffs(recvBuff'[n]) :
                        Has(x, p) => Merged(n, x.table, p) < From(x, p),
           \A a \in Reach(p) : Downstream[a] = n =>
                \A x \in Buffs(fwdPipe'[n]) \cup Buffs(recvBuff'[n]) :
                    /\ \A y \in Buffs(tcp'[a]) \cup Buffs(outBuff[a]) : Precedes(x, y, p)
                    /\ Has(x, p) => To(x, p) < Unsent(a, x.table, p)
    PROVE  Ordered(p)'
<1>1. \A a, t : Merged(a, t, p)' = Merged(a, t, p) /\ Unsent(a, t, p)' = Unsent(a, t, p)
  BY DEF Merged, Unsent, First
<1> SUFFICES ASSUME NEW a \in Reach(p)
             PROVE  AtNode(a, p)' /\ (Downstream[a] \in Nodes => OnEdge(a, Downstream[a], p)')
  BY DEF Ordered
<1>2. a \in Nodes /\ AtNode(a, p) /\ (Downstream[a] \in Nodes => OnEdge(a, Downstream[a], p))
  BY Graph DEF Ordered
<1>3. \A t \in Tables : Unsent(a, t, p)' \in Int /\ Unsent(a, t, p)' >= Unsent(a, t, p)
  BY <1>1, <1>2, Comparable
<1>4. AtNode(a, p)'
  <2>1. /\ Sorted(tcp'[a], p)
        /\ \A x \in Buffs(tcp'[a]) :
            /\ \A y \in Buffs(outBuff'[a]) : Precedes(x, y, p)
            /\ Has(x, p) => To(x, p) < Unsent(a, x.table, p)'
    BY <1>1, <1>2 DEF AtNode
  <2>2. a # p =>
        /\ \A y \in Buffs(outBuff'[a]) : Has(y, p) => To(y, p) < Unsent(a, y.table, p)'
        /\ \A t \in Tables : Unsent(a, t, p)' <= Merged(a, t, p)' + 1
    BY <1>1, <1>2 DEF AtNode
  <2>3. /\ Sorted(fwdPipe'[a], p)
        /\ \A x \in Buffs(fwdPipe'[a]) : \A y \in Buffs(recvBuff'[a]) : Precedes(x, y, p)
        /\ \A x \in Buffs(fwdPipe'[a]) \cup Buffs(recvBuff'[a]) :
                Has(x, p) => Merged(a, x.table, p)' < From(x, p)
    <3>1. CASE a = n
      BY <1>1, <3>1
    <3>2. CASE a # n
      BY <1>1, <1>2, <3>2 DEF AtNode
    <3> QED
      BY <3>1, <3>2
  <2> QED
    BY <2>1, <2>2, <2>3 DEF AtNode
<1>5. ASSUME NEW m \in Nodes, Downstream[a] = m PROVE OnEdge(a, m, p)'
  <2>1. OnEdge(a, m, p) /\ Buffs(tcp'[a]) \subseteq Buffs(tcp[a])
    BY <1>2, <1>5
  <2>2. CASE m = n
    <3>1. \A y \in Buffs(tcp'[a]) \cup Buffs(outBuff'[a]) :
            Has(y, p) => Merged(m, y.table, p)' < From(y, p)
      BY <1>1, <2>1 DEF OnEdge
    <3>2. \A t \in Tables : Merged(m, t, p)' < Unsent(a, t, p)'
      BY <1>1, <2>1 DEF OnEdge
    <3>3. \A x \in Buffs(recvBuff'[m]) \cup Buffs(fwdPipe'[m]) :
            /\ \A y \in Buffs(tcp'[a]) \cup Buffs(outBuff'[a]) : Precedes(x, y, p)
            /\ Has(x, p) => To(x, p) < Unsent(a, x.table, p)'
      BY <1>1, <1>5, <2>2
    <3> QED
      BY <3>1, <3>2, <3>3 DEF OnEdge
  <2>3. CASE m # n
    <3>1. /\ Buffs(recvBuff'[m]) \cup Buffs(fwdPipe'[m])
                \subseteq Buffs(recvBuff[m]) \cup Buffs(fwdPipe[m])
          /\ Buffs(tcp'[a]) \cup Buffs(outBuff'[a]) \subseteq Buffs(tcp[a]) \cup Buffs(outBuff[a])
      BY <2>1, <2>3
    <3> QED
      BY <1>1, <1>2, <1>3, <2>1, <3>1, EdgeKept
  <2> QED
    BY <2>2, <2>3
<1> QED
  BY <1>4, <1>5

(* The receiver takes the first buffer of an upstream node; on a straight  *)
(* way there is only one such node.                                        *)
LEMMA OrderTake ==
    ASSUME FlowInv, NEW p \in Nodes, Straight(p), Ordered(p),
           NEW n \in Nodes, NEW u \in Nodes, NEW x, TakeDoes(n, u, x)
    PROVE  Ordered(p)'
<1>1. /\ UNCHANGED <<outBuff, peerUpdateRange, myUpdateRange>>
      /\ \A a \in Nodes \ {n} : fwdPipe'[a] = fwdPipe[a] /\ recvBuff'[a] = recvBuff[a]
      /\ \A a \in Nodes \ {u} : tcp'[a] = tcp[a]
      /\ Pops(tcp[u], tcp'[u], x) /\ Downstream[u] = n /\ x \in Buffs(tcp[u])
      /\ IsBuff(x)
  BY DEF TakeDoes, Pops, Buffs
<1>2. \A a \in Nodes : /\ Buffs(tcp'[a]) \subseteq Buffs(tcp[a])
                       /\ Sorted(tcp[a], p) => Sorted(tcp'[a], p)
  BY <1>1 DEF Pops
<1>3. /\ Buffs(recvBuff'[n]) \subseteq {x}
      /\ \/ fwdPipe'[n] = fwdPipe[n]
         \/ /\ Buffs(recvBuff'[n]) = {}
            /\ \E y : Copies(y, x, n) /\ Pushes(fwdPipe[n], fwdPipe'[n], y)
  <2>1. recvBuff'[n] = <<>> \/ recvBuff'[n] = <<x>>
    BY DEF TakeDoes
  <2>2. \/ fwdPipe'[n] = fwdPipe[n]
        \/ /\ recvBuff'[n] = <<>>
           /\ \E y : Copies(y, x, n) /\ Pushes(fwdPipe[n], fwdPipe'[n], y)
    BY DEF TakeDoes
  <2> QED
    BY <1>1, <2>1, <2>2, ShortPipe
<1>4. Has(x, p) => /\ u \in Reach(p) /\ n \in Reach(p)
                   /\ \A a \in Reach(p) : Downstream[a] = n => a = u
  <2>1. Has(x, p) => u \in Reach(p)
    BY <1>1, FlowParts DEF PlacesInv
  <2> QED
    BY <1>1, <2>1, Graph DEF Straight
<1>5. Has(x, p) =>
        /\ \A y \in Buffs(tcp'[u]) \cup Buffs(outBuff[u]) : Precedes(x, y, p)
        /\ To(x, p) < Unsent(u, x.table, p)
        /\ \A y \in Buffs(recvBuff[n]) \cup Buffs(fwdPipe[n]) : Precedes(y, x, p)
        /\ Merged(n, x.table, p) < From(x, p)
  <2>1. ASSUME Has(x, p) PROVE AtNode(u, p) /\ OnEdge(u, n, p)
    BY <1>1, <1>4, <2>1 DEF Ordered
  <2> QED
    BY <1>1, <2>1 DEF AtNode, OnEdge, Pops
<1>6. ASSUME NEW z \in Buffs(fwdPipe'[n]) \cup Buffs(recvBuff'[n]), Has(z, p)
      PROVE  \/ z \in Buffs(fwdPipe[n])
             \/ /\ Has(x, p) /\ z.table = x.table
                /\ From(z, p) = From(x, p) /\ To(z, p) = To(x, p)
  <2>1. CASE z \in Buffs(recvBuff'[n])
    BY <1>3, <1>6, <2>1
  <2>2. CASE z \in Buffs(fwdPipe'[n])
    BY <1>3, <1>6, <2>2, FlowCopy DEF Pushes
  <2> QED
    BY <2>1, <2>2
<1>7. ASSUME n \in Reach(p)
      PROVE  /\ Sorted(fwdPipe'[n], p)
             /\ \A z \in Buffs(fwdPipe'[n]) : \A y \in Buffs(recvBuff'[n]) : Precedes(z, y, p)
             /\ \A z \in Buffs(fwdPipe'[n]) \cup Buffs(recvBuff'[n]) :
                    Has(z, p) => Merged(n, z.table, p) < From(z, p)
  <2>1. AtNode(n, p)
    BY <1>7 DEF Ordered
  <2>2. \A z \in Buffs(fwdPipe'[n]) \cup Buffs(recvBuff'[n]) :
                    Has(z, p) => Merged(n, z.table, p) < From(z, p)
    BY <1>5, <1>6, <2>1 DEF AtNode
  <2>3. CASE fwdPipe'[n] = fwdPipe[n]
    <3>1. \A z \in Buffs(fwdPipe'[n]) : \A y \in Buffs(recvBuff'[n]) : Precedes(z, y, p)
      BY <1>3, <1>5, <2>3 DEF Precedes
    <3> QED
      BY <2>1, <2>2, <2>3, <3>1 DEF AtNode
  <2>4. ASSUME NEW y, Copies(y, x, n), Pushes(fwdPipe[n], fwdPipe'[n], y)
        PROVE  Sorted(fwdPipe'[n], p)
    <3>1. \A z \in Buffs(fwdPipe[n]) : Precedes(z, y, p)
      BY <1>5, <2>4, FlowCopy DEF Precedes
    <3> QED
      BY <2>1, <2>4, <3>1 DEF AtNode, Pushes
  <2> QED
    BY <1>3, <2>2, <2>3, <2>4
<1>8. ASSUME NEW a \in Reach(p), Downstream[a] = n,
             NEW z \in Buffs(fwdPipe'[n]) \cup Buffs(recvBuff'[n])
      PROVE  /\ \A y \in Buffs(tcp'[a]) \cup Buffs(outBuff[a]) : Precedes(z, y, p)
             /\ Has(z, p) => To(z, p) < Unsent(a, z.table, p)
  <2>1. OnEdge(a, n, p) /\ a \in Nodes
    BY <1>8, Graph DEF Ordered
  <2>2. CASE z \in Buffs(fwdPipe[n])
    BY <1>2, <2>1, <2>2 DEF OnEdge
  <2>3. CASE Has(z, p) /\ z \notin Buffs(fwdPipe[n])
    <3>1. /\ Has(x, p) /\ z.table = x.table
          /\ From(z, p) = From(x, p) /\ To(z, p) = To(x, p)
      BY <1>6, <2>3
    <3>2. a = u
      BY <1>4, <1>8, <3>1
    <3> QED
      BY <1>5, <3>1, <3>2 DEF Precedes
  <2> QED
    BY <2>2, <2>3 DEF Precedes
<1> QED
  BY <1>1, <1>2, <1>7, <1>8, OrderReceive

(* What is forwarded after the removal keeps its place.                    *)
LEMMA OrderDedup ==
    ASSUME FlowInv, NEW p \in Nodes, Ordered(p), NEW n \in Nodes, NEW x, DedupDoes(n, x)
    PROVE  Ordered(p)'
<1>1. /\ UNCHANGED <<tcp, outBuff, peerUpdateRange, myUpdateRange>>
      /\ \A a \in Nodes \ {n} : fwdPipe'[a] = fwdPipe[a] /\ recvBuff'[a] = recvBuff[a]
      /\ Buffs(recvBuff[n]) = {x} /\ IsBuff(x)
  BY DEF DedupDoes, UpdateBufferMsg, IsBuff
<1>2. \/ recvBuff'[n] = recvBuff[n] /\ fwdPipe'[n] = fwdPipe[n]
      \/ /\ fwdPipe'[n] = fwdPipe[n]
         /\ \E z : Buffs(recvBuff'[n]) = {z} /\ z.table = x.table /\ z.buff.ranges = x.buff.ranges
      \/ /\ Buffs(recvBuff'[n]) = {}
         /\ \/ fwdPipe'[n] = fwdPipe[n]
            \/ \E y : Copies(y, x, n) /\ Pushes(fwdPipe[n], fwdPipe'[n], y)
  <2>1. \A z \in UpdateBufferMsg : Buffs(<<z>>) = {z}
    BY ShortPipe DEF UpdateBufferMsg, IsBuff
  <2>2. Buffs(<<>>) = {}
    BY ShortPipe
  <2> QED
    BY <2>1, <2>2 DEF DedupDoes
<1>3. ASSUME NEW z \in Buffs(fwdPipe'[n]) \cup Buffs(recvBuff'[n]), Has(z, p)
      PROVE  \/ z \in Buffs(fwdPipe[n])
             \/ /\ Has(x, p) /\ z.table = x.table
                /\ From(z, p) = From(x, p) /\ To(z, p) = To(x, p)
  <2>1. CASE z \in Buffs(recvBuff'[n])
    <3>1. z = x \/ (z.table = x.table /\ z.buff.ranges = x.buff.ranges)
      BY <1>1, <1>2, <2>1
    <3>2. ASSUME z.buff.ranges = x.buff.ranges
          PROVE  /\ HasNodeRange(z.buff, p) = HasNodeRange(x.buff, p)
                 /\ GetNodeRange(z.buff, p) = GetNodeRange(x.buff, p)
      BY <3>2, SameSlots
    <3> QED
      BY <1>3, <3>1, <3>2 DEF Has, From, To
  <2>2. CASE z \in Buffs(fwdPipe'[n])
    BY <1>2, <1>3, <2>2, FlowCopy DEF Pushes
  <2> QED
    BY <1>3, <2>1, <2>2
<1>4. ASSUME n \in Reach(p)
      PROVE  /\ Sorted(fwdPipe'[n], p)
             /\ \A z \in Buffs(fwdPipe'[n]) : \A y \in Buffs(recvBuff'[n]) : Precedes(z, y, p)
             /\ \A z \in Buffs(fwdPipe'[n]) \cup Buffs(recvBuff'[n]) :
                    Has(z, p) => Merged(n, z.table, p) < From(z, p)
  <2>1. AtNode(n, p)
    BY <1>4 DEF Ordered
  <2>2. /\ \A z \in Buffs(fwdPipe[n]) : Precedes(z, x, p)
        /\ Has(x, p) => Merged(n, x.table, p) < From(x, p)
    BY <1>1, <2>1 DEF AtNode
  <2>3. \A z \in Buffs(fwdPipe'[n]) \cup Buffs(recvBuff'[n]) :
                    Has(z, p) => Merged(n, z.table, p) < From(z, p)
    BY <1>3, <2>1, <2>2 DEF AtNode
  <2>4. CASE fwdPipe'[n] = fwdPipe[n]
    <3>1. ASSUME NEW z \in Buffs(fwdPipe[n]), NEW y \in Buffs(recvBuff'[n])
          PROVE  Precedes(z, y, p)
      <4>1. Has(y, p) => /\ Has(x, p) /\ y.table = x.table /\ From(y, p) = From(x, p)
        <5>1. y = x \/ (y.table = x.table /\ y.buff.ranges = x.buff.ranges)
          BY <1>1, <1>2
        <5>2. ASSUME y.buff.ranges = x.buff.ranges
              PROVE  /\ HasNodeRange(y.buff, p) = HasNodeRange(x.buff, p)
                     /\ GetNodeRange(y.buff, p) = GetNodeRange(x.buff, p)
          BY <5>2, SameSlots
        <5> QED
          BY <5>1, <5>2 DEF Has, From
      <4> QED
        BY <2>2, <4>1 DEF Precedes
    <3> QED
      BY <2>1, <2>3, <2>4, <3>1 DEF AtNode
  <2>5. ASSUME NEW y, Copies(y, x, n), Pushes(fwdPipe[n], fwdPipe'[n], y)
        PROVE  Sorted(fwdPipe'[n], p)
    <3>1. \A z \in Buffs(fwdPipe[n]) : Precedes(z, y, p)
      BY <2>2, <2>5, FlowCopy DEF Precedes
    <3> QED
      BY <2>1, <2>5, <3>1 DEF AtNode, Pushes
  <2> QED
    BY <1>2, <2>3, <2>4, <2>5
<1>5. ASSUME NEW a \in Reach(p), Downstream[a] = n,
             NEW z \in Buffs(fwdPipe'[n]) \cup Buffs(recvBuff'[n])
      PROVE  /\ \A y \in Buffs(tcp'[a]) \cup Buffs(outBuff[a]) : Precedes(z, y, p)
             /\ Has(z, p) => To(z, p) < Unsent(a, z.table, p)
  <2>1. OnEdge(a, n, p) /\ a \in Nodes
    BY <1>5, Graph DEF Ordered
  <2>2. CASE z \in Buffs(fwdPipe[n])
    BY <1>1, <2>1, <2>2 DEF OnEdge
  <2>3. CASE Has(z, p) /\ z \notin Buffs(fwdPipe[n])
    <3>1. /\ Has(x, p) /\ z.table = x.table
          /\ From(z, p) = From(x, p) /\ To(z, p) = To(x, p)
      BY <1>3, <2>3
    <3>2. /\ \A y \in Buffs(tcp[a]) \cup Buffs(outBuff[a]) : Precedes(x, y, p)
          /\ To(x, p) < Unsent(a, x.table, p)
      BY <1>1, <2>1, <3>1 DEF OnEdge
    <3> QED
      BY <1>1, <3>1, <3>2 DEF Precedes
  <2> QED
    BY <2>2, <2>3 DEF Precedes
<1>6. \A a \in Nodes : /\ Buffs(tcp'[a]) \subseteq Buffs(tcp[a])
                       /\ Sorted(tcp[a], p) => Sorted(tcp'[a], p)
  BY <1>1
<1> QED
  BY <1>1, <1>4, <1>5, <1>6, OrderReceive

(* The order of the numbers of a node is kept by every step.               *)
LEMMA OrderStep ==
    ASSUME FlowInv, NEW p \in Nodes, OrderInv(p), [Next]_vars
    PROVE  OrderInv(p)'
<1> SUFFICES ASSUME Straight(p) PROVE Ordered(p)'
  BY DEF OrderInv, Ordered
<1>1. Ordered(p)
  BY DEF OrderInv, Ordered
<1>2. CASE Idle
  BY <1>1, <1>2, OrderSame DEF Idle, IdleAt
<1>3. ASSUME NEW n \in Nodes, NEW t \in Tables, LogDoes(n, t) PROVE Ordered(p)'
  <2>1. \A s \in Tables : myUpdateRange'[p][s].st = myUpdateRange[p][s].st
    BY <1>3 DEF LogDoes
  <2>2. \A a \in Nodes : Keeps(tcp[a], tcp'[a]) /\ Keeps(fwdPipe[a], fwdPipe'[a])
    BY <1>3, KeepsSame DEF LogDoes
  <2>3. UNCHANGED <<outBuff, recvBuff, peerUpdateRange>>
    BY <1>3 DEF LogDoes
  <2> QED
    BY <1>1, <2>1, <2>2, <2>3, OrderSame
<1>4. ASSUME NEW n \in Nodes, NEW m, RecordDoes(n, m) PROVE Ordered(p)'
  <2>1. UNCHANGED <<tcp, fwdPipe, outBuff, recvBuff, peerUpdateRange, myUpdateRange>>
    BY <1>4 DEF RecordDoes
  <2>2. \A a \in Nodes : Keeps(tcp[a], tcp'[a]) /\ Keeps(fwdPipe[a], fwdPipe'[a])
    BY <2>1, KeepsSame
  <2> QED
    BY <1>1, <2>1, <2>2, OrderSame
<1>5. ASSUME NEW n \in Nodes, FlowStepOf(n) PROVE Ordered(p)'
  BY <1>1, <1>3, <1>4, <1>5, OrderFlush, OrderSend, OrderMerge, OrderTake, OrderDedup
    DEF FlowStepOf
<1> QED
  BY <1>2, <1>5, FlowEffects

-----------------------------------------------------------------------------
(* The own updates of a propagator.                                        *)

(* A step of another node.                                                 *)
LEMMA OwnElsewhere ==
    ASSUME NEW n \in Nodes, OwnInv(n),
           timer'[n] = timer[n], pPc'[n] = pPc[n], pState'[n] = pState[n],
           outBuff'[n] = outBuff[n], fatal'[n] # "my_update_range",
           \A t \in Tables : /\ myUpdateStore'[n][t] = myUpdateStore[n][t]
                             /\ myUpdateRange'[n][t] = myUpdateRange[n][t]
                             /\ updateStore[n][t].keys \subseteq updateStore'[n][t].keys
    PROVE  OwnInv(n)'
BY DEF OwnInv, HasOwnRange

(* Steps outside the data path: a propagator that terminates stops         *)
(* recording.                                                              *)
LEMMA OwnIdle ==
    ASSUME NEW n \in Nodes, OwnInv(n), Idle
    PROVE  OwnInv(n)'
<1>1. UNCHANGED <<outBuff, myUpdateRange, myUpdateStore, fatal>> /\ IdleAt(n)
  BY DEF Idle
<1>2. /\ (timer[n] = "none" /\ pPc[n] \in {"poll", "exit"}) =>
            timer'[n] = "none" /\ pPc'[n] \in {"poll", "exit"}
      /\ pState'[n] = "RUN" => pState[n] = "RUN" /\ updateStore'[n] = updateStore[n]
  BY <1>1 DEF IdleAt
<1> QED
  BY <1>1, <1>2 DEF OwnInv, HasOwnRange

(* A logged update is counted and, on a loop table, kept for the record.   *)
LEMMA OwnLog ==
    ASSUME FlowInv, NEW n \in Nodes, OwnInv(n), NEW t \in Tables, LogDoes(n, t)
    PROVE  OwnInv(n)'
<1>1. /\ outBuff[n] = <<>> /\ outBuff'[n] = <<>> /\ timer'[n] = timer[n] /\ pPc'[n] = pPc[n]
      /\ pState'[n] = pState[n] /\ fatal'[n] = fatal[n]
  BY FlowParts DEF LogDoes, BuffersInv
<1>2. /\ \A s \in Tables \ {t} :
            /\ myUpdateRange'[n][s] = myUpdateRange[n][s]
            /\ myUpdateStore'[n][s] = myUpdateStore[n][s]
            /\ updateStore'[n][s] = updateStore[n][s]
      /\ myUpdateRange'[n][t].st <= myUpdateRange'[n][t].end
  <2>1. myUpdateRange[n][t].st <= myUpdateRange[n][t].end + 1
    BY FlowParts DEF BuffersInv
  <2> QED
    BY <2>1 DEF LogDoes
<1>3. CASE n \notin Batched
  <2>1. updateStore'[n][t] = updateStore[n][t] /\ myUpdateStore'[n][t] = myUpdateStore[n][t]
    BY <1>3 DEF LogDoes
  <2> QED
    BY <1>1, <1>2, <1>3, <2>1 DEF OwnInv, HasOwnRange
<1>4. CASE n \in Batched
  <2>1. PICK k \in AllKeys :
            /\ updateStore'[n][t].keys = updateStore[n][t].keys \cup {k}
            /\ IF t \in Loop[n]
               THEN myUpdateStore'[n][t].keys = myUpdateStore[n][t].keys \cup {k}
               ELSE myUpdateStore'[n][t] = myUpdateStore[n][t]
    BY <1>4 DEF LogDoes
  <2>2. /\ t \notin Loop[n] => myUpdateStore'[n][t].keys = {}
        /\ t \in Loop[n] => myUpdateStore'[n][t].keys # {}
        /\ pState[n] = "RUN" => myUpdateStore'[n][t].keys \subseteq updateStore'[n][t].keys
    BY <2>1 DEF OwnInv
  <2> QED
    BY <1>1, <1>2, <1>4, <2>2 DEF OwnInv, HasOwnRange
<1> QED
  BY <1>3, <1>4

(* The buffer for the receiver takes the kept updates.                     *)
LEMMA OwnFlush ==
    ASSUME FlowInv, NEW n \in Nodes, OwnInv(n), NEW t \in Tables, NEW x, FlushDoes(n, t, x)
    PROVE  OwnInv(n)'
<1>1. /\ n \in Batched /\ outBuff[n] = <<>> /\ outBuff'[n] # <<>> /\ outBuff'[n][1].table = t
      /\ timer'[n] = timer[n] /\ pState'[n] = pState[n] /\ myUpdateRange' = myUpdateRange
  BY ShortPipe DEF FlushDoes, OwnInv
<1>2. \A s \in Tables \ {t} : /\ myUpdateStore'[n][s] = myUpdateStore[n][s]
                              /\ updateStore'[n][s] = updateStore[n][s]
  BY DEF FlushDoes
<1>3. myUpdateStore'[n][t].keys = {} /\ fatal'[n] # "my_update_range"
  BY DEF FlushDoes, OwnInv, EmptyStore
<1> QED
  BY <1>1, <1>2, <1>3 DEF OwnInv, HasOwnRange

(* Once the buffer is sent the next own range begins.                      *)
LEMMA OwnSend ==
    ASSUME FlowInv, NEW n \in Nodes, OwnInv(n), NEW x, SendDoes(n, x)
    PROVE  OwnInv(n)'
<1>1. /\ n \in Batched /\ outBuff[n] # <<>> /\ outBuff[n][1] = x /\ outBuff'[n] = <<>>
      /\ timer'[n] = timer[n] /\ pState'[n] = pState[n]
      /\ UNCHANGED <<updateStore, myUpdateStore>> /\ fatal'[n] # "my_update_range"
      /\ x.table \in Tables
  BY ShortPipe DEF SendDoes, OwnInv
<1>2. /\ \A s \in Tables \ {x.table} : myUpdateRange'[n][s] = myUpdateRange[n][s]
      /\ ~(myUpdateRange'[n][x.table].st <= myUpdateRange'[n][x.table].end)
  <2>1. myUpdateRange[n][x.table].end \in Int
    BY <1>1, FlowParts
  <2> QED
    BY <2>1 DEF SendDoes, Span
<1>3. myUpdateStore[n][x.table].keys = {}
  BY <1>1 DEF OwnInv
<1> QED
  BY <1>1, <1>2, <1>3 DEF OwnInv, HasOwnRange

(* Every step keeps it.                                                    *)
LEMMA OwnStep ==
    ASSUME FlowInv, NEW p \in Nodes, OwnInv(p), [Next]_vars
    PROVE  OwnInv(p)'
<1>1. fatal[p] # "my_update_range"
  BY DEF OwnInv
<1>2. ASSUME NEW n \in Nodes, NEW t \in Tables, LogDoes(n, t) PROVE OwnInv(p)'
  <2>1. CASE p = n
    BY <1>2, <2>1, OwnLog
  <2>2. CASE p # n
    <3>1. /\ timer' = timer /\ pPc' = pPc /\ pState' = pState /\ outBuff' = outBuff
          /\ fatal' = fatal
          /\ \A s \in Tables : /\ myUpdateStore'[p][s] = myUpdateStore[p][s]
                               /\ myUpdateRange'[p][s] = myUpdateRange[p][s]
                               /\ updateStore'[p][s] = updateStore[p][s]
      BY <1>2, <2>2 DEF LogDoes
    <3> QED
      BY <1>1, <3>1, OwnElsewhere
  <2> QED
    BY <2>1, <2>2
<1>3. ASSUME NEW n \in Nodes, NEW t \in Tables, NEW x, FlushDoes(n, t, x) PROVE OwnInv(p)'
  <2>1. CASE p = n
    BY <1>3, <2>1, OwnFlush
  <2>2. CASE p # n
    <3>1. /\ timer' = timer /\ pState' = pState /\ outBuff'[p] = outBuff[p]
          /\ pPc'[p] = pPc[p] /\ fatal'[p] = fatal[p]
          /\ \A s \in Tables : /\ myUpdateStore'[p][s] = myUpdateStore[p][s]
                               /\ myUpdateRange'[p][s] = myUpdateRange[p][s]
                               /\ updateStore'[p][s] = updateStore[p][s]
      BY <1>3, <2>2 DEF FlushDoes
    <3> QED
      BY <1>1, <3>1, OwnElsewhere
  <2> QED
    BY <2>1, <2>2
<1>4. ASSUME NEW n \in Nodes, NEW x, SendDoes(n, x) PROVE OwnInv(p)'
  <2>1. CASE p = n
    BY <1>4, <2>1, OwnSend
  <2>2. CASE p # n
    <3>1. /\ timer' = timer /\ pState' = pState /\ outBuff'[p] = outBuff[p]
          /\ pPc'[p] = pPc[p] /\ fatal'[p] = fatal[p] /\ myUpdateRange'[p] = myUpdateRange[p]
          /\ UNCHANGED <<updateStore, myUpdateStore>>
      BY <1>4, <2>2 DEF SendDoes
    <3> QED
      BY <1>1, <3>1, OwnElsewhere
  <2> QED
    BY <2>1, <2>2
<1>5. ASSUME NEW n \in Nodes, NEW x, MergeDoes(n, x) PROVE OwnInv(p)'
  <2>1. UNCHANGED <<timer, pState, outBuff, pPc, myUpdateRange, myUpdateStore>>
    BY <1>5 DEF MergeDoes
  <2>2. fatal'[p] # "my_update_range"
    BY <1>1, <1>5 DEF MergeDoes
  <2>3. ASSUME NEW s \in Tables PROVE updateStore[p][s].keys \subseteq updateStore'[p][s].keys
    <3>1. CASE p = n /\ s = x.table /\ pState[n] = "RUN"
      BY <1>5, <3>1 DEF MergeDoes
    <3>2. CASE ~(p = n /\ s = x.table /\ pState[n] = "RUN")
      BY <1>5, <3>2 DEF MergeDoes
    <3> QED
      BY <3>1, <3>2
  <2> QED
    BY <2>1, <2>2, <2>3, OwnElsewhere
<1>6. ASSUME NEW n \in Nodes, NEW m, RecordDoes(n, m) PROVE OwnInv(p)'
  <2>1. UNCHANGED <<timer, pState, outBuff, pPc, myUpdateRange, myUpdateStore, updateStore, fatal>>
    BY <1>6 DEF RecordDoes
  <2> QED
    BY <1>1, <2>1, OwnElsewhere
<1>7. ASSUME NEW n \in Nodes, NEW u \in Nodes, NEW x, TakeDoes(n, u, x) PROVE OwnInv(p)'
  <2>1. UNCHANGED <<timer, pState, outBuff, pPc, myUpdateRange, myUpdateStore, updateStore>>
    BY <1>7 DEF TakeDoes
  <2>2. fatal'[p] # "my_update_range"
    BY <1>1, <1>7 DEF TakeDoes
  <2> QED
    BY <2>1, <2>2, OwnElsewhere
<1>8. ASSUME NEW n \in Nodes, NEW x, DedupDoes(n, x) PROVE OwnInv(p)'
  <2>1. UNCHANGED <<timer, pState, outBuff, pPc, myUpdateRange, myUpdateStore, updateStore>>
    BY <1>8 DEF DedupDoes
  <2>2. DedupFault(n, myUpdates[n][x.table], x.buff) # "my_update_range"
    BY DEF DedupFault
  <2>3. fatal'[p] # "my_update_range"
    BY <1>1, <1>8, <2>2 DEF DedupDoes
  <2> QED
    BY <2>1, <2>3, OwnElsewhere
<1>9. CASE Idle
  BY <1>9, OwnIdle
<1>10. ASSUME NEW n \in Nodes, FlowStepOf(n) PROVE OwnInv(p)'
  BY <1>2, <1>3, <1>4, <1>5, <1>6, <1>7, <1>8, <1>10 DEF FlowStepOf
<1> QED
  BY <1>9, <1>10, FlowEffects

-----------------------------------------------------------------------------
(* The records of a receiver.                                              *)

(* A queue of records.                                                     *)
LEMMA RangeOfQueue ==
    ASSUME NEW S, NEW q \in Seq(S)
    PROVE  /\ Range(<<>>) = {}
           /\ \A b : Range(Append(q, b)) = Range(q) \cup {b}
           /\ q # <<>> => Range(q) = Range(Tail(q)) \cup {Head(q)}
           /\ q # <<>> => Head(q) \in S
           /\ Range(q) \subseteq S
<1>1. Range(<<>>) = {}
  BY DEF Range
<1>2. DOMAIN q = 1 .. Len(q) /\ Len(q) \in Nat
  OBVIOUS
<1>3. ASSUME NEW b PROVE Range(Append(q, b)) = Range(q) \cup {b}
  <2> DEFINE T == S \cup {b}
             r == Append(q, b)
  <2>1. q \in Seq(T) /\ b \in T
    OBVIOUS
  <2> HIDE DEF T
  <2>2. /\ DOMAIN r = 1 .. Len(q) + 1 /\ \A i \in 1 .. Len(q) : r[i] = q[i]
        /\ r[Len(q) + 1] = b
    BY <2>1
  <2> HIDE DEF r
  <2>3. ASSUME NEW c \in Range(r) PROVE c \in Range(q) \cup {b}
    <3>1. PICK i \in 1 .. Len(q) + 1 : c = r[i]
      BY <2>2 DEF Range
    <3>2. CASE i = Len(q) + 1
      BY <2>2, <3>1, <3>2
    <3>3. CASE i \in 1 .. Len(q)
      BY <1>2, <2>2, <3>1, <3>3 DEF Range
    <3> QED
      BY <1>2, <3>2, <3>3
  <2>4. ASSUME NEW c \in Range(q) \cup {b} PROVE c \in Range(r)
    <3>1. CASE c = b
      <4>1. Len(q) + 1 \in 1 .. Len(q) + 1
        BY <1>2
      <4> QED
        BY <2>2, <3>1, <4>1 DEF Range
    <3>2. CASE c \in Range(q)
      <4>1. PICK i \in 1 .. Len(q) : c = q[i]
        BY <1>2, <3>2 DEF Range
      <4>2. i \in 1 .. Len(q) + 1
        BY <1>2
      <4> QED
        BY <2>2, <4>1, <4>2 DEF Range
    <3> QED
      BY <3>1, <3>2
  <2> QED
    BY <2>3, <2>4 DEF r
<1>4. ASSUME q # <<>> PROVE Range(q) = Range(Tail(q)) \cup {Head(q)} /\ Head(q) \in S
  <2> DEFINE r == Tail(q)
  <2>1. /\ Len(q) > 0 /\ Head(q) = q[1] /\ Len(r) = Len(q) - 1
        /\ DOMAIN r = 1 .. Len(q) - 1 /\ \A i \in 1 .. Len(q) - 1 : r[i] = q[i + 1]
    BY <1>4
  <2> HIDE DEF r
  <2>2. ASSUME NEW c \in Range(q) PROVE c \in Range(r) \cup {q[1]}
    <3>1. PICK i \in 1 .. Len(q) : c = q[i]
      BY <1>2 DEF Range
    <3>2. CASE i = 1
      BY <3>1, <3>2
    <3>3. CASE i # 1
      <4>1. i - 1 \in 1 .. Len(q) - 1 /\ (i - 1) + 1 = i
        BY <1>2, <3>3
      <4> QED
        BY <2>1, <3>1, <4>1 DEF Range
    <3> QED
      BY <3>2, <3>3
  <2>3. ASSUME NEW c \in Range(r) PROVE c \in Range(q)
    <3>1. PICK i \in 1 .. Len(q) - 1 : c = r[i]
      BY <2>1 DEF Range
    <3>2. i + 1 \in 1 .. Len(q) /\ c = q[i + 1]
      BY <1>2, <2>1, <3>1
    <3> QED
      BY <1>2, <3>2 DEF Range
  <2>4. q[1] \in Range(q) /\ q[1] \in S
    BY <1>2, <2>1 DEF Range
  <2> QED
    BY <2>1, <2>2, <2>3, <2>4 DEF r
<1>5. Range(q) \subseteq S
  BY <1>2 DEF Range
<1> QED
  BY <1>1, <1>3, <1>4, <1>5

(* The records of p stay or some of them go, and no EMyUpdates is sent.    *)
LEMMA MyUpdatesKept ==
    ASSUME NEW p \in Nodes, MyUpdatesInv(p), outBuff'[p] = outBuff[p],
           \A t \in Tables :
                /\ Range(myUpdates'[p][t]) \subseteq Range(myUpdates[p][t])
                /\ myUpdates'[p][t] # <<>> => myUpdates[p][t] # <<>>
                /\ t \in hasMyUpdates[p] => t \in hasMyUpdates'[p]
                /\ myUpdateRange'[p][t] = myUpdateRange[p][t],
           r2p'[p] = r2p[p],
           \A i \in 1 .. Len(p2r'[p]) : p2r'[p][i].type = "EMyUpdates" =>
                \E j \in 1 .. Len(p2r[p]) : p2r[p][j] = p2r'[p][i],
           \A j \in 1 .. Len(p2r[p]) : p2r[p][j].type = "EMyUpdates" => p2r[p][j].table \in Tables
    PROVE  MyUpdatesInv(p)'
<1>1. \A t \in Tables : Answered(p, t)' <=> Answered(p, t)
  BY DEF Answered
<1>2. ASSUME NEW t \in Tables
      PROVE  /\ \A own \in Range(myUpdates'[p][t]) :
                    /\ IsRecord(p, own)
                    /\ own.ranges[1].end <= myUpdateRange'[p][t].end
                    /\ ~Answered(p, t)' => own.ranges[1].end < myUpdateRange'[p][t].st
             /\ myUpdates'[p][t] # <<>> => t \in hasMyUpdates'[p]
  BY <1>1 DEF MyUpdatesInv
<1>3. ASSUME NEW i \in 1 .. Len(p2r'[p]), p2r'[p][i].type = "EMyUpdates"
      PROVE  /\ outBuff'[p][1].table = p2r'[p][i].table
             /\ p2r'[p][i].buff.ranges = <<NodeSlot(p, myUpdateRange'[p][p2r'[p][i].table])>>
             /\ HasOwnRange(p, p2r[p][i].table)'
             /\ p2r'[p][i].buff.updates.keys \subseteq outBuff'[p][1].buff.updates.keys
  <2>1. PICK j \in 1 .. Len(p2r[p]) : p2r[p][j] = p2r'[p][i]
    BY <1>3
  <2>2. PICK m : m = p2r[p][j]
    OBVIOUS
  <2>3. m.table \in Tables /\ m = p2r'[p][i]
    BY <1>3, <2>1, <2>2
  <2>4. /\ outBuff[p][1].table = m.table
        /\ m.buff.ranges = <<NodeSlot(p, myUpdateRange[p][m.table])>>
        /\ HasOwnRange(p, m.table)
        /\ m.buff.updates.keys \subseteq outBuff[p][1].buff.updates.keys
    BY <1>3, <2>1, <2>2 DEF MyUpdatesInv
  <2>5. myUpdateRange'[p][m.table] = myUpdateRange[p][m.table]
    BY <2>3
  <2> QED
    BY <2>3, <2>4, <2>5 DEF HasOwnRange
<1> QED
  BY <1>2, <1>3 DEF MyUpdatesInv, IsRecord

(* What an EMyUpdates names is a table.                                    *)
LEMMA AskedTables ==
    ASSUME FlowInv, NEW p \in Nodes
    PROVE  /\ p2r[p] \in Seq(P2RMsg) /\ r2p[p] \in Seq(R2PMsg)
           /\ \A t \in Tables : myUpdates[p][t] \in Seq(Buffer)
           /\ \A j \in 1 .. Len(p2r[p]) : p2r[p][j].type = "EMyUpdates" =>
                p2r[p][j].table \in Tables /\ p2r[p][j].buff \in Buffer
<1>1. p2r[p] \in Seq(P2RMsg) /\ r2p[p] \in Seq(R2PMsg)
      /\ \A t \in Tables : myUpdates[p][t] \in Seq(Buffer)
  BY FlowParts DEF PipeTypes, DataTypes
<1>2. \A j \in 1 .. Len(p2r[p]) : p2r[p][j] \in P2RMsg
  BY <1>1
<1> QED
  BY <1>1, <1>2 DEF P2RMsg

(* EMyUpdates describes the buffer that waits to be sent.                  *)
LEMMA MyUpdatesFlush ==
    ASSUME FlowInv, NEW p \in Nodes, MyUpdatesInv(p), OwnInv(p),
           NEW t \in Tables, NEW x, FlushDoes(p, t, x)
    PROVE  MyUpdatesInv(p)'
<1>1. /\ r2p[p] = <<>> /\ NoneIn(p2r[p], "EMyUpdates") /\ pState[p] = "RUN"
      /\ r2p'[p] = <<>> /\ outBuff'[p] = <<x>> /\ outBuff'[p][1] = x /\ x.table = t
      /\ UNCHANGED <<myUpdates, hasMyUpdates, myUpdateRange>>
      /\ x.buff.updates = updateStore[p][t]
  BY FlowParts, ShortPipe DEF Phases, PropagatorPhase, AckPhase, FlushDoes
<1>2. ASSUME NEW s \in Tables
      PROVE  /\ \A own \in Range(myUpdates'[p][s]) :
                    /\ IsRecord(p, own)
                    /\ own.ranges[1].end <= myUpdateRange'[p][s].end
                    /\ ~Answered(p, s)' => own.ranges[1].end < myUpdateRange'[p][s].st
             /\ myUpdates'[p][s] # <<>> => s \in hasMyUpdates'[p]
  BY <1>1 DEF MyUpdatesInv, Answered
<1>3. CASE ~(t \in Loop[p] /\ myUpdateStore[p][t].keys # {})
  <2>1. p2r'[p] = p2r[p]
    BY <1>3 DEF FlushDoes
  <2> QED
    BY <1>1, <1>2, <2>1 DEF MyUpdatesInv, NoneIn, IsRecord
<1>4. CASE t \in Loop[p] /\ myUpdateStore[p][t].keys # {}
  <2> DEFINE m == BuffMsg("EMyUpdates", t, [ranges |-> <<NodeSlot(p, myUpdateRange[p][t])>>,
                                            updates |-> myUpdateStore[p][t]])
  <2>1. p2r'[p] = Append(p2r[p], m)
    BY <1>4 DEF FlushDoes
  <2>2. /\ m.table = t /\ m.buff.ranges = <<NodeSlot(p, myUpdateRange[p][t])>>
        /\ m.buff.updates.keys = myUpdateStore[p][t].keys
    BY DEF BuffMsg
  <2>3. HasOwnRange(p, t) /\ myUpdateStore[p][t].keys \subseteq x.buff.updates.keys
    BY <1>1, <1>4 DEF OwnInv
  <2>0. PICK k : k = m
    OBVIOUS
  <2> HIDE DEF m
  <2>4. \A i \in 1 .. Len(p2r'[p]) :
            (i \in 1 .. Len(p2r[p]) /\ p2r'[p][i] = p2r[p][i]) \/ p2r'[p][i] = m
    <3>1. p2r[p] \in Seq(P2RMsg \cup {m}) /\ m \in P2RMsg \cup {m}
      BY AskedTables
    <3> QED
      BY <2>1, <3>1
  <2>5. \A i \in 1 .. Len(p2r'[p]) : p2r'[p][i].type = "EMyUpdates" => p2r'[p][i] = k
    BY <1>1, <2>0, <2>4 DEF NoneIn
  <2>6. /\ outBuff'[p][1].table = k.table
        /\ k.buff.ranges = <<NodeSlot(p, myUpdateRange'[p][k.table])>>
        /\ HasOwnRange(p, k.table)'
        /\ k.buff.updates.keys \subseteq outBuff'[p][1].buff.updates.keys
    BY <1>1, <2>0, <2>2, <2>3 DEF HasOwnRange
  <2> QED
    BY <1>2, <2>5, <2>6 DEF MyUpdatesInv, IsRecord, HasOwnRange
<1> QED
  BY <1>3, <1>4

(* Once it is sent, all records lie before the next own range.             *)
LEMMA MyUpdatesSend ==
    ASSUME FlowInv, NEW p \in Nodes, MyUpdatesInv(p), NEW x, SendDoes(p, x)
    PROVE  MyUpdatesInv(p)'
<1>1. /\ NoneIn(p2r[p], "EMyUpdates") /\ p2r'[p] = p2r[p] /\ r2p'[p] = <<>>
      /\ UNCHANGED <<myUpdates, hasMyUpdates>> /\ outBuff[p][1] = x /\ x.table \in Tables
  <2>1. p2r'[p] = p2r[p] /\ UNCHANGED <<myUpdates, hasMyUpdates>> /\ outBuff[p][1] = x /\ x.table \in Tables
    BY ShortPipe DEF SendDoes
  <2>2. AckPhase(p) /\ r2p[p] \in Seq(R2PMsg)
    BY FlowParts, AskedTables DEF Phases
  <2>3. CASE pPc[p] = "ack"
    <3>1. r2p[p] # <<>> /\ r2p'[p] = Tail(r2p[p])
      BY <2>3 DEF SendDoes
    <3>2. Len(r2p[p]) = 1 /\ NoneIn(p2r[p], "EMyUpdates")
      BY <2>2, <3>1 DEF AckPhase
    <3> QED
      BY <2>1, <2>2, <3>1, <3>2, PipeTail
  <2>4. CASE pPc[p] = "send"
    BY <2>1, <2>2, <2>4 DEF SendDoes, AckPhase
  <2> QED
    BY <2>3, <2>4 DEF SendDoes
<1>2. ASSUME NEW s \in Tables, NEW own \in Range(myUpdates[p][s])
      PROVE  /\ IsRecord(p, own)
             /\ own.ranges[1].end <= myUpdateRange'[p][s].end
             /\ own.ranges[1].end < myUpdateRange'[p][s].st
  <2>1. IsRecord(p, own) /\ own.ranges[1].end <= myUpdateRange[p][s].end
    BY DEF MyUpdatesInv
  <2>2. CASE s = x.table
    <3>1. own.ranges[1].end \in Int
      <4>1. own \in Buffer
        BY RangeOfQueue, AskedTables
      <4>2. 1 \in DOMAIN own.ranges
        BY <2>1, <4>1, BufferSlots DEF IsRecord, Buffer
      <4> QED
        BY <4>1, <4>2, BufferSlots
    <3>2. myUpdateRange[p][s].end \in Int
      BY FlowParts
    <3> QED
      BY <2>1, <2>2, <3>1, <3>2 DEF SendDoes, Span
  <2>3. CASE s # x.table
    <3>1. ~Answered(p, s)
      BY <1>1, <2>3 DEF Answered
    <3>2. myUpdateRange'[p][s] = myUpdateRange[p][s]
      BY <2>3 DEF SendDoes
    <3> QED
      BY <2>1, <3>1, <3>2 DEF MyUpdatesInv
  <2> QED
    BY <2>2, <2>3
<1>3. \A s \in Tables : myUpdates'[p][s] # <<>> => s \in hasMyUpdates'[p]
  BY <1>1 DEF MyUpdatesInv
<1> QED
  BY <1>1, <1>2, <1>3 DEF MyUpdatesInv, NoneIn, IsRecord

(* What the receiver answers describes the buffer about to be sent.        *)
LEMMA RecordFacts ==
    ASSUME FlowInv, NEW p \in Nodes, MyUpdatesInv(p), NEW m, RecordDoes(p, m)
    PROVE  /\ pPc[p] = "ack" /\ r2p[p] = <<>> /\ p2r'[p] = <<>> /\ r2p'[p] # <<>>
           /\ outBuff[p][1].table = m.table /\ HasOwnRange(p, m.table)
           /\ m.buff.ranges = <<NodeSlot(p, myUpdateRange[p][m.table])>>
           /\ m.buff.updates.keys \subseteq outBuff[p][1].buff.updates.keys
           /\ IsRecord(p, m.buff)
           /\ m.buff.ranges[1].st = myUpdateRange[p][m.table].st
           /\ m.buff.ranges[1].end = myUpdateRange[p][m.table].end
<1>1. /\ p2r[p] # <<>> /\ m = Head(p2r[p]) /\ m.type = "EMyUpdates"
      /\ p2r'[p] = Tail(p2r[p]) /\ r2p'[p] = Append(r2p[p], Msg("EMyUpdatesACK"))
  BY DEF RecordDoes
<1>2. p2r[p] \in Seq(P2RMsg) /\ r2p[p] \in Seq(R2PMsg) /\ AckPhase(p)
  BY AskedTables, FlowParts DEF Phases
<1>3. 1 \in 1 .. Len(p2r[p]) /\ p2r[p][1] = m
  BY <1>1, <1>2
<1>4. pPc[p] = "ack" /\ r2p[p] = <<>> /\ LastOnly(p2r[p], "EMyUpdates")
  BY <1>1, <1>2, <1>3 DEF AckPhase, NoneIn
<1>5. p2r'[p] = <<>>
  BY <1>1, <1>2, <1>4, PipeTail
<1>6. r2p'[p] # <<>>
  BY <1>1, <1>2, PipeAppend
<1>7. /\ outBuff[p][1].table = m.table /\ HasOwnRange(p, m.table)
      /\ m.buff.ranges = <<NodeSlot(p, myUpdateRange[p][m.table])>>
      /\ m.buff.updates.keys \subseteq outBuff[p][1].buff.updates.keys
  BY <1>1, <1>3 DEF MyUpdatesInv
<1>8. /\ Len(m.buff.ranges) = 1
      /\ m.buff.ranges[1] = NodeSlot(p, myUpdateRange[p][m.table])
  BY <1>7
<1> QED
  BY <1>4, <1>5, <1>6, <1>7, <1>8 DEF IsRecord, NodeSlot, HasOwnRange

(* The receiver records that range and answers.                            *)
LEMMA MyUpdatesRecord ==
    ASSUME FlowInv, NEW p \in Nodes, MyUpdatesInv(p), NEW m, RecordDoes(p, m)
    PROVE  MyUpdatesInv(p)'
<1>1. /\ r2p[p] = <<>> /\ p2r'[p] = <<>> /\ r2p'[p] # <<>> /\ m.table \in Tables
      /\ outBuff' = outBuff /\ myUpdateRange' = myUpdateRange
      /\ outBuff[p][1].table = m.table
  <2>1. m.table \in Tables /\ outBuff' = outBuff /\ myUpdateRange' = myUpdateRange
    BY DEF RecordDoes
  <2> QED
    BY <2>1, RecordFacts
<1>2. /\ Answered(p, m.table)'
      /\ \A s \in Tables : ~Answered(p, s)
  BY <1>1 DEF Answered
<1>3. IsRecord(p, m.buff) /\ m.buff.ranges[1].end <= myUpdateRange[p][m.table].end
  <2>1. myUpdateRange[p][m.table].end \in Int
    BY <1>1, FlowParts
  <2> QED
    BY <2>1, RecordFacts
<1>4. ASSUME NEW s \in Tables
      PROVE  /\ \A own \in Range(myUpdates'[p][s]) :
                    /\ IsRecord(p, own)
                    /\ own.ranges[1].end <= myUpdateRange'[p][s].end
                    /\ ~Answered(p, s)' => own.ranges[1].end < myUpdateRange'[p][s].st
             /\ myUpdates'[p][s] # <<>> => s \in hasMyUpdates'[p]
  <2>1. CASE s = m.table /\ rState[p] = "RUN"
    <3>1. myUpdates'[p][s] = Append(myUpdates[p][s], m.buff) /\ s \in hasMyUpdates'[p]
      BY <2>1 DEF RecordDoes
    <3>2. Range(Append(myUpdates[p][s], m.buff)) = Range(myUpdates[p][s]) \cup {m.buff}
      BY RangeOfQueue, AskedTables
    <3>3. Range(myUpdates'[p][s]) = Range(myUpdates[p][s]) \cup {m.buff}
      BY <3>1, <3>2
    <3> QED
      BY <1>1, <1>2, <1>3, <2>1, <3>1, <3>3 DEF MyUpdatesInv
  <2>2. CASE ~(s = m.table /\ rState[p] = "RUN")
    <3>1. myUpdates'[p][s] = myUpdates[p][s] /\ (s \in hasMyUpdates'[p] <=> s \in hasMyUpdates[p])
      BY <2>2 DEF RecordDoes
    <3> QED
      BY <1>1, <1>2, <3>1 DEF MyUpdatesInv
  <2> QED
    BY <2>1, <2>2
<1>5. Len(p2r'[p]) = 0
  BY <1>1
<1> QED
  BY <1>4, <1>5 DEF MyUpdatesInv, IsRecord

(* A logged update extends the own range, which is not on record.          *)
LEMMA MyUpdatesLog ==
    ASSUME FlowInv, NEW p \in Nodes, MyUpdatesInv(p), NEW t \in Tables, LogDoes(p, t)
    PROVE  MyUpdatesInv(p)'
<1>1. /\ UNCHANGED <<myUpdates, hasMyUpdates, outBuff, p2r, r2p>>
      /\ NoneIn(p2r[p], "EMyUpdates")
  BY FlowParts DEF LogDoes, Phases, AckPhase
<1>2. ASSUME NEW s \in Tables, NEW own \in Range(myUpdates[p][s])
      PROVE  /\ IsRecord(p, own)
             /\ own.ranges[1].end <= myUpdateRange'[p][s].end
             /\ ~Answered(p, s)' => own.ranges[1].end < myUpdateRange'[p][s].st
  <2>1. /\ IsRecord(p, own) /\ own.ranges[1].end <= myUpdateRange[p][s].end
        /\ ~Answered(p, s)' => own.ranges[1].end < myUpdateRange[p][s].st
    BY <1>1 DEF MyUpdatesInv, Answered
  <2>2. own.ranges[1].end \in Int
    <3>1. own \in Buffer
      BY RangeOfQueue, AskedTables
    <3>2. 1 \in DOMAIN own.ranges
      BY <2>1, <3>1, BufferSlots DEF IsRecord, Buffer
    <3> QED
      BY <3>1, <3>2, BufferSlots
  <2>3. myUpdateRange[p][s].end \in Int
    BY FlowParts
  <2>4. CASE s = t
    BY <2>1, <2>2, <2>3, <2>4 DEF LogDoes
  <2>5. CASE s # t
    BY <2>1, <2>5 DEF LogDoes
  <2> QED
    BY <2>4, <2>5
<1>3. \A s \in Tables : myUpdates'[p][s] # <<>> => s \in hasMyUpdates'[p]
  BY <1>1 DEF MyUpdatesInv
<1> QED
  BY <1>1, <1>2, <1>3 DEF MyUpdatesInv, NoneIn, IsRecord

(* What an iteration of the loop in the receiver leaves of the records.    *)
LEMMA DedupRecords ==
    ASSUME FlowInv, NEW n \in Nodes, NEW x, DedupDoes(n, x)
    PROVE  /\ x.table \in Tables /\ myUpdates[n][x.table] \in Seq(Buffer)
           /\ \A a \in Nodes, t \in Tables :
                /\ Range(myUpdates'[a][t]) \subseteq Range(myUpdates[a][t])
                /\ myUpdates'[a][t] # <<>> => myUpdates[a][t] # <<>>
           /\ DedupFault(n, myUpdates[n][x.table], x.buff) = "none" =>
                /\ myUpdates[n][x.table] # <<>>
                /\ Head(myUpdates[n][x.table]) \in Range(myUpdates[n][x.table])
                /\ Range(myUpdates[n][x.table]) =
                        Range(Tail(myUpdates[n][x.table])) \cup {Head(myUpdates[n][x.table])}
<1>1. x.table \in Tables
  BY DEF DedupDoes, UpdateBufferMsg
<1>2. \A a \in Nodes, t \in Tables : myUpdates[a][t] \in Seq(Buffer)
  BY AskedTables
<1>3. DedupFault(n, myUpdates[n][x.table], x.buff) = "none" => myUpdates[n][x.table] # <<>>
  BY DEF DedupFault
<1>4. myUpdates[n][x.table] # <<>> =>
        Range(myUpdates[n][x.table]) =
            Range(Tail(myUpdates[n][x.table])) \cup {Head(myUpdates[n][x.table])}
  BY <1>1, <1>2, RangeOfQueue
<1>5. ASSUME NEW a \in Nodes, NEW t \in Tables
      PROVE  /\ Range(myUpdates'[a][t]) \subseteq Range(myUpdates[a][t])
             /\ myUpdates'[a][t] # <<>> => myUpdates[a][t] # <<>>
  <2>1. CASE myUpdates'[a][t] = myUpdates[a][t]
    BY <2>1
  <2>2. CASE /\ a = n /\ t = x.table /\ myUpdates'[n][x.table] = Tail(myUpdates[n][x.table])
             /\ DedupFault(n, myUpdates[n][x.table], x.buff) = "none"
    BY <1>3, <1>4, <2>2
  <2> QED
    BY <2>1, <2>2 DEF DedupDoes
<1> QED
  BY <1>1, <1>2, <1>3, <1>4, <1>5

(* Every step keeps what is said of the records.                           *)
LEMMA MyUpdatesStep ==
    ASSUME FlowInv, NEW p \in Nodes, OwnInv(p), MyUpdatesInv(p), [Next]_vars
    PROVE  MyUpdatesInv(p)'
<1>0. \A j \in 1 .. Len(p2r[p]) : p2r[p][j].type = "EMyUpdates" => p2r[p][j].table \in Tables
  BY AskedTables
<1>1. CASE Idle
  <2>1. /\ UNCHANGED <<outBuff, hasMyUpdates, myUpdateRange, r2p>>
        /\ \A t \in Tables : myUpdates'[p][t] \in {myUpdates[p][t], <<>>}
        /\ \A i \in 1 .. Len(p2r'[p]) : p2r'[p][i].type = "EMyUpdates" =>
                \E j \in 1 .. Len(p2r[p]) : p2r[p][j] = p2r'[p][i]
    BY <1>1 DEF Idle, IdleAt
  <2>2. \A t \in Tables : /\ Range(myUpdates'[p][t]) \subseteq Range(myUpdates[p][t])
                          /\ myUpdates'[p][t] # <<>> => myUpdates[p][t] # <<>>
    <3>1. Range(<<>>) = {}
      BY DEF Range
    <3> QED
      BY <2>1, <3>1
  <2> QED
    BY <1>0, <2>1, <2>2, MyUpdatesKept
<1>2. ASSUME outBuff'[p] = outBuff[p], p2r'[p] = p2r[p], r2p'[p] = r2p[p],
             hasMyUpdates'[p] = hasMyUpdates[p],
             \A t \in Tables : /\ Range(myUpdates'[p][t]) \subseteq Range(myUpdates[p][t])
                               /\ myUpdates'[p][t] # <<>> => myUpdates[p][t] # <<>>
                               /\ myUpdateRange'[p][t] = myUpdateRange[p][t]
      PROVE  MyUpdatesInv(p)'
  BY <1>0, <1>2, MyUpdatesKept
<1>3. ASSUME NEW n \in Nodes, NEW t \in Tables, LogDoes(n, t) PROVE MyUpdatesInv(p)'
  <2>1. CASE p = n
    BY <1>3, <2>1, MyUpdatesLog
  <2>2. CASE p # n
    <3>1. /\ UNCHANGED <<outBuff, p2r, r2p, hasMyUpdates, myUpdates>>
          /\ \A s \in Tables : myUpdateRange'[p][s] = myUpdateRange[p][s]
      BY <1>3, <2>2 DEF LogDoes
    <3> QED
      BY <1>2, <3>1
  <2> QED
    BY <2>1, <2>2
<1>4. ASSUME NEW n \in Nodes, NEW t \in Tables, NEW x, FlushDoes(n, t, x) PROVE MyUpdatesInv(p)'
  <2>1. CASE p = n
    BY <1>4, <2>1, MyUpdatesFlush
  <2>2. CASE p # n
    <3>1. /\ UNCHANGED <<r2p, hasMyUpdates, myUpdates, myUpdateRange>>
          /\ outBuff'[p] = outBuff[p] /\ p2r'[p] = p2r[p]
      BY <1>4, <2>2 DEF FlushDoes
    <3> QED
      BY <1>2, <3>1
  <2> QED
    BY <2>1, <2>2
<1>5. ASSUME NEW n \in Nodes, NEW x, SendDoes(n, x) PROVE MyUpdatesInv(p)'
  <2>1. CASE p = n
    BY <1>5, <2>1, MyUpdatesSend
  <2>2. CASE p # n
    <3>1. /\ UNCHANGED <<p2r, hasMyUpdates, myUpdates>>
          /\ outBuff'[p] = outBuff[p] /\ r2p'[p] = r2p[p] /\ myUpdateRange'[p] = myUpdateRange[p]
      BY <1>5, <2>2 DEF SendDoes
    <3> QED
      BY <1>2, <3>1
  <2> QED
    BY <2>1, <2>2
<1>6. ASSUME NEW n \in Nodes, NEW x, MergeDoes(n, x) PROVE MyUpdatesInv(p)'
  <2>1. UNCHANGED <<outBuff, p2r, r2p, hasMyUpdates, myUpdates, myUpdateRange>>
    BY <1>6 DEF MergeDoes
  <2> QED
    BY <1>2, <2>1
<1>7. ASSUME NEW n \in Nodes, NEW m, RecordDoes(n, m) PROVE MyUpdatesInv(p)'
  <2>1. CASE p = n
    BY <1>7, <2>1, MyUpdatesRecord
  <2>2. CASE p # n
    <3>1. /\ UNCHANGED <<outBuff, myUpdateRange>> /\ p2r'[p] = p2r[p] /\ r2p'[p] = r2p[p]
          /\ \A s \in Tables : /\ myUpdates'[p][s] = myUpdates[p][s]
                               /\ s \in hasMyUpdates'[p] <=> s \in hasMyUpdates[p]
      BY <1>7, <2>2 DEF RecordDoes
    <3> QED
      BY <1>0, <3>1, MyUpdatesKept
  <2> QED
    BY <2>1, <2>2
<1>8. ASSUME NEW n \in Nodes, NEW u \in Nodes, NEW x, TakeDoes(n, u, x) PROVE MyUpdatesInv(p)'
  <2>1. UNCHANGED <<outBuff, p2r, r2p, hasMyUpdates, myUpdates, myUpdateRange>>
    BY <1>8 DEF TakeDoes
  <2> QED
    BY <1>2, <2>1
<1>9. ASSUME NEW n \in Nodes, NEW x, DedupDoes(n, x) PROVE MyUpdatesInv(p)'
  <2>1. UNCHANGED <<outBuff, p2r, r2p, hasMyUpdates, myUpdateRange>>
    BY <1>9 DEF DedupDoes
  <2> QED
    BY <1>2, <1>9, <2>1, DedupRecords
<1>10. ASSUME NEW n \in Nodes, FlowStepOf(n) PROVE MyUpdatesInv(p)'
  BY <1>3, <1>4, <1>5, <1>6, <1>7, <1>8, <1>9, <1>10 DEF FlowStepOf
<1> QED
  BY <1>1, <1>10, FlowEffects

-----------------------------------------------------------------------------
(* Rings.                                                                  *)

(* The way on from a node starts at its downstream node.                   *)
LEMMA WayOn ==
    ASSUME NEW a \in Nodes
    PROVE  /\ Closed(Reach(a))
           /\ \A S \in SUBSET Nodes : (a \in S /\ Closed(S)) => Reach(a) \subseteq S
           /\ \A b \in Reach(a) \ {a} : Downstream[a] \in Nodes /\ b \in Reach(Downstream[a])
<1>1. \A c \in Nodes : Downstream[c] \in Nodes \cup {NoNode}
  BY GraphAssumption
<1>2. \A b \in Nodes : Closed(Reach(b))
  BY <1>1, Graph DEF Closed
<1>3. \A S \in SUBSET Nodes : (a \in S /\ Closed(S)) => Reach(a) \subseteq S
  BY DEF Reach
<1>4. ASSUME NEW b \in Reach(a), b # a
      PROVE  Downstream[a] \in Nodes /\ b \in Reach(Downstream[a])
  <2>1. CASE Downstream[a] = NoNode
    <3>1. Closed({a}) /\ {a} \in SUBSET Nodes
      BY <2>1 DEF Closed
    <3> QED
      BY <1>3, <1>4, <3>1
  <2>2. CASE Downstream[a] \in Nodes
    <3> DEFINE S == {a} \cup Reach(Downstream[a])
    <3>1. S \in SUBSET Nodes /\ Downstream[a] \in Reach(Downstream[a])
      BY <2>2, Graph
    <3>2. Closed(S)
      BY <1>2, <2>2, <3>1 DEF Closed
    <3> QED
      BY <1>3, <1>4, <2>2, <3>1, <3>2
  <2> QED
    BY <1>1, <2>1, <2>2
<1> QED
  BY <1>2, <1>3, <1>4

(* On a ring every way leads back, and nobody is at its end.               *)
LEMMA RingBack ==
    ASSUME NEW p \in Nodes, OnRing(p), NEW a \in Reach(p)
    PROVE  p \in Reach(a) /\ Downstream[a] \in Nodes
<1> DEFINE W == {b \in Reach(p) : p \in Reach(b)}
<1>1. Reach(p) \subseteq Nodes /\ p \in Reach(p)
  BY Graph
<1>2. PICK b \in Reach(p) : Downstream[b] = p
  BY DEF OnRing, Fed
<1>3. b # p
  BY <1>2, GraphAssumption
<1>4. Downstream[p] \in Nodes /\ b \in Reach(Downstream[p])
  BY <1>2, <1>3, WayOn
<1>5. p \in Reach(Downstream[p])
  <2>1. Closed(Reach(Downstream[p])) /\ p # NoNode
    BY <1>4, WayOn, NodeIsNotNoNode
  <2> QED
    BY <1>2, <1>4, <2>1 DEF Closed
<1>6. ASSUME NEW c \in W PROVE Downstream[c] \in Nodes /\ p \in Reach(Downstream[c])
  <2>1. CASE c = p
    BY <1>4, <1>5, <2>1
  <2>2. CASE c # p
    BY <1>1, <1>6, <2>2, WayOn
  <2> QED
    BY <2>1, <2>2
<1>7. ASSUME NEW c \in W PROVE Downstream[c] \in W
  BY <1>1, <1>6, <1>7, WayOn, NodeIsNotNoNode DEF Closed
<1>8. Closed(W) /\ p \in W /\ W \in SUBSET Nodes
  BY <1>1, <1>7 DEF Closed
<1>9. a \in W
  BY <1>8, WayOn
<1> QED
  BY <1>6, <1>9

(* A ring has one way round.                                               *)
LEMMA RingStraight ==
    ASSUME NEW p \in Nodes, OnRing(p)
    PROVE  Straight(p)
<1> DEFINE R == Reach(p)
           f == [a \in R |-> Downstream[a]]
<1>1. R \subseteq Nodes /\ p \in R /\ Fed(p) \subseteq R
  BY Graph
<1>2. IsFiniteSet(R)
  BY <1>1, NodesAssumption, FS_Subset
<1>3. f \in [R -> R]
  BY <1>1, RingBack, Graph
<1>4. \A m \in R : \E a \in R : Downstream[a] = m
  <2> DEFINE S == {p} \cup Fed(p)
  <2>1. p \in S /\ S \in SUBSET Nodes
    BY <1>1
  <2>2. Closed(S)
    BY <1>1, RingBack, Graph DEF Closed
  <2>3. R \subseteq S
    BY <2>1, <2>2, WayOn
  <2> QED
    BY <2>3 DEF OnRing, Fed
<1>5. f \in Surjection(R, R)
  BY <1>3, <1>4 DEF Surjection
<1> HIDE DEF f
<1>6. f \in Injection(R, R)
  BY <1>2, <1>5, FS_SurjSameCardinalityImpliesInj
<1>7. \A a, b \in R : f[a] = f[b] => a = b
  BY <1>3, <1>6 DEF Injection, IsInjective
<1> QED
  BY <1>7 DEF Straight, f

(* What has come back to p is behind all that is still on the way.         *)
LEMMA BehindTheRest ==
    ASSUME FlowInv, NEW p \in Nodes, OrderInv(p), NEW x \in Buffs(recvBuff[p]), Has(x, p)
    PROVE  /\ \A a \in Nodes :
                /\ \A y \in Buffs(tcp[a]) \cup Buffs(outBuff[a]) \cup Buffs(fwdPipe[a]) :
                        Precedes(x, y, p)
                /\ a # p => \A y \in Buffs(recvBuff[a]) : Precedes(x, y, p)
                /\ a # p => (First(a, x.table, p) <= Merged(a, x.table, p) =>
                                To(x, p) < First(a, x.table, p))
<1> DEFINE t == x.table
           B == {a \in Reach(p) : ~(To(x, p) < Unsent(a, t, p))}
<1>1. /\ OnRing(p) /\ To(x, p) < myUpdateRange[p][t].st
      /\ t \in Tables /\ To(x, p) \in Int
  BY FlowParts DEF PlacesInv, OnRing
<1>2. Ordered(p)
  BY <1>1, RingStraight DEF OrderInv, Ordered
<1>3. Reach(p) \subseteq Nodes /\ Fed(p) \subseteq Reach(p)
  BY Graph
<1>4. \A a \in Reach(p) : /\ Unsent(a, t, p) \in Int /\ Merged(a, t, p) \in Int
                          /\ Downstream[a] \in Nodes /\ p \in Reach(a)
                          /\ AtNode(a, p) /\ OnEdge(a, Downstream[a], p)
                          /\ Downstream[a] \in Reach(p)
  BY <1>1, <1>2, <1>3, Comparable, RingBack, Graph DEF Ordered
<1>5. \A a \in Reach(p) : Downstream[a] = p =>
        /\ To(x, p) < Unsent(a, t, p)
        /\ \A y \in Buffs(tcp[a]) \cup Buffs(outBuff[a]) : Precedes(x, y, p)
  BY <1>4 DEF OnEdge
<1>6. \A a \in Reach(p) \ {p} : Unsent(a, t, p) <= Merged(a, t, p) + 1
  BY <1>1, <1>4 DEF AtNode
<1>7. \A a \in Reach(p) : Merged(Downstream[a], t, p) < Unsent(a, t, p)
  BY <1>1, <1>4 DEF OnEdge
<1>8. ASSUME NEW a \in B PROVE Downstream[a] \in B
  <2>1. a \in Reach(p) /\ ~(To(x, p) < Unsent(a, t, p))
    OBVIOUS
  <2>2. Downstream[a] \in Reach(p) \ {p}
    BY <1>4, <1>5, <2>1
  <2> QED
    BY <1>1, <1>4, <1>6, <1>7, <2>1, <2>2
<1>9. p \notin B
  BY <1>1 DEF Unsent
<1>10. \A a \in Reach(p) : To(x, p) < Unsent(a, t, p)
  <2>1. Closed(B) /\ B \in SUBSET Nodes
    BY <1>3, <1>8 DEF Closed
  <2>2. \A a \in B : p \in B
    BY <1>3, <1>4, <2>1, WayOn
  <2> QED
    BY <1>9, <2>2
<1>11. \A a \in Reach(p) \ {p} : To(x, p) <= Merged(a, t, p)
  BY <1>1, <1>4, <1>6, <1>10
<1>12. ASSUME NEW a \in Nodes, NEW y \in Buffs(tcp[a]) \cup Buffs(outBuff[a])
       PROVE  Precedes(x, y, p)
  <2> SUFFICES ASSUME Has(y, p), y.table = t PROVE To(x, p) < From(y, p)
    BY DEF Precedes
  <2>1. a \in Reach(p) /\ From(y, p) \in Int
    BY FlowParts DEF PlacesInv
  <2>2. CASE Downstream[a] = p
    BY <1>5, <2>1, <2>2 DEF Precedes
  <2>3. CASE Downstream[a] # p
    <3>1. Merged(Downstream[a], t, p) < From(y, p)
      BY <1>4, <2>1 DEF OnEdge
    <3>2. To(x, p) <= Merged(Downstream[a], t, p) /\ Merged(Downstream[a], t, p) \in Int
      BY <1>4, <1>11, <2>1, <2>3
    <3> QED
      BY <1>1, <2>1, <3>1, <3>2
  <2> QED
    BY <2>2, <2>3
<1>13. ASSUME NEW a \in Nodes,
              NEW y \in Buffs(fwdPipe[a]) \cup Buffs(recvBuff[a]), a # p \/ y \in Buffs(fwdPipe[a])
       PROVE  Precedes(x, y, p)
  <2> SUFFICES ASSUME Has(y, p), y.table = t PROVE To(x, p) < From(y, p)
    BY DEF Precedes
  <2>1. a \in Reach(p) /\ From(y, p) \in Int
    BY <1>3, FlowParts DEF PlacesInv
  <2>2. a # p
    BY <1>13, FlowParts DEF BuffersInv
  <2>3. Merged(a, t, p) < From(y, p)
    BY <1>4, <2>1 DEF AtNode
  <2> QED
    BY <1>1, <1>4, <1>11, <2>1, <2>2, <2>3
<1>14. ASSUME NEW a \in Nodes, a # p, First(a, t, p) <= Merged(a, t, p)
       PROVE  To(x, p) < First(a, t, p)
  <2>1. p \in peerUpdateRange[a][t].known
    <3>1. p \notin peerUpdateRange[a][t].known => peerUpdateRange[a][t].range[p] = Span(0, -1)
      BY <1>1, FlowParts DEF BuffersInv
    <3> QED
      BY <1>14, <3>1 DEF First, Merged, Span
  <2>2. a \in Reach(p)
    BY <1>1, <1>3, <2>1, FlowParts DEF PlacesInv
  <2> QED
    BY <1>10, <1>14, <2>2 DEF Unsent
<1> QED
  BY <1>12, <1>13, <1>14

-----------------------------------------------------------------------------
(* What is on record.                                                      *)

(* The same records cover the same numbers.                                *)
LEMMA SameRecords ==
    ASSUME NEW p \in Nodes, NEW t, myUpdates'[p][t] = myUpdates[p][t]
    PROVE  /\ Recorded(p, t)' = Recorded(p, t)
           /\ \A low, high, keys :
                /\ KeysCovered(p, t, low, high, keys)' <=> KeysCovered(p, t, low, high, keys)
                /\ Covered(p, t, low, high, keys)' <=> Covered(p, t, low, high, keys)
BY DEF Recorded, KeysCovered, Covered

(* A buffer stays covered while the records stay.                          *)
LEMMA SameRecordsBuff ==
    ASSUME NEW p \in Nodes, NEW x, x.table \in Loop[p] => myUpdates'[p][x.table] = myUpdates[p][x.table]
    PROVE  CoveredBuff(x, p)' <=> CoveredBuff(x, p)
<1>1. CASE x.table \notin Loop[p]
  BY <1>1 DEF CoveredBuff
<1>2. CASE x.table \in Loop[p]
  BY <1>2, SameRecords DEF CoveredBuff
<1> QED
  BY <1>1, <1>2

(* More keys, or no numbers, are covered as well.                          *)
LEMMA EasyCovered ==
    ASSUME NEW p \in Nodes, NEW t, NEW low \in Int, NEW high \in Int, NEW keys
    PROVE  /\ \A more : (keys \subseteq more /\ Covered(p, t, low, high, keys))
                            => Covered(p, t, low, high, more)
           /\ high < low => Covered(p, t, low, high, keys)
<1>1. high < low => low .. high = {}
  OBVIOUS
<1> QED
  BY <1>1 DEF Covered, KeysCovered

(* Two ranges that follow one another.                                     *)
LEMMA JoinCovered ==
    ASSUME NEW p \in Nodes, NEW t, NEW low \in Int, NEW mid \in Int, NEW high \in Int,
           NEW keys, NEW more,
           Covered(p, t, low, mid, keys), Covered(p, t, mid + 1, high, more)
    PROVE  Covered(p, t, low, high, keys \cup more)
<1>1. \A i \in low .. high : i \in low .. mid \/ i \in mid + 1 .. high
  OBVIOUS
<1>2. low .. high \subseteq Recorded(p, t)
  BY <1>1 DEF Covered
<1>3. ASSUME NEW own \in Range(myUpdates[p][t]), Numbers(p, own) \cap (low .. high) # {}
      PROVE  own.updates.keys \subseteq keys \cup more
  <2>1. PICK i \in low .. high : i \in Numbers(p, own)
    BY <1>3
  <2>2. \/ Numbers(p, own) \cap (low .. mid) # {}
        \/ Numbers(p, own) \cap (mid + 1 .. high) # {}
    BY <1>1, <2>1
  <2>3. CASE Numbers(p, own) \cap (low .. mid) # {}
    BY <2>3 DEF Covered, KeysCovered
  <2>4. CASE Numbers(p, own) \cap (mid + 1 .. high) # {}
    BY <2>4 DEF Covered, KeysCovered
  <2> QED
    BY <2>2, <2>3, <2>4
<1> QED
  BY <1>2, <1>3 DEF Covered, KeysCovered

(* The parts of the invariant: elsewhere than at p, at the propagator of p *)
(* and at its receiver.                                                    *)
CoveredAt(a, p) ==
    /\ \A x \in Buffs(tcp[a]) \cup Buffs(fwdPipe[a]) : CoveredBuff(x, p)
    /\ a # p =>
        /\ \A x \in Buffs(recvBuff[a]) \cup Buffs(outBuff[a]) : CoveredBuff(x, p)
        /\ (Alive(a) /\ pState[a] = "RUN") =>
            \A t \in Loop[p] :
                Covered(p, t, First(a, t, p), Merged(a, t, p), updateStore[a][t].keys)

CoveredOut(p) ==
    \A x \in Buffs(outBuff[p]) : (x.table \in Loop[p] /\ Has(x, p)) =>
        pPc[p] = "ack" /\ (r2p[p] # <<>> => CoveredBuff(x, p))

CoveredBack(p) ==
    \A x \in Buffs(recvBuff[p]) : (x.table \in Loop[p] /\ Has(x, p)) =>
        /\ To(x, p) \in Recorded(p, x.table)
        /\ KeysCovered(p, x.table, From(x, p), To(x, p), x.buff.updates.keys)

AllCovered(p) == (\A a \in Nodes : CoveredAt(a, p)) /\ CoveredOut(p) /\ CoveredBack(p)

(* The coverage of all places, one part per place.                         *)
LEMMA RecordParts ==
    ASSUME NEW p \in Nodes
    PROVE  RecordInv(p) <=> ((Alive(p) /\ rState[p] = "RUN") => AllCovered(p))
BY DEF RecordInv, AllCovered, CoveredAt, CoveredOut, CoveredBack

(* A node at which nothing changes, or only grows or goes.                 *)
LEMMA CoveredAtKept ==
    ASSUME FlowInv, NEW p \in Nodes, NEW a \in Nodes, CoveredAt(a, p),
           \A t \in Loop[p] : myUpdates'[p][t] = myUpdates[p][t],
           Buffs(tcp'[a]) \cup Buffs(fwdPipe'[a]) \subseteq Buffs(tcp[a]) \cup Buffs(fwdPipe[a]),
           a # p => Buffs(recvBuff'[a]) \cup Buffs(outBuff'[a])
                        \subseteq Buffs(recvBuff[a]) \cup Buffs(outBuff[a]),
           (a # p /\ fatal'[a] = "none" /\ pState'[a] = "RUN") =>
                /\ fatal[a] = "none" /\ pState[a] = "RUN"
                /\ \A t \in Loop[p] : /\ First(a, t, p)' = First(a, t, p)
                                      /\ Merged(a, t, p)' = Merged(a, t, p)
                                      /\ updateStore[a][t].keys \subseteq updateStore'[a][t].keys
    PROVE  CoveredAt(a, p)'
<1>1. \A x : CoveredBuff(x, p)' <=> CoveredBuff(x, p)
  BY SameRecordsBuff
<1>2. \A x \in Buffs(tcp'[a]) \cup Buffs(fwdPipe'[a]) : CoveredBuff(x, p)'
  BY <1>1 DEF CoveredAt
<1>3. a # p => \A x \in Buffs(recvBuff'[a]) \cup Buffs(outBuff'[a]) : CoveredBuff(x, p)'
  BY <1>1 DEF CoveredAt
<1>4. ASSUME a # p, fatal'[a] = "none", pState'[a] = "RUN", NEW t \in Loop[p]
      PROVE  Covered(p, t, First(a, t, p), Merged(a, t, p), updateStore[a][t].keys)'
  <2>1. t \in Tables
    BY TablesAssumption
  <2>2. Covered(p, t, First(a, t, p), Merged(a, t, p), updateStore[a][t].keys)
    BY <1>4 DEF CoveredAt, Alive
  <2>3. PICK low, high, keys : low = First(a, t, p) /\ high = Merged(a, t, p) /\ keys = updateStore'[a][t].keys
    OBVIOUS
  <2>4. Covered(p, t, low, high, keys)
    <3>1. First(a, t, p) \in Int /\ Merged(a, t, p) \in Int
      BY <2>1, FlowParts
    <3> QED
      BY <1>4, <2>2, <2>3, <3>1, EasyCovered
  <2>5. Covered(p, t, low, high, keys)'
    BY <2>4, SameRecords
  <2>6. low = First(a, t, p)' /\ high = Merged(a, t, p)' /\ keys = updateStore'[a][t].keys
    BY <1>4, <2>3
  <2> QED
    BY <2>5, <2>6
<1> QED
  BY <1>2, <1>3, <1>4 DEF CoveredAt, Alive

(* The node p itself, when nothing comes to it.                            *)
LEMMA CoveredOutKept ==
    ASSUME NEW p \in Nodes, CoveredOut(p),
           \A t \in Loop[p] : myUpdates'[p][t] = myUpdates[p][t],
           outBuff'[p] = outBuff[p], pPc[p] = "ack" => pPc'[p] = "ack", r2p'[p] = r2p[p]
    PROVE  CoveredOut(p)'
<1>1. \A x : CoveredBuff(x, p)' <=> CoveredBuff(x, p)
  BY SameRecordsBuff
<1> QED
  BY <1>1 DEF CoveredOut

(* A range that has come back stays covered while the records stay.        *)
LEMMA CoveredBackKept ==
    ASSUME NEW p \in Nodes, CoveredBack(p),
           \A t \in Loop[p] : myUpdates'[p][t] = myUpdates[p][t],
           recvBuff'[p] = recvBuff[p]
    PROVE  CoveredBack(p)'
<1>1. ASSUME NEW x \in Buffs(recvBuff[p]), x.table \in Loop[p], Has(x, p)
      PROVE  /\ To(x, p) \in Recorded(p, x.table)'
             /\ KeysCovered(p, x.table, From(x, p), To(x, p), x.buff.updates.keys)'
  <2>1. myUpdates'[p][x.table] = myUpdates[p][x.table]
    BY <1>1
  <2> QED
    BY <1>1, <2>1, SameRecords DEF CoveredBack
<1> QED
  BY <1>1 DEF CoveredBack

(* Steps outside the data path change no place and no record.              *)
LEMMA CoverIdle ==
    ASSUME FlowInv, NEW p \in Nodes, AllCovered(p), Idle, rState'[p] = "RUN"
    PROVE  AllCovered(p)'
<1>1. UNCHANGED <<outBuff, recvBuff, peerUpdateRange, r2p, fatal>> /\ \A a \in Nodes : IdleAt(a)
  BY DEF Idle
<1>2. myUpdates'[p] = myUpdates[p] /\ (pPc[p] = "ack" => pPc'[p] = "ack")
  BY <1>1 DEF IdleAt
<1>3. ASSUME NEW a \in Nodes PROVE CoveredAt(a, p)'
  <2>1. /\ Buffs(tcp'[a]) = Buffs(tcp[a]) /\ Buffs(fwdPipe'[a]) = Buffs(fwdPipe[a])
        /\ pState'[a] = "RUN" => pState[a] = "RUN" /\ updateStore'[a] = updateStore[a]
    BY <1>1 DEF IdleAt, Keeps
  <2>2. \A t : First(a, t, p)' = First(a, t, p) /\ Merged(a, t, p)' = Merged(a, t, p)
    BY <1>1 DEF First, Merged
  <2>3. CoveredAt(a, p)
    BY DEF AllCovered
  <2> QED
    BY <1>1, <1>2, <2>1, <2>2, <2>3, CoveredAtKept
<1>4. CoveredOut(p)'
  BY <1>1, <1>2, CoveredOutKept DEF AllCovered
<1>5. CoveredBack(p)'
  BY <1>1, <1>2, CoveredBackKept DEF AllCovered
<1> QED
  BY <1>3, <1>4, <1>5 DEF AllCovered

(* A logged update only adds keys to a store.                              *)
LEMMA CoverLog ==
    ASSUME FlowInv, NEW p \in Nodes, AllCovered(p), NEW n \in Nodes, NEW t \in Tables, LogDoes(n, t)
    PROVE  AllCovered(p)'
<1>1. UNCHANGED <<tcp, fwdPipe, outBuff, recvBuff, peerUpdateRange, r2p, fatal, myUpdates,
                  pPc, pState>>
  BY DEF LogDoes
<1>2. \A a \in Nodes, s \in Tables : updateStore[a][s].keys \subseteq updateStore'[a][s].keys
  <2> TAKE a \in Nodes, s \in Tables
  <2>1. CASE a # n \/ s # t \/ n \notin Batched
    BY <2>1 DEF LogDoes
  <2>2. CASE a = n /\ s = t /\ n \in Batched
    BY <2>2 DEF LogDoes
  <2> QED
    BY <2>1, <2>2
<1>3. ASSUME NEW a \in Nodes PROVE CoveredAt(a, p)'
  <2>1. \A s \in Loop[p] : /\ First(a, s, p)' = First(a, s, p) /\ Merged(a, s, p)' = Merged(a, s, p)
                           /\ updateStore[a][s].keys \subseteq updateStore'[a][s].keys
    BY <1>1, <1>2, TablesAssumption DEF First, Merged
  <2>2. CoveredAt(a, p)
    BY DEF AllCovered
  <2> QED
    BY <1>1, <2>1, <2>2, CoveredAtKept
<1>4. CoveredOut(p)'
  BY <1>1, CoveredOutKept DEF AllCovered
<1>5. CoveredBack(p)'
  BY <1>1, CoveredBackKept DEF AllCovered
<1> QED
  BY <1>3, <1>4, <1>5 DEF AllCovered

(* The buffer made by the timer branch has the keys of the store it was    *)
(* made from.                                                              *)
LEMMA CoverFlush ==
    ASSUME FlowInv, NEW p \in Nodes, OwnInv(p), AllCovered(p),
           NEW n \in Nodes, NEW t \in Tables, NEW x, FlushDoes(n, t, x)
    PROVE  AllCovered(p)'
<1>1. /\ UNCHANGED <<tcp, fwdPipe, recvBuff, myUpdates, pState, r2p>>
      /\ fatal[n] = "none" /\ outBuff[n] = <<>> /\ Buffs(outBuff'[n]) = {x} /\ x.table = t
      /\ \A a \in Nodes \ {n} : outBuff'[a] = outBuff[a] /\ pPc'[a] = pPc[a] /\ fatal'[a] = fatal[a]
      /\ x.buff.updates = updateStore[n][t]
  BY ShortPipe DEF FlushDoes
<1>2. pState[n] = "RUN" /\ r2p[n] = <<>>
  BY FlowParts DEF FlushDoes, Phases, PropagatorPhase, AckPhase
<1>3. \A a \in Nodes : CoveredAt(a, p)
  BY DEF AllCovered
<1>4. ASSUME NEW a \in Nodes, a # n PROVE CoveredAt(a, p)'
  <2>1. \A s \in Tables : /\ peerUpdateRange'[a][s] = peerUpdateRange[a][s]
                          /\ updateStore'[a][s] = updateStore[a][s]
    BY <1>4 DEF FlushDoes
  <2>2. \A s \in Loop[p] : /\ First(a, s, p)' = First(a, s, p) /\ Merged(a, s, p)' = Merged(a, s, p)
                           /\ updateStore[a][s].keys \subseteq updateStore'[a][s].keys
    BY <2>1, TablesAssumption DEF First, Merged
  <2>3. outBuff'[a] = outBuff[a] /\ fatal'[a] = fatal[a]
    BY <1>1, <1>4
  <2> QED
    BY <1>1, <1>3, <2>2, <2>3, CoveredAtKept
<1>5. CASE n = p
  <2>1. CoveredAt(n, p)'
    BY <1>1, <1>3, <1>5, CoveredAtKept
  <2>2. ASSUME t \in Loop[p], Has(x, p) PROVE pPc'[p] = "ack"
    <3>1. HasOwnRange(p, t)
      BY <1>5, <2>2 DEF FlushDoes
    <3>2. n \in Batched
      BY <1>5 DEF FlushDoes, OwnInv
    <3>3. myUpdateStore[p][t].keys # {}
      BY <1>1, <1>2, <1>5, <2>2, <3>1, <3>2 DEF OwnInv
    <3> QED
      BY <1>5, <2>2, <3>3 DEF FlushDoes
  <2>3. CoveredOut(p)'
    BY <1>1, <1>2, <1>5, <2>2 DEF CoveredOut
  <2>4. CoveredBack(p)'
    BY <1>1, CoveredBackKept DEF AllCovered
  <2> QED
    BY <1>4, <1>5, <2>1, <2>3, <2>4 DEF AllCovered
<1>6. CASE n # p
  <2>1. \A y : CoveredBuff(y, p)' <=> CoveredBuff(y, p)
    BY <1>1, SameRecordsBuff
  <2>2. CoveredBuff(x, p)
    <3> SUFFICES ASSUME t \in Loop[p], Has(x, p)
                 PROVE  Covered(p, t, From(x, p), To(x, p), x.buff.updates.keys)
      BY <1>1 DEF CoveredBuff
    <3>1. From(x, p) = First(n, t, p) /\ To(x, p) = Merged(n, t, p)
      BY <1>6 DEF FlushDoes
    <3> QED
      BY <1>1, <1>2, <1>3, <1>6, <3>1 DEF CoveredAt, Alive
  <2>3. ASSUME NEW s \in Loop[p]
        PROVE  Covered(p, s, First(n, s, p), Merged(n, s, p), updateStore[n][s].keys)'
    <3>1. s \in Tables
      BY TablesAssumption
    <3>2. CASE s # t
      <4>1. peerUpdateRange'[n][s] = peerUpdateRange[n][s] /\ updateStore'[n][s] = updateStore[n][s]
        BY <3>1, <3>2 DEF FlushDoes
      <4>2. Covered(p, s, First(n, s, p), Merged(n, s, p), updateStore[n][s].keys)
        BY <1>1, <1>2, <1>3, <1>6 DEF CoveredAt, Alive
      <4> QED
        BY <1>1, <4>1, <4>2 DEF Covered, KeysCovered, Recorded, First, Merged
    <3>3. CASE s = t
      <4>1. Merged(n, t, p)' < First(n, t, p)'
        <5>1. First(n, t, p) \in Int /\ Merged(n, t, p) \in Int /\ Merged(n, t, p)' = Merged(n, t, p)
          BY FlowParts DEF FlushDoes
        <5>2. CASE p \in NewPeers(n, t)
          BY <5>1, <5>2 DEF FlushDoes
        <5>3. CASE p \notin NewPeers(n, t)
          <6>1. /\ peerUpdateRange'[n][t].range[p] = peerUpdateRange[n][t].range[p]
                /\ Known(n, t, p) => First(n, t, p) > Merged(n, t, p)
            BY <5>3 DEF FlushDoes
          <6>2. ~Known(n, t, p) => peerUpdateRange[n][t].range[p] = Span(0, -1)
            BY FlowParts DEF BuffersInv, Known
          <6>3. First(n, t, p) > Merged(n, t, p)
            BY <6>1, <6>2 DEF First, Merged, Span
          <6> QED
            BY <5>1, <6>1, <6>3 DEF First
        <5> QED
          BY <5>2, <5>3
      <4>2. First(n, t, p)' \in Int /\ Merged(n, t, p)' \in Int
        <5>1. First(n, t, p) \in Int /\ Merged(n, t, p) \in Int
          BY FlowParts
        <5>2. Merged(n, t, p)' = Merged(n, t, p)
          BY DEF FlushDoes
        <5>3. First(n, t, p)' = First(n, t, p) \/ First(n, t, p)' = Merged(n, t, p) + 1
          BY DEF FlushDoes, First
        <5> QED
          BY <5>1, <5>2, <5>3
      <4>3. First(n, t, p)' .. Merged(n, t, p)' = {}
        BY <4>1, <4>2
      <4> QED
        BY <3>3, <4>3 DEF Covered, KeysCovered
    <3> QED
      BY <3>2, <3>3
  <2>4. CoveredAt(n, p)'
    <3>1. \A y \in Buffs(tcp'[n]) \cup Buffs(fwdPipe'[n]) \cup Buffs(recvBuff'[n]) : CoveredBuff(y, p)'
      BY <1>1, <1>3, <1>6, <2>1 DEF CoveredAt
    <3>2. \A y \in Buffs(outBuff'[n]) : CoveredBuff(y, p)'
      BY <1>1, <2>1, <2>2
    <3> QED
      BY <2>3, <3>1, <3>2 DEF CoveredAt
  <2>5. CoveredOut(p)'
    BY <1>1, <1>6, CoveredOutKept DEF AllCovered
  <2>6. CoveredBack(p)'
    BY <1>1, CoveredBackKept DEF AllCovered
  <2> QED
    BY <1>4, <2>4, <2>5, <2>6 DEF AllCovered
<1> QED
  BY <1>5, <1>6

(* Own numbers are sent after the answer, when they are on record.         *)
LEMMA CoverSend ==
    ASSUME FlowInv, NEW p \in Nodes, AllCovered(p), NEW n \in Nodes, NEW x, SendDoes(n, x)
    PROVE  AllCovered(p)'
<1>1. /\ UNCHANGED <<fwdPipe, recvBuff, peerUpdateRange, updateStore, myUpdates, pState>>
      /\ fatal[n] = "none" /\ Buffs(outBuff[n]) = {x} /\ Buffs(outBuff'[n]) = {}
      /\ \A a \in Nodes \ {n} : /\ outBuff'[a] = outBuff[a] /\ pPc'[a] = pPc[a]
                                /\ fatal'[a] = fatal[a] /\ r2p'[a] = r2p[a] /\ tcp'[a] = tcp[a]
  BY ShortPipe DEF SendDoes
<1>2. Buffs(tcp'[n]) \subseteq Buffs(tcp[n]) \cup {x}
  BY DEF SendDoes, Pushes
<1>3. \A y : CoveredBuff(y, p)' <=> CoveredBuff(y, p)
  BY <1>1, SameRecordsBuff
<1>4. \A a \in Nodes : CoveredAt(a, p)
  BY DEF AllCovered
<1>5. CoveredBuff(x, p)
  <2>1. CASE n # p
    BY <1>1, <1>4, <2>1 DEF CoveredAt
  <2>2. CASE n = p
    <3> SUFFICES ASSUME x.table \in Loop[p], Has(x, p) PROVE CoveredBuff(x, p)
      BY DEF CoveredBuff
    <3>1. pPc[p] = "ack" /\ (r2p[p] # <<>> => CoveredBuff(x, p))
      BY <1>1, <2>2 DEF AllCovered, CoveredOut
    <3> QED
      BY <2>2, <3>1 DEF SendDoes
  <2> QED
    BY <2>1, <2>2
<1>6. \A a, t : First(a, t, p)' = First(a, t, p) /\ Merged(a, t, p)' = Merged(a, t, p)
  BY <1>1 DEF First, Merged
<1>7. ASSUME NEW a \in Nodes, a # n PROVE CoveredAt(a, p)'
  <2>1. /\ outBuff'[a] = outBuff[a] /\ tcp'[a] = tcp[a] /\ fatal'[a] = fatal[a]
        /\ CoveredAt(a, p)
    BY <1>1, <1>4, <1>7
  <2> QED
    BY <1>1, <1>6, <2>1, CoveredAtKept
<1>8. CoveredAt(n, p)'
  <2>1. \A y \in Buffs(tcp'[n]) \cup Buffs(fwdPipe'[n]) : CoveredBuff(y, p)'
    BY <1>1, <1>2, <1>3, <1>4, <1>5 DEF CoveredAt
  <2>2. n # p => \A y \in Buffs(recvBuff'[n]) \cup Buffs(outBuff'[n]) : CoveredBuff(y, p)'
    BY <1>1, <1>3, <1>4 DEF CoveredAt
  <2>3. ASSUME n # p, pState'[n] = "RUN", NEW t \in Loop[p]
        PROVE  Covered(p, t, First(n, t, p), Merged(n, t, p), updateStore[n][t].keys)'
    <3>1. Covered(p, t, First(n, t, p), Merged(n, t, p), updateStore[n][t].keys)
      BY <1>1, <1>4, <2>3 DEF CoveredAt, Alive
    <3> QED
      BY <1>1, <3>1 DEF Covered, KeysCovered, Recorded, First, Merged
  <2> QED
    BY <2>1, <2>2, <2>3 DEF CoveredAt
<1>9. CoveredOut(p)'
  <2>1. CASE n = p
    BY <1>1, <2>1 DEF CoveredOut
  <2>2. CASE n # p
    BY <1>1, <2>2, CoveredOutKept DEF AllCovered
  <2> QED
    BY <2>1, <2>2
<1>10. CoveredBack(p)'
  BY <1>1, CoveredBackKept DEF AllCovered
<1> QED
  BY <1>7, <1>8, <1>9, <1>10 DEF AllCovered

(* Merged ranges and keys are covered together.                            *)
LEMMA CoverMerge ==
    ASSUME FlowInv, NEW p \in Nodes, AllCovered(p), NEW n \in Nodes, NEW x, MergeDoes(n, x)
    PROVE  AllCovered(p)'
<1>1. /\ UNCHANGED <<tcp, outBuff, recvBuff, myUpdates, pState, pPc, r2p>>
      /\ fatal[n] = "none" /\ x \in Buffs(fwdPipe[n])
      /\ \A a \in Nodes \ {n} : fwdPipe'[a] = fwdPipe[a] /\ fatal'[a] = fatal[a]
      /\ Buffs(fwdPipe'[n]) \subseteq Buffs(fwdPipe[n])
  BY DEF MergeDoes, Pops
<1>2. \A a \in Nodes : CoveredAt(a, p)
  BY DEF AllCovered
<1>3. x.table \in Tables /\ x.buff \in Buffer /\ Sound(x.buff)
  BY <1>1, FlowParts
<1>4. ASSUME NEW a \in Nodes, a # n \/ n = p PROVE CoveredAt(a, p)'
  <2>1. a # n => \A s \in Tables : /\ peerUpdateRange'[a][s] = peerUpdateRange[a][s]
                                   /\ updateStore'[a][s] = updateStore[a][s]
    BY DEF MergeDoes
  <2>2. a # p => \A s \in Loop[p] :
            /\ First(a, s, p)' = First(a, s, p) /\ Merged(a, s, p)' = Merged(a, s, p)
            /\ updateStore[a][s].keys \subseteq updateStore'[a][s].keys
    BY <1>4, <2>1, TablesAssumption DEF First, Merged
  <2>3. Buffs(fwdPipe'[a]) \subseteq Buffs(fwdPipe[a]) /\ (a # p => fatal'[a] = fatal[a])
    BY <1>1, <1>4
  <2> QED
    BY <1>1, <1>2, <2>2, <2>3, CoveredAtKept
<1>5. ASSUME n # p PROVE CoveredAt(n, p)'
  <2>1. \A y : CoveredBuff(y, p)' <=> CoveredBuff(y, p)
    BY <1>1, SameRecordsBuff
  <2>2. /\ \A y \in Buffs(tcp'[n]) \cup Buffs(fwdPipe'[n]) : CoveredBuff(y, p)'
        /\ \A y \in Buffs(recvBuff'[n]) \cup Buffs(outBuff'[n]) : CoveredBuff(y, p)'
    BY <1>1, <1>2, <1>5, <2>1 DEF CoveredAt
  <2>3. ASSUME fatal'[n] = "none", pState'[n] = "RUN", NEW s \in Loop[p]
        PROVE  Covered(p, s, First(n, s, p), Merged(n, s, p), updateStore[n][s].keys)'
    <3>1. s \in Tables /\ pState[n] = "RUN"
      BY <1>1, <2>3, TablesAssumption
    <3>2. /\ Covered(p, s, First(n, s, p), Merged(n, s, p), updateStore[n][s].keys)
          /\ First(n, s, p) \in Int /\ Merged(n, s, p) \in Int
      BY <1>1, <1>2, <1>5, <3>1, FlowParts DEF CoveredAt, Alive
    <3>3. CASE s # x.table
      <4>1. peerUpdateRange'[n][s] = peerUpdateRange[n][s] /\ updateStore'[n][s] = updateStore[n][s]
        BY <3>1, <3>3 DEF MergeDoes
      <4> QED
        BY <1>1, <3>2, <4>1 DEF Covered, KeysCovered, Recorded, First, Merged
    <3>4. CASE s = x.table
      <4>1. /\ updateStore'[n][s].keys = updateStore[n][s].keys \cup x.buff.updates.keys
            /\ Contiguous(peerUpdateRange[n][s], x.buff)
        BY <2>3, <3>1, <3>4 DEF MergeDoes
      <4>2. CASE p \notin Shown(x)
        <5>1. peerUpdateRange'[n][s].range[p] = peerUpdateRange[n][s].range[p]
          BY <3>1, <3>4, <4>2 DEF MergeDoes
        <5>2. Covered(p, s, First(n, s, p), Merged(n, s, p),
                      updateStore[n][s].keys \cup x.buff.updates.keys)
          BY <3>2, EasyCovered
        <5> QED
          BY <1>1, <4>1, <5>1, <5>2 DEF Covered, KeysCovered, Recorded, First, Merged
      <4>3. CASE p \in Shown(x)
        <5>1. /\ Has(x, p) /\ Merged(n, s, p)' = To(x, p)
              /\ First(n, s, p)' = IF Known(n, s, p) THEN First(n, s, p) ELSE From(x, p)
          BY <3>1, <3>4, <4>3 DEF MergeDoes
        <5>2. From(x, p) \in Int /\ To(x, p) \in Int
          BY <1>1, <5>1, FlowParts
        <5>3. Covered(p, s, From(x, p), To(x, p), x.buff.updates.keys)
          BY <1>1, <1>2, <2>3, <3>4, <5>1 DEF CoveredAt, CoveredBuff
        <5>4. CASE ~Known(n, s, p)
          <6>1. Covered(p, s, From(x, p), To(x, p),
                        updateStore[n][s].keys \cup x.buff.updates.keys)
            BY <5>2, <5>3, EasyCovered
          <6>2. First(n, s, p)' = From(x, p)
            BY <5>1, <5>4
          <6> QED
            BY <1>1, <4>1, <5>1, <6>1, <6>2 DEF Covered, KeysCovered, Recorded
        <5>5. CASE Known(n, s, p)
          <6>1. PICK i \in Visited(x.buff) : x.buff.ranges[i].id = p
            BY <4>3 DEF Shown
          <6>2. i \in DOMAIN x.buff.ranges
            BY DEF Visited
          <6>3. From(x, p) = x.buff.ranges[i].st
            BY <1>3, <6>1, <6>2, RangeInSlot DEF From
          <6>4. Merged(n, s, p) + 1 = From(x, p)
            BY <4>1, <5>5, <6>1, <6>3 DEF Contiguous, Merged, Known
          <6>5. Covered(p, s, First(n, s, p), To(x, p),
                        updateStore[n][s].keys \cup x.buff.updates.keys)
            BY <3>2, <5>2, <5>3, <6>4, JoinCovered
          <6>6. First(n, s, p)' = First(n, s, p)
            BY <5>1, <5>5
          <6> QED
            BY <1>1, <4>1, <5>1, <6>5, <6>6 DEF Covered, KeysCovered, Recorded
        <5> QED
          BY <5>4, <5>5
      <4> QED
        BY <4>2, <4>3
    <3> QED
      BY <3>3, <3>4
  <2> QED
    BY <2>2, <2>3 DEF CoveredAt, Alive
<1>6. CoveredOut(p)'
  BY <1>1, CoveredOutKept DEF AllCovered
<1>7. CoveredBack(p)'
  BY <1>1, CoveredBackKept DEF AllCovered
<1> QED
  BY <1>4, <1>5, <1>6, <1>7 DEF AllCovered

(* The numbers of a record.                                                *)
LEMMA NumbersOfRecord ==
    ASSUME NEW p \in Nodes, NEW own \in Buffer, IsRecord(p, own)
    PROVE  /\ own.ranges[1].st \in Int /\ own.ranges[1].end \in Int
           /\ own.ranges[1].st <= own.ranges[1].end
           /\ Numbers(p, own) = own.ranges[1].st .. own.ranges[1].end
           /\ HasNodeRange(own, p)
           /\ GetNodeRange(own, p).st = own.ranges[1].st
           /\ GetNodeRange(own, p).end = own.ranges[1].end
<1>1. DOMAIN own.ranges = {1}
  BY BufferSlots DEF IsRecord, Buffer
<1>2. own.ranges[1].id = p /\ own.ranges[1].st <= own.ranges[1].end
  BY DEF IsRecord
<1>3. own.ranges[1].st \in Int /\ own.ranges[1].end \in Int
  BY <1>1, BufferSlots
<1>4. SlotOf(own, p) = {1}
  <2>1. 1 .. 1 - 1 = {}
    OBVIOUS
  <2> QED
    BY <1>1, <1>2, <2>1 DEF SlotOf
<1>5. (CHOOSE i \in SlotOf(own, p) : TRUE) = 1
  BY <1>4
<1>6. GetNodeRange(own, p) = Span(own.ranges[1].st, own.ranges[1].end)
  BY <1>5 DEF GetNodeRange
<1>7. {j \in DOMAIN own.ranges : own.ranges[j].id = p} = {1}
  BY <1>1, <1>2
<1>8. Numbers(p, own) = own.ranges[1].st .. own.ranges[1].end
  BY <1>7 DEF Numbers
<1> QED
  BY <1>1, <1>2, <1>3, <1>6, <1>8 DEF HasNodeRange, Span

(* A record more, of numbers above those that are covered.                 *)
LEMMA MoreCovered ==
    ASSUME NEW p \in Nodes, NEW t, NEW b,
           Range(myUpdates'[p][t]) = Range(myUpdates[p][t]) \cup {b},
           NEW low, NEW high, NEW keys,
           Covered(p, t, low, high, keys), Numbers(p, b) \cap (low .. high) = {}
    PROVE  Covered(p, t, low, high, keys)'
<1>1. Recorded(p, t) \subseteq Recorded(p, t)'
  BY DEF Recorded
<1> QED
  BY <1>1 DEF Covered, KeysCovered

(* A new record adds numbers, all of a buffer that has its keys.           *)
LEMMA CoverRecord ==
    ASSUME FlowInv, NEW p \in Nodes, MyUpdatesInv(p), AllCovered(p),
           NEW m, RecordDoes(p, m), rState[p] = "RUN"
    PROVE  AllCovered(p)'
<1> DEFINE mine == myUpdateRange[p][m.table]
<1>1. /\ UNCHANGED <<tcp, outBuff, fwdPipe, recvBuff, peerUpdateRange, myUpdateRange, fatal,
                     updateStore, pPc, pState>>
      /\ m.table \in Tables /\ m.buff \in Buffer
      /\ \A t \in Tables \ {m.table} : myUpdates'[p][t] = myUpdates[p][t]
      /\ myUpdates'[p][m.table] = Append(myUpdates[p][m.table], m.buff)
      /\ rPc[p] = "poll"
  BY DEF RecordDoes
<1>2. Range(myUpdates'[p][m.table]) = Range(myUpdates[p][m.table]) \cup {m.buff}
  <2>1. Range(Append(myUpdates[p][m.table], m.buff)) = Range(myUpdates[p][m.table]) \cup {m.buff}
    BY <1>1, RangeOfQueue, AskedTables
  <2> QED
    BY <1>1, <2>1
<1>3. /\ Numbers(p, m.buff) = mine.st .. mine.end /\ mine.st \in Int /\ mine.end \in Int
      /\ pPc[p] = "ack" /\ r2p[p] = <<>> /\ outBuff[p][1].table = m.table
      /\ m.buff.updates.keys \subseteq outBuff[p][1].buff.updates.keys
  <2>1. /\ IsRecord(p, m.buff) /\ m.buff.ranges[1].st = mine.st /\ m.buff.ranges[1].end = mine.end
        /\ pPc[p] = "ack" /\ r2p[p] = <<>> /\ outBuff[p][1].table = m.table
        /\ m.buff.updates.keys \subseteq outBuff[p][1].buff.updates.keys
    BY RecordFacts
  <2>2. /\ m.buff.ranges[1].st \in Int /\ m.buff.ranges[1].end \in Int
        /\ Numbers(p, m.buff) = m.buff.ranges[1].st .. m.buff.ranges[1].end
    BY <1>1, <2>1, NumbersOfRecord
  <2> QED
    BY <2>1, <2>2
<1> HIDE DEF mine
<1>4. ASSUME NEW x, IsBuff(x), CoveredBuff(x, p), Has(x, p) => To(x, p) \in Int,
             (Has(x, p) /\ x.table = m.table) => To(x, p) < mine.st
      PROVE  CoveredBuff(x, p)'
  <2> SUFFICES ASSUME x.table \in Loop[p], Has(x, p)
               PROVE  Covered(p, x.table, From(x, p), To(x, p), x.buff.updates.keys)'
    BY DEF CoveredBuff
  <2>1. Covered(p, x.table, From(x, p), To(x, p), x.buff.updates.keys) /\ x.table \in Tables
    BY <1>4, TablesAssumption DEF CoveredBuff
  <2>2. CASE x.table # m.table
    BY <1>1, <2>1, <2>2, SameRecords
  <2>3. CASE x.table = m.table
    <3>1. Numbers(p, m.buff) \cap (From(x, p) .. To(x, p)) = {}
      BY <1>3, <1>4, <2>3
    <3> QED
      BY <1>2, <2>1, <2>3, <3>1, MoreCovered
  <2> QED
    BY <2>2, <2>3
<1>5. ASSUME NEW a \in Nodes PROVE CoveredAt(a, p)'
  <2>1. CoveredAt(a, p)
    BY DEF AllCovered
  <2>2. ASSUME NEW x \in Buffs(tcp[a]) \cup Buffs(fwdPipe[a]) PROVE CoveredBuff(x, p)'
    <3>1. /\ IsBuff(x) /\ (Has(x, p) => To(x, p) \in Int)
          /\ Has(x, p) => To(x, p) < myUpdateRange[p][x.table].st
      BY FlowParts DEF PlacesInv
    <3> QED
      BY <1>4, <2>1, <3>1 DEF CoveredAt, mine
  <2>3. ASSUME a # p, NEW x \in Buffs(recvBuff[a]) \cup Buffs(outBuff[a]) PROVE CoveredBuff(x, p)'
    <3>1. /\ IsBuff(x) /\ (Has(x, p) => To(x, p) \in Int)
          /\ Has(x, p) => To(x, p) < myUpdateRange[p][x.table].st
      BY <2>3, FlowParts DEF PlacesInv
    <3> QED
      BY <1>4, <2>1, <2>3, <3>1 DEF CoveredAt, mine
  <2>4. ASSUME a # p, Alive(a), pState[a] = "RUN", NEW t \in Loop[p]
        PROVE  Covered(p, t, First(a, t, p), Merged(a, t, p), updateStore[a][t].keys)'
    <3>1. t \in Tables
      BY TablesAssumption
    <3>2. Covered(p, t, First(a, t, p), Merged(a, t, p), updateStore[a][t].keys)
      BY <2>1, <2>4 DEF CoveredAt
    <3>3. PICK low, high, keys : /\ low = First(a, t, p) /\ high = Merged(a, t, p)
                                 /\ keys = updateStore[a][t].keys
      OBVIOUS
    <3>4. low = First(a, t, p)' /\ high = Merged(a, t, p)' /\ keys = updateStore'[a][t].keys
      BY <1>1, <3>3 DEF First, Merged
    <3>5. Covered(p, t, low, high, keys)'
      <4>1. CASE t # m.table
        BY <1>1, <3>1, <3>2, <3>3, <4>1, SameRecords
      <4>2. CASE t = m.table
        <5>1. high < mine.st /\ high \in Int /\ low \in Int
          BY <3>1, <3>3, <4>2, FlowParts DEF PlacesInv, Merged, mine
        <5>2. Numbers(p, m.buff) \cap (low .. high) = {}
          BY <1>3, <5>1
        <5> QED
          BY <1>2, <3>2, <3>3, <4>2, <5>2, MoreCovered
      <4> QED
        BY <4>1, <4>2
    <3> QED
      BY <3>4, <3>5
  <2>5. Alive(a)' <=> Alive(a)
    BY <1>1 DEF Alive
  <2> QED
    BY <1>1, <2>2, <2>3, <2>4, <2>5 DEF CoveredAt
<1>6. CoveredOut(p)'
  <2> SUFFICES ASSUME NEW x \in Buffs(outBuff[p]), x.table \in Loop[p], Has(x, p)
               PROVE  pPc'[p] = "ack" /\ CoveredBuff(x, p)'
    BY <1>1 DEF CoveredOut
  <2>1. x = outBuff[p][1]
    <3>1. outBuff[p] \in Seq(UpdateBufferMsg) /\ Len(outBuff[p]) = 1
      BY <1>3, FlowParts DEF DataTypes, BuffersInv
    <3> QED
      BY <3>1 DEF Buffs
  <2>2. From(x, p) = mine.st /\ To(x, p) = mine.end /\ x.table = m.table
    BY <1>3, <2>1, FlowParts DEF PlacesInv, From, To, mine
  <2>3. From(x, p) .. To(x, p) \subseteq Recorded(p, m.table)'
    BY <1>2, <1>3, <2>2 DEF Recorded
  <2>4. ASSUME NEW own \in Range(myUpdates'[p][m.table]),
               Numbers(p, own) \cap (From(x, p) .. To(x, p)) # {}
        PROVE  own.updates.keys \subseteq x.buff.updates.keys
    <3>1. CASE own = m.buff
      BY <1>3, <2>1, <3>1
    <3>2. CASE own \in Range(myUpdates[p][m.table])
      <4>1. own \in Buffer
        BY <1>1, <3>2, RangeOfQueue, AskedTables
      <4>2. IsRecord(p, own) /\ own.ranges[1].end < mine.st
        BY <1>1, <1>3, <3>2 DEF MyUpdatesInv, Answered, mine
      <4>3. /\ Numbers(p, own) = own.ranges[1].st .. own.ranges[1].end
            /\ own.ranges[1].st \in Int /\ own.ranges[1].end \in Int
        BY <4>1, <4>2, NumbersOfRecord
      <4> QED
        BY <1>3, <2>2, <2>4, <4>2, <4>3
    <3> QED
      BY <1>2, <3>1, <3>2
  <2>5. CoveredBuff(x, p)'
    BY <2>2, <2>3, <2>4 DEF CoveredBuff, Covered, KeysCovered
  <2> QED
    BY <1>1, <1>3, <2>5
<1>7. CoveredBack(p)'
  <2>1. Buffs(recvBuff'[p]) = {}
    BY <1>1, FlowParts, ShortPipe DEF BuffersInv
  <2> QED
    BY <2>1 DEF CoveredBack
<1> QED
  BY <1>5, <1>6, <1>7 DEF AllCovered

(* The records of p stay, and the receiver of n passes on or keeps what it *)
(* has of p with the ranges and the keys it came with.                     *)
LEMMA CoverReceive ==
    ASSUME FlowInv, NEW p \in Nodes, AllCovered(p), NEW n \in Nodes,
           \A t \in Loop[p] : myUpdates'[p][t] = myUpdates[p][t],
           UNCHANGED <<outBuff, peerUpdateRange, updateStore, pPc, pState, r2p>>,
           \A a \in Nodes : Buffs(tcp'[a]) \subseteq Buffs(tcp[a]),
           \A a \in Nodes \ {n} : /\ fwdPipe'[a] = fwdPipe[a] /\ recvBuff'[a] = recvBuff[a]
                                  /\ fatal'[a] = fatal[a],
           fatal'[n] = "none" => fatal[n] = "none",
           \A y \in Buffs(fwdPipe'[n]) : CoveredBuff(y, p),
           n # p => \A y \in Buffs(recvBuff'[n]) : CoveredBuff(y, p),
           n = p => CoveredBack(p)'
    PROVE  AllCovered(p)'
<1>1. \A y : CoveredBuff(y, p)' <=> CoveredBuff(y, p)
  BY SameRecordsBuff
<1>2. \A a \in Nodes : CoveredAt(a, p)
  BY DEF AllCovered
<1>3. \A a, t : First(a, t, p)' = First(a, t, p) /\ Merged(a, t, p)' = Merged(a, t, p)
  BY DEF First, Merged
<1>4. ASSUME NEW a \in Nodes, a # n PROVE CoveredAt(a, p)'
  <2>1. /\ fwdPipe'[a] = fwdPipe[a] /\ recvBuff'[a] = recvBuff[a] /\ fatal'[a] = fatal[a]
        /\ Buffs(tcp'[a]) \subseteq Buffs(tcp[a]) /\ CoveredAt(a, p)
    BY <1>2, <1>4
  <2> QED
    BY <1>3, <2>1, CoveredAtKept
<1>5. CoveredAt(n, p)'
  <2>1. \A y \in Buffs(tcp'[n]) \cup Buffs(fwdPipe'[n]) : CoveredBuff(y, p)'
    BY <1>1, <1>2 DEF CoveredAt
  <2>2. n # p => \A y \in Buffs(recvBuff'[n]) \cup Buffs(outBuff'[n]) : CoveredBuff(y, p)'
    BY <1>1, <1>2 DEF CoveredAt
  <2>3. ASSUME n # p, fatal'[n] = "none", pState'[n] = "RUN", NEW t \in Loop[p]
        PROVE  Covered(p, t, First(n, t, p), Merged(n, t, p), updateStore[n][t].keys)'
    <3>1. Covered(p, t, First(n, t, p), Merged(n, t, p), updateStore[n][t].keys)
      BY <1>2, <2>3 DEF CoveredAt, Alive
    <3>2. myUpdates'[p][t] = myUpdates[p][t]
      BY <2>3
    <3> QED
      BY <3>1, <3>2 DEF Covered, KeysCovered, Recorded, First, Merged
  <2> QED
    BY <2>1, <2>2, <2>3 DEF CoveredAt, Alive
<1>6. CoveredOut(p)'
  BY CoveredOutKept DEF AllCovered
<1>7. CoveredBack(p)'
  <2>1. CASE n = p
    BY <2>1
  <2>2. CASE n # p
    BY <2>2, CoveredBackKept DEF AllCovered
  <2> QED
    BY <2>1, <2>2
<1> QED
  BY <1>4, <1>5, <1>6, <1>7 DEF AllCovered

(* A copy is covered as well.                                              *)
LEMMA CopyCovered ==
    ASSUME NEW p \in Nodes, NEW n \in Nodes, NEW x, NEW y, Copies(y, x, n),
           n # p => CoveredBuff(x, p)
    PROVE  CoveredBuff(y, p)
<1> SUFFICES ASSUME y.table \in Loop[p], Has(y, p)
             PROVE  Covered(p, y.table, From(y, p), To(y, p), y.buff.updates.keys)
  BY DEF CoveredBuff
<1>1. /\ p # n /\ Has(x, p) /\ y.table = x.table
      /\ From(y, p) = From(x, p) /\ To(y, p) = To(x, p)
  BY FlowCopy
<1> QED
  BY <1>1 DEF CoveredBuff, Copies

(* A returned range is on record to its last number when the receiver      *)
(* begins to remove it.                                                    *)
LEMMA CoverTake ==
    ASSUME FlowInv, NEW p \in Nodes, AllCovered(p),
           NEW n \in Nodes, NEW u \in Nodes, NEW x, TakeDoes(n, u, x)
    PROVE  AllCovered(p)'
<1>1. /\ UNCHANGED <<outBuff, peerUpdateRange, updateStore, myUpdates, pPc, pState, r2p>>
      /\ fatal[n] = "none" /\ x \in Buffs(tcp[u])
      /\ \A a \in Nodes \ {n} : /\ fwdPipe'[a] = fwdPipe[a] /\ recvBuff'[a] = recvBuff[a]
                                /\ fatal'[a] = fatal[a]
      /\ Buffs(tcp'[u]) \subseteq Buffs(tcp[u]) /\ \A a \in Nodes \ {u} : tcp'[a] = tcp[a]
  BY DEF TakeDoes, Pops
<1>2. CoveredBuff(x, p)
  BY <1>1 DEF AllCovered, CoveredAt
<1>3. \A y \in Buffs(fwdPipe'[n]) : y \in Buffs(fwdPipe[n]) \/ Copies(y, x, n)
  BY DEF TakeDoes, Pushes
<1>4. \A y \in Buffs(fwdPipe'[n]) : CoveredBuff(y, p)
  BY <1>2, <1>3, CopyCovered DEF AllCovered, CoveredAt
<1>5. \A y \in Buffs(recvBuff'[n]) : y = x
  <2>1. recvBuff'[n] = <<>> \/ recvBuff'[n] = <<x>>
    BY DEF TakeDoes
  <2>2. IsBuff(x)
    BY <1>1 DEF Buffs
  <2>3. Buffs(<<>>) = {} /\ Buffs(<<x>>) = {x}
    BY <2>2, ShortPipe
  <2> QED
    BY <2>1, <2>3
<1>6. CoveredBack(n)' \/ n # p
  <2> SUFFICES ASSUME n = p, x.table \in Loop[p], Has(x, p)
               PROVE  /\ To(x, p) \in Recorded(p, x.table)'
                      /\ KeysCovered(p, x.table, From(x, p), To(x, p), x.buff.updates.keys)'
    BY <1>5 DEF CoveredBack
  <2>1. Covered(p, x.table, From(x, p), To(x, p), x.buff.updates.keys)
    BY <1>2 DEF CoveredBuff
  <2>2. From(x, p) \in Nat /\ To(x, p) \in Nat /\ From(x, p) <= To(x, p)
    BY <1>1, FlowParts
  <2>3. To(x, p) \in From(x, p) .. To(x, p)
    BY <2>2
  <2> QED
    BY <1>1, <2>1, <2>3 DEF Covered, KeysCovered, Recorded
<1>7. \A a \in Nodes : Buffs(tcp'[a]) \subseteq Buffs(tcp[a])
  BY <1>1
<1> QED
  BY <1>1, <1>2, <1>4, <1>5, <1>6, <1>7, CoverReceive

(* What is not on record any more was not needed: fewer records.           *)
LEMMA FewerCovered ==
    ASSUME NEW p \in Nodes, NEW t, NEW b,
           Range(myUpdates[p][t]) \subseteq Range(myUpdates'[p][t]) \cup {b},
           Range(myUpdates'[p][t]) \subseteq Range(myUpdates[p][t]),
           NEW low, NEW high, NEW keys
    PROVE  /\ KeysCovered(p, t, low, high, keys) => KeysCovered(p, t, low, high, keys)'
           /\ Recorded(p, t) \ Numbers(p, b) \subseteq Recorded(p, t)'
           /\ (Covered(p, t, low, high, keys) /\ Numbers(p, b) \cap (low .. high) = {})
                => Covered(p, t, low, high, keys)'
<1>1. Recorded(p, t) \ Numbers(p, b) \subseteq Recorded(p, t)'
  BY DEF Recorded
<1>2. KeysCovered(p, t, low, high, keys) => KeysCovered(p, t, low, high, keys)'
  BY DEF KeysCovered
<1> QED
  BY <1>1, <1>2 DEF Covered

(* The loop that removes own updates, at the receiver of p itself.         *)
LEMMA CoverRemove ==
    ASSUME FlowInv, NEW p \in Nodes, OrderInv(p), MyUpdatesInv(p), AllCovered(p),
           NEW x, DedupDoes(p, x), fatal'[p] = "none"
    PROVE  AllCovered(p)'
<1>1. PICK b : b = Head(myUpdates[p][x.table])
  OBVIOUS
<1>2. /\ UNCHANGED <<tcp, outBuff, peerUpdateRange, updateStore, pPc, pState, r2p>>
      /\ Buffs(recvBuff[p]) = {x} /\ recvBuff[p] = <<x>> /\ rPc[p] = "dedup"
      /\ \A a \in Nodes \ {p} : /\ fwdPipe'[a] = fwdPipe[a] /\ recvBuff'[a] = recvBuff[a]
                                /\ fatal'[a] = fatal[a]
      /\ \A t \in Tables \ {x.table} : myUpdates'[p][t] = myUpdates[p][t]
      /\ DedupFault(p, myUpdates[p][x.table], x.buff) = "none"
      /\ myUpdates'[p][x.table] = Tail(myUpdates[p][x.table])
  BY DEF DedupDoes
<1>3. /\ x.table \in Tables
      /\ Range(myUpdates[p][x.table]) = Range(myUpdates'[p][x.table]) \cup {b}
      /\ b \in Range(myUpdates[p][x.table])
  BY <1>1, <1>2, DedupRecords
<1>4. Has(x, p) /\ From(x, p) \in Int /\ To(x, p) \in Int
  <2>1. <<x>>[1] = x
    BY ShortPipe
  <2>2. Has(x, p)
    BY <1>2, <2>1, FlowParts DEF BuffersInv
  <2> QED
    BY <1>2, <2>2, FlowParts
<1>5. b \in Buffer /\ IsRecord(p, b)
  <2>1. myUpdates[p][x.table] \in Seq(Buffer)
    BY <1>3, AskedTables
  <2>2. b \in Buffer
    BY <1>3, <2>1, RangeOfQueue
  <2> QED
    BY <1>3, <2>2 DEF MyUpdatesInv
<1>6. /\ Numbers(p, b) = GetNodeRange(b, p).st .. GetNodeRange(b, p).end
      /\ GetNodeRange(b, p).st \in Int /\ GetNodeRange(b, p).end \in Int
  BY <1>5, NumbersOfRecord
<1>7. GetNodeRange(b, p).end <= To(x, p)
  <2>1. Contains(GetNodeRange(x.buff, p), GetNodeRange(b, p))
    <3>1. /\ myUpdates[p][x.table] # <<>> /\ HasNodeRange(b, p)
      BY <1>2, <1>5, DedupRecords, NumbersOfRecord
    <3> QED
      BY <1>1, <1>2, <3>1 DEF DedupFault
  <2> QED
    BY <1>4, <1>6, <2>1 DEF Contains, To
<1>8. \A low, high : (low \in Int /\ high \in Int /\ To(x, p) < low) =>
            Numbers(p, b) \cap (low .. high) = {}
  BY <1>4, <1>6, <1>7
<1>9. ASSUME NEW t \in Loop[p], NEW low \in Int, NEW high \in Int, NEW keys,
             Covered(p, t, low, high, keys), t = x.table => To(x, p) < low
      PROVE  Covered(p, t, low, high, keys)'
  <2>1. CASE t # x.table
    BY <1>2, <1>9, <2>1, SameRecords, TablesAssumption
  <2>2. CASE t = x.table
    BY <1>3, <1>8, <1>9, <2>2, FewerCovered
  <2> QED
    BY <2>1, <2>2
<1>10. ASSUME NEW y, CoveredBuff(y, p), Precedes(x, y, p),
              Has(y, p) => From(y, p) \in Int /\ To(y, p) \in Int
       PROVE  CoveredBuff(y, p)'
  BY <1>4, <1>9, <1>10 DEF CoveredBuff, Precedes
<1>11. \A a \in Nodes : CoveredAt(a, p)
  BY DEF AllCovered
<1>12. /\ \A a \in Nodes :
            /\ \A y \in Buffs(tcp[a]) \cup Buffs(outBuff[a]) \cup Buffs(fwdPipe[a]) :
                    Precedes(x, y, p)
            /\ a # p => \A y \in Buffs(recvBuff[a]) : Precedes(x, y, p)
            /\ a # p => (First(a, x.table, p) <= Merged(a, x.table, p) =>
                            To(x, p) < First(a, x.table, p))
  BY <1>2, <1>4, BehindTheRest
<1>13. \A y \in Buffs(fwdPipe'[p]) : CoveredBuff(y, p)'
  <2>1. \A y \in Buffs(fwdPipe'[p]) : y \in Buffs(fwdPipe[p]) \/ Copies(y, x, p)
    BY DEF DedupDoes, Pushes
  <2>2. \A y : Copies(y, x, p) => CoveredBuff(y, p)'
    BY DEF Copies, CoveredBuff
  <2>3. \A y \in Buffs(fwdPipe[p]) : ~Has(y, p)
    BY FlowParts DEF BuffersInv
  <2> QED
    BY <2>1, <2>2, <2>3 DEF CoveredBuff
<1>14. ASSUME NEW a \in Nodes PROVE CoveredAt(a, p)'
  <2>5. ASSUME NEW y,
               \/ y \in Buffs(tcp[a]) \cup Buffs(fwdPipe[a])
               \/ a # p /\ y \in Buffs(recvBuff[a]) \cup Buffs(outBuff[a])
        PROVE  CoveredBuff(y, p)'
    <3>1. CoveredBuff(y, p)
      BY <1>11, <2>5 DEF CoveredAt
    <3>2. Precedes(x, y, p)
      BY <1>12, <2>5
    <3>3. Has(y, p) => From(y, p) \in Int /\ To(y, p) \in Int
      BY <2>5, Comparable
    <3> QED
      BY <1>10, <3>1, <3>2, <3>3
  <2>1. \A y \in Buffs(tcp'[a]) : CoveredBuff(y, p)'
    BY <1>2, <2>5
  <2>2. \A y \in Buffs(fwdPipe'[a]) : CoveredBuff(y, p)'
    <3>1. CASE a = p
      BY <1>13, <3>1
    <3>2. CASE a # p
      BY <1>2, <2>5, <3>2
    <3> QED
      BY <3>1, <3>2
  <2>3. a # p => \A y \in Buffs(recvBuff'[a]) \cup Buffs(outBuff'[a]) : CoveredBuff(y, p)'
    BY <1>2, <2>5
  <2>4. ASSUME a # p, Alive(a)', pState'[a] = "RUN", NEW t \in Loop[p]
        PROVE  Covered(p, t, First(a, t, p), Merged(a, t, p), updateStore[a][t].keys)'
    <3>1. PICK low, high, keys : /\ low = First(a, t, p) /\ high = Merged(a, t, p)
                                 /\ keys = updateStore[a][t].keys
      OBVIOUS
    <3>2. low = First(a, t, p)' /\ high = Merged(a, t, p)' /\ keys = updateStore'[a][t].keys
      BY <1>2, <3>1 DEF First, Merged
    <3>3. low \in Int /\ high \in Int
      BY <3>1, FlowParts, TablesAssumption
    <3>4. Covered(p, t, low, high, keys)
      BY <1>2, <1>11, <2>4, <3>1 DEF CoveredAt, Alive
    <3>5. Covered(p, t, low, high, keys)'
      <4>1. CASE high < low
        <5>1. low .. high = {}
          BY <3>3, <4>1
        <5> QED
          BY <5>1 DEF Covered, KeysCovered
      <4>2. CASE low <= high
        <5>1. t = x.table => To(x, p) < low
          BY <1>12, <2>4, <3>1, <4>2
        <5> QED
          BY <1>9, <3>3, <3>4, <5>1
      <4> QED
        BY <3>3, <4>1, <4>2
    <3> QED
      BY <3>2, <3>5
  <2> QED
    BY <2>1, <2>2, <2>3, <2>4 DEF CoveredAt
<1>15. CoveredOut(p)'
  <2> SUFFICES ASSUME NEW y \in Buffs(outBuff[p]), y.table \in Loop[p], Has(y, p)
               PROVE  pPc[p] = "ack" /\ (r2p[p] # <<>> => CoveredBuff(y, p)')
    BY <1>2 DEF CoveredOut
  <2>1. pPc[p] = "ack" /\ (r2p[p] # <<>> => CoveredBuff(y, p))
    BY DEF AllCovered, CoveredOut
  <2>2. Precedes(x, y, p) /\ From(y, p) \in Int /\ To(y, p) \in Int
    BY <1>12, FlowParts
  <2> QED
    BY <1>10, <2>1, <2>2
<1>16. CoveredBack(p)'
  <2>1. CASE recvBuff'[p] = <<>>
    BY <2>1, ShortPipe DEF CoveredBack
  <2>2. ASSUME NEW z \in UpdateBufferMsg,
               recvBuff'[p] = <<z>>, z.table = x.table, z.buff.ranges = x.buff.ranges,
               z.buff.updates.keys = x.buff.updates.keys, GetNodeRange(b, p).end < To(x, p)
        PROVE  CoveredBack(p)'
    <3>1. Buffs(recvBuff'[p]) = {z}
      BY <2>2, ShortPipe DEF UpdateBufferMsg, IsBuff
    <3>2. From(z, p) = From(x, p) /\ To(z, p) = To(x, p)
      BY <2>2, SameSlots DEF From, To
    <3> SUFFICES ASSUME x.table \in Loop[p]
                 PROVE  /\ To(x, p) \in Recorded(p, x.table)'
                        /\ KeysCovered(p, x.table, From(x, p), To(x, p), x.buff.updates.keys)'
      BY <2>2, <3>1, <3>2 DEF CoveredBack
    <3>3. /\ To(x, p) \in Recorded(p, x.table)
          /\ KeysCovered(p, x.table, From(x, p), To(x, p), x.buff.updates.keys)
      BY <1>2, <1>4 DEF AllCovered, CoveredBack
    <3>4. To(x, p) \notin Numbers(p, b)
      BY <1>4, <1>6, <2>2
    <3> QED
      BY <1>3, <3>3, <3>4, FewerCovered
  <2> QED
    BY <1>1, <1>2, <2>1, <2>2 DEF DedupDoes
<1> QED
  BY <1>14, <1>15, <1>16 DEF AllCovered

(* The removal at another node keeps the ranges and the keys of p.         *)
LEMMA CoverDedup ==
    ASSUME FlowInv, NEW p \in Nodes, AllCovered(p),
           NEW n \in Nodes, n # p, NEW x, DedupDoes(n, x)
    PROVE  AllCovered(p)'
<1>1. /\ UNCHANGED <<tcp, outBuff, peerUpdateRange, updateStore, pPc, pState, r2p>>
      /\ fatal[n] = "none" /\ Buffs(recvBuff[n]) = {x}
      /\ \A a \in Nodes \ {n} : /\ fwdPipe'[a] = fwdPipe[a] /\ recvBuff'[a] = recvBuff[a]
                                /\ fatal'[a] = fatal[a]
      /\ \A t \in Tables : myUpdates'[p][t] = myUpdates[p][t]
  BY DEF DedupDoes
<1>2. CoveredBuff(x, p)
  BY <1>1 DEF AllCovered, CoveredAt
<1>3. \A y \in Buffs(fwdPipe'[n]) : y \in Buffs(fwdPipe[n]) \/ Copies(y, x, n)
  BY DEF DedupDoes, Pushes
<1>4. \A y \in Buffs(fwdPipe'[n]) : CoveredBuff(y, p)
  BY <1>2, <1>3, CopyCovered DEF AllCovered, CoveredAt
<1>5. \A y \in Buffs(recvBuff'[n]) : CoveredBuff(y, p)
  <2>1. CASE recvBuff'[n] = recvBuff[n]
    BY <1>1, <1>2, <2>1
  <2>2. CASE recvBuff'[n] = <<>>
    BY <2>2, ShortPipe
  <2>3. ASSUME NEW z \in UpdateBufferMsg,
               recvBuff'[n] = <<z>>, z.table = x.table, z.buff.ranges = x.buff.ranges,
               z.buff.updates.keys = x.buff.updates.keys
        PROVE  \A y \in Buffs(recvBuff'[n]) : CoveredBuff(y, p)
    <3>1. Buffs(recvBuff'[n]) = {z}
      BY <2>3, ShortPipe DEF UpdateBufferMsg, IsBuff
    <3>2. Has(z, p) = Has(x, p) /\ From(z, p) = From(x, p) /\ To(z, p) = To(x, p)
      BY <2>3, SameSlots DEF Has, From, To
    <3> QED
      BY <1>2, <2>3, <3>1, <3>2 DEF CoveredBuff
  <2> QED
    BY <2>1, <2>2, <2>3 DEF DedupDoes
<1>6. \A t \in Loop[p] : myUpdates'[p][t] = myUpdates[p][t]
  BY <1>1, TablesAssumption
<1> QED
  BY <1>1, <1>4, <1>5, <1>6, CoverReceive


(* Another node records own updates: nothing of p changes.                 *)
LEMMA CoverElsewhere ==
    ASSUME FlowInv, NEW p \in Nodes, AllCovered(p),
           NEW n \in Nodes, n # p, NEW m, RecordDoes(n, m)
    PROVE  AllCovered(p)'
<1>1. /\ UNCHANGED <<tcp, outBuff, fwdPipe, recvBuff, peerUpdateRange, fatal, updateStore,
                     pPc, pState>>
      /\ r2p'[p] = r2p[p]
      /\ \A t \in Tables : myUpdates'[p][t] = myUpdates[p][t]
  BY DEF RecordDoes
<1>2. \A t \in Loop[p] : myUpdates'[p][t] = myUpdates[p][t]
  BY <1>1, TablesAssumption
<1>3. ASSUME NEW a \in Nodes PROVE CoveredAt(a, p)'
  <2>1. \A t : First(a, t, p)' = First(a, t, p) /\ Merged(a, t, p)' = Merged(a, t, p)
    BY <1>1 DEF First, Merged
  <2>2. CoveredAt(a, p)
    BY DEF AllCovered
  <2> QED
    BY <1>1, <1>2, <2>1, <2>2, CoveredAtKept
<1>4. CoveredOut(p)'
  BY <1>1, <1>2, CoveredOutKept DEF AllCovered
<1>5. CoveredBack(p)'
  BY <1>1, <1>2, CoveredBackKept DEF AllCovered
<1> QED
  BY <1>3, <1>4, <1>5 DEF AllCovered

(* Every step keeps the numbers of p on record.                            *)
LEMMA RecordsKept ==
    ASSUME FlowInv, NEW p \in Nodes, OrderInv(p), OwnInv(p), MyUpdatesInv(p), RecordInv(p),
           [Next]_vars
    PROVE  RecordInv(p)'
<1>0. RecordInv(p)' <=> ((Alive(p)' /\ rState'[p] = "RUN") => AllCovered(p)')
  BY DEF RecordInv, AllCovered, CoveredAt, CoveredOut, CoveredBack
<1> SUFFICES ASSUME fatal'[p] = "none", rState'[p] = "RUN" PROVE AllCovered(p)'
  BY <1>0 DEF Alive
<1>1. ASSUME fatal[p] = "none", rState[p] = "RUN" PROVE AllCovered(p)
  BY <1>1, RecordParts DEF Alive
<1>2. CASE Idle
  <2>1. fatal[p] = "none" /\ rState[p] = "RUN"
    BY <1>2 DEF Idle, IdleAt
  <2> QED
    BY <1>1, <1>2, <2>1, CoverIdle
<1>3. ASSUME NEW n \in Nodes, FlowStepOf(n) PROVE AllCovered(p)'
  <2>1. ASSUME NEW t \in Tables, LogDoes(n, t) PROVE AllCovered(p)'
    <3>1. fatal[p] = "none" /\ rState[p] = "RUN"
      BY <2>1 DEF LogDoes
    <3> QED
      BY <1>1, <2>1, <3>1, CoverLog
  <2>2. ASSUME NEW t \in Tables, NEW x, FlushDoes(n, t, x) PROVE AllCovered(p)'
    <3>1. fatal[p] = "none" /\ rState[p] = "RUN"
      BY <2>2 DEF FlushDoes
    <3> QED
      BY <1>1, <2>2, <3>1, CoverFlush
  <2>3. ASSUME NEW x, SendDoes(n, x) PROVE AllCovered(p)'
    <3>1. fatal[p] = "none" /\ rState[p] = "RUN"
      BY <2>3 DEF SendDoes
    <3> QED
      BY <1>1, <2>3, <3>1, CoverSend
  <2>4. ASSUME NEW x, MergeDoes(n, x) PROVE AllCovered(p)'
    <3>1. fatal[p] = "none" /\ rState[p] = "RUN"
      BY <2>4 DEF MergeDoes
    <3> QED
      BY <1>1, <2>4, <3>1, CoverMerge
  <2>5. ASSUME NEW m, RecordDoes(n, m) PROVE AllCovered(p)'
    <3>1. fatal[p] = "none" /\ rState[p] = "RUN"
      BY <2>5 DEF RecordDoes
    <3> QED
      BY <1>1, <2>5, <3>1, CoverRecord, CoverElsewhere
  <2>6. ASSUME NEW u \in Nodes, NEW x, TakeDoes(n, u, x) PROVE AllCovered(p)'
    <3>1. fatal[p] = "none" /\ rState[p] = "RUN"
      BY <2>6 DEF TakeDoes
    <3> QED
      BY <1>1, <2>6, <3>1, CoverTake
  <2>7. ASSUME NEW x, DedupDoes(n, x) PROVE AllCovered(p)'
    <3>1. fatal[p] = "none" /\ rState[p] = "RUN"
      BY <2>7 DEF DedupDoes
    <3> QED
      BY <1>1, <2>7, <3>1, CoverRemove, CoverDedup
  <2> QED
    BY <1>3, <2>1, <2>2, <2>3, <2>4, <2>5, <2>6, <2>7 DEF FlowStepOf
<1> QED
  BY <1>2, <1>3, FlowEffects

-----------------------------------------------------------------------------
(* The invariant, and what it says of the runs' properties.                *)

(* Initially there is no record and nothing to cover.                      *)
LEMMA RecordsInit == Init => RecordsInv
<1> SUFFICES ASSUME Init PROVE RecordsInv
  OBVIOUS
<1>1. FlowInv
  BY FlowInit
<1>2. ASSUME NEW a \in Nodes
      PROVE  /\ tcp[a] = <<>> /\ outBuff[a] = <<>> /\ recvBuff[a] = <<>> /\ fwdPipe[a] = <<>>
             /\ p2r[a] = <<>> /\ r2p[a] = <<>> /\ fatal[a] = "none"
             /\ pPc[a] = "poll" /\ rPc[a] = "poll" /\ rState[a] = "RUN"
             /\ a \notin Batched => timer[a] = "none"
             /\ \A t \in Tables :
                /\ myUpdateRange[a][t] = Span(0, -1)
                /\ myUpdates[a][t] = <<>>
                /\ myUpdateStore[a][t].keys = {}
                /\ \A p \in Nodes : peerUpdateRange[a][t].range[p] = Span(0, -1)
  BY DEF Init, WiresInit, TimerInit, PropagatorInit, ReceiverInit, EmptyStore
<1>3. Span(0, -1).st = 0 /\ Span(0, -1).end = -1
  BY DEF Span
<1>4. \A a, p \in Nodes, t \in Tables :
        Unsent(a, t, p) = 0 /\ First(a, t, p) = 0 /\ Merged(a, t, p) = -1
  BY <1>2, <1>3 DEF Unsent, First, Merged
<1>5. \A a \in Nodes : Buffs(tcp[a]) = {} /\ Buffs(outBuff[a]) = {} /\ Buffs(recvBuff[a]) = {}
                       /\ Buffs(fwdPipe[a]) = {}
  BY <1>2, ShortPipe
<1>6. ASSUME NEW p \in Nodes PROVE OrderInv(p)
  <2>1. \A a \in Nodes : Sorted(tcp[a], p) /\ Sorted(fwdPipe[a], p)
    BY <1>2, <1>5 DEF Sorted
  <2>2. \A a \in Nodes : AtNode(a, p)
    BY <1>4, <1>5, <2>1 DEF AtNode
  <2>3. \A a, m \in Nodes : OnEdge(a, m, p)
    BY <1>4, <1>5 DEF OnEdge
  <2> QED
    BY <2>2, <2>3 DEF OrderInv, Reach
<1>7. ASSUME NEW p \in Nodes PROVE OwnInv(p)
  BY <1>2, <1>3 DEF OwnInv, HasOwnRange
<1>8. ASSUME NEW p \in Nodes PROVE MyUpdatesInv(p)
  <2>1. Range(<<>>) = {} /\ Len(<<>>) = 0
    BY DEF Range
  <2> QED
    BY <1>2, <2>1 DEF MyUpdatesInv
<1>9. ASSUME NEW p \in Nodes PROVE RecordInv(p)
  <2>1. ASSUME NEW a \in Nodes, NEW t \in Loop[p]
        PROVE  Covered(p, t, First(a, t, p), Merged(a, t, p), updateStore[a][t].keys)
    <3>1. First(a, t, p) = 0 /\ Merged(a, t, p) = -1
      BY <1>4, TablesAssumption
    <3>2. 0 .. -1 = {}
      OBVIOUS
    <3> QED
      BY <3>1, <3>2 DEF Covered, KeysCovered
  <2> QED
    BY <1>5, <2>1 DEF RecordInv
<1> QED
  BY <1>1, <1>6, <1>7, <1>8, <1>9 DEF RecordsInv

(* The invariant is inductive.                                             *)
LEMMA RecordsStep == RecordsInv /\ [Next]_vars => RecordsInv'
<1> SUFFICES ASSUME RecordsInv, [Next]_vars PROVE RecordsInv'
  OBVIOUS
<1>1. FlowInv /\ FlowInv'
  BY FlowStep DEF RecordsInv
<1>2. ASSUME NEW p \in Nodes PROVE OrderInv(p)' /\ OwnInv(p)' /\ MyUpdatesInv(p)' /\ RecordInv(p)'
  <2>1. OrderInv(p) /\ OwnInv(p) /\ MyUpdatesInv(p) /\ RecordInv(p)
    BY DEF RecordsInv
  <2> QED
    BY <1>1, <2>1, OrderStep, OwnStep, MyUpdatesStep, RecordsKept
<1> QED
  BY <1>1, <1>2 DEF RecordsInv

(* The inductive invariant of the record, for every propagation graph: a   *)
(* node's numbers are in order on its way, its receiver's queue holds one  *)
(* range per buffer sent, and wherever its numbers are, they are on        *)
(* record.                                                                 *)
THEOREM RecordsInvariant == Spec => []RecordsInv
BY RecordsInit, RecordsStep, PTL DEF Spec


(* While its receiver runs, a node's own updates leave its process only    *)
(* once the receiver has them on record, whatever the graph: the           *)
(* propagator waits for EMyUpdatesACK before it sends (propagator.cpp),    *)
(* and no receiver takes back a record whose numbers are still on the way. *)
THEOREM RecordedFirst == Spec => []RecordedBeforeSent
<1>1. ASSUME RecordsInv PROVE RecordedBeforeSent
  <2> SUFFICES ASSUME NEW n \in Nodes, Running(n), NEW t \in Loop[n],
                      NEW b \in InFlightBuffers(t)
               PROVE  Numbers(n, b) \subseteq Recorded(n, t)
    BY DEF RecordedBeforeSent, Recorded
  <2>1. FlowInv /\ RecordInv(n)
    BY <1>1 DEF RecordsInv
  <2>2. AllCovered(n)
    BY <2>1, RecordParts DEF Running
  <2>3. PICK a, x : /\ a \in Nodes /\ x \in Range(tcp[a]) \cup Range(fwdPipe[a])
                    /\ IsBuff(x) /\ x.table = t /\ x.buff = b
    BY DEF InFlightBuffers, IsBuff
  <2>4. x \in Buffs(tcp[a]) \cup Buffs(fwdPipe[a])
    <3>1. tcp[a] \in Seq(TcpMsg) /\ fwdPipe[a] \in Seq(FwdMsg)
      BY <2>1, <2>3, FlowParts DEF PipeTypes
    <3>2. DOMAIN tcp[a] = 1 .. Len(tcp[a]) /\ DOMAIN fwdPipe[a] = 1 .. Len(fwdPipe[a])
      BY <3>1
    <3> QED
      BY <2>3, <3>2 DEF Range, Buffs
  <2>5. b \in Buffer /\ Sound(b)
    BY <2>1, <2>3, <2>4, FlowParts
  <2>6. CASE Has(x, n)
    <3>1. Numbers(n, b) = From(x, n) .. To(x, n)
      BY <2>3, <2>5, <2>6, RangeOfNode DEF Has, From, To
    <3>2. CoveredBuff(x, n)
      BY <2>2, <2>3, <2>4 DEF AllCovered, CoveredAt
    <3> QED
      BY <2>3, <2>6, <3>1, <3>2 DEF CoveredBuff, Covered
  <2>7. CASE ~Has(x, n)
    <3>1. \A j \in DOMAIN b.ranges : b.ranges[j].id # n
      BY <2>3, <2>7 DEF Has, HasNodeRange
    <3> QED
      BY <3>1 DEF Numbers
  <2> QED
    BY <2>6, <2>7
<1> QED
  BY <1>1, RecordsInvariant, PTL

(* A buffer with own updates that comes to the receiver of n finds them on *)
(* record.                                                                 *)
LEMMA TakeFindsRecord ==
    ASSUME RecordsInv, LoopOnRings, NEW n \in Nodes, NEW u \in Nodes, NEW x, TakeDoes(n, u, x),
           rState[n] = "RUN", Has(x, n)
    PROVE  x.table \in hasMyUpdates[n]
<1>1. FlowInv /\ RecordInv(n) /\ MyUpdatesInv(n)
  BY DEF RecordsInv
<1>2. fatal[n] = "none" /\ Downstream[u] = n /\ x \in Buffs(tcp[u])
  BY DEF TakeDoes, Pops
<1>3. CoveredBuff(x, n)
  BY <1>1, <1>2, RecordParts DEF AllCovered, CoveredAt, Alive
<1>4. /\ x.table \in Tables /\ From(x, n) \in Nat /\ To(x, n) \in Nat
      /\ From(x, n) <= To(x, n)
  BY <1>1, <1>2, FlowParts
<1>5. Loop[n] = Tables
  <2>1. u \in Reach(n)
    BY <1>1, <1>2, FlowParts DEF PlacesInv
  <2> QED
    BY <1>2, <2>1 DEF LoopOnRings, OnRing, Fed
<1>6. From(x, n) \in Recorded(n, x.table)
  <2>1. From(x, n) \in From(x, n) .. To(x, n)
    BY <1>4
  <2> QED
    BY <1>3, <1>4, <1>5, <2>1 DEF CoveredBuff, Covered
<1>7. myUpdates[n][x.table] # <<>>
  BY <1>6, RangeOfQueue DEF Recorded, Range
<1> QED
  BY <1>1, <1>4, <1>7 DEF MyUpdatesInv

(* The loop that removes own updates finds a record that the buffer covers. *)
LEMMA DedupFindsRecord ==
    ASSUME RecordsInv, LoopOnRings, NEW n \in Nodes, NEW x, DedupDoes(n, x)
    PROVE  DedupFault(n, myUpdates[n][x.table], x.buff) \in {"none", "contains", "seq_num"}
<1> DEFINE queue == myUpdates[n][x.table]
           own == Head(queue)
<1>1. FlowInv /\ RecordInv(n) /\ MyUpdatesInv(n)
  BY DEF RecordsInv
<1>2. /\ fatal[n] = "none" /\ rPc[n] = "dedup" /\ recvBuff[n] = <<x>>
      /\ Buffs(recvBuff[n]) = {x}
  BY DEF DedupDoes
<1>3. rState[n] = "RUN"
  BY <1>1, <1>2, FlowParts DEF Phases, BackPhase
<1>4. CoveredBack(n)
  BY <1>1, <1>2, <1>3, RecordParts DEF AllCovered, Alive
<1>5. Has(x, n)
  <2>1. <<x>>[1] = x
    BY ShortPipe
  <2> QED
    BY <1>1, <1>2, <2>1, FlowParts DEF BuffersInv
<1>6. /\ x.table \in Tables /\ From(x, n) \in Nat /\ To(x, n) \in Nat
      /\ From(x, n) <= To(x, n)
  BY <1>1, <1>2, <1>5, FlowParts
<1>7. x.table \in Loop[n]
  BY <1>1, <1>2, <1>5, <1>6, FlowParts DEF PlacesInv, LoopOnRings, OnRing
<1>8. /\ To(x, n) \in Recorded(n, x.table)
      /\ KeysCovered(n, x.table, From(x, n), To(x, n), x.buff.updates.keys)
  BY <1>2, <1>4, <1>5, <1>7 DEF CoveredBack
<1>9. queue \in Seq(Buffer) /\ queue # <<>>
  BY <1>1, <1>6, <1>8, AskedTables, RangeOfQueue DEF Recorded, Range
<1>10. own \in Buffer /\ own \in Range(queue)
  BY <1>9, RangeOfQueue
<1>11. IsRecord(n, own)
  BY <1>1, <1>6, <1>10 DEF MyUpdatesInv
<1> HIDE DEF queue, own
<1>12. /\ HasNodeRange(own, n)
       /\ Numbers(n, own) = GetNodeRange(own, n).st .. GetNodeRange(own, n).end
       /\ GetNodeRange(own, n).st \in Int /\ GetNodeRange(own, n).end \in Int
       /\ GetNodeRange(own, n).st <= GetNodeRange(own, n).end
  BY <1>10, <1>11, NumbersOfRecord
<1>13. Contains(GetNodeRange(x.buff, n), GetNodeRange(own, n)) =>
            HasUpdates(x.buff, own.updates)
  <2> SUFFICES ASSUME Contains(GetNodeRange(x.buff, n), GetNodeRange(own, n))
               PROVE  own.updates.keys \subseteq x.buff.updates.keys
    BY DEF HasUpdates
  <2>1. GetNodeRange(own, n).st \in Numbers(n, own) \cap (From(x, n) .. To(x, n))
    BY <1>6, <1>12 DEF Contains, From, To
  <2> QED
    BY <1>8, <1>10, <2>1 DEF KeysCovered, queue
<1>14. DedupFault(n, queue, x.buff) \in {"none", "contains", "seq_num"}
  BY <1>9, <1>12, <1>13 DEF DedupFault, own
<1> QED
  BY <1>14 DEF queue

(* Where the tables of a ring are created with loop_, the receiver never   *)
(* looks for the record of own updates in vain: the queue is there and not *)
(* empty, its front has the node's range, and the buffer that came back    *)
(* has every key of the record (receiver.cpp: the CHECKs of the loop that  *)
(* removes own updates).                                                   *)
THEOREM RecordFound == LoopOnRings => (Spec => []RecordIsThere)
<1> SUFFICES ASSUME LoopOnRings PROVE Spec => []RecordIsThere
  OBVIOUS
<1>1. Init => RecordIsThere
  BY DEF Init, WiresInit, RecordIsThere
<1>2. ASSUME RecordsInv, RecordIsThere, [Next]_vars PROVE RecordIsThere'
  <2> DEFINE Lost == {"my_updates", "front", "found", "recv_delta"}
  <2> SUFFICES ASSUME NEW p \in Nodes PROVE fatal'[p] \notin Lost
    BY DEF RecordIsThere
  <2>1. fatal[p] \notin Lost
    BY <1>2 DEF RecordIsThere
  <2>2. CASE Idle
    BY <2>1, <2>2 DEF Idle
  <2>3. ASSUME NEW n \in Nodes, FlowStepOf(n) PROVE fatal'[p] \notin Lost
    <3>1. ASSUME NEW t \in Tables, LogDoes(n, t) PROVE fatal'[p] \notin Lost
      BY <2>1, <3>1 DEF LogDoes
    <3>2. ASSUME NEW t \in Tables, NEW x, FlushDoes(n, t, x) PROVE fatal'[p] \notin Lost
      BY <2>1, <3>2 DEF FlushDoes
    <3>3. ASSUME NEW x, SendDoes(n, x) PROVE fatal'[p] \notin Lost
      BY <2>1, <3>3 DEF SendDoes
    <3>4. ASSUME NEW x, MergeDoes(n, x) PROVE fatal'[p] \notin Lost
      BY <2>1, <3>4 DEF MergeDoes
    <3>5. ASSUME NEW m, RecordDoes(n, m) PROVE fatal'[p] \notin Lost
      BY <2>1, <3>5 DEF RecordDoes
    <3>6. ASSUME NEW u \in Nodes, NEW x, TakeDoes(n, u, x) PROVE fatal'[p] \notin Lost
      <4>1. CASE p # n
        BY <2>1, <3>6, <4>1 DEF TakeDoes
      <4>2. CASE p = n
        <5>1. (rState[n] = "RUN" /\ Has(x, n)) => x.table \in hasMyUpdates[n]
          BY <1>2, <3>6, TakeFindsRecord
        <5> QED
          BY <2>1, <3>6, <4>2, <5>1 DEF TakeDoes
      <4> QED
        BY <4>1, <4>2
    <3>7. ASSUME NEW x, DedupDoes(n, x) PROVE fatal'[p] \notin Lost
      <4>1. DedupFault(n, myUpdates[n][x.table], x.buff) \in {"none", "contains", "seq_num"}
        BY <1>2, <3>7, DedupFindsRecord
      <4> QED
        BY <2>1, <3>7, <4>1 DEF DedupDoes
    <3> QED
      BY <2>3, <3>1, <3>2, <3>3, <3>4, <3>5, <3>6, <3>7 DEF FlowStepOf
  <2> QED
    BY <1>2, <2>2, <2>3, FlowEffects DEF RecordsInv
<1> QED
  BY <1>1, <1>2, RecordsInvariant, PTL DEF Spec
=============================================================================
