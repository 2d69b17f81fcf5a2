----------------------------- MODULE TreeProofs -----------------------------
(***************************************************************************)
(* Propagation graphs without a ring, with however many nodes, tables,      *)
(* threads and updates.                                                     *)
(*                                                                          *)
(* No CHECK of a propagator or receiver fails.  And there is an account of  *)
(* each update u of each table: every step of a node moves u from one place *)
(* on its way to the next, where the count of the one goes down by what the *)
(* count of the other goes up, or drops it; so every step of the system     *)
(* leaves the account as it is, makes an update, or takes a buffer from one *)
(* node to the next.                                                        *)
(***************************************************************************)
EXTENDS RecordProofs

(* The updates of no node come back to it.                                 *)
NoRing == \A n \in Nodes : ~OnRing(n)

(* A node with no downstream receiver has nothing to send: it has no batch *)
(* interval, or nothing is written or forwarded there.                     *)
QuietSinks ==
    \A n \in Nodes :
        (~HasDownstream(n) /\ n \in Batched) => n \notin Writers /\ Forward[n] = {}

-----------------------------------------------------------------------------
(* The invariant.                                                          *)

(* The buffers of table t with numbers of p, and the last ones of these.   *)
Of(S, t, p) == {x \in S : x.table = t /\ Has(x, p)}

Ends(S, t, p) == {To(x, p) : x \in Of(S, t, p)}

(* The first numbers of p in buffers of table t each follow one of ends.   *)
Linked(S, ends, t, p) == \A x \in Of(S, t, p) : From(x, p) - 1 \in ends

(* The ends of what m has merged or is about to merge, and of what has     *)
(* been put on its way from a to m.                                        *)
MergedEnds(m, t, p) == {Merged(m, t, p)} \cup Ends(Buffs(fwdPipe[m]), t, p)

Leaving(a) == Buffs(tcp[a]) \cup Buffs(outBuff[a])

SentEnds(a, m, t, p) == MergedEnds(m, t, p) \cup Ends(Leaving(a), t, p)

(* No number of p is left out between node a and its downstream node m:    *)
(* every range continues another one.                                      *)
LinkedOn(a, m, t, p) ==
    pState[m] = "RUN" =>
        /\ Linked(Buffs(fwdPipe[m]), MergedEnds(m, t, p), t, p)
        /\ rState[m] = "RUN" =>
            /\ Linked(Leaving(a), SentEnds(a, m, t, p), t, p)
            /\ Unsent(a, t, p) - 1 \in SentEnds(a, m, t, p)

LinkInv(p) ==
    /\ \A a \in Reach(p), m \in Nodes, t \in Tables :
        (Downstream[a] = m /\ t \in Forward[m]) => LinkedOn(a, m, t, p)
    /\ \A x \in Buffs(outBuff[p]) : ~Has(x, p) => ~HasOwnRange(p, x.table)

(* A node where nobody writes has no update logs.                          *)
WriterInv(n) ==
    n \notin Writers => \A th \in Threads :
        pend[n][th] = <<>> /\ NoneIn(logPipe[n][th], "EPUpdateLog")

(* A node has not aborted, no own updates have come back to it, what its   *)
(* receiver forwards is whole and of a table to forward, and without a     *)
(* downstream receiver it sends nothing.                                   *)
TreeNode(n) ==
    /\ fatal[n] = "none" /\ rPc[n] # "dedup"
    /\ \A x \in Buffs(fwdPipe[n]) : Solid(x.buff) /\ x.table \in Forward[n]
    /\ ~HasDownstream(n) =>
        /\ pPc[n] \notin {"flush", "ack", "send"}
        /\ n \in Batched => \A t \in Tables : updateStore[n][t].keys = {}

TreeInv ==
    RecordsInv /\ \A n \in Nodes : TreeNode(n) /\ WriterInv(n) /\ LinkInv(n)

-----------------------------------------------------------------------------
(* The graph and the buffers.                                              *)

(* Of two nodes on the way of p, one is on the way of the other.           *)
LEMMA OneWay ==
    ASSUME NEW p \in Nodes, NEW a \in Reach(p), NEW b \in Reach(p)
    PROVE  a \in Reach(b) \/ b \in Reach(a)
<1> DEFINE S == {x \in Reach(p) : a \in Reach(x) \/ x \in Reach(a)}
<1>1. /\ Reach(p) \subseteq Nodes /\ p \in Reach(p) /\ a \in Nodes /\ a \in Reach(a)
      /\ \A x \in Nodes : Downstream[x] \in Nodes \cup {NoNode}
  BY Graph, GraphAssumption
<1>2. Closed(Reach(p)) /\ Closed(Reach(a))
  BY <1>1, WayOn
<1>3. ASSUME NEW x \in S, Downstream[x] \in Nodes PROVE Downstream[x] \in S
  <2>1. Downstream[x] \in Reach(p)
    BY <1>1, <1>2, <1>3, NodeIsNotNoNode DEF Closed
  <2>2. CASE x \in Reach(a)
    BY <1>1, <1>2, <1>3, <2>1, <2>2, NodeIsNotNoNode DEF Closed
  <2>3. CASE a \in Reach(x) /\ a # x
    BY <1>1, <2>1, <2>3, WayOn
  <2> QED
    BY <1>1, <2>2, <2>3
<1>4. Closed(S) /\ p \in S /\ S \in SUBSET Nodes
  BY <1>1, <1>3 DEF Closed
<1> QED
  BY <1>4, WayOn

(* Without a ring the updates of a node reach every other one on one way.  *)
LEMMA TreeStraight ==
    ASSUME NoRing, NEW p \in Nodes
    PROVE  /\ Straight(p)
           /\ \A a \in Reach(p) : Downstream[a] # p
<1>1. Reach(p) \subseteq Nodes
  BY Graph
<1>2. ASSUME NEW a \in Reach(p), NEW b \in Reach(p), Downstream[a] = Downstream[b],
             Downstream[a] \in Nodes, b \in Reach(a)
      PROVE  a = b
  <2> SUFFICES ASSUME a # b PROVE FALSE
    OBVIOUS
  <2>1. b \in Reach(Downstream[a])
    BY <1>1, <1>2, WayOn
  <2>2. OnRing(Downstream[a])
    BY <1>2, <2>1 DEF OnRing, Fed
  <2> QED
    BY <1>2, <2>2 DEF NoRing
<1>3. ASSUME NEW a \in Reach(p), NEW b \in Reach(p), Downstream[a] = Downstream[b],
             Downstream[a] \in Nodes
      PROVE  a = b
  BY <1>2, <1>3, OneWay
<1>4. \A a \in Reach(p) : Downstream[a] # p
  BY DEF NoRing, OnRing, Fed
<1> QED
  BY <1>3, <1>4 DEF Straight

(* The order of the numbers of p, without a ring.                          *)
LEMMA TreeOrder ==
    ASSUME RecordsInv, NoRing, NEW p \in Nodes
    PROVE  FlowInv /\ Ordered(p) /\ Straight(p)
BY TreeStraight DEF RecordsInv, OrderInv, Ordered

(* The iteration over the ranges of a buffer without holes shows them all. *)
LEMMA SolidShows ==
    ASSUME NEW b \in Buffer, Solid(b), NEW p \in Nodes, HasNodeRange(b, p)
    PROVE  /\ p \in {b.ranges[i].id : i \in Visited(b)}
           /\ \A n \in Nodes : ~HasNodeRange(b, n) => HasForeignRange(n, b)
<1>1. DOMAIN b.ranges = 1 .. Len(b.ranges) /\ Len(b.ranges) \in Nat
  BY BufferSlots DEF Buffer
<1>2. PICK i \in DOMAIN b.ranges : b.ranges[i].id = p
  BY DEF HasNodeRange
<1>3. i \in Visited(b)
  BY <1>2, NodeIsNotNoNode DEF Visited, Solid
<1>4. 1 \in DOMAIN b.ranges /\ 1 \in 1 .. i
  BY <1>1
<1>5. b.ranges[1].id # NoNode
  BY <1>2, <1>4, NodeIsNotNoNode DEF Solid
<1>6. 1 \in Visited(b)
  <2>1. \A j \in 1 .. 1 : j = 1
    OBVIOUS
  <2> QED
    BY <1>4, <1>5, <2>1 DEF Visited
<1>7. ASSUME NEW n \in Nodes, ~HasNodeRange(b, n) PROVE HasForeignRange(n, b)
  <2>1. b.ranges[1].id # n
    BY <1>4, <1>7 DEF HasNodeRange
  <2> QED
    BY <1>5, <1>6, <2>1 DEF HasForeignRange, NextNodeRange
<1> QED
  BY <1>2, <1>3, <1>7

-----------------------------------------------------------------------------
(* No number is left out.                                                  *)

(* Nothing of p in table t goes or comes between a and m, and a has sent   *)
(* what it had or nothing more.                                            *)
LEMMA LinkKept ==
    ASSUME NEW p, NEW a, NEW m, NEW t, LinkedOn(a, m, t, p),
           pState'[m] = "RUN" => pState[m] = "RUN",
           rState'[m] = "RUN" => rState[m] = "RUN",
           Of(Buffs(fwdPipe'[m]), t, p) = Of(Buffs(fwdPipe[m]), t, p),
           Of(Leaving(a)', t, p) = Of(Leaving(a), t, p),
           Merged(m, t, p)' = Merged(m, t, p),
           \/ Unsent(a, t, p)' = Unsent(a, t, p)
           \/ Unsent(a, t, p)' - 1 \in Ends(Leaving(a)', t, p)
    PROVE  LinkedOn(a, m, t, p)'
<1>1. MergedEnds(m, t, p)' = MergedEnds(m, t, p)
  BY DEF MergedEnds, Ends
<1>2. SentEnds(a, m, t, p)' = SentEnds(a, m, t, p)
  BY <1>1 DEF SentEnds, Ends
<1>3. Linked(Buffs(fwdPipe[m]), MergedEnds(m, t, p), t, p) =>
        Linked(Buffs(fwdPipe[m]), MergedEnds(m, t, p), t, p)'
  BY <1>1 DEF Linked
<1>4. Linked(Leaving(a), SentEnds(a, m, t, p), t, p) =>
        Linked(Leaving(a), SentEnds(a, m, t, p), t, p)'
  BY <1>2 DEF Linked
<1>5. Unsent(a, t, p) - 1 \in SentEnds(a, m, t, p) =>
        Unsent(a, t, p)' - 1 \in SentEnds(a, m, t, p)'
  <2>1. CASE Unsent(a, t, p)' = Unsent(a, t, p)
    BY <1>2, <2>1
  <2>2. CASE Unsent(a, t, p)' - 1 \in Ends(Leaving(a)', t, p)
    BY <2>2 DEF SentEnds
  <2> QED
    BY <2>1, <2>2
<1> QED
  BY <1>3, <1>4, <1>5 DEF LinkedOn

(* Node a puts the numbers it has not sent into a buffer.                  *)
LEMMA LinkPut ==
    ASSUME NEW p, NEW a, NEW m, NEW t, LinkedOn(a, m, t, p), NEW x,
           pState'[m] = pState[m], rState'[m] = rState[m],
           fwdPipe'[m] = fwdPipe[m], Merged(m, t, p)' = Merged(m, t, p),
           Of(Leaving(a)', t, p) = Of(Leaving(a), t, p) \cup {x},
           From(x, p) = Unsent(a, t, p),
           \/ Unsent(a, t, p)' = Unsent(a, t, p)
           \/ Unsent(a, t, p)' - 1 = To(x, p)
    PROVE  LinkedOn(a, m, t, p)'
<1>1. MergedEnds(m, t, p)' = MergedEnds(m, t, p)
  BY DEF MergedEnds, Ends
<1>2. /\ SentEnds(a, m, t, p) \subseteq SentEnds(a, m, t, p)'
      /\ To(x, p) \in SentEnds(a, m, t, p)'
  BY <1>1 DEF SentEnds, Ends
<1>3. Linked(Buffs(fwdPipe[m]), MergedEnds(m, t, p), t, p) =>
        Linked(Buffs(fwdPipe[m]), MergedEnds(m, t, p), t, p)'
  BY <1>1 DEF Linked
<1>4. ASSUME Linked(Leaving(a), SentEnds(a, m, t, p), t, p),
             Unsent(a, t, p) - 1 \in SentEnds(a, m, t, p)
      PROVE  /\ Linked(Leaving(a), SentEnds(a, m, t, p), t, p)'
             /\ Unsent(a, t, p)' - 1 \in SentEnds(a, m, t, p)'
  BY <1>2, <1>4 DEF Linked
<1> QED
  BY <1>3, <1>4 DEF LinkedOn

(* The buffers and numbers of p between a and its downstream node m, in    *)
(* their order.                                                            *)
LEMMA EdgeOrder ==
    ASSUME RecordsInv, NoRing, NEW p \in Nodes, NEW a \in Reach(p), NEW m \in Nodes,
           Downstream[a] = m, NEW t \in Tables
    PROVE  /\ a \in Nodes /\ m \in Reach(p) /\ m # p /\ a # m
           /\ Sorted(tcp[a], p) /\ Sorted(fwdPipe[m], p)
           /\ Merged(m, t, p) \in Int /\ Unsent(a, t, p) \in Int
           /\ \A x \in Of(Leaving(a) \cup Buffs(fwdPipe[m]), t, p) :
                From(x, p) \in Int /\ To(x, p) \in Int /\ From(x, p) <= To(x, p)
           /\ \A x \in Of(Buffs(fwdPipe[m]), t, p) :
                /\ \A y \in Of(Leaving(a), t, p) : To(x, p) < From(y, p)
                /\ To(x, p) < Unsent(a, t, p)
                /\ Merged(m, t, p) < From(x, p)
           /\ \A x \in Of(Buffs(tcp[a]), t, p) :
                /\ \A y \in Of(Buffs(outBuff[a]), t, p) : To(x, p) < From(y, p)
                /\ To(x, p) < Unsent(a, t, p)
<1>1. FlowInv /\ Ordered(p)
  BY TreeOrder
<1>2. a \in Nodes /\ m \in Reach(p) /\ m # p /\ a # m
  BY Graph, GraphAssumption, TreeStraight
<1>3. AtNode(a, p) /\ AtNode(m, p) /\ OnEdge(a, m, p)
  BY <1>1, <1>2 DEF Ordered
<1>4. /\ Merged(m, t, p) \in Int /\ Unsent(a, t, p) \in Int
      /\ \A x \in Of(Leaving(a) \cup Buffs(fwdPipe[m]), t, p) :
            From(x, p) \in Int /\ To(x, p) \in Int /\ From(x, p) <= To(x, p)
  BY <1>1, <1>2, Comparable DEF Of, Leaving
<1>5. \A x \in Of(Buffs(fwdPipe[m]), t, p) :
        /\ \A y \in Of(Leaving(a), t, p) : To(x, p) < From(y, p)
        /\ To(x, p) < Unsent(a, t, p)
        /\ Merged(m, t, p) < From(x, p)
  BY <1>3 DEF AtNode, OnEdge, Of, Leaving, Precedes
<1>6. \A x \in Of(Buffs(tcp[a]), t, p) :
        /\ \A y \in Of(Buffs(outBuff[a]), t, p) : To(x, p) < From(y, p)
        /\ To(x, p) < Unsent(a, t, p)
  BY <1>3 DEF AtNode, Of, Precedes
<1>7. Sorted(tcp[a], p) /\ Sorted(fwdPipe[m], p)
  BY <1>3 DEF AtNode
<1> QED
  BY <1>2, <1>4, <1>5, <1>6, <1>7

(* What is first in the pipe to the propagator of n continues what it has  *)
(* merged, and comes before everything else.                               *)
LEMMA MergeContinues ==
    ASSUME TreeInv, NoRing, NEW n \in Nodes, NEW x, MergeDoes(n, x), pState[n] = "RUN",
           NEW p \in Nodes, Has(x, p)
    PROVE  /\ From(x, p) = Merged(n, x.table, p) + 1
           /\ \A y \in Of(Buffs(fwdPipe'[n]), x.table, p) : To(x, p) < From(y, p)
           /\ x \in Of(Buffs(fwdPipe[n]), x.table, p)
           /\ \E a \in Reach(p) : Downstream[a] = n
<1>1. /\ RecordsInv /\ TreeNode(n) /\ LinkInv(p)
      /\ FlowInv
  BY DEF TreeInv, RecordsInv
<1>2. /\ x \in Buffs(fwdPipe[n]) /\ Buffs(fwdPipe[n]) = Buffs(fwdPipe'[n]) \cup {x}
      /\ Sorted(fwdPipe[n], p) => \A y \in Buffs(fwdPipe'[n]) : Precedes(x, y, p)
  BY DEF MergeDoes, Pops
<1>3. PICK t : t = x.table
  OBVIOUS
<1>4. t \in Tables /\ t \in Forward[n] /\ x \in Of(Buffs(fwdPipe[n]), t, p)
  BY <1>1, <1>2, <1>3, Comparable DEF TreeNode, Of
<1>5. PICK a \in Reach(p) : Downstream[a] = n
  BY <1>1, <1>2, FlowParts DEF PlacesInv, Fed
<1>6. /\ Sorted(fwdPipe[n], p) /\ Merged(n, t, p) \in Int
      /\ \A y \in Of(Buffs(fwdPipe[n]), t, p) :
            From(y, p) \in Int /\ To(y, p) \in Int /\ From(y, p) <= To(y, p)
  BY <1>1, <1>4, <1>5, EdgeOrder DEF Of
<1>7. \A y \in Of(Buffs(fwdPipe'[n]), t, p) : To(x, p) < From(y, p)
  BY <1>2, <1>3, <1>4, <1>6 DEF Of, Precedes
<1>8. From(x, p) - 1 \in MergedEnds(n, t, p)
  <2>1. LinkedOn(a, n, t, p)
    BY <1>1, <1>4, <1>5 DEF LinkInv
  <2> QED
    BY <1>4, <2>1 DEF LinkedOn, Linked
<1>9. \A y \in Of(Buffs(fwdPipe[n]), t, p) : To(y, p) # From(x, p) - 1
  <2> TAKE y \in Of(Buffs(fwdPipe[n]), t, p)
  <2>1. CASE y = x
    BY <1>4, <1>6, <2>1
  <2>2. CASE y \in Of(Buffs(fwdPipe'[n]), t, p)
    BY <1>4, <1>6, <1>7, <2>2
  <2> QED
    BY <1>2, <2>1, <2>2 DEF Of
<1>10. From(x, p) = Merged(n, t, p) + 1
  BY <1>4, <1>6, <1>8, <1>9 DEF MergedEnds, Ends
<1> QED
  BY <1>3, <1>4, <1>5, <1>7, <1>10

(* Its numbers are merged.                                                 *)
LEMMA LinkMerge ==
    ASSUME TreeInv, NoRing, NEW n \in Nodes, NEW x, MergeDoes(n, x), pState[n] = "RUN",
           NEW p \in Nodes, Has(x, p), NEW a \in Reach(p), Downstream[a] = n,
           LinkedOn(a, n, x.table, p), Merged(n, x.table, p)' = To(x, p)
    PROVE  LinkedOn(a, n, x.table, p)'
<1>1. PICK t : t = x.table
  OBVIOUS
<1>2. /\ UNCHANGED <<tcp, outBuff, myUpdateRange, pState, rState>>
      /\ Buffs(fwdPipe[n]) = Buffs(fwdPipe'[n]) \cup {x}
  BY DEF MergeDoes, Pops
<1>3. /\ From(x, p) = Merged(n, t, p) + 1
      /\ \A y \in Of(Buffs(fwdPipe'[n]), t, p) : To(x, p) < From(y, p)
      /\ x \in Of(Buffs(fwdPipe[n]), t, p)
  BY <1>1, MergeContinues
<1>4. t \in Tables /\ RecordsInv
  <2>1. FlowInv /\ x \in Buffs(fwdPipe[n])
    BY <1>3 DEF TreeInv, RecordsInv, Of
  <2> QED
    BY <1>1, <2>1, FlowParts DEF TreeInv
<1>5. a # n /\ a \in Nodes
  BY <1>4, EdgeOrder
<1>6. /\ Merged(n, t, p) \in Int /\ Unsent(a, t, p) \in Int
      /\ \A y \in Of(Leaving(a) \cup Buffs(fwdPipe[n]), t, p) :
            From(y, p) \in Int /\ To(y, p) \in Int /\ From(y, p) <= To(y, p)
      /\ \A y \in Of(Leaving(a), t, p) : To(x, p) < From(y, p)
      /\ To(x, p) < Unsent(a, t, p)
  BY <1>3, <1>4, EdgeOrder
<1>7. Unsent(a, t, p)' = Unsent(a, t, p) /\ Leaving(a)' = Leaving(a)
  BY <1>2, <1>4, <1>5 DEF MergeDoes, Unsent, First, Leaving
<1>8. From(x, p) \in Int /\ To(x, p) \in Int /\ From(x, p) <= To(x, p)
  BY <1>3, <1>6 DEF Of
<1>9. ASSUME NEW v \in MergedEnds(n, t, p), v # Merged(n, t, p) PROVE v \in MergedEnds(n, t, p)'
  <2>1. PICK y \in Of(Buffs(fwdPipe[n]), t, p) : v = To(y, p)
    BY <1>9 DEF MergedEnds, Ends
  <2>2. CASE y = x
    BY <1>1, <2>1, <2>2 DEF MergedEnds
  <2>3. CASE y # x
    <3>1. y \in Of(Buffs(fwdPipe'[n]), t, p)
      BY <1>2, <2>1, <2>3 DEF Of
    <3> QED
      BY <2>1, <3>1 DEF MergedEnds, Ends
  <2> QED
    BY <2>2, <2>3
<1>10. ASSUME NEW v \in SentEnds(a, n, t, p), v # Merged(n, t, p)
       PROVE  v \in SentEnds(a, n, t, p)'
  BY <1>7, <1>9, <1>10 DEF SentEnds, Ends
<1>11. ASSUME NEW y \in Of(Buffs(fwdPipe'[n]), t, p), From(y, p) - 1 \in MergedEnds(n, t, p)
       PROVE  From(y, p) - 1 \in MergedEnds(n, t, p)'
  <2>1. To(x, p) < From(y, p) /\ From(y, p) \in Int
    BY <1>2, <1>3, <1>6 DEF Of
  <2>2. From(y, p) - 1 # Merged(n, t, p)
    BY <1>3, <1>6, <1>8, <2>1
  <2> QED
    BY <1>9, <1>11, <2>2
<1>12. ASSUME Linked(Buffs(fwdPipe[n]), MergedEnds(n, t, p), t, p)
       PROVE  Linked(Buffs(fwdPipe[n]), MergedEnds(n, t, p), t, p)'
  <2>1. Of(Buffs(fwdPipe'[n]), t, p) \subseteq Of(Buffs(fwdPipe[n]), t, p)
    BY <1>2 DEF Of
  <2> QED
    BY <1>11, <1>12, <2>1 DEF Linked
<1>13. ASSUME NEW y \in Of(Leaving(a), t, p), From(y, p) - 1 \in SentEnds(a, n, t, p)
       PROVE  From(y, p) - 1 \in SentEnds(a, n, t, p)'
  <2>1. To(x, p) < From(y, p) /\ From(y, p) \in Int
    BY <1>6 DEF Of
  <2>2. From(y, p) - 1 # Merged(n, t, p)
    BY <1>3, <1>6, <1>8, <2>1
  <2> QED
    BY <1>10, <1>13, <2>2
<1>14. ASSUME Linked(Leaving(a), SentEnds(a, n, t, p), t, p)
       PROVE  Linked(Leaving(a), SentEnds(a, n, t, p), t, p)'
  BY <1>7, <1>13, <1>14 DEF Linked
<1>15. ASSUME Unsent(a, t, p) - 1 \in SentEnds(a, n, t, p)
       PROVE  Unsent(a, t, p)' - 1 \in SentEnds(a, n, t, p)'
  <2>1. Unsent(a, t, p) - 1 # Merged(n, t, p)
    BY <1>3, <1>6, <1>8
  <2> QED
    BY <1>7, <1>10, <1>15, <2>1
<1> QED
  BY <1>1, <1>2, <1>12, <1>14, <1>15 DEF LinkedOn

(* What the receiver of n takes without a ring: never its own updates, and *)
(* what it forwards is the buffer it took.                                 *)
LEMMA TreeTake ==
    ASSUME TreeInv, NoRing, NEW n \in Nodes, NEW u \in Nodes, NEW x, TakeDoes(n, u, x)
    PROVE  /\ Downstream[u] = n /\ x \in Buffs(tcp[u]) /\ Solid(x.buff) /\ x.buff \in Buffer
           /\ x.table \in Tables /\ ~Has(x, n)
           /\ fatal'[n] = fatal[n] /\ rPc'[n] # "dedup"
           /\ \/ /\ rState[n] # "RUN" \/ ~HasForeignRange(n, x.buff)
                 /\ fwdPipe'[n] = fwdPipe[n]
              \/ /\ x.table \notin Forward[n] /\ fwdPipe'[n] = fwdPipe[n]
              \/ \E y : /\ x.table \in Forward[n] /\ y.buff = x.buff /\ y.table = x.table
                        /\ Buffs(fwdPipe'[n]) = Buffs(fwdPipe[n]) \cup {y}
<1>1. Downstream[u] = n /\ x \in Buffs(tcp[u])
  BY DEF TakeDoes, Pops
<1>2. FlowInv
  BY DEF TreeInv, RecordsInv
<1>3. Solid(x.buff) /\ x.buff \in Buffer /\ x.table \in Tables
  BY <1>1, <1>2, FlowParts DEF BuffersInv
<1>4. ~Has(x, n)
  <2>1. Has(x, n) => u \in Reach(n)
    BY <1>1, <1>2, FlowParts DEF PlacesInv
  <2> QED
    BY <1>1, <2>1, TreeStraight
<1> QED
  BY <1>1, <1>3, <1>4 DEF TakeDoes, Copies, Pushes

(* The receiver of n forwards numbers of p.                                *)
LEMMA LinkTake ==
    ASSUME TreeInv, NoRing, NEW n \in Nodes, NEW u \in Nodes, NEW x, TakeDoes(n, u, x),
           NEW p \in Nodes, Has(x, p), u \in Reach(p), x.table \in Forward[n],
           LinkedOn(u, n, x.table, p)
    PROVE  LinkedOn(u, n, x.table, p)'
<1>1. PICK t : t = x.table
  OBVIOUS
<1>2. /\ UNCHANGED <<outBuff, peerUpdateRange, myUpdateRange, pState, rState>>
      /\ Buffs(tcp[u]) = Buffs(tcp'[u]) \cup {x}
      /\ Sorted(tcp[u], p) => \A y \in Buffs(tcp'[u]) : Precedes(x, y, p)
  BY DEF TakeDoes, Pops
<1>3. /\ Downstream[u] = n /\ x \in Buffs(tcp[u]) /\ Solid(x.buff) /\ x.buff \in Buffer
      /\ t \in Tables /\ ~Has(x, n) /\ RecordsInv
  BY <1>1, TreeTake DEF TreeInv
<1>4. HasForeignRange(n, x.buff)
  BY <1>3, SolidShows DEF Has
<1>5. Merged(n, t, p)' = Merged(n, t, p) /\ Unsent(u, t, p)' = Unsent(u, t, p)
  BY <1>2 DEF Merged, Unsent, First
<1>6. CASE rState[n] # "RUN"
  <2>1. Buffs(fwdPipe'[n]) = Buffs(fwdPipe[n])
    BY <1>6 DEF TakeDoes
  <2>2. MergedEnds(n, t, p)' = MergedEnds(n, t, p)
    BY <1>5, <2>1 DEF MergedEnds
  <2>3. Linked(Buffs(fwdPipe[n]), MergedEnds(n, t, p), t, p)' =
            Linked(Buffs(fwdPipe[n]), MergedEnds(n, t, p), t, p)
    BY <2>1, <2>2 DEF Linked
  <2> QED
    BY <1>1, <1>2, <1>6, <2>3 DEF LinkedOn
<1>7. CASE rState[n] = "RUN"
  <2>1. PICK y : /\ y.buff = x.buff /\ y.table = t
                 /\ Buffs(fwdPipe'[n]) = Buffs(fwdPipe[n]) \cup {y}
    BY <1>1, <1>4, <1>7, TreeTake
  <2>2. Has(y, p) /\ From(y, p) = From(x, p) /\ To(y, p) = To(x, p)
    BY <2>1 DEF Has, From, To
  <2>3. /\ Of(Buffs(fwdPipe'[n]), t, p) = Of(Buffs(fwdPipe[n]), t, p) \cup {y}
        /\ Of(Leaving(u), t, p) = Of(Leaving(u)', t, p) \cup {x}
        /\ x \in Of(Buffs(tcp[u]), t, p) /\ x \in Of(Leaving(u), t, p)
    BY <1>1, <1>2, <1>3, <2>1, <2>2 DEF Of, Leaving
  <2>4. MergedEnds(n, t, p)' = MergedEnds(n, t, p) \cup {To(x, p)}
    BY <1>5, <2>2, <2>3 DEF MergedEnds, Ends
  <2>5. SentEnds(u, n, t, p)' = SentEnds(u, n, t, p)
    BY <2>3, <2>4 DEF SentEnds, Ends
  <2>6. /\ \A z \in Of(Leaving(u), t, p) :
            From(z, p) \in Int /\ To(z, p) \in Int /\ From(z, p) <= To(z, p)
        /\ \A z \in Of(Buffs(outBuff[u]), t, p) : To(x, p) < From(z, p)
        /\ Sorted(tcp[u], p)
    BY <1>3, <2>3, EdgeOrder DEF Of
  <2>7. \A z \in Of(Leaving(u)', t, p) : To(x, p) < From(z, p)
    BY <1>1, <1>2, <2>3, <2>6 DEF Of, Leaving, Precedes
  <2>8. \A z \in Of(Leaving(u), t, p) : From(x, p) - 1 # To(z, p)
    <3> TAKE z \in Of(Leaving(u), t, p)
    <3>1. CASE z = x
      BY <2>3, <2>6, <3>1
    <3>2. CASE z \in Of(Leaving(u)', t, p)
      BY <2>3, <2>6, <2>7, <3>2
    <3> QED
      BY <2>3, <3>1, <3>2
  <2>9. ASSUME pState[n] = "RUN" PROVE LinkedOn(u, n, t, p)'
    <3>1. /\ Linked(Buffs(fwdPipe[n]), MergedEnds(n, t, p), t, p)
          /\ Linked(Leaving(u), SentEnds(u, n, t, p), t, p)
          /\ Unsent(u, t, p) - 1 \in SentEnds(u, n, t, p)
      BY <1>1, <1>7, <2>9 DEF LinkedOn
    <3>2. From(x, p) - 1 \in MergedEnds(n, t, p)
      <4>1. From(x, p) - 1 \in SentEnds(u, n, t, p)
        BY <2>3, <3>1 DEF Linked
      <4> QED
        BY <2>8, <4>1 DEF SentEnds, Ends
    <3>3. Linked(Buffs(fwdPipe[n]), MergedEnds(n, t, p), t, p)'
      BY <2>2, <2>3, <2>4, <3>1, <3>2 DEF Linked
    <3>4. Linked(Leaving(u), SentEnds(u, n, t, p), t, p)'
      BY <2>3, <2>5, <3>1 DEF Linked
    <3>5. Unsent(u, t, p)' - 1 \in SentEnds(u, n, t, p)'
      BY <1>5, <2>5, <3>1
    <3> QED
      BY <3>3, <3>4, <3>5 DEF LinkedOn
  <2> QED
    BY <1>1, <1>2, <2>9 DEF LinkedOn
<1> QED
  BY <1>6, <1>7

(* The ways of p that forward its updates.                                 *)
LinkedWays(p) ==
    \A a \in Reach(p), m \in Nodes, t \in Tables :
        (Downstream[a] = m /\ t \in Forward[m]) => LinkedOn(a, m, t, p)

(* What a node is about to send has all its own numbers.                   *)
WholeOut(p) == \A x \in Buffs(outBuff[p]) : ~Has(x, p) => ~HasOwnRange(p, x.table)

(* A step that moves nothing of p.                                         *)
LEMMA LinkSame ==
    ASSUME NEW p \in Nodes, LinkedWays(p),
           \A a \in Nodes :
                /\ pState'[a] = "RUN" => pState[a] = "RUN"
                /\ rState'[a] = "RUN" => rState[a] = "RUN"
                /\ Buffs(fwdPipe'[a]) = Buffs(fwdPipe[a]) /\ Buffs(tcp'[a]) = Buffs(tcp[a]),
           UNCHANGED <<outBuff, peerUpdateRange>>,
           \A t \in Tables : myUpdateRange'[p][t].st = myUpdateRange[p][t].st
    PROVE  LinkedWays(p)'
<1> SUFFICES ASSUME NEW a \in Reach(p), NEW m \in Nodes, NEW t \in Tables,
                    Downstream[a] = m, t \in Forward[m]
             PROVE  LinkedOn(a, m, t, p)'
  BY DEF LinkedWays
<1>1. a \in Nodes /\ LinkedOn(a, m, t, p)
  BY Graph DEF LinkedWays
<1>2. Leaving(a)' = Leaving(a)
  BY <1>1 DEF Leaving
<1>3. Unsent(a, t, p)' = Unsent(a, t, p) /\ Merged(m, t, p)' = Merged(m, t, p)
  BY DEF Unsent, First, Merged
<1> QED
  BY <1>1, <1>2, <1>3, LinkKept

(* The buffer made by the timer branch begins where the last one ended.    *)
LEMMA LinkFlush ==
    ASSUME TreeInv, NoRing, NEW p \in Nodes, NEW n \in Nodes, NEW s \in Tables, NEW x,
           FlushDoes(n, s, x)
    PROVE  LinkedWays(p)' /\ WholeOut(p)'
<1>1. /\ UNCHANGED <<tcp, fwdPipe, myUpdateRange, pState, rState>>
      /\ outBuff[n] = <<>> /\ outBuff'[n] = <<x>> /\ x.table = s /\ IsBuff(x)
      /\ \A a \in Nodes \ {n} : outBuff'[a] = outBuff[a]
      /\ \A a \in Nodes, t \in Tables : (a # n \/ t # s) =>
            peerUpdateRange'[a][t] = peerUpdateRange[a][t]
      /\ \A q \in Nodes : Merged(n, s, q)' = Merged(n, s, q)
  BY DEF FlushDoes
<1>2. Buffs(outBuff[n]) = {} /\ Buffs(outBuff'[n]) = {x}
  BY <1>1, ShortPipe
<1>3. FlowInv /\ LinkInv(p)
  BY DEF TreeInv, RecordsInv
<1>4. WholeOut(p)'
  <2>1. CASE p # n
    BY <1>1, <1>3, <2>1 DEF WholeOut, LinkInv, HasOwnRange
  <2>2. CASE p = n
    BY <1>1, <1>2, <2>2 DEF WholeOut, FlushDoes, HasOwnRange
  <2> QED
    BY <2>1, <2>2
<1>5. ASSUME NEW a \in Reach(p), NEW m \in Nodes, NEW t \in Tables,
             Downstream[a] = m, t \in Forward[m]
      PROVE  LinkedOn(a, m, t, p)'
  <2>1. a \in Nodes /\ LinkedOn(a, m, t, p)
    BY <1>3, <1>5, Graph DEF LinkInv
  <2>2. Merged(m, t, p)' = Merged(m, t, p)
    BY <1>1 DEF Merged
  <2>3. CASE a # n \/ t # s \/ ~Has(x, p)
    <3>1. Of(Leaving(a)', t, p) = Of(Leaving(a), t, p)
      BY <1>1, <1>2, <2>1, <2>3 DEF Of, Leaving
    <3>2. Unsent(a, t, p)' = Unsent(a, t, p)
      <4>1. CASE a # n \/ t # s
        BY <1>1, <2>1, <4>1 DEF Unsent, First
      <4>2. CASE a = n /\ t = s /\ ~Has(x, p)
        BY <1>1, <4>2 DEF Unsent, First, FlushDoes
      <4> QED
        BY <2>3, <4>1, <4>2
    <3> QED
      BY <1>1, <2>1, <2>2, <3>1, <3>2, LinkKept
  <2>4. CASE a = n /\ t = s /\ Has(x, p)
    <3>1. Of(Leaving(a)', t, p) = Of(Leaving(a), t, p) \cup {x}
      BY <1>1, <1>2, <2>4 DEF Of, Leaving
    <3>2. /\ From(x, p) = Unsent(a, t, p)
          /\ Unsent(a, t, p)' = Unsent(a, t, p) \/ Unsent(a, t, p)' - 1 = To(x, p)
      <4>1. CASE p = n
        <5>1. p \notin NewPeers(n, s)
          BY <4>1 DEF FlushDoes
        <5>2. GetNodeRange(x.buff, n) = myUpdateRange[n][s]
          BY <2>4, <4>1, <5>1 DEF FlushDoes
        <5> QED
          BY <1>1, <2>4, <4>1, <5>2 DEF Unsent, From
      <4>2. CASE p # n
        <5>1. p \in NewPeers(n, s)
          BY <2>4, <4>2 DEF FlushDoes
        <5>2. /\ From(x, p) = First(n, s, p) /\ To(x, p) = Merged(n, s, p)
              /\ First(n, s, p)' = Merged(n, s, p) + 1
          BY <5>1 DEF FlushDoes
        <5>3. Merged(n, s, p) \in Int
          BY <1>3, FlowParts
        <5> QED
          BY <2>4, <4>2, <5>2, <5>3 DEF Unsent
      <4> QED
        BY <4>1, <4>2
    <3> QED
      BY <1>1, <2>1, <2>2, <3>1, <3>2, LinkPut
  <2> QED
    BY <2>3, <2>4
<1> QED
  BY <1>4, <1>5 DEF LinkedWays

(* Sending moves a buffer and leaves no number out.                        *)
LEMMA LinkSend ==
    ASSUME TreeInv, NoRing, NEW p \in Nodes, NEW n \in Nodes, NEW x, SendDoes(n, x)
    PROVE  LinkedWays(p)' /\ WholeOut(p)'
<1>1. /\ UNCHANGED <<fwdPipe, peerUpdateRange, pState, rState>>
      /\ Buffs(outBuff[n]) = {x} /\ outBuff'[n] = <<>> /\ x.table \in Tables
      /\ \A a \in Nodes \ {n} : /\ tcp'[a] = tcp[a] /\ outBuff'[a] = outBuff[a]
                                /\ myUpdateRange'[a] = myUpdateRange[a]
      /\ \A t \in Tables \ {x.table} : myUpdateRange'[n][t] = myUpdateRange[n][t]
      /\ HasDownstream(n) => Buffs(tcp'[n]) = Buffs(tcp[n]) \cup {x}
  BY DEF SendDoes, Pushes
<1>2. Buffs(outBuff'[n]) = {}
  BY <1>1, ShortPipe
<1>3. FlowInv /\ LinkInv(p)
  BY DEF TreeInv, RecordsInv
<1>4. WholeOut(p)'
  <2>1. CASE p # n
    BY <1>1, <1>3, <2>1 DEF WholeOut, LinkInv, HasOwnRange
  <2>2. CASE p = n
    BY <1>2, <2>2 DEF WholeOut
  <2> QED
    BY <2>1, <2>2
<1>5. ASSUME NEW a \in Reach(p), NEW m \in Nodes, NEW t \in Tables,
             Downstream[a] = m, t \in Forward[m]
      PROVE  LinkedOn(a, m, t, p)'
  <2>1. a \in Nodes /\ LinkedOn(a, m, t, p)
    BY <1>3, <1>5, Graph DEF LinkInv
  <2>2. Merged(m, t, p)' = Merged(m, t, p)
    BY <1>1 DEF Merged
  <2>3. Leaving(a)' = Leaving(a)
    <3>1. HasDownstream(a)
      BY <1>5, NodeIsNotNoNode DEF HasDownstream
    <3> QED
      BY <1>1, <1>2, <2>1, <3>1 DEF Leaving
  <2>4. CASE ~(a = n /\ p = n /\ t = x.table)
    <3>1. Unsent(a, t, p)' = Unsent(a, t, p)
      BY <1>1, <2>1, <2>4 DEF Unsent, First
    <3> QED
      BY <1>1, <2>1, <2>2, <2>3, <3>1, LinkKept
  <2>5. CASE a = n /\ p = n /\ t = x.table
    <3>1. /\ myUpdateRange[n][t].st \in Int /\ myUpdateRange[n][t].end \in Int
          /\ myUpdateRange[n][t].st <= myUpdateRange[n][t].end + 1
      BY <1>3, FlowParts DEF BuffersInv
    <3>2. /\ Unsent(a, t, p) = myUpdateRange[n][t].st
          /\ Unsent(a, t, p)' = myUpdateRange[n][t].end + 1
      BY <2>5 DEF Unsent, SendDoes, Span
    <3>3. CASE Has(x, p)
      <4>1. To(x, p) = myUpdateRange[n][t].end
        BY <1>1, <1>3, <2>5, <3>3, FlowParts DEF PlacesInv, To
      <4>2. x \in Of(Leaving(a)', t, p)
        BY <1>1, <2>3, <2>5, <3>3 DEF Of, Leaving
      <4>3. Unsent(a, t, p)' - 1 = To(x, p)
        BY <3>1, <3>2, <4>1
      <4>4. Unsent(a, t, p)' - 1 \in Ends(Leaving(a)', t, p)
        BY <4>2, <4>3 DEF Ends
      <4> QED
        BY <1>1, <2>1, <2>2, <2>3, <4>4, LinkKept
    <3>4. CASE ~Has(x, p)
      <4>1. ~HasOwnRange(p, t)
        BY <1>1, <1>3, <2>5, <3>4 DEF LinkInv
      <4>2. Unsent(a, t, p)' = Unsent(a, t, p)
        BY <2>5, <3>1, <3>2, <4>1 DEF HasOwnRange
      <4> QED
        BY <1>1, <2>1, <2>2, <2>3, <4>2, LinkKept
    <3> QED
      BY <3>3, <3>4
  <2> QED
    BY <2>4, <2>5
<1> QED
  BY <1>4, <1>5 DEF LinkedWays

(* Merging the first forwarded buffer moves the end of what is merged.     *)
LEMMA LinkForwarded ==
    ASSUME TreeInv, NoRing, NEW p \in Nodes, NEW n \in Nodes, NEW x, MergeDoes(n, x)
    PROVE  LinkedWays(p)' /\ WholeOut(p)'
<1>1. /\ UNCHANGED <<tcp, outBuff, myUpdateRange, pState, rState>>
      /\ \A a \in Nodes \ {n} : fwdPipe'[a] = fwdPipe[a]
      /\ Buffs(fwdPipe[n]) = Buffs(fwdPipe'[n]) \cup {x}
      /\ \A a \in Nodes, t \in Tables :
            (a # n \/ t # x.table \/ pState[n] # "RUN") =>
                peerUpdateRange'[a][t] = peerUpdateRange[a][t]
  BY DEF MergeDoes, Pops
<1>2. FlowInv /\ LinkInv(p) /\ TreeNode(n)
  BY DEF TreeInv, RecordsInv
<1>3. WholeOut(p)'
  BY <1>1, <1>2 DEF WholeOut, LinkInv, HasOwnRange
<1>4. x.table \in Tables /\ (Has(x, p) => p \in Shown(x))
  <2>1. x \in Buffs(fwdPipe[n])
    BY <1>1
  <2>2. x.table \in Tables /\ x.buff \in Buffer /\ Solid(x.buff)
    BY <1>2, <2>1, FlowParts DEF TreeNode
  <2> QED
    BY <2>2, SolidShows DEF Has, Shown
<1>5. pState[n] = "RUN" =>
        /\ p \in Shown(x) =>
            /\ Has(x, p) /\ Merged(n, x.table, p)' = To(x, p)
            /\ First(n, x.table, p)' = IF Known(n, x.table, p)
                                       THEN First(n, x.table, p) ELSE From(x, p)
        /\ p \notin Shown(x) =>
            peerUpdateRange'[n][x.table].range[p] = peerUpdateRange[n][x.table].range[p]
  BY DEF MergeDoes
<1>6. First(n, x.table, p)' = First(n, x.table, p)
  <2>1. CASE pState[n] # "RUN"
    BY <1>1, <1>4, <2>1 DEF First
  <2>2. CASE pState[n] = "RUN" /\ (p \notin Shown(x) \/ Known(n, x.table, p))
    BY <1>5, <2>2 DEF First
  <2>3. CASE pState[n] = "RUN" /\ p \in Shown(x) /\ ~Known(n, x.table, p)
    <3>1. peerUpdateRange[n][x.table].range[p] = Span(0, -1)
      BY <1>2, <1>4, <2>3, FlowParts DEF BuffersInv, Known
    <3>2. First(n, x.table, p) = 0 /\ Merged(n, x.table, p) = -1
      BY <3>1 DEF First, Merged, Span
    <3>3. From(x, p) = Merged(n, x.table, p) + 1
      BY <1>5, <2>3, MergeContinues
    <3> QED
      BY <1>5, <2>3, <3>2, <3>3
  <2> QED
    BY <2>1, <2>2, <2>3
<1>7. ASSUME NEW a \in Reach(p), NEW m \in Nodes, NEW t \in Tables,
             Downstream[a] = m, t \in Forward[m]
      PROVE  LinkedOn(a, m, t, p)'
  <2>1. a \in Nodes /\ LinkedOn(a, m, t, p)
    BY <1>2, <1>7, Graph DEF LinkInv
  <2>2. Leaving(a)' = Leaving(a)
    BY <1>1 DEF Leaving
  <2>3. Unsent(a, t, p)' = Unsent(a, t, p)
    <3>1. CASE a = n /\ t = x.table
      BY <1>1, <1>6, <3>1 DEF Unsent
    <3>2. CASE a # n \/ t # x.table
      BY <1>1, <2>1, <3>2 DEF Unsent, First
    <3> QED
      BY <3>1, <3>2
  <2>4. CASE m = n /\ pState[n] # "RUN"
    BY <1>1, <2>4 DEF LinkedOn
  <2>5. CASE m = n /\ pState[n] = "RUN" /\ t = x.table /\ Has(x, p)
    BY <1>4, <1>5, <1>7, <2>1, <2>5, LinkMerge
  <2>6. CASE m # n \/ (pState[n] = "RUN" /\ ~(t = x.table /\ Has(x, p)))
    <3>1. Of(Buffs(fwdPipe'[m]), t, p) = Of(Buffs(fwdPipe[m]), t, p)
      BY <1>1, <2>6 DEF Of
    <3>2. Merged(m, t, p)' = Merged(m, t, p)
      BY <1>1, <1>5, <2>6 DEF Merged
    <3> QED
      BY <1>1, <2>1, <2>2, <2>3, <3>1, <3>2, LinkKept
  <2> QED
    BY <2>4, <2>5, <2>6
<1> QED
  BY <1>3, <1>7 DEF LinkedWays

(* Receiving moves a buffer from one link to the next.                     *)
LEMMA LinkReceived ==
    ASSUME TreeInv, NoRing, NEW p \in Nodes, NEW n \in Nodes, NEW u \in Nodes, NEW x,
           TakeDoes(n, u, x)
    PROVE  LinkedWays(p)' /\ WholeOut(p)'
<1>1. /\ UNCHANGED <<outBuff, myUpdateRange, peerUpdateRange, pState, rState>>
      /\ \A a \in Nodes \ {n} : fwdPipe'[a] = fwdPipe[a]
      /\ \A a \in Nodes \ {u} : tcp'[a] = tcp[a]
      /\ Buffs(tcp[u]) = Buffs(tcp'[u]) \cup {x}
  BY DEF TakeDoes, Pops
<1>2. FlowInv /\ LinkInv(p)
  BY DEF TreeInv, RecordsInv
<1>3. WholeOut(p)'
  BY <1>1, <1>2 DEF WholeOut, LinkInv, HasOwnRange
<1>4. /\ Downstream[u] = n /\ x \in Buffs(tcp[u])
      /\ \/ fwdPipe'[n] = fwdPipe[n]
         \/ \E y : /\ y.buff = x.buff /\ y.table = x.table
                   /\ Buffs(fwdPipe'[n]) = Buffs(fwdPipe[n]) \cup {y}
  <2>1. Downstream[u] = n /\ x \in Buffs(tcp[u])
    BY DEF TakeDoes, Pops
  <2>2. CASE fwdPipe'[n] = fwdPipe[n]
    BY <2>1, <2>2
  <2>3. CASE \E y : /\ x.table \in Forward[n] /\ y.buff = x.buff /\ y.table = x.table
                    /\ Buffs(fwdPipe'[n]) = Buffs(fwdPipe[n]) \cup {y}
    BY <2>1, <2>3
  <2>4. \/ fwdPipe'[n] = fwdPipe[n]
        \/ \E y : /\ x.table \in Forward[n] /\ y.buff = x.buff /\ y.table = x.table
                  /\ Buffs(fwdPipe'[n]) = Buffs(fwdPipe[n]) \cup {y}
    BY TreeTake
  <2> QED
    BY <2>2, <2>3, <2>4
<1>5. Has(x, p) => u \in Reach(p)
  BY <1>2, <1>4, FlowParts DEF PlacesInv
<1>6. ASSUME NEW a \in Reach(p), NEW m \in Nodes, NEW t \in Tables,
             Downstream[a] = m, t \in Forward[m]
      PROVE  LinkedOn(a, m, t, p)'
  <2>1. a \in Nodes /\ LinkedOn(a, m, t, p)
    BY <1>2, <1>6, Graph DEF LinkInv
  <2>2. Unsent(a, t, p)' = Unsent(a, t, p) /\ Merged(m, t, p)' = Merged(m, t, p)
    BY <1>1 DEF Unsent, First, Merged
  <2>3. CASE m = n /\ t = x.table /\ Has(x, p)
    <3>1. a = u
      BY <1>4, <1>5, <1>6, <2>3, TreeStraight DEF Straight
    <3> QED
      BY <1>5, <1>6, <2>1, <2>3, <3>1, LinkTake
  <2>4. CASE m # n \/ ~(t = x.table /\ Has(x, p))
    <3>1. Of(Buffs(fwdPipe'[m]), t, p) = Of(Buffs(fwdPipe[m]), t, p)
      <4>1. CASE m # n
        BY <1>1, <4>1
      <4>2. CASE m = n /\ ~(t = x.table /\ Has(x, p))
        BY <1>4, <4>2 DEF Of, Has
      <4> QED
        BY <2>4, <4>1, <4>2
    <3>2. Of(Leaving(a)', t, p) = Of(Leaving(a), t, p)
      <4>1. CASE a # u
        BY <1>1, <2>1, <4>1 DEF Leaving
      <4>2. CASE a = u
        BY <1>1, <1>4, <1>6, <2>4, <4>2 DEF Leaving, Of
      <4> QED
        BY <4>1, <4>2
    <3> QED
      BY <1>1, <2>1, <2>2, <3>1, <3>2, LinkKept
  <2> QED
    BY <2>3, <2>4
<1> QED
  BY <1>3, <1>6 DEF LinkedWays

(* Every step leaves no number out.                                        *)
LEMMA LinkStep ==
    ASSUME TreeInv, NoRing, NEW p \in Nodes, [Next]_vars
    PROVE  LinkInv(p)'
<1>1. FlowInv /\ LinkedWays(p) /\ WholeOut(p)
  BY DEF TreeInv, RecordsInv, LinkInv, LinkedWays, WholeOut
<1> SUFFICES LinkedWays(p)' /\ WholeOut(p)'
  BY DEF LinkInv, LinkedWays, WholeOut
<1>2. CASE Idle
  <2>1. /\ UNCHANGED <<outBuff, peerUpdateRange, myUpdateRange>>
        /\ \A a \in Nodes :
                /\ pState'[a] = "RUN" => pState[a] = "RUN"
                /\ rState'[a] = "RUN" => rState[a] = "RUN"
                /\ Buffs(fwdPipe'[a]) = Buffs(fwdPipe[a]) /\ Buffs(tcp'[a]) = Buffs(tcp[a])
    BY <1>2 DEF Idle, IdleAt, Keeps
  <2>2. LinkedWays(p)'
    BY <1>1, <2>1, LinkSame
  <2> QED
    BY <1>1, <2>1, <2>2 DEF WholeOut, HasOwnRange
<1>3. ASSUME NEW n \in Nodes, NEW t \in Tables, LogDoes(n, t)
      PROVE  LinkedWays(p)' /\ WholeOut(p)'
  <2>1. /\ UNCHANGED <<outBuff, peerUpdateRange, fwdPipe, tcp, pState, rState>>
        /\ \A s \in Tables : myUpdateRange'[p][s].st = myUpdateRange[p][s].st
        /\ p # n => \A s \in Tables : myUpdateRange'[p][s] = myUpdateRange[p][s]
    BY <1>3 DEF LogDoes
  <2>2. LinkedWays(p)'
    BY <1>1, <2>1, LinkSame
  <2>3. WholeOut(p)'
    <3>1. CASE p = n
      <4>1. outBuff[p] = <<>>
        BY <1>1, <1>3, <3>1, FlowParts DEF LogDoes, BuffersInv
      <4> QED
        BY <2>1, <4>1, ShortPipe DEF WholeOut
    <3>2. CASE p # n
      <4>1. \A x \in Buffs(outBuff[p]) : x.table \in Tables
        BY <1>1, FlowParts
      <4> QED
        BY <1>1, <2>1, <3>2, <4>1 DEF WholeOut, HasOwnRange
    <3> QED
      BY <3>1, <3>2
  <2> QED
    BY <2>2, <2>3
<1>4. ASSUME NEW n \in Nodes, NEW m, RecordDoes(n, m)
      PROVE  LinkedWays(p)' /\ WholeOut(p)'
  <2>1. UNCHANGED <<outBuff, peerUpdateRange, myUpdateRange, fwdPipe, tcp, pState, rState>>
    BY <1>4 DEF RecordDoes
  <2>2. LinkedWays(p)'
    BY <1>1, <2>1, LinkSame
  <2> QED
    BY <1>1, <2>1, <2>2 DEF WholeOut, HasOwnRange
<1>5. ASSUME NEW n \in Nodes, NEW x, DedupDoes(n, x) PROVE FALSE
  BY <1>5 DEF DedupDoes, TreeInv, TreeNode
<1>6. ASSUME NEW n \in Nodes, FlowStepOf(n) PROVE LinkedWays(p)' /\ WholeOut(p)'
  BY <1>3, <1>4, <1>5, <1>6, LinkFlush, LinkSend, LinkForwarded, LinkReceived DEF FlowStepOf
<1> QED
  BY <1>1, <1>2, <1>6, FlowEffects

-----------------------------------------------------------------------------
(* A node where nobody writes.                                             *)

(* Only writers log updates.                                               *)
LEMMA WriterStep ==
    ASSUME TypeInv, NEW p \in Nodes, WriterInv(p), [Next]_vars
    PROVE  WriterInv(p)'
<1> SUFFICES ASSUME p \notin Writers, NEW th \in Threads
             PROVE  pend'[p][th] = <<>> /\ NoneIn(logPipe'[p][th], "EPUpdateLog")
  BY DEF WriterInv
<1>1. /\ pend[p][th] = <<>> /\ NoneIn(logPipe[p][th], "EPUpdateLog")
      /\ logPipe[p][th] \in Seq(LogMsg)
      /\ logPipe \in [Nodes -> [Threads -> Seq(LogMsg)]]
      /\ pend \in [Nodes -> [Threads -> Seq(LogMsg)]]
  BY AllTypes DEF WriterInv, PipeTypes
<1>2. CASE UNCHANGED <<pend, logPipe>>
  BY <1>1, <1>2
<1>3. ASSUME NEW n \in Nodes, TimerNext(n) PROVE UNCHANGED <<pend, logPipe>>
  BY <1>3 DEF TimerNext, TimerStep, appVars, wireVars
<1>4. ASSUME NEW n \in Nodes, ReceiverNext(n) PROVE UNCHANGED <<pend, logPipe>>
  BY <1>4 DEF ReceiverNext, ReceiverStep, appVars, RecvMyUpdates, RecvERInternalTerminate,
    RecvEPRInternalTerminate, RecvUpdateBuffer, RecvTerminateACK, Dedup, ApplyUpdate, wireVars
<1>5. ASSUME NEW n \in Nodes, PropagatorNext(n)
      PROVE  pend'[p][th] = <<>> /\ NoneIn(logPipe'[p][th], "EPUpdateLog")
  <2>1. pend' = pend
    BY <1>5 DEF PropagatorNext, appVars
  <2>2. \/ logPipe' = logPipe
        \/ \E t \in Threads : /\ logPipe[n][t] # <<>>
                              /\ logPipe' = [logPipe EXCEPT ![n][t] = Tail(@)]
    BY <1>5 DEF PropagatorNext, PropagatorStep, TimerTick, FlushTable, SendBuffer, JoinTimer,
      RecvUpdateLog, RecvInternalTerminate, RecvPUpdateBuffer, RecvInternalTerminateACK,
      RecvEPRTerminate, wireVars, IsNext
  <2>3. logPipe'[p][th] = logPipe[p][th]
        \/ (logPipe[p][th] # <<>> /\ logPipe'[p][th] = Tail(logPipe[p][th]))
    <3>1. CASE logPipe' = logPipe
      BY <3>1
    <3>2. ASSUME NEW t \in Threads, logPipe[n][t] # <<>>,
                 logPipe' = [logPipe EXCEPT ![n][t] = Tail(@)]
          PROVE  logPipe'[p][th] = logPipe[p][th]
                 \/ (logPipe[p][th] # <<>> /\ logPipe'[p][th] = Tail(logPipe[p][th]))
      <4>1. CASE n = p /\ t = th
        BY <1>1, <3>2, <4>1
      <4>2. CASE n # p \/ t # th
        BY <1>1, <3>2, <4>2
      <4> QED
        BY <4>1, <4>2
    <3> QED
      BY <2>2, <3>1, <3>2
  <2> QED
    BY <1>1, <2>1, <2>3, PipeTail
<1>6. ASSUME NEW n \in Nodes, ApplicationNext(n)
      PROVE  pend'[p][th] = <<>> /\ NoneIn(logPipe'[p][th], "EPUpdateLog")
  <2>1. ASSUME NEW t \in Threads, PropagatorInc(n, t)
        PROVE  pend'[p][th] = <<>> /\ NoneIn(logPipe'[p][th], "EPUpdateLog")
    <3>1. pend'[p][th] = <<>>
      BY <1>1, <2>1 DEF PropagatorInc
    <3>2. logPipe'[p][th] = logPipe[p][th] \/ logPipe'[p][th] = logPipe[p][th] \o <<>>
      BY <1>1, <2>1 DEF PropagatorInc, Enqueue
    <3>3. logPipe[p][th] \o <<>> = logPipe[p][th]
      BY <1>1
    <3> QED
      BY <1>1, <3>1, <3>2, <3>3
  <2>2. ASSUME NEW t \in Threads, NEW table \in Tables, NEW key \in Keys, Inc(n, t, table, key)
        PROVE  pend'[p][th] = <<>> /\ NoneIn(logPipe'[p][th], "EPUpdateLog")
    <3>1. n # p /\ logPipe' = logPipe
      BY <2>2 DEF Inc, wireVars
    <3>2. \A q : [pend EXCEPT ![n][t] = q][p][th] = pend[p][th]
      BY <1>1, <3>1
    <3>3. pend'[p][th] = pend[p][th]
      BY <2>2, <3>2 DEF Inc
    <3> QED
      BY <1>1, <3>1, <3>3
  <2>3. ASSUME SignalTermPropagator(n)
        PROVE  pend'[p][th] = <<>> /\ NoneIn(logPipe'[p][th], "EPUpdateLog")
    <3>1. /\ pend' = pend
          /\ logPipe' = [logPipe EXCEPT ![n][Main] = Append(@, Msg("EPInternalTerminate"))]
      BY <2>3 DEF SignalTermPropagator
    <3>2. \/ logPipe'[p][th] = logPipe[p][th]
          \/ logPipe'[p][th] = Append(logPipe[p][th], Msg("EPInternalTerminate"))
      BY <1>1, <3>1
    <3>3. NoneIn(Append(logPipe[p][th], Msg("EPInternalTerminate")), "EPUpdateLog")
      <4>1. Msg("EPInternalTerminate") \in LogMsg
        BY DEF Msg, LogMsg
      <4>2. Msg("EPInternalTerminate").type # "EPUpdateLog"
        BY DEF Msg
      <4> QED
        BY <1>1, <4>1, <4>2, PipeAppend
    <3> QED
      BY <1>1, <3>1, <3>2, <3>3
  <2>4. CASE ~SignalTermPropagator(n)
             /\ \A t \in Threads : /\ ~PropagatorInc(n, t)
                                   /\ \A table \in Tables, key \in Keys : ~Inc(n, t, table, key)
    <3>1. UNCHANGED <<pend, logPipe>>
      BY <1>6, <2>4 DEF ApplicationNext, ApplicationStep, RegisterThr, DeregisterThr,
        ShutDownStep, SignalTermReceiver, WaitTermPropagator, WaitTermReceiver, wireVars
    <3> QED
      BY <1>1, <3>1
  <2> QED
    BY <2>1, <2>2, <2>3, <2>4
<1>7. CASE UNCHANGED vars
  BY <1>2, <1>7 DEF vars, wireVars, appVars
<1> QED
  BY <1>2, <1>3, <1>4, <1>5, <1>6, <1>7 DEF Next, Stop

-----------------------------------------------------------------------------
(* No node aborts.                                                         *)

(* A buffer that is merged continues what is known of every peer.          *)
LEMMA MergeContiguous ==
    ASSUME TreeInv, NoRing, NEW n \in Nodes, NEW x, MergeDoes(n, x), pState[n] = "RUN"
    PROVE  Contiguous(peerUpdateRange[n][x.table], x.buff)
<1>1. FlowInv /\ x \in Buffs(fwdPipe[n])
  BY DEF TreeInv, RecordsInv, MergeDoes, Pops
<1>2. x.buff \in Buffer /\ Sound(x.buff) /\ x.table \in Tables
  BY <1>1, FlowParts
<1>3. peerUpdateRange[n][x.table].known \subseteq Nodes
  BY <1>1, <1>2, FlowParts DEF DataTypes, PeerRanges
<1> SUFFICES ASSUME NEW i \in Visited(x.buff),
                    x.buff.ranges[i].id \in peerUpdateRange[n][x.table].known
             PROVE  peerUpdateRange[n][x.table].range[x.buff.ranges[i].id].end + 1
                        = x.buff.ranges[i].st
  BY DEF Contiguous
<1>4. PICK p \in Nodes : p = x.buff.ranges[i].id
  BY <1>3
<1>5. i \in DOMAIN x.buff.ranges
  BY DEF Visited
<1>6. Has(x, p) /\ From(x, p) = x.buff.ranges[i].st
  BY <1>2, <1>4, <1>5, RangeInSlot DEF Has, From
<1>7. From(x, p) = Merged(n, x.table, p) + 1
  BY <1>6, MergeContinues
<1> QED
  BY <1>4, <1>6, <1>7 DEF Merged

(* A node stays as it should be.                                           *)
LEMMA TreeNodeStep ==
    ASSUME TreeInv, NoRing, QuietSinks, RecordsInv', NEW p \in Nodes, [Next]_vars
    PROVE  TreeNode(p)'
<1> DEFINE Whole == \A x \in Buffs(fwdPipe[p]) : Solid(x.buff) /\ x.table \in Forward[p]
           Quiet == ~HasDownstream(p) =>
                        /\ pPc[p] \notin {"flush", "ack", "send"}
                        /\ p \in Batched => \A t \in Tables : updateStore[p][t].keys = {}
<1>1. /\ FlowInv /\ TreeNode(p) /\ WriterInv(p) /\ OwnInv(p)'
      /\ fatal[p] = "none" /\ rPc[p] # "dedup" /\ Whole /\ Quiet
  BY DEF TreeInv, RecordsInv, TreeNode
<1>2. /\ fatal'[p] # "my_update_range"
      /\ p \notin Batched => pPc'[p] \in {"poll", "exit"}
  BY <1>1 DEF OwnInv
<1> SUFFICES fatal'[p] = "none" /\ rPc'[p] # "dedup" /\ Whole' /\ Quiet'
  BY DEF TreeNode
<1>3. CASE Idle
  <2>1. /\ fatal'[p] = fatal[p] /\ (rPc'[p] = "dedup" <=> rPc[p] = "dedup")
        /\ Buffs(fwdPipe'[p]) = Buffs(fwdPipe[p])
        /\ \A t \in Tables : updateStore'[p][t] \in {updateStore[p][t], EmptyStore}
        /\ pPc'[p] \in {"ack", "send"} => pPc'[p] = pPc[p]
        /\ pPc'[p] = "flush" =>
                pPc[p] = "flush" \/ \E t \in Tables : updateStore[p][t].keys # {}
    BY <1>3 DEF Idle, IdleAt, Keeps
  <2>2. EmptyStore.keys = {}
    BY DEF EmptyStore
  <2>3. Quiet'
    BY <1>1, <1>2, <2>1, <2>2
  <2> QED
    BY <1>1, <2>1, <2>3
<1>4. ASSUME NEW n \in Nodes, FlowStepOf(n)
      PROVE  fatal'[p] = "none" /\ rPc'[p] # "dedup" /\ Whole' /\ Quiet'
  <2>1. ASSUME NEW t \in Tables, LogDoes(n, t),
               \E th \in Threads : IsNext(logPipe[n][th], "EPUpdateLog")
        PROVE  fatal'[p] = "none" /\ rPc'[p] # "dedup" /\ Whole' /\ Quiet'
    <3>1. /\ UNCHANGED <<fatal, rPc, fwdPipe, pPc>>
          /\ p # n => \A s \in Tables : updateStore'[p][s] = updateStore[p][s]
      BY <2>1 DEF LogDoes
    <3>2. CASE p # n
      BY <1>1, <3>1, <3>2
    <3>3. CASE p = n
      <4>1. PICK th \in Threads : IsNext(logPipe[p][th], "EPUpdateLog")
        BY <2>1, <3>3
      <4>2. logPipe[p][th] \in Seq(LogMsg)
        BY <1>1, FlowParts DEF PipeTypes
      <4>3. p \in Writers
        BY <1>1, <4>1, <4>2, PipeTail DEF WriterInv, IsNext
      <4>4. ~HasDownstream(p) => p \notin Batched
        BY <4>3 DEF QuietSinks
      <4> QED
        BY <1>1, <3>1, <4>4
    <3> QED
      BY <3>2, <3>3
  <2>2. ASSUME NEW t \in Tables, NEW x, FlushDoes(n, t, x)
        PROVE  fatal'[p] = "none" /\ rPc'[p] # "dedup" /\ Whole' /\ Quiet'
    <3>1. UNCHANGED <<rPc, fwdPipe>>
      BY <2>2 DEF FlushDoes
    <3>2. fatal'[p] = "none"
      BY <1>1, <1>2, <2>2 DEF FlushDoes
    <3>3. CASE p # n
      <4>1. pPc'[p] = pPc[p] /\ \A s \in Tables : updateStore'[p][s] = updateStore[p][s]
        BY <2>2, <3>3 DEF FlushDoes
      <4> QED
        BY <1>1, <3>1, <3>2, <4>1
    <3>4. CASE p = n
      <4>1. HasDownstream(p)
        BY <1>1, <2>2, <3>4 DEF FlushDoes
      <4> QED
        BY <1>1, <3>1, <3>2, <4>1
    <3> QED
      BY <3>3, <3>4
  <2>3. ASSUME NEW x, SendDoes(n, x)
        PROVE  fatal'[p] = "none" /\ rPc'[p] # "dedup" /\ Whole' /\ Quiet'
    <3>1. UNCHANGED <<rPc, fwdPipe, updateStore>>
      BY <2>3 DEF SendDoes
    <3>2. CASE p # n
      <4>1. pPc'[p] = pPc[p] /\ fatal'[p] = fatal[p]
        BY <2>3, <3>2 DEF SendDoes
      <4> QED
        BY <1>1, <3>1, <4>1
    <3>3. CASE p = n
      <4>1. HasDownstream(p)
        BY <1>1, <2>3, <3>3 DEF SendDoes
      <4>2. fatal'[p] = "none"
        BY <1>1, <2>3, <3>3, <4>1 DEF SendDoes
      <4> QED
        BY <1>1, <3>1, <4>1, <4>2
    <3> QED
      BY <3>2, <3>3
  <2>4. ASSUME NEW x, MergeDoes(n, x)
        PROVE  fatal'[p] = "none" /\ rPc'[p] # "dedup" /\ Whole' /\ Quiet'
    <3>1. UNCHANGED <<rPc, pPc>>
      BY <2>4 DEF MergeDoes
    <3>2. CASE p # n
      <4>1. /\ fwdPipe'[p] = fwdPipe[p] /\ fatal'[p] = fatal[p]
            /\ \A s \in Tables : updateStore'[p][s] = updateStore[p][s]
        BY <2>4, <3>2 DEF MergeDoes
      <4> QED
        BY <1>1, <3>1, <4>1
    <3>3. CASE p = n
      <4>1. x \in Buffs(fwdPipe[p]) /\ Buffs(fwdPipe'[p]) \subseteq Buffs(fwdPipe[p])
        BY <2>4, <3>3 DEF MergeDoes, Pops
      <4>2. ~HasDownstream(p) => p \notin Batched
        BY <1>1, <4>1 DEF QuietSinks
      <4>3. fatal'[p] = "none"
        <5>1. CASE pState[n] = "RUN"
          BY <1>1, <2>4, <3>3, <5>1, MergeContiguous DEF MergeDoes
        <5>2. CASE pState[n] # "RUN"
          BY <1>1, <2>4, <3>3, <5>2 DEF MergeDoes
        <5> QED
          BY <5>1, <5>2
      <4> QED
        BY <1>1, <3>1, <4>1, <4>2, <4>3
    <3> QED
      BY <3>2, <3>3
  <2>5. ASSUME NEW m, RecordDoes(n, m)
        PROVE  fatal'[p] = "none" /\ rPc'[p] # "dedup" /\ Whole' /\ Quiet'
    BY <1>1, <2>5 DEF RecordDoes
  <2>6. ASSUME NEW u \in Nodes, NEW x, TakeDoes(n, u, x)
        PROVE  fatal'[p] = "none" /\ rPc'[p] # "dedup" /\ Whole' /\ Quiet'
    <3>1. UNCHANGED <<pPc, updateStore>>
      BY <2>6 DEF TakeDoes
    <3>2. CASE p # n
      <4>1. fwdPipe'[p] = fwdPipe[p] /\ fatal'[p] = fatal[p] /\ rPc'[p] = rPc[p]
        BY <2>6, <3>2 DEF TakeDoes
      <4> QED
        BY <1>1, <3>1, <4>1
    <3>3. CASE p = n
      <4>1. /\ fatal'[p] = fatal[p] /\ rPc'[p] # "dedup" /\ Solid(x.buff)
            /\ \/ fwdPipe'[p] = fwdPipe[p]
               \/ \E y : /\ x.table \in Forward[p] /\ y.buff = x.buff /\ y.table = x.table
                         /\ Buffs(fwdPipe'[p]) = Buffs(fwdPipe[p]) \cup {y}
        BY <2>6, <3>3, TreeTake
      <4>2. Whole'
        BY <1>1, <4>1
      <4> QED
        BY <1>1, <3>1, <4>1, <4>2
    <3> QED
      BY <3>2, <3>3
  <2>7. ASSUME NEW x, DedupDoes(n, x) PROVE FALSE
    BY <2>7 DEF DedupDoes, TreeInv, TreeNode
  <2> QED
    BY <1>4, <2>1, <2>2, <2>3, <2>4, <2>5, <2>6, <2>7 DEF FlowStepOf
<1> QED
  BY <1>1, <1>3, <1>4, FlowEffects

(* Initially nothing is on its way and nobody has aborted.                 *)
LEMMA TreeInit == Init => TreeInv
<1> SUFFICES ASSUME Init PROVE TreeInv
  OBVIOUS
<1>1. RecordsInv
  BY RecordsInit
<1>2. ASSUME NEW a \in Nodes
      PROVE  /\ tcp[a] = <<>> /\ outBuff[a] = <<>> /\ fwdPipe[a] = <<>> /\ fatal[a] = "none"
             /\ pPc[a] = "poll" /\ rPc[a] = "poll"
             /\ \A th \in Threads : pend[a][th] = <<>> /\ logPipe[a][th] = <<>>
             /\ \A t \in Tables :
                /\ myUpdateRange[a][t] = Span(0, -1)
                /\ updateStore[a][t].keys = {}
                /\ \A p \in Nodes : peerUpdateRange[a][t].range[p] = Span(0, -1)
  BY DEF Init, WiresInit, PropagatorInit, ReceiverInit, ApplicationInit, EmptyStore
<1>3. Span(0, -1).st = 0 /\ Span(0, -1).end = -1
  BY DEF Span
<1>4. \A a \in Nodes : Buffs(tcp[a]) = {} /\ Buffs(outBuff[a]) = {} /\ Buffs(fwdPipe[a]) = {}
  BY <1>2, ShortPipe
<1>5. ASSUME NEW n \in Nodes PROVE TreeNode(n)
  BY <1>2, <1>4 DEF TreeNode
<1>6. ASSUME NEW n \in Nodes PROVE WriterInv(n)
  BY <1>2, PipeEmpty DEF WriterInv
<1>7. ASSUME NEW p \in Nodes PROVE LinkInv(p)
  <2>1. ASSUME NEW a \in Nodes, NEW m \in Nodes, NEW t \in Tables PROVE LinkedOn(a, m, t, p)
    <3>1. Unsent(a, t, p) = 0 /\ Merged(m, t, p) = -1
      BY <1>2, <1>3 DEF Unsent, First, Merged
    <3>2. Leaving(a) = {} /\ Buffs(fwdPipe[m]) = {}
      BY <1>4 DEF Leaving
    <3>3. 0 - 1 = -1
      OBVIOUS
    <3> QED
      BY <3>1, <3>2, <3>3 DEF LinkedOn, Linked, Of, SentEnds, MergedEnds
  <2>2. Reach(p) \subseteq Nodes
    BY Graph
  <2> QED
    BY <1>4, <2>1, <2>2 DEF LinkInv
<1> QED
  BY <1>1, <1>5, <1>6, <1>7 DEF TreeInv

(* Every step keeps the invariant.                                         *)
LEMMA TreeStep ==
    ASSUME NoRing, QuietSinks, TreeInv, [Next]_vars
    PROVE  TreeInv'
<1>1. RecordsInv /\ TypeInv
  BY DEF TreeInv, RecordsInv, FlowInv, ShutdownInv
<1>2. RecordsInv'
  BY <1>1, RecordsStep
<1>3. ASSUME NEW p \in Nodes PROVE TreeNode(p)' /\ WriterInv(p)' /\ LinkInv(p)'
  <2>1. WriterInv(p)
    BY DEF TreeInv
  <2> QED
    BY <1>1, <1>2, <2>1, TreeNodeStep, WriterStep, LinkStep
<1> QED
  BY <1>2, <1>3 DEF TreeInv

(* Where no update comes back to its node and no node has something to     *)
(* send and nobody to send it to, no process aborts: none of the CHECKs    *)
(* and assertions of propagator.cpp and receiver.cpp fails, however the    *)
(* threads of all nodes interleave and whichever of them shut down.        *)
THEOREM TreesDoNotAbort == NoRing /\ QuietSinks => (Spec => []NoAbort)
<1> SUFFICES ASSUME NoRing, QuietSinks PROVE Spec => []NoAbort
  OBVIOUS
<1>1. TreeInv /\ [Next]_vars => TreeInv'
  BY TreeStep
<1>2. TreeInv => NoAbort
  BY DEF TreeInv, TreeNode, NoAbort, Alive
<1> QED
  BY <1>1, <1>2, TreeInit, PTL DEF Spec

-----------------------------------------------------------------------------
(* Sums.  SumFunction is a recursive function over the subsets of the      *)
(* domain; what it computes follows from its equation and the fact that a  *)
(* set of subsets of a finite set has a smallest one.                      *)

Some(s) == CHOOSE x \in s : TRUE

(* g is a way to sum f over every subset of S.                            *)
Sums(f, S, g) ==
    g = [s \in SUBSET S |-> IF s = {} THEN 0 ELSE f[Some(s)] + g[s \ {Some(s)}]]

(* SumFunctionOnSet picks such a way.                                      *)
LEMMA SumDef ==
    ASSUME NEW f, NEW S
    PROVE  SumFunctionOnSet(f, S) = (CHOOSE g : Sums(f, S, g))[S]
BY DEF SumFunctionOnSet, FoldFunctionOnSet, MapThenFoldSet, Sums, Some

(* A set of subsets of a finite set has one that contains no other.       *)
LEMMA SmallestSet ==
    ASSUME NEW S, IsFiniteSet(S), NEW T \in SUBSET (SUBSET S), T # {}
    PROVE  \E s \in T : \A r \in T : (r \subseteq s) => r = s
<1>1. IsWellFoundedOn(StrictSubsetOrdering(S), SUBSET S)
  BY FS_StrictSubsetOrderingWellFounded, FS_FiniteSubsetsOfFinite
<1>2. \E x \in T : \A y \in T : ~(<<y, x>> \in StrictSubsetOrdering(S))
  BY <1>1, WFMin
<1> QED
  BY <1>2 DEF StrictSubsetOrdering

(* The element taken out of a set is one of it.                            *)
LEMMA SomeIn == \A s : s # {} => Some(s) \in s /\ s \ {Some(s)} # s
BY DEF Some

(* The equation, case by case.                                             *)
LEMMA SumsRec ==
    ASSUME NEW f, NEW S, NEW g, Sums(f, S, g)
    PROVE  /\ g[{}] = 0
           /\ \A q \in SUBSET S : q # {} => g[q] = f[Some(q)] + g[q \ {Some(q)}]
<1> DEFINE F == [s \in SUBSET S |-> IF s = {} THEN 0 ELSE f[Some(s)] + g[s \ {Some(s)}]]
<1>1. F[{}] = 0 /\ \A q \in SUBSET S : q # {} => F[q] = f[Some(q)] + g[q \ {Some(q)}]
  OBVIOUS
<1>2. g = F
  BY DEF Sums
<1> HIDE DEF F
<1> QED
  BY <1>1, <1>2

(* Two such ways agree where both are defined.                             *)
LEMMA SumsAgree ==
    ASSUME NEW f, NEW S, NEW T, IsFiniteSet(S), NEW g, NEW h, Sums(f, S, g), Sums(f, T, h),
           NEW s \in SUBSET S, s \in SUBSET T
    PROVE  g[s] = h[s]
<1> DEFINE Bad == {r \in SUBSET S : r \in SUBSET T /\ g[r] # h[r]}
<1> SUFFICES ASSUME Bad # {} PROVE FALSE
  OBVIOUS
<1>1. \E r \in Bad : \A q \in Bad : q \subseteq r => q = r
  <2>1. Bad \in SUBSET (SUBSET S)
    OBVIOUS
  <2> HIDE DEF Bad
  <2> QED
    BY <2>1, SmallestSet
<1>2. PICK r \in Bad : \A q \in Bad : q \subseteq r => q = r
  BY <1>1
<1>3. r # {}
  BY SumsRec
<1>4. r \ {Some(r)} \subseteq r /\ r \ {Some(r)} # r
  BY <1>3, SomeIn
<1>5. r \ {Some(r)} \notin Bad
  BY <1>2, <1>4
<1>6. g[r \ {Some(r)}] = h[r \ {Some(r)}]
  BY <1>4, <1>5
<1>7. g[r] = f[Some(r)] + g[r \ {Some(r)}] /\ h[r] = f[Some(r)] + h[r \ {Some(r)}]
  <2>1. r \in SUBSET S /\ r \in SUBSET T
    OBVIOUS
  <2> HIDE DEF Bad
  <2>2. g[r] = f[Some(r)] + g[r \ {Some(r)}]
    BY <1>3, <2>1, SumsRec
  <2>3. h[r] = f[Some(r)] + h[r \ {Some(r)}]
    BY <1>3, <2>1, SumsRec
  <2> QED
    BY <2>2, <2>3
<1> QED
  BY <1>6, <1>7

(* Every finite set has such a way.                                        *)
LEMMA SumsExist ==
    ASSUME NEW S, IsFiniteSet(S), NEW f \in [S -> Int]
    PROVE  \E g \in [SUBSET S -> Int] : Sums(f, S, g)
<1> DEFINE Ok(T) == \E g \in [SUBSET T -> Int] : Sums(f, T, g)
           Bad == {T \in SUBSET S : ~Ok(T)}
<1> SUFFICES ASSUME Bad # {} PROVE FALSE
  OBVIOUS
<1>0. \E r \in Bad : \A q \in Bad : q \subseteq r => q = r
  <2>1. Bad \in SUBSET (SUBSET S)
    OBVIOUS
  <2> HIDE DEF Bad
  <2> QED
    BY <2>1, SmallestSet
<1>1. PICK T \in Bad : \A q \in Bad : q \subseteq T => q = T
  BY <1>0
<1>2. \A q \in SUBSET T : q # T => Ok(q)
  BY <1>1
<1> DEFINE Way(q) == CHOOSE g \in [SUBSET q -> Int] : Sums(f, q, g)
<1>3. \A q \in SUBSET T : q # T => Way(q) \in [SUBSET q -> Int] /\ Sums(f, q, Way(q))
  BY <1>2
<1> DEFINE low == [q \in SUBSET T |-> Way(q)[q]]
<1> HIDE DEF Way, Ok
<1>4. ASSUME NEW q \in SUBSET T, q # T, q # {}
      PROVE  low[q] = f[Some(q)] + low[q \ {Some(q)}]
  <2> DEFINE r == q \ {Some(q)}
  <2>1. r \in SUBSET q /\ r # T /\ r \in SUBSET T /\ q \in SUBSET S
    BY <1>4, SomeIn
  <2>2. IsFiniteSet(q)
    BY <2>1, FS_Subset
  <2>3. Sums(f, q, Way(q)) /\ Sums(f, r, Way(r))
    BY <1>3, <1>4, <2>1
  <2>4. Way(q)[q] = f[Some(q)] + Way(q)[r]
    BY <2>3, <1>4 DEF Sums
  <2>5. Way(q)[r] = Way(r)[r]
    <3>1. r \in SUBSET q /\ r \in SUBSET r
      BY <2>1
    <3> HIDE DEF r
    <3> QED
      BY <2>2, <2>3, <3>1, SumsAgree
  <2> QED
    BY <2>1, <2>4, <2>5
<1>5. \A q \in SUBSET T : q # T => low[q] \in Int /\ (q = {} => low[q] = 0)
  <2> SUFFICES ASSUME NEW q \in SUBSET T, q # T
               PROVE  low[q] \in Int /\ (q = {} => low[q] = 0)
    OBVIOUS
  <2>1. PICK w : w = Way(q)
    OBVIOUS
  <2>2. w \in [SUBSET q -> Int] /\ Sums(f, q, w) /\ q \in SUBSET q
    BY <1>3, <2>1
  <2>3. w[q] \in Int /\ (q = {} => w[q] = 0)
    BY ONLY <2>2 DEF Sums
  <2> QED
    BY <2>1, <2>3
<1> DEFINE top == IF T = {} THEN 0 ELSE f[Some(T)] + low[T \ {Some(T)}]
           g == [q \in SUBSET T |-> IF q = T THEN top ELSE low[q]]
<1>6. T # {} => Some(T) \in S /\ T \ {Some(T)} \in SUBSET T /\ T \ {Some(T)} # T
  BY <1>1, SomeIn
<1>7. top \in Int
  <2>1. T # {} => f[Some(T)] \in Int /\ low[T \ {Some(T)}] \in Int
    BY <1>5, <1>6
  <2> HIDE DEF low
  <2> QED
    BY <2>1
<1>8. g \in [SUBSET T -> Int]
  BY <1>5, <1>7
<1>9. Sums(f, T, g)
  <2> HIDE DEF low
  <2>1. \A q \in SUBSET T : q # {} =>
            q \ {Some(q)} \in SUBSET T /\ q \ {Some(q)} # T /\ q \ {Some(q)} # q
    BY SomeIn
  <2>2. ASSUME NEW q \in SUBSET T
        PROVE  g[q] = IF q = {} THEN 0 ELSE f[Some(q)] + g[q \ {Some(q)}]
    <3>1. CASE q = {}
      BY <3>1, <1>5
    <3>2. CASE q # {} /\ q = T
      BY <3>2, <2>1
    <3>3. CASE q # {} /\ q # T
      BY <3>3, <2>1, <1>4
    <3> QED
      BY <3>1, <3>2, <3>3
  <2> HIDE DEF top
  <2> QED
    BY <2>2 DEF Sums
<1> QED
  BY <1>1, <1>8, <1>9 DEF Ok

(* Induction over the subsets of a finite set, with a set for the formula. *)
LEMMA SubsetInduction ==
    ASSUME NEW S, IsFiniteSet(S), NEW Good, {} \in Good,
           \A T \in SUBSET S : \A y \in T : T \ {y} \in Good => T \in Good
    PROVE  \A T \in SUBSET S : T \in Good
<1> DEFINE Bad == {T \in SUBSET S : T \notin Good}
<1> SUFFICES ASSUME Bad # {} PROVE FALSE
  OBVIOUS
<1>1. \E r \in Bad : \A q \in Bad : q \subseteq r => q = r
  <2>1. Bad \in SUBSET (SUBSET S)
    OBVIOUS
  <2> HIDE DEF Bad
  <2> QED
    BY <2>1, SmallestSet
<1>2. PICK r \in Bad : \A q \in Bad : q \subseteq r => q = r
  BY <1>1
<1>3. PICK y \in r : TRUE
  OBVIOUS
<1>4. r \ {y} \subseteq r /\ r \ {y} # r
  BY <1>3
<1> QED
  BY <1>2, <1>3, <1>4

(* The sum over a finite set: a number, zero or one value more.            *)
LEMMA SumRec ==
    ASSUME NEW S, IsFiniteSet(S), NEW f \in [S -> Int], NEW T \in SUBSET S
    PROVE  /\ SumFunctionOnSet(f, T) \in Int
           /\ T = {} => SumFunctionOnSet(f, T) = 0
           /\ T # {} => /\ Some(T) \in T
                        /\ SumFunctionOnSet(f, T)
                              = f[Some(T)] + SumFunctionOnSet(f, T \ {Some(T)})
<1>1. PICK g \in [SUBSET S -> Int] : Sums(f, S, g)
  BY SumsExist
<1>2. ASSUME NEW r \in SUBSET S
      PROVE  SumFunctionOnSet(f, r) = g[r]
  <2> DEFINE fr == [x \in r |-> f[x]]
  <2>1. IsFiniteSet(r)
    BY <1>2, FS_Subset
  <2>2. PICK h \in [SUBSET r -> Int] : Sums(fr, r, h)
    <3>1. fr \in [r -> Int]
      OBVIOUS
    <3> HIDE DEF fr
    <3> QED
      BY <2>1, <3>1, SumsExist
  <2>3. Sums(f, r, h)
    <3>1. \A q \in SUBSET r : q # {} => h[q] = f[Some(q)] + h[q \ {Some(q)}]
      <4>1. \A q \in SUBSET r : q # {} => h[q] = fr[Some(q)] + h[q \ {Some(q)}]
        BY <2>2, SumsRec
      <4> QED
        BY <4>1, SomeIn
    <3>2. h[{}] = 0
      BY <2>2, SumsRec
    <3> QED
      BY <3>1, <3>2 DEF Sums
  <2>4. Sums(f, r, CHOOSE c : Sums(f, r, c))
    BY <2>3
  <2>5. (CHOOSE c : Sums(f, r, c))[r] = g[r]
    BY <1>1, <2>1, <2>4, SumsAgree
  <2> QED
    BY <2>5, SumDef
<1>3. /\ g[{}] = 0
      /\ T # {} => g[T] = f[Some(T)] + g[T \ {Some(T)}]
  BY <1>1, SumsRec
<1>4. /\ SumFunctionOnSet(f, T) = g[T] /\ g[T] \in Int
      /\ SumFunctionOnSet(f, T \ {Some(T)}) = g[T \ {Some(T)}]
  BY <1>2
<1>5. T # {} => Some(T) \in T
  BY SomeIn
<1> QED
  BY <1>3, <1>4, <1>5

(* Any element may be taken out of a sum first.                            *)
LEMMA SumTake ==
    ASSUME NEW S, IsFiniteSet(S), NEW f \in [S -> Int], NEW T \in SUBSET S, NEW y \in T
    PROVE  SumFunctionOnSet(f, T) = f[y] + SumFunctionOnSet(f, T \ {y})
<1> DEFINE Sum(R) == SumFunctionOnSet(f, R)
           Good == {R \in SUBSET S : \A z \in R : Sum(R) = f[z] + Sum(R \ {z})}
<1> HIDE DEF Sum
<1>1. \A R \in SUBSET S : Sum(R) \in Int
  BY SumRec DEF Sum
<1>2. ASSUME NEW R \in SUBSET S, NEW w \in R,
             \A r \in SUBSET S : (r \subseteq R /\ r # R) => r \in Good
      PROVE  R \in Good
  <2> SUFFICES ASSUME NEW z \in R PROVE Sum(R) = f[z] + Sum(R \ {z})
    OBVIOUS
  <2> DEFINE x == Some(R)
  <2>1. x \in R /\ Sum(R) = f[x] + Sum(R \ {x})
    BY SumRec DEF Sum
  <2> HIDE DEF x
  <2>2. CASE z = x
    BY <2>1, <2>2
  <2>3. CASE z # x
    <3>1. R \ {x} \in Good /\ R \ {z} \in Good
      BY <1>2, <2>1
    <3>2. Sum(R \ {x}) = f[z] + Sum((R \ {x}) \ {z})
      BY <2>3, <3>1
    <3>3. Sum(R \ {z}) = f[x] + Sum((R \ {z}) \ {x})
      BY <2>1, <2>3, <3>1
    <3>4. (R \ {x}) \ {z} = (R \ {z}) \ {x} /\ (R \ {x}) \ {z} \in SUBSET S
      OBVIOUS
    <3>5. f[x] \in Int /\ f[z] \in Int /\ Sum((R \ {x}) \ {z}) \in Int
      BY <1>1, <2>1, <3>4
    <3>6. Sum((R \ {x}) \ {z}) = Sum((R \ {z}) \ {x})
      BY <3>4
    <3> QED
      BY <2>1, <3>2, <3>3, <3>5, <3>6
  <2> QED
    BY <2>2, <2>3
<1> DEFINE Bad == {R \in SUBSET S : R \notin Good}
<1>3. Bad = {}
  <2> SUFFICES ASSUME Bad # {} PROVE FALSE
    OBVIOUS
  <2>1. \E r \in Bad : \A q \in Bad : q \subseteq r => q = r
    <3>1. Bad \in SUBSET (SUBSET S)
      OBVIOUS
    <3> HIDE DEF Bad
    <3> QED
      BY <3>1, SmallestSet
  <2>2. PICK r \in Bad : \A q \in Bad : q \subseteq r => q = r
    BY <2>1
  <2>3. \A q \in SUBSET S : (q \subseteq r /\ q # r) => q \in Good
    BY <2>2
  <2>4. PICK w \in r : TRUE
    OBVIOUS
  <2> HIDE DEF Good
  <2> QED
    BY <1>2, <2>3, <2>4
<1>4. T \in Good
  BY <1>3
<1> QED
  BY <1>4 DEF Sum

(* The sum over a set depends only on the values there.                    *)
LEMMA SumSame ==
    ASSUME NEW S, IsFiniteSet(S), NEW f \in [S -> Int], NEW R, IsFiniteSet(R),
           NEW g \in [R -> Int], S \subseteq R, \A x \in S : f[x] = g[x]
    PROVE  SumFunctionOnSet(f, S) = SumFunctionOnSet(g, S)
<1> DEFINE Good == {T \in SUBSET S : SumFunctionOnSet(f, T) = SumFunctionOnSet(g, T)}
<1>1. {} \in Good
  BY SumRec
<1>2. ASSUME NEW T \in SUBSET S, NEW y \in T, T \ {y} \in Good
      PROVE  T \in Good
  <2>1. SumFunctionOnSet(f, T) = f[y] + SumFunctionOnSet(f, T \ {y})
    BY SumTake
  <2>2. SumFunctionOnSet(g, T) = g[y] + SumFunctionOnSet(g, T \ {y})
    <3>1. T \in SUBSET R
      OBVIOUS
    <3> QED
      BY <3>1, SumTake
  <2> QED
    BY <1>2, <2>1, <2>2
<1> HIDE DEF Good
<1>3. \A T \in SUBSET S : \A y \in T : T \ {y} \in Good => T \in Good
  BY <1>2
<1>4. \A T \in SUBSET S : T \in Good
  BY <1>1, <1>3, SubsetInduction
<1> QED
  BY <1>4 DEF Good

(* Sums add up.                                                            *)
LEMMA SumPlus ==
    ASSUME NEW S, IsFiniteSet(S), NEW f \in [S -> Int], NEW g \in [S -> Int],
           NEW h \in [S -> Int], \A x \in S : h[x] = f[x] + g[x]
    PROVE  SumFunction(h) = SumFunction(f) + SumFunction(g)
<1> DEFINE Sum(c, T) == SumFunctionOnSet(c, T)
           Good == {T \in SUBSET S : Sum(h, T) = Sum(f, T) + Sum(g, T)}
<1>1. {} \in Good
  <2>1. Sum(f, {}) = 0 /\ Sum(g, {}) = 0 /\ Sum(h, {}) = 0
    BY SumRec
  <2> HIDE DEF Sum
  <2> QED
    BY <2>1
<1>2. ASSUME NEW T \in SUBSET S, NEW y \in T, T \ {y} \in Good
      PROVE  T \in Good
  <2>1. Sum(f, T) = f[y] + Sum(f, T \ {y})
    BY SumTake
  <2>2. Sum(g, T) = g[y] + Sum(g, T \ {y})
    BY SumTake
  <2>3. Sum(h, T) = h[y] + Sum(h, T \ {y})
    BY SumTake
  <2>4. Sum(f, T \ {y}) \in Int /\ Sum(g, T \ {y}) \in Int /\ f[y] \in Int /\ g[y] \in Int
    BY SumRec
  <2>5. h[y] = f[y] + g[y] /\ Sum(h, T \ {y}) = Sum(f, T \ {y}) + Sum(g, T \ {y})
    BY <1>2
  <2> HIDE DEF Sum
  <2> QED
    BY <2>1, <2>2, <2>3, <2>4, <2>5
<1> HIDE DEF Good
<1>3. \A T \in SUBSET S : \A y \in T : T \ {y} \in Good => T \in Good
  BY <1>2
<1>4. \A T \in SUBSET S : T \in Good
  BY <1>1, <1>3, SubsetInduction
<1> QED
  BY <1>4 DEF Good, SumFunction

(* A change of one value.                                                  *)
LEMMA SumPoint ==
    ASSUME NEW S, IsFiniteSet(S), NEW f \in [S -> Int], NEW g \in [S -> Int], NEW y \in S,
           \A x \in S \ {y} : g[x] = f[x]
    PROVE  SumFunction(g) = SumFunction(f) + (g[y] - f[y])
<1> DEFINE T == S \ {y}
           fT == [x \in T |-> f[x]]
<1>1. IsFiniteSet(T) /\ T \subseteq S /\ fT \in [T -> Int]
  BY FS_Subset
<1>2. SumFunctionOnSet(fT, T) = SumFunctionOnSet(f, T)
  <2>1. \A x \in T : fT[x] = f[x]
    OBVIOUS
  <2> HIDE DEF T, fT
  <2> QED
    BY <1>1, <2>1, SumSame
<1>3. SumFunctionOnSet(fT, T) = SumFunctionOnSet(g, T)
  <2>1. \A x \in T : fT[x] = g[x]
    OBVIOUS
  <2> HIDE DEF T, fT
  <2> QED
    BY <1>1, <2>1, SumSame
<1>4. SumFunctionOnSet(f, S) = f[y] + SumFunctionOnSet(f, T)
  BY SumTake
<1>5. SumFunctionOnSet(g, S) = g[y] + SumFunctionOnSet(g, T)
  BY SumTake
<1>6. SumFunctionOnSet(f, T) \in Int /\ f[y] \in Int /\ g[y] \in Int
  BY SumRec
<1>7. SumFunction(f) = SumFunctionOnSet(f, S) /\ SumFunction(g) = SumFunctionOnSet(g, S)
  BY DEF SumFunction
<1> HIDE DEF T
<1> QED
  BY <1>2, <1>3, <1>4, <1>5, <1>6, <1>7

(* A sum of naturals: at least each of them, and zero only if all are.     *)
LEMMA SumNat ==
    ASSUME NEW S, IsFiniteSet(S), NEW f \in [S -> Nat]
    PROVE  /\ SumFunction(f) \in Nat
           /\ \A x \in S : f[x] <= SumFunction(f)
           /\ (\A x \in S : f[x] = 0) => SumFunction(f) = 0
<1> DEFINE Sum(T) == SumFunctionOnSet(f, T)
           Good == {T \in SUBSET S : /\ Sum(T) \in Nat
                                     /\ \A x \in T : f[x] <= Sum(T)
                                     /\ (\A x \in T : f[x] = 0) => Sum(T) = 0}
<1>0. f \in [S -> Int]
  OBVIOUS
<1>1. {} \in Good
  <2>1. Sum({}) = 0
    BY <1>0, SumRec
  <2> HIDE DEF Sum
  <2> QED
    BY <2>1
<1>2. ASSUME NEW T \in SUBSET S, NEW y \in T, T \ {y} \in Good
      PROVE  T \in Good
  <2>1. Sum(T) = f[y] + Sum(T \ {y})
    BY <1>0, SumTake
  <2>2. f[y] \in Nat /\ \A x \in T : x = y \/ x \in T \ {y}
    OBVIOUS
  <2>3. /\ Sum(T \ {y}) \in Nat
        /\ \A x \in T \ {y} : f[x] <= Sum(T \ {y}) /\ f[x] \in Nat
        /\ (\A x \in T \ {y} : f[x] = 0) => Sum(T \ {y}) = 0
    BY <1>2
  <2> HIDE DEF Sum
  <2>4. Sum(T) \in Nat /\ (\A x \in T : f[x] = 0) => Sum(T) = 0
    BY <2>1, <2>2, <2>3
  <2>5. ASSUME NEW x \in T PROVE f[x] <= Sum(T)
    BY <2>1, <2>2, <2>3
  <2>6. Sum(T) \in Nat
    BY <2>1, <2>2, <2>3
  <2>7. (\A x \in T : f[x] = 0) => Sum(T) = 0
    BY <2>1, <2>2, <2>3
  <2> QED
    BY <2>5, <2>6, <2>7
<1> HIDE DEF Good
<1>3. \A T \in SUBSET S : \A y \in T : T \ {y} \in Good => T \in Good
  BY <1>2
<1>4. \A T \in SUBSET S : T \in Good
  BY <1>1, <1>3, SubsetInduction
<1>5. SumFunction(f) = Sum(S)
  BY DEF SumFunction
<1> QED
  BY <1>4, <1>5 DEF Good

(* The values may be numbered differently.                                 *)
LEMMA SumReindex ==
    ASSUME NEW D, NEW E, IsFiniteSet(D), IsFiniteSet(E), NEW f \in [E -> Int],
           NEW g \in [D -> Int], NEW b \in [D -> E], \A i, j \in D : b[i] = b[j] => i = j,
           \A i \in D : g[i] = f[b[i]], NEW I, I = {b[i] : i \in D}
    PROVE  SumFunctionOnSet(g, D) = SumFunctionOnSet(f, I)
<1> DEFINE Im(T) == {b[i] : i \in T}
           Good == {T \in SUBSET D : SumFunctionOnSet(g, T) = SumFunctionOnSet(f, Im(T))}
<1>1. /\ Im({}) = {}
      /\ \A T \in SUBSET D : Im(T) \in SUBSET E
      /\ \A T \in SUBSET D : \A y \in T : b[y] \in Im(T) /\ Im(T \ {y}) = Im(T) \ {b[y]}
  OBVIOUS
<1> HIDE DEF Im
<1>2. {} \in Good
  <2>1. SumFunctionOnSet(g, {}) = 0
    BY SumRec
  <2>2. SumFunctionOnSet(f, {}) = 0
    BY SumRec
  <2> QED
    BY <1>1, <2>1, <2>2
<1>3. ASSUME NEW T \in SUBSET D, NEW y \in T, T \ {y} \in Good
      PROVE  T \in Good
  <2>1. SumFunctionOnSet(g, T) = g[y] + SumFunctionOnSet(g, T \ {y})
    BY SumTake
  <2>2. SumFunctionOnSet(f, Im(T)) = f[b[y]] + SumFunctionOnSet(f, Im(T) \ {b[y]})
    <3> DEFINE U == Im(T)
               z == b[y]
    <3>1. U \in SUBSET E /\ z \in U
      BY <1>1
    <3> HIDE DEF U, z
    <3>2. SumFunctionOnSet(f, U) = f[z] + SumFunctionOnSet(f, U \ {z})
      BY <3>1, SumTake
    <3> QED
      BY <3>2 DEF U, z
  <2> QED
    BY <1>1, <1>3, <2>1, <2>2
<1>4. \A T \in SUBSET D : \A y \in T : T \ {y} \in Good => T \in Good
  BY <1>3
<1>5. \A T \in SUBSET D : T \in Good
  <2> HIDE DEF Good
  <2> QED
    BY <1>2, <1>4, SubsetInduction
<1>6. D \in Good
  BY <1>5
<1> QED
  BY <1>6 DEF Im

(* One value taken out, the others numbered differently.                   *)
LEMMA SumBut ==
    ASSUME NEW D, NEW E, IsFiniteSet(D), IsFiniteSet(E), NEW f \in [E -> Int],
           NEW g \in [D -> Int], NEW b \in [D -> E], \A i, j \in D : b[i] = b[j] => i = j,
           \A i \in D : g[i] = f[b[i]], NEW e \in E,
           \A i \in D : b[i] # e, \A j \in E : j = e \/ \E i \in D : b[i] = j
    PROVE  SumFunction(f) = f[e] + SumFunction(g)
<1>1. PICK I : I = E \ {e}
  OBVIOUS
<1>2. I = {b[i] : i \in D}
  BY <1>1
<1>3. SumFunctionOnSet(g, D) = SumFunctionOnSet(f, I)
  BY <1>2, SumReindex
<1>4. SumFunctionOnSet(f, E) = f[e] + SumFunctionOnSet(f, I)
  BY <1>1, SumTake
<1>5. SumFunction(f) = SumFunctionOnSet(f, E) /\ SumFunction(g) = SumFunctionOnSet(g, D)
  BY DEF SumFunction
<1> QED
  BY <1>3, <1>4, <1>5

(* The first element of a sequence of numbers.                             *)
LEMMA SumFirst ==
    ASSUME NEW n \in Nat, NEW D, NEW E, D = 1 .. n, E = 1 .. n + 1,
           NEW f \in [E -> Int], NEW g \in [D -> Int], \A i \in D : g[i] = f[i + 1]
    PROVE  SumFunction(f) = f[1] + SumFunction(g)
<1>1. IsFiniteSet(D) /\ IsFiniteSet(E) /\ 1 \in E
  BY FS_Interval
<1>2. PICK b : b = [i \in D |-> i + 1]
  OBVIOUS
<1>3. /\ b \in [D -> E] /\ \A i, j \in D : b[i] = b[j] => i = j
      /\ \A i \in D : g[i] = f[b[i]] /\ b[i] # 1
  BY <1>2
<1>4. \A j \in E : j = 1 \/ \E i \in D : b[i] = j
  <2> SUFFICES ASSUME NEW j \in E, j # 1 PROVE j - 1 \in D /\ b[j - 1] = j
    OBVIOUS
  <2> QED
    BY <1>2
<1> QED
  BY ONLY <1>1, <1>3, <1>4, SumBut, f \in [E -> Int], g \in [D -> Int]

(* The last one.                                                           *)
LEMMA SumLast ==
    ASSUME NEW n \in Nat, NEW D, NEW E, D = 1 .. n, E = 1 .. n + 1,
           NEW f \in [E -> Int], NEW g \in [D -> Int], \A i \in D : g[i] = f[i]
    PROVE  SumFunction(f) = f[n + 1] + SumFunction(g)
<1>1. IsFiniteSet(D) /\ IsFiniteSet(E) /\ n + 1 \in E
  BY FS_Interval
<1>2. PICK b : b = [i \in D |-> i]
  OBVIOUS
<1>3. /\ b \in [D -> E] /\ \A i, j \in D : b[i] = b[j] => i = j
      /\ \A i \in D : g[i] = f[b[i]] /\ b[i] # n + 1
  BY <1>2
<1>4. \A j \in E : j = n + 1 \/ \E i \in D : b[i] = j
  BY <1>2
<1> QED
  BY ONLY <1>1, <1>3, <1>4, SumBut, f \in [E -> Int], g \in [D -> Int]

-----------------------------------------------------------------------------
(* Counting.  Without a ring nothing is ever subtracted, and all values    *)
(* are natural numbers, those of the keys that are not present zero.       *)

NatStore(s) ==
    /\ s \in Store
    /\ \A k \in AllKeys, u \in Updates : s.val[k][u] \in Nat
    /\ \A k \in AllKeys \ s.keys : s.val[k] = Zero

NatMsg(m) ==
    /\ m.type = "EPUpdateLog" => \A u \in Updates : m.delta[u] \in Nat
    /\ IsBuff(m) => NatStore(m.buff.updates)

NatPipe(q) == \A i \in 1 .. Len(q) : NatMsg(q[i])

(* There are finitely many keys, the truncated ones included.              *)
LEMMA FiniteKeys == IsFiniteSet(AllKeys)
<1>1. IsFiniteSet(Keys)
  BY FiniteAssumption
<1>2. IsFiniteSet({NarrowKey(k) : k \in Keys})
  <2> DEFINE T == {NarrowKey(k) : k \in Keys}
             f == [k \in Keys |-> NarrowKey(k)]
  <2>1. f \in Surjection(Keys, T)
    BY DEF Surjection
  <2> HIDE DEF f, T
  <2>2. IsFiniteSet(T)
    BY <1>1, <2>1, FS_Surjection
  <2> QED
    BY <2>2 DEF T
<1> QED
  BY <1>1, <1>2, FS_Union DEF AllKeys

(* The number of times an update is in a store.                            *)
LEMMA StoreCount ==
    ASSUME NEW s, NatStore(s), NEW u \in Updates
    PROVE  /\ InStore(s, u) \in Nat
           /\ \A k \in AllKeys : s.val[k][u] \in Nat /\ s.val[k][u] <= InStore(s, u)
           /\ (\A k \in AllKeys : s.val[k][u] = 0) => InStore(s, u) = 0
<1> DEFINE f == [k \in AllKeys |-> s.val[k][u]]
<1>1. f \in [AllKeys -> Nat] /\ \A k \in AllKeys : f[k] = s.val[k][u]
  BY DEF NatStore
<1> HIDE DEF f
<1>2. /\ SumFunction(f) \in Nat
      /\ \A k \in AllKeys : f[k] <= SumFunction(f)
      /\ (\A k \in AllKeys : f[k] = 0) => SumFunction(f) = 0
  BY <1>1, FiniteKeys, SumNat
<1>3. InStore(s, u) = SumFunction(f)
  BY DEF InStore, f
<1> QED
  BY <1>1, <1>2, <1>3

(* An empty store.                                                         *)
LEMMA EmptyCount ==
    NatStore(EmptyStore) /\ \A u \in Updates : InStore(EmptyStore, u) = 0
<1>1. \A k \in AllKeys, u \in Updates : EmptyStore.val[k][u] = 0
  BY DEF EmptyStore, Zero
<1>2. NatStore(EmptyStore)
  BY <1>1, EmptyStoreType DEF NatStore, EmptyStore
<1> QED
  BY <1>1, <1>2, StoreCount

(* Adding one delta.                                                       *)
LEMMA AddCount ==
    ASSUME NEW s, NatStore(s), NEW k \in AllKeys, NEW d \in Value,
           \A u \in Updates : d[u] \in Nat
    PROVE  /\ NatStore(AddUpdate(s, k, d))
           /\ \A u \in Updates : InStore(AddUpdate(s, k, d), u) = InStore(s, u) + d[u]
<1> DEFINE r == AddUpdate(s, k, d)
<1>1. r \in Store /\ s \in Store
  BY AddUpdateType DEF NatStore
<1>2. \A l \in AllKeys, u \in Updates :
        r.val[l][u] = IF l = k THEN s.val[l][u] + d[u] ELSE s.val[l][u]
  <2>1. s.val \in [AllKeys -> Value]
    BY <1>1 DEF Store
  <2> QED
    BY <2>1 DEF AddUpdate, VAdd, Value
<1>3. NatStore(r)
  <2>1. \A l \in AllKeys \ r.keys : r.val[l] = Zero
    BY <1>1 DEF NatStore, AddUpdate, Store
  <2> QED
    BY <1>1, <1>2, <2>1 DEF NatStore
<1>4. ASSUME NEW u \in Updates PROVE InStore(r, u) = InStore(s, u) + d[u]
  <2> DEFINE f == [l \in AllKeys |-> s.val[l][u]]
             g == [l \in AllKeys |-> r.val[l][u]]
  <2> HIDE DEF r
  <2>1. f \in [AllKeys -> Int] /\ g \in [AllKeys -> Int] /\ d[u] \in Nat
    BY <1>3 DEF NatStore
  <2>2. /\ \A l \in AllKeys \ {k} : g[l] = f[l]
        /\ g[k] = f[k] + d[u] /\ f[k] \in Int
    BY <1>2, <2>1
  <2>3. InStore(s, u) = SumFunction(f) /\ InStore(r, u) = SumFunction(g)
    BY DEF InStore
  <2> HIDE DEF f, g
  <2>4. SumFunction(g) = SumFunction(f) + (g[k] - f[k])
    BY <2>1, <2>2, FiniteKeys, SumPoint
  <2>5. g[k] - f[k] = d[u]
    BY <2>1, <2>2
  <2> QED
    BY <2>3, <2>4, <2>5
<1> QED
  BY <1>3, <1>4

(* Adding a store.                                                         *)
LEMMA AddAllCount ==
    ASSUME NEW s, NatStore(s), NEW d, NatStore(d)
    PROVE  /\ NatStore(AddUpdates(s, d))
           /\ \A k \in AllKeys, u \in Updates :
                AddUpdates(s, d).val[k][u] = s.val[k][u] + d.val[k][u]
           /\ \A u \in Updates : InStore(AddUpdates(s, d), u) = InStore(s, u) + InStore(d, u)
<1> DEFINE r == AddUpdates(s, d)
<1>1. r \in Store
  BY AddUpdatesType DEF NatStore
<1>2. \A k \in AllKeys, u \in Updates : r.val[k][u] = s.val[k][u] + d.val[k][u]
  BY DEF AddUpdates, VAdd
<1>3. NatStore(r)
  <2>1. VAdd(Zero, Zero) = Zero
    BY DEF VAdd, Zero
  <2>2. \A k \in AllKeys \ r.keys : r.val[k] = Zero
    BY <2>1 DEF NatStore, AddUpdates
  <2> QED
    BY <1>1, <1>2, <2>2 DEF NatStore
<1>4. ASSUME NEW u \in Updates PROVE InStore(r, u) = InStore(s, u) + InStore(d, u)
  <2> DEFINE f == [k \in AllKeys |-> s.val[k][u]]
             g == [k \in AllKeys |-> d.val[k][u]]
             h == [k \in AllKeys |-> r.val[k][u]]
  <2> HIDE DEF r
  <2>1. f \in [AllKeys -> Int] /\ g \in [AllKeys -> Int] /\ h \in [AllKeys -> Int]
    BY <1>3 DEF NatStore
  <2>2. \A k \in AllKeys : h[k] = f[k] + g[k]
    BY <1>2
  <2>3. /\ InStore(s, u) = SumFunction(f) /\ InStore(d, u) = SumFunction(g)
        /\ InStore(r, u) = SumFunction(h)
    BY DEF InStore
  <2> HIDE DEF f, g, h
  <2> QED
    BY <2>1, <2>2, <2>3, FiniteKeys, SumPlus
<1> QED
  BY <1>2, <1>3, <1>4

(* The number of times an update is in a message: only the three kinds     *)
(* that carry updates have any.                                            *)
LEMMA MessageCount ==
    ASSUME NEW m, NatMsg(m), NEW t, NEW u \in Updates
    PROVE  /\ InMessage(m, t, u) \in Nat
           /\ m.type = "EPUpdateLog" =>
                InMessage(m, t, u) = IF m.table = t THEN m.delta[u] ELSE 0
           /\ IsBuff(m) =>
                InMessage(m, t, u) = IF m.table = t THEN InStore(m.buff.updates, u) ELSE 0
           /\ (m.type # "EPUpdateLog" /\ ~IsBuff(m)) => InMessage(m, t, u) = 0
<1>1. CASE m.type = "EPUpdateLog"
  <2>1. InMessage(m, t, u) = IF m.table = t THEN m.delta[u] ELSE 0
    BY <1>1 DEF InMessage
  <2>2. m.delta[u] \in Nat /\ ~IsBuff(m)
    BY <1>1 DEF NatMsg, IsBuff
  <2> QED
    BY <1>1, <2>1, <2>2
<1>2. CASE IsBuff(m)
  <2>1. m.type # "EPUpdateLog" /\ m.type \in {"EPUpdateBuffer", "EPRUpdateBuffer"}
    BY <1>2 DEF IsBuff
  <2>2. InMessage(m, t, u) = IF m.table = t THEN InStore(m.buff.updates, u) ELSE 0
    BY <2>1 DEF InMessage
  <2>3. InStore(m.buff.updates, u) \in Nat
    BY <1>2, StoreCount DEF NatMsg
  <2> QED
    BY <1>2, <2>1, <2>2, <2>3
<1>3. CASE m.type # "EPUpdateLog" /\ ~IsBuff(m)
  <2>1. m.type \notin {"EPUpdateBuffer", "EPRUpdateBuffer"}
    BY <1>3 DEF IsBuff
  <2>2. InMessage(m, t, u) = 0
    BY <1>3, <2>1 DEF InMessage
  <2> QED
    BY <1>3, <2>2
<1> QED
  BY <1>1, <1>2, <1>3

(* The number of times an update is in a pipe.                             *)
LEMMA PipeCount ==
    ASSUME NEW S, NEW q \in Seq(S), NatPipe(q), NEW t, NEW u \in Updates
    PROVE  /\ InPipe(q, t, u) \in Nat
           /\ \A i \in 1 .. Len(q) : InMessage(q[i], t, u) <= InPipe(q, t, u)
           /\ (\A i \in 1 .. Len(q) : InMessage(q[i], t, u) = 0) => InPipe(q, t, u) = 0
<1> DEFINE f == [i \in DOMAIN q |-> InMessage(q[i], t, u)]
<1>1. DOMAIN q = 1 .. Len(q) /\ Len(q) \in Nat
  OBVIOUS
<1>2. \A i \in DOMAIN q : InMessage(q[i], t, u) \in Nat
  BY <1>1, MessageCount DEF NatPipe
<1>3. f \in [DOMAIN q -> Nat] /\ IsFiniteSet(DOMAIN q)
  BY <1>1, <1>2, FS_Interval
<1>4. InPipe(q, t, u) = SumFunction(f) /\ \A i \in DOMAIN q : f[i] = InMessage(q[i], t, u)
  BY DEF InPipe
<1> HIDE DEF f
<1>5. /\ SumFunction(f) \in Nat
      /\ \A i \in DOMAIN q : f[i] <= SumFunction(f)
      /\ (\A i \in DOMAIN q : f[i] = 0) => SumFunction(f) = 0
  BY <1>3, SumNat
<1> QED
  BY <1>1, <1>4, <1>5

(* The first and the last message of a pipe.                               *)
LEMMA PipeSums ==
    ASSUME NEW n \in Nat, NEW D, NEW E, D = 1 .. n, E = 1 .. n + 1,
           NEW q, NEW r, DOMAIN q = E, DOMAIN r = D, \A i \in E : NatMsg(q[i]),
           NEW t, NEW u \in Updates
    PROVE  /\ (\A i \in D : r[i] = q[i + 1]) =>
                InPipe(q, t, u) = InMessage(q[1], t, u) + InPipe(r, t, u)
           /\ (\A i \in D : r[i] = q[i]) =>
                InPipe(q, t, u) = InMessage(q[n + 1], t, u) + InPipe(r, t, u)
<1> SUFFICES ASSUME (\A i \in D : r[i] = q[i + 1]) \/ (\A i \in D : r[i] = q[i])
             PROVE  /\ (\A i \in D : r[i] = q[i + 1]) =>
                         InPipe(q, t, u) = InMessage(q[1], t, u) + InPipe(r, t, u)
                    /\ (\A i \in D : r[i] = q[i]) =>
                         InPipe(q, t, u) = InMessage(q[n + 1], t, u) + InPipe(r, t, u)
  OBVIOUS
<1>1. PICK f, g : /\ f = [i \in E |-> InMessage(q[i], t, u)]
                  /\ g = [i \in D |-> InMessage(r[i], t, u)]
  OBVIOUS
<1>2. \A i \in E : InMessage(q[i], t, u) \in Int
  BY MessageCount
<1>3. 1 \in E /\ n + 1 \in E /\ \A i \in D : i \in E /\ i + 1 \in E
  OBVIOUS
<1>4. f \in [E -> Int] /\ g \in [D -> Int]
  BY <1>1, <1>2, <1>3
<1>5. /\ f[1] = InMessage(q[1], t, u) /\ f[n + 1] = InMessage(q[n + 1], t, u)
      /\ (\A i \in D : r[i] = q[i + 1]) => \A i \in D : g[i] = f[i + 1]
      /\ (\A i \in D : r[i] = q[i]) => \A i \in D : g[i] = f[i]
  BY <1>1, <1>3
<1>6. InPipe(q, t, u) = SumFunction(f) /\ InPipe(r, t, u) = SumFunction(g)
  BY <1>1 DEF InPipe
<1>7. /\ (\A i \in D : g[i] = f[i + 1]) => SumFunction(f) = f[1] + SumFunction(g)
      /\ (\A i \in D : g[i] = f[i]) => SumFunction(f) = f[n + 1] + SumFunction(g)
  <2>1. ASSUME \A i \in D : g[i] = f[i + 1] PROVE SumFunction(f) = f[1] + SumFunction(g)
    BY ONLY n \in Nat, D = 1 .. n, E = 1 .. n + 1, <1>4, <2>1, SumFirst, SMTT(30)
  <2>2. ASSUME \A i \in D : g[i] = f[i] PROVE SumFunction(f) = f[n + 1] + SumFunction(g)
    BY ONLY n \in Nat, D = 1 .. n, E = 1 .. n + 1, <1>4, <2>2, SumLast
  <2> QED
    BY <2>1, <2>2
<1> QED
  BY <1>5, <1>6, <1>7

(* Receiving and sending one message.                                      *)
LEMMA PipeMoves ==
    ASSUME NEW S, NEW q \in Seq(S), NatPipe(q)
    PROVE  /\ q # <<>> =>
                /\ Tail(q) \in Seq(S) /\ NatPipe(Tail(q)) /\ NatMsg(Head(q))
                /\ \A t, u : u \in Updates =>
                    InPipe(q, t, u) = InMessage(Head(q), t, u) + InPipe(Tail(q), t, u)
           /\ \A m \in S : NatMsg(m) =>
                /\ Append(q, m) \in Seq(S) /\ NatPipe(Append(q, m))
                /\ \A t, u : u \in Updates =>
                    InPipe(Append(q, m), t, u) = InMessage(m, t, u) + InPipe(q, t, u)
<1>1. ASSUME q # <<>>
      PROVE  /\ Tail(q) \in Seq(S) /\ NatPipe(Tail(q)) /\ NatMsg(Head(q))
             /\ \A t, u : u \in Updates =>
                    InPipe(q, t, u) = InMessage(Head(q), t, u) + InPipe(Tail(q), t, u)
  <2>1. PICK r : r = Tail(q)
    OBVIOUS
  <2>2. PICK n \in Nat : n = Len(q) - 1
    BY <1>1
  <2>3. PICK D, E : D = 1 .. n /\ E = 1 .. n + 1
    OBVIOUS
  <2>4. /\ DOMAIN q = E /\ DOMAIN r = D /\ Head(q) = q[1] /\ r \in Seq(S)
        /\ Len(r) = n /\ Len(q) = n + 1 /\ \A i \in D : r[i] = q[i + 1]
    BY <1>1, <2>1, <2>2, <2>3
  <2>5. \A i \in E : NatMsg(q[i])
    BY <2>3, <2>4 DEF NatPipe
  <2>6. NatPipe(r) /\ NatMsg(q[1])
    <3>1. 1 \in E /\ \A i \in D : i + 1 \in E
      BY <2>3
    <3> QED
      BY <2>3, <2>4, <2>5, <3>1 DEF NatPipe
  <2>7. ASSUME NEW t, NEW u \in Updates
        PROVE  InPipe(q, t, u) = InMessage(q[1], t, u) + InPipe(r, t, u)
    BY ONLY n \in Nat, u \in Updates, <2>3, <2>4, <2>5, PipeSums
  <2> QED
    BY <2>1, <2>4, <2>6, <2>7
<1>2. ASSUME NEW m \in S, NatMsg(m)
      PROVE  /\ Append(q, m) \in Seq(S) /\ NatPipe(Append(q, m))
             /\ \A t, u : u \in Updates =>
                    InPipe(Append(q, m), t, u) = InMessage(m, t, u) + InPipe(q, t, u)
  <2>1. PICK r : r = Append(q, m)
    OBVIOUS
  <2>2. PICK n \in Nat : n = Len(q)
    OBVIOUS
  <2>3. PICK D, E : D = 1 .. n /\ E = 1 .. n + 1
    OBVIOUS
  <2>4. /\ DOMAIN q = D /\ DOMAIN r = E /\ r[n + 1] = m /\ r \in Seq(S)
        /\ Len(r) = n + 1 /\ Len(q) = n /\ \A i \in D : q[i] = r[i]
    BY <2>1, <2>2, <2>3
  <2>5. \A i \in E : NatMsg(r[i])
    <3>1. \A i \in E : i = n + 1 \/ i \in D
      BY <2>3
    <3> QED
      BY <1>2, <2>3, <2>4, <3>1 DEF NatPipe
  <2>6. NatPipe(r)
    BY <2>3, <2>4, <2>5 DEF NatPipe
  <2>7. ASSUME NEW t, NEW u \in Updates
        PROVE  InPipe(r, t, u) = InMessage(r[n + 1], t, u) + InPipe(q, t, u)
    BY ONLY n \in Nat, u \in Updates, <2>3, <2>4, <2>5, PipeSums
  <2> QED
    BY <2>1, <2>4, <2>6, <2>7
<1> QED
  BY <1>1, <1>2

-----------------------------------------------------------------------------
(* The account of an update: what each step does to the counts.            *)

(* What has reached the table of node a: it is in the table, or its        *)
(* receiver is about to apply it.                                          *)
Got(a, t) == AddUpdates(storage[a][t], toApply[a][t])

Reached(a, t, u) == InStore(Got(a, t), u)

(* A receiver has updates to apply in its loop only, of one table.         *)
LoopInv(a) ==
    /\ \A t \in Tables : NatStore(storage[a][t]) /\ NatStore(toApply[a][t])
    /\ \A t \in Tables, s \in Tables :
        t = s \/ toApply[a][t] = EmptyStore \/ toApply[a][s] = EmptyStore
    /\ rPc[a] # "apply" => \A t \in Tables : toApply[a][t] = EmptyStore

StoresNat(a) == LoopInv(a) /\ \A t \in Tables : NatStore(updateStore[a][t])

PipesNat(a) == NatPipe(fwdPipe[a]) /\ NatPipe(outBuff[a]) /\ NatPipe(tcp[a])

ThreadsNat(a) ==
    \A th \in Threads :
        /\ NatPipe(pend[a][th]) /\ NatPipe(logPipe[a][th])
        /\ IF thr[a][th] = "inc" THEN Len(pend[a][th]) = 1 ELSE pend[a][th] = <<>>

NatInv(a) == StoresNat(a) /\ PipesNat(a) /\ ThreadsNat(a)

(* A node that drops nothing: its propagator runs, batches and has where   *)
(* to send.                                                                *)
Sends(a) == pState[a] = "RUN" /\ a \in Batched /\ HasDownstream(a)

(* A step brings nothing to node a, adds nothing to what is on its way    *)
(* from there and drops nothing of it while the node sends.                *)
Steady(a, t, u) ==
    /\ Reached(a, t, u)' = Reached(a, t, u)
    /\ FromThreads(a, t, u)' <= FromThreads(a, t, u)
    /\ OnTheWay(a, t, u)' <= OnTheWay(a, t, u)
    /\ Sends(a)' => OnTheWay(a, t, u)' = OnTheWay(a, t, u)

AllSteady(a) == NatInv(a)' /\ \A t \in Tables, u \in Updates : Steady(a, t, u)

(* A store with nothing in it, added to another, and a store that has no   *)
(* keys left.                                                              *)
LEMMA AddNothing ==
    ASSUME NEW s, NatStore(s)
    PROVE  AddUpdates(s, EmptyStore) = s /\ (s.keys = {} => s = EmptyStore)
<1>1. s \in Store
  BY DEF NatStore
<1>2. PICK K, f : K \in SUBSET AllKeys /\ f \in [AllKeys -> Value] /\ s = [keys |-> K, val |-> f]
  BY <1>1 DEF Store
<1>3. s.keys = K /\ s.val = f
  BY <1>2
<1>4. ASSUME NEW k \in AllKeys PROVE VAdd(f[k], Zero) = f[k]
  <2>1. f[k] \in [Updates -> Int]
    BY <1>2 DEF Value
  <2> QED
    BY <2>1 DEF VAdd, Zero
<1>5. [k \in AllKeys |-> VAdd(f[k], Zero)] = f
  BY <1>2, <1>4
<1>6. AddUpdates(s, EmptyStore) = [keys |-> K, val |-> [k \in AllKeys |-> VAdd(f[k], Zero)]]
  BY <1>3 DEF AddUpdates, EmptyStore
<1>7. ASSUME K = {} PROVE s = EmptyStore
  <2>1. \A k \in AllKeys : f[k] = Zero
    BY <1>3, <1>7 DEF NatStore
  <2>2. f = [k \in AllKeys |-> Zero]
    BY <1>2, <2>1
  <2> QED
    BY <1>2, <1>7, <2>2 DEF EmptyStore
<1> QED
  BY <1>2, <1>3, <1>5, <1>6, <1>7

(* What has reached a table, counted.                                      *)
LEMMA KnownCount ==
    ASSUME NEW a \in Nodes, LoopInv(a), NEW t \in Tables
    PROVE  /\ NatStore(Got(a, t))
           /\ \A k \in AllKeys, u \in Updates :
                Got(a, t).val[k][u] = storage[a][t].val[k][u] + toApply[a][t].val[k][u]
           /\ \A u \in Updates :
                Reached(a, t, u) = InStore(storage[a][t], u) + InStore(toApply[a][t], u)
           /\ rPc[a] # "apply" => Got(a, t) = storage[a][t]
<1>1. PICK s, d : s = storage[a][t] /\ d = toApply[a][t]
  OBVIOUS
<1>2. NatStore(s) /\ NatStore(d)
  BY <1>1 DEF LoopInv
<1>3. /\ NatStore(AddUpdates(s, d))
      /\ \A k \in AllKeys, u \in Updates :
            AddUpdates(s, d).val[k][u] = s.val[k][u] + d.val[k][u]
      /\ \A u \in Updates : InStore(AddUpdates(s, d), u) = InStore(s, u) + InStore(d, u)
  BY ONLY <1>2, AddAllCount
<1>4. rPc[a] # "apply" => d = EmptyStore
  BY <1>1 DEF LoopInv
<1>5. rPc[a] # "apply" => AddUpdates(s, d) = s
  BY ONLY <1>2, <1>4, AddNothing
<1> QED
  BY <1>1, <1>3, <1>5 DEF Got, Reached

(* A step outside the loop.                                                *)
LEMMA LoopSame ==
    ASSUME NEW a \in Nodes, storage'[a] = storage[a], toApply'[a] = toApply[a],
           rPc[a] = "apply" => rPc'[a] = "apply"
    PROVE  /\ \A t \in Tables : Got(a, t)' = Got(a, t)
           /\ LoopInv(a) => LoopInv(a)'
BY DEF Got, LoopInv

(* All counts are natural numbers.                                         *)
LEMMA WayCount ==
    ASSUME TypeInv, NEW a \in Nodes, NatInv(a), NEW t \in Tables, NEW u \in Updates
    PROVE  /\ Reached(a, t, u) \in Nat /\ OnTheWay(a, t, u) \in Nat
           /\ Reached(a, t, u) = InStore(Got(a, t), u)
           /\ FromThreads(a, t, u) \in Nat /\ InPipe(fwdPipe[a], t, u) \in Nat
           /\ InStore(updateStore[a][t], u) \in Nat
           /\ InPipe(outBuff[a], t, u) \in Nat /\ InPipe(tcp[a], t, u) \in Nat
           /\ \A th \in Threads :
                /\ InPipe(pend[a][th], t, u) \in Nat /\ InPipe(logPipe[a][th], t, u) \in Nat
                /\ InPipe(pend[a][th], t, u) + InPipe(logPipe[a][th], t, u)
                        <= FromThreads(a, t, u)
<1>1. PipeTypes /\ DataTypes
  BY AllTypes
<1>2. \A th \in Threads : InPipe(pend[a][th], t, u) \in Nat /\ InPipe(logPipe[a][th], t, u) \in Nat
  <2> TAKE th \in Threads
  <2>1. pend[a][th] \in Seq(LogMsg) /\ logPipe[a][th] \in Seq(LogMsg)
    BY <1>1 DEF PipeTypes
  <2>2. NatPipe(pend[a][th]) /\ NatPipe(logPipe[a][th])
    BY DEF NatInv, ThreadsNat
  <2> QED
    BY <2>1, <2>2, PipeCount
<1>3. /\ FromThreads(a, t, u) \in Nat
      /\ \A th \in Threads :
            InPipe(pend[a][th], t, u) + InPipe(logPipe[a][th], t, u) <= FromThreads(a, t, u)
  <2> DEFINE f == [th \in Threads |-> InPipe(pend[a][th], t, u) + InPipe(logPipe[a][th], t, u)]
  <2>1. f \in [Threads -> Nat]
    BY <1>2
  <2>2. FromThreads(a, t, u) = SumFunction(f)
    BY DEF FromThreads
  <2>3. \A th \in Threads : f[th] = InPipe(pend[a][th], t, u) + InPipe(logPipe[a][th], t, u)
    OBVIOUS
  <2> HIDE DEF f
  <2>4. SumFunction(f) \in Nat /\ \A th \in Threads : f[th] <= SumFunction(f)
    BY <2>1, FiniteAssumption, SumNat
  <2> QED
    BY <2>2, <2>3, <2>4
<1>4. /\ InPipe(fwdPipe[a], t, u) \in Nat /\ InPipe(outBuff[a], t, u) \in Nat
      /\ InPipe(tcp[a], t, u) \in Nat
  <2>1. /\ fwdPipe[a] \in Seq(FwdMsg) /\ outBuff[a] \in Seq(UpdateBufferMsg)
        /\ tcp[a] \in Seq(TcpMsg)
    BY <1>1 DEF PipeTypes, DataTypes
  <2> QED
    BY <2>1, PipeCount DEF NatInv, PipesNat
<1>5. InStore(updateStore[a][t], u) \in Nat /\ InStore(Got(a, t), u) \in Nat
  BY KnownCount, StoreCount DEF NatInv, StoresNat
<1>6. Reached(a, t, u) = InStore(Got(a, t), u)
  BY DEF Reached
<1> QED
  BY <1>2, <1>3, <1>4, <1>5, <1>6 DEF OnTheWay

(* Update v of table t is nowhere behind update u.                         *)
InOrder(q, t, v, u) ==
    \A i, j \in 1 .. Len(q) :
        i < j => (InMessage(q[i], t, u) = 0 \/ InMessage(q[j], t, v) = 0)

(* The order of a pipe.                                                    *)
LEMMA OrderMoves ==
    ASSUME NEW S, NEW q \in Seq(S), NatPipe(q), NEW t, NEW v \in Updates, NEW u \in Updates
    PROVE  /\ (q # <<>> /\ InOrder(q, t, v, u)) =>
                /\ InOrder(Tail(q), t, v, u)
                /\ InMessage(Head(q), t, u) = 0 \/ InPipe(Tail(q), t, v) = 0
           /\ \A m \in S :
                (InOrder(q, t, v, u) /\ (InMessage(m, t, v) = 0 \/ InPipe(q, t, u) = 0)) =>
                    InOrder(Append(q, m), t, v, u)
<1>1. ASSUME q # <<>>, InOrder(q, t, v, u)
      PROVE  /\ InOrder(Tail(q), t, v, u)
             /\ InMessage(Head(q), t, u) = 0 \/ InPipe(Tail(q), t, v) = 0
  <2>1. PICK r : r = Tail(q)
    OBVIOUS
  <2>2. /\ r \in Seq(S) /\ Len(q) \in Nat /\ Len(r) = Len(q) - 1 /\ Len(q) > 0 /\ Head(q) = q[1]
        /\ \A i \in 1 .. Len(r) : r[i] = q[i + 1] /\ i + 1 \in 1 .. Len(q) /\ 1 < i + 1
    BY <1>1, <2>1
  <2>3. InOrder(r, t, v, u)
    <3> SUFFICES ASSUME NEW i \in 1 .. Len(r), NEW j \in 1 .. Len(r), i < j
                 PROVE  InMessage(r[i], t, u) = 0 \/ InMessage(r[j], t, v) = 0
      BY DEF InOrder
    <3>1. /\ r[i] = q[i + 1] /\ i + 1 \in 1 .. Len(q)
          /\ r[j] = q[j + 1] /\ j + 1 \in 1 .. Len(q) /\ i + 1 < j + 1
      BY <2>2
    <3> QED
      BY <1>1, <3>1 DEF InOrder
  <2>4. NatPipe(r)
    BY <2>2 DEF NatPipe
  <2>5. CASE InMessage(q[1], t, u) # 0
    <3>1. \A i \in 1 .. Len(r) : InMessage(r[i], t, v) = 0
      BY <1>1, <2>2, <2>5 DEF InOrder
    <3>2. InPipe(r, t, v) = 0
      BY ONLY v \in Updates, <2>2, <2>4, <3>1, PipeCount
    <3> QED
      BY <2>1, <2>3, <3>2
  <2> QED
    BY <2>1, <2>2, <2>3, <2>5
<1>2. ASSUME NEW m \in S, InOrder(q, t, v, u), InMessage(m, t, v) = 0 \/ InPipe(q, t, u) = 0
      PROVE  InOrder(Append(q, m), t, v, u)
  <2>1. PICK r : r = Append(q, m)
    OBVIOUS
  <2>2. /\ Len(q) \in Nat /\ Len(r) = Len(q) + 1 /\ r[Len(q) + 1] = m
        /\ \A i \in 1 .. Len(q) : r[i] = q[i]
        /\ \A i \in 1 .. Len(r) : i \in 1 .. Len(q) \/ i = Len(q) + 1
    BY <2>1
  <2>3. InMessage(m, t, v) = 0 \/ \A i \in 1 .. Len(q) : InMessage(q[i], t, u) = 0
    <3>1. ASSUME InPipe(q, t, u) = 0, NEW i \in 1 .. Len(q) PROVE InMessage(q[i], t, u) = 0
      <4>1. InMessage(q[i], t, u) <= InPipe(q, t, u)
        BY PipeCount
      <4>2. InMessage(q[i], t, u) \in Nat
        BY MessageCount DEF NatPipe
      <4> QED
        BY <3>1, <4>1, <4>2
    <3> QED
      BY <1>2, <3>1
  <2>4. ASSUME NEW i \in 1 .. Len(r), NEW j \in 1 .. Len(r), i < j
        PROVE  InMessage(r[i], t, u) = 0 \/ InMessage(r[j], t, v) = 0
    <3>1. i \in 1 .. Len(q)
      BY <2>2, <2>4
    <3>2. CASE j \in 1 .. Len(q)
      BY <1>2, <2>2, <2>4, <3>1, <3>2 DEF InOrder
    <3>3. CASE j = Len(q) + 1
      BY <2>2, <2>3, <3>1, <3>3
    <3> QED
      BY <2>2, <3>2, <3>3
  <2> QED
    BY <2>1, <2>4 DEF InOrder
<1> QED
  BY <1>1, <1>2

(* The updates in a store of table t, in a message and in a pipe are under *)
(* keys that the set M has for them.                                       *)
KeyedStore(M, s, t) ==
    \A k \in AllKeys, u \in Updates : s.val[k][u] # 0 => <<t, k, u>> \in M

KeyedMsg(M, m) ==
    /\ m.type = "EPUpdateLog" =>
        \A u \in Updates : m.delta[u] # 0 => <<m.table, m.key, u>> \in M
    /\ IsBuff(m) => KeyedStore(M, m.buff.updates, m.table)

KeyedPipe(M, q) == \A i \in 1 .. Len(q) : KeyedMsg(M, q[i])

(* Pipes keep their keys when a message is received or sent.               *)
LEMMA KeyedMoves ==
    ASSUME NEW S, NEW q \in Seq(S), NEW M, KeyedPipe(M, q)
    PROVE  /\ q # <<>> => KeyedMsg(M, Head(q)) /\ KeyedPipe(M, Tail(q))
           /\ \A m \in S : KeyedMsg(M, m) => KeyedPipe(M, Append(q, m))
<1>1. ASSUME q # <<>> PROVE KeyedMsg(M, Head(q)) /\ KeyedPipe(M, Tail(q))
  <2>1. PICK r : r = Tail(q)
    OBVIOUS
  <2>2. /\ Len(q) \in Nat /\ Len(r) = Len(q) - 1 /\ Len(q) > 0 /\ Head(q) = q[1]
        /\ \A i \in 1 .. Len(r) : r[i] = q[i + 1] /\ i + 1 \in 1 .. Len(q)
    BY <1>1, <2>1
  <2> QED
    BY <2>1, <2>2 DEF KeyedPipe
<1>2. ASSUME NEW m \in S, KeyedMsg(M, m) PROVE KeyedPipe(M, Append(q, m))
  <2>1. PICK r : r = Append(q, m)
    OBVIOUS
  <2>2. /\ Len(q) \in Nat /\ Len(r) = Len(q) + 1 /\ r[Len(q) + 1] = m
        /\ \A i \in 1 .. Len(q) : r[i] = q[i]
        /\ \A i \in 1 .. Len(r) : i \in 1 .. Len(q) \/ i = Len(q) + 1
    BY <2>1
  <2> QED
    BY <1>2, <2>1, <2>2 DEF KeyedPipe
<1> QED
  BY <1>1, <1>2

(* A pipe in which no update comes or goes.                                *)
Silent(q, r) ==
    NatPipe(q) =>
        /\ NatPipe(r) /\ \A t, u : u \in Updates => InPipe(r, t, u) = InPipe(q, t, u)
        /\ \A t, v, u : (v \in Updates /\ u \in Updates /\ InOrder(q, t, v, u))
                            => InOrder(r, t, v, u)
        /\ \A M : KeyedPipe(M, q) => KeyedPipe(M, r)

(* Signals carry no updates.                                               *)
LEMMA SilentPipes ==
    ASSUME NEW S, NEW q \in Seq(S)
    PROVE  /\ Silent(q, q)
           /\ (q # <<>> /\ Head(q).type # "EPUpdateLog" /\ ~IsBuff(Head(q))) => Silent(q, Tail(q))
           /\ \A m \in S : (m.type # "EPUpdateLog" /\ ~IsBuff(m)) => Silent(q, Append(q, m))
<1>1. ASSUME NEW m, m.type # "EPUpdateLog", ~IsBuff(m)
      PROVE  NatMsg(m) /\ \A t, u : u \in Updates => InMessage(m, t, u) = 0
  <2>1. NatMsg(m)
    BY <1>1 DEF NatMsg
  <2> QED
    BY <1>1, <2>1, MessageCount
<1>2. NatPipe(q) => \A t, u : u \in Updates => InPipe(q, t, u) \in Nat
  BY PipeCount
<1>3. ASSUME q # <<>>, Head(q).type # "EPUpdateLog", ~IsBuff(Head(q)) PROVE Silent(q, Tail(q))
  <2> SUFFICES ASSUME NatPipe(q)
               PROVE  /\ NatPipe(Tail(q))
                      /\ \A t, u : u \in Updates => InPipe(Tail(q), t, u) = InPipe(q, t, u)
                      /\ \A t, v, u : (v \in Updates /\ u \in Updates /\ InOrder(q, t, v, u))
                            => InOrder(Tail(q), t, v, u)
                      /\ \A M : KeyedPipe(M, q) => KeyedPipe(M, Tail(q))
    BY DEF Silent
  <2>1. /\ NatPipe(Tail(q)) /\ NatMsg(Head(q)) /\ Tail(q) \in Seq(S)
        /\ \A t, u : u \in Updates =>
                InPipe(q, t, u) = InMessage(Head(q), t, u) + InPipe(Tail(q), t, u)
    BY ONLY q \in Seq(S), NatPipe(q), <1>3, PipeMoves
  <2>2. \A t, u : u \in Updates => InPipe(Tail(q), t, u) \in Nat
    BY <2>1, PipeCount
  <2>3. \A t, u : u \in Updates => InMessage(Head(q), t, u) = 0
    BY <1>1, <1>3
  <2>4. \A t, v, u : (v \in Updates /\ u \in Updates /\ InOrder(q, t, v, u))
                        => InOrder(Tail(q), t, v, u)
    BY <1>3, OrderMoves
  <2>5. \A M : KeyedPipe(M, q) => KeyedPipe(M, Tail(q))
    BY <1>3, KeyedMoves
  <2> QED
    BY <2>1, <2>2, <2>3, <2>4, <2>5
<1>4. ASSUME NEW m \in S, m.type # "EPUpdateLog", ~IsBuff(m) PROVE Silent(q, Append(q, m))
  <2> SUFFICES ASSUME NatPipe(q)
               PROVE  /\ NatPipe(Append(q, m))
                      /\ \A t, u : u \in Updates => InPipe(Append(q, m), t, u) = InPipe(q, t, u)
                      /\ \A t, v, u : (v \in Updates /\ u \in Updates /\ InOrder(q, t, v, u))
                            => InOrder(Append(q, m), t, v, u)
                      /\ \A M : KeyedPipe(M, q) => KeyedPipe(M, Append(q, m))
    BY DEF Silent
  <2>1. NatMsg(m) /\ \A t, u : u \in Updates => InMessage(m, t, u) = 0
    BY <1>1, <1>4
  <2>2. /\ NatPipe(Append(q, m))
        /\ \A t, u : u \in Updates =>
                InPipe(Append(q, m), t, u) = InMessage(m, t, u) + InPipe(q, t, u)
    BY ONLY q \in Seq(S), NatPipe(q), m \in S, <2>1, PipeMoves
  <2>3. \A t, v, u : (v \in Updates /\ u \in Updates /\ InOrder(q, t, v, u))
                        => InOrder(Append(q, m), t, v, u)
    BY <2>1, OrderMoves
  <2>4. \A M : KeyedPipe(M, q) => KeyedPipe(M, Append(q, m))
    <3>1. \A M : KeyedMsg(M, m)
      BY <1>4 DEF KeyedMsg
    <3> QED
      BY <3>1, KeyedMoves
  <2> QED
    BY <1>2, <2>1, <2>2, <2>3, <2>4
<1>5. Silent(q, q)
  BY DEF Silent
<1> QED
  BY <1>3, <1>4, <1>5

(* A node at which a step moves no update: signals come and go, threads    *)
(* leave RUN, a propagator that does empties its store, and a receiver     *)
(* applies to the table what has reached it.                               *)
CalmAt(a) ==
    /\ \A t \in Tables : Got(a, t)' = Got(a, t)
    /\ LoopInv(a) => LoopInv(a)'
    /\ pend'[a] = pend[a] /\ outBuff'[a] = outBuff[a]
    /\ incs'[a] = incs[a]
    /\ pState'[a] = "RUN" => pState[a] = "RUN"
    /\ rState'[a] = "RUN" => rState[a] = "RUN"
    /\ \A th \in Threads :
        /\ thr'[a][th] = "inc" <=> thr[a][th] = "inc"
        /\ Silent(logPipe[a][th], logPipe'[a][th])
    /\ Silent(tcp[a], tcp'[a]) /\ Silent(fwdPipe[a], fwdPipe'[a])
    /\ \/ updateStore'[a] = updateStore[a]
       \/ pState'[a] # "RUN" /\ \A t \in Tables : updateStore'[a][t] = EmptyStore

(* Such a step leaves the account as it is.                                *)
LEMMA CalmSteady ==
    ASSUME TypeInv, NEW a \in Nodes, NatInv(a), CalmAt(a)
    PROVE  AllSteady(a)
<1>1. /\ NatPipe(tcp[a]) /\ NatPipe(fwdPipe[a]) /\ \A th \in Threads : NatPipe(logPipe[a][th])
      /\ StoresNat(a) /\ PipesNat(a) /\ ThreadsNat(a)
  BY DEF NatInv, PipesNat, ThreadsNat
<1>2. /\ NatPipe(tcp'[a]) /\ NatPipe(fwdPipe'[a]) /\ \A th \in Threads : NatPipe(logPipe'[a][th])
      /\ \A t, u : u \in Updates =>
            /\ InPipe(tcp'[a], t, u) = InPipe(tcp[a], t, u)
            /\ InPipe(fwdPipe'[a], t, u) = InPipe(fwdPipe[a], t, u)
            /\ \A th \in Threads : InPipe(logPipe'[a][th], t, u) = InPipe(logPipe[a][th], t, u)
  BY <1>1 DEF CalmAt, Silent
<1>3. /\ pend'[a] = pend[a] /\ outBuff'[a] = outBuff[a]
      /\ \A t \in Tables : Got(a, t)' = Got(a, t)
      /\ LoopInv(a) => LoopInv(a)'
      /\ \A th \in Threads : thr'[a][th] = "inc" <=> thr[a][th] = "inc"
      /\ pState'[a] = "RUN" => updateStore'[a] = updateStore[a]
      /\ updateStore'[a] # updateStore[a] => \A t \in Tables : updateStore'[a][t] = EmptyStore
  BY DEF CalmAt
<1>4. PipesNat(a)' /\ ThreadsNat(a)'
  BY <1>1, <1>2, <1>3 DEF PipesNat, ThreadsNat
<1>5. StoresNat(a)'
  BY <1>1, <1>3, EmptyCount DEF StoresNat
<1>6. ASSUME NEW t \in Tables, NEW u \in Updates PROVE Steady(a, t, u)
  <2>1. Reached(a, t, u)' = Reached(a, t, u)
    BY <1>3 DEF Reached
  <2>2. FromThreads(a, t, u)' = FromThreads(a, t, u)
    <3>1. \A th \in Threads :
            InPipe(pend'[a][th], t, u) + InPipe(logPipe'[a][th], t, u)
                = InPipe(pend[a][th], t, u) + InPipe(logPipe[a][th], t, u)
      BY <1>2, <1>3
    <3>2. [th \in Threads |-> InPipe(pend'[a][th], t, u) + InPipe(logPipe'[a][th], t, u)]
            = [th \in Threads |-> InPipe(pend[a][th], t, u) + InPipe(logPipe[a][th], t, u)]
      BY <3>1
    <3> QED
      BY <3>2 DEF FromThreads
  <2>3. /\ FromThreads(a, t, u) \in Nat /\ InPipe(fwdPipe[a], t, u) \in Nat
        /\ InStore(updateStore[a][t], u) \in Nat
        /\ InPipe(outBuff[a], t, u) \in Nat /\ InPipe(tcp[a], t, u) \in Nat
    BY WayCount
  <2>4. /\ InStore(updateStore'[a][t], u) \in Nat
        /\ InStore(updateStore'[a][t], u) <= InStore(updateStore[a][t], u)
        /\ pState'[a] = "RUN" =>
                InStore(updateStore'[a][t], u) = InStore(updateStore[a][t], u)
    <3>1. CASE updateStore'[a] = updateStore[a]
      BY <2>3, <3>1
    <3>2. CASE updateStore'[a] # updateStore[a]
      <4>1. InStore(updateStore'[a][t], u) = 0
        BY <1>3, <3>2, EmptyCount
      <4> QED
        BY <1>3, <2>3, <3>2, <4>1
    <3> QED
      BY <3>1, <3>2
  <2>5. OnTheWay(a, t, u)' =
            FromThreads(a, t, u) + InPipe(fwdPipe[a], t, u) + InStore(updateStore'[a][t], u)
                + InPipe(outBuff[a], t, u) + InPipe(tcp[a], t, u)
    BY <1>2, <1>3, <2>2 DEF OnTheWay
  <2> QED
    BY <2>1, <2>2, <2>3, <2>4, <2>5 DEF Steady, Sends, OnTheWay
<1> QED
  BY <1>4, <1>5, <1>6 DEF AllSteady, NatInv

(* A node whose part of the data path a step does not touch.               *)
LEMMA CalmSame ==
    ASSUME NEW a \in Nodes, storage'[a] = storage[a], toApply'[a] = toApply[a],
           rPc[a] = "apply" => rPc'[a] = "apply", pend'[a] = pend[a], incs'[a] = incs[a],
           \A th \in Threads : thr'[a][th] = "inc" <=> thr[a][th] = "inc",
           pState'[a] = "RUN" => pState[a] = "RUN", rState'[a] = "RUN" => rState[a] = "RUN",
           logPipe'[a] = logPipe[a], fwdPipe'[a] = fwdPipe[a],
           updateStore'[a] = updateStore[a], outBuff'[a] = outBuff[a], tcp'[a] = tcp[a]
    PROVE  CalmAt(a)
BY LoopSame DEF CalmAt, Silent

(* A change in the pipes of one thread.                                    *)
LEMMA ThreadMoves ==
    ASSUME TypeInv, TypeInv', NEW a \in Nodes, NatInv(a), ThreadsNat(a)', NEW th \in Threads,
           \A s \in Threads \ {th} : pend'[a][s] = pend[a][s] /\ logPipe'[a][s] = logPipe[a][s],
           NEW t \in Tables, NEW u \in Updates
    PROVE  FromThreads(a, t, u)' =
                FromThreads(a, t, u)
                    + ((InPipe(pend'[a][th], t, u) + InPipe(logPipe'[a][th], t, u))
                        - (InPipe(pend[a][th], t, u) + InPipe(logPipe[a][th], t, u)))
<1> DEFINE f == [s \in Threads |-> InPipe(pend[a][s], t, u) + InPipe(logPipe[a][s], t, u)]
           g == [s \in Threads |-> InPipe(pend'[a][s], t, u) + InPipe(logPipe'[a][s], t, u)]
<1>1. f \in [Threads -> Int]
  BY WayCount
<1>2. g \in [Threads -> Int]
  <2> SUFFICES ASSUME NEW s \in Threads
               PROVE  InPipe(pend'[a][s], t, u) \in Nat /\ InPipe(logPipe'[a][s], t, u) \in Nat
    OBVIOUS
  <2>1. pend'[a][s] \in Seq(LogMsg) /\ logPipe'[a][s] \in Seq(LogMsg)
    BY AllTypes DEF TypeInv, TypeOK, WiresTypeOK, ApplicationTypeOK
  <2>2. NatPipe(pend'[a][s]) /\ NatPipe(logPipe'[a][s])
    BY DEF ThreadsNat, NatPipe, NatMsg, IsBuff, NatStore
  <2> QED
    BY <2>1, <2>2, PipeCount
<1>3. \A s \in Threads \ {th} : g[s] = f[s]
  OBVIOUS
<1>4. FromThreads(a, t, u) = SumFunction(f) /\ FromThreads(a, t, u)' = SumFunction(g)
  BY DEF FromThreads, InPipe, InMessage, InStore
<1>5. /\ f[th] = InPipe(pend[a][th], t, u) + InPipe(logPipe[a][th], t, u)
      /\ g[th] = InPipe(pend'[a][th], t, u) + InPipe(logPipe'[a][th], t, u)
  OBVIOUS
<1> HIDE DEF f, g
<1>6. SumFunction(g) = SumFunction(f) + (g[th] - f[th])
  BY <1>1, <1>2, <1>3, FiniteAssumption, SumPoint
<1> QED
  BY <1>4, <1>5, <1>6

-----------------------------------------------------------------------------
(* The steps: eight of them move updates.                                  *)

MakeStep(n, th, t, k) ==
    Inc(n, th, t, k) /\ UNCHANGED <<fatal, timer, propVars, recvVars>>

HandStep(n, th) ==
    PropagatorInc(n, th) /\ UNCHANGED <<fatal, timer, propVars, recvVars>>

PutStep(n, th) == RecvUpdateLog(n, th) /\ UNCHANGED <<storage, recvVars, appVars>>

Calm == \A a \in Nodes : CalmAt(a)

(* The timer threads.                                                      *)
LEMMA CalmTimer ==
    ASSUME NEW n \in Nodes, TimerNext(n)
    PROVE  Calm
<1>1. UNCHANGED <<wireVars, propVars, storage, recvVars, appVars>>
  BY DEF TimerNext, TimerStep
<1> QED
  BY <1>1, CalmSame DEF Calm, wireVars, propVars, propStores, recvVars, appVars

(* The application threads.                                                *)
LEMMA CalmApplication ==
    ASSUME TypeInv, NEW n \in Nodes, ApplicationNext(n)
    PROVE  \/ Calm
           \/ \E th \in Threads :
                HandStep(n, th) \/ \E t \in Tables, k \in Keys : MakeStep(n, th, t, k)
<1>1. UNCHANGED <<fatal, timer, propVars, recvVars>>
  BY DEF ApplicationNext
<1>2. /\ thr \in [Nodes -> [Threads -> {"new", "idle", "inc", "sigRecv",
                                        "waitProp", "waitRecv", "down", "gone"}]]
      /\ Main \in Threads /\ PipeTypes
  BY AllTypes, ApplicationAssumption DEF TypeInv, TypeOK, ApplicationTypeOK
<1>3. ASSUME NEW th \in Threads, NEW from \in {"new", "down", "idle", "sigRecv", "waitProp", "waitRecv"},
             NEW to \in {"idle", "gone", "sigRecv", "waitProp", "waitRecv", "down"},
             Goto(n, th, from, to)
      PROVE  \A a \in Nodes, s \in Threads : thr'[a][s] = "inc" <=> thr[a][s] = "inc"
  BY <1>2, <1>3 DEF Goto
<1>4. ASSUME UNCHANGED <<logPipe, fwdPipe, tcp, storage, pend, incs>>,
             \A a \in Nodes, s \in Threads : thr'[a][s] = "inc" <=> thr[a][s] = "inc"
      PROVE  Calm
  BY <1>1, <1>4, CalmSame DEF Calm, propVars, propStores, recvVars
<1>5. ASSUME NEW th \in Threads, RegisterThr(n, th) \/ DeregisterThr(n, th) PROVE Calm
  <2>1. UNCHANGED <<logPipe, fwdPipe, tcp, storage, pend, incs>>
    BY <1>5 DEF RegisterThr, DeregisterThr, wireVars
  <2>2. \A a \in Nodes, s \in Threads : thr'[a][s] = "inc" <=> thr[a][s] = "inc"
    BY <1>3, <1>5 DEF RegisterThr, DeregisterThr
  <2> QED
    BY <1>4, <2>1, <2>2
<1>6. CASE ShutDownStep(n)
  <2>1. UNCHANGED <<logPipe, fwdPipe, tcp, storage, pend, incs>>
    BY <1>6 DEF ShutDownStep, SignalTermReceiver, WaitTermPropagator, WaitTermReceiver, wireVars
  <2>2. \A a \in Nodes, s \in Threads : thr'[a][s] = "inc" <=> thr[a][s] = "inc"
    BY <1>2, <1>3, <1>6
      DEF ShutDownStep, SignalTermReceiver, WaitTermPropagator, WaitTermReceiver
  <2> QED
    BY <1>4, <2>1, <2>2
<1>7. CASE SignalTermPropagator(n)
  <2>1. UNCHANGED <<fwdPipe, tcp, storage, pend, incs>>
    BY <1>7 DEF SignalTermPropagator
  <2>2. \A a \in Nodes, s \in Threads : thr'[a][s] = "inc" <=> thr[a][s] = "inc"
    BY <1>2, <1>3, <1>7 DEF SignalTermPropagator
  <2>3. PICK m : m = Msg("EPInternalTerminate")
    OBVIOUS
  <2>4. m \in LogMsg /\ m.type # "EPUpdateLog" /\ ~IsBuff(m)
    BY <2>3, LogMsgType DEF Msg, IsBuff, LogMsg
  <2>5. logPipe' = [logPipe EXCEPT ![n][Main] = Append(@, m)]
    BY <1>7, <2>3 DEF SignalTermPropagator
  <2>6. ASSUME NEW a \in Nodes, NEW s \in Threads PROVE Silent(logPipe[a][s], logPipe'[a][s])
    <3>1. logPipe[a][s] \in Seq(LogMsg)
      BY <1>2 DEF PipeTypes
    <3>2. logPipe'[a][s] = logPipe[a][s] \/ logPipe'[a][s] = Append(logPipe[a][s], m)
      BY <1>2, <2>5 DEF PipeTypes
    <3> QED
      BY <2>4, <3>1, <3>2, SilentPipes
  <2>7. \A a \in Nodes : Silent(tcp[a], tcp'[a]) /\ Silent(fwdPipe[a], fwdPipe'[a])
    BY <2>1 DEF Silent
  <2> QED
    BY <1>1, <2>1, <2>2, <2>6, <2>7, LoopSame DEF Calm, CalmAt, propVars, propStores, recvVars
<1> QED
  BY <1>1, <1>5, <1>6, <1>7 DEF ApplicationNext, ApplicationStep, HandStep, MakeStep

(* The propagators.                                                        *)
LEMMA CalmPropagator ==
    ASSUME TypeInv, NEW n \in Nodes, PropagatorNext(n)
    PROVE  \/ Calm
           \/ \E th \in Threads : PutStep(n, th)
           \/ \E t \in Tables : FlushStep(n, t)
           \/ SendStep(n)
           \/ MergeStep(n)
<1>1. UNCHANGED <<storage, recvVars, appVars>>
  BY DEF PropagatorNext
<1>2. ControlTypes /\ PipeTypes /\ DataTypes
  BY AllTypes
<1>3. \A a \in Nodes : /\ \A s \in Threads : logPipe[a][s] \in Seq(LogMsg)
                       /\ tcp[a] \in Seq(TcpMsg) /\ fwdPipe[a] \in Seq(FwdMsg)
  BY <1>2 DEF PipeTypes
<1>4. CASE TimerTick(n)
  BY <1>1, <1>4, CalmSame DEF TimerTick, Calm, wireVars, propStores, recvVars, appVars
<1>5. CASE JoinTimer(n)
  <2>1. \A a \in Nodes : pState'[a] = "RUN" => pState[a] = "RUN"
    BY <1>2, <1>5 DEF JoinTimer, ExitIf, ControlTypes
  <2> QED
    BY <1>1, <1>5, <2>1, CalmSame DEF JoinTimer, Calm, wireVars, propStores, recvVars, appVars
<1>6. ASSUME NEW th \in Threads, RecvInternalTerminate(n, th) PROVE Calm
  <2>1. UNCHANGED <<fwdPipe, outBuff>>
    BY <1>6 DEF RecvInternalTerminate
  <2>2. /\ pState'[n] # "RUN" /\ \A t \in Tables : updateStore'[n][t] = EmptyStore
        /\ \A a \in Nodes \ {n} : pState'[a] = pState[a] /\ updateStore'[a] = updateStore[a]
    BY <1>2, <1>6 DEF RecvInternalTerminate, ControlTypes, DataTypes
  <2>3. ASSUME NEW a \in Nodes, NEW s \in Threads PROVE Silent(logPipe[a][s], logPipe'[a][s])
    <3>1. /\ logPipe' = [logPipe EXCEPT ![n][th] = Tail(@)]
          /\ logPipe[n][th] # <<>> /\ Head(logPipe[n][th]).type = "EPInternalTerminate"
      BY <1>6 DEF RecvInternalTerminate, IsNext
    <3>2. \/ logPipe'[a][s] = logPipe[a][s]
          \/ a = n /\ s = th /\ logPipe'[a][s] = Tail(logPipe[a][s])
      BY <1>2, <3>1 DEF PipeTypes
    <3>3. Head(logPipe[n][th]).type # "EPUpdateLog" /\ ~IsBuff(Head(logPipe[n][th]))
      BY <3>1 DEF IsBuff
    <3> QED
      BY <1>3, <3>1, <3>2, <3>3, SilentPipes
  <2>4. ASSUME NEW a \in Nodes PROVE Silent(tcp[a], tcp'[a])
    <3>1. tcp'[a] = tcp[a] \/ (a = n /\ tcp'[a] = Append(tcp[a], TermAck(n)))
      BY <1>2, <1>6 DEF RecvInternalTerminate, PipeTypes
    <3>2. TermAck(n) \in TcpMsg /\ TermAck(n).type # "EPUpdateLog" /\ ~IsBuff(TermAck(n))
      BY TcpMsgType DEF TermAck, IsBuff
    <3> QED
      BY <1>3, <3>1, <3>2, SilentPipes
  <2>5. \A a \in Nodes : Silent(fwdPipe[a], fwdPipe'[a])
    BY <2>1 DEF Silent
  <2> QED
    BY <1>1, <2>1, <2>2, <2>3, <2>4, <2>5, LoopSame DEF Calm, CalmAt, recvVars, appVars
<1>7. CASE RecvInternalTerminateACK(n)
  <2>1. UNCHANGED <<logPipe, tcp, outBuff, updateStore>>
    BY <1>7 DEF RecvInternalTerminateACK, propStores
  <2>2. \A a \in Nodes : pState'[a] = "RUN" => pState[a] = "RUN"
    BY <1>2, <1>7 DEF RecvInternalTerminateACK, ExitIf, ControlTypes
  <2>3. ASSUME NEW a \in Nodes PROVE Silent(fwdPipe[a], fwdPipe'[a])
    <3>1. /\ fwdPipe[n] # <<>> /\ Head(fwdPipe[n]).type = "EPRecvInternalTerminateACK"
          /\ fwdPipe' = [fwdPipe EXCEPT ![n] = Tail(@)]
      BY <1>7 DEF RecvInternalTerminateACK, IsNext
    <3>2. fwdPipe'[a] = fwdPipe[a] \/ (a = n /\ fwdPipe'[a] = Tail(fwdPipe[a]))
      BY <1>2, <3>1 DEF PipeTypes
    <3>3. Head(fwdPipe[n]).type # "EPUpdateLog" /\ ~IsBuff(Head(fwdPipe[n]))
      BY <3>1 DEF IsBuff
    <3> QED
      BY <1>3, <3>1, <3>2, <3>3, SilentPipes
  <2>4. \A a \in Nodes : /\ Silent(tcp[a], tcp'[a])
                         /\ \A s \in Threads : Silent(logPipe[a][s], logPipe'[a][s])
    BY <2>1 DEF Silent
  <2> QED
    BY <1>1, <2>1, <2>2, <2>3, <2>4, LoopSame DEF Calm, CalmAt, recvVars, appVars
<1>8. CASE RecvEPRTerminate(n)
  <2>1. UNCHANGED <<logPipe, fwdPipe, outBuff, updateStore>>
    BY <1>8 DEF RecvEPRTerminate, propStores
  <2>2. \A a \in Nodes : pState'[a] = "RUN" => pState[a] = "RUN"
    BY <1>2, <1>8 DEF RecvEPRTerminate, ExitIf, ControlTypes
  <2>3. ASSUME NEW a \in Nodes PROVE Silent(tcp[a], tcp'[a])
    <3>1. tcp'[a] = tcp[a] \/ (a = n /\ tcp'[a] = Append(tcp[a], TermAck(n)))
      BY <1>2, <1>8 DEF RecvEPRTerminate, PipeTypes
    <3>2. TermAck(n) \in TcpMsg /\ TermAck(n).type # "EPUpdateLog" /\ ~IsBuff(TermAck(n))
      BY TcpMsgType DEF TermAck, IsBuff
    <3> QED
      BY <1>3, <3>1, <3>2, SilentPipes
  <2>4. \A a \in Nodes : /\ Silent(fwdPipe[a], fwdPipe'[a])
                         /\ \A s \in Threads : Silent(logPipe[a][s], logPipe'[a][s])
    BY <2>1 DEF Silent
  <2> QED
    BY <1>1, <2>1, <2>2, <2>3, <2>4, LoopSame DEF Calm, CalmAt, recvVars, appVars
<1> QED
  BY <1>1, <1>4, <1>5, <1>6, <1>7, <1>8
    DEF PropagatorNext, PropagatorStep, PutStep, FlushStep, SendStep, MergeStep

(* An update that moves from toApply to the table, in the store of both.   *)
LEMMA ApplyOne ==
    ASSUME NEW s \in Store, NEW d \in Store, NEW k \in d.keys
    PROVE  AddUpdates(AddUpdate(s, k, d.val[k]), Without(d, k)) = AddUpdates(s, d)
<1>1. PICK K, f, L, g :
        /\ K \in SUBSET AllKeys /\ f \in [AllKeys -> Value] /\ s = [keys |-> K, val |-> f]
        /\ L \in SUBSET AllKeys /\ g \in [AllKeys -> Value] /\ d = [keys |-> L, val |-> g]
  BY DEF Store
<1>2. s.keys = K /\ s.val = f /\ d.keys = L /\ d.val = g /\ k \in L /\ k \in AllKeys
  BY <1>1
<1>3. PICK h, e : /\ h = [f EXCEPT ![k] = VAdd(@, g[k])] /\ e = [g EXCEPT ![k] = Zero]
  OBVIOUS
<1>4. AddUpdate(s, k, d.val[k]) = [keys |-> K \cup {k}, val |-> h]
  BY <1>2, <1>3 DEF AddUpdate
<1>5. Without(d, k) = [keys |-> L \ {k}, val |-> e]
  BY <1>2, <1>3 DEF Without
<1>6. ASSUME NEW l \in AllKeys PROVE VAdd(h[l], e[l]) = VAdd(f[l], g[l])
  <2>1. CASE l # k
    BY <1>1, <1>3, <2>1
  <2>2. CASE l = k
    <3>1. h[l] = VAdd(f[l], g[l]) /\ e[l] = Zero
      BY <1>1, <1>3, <2>2
    <3>2. f[l] \in [Updates -> Int] /\ g[l] \in [Updates -> Int]
      BY <1>1 DEF Value
    <3> QED
      BY <3>1, <3>2 DEF VAdd, Zero
  <2> QED
    BY <2>1, <2>2
<1>7. (K \cup {k}) \cup (L \ {k}) = K \cup L
  BY <1>2
<1>8. [l \in AllKeys |-> VAdd(h[l], e[l])] = [l \in AllKeys |-> VAdd(f[l], g[l])]
  BY <1>6
<1>9. AddUpdates(AddUpdate(s, k, d.val[k]), Without(d, k))
        = [keys |-> (K \cup {k}) \cup (L \ {k}), val |-> [l \in AllKeys |-> VAdd(h[l], e[l])]]
  BY <1>4, <1>5 DEF AddUpdates
<1>10. AddUpdates(s, d) = [keys |-> K \cup L, val |-> [l \in AllKeys |-> VAdd(f[l], g[l])]]
  BY <1>2 DEF AddUpdates
<1> QED
  BY <1>7, <1>8, <1>9, <1>10

(* What is left is counted as before.                                      *)
LEMMA WithoutNat ==
    ASSUME NEW d, NatStore(d), NEW k \in d.keys
    PROVE  NatStore(Without(d, k))
<1>1. d \in Store /\ k \in AllKeys
  BY DEF NatStore, Store
<1>2. d.val \in [AllKeys -> Value]
  BY <1>1 DEF Store
<1>3. PICK e : e = [d.val EXCEPT ![k] = Zero]
  OBVIOUS
<1>4. \A l \in AllKeys : e[l] = IF l = k THEN Zero ELSE d.val[l]
  BY <1>2, <1>3
<1>5. Without(d, k).keys = d.keys \ {k} /\ Without(d, k).val = e
  BY <1>3 DEF Without
<1>6. \A l \in AllKeys, u \in Updates : e[l][u] \in Nat
  BY <1>4 DEF NatStore, Zero
<1>7. \A l \in AllKeys \ (d.keys \ {k}) : e[l] = Zero
  BY <1>4 DEF NatStore
<1>8. Without(d, k) \in Store
  BY <1>1, WithoutType
<1> QED
  BY <1>5, <1>6, <1>7, <1>8 DEF NatStore

(* One iteration of the loop, at the node and at the others.               *)
LEMMA LoopApplies ==
    ASSUME TypeInv, NEW n \in Nodes, ApplyUpdate(n), NEW a \in Nodes
    PROVE  /\ \A t \in Tables : Got(a, t)' = Got(a, t)
           /\ LoopInv(a) => LoopInv(a)'
<1>1. /\ storage \in [Nodes -> [Tables -> Store]] /\ toApply \in [Nodes -> [Tables -> Store]]
      /\ rPc \in [Nodes -> {"poll", "dedup", "apply", "exit"}]
  BY DEF TypeInv, TypeOK, InternalTableTypeOK, ReceiverTypeOK
<1>2. PICK t0 \in Tables : \E k \in toApply[n][t0].keys :
        /\ storage' = [storage EXCEPT ![n][t0] = AddUpdate(@, k, toApply[n][t0].val[k])]
        /\ toApply' = [toApply EXCEPT ![n][t0] = Without(toApply[n][t0], k)]
        /\ rPc' = [rPc EXCEPT ![n] = AfterApply(Without(toApply[n][t0], k))]
        /\ rPc[n] = "apply"
  BY DEF ApplyUpdate, IncRaw
<1>3. PICK k \in toApply[n][t0].keys :
        /\ storage' = [storage EXCEPT ![n][t0] = AddUpdate(@, k, toApply[n][t0].val[k])]
        /\ toApply' = [toApply EXCEPT ![n][t0] = Without(toApply[n][t0], k)]
        /\ rPc' = [rPc EXCEPT ![n] = AfterApply(Without(toApply[n][t0], k))]
        /\ rPc[n] = "apply"
  BY <1>2
<1>4. CASE a # n
  <2>1. storage'[a] = storage[a] /\ toApply'[a] = toApply[a] /\ rPc'[a] = rPc[a]
    BY <1>1, <1>3, <1>4
  <2> QED
    BY <2>1, LoopSame
<1>5. CASE a = n
  <2>1. PICK s, d : s = storage[n][t0] /\ d = toApply[n][t0]
    OBVIOUS
  <2>2. s \in Store /\ d \in Store /\ k \in d.keys /\ k \in AllKeys /\ d.val[k] \in Value
    BY <1>1, <1>3, <2>1 DEF Store
  <2>3. /\ storage'[n][t0] = AddUpdate(s, k, d.val[k]) /\ toApply'[n][t0] = Without(d, k)
        /\ \A t \in Tables \ {t0} :
            storage'[n][t] = storage[n][t] /\ toApply'[n][t] = toApply[n][t]
        /\ rPc'[n] = AfterApply(Without(d, k))
    BY <1>1, <1>3, <2>1
  <2>4. AddUpdates(AddUpdate(s, k, d.val[k]), Without(d, k)) = AddUpdates(s, d)
    BY <2>2, ApplyOne
  <2>5. ASSUME NEW t \in Tables PROVE Got(n, t)' = Got(n, t)
    <3>1. CASE t = t0
      BY <2>1, <2>3, <2>4, <3>1 DEF Got
    <3>2. CASE t # t0
      BY <2>3, <3>2 DEF Got
    <3> QED
      BY <3>1, <3>2
  <2>6. ASSUME LoopInv(n) PROVE LoopInv(n)'
    <3>1. NatStore(s) /\ NatStore(d) /\ d # EmptyStore
      BY <2>1, <2>2, <2>6 DEF LoopInv, EmptyStore
    <3>2. \A t \in Tables \ {t0} : toApply[n][t] = EmptyStore
      BY <2>1, <2>6, <3>1 DEF LoopInv
    <3>3. NatStore(Without(d, k))
      BY <2>2, <3>1, WithoutNat
    <3>4. NatStore(AddUpdate(s, k, d.val[k]))
      <4>1. \A u \in Updates : d.val[k][u] \in Nat
        BY <2>2, <3>1 DEF NatStore
      <4> QED
        BY <2>2, <3>1, <4>1, AddCount
    <3>5. \A t \in Tables : NatStore(storage'[n][t]) /\ NatStore(toApply'[n][t])
      BY <2>3, <2>6, <3>3, <3>4 DEF LoopInv
    <3>6. \A t \in Tables \ {t0} : toApply'[n][t] = EmptyStore
      BY <2>3, <3>2
    <3>7. rPc'[n] # "apply" => toApply'[n][t0] = EmptyStore
      BY <2>3, <3>3, AddNothing DEF AfterApply
    <3> QED
      BY <3>5, <3>6, <3>7 DEF LoopInv
  <2> QED
    BY <1>5, <2>5, <2>6
<1> QED
  BY <1>4, <1>5

(* The receivers.                                                          *)
LEMMA CalmReceiver ==
    ASSUME TypeInv, NEW n \in Nodes, ReceiverNext(n)
    PROVE  \/ Calm
           \/ \E m \in Nodes : TakeStep(n, m)
           \/ DedupStep(n)
<1>1. UNCHANGED <<timer, propVars, appVars>>
  BY DEF ReceiverNext
<1>2. ControlTypes /\ PipeTypes /\ DataTypes
  BY AllTypes
<1>3. \A a \in Nodes : tcp[a] \in Seq(TcpMsg) /\ fwdPipe[a] \in Seq(FwdMsg)
  BY <1>2 DEF PipeTypes
<1>9. CASE ApplyUpdate(n)
  <2>1. UNCHANGED <<logPipe, fwdPipe, tcp, rState>>
    BY <1>9 DEF ApplyUpdate, wireVars
  <2>2. ASSUME NEW a \in Nodes
        PROVE  (\A t \in Tables : Got(a, t)' = Got(a, t)) /\ (LoopInv(a) => LoopInv(a)')
    BY <1>9, <2>2, LoopApplies
  <2> QED
    BY <1>1, <2>1, <2>2 DEF Calm, CalmAt, Silent, propVars, propStores, appVars
<1> USE DEF propVars, propStores, appVars
<1>4. CASE RecvMyUpdates(n)
  BY <1>1, <1>4, CalmSame DEF RecvMyUpdates, Calm
<1>5. ASSUME NEW a \in Nodes, fwdPipe'[a] = fwdPipe[a] \/
                fwdPipe'[a] = Append(fwdPipe[a], Msg("EPRecvInternalTerminateACK"))
      PROVE  Silent(fwdPipe[a], fwdPipe'[a])
  <2>1. PICK m : m = Msg("EPRecvInternalTerminateACK")
    OBVIOUS
  <2>2. m \in FwdMsg /\ m.type # "EPUpdateLog" /\ ~IsBuff(m)
    BY <2>1 DEF Msg, IsBuff, FwdMsg
  <2> QED
    BY <1>3, <1>5, <2>1, <2>2, SilentPipes
<1>6. CASE RecvERInternalTerminate(n)
  <2>1. UNCHANGED <<logPipe, tcp, storage, toApply, rPc>>
    BY <1>6 DEF RecvERInternalTerminate
  <2>2. \A a \in Nodes : rState'[a] = "RUN" => rState[a] = "RUN"
    BY <1>2, <1>6 DEF RecvERInternalTerminate, ControlTypes
  <2>3. \A a \in Nodes : fwdPipe'[a] = fwdPipe[a] \/
                fwdPipe'[a] = Append(fwdPipe[a], Msg("EPRecvInternalTerminateACK"))
    BY <1>2, <1>6 DEF RecvERInternalTerminate, ReplyPairTerm, PipeTypes
  <2>4. \A a \in Nodes : /\ Silent(tcp[a], tcp'[a]) /\ Silent(fwdPipe[a], fwdPipe'[a])
                         /\ \A s \in Threads : Silent(logPipe[a][s], logPipe'[a][s])
    BY <1>5, <2>1, <2>3 DEF Silent
  <2> QED
    BY <1>1, <2>1, <2>2, <2>4, LoopSame DEF Calm, CalmAt
<1>7. CASE RecvEPRInternalTerminate(n)
  <2>1. UNCHANGED <<logPipe, tcp, storage, toApply>>
    BY <1>7 DEF RecvEPRInternalTerminate
  <2>2. \A a \in Nodes : /\ rState'[a] = "RUN" => rState[a] = "RUN"
                         /\ rPc[a] = "apply" => rPc'[a] = "apply"
    BY <1>2, <1>7 DEF RecvEPRInternalTerminate, RecvExitIf, ControlTypes, InternalBranch
  <2>3. \A a \in Nodes : fwdPipe'[a] = fwdPipe[a] \/
                fwdPipe'[a] = Append(fwdPipe[a], Msg("EPRecvInternalTerminateACK"))
    BY <1>2, <1>7 DEF RecvEPRInternalTerminate, ReplyPairTerm, PipeTypes
  <2>4. \A a \in Nodes : /\ Silent(tcp[a], tcp'[a]) /\ Silent(fwdPipe[a], fwdPipe'[a])
                         /\ \A s \in Threads : Silent(logPipe[a][s], logPipe'[a][s])
    BY <1>5, <2>1, <2>3 DEF Silent
  <2> QED
    BY <1>1, <2>1, <2>2, <2>4, LoopSame DEF Calm, CalmAt
<1>8. ASSUME NEW m \in Nodes, RecvTerminateACK(n, m) PROVE Calm
  <2>1. UNCHANGED <<logPipe, fwdPipe, storage, toApply>>
    BY <1>8 DEF RecvTerminateACK
  <2>2. \A a \in Nodes : /\ rState'[a] = "RUN" => rState[a] = "RUN"
                         /\ rPc[a] = "apply" => rPc'[a] = "apply"
    BY <1>2, <1>8 DEF RecvTerminateACK, RecvExitIf, ControlTypes, UpdateSockBranch, InternalBranch
  <2>3. ASSUME NEW a \in Nodes PROVE Silent(tcp[a], tcp'[a])
    <3>1. /\ tcp[m] # <<>> /\ Head(tcp[m]).type = "EPRTerminateACK"
          /\ tcp' = [tcp EXCEPT ![m] = Tail(@)]
      BY <1>8 DEF RecvTerminateACK, IsNext
    <3>2. tcp'[a] = tcp[a] \/ (a = m /\ tcp'[a] = Tail(tcp[a]))
      BY <1>2, <3>1 DEF PipeTypes
    <3>3. Head(tcp[m]).type # "EPUpdateLog" /\ ~IsBuff(Head(tcp[m]))
      BY <3>1 DEF IsBuff
    <3> QED
      BY <1>3, <3>1, <3>2, <3>3, SilentPipes
  <2>4. \A a \in Nodes : /\ Silent(fwdPipe[a], fwdPipe'[a])
                         /\ \A s \in Threads : Silent(logPipe[a][s], logPipe'[a][s])
    BY <2>1 DEF Silent
  <2> QED
    BY <1>1, <2>1, <2>2, <2>3, <2>4, LoopSame DEF Calm, CalmAt
<1> QED
  BY <1>1, <1>4, <1>6, <1>7, <1>8, <1>9 DEF ReceiverNext, ReceiverStep, TakeStep, DedupStep

(* Every step is calm or one of the eight.                                 *)
LEMMA CalmSteps ==
    ASSUME TypeInv, [Next]_vars
    PROVE  \/ Calm
           \/ \E n \in Nodes :
                \/ \E th \in Threads :
                    HandStep(n, th) \/ \E t \in Tables, k \in Keys : MakeStep(n, th, t, k)
                \/ \E th \in Threads : PutStep(n, th)
                \/ \E t \in Tables : FlushStep(n, t)
                \/ SendStep(n)
                \/ MergeStep(n)
                \/ \E m \in Nodes : TakeStep(n, m)
                \/ DedupStep(n)
<1>1. CASE UNCHANGED vars
  <2>1. UNCHANGED <<wireVars, propVars, storage, recvVars, appVars>>
    BY <1>1 DEF vars
  <2> QED
    BY <2>1, CalmSame DEF Calm, wireVars, propVars, propStores, recvVars, appVars
<1>2. CASE Stop
  BY <1>1, <1>2 DEF Stop
<1> QED
  BY <1>1, <1>2, CalmTimer, CalmApplication, CalmPropagator, CalmReceiver DEF Next

(* Propagator::Inc hands message m of thread th over to the propagator, or *)
(* drops it once the propagator has left RUN.                              *)
HandDoes(n, th, m) ==
    /\ m \in LogMsg /\ m.type = "EPUpdateLog"
    /\ thr[n][th] = "inc" /\ thr'[n][th] = "idle"
    /\ pend[n][th] = <<m>> /\ pend'[n][th] = <<>>
    /\ logPipe'[n][th] = IF pState[n] = "RUN" THEN Append(logPipe[n][th], m) ELSE logPipe[n][th]
    /\ \A a \in Nodes, s \in Threads : (a # n \/ s # th) =>
        /\ thr'[a][s] = thr[a][s] /\ pend'[a][s] = pend[a][s]
        /\ logPipe'[a][s] = logPipe[a][s]
    /\ UNCHANGED <<fwdPipe, tcp, storage, incs, propVars, recvVars>>

(* The second half of Inc.                                                 *)
LEMMA HandEffect ==
    ASSUME FlowInv, NEW n \in Nodes, NatInv(n), NEW th \in Threads, HandStep(n, th)
    PROVE  \E m : HandDoes(n, th, m)
<1>1. /\ TypeInv /\ Phases(n) /\ PipeTypes
      /\ thr \in [Nodes -> [Threads -> {"new", "idle", "inc", "sigRecv",
                                        "waitProp", "waitRecv", "down", "gone"}]]
  BY FlowParts DEF TypeInv, TypeOK, ApplicationTypeOK
<1>2. /\ PropagatorInc(n, th) /\ UNCHANGED <<propVars, recvVars>>
      /\ thr[n][th] = "inc"
  BY DEF HandStep, PropagatorInc, Goto
<1>3. pend[n][th] \in Seq(LogMsg) /\ Len(pend[n][th]) = 1
  BY <1>1, <1>2 DEF PipeTypes, NatInv, ThreadsNat
<1>4. PICK m : m = pend[n][th][1]
  OBVIOUS
<1>5. pend[n][th] = <<m>> /\ m \in LogMsg
  BY <1>3, <1>4
<1>6. m.type = "EPUpdateLog"
  <2>1. m.type # "EPInternalTerminate"
    BY <1>1, <1>3, <1>4 DEF Phases, LogPhase, NoneIn
  <2> QED
    BY <1>5, <2>1 DEF LogMsg
<1>7. /\ thr' = [thr EXCEPT ![n][th] = "idle"]
      /\ pend' = [pend EXCEPT ![n][th] = <<>>]
      /\ logPipe' = IF pState[n] = "RUN"
                    THEN [logPipe EXCEPT ![n][th] = @ \o <<m>>] ELSE logPipe
      /\ UNCHANGED <<fwdPipe, tcp, storage, incs>>
  BY <1>2, <1>5 DEF PropagatorInc, Goto, Enqueue
<1>8. logPipe[n][th] \in Seq(LogMsg)
  BY <1>1 DEF PipeTypes
<1>9. logPipe[n][th] \o <<m>> = Append(logPipe[n][th], m)
  BY <1>5, <1>8
<1>10. thr'[n][th] = "idle" /\ \A a \in Nodes, s \in Threads : (a # n \/ s # th) => thr'[a][s] = thr[a][s]
  BY <1>1, <1>7
<1>11. pend'[n][th] = <<>> /\ \A a \in Nodes, s \in Threads : (a # n \/ s # th) => pend'[a][s] = pend[a][s]
  BY <1>1, <1>7 DEF PipeTypes
<1>12. /\ logPipe'[n][th] =
            IF pState[n] = "RUN" THEN Append(logPipe[n][th], m) ELSE logPipe[n][th]
       /\ \A a \in Nodes, s \in Threads : (a # n \/ s # th) => logPipe'[a][s] = logPipe[a][s]
  BY <1>1, <1>7, <1>9 DEF PipeTypes
<1>13. HandDoes(n, th, m)
  BY <1>2, <1>5, <1>6, <1>7, <1>10, <1>11, <1>12 DEF HandDoes
<1> QED
  BY <1>13

(* The updates of one message.                                             *)
LEMMA OneMessage ==
    ASSUME NEW m, NatMsg(m), NEW t, NEW u \in Updates
    PROVE  InPipe(<<m>>, t, u) = InMessage(m, t, u) /\ InPipe(<<>>, t, u) = 0
<1>1. PICK S : S = {m}
  OBVIOUS
<1>2. m \in S /\ <<>> \in Seq(S) /\ NatPipe(<<>>) /\ Append(<<>>, m) = <<m>>
  BY <1>1 DEF NatPipe
<1>3. PICK q : q = <<>>
  OBVIOUS
<1>4. q \in Seq(S) /\ NatPipe(q) /\ \A i \in 1 .. Len(q) : InMessage(q[i], t, u) = 0
  BY <1>2, <1>3
<1>5. InPipe(q, t, u) = 0
  BY ONLY <1>4, u \in Updates, PipeCount
<1>6. \A s, v : v \in Updates => InPipe(Append(q, m), s, v) = InMessage(m, s, v) + InPipe(q, s, v)
  <2>1. q \in Seq(S) /\ NatPipe(q) /\ m \in S /\ NatMsg(m)
    BY <1>2, <1>4
  <2> QED
    BY ONLY <2>1, PipeMoves
<1>7. InMessage(m, t, u) \in Nat
  BY MessageCount
<1> QED
  BY <1>2, <1>3, <1>5, <1>6, <1>7

(* It is on its way before and after.                                      *)
LEMMA HandMoves ==
    ASSUME FlowInv, FlowInv', \A a \in Nodes : NatInv(a), NEW n \in Nodes, NEW th \in Threads,
           NEW m, HandDoes(n, th, m)
    PROVE  \A a \in Nodes : AllSteady(a)
<1>1. TypeInv /\ TypeInv' /\ PipeTypes
  BY FlowParts DEF FlowInv, ShutdownInv
<1>2. UNCHANGED <<fwdPipe, tcp, storage, toApply, rPc, incs, outBuff, updateStore, pState, rState>>
  BY DEF HandDoes, propVars, propStores, recvVars
<1>3. ASSUME NEW a \in Nodes, a # n PROVE AllSteady(a)
  <2>1. \A s \in Threads : /\ thr'[a][s] = thr[a][s] /\ pend'[a][s] = pend[a][s]
                           /\ logPipe'[a][s] = logPipe[a][s]
    BY <1>3 DEF HandDoes
  <2>2. pend'[a] = pend[a]
    <3>1. pend'[a] \in [Threads -> Seq(LogMsg)] /\ pend[a] \in [Threads -> Seq(LogMsg)]
      BY <1>1, AllTypes DEF TypeInv, TypeOK, ApplicationTypeOK
    <3> QED
      BY <2>1, <3>1
  <2>3. CalmAt(a)
    BY <1>2, <2>1, <2>2, LoopSame DEF CalmAt, Silent
  <2> QED
    BY <1>1, <2>3, CalmSteady
<1>4. AllSteady(n)
  <2>1. /\ logPipe[n][th] \in Seq(LogMsg) /\ NatPipe(logPipe[n][th]) /\ NatPipe(<<m>>)
        /\ m \in LogMsg
    BY <1>1 DEF PipeTypes, NatInv, ThreadsNat, HandDoes
  <2>2. NatMsg(m)
    <3>1. Len(<<m>>) = 1 /\ <<m>>[1] = m
      OBVIOUS
    <3> QED
      BY <2>1, <3>1 DEF NatPipe
  <2>3. /\ NatPipe(Append(logPipe[n][th], m))
        /\ \A t, u : u \in Updates =>
            InPipe(Append(logPipe[n][th], m), t, u) = InMessage(m, t, u) + InPipe(logPipe[n][th], t, u)
    BY ONLY <2>1, <2>2, PipeMoves
  <2>4. NatPipe(<<>>)
    BY DEF NatPipe
  <2>5. ThreadsNat(n)'
    <3> SUFFICES ASSUME NEW s \in Threads
                 PROVE  /\ NatPipe(pend'[n][s]) /\ NatPipe(logPipe'[n][s])
                        /\ IF thr'[n][s] = "inc" THEN Len(pend'[n][s]) = 1 ELSE pend'[n][s] = <<>>
      BY DEF ThreadsNat
    <3>1. CASE s = th
      BY <2>1, <2>3, <2>4, <3>1 DEF HandDoes
    <3>2. CASE s # th
      BY <3>2 DEF HandDoes, NatInv, ThreadsNat
    <3> QED
      BY <3>1, <3>2
  <2>6. NatInv(n)'
    BY <1>2, <2>5, LoopSame DEF NatInv, StoresNat, PipesNat
  <2>7. ASSUME NEW t \in Tables, NEW u \in Updates PROVE Steady(n, t, u)
    <3>1. \A s \in Threads \ {th} : pend'[n][s] = pend[n][s] /\ logPipe'[n][s] = logPipe[n][s]
      BY DEF HandDoes
    <3>2. FromThreads(n, t, u)' =
                FromThreads(n, t, u)
                    + ((InPipe(pend'[n][th], t, u) + InPipe(logPipe'[n][th], t, u))
                        - (InPipe(pend[n][th], t, u) + InPipe(logPipe[n][th], t, u)))
      BY ONLY <1>1, n \in Nodes, NatInv(n), <2>5, th \in Threads, <3>1, t \in Tables,
        u \in Updates, ThreadMoves
    <3>3. /\ InPipe(pend[n][th], t, u) = InMessage(m, t, u) /\ InPipe(pend'[n][th], t, u) = 0
          /\ InMessage(m, t, u) \in Nat
      BY <2>2, OneMessage, MessageCount DEF HandDoes
    <3>4. InPipe(logPipe'[n][th], t, u) =
            IF pState[n] = "RUN" THEN InMessage(m, t, u) + InPipe(logPipe[n][th], t, u)
            ELSE InPipe(logPipe[n][th], t, u)
      BY <2>3 DEF HandDoes
    <3>5. /\ FromThreads(n, t, u) \in Nat /\ InPipe(fwdPipe[n], t, u) \in Nat
          /\ InStore(updateStore[n][t], u) \in Nat
          /\ InPipe(outBuff[n], t, u) \in Nat /\ InPipe(tcp[n], t, u) \in Nat
          /\ InPipe(logPipe[n][th], t, u) \in Nat
      BY <1>1, WayCount
    <3>6. OnTheWay(n, t, u)' =
            FromThreads(n, t, u)' + InPipe(fwdPipe[n], t, u) + InStore(updateStore[n][t], u)
                + InPipe(outBuff[n], t, u) + InPipe(tcp[n], t, u)
      BY <1>2 DEF OnTheWay
    <3>7. Reached(n, t, u)' = Reached(n, t, u)
      BY <1>2 DEF Reached, Got
    <3>8. FromThreads(n, t, u)' = IF pState[n] = "RUN" THEN FromThreads(n, t, u)
                                  ELSE FromThreads(n, t, u) - InMessage(m, t, u)
      BY <3>2, <3>3, <3>4, <3>5
    <3> QED
      BY <1>2, <3>3, <3>5, <3>6, <3>7, <3>8 DEF Steady, Sends, OnTheWay
  <2> QED
    BY <2>6, <2>7 DEF AllSteady
<1> QED
  BY <1>3, <1>4

(* Inc applies a new update to key k of table t, and makes the message.    *)
NewToken(n) == <<n, incs[n]>>

NewLog(n, t, k) ==
    [type |-> "EPUpdateLog", table |-> t, key |-> NarrowKey(k), delta |-> Delta(NewToken(n))]

MakeDoes(n, th, t, k) ==
    /\ incs[n] \in Nat /\ NewToken(n) \in Updates /\ incs'[n] = incs[n] + 1
    /\ k \in AllKeys /\ NewLog(n, t, k) \in LogMsg
    /\ thr[n][th] = "idle" /\ thr'[n][th] = "inc"
    /\ pend'[n][th] = <<NewLog(n, t, k)>>
    /\ storage'[n][t] = AddUpdate(storage[n][t], k, Delta(NewToken(n)))
    /\ \A a \in Nodes, s \in Tables : (a # n \/ s # t) => storage'[a][s] = storage[a][s]
    /\ \A a \in Nodes, s \in Threads : (a # n \/ s # th) =>
        thr'[a][s] = thr[a][s] /\ pend'[a][s] = pend[a][s]
    /\ \A a \in Nodes \ {n} : incs'[a] = incs[a]
    /\ UNCHANGED <<logPipe, fwdPipe, tcp, propVars, recvVars>>

(* The first half of Inc.                                                  *)
LEMMA MakeEffect ==
    ASSUME FlowInv, NEW n \in Nodes, NEW th \in Threads, NEW t \in Tables, NEW k \in Keys,
           MakeStep(n, th, t, k)
    PROVE  MakeDoes(n, th, t, k) /\ n \in Writers
<1>1. /\ TypeInv /\ PipeTypes
      /\ thr \in [Nodes -> [Threads -> {"new", "idle", "inc", "sigRecv",
                                        "waitProp", "waitRecv", "down", "gone"}]]
      /\ incs \in [Nodes -> 0 .. MaxInc] /\ storage \in [Nodes -> [Tables -> Store]]
  BY FlowParts DEF TypeInv, TypeOK, ApplicationTypeOK, InternalTableTypeOK
<1>2. Inc(n, th, t, k) /\ UNCHANGED <<propVars, recvVars>>
  BY DEF MakeStep
<1>3. PICK m : m = NewLog(n, t, k)
  OBVIOUS
<1>4. /\ n \in Writers /\ incs[n] < MaxInc /\ thr[n][th] = "idle"
      /\ thr' = [thr EXCEPT ![n][th] = "inc"]
      /\ storage' = [storage EXCEPT ![n][t] = AddUpdate(@, k, Delta(NewToken(n)))]
      /\ pend' = [pend EXCEPT ![n][th] = <<m>>]
      /\ incs' = [incs EXCEPT ![n] = @ + 1]
      /\ UNCHANGED <<logPipe, fwdPipe, tcp>>
  BY <1>2, <1>3 DEF Inc, Goto, IncRaw, NewToken, NewLog, wireVars
<1>5. incs[n] \in Nat /\ NewToken(n) \in Updates
  BY <1>1, <1>4, ApplicationAssumption DEF NewToken, Updates
<1>6. Delta(NewToken(n)) \in Value
  BY DEF Delta, Value
<1>7. k \in AllKeys /\ NarrowKey(k) \in AllKeys
  BY DEF AllKeys
<1>8. m \in LogMsg
  BY <1>3, <1>6, <1>7, LogMsgType DEF NewLog
<1>9. thr'[n][th] = "inc" /\ \A a \in Nodes, s \in Threads : (a # n \/ s # th) => thr'[a][s] = thr[a][s]
  BY <1>1, <1>4
<1>10. pend'[n][th] = <<m>> /\ \A a \in Nodes, s \in Threads : (a # n \/ s # th) => pend'[a][s] = pend[a][s]
  BY <1>1, <1>4 DEF PipeTypes
<1>11. /\ storage'[n][t] = AddUpdate(storage[n][t], k, Delta(NewToken(n)))
       /\ \A a \in Nodes, s \in Tables : (a # n \/ s # t) => storage'[a][s] = storage[a][s]
  BY <1>1, <1>4
<1>12. incs'[n] = incs[n] + 1 /\ \A a \in Nodes \ {n} : incs'[a] = incs[a]
  BY <1>1, <1>4
<1> QED
  BY <1>2, <1>3, <1>4, <1>5, <1>7, <1>8, <1>9, <1>10, <1>11, <1>12 DEF MakeDoes

(* The new update reaches the table as it is applied.                      *)
LEMMA MakeKnown ==
    ASSUME NEW n \in Nodes, LoopInv(n), NEW th \in Threads, NEW t \in Tables, NEW k,
           MakeDoes(n, th, t, k)
    PROVE  /\ Got(n, t)' = AddUpdate(Got(n, t), k, Delta(NewToken(n)))
           /\ \A a \in Nodes, s \in Tables : (a # n \/ s # t) => Got(a, s)' = Got(a, s)
<1>1. PICK s, d, e : s = storage[n][t] /\ d = toApply[n][t] /\ e = Delta(NewToken(n))
  OBVIOUS
<1>2. s \in Store /\ d \in Store /\ k \in AllKeys /\ e \in [Updates -> Int]
  BY <1>1 DEF LoopInv, NatStore, MakeDoes, Delta
<1>3. PICK K, f, L, g :
        /\ K \in SUBSET AllKeys /\ f \in [AllKeys -> Value] /\ s = [keys |-> K, val |-> f]
        /\ L \in SUBSET AllKeys /\ g \in [AllKeys -> Value] /\ d = [keys |-> L, val |-> g]
  BY <1>2 DEF Store
<1>4. PICK h, i : /\ h = [f EXCEPT ![k] = VAdd(@, e)]
                  /\ i = [l \in AllKeys |-> VAdd(f[l], g[l])]
  OBVIOUS
<1>5. ASSUME NEW l \in AllKeys
      PROVE  VAdd(h[l], g[l]) = [i EXCEPT ![k] = VAdd(@, e)][l]
  <2>1. CASE l # k
    BY <1>3, <1>4, <2>1
  <2>2. CASE l = k
    <3>1. h[l] = VAdd(f[l], e) /\ [i EXCEPT ![k] = VAdd(@, e)][l] = VAdd(VAdd(f[l], g[l]), e)
      BY <1>3, <1>4, <2>2
    <3>2. f[l] \in [Updates -> Int] /\ g[l] \in [Updates -> Int]
      BY <1>3 DEF Value
    <3>3. ASSUME NEW u \in Updates
          PROVE  (f[l][u] + e[u]) + g[l][u] = (f[l][u] + g[l][u]) + e[u]
      BY <1>2, <3>2
    <3> QED
      BY <3>1, <3>3 DEF VAdd
  <2> QED
    BY <2>1, <2>2
<1>6. [l \in AllKeys |-> VAdd(h[l], g[l])] = [i EXCEPT ![k] = VAdd(@, e)]
  BY <1>4, <1>5
<1>7. AddUpdates(AddUpdate(s, k, e), d)
        = [keys |-> (K \cup {k}) \cup L, val |-> [l \in AllKeys |-> VAdd(h[l], g[l])]]
  BY <1>3, <1>4 DEF AddUpdates, AddUpdate
<1>8. AddUpdate(AddUpdates(s, d), k, e)
        = [keys |-> (K \cup L) \cup {k}, val |-> [i EXCEPT ![k] = VAdd(@, e)]]
  BY <1>3, <1>4 DEF AddUpdates, AddUpdate
<1>9. AddUpdates(AddUpdate(s, k, e), d) = AddUpdate(AddUpdates(s, d), k, e)
  BY <1>6, <1>7, <1>8
<1>10. toApply' = toApply
  BY DEF MakeDoes, recvVars
<1>11. Got(n, t)' = AddUpdate(Got(n, t), k, e)
  BY <1>1, <1>9, <1>10 DEF Got, MakeDoes
<1> QED
  BY <1>1, <1>10, <1>11 DEF Got, MakeDoes

(* One more of the new update at node n, in the table and on its way.      *)
Makes(n, t0) ==
    \A a \in Nodes :
        /\ NatInv(a)'
        /\ \A t \in Tables, u \in Updates :
            LET c == IF a = n /\ t = t0 /\ u = NewToken(n) THEN 1 ELSE 0
            IN  /\ Reached(a, t, u)' = Reached(a, t, u) + c
                /\ FromThreads(a, t, u)' = FromThreads(a, t, u) + c
                /\ OnTheWay(a, t, u)' = OnTheWay(a, t, u) + c

(* What Inc does to the account.                                           *)
LEMMA MakeMoves ==
    ASSUME FlowInv, FlowInv', \A a \in Nodes : NatInv(a), NEW n \in Nodes, NEW th \in Threads,
           NEW t0 \in Tables, NEW k, MakeDoes(n, th, t0, k)
    PROVE  Makes(n, t0)
<1>1. TypeInv /\ TypeInv' /\ PipeTypes
  BY FlowParts DEF FlowInv, ShutdownInv
<1>2. PICK d, m : d = Delta(NewToken(n)) /\ m = NewLog(n, t0, k)
  OBVIOUS
<1>3. /\ d \in Value /\ \A u \in Updates : d[u] = IF u = NewToken(n) THEN 1 ELSE 0
      /\ m.type = "EPUpdateLog" /\ m.table = t0 /\ m.delta = d /\ m \in LogMsg /\ k \in AllKeys
  BY <1>2 DEF Delta, Value, NewLog, MakeDoes
<1>4. UNCHANGED <<logPipe, fwdPipe, tcp, outBuff, updateStore, pState, rState, toApply, rPc>>
  BY DEF MakeDoes, propVars, propStores, recvVars
<1>5. NatMsg(m)
  BY <1>3 DEF NatMsg, IsBuff
<1>6. /\ pend[n][th] = <<>> /\ pend'[n][th] = <<m>>
      /\ \A a \in Nodes, s \in Threads : (a # n \/ s # th) =>
            thr'[a][s] = thr[a][s] /\ pend'[a][s] = pend[a][s]
      /\ thr'[n][th] = "inc"
      /\ storage'[n][t0] = AddUpdate(storage[n][t0], k, d)
      /\ \A a \in Nodes, s \in Tables : (a # n \/ s # t0) => storage'[a][s] = storage[a][s]
  BY <1>2 DEF MakeDoes, NatInv, ThreadsNat
<1>7. ASSUME NEW a \in Nodes PROVE StoresNat(a)'
  <2>1. ASSUME NEW t \in Tables
        PROVE  NatStore(updateStore'[a][t]) /\ NatStore(storage'[a][t])
    <3>1. NatStore(updateStore[a][t]) /\ NatStore(storage[a][t])
      BY DEF NatInv, StoresNat, LoopInv
    <3>2. NatStore(AddUpdate(storage[a][t], k, d))
      BY <1>3, <3>1, AddCount
    <3> QED
      BY <1>4, <1>6, <3>1, <3>2
  <2> QED
    BY <1>4, <2>1 DEF NatInv, StoresNat, LoopInv
<1>8. ASSUME NEW a \in Nodes PROVE ThreadsNat(a)'
  <2> SUFFICES ASSUME NEW s \in Threads
               PROVE  /\ NatPipe(pend'[a][s]) /\ NatPipe(logPipe'[a][s])
                      /\ IF thr'[a][s] = "inc" THEN Len(pend'[a][s]) = 1 ELSE pend'[a][s] = <<>>
    BY DEF ThreadsNat
  <2>1. CASE a = n /\ s = th
    <3>1. Len(<<m>>) = 1 /\ <<m>>[1] = m
      OBVIOUS
    <3>2. NatPipe(<<m>>)
      BY <1>5, <3>1 DEF NatPipe
    <3> QED
      BY <1>4, <1>6, <2>1, <3>1, <3>2 DEF NatInv, ThreadsNat
  <2>2. CASE a # n \/ s # th
    BY <1>4, <1>6, <2>2 DEF NatInv, ThreadsNat
  <2> QED
    BY <2>1, <2>2
<1>9. ASSUME NEW a \in Nodes PROVE NatInv(a)'
  BY <1>4, <1>7, <1>8 DEF NatInv, PipesNat
<1>10. ASSUME NEW a \in Nodes, NEW t \in Tables, NEW u \in Updates,
              NEW c, c = IF a = n /\ t = t0 /\ u = NewToken(n) THEN 1 ELSE 0
       PROVE  /\ Reached(a, t, u)' = Reached(a, t, u) + c
              /\ FromThreads(a, t, u)' = FromThreads(a, t, u) + c
              /\ OnTheWay(a, t, u)' = OnTheWay(a, t, u) + c
  <2>0. LoopInv(a) /\ NatStore(storage'[a][t]) /\ NatStore(toApply[a][t])
    BY <1>7 DEF NatInv, StoresNat, LoopInv
  <2>1. /\ Reached(a, t, u)' = InStore(storage'[a][t], u) + InStore(toApply[a][t], u)
        /\ Reached(a, t, u) = InStore(storage[a][t], u) + InStore(toApply[a][t], u)
        /\ InStore(storage[a][t], u) \in Nat /\ InStore(toApply[a][t], u) \in Nat
    <3>1. Reached(a, t, u)' = InStore(AddUpdates(storage'[a][t], toApply[a][t]), u)
      BY <1>4 DEF Reached, Got
    <3>2. InStore(AddUpdates(storage'[a][t], toApply[a][t]), u)
            = InStore(storage'[a][t], u) + InStore(toApply[a][t], u)
      BY <2>0, AddAllCount
    <3>3. NatStore(storage[a][t])
      BY <2>0 DEF LoopInv
    <3> QED
      BY <2>0, <3>1, <3>2, <3>3, KnownCount, StoreCount
  <2>2. /\ Reached(a, t, u) \in Nat
        /\ FromThreads(a, t, u) \in Nat /\ InPipe(fwdPipe[a], t, u) \in Nat
        /\ InStore(updateStore[a][t], u) \in Nat
        /\ InPipe(outBuff[a], t, u) \in Nat /\ InPipe(tcp[a], t, u) \in Nat
        /\ \A s \in Threads : InPipe(logPipe[a][s], t, u) \in Nat
    BY <1>1, WayCount
  <2>3. OnTheWay(a, t, u)' =
            FromThreads(a, t, u)' + InPipe(fwdPipe[a], t, u) + InStore(updateStore[a][t], u)
                + InPipe(outBuff[a], t, u) + InPipe(tcp[a], t, u)
    BY <1>4 DEF OnTheWay
  <2>4. CASE a = n
    <3>1. \A s \in Threads \ {th} : pend'[n][s] = pend[n][s] /\ logPipe'[n][s] = logPipe[n][s]
      BY <1>4, <1>6
    <3>2. ThreadsNat(n)'
      BY <1>8
    <3>3. FromThreads(n, t, u)' =
                FromThreads(n, t, u)
                    + ((InPipe(pend'[n][th], t, u) + InPipe(logPipe'[n][th], t, u))
                        - (InPipe(pend[n][th], t, u) + InPipe(logPipe[n][th], t, u)))
      <4>1. NatInv(n)
        OBVIOUS
      <4> QED
        BY ONLY <1>1, n \in Nodes, <4>1, <3>2, th \in Threads, <3>1, t \in Tables,
          u \in Updates, ThreadMoves
    <3>4. InMessage(m, t, u) = c
      BY <1>3, <1>5, <1>10, <2>4, MessageCount
    <3>5. InPipe(pend[n][th], t, u) = 0 /\ InPipe(pend'[n][th], t, u) = c
      BY <1>5, <1>6, <3>4, OneMessage
    <3>6. FromThreads(n, t, u)' = FromThreads(n, t, u) + c /\ c \in Nat
      BY <1>4, <1>10, <2>2, <2>4, <3>3, <3>5
    <3>7. InStore(storage'[n][t], u) = InStore(storage[n][t], u) + c
      <4>1. CASE t = t0
        <5>1. NatStore(storage[n][t0])
          BY DEF NatInv, StoresNat, LoopInv
        <5>2. InStore(AddUpdate(storage[n][t0], k, d), u) = InStore(storage[n][t0], u) + d[u]
          BY <1>3, <5>1, AddCount
        <5> QED
          BY <1>3, <1>6, <1>10, <2>4, <4>1, <5>2
      <4>2. CASE t # t0
        BY <1>6, <1>10, <2>1, <2>4, <4>2
      <4> QED
        BY <4>1, <4>2
    <3> QED
      BY <2>1, <2>2, <2>3, <2>4, <3>6, <3>7 DEF OnTheWay
  <2>5. CASE a # n
    <3>1. \A s \in Threads : pend'[a][s] = pend[a][s]
      BY <1>6, <2>5
    <3>2. FromThreads(a, t, u)' = FromThreads(a, t, u)
      <4>1. [s \in Threads |-> InPipe(pend'[a][s], t, u) + InPipe(logPipe'[a][s], t, u)]
              = [s \in Threads |-> InPipe(pend[a][s], t, u) + InPipe(logPipe[a][s], t, u)]
        BY <1>4, <3>1
      <4> QED
        BY <4>1 DEF FromThreads
    <3>3. storage'[a][t] = storage[a][t] /\ c = 0
      BY <1>6, <1>10, <2>5
    <3> QED
      BY <2>1, <2>2, <2>3, <3>2, <3>3 DEF OnTheWay
  <2> QED
    BY <2>4, <2>5
<1> QED
  BY <1>9, <1>10 DEF Makes

(* Message m, an EPUpdateLog of thread th, is merged in the store of its   *)
(* table, or dropped once terminating or without a batch interval.         *)
PutDoes(n, th, m) ==
    /\ m \in LogMsg /\ m.type = "EPUpdateLog" /\ m.table \in Tables
    /\ m.key \in AllKeys /\ m.delta \in Value
    /\ pPc[n] = "poll" /\ logPipe[n][th] # <<>> /\ m = Head(logPipe[n][th])
    /\ logPipe'[n][th] = Tail(logPipe[n][th])
    /\ \A a \in Nodes, s \in Threads : (a # n \/ s # th) => logPipe'[a][s] = logPipe[a][s]
    /\ updateStore'[n][m.table] =
        IF pState[n] = "RUN" /\ n \in Batched
        THEN AddUpdate(updateStore[n][m.table], m.key, m.delta) ELSE updateStore[n][m.table]
    /\ pState[n] = "RUN" =>
        /\ myUpdateRange'[n][m.table].st = myUpdateRange[n][m.table].st
        /\ myUpdateRange'[n][m.table].end = myUpdateRange[n][m.table].end + 1
    /\ \A a \in Nodes, s \in Tables : (a # n \/ s # m.table \/ pState[n] # "RUN") =>
        /\ updateStore'[a][s] = updateStore[a][s]
        /\ myUpdateRange'[a][s] = myUpdateRange[a][s]
    /\ UNCHANGED <<fwdPipe, tcp, outBuff, pPc, pState, peerUpdateRange, storage, recvVars, appVars>>

(* EPUpdateLog.                                                            *)
LEMMA PutEffect ==
    ASSUME FlowInv, NEW n \in Nodes, NEW th \in Threads, PutStep(n, th)
    PROVE  \E m : PutDoes(n, th, m)
<1>1. PipeTypes /\ DataTypes
  BY FlowParts
<1>2. RecvUpdateLog(n, th) /\ UNCHANGED <<storage, recvVars, appVars>>
  BY DEF PutStep
<1>3. PICK m : m = Head(logPipe[n][th])
  OBVIOUS
<1>4. /\ logPipe[n][th] # <<>> /\ m.type = "EPUpdateLog" /\ pPc[n] = "poll"
      /\ logPipe' = [logPipe EXCEPT ![n][th] = Tail(@)]
      /\ UNCHANGED <<fwdPipe, tcp, outBuff, pPc, pState, peerUpdateRange>>
  BY <1>2, <1>3 DEF RecvUpdateLog, IsNext, UpdateBranch, Polling
<1>5. m \in LogMsg
  BY <1>1, <1>3, <1>4 DEF PipeTypes
<1>6. m.table \in Tables /\ m.key \in AllKeys /\ m.delta \in Value
  BY <1>4, <1>5, LogMsgType
<1>7. PICK t : t = m.table
  OBVIOUS
<1>8. /\ myUpdateRange' = IF pState[n] = "RUN"
                THEN [myUpdateRange EXCEPT ![n][t].end = @ + 1] ELSE myUpdateRange
      /\ updateStore' = IF pState[n] = "RUN" /\ n \in Batched
                THEN [updateStore EXCEPT ![n][t] = AddUpdate(@, m.key, m.delta)]
                ELSE updateStore
  BY <1>2, <1>3, <1>7 DEF RecvUpdateLog
<1>9. /\ logPipe'[n][th] = Tail(logPipe[n][th])
      /\ \A a \in Nodes, s \in Threads : (a # n \/ s # th) => logPipe'[a][s] = logPipe[a][s]
  BY <1>1, <1>4 DEF PipeTypes
<1>10. /\ updateStore'[n][t] =
            IF pState[n] = "RUN" /\ n \in Batched
            THEN AddUpdate(updateStore[n][t], m.key, m.delta) ELSE updateStore[n][t]
       /\ \A a \in Nodes, s \in Tables : (a # n \/ s # t \/ pState[n] # "RUN") =>
            updateStore'[a][s] = updateStore[a][s]
  BY <1>1, <1>6, <1>7, <1>8 DEF DataTypes
<1>11. myUpdateRange[n][t] \in UpdateRange
  BY <1>1, <1>6, <1>7 DEF DataTypes
<1>12. pState[n] = "RUN" => myUpdateRange'[n][t] = [myUpdateRange[n][t] EXCEPT !.end = @ + 1]
  BY <1>1, <1>6, <1>7, <1>8 DEF DataTypes
<1>13. pState[n] = "RUN" =>
            /\ myUpdateRange'[n][t].st = myUpdateRange[n][t].st
            /\ myUpdateRange'[n][t].end = myUpdateRange[n][t].end + 1
  BY <1>11, <1>12 DEF UpdateRange
<1>14. \A a \in Nodes, s \in Tables : (a # n \/ s # t \/ pState[n] # "RUN") =>
            myUpdateRange'[a][s] = myUpdateRange[a][s]
  BY <1>1, <1>6, <1>7, <1>8 DEF DataTypes
<1>15. /\ updateStore'[n][m.table] =
            IF pState[n] = "RUN" /\ n \in Batched
            THEN AddUpdate(updateStore[n][m.table], m.key, m.delta) ELSE updateStore[n][m.table]
       /\ \A a \in Nodes, s \in Tables : (a # n \/ s # m.table \/ pState[n] # "RUN") =>
            updateStore'[a][s] = updateStore[a][s]
  BY ONLY <1>7, <1>10
<1>16. PutDoes(n, th, m)
  BY <1>2, <1>3, <1>4, <1>5, <1>6, <1>7, <1>9, <1>13, <1>14, <1>15 DEF PutDoes
<1> QED
  BY <1>16

(* From the thread to the store.                                           *)
LEMMA PutMoves ==
    ASSUME FlowInv, FlowInv', \A a \in Nodes : NatInv(a), NEW n \in Nodes, NEW th \in Threads,
           NEW m, PutDoes(n, th, m)
    PROVE  \A a \in Nodes : AllSteady(a)
<1>1. TypeInv /\ TypeInv' /\ PipeTypes /\ DataTypes
  BY FlowParts DEF FlowInv, ShutdownInv
<1>2. UNCHANGED <<fwdPipe, tcp, storage, toApply, rPc, incs, thr, pend, outBuff, pState, rState>>
  BY DEF PutDoes, appVars, recvVars
<1>3. ASSUME NEW a \in Nodes, a # n PROVE AllSteady(a)
  <2>1. /\ \A s \in Threads : logPipe'[a][s] = logPipe[a][s]
        /\ \A t \in Tables : updateStore'[a][t] = updateStore[a][t]
    BY <1>3 DEF PutDoes
  <2>2. updateStore'[a] = updateStore[a]
    <3>1. updateStore'[a] \in [Tables -> Store] /\ updateStore[a] \in [Tables -> Store]
      BY <1>1 DEF TypeInv, TypeOK, PropagatorTypeOK
    <3> QED
      BY <2>1, <3>1
  <2>3. CalmAt(a)
    BY <1>2, <2>1, <2>2, LoopSame DEF CalmAt, Silent
  <2> QED
    BY <1>1, <2>3, CalmSteady
<1>4. AllSteady(n)
  <2>1. PICK q : q = logPipe[n][th]
    OBVIOUS
  <2>2. /\ q \in Seq(LogMsg) /\ NatPipe(q) /\ q # <<>> /\ m = Head(q)
        /\ logPipe'[n][th] = Tail(q)
    BY <1>1, <2>1 DEF PipeTypes, NatInv, ThreadsNat, PutDoes
  <2>3. /\ NatPipe(Tail(q)) /\ NatMsg(m) /\ Tail(q) \in Seq(LogMsg)
        /\ \A t, u : u \in Updates =>
            InPipe(q, t, u) = InMessage(m, t, u) + InPipe(Tail(q), t, u)
    BY ONLY <2>2, PipeMoves
  <2>4. /\ m.type = "EPUpdateLog" /\ m.table \in Tables /\ m.key \in AllKeys /\ m.delta \in Value
        /\ \A u \in Updates : m.delta[u] \in Nat
    BY <2>3 DEF PutDoes, NatMsg
  <2>5. ThreadsNat(n)'
    <3> SUFFICES ASSUME NEW s \in Threads
                 PROVE  /\ NatPipe(pend'[n][s]) /\ NatPipe(logPipe'[n][s])
                        /\ IF thr'[n][s] = "inc" THEN Len(pend'[n][s]) = 1 ELSE pend'[n][s] = <<>>
      BY DEF ThreadsNat
    <3>1. NatPipe(logPipe'[n][s])
      <4>1. CASE s = th
        BY <2>2, <2>3, <4>1
      <4>2. CASE s # th
        <5>1. logPipe'[n][s] = logPipe[n][s]
          BY <4>2 DEF PutDoes
        <5> QED
          BY <5>1 DEF NatInv, ThreadsNat
      <4> QED
        BY <4>1, <4>2
    <3> QED
      BY <1>2, <3>1 DEF NatInv, ThreadsNat
  <2>6. PICK s0 : s0 = updateStore[n][m.table]
    OBVIOUS
  <2>7. NatStore(s0)
    BY <2>4, <2>6 DEF NatInv, StoresNat
  <2>8. /\ NatStore(AddUpdate(s0, m.key, m.delta))
        /\ \A u \in Updates :
            InStore(AddUpdate(s0, m.key, m.delta), u) = InStore(s0, u) + m.delta[u]
    BY ONLY <2>4, <2>7, AddCount
  <2>9. NatInv(n)'
    <3>1. ASSUME NEW t \in Tables PROVE NatStore(updateStore'[n][t])
      BY <2>6, <2>7, <2>8 DEF PutDoes, NatInv, StoresNat
    <3> QED
      BY <1>2, <2>5, <3>1, LoopSame DEF NatInv, StoresNat, PipesNat
  <2>10. ASSUME NEW t \in Tables, NEW u \in Updates PROVE Steady(n, t, u)
    <3>1. \A s \in Threads \ {th} : pend'[n][s] = pend[n][s] /\ logPipe'[n][s] = logPipe[n][s]
      BY <1>2 DEF PutDoes
    <3>2. FromThreads(n, t, u)' =
                FromThreads(n, t, u)
                    + ((InPipe(pend'[n][th], t, u) + InPipe(logPipe'[n][th], t, u))
                        - (InPipe(pend[n][th], t, u) + InPipe(logPipe[n][th], t, u)))
      <4>1. NatInv(n)
        OBVIOUS
      <4> QED
        BY ONLY <1>1, n \in Nodes, <4>1, <2>5, th \in Threads, <3>1, t \in Tables,
          u \in Updates, ThreadMoves
    <3>3. /\ FromThreads(n, t, u) \in Nat /\ InPipe(fwdPipe[n], t, u) \in Nat
          /\ InStore(updateStore[n][t], u) \in Nat
          /\ InPipe(outBuff[n], t, u) \in Nat /\ InPipe(tcp[n], t, u) \in Nat
          /\ InPipe(pend[n][th], t, u) \in Nat
      BY <1>1, WayCount
    <3>4. InPipe(Tail(q), t, u) \in Nat
      BY <2>3, PipeCount
    <3>5. InMessage(m, t, u) = (IF m.table = t THEN m.delta[u] ELSE 0) /\ InMessage(m, t, u) \in Nat
      BY <2>3, <2>4, MessageCount
    <3>6. FromThreads(n, t, u)' = FromThreads(n, t, u) - InMessage(m, t, u)
      BY <1>2, <2>1, <2>2, <2>3, <3>2, <3>3, <3>4, <3>5
    <3>7. InStore(updateStore'[n][t], u) =
            IF pState[n] = "RUN" /\ n \in Batched
            THEN InStore(updateStore[n][t], u) + InMessage(m, t, u)
            ELSE InStore(updateStore[n][t], u)
      <4>1. CASE m.table = t
        BY <2>6, <2>8, <3>5, <4>1 DEF PutDoes
      <4>2. CASE m.table # t
        BY <3>3, <3>5, <4>2 DEF PutDoes
      <4> QED
        BY <4>1, <4>2
    <3>8. OnTheWay(n, t, u)' =
            FromThreads(n, t, u)' + InPipe(fwdPipe[n], t, u) + InStore(updateStore'[n][t], u)
                + InPipe(outBuff[n], t, u) + InPipe(tcp[n], t, u)
      BY <1>2 DEF OnTheWay
    <3>9. Reached(n, t, u)' = Reached(n, t, u)
      BY <1>2 DEF Reached, Got
    <3>10. FromThreads(n, t, u)' + InStore(updateStore'[n][t], u) =
            IF pState[n] = "RUN" /\ n \in Batched
            THEN FromThreads(n, t, u) + InStore(updateStore[n][t], u)
            ELSE (FromThreads(n, t, u) - InMessage(m, t, u)) + InStore(updateStore[n][t], u)
      BY <3>3, <3>5, <3>6, <3>7
    <3>11. InStore(updateStore'[n][t], u) \in Nat /\ FromThreads(n, t, u)' \in Int
      BY <3>3, <3>5, <3>6, <3>7
    <3> QED
      BY <1>2, <3>3, <3>5, <3>6, <3>8, <3>9, <3>10, <3>11 DEF Steady, Sends, OnTheWay
  <2> QED
    BY <2>9, <2>10 DEF AllSteady
<1> QED
  BY <1>3, <1>4

(* A step of a propagator or a receiver leaves the threads alone.          *)
ThreadsSame(a) == pend'[a] = pend[a] /\ thr'[a] = thr[a] /\ logPipe'[a] = logPipe[a]

(* The parts of the account of node a that such a step may change.         *)
LEMMA NodeMoves ==
    ASSUME TypeInv, NEW a \in Nodes, NatInv(a), ThreadsSame(a)
    PROVE  /\ ThreadsNat(a)'
           /\ \A t \in Tables, u \in Updates :
                /\ FromThreads(a, t, u) \in Nat /\ InPipe(fwdPipe[a], t, u) \in Nat
                /\ InStore(updateStore[a][t], u) \in Nat
                /\ InPipe(outBuff[a], t, u) \in Nat /\ InPipe(tcp[a], t, u) \in Nat
                /\ Reached(a, t, u) \in Nat /\ Reached(a, t, u) = InStore(Got(a, t), u)
                /\ Reached(a, t, u)' = InStore(Got(a, t)', u)
                /\ FromThreads(a, t, u)' = FromThreads(a, t, u)
                /\ OnTheWay(a, t, u)' =
                    FromThreads(a, t, u) + InPipe(fwdPipe'[a], t, u)
                        + InStore(updateStore'[a][t], u)
                        + InPipe(outBuff'[a], t, u) + InPipe(tcp'[a], t, u)
<1>1. ThreadsNat(a)'
  BY DEF ThreadsSame, NatInv, ThreadsNat
<1>2. ASSUME NEW t \in Tables, NEW u \in Updates
      PROVE  /\ Reached(a, t, u)' = InStore(Got(a, t)', u)
             /\ FromThreads(a, t, u)' = FromThreads(a, t, u)
             /\ OnTheWay(a, t, u)' =
                    FromThreads(a, t, u) + InPipe(fwdPipe'[a], t, u)
                        + InStore(updateStore'[a][t], u)
                        + InPipe(outBuff'[a], t, u) + InPipe(tcp'[a], t, u)
  <2>1. FromThreads(a, t, u)' = FromThreads(a, t, u)
    BY DEF FromThreads, ThreadsSame
  <2>2. Reached(a, t, u)' = InStore(Got(a, t)', u)
    BY DEF Reached, Got
  <2> QED
    BY <2>1, <2>2 DEF OnTheWay
<1> QED
  BY <1>1, <1>2, WayCount

(* From the store to the buffer that is about to be sent.                  *)
LEMMA FlushMoves ==
    ASSUME FlowInv, \A a \in Nodes : NatInv(a), NEW n \in Nodes, NEW t0 \in Tables,
           FlushStep(n, t0), NEW x, FlushDoes(n, t0, x)
    PROVE  \A a \in Nodes : AllSteady(a)
<1>1. TypeInv /\ DataTypes
  BY FlowParts
<1>2. UNCHANGED <<logPipe, fwdPipe, tcp, storage, toApply, rPc, incs, thr, pend, pState, rState>>
  BY DEF FlushStep, FlushTable, appVars, recvVars
<1>3. ASSUME NEW a \in Nodes, a # n PROVE AllSteady(a)
  <2>1. updateStore'[a] = updateStore[a] /\ outBuff'[a] = outBuff[a]
    BY <1>1, <1>3 DEF FlushStep, FlushTable, DataTypes
  <2> QED
    BY <1>1, <1>2, <2>1, CalmSame, CalmSteady
<1>4. AllSteady(n)
  <2>1. ThreadsSame(n)
    BY <1>2 DEF ThreadsSame
  <2>2. /\ outBuff[n] = <<>> /\ outBuff'[n] = <<x>> /\ IsBuff(x) /\ x.table = t0
        /\ x.buff.updates = updateStore[n][t0] /\ updateStore'[n][t0] = EmptyStore
        /\ \A s \in Tables \ {t0} : updateStore'[n][s] = updateStore[n][s]
    BY DEF FlushDoes
  <2>3. NatStore(updateStore[n][t0]) /\ ThreadsNat(n)'
    BY <1>1, <2>1, NodeMoves DEF NatInv, StoresNat
  <2>4. NatMsg(x)
    BY <2>2, <2>3 DEF NatMsg, IsBuff
  <2>5. Len(<<x>>) = 1 /\ <<x>>[1] = x
    OBVIOUS
  <2>6. NatInv(n)'
    <3>1. PipesNat(n)'
      BY <1>2, <2>2, <2>4, <2>5 DEF NatInv, PipesNat, NatPipe
    <3>2. StoresNat(n)'
      BY <1>2, <2>2, EmptyCount, LoopSame DEF NatInv, StoresNat
    <3> QED
      BY <2>3, <3>1, <3>2 DEF NatInv
  <2>7. ASSUME NEW t \in Tables, NEW u \in Updates PROVE Steady(n, t, u)
    <3>1. /\ InPipe(outBuff[n], t, u) = 0 /\ InPipe(outBuff'[n], t, u) = InMessage(x, t, u)
          /\ InMessage(x, t, u) = IF t = t0 THEN InStore(updateStore[n][t], u) ELSE 0
      BY <2>2, <2>4, OneMessage, MessageCount
    <3>2. InStore(updateStore'[n][t], u) = IF t = t0 THEN 0 ELSE InStore(updateStore[n][t], u)
      BY <2>2, EmptyCount
    <3>0. Got(n, t)' = Got(n, t)
      BY <1>2 DEF Got
    <3>3. /\ FromThreads(n, t, u) \in Nat /\ InPipe(fwdPipe[n], t, u) \in Nat
          /\ InStore(updateStore[n][t], u) \in Nat /\ InPipe(tcp[n], t, u) \in Nat
          /\ Reached(n, t, u)' = Reached(n, t, u)
          /\ FromThreads(n, t, u)' = FromThreads(n, t, u)
          /\ OnTheWay(n, t, u)' =
                FromThreads(n, t, u) + InPipe(fwdPipe'[n], t, u)
                    + InStore(updateStore'[n][t], u)
                    + InPipe(outBuff'[n], t, u) + InPipe(tcp'[n], t, u)
      BY <1>1, <2>1, <3>0, NodeMoves
    <3> QED
      BY <1>2, <3>1, <3>2, <3>3 DEF Steady, OnTheWay
  <2> QED
    BY <2>6, <2>7 DEF AllSteady
<1> QED
  BY <1>3, <1>4

(* The buffer is sent as the last message.                                 *)
LEMMA SendAppends ==
    ASSUME FlowInv, NEW n \in Nodes, SendStep(n), NEW x, SendDoes(n, x)
    PROVE  /\ x \in UpdateBufferMsg /\ x \in TcpMsg
           /\ HasDownstream(n) => tcp'[n] = Append(tcp[n], x)
           /\ UNCHANGED <<logPipe, fwdPipe, storage, toApply, rPc, incs, thr, pend, pState, rState,
                          updateStore>>
<1>1. PipeTypes /\ DataTypes
  BY FlowParts
<1>2. outBuff[n] \in Seq(UpdateBufferMsg) /\ outBuff[n] = <<x>>
  BY <1>1 DEF DataTypes, SendDoes
<1>3. x \in UpdateBufferMsg
  <2>1. outBuff[n][1] = x /\ 1 \in 1 .. Len(outBuff[n])
    BY <1>2
  <2> QED
    BY <1>2, <2>1
<1>4. x \in TcpMsg
  BY <1>3, TcpMsgType
<1>5. HasDownstream(n) => tcp'[n] = tcp[n] \o <<x>>
  <2>1. HasDownstream(n) => tcp' = [tcp EXCEPT ![n] = @ \o outBuff[n]]
    BY DEF SendStep, SendBuffer, Enqueue
  <2> QED
    BY <1>1, <1>2, <2>1 DEF PipeTypes
<1>6. tcp[n] \o <<x>> = Append(tcp[n], x)
  BY <1>1, <1>4 DEF PipeTypes
<1>7. UNCHANGED <<logPipe, fwdPipe, storage, toApply, rPc, incs, thr, pend, pState, rState,
                          updateStore>>
  BY DEF SendStep, SendBuffer, appVars, recvVars
<1> QED
  BY <1>3, <1>4, <1>5, <1>6, <1>7

(* From the buffer to the wire.                                            *)
LEMMA SendMoves ==
    ASSUME FlowInv, \A a \in Nodes : NatInv(a), NEW n \in Nodes, SendStep(n),
           NEW x, SendDoes(n, x)
    PROVE  \A a \in Nodes : AllSteady(a)
<1>1. TypeInv /\ PipeTypes
  BY FlowParts
<1>2. /\ UNCHANGED <<logPipe, fwdPipe, storage, toApply, rPc, incs, thr, pend, pState, rState,
                          updateStore>>
      /\ x \in TcpMsg
      /\ HasDownstream(n) => tcp'[n] = Append(tcp[n], x)
  BY SendAppends
<1>3. ASSUME NEW a \in Nodes, a # n PROVE AllSteady(a)
  <2>1. tcp'[a] = tcp[a] /\ outBuff'[a] = outBuff[a]
    BY <1>3 DEF SendDoes
  <2> QED
    BY <1>1, <1>2, <2>1, CalmSame, CalmSteady
<1>4. AllSteady(n)
  <2>1. ThreadsSame(n)
    BY <1>2 DEF ThreadsSame
  <2>2. /\ outBuff[n] = <<x>> /\ outBuff'[n] = <<>>
        /\ ~HasDownstream(n) => tcp'[n] = tcp[n]
    BY DEF SendDoes
  <2>3. Len(<<x>>) = 1 /\ <<x>>[1] = x
    OBVIOUS
  <2>4. NatMsg(x) /\ NatPipe(tcp[n]) /\ tcp[n] \in Seq(TcpMsg) /\ x \in TcpMsg /\ ThreadsNat(n)'
    <3>1. NatPipe(<<x>>) /\ NatPipe(tcp[n])
      BY <2>2 DEF NatInv, PipesNat
    <3>2. NatMsg(x)
      BY <2>3, <3>1 DEF NatPipe
    <3>3. tcp[n] \in Seq(TcpMsg) /\ ThreadsNat(n)'
      BY <1>1, <2>1, NodeMoves DEF PipeTypes
    <3> QED
      BY <1>2, <3>1, <3>2, <3>3
  <2>5. /\ NatPipe(Append(tcp[n], x))
        /\ \A t, u : u \in Updates =>
                InPipe(Append(tcp[n], x), t, u) = InMessage(x, t, u) + InPipe(tcp[n], t, u)
    BY ONLY <2>4, PipeMoves
  <2>6. NatInv(n)'
    <3>1. NatPipe(<<>>)
      BY DEF NatPipe
    <3>2. PipesNat(n)'
      BY <1>2, <2>2, <2>5, <3>1 DEF NatInv, PipesNat
    <3> QED
      BY <1>2, <2>4, <3>2, LoopSame DEF NatInv, StoresNat
  <2>7. ASSUME NEW t \in Tables, NEW u \in Updates PROVE Steady(n, t, u)
    <3>1. /\ InPipe(outBuff[n], t, u) = InMessage(x, t, u) /\ InPipe(outBuff'[n], t, u) = 0
          /\ InMessage(x, t, u) \in Nat
      BY <2>2, <2>4, OneMessage, MessageCount
    <3>2. InPipe(tcp'[n], t, u) = IF HasDownstream(n)
                                  THEN InMessage(x, t, u) + InPipe(tcp[n], t, u)
                                  ELSE InPipe(tcp[n], t, u)
      BY <1>2, <2>2, <2>5
    <3>0. Got(n, t)' = Got(n, t)
      BY <1>2 DEF Got
    <3>3. /\ FromThreads(n, t, u) \in Nat /\ InPipe(fwdPipe[n], t, u) \in Nat
          /\ InStore(updateStore[n][t], u) \in Nat /\ InPipe(tcp[n], t, u) \in Nat
          /\ Reached(n, t, u)' = Reached(n, t, u)
          /\ FromThreads(n, t, u)' = FromThreads(n, t, u)
          /\ OnTheWay(n, t, u)' =
                FromThreads(n, t, u) + InPipe(fwdPipe'[n], t, u)
                    + InStore(updateStore'[n][t], u)
                    + InPipe(outBuff'[n], t, u) + InPipe(tcp'[n], t, u)
      BY <1>1, <2>1, <3>0, NodeMoves
    <3> QED
      BY <1>2, <3>1, <3>2, <3>3 DEF Steady, Sends, OnTheWay
  <2> QED
    BY <2>6, <2>7 DEF AllSteady
<1> QED
  BY <1>3, <1>4

(* The first buffer in the pipe is added to the store of its table.        *)
LEMMA MergeAdds ==
    ASSUME FlowInv, NEW n \in Nodes, MergeStep(n), NEW x, x = Head(fwdPipe[n])
    PROVE  /\ x \in FwdMsg /\ IsBuff(x) /\ x.table \in Tables /\ x.buff \in Buffer
           /\ fwdPipe[n] # <<>> /\ fwdPipe'[n] = Tail(fwdPipe[n]) /\ fwdPipe[n] \in Seq(FwdMsg)
           /\ updateStore'[n][x.table] =
                IF pState[n] = "RUN" THEN AddUpdates(updateStore[n][x.table], x.buff.updates)
                ELSE updateStore[n][x.table]
           /\ \A a \in Nodes, t \in Tables : (a # n \/ t # x.table) =>
                updateStore'[a][t] = updateStore[a][t]
           /\ \A a \in Nodes \ {n} : fwdPipe'[a] = fwdPipe[a] /\ updateStore'[a] = updateStore[a]
           /\ UNCHANGED <<logPipe, tcp, outBuff, storage, toApply, rPc, incs, thr, pend, pState, rState>>
<1>1. PipeTypes /\ DataTypes
  BY FlowParts
<1>2. /\ RecvPUpdateBuffer(n) /\ UNCHANGED <<storage, recvVars, appVars>>
      /\ fwdPipe[n] # <<>> /\ x.type = "EPUpdateBuffer"
      /\ fwdPipe' = [fwdPipe EXCEPT ![n] = Tail(@)]
  BY DEF MergeStep, RecvPUpdateBuffer, IsNext
<1>3. x \in FwdMsg /\ IsBuff(x) /\ x.table \in Tables /\ x.buff \in Buffer
  <2>1. x \in FwdMsg
    BY <1>1, <1>2 DEF PipeTypes
  <2> QED
    BY <1>2, <2>1, BuffMsgType DEF IsBuff
<1>4. updateStore' = IF pState[n] = "RUN"
        THEN [updateStore EXCEPT ![n][x.table] = AddUpdates(@, x.buff.updates)]
        ELSE updateStore
  BY <1>2 DEF RecvPUpdateBuffer
<1>5. UNCHANGED <<logPipe, tcp, outBuff, storage, toApply, rPc, incs, thr, pend, pState, rState>>
  BY <1>2 DEF RecvPUpdateBuffer, appVars, recvVars
<1>6. /\ fwdPipe'[n] = Tail(fwdPipe[n]) /\ \A a \in Nodes \ {n} : fwdPipe'[a] = fwdPipe[a]
      /\ fwdPipe[n] \in Seq(FwdMsg)
  BY <1>1, <1>2 DEF PipeTypes
<1>7. PICK t : t = x.table
  OBVIOUS
<1>8. /\ updateStore'[n][t] =
            IF pState[n] = "RUN" THEN AddUpdates(updateStore[n][t], x.buff.updates)
            ELSE updateStore[n][t]
      /\ \A a \in Nodes, s \in Tables : (a # n \/ s # t) => updateStore'[a][s] = updateStore[a][s]
      /\ \A a \in Nodes \ {n} : updateStore'[a] = updateStore[a]
  BY <1>1, <1>3, <1>4, <1>7 DEF DataTypes
<1> QED
  BY <1>2, <1>3, <1>5, <1>6, <1>7, <1>8

(* From the receiver to the store.                                         *)
LEMMA MergeMoves ==
    ASSUME FlowInv, \A a \in Nodes : NatInv(a), NEW n \in Nodes, MergeStep(n),
           NEW x, x = Head(fwdPipe[n])
    PROVE  \A a \in Nodes : AllSteady(a)
<1>1. TypeInv
  BY FlowParts
<1>2. PICK q : q = fwdPipe[n]
  OBVIOUS
<1>3. /\ IsBuff(x) /\ x.table \in Tables /\ x.buff \in Buffer
      /\ q # <<>> /\ fwdPipe'[n] = Tail(q) /\ q \in Seq(FwdMsg)
      /\ updateStore'[n][x.table] =
            IF pState[n] = "RUN" THEN AddUpdates(updateStore[n][x.table], x.buff.updates)
            ELSE updateStore[n][x.table]
      /\ \A t \in Tables : t # x.table => updateStore'[n][t] = updateStore[n][t]
      /\ \A a \in Nodes \ {n} : fwdPipe'[a] = fwdPipe[a] /\ updateStore'[a] = updateStore[a]
      /\ UNCHANGED <<logPipe, tcp, outBuff, storage, toApply, rPc, incs, thr, pend, pState, rState>>
  BY <1>2, MergeAdds
<1>4. ASSUME NEW a \in Nodes, a # n PROVE AllSteady(a)
  BY <1>1, <1>3, <1>4, CalmSame, CalmSteady
<1>5. AllSteady(n)
  <2>1. ThreadsSame(n)
    BY <1>3 DEF ThreadsSame
  <2>2. NatPipe(q) /\ ThreadsNat(n)' /\ x = Head(q)
    BY <1>1, <1>2, <2>1, NodeMoves DEF NatInv, PipesNat
  <2>3. /\ NatPipe(Tail(q)) /\ NatMsg(x) /\ Tail(q) \in Seq(FwdMsg)
        /\ \A t, u : u \in Updates =>
                InPipe(q, t, u) = InMessage(x, t, u) + InPipe(Tail(q), t, u)
    BY ONLY <1>3, <2>2, PipeMoves
  <2>4. PICK s, d : s = updateStore[n][x.table] /\ d = x.buff.updates
    OBVIOUS
  <2>5. NatStore(s) /\ NatStore(d)
    BY <1>3, <2>3, <2>4 DEF NatInv, StoresNat, NatMsg
  <2>6. /\ NatStore(AddUpdates(s, d))
        /\ \A u \in Updates : InStore(AddUpdates(s, d), u) = InStore(s, u) + InStore(d, u)
    BY ONLY <2>5, AddAllCount
  <2>7. NatInv(n)'
    <3>1. \A t \in Tables : NatStore(updateStore'[n][t])
      BY <1>3, <2>4, <2>6 DEF NatInv, StoresNat
    <3> QED
      BY <1>3, <2>2, <2>3, <3>1, LoopSame DEF NatInv, StoresNat, PipesNat
  <2>8. ASSUME NEW t \in Tables, NEW u \in Updates PROVE Steady(n, t, u)
    <3>1. /\ InMessage(x, t, u) = IF x.table = t THEN InStore(d, u) ELSE 0
          /\ InMessage(x, t, u) \in Nat
      BY <1>3, <2>3, <2>4, MessageCount
    <3>0. Got(n, t)' = Got(n, t)
      BY <1>3 DEF Got
    <3>2. /\ FromThreads(n, t, u) \in Nat /\ InPipe(tcp[n], t, u) \in Nat
          /\ InStore(updateStore[n][t], u) \in Nat /\ InPipe(outBuff[n], t, u) \in Nat
          /\ Reached(n, t, u)' = Reached(n, t, u)
          /\ FromThreads(n, t, u)' = FromThreads(n, t, u)
          /\ OnTheWay(n, t, u)' =
                FromThreads(n, t, u) + InPipe(fwdPipe'[n], t, u)
                    + InStore(updateStore'[n][t], u)
                    + InPipe(outBuff'[n], t, u) + InPipe(tcp'[n], t, u)
      BY <1>1, <2>1, <3>0, NodeMoves
    <3>3. InStore(updateStore'[n][t], u) =
            IF pState[n] = "RUN" THEN InStore(updateStore[n][t], u) + InMessage(x, t, u)
            ELSE InStore(updateStore[n][t], u)
      <4>1. CASE x.table = t
        BY <1>3, <2>4, <2>6, <3>1, <4>1
      <4>2. CASE x.table # t
        BY <1>3, <3>1, <3>2, <4>2
      <4> QED
        BY <4>1, <4>2
    <3>4. /\ InPipe(fwdPipe[n], t, u) = InMessage(x, t, u) + InPipe(fwdPipe'[n], t, u)
          /\ InPipe(fwdPipe'[n], t, u) \in Nat
      <4>1. InPipe(Tail(q), t, u) \in Nat
        BY <2>3, PipeCount
      <4> QED
        BY <1>2, <1>3, <2>3, <4>1
    <3>5. storage' = storage /\ outBuff' = outBuff /\ tcp' = tcp /\ pState' = pState
      BY <1>3
    <3>6. OnTheWay(n, t, u)' =
            IF pState[n] = "RUN" THEN OnTheWay(n, t, u)
            ELSE OnTheWay(n, t, u) - InMessage(x, t, u)
      BY <3>1, <3>2, <3>3, <3>4, <3>5 DEF OnTheWay
    <3>7. OnTheWay(n, t, u) \in Nat
      BY <3>1, <3>2, <3>4 DEF OnTheWay
    <3>8. /\ OnTheWay(n, t, u)' <= OnTheWay(n, t, u)
          /\ pState[n] = "RUN" => OnTheWay(n, t, u)' = OnTheWay(n, t, u)
      BY <3>1, <3>6, <3>7
    <3>9. Sends(n)' => pState[n] = "RUN"
      BY <3>5 DEF Sends
    <3>10. FromThreads(n, t, u)' <= FromThreads(n, t, u) /\ Reached(n, t, u)' = Reached(n, t, u)
      BY <3>2, <3>5
    <3> QED
      BY <3>8, <3>9, <3>10 DEF Steady
  <2> QED
    BY <2>7, <2>8 DEF AllSteady
<1> QED
  BY <1>4, <1>5

(* The receiver of n takes x, the first buffer from node m, and drops it   *)
(* or forwards it and is about to apply it.                                *)
Accepts(n, x) == rState[n] = "RUN" /\ HasForeignRange(n, x.buff)

TakeGives(n, m, x) ==
    /\ Downstream[m] = n /\ x \in UpdateBufferMsg /\ IsBuff(x)
    /\ x.table \in Tables /\ x.buff \in Buffer
    /\ tcp[m] # <<>> /\ x = Head(tcp[m]) /\ tcp'[m] = Tail(tcp[m])
    /\ \A a \in Nodes \ {m} : tcp'[a] = tcp[a]
    /\ UNCHANGED <<logPipe, outBuff, updateStore, pState, rState, incs, thr, pend>>
    /\ fwdPipe'[n] = IF Accepts(n, x) /\ x.table \in Forward[n]
                     THEN Append(fwdPipe[n], BuffMsg("EPUpdateBuffer", x.table, x.buff))
                     ELSE fwdPipe[n]
    /\ storage' = storage /\ rPc[n] = "poll"
    /\ toApply'[n][x.table] = IF Accepts(n, x) /\ x.table \in Apply[n]
                              THEN x.buff.updates ELSE toApply[n][x.table]
    /\ rPc'[n] = IF Accepts(n, x) /\ x.table \in Apply[n]
                 THEN AfterApply(x.buff.updates) ELSE "poll"
    /\ \A t \in Tables \ {x.table} : toApply'[n][t] = toApply[n][t]
    /\ \A a \in Nodes \ {n} :
        fwdPipe'[a] = fwdPipe[a] /\ toApply'[a] = toApply[a] /\ rPc'[a] = rPc[a]

(* EPRUpdateBuffer, where no update comes back to its node.                *)
LEMMA TakeGiven ==
    ASSUME FlowInv, NoRing, NEW n \in Nodes, NEW m \in Nodes, TakeStep(n, m),
           NEW x, x = Head(tcp[m])
    PROVE  TakeGives(n, m, x)
<1>1. /\ TypeInv /\ PipeTypes /\ DataTypes
      /\ toApply \in [Nodes -> [Tables -> Store]]
      /\ rPc \in [Nodes -> {"poll", "dedup", "apply", "exit"}]
  BY FlowParts DEF TypeInv, TypeOK, ReceiverTypeOK
<1>2. /\ RecvUpdateBuffer(n, m) /\ UNCHANGED <<propVars, appVars>>
      /\ m \in Upstream(n) /\ tcp[m] # <<>> /\ x.type = "EPRUpdateBuffer"
      /\ tcp' = [tcp EXCEPT ![m] = Tail(@)]
      /\ UNCHANGED <<logPipe, rState, storage>> /\ rPc[n] = "poll"
  BY DEF TakeStep, RecvUpdateBuffer, IsNext, UpdateSockBranch, InternalBranch
<1>3. x \in TcpMsg
  BY <1>1, <1>2 DEF PipeTypes
<1>4. x \in UpdateBufferMsg /\ IsBuff(x) /\ x.table \in Tables /\ x.buff \in Buffer
  BY <1>2, <1>3, TcpMsgType DEF IsBuff
<1>5. Downstream[m] = n
  BY <1>2 DEF Upstream
<1>6. ~HasNodeRange(x.buff, n)
  <2>1. tcp[m] \in Seq(TcpMsg)
    BY <1>1 DEF PipeTypes
  <2>2. x \in Buffs(tcp[m])
    BY <1>2, <1>4, <2>1 DEF Buffs
  <2>3. Has(x, n) => m \in Reach(n)
    BY <2>2, FlowParts DEF PlacesInv
  <2> QED
    BY <1>5, <2>3, TreeStraight DEF Has
<1>7. /\ tcp'[m] = Tail(tcp[m]) /\ \A a \in Nodes \ {m} : tcp'[a] = tcp[a]
      /\ UNCHANGED <<outBuff, updateStore, pState, incs, thr, pend>>
  BY <1>1, <1>2 DEF PipeTypes, propVars, propStores, appVars
<1>8. PICK t, y : t = x.table /\ y = BuffMsg("EPUpdateBuffer", x.table, x.buff)
  OBVIOUS
<1>9. \/ ~Accepts(n, x) /\ UNCHANGED <<fwdPipe, toApply, rPc>>
      \/ Accepts(n, x) /\ Deliver(n, t, x.buff)
  BY <1>2, <1>6, <1>8 DEF RecvUpdateBuffer, Accepts
<1>10. fwdPipe' = IF Accepts(n, x) /\ t \in Forward[n]
                  THEN [fwdPipe EXCEPT ![n] = Append(@, y)] ELSE fwdPipe
  BY <1>8, <1>9 DEF Deliver
<1>11. \/ /\ Accepts(n, x) /\ t \in Apply[n]
          /\ toApply' = [toApply EXCEPT ![n][t] = x.buff.updates]
          /\ rPc' = [rPc EXCEPT ![n] = AfterApply(x.buff.updates)]
       \/ /\ ~(Accepts(n, x) /\ t \in Apply[n]) /\ toApply' = toApply
          /\ (rPc' = rPc \/ rPc' = [rPc EXCEPT ![n] = "poll"])
  BY <1>8, <1>9 DEF Deliver
<1>12. /\ fwdPipe'[n] = IF Accepts(n, x) /\ t \in Forward[n]
                        THEN Append(fwdPipe[n], y) ELSE fwdPipe[n]
       /\ \A a \in Nodes \ {n} : fwdPipe'[a] = fwdPipe[a]
  BY <1>1, <1>10 DEF PipeTypes
<1>13. /\ toApply'[n][t] = IF Accepts(n, x) /\ t \in Apply[n]
                           THEN x.buff.updates ELSE toApply[n][t]
       /\ rPc'[n] = IF Accepts(n, x) /\ t \in Apply[n]
                    THEN AfterApply(x.buff.updates) ELSE "poll"
       /\ \A s \in Tables \ {t} : toApply'[n][s] = toApply[n][s]
       /\ \A a \in Nodes \ {n} : toApply'[a] = toApply[a] /\ rPc'[a] = rPc[a]
  BY <1>1, <1>2, <1>4, <1>8, <1>11
<1> QED
  BY <1>2, <1>4, <1>5, <1>7, <1>8, <1>12, <1>13 DEF TakeGives

(* What it is about to apply has reached the table.                        *)
LEMMA TakeKnown ==
    ASSUME NEW n \in Nodes, LoopInv(n), NEW m \in Nodes, NEW x, TakeGives(n, m, x),
           NatStore(x.buff.updates)
    PROVE  /\ LoopInv(n)'
           /\ Got(n, x.table)' = IF Accepts(n, x) /\ x.table \in Apply[n]
                                   THEN AddUpdates(Got(n, x.table), x.buff.updates)
                                   ELSE Got(n, x.table)
           /\ \A t \in Tables \ {x.table} : Got(n, t)' = Got(n, t)
           /\ \A a \in Nodes \ {n} :
                /\ \A t \in Tables : Got(a, t)' = Got(a, t)
                /\ LoopInv(a) => LoopInv(a)'
           /\ \A t \in Tables : Got(n, t) = storage[n][t]
<1>1. /\ \A t \in Tables : toApply[n][t] = EmptyStore /\ NatStore(storage[n][t])
      /\ x.table \in Tables /\ storage' = storage
  BY DEF LoopInv, TakeGives
<1>2. \A t \in Tables : Got(n, t) = storage[n][t]
  BY KnownCount DEF TakeGives
<1>3. \A t \in Tables \ {x.table} : toApply'[n][t] = EmptyStore /\ Got(n, t)' = Got(n, t)
  BY <1>1 DEF TakeGives, Got
<1>4. ASSUME NEW a \in Nodes, a # n
      PROVE  (\A t \in Tables : Got(a, t)' = Got(a, t)) /\ (LoopInv(a) => LoopInv(a)')
  BY <1>1, <1>4, LoopSame DEF TakeGives
<1>5. CASE Accepts(n, x) /\ x.table \in Apply[n]
  <2>1. toApply'[n][x.table] = x.buff.updates /\ rPc'[n] = AfterApply(x.buff.updates)
    BY <1>5 DEF TakeGives
  <2>2. Got(n, x.table)' = AddUpdates(storage[n][x.table], x.buff.updates)
    BY <1>1, <2>1 DEF Got
  <2>3. rPc'[n] # "apply" => toApply'[n][x.table] = EmptyStore
    BY <2>1, AddNothing DEF AfterApply
  <2>4. \A t \in Tables : NatStore(storage'[n][t]) /\ NatStore(toApply'[n][t])
    BY <1>1, <1>3, <2>1, EmptyCount
  <2>5. LoopInv(n)'
    BY <1>3, <2>3, <2>4 DEF LoopInv
  <2> QED
    BY <1>1, <1>2, <1>3, <1>4, <1>5, <2>2, <2>5
<1>6. CASE ~(Accepts(n, x) /\ x.table \in Apply[n])
  <2>1. toApply'[n][x.table] = EmptyStore
    BY <1>1, <1>6 DEF TakeGives
  <2>2. Got(n, x.table)' = Got(n, x.table)
    BY <1>1, <2>1 DEF Got
  <2>3. \A t \in Tables : NatStore(storage'[n][t]) /\ toApply'[n][t] = EmptyStore
    BY <1>1, <1>3, <2>1
  <2>4. LoopInv(n)'
    BY <2>3, EmptyCount DEF LoopInv
  <2> QED
    BY <1>2, <1>3, <1>4, <1>6, <2>2, <2>4
<1> QED
  BY <1>5, <1>6

(* The updates of x leave the account of m and enter that of n.            *)
Came(x, t, u, yes) == IF yes THEN InMessage(x, t, u) ELSE 0

Comes(n, m, x) ==
    /\ Downstream[m] = n
    /\ \A a \in Nodes : NatInv(a)'
    /\ UNCHANGED <<pState, rState, incs>>
    /\ \A t \in Tables, u \in Updates :
        /\ InMessage(x, t, u) \in Nat /\ InMessage(x, t, u) <= OnTheWay(m, t, u)
        /\ OnTheWay(m, t, u)' = OnTheWay(m, t, u) - InMessage(x, t, u)
        /\ Reached(m, t, u)' = Reached(m, t, u)
        /\ OnTheWay(n, t, u)' =
                OnTheWay(n, t, u) + Came(x, t, u, Accepts(n, x) /\ t \in Forward[n])
        /\ Reached(n, t, u)' =
                Reached(n, t, u) + Came(x, t, u, Accepts(n, x) /\ t \in Apply[n])
        /\ \A a \in Nodes : FromThreads(a, t, u)' = FromThreads(a, t, u)
        /\ \A a \in Nodes \ {m, n} :
            /\ OnTheWay(a, t, u)' = OnTheWay(a, t, u)
            /\ Reached(a, t, u)' = Reached(a, t, u)

(* What EPRUpdateBuffer does to the account.                               *)
LEMMA TakeMoves ==
    ASSUME FlowInv, \A a \in Nodes : NatInv(a), NEW n \in Nodes, NEW m \in Nodes,
           NEW x, TakeGives(n, m, x)
    PROVE  Comes(n, m, x)
<1>1. TypeInv /\ PipeTypes /\ m # n
  BY FlowParts, GraphAssumption DEF TakeGives
<1>2. /\ Downstream[m] = n /\ x \in UpdateBufferMsg /\ IsBuff(x)
      /\ x.table \in Tables /\ x.buff \in Buffer
      /\ UNCHANGED <<logPipe, outBuff, updateStore, pState, rState, incs, thr, pend>>
  BY DEF TakeGives
<1>3. \A a \in Nodes : ThreadsSame(a)
  BY <1>2 DEF ThreadsSame
<1>4. PICK q, r, y : /\ q = tcp[m] /\ r = fwdPipe[n]
                     /\ y = BuffMsg("EPUpdateBuffer", x.table, x.buff)
  OBVIOUS
<1>5. /\ q \in Seq(TcpMsg) /\ NatPipe(q) /\ q # <<>> /\ x = Head(q) /\ tcp'[m] = Tail(q)
      /\ r \in Seq(FwdMsg) /\ NatPipe(r) /\ y \in FwdMsg
  BY <1>1, <1>2, <1>4, BuffMsgType DEF PipeTypes, NatInv, PipesNat, TakeGives
<1>6. /\ NatPipe(Tail(q)) /\ NatMsg(x) /\ Tail(q) \in Seq(TcpMsg)
      /\ \A t, u : u \in Updates =>
            InPipe(q, t, u) = InMessage(x, t, u) + InPipe(Tail(q), t, u)
  BY ONLY <1>5, PipeMoves
<1>7. /\ NatMsg(y) /\ IsBuff(y)
      /\ \A t, u : u \in Updates => InMessage(y, t, u) = InMessage(x, t, u)
  <2>1. y.type = "EPUpdateBuffer" /\ y.table = x.table /\ y.buff = x.buff
    BY <1>4 DEF BuffMsg
  <2>2. IsBuff(y) /\ NatMsg(y)
    BY <1>2, <1>6, <2>1 DEF IsBuff, NatMsg
  <2>3. ASSUME NEW t, NEW u \in Updates PROVE InMessage(y, t, u) = InMessage(x, t, u)
    <3>1. InMessage(y, t, u) = IF y.table = t THEN InStore(y.buff.updates, u) ELSE 0
      BY <2>2, MessageCount
    <3>2. InMessage(x, t, u) = IF x.table = t THEN InStore(x.buff.updates, u) ELSE 0
      BY <1>2, <1>6, MessageCount
    <3> QED
      BY <2>1, <3>1, <3>2
  <2> QED
    BY <2>2, <2>3
<1>8. /\ NatPipe(Append(r, y))
      /\ \A t, u : u \in Updates => InPipe(Append(r, y), t, u) = InMessage(y, t, u) + InPipe(r, t, u)
  BY ONLY <1>5, <1>7, PipeMoves
<1>9. PICK s, d : s = Got(n, x.table) /\ d = x.buff.updates
  OBVIOUS
<1>10. NatStore(s) /\ NatStore(d)
  BY <1>2, <1>6, <1>9, KnownCount DEF NatInv, StoresNat, NatMsg
<1>11. /\ NatStore(AddUpdates(s, d))
       /\ \A u \in Updates : InStore(AddUpdates(s, d), u) = InStore(s, u) + InStore(d, u)
  BY ONLY <1>10, AddAllCount
<1>12. /\ tcp'[n] = tcp[n] /\ fwdPipe'[m] = fwdPipe[m]
       /\ fwdPipe'[n] = (IF Accepts(n, x) /\ x.table \in Forward[n] THEN Append(r, y) ELSE r)
       /\ \A a \in Nodes \ {m, n} : tcp'[a] = tcp[a] /\ fwdPipe'[a] = fwdPipe[a]
  BY <1>1, <1>4, <1>9 DEF TakeGives
<1>15. /\ Got(n, x.table)' =
            (IF Accepts(n, x) /\ x.table \in Apply[n] THEN AddUpdates(s, d) ELSE s)
       /\ \A t \in Tables \ {x.table} : Got(n, t)' = Got(n, t)
       /\ \A a \in Nodes \ {n}, t \in Tables : Got(a, t)' = Got(a, t)
       /\ \A a \in Nodes : LoopInv(a)'
  <2>1. \A a \in Nodes : LoopInv(a)
    BY DEF NatInv, StoresNat
  <2> QED
    BY <1>9, <1>10, <2>1, TakeKnown
<1>13. ASSUME NEW a \in Nodes PROVE NatInv(a)'
  <2>1. ThreadsNat(a)'
    BY <1>1, <1>3, NodeMoves
  <2>2. PipesNat(a)'
    BY <1>2, <1>4, <1>5, <1>6, <1>8, <1>12 DEF NatInv, PipesNat
  <2>3. StoresNat(a)'
    BY <1>2, <1>15 DEF NatInv, StoresNat
  <2> QED
    BY <2>1, <2>2, <2>3 DEF NatInv
<1>14. ASSUME NEW t \in Tables, NEW u \in Updates
       PROVE  /\ InMessage(x, t, u) \in Nat /\ InMessage(x, t, u) <= OnTheWay(m, t, u)
              /\ OnTheWay(m, t, u)' = OnTheWay(m, t, u) - InMessage(x, t, u)
              /\ Reached(m, t, u)' = Reached(m, t, u)
              /\ OnTheWay(n, t, u)' =
                    OnTheWay(n, t, u) + Came(x, t, u, Accepts(n, x) /\ t \in Forward[n])
              /\ Reached(n, t, u)' =
                    Reached(n, t, u) + Came(x, t, u, Accepts(n, x) /\ t \in Apply[n])
              /\ \A a \in Nodes : FromThreads(a, t, u)' = FromThreads(a, t, u)
              /\ \A a \in Nodes \ {m, n} :
                    /\ OnTheWay(a, t, u)' = OnTheWay(a, t, u)
                    /\ Reached(a, t, u)' = Reached(a, t, u)
  <2>1. \A a \in Nodes :
            /\ FromThreads(a, t, u) \in Nat /\ InPipe(fwdPipe[a], t, u) \in Nat
            /\ InStore(updateStore[a][t], u) \in Nat
            /\ InPipe(outBuff[a], t, u) \in Nat /\ InPipe(tcp[a], t, u) \in Nat
            /\ Reached(a, t, u) \in Nat /\ Reached(a, t, u) = InStore(Got(a, t), u)
            /\ Reached(a, t, u)' = InStore(Got(a, t)', u)
            /\ FromThreads(a, t, u)' = FromThreads(a, t, u)
            /\ OnTheWay(a, t, u)' =
                FromThreads(a, t, u) + InPipe(fwdPipe'[a], t, u) + InStore(updateStore[a][t], u)
                    + InPipe(outBuff[a], t, u) + InPipe(tcp'[a], t, u)
    <3> TAKE a \in Nodes
    <3>1. ThreadsSame(a) /\ NatInv(a)
      BY <1>3
    <3> QED
      BY <1>1, <1>2, <3>1, NodeMoves
  <2>2. /\ InMessage(x, t, u) \in Nat
        /\ InMessage(x, t, u) = IF x.table = t THEN InStore(d, u) ELSE 0
    BY <1>2, <1>6, <1>9, MessageCount
  <2>3. InPipe(Tail(q), t, u) \in Nat
    BY <1>6, PipeCount
  <2>4. /\ OnTheWay(m, t, u)' = OnTheWay(m, t, u) - InMessage(x, t, u)
        /\ Reached(m, t, u)' = Reached(m, t, u)
        /\ InMessage(x, t, u) <= OnTheWay(m, t, u)
    <3>1. /\ InPipe(tcp'[m], t, u) = InPipe(Tail(q), t, u)
          /\ InPipe(tcp[m], t, u) = InMessage(x, t, u) + InPipe(Tail(q), t, u)
      BY <1>4, <1>5, <1>6
    <3> QED
      BY <1>1, <1>12, <1>15, <2>1, <2>2, <2>3, <3>1 DEF OnTheWay
  <2>5. OnTheWay(n, t, u)' =
            OnTheWay(n, t, u) + Came(x, t, u, Accepts(n, x) /\ t \in Forward[n])
    <3>1. InPipe(fwdPipe'[n], t, u) =
            InPipe(fwdPipe[n], t, u) + Came(x, t, u, Accepts(n, x) /\ t \in Forward[n])
      <4>1. CASE Accepts(n, x) /\ x.table \in Forward[n]
        <5>1. InPipe(fwdPipe'[n], t, u) = InMessage(y, t, u) + InPipe(r, t, u)
          BY <1>8, <1>12, <4>1
        <5>2. InMessage(y, t, u) = InMessage(x, t, u) /\ r = fwdPipe[n]
          BY <1>4, <1>7
        <5>3. t # x.table => InMessage(x, t, u) = 0
          BY <2>2
        <5>4. /\ InMessage(x, t, u) \in Nat /\ InPipe(fwdPipe[n], t, u) \in Nat
              /\ InPipe(fwdPipe'[n], t, u) = InPipe(fwdPipe[n], t, u) + InMessage(x, t, u)
          BY <2>1, <2>2, <5>1, <5>2
        <5>5. Came(x, t, u, Accepts(n, x) /\ t \in Forward[n]) = InMessage(x, t, u)
          BY ONLY <4>1, <5>3 DEF Came
        <5> QED
          BY ONLY <5>4, <5>5
      <4>2. CASE ~(Accepts(n, x) /\ x.table \in Forward[n])
        BY <1>4, <1>12, <2>1, <2>2, <4>2 DEF Came
      <4> QED
        BY <4>1, <4>2
    <3>2. Came(x, t, u, Accepts(n, x) /\ t \in Forward[n]) \in Nat
      BY <2>2 DEF Came
    <3> HIDE DEF Came
    <3> QED
      BY <1>12, <2>1, <3>1, <3>2 DEF OnTheWay
  <2>6. Reached(n, t, u)' =
            Reached(n, t, u) + Came(x, t, u, Accepts(n, x) /\ t \in Apply[n])
    <3>1. CASE t = x.table /\ Accepts(n, x) /\ t \in Apply[n]
      BY <1>9, <1>11, <1>15, <2>1, <2>2, <3>1 DEF Came
    <3>2. CASE ~(t = x.table /\ Accepts(n, x) /\ t \in Apply[n])
      BY <1>9, <1>15, <2>1, <2>2, <3>2 DEF Came
    <3> QED
      BY <3>1, <3>2
  <2>7. ASSUME NEW a \in Nodes \ {m, n}
        PROVE  /\ OnTheWay(a, t, u)' = OnTheWay(a, t, u)
               /\ Reached(a, t, u)' = Reached(a, t, u)
    BY <1>12, <1>15, <2>1 DEF OnTheWay
  <2> QED
    BY <2>1, <2>2, <2>4, <2>5, <2>6, <2>7
<1> QED
  BY <1>2, <1>13, <1>14 DEF Comes

-----------------------------------------------------------------------------
(* Every step, as the account sees it: nothing happens, an update is made, *)
(* or a buffer goes from one node to the next.                             *)

Rests ==
    \A a \in Nodes :
        /\ AllSteady(a) /\ incs'[a] = incs[a]
        /\ pState'[a] = "RUN" => pState[a] = "RUN"
        /\ rState'[a] = "RUN" => rState[a] = "RUN"

Begins(n, t0) ==
    /\ Makes(n, t0) /\ incs[n] \in Nat /\ NewToken(n) \in Updates
    /\ incs'[n] = incs[n] + 1 /\ \A a \in Nodes \ {n} : incs'[a] = incs[a]
    /\ UNCHANGED <<pState, rState>>

(* What has reached the tables when the receiver of n has taken x.         *)
TakesIn(n, x) ==
    /\ Got(n, x.table)' = IF Accepts(n, x) /\ x.table \in Apply[n]
                            THEN AddUpdates(Got(n, x.table), x.buff.updates)
                            ELSE Got(n, x.table)
    /\ \A a \in Nodes, t \in Tables : (a # n \/ t # x.table) => Got(a, t)' = Got(a, t)
    /\ \A t \in Tables : Got(n, t) = storage[n][t]

Arrives(n, m, x) ==
    /\ TakeGives(n, m, x) /\ TakesIn(n, x) /\ Comes(n, m, x)
    /\ x \in Buffs(tcp[m]) /\ ~Has(x, n)

(* Without a ring the receiver never has own updates to remove.            *)
LEMMA DedupNever ==
    ASSUME FlowInv, NoRing, NEW n \in Nodes
    PROVE  ~DedupStep(n)
<1> SUFFICES ASSUME DedupStep(n) PROVE FALSE
  OBVIOUS
<1>1. rPc[n] = "dedup" /\ BuffersInv(n) /\ PlacesInv(n) /\ DataTypes
  BY FlowParts DEF DedupStep, Dedup
<1>2. Len(recvBuff[n]) = 1 /\ Has(recvBuff[n][1], n) /\ recvBuff[n] \in Seq(UpdateBufferMsg)
  BY <1>1 DEF BuffersInv, DataTypes
<1>3. recvBuff[n][1] \in UpdateBufferMsg
  BY <1>2
<1>4. IsBuff(recvBuff[n][1])
  BY <1>3 DEF UpdateBufferMsg, IsBuff
<1>5. recvBuff[n][1] \in Buffs(recvBuff[n])
  BY <1>2, <1>4 DEF Buffs
<1>6. n \in Fed(n)
  BY <1>1, <1>2, <1>5 DEF PlacesInv
<1> QED
  BY <1>6 DEF NoRing, OnRing

(* A step that changes no counter and no state.                            *)
LEMMA RestsSame ==
    ASSUME \A a \in Nodes : AllSteady(a), UNCHANGED <<incs, pState, rState>>
    PROVE  Rests
BY DEF Rests

Counts == \A a \in Nodes : NatInv(a)

(* The reception of a buffer.                                              *)
LEMMA TakeArrives ==
    ASSUME FlowInv, NoRing, Counts, NEW n \in Nodes, NEW m \in Nodes, TakeStep(n, m)
    PROVE  \E x : Arrives(n, m, x)
<1>1. PICK x : x = Head(tcp[m])
  OBVIOUS
<1>2. TakeGives(n, m, x)
  BY <1>1, TakeGiven
<1>3. Comes(n, m, x)
  BY <1>2, TakeMoves DEF Counts
<1>4. x \in Buffs(tcp[m])
  <2>1. tcp[m] \in Seq(TcpMsg)
    BY FlowParts DEF PipeTypes
  <2> QED
    BY <1>1, <1>2, <2>1 DEF Buffs, TakeGives
<1>5. ~Has(x, n)
  <2>1. Has(x, n) => m \in Reach(n)
    BY <1>4, FlowParts DEF PlacesInv
  <2> QED
    BY <1>2, <2>1, TreeStraight DEF TakeGives
<1>6. TakesIn(n, x)
  <2>1. /\ tcp[m] \in Seq(TcpMsg) /\ tcp[m] # <<>> /\ x = Head(tcp[m])
        /\ NatPipe(tcp[m]) /\ LoopInv(n) /\ IsBuff(x)
    BY <1>2, FlowParts DEF PipeTypes, TakeGives, Counts, NatInv, PipesNat, StoresNat
  <2>2. x = tcp[m][1] /\ 1 \in 1 .. Len(tcp[m])
    BY <2>1
  <2>3. NatStore(x.buff.updates)
    BY <2>1, <2>2 DEF NatPipe, NatMsg
  <2> QED
    BY <1>2, <2>1, <2>3, TakeKnown DEF TakesIn
<1> QED
  BY <1>2, <1>3, <1>4, <1>5, <1>6 DEF Arrives

(* The three kinds of step.                                                *)
LEMMA Account ==
    ASSUME FlowInv, FlowInv', NoRing, \A a \in Nodes : NatInv(a), [Next]_vars
    PROVE  \/ Rests
           \/ \E n \in Nodes, t0 \in Tables : Begins(n, t0)
           \/ \E n \in Nodes, m \in Nodes : \E x : Arrives(n, m, x)
<1>1. TypeInv
  BY DEF FlowInv, ShutdownInv
<1>2. CASE Calm
  <2> SUFFICES ASSUME NEW a \in Nodes
               PROVE  /\ AllSteady(a) /\ incs'[a] = incs[a]
                      /\ pState'[a] = "RUN" => pState[a] = "RUN"
                      /\ rState'[a] = "RUN" => rState[a] = "RUN"
    BY DEF Rests
  <2>1. CalmAt(a)
    BY <1>2 DEF Calm
  <2>2. AllSteady(a)
    BY <1>1, <2>1, CalmSteady
  <2> QED
    BY <2>1, <2>2 DEF CalmAt
<1>3. ASSUME NEW n \in Nodes, NEW th \in Threads, HandStep(n, th) PROVE Rests
  <2>1. PICK m : HandDoes(n, th, m)
    BY <1>3, HandEffect
  <2>2. \A a \in Nodes : AllSteady(a)
    BY <2>1, HandMoves
  <2> QED
    BY <2>1, <2>2, RestsSame DEF HandDoes, propVars, recvVars
<1>4. ASSUME NEW n \in Nodes, NEW th \in Threads, NEW t \in Tables, NEW k \in Keys,
             MakeStep(n, th, t, k)
      PROVE  Begins(n, t)
  <2>1. MakeDoes(n, th, t, k)
    BY <1>4, MakeEffect
  <2>2. Makes(n, t)
    BY <2>1, MakeMoves
  <2> QED
    BY <2>1, <2>2 DEF Begins, MakeDoes, propVars, recvVars
<1>5. ASSUME NEW n \in Nodes, NEW th \in Threads, PutStep(n, th) PROVE Rests
  <2>1. PICK m : PutDoes(n, th, m)
    BY <1>5, PutEffect
  <2>2. \A a \in Nodes : AllSteady(a)
    BY <2>1, PutMoves
  <2> QED
    BY <2>1, <2>2, RestsSame DEF PutDoes, recvVars, appVars
<1>6. ASSUME NEW n \in Nodes, NEW t \in Tables, FlushStep(n, t) PROVE Rests
  <2>1. PICK x : FlushDoes(n, t, x)
    BY <1>1, <1>6, FlowParts, FlushEffect
  <2>2. \A a \in Nodes : AllSteady(a)
    BY <1>6, <2>1, FlushMoves
  <2> QED
    BY <1>6, <2>1, <2>2, RestsSame DEF FlushDoes, FlushStep, appVars
<1>7. ASSUME NEW n \in Nodes, SendStep(n) PROVE Rests
  <2>1. PICK x : SendDoes(n, x)
    BY <1>1, <1>7, FlowParts, SendEffect
  <2>2. \A a \in Nodes : AllSteady(a)
    BY <1>7, <2>1, SendMoves
  <2> QED
    BY <1>7, <2>1, <2>2, RestsSame DEF SendDoes, SendStep, appVars
<1>8. ASSUME NEW n \in Nodes, MergeStep(n) PROVE Rests
  <2>1. PICK x : MergeDoes(n, x) /\ x = Head(fwdPipe[n])
    BY <1>1, <1>8, FlowParts, MergeEffect
  <2>2. \A a \in Nodes : AllSteady(a)
    BY <1>8, <2>1, MergeMoves
  <2> QED
    BY <1>8, <2>1, <2>2, RestsSame DEF MergeDoes, MergeStep, appVars
<1>9. ASSUME NEW n \in Nodes, NEW m \in Nodes, TakeStep(n, m)
      PROVE  \E x : Arrives(n, m, x)
  BY <1>9, TakeArrives DEF Counts
<1>10. \A n \in Nodes : ~DedupStep(n)
  BY DedupNever
<1> QED
  BY <1>1, <1>2, <1>3, <1>4, <1>5, <1>6, <1>7, <1>8, <1>9, <1>10, CalmSteps

Counted ==
    \A a \in Nodes, t \in Tables, u \in Updates :
        /\ Reached(a, t, u) \in Nat /\ OnTheWay(a, t, u) \in Nat
        /\ FromThreads(a, t, u) \in Nat

(* All counts are natural numbers, in every state ...                      *)
LEMMA AllCounted == TypeInv /\ Counts => Counted
BY WayCount DEF Counts, Counted

(* ... and after every step.                                               *)
LEMMA NextCounted == TypeInv' /\ Counts' => Counted'
BY AllCounted, PTL

(* The counts stay natural numbers.                                        *)
LEMMA CountsStep ==
    ASSUME FlowInv, FlowInv', NoRing, Counts, [Next]_vars
    PROVE  Counts'
<1>1. CASE Rests
  BY <1>1 DEF Rests, AllSteady, Counts
<1>2. ASSUME NEW n \in Nodes, NEW t0 \in Tables, Begins(n, t0) PROVE Counts'
  BY <1>2 DEF Begins, Makes, Counts
<1>3. ASSUME NEW n \in Nodes, NEW m \in Nodes, NEW x, Arrives(n, m, x) PROVE Counts'
  BY <1>3 DEF Arrives, Comes, Counts
<1> QED
  BY <1>1, <1>2, <1>3, Account DEF Counts

(* Initially nothing is applied and nothing on its way.                    *)
LEMMA CountsInit ==
    ASSUME Init
    PROVE  /\ Counts
           /\ \A a \in Nodes, t \in Tables, u \in Updates :
                Reached(a, t, u) = 0 /\ OnTheWay(a, t, u) = 0
<1>1. ASSUME NEW a \in Nodes
      PROVE  /\ tcp[a] = <<>> /\ outBuff[a] = <<>> /\ fwdPipe[a] = <<>>
             /\ \A th \in Threads :
                pend[a][th] = <<>> /\ logPipe[a][th] = <<>> /\ thr[a][th] = "new"
             /\ \A t \in Tables : /\ updateStore[a][t] = EmptyStore
                                 /\ storage[a][t] = EmptyStore /\ toApply[a][t] = EmptyStore
             /\ rPc[a] = "poll"
  BY DEF Init, WiresInit, PropagatorInit, ReceiverInit, ApplicationInit, InternalTableInit
<1>2. PICK e : e = << >>
  OBVIOUS
<1>3. Len(e) = 0 /\ NatPipe(e) /\ \A t, u : u \in Updates => InPipe(e, t, u) = 0
  <2>1. e \in Seq(Nodes) /\ Len(e) = 0 /\ \A i \in 1 .. Len(e) : FALSE
    BY <1>2
  <2>2. NatPipe(e)
    BY <2>1 DEF NatPipe
  <2> QED
    BY <2>1, <2>2, PipeCount
<1>4. Counts
  <2> SUFFICES ASSUME NEW a \in Nodes PROVE NatInv(a)
    BY DEF Counts
  <2>1. PipesNat(a) /\ ThreadsNat(a)
    BY <1>1, <1>2, <1>3 DEF PipesNat, ThreadsNat
  <2>2. StoresNat(a)
    BY <1>1, EmptyCount DEF StoresNat, LoopInv
  <2> QED
    BY <2>1, <2>2 DEF NatInv
<1>5. ASSUME NEW a \in Nodes, NEW t \in Tables, NEW u \in Updates
      PROVE  Reached(a, t, u) = 0 /\ OnTheWay(a, t, u) = 0
  <2>1. Reached(a, t, u) = 0
    BY <1>1, EmptyCount, AddNothing DEF Reached, Got
  <2>2. FromThreads(a, t, u) = 0
    <3> DEFINE f == [th \in Threads |-> InPipe(pend[a][th], t, u) + InPipe(logPipe[a][th], t, u)]
    <3>1. f \in [Threads -> Int] /\ \A th \in Threads : f[th] = 0
      BY <1>1, <1>2, <1>3
    <3>2. FromThreads(a, t, u) = SumFunction(f)
      BY DEF FromThreads
    <3> HIDE DEF f
    <3> QED
      BY <3>1, <3>2, FiniteAssumption, SumNat
  <2>3. InStore(updateStore[a][t], u) = 0
    BY <1>1, EmptyCount
  <2>4. InPipe(tcp[a], t, u) = 0 /\ InPipe(outBuff[a], t, u) = 0 /\ InPipe(fwdPipe[a], t, u) = 0
    BY <1>1, <1>2, <1>3
  <2> QED
    BY <2>1, <2>2, <2>3, <2>4 DEF OnTheWay
<1> QED
  BY <1>4, <1>5
=============================================================================
