------------------------------ MODULE Delivery ------------------------------
(***************************************************************************)
(* What becomes of an update: the properties of the data path, over where   *)
(* each token is.                                                           *)
(***************************************************************************)
EXTENDS QuiltDB

(* The number of times token u is in a store, and in the updates that a    *)
(* message carries for table t.                                            *)
InStore(s, u) == SumFunction([k \in AllKeys |-> s.val[k][u]])

InMessage(m, t, u) ==
    CASE m.type = "EPUpdateLog" -> IF m.table = t THEN m.delta[u] ELSE 0
      [] m.type \in {"EPUpdateBuffer", "EPRUpdateBuffer"} ->
            IF m.table = t THEN InStore(m.buff.updates, u) ELSE 0
      [] OTHER -> 0

InPipe(q, t, u) == SumFunction([i \in DOMAIN q |-> InMessage(q[i], t, u)])

(* The number of times token u was applied to table t of node n.           *)
Applied(n, t, u) == SumFunction([k \in AllKeys |-> Get(n, t, k)[u]])

(* The number of times its receiver is about to: the propagator has these  *)
(* already, and may have sent them on.                                     *)
Applying(n, t, u) ==
    IF rPc[n] = "apply" THEN InStore(toApply[n][t], u) ELSE 0

(* The number of times token u of table t is on its way from the table of  *)
(* node n to the receiver of its downstream node: in the calls of its      *)
(* threads, in the pipes and the stores of its propagator and on the wire. *)
FromThreads(n, t, u) ==
    SumFunction([th \in Threads |->
                    InPipe(pend[n][th], t, u) + InPipe(logPipe[n][th], t, u)])

OnTheWay(n, t, u) ==
    FromThreads(n, t, u)
      + InPipe(fwdPipe[n], t, u)
      + InStore(updateStore[n][t], u)
      + InPipe(outBuff[n], t, u)
      + InPipe(tcp[n], t, u)

(* The nodes that updates of p pass: those in every set that has p and is  *)
(* closed under Downstream.                                                *)
Closed(S) == \A a \in S : Downstream[a] \in S \cup {NoNode}

Reach(p) ==
    {m \in Nodes : \A S \in SUBSET Nodes : (p \in S /\ Closed(S)) => m \in S}

(* The updates of node m reach the table of node n.                        *)
Feeds(m, n) == n \in Reach(m)

Running(n) == Alive(n) /\ pState[n] = "RUN" /\ rState[n] = "RUN"

-----------------------------------------------------------------------------
(* No update is lost or duplicated between two neighbours while they run:  *)
(* what node n has applied or is applying of the updates that pass through *)
(* it, its downstream node has applied, is applying or will receive,       *)
(* exactly once.  (Updates of the downstream node itself come back in a    *)
(* ring, to be removed.)                                                   *)
NothingLostOrDoubled ==
    \A n \in Nodes, t \in Tables, u \in Updates :
        LET d == Downstream[n]
        IN  (/\ d # NoNode /\ Running(n) /\ Running(d)
             /\ u[1] # d /\ Feeds(u[1], n)
             /\ rPc[d] # "dedup")
            => Applied(n, t, u) + Applying(n, t, u)
                = OnTheWay(n, t, u) + Applied(d, t, u) + Applying(d, t, u)

(* No table ever holds an update twice, the table of the node that issued  *)
(* it included (quiltdb.tex: a node's own updates are removed from what    *)
(* comes back to it).                                                      *)
AppliedAtMostOnce ==
    \A n \in Nodes, t \in Tables, u \in Updates : Applied(n, t, u) \in {0, 1}

(* The nodes, their batches and messages implement a replicated table: a   *)
(* node knows an update only after its upstream node, exactly once, under  *)
(* the same key and without overtaking an earlier one of the same node,    *)
(* however the updates are batched and merged on the way, and applies what *)
(* it knows before it takes more.  What a node knows is in its table or    *)
(* about to be: a receiver forwards a buffer before it applies it.         *)
Abstract == INSTANCE Replication WITH
    Keys <- AllKeys,
    known <- [n \in Nodes |-> [t \in Tables |-> [k \in AllKeys |->
                VAdd(storage[n][t].val[k], toApply[n][t].val[k])]]],
    replica <- [n \in Nodes |-> [t \in Tables |-> storage[n][t].val]]

Replicated == Abstract!Spec

(* While its receiver runs, a node's own updates never leave its process   *)
(* before the receiver has them on record: whatever carries a range of the *)
(* node in flight, the receiver's queue holds every number of that range.  *)
InFlightBuffers(t) ==
    {m.buff : m \in {msg \in UNION {Range(tcp[n]) \cup Range(fwdPipe[n]) : n \in Nodes} :
                        msg.type \in {"EPRUpdateBuffer", "EPUpdateBuffer"} /\ msg.table = t}}

Numbers(n, b) ==
    UNION {b.ranges[i].st .. b.ranges[i].end :
                i \in {j \in DOMAIN b.ranges : b.ranges[j].id = n}}

RecordedBeforeSent ==
    \A n \in Nodes : Running(n) =>
        \A t \in Loop[n] : \A b \in InFlightBuffers(t) :
            Numbers(n, b) \subseteq
                UNION {Numbers(n, own) : own \in Range(myUpdates[n][t])}

(* No process aborts.                                                      *)
NoAbort == \A n \in Nodes : Alive(n)

(* The assertions of the receiver on the record of its own updates hold:   *)
(* a range that comes back contains the range of the oldest recorded       *)
(* buffer (receiver.cpp: CHECK(recv_my_update_range.Contains(...))) ...    *)
OldestIsContained == \A n \in Nodes : fatal[n] # "contains"

(* ... and the recorded buffers it covers follow one another               *)
(* (receiver.cpp: CHECK_EQ(my_update_range.st_, seq_num)).                 *)
RecordsFollowEachOther == \A n \in Nodes : fatal[n] # "seq_num"

(* The receiver never looks for the record of own updates in vain: not in  *)
(* a missing or empty queue (front() would be undefined), and not for a    *)
(* key that the buffer that came back does not have.                       *)
RecordIsThere ==
    \A n \in Nodes : fatal[n] \notin {"my_updates", "front", "found", "recv_delta"}

(* An update is in the end applied by every node that its node feeds.      *)
EventuallyApplied ==
    \A t \in Tables, u \in Updates :
        Applied(u[1], t, u) > 0
            ~> \A d \in Nodes : Feeds(u[1], d) => Applied(d, t, u) > 0
=============================================================================
