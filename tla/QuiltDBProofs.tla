---------------------------- MODULE QuiltDBProofs ----------------------------
(***************************************************************************)
(* Proofs about QuiltDB, for every propagation graph: types first, then the *)
(* shutdown protocol: the threads exit drained, the acknowledgement the     *)
(* propagator waits for is coming, and nothing is sent after the            *)
(* acknowledgement of termination.                                          *)
(***************************************************************************)
EXTENDS QuiltDB, FiniteSetTheorems, WellFoundedInduction, SequenceTheorems, TLAPS

-----------------------------------------------------------------------------
(* Data.                                                                   *)

(* The operators on stores yield stores.                                   *)
LEMMA EmptyStoreType == EmptyStore \in Store
BY DEF EmptyStore, Store, Value, Zero

(* A store without one of its keys is a store.                             *)
LEMMA WithoutType ==
    ASSUME NEW s \in Store, NEW k \in AllKeys
    PROVE  Without(s, k) \in Store
<1>1. Zero \in Value
    BY DEF Zero, Value
<1> QED BY <1>1 DEF Without, Store

(* An Inc merged into a store (AddUpdate) yields a store.                  *)
LEMMA AddUpdateType ==
    ASSUME NEW s \in Store, NEW k \in AllKeys, NEW d \in Value
    PROVE  AddUpdate(s, k, d) \in Store
BY DEF AddUpdate, Store, Value, VAdd

(* Merging a received buffer into a store yields a store.                  *)
LEMMA AddUpdatesType ==
    ASSUME NEW s \in Store, NEW r \in Store
    PROVE  AddUpdates(s, r) \in Store
BY DEF AddUpdates, Store, Value, VAdd

(* Removing a node's own updates from a buffer yields a store.             *)
LEMMA SubUpdatesType ==
    ASSUME NEW s \in Store, NEW r \in Store
    PROVE  SubUpdates(s, r) \in Store
BY DEF SubUpdates, Store, Value, VSub

(* A non-empty set of positions has a first one.                           *)
LEMMA FirstIndex ==
    ASSUME NEW S \in SUBSET Nat, S # {}
    PROVE  \E i \in S : \A j \in S : i <= j
<1>1. \E i \in S : \A j \in S : ~(<<j, i>> \in OpToRel(<, Nat))
    BY NatLessThanWellFounded, WFMin
<1>2. \A i \in S, j \in S : ~(<<j, i>> \in OpToRel(<, Nat)) => i <= j
    BY DEF OpToRel
<1> QED BY <1>1, <1>2

(* The slots of a buffer.                                                  *)
LEMMA BufferSlots ==
    ASSUME NEW b \in Buffer
    PROVE  /\ b.ranges \in Seq(Slot) /\ b.updates \in Store
           /\ b = [ranges |-> b.ranges, updates |-> b.updates]
           /\ DOMAIN b.ranges = 1 .. Len(b.ranges)
           /\ \A i \in DOMAIN b.ranges :
                /\ b.ranges[i] \in Slot
                /\ b.ranges[i].id \in Nodes \cup {NoNode}
                /\ b.ranges[i].st \in Int /\ b.ranges[i].end \in Int
<1>1. b.ranges \in Seq(Slot) /\ b.updates \in Store
    BY DEF Buffer
<1>2. b = [ranges |-> b.ranges, updates |-> b.updates]
    BY DEF Buffer
<1>3. DOMAIN b.ranges = 1 .. Len(b.ranges)
    BY <1>1
<1>4. \A i \in DOMAIN b.ranges : b.ranges[i] \in Slot
    BY <1>1
<1>5. \A s \in Slot : s.id \in Nodes \cup {NoNode} /\ s.st \in Int /\ s.end \in Int
    BY DEF Slot
<1> QED BY <1>1, <1>2, <1>3, <1>4, <1>5

(* GetNodeRange of a node that has a range yields one.                     *)
LEMMA GetNodeRangeType ==
    ASSUME NEW b \in Buffer, NEW id, HasNodeRange(b, id)
    PROVE  GetNodeRange(b, id) \in UpdateRange
<1> DEFINE S == {i \in DOMAIN b.ranges : b.ranges[i].id = id}
<1>1. S \in SUBSET Nat /\ S # {}
    BY DEF HasNodeRange, Buffer
<1>2. PICK i \in S : \A j \in S : i <= j
    BY <1>1, FirstIndex
<1>3. i \in SlotOf(b, id)
    BY <1>2 DEF SlotOf, Buffer
<1>4. SlotOf(b, id) \subseteq DOMAIN b.ranges
    BY DEF SlotOf
<1>5. (CHOOSE j \in SlotOf(b, id) : TRUE) \in DOMAIN b.ranges
    BY <1>3, <1>4
<1>6. \A j \in DOMAIN b.ranges : b.ranges[j].st \in Int /\ b.ranges[j].end \in Int
    BY BufferSlots
<1> QED BY <1>5, <1>6 DEF GetNodeRange, Span, UpdateRange

(* The operators on buffers yield buffers.                                 *)
LEMMA DeleteNodeRangeType ==
    ASSUME NEW b \in Buffer, NEW id
    PROVE  DeleteNodeRange(b, id) \in Buffer
<1> DEFINE r == DeleteNodeRange(b, id)
<1>1. r.ranges \in [1 .. Len(b.ranges) -> Slot]
  <2>1. \A s \in Slot : [s EXCEPT !.id = NoNode] \in Slot
    BY DEF Slot
  <2> QED BY <2>1, BufferSlots DEF DeleteNodeRange, Buffer
<1>2. r.ranges \in Seq(Slot)
    BY <1>1, BufferSlots
<1>3. r = [ranges |-> r.ranges, updates |-> b.updates]
  <2>1. \A R : LET e == [b EXCEPT !.ranges = R]
               IN  e = [ranges |-> e.ranges, updates |-> b.updates]
    BY DEF Buffer
  <2> QED BY <2>1 DEF DeleteNodeRange
<1> QED BY <1>2, <1>3, BufferSlots DEF Buffer

(* The propagator's ranges of its peers stay ranges of peers when those    *)
(* of a forwarded buffer are merged in.                                    *)
LEMMA MergeRangesType ==
    ASSUME NEW peers \in PeerRanges, NEW b \in Buffer
    PROVE  MergeRanges(peers, b) \in PeerRanges
<1> DEFINE ids == {b.ranges[i].id : i \in Visited(b)}
<1>1. ids \subseteq Nodes
  <2>1. \A i \in Visited(b) :
            i \in DOMAIN b.ranges /\ i \in Nat /\ b.ranges[i].id # NoNode
    BY BufferSlots DEF Visited
  <2> QED BY <2>1, BufferSlots
<1>2. \A p \in ids : GetNodeRange(b, p) \in UpdateRange
    BY GetNodeRangeType DEF HasNodeRange, Visited
<1>3. \A p \in Nodes : peers.range[p] \in UpdateRange
    BY DEF PeerRanges
<1>4. peers.known \subseteq Nodes
    BY DEF PeerRanges
<1>5. \A p \in ids \cap peers.known :
        Span(peers.range[p].st, GetNodeRange(b, p).end) \in UpdateRange
    BY <1>1, <1>2, <1>3 DEF Span, UpdateRange
<1> QED BY <1>1, <1>2, <1>3, <1>4, <1>5 DEF MergeRanges, PeerRanges

(* Advancing a range past its end yields a range.                          *)
LEMMA AdvanceType ==
    ASSUME NEW r \in UpdateRange
    PROVE  Advance(r) \in UpdateRange
BY DEF Advance, Span, UpdateRange

(* The slots that the propagator writes.                                   *)
LEMMA FlushSlotsType ==
    ASSUME NEW n \in Nodes, NEW t \in Tables, PropagatorTypeOK,
           NEW order \in Orders(NewPeers(n, t))
    PROVE  FlushSlots(n, t, order) \in Seq(Slot)
<1> DEFINE peers == [i \in DOMAIN order |->
                NodeSlot(order[i], peerUpdateRange[n][t].range[order[i]])]
           own   == IF HasOwnRange(n, t)
                    THEN <<NodeSlot(n, myUpdateRange[n][t])>> ELSE <<>>
           k     == Cardinality(peerUpdateRange[n][t].known)
<1>1. /\ peerUpdateRange[n][t] \in PeerRanges
      /\ myUpdateRange[n][t] \in UpdateRange
    BY DEF PropagatorTypeOK
<1>2. /\ peerUpdateRange[n][t].known \subseteq Nodes
      /\ peerUpdateRange[n][t].range \in [Nodes -> UpdateRange]
    BY <1>1 DEF PeerRanges
<1>3. NewPeers(n, t) \subseteq Nodes
    BY <1>2 DEF NewPeers
<1>4. IsFiniteSet(NewPeers(n, t)) /\ IsFiniteSet(peerUpdateRange[n][t].known)
    BY <1>2, <1>3, NodesAssumption, FS_Subset
<1>5. Cardinality(NewPeers(n, t)) \in Nat /\ k \in Nat
    BY <1>4, FS_CardinalityType
<1>6. order \in [1 .. Cardinality(NewPeers(n, t)) -> NewPeers(n, t)]
    BY DEF Orders, Bijection, Injection
<1>7. \A p \in Nodes, r \in UpdateRange : NodeSlot(p, r) \in Slot
    BY DEF NodeSlot, UpdateRange, Slot
<1>8. peers \in [1 .. Cardinality(NewPeers(n, t)) -> Slot]
    BY <1>2, <1>3, <1>6, <1>7
<1>9. peers \in Seq(Slot)
    BY <1>5, <1>8
<1>10. own \in Seq(Slot)
    BY <1>1, <1>7
<1>11. FreeSlot \in Slot
    BY DEF FreeSlot, Slot
<1> HIDE DEF peers, own, k
<1>12. (peers \o own) \in Seq(Slot)
    BY <1>9, <1>10
<1> DEFINE slots == peers \o own
<1>13. \A i \in 1 .. k + 1 : i <= Len(slots) => slots[i] \in Slot
    BY <1>5, <1>12
<1> HIDE DEF slots
<1>14. [i \in 1 .. k + 1 |-> IF i <= Len(slots) THEN slots[i] ELSE FreeSlot]
            \in Seq(Slot)
    BY <1>5, <1>11, <1>13
<1> QED BY <1>14 DEF FlushSlots, slots, peers, own, k

-----------------------------------------------------------------------------
(* Messages.                                                               *)

(* The messages of Propagator::Inc and Propagator::SignalTerm.             *)
LEMMA LogMsgType ==
    /\ Msg("EPInternalTerminate") \in LogMsg
    /\ \A t \in Tables, k \in AllKeys, d \in Value :
        [type |-> "EPUpdateLog", table |-> t, key |-> k, delta |-> d] \in LogMsg
    /\ \A m \in LogMsg : m.type = "EPUpdateLog" =>
        m.table \in Tables /\ m.key \in AllKeys /\ m.delta \in Value
BY DEF LogMsg, Msg

(* The messages between a propagator and its paired receiver.              *)
LEMMA BuffMsgType ==
    /\ Msg("EPRecvInternalTerminateACK") \in FwdMsg
    /\ Msg("EPRInternalTerminate") \in P2RMsg
    /\ \A t \in Tables, b \in Buffer :
        /\ BuffMsg("EPUpdateBuffer", t, b) \in FwdMsg
        /\ BuffMsg("EMyUpdates", t, b) \in P2RMsg
        /\ BuffMsg("EPRUpdateBuffer", t, b) \in UpdateBufferMsg
    /\ \A m \in FwdMsg : m.type = "EPUpdateBuffer" =>
        m.table \in Tables /\ m.buff \in Buffer
    /\ \A m \in P2RMsg : m.type = "EMyUpdates" =>
        m.table \in Tables /\ m.buff \in Buffer
BY DEF FwdMsg, P2RMsg, UpdateBufferMsg, Msg, BuffMsg

(* The messages of a propagator to its downstream receiver.                *)
LEMMA TcpMsgType ==
    /\ UpdateBufferMsg \subseteq TcpMsg
    /\ \A n \in Nodes : TermAck(n) \in TcpMsg
    /\ \A m \in UpdateBufferMsg : m.table \in Tables /\ m.buff \in Buffer
    /\ \A m \in TcpMsg : m.type = "EPRUpdateBuffer" => m \in UpdateBufferMsg
    /\ \A m \in TcpMsg : m.type = "EPRTerminateACK" => m.node \in Nodes
BY DEF TcpMsg, UpdateBufferMsg, TermAck

(* The acknowledgement and the two requests for termination.               *)
LEMMA SignalType ==
    /\ Msg("EMyUpdatesACK") \in R2PMsg
    /\ Msg("ERInternalTerminate") \in TermMsg
    /\ Msg("EPRTerminate") \in SubMsg
BY DEF R2PMsg, TermMsg, SubMsg, Msg

-----------------------------------------------------------------------------
(* Type correctness.  A thread in the middle of a branch has the message   *)
(* it is working on: the local variables update_buff and recv_update_buff  *)
(* are set when they are used.                                             *)

AtWork ==
    \A n \in Nodes :
        /\ pPc[n] \in {"ack", "send"} => outBuff[n] # <<>>
        /\ rPc[n] = "dedup" => recvBuff[n] # <<>>

TypeInv == TypeOK /\ AtWork

(* The threads enter their loops with their locals set.                    *)
LEMMA TypeInit == Init => TypeInv
<1> SUFFICES ASSUME Init PROVE TypeInv
    OBVIOUS
<1> USE DEF Init
<1>1. WiresTypeOK
    BY DEF WiresInit, WiresTypeOK, FatalSites
<1>2. TimerTypeOK
    BY DEF TimerInit, TimerTypeOK
<1>3. PropagatorTypeOK
  <2>1. /\ [known |-> {}, range |-> [p \in Nodes |-> Span(0, -1)]] \in PeerRanges
        /\ Span(0, -1) \in UpdateRange
    BY DEF PeerRanges, Span, UpdateRange
  <2> QED BY <2>1, EmptyStoreType DEF PropagatorInit, PropagatorTypeOK
<1>4. InternalTableTypeOK
    BY EmptyStoreType DEF InternalTableInit, InternalTableTypeOK
<1>5. ReceiverTypeOK
    BY EmptyStoreType DEF ReceiverInit, ReceiverTypeOK
<1>6. ApplicationTypeOK
    BY ApplicationAssumption DEF ApplicationInit, ApplicationTypeOK
<1>7. AtWork
    BY DEF PropagatorInit, ReceiverInit, AtWork
<1> QED BY <1>1, <1>2, <1>3, <1>4, <1>5, <1>6, <1>7 DEF TypeInv, TypeOK

(* The timer thread keeps the types.                                       *)
LEMMA TypeTimer ==
    ASSUME TypeInv, NEW n \in Nodes, TimerNext(n)
    PROVE  TypeInv'
<1>1. TimerTypeOK'
    BY DEF TypeInv, TypeOK, TimerTypeOK, TimerNext, TimerStep, Trigger, Command
<1> QED BY <1>1 DEF TypeInv, TypeOK, AtWork, WiresTypeOK, PropagatorTypeOK,
        InternalTableTypeOK, ReceiverTypeOK, ApplicationTypeOK, TimerNext,
        TimerStep, wireVars, propVars, propStores, propFlags, recvVars,
        recvFlags, appVars

(* Every branch of PropagatorThrMain keeps the types.                      *)
LEMMA TypePropagator ==
    ASSUME TypeInv, NEW n \in Nodes, PropagatorNext(n)
    PROVE  TypeInv'
<1> USE DEF TypeInv, TypeOK
<1>1. InternalTableTypeOK' /\ ReceiverTypeOK' /\ ApplicationTypeOK'
    BY DEF PropagatorNext, InternalTableTypeOK, ReceiverTypeOK,
        ApplicationTypeOK, recvVars, recvFlags, appVars
<1>2. SUFFICES WiresTypeOK' /\ TimerTypeOK' /\ PropagatorTypeOK'
                /\ \A m \in Nodes : pPc'[m] \in {"ack", "send"} => outBuff'[m] # <<>>
    BY <1>1 DEF AtWork, PropagatorNext, recvVars
<1> USE DEF AtWork, wireVars, propStores, propFlags
<1>3. CASE TimerTick(n)
    BY <1>3 DEF TimerTick, TimerCmd, AfterFlush, WiresTypeOK, TimerTypeOK,
        PropagatorTypeOK
<1>4. CASE \E t \in Tables : FlushTable(n, t)
  <2>1. PICK t \in Tables : FlushTable(n, t)
    BY <1>4
  <2>2. PICK order \in Orders(NewPeers(n, t)) :
            outBuff' = [outBuff EXCEPT ![n] =
                <<BuffMsg("EPRUpdateBuffer", t,
                    [ranges |-> FlushSlots(n, t, order),
                     updates |-> updateStore[n][t]])>>]
    BY <2>1 DEF FlushTable
  <2>3. [ranges |-> FlushSlots(n, t, order), updates |-> updateStore[n][t]]
            \in Buffer
    BY FlushSlotsType, ZenonT(40) DEF Buffer, PropagatorTypeOK
  <2>4. outBuff' \in [Nodes -> Seq(UpdateBufferMsg)] /\ outBuff'[n] # <<>>
    BY <2>2, <2>3, BuffMsgType DEF PropagatorTypeOK
  <2>5. updateStore' \in [Nodes -> [Tables -> Store]]
    BY <2>1, EmptyStoreType DEF FlushTable, PropagatorTypeOK
  <2>6. myUpdateStore' \in [Nodes -> [Tables -> Store]]
    <3>1. \/ myUpdateStore' = [myUpdateStore EXCEPT ![n][t] = EmptyStore]
          \/ myUpdateStore' = myUpdateStore
        BY <2>1 DEF FlushTable
    <3>2. myUpdateStore \in [Nodes -> [Tables -> Store]]
        BY DEF PropagatorTypeOK
    <3> QED BY <3>1, <3>2, EmptyStoreType
  <2>7. peerUpdateRange' \in [Nodes -> [Tables -> PeerRanges]]
    <3>1. \A r \in [Nodes -> UpdateRange] :
            [p \in Nodes |-> IF p \in NewPeers(n, t) THEN Advance(r[p]) ELSE r[p]]
                \in [Nodes -> UpdateRange]
        BY AdvanceType
    <3>2. \A q \in PeerRanges : [q EXCEPT !.range = [p \in Nodes |->
                IF p \in NewPeers(n, t) THEN Advance(@[p]) ELSE @[p]]] \in PeerRanges
        BY <3>1 DEF PeerRanges
    <3>3. peerUpdateRange' = [peerUpdateRange EXCEPT ![n][t].range =
            [p \in Nodes |-> IF p \in NewPeers(n, t)
                                THEN Advance(@[p]) ELSE @[p]]]
        BY <2>1 DEF FlushTable
    <3>4. peerUpdateRange \in [Nodes -> [Tables -> PeerRanges]]
        BY DEF PropagatorTypeOK
    <3> QED BY <3>2, <3>3, <3>4
  <2>8. p2r' \in [Nodes -> Seq(P2RMsg)]
    <3>1. <<NodeSlot(n, myUpdateRange[n][t])>> \in Seq(Slot)
        BY DEF NodeSlot, UpdateRange, Slot, PropagatorTypeOK
    <3>2. [ranges |-> <<NodeSlot(n, myUpdateRange[n][t])>>,
           updates |-> myUpdateStore[n][t]] \in Buffer
        BY <3>1 DEF Buffer, PropagatorTypeOK
    <3> DEFINE own == BuffMsg("EMyUpdates", t,
                        [ranges |-> <<NodeSlot(n, myUpdateRange[n][t])>>,
                         updates |-> myUpdateStore[n][t]])
    <3>3. own \in P2RMsg
        BY <3>2, BuffMsgType
    <3>4. p2r' = [p2r EXCEPT ![n] = Append(@, own)] \/ p2r' = p2r
        BY <2>1 DEF FlushTable
    <3> HIDE DEF own
    <3>5. p2r \in [Nodes -> Seq(P2RMsg)]
        BY DEF WiresTypeOK
    <3> QED BY <3>3, <3>4, <3>5, SMTT(20)
  <2>9. /\ fatal' \in [Nodes -> FatalSites]
        /\ pPc' \in [Nodes -> {"poll", "flush", "ack", "send", "join", "exit"}]
    BY <2>1, ZenonT(40) DEF FlushTable, WiresTypeOK, PropagatorTypeOK, FatalSites
  <2>10. UNCHANGED <<logPipe, fwdPipe, r2p, termPipe, tcp, sub, timer, pState,
                     myUpdateRange, propFlags, flushTodo>>
    BY <2>1 DEF FlushTable
  <2>11. \A m \in Nodes : pPc'[m] \in {"ack", "send"} => outBuff'[m] # <<>>
    <3>1. \A m \in Nodes \ {n} : pPc'[m] = pPc[m] /\ outBuff'[m] = outBuff[m]
        BY <2>1, <2>2 DEF FlushTable, PropagatorTypeOK
    <3> QED BY <2>4, <3>1
  <2> QED BY <2>4, <2>5, <2>6, <2>7, <2>8, <2>9, <2>10, <2>11
        DEF WiresTypeOK, TimerTypeOK, PropagatorTypeOK
<1>5. CASE SendBuffer(n)
  <2>1. outBuff[n] \in Seq(UpdateBufferMsg) /\ outBuff[n] # <<>>
    BY <1>5 DEF SendBuffer, PropagatorTypeOK
  <2>2. Head(outBuff[n]).table \in Tables
    BY <2>1, TcpMsgType
  <2>3. myUpdateRange' \in [Nodes -> [Tables -> UpdateRange]]
    BY <1>5, <2>2, AdvanceType DEF SendBuffer, PropagatorTypeOK
  <2>4. tcp' \in [Nodes -> Seq(TcpMsg)]
    <3>1. outBuff[n] \in Seq(TcpMsg)
        BY <2>1, TcpMsgType
    <3>2. tcp' = [tcp EXCEPT ![n] = @ \o outBuff[n]] \/ tcp' = tcp
        BY <1>5 DEF SendBuffer, Enqueue
    <3>3. tcp \in [Nodes -> Seq(TcpMsg)]
        BY DEF WiresTypeOK
    <3>4. tcp[n] \o outBuff[n] \in Seq(TcpMsg)
        BY <3>1, <3>3
    <3> QED BY <3>2, <3>3, <3>4
  <2>5. r2p' \in [Nodes -> Seq(R2PMsg)]
    <3>1. r2p' = r2p \/ (r2p[n] # <<>> /\ r2p' = [r2p EXCEPT ![n] = Tail(@)])
        BY <1>5 DEF SendBuffer
    <3>2. r2p \in [Nodes -> Seq(R2PMsg)]
        BY DEF WiresTypeOK
    <3> QED BY <3>1, <3>2
  <2>6. fatal' \in [Nodes -> FatalSites]
    BY <1>5 DEF SendBuffer, WiresTypeOK, FatalSites
  <2>7. /\ outBuff' \in [Nodes -> Seq(UpdateBufferMsg)]
        /\ flushTodo' \in [Nodes -> SUBSET Tables]
        /\ pPc' \in [Nodes -> {"poll", "flush", "ack", "send", "join", "exit"}]
        /\ \A m \in Nodes : pPc'[m] \in {"ack", "send"} => outBuff'[m] # <<>>
    BY <1>5 DEF SendBuffer, PropagatorTypeOK, AfterFlush
  <2> QED BY <1>5, <2>3, <2>4, <2>5, <2>6, <2>7
        DEF SendBuffer, WiresTypeOK, TimerTypeOK, PropagatorTypeOK
<1>6. CASE JoinTimer(n)
    BY <1>6 DEF JoinTimer, ExitIf, WiresTypeOK, TimerTypeOK, PropagatorTypeOK
<1>7. CASE \E t \in Threads : RecvUpdateLog(n, t)
  <2>1. PICK t \in Threads : RecvUpdateLog(n, t)
    BY <1>7
  <2> DEFINE m == Head(logPipe[n][t])
  <2>2. logPipe[n][t] \in Seq(LogMsg) /\ logPipe[n][t] # <<>>
    BY <2>1 DEF RecvUpdateLog, IsNext, WiresTypeOK
  <2>3. m.table \in Tables /\ m.key \in AllKeys /\ m.delta \in Value
    <3>1. m \in LogMsg
        BY <2>2
    <3>2. m.type = "EPUpdateLog"
        BY <2>1 DEF RecvUpdateLog, IsNext
    <3> HIDE DEF m
    <3> QED BY <3>1, <3>2, LogMsgType
  <2>4. logPipe' \in [Nodes -> [Threads -> Seq(LogMsg)]]
    BY <2>1, <2>2 DEF RecvUpdateLog, WiresTypeOK
  <2>5. myUpdateRange' \in [Nodes -> [Tables -> UpdateRange]]
    <3>1. \A r \in UpdateRange : [r EXCEPT !.end = @ + 1] \in UpdateRange
        BY DEF UpdateRange
    <3> QED BY <2>1, <2>3, <3>1 DEF RecvUpdateLog, PropagatorTypeOK
  <2>6. updateStore' \in [Nodes -> [Tables -> Store]]
    BY <2>1, <2>3, AddUpdateType DEF RecvUpdateLog, PropagatorTypeOK
  <2>7. myUpdateStore' \in [Nodes -> [Tables -> Store]]
    BY <2>1, <2>3, AddUpdateType DEF RecvUpdateLog, PropagatorTypeOK
  <2> QED BY <2>1, <2>4, <2>5, <2>6, <2>7
        DEF RecvUpdateLog, WiresTypeOK, TimerTypeOK, PropagatorTypeOK
<1>8. CASE \E t \in Threads : RecvInternalTerminate(n, t)
  <2>1. PICK t \in Threads : RecvInternalTerminate(n, t)
    BY <1>8
  <2>2. logPipe' \in [Nodes -> [Threads -> Seq(LogMsg)]]
    BY <2>1 DEF RecvInternalTerminate, IsNext, WiresTypeOK
  <2>3. p2r' \in [Nodes -> Seq(P2RMsg)]
    BY <2>1, BuffMsgType DEF RecvInternalTerminate, WiresTypeOK
  <2>4. tcp' \in [Nodes -> Seq(TcpMsg)]
    <3>1. tcp' = [tcp EXCEPT ![n] = Append(@, TermAck(n))] \/ tcp' = tcp
        BY <2>1 DEF RecvInternalTerminate
    <3>2. tcp \in [Nodes -> Seq(TcpMsg)]
        BY DEF WiresTypeOK
    <3>3. TermAck(n) \in TcpMsg
        BY TcpMsgType
    <3>4. Append(tcp[n], TermAck(n)) \in Seq(TcpMsg)
        BY <3>2, <3>3
    <3> QED BY <3>1, <3>2, <3>4
  <2>5. updateStore' \in [Nodes -> [Tables -> Store]]
    BY <2>1, EmptyStoreType DEF RecvInternalTerminate, PropagatorTypeOK
  <2>6. /\ pState' \in [Nodes -> {"RUN", "TERM_PREP", "TERM"}]
        /\ haveRepliedDsTerm' \in [Nodes -> BOOLEAN]
    BY <2>1 DEF RecvInternalTerminate, PropagatorTypeOK
  <2> QED BY <2>1, <2>2, <2>3, <2>4, <2>5, <2>6
        DEF RecvInternalTerminate, WiresTypeOK, TimerTypeOK, PropagatorTypeOK
<1>9. CASE RecvPUpdateBuffer(n)
  <2> DEFINE m == Head(fwdPipe[n])
  <2>1. m.table \in Tables /\ m.buff \in Buffer
    BY <1>9, BuffMsgType DEF RecvPUpdateBuffer, IsNext, WiresTypeOK
  <2>2. fwdPipe' \in [Nodes -> Seq(FwdMsg)]
    BY <1>9 DEF RecvPUpdateBuffer, IsNext, WiresTypeOK
  <2>3. updateStore' \in [Nodes -> [Tables -> Store]]
    <3>1. \/ updateStore' = [updateStore EXCEPT ![n][m.table] =
                                AddUpdates(@, m.buff.updates)]
          \/ updateStore' = updateStore
        BY <1>9 DEF RecvPUpdateBuffer
    <3>2. updateStore \in [Nodes -> [Tables -> Store]]
        BY DEF PropagatorTypeOK
    <3>3. m.buff.updates \in Store
        BY <2>1, BufferSlots
    <3> HIDE DEF m
    <3> QED BY <2>1, <3>1, <3>2, <3>3, AddUpdatesType
  <2>4. peerUpdateRange' \in [Nodes -> [Tables -> PeerRanges]]
    <3>1. \/ peerUpdateRange' = [peerUpdateRange EXCEPT ![n][m.table] =
                                    MergeRanges(@, m.buff)]
          \/ peerUpdateRange' = peerUpdateRange
        BY <1>9 DEF RecvPUpdateBuffer
    <3>2. peerUpdateRange \in [Nodes -> [Tables -> PeerRanges]]
        BY DEF PropagatorTypeOK
    <3> HIDE DEF m
    <3> QED BY <2>1, <3>1, <3>2, MergeRangesType
  <2>5. fatal' \in [Nodes -> FatalSites]
    BY <1>9 DEF RecvPUpdateBuffer, WiresTypeOK, FatalSites
  <2> QED BY <1>9, <2>2, <2>3, <2>4, <2>5
        DEF RecvPUpdateBuffer, WiresTypeOK, TimerTypeOK, PropagatorTypeOK
<1>10. CASE RecvInternalTerminateACK(n)
  <2>1. fwdPipe' \in [Nodes -> Seq(FwdMsg)]
    BY <1>10 DEF RecvInternalTerminateACK, IsNext, WiresTypeOK
  <2>2. /\ pState' \in [Nodes -> {"RUN", "TERM_PREP", "TERM"}]
        /\ pPc' \in [Nodes -> {"poll", "flush", "ack", "send", "join", "exit"}]
        /\ haveStoppedRecv' \in [Nodes -> BOOLEAN]
    BY <1>10 DEF RecvInternalTerminateACK, ExitIf, PropagatorTypeOK
  <2>3. \A m \in Nodes : pPc'[m] \in {"ack", "send"} => outBuff'[m] # <<>>
    BY <1>10 DEF RecvInternalTerminateACK, ExitIf, PropagatorTypeOK
  <2> QED BY <1>10, <2>1, <2>2, <2>3
        DEF RecvInternalTerminateACK, WiresTypeOK, TimerTypeOK, PropagatorTypeOK
<1>11. CASE RecvEPRTerminate(n)
  <2>1. tcp' \in [Nodes -> Seq(TcpMsg)]
    <3>1. tcp' = [tcp EXCEPT ![n] = Append(@, TermAck(n))] \/ tcp' = tcp
        BY <1>11 DEF RecvEPRTerminate
    <3>2. tcp \in [Nodes -> Seq(TcpMsg)]
        BY DEF WiresTypeOK
    <3>3. TermAck(n) \in TcpMsg
        BY TcpMsgType
    <3>4. Append(tcp[n], TermAck(n)) \in Seq(TcpMsg)
        BY <3>2, <3>3
    <3> QED BY <3>1, <3>2, <3>4
  <2>2. sub' \in [Nodes -> Seq(SubMsg)]
    BY <1>11 DEF RecvEPRTerminate, IsNext, WiresTypeOK
  <2>3. /\ pState' \in [Nodes -> {"RUN", "TERM_PREP", "TERM"}]
        /\ pPc' \in [Nodes -> {"poll", "flush", "ack", "send", "join", "exit"}]
        /\ haveReceivedDsTerm' \in [Nodes -> BOOLEAN]
        /\ haveRepliedDsTerm' \in [Nodes -> BOOLEAN]
    BY <1>11 DEF RecvEPRTerminate, ExitIf, PropagatorTypeOK
  <2>4. \A m \in Nodes : pPc'[m] \in {"ack", "send"} => outBuff'[m] # <<>>
    BY <1>11 DEF RecvEPRTerminate, ExitIf, PropagatorTypeOK
  <2> QED BY <1>11, <2>1, <2>2, <2>3, <2>4
        DEF RecvEPRTerminate, WiresTypeOK, TimerTypeOK, PropagatorTypeOK
<1> QED BY <1>3, <1>4, <1>5, <1>6, <1>7, <1>8, <1>9, <1>10, <1>11
        DEF PropagatorNext, PropagatorStep

(* Applying a buffer starts with its first update, if it has any.          *)
LEMMA DeliverGoes ==
    ASSUME NEW n, NEW t, NEW b, Deliver(n, t, b)
    PROVE  \E loc \in {"poll", "apply"} : rPc' = [rPc EXCEPT ![n] = loc]
BY DEF Deliver, AfterApply

(* What the end of EPRUpdateBuffer does to the propagator and the receiver. *)
LEMMA TypeDeliver ==
    ASSUME TypeOK, NEW n \in Nodes, NEW t \in Tables, NEW b \in Buffer,
           Deliver(n, t, b)
    PROVE  /\ fwdPipe' \in [Nodes -> Seq(FwdMsg)]
           /\ toApply' \in [Nodes -> [Tables -> Store]]
           /\ rPc' \in [Nodes -> {"poll", "dedup", "apply", "exit"}]
           /\ rPc'[n] # "dedup" /\ \A m \in Nodes : m # n => rPc'[m] = rPc[m]
<1>1. fwdPipe' \in [Nodes -> Seq(FwdMsg)]
  <2> DEFINE m == BuffMsg("EPUpdateBuffer", t, b)
  <2>1. fwdPipe' = [fwdPipe EXCEPT ![n] = Append(@, m)] \/ fwdPipe' = fwdPipe
    BY DEF Deliver
  <2>2. m \in FwdMsg
    BY BuffMsgType
  <2>3. fwdPipe \in [Nodes -> Seq(FwdMsg)]
    BY DEF TypeOK, WiresTypeOK
  <2> HIDE DEF m
  <2>4. Append(fwdPipe[n], m) \in Seq(FwdMsg)
    BY <2>2, <2>3
  <2> QED BY <2>1, <2>3, <2>4
<1>2. toApply' \in [Nodes -> [Tables -> Store]]
  <2>1. toApply' = [toApply EXCEPT ![n][t] = b.updates] \/ toApply' = toApply
    BY DEF Deliver
  <2>2. toApply \in [Nodes -> [Tables -> Store]]
    BY DEF TypeOK, ReceiverTypeOK
  <2>3. b.updates \in Store
    BY BufferSlots
  <2> QED BY <2>1, <2>2, <2>3
<1>3. PICK loc \in {"poll", "apply"} : rPc' = [rPc EXCEPT ![n] = loc]
    BY DeliverGoes
<1>4. rPc \in [Nodes -> {"poll", "dedup", "apply", "exit"}]
    BY DEF TypeOK, ReceiverTypeOK
<1> QED BY <1>1, <1>2, <1>3, <1>4

(* Every branch of ReceiverThrMain keeps the types.                        *)
LEMMA TypeReceiver ==
    ASSUME TypeInv, NEW n \in Nodes, ReceiverNext(n)
    PROVE  TypeInv'
<1> USE DEF TypeInv, TypeOK
<1>1. TimerTypeOK' /\ PropagatorTypeOK' /\ ApplicationTypeOK'
    BY DEF ReceiverNext, TimerTypeOK, PropagatorTypeOK, ApplicationTypeOK,
        propVars, propStores, propFlags, appVars
<1>2. SUFFICES WiresTypeOK' /\ InternalTableTypeOK' /\ ReceiverTypeOK'
                /\ \A m \in Nodes : rPc'[m] = "dedup" => recvBuff'[m] # <<>>
    BY <1>1 DEF AtWork, ReceiverNext, propVars
<1> USE DEF AtWork, recvFlags
<1>3. CASE RecvMyUpdates(n)
  <2> DEFINE m == Head(p2r[n])
  <2>1. p2r[n] \in Seq(P2RMsg) /\ p2r[n] # <<>> /\ m.type = "EMyUpdates"
    BY <1>3 DEF RecvMyUpdates, IsNext, WiresTypeOK
  <2>2. m.table \in Tables /\ m.buff \in Buffer
    BY <2>1, BuffMsgType
  <2>3. p2r' \in [Nodes -> Seq(P2RMsg)]
    BY <1>3, <2>1 DEF RecvMyUpdates, WiresTypeOK
  <2>4. r2p' \in [Nodes -> Seq(R2PMsg)]
    <3>1. r2p' = [r2p EXCEPT ![n] = Append(@, Msg("EMyUpdatesACK"))]
        BY <1>3 DEF RecvMyUpdates
    <3>2. r2p \in [Nodes -> Seq(R2PMsg)]
        BY DEF WiresTypeOK
    <3>3. Append(r2p[n], Msg("EMyUpdatesACK")) \in Seq(R2PMsg)
        BY <3>2, SignalType
    <3> QED BY <3>1, <3>2, <3>3
  <2>5. myUpdates' \in [Nodes -> [Tables -> Seq(Buffer)]]
    <3> DEFINE q == Append(myUpdates[n][m.table], m.buff)
    <3>1. \/ myUpdates' = [myUpdates EXCEPT ![n][m.table] = q]
          \/ myUpdates' = myUpdates
        BY <1>3 DEF RecvMyUpdates, Record
    <3>2. myUpdates \in [Nodes -> [Tables -> Seq(Buffer)]]
        BY DEF ReceiverTypeOK
    <3>3. q \in Seq(Buffer)
        BY <2>2, <3>2
    <3> HIDE DEF m, q
    <3>4. [myUpdates[n] EXCEPT ![m.table] = q] \in [Tables -> Seq(Buffer)]
        BY <3>2, <3>3
    <3> QED BY <3>1, <3>2, <3>4
  <2>6. hasMyUpdates' \in [Nodes -> SUBSET Tables]
    <3>1. \/ hasMyUpdates' = [hasMyUpdates EXCEPT ![n] = @ \cup {m.table}]
          \/ hasMyUpdates' = hasMyUpdates
        BY <1>3 DEF RecvMyUpdates
    <3>2. hasMyUpdates \in [Nodes -> SUBSET Tables]
        BY DEF ReceiverTypeOK
    <3> HIDE DEF m
    <3> QED BY <2>2, <3>1, <3>2
  <2> QED BY <1>3, <2>3, <2>4, <2>5, <2>6
        DEF RecvMyUpdates, WiresTypeOK, InternalTableTypeOK, ReceiverTypeOK
<1>4. ASSUME ReplyPairTerm(n)
      PROVE  /\ fwdPipe' \in [Nodes -> Seq(FwdMsg)]
             /\ haveReplPairTerm' \in [Nodes -> BOOLEAN]
  <2> DEFINE m == Msg("EPRecvInternalTerminateACK")
  <2>1. fwdPipe' = [fwdPipe EXCEPT ![n] = Append(@, m)]
    BY <1>4 DEF ReplyPairTerm
  <2>2. m \in FwdMsg /\ fwdPipe \in [Nodes -> Seq(FwdMsg)]
    BY BuffMsgType DEF WiresTypeOK
  <2> HIDE DEF m
  <2>3. Append(fwdPipe[n], m) \in Seq(FwdMsg)
    BY <2>2
  <2> QED BY <1>4, <2>1, <2>2, <2>3 DEF ReplyPairTerm, ReceiverTypeOK
<1>5. CASE RecvERInternalTerminate(n)
  <2>1. termPipe' \in [Nodes -> Seq(TermMsg)]
    BY <1>5 DEF RecvERInternalTerminate, IsNext, WiresTypeOK
  <2>2. sub' \in [Nodes -> Seq(SubMsg)]
    <3>1. sub \in [Nodes -> Seq(SubMsg)]
        BY DEF WiresTypeOK
    <3>2. \A m \in Nodes : Append(sub[m], Msg("EPRTerminate")) \in Seq(SubMsg)
        BY <3>1, SignalType
    <3> QED BY <1>5, <3>1, <3>2 DEF RecvERInternalTerminate, PublishTerminate
  <2>3. /\ fwdPipe' \in [Nodes -> Seq(FwdMsg)]
        /\ haveReplPairTerm' \in [Nodes -> BOOLEAN]
    <3>1. ReplyPairTerm(n) \/ UNCHANGED <<fwdPipe, haveReplPairTerm>>
        BY <1>5 DEF RecvERInternalTerminate
    <3> QED BY <1>4, <3>1 DEF WiresTypeOK, ReceiverTypeOK
  <2>4. /\ rState' \in [Nodes -> {"RUN", "TERM_SELF", "TERM"}]
        /\ myUpdates' \in [Nodes -> [Tables -> Seq(Buffer)]]
    BY <1>5 DEF RecvERInternalTerminate, ReceiverTypeOK
  <2> QED BY <1>5, <2>1, <2>2, <2>3, <2>4 DEF RecvERInternalTerminate,
        WiresTypeOK, InternalTableTypeOK, ReceiverTypeOK
<1>6. CASE RecvEPRInternalTerminate(n)
  <2>1. p2r' \in [Nodes -> Seq(P2RMsg)]
    BY <1>6 DEF RecvEPRInternalTerminate, IsNext, WiresTypeOK
  <2>2. /\ fwdPipe' \in [Nodes -> Seq(FwdMsg)]
        /\ haveReplPairTerm' \in [Nodes -> BOOLEAN]
    <3>1. ReplyPairTerm(n) \/ UNCHANGED <<fwdPipe, haveReplPairTerm>>
        BY <1>6 DEF RecvEPRInternalTerminate
    <3> QED BY <1>4, <3>1 DEF WiresTypeOK, ReceiverTypeOK
  <2>3. /\ rState' \in [Nodes -> {"RUN", "TERM_SELF", "TERM"}]
        /\ rPc' \in [Nodes -> {"poll", "dedup", "apply", "exit"}]
        /\ haveRecvPairTerm' \in [Nodes -> BOOLEAN]
        /\ \A m \in Nodes : rPc'[m] = "dedup" => recvBuff'[m] # <<>>
    BY <1>6 DEF RecvEPRInternalTerminate, RecvExitIf, ReceiverTypeOK
  <2> QED BY <1>6, <2>1, <2>2, <2>3 DEF RecvEPRInternalTerminate,
        WiresTypeOK, InternalTableTypeOK, ReceiverTypeOK
<1>7. CASE \E m \in Nodes : RecvUpdateBuffer(n, m)
  <2>1. PICK m \in Nodes : RecvUpdateBuffer(n, m)
    BY <1>7
  <2> DEFINE msg == Head(tcp[m])
  <2>2. tcp[m] \in Seq(TcpMsg) /\ tcp[m] # <<>> /\ msg.type = "EPRUpdateBuffer"
    BY <2>1 DEF RecvUpdateBuffer, IsNext, WiresTypeOK
  <2>3. msg \in UpdateBufferMsg /\ msg.table \in Tables /\ msg.buff \in Buffer
    BY <2>2, TcpMsgType
  <2>4. tcp' \in [Nodes -> Seq(TcpMsg)]
    BY <2>1, <2>2 DEF RecvUpdateBuffer, WiresTypeOK
  <2>5. /\ fwdPipe' \in [Nodes -> Seq(FwdMsg)]
        /\ toApply' \in [Nodes -> [Tables -> Store]]
    <3>1. Deliver(n, msg.table, msg.buff) \/ UNCHANGED <<fwdPipe, toApply>>
        BY <2>1 DEF RecvUpdateBuffer
    <3> HIDE DEF msg
    <3> QED BY <2>3, <3>1, TypeDeliver DEF WiresTypeOK, ReceiverTypeOK
  <2>6. /\ fatal' \in [Nodes -> FatalSites]
        /\ rPc' \in [Nodes -> {"poll", "dedup", "apply", "exit"}]
        /\ recvBuff' \in [Nodes -> Seq(UpdateBufferMsg)]
        /\ seqNum' \in [Nodes -> Int]
        /\ \A p \in Nodes : rPc'[p] = "dedup" => recvBuff'[p] # <<>>
    <3>1. CASE UNCHANGED <<fatal, rPc, recvBuff, seqNum>>
        BY <3>1 DEF WiresTypeOK, ReceiverTypeOK
    <3>4. CASE Deliver(n, msg.table, msg.buff) /\ UNCHANGED <<fatal, recvBuff, seqNum>>
        <4> HIDE DEF msg
        <4>1. /\ rPc' \in [Nodes -> {"poll", "dedup", "apply", "exit"}]
              /\ rPc'[n] # "dedup" /\ \A p \in Nodes : p # n => rPc'[p] = rPc[p]
            BY <2>3, <3>4, TypeDeliver
        <4> QED BY <3>4, <4>1 DEF WiresTypeOK, ReceiverTypeOK
    <3>2. CASE /\ HasNodeRange(msg.buff, n)
               /\ \/ fatal' = fatal
                  \/ fatal' = [fatal EXCEPT ![n] = "my_updates"]
               /\ rPc' = [rPc EXCEPT ![n] = "dedup"]
               /\ recvBuff' = [recvBuff EXCEPT ![n] = <<msg>>]
               /\ seqNum' = [seqNum EXCEPT ![n] = GetNodeRange(msg.buff, n).st]
        <4>1. GetNodeRange(msg.buff, n).st \in Int
            BY <2>3, <3>2, GetNodeRangeType DEF UpdateRange
        <4> DEFINE st == GetNodeRange(msg.buff, n).st
        <4> HIDE DEF msg, st
        <4>2. fatal' \in [Nodes -> FatalSites]
            BY <3>2 DEF WiresTypeOK, FatalSites
        <4>3. recvBuff' \in [Nodes -> Seq(UpdateBufferMsg)]
            BY <2>3, <3>2 DEF ReceiverTypeOK
        <4>4. seqNum' = [seqNum EXCEPT ![n] = st] /\ st \in Int
            BY <3>2, <4>1 DEF st
        <4>5. seqNum' \in [Nodes -> Int]
            BY <4>4 DEF ReceiverTypeOK
        <4>6. /\ rPc' \in [Nodes -> {"poll", "dedup", "apply", "exit"}]
              /\ \A p \in Nodes : rPc'[p] = "dedup" => recvBuff'[p] # <<>>
            BY <3>2 DEF ReceiverTypeOK
        <4> QED BY <4>2, <4>3, <4>5, <4>6
    <3>3. \/ UNCHANGED <<fatal, rPc, recvBuff, seqNum>>
          \/ Deliver(n, msg.table, msg.buff) /\ UNCHANGED <<fatal, recvBuff, seqNum>>
          \/ /\ HasNodeRange(msg.buff, n)
             /\ \/ fatal' = fatal
                \/ fatal' = [fatal EXCEPT ![n] = "my_updates"]
             /\ rPc' = [rPc EXCEPT ![n] = "dedup"]
             /\ recvBuff' = [recvBuff EXCEPT ![n] = <<msg>>]
             /\ seqNum' = [seqNum EXCEPT ![n] = GetNodeRange(msg.buff, n).st]
        BY <2>1 DEF RecvUpdateBuffer, WiresTypeOK
    <3> QED BY <3>1, <3>2, <3>3, <3>4
  <2> QED BY <2>1, <2>4, <2>5, <2>6 DEF RecvUpdateBuffer,
        WiresTypeOK, InternalTableTypeOK, ReceiverTypeOK
<1>8. CASE \E m \in Nodes : RecvTerminateACK(n, m)
  <2>1. PICK m \in Nodes : RecvTerminateACK(n, m)
    BY <1>8
  <2>2. tcp[m] \in Seq(TcpMsg) /\ tcp[m] # <<>>
            /\ Head(tcp[m]).type = "EPRTerminateACK"
    BY <2>1 DEF RecvTerminateACK, IsNext, WiresTypeOK
  <2>3. Head(tcp[m]).node \in Nodes
    BY <2>2, TcpMsgType
  <2>4. tcp' \in [Nodes -> Seq(TcpMsg)]
    BY <2>1, <2>2 DEF RecvTerminateACK, WiresTypeOK
  <2>5. /\ peerAcked' \in [Nodes -> SUBSET Nodes]
        /\ rState' \in [Nodes -> {"RUN", "TERM_SELF", "TERM"}]
        /\ rPc' \in [Nodes -> {"poll", "dedup", "apply", "exit"}]
        /\ \A p \in Nodes : rPc'[p] = "dedup" => recvBuff'[p] # <<>>
    BY <2>1, <2>3 DEF RecvTerminateACK, RecvExitIf, ReceiverTypeOK
  <2> QED BY <2>1, <2>4, <2>5 DEF RecvTerminateACK,
        WiresTypeOK, InternalTableTypeOK, ReceiverTypeOK
<1>9. CASE Dedup(n)
  <2> DEFINE msg   == Head(recvBuff[n])
             queue == myUpdates[n][msg.table]
             fault == DedupFault(n, queue, msg.buff)
             mine  == GetNodeRange(Head(queue), n)
             rest  == [msg.buff EXCEPT !.updates =
                        SubUpdates(@, Head(queue).updates)]
  <2>1. recvBuff[n] \in Seq(UpdateBufferMsg) /\ recvBuff[n] # <<>>
    BY <1>9 DEF Dedup, ReceiverTypeOK
  <2>2. msg \in UpdateBufferMsg /\ msg.table \in Tables /\ msg.buff \in Buffer
    BY <2>1, TcpMsgType
  <2>3. queue \in Seq(Buffer)
    BY <2>2 DEF ReceiverTypeOK
  <2>4. fault \in FatalSites
    BY DEF DedupFault, FatalSites
  <2>5. CASE /\ fault # "none"
             /\ fatal' = [fatal EXCEPT ![n] = fault]
             /\ UNCHANGED <<fwdPipe, toApply, rPc, myUpdates, recvBuff, seqNum>>
    <3> HIDE DEF fault
    <3>1. fatal' \in [Nodes -> FatalSites]
        BY <2>4, <2>5 DEF WiresTypeOK
    <3> QED BY <1>9, <2>5, <3>1 DEF Dedup, WiresTypeOK, InternalTableTypeOK,
            ReceiverTypeOK
  <2>6. CASE /\ fault = "none"
             /\ myUpdates' = [myUpdates EXCEPT ![n][msg.table] = Tail(@)]
             /\ \/ /\ seqNum' = [seqNum EXCEPT ![n] = NextSeqNum(mine)]
                   /\ recvBuff' = [recvBuff EXCEPT ![n] =
                         <<[msg EXCEPT !.buff = rest]>>]
                   /\ UNCHANGED <<fwdPipe, toApply, rPc>>
                \/ /\ seqNum' = [seqNum EXCEPT ![n] = 0]
                   /\ recvBuff' = [recvBuff EXCEPT ![n] = <<>>]
                   /\ Deliver(n, msg.table, DeleteNodeRange(rest, n))
             /\ UNCHANGED fatal
    <3>1. queue # <<>> /\ HasNodeRange(Head(queue), n)
        BY <2>6 DEF DedupFault
    <3>2. Head(queue) \in Buffer /\ Tail(queue) \in Seq(Buffer)
        BY <2>3, <3>1
    <3>3. mine \in UpdateRange
        BY <3>1, <3>2, GetNodeRangeType
    <3>4. rest \in Buffer
        <4>1. SubUpdates(msg.buff.updates, Head(queue).updates) \in Store
            BY <2>2, <3>2, BufferSlots, SubUpdatesType
        <4>2. \A b \in Buffer, u \in Store : [b EXCEPT !.updates = u] \in Buffer
            BY DEF Buffer
        <4> QED BY <2>2, <4>1, <4>2
    <3>5. DeleteNodeRange(rest, n) \in Buffer
        BY <3>4, DeleteNodeRangeType
    <3>6. [msg EXCEPT !.buff = rest] \in UpdateBufferMsg
        <4>1. \A m \in UpdateBufferMsg, b \in Buffer :
                [m EXCEPT !.buff = b] \in UpdateBufferMsg
            BY DEF UpdateBufferMsg
        <4> QED BY <2>2, <3>4, <4>1
    <3>7. NextSeqNum(mine) \in Int
        BY <3>3 DEF NextSeqNum, UpdateRange
    <3>8. myUpdates' \in [Nodes -> [Tables -> Seq(Buffer)]]
        <4>1. myUpdates' = [myUpdates EXCEPT ![n][msg.table] = Tail(queue)]
            BY <2>2, <2>6 DEF ReceiverTypeOK
        <4> HIDE DEF msg, queue
        <4> QED BY <2>2, <3>2, <4>1 DEF ReceiverTypeOK
    <3>9. /\ fwdPipe' \in [Nodes -> Seq(FwdMsg)]
          /\ toApply' \in [Nodes -> [Tables -> Store]]
          /\ rPc' \in [Nodes -> {"poll", "dedup", "apply", "exit"}]
          /\ \/ rPc' = rPc /\ recvBuff' = [recvBuff EXCEPT ![n] =
                                 <<[msg EXCEPT !.buff = rest]>>]
             \/ /\ recvBuff' = [recvBuff EXCEPT ![n] = <<>>]
                /\ rPc'[n] # "dedup" /\ \A p \in Nodes : p # n => rPc'[p] = rPc[p]
        <4>1. \/ /\ UNCHANGED <<fwdPipe, toApply, rPc>>
                 /\ recvBuff' = [recvBuff EXCEPT ![n] = <<[msg EXCEPT !.buff = rest]>>]
              \/ /\ Deliver(n, msg.table, DeleteNodeRange(rest, n))
                 /\ recvBuff' = [recvBuff EXCEPT ![n] = <<>>]
            BY <2>6
        <4> HIDE DEF msg, rest
        <4> QED BY <2>2, <3>5, <4>1, TypeDeliver
                DEF WiresTypeOK, ReceiverTypeOK
    <3> HIDE DEF msg, queue, mine, rest
    <3>10. seqNum' \in [Nodes -> Int]
        <4> DEFINE next == NextSeqNum(mine)
        <4>1. \/ seqNum' = [seqNum EXCEPT ![n] = next]
              \/ seqNum' = [seqNum EXCEPT ![n] = 0]
            BY <2>6
        <4> HIDE DEF next
        <4>2. next \in Int
            BY <3>7 DEF next
        <4>3. seqNum \in [Nodes -> Int]
            BY DEF ReceiverTypeOK
        <4> QED BY <4>1, <4>2, <4>3
    <3>11. /\ recvBuff' \in [Nodes -> Seq(UpdateBufferMsg)]
           /\ \A p \in Nodes : rPc'[p] = "dedup" => recvBuff'[p] # <<>>
        <4>1. CASE /\ recvBuff' = [recvBuff EXCEPT ![n] =
                         <<[msg EXCEPT !.buff = rest]>>]
                   /\ rPc' = rPc
            BY <3>6, <4>1 DEF ReceiverTypeOK
        <4>2. CASE /\ recvBuff' = [recvBuff EXCEPT ![n] = <<>>]
                   /\ rPc'[n] # "dedup" /\ \A p \in Nodes : p # n => rPc'[p] = rPc[p]
            BY <4>2 DEF ReceiverTypeOK
        <4> QED BY <3>9, <4>1, <4>2
    <3> QED BY <1>9, <2>6, <3>8, <3>9, <3>10, <3>11
            DEF Dedup, WiresTypeOK, InternalTableTypeOK, ReceiverTypeOK
  <2> QED BY <1>9, <2>5, <2>6 DEF Dedup
<1>10. CASE ApplyUpdate(n)
  <2>1. PICK t \in Tables : \E k \in toApply[n][t].keys :
            LET left == Without(toApply[n][t], k)
            IN  /\ IncRaw(n, t, k, toApply[n][t].val[k])
                /\ toApply' = [toApply EXCEPT ![n][t] = left]
                /\ rPc' = [rPc EXCEPT ![n] = AfterApply(left)]
    BY <1>10 DEF ApplyUpdate
  <2>2. PICK k \in toApply[n][t].keys :
            /\ IncRaw(n, t, k, toApply[n][t].val[k])
            /\ toApply' = [toApply EXCEPT ![n][t] = Without(toApply[n][t], k)]
            /\ rPc' = [rPc EXCEPT ![n] = AfterApply(Without(toApply[n][t], k))]
    BY <2>1
  <2> DEFINE left == Without(toApply[n][t], k)
             loc  == AfterApply(left)
  <2>3. toApply[n][t] \in Store /\ storage[n][t] \in Store
    BY DEF ReceiverTypeOK, InternalTableTypeOK
  <2>4. k \in AllKeys /\ toApply[n][t].val[k] \in Value
    BY <2>3 DEF Store
  <2>5. left \in Store
    BY <2>3, <2>4, WithoutType
  <2>6. loc \in {"poll", "apply"}
    BY DEF AfterApply
  <2>7. storage' \in [Nodes -> [Tables -> Store]]
    <3>1. AddUpdate(storage[n][t], k, toApply[n][t].val[k]) \in Store
        BY <2>3, <2>4, AddUpdateType
    <3> DEFINE sum == AddUpdate(storage[n][t], k, toApply[n][t].val[k])
    <3>2. storage' = [storage EXCEPT ![n][t] = sum]
        BY <2>2 DEF IncRaw
    <3> HIDE DEF sum
    <3> QED BY <3>1, <3>2 DEF sum, InternalTableTypeOK
  <2> HIDE DEF left, loc
  <2>8. toApply' \in [Nodes -> [Tables -> Store]]
    BY <2>2, <2>5 DEF left, ReceiverTypeOK
  <2>9. rPc' \in [Nodes -> {"poll", "dedup", "apply", "exit"}]
        /\ \A p \in Nodes : rPc'[p] = "dedup" => recvBuff[p] # <<>>
    BY <2>2, <2>6 DEF loc, left, ReceiverTypeOK
  <2> QED BY <1>10, <2>7, <2>8, <2>9 DEF ApplyUpdate, wireVars, WiresTypeOK,
        InternalTableTypeOK, ReceiverTypeOK
<1> QED BY <1>3, <1>5, <1>6, <1>7, <1>8, <1>9, <1>10 DEF ReceiverNext, ReceiverStep

(* Every call of the application keeps the types.                          *)
LEMMA TypeApplication ==
    ASSUME TypeInv, NEW n \in Nodes, ApplicationNext(n)
    PROVE  TypeInv'
<1> USE DEF TypeInv, TypeOK
<1>1. /\ TimerTypeOK' /\ PropagatorTypeOK' /\ ReceiverTypeOK' /\ AtWork'
      /\ fatal' \in [Nodes -> FatalSites]
    BY DEF ApplicationNext, TimerTypeOK, PropagatorTypeOK, ReceiverTypeOK,
        WiresTypeOK, AtWork, propVars, propStores, propFlags, recvVars, recvFlags
<1>2. SUFFICES WiresTypeOK' /\ InternalTableTypeOK' /\ ApplicationTypeOK'
    BY <1>1
<1>3. ASSUME NEW t \in Threads, NEW from,
             NEW to \in {"new", "idle", "inc", "sigRecv",
                         "waitProp", "waitRecv", "down", "gone"},
             Goto(n, t, from, to)
      PROVE  thr' \in [Nodes -> [Threads -> {"new", "idle", "inc", "sigRecv",
                                "waitProp", "waitRecv", "down", "gone"}]]
    BY <1>3 DEF Goto, ApplicationTypeOK
<1> USE DEF wireVars
<1>4. CASE \E t \in Threads : RegisterThr(n, t) \/ DeregisterThr(n, t)
    BY <1>1, <1>3, <1>4 DEF RegisterThr, DeregisterThr, WiresTypeOK,
        InternalTableTypeOK, ApplicationTypeOK
<1>5. CASE \E t \in Threads : PropagatorInc(n, t)
  <2>1. PICK t \in Threads : PropagatorInc(n, t)
    BY <1>5
  <2>2. /\ thr' \in [Nodes -> [Threads -> {"new", "idle", "inc", "sigRecv",
                                "waitProp", "waitRecv", "down", "gone"}]]
        /\ pend' \in [Nodes -> [Threads -> Seq(LogMsg)]]
    BY <1>3, <2>1 DEF PropagatorInc, ApplicationTypeOK
  <2>3. logPipe' \in [Nodes -> [Threads -> Seq(LogMsg)]]
    <3> DEFINE q == logPipe[n][t] \o pend[n][t]
    <3>1. \/ logPipe' = [logPipe EXCEPT ![n][t] = q]
          \/ logPipe' = logPipe
        BY <2>1 DEF PropagatorInc, Enqueue
    <3>2. logPipe \in [Nodes -> [Threads -> Seq(LogMsg)]]
        BY DEF WiresTypeOK
    <3>3. q \in Seq(LogMsg)
        BY <3>2 DEF ApplicationTypeOK
    <3> HIDE DEF q
    <3>4. [logPipe[n] EXCEPT ![t] = q] \in [Threads -> Seq(LogMsg)]
        BY <3>2, <3>3
    <3> QED BY <3>1, <3>2, <3>4
  <2> QED BY <1>1, <2>1, <2>2, <2>3 DEF PropagatorInc, WiresTypeOK,
        InternalTableTypeOK, ApplicationTypeOK
<1>6. CASE \E t \in Threads, table \in Tables, key \in Keys : Inc(n, t, table, key)
  <2>1. PICK t \in Threads, table \in Tables, key \in Keys : Inc(n, t, table, key)
    BY <1>6
  <2>2. thr' \in [Nodes -> [Threads -> {"new", "idle", "inc", "sigRecv",
                                "waitProp", "waitRecv", "down", "gone"}]]
    BY <1>3, <2>1 DEF Inc
  <2>3. key \in AllKeys /\ NarrowKey(key) \in AllKeys
    BY DEF AllKeys
  <2>4. Delta(<<n, incs[n]>>) \in Value
    BY DEF Delta, Value
  <2> DEFINE m == [type |-> "EPUpdateLog", table |-> table,
                   key |-> NarrowKey(key), delta |-> Delta(<<n, incs[n]>>)]
  <2>5. m \in LogMsg
    BY <2>3, <2>4, LogMsgType
  <2>6. pend' \in [Nodes -> [Threads -> Seq(LogMsg)]]
    <3>1. pend' = [pend EXCEPT ![n][t] = <<m>>]
        BY <2>1 DEF Inc
    <3> HIDE DEF m
    <3> QED BY <2>5, <3>1 DEF ApplicationTypeOK
  <2>7. storage' \in [Nodes -> [Tables -> Store]]
    <3>1. storage' = [storage EXCEPT ![n][table] =
                        AddUpdate(@, key, Delta(<<n, incs[n]>>))]
        BY <2>1 DEF Inc, IncRaw
    <3>2. storage \in [Nodes -> [Tables -> Store]]
        BY DEF InternalTableTypeOK
    <3>3. AddUpdate(storage[n][table], key, Delta(<<n, incs[n]>>)) \in Store
        BY <2>3, <2>4, <3>2, AddUpdateType
    <3> QED BY <3>1, <3>2, <3>3
  <2>8. incs' \in [Nodes -> 0 .. MaxInc]
    BY <2>1, ApplicationAssumption DEF Inc, ApplicationTypeOK
  <2> QED BY <1>1, <2>1, <2>2, <2>6, <2>7, <2>8 DEF Inc, WiresTypeOK,
        InternalTableTypeOK, ApplicationTypeOK
<1>7. CASE SignalTermPropagator(n)
  <2>1. logPipe' \in [Nodes -> [Threads -> Seq(LogMsg)]]
    <3> DEFINE m == Msg("EPInternalTerminate")
    <3>1. logPipe' = [logPipe EXCEPT ![n][Main] = Append(@, m)]
        BY <1>7 DEF SignalTermPropagator
    <3>2. logPipe \in [Nodes -> [Threads -> Seq(LogMsg)]] /\ Main \in Threads
        BY ApplicationAssumption DEF WiresTypeOK
    <3>3. Append(logPipe[n][Main], m) \in Seq(LogMsg)
        BY <3>2, LogMsgType
    <3> HIDE DEF m
    <3> QED BY <3>1, <3>2, <3>3
  <2> QED BY <1>1, <1>3, <1>7, <2>1, ApplicationAssumption DEF
        SignalTermPropagator, WiresTypeOK, InternalTableTypeOK, ApplicationTypeOK
<1>8. CASE SignalTermReceiver(n)
  <2>1. termPipe' \in [Nodes -> Seq(TermMsg)]
    <3> DEFINE m == Msg("ERInternalTerminate")
    <3>1. termPipe' = [termPipe EXCEPT ![n] = Append(@, m)]
        BY <1>8 DEF SignalTermReceiver
    <3>2. termPipe \in [Nodes -> Seq(TermMsg)]
        BY DEF WiresTypeOK
    <3>3. Append(termPipe[n], m) \in Seq(TermMsg)
        BY <3>2, SignalType
    <3> HIDE DEF m
    <3> QED BY <3>1, <3>2, <3>3
  <2> QED BY <1>1, <1>3, <1>8, <2>1, ApplicationAssumption DEF
        SignalTermReceiver, WiresTypeOK, InternalTableTypeOK, ApplicationTypeOK
<1>9. CASE WaitTermPropagator(n) \/ WaitTermReceiver(n)
    BY <1>1, <1>3, <1>9, ApplicationAssumption DEF WaitTermPropagator,
        WaitTermReceiver, WiresTypeOK, InternalTableTypeOK, ApplicationTypeOK
<1> QED BY <1>4, <1>5, <1>6, <1>7, <1>8, <1>9
        DEF ApplicationNext, ApplicationStep, ShutDownStep

(* Every step keeps the types.                                             *)
LEMMA TypeStep == TypeInv /\ [Next]_vars => TypeInv'
<1>1. ASSUME TypeInv, UNCHANGED vars PROVE TypeInv'
    BY <1>1 DEF TypeInv, TypeOK, AtWork, WiresTypeOK, TimerTypeOK,
        PropagatorTypeOK, InternalTableTypeOK, ReceiverTypeOK,
        ApplicationTypeOK, vars, wireVars, propVars, propStores, propFlags,
        recvVars, recvFlags, appVars
<1> QED BY <1>1, TypeTimer, TypePropagator, TypeReceiver, TypeApplication
        DEF Next, Stop

(* Every queue holds messages of its protocol and every thread local is of *)
(* its type, in every execution on every graph.                            *)
THEOREM TypeCorrect == Spec => []TypeOK
<1>1. Spec => []TypeInv
    BY TypeInit, TypeStep, PTL DEF Spec
<1>2. TypeInv => TypeOK
    BY DEF TypeInv
<1> QED BY <1>1, <1>2, PTL

-----------------------------------------------------------------------------
(***************************************************************************)
(* Shutdown.  Each party announces on each of its pipes, with one last      *)
(* message, that it will send no more: EPInternalTerminate from the         *)
(* application, EPRInternalTerminate from the propagator to its receiver,   *)
(* EPRecvInternalTerminateACK back, EPRTerminateACK to the downstream node. *)
(* The invariant says for each pipe that the announcement is the last       *)
(* message, and that once it is received the pipe stays empty.              *)
(***************************************************************************)
NoneIn(q, type) == \A i \in 1 .. Len(q) : q[i].type # type

LastOnly(q, type) == \A i \in 1 .. Len(q) : q[i].type = type => i = Len(q)

(* The propagator is done with its updates when it leaves RUN, and only    *)
(* then stops the timer.                                                   *)
PropagatorPhase(n) ==
    /\ pPc[n] \in {"flush", "ack", "send"} => pState[n] = "RUN"
    /\ pPc[n] = "join" \/ haveStoppedTimer[n] => pState[n] # "RUN"
    /\ pState[n] # "RUN" => \A t \in Tables : updateStore[n][t].keys = {}
    /\ haveStoppedTimer[n] => timer[n] = "exited"
    /\ pPc[n] = "exit" => /\ haveStoppedTimer[n] /\ haveStoppedRecv[n]
                          /\ haveRepliedDsTerm[n]

(* application -> propagator.                                              *)
LogPhase(n) ==
    /\ \A t \in Threads : NoneIn(pend[n][t], "EPInternalTerminate")
    /\ \A t \in Threads \ {Main} : NoneIn(logPipe[n][t], "EPInternalTerminate")
    /\ LastOnly(logPipe[n][Main], "EPInternalTerminate")
    /\ thr[n][Main] \in {"new", "idle", "inc"} =>
            NoneIn(logPipe[n][Main], "EPInternalTerminate")
    /\ pState[n] # "RUN" => logPipe[n][Main] = <<>>

(* application -> receiver.                                                *)
TermPhase(n) ==
    termPipe[n] # <<>> =>
        /\ Len(termPipe[n]) = 1 /\ rState[n] = "RUN"
        /\ thr[n][Main] \in {"waitProp", "waitRecv", "down", "gone"}

(* propagator -> paired receiver: the termination.                         *)
PairPhase(n) ==
    /\ LastOnly(p2r[n], "EPRInternalTerminate")
    /\ pState[n] = "RUN" =>
            /\ NoneIn(p2r[n], "EPRInternalTerminate")
            /\ ~haveRecvPairTerm[n] /\ ~haveReplPairTerm[n]
    /\ haveRecvPairTerm[n] \/ haveReplPairTerm[n] => p2r[n] = <<>>
    /\ haveReplPairTerm[n] => rState[n] # "RUN"

(* propagator -> paired receiver: the node's own updates; one is           *)
(* outstanding, as a request or as its answer, exactly while the           *)
(* propagator waits.                                                       *)
AckPhase(n) ==
    \/ /\ pPc[n] # "ack" /\ r2p[n] = <<>> /\ NoneIn(p2r[n], "EMyUpdates")
    \/ /\ pPc[n] = "ack" /\ r2p[n] = <<>> /\ LastOnly(p2r[n], "EMyUpdates")
    \/ /\ pPc[n] = "ack" /\ Len(r2p[n]) = 1 /\ NoneIn(p2r[n], "EMyUpdates")

(* receiver -> paired propagator.                                          *)
BackPhase(n) ==
    /\ LastOnly(fwdPipe[n], "EPRecvInternalTerminateACK")
    /\ ~haveReplPairTerm[n] =>
            /\ NoneIn(fwdPipe[n], "EPRecvInternalTerminateACK")
            /\ ~haveStoppedRecv[n]
    /\ haveStoppedRecv[n] => fwdPipe[n] = <<>>
    /\ rPc[n] = "dedup" => rState[n] = "RUN"

(* downstream receiver -> propagator.                                      *)
SubPhase(n) ==
    /\ sub[n] # <<>> => /\ HasDownstream(n)
                        /\ Len(sub[n]) = 1 /\ ~haveReceivedDsTerm[n]
    /\ HasDownstream(n) /\ (sub[n] # <<>> \/ haveReceivedDsTerm[n]) =>
            rState[Downstream[n]] # "RUN"

(* propagator -> downstream receiver.                                      *)
DownPhase(n) ==
    HasDownstream(n) =>
        /\ LastOnly(tcp[n], "EPRTerminateACK")
        /\ \A i \in 1 .. Len(tcp[n]) :
                tcp[n][i].type = "EPRTerminateACK" => tcp[n][i].node = n
        /\ haveRepliedDsTerm[n] => pState[n] # "RUN" /\ haveReceivedDsTerm[n]
        /\ ~haveRepliedDsTerm[n] =>
                /\ NoneIn(tcp[n], "EPRTerminateACK")
                /\ n \notin peerAcked[Downstream[n]]
        /\ n \in peerAcked[Downstream[n]] => tcp[n] = <<>>

(* The receiver has returned.                                              *)
ExitPhase(n) ==
    rPc[n] = "exit" => haveReplPairTerm[n] /\ Upstream(n) \subseteq peerAcked[n]

Phases(n) ==
    /\ PropagatorPhase(n) /\ LogPhase(n) /\ TermPhase(n)
    /\ PairPhase(n) /\ AckPhase(n) /\ BackPhase(n)
    /\ SubPhase(n) /\ DownPhase(n) /\ ExitPhase(n)

ShutdownInv == TypeInv /\ \A n \in Nodes : Phases(n)

-----------------------------------------------------------------------------
(* Pipes.                                                                  *)

(* Receiving from a pipe: the announcement stays last, and nothing is      *)
(* behind it.                                                              *)
LEMMA PipeTail ==
    ASSUME NEW S, NEW q \in Seq(S), q # <<>>, NEW type
    PROVE  /\ NoneIn(q, type) => NoneIn(Tail(q), type) /\ Head(q).type # type
           /\ LastOnly(q, type) => LastOnly(Tail(q), type)
           /\ LastOnly(q, type) /\ Head(q).type = type => Tail(q) = <<>>
           /\ Len(q) = 1 => Tail(q) = <<>>
<1> DEFINE r == Tail(q)
<1>1. /\ Len(q) \in Nat /\ Len(q) > 0 /\ Head(q) = q[1]
      /\ r \in Seq(S) /\ Len(r) = Len(q) - 1
      /\ \A i \in 1 .. Len(r) : r[i] = q[i + 1]
    OBVIOUS
<1> HIDE DEF r
<1>2. Len(r) = 0 => r = <<>>
    BY <1>1, EmptySeq
<1>3. NoneIn(q, type) => NoneIn(r, type) /\ Head(q).type # type
    BY <1>1 DEF NoneIn
<1>4. LastOnly(q, type) => LastOnly(r, type)
  <2> SUFFICES ASSUME LastOnly(q, type), NEW i \in 1 .. Len(r), r[i].type = type
               PROVE  i = Len(r)
    BY DEF LastOnly
  <2>1. i + 1 \in 1 .. Len(q) /\ q[i + 1].type = type
    BY <1>1
  <2> QED BY <1>1, <2>1 DEF LastOnly
<1>5. LastOnly(q, type) /\ Head(q).type = type => Len(q) = 1
    BY <1>1 DEF LastOnly
<1> QED BY <1>1, <1>2, <1>3, <1>4, <1>5 DEF r

(* Sending on a pipe: what is sent on a pipe without an announcement is    *)
(* last.                                                                   *)
LEMMA PipeAppend ==
    ASSUME NEW S, NEW q \in Seq(S), NEW m, NEW type
    PROVE  /\ NoneIn(q, type) => LastOnly(Append(q, m), type)
           /\ NoneIn(q, type) /\ m.type # type => NoneIn(Append(q, m), type)
           /\ q = <<>> => Len(Append(q, m)) = 1
           /\ Append(q, m) # <<>>
<1> DEFINE T == S \cup {m}
<1>1. q \in Seq(T) /\ m \in T
    OBVIOUS
<1> HIDE DEF T
<1>2. /\ Len(q) \in Nat
      /\ Append(q, m) \in Seq(T) /\ Len(Append(q, m)) = Len(q) + 1
      /\ \A i \in 1 .. Len(q) : Append(q, m)[i] = q[i]
      /\ Append(q, m)[Len(q) + 1] = m
    BY <1>1
<1> QED BY <1>2 DEF NoneIn, LastOnly

(* Sending several messages, none of them an announcement.                 *)
LEMMA PipeConcat ==
    ASSUME NEW S, NEW q \in Seq(S), NEW r \in Seq(S), NEW type,
           NoneIn(q, type), NoneIn(r, type)
    PROVE  NoneIn(q \o r, type)
<1>1. /\ Len(q) \in Nat /\ Len(r) \in Nat
      /\ q \o r \in Seq(S) /\ Len(q \o r) = Len(q) + Len(r)
      /\ \A i \in 1 .. Len(q) + Len(r) :
            (q \o r)[i] = IF i <= Len(q) THEN q[i] ELSE r[i - Len(q)]
    OBVIOUS
<1> QED BY <1>1 DEF NoneIn

(* An empty pipe.                                                          *)
LEMMA PipeEmpty ==
    ASSUME NEW q, NEW type, q = <<>>
    PROVE  NoneIn(q, type) /\ LastOnly(q, type)
BY DEF NoneIn, LastOnly

(* A pipe without an announcement.                                         *)
LEMMA NoneIsLast ==
    ASSUME NEW q, NEW type, NoneIn(q, type)
    PROVE  LastOnly(q, type)
BY DEF NoneIn, LastOnly

-----------------------------------------------------------------------------
(* The types of the control state, by node.                                *)
ControlTypes ==
    /\ pState \in [Nodes -> {"RUN", "TERM_PREP", "TERM"}]
    /\ pPc \in [Nodes -> {"poll", "flush", "ack", "send", "join", "exit"}]
    /\ haveReceivedDsTerm \in [Nodes -> BOOLEAN]
    /\ haveRepliedDsTerm \in [Nodes -> BOOLEAN]
    /\ haveStoppedTimer \in [Nodes -> BOOLEAN]
    /\ haveStoppedRecv \in [Nodes -> BOOLEAN]
    /\ rState \in [Nodes -> {"RUN", "TERM_SELF", "TERM"}]
    /\ rPc \in [Nodes -> {"poll", "dedup", "apply", "exit"}]
    /\ haveRecvPairTerm \in [Nodes -> BOOLEAN]
    /\ haveReplPairTerm \in [Nodes -> BOOLEAN]
    /\ peerAcked \in [Nodes -> SUBSET Nodes]
    /\ timer \in [Nodes -> {"none", "sleeping", "triggered",
                            "cmd_run", "cmd_stop", "exited"}]

PipeTypes ==
    /\ logPipe \in [Nodes -> [Threads -> Seq(LogMsg)]]
    /\ pend \in [Nodes -> [Threads -> Seq(LogMsg)]]
    /\ fwdPipe \in [Nodes -> Seq(FwdMsg)]
    /\ p2r \in [Nodes -> Seq(P2RMsg)]
    /\ r2p \in [Nodes -> Seq(R2PMsg)]
    /\ termPipe \in [Nodes -> Seq(TermMsg)]
    /\ tcp \in [Nodes -> Seq(TcpMsg)]
    /\ sub \in [Nodes -> Seq(SubMsg)]

(* The types that the steps below use.                                     *)
LEMMA Types == TypeInv => ControlTypes /\ PipeTypes
BY DEF TypeInv, TypeOK, WiresTypeOK, TimerTypeOK, PropagatorTypeOK,
    ReceiverTypeOK, ApplicationTypeOK, ControlTypes, PipeTypes

(* Upstream(m) are the nodes whose downstream node is m.                   *)
LEMMA DownstreamType ==
    ASSUME NEW n \in Nodes
    PROVE  /\ HasDownstream(n) => Downstream[n] \in Nodes
           /\ \A m \in Nodes :
                n \in Upstream(m) <=> HasDownstream(n) /\ Downstream[n] = m
BY GraphAssumption, NodesAssumption DEF HasDownstream, Upstream, NoNode

-----------------------------------------------------------------------------
(* The invariant holds when the handshakes are over.                       *)
LEMMA ShutdownInit == Init => ShutdownInv
<1> SUFFICES ASSUME Init, NEW n \in Nodes PROVE Phases(n)
    BY TypeInit DEF ShutdownInv
<1>1. /\ logPipe[n] = [t \in Threads |-> <<>>] /\ pend[n] = [t \in Threads |-> <<>>]
      /\ fwdPipe[n] = <<>> /\ p2r[n] = <<>> /\ r2p[n] = <<>>
      /\ termPipe[n] = <<>> /\ tcp[n] = <<>> /\ sub[n] = <<>>
    BY DEF Init, WiresInit, ApplicationInit
<1>2. /\ pState[n] = "RUN" /\ pPc[n] = "poll" /\ ~haveStoppedTimer[n]
      /\ ~haveReceivedDsTerm[n] /\ (HasDownstream(n) => ~haveRepliedDsTerm[n])
      /\ ~haveStoppedRecv[n]
    BY DEF Init, PropagatorInit
<1>3. /\ rState[n] = "RUN" /\ rPc[n] = "poll"
      /\ ~haveRecvPairTerm[n] /\ ~haveReplPairTerm[n]
      /\ \A m \in Nodes : peerAcked[m] = {}
    BY DEF Init, ReceiverInit
<1>4. Main \in Threads
    BY ApplicationAssumption
<1>5. HasDownstream(n) => peerAcked[Downstream[n]] = {}
    BY <1>3, DownstreamType
<1> QED BY <1>1, <1>2, <1>3, <1>4, <1>5, PipeEmpty DEF Phases, PropagatorPhase,
        LogPhase, TermPhase, PairPhase, AckPhase, BackPhase, SubPhase,
        DownPhase, ExitPhase

(* The timer thread keeps the invariant: it stays exited.                  *)
LEMMA ShutdownTimer ==
    ASSUME ShutdownInv, NEW k \in Nodes, TimerNext(k), NEW n \in Nodes
    PROVE  Phases(n)'
<1>1. UNCHANGED <<wireVars, propVars, recvVars, appVars>>
    BY DEF TimerNext, TimerStep
<1>2. timer[n] = "exited" => timer'[n] = "exited"
    BY Types DEF ShutdownInv, ControlTypes, TimerNext, TimerStep, Trigger, Command
<1>3. Phases(n)
    BY DEF ShutdownInv
<1> USE <1>1, <1>3 DEF Phases, wireVars, propVars, propStores, propFlags,
        recvVars, recvFlags, appVars
<1>4. PropagatorPhase(n)'
    BY <1>2 DEF PropagatorPhase
<1>5. LogPhase(n)' /\ TermPhase(n)'
    BY DEF LogPhase, TermPhase
<1>6. PairPhase(n)' /\ AckPhase(n)' /\ BackPhase(n)'
    BY DEF PairPhase, AckPhase, BackPhase
<1>7. SubPhase(n)' /\ DownPhase(n)' /\ ExitPhase(n)'
    BY DEF SubPhase, DownPhase, ExitPhase
<1> QED BY <1>4, <1>5, <1>6, <1>7

(* The actions of the propagator.                                          *)
LEMMA ShutdownPropagator ==
    ASSUME ShutdownInv, NEW k \in Nodes, PropagatorNext(k), NEW n \in Nodes
    PROVE  Phases(n)'
<1>1. ControlTypes /\ PipeTypes /\ Phases(n) /\ Phases(k) /\ TypeInv
    BY Types DEF ShutdownInv
<1>2. UNCHANGED <<rState, rPc, peerAcked, haveRecvPairTerm, haveReplPairTerm,
                  thr, pend>>
    BY DEF PropagatorNext, recvVars, recvFlags, appVars
<1>3. CASE TimerTick(k)
  <2> DEFINE todo == {t \in Tables : updateStore[k][t].keys # {}}
  <2>1. /\ pPc[k] = "poll" /\ timer[k] = "triggered"
        /\ pPc' = [pPc EXCEPT ![k] = IF todo = {} THEN AfterFlush(k) ELSE "flush"]
        /\ timer' = [timer EXCEPT ![k] = TimerCmd(k)]
        /\ UNCHANGED <<logPipe, fwdPipe, p2r, r2p, termPipe, tcp, sub, pState,
                       updateStore, haveReceivedDsTerm, haveRepliedDsTerm,
                       haveStoppedTimer, haveStoppedRecv>>
    BY <1>3 DEF TimerTick, Polling, wireVars, propStores, propFlags
  <2>2. ~haveStoppedTimer[k] /\ (todo # {} => pState[k] = "RUN")
    BY <1>1, <2>1 DEF Phases, PropagatorPhase
  <2> HIDE DEF todo
  <2>3. PropagatorPhase(n)'
    BY <1>1, <2>1, <2>2 DEF Phases, PropagatorPhase, AfterFlush, ControlTypes
  <2>4. AckPhase(n)'
    BY <1>1, <2>1 DEF Phases, AckPhase, AfterFlush, ControlTypes
  <2>5. LogPhase(n)' /\ TermPhase(n)'
    BY <1>1, <1>2, <2>1 DEF Phases, LogPhase, TermPhase
  <2>6. PairPhase(n)' /\ BackPhase(n)'
    BY <1>1, <1>2, <2>1 DEF Phases, PairPhase, BackPhase
  <2>7. SubPhase(n)' /\ DownPhase(n)' /\ ExitPhase(n)'
    BY <1>1, <1>2, <2>1 DEF Phases, SubPhase, DownPhase, ExitPhase
  <2> QED BY <2>3, <2>4, <2>5, <2>6, <2>7 DEF Phases
<1>4. CASE \E t \in Tables : FlushTable(k, t)
  <2>1. PICK t \in Tables : FlushTable(k, t)
    BY <1>4
  <2>2. /\ pPc[k] = "flush" /\ pState[k] = "RUN"
        /\ UNCHANGED <<logPipe, fwdPipe, r2p, termPipe, tcp, sub, timer, pState,
                       haveReceivedDsTerm, haveRepliedDsTerm,
                       haveStoppedTimer, haveStoppedRecv>>
    BY <1>1, <2>1 DEF FlushTable, propFlags, Phases, PropagatorPhase
  <2>3. PICK own \in P2RMsg :
            /\ own.type = "EMyUpdates"
            /\ \/ /\ p2r' = [p2r EXCEPT ![k] = Append(@, own)]
                  /\ pPc' = [pPc EXCEPT ![k] = "ack"]
               \/ p2r' = p2r /\ pPc' = [pPc EXCEPT ![k] = "send"]
    <3> DEFINE own == BuffMsg("EMyUpdates", t,
                        [ranges |-> <<NodeSlot(k, myUpdateRange[k][t])>>,
                         updates |-> myUpdateStore[k][t]])
    <3>1. <<NodeSlot(k, myUpdateRange[k][t])>> \in Seq(Slot)
        BY <1>1 DEF NodeSlot, UpdateRange, Slot, TypeInv, TypeOK, PropagatorTypeOK
    <3>2. [ranges |-> <<NodeSlot(k, myUpdateRange[k][t])>>,
           updates |-> myUpdateStore[k][t]] \in Buffer
        BY <1>1, <3>1 DEF Buffer, TypeInv, TypeOK, PropagatorTypeOK
    <3>3. own \in P2RMsg /\ own.type = "EMyUpdates"
        BY <3>2, BuffMsgType DEF BuffMsg
    <3>4. \/ /\ p2r' = [p2r EXCEPT ![k] = Append(@, own)]
             /\ pPc' = [pPc EXCEPT ![k] = "ack"]
          \/ p2r' = p2r /\ pPc' = [pPc EXCEPT ![k] = "send"]
        BY <2>1 DEF FlushTable
    <3> HIDE DEF own
    <3> QED BY <3>3, <3>4
  <2>4. \/ p2r'[n] = p2r[n]
        \/ n = k /\ p2r'[n] = Append(p2r[n], own)
    BY <1>1, <2>3 DEF PipeTypes
  <2>5. PropagatorPhase(n)'
    <3>1. updateStore' = [updateStore EXCEPT ![k][t] = EmptyStore]
        BY <2>1 DEF FlushTable
    <3>2. n # k => updateStore'[n] = updateStore[n]
        BY <1>1, <3>1 DEF TypeInv, TypeOK, PropagatorTypeOK
    <3> QED BY <1>1, <2>2, <2>3, <3>2 DEF Phases, PropagatorPhase, ControlTypes
  <2>6. AckPhase(n)'
    <3>1. CASE n # k
        BY <1>1, <2>2, <2>3, <3>1, SMTT(20) DEF Phases, AckPhase, ControlTypes, PipeTypes
    <3>2. CASE n = k
        <4>1. r2p[k] = <<>> /\ NoneIn(p2r[k], "EMyUpdates") /\ p2r[k] \in Seq(P2RMsg)
            BY <1>1, <2>2 DEF Phases, AckPhase, PipeTypes
        <4>2. LastOnly(Append(p2r[k], own), "EMyUpdates")
            BY <4>1, PipeAppend
        <4> QED BY <1>1, <2>2, <2>3, <3>2, <4>1, <4>2
                DEF AckPhase, ControlTypes, PipeTypes
    <3> QED BY <3>1, <3>2
  <2>7. PairPhase(n)'
    <3>1. CASE p2r'[n] = p2r[n]
        BY <1>1, <1>2, <2>2, <3>1 DEF Phases, PairPhase
    <3>2. CASE n = k /\ p2r'[n] = Append(p2r[n], own)
        <4>1. /\ NoneIn(p2r[k], "EPRInternalTerminate") /\ p2r[k] \in Seq(P2RMsg)
              /\ ~haveRecvPairTerm[k] /\ ~haveReplPairTerm[k]
            BY <1>1, <2>2 DEF Phases, PairPhase, PipeTypes
        <4>2. NoneIn(Append(p2r[k], own), "EPRInternalTerminate")
            BY <2>3, <4>1, PipeAppend
        <4> QED BY <1>2, <2>2, <3>2, <4>1, <4>2, NoneIsLast DEF PairPhase
    <3> QED BY <2>4, <3>1, <3>2
  <2>8. LogPhase(n)' /\ TermPhase(n)'
    BY <1>1, <1>2, <2>2 DEF Phases, LogPhase, TermPhase
  <2>9. BackPhase(n)' /\ SubPhase(n)'
    BY <1>1, <1>2, <2>2 DEF Phases, BackPhase, SubPhase
  <2>10. DownPhase(n)' /\ ExitPhase(n)'
    BY <1>1, <1>2, <2>2 DEF Phases, DownPhase, ExitPhase
  <2> QED BY <2>5, <2>6, <2>7, <2>8, <2>9, <2>10 DEF Phases
<1>5. CASE SendBuffer(k)
  <2>1. /\ pPc[k] \in {"ack", "send"} /\ pState[k] = "RUN"
        /\ pPc'[k] \in {"poll", "flush"}
        /\ \A m \in Nodes \ {k} : pPc'[m] = pPc[m]
        /\ UNCHANGED <<logPipe, fwdPipe, p2r, termPipe, sub, timer, pState,
                       updateStore, haveReceivedDsTerm, haveRepliedDsTerm,
                       haveStoppedTimer, haveStoppedRecv>>
    BY <1>1, <1>5 DEF SendBuffer, AfterFlush, propFlags, Phases,
        PropagatorPhase, ControlTypes
  <2>2. \/ pPc[k] = "send" /\ r2p' = r2p
        \/ pPc[k] = "ack" /\ r2p[k] # <<>> /\ r2p' = [r2p EXCEPT ![k] = Tail(@)]
    BY <1>5 DEF SendBuffer
  <2>3. HasDownstream(k) => tcp' = [tcp EXCEPT ![k] = @ \o outBuff[k]]
    BY <1>5 DEF SendBuffer, Enqueue
  <2>4. ~HasDownstream(k) => tcp' = tcp
    BY <1>5 DEF SendBuffer
  <2>5. PropagatorPhase(n)'
    BY <1>1, <2>1 DEF Phases, PropagatorPhase
  <2>6. AckPhase(n)'
    <3>1. CASE n # k
        BY <1>1, <2>1, <2>2, <3>1 DEF Phases, AckPhase, PipeTypes
    <3>2. CASE n = k
        <4>1. r2p'[k] = <<>> /\ NoneIn(p2r[k], "EMyUpdates")
            <5>1. AckPhase(k) /\ r2p[k] \in Seq(R2PMsg)
                BY <1>1 DEF Phases, PipeTypes
            <5>2. r2p[k] # <<>> /\ Len(r2p[k]) = 1 => Tail(r2p[k]) = <<>>
                BY <5>1, PipeTail
            <5>3. \/ pPc[k] = "send" /\ r2p'[k] = r2p[k]
                  \/ pPc[k] = "ack" /\ r2p[k] # <<>> /\ r2p'[k] = Tail(r2p[k])
                BY <1>1, <2>2 DEF PipeTypes
            <5> QED BY <5>1, <5>2, <5>3 DEF AckPhase
        <4> QED BY <2>1, <3>2, <4>1 DEF AckPhase
    <3> QED BY <3>1, <3>2
  <2>7. DownPhase(n)'
    <3>1. CASE n # k \/ ~HasDownstream(n)
        <4>1. HasDownstream(n) => tcp'[n] = tcp[n]
            BY <1>1, <2>3, <2>4, <3>1 DEF PipeTypes
        <4> QED BY <1>1, <1>2, <2>1, <4>1 DEF Phases, DownPhase
    <3>2. CASE n = k /\ HasDownstream(n)
        <4>1. /\ ~haveRepliedDsTerm[k] /\ NoneIn(tcp[k], "EPRTerminateACK")
              /\ k \notin peerAcked[Downstream[k]]
              /\ tcp[k] \in Seq(TcpMsg)
            BY <1>1, <2>1, <3>2 DEF Phases, DownPhase, PipeTypes
        <4>2. /\ outBuff[k] \in Seq(UpdateBufferMsg) /\ outBuff[k] \in Seq(TcpMsg)
              /\ NoneIn(outBuff[k], "EPRTerminateACK")
            <5>1. outBuff[k] \in Seq(UpdateBufferMsg)
                BY <1>1 DEF TypeInv, TypeOK, PropagatorTypeOK
            <5>2. \A m \in UpdateBufferMsg : m \in TcpMsg /\ m.type # "EPRTerminateACK"
                BY TcpMsgType DEF UpdateBufferMsg
            <5> QED BY <5>1, <5>2 DEF NoneIn
        <4>3. NoneIn(tcp[k] \o outBuff[k], "EPRTerminateACK")
            BY <4>1, <4>2, PipeConcat
        <4>4. tcp'[k] = tcp[k] \o outBuff[k]
            BY <1>1, <2>3, <3>2 DEF PipeTypes
        <4>5. NoneIn(tcp'[k], "EPRTerminateACK")
            BY <4>3, <4>4
        <4>6. LastOnly(tcp'[k], "EPRTerminateACK")
            BY <4>5, NoneIsLast
        <4> QED BY <1>2, <2>1, <3>2, <4>1, <4>5, <4>6 DEF DownPhase, NoneIn
    <3> QED BY <3>1, <3>2
  <2>8. LogPhase(n)' /\ TermPhase(n)'
    BY <1>1, <1>2, <2>1 DEF Phases, LogPhase, TermPhase
  <2>9. PairPhase(n)' /\ BackPhase(n)'
    BY <1>1, <1>2, <2>1 DEF Phases, PairPhase, BackPhase
  <2>10. SubPhase(n)' /\ ExitPhase(n)'
    BY <1>1, <1>2, <2>1 DEF Phases, SubPhase, ExitPhase
  <2> QED BY <2>5, <2>6, <2>7, <2>8, <2>9, <2>10 DEF Phases
<1>6. CASE JoinTimer(k)
  <2>1. /\ pPc[k] = "join" /\ timer[k] = "exited"
        /\ haveStoppedTimer' = [haveStoppedTimer EXCEPT ![k] = TRUE]
        /\ \/ pState' = pState /\ pPc' = [pPc EXCEPT ![k] = "poll"]
           \/ /\ haveStoppedRecv[k] /\ haveRepliedDsTerm[k]
              /\ pState' = [pState EXCEPT ![k] = "TERM"]
              /\ pPc' = [pPc EXCEPT ![k] = "exit"]
        /\ UNCHANGED <<logPipe, fwdPipe, p2r, r2p, termPipe, tcp, sub, timer,
                       updateStore, haveReceivedDsTerm, haveRepliedDsTerm,
                       haveStoppedRecv>>
    BY <1>1, <1>6 DEF JoinTimer, ExitIf, MayExit, wireVars, propStores, ControlTypes
  <2>2. pState[k] # "RUN"
    BY <1>1, <2>1 DEF Phases, PropagatorPhase
  <2>3. pState'[n] = "RUN" <=> pState[n] = "RUN"
    BY <1>1, <2>1, <2>2 DEF ControlTypes
  <2>4. PropagatorPhase(n)'
    BY <1>1, <2>1, <2>2, <2>3 DEF Phases, PropagatorPhase, ControlTypes
  <2>5. AckPhase(n)'
    BY <1>1, <2>1 DEF Phases, AckPhase, ControlTypes
  <2>6. LogPhase(n)' /\ TermPhase(n)'
    BY <1>1, <1>2, <2>1, <2>3 DEF Phases, LogPhase, TermPhase
  <2>7. PairPhase(n)' /\ BackPhase(n)'
    BY <1>1, <1>2, <2>1, <2>3 DEF Phases, PairPhase, BackPhase
  <2>8. SubPhase(n)' /\ DownPhase(n)' /\ ExitPhase(n)'
    BY <1>1, <1>2, <2>1, <2>3 DEF Phases, SubPhase, DownPhase, ExitPhase
  <2> QED BY <2>4, <2>5, <2>6, <2>7, <2>8 DEF Phases
<1>7. CASE \E t \in Threads : RecvUpdateLog(k, t)
  <2>1. PICK t \in Threads : RecvUpdateLog(k, t)
    BY <1>7
  <2>2. /\ logPipe[k][t] # <<>>
        /\ logPipe' = [logPipe EXCEPT ![k][t] = Tail(@)]
        /\ pState[k] = "RUN" \/ updateStore' = updateStore
        /\ UNCHANGED <<fwdPipe, p2r, r2p, termPipe, tcp, sub, timer, pState, pPc,
                       haveReceivedDsTerm, haveRepliedDsTerm,
                       haveStoppedTimer, haveStoppedRecv>>
    BY <2>1 DEF RecvUpdateLog, IsNext, propFlags
  <2>3. n # k => updateStore'[n] = updateStore[n]
    BY <1>1, <2>1 DEF RecvUpdateLog, TypeInv, TypeOK, PropagatorTypeOK
  <2>4. PropagatorPhase(n)'
    BY <1>1, <2>2, <2>3 DEF Phases, PropagatorPhase
  <2>5. LogPhase(n)'
    <3>1. \A th \in Threads :
            \/ logPipe'[n][th] = logPipe[n][th]
            \/ /\ logPipe[n][th] # <<>> /\ logPipe[n][th] \in Seq(LogMsg)
               /\ logPipe'[n][th] = Tail(logPipe[n][th])
        BY <1>1, <2>2 DEF PipeTypes
    <3>2. Main \in Threads
        BY ApplicationAssumption
    <3>3. \A th \in Threads, type \in {"EPInternalTerminate"} :
            /\ NoneIn(logPipe[n][th], type) => NoneIn(logPipe'[n][th], type)
            /\ LastOnly(logPipe[n][th], type) => LastOnly(logPipe'[n][th], type)
        BY <3>1, PipeTail
    <3>4. logPipe[n][Main] = <<>> => logPipe'[n][Main] = <<>>
        BY <3>1, <3>2
    <3> QED BY <1>1, <1>2, <2>2, <3>2, <3>3, <3>4 DEF Phases, LogPhase
  <2>6. TermPhase(n)' /\ PairPhase(n)' /\ AckPhase(n)'
    BY <1>1, <1>2, <2>2 DEF Phases, TermPhase, PairPhase, AckPhase
  <2>7. BackPhase(n)' /\ SubPhase(n)'
    BY <1>1, <1>2, <2>2 DEF Phases, BackPhase, SubPhase
  <2>8. DownPhase(n)' /\ ExitPhase(n)'
    BY <1>1, <1>2, <2>2 DEF Phases, DownPhase, ExitPhase
  <2> QED BY <2>4, <2>5, <2>6, <2>7, <2>8 DEF Phases
<1>8. CASE \E t \in Threads : RecvInternalTerminate(k, t)
  <2>1. PICK t \in Threads : RecvInternalTerminate(k, t)
    BY <1>8
  <2> DEFINE ask == Msg("EPRInternalTerminate")
             ack == TermAck(k)
  <2>2. /\ pPc[k] = "poll"
        /\ logPipe[k][t] # <<>> /\ Head(logPipe[k][t]).type = "EPInternalTerminate"
        /\ logPipe' = [logPipe EXCEPT ![k][t] = Tail(@)]
        /\ pState' = [pState EXCEPT ![k] = "TERM_PREP"]
        /\ \/ /\ haveReceivedDsTerm[k]
              /\ tcp' = [tcp EXCEPT ![k] = Append(@, ack)]
              /\ haveRepliedDsTerm' = [haveRepliedDsTerm EXCEPT ![k] = TRUE]
           \/ tcp' = tcp /\ haveRepliedDsTerm' = haveRepliedDsTerm
        /\ p2r' = [p2r EXCEPT ![k] = Append(@, ask)]
        /\ UNCHANGED <<fwdPipe, r2p, termPipe, sub, timer, pPc,
                       haveReceivedDsTerm, haveStoppedTimer, haveStoppedRecv>>
    BY <2>1 DEF RecvInternalTerminate, UpdateBranch, Polling, IsNext, ReplyDue
  <2>3. t = Main /\ pState[k] = "RUN" /\ logPipe'[k][Main] = <<>>
    <3>1. logPipe[k][t] \in Seq(LogMsg) /\ Main \in Threads
        BY <1>1, ApplicationAssumption DEF PipeTypes
    <3>2. ~NoneIn(logPipe[k][t], "EPInternalTerminate")
        BY <2>2, <3>1, PipeTail
    <3>3. t = Main
        BY <1>1, <3>2 DEF Phases, LogPhase
    <3>4. pState[k] = "RUN"
        BY <1>1, <2>2, <3>3 DEF Phases, LogPhase
    <3>5. Tail(logPipe[k][Main]) = <<>>
        BY <1>1, <2>2, <3>1, <3>3, PipeTail DEF Phases, LogPhase
    <3> QED BY <1>1, <2>2, <3>1, <3>3, <3>4, <3>5 DEF PipeTypes
  <2>4. /\ ask \in P2RMsg /\ ask.type = "EPRInternalTerminate"
        /\ ack \in TcpMsg /\ ack.type = "EPRTerminateACK" /\ ack.node = k
    BY BuffMsgType, TcpMsgType DEF Msg, TermAck
  <2> HIDE DEF ask, ack
  <2>5. PropagatorPhase(n)'
    <3>1. updateStore' = [updateStore EXCEPT ![k] = [tb \in Tables |-> EmptyStore]]
        BY <2>1 DEF RecvInternalTerminate
    <3>2. \A tb \in Tables : updateStore'[k][tb].keys = {}
        BY <1>1, <3>1 DEF EmptyStore, TypeInv, TypeOK, PropagatorTypeOK
    <3>3. n # k => updateStore'[n] = updateStore[n]
        BY <1>1, <3>1 DEF TypeInv, TypeOK, PropagatorTypeOK
    <3>4. CASE n # k
        BY <1>1, <2>2, <3>3, <3>4 DEF Phases, PropagatorPhase, ControlTypes
    <3>5. CASE n = k
        BY <1>1, <2>2, <3>2, <3>5 DEF Phases, PropagatorPhase, ControlTypes
    <3> QED BY <3>4, <3>5
  <2>6. LogPhase(n)'
    <3>1. CASE n # k
        BY <1>1, <1>2, <2>2, <3>1 DEF Phases, LogPhase, ControlTypes, PipeTypes
    <3>2. CASE n = k
        <4>1. \A th \in Threads \ {Main} : logPipe'[k][th] = logPipe[k][th]
            BY <1>1, <2>2, <2>3 DEF PipeTypes
        <4> QED BY <1>1, <1>2, <2>3, <3>2, <4>1, PipeEmpty DEF Phases, LogPhase
    <3> QED BY <3>1, <3>2
  <2>7. PairPhase(n)'
    <3>1. CASE n # k
        BY <1>1, <1>2, <2>2, <3>1 DEF Phases, PairPhase, ControlTypes, PipeTypes
    <3>2. CASE n = k
        <4>1. /\ NoneIn(p2r[k], "EPRInternalTerminate") /\ p2r[k] \in Seq(P2RMsg)
              /\ ~haveRecvPairTerm[k] /\ ~haveReplPairTerm[k]
            BY <1>1, <2>3 DEF Phases, PairPhase, PipeTypes
        <4>2. LastOnly(Append(p2r[k], ask), "EPRInternalTerminate")
            BY <2>4, <4>1, PipeAppend
        <4>3. p2r'[k] = Append(p2r[k], ask) /\ pState'[k] # "RUN"
            BY <1>1, <2>2 DEF PipeTypes, ControlTypes
        <4> QED BY <1>2, <3>2, <4>1, <4>2, <4>3 DEF PairPhase
    <3> QED BY <3>1, <3>2
  <2>8. AckPhase(n)'
    <3>1. CASE n # k
        BY <1>1, <2>2, <3>1 DEF Phases, AckPhase, PipeTypes
    <3>2. CASE n = k
        <4>1. /\ NoneIn(p2r[k], "EMyUpdates") /\ p2r[k] \in Seq(P2RMsg)
              /\ r2p[k] = <<>>
            BY <1>1, <2>2 DEF Phases, AckPhase, PipeTypes
        <4>2. NoneIn(Append(p2r[k], ask), "EMyUpdates")
            BY <2>4, <4>1, PipeAppend
        <4>3. p2r'[k] = Append(p2r[k], ask)
            BY <1>1, <2>2 DEF PipeTypes
        <4> QED BY <2>2, <3>2, <4>1, <4>2, <4>3 DEF AckPhase
    <3> QED BY <3>1, <3>2
  <2>9. DownPhase(n)'
    <3>1. CASE n # k
        <4>1. /\ tcp'[n] = tcp[n] /\ haveRepliedDsTerm'[n] = haveRepliedDsTerm[n]
              /\ pState'[n] = pState[n]
            BY <1>1, <2>2, <3>1 DEF ControlTypes, PipeTypes
        <4> QED BY <1>1, <1>2, <2>2, <4>1 DEF Phases, DownPhase
    <3>2. CASE n = k /\ tcp' = tcp /\ haveRepliedDsTerm' = haveRepliedDsTerm
        BY <1>1, <1>2, <2>2, <3>2 DEF Phases, DownPhase, ControlTypes
    <3>3. CASE /\ n = k /\ HasDownstream(n) /\ haveReceivedDsTerm[k]
               /\ tcp' = [tcp EXCEPT ![k] = Append(@, ack)]
               /\ haveRepliedDsTerm' = [haveRepliedDsTerm EXCEPT ![k] = TRUE]
        <4>1. /\ ~haveRepliedDsTerm[k] /\ NoneIn(tcp[k], "EPRTerminateACK")
              /\ k \notin peerAcked[Downstream[k]] /\ tcp[k] \in Seq(TcpMsg)
            BY <1>1, <2>3, <3>3 DEF Phases, DownPhase, PipeTypes
        <4>2. LastOnly(Append(tcp[k], ack), "EPRTerminateACK")
            BY <2>4, <4>1, PipeAppend
        <4>3. \A i \in 1 .. Len(Append(tcp[k], ack)) :
                Append(tcp[k], ack)[i].type = "EPRTerminateACK" =>
                    Append(tcp[k], ack)[i].node = k
            BY <2>4, <4>1 DEF NoneIn
        <4>4. /\ tcp'[k] = Append(tcp[k], ack) /\ pState'[k] # "RUN"
              /\ haveRepliedDsTerm'[k] /\ haveReceivedDsTerm'[k]
            BY <1>1, <2>2, <3>3 DEF PipeTypes, ControlTypes
        <4> QED BY <1>2, <3>3, <4>1, <4>2, <4>3, <4>4 DEF DownPhase
    <3>4. CASE ~HasDownstream(n)
        BY <3>4 DEF DownPhase
    <3> QED BY <2>2, <3>1, <3>2, <3>3, <3>4
  <2>10. TermPhase(n)' /\ BackPhase(n)'
    BY <1>1, <1>2, <2>2 DEF Phases, TermPhase, BackPhase
  <2>11. SubPhase(n)' /\ ExitPhase(n)'
    BY <1>1, <1>2, <2>2 DEF Phases, SubPhase, ExitPhase
  <2> QED BY <2>5, <2>6, <2>7, <2>8, <2>9, <2>10, <2>11 DEF Phases
<1>9. CASE RecvPUpdateBuffer(k)
  <2>1. /\ fwdPipe[k] # <<>> /\ fwdPipe' = [fwdPipe EXCEPT ![k] = Tail(@)]
        /\ pState[k] = "RUN" \/ updateStore' = updateStore
        /\ UNCHANGED <<logPipe, p2r, r2p, termPipe, tcp, sub, timer, pState, pPc,
                       haveReceivedDsTerm, haveRepliedDsTerm,
                       haveStoppedTimer, haveStoppedRecv>>
    BY <1>9 DEF RecvPUpdateBuffer, IsNext, propFlags
  <2>2. n # k => updateStore'[n] = updateStore[n]
    BY <1>1, <1>9 DEF RecvPUpdateBuffer, TypeInv, TypeOK, PropagatorTypeOK
  <2>3. PropagatorPhase(n)'
    BY <1>1, <2>1, <2>2 DEF Phases, PropagatorPhase
  <2>4. BackPhase(n)'
    <3>1. \/ fwdPipe'[n] = fwdPipe[n]
          \/ /\ fwdPipe[n] # <<>> /\ fwdPipe[n] \in Seq(FwdMsg)
             /\ fwdPipe'[n] = Tail(fwdPipe[n])
        BY <1>1, <2>1 DEF PipeTypes
    <3>2. \A type \in {"EPRecvInternalTerminateACK"} :
            /\ NoneIn(fwdPipe[n], type) => NoneIn(fwdPipe'[n], type)
            /\ LastOnly(fwdPipe[n], type) => LastOnly(fwdPipe'[n], type)
        BY <3>1, PipeTail
    <3>3. fwdPipe[n] = <<>> => fwdPipe'[n] = <<>>
        BY <3>1
    <3> QED BY <1>1, <1>2, <2>1, <3>2, <3>3 DEF Phases, BackPhase
  <2>5. LogPhase(n)' /\ TermPhase(n)'
    BY <1>1, <1>2, <2>1 DEF Phases, LogPhase, TermPhase
  <2>6. PairPhase(n)' /\ AckPhase(n)'
    BY <1>1, <1>2, <2>1 DEF Phases, PairPhase, AckPhase
  <2>7. SubPhase(n)' /\ DownPhase(n)' /\ ExitPhase(n)'
    BY <1>1, <1>2, <2>1 DEF Phases, SubPhase, DownPhase, ExitPhase
  <2> QED BY <2>3, <2>4, <2>5, <2>6, <2>7 DEF Phases
<1>10. CASE RecvInternalTerminateACK(k)
  <2>1. /\ pPc[k] = "poll" /\ fwdPipe[k] # <<>>
        /\ Head(fwdPipe[k]).type = "EPRecvInternalTerminateACK"
        /\ fwdPipe' = [fwdPipe EXCEPT ![k] = Tail(@)]
        /\ haveStoppedRecv' = [haveStoppedRecv EXCEPT ![k] = TRUE]
        /\ \/ pState' = pState /\ pPc' = [pPc EXCEPT ![k] = "poll"]
           \/ /\ haveStoppedTimer[k] /\ haveRepliedDsTerm[k]
              /\ pState' = [pState EXCEPT ![k] = "TERM"]
              /\ pPc' = [pPc EXCEPT ![k] = "exit"]
        /\ UNCHANGED <<logPipe, p2r, r2p, termPipe, tcp, sub, timer, updateStore,
                       haveReceivedDsTerm, haveRepliedDsTerm, haveStoppedTimer>>
    BY <1>1, <1>10 DEF RecvInternalTerminateACK, UpdateBranch, Polling, IsNext,
        ExitIf, MayExit, propStores, ControlTypes
  <2>2. pState'[n] = "RUN" <=> pState[n] = "RUN"
    BY <1>1, <2>1 DEF Phases, PropagatorPhase, ControlTypes
  <2>3. PropagatorPhase(n)'
    BY <1>1, <2>1, <2>2 DEF Phases, PropagatorPhase, ControlTypes
  <2>4. AckPhase(n)'
    BY <1>1, <2>1 DEF Phases, AckPhase, ControlTypes
  <2>5. BackPhase(n)'
    <3>1. CASE n # k
        BY <1>1, <1>2, <2>1, <3>1 DEF Phases, BackPhase, ControlTypes, PipeTypes
    <3>2. CASE n = k
        <4>1. fwdPipe[k] \in Seq(FwdMsg) /\ BackPhase(k)
            BY <1>1 DEF Phases, PipeTypes
        <4>2. /\ ~NoneIn(fwdPipe[k], "EPRecvInternalTerminateACK")
              /\ Tail(fwdPipe[k]) = <<>>
            BY <2>1, <4>1, PipeTail DEF BackPhase
        <4>3. fwdPipe'[k] = <<>>
            BY <1>1, <2>1, <4>2 DEF PipeTypes
        <4> QED BY <1>2, <3>2, <4>1, <4>2, <4>3, PipeEmpty DEF BackPhase
    <3> QED BY <3>1, <3>2
  <2>6. LogPhase(n)' /\ TermPhase(n)'
    BY <1>1, <1>2, <2>1, <2>2 DEF Phases, LogPhase, TermPhase
  <2>7. PairPhase(n)'
    BY <1>1, <1>2, <2>1, <2>2 DEF Phases, PairPhase
  <2>8. SubPhase(n)' /\ DownPhase(n)' /\ ExitPhase(n)'
    BY <1>1, <1>2, <2>1, <2>2 DEF Phases, SubPhase, DownPhase, ExitPhase
  <2> QED BY <2>3, <2>4, <2>5, <2>6, <2>7, <2>8 DEF Phases
<1>11. CASE RecvEPRTerminate(k)
  <2> DEFINE ack == TermAck(k)
  <2>1. /\ pPc[k] = "poll" /\ sub[k] # <<>>
        /\ sub' = [sub EXCEPT ![k] = Tail(@)]
        /\ haveReceivedDsTerm' = [haveReceivedDsTerm EXCEPT ![k] = TRUE]
        /\ UNCHANGED <<logPipe, fwdPipe, p2r, r2p, termPipe, timer, updateStore,
                       haveStoppedTimer, haveStoppedRecv>>
    BY <1>11 DEF RecvEPRTerminate, TermBranch, UpdateBranch, Polling, IsNext,
        propStores
  <2>2. \/ UNCHANGED <<tcp, haveRepliedDsTerm, pState, pPc>>
        \/ /\ pState[k] = "TERM_PREP"
           /\ tcp' = [tcp EXCEPT ![k] = Append(@, ack)]
           /\ haveRepliedDsTerm' = [haveRepliedDsTerm EXCEPT ![k] = TRUE]
           /\ \/ pState' = pState /\ pPc' = [pPc EXCEPT ![k] = "poll"]
              \/ /\ haveStoppedTimer[k] /\ haveStoppedRecv[k]
                 /\ pState' = [pState EXCEPT ![k] = "TERM"]
                 /\ pPc' = [pPc EXCEPT ![k] = "exit"]
    BY <1>1, <1>11 DEF RecvEPRTerminate, MayReplyDs, ExitIf, MayExit, ControlTypes
  <2>3. ack \in TcpMsg /\ ack.type = "EPRTerminateACK" /\ ack.node = k
    BY TcpMsgType DEF TermAck
  <2> HIDE DEF ack
  <2>4. pState'[n] = "RUN" <=> pState[n] = "RUN"
    BY <1>1, <2>2 DEF ControlTypes
  <2>5. PropagatorPhase(n)'
    <3>1. haveRepliedDsTerm[n] => haveRepliedDsTerm'[n]
        BY <1>1, <2>2 DEF ControlTypes
    <3>2. \/ pPc'[n] = pPc[n]
          \/ pPc'[n] = "poll"
          \/ /\ pPc'[n] = "exit" /\ haveStoppedTimer[n] /\ haveStoppedRecv[n]
             /\ haveRepliedDsTerm'[n]
        BY <1>1, <2>2 DEF ControlTypes
    <3> QED BY <1>1, <2>1, <2>4, <3>1, <3>2 DEF Phases, PropagatorPhase
  <2>6. AckPhase(n)'
    <3>1. pPc'[n] = "ack" <=> pPc[n] = "ack"
        BY <1>1, <2>1, <2>2 DEF ControlTypes
    <3> QED BY <1>1, <2>1, <3>1 DEF Phases, AckPhase
  <2>7. SubPhase(n)'
    <3>1. CASE n # k
        BY <1>1, <1>2, <2>1, <3>1 DEF Phases, SubPhase, ControlTypes, PipeTypes
    <3>2. CASE n = k
        <4>1. SubPhase(k) /\ sub[k] \in Seq(SubMsg)
            BY <1>1 DEF Phases, PipeTypes
        <4>2. Tail(sub[k]) = <<>>
            BY <2>1, <4>1, PipeTail DEF SubPhase
        <4>3. sub'[k] = <<>>
            BY <1>1, <2>1, <4>2 DEF PipeTypes
        <4> QED BY <1>2, <2>1, <3>2, <4>1, <4>3 DEF SubPhase
    <3> QED BY <3>1, <3>2
  <2>8. DownPhase(n)'
    <3>1. CASE n # k
        <4>1. /\ tcp'[n] = tcp[n] /\ haveRepliedDsTerm'[n] = haveRepliedDsTerm[n]
              /\ haveReceivedDsTerm'[n] = haveReceivedDsTerm[n]
            BY <1>1, <2>1, <2>2, <3>1 DEF ControlTypes, PipeTypes
        <4> QED BY <1>1, <1>2, <2>4, <4>1 DEF Phases, DownPhase
    <3>2. CASE n = k /\ UNCHANGED <<tcp, haveRepliedDsTerm, pState>>
        <4>1. haveReceivedDsTerm'[k]
            BY <1>1, <2>1 DEF ControlTypes
        <4> QED BY <1>1, <1>2, <3>2, <4>1 DEF Phases, DownPhase
    <3>3. CASE /\ n = k /\ HasDownstream(n) /\ pState[k] = "TERM_PREP"
               /\ tcp' = [tcp EXCEPT ![k] = Append(@, ack)]
               /\ haveRepliedDsTerm' = [haveRepliedDsTerm EXCEPT ![k] = TRUE]
        <4>1. ~haveReceivedDsTerm[k]
            BY <1>1, <2>1 DEF Phases, SubPhase
        <4>2. /\ ~haveRepliedDsTerm[k] /\ NoneIn(tcp[k], "EPRTerminateACK")
              /\ k \notin peerAcked[Downstream[k]] /\ tcp[k] \in Seq(TcpMsg)
            BY <1>1, <3>3, <4>1 DEF Phases, DownPhase, PipeTypes
        <4>3. LastOnly(Append(tcp[k], ack), "EPRTerminateACK")
            BY <2>3, <4>2, PipeAppend
        <4>4. \A i \in 1 .. Len(Append(tcp[k], ack)) :
                Append(tcp[k], ack)[i].type = "EPRTerminateACK" =>
                    Append(tcp[k], ack)[i].node = k
            BY <2>3, <4>2 DEF NoneIn
        <4>5. /\ tcp'[k] = Append(tcp[k], ack) /\ pState'[k] # "RUN"
              /\ haveRepliedDsTerm'[k] /\ haveReceivedDsTerm'[k]
            BY <1>1, <2>1, <2>4, <3>3 DEF PipeTypes, ControlTypes
        <4> QED BY <1>2, <3>3, <4>2, <4>3, <4>4, <4>5 DEF DownPhase
    <3>4. CASE ~HasDownstream(n)
        BY <3>4 DEF DownPhase
    <3> QED BY <2>2, <3>1, <3>2, <3>3, <3>4
  <2>9. LogPhase(n)' /\ TermPhase(n)'
    BY <1>1, <1>2, <2>1, <2>4 DEF Phases, LogPhase, TermPhase
  <2>10. PairPhase(n)' /\ BackPhase(n)' /\ ExitPhase(n)'
    BY <1>1, <1>2, <2>1, <2>4 DEF Phases, PairPhase, BackPhase, ExitPhase
  <2> QED BY <2>5, <2>6, <2>7, <2>8, <2>9, <2>10 DEF Phases
<1> QED BY <1>3, <1>4, <1>5, <1>6, <1>7, <1>8, <1>9, <1>10, <1>11
        DEF PropagatorNext, PropagatorStep

(* A buffer delivered while the receiver runs comes before the             *)
(* acknowledgement.                                                        *)
LEMMA DeliverBack ==
    ASSUME ControlTypes, PipeTypes, NEW k \in Nodes, NEW n \in Nodes,
           Phases(n), Phases(k), NEW t, NEW b,
           Deliver(k, t, b), rState[k] = "RUN",
           UNCHANGED <<rState, haveReplPairTerm, haveStoppedRecv>>
    PROVE  BackPhase(n)' /\ (rPc'[n] = "exit" => rPc[n] = "exit")
<1>0. PICK loc \in {"poll", "apply"} : rPc' = [rPc EXCEPT ![k] = loc]
    BY DeliverGoes
<1>e. (n # k => rPc'[n] = rPc[n]) /\ rPc'[k] # "exit"
    BY <1>0 DEF ControlTypes
<1> DEFINE m == BuffMsg("EPUpdateBuffer", t, b)
<1>1. fwdPipe' = [fwdPipe EXCEPT ![k] = Append(@, m)] \/ fwdPipe' = fwdPipe
    BY DEF Deliver
<1>2. m.type = "EPUpdateBuffer"
    BY DEF BuffMsg
<1> HIDE DEF m
<1>3. CASE n # k
  <2>1. fwdPipe'[n] = fwdPipe[n]
    BY <1>1, <1>3 DEF PipeTypes
  <2> QED BY <1>3, <1>e, <2>1 DEF Phases, BackPhase
<1>4. CASE n = k
  <2>1. /\ ~haveReplPairTerm[k] /\ ~haveStoppedRecv[k]
        /\ NoneIn(fwdPipe[k], "EPRecvInternalTerminateACK")
        /\ fwdPipe[k] \in Seq(FwdMsg)
    BY DEF Phases, PairPhase, BackPhase, PipeTypes
  <2>2. NoneIn(Append(fwdPipe[k], m), "EPRecvInternalTerminateACK")
    BY <1>2, <2>1, PipeAppend
  <2>3. fwdPipe'[k] = fwdPipe[k] \/ fwdPipe'[k] = Append(fwdPipe[k], m)
    BY <1>1 DEF PipeTypes
  <2>4. NoneIn(fwdPipe'[k], "EPRecvInternalTerminateACK")
    BY <2>1, <2>2, <2>3
  <2>5. LastOnly(fwdPipe'[k], "EPRecvInternalTerminateACK")
    BY <2>4, NoneIsLast
  <2> QED BY <1>4, <1>e, <2>1, <2>4, <2>5 DEF BackPhase
<1> QED BY <1>3, <1>4

(* The actions of the receiver.                                            *)
LEMMA ShutdownReceiver ==
    ASSUME ShutdownInv, NEW k \in Nodes, ReceiverNext(k), NEW n \in Nodes
    PROVE  Phases(n)'
<1>1. ControlTypes /\ PipeTypes /\ Phases(n) /\ Phases(k) /\ TypeInv
    BY Types DEF ShutdownInv
<1>2. UNCHANGED <<timer, pState, pPc, updateStore, haveReceivedDsTerm,
                  haveRepliedDsTerm, haveStoppedTimer, haveStoppedRecv, thr, pend>>
    BY DEF ReceiverNext, propVars, propStores, propFlags, appVars
<1>3. PropagatorPhase(n)'
    BY <1>1, <1>2 DEF Phases, PropagatorPhase
<1>4. HasDownstream(n) => Downstream[n] \in Nodes
    BY DownstreamType
<1>5. CASE RecvMyUpdates(k)
  <2> DEFINE ok == Msg("EMyUpdatesACK")
  <2>1. /\ p2r[k] # <<>> /\ Head(p2r[k]).type = "EMyUpdates"
        /\ p2r' = [p2r EXCEPT ![k] = Tail(@)]
        /\ r2p' = [r2p EXCEPT ![k] = Append(@, ok)]
        /\ UNCHANGED <<logPipe, fwdPipe, termPipe, tcp, sub, rState, rPc,
                       peerAcked, haveRecvPairTerm, haveReplPairTerm>>
    BY <1>5 DEF RecvMyUpdates, IsNext, recvFlags
  <2>2. ok \in R2PMsg
    BY SignalType
  <2> HIDE DEF ok
  <2>3. p2r[k] \in Seq(P2RMsg) /\ r2p[k] \in Seq(R2PMsg)
    BY <1>1 DEF PipeTypes
  <2>4. /\ n # k => p2r'[n] = p2r[n] /\ r2p'[n] = r2p[n]
        /\ p2r'[k] = Tail(p2r[k]) /\ r2p'[k] = Append(r2p[k], ok)
    BY <1>1, <2>1 DEF PipeTypes
  <2>5. PairPhase(n)'
    <3>1. CASE n # k
        BY <1>1, <1>2, <2>1, <2>4, <3>1 DEF Phases, PairPhase
    <3>2. CASE n = k
        <4>1. \A type \in {"EPRInternalTerminate"} :
                /\ NoneIn(p2r[k], type) => NoneIn(Tail(p2r[k]), type)
                /\ LastOnly(p2r[k], type) => LastOnly(Tail(p2r[k]), type)
            BY <2>1, <2>3, PipeTail
        <4>2. ~haveRecvPairTerm[k] /\ ~haveReplPairTerm[k]
            BY <1>1, <2>1 DEF Phases, PairPhase
        <4> QED BY <1>1, <1>2, <2>1, <2>4, <3>2, <4>1, <4>2 DEF Phases, PairPhase
    <3> QED BY <3>1, <3>2
  <2>6. AckPhase(n)'
    <3>1. CASE n # k
        BY <1>1, <1>2, <2>4, <3>1 DEF Phases, AckPhase
    <3>2. CASE n = k
        <4>1. ~NoneIn(p2r[k], "EMyUpdates")
            BY <2>1, <2>3, PipeTail
        <4>2. pPc[k] = "ack" /\ r2p[k] = <<>> /\ LastOnly(p2r[k], "EMyUpdates")
            BY <1>1, <4>1 DEF Phases, AckPhase
        <4>3. Tail(p2r[k]) = <<>>
            BY <2>1, <2>3, <4>2, PipeTail
        <4>4. Len(Append(r2p[k], ok)) = 1
            BY <2>2, <2>3, <4>2, PipeAppend
        <4> QED BY <1>2, <2>4, <3>2, <4>2, <4>3, <4>4, PipeEmpty DEF AckPhase
    <3> QED BY <3>1, <3>2
  <2>7. LogPhase(n)' /\ TermPhase(n)'
    BY <1>1, <1>2, <2>1 DEF Phases, LogPhase, TermPhase
  <2>8. BackPhase(n)' /\ SubPhase(n)'
    BY <1>1, <1>2, <2>1 DEF Phases, BackPhase, SubPhase
  <2>9. DownPhase(n)' /\ ExitPhase(n)'
    BY <1>1, <1>2, <2>1 DEF Phases, DownPhase, ExitPhase
  <2> QED BY <1>3, <2>5, <2>6, <2>7, <2>8, <2>9 DEF Phases
<1>6. CASE RecvERInternalTerminate(k)
  <2> DEFINE done == Msg("EPRecvInternalTerminateACK")
             term == Msg("EPRTerminate")
  <2>1. /\ rPc[k] = "poll" /\ termPipe[k] # <<>>
        /\ termPipe' = [termPipe EXCEPT ![k] = Tail(@)]
        /\ rState' = [rState EXCEPT ![k] = "TERM_SELF"]
        /\ sub' = [m \in Nodes |-> IF m \in Upstream(k)
                                   THEN Append(sub[m], term) ELSE sub[m]]
        /\ UNCHANGED <<logPipe, p2r, r2p, tcp, rPc, peerAcked, haveRecvPairTerm>>
    BY <1>6 DEF RecvERInternalTerminate, InternalBranch, IsNext, PublishTerminate
  <2>2. \/ fwdPipe' = fwdPipe /\ haveReplPairTerm' = haveReplPairTerm
        \/ /\ haveRecvPairTerm[k]
           /\ fwdPipe' = [fwdPipe EXCEPT ![k] = Append(@, done)]
           /\ haveReplPairTerm' = [haveReplPairTerm EXCEPT ![k] = TRUE]
    BY <1>6 DEF RecvERInternalTerminate, ReplyPairTerm
  <2>3. /\ done \in FwdMsg /\ term \in SubMsg
    BY BuffMsgType, SignalType
  <2> HIDE DEF done, term
  <2>4. rState[k] = "RUN" /\ Len(termPipe[k]) = 1 /\ ~haveReplPairTerm[k]
    BY <1>1, <2>1 DEF Phases, TermPhase, PairPhase
  <2>5. \A m \in Nodes : rState[m] # "RUN" => rState'[m] # "RUN"
    BY <1>1, <2>1 DEF ControlTypes
  <2>6. TermPhase(n)'
    <3>1. CASE n # k
        BY <1>1, <1>2, <2>1, <3>1 DEF Phases, TermPhase, ControlTypes, PipeTypes
    <3>2. CASE n = k
        <4>1. termPipe[k] \in Seq(TermMsg)
            BY <1>1 DEF PipeTypes
        <4>2. Tail(termPipe[k]) = <<>>
            BY <2>1, <2>4, <4>1, PipeTail
        <4>3. termPipe'[k] = <<>>
            BY <1>1, <2>1, <4>2 DEF PipeTypes
        <4> QED BY <3>2, <4>3 DEF TermPhase
    <3> QED BY <3>1, <3>2
  <2>7. PairPhase(n)'
    <3>1. /\ haveReplPairTerm'[n] = haveReplPairTerm[n]
             \/ /\ n = k /\ haveRecvPairTerm[k] /\ haveReplPairTerm'[n]
                /\ rState'[k] # "RUN"
        BY <1>1, <2>1, <2>2 DEF ControlTypes
    <3> QED BY <1>1, <1>2, <2>1, <2>5, <3>1 DEF Phases, PairPhase
  <2>8. BackPhase(n)'
    <3>1. CASE n # k
        <4>1. /\ fwdPipe'[n] = fwdPipe[n] /\ haveReplPairTerm'[n] = haveReplPairTerm[n]
              /\ rState'[n] = rState[n]
            BY <1>1, <2>1, <2>2, <3>1 DEF ControlTypes, PipeTypes
        <4> QED BY <1>1, <1>2, <2>1, <4>1 DEF Phases, BackPhase
    <3>2. CASE n = k
        <4>1. /\ NoneIn(fwdPipe[k], "EPRecvInternalTerminateACK")
              /\ ~haveStoppedRecv[k] /\ fwdPipe[k] \in Seq(FwdMsg)
            BY <1>1, <2>4 DEF Phases, BackPhase, PipeTypes
        <4>2. LastOnly(Append(fwdPipe[k], done), "EPRecvInternalTerminateACK")
            BY <2>3, <4>1, PipeAppend
        <4>3. \/ fwdPipe'[k] = fwdPipe[k]
              \/ haveReplPairTerm'[k] /\ fwdPipe'[k] = Append(fwdPipe[k], done)
            BY <1>1, <2>2 DEF ControlTypes, PipeTypes
        <4> QED BY <1>2, <2>1, <3>2, <4>1, <4>2, <4>3, NoneIsLast DEF BackPhase
    <3> QED BY <3>1, <3>2
  <2>9. SubPhase(n)'
    <3>1. CASE n \notin Upstream(k)
        <4>1. sub'[n] = sub[n]
            BY <2>1, <3>1
        <4> QED BY <1>1, <1>2, <1>4, <2>5, <4>1 DEF Phases, SubPhase
    <3>2. CASE n \in Upstream(k)
        <4>1. HasDownstream(n) /\ Downstream[n] = k
            BY <3>2, DownstreamType
        <4>2. sub[n] = <<>> /\ ~haveReceivedDsTerm[n] /\ sub[n] \in Seq(SubMsg)
            BY <1>1, <2>4, <4>1 DEF Phases, SubPhase, PipeTypes
        <4>3. sub'[n] = Append(sub[n], term) /\ rState'[k] # "RUN"
            BY <1>1, <2>1, <3>2 DEF ControlTypes
        <4>4. Len(Append(sub[n], term)) = 1
            BY <2>3, <4>2, PipeAppend
        <4> QED BY <1>2, <4>1, <4>2, <4>3, <4>4 DEF SubPhase
    <3> QED BY <3>1, <3>2
  <2>10. ExitPhase(n)'
    <3>1. haveReplPairTerm[n] => haveReplPairTerm'[n]
        BY <1>1, <2>2 DEF ControlTypes
    <3> QED BY <1>1, <2>1, <3>1 DEF Phases, ExitPhase
  <2>11. LogPhase(n)' /\ AckPhase(n)' /\ DownPhase(n)'
    BY <1>1, <1>2, <2>1 DEF Phases, LogPhase, AckPhase, DownPhase
  <2> QED BY <1>3, <2>6, <2>7, <2>8, <2>9, <2>10, <2>11 DEF Phases
<1>7. CASE RecvEPRInternalTerminate(k)
  <2> DEFINE done == Msg("EPRecvInternalTerminateACK")
  <2>1. /\ rPc[k] = "poll" /\ p2r[k] # <<>>
        /\ Head(p2r[k]).type = "EPRInternalTerminate"
        /\ p2r' = [p2r EXCEPT ![k] = Tail(@)]
        /\ UNCHANGED <<logPipe, r2p, termPipe, tcp, sub, peerAcked>>
    BY <1>7 DEF RecvEPRInternalTerminate, InternalBranch, IsNext
  <2>2. \/ /\ haveRecvPairTerm' = [haveRecvPairTerm EXCEPT ![k] = TRUE]
           /\ UNCHANGED <<fwdPipe, haveReplPairTerm, rState, rPc>>
        \/ /\ rState[k] # "RUN"
           /\ fwdPipe' = [fwdPipe EXCEPT ![k] = Append(@, done)]
           /\ haveReplPairTerm' = [haveReplPairTerm EXCEPT ![k] = TRUE]
           /\ haveRecvPairTerm' = haveRecvPairTerm
           /\ \/ rState' = rState /\ rPc' = [rPc EXCEPT ![k] = "poll"]
              \/ /\ Upstream(k) \subseteq peerAcked[k]
                 /\ rState' = [rState EXCEPT ![k] = "TERM"]
                 /\ rPc' = [rPc EXCEPT ![k] = "exit"]
    BY <1>1, <1>7 DEF RecvEPRInternalTerminate, ReplyPairTerm, RecvExitIf,
        RecvMayExit, HasAllPeersAckedTerm, ControlTypes
  <2>3. done \in FwdMsg /\ p2r[k] \in Seq(P2RMsg) /\ fwdPipe[k] \in Seq(FwdMsg)
    BY <1>1, BuffMsgType DEF PipeTypes
  <2> HIDE DEF done
  <2>4. /\ ~NoneIn(p2r[k], "EPRInternalTerminate")
        /\ Tail(p2r[k]) = <<>>
    BY <1>1, <2>1, <2>3, PipeTail DEF Phases, PairPhase
  <2>5. p2r'[k] = <<>> /\ (n # k => p2r'[n] = p2r[n])
    BY <1>1, <2>1, <2>4 DEF PipeTypes
  <2>6. ~haveRecvPairTerm[k] /\ ~haveReplPairTerm[k] /\ pState[k] # "RUN"
    BY <1>1, <2>1, <2>4 DEF Phases, PairPhase
  <2>7. \A m \in Nodes : rState'[m] = "RUN" <=> rState[m] = "RUN"
    BY <1>1, <2>2 DEF ControlTypes
  <2>8. n # k => /\ fwdPipe'[n] = fwdPipe[n] /\ rPc'[n] = rPc[n]
                 /\ haveReplPairTerm'[n] = haveReplPairTerm[n]
                 /\ haveRecvPairTerm'[n] = haveRecvPairTerm[n]
    BY <1>1, <2>2 DEF ControlTypes, PipeTypes
  <2>9. PairPhase(n)'
    <3>1. CASE n # k
        BY <1>1, <1>2, <2>5, <2>7, <2>8, <3>1 DEF Phases, PairPhase
    <3>2. CASE n = k
        <4>1. haveReplPairTerm'[k] => rState'[k] # "RUN"
            BY <1>1, <2>2, <2>6, <2>7 DEF ControlTypes
        <4> QED BY <1>2, <2>5, <2>6, <3>2, <4>1, PipeEmpty DEF PairPhase
    <3> QED BY <3>1, <3>2
  <2>10. AckPhase(n)'
    <3>1. CASE n # k
        BY <1>1, <1>2, <2>1, <2>5, <3>1 DEF Phases, AckPhase
    <3>2. CASE n = k
        BY <1>1, <1>2, <2>1, <2>5, <3>2, PipeEmpty DEF Phases, AckPhase
    <3> QED BY <3>1, <3>2
  <2>11. BackPhase(n)'
    <3>1. CASE n # k
        BY <1>1, <1>2, <2>7, <2>8, <3>1 DEF Phases, BackPhase
    <3>2. CASE n = k
        <4>1. /\ NoneIn(fwdPipe[k], "EPRecvInternalTerminateACK")
              /\ ~haveStoppedRecv[k]
            BY <1>1, <2>6 DEF Phases, BackPhase
        <4>2. LastOnly(Append(fwdPipe[k], done), "EPRecvInternalTerminateACK")
            BY <2>3, <4>1, PipeAppend
        <4>3. /\ \/ fwdPipe'[k] = fwdPipe[k]
                 \/ haveReplPairTerm'[k] /\ fwdPipe'[k] = Append(fwdPipe[k], done)
              /\ rPc'[k] # "dedup"
            BY <1>1, <2>1, <2>2 DEF ControlTypes, PipeTypes
        <4> QED BY <1>2, <3>2, <4>1, <4>2, <4>3, NoneIsLast DEF BackPhase
    <3> QED BY <3>1, <3>2
  <2>12. ExitPhase(n)'
    <3>1. CASE n # k
        BY <1>1, <2>1, <2>8, <3>1 DEF Phases, ExitPhase
    <3>2. CASE n = k
        <4>1. rPc'[k] = "exit" =>
                haveReplPairTerm'[k] /\ Upstream(k) \subseteq peerAcked[k]
            BY <1>1, <2>1, <2>2 DEF ControlTypes
        <4> QED BY <2>1, <3>2, <4>1 DEF ExitPhase
    <3> QED BY <3>1, <3>2
  <2>13. LogPhase(n)' /\ TermPhase(n)' /\ DownPhase(n)'
    BY <1>1, <1>2, <2>1, <2>7 DEF Phases, LogPhase, TermPhase, DownPhase
  <2>14. SubPhase(n)'
    BY <1>1, <1>2, <1>4, <2>1, <2>7 DEF Phases, SubPhase
  <2> QED BY <1>3, <2>9, <2>10, <2>11, <2>12, <2>13, <2>14 DEF Phases
<1>8. CASE \E m \in Nodes : RecvUpdateBuffer(k, m)
  <2>1. PICK m \in Nodes : RecvUpdateBuffer(k, m)
    BY <1>8
  <2>2. /\ rPc[k] = "poll" /\ tcp[m] # <<>> /\ m \in Upstream(k)
        /\ tcp' = [tcp EXCEPT ![m] = Tail(@)]
        /\ UNCHANGED <<logPipe, p2r, r2p, termPipe, sub, rState, peerAcked,
                       haveRecvPairTerm, haveReplPairTerm>>
    BY <2>1 DEF RecvUpdateBuffer, UpdateSockBranch, InternalBranch, IsNext, recvFlags
  <2>3. \/ fwdPipe' = fwdPipe /\ rPc' = rPc
        \/ /\ rState[k] = "RUN"
           /\ Deliver(k, Head(tcp[m]).table, Head(tcp[m]).buff)
        \/ /\ rState[k] = "RUN" /\ fwdPipe' = fwdPipe
           /\ rPc' = [rPc EXCEPT ![k] = "dedup"]
    BY <2>1 DEF RecvUpdateBuffer
  <2>4. \/ tcp'[n] = tcp[n]
        \/ /\ tcp[n] # <<>> /\ tcp[n] \in Seq(TcpMsg)
           /\ tcp'[n] = Tail(tcp[n])
    BY <1>1, <2>2 DEF PipeTypes
  <2>5. DownPhase(n)'
    <3>1. CASE tcp'[n] = tcp[n]
        BY <1>1, <1>2, <2>2, <3>1 DEF Phases, DownPhase
    <3>2. CASE /\ tcp[n] # <<>> /\ tcp[n] \in Seq(TcpMsg)
               /\ tcp'[n] = Tail(tcp[n])
        <4>1. \A type \in {"EPRTerminateACK"} :
                /\ NoneIn(tcp[n], type) => NoneIn(tcp'[n], type)
                /\ LastOnly(tcp[n], type) => LastOnly(tcp'[n], type)
            BY <3>2, PipeTail
        <4>2. \A i \in 1 .. Len(tcp'[n]) :
                i + 1 \in 1 .. Len(tcp[n]) /\ tcp'[n][i] = tcp[n][i + 1]
            BY <3>2, HeadTailProperties, LenProperties
        <4> QED BY <1>1, <1>2, <2>2, <3>2, <4>1, <4>2 DEF Phases, DownPhase
    <3> QED BY <2>4, <3>1, <3>2
  <2>6. BackPhase(n)' /\ (rPc'[n] = "exit" => rPc[n] = "exit")
    <3>1. CASE rState[k] = "RUN"
                /\ Deliver(k, Head(tcp[m]).table, Head(tcp[m]).buff)
        BY <1>1, <1>2, <2>2, <3>1, DeliverBack
    <3>2. CASE fwdPipe' = fwdPipe /\ rPc' = rPc
        BY <1>1, <1>2, <2>2, <3>2 DEF Phases, BackPhase
    <3>3. CASE /\ rState[k] = "RUN" /\ fwdPipe' = fwdPipe
               /\ rPc' = [rPc EXCEPT ![k] = "dedup"]
        BY <1>1, <1>2, <2>2, <3>3 DEF Phases, BackPhase, ControlTypes
    <3> QED BY <2>3, <3>1, <3>2, <3>3
  <2>7. ExitPhase(n)'
    BY <1>1, <2>2, <2>6 DEF Phases, ExitPhase
  <2>8. LogPhase(n)' /\ TermPhase(n)'
    BY <1>1, <1>2, <2>2 DEF Phases, LogPhase, TermPhase
  <2>9. PairPhase(n)' /\ AckPhase(n)' /\ SubPhase(n)'
    BY <1>1, <1>2, <2>2 DEF Phases, PairPhase, AckPhase, SubPhase
  <2> QED BY <1>3, <2>5, <2>6, <2>7, <2>8, <2>9 DEF Phases
<1>9. CASE \E m \in Nodes : RecvTerminateACK(k, m)
  <2>1. PICK m \in Nodes : RecvTerminateACK(k, m)
    BY <1>9
  <2> DEFINE acked == peerAcked[k] \cup {Head(tcp[m]).node}
  <2>2. /\ rPc[k] = "poll" /\ tcp[m] # <<>> /\ m \in Upstream(k)
        /\ Head(tcp[m]).type = "EPRTerminateACK"
        /\ tcp' = [tcp EXCEPT ![m] = Tail(@)]
        /\ peerAcked' = [peerAcked EXCEPT ![k] = acked]
        /\ UNCHANGED <<logPipe, fwdPipe, p2r, r2p, termPipe, sub,
                       haveRecvPairTerm, haveReplPairTerm>>
    BY <2>1 DEF RecvTerminateACK, UpdateSockBranch, InternalBranch, IsNext
  <2>3. \/ rState' = rState /\ rPc' = [rPc EXCEPT ![k] = "poll"]
        \/ /\ Upstream(k) \subseteq acked /\ haveReplPairTerm[k]
           /\ rState' = [rState EXCEPT ![k] = "TERM"]
           /\ rPc' = [rPc EXCEPT ![k] = "exit"]
    BY <1>1, <2>1 DEF RecvTerminateACK, RecvExitIf, RecvMayExit,
        HasAllPeersAckedTerm, ControlTypes
  <2>4. /\ HasDownstream(m) /\ Downstream[m] = k /\ tcp[m] \in Seq(TcpMsg)
        /\ DownPhase(m)
    BY <1>1, <2>2, DownstreamType DEF PipeTypes, ShutdownInv, Phases
  <2>5. Tail(tcp[m]) = <<>> /\ ~NoneIn(tcp[m], "EPRTerminateACK")
    BY <2>2, <2>4, PipeTail DEF DownPhase
  <2>6. Head(tcp[m]).node = m
    <3>1. 1 \in 1 .. Len(tcp[m]) /\ Head(tcp[m]) = tcp[m][1]
        BY <2>2, <2>4, EmptySeq
    <3> QED BY <2>2, <2>4, <3>1 DEF DownPhase
  <2>7. acked = peerAcked[k] \cup {m}
    BY <2>6
  <2> HIDE DEF acked
  <2>8. \A p \in Nodes : rState'[p] = "RUN" <=> rState[p] = "RUN"
    BY <1>1, <2>3 DEF ControlTypes, Phases, PairPhase
  <2>9. DownPhase(n)'
    <3>1. CASE n # m
        <4>1. tcp'[n] = tcp[n]
            BY <1>1, <2>2, <3>1 DEF PipeTypes
        <4>2. HasDownstream(n) =>
                (n \in peerAcked'[Downstream[n]] <=> n \in peerAcked[Downstream[n]])
            BY <1>1, <1>4, <2>2, <2>7, <3>1 DEF ControlTypes
        <4> QED BY <1>1, <1>2, <4>1, <4>2 DEF Phases, DownPhase
    <3>2. CASE n = m
        <4>1. tcp'[m] = <<>>
            BY <1>1, <2>2, <2>5 DEF PipeTypes
        <4>2. haveRepliedDsTerm[m]
            BY <2>4, <2>5 DEF DownPhase
        <4> QED BY <1>2, <2>4, <3>2, <4>1, <4>2, PipeEmpty DEF DownPhase
    <3> QED BY <3>1, <3>2
  <2>10. BackPhase(n)'
    <3>1. rPc'[n] = "dedup" => rPc[n] = "dedup"
        BY <1>1, <2>3 DEF ControlTypes
    <3> QED BY <1>1, <1>2, <2>2, <2>8, <3>1 DEF Phases, BackPhase
  <2>11. ExitPhase(n)'
    <3>1. CASE n # k
        BY <1>1, <2>2, <2>3, <3>1 DEF Phases, ExitPhase, ControlTypes
    <3>2. CASE n = k
        <4>1. /\ peerAcked'[k] = acked
              /\ rPc'[k] = "exit" => haveReplPairTerm[k] /\ Upstream(k) \subseteq acked
            BY <1>1, <2>2, <2>3 DEF ControlTypes
        <4> QED BY <2>2, <3>2, <4>1 DEF ExitPhase
    <3> QED BY <3>1, <3>2
  <2>12. LogPhase(n)' /\ TermPhase(n)'
    BY <1>1, <1>2, <2>2, <2>8 DEF Phases, LogPhase, TermPhase
  <2>13. PairPhase(n)' /\ AckPhase(n)'
    BY <1>1, <1>2, <2>2, <2>8 DEF Phases, PairPhase, AckPhase
  <2>14. SubPhase(n)'
    BY <1>1, <1>2, <1>4, <2>2, <2>8 DEF Phases, SubPhase
  <2> QED BY <1>3, <2>9, <2>10, <2>11, <2>12, <2>13, <2>14 DEF Phases
<1>10. CASE Dedup(k)
  <2>1. /\ rPc[k] = "dedup" /\ rState[k] = "RUN"
        /\ UNCHANGED <<logPipe, p2r, r2p, termPipe, tcp, sub, rState, peerAcked,
                       haveRecvPairTerm, haveReplPairTerm>>
    BY <1>1, <1>10 DEF Dedup, recvFlags, Phases, BackPhase
  <2>2. \/ fwdPipe' = fwdPipe /\ rPc' = rPc
        \/ \E t, b : Deliver(k, t, b)
    BY <1>10 DEF Dedup
  <2>3. BackPhase(n)' /\ (rPc'[n] = "exit" => rPc[n] = "exit")
    <3>1. CASE fwdPipe' = fwdPipe /\ rPc' = rPc
        BY <1>1, <1>2, <2>1, <3>1 DEF Phases, BackPhase
    <3>2. CASE \E t, b : Deliver(k, t, b)
        BY <1>1, <1>2, <2>1, <3>2, DeliverBack
    <3> QED BY <2>2, <3>1, <3>2
  <2>4. ExitPhase(n)'
    BY <1>1, <2>1, <2>3 DEF Phases, ExitPhase
  <2>5. LogPhase(n)' /\ TermPhase(n)' /\ PairPhase(n)'
    BY <1>1, <1>2, <2>1 DEF Phases, LogPhase, TermPhase, PairPhase
  <2>6. AckPhase(n)' /\ SubPhase(n)' /\ DownPhase(n)'
    BY <1>1, <1>2, <2>1 DEF Phases, AckPhase, SubPhase, DownPhase
  <2> QED BY <1>3, <2>3, <2>4, <2>5, <2>6 DEF Phases
<1>11. CASE ApplyUpdate(k)
  <2>1. UNCHANGED <<logPipe, fwdPipe, p2r, r2p, termPipe, tcp, sub, rState, peerAcked,
                    haveRecvPairTerm, haveReplPairTerm>>
    BY <1>11 DEF ApplyUpdate, wireVars, recvFlags
  <2>2. \E loc \in {"poll", "apply"} : rPc' = [rPc EXCEPT ![k] = loc]
    BY <1>11 DEF ApplyUpdate, AfterApply
  <2>3. (rPc'[n] = "dedup" => rPc[n] = "dedup") /\ (rPc'[n] = "exit" => rPc[n] = "exit")
    BY <1>1, <2>2 DEF ControlTypes
  <2>4. BackPhase(n)' /\ ExitPhase(n)'
    BY <1>1, <1>2, <2>1, <2>3 DEF Phases, BackPhase, ExitPhase
  <2>5. LogPhase(n)' /\ TermPhase(n)' /\ PairPhase(n)'
    BY <1>1, <1>2, <2>1 DEF Phases, LogPhase, TermPhase, PairPhase
  <2>6. AckPhase(n)' /\ SubPhase(n)' /\ DownPhase(n)'
    BY <1>1, <1>2, <2>1 DEF Phases, AckPhase, SubPhase, DownPhase
  <2> QED BY <1>3, <2>4, <2>5, <2>6 DEF Phases
<1> QED BY <1>5, <1>6, <1>7, <1>8, <1>9, <1>10, <1>11 DEF ReceiverNext, ReceiverStep

(* The actions of the application.                                         *)
LEMMA ShutdownApplication ==
    ASSUME ShutdownInv, NEW k \in Nodes, ApplicationNext(k), NEW n \in Nodes
    PROVE  Phases(n)'
<1>1. ControlTypes /\ PipeTypes /\ Phases(n) /\ Phases(k)
    BY Types DEF ShutdownInv
<1>2. UNCHANGED <<timer, pState, pPc, updateStore, haveReceivedDsTerm,
                  haveRepliedDsTerm, haveStoppedTimer, haveStoppedRecv, rState,
                  rPc, peerAcked, haveRecvPairTerm, haveReplPairTerm>>
    BY DEF ApplicationNext, propVars, propStores, propFlags, recvVars, recvFlags
<1>3. thr \in [Nodes -> [Threads -> {"new", "idle", "inc", "sigRecv",
                         "waitProp", "waitRecv", "down", "gone"}]]
    BY DEF ShutdownInv, TypeInv, TypeOK, ApplicationTypeOK
<1>4. Main \in Threads
    BY ApplicationAssumption
<1>5. PropagatorPhase(n)' /\ ExitPhase(n)'
    BY <1>1, <1>2 DEF Phases, PropagatorPhase, ExitPhase
<1>6. UNCHANGED <<fwdPipe, p2r, r2p, tcp, sub>>
    BY DEF ApplicationNext, ApplicationStep, ShutDownStep, RegisterThr,
        DeregisterThr, PropagatorInc, Inc, SignalTermPropagator,
        SignalTermReceiver, WaitTermPropagator, WaitTermReceiver, wireVars
<1>7. PairPhase(n)' /\ AckPhase(n)' /\ BackPhase(n)'
    BY <1>1, <1>2, <1>6 DEF Phases, PairPhase, AckPhase, BackPhase
<1>8. SubPhase(n)' /\ DownPhase(n)'
    BY <1>1, <1>2, <1>6 DEF Phases, SubPhase, DownPhase
<1>9. SUFFICES LogPhase(n)' /\ TermPhase(n)'
    BY <1>5, <1>7, <1>8 DEF Phases
<1>10. CASE \E t \in Threads : RegisterThr(k, t) \/ DeregisterThr(k, t)
  <2>1. UNCHANGED <<logPipe, termPipe, pend>>
    BY <1>10 DEF RegisterThr, DeregisterThr, wireVars
  <2>2. /\ thr'[n][Main] \in {"new", "idle", "inc"} =>
                thr[n][Main] \in {"new", "idle", "inc"}
        /\ thr[n][Main] \in {"waitProp", "waitRecv", "down", "gone"} =>
                thr'[n][Main] \in {"waitProp", "waitRecv", "down", "gone"}
    BY <1>3, <1>4, <1>10 DEF RegisterThr, DeregisterThr, Goto
  <2> QED BY <1>1, <1>2, <2>1, <2>2 DEF Phases, LogPhase, TermPhase
<1>11. CASE \E t \in Threads : PropagatorInc(k, t)
  <2>1. PICK t \in Threads : PropagatorInc(k, t)
    BY <1>11
  <2> DEFINE q == logPipe[k][t] \o pend[k][t]
  <2>2. /\ thr[k][t] = "inc" /\ thr' = [thr EXCEPT ![k][t] = "idle"]
        /\ pend' = [pend EXCEPT ![k][t] = <<>>] /\ termPipe' = termPipe
        /\ \/ logPipe' = logPipe
           \/ pState[k] = "RUN" /\ logPipe' = [logPipe EXCEPT ![k][t] = q]
    BY <2>1 DEF PropagatorInc, Goto, Enqueue
  <2>3. TermPhase(n)'
    BY <1>1, <1>2, <1>3, <1>4, <2>2 DEF Phases, TermPhase
  <2>4. CASE n # k
    <3>1. logPipe'[n] = logPipe[n] /\ pend'[n] = pend[n] /\ thr'[n] = thr[n]
        BY <1>1, <1>3, <2>2, <2>4 DEF PipeTypes
    <3> QED BY <1>1, <1>2, <2>3, <3>1 DEF Phases, LogPhase
  <2>5. CASE n = k
    <3>1. LogPhase(k) /\ logPipe[k][t] \in Seq(LogMsg) /\ pend[k][t] \in Seq(LogMsg)
        BY <1>1 DEF Phases, PipeTypes
    <3>2. NoneIn(logPipe[k][t], "EPInternalTerminate")
        BY <1>4, <2>2, <3>1 DEF LogPhase
    <3>3. NoneIn(q, "EPInternalTerminate")
        BY <3>1, <3>2, PipeConcat DEF LogPhase
    <3> HIDE DEF q
    <3>4. \A th \in Threads : NoneIn(pend'[k][th], "EPInternalTerminate")
        <4>1. \A th \in Threads : pend'[k][th] = pend[k][th] \/ pend'[k][th] = <<>>
            BY <1>1, <2>2 DEF PipeTypes
        <4> QED BY <3>1, <4>1, PipeEmpty DEF LogPhase
    <3>5. \A th \in Threads :
            \/ logPipe'[k][th] = logPipe[k][th]
            \/ th = t /\ pState[k] = "RUN" /\ logPipe'[k][th] = q
        <4>1. CASE logPipe' = logPipe
            BY <4>1
        <4>2. CASE pState[k] = "RUN" /\ logPipe' = [logPipe EXCEPT ![k][t] = q]
            <5>1. logPipe'[k] = [logPipe[k] EXCEPT ![t] = q]
                BY <1>1, <4>2 DEF PipeTypes
            <5>2. logPipe[k] \in [Threads -> Seq(LogMsg)]
                BY <1>1 DEF PipeTypes
            <5> QED BY <4>2, <5>1, <5>2
        <4> QED BY <2>2, <4>1, <4>2
    <3>6. \A th \in Threads \ {Main} : NoneIn(logPipe'[k][th], "EPInternalTerminate")
        BY <3>1, <3>3, <3>5 DEF LogPhase
    <3>7. /\ LastOnly(logPipe'[k][Main], "EPInternalTerminate")
          /\ thr'[k][Main] \in {"new", "idle", "inc"} =>
                NoneIn(logPipe'[k][Main], "EPInternalTerminate")
          /\ pState[k] # "RUN" => logPipe'[k][Main] = <<>>
        <4>1. CASE logPipe'[k][Main] = logPipe[k][Main]
            <5>1. thr'[k][Main] \in {"new", "idle", "inc"} =>
                    thr[k][Main] \in {"new", "idle", "inc"}
                BY <1>3, <1>4, <2>2
            <5> QED BY <3>1, <4>1, <5>1 DEF LogPhase
        <4>2. CASE pState[k] = "RUN" /\ logPipe'[k][Main] = q
            BY <3>3, <4>2, NoneIsLast
        <4> QED BY <1>4, <3>5, <4>1, <4>2
    <3> QED BY <1>2, <2>3, <2>5, <3>4, <3>6, <3>7 DEF LogPhase
  <2> QED BY <2>4, <2>5
<1>12. CASE \E t \in Threads, table \in Tables, key \in Keys : Inc(k, t, table, key)
  <2>1. PICK t \in Threads, table \in Tables, key \in Keys : Inc(k, t, table, key)
    BY <1>12
  <2> DEFINE m == [type |-> "EPUpdateLog", table |-> table,
                   key |-> NarrowKey(key), delta |-> Delta(<<k, incs[k]>>)]
  <2>2. /\ thr[k][t] = "idle" /\ thr' = [thr EXCEPT ![k][t] = "inc"]
        /\ pend' = [pend EXCEPT ![k][t] = <<m>>]
        /\ UNCHANGED <<logPipe, termPipe>>
    BY <2>1 DEF Inc, Goto, wireVars
  <2>3. NoneIn(<<m>>, "EPInternalTerminate")
    BY DEF NoneIn
  <2> HIDE DEF m
  <2>4. \A th \in Threads : pend'[n][th] = pend[n][th] \/ pend'[n][th] = <<m>>
    BY <1>1, <2>2 DEF PipeTypes
  <2>5. \A th \in Threads : NoneIn(pend'[n][th], "EPInternalTerminate")
    BY <1>1, <2>3, <2>4 DEF Phases, LogPhase
  <2>6. /\ thr'[n][Main] \in {"new", "idle", "inc"} =>
                thr[n][Main] \in {"new", "idle", "inc"}
        /\ thr[n][Main] \in {"waitProp", "waitRecv", "down", "gone"} =>
                thr'[n][Main] \in {"waitProp", "waitRecv", "down", "gone"}
    BY <1>3, <1>4, <2>2
  <2> QED BY <1>1, <1>2, <2>2, <2>5, <2>6 DEF Phases, LogPhase, TermPhase
<1>13. CASE SignalTermPropagator(k)
  <2> DEFINE m == Msg("EPInternalTerminate")
  <2>1. /\ thr[k][Main] = "idle" /\ thr' = [thr EXCEPT ![k][Main] = "sigRecv"]
        /\ pState[k] = "RUN"
        /\ logPipe' = [logPipe EXCEPT ![k][Main] = Append(@, m)]
        /\ UNCHANGED <<termPipe, pend>>
    BY <1>13 DEF SignalTermPropagator, Goto
  <2> HIDE DEF m
  <2>2. TermPhase(n)'
    BY <1>1, <1>2, <1>3, <1>4, <2>1 DEF Phases, TermPhase
  <2>3. CASE n # k
    <3>1. logPipe'[n] = logPipe[n] /\ thr'[n] = thr[n]
        BY <1>1, <1>3, <2>1, <2>3 DEF PipeTypes
    <3> QED BY <1>1, <1>2, <2>1, <2>2, <3>1 DEF Phases, LogPhase
  <2>4. CASE n = k
    <3>1. /\ LogPhase(k) /\ logPipe[k][Main] \in Seq(LogMsg)
          /\ NoneIn(logPipe[k][Main], "EPInternalTerminate")
        BY <1>1, <1>4, <2>1 DEF Phases, LogPhase, PipeTypes
    <3>2. LastOnly(Append(logPipe[k][Main], m), "EPInternalTerminate")
        BY <3>1, PipeAppend
    <3>3. /\ logPipe'[k][Main] = Append(logPipe[k][Main], m)
          /\ \A th \in Threads \ {Main} : logPipe'[k][th] = logPipe[k][th]
          /\ thr'[k][Main] = "sigRecv"
        BY <1>1, <1>3, <1>4, <2>1 DEF PipeTypes
    <3> QED BY <1>2, <2>1, <2>2, <2>4, <3>1, <3>2, <3>3 DEF LogPhase
  <2> QED BY <2>3, <2>4
<1>14. CASE SignalTermReceiver(k)
  <2> DEFINE m == Msg("ERInternalTerminate")
  <2>1. /\ thr[k][Main] = "sigRecv" /\ thr' = [thr EXCEPT ![k][Main] = "waitProp"]
        /\ rState[k] = "RUN"
        /\ termPipe' = [termPipe EXCEPT ![k] = Append(@, m)]
        /\ UNCHANGED <<logPipe, pend>>
    BY <1>14 DEF SignalTermReceiver, Goto
  <2> HIDE DEF m
  <2>2. LogPhase(n)'
    <3>1. thr'[n][Main] \in {"new", "idle", "inc"} =>
            thr[n][Main] \in {"new", "idle", "inc"}
        BY <1>3, <1>4, <2>1
    <3> QED BY <1>1, <1>2, <2>1, <3>1 DEF Phases, LogPhase
  <2>3. CASE n # k
    <3>1. termPipe'[n] = termPipe[n] /\ thr'[n] = thr[n]
        BY <1>1, <1>3, <2>1, <2>3 DEF PipeTypes
    <3> QED BY <1>1, <1>2, <2>2, <3>1 DEF Phases, TermPhase
  <2>4. CASE n = k
    <3>1. termPipe[k] = <<>> /\ termPipe[k] \in Seq(TermMsg)
        BY <1>1, <2>1 DEF Phases, TermPhase, PipeTypes
    <3>2. Len(Append(termPipe[k], m)) = 1
        BY <3>1, PipeAppend
    <3>3. termPipe'[k] = Append(termPipe[k], m) /\ thr'[k][Main] = "waitProp"
        BY <1>1, <1>3, <1>4, <2>1 DEF PipeTypes
    <3> QED BY <1>2, <2>1, <2>2, <2>4, <3>2, <3>3 DEF TermPhase
  <2> QED BY <2>3, <2>4
<1>15. CASE WaitTermPropagator(k) \/ WaitTermReceiver(k)
  <2>1. UNCHANGED <<logPipe, termPipe, pend>>
    BY <1>15 DEF WaitTermPropagator, WaitTermReceiver, wireVars
  <2>2. /\ thr'[n][Main] \in {"new", "idle", "inc"} =>
                thr[n][Main] \in {"new", "idle", "inc"}
        /\ thr[n][Main] \in {"waitProp", "waitRecv", "down", "gone"} =>
                thr'[n][Main] \in {"waitProp", "waitRecv", "down", "gone"}
    BY <1>3, <1>4, <1>15 DEF WaitTermPropagator, WaitTermReceiver, Goto
  <2> QED BY <1>1, <1>2, <2>1, <2>2 DEF Phases, LogPhase, TermPhase
<1> QED BY <1>10, <1>11, <1>12, <1>13, <1>14, <1>15
        DEF ApplicationNext, ApplicationStep, ShutDownStep

(* The invariant is inductive.                                             *)
LEMMA ShutdownStep == ShutdownInv /\ [Next]_vars => ShutdownInv'
<1>1. ASSUME ShutdownInv, UNCHANGED vars PROVE \A n \in Nodes : Phases(n)'
    BY <1>1 DEF ShutdownInv, Phases, PropagatorPhase, LogPhase, TermPhase,
        PairPhase, AckPhase, BackPhase, SubPhase, DownPhase, ExitPhase, vars,
        wireVars, propVars, propStores, propFlags, recvVars, recvFlags, appVars
<1>2. ASSUME ShutdownInv, Next PROVE \A n \in Nodes : Phases(n)'
    BY <1>1, <1>2, ShutdownTimer, ShutdownPropagator, ShutdownReceiver,
        ShutdownApplication DEF Next, Stop
<1> QED BY <1>1, <1>2, TypeStep DEF ShutdownInv

(* The invariant holds in every reachable state.                           *)
LEMMA ShutdownInvariant == Spec => []ShutdownInv
BY ShutdownInit, ShutdownStep, PTL DEF Spec

-----------------------------------------------------------------------------
(* Every receiver thread returns with its sockets drained: the guarantee   *)
(* of receiver.hpp, for any number of upstream nodes.                      *)
THEOREM ReceiverDrained == Spec => []ReceiverExitsDrained
<1>1. ShutdownInv => ReceiverExitsDrained
  <2> SUFFICES ASSUME ShutdownInv, NEW n \in Nodes, rPc[n] = "exit"
               PROVE  /\ InternalSockEmpty(n)
                      /\ \A m \in Upstream(n) : tcp[m] = <<>>
    BY DEF ReceiverExitsDrained
  <2>1. haveReplPairTerm[n] /\ Upstream(n) \subseteq peerAcked[n]
    BY DEF ShutdownInv, Phases, ExitPhase
  <2>2. InternalSockEmpty(n)
    BY <2>1 DEF ShutdownInv, Phases, PairPhase, TermPhase, InternalSockEmpty
  <2>3. ASSUME NEW m \in Upstream(n) PROVE tcp[m] = <<>>
    <3>1. m \in Nodes /\ HasDownstream(m) /\ Downstream[m] = n
        BY DownstreamType DEF Upstream
    <3> QED BY <2>1, <3>1 DEF ShutdownInv, Phases, DownPhase
  <2> QED BY <2>2, <2>3
<1> QED BY <1>1, ShutdownInvariant, PTL

(* Every propagator thread returns with nothing left from its receiver,    *)
(* its downstream receiver, its timer and the thread that called ShutDown. *)
THEOREM PropagatorDrained == Spec => []PropagatorExitsDrained
<1>1. ShutdownInv => PropagatorExitsDrained
  <2> SUFFICES ASSUME ShutdownInv, NEW n \in Nodes, pPc[n] = "exit"
               PROVE  /\ fwdPipe[n] = <<>> /\ r2p[n] = <<>> /\ sub[n] = <<>>
                      /\ logPipe[n][Main] = <<>>
                      /\ timer[n] = "exited"
    BY DEF PropagatorExitsDrained
  <2>1. /\ haveStoppedTimer[n] /\ haveStoppedRecv[n] /\ haveRepliedDsTerm[n]
        /\ timer[n] = "exited" /\ pState[n] # "RUN"
    BY DEF ShutdownInv, Phases, PropagatorPhase
  <2>2. fwdPipe[n] = <<>> /\ r2p[n] = <<>>
    BY <2>1 DEF ShutdownInv, Phases, BackPhase, AckPhase
  <2>3. sub[n] = <<>>
    BY <2>1 DEF ShutdownInv, Phases, SubPhase, DownPhase
  <2>4. logPipe[n][Main] = <<>>
    BY <2>1 DEF ShutdownInv, Phases, LogPhase
  <2> QED BY <2>1, <2>2, <2>3, <2>4
<1> QED BY <1>1, ShutdownInvariant, PTL

(* A propagator never waits for the EMyUpdatesACK of a receiver that has   *)
(* returned.                                                               *)
THEOREM AckComing == Spec => []AckIsComing
<1>1. ShutdownInv => AckIsComing
    BY DEF ShutdownInv, Phases, PropagatorPhase, PairPhase, ExitPhase, AckIsComing
<1> QED BY <1>1, ShutdownInvariant, PTL

(* A propagator sends nothing downstream after its EPRTerminateACK: the    *)
(* promise of propagator.hpp, of every step of every execution.            *)
THEOREM SilentAfterAck == Spec => NothingAfterAck
<1> DEFINE Silent == \A n \in Nodes :
            (HasDownstream(n) /\ haveRepliedDsTerm[n]) => Len(tcp'[n]) <= Len(tcp[n])
<1>1. ASSUME ShutdownInv, Next PROVE Silent
  <2> SUFFICES ASSUME NEW n \in Nodes, HasDownstream(n), haveRepliedDsTerm[n]
               PROVE  Len(tcp'[n]) <= Len(tcp[n])
    OBVIOUS
  <2>1. /\ PipeTypes /\ tcp[n] \in Seq(TcpMsg) /\ Len(tcp[n]) \in Nat
        /\ pState[n] # "RUN" /\ haveReceivedDsTerm[n] /\ sub[n] = <<>>
        /\ pPc[n] \notin {"ack", "send"} /\ logPipe[n][Main] = <<>>
        /\ \A t \in Threads \ {Main} :
                NoneIn(logPipe[n][t], "EPInternalTerminate")
    <3>1. PipeTypes /\ Phases(n)
        BY <1>1, Types DEF ShutdownInv
    <3>2. tcp[n] \in Seq(TcpMsg) /\ Len(tcp[n]) \in Nat
        BY <3>1, LenProperties DEF PipeTypes
    <3>3. pState[n] # "RUN" /\ haveReceivedDsTerm[n]
        BY <3>1 DEF Phases, DownPhase
    <3>4. sub[n] = <<>> /\ pPc[n] \notin {"ack", "send"}
        BY <3>1, <3>3 DEF Phases, SubPhase, PropagatorPhase
    <3> QED BY <3>1, <3>2, <3>3, <3>4 DEF Phases, LogPhase
  <2>2. tcp'[n] = tcp[n] \/ (tcp[n] # <<>> /\ tcp'[n] = Tail(tcp[n]))
    <3>1. CASE tcp' = tcp
        BY <3>1
    <3>2. CASE \E k \in Nodes : SendBuffer(k)
        BY <2>1, <3>2 DEF SendBuffer, PipeTypes
    <3>3. CASE \E k \in Nodes, t \in Threads : RecvInternalTerminate(k, t)
        <4>1. PICK k \in Nodes, t \in Threads : RecvInternalTerminate(k, t)
            BY <3>3
        <4>2. k # n
            <5>1. SUFFICES ASSUME k = n PROVE FALSE
                OBVIOUS
            <5>2. /\ logPipe[n][t] # <<>> /\ logPipe[n][t] \in Seq(LogMsg)
                  /\ Head(logPipe[n][t]).type = "EPInternalTerminate"
                BY <2>1, <4>1, <5>1 DEF RecvInternalTerminate, IsNext, PipeTypes
            <5>3. ~NoneIn(logPipe[n][t], "EPInternalTerminate")
                BY <5>2, PipeTail
            <5> QED BY <2>1, <5>2, <5>3
        <4>3. \/ tcp' = tcp
              \/ tcp' = [tcp EXCEPT ![k] = Append(@, TermAck(k))]
            BY <4>1 DEF RecvInternalTerminate
        <4> QED BY <2>1, <4>2, <4>3 DEF PipeTypes
    <3>4. CASE \E k \in Nodes : RecvEPRTerminate(k)
        <4>1. PICK k \in Nodes : RecvEPRTerminate(k)
            BY <3>4
        <4>2. k # n
            BY <2>1, <4>1 DEF RecvEPRTerminate, IsNext
        <4>3. \/ tcp' = tcp
              \/ tcp' = [tcp EXCEPT ![k] = Append(@, TermAck(k))]
            BY <4>1 DEF RecvEPRTerminate
        <4> QED BY <2>1, <4>2, <4>3 DEF PipeTypes
    <3>5. CASE \E k \in Nodes, m \in Nodes :
                RecvUpdateBuffer(k, m) \/ RecvTerminateACK(k, m)
        <4>1. PICK k \in Nodes, m \in Nodes :
                RecvUpdateBuffer(k, m) \/ RecvTerminateACK(k, m)
            BY <3>5
        <4>2. tcp[m] # <<>> /\ tcp' = [tcp EXCEPT ![m] = Tail(@)]
            BY <4>1 DEF RecvUpdateBuffer, RecvTerminateACK, IsNext
        <4> QED BY <2>1, <4>2 DEF PipeTypes
    <3>6. \/ tcp' = tcp
          \/ \E k \in Nodes : SendBuffer(k)
          \/ \E k \in Nodes, t \in Threads : RecvInternalTerminate(k, t)
          \/ \E k \in Nodes : RecvEPRTerminate(k)
          \/ \E k \in Nodes, m \in Nodes :
                RecvUpdateBuffer(k, m) \/ RecvTerminateACK(k, m)
        <4>1. CASE Stop \/ \E k \in Nodes : TimerNext(k)
            BY <4>1 DEF Stop, vars, wireVars, TimerNext, TimerStep
        <4>2. CASE \E k \in Nodes : PropagatorNext(k)
            <5>1. PICK k \in Nodes : PropagatorStep(k)
                BY <4>2 DEF PropagatorNext
            <5>2. TimerTick(k) \/ JoinTimer(k) => tcp' = tcp
                BY DEF TimerTick, JoinTimer, wireVars
            <5>3. (\E t \in Tables : FlushTable(k, t)) => tcp' = tcp
                BY DEF FlushTable
            <5>4. (\E t \in Threads : RecvUpdateLog(k, t)) => tcp' = tcp
                BY DEF RecvUpdateLog
            <5>5. RecvPUpdateBuffer(k) \/ RecvInternalTerminateACK(k) => tcp' = tcp
                BY DEF RecvPUpdateBuffer, RecvInternalTerminateACK
            <5> QED BY <5>1, <5>2, <5>3, <5>4, <5>5 DEF PropagatorStep
        <4>3. CASE \E k \in Nodes : ReceiverNext(k)
            BY <4>3 DEF ReceiverNext, ReceiverStep, RecvMyUpdates, wireVars,
                RecvERInternalTerminate, RecvEPRInternalTerminate, Dedup, ApplyUpdate
        <4>4. CASE \E k \in Nodes : ApplicationNext(k)
            BY <4>4 DEF ApplicationNext, ApplicationStep, ShutDownStep,
                RegisterThr, DeregisterThr, PropagatorInc, Inc,
                SignalTermPropagator, SignalTermReceiver, WaitTermPropagator,
                WaitTermReceiver, wireVars
        <4> QED BY <1>1, <4>1, <4>2, <4>3, <4>4 DEF Next
    <3> QED BY <3>1, <3>2, <3>3, <3>4, <3>5, <3>6
  <2>3. tcp[n] # <<>> => Len(Tail(tcp[n])) = Len(tcp[n]) - 1
    BY <2>1, HeadTailProperties
  <2>4. Len(tcp[n]) \in Nat
    BY <2>1
  <2>5. CASE tcp'[n] = tcp[n]
    BY <2>4, <2>5
  <2>6. CASE tcp[n] # <<>> /\ tcp'[n] = Tail(tcp[n])
    BY <2>3, <2>4, <2>6
  <2> QED BY <2>2, <2>5, <2>6
<1>2. ShutdownInv /\ [Next]_vars => [Silent]_vars
    BY <1>1
<1> QED BY <1>2, ShutdownInvariant, PTL DEF Spec, NothingAfterAck
=============================================================================
