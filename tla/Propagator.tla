----------------------------- MODULE Propagator -----------------------------
(***************************************************************************)
(* comm/propagator: the thread that batches the updates of its node and     *)
(* those forwarded by the paired receiver, and sends a batch downstream at  *)
(* every timer trigger.                                                     *)
(*                                                                          *)
(* The loop of PropagatorThrMain polls three sockets and serves the first   *)
(* ready one in the order timer, updates, termination.  Each branch is an   *)
(* action whose guard says that the sockets of higher priority are empty.   *)
(* (A message that arrives on one of those between the poll and the branch  *)
(* commutes with the branch, so the poll needs no step of its own.)         *)
(*                                                                          *)
(* pPc: "poll"  in the loop;  "flush"  in the loop over the tables of the   *)
(* timer branch;  "ack"  waiting for EMyUpdatesACK;  "send"  about to send  *)
(* the buffer;  "join"  in timer.WaitStop();  "exit"  returned.             *)
(***************************************************************************)
EXTENDS Timer, Functions

VARIABLES
    pState,              \* state_
    pPc,
    updateStore,         \* update_store
    myUpdateStore,       \* my_update_store
    myUpdateRange,       \* my_update_range
    peerUpdateRange,     \* table_peers_update_range
    haveReceivedDsTerm,  \* have_received_ds_term
    haveRepliedDsTerm,   \* have_replied_ds_term
    haveStoppedTimer,    \* have_stopped_timer_thr
    haveStoppedRecv,     \* have_stopped_recv_thr
    flushTodo,           \* tables left in the loop of the timer branch
    outBuff              \* update_buff, as the message that will carry it

propFlags ==
    <<haveReceivedDsTerm, haveRepliedDsTerm, haveStoppedTimer, haveStoppedRecv>>

propStores == <<updateStore, myUpdateStore, myUpdateRange, peerUpdateRange>>

propVars == <<pState, pPc, propStores, propFlags, flushTodo, outBuff>>

PropagatorTypeOK ==
    /\ pState \in [Nodes -> {"RUN", "TERM_PREP", "TERM"}]
    /\ pPc \in [Nodes -> {"poll", "flush", "ack", "send", "join", "exit"}]
    /\ updateStore \in [Nodes -> [Tables -> Store]]
    /\ myUpdateStore \in [Nodes -> [Tables -> Store]]
    /\ myUpdateRange \in [Nodes -> [Tables -> UpdateRange]]
    /\ peerUpdateRange \in [Nodes -> [Tables -> PeerRanges]]
    /\ haveReceivedDsTerm \in [Nodes -> BOOLEAN]
    /\ haveRepliedDsTerm \in [Nodes -> BOOLEAN]
    /\ haveStoppedTimer \in [Nodes -> BOOLEAN]
    /\ haveStoppedRecv \in [Nodes -> BOOLEAN]
    /\ flushTodo \in [Nodes -> SUBSET Tables]
    /\ outBuff \in [Nodes -> Seq(UpdateBufferMsg)]

(* The state after the handshakes, when the thread enters its loop.  The   *)
(* reply to a downstream receiver is taken as given when there is none.    *)
PropagatorInit ==
    /\ pState = [n \in Nodes |-> "RUN"]
    /\ pPc = [n \in Nodes |-> "poll"]
    /\ updateStore = [n \in Nodes |-> [t \in Tables |-> EmptyStore]]
    /\ myUpdateStore = [n \in Nodes |-> [t \in Tables |-> EmptyStore]]
    /\ myUpdateRange = [n \in Nodes |-> [t \in Tables |-> Span(0, -1)]]
    /\ peerUpdateRange = [n \in Nodes |-> [t \in Tables |->
            [known |-> {}, range |-> [p \in Nodes |-> Span(0, -1)]]]]
    /\ haveReceivedDsTerm = [n \in Nodes |-> FALSE]
    /\ haveRepliedDsTerm = [n \in Nodes |-> ~HasDownstream(n)]
    /\ haveStoppedTimer = [n \in Nodes |-> FALSE]
    /\ haveStoppedRecv = [n \in Nodes |-> FALSE]
    /\ flushTodo = [n \in Nodes |-> {}]
    /\ outBuff = [n \in Nodes |-> <<>>]

-----------------------------------------------------------------------------
UpdateSockEmpty(n) ==
    /\ fwdPipe[n] = <<>>
    /\ \A t \in Threads : logPipe[n][t] = <<>>

Polling(n) == Alive(n) /\ pPc[n] = "poll"

(* The update branch is taken when the timer has not triggered.            *)
UpdateBranch(n) == Polling(n) /\ timer[n] # "triggered"

(* The termination branch when there is no message on the update socket    *)
(* either.                                                                 *)
TermBranch(n) == UpdateBranch(n) /\ UpdateSockEmpty(n)

(* Mutant of MayExit: the receiver is forgotten.                           *)
ExitBeforeReceiver(stoppedTimer, stoppedRecv, repliedDs) ==
    stoppedTimer /\ repliedDs

(* The thread returns, in each of the three branches, when all parties are *)
(* done with it; otherwise it goes back to the poll.                       *)
MayExit(stoppedTimer, stoppedRecv, repliedDs) ==
    stoppedTimer /\ stoppedRecv /\ repliedDs

ExitIf(n, done) ==
    /\ pState' = [pState EXCEPT ![n] = IF done THEN "TERM" ELSE @]
    /\ pPc' = [pPc EXCEPT ![n] = IF done THEN "exit" ELSE "poll"]

-----------------------------------------------------------------------------
(* The timer branch.                                                       *)

AfterFlush(n) == IF pState[n] = "TERM_PREP" THEN "join" ELSE "poll"

(* Mutant of TimerCmd: the timer is never told to stop.                    *)
KeepTimer(n) == "cmd_run"

(* The interval in the answer to a trigger: nanosec_, or 0 to stop.        *)
TimerCmd(n) == IF pState[n] = "RUN" THEN "cmd_run" ELSE "cmd_stop"

(* The trigger is received and answered, and the loop over the tables with *)
(* updates starts.                                                         *)
TimerTick(n) ==
    /\ Polling(n)
    /\ timer[n] = "triggered"
    /\ timer' = [timer EXCEPT ![n] = TimerCmd(n)]
    /\ LET todo == {t \in Tables : updateStore[n][t].keys # {}}
       IN  /\ flushTodo' = [flushTodo EXCEPT ![n] = todo]
           /\ pPc' = [pPc EXCEPT ![n] =
                        IF todo = {} THEN AfterFlush(n) ELSE "flush"]
    /\ UNCHANGED <<wireVars, fatal, pState, propStores, propFlags, outBuff>>

(* The peers with updates that were not sent yet, in the order of an       *)
(* unordered_map: any order.                                               *)
NewPeers(n, t) ==
    LET peers == peerUpdateRange[n][t]
    IN  {p \in peers.known : peers.range[p].st <= peers.range[p].end}

Orders(S) == Bijection(1 .. Cardinality(S), S)

NodeSlot(id, range) == [id |-> id, st |-> range.st, end |-> range.end]

HasOwnRange(n, t) == myUpdateRange[n][t].st <= myUpdateRange[n][t].end

(* The slots of a new buffer after UpdateNodeRange for each new peer and,  *)
(* last, for the node itself; its capacity counts all peers, so slots may  *)
(* stay free.                                                              *)
FlushSlots(n, t, order) ==
    LET peers == [i \in DOMAIN order |->
                    NodeSlot(order[i], peerUpdateRange[n][t].range[order[i]])]
        own   == IF HasOwnRange(n, t)
                 THEN <<NodeSlot(n, myUpdateRange[n][t])>> ELSE <<>>
        slots == peers \o own
    IN  [i \in 1 .. Cardinality(peerUpdateRange[n][t].known) + 1 |->
            IF i <= Len(slots) THEN slots[i] ELSE FreeSlot]

(* One iteration of the loop up to EMyUpdates: the updates and ranges of   *)
(* the table move to a buffer, and on a loop table the paired receiver is  *)
(* told the part of it that is the node's own.                             *)
FlushTable(n, t) ==
    /\ Alive(n)
    /\ pPc[n] = "flush"
    /\ t \in flushTodo[n]
    /\ \E order \in Orders(NewPeers(n, t)) :
        outBuff' = [outBuff EXCEPT ![n] =
            <<BuffMsg("EPRUpdateBuffer", t,
                [ranges |-> FlushSlots(n, t, order),
                 updates |-> updateStore[n][t]])>>]
    /\ updateStore' = [updateStore EXCEPT ![n][t] = EmptyStore]
    /\ peerUpdateRange' = [peerUpdateRange EXCEPT ![n][t].range =
            [p \in Nodes |-> IF p \in NewPeers(n, t)
                                THEN Advance(@[p]) ELSE @[p]]]
    /\ IF t \in Loop[n] /\ myUpdateStore[n][t].keys # {}
       THEN /\ p2r' = [p2r EXCEPT ![n] = Append(@,
                BuffMsg("EMyUpdates", t,
                    [ranges |-> <<NodeSlot(n, myUpdateRange[n][t])>>,
                     updates |-> myUpdateStore[n][t]]))]
            /\ myUpdateStore' = [myUpdateStore EXCEPT ![n][t] = EmptyStore]
            /\ pPc' = [pPc EXCEPT ![n] = "ack"]
            /\ fatal' = [fatal EXCEPT ![n] =
                    IF HasOwnRange(n, t) THEN @ ELSE "my_update_range"]
       ELSE /\ pPc' = [pPc EXCEPT ![n] = "send"]
            /\ UNCHANGED <<p2r, myUpdateStore, fatal>>
    /\ UNCHANGED <<logPipe, fwdPipe, r2p, termPipe, tcp, sub, timer, pState,
                   myUpdateRange, propFlags, flushTodo>>

(* The rest of the iteration: EMyUpdatesACK has arrived if it is awaited,  *)
(* the node's own range is advanced and the buffer is sent.  A node with   *)
(* no downstream receiver has no socket to send it on.                     *)
SendBuffer(n) ==
    /\ Alive(n)
    /\ \/ pPc[n] = "send" /\ UNCHANGED r2p
       \/ /\ pPc[n] = "ack" /\ r2p[n] # <<>>
          /\ r2p' = [r2p EXCEPT ![n] = Tail(@)]
    /\ LET t    == Head(outBuff[n]).table
           todo == flushTodo[n] \ {t}
       IN  /\ myUpdateRange' = [myUpdateRange EXCEPT ![n][t] = Advance(@)]
           /\ flushTodo' = [flushTodo EXCEPT ![n] = todo]
           /\ pPc' = [pPc EXCEPT ![n] =
                        IF todo = {} THEN AfterFlush(n) ELSE "flush"]
    /\ IF HasDownstream(n)
       THEN tcp' = [tcp EXCEPT ![n] = Enqueue(@, outBuff[n])] /\ UNCHANGED fatal
       ELSE fatal' = [fatal EXCEPT ![n] = "prop_push_sock"] /\ UNCHANGED tcp
    /\ outBuff' = [outBuff EXCEPT ![n] = <<>>]
    /\ UNCHANGED <<logPipe, fwdPipe, p2r, termPipe, sub, timer, pState,
                   updateStore, myUpdateStore, peerUpdateRange, propFlags>>

(* timer.WaitStop() returns: the exit path of the timer branch.            *)
JoinTimer(n) ==
    /\ Alive(n)
    /\ pPc[n] = "join"
    /\ timer[n] = "exited"
    /\ haveStoppedTimer' = [haveStoppedTimer EXCEPT ![n] = TRUE]
    /\ ExitIf(n, MayExit(TRUE, haveStoppedRecv[n], haveRepliedDsTerm[n]))
    /\ UNCHANGED <<wireVars, fatal, timer, propStores, haveReceivedDsTerm,
                   haveRepliedDsTerm, haveStoppedRecv, flushTodo, outBuff>>

-----------------------------------------------------------------------------
(* The update branch.                                                      *)

(* EPUpdateLog: an Inc of application thread t.  It is dropped once        *)
(* terminating; without a batch interval only its number is counted.       *)
RecvUpdateLog(n, t) ==
    /\ UpdateBranch(n)
    /\ IsNext(logPipe[n][t], "EPUpdateLog")
    /\ logPipe' = [logPipe EXCEPT ![n][t] = Tail(@)]
    /\ LET m       == Head(logPipe[n][t])
           running == pState[n] = "RUN"
           stored  == running /\ n \in Batched
       IN  /\ myUpdateRange' = IF running
                THEN [myUpdateRange EXCEPT ![n][m.table].end = @ + 1]
                ELSE myUpdateRange
           /\ updateStore' = IF stored
                THEN [updateStore EXCEPT ![n][m.table] =
                        AddUpdate(@, m.key, m.delta)]
                ELSE updateStore
           /\ myUpdateStore' = IF stored /\ m.table \in Loop[n]
                THEN [myUpdateStore EXCEPT ![n][m.table] =
                        AddUpdate(@, m.key, m.delta)]
                ELSE myUpdateStore
    /\ UNCHANGED <<fwdPipe, p2r, r2p, termPipe, tcp, sub, fatal, timer, pState,
                   pPc, peerUpdateRange, propFlags, flushTodo, outBuff>>

(* EPUpdateBuffer: a buffer forwarded by the paired receiver.  Its updates *)
(* are added to the store and the ranges the iteration yields to those of  *)
(* the peers; the range of a known peer must continue the last one.        *)
MergeRanges(peers, b) ==
    LET ids == {b.ranges[i].id : i \in Visited(b)}
    IN  [known |-> peers.known \cup ids,
         range |-> [p \in Nodes |->
            CASE p \notin ids -> peers.range[p]
              [] p \in ids \ peers.known -> GetNodeRange(b, p)
              [] p \in ids \cap peers.known ->
                    Span(peers.range[p].st, GetNodeRange(b, p).end)]]

Contiguous(peers, b) ==
    \A i \in Visited(b) : b.ranges[i].id \in peers.known =>
        peers.range[b.ranges[i].id].end + 1 = b.ranges[i].st

RecvPUpdateBuffer(n) ==
    /\ UpdateBranch(n)
    /\ IsNext(fwdPipe[n], "EPUpdateBuffer")
    /\ fwdPipe' = [fwdPipe EXCEPT ![n] = Tail(@)]
    /\ LET m == Head(fwdPipe[n])
       IN  IF pState[n] = "RUN"
           THEN /\ updateStore' = [updateStore EXCEPT ![n][m.table] =
                        AddUpdates(@, m.buff.updates)]
                /\ peerUpdateRange' = [peerUpdateRange EXCEPT ![n][m.table] =
                        MergeRanges(@, m.buff)]
                /\ fatal' = [fatal EXCEPT ![n] =
                        IF Contiguous(peerUpdateRange[n][m.table], m.buff)
                        THEN @ ELSE "contiguous"]
           ELSE UNCHANGED <<updateStore, peerUpdateRange, fatal>>
    /\ UNCHANGED <<logPipe, p2r, r2p, termPipe, tcp, sub, timer, pState, pPc,
                   myUpdateStore, myUpdateRange, propFlags, flushTodo, outBuff>>

(* Mutant of TermAck: the acknowledgement does not say whose it is.        *)
AnonymousAck(n) == [type |-> "EPRTerminateACK", node |-> NoNode]

TermAck(n) == [type |-> "EPRTerminateACK", node |-> n]

(* The downstream receiver asked for termination before the application    *)
(* did.                                                                    *)
ReplyDue(n) == haveReceivedDsTerm[n]

(* EPInternalTerminate: the application calls ShutDown.                    *)
RecvInternalTerminate(n, t) ==
    /\ UpdateBranch(n)
    /\ IsNext(logPipe[n][t], "EPInternalTerminate")
    /\ logPipe' = [logPipe EXCEPT ![n][t] = Tail(@)]
    /\ pState' = [pState EXCEPT ![n] = "TERM_PREP"]
    /\ IF ReplyDue(n)
       THEN /\ tcp' = [tcp EXCEPT ![n] = Append(@, TermAck(n))]
            /\ haveRepliedDsTerm' = [haveRepliedDsTerm EXCEPT ![n] = TRUE]
       ELSE UNCHANGED <<tcp, haveRepliedDsTerm>>
    /\ p2r' = [p2r EXCEPT ![n] = Append(@, Msg("EPRInternalTerminate"))]
    /\ updateStore' =
        [updateStore EXCEPT ![n] = [tb \in Tables |-> EmptyStore]]
    /\ UNCHANGED <<fwdPipe, r2p, termPipe, sub, fatal, timer, pPc,
                   myUpdateStore, myUpdateRange, peerUpdateRange,
                   haveReceivedDsTerm, haveStoppedTimer, haveStoppedRecv,
                   flushTodo, outBuff>>

(* EPRecvInternalTerminateACK: the paired receiver forwards nothing more.  *)
RecvInternalTerminateACK(n) ==
    /\ UpdateBranch(n)
    /\ IsNext(fwdPipe[n], "EPRecvInternalTerminateACK")
    /\ fwdPipe' = [fwdPipe EXCEPT ![n] = Tail(@)]
    /\ haveStoppedRecv' = [haveStoppedRecv EXCEPT ![n] = TRUE]
    /\ ExitIf(n, MayExit(haveStoppedTimer[n], TRUE, haveRepliedDsTerm[n]))
    /\ UNCHANGED <<logPipe, p2r, r2p, termPipe, tcp, sub, fatal, timer,
                   propStores, haveReceivedDsTerm, haveRepliedDsTerm,
                   haveStoppedTimer, flushTodo, outBuff>>

-----------------------------------------------------------------------------
(* Mutant of MayReplyDs: reply while still running.                        *)
ReplyAnyTime(n) == TRUE

MayReplyDs(n) == pState[n] = "TERM_PREP"

(* The termination branch: EPRTerminate from the downstream receiver.  The *)
(* acknowledgement is sent at once when the node itself is terminating,    *)
(* otherwise it waits for EPInternalTerminate.                             *)
RecvEPRTerminate(n) ==
    /\ TermBranch(n)
    /\ IsNext(sub[n], "EPRTerminate")
    /\ sub' = [sub EXCEPT ![n] = Tail(@)]
    /\ haveReceivedDsTerm' = [haveReceivedDsTerm EXCEPT ![n] = TRUE]
    /\ IF MayReplyDs(n)
       THEN /\ tcp' = [tcp EXCEPT ![n] = Append(@, TermAck(n))]
            /\ haveRepliedDsTerm' = [haveRepliedDsTerm EXCEPT ![n] = TRUE]
            /\ ExitIf(n, MayExit(haveStoppedTimer[n], haveStoppedRecv[n], TRUE))
       ELSE UNCHANGED <<tcp, haveRepliedDsTerm, pState, pPc>>
    /\ UNCHANGED <<logPipe, fwdPipe, p2r, r2p, termPipe, fatal, timer,
                   propStores, haveStoppedTimer, haveStoppedRecv, flushTodo,
                   outBuff>>

PropagatorStep(n) ==
    \/ TimerTick(n)
    \/ \E t \in Tables : FlushTable(n, t)
    \/ SendBuffer(n)
    \/ JoinTimer(n)
    \/ \E t \in Threads : RecvUpdateLog(n, t) \/ RecvInternalTerminate(n, t)
    \/ RecvPUpdateBuffer(n)
    \/ RecvInternalTerminateACK(n)
    \/ RecvEPRTerminate(n)
=============================================================================
