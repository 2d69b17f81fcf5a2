------------------------------ MODULE Receiver ------------------------------
(***************************************************************************)
(* comm/receiver: the thread that takes the buffers of the upstream         *)
(* propagators, removes its node's own updates from them, forwards them to  *)
(* the paired propagator and applies them to the table.                     *)
(*                                                                          *)
(* As in the propagator, each branch of the poll loop is an action, and the *)
(* internal socket has priority over the update socket.                     *)
(*                                                                          *)
(* rPc: "poll"  in the loop;  "dedup"  in the loop that removes the node's  *)
(* own updates from recvBuff;  "apply"  in the loop that applies a buffer,  *)
(* which the paired propagator has already got;  "exit"  returned.          *)
(***************************************************************************)
EXTENDS InternalTable

VARIABLES
    rState,            \* state_
    rPc,
    myUpdates,         \* my_updates[n][t]: queue of buffers of own updates
    hasMyUpdates,      \* the tables with an entry in my_updates
    peerAcked,         \* peers with has_replied_termination_
    haveRecvPairTerm,  \* have_received_prop_pair_term
    haveReplPairTerm,  \* have_replied_prop_pair_term
    recvBuff,          \* recv_update_buff, as the message that carried it
    seqNum,            \* seq_num, 0 outside the loop
    toApply            \* toApply[n][t]: the updates still to be applied

recvFlags == <<peerAcked, haveRecvPairTerm, haveReplPairTerm>>

recvVars == <<rState, rPc, myUpdates, hasMyUpdates, recvFlags, recvBuff, seqNum,
              toApply>>

ReceiverTypeOK ==
    /\ rState \in [Nodes -> {"RUN", "TERM_SELF", "TERM"}]
    /\ rPc \in [Nodes -> {"poll", "dedup", "apply", "exit"}]
    /\ myUpdates \in [Nodes -> [Tables -> Seq(Buffer)]]
    /\ hasMyUpdates \in [Nodes -> SUBSET Tables]
    /\ peerAcked \in [Nodes -> SUBSET Nodes]
    /\ haveRecvPairTerm \in [Nodes -> BOOLEAN]
    /\ haveReplPairTerm \in [Nodes -> BOOLEAN]
    /\ recvBuff \in [Nodes -> Seq(UpdateBufferMsg)]
    /\ seqNum \in [Nodes -> Int]
    /\ toApply \in [Nodes -> [Tables -> Store]]

(* The state after the handshakes: every upstream propagator has an entry  *)
(* in peer_prop_info, none of them has acknowledged termination.           *)
ReceiverInit ==
    /\ rState = [n \in Nodes |-> "RUN"]
    /\ rPc = [n \in Nodes |-> "poll"]
    /\ myUpdates = [n \in Nodes |-> [t \in Tables |-> <<>>]]
    /\ hasMyUpdates = [n \in Nodes |-> {}]
    /\ peerAcked = [n \in Nodes |-> {}]
    /\ haveRecvPairTerm = [n \in Nodes |-> FALSE]
    /\ haveReplPairTerm = [n \in Nodes |-> FALSE]
    /\ recvBuff = [n \in Nodes |-> <<>>]
    /\ seqNum = [n \in Nodes |-> 0]
    /\ toApply = [n \in Nodes |-> [t \in Tables |-> EmptyStore]]

-----------------------------------------------------------------------------
InternalSockEmpty(n) == p2r[n] = <<>> /\ termPipe[n] = <<>>

InternalBranch(n) == Alive(n) /\ rPc[n] = "poll"

UpdateSockBranch(n) == InternalBranch(n) /\ InternalSockEmpty(n)

(* Mutant of HasAllPeersAckedTerm: nobody is waited for.                   *)
NobodyAwaited(n, acked) == TRUE

HasAllPeersAckedTerm(n, acked) == Upstream(n) \subseteq acked

(* Mutant of RecvMayExit: the paired propagator is forgotten.              *)
ExitOnPeers(n, acked, replied) == HasAllPeersAckedTerm(n, acked)

RecvMayExit(n, acked, replied) == HasAllPeersAckedTerm(n, acked) /\ replied

RecvExitIf(n, done) ==
    /\ rState' = [rState EXCEPT ![n] = IF done THEN "TERM" ELSE @]
    /\ rPc' = [rPc EXCEPT ![n] = IF done THEN "exit" ELSE "poll"]

-----------------------------------------------------------------------------
(* The internal branch.                                                    *)

(* Mutant of Record: only the latest buffer is kept.                       *)
RecordLatest(queue, buff) == <<buff>>

Record(queue, buff) == Append(queue, buff)

(* Mutant of Recording: nothing is recorded.                               *)
NotRecording(n) == FALSE

Recording(n) == rState[n] = "RUN"

(* EMyUpdates: the own part of a buffer the propagator is about to send.   *)
RecvMyUpdates(n) ==
    /\ InternalBranch(n)
    /\ IsNext(p2r[n], "EMyUpdates")
    /\ p2r' = [p2r EXCEPT ![n] = Tail(@)]
    /\ LET m == Head(p2r[n])
       IN  IF Recording(n)
           THEN /\ myUpdates' = [myUpdates EXCEPT ![n][m.table] =
                                    Record(@, m.buff)]
                /\ hasMyUpdates' = [hasMyUpdates EXCEPT ![n] = @ \cup {m.table}]
           ELSE UNCHANGED <<myUpdates, hasMyUpdates>>
    /\ r2p' = [r2p EXCEPT ![n] = Append(@, Msg("EMyUpdatesACK"))]
    /\ UNCHANGED <<logPipe, fwdPipe, termPipe, tcp, sub, fatal, storage,
                   rState, rPc, recvFlags, recvBuff, seqNum, toApply>>

(* EPRTerminate is published to every upstream propagator.                 *)
PublishTerminate(n) ==
    sub' = [m \in Nodes |-> IF m \in Upstream(n)
                            THEN Append(sub[m], Msg("EPRTerminate"))
                            ELSE sub[m]]

ReplyPairTerm(n) ==
    /\ fwdPipe' = [fwdPipe EXCEPT ![n] =
                    Append(@, Msg("EPRecvInternalTerminateACK"))]
    /\ haveReplPairTerm' = [haveReplPairTerm EXCEPT ![n] = TRUE]

(* ERInternalTerminate: the application calls ShutDown.  This branch does  *)
(* not test whether the thread may return.                                 *)
RecvERInternalTerminate(n) ==
    /\ InternalBranch(n)
    /\ IsNext(termPipe[n], "ERInternalTerminate")
    /\ termPipe' = [termPipe EXCEPT ![n] = Tail(@)]
    /\ rState' = [rState EXCEPT ![n] = "TERM_SELF"]
    /\ myUpdates' = [myUpdates EXCEPT ![n] = [t \in Tables |-> <<>>]]
    /\ IF haveRecvPairTerm[n]
       THEN ReplyPairTerm(n)
       ELSE UNCHANGED <<fwdPipe, haveReplPairTerm>>
    /\ PublishTerminate(n)
    /\ UNCHANGED <<logPipe, p2r, r2p, tcp, fatal, storage, rPc, hasMyUpdates,
                   peerAcked, haveRecvPairTerm, recvBuff, seqNum, toApply>>

(* EPRInternalTerminate: the paired propagator is terminating.             *)
RecvEPRInternalTerminate(n) ==
    /\ InternalBranch(n)
    /\ IsNext(p2r[n], "EPRInternalTerminate")
    /\ p2r' = [p2r EXCEPT ![n] = Tail(@)]
    /\ IF rState[n] = "RUN"
       THEN /\ haveRecvPairTerm' = [haveRecvPairTerm EXCEPT ![n] = TRUE]
            /\ UNCHANGED <<fwdPipe, haveReplPairTerm, rState, rPc>>
       ELSE /\ ReplyPairTerm(n)
            /\ RecvExitIf(n, RecvMayExit(n, peerAcked[n], TRUE))
            /\ UNCHANGED haveRecvPairTerm
    /\ UNCHANGED <<logPipe, r2p, termPipe, tcp, sub, fatal, storage, myUpdates,
                   hasMyUpdates, peerAcked, recvBuff, seqNum, toApply>>

-----------------------------------------------------------------------------
(* The update branch.                                                      *)

(* Mutant of HasForeignRange: the first range is taken for the own one.    *)
HasSecondRange(n, b) == NextNodeRange(b, 2) # NoNode

(* The test at the head of EPRUpdateBuffer: the iteration yields a node    *)
(* other than me, looking no further than the second range.                *)
HasForeignRange(n, b) ==
    LET first == NextNodeRange(b, 1)
    IN  IF first = n THEN NextNodeRange(b, 2) # NoNode ELSE first # NoNode

(* Mutant of AfterApply: the loop ends after the first update.             *)
AfterFirst(left) == "poll"

(* Where the receiver is when it has these updates left to apply.          *)
AfterApply(left) == IF left.keys = {} THEN "poll" ELSE "apply"

(* EPRUpdateBuffer, after the removal: a copy goes to the propagator, and  *)
(* only then are the updates applied to the table, by ApplyUpdate.         *)
Deliver(n, t, b) ==
    /\ fwdPipe' = IF t \in Forward[n]
                  THEN [fwdPipe EXCEPT ![n] =
                          Append(@, BuffMsg("EPUpdateBuffer", t, b))]
                  ELSE fwdPipe
    /\ IF t \in Apply[n]
       THEN /\ toApply' = [toApply EXCEPT ![n][t] = b.updates]
            /\ rPc' = [rPc EXCEPT ![n] = AfterApply(b.updates)]
       ELSE /\ rPc' = [rPc EXCEPT ![n] = "poll"]
            /\ UNCHANGED toApply

(* EPRUpdateBuffer from upstream node m, up to the loop that removes the   *)
(* node's own updates, or whole if there is nothing to remove.  A buffer   *)
(* is dropped once terminating, and when it has no range of another node.  *)
RecvUpdateBuffer(n, m) ==
    /\ UpdateSockBranch(n)
    /\ m \in Upstream(n)
    /\ IsNext(tcp[m], "EPRUpdateBuffer")
    /\ tcp' = [tcp EXCEPT ![m] = Tail(@)]
    /\ LET msg == Head(tcp[m])
       IN  \/ /\ rState[n] # "RUN" \/ ~HasForeignRange(n, msg.buff)
              /\ UNCHANGED <<fwdPipe, fatal, rPc, recvBuff, seqNum, toApply>>
           \/ /\ rState[n] = "RUN" /\ HasForeignRange(n, msg.buff)
              /\ ~HasNodeRange(msg.buff, n)
              /\ Deliver(n, msg.table, msg.buff)
              /\ UNCHANGED <<fatal, recvBuff, seqNum>>
           \/ /\ rState[n] = "RUN" /\ HasForeignRange(n, msg.buff)
              /\ HasNodeRange(msg.buff, n)
              /\ fatal' = [fatal EXCEPT ![n] =
                    IF msg.table \in hasMyUpdates[n] THEN @ ELSE "my_updates"]
              /\ rPc' = [rPc EXCEPT ![n] = "dedup"]
              /\ recvBuff' = [recvBuff EXCEPT ![n] = <<msg>>]
              /\ seqNum' = [seqNum EXCEPT ![n] = GetNodeRange(msg.buff, n).st]
              /\ UNCHANGED <<fwdPipe, toApply>>
    /\ UNCHANGED <<logPipe, p2r, r2p, termPipe, sub, storage, rState, myUpdates,
                   hasMyUpdates, recvFlags>>

(* What one iteration of the loop finds wrong with the front of the queue, *)
(* in the order of the CHECKs; front() of an empty queue is undefined.     *)
DedupFault(n, queue, recv) ==
    IF queue = <<>> THEN "front"
    ELSE IF ~HasNodeRange(Head(queue), n) THEN "found"
    ELSE LET mine == GetNodeRange(Head(queue), n)
         IN  IF ~Contains(GetNodeRange(recv, n), mine) THEN "contains"
             ELSE IF mine.st # seqNum[n] THEN "seq_num"
             ELSE IF ~HasUpdates(recv, Head(queue).updates) THEN "recv_delta"
             ELSE "none"

(* One iteration of the loop: the oldest buffer of own updates is taken    *)
(* from the received buffer.  After the last one the own range is deleted  *)
(* and the buffer delivered.                                               *)
NextSeqNum(mine) == mine.end

Dedup(n) ==
    /\ Alive(n)
    /\ rPc[n] = "dedup"
    /\ LET msg   == Head(recvBuff[n])
           recv  == GetNodeRange(msg.buff, n)
           queue == myUpdates[n][msg.table]
           fault == DedupFault(n, queue, msg.buff)
           mine  == GetNodeRange(Head(queue), n)
           rest  == [msg.buff EXCEPT !.updates =
                        SubUpdates(@, Head(queue).updates)]
       IN  \/ /\ fault # "none"
              /\ fatal' = [fatal EXCEPT ![n] = fault]
              /\ UNCHANGED <<fwdPipe, rPc, myUpdates, recvBuff, seqNum, toApply>>
           \/ /\ fault = "none"
              /\ myUpdates' = [myUpdates EXCEPT ![n][msg.table] = Tail(@)]
              /\ IF NextSeqNum(mine) < recv.end
                 THEN /\ seqNum' = [seqNum EXCEPT ![n] = NextSeqNum(mine)]
                      /\ recvBuff' = [recvBuff EXCEPT ![n] =
                            <<[msg EXCEPT !.buff = rest]>>]
                      /\ UNCHANGED <<fwdPipe, rPc, toApply>>
                 ELSE /\ seqNum' = [seqNum EXCEPT ![n] = 0]
                      /\ recvBuff' = [recvBuff EXCEPT ![n] = <<>>]
                      /\ Deliver(n, msg.table, DeleteNodeRange(rest, n))
              /\ UNCHANGED fatal
    /\ UNCHANGED <<logPipe, p2r, r2p, termPipe, tcp, sub, storage, rState,
                   hasMyUpdates, recvFlags>>

(* One iteration of the loop over the updates of the buffer, which come in *)
(* any order: IncRaw of one key.                                           *)
ApplyUpdate(n) ==
    /\ Alive(n)
    /\ rPc[n] = "apply"
    /\ \E t \in Tables : \E k \in toApply[n][t].keys :
        LET left == Without(toApply[n][t], k)
        IN  /\ IncRaw(n, t, k, toApply[n][t].val[k])
            /\ toApply' = [toApply EXCEPT ![n][t] = left]
            /\ rPc' = [rPc EXCEPT ![n] = AfterApply(left)]
    /\ UNCHANGED <<wireVars, fatal, rState, myUpdates, hasMyUpdates, recvFlags,
                   recvBuff, seqNum>>

(* EPRTerminateACK from upstream node m.                                   *)
RecvTerminateACK(n, m) ==
    /\ UpdateSockBranch(n)
    /\ m \in Upstream(n)
    /\ IsNext(tcp[m], "EPRTerminateACK")
    /\ tcp' = [tcp EXCEPT ![m] = Tail(@)]
    /\ LET acked == peerAcked[n] \cup {Head(tcp[m]).node}
       IN  /\ peerAcked' = [peerAcked EXCEPT ![n] = acked]
           /\ RecvExitIf(n, RecvMayExit(n, acked, haveReplPairTerm[n]))
    /\ UNCHANGED <<logPipe, fwdPipe, p2r, r2p, termPipe, sub, fatal, storage,
                   myUpdates, hasMyUpdates, haveRecvPairTerm, haveReplPairTerm,
                   recvBuff, seqNum, toApply>>

ReceiverStep(n) ==
    \/ RecvMyUpdates(n)
    \/ RecvERInternalTerminate(n)
    \/ RecvEPRInternalTerminate(n)
    \/ \E m \in Nodes : RecvUpdateBuffer(n, m) \/ RecvTerminateACK(n, m)
    \/ Dedup(n) \/ ApplyUpdate(n)
=============================================================================
