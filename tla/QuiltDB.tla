------------------------------- MODULE QuiltDB -------------------------------
(***************************************************************************)
(* A running propagation graph: on every node the application threads, the  *)
(* propagator, its timer and the receiver, connected by the pipes of Wires. *)
(* The model starts when the handshakes are over and every thread is in its *)
(* poll loop.                                                               *)
(***************************************************************************)
EXTENDS Application

vars == <<wireVars, fatal, timer, propVars, storage, recvVars, appVars>>

TypeOK ==
    /\ WiresTypeOK
    /\ TimerTypeOK
    /\ PropagatorTypeOK
    /\ InternalTableTypeOK
    /\ ReceiverTypeOK
    /\ ApplicationTypeOK

Init ==
    /\ WiresInit
    /\ TimerInit
    /\ PropagatorInit
    /\ InternalTableInit
    /\ ReceiverInit
    /\ ApplicationInit

TimerNext(n) == TimerStep(n) /\ UNCHANGED <<propVars, storage, recvVars, appVars>>

PropagatorNext(n) == PropagatorStep(n) /\ UNCHANGED <<storage, recvVars, appVars>>

ReceiverNext(n) == ReceiverStep(n) /\ UNCHANGED <<timer, propVars, appVars>>

ApplicationNext(n) ==
    ApplicationStep(n) /\ UNCHANGED <<fatal, timer, propVars, recvVars>>

(* Every process has aborted or has completed ShutDown and deregistered.   *)
Finished ==
    \A n \in Nodes :
        ~Alive(n) \/ \A t \in Threads : thr[n][t] \in {"new", "gone"}

Stop == Finished /\ UNCHANGED vars

Next ==
    \/ \E n \in Nodes :
        \/ TimerNext(n) \/ PropagatorNext(n)
        \/ ReceiverNext(n) \/ ApplicationNext(n)
    \/ Stop

Spec == Init /\ [][Next]_vars

(***************************************************************************)
(* Fairness.  Every thread keeps running (weak fairness of its next step).  *)
(* The update branch of the propagator is disabled at every trigger of the  *)
(* timer; it gets strong fairness because the batch interval is much longer *)
(* than one pass through the loop, so the loop reaches the branch between   *)
(* two triggers.  Nothing forces the application to call Inc or ShutDown,   *)
(* but a call once made is carried on.                                      *)
(***************************************************************************)
UpdateBranchNext(n) ==
    /\ \/ \E t \in Threads : RecvUpdateLog(n, t) \/ RecvInternalTerminate(n, t)
       \/ RecvPUpdateBuffer(n)
       \/ RecvInternalTerminateACK(n)
    /\ UNCHANGED <<storage, recvVars, appVars>>

CallNext(n) ==
    /\ ShutDownStep(n) \/ \E t \in Threads : PropagatorInc(n, t)
    /\ UNCHANGED <<fatal, timer, propVars, recvVars>>

Fairness ==
    \A n \in Nodes :
        /\ WF_vars(TimerNext(n))
        /\ WF_vars(PropagatorNext(n))
        /\ WF_vars(ReceiverNext(n))
        /\ WF_vars(CallNext(n))
        /\ SF_vars(UpdateBranchNext(n))

FairSpec == Spec /\ Fairness

-----------------------------------------------------------------------------
(* Shutdown.                                                               *)

(* A receiver thread returns with nothing left on its sockets: no own      *)
(* updates or termination request of its node, no buffer of an upstream    *)
(* propagator (receiver.hpp: "Receiver must process all the queued         *)
(* messages ... before it terminates").                                    *)
ReceiverExitsDrained ==
    \A n \in Nodes : rPc[n] = "exit" =>
        /\ InternalSockEmpty(n)
        /\ \A m \in Upstream(n) : tcp[m] = <<>>

(* A propagator thread returns with nothing left from its receiver, its    *)
(* downstream receiver, its timer and the thread that called ShutDown.     *)
PropagatorExitsDrained ==
    \A n \in Nodes : pPc[n] = "exit" =>
        /\ fwdPipe[n] = <<>> /\ r2p[n] = <<>> /\ sub[n] = <<>>
        /\ logPipe[n][Main] = <<>>
        /\ timer[n] = "exited"

(* A propagator that waits for EMyUpdatesACK waits for a thread that is    *)
(* there to answer, whatever the order in which the two were told to       *)
(* terminate.                                                              *)
AckIsComing ==
    \A n \in Nodes : (Alive(n) /\ pPc[n] = "ack") => rPc[n] # "exit"

(* After its EPRTerminateACK a propagator sends nothing more downstream    *)
(* (propagator.hpp: "After sending the ACK, the send promises to not send  *)
(* any more messages to receiver").                                        *)
NothingAfterAck ==
    [][\A n \in Nodes :
        (HasDownstream(n) /\ haveRepliedDsTerm[n]) => Len(tcp'[n]) <= Len(tcp[n])]_vars

(* When every node calls ShutDown, every call returns (quiltdb.hpp:        *)
(* "ShutDown() blocks until QuiltDB completes proper ShutDown protocol     *)
(* with its neighbors (essentially, its neighbors have called ShutDown     *)
(* too)").                                                                 *)
ShutDownReturns ==
    (\A n \in Nodes : ShutDownCalled(n))
        ~> (\A n \in Nodes : thr[n][Main] \in {"down", "gone"})
=============================================================================
