-------------------------------- MODULE Wires --------------------------------
(***************************************************************************)
(* The 0MQ sockets between the threads.  0MQ delivers the messages of one   *)
(* connection in the order they were sent and loses none once connected, so *)
(* each connection is a queue.  A PULL socket with several connections      *)
(* serves them in any order (fair queueing).                                *)
(*                                                                          *)
(*   logPipe[n][t]  application thread t -> propagator n   (inproc)         *)
(*   fwdPipe[n]     receiver n -> propagator n             (inproc)         *)
(*   p2r[n]         propagator n -> receiver n             (inproc)         *)
(*   r2p[n]         receiver n -> propagator n, answers to p2r (inproc)     *)
(*   termPipe[n]    application -> receiver n              (inproc)         *)
(*   tcp[n]         propagator n -> receiver Downstream[n] (tcp)            *)
(*   sub[n]         receiver Downstream[n] -> propagator n (tcp, PUB/SUB)   *)
(*                                                                          *)
(* logPipe and fwdPipe end in the propagator's update_pull_sock; p2r and    *)
(* termPipe in the receiver's internal_recv_pull_sock; tcp in the           *)
(* receiver's update_pull_sock.                                             *)
(*                                                                          *)
(* fatal[n] is the site of the CHECK (or invalid access) that aborted the   *)
(* process of n, "none" while it runs.                                      *)
(***************************************************************************)
EXTENDS UpdateBuffer

VARIABLES logPipe, fwdPipe, p2r, r2p, termPipe, tcp, sub, fatal

wireVars == <<logPipe, fwdPipe, p2r, r2p, termPipe, tcp, sub>>

LogMsg ==
    [type : {"EPUpdateLog"}, table : Tables, key : AllKeys, delta : Value]
        \cup [type : {"EPInternalTerminate"}]

FwdMsg ==
    [type : {"EPUpdateBuffer"}, table : Tables, buff : Buffer]
        \cup [type : {"EPRecvInternalTerminateACK"}]

P2RMsg ==
    [type : {"EMyUpdates"}, table : Tables, buff : Buffer]
        \cup [type : {"EPRInternalTerminate"}]

R2PMsg == [type : {"EMyUpdatesACK"}]

TermMsg == [type : {"ERInternalTerminate"}]

UpdateBufferMsg ==
    [type : {"EPRUpdateBuffer"}, table : Tables, buff : Buffer]

TcpMsg == UpdateBufferMsg \cup [type : {"EPRTerminateACK"}, node : Nodes]

SubMsg == [type : {"EPRTerminate"}]

FatalSites ==
    {"none", "my_updates", "front", "found", "contains", "seq_num", "recv_delta",
     "contiguous", "prop_push_sock", "my_update_range"}

WiresTypeOK ==
    /\ logPipe \in [Nodes -> [Threads -> Seq(LogMsg)]]
    /\ fwdPipe \in [Nodes -> Seq(FwdMsg)]
    /\ p2r \in [Nodes -> Seq(P2RMsg)]
    /\ r2p \in [Nodes -> Seq(R2PMsg)]
    /\ termPipe \in [Nodes -> Seq(TermMsg)]
    /\ tcp \in [Nodes -> Seq(TcpMsg)]
    /\ sub \in [Nodes -> Seq(SubMsg)]
    /\ fatal \in [Nodes -> FatalSites]

WiresInit ==
    /\ logPipe = [n \in Nodes |-> [t \in Threads |-> <<>>]]
    /\ fwdPipe = [n \in Nodes |-> <<>>]
    /\ p2r = [n \in Nodes |-> <<>>]
    /\ r2p = [n \in Nodes |-> <<>>]
    /\ termPipe = [n \in Nodes |-> <<>>]
    /\ tcp = [n \in Nodes |-> <<>>]
    /\ sub = [n \in Nodes |-> <<>>]
    /\ fatal = [n \in Nodes |-> "none"]

Alive(n) == fatal[n] = "none"

(* The head of a pipe is a message of the given type.                      *)
IsNext(q, type) == q # <<>> /\ Head(q).type = type

(* Mutant of Enqueue: the new messages overtake the old ones.              *)
Overtake(q, msgs) == msgs \o q

(* SendMsg: the messages go to the end of the pipe.                        *)
Enqueue(q, msgs) == q \o msgs

Msg(type) == [type |-> type]

BuffMsg(type, table, buff) ==
    [type |-> type, table |-> table, buff |-> buff]
=============================================================================
