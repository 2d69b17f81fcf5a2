------------------------------ MODULE Startup ------------------------------
(***************************************************************************)
(* QuiltDB::Start of all processes: each process starts a horizontal and a  *)
(* vertical propagator/receiver pair, and each pair goes through a          *)
(* handshake with its neighbours before its threads enter the loops that    *)
(* modules Propagator and Receiver model.                                   *)
(*                                                                          *)
(* A pair is <<process, direction>>.  PropInit, PropInitACKACK and later    *)
(* the updates travel on a PUSH/PULL connection, which queues what is sent  *)
(* before the other side is up.  PropInitACK, PropStart and later           *)
(* EPRTerminate are published, and 0MQ drops a published message for every  *)
(* subscriber whose subscription has not reached the publisher yet.         *)
(*                                                                          *)
(* Once in its loop a pair may send to neighbours that are still starting:  *)
(* SendUpdates and PublishTerminate stand for that traffic.                 *)
(***************************************************************************)
EXTENDS Integers, FiniteSets, Sequences

CONSTANTS
    Nodes,       \* the processes; a pair has the id of its process
    Downstream,  \* Downstream[p]: the pair p sends to, or NoPair
    MaxPending   \* bound: messages pending at a subscriber when publishing

Dirs == {"h", "v"}

Pairs == Nodes \X Dirs

NoPair == <<-1, "none">>

ASSUME StartupNodes == Nodes \subseteq Nat /\ IsFiniteSet(Nodes)

ASSUME StartupGraph ==
    /\ Downstream \in [Pairs -> Pairs \cup {NoPair}]
    /\ \A p \in Pairs : Downstream[p] # NoPair => Downstream[p][2] = p[2]

ASSUME StartupBound == MaxPending \in Nat \ {0}

VARIABLES
    mainPc,    \* where the thread that called Start is, and ...
    mainDir,   \* ... for which of the two pairs
    syncSem,   \* sync_sem
    synced,    \* internal_sync_sem of each propagator has been posted
    pPc, rPc,  \* the propagator and receiver threads
    eprInit,   \* EPRInit is in the pipe from receiver to paired propagator
    peers,     \* peer_prop_info
    numProps,  \* num_props
    joined,    \* propagators whose subscription the publisher knows
    tcp, sub,  \* prop_push_sock and term_sub_sock of each propagator
    sent,      \* pairs that have sent an update, bounded to one each
    closed,    \* pairs that have published EPRTerminate
    fatal      \* a failed CHECK or LOG(FATAL) of each process

mainVars == <<mainPc, mainDir>>

vars == <<mainVars, syncSem, synced, pPc, rPc, eprInit, peers, numProps, joined,
          tcp, sub, sent, closed, fatal>>

Up(p) == {q \in Pairs : Downstream[q] = p}

(* num_expected_propagators_: the configuration file states it.            *)
Expected(p) == Cardinality(Up(p))

HasDownstream(p) == Downstream[p] # NoPair

(* Mutant of PMsg: the id of the sender is missing.                        *)
AnonymousMsg(type, id) == [type |-> type, id |-> -1]

PMsg(type, id) == [type |-> type, id |-> id]

TcpMsg == [type : {"PropInit", "PropInitACKACK", "EPRUpdateBuffer"}, id : Nodes]

SubMsg == {"PropInitACK", "PropStart", "EPRTerminate"}

Alive(n) == fatal[n] = "none"

-----------------------------------------------------------------------------
Init ==
    /\ mainPc = [n \in Nodes |-> "prop"]
    /\ mainDir = [n \in Nodes |-> "h"]
    /\ syncSem = [n \in Nodes |-> 0]
    /\ synced = [p \in Pairs |-> FALSE]
    /\ pPc = [p \in Pairs |-> "none"]
    /\ rPc = [p \in Pairs |-> "none"]
    /\ eprInit = [p \in Pairs |-> FALSE]
    /\ peers = [p \in Pairs |-> {}]
    /\ numProps = [p \in Pairs |-> 0]
    /\ joined = {}
    /\ tcp = [p \in Pairs |-> <<>>]
    /\ sub = [p \in Pairs |-> <<>>]
    /\ sent = {}
    /\ closed = {}
    /\ fatal = [n \in Nodes |-> "none"]

TypeOK ==
    /\ mainPc \in [Nodes -> {"prop", "sync", "recv", "wait", "started"}]
    /\ mainDir \in [Nodes -> Dirs]
    /\ syncSem \in [Nodes -> Nat]
    /\ synced \in [Pairs -> BOOLEAN]
    /\ pPc \in [Pairs -> {"none", "sockets", "eprinit", "initack", "start", "run"}]
    /\ rPc \in [Pairs -> {"none", "sockets", "propinit", "publish", "poll",
                          "pubstart", "ready", "run"}]
    /\ eprInit \in [Pairs -> BOOLEAN]
    /\ peers \in [Pairs -> SUBSET Nodes]
    /\ numProps \in [Pairs -> Nat]
    /\ joined \in SUBSET Pairs
    /\ tcp \in [Pairs -> Seq(TcpMsg)]
    /\ sub \in [Pairs -> Seq(SubMsg)]
    /\ sent \in SUBSET Pairs
    /\ closed \in SUBSET Pairs
    /\ fatal \in [Nodes -> {"none", "connect", "initack", "ackack",
                            "recv_type", "prop_type"}]

-----------------------------------------------------------------------------
(* QuiltDB::Start: for each direction Propagator::Start and               *)
(* Receiver::Start, and at the end four times sem_wait(&sync_sem).         *)

(* Propagator::Start creates the thread ...                                *)
CreatePropagator(n) ==
    LET p == <<n, mainDir[n]>>
    IN  /\ Alive(n)
        /\ mainPc[n] = "prop"
        /\ mainPc' = [mainPc EXCEPT ![n] = "sync"]
        /\ pPc' = [pPc EXCEPT ![p] = "sockets"]
        /\ UNCHANGED <<mainDir, syncSem, synced, rPc, eprInit, peers, numProps,
                       joined, tcp, sub, sent, closed, fatal>>

(* Mutant of MayStartReceiver: internal_sync_sem is not waited for.        *)
ReceiverAtOnce(p) == TRUE

(* ... and waits until it has bound its inproc end points.                 *)
MayStartReceiver(p) == synced[p]

SyncPropagator(n) ==
    /\ Alive(n)
    /\ mainPc[n] = "sync"
    /\ MayStartReceiver(<<n, mainDir[n]>>)
    /\ mainPc' = [mainPc EXCEPT ![n] = "recv"]
    /\ UNCHANGED <<mainDir, syncSem, synced, pPc, rPc, eprInit, peers, numProps,
                   joined, tcp, sub, sent, closed, fatal>>

CreateReceiver(n) ==
    LET p == <<n, mainDir[n]>>
    IN  /\ Alive(n)
        /\ mainPc[n] = "recv"
        /\ mainPc' = [mainPc EXCEPT ![n] =
                        IF mainDir[n] = "h" THEN "prop" ELSE "wait"]
        /\ mainDir' = [mainDir EXCEPT ![n] = "v"]
        /\ rPc' = [rPc EXCEPT ![p] = "sockets"]
        /\ UNCHANGED <<syncSem, synced, pPc, eprInit, peers, numProps, joined,
                       tcp, sub, sent, closed, fatal>>

(* Mutant of Waits: one sem_wait is missing.                               *)
ThreeWaits == 3

Waits == 4

StartReturns(n) ==
    /\ Alive(n)
    /\ mainPc[n] = "wait"
    /\ syncSem[n] >= Waits
    /\ syncSem' = [syncSem EXCEPT ![n] = @ - Waits]
    /\ mainPc' = [mainPc EXCEPT ![n] = "started"]
    /\ UNCHANGED <<mainDir, synced, pPc, rPc, eprInit, peers, numProps, joined,
                   tcp, sub, sent, closed, fatal>>

-----------------------------------------------------------------------------
(* The propagator thread, up to its loop.                                  *)

Abort(n, site) == fatal' = [fatal EXCEPT ![n] = site]

(* state_ = RUN; sem_post(sync_sem_).                                      *)
PropRun(p) ==
    /\ pPc' = [pPc EXCEPT ![p] = "run"]
    /\ syncSem' = [syncSem EXCEPT ![p[1]] = @ + 1]

(* The sockets are set up and internal_sync_sem is posted.                 *)
PropSockets(p) ==
    /\ Alive(p[1])
    /\ pPc[p] = "sockets"
    /\ pPc' = [pPc EXCEPT ![p] = "eprinit"]
    /\ synced' = [synced EXCEPT ![p] = TRUE]
    /\ UNCHANGED <<mainVars, syncSem, rPc, eprInit, peers, numProps, joined, tcp,
                   sub, sent, closed, fatal>>

(* EPRInit of the paired receiver, then step 1: PropInit.                  *)
PropRecvEPRInit(p) ==
    /\ Alive(p[1])
    /\ pPc[p] = "eprinit"
    /\ eprInit[p]
    /\ eprInit' = [eprInit EXCEPT ![p] = FALSE]
    /\ IF HasDownstream(p)
       THEN /\ tcp' = [tcp EXCEPT ![p] = Append(@, PMsg("PropInit", p[1]))]
            /\ pPc' = [pPc EXCEPT ![p] = "initack"]
            /\ UNCHANGED syncSem
       ELSE PropRun(p) /\ UNCHANGED tcp
    /\ UNCHANGED <<mainVars, synced, rPc, peers, numProps, joined, sub, sent,
                   closed, fatal>>

(* Step 2: PropInitACK, and nothing else; step 3: PropInitACKACK.          *)
PropRecvInitACK(p) ==
    /\ Alive(p[1])
    /\ pPc[p] = "initack"
    /\ sub[p] # <<>>
    /\ sub' = [sub EXCEPT ![p] = Tail(@)]
    /\ IF Head(sub[p]) = "PropInitACK"
       THEN /\ tcp' = [tcp EXCEPT ![p] = Append(@, PMsg("PropInitACKACK", p[1]))]
            /\ pPc' = [pPc EXCEPT ![p] = "start"]
            /\ UNCHANGED fatal
       ELSE Abort(p[1], "initack") /\ UNCHANGED <<tcp, pPc>>
    /\ UNCHANGED <<mainVars, syncSem, synced, rPc, eprInit, peers, numProps,
                   joined, sent, closed>>

(* Mutant of IsPropStart: any message starts the propagator.               *)
AnyMessage(msg) == TRUE

IsPropStart(msg) == msg = "PropStart"

(* Step 4: whatever is not PropStart is skipped.                           *)
PropRecvStart(p) ==
    /\ Alive(p[1])
    /\ pPc[p] = "start"
    /\ sub[p] # <<>>
    /\ sub' = [sub EXCEPT ![p] = Tail(@)]
    /\ IF IsPropStart(Head(sub[p])) THEN PropRun(p) ELSE UNCHANGED <<pPc, syncSem>>
    /\ UNCHANGED <<mainVars, synced, rPc, eprInit, peers, numProps, joined, tcp,
                   sent, closed, fatal>>

-----------------------------------------------------------------------------
(* The receiver thread, up to its loop.                                    *)

(* After its last message of the handshake: state_ = RUN, sem_post.        *)
RecvRun(p) ==
    /\ Alive(p[1])
    /\ rPc[p] = "ready"
    /\ rPc' = [rPc EXCEPT ![p] = "run"]
    /\ syncSem' = [syncSem EXCEPT ![p[1]] = @ + 1]
    /\ UNCHANGED <<mainVars, synced, pPc, eprInit, peers, numProps, joined, tcp, sub,
                   sent, closed, fatal>>

(* Published: to the upstream propagators that have joined.                *)
Publish(p, msg) ==
    sub' = [q \in Pairs |-> IF q \in Up(p) \cap joined
                            THEN Append(sub[q], msg) ELSE sub[q]]

(* The sockets are set up, EPRInit is sent to the paired propagator.  An   *)
(* inproc socket can only connect to an end point that is already bound.   *)
RecvSockets(p) ==
    /\ Alive(p[1])
    /\ rPc[p] = "sockets"
    /\ IF pPc[p] \in {"none", "sockets"}
       THEN Abort(p[1], "connect") /\ UNCHANGED <<eprInit, rPc>>
       ELSE /\ eprInit' = [eprInit EXCEPT ![p] = TRUE]
            /\ rPc' = [rPc EXCEPT ![p] =
                        IF Expected(p) = 0 THEN "ready" ELSE "propinit"]
            /\ UNCHANGED fatal
    /\ UNCHANGED <<mainVars, syncSem, synced, pPc, peers, numProps, joined, tcp, sub, sent,
                   closed>>

(* Mutant of AllHeard: one message is enough.                              *)
OneHeard(p, count) == TRUE

(* Messages are counted, not propagators.                                  *)
AllHeard(p, count) == count = Expected(p)

(* Step 1: PropInit.  Only the size of the message is checked, and all     *)
(* messages on this socket start with a record of that size.               *)
RecvPropInit(p, q) ==
    /\ Alive(p[1])
    /\ rPc[p] = "propinit"
    /\ q \in Up(p)
    /\ tcp[q] # <<>>
    /\ tcp' = [tcp EXCEPT ![q] = Tail(@)]
    /\ peers' = [peers EXCEPT ![p] = @ \cup {Head(tcp[q]).id}]
    /\ IF AllHeard(p, numProps[p] + 1)
       THEN /\ rPc' = [rPc EXCEPT ![p] = "publish"]
            /\ numProps' = [numProps EXCEPT ![p] = 0]
       ELSE /\ numProps' = [numProps EXCEPT ![p] = @ + 1]
            /\ UNCHANGED rPc
    /\ UNCHANGED <<mainVars, syncSem, synced, pPc, eprInit, joined, sub, sent,
                   closed, fatal>>

(* Step 2: PropInitACK, again after each round in which no answer came.    *)
PublishInitACK(p) ==
    /\ Alive(p[1])
    /\ rPc[p] = "publish"
    /\ \A q \in Up(p) \cap joined : Len(sub[q]) < MaxPending
    /\ Publish(p, "PropInitACK")
    /\ rPc' = [rPc EXCEPT ![p] = "poll"]
    /\ UNCHANGED <<mainVars, syncSem, synced, pPc, eprInit, peers, numProps,
                   joined, tcp, sent, closed, fatal>>

(* Mutant of AllAnswered: one answer is enough.                            *)
OneAnswered(p, count) == TRUE

AllAnswered(p, count) == count = Expected(p)

(* Step 3: the PropInitACKACKs that have arrived.                          *)
RecvInitACKACK(p, q) ==
    /\ Alive(p[1])
    /\ rPc[p] = "poll"
    /\ q \in Up(p)
    /\ tcp[q] # <<>>
    /\ tcp' = [tcp EXCEPT ![q] = Tail(@)]
    /\ IF Head(tcp[q]).type = "PropInitACKACK"
       THEN /\ numProps' = [numProps EXCEPT ![p] = @ + 1]
            /\ rPc' = [rPc EXCEPT ![p] =
                        IF AllAnswered(p, numProps[p] + 1) THEN "pubstart" ELSE @]
            /\ UNCHANGED fatal
       ELSE Abort(p[1], "ackack") /\ UNCHANGED <<numProps, rPc>>
    /\ UNCHANGED <<mainVars, syncSem, synced, pPc, eprInit, peers, joined, sub,
                   sent, closed>>

(* Mutant of PublishAgain: PropInitACK is published only once.             *)
NeverAgain(p) == FALSE /\ UNCHANGED vars

(* RecvMsgAsync returns nothing: what has been sent may not have arrived.  *)
PublishAgain(p) ==
    /\ Alive(p[1])
    /\ rPc[p] = "poll"
    /\ rPc' = [rPc EXCEPT ![p] = "publish"]
    /\ UNCHANGED <<mainVars, syncSem, synced, pPc, eprInit, peers, numProps,
                   joined, tcp, sub, sent, closed, fatal>>

(* Step 4: PropStart, once.  A propagator that gets it may send before the *)
(* receiver is in its loop.                                                *)
PublishStart(p) ==
    /\ Alive(p[1])
    /\ rPc[p] = "pubstart"
    /\ Publish(p, "PropStart")
    /\ rPc' = [rPc EXCEPT ![p] = "ready"]
    /\ UNCHANGED <<mainVars, syncSem, synced, pPc, eprInit, peers, numProps, joined, tcp,
                   sent, closed, fatal>>

-----------------------------------------------------------------------------
(* 0MQ: the subscription of propagator q reaches the publisher, after both *)
(* have set up their sockets.                                              *)
Join(q) ==
    /\ q \notin joined
    /\ HasDownstream(q)
    /\ pPc[q] \notin {"none", "sockets"}
    /\ rPc[Downstream[q]] \notin {"none", "sockets"}
    /\ joined' = joined \cup {q}
    /\ UNCHANGED <<mainVars, syncSem, synced, pPc, rPc, eprInit, peers, numProps,
                   tcp, sub, sent, closed, fatal>>

(* The loops.  A propagator may send a buffer: updates of its application, *)
(* or before Start has returned updates that its receiver forwards.        *)
SendUpdates(p) ==
    /\ Alive(p[1])
    /\ pPc[p] = "run"
    /\ HasDownstream(p)
    /\ p \notin sent
    /\ sent' = sent \cup {p}
    /\ tcp' = [tcp EXCEPT ![p] = Append(@, PMsg("EPRUpdateBuffer", p[1]))]
    /\ UNCHANGED <<mainVars, syncSem, synced, pPc, rPc, eprInit, peers, numProps,
                   joined, sub, closed, fatal>>

(* The application calls ShutDown, and the receiver publishes EPRTerminate. *)
PublishTerminate(p) ==
    /\ Alive(p[1])
    /\ mainPc[p[1]] = "started"
    /\ rPc[p] = "run"
    /\ p \notin closed
    /\ closed' = closed \cup {p}
    /\ Publish(p, "EPRTerminate")
    /\ UNCHANGED <<mainVars, syncSem, synced, pPc, rPc, eprInit, peers, numProps,
                   joined, tcp, sent, fatal>>

(* What reaches a loop must be a message of the loop: any other type is    *)
(* LOG(FATAL) << "Unrecognized message type".                              *)
RecvTcp(p, q) ==
    /\ Alive(p[1])
    /\ rPc[p] = "run"
    /\ q \in Up(p)
    /\ tcp[q] # <<>>
    /\ tcp' = [tcp EXCEPT ![q] = Tail(@)]
    /\ IF Head(tcp[q]).type = "EPRUpdateBuffer"
       THEN UNCHANGED fatal ELSE Abort(p[1], "recv_type")
    /\ UNCHANGED <<mainVars, syncSem, synced, pPc, rPc, eprInit, peers, numProps,
                   joined, sub, sent, closed>>

RecvSub(p) ==
    /\ Alive(p[1])
    /\ pPc[p] = "run"
    /\ sub[p] # <<>>
    /\ sub' = [sub EXCEPT ![p] = Tail(@)]
    /\ IF Head(sub[p]) = "EPRTerminate"
       THEN UNCHANGED fatal ELSE Abort(p[1], "prop_type")
    /\ UNCHANGED <<mainVars, syncSem, synced, pPc, rPc, eprInit, peers, numProps,
                   joined, tcp, sent, closed>>

-----------------------------------------------------------------------------
MainStep(n) ==
    \/ CreatePropagator(n) \/ SyncPropagator(n)
    \/ CreateReceiver(n) \/ StartReturns(n)

PropStep(p) ==
    \/ PropSockets(p) \/ PropRecvEPRInit(p)
    \/ PropRecvInitACK(p) \/ PropRecvStart(p)
    \/ RecvSub(p)

RecvStep(p) ==
    \/ RecvSockets(p)
    \/ PublishInitACK(p) \/ PublishAgain(p) \/ PublishStart(p) \/ RecvRun(p)
    \/ \E q \in Pairs : RecvPropInit(p, q) \/ RecvInitACKACK(p, q) \/ RecvTcp(p, q)

Traffic(p) == SendUpdates(p) \/ PublishTerminate(p)

(* Everybody has started and nothing is on its way.                        *)
Quiet ==
    /\ \A n \in Nodes : mainPc[n] = "started"
    /\ \A p \in Pairs : tcp[p] = <<>> /\ sub[p] = <<>>
    /\ UNCHANGED vars

Next ==
    \/ \E n \in Nodes : MainStep(n)
    \/ \E p \in Pairs : PropStep(p) \/ RecvStep(p) \/ Join(p) \/ Traffic(p)
    \/ Quiet

Spec == Init /\ [][Next]_vars

(* Threads are scheduled, TCP connections come about in the end, and a     *)
(* message that has been sent arrives: RecvMsgAsync, called again and      *)
(* again, returns it.                                                      *)
Fairness ==
    /\ \A n \in Nodes : WF_vars(MainStep(n))
    /\ \A p \in Pairs :
        /\ WF_vars(PropStep(p)) /\ WF_vars(RecvStep(p)) /\ WF_vars(Join(p))
        /\ SF_vars(\E q \in Pairs : RecvInitACKACK(p, q))

FairSpec == Spec /\ Fairness

-----------------------------------------------------------------------------
(* No CHECK of the handshake fails, no inproc socket connects before its   *)
(* end point is bound, and no loop reads a message of the handshake (or    *)
(* the handshake a message of a neighbour that already runs).              *)
NoHandshakeAbort == \A n \in Nodes : Alive(n)

(* After step 1 a receiver has an entry for each of its upstream           *)
(* propagators and for nobody else, although it only counts messages:      *)
(* these are the peers whose acknowledgement ends the thread at shutdown.  *)
PeersKnown ==
    \A p \in Pairs : rPc[p] \in {"publish", "poll", "pubstart", "ready", "run"}
                        => peers[p] = {q[1] : q \in Up(p)}

(* PropStart is published once, and a published message is lost for those *)
(* who have not joined: nevertheless every upstream propagator of a        *)
(* receiver that has published it runs or has PropStart to read.           *)
PropStartIsHeard ==
    \A p \in Pairs : rPc[p] \in {"ready", "run"} =>
        \A q \in Up(p) :
            \/ pPc[q] = "run"
            \/ pPc[q] = "start" /\ \E i \in DOMAIN sub[q] : sub[q][i] = "PropStart"

(* A propagator runs, and may send updates, only when the handshake of its *)
(* downstream receiver is over for all that send to it, which it never     *)
(* hears from: each of them has subscribed and answered, and the receiver  *)
(* has taken all these answers, so it takes no update for one of them.     *)
HandshakeOverFirst ==
    \A p \in Pairs : HasDownstream(p) /\ pPc[p] = "run" =>
        /\ rPc[Downstream[p]] \in {"ready", "run"}
        /\ \A q \in Up(Downstream[p]) :
            /\ q \in joined /\ pPc[q] \in {"start", "run"}
            /\ \A i \in DOMAIN tcp[q] : tcp[q][i].type = "EPRUpdateBuffer"

(* When Start returns all four threads are in state RUN: before that       *)
(* RegisterThr, Inc and ShutDown would fail.                               *)
StartedIsRunning ==
    \A n \in Nodes : mainPc[n] = "started" =>
        \A d \in Dirs : pPc[<<n, d>>] = "run" /\ rPc[<<n, d>>] = "run"

(* Every Start returns, whatever the graphs of the two directions.         *)
EveryStartReturns == \A n \in Nodes : <>(mainPc[n] = "started")
=============================================================================
