----------------------------- MODULE Application -----------------------------
(***************************************************************************)
(* The threads of the application of a node, through the calls of Table and *)
(* QuiltDB they make: RegisterThr, Inc, DeregisterThr and, on one thread,   *)
(* ShutDown.  They keep the contract of the API: an Inc only between        *)
(* RegisterThr and DeregisterThr, and none once ShutDown is called.         *)
(*                                                                          *)
(* thr: "new"; "idle"  registered; "inc"  between IncRaw and Propagator::   *)
(* Inc of an Inc; "sigRecv", "waitProp", "waitRecv"  in ShutDown, before    *)
(* Receiver::SignalTerm and the two WaitTerm; "down"  ShutDown returned;    *)
(* "gone"  deregistered.                                                    *)
(***************************************************************************)
EXTENDS Propagator, Receiver

VARIABLES
    thr,      \* thr[n][t]: where thread t of node n is
    pend,     \* pend[n][t]: the log message of the Inc in progress
    incs      \* incs[n]: number of Incs started, which names the next token

appVars == <<thr, pend, incs>>

ApplicationTypeOK ==
    /\ thr \in [Nodes -> [Threads -> {"new", "idle", "inc", "sigRecv",
                                      "waitProp", "waitRecv", "down", "gone"}]]
    /\ pend \in [Nodes -> [Threads -> Seq(LogMsg)]]
    /\ incs \in [Nodes -> 0 .. MaxInc]

ApplicationInit ==
    /\ thr = [n \in Nodes |-> [t \in Threads |-> "new"]]
    /\ pend = [n \in Nodes |-> [t \in Threads |-> <<>>]]
    /\ incs = [n \in Nodes |-> 0]

Goto(n, t, from, to) ==
    /\ Alive(n)
    /\ thr[n][t] = from
    /\ thr' = [thr EXCEPT ![n][t] = to]

ShutDownCalled(n) ==
    /\ n \in Closers
    /\ thr[n][Main] \in {"sigRecv", "waitProp", "waitRecv", "down", "gone"}

RegisterThr(n, t) ==
    /\ Goto(n, t, "new", "idle")
    /\ pState[n] = "RUN"
    /\ UNCHANGED <<wireVars, storage, pend, incs>>

DeregisterThr(n, t) ==
    /\ \/ Goto(n, t, "down", "gone")
       \/ /\ t # Main \/ n \notin Closers
          /\ Goto(n, t, "idle", "gone")
    /\ UNCHANGED <<wireVars, storage, pend, incs>>

(* Inc, first half: InternalTable::IncRaw on the local table.              *)
Inc(n, t, table, key) ==
    /\ n \in Writers
    /\ incs[n] < MaxInc
    /\ ~ShutDownCalled(n)
    /\ Goto(n, t, "idle", "inc")
    /\ IncRaw(n, table, key, Delta(<<n, incs[n]>>))
    /\ pend' = [pend EXCEPT ![n][t] =
            <<[type |-> "EPUpdateLog", table |-> table,
               key |-> NarrowKey(key), delta |-> Delta(<<n, incs[n]>>)]>>]
    /\ incs' = [incs EXCEPT ![n] = @ + 1]
    /\ UNCHANGED wireVars

(* Inc, second half: Propagator::Inc sends the log message, unless the     *)
(* propagator has left RUN; the caller ignores the failure.                *)
PropagatorInc(n, t) ==
    /\ Goto(n, t, "inc", "idle")
    /\ logPipe' = IF pState[n] = "RUN"
                  THEN [logPipe EXCEPT ![n][t] = Enqueue(@, pend[n][t])]
                  ELSE logPipe
    /\ pend' = [pend EXCEPT ![n][t] = <<>>]
    /\ UNCHANGED <<fwdPipe, p2r, r2p, termPipe, tcp, sub, storage, incs>>

(* ShutDown: signal the propagator, then the receiver, then wait for each. *)
SignalTermPropagator(n) ==
    /\ n \in Closers
    /\ \A t \in Threads : thr[n][t] # "inc"
    /\ pState[n] = "RUN"
    /\ Goto(n, Main, "idle", "sigRecv")
    /\ logPipe' = [logPipe EXCEPT ![n][Main] =
                    Append(@, Msg("EPInternalTerminate"))]
    /\ UNCHANGED <<fwdPipe, p2r, r2p, termPipe, tcp, sub, storage, pend, incs>>

SignalTermReceiver(n) ==
    /\ rState[n] = "RUN"
    /\ Goto(n, Main, "sigRecv", "waitProp")
    /\ termPipe' = [termPipe EXCEPT ![n] =
                    Append(@, Msg("ERInternalTerminate"))]
    /\ UNCHANGED <<logPipe, fwdPipe, p2r, r2p, tcp, sub, storage, pend, incs>>

WaitTermPropagator(n) ==
    /\ pPc[n] = "exit"
    /\ Goto(n, Main, "waitProp", "waitRecv")
    /\ UNCHANGED <<wireVars, storage, pend, incs>>

WaitTermReceiver(n) ==
    /\ rPc[n] = "exit"
    /\ Goto(n, Main, "waitRecv", "down")
    /\ UNCHANGED <<wireVars, storage, pend, incs>>

ShutDownStep(n) ==
    \/ SignalTermReceiver(n)
    \/ WaitTermPropagator(n)
    \/ WaitTermReceiver(n)

ApplicationStep(n) ==
    \/ \E t \in Threads :
        \/ RegisterThr(n, t) \/ DeregisterThr(n, t) \/ PropagatorInc(n, t)
        \/ \E table \in Tables, key \in Keys : Inc(n, t, table, key)
    \/ SignalTermPropagator(n)
    \/ ShutDownStep(n)
=============================================================================
