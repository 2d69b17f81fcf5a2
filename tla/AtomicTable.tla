---------------------------- MODULE AtomicTable ----------------------------
(***************************************************************************)
(* What a table promises to the threads that share it: Get and IncRaw take  *)
(* effect at one instant between call and return, and a key that nobody has *)
(* incremented is zero.  Module InternalTable relies on this.               *)
(***************************************************************************)
EXTENDS Integers

CONSTANTS
    Callers,  \* application threads and the receiver thread
    Keys,
    Deltas    \* the deltas that IncRaw is called with

Call == [op : {"Get"}, key : Keys, delta : {0}]
        \cup [op : {"IncRaw"}, key : Keys, delta : Deltas]

VARIABLES
    table,   \* the value of each key
    phase,   \* "idle", "called" or "done", by thread
    call,    \* the arguments of a thread's last call
    result   \* what its last Get returned

vars == <<table, phase, call, result>>

Init ==
    /\ table = [k \in Keys |-> 0]
    /\ phase = [t \in Callers |-> "idle"]
    /\ call \in [Callers -> Call]
    /\ result = [t \in Callers |-> 0]

Invoke(t) ==
    /\ phase[t] = "idle"
    /\ \E c \in Call : call' = [call EXCEPT ![t] = c]
    /\ phase' = [phase EXCEPT ![t] = "called"]
    /\ UNCHANGED <<table, result>>

TakeEffect(t) ==
    /\ phase[t] = "called"
    /\ phase' = [phase EXCEPT ![t] = "done"]
    /\ IF call[t].op = "Get"
       THEN result' = [result EXCEPT ![t] = table[call[t].key]] /\ UNCHANGED table
       ELSE /\ table' = [table EXCEPT ![call[t].key] = @ + call[t].delta]
            /\ UNCHANGED result
    /\ UNCHANGED call

Return(t) ==
    /\ phase[t] = "done"
    /\ phase' = [phase EXCEPT ![t] = "idle"]
    /\ UNCHANGED <<table, call, result>>

Next == \E t \in Callers : Invoke(t) \/ TakeEffect(t) \/ Return(t)

Spec == Init /\ [][Next]_vars
=============================================================================
