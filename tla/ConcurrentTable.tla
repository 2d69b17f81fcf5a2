-------------------------- MODULE ConcurrentTable --------------------------
(***************************************************************************)
(* internal_table: Get and IncRaw step by step, by several threads at once, *)
(* on a tbb::concurrent_hash_map of pointers to values.                     *)
(*                                                                          *)
(* Of the map (third_party/tbb42) the code uses this: find locks an element *)
(* that is there for reading, insert locks it for writing and creates it, with a    *)
(* null pointer, if it is not there; both wait for conflicting locks, and   *)
(* the lock is released when the accessor goes out of scope.                *)
(*                                                                          *)
(* pc: "idle";  "find", "read"  the first half of Get;  "insert", "init",   *)
(* "use"  its second half, and IncRaw;  "write"  inside vadd_func_;         *)
(* "return".                                                                *)
(***************************************************************************)
EXTENDS Integers

CONSTANTS
    Callers, Keys, Deltas,  \* as in AtomicTable
    MaxCalls                \* bound: the number of calls of a thread

ASSUME TableAssumption ==
    /\ Deltas \subseteq Int
    /\ MaxCalls \in Nat

Call == [op : {"Get"}, key : Keys, delta : {0}]
        \cup [op : {"IncRaw"}, key : Keys, delta : Deltas]

VARIABLES
    present,   \* keys with an element in storage_
    alloc,     \* keys whose element points to a value
    val,       \* the values
    readers,   \* threads that hold a key's lock for reading,
    writers,   \* and for writing
    pc, call,
    seen,      \* the value vadd_func_ has read
    result, calls

vars == <<present, alloc, val, readers, writers, pc, call, seen, result, calls>>

Locs == {"idle", "find", "read", "insert", "init", "use", "write", "return"}

TypeOK ==
    /\ present \in SUBSET Keys /\ alloc \in SUBSET Keys
    /\ val \in [Keys -> Int]
    /\ readers \in [Keys -> SUBSET Callers]
    /\ writers \in [Keys -> SUBSET Callers]
    /\ pc \in [Callers -> Locs]
    /\ call \in [Callers -> Call]
    /\ seen \in [Callers -> Int]
    /\ result \in [Callers -> Int]
    /\ calls \in [Callers -> Nat]

Init ==
    /\ present = {} /\ alloc = {}
    /\ val = [k \in Keys |-> 0]
    /\ readers = [k \in Keys |-> {}]
    /\ writers = [k \in Keys |-> {}]
    /\ pc = [t \in Callers |-> "idle"]
    /\ \E c \in Call : call = [t \in Callers |-> c]
    /\ seen = [t \in Callers |-> 0]
    /\ result = [t \in Callers |-> 0]
    /\ calls = [t \in Callers |-> 0]

At(t, loc) == pc[t] = loc

Enter(t, loc) == pc' = [pc EXCEPT ![t] = loc]

Key(t) == call[t].key

Invoke(t) ==
    /\ At(t, "idle")
    /\ calls[t] < MaxCalls
    /\ calls' = [calls EXCEPT ![t] = @ + 1]
    /\ \E c \in Call :
        /\ call' = [call EXCEPT ![t] = c]
        /\ Enter(t, IF c.op = "Get" THEN "find" ELSE "insert")
    /\ UNCHANGED <<present, alloc, val, readers, writers, seen, result>>

(* storage_.find(value_acc, _key)                                          *)
Find(t) ==
    /\ At(t, "find")
    /\ IF Key(t) \in present
       THEN /\ writers[Key(t)] = {}
            /\ readers' = [readers EXCEPT ![Key(t)] = @ \cup {t}]
            /\ Enter(t, "read")
       ELSE Enter(t, "insert") /\ UNCHANGED readers
    /\ UNCHANGED <<present, alloc, val, writers, call, seen, result, calls>>

(* Mutant of MayWrite: an insert does not wait for the lock.               *)
MayWriteAnyTime(k) == TRUE

MayWrite(k) == readers[k] = {} /\ writers[k] = {}

(* storage_.insert(value_acc, _key): true if the key is new.               *)
Insert(t) ==
    /\ At(t, "insert")
    /\ MayWrite(Key(t))
    /\ writers' = [writers EXCEPT ![Key(t)] = @ \cup {t}]
    /\ present' = present \cup {Key(t)}
    /\ Enter(t, IF Key(t) \in present THEN "use" ELSE "init")
    /\ UNCHANGED <<alloc, val, readers, call, seen, result, calls>>

(* new uint8_t[] and memset.                                               *)
InitValue(t) ==
    /\ At(t, "init")
    /\ alloc' = alloc \cup {Key(t)}
    /\ val' = [val EXCEPT ![Key(t)] = 0]
    /\ Enter(t, "use")
    /\ UNCHANGED <<present, readers, writers, call, seen, result, calls>>

(* Mutant of Release: the accessor is not destroyed.                       *)
KeepLock(locks, t) == locks

(* The destructor of the accessor.                                         *)
Release(locks, t) == [locks EXCEPT ![Key(t)] = @ \ {t}]

(* The end of Get: the value is read and the lock released.                *)
GetValue(t) ==
    /\ At(t, "read") \/ (At(t, "use") /\ call[t].op = "Get")
    /\ result' = [result EXCEPT ![t] = val[Key(t)]]
    /\ readers' = Release(readers, t)
    /\ writers' = Release(writers, t)
    /\ Enter(t, "return")
    /\ UNCHANGED <<present, alloc, val, call, seen, calls>>

(* The end of IncRaw: vadd_func_ reads, and then writes the value.         *)
AddRead(t) ==
    /\ At(t, "use") /\ call[t].op = "IncRaw"
    /\ seen' = [seen EXCEPT ![t] = val[Key(t)]]
    /\ Enter(t, "write")
    /\ UNCHANGED <<present, alloc, val, readers, writers, call, result, calls>>

AddWrite(t) ==
    /\ At(t, "write")
    /\ val' = [val EXCEPT ![Key(t)] = seen[t] + call[t].delta]
    /\ writers' = Release(writers, t)
    /\ Enter(t, "return")
    /\ UNCHANGED <<present, alloc, readers, call, seen, result, calls>>

Return(t) ==
    /\ At(t, "return")
    /\ Enter(t, "idle")
    /\ UNCHANGED <<present, alloc, val, readers, writers, call, seen, result, calls>>

Step(t) ==
    \/ Find(t) \/ Insert(t) \/ InitValue(t) \/ GetValue(t)
    \/ AddRead(t) \/ AddWrite(t) \/ Return(t)

(* Every thread has made its calls.                                        *)
Finished ==
    /\ \A t \in Callers : At(t, "idle") /\ calls[t] = MaxCalls
    /\ UNCHANGED vars

Next == (\E t \in Callers : Invoke(t) \/ Step(t)) \/ Finished

Spec == Init /\ [][Next]_vars

(* A thread that can go on does so; the calls being bounded, a lock that   *)
(* is waited for is free in the end.                                       *)
FairSpec == Spec /\ \A t \in Callers : WF_vars(Step(t))

-----------------------------------------------------------------------------
(* No thread follows the null pointer of an element that another thread    *)
(* has inserted and not yet initialised.                                   *)
NoNullRead ==
    \A t \in Callers :
        pc[t] \in {"read", "use", "write"} => Key(t) \in alloc

(* Get and IncRaw take effect at one instant: the abstract value of a key  *)
(* is what its element points to, or zero.                                 *)
Atomic == INSTANCE AtomicTable WITH
    table <- [k \in Keys |-> IF k \in alloc THEN val[k] ELSE 0],
    phase <- [t \in Callers |-> CASE pc[t] = "idle" -> "idle"
                                  [] pc[t] = "return" -> "done"
                                  [] OTHER -> "called"]

TableIsAtomic == Atomic!Spec

(* Get and IncRaw return: no thread waits for a lock for ever.             *)
EveryCallReturns == \A t \in Callers : (pc[t] # "idle") ~> (pc[t] = "idle")
=============================================================================
