---------------------------- MODULE TableProofs ----------------------------
(***************************************************************************)
(* internal_table is an atomic table for any number of threads, keys and    *)
(* calls: no thread follows a null pointer, and every step of Get and       *)
(* IncRaw is a step of AtomicTable or invisible there.                      *)
(***************************************************************************)
EXTENDS ConcurrentTable, TLAPS

(* The locks: who holds one is where the code holds one, and a writer is   *)
(* alone.                                                                  *)
Locks ==
    /\ \A t \in Callers, k \in Keys :
        /\ t \in writers[k] <=> pc[t] \in {"init", "use", "write"} /\ Key(t) = k
        /\ t \in readers[k] <=> pc[t] = "read" /\ Key(t) = k
    /\ \A k \in Keys, s, t \in Callers :
        s \in writers[k] => t \notin readers[k] /\ (t \in writers[k] => s = t)

(* The elements: one that is there and points nowhere is being initialised *)
(* by the thread that has its lock.                                        *)
Elements ==
    /\ alloc \subseteq present
    /\ \A k \in present \ alloc : \E t \in Callers : pc[t] = "init" /\ Key(t) = k
    /\ \A t \in Callers : pc[t] = "init" => Key(t) \in present \ alloc

(* The calls: each thread is in the function it has called, and what       *)
(* vadd_func_ has read is not overwritten.                                 *)
Progress ==
    \A t \in Callers :
        /\ pc[t] \in {"find", "read"} => call[t].op = "Get"
        /\ pc[t] = "write" => call[t].op = "IncRaw" /\ seen[t] = val[Key(t)]

TableInv == TypeOK /\ Locks /\ Elements /\ NoNullRead /\ Progress

-----------------------------------------------------------------------------
LEMMA CallType ==
    ASSUME NEW c \in Call
    PROVE  /\ c.op \in {"Get", "IncRaw"}
           /\ c.key \in Keys
           /\ c.delta \in Int
<1>1. CASE c \in [op : {"Get"}, key : Keys, delta : {0}]
  BY <1>1
<1>2. CASE c \in [op : {"IncRaw"}, key : Keys, delta : Deltas]
  BY <1>2, TableAssumption
<1> QED
  BY <1>1, <1>2 DEF Call

LEMMA TableInit == Init => TableInv
<1> SUFFICES ASSUME Init PROVE TableInv
  OBVIOUS
<1>1. TypeOK
  BY TableAssumption DEF Init, TypeOK, Locs
<1>2. Locks /\ Elements /\ NoNullRead /\ Progress
  BY DEF Init, Locks, Elements, NoNullRead, Progress, Key
<1> QED
  BY <1>1, <1>2 DEF TableInv

LEMMA TypeStep == TypeOK /\ [Next]_vars => TypeOK'
<1> SUFFICES ASSUME TypeOK, [Next]_vars PROVE TypeOK'
  OBVIOUS
<1> USE DEF TypeOK, Locs, Enter, Key, At
<1>1. ASSUME NEW t \in Callers, Invoke(t) PROVE TypeOK'
  BY <1>1 DEF Invoke
<1>2. ASSUME NEW t \in Callers, Find(t) PROVE TypeOK'
  <2>1. call[t].key \in Keys
    BY CallType
  <2> QED
    BY <1>2, <2>1 DEF Find
<1>3. ASSUME NEW t \in Callers, Insert(t) PROVE TypeOK'
  <2>1. call[t].key \in Keys
    BY CallType
  <2> QED
    BY <1>3, <2>1 DEF Insert
<1>4. ASSUME NEW t \in Callers, InitValue(t) PROVE TypeOK'
  <2>1. call[t].key \in Keys
    BY CallType
  <2> QED
    BY <1>4, <2>1 DEF InitValue
<1>5. ASSUME NEW t \in Callers, GetValue(t) PROVE TypeOK'
  <2>1. call[t].key \in Keys
    BY CallType
  <2> QED
    BY <1>5, <2>1 DEF GetValue, Release
<1>6. ASSUME NEW t \in Callers, AddRead(t) PROVE TypeOK'
  <2>1. call[t].key \in Keys
    BY CallType
  <2> QED
    BY <1>6, <2>1 DEF AddRead
<1>7. ASSUME NEW t \in Callers, AddWrite(t) PROVE TypeOK'
  <2>1. call[t].key \in Keys /\ call[t].delta \in Int
    BY CallType
  <2> QED
    BY <1>7, <2>1 DEF AddWrite, Release
<1>8. ASSUME NEW t \in Callers, Return(t) PROVE TypeOK'
  BY <1>8 DEF Return
<1>9. CASE UNCHANGED vars
  BY <1>9 DEF vars
<1> QED
  BY <1>1, <1>2, <1>3, <1>4, <1>5, <1>6, <1>7, <1>8, <1>9 DEF Next, Step, Finished

LEMMA TableNext == TableInv /\ [Next]_vars => TableInv'
<1> SUFFICES ASSUME TableInv, [Next]_vars PROVE TableInv'
  OBVIOUS
<1>0. TypeOK'
  BY TypeStep DEF TableInv
<1>k. \A t \in Callers : Key(t) \in Keys
  BY CallType DEF TableInv, TypeOK, Key
<1> DEFINE Rest == Locks /\ Elements /\ NoNullRead /\ Progress
<1>1. ASSUME NEW t \in Callers, Invoke(t) PROVE Rest'
  <2>1. \A s \in Callers : s # t => Key(s)' = Key(s) /\ call[s]' = call[s] /\ pc[s]' = pc[s]
    BY <1>1 DEF Invoke, Key, TableInv, TypeOK, Enter
  <2>2. pc[t] = "idle" /\ pc[t]' \in {"find", "insert"} /\ (pc[t]' = "find" => call[t]'.op = "Get")
    BY <1>1 DEF Invoke, At, Enter, TableInv, TypeOK
  <2>3. UNCHANGED <<present, alloc, val, readers, writers, seen>>
    BY <1>1 DEF Invoke
  <2>4. Locks'
    BY <2>1, <2>2, <2>3 DEF TableInv, Locks
  <2>5. Elements'
    BY <2>1, <2>2, <2>3 DEF TableInv, Elements
  <2>6. NoNullRead' /\ Progress'
    BY <2>1, <2>2, <2>3 DEF TableInv, NoNullRead, Progress
  <2> QED
    BY <2>4, <2>5, <2>6
<1> DEFINE Others(t) == /\ call' = call
                        /\ \A s \in Callers : Key(s)' = Key(s)
                        /\ \A s \in Callers : s # t => pc'[s] = pc[s] /\ seen'[s] = seen[s]
<1>2. ASSUME NEW t \in Callers, Find(t) PROVE Rest'
  <2>1. Others(t) /\ UNCHANGED <<present, alloc, val, writers, seen>>
    BY <1>2 DEF Find, Key, TableInv, TypeOK, Enter
  <2>2. CASE Key(t) \in present
    <3>1. pc[t] = "find" /\ pc'[t] = "read" /\ writers[Key(t)] = {}
          /\ readers' = [readers EXCEPT ![Key(t)] = @ \cup {t}]
      BY <1>2, <2>2 DEF Find, At, Enter, TableInv, TypeOK
    <3>2. Key(t) \in alloc
      <4>1. ASSUME NEW s \in Callers, pc[s] = "init", Key(s) = Key(t) PROVE FALSE
        BY <4>1, <3>1, <1>k DEF TableInv, Locks
      <4> QED
        BY <4>1, <2>2 DEF TableInv, Elements
    <3>3. Locks'
      <4>1. \A k \in Keys : readers'[k] = IF k = Key(t) THEN readers[k] \cup {t} ELSE readers[k]
        BY <3>1, <1>k DEF TableInv, TypeOK
      <4> QED
        BY <2>1, <3>1, <4>1, <1>k DEF TableInv, Locks
    <3>4. Elements'
      BY <2>1, <3>1 DEF TableInv, Elements
    <3>5. NoNullRead' /\ Progress'
      BY <2>1, <3>1, <3>2 DEF TableInv, NoNullRead, Progress
    <3> QED
      BY <3>3, <3>4, <3>5
  <2>3. CASE Key(t) \notin present
    <3>1. pc[t] = "find" /\ pc'[t] = "insert" /\ readers' = readers
      BY <1>2, <2>3 DEF Find, At, Enter, TableInv, TypeOK
    <3>2. Locks'
      BY <2>1, <3>1 DEF TableInv, Locks
    <3>3. Elements'
      BY <2>1, <3>1 DEF TableInv, Elements
    <3>4. NoNullRead' /\ Progress'
      BY <2>1, <3>1 DEF TableInv, NoNullRead, Progress
    <3> QED
      BY <3>2, <3>3, <3>4
  <2> QED
    BY <2>2, <2>3
<1>3. ASSUME NEW t \in Callers, Insert(t) PROVE Rest'
  <2>1. Others(t) /\ UNCHANGED <<alloc, val, readers, seen>>
    BY <1>3 DEF Insert, Key, TableInv, TypeOK, Enter
  <2>2. /\ pc[t] = "insert"
        /\ pc'[t] = IF Key(t) \in present THEN "use" ELSE "init"
        /\ readers[Key(t)] = {} /\ writers[Key(t)] = {}
        /\ present' = present \cup {Key(t)}
    BY <1>3 DEF Insert, MayWrite, At, Enter, TableInv, TypeOK
  <2>3. \A k \in Keys : writers'[k] = IF k = Key(t) THEN {t} ELSE writers[k]
    BY <1>3, <2>2, <1>k DEF Insert, TableInv, TypeOK
  <2>4. Locks'
    BY <2>1, <2>2, <2>3, <1>k DEF TableInv, Locks
  <2>5. Key(t) \in present => Key(t) \in alloc
    <3>1. ASSUME NEW s \in Callers, pc[s] = "init", Key(s) = Key(t) PROVE FALSE
      BY <3>1, <2>2, <1>k DEF TableInv, Locks
    <3> QED
      BY <3>1 DEF TableInv, Elements
  <2>6. Elements'
    BY <2>1, <2>2, <2>5 DEF TableInv, Elements
  <2>7. NoNullRead' /\ Progress'
    BY <2>1, <2>2, <2>5 DEF TableInv, NoNullRead, Progress
  <2> QED
    BY <2>4, <2>6, <2>7
<1>4. ASSUME NEW t \in Callers, InitValue(t) PROVE Rest'
  <2>1. Others(t) /\ UNCHANGED <<present, readers, writers, seen>>
    BY <1>4 DEF InitValue, Key, TableInv, TypeOK, Enter
  <2>2. pc[t] = "init" /\ pc'[t] = "use" /\ alloc' = alloc \cup {Key(t)}
    BY <1>4 DEF InitValue, At, Enter, TableInv, TypeOK
  <2>3. \A k \in Keys : k # Key(t) => val'[k] = val[k]
    BY <1>4 DEF InitValue, TableInv, TypeOK
  <2>4. Locks'
    BY <2>1, <2>2 DEF TableInv, Locks
  <2>5. \A s \in Callers : s # t /\ pc[s] \in {"init", "use", "write"} => Key(s) # Key(t)
    BY <2>2, <1>k DEF TableInv, Locks
  <2>6. Elements'
    BY <2>1, <2>2, <2>5 DEF TableInv, Elements
  <2>7. NoNullRead'
    BY <2>1, <2>2 DEF TableInv, NoNullRead
  <2>8. Progress'
    BY <2>1, <2>2, <2>3, <2>5, <1>k DEF TableInv, Progress
  <2> QED
    BY <2>4, <2>6, <2>7, <2>8
<1>5. ASSUME NEW t \in Callers, GetValue(t) PROVE Rest'
  <2>1. Others(t) /\ UNCHANGED <<present, alloc, val, seen>>
    BY <1>5 DEF GetValue, Key, TableInv, TypeOK, Enter
  <2>2. pc[t] \in {"read", "use"} /\ pc'[t] = "return"
    BY <1>5 DEF GetValue, At, Enter, TableInv, TypeOK
  <2>3. \A k \in Keys :
            /\ writers'[k] = IF k = Key(t) THEN writers[k] \ {t} ELSE writers[k]
            /\ readers'[k] = IF k = Key(t) THEN readers[k] \ {t} ELSE readers[k]
    BY <1>5 DEF GetValue, Release, TableInv, TypeOK
  <2>4. Locks'
    <3>0. \A k \in Keys : k # Key(t) => t \notin writers[k] /\ t \notin readers[k]
      BY DEF TableInv, Locks
    <3>1. \A s \in Callers, k \in Keys :
            /\ s \in writers'[k] <=> s \in writers[k] /\ s # t
            /\ s \in readers'[k] <=> s \in readers[k] /\ s # t
      <4> TAKE s \in Callers, k \in Keys
      <4>1. CASE k = Key(t)
        BY <2>1, <2>3, <3>0, <4>1, ZenonT(40)
      <4>2. CASE k # Key(t)
        BY <2>1, <2>3, <3>0, <4>2
      <4> QED
        BY <4>1, <4>2
    <3>2. \A s \in Callers, k \in Keys :
            /\ s \in writers'[k] <=> pc'[s] \in {"init", "use", "write"} /\ Key(s)' = k
            /\ s \in readers'[k] <=> pc'[s] = "read" /\ Key(s)' = k
      BY <2>1, <2>2, <3>1 DEF TableInv, Locks
    <3>3. \A k \in Keys, r, s \in Callers :
            r \in writers'[k] => s \notin readers'[k] /\ (s \in writers'[k] => r = s)
      BY <3>1 DEF TableInv, Locks
    <3> QED
      BY <3>2, <3>3 DEF Locks
  <2>5. Elements'
    BY <2>1, <2>2 DEF TableInv, Elements
  <2>6. NoNullRead' /\ Progress'
    BY <2>1, <2>2 DEF TableInv, NoNullRead, Progress
  <2> QED
    BY <2>4, <2>5, <2>6
<1>6. ASSUME NEW t \in Callers, AddRead(t) PROVE Rest'
  <2>1. Others(t) /\ UNCHANGED <<present, alloc, val, readers, writers>>
    BY <1>6 DEF AddRead, Key, TableInv, TypeOK, Enter
  <2>2. pc[t] = "use" /\ pc'[t] = "write" /\ call[t].op = "IncRaw" /\ seen'[t] = val[Key(t)]
    BY <1>6 DEF AddRead, At, Enter, TableInv, TypeOK
  <2>3. Locks'
    BY <2>1, <2>2 DEF TableInv, Locks
  <2>4. Elements'
    BY <2>1, <2>2 DEF TableInv, Elements
  <2>5. NoNullRead' /\ Progress'
    BY <2>1, <2>2 DEF TableInv, NoNullRead, Progress
  <2> QED
    BY <2>3, <2>4, <2>5
<1>7. ASSUME NEW t \in Callers, AddWrite(t) PROVE Rest'
  <2>1. Others(t) /\ UNCHANGED <<present, alloc, readers, seen>>
    BY <1>7 DEF AddWrite, Key, TableInv, TypeOK, Enter
  <2>2. pc[t] = "write" /\ pc'[t] = "return"
    BY <1>7 DEF AddWrite, At, Enter, TableInv, TypeOK
  <2>3. \A k \in Keys :
            /\ writers'[k] = IF k = Key(t) THEN writers[k] \ {t} ELSE writers[k]
            /\ k # Key(t) => val'[k] = val[k]
    BY <1>7 DEF AddWrite, Release, TableInv, TypeOK
  <2>4. Locks'
    <3>0. \A k \in Keys : /\ t \notin readers[k]
                          /\ k # Key(t) => t \notin writers[k]
      BY <2>2 DEF TableInv, Locks
    <3>1. \A s \in Callers, k \in Keys :
            /\ s \in writers'[k] <=> s \in writers[k] /\ s # t
            /\ s \in readers'[k] <=> s \in readers[k] /\ s # t
      <4> TAKE s \in Callers, k \in Keys
      <4>1. CASE k = Key(t)
        BY <2>1, <2>3, <3>0, <4>1
      <4>2. CASE k # Key(t)
        BY <2>1, <2>3, <3>0, <4>2
      <4> QED
        BY <4>1, <4>2
    <3>2. \A s \in Callers, k \in Keys :
            /\ s \in writers'[k] <=> pc'[s] \in {"init", "use", "write"} /\ Key(s)' = k
            /\ s \in readers'[k] <=> pc'[s] = "read" /\ Key(s)' = k
      BY <2>1, <2>2, <3>1 DEF TableInv, Locks
    <3>3. \A k \in Keys, r, s \in Callers :
            r \in writers'[k] => s \notin readers'[k] /\ (s \in writers'[k] => r = s)
      BY <3>1 DEF TableInv, Locks
    <3> QED
      BY <3>2, <3>3 DEF Locks
  <2>5. Elements'
    BY <2>1, <2>2 DEF TableInv, Elements
  <2>6. \A s \in Callers : s # t /\ pc[s] = "write" => Key(s) # Key(t)
    BY <2>2, <1>k DEF TableInv, Locks
  <2>7. NoNullRead' /\ Progress'
    BY <2>1, <2>2, <2>3, <2>6, <1>k, ZenonT(40) DEF TableInv, NoNullRead, Progress
  <2> QED
    BY <2>4, <2>5, <2>7
<1>8. ASSUME NEW t \in Callers, Return(t) PROVE Rest'
  <2>1. Others(t) /\ UNCHANGED <<present, alloc, val, readers, writers, seen>>
    BY <1>8 DEF Return, Key, TableInv, TypeOK, Enter
  <2>2. pc[t] = "return" /\ pc'[t] = "idle"
    BY <1>8 DEF Return, At, Enter, TableInv, TypeOK
  <2>3. Locks'
    BY <2>1, <2>2 DEF TableInv, Locks
  <2>4. Elements'
    BY <2>1, <2>2 DEF TableInv, Elements
  <2>5. NoNullRead' /\ Progress'
    BY <2>1, <2>2 DEF TableInv, NoNullRead, Progress
  <2> QED
    BY <2>3, <2>4, <2>5
<1>9. ASSUME UNCHANGED vars PROVE Rest'
  BY <1>9 DEF vars, TableInv, Locks, Elements, NoNullRead, Progress, Key
<1> HIDE DEF Rest
<1>10. Rest'
  BY <1>1, <1>2, <1>3, <1>4, <1>5, <1>6, <1>7, <1>8, <1>9
  DEF Next, Step, Finished
<1> QED
  BY <1>0, <1>10 DEF TableInv, Rest

(* The inductive invariant of the table: locks exclude each other, and an  *)
(* element without a value belongs to the thread that initialises it       *)
(* (internal_table.cpp).                                                   *)
THEOREM TableInvariant == Spec => []TableInv
  BY TableInit, TableNext, PTL DEF Spec

(* No thread follows the null pointer of an element that another thread    *)
(* has inserted and not yet initialised.                                   *)
THEOREM NoNull == Spec => []NoNullRead
<1>1. TableInv => NoNullRead
  BY DEF TableInv
<1> QED
  BY <1>1, TableInvariant, PTL

-----------------------------------------------------------------------------
LEMMA AtomicInit == Init => Atomic!Init
  BY DEF Init, Atomic!Init, Call, Atomic!Call

LEMMA AtomicNext == TableInv /\ [Next]_vars => [Atomic!Next]_Atomic!vars
<1> SUFFICES ASSUME TableInv, [Next]_vars PROVE [Atomic!Next]_Atomic!vars
  OBVIOUS
<1> DEFINE tab == [k \in Keys |-> IF k \in alloc THEN val[k] ELSE 0]
           ph  == [t \in Callers |-> CASE pc[t] = "idle" -> "idle"
                                       [] pc[t] = "return" -> "done"
                                       [] OTHER -> "called"]
<1>c. Call = Atomic!Call
  BY DEF Call, Atomic!Call
<1>k. \A t \in Callers : Key(t) \in Keys
  BY CallType DEF TableInv, TypeOK, Key
<1>s. ASSUME ph' = ph, tab' = tab, call' = call, result' = result
      PROVE  UNCHANGED Atomic!vars
  BY <1>s DEF Atomic!vars
<1>1. ASSUME NEW t \in Callers, Invoke(t) PROVE Atomic!Invoke(t)
  <2>1. pc[t] = "idle" /\ pc'[t] \in {"find", "insert"} /\ pc' = [pc EXCEPT ![t] = pc'[t]]
    BY <1>1 DEF Invoke, At, Enter, TableInv, TypeOK
  <2>2. ph[t] = "idle" /\ ph' = [ph EXCEPT ![t] = "called"]
    BY <2>1 DEF TableInv, TypeOK
  <2>3. tab' = tab
    BY <1>1 DEF Invoke
  <2> QED
    BY <1>1, <2>2, <2>3, <1>c DEF Invoke, Atomic!Invoke
<1> DEFINE Silent == ph' = ph /\ tab' = tab /\ call' = call /\ result' = result
<1>2. ASSUME NEW t \in Callers, Find(t) \/ Insert(t) \/ AddRead(t) PROVE Silent
  <2>1. /\ pc[t] \notin {"idle", "return"} /\ pc'[t] \notin {"idle", "return"}
        /\ pc' = [pc EXCEPT ![t] = pc'[t]]
    BY <1>2 DEF Find, Insert, AddRead, At, Enter, TableInv, TypeOK
  <2>2. ph' = ph
    BY <2>1 DEF TableInv, TypeOK
  <2> QED
    BY <1>2, <2>2 DEF Find, Insert, AddRead
<1>3. ASSUME NEW t \in Callers, InitValue(t) PROVE Silent
  <2>1. /\ pc[t] = "init" /\ pc'[t] = "use"
        /\ pc' = [pc EXCEPT ![t] = "use"]
    BY <1>3 DEF InitValue, At, Enter, TableInv, TypeOK
  <2>2. ph' = ph
    BY <2>1 DEF TableInv, TypeOK
  <2>3. Key(t) \notin alloc
    BY <2>1 DEF TableInv, Elements
  <2>4. tab' = tab
    BY <1>3, <2>3 DEF InitValue, TableInv, TypeOK
  <2> QED
    BY <1>3, <2>2, <2>4 DEF InitValue
<1>4. ASSUME NEW t \in Callers, GetValue(t) PROVE Atomic!TakeEffect(t)
  <2>1. /\ pc[t] \in {"read", "use"} /\ pc' = [pc EXCEPT ![t] = "return"]
        /\ call[t].op = "Get"
    BY <1>4 DEF GetValue, At, Enter, TableInv, TypeOK, Progress
  <2>2. ph[t] = "called" /\ ph' = [ph EXCEPT ![t] = "done"]
    BY <2>1 DEF TableInv, TypeOK
  <2>3. tab[Key(t)] = val[Key(t)]
    BY <2>1, <1>k DEF TableInv, NoNullRead
  <2>4. /\ result' = [result EXCEPT ![t] = tab[call[t].key]]
        /\ tab' = tab /\ call' = call
    BY <1>4, <2>3 DEF GetValue, Key
  <2> QED
    BY <2>1, <2>2, <2>4 DEF Atomic!TakeEffect
<1>5. ASSUME NEW t \in Callers, AddWrite(t) PROVE Atomic!TakeEffect(t)
  <2>1. /\ pc[t] = "write" /\ pc' = [pc EXCEPT ![t] = "return"]
        /\ call[t].op = "IncRaw" /\ seen[t] = val[Key(t)]
    BY <1>5 DEF AddWrite, At, Enter, TableInv, Progress
  <2>2. ph[t] = "called" /\ ph' = [ph EXCEPT ![t] = "done"]
    BY <2>1 DEF TableInv, TypeOK
  <2>3. Key(t) \in alloc /\ Key(t) \in Keys
    BY <2>1, <1>k DEF TableInv, NoNullRead
  <2>4. val' = [val EXCEPT ![Key(t)] = val[Key(t)] + call[t].delta] /\ alloc' = alloc
    BY <1>5, <2>1 DEF AddWrite
  <2>5. tab' = [tab EXCEPT ![call[t].key] = tab[call[t].key] + call[t].delta]
    BY <2>3, <2>4 DEF Key, TableInv, TypeOK
  <2> QED
    BY <1>5, <2>1, <2>2, <2>5 DEF AddWrite, Atomic!TakeEffect
<1>6. ASSUME NEW t \in Callers, Return(t) PROVE Atomic!Return(t)
  <2>1. pc[t] = "return" /\ pc' = [pc EXCEPT ![t] = "idle"]
    BY <1>6 DEF Return, At, Enter
  <2>2. ph[t] = "done" /\ ph' = [ph EXCEPT ![t] = "idle"]
    BY <2>1 DEF TableInv, TypeOK
  <2> QED
    BY <1>6, <2>2 DEF Return, Atomic!Return
<1>7. ASSUME UNCHANGED vars PROVE Silent
  BY <1>7 DEF vars
<1> HIDE DEF tab, ph
<1> QED
  BY <1>1, <1>2, <1>3, <1>4, <1>5, <1>6, <1>7, <1>s DEF Next, Step, Finished, Atomic!Next

(* Get and IncRaw implement the operations of AtomicTable.                 *)
THEOREM TableRefinement == Spec => TableIsAtomic
  BY AtomicInit, AtomicNext, TableInvariant, PTL DEF Spec, Atomic!Spec, TableIsAtomic
=============================================================================
