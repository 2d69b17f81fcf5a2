--------------------------- MODULE StartupProofs ---------------------------
(***************************************************************************)
(* The start-up handshake for every set of processes and every pair of      *)
(* graphs: no process aborts, no PropStart is lost, nobody sends updates to *)
(* a receiver whose handshake is not over, and Start returns with four      *)
(* running threads.                                                         *)
(***************************************************************************)
EXTENDS Startup, FiniteSetTheorems, TLAPS

LEMMA PairFacts ==
    ASSUME NEW p \in Pairs
    PROVE  /\ p[1] \in Nodes /\ p[2] \in Dirs
           /\ \A q \in Pairs : q[1] = p[1] /\ q[2] = p[2] => q = p
           /\ HasDownstream(p) => Downstream[p] \in Pairs /\ p \in Up(Downstream[p])
           /\ \A q \in Up(p) : q \in Pairs /\ HasDownstream(q) /\ Downstream[q] = p /\ q[2] = p[2]
<1>0. NoPair \notin Pairs
  BY StartupNodes DEF NoPair, Pairs, Dirs
<1>1. p[1] \in Nodes /\ p[2] \in Dirs /\ \A q \in Pairs : q[1] = p[1] /\ q[2] = p[2] => q = p
  BY DEF Pairs
<1>2. HasDownstream(p) => Downstream[p] \in Pairs /\ p \in Up(Downstream[p])
  BY StartupGraph DEF HasDownstream, Up
<1>3. \A q \in Up(p) : q \in Pairs /\ HasDownstream(q) /\ Downstream[q] = p /\ q[2] = p[2]
  BY <1>0, StartupGraph DEF Up, HasDownstream
<1> QED
  BY <1>1, <1>2, <1>3

LEMMA PairOf == \A n \in Nodes, d \in Dirs : <<n, d>> \in Pairs /\ <<n, d>>[1] = n /\ <<n, d>>[2] = d
  BY DEF Pairs

LEMMA MsgType ==
    \A n \in Nodes, t \in {"PropInit", "PropInitACKACK", "EPRUpdateBuffer"} :
        PMsg(t, n) \in TcpMsg /\ PMsg(t, n).type = t /\ PMsg(t, n).id = n
  BY DEF PMsg, TcpMsg

LEMMA Increment ==
    ASSUME NEW S, NEW f \in [S -> Nat], NEW x \in S
    PROVE  [f EXCEPT ![x] = @ + 1] \in [S -> Nat]
  OBVIOUS

-----------------------------------------------------------------------------
(* Types.                                                                  *)

LEMMA TypeInit == Init => TypeOK
  BY DEF Init, TypeOK, Dirs

LEMMA TypePublish ==
    ASSUME TypeOK, NEW p, NEW msg \in SubMsg, Publish(p, msg)
    PROVE  sub' \in [Pairs -> Seq(SubMsg)]
<1>1. \A q \in Pairs : sub[q] \in Seq(SubMsg) /\ Append(sub[q], msg) \in Seq(SubMsg)
  BY DEF TypeOK
<1> QED
  BY <1>1 DEF Publish

LEMMA TypeNext == TypeOK /\ [Next]_vars => TypeOK'
<1> SUFFICES ASSUME TypeOK, [Next]_vars PROVE TypeOK'
  OBVIOUS
<1> USE DEF mainVars
<1>1. ASSUME NEW n \in Nodes, MainStep(n) PROVE TypeOK'
  <2>0. <<n, mainDir[n]>> \in Pairs
    BY PairOf DEF TypeOK
  <2>1. CASE CreatePropagator(n)
    BY <2>0, <2>1 DEF CreatePropagator, TypeOK
  <2>2. CASE SyncPropagator(n)
    BY <2>2 DEF SyncPropagator, TypeOK
  <2>3. CASE CreateReceiver(n)
    BY <2>0, <2>3 DEF CreateReceiver, TypeOK, Dirs
  <2>4. CASE StartReturns(n)
    BY <2>4 DEF StartReturns, TypeOK, Waits
  <2> QED
    BY <1>1, <2>1, <2>2, <2>3, <2>4 DEF MainStep
<1>2. ASSUME NEW p \in Pairs, PropStep(p) PROVE TypeOK'
  <2>0. p[1] \in Nodes /\ tcp[p] \in Seq(TcpMsg) /\ sub[p] \in Seq(SubMsg)
    BY PairFacts DEF TypeOK
  <2>1. CASE PropSockets(p)
    BY <2>1 DEF PropSockets, TypeOK
  <2>2. CASE PropRecvEPRInit(p)
    <3>1. Append(tcp[p], PMsg("PropInit", p[1])) \in Seq(TcpMsg)
      BY <2>0, MsgType
    <3>2. CASE HasDownstream(p)
      BY <2>0, <2>2, <3>1, <3>2, ZenonT(40) DEF PropRecvEPRInit, TypeOK
    <3>3. CASE ~HasDownstream(p)
      <4>0. syncSem' = [syncSem EXCEPT ![p[1]] = @ + 1]
        BY <2>2, <3>3 DEF PropRecvEPRInit, PropRun
      <4>1. syncSem' \in [Nodes -> Nat]
        BY <2>0, <4>0, Increment DEF TypeOK
      <4> QED
        BY <2>2, <3>3, <4>1 DEF PropRecvEPRInit, PropRun, TypeOK
    <3> QED
      BY <3>2, <3>3
  <2>3. CASE PropRecvInitACK(p)
    <3>1. Append(tcp[p], PMsg("PropInitACKACK", p[1])) \in Seq(TcpMsg)
      BY <2>0, MsgType
    <3>2. Tail(sub[p]) \in Seq(SubMsg)
      BY <2>0, <2>3 DEF PropRecvInitACK
    <3> QED
      BY <2>0, <2>3, <3>1, <3>2, ZenonT(40) DEF PropRecvInitACK, Abort, TypeOK
  <2>4. CASE PropRecvStart(p)
    <3>2. Tail(sub[p]) \in Seq(SubMsg)
      BY <2>0, <2>4 DEF PropRecvStart
    <3>3. \/ pPc' = [pPc EXCEPT ![p] = "run"] /\ syncSem' = [syncSem EXCEPT ![p[1]] = @ + 1]
          \/ UNCHANGED <<pPc, syncSem>>
      BY <2>4 DEF PropRecvStart, PropRun
    <3>5. syncSem \in [Nodes -> Nat] /\ [syncSem EXCEPT ![p[1]] = @ + 1] \in [Nodes -> Nat]
      BY <2>0, Increment DEF TypeOK
    <3>4. syncSem' \in [Nodes -> Nat]
      BY <3>3, <3>5
    <3> QED
      BY <2>4, <3>2, <3>3, <3>4 DEF PropRecvStart, TypeOK
  <2>5. CASE RecvSub(p)
    <3>2. Tail(sub[p]) \in Seq(SubMsg)
      BY <2>0, <2>5 DEF RecvSub
    <3> QED
      BY <2>0, <2>5, <3>2 DEF RecvSub, Abort, TypeOK
  <2> QED
    BY <1>2, <2>1, <2>2, <2>3, <2>4, <2>5 DEF PropStep
<1>3. ASSUME NEW p \in Pairs, RecvStep(p) PROVE TypeOK'
  <2>0. p[1] \in Nodes
    BY PairFacts
  <2>1. CASE RecvSockets(p)
    <3>1. CASE pPc[p] \in {"none", "sockets"}
      BY <2>0, <2>1, <3>1 DEF RecvSockets, Abort, TypeOK
    <3>2. CASE pPc[p] \notin {"none", "sockets"} /\ Expected(p) = 0
      BY <2>1, <3>2 DEF RecvSockets, TypeOK
    <3>3. CASE pPc[p] \notin {"none", "sockets"} /\ Expected(p) # 0
      BY <2>1, <3>3 DEF RecvSockets, TypeOK
    <3> QED
      BY <3>1, <3>2, <3>3
  <2>2. CASE PublishInitACK(p)
    <3>1. sub' \in [Pairs -> Seq(SubMsg)]
      BY <2>2, TypePublish DEF PublishInitACK, SubMsg
    <3> QED
      BY <2>2, <3>1 DEF PublishInitACK, TypeOK
  <2>3. CASE PublishAgain(p)
    BY <2>3 DEF PublishAgain, TypeOK
  <2>4. CASE PublishStart(p)
    <3>1. sub' \in [Pairs -> Seq(SubMsg)]
      BY <2>4, TypePublish DEF PublishStart, SubMsg
    <3> QED
      BY <2>4, <3>1 DEF PublishStart, TypeOK
  <2>8. CASE RecvRun(p)
    <3>1. syncSem' = [syncSem EXCEPT ![p[1]] = @ + 1]
      BY <2>8 DEF RecvRun
    <3>2. syncSem' \in [Nodes -> Nat]
      BY <2>0, <3>1, Increment DEF TypeOK
    <3> QED
      BY <2>8, <3>2 DEF RecvRun, TypeOK
  <2>5. ASSUME NEW q \in Pairs, RecvPropInit(p, q) PROVE TypeOK'
    <3>1. Tail(tcp[q]) \in Seq(TcpMsg) /\ Head(tcp[q]) \in TcpMsg
      BY <2>5 DEF RecvPropInit, TypeOK
    <3>2. Head(tcp[q]).id \in Nodes
      BY <3>1 DEF TcpMsg
    <3>3. peers' \in [Pairs -> SUBSET Nodes] /\ tcp' \in [Pairs -> Seq(TcpMsg)]
      BY <2>5, <3>1, <3>2 DEF RecvPropInit, TypeOK
    <3>4. \/ numProps' = [numProps EXCEPT ![p] = 0] /\ rPc' = [rPc EXCEPT ![p] = "publish"]
          \/ numProps' = [numProps EXCEPT ![p] = @ + 1] /\ rPc' = rPc
      BY <2>5 DEF RecvPropInit
    <3>5. numProps' \in [Pairs -> Nat]
          /\ rPc' \in [Pairs -> {"none", "sockets", "propinit", "publish", "poll", "pubstart", "ready", "run"}]
      <4>1. CASE numProps' = [numProps EXCEPT ![p] = 0] /\ rPc' = [rPc EXCEPT ![p] = "publish"]
        BY <4>1 DEF TypeOK
      <4>2. CASE numProps' = [numProps EXCEPT ![p] = @ + 1] /\ rPc' = rPc
        BY <4>2, Increment DEF TypeOK
      <4> QED
        BY <3>4, <4>1, <4>2
    <3> QED
      BY <2>5, <3>3, <3>5 DEF RecvPropInit, TypeOK
  <2>6. ASSUME NEW q \in Pairs, RecvInitACKACK(p, q) PROVE TypeOK'
    <3>1. Tail(tcp[q]) \in Seq(TcpMsg)
      BY <2>6 DEF RecvInitACKACK, TypeOK
    <3>2. CASE Head(tcp[q]).type = "PropInitACKACK"
      <4>3. numProps' = [numProps EXCEPT ![p] = @ + 1] /\ tcp' = [tcp EXCEPT ![q] = Tail(@)]
        BY <2>6, <3>2 DEF RecvInitACKACK
      <4>1. numProps' \in [Pairs -> Nat] /\ tcp' \in [Pairs -> Seq(TcpMsg)]
        BY <3>1, <4>3, Increment DEF TypeOK
      <4>0. rPc' = rPc \/ rPc' = [rPc EXCEPT ![p] = "pubstart"]
        <5>1. rPc \in [Pairs -> {"none", "sockets", "propinit", "publish", "poll", "pubstart", "ready", "run"}]
          BY DEF TypeOK
        <5>2. rPc' = [rPc EXCEPT ![p] =
                        IF AllAnswered(p, numProps[p] + 1) THEN "pubstart" ELSE @]
          BY <2>6, <3>2 DEF RecvInitACKACK
        <5> QED
          BY <5>1, <5>2
      <4>2. rPc' \in [Pairs -> {"none", "sockets", "propinit", "publish", "poll", "pubstart", "ready", "run"}]
        BY <4>0 DEF TypeOK
      <4> QED
        BY <2>6, <3>2, <4>1, <4>2 DEF RecvInitACKACK, TypeOK
    <3>3. CASE Head(tcp[q]).type # "PropInitACKACK"
      BY <2>0, <2>6, <3>1, <3>3 DEF RecvInitACKACK, Abort, TypeOK
    <3> QED
      BY <3>2, <3>3
  <2>7. ASSUME NEW q \in Pairs, RecvTcp(p, q) PROVE TypeOK'
    <3>1. Tail(tcp[q]) \in Seq(TcpMsg)
      BY <2>7 DEF RecvTcp, TypeOK
    <3> QED
      BY <2>0, <2>7, <3>1 DEF RecvTcp, Abort, TypeOK
  <2> QED
    BY <1>3, <2>1, <2>2, <2>3, <2>4, <2>5, <2>6, <2>7, <2>8 DEF RecvStep
<1>4. ASSUME NEW p \in Pairs, Join(p) PROVE TypeOK'
  BY <1>4 DEF Join, TypeOK
<1>5. ASSUME NEW p \in Pairs, Traffic(p) PROVE TypeOK'
  <2>1. CASE SendUpdates(p)
    <3>1. Append(tcp[p], PMsg("EPRUpdateBuffer", p[1])) \in Seq(TcpMsg)
      BY PairFacts, MsgType DEF TypeOK
    <3> QED
      BY <2>1, <3>1 DEF SendUpdates, TypeOK
  <2>2. CASE PublishTerminate(p)
    <3>1. sub' \in [Pairs -> Seq(SubMsg)]
      BY <2>2, TypePublish DEF PublishTerminate, SubMsg
    <3> QED
      BY <2>2, <3>1 DEF PublishTerminate, TypeOK
  <2> QED
    BY <1>5, <2>1, <2>2 DEF Traffic
<1>6. CASE UNCHANGED vars
  BY <1>6 DEF vars, TypeOK
<1> QED
  BY <1>1, <1>2, <1>3, <1>4, <1>5, <1>6 DEF Next, Quiet

-----------------------------------------------------------------------------
(* The threads of a process.                                               *)

(* Start creates the threads in order, and a receiver only after its       *)
(* propagator has bound its end points.                                    *)
MainOf(n) ==
    /\ mainPc[n] = "prop" => pPc[<<n, mainDir[n]>>] = "none"
    /\ mainPc[n] \in {"prop", "sync", "recv"} => rPc[<<n, mainDir[n]>>] = "none"
    /\ mainPc[n] = "recv" => synced[<<n, mainDir[n]>>]
    /\ mainDir[n] = "h" =>
        /\ mainPc[n] \in {"prop", "sync", "recv"}
        /\ pPc[<<n, "v">>] = "none" /\ rPc[<<n, "v">>] = "none"

MainInv == \A n \in Nodes : MainOf(n)

ThreadInv ==
    \A p \in Pairs :
        /\ rPc[p] # "none" => synced[p]
        /\ synced[p] => pPc[p] \notin {"none", "sockets"}

Post(loc) == IF loc = "run" THEN 1 ELSE 0

(* sync_sem has been posted once by each thread that runs.                 *)
SemOf(n) ==
    IF mainPc[n] = "started"
    THEN \A d \in Dirs : pPc[<<n, d>>] = "run" /\ rPc[<<n, d>>] = "run"
    ELSE syncSem[n] = Post(pPc[<<n, "h">>]) + Post(rPc[<<n, "h">>])
                        + Post(pPc[<<n, "v">>]) + Post(rPc[<<n, "v">>])

SemInv == \A n \in Nodes : SemOf(n)

(* What a step of the threads of pair p, or of its sockets, may do to the  *)
(* state that these three are about.                                       *)
ThreadStep(p) ==
    /\ UNCHANGED mainVars
    /\ \A r \in Pairs : r # p => pPc'[r] = pPc[r] /\ rPc'[r] = rPc[r] /\ synced'[r] = synced[r]
    /\ pPc'[p] = "none" <=> pPc[p] = "none"
    /\ rPc'[p] = "none" <=> rPc[p] = "none"
    /\ pPc[p] \notin {"none", "sockets"} => pPc'[p] \notin {"none", "sockets"}
    /\ pPc[p] = "run" => pPc'[p] = "run"
    /\ rPc[p] = "run" => rPc'[p] = "run"
    /\ synced[p] => synced'[p]
    /\ synced'[p] => synced[p] \/ pPc'[p] = "eprinit"
    /\ syncSem'[p[1]] = syncSem[p[1]] + (Post(pPc'[p]) - Post(pPc[p]))
                                      + (Post(rPc'[p]) - Post(rPc[p]))
    /\ \A n \in Nodes : n # p[1] => syncSem'[n] = syncSem[n]

LEMMA QuietThread ==
    ASSUME TypeOK, NEW p \in Pairs, UNCHANGED <<mainVars, pPc, rPc, synced, syncSem>>
    PROVE  ThreadStep(p)
<1>1. syncSem[p[1]] \in Nat
  BY PairFacts DEF TypeOK
<1> QED
  BY <1>1 DEF ThreadStep, Post

LEMMA PropThread ==
    ASSUME TypeOK, NEW p \in Pairs, PropStep(p)
    PROVE  ThreadStep(p)
<1>0. p[1] \in Nodes /\ syncSem[p[1]] \in Nat
  BY PairFacts DEF TypeOK
<1>r. ASSUME PropRun(p), pPc[p] \in {"eprinit", "start"}, UNCHANGED <<mainVars, rPc, synced>>
      PROVE  ThreadStep(p)
  <2>1. pPc'[p] = "run" /\ \A r \in Pairs : r # p => pPc'[r] = pPc[r]
    BY <1>r DEF PropRun, TypeOK
  <2>2. syncSem'[p[1]] = syncSem[p[1]] + 1 /\ \A n \in Nodes : n # p[1] => syncSem'[n] = syncSem[n]
    BY <1>r, <1>0 DEF PropRun, TypeOK
  <2>3. Post(pPc'[p]) - Post(pPc[p]) = 1 /\ Post(rPc'[p]) - Post(rPc[p]) = 0
    BY <1>r, <2>1 DEF Post
  <2>4. syncSem'[p[1]] = syncSem[p[1]] + (Post(pPc'[p]) - Post(pPc[p]))
                                      + (Post(rPc'[p]) - Post(rPc[p]))
    BY <1>0, <2>2, <2>3
  <2> QED
    BY <1>r, <2>1, <2>2, <2>4 DEF ThreadStep
<1>m. ASSUME NEW from \in {"sockets", "eprinit", "initack"}, pPc[p] = from,
             NEW to \in {"eprinit", "initack", "start"}, pPc' = [pPc EXCEPT ![p] = to],
             UNCHANGED <<mainVars, rPc, syncSem>>,
             \/ UNCHANGED synced
             \/ to = "eprinit" /\ synced' = [synced EXCEPT ![p] = TRUE]
      PROVE  ThreadStep(p)
  <2>1. pPc'[p] = to /\ \A r \in Pairs : r # p => pPc'[r] = pPc[r] /\ synced'[r] = synced[r]
    BY <1>m DEF TypeOK
  <2>2. Post(pPc'[p]) - Post(pPc[p]) = 0 /\ Post(rPc'[p]) - Post(rPc[p]) = 0
    BY <1>m, <2>1 DEF Post
  <2>3. syncSem'[p[1]] = syncSem[p[1]] + (Post(pPc'[p]) - Post(pPc[p]))
                                      + (Post(rPc'[p]) - Post(rPc[p]))
    BY <1>m, <1>0, <2>2
  <2>4. (synced[p] => synced'[p]) /\ (synced'[p] => synced[p] \/ pPc'[p] = "eprinit")
    BY <1>m, <2>1 DEF TypeOK
  <2> QED
    BY <1>m, <2>1, <2>3, <2>4 DEF ThreadStep
<1>1. CASE PropSockets(p)
  BY <1>1, <1>m DEF PropSockets
<1>2. CASE PropRecvEPRInit(p)
  BY <1>2, <1>m, <1>r DEF PropRecvEPRInit
<1>3. CASE PropRecvInitACK(p)
  BY <1>3, <1>m, QuietThread DEF PropRecvInitACK
<1>4. CASE PropRecvStart(p)
  BY <1>4, <1>r, QuietThread DEF PropRecvStart
<1>5. CASE RecvSub(p)
  BY <1>5, QuietThread DEF RecvSub
<1> QED
  BY <1>1, <1>2, <1>3, <1>4, <1>5 DEF PropStep

LEMMA RecvThread ==
    ASSUME TypeOK, NEW p \in Pairs, RecvStep(p)
    PROVE  ThreadStep(p)
<1>0. p[1] \in Nodes /\ syncSem[p[1]] \in Nat
  BY PairFacts DEF TypeOK
<1>8. CASE RecvRun(p)
  <2>0. rPc[p] = "ready" /\ UNCHANGED <<mainVars, pPc, synced>>
    BY <1>8 DEF RecvRun
  <2>1. rPc'[p] = "run" /\ \A r \in Pairs : r # p => rPc'[r] = rPc[r]
    BY <1>8 DEF RecvRun, TypeOK
  <2>2. syncSem'[p[1]] = syncSem[p[1]] + 1 /\ \A n \in Nodes : n # p[1] => syncSem'[n] = syncSem[n]
    BY <1>8, <1>0 DEF RecvRun, TypeOK
  <2>3. Post(rPc'[p]) - Post(rPc[p]) = 1 /\ Post(pPc'[p]) - Post(pPc[p]) = 0
    BY <2>0, <2>1 DEF Post
  <2>4. syncSem'[p[1]] = syncSem[p[1]] + (Post(pPc'[p]) - Post(pPc[p]))
                                      + (Post(rPc'[p]) - Post(rPc[p]))
    BY <1>0, <2>2, <2>3
  <2> QED
    BY <2>0, <2>1, <2>2, <2>4 DEF ThreadStep
<1>m. ASSUME rPc[p] \notin {"none", "run"}, NEW to \in {"propinit", "publish", "poll", "pubstart", "ready"},
             rPc' = [rPc EXCEPT ![p] = to],
             UNCHANGED <<mainVars, pPc, synced, syncSem>>
      PROVE  ThreadStep(p)
  <2>1. rPc'[p] = to /\ \A r \in Pairs : r # p => rPc'[r] = rPc[r]
    BY <1>m DEF TypeOK
  <2>2. Post(pPc'[p]) - Post(pPc[p]) = 0 /\ Post(rPc'[p]) - Post(rPc[p]) = 0
    BY <1>m, <2>1 DEF Post
  <2>3. syncSem'[p[1]] = syncSem[p[1]] + (Post(pPc'[p]) - Post(pPc[p]))
                                      + (Post(rPc'[p]) - Post(rPc[p]))
    BY <1>m, <1>0, <2>2
  <2> QED
    BY <1>m, <2>1, <2>3 DEF ThreadStep
<1>1. CASE RecvSockets(p)
  BY <1>1, <1>m, QuietThread DEF RecvSockets
<1>2. CASE PublishInitACK(p)
  BY <1>2, <1>m DEF PublishInitACK
<1>3. CASE PublishAgain(p)
  BY <1>3, <1>m DEF PublishAgain
<1>4. CASE PublishStart(p)
  BY <1>4, <1>m DEF PublishStart
<1>5. ASSUME NEW q \in Pairs, RecvPropInit(p, q) PROVE ThreadStep(p)
  BY <1>5, <1>m, QuietThread DEF RecvPropInit
<1>6. ASSUME NEW q \in Pairs, RecvInitACKACK(p, q) PROVE ThreadStep(p)
  <2>1. rPc' = rPc \/ rPc' = [rPc EXCEPT ![p] = "pubstart"]
    BY <1>6 DEF RecvInitACKACK, TypeOK
  <2> QED
    BY <1>6, <2>1, <1>m, QuietThread DEF RecvInitACKACK
<1>7. ASSUME NEW q \in Pairs, RecvTcp(p, q) PROVE ThreadStep(p)
  BY <1>7, QuietThread DEF RecvTcp
<1> QED
  BY <1>1, <1>2, <1>3, <1>4, <1>5, <1>6, <1>7, <1>8 DEF RecvStep

ProcessInv == MainInv /\ ThreadInv /\ SemInv

LEMMA ThreadPreserves ==
    ASSUME TypeOK, ProcessInv, NEW p \in Pairs, ThreadStep(p)
    PROVE  ProcessInv'
<1>0. p[1] \in Nodes /\ p[2] \in {"h", "v"} /\ p = <<p[1], p[2]>>
  BY PairFacts DEF Pairs, Dirs
<1>1. MainInv'
  <2> SUFFICES ASSUME NEW n \in Nodes
               PROVE  /\ mainPc[n] = "prop" => pPc'[<<n, mainDir[n]>>] = "none"
                      /\ mainPc[n] \in {"prop", "sync", "recv"} => rPc'[<<n, mainDir[n]>>] = "none"
                      /\ mainPc[n] = "recv" => synced'[<<n, mainDir[n]>>]
                      /\ mainDir[n] = "h" =>
                            /\ mainPc[n] \in {"prop", "sync", "recv"}
                            /\ pPc'[<<n, "v">>] = "none" /\ rPc'[<<n, "v">>] = "none"
    BY DEF MainInv, MainOf, ThreadStep, mainVars
  <2>1. \A r \in Pairs : /\ pPc[r] = "none" => pPc'[r] = "none"
                         /\ rPc[r] = "none" => rPc'[r] = "none"
                         /\ synced[r] => synced'[r]
    BY DEF ThreadStep
  <2>2. <<n, mainDir[n]>> \in Pairs /\ <<n, "v">> \in Pairs
    <3>1. mainDir[n] \in Dirs /\ "v" \in Dirs
      BY DEF TypeOK, Dirs
    <3> QED
      BY <3>1, PairOf
  <2> QED
    BY <2>1, <2>2 DEF ProcessInv, MainInv, MainOf
<1>2. ThreadInv'
  BY DEF ProcessInv, ThreadInv, ThreadStep
<1>3. SemInv'
  <2> SUFFICES ASSUME NEW n \in Nodes
               PROVE  IF mainPc[n] = "started"
                      THEN \A d \in Dirs : pPc'[<<n, d>>] = "run" /\ rPc'[<<n, d>>] = "run"
                      ELSE syncSem'[n] = Post(pPc'[<<n, "h">>]) + Post(rPc'[<<n, "h">>])
                                          + Post(pPc'[<<n, "v">>]) + Post(rPc'[<<n, "v">>])
    <3>1. mainPc' = mainPc
      BY DEF ThreadStep, mainVars
    <3> QED
      BY <3>1, Zenon DEF SemInv, SemOf
  <2>1. CASE mainPc[n] = "started"
    <3>1. \A r \in Pairs : /\ pPc[r] = "run" => pPc'[r] = "run"
                           /\ rPc[r] = "run" => rPc'[r] = "run"
      BY DEF ThreadStep
    <3> QED
      BY <2>1, <3>1, PairOf DEF ProcessInv, SemInv, SemOf
  <2>2. CASE mainPc[n] # "started"
    <3>0. /\ <<n, "h">> \in Pairs /\ <<n, "v">> \in Pairs
          /\ n # p[1] => <<n, "h">> # p /\ <<n, "v">> # p
          /\ n = p[1] => \/ p = <<n, "h">> /\ <<n, "v">> # p
                         \/ p = <<n, "v">> /\ <<n, "h">> # p
      BY <1>0, PairOf DEF Dirs
    <3>1. syncSem[n] = Post(pPc[<<n, "h">>]) + Post(rPc[<<n, "h">>])
                          + Post(pPc[<<n, "v">>]) + Post(rPc[<<n, "v">>])
      BY <2>2 DEF ProcessInv, SemInv, SemOf
    <3>2. \A loc : Post(loc) \in Int
      BY DEF Post
    <3>3. CASE n # p[1]
      BY <2>2, <3>0, <3>1, <3>3 DEF ThreadStep
    <3>4. CASE n = p[1] /\ p = <<n, "h">> /\ <<n, "v">> # p
      <4>1. pPc'[<<n, "v">>] = pPc[<<n, "v">>] /\ rPc'[<<n, "v">>] = rPc[<<n, "v">>]
        BY <3>0, <3>4 DEF ThreadStep
      <4>2. syncSem'[n] = syncSem[n] + (Post(pPc'[<<n, "h">>]) - Post(pPc[<<n, "h">>]))
                                     + (Post(rPc'[<<n, "h">>]) - Post(rPc[<<n, "h">>]))
        BY <3>4 DEF ThreadStep
      <4> QED
        BY <2>2, <3>1, <3>2, <4>1, <4>2
    <3>5. CASE n = p[1] /\ p = <<n, "v">> /\ <<n, "h">> # p
      <4>1. pPc'[<<n, "h">>] = pPc[<<n, "h">>] /\ rPc'[<<n, "h">>] = rPc[<<n, "h">>]
        BY <3>0, <3>5 DEF ThreadStep
      <4>2. syncSem'[n] = syncSem[n] + (Post(pPc'[<<n, "v">>]) - Post(pPc[<<n, "v">>]))
                                     + (Post(rPc'[<<n, "v">>]) - Post(rPc[<<n, "v">>]))
        BY <3>5 DEF ThreadStep
      <4> QED
        BY <2>2, <3>1, <3>2, <4>1, <4>2
    <3> QED
      BY <3>0, <3>3, <3>4, <3>5
  <2> QED
    BY <2>1, <2>2
<1> QED
  BY <1>1, <1>2, <1>3 DEF ProcessInv

LEMMA MainPreserves ==
    ASSUME TypeOK, ProcessInv, NEW n \in Nodes, MainStep(n)
    PROVE  ProcessInv'
<1> DEFINE p == <<n, mainDir[n]>>
<1>0. /\ p \in Pairs /\ <<n, "h">> \in Pairs /\ <<n, "v">> \in Pairs
      /\ <<n, "h">> # <<n, "v">> /\ mainDir[n] \in {"h", "v"}
      /\ \A m \in Nodes, d \in Dirs : m # n => <<m, d>> # p /\ <<m, d>> \in Pairs
  <2>1. mainDir[n] \in Dirs /\ "v" \in Dirs /\ "h" \in Dirs /\ "h" # "v"
    BY DEF TypeOK, Dirs
  <2> QED
    BY <2>1, PairOf DEF Dirs
<1>d. \A m \in Nodes : mainDir[m] \in Dirs /\ "v" \in Dirs /\ "h" \in Dirs
  BY DEF TypeOK, Dirs
<1> HIDE DEF p
<1>1. CASE CreatePropagator(n)
  <2>1. /\ mainPc[n] = "prop" /\ mainPc'[n] = "sync"
        /\ \A m \in Nodes : m # n => mainPc'[m] = mainPc[m]
        /\ UNCHANGED <<mainDir, rPc, synced, syncSem>>
    BY <1>1 DEF CreatePropagator, TypeOK
  <2>2. pPc'[p] = "sockets" /\ \A r \in Pairs : r # p => pPc'[r] = pPc[r]
    BY <1>0, <1>1 DEF CreatePropagator, TypeOK, p
  <2>3. pPc[p] = "none"
    BY <2>1 DEF ProcessInv, MainInv, MainOf, p
  <2>4. MainInv'
    <3> SUFFICES ASSUME NEW m \in Nodes PROVE MainOf(m)'
      BY DEF MainInv
    <3>0. MainOf(m)
      BY DEF ProcessInv, MainInv
    <3>1. CASE m # n
      <4>1. pPc'[<<m, mainDir[m]>>] = pPc[<<m, mainDir[m]>>] /\ pPc'[<<m, "v">>] = pPc[<<m, "v">>]
        BY <1>0, <1>d, <2>2, <3>1
      <4> QED
        BY <2>1, <3>0, <3>1, <4>1 DEF MainOf
    <3>2. CASE m = n
      <4>1. mainDir[n] = "h" => pPc'[<<n, "v">>] = pPc[<<n, "v">>]
        BY <1>0, <2>2 DEF p
      <4> QED
        BY <2>1, <3>0, <3>2, <4>1 DEF MainOf
    <3> QED
      BY <3>1, <3>2
  <2>5. ThreadInv'
    BY <2>1, <2>2, <2>3 DEF ProcessInv, ThreadInv
  <2>6. \A r \in Pairs : Post(pPc'[r]) = Post(pPc[r])
    BY <2>2, <2>3 DEF Post
  <2>7. SemInv'
    <3>1. \A m \in Nodes : mainPc'[m] = "started" <=> mainPc[m] = "started"
      BY <2>1
    <3>2. \A r \in Pairs : pPc[r] = "run" => pPc'[r] = "run"
      BY <2>2, <2>3
    <3>3. \A m \in Nodes : <<m, "h">> \in Pairs /\ <<m, "v">> \in Pairs
      BY PairOf, <1>d
    <3> SUFFICES ASSUME NEW m \in Nodes PROVE SemOf(m)'
      BY DEF SemInv
    <3>0. SemOf(m)
      BY DEF ProcessInv, SemInv
    <3>4. CASE mainPc[m] = "started"
      BY <2>1, <3>0, <3>1, <3>2, <3>4, PairOf DEF SemOf
    <3>5. CASE mainPc[m] # "started"
      BY <2>1, <2>6, <3>0, <3>1, <3>3, <3>5 DEF SemOf
    <3> QED
      BY <3>4, <3>5
  <2> QED
    BY <2>4, <2>5, <2>7 DEF ProcessInv
<1>2. CASE SyncPropagator(n)
  <2>1. /\ mainPc[n] = "sync" /\ mainPc'[n] = "recv"
        /\ \A m \in Nodes : m # n => mainPc'[m] = mainPc[m]
        /\ UNCHANGED <<mainDir, pPc, rPc, synced, syncSem>>
        /\ synced[p]
    BY <1>2 DEF SyncPropagator, MayStartReceiver, TypeOK, p
  <2>2. MainInv'
    BY <2>1, ZenonT(40) DEF ProcessInv, MainInv, MainOf, p
  <2>3. ThreadInv'
    BY <2>1 DEF ProcessInv, ThreadInv
  <2>4. SemInv'
    BY <2>1 DEF ProcessInv, SemInv, SemOf
  <2> QED
    BY <2>2, <2>3, <2>4 DEF ProcessInv
<1>3. CASE CreateReceiver(n)
  <2>1. /\ mainPc[n] = "recv" /\ mainPc'[n] = IF mainDir[n] = "h" THEN "prop" ELSE "wait"
        /\ mainDir'[n] = "v"
        /\ \A m \in Nodes : m # n => mainPc'[m] = mainPc[m] /\ mainDir'[m] = mainDir[m]
        /\ UNCHANGED <<pPc, synced, syncSem>>
    BY <1>3 DEF CreateReceiver, TypeOK
  <2>2. rPc'[p] = "sockets" /\ \A r \in Pairs : r # p => rPc'[r] = rPc[r]
    BY <1>0, <1>3 DEF CreateReceiver, TypeOK, p
  <2>3. synced[p] /\ rPc[p] = "none"
    BY <2>1 DEF ProcessInv, MainInv, MainOf, p
  <2>4. MainInv'
    <3>1. ASSUME NEW m \in Nodes, m # n
          PROVE  rPc'[<<m, mainDir[m]>>] = rPc[<<m, mainDir[m]>>] /\ rPc'[<<m, "v">>] = rPc[<<m, "v">>]
      BY <1>0, <1>d, <2>2, <3>1
    <3>2. mainDir[n] = "h" => rPc'[<<n, "v">>] = rPc[<<n, "v">>]
      BY <1>0, <2>2 DEF p
    <3> SUFFICES ASSUME NEW m \in Nodes PROVE MainOf(m)'
      BY DEF MainInv
    <3>0. MainOf(m)
      BY DEF ProcessInv, MainInv
    <3>3. CASE m # n
      BY <2>1, <3>0, <3>1, <3>3 DEF MainOf
    <3>4. CASE m = n
      BY <1>0, <2>1, <3>0, <3>2, <3>4 DEF MainOf
    <3> QED
      BY <3>3, <3>4
  <2>5. ThreadInv'
    BY <2>1, <2>2, <2>3 DEF ProcessInv, ThreadInv
  <2>6. \A r \in Pairs : Post(rPc'[r]) = Post(rPc[r])
    BY <2>2, <2>3 DEF Post
  <2>7. SemInv'
    <3>1. \A m \in Nodes : mainPc'[m] = "started" <=> mainPc[m] = "started"
      BY <2>1
    <3>2. \A r \in Pairs : rPc[r] = "run" => rPc'[r] = "run"
      BY <2>2, <2>3
    <3>3. \A m \in Nodes : <<m, "h">> \in Pairs /\ <<m, "v">> \in Pairs
      BY PairOf, <1>d
    <3> SUFFICES ASSUME NEW m \in Nodes PROVE SemOf(m)'
      BY DEF SemInv
    <3>0. SemOf(m)
      BY DEF ProcessInv, SemInv
    <3>4. CASE mainPc[m] = "started"
      BY <2>1, <3>0, <3>1, <3>2, <3>4, PairOf DEF SemOf
    <3>5. CASE mainPc[m] # "started"
      BY <2>1, <2>6, <3>0, <3>1, <3>3, <3>5 DEF SemOf
    <3> QED
      BY <3>4, <3>5
  <2> QED
    BY <2>4, <2>5, <2>7 DEF ProcessInv
<1>4. CASE StartReturns(n)
  <2>1. /\ mainPc[n] = "wait" /\ mainPc'[n] = "started"
        /\ \A m \in Nodes : m # n => mainPc'[m] = mainPc[m] /\ syncSem'[m] = syncSem[m]
        /\ UNCHANGED <<mainDir, pPc, rPc, synced>>
        /\ syncSem[n] >= 4
    BY <1>4 DEF StartReturns, Waits, TypeOK
  <2>2. MainInv'
    BY <2>1, ZenonT(40) DEF ProcessInv, MainInv, MainOf
  <2>3. ThreadInv'
    BY <2>1 DEF ProcessInv, ThreadInv
  <2>4. \A d \in Dirs : pPc[<<n, d>>] = "run" /\ rPc[<<n, d>>] = "run"
    <3>1. syncSem[n] = Post(pPc[<<n, "h">>]) + Post(rPc[<<n, "h">>])
                          + Post(pPc[<<n, "v">>]) + Post(rPc[<<n, "v">>])
      BY <2>1 DEF ProcessInv, SemInv, SemOf
    <3>2. \A loc : Post(loc) \in {0, 1} /\ (Post(loc) = 1 => loc = "run")
      BY DEF Post
    <3>3. ASSUME NEW a \in {0, 1}, NEW b \in {0, 1}, NEW c \in {0, 1}, NEW d \in {0, 1},
                 a + b + c + d >= 4
          PROVE  a = 1 /\ b = 1 /\ c = 1 /\ d = 1
      BY <3>3
    <3> QED
      BY <2>1, <3>1, <3>2, <3>3 DEF Dirs
  <2>5. SemInv'
    BY <2>1, <2>4 DEF ProcessInv, SemInv, SemOf
  <2> QED
    BY <2>2, <2>3, <2>5 DEF ProcessInv
<1> QED
  BY <1>1, <1>2, <1>3, <1>4 DEF MainStep

-----------------------------------------------------------------------------
(* The connection between a propagator and its downstream receiver.        *)

AllAre(s, msg) == \A i \in 1 .. Len(s) : s[i] = msg

AllUpdates(s) == \A i \in 1 .. Len(s) : s[i].type = "EPRUpdateBuffer"

(* PropStart is in the queue, after PropInitACKs that are not needed any   *)
(* more, and possibly already followed by EPRTerminate.                    *)
HasStart(s) ==
    \E j \in 1 .. Len(s) :
        /\ s[j] = "PropStart"
        /\ \A i \in 1 .. Len(s) : /\ i < j => s[i] = "PropInitACK"
                                  /\ i > j => s[i] = "EPRTerminate"

Early == {"none", "sockets", "propinit"}

Known(q) == q[1] \in peers[Downstream[q]]

(* The stages that the propagator q and its downstream receiver go         *)
(* through together: nothing sent; PropInit under way; PropInit received,  *)
(* PropInitACK awaited; PropInitACKACK under way; PropInitACKACK received; *)
(* PropStart under way, when the receiver may not be in its loop yet;      *)
(* PropStart received.                                                     *)
Nothing(q) ==
    /\ pPc[q] \in {"none", "sockets", "eprinit"} /\ rPc[Downstream[q]] \in Early
    /\ tcp[q] = <<>> /\ sub[q] = <<>>
    /\ ~Known(q)

InitSent(q) ==
    /\ pPc[q] = "initack" /\ rPc[Downstream[q]] \in Early
    /\ tcp[q] = <<PMsg("PropInit", q[1])>> /\ sub[q] = <<>>
    /\ ~Known(q)

InitHeard(q) ==
    /\ pPc[q] = "initack" /\ rPc[Downstream[q]] \in {"propinit", "publish", "poll"}
    /\ tcp[q] = <<>> /\ AllAre(sub[q], "PropInitACK")
    /\ rPc[Downstream[q]] = "propinit" => sub[q] = <<>>
    /\ Known(q)

AnswerSent(q) ==
    /\ pPc[q] = "start" /\ rPc[Downstream[q]] \in {"publish", "poll"}
    /\ tcp[q] = <<PMsg("PropInitACKACK", q[1])>> /\ AllAre(sub[q], "PropInitACK")
    /\ Known(q) /\ q \in joined

AnswerHeard(q) ==
    /\ pPc[q] = "start" /\ rPc[Downstream[q]] \in {"publish", "poll", "pubstart"}
    /\ tcp[q] = <<>> /\ AllAre(sub[q], "PropInitACK")
    /\ Known(q) /\ q \in joined

StartSent(q) ==
    /\ pPc[q] = "start" /\ rPc[Downstream[q]] \in {"ready", "run"}
    /\ tcp[q] = <<>> /\ HasStart(sub[q])
    /\ Known(q) /\ q \in joined

StartHeard(q) ==
    /\ pPc[q] = "run" /\ rPc[Downstream[q]] \in {"ready", "run"}
    /\ AllUpdates(tcp[q]) /\ AllAre(sub[q], "EPRTerminate")
    /\ Known(q) /\ q \in joined

Stage(q) ==
    \/ Nothing(q) \/ InitSent(q) \/ InitHeard(q) \/ AnswerSent(q)
    \/ AnswerHeard(q) \/ StartSent(q) \/ StartHeard(q)

Conn(q) ==
    IF HasDownstream(q) THEN Stage(q) /\ (sub[q] # <<>> => q \in joined)
                        ELSE sub[q] = <<>>

(* The receiver: its two counts are the numbers of upstream propagators    *)
(* that have got past the steps it waits for.                              *)
Heard(p) == {q \in Up(p) : q[1] \in peers[p]}

Answered(p) == {q \in Up(p) : pPc[q] = "start" /\ tcp[q] = <<>>}

Count(p) ==
    /\ peers[p] \subseteq {q[1] : q \in Up(p)}
    /\ rPc[p] \in {"none", "sockets"} => peers[p] = {} /\ numProps[p] = 0
    /\ rPc[p] = "propinit" => numProps[p] = Cardinality(Heard(p))
    /\ rPc[p] \notin Early => \A q \in Up(p) : q[1] \in peers[p]
    /\ rPc[p] \in {"publish", "poll"} => numProps[p] = Cardinality(Answered(p))
    /\ rPc[p] = "pubstart" => \A q \in Up(p) : pPc[q] = "start" /\ tcp[q] = <<>>

ConnInv == \A q \in Pairs : Conn(q)

CountInv == \A p \in Pairs : Count(p)

StartInv == TypeOK /\ ProcessInv /\ ConnInv /\ CountInv /\ NoHandshakeAbort

-----------------------------------------------------------------------------
(* Queues.                                                                 *)

LEMMA AllAreAppend ==
    ASSUME NEW S, NEW s \in Seq(S), NEW msg \in S, AllAre(s, msg)
    PROVE  AllAre(Append(s, msg), msg)
  BY DEF AllAre

LEMMA AllAreTail ==
    ASSUME NEW S, NEW s \in Seq(S), NEW msg, AllAre(s, msg), s # <<>>
    PROVE  Head(s) = msg /\ AllAre(Tail(s), msg)
<1>1. Len(s) \in Nat /\ Len(s) > 0 /\ Head(s) = s[1]
  OBVIOUS
<1>2. Len(Tail(s)) = Len(s) - 1 /\ \A i \in 1 .. Len(s) - 1 : Tail(s)[i] = s[i + 1]
  OBVIOUS
<1> QED
  BY <1>1, <1>2 DEF AllAre

LEMMA AllUpdatesAppend ==
    ASSUME NEW S, NEW s \in Seq(S), NEW msg \in S, msg.type = "EPRUpdateBuffer", AllUpdates(s)
    PROVE  AllUpdates(Append(s, msg))
  BY DEF AllUpdates

LEMMA AllUpdatesTail ==
    ASSUME NEW S, NEW s \in Seq(S), AllUpdates(s), s # <<>>
    PROVE  Head(s).type = "EPRUpdateBuffer" /\ AllUpdates(Tail(s))
<1>1. Len(s) \in Nat /\ Len(s) > 0 /\ Head(s) = s[1]
  OBVIOUS
<1>2. Len(Tail(s)) = Len(s) - 1 /\ \A i \in 1 .. Len(s) - 1 : Tail(s)[i] = s[i + 1]
  OBVIOUS
<1> QED
  BY <1>1, <1>2 DEF AllUpdates

LEMMA EmptyQueues == AllUpdates(<<>>) /\ \A msg : AllAre(<<>>, msg)
  BY DEF AllAre, AllUpdates

LEMMA StartAppend ==
    ASSUME NEW S, NEW s \in Seq(S), "PropStart" \in S, AllAre(s, "PropInitACK")
    PROVE  HasStart(Append(s, "PropStart"))
<1> DEFINE t == Append(s, "PropStart")
<1>1. Len(t) = Len(s) + 1 /\ t[Len(s) + 1] = "PropStart" /\ Len(s) \in Nat
      /\ \A i \in 1 .. Len(s) : t[i] = s[i]
  OBVIOUS
<1> HIDE DEF t
<1>2. /\ Len(s) + 1 \in 1 .. Len(t)
      /\ \A i \in 1 .. Len(t) : /\ i < Len(s) + 1 => t[i] = "PropInitACK"
                                /\ i > Len(s) + 1 => t[i] = "EPRTerminate"
  BY <1>1 DEF AllAre
<1>3. HasStart(t)
  BY <1>1, <1>2 DEF HasStart
<1> QED
  BY <1>3 DEF t

LEMMA HasStartAppend ==
    ASSUME NEW S, NEW s \in Seq(S), "EPRTerminate" \in S, HasStart(s)
    PROVE  HasStart(Append(s, "EPRTerminate"))
<1> DEFINE t == Append(s, "EPRTerminate")
<1>1. Len(t) = Len(s) + 1 /\ t[Len(s) + 1] = "EPRTerminate" /\ Len(s) \in Nat
      /\ \A i \in 1 .. Len(s) : t[i] = s[i]
  OBVIOUS
<1> HIDE DEF t
<1>2. PICK j \in 1 .. Len(s) :
        /\ s[j] = "PropStart"
        /\ \A i \in 1 .. Len(s) : /\ i < j => s[i] = "PropInitACK"
                                  /\ i > j => s[i] = "EPRTerminate"
  BY DEF HasStart
<1>3. /\ j \in 1 .. Len(t) /\ t[j] = "PropStart"
      /\ \A i \in 1 .. Len(t) : /\ i < j => t[i] = "PropInitACK"
                                /\ i > j => t[i] = "EPRTerminate"
  BY <1>1, <1>2
<1>4. HasStart(t)
  BY <1>3 DEF HasStart
<1> QED
  BY <1>4 DEF t

LEMMA HasStartTail ==
    ASSUME NEW S, NEW s \in Seq(S), HasStart(s)
    PROVE  /\ s # <<>>
           /\ Head(s) = "PropStart" => AllAre(Tail(s), "EPRTerminate")
           /\ Head(s) # "PropStart" => Head(s) = "PropInitACK" /\ HasStart(Tail(s))
<1>1. PICK j \in 1 .. Len(s) :
        /\ s[j] = "PropStart"
        /\ \A i \in 1 .. Len(s) : /\ i < j => s[i] = "PropInitACK"
                                  /\ i > j => s[i] = "EPRTerminate"
  BY DEF HasStart
<1>2. s # <<>> /\ Len(s) \in Nat /\ Len(s) > 0 /\ Head(s) = s[1]
  BY <1>1
<1> DEFINE t == Tail(s)
<1>3. Len(t) = Len(s) - 1 /\ \A i \in 1 .. Len(s) - 1 : t[i] = s[i + 1]
  BY <1>2
<1> HIDE DEF t
<1>4. CASE j = 1
  <2>1. AllAre(t, "EPRTerminate")
    BY <1>1, <1>2, <1>3, <1>4 DEF AllAre
  <2> QED
    BY <1>1, <1>2, <1>4, <2>1 DEF t
<1>5. CASE j > 1
  <2>1. Head(s) = "PropInitACK"
    BY <1>1, <1>2, <1>5
  <2>2. /\ j - 1 \in 1 .. Len(t) /\ t[j - 1] = "PropStart"
        /\ \A i \in 1 .. Len(t) : /\ i < j - 1 => t[i] = "PropInitACK"
                                  /\ i > j - 1 => t[i] = "EPRTerminate"
    BY <1>1, <1>2, <1>3, <1>5
  <2>3. HasStart(t)
    BY <2>2 DEF HasStart
  <2> QED
    BY <1>2, <2>1, <2>3 DEF t
<1> QED
  BY <1>1, <1>4, <1>5

LEMMA UpFinite ==
    ASSUME NEW p
    PROVE  IsFiniteSet(Up(p)) /\ Expected(p) \in Nat
<1>1. IsFiniteSet({"h"}) /\ Dirs = {"h"} \cup {"v"}
  BY FS_Singleton DEF Dirs
<1>2. IsFiniteSet(Dirs)
  BY <1>1, FS_AddElement
<1>3. IsFiniteSet(Pairs)
  BY <1>2, FS_Product, StartupNodes DEF Pairs
<1>4. Up(p) \in SUBSET Pairs
  BY DEF Up
<1>5. IsFiniteSet(Up(p))
  BY <1>3, <1>4, FS_Subset
<1> QED
  BY <1>5, FS_CardinalityType DEF Expected

(* One more of a set of propagators, and all of them.                      *)
LEMMA OneMore ==
    ASSUME NEW p, NEW T \in SUBSET Up(p), NEW q \in Up(p), q \notin T
    PROVE  /\ Cardinality(T) \in Nat
           /\ Cardinality(T \cup {q}) = Cardinality(T) + 1
           /\ Cardinality(T) + 1 = Expected(p) => T \cup {q} = Up(p)
<1>1. IsFiniteSet(T)
  BY UpFinite, FS_Subset
<1>2. Cardinality(T) \in Nat /\ Cardinality(T \cup {q}) = Cardinality(T) + 1
  BY <1>1, FS_CardinalityType, FS_AddElement
<1>3. T \cup {q} \in SUBSET Up(p)
  OBVIOUS
<1>4. Cardinality(Up(p)) = Cardinality(T \cup {q}) => T \cup {q} = Up(p)
  BY <1>3, UpFinite, FS_Subset
<1> QED
  BY <1>2, <1>4 DEF Expected

-----------------------------------------------------------------------------
(* Initial states, and what a step leaves alone.                           *)

LEMMA StartInit == Init => StartInv
<1> SUFFICES ASSUME Init PROVE StartInv
  OBVIOUS
<1>1. TypeOK /\ NoHandshakeAbort
  BY TypeInit DEF Init, NoHandshakeAbort, Alive
<1>2. ProcessInv
  <2>1. \A n \in Nodes, d \in Dirs : pPc[<<n, d>>] = "none" /\ rPc[<<n, d>>] = "none"
    BY PairOf DEF Init
  <2>2. "h" \in Dirs /\ "v" \in Dirs
    BY DEF Dirs
  <2>3. MainInv /\ SemInv
    BY <2>1, <2>2 DEF Init, MainInv, MainOf, SemInv, SemOf, Post
  <2>4. ThreadInv
    BY DEF Init, ThreadInv
  <2> QED
    BY <2>3, <2>4 DEF ProcessInv
<1>3. ConnInv
  <2> SUFFICES ASSUME NEW q \in Pairs PROVE Conn(q)
    BY DEF ConnInv
  <2>1. CASE HasDownstream(q)
    <3>1. Nothing(q)
      BY <2>1, PairFacts DEF Init, Nothing, Known, Early
    <3> QED
      BY <3>1 DEF Conn, Stage, Init
  <2>2. CASE ~HasDownstream(q)
    BY <2>2 DEF Conn, Init
  <2> QED
    BY <2>1, <2>2
<1>4. CountInv
  BY DEF Init, CountInv, Count, Early
<1> QED
  BY <1>1, <1>2, <1>3, <1>4 DEF StartInv

LEMMA ProcessNext ==
    ASSUME TypeOK, ProcessInv, [Next]_vars
    PROVE  ProcessInv'
<1>1. ASSUME NEW n \in Nodes, MainStep(n) PROVE ProcessInv'
  BY <1>1, MainPreserves
<1>2. ASSUME NEW p \in Pairs, PropStep(p) PROVE ProcessInv'
  BY <1>2, PropThread, ThreadPreserves
<1>3. ASSUME NEW p \in Pairs, RecvStep(p) PROVE ProcessInv'
  BY <1>3, RecvThread, ThreadPreserves
<1>4. ASSUME NEW p \in Pairs, Join(p) \/ Traffic(p) PROVE ProcessInv'
  <2>1. UNCHANGED <<mainVars, pPc, rPc, synced, syncSem>>
    BY <1>4 DEF Join, Traffic, SendUpdates, PublishTerminate
  <2> QED
    BY <2>1, QuietThread, ThreadPreserves
<1>5. CASE UNCHANGED vars
  BY <1>5 DEF vars, mainVars, ProcessInv, MainInv, MainOf, ThreadInv, SemInv, SemOf
<1> QED
  BY <1>1, <1>2, <1>3, <1>4, <1>5 DEF Next, Quiet

LEMMA ConnSame ==
    ASSUME NEW q \in Pairs, Conn(q),
           pPc'[q] = pPc[q], tcp'[q] = tcp[q], sub'[q] = sub[q], joined \subseteq joined',
           HasDownstream(q) => /\ rPc'[Downstream[q]] = rPc[Downstream[q]]
                               /\ peers'[Downstream[q]] = peers[Downstream[q]]
    PROVE  Conn(q)'
<1>1. CASE ~HasDownstream(q)
  BY <1>1 DEF Conn, HasDownstream
<1>2. CASE HasDownstream(q)
  <2>1. Stage(q)'
    <3>1. Stage(q)
      BY <1>2 DEF Conn
    <3> QED
      BY <1>2, <3>1 DEF Stage, Nothing, InitSent, InitHeard, AnswerSent, AnswerHeard, StartSent,
                        StartHeard, Known, PMsg
  <2> QED
    BY <1>2, <2>1 DEF Conn, HasDownstream
<1> QED
  BY <1>1, <1>2

LEMMA CountSame ==
    ASSUME NEW p \in Pairs, Count(p),
           rPc'[p] = rPc[p], peers'[p] = peers[p], numProps'[p] = numProps[p],
           \A q \in Up(p) : (pPc'[q] = "start" /\ tcp'[q] = <<>>)
                              <=> (pPc[q] = "start" /\ tcp[q] = <<>>)
    PROVE  Count(p)'
<1>1. Answered(p)' = Answered(p) /\ Heard(p)' = Heard(p) /\ Up(p)' = Up(p)
  BY DEF Answered, Heard, Up
<1> QED
  BY <1>1 DEF Count, Up

(* A step of propagator p, seen from the other pairs.                      *)
LEMMA PropMoves ==
    ASSUME ConnInv, CountInv, NEW p \in Pairs,
           UNCHANGED <<rPc, peers, numProps, joined>>,
           \A q \in Pairs : q # p => pPc'[q] = pPc[q] /\ tcp'[q] = tcp[q] /\ sub'[q] = sub[q],
           (pPc'[p] = "start" /\ tcp'[p] = <<>>) <=> (pPc[p] = "start" /\ tcp[p] = <<>>),
           Conn(p)'
    PROVE  ConnInv' /\ CountInv'
<1>1. ASSUME NEW q \in Pairs PROVE Conn(q)'
  <2>1. CASE q = p
    BY <2>1
  <2>2. CASE q # p
    BY <2>2, ConnSame DEF ConnInv
  <2> QED
    BY <2>1, <2>2
<1>2. ASSUME NEW r \in Pairs PROVE Count(r)'
  <2>1. \A q \in Up(r) : q \in Pairs
    BY DEF Up
  <2>2. \A q \in Up(r) : (pPc'[q] = "start" /\ tcp'[q] = <<>>)
                              <=> (pPc[q] = "start" /\ tcp[q] = <<>>)
    BY <2>1
  <2> QED
    BY <2>2, CountSame DEF CountInv
<1> QED
  BY <1>1, <1>2 DEF ConnInv, CountInv

(* A step of receiver p, seen from the other pairs.                        *)
LEMMA RecvMoves ==
    ASSUME ConnInv, CountInv, NEW p \in Pairs,
           UNCHANGED <<pPc, joined>>,
           \A r \in Pairs : r # p => /\ rPc'[r] = rPc[r] /\ peers'[r] = peers[r]
                                     /\ numProps'[r] = numProps[r],
           \A q \in Pairs : q \notin Up(p) => tcp'[q] = tcp[q] /\ sub'[q] = sub[q],
           \A q \in Up(p) : Conn(q)',
           Count(p)'
    PROVE  ConnInv' /\ CountInv'
<1>1. ASSUME NEW q \in Pairs PROVE Conn(q)'
  <2>1. CASE q \in Up(p)
    BY <2>1
  <2>2. CASE q \notin Up(p)
    <3>1. HasDownstream(q) => Downstream[q] \in Pairs /\ Downstream[q] # p
      BY <2>2, PairFacts DEF Up
    <3> QED
      BY <2>2, <3>1, ConnSame DEF ConnInv
  <2> QED
    BY <2>1, <2>2
<1>2. ASSUME NEW r \in Pairs PROVE Count(r)'
  <2>1. CASE r = p
    BY <2>1
  <2>2. CASE r # p
    <3>1. \A q \in Up(r) : q \in Pairs /\ q \notin Up(p)
      BY <2>2 DEF Up
    <3>2. \A q \in Up(r) : (pPc'[q] = "start" /\ tcp'[q] = <<>>)
                              <=> (pPc[q] = "start" /\ tcp[q] = <<>>)
      BY <3>1
    <3> QED
      BY <2>2, <3>2, CountSame DEF CountInv
  <2> QED
    BY <2>1, <2>2
<1> QED
  BY <1>1, <1>2 DEF ConnInv, CountInv

-----------------------------------------------------------------------------
(* The steps of a propagator.                                              *)

LEMMA PropSocketsInv ==
    ASSUME StartInv, NEW p \in Pairs, PropSockets(p)
    PROVE  ConnInv' /\ CountInv' /\ fatal' = fatal
<1>1. /\ UNCHANGED <<rPc, peers, numProps, joined, tcp, sub, fatal>>
      /\ pPc[p] = "sockets" /\ pPc'[p] = "eprinit"
      /\ \A q \in Pairs : q # p => pPc'[q] = pPc[q]
  BY DEF PropSockets, StartInv, TypeOK
<1>2. Conn(p)'
  <2>0. Conn(p)
    BY DEF StartInv, ConnInv
  <2>1. CASE HasDownstream(p)
    <3>1. Nothing(p)
      BY <1>1, <2>0, <2>1 DEF Conn, Stage, InitSent, InitHeard, AnswerSent, AnswerHeard, StartSent,
                              StartHeard
    <3>2. Nothing(p)'
      BY <1>1, <3>1 DEF Nothing, Known
    <3> QED
      BY <1>1, <2>0, <2>1, <3>2 DEF Conn, Stage, HasDownstream
  <2>2. CASE ~HasDownstream(p)
    BY <1>1, <2>0, <2>2 DEF Conn, HasDownstream
  <2> QED
    BY <2>1, <2>2
<1>3. ConnInv' /\ CountInv'
  BY <1>1, <1>2, PropMoves DEF StartInv
<1> QED
  BY <1>1, <1>3

LEMMA PropRecvEPRInitInv ==
    ASSUME StartInv, NEW p \in Pairs, PropRecvEPRInit(p)
    PROVE  ConnInv' /\ CountInv' /\ fatal' = fatal
<1>0. Conn(p)
  BY DEF StartInv, ConnInv
<1>1. UNCHANGED <<rPc, peers, numProps, joined, sub, fatal>> /\ pPc[p] = "eprinit"
  BY DEF PropRecvEPRInit
<1>2. CASE HasDownstream(p)
  <2>1. Nothing(p)
    BY <1>0, <1>1, <1>2 DEF Conn, Stage, InitSent, InitHeard, AnswerSent, AnswerHeard, StartSent,
                            StartHeard
  <2>2. /\ pPc'[p] = "initack" /\ tcp'[p] = Append(tcp[p], PMsg("PropInit", p[1]))
        /\ \A q \in Pairs : q # p => pPc'[q] = pPc[q] /\ tcp'[q] = tcp[q]
    BY <1>2 DEF PropRecvEPRInit, StartInv, TypeOK
  <2>3. tcp'[p] = <<PMsg("PropInit", p[1])>>
    BY <2>1, <2>2 DEF Nothing
  <2>4. InitSent(p)'
    BY <1>1, <2>1, <2>2, <2>3 DEF Nothing, InitSent, Known, PMsg
  <2>5. Conn(p)'
    BY <1>0, <1>1, <1>2, <2>4 DEF Conn, Stage, HasDownstream
  <2>6. ConnInv' /\ CountInv'
    BY <1>1, <2>2, <2>5, PropMoves DEF StartInv
  <2> QED
    BY <1>1, <2>6
<1>3. CASE ~HasDownstream(p)
  <2>1. pPc'[p] = "run" /\ tcp' = tcp /\ \A q \in Pairs : q # p => pPc'[q] = pPc[q]
    BY <1>3 DEF PropRecvEPRInit, PropRun, StartInv, TypeOK
  <2>2. Conn(p)'
    BY <1>0, <1>1, <1>3 DEF Conn, HasDownstream
  <2>3. ConnInv' /\ CountInv'
    BY <1>1, <2>1, <2>2, PropMoves DEF StartInv
  <2> QED
    BY <1>1, <2>3
<1> QED
  BY <1>2, <1>3

LEMMA PropRecvInitACKInv ==
    ASSUME StartInv, NEW p \in Pairs, PropRecvInitACK(p)
    PROVE  ConnInv' /\ CountInv' /\ fatal' = fatal
<1>0. Conn(p) /\ sub[p] \in Seq(SubMsg)
  BY DEF StartInv, ConnInv, TypeOK
<1>1. UNCHANGED <<rPc, peers, numProps, joined>> /\ pPc[p] = "initack" /\ sub[p] # <<>>
  BY DEF PropRecvInitACK
<1>2. HasDownstream(p) /\ p \in joined
  BY <1>0, <1>1 DEF Conn
<1>3. InitHeard(p)
  BY <1>0, <1>1, <1>2 DEF Conn, Stage, Nothing, InitSent, AnswerSent, AnswerHeard, StartSent, StartHeard
<1>4. Head(sub[p]) = "PropInitACK" /\ AllAre(Tail(sub[p]), "PropInitACK")
  BY <1>0, <1>1, <1>3, AllAreTail DEF InitHeard
<1>5. /\ pPc'[p] = "start" /\ tcp'[p] = Append(tcp[p], PMsg("PropInitACKACK", p[1]))
      /\ sub'[p] = Tail(sub[p]) /\ UNCHANGED fatal
      /\ \A q \in Pairs : q # p => pPc'[q] = pPc[q] /\ tcp'[q] = tcp[q] /\ sub'[q] = sub[q]
  BY <1>4 DEF PropRecvInitACK, StartInv, TypeOK
<1>6. tcp'[p] = <<PMsg("PropInitACKACK", p[1])>>
  BY <1>3, <1>5 DEF InitHeard
<1>7. tcp'[p] # <<>>
  BY <1>6
<1>8. AnswerSent(p)'
  <2>1. AllAre(sub'[p], "PropInitACK")
    BY <1>4, <1>5
  <2>2. rPc[Downstream[p]] \in {"publish", "poll"}
    BY <1>1, <1>3 DEF InitHeard
  <2> QED
    BY <1>1, <1>2, <1>3, <1>5, <1>6, <2>1, <2>2 DEF InitHeard, AnswerSent, Known, PMsg
<1>9. Conn(p)'
  BY <1>1, <1>2, <1>8 DEF Conn, Stage, HasDownstream
<1>10. ConnInv' /\ CountInv'
  BY <1>1, <1>5, <1>7, <1>9, PropMoves DEF StartInv
<1> QED
  BY <1>5, <1>10

LEMMA PropRecvStartInv ==
    ASSUME StartInv, NEW p \in Pairs, PropRecvStart(p)
    PROVE  ConnInv' /\ CountInv' /\ fatal' = fatal
<1>0. Conn(p) /\ sub[p] \in Seq(SubMsg)
  BY DEF StartInv, ConnInv, TypeOK
<1>1. UNCHANGED <<rPc, peers, numProps, joined, tcp, fatal>> /\ pPc[p] = "start" /\ sub[p] # <<>>
  BY DEF PropRecvStart
<1>2. HasDownstream(p) /\ p \in joined
  BY <1>0, <1>1 DEF Conn
<1>3. AnswerSent(p) \/ AnswerHeard(p) \/ StartSent(p)
  BY <1>0, <1>1, <1>2 DEF Conn, Stage, Nothing, InitSent, InitHeard, StartHeard
<1>4. /\ sub'[p] = Tail(sub[p])
      /\ \A q \in Pairs : q # p => pPc'[q] = pPc[q] /\ sub'[q] = sub[q]
      /\ Head(sub[p]) = "PropStart" => pPc'[p] = "run"
      /\ Head(sub[p]) # "PropStart" => pPc'[p] = "start"
  BY <1>1 DEF PropRecvStart, PropRun, IsPropStart, StartInv, TypeOK
<1>5. ASSUME Stage(p)', (pPc'[p] = "start" /\ tcp[p] = <<>>) <=> tcp[p] = <<>>
      PROVE  ConnInv' /\ CountInv' /\ fatal' = fatal
  <2>1. Conn(p)'
    BY <1>1, <1>2, <1>5 DEF Conn, HasDownstream
  <2>2. ConnInv' /\ CountInv'
    BY <1>1, <1>4, <1>5, <2>1, PropMoves DEF StartInv
  <2> QED
    BY <1>1, <2>2
<1>6. CASE AnswerSent(p) \/ AnswerHeard(p)
  <2>1. Head(sub[p]) = "PropInitACK" /\ AllAre(Tail(sub[p]), "PropInitACK")
    BY <1>0, <1>1, <1>6, AllAreTail DEF AnswerSent, AnswerHeard
  <2>2. pPc'[p] = "start" /\ AllAre(sub'[p], "PropInitACK")
    BY <1>4, <2>1
  <2>3. AnswerSent(p)' \/ AnswerHeard(p)'
    BY <1>1, <1>6, <2>2 DEF AnswerSent, AnswerHeard, Known, PMsg
  <2> QED
    BY <1>5, <2>2, <2>3 DEF Stage
<1>7. CASE StartSent(p)
  <2>0. HasStart(sub[p]) /\ tcp[p] = <<>>
    BY <1>7 DEF StartSent
  <2>1. CASE Head(sub[p]) # "PropStart"
    <3>1. pPc'[p] = "start" /\ HasStart(sub'[p])
      BY <1>0, <1>4, <2>0, <2>1, HasStartTail
    <3>2. StartSent(p)'
      BY <1>1, <1>7, <3>1 DEF StartSent, Known
    <3> QED
      BY <1>5, <3>1, <3>2 DEF Stage
  <2>2. CASE Head(sub[p]) = "PropStart"
    <3>1. pPc'[p] = "run" /\ AllAre(sub'[p], "EPRTerminate")
      BY <1>0, <1>4, <2>0, <2>2, HasStartTail
    <3>2. AllUpdates(tcp'[p])
      BY <1>1, <2>0, EmptyQueues
    <3>3. StartHeard(p)'
      BY <1>1, <1>7, <3>1, <3>2 DEF StartSent, StartHeard, Known
    <3>4. Conn(p)'
      BY <1>1, <1>2, <3>3 DEF Conn, Stage, HasDownstream
    <3>5. ASSUME NEW q \in Pairs PROVE Conn(q)'
      <4>1. CASE q = p
        BY <3>4, <4>1
      <4>2. CASE q # p
        BY <1>1, <1>4, <4>2, ConnSame DEF StartInv, ConnInv
      <4> QED
        BY <4>1, <4>2
    <3>6. ASSUME NEW r \in Pairs PROVE Count(r)'
      <4>1. CASE r # Downstream[p]
        <5>1. \A q \in Up(r) : q \in Pairs /\ q # p
          BY <4>1 DEF Up
        <5>2. \A q \in Up(r) : (pPc'[q] = "start" /\ tcp'[q] = <<>>)
                              <=> (pPc[q] = "start" /\ tcp[q] = <<>>)
          BY <1>1, <1>4, <5>1
        <5> QED
          BY <1>1, <5>2, CountSame DEF StartInv, CountInv
      <4>2. CASE r = Downstream[p]
        <5>1. Count(r) /\ rPc[r] \in {"ready", "run"} /\ rPc'[r] = rPc[r] /\ peers' = peers
          BY <1>1, <1>7, <4>2 DEF StartSent, StartInv, CountInv
        <5> QED
          BY <5>1 DEF Count, Early, Up
      <4> QED
        BY <4>1, <4>2
    <3> QED
      BY <1>1, <3>5, <3>6 DEF ConnInv, CountInv
  <2> QED
    BY <2>1, <2>2
<1> QED
  BY <1>3, <1>6, <1>7

LEMMA RecvSubInv ==
    ASSUME StartInv, NEW p \in Pairs, RecvSub(p)
    PROVE  ConnInv' /\ CountInv' /\ fatal' = fatal
<1>0. Conn(p) /\ sub[p] \in Seq(SubMsg)
  BY DEF StartInv, ConnInv, TypeOK
<1>1. UNCHANGED <<pPc, rPc, peers, numProps, joined, tcp>> /\ pPc[p] = "run" /\ sub[p] # <<>>
  BY DEF RecvSub
<1>2. HasDownstream(p) /\ p \in joined
  BY <1>0, <1>1 DEF Conn
<1>3. StartHeard(p)
  BY <1>0, <1>1, <1>2 DEF Conn, Stage, Nothing, InitSent, InitHeard, AnswerSent, AnswerHeard, StartSent
<1>4. Head(sub[p]) = "EPRTerminate" /\ AllAre(Tail(sub[p]), "EPRTerminate")
  BY <1>0, <1>1, <1>3, AllAreTail DEF StartHeard
<1>5. sub'[p] = Tail(sub[p]) /\ fatal' = fatal /\ \A q \in Pairs : q # p => sub'[q] = sub[q]
  BY <1>4 DEF RecvSub, StartInv, TypeOK
<1>6. StartHeard(p)'
  BY <1>1, <1>3, <1>4, <1>5 DEF StartHeard, Known
<1>7. Conn(p)'
  BY <1>1, <1>2, <1>6 DEF Conn, Stage, HasDownstream
<1>8. ConnInv' /\ CountInv'
  BY <1>1, <1>5, <1>7, PropMoves DEF StartInv
<1> QED
  BY <1>5, <1>8

-----------------------------------------------------------------------------
(* The steps of a receiver.                                                *)

(* What the location of a receiver says of its upstream propagators.       *)
LEMMA StageOfReceiver ==
    ASSUME StartInv, NEW p \in Pairs, NEW q \in Up(p)
    PROVE  /\ q \in Pairs /\ HasDownstream(q) /\ Downstream[q] = p
           /\ Stage(q) /\ (sub[q] # <<>> => q \in joined)
           /\ tcp[q] \in Seq(TcpMsg) /\ sub[q] \in Seq(SubMsg)
           /\ rPc[p] \in {"none", "sockets"} => Nothing(q) \/ InitSent(q)
           /\ rPc[p] = "propinit" => Nothing(q) \/ InitSent(q) \/ InitHeard(q)
           /\ rPc[p] \in {"publish", "poll"} => InitHeard(q) \/ AnswerSent(q) \/ AnswerHeard(q)
           /\ rPc[p] = "pubstart" => AnswerHeard(q)
           /\ rPc[p] \in {"ready", "run"} => StartSent(q) \/ StartHeard(q)
<1>1. q \in Pairs /\ HasDownstream(q) /\ Downstream[q] = p
  BY PairFacts
<1>2. Stage(q) /\ (sub[q] # <<>> => q \in joined)
  BY <1>1 DEF StartInv, ConnInv, Conn
<1>3. tcp[q] \in Seq(TcpMsg) /\ sub[q] \in Seq(SubMsg)
  BY <1>1 DEF StartInv, TypeOK
<1> QED
  BY <1>1, <1>2, <1>3 DEF Stage, Nothing, InitSent, InitHeard, AnswerSent, AnswerHeard, StartSent,
                          StartHeard, Early

LEMMA Published ==
    ASSUME StartInv, NEW p \in Pairs, NEW msg \in SubMsg, Publish(p, msg), NEW q \in Pairs
    PROVE  /\ q \in Up(p) \cap joined => sub'[q] = Append(sub[q], msg)
           /\ q \notin Up(p) \cap joined => sub'[q] = sub[q]
  BY DEF Publish

LEMMA RecvSocketsInv ==
    ASSUME StartInv, NEW p \in Pairs, RecvSockets(p)
    PROVE  ConnInv' /\ CountInv' /\ fatal' = fatal
<1>0. Count(p) /\ \A q \in Up(p) : Conn(q) /\ q \in Pairs
  BY DEF StartInv, ConnInv, CountInv, Up
<1>1. UNCHANGED <<pPc, peers, numProps, joined, tcp, sub>> /\ rPc[p] = "sockets"
  BY DEF RecvSockets
<1>2. pPc[p] \notin {"none", "sockets"}
  BY <1>1 DEF StartInv, ProcessInv, ThreadInv
<1>3. /\ fatal' = fatal
      /\ rPc' = [rPc EXCEPT ![p] = IF Expected(p) = 0 THEN "ready" ELSE "propinit"]
  BY <1>2 DEF RecvSockets
<1>4. peers[p] = {} /\ numProps[p] = 0 /\ rPc \in [Pairs -> {"none", "sockets", "propinit",
                              "publish", "poll", "pubstart", "ready", "run"}]
  BY <1>0, <1>1 DEF Count, StartInv, TypeOK
<1>5. CASE Expected(p) = 0
  <2>1. rPc'[p] = "ready" /\ \A r \in Pairs : r # p => rPc'[r] = rPc[r]
    BY <1>3, <1>4, <1>5
  <2>2. Up(p) = {}
    BY <1>5, UpFinite, FS_EmptySet DEF Expected
  <2>3. Count(p)'
    BY <1>1, <1>4, <2>1, <2>2 DEF Count, Early, Up
  <2>4. ConnInv' /\ CountInv'
    BY <1>1, <2>1, <2>2, <2>3, RecvMoves DEF StartInv
  <2> QED
    BY <1>3, <2>4
<1>6. CASE Expected(p) # 0
  <2>1. rPc'[p] = "propinit" /\ \A r \in Pairs : r # p => rPc'[r] = rPc[r]
    BY <1>3, <1>4, <1>6
  <2>2. Heard(p)' = {}
    BY <1>1, <1>4 DEF Heard
  <2>3. Cardinality({}) = 0
    BY FS_EmptySet
  <2>4. Count(p)'
    BY <1>1, <1>4, <2>1, <2>2, <2>3 DEF Count, Early
  <2>5. ASSUME NEW q \in Up(p) PROVE Conn(q)'
    <3>1. (Nothing(q) \/ InitSent(q)) /\ Downstream[q] = p /\ HasDownstream(q) /\ sub[q] = <<>>
      BY <1>1, StageOfReceiver DEF Nothing, InitSent
    <3>2. Nothing(q)' \/ InitSent(q)'
      BY <1>1, <2>1, <3>1 DEF Nothing, InitSent, Known, Early, PMsg
    <3> QED
      BY <1>1, <3>1, <3>2 DEF Conn, Stage, HasDownstream
  <2>6. ConnInv' /\ CountInv'
    BY <1>1, <2>1, <2>4, <2>5, RecvMoves DEF StartInv
  <2> QED
    BY <1>3, <2>6
<1> QED
  BY <1>5, <1>6

LEMMA PublishInitACKInv ==
    ASSUME StartInv, NEW p \in Pairs, PublishInitACK(p)
    PROVE  ConnInv' /\ CountInv' /\ fatal' = fatal
<1>1. /\ UNCHANGED <<pPc, peers, numProps, joined, tcp, fatal>> /\ rPc[p] = "publish"
      /\ rPc'[p] = "poll" /\ \A r \in Pairs : r # p => rPc'[r] = rPc[r]
  BY DEF PublishInitACK, StartInv, TypeOK
<1>2. Publish(p, "PropInitACK") /\ "PropInitACK" \in SubMsg
  BY DEF PublishInitACK, SubMsg
<1>3. \A q \in Pairs : q \notin Up(p) => sub'[q] = sub[q]
  BY <1>2, Published
<1>4. Count(p)'
  <2>1. Count(p) /\ Answered(p)' = Answered(p)
    BY <1>1 DEF StartInv, CountInv, Answered, Up
  <2> QED
    BY <1>1, <2>1 DEF Count, Early, Up
<1>5. ASSUME NEW q \in Up(p) PROVE Conn(q)'
  <2>0. q \in Pairs /\ HasDownstream(q) /\ Downstream[q] = p /\ (sub[q] # <<>> => q \in joined)
        /\ sub[q] \in Seq(SubMsg)
    BY StageOfReceiver
  <2>1. InitHeard(q) \/ AnswerSent(q) \/ AnswerHeard(q)
    BY <1>1, StageOfReceiver
  <2>2. AllAre(sub[q], "PropInitACK")
    BY <2>1 DEF InitHeard, AnswerSent, AnswerHeard
  <2>3. AllAre(sub'[q], "PropInitACK") /\ (sub'[q] # <<>> => q \in joined)
    <3>1. CASE q \in joined
      BY <1>2, <2>0, <2>2, <3>1, Published, AllAreAppend, ZenonT(40)
    <3>2. CASE q \notin joined
      BY <1>2, <2>0, <2>2, <3>2, Published
    <3> QED
      BY <3>1, <3>2
  <2>4. InitHeard(q)' \/ AnswerSent(q)' \/ AnswerHeard(q)'
    BY <1>1, <2>0, <2>1, <2>3 DEF InitHeard, AnswerSent, AnswerHeard, Known, PMsg
  <2> QED
    BY <1>1, <2>0, <2>3, <2>4 DEF Conn, Stage, HasDownstream
<1>6. ConnInv' /\ CountInv'
  BY <1>1, <1>3, <1>4, <1>5, RecvMoves DEF StartInv
<1> QED
  BY <1>1, <1>6

LEMMA PublishAgainInv ==
    ASSUME StartInv, NEW p \in Pairs, PublishAgain(p)
    PROVE  ConnInv' /\ CountInv' /\ fatal' = fatal
<1>1. /\ UNCHANGED <<pPc, peers, numProps, joined, tcp, sub, fatal>> /\ rPc[p] = "poll"
      /\ rPc'[p] = "publish" /\ \A r \in Pairs : r # p => rPc'[r] = rPc[r]
  BY DEF PublishAgain, StartInv, TypeOK
<1>2. Count(p)'
  <2>1. Count(p) /\ Answered(p)' = Answered(p)
    BY <1>1 DEF StartInv, CountInv, Answered, Up
  <2> QED
    BY <1>1, <2>1 DEF Count, Early, Up
<1>3. ASSUME NEW q \in Up(p) PROVE Conn(q)'
  <2>0. q \in Pairs /\ HasDownstream(q) /\ Downstream[q] = p /\ (sub[q] # <<>> => q \in joined)
    BY StageOfReceiver
  <2>1. InitHeard(q) \/ AnswerSent(q) \/ AnswerHeard(q)
    BY <1>1, StageOfReceiver
  <2>2. InitHeard(q)' \/ AnswerSent(q)' \/ AnswerHeard(q)'
    BY <1>1, <2>0, <2>1 DEF InitHeard, AnswerSent, AnswerHeard, Known, PMsg
  <2> QED
    BY <1>1, <2>0, <2>2 DEF Conn, Stage, HasDownstream
<1>4. ConnInv' /\ CountInv'
  BY <1>1, <1>2, <1>3, RecvMoves DEF StartInv
<1> QED
  BY <1>1, <1>4

LEMMA PublishStartInv ==
    ASSUME StartInv, NEW p \in Pairs, PublishStart(p)
    PROVE  ConnInv' /\ CountInv' /\ fatal' = fatal
<1>1. /\ UNCHANGED <<pPc, peers, numProps, joined, tcp, fatal>> /\ rPc[p] = "pubstart"
      /\ rPc'[p] = "ready" /\ \A r \in Pairs : r # p => rPc'[r] = rPc[r]
  BY DEF PublishStart, StartInv, TypeOK
<1>2. Publish(p, "PropStart") /\ "PropStart" \in SubMsg
  BY DEF PublishStart, SubMsg
<1>3. \A q \in Pairs : q \notin Up(p) => sub'[q] = sub[q]
  BY <1>2, Published
<1>4. Count(p)'
  <2>1. Count(p)
    BY DEF StartInv, CountInv
  <2> QED
    BY <1>1, <2>1 DEF Count, Early, Up
<1>5. ASSUME NEW q \in Up(p) PROVE Conn(q)'
  <2>1. q \in Pairs /\ HasDownstream(q) /\ Downstream[q] = p /\ sub[q] \in Seq(SubMsg)
    BY StageOfReceiver
  <2>2. AnswerHeard(q)
    BY <1>1, StageOfReceiver
  <2>3. q \in joined /\ AllAre(sub[q], "PropInitACK")
    BY <2>2 DEF AnswerHeard
  <2>4. HasStart(sub'[q])
    BY <1>2, <2>1, <2>3, Published, StartAppend
  <2>5. StartSent(q)'
    BY <1>1, <2>1, <2>2, <2>4 DEF AnswerHeard, StartSent, Known
  <2> QED
    BY <1>1, <2>1, <2>3, <2>5 DEF Conn, Stage, HasDownstream
<1>6. ConnInv' /\ CountInv'
  BY <1>1, <1>3, <1>4, <1>5, RecvMoves DEF StartInv
<1> QED
  BY <1>1, <1>6

LEMMA RecvRunInv ==
    ASSUME StartInv, NEW p \in Pairs, RecvRun(p)
    PROVE  ConnInv' /\ CountInv' /\ fatal' = fatal
<1>1. /\ UNCHANGED <<pPc, peers, numProps, joined, tcp, sub, fatal>> /\ rPc[p] = "ready"
      /\ rPc'[p] = "run" /\ \A r \in Pairs : r # p => rPc'[r] = rPc[r]
  BY DEF RecvRun, StartInv, TypeOK
<1>2. Count(p)'
  <2>1. Count(p)
    BY DEF StartInv, CountInv
  <2> QED
    BY <1>1, <2>1 DEF Count, Early, Up
<1>3. ASSUME NEW q \in Up(p) PROVE Conn(q)'
  <2>0. q \in Pairs /\ HasDownstream(q) /\ Downstream[q] = p /\ (sub[q] # <<>> => q \in joined)
    BY StageOfReceiver
  <2>1. StartSent(q) \/ StartHeard(q)
    BY <1>1, StageOfReceiver
  <2>2. StartSent(q)' \/ StartHeard(q)'
    BY <1>1, <2>0, <2>1 DEF StartSent, StartHeard, Known
  <2> QED
    BY <1>1, <2>0, <2>2 DEF Conn, Stage, HasDownstream
<1>4. ConnInv' /\ CountInv'
  BY <1>1, <1>2, <1>3, RecvMoves DEF StartInv
<1> QED
  BY <1>1, <1>4

LEMMA RecvPropInitInv ==
    ASSUME StartInv, NEW p \in Pairs, NEW q \in Pairs, RecvPropInit(p, q)
    PROVE  ConnInv' /\ CountInv' /\ fatal' = fatal
<1>1. /\ UNCHANGED <<pPc, joined, sub, fatal>> /\ rPc[p] = "propinit" /\ q \in Up(p)
      /\ tcp[q] # <<>> /\ tcp'[q] = Tail(tcp[q])
      /\ peers'[p] = peers[p] \cup {Head(tcp[q]).id}
      /\ \A r \in Pairs : r # q => tcp'[r] = tcp[r]
      /\ \A r \in Pairs : r # p => peers'[r] = peers[r]
  BY DEF RecvPropInit, StartInv, TypeOK
<1>2. InitSent(q) /\ Downstream[q] = p /\ HasDownstream(q)
  BY <1>1, StageOfReceiver DEF Nothing, InitHeard
<1>3. tcp[q] = <<PMsg("PropInit", q[1])>> /\ sub[q] = <<>> /\ pPc[q] = "initack" /\ q[1] \notin peers[p]
  BY <1>2 DEF InitSent, Known
<1>4. Head(tcp[q]).id = q[1] /\ Tail(tcp[q]) = <<>>
  <2>1. Head(tcp[q]) = PMsg("PropInit", q[1]) /\ Tail(tcp[q]) = <<>>
    BY <1>3
  <2> QED
    BY <2>1 DEF PMsg
<1>5. tcp'[q] = <<>> /\ peers'[p] = peers[p] \cup {q[1]}
  BY <1>1, <1>4
<1>6. Count(p)
  BY DEF StartInv, CountInv
<1>7. q \notin Heard(p) /\ Heard(p) \in SUBSET Up(p) /\ numProps[p] = Cardinality(Heard(p))
  BY <1>1, <1>3, <1>6 DEF Heard, Count
<1>8. \A r \in Up(p) : r # q => r[1] # q[1] /\ r \in Pairs
  BY <1>1, PairFacts
<1>9. Heard(p)' = Heard(p) \cup {q}
  <2>1. Heard(p)' = {r \in Up(p) : r[1] \in peers'[p]}
    BY DEF Heard, Up
  <2>2. \A r \in Up(p) : r[1] \in peers'[p] <=> r[1] \in peers[p] \/ r = q
    BY <1>5, <1>8
  <2> QED
    BY <1>1, <2>1, <2>2 DEF Heard
<1>10. /\ Cardinality(Heard(p)) \in Nat
       /\ Cardinality(Heard(p)') = Cardinality(Heard(p)) + 1
       /\ Cardinality(Heard(p)) + 1 = Expected(p) => Heard(p)' = Up(p)
  <2>1. /\ Cardinality(Heard(p)) \in Nat
        /\ Cardinality(Heard(p) \cup {q}) = Cardinality(Heard(p)) + 1
        /\ Cardinality(Heard(p)) + 1 = Expected(p) => Heard(p) \cup {q} = Up(p)
    BY <1>1, <1>7, OneMore
  <2> QED
    BY <1>9, <2>1
<1>11. peers'[p] \subseteq {r[1] : r \in Up(p)}
  BY <1>1, <1>5, <1>6 DEF Count
<1>12. CASE numProps[p] + 1 = Expected(p)
  <2>1. /\ rPc'[p] = "publish" /\ numProps'[p] = 0
        /\ \A r \in Pairs : r # p => rPc'[r] = rPc[r] /\ numProps'[r] = numProps[r]
    BY <1>12 DEF RecvPropInit, AllHeard, StartInv, TypeOK
  <2>2. \A r \in Up(p) : r[1] \in peers'[p]
    BY <1>7, <1>10, <1>12 DEF Heard
  <2>3. ASSUME NEW r \in Up(p) PROVE InitHeard(r)' /\ Conn(r)'
    <3>0. r \in Pairs /\ HasDownstream(r) /\ Downstream[r] = p
      BY StageOfReceiver
    <3>1. CASE r = q
      <4>1. InitHeard(r)'
        BY <1>1, <1>3, <1>5, <2>1, <2>2, <3>0, <3>1, EmptyQueues DEF InitHeard, Known
      <4> QED
        BY <1>1, <1>3, <3>0, <3>1, <4>1 DEF Conn, Stage, HasDownstream
    <3>2. CASE r # q
      <4>1. r[1] \in peers[p]
        BY <1>5, <1>8, <2>2, <3>2
      <4>2. InitHeard(r) /\ sub[r] = <<>>
        BY <1>1, <3>0, <4>1, StageOfReceiver DEF Nothing, InitSent, InitHeard, Known
      <4>3. InitHeard(r)'
        BY <1>1, <2>1, <2>2, <3>0, <3>2, <4>2 DEF InitHeard, Known
      <4> QED
        BY <1>1, <3>0, <4>2, <4>3 DEF Conn, Stage, HasDownstream
    <3> QED
      BY <3>1, <3>2
  <2>4. Answered(p)' = {}
    <3>1. Answered(p)' = {r \in Up(p) : pPc'[r] = "start" /\ tcp'[r] = <<>>}
      BY DEF Answered, Up
    <3>2. \A r \in Up(p) : pPc'[r] = "initack"
      BY <2>3 DEF InitHeard
    <3> QED
      BY <3>1, <3>2
  <2>5. Cardinality({}) = 0
    BY FS_EmptySet
  <2>6. Count(p)'
    BY <1>11, <2>1, <2>2, <2>4, <2>5 DEF Count, Early, Up
  <2>7. ConnInv' /\ CountInv'
    BY <1>1, <2>1, <2>3, <2>6, RecvMoves DEF StartInv
  <2> QED
    BY <1>1, <2>7
<1>13. CASE numProps[p] + 1 # Expected(p)
  <2>1. /\ rPc' = rPc /\ numProps'[p] = numProps[p] + 1
        /\ \A r \in Pairs : r # p => numProps'[r] = numProps[r]
    BY <1>13 DEF RecvPropInit, AllHeard, StartInv, TypeOK
  <2>2. ASSUME NEW r \in Up(p) PROVE Conn(r)'
    <3>0. r \in Pairs /\ HasDownstream(r) /\ Downstream[r] = p
      BY StageOfReceiver
    <3>1. CASE r = q
      <4>1. InitHeard(r)'
        BY <1>1, <1>3, <1>5, <2>1, <3>0, <3>1, EmptyQueues DEF InitHeard, Known
      <4> QED
        BY <1>1, <1>3, <3>0, <3>1, <4>1 DEF Conn, Stage, HasDownstream
    <3>2. CASE r # q
      <4>1. r[1] \in peers'[p] <=> r[1] \in peers[p]
        BY <1>5, <1>8, <3>2
      <4>2. (Nothing(r) \/ InitSent(r) \/ InitHeard(r)) /\ sub[r] = <<>>
        BY <1>1, <3>0, StageOfReceiver DEF Nothing, InitSent, InitHeard
      <4>3. Nothing(r)' \/ InitSent(r)' \/ InitHeard(r)'
        BY <1>1, <2>1, <3>0, <3>2, <4>1, <4>2 DEF Nothing, InitSent, InitHeard, Known, PMsg
      <4> QED
        BY <1>1, <3>0, <4>2, <4>3 DEF Conn, Stage, HasDownstream
    <3> QED
      BY <3>1, <3>2
  <2>3. Count(p)'
    BY <1>1, <1>7, <1>10, <1>11, <2>1 DEF Count, Early, Up
  <2>4. ConnInv' /\ CountInv'
    BY <1>1, <2>1, <2>2, <2>3, RecvMoves DEF StartInv
  <2> QED
    BY <1>1, <2>4
<1> QED
  BY <1>12, <1>13

LEMMA RecvInitACKACKInv ==
    ASSUME StartInv, NEW p \in Pairs, NEW q \in Pairs, RecvInitACKACK(p, q)
    PROVE  ConnInv' /\ CountInv' /\ fatal' = fatal
<1>1. /\ UNCHANGED <<pPc, peers, joined, sub>> /\ rPc[p] = "poll" /\ q \in Up(p)
      /\ tcp[q] # <<>> /\ tcp'[q] = Tail(tcp[q])
      /\ \A r \in Pairs : r # q => tcp'[r] = tcp[r]
  BY DEF RecvInitACKACK, StartInv, TypeOK
<1>2. AnswerSent(q)
  BY <1>1, StageOfReceiver DEF InitHeard, AnswerHeard
<1>3. tcp[q] = <<PMsg("PropInitACKACK", q[1])>> /\ pPc[q] = "start" /\ q \in joined
  BY <1>2 DEF AnswerSent
<1>4. Head(tcp[q]).type = "PropInitACKACK" /\ tcp'[q] = <<>>
  <2>1. Head(tcp[q]) = PMsg("PropInitACKACK", q[1]) /\ Tail(tcp[q]) = <<>>
    BY <1>3
  <2> QED
    BY <1>1, <2>1 DEF PMsg
<1>5. /\ fatal' = fatal /\ numProps'[p] = numProps[p] + 1
      /\ \A r \in Pairs : r # p => rPc'[r] = rPc[r] /\ numProps'[r] = numProps[r]
      /\ rPc'[p] = IF numProps[p] + 1 = Expected(p) THEN "pubstart" ELSE "poll"
  BY <1>1, <1>4 DEF RecvInitACKACK, AllAnswered, StartInv, TypeOK
<1>6. Count(p)
  BY DEF StartInv, CountInv
<1>7. q \notin Answered(p) /\ Answered(p) \in SUBSET Up(p) /\ numProps[p] = Cardinality(Answered(p))
  BY <1>1, <1>6 DEF Answered, Count
<1>8. Answered(p)' = Answered(p) \cup {q}
  <2>1. Answered(p)' = {r \in Up(p) : pPc'[r] = "start" /\ tcp'[r] = <<>>}
    BY DEF Answered, Up
  <2>2. \A r \in Up(p) : r \in Pairs
    BY DEF Up
  <2> QED
    BY <1>1, <1>3, <1>4, <2>1, <2>2 DEF Answered
<1>9. /\ Cardinality(Answered(p)) \in Nat
      /\ Cardinality(Answered(p)') = Cardinality(Answered(p)) + 1
      /\ Cardinality(Answered(p)) + 1 = Expected(p) => Answered(p)' = Up(p)
  <2>1. /\ Cardinality(Answered(p)) \in Nat
        /\ Cardinality(Answered(p) \cup {q}) = Cardinality(Answered(p)) + 1
        /\ Cardinality(Answered(p)) + 1 = Expected(p) => Answered(p) \cup {q} = Up(p)
    BY <1>1, <1>7, OneMore
  <2> QED
    BY <1>8, <2>1
<1>10. rPc'[p] = "pubstart" => \A r \in Up(p) : pPc'[r] = "start" /\ tcp'[r] = <<>>
  <2>1. rPc'[p] = "pubstart" => Answered(p)' = Up(p)
    BY <1>5, <1>7, <1>9
  <2> QED
    BY <2>1 DEF Answered, Up
<1>11. Count(p)'
  BY <1>1, <1>5, <1>6, <1>7, <1>9, <1>10 DEF Count, Early, Up
<1>12. ASSUME NEW r \in Up(p) PROVE Conn(r)'
  <2>0. r \in Pairs /\ HasDownstream(r) /\ Downstream[r] = p /\ (sub[r] # <<>> => r \in joined)
    BY StageOfReceiver
  <2>1. InitHeard(r) \/ AnswerSent(r) \/ AnswerHeard(r)
    BY <1>1, StageOfReceiver
  <2>2. CASE r = q
    <3>1. AnswerHeard(r)'
      BY <1>1, <1>2, <1>4, <1>5, <2>0, <2>2 DEF AnswerSent, AnswerHeard, Known
    <3> QED
      BY <1>1, <2>0, <3>1 DEF Conn, Stage, HasDownstream
  <2>3. CASE r # q /\ rPc'[p] = "poll"
    <3>1. InitHeard(r)' \/ AnswerSent(r)' \/ AnswerHeard(r)'
      BY <1>1, <2>0, <2>1, <2>3 DEF InitHeard, AnswerSent, AnswerHeard, Known, PMsg
    <3> QED
      BY <1>1, <2>0, <3>1 DEF Conn, Stage, HasDownstream
  <2>4. CASE r # q /\ rPc'[p] = "pubstart"
    <3>1. AnswerHeard(r)
      BY <1>1, <1>10, <2>0, <2>1, <2>4 DEF InitHeard, AnswerSent
    <3>2. AnswerHeard(r)'
      BY <1>1, <2>0, <2>4, <3>1 DEF AnswerHeard, Known
    <3> QED
      BY <1>1, <2>0, <3>2 DEF Conn, Stage, HasDownstream
  <2> QED
    BY <1>5, <2>2, <2>3, <2>4
<1>13. ConnInv' /\ CountInv'
  BY <1>1, <1>5, <1>11, <1>12, RecvMoves DEF StartInv
<1> QED
  BY <1>5, <1>13

LEMMA RecvTcpInv ==
    ASSUME StartInv, NEW p \in Pairs, NEW q \in Pairs, RecvTcp(p, q)
    PROVE  ConnInv' /\ CountInv' /\ fatal' = fatal
<1>1. /\ UNCHANGED <<pPc, rPc, peers, numProps, joined, sub>> /\ rPc[p] = "run" /\ q \in Up(p)
      /\ tcp[q] # <<>> /\ tcp'[q] = Tail(tcp[q])
      /\ \A r \in Pairs : r # q => tcp'[r] = tcp[r]
  BY DEF RecvTcp, StartInv, TypeOK
<1>2. /\ StartHeard(q) /\ tcp[q] \in Seq(TcpMsg) /\ HasDownstream(q) /\ Downstream[q] = p
      /\ (sub[q] # <<>> => q \in joined)
  BY <1>1, StageOfReceiver DEF StartSent
<1>3. Head(tcp[q]).type = "EPRUpdateBuffer" /\ AllUpdates(Tail(tcp[q]))
  BY <1>1, <1>2, AllUpdatesTail DEF StartHeard
<1>4. fatal' = fatal
  BY <1>3 DEF RecvTcp
<1>5. Conn(q)'
  <2>1. StartHeard(q)'
    BY <1>1, <1>2, <1>3 DEF StartHeard, Known
  <2> QED
    BY <1>1, <1>2, <2>1 DEF Conn, Stage, HasDownstream
<1>6. pPc[q] = "run"
  BY <1>2 DEF StartHeard
<1>7. ConnInv' /\ CountInv'
  BY <1>1, <1>5, <1>6, PropMoves DEF StartInv
<1> QED
  BY <1>4, <1>7

-----------------------------------------------------------------------------
(* The steps of Start, of 0MQ, and of pairs in their loops.                *)

LEMMA MainStepInv ==
    ASSUME StartInv, NEW n \in Nodes, MainStep(n)
    PROVE  ConnInv' /\ CountInv' /\ fatal' = fatal
<1> DEFINE p == <<n, mainDir[n]>>
<1>0. p \in Pairs
  BY PairOf DEF StartInv, TypeOK
<1>i. ConnInv /\ CountInv
  BY DEF StartInv
<1>c. Conn(p) /\ Count(p)
  BY <1>0, <1>i DEF ConnInv, CountInv
<1>m. MainOf(n)
  BY DEF StartInv, ProcessInv, MainInv
<1>1. CASE CreatePropagator(n)
  <2>1. /\ UNCHANGED <<rPc, peers, numProps, joined, tcp, sub, fatal>>
        /\ mainPc[n] = "prop" /\ pPc' = [pPc EXCEPT ![p] = "sockets"]
    BY <1>1 DEF CreatePropagator
  <2>2. pPc[p] = "none" /\ pPc'[p] = "sockets" /\ \A q \in Pairs : q # p => pPc'[q] = pPc[q]
    BY <1>0, <1>m, <2>1 DEF MainOf, StartInv, TypeOK
  <2> SUFFICES ASSUME NEW r \in Pairs, r = p PROVE ConnInv' /\ CountInv' /\ fatal' = fatal
    BY <1>0
  <2> HIDE DEF p
  <2>3. Conn(r)'
    <3>1. CASE HasDownstream(r)
      <4>1. Nothing(r)
        BY <1>c, <2>2, <3>1 DEF Conn, Stage, InitSent, InitHeard, AnswerSent, AnswerHeard, StartSent,
                                StartHeard
      <4>2. Nothing(r)'
        BY <2>1, <2>2, <4>1 DEF Nothing, Known
      <4> QED
        BY <1>c, <2>1, <3>1, <4>2 DEF Conn, Stage, HasDownstream
    <3>2. CASE ~HasDownstream(r)
      BY <1>c, <2>1, <3>2 DEF Conn, HasDownstream
    <3> QED
      BY <3>1, <3>2
  <2>4. ConnInv' /\ CountInv'
    BY <1>i, <2>1, <2>2, <2>3, PropMoves
  <2> QED
    BY <2>1, <2>4
<1>2. CASE SyncPropagator(n) \/ StartReturns(n)
  <2>1. UNCHANGED <<pPc, rPc, peers, numProps, joined, tcp, sub, fatal>>
    BY <1>2 DEF SyncPropagator, StartReturns
  <2>2. \A q \in Pairs : Conn(q)'
    BY <1>i, <2>1, ConnSame DEF ConnInv
  <2>3. \A q \in Pairs : Count(q)'
    BY <1>i, <2>1, CountSame DEF CountInv
  <2> QED
    BY <2>1, <2>2, <2>3 DEF ConnInv, CountInv
<1>3. CASE CreateReceiver(n)
  <2>1. /\ UNCHANGED <<pPc, peers, numProps, joined, tcp, sub, fatal>>
        /\ mainPc[n] = "recv" /\ rPc' = [rPc EXCEPT ![p] = "sockets"]
    BY <1>3 DEF CreateReceiver
  <2>2. rPc[p] = "none" /\ rPc'[p] = "sockets" /\ \A r \in Pairs : r # p => rPc'[r] = rPc[r]
    BY <1>0, <1>m, <2>1 DEF MainOf, StartInv, TypeOK
  <2> SUFFICES ASSUME NEW r \in Pairs, r = p PROVE ConnInv' /\ CountInv' /\ fatal' = fatal
    BY <1>0
  <2> HIDE DEF p
  <2>3. Count(r)'
    BY <1>c, <2>1, <2>2 DEF Count, Early
  <2>4. ASSUME NEW q \in Up(r) PROVE Conn(q)'
    <3>1. (Nothing(q) \/ InitSent(q)) /\ Downstream[q] = r /\ HasDownstream(q) /\ sub[q] = <<>>
      BY <2>2, StageOfReceiver DEF Nothing, InitSent
    <3>2. Nothing(q)' \/ InitSent(q)'
      BY <2>1, <2>2, <3>1 DEF Nothing, InitSent, Known, Early, PMsg
    <3> QED
      BY <2>1, <3>1, <3>2 DEF Conn, Stage, HasDownstream
  <2>5. ConnInv' /\ CountInv'
    BY <1>i, <2>1, <2>2, <2>3, <2>4, RecvMoves
  <2> QED
    BY <2>1, <2>5
<1> QED
  BY <1>1, <1>2, <1>3 DEF MainStep

LEMMA JoinInv ==
    ASSUME StartInv, NEW p \in Pairs, Join(p)
    PROVE  ConnInv' /\ CountInv' /\ fatal' = fatal
<1>1. UNCHANGED <<pPc, rPc, peers, numProps, tcp, sub, fatal>> /\ joined \subseteq joined'
  BY DEF Join
<1>2. \A q \in Pairs : Conn(q)'
  BY <1>1, ConnSame DEF StartInv, ConnInv
<1>3. \A q \in Pairs : Count(q)'
  BY <1>1, CountSame DEF StartInv, CountInv
<1> QED
  BY <1>1, <1>2, <1>3 DEF ConnInv, CountInv

LEMMA SendUpdatesInv ==
    ASSUME StartInv, NEW p \in Pairs, SendUpdates(p)
    PROVE  ConnInv' /\ CountInv' /\ fatal' = fatal
<1>1. /\ UNCHANGED <<pPc, rPc, peers, numProps, joined, sub, fatal>> /\ pPc[p] = "run"
      /\ HasDownstream(p) /\ tcp'[p] = Append(tcp[p], PMsg("EPRUpdateBuffer", p[1]))
      /\ \A q \in Pairs : q # p => tcp'[q] = tcp[q]
  BY DEF SendUpdates, StartInv, TypeOK
<1>2. Conn(p) /\ tcp[p] \in Seq(TcpMsg)
  BY DEF StartInv, ConnInv, TypeOK
<1>3. StartHeard(p)
  BY <1>1, <1>2 DEF Conn, Stage, Nothing, InitSent, InitHeard, AnswerSent, AnswerHeard, StartSent
<1>4. AllUpdates(tcp'[p])
  <2>1. PMsg("EPRUpdateBuffer", p[1]) \in TcpMsg /\ PMsg("EPRUpdateBuffer", p[1]).type = "EPRUpdateBuffer"
    BY PairFacts, MsgType
  <2> QED
    BY <1>1, <1>2, <1>3, <2>1, AllUpdatesAppend DEF StartHeard
<1>5. StartHeard(p)'
  BY <1>1, <1>3, <1>4 DEF StartHeard, Known
<1>6. Conn(p)'
  BY <1>1, <1>2, <1>5 DEF Conn, Stage, HasDownstream
<1>7. ConnInv' /\ CountInv'
  BY <1>1, <1>6, PropMoves DEF StartInv
<1> QED
  BY <1>1, <1>7

LEMMA PublishTerminateInv ==
    ASSUME StartInv, NEW p \in Pairs, PublishTerminate(p)
    PROVE  ConnInv' /\ CountInv' /\ fatal' = fatal
<1>1. UNCHANGED <<pPc, rPc, peers, numProps, joined, tcp, fatal>> /\ rPc[p] = "run"
  BY DEF PublishTerminate
<1>2. Publish(p, "EPRTerminate") /\ "EPRTerminate" \in SubMsg
  BY DEF PublishTerminate, SubMsg
<1>3. \A q \in Pairs : q \notin Up(p) => sub'[q] = sub[q]
  BY <1>2, Published
<1>4. Count(p)'
  BY <1>1, CountSame DEF StartInv, CountInv
<1>5. ASSUME NEW q \in Up(p) PROVE Conn(q)'
  <2>0. q \in Pairs /\ HasDownstream(q) /\ Downstream[q] = p /\ (sub[q] # <<>> => q \in joined)
        /\ sub[q] \in Seq(SubMsg)
    BY StageOfReceiver
  <2>1. StartSent(q) \/ StartHeard(q)
    BY <1>1, StageOfReceiver
  <2>2. CASE q \notin joined
    <3>1. sub'[q] = sub[q]
      BY <1>2, <2>0, <2>2, Published
    <3> QED
      BY <1>1, <2>0, <3>1, ConnSame DEF StartInv, ConnInv
  <2>3. CASE q \in joined
    <3>1. sub'[q] = Append(sub[q], "EPRTerminate")
      BY <1>2, <2>0, <2>3, Published
    <3>2. StartSent(q) => StartSent(q)'
      BY <1>1, <1>2, <2>0, <3>1, HasStartAppend DEF StartSent, Known
    <3>3. StartHeard(q) => StartHeard(q)'
      BY <1>1, <1>2, <2>0, <3>1, AllAreAppend DEF StartHeard, Known
    <3> QED
      BY <1>1, <2>0, <2>1, <2>3, <3>2, <3>3 DEF Conn, Stage, HasDownstream
  <2> QED
    BY <2>2, <2>3
<1>6. ConnInv' /\ CountInv'
  BY <1>1, <1>3, <1>4, <1>5, RecvMoves DEF StartInv
<1> QED
  BY <1>1, <1>6

-----------------------------------------------------------------------------
LEMMA StartNext == StartInv /\ [Next]_vars => StartInv'
<1> SUFFICES ASSUME StartInv, [Next]_vars PROVE StartInv'
  OBVIOUS
<1>1. TypeOK'
  BY TypeNext DEF StartInv
<1>2. ProcessInv'
  BY ProcessNext DEF StartInv
<1>3. ConnInv' /\ CountInv' /\ fatal' = fatal
  <2>1. ASSUME NEW n \in Nodes, MainStep(n) PROVE ConnInv' /\ CountInv' /\ fatal' = fatal
    BY <2>1, MainStepInv
  <2>2. ASSUME NEW p \in Pairs, PropStep(p) PROVE ConnInv' /\ CountInv' /\ fatal' = fatal
    BY <2>2, PropSocketsInv, PropRecvEPRInitInv, PropRecvInitACKInv, PropRecvStartInv, RecvSubInv
       DEF PropStep
  <2>3. ASSUME NEW p \in Pairs, RecvStep(p) PROVE ConnInv' /\ CountInv' /\ fatal' = fatal
    BY <2>3, RecvSocketsInv, PublishInitACKInv, PublishAgainInv, PublishStartInv, RecvRunInv,
       RecvPropInitInv, RecvInitACKACKInv, RecvTcpInv DEF RecvStep
  <2>4. ASSUME NEW p \in Pairs, Join(p) \/ Traffic(p) PROVE ConnInv' /\ CountInv' /\ fatal' = fatal
    BY <2>4, JoinInv, SendUpdatesInv, PublishTerminateInv DEF Traffic
  <2>5. CASE UNCHANGED vars
    <3>1. UNCHANGED <<pPc, rPc, peers, numProps, joined, tcp, sub, fatal>>
      BY <2>5 DEF vars
    <3>2. \A q \in Pairs : Conn(q)'
      BY <3>1, ConnSame DEF StartInv, ConnInv
    <3>3. \A q \in Pairs : Count(q)'
      BY <3>1, CountSame DEF StartInv, CountInv
    <3> QED
      BY <3>1, <3>2, <3>3 DEF ConnInv, CountInv
  <2> QED
    BY <2>1, <2>2, <2>3, <2>4, <2>5 DEF Next, Quiet
<1>4. NoHandshakeAbort'
  BY <1>3 DEF StartInv, NoHandshakeAbort, Alive
<1> QED
  BY <1>1, <1>2, <1>3, <1>4 DEF StartInv

(* The invariant of the handshake, for all processes and graphs: the types, *)
(* the order in which Start creates threads, the stage of each connection   *)
(* and the two counts of each receiver.                                     *)
THEOREM StartInvariant == Spec => []StartInv
<1>1. Init => StartInv
  BY StartInit
<1>2. StartInv /\ [Next]_vars => StartInv'
  BY StartNext
<1> QED
  BY <1>1, <1>2, PTL DEF Spec

(* Every variable of the handshake keeps its type: the threads only take    *)
(* the program points, and the sockets only carry the messages, that the   *)
(* code of Start and of the two thread mains names.                        *)
THEOREM StartTypes == Spec => []TypeOK
<1>1. StartInv => TypeOK
  BY DEF StartInv
<1> QED
  BY <1>1, StartInvariant, PTL

(* No CHECK or LOG(FATAL) of the handshake or of a loop is reached by a     *)
(* message that comes too early or too late.                                *)
THEOREM NoAbortAtStart == Spec => []NoHandshakeAbort
<1>1. StartInv => NoHandshakeAbort
  BY DEF StartInv
<1> QED
  BY <1>1, StartInvariant, PTL

(* After step 1 peer_prop_info has the upstream propagators and nobody      *)
(* else, although the receiver only counts messages.                        *)
THEOREM PeersAreKnown == Spec => []PeersKnown
<1>1. ASSUME StartInv PROVE PeersKnown
  <2> SUFFICES ASSUME NEW p \in Pairs, rPc[p] \in {"publish", "poll", "pubstart", "ready", "run"}
               PROVE  peers[p] = {q[1] : q \in Up(p)}
    BY DEF PeersKnown
  <2>1. Count(p)
    BY <1>1 DEF StartInv, CountInv
  <2> QED
    BY <2>1 DEF Count, Early
<1> QED
  BY <1>1, StartInvariant, PTL

(* PropStart, published once, is lost for nobody.                           *)
THEOREM StartReachesAll == Spec => []PropStartIsHeard
<1>1. ASSUME StartInv PROVE PropStartIsHeard
  <2> SUFFICES ASSUME NEW p \in Pairs, rPc[p] \in {"ready", "run"}, NEW q \in Up(p)
               PROVE  \/ pPc[q] = "run"
                      \/ pPc[q] = "start" /\ \E i \in DOMAIN sub[q] : sub[q][i] = "PropStart"
    BY DEF PropStartIsHeard
  <2>1. (StartSent(q) \/ StartHeard(q)) /\ sub[q] \in Seq(SubMsg)
    BY <1>1, StageOfReceiver
  <2>2. DOMAIN sub[q] = 1 .. Len(sub[q])
    BY <2>1
  <2> QED
    BY <2>1, <2>2 DEF StartSent, StartHeard, HasStart
<1> QED
  BY <1>1, StartInvariant, PTL

(* A propagator in its loop sends to a receiver whose handshake is over    *)
(* for all its upstream propagators, although the receiver may not be in   *)
(* its loop yet: it has published PropStart and goes to RUN only then.     *)
THEOREM HandshakesEndFirst == Spec => []HandshakeOverFirst
<1>1. ASSUME StartInv PROVE HandshakeOverFirst
  <2> SUFFICES ASSUME NEW p \in Pairs, HasDownstream(p), pPc[p] = "run"
               PROVE  /\ rPc[Downstream[p]] \in {"ready", "run"}
                      /\ \A q \in Up(Downstream[p]) :
                            /\ q \in joined /\ pPc[q] \in {"start", "run"}
                            /\ \A i \in DOMAIN tcp[q] : tcp[q][i].type = "EPRUpdateBuffer"
    BY DEF HandshakeOverFirst
  <2>1. Conn(p) /\ Downstream[p] \in Pairs
    BY <1>1, PairFacts DEF StartInv, ConnInv
  <2>2. rPc[Downstream[p]] \in {"ready", "run"}
    BY <2>1 DEF Conn, Stage, Nothing, InitSent, InitHeard, AnswerSent, AnswerHeard, StartSent, StartHeard
  <2>3. ASSUME NEW q \in Up(Downstream[p])
        PROVE  /\ q \in joined /\ pPc[q] \in {"start", "run"}
               /\ \A i \in DOMAIN tcp[q] : tcp[q][i].type = "EPRUpdateBuffer"
    <3>1. (StartSent(q) \/ StartHeard(q)) /\ tcp[q] \in Seq(TcpMsg)
      BY <1>1, <2>1, <2>2, StageOfReceiver
    <3>2. AllUpdates(tcp[q])
      BY <3>1, EmptyQueues DEF StartSent, StartHeard
    <3>3. DOMAIN tcp[q] = 1 .. Len(tcp[q])
      BY <3>1
    <3> QED
      BY <3>1, <3>2, <3>3 DEF StartSent, StartHeard, AllUpdates
  <2> QED
    BY <2>2, <2>3
<1> QED
  BY <1>1, StartInvariant, PTL

(* When Start returns, all four threads of the process are in state RUN.    *)
THEOREM StartedRuns == Spec => []StartedIsRunning
<1>1. StartInv => StartedIsRunning
  BY DEF StartInv, ProcessInv, SemInv, SemOf, StartedIsRunning
<1> QED
  BY <1>1, StartInvariant, PTL
=============================================================================
