# A TLA+ model of QuiltDB

QuiltDB is an update propagation layer. Each process holds tables of
key/value pairs; an application increments values with `Inc`, and the increments
travel along a graph of processes configured by the user: every logical node
sends to at most one downstream node and may have many upstream nodes. Updates
are aggregated on the way, and a graph may have cycles, so a node must recognise
and remove its own updates when they come back.

This directory models the library (`src/src/quiltdb`) and proves and
model-checks the properties that its comments, assertions and report
(`src/doc/report/quiltdb.tex`) promise.

## 1. Inventory

A process runs two unconnected *logical nodes* (a horizontal and a vertical
one). Each is a pair of threads, a **propagator** and a **receiver**, plus a
**timer** thread; the application's threads call into them.

| part | state it keeps | operations | talks to |
|---|---|---|---|
| Propagator (`comm/propagator`) | `state_`; update stores per table; its own range of sequence numbers and those of its peers; four termination flags | poll loop: timer trigger (send a batch), `EPUpdateLog`, `EPUpdateBuffer`, `EPInternalTerminate`, `EPRecvInternalTerminateACK`, `EPRTerminate` | timer, paired receiver, downstream receiver, application |
| Receiver (`comm/receiver`) | `state_`; `my_updates`, the queue of own batches in flight; which peers acknowledged termination; two flags | poll loop: `EMyUpdates`, `ERInternalTerminate`, `EPRInternalTerminate`, `EPRUpdateBuffer`, `EPRTerminateACK` | paired propagator, upstream propagators, tables, application |
| Timer (`utils/timer_thr`, `Propagator::TimerHandler`) | the interval | sleep, trigger, wait for the command | propagator |
| Update buffer (`utils/memstruct`) | slots with node ranges, the updates | create, append, write/delete/look up/iterate ranges | passed between threads and nodes |
| Tables (`internal_table`) | a concurrent hash map | `IncRaw`, `Get` | application, receiver |
| Sockets (`comm/protocol.hpp`, `utils/zmq_util`) | 0MQ queues | send, receive | all threads |
| Stub (`include/quiltdb`) | the two pairs | `CreateTable`, `Start`, `RegisterThr`, `ShutDown`, `DeregisterThr` | application |
| Configuration parser (`utils/config_parser`) | none | parse a YAML file | application |

What is hard here: four kinds of threads per node whose messages interleave
freely; a shutdown in which each thread may return only when *every* party has
sent it its last message, in a cycle of nodes each waiting for the next; the
removal of a node's own updates, which relies on a record that must be complete
before the updates leave and must stay in step with what comes back; sequence
numbers that are aggregated into ranges, forwarded, merged and deleted; a
handshake over a PUB socket, which drops what it publishes until a subscriber
has joined, with neighbours that may already run; tables that application
threads and the receiver thread use at the same time.

What makes each part correct: a thread returns with empty sockets and `ShutDown`
returns (propagator, receiver, timer); no update is lost, doubled or overtaken
along an edge of the graph (propagator, receiver); the record of own updates
covers what is in flight (both); the assertions on ranges hold (both);
lookup and iteration agree with what was written (buffer); `Start` returns, on
all processes, with all threads in their loops, and no message of a neighbour
that is ahead or behind ends a process (handshake); calls are atomic (tables).

## 2. Modules

| module | models |
|---|---|
| `QuiltCommon` | the graph, the tables and the application as CONSTANTS; values and update stores |
| `UpdateBuffer` | `utils/memstruct`: slots, lookup, deletion, iteration |
| `BufferProtocol`, `MCBuffer` | a buffer driven through its operations, against a reference list |
| `Wires` | the messages and the sockets |
| `Timer` | the timer thread and its handler |
| `Propagator` | the propagator thread |
| `InternalTable` | the tables |
| `Receiver` | the receiver thread |
| `Application` | the application threads and the calls they make |
| `AtomicTable` | what a table promises to the threads that share it |
| `ConcurrentTable` | `Get` and `IncRaw` step by step on the concurrent hash map |
| `Startup`, `MCStartup` | `Start` of both pairs of all processes, the handshake; its graphs for TLC |
| `QuiltDB` | composition, fairness, properties of shutdown |
| `Replication` | the replicated table that the whole implements |
| `Delivery` | properties of the data path, the refinement mapping |
| `MCQuiltDB` | graphs for TLC |
| `QuiltDBProofs` | type correctness; the shutdown invariant and what follows from it |
| `TableProofs` | a table is atomic |
| `StartupProofs` | the invariant of the handshake and what follows from it |
| `BufferProofs` | lookup and iteration of a buffer |
| `FlowProofs` | where the numbers of a node travel, in every graph |
| `RecordProofs` | the record of own updates, in every graph |
| `TreeProofs` | graphs without a ring: nobody aborts; sums over keys, queues and threads; the account of every update |
| `DeliveryProofs` | graphs without a ring: no update is applied twice or lost, and the whole is a replicated table |

**Values.** A table value is an element of a commutative group (`vadd`, `vsub`).
Each `Inc` of a behaviour is a distinct token `<<node, index>>` and a value is
the multiplicity of each token, i.e. an element of the free group: two values
are equal only if they were made from the same updates, so an update that is
lost, doubled or subtracted twice is visible. The concrete `IntAdd`/`IntSub` of
`helloworld` are a homomorphic image of it.

**Sockets.** 0MQ delivers the messages of one connection in order and, once
connected, loses none; each connection is an unbounded queue. A PULL socket with
several connections serves them in any order. 0MQ takes one message per
connection and round; the model allows more orders, which is sound for the
properties that hold, and no violation depends on it. Before a connection is up
a PUSH socket queues and a PUB socket drops: `Startup` has the set `joined` of the
propagators whose subscription has reached the publisher, filled by 0MQ at any
time after both sides have set up their sockets. In the loops of `QuiltDB`
everybody has joined, which is what `StartupProofs` shows of `PropStart`.

**Poll loops.** A branch of a poll loop is one action whose guard says that the
sockets of higher priority are empty. In the code a message may arrive on one of
those between `zmq::poll` and the branch. Such an arrival only appends to a queue
that the branch does not read, so the two steps commute and the behaviour
equals one in which the message arrives after the branch: the model loses
nothing by making poll and branch one step. Where a branch blocks in its middle
it is split, and where it makes something known to another thread before it has
finished: the timer branch is `TimerTick` (trigger, command), then for each
table `FlushTable` (up to `EMyUpdates`) and `SendBuffer` (from `EMyUpdatesACK`
on), then `JoinTimer` (`timer.WaitStop()`); the removal of own updates is one
`Dedup` step per recorded buffer; a buffer is forwarded to the propagator in the
step that ends its reception (`Deliver`), and applied afterwards, by one `ApplyUpdate`
step per key, so that the downstream node may apply an update before the node
that forwarded it. `Table::Inc` is two steps, the local `IncRaw`
and `Propagator::Inc`.

**Assertions.** A `CHECK` that can fail, `front()` of an empty queue and a use of
the null `prop_push_sock` set `fatal[n]`; the process then takes no step any
more. That a process is never aborted is a property, not an assumption.

**Undefined behaviour.** The loops at `propagator.cpp:476-486` and `825-833` erase
the element under the iterator and then advance it. In boost 1.54
(`third_party`) the link of a node lies behind its 16-byte value
(`ptr_node : value_base, ptr_bucket`), which freeing the node leaves intact, so
the loops visit all elements; the model empties the store.

**Initial state.** The model starts where `QuiltDB::Start` returns on all nodes:
handshakes done, all threads in their loops. `Startup` models what comes before,
and that this state is reached. In fact a process may leave `Start` while others
are still in it; `SendUpdates` and `PublishTerminate` of `Startup` are the messages that
such a process sends, and `NoHandshakeAbort`, `HandshakeOverFirst` and
`PropStartIsHeard` say that its neighbours take them as if they had been sent
later: they queue behind the handshake.

**Start.** One thread per process creates for each direction the propagator, waits
for it to bind its inproc end points, and creates the receiver; then it waits
four times on a semaphore. A pair `<<process, direction>>` goes through
`PropInit` (PUSH), `PropInitACK` (PUB, repeated every 50 ms), `PropInitACKACK`
(PUSH) and `PropStart` (PUB, once). The receiver publishes `PropStart` before it is in
state `RUN` (`RecvRun`, from location `"ready"`), so a propagator may run and send while
its receiver is not in its loop; what holds is that the *handshake* of this
receiver is over (`HandshakeOverFirst`). That a poll for answers returns nothing does
not mean that none was sent, so `PublishAgain` is possible at any time.

**Tables.** In `QuiltDB` a call of a table is one step (`InternalTable`).
`ConcurrentTable` is the reason: it has the steps of `Get` and `IncRaw` on
`tbb::concurrent_hash_map`, an accessor being a read or write lock that its
destructor releases, and implements `AtomicTable`. The abstract value of a key is
what its element points to, or zero.

**Replication.** `Replication` has no threads, batches or messages: what a node
*knows* is told apart from what it has applied. A node makes an update, knows it and
applies it; a node gets to know any set of updates that its upstream node
knows and it does not, as long as it gets to know the updates of each node to a
table in the order they were made; and it applies what it knows key by key, before
it gets to know more. That the upstream node has applied them is not required,
because receivers forward first. The mapping reads the tables of the model (`replica`)
and adds what the receivers are about to apply (`known`); everything else is
hidden. It is the order per *node*: with two
threads in a process the propagator reads their queues in any order, and the
runs therefore have one thread per node.

## 3. Runs

The runs of the graph use `MCQuiltDB`, one table and one application thread per
node.

| run | instance | checks | distinct states |
|---|---|---|---|
| `startup` | 2 processes; horizontally both send to process 0, vertically a chain | `TypeOK`, `NoHandshakeAbort`, `PeersKnown`, `PropStartIsHeard`, `HandshakeOverFirst`, `StartedIsRunning`, `EveryStartReturns` | 117,261 |
| `table` | 3 threads, one key, two calls each | `NoNullRead`, `TableIsAtomic`, `EveryCallReturns` | 111,365 |
| `buffer` | 4 nodes, 3 slots, numbers {0, 1} | `LookupIsExact`, `IterationIsPrefix` | 8,725 |
| `shutdown_ring` | ring of 2, both shut down, one update | `TypeOK`, `ReceiverExitsDrained`, `PropagatorExitsDrained`, `AckIsComing`, `NothingAfterAck`, `ShutDownReturns` | 225,317 |
| `chain` | chain of 3, the first node writes twice, to any of two keys | `NoAbort`, `NothingLostOrDoubled`, `Replicated` | 109,917 |
| `ring_one` | ring of 2, one update per node, two keys, one of which is narrowed | `AppliedAtMostOnce`, `NothingLostOrDoubled`, `EventuallyApplied` | 52,353 |
| `ring_two` | ring of 2, two updates per node | `RecordedBeforeSent`, `RecordIsThere` | 1,049,589 |

That the ranges of a peer follow one another, which the propagator asserts
(`CHECK_EQ((update_iter->second.end_ + 1), ...)`), is part of `NoAbort`; it holds in
`chain`, and in every graph without a ring (section 4). In a ring it does not:
with two updates per node TLC finds no failure, with three (`MaxInc = 3`) one of
46 states, from the same cause as `applied_twice`: a range behind the slot that
`DeleteNodeRange` has freed is skipped, and the next one does not continue the
last that was seen.

`TableIsAtomic` and `Replicated` are refinements: the specifications `AtomicTable!Spec`
and `Replication!Spec` under the mappings in `ConcurrentTable` and `Delivery`.

Five runs show a disagreement between the code and what the repository says of
it. TLC finds a behaviour of the code that violates the property:

| run | property | cause |
|---|---|---|
| `applied_twice` | `AppliedAtMostOnce` | `memstruct.cpp:286`: the loop that should skip free slots never runs, so ranges behind a deleted one are not seen; a node does not recognise its own updates and applies them twice |
| `contained` | `OldestIsContained` | `receiver.cpp:434`: a returning buffer with only own updates is dropped, its record is not; a later buffer fails the `CHECK` at 473 |
| `follow` | `RecordsFollowEachOther` | `receiver.cpp:476`: the next number should be `end_ + 1`; two own batches that come back in one buffer fail the `CHECK` at 475 |
| `unbatched_shutdown` | `ShutDownReturns` | `propagator.cpp:216`: without a timer `have_stopped_timer_thr` is never set |
| `leaf_shutdown` | `ShutDownReturns` | `receiver.cpp:349`: a receiver without upstream nodes that is told to terminate last has no exit test |

Four smaller disagreements were met while modelling and are performed by the
model without a run of their own: keys are narrowed to 32 bits by
`Propagator::Inc` (`propagator.cpp:88`, the operator `NarrowKey`); a node without
a downstream node that writes uses a null socket (`propagator.cpp:595`, the
`fatal` site `prop_push_sock`); with a batch interval of 0 updates are counted
and never sent (`propagator.cpp:673`); what threads other than the one that calls
`ShutDown` have sent may be left unread (`propagator.cpp:842`), which is why
`PropagatorExitsDrained` speaks of one thread's queue.

**Bounds.** `MaxInc` bounds the updates of a node; everything else is finite by
itself. One update per node is the smallest instance in which batches of two
nodes are merged in one buffer and own updates come back in it; two per node
the smallest in which two own batches are in flight, come back merged or apart,
and in which ranges must follow each other; the violations of the second table
appear exactly there. In `chain` one writer with two updates to two keys is enough
for a buffer that is applied in two steps, for the last node to overtake the one that
forwards, and for ranges that must follow each other over two hops; two writers
there are beyond what TLC finishes in minutes, and the merging of the updates of two
nodes is in `ring_one` and `ring_two`. Because a process that aborts stops, `ring_two` explores
the behaviours up to the first failing `CHECK`; `ring_one` has none and runs to the
end. Fan-in and leaves in a shutdown are covered by the proofs, which are for
every graph, and by `leaf_shutdown`.

In `startup`, receiver 0 waits for two propagators, one of them its own, receiver 1
for none, and the vertical pairs are the case of a node with no downstream
node; three processes are too many for TLC. `MaxPending` bounds the messages
pending at a subscriber when `PropInitACK` is published: 2 lets late ones pile up
behind the one that is answered. A pair sends one update and one `EPRTerminate`
while others start. `MaxCalls` bounds the calls of a thread in `table`: with two each,
one thread can insert a key while another is between the halves of `Get` and a
third increments it.

Deadlock is checked except in `leaf_shutdown` and `unbatched_shutdown`, where a node
may hang for ever, as they show. Terminal states that are meant have an explicit
stuttering step (`Quiet`, `Finished`).

**Fairness.** Every thread keeps running: weak fairness of the next step of each
timer, propagator and receiver and of calls that an application has begun. An
application need never call `Inc` or `ShutDown`. The update branch of a propagator
is disabled at each trigger, because the timer has priority, so weak fairness
would allow a timer that always triggers first. It gets strong fairness: the
batch interval (500 microseconds in `helloworld`) is much longer than a pass
through the loop, so the loop reaches the branch between two triggers. The branch
that answers the downstream receiver needs no such assumption in the instances.

In `startup` threads are scheduled and subscriptions arrive in the end (weak
fairness of the steps of each thread and of `Join`), and a message that has been
sent is returned by one of the repeated calls of `RecvMsgAsync` (strong fairness of
`RecvInitACKACK`, which `PublishAgain` disables again and again). In `table`
a thread that can go on does (weak fairness of `Step`); nobody need call.

**Mutants.** Each property of a passing run has a mutant in `PROJECT.json`: a
definition of the model changed as a plausible mistake in the code would change
it, under which the same run violates the property. The mutated forms stand
next to the definitions they replace.

## 4. Proofs

TLAPS checks, for every graph, every set of nodes, tables, threads and keys, and
every bound, that:

- `TypeCorrect`: `Spec => []TypeOK`;
- `ReceiverDrained`, `PropagatorDrained`: a thread returns only when its sockets
  are empty, and they stay empty (`ReceiverExitsDrained`,
  `PropagatorExitsDrained`);
- `AckComing`: no propagator waits for a receiver thread that has returned
  (`AckIsComing`);
- `SilentAfterAck`: after its acknowledgement a propagator sends nothing more
  downstream (`NothingAfterAck`);
- `TableRefinement`: `ConcurrentTable!Spec => TableIsAtomic`, for any number of
  threads, keys, deltas and calls, and `NoNull` (`NoNullRead`);
- `NoAbortAtStart`, `PeersAreKnown`, `StartReachesAll`, `HandshakesEndFirst`, `StartedRuns`:
  the five safety properties of the handshake, for any finite set of processes
  and any two graphs, rings of one included, and `StartTypes`, its `TypeOK`;
- `LookupExact`, `IterationPrefix`: a buffer of any capacity behaves like a map with
  an insertion order, up to one deletion, after which it is not written any more
  (`LookupIsExact`, `IterationIsPrefix`);
- `RecordedFirst`: while its receiver runs, no update of a node leaves the process
  before it is on record (`RecordedBeforeSent`);
- `RecordFound`: the receiver never looks for its record in vain (`RecordIsThere`),
  if the tables of a node on a ring are created with `loop_` (`LoopOnRings`);
- `TreesDoNotAbort`: no assertion fails and no null socket is used (`NoAbort`), in
  graphs without a ring whose sinks have nothing to send (`NoRing`, `QuietSinks`);
- `TreesApplyOnce`: no table ever holds an update twice (`AppliedAtMostOnce`), in
  graphs without a ring;
- `TreesLoseNothing`: what a node has applied or is applying is, exactly once, on the
  way to its downstream node, in its table or being applied there, while both run (`NothingLostOrDoubled`), under
  `NoRing`, `QuietSinks` and `Complete`;
- `TreesReplicate`: the whole implements the abstract replicated table of `Replication`
  (`Replicated`), under `NoRing`, `QuietSinks`, `AppliesForwarded`, `NarrowKeys` and
  `Threads = {Main}`.

The last five have hypotheses on the graph and its tables, and each is one the code
needs.
`LoopOnRings` is the meaning of `loop_`: the propagator sends `EMyUpdates` only for
such tables, while the receiver looks for its record whenever a range of its own
comes back. `QuietSinks` says that a node with no downstream node has no batch interval, or
neither writes nor forwards: its `prop_push_sock` is null, and the timer branch
would use it. `NoRing` excludes the rings, where `contained`, `follow` and
`applied_twice` show that assertions do fail and updates are applied twice.
`Complete` says that a node with a downstream node has a batch interval (without
one its updates are counted and never sent, section 3), that a receiving node
applies all tables and, if it sends on, forwards all tables (`apply_updates_`,
`forward_updates_`): without these options the code drops updates on purpose.
`TreesReplicate` needs less of that, because the abstract table may withhold an update
for ever: only that a node applies what it forwards (`AppliesForwarded`), since otherwise an
update comes to a node whose upstream node never gets to know it. `NarrowKeys` says that
the keys fit in the 32 bits of `Propagator::Inc`; a wider key is applied under another
key downstream. `Threads = {Main}` is needed for the order: the propagator reads
the pipes of the threads of its process in any order, so the second update of a
process may leave before the first one if another thread made it. The
instance of `chain` satisfies all these hypotheses and that of `ring_two` satisfies
`LoopOnRings`.

The only assumptions are the named ones on the constants: five in `QuiltCommon`
(finitely many nodes, numbered by naturals; no node is its own downstream node;
the types of the other constants; `Main` is a thread; finitely many keys and
threads), three in `Startup` (the same
for the nodes; a pair sends to a pair of its direction; the bound is positive),
one in `ConcurrentTable` (deltas are integers, the bound is a natural) and one in
`BufferProtocol` (the capacity is a natural, numbers are integers).

**Type correctness.** `TypeOK` is not inductive: `SendBuffer` reads the head of
`outBuff` and `Dedup` that of `recvBuff`. `TypeInv` adds `AtWork`: in the middle of
a branch a thread holds the message it works on. The lemmas before it say what
the operators on stores, buffers and messages return.

**Shutdown.** `ReceiverExitsDrained` and `PropagatorExitsDrained` are not
inductive by themselves: that a queue is empty when a thread returns says nothing
unless no one can append to it later. The argument is the one the comments of
`propagator.hpp` sketch, made precise: *on each connection each party sends a
last message, and says so to itself.* `ShutdownInv` has one conjunct per
connection (`LogPhase`, `TermPhase`, `PairPhase`, `AckPhase`, `BackPhase`, `SubPhase`,
`DownPhase`), each saying which of three phases the connection is in: the last
message is not sent yet, and is not in the queue; it is the last in the queue,
and its sender has noted that it was sent; it was received, its receiver has
noted that, and the queue is empty. `PropagatorPhase` relates `state_` and the
place in the timer branch to the timer's state, and `ExitPhase` says what a thread
that has returned has noted. That the update store is empty once terminating is
what makes `NothingAfterAck` hold although the timer still fires. The proof has
one case per action and, under it, one step per conjunct the action disturbs;
the lemmas `PipeTail`, `PipeAppend`, `PipeConcat` and `PipeEmpty` say how sending and
receiving move a queue between phases. `ShutdownInv` was checked by TLC on a ring
of two, on two leaves that send to one node and on a node with two threads before
it was proved.

**Tables.** That no null pointer is followed depends on who holds which lock, so
`TableInv` relates the locks to where the threads are (`Locks`: readers and writers
exclude each other), says that an element without a value is being initialised
by the thread that has its lock (`Elements`), and that what `vadd_func_` has read is
still there when it writes (`Progress`). The refinement then maps `GetValue` and
`AddWrite` to `TakeEffect`, `Invoke` and `Return` to their namesakes and all other steps to
stuttering; `InitValue` is one because the abstract value of a key without a
value is already zero.

**Handshake.** The properties speak of single moments; the reason they hold is
that a propagator and its downstream receiver go through seven stages *together*.
`ConnInv` says that each connection is in one of them (`Nothing`, `InitSent`,
`InitHeard`, `AnswerSent`, `AnswerHeard`, `StartSent`, `StartHeard`), each with the
locations of both threads and everything that may be in the two queues.
A propagator answers only what it has received, so from `AnswerSent` on it has
joined, and `PropStart` is published only when all have answered: nobody misses
it. In the last two stages the receiver has published `PropStart` and may or may not
be in state `RUN`; that it reads nothing in between is why updates that come
then do no harm. `CountInv` links the connections of one receiver: it counts messages, and its
counts are the cardinalities of the sets of upstream propagators past the step it
waits for (`Heard`, `Answered`), hence equal to the expected number only when all
are (`OneMore`). `ProcessInv` is the order in which `Start` creates threads and
the count of the semaphore. `StartInv`, their conjunction, was checked by TLC on the
instance of `startup` first. `PropMoves` and `RecvMoves` say which connections and counts
a step of one thread can disturb; under them there is one lemma per action.

**Buffers.** `BufferInv` says slot by slot what the buffer holds: the i-th node
written with its last range, an id that is gone where the node was deleted,
free slots behind. Lookup takes the one slot with the id, iteration goes on to
the first free one, which after a deletion is the hole.

**Flow.** What happens to the updates of node `p` anywhere depends on where they can be.
`Reach(p)` is the set of nodes they pass, defined without induction as the
intersection of all sets that have `p` and are closed under `Downstream`; `Fed(p)` has
the nodes whose receivers they come to. `FlowInv` says that ranges of `p` are found
only there and only with numbers that `p` has sent (`PlacesInv`), that buffers have
one range for a node and, except on the pipe from a receiver to its propagator,
no hole (`BuffersInv`), and that this pipe never carries a range of its own node.
Every action is first reduced to what it does to the places where ranges are
(`LogDoes`, `FlushDoes`, `SendDoes`, `MergeDoes`, `RecordDoes`, `TakeDoes`, `DedupDoes`, or
`Idle`; the lemmas named `...Effect`), and all proofs above `FlowInv` use these.

**Records.** `RecordedBeforeSent` speaks of two kinds of queues; an update passes
stores, outgoing buffers and the hands of receivers in between, so `RecordInv` says
of *every* place that its numbers of `p` are on record and, for `RecordIsThere`, that
the keys of these records are among the keys found there. A record is dropped
when its own range comes back, so the rest must not be needed any more: this is
`OrderInv`, the order of the numbers of `p` in and between all places. It holds
where each node of the way of `p` has one predecessor on it (`Straight`), which is
so unless `p` leads into a ring that it is not on. There numbers may overtake each
other, but none comes back to `p` and no record of it is dropped. `OwnInv` and
`MyUpdatesInv` tie the propagator's own range, the updates kept for `EMyUpdates`, the
message and the record together. `RecordsInv` was checked by TLC on rings first.

**Trees.** Without a ring no own update comes back, so the receiver's assertions are
never reached; what remains is the propagator's: a range continues the last one
of its node, and there is a socket to send on. `LinkInv` says that no number is
left out between a node and the next: the first number of each range under way, and the
first one not yet sent, are successors of the end of another range or of what has been merged.
With `OrderInv` the range at the head continues exactly what has been merged. It
needs that what is forwarded has no hole (`TreeNode`), which is what fails in rings.
It stops at a node that terminates, whose receiver or propagator drops what it
gets. `TreeInv` was checked by TLC on chains of three and on a fan-in of three.

The proof found two flaws of earlier versions of this model: an operator for
the assertions of the removal (`DedupFault`) had a `CASE` with overlapping arms, so
that which assertion fails was not determined, and the contiguity of ranges was
claimed for rings (section 3).

**Delivery.** The properties speak of sums: of the copies of an update under all
keys of a store, in all messages of a queue, in the pipes of all threads. What
a sum over a finite set does when one of its terms changes is proved from the
definition of the community module's fold: `SumsExist` and `SumsAgree` show that there is
exactly one function that adds up the subsets of a set term by term, by the
argument of a smallest subset for which it fails (`SmallestSet`), and `SumTake`, `SumSame`,
`SumPlus`, `SumFirst`, `SumLast` follow. `AddAllCount` and `PipeMoves` carry this over to
stores and queues. A buffer is forwarded before it is applied, so the table of a node
is the wrong thing to count: what has *reached* a node (`Reached`) is in its table or in its
receiver's hands, still to be applied (`Got`), and `LoopInv` says that a receiver has
something in its hands only in the loop that applies it, and of one table. Applying a
key changes the table and the hands, and not their sum.
`Account` is the balance sheet of a step: every step of the system
leaves at each node what has reached it and what is on the way (`Rests`), or is an
`Inc` that puts one copy in the table and one on the way (`Begins`), or the arrival of
a buffer, which moves its copies from the wire of the sender to the hands of the receiver
and, if they are forwarded, to the way from there (`Arrives`); copies that a terminating
thread drops only make the sums smaller.

`AppliedAtMostOnce` is not inductive: a second copy may be on the way. `Once` says that
each update has been at the nodes of a set, which it went through one after the
other: it has reached a node of the set once (if it applies the table), and the node
passes it on at most once, by what is on the way from it or by its downstream node
being in the set; nobody else has it. `NothingLostOrDoubled` needs more, because a buffer is
dropped when it has no range of another node (`HasForeignRange`), whatever updates it carries,
and because the receiver drops what comes after it has begun to terminate.
`Carried` says that updates travel with a range of their node (`Labelled`): the
updates in a store are those of nodes with a range waiting, those in a buffer of
nodes with a slot, and only a node's own are in its threads' pipes. `Exact` is the
property itself, between what has reached either node, for every edge with a running
sender and a running receiver, in the middle of a branch too. `Once`, `Carried` and `AllExact` were checked by TLC on
a chain of three, two nodes of which shut down.

**Replication.** The mapping takes the tables of all nodes and what their receivers have
in hand. An `Inc` is `Make`, the arrival of a buffer is `Deliver` of all updates in it that the
receiver applies, each `ApplyUpdate` is `ApplyKey` (`AbstractApply`), and every other
step, the merging, sending and dropping of buffers included, is invisible. That an
arrival is a `Deliver` needs five facts, which with `Exact` and `Once` are `ReplicaInv`.
`Keyed`: every copy of an update, wherever it is, is under the key with which it was
made. `MadeInOrder`: every update that a node has counted is in one of its tables, so the next is
the first that it has not made.
`AllInLine`: on the way from a node, pipe, store, outgoing buffer and wire, an earlier update
of a process is never behind a later one. `SentInOrder`: where a later update is on the
wire, an earlier one is there too or has arrived; here the store is flushed as a whole,
and the account of `Exact` excludes that the earlier one was left out. `ReachedInOrder`: where
a later update has come, the earlier ones have. From `Once` follows that the receiver does
not know the updates in the buffer yet and that the upstream node does; from
the others that none of the same node is missing before them. A buffer that is dropped
because its receiver terminates delivers nothing, and `ReachedInOrder` survives because that
receiver drops whatever comes after it too; `SentInOrder` speaks of running receivers only.

**Model-checked only.** `ShutDownReturns`, `EventuallyApplied`, `EveryStartReturns` and
`EveryCallReturns`: liveness under fairness is out of the prover's reach. The five
runs that end in a violation have no theorem.

## 5. Not modelled

- `ShutDown` of both pairs of a process: it is modelled for one pair. The two
  share no table and no message after `Start`, and `ShutDown` tells all four threads
  to terminate before it waits for any. The configuration of the vertical pair
  (which gets the horizontal batch interval, `quiltdb.cpp:121`) is a constant.
- High-water marks of the sockets, hence blocking sends and, above them, dropped
  publications. The marks (1000 messages and more) are far above any instance.
- User callbacks (a function pointer that nothing initialises); the byte layout of
  buffers; destructors; failures of system calls, which all end the process.
- The configuration parser: sequential, and its result is the constants. The
  pagerank application: a numerical program.

## 6. Plan

1. `Backpressure`: pipes with a small mark; the wait of the propagator for
   `EMyUpdatesACK` against the receiver's wait for room in the propagator's socket.
2. `ShutDown` of both pairs.
3. Proofs for rings, once the assertions that `contained` and `follow` refute are
   repaired: `Once` and `Exact` with the removal of own updates. The order of
   updates for several threads, per thread instead of per process.
