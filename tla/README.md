# Elastic-PPQ in TLA+

Elastic-PPQ is a parallel program that answers preference queries (skyline and
top-delta dominating queries) on sliding windows of a data stream, and adapts
its number of threads at run time. With it comes a program that verifies its
results with an R-tree, and the library of spatial indexes that has this tree.
This directory holds TLA+ models of the concurrent core, of the verifier and of
the indexes and storage managers of the library, the TLC configurations that
check them, and TLAPS proofs. Line numbers refer to `src/include/*.hpp` unless
another file is named.

## 1. Inventory

A *window* of the stream is cut into *panes*. The pane-level query stage (PLQ)
computes the query on each pane, the window-level query stage (WLQ) combines
the results of the panes of each window. The program is built either for
out-of-order streams, where punctuations close the panes, or with the macro IOP,
where a buffer puts the stream in order first.

```
Generator --TCP--> PLQ emitter --> PLQ workers --> WLQ emitter --> WLQ workers --> WLQ collector --> Client
                       ^                            ^    ^  feedback |
                       |                            |    +-----------+
                       +------ elastic controller --+
```

| component | state | operations | hard part |
|---|---|---|---|
| PLQ emitter (`plq.hpp`) | K-slack, last punctuation, scheduler object | receive a tuple, drop or schedule it, broadcast a punctuation, obey a command, end the stream | a pane may be open in several workers while workers come and go |
| scheduling strategies (`sched_plq.hpp`) | `p_instances`, `pane_size`, holders of each pane, `activatedWorker`, `last_w`, `next_pane_id` | `sched_to_worker`, `executeStreamProgress`, `addWorkers`, `removeWorkers` | the number of partitions of a pane travels in messages and changes while they are under way |
| PLQ worker (`plq.hpp`) | deque of results sets of open panes | one branch of `svc` per message type | messages of different age about the same pane, FLUSH and reactivation |
| WLQ emitter (`wlq.hpp`) | deque of window descriptors, ready and activated workers, counters | results set, EOS, feedback, command | decides that a window is complete; termination with four message sources |
| WLQ worker | none | WIN_UPDATE, MERGE | shares results sets with other workers, deallocates them by reference counting |
| WLQ collector | `next_win_id`, deque of windows held back | receive a window | reordering relative to a moving offset |
| elastic controller, resource pool (`controller.hpp`), fuzzy strategy (`fuzzy.hpp`) | owners of the resources, degrees of parallelism | sample, decide, send commands | acts on stale information about the emitters |
| K-slack and PID (`kslack.hpp`, `pid.hpp`) | `tcurr`, `K`, timestamps, buffer | punctuation for a tuple, extraction in order | |
| queries (`queries.hpp`) | set of points | `addComputeTuple`, `addComputeSet` | incremental result equals the definition |
| pipeline wiring, Client (`src/pf_query.cpp`, `pane_farming.hpp`) | barriers, last window | start and end of the threads, checks order, measures | five barriers passed in four classes under the same macro |
| skyline checker (`src/skyline_checker.cpp`) | an R-tree of the skyline so far, a SkySet per block | receive a tuple, compare | two incremental algorithms that must agree |
| R-tree (`spatialindex-src-1.8.1/src/rtree`) | nodes in pages, root, header, statistics | insert, delete, five queries, load in bulk, reopen, validate | splits and condensations that run up the tree while nodes in memory are older than their pages |
| multi-version R-tree (`src/mvrtree`) | the same with a lifetime for each entry and a list of roots | insert, delete, query the past | version copies, borrowing between siblings |
| TPR-tree (`src/tprtree`, `MovingRegion.cc`) | the same with moving boxes, current time, horizon | insert, delete, query the future | regions that must contain their children at every later time |
| storage managers (`src/storagemanager`) | blocks, index of the pages, free list; entries of the buffer, dirty or not | store, load, delete a page; flush; close | eviction, numbers given out again, a crash between the page and the index, or inside a closing |
| Generator, sockets, configuration, C interface and tools of the library | | I/O, conversions | |

All channels are FastFlow queues, first in first out between two threads; a
worker is stopped by the message GO_OUT (its thread freezes) and resumed by
`lb->thaw`, which waits until the thread is frozen. Every thread is a loop that
takes one message and runs `svc` to its end, so that a `svc` of one node is one
action of the models: it shares no memory with the others except the results
sets and the data sampled by the controller.

What makes each component correct:

* **PLQ**: each pane is delivered as a number of partitions that is announced
  correctly, with all its tuples in exactly one of them, whatever workers are
  added and removed meanwhile; nothing is forgotten in the deque of a worker.
* **WLQ**: each window is computed from every partition of its panes, once;
  two workers never write the same results set; the stage ends, and not before
  the work is done; memory is freed when, and only when, it is no longer used.
* **Collector**: the client sees windows 0, 1, 2, ...
* **Controller**: its commands respect what the emitters assume of them.
* **Wiring**: once the stream is over every thread gets to its end, and the
  statistics come out in the order of the pipeline.
* **Skyline checker**: it prints True, whatever it received, if the generator
  timestamps tell the tuples of the skyline apart.
* **Indexes**: every region contains what is below it (exactly, or for all later
  times), the tree has the data that it should have, its pages are in use once,
  and a query reports what a scan of all the data would.
* **Storage**: a page is read as it was stored last, and after a crash as the last
  closing left it, unless it was touched since; there is nothing to return to before
  the first closing and while one rewrites the index; no block is lost or shared.

The hazards, each at its line, are listed in `PROJECT.json`.

## 2. Modules

| module | models |
|---|---|
| `OrderedWindows` | abstract: what the client is promised |
| `WLQCollector` | the collector as a component |
| `WLQCollectorAlone` | the collector with arbitrary arrival order |
| `WLQCollectorAlone_proofs` | proofs about it |
| `WLQ_proofs` | proofs about the WLQ stage: its workers, and its windows from the first partition to the client |
| `Sums_proofs` | lemmas about sums over finite sets, about sequences of sets and about functions defined by recursion on numbers and on finite sets |
| `WLQ`, `MCWLQ` | WLQ emitter, workers and collector, elastic |
| `PanePartitions` | abstract: what the PLQ stage promises the WLQ stage |
| `KSlack` | the slack, the punctuations and the reordering buffer |
| `PLQ` | PLQ emitter and workers of both builds, what the strategies share |
| `PB_RR_Sched`, `TB_RR_Sched`, `Adaptive_Sched` | what each strategy does of a tuple and of a removal (`PB_sched_to_worker`, `PB_Repair`, ...) |
| `PLQStage` | the stage with one of the strategies |
| `PLQStage_proofs` | proofs about its messages, in both builds and with each strategy |
| `PLQPanes_proofs` | proofs that it delivers every pane whole, and that it implements `PanePartitions` |
| `SkySet`, `TopdSet` | the results sets of the two queries, as operators |
| `Rset` | results sets filled and merged as the two stages do it |
| `Rset_proofs` | proofs about them, for both queries |
| `ElasticStage` | abstract: what the models of the stages expect of the controller |
| `FuzzyStrategy` | the arithmetic of the parallelism degrees |
| `Controller` | controller, resource pool, and what the emitters do of the commands |
| `Pipeline`, `Pipeline_proofs` | the threads of the program from the first barrier to the last, and proofs about the controller and the degrees |
| `Region`, `MovingRegion` | the shapes of the library |
| `RTree`, `RTreeQuery`, `BulkLoader` | the R-tree: updates and validation, queries, loading |
| `MVRTree`, `TPRTree` | the two other trees |
| `MemoryStorageManager` | the storage under the trees |
| `SkylineChecker` | the verifier |
| `IndexClient` | the data and the workload that the clients of the trees share |
| `RTreeClient`, `MVRTreeClient`, `TPRTreeClient` | each tree with the programs that use it, the verifier among them |
| `MCSpatialIndex` | the three clients, one of them at a time |
| `PageStore` | abstract: what a storage manager promises |
| `DiskStorageManager`, `Buffer` | the storage on two files, the buffer over it |
| `Storage`, `MCStorage` | the two with a client, opening and closing step by step, crashes at any point |
| `Storage_proofs` | proofs about them: blocks, coherence, refinement of `PageStore` |

`PanePartitions` and `ElasticStage` are the joints of the project: the WLQ model
takes any partitions that `PanePartitions` allows, and the run
`plq_stage` shows that the PLQ model provides no others; the models of
both stages take any commands that `ElasticStage` allows, and the run
`pipeline` and the theorem `ElasticStagesImplemented` show that the controller
sends no others.

**`WLQCollector`.** A window is its identifier. `winSet` is the deque,
`Transmit` and `Buffer` are the two branches of `WLQ_Collector::svc`,
`FirstFree` is where its loop stops.

**`WLQ`.** One action per source of a message of the emitter: `RcvResultsSet`
(l. 546-609), `EosNotify` (l. 530), `RcvFeedback` (l. 611), `AddWorkers` and
`RemoveWorkers` (l. 326-343); `Execute` is `WLQ_Worker::svc`, `CollectFrom` the
collector. `Schedule` is `getWTasksToSchedule` with the loop that sends the
tasks found; it does in one expression what the code does in two passes over
`descrSet`. The deque of descriptors becomes functions on the windows: `open`
is the set of windows whose slot is not null, `first_win_id` and `end_win`
bound the deque. A results set is the set of partitions merged into it, which
keeps exactly what completeness needs and forgets the points. `refCounter` is
kept modulo `SizeT`, the modulus of `size_t`. The PLQ stage is replaced by its
contract: partitions arrive in any order, with the number of partitions of the
pane or 0 if unspecified, the number being announced at least once.
`Leave` is external: how FastFlow threads freeze and end.

**`KSlack`.** The four classes differ in two respects, whether they keep the
tuples in a buffer and whether a PID shortens the delay. `Seen` updates the slack
`K`; `Progress` gives the punctuation (or, in order, the timestamp up to which
tuples leave the buffer): the full slack is subtracted from the highest timestamp,
or any part of it, since the attenuation of the PID may have any value between
0 and 1.

**`PLQ`.** `iop` is the build, chosen at the start among the constant `Builds`.
`processNewTuple`, `AddWorkers`, `RemoveWorkers` and `EndOfStream` are the
branches of the loop in `svc` of `PLQ_Emitter` and `PLQ_Emitter_IOP`; `RcvPunct`,
..., `RcvTuple` the branches of `PLQ_Worker::svc`, which `PLQ_Worker_IOP` shares
but for the punctuations, `Closed` in `RcvFlush`, and `RcvInOrder` in the place of
`RcvTuple`. A tuple is its timestamp, a results set the number of its tuples and
its number of partitions. The limit on the rate of punctuations is a free choice
(`elapsed`). A handler of the emitter is an operator from a record of the scheduler
object and the queues to the next one; the strategies give `processNewTuple`
and `RemoveWorkers` the record in which the tuple was scheduled, or the panes
were repaired. In order, one tuple received may release several from the buffer:
`StreamIOP` folds `Take` over them, and `EndOfStream` over what is left
(`flushTupleBuffer`). The next stage is the record `results`: what it received of
each pane. `PLQStage` chooses the strategy at the start, as `svc_init` does.

**`Adaptive_Sched`.** The record of the scheduler has, in addition, the fields of
`pane_des_t` (`w_ids` is `holders`, as a set: a worker that is listed twice is
only told twice). Whether a partition is over the threshold (mean plus
deviation of the sizes so far, divided by a factor that a PID moves in
`Adaptive_Sched_PID`) is a free choice, and so is the least loaded worker,
because the emitter reads the lengths of queues that the workers are emptying.
The warmup of five panes is the constant `WarmupPanes`. `openedEmpty` is a
history variable: the panes that `removeWorkers` opened before their first
tuple; it separates what holds of the strategy from the finding. The adaptive
strategy is explored in the build for out-of-order streams only.

**`SkySet`, `TopdSet`, `Rset`.** A container is the sequence of its tuples, a tuple
its coordinates and its `app_ts`, which tells equal points apart. `Scan` is the
loop that shifts dominated tuples to the end: a fold of as many turns (`Turn`) as it
can take, those after its end changing nothing. `updateSkyline` and `updateTopd`
include what both callers do of the result (cut off the end, append the tuple).
`Rset` lets partitions be filled with tuples (`PLQ_Worker::svc`) and then be
gathered in any order (`WLQ_Worker::svc`); the history `inputs` is what each
results set stands for. The definitions of skyline and dominance factor are those
of the comment at the head of `queries.hpp`.

**`FuzzyStrategy`.** `evaluate` in thousandths, from the factors that the rules
give to the degrees. An exact half may be rounded either way in the reduction,
since the factor is a rounded quotient.

**`Controller`.** `owner` is the pool, `nw` the degrees, `Test` and `ControlStep`
are the loop of `Controller::svc`: the end of the WLQ stage is tested, then the
controller sleeps, then it decides and sends. `Reconfigure` is the branch of the
emitters that takes a command, `Freeze` the thread of a removed worker,
`Terminate` the end of a stage. Both views of the same workers, the controller's
and the emitters', are state, with the commands on the way between them.
`releaseResources` may take any of the resources of the stage, since it compares
the lengths of queues in use. A stage that has ended takes no command any more:
nobody reads its channel, which is left empty. `plq_only` is the build: with the
macro PLQ_ONLY the WLQ stage does not exist, the controller waits for the end
of the PLQ and the degree of the WLQ is 0. (`evaluate` still asks for at least
one thread for it, so that in this build the PLQ never gets all the threads.)

**`Pipeline`.** `todo` is what each of the four threads has still to do, from its
`svc_init` to its `svc_end`: barriers, `svc`, printing. `Arrive` is
`pthread_barrier_wait`; in `svc` the threads do the steps of `Controller`.

**`RTree`.** A tree is a record with its storage, root, header and statistics, a
node a record with its level, region and children. The operators follow the
functions of `rtree/Node.cc`, `Index.cc`, `Leaf.cc` and `RTree.cc`: each takes a
tree and returns the next one, with nodes in memory that may be older than their
pages, as in the code. Coordinates are integers, so that areas and overlaps are
exact; a centre is doubled and a distance squared, which changes no comparison.
`RTreeQuery` gives what the visitor is shown, in sequence. `BulkLoader` keeps
the pages of the external sort, its runs and the merge.

**`MVRTree`, `TPRTree`.** The same with a lifetime for each entry, or with moving
boxes; the splits that the code copies from the R-tree are taken from `RTree`.
`Infinity` stands for the largest double. Times are integers; in the TPR-tree the
positions and times are multiples of `Tick`, so that two boundaries cross at
integers and the integrals of areas (up to a factor) are exact.

**`SkylineChecker`, `RTreeClient`, `MVRTreeClient`, `TPRTreeClient`.** In
`RTreeClient`, `client` says who uses the tree: `index` fills, drains and refills
an R-tree, with reopenings, or loads it in bulk; `checker` is the main loop of the
skyline checker. The two others do what the programs of `test/mvrtree` and
`test/tprtree` do. `MCSpatialIndex` lets the first state choose one of the three,
as the `client` `versions` or `moving` or as above. One data item is one step. The data comes from small generators
(`IndexClient`, drawn by `Seeds`; `Tuple`, by `Streams`), since trees with all possible data
cannot be enumerated: what is enumerated is the variants, the seeds and, for the
R-tree, the client's choice between the next insertion, deletion and reopening.
`areEqual` compares the two vectors as `main` does: `SortedAt` is what `std::sort`
may leave in a position when it compares by `gen_ts` alone, and the coordinates of
the two tuples there must be equal. The program has an `operator<` of its own that
compares everything (`skyline_checker.cpp` l. 307), but takes constant tuples, so
that the one of `tuple_t` is chosen (`tuple_t.hpp` l. 137).

**`DiskStorageManager`, `Buffer`, `Storage`.** A page is a sequence of chunks of
one block each. `blocks` is the data file as the process sees it, `pageIndex` and
`emptyPages` the index in memory; in `Storage`, `index` and `data` are the two
files. A new storage truncates both and writes no index before it is closed (`NoIndex`), and a storage without one
cannot be opened. The buffer evicts any of its entries. `Storage` allows every
sequence of creating, opening, storing, loading, deleting and closing within the
bounds. A closing takes steps: the buffer writes its dirty entries (`WriteEntry`),
the index is rewritten in place (`RewriteIndex`) and complete when its stream is
flushed (`FlushIndex`), and last the data file is flushed (`FlushData`). A crash
may come between any two; the data file then has some of the blocks written since it
was flushed last, of the others what was there before (`Reached`). Of the abstract
`PageStore`, `Tear` and `Sync` are the moments from which a crash loses all and from
which it returns to the new pages.

**Undefined behaviour.** `WLQ_Emitter::svc` does not return a value after it has
broadcast the EOS from its feedback branch (l. 652-655). The models take the
outcome in which FastFlow ends the emitter as after any other EOS; what a
compiler makes of it otherwise is outside of the models.

Operators named `X_Y` and commented "Mutant of X" are variants of `X` with a
plausible mistake. No specification uses them; substituted for `X`, each makes a
named property fail (`PROJECT.json`, "mutants"), which shows that the property
depends on the code.

## 3. Runs

| run | configuration | shows |
|---|---|---|
| `collector` | 8 windows, all orders of arrival | order, no loss, nothing held back needlessly, everything transmitted |
| `wlq_elastic` | 2 workers, 3 panes, 2 windows in flight, one pane split in two, 2 commands | complete windows, exactly once, in order (refines `OrderedWindows`), no use after free, exact counters, EOS last, with commands at any moment |
| `wlq_parallel` | 3 workers, 4 panes, window of 3 panes, slide of 2, no command | parallel tasks of one window stay apart; the stage ends with every complete window sent |
| `wlq_hang` | 2 workers, split panes, one command | **violated**: the stage may hang |
| `wlq_leak` | no command | **violated**: results sets are leaked |
| `plq_stage` | three strategies, both builds (the adaptive one for streams out of order), 2 workers, timestamps 0 to 2, panes of length 1, 3 tuples, 2 commands, splits from the first pane on | panes delivered whole, refines `PanePartitions`, every message finds its worker and its pane, ends |
| `plq_adaptive_reopen` | the same with the adaptive strategy only | **violated**: a pane opened empty is opened again by its first tuple |
| `pipeline` | both builds, 3 threads and cores, 5 factors, 2 commands on the way per stage | commands can be executed, views agree, refines `ElasticStage` for both stages, resources return to the pool, the threads end and print in order |
| `queries` | both queries, 3 dimensions with 2 values, 4 tuples in 2 partitions and a window | a SkySet is the skyline of its inputs; a TopdSet loses no tuple of the skyline and overestimates no factor |
| `queries_factors` | 2 dimensions, 3 tuples | **violated**: a dominated tuple stays in a TopdSet |
| `spatial_index` | three variants; R-tree: nodes of 4 entries, 14 to 17 data, 7 deletions, 32 tuples for the checker, in blocks of 4, of which two have the same generator timestamp in two of the five streams; multi-version tree: nodes of 10 entries, 40 data, of which 12 are replaced before all are deleted, and 12 more; TPR-tree: the same with moving boxes in nodes of 4 | the trees are valid, hold what they should, leak no page, and answer queries, of the past and the future too, as a scan would; the checker prints True, for certain unless equal generator timestamps leave it open |
| `storage` | buffer of 2 entries in both writing modes, 3 blocks, data of 1 or 2 blocks | refines `PageStore` through evictions, closings and crashes at any point of them; no block lost or shared |

Each run leaves out what another one asks already; type invariants are kept where
the domain is not obvious (`collector`), elsewhere the other invariants need the
types to be evaluated at all.

**Bounds.** `MaxReconf` = 2 lets a worker be removed and added again, the case
in which messages of its former life could meet those of the new one. Two
partitions per pane are enough for a MERGE to compete with a WIN_UPDATE. Three
panes and windows of two panes make each pane but the outer ones belong to two
windows, which share its results sets. Three threads let the controller be short
of resources (the PLQ stage acquires before the WLQ stage releases) and
reduce the degrees; `MaxPending` = 2 lets a command be decided while an earlier
one to the same stage, and one to the other, is still on the way. (The same run
with four threads passes as well: 241,659 states.) Two workers of the PLQ stage are
enough for a pane to be split, to lose one of its holders and to get it back.
Three workers of the WLQ stage let two of them merge while the third one
updates. `SizeT` = 16 keeps the wrapped counters visible.
Three timestamps are what K-slack needs to find a delay and then to make progress
by less than it found. Four tuples in three dimensions give two partitions of two
points none of which dominates another, so that the merge compares, shifts and
appends in one pass.

The data of the trees is generated by seeds, chosen such that, with nodes of 4
entries, the trees grow to three levels, split leaves and inner nodes, reinsert,
lose nodes at two levels and replace the root, in both directions. The
multi-version tree needs 10 entries per node for the strong overflow, the version
copy, the split and the borrowing to have different thresholds (80 % and 30 %);
the seeds are also the number of operations between two instants. The tuples of the
checker are scattered over diagonals that move towards the origin: up to 14 of
them are in the skyline, in nodes with different corners on up to three levels,
later ones dominate some below index nodes, and some late ones are dominated on
arrival. The boxes of
the TPR-tree collapse and cross within the horizon. With `FillFactor` = 50 and
nodes of 4 a node may be down to 2 entries; section 5 says what happens with less.
Three blocks let a page of two blocks be stored again as one of one block, the
block freed be given to another page, and the free list run empty.

**Deadlock** is checked wherever the stage always ends. `wlq_elastic` turns it off:
there the stage really may stop before its end, which is the finding of
`wlq_hang`. `queries` and `spatial_index` stop when all their data has been
used.

**Fairness.** Each thread is a loop that polls its input queues, hence weak
fairness of the emitter, of each worker and of the collector. Nothing forces
the controller to send a command or the stream to end; `EventuallyDelivered`
is conditional on the end of the stream. In `pipeline` the four threads go
on (a thread at a barrier only when the last one arrives), the workers that were
removed freeze and the emitters take their commands; the end of a stage is not
fair, and the properties are conditional on it. The trees and the storage are
sequential: no fairness is stated and only safety is asked.

## 4. Proofs

`WLQCollectorAlone_proofs` proves for any `MaxWindow` that the collector is type
correct, transmits the windows in order (`OrderCorrect`), loses none
(`BufferCorrect`), holds back none without need (`HoldCorrect`) and implements
`OrderedWindows` (`CollectorRefines`). The inductive invariant adds `Slots` to
the checked properties: the first slot of the deque is always free, because the
erase stops at a free slot, and each other slot holds the window of its offset.
Without it, `Transmit` could not be shown to leave out no window. The lemma
`TransmitStep` describes the effect of a transmission by the number of windows
that leave; everything else follows from it. The only assumption is
`MaxWindow \in Nat`.

`WLQ_proofs` proves about the pool of workers of `WLQ`, for any number of
workers, panes, partitions and commands of the controller, the three invariants
on which the emitter and the workers cooperate without locks:
`TasksPrecedeGoOut` (a worker never freezes with a task), `ReadyIsIdle`
(`n_readyWorkers`, which the termination test reads, is right) and
`UpdatesAreExclusive` (no two workers update one window). None of them is
inductive. The invariant `IInv` says that each worker is in one of three states,
`Idle`, `Working` or `Finished`, which fix the contents of both its channels,
with the orders (GO_OUT, EOS) that follow from `activatedWorker`, its status and
the termination; that the window of an update under way is busy; and that after
the termination every worker is utilized and ready and nothing can arrive.
`IInv` was checked with TLC on the instance of `wlq_elastic` before it was
proved. `Scheduling` is the lemma about `getWTasksToSchedule` and the sending
loop: by counting (`Numbering`, `FirstOnes`) as many idle workers get a task as
there are tasks, each worker one, and at most one update per window, of windows
that were not busy. `TakenBack` and `Dealt` describe the two halves of a handler
of the emitter; `DealWorkers` and `TerminateIInv` put them together for the
results sets, the feedbacks and the EOS. The only assumption is `WLQAssumption`;
`wlq_elastic` and `wlq_parallel` evaluate it.

Its second part follows the windows of the stage on top of `IInv`, for any
number of panes, partitions and workers and any reconfigurations. The invariants
of the runs are far from inductive: whether the task that `toFinalize` marks is
the last one depends on how many results sets are queued, held by workers and
still to come. The parts of the invariant `WInv` are:

* `StreamInv` and `Counted`: a pane whose number of partitions was not announced has
  another partition to come, and the descriptors hold the numbers announced.
* `WindowInv`, for each window: its partitions are `Accounted` for, each in the
  results set of the window, in one results set of the queue or in one of two of a
  task; and they add up: the tasks completed, the results sets in the queue,
  the tasks and merges under way add up to the partitions that came. A merge takes
  two results sets for one task and gives one back, which is why the equation has
  the merges twice. Since every task before the last needs a results set more,
  a window whose last task has not been sent always has something left for it, and
  the last one finds all the others completed.
* `Pending`: the sum over the windows that `n_pendingtasks` has to be. `SumFunction`
  is a fold; `Sums_proofs` counts it as the cardinality of a set of pairs
  (`Units`), whose changes are those of finite sets.
* `SentInv`: what is on the way to the collector is in no other place. The windows
  not yet at the collector are the `toArrive` of `WLQCollectorAlone`, so that each
  step of the stage is a step of that module or leaves it alone, and its theorems
  hold of the collector in the stage (`CollectFromWInv`, and `StepRefines` for the
  refinement).

The `Account...` lemmas describe what an arrival, a task and its feedback do to the
places of the partitions of one window, the `Window...` lemmas what they do to the
whole `WindowInv`; `UpdatesStep`, `MergesStep` and `ScheduledCore` do the same for all
the tasks that one search finds, and `NextWInv` puts the handlers together. It gives `PendingIsExact`, `DescriptorsAreThere`, `PartitionsAreOnce`,
`FinalizedIsComplete`, `EOSIsTheLast`, and `StageRefines`: the whole stage, not only
the collector, implements `OrderedWindows`. The assumptions are `WLQAssumption` and
`MaxWindow \in Nat`.

Its last part is about the results sets that several windows share:
`NothingUsedAfterFree`, that none is deallocated while a queue or a task still holds
it. The invariant `RefInv` relates the counter of each partition to the windows that
have released it, those where it came and does not wait any more: with `n` windows
and `c` of them done the counter shows `Remaining(n, c)`, that is 2 - n - c in
`size_t`, because `countWindows` subtracts in the wrong order. So it shows 1 only when
n = 1 and c = 0: `RefInv` explains in one line both why nothing is used after it was
freed and why the results sets of panes in several windows leak (section 5). The
theorem needs the hypothesis `SizeTBound`, that `size_t` exceeds twice the number of
windows: the counter would have to wrap around to 1 otherwise. `RefInv` was checked
with TLC on the instance of `wlq_elastic` before it was proved. The lemmas
`ScheduleWaiting`, `CompletedWaiting` and `UnmergedExecute` say that neither the search
for tasks nor a feedback changes who waits for a partition, and that the execution of
a task does, for the partitions that are alone in their results sets: those are the
ones whose counter it decreases (`CountersRelease`).

`Pipeline_proofs` proves about the controller and the emitters, for any number
of threads, any degrees and any number of commands on their way, that the
asserts of `addWorkers` and `removeWorkers` hold (`CommandsApplicable`), that pool
and bitmaps agree once the commands are executed (`PoolAndStagesAgree`) and that
the composition implements `ElasticStage` for both stages, in both builds
(`ElasticStagesImplemented`). The inductive invariant says of each stage that has
not ended that the commands on the way to it `Follows`: for each worker they add
and remove it in turn, beginning with the opposite of its present state and
ending with what the pool says. `ViewsAgree` alone is not inductive, since it says
nothing of the commands before the last one. `FollowsSent` and `FollowsObeyed`
are its two lemmas, one for each end of the channel; `ReconfEffect` is what the
controller does to the pool. For the refinement, `Path` says that the commands
lead from the activated workers to the owned ones through sets none of which is
empty: the last worker of a stage is never taken away, although the controller
does not see how far the emitter has come. That the next set is not empty follows
from `KeepsWorkers`: for any number of threads, present
degrees within it and factors of the rules, `evaluate` leaves a worker to a stage
that has one, after the special cases of small degrees, the reduction in proportion
and its two roundings (`DegreeBounds`, `RoundedBounds` and `ShareBounds` are the
integer arithmetic). The assumptions are those of `Controller` and
`NUM_WORKER_CORES = NUM_WORKER_THREADS`, without which the views disagree from
the start (section 5).

`Storage_proofs` proves about the buffer over the storage on two files, for any
data, any number of blocks, any capacity of the buffer and both writing modes, all
that the run `storage` checks: `BlocksAreAccounted`, `BufferIsCoherent` and
`StorageRefinesPageStore`, the refinement of `PageStore`. The inductive invariant
`StorageInv` has these parts:

* `GoodBuffer`, of the buffer and the storage below: the storage is in `GoodDisk`,
  where every block below `nextPage` is free or at one place of one page, and every
  page begins with the block of its number; the entries of the buffer are of pages
  in use, and the clean ones are as in the storage.
* `GoodIndex`, of the index file: a storage loaded with it is in `GoodDisk` whatever
  the data file holds.
* `FilesInv`, while the storage is open or being closed. A page that was left alone
  since the last closing is in the data file as it is in the storage, and has no
  dirty entry; if the index file has it, it has the same blocks as in the storage.
  This is what a crash returns to, whatever part of the other blocks reached the
  file. It survives evictions, which write dirty entries only, and the blocks given
  to other pages, because blocks are taken from the free ones, among which it has
  none. It holds between the flush of the index and that of the data too: the pages
  that were touched are those whose blocks may be missing.

The loop that takes blocks (`Taken`) is recursive. The library's induction theorems
cannot be used (they take an operator), but the set of the numbers for which a claim
holds can be compared with the least number outside: `SetOfAllNaturals` in
`Sums_proofs` proves the induction for a set of numbers, `RecursionOnNaturals` that a
function defined by recursion satisfies its definition. `TakenIsTaken` says by
induction that the blocks taken are new to the pages, distinct and begin with the
lowest free one; `ReachedBlocks` and `PageReached` say what a crash leaves of the
data file, and of a page that was left alone.
`WriteIsRewritten` turns `Write`, the two branches of `storeByteArray`, into a list
of facts, from which `RewrittenIsGood` has `GoodDisk` again, whether the page grows,
shrinks or is new. `StorageInv` was checked with TLC on the instance of `storage`
before it was proved. The assumptions are `StorageAssumption` (what is stored is a
sequence of chunks that is not empty) and `BufferAssumption` (`Capacity` > 0).

`PLQStage_proofs` proves of the pane-level stage, for any number of workers, any
stream, any commands, both builds and the three strategies, all that its run checks
of the messages: `FrozenAreEmpty`, `PunctuationsAreLast`, `ClosedAreSent`,
`NewInstIsForHolders` and `ActiveWorkersHold`. The five properties look at the head
of a queue, at a pair of messages or at a worker that has stopped; none is
inductive, since what is right at the head was decided by the emitter when it sent
the message, perhaps for another set of holders. `StageInv`, of which
`StageIsInOrder` says that it holds always, describes instead for each worker its
whole queue and deque together:

* `Phase`: an activated worker has only ordinary messages before it; one that is
  removed has FLUSH and GO_OUT at the end of its queue, then only GO_OUT and an
  empty deque, then nothing; at the end of the stream likewise with END and EOS.
* `Punctuated`, out of order: nothing of a pane follows the punctuation that closes
  it, and each partition of a closed pane, in the deque or still to be made, has
  something behind it that makes the worker send it. In order there are no
  punctuations, and `InPaneOrder` has the panes named in their order instead.
* `Prepared`: of each open pane that the scheduler believes the worker to hold, the
  worker has a partition or a message that makes one, and such a message precedes
  each NEW_INST. This relates `holders` of the emitter to a deque that lags behind.
* `PaneInv` and `SchedInv`: the holders of an open pane are activated, the active
  worker of the adaptive strategy is one of them, and no pane beyond `n_panes` has
  holders, so that the loop of `removeWorkers` over the panes it knows misses none.
* `KSlackInv`: the slack is not larger than the present time.

`WorkerTakes` and `TakesLast` say what the invariant becomes when a worker takes a
message, `Sent` what a message at the end of a queue does to it. `Serves` is what
the three strategies have in common, in scheduling a tuple and in repairing a pane
whose holders leave: the pane ends with a holder that is activated and has it on the
way. `PBServes` to `ADRepairs` prove it of each strategy; from there on the proof is
one for all three. What the emitter does in loops, the lulls of the empty panes, the
splits, the repairs of all open panes and the tuples that leave the reordering
buffer together, are folds over sequences: `FoldExists` and `SegmentsInduction` of
`Sums_proofs` give the fold and its induction, by the comparison with a least
counterexample described for the storage. `StageInv` was checked with TLC on the
instance of `plq_stage` (with the naturals of its types bounded) before it was
proved. The assumptions are `PLQAssumption` and `StrategyAssumption`, which say that
the degrees, the length of the panes and the bounds are numbers in their ranges.

`PLQPanes_proofs` proves on top of `StageInv`, and from the same assumptions, what
the stage is there for: `PanesAreComplete`, that a closed pane of which nothing is in
flight has been delivered whole, and `StageKeepsPromise`, that the stage implements
`PanePartitions`. `PaneComplete` speaks of a pane only once nothing of it is left, so
that it says nothing of the moments in which the pane could go wrong. The inductive
invariant `PanesInv` keeps an account of each pane at every moment:

* `Balanced`: the partitions that the next stage got, those in the deques of the
  workers and those that messages on the way will make are `p_instances`, and
  likewise the tuples are `pane_size`. A worker that holds the pane counts once,
  whatever it still has in its queue, and once more for each LULL.
* `Agreed`: each partition to come will tell the present `p_instances`, either
  because its results set has this number and no NEW_INST follows, or because the last
  message that names the pane has it; unless it is `Anonymous`, that is, a FLUSH
  precedes the end of the pane and the worker sends it without a number.
* `Announced`: a number is told only when it is final, and as long as none was told
  there is a partition that `WillTell` it. This is what goes wrong when all holders of
  an open pane leave at once: the repairs of `removeWorkers` provide one more.
* `Tracked`: an activated worker that has something of an open pane is one of its
  `holders`, so that each NEW_INST reaches everybody whom it concerns.
* `LullsClosed` and `Flushes`: an empty results set is made of a closed pane that has
  no other partition, and a FLUSH carries no pane later than the first open one.
* `OpenedInv` relates the history variable `openedEmpty` to the adaptive scheduler.

The accounts are asked only of panes that are `Sound`: those of which `PaneComplete`
promises something (section 5, finding 3, says why not of all). `WorkerSettles`
reduces each message a worker takes to a claim about this worker and one pane, which
the lemmas `PunctSettles` to `InOrderSettles` settle branch by branch of `svc`.
On the side of the emitter, `HandledAccounts` is for the accounts what `Serves` is for
the messages: it describes what scheduling a tuple or repairing a pane sends, to whom,
and how the counters of the scheduler move with it, and `PBHandles` to `ADMoves` show
it of each strategy. The loops are the folds of before (`LulledAccounts`,
`TakenAccounts`, `RepairedAccounts`), the sums over the workers those of `Sums_proofs`.
`AccountsUpTo` is the invariant in the middle of such a loop. `PanesInv` was checked
with TLC on the instance of `plq_stage` before it was proved.

`Rset_proofs` proves about the results sets of the queries, for any number of
dimensions, any tuples, any partitions and any order of the merges, what the run
`queries` checks: `SkylineCorrect` and `FactorsCorrect`. It goes in four steps.

* Dominance: that one tuple `Beats` another is a strict order (`BeatsOrder`);
  the score that `SkySet` compares with 1, and the definition of the queries by
  factors, say the same (`ScoreBeats`, `DominatesBeats`, `SkylineUnbeaten`). A
  factor never shrinks when tuples are added (`FactorGrows`), and no number that
  `updateTopd` computes exceeds it (`FactorsComputed`).
* The loops: each is the last of a sequence of states (`ScanHasTurns`,
  `SetHasTurns`, `TopdScanKeeps`, `TopdHasTurns`), so that what a turn keeps holds
  at the end (`TurnsInduction`). `Scanned` is the invariant of the turns of `SkySet`:
  which places hold the tuples not beaten, those still to be compared and those
  behind `endpoint`, with no tuple lost or there twice. The numbers of turns taken
  and places left add up, which is why the loop is over after the last one.
* Merges: `Merged` says what became of both sets after k tuples. That `endpoint`
  stays behind the tuples of the other set is right because those do not beat each
  other; that one of them is not compared with tuples already gone is right because
  what removed those came from its own set (`MergedStep`).
* The invariant `RInv`: a SkySet `Holds` the skyline of what it stands for, in the
  form that a merge preserves (whatever is missing is beaten by something that is
  there, nothing there is beaten), a TopdSet `Keeps` it with bounded factors, and the
  tuples are numbered, so that the next one is new (`Numbered`).

`RInv` was checked with TLC on the instance of `queries`, with three tuples, before
it was proved. The assumption is `RsetAssumption`, that there are at least two
dimensions and that coordinates are integers: `updateSkyline` handles the first and
the last dimension apart.

Model-checked only: the trees and the checker that uses one (`IndexIsValid`,
`ContentIsExact`, `PagesAreInUse`, `QueriesAreExact`, `PrintsTrue`), whose operators
are declared `RECURSIVE` over their nodes, and what they compute is a matter of
induction over the tree, for which the prover has no rule. Every safety property of the other
passing runs is proved: of both stages, of the collector, of the queries, of
the controller and of the storage. Liveness (the ends of the stages,
`EventuallyDelivered`, `ResourcesReturned`, `StatisticsInOrder`) is model-checked
only, as it depends on fairness.

## 5. Findings

1. **The WLQ stage may hang after a REMOVE** (`wlq_hang`, `wlq.hpp` l. 634).
2. **Results sets shared by windows are never freed** (`wlq_leak`, `plq.hpp` l. 581).
3. **A pane opened empty is opened again by its first tuple with the adaptive
   strategy**, so that two partitions arrive where one is announced
   (`plq_adaptive_reopen`, `sched_plq.hpp` l. 608). `TB_RR_Sched` opens empty
   panes as well (l. 533); if no tuple comes, the LULL of `executeStreamProgress`
   (l. 304-312) makes a second partition of a pane announced as one. This is why `PaneComplete`
   asks less of the two strategies by tuples (`Promised`), and why
   `RefinesPartitions` is stated of `PB_RR_Sched` only.
4. **The dominance factors of stored tuples are not updated** by a tuple that is
   not better in the last dimension (`queries_factors`, `queries.hpp` l. 418 and
   429). `pf_query` is compiled with `SkySet` (`src/pf_query.cpp` l. 64).
   With the assignments replaced by products, as for `noBetterT`, `FactorsExact`
   holds.

With more threads than cores, which `general.hpp` l. 68 allows, the pool and the
WLQ emitter disagree from the start (`controller.hpp` l. 115, `wlq.hpp` l. 489):
with `NUM_WORKER_THREADS` = 4 and `NUM_WORKER_CORES` = 2 TLC finds `Applicable`
violated, and a REMOVE aborts. `pipeline` has as many cores as threads, and the
theorems about it assume that.

Not a run, because the models leave out what it changes:
`Adaptive_Sched::removeWorkers` reads the size of the new active partition at
the index of the pane, not of the worker (`sched_plq.hpp` l. 708).

What the models of the library showed besides, outside the parameters of the
runs or of what its clients do:

* With nodes of 4 entries and `FillFactor` 40, a node may be down to one entry
  (`minimumLoad` is a floor); emptying such a tree runs into the assert of
  `rtree/Index.cc` l. 76 in the R* variant.
* `isIndexValid` of the multi-version tree looks at the regions and the levels of the
  roots and counts nothing, so `IndexIsValid` says nothing of its statistics.
* After bulk loading `isIndexValid` is false once the root splits, until the tree is
  opened again: the loader pushes one level too many on the statistics. The run
  reopens a tree that was loaded, as `test/rtree` does.
* `rstarSplit` tries one distribution too many, so that a node may have one entry
  less than the fill factor promises; `Leaf::deleteData` finds its entry by the
  identifier only; a bulk load of nothing, or with `bindex` 1 or `bleaf` 0, does
  not end or divides by zero; a reinsertion factor of 70 would overflow the
  array of `overflowTable`.
* The index of the disk storage is written by the destructor only: before the first
  closing it is empty and a crash loses the whole storage (loading throws,
  `DiskStorageManager.cc` l. 207). Later a crash returns to the pages of the last
  closing. But the closing rewrites the index in place: a crash inside it leaves
  parts of two indices, with which `PageStore` promises nothing. The model takes such
  a torn index for unreadable; one that happens to be readable is not followed
  further. The index is also flushed before the data file (l. 335-336), so that a
  crash in between has the new pages, and old contents in those that were touched.
* A block is taken to reach the data file as a whole or not at all. Of free blocks,
  and of blocks that never reached the file, the model keeps no contents; where the
  code would read behind the end of the file it throws (l. 365), and the program
  ends, as in `Crash`.
* The skyline checker compares by position what was sorted by the generator timestamp
  alone: with tuples of the skyline that differ but share a timestamp it may print
  False for equal results, although the `operator<` of the program was written to put
  both "in the same order" (`skyline_checker.cpp` l. 306). `PrintsTrue` says when it
  cannot.
* Multi-version tree: data inserted and deleted in the same instant may still be
  reported where a version was copied in between (`VersionsExact` allows it; the
  programs of `test/mvrtree` never do it), and the nodes below a root that was
  replaced in the instant of its creation are lost pages (`PagesInUse` counts
  them).
* TPR-tree: a containment query reports nothing, because the upper end of the
  lifetime of an entry is compared with the end of the query; a datum that a
  query only touches for an instant may be reported or not (`MovingExact` asks for
  the data met for longer and admits the others). `MovingRegion` refuses
  intervals of length 0; `getIntersectingAreaInTime` takes the velocities from
  different start times, which only moves the choice of a subtree, and
  `containsRegionAtTime` compares a corner with itself. The forced reinsertion is switched off in the code
  (`false &&`).
* `skyline_checker` truncates coordinates to integers when it compares them.

## 6. Not modelled, and the plan

What is left, in the order of its worth:

1. The in-order build with the adaptive strategy, and `TopdSet::toVector`, which
   the program does not call.
2. A bound on the delay of a tuple in the reordering buffer, and both stages
   composed with `PanePartitions` between them.
3. The trees written with folds instead of `RECURSIVE` operators, so that their
   invariants could be proved.

Left out for good:

* FuzzyLite's inference, the PIDs and the floating-point statistics: the models
  take any result they may have.
* The monitoring snapshots, swapped and deleted by the thread of the controller
  while the emitters write through the old pointer: they carry measures only, and
  the race is on memory that the models do not have. It is listed as a hazard.
* `Client_PLQ::svc`, which counts the partitions of the build with PLQ_ONLY for
  its averages; sockets and the generator, logging, configuration.
* What FastFlow does inside: the models state what is expected of it in the
  actions marked external.
* Of the library: the C interface and the tools (conversions, property sets,
  pools and temporary files), the commands of `addCommand`, statistics of
  reads and writes, I/O errors; nearest neighbours and joins of the
  multi-version and TPR-trees, which throw; moving points; `bForceAdjust`, which
  no caller sets; `rtreeSplit` of the TPR-tree, which is commented out.
