# Termux-nexus in TLA+

Nexus is a small distributed system in Python: nodes meet at a rendezvous hub,
agree on a MASTER, keep a hash-chained ledger and execute compute tasks for each
other; beside it stand a prototype of a hardened hub and two programs that judge
the system on real machines. This directory models the parts where several
threads, processes or machines meet, or where a run of another program is judged;
it model-checks them with TLC and proves theorems about eight of them with TLAPS.
All paths are relative to `src/`; `harness` is
`validation/s1-s5-harness/s1s5_harness.py`, `runner` is
`validation/statistical-resilience/physical_runner.py`.

## The system

| Part | Code | State | Operations |
|---|---|---|---|
| Distributed dispatch | `nexus/compute/runtime.py`, `cluster.py`, `dispatcher.py`, `retry.py`, `scheduler.py` | execution authority, terminal results and failures, completion of each caller | `run` with retries, `dispatch`, `assert_execution_current`, publication of results and failures, convergence |
| Task ownership | `nexus/compute/task_ownership.py` | owner and generation of each task | `claim`, `release`, `reclaim_orphaned` |
| Cluster view | `nexus/cluster/manager.py`, `nexus/runtime/cluster.py` | members, status, leader | add, remove, touch, time out, elect |
| Compute server | `nexus_distributed_core.py`, `task_queue.py`, `task_worker.py`, `task_completion.py` | queue, completions, worker thread, stop event | submit and wait, execute, cancel, clean up, start and stop of the worker |
| Completion store | `completion_store.py`, `runtime.py` | registry in memory, file, temporary file | `run`, `cancel`, `persist`, `save`, `load` |
| Ledger | `persistence.py` | two log files, checkpoint, `last_hash` | `append_transaction`, rotation, `validate_chain`, start-up recovery |
| Leadership | `nexus_distributed_core.py` | role, last sign of a MASTER, peers | polling loop, reconciliation, probe, promotion |
| Rendezvous hub | `nexus_rendezvous.py` | `PEERS` | register, heartbeat, list, reap |
| Hardened hub | `validation/hub-hardening/experimental_hub.py` | slots, counts per address, active connections, worker threads, reject queue | admit, serve, reject, cut, `close()` |
| S1/S5 harness | `harness` | child processes, samples, verdict, evidence | gates, start, sample, stop of the master, classify, shut down |
| Physical failover runner | `runner` | child processes, timeline T0..T4, liveness of the old master | start, baseline, terminate, observe, classify, clean up |
| Failover campaign | `campaign_runner.py`, `statistical_resilience.py` | run directories, summaries | plan, validate the prefix, run, aggregate |
| Envelopes | `nexus_protocol.py`, `nexus_security.py` | replay cache | verify, check and add |
| Cluster replication | `nexus/cluster/orchestrator.py`, `replicator.py` | snapshot of the manager | export, push to followers, import |

How they interact. A caller of `ComputeRuntime.run(backend="cluster")` goes
through scheduler, backend and dispatcher in its own thread and shares the
ownership registry and the two maps of terminal outcomes with all other
callers; the cluster view changes underneath. The dispatcher ends in a message
to another node, whose connection thread queues the task, starts the worker if
need be and waits for the completion. The intake loop of a MASTER appends to
the ledger while the web panel validates it. Each node's polling thread talks to
the hub over HTTP, one request at a time, and probes the MASTER over TCP. The
harness and the failover runner start a hub and three nodes as child processes,
ask them over HTTP, kill the MASTER and read the logs; a campaign is a sequence
of such runs in numbered directories.

What makes it hard. Callers hold no lock across a dispatch: every read of the
leader, of the online set, of the owner and of the authority may be stale when it is
used. A completion is looked up, started and ended in separate critical
sections, while other threads cancel it or clean it up. Ledger and store write
files in several steps and have no lock at all. Requests to the hub are lost,
answered in vain or handled after their sender has given up. Processes die. The
hardened hub reserves and gives back two limits in separate steps on four paths
while `close()` may begin at any of them. The harness and the runner judge a
cluster by samples of it: an answer may be lost, the thing asked may change before
the next question, a kill may not take effect, and still a verdict has to be true.

What makes each part correct:

- *Dispatch*: one execution at a time is current; nothing is owned by nobody; a
  fenced execution releases nothing and decides nothing; all callers of a task
  hear one verdict; every call ends.
- *Compute server*: no accepted task is lost, none is executed twice at once,
  every client hears of its own task, a cancellation is final, every request
  and every accepted task ends.
- *Completion store*: the file is whole, acknowledged outcomes are on it, no task
  is executed again after a crash.
- *Ledger*: the chain is linked, the checkpoint is exact or behind, acknowledged
  blocks stay, a sound log is not reported broken.
- *Leadership and hub*: one MASTER while nobody crashes, and one MASTER again
  after every disturbance.
- *Hardened hub*: the limits never drift, an open connection is in one pair of
  hands, `close()` misses nobody, everything that was started ends.
- *Harness*: nothing starts unless every gate is passed; PASS means that what it
  claims was so and that no process is left; what goes wrong around the
  runtime is not a FAIL of the stable phase; every run ends.
- *Runner and campaign*: a valid run has a timeline that is complete and in
  order and a failover that happened; a split brain is never an artefact of the
  order of two questions; no run is repeated, skipped or counted twice.

## The modules

| Module | Models | Code it stands for |
|---|---|---|
| `ClusterView` | membership and leader, as the dispatch reads them | `nexus/cluster/manager.py`, `nexus/runtime/cluster.py` |
| `TaskOwnership` | the registry of owners and generations | `task_ownership.py` |
| `Dispatch` | composes both (EXTENDS) with the calls of `run` | `runtime.py`, `cluster.py`, `dispatcher.py`, `retry.py` |
| `TaskOutcome` | abstract: one write-once verdict per task | implemented by `Dispatch` |
| `DispatchProofs` | theorems about `Dispatch` | |
| `ComputeServer` | connection threads, queue, worker, completions | `handle_compute_task`, `task_worker.py`, ... |
| `ComputeServerProofs` | theorems about `ComputeServer` | |
| `CompletionStore` | runtime with a store, crashes | `completion_store.py`, `runtime.py` |
| `CompletionStoreProofs` | theorems about `CompletionStore` | |
| `Ledger` | the append log with writers and a reader, crashes | `persistence.py` |
| `LedgerProofs` | theorems about `Ledger` | |
| `Rendezvous` | the hub | `nexus_rendezvous.py` |
| `Leadership` | composes the hub (EXTENDS) with the polling loops | `async_polling_loop` and what it calls |
| `LeadershipProofs` | theorems about `Leadership` | |
| `HardenedHub` | accept loop, workers, rejecter, janitor, `close()` | `experimental_hub.py` |
| `HardenedHubProofs` | theorems about `HardenedHub` | |
| `HarnessPreflight` | `parse_config` and the checks of preflight | `harness` |
| `HarnessVerdict` | `classify_stable_master`, `classify_failover`, the verdict | `harness` |
| `HarnessRun` | composes both with a run, its children and the cluster | class `Run` of `harness` |
| `HarnessProofs` | theorems about `HarnessRun` | |
| `FailoverTimeline` | T0..T4, liveness and classification (no state) | `runner` |
| `CampaignStatistics` | `validate_run` and the aggregation (no state) | `statistical_resilience.py` |
| `PhysicalRun` | one failover run, its children and the cluster | `runner` |
| `Campaign` | composes run and statistics with the plan and its directories | `campaign_runner.py` |
| `CampaignProofs` | theorems about `Campaign`, `PhysicalRun` included | |

The `MC...` modules and `.cfg` files instantiate them. A module without state
holds what the code computes from its arguments; the module that composes it
calls it where the code does.

The rule for the size of a step: an action reads or writes shared state once, as
a thread may be switched between any two accesses; what runs under one lock is
one action. Where two accesses are taken together, the comment of the action
says why no other thread can tell. Values are abstracted to what the properties
distinguish: the output of an execution is the generation (`Dispatch`) or the request
(`ComputeServer`) that made it, a hash is the number of its block, a message is
one name per place that raises it, a time is a count of polls or of samples. An
operator commented *Mutant* is a plausible bug in the definition after it; the
model does not use it. Each shows that one property can fail.

Correspondence, module by module:

- **Dispatch.** `pc[r]` is where the thread of a call stands. `Start`, `Select`
  and `Begin` are the loop of `run`; `Snapshot`, `Reclaim`, `ClaimTask`,
  `Authorise`, `AssertExecutionCurrent`, `ExecutorReturns`/`ExecutorRaises`,
  `PopAuthority` and `ReleaseOwnership` are `dispatch` with its finally block;
  `PublishResult` and `ConvergeStale` are `ClusterBackend.run`; `Retry` and
  `GiveUp` its end. `Membership` is everything that happens to the cluster view.
- **ComputeServer.** A connection thread per request (`pc`), a worker loop per
  request that has started one (`loop`), the registry (`items`, `finished`) and
  the queue. Time is the order in which tasks ended, and a time-out that may
  strike whenever a task has not. Every request may clean up as many of the oldest finished
  entries as it likes: the retention is configured, and nothing bounds the time in the
  queue. `forgotten` collects the requests whose entry went while they still needed it, and
  `unreported` the ids whose execution failed without a message (`FailUnreported`).
- **CompletionStore.** A thread per caller; `PersistThen` is
  `_persist_if_configured`, after which the thread goes on where it was. `temp`
  and `disk` are the two files and `handle` says which of them the open file of
  a thread is by now, as a rename takes open handles with it. `serial` is chosen
  at the start: whether the callers take turns at `save`. Nothing in the code
  makes them, and with `serial` FALSE nothing is promised but what `CallsSafe` proves.
- **Ledger.** `backup` and `active` are the two files; a writer goes through the
  eleven steps of `append_transaction`, a reader through the four of
  `validate_chain`, the last but one of which assigns `last_hash`. `Crash` also restarts.
  No step waits for another thread. `forked` collects what can take the chain off its
  course: a reader that assigns a `last_hash` that is neither the present one nor the tip of
  the files, two appends at once, a crash between the rename of a rotation and its anchor.
- **Rendezvous, Leadership.** `peers` is `PEERS`, each record with its age. The
  reaper lists first and deletes later. A node's polling loop is `Register`,
  `SendHeartbeat`, `FetchPeers` with the reconciliation, `Confirm` (the second
  heartbeat of a cycle in which the role was given up) and `Decide` (probe,
  staleness, candidate, quorum). A request may be lost, handled without an
  answer that arrives, or handled late; a late registration is taken for an
  unanswered one, as nothing comes between the two but time.
- **HardenedHub.** `acceptor` is the one thread of `serve_forever` with the
  connection that `process_request` has in hand; each of its states is the moment
  before one reservation or its return. `worker[c]` walks through `_worker`,
  whose finally blocks give back entry, socket, slot and count one after the
  other. `slots` is the semaphore, `perClient` the dictionary under the lock.
  The janitor marks under the lock and cuts outside of it (`marked`,
  `janitor.todo`). `closer` is `close()`; the joins end when all threads have, or
  at the hard deadline with a report that is not clean. What a handler reads
  and answers is one step (`Serve`), which a dripping client never lets happen
  until its socket is cut.
- **HarnessPreflight, HarnessVerdict, HarnessRun.** `LoadConfig` and `Preflight` take
  one configuration and one state of the host from small tables, good and bad
  ones. `guard` is the mode of `OrphanGuard`: with `pdeathsig` (Linux) a child is forked and
  asks for its death signal before `Popen` returns; with `job` (Windows) it runs from the
  start and is adopted after `Popen`, which may fail; with `none` it is not protected. It is
  recorded in `procs` last, and an interrupt or a kill may fall between any two of these
  steps. A sample is taken in one step, although `take_sample` asks the hub and the nodes one
  after the other; the cluster moves between samples only. A sample holds
  what each node and the hub answered and, in the field `real` that no
  definition of the harness reads, the roles there were. `StopMaster` begins S5's
  second half; `Judge` computes the reasons there, since nothing they depend on
  changes before `Classify`. The cluster (`Register`, `Promote`, `Yield`,
  `WriteState`, ...) does what a correct runtime does, and up to `MaxChanges` times what it should not.
- **FailoverTimeline, PhysicalRun.** `pc` walks through the lifecycle: `start`,
  `baseline`, then per poll `logs`, `peers`, `process` and `endpoint`, `classify`,
  `cleanup`. The cluster moves between any two of them. `unread` holds the
  lines in the survivors' logs (one marker a line; lines without a marker do not
  matter); a half-written last line is read in two halves and its
  marker lost. `masterThere` is remembered only to state `SplitIsReal`. The clock moves at the
  end of a poll and, by up to `slow`, within it, between the look at the deadline and the
  times taken from the logs and from the hub's answer. The
  survivors follow `async_polling_loop`: a survivor says that the MASTER is missing
  (`LogMissing`) when the hub lists none or when its probe of the one listed, dead ones included,
  fails (`ProbeFails`), and promotes itself if it is the candidate with a majority
  (`Elected`); `Yield` is `reconcile_master_role`. They take the hub's list as it is then; that
  it was fetched a little earlier is modelled in `Leadership`.
- **Campaign.** `owner[r]` says who made the `logs` directory of run `r` (`"bare"` when there is
  only the directory above it, which `mkdir(parents=True)` makes on its way), `summary[r]`
  what its `benchmark-summary.json` holds: nothing, a torn text, or a summary.
  `main` of `campaign_runner.py` makes the plan and then raises, as no executor is
  in the repository; the order in which prefix, next run, layout, run and save follow each
  other is the one that docstrings and tests imply, and is marked external. `classify_run`
  writes no top-level `run_id`, which `validate_run` requires: an executor has to put it into
  the summary. `plan.named` says whether it does.

## The runs

| Run | Question | Answer |
|---|---|---|
| `dispatch` | two callers of one task, two attempts each, nodes that leave, time out and return: is ownership exclusive and always given back, is `TaskOutcome` (one verdict, which all reports agree with) implemented, is the output of a fenced execution never the result, does every call end? | yes |
| `dispatch_fence_return` | does `assert_execution_current` pass only for the current generation? | **no** |
| `server` | three requests for one id, with cancellation, clean-up, stop and restart of the worker: is any task lost, doubled, or reported to the wrong client? | no, but for blank errors and entries cleaned up under a request |
| `server_live` | two ids, no stop: does every task and every request end, with one worker? | yes, but for blank errors |
| `store` | with saves in turn, a crash and a failed save: file whole, outcomes durable, no second execution? | yes |
| `store_overlap` | is the file whole when two threads save at once? | **no** |
| `ledger` | two writers and a reader interleaved at every step, two rotations and more, two crashes at any step: are chain, checkpoint and blocks sound and alarms real until one of the three events of `forked`? | yes |
| `ledger_overlap` | one writer and one reader, no crash: is the log a hash chain? | **no** |
| `leadership` | three nodes, one disturbance of any kind: never two MASTERs, and one again afterwards? | yes |
| `hub` | three connections, one slot, one connection per address, a client that never finishes, threads that do not start, a close at any moment: do the limits drift, is a connection shared or forgotten, does anything not end? | no |
| `harness` | S1 and S5 with one fault around the runtime and one misbehaviour of it: is what PASS and FAIL say true, does every run end with no process left? | yes |
| `campaign` | runs of up to three polls and plans of up to two runs, with one or two faults: are valid runs and split brains real, is any run repeated, skipped or miscounted, does the executor always come to an end? | yes / no / yes |

The three runs in bold are disagreements between the code and what its docstrings
and tests say of it:

1. `_execution_authority` is keyed by task and node. If a task is reclaimed and
   claimed again *on the same node*, the check of the old execution finds the
   authority of the new one and passes (`dispatcher.py:292`).
2. Every save uses the same temporary file; a second one truncates what the
   first is about to put in place (`completion_store.py:42`).
3. The web panel validates in a thread of its own, and `validate_chain` assigns `last_hash`
   from what it has read; after an append in between, the next block forks the chain
   (`persistence.py:294`; `README.md:143` calls the log hash-chained). Fourteen steps.

The passing runs hold with the behaviour of (1) and (3) in the model, in `ledger` up to the
event of (3) and in part beyond it; those of `store` need saves in turn.

Each property is one question. Where several say one thing about one component
they are named parts of a conjunction, and the part that fails can be checked
alone: `RegistrySound`, `LogSound`, `RolesSound`, `FileSound`, `LimitsAccounted`,
`GatesHold`, `PlanFollowed`, `StatisticsSound`, `EverythingEnds`, `RunEndsClean`.
The type invariant of a module is such a part; of `Dispatch` and `HardenedHub`
no run checks it, as a theorem states it.

### Bounds

- *Dispatch*: one task, two callers, two nodes. Callers of different tasks share
  only the cluster view; two callers are enough for every pair of steps to
  meet, two attempts for a caller to meet its own earlier attempt, two nodes
  for a task to move and to come back. Nodes and callers are symmetric, and no property of
  the run is under fairness. `Spec` has no other bound: generations
  are limited by the attempts. 310 110 states.
- *ComputeServer*: `server` has three requests for one id, symmetric: two loops can be alive,
  the id can be submitted again while it is queued, executed and done, and one request can
  take the entry that another lost to a clean-up (2 120 635 states). `server_live` has two
  requests for one id and one for another, and neither cancellation nor stop (32 321 states).
- *CompletionStore*: one task (a snapshot is the whole registry, so one entry is
  enough to tell an old one from a new one), three threads (one that executes,
  one that cancels, one that persists), `MaxCrashes` 1, `MaxErrors` 1. 1 715 433 states.
- *Ledger*: `FileBlocks` 2 and `MaxBlocks` 8 give three rotations, the third of which removes
  the file that the first has made; `MaxCrashes` 2 for a crash that follows a recovery. The
  writers are symmetric. The constraint `InTurn` stops at the states in which two appends
  overlap, since no property speaks of what follows them; 1 273 042 states.
- *Leadership*: three nodes, majority 2, `MaxFaults` 1. A tick is 2.5 s:
  `PeerTimeout` 12 is 30 s, `StaleAfter` 6 is 15 s, `MinCycle` 2 the sleep of 5 s,
  `MaxCycle` 3 that plus the requests of a cycle; `Limit` bounds how long a node stays where it is, which the time-outs of
  its sockets do. The bound excludes a node whose thread is not scheduled for longer than that.
  The ages and the time without a MASTER are capped where the code stops telling
  them apart.
- *HardenedHub*: three connections, two of one address, with `MaxConnections`,
  `MaxPerClient` and `RejectQueueSize` 1: every limit is met with one connection
  and exceeded with the next, and the queue is full with the third. The accounting,
  `OneHand` and `CloseSeesAll` are proved for any number.
- *Harness* (935 190 states): three nodes and the hub, each guard, `ClusterSize` of the code; phases of one to
  three samples, in each of which a phase may begin, go on and end; `MaxFaults` 1 and `MaxChanges`
  1, one of each in the same run, as the verdict has to tell the two apart. `MaxGap` 2 and
  `MinAvailability` 60 % are met and missed in a window of three samples.
- *Campaign* (1 258 121 states): six plans. One run of three polls without a fault; one of two
  polls with one fault of any kind; one of one poll with two faults of the cluster; one of two
  polls that take their time (`slow` 1); one of a slow poll and an executor that names no
  runs; two runs of one poll with one fault of the host, for what a run leaves to the next.
  The faults are bounded by `trouble` of the plan, the lines a survivor logs between two
  readings by `MaxUnread` 3. Percentiles are compared with their definition for all
  lists of up to four values in 0..2.

`CHECK_DEADLOCK FALSE` stands where the system really may stop: all
requests answered (server), all blocks written (ledger), a file that cannot be read
(store).

### Fairness

- `Dispatch`: none. `EveryCallEnds` says that each step of a call goes forward or into a
  counted attempt, and that a call that is not over can always take one. So a call ends as
  soon as its thread is scheduled and the executor returns or raises, as the transport has a
  time-out, whatever the membership does.
- `ComputeServer`: `WF` of each connection thread that has begun and of each
  worker loop; handlers end. Not of cancellation, stop or cleanup.
- `Leadership`: `WF` of each node's polling loop and of the clock. Not of the
  restart of a node, of the reaper (its thread may have died: it lists a dictionary that the
  server changes), or of the delivery of a late request. `Convergence` is
  therefore about the nodes that are up, after the last of `MaxFaults` disturbances.
- `HardenedHub`: `WF` of the accept loop, rejecter, janitor and `close()` once begun, and
  of each worker; a scan of the janitor is included, as the deadline of a
  connection that stays does pass. Not of clients, and not of the begin of a close.
- `HarnessRun`: `WF` of the harness, which is one thread with deadlines in every
  loop, of the death signals the kernel sends, and of the registration of nodes. Not of
  promotions: a run in which nobody is promoted ends too.
- `Campaign`: `WF` of the executor's one thread, whose every request and wait has a time-out.
  Nothing of the cluster, and not of `Restart`: nobody starts an executor again that died,
  and `ExecutorEnds` says that it is always done, refused, blocked or down again.

## What is proved

`DispatchProofs` holds for every number of nodes, tasks, calls and attempts,
under the assumptions on the constants in `ClusterView`, `TaskOwnership` and
`Dispatch` (the eligibility table is over nodes, the sentinels are distinct).

1. `TypeCorrect`: `TypeOK` is not inductive alone. A caller about to claim must
   have a target, one that owns a generation must have one that is not 0, and a
   failed attempt must have an exception. `LocalsInv` says what each program
   counter implies, and both are inductive together.
2. `OwnershipSafe`: `LocalsInv` bounds the generation in hand by the counter of
   the task (`GenerationsGrow`, `FreshGeneration`), so that a claim gives a generation nobody has:
   `ExclusiveGeneration`. That makes `NoAbandonedOwnership` inductive: when an entry goes, or is replaced,
   the call that loses it is the only one that could have held it.
3. `FencedRelease`: by cases on the steps, an entry that disappears was
   reclaimed against the online set that its caller had read, or released by the
   execution that made it.
4. `Agreement`: `VerdictInv` says that a task has a result or a failure but not
   both, and that whatever a caller was told is the one that stands. `Endings`
   sums up how a call can end, `VerdictsStand` that a verdict never changes.
5. `Refinement`: every step of `Dispatch` is `Decide`, `Adopt` or `TurnAway` of
   `TaskOutcome` under the mapping `taskVerdict`, `callReport`, or a stutter.
6. `FencedForGood`: `GenerationsApart` says that each generation is in the hands of one
   execution until it is the result. A holder whose generation is not current is
   therefore the last that could have published it: `FencedIsSpent`. And what is
   spent stays so (`SpentStays`): a claim gives a new generation, and a release lets a
   call publish only what was current.

`HardenedHubProofs` holds for every finite set of connections, any addresses and
any limits, under `LimitsValid` (each limit at least one, no more per address than
in all). One inductive invariant, `HubInv`, carries all four theorems:

1. `HubTypes` is `TypeOK` without the upper bound of `slots` and the lower bound of
   `perClient`. Those are not inductive: a release adds one, and only the accounting
   knows that one was taken.
2. `HeldInv`, `WorkerInv`, `RejectInv` and `CloseInv` say whose a connection is: the accept
   loop's is untouched by any worker, a worker that has not returned is in
   `_active` and `_workers` and its socket is open, one turned away has no
   worker, and from `server_close()` on the loop has ended.
3. `SlotsAccounted`, `ClientsAccounted`: every step moves at most one connection
   (`OneMoved`), and the set of those that hold a slot, or are counted for an address,
   gains or loses exactly the one by which the number changes
   (`SlotsFollow`, `CountsFollow`, from the library's facts about finite sets).
   `LimitsNeverDrift`, and with it `TypeCorrect`, follow.
4. `QueueInv` and `OwnedInv`: queued at most once, and no open socket without an owner;
   with (2) that is `NeverTwoHands`.
5. `CloseMissesNothing`: the list `close()` makes holds all of `_active`; as the loop has
   ended by then (`NoneInCreation`) nobody joins them.

`CompletionStoreProofs` holds for any number of tasks, threads, crashes and failed
saves.

1. `CallsSafe`: `CallInv` says what a thread in the middle of a call knows of the
   registry in memory (which entry it made, that nobody else runs it). It is
   inductive in every interleaving, turns or not.
2. `SavesSafe`: with saves in turn, `SaveInv` says how far the snapshot in a thread's hands
   has come: it is between what is on the disk and what is in memory, in the
   order in which a status can move. A rename therefore only moves the disk forward.
3. `FileIsSound`, `NothingAckedIsLost`, `ExecutedAtMostOnce` follow. The
   third needs that an executing task is on the disk before its handler
   is called, which `SaveInv` says.

`LedgerProofs` holds for any number of writers, readers, blocks and crashes and any
size of a file, in every interleaving and with a crash at every step; it has no hypothesis.
`LedgerInv` says, as long as appends have not overlapped, that the last block of the log is the
newest and that the hashes which memory and checkpoint hold are not newer (`InTurn`); and, as long as
`forked` is empty, that backup and active file are chained in themselves and joined, that
`last_hash` is the tip at the steps at which it is used, and where the checkpoint stands at each
step of an append (`OnCourse`). `LogIsSound`, `AckedBlocksSurvive` and `PanelIsRight` follow. What
each of them exempts is in its statement, not in an assumption: the events of `forked`.

`ComputeServerProofs` holds for any number of requests and ids and any retention. `PlacesSound`:
a request is in one place (queue, hands of a loop, or neither), and an entry that is not
finished is on its way, in execution or unreported; that gives `NothingIsLost`. `ServerSafe`: of the
requests that are engaged with an id one at most was not forgotten by a clean-up, and the entry
follows where that one is. That gives `ExecutionsApart`, `OutcomeIsOwn` and
`CancellationHolds`, each up to a request that was forgotten: the history is exact, so a clean-up
that takes nothing from anybody exempts nothing. `OneWorkerLoop` is for a worker that is not
stopped; after a stop and a start there may be two loops, so `ExecutionsApart` does
not rest on it.

`CampaignProofs` holds for any plan, any number of runs, polls, children and faults.
`ChildInv` (who is left to stop), `TimeInv` (what the recorder holds at each
step), `PeersInv` (how old the hub's answer is when it is used) and `PlanInv` (which
directories exist and what they hold) are inductive together (`CampaignSafe`).

1. `TimelineIsSound`, `CleanupIsComplete`, `RunsAreMadeOnce` are read off the first parts.
2. `ValidRunsAreReal` and `SplitsAreReal`: an answer is remembered only until the
   liveness that is judged with it has been asked, so `PeersInv` relates it to the
   cluster at that moment.
3. `PlanIsFollowed`: whatever `classify_run` writes, `validate_run` accepts once the executor has
   named the run in it, by cases on the classification; hence a campaign is blocked only by a
   summary that is missing or torn, because no run was valid, or for want of the names, without
   which it never comes to its statistics. That the next run exists while one is pending is
   the least element of a set of numbers.
4. `PercentilesAreOrdered`: for *any* list of samples and any ranks p ≤ q the percentiles lie
   between the least and the most in this order. `Sorted` is defined by what is at each
   place (the least sample that so many do not exceed; TLC compares it with sorting for
   all lists of up to four), from which `SortedInOrder` follows; a percentile is a point along
   it (`Along`), which moves up with the rank.
5. `StatisticsAreSound`: `PlanInv` also says that every summary in a directory is one that
   `validate_run` accepts if it is named and, if valid, one that has converged without a split brain
   and no later than the timeout and the calls of one poll (`EvidenceSound`). `ValidOnce` counts the valid ones, and the accounts follow
   from the cardinalities of disjoint and included sets (`SummaryAccounts`).

`LeadershipProofs` holds for any number of nodes, any number of disturbances and any
durations. `TypeCorrect` needs `LimitInv`, how long a node may stay where it is.
`RolesAreSound` has two hypotheses: one process is started as MASTER (`OneStarts`), and the
time-outs outlast what the lost messages can cost (`Timely`). Each lost message costs a
node at most a cycle and the requests of the registration that follows it, so the wait
without a MASTER is bounded by the messages lost so far, and nobody reaches `StaleAfter`;
and each delays the heartbeat of the MASTER by a cycle, so its record at the hub does
not reach `PeerTimeout`. The first bound is tight: with one tick less TLC finds two MASTERs. With the
durations of the code, 15 s are enough for one lost message (`StaleAfter` over
`2 * MaxCycle - MinCycle`), and for no second one that hits the same node. After a crash
there may be two MASTERs for a while, which is why
`OneMaster` speaks of the time before, and `Convergence` of the time after.

`HarnessProofs` holds for any cluster, order of start, configuration and host, and any
number of faults. Its assumptions are that the times make sense (`TimesValid`), that the tables of
configurations and hosts have the fields that are read (`InputsValid`), and that the bounds are numbers.

1. `PassIsClean`: `RunInv` says how far the start has come, which children are recorded by
   then, and that a confirmed stop is the end of a process. A PASS is given only where all
   have been started, so all are recorded, and `finish` asks for the stop of each.
2. `FailIsReal`: `HonestInv` says what an S1 run can have recorded while the runtime has done nothing
   wrong: right roles or no answer, in samples and in the hub's list, a probe refused or unreachable, no event
   in a log. `HonestReasons` computes that the classifier finds
   nothing in that but what is inconclusive. It needs `LivesInv`: a child that is
   recorded has asked for its death signal, so one that is not there any more is found dead.
3. `DataInv` says what the samples are: in the order of their times, each with the
   roles that there were, and of each node the real role or no answer; and that
   `conv` is the time of the first of the good samples at the end. From it `HoldIsAgreed`: the loop
   of `run_s5` and `classify_failover` find the same first sample.
4. `PassSeesWrongRoles`: an answer with a wrong role is a reason, so with PASS a node that has
   one gave no answer meanwhile, and the classifier finds every stretch without an answer
   that is not shorter than `MaxGap`. `PassIsAFailover`: a PASS of S5 has no reason, so each of the checks of
   `classify_failover` passed, and an answer is the role there was.
5. `GatesAreHeld`: `GateInv` keeps from `Preflight` to the end that the configuration was parsed and
   nothing blocks; that endpoints are distinct follows by comparing each node with those
   before it, as the parser does.

Every safety invariant and every action property that a passing run checks is stated by a
theorem, for `CompletionStore` with saves in turn, for `Leadership` under the hypotheses named
above, for `OneLoop` without stops. Of `EveryCallEnds` the half that no call loops is
`CallsGoForward`; that none is stuck speaks of `ENABLED` and is model-checked only, as is
the liveness: `EverythingEnds` (twice), `Convergence`,
`RunEndsClean` and `ExecutorEnds`. TLAPS as used here does not do `ENABLED` and fairness.
Induction over data is out of its reach as well: `Sorted` is characterised by what it
holds, not by how it is made, and the mean of a list (a fold) is not reasoned about.
No module uses a RECURSIVE operator, so that each can get its proofs.

## What else the models say of the code

Facts met while modelling that the properties leave room for. They hold of the
code as it is; no run is about them.

- *Dispatch.* A call that never owned the task publishes its failure ("already
  owned", "leader offline") as the authoritative one, and the owner's result is
  refused (`runtime.py:233`; `tests/test_compute_task_ownership.py:1037` expects the owner to
  decide). `publish_failure` raises when a result stands already, and the
  completion of that caller stays running (`cluster.py:136`).
- *Server, store.* A cancelled task is answered as completed with no output
  (`nexus_distributed_core.py:925`). A task pending at the crash is restored as
  pending for ever (`task_completion.py:553`). A retry that finds an outcome in
  memory returns it although its save failed or goes on (`runtime.py:171`).
  When a handler raises an exception with a blank message, `fail(task_id, str(exc))` refuses the
  message (`task_completion.py:95`), the loop swallows that `ValueError` as well, and the entry
  stays running for ever; the comment there (`task_worker.py:122`: "A falha já é contabilizada
  pelo registry") takes it for recorded. A clean-up asks nobody: with a retention shorter than
  the time in the queue, a waiter gets a closed connection, a cancelled task whose entry went is
  executed all the same (`task_worker.py:46`), and a resubmitted id may be executed beside its
  first execution. The properties of `ComputeServer` name both as their only exceptions
  (`unreported`, `forgotten`).
- *Completion store.* Overlapping saves may leave an older snapshot behind a newer one, as the
  export comes before the file is opened (`completion_store.py:23`). No order is promised, and
  with saves in turn there is nothing to violate, so no property is about it.
- *Ledger.* A crash after the rename of a rotation leaves no active file; the chain
  then starts at genesis behind a backup that ends elsewhere (`persistence.py:39`), although
  the comment calls the anchor atomic ("ANCORAGEM ATÔMICA", `:41`). Two intake loops, which a node
  that is promoted a second time has, may append at once and fork the chain
  (`nexus_distributed_core.py:1215`). `LogSound` says that these two and the web panel
  (`ledger_overlap`) are all that can. A rotation that removes the older file forgets its
  acknowledged blocks; `AckedSurvives` exempts exactly that step and what follows overlapping appends.
- *Leadership.* `RolesSound` speaks of the time before the first crash, and a restart of the hub
  counts as one; of the time after it `Convergence` speaks. `MaxCycle` 3 leaves one tick for
  the requests of a cycle, and none that takes longer is in the run.
- *Envelopes, replication.* `verify_envelope` looks the nonce up and adds it in two critical
  sections (`nexus_protocol.py:161`). A cycle that fails on one follower
  leaves the others without the snapshot (`orchestrator.py:58`).
- *Hardened hub.* The rejecter may end just before a connection is queued
  (`experimental_hub.py:370`): `EveryRejectEnds` holds while it runs, and `OneHand` counts the queue
  as a hand. A worker leaves
  `_workers` before its socket, slot and count are given back (`:449`), so
  that `close()` may report clean while it still does.
- *Harness.* In S5 one lost answer right after the promotion deadline ends the
  loop and is classified as a FAIL, although a failed observation is to block
  (`harness:966`): `StableFailIsReal` is about S1. `stop_process` swallows an
  interrupt, so an interrupted S5 may still PASS. `s5_min_observation_s` is kept by the loop,
  but not at its break at the deadline. `OrphanGuard` "Makes our children die with the
  harness, even on a hard kill" (`harness:1273`): not a child whose harness is killed between fork and
  `prctl`, not one on Windows between `Popen` and `adopt()`, and none at all where the guard is
  `none` or the adoption failed; and an interrupt between `Popen` and the entry in `procs` leaves a
  child that `shutdown` does not know and that only the guard ends. `Uncovered` in `RunEndsClean`
  names these and a child whose kill was not confirmed, which nothing can end. Where git is
  missing or fails, modified runtime files pass (`harness:696`).
- *Runner, campaign.* No code of the repository puts the `run_id` that `validate_run` requires
  into a summary (`statistical_resilience.py:130`; `initial_evidence` and `classify_run` write
  none): with an executor that does not either, every campaign ends in a `ValueError`. The deadline
  is looked at once a poll (`runner:1127`) and T4 taken after the logs were read and the hub
  and the liveness of the MASTER asked, so a valid run may exceed its timeout by the
  calls of one poll (`Limit`). `mkdir(parents=True)` of `run/logs` raises only if `logs` is there, not on
  the directory of the run (`runner:1438`). A run whose observation raises, or whose evidence is not
  saved, uses up its id: its directory is there, `validate_completed_prefix`
  refuses the campaign from then on, and `campaign_progress` counts it as
  completed. Run 010 is such a gap: `historical_gap` in
  `validation/statistical-resilience/axis11-statistical-campaign.json` names a
  directory without a summary.
  Errors of the clean-up are collected and returned to nobody. The split brain
  is sampled: a MASTER that lives on but is off the hub's list at the poll, and
  gone by the next, can be in a valid run. An orphan that does not answer
  `/liveness` is taken for down. A line about a missing MASTER from before T0
  becomes T1, and one half written at the read is lost.

## What is not modelled

- Cryptography, canonical JSON, framing of bytes on a socket: pure functions.
- The replay cache: a map with an expiry, one lookup and one insertion. Nodes and hub
  verify an envelope in the thread that got it, and nothing else modelled here depends on it.
- Cluster replication: the replicator and the orchestrator are called by tests only. Who
  would run a cycle, on which thread, and which manager leads after a failover is not
  in the code, and what could go wrong depends on it (two managers that have both led
  may have one version number for different contents).
- Export and import of the cluster manager, the export of the ownership
  registry: not called while the modelled operations run.
- Legacy synchronisation of the ledger and its external anchor: the node keeps the first disabled in
  every mode and configures no anchor.
- Handlers, hardware, peer load, cluster mode: pure computations on one message, tested
  case by case.
- Command line, client, web panel, demonstrations and benchmarks: one request
  at a time, or outside of the node.
- Power failures: a crash is that of a process, what it has written stays.
- Of the hardened hub: what a request says (the validation is the one of `Rendezvous`), the reaper,
  the counters and the log. Of the harness: node mode for a remote host, the
  identity a node answers with, memory limits during a run, redaction of the
  evidence, metrics and warnings. Of the runner and the campaign: provenance, the
  manifest, the overlap duration, the standard deviation, the discovery of older
  evidence. Copies of the harness under `history/` are earlier versions of it.

## Plan

The first four blocks are done.

1. `Dispatch` with its abstraction and proofs; `ComputeServer`; `Ledger`;
   `Rendezvous` and `Leadership`; `CompletionStore`.
2. `HardenedHub` with its proofs; the harness (`HarnessPreflight`, `HarnessVerdict`,
   `HarnessRun`).
3. The failover campaign (`FailoverTimeline`, `PhysicalRun`, `CampaignStatistics`, `Campaign`).
4. Proofs about `CompletionStore`, `Ledger`, `ComputeServer`, `Campaign`, `HarnessRun`
   and `Leadership`, until no safety property is left to TLC alone.
5. Done as well: `Ledger` and `ComputeServer` without hypotheses on the schedule, the crashes or
   the retention. Next: what holds of `CompletionStore` when saves overlap, and the hypotheses of
   `Leadership`.
6. If the code gets callers for it: `ClusterReplication` (a follower holds a state that the
   leader has had, also when a cycle fails half-way), and `ReplayProtection`
   (expiry and purge agree at the boundary).
