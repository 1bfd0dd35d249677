---------------------------- MODULE ComputeServer ----------------------------
(***************************************************************************)
(* The compute side of a node: connection threads submit tasks and wait    *)
(* for them, one background worker executes them, and both meet in the     *)
(* task queue and in the completion registry (nexus_distributed_core.py    *)
(* handle_compute_task, nexus/compute/task_queue.py, task_worker.py,       *)
(* task_completion.py).                                                    *)
(*                                                                         *)
(* Covered: opportunistic cleanup, admission, creation of the completion,  *)
(* the FIFO queue, the start of the worker on demand and its stop, every   *)
(* lookup and transition of a completion, cancellation, the wait with its  *)
(* time-out, the reply.                                                    *)
(*                                                                         *)
(* Abstracted: outputs and errors are the request whose execution made     *)
(* them; the clock is the order in which tasks finished (a cleanup removes *)
(* the oldest ones, as many as it likes: the retention is configured and   *)
(* nothing bounds the time in the queue) and a time-out that may strike    *)
(* while a task is not finished; the verification of the envelope and its  *)
(* replay cache are not part of it.                                        *)
(***************************************************************************)
EXTENDS Sequences, Naturals, FiniteSets

CONSTANTS
  Request,        \* COMPUTE_TASK messages that passed the envelope checks
  Id,             \* task ids
  IdOf,           \* the task id each request carries
  NoRequest,      \* no request
  Cancelling,     \* may completions.cancel be called?
  Stopping        \* may stop_compute_worker be called?

ASSUME ServerAssumption ==
  /\ IdOf \in [Request -> Id]
  /\ NoRequest \notin Request
  /\ Cancelling \in BOOLEAN
  /\ Stopping \in BOOLEAN

VARIABLES
  items,      \* TaskCompletionRegistry._items
  finished,   \* its ids in the order of _finished_at
  queue,      \* TaskQueue._tasks
  stopEvent,  \* TaskWorker._stop_event
  thread,     \* TaskWorker._thread: the request that started it
  loop,       \* where the worker loop started by each request is
  task,       \* the request that loop works on
  pc,         \* where the connection thread of each request is
  reply,      \* the outcome in the last COMPUTE_RESULT that held one
  \* What has happened, for the properties:
  unreported, \* ids whose execution failed and was not recorded
  forgotten   \* requests whose entry was cleaned up while they needed it

registryVars == <<items, finished, unreported>>
workerVars == <<stopEvent, thread, loop, task>>
vars == <<registryVars, queue, workerVars, pc, reply, forgotten>>

Source == Request \cup {NoRequest}

Terminal == {"completed", "failed", "cancelled"}
Unfinished == {"pending", "running"}

(* "by" is the request whose execution ended the task.                     *)
Entry == [status : {"absent"} \cup Unfinished \cup Terminal, by : Source]

Reply == [to : Source, status : {"none", "completed", "failed"}, by : Source]

TypeOK ==
  /\ items \in [Id -> Entry]
  /\ finished \in Seq(Id)
  /\ queue \in Seq(Request)
  /\ stopEvent \in BOOLEAN
  /\ thread \in Source
  /\ loop \in [Request -> {"unborn", "top", "fetch", "lookup", "start",
                           "execute", "complete", "fail", "dead"}]
  /\ task \in [Request -> Source]
  /\ pc \in [Request -> {"idle", "create", "enqueue", "ensure", "start",
                         "wait", "done"}]
  /\ reply \in Reply
  /\ unreported \subseteq Id
  /\ forgotten \subseteq Request

Init ==
  /\ items = [i \in Id |-> [status |-> "absent", by |-> NoRequest]]
  /\ finished = <<>>
  /\ queue = <<>>
  /\ stopEvent = FALSE
  /\ thread = NoRequest
  /\ loop = [r \in Request |-> "unborn"]
  /\ task = [r \in Request |-> NoRequest]
  /\ pc = [r \in Request |-> "idle"]
  /\ reply = [to |-> NoRequest, status |-> "none", by |-> NoRequest]
  /\ unreported = {}
  /\ forgotten = {}

Status(r) == items[IdOf[r]].status

Put(i, status, by) ==
  /\ items' = [items EXCEPT ![i] = [status |-> status, by |-> by]]
  /\ unreported' = unreported \ {i}

-----------------------------------------------------------------------------
(* The connection thread: handle_compute_task.                             *)

Goto(r, here, there) ==
  /\ pc[r] = here
  /\ pc' = [pc EXCEPT ![r] = there]

(* No outcome is told: an exception closes the connection without an       *)
(* answer, and a time-out is answered as such.                             *)
Leave(r, here) == Goto(r, here, "done") /\ UNCHANGED reply

Answer(r, here, status, by) ==
  /\ Goto(r, here, "done")
  /\ reply' = [to |-> r, status |-> status, by |-> by]

(* Loops that have taken a task and not ended it.                          *)
Busy == {w \in Request : loop[w] \in {"lookup", "start", "execute", "complete", "fail"}}

(* A request on its way to a worker or in its hands before the execution.  *)
InHand(w) == loop[w] \in {"lookup", "start"}
InExecution(w) == loop[w] \in {"execute", "complete", "fail"}

Queued(r) == \E k \in DOMAIN queue : queue[k] = r

OnItsWay(r) ==
  \/ pc[r] = "enqueue"
  \/ Queued(r)
  \/ \E w \in Request : InHand(w) /\ task[w] = r

(* A request that still has to do with its id: its thread waits for it, or *)
(* it is in the queue or in the hands of a worker.                         *)
Engaged(r) ==
  \/ pc[r] \in {"enqueue", "ensure", "start", "wait"}
  \/ Queued(r)
  \/ \E w \in Busy : task[w] = r

(* Mutant: the entries go, the times at which they finished stay.          *)
CleanupKeepsTimes(k) ==
  LET expired == {finished[j] : j \in 1 .. k} IN
  /\ items' = [i \in Id |-> IF i \in expired
                              THEN [status |-> "absent", by |-> NoRequest]
                              ELSE items[i]]
  /\ forgotten' = forgotten \cup {r \in Request : IdOf[r] \in expired /\ Engaged(r)}
  /\ UNCHANGED finished

(* registry.cleanup(max_age): the k oldest finished tasks are forgotten.   *)
(* It asks nobody: a thread may be waiting for the entry, and a cancelled  *)
(* task may still be in the queue.                                         *)
Cleanup(k) ==
  LET expired == {finished[j] : j \in 1 .. k} IN
  /\ items' = [i \in Id |-> IF i \in expired
                              THEN [status |-> "absent", by |-> NoRequest]
                              ELSE items[i]]
  /\ finished' = SubSeq(finished, k + 1, Len(finished))
  /\ forgotten' = forgotten \cup {r \in Request : IdOf[r] \in expired /\ Engaged(r)}

(* Every submission starts with a cleanup, then a request for an unknown   *)
(* handler is refused: the connection is closed without an answer.         *)
Submit(r) ==
  /\ \E k \in 0 .. Len(finished) : Cleanup(k)
  /\ \/ /\ Goto(r, "idle", "create")
        /\ UNCHANGED reply
     \/ Leave(r, "idle")
  /\ UNCHANGED <<queue, workerVars, unreported>>

(* Mutant: a finished task of the same id may be created anew.             *)
CreateOverFinished(r) ==
  /\ \/ /\ Status(r) \notin Unfinished
        /\ Goto(r, "create", "enqueue")
        /\ Put(IdOf[r], "pending", NoRequest)
        /\ UNCHANGED reply
     \/ /\ Status(r) \in Unfinished
        /\ Leave(r, "create")
        /\ UNCHANGED <<items, unreported>>
  /\ UNCHANGED <<finished, queue, workerVars, forgotten>>

(* completions.create(task_id): an id that is still there is refused.      *)
Create(r) ==
  /\ \/ /\ Status(r) = "absent"
        /\ Goto(r, "create", "enqueue")
        /\ Put(IdOf[r], "pending", NoRequest)
        /\ UNCHANGED reply
     \/ /\ Status(r) # "absent"
        /\ Leave(r, "create")
        /\ UNCHANGED <<items, unreported>>
  /\ UNCHANGED <<finished, queue, workerVars, forgotten>>

Enqueue(r) ==
  /\ Goto(r, "enqueue", "ensure")
  /\ queue' = Append(queue, r)
  /\ UNCHANGED <<registryVars, workerVars, reply, forgotten>>

Alive(w) == loop[w] \notin {"unborn", "dead"}

(* TaskWorker.running                                                      *)
Running == thread # NoRequest /\ Alive(thread) /\ ~stopEvent

(* if not worker.running, read without the lifecycle lock ...              *)
Ensure(r) ==
  /\ Goto(r, "ensure", IF Running THEN "wait" ELSE "start")
  /\ UNCHANGED <<registryVars, queue, workerVars, reply, forgotten>>

(* Mutant: start() trusts the reading made outside the lock.               *)
StartWorkerBlindly(r) ==
  /\ Goto(r, "start", "wait")
  /\ stopEvent' = FALSE
  /\ thread' = r
  /\ loop' = [loop EXCEPT ![r] = "top"]
  /\ UNCHANGED <<task, registryVars, queue, reply, forgotten>>

(* ... then worker.start(), which reads it again under the lock.           *)
StartWorker(r) ==
  /\ Goto(r, "start", "wait")
  /\ \/ /\ Running
        /\ UNCHANGED workerVars
     \/ /\ ~Running
        /\ stopEvent' = FALSE
        /\ thread' = r
        /\ loop' = [loop EXCEPT ![r] = "top"]
        /\ UNCHANGED task
  /\ UNCHANGED <<registryVars, queue, reply, forgotten>>

(* wait(timeout): a task that ended is reported, and a cancelled one is    *)
(* reported as completed without an output; a task that was cleaned up is  *)
(* a KeyError, which closes the connection without an answer.              *)
Report(r) ==
  /\ \/ /\ Status(r) = "absent"
        /\ Leave(r, "wait")
     \/ /\ Status(r) \in Terminal
        /\ Answer(r, "wait", IF Status(r) = "failed" THEN "failed" ELSE "completed",
                  items[IdOf[r]].by)
  /\ UNCHANGED <<registryVars, queue, workerVars, forgotten>>

(* wait's deadline passes.                                                 *)
TimeOut(r) ==
  /\ Status(r) \in Unfinished
  /\ Leave(r, "wait")
  /\ UNCHANGED <<registryVars, queue, workerVars, forgotten>>

Serve(r) ==
  \/ Submit(r) \/ Create(r) \/ Enqueue(r) \/ Ensure(r) \/ StartWorker(r)
  \/ Report(r) \/ TimeOut(r)

-----------------------------------------------------------------------------
(* The worker thread: TaskWorker._run_loop and run_once.                   *)

Step(w, here, there) ==
  /\ loop[w] = here
  /\ loop' = [loop EXCEPT ![w] = there]

(* run_once is over.                                                       *)
Forget(w) == task' = [task EXCEPT ![w] = NoRequest]

(* The loop ends when it sees the stop event, and goes on when there is    *)
(* something to do.                                                        *)
Poll(w) ==
  /\ \/ stopEvent /\ Step(w, "top", "dead")
     \/ ~stopEvent /\ queue # <<>> /\ Step(w, "top", "fetch")
  /\ UNCHANGED <<registryVars, queue, stopEvent, thread, task, pc, reply, forgotten>>

(* Mutant: a loop that sees the stop event drops the task it has taken.    *)
DequeueThenStop(w) ==
  /\ queue # <<>>
  /\ Step(w, "fetch", IF stopEvent THEN "top" ELSE "lookup")
  /\ task' = [task EXCEPT ![w] = IF stopEvent THEN NoRequest ELSE Head(queue)]
  /\ queue' = Tail(queue)
  /\ UNCHANGED <<registryVars, stopEvent, thread, pc, reply, forgotten>>

(* run_once looks again and takes the head; an empty queue sends it back,  *)
(* by a return or by the exception of dequeue.                             *)
Dequeue(w) ==
  /\ \/ /\ queue = <<>>
        /\ Step(w, "fetch", "top")
        /\ UNCHANGED <<queue, task>>
     \/ /\ queue # <<>>
        /\ Step(w, "fetch", "lookup")
        /\ task' = [task EXCEPT ![w] = Head(queue)]
        /\ queue' = Tail(queue)
  /\ UNCHANGED <<registryVars, stopEvent, thread, pc, reply, forgotten>>

(* completions.get: without a completion the task is executed all the same.*)
Lookup(w) ==
  /\ loop[w] = "lookup"
  /\ Step(w, "lookup", IF Status(task[w]) = "absent" THEN "execute" ELSE "start")
  /\ UNCHANGED <<registryVars, queue, stopEvent, thread, task, pc, reply, forgotten>>

(* completions.start raises for a task that is not pending any more: it    *)
(* was cancelled in the queue, or cleaned up since the lookup.  The loop   *)
(* swallows the exception and the task is dropped.                         *)
StartTask(w) ==
  /\ loop[w] = "start"
  /\ \/ /\ Status(task[w]) = "pending"
        /\ Step(w, "start", "execute")
        /\ Put(IdOf[task[w]], "running", NoRequest)
        /\ UNCHANGED task
     \/ /\ Status(task[w]) # "pending"
        /\ Step(w, "start", "top")
        /\ Forget(w)
        /\ UNCHANGED <<items, unreported>>
  /\ UNCHANGED <<finished, queue, stopEvent, thread, pc, reply, forgotten>>

(* The handler returns or raises.                                          *)
Execute(w) ==
  /\ \/ Step(w, "execute", "complete")
     \/ Step(w, "execute", "fail")
  /\ UNCHANGED <<registryVars, queue, stopEvent, thread, task, pc, reply, forgotten>>

(* Mutant: a cancelled task is overwritten by a late outcome.              *)
RecordOverCancelled(w, here, status) ==
  LET i == IdOf[task[w]] IN
  /\ Step(w, here, "top")
  /\ Put(i, status, task[w])
  /\ finished' = IF items[i].status \in Unfinished THEN Append(finished, i) ELSE finished
  /\ Forget(w)
  /\ UNCHANGED <<queue, stopEvent, thread, pc, reply, forgotten>>

(* The outcome is recorded unless the task is gone or already terminal.    *)
(* The lookup before the transition is taken together with it: what        *)
(* happens to the entry in between could as well have happened before.     *)
Record(w, here, status) ==
  LET i == IdOf[task[w]] IN
  /\ Step(w, here, "top")
  /\ \/ /\ items[i].status \in Unfinished
        /\ Put(i, status, task[w])
        /\ finished' = Append(finished, i)
     \/ /\ items[i].status \notin Unfinished
        /\ UNCHANGED registryVars
  /\ Forget(w)
  /\ UNCHANGED <<queue, stopEvent, thread, pc, reply, forgotten>>

Complete(w) == Record(w, "complete", "completed")

(* Mutant: an exception ends the loop.                                     *)
FailAndDie(w) ==
  /\ Step(w, "fail", "dead")
  /\ Put(IdOf[task[w]], "failed", task[w])
  /\ finished' = Append(finished, IdOf[task[w]])
  /\ Forget(w)
  /\ UNCHANGED <<queue, stopEvent, thread, pc, reply, forgotten>>

(* fail() refuses an error without a text, and so raises for an exception  *)
(* whose message is blank; the loop swallows that too, and an entry that   *)
(* was running is left running.                                            *)
FailUnreported(w) ==
  LET i == IdOf[task[w]] IN
  /\ Step(w, "fail", "top")
  /\ unreported' = IF items[i].status = "running" THEN unreported \cup {i} ELSE unreported
  /\ Forget(w)
  /\ UNCHANGED <<items, finished, queue, stopEvent, thread, pc, reply, forgotten>>

Fail(w) == Record(w, "fail", "failed") \/ FailUnreported(w)

Work(w) ==
  \/ Poll(w) \/ Dequeue(w) \/ Lookup(w) \/ StartTask(w) \/ Execute(w)
  \/ Complete(w) \/ Fail(w)

-----------------------------------------------------------------------------
(* completions.cancel(task_id)                                             *)
Cancel(i) ==
  /\ Cancelling
  /\ items[i].status \in Unfinished
  /\ Put(i, "cancelled", NoRequest)
  /\ finished' = Append(finished, i)
  /\ UNCHANGED <<queue, workerVars, pc, reply, forgotten>>

(* worker.stop(timeout): the event is set; the join may time out while the *)
(* loop is still in a handler.                                             *)
Stop ==
  /\ Stopping
  /\ thread # NoRequest
  /\ Alive(thread)
  /\ stopEvent' = TRUE
  /\ UNCHANGED <<registryVars, queue, thread, loop, task, pc, reply, forgotten>>

Next ==
  \/ \E r \in Request : Serve(r) \/ Work(r)
  \/ \E i \in Id : Cancel(i)
  \/ Stop

Spec == Init /\ [][Next]_vars

(* Connection threads and worker threads are scheduled, and the handlers   *)
(* of the default registry are finite computations.                        *)
FairSpec ==
  Spec /\ \A r \in Request : WF_vars(pc[r] # "idle" /\ Serve(r)) /\ WF_vars(Work(r))

-----------------------------------------------------------------------------
(* Properties *)

(* The registry, the queue and the worker never lose track of a task: a    *)
(* pending completion has its request on the way to the queue, in it or in *)
(* the hands of a worker, and a running one is being executed by a worker, *)
(* unless it failed without a message.  No interleaving of submissions,    *)
(* stop and restart of the worker, cancellation and cleanup leaves another *)
(* completion that nobody will end.                                        *)
NoTaskLost ==
  \A i \in Id :
    /\ items[i].status = "pending" => \E r \in Request : IdOf[r] = i /\ OnItsWay(r)
    /\ items[i].status = "running" =>
         \/ \E w \in Request : InExecution(w) /\ IdOf[task[w]] = i
         \/ i \in unreported

(* Two executions of one task id never overlap, although two loops may be  *)
(* alive after a stop and a start, and although a client may retry an id   *)
(* while the first execution of it goes on: only a cleanup of the entry of *)
(* a request that is still engaged with it lets a second one in.           *)
NoOverlap ==
  \A v, w \in Request :
    (v # w /\ InExecution(v) /\ InExecution(w) /\ IdOf[task[v]] = IdOf[task[w]])
      => task[v] \in forgotten \/ task[w] \in forgotten

(* A client is only ever told the outcome of its own request: neither the  *)
(* outcome of an earlier request with the same id nor the late outcome of  *)
(* an execution that was cancelled, unless the entry of one of the two was *)
(* cleaned up under it.                                                    *)
OwnOutcome ==
  \/ reply.to \in forgotten
  \/ /\ reply.status = "failed" => reply.by \in {reply.to} \cup forgotten
     /\ reply.status = "completed" => reply.by \in {reply.to, NoRequest} \cup forgotten

(* A cancellation is never undone by a late outcome: the entry stays       *)
(* cancelled until it is cleaned up.  And a task that was cancelled before *)
(* its execution began is not executed afterwards, whatever happens to its *)
(* id in between, as long as its entry is not cleaned up before a worker   *)
(* comes to it.                                                            *)
NeverUndone ==
  \A i \in Id : items[i].status = "cancelled" => items'[i].status \in {"cancelled", "absent"}

Withdrawn(r) == OnItsWay(r) /\ Status(r) = "cancelled"

StaysWithdrawn ==
  \A r \in Request : Withdrawn(r) =>
    /\ OnItsWay(r)' => Withdrawn(r)' \/ r \in forgotten'
    /\ \A w \in Request : InExecution(w)' => task'[w] # r

CancelledForGood == [][NeverUndone /\ StaysWithdrawn]_vars

(* Finished entries and only they are on the list that cleanup reads, each *)
(* once: a cleanup never removes a pending or running task.                *)
CleanupList ==
  /\ \A i \in Id : (\E k \in DOMAIN finished : finished[k] = i)
                     <=> items[i].status \in Terminal
  /\ \A j, k \in DOMAIN finished : finished[j] = finished[k] => j = k

(* One worker loop at a time, however many connection threads find the     *)
(* worker stopped and start it, as long as nobody calls stop.              *)
OneLoop == \A v, w \in Request : (Alive(v) /\ Alive(w)) => v = w

(* Every request is answered or refused, even if its task never ends.      *)
EveryRequestEnds ==
  \A r \in Request : (pc[r] # "idle") ~> (pc[r] = "done")

(* Every accepted task ends, because the thread that queued it finds or    *)
(* starts a worker afterwards, or fails without a message.                 *)
EveryTaskEnds ==
  \A i \in Id : (items[i].status \in Unfinished)
                  ~> (items[i].status \notin Unfinished \/ i \in unreported)

(* What the registry says of a task is true: no completion is left that    *)
(* nobody will end but that of a blank error, and the clean-up reads the   *)
(* finished ones and no others (task_worker.py:40, task_completion.py:615).*)
RegistrySound == TypeOK /\ NoTaskLost /\ CleanupList

(* Whatever is accepted ends, but for a blank error, and whoever asked is  *)
(* answered or refused.                                                    *)
EverythingEnds == EveryTaskEnds /\ EveryRequestEnds
=============================================================================
