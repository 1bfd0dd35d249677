---------------------------- MODULE CompletionStore ----------------------------
(***************************************************************************)
(* A compute runtime with a completion store (nexus/compute/runtime.py,    *)
(* completion_store.py): the calls run, cancel and persist of several      *)
(* threads, each of which saves a snapshot of the registry through one     *)
(* temporary file, and the restart of the process from the saved file.     *)
(*                                                                         *)
(* Abstracted: a call of run makes one attempt on a local backend (retries *)
(* and the cluster backend are in Dispatch); a call that finds an entry of *)
(* its task changes nothing and is left out; a file is whole, empty or     *)
(* torn; exists() and unlink() of the temporary file are one step.         *)
(***************************************************************************)
EXTENDS Naturals

CONSTANTS
  Task,         \* task ids
  Caller,       \* threads that call the runtime
  MaxCrashes,   \* bound: crashes of the process
  MaxErrors,    \* bound: saves that fail with an OSError
  NoFile,       \* the file does not exist
  Empty,        \* the file is truncated
  Torn,         \* the file mixes the writes of two threads
  NoTask        \* a thread that calls persist

Terminal == {"completed", "failed", "cancelled"}
Status == {"none", "pending", "running"} \cup Terminal

(* What export_state returns: the status of every task, "none" if the      *)
(* registry does not have it.                                              *)
Snapshot == [Task -> Status]
Nothing == [t \in Task |-> "none"]

ASSUME CompletionStoreAssumption ==
  /\ MaxCrashes \in Nat /\ MaxErrors \in Nat
  /\ {NoFile, Empty, Torn} \cap Snapshot = {}
  /\ NoTask \notin Task

VARIABLES
  up,        \* is the process alive?
  items,     \* TaskCompletionRegistry._items
  temp,      \* the file <path>.tmp
  disk,      \* the file <path>
  pc,        \* where each thread is
  after,     \* where it goes on when its save returns
  task,      \* the task of its call
  result,    \* the outcome of its execution
  snap,      \* the state that its save has exported
  handle,    \* the file that its handle is open on
  executed,  \* how often the handler of a task has been run
  acked,     \* the outcome that a call of run or cancel has returned
  serial,    \* do the threads take turns at save?  Nothing makes them.
  crashes,   \* crashes so far
  errors     \* failed saves so far

callVars == <<pc, after, task, result>>
fileVars == <<temp, disk, snap, handle>>
historyVars == <<executed, acked>>
faultVars == <<serial, crashes, errors>>
vars == <<up, items, fileVars, callVars, historyVars, faultVars>>

Saving == {"open", "write", "replace", "tidy"}
PC == {"idle", "start", "execute", "conclude", "export", "return"} \cup Saving
Place == {"temp", "disk", "unlinked", "closed"}

TypeOK ==
  /\ up \in BOOLEAN
  /\ items \in Snapshot
  /\ temp \in Snapshot \cup {NoFile, Empty, Torn}
  /\ disk \in Snapshot \cup {NoFile, Empty, Torn}
  /\ pc \in [Caller -> PC]
  /\ after \in [Caller -> PC]
  /\ task \in [Caller -> Task \cup {NoTask}]
  /\ result \in [Caller -> {"none", "completed", "failed"}]
  /\ snap \in [Caller -> Snapshot]
  /\ handle \in [Caller -> Place]
  /\ executed \in [Task -> 0 .. MaxCrashes + 1]
  /\ acked \in [Task -> {"none"} \cup Terminal]
  /\ serial \in BOOLEAN
  /\ crashes \in 0 .. MaxCrashes
  /\ errors \in 0 .. MaxErrors

Idle ==
  /\ pc = [c \in Caller |-> "idle"]
  /\ after = [c \in Caller |-> "idle"]
  /\ task = [c \in Caller |-> NoTask]
  /\ result = [c \in Caller |-> "none"]
  /\ snap = [c \in Caller |-> Nothing]
  /\ handle = [c \in Caller |-> "closed"]

Init ==
  /\ up = TRUE
  /\ items = Nothing
  /\ temp = NoFile
  /\ disk = NoFile
  /\ Idle
  /\ executed = [t \in Task |-> 0]
  /\ acked = [t \in Task |-> "none"]
  /\ serial \in BOOLEAN
  /\ crashes = 0
  /\ errors = 0

-----------------------------------------------------------------------------
(* The registry.  A transition that is refused raises, which ends the call *)
(* and changes nothing.                                                    *)
Set(t, status) == items' = [items EXCEPT ![t] = status]

Concludable(t) == items[t] \in {"pending", "running"}

(* _persist_if_configured, then go on at "next".                           *)
PersistThen(c, here, next) ==
  /\ pc[c] = here
  /\ pc' = [pc EXCEPT ![c] = "export"]
  /\ after' = [after EXCEPT ![c] = next]

(* The call ends: the frame of the thread goes.                            *)
End(c) ==
  /\ pc' = [pc EXCEPT ![c] = "idle"]
  /\ after' = [after EXCEPT ![c] = "idle"]
  /\ task' = [task EXCEPT ![c] = NoTask]
  /\ result' = [result EXCEPT ![c] = "none"]

(* Mutant: run starts the task without a save of the pending entry, and    *)
(* executes it without one of the running entry.                           *)
CreateUnsaved(c, t) ==
  /\ up /\ pc[c] = "idle"
  /\ items[t] = "none"
  /\ Set(t, "running")
  /\ pc' = [pc EXCEPT ![c] = "execute"]
  /\ task' = [task EXCEPT ![c] = t]
  /\ UNCHANGED <<up, fileVars, after, result, historyVars, faultVars>>

(* run on a task that has no entry.                                        *)
Create(c, t) ==
  /\ up /\ PersistThen(c, "idle", "start")
  /\ items[t] = "none"
  /\ Set(t, "pending")
  /\ task' = [task EXCEPT ![c] = t]
  /\ UNCHANGED <<up, fileVars, result, historyVars, faultVars>>

Start(c) ==
  /\ up
  /\ \/ /\ PersistThen(c, "start", "execute")
        /\ items[task[c]] = "pending"
        /\ Set(task[c], "running")
        /\ UNCHANGED <<task, result>>
     \/ /\ pc[c] = "start"
        /\ items[task[c]] # "pending"
        /\ End(c)
        /\ UNCHANGED items
  /\ UNCHANGED <<up, fileVars, historyVars, faultVars>>

(* The handler runs, and returns or raises.                                *)
Execute(c) ==
  /\ up /\ pc[c] = "execute"
  /\ pc' = [pc EXCEPT ![c] = "conclude"]
  /\ executed' = [executed EXCEPT ![task[c]] = @ + 1]
  /\ \E r \in {"completed", "failed"} : result' = [result EXCEPT ![c] = r]
  /\ UNCHANGED <<up, items, fileVars, after, task, acked, faultVars>>

Conclude(c) ==
  /\ up
  /\ \/ /\ PersistThen(c, "conclude", "return")
        /\ Concludable(task[c])
        /\ Set(task[c], result[c])
        /\ UNCHANGED <<task, result>>
     \/ /\ pc[c] = "conclude"
        /\ ~Concludable(task[c])
        /\ End(c)
        /\ UNCHANGED items
  /\ UNCHANGED <<up, fileVars, historyVars, faultVars>>

(* cancel, of a task that another thread may be executing.                 *)
Cancel(c, t) ==
  /\ up /\ PersistThen(c, "idle", "return")
  /\ items[t] \in {"pending", "running"}
  /\ Set(t, "cancelled")
  /\ task' = [task EXCEPT ![c] = t]
  /\ result' = [result EXCEPT ![c] = "none"]
  /\ UNCHANGED <<up, fileVars, historyVars, faultVars>>

(* An explicit persist.                                                    *)
Persist(c) ==
  /\ up /\ PersistThen(c, "idle", "idle")
  /\ UNCHANGED <<up, items, fileVars, task, result, historyVars, faultVars>>

(* run or cancel returns; cancel has no outcome of its own.                *)
Return(c) ==
  /\ up /\ pc[c] = "return"
  /\ acked' = [acked EXCEPT ![task[c]] =
                 IF result[c] = "none" THEN "cancelled" ELSE result[c]]
  /\ End(c)
  /\ UNCHANGED <<up, items, fileVars, executed, faultVars>>

-----------------------------------------------------------------------------
(* TaskCompletionStore.save                                                *)

Goto(c, here, there) ==
  /\ up /\ pc[c] = here
  /\ pc' = [pc EXCEPT ![c] = there]

Inside(c) == pc[c] \in Saving

Export(c) ==
  /\ Goto(c, "export", "open")
  /\ serial => \A d \in Caller : ~Inside(d)
  /\ snap' = [snap EXCEPT ![c] = items]
  /\ UNCHANGED <<up, items, temp, disk, handle, after, task, result,
                 historyVars, faultVars>>

(* Mutant: the file itself is opened, not a temporary one.                 *)
OpenDisk(c) ==
  /\ Goto(c, "open", "write")
  /\ disk' = Empty
  /\ handle' = [handle EXCEPT ![c] = "disk"]
  /\ UNCHANGED <<up, items, temp, snap, after, task, result, historyVars,
                 faultVars>>

(* Every thread opens the same temporary file, which truncates it.         *)
Open(c) ==
  /\ Goto(c, "open", "write")
  /\ temp' = Empty
  /\ handle' = [handle EXCEPT ![c] = "temp"]
  /\ UNCHANGED <<up, items, disk, snap, after, task, result, historyVars,
                 faultVars>>

(* What a file holds after a thread has written its snapshot from the      *)
(* start of it: what another thread has written may be left at its end.    *)
Written(c, file) ==
  {snap[c]} \cup IF file \in {Empty, snap[c]} THEN {} ELSE {Torn}

(* A handle follows its file through a rename.                             *)
Write(c) ==
  /\ Goto(c, "write", "replace")
  /\ \/ handle[c] = "temp" /\ temp' \in Written(c, temp) /\ UNCHANGED disk
     \/ handle[c] = "disk" /\ disk' \in Written(c, disk) /\ UNCHANGED temp
     \/ handle[c] = "unlinked" /\ UNCHANGED <<temp, disk>>
  /\ handle' = [handle EXCEPT ![c] = "closed"]
  /\ snap' = [snap EXCEPT ![c] = Nothing]
  /\ UNCHANGED <<up, items, after, task, result, historyVars, faultVars>>

(* Handles on the temporary file are on "there" when it goes.              *)
Moved(there) ==
  [d \in Caller |->
     IF handle[d] = "temp" THEN there
     ELSE IF there = "disk" /\ handle[d] = "disk" THEN "unlinked" ELSE handle[d]]

(* Mutant: the temporary file is left where it is.                         *)
ReplaceForgotten(c) ==
  /\ Goto(c, "replace", "tidy")
  /\ UNCHANGED <<up, items, fileVars, after, task, result, historyVars,
                 faultVars>>

(* os.replace, which raises if another thread has taken the file away: the *)
(* exception goes through the finally block and ends the call.             *)
Replace(c) ==
  /\ Goto(c, "replace", "tidy")
  /\ \/ /\ temp # NoFile
        /\ disk' = temp
        /\ temp' = NoFile
        /\ handle' = Moved("disk")
        /\ UNCHANGED after
     \/ /\ temp = NoFile
        /\ after' = [after EXCEPT ![c] = "idle"]
        /\ UNCHANGED <<temp, disk, handle>>
  /\ UNCHANGED <<up, items, snap, task, result, historyVars, faultVars>>

(* Opening, writing or replacing the file fails; the exception ends the    *)
(* call, and with it a run whose task has yet to be executed.              *)
SaveFails(c) ==
  /\ \E here \in {"open", "write", "replace"} : Goto(c, here, "tidy")
  /\ errors < MaxErrors
  /\ errors' = errors + 1
  /\ after' = [after EXCEPT ![c] = "idle"]
  /\ snap' = [snap EXCEPT ![c] = Nothing]
  /\ handle' = [handle EXCEPT ![c] = "closed"]
  /\ UNCHANGED <<up, items, temp, disk, task, result, historyVars, serial, crashes>>

(* The finally block removes the temporary file, be it whose it may.       *)
Unlink == temp' = NoFile /\ handle' = Moved("unlinked")

Tidy(c) ==
  /\ up /\ pc[c] = "tidy"
  /\ Unlink
  /\ IF after[c] = "idle" THEN End(c)
     ELSE /\ pc' = [pc EXCEPT ![c] = after[c]]
          /\ after' = [after EXCEPT ![c] = "idle"]
          /\ UNCHANGED <<task, result>>
  /\ UNCHANGED <<up, items, disk, snap, historyVars, faultVars>>

-----------------------------------------------------------------------------
Crash ==
  /\ up /\ crashes < MaxCrashes
  /\ up' = FALSE
  /\ crashes' = crashes + 1
  /\ items' = Nothing
  /\ pc' = [c \in Caller |-> "idle"]
  /\ after' = [c \in Caller |-> "idle"]
  /\ task' = [c \in Caller |-> NoTask]
  /\ result' = [c \in Caller |-> "none"]
  /\ snap' = [c \in Caller |-> Nothing]
  /\ handle' = [c \in Caller |-> "closed"]
  /\ UNCHANGED <<temp, disk, historyVars, serial, errors>>

(* restore_state: a task that was running has failed; a pending one stays  *)
(* pending.                                                                *)
Restored(saved) ==
  [t \in Task |-> IF saved[t] = "running" THEN "failed" ELSE saved[t]]

(* The process starts again.  A file that cannot be read stops it.         *)
Restart ==
  /\ ~up
  /\ up' = TRUE
  /\ \/ disk = NoFile /\ items' = Nothing
     \/ disk \in Snapshot /\ items' = Restored(disk)
  /\ UNCHANGED <<fileVars, callVars, historyVars, faultVars>>

Save(c) ==
  Export(c) \/ Open(c) \/ Write(c) \/ Replace(c) \/ Tidy(c) \/ SaveFails(c)

Next ==
  \/ \E c \in Caller, t \in Task : Create(c, t) \/ Cancel(c, t)
  \/ \E c \in Caller :
       \/ Start(c) \/ Execute(c) \/ Conclude(c) \/ Persist(c) \/ Return(c)
       \/ Save(c)
  \/ Crash
  \/ Restart

Spec == Init /\ [][Next]_vars

-----------------------------------------------------------------------------
(* Properties.  Where threads may overlap in save, what reaches the disk   *)
(* is up to their luck; the properties say what turns at save buy.         *)

Saved(t) == IF disk \in Snapshot THEN disk[t] ELSE "none"

(* The file is never half a state: a process that restarts can always      *)
(* load what some save has exported (completion_store.py:14, "Persist and  *)
(* recover TaskCompletionRegistry state atomically").                      *)
AtomicPersistence == disk \in Snapshot \cup {NoFile}

(* With saves in turn, it is so, whatever fails or crashes.                *)
DiskWhole == serial => AtomicPersistence

(* An outcome that run or cancel has returned to the caller that produced  *)
(* it is on disk from then on, through failed saves and crashes.           *)
AckedDurable ==
  serial => \A t \in Task : acked[t] # "none" => Saved(t) = acked[t]

(* No task is executed again after a crash: run saves the entry before the *)
(* handler is called, and the restored entry refuses the next call.        *)
AtMostOnce == serial => \A t \in Task : executed[t] <= 1

(* The state in memory and the file are sound, with saves in turn.         *)
FileSound == TypeOK /\ DiskWhole
=============================================================================
