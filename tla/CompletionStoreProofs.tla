------------------------- MODULE CompletionStoreProofs -------------------------
(***************************************************************************)
(* Proofs about CompletionStore for any number of tasks, threads, crashes  *)
(* and failed saves.                                                       *)
(*                                                                         *)
(* CallInv says what a thread in the middle of a call knows of the         *)
(* registry in memory; it holds however the threads interleave.  SaveInv   *)
(* says how far the snapshot a thread carries has come on its way to the   *)
(* disk; it needs the turns at save (serial).                              *)
(***************************************************************************)
EXTENDS CompletionStore, TLAPS

Busy == {"export"} \cup Saving

(* Where a call goes on once its save has returned.                        *)
Phase(c) == IF pc[c] \in Busy THEN after[c] ELSE pc[c]

(* What a call returns.                                                    *)
Outcome(c) == IF result[c] = "none" THEN "cancelled" ELSE result[c]

(* The call of run that is to execute, or executes, its task.              *)
Runs(c) == Phase(c) \in {"start", "execute", "conclude"}

SavedState == [t \in Task |-> Saved(t)]

(* How far a status has come.                                              *)
Rank == [s \in Status |->
  CASE s = "none" -> 0 [] s = "pending" -> 1 [] s = "running" -> 2 [] OTHER -> 3]

(* The status b is one that a task of status a may come to have.           *)
Before(a, b) ==
  /\ Rank[a] <= Rank[b]
  /\ a \in Terminal => b = a

Precedes(older, newer) == \A t \in Task : Before(older[t], newer[t])

(* A state that holds what the call c waits to have saved.                 *)
Covers(c, state) ==
  /\ Phase(c) = "execute" => Rank[state[task[c]]] >= 2
  /\ Phase(c) = "return" => state[task[c]] = Outcome(c)

Knows(c) ==
  /\ after[c] \in {"idle", "start", "execute", "return"}
  /\ Phase(c) \in {"start", "execute", "conclude", "return"} =>
       task[c] \in Task /\ items[task[c]] # "none"
  /\ Phase(c) \in {"execute", "conclude"} => Rank[items[task[c]]] >= 2
  /\ Phase(c) = "conclude" => result[c] # "none"
  /\ Phase(c) = "return" => items[task[c]] = Outcome(c)
  /\ Phase(c) \in {"start", "execute"} => executed[task[c]] <= crashes

OneRunner ==
  \A c, d \in Caller : Runs(c) /\ Runs(d) /\ task[c] = task[d] => c = d

(* A task is executed once in the life of a process, at most.              *)
OncePerLife ==
  \A t \in Task :
    /\ executed[t] <= crashes + 1
    /\ items[t] = "none" \/ ~up => executed[t] <= crashes

CallInv ==
  /\ ~up => \A c \in Caller : pc[c] = "idle"
  /\ \A c \in Caller : Knows(c)
  /\ OneRunner
  /\ OncePerLife

(* What the thread c has in its hands is between the disk and the memory.  *)
Carried(c) ==
  /\ pc[c] # "write" => handle[c] = "closed"
  /\ pc[c] \in {"start", "conclude", "export"} => Covers(c, items)
  /\ pc[c] \in {"open", "write"} =>
       /\ Precedes(SavedState, snap[c])
       /\ Precedes(snap[c], items)
       /\ Covers(c, snap[c])
  /\ pc[c] = "write" => handle[c] = "temp" /\ temp = Empty
  /\ pc[c] = "replace" =>
       /\ temp \in Snapshot
       /\ Precedes(SavedState, temp)
       /\ Precedes(temp, items)
       /\ Covers(c, temp)
  /\ pc[c] \in {"tidy", "execute", "return"} => Covers(c, SavedState)

SaveInv ==
  /\ AtomicPersistence
  /\ up => Precedes(SavedState, items)
  /\ \A c, d \in Caller : Inside(c) /\ Inside(d) => c = d
  /\ \A c \in Caller : Carried(c)
  /\ \A c \in Caller : Phase(c) \in {"start", "execute"} => executed[task[c]] = 0
  /\ \A t \in Task :
       /\ executed[t] <= 1
       /\ executed[t] > 0 => Rank[Saved(t)] >= 2
       /\ acked[t] # "none" => Saved(t) = acked[t]

-----------------------------------------------------------------------------
(* The order of statuses.                                                  *)

LEMMA RankValues ==
  /\ Rank["none"] = 0 /\ Rank["pending"] = 1 /\ Rank["running"] = 2
  /\ \A s \in Terminal : Rank[s] = 3
  /\ \A s \in Status : Rank[s] \in 0 .. 3
BY DEF Rank, Status, Terminal

LEMMA BeforeReflexive ==
  ASSUME NEW s \in Status PROVE Before(s, s)
BY RankValues DEF Before

LEMMA BeforeTransitive ==
  ASSUME NEW r \in Status, NEW s \in Status, NEW t \in Status,
         Before(r, s), Before(s, t)
  PROVE  Before(r, t)
BY RankValues DEF Before

LEMMA BeforeSteps ==
  /\ \A s \in Status : Before("none", s)
  /\ \A s \in Status : s # "none" => Before("pending", s)
  /\ \A s \in Status : s \notin {"none", "pending"} => Before("running", s)
BY RankValues DEF Before, Status, Terminal

(* What holds of the state of a task still holds of a later one.           *)
LEMMA CoversLater ==
  ASSUME NEW c \in Caller, NEW older \in Snapshot, NEW newer \in Snapshot,
         Phase(c) \in {"execute", "return"} => task[c] \in Task,
         Outcome(c) \in Terminal,
         Precedes(older, newer), Covers(c, older)
  PROVE  Covers(c, newer)
<1>1. CASE Phase(c) \in {"execute", "return"}
  <2>1. task[c] \in Task /\ Before(older[task[c]], newer[task[c]])
    BY <1>1 DEF Precedes
  <2>2. older[task[c]] \in Status /\ newer[task[c]] \in Status
    BY <2>1 DEF Snapshot
  <2> QED BY <2>1, <2>2, RankValues DEF Before, Covers
<1>2. CASE Phase(c) \notin {"execute", "return"}
  BY <1>2 DEF Covers
<1> QED BY <1>1, <1>2

LEMMA PrecedesTransitive ==
  ASSUME NEW r \in Snapshot, NEW s \in Snapshot, NEW t \in Snapshot,
         Precedes(r, s), Precedes(s, t)
  PROVE  Precedes(r, t)
<1> SUFFICES ASSUME NEW k \in Task PROVE Before(r[k], t[k])
  BY DEF Precedes
<1>1. r[k] \in Status /\ s[k] \in Status /\ t[k] \in Status
  BY DEF Snapshot
<1> QED BY <1>1, BeforeTransitive DEF Precedes

LEMMA PrecedesReflexive ==
  ASSUME NEW s \in Snapshot PROVE Precedes(s, s)
BY BeforeReflexive DEF Precedes, Snapshot

LEMMA SavedType == SavedState \in Snapshot
BY DEF SavedState, Saved, Snapshot, Status

LEMMA OutcomeType ==
  ASSUME TypeOK, NEW c \in Caller PROVE Outcome(c) \in Terminal
BY DEF TypeOK, Outcome, Terminal

-----------------------------------------------------------------------------
(* Types.                                                                  *)

LEMMA TypeInit == Init => TypeOK
BY CompletionStoreAssumption
DEF Init, TypeOK, Idle, Nothing, Snapshot, Status, PC, Place

LEMMA NothingType == Nothing \in Snapshot
BY DEF Nothing, Snapshot, Status

StepOf(c) ==
  \/ \E t \in Task : Create(c, t) \/ Cancel(c, t)
  \/ Start(c) \/ Execute(c) \/ Conclude(c) \/ Persist(c) \/ Return(c)
  \/ Save(c)

LEMMA TypeStep ==
  ASSUME TypeOK, CallInv, NEW c \in Caller, StepOf(c)
  PROVE  TypeOK'
<1> USE DEF TypeOK, CallInv, Knows, Phase, Busy, historyVars, faultVars, fileVars,
            callVars, PC, Saving, Place, Snapshot
<1>1. ASSUME NEW t \in Task, Create(c, t) PROVE TypeOK'
  BY <1>1 DEF Create, PersistThen, Set, Status
<1>2. ASSUME NEW t \in Task, Cancel(c, t) PROVE TypeOK'
  BY <1>2 DEF Cancel, PersistThen, Set, Status, Terminal
<1>3. CASE Start(c)
  <2>1. CASE PersistThen(c, "start", "execute") /\ Set(task[c], "running")
                                                /\ UNCHANGED <<task, result>>
    <3>1. items' \in Snapshot
      BY <2>1 DEF Set, Status
    <3> QED BY <1>3, <2>1, <3>1 DEF Start, PersistThen
  <2>2. CASE End(c) /\ UNCHANGED items
    BY <1>3, <2>2 DEF Start, End
  <2> QED BY <1>3, <2>1, <2>2 DEF Start
<1>4. CASE Execute(c)
  <2>1. executed[task[c]] + 1 \in 0 .. MaxCrashes + 1
    BY <1>4, CompletionStoreAssumption DEF Execute
  <2> QED BY <1>4, <2>1 DEF Execute
<1>5. CASE Conclude(c)
  <2>1. CASE PersistThen(c, "conclude", "return") /\ Set(task[c], result[c])
                                                  /\ UNCHANGED <<task, result>>
    <3>1. result[c] \in Status
      BY DEF Status, Terminal
    <3>2. items' \in Snapshot
      BY <2>1, <3>1 DEF Set
    <3> QED BY <1>5, <2>1, <3>2 DEF Conclude, PersistThen
  <2>2. CASE End(c) /\ UNCHANGED items
    BY <1>5, <2>2 DEF Conclude, End
  <2> QED BY <1>5, <2>1, <2>2 DEF Conclude
<1>6. CASE Persist(c)
  BY <1>6 DEF Persist, PersistThen
<1>7. CASE Return(c)
  BY <1>7 DEF Return, End, Terminal
<1>8. CASE Export(c)
  BY <1>8 DEF Export, Goto
<1>9. CASE Open(c)
  BY <1>9 DEF Open, Goto
<1>10. CASE Write(c)
  <2>1. Nothing \in Snapshot
    BY NothingType
  <2> QED BY <1>10, <2>1 DEF Write, Goto, Written
<1>11. CASE Replace(c)
  <2>1. Moved("disk") \in [Caller -> Place]
    BY DEF Moved
  <2> QED BY <1>11, <2>1 DEF Replace, Goto
<1>12. CASE Tidy(c)
  <2>1. Moved("unlinked") \in [Caller -> Place]
    BY DEF Moved
  <2>2. CASE End(c)
    BY <1>12, <2>1, <2>2 DEF Tidy, Unlink, End
  <2>3. CASE /\ pc' = [pc EXCEPT ![c] = after[c]]
             /\ after' = [after EXCEPT ![c] = "idle"]
             /\ UNCHANGED <<task, result>>
    BY <1>12, <2>1, <2>3 DEF Tidy, Unlink
  <2> QED BY <1>12, <2>2, <2>3 DEF Tidy
<1>13. CASE SaveFails(c)
  <2>1. Nothing \in Snapshot
    BY NothingType
  <2>2. errors + 1 \in 0 .. MaxErrors
    BY <1>13, CompletionStoreAssumption DEF SaveFails
  <2> QED BY <1>13, <2>1, <2>2 DEF SaveFails, Goto
<1> QED
  BY <1>1, <1>2, <1>3, <1>4, <1>5, <1>6, <1>7, <1>8, <1>9, <1>10, <1>11, <1>12,
     <1>13
  DEF StepOf, Save

LEMMA TypeCrash ==
  ASSUME TypeOK, Crash PROVE TypeOK'
<1>1. Nothing \in Snapshot
  BY NothingType
<1>2. crashes + 1 \in 0 .. MaxCrashes
  BY CompletionStoreAssumption DEF Crash, TypeOK
<1> QED
  BY <1>1, <1>2 DEF Crash, TypeOK, historyVars, PC, Place

LEMMA TypeRestart ==
  ASSUME TypeOK, Restart PROVE TypeOK'
<1>1. \A saved \in Snapshot : Restored(saved) \in Snapshot
  BY DEF Restored, Snapshot, Status, Terminal
<1>2. Nothing \in Snapshot
  BY NothingType
<1> QED
  BY <1>1, <1>2 DEF Restart, TypeOK, fileVars, callVars, historyVars, faultVars

-----------------------------------------------------------------------------
(* The calls.                                                              *)

(* A step of one thread leaves the place of every other thread alone.      *)
LEMMA OthersStay ==
  ASSUME TypeOK, NEW c \in Caller, StepOf(c), NEW d \in Caller, d # c
  PROVE  /\ pc'[d] = pc[d] /\ after'[d] = after[d]
         /\ task'[d] = task[d] /\ result'[d] = result[d]
         /\ snap'[d] = snap[d]
<1> USE DEF TypeOK, historyVars, faultVars, fileVars
<1>1. CASE \E t \in Task : Create(c, t) \/ Cancel(c, t)
  BY <1>1 DEF Create, Cancel, PersistThen
<1>2. CASE Start(c) \/ Conclude(c) \/ Persist(c) \/ Return(c)
  BY <1>2 DEF Start, Conclude, Persist, Return, PersistThen, End
<1>3. CASE Execute(c)
  BY <1>3 DEF Execute
<1>4. CASE Save(c)
  BY <1>4 DEF Save, Export, Open, Write, Replace, Tidy, SaveFails, Goto, End
<1> QED BY <1>1, <1>2, <1>3, <1>4 DEF StepOf

(* The registry only moves on.                                             *)
LEMMA ItemsAdvance ==
  ASSUME TypeOK, CallInv, NEW c \in Caller, StepOf(c)
  PROVE  Precedes(items, items')
<1> SUFFICES ASSUME NEW k \in Task PROVE Before(items[k], items'[k])
  BY DEF Precedes
<1>1. items[k] \in Status
  BY DEF TypeOK, Snapshot
<1>2. CASE items'[k] = items[k]
  BY <1>1, <1>2, BeforeReflexive
<1>3. ASSUME NEW t \in Task, Create(c, t), items'[k] # items[k]
      PROVE  Before(items[k], items'[k])
  BY <1>3, BeforeSteps DEF Create, Set, TypeOK, Snapshot, Status
<1>4. ASSUME NEW t \in Task, Cancel(c, t), items'[k] # items[k]
      PROVE  Before(items[k], items'[k])
  BY <1>4, BeforeSteps DEF Cancel, Set, TypeOK, Snapshot, Status, Terminal
<1>5. ASSUME Start(c), items'[k] # items[k]
      PROVE  Before(items[k], items'[k])
  BY <1>5, BeforeSteps DEF Start, Set, TypeOK, Snapshot, Status
<1>6. ASSUME Conclude(c), items'[k] # items[k]
      PROVE  Before(items[k], items'[k])
  <2>1. /\ k = task[c] /\ items[k] \in {"pending", "running"}
        /\ items'[k] = result[c] /\ result[c] \in {"completed", "failed"}
    BY <1>6 DEF Conclude, Concludable, Set, TypeOK, Snapshot, CallInv, Knows,
                Phase, Busy, Saving, PersistThen
  <2> QED BY <2>1, BeforeSteps DEF Status, Terminal
<1>7. CASE Execute(c) \/ Persist(c) \/ Return(c) \/ Save(c)
  <2>1. items' = items
    BY <1>7 DEF Execute, Persist, Return, Save, Export, Open, Write, Replace, Tidy,
                SaveFails
  <2> QED BY <1>2, <2>1
<1> QED BY <1>2, <1>3, <1>4, <1>5, <1>6, <1>7 DEF StepOf

(* Nothing but Execute runs a handler.                                     *)
LEMMA ExecutedKept ==
  ASSUME NEW c \in Caller, StepOf(c), ~Execute(c)
  PROVE  executed' = executed
BY DEF StepOf, Save, Create, Cancel, Start, Conclude, Persist, Return, Export, Open,
       Write, Replace, Tidy, SaveFails, historyVars

LEMMA ProcessKept ==
  ASSUME NEW c \in Caller, StepOf(c)
  PROVE  up /\ up' /\ crashes' = crashes /\ serial' = serial
BY DEF StepOf, Save, Create, Cancel, Start, Execute, Conclude, Persist, Return,
       Export, Open, Write, Replace, Tidy, SaveFails, Goto, faultVars

(* Where the phase of a call goes.                                         *)
LEMMA PhaseSteps ==
  ASSUME TypeOK, CallInv, NEW c \in Caller, StepOf(c), Phase(c)' \notin {Phase(c), "idle"}
  PROVE  \/ \E t \in Task : Create(c, t) /\ Phase(c)' = "start" /\ task'[c] = t
         \/ \E t \in Task : /\ Cancel(c, t) /\ Phase(c)' = "return" /\ task'[c] = t
                            /\ items'[t] = "cancelled" /\ result'[c] = "none"
         \/ /\ Start(c) /\ Phase(c) = "start" /\ Phase(c)' = "execute"
            /\ task' = task /\ items'[task[c]] = "running"
         \/ Execute(c) /\ Phase(c) = "execute" /\ Phase(c)' = "conclude"
         \/ /\ Conclude(c) /\ Phase(c) = "conclude" /\ Phase(c)' = "return"
            /\ task' = task /\ items'[task[c]] = result[c] /\ result' = result
<1> USE DEF TypeOK, CallInv, Knows, Phase, Busy, Saving, Snapshot
<1>1. ASSUME NEW t \in Task, Create(c, t)
      PROVE  Phase(c)' = "start" /\ task'[c] = t
  BY <1>1 DEF Create, PersistThen
<1>2. ASSUME NEW t \in Task, Cancel(c, t)
      PROVE  /\ Phase(c)' = "return" /\ task'[c] = t
             /\ items'[t] = "cancelled" /\ result'[c] = "none"
  BY <1>2 DEF Cancel, PersistThen, Set
<1>3. CASE Start(c)
  BY <1>3 DEF Start, PersistThen, Set, End
<1>4. CASE Execute(c)
  BY <1>4 DEF Execute
<1>5. CASE Conclude(c)
  BY <1>5 DEF Conclude, PersistThen, Set, End
<1>6. CASE Persist(c) \/ Return(c)
  BY <1>6 DEF Persist, Return, PersistThen, End
<1>7. CASE Export(c) \/ Open(c) \/ Write(c)
  BY <1>7 DEF Export, Open, Write, Goto
<1>8. CASE Replace(c) \/ SaveFails(c)
  BY <1>8 DEF Replace, SaveFails, Goto
<1>9. CASE Tidy(c)
  BY <1>9 DEF Tidy, End
<1> QED
  BY <1>1, <1>2, <1>3, <1>4, <1>5, <1>6, <1>7, <1>8, <1>9 DEF StepOf, Save

(* A call that stays in its phase stays with its task.                     *)
LEMMA PhaseKeepsTask ==
  ASSUME TypeOK, CallInv, NEW c \in Caller, StepOf(c),
         Phase(c)' = Phase(c), Phase(c) # "idle"
  PROVE  task'[c] = task[c] /\ result'[c] = result[c] /\ ~Execute(c)
<1> USE DEF TypeOK, CallInv, Knows, Phase, Busy, Saving
<1>1. ASSUME NEW t \in Task, Create(c, t) \/ Cancel(c, t) PROVE FALSE
  BY <1>1 DEF Create, Cancel, PersistThen
<1>2. CASE Start(c) \/ Execute(c) \/ Conclude(c)
  BY <1>2 DEF Start, Execute, Conclude, PersistThen, End
<1>3. CASE Persist(c) \/ Return(c)
  BY <1>3 DEF Persist, Return, PersistThen, End
<1>4. CASE Export(c) \/ Open(c) \/ Write(c) \/ Replace(c) \/ SaveFails(c)
  BY <1>4 DEF Export, Open, Write, Replace, SaveFails, Goto, Execute
<1>5. CASE Tidy(c)
  BY <1>5 DEF Tidy, End, Execute
<1> QED BY <1>1, <1>2, <1>3, <1>4, <1>5 DEF StepOf, Save

LEMMA ItemsStay ==
  ASSUME TypeOK, CallInv, NEW c \in Caller, StepOf(c), NEW k \in Task
  PROVE  /\ items'[k] = "none" => items[k] = "none"
         /\ Rank[items[k]] >= 2 => Rank[items'[k]] >= 2
         /\ items[k] \in Terminal => items'[k] = items[k]
<1>1. TypeOK'
  BY TypeStep
<1>2. items[k] \in Status /\ items'[k] \in Status
  BY <1>1 DEF TypeOK, Snapshot
<1>3. Before(items[k], items'[k])
  BY ItemsAdvance DEF Precedes
<1> QED BY <1>2, <1>3, RankValues DEF Before, Status, Terminal

LEMMA StepKnows ==
  ASSUME TypeOK, CallInv, NEW c \in Caller, StepOf(c)
  PROVE  Knows(c)'
<1>1. TypeOK'
  BY TypeStep
<1>2. Knows(c) /\ crashes' = crashes
  BY ProcessKept DEF CallInv
<1>3. after'[c] \in {"idle", "start", "execute", "return"}
  BY <1>1, <1>2
  DEF StepOf, Save, Create, Cancel, Start, Execute, Conclude, Persist, Return, Export,
      Open, Write, Replace, Tidy, SaveFails, Goto, PersistThen, End, Knows, TypeOK
<1>4. CASE Phase(c)' = "idle"
  BY <1>3, <1>4 DEF Knows
<1>5. CASE Phase(c)' = Phase(c) /\ Phase(c) # "idle"
  <2>1. task'[c] = task[c] /\ result'[c] = result[c] /\ executed' = executed
    BY <1>5, PhaseKeepsTask, ExecutedKept
  <2>2. CASE Phase(c) \in {"start", "execute", "conclude", "return"}
    <3>1. task[c] \in Task
      BY <1>2, <2>2 DEF Knows
    <3>2. /\ items'[task[c]] = "none" => items[task[c]] = "none"
          /\ Rank[items[task[c]]] >= 2 => Rank[items'[task[c]]] >= 2
          /\ items[task[c]] \in Terminal => items'[task[c]] = items[task[c]]
      BY <3>1, ItemsStay
    <3>3. Outcome(c) \in Terminal /\ Outcome(c)' = Outcome(c)
      BY <2>1, OutcomeType DEF Outcome
    <3> QED BY <1>2, <1>3, <1>5, <2>1, <3>1, <3>2, <3>3 DEF Knows
  <2>3. CASE Phase(c) \notin {"start", "execute", "conclude", "return"}
    BY <1>3, <1>5, <2>3 DEF Knows
  <2> QED BY <2>2, <2>3
<1>6. CASE Phase(c)' \notin {Phase(c), "idle"}
  <2> USE <1>2, <1>3 DEF Knows, CallInv, OncePerLife
  <2>1. ASSUME NEW t \in Task, Create(c, t), Phase(c)' = "start", task'[c] = t
        PROVE  Knows(c)'
    BY <2>1 DEF Create, Set, TypeOK, historyVars, Snapshot
  <2>2. ASSUME NEW t \in Task, Phase(c)' = "return", task'[c] = t,
               items'[t] = "cancelled", result'[c] = "none"
        PROVE  Knows(c)'
    BY <2>2 DEF Outcome
  <2>3. ASSUME Start(c), Phase(c) = "start", Phase(c)' = "execute", task' = task,
               items'[task[c]] = "running"
        PROVE  Knows(c)'
    BY <2>3, RankValues DEF Start, historyVars
  <2>4. ASSUME Execute(c), Phase(c) = "execute", Phase(c)' = "conclude"
        PROVE  Knows(c)'
    BY <2>4 DEF Execute, TypeOK
  <2>5. ASSUME Conclude(c), Phase(c) = "conclude", Phase(c)' = "return", task' = task,
               items'[task[c]] = result[c], result' = result
        PROVE  Knows(c)'
    BY <2>5 DEF Outcome, TypeOK
  <2> QED BY <1>6, <2>1, <2>2, <2>3, <2>4, <2>5, PhaseSteps
<1> QED BY <1>4, <1>5, <1>6

LEMMA OthersKnow ==
  ASSUME TypeOK, CallInv, NEW c \in Caller, StepOf(c), NEW d \in Caller, d # c
  PROVE  Knows(d)'
<1>1. /\ pc'[d] = pc[d] /\ after'[d] = after[d]
      /\ task'[d] = task[d] /\ result'[d] = result[d]
  BY OthersStay
<1>2. Knows(d) /\ crashes' = crashes
  BY ProcessKept DEF CallInv
<1>3. Phase(d)' = Phase(d) /\ Outcome(d)' = Outcome(d)
  BY <1>1 DEF Phase, Outcome
<1>4. CASE Phase(d) \in {"start", "execute", "conclude", "return"}
  <2>1. task[d] \in Task
    BY <1>2, <1>4 DEF Knows
  <2>2. /\ items'[task[d]] = "none" => items[task[d]] = "none"
        /\ Rank[items[task[d]]] >= 2 => Rank[items'[task[d]]] >= 2
        /\ items[task[d]] \in Terminal => items'[task[d]] = items[task[d]]
    BY <2>1, ItemsStay
  <2>3. Phase(d) \in {"start", "execute"} => executed'[task[d]] = executed[task[d]]
    <3>1. CASE Execute(c)
      <4>1. Runs(c) /\ (Phase(d) \in {"start", "execute"} => Runs(d) /\ task[c] # task[d])
        BY <3>1 DEF Execute, Runs, Phase, Busy, Saving, CallInv, OneRunner
      <4> QED BY <2>1, <3>1, <4>1 DEF Execute, TypeOK
    <3>2. CASE ~Execute(c)
      BY <3>2, ExecutedKept
    <3> QED BY <3>1, <3>2
  <2>4. Outcome(d) \in Terminal
    BY OutcomeType
  <2> QED BY <1>1, <1>2, <1>3, <2>1, <2>2, <2>3, <2>4 DEF Knows
<1>5. CASE Phase(d) \notin {"start", "execute", "conclude", "return"}
  BY <1>1, <1>2, <1>3, <1>5 DEF Knows
<1> QED BY <1>4, <1>5

LEMMA StepOneRunner ==
  ASSUME TypeOK, CallInv, NEW c \in Caller, StepOf(c)
  PROVE  OneRunner'
<1>1. SUFFICES ASSUME NEW d \in Caller, d # c, Runs(c)', Runs(d)',
                      task'[c] = task'[d]
               PROVE  FALSE
  <2>1. SUFFICES ASSUME NEW a \in Caller, NEW b \in Caller,
                        Runs(a)', Runs(b)', task'[a] = task'[b], a # b
                 PROVE  FALSE
    BY DEF OneRunner
  <2>2. CASE a # c /\ b # c
    <3>1. /\ pc'[a] = pc[a] /\ after'[a] = after[a] /\ task'[a] = task[a]
          /\ pc'[b] = pc[b] /\ after'[b] = after[b] /\ task'[b] = task[b]
      BY <2>2, OthersStay
    <3> QED BY <2>1, <3>1 DEF Runs, Phase, CallInv, OneRunner
  <2> QED BY <1>1, <2>1, <2>2
<1>2. Runs(d) /\ task'[d] = task[d] /\ items[task[d]] # "none"
  <2>1. pc'[d] = pc[d] /\ after'[d] = after[d] /\ task'[d] = task[d]
    BY <1>1, OthersStay
  <2>2. Runs(d)
    BY <1>1, <2>1 DEF Runs, Phase
  <2> QED BY <2>1, <2>2 DEF CallInv, Knows, Runs
<1>3. CASE Runs(c) /\ task'[c] = task[c]
  BY <1>1, <1>2, <1>3 DEF CallInv, OneRunner
<1>4. ASSUME NEW t \in Task, Create(c, t), task'[c] = t PROVE FALSE
  BY <1>1, <1>2, <1>4 DEF Create
<1>5. CASE Phase(c)' = Phase(c)
  BY <1>1, <1>3, <1>5, PhaseKeepsTask DEF Runs
<1>6. CASE Phase(c)' # Phase(c)
  BY <1>1, <1>3, <1>4, <1>6, PhaseSteps DEF Runs, Execute
<1> QED BY <1>5, <1>6

LEMMA StepOncePerLife ==
  ASSUME TypeOK, CallInv, NEW c \in Caller, StepOf(c)
  PROVE  OncePerLife'
<1> SUFFICES ASSUME NEW k \in Task
             PROVE  /\ executed'[k] <= crashes' + 1
                    /\ items'[k] = "none" \/ ~up' => executed'[k] <= crashes'
  BY DEF OncePerLife
<1>1. up /\ up' /\ crashes' = crashes
  BY ProcessKept
<1>2. items'[k] = "none" => items[k] = "none"
  BY ItemsStay
<1>3. CASE Execute(c)
  <2>1. /\ task[c] \in Task /\ items[task[c]] # "none"
        /\ executed[task[c]] <= crashes
    BY <1>3 DEF Execute, CallInv, Knows, Phase, Busy, Saving
  <2>2. executed' = [executed EXCEPT ![task[c]] = @ + 1] /\ items' = items
    BY <1>3 DEF Execute
  <2>3. executed[task[c]] \in Nat /\ crashes \in Nat
    BY <2>1, CompletionStoreAssumption DEF TypeOK
  <2> QED BY <1>1, <2>1, <2>2, <2>3 DEF TypeOK, CallInv, OncePerLife
<1>4. CASE ~Execute(c)
  BY <1>1, <1>2, <1>4, ExecutedKept DEF CallInv, OncePerLife
<1> QED BY <1>3, <1>4

LEMMA CallStep ==
  ASSUME TypeOK, CallInv, NEW c \in Caller, StepOf(c)
  PROVE  CallInv'
<1>1. up'
  BY ProcessKept
<1>2. \A d \in Caller : Knows(d)'
  BY StepKnows, OthersKnow
<1> QED BY <1>1, <1>2, StepOneRunner, StepOncePerLife DEF CallInv

LEMMA CallInit == Init => CallInv
BY CompletionStoreAssumption
DEF Init, Idle, CallInv, Knows, OneRunner, OncePerLife, Runs, Phase, Busy, Saving

LEMMA CallCrash ==
  ASSUME TypeOK, CallInv, Crash PROVE CallInv'
<1>1. \A k \in Task : executed'[k] <= crashes' /\ executed'[k] <= crashes' + 1
  BY CompletionStoreAssumption DEF Crash, CallInv, OncePerLife, TypeOK, historyVars
<1>2. \A c \in Caller : pc'[c] = "idle" /\ after'[c] = "idle"
  BY DEF Crash
<1> QED
  BY <1>1, <1>2 DEF CallInv, Knows, OneRunner, OncePerLife, Runs, Phase, Busy, Saving

LEMMA CallRestart ==
  ASSUME TypeOK, CallInv, Restart PROVE CallInv'
<1>1. \A c \in Caller : pc'[c] = "idle" /\ after'[c] = after[c]
  BY DEF Restart, CallInv, callVars
<1>2. executed' = executed /\ crashes' = crashes /\ ~up
  BY DEF Restart, historyVars, faultVars
<1> QED
  BY <1>1, <1>2 DEF CallInv, Knows, OneRunner, OncePerLife, Runs, Phase, Busy, Saving

LEMMA CallStutter ==
  ASSUME TypeOK, CallInv, UNCHANGED vars PROVE TypeOK' /\ CallInv'
<1> USE DEF vars, fileVars, callVars, historyVars, faultVars
<1>1. TypeOK'
  BY DEF TypeOK
<1>2. CallInv'
  BY DEF CallInv, Knows, OneRunner, OncePerLife, Runs, Phase, Outcome
<1> QED BY <1>1, <1>2

LEMMA NextSplit ==
  ASSUME [Next]_vars
  PROVE  (\E c \in Caller : StepOf(c)) \/ Crash \/ Restart \/ UNCHANGED vars
BY DEF Next, StepOf

(* What the model says of its variables is true, and the calls are where   *)
(* the registry in memory says they are, in every interleaving.            *)
THEOREM CallsSafe == Spec => [](TypeOK /\ CallInv)
<1>1. Init => TypeOK /\ CallInv
  BY TypeInit, CallInit
<1>2. TypeOK /\ CallInv /\ [Next]_vars => TypeOK' /\ CallInv'
  BY NextSplit, TypeStep, CallStep, TypeCrash, CallCrash, TypeRestart, CallRestart,
     CallStutter
<1> QED BY <1>1, <1>2, PTL DEF Spec

-----------------------------------------------------------------------------
(* The files, with saves in turn.                                          *)

LEMMA SavedDisk ==
  /\ disk \in Snapshot => SavedState = disk
  /\ disk \notin Snapshot => SavedState = Nothing
  /\ disk' \in Snapshot => SavedState' = disk'
  /\ disk' \notin Snapshot => SavedState' = Nothing
BY DEF SavedState, Saved, Snapshot, Nothing

(* The thread at save has the temporary file for itself.                   *)
LEMMA Alone ==
  ASSUME SaveInv, NEW c \in Caller, Inside(c), NEW d \in Caller, d # c
  PROVE  /\ pc[d] \notin Saving
         /\ handle[d] = "closed"
BY DEF SaveInv, Inside, Carried, Saving

(* The disk only moves on, and only at the hands of os.replace.            *)
LEMMA DiskAdvances ==
  ASSUME TypeOK, CallInv, SaveInv, NEW c \in Caller, StepOf(c)
  PROVE  /\ Precedes(SavedState, SavedState')
         /\ AtomicPersistence'
         /\ ~Replace(c) => disk' = disk
<1>1. SavedState \in Snapshot
  BY SavedType
<1>2. CASE Replace(c)
  <2>1. pc[c] = "replace" /\ temp \in Snapshot /\ Precedes(SavedState, temp)
    BY <1>2 DEF Replace, Goto, SaveInv, Carried
  <2>2. temp # NoFile
    BY <2>1, CompletionStoreAssumption
  <2>3. disk' = temp
    BY <1>2, <2>2 DEF Replace
  <2> QED BY <1>2, <2>1, <2>3, SavedDisk DEF AtomicPersistence
<1>3. CASE ~Replace(c)
  <2>1. disk' = disk
    <3>1. CASE Write(c)
      BY <3>1 DEF Write, Goto, SaveInv, Carried
    <3>2. CASE ~Write(c)
      BY <1>3, <3>2
      DEF StepOf, Save, Create, Cancel, Start, Execute, Conclude, Persist, Return,
          Export, Open, Tidy, SaveFails, fileVars
    <3> QED BY <3>1, <3>2
  <2>2. SavedState' = SavedState
    BY <2>1 DEF SavedState, Saved
  <2> QED BY <1>1, <2>1, <2>2, PrecedesReflexive DEF SaveInv, AtomicPersistence
<1> QED BY <1>2, <1>3

LEMMA MemoryAhead ==
  ASSUME TypeOK, CallInv, SaveInv, NEW c \in Caller, StepOf(c)
  PROVE  Precedes(SavedState', items')
<1>1. items \in Snapshot /\ items' \in Snapshot /\ Precedes(items, items')
  BY TypeStep, ItemsAdvance DEF TypeOK
<1>2. CASE Replace(c)
  <2>1. temp \in Snapshot /\ Precedes(temp, items)
    BY <1>2 DEF Replace, Goto, SaveInv, Carried
  <2>2. temp # NoFile
    BY <2>1, CompletionStoreAssumption
  <2>3. disk' = temp /\ items' = items
    BY <1>2, <2>2 DEF Replace
  <2> QED BY <2>1, <2>3, SavedDisk
<1>3. CASE ~Replace(c)
  <2>1. SavedState' = SavedState /\ SavedState \in Snapshot
    BY <1>3, DiskAdvances, SavedType DEF SavedState, Saved
  <2>2. Precedes(SavedState, items)
    BY ProcessKept DEF SaveInv
  <2> QED BY <1>1, <2>1, <2>2, PrecedesTransitive
<1> QED BY <1>2, <1>3

LEMMA TurnsKept ==
  ASSUME TypeOK, CallInv, SaveInv, serial, NEW c \in Caller, StepOf(c),
         NEW d \in Caller, d # c
  PROVE  ~(Inside(c)' /\ Inside(d)')
<1>1. Inside(d)' = Inside(d)
  BY OthersStay DEF Inside
<1>2. CASE Inside(c)
  BY <1>1, <1>2 DEF SaveInv
<1>3. CASE Export(c)
  BY <1>1, <1>3 DEF Export
<1>4. CASE ~Inside(c) /\ ~Export(c)
  <2>1. pc'[c] \notin Saving
    BY <1>4
    DEF StepOf, Save, Create, Cancel, Start, Execute, Conclude, Persist, Return, Open,
        Write, Replace, Tidy, SaveFails, Goto, PersistThen, End, Inside, Saving, TypeOK
  <2> QED BY <2>1 DEF Inside
<1> QED BY <1>2, <1>3, <1>4

(* A thread that is not at save leaves the files and the handles alone.    *)
LEMMA FilesKept ==
  ASSUME NEW c \in Caller, StepOf(c), ~Inside(c)
  PROVE  temp' = temp /\ disk' = disk /\ handle' = handle
BY DEF StepOf, Save, Create, Cancel, Start, Execute, Conclude, Persist, Return, Export,
       Open, Write, Replace, Tidy, SaveFails, Goto, Inside, Saving, fileVars

LEMMA HandlesOfOthers ==
  ASSUME TypeOK, SaveInv, NEW c \in Caller, StepOf(c), NEW d \in Caller, d # c,
         handle[d] = "closed"
  PROVE  handle'[d] = "closed"
<1>1. CASE ~Inside(c)
  BY <1>1, FilesKept
<1>2. \A there \in {"disk", "unlinked"} : Moved(there)[d] = "closed"
  BY DEF Moved
<1>3. CASE Inside(c)
  BY <1>2, <1>3
  DEF StepOf, Save, Create, Cancel, Start, Execute, Conclude, Persist, Return, Export,
      Open, Write, Replace, Tidy, Unlink, SaveFails, Goto, PersistThen, Inside, Saving,
      TypeOK
<1> QED BY <1>1, <1>3

LEMMA OthersCarry ==
  ASSUME TypeOK, CallInv, SaveInv, serial, NEW c \in Caller, StepOf(c),
         NEW d \in Caller, d # c
  PROVE  Carried(d)'
<1>1. /\ pc'[d] = pc[d] /\ task'[d] = task[d] /\ snap'[d] = snap[d]
      /\ Phase(d)' = Phase(d) /\ Outcome(d)' = Outcome(d)
  BY OthersStay DEF Phase, Outcome
<1>2. Carried(d)
  BY DEF SaveInv
<1>3. /\ Phase(d) \in {"execute", "return"} => task[d] \in Task
      /\ Outcome(d) \in Terminal
  BY OutcomeType DEF CallInv, Knows
<1>4. /\ items \in Snapshot /\ items' \in Snapshot /\ snap[d] \in Snapshot
      /\ SavedState \in Snapshot /\ SavedState' \in Snapshot
  BY TypeStep, SavedType, SavedDisk, NothingType DEF TypeOK
<1>5. Precedes(items, items') /\ Precedes(SavedState, SavedState')
  BY ItemsAdvance, DiskAdvances
<1>6. /\ Covers(d, items) => Covers(d, items')
      /\ Covers(d, SavedState) => Covers(d, SavedState')
  BY <1>3, <1>4, <1>5, CoversLater
<1>7. CASE pc[d] \in Saving
  <2>1. ~Inside(c)
    BY <1>7 DEF SaveInv, Inside
  <2>2. /\ temp' = temp /\ handle' = handle /\ SavedState' = SavedState
    BY <2>1, FilesKept DEF SavedState, Saved
  <2>3. /\ Precedes(snap[d], items) => Precedes(snap[d], items')
        /\ temp \in Snapshot /\ Precedes(temp, items) => Precedes(temp, items')
    BY <1>4, <1>5, PrecedesTransitive
  <2> QED BY <1>1, <1>2, <1>7, <2>2, <2>3 DEF Carried, Covers, Saving
<1>8. CASE pc[d] \notin Saving
  <2>1. handle'[d] = "closed"
    BY <1>2, <1>8, HandlesOfOthers DEF Carried, Saving
  <2> QED BY <1>1, <1>2, <1>6, <1>8, <2>1 DEF Carried, Covers, Saving
<1> QED BY <1>7, <1>8

LEMMA StepCarries ==
  ASSUME TypeOK, CallInv, SaveInv, NEW c \in Caller, StepOf(c)
  PROVE  Carried(c)'
<1>1. Carried(c) /\ Knows(c)
  BY DEF SaveInv, CallInv
<1> USE <1>1 DEF TypeOK, Phase, Busy, Saving, Carried
<1>2. ASSUME NEW t \in Task, Create(c, t) PROVE Carried(c)'
  BY <1>2 DEF Create, PersistThen, fileVars, Covers
<1>3. ASSUME NEW t \in Task, Cancel(c, t) PROVE Carried(c)'
  BY <1>3 DEF Cancel, PersistThen, Set, Snapshot, fileVars, Covers, Outcome
<1>4. CASE Start(c)
  <2>1. CASE PersistThen(c, "start", "execute") /\ Set(task[c], "running")
                                                /\ UNCHANGED <<task, result>>
    <3>1. items'[task[c]] = "running"
      BY <2>1 DEF PersistThen, Set, Knows, Snapshot
    <3> QED BY <1>4, <2>1, <3>1, RankValues DEF Start, PersistThen, fileVars, Covers
  <2>2. CASE pc[c] = "start" /\ End(c)
    BY <1>4, <2>2 DEF Start, End, fileVars
  <2> QED BY <1>4, <2>1, <2>2 DEF Start
<1>5. CASE Execute(c)
  BY <1>5 DEF Execute, fileVars, Covers
<1>6. CASE Conclude(c)
  <2>1. CASE PersistThen(c, "conclude", "return") /\ Set(task[c], result[c])
                                                  /\ UNCHANGED <<task, result>>
    <3>1. items'[task[c]] = Outcome(c)'
      BY <2>1 DEF PersistThen, Set, Knows, Snapshot, Outcome
    <3> QED BY <1>6, <2>1, <3>1 DEF Conclude, PersistThen, fileVars, Covers
  <2>2. CASE pc[c] = "conclude" /\ End(c)
    BY <1>6, <2>2 DEF Conclude, End, fileVars
  <2> QED BY <1>6, <2>1, <2>2 DEF Conclude
<1>7. CASE Persist(c)
  BY <1>7 DEF Persist, PersistThen, fileVars, Covers
<1>8. CASE Return(c)
  BY <1>8 DEF Return, End, fileVars
<1>9. CASE Export(c)
  <2>1. Precedes(items, items) /\ Precedes(SavedState, items)
    BY <1>9, PrecedesReflexive DEF Export, Goto, SaveInv
  <2>2. SavedState' = SavedState
    BY <1>9 DEF Export, SavedState, Saved
  <2> QED BY <1>9, <2>1, <2>2 DEF Export, Goto, Covers, Outcome
<1>10. CASE Open(c)
  <2>1. SavedState' = SavedState
    BY <1>10 DEF Open, SavedState, Saved
  <2> QED BY <1>10, <2>1 DEF Open, Goto, Covers, Outcome
<1>11. CASE Write(c)
  <2>1. temp' = snap[c] /\ disk' = disk
    BY <1>11 DEF Write, Goto, Written
  <2>2. SavedState' = SavedState
    BY <2>1 DEF SavedState, Saved
  <2> QED BY <1>11, <2>1, <2>2 DEF Write, Goto, Covers, Outcome
<1>12. CASE Replace(c)
  <2>1. temp \in Snapshot /\ temp # NoFile /\ Covers(c, temp) /\ handle[c] = "closed"
    BY <1>12, CompletionStoreAssumption DEF Replace, Goto
  <2>2. disk' = temp /\ UNCHANGED after /\ handle'[c] = "closed"
    BY <1>12, <2>1 DEF Replace, Moved
  <2>3. SavedState' = temp
    BY <2>1, <2>2, SavedDisk
  <2> QED BY <1>12, <2>1, <2>2, <2>3 DEF Replace, Goto, Covers, Outcome
<1>13. CASE Tidy(c)
  <2>1. SavedState' = SavedState /\ handle'[c] = "closed"
    BY <1>13 DEF Tidy, Unlink, Moved, SavedState, Saved
  <2>2. CASE End(c)
    BY <1>13, <2>1, <2>2 DEF Tidy, End
  <2>3. CASE /\ pc' = [pc EXCEPT ![c] = after[c]]
             /\ after' = [after EXCEPT ![c] = "idle"]
             /\ UNCHANGED <<task, result>>
    BY <1>13, <2>1, <2>3 DEF Tidy, Knows, Covers, Outcome
  <2> QED BY <1>13, <2>2, <2>3 DEF Tidy
<1>14. CASE SaveFails(c)
  BY <1>14 DEF SaveFails, Goto, Covers
<1> QED
  BY <1>2, <1>3, <1>4, <1>5, <1>6, <1>7, <1>8, <1>9, <1>10, <1>11, <1>12, <1>13,
     <1>14
  DEF StepOf, Save

NotYetExecuted(c) == Phase(c) \in {"start", "execute"} => executed[task[c]] = 0

LEMMA StepNotYet ==
  ASSUME TypeOK, CallInv, SaveInv, NEW c \in Caller, StepOf(c)
  PROVE  NotYetExecuted(c)'
<1>1. CASE Phase(c)' = Phase(c)
  <2>1. CASE Phase(c) = "idle"
    BY <1>1, <2>1 DEF NotYetExecuted
  <2>2. CASE Phase(c) # "idle"
    BY <1>1, <2>2, PhaseKeepsTask, ExecutedKept DEF NotYetExecuted, SaveInv
  <2> QED BY <2>1, <2>2
<1>2. ASSUME NEW t \in Task, Create(c, t), task'[c] = t PROVE NotYetExecuted(c)'
  <2>1. Before(Saved(t), "none") /\ Saved(t) \in Status
    BY <1>2, SavedType DEF Create, SaveInv, Precedes, SavedState, Snapshot
  <2>2. executed[t] = 0
    BY <2>1, RankValues DEF Before, SaveInv, TypeOK
  <2> QED BY <1>2, <2>2 DEF Create, historyVars, NotYetExecuted
<1>3. ASSUME Start(c), Phase(c) = "start", task' = task PROVE NotYetExecuted(c)'
  BY <1>3 DEF Start, historyVars, NotYetExecuted, SaveInv
<1>4. CASE Phase(c)' \notin {Phase(c), "idle"}
  BY <1>2, <1>3, <1>4, PhaseSteps DEF NotYetExecuted
<1> QED BY <1>1, <1>4 DEF NotYetExecuted

LEMMA OthersNotYet ==
  ASSUME TypeOK, CallInv, SaveInv, NEW c \in Caller, StepOf(c), NEW d \in Caller, d # c
  PROVE  NotYetExecuted(d)'
<1>1. Phase(d)' = Phase(d) /\ task'[d] = task[d]
  BY OthersStay DEF Phase
<1>2. CASE Execute(c)
  <2>1. Runs(c) /\ (Phase(d) \in {"start", "execute"} => Runs(d) /\ task[c] # task[d])
    BY <1>2 DEF Execute, Runs, Phase, Busy, Saving, CallInv, OneRunner
  <2>2. Phase(d) \in {"start", "execute"} => task[d] \in Task
    BY DEF CallInv, Knows
  <2> QED BY <1>1, <1>2, <2>1, <2>2 DEF Execute, TypeOK, NotYetExecuted, SaveInv
<1>3. CASE ~Execute(c)
  BY <1>1, <1>3, ExecutedKept DEF NotYetExecuted, SaveInv
<1> QED BY <1>2, <1>3

Accounted(t) ==
  /\ executed[t] <= 1
  /\ executed[t] > 0 => Rank[Saved(t)] >= 2
  /\ acked[t] # "none" => Saved(t) = acked[t]

LEMMA StepAccounts ==
  ASSUME TypeOK, CallInv, SaveInv, NEW c \in Caller, StepOf(c), NEW t \in Task
  PROVE  Accounted(t)'
<1>1. Accounted(t) /\ Carried(c) /\ Knows(c) /\ executed[t] \in Nat
  BY DEF Accounted, SaveInv, CallInv, TypeOK
<1>2. /\ Saved(t) \in Status /\ Saved(t)' \in Status
      /\ Before(Saved(t), Saved(t)')
  BY SavedType, SavedDisk, NothingType, DiskAdvances
  DEF SavedState, Snapshot, Precedes
<1>3. CASE Execute(c)
  <2>1. /\ executed' = [executed EXCEPT ![task[c]] = @ + 1] /\ acked' = acked
        /\ Saved(t)' = Saved(t)
        /\ pc[c] = "execute" /\ Phase(c) = "execute" /\ task[c] \in Task
    BY <1>1, <1>3 DEF Execute, fileVars, Saved, Phase, Busy, Saving, Knows
  <2>2. executed[task[c]] = 0 /\ Covers(c, SavedState)
    BY <1>1, <2>1 DEF SaveInv, Carried
  <2>3. Rank[Saved(task[c])] >= 2
    BY <2>1, <2>2 DEF Covers, SavedState
  <2> QED BY <1>1, <2>1, <2>2, <2>3 DEF Accounted, TypeOK
<1>4. CASE Return(c)
  <2>1. /\ acked' = [acked EXCEPT ![task[c]] = Outcome(c)] /\ executed' = executed
        /\ Saved(t)' = Saved(t)
        /\ pc[c] = "return" /\ Phase(c) = "return" /\ task[c] \in Task
    BY <1>1, <1>4 DEF Return, Outcome, fileVars, Saved, Phase, Busy, Saving, Knows
  <2>2. Saved(task[c]) = Outcome(c)
    BY <1>1, <2>1 DEF Carried, Covers, SavedState
  <2> QED BY <1>1, <2>1, <2>2 DEF Accounted, TypeOK
<1>5. CASE ~Execute(c) /\ ~Return(c)
  <2>1. executed' = executed /\ acked' = acked
    BY <1>5, ExecutedKept
    DEF StepOf, Save, Create, Cancel, Start, Conclude, Persist, Export, Open, Write,
        Replace, Tidy, SaveFails, historyVars
  <2>2. acked[t] # "none" => acked[t] \in Terminal
    BY DEF TypeOK
  <2> QED BY <1>1, <1>2, <2>1, <2>2, RankValues DEF Accounted, Before
<1> QED BY <1>3, <1>4, <1>5

LEMMA SaveStep ==
  ASSUME TypeOK, CallInv, SaveInv, serial, NEW c \in Caller, StepOf(c)
  PROVE  SaveInv'
<1>1. AtomicPersistence' /\ Precedes(SavedState', items')
  BY DiskAdvances, MemoryAhead
<1>2. \A a, b \in Caller : Inside(a)' /\ Inside(b)' => a = b
  <2> SUFFICES ASSUME NEW a \in Caller, NEW b \in Caller, Inside(a)', Inside(b)', a # b
               PROVE  FALSE
    OBVIOUS
  <2>1. CASE a = c \/ b = c
    BY <2>1, TurnsKept
  <2>2. CASE a # c /\ b # c
    BY <2>2, OthersStay DEF Inside, SaveInv
  <2> QED BY <2>1, <2>2
<1>3. \A d \in Caller : Carried(d)'
  BY StepCarries, OthersCarry
<1>4. \A d \in Caller : NotYetExecuted(d)'
  BY StepNotYet, OthersNotYet
<1>5. \A t \in Task : Accounted(t)'
  BY StepAccounts
<1> QED
  BY <1>1, <1>2, <1>3, <1>4, <1>5 DEF SaveInv, NotYetExecuted, Accounted

LEMMA SaveInit == Init => SaveInv
<1> SUFFICES ASSUME Init PROVE SaveInv
  OBVIOUS
<1>1. disk \notin Snapshot
  BY CompletionStoreAssumption DEF Init
<1>2. SavedState = items /\ Nothing \in Snapshot
  BY <1>1, SavedDisk, NothingType DEF Init
<1>3. Precedes(SavedState, items)
  BY <1>2, PrecedesReflexive DEF Init
<1> QED
  BY <1>3 DEF Init, Idle, SaveInv, AtomicPersistence, Inside, Carried, Phase, Busy, Saving

LEMMA SaveCrash ==
  ASSUME SaveInv, Crash PROVE SaveInv'
<1>1. disk' = disk /\ executed' = executed /\ acked' = acked /\ ~up'
  BY DEF Crash, historyVars
<1>2. \A c \in Caller : pc'[c] = "idle" /\ after'[c] = "idle" /\ handle'[c] = "closed"
  BY DEF Crash
<1>3. \A t \in Task : Saved(t)' = Saved(t)
  BY <1>1 DEF Saved
<1> QED
  BY <1>1, <1>2, <1>3 DEF SaveInv, AtomicPersistence, Inside, Carried, Phase, Busy, Saving

(* What a restart loads is what was saved, or, for a task that was running *)
(* then, its failure.                                                      *)
LEMMA SaveRestart ==
  ASSUME TypeOK, CallInv, SaveInv, Restart PROVE SaveInv'
<1>1. /\ disk' = disk /\ temp' = temp /\ handle' = handle /\ snap' = snap
      /\ executed' = executed /\ acked' = acked /\ ~up
      /\ pc' = pc /\ after' = after
  BY DEF Restart, fileVars, historyVars, callVars
<1>2. \A c \in Caller : pc[c] = "idle" /\ handle[c] = "closed"
  BY <1>1 DEF CallInv, SaveInv, Carried
<1>3. SavedState' = SavedState /\ \A t \in Task : Saved(t)' = Saved(t)
  BY <1>1 DEF Saved, SavedState
<1>4. Precedes(SavedState, items')
  <2>1. CASE disk = NoFile /\ items' = Nothing
    <3>1. SavedState = Nothing
      BY <2>1, SavedDisk, CompletionStoreAssumption
    <3> QED BY <2>1, <3>1, NothingType, PrecedesReflexive
  <2>2. CASE disk \in Snapshot /\ items' = Restored(disk)
    <3> SUFFICES ASSUME NEW t \in Task PROVE Before(SavedState[t], items'[t])
      BY DEF Precedes
    <3>1. SavedState[t] = disk[t] /\ disk[t] \in Status
      BY <2>2, SavedDisk DEF Snapshot
    <3>2. items'[t] = IF disk[t] = "running" THEN "failed" ELSE disk[t]
      BY <2>2 DEF Restored
    <3> QED BY <3>1, <3>2, BeforeReflexive, BeforeSteps DEF Status, Terminal
  <2> QED BY <2>1, <2>2 DEF Restart
<1> QED
  BY <1>1, <1>2, <1>3, <1>4
  DEF SaveInv, AtomicPersistence, Inside, Carried, Phase, Busy, Saving

LEMMA SaveStutter ==
  ASSUME SaveInv, UNCHANGED vars PROVE SaveInv'
<1> USE DEF vars, fileVars, callVars, historyVars, faultVars
<1>1. SavedState' = SavedState /\ \A t \in Task : Saved(t)' = Saved(t)
  BY DEF SavedState, Saved
<1>2. \A c \in Caller : Phase(c)' = Phase(c) /\ Outcome(c)' = Outcome(c)
  BY DEF Phase, Outcome
<1>3. \A c \in Caller : Carried(c)'
  BY <1>1, <1>2 DEF SaveInv, Carried, Covers
<1> QED BY <1>1, <1>2, <1>3 DEF SaveInv, AtomicPersistence, Inside

(* With saves in turn, the snapshots move from the memory to the disk in   *)
(* the order they were taken, and no call acts before its own is there.    *)
LEMMA SavesSafe == Spec => [](serial => SaveInv)
<1>1. Init => (serial => SaveInv)
  BY SaveInit
<1>2. TypeOK /\ CallInv /\ (serial => SaveInv) /\ [Next]_vars => (serial => SaveInv)'
  <2> SUFFICES ASSUME TypeOK, CallInv, serial => SaveInv, [Next]_vars, serial'
               PROVE  SaveInv'
    OBVIOUS
  <2>1. CASE \E c \in Caller : StepOf(c)
    BY <2>1, ProcessKept, SaveStep
  <2>2. CASE Crash
    BY <2>2, SaveCrash DEF Crash
  <2>3. CASE Restart
    BY <2>3, SaveRestart DEF Restart, faultVars
  <2>4. CASE UNCHANGED vars
    BY <2>4, SaveStutter DEF vars, faultVars
  <2> QED BY <2>1, <2>2, <2>3, <2>4, NextSplit
<1> QED BY <1>1, <1>2, CallsSafe, PTL DEF Spec

-----------------------------------------------------------------------------
(* The properties of the runs, for any number of threads, tasks and        *)
(* crashes (completion_store.py:14-89, runtime.py:118-250).                *)

(* The variables have their types, and the file is whole at every moment.  *)
THEOREM FileIsSound == Spec => []FileSound
<1>1. TypeOK /\ (serial => SaveInv) => FileSound
  BY DEF FileSound, DiskWhole, SaveInv
<1> QED BY <1>1, CallsSafe, SavesSafe, PTL

(* A returned outcome is on the disk from then on.                         *)
THEOREM NothingAckedIsLost == Spec => []AckedDurable
<1>1. (serial => SaveInv) => AckedDurable
  BY DEF AckedDurable, SaveInv
<1> QED BY <1>1, SavesSafe, PTL

(* No handler is called twice for a task, across crashes and failed saves. *)
THEOREM ExecutedAtMostOnce == Spec => []AtMostOnce
<1>1. (serial => SaveInv) => AtMostOnce
  BY DEF AtMostOnce, SaveInv
<1> QED BY <1>1, SavesSafe, PTL
=============================================================================
