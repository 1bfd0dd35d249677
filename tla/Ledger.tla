-------------------------------- MODULE Ledger --------------------------------
(***************************************************************************)
(* The hash-chained append log of a node (persistence.py) with the threads *)
(* that use it: shell intake loops append, the web panel validates, and    *)
(* the process may die at any step and be started again.  No lock orders   *)
(* the threads: every interleaving of their steps is a behaviour.          *)
(*                                                                         *)
(* Covered: append_transaction, rotation with its anchor block, the        *)
(* checkpoint, validate_chain, recovery of the last hash on start, every   *)
(* write of last_hash.                                                     *)
(*                                                                         *)
(* Abstracted: the hash of a block is the number of the block, so that     *)
(* hashes neither collide nor fail to match their own block; sizes are     *)
(* numbers of blocks; payloads are left out except that of an anchor.  One *)
(* read or one write of a file is one step, so that no line is torn; a     *)
(* file that is missing and one that is empty are the same to every line   *)
(* of the code.  The external anchor file and the legacy synchronisation   *)
(* (blocks_from_height, apply_blocks) are not part of it: the node         *)
(* configures no anchor and keeps sync disabled.                           *)
(***************************************************************************)
EXTENDS Sequences, Integers, FiniteSets

CONSTANTS
  Writer,       \* shell intake loops
  Reader,       \* web panel requests: the server is single-threaded
  FileBlocks,   \* blocks that make a file reach max_bytes
  MaxBlocks,    \* bound: no append begins when this many blocks are written
  MaxCrashes    \* bound: crashes

ASSUME LedgerAssumption ==
  /\ FileBlocks \in Nat \ {0}
  /\ MaxBlocks \in Nat
  /\ MaxCrashes \in Nat
  /\ Writer \cap Reader = {}

VARIABLES
  backup,      \* the file <name>.1
  active,      \* the file <name>
  checkpoint,  \* the checkpoint file
  lastHash,    \* NexusPersistence.last_hash
  pc,          \* where each thread is
  prev,        \* the previous hash, or the hash so far, that a thread has read
  draft,       \* the checkpoint a writer is about to store
  minted,      \* blocks made so far: the hash of the next one is minted + 1
  crashes,     \* crashes so far
  acked,       \* hashes that append_transaction has returned
  report       \* what the last validation of each reader has found

(* History, read by the properties only: files changed and no checkpoint   *)
(* has been stored since; files changed under a validation; the events     *)
(* after which the chain may fork, see Fork.                               *)
VARIABLES unfinished, disturbed, forked

files == <<backup, active, checkpoint>>
history == <<unfinished, disturbed, forked>>
vars == <<files, lastHash, pc, prev, draft, minted, crashes, acked, report, history>>

Thread == Writer \cup Reader

(* Hashes: that of the first block's predecessor, none read so far, and    *)
(* the result of a validation that raised.                                 *)
Genesis == 0
Unknown == -1
Broken == -2

Block == [hash : Nat \ {Genesis}, prev : Nat, anchor : BOOLEAN]

Stored(height, tip) == [state |-> "stored", height |-> height, tip |-> tip]
NoCheckpoint == [state |-> "none", height |-> 0, tip |-> Genesis]
EmptyCheckpoint == [state |-> "empty", height |-> 0, tip |-> Genesis]
NoDraft == [height |-> 0, tip |-> Genesis]

(* What takes the chain off its course: a reader sets last_hash back       *)
(* ("stale"), two appends overlap ("overlap"), the process dies between    *)
(* the rename of the log and its anchor ("gap").                           *)
Fork == {"stale", "overlap", "gap"}

PC == {"idle", "remove", "rename", "anchor", "anchored", "prepare", "write",
       "publish", "measure", "truncate", "store",     \* append_transaction
       "active", "assign", "check"}                   \* validate_chain

TypeOK ==
  /\ backup \in Seq(Block)
  /\ active \in Seq(Block)
  /\ checkpoint \in [state : {"none", "empty", "stored"}, height : Nat, tip : Nat]
  /\ lastHash \in Nat
  /\ pc \in [Thread -> PC]
  /\ prev \in [Thread -> Nat \cup {Unknown, Broken}]
  /\ draft \in [Writer -> [height : Nat, tip : Nat]]
  /\ minted \in Nat
  /\ crashes \in 0 .. MaxCrashes
  /\ acked \subseteq Nat
  /\ report \in [Reader -> {"none", "valid", "invalid"}]
  /\ unfinished \in BOOLEAN
  /\ disturbed \in [Reader -> BOOLEAN]
  /\ forked \subseteq Fork

Init ==
  /\ backup = <<>>
  /\ active = <<>>
  /\ checkpoint = NoCheckpoint
  /\ lastHash = Genesis
  /\ pc = [t \in Thread |-> "idle"]
  /\ prev = [t \in Thread |-> Genesis]
  /\ draft = [w \in Writer |-> NoDraft]
  /\ minted = 0
  /\ crashes = 0
  /\ acked = {}
  /\ report = [r \in Reader |-> "none"]
  /\ unfinished = FALSE
  /\ disturbed = [r \in Reader |-> FALSE]
  /\ forked = {}

-----------------------------------------------------------------------------
(* The files.                                                              *)

(* Mutant: the file is opened for writing, not for appending.              *)
WriteOver(file, block) == <<block>>

WriteLine(file, block) == Append(file, block)

(* _validate_file_chain: the hash of the last block, or the one it was     *)
(* given when there is none, or an exception.                              *)
Validate(file, initial) ==
  LET Before(i) == IF i = 1 THEN initial ELSE file[i - 1].hash
      Linked(i) == IF Before(i) = Unknown
                     THEN file[i].anchor \/ file[i].prev = Genesis
                     ELSE file[i].prev = Before(i)
  IN
  IF initial = Broken \/ \E i \in DOMAIN file : ~Linked(i) THEN Broken
  ELSE IF file = <<>> THEN initial ELSE file[Len(file)].hash

Hashes(file) == {file[i].hash : i \in DOMAIN file}

(* _current_height: the blocks of both files that are not anchors.         *)
HeightOf(file) == Cardinality({i \in DOMAIN file : ~file[i].anchor})

CurrentHeight == HeightOf(backup) + HeightOf(active)

(* Mutant: the last hash is read back from the first line.                 *)
RecoverFirstHash(file) == IF file = <<>> THEN Genesis ELSE file[1].hash

(* _recover_last_hash: a missing or empty file starts the chain anew.      *)
RecoverLastHash(file) == IF file = <<>> THEN Genesis ELSE file[Len(file)].hash

(* The last block of the log on disk.                                      *)
Tip == LET log == backup \o active IN IF log = <<>> THEN Genesis ELSE log[Len(log)].hash

-----------------------------------------------------------------------------
Goto(t, here, there) ==
  /\ pc[t] = here
  /\ pc' = [pc EXCEPT ![t] = there]

(* append_transaction: the size decides whether the log is rotated first.  *)
Begin(w) ==
  /\ minted < MaxBlocks
  /\ Goto(w, "idle", IF Len(active) >= FileBlocks THEN "remove" ELSE "prepare")
  /\ forked' = IF \E v \in Writer : pc[v] # "idle"
                 THEN forked \cup {"overlap"} ELSE forked
  /\ UNCHANGED <<files, lastHash, prev, draft, minted, crashes, acked, report, unfinished>>

(* _rotate_logs: the previous backup goes, ...                             *)
Remove(w) ==
  /\ Goto(w, "remove", "rename")
  /\ backup' = <<>>
  /\ unfinished' = TRUE
  /\ UNCHANGED <<active, checkpoint, lastHash, prev, draft, minted, crashes, acked,
                 report, forked>>

(* ... the file takes its place, ...                                       *)
Rename(w) ==
  /\ Goto(w, "rename", "anchor")
  /\ backup' = IF active # <<>> THEN active ELSE backup
  /\ active' = <<>>
  /\ UNCHANGED <<checkpoint, lastHash, prev, draft, minted, crashes, acked, report,
                 unfinished, forked>>

(* ... and a new one is written with an anchor that is linked to the last  *)
(* hash (read twice, for the block and for its hash, taken together).      *)
Anchor(w) ==
  /\ Goto(w, "anchor", "anchored")
  /\ minted' = minted + 1
  /\ prev' = [prev EXCEPT ![w] = minted + 1]
  /\ active' = <<[hash |-> minted + 1, prev |-> lastHash, anchor |-> TRUE]>>
  /\ UNCHANGED <<backup, checkpoint, lastHash, draft, crashes, acked, report,
                 unfinished, forked>>

Anchored(w) ==
  /\ Goto(w, "anchored", "prepare")
  /\ lastHash' = prev[w]
  /\ UNCHANGED <<files, prev, draft, minted, crashes, acked, report, unfinished, forked>>

Prepare(w) ==
  /\ Goto(w, "prepare", "write")
  /\ prev' = [prev EXCEPT ![w] = lastHash]
  /\ UNCHANGED <<files, lastHash, draft, minted, crashes, acked, report, unfinished, forked>>

Write(w) ==
  /\ Goto(w, "write", "publish")
  /\ minted' = minted + 1
  /\ active' = WriteLine(active,
                 [hash |-> minted + 1, prev |-> prev[w], anchor |-> FALSE])
  /\ prev' = [prev EXCEPT ![w] = minted + 1]
  /\ unfinished' = TRUE
  /\ UNCHANGED <<backup, checkpoint, lastHash, draft, crashes, acked, report, forked>>

Publish(w) ==
  /\ Goto(w, "publish", "measure")
  /\ lastHash' = prev[w]
  /\ UNCHANGED <<files, prev, draft, minted, crashes, acked, report, unfinished, forked>>

(* Mutant: the height of the active file only.                             *)
MeasureActive(w) ==
  /\ Goto(w, "measure", "truncate")
  /\ draft' = [draft EXCEPT ![w] = [height |-> HeightOf(active), tip |-> lastHash]]
  /\ UNCHANGED <<files, lastHash, prev, minted, crashes, acked, report, unfinished, forked>>

(* _write_checkpoint: the height is counted and the last hash read again,  *)
(* the checkpoint file is truncated by opening it, then written.           *)
Measure(w) ==
  /\ Goto(w, "measure", "truncate")
  /\ draft' = [draft EXCEPT ![w] = [height |-> CurrentHeight, tip |-> lastHash]]
  /\ UNCHANGED <<files, lastHash, prev, minted, crashes, acked, report, unfinished, forked>>

Truncate(w) ==
  /\ Goto(w, "truncate", "store")
  /\ checkpoint' = EmptyCheckpoint
  /\ UNCHANGED <<backup, active, lastHash, prev, draft, minted, crashes, acked, report,
                 unfinished, forked>>

Store(w) ==
  /\ Goto(w, "store", "idle")
  /\ checkpoint' = Stored(draft[w].height, draft[w].tip)
  /\ acked' = acked \cup {prev[w]}
  /\ prev' = [prev EXCEPT ![w] = Genesis]
  /\ draft' = [draft EXCEPT ![w] = NoDraft]
  /\ unfinished' = FALSE
  /\ UNCHANGED <<backup, active, lastHash, minted, crashes, report, forked>>

AppendStep(w) ==
  /\ \/ Begin(w) \/ Remove(w) \/ Rename(w) \/ Anchor(w) \/ Anchored(w)
     \/ Prepare(w) \/ Write(w) \/ Publish(w) \/ Measure(w) \/ Truncate(w) \/ Store(w)
  /\ disturbed' = [r \in Reader |-> disturbed[r] \/ files' # files]

-----------------------------------------------------------------------------
(* validate_chain, behind /health, /status, /metrics and /readiness.       *)

(* A file that does not validate raises, and nothing else happens.         *)
ReadFile(r, here, there, hash) ==
  /\ Goto(r, here, IF hash = Broken THEN "idle" ELSE there)
  /\ prev' = [prev EXCEPT ![r] = hash]
  /\ report' = [report EXCEPT ![r] = IF hash = Broken THEN "invalid" ELSE "none"]
  /\ UNCHANGED <<files, lastHash, draft, minted, crashes, acked, unfinished, forked>>

ReadBackup(r) ==
  /\ ReadFile(r, "idle", "active", Validate(backup, Unknown))
  /\ disturbed' = [disturbed EXCEPT ![r] = FALSE]

ReadActive(r) ==
  /\ ReadFile(r, "active", "assign", Validate(active, prev[r]))
  /\ UNCHANGED disturbed

(* self.last_hash = final_hash or "0" * 64: the reader writes it, too.     *)
Assign(r) ==
  LET final == IF prev[r] = Unknown THEN Genesis ELSE prev[r] IN
  /\ Goto(r, "assign", "check")
  /\ lastHash' = final
  /\ forked' = IF final \in {lastHash, Tip} THEN forked ELSE forked \cup {"stale"}
  /\ UNCHANGED <<files, prev, draft, minted, crashes, acked, report, unfinished, disturbed>>

(* _validate_checkpoint: no checkpoint is fine, an unreadable one is not.  *)
Check(r) ==
  LET valid == checkpoint \in {NoCheckpoint, Stored(CurrentHeight, lastHash)} IN
  /\ Goto(r, "check", "idle")
  /\ report' = [report EXCEPT ![r] = IF valid THEN "valid" ELSE "invalid"]
  /\ UNCHANGED <<files, lastHash, prev, draft, minted, crashes, acked, history>>

ValidateStep(r) == ReadBackup(r) \/ ReadActive(r) \/ Assign(r) \/ Check(r)

-----------------------------------------------------------------------------
(* The process dies with all its threads, wherever they are, and is        *)
(* started again.                                                          *)
Crash ==
  /\ crashes < MaxCrashes
  /\ crashes' = crashes + 1
  /\ lastHash' = RecoverLastHash(active)
  /\ pc' = [t \in Thread |-> "idle"]
  /\ forked' = IF \E w \in Writer : pc[w] = "anchor" THEN forked \cup {"gap"} ELSE forked
  /\ prev' = [t \in Thread |-> Genesis]
  /\ draft' = [w \in Writer |-> NoDraft]
  /\ UNCHANGED <<files, minted, acked, report, unfinished, disturbed>>

Next ==
  \/ \E w \in Writer : AppendStep(w)
  \/ \E r \in Reader : ValidateStep(r)
  \/ Crash

Spec == Init /\ [][Next]_vars

-----------------------------------------------------------------------------
(* Properties *)

(* The log is a hash chain, from the backup through the anchor to the last *)
(* block, also in the middle of a rotation ("Hash-chained append log",     *)
(* README.md:143).  It is not: a web request that has read the files       *)
(* before an append sets last_hash back after it (persistence.py:294), and *)
(* the next block is linked to the block before the last one.              *)
ChainLinked == Validate(active, Validate(backup, Unknown)) # Broken

(* When no append is under way or was cut off by a crash, the checkpoint   *)
(* states the height and the tip of the log, and last_hash is that tip,    *)
(* whatever rotations, validations and restarts there were.                *)
CheckpointExact ==
  ((\A w \in Writer : pc[w] = "idle") /\ ~unfinished) =>
     /\ checkpoint = IF acked = {} THEN NoCheckpoint ELSE Stored(CurrentHeight, Tip)
     /\ lastHash = Tip

(* The checkpoint is never ahead of the log: the log on disk has a block   *)
(* at least as new as the one it names, so a crash, even one that comes    *)
(* between the append and its checkpoint, leaves it exact or stale.        *)
CheckpointBehind ==
  checkpoint.state = "stored" =>
    \E h \in Hashes(backup) \cup Hashes(active) : checkpoint.tip <= h

(* The three events are the only ones that can fork the chain or mislead   *)
(* the checkpoint: with appends, validations, rotations and crashes        *)
(* interleaved at every step, the log stays one chain and the checkpoint   *)
(* exact until one of them has happened; and only overlapping appends can  *)
(* put the checkpoint ahead of the log (persistence.py:52-246).            *)
LogSound ==
  /\ TypeOK
  /\ forked = {} => ChainLinked /\ CheckpointExact
  /\ "overlap" \notin forked => CheckpointBehind

(* No append, validation, restart or crash takes an acknowledged block     *)
(* away: only the rotation that removes its file forgets it, unless two    *)
(* appends have overlapped (persistence.py:33-57).                         *)
AckedSurvives ==
  [][\A h \in acked :
       h \in Hashes(backup) \cup Hashes(active) =>
         \/ h \in Hashes(backup)' \cup Hashes(active)'
         \/ \E w \in Writer : pc[w] = "remove" /\ pc'[w] = "rename"
         \/ "overlap" \in forked]_vars

(* The web panel raises no false alarm: a validation under which no file   *)
(* changed, of a log that nobody tampered with, finds it valid, also one   *)
(* that runs while an append has not yet reached the files or after others *)
(* that appends disturbed; but for an append that was cut off by a crash   *)
(* or has not stored its checkpoint, and for a forked chain                *)
(* (persistence.py:248-297).                                               *)
NoFalseAlarm ==
  [][\A r \in Reader :
       (report'[r] = "invalid" /\ <<pc[r], report[r]>> # <<pc'[r], report'[r]>>) =>
          unfinished \/ disturbed'[r] \/ forked # {}]_vars
=============================================================================
