------------------------------ MODULE LedgerProofs ------------------------------
(***************************************************************************)
(* Proofs about Ledger for any number of writers and readers, any size of  *)
(* a file, any number of blocks and crashes, and every interleaving of the *)
(* threads: nothing is assumed beyond what Ledger says of its constants.   *)
(***************************************************************************)
EXTENDS Ledger, FiniteSetTheorems, SequenceTheorems, TLAPS

WriterPC == PC \ {"active", "assign", "check"}
ReaderPC == {"idle", "active", "assign", "check"}

(* Each thread is in its own procedure, and a reader whose files have not  *)
(* changed has seen the backup that is there.                              *)
Threads ==
  /\ \A w \in Writer : pc[w] \in WriterPC /\ prev[w] \in Nat
  /\ \A r \in Reader :
       /\ pc[r] \in ReaderPC
       /\ pc[r] # "idle" => report[r] = "none"
       /\ pc[r] = "assign" => prev[r] # Broken
       /\ pc[r] = "active" /\ ~disturbed[r] => prev[r] = Validate(backup, Unknown)

(* The hash of the last block of a file is the newest one.                 *)
EndsIn(file, hash) == file # <<>> /\ file[Len(file)].hash = hash

(* While appends do not overlap, the last block of the log is the newest,  *)
(* and every hash that memory and checkpoint hold is one that was made.    *)
InTurn ==
  /\ \A v, w \in Writer : pc[v] # "idle" /\ pc[w] # "idle" => v = w
  /\ active # <<>> => EndsIn(active, minted)
  /\ active = <<>> /\ minted # 0 => EndsIn(backup, minted)
  /\ active = <<>> /\ minted = 0 => backup = <<>>
  /\ backup # <<>> => backup[Len(backup)].hash <= minted
  /\ lastHash <= minted
  /\ checkpoint.tip <= minted
  /\ checkpoint.state = "stored" => minted # 0
  /\ \A t \in Thread : prev[t] <= minted
  /\ \A w \in Writer :
       /\ draft[w].tip <= minted
       /\ pc[w] \in {"remove", "rename"} => active # <<>>
       /\ pc[w] = "rename" => backup = <<>>
       /\ pc[w] = "anchor" => active = <<>> /\ backup # <<>>
       /\ pc[w] \in {"publish", "measure", "truncate", "store"} => minted # 0

(* The blocks of a file are linked, and the first may begin a log that has *)
(* lost what came before.                                                  *)
Chained(file) ==
  /\ \A i \in DOMAIN file : i > 1 => file[i].prev = file[i - 1].hash
  /\ file # <<>> => file[1].anchor \/ file[1].prev = Genesis

(* What holds until the chain is forked.                                   *)
OnCourse ==
  /\ Chained(backup)
  /\ Chained(active)
  /\ backup # <<>> /\ active # <<>> => EndsIn(backup, active[1].prev)
  /\ active = <<>> /\ backup # <<>> => \E w \in Writer : pc[w] = "anchor"
  /\ (\A w \in Writer : pc[w] \notin {"publish", "anchored"}) => lastHash = minted
  /\ \A w \in Writer :
       /\ pc[w] \in {"publish", "anchored", "write"} => prev[w] = minted
       /\ pc[w] \in {"truncate", "store"} =>
            draft[w] = [height |-> CurrentHeight, tip |-> minted]
  /\ ~unfinished =>
       /\ \A w \in Writer : pc[w] \in {"idle", "remove", "prepare", "write"}
       /\ checkpoint = IF acked = {} THEN NoCheckpoint ELSE Stored(CurrentHeight, minted)

LedgerInv ==
  /\ TypeOK
  /\ Threads
  /\ "overlap" \notin forked => InTurn
  /\ forked = {} => OnCourse

-----------------------------------------------------------------------------
(* The files.                                                              *)

LEMMA BlockFacts ==
  \A b \in Block : /\ b.hash \in Nat /\ b.hash # 0 /\ b.prev \in Nat
                   /\ b.anchor \in BOOLEAN
BY DEF Block, Genesis

LEMMA FileFacts ==
  ASSUME NEW file \in Seq(Block)
  PROVE  /\ Len(file) \in Nat /\ DOMAIN file = 1 .. Len(file)
         /\ \A i \in DOMAIN file : file[i] \in Block
         /\ file # <<>> <=> Len(file) > 0
OBVIOUS

LEMMA HeightType ==
  ASSUME NEW file \in Seq(Block) PROVE HeightOf(file) \in Nat
<1>1. IsFiniteSet(1 .. Len(file))
  BY FileFacts, FS_Interval
<1>2. IsFiniteSet({i \in DOMAIN file : ~file[i].anchor})
  BY <1>1, FileFacts, FS_Subset
<1> QED BY <1>2, FS_CardinalityType DEF HeightOf

LEMMA ValidateType ==
  ASSUME NEW file \in Seq(Block), NEW initial \in Nat \cup {Unknown, Broken}
  PROVE  Validate(file, initial) \in Nat \cup {Unknown, Broken}
<1>1. CASE file = <<>>
  BY <1>1 DEF Validate
<1>2. CASE file # <<>>
  <2>1. Len(file) \in DOMAIN file /\ file[Len(file)].hash \in Nat
    BY <1>2, FileFacts, BlockFacts
  <2> QED BY <2>1, <1>2 DEF Validate
<1> QED BY <1>1, <1>2

(* A chained file that continues what was read before it validates.        *)
LEMMA ValidateChained ==
  ASSUME NEW file \in Seq(Block), Chained(file), NEW initial \in Nat \cup {Unknown},
         file # <<>> /\ initial # Unknown => file[1].prev = initial
  PROVE  Validate(file, initial) =
           IF file = <<>> THEN initial ELSE file[Len(file)].hash
<1> DEFINE Last(i) == IF i = 1 THEN initial ELSE file[i - 1].hash
           Fits(i) == IF Last(i) = Unknown
                        THEN file[i].anchor \/ file[i].prev = Genesis
                        ELSE file[i].prev = Last(i)
<1>1. ASSUME NEW i \in DOMAIN file PROVE Fits(i)
  <2>1. CASE i = 1
    BY <2>1, <1>1, FileFacts DEF Chained
  <2>2. CASE i # 1
    <3>1. i > 1 /\ i - 1 \in DOMAIN file
      BY <2>2, <1>1, FileFacts
    <3>2. file[i - 1].hash \in Nat
      BY <3>1, FileFacts, BlockFacts
    <3> QED BY <3>1, <3>2, <2>2, <1>1 DEF Chained, Unknown
  <2> QED BY <2>1, <2>2
<1>2. initial # Broken
  BY DEF Broken, Unknown
<1> QED BY <1>1, <1>2 DEF Validate

LEMMA TipIs ==
  ASSUME TypeOK, InTurn PROVE Tip = minted
<1> DEFINE log == backup \o active
<1>1. backup \in Seq(Block) /\ active \in Seq(Block) /\ minted \in Nat
  BY DEF TypeOK
<1>2. CASE active # <<>>
  <2>1. Len(log) = Len(backup) + Len(active) /\ Len(active) > 0 /\ log # <<>>
    BY <1>1, <1>2, FileFacts
  <2>2. log[Len(log)] = active[Len(active)]
    BY <2>1, <1>1
  <2> QED BY <2>1, <2>2, <1>2 DEF Tip, InTurn, EndsIn
<1>3. CASE active = <<>>
  <2>1. log = backup
    BY <1>1, <1>3
  <2> QED BY <2>1, <1>1, <1>3 DEF Tip, InTurn, EndsIn, Genesis
<1> QED BY <1>2, <1>3

(* The newest hash is in the log.                                          *)
LEMMA NewestIsThere ==
  ASSUME TypeOK, InTurn, minted # 0
  PROVE  minted \in Hashes(backup) \cup Hashes(active)
<1>1. backup \in Seq(Block) /\ active \in Seq(Block)
  BY DEF TypeOK
<1>2. CASE active # <<>>
  BY <1>1, <1>2, FileFacts DEF InTurn, EndsIn, Hashes
<1>3. CASE active = <<>>
  BY <1>1, <1>3, FileFacts DEF InTurn, EndsIn, Hashes
<1> QED BY <1>2, <1>3

LEMMA NewBlock ==
  ASSUME minted \in Nat, NEW p \in Nat, NEW a \in BOOLEAN
  PROVE  [hash |-> minted + 1, prev |-> p, anchor |-> a] \in Block
BY DEF Block, Genesis

(* What the log is after a block is written to a file.                     *)
LEMMA Written ==
  ASSUME NEW file \in Seq(Block), NEW b \in Block
  PROVE  /\ WriteLine(file, b) \in Seq(Block)
         /\ EndsIn(WriteLine(file, b), b.hash)
         /\ WriteLine(file, b) # <<>>
         /\ Hashes(file) \subseteq Hashes(WriteLine(file, b))
         /\ WriteLine(file, b)[1] = IF file = <<>> THEN b ELSE file[1]
         /\ (Chained(file) /\ IF file = <<>> THEN b.anchor \/ b.prev = Genesis
                                             ELSE EndsIn(file, b.prev))
              => Chained(WriteLine(file, b))
<1> DEFINE new == Append(file, b)
<1>1. /\ new \in Seq(Block) /\ Len(new) = Len(file) + 1 /\ new # <<>>
      /\ new[Len(new)] = b /\ \A i \in DOMAIN file : new[i] = file[i]
      /\ DOMAIN new = 1 .. Len(file) + 1 /\ DOMAIN file = 1 .. Len(file)
      /\ Len(file) \in Nat /\ (file = <<>> <=> Len(file) = 0)
  BY FileFacts
<1>2. Hashes(file) \subseteq Hashes(new)
  BY <1>1 DEF Hashes
<1>3. new[1] = IF file = <<>> THEN b ELSE file[1]
  BY <1>1
<1>4. ASSUME Chained(file),
             IF file = <<>> THEN b.anchor \/ b.prev = Genesis ELSE EndsIn(file, b.prev)
      PROVE  Chained(new)
  <2>1. ASSUME NEW i \in DOMAIN new, i > 1 PROVE new[i].prev = new[i - 1].hash
    <3>1. CASE i \in DOMAIN file
      <4>1. i - 1 \in DOMAIN file
        BY <3>1, <2>1, <1>1
      <4> QED BY <4>1, <3>1, <2>1, <1>1, <1>4 DEF Chained
    <3>2. CASE i \notin DOMAIN file
      <4>1. i = Len(new) /\ i - 1 = Len(file) /\ file # <<>> /\ i - 1 \in DOMAIN file
        BY <3>2, <2>1, <1>1
      <4> QED BY <4>1, <1>1, <1>4 DEF EndsIn
    <3> QED BY <3>1, <3>2
  <2>2. new[1].anchor \/ new[1].prev = Genesis
    BY <1>3, <1>4 DEF Chained
  <2> QED BY <2>1, <2>2 DEF Chained
<1> QED BY <1>1, <1>2, <1>3, <1>4 DEF WriteLine, EndsIn

LEMMA OneBlock ==
  ASSUME NEW b \in Block
  PROVE  /\ <<b>> \in Seq(Block) /\ <<b>> # <<>> /\ EndsIn(<<b>>, b.hash)
         /\ <<b>>[1] = b /\ (b.anchor => Chained(<<b>>))
BY DEF EndsIn, Chained

-----------------------------------------------------------------------------
(* Types and threads.                                                      *)

-----------------------------------------------------------------------------
(* Types and threads.                                                      *)

LEMMA AppendTypes ==
  ASSUME TypeOK, Threads, NEW w \in Writer, AppendStep(w)
  PROVE  TypeOK' /\ Threads'
<1>0. /\ w \in Thread /\ w \notin Reader /\ Writer \subseteq Thread /\ Reader \subseteq Thread
      /\ backup \in Seq(Block) /\ active \in Seq(Block) /\ minted \in Nat /\ lastHash \in Nat
      /\ pc \in [Thread -> PC] /\ prev \in [Thread -> Nat \cup {Unknown, Broken}]
      /\ draft \in [Writer -> [height : Nat, tip : Nat]] /\ prev[w] \in Nat
      /\ acked \subseteq Nat /\ forked \subseteq Fork
  BY LedgerAssumption DEF TypeOK, Threads, Thread
<1>1. PICK next \in WriterPC : pc' = [pc EXCEPT ![w] = next]
  <2> USE DEF Goto, WriterPC, PC
  <2>1. Begin(w) \/ Remove(w) \/ Rename(w) \/ Anchor(w) =>
          \E next \in WriterPC : pc' = [pc EXCEPT ![w] = next]
    BY <1>0 DEF Begin, Remove, Rename, Anchor
  <2>2. Anchored(w) \/ Prepare(w) \/ Write(w) \/ Publish(w) =>
          \E next \in WriterPC : pc' = [pc EXCEPT ![w] = next]
    BY <1>0 DEF Anchored, Prepare, Write, Publish
  <2>3. Measure(w) \/ Truncate(w) \/ Store(w) =>
          \E next \in WriterPC : pc' = [pc EXCEPT ![w] = next]
    BY <1>0 DEF Measure, Truncate, Store
  <2> QED BY <2>1, <2>2, <2>3 DEF AppendStep
<1>2. PICK hash \in Nat : prev' = [prev EXCEPT ![w] = hash]
  <2>1. prev' = prev => prev' = [prev EXCEPT ![w] = prev[w]]
    BY <1>0
  <2>2. \/ prev' = prev \/ prev' = [prev EXCEPT ![w] = minted + 1]
        \/ prev' = [prev EXCEPT ![w] = lastHash] \/ prev' = [prev EXCEPT ![w] = Genesis]
    BY DEF AppendStep, Begin, Remove, Rename, Anchor, Anchored, Prepare, Write, Publish,
           Measure, Truncate, Store
  <2> QED BY <2>1, <2>2, <1>0 DEF Genesis
<1>3. active' \in Seq(Block) /\ backup' \in Seq(Block)
  <2>1. CASE Anchor(w)
    <3>1. [hash |-> minted + 1, prev |-> lastHash, anchor |-> TRUE] \in Block
      BY <1>0, NewBlock
    <3> QED BY <3>1, <2>1, <1>0, OneBlock DEF Anchor
  <2>2. CASE Write(w)
    <3>1. [hash |-> minted + 1, prev |-> prev[w], anchor |-> FALSE] \in Block
      BY <1>0, NewBlock
    <3> QED BY <3>1, <2>2, <1>0, Written DEF Write
  <2>3. CASE ~Anchor(w) /\ ~Write(w)
    <3>1. active' \in {active, <<>>} /\ backup' \in {backup, active, <<>>}
      BY <2>3 DEF AppendStep, Begin, Remove, Rename, Anchored, Prepare,
         Publish, Measure, Truncate, Store, files
    <3>2. <<>> \in Seq(Block)
      OBVIOUS
    <3>3. active \in Seq(Block) /\ backup \in Seq(Block)
      BY <1>0
    <3> QED BY <3>1, <3>2, <3>3
  <2> QED BY <2>1, <2>2, <2>3
<1>4. draft' \in [Writer -> [height : Nat, tip : Nat]]
  <2>1. CASE Measure(w)
    <3>1. CurrentHeight \in Nat
      BY <1>0, HeightType DEF CurrentHeight
    <3> QED BY <3>1, <2>1, <1>0 DEF Measure
  <2>2. CASE Store(w)
    BY <2>2, <1>0 DEF Store, NoDraft, Genesis
  <2>3. CASE ~Measure(w) /\ ~Store(w)
    BY <2>3, <1>0 DEF AppendStep, Begin, Remove, Rename, Anchor, Anchored, Prepare,
       Write, Publish, Truncate
  <2> QED BY <2>1, <2>2, <2>3
<1>5. checkpoint' \in [state : {"none", "empty", "stored"}, height : Nat, tip : Nat]
  <2>1. CASE Store(w)
    <3>1. draft[w].height \in Nat /\ draft[w].tip \in Nat
      BY <1>0
    <3> QED BY <3>1, <2>1 DEF Store, Stored
  <2>2. CASE Truncate(w)
    BY <2>2 DEF Truncate, EmptyCheckpoint, Genesis
  <2>3. CASE ~Store(w) /\ ~Truncate(w)
    BY <2>3 DEF AppendStep, Begin, Remove, Rename, Anchor, Anchored, Prepare, Write,
       Publish, Measure, TypeOK, files
  <2> QED BY <2>1, <2>2, <2>3
<1>6. /\ unfinished' \in BOOLEAN /\ forked' \subseteq Fork
      /\ minted' \in Nat /\ lastHash' \in Nat /\ acked' \subseteq Nat
      /\ report' = report /\ crashes' = crashes
  <2>1. unfinished' \in {unfinished, TRUE, FALSE} /\ forked' \in {forked, forked \cup {"overlap"}}
    BY DEF AppendStep, Begin, Remove, Rename, Anchor, Anchored, Prepare, Write, Publish,
           Measure, Truncate, Store
  <2>2. /\ minted' \in {minted, minted + 1} /\ lastHash' \in {lastHash, prev[w]}
        /\ acked' \in {acked, acked \cup {prev[w]}}
    BY DEF AppendStep, Begin, Remove, Rename, Anchor, Anchored, Prepare, Write, Publish,
           Measure, Truncate, Store
  <2>3. report' = report /\ crashes' = crashes
    BY DEF AppendStep, Begin, Remove, Rename, Anchor, Anchored, Prepare, Write, Publish,
           Measure, Truncate, Store
  <2>4. unfinished \in BOOLEAN
    BY DEF TypeOK
  <2>5. unfinished' \in BOOLEAN
    BY <2>1, <2>4
  <2>6. forked' \subseteq Fork
    BY <2>1, <1>0 DEF Fork
  <2>7. minted' \in Nat /\ lastHash' \in Nat /\ acked' \subseteq Nat
    BY <2>2, <1>0
  <2> QED BY <2>3, <2>5, <2>6, <2>7
<1>7. disturbed' = [r \in Reader |-> disturbed[r] \/ files' # files]
  BY DEF AppendStep
<1>8. TypeOK'
  <2>1. pc' \in [Thread -> PC] /\ prev' \in [Thread -> Nat \cup {Unknown, Broken}]
    BY <1>0, <1>1, <1>2 DEF WriterPC
  <2>2. disturbed' \in [Reader -> BOOLEAN]
    BY <1>7 DEF TypeOK
  <2> QED BY <2>1, <2>2, <1>3, <1>4, <1>5, <1>6 DEF TypeOK
<1>9. ASSUME NEW v \in Writer PROVE pc'[v] \in WriterPC /\ prev'[v] \in Nat
  BY <1>0, <1>1, <1>2 DEF Threads
<1>10. ASSUME NEW r \in Reader
       PROVE  /\ pc'[r] = pc[r] /\ prev'[r] = prev[r]
              /\ ~disturbed'[r] => ~disturbed[r] /\ backup' = backup
  BY <1>0, <1>1, <1>2, <1>7 DEF files, TypeOK
<1>11. \A r \in Reader :
         /\ pc'[r] \in ReaderPC
         /\ pc'[r] # "idle" => report'[r] = "none"
         /\ pc'[r] = "assign" => prev'[r] # Broken
         /\ pc'[r] = "active" /\ ~disturbed'[r] => prev'[r] = Validate(backup', Unknown)
  BY <1>6, <1>10 DEF Threads
<1> QED BY <1>8, <1>9, <1>11 DEF Threads, Validate

(* What a step of a validation does to the thread that takes it.           *)
LEMMA ValidateMoves ==
  ASSUME TypeOK, Threads, NEW r \in Reader, ValidateStep(r)
  PROVE  /\ UNCHANGED <<files, draft, minted, crashes, acked, unfinished>>
         /\ \E next \in ReaderPC, hash \in Nat \cup {Unknown, Broken},
               found \in {"none", "valid", "invalid"}, d \in BOOLEAN :
              /\ pc' = [pc EXCEPT ![r] = next]
              /\ prev' = [prev EXCEPT ![r] = hash]
              /\ report' = [report EXCEPT ![r] = found]
              /\ disturbed' = [disturbed EXCEPT ![r] = d]
              /\ next # "idle" => found = "none"
              /\ next = "assign" => hash # Broken
              /\ next = "active" => hash = Validate(backup, Unknown)
<1>0. /\ r \in Thread /\ pc \in [Thread -> PC] /\ disturbed \in [Reader -> BOOLEAN]
      /\ prev \in [Thread -> Nat \cup {Unknown, Broken}]
      /\ report \in [Reader -> {"none", "valid", "invalid"}]
      /\ backup \in Seq(Block) /\ active \in Seq(Block)
  BY DEF TypeOK, Thread
<1>1. CASE ReadBackup(r)
  <2>1. Validate(backup, Unknown) \in Nat \cup {Unknown, Broken}
    BY <1>0, ValidateType
  <2> QED BY <2>1, <1>1, <1>0 DEF ReadBackup, ReadFile, Goto, ReaderPC
<1>2. CASE ReadActive(r)
  <2>1. Validate(active, prev[r]) \in Nat \cup {Unknown, Broken}
    BY <1>0, ValidateType
  <2>2. disturbed' = [disturbed EXCEPT ![r] = disturbed[r]] /\ disturbed[r] \in BOOLEAN
    BY <1>2, <1>0 DEF ReadActive
  <2> QED BY <2>1, <2>2, <1>2, <1>0 DEF ReadActive, ReadFile, Goto, ReaderPC
<1>3. CASE Assign(r)
  <2>1. /\ disturbed' = [disturbed EXCEPT ![r] = disturbed[r]] /\ disturbed[r] \in BOOLEAN
        /\ prev' = [prev EXCEPT ![r] = prev[r]] /\ prev[r] \in Nat \cup {Unknown, Broken}
        /\ report' = [report EXCEPT ![r] = "none"]
        /\ pc' = [pc EXCEPT ![r] = "check"]
        /\ UNCHANGED <<files, draft, minted, crashes, acked, unfinished>>
    BY <1>3, <1>0 DEF Assign, Goto, Threads
  <2> QED BY <2>1 DEF ReaderPC
<1>4. CASE Check(r)
  <2>1. /\ disturbed' = [disturbed EXCEPT ![r] = disturbed[r]] /\ disturbed[r] \in BOOLEAN
        /\ prev' = [prev EXCEPT ![r] = prev[r]] /\ prev[r] \in Nat \cup {Unknown, Broken}
        /\ pc' = [pc EXCEPT ![r] = "idle"]
        /\ UNCHANGED <<files, draft, minted, crashes, acked, unfinished>>
    BY <1>4, <1>0 DEF Check, Goto, history
  <2>2. \E found \in {"none", "valid", "invalid"} : report' = [report EXCEPT ![r] = found]
    BY <1>4 DEF Check
  <2> QED BY <2>1, <2>2 DEF ReaderPC
<1> QED BY <1>1, <1>2, <1>3, <1>4 DEF ValidateStep

LEMMA ValidateTypes ==
  ASSUME TypeOK, Threads, NEW r \in Reader, ValidateStep(r)
  PROVE  TypeOK' /\ Threads'
<1>0. /\ r \in Thread /\ r \notin Writer /\ Writer \subseteq Thread /\ Reader \subseteq Thread
      /\ pc \in [Thread -> PC] /\ disturbed \in [Reader -> BOOLEAN]
      /\ prev \in [Thread -> Nat \cup {Unknown, Broken}] /\ lastHash \in Nat
      /\ report \in [Reader -> {"none", "valid", "invalid"}] /\ forked \subseteq Fork
  BY LedgerAssumption DEF TypeOK, Thread
<1>1. UNCHANGED <<files, draft, minted, crashes, acked, unfinished>>
  BY ValidateMoves
<1>2. PICK next \in ReaderPC, hash \in Nat \cup {Unknown, Broken},
           found \in {"none", "valid", "invalid"}, d \in BOOLEAN :
        /\ pc' = [pc EXCEPT ![r] = next]
        /\ prev' = [prev EXCEPT ![r] = hash]
        /\ report' = [report EXCEPT ![r] = found]
        /\ disturbed' = [disturbed EXCEPT ![r] = d]
        /\ next # "idle" => found = "none"
        /\ next = "assign" => hash # Broken
        /\ next = "active" => hash = Validate(backup, Unknown)
  BY ValidateMoves
<1>3. lastHash' \in Nat /\ forked' \subseteq Fork
  <2>1. CASE Assign(r)
    <3>1. prev[r] \in Nat \cup {Unknown}
      BY <2>1, <1>0 DEF Assign, Goto, Threads
    <3> QED BY <3>1, <2>1, <1>0 DEF Assign, Fork, Genesis
  <2>2. CASE ~Assign(r)
    BY <2>2, <1>0 DEF ValidateStep, ReadBackup, ReadActive, ReadFile, Check, history
  <2> QED BY <2>1, <2>2
<1>4. TypeOK'
  <2>1. ReaderPC \subseteq PC
    BY DEF ReaderPC, PC
  <2> QED BY <2>1, <1>0, <1>1, <1>2, <1>3 DEF TypeOK, files
<1>5. \A v \in Writer : pc'[v] \in WriterPC /\ prev'[v] \in Nat
  BY <1>0, <1>2 DEF Threads
<1>6. ASSUME NEW q \in Reader
      PROVE  /\ pc'[q] \in ReaderPC
             /\ pc'[q] # "idle" => report'[q] = "none"
             /\ pc'[q] = "assign" => prev'[q] # Broken
             /\ pc'[q] = "active" /\ ~disturbed'[q] => prev'[q] = Validate(backup, Unknown)
  <2>1. CASE q = r
    BY <2>1, <1>0, <1>2
  <2>2. CASE q # r
    <3>1. /\ pc'[q] = pc[q] /\ prev'[q] = prev[q] /\ report'[q] = report[q]
          /\ disturbed'[q] = disturbed[q]
      BY <2>2, <1>0, <1>2
    <3> QED BY <3>1 DEF Threads
  <2> QED BY <2>1, <2>2
<1>7. backup' = backup
  BY <1>1 DEF files
<1> QED BY <1>4, <1>5, <1>6, <1>7 DEF Threads, Validate

LEMMA CrashTypes ==
  ASSUME TypeOK, Threads, Crash
  PROVE  TypeOK' /\ Threads'
<1>1. RecoverLastHash(active) \in Nat
  BY FileFacts, BlockFacts DEF TypeOK, RecoverLastHash, Genesis
<1>2. TypeOK'
  BY <1>1, LedgerAssumption DEF Crash, Fork, NoDraft, Genesis, TypeOK, files, PC
<1>3. \A t \in Thread : pc'[t] = "idle" /\ prev'[t] = 0
  BY DEF Crash, Genesis
<1> QED BY <1>2, <1>3 DEF Threads, Thread, WriterPC, ReaderPC, PC

LEMMA TypesKept ==
  ASSUME TypeOK, Threads, [Next]_vars
  PROVE  TypeOK' /\ Threads'
<1>1. CASE UNCHANGED vars
  BY <1>1 DEF vars, files, history, TypeOK, Threads, Thread, Validate
<1> QED BY <1>1, AppendTypes, ValidateTypes, CrashTypes DEF Next

-----------------------------------------------------------------------------
(* Appends in turn.                                                        *)

LEMMA OthersIdle ==
  ASSUME TypeOK, InTurn, NEW w \in Writer, AppendStep(w), "overlap" \notin forked'
  PROVE  \A v \in Writer \ {w} : pc[v] = "idle" /\ pc'[v] = "idle"
<1>0. pc \in [Thread -> PC] /\ w \in Thread
  BY DEF TypeOK, Thread
<1>1. \A v \in Writer \ {w} : pc[v] = "idle"
  <2>1. CASE Begin(w)
    BY <2>1 DEF Begin
  <2>2. CASE ~Begin(w)
    <3>1. pc[w] # "idle"
      BY <2>2 DEF AppendStep, Remove, Rename, Anchor, Anchored, Prepare, Write, Publish,
         Measure, Truncate, Store, Goto
    <3> QED BY <3>1 DEF InTurn
  <2> QED BY <2>1, <2>2
<1>2. \A v \in Writer \ {w} : pc'[v] = pc[v]
  BY <1>0 DEF AppendStep, Begin, Remove, Rename, Anchor, Anchored, Prepare, Write, Publish,
     Measure, Truncate, Store, Goto, Thread
<1> QED BY <1>1, <1>2

LEMMA AppendInTurn ==
  ASSUME TypeOK, Threads, InTurn, NEW w \in Writer, AppendStep(w), "overlap" \notin forked'
  PROVE  InTurn'
<1>0. /\ pc \in [Thread -> PC] /\ w \in Thread /\ Writer \subseteq Thread
      /\ backup \in Seq(Block) /\ active \in Seq(Block)
      /\ minted \in Nat /\ lastHash \in Nat /\ prev[w] \in Nat
      /\ prev \in [Thread -> Nat \cup {Unknown, Broken}]
      /\ draft \in [Writer -> [height : Nat, tip : Nat]]
      /\ checkpoint \in [state : {"none", "empty", "stored"}, height : Nat, tip : Nat]
  BY DEF TypeOK, Threads, Thread
<1>1. \A v \in Writer \ {w} : pc[v] = "idle" /\ pc'[v] = "idle"
  BY OthersIdle
<1>2. minted' \in Nat /\ minted <= minted'
  BY <1>0 DEF AppendStep, Begin, Remove, Rename, Anchor, Anchored, Prepare, Write, Publish,
     Measure, Truncate, Store
<1>3. \A v, u \in Writer : pc'[v] # "idle" /\ pc'[u] # "idle" => v = u
  BY <1>1
<1>3a. backup # <<>> => backup[Len(backup)].hash \in Nat /\ backup[Len(backup)].hash <= minted
  BY <1>0, FileFacts, BlockFacts DEF InTurn
<1>4. /\ active' # <<>> => EndsIn(active', minted')
      /\ active' = <<>> /\ minted' # 0 => EndsIn(backup', minted')
      /\ active' = <<>> /\ minted' = 0 => backup' = <<>>
      /\ backup' # <<>> => backup'[Len(backup')].hash <= minted'
  <2>1. CASE Remove(w)
    BY <2>1 DEF Remove, Goto, InTurn
  <2>2. CASE Rename(w)
    BY <2>2, <1>0, FileFacts, BlockFacts DEF Rename, Goto, InTurn, EndsIn
  <2>3. CASE Anchor(w)
    <3>1. [hash |-> minted + 1, prev |-> lastHash, anchor |-> TRUE] \in Block
      BY <1>0, NewBlock
    <3>2. active' # <<>> /\ EndsIn(active', minted + 1) /\ minted' = minted + 1
          /\ backup' = backup
      BY <3>1, <2>3, OneBlock DEF Anchor
    <3> QED BY <3>2, <1>3a, <1>0
  <2>4. CASE Write(w)
    <3>1. [hash |-> minted + 1, prev |-> prev[w], anchor |-> FALSE] \in Block
      BY <1>0, NewBlock
    <3>2. active' # <<>> /\ EndsIn(active', minted + 1) /\ minted' = minted + 1
          /\ backup' = backup
      BY <3>1, <2>4, <1>0, Written DEF Write
    <3> QED BY <3>2, <1>3a, <1>0
  <2>5. CASE ~Remove(w) /\ ~Rename(w) /\ ~Anchor(w) /\ ~Write(w)
    <3>1. UNCHANGED <<backup, active, minted>>
      BY <2>5 DEF AppendStep, Begin, Anchored, Prepare, Publish, Measure, Truncate, Store,
         files
    <3> QED BY <3>1 DEF InTurn, EndsIn
  <2> QED BY <2>1, <2>2, <2>3, <2>4, <2>5
<1>5. lastHash' <= minted'
  <2>1. lastHash' \in {lastHash, prev[w]} /\ lastHash <= minted /\ prev[w] <= minted
    BY <1>0 DEF AppendStep, Begin, Remove, Rename, Anchor, Anchored, Prepare, Write, Publish,
       Measure, Truncate, Store, InTurn
  <2> QED BY <2>1, <1>0, <1>2
<1>6. checkpoint'.tip <= minted' /\ (checkpoint'.state = "stored" => minted' # 0)
  <2>1. CASE Store(w)
    BY <2>1, <1>0 DEF Store, Stored, Goto, InTurn
  <2>2. CASE Truncate(w)
    BY <2>2, <1>0, <1>2 DEF Truncate, EmptyCheckpoint, Genesis
  <2>3. CASE ~Store(w) /\ ~Truncate(w)
    <3>1. checkpoint' = checkpoint
      BY <2>3 DEF AppendStep, Begin, Remove, Rename, Anchor, Anchored, Prepare, Write,
         Publish, Measure, files
    <3> QED BY <3>1, <1>0, <1>2 DEF InTurn
  <2> QED BY <2>1, <2>2, <2>3
<1>7. \A t \in Thread : prev'[t] <= minted'
  <2>1. CASE Anchor(w) \/ Write(w)
    <3>1. prev' = [prev EXCEPT ![w] = minted + 1] /\ minted' = minted + 1
      BY <2>1 DEF Anchor, Write
    <3>2. \A t \in Thread : prev[t] <= minted /\ prev[t] \in Int
      <4>1. \A t \in Thread : prev[t] \in Nat \cup {Unknown, Broken}
        BY <1>0
      <4>2. Unknown \in Int /\ Broken \in Int
        BY DEF Unknown, Broken
      <4> QED BY <4>1, <4>2 DEF InTurn
    <3>3. ASSUME NEW t \in Thread PROVE prev'[t] <= minted'
      <4>1. prev'[t] = prev[t] \/ prev'[t] = minted + 1
        BY <3>1, <1>0
      <4> QED BY <4>1, <3>1, <3>2, <1>0
    <3> QED BY <3>3
  <2>2. CASE ~Anchor(w) /\ ~Write(w)
    <3>1. /\ \/ prev' = prev \/ prev' = [prev EXCEPT ![w] = lastHash]
             \/ prev' = [prev EXCEPT ![w] = 0]
          /\ minted' = minted
      BY <2>2 DEF AppendStep, Begin, Remove, Rename, Anchored, Prepare, Publish, Measure,
         Truncate, Store, Genesis
    <3>2. lastHash <= minted /\ 0 <= minted /\ \A t \in Thread : prev[t] <= minted
      BY <1>0 DEF InTurn
    <3>3. ASSUME NEW t \in Thread PROVE prev'[t] <= minted'
      <4>1. prev'[t] \in {prev[t], lastHash, 0}
        BY <3>1, <1>0
      <4> QED BY <4>1, <3>1, <3>2
    <3> QED BY <3>3
  <2> QED BY <2>1, <2>2
<1>8. \A v \in Writer : draft'[v].tip <= minted'
  <2>1. \/ draft' = draft
        \/ draft' = [draft EXCEPT ![w] = [height |-> CurrentHeight, tip |-> lastHash]]
        \/ draft' = [draft EXCEPT ![w] = [height |-> 0, tip |-> 0]]
    BY DEF AppendStep, Begin, Remove, Rename, Anchor, Anchored, Prepare, Write, Publish,
       Measure, Truncate, Store, NoDraft, Genesis
  <2>2. \A v \in Writer : draft[v].tip \in Nat /\ draft[v].tip <= minted
    BY <1>0 DEF InTurn
  <2>3. lastHash <= minted
    BY DEF InTurn
  <2>4. ASSUME NEW v \in Writer PROVE draft'[v].tip <= minted'
    <3>1. draft'[v] = draft[v] \/ draft'[v] = [height |-> CurrentHeight, tip |-> lastHash]
          \/ draft'[v] = [height |-> 0, tip |-> 0]
      BY <2>1, <1>0
    <3> QED BY <3>1, <2>2, <2>3, <1>0, <1>2
  <2> QED BY <2>4
<1>9. /\ pc'[w] \in {"remove", "rename"} => active' # <<>>
      /\ pc'[w] = "rename" => backup' = <<>>
      /\ pc'[w] = "anchor" => active' = <<>> /\ backup' # <<>>
      /\ pc'[w] \in {"publish", "measure", "truncate", "store"} => minted' # 0
  <2>1. CASE Begin(w)
    <3>1. Len(active) >= FileBlocks => active # <<>>
      BY <1>0, LedgerAssumption, FileFacts
    <3> QED BY <3>1, <2>1, <1>0 DEF Begin, Goto, files
  <2>2. CASE Remove(w) \/ Rename(w)
    BY <2>2, <1>0 DEF Remove, Rename, Goto, InTurn
  <2>3. CASE Anchor(w) \/ Write(w)
    BY <2>3, <1>0 DEF Anchor, Write, Goto
  <2>4. CASE Anchored(w) \/ Prepare(w)
    BY <2>4, <1>0 DEF Anchored, Prepare, Goto
  <2>5. CASE Publish(w) \/ Measure(w) \/ Truncate(w) \/ Store(w)
    BY <2>5, <1>0 DEF Publish, Measure, Truncate, Store, Goto, InTurn
  <2> QED BY <2>1, <2>2, <2>3, <2>4, <2>5 DEF AppendStep
<1> QED BY <1>1, <1>3, <1>4, <1>5, <1>6, <1>7, <1>8, <1>9 DEF InTurn, EndsIn


LEMMA ValidateBound ==
  ASSUME NEW file \in Seq(Block), NEW initial \in Nat \cup {Unknown, Broken},
         NEW n \in Nat, initial <= n, file # <<>> => file[Len(file)].hash <= n
  PROVE  Validate(file, initial) <= n
<1>1. Validate(file, initial) \in
        {initial, Broken} \cup (IF file = <<>> THEN {} ELSE {file[Len(file)].hash})
  BY DEF Validate
<1> QED BY <1>1 DEF Broken

LEMMA ValidateInTurn ==
  ASSUME TypeOK, Threads, InTurn, NEW r \in Reader, ValidateStep(r)
  PROVE  InTurn'
<1>0. /\ r \in Thread /\ r \notin Writer /\ Writer \subseteq Thread
      /\ pc \in [Thread -> PC] /\ minted \in Nat /\ lastHash \in Nat
      /\ backup \in Seq(Block) /\ active \in Seq(Block)
      /\ prev \in [Thread -> Nat \cup {Unknown, Broken}]
  BY LedgerAssumption DEF TypeOK, Thread
<1>1. UNCHANGED <<backup, active, checkpoint, draft, minted>>
  BY ValidateMoves DEF files
<1>2. \A w \in Writer : pc'[w] = pc[w] /\ prev'[w] = prev[w]
  <2>1. \E next \in ReaderPC, hash \in Nat \cup {Unknown, Broken} :
          pc' = [pc EXCEPT ![r] = next] /\ prev' = [prev EXCEPT ![r] = hash]
    BY ValidateMoves
  <2> QED BY <2>1, <1>0
<1>3. \A t \in Thread : prev'[t] <= minted
  <2>1. \A t \in Thread : prev[t] <= minted
    BY DEF InTurn
  <2>2. CASE ReadBackup(r)
    <3>1. Validate(backup, Unknown) <= minted
      <4>1. Unknown <= minted /\ (backup # <<>> => backup[Len(backup)].hash <= minted)
        BY <1>0 DEF InTurn, Unknown
      <4> QED BY <4>1, <1>0, ValidateBound
    <3> QED BY <3>1, <2>1, <2>2, <1>0 DEF ReadBackup, ReadFile
  <2>3. CASE ReadActive(r)
    <3>1. Validate(active, prev[r]) <= minted
      <4>1. prev[r] <= minted /\ (active # <<>> => active[Len(active)].hash <= minted)
        BY <1>0 DEF InTurn, EndsIn
      <4> QED BY <4>1, <1>0, ValidateBound
    <3> QED BY <3>1, <2>1, <2>3, <1>0 DEF ReadActive, ReadFile
  <2>4. CASE Assign(r) \/ Check(r)
    BY <2>1, <2>4 DEF Assign, Check
  <2> QED BY <2>2, <2>3, <2>4 DEF ValidateStep
<1>4. lastHash' <= minted
  <2>1. lastHash <= minted /\ prev[r] <= minted
    BY <1>0 DEF InTurn
  <2>2. lastHash' \in {lastHash, prev[r], 0}
    BY DEF ValidateStep, ReadBackup, ReadActive, ReadFile, Assign, Check, Genesis
  <2> QED BY <2>1, <2>2, <1>0
<1> QED BY <1>1, <1>2, <1>3, <1>4 DEF InTurn, EndsIn

LEMMA CrashInTurn ==
  ASSUME TypeOK, InTurn, Crash
  PROVE  InTurn'
<1>1. RecoverLastHash(active) <= minted
  BY DEF RecoverLastHash, InTurn, EndsIn, TypeOK, Genesis
<1>2. UNCHANGED <<backup, active, checkpoint, minted>> /\ minted \in Nat
  BY DEF Crash, files, TypeOK
<1>3. /\ \A t \in Thread : pc'[t] = "idle" /\ prev'[t] = 0
      /\ \A w \in Writer : draft'[w].tip = 0
  BY DEF Crash, NoDraft, Genesis
<1>4. lastHash' <= minted
  BY <1>1 DEF Crash
<1> QED BY <1>2, <1>3, <1>4 DEF InTurn, EndsIn, Thread

LEMMA TurnsKept ==
  ASSUME TypeOK, Threads, "overlap" \notin forked => InTurn, [Next]_vars,
         "overlap" \notin forked'
  PROVE  InTurn /\ InTurn'
<1>1. "overlap" \notin forked
  BY DEF Next, vars, history, AppendStep, Begin, Remove, Rename, Anchor, Anchored, Prepare,
     Write, Publish, Measure, Truncate, Store, ValidateStep, ReadBackup, ReadActive,
     ReadFile, Assign, Check, Crash
<1>2. CASE UNCHANGED vars
  BY <1>1, <1>2 DEF vars, files, history, InTurn, EndsIn
<1> QED BY <1>1, <1>2, AppendInTurn, ValidateInTurn, CrashInTurn DEF Next

-----------------------------------------------------------------------------
(* Until the chain is forked.                                              *)

LEMMA AppendFiles ==
  ASSUME TypeOK, Threads, InTurn, OnCourse, NEW w \in Writer, AppendStep(w),
         "overlap" \notin forked'
  PROVE  /\ Chained(backup') /\ Chained(active')
         /\ backup' # <<>> /\ active' # <<>> => EndsIn(backup', active'[1].prev)
         /\ active' = <<>> /\ backup' # <<>> => \E v \in Writer : pc'[v] = "anchor"
<1>0. /\ pc \in [Thread -> PC] /\ w \in Thread
      /\ backup \in Seq(Block) /\ active \in Seq(Block)
      /\ minted \in Nat /\ lastHash \in Nat /\ prev[w] \in Nat
  BY DEF TypeOK, Threads, Thread
<1>1. \A v \in Writer \ {w} : pc[v] = "idle" /\ pc'[v] = "idle"
  BY OthersIdle
<1>2. Chained(<<>>)
  BY DEF Chained
<1>3. CASE Remove(w)
  BY <1>3, <1>2 DEF Remove, Goto, InTurn, OnCourse
<1>4. CASE Rename(w)
  <2>1. backup' = active /\ active' = <<>> /\ pc'[w] = "anchor"
    BY <1>4, <1>0 DEF Rename, Goto, InTurn
  <2> QED BY <2>1, <1>2 DEF OnCourse
<1>5. CASE Anchor(w)
  <2>1. [hash |-> minted + 1, prev |-> lastHash, anchor |-> TRUE] \in Block
    BY <1>0, NewBlock
  <2>2. lastHash = minted /\ backup # <<>> /\ active = <<>>
    BY <1>5, <1>1 DEF Anchor, Goto, OnCourse, InTurn
  <2>3. EndsIn(backup, lastHash)
    <3>1. minted # 0
      BY <2>2, <1>0, FileFacts, BlockFacts DEF InTurn
    <3> QED BY <3>1, <2>2 DEF InTurn
  <2>4. /\ active' # <<>> /\ Chained(active') /\ active'[1].prev = lastHash
        /\ backup' = backup
    BY <2>1, <1>5, OneBlock DEF Anchor
  <2> QED BY <2>3, <2>4 DEF OnCourse
<1>6. CASE Write(w)
  <2> DEFINE b == [hash |-> minted + 1, prev |-> prev[w], anchor |-> FALSE]
  <2>1. b \in Block
    BY <1>0, NewBlock
  <2>2. prev[w] = minted
    BY <1>6 DEF Write, Goto, OnCourse
  <2>3. active = <<>> => backup = <<>>
    BY <1>1, <1>6 DEF OnCourse, Write, Goto
  <2>4. active = <<>> => minted = 0
    BY <2>3 DEF InTurn, EndsIn
  <2>5. IF active = <<>> THEN b.anchor \/ b.prev = Genesis ELSE EndsIn(active, b.prev)
    BY <2>2, <2>4 DEF InTurn, Genesis
  <2>6. /\ active' = WriteLine(active, b) /\ backup' = backup
    BY <1>6 DEF Write
  <2>7. Chained(active') /\ active' # <<>>
    BY <2>1, <2>5, <2>6, <1>0, Written DEF OnCourse
  <2>8. active # <<>> => active'[1] = active[1]
    BY <2>1, <2>6, <1>0, Written
  <2> QED BY <2>3, <2>6, <2>7, <2>8 DEF OnCourse
<1>7. CASE ~Remove(w) /\ ~Rename(w) /\ ~Anchor(w) /\ ~Write(w)
  <2>1. UNCHANGED <<backup, active>>
    BY <1>7 DEF AppendStep, Begin, Anchored, Prepare, Publish, Measure, Truncate, Store,
       files
  <2>2. pc[w] # "anchor"
    BY <1>7 DEF AppendStep, Begin, Anchored, Prepare, Publish, Measure, Truncate, Store,
       Goto
  <2>3. \A v \in Writer : pc[v] # "anchor"
    BY <2>2, <1>1
  <2> QED BY <2>1, <2>3 DEF OnCourse
<1> QED BY <1>3, <1>4, <1>5, <1>6, <1>7

LEMMA AppendOnCourse ==
  ASSUME TypeOK, Threads, InTurn, OnCourse, NEW w \in Writer, AppendStep(w),
         "overlap" \notin forked'
  PROVE  OnCourse'
<1>0. /\ pc \in [Thread -> PC] /\ w \in Thread /\ unfinished \in BOOLEAN
      /\ backup \in Seq(Block) /\ active \in Seq(Block)
      /\ minted \in Nat /\ lastHash \in Nat /\ prev[w] \in Nat
      /\ prev \in [Thread -> Nat \cup {Unknown, Broken}]
      /\ draft \in [Writer -> [height : Nat, tip : Nat]]
  BY DEF TypeOK, Threads, Thread
<1>1. \A v \in Writer \ {w} : pc[v] = "idle" /\ pc'[v] = "idle"
  BY OthersIdle
<1>2. /\ Chained(backup') /\ Chained(active')
      /\ backup' # <<>> /\ active' # <<>> => EndsIn(backup', active'[1].prev)
      /\ active' = <<>> /\ backup' # <<>> => \E v \in Writer : pc'[v] = "anchor"
  BY AppendFiles
<1>3. pc'[w] \notin {"publish", "anchored"} => lastHash' = minted'
  <2>1. pc[w] \notin {"publish", "anchored"} => lastHash = minted
    BY <1>1 DEF OnCourse
  <2>2. CASE Anchored(w) \/ Publish(w)
    BY <2>2, <1>0 DEF Anchored, Publish, Goto, OnCourse
  <2>3. CASE Anchor(w) \/ Write(w)
    BY <2>3, <1>0 DEF Anchor, Write, Goto
  <2>4. CASE Begin(w) \/ Remove(w) \/ Rename(w) \/ Prepare(w)
    BY <2>4, <2>1 DEF Begin, Remove, Rename, Prepare, Goto
  <2>5. CASE Measure(w) \/ Truncate(w) \/ Store(w)
    BY <2>5, <2>1 DEF Measure, Truncate, Store, Goto
  <2> QED BY <2>2, <2>3, <2>4, <2>5 DEF AppendStep
<1>4. pc'[w] \in {"publish", "anchored", "write"} => prev'[w] = minted'
  <2>1. CASE Anchor(w) \/ Write(w)
    BY <2>1, <1>0 DEF Anchor, Write, Goto
  <2>2. CASE Prepare(w)
    <3>1. lastHash = minted
      BY <2>2, <1>1 DEF OnCourse, Prepare, Goto
    <3> QED BY <3>1, <2>2, <1>0 DEF Prepare
  <2>3. CASE ~Anchor(w) /\ ~Write(w) /\ ~Prepare(w)
    BY <2>3, <1>0 DEF AppendStep, Begin, Remove, Rename, Anchored, Publish, Measure,
       Truncate, Store, Goto
  <2> QED BY <2>1, <2>2, <2>3
<1>5. pc'[w] \in {"truncate", "store"} =>
        draft'[w] = [height |-> CurrentHeight', tip |-> minted']
  <2>1. CASE Measure(w)
    <3>1. lastHash = minted
      BY <2>1, <1>1 DEF OnCourse, Measure, Goto
    <3>2. CurrentHeight' = CurrentHeight
      BY <2>1 DEF Measure, files, CurrentHeight, HeightOf
    <3> QED BY <3>1, <3>2, <2>1, <1>0 DEF Measure
  <2>2. CASE Truncate(w)
    <3>1. CurrentHeight' = CurrentHeight
      BY <2>2 DEF Truncate, CurrentHeight, HeightOf
    <3> QED BY <3>1, <2>2 DEF Truncate, Goto, OnCourse
  <2>3. CASE ~Measure(w) /\ ~Truncate(w)
    BY <2>3, <1>0 DEF AppendStep, Begin, Remove, Rename, Anchor, Anchored, Prepare, Write,
       Publish, Store, Goto
  <2> QED BY <2>1, <2>2, <2>3
<1>6. ~unfinished' =>
        /\ pc'[w] \in {"idle", "remove", "prepare", "write"}
        /\ checkpoint' = IF acked' = {} THEN NoCheckpoint
                         ELSE Stored(CurrentHeight', minted')
  <2>1. CASE Store(w)
    <3>1. draft[w] = [height |-> CurrentHeight, tip |-> minted]
      BY <2>1 DEF Store, Goto, OnCourse
    <3>2. CurrentHeight' = CurrentHeight
      BY <2>1 DEF Store, CurrentHeight, HeightOf
    <3>3. /\ checkpoint' = Stored(CurrentHeight, minted) /\ acked' # {}
          /\ minted' = minted /\ pc'[w] = "idle"
      BY <3>1, <2>1, <1>0 DEF Store, Goto
    <3> QED BY <3>2, <3>3
  <2>2. CASE Remove(w) \/ Write(w)
    BY <2>2 DEF Remove, Write
  <2>3. CASE Begin(w) \/ Prepare(w)
    <3>1. /\ UNCHANGED <<files, acked, minted, unfinished>>
          /\ pc'[w] \in {"idle", "remove", "prepare", "write"}
      BY <2>3, <1>0 DEF Begin, Prepare, Goto
    <3>2. CurrentHeight' = CurrentHeight
      BY <3>1 DEF files, CurrentHeight, HeightOf
    <3> QED BY <3>1, <3>2 DEF OnCourse, files
  <2>4. CASE Rename(w) \/ Anchor(w) \/ Anchored(w) \/ Publish(w) \/ Measure(w) \/ Truncate(w)
    <3>1. /\ unfinished' = unfinished
          /\ pc[w] \in {"rename", "anchor", "anchored", "publish", "measure", "truncate"}
      BY <2>4 DEF Rename, Anchor, Anchored, Publish, Measure, Truncate, Goto
    <3>2. unfinished
      BY <3>1 DEF OnCourse
    <3> QED BY <3>1, <3>2
  <2> QED BY <2>1, <2>2, <2>3, <2>4 DEF AppendStep
<1> QED BY <1>1, <1>2, <1>3, <1>4, <1>5, <1>6 DEF OnCourse, EndsIn, Chained

LEMMA ValidateOnCourse ==
  ASSUME TypeOK, Threads, InTurn, OnCourse, NEW r \in Reader, ValidateStep(r),
         forked' = {}
  PROVE  OnCourse'
<1>0. r \in Thread /\ r \notin Writer /\ Writer \subseteq Thread /\ pc \in [Thread -> PC]
      /\ prev \in [Thread -> Nat \cup {Unknown, Broken}]
  BY LedgerAssumption DEF TypeOK, Thread
<1>1. UNCHANGED <<backup, active, checkpoint, draft, minted, acked, unfinished>>
  BY ValidateMoves DEF files
<1>2. \A w \in Writer : pc'[w] = pc[w] /\ prev'[w] = prev[w]
  <2>1. \E next \in ReaderPC, hash \in Nat \cup {Unknown, Broken} :
          pc' = [pc EXCEPT ![r] = next] /\ prev' = [prev EXCEPT ![r] = hash]
    BY ValidateMoves
  <2> QED BY <2>1, <1>0
<1>3. lastHash' \in {lastHash, minted}
  <2>1. Tip = minted
    BY TipIs
  <2> QED BY <2>1 DEF ValidateStep, ReadBackup, ReadActive, ReadFile, Assign, Check
<1>4. CurrentHeight' = CurrentHeight
  BY <1>1 DEF CurrentHeight, HeightOf
<1> QED BY <1>1, <1>2, <1>3, <1>4 DEF OnCourse, EndsIn, Chained

LEMMA CrashOnCourse ==
  ASSUME TypeOK, InTurn, OnCourse, Crash, forked' = {}
  PROVE  OnCourse'
<1>1. \A w \in Writer : pc[w] # "anchor"
  BY DEF Crash
<1>2. active = <<>> => backup = <<>>
  BY <1>1 DEF OnCourse
<1>3. RecoverLastHash(active) = minted
  <2>1. active = <<>> => minted = 0
    BY <1>2 DEF InTurn, EndsIn
  <2> QED BY <2>1 DEF RecoverLastHash, InTurn, EndsIn, Genesis
<1>4. UNCHANGED <<backup, active, checkpoint, minted, acked, unfinished>>
  BY DEF Crash, files
<1>5. CurrentHeight' = CurrentHeight
  BY <1>4 DEF CurrentHeight, HeightOf
<1>6. (\A w \in Writer : pc'[w] = "idle") /\ lastHash' = minted
  BY <1>3 DEF Crash, Thread
<1> QED BY <1>2, <1>4, <1>5, <1>6 DEF OnCourse, EndsIn, Chained

LEMMA CourseKept ==
  ASSUME TypeOK, Threads, InTurn, forked = {} => OnCourse, [Next]_vars, forked' = {}
  PROVE  OnCourse /\ OnCourse'
<1>1. forked = {}
  BY DEF Next, vars, history, AppendStep, Begin, Remove, Rename, Anchor, Anchored, Prepare,
     Write, Publish, Measure, Truncate, Store, ValidateStep, ReadBackup, ReadActive,
     ReadFile, Assign, Check, Crash
<1>2. CASE UNCHANGED vars
  BY <1>1, <1>2 DEF vars, files, history, OnCourse, EndsIn, Chained, CurrentHeight, HeightOf
<1> QED BY <1>1, <1>2, AppendOnCourse, ValidateOnCourse, CrashOnCourse DEF Next

-----------------------------------------------------------------------------
(* The invariant and what follows from it.                                 *)

LEMMA InvInit ==
  ASSUME Init
  PROVE  LedgerInv
<1>1. TypeOK
  <2>1. <<>> \in Seq(Block) /\ 0 \in 0 .. MaxCrashes
    BY LedgerAssumption
  <2>2. pc \in [Thread -> PC] /\ prev \in [Thread -> Nat \cup {Unknown, Broken}]
    BY DEF Init, PC, Genesis
  <2>3. draft \in [Writer -> [height : Nat, tip : Nat]]
    BY DEF Init, NoDraft, Genesis
  <2>4. checkpoint \in [state : {"none", "empty", "stored"}, height : Nat, tip : Nat]
    BY DEF Init, NoCheckpoint, Genesis
  <2>5. /\ report \in [Reader -> {"none", "valid", "invalid"}]
        /\ disturbed \in [Reader -> BOOLEAN] /\ forked \subseteq Fork /\ unfinished \in BOOLEAN
    BY DEF Init
  <2> QED BY <2>1, <2>2, <2>3, <2>4, <2>5 DEF Init, TypeOK, Genesis
<1>2. Threads
  BY DEF Init, Threads, WriterPC, ReaderPC, PC, Genesis, Thread
<1>3. InTurn
  BY DEF Init, InTurn, EndsIn, NoCheckpoint, NoDraft, Genesis, Thread
<1>4. OnCourse
  BY DEF Init, OnCourse, Chained, EndsIn, Genesis, Thread
<1> QED BY <1>1, <1>2, <1>3, <1>4 DEF LedgerInv

LEMMA InvKept ==
  ASSUME LedgerInv, [Next]_vars
  PROVE  LedgerInv'
<1>1. TypeOK' /\ Threads'
  BY TypesKept DEF LedgerInv
<1>2. ASSUME "overlap" \notin forked' PROVE InTurn /\ InTurn'
  BY <1>2, TurnsKept DEF LedgerInv
<1>3. ASSUME forked' = {} PROVE OnCourse'
  <2>1. InTurn
    BY <1>2, <1>3
  <2> QED BY <2>1, <1>3, CourseKept DEF LedgerInv
<1> QED BY <1>1, <1>2, <1>3 DEF LedgerInv

LEMMA LedgerInvariant == Spec => []LedgerInv
<1>1. Init => LedgerInv
  BY InvInit
<1>2. LedgerInv /\ [Next]_vars => LedgerInv'
  BY InvKept
<1> QED BY <1>1, <1>2, PTL DEF Spec

LEMMA BackupValidates ==
  ASSUME TypeOK, OnCourse
  PROVE  Validate(backup, Unknown) =
           IF backup = <<>> THEN Unknown ELSE backup[Len(backup)].hash
BY ValidateChained DEF TypeOK, OnCourse

LEMMA ChainHolds ==
  ASSUME TypeOK, OnCourse
  PROVE  ChainLinked
<1> DEFINE before == Validate(backup, Unknown)
<1>1. backup \in Seq(Block) /\ active \in Seq(Block) /\ Chained(active)
  BY DEF TypeOK, OnCourse
<1>2. before = IF backup = <<>> THEN Unknown ELSE backup[Len(backup)].hash
  BY BackupValidates
<1>3. backup # <<>> => backup[Len(backup)].hash \in Nat
  BY <1>1, FileFacts, BlockFacts
<1>4. before \in Nat \cup {Unknown}
  BY <1>2, <1>3
<1>5. active # <<>> /\ before # Unknown => active[1].prev = before
  BY <1>2 DEF OnCourse, EndsIn
<1> HIDE DEF before
<1>6. Validate(active, before) =
        IF active = <<>> THEN before ELSE active[Len(active)].hash
  BY <1>1, <1>4, <1>5, ValidateChained
<1>7. active # <<>> => active[Len(active)].hash \in Nat
  BY <1>1, FileFacts, BlockFacts
<1>8. Validate(active, before) # Broken
  BY <1>4, <1>6, <1>7 DEF Broken, Unknown
<1> QED BY <1>8 DEF ChainLinked, before

LEMMA SoundHolds ==
  ASSUME LedgerInv
  PROVE  LogSound
<1>1. TypeOK
  BY DEF LedgerInv
<1>2. ASSUME forked = {} PROVE ChainLinked /\ CheckpointExact
  <2>1. InTurn /\ OnCourse
    BY <1>2 DEF LedgerInv
  <2>2. Tip = minted
    BY <1>1, <2>1, TipIs
  <2>3. CheckpointExact
    BY <2>1, <2>2 DEF CheckpointExact, OnCourse
  <2> QED BY <1>1, <2>1, <2>3, ChainHolds
<1>3. ASSUME "overlap" \notin forked PROVE CheckpointBehind
  <2>1. InTurn
    BY <1>3 DEF LedgerInv
  <2>2. ASSUME checkpoint.state = "stored"
        PROVE  minted \in Hashes(backup) \cup Hashes(active) /\ checkpoint.tip <= minted
    BY <1>1, <2>1, <2>2, NewestIsThere DEF InTurn
  <2> QED BY <2>2 DEF CheckpointBehind
<1> QED BY <1>1, <1>2, <1>3 DEF LogSound

(* The chain, the exact checkpoint and the one that is never ahead, for    *)
(* any number of threads, blocks and crashes (persistence.py:52-246).      *)
THEOREM LogIsSound == Spec => []LogSound
<1>1. LedgerInv => LogSound
  BY SoundHolds
<1> QED BY <1>1, LedgerInvariant, PTL

-----------------------------------------------------------------------------
(* What a step may not do.                                                 *)

LEMMA LostOnlyByRotation ==
  ASSUME LedgerInv, [Next]_vars,
         NEW h \in acked, h \in Hashes(backup) \cup Hashes(active)
  PROVE  \/ h \in Hashes(backup)' \cup Hashes(active)'
         \/ \E w \in Writer : pc[w] = "remove" /\ pc'[w] = "rename"
         \/ "overlap" \in forked
<1> SUFFICES ASSUME "overlap" \notin forked
             PROVE  \/ h \in Hashes(backup') \cup Hashes(active')
                    \/ \E w \in Writer : pc[w] = "remove" /\ pc'[w] = "rename"
  BY DEF Hashes
<1>1. TypeOK /\ Threads /\ InTurn
  BY DEF LedgerInv
<1>2. /\ backup \in Seq(Block) /\ active \in Seq(Block) /\ minted \in Nat
      /\ pc \in [Thread -> PC] /\ lastHash \in Nat
  BY <1>1 DEF TypeOK
<1>3. CASE UNCHANGED <<backup, active>>
  BY <1>3
<1>4. ASSUME NEW w \in Writer, AppendStep(w), ~UNCHANGED <<backup, active>>
      PROVE  \/ h \in Hashes(backup') \cup Hashes(active')
             \/ pc[w] = "remove" /\ pc'[w] = "rename"
  <2>0. prev[w] \in Nat /\ w \in Thread
    BY <1>1 DEF Threads, Thread
  <2>1. CASE Remove(w)
    BY <2>1, <2>0, <1>2 DEF Remove, Goto
  <2>2. CASE Rename(w)
    <3>1. backup = <<>> /\ active # <<>>
      BY <2>2, <1>1 DEF Rename, Goto, InTurn
    <3> QED BY <3>1, <2>2 DEF Rename, Hashes
  <2>3. CASE Anchor(w)
    <3>1. active = <<>> /\ backup' = backup
      BY <2>3, <1>1 DEF Anchor, Goto, InTurn
    <3> QED BY <3>1 DEF Hashes
  <2>4. CASE Write(w)
    <3>1. [hash |-> minted + 1, prev |-> prev[w], anchor |-> FALSE] \in Block
      BY <1>2, <2>0, NewBlock
    <3>2. Hashes(active) \subseteq Hashes(active') /\ backup' = backup
      BY <3>1, <2>4, <1>2, Written DEF Write
    <3> QED BY <3>2
  <2> QED BY <2>1, <2>2, <2>3, <2>4, <1>4 DEF AppendStep, Begin, Anchored, Prepare,
             Publish, Measure, Truncate, Store, files
<1>5. ASSUME NEW r \in Reader, ValidateStep(r) PROVE UNCHANGED <<backup, active>>
  BY <1>1, <1>5, ValidateMoves DEF files
<1>6. Crash \/ UNCHANGED vars => UNCHANGED <<backup, active>>
  BY DEF Crash, vars, files
<1> QED BY <1>3, <1>4, <1>5, <1>6 DEF Next

(* An acknowledged block leaves the log only when a rotation removes the   *)
(* older file, whatever validations and crashes come between               *)
(* (persistence.py:33-57).                                                 *)
THEOREM AckedBlocksSurvive == Spec => AckedSurvives
<1> DEFINE Kept == \A h \in acked :
      h \in Hashes(backup) \cup Hashes(active) =>
        \/ h \in Hashes(backup)' \cup Hashes(active)'
        \/ \E w \in Writer : pc[w] = "remove" /\ pc'[w] = "rename"
        \/ "overlap" \in forked
<1>1. LedgerInv /\ [Next]_vars => [Kept]_vars
  BY LostOnlyByRotation
<1>2. Spec => [][Kept]_vars
  BY <1>1, LedgerInvariant, PTL DEF Spec
<1> QED BY <1>2 DEF AckedSurvives

LEMMA AlarmIsReal ==
  ASSUME LedgerInv, Next, NEW r \in Reader, report'[r] = "invalid",
         <<pc[r], report[r]>> # <<pc'[r], report'[r]>>
  PROVE  unfinished \/ disturbed'[r] \/ forked # {}
<1> SUFFICES ASSUME ~unfinished, forked = {} PROVE disturbed'[r]
  OBVIOUS
<1>1. TypeOK /\ Threads /\ InTurn /\ OnCourse
  BY DEF LedgerInv
<1>2. /\ pc \in [Thread -> PC] /\ r \in Thread /\ r \notin Writer
      /\ report \in [Reader -> {"none", "valid", "invalid"}]
      /\ backup \in Seq(Block)
  BY <1>1, LedgerAssumption DEF TypeOK, Thread
<1>3. ASSUME NEW w \in Writer, AppendStep(w) PROVE FALSE
  <2>1. report' = report /\ pc'[r] = pc[r]
    BY <1>2, <1>3 DEF AppendStep, Begin, Remove, Rename, Anchor, Anchored, Prepare, Write,
       Publish, Measure, Truncate, Store, Goto
  <2> QED BY <2>1
<1>4. ASSUME NEW q \in Reader \ {r}, ValidateStep(q) PROVE FALSE
  <2>1. \E next \in ReaderPC, found \in {"none", "valid", "invalid"} :
          pc' = [pc EXCEPT ![q] = next] /\ report' = [report EXCEPT ![q] = found]
    BY <1>1, <1>4, ValidateMoves
  <2> QED BY <2>1, <1>2
<1>5. CASE ReadBackup(r)
  <2>1. Validate(backup, Unknown) # Broken
    <3>1. backup # <<>> => backup[Len(backup)].hash \in Nat
      BY <1>2, FileFacts, BlockFacts
    <3> QED BY <3>1, <1>1, BackupValidates DEF Broken, Unknown
  <2> QED BY <2>1, <1>5, <1>2 DEF ReadBackup, ReadFile
<1>6. CASE ReadActive(r)
  <2>1. CASE disturbed[r]
    BY <2>1, <1>6 DEF ReadActive
  <2>2. CASE ~disturbed[r]
    <3>1. prev[r] = Validate(backup, Unknown)
      BY <2>2, <1>6, <1>1 DEF ReadActive, ReadFile, Goto, Threads
    <3>2. Validate(active, prev[r]) # Broken
      BY <3>1, <1>1, ChainHolds DEF ChainLinked
    <3> QED BY <3>2, <1>6, <1>2 DEF ReadActive, ReadFile
  <2> QED BY <2>1, <2>2
<1>7. CASE Assign(r)
  BY <1>7, <1>1 DEF Assign, Goto, Threads
<1>8. CASE Check(r)
  <2>1. /\ \A w \in Writer : pc[w] \in {"idle", "remove", "prepare", "write"}
        /\ checkpoint = IF acked = {} THEN NoCheckpoint ELSE Stored(CurrentHeight, minted)
    BY <1>1 DEF OnCourse
  <2>2. lastHash = minted
    BY <2>1, <1>1 DEF OnCourse
  <2>3. checkpoint \in {NoCheckpoint, Stored(CurrentHeight, lastHash)}
    BY <2>1, <2>2
  <2> QED BY <2>3, <1>8, <1>2 DEF Check
<1>9. CASE Crash
  BY <1>9, <1>1, <1>2 DEF Crash, Threads
<1> QED BY <1>3, <1>4, <1>5, <1>6, <1>7, <1>8, <1>9 DEF Next, ValidateStep

(* A validation under which no file changes finds the log valid, when no   *)
(* append is cut off and the chain is not forked (persistence.py:248-297). *)
THEOREM PanelIsRight == Spec => NoFalseAlarm
<1> DEFINE Real == \A r \in Reader :
      (report'[r] = "invalid" /\ <<pc[r], report[r]>> # <<pc'[r], report'[r]>>) =>
         unfinished \/ disturbed'[r] \/ forked # {}
<1>1. LedgerInv /\ [Next]_vars => [Real]_vars
  BY AlarmIsReal
<1>2. Spec => [][Real]_vars
  BY <1>1, LedgerInvariant, PTL DEF Spec
<1> QED BY <1>2 DEF NoFalseAlarm
=============================================================================
