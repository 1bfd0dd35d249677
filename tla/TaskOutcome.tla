----------------------------- MODULE TaskOutcome -----------------------------
(***************************************************************************)
(* What the distributed dispatch of a task promises, whatever happens to   *)
(* ownership: a task gets at most one verdict, the verdict never changes,  *)
(* and every caller that is told something is told that verdict.  A caller *)
(* may also be turned away without one.                                    *)
(***************************************************************************)
CONSTANTS
  Task,       \* task identifiers
  Run,        \* callers
  TaskOf,     \* the task each caller asks for
  Verdict,    \* results and failures
  Undecided,  \* no verdict yet
  TurnedAway  \* the caller ended without learning a verdict

VARIABLES
  verdict,    \* the authoritative outcome of each task
  report      \* what each caller was told

abstractVars == <<verdict, report>>

AbstractInit ==
  /\ verdict = [t \in Task |-> Undecided]
  /\ report = [r \in Run |-> Undecided]

(* The first caller to publish decides, and is told what it decided.       *)
Decide(r) ==
  LET t == TaskOf[r] IN
  /\ verdict[t] = Undecided
  /\ report[r] = Undecided
  /\ verdict'[t] \in Verdict
  /\ verdict' = [verdict EXCEPT ![t] = verdict'[t]]
  /\ report' = [report EXCEPT ![r] = verdict'[t]]

(* Everybody else is told the verdict that stands.                         *)
Adopt(r) ==
  /\ verdict[TaskOf[r]] # Undecided
  /\ report[r] = Undecided
  /\ report' = [report EXCEPT ![r] = verdict[TaskOf[r]]]
  /\ UNCHANGED verdict

TurnAway(r) ==
  /\ report[r] = Undecided
  /\ report' = [report EXCEPT ![r] = TurnedAway]
  /\ UNCHANGED verdict

AbstractNext ==
  \E r \in Run : Decide(r) \/ Adopt(r) \/ TurnAway(r)

AbstractSpec == AbstractInit /\ [][AbstractNext]_abstractVars

=============================================================================
