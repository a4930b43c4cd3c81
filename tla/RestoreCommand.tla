--------------------------- MODULE RestoreCommand ---------------------------
(***************************************************************************)
(* cmd_restore (main.rs) with launch_suspended and wait_for_loader         *)
(* (restore/launch.rs): one tool, the process it launches, and other tools *)
(* that suspend the same process (a --snapshot of the same executable).    *)
(*                                                                         *)
(* The new process is external.  Its main thread runs when its suspend     *)
(* count is 0: first the loader, then user code.  Either may start         *)
(* workers, which only a suspension of the whole process stops.            *)
(* What is restored is the subject of RestoreMemory and ThreadContexts.    *)
(*                                                                         *)
(* Rounds is the 60 of wait_for_loader; MaxWorkers, MaxOthers and          *)
(* MaxFaults bound the workers, the other suspenders and the calls of      *)
(* ResumeThread and SuspendThread that fail in wait_for_loader.            *)
(***************************************************************************)
EXTENDS Naturals

CONSTANTS Rounds, MaxWorkers, MaxOthers, MaxFaults

ASSUME RestoreAssumption ==
  /\ Rounds \in Nat \ {0}
  /\ MaxWorkers \in Nat /\ MaxOthers \in Nat /\ MaxFaults \in Nat

VARIABLES
  new,          \* the new process: "none", "alive" or "dead"
  stage,        \* how far its main thread has run
  suspends,     \* suspend count of its main thread
  others,       \* suspensions of the process by other tools
  workers,      \* its other threads
  pc,           \* what cmd_restore does next
  round,        \* rounds of wait_for_loader
  killed,       \* the tool was ended without unwinding
  faults

tool == <<pc, round, killed>>
vars == <<new, stage, suspends, others, workers, tool, faults>>

\* Stages of the main thread: kernel32.dll is in the module list from Mapped on.
Created == 0
Loading == 1
Mapped == 2
UserCode == 3

Trial == {"resume", "sleep", "look"}            \* wait_for_loader
Injecting == {"memory", "threads", "release"}
Ended == {"done", "failed"}

Init ==
  /\ new = "none"
  /\ stage = Created
  /\ suspends = 0
  /\ others = 0
  /\ workers = 0
  /\ pc = "idle"
  /\ round = 0
  /\ killed = FALSE
  /\ faults = 0

-----------------------------------------------------------------------------
(* The new process and the other tools *)

MainRuns ==
  /\ new = "alive" /\ suspends = 0
  /\ stage < UserCode
  /\ stage' = stage + 1
  /\ UNCHANGED <<new, suspends, others, workers, tool, faults>>

WorkerStarts ==
  /\ new = "alive" /\ stage >= Loading
  /\ suspends = 0 \/ (workers > 0 /\ others = 0)
  /\ workers < MaxWorkers
  /\ workers' = workers + 1
  /\ UNCHANGED <<new, stage, suspends, others, tool, faults>>

WorkerEnds ==
  /\ new = "alive" /\ workers > 0 /\ others = 0
  /\ workers' = workers - 1
  /\ UNCHANGED <<new, stage, suspends, others, tool, faults>>

NewExits ==
  /\ new = "alive"
  /\ new' = "dead"
  /\ UNCHANGED <<stage, suspends, others, workers, tool, faults>>

\* NtSuspendProcess and NtResumeProcess by another tool count for each thread.
OtherSuspends ==
  /\ new = "alive" /\ others < MaxOthers
  /\ others' = others + 1
  /\ suspends' = suspends + 1
  /\ UNCHANGED <<new, stage, workers, tool, faults>>

AfterResume == IF suspends > 0 THEN suspends - 1 ELSE 0

OtherResumes ==
  /\ others > 0
  /\ others' = others - 1
  /\ suspends' = AfterResume
  /\ UNCHANGED <<new, stage, workers, tool, faults>>

-----------------------------------------------------------------------------
(* launch_suspended *)

Goto(label) == ~killed /\ pc' = label /\ UNCHANGED killed

\* The suspend count becomes n, or the call fails and nobody looks: on a
\* terminated process nothing else comes of it.
Counts(n) ==
  \/ suspends' = n /\ UNCHANGED faults
  \/ new = "dead" /\ UNCHANGED <<suspends, faults>>
  \/ faults < MaxFaults /\ faults' = faults + 1 /\ UNCHANGED suspends

\* read_snapshot, exe.exists() and CreateProcessW with CREATE_SUSPENDED.
Launch ==
  /\ pc = "idle"
  /\ new' = "alive"
  /\ suspends' = 1
  /\ Goto("resume")
  /\ UNCHANGED <<stage, others, workers, round, faults>>

LaunchFails ==
  /\ pc = "idle"
  /\ Goto("failed")
  /\ UNCHANGED <<new, stage, suspends, others, workers, round, faults>>

\* Mutant of ResumeRound: after a resume that fails the thread is suspended anew.
ResumeRoundSuspends ==
  /\ pc = "resume"
  /\ \/ suspends' = AfterResume /\ UNCHANGED faults
     \/ faults < MaxFaults /\ faults' = faults + 1 /\ suspends' = suspends + 1
  /\ Goto("sleep")
  /\ UNCHANGED <<new, stage, others, workers, round>>

ResumeRound ==
  /\ pc = "resume"
  /\ Counts(AfterResume)
  /\ Goto("sleep")
  /\ UNCHANGED <<new, stage, others, workers, round>>

\* Mutant of SuspendRound: the modules are looked at while the thread runs.
SuspendRoundForgotten ==
  /\ pc = "sleep"
  /\ Goto("look")
  /\ UNCHANGED <<new, stage, suspends, others, workers, round, faults>>

SuspendRound ==
  /\ pc = "sleep"
  /\ Counts(suspends + 1)
  /\ Goto("look")
  /\ UNCHANGED <<new, stage, others, workers, round>>

LoaderReady ==
  /\ pc = "look"
  /\ new = "alive" /\ stage >= Mapped
  /\ Goto("memory")
  /\ UNCHANGED <<new, stage, suspends, others, workers, round, faults>>

\* Mutant of LoaderNotReady: the rounds are not counted.
LoaderNotReadyForever ==
  /\ pc = "look"
  /\ Goto("resume")
  /\ UNCHANGED <<new, stage, suspends, others, workers, round, faults>>

\* Mutant of LoaderNotReady: one round too many.
LoaderNotReadyLate ==
  /\ pc = "look"
  /\ round' = round + 1
  /\ Goto(IF round' <= Rounds THEN "resume" ELSE "failed")
  /\ UNCHANGED <<new, stage, suspends, others, workers, faults>>

\* Not yet, or the module list could not be taken; an error after all rounds.
LoaderNotReady ==
  /\ pc = "look"
  /\ round' = round + 1
  /\ Goto(IF round' < Rounds THEN "resume" ELSE "failed")
  /\ UNCHANGED <<new, stage, suspends, others, workers, faults>>

-----------------------------------------------------------------------------
(* cmd_restore after the launch *)

\* Mutant of RestoreMemory: the thread is resumed before its context is set.
RestoreMemoryAndResume ==
  /\ pc = "memory"
  /\ suspends' = AfterResume
  /\ Goto("threads")
  /\ UNCHANGED <<new, stage, others, workers, round, faults>>

\* restore_memory has no error path.
RestoreMemory ==
  /\ pc = "memory"
  /\ Goto("threads")
  /\ UNCHANGED <<new, stage, suspends, others, workers, round, faults>>

\* restore_thread_contexts needs one thread to set.
RestoreThreads ==
  /\ pc = "threads"
  /\ \/ new = "alive" /\ Goto("release")
     \/ Goto("failed")
  /\ UNCHANGED <<new, stage, suspends, others, workers, round, faults>>

\* Mutant of Release: success is reported without a resume.
ReleaseForgotten ==
  /\ pc = "release"
  /\ Goto("done")
  /\ UNCHANGED <<new, stage, suspends, others, workers, round, faults>>

\* resume_main_thread, the only call of ResumeThread that is looked at.
Release ==
  /\ pc = "release"
  /\ suspends' = AfterResume
  /\ Goto("done")
  /\ UNCHANGED <<new, stage, others, workers, round, faults>>

\* The process may have ended, but ResumeThread can fail on a live one too.
ReleaseFails ==
  /\ pc = "release"
  /\ Goto("failed")
  /\ UNCHANGED <<new, stage, suspends, others, workers, round, faults>>

\* println! panics; the drop of SuspendedProcess only closes the handles.  The
\* last message comes after the resume: a panic there is the end of "done".
Panic ==
  /\ pc \in (Trial \ {"sleep"}) \cup Injecting
  /\ Goto("failed")
  /\ UNCHANGED <<new, stage, suspends, others, workers, round, faults>>

Kill ==
  /\ pc \notin Ended /\ ~killed
  /\ killed' = TRUE
  /\ UNCHANGED <<new, stage, suspends, others, workers, pc, round, faults>>

Step ==
  \/ Launch \/ LaunchFails \/ ResumeRound \/ SuspendRound
  \/ LoaderReady \/ LoaderNotReady
  \/ RestoreMemory \/ RestoreThreads \/ Release \/ ReleaseFails

Environment ==
  \/ MainRuns \/ WorkerStarts \/ WorkerEnds \/ NewExits
  \/ OtherSuspends \/ OtherResumes

Next == Step \/ Panic \/ Kill \/ Environment

Spec == Init /\ [][Next]_vars

\* The tool is scheduled, and the other tools resume what they have suspended
\* (SnapshotCommand, Thawed).
FairSpec == Spec /\ WF_vars(Step) /\ WF_vars(OtherResumes)

-----------------------------------------------------------------------------
(* Properties *)

TypeOK ==
  /\ new \in {"none", "alive", "dead"}
  /\ stage \in Created..UserCode
  /\ suspends \in Nat /\ others \in 0..MaxOthers
  /\ workers \in 0..MaxWorkers
  /\ pc \in {"idle"} \cup Trial \cup Injecting \cup Ended
  /\ round \in 0..Rounds /\ (pc \in Trial => round < Rounds)
  /\ killed \in BOOLEAN
  /\ faults \in 0..MaxFaults

\* Where the tool itself holds the main thread suspended.
Holding == {"resume", "look", "failed"} \cup Injecting

\* What the suspend count should be.
Expected == others + (IF pc \in Holding THEN 1 ELSE 0)

\* However the rounds of wait_for_loader interleave with the suspensions of
\* other tools, and wherever the restore fails, the suspend count is what the
\* others hold and one of its own: a process that a failed restore leaves
\* behind never runs what was injected half.  (As long as no call fails.)
CountIsShared == new = "alive" /\ faults = 0 => suspends = Expected

\* With calls of ResumeThread and SuspendThread that fail unseen in
\* wait_for_loader, the count is off by their number at most, upwards or
\* downwards: the rounds, other tools and errors after them add nothing, so the
\* main thread of a restored process stays frozen, or runs while its memory is
\* replaced, only if one of those calls failed.
FaultsShiftCount ==
  new = "alive" => suspends <= Expected + faults /\ Expected <= suspends + faults

\* From the look at the modules to the resume, the main thread executes
\* nothing: what loader_ready saw is still so when memory and registers are
\* replaced.
MainStandsStill ==
  [][faults = 0 /\ pc \in {"look"} \cup Injecting => stage' = stage]_vars

\* The restore comes to an end, whatever the new process does.
RestoreEnds == (pc # "idle") ~> (pc \in Ended \/ killed)

\* "PID is running" (main.rs, the last message of cmd_restore): after success
\* nothing keeps the main thread suspended for good, unless a call failed unseen
\* in wait_for_loader (a failed resume leaves one suspension too many).
DoneRuns == (pc = "done" /\ faults = 0) ~> (suspends = 0 \/ new = "dead")

Handed == INSTANCE HandOver WITH
  position <- stage,
  phase <- CASE new = "none" -> "none"
             [] new = "dead" -> "gone"
             [] new = "alive" /\ faults > 0 -> "lost"
             [] new = "alive" /\ faults = 0 /\ pc \in Trial -> "trial"
             [] new = "alive" /\ faults = 0 /\ pc \in Injecting -> "held"
             [] new = "alive" /\ faults = 0 /\ pc = "done" -> "free"
             [] OTHER -> "left"

\* cmd_restore implements HandOver; from the first call that fails unseen on,
\* it has lost the thread.
ImplementsHandOver == Handed!Spec

=============================================================================
