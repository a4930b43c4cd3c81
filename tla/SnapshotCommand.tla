--------------------------- MODULE SnapshotCommand ---------------------------
(***************************************************************************)
(* cmd_snapshot (src/src/main.rs) with the SuspendGuard it holds           *)
(* (process/suspend.rs), the memory dump and the capture of the thread     *)
(* contexts, run by one or more tools against the same target process.     *)
(*                                                                         *)
(* The target is external: it runs (its memory and registers change)       *)
(* whenever its suspend count is 0, and may be terminated at any time.     *)
(* Its state is a version number; a captured part is the version it was    *)
(* read at.  What a region or a register context holds is abstracted.      *)
(*                                                                         *)
(* MaxVersion bounds the changes of the target, MaxKills the tools that    *)
(* end without unwinding (killed, or aborted by a failed allocation).      *)
(***************************************************************************)
EXTENDS Naturals, FiniteSets

CONSTANTS
  Tools,        \* invocations of quick_resume --snapshot
  NRegions,     \* regions VirtualQueryEx reports for the target
  NThreads,     \* threads of the target
  MaxVersion,
  MaxKills

ASSUME ToolsAssumption == IsFiniteSet(Tools)
ASSUME BoundsAssumption ==
  NRegions \in Nat /\ NThreads \in Nat /\ MaxVersion \in Nat /\ MaxKills \in Nat

VARIABLES
  alive,        \* the target has not been terminated
  count,        \* suspend count of the target
  version,      \* version of the target's memory and registers
  pc,           \* pc[t]: where cmd_snapshot of tool t is
  guard,        \* guard[t]: "none", "held" (resumed = false), "resumed"
  region,       \* region[t]: next region of the walk in dump_memory
  listed,       \* listed[t]: how many thread ids collect_tids returned
  thread,       \* thread[t]: next thread of capture_thread_contexts
  stamp,        \* stamp[t]: versions at which t's captured parts were read
  kills

vars == <<alive, count, version, pc, guard, region, listed, thread, stamp, kills>>

Held == {"dumping", "listing", "capturing", "resuming"}
Running == {"attached", "writing"} \cup Held
Ended == {"done", "failed", "killed"}

Init ==
  /\ alive = TRUE
  /\ count = 0
  /\ version = 0
  /\ pc = [t \in Tools |-> "idle"]
  /\ guard = [t \in Tools |-> "none"]
  /\ region = [t \in Tools |-> 1]
  /\ listed = [t \in Tools |-> 0]
  /\ thread = [t \in Tools |-> 1]
  /\ stamp = [t \in Tools |-> {}]
  /\ kills = 0

-----------------------------------------------------------------------------
(* The target and the operating system *)

TargetRuns ==
  /\ alive /\ count = 0
  /\ version < MaxVersion
  /\ version' = version + 1
  /\ UNCHANGED <<alive, count, pc, guard, region, listed, thread, stamp, kills>>

TargetExits ==
  /\ alive
  /\ alive' = FALSE
  /\ UNCHANGED <<count, version, pc, guard, region, listed, thread, stamp, kills>>

\* The suspend count after NtResumeProcess: never below 0, and a call on a
\* terminated process fails (a negative NTSTATUS) and changes nothing.
AfterNtResume == IF alive /\ count > 0 THEN count - 1 ELSE count

-----------------------------------------------------------------------------
(* SuspendGuard *)

\* Mutants of AfterDrop: a drop that forgets the `resumed` flag, no drop at all.
AfterDropUnconditional(t) == AfterNtResume
AfterDropMissing(t) == count

\* SuspendGuard::drop resumes the target unless resume() already did.
AfterDrop(t) == IF guard[t] = "held" THEN AfterNtResume ELSE count

\* Every way out of cmd_snapshot that unwinds: the guard, if any, is dropped.
Leave(t, outcome) ==
  /\ pc' = [pc EXCEPT ![t] = outcome]
  /\ count' = AfterDrop(t)
  /\ guard' = [guard EXCEPT ![t] = "none"]
  /\ UNCHANGED <<alive, version, region, listed, thread, stamp, kills>>

-----------------------------------------------------------------------------
(* cmd_snapshot *)

Goto(t, label) == pc' = [pc EXCEPT ![t] = label]

Attach(t) ==
  /\ pc[t] = "idle"
  /\ alive
  /\ Goto(t, "attached")
  /\ UNCHANGED <<alive, count, version, guard, region, listed, thread, stamp, kills>>

\* No process of that name, or it may not be opened.
AttachFails(t) ==
  /\ pc[t] = "idle"
  /\ Leave(t, "failed")

Suspend(t) ==
  /\ pc[t] = "attached"
  /\ alive
  /\ count' = count + 1
  /\ guard' = [guard EXCEPT ![t] = "held"]
  /\ Goto(t, "dumping")
  /\ UNCHANGED <<alive, version, region, listed, thread, stamp, kills>>

SuspendFails(t) ==
  /\ pc[t] = "attached"
  /\ Leave(t, "failed")

\* A read that yields bytes keeps the part, one that yields none is counted
\* and skipped; either way the loop goes on.
Reads(t) ==
  \E got \in {{}} \cup (IF alive THEN {{version}} ELSE {}) :
    stamp' = [stamp EXCEPT ![t] = @ \cup got]

\* VirtualQueryEx returns 0 past the last region, or once the target is gone.
WalkEnds(t) == ~alive \/ region[t] > NRegions

DumpRegion(t) ==
  /\ pc[t] = "dumping"
  /\ ~WalkEnds(t)
  /\ region' = [region EXCEPT ![t] = @ + 1]
  /\ Reads(t)
  /\ UNCHANGED <<alive, count, version, pc, guard, listed, thread, kills>>

\* Mutant of EndDump: the target is thawed before its threads are captured.
EndDumpAndThaw(t) ==
  /\ pc[t] = "dumping"
  /\ WalkEnds(t)
  /\ count' = AfterNtResume
  /\ Goto(t, "listing")
  /\ UNCHANGED <<alive, version, guard, region, listed, thread, stamp, kills>>

EndDump(t) ==
  /\ pc[t] = "dumping"
  /\ WalkEnds(t)
  /\ Goto(t, "listing")
  /\ UNCHANGED <<alive, count, version, guard, region, listed, thread, stamp, kills>>

\* collect_tids: a terminated process has no threads in the listing.
ListThreads(t) ==
  /\ pc[t] = "listing"
  /\ listed' = [listed EXCEPT ![t] = IF alive THEN NThreads ELSE 0]
  /\ Goto(t, "capturing")
  /\ UNCHANGED <<alive, count, version, guard, region, thread, stamp, kills>>

ListThreadsFails(t) ==
  /\ pc[t] = "listing"
  /\ Leave(t, "failed")

\* Mutant of MoreThreads: one index too many.
MoreThreadsInclusive(t) == thread[t] <= listed[t] + 1

MoreThreads(t) == thread[t] <= listed[t]

CaptureOne(t) ==
  /\ pc[t] = "capturing"
  /\ MoreThreads(t)
  /\ thread' = [thread EXCEPT ![t] = @ + 1]
  /\ Reads(t)
  /\ UNCHANGED <<alive, count, version, pc, guard, region, listed, kills>>

EndCapture(t) ==
  /\ pc[t] = "capturing"
  /\ ~MoreThreads(t)
  /\ Goto(t, "resuming")
  /\ UNCHANGED <<alive, count, version, guard, region, listed, thread, stamp, kills>>

\* Mutant of Resume: the status of NtResumeProcess is not looked at.
ResumeUnchecked(t) ==
  /\ pc[t] = "resuming"
  /\ count' = AfterNtResume
  /\ guard' = [guard EXCEPT ![t] = "resumed"]
  /\ Goto(t, "writing")
  /\ UNCHANGED <<alive, version, region, listed, thread, stamp, kills>>

\* guard.resume()? : on failure the captured data is dropped with the guard.
Resume(t) ==
  /\ pc[t] = "resuming"
  /\ alive
  /\ count' = AfterNtResume
  /\ guard' = [guard EXCEPT ![t] = "resumed"]
  /\ Goto(t, "writing")
  /\ UNCHANGED <<alive, version, region, listed, thread, stamp, kills>>

ResumeFails(t) ==
  /\ pc[t] = "resuming"
  /\ ~alive
  /\ Leave(t, "failed")

\* build_payload and write_snapshot, then the locals are dropped.
WriteSnapshot(t) ==
  /\ pc[t] = "writing"
  /\ \E outcome \in {"done", "failed"} : Leave(t, outcome)

\* A panic unwinds (println! panics when the console is gone).
Panic(t) ==
  /\ pc[t] \in Running
  /\ Leave(t, "failed")

\* The tool ends without unwinding: no drop runs.
Kill(t) ==
  /\ pc[t] \in Running
  /\ kills < MaxKills
  /\ kills' = kills + 1
  /\ Goto(t, "killed")
  /\ UNCHANGED <<alive, count, version, guard, region, listed, thread, stamp>>

Step(t) ==
  \/ Attach(t) \/ AttachFails(t) \/ Suspend(t) \/ SuspendFails(t)
  \/ DumpRegion(t) \/ EndDump(t)
  \/ ListThreads(t) \/ ListThreadsFails(t) \/ CaptureOne(t) \/ EndCapture(t)
  \/ Resume(t) \/ ResumeFails(t) \/ WriteSnapshot(t)

Next ==
  \/ TargetRuns
  \/ TargetExits
  \/ \E t \in Tools : Step(t) \/ Panic(t) \/ Kill(t)

Spec == Init /\ [][Next]_vars

\* A tool is a straight-line program that the scheduler keeps running.
Fairness == \A t \in Tools : WF_vars(Step(t))

FairSpec == Spec /\ Fairness

-----------------------------------------------------------------------------
(* Properties *)

TypeOK ==
  /\ alive \in BOOLEAN
  /\ count \in Nat /\ version \in 0..MaxVersion /\ kills \in 0..MaxKills
  /\ pc \in [Tools -> {"idle"} \cup Running \cup Ended]
  /\ guard \in [Tools -> {"none", "held", "resumed"}]
  /\ region \in [Tools -> 1..(NRegions + 1)]
  /\ listed \in [Tools -> 0..NThreads]
  /\ thread \in [Tools -> 1..(NThreads + 1)]
  /\ stamp \in [Tools -> SUBSET (0..MaxVersion)]

Holders == {t \in Tools : guard[t] = "held"}

\* While the target lives, every suspension is owned by exactly one guard that
\* has not resumed it: no path through cmd_snapshot, with however many tools
\* interleaved, resumes twice or forgets to resume (suspend.rs, resume and drop).
CountMatchesGuards == alive => count = Cardinality(Holders)

\* All that one tool captures, regions and thread contexts alike, is read at
\* one version of the target: the guard of another tool, dropped at whatever
\* moment, never lets the target run in the middle of a capture.
ConsistentCut == \A t \in Tools : \A u, v \in stamp[t] : u = v

\* A snapshot reported as written went through every region and every thread:
\* the walks that end early because the target was terminated under the tool
\* (and end without an error) never reach the file, thanks to guard.resume()?.
WrittenIsComplete ==
  \A t \in Tools : pc[t] = "done" =>
    /\ region[t] = NRegions + 1
    /\ listed[t] = NThreads /\ thread[t] = NThreads + 1

\* A frozen target runs again, or is gone, after any mix of errors and panics,
\* unless one of the tools was killed.
Thawed == (alive /\ count > 0) ~> (count = 0 \/ ~alive \/ kills > 0)

\* Once every tool has ended, however it ended, the target is not frozen
\* (README: "the target process is never left permanently frozen").
NeverLeftFrozen == alive /\ (\A t \in Tools : pc[t] \in Ended) => count = 0

\* A snapshot is an atomic copy: the captured parts are the copy in flight
\* until cmd_snapshot returns, and what was written once it has.
Atomic == INSTANCE AtomicSnapshot WITH
  now <- version,
  inflight <- [t \in Tools |-> IF pc[t] \in Running THEN stamp[t] ELSE {}],
  saved <- [t \in Tools |-> IF pc[t] = "done" THEN stamp[t] ELSE {}]

\* cmd_snapshot implements AtomicSnapshot.
ImplementsAtomicSnapshot == Atomic!Spec

=============================================================================
