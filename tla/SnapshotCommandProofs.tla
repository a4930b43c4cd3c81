----------------------- MODULE SnapshotCommandProofs -----------------------
(***************************************************************************)
(* Theorems about SnapshotCommand, for any number of tools, regions,       *)
(* threads, changes of the target and kills.                               *)
(*                                                                         *)
(* The inductive invariant says what each point of cmd_snapshot knows:     *)
(* where a guard is held, what was read so far, and how far the two walks  *)
(* went if the target is still alive.                                      *)
(***************************************************************************)
EXTENDS SnapshotCommand, FiniteSetTheorems, TLAPS

\* The guard exists exactly between Suspend and the end of cmd_snapshot.
GuardOfPc(t) ==
  /\ pc[t] \in {"idle", "attached", "done", "failed"} => guard[t] = "none"
  /\ pc[t] \in Held => guard[t] = "held"
  /\ pc[t] = "writing" => guard[t] = "resumed"

\* While the guard is held the live target cannot have changed since a read.
StampOfPc(t) ==
  /\ pc[t] \in {"idle", "attached"} => stamp[t] = {}
  /\ alive /\ pc[t] \in Held => stamp[t] \subseteq {version}

\* How far the walks went, unless the target died under them.
ProgressOfPc(t) ==
  /\ pc[t] \in {"writing", "done"} \/ (alive /\ pc[t] \in {"listing", "capturing", "resuming"})
       => region[t] = NRegions + 1
  /\ pc[t] \in {"writing", "done"} \/ (alive /\ pc[t] \in {"capturing", "resuming"})
       => listed[t] = NThreads
  /\ pc[t] \in {"writing", "done"} \/ (alive /\ pc[t] = "resuming")
       => thread[t] = NThreads + 1

GuardInv == \A t \in Tools : GuardOfPc(t)
StampInv == \A t \in Tools : StampOfPc(t)
ProgressInv == \A t \in Tools : ProgressOfPc(t)

IInv == /\ TypeOK /\ GuardInv /\ CountMatchesGuards
        /\ StampInv /\ ConsistentCut /\ ProgressInv

-----------------------------------------------------------------------------
(* Types *)

\* Every variable keeps its type: the suspend count never goes below zero and
\* neither walk goes past its end.
THEOREM TypeCorrect == Spec => []TypeOK
<1> USE BoundsAssumption
<1>1. Init => TypeOK
  BY DEF Init, TypeOK, Running, Held, Ended
<1>2. TypeOK /\ [Next]_vars => TypeOK'
  <2> SUFFICES ASSUME TypeOK, [Next]_vars PROVE TypeOK'
    OBVIOUS
  <2> USE DEF TypeOK, Running, Held, Ended
  <2>1. CASE TargetRuns
    BY <2>1 DEF TargetRuns
  <2>2. CASE TargetExits
    BY <2>2 DEF TargetExits
  <2>3. CASE UNCHANGED vars
    BY <2>3 DEF vars
  <2>4. ASSUME NEW t \in Tools, Step(t) PROVE TypeOK'
    <3>1. CASE Attach(t)
      BY <3>1 DEF Attach, Goto
    <3>2. CASE AttachFails(t) \/ Suspend(t)
      BY <3>2 DEF AttachFails, Leave, AfterDrop, AfterNtResume, Suspend, Goto
    <3>3. CASE SuspendFails(t)
      BY <3>3 DEF SuspendFails, Leave, AfterDrop, AfterNtResume
    <3>4. CASE DumpRegion(t)
      BY <3>4 DEF DumpRegion, WalkEnds, Reads
    <3>5. CASE EndDump(t)
      BY <3>5 DEF EndDump, Goto
    <3>6. CASE ListThreads(t)
      BY <3>6 DEF ListThreads, Goto
    <3>7. CASE ListThreadsFails(t)
      BY <3>7 DEF ListThreadsFails, Leave, AfterDrop, AfterNtResume
    <3>8. CASE CaptureOne(t)
      BY <3>8 DEF CaptureOne, MoreThreads, Reads
    <3>9. CASE EndCapture(t)
      BY <3>9 DEF EndCapture, Goto
    <3>10. CASE Resume(t)
      BY <3>10 DEF Resume, Goto, AfterNtResume
    <3>11. CASE ResumeFails(t)
      BY <3>11 DEF ResumeFails, Leave, AfterDrop, AfterNtResume
    <3>12. CASE WriteSnapshot(t)
      BY <3>12 DEF WriteSnapshot, Leave, AfterDrop, AfterNtResume
    <3> QED
      BY <2>4, <3>1, <3>2, <3>3, <3>4, <3>5, <3>6, <3>7, <3>8, <3>9, <3>10,
         <3>11, <3>12 DEF Step
  <2>5. ASSUME NEW t \in Tools, Panic(t) PROVE TypeOK'
    BY <2>5 DEF Panic, Leave, AfterDrop, AfterNtResume
  <2>6. ASSUME NEW t \in Tools, Kill(t) PROVE TypeOK'
    BY <2>6 DEF Kill, Goto
  <2> QED
    BY <2>1, <2>2, <2>3, <2>4, <2>5, <2>6 DEF Next
<1> QED
  BY <1>1, <1>2, PTL DEF Spec

-----------------------------------------------------------------------------
(* The inductive invariant *)

\* Adding and removing one holder changes the number of holders by one.
LEMMA CountHolders ==
  ASSUME NEW S \in SUBSET Tools, NEW t \in Tools
  PROVE  /\ Cardinality(S) \in Nat
         /\ t \notin S => Cardinality(S \cup {t}) = Cardinality(S) + 1
         /\ t \in S => Cardinality(S \ {t}) = Cardinality(S) - 1 /\ Cardinality(S) > 0
<1>1. IsFiniteSet(S)
  BY ToolsAssumption, FS_Subset
<1>2. Cardinality(S) \in Nat /\ Cardinality(S \ {t}) \in Nat
  BY <1>1, FS_CardinalityType, FS_RemoveElement
<1>3. t \notin S => Cardinality(S \cup {t}) = Cardinality(S) + 1
  BY <1>1, FS_AddElement
<1>4. t \in S => Cardinality(S \ {t}) = Cardinality(S) - 1
  BY <1>1, FS_RemoveElement
<1> QED
  BY <1>2, <1>3, <1>4

\* Suspend makes t a holder and adds one suspension.
LEMMA SuspendCounts ==
  ASSUME TypeOK, GuardInv, CountMatchesGuards, NEW t \in Tools, Suspend(t)
  PROVE  CountMatchesGuards'
<1>1. t \notin Holders /\ Holders' = Holders \cup {t}
  BY DEF Suspend, GuardInv, GuardOfPc, Holders, TypeOK
<1>2. Holders \in SUBSET Tools
  BY DEF Holders
<1>3. Cardinality(Holders') = Cardinality(Holders) + 1
  BY <1>1, <1>2, CountHolders
<1> QED
  BY <1>3 DEF Suspend, CountMatchesGuards

\* A guard that ends its hold takes one suspension with it.
LEMMA ReleaseCounts ==
  ASSUME TypeOK, CountMatchesGuards, NEW t \in Tools, NEW g \in {"none", "resumed"},
         guard' = [guard EXCEPT ![t] = g], alive' = alive, count' = AfterDrop(t)
  PROVE  CountMatchesGuards'
<1>1. Holders \in SUBSET Tools
  BY DEF Holders
<1>2. CASE guard[t] = "held"
  <2>1. t \in Holders /\ Holders' = Holders \ {t}
    BY <1>2 DEF Holders, TypeOK
  <2>2. Cardinality(Holders') = Cardinality(Holders) - 1 /\ Cardinality(Holders) > 0
    BY <1>1, <2>1, CountHolders
  <2> QED
    BY <1>2, <2>2 DEF AfterDrop, AfterNtResume, CountMatchesGuards, TypeOK
<1>3. CASE guard[t] # "held"
  <2>1. Holders' = Holders
    BY <1>3 DEF Holders, TypeOK
  <2> QED
    BY <1>3, <2>1 DEF AfterDrop, CountMatchesGuards
<1> QED
  BY <1>2, <1>3

\* A live target with a guard on it is frozen.
LEMMA HeldIsFrozen ==
  ASSUME TypeOK, GuardInv, CountMatchesGuards, alive, NEW t \in Tools, pc[t] \in Held
  PROVE  count > 0
<1>1. t \in Holders /\ Holders \in SUBSET Tools
  BY DEF Holders, GuardInv, GuardOfPc
<1> QED
  BY <1>1, CountHolders DEF CountMatchesGuards

\* The invariant is kept by every step of a tool.
LEMMA StepKeepsIInv ==
  ASSUME IInv, TypeOK', NEW t \in Tools, Step(t) \/ Panic(t) \/ Kill(t)
  PROVE  IInv'
<1> USE DEF TypeOK, Held, Running, Ended
<1>1. GuardInv'
  BY DEF IInv, GuardInv, GuardOfPc, Step, Attach, AttachFails, Suspend, SuspendFails, DumpRegion,
         EndDump, ListThreads, ListThreadsFails, CaptureOne, EndCapture, Resume,
         ResumeFails, WriteSnapshot, Panic, Kill, Leave, Goto
<1>2. CountMatchesGuards'
  <2>1. CASE Suspend(t)
    BY <2>1, SuspendCounts DEF IInv
  <2>2. CASE AttachFails(t) \/ SuspendFails(t) \/ ListThreadsFails(t) \/ ResumeFails(t)
             \/ WriteSnapshot(t) \/ Panic(t)
    BY <2>2, ReleaseCounts DEF IInv, AttachFails, SuspendFails, ListThreadsFails, ResumeFails,
                               WriteSnapshot, Panic, Leave
  <2>3. CASE Resume(t)
    <3>1. guard[t] = "held"
      BY <2>3 DEF IInv, GuardInv, GuardOfPc, Resume
    <3> QED
      BY <2>3, <3>1, ReleaseCounts DEF IInv, Resume, AfterDrop
  <2>4. CASE Attach(t) \/ DumpRegion(t) \/ EndDump(t) \/ ListThreads(t)
             \/ CaptureOne(t) \/ EndCapture(t) \/ Kill(t)
    BY <2>4 DEF IInv, CountMatchesGuards, Holders, Attach, DumpRegion, EndDump,
                ListThreads, CaptureOne, EndCapture, Kill
  <2> QED
    BY <2>1, <2>2, <2>3, <2>4 DEF Step
<1>3. StampInv'
  BY DEF IInv, StampInv, StampOfPc, Reads, Step, Attach, AttachFails, Suspend,
         SuspendFails, DumpRegion, EndDump, ListThreads, ListThreadsFails, CaptureOne, EndCapture,
         Resume, ResumeFails, WriteSnapshot, Panic, Kill, Leave, Goto
<1>4. ConsistentCut'
  BY DEF IInv, StampInv, StampOfPc, ConsistentCut, Reads, Step, Attach, AttachFails, Suspend,
         SuspendFails, DumpRegion, EndDump, ListThreads, ListThreadsFails, CaptureOne,
         EndCapture, Resume, ResumeFails, WriteSnapshot, Panic, Kill, Leave, Goto
<1>5. ProgressInv'
  BY BoundsAssumption
     DEF IInv, ProgressInv, ProgressOfPc, WalkEnds, MoreThreads, Step, Attach, AttachFails, Suspend,
         SuspendFails, DumpRegion, EndDump, ListThreads, ListThreadsFails, CaptureOne,
         EndCapture, Resume, ResumeFails, WriteSnapshot, Panic, Kill, Leave, Goto
<1> QED
  BY <1>1, <1>2, <1>3, <1>4, <1>5 DEF IInv

\* The target only runs when no guard is held, and never comes back to life.
LEMMA TargetKeepsIInv ==
  ASSUME IInv, TypeOK', TargetRuns \/ TargetExits
  PROVE  IInv'
<1> USE DEF IInv, GuardInv, GuardOfPc, CountMatchesGuards, Holders, StampInv, StampOfPc,
            ConsistentCut, ProgressInv, ProgressOfPc
<1>1. CASE TargetRuns
  <2>1. alive /\ count = 0
    BY <1>1 DEF TargetRuns
  <2>2. \A t \in Tools : pc[t] \notin Held
    BY <2>1, HeldIsFrozen
  <2> QED
    BY <1>1, <2>2 DEF TargetRuns
<1>2. CASE TargetExits
  BY <1>2 DEF TargetExits
<1> QED
  BY <1>1, <1>2

\* IInv holds in every reachable state.
LEMMA Inductive == Spec => []IInv
<1>1. Init => IInv
  <2> SUFFICES ASSUME Init PROVE IInv
    OBVIOUS
  <2>1. TypeOK
    BY BoundsAssumption DEF Init, TypeOK, Running, Held, Ended
  <2>2. Holders = {} /\ Cardinality({}) = 0
    BY FS_EmptySet DEF Init, Holders
  <2> QED
    BY <2>1, <2>2 DEF Init, IInv, GuardInv, GuardOfPc, CountMatchesGuards, StampInv,
                      StampOfPc, ConsistentCut, ProgressInv, ProgressOfPc, Held
<1>2. IInv /\ TypeOK' /\ [Next]_vars => IInv'
  <2> SUFFICES ASSUME IInv, TypeOK', [Next]_vars PROVE IInv'
    OBVIOUS
  <2>1. CASE UNCHANGED vars
    BY <2>1 DEF vars, IInv, TypeOK, GuardInv, GuardOfPc, CountMatchesGuards, Holders,
                StampInv, StampOfPc, ConsistentCut, ProgressInv, ProgressOfPc
  <2>2. CASE TargetRuns \/ TargetExits
    BY <2>2, TargetKeepsIInv
  <2>3. ASSUME NEW t \in Tools, Step(t) \/ Panic(t) \/ Kill(t) PROVE IInv'
    BY <2>3, StepKeepsIInv
  <2> QED
    BY <2>1, <2>2, <2>3 DEF Next
<1> QED
  BY <1>1, <1>2, TypeCorrect, PTL DEF Spec

-----------------------------------------------------------------------------
(* Safety *)

\* While the target lives its suspend count is the number of guards held: no
\* interleaving of tools, errors and panics leaks a suspension or resumes twice.
THEOREM CountsAreOwned == Spec => []CountMatchesGuards
<1>1. IInv => CountMatchesGuards
  BY DEF IInv
<1> QED
  BY <1>1, Inductive, PTL

\* What one --snapshot captures is the target at one instant.
THEOREM SnapshotsAreConsistent == Spec => []ConsistentCut
<1>1. IInv => ConsistentCut
  BY DEF IInv
<1> QED
  BY <1>1, Inductive, PTL

\* A snapshot reported as written went through every region and every thread.
THEOREM WrittenSnapshotsAreComplete == Spec => []WrittenIsComplete
<1>1. IInv => WrittenIsComplete
  BY DEF IInv, ProgressInv, ProgressOfPc, WrittenIsComplete
<1> QED
  BY <1>1, Inductive, PTL

-----------------------------------------------------------------------------
(* The frozen target *)

Killed == {t \in Tools : pc[t] = "killed"}

\* Each kill ended one tool.
KillsCounted == Cardinality(Killed) = kills

\* Once every tool has ended each kill has left at most one suspension behind.
LeaksAreKills == alive /\ (\A t \in Tools : pc[t] \in Ended) => count <= kills

LEMMA KillsAreCounted == Spec => []KillsCounted
<1> USE DEF TypeOK, Held, Running, Ended
<1>1. Init => KillsCounted
  <2>1. Init => Killed = {} /\ kills = 0
    BY DEF Init, Killed
  <2> QED
    BY <2>1, FS_EmptySet DEF KillsCounted
<1>2. TypeOK /\ KillsCounted /\ [Next]_vars => KillsCounted'
  <2> SUFFICES ASSUME TypeOK, KillsCounted, [Next]_vars PROVE KillsCounted'
    OBVIOUS
  <2>1. CASE TargetRuns \/ TargetExits \/ UNCHANGED vars
    BY <2>1 DEF TargetRuns, TargetExits, vars, KillsCounted, Killed
  <2>2. ASSUME NEW t \in Tools, Step(t) \/ Panic(t) PROVE KillsCounted'
    <3>1. kills' = kills /\ Killed' = Killed
      BY <2>2 DEF Killed, Step, Attach, AttachFails, Suspend, SuspendFails, DumpRegion, EndDump,
                  ListThreads, ListThreadsFails, CaptureOne, EndCapture, Resume, ResumeFails,
                  WriteSnapshot, Panic, Leave, Goto
    <3> QED
      BY <3>1 DEF KillsCounted
  <2>3. ASSUME NEW t \in Tools, Kill(t) PROVE KillsCounted'
    <3>1. t \notin Killed /\ Killed' = Killed \cup {t} /\ kills' = kills + 1
      BY <2>3 DEF Killed, Kill, Goto
    <3>2. Killed \in SUBSET Tools
      BY DEF Killed
    <3>3. Cardinality(Killed') = Cardinality(Killed) + 1
      BY <3>1, <3>2, CountHolders
    <3> QED
      BY <3>1, <3>3 DEF KillsCounted
  <2> QED
    BY <2>1, <2>2, <2>3 DEF Next
<1> QED
  BY <1>1, <1>2, TypeCorrect, PTL DEF Spec

\* Once every tool has ended the only guards left are those of killed tools.
LEMMA OnlyKillsLeak == IInv /\ KillsCounted => LeaksAreKills
<1> SUFFICES ASSUME IInv, KillsCounted, alive, \A t \in Tools : pc[t] \in Ended
             PROVE  count <= kills
  BY DEF LeaksAreKills
<1>1. Holders \subseteq Killed
  BY DEF IInv, GuardInv, GuardOfPc, Holders, Killed, Ended
<1>2. IsFiniteSet(Killed)
  BY ToolsAssumption, FS_Subset DEF Killed
<1>3. Cardinality(Holders) <= Cardinality(Killed)
  BY <1>1, <1>2, FS_Subset
<1> QED
  BY <1>3 DEF IInv, CountMatchesGuards, KillsCounted

\* A live target is left with no more suspensions than tools were killed, so
\* that with no kill the promise of the README holds: when every --snapshot has
\* ended, by whatever errors and panics, the target is not frozen.
THEOREM OnlyKillsFreeze == Spec => [](LeaksAreKills /\ (kills = 0 => NeverLeftFrozen))
<1>1. IInv /\ KillsCounted => LeaksAreKills /\ (kills = 0 => NeverLeftFrozen)
  BY OnlyKillsLeak DEF IInv, TypeOK, LeaksAreKills, NeverLeftFrozen
<1> QED
  BY <1>1, Inductive, KillsAreCounted, PTL

-----------------------------------------------------------------------------
(* How much is left to do *)

Stage == [idle |-> 7, attached |-> 6, dumping |-> 5, listing |-> 4, capturing |-> 3,
          resuming |-> 2, writing |-> 1]

\* The most steps that cmd_snapshot of tool t can still take.
StepsLeft(t) ==
  IF pc[t] \in Ended THEN 0
  ELSE Stage[pc[t]] + (NRegions + 1 - region[t]) + (NThreads + 1 - thread[t])

\* Every step of a tool, an error, a panic and a kill included, brings its own
\* end nearer, and no step of another tool or of the target puts it off.  The
\* target is thus frozen for a bounded number of steps of each tool: what WF
\* has to add for Thawed is only that the tool gets its turn.
THEOREM SnapshotsAreBounded ==
  Spec => [][\A t \in Tools :
               /\ StepsLeft(t)' \in 0..StepsLeft(t)
               /\ Step(t) \/ Panic(t) \/ Kill(t) => StepsLeft(t)' < StepsLeft(t)]_vars
<1> DEFINE Nearer(t) ==
      /\ StepsLeft(t)' \in 0..StepsLeft(t)
      /\ Step(t) \/ Panic(t) \/ Kill(t) => StepsLeft(t)' < StepsLeft(t)
<1> USE BoundsAssumption DEF TypeOK, Held, Running, Ended, StepsLeft, Stage
<1>1. TypeOK /\ TypeOK' /\ Next => \A t \in Tools : Nearer(t)
  <2> SUFFICES ASSUME TypeOK, TypeOK', Next, NEW t \in Tools PROVE Nearer(t)
    OBVIOUS
  <2>1. CASE Step(t) \/ Panic(t) \/ Kill(t)
    <3>1. StepsLeft(t)' \in Nat /\ StepsLeft(t) \in Nat
      OBVIOUS
    <3>2. StepsLeft(t)' < StepsLeft(t)
      BY <2>1 DEF Step, Attach, AttachFails, Suspend, SuspendFails, DumpRegion, EndDump,
                  ListThreads, ListThreadsFails, CaptureOne, EndCapture, Resume, ResumeFails,
                  WriteSnapshot, Panic, Kill, Leave, Goto, MoreThreads, WalkEnds
    <3> QED
      BY <3>1, <3>2
  <2>2. CASE ~(Step(t) \/ Panic(t) \/ Kill(t))
    <3>1. pc'[t] = pc[t] /\ region'[t] = region[t] /\ thread'[t] = thread[t]
      BY <2>2 DEF Next, TargetRuns, TargetExits, Step, Attach, AttachFails, Suspend, SuspendFails,
                  DumpRegion, EndDump, ListThreads, ListThreadsFails, CaptureOne, EndCapture,
                  Resume, ResumeFails, WriteSnapshot, Panic, Kill, Leave, Goto
    <3>2. StepsLeft(t) \in Nat
      OBVIOUS
    <3> QED
      BY <2>2, <3>1, <3>2
  <2> QED
    BY <2>1, <2>2
<1>2. TypeOK /\ TypeOK' /\ [Next]_vars => [\A t \in Tools : Nearer(t)]_vars
  BY <1>1
<1> QED
  BY <1>2, TypeCorrect, PTL DEF Spec

-----------------------------------------------------------------------------
(* Refinement *)

Copies == [t \in Tools |-> IF pc[t] \in Running THEN stamp[t] ELSE {}]
Files == [t \in Tools |-> IF pc[t] = "done" THEN stamp[t] ELSE {}]

\* A read takes the copy, or adds nothing to it.
LEMMA ReadRefines ==
  ASSUME IInv, NEW t \in Tools, pc[t] \in {"dumping", "capturing"},
         pc' = pc, version' = version, Reads(t)
  PROVE  [Atomic!Next]_Atomic!vars
<1> USE DEF IInv, TypeOK, StampInv, StampOfPc, Running, Held
<1>1. Files' = Files
  BY DEF Reads, Files
<1>2. CASE stamp' = stamp
  BY <1>1, <1>2 DEF Copies, Files, Atomic!vars
<1>3. CASE stamp' # stamp
  <2>1. alive /\ stamp[t] = {} /\ stamp' = [stamp EXCEPT ![t] = {version}]
    <3>1. PICK got \in {{}} \cup (IF alive THEN {{version}} ELSE {}) :
            stamp' = [stamp EXCEPT ![t] = @ \cup got]
      BY DEF Reads
    <3>2. got # {} /\ stamp[t] # stamp[t] \cup got
      BY <1>3, <3>1
    <3>3. alive /\ got = {version} /\ stamp[t] \subseteq {version}
      BY <3>1, <3>2
    <3>4. stamp[t] = {}
      BY <3>2, <3>3
    <3> QED
      BY <3>1, <3>3, <3>4
  <2>2. Copies[t] = {} /\ Copies' = [Copies EXCEPT ![t] = {version}]
    BY <2>1 DEF Copies
  <2> QED
    BY <1>1, <2>2 DEF Atomic!Next, Atomic!Take, Copies, Files
<1> QED
  BY <1>2, <1>3

\* cmd_snapshot ends: its copy is dropped, or published when it was written.
LEMMA EndRefines ==
  ASSUME IInv, NEW t \in Tools, pc[t] \in Running, version' = version, stamp' = stamp,
         NEW outcome \in Ended, pc' = [pc EXCEPT ![t] = outcome]
  PROVE  [Atomic!Next]_Atomic!vars
<1> USE DEF IInv, TypeOK, Running, Held, Ended
<1>1. Copies' = [Copies EXCEPT ![t] = {}]
  BY DEF Copies
<1>2. CASE outcome # "done"
  <2>1. Files' = Files
    BY <1>2 DEF Files
  <2> QED
    BY <1>1, <2>1 DEF Atomic!Next, Atomic!Discard, Copies, Files
<1>3. CASE outcome = "done" /\ stamp[t] = {}
  <2>1. Files' = Files /\ Copies' = Copies
    BY <1>1, <1>3 DEF Files, Copies
  <2> QED
    BY <2>1 DEF Atomic!vars, Copies, Files
<1>4. CASE outcome = "done" /\ stamp[t] # {}
  <2>1. Copies[t] = stamp[t] /\ Files' = [Files EXCEPT ![t] = Copies[t]]
    BY <1>4 DEF Files, Copies
  <2> QED
    BY <1>1, <1>4, <2>1 DEF Atomic!Next, Atomic!Publish, Copies, Files
<1> QED
  BY <1>2, <1>3, <1>4

\* Every other step of a tool leaves the abstract state alone.
LEMMA QuietRefines ==
  ASSUME IInv, NEW t \in Tools, version' = version, stamp' = stamp,
         NEW label \in Running \cup {"failed"},
         pc' = [pc EXCEPT ![t] = label],
         label = "failed" => pc[t] = "idle",
         pc[t] \in Running \cup {"idle"}
  PROVE  [Atomic!Next]_Atomic!vars
<1>1. Copies' = Copies /\ Files' = Files
  BY DEF IInv, TypeOK, StampInv, StampOfPc, Copies, Files, Running, Held
<1> QED
  BY <1>1 DEF Atomic!vars, Copies, Files

\* cmd_snapshot, with however many tools on one target, implements the atomic
\* snapshot: its many reads appear as one copy taken at one instant.
THEOREM Refinement == Spec => ImplementsAtomicSnapshot
<1>1. Init => Atomic!Init
  BY DEF Init, Atomic!Init, Running, Held
<1>2. IInv /\ [Next]_vars => [Atomic!Next]_Atomic!vars
  <2> SUFFICES ASSUME IInv, [Next]_vars PROVE [Atomic!Next]_Atomic!vars
    OBVIOUS
  <2> USE DEF Running, Held, Ended
  <2>1. CASE TargetRuns
    BY <2>1 DEF TargetRuns, Atomic!Next, Atomic!Advance
  <2>2. CASE TargetExits \/ UNCHANGED vars
    BY <2>2 DEF TargetExits, vars, Atomic!vars
  <2>3. ASSUME NEW t \in Tools, Step(t) PROVE [Atomic!Next]_Atomic!vars
    <3>1. CASE DumpRegion(t) \/ CaptureOne(t)
      BY <3>1, ReadRefines DEF DumpRegion, CaptureOne
    <3>2. CASE SuspendFails(t) \/ ListThreadsFails(t) \/ ResumeFails(t) \/ WriteSnapshot(t)
      BY <3>2, EndRefines DEF SuspendFails, ListThreadsFails, ResumeFails,
                              WriteSnapshot, Leave
    <3>3. CASE Attach(t) \/ AttachFails(t) \/ Suspend(t) \/ EndDump(t) \/ ListThreads(t)
               \/ EndCapture(t) \/ Resume(t)
      BY <3>3, QuietRefines DEF Attach, AttachFails, Leave, Suspend, EndDump, ListThreads, EndCapture,
                                Resume, Goto
    <3> QED
      BY <2>3, <3>1, <3>2, <3>3 DEF Step
  <2>4. ASSUME NEW t \in Tools, Panic(t) \/ Kill(t) PROVE [Atomic!Next]_Atomic!vars
    BY <2>4, EndRefines DEF Panic, Kill, Leave, Goto
  <2> QED
    BY <2>1, <2>2, <2>3, <2>4 DEF Next
<1> QED
  BY <1>1, <1>2, Inductive, PTL DEF Spec, ImplementsAtomicSnapshot, Atomic!Spec

=============================================================================
