------------------------ MODULE RestoreCommandProofs ------------------------
(***************************************************************************)
(* Theorems about RestoreCommand, for any number of rounds, workers, other *)
(* suspenders and failed calls.                                            *)
(***************************************************************************)
EXTENDS RestoreCommand, TLAPS

\* There is a process exactly when the launch succeeded.
LaunchInv ==
  /\ new = "none" => pc \in {"idle", "failed"}
  /\ pc = "idle" => new = "none" /\ round = 0
  /\ new = "none" => stage = Created /\ suspends = 0 /\ others = 0 /\ faults = 0

IInv == TypeOK /\ LaunchInv /\ CountIsShared

-----------------------------------------------------------------------------
(* The inductive invariant *)

LEMMA TypeStep == TypeOK /\ LaunchInv /\ [Next]_vars => TypeOK'
<1> SUFFICES ASSUME TypeOK, LaunchInv, [Next]_vars PROVE TypeOK'
  OBVIOUS
<1> USE RestoreAssumption
        DEF TypeOK, Trial, Injecting, Ended, Created, Loading, Mapped, UserCode,
            Goto, Counts, AfterResume, tool
<1>1. CASE MainRuns
  BY <1>1 DEF MainRuns
<1>2. CASE WorkerStarts \/ WorkerEnds \/ NewExits
  BY <1>2 DEF WorkerStarts, WorkerEnds, NewExits
<1>3. CASE OtherSuspends \/ OtherResumes
  BY <1>3 DEF OtherSuspends, OtherResumes
<1>4. CASE Launch \/ LaunchFails
  BY <1>4 DEF Launch, LaunchFails, LaunchInv
<1>5. CASE ResumeRound
  BY <1>5 DEF ResumeRound
<1>6. CASE SuspendRound
  BY <1>6 DEF SuspendRound
<1>7. CASE LoaderReady
  BY <1>7 DEF LoaderReady
<1>8. CASE LoaderNotReady
  BY <1>8 DEF LoaderNotReady
<1>9. CASE RestoreMemory \/ RestoreThreads
  BY <1>9 DEF RestoreMemory, RestoreThreads
<1>10. CASE Release \/ ReleaseFails
  BY <1>10 DEF Release, ReleaseFails
<1>11. CASE Panic
  BY <1>11 DEF Panic
<1>12. CASE Kill
  BY <1>12 DEF Kill
<1>13. CASE UNCHANGED vars
  BY <1>13 DEF vars
<1> QED
  BY <1>1, <1>2, <1>3, <1>4, <1>5, <1>6, <1>7, <1>8, <1>9, <1>10, <1>11, <1>12,
     <1>13 DEF Next, Step, Environment

LEMMA CountStep == IInv /\ [Next]_vars => (LaunchInv /\ CountIsShared)'
<1> SUFFICES ASSUME IInv, [Next]_vars PROVE (LaunchInv /\ CountIsShared)'
  OBVIOUS
<1> USE RestoreAssumption
        DEF IInv, TypeOK, LaunchInv, CountIsShared, Expected, Holding, Trial, Injecting, Ended,
            Goto, Counts, AfterResume, tool
<1>1. CASE MainRuns
  BY <1>1 DEF MainRuns
<1>2. CASE WorkerStarts \/ WorkerEnds \/ NewExits
  BY <1>2 DEF WorkerStarts, WorkerEnds, NewExits
<1>3. CASE OtherSuspends \/ OtherResumes
  BY <1>3 DEF OtherSuspends, OtherResumes
<1>4. CASE Launch \/ LaunchFails
  BY <1>4 DEF Launch, LaunchFails
<1>5. CASE ResumeRound
  BY <1>5 DEF ResumeRound
<1>6. CASE SuspendRound
  BY <1>6 DEF SuspendRound
<1>7. CASE LoaderReady \/ LoaderNotReady
  BY <1>7 DEF LoaderReady, LoaderNotReady
<1>8. CASE RestoreMemory \/ RestoreThreads
  BY <1>8 DEF RestoreMemory, RestoreThreads
<1>9. CASE Release \/ ReleaseFails
  BY <1>9 DEF Release, ReleaseFails
<1>10. CASE Panic
  BY <1>10 DEF Panic
<1>11. CASE Kill
  BY <1>11 DEF Kill
<1>12. CASE UNCHANGED vars
  BY <1>12 DEF vars
<1> QED
  BY <1>1, <1>2, <1>3, <1>4, <1>5, <1>6, <1>7, <1>8, <1>9, <1>10, <1>11, <1>12
     DEF Next, Step, Environment

LEMMA Inductive == Spec => []IInv
<1>1. Init => IInv
  <2> SUFFICES ASSUME Init PROVE IInv
    OBVIOUS
  <2>1. /\ 0 \in 0..MaxOthers /\ 0 \in 0..MaxWorkers /\ 0 \in 0..MaxFaults
        /\ 0 \in 0..Rounds /\ 0 \in Created..UserCode
    BY RestoreAssumption DEF RestoreAssumption, Created, UserCode
  <2>2. TypeOK
    BY <2>1, RestoreAssumption DEF Init, TypeOK, Trial, Injecting, Ended, Created, UserCode
  <2> QED
    BY <2>2 DEF Init, IInv, LaunchInv, CountIsShared, Expected
<1>2. IInv /\ [Next]_vars => IInv'
  BY TypeStep, CountStep DEF IInv
<1> QED
  BY <1>1, <1>2, PTL DEF Spec

-----------------------------------------------------------------------------
(* The properties *)

\* Every variable keeps its type: wait_for_loader makes no round too many.
THEOREM TypeCorrect == Spec => []TypeOK
<1>1. IInv => TypeOK
  BY DEF IInv
<1> QED
  BY <1>1, Inductive, PTL

\* The suspend count is what the others hold and the tool's own one, wherever
\* the restore is and wherever it failed.
THEOREM CountsAreShared == Spec => []CountIsShared
<1>1. IInv => CountIsShared
  BY DEF IInv
<1> QED
  BY <1>1, Inductive, PTL

\* A thread that is held does not run.
LEMMA HeldStandsStill ==
  ASSUME IInv, faults = 0, pc \in Holding, [Next]_vars
  PROVE  stage' = stage
<1>1. ~MainRuns
  BY DEF MainRuns, IInv, TypeOK, CountIsShared, Expected
<1> QED
  BY <1>1 DEF Next, Step, Environment, WorkerStarts, WorkerEnds, NewExits,
     OtherSuspends, OtherResumes, Launch, LaunchFails, ResumeRound, SuspendRound,
     LoaderReady, LoaderNotReady, RestoreMemory, RestoreThreads, Release,
     ReleaseFails, Panic, Kill, vars

\* The main thread executes nothing from the look at its modules to its release.
THEOREM StandsStill == Spec => MainStandsStill
<1>1. IInv /\ [Next]_vars =>
        [faults = 0 /\ pc \in {"look"} \cup Injecting => stage' = stage]_vars
  BY HeldStandsStill DEF Holding
<1> QED
  BY <1>1, Inductive, PTL DEF Spec, MainStandsStill

-----------------------------------------------------------------------------
(* What unseen failures do to the suspend count *)

\* With calls of ResumeThread and SuspendThread that fail in wait_for_loader the
\* suspend count is off by no more than their number, upwards or downwards: the
\* main thread of a restored process stays frozen, or runs while its memory is
\* replaced, only if one of them failed.
THEOREM FaultsShiftTheCount == Spec => []FaultsShiftCount
<1>1. Init => FaultsShiftCount
  BY DEF Init, FaultsShiftCount
<1>2. IInv /\ FaultsShiftCount /\ [Next]_vars => FaultsShiftCount'
  <2> SUFFICES ASSUME IInv, FaultsShiftCount, [Next]_vars PROVE FaultsShiftCount'
    OBVIOUS
  <2>1. faults \in Nat /\ others \in Nat /\ suspends \in Nat
    BY RestoreAssumption DEF IInv, TypeOK
  <2> USE <2>1 DEF FaultsShiftCount, Expected, Holding, Trial, Injecting, Ended, Goto, Counts,
                   AfterResume, tool
  <2>2. CASE MainRuns \/ WorkerStarts \/ WorkerEnds \/ NewExits \/ UNCHANGED vars
    BY <2>2 DEF MainRuns, WorkerStarts, WorkerEnds, NewExits, vars
  <2>3. CASE OtherSuspends \/ OtherResumes
    BY <2>3 DEF OtherSuspends, OtherResumes
  <2>4. CASE Launch \/ LaunchFails
    BY <2>4 DEF Launch, LaunchFails, IInv, LaunchInv
  <2>5. CASE ResumeRound
    BY <2>5 DEF ResumeRound
  <2>6. CASE SuspendRound
    BY <2>6 DEF SuspendRound
  <2>7. CASE LoaderReady \/ LoaderNotReady \/ RestoreMemory \/ RestoreThreads
    BY <2>7 DEF LoaderReady, LoaderNotReady, RestoreMemory, RestoreThreads
  <2>8. CASE Release \/ ReleaseFails
    BY <2>8 DEF Release, ReleaseFails
  <2>9. CASE Panic \/ Kill
    BY <2>9 DEF Panic, Kill
  <2> QED
    BY <2>2, <2>3, <2>4, <2>5, <2>6, <2>7, <2>8, <2>9 DEF Next, Step, Environment
<1> QED
  BY <1>1, <1>2, Inductive, PTL DEF Spec

-----------------------------------------------------------------------------
(* How much is left to do *)

\* The most steps that cmd_restore can still take: three for each round of
\* wait_for_loader, then memory, threads and release.
StepsLeft ==
  IF killed THEN 0
  ELSE CASE pc = "idle" -> 3 * Rounds + 4
         [] pc = "resume" -> 3 * (Rounds - round) + 3
         [] pc = "sleep" -> 3 * (Rounds - round) + 2
         [] pc = "look" -> 3 * (Rounds - round) + 1
         [] pc = "memory" -> 3
         [] pc = "threads" -> 2
         [] pc = "release" -> 1
         [] pc \in Ended -> 0

\* Every step of cmd_restore, a failure, a panic and a kill included, brings its
\* end nearer, and nothing that the new process or the other tools do puts it
\* off.  What WF has to add for RestoreEnds is only that the tool gets its turn.
THEOREM RestoresAreBounded ==
  Spec => [][/\ StepsLeft' \in 0..StepsLeft
             /\ Step \/ Panic \/ Kill => StepsLeft' < StepsLeft]_vars
<1> DEFINE Nearer == /\ StepsLeft' \in 0..StepsLeft
                     /\ Step \/ Panic \/ Kill => StepsLeft' < StepsLeft
<1>1. ASSUME TypeOK, TypeOK', LaunchInv, Next PROVE Nearer
  <2> USE RestoreAssumption, <1>1 DEF TypeOK, Trial, Injecting, Ended, Goto, tool, StepsLeft
  <2>1. StepsLeft \in Nat /\ StepsLeft' \in Nat
    OBVIOUS
  <2>2. CASE Environment
    <3>1. UNCHANGED tool
      BY <2>2 DEF Environment, MainRuns, WorkerStarts, WorkerEnds, NewExits, OtherSuspends,
                  OtherResumes
    <3>2. ~(Step \/ Panic \/ Kill)
      BY <3>1 DEF Step, Launch, LaunchFails, ResumeRound, SuspendRound, LoaderReady,
                  LoaderNotReady, RestoreMemory, RestoreThreads, Release, ReleaseFails,
                  Panic, Kill
    <3>3. StepsLeft' = StepsLeft
      BY <3>1
    <3> HIDE DEF StepsLeft
    <3> QED
      BY <2>1, <3>2, <3>3
  <2>3. CASE Step \/ Panic \/ Kill
    <3>1. StepsLeft' < StepsLeft
      BY <2>3 DEF Step, Launch, LaunchFails, ResumeRound, SuspendRound, LoaderReady,
                  LoaderNotReady, RestoreMemory, RestoreThreads, Release, ReleaseFails,
                  Panic, Kill, LaunchInv
    <3> HIDE DEF StepsLeft
    <3> QED
      BY <2>1, <3>1
  <2> QED
    BY <2>2, <2>3 DEF Next
<1>2. IInv /\ TypeOK' /\ [Next]_vars => [Nearer]_vars
  BY <1>1 DEF IInv
<1> QED
  BY <1>2, Inductive, TypeCorrect, PTL DEF Spec

-----------------------------------------------------------------------------
(* Refinement *)

\* cmd_restore implements HandOver: the main thread runs in the trial and after
\* the release only, until a call of ResumeThread or SuspendThread fails unseen.
THEOREM Refinement == Spec => ImplementsHandOver
<1>1. Init => Handed!Init
  BY DEF Init, Handed!Init, Created
<1>2. IInv /\ [Next]_vars => [Handed!Next]_Handed!vars
  <2> SUFFICES ASSUME IInv, [Next]_vars
               PROVE  [Handed!Next]_Handed!vars
    OBVIOUS
  <2>0. faults \in Nat
    BY RestoreAssumption DEF IInv, TypeOK, RestoreAssumption
  <2> USE <2>0 DEF Trial, Injecting, Ended, Goto, tool
  <2>1. CASE MainRuns
    <3>1. new = "alive" /\ (faults > 0 \/ pc \in {"sleep", "done"})
      BY <2>1 DEF MainRuns, IInv, TypeOK, LaunchInv, CountIsShared, Expected, Holding
    <3>2. stage \in Nat /\ stage' = stage + 1
      BY <2>1 DEF MainRuns, IInv, TypeOK, Created, UserCode
    <3>3. Handed!Run
      BY <2>1, <3>1, <3>2 DEF MainRuns, Handed!Run
    <3> QED
      BY <3>3 DEF Handed!Next
  <2>2. CASE WorkerStarts \/ WorkerEnds \/ OtherSuspends \/ OtherResumes \/ Kill \/ UNCHANGED vars
    BY <2>2 DEF WorkerStarts, WorkerEnds, OtherSuspends, OtherResumes, Kill, vars,
                Handed!vars
  <2>3. CASE NewExits
    BY <2>3 DEF NewExits, IInv, TypeOK, Handed!Next, Handed!Moves
  <2>4. CASE Launch \/ LaunchFails
    BY <2>4 DEF Launch, LaunchFails, IInv, LaunchInv, Handed!Next, Handed!Moves, Handed!vars
  <2>5. CASE ResumeRound \/ SuspendRound
    <3>1. UNCHANGED <<new, stage>> /\ pc \in Trial /\ pc' \in Trial
      BY <2>5 DEF ResumeRound, SuspendRound
    <3>2. faults' = faults \/ faults' = faults + 1
      BY <2>5 DEF ResumeRound, SuspendRound, Counts
    <3> QED
      BY <3>1, <3>2 DEF IInv, TypeOK, Handed!Next, Handed!Moves, Handed!vars
  <2>6. CASE LoaderReady \/ LoaderNotReady
    BY <2>6 DEF LoaderReady, LoaderNotReady, IInv, TypeOK, Handed!Next, Handed!Moves, Handed!vars
  <2>7. CASE RestoreMemory \/ RestoreThreads
    BY <2>7 DEF RestoreMemory, RestoreThreads, IInv, TypeOK, Handed!Next, Handed!Moves, Handed!vars
  <2>8. CASE Release \/ ReleaseFails
    BY <2>8 DEF Release, ReleaseFails, IInv, TypeOK, Handed!Next, Handed!Moves, Handed!vars
  <2>9. CASE Panic
    BY <2>9 DEF Panic, IInv, TypeOK, Handed!Next, Handed!Moves, Handed!vars
  <2> QED
    BY <2>1, <2>2, <2>3, <2>4, <2>5, <2>6, <2>7, <2>8, <2>9 DEF Next, Step, Environment
<1> QED
  BY <1>1, <1>2, Inductive, PTL DEF Spec, ImplementsHandOver, Handed!Spec

=============================================================================
