---------------------------- MODULE ProfileProofs ----------------------------
(***************************************************************************)
(* Theorems about Profile, for any number of processes and pids, however   *)
(* large the address space.                                                *)
(*                                                                         *)
(* The open handle makes the pid mean one process: what is listed by pid   *)
(* is of it or of nobody, and once nobody has the pid that stays so.       *)
(***************************************************************************)
EXTENDS Profile, TLAPS

\* While the handle is open, the pid is the opened process's or nobody's.
HandleInv ==
  /\ pc \in {"list", "open"} => threads = None /\ modules = None
  /\ pc \in Opened => opened # None /\ who[found] \in {None, opened}
  /\ OneProcess

\* What is known of a process that is still there.
AliveInv ==
  /\ pc \in {"threads", "modules"} /\ Alive => address = Top \/ cut
  /\ pc = "modules" /\ Alive => threads = opened
  /\ pc = "done" => (address = Top \/ cut) /\ threads # None /\ modules # None

IInv == TypeOK /\ HandleInv /\ Tiling /\ AliveInv

-----------------------------------------------------------------------------
(* The inductive invariant *)

LEMMA TypeStep == TypeOK /\ [Next]_vars => TypeOK'
<1> SUFFICES ASSUME TypeOK, [Next]_vars PROVE TypeOK'
  OBVIOUS
<1> USE ProfileAssumption DEF TypeOK, Goto, system, report, walk, Opened
<1>1. CASE List \/ NotFound
  BY <1>1 DEF List, NotFound, Matches
<1>2. CASE Open \/ OpenFails
  BY <1>2 DEF Open, OpenFails
<1>3. CASE Query
  <2> PICK end \in (address + 1)..Top :
         regions' = Append(regions, [first |-> address, end |-> end]) /\ address' = end
    BY <1>3 DEF Query
  <2>1. end \in 0..Top /\ [first |-> address, end |-> end] \in [first : 0..Top, end : 0..Top]
    OBVIOUS
  <2> QED
    BY <1>3, <2>1 DEF Query
<1>4. CASE WalkEnds
  BY <1>4 DEF WalkEnds
<1>5. CASE ListThreads \/ ListThreadsFails
  BY <1>5 DEF ListThreads, ListThreadsFails
<1>6. CASE ListModules \/ ListModulesFails
  BY <1>6 DEF ListModules, ListModulesFails
<1>7. ASSUME NEW p \in Pids, Starts(p) PROVE TypeOK'
  <2>1. starts[p] + 1 \in 1..MaxStarts
    BY <1>7 DEF Starts
  <2>2. starts' \in [Pids -> 0..MaxStarts] /\ starts'[p] = starts[p] + 1
    BY <1>7, <2>1 DEF Starts
  <2>3. PICK name \in Names : who' = [who EXCEPT ![p] = Process(p, starts'[p], name)]
    BY <1>7 DEF Starts
  <2>4. Process(p, starts'[p], name) \in Processes
    BY <2>1, <2>2 DEF Processes
  <2> QED
    BY <1>7, <2>2, <2>3, <2>4 DEF Starts
<1>8. ASSUME NEW p \in Pids, Ends(p) PROVE TypeOK'
  BY <1>8 DEF Ends
<1>9. CASE UNCHANGED vars
  BY <1>9 DEF vars
<1> QED
  BY <1>1, <1>2, <1>3, <1>4, <1>5, <1>6, <1>7, <1>8, <1>9 DEF Next, Tool

LEMMA HandleStep == TypeOK /\ HandleInv /\ [Next]_vars => HandleInv'
<1> SUFFICES ASSUME TypeOK, HandleInv, [Next]_vars PROVE HandleInv'
  OBVIOUS
<1> USE DEF TypeOK, HandleInv, OneProcess, Goto, system, report, walk, Opened
<1>1. CASE List \/ NotFound \/ Open \/ OpenFails
  BY <1>1 DEF List, NotFound, Open, OpenFails
<1>2. CASE Query \/ WalkEnds
  BY <1>2 DEF Query, WalkEnds
<1>3. CASE ListThreads \/ ListThreadsFails \/ ListModules \/ ListModulesFails
  BY <1>3 DEF ListThreads, ListThreadsFails, ListModules, ListModulesFails
<1>4. ASSUME NEW p \in Pids, Starts(p) \/ Ends(p) PROVE HandleInv'
  BY <1>4 DEF Starts, Ends, Reserved
<1>5. CASE UNCHANGED vars
  BY <1>5 DEF vars
<1> QED
  BY <1>1, <1>2, <1>3, <1>4, <1>5 DEF Next, Tool

\* One more region continues the tiling.
LEMMA QueryContinues ==
  ASSUME TypeOK, Tiling, Query
  PROVE  Tiling'
<1> DEFINE r(end) == [first |-> address, end |-> end]
           n == Len(regions)
<1>1. PICK end \in (address + 1)..Top :
        regions' = Append(regions, r(end)) /\ address' = end
  BY DEF Query
<1>2. /\ n \in Nat /\ Len(regions') = n + 1 /\ regions'[n + 1] = r(end)
      /\ \A k \in 1..n : regions'[k] = regions[k]
  BY <1>1 DEF TypeOK
<1>3. regions' # << >> /\ regions'[Len(regions')].end = address'
  BY <1>1, <1>2
<1>4. regions'[1].first = 0
  <2>1. CASE regions = << >>
    BY <1>2, <2>1 DEF Tiling
  <2>2. CASE regions # << >>
    <3>1. 1 \in 1..n
      BY <2>2 DEF TypeOK
    <3>2. regions'[1] = regions[1]
      BY <1>2, <3>1
    <3> QED
      BY <2>2, <3>2 DEF Tiling
  <2> QED
    BY <2>1, <2>2
<1>5. ASSUME NEW k \in 1..(Len(regions') - 1)
      PROVE  regions'[k].end = regions'[k + 1].first
  <2>1. CASE k = n
    <3>1. regions # << >> /\ regions'[k] = regions[n] /\ regions'[k + 1] = r(end)
      BY <1>2, <2>1 DEF TypeOK
    <3> QED
      BY <3>1 DEF Tiling
  <2>2. CASE k # n
    <3>1. k \in 1..(n - 1) /\ regions'[k] = regions[k] /\ regions'[k + 1] = regions[k + 1]
      BY <1>2, <2>2
    <3> QED
      BY <3>1 DEF Tiling
  <2> QED
    BY <2>1, <2>2
<1> QED
  BY <1>3, <1>4, <1>5 DEF Tiling

LEMMA WalkStep == TypeOK /\ Tiling /\ [Next]_vars => Tiling'
<1> SUFFICES ASSUME TypeOK, Tiling, [Next]_vars PROVE Tiling'
  OBVIOUS
<1>1. CASE Query
  BY <1>1, QueryContinues
<1>2. CASE ~Query
  <2>1. UNCHANGED <<address, regions>>
    BY <1>2 DEF Next, Tool, List, NotFound, Open, OpenFails, WalkEnds, ListThreads,
         ListThreadsFails, ListModules, ListModulesFails, Starts, Ends, vars, report, walk
  <2> QED
    BY <2>1 DEF Tiling
<1> QED
  BY <1>1, <1>2

LEMMA AliveStep == TypeOK /\ HandleInv /\ AliveInv /\ [Next]_vars => AliveInv'
<1> SUFFICES ASSUME TypeOK, HandleInv, AliveInv, [Next]_vars PROVE AliveInv'
  OBVIOUS
<1> USE DEF TypeOK, HandleInv, AliveInv, Alive, Goto, system, report, walk, Opened
<1>1. CASE List \/ NotFound \/ Open \/ OpenFails
  BY <1>1 DEF List, NotFound, Open, OpenFails
<1>2. CASE Query
  BY <1>2 DEF Query
<1>3. CASE WalkEnds
  <2>1. address < Top \/ address = Top
    BY ProfileAssumption
  <2> QED
    BY <1>3, <2>1 DEF WalkEnds
<1>4. CASE ListThreads \/ ListThreadsFails
  BY <1>4 DEF ListThreads, ListThreadsFails
<1>5. CASE ListModules \/ ListModulesFails
  BY <1>5 DEF ListModules, ListModulesFails
<1>6. ASSUME NEW p \in Pids, Starts(p) PROVE AliveInv'
  BY <1>6 DEF Starts, Reserved
<1>7. ASSUME NEW p \in Pids, Ends(p) PROVE AliveInv'
  BY <1>7 DEF Ends
<1>8. CASE UNCHANGED vars
  BY <1>8 DEF vars
<1> QED
  BY <1>1, <1>2, <1>3, <1>4, <1>5, <1>6, <1>7, <1>8 DEF Next, Tool

LEMMA Inductive == Spec => []IInv
<1>1. Init => IInv
  <2> SUFFICES ASSUME Init PROVE IInv
    OBVIOUS
  <2> PICK named \in [Pids -> Names \cup {"none"}] :
        who = [p \in Pids |-> IF named[p] = "none" THEN None ELSE Process(p, 1, named[p])]
    BY DEF Init
  <2>1. \A p \in Pids, n \in Names : Process(p, 1, n) \in Processes
    BY ProfileAssumption DEF Processes
  <2>2. who \in [Pids -> Processes \cup {None}]
    BY <2>1
  <2>3. starts \in [Pids -> 0..MaxStarts]
    BY ProfileAssumption DEF Init
  <2>4. regions \in Seq([first : 0..Top, end : 0..Top]) /\ address \in 0..Top
    BY ProfileAssumption DEF Init
  <2>5. TypeOK
    BY <2>2, <2>3, <2>4 DEF Init, TypeOK
  <2> QED
    BY <2>5 DEF Init, IInv, HandleInv, OneProcess, Tiling, AliveInv, Opened
<1>2. IInv /\ [Next]_vars => IInv'
  BY TypeStep, HandleStep, WalkStep, AliveStep DEF IInv
<1> QED
  BY <1>1, <1>2, PTL DEF Spec

-----------------------------------------------------------------------------
(* The properties *)

\* Every variable keeps its type: the walk does not leave the address space.
THEOREM TypeCorrect == Spec => []TypeOK
<1>1. IInv => TypeOK
  BY DEF IInv
<1> QED
  BY <1>1, Inductive, PTL

\* Regions, threads and modules of a report are those of one process.
THEOREM ReportsAreOfOneProcess == Spec => []OneProcess
<1>1. IInv => OneProcess
  BY DEF IInv, HandleInv
<1> QED
  BY <1>1, Inductive, PTL

\* A printed report has regions one after the other, up to the end of the address
\* space or to where VirtualQueryEx failed on a live process, and it has its lists
\* of threads and modules: no report is of a process that ended under the walk.
THEOREM ReportsAreWhole == Spec => []ReportIsWhole
<1>1. IInv => ReportIsWhole
  BY ProfileAssumption DEF IInv, AliveInv, ReportIsWhole
<1> QED
  BY <1>1, Inductive, PTL

-----------------------------------------------------------------------------
(* How much is left to do *)

\* The most steps that cmd_profile can still take: each region has a byte at
\* least.
StepsLeft ==
  CASE pc = "list" -> Top + 5
    [] pc = "open" -> Top + 4
    [] pc = "regions" -> Top - address + 3
    [] pc = "threads" -> 2
    [] pc = "modules" -> 1
    [] pc \in {"done", "failed"} -> 0

\* Every step of cmd_profile brings its end nearer, and no process that starts or
\* ends puts it off: build_summary walks an address space that changes under it
\* without going round in it.
THEOREM ProfilesAreBounded ==
  Spec => [][/\ StepsLeft' \in 0..StepsLeft
             /\ Tool => StepsLeft' < StepsLeft]_vars
<1> DEFINE Nearer == /\ StepsLeft' \in 0..StepsLeft
                     /\ Tool => StepsLeft' < StepsLeft
<1>1. ASSUME TypeOK, TypeOK', Next PROVE Nearer
  <2>1. /\ pc \in {"list", "open", "done", "failed"} \cup Opened /\ address \in 0..Top
        /\ pc' \in {"list", "open", "done", "failed"} \cup Opened /\ address' \in 0..Top
        /\ Top \in Nat
    BY <1>1, ProfileAssumption DEF TypeOK
  <2>2. StepsLeft \in Nat /\ StepsLeft' \in Nat
    BY <2>1 DEF StepsLeft, Opened
  <2>3. CASE Tool
    <3>1. \/ pc = "list" /\ pc' \in {"open", "failed"}
          \/ pc = "open" /\ pc' = "regions"
          \/ pc = "regions" /\ pc' = pc /\ address' > address
          \/ pc = "regions" /\ pc' = "threads"
          \/ pc = "threads" /\ pc' = "modules"
          \/ pc = "modules" /\ pc' = "done"
          \/ pc \in {"open", "threads", "modules"} /\ pc' = "failed"
      <4>1. CASE List \/ NotFound \/ Open \/ OpenFails
        BY <4>1 DEF List, NotFound, Open, OpenFails, Goto
      <4>2. CASE Query
        <5>1. PICK end \in (address + 1)..Top : address' = end
          BY <4>2 DEF Query
        <5> QED
          BY <2>1, <4>2, <5>1 DEF Query
      <4>3. CASE WalkEnds \/ ListThreads \/ ListThreadsFails \/ ListModules \/ ListModulesFails
        BY <4>3 DEF WalkEnds, ListThreads, ListThreadsFails, ListModules, ListModulesFails, Goto
      <4> QED
        BY <2>3, <4>1, <4>2, <4>3 DEF Tool
    <3>2. StepsLeft' < StepsLeft
      BY <2>1, <3>1 DEF StepsLeft
    <3> QED
      BY <2>2, <3>2
  <2>4. CASE ~Tool
    <3>1. pc' = pc /\ address' = address
      BY <1>1, <2>4 DEF Next, Starts, Ends, report, walk
    <3>2. StepsLeft' = StepsLeft
      BY <3>1 DEF StepsLeft
    <3> QED
      BY <2>2, <2>4, <3>2
  <2> QED
    BY <2>3, <2>4
<1>2. TypeOK /\ TypeOK' /\ [Next]_vars => [Nearer]_vars
  BY <1>1
<1> QED
  BY <1>2, TypeCorrect, PTL DEF Spec

=============================================================================
