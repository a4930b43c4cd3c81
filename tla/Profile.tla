------------------------------ MODULE Profile ------------------------------
(***************************************************************************)
(* cmd_profile (main.rs): open_process_by_name (process/attach.rs) and     *)
(* build_summary (process/info.rs) on a system where processes start and   *)
(* end.  A pid is free for another process once its process has ended and  *)
(* no handle to it is open.                                                *)
(*                                                                         *)
(* The process is not suspended: the end of a region is whatever it is     *)
(* when it is asked for.  Counts and sums of the report are left out.      *)
(*                                                                         *)
(* MaxStarts bounds the processes that get one pid.                        *)
(***************************************************************************)
EXTENDS Naturals, Sequences

CONSTANTS
  Pids,
  Top,          \* end of the user part of an address space
  MaxStarts

ASSUME ProfileAssumption == Top \in Nat \ {0} /\ MaxStarts \in Nat \ {0}

VARIABLES
  who,          \* who[p]: the process with pid p
  starts,       \* starts[p]: how many have had it
  pc,
  found,        \* the pid in the listing of processes
  opened,       \* the process whose handle is open
  address,      \* where the walk over the regions is
  regions,      \* [first, end] of the regions found
  cut,          \* history: VirtualQueryEx failed on a live process
  threads,      \* the process the list of threads is of
  modules       \* the process the list of modules is of, which may be empty

system == <<who, starts>>
walk == <<address, regions, cut>>
report == <<walk, threads, modules>>
vars == <<system, pc, found, opened, report>>

Process(p, n, name) == [pid |-> p, nth |-> n, name |-> name]
Names == {"target", "other"}
Processes == {Process(p, n, name) : p \in Pids, n \in 1..MaxStarts, name \in Names}
None == Process(0, 0, "none")

Opened == {"regions", "threads", "modules"}

\* Mutant of Reserved: the handle is closed as soon as it was opened.
ReservedNever(p) == FALSE

\* ProcessHandle keeps the handle, and so the pid, to the end of cmd_profile.
Reserved(p) == pc \in Opened /\ p = found

Init ==
  /\ \E named \in [Pids -> Names \cup {"none"}] :
       who = [p \in Pids |-> IF named[p] = "none" THEN None
                             ELSE Process(p, 1, named[p])]
  /\ starts = [p \in Pids |-> IF who[p] = None THEN 0 ELSE 1]
  /\ pc = "list"
  /\ found \in Pids
  /\ opened = None
  /\ address = 0 /\ regions = << >> /\ cut = FALSE
  /\ threads = None /\ modules = None

Goto(label) == pc' = label

-----------------------------------------------------------------------------
(* open_process_by_name *)

Matches == {p \in Pids : who[p].name = "target"}

\* Toolhelp lists the processes of one instant; the first match is taken.
List ==
  /\ pc = "list"
  /\ found' \in Matches
  /\ Goto("open")
  /\ UNCHANGED <<system, opened, report>>

NotFound ==
  /\ pc = "list" /\ Matches = {}
  /\ Goto("failed")
  /\ UNCHANGED <<system, found, opened, report>>

\* OpenProcess takes whoever has the pid now.
Open ==
  /\ pc = "open"
  /\ who[found] # None
  /\ opened' = who[found]
  /\ Goto("regions")
  /\ UNCHANGED <<system, found, report>>

\* Mutant of OpenFails: the name is looked up again, without a limit.
OpenFailsRetried ==
  /\ pc = "open"
  /\ Goto("list")
  /\ UNCHANGED <<system, found, opened, report>>

OpenFails ==
  /\ pc = "open"
  /\ Goto("failed")
  /\ UNCHANGED <<system, found, opened, report>>

-----------------------------------------------------------------------------
(* build_summary *)

Alive == who[found] = opened

\* Mutant of Query: the walk skips a byte.
QueryBeyond ==
  /\ pc = "regions" /\ Alive /\ address < Top
  /\ \E end \in (address + 1)..Top :
       /\ regions' = Append(regions, [first |-> address, end |-> end])
       /\ address' = end + 1
  /\ UNCHANGED <<system, pc, found, opened, cut, threads, modules>>

\* VirtualQueryEx: the region from address to its end as it is now.
Query ==
  /\ pc = "regions" /\ Alive /\ address < Top
  /\ \E end \in (address + 1)..Top :
       /\ regions' = Append(regions, [first |-> address, end |-> end])
       /\ address' = end
  /\ UNCHANGED <<system, pc, found, opened, cut, threads, modules>>

\* VirtualQueryEx gives 0 past the last region, for a process that ended, and
\* when it fails: the loop takes each of them for the end of the regions.
WalkEnds ==
  /\ pc = "regions"
  /\ cut' = (Alive /\ address < Top)
  /\ Goto("threads")
  /\ UNCHANGED <<system, found, opened, address, regions, threads, modules>>

\* All threads of the system are listed, those with the pid are kept.
ListThreads ==
  /\ pc = "threads"
  /\ threads' = who[found]
  /\ Goto("modules")
  /\ UNCHANGED <<system, found, opened, walk, modules>>

ListThreadsFails ==
  /\ pc = "threads"
  /\ Goto("failed")
  /\ UNCHANGED <<system, found, opened, report>>

\* The modules of the pid, none when Module32First fails; an error when no
\* process has the pid.
ListModules ==
  /\ pc = "modules"
  /\ who[found] # None
  /\ modules' = who[found]
  /\ Goto("done")
  /\ UNCHANGED <<system, found, opened, walk, threads>>

\* Mutant of ListModulesFails: the report goes out without modules.
ListModulesFailsIgnored ==
  /\ pc = "modules"
  /\ Goto("done")
  /\ UNCHANGED <<system, found, opened, report>>

ListModulesFails ==
  /\ pc = "modules"
  /\ Goto("failed")
  /\ UNCHANGED <<system, found, opened, report>>

-----------------------------------------------------------------------------
(* The system *)

Starts(p) ==
  /\ who[p] = None /\ ~Reserved(p)
  /\ starts[p] < MaxStarts
  /\ starts' = [starts EXCEPT ![p] = @ + 1]
  /\ \E name \in Names : who' = [who EXCEPT ![p] = Process(p, starts'[p], name)]
  /\ UNCHANGED <<pc, found, opened, report>>

Ends(p) ==
  /\ who[p] # None
  /\ who' = [who EXCEPT ![p] = None]
  /\ UNCHANGED <<starts, pc, found, opened, report>>

Tool ==
  \/ List \/ NotFound \/ Open \/ OpenFails
  \/ Query \/ WalkEnds
  \/ ListThreads \/ ListThreadsFails \/ ListModules \/ ListModulesFails

Next == Tool \/ \E p \in Pids : Starts(p) \/ Ends(p)

Spec == Init /\ [][Next]_vars

\* The tool is scheduled; it waits for nobody.
FairSpec == Spec /\ WF_vars(Tool)

-----------------------------------------------------------------------------
(* Properties *)

TypeOK ==
  /\ who \in [Pids -> Processes \cup {None}]
  /\ starts \in [Pids -> 0..MaxStarts]
  /\ pc \in {"list", "open", "done", "failed"} \cup Opened
  /\ found \in Pids
  /\ {opened, threads, modules} \subseteq Processes \cup {None}
  /\ address \in 0..Top /\ cut \in BOOLEAN
  /\ regions \in Seq([first : 0..Top, end : 0..Top])

\* The threads and modules of a report, which are listed by pid, are those of
\* the process whose memory was walked, although processes end and pids are
\* used again: the open handle keeps the pid.
OneProcess == {threads, modules} \subseteq {None, opened}

\* The regions from 0 to address one after the other.
Tiling ==
  /\ IF regions = << >> THEN address = 0
     ELSE regions[1].first = 0 /\ regions[Len(regions)].end = address
  /\ \A k \in 1..(Len(regions) - 1) : regions[k].end = regions[k + 1].first

\* A report that is printed has its regions once, with no gap and no overlap, and
\* a list of threads and one of modules.  The regions reach the end of the
\* address space unless VirtualQueryEx failed on the live process.  A walk over a
\* process that ended stops early just the same, but is never printed: the list
\* of modules, the last, is an error then.
ReportIsWhole ==
  pc = "done" => Tiling /\ (address = Top \/ cut) /\ threads # None /\ modules # None

\* --profile ends, whatever the processes do.
ProfileEnds == <>(pc \in {"done", "failed"})

=============================================================================
