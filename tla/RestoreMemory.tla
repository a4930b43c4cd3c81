---------------------------- MODULE RestoreMemory ----------------------------
(***************************************************************************)
(* restore_memory and restore_region (restore/memory.rs): each saved       *)
(* region is written into the new process, one system call per action.     *)
(* With callsMayFail every one of these calls may fail, the ones whose     *)
(* result the code drops (VirtualFreeEx, VirtualProtectEx) as well.        *)
(*                                                                         *)
(* The new process is assumed to be suspended meanwhile: nobody else       *)
(* changes its memory.                                                     *)
(***************************************************************************)
EXTENDS AddressSpace, Sequences

CONSTANT
  Targets           \* layouts of the new process when the loader is ready

VARIABLES
  regions,          \* payload.memory_regions
  mem,              \* memory of the new process
  start,            \* history: mem when restore_memory was called
  pc,               \* the call restore_region makes next
  alloc,            \* what VirtualAllocEx returned
  image,            \* mbi.Type == MEM_IMAGE
  callsMayFail,     \* calls may fail at will, not only where they must
  wrote,            \* the result of WriteProcessMemory
  outcomes,         \* the RestoreOutcomes so far
  leaked,           \* history: regions whose misplaced pages were not released
  unprotected       \* history: regions whose last VirtualProtectEx failed at will

\* What the call of restore_memory finds.
given == <<start, callsMayFail>>
\* The failures that the code does not look at.
unseen == <<leaked, unprotected>>
restoreVars == <<mem, given, pc, alloc, image, wrote, outcomes, unseen>>

Outcomes == {"allocated", "direct", "guard", "image", "not_mapped", "write_error"}

RestoreInit ==
  /\ mem \in Targets
  /\ start = mem
  /\ callsMayFail \in BOOLEAN
  /\ pc = "alloc"
  /\ alloc = 0
  /\ image = FALSE
  /\ wrote = FALSE
  /\ outcomes = <<>>
  /\ leaked = {} /\ unprotected = {}

\* The region being restored, and the pages its data covers (write_len).
Here == Len(outcomes) + 1
Current == regions[Here]
Data(r) == Span(r.base, r.len)
InRegion == Len(outcomes) < Len(regions)

\* restore_region returns.
Conclude(outcome) ==
  /\ outcomes' = Append(outcomes, outcome)
  /\ pc' = "alloc"

-----------------------------------------------------------------------------
(* Path A: fresh pages *)

\* Mutant of Allocate: the branches of the address comparison are swapped.
AllocateSwapped ==
  /\ pc = "alloc" /\ InRegion
  /\ CanReserve(mem, Current.base, Current.size)
  /\ mem' = AfterReserve(mem, Current.base, Current.size)
  /\ alloc' = RoundDown(Current.base)
  /\ pc' = IF alloc' # Current.base THEN "write" ELSE "free"
  /\ UNCHANGED <<given, image, wrote, outcomes, unseen>>

Allocate ==
  /\ pc = "alloc" /\ InRegion
  /\ CanReserve(mem, Current.base, Current.size)
  /\ mem' = AfterReserve(mem, Current.base, Current.size)
  /\ alloc' = RoundDown(Current.base)
  /\ pc' = IF alloc' = Current.base THEN "write" ELSE "free"
  /\ UNCHANGED <<given, image, wrote, outcomes, unseen>>

AllocateFails ==
  /\ pc = "alloc" /\ InRegion
  /\ callsMayFail \/ ~CanReserve(mem, Current.base, Current.size)
  /\ pc' = "query"
  /\ UNCHANGED <<mem, given, alloc, image, wrote, outcomes, unseen>>

\* Mutant of FreeMisplaced: the misplaced pages are kept.
FreeMisplacedForgotten ==
  /\ pc = "free"
  /\ pc' = "query"
  /\ UNCHANGED <<mem, given, alloc, image, wrote, outcomes, unseen>>

\* The pages landed at another address: release them, go on with path B.  The
\* result is dropped: when the release fails path B finds those pages.
FreeMisplaced ==
  /\ pc = "free"
  /\ \/ mem' = AfterRelease(mem, alloc) /\ UNCHANGED leaked
     \/ callsMayFail /\ leaked' = leaked \cup {Here} /\ UNCHANGED mem
  /\ pc' = "query"
  /\ UNCHANGED <<given, alloc, image, wrote, outcomes, unprotected>>

\* A write that fails may have copied some of the pages before it did.
WriteFresh ==
  /\ pc = "write"
  /\ \/ wrote' = TRUE /\ mem' = AfterWrite(mem, Data(Current), Current.data)
     \/ /\ callsMayFail
        /\ wrote' = FALSE
        /\ \E n \in 0..(Current.len - 1) :
             mem' = AfterWrite(mem, Span(Current.base, n), Current.data)
  /\ pc' = "protect"
  /\ UNCHANGED <<given, alloc, image, outcomes, unseen>>

\* The last VirtualProtectEx for the region, to the protection of the SAVED one
\* and only on the pages of the data.  Its result is dropped.
SetProtection ==
  \/ mem' = AfterProtect(mem, Data(Current), Current.protect) /\ UNCHANGED unprotected
  \/ callsMayFail /\ unprotected' = unprotected \cup {Here} /\ UNCHANGED mem

\* The protection is set whatever the write returned.
ProtectFresh ==
  /\ pc = "protect"
  /\ SetProtection
  /\ Conclude(IF wrote THEN "allocated" ELSE "write_error")
  /\ UNCHANGED <<given, alloc, image, wrote, leaked>>

-----------------------------------------------------------------------------
(* Path B: what is already mapped at the address *)

QueryFails ==
  /\ pc = "query" /\ callsMayFail
  /\ Conclude("not_mapped")
  /\ UNCHANGED <<mem, given, alloc, image, wrote, unseen>>

\* What VirtualQueryEx says about the page decides whether to go on.
Verdict(page, r) ==
  CASE page.state = "free" -> "not_mapped"
    [] page.protect = "guard" -> "guard"
    [] page.protect # "guard" /\ page.type = "image" /\ r.type = "image" -> "image"
    [] OTHER -> "overwrite"

\* Mutant of QueryTarget: no return after a skip is recorded.
QueryTargetFallsThrough ==
  LET page == mem[Current.base]  verdict == Verdict(page, Current) IN
  /\ pc = "query"
  /\ image' = (page.type = "image")
  /\ IF verdict = "not_mapped" THEN Conclude(verdict)
     ELSE /\ pc' = "unprotect"
          /\ outcomes' = IF verdict = "overwrite" THEN outcomes
                         ELSE Append(outcomes, verdict)
  /\ UNCHANGED <<mem, given, alloc, wrote, unseen>>

QueryTarget ==
  LET page == mem[Current.base]  verdict == Verdict(page, Current) IN
  /\ pc = "query"
  /\ image' = (page.type = "image")
  /\ IF verdict = "overwrite" THEN pc' = "unprotect" /\ UNCHANGED outcomes
     ELSE Conclude(verdict)
  /\ UNCHANGED <<mem, given, alloc, wrote, unseen>>

\* Make the pages writable.  The result is dropped: the write that follows tells.
Unprotect ==
  /\ pc = "unprotect"
  /\ \/ mem' = AfterProtect(mem, Data(Current), "rwx")
     \/ callsMayFail /\ UNCHANGED mem
  /\ pc' = "overwrite"
  /\ UNCHANGED <<given, alloc, image, wrote, outcomes, unseen>>

\* The write needs every page of the data; short of that it fails, perhaps
\* after having copied the pages before the first one it may not write.
Overwrite ==
  /\ pc = "overwrite"
  /\ \/ /\ \A a \in Data(Current) : Writable(mem[a])
        /\ wrote' = TRUE
        /\ mem' = AfterWrite(mem, Data(Current), Current.data)
     \/ /\ callsMayFail \/ \E a \in Data(Current) : ~Writable(mem[a])
        /\ wrote' = FALSE
        /\ \E n \in 0..(Current.len - 1) :
             /\ \A a \in Span(Current.base, n) : Writable(mem[a])
             /\ mem' = AfterWrite(mem, Span(Current.base, n), Current.data)
  /\ pc' = "reprotect"
  /\ UNCHANGED <<given, alloc, image, outcomes, unseen>>

\* Mutant of Reprotect: the result of the write is not looked at.
ReprotectUnchecked ==
  /\ pc = "reprotect"
  /\ SetProtection
  /\ Conclude("direct")
  /\ UNCHANGED <<given, alloc, image, wrote, leaked>>

\* Mutant of Reprotect: after a failed write the pages stay as they are.
ReprotectWritten ==
  /\ pc = "reprotect"
  /\ IF wrote THEN SetProtection ELSE UNCHANGED <<mem, unprotected>>
  /\ Conclude(CASE wrote -> "direct" [] ~wrote /\ image -> "image"
                [] OTHER -> "write_error")
  /\ UNCHANGED <<given, alloc, image, wrote, leaked>>

\* The pages get the protection of the saved region whatever the write returned.
Reprotect ==
  /\ pc = "reprotect"
  /\ SetProtection
  /\ Conclude(CASE wrote -> "direct" [] ~wrote /\ image -> "image"
                [] OTHER -> "write_error")
  /\ UNCHANGED <<given, alloc, image, wrote, leaked>>

Restore ==
  /\ \/ Allocate \/ AllocateFails \/ FreeMisplaced \/ WriteFresh \/ ProtectFresh
     \/ QueryTarget \/ QueryFails \/ Unprotect \/ Overwrite \/ Reprotect
  /\ UNCHANGED regions

\* Every region was tried: restore_memory returns Ok, it has no error path.
RestoreDone == Len(outcomes) = Len(regions)

-----------------------------------------------------------------------------
(* Properties *)

\* Each region gets exactly one outcome, and what restore_region holds is about
\* the region it is restoring.  Pages are leaked before path B alone, and only
\* where calls fail at will.
RestoreTypeOK ==
  /\ mem \in Spaces /\ start \in Spaces /\ callsMayFail \in BOOLEAN
  /\ pc \in {"alloc", "free", "write", "protect", "query", "unprotect",
             "overwrite", "reprotect"}
  /\ image \in BOOLEAN /\ wrote \in BOOLEAN /\ alloc \in Pages
  /\ outcomes \in Seq(Outcomes) /\ Len(outcomes) <= Len(regions)
  /\ pc # "alloc" => InRegion
  /\ pc \in {"free", "write", "protect"} => alloc = RoundDown(Current.base)
  /\ leaked \subseteq DOMAIN outcomes \cup {Here} /\ unprotected \subseteq DOMAIN outcomes
  /\ Here \in leaked => pc \in {"query", "unprotect", "overwrite", "reprotect"}
  /\ leaked \cup unprotected # {} => callsMayFail

\* Pages that region i may have changed: all those VirtualAllocEx took for it
\* when they were not given back, or what its outcome says.
Footprint(i) ==
  CASE i \in leaked -> Reservation(regions[i].base, regions[i].size)
    [] i \notin leaked /\ outcomes[i] \in {"guard", "not_mapped"} -> {}
    [] i \notin leaked /\ outcomes[i] = "image" ->
         IF regions[i].type = "image" THEN {} ELSE Data(regions[i])
    [] i \notin leaked /\ outcomes[i] = "direct" -> Data(regions[i])
    [] OTHER -> Span(regions[i].base, regions[i].size)

\* Between two regions, every page that is not as the loader left it belongs to
\* a region that restore_region wrote or tried to write, or to a reservation at
\* a wrong address that VirtualFreeEx failed to release: a region skipped before
\* its write changes nothing, and no other misplaced page stays.
SkippedUntouched ==
  pc = "alloc" => \A a \in Pages :
    mem[a] # start[a] => \E i \in DOMAIN outcomes : a \in Footprint(i)

\* A region counted as restored is in place, and no later region of the same
\* snapshot, however its calls fail, damages it.
CountedIsInPlace ==
  \A i \in DOMAIN outcomes : outcomes[i] \in {"allocated", "direct"} =>
    \A a \in Data(regions[i]) :
      mem[a].state = "committed" /\ mem[a].data = regions[i].data[a]

\* A page that VirtualAllocEx took at a wrong address and that stays taken.
InLeak(a) == \E i \in leaked : a \in Reservation(regions[i].base, regions[i].size)

\* A region that does not start on an allocation boundary and whose first page
\* was free is reported as not mapped, and its pages stay as the loader left
\* them, whichever calls fail but one: after a VirtualFreeEx that failed, path B
\* writes into the misplaced pages, and they cover earlier regions as well.
MisalignedIsLost ==
  \A i \in DOMAIN outcomes :
    /\ i \notin leaked
    /\ regions[i].base # RoundDown(regions[i].base) /\ start[regions[i].base].state = "free"
    => /\ outcomes[i] = "not_mapped"
       /\ pc = "alloc" => \A a \in Data(regions[i]) : mem[a] = start[a] \/ InLeak(a)

\* Region i leaves its page a writable and executable: the page is past the data
\* of a region that was read in part, the protection of the region is the same,
\* or refused, the last VirtualProtectEx failed, or the page was never released.
LeavesOpen(i, a) ==
  \/ /\ a \in Span(regions[i].base, regions[i].size)
     /\ a \in Data(regions[i]) => regions[i].protect \in {"rwx", "wc"} \/ i \in unprotected
  \/ i \in leaked /\ a \in Reservation(regions[i].base, regions[i].size)

\* Between two regions, a page that the restore has made writable and executable
\* is one that LeavesOpen names.  No failed allocation, query or write leaves
\* one anywhere else, nor does a region whose first VirtualProtectEx failed.
LeftOpenWithReason ==
  pc = "alloc" => \A a \in Pages :
    mem[a].protect = "rwx" /\ start[a].protect # "rwx" =>
      \E i \in DOMAIN outcomes : LeavesOpen(i, a)

=============================================================================
