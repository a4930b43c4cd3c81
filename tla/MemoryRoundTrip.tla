--------------------------- MODULE MemoryRoundTrip ---------------------------
(***************************************************************************)
(* The memory of a process from --snapshot to --restore: dump_memory of    *)
(* the frozen target, then restore_memory of what it captured into a new   *)
(* process.  The .qrs file between them returns the regions as they were   *)
(* given (SnapshotFile, UndisturbedRead).                                  *)
(***************************************************************************)
EXTENDS RestoreMemory

CONSTANT Sources    \* layouts of the target when it is frozen

ASSUME LayoutsAssumption ==
  \A space \in Sources \cup Targets : WellFormed(space)

VARIABLES src, address, unread

Dump == INSTANCE DumpMemory

vars == <<regions, restoreVars, src, address, unread>>

Init == Dump!DumpInit /\ RestoreInit

Next ==
  \/ Dump!DumpRegion /\ UNCHANGED restoreVars
  \/ Dump!DumpDone /\ Restore /\ UNCHANGED <<src, address, unread>>

Spec == Init /\ [][Next]_vars

Finished == Dump!DumpDone /\ RestoreDone

-----------------------------------------------------------------------------
(* Properties *)

\* dump_memory captures every writable page it could read, once.
WritablePagesCaptured == Dump!WritablePagesCaptured

FreeInStart(r) == \A a \in Span(r.base, r.size) : start[a].state = "free"

\* A page comes back as it was: its bytes, and its protection where
\* VirtualProtectEx can set it on fresh private memory.
ComesBack(a) ==
  /\ mem[a].state = "committed" /\ mem[a].data = src[a].data
  /\ mem[a].protect = src[a].protect \/ src[a].protect = "wc"

\* When no call fails at will, the data of every region that starts on an
\* allocation boundary and is free in the new process comes back, whatever
\* the regions before and after it met.
AlignedRegionsComeBack ==
  Finished /\ ~callsMayFail => \A i \in DOMAIN regions :
    regions[i].base = RoundDown(regions[i].base) /\ FreeInStart(regions[i]) =>
      \A a \in Data(regions[i]) : ComesBack(a)

\* All private memory comes back when no call fails at will and nothing is
\* mapped where its whole reservation was (restore/memory.rs: "game state lives
\* in MEM_PRIVATE (managed heap + JIT code), which is restored via fresh-alloc").
PrivateMemoryComesBack ==
  Finished /\ ~callsMayFail => \A i \in DOMAIN regions :
    /\ regions[i].type = "private"
    /\ \A a \in Pages : src[a].state # "free" /\ src[a].base = src[regions[i].base].base
                        => start[a].state = "free"
    => \A a \in Data(regions[i]) : ComesBack(a)

=============================================================================
