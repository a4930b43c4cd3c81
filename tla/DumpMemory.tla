----------------------------- MODULE DumpMemory -----------------------------
(***************************************************************************)
(* dump_memory (snapshot/memory.rs): the walk over the regions of the      *)
(* suspended target, the filter, and the read of each region.              *)
(***************************************************************************)
EXTENDS AddressSpace, Sequences

CONSTANT Sources    \* layouts of the target when it is frozen

VARIABLES
  src,              \* the target's memory; it does not change while frozen
  address,          \* where the next VirtualQueryEx looks
  regions,          \* the MemoryRegions captured so far
  unread            \* pages of regions that pass the filter but are not in data

dumpVars == <<src, address, regions, unread>>

DumpInit ==
  /\ src \in Sources
  /\ address = 0
  /\ regions = <<>>
  /\ unread = {}

\* Mutant of Skipped: every image page is left to the loader.
SkippedWithImages(p) == p.protect \in {"noaccess", "guard"} \/ p.type = "image"

\* PAGE_NOACCESS, a guard page, or a read-only page of an image.
Skipped(p) ==
  \/ p.protect \in {"noaccess", "guard"}
  \/ p.type = "image" /\ p.protect = "ro"

\* What is kept of the region base..end-1 when len pages of it could be read.
Captured(base, end, len) ==
  [base |-> base, size |-> end - base, len |-> len,
   protect |-> src[base].protect, type |-> src[base].type,
   data |-> [a \in Span(base, len) |-> src[a].data]]

\* One turn of the loop.  ReadProcessMemory may return the whole region, a
\* part of it (kept, shorter than its size) or nothing (dropped).
DumpRegion ==
  LET end == RegionEnd(src, address) IN
  /\ address < NPages
  /\ address' = end
  /\ IF src[address].state # "committed" \/ Skipped(src[address])
     THEN UNCHANGED <<regions, unread>>
     ELSE \E len \in 0..(end - address) :
            /\ regions' = IF len = 0 THEN regions
                          ELSE Append(regions, Captured(address, end, len))
            /\ unread' = unread \cup (address + len)..(end - 1)
  /\ UNCHANGED src

\* VirtualQueryEx returns 0 past the last user address.
DumpDone == address = NPages

DumpSpec == DumpInit /\ [][DumpRegion]_dumpVars

-----------------------------------------------------------------------------
(* Properties *)

\* Every committed, writable, non-guard page is in the data of exactly one
\* captured region, with its bytes, unless its read failed (README: "reads
\* every committed, writable, non-guard region").
WritablePagesCaptured ==
  DumpDone => \A a \in Pages :
    Writable(src[a]) /\ a \notin unread =>
      \E i \in DOMAIN regions :
        /\ a \in DOMAIN regions[i].data /\ regions[i].data[a] = src[a].data
        /\ \A j \in DOMAIN regions : a \in DOMAIN regions[j].data => j = i

=============================================================================
