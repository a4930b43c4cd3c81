---------------------------- MODULE AddressSpace ----------------------------
(***************************************************************************)
(* The virtual memory of a Windows process, as dump_memory and             *)
(* restore_memory use it: external, modelled from the calls they make      *)
(* (VirtualQueryEx, VirtualAllocEx, VirtualFreeEx, VirtualProtectEx,       *)
(* Read/WriteProcessMemory) and from what the code tests in their results. *)
(*                                                                         *)
(* Addresses are counted in pages.  A reservation starts at a multiple of  *)
(* Granule (64 KB on Windows): VirtualAllocEx rounds the address of a new  *)
(* reservation down to one, and returns the rounded address.               *)
(***************************************************************************)
EXTENDS Naturals

CONSTANTS NPages, Granule

ASSUME SizeAssumption == NPages \in Nat \ {0} /\ Granule \in Nat \ {0}

Pages == 0..(NPages - 1)

\* "rw", "ro" and "wc" are PAGE_READWRITE, PAGE_READONLY, PAGE_WRITECOPY;
\* "rwx" is the PAGE_EXECUTE_READWRITE that restore_region sets.
Protections == {"noaccess", "guard", "ro", "rw", "wc", "rwx"}

\* Contents: <<"saved", a>> is what the snapshotted process had written to page
\* a, <<"disk", a>> the bytes of the image file, <<"own", a>> what the new
\* process put there, <<"zero", a>> a fresh page.
Contents == {"saved", "disk", "own", "zero"} \X Pages

Page == [state : {"free", "reserved", "committed"}, protect : Protections,
         type : {"none", "private", "image"}, base : Pages, data : Contents]

Spaces == [Pages -> Page]

FreePage(a) == [state |-> "free", protect |-> "noaccess", type |-> "none",
                base |-> a, data |-> <<"zero", a>>]

\* A reservation has no gaps, and a free page is like any other.
WellFormed(space) ==
  /\ space \in Spaces
  /\ \A a \in Pages :
       IF space[a].state = "free" THEN space[a] = FreePage(a)
       ELSE /\ space[a].base <= a
            /\ \A c \in space[a].base..a :
                 space[c].state # "free" /\ space[c].base = space[a].base

\* Pages of one region of VirtualQueryEx: same reservation, same attributes.
Alike(p, q) ==
  /\ p.state = q.state /\ p.protect = q.protect /\ p.type = q.type
  /\ p.state # "free" => p.base = q.base

\* The first page after the region of VirtualQueryEx that starts at page a.
RegionEnd(space, a) ==
  CHOOSE b \in (a + 1)..NPages :
    /\ \A c \in a..(b - 1) : Alike(space[a], space[c])
    /\ b < NPages => ~Alike(space[a], space[b])

RoundDown(a) == a - (a % Granule)

Span(base, size) == base..(base + size - 1)

\* Pages taken by VirtualAllocEx(base, size, MEM_RESERVE | MEM_COMMIT).
Reservation(base, size) == RoundDown(base)..(base + size - 1)

CanReserve(space, base, size) ==
  \A a \in Reservation(base, size) : space[a].state = "free"

AfterReserve(space, base, size) ==
  [a \in Pages |->
     IF a \in Reservation(base, size)
     THEN [state |-> "committed", protect |-> "rwx", type |-> "private",
           base |-> RoundDown(base), data |-> <<"zero", a>>]
     ELSE space[a]]

\* VirtualFreeEx(alloc, 0, MEM_RELEASE) gives the whole reservation back.
AfterRelease(space, alloc) ==
  [a \in Pages |->
     IF space[a].state # "free" /\ space[a].base = alloc THEN FreePage(a)
     ELSE space[a]]

\* VirtualProtectEx works on committed pages of one reservation, and refuses
\* PAGE_WRITECOPY on private memory; otherwise it changes nothing.
CanProtect(space, span, protect) ==
  /\ \A a \in span : space[a].state = "committed"
  /\ \A a, b \in span : space[a].base = space[b].base
  /\ protect = "wc" => \A a \in span : space[a].type # "private"

AfterProtect(space, span, protect) ==
  IF CanProtect(space, span, protect)
  THEN [a \in Pages |-> IF a \in span THEN [space[a] EXCEPT !.protect = protect]
                        ELSE space[a]]
  ELSE space

Writable(p) == p.state = "committed" /\ p.protect \in {"rw", "wc", "rwx"}

\* WriteProcessMemory of the pages of `data` that lie in `span`.
AfterWrite(space, span, data) ==
  [a \in Pages |-> IF a \in span THEN [space[a] EXCEPT !.data = data[a]]
                   ELSE space[a]]

=============================================================================
