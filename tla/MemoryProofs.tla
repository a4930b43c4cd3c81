---------------------------- MODULE MemoryProofs ----------------------------
(***************************************************************************)
(* Theorems about MemoryRoundTrip, for address spaces of any size, any     *)
(* granule and any layouts.                                                *)
(*                                                                         *)
(* The regions of a dump are disjoint.  So each page of the new process    *)
(* belongs to one region at most, and it is as the loader left it until    *)
(* that region is restored, and as that left it afterwards.  A reservation *)
(* at a wrong address takes pages below its own region, and those below it *)
(* were free: when it is not given back it hides no region counted before. *)
(***************************************************************************)
EXTENDS MemoryRoundTrip, WellFoundedInduction, TLAPS

-----------------------------------------------------------------------------
(* Address spaces *)

\* VirtualAllocEx never rounds an address up.
LEMMA RoundDownBelow ==
  ASSUME NEW a \in Nat
  PROVE  RoundDown(a) \in 0..a
<1>1. Granule \in Nat /\ Granule > 0
  BY SizeAssumption
<1>2. a % Granule \in 0..(Granule - 1)
  BY <1>1
<1>3. a = Granule * (a \div Granule) + (a % Granule)
  BY <1>1
<1>4. a \div Granule \in Int
  BY <1>1
<1>5. a \div Granule >= 0
  BY <1>1, <1>2, <1>3, <1>4
<1>6. a % Granule <= a
  BY <1>1, <1>2, <1>3, <1>4, <1>5
<1> QED
  BY <1>1, <1>2, <1>6 DEF RoundDown

\* A set of naturals that is not empty has a least element.
LEMMA LeastNatural ==
  ASSUME NEW S \in SUBSET Nat, S # {}
  PROVE  \E m \in S : \A n \in S : m <= n
<1>1. PICK m \in S : \A n \in S : <<n, m>> \notin OpToRel(<, Nat)
  BY NatLessThanWellFounded, WFMin
<1>2. ASSUME NEW n \in S PROVE m <= n
  <2>1. ~(n < m)
    BY <1>1 DEF OpToRel
  <2> QED
    BY <2>1
<1> QED
  BY <1>2

\* VirtualQueryEx finds a region: all its pages are alike, the next one is not.
LEMMA RegionEnds ==
  ASSUME NEW space, NEW a \in Pages
  PROVE  LET end == Dump!RegionEnd(space, a) IN
         /\ end \in (a + 1)..NPages
         /\ \A c \in a..(end - 1) : Alike(space[a], space[c])
         /\ end < NPages => ~Alike(space[a], space[end])
<1> DEFINE S == {b \in (a + 1)..NPages : b = NPages \/ ~Alike(space[a], space[b])}
           Is(b) == /\ \A c \in a..(b - 1) : Alike(space[a], space[c])
                    /\ b < NPages => ~Alike(space[a], space[b])
<1>1. NPages \in Nat /\ a \in Nat /\ a < NPages
  BY SizeAssumption DEF Pages
<1>2. S \in SUBSET Nat /\ NPages \in S
  BY <1>1
<1>3. PICK m \in S : \A n \in S : m <= n
  BY <1>2, LeastNatural
<1>4. m \in (a + 1)..NPages /\ (m < NPages => ~Alike(space[a], space[m]))
  BY <1>1
<1>5. ASSUME NEW c \in a..(m - 1) PROVE Alike(space[a], space[c])
  <2>1. CASE c = a
    BY <2>1 DEF Alike
  <2>2. CASE c # a
    <3>1. c \in (a + 1)..NPages /\ c < m
      BY <1>1, <1>4, <2>2
    <3>2. c \notin S
      BY <1>1, <1>3, <1>4, <3>1
    <3> QED
      BY <3>1, <3>2
  <2> QED
    BY <2>1, <2>2
<1>6. \E b \in (a + 1)..NPages : Is(b)
  BY <1>4, <1>5
<1>7. Dump!RegionEnd(space, a) = CHOOSE b \in (a + 1)..NPages : Is(b)
  BY DEF Dump!RegionEnd, Dump!Alike, Alike
<1> QED
  BY <1>6, <1>7

\* What a well-formed address space says of one page.
LEMMA Shape ==
  ASSUME NEW space, WellFormed(space), NEW a \in Pages
  PROVE  /\ space[a] \in Page
         /\ space[a].state = "free" => space[a] = FreePage(a)
         /\ space[a].state # "free" =>
              /\ space[a].base <= a /\ space[a].base \in Pages
              /\ \A c \in space[a].base..a :
                   /\ c \in Pages /\ space[c].state # "free"
                   /\ space[c].base = space[a].base
<1>1. space[a] \in Page
  BY DEF WellFormed, Spaces
<1>2. space[a].base \in Pages
  BY <1>1 DEF Page
<1>3. \A c \in space[a].base..a : c \in Pages
  BY <1>2, SizeAssumption DEF Pages
<1> QED
  BY <1>1, <1>2, <1>3 DEF WellFormed

\* A free page is a page.
LEMMA FreePages ==
  ASSUME NEW a \in Pages
  PROVE  FreePage(a) \in Page /\ FreePage(a).state = "free"
BY DEF FreePage, Page, Protections, Contents

\* What an address space must be to have its shape.
LEMMA IsShaped ==
  ASSUME NEW space, space = [a \in Pages |-> space[a]],
         \A a \in Pages :
           /\ space[a] \in Page
           /\ \/ space[a] = FreePage(a)
              \/ /\ space[a].state # "free" /\ space[a].base <= a
                 /\ \A c \in space[a].base..a :
                      space[c].state # "free" /\ space[c].base = space[a].base
  PROVE  WellFormed(space)
<1>1. space \in Spaces
  BY DEF Spaces
<1>2. \A a \in Pages : FreePage(a).state = "free"
  BY FreePages
<1> QED
  BY <1>1, <1>2 DEF WellFormed

\* None of the calls that change memory breaks the shape of an address space.
LEMMA ReserveKeepsShape ==
  ASSUME NEW space, WellFormed(space), NEW base \in Pages, NEW size \in Nat,
         size > 0, base + size <= NPages, CanReserve(space, base, size)
  PROVE  WellFormed(AfterReserve(space, base, size))
<1> DEFINE next == AfterReserve(space, base, size)
           low == RoundDown(base)
           new(a) == [state |-> "committed", protect |-> "rwx", type |-> "private",
                      base |-> low, data |-> <<"zero", a>>]
<1>1. low \in Nat /\ low <= base /\ low \in Pages /\ NPages \in Nat
  BY RoundDownBelow, SizeAssumption DEF Pages
<1>2. \A a \in Pages : next[a] = IF a \in Reservation(base, size) THEN new(a) ELSE space[a]
  BY DEF AfterReserve
<1>3. \A a \in Pages : new(a) \in Page
  BY <1>1 DEF Page, Protections, Contents
<1>4. \A a \in Reservation(base, size) : a \in Pages /\ low <= a
  BY <1>1 DEF Reservation, Pages
<1>5. ASSUME NEW a \in Pages
      PROVE  /\ next[a] \in Page
             /\ \/ next[a] = FreePage(a)
                \/ /\ next[a].state # "free" /\ next[a].base <= a
                   /\ \A c \in next[a].base..a :
                        next[c].state # "free" /\ next[c].base = next[a].base
  <2>1. CASE a \in Reservation(base, size)
    <3>1. next[a] = new(a)
      BY <1>2, <2>1
    <3>2. \A c \in low..a : c \in Reservation(base, size)
      BY <1>1, <2>1 DEF Reservation, Pages
    <3>3. \A c \in low..a : next[c] = new(c)
      BY <1>2, <1>4, <3>2
    <3>4. next[a].base = low /\ next[a].state # "free" /\ next[a] \in Page /\ low <= a
      BY <1>3, <1>4, <2>1, <3>1
    <3>5. \A c \in low..a : next[c].state # "free" /\ next[c].base = low
      <4>1. \A c : new(c).state # "free" /\ new(c).base = low
        OBVIOUS
      <4> HIDE DEF next, low, new
      <4> QED
        BY <3>3, <4>1
    <3> HIDE DEF next, low, new
    <3> QED
      BY <3>4, <3>5
  <2>2. CASE a \notin Reservation(base, size)
    <3>1. next[a] = space[a]
      BY <1>2, <2>2
    <3>2. CASE space[a].state = "free"
      BY <3>1, <3>2, Shape
    <3>3. CASE space[a].state # "free"
      <4>1. \A c \in space[a].base..a :
              c \in Pages /\ space[c].state # "free" /\ space[c].base = space[a].base
        BY <3>3, Shape
      <4>2. \A c \in space[a].base..a : next[c] = space[c]
        BY <1>2, <4>1 DEF CanReserve
      <4> HIDE DEF next
      <4> QED
        BY <3>1, <3>3, <4>1, <4>2, Shape
    <3> QED
      BY <3>2, <3>3
  <2> QED
    BY <2>1, <2>2
<1>6. next = [a \in Pages |-> next[a]]
  BY DEF AfterReserve
<1> HIDE DEF next
<1>7. WellFormed(next)
  BY <1>5, <1>6, IsShaped
<1> QED
  BY <1>7 DEF next

\* Releasing removes whole reservations.
LEMMA ReleaseKeepsShape ==
  ASSUME NEW space, WellFormed(space), NEW low
  PROVE  WellFormed(AfterRelease(space, low))
<1> DEFINE next == AfterRelease(space, low)
<1>1. \A a \in Pages : next[a] =
        IF space[a].state # "free" /\ space[a].base = low THEN FreePage(a) ELSE space[a]
  BY DEF AfterRelease
<1>2. next = [a \in Pages |-> next[a]]
  BY DEF AfterRelease
<1> HIDE DEF next
<1>3. ASSUME NEW a \in Pages
      PROVE  /\ next[a] \in Page
             /\ \/ next[a] = FreePage(a)
                \/ /\ next[a].state # "free" /\ next[a].base <= a
                   /\ \A c \in next[a].base..a :
                        next[c].state # "free" /\ next[c].base = next[a].base
  <2>1. CASE space[a].state # "free" /\ space[a].base = low
    BY <1>1, <2>1, FreePages
  <2>2. CASE space[a].state = "free"
    BY <1>1, <2>2, Shape
  <2>3. CASE space[a].state # "free" /\ space[a].base # low
    <3>1. \A c \in space[a].base..a :
            c \in Pages /\ space[c].state # "free" /\ space[c].base = space[a].base
      BY <2>3, Shape
    <3>2. next[a] = space[a] /\ \A c \in space[a].base..a : next[c] = space[c]
      BY <1>1, <2>3, <3>1
    <3> QED
      BY <2>3, <3>1, <3>2, Shape
  <2> QED
    BY <2>1, <2>2, <2>3
<1>4. WellFormed(next)
  BY <1>2, <1>3, IsShaped
<1> QED
  BY <1>4 DEF next

\* A change of protections and contents, on pages that are not free.
LEMMA ChangeKeepsShape ==
  ASSUME NEW space, WellFormed(space), NEW next, next = [a \in Pages |-> next[a]],
         \A a \in Pages :
           \/ next[a] = space[a]
           \/ /\ next[a] \in Page /\ space[a].state = "committed"
              /\ next[a].state = "committed" /\ next[a].base = space[a].base
  PROVE  WellFormed(next)
<1>1. ASSUME NEW a \in Pages
      PROVE  /\ next[a] \in Page
             /\ \/ next[a] = FreePage(a)
                \/ /\ next[a].state # "free" /\ next[a].base <= a
                   /\ \A c \in next[a].base..a :
                        next[c].state # "free" /\ next[c].base = next[a].base
  <2>1. CASE space[a].state = "free"
    BY <2>1, Shape
  <2>2. CASE space[a].state # "free"
    <3>1. \A c \in space[a].base..a :
            c \in Pages /\ space[c].state # "free" /\ space[c].base = space[a].base
      BY <2>2, Shape
    <3> QED
      BY <2>2, <3>1, Shape
  <2> QED
    BY <2>1, <2>2
<1> QED
  BY <1>1, IsShaped

\* A new protection moves no reservation.
LEMMA ProtectKeepsShape ==
  ASSUME NEW space, WellFormed(space), NEW span, NEW protect \in Protections
  PROVE  WellFormed(AfterProtect(space, span, protect))
<1>1. CASE ~CanProtect(space, span, protect)
  BY <1>1 DEF AfterProtect
<1>2. CASE CanProtect(space, span, protect)
  <2> DEFINE next == AfterProtect(space, span, protect)
  <2>1. next = [a \in Pages |-> next[a]]
    BY <1>2 DEF AfterProtect
  <2>2. \A a \in Pages : next[a] =
          IF a \in span THEN [space[a] EXCEPT !.protect = protect] ELSE space[a]
    BY <1>2 DEF AfterProtect
  <2> HIDE DEF next
  <2>3. \A a \in Pages : space[a] \in Page
    BY Shape
  <2>4. \A a \in span : space[a].state = "committed"
    BY <1>2 DEF CanProtect
  <2>5. WellFormed(next)
    <3>1. ASSUME NEW a \in Pages, a \in span
          PROVE  next[a] \in Page /\ next[a].state = "committed"
                 /\ next[a].base = space[a].base
      BY <2>2, <2>3, <2>4, <3>1 DEF Page
    <3> QED
      BY <2>1, <2>2, <2>4, <3>1, ChangeKeepsShape
  <2> QED
    BY <2>5 DEF next
<1> QED
  BY <1>1, <1>2

\* Nor does a write.
LEMMA WriteKeepsShape ==
  ASSUME NEW space, WellFormed(space), NEW span, NEW data,
         \A a \in span : space[a].state = "committed" /\ data[a] \in Contents
  PROVE  WellFormed(AfterWrite(space, span, data))
<1> DEFINE next == AfterWrite(space, span, data)
<1>1. next = [a \in Pages |-> next[a]]
  BY DEF AfterWrite
<1>2. \A a \in Pages : next[a] =
        IF a \in span THEN [space[a] EXCEPT !.data = data[a]] ELSE space[a]
  BY DEF AfterWrite
<1> HIDE DEF next
<1>3. \A a \in Pages : space[a] \in Page
  BY Shape
<1>4. ASSUME NEW a \in Pages, a \in span
      PROVE  next[a] \in Page /\ next[a].state = "committed"
             /\ next[a].base = space[a].base
  BY <1>2, <1>3, <1>4 DEF Page
<1>5. WellFormed(next)
  BY <1>1, <1>2, <1>4, ChangeKeepsShape
<1> QED
  BY <1>5 DEF next

-----------------------------------------------------------------------------
(* The dump *)

Fragments == UNION {[S -> Contents] : S \in SUBSET Pages}

Region ==
  [base : Pages, size : 1..NPages, len : 1..NPages, protect : Protections,
   type : {"none", "private", "image"}, data : Fragments]

\* A region that was captured: where it is, and what is in it.
Behind(r, limit) == r.base + r.size <= limit /\ r.len <= r.size

IsCopy(r, space) ==
  /\ DOMAIN r.data = Data(r)
  /\ \A a \in Data(r) : r.data[a] = space[a].data /\ r.protect = space[a].protect

Ascending ==
  \A i, j \in DOMAIN regions : i < j => regions[i].base + regions[i].size <= regions[j].base

DumpInv ==
  /\ src \in Sources /\ address \in 0..NPages
  /\ regions \in Seq(Region)
  /\ \A i \in DOMAIN regions : Behind(regions[i], address) /\ IsCopy(regions[i], src)
  /\ Ascending
  /\ \A a \in Pages : a < address /\ Writable(src[a]) =>
       a \in unread \/ \E i \in DOMAIN regions : a \in Data(regions[i])

\* What one turn of dump_memory captures is a copy of the region it looks at.
LEMMA CapturedRegion ==
  ASSUME DumpInv, address < NPages, NEW len \in Nat,
         len \in 0..(Dump!RegionEnd(src, address) - address), len # 0
  PROVE  LET end == Dump!RegionEnd(src, address)
             r == Dump!Captured(address, end, len)
         IN  /\ r \in Region /\ IsCopy(r, src)
             /\ r.base = address /\ r.base + r.size = end /\ r.len = len
             /\ r.len <= r.size
<1> DEFINE end == Dump!RegionEnd(src, address)
           r == Dump!Captured(address, end, len)
<1>1. address \in Pages /\ NPages \in Nat /\ address \in Nat
  BY SizeAssumption DEF DumpInv, Pages
<1>2. end \in (address + 1)..NPages /\ \A c \in address..(end - 1) : Alike(src[address], src[c])
  BY <1>1, RegionEnds
<1>3. \A a \in Pages : src[a] \in Page
  BY LayoutsAssumption, Shape DEF DumpInv
<1>4. /\ r.base = address /\ r.size = end - address /\ r.len = len
      /\ r.protect = src[address].protect /\ r.type = src[address].type
      /\ r.data = [a \in Data(r) |-> src[a].data]
      /\ r = [base |-> r.base, size |-> r.size, len |-> r.len,
              protect |-> r.protect, type |-> r.type, data |-> r.data]
  BY DEF Dump!Captured, Dump!Span, Data, Span
<1> HIDE DEF end, r
<1>5. Data(r) \in SUBSET (address..(end - 1)) /\ Data(r) \in SUBSET Pages
  BY <1>1, <1>2, <1>4 DEF Data, Span, Pages, end
<1>6. \A a \in Data(r) : src[a].data \in Contents /\ src[a].protect = r.protect
  <2>1. \A a \in Data(r) : src[a].data \in Contents
    BY <1>3, <1>5 DEF Page
  <2>2. \A a \in Data(r) : Alike(src[address], src[a])
    BY <1>2, <1>5 DEF end
  <2> QED
    BY <1>4, <2>1, <2>2 DEF Alike
<1>7. r.data \in Fragments
  <2>1. r.data \in [Data(r) -> Contents]
    BY <1>4, <1>6
  <2> QED
    BY <1>5, <2>1 DEF Fragments
<1>8. r.size \in 1..NPages /\ r.len \in 1..NPages /\ r.len <= r.size
      /\ r.base + r.size = end
  BY <1>1, <1>2, <1>4 DEF end
<1>9. r.protect \in Protections /\ r.type \in {"none", "private", "image"}
  BY <1>1, <1>3, <1>4 DEF Page
<1>10. r \in Region
  BY <1>1, <1>4, <1>7, <1>8, <1>9 DEF Region
<1>11. IsCopy(r, src)
  BY <1>4, <1>6 DEF IsCopy
<1> QED
  BY <1>4, <1>8, <1>10, <1>11 DEF r, end

\* Before the walk nothing is captured.
LEMMA DumpStarts ==
  ASSUME Dump!DumpInit
  PROVE  DumpInv
<1>1. src \in Sources /\ address = 0 /\ regions = <<>> /\ NPages \in Nat
  BY SizeAssumption DEF Dump!DumpInit
<1>2. DOMAIN regions = {} /\ regions \in Seq(Region)
  BY <1>1
<1>3. \A a \in Pages : ~(a < address)
  BY <1>1 DEF Pages
<1> QED
  BY <1>1, <1>2, <1>3 DEF DumpInv, Ascending

\* The regions grow by one that lies behind the walk.
LEMMA AppendAscends ==
  ASSUME DumpInv, NEW r \in Region, r.base = address, regions' = Append(regions, r)
  PROVE  /\ regions' \in Seq(Region) /\ DOMAIN regions' = 1..(Len(regions) + 1)
         /\ \A i \in DOMAIN regions : i \in DOMAIN regions' /\ regions'[i] = regions[i]
         /\ regions'[Len(regions) + 1] = r
         /\ Ascending'
<1>1. regions \in Seq(Region) /\ DOMAIN regions = 1..Len(regions) /\ Len(regions) \in Nat
  BY DEF DumpInv
<1>2. regions' \in Seq(Region) /\ DOMAIN regions' = 1..(Len(regions) + 1)
  BY <1>1
<1>3. \A i \in DOMAIN regions : i \in DOMAIN regions' /\ regions'[i] = regions[i]
  BY <1>1
<1>4. regions'[Len(regions) + 1] = r
  BY <1>1
<1>5. ASSUME NEW i \in DOMAIN regions', NEW j \in DOMAIN regions', i < j
      PROVE  regions'[i].base + regions'[i].size <= regions'[j].base
  <2>1. i \in DOMAIN regions /\ regions'[i] = regions[i]
    BY <1>1, <1>2, <1>3, <1>5
  <2>2. CASE j \in DOMAIN regions
    BY <1>3, <1>5, <2>1, <2>2 DEF DumpInv, Ascending
  <2>3. CASE j \notin DOMAIN regions
    <3>1. j = Len(regions) + 1
      BY <1>1, <1>2, <2>3
    <3> QED
      BY <1>4, <2>1, <3>1 DEF DumpInv, Behind
  <2> QED
    BY <2>2, <2>3
<1> QED
  BY <1>2, <1>3, <1>4, <1>5 DEF Ascending

\* One turn of the loop of dump_memory, with a region read whole, in part or not.
LEMMA DumpStepKeeps ==
  ASSUME DumpInv, Dump!DumpRegion
  PROVE  DumpInv'
<1> DEFINE end == Dump!RegionEnd(src, address)
<1>1. /\ address < NPages /\ address' = end /\ src' = src
      /\ address \in Pages /\ address \in Nat /\ NPages \in Nat
  BY SizeAssumption DEF Dump!DumpRegion, DumpInv, Pages
<1>2. /\ end \in (address + 1)..NPages
      /\ \A c \in address..(end - 1) : Alike(src[address], src[c])
  BY <1>1, RegionEnds
<1>3. \/ /\ src[address].state # "committed" \/ Dump!Skipped(src[address])
         /\ regions' = regions /\ unread' = unread
      \/ /\ ~Dump!Skipped(src[address])
         /\ \E len \in 0..(end - address) :
              /\ regions' = IF len = 0 THEN regions
                            ELSE Append(regions, Dump!Captured(address, end, len))
              /\ unread' = unread \cup (address + len)..(end - 1)
  BY DEF Dump!DumpRegion
<1>4. \A i \in DOMAIN regions :
        /\ regions[i] \in Region /\ Behind(regions[i], address')
        /\ IsCopy(regions[i], src')
  <2> SUFFICES ASSUME NEW i \in DOMAIN regions
               PROVE  /\ regions[i] \in Region /\ Behind(regions[i], address')
                      /\ IsCopy(regions[i], src')
    OBVIOUS
  <2>1. regions[i] \in Region
    BY DEF DumpInv
  <2>2. IsCopy(regions[i], src')
    BY <1>1 DEF DumpInv, IsCopy, Data, Span
  <2>3. regions[i].base + regions[i].size \in Nat
    BY <2>1, SizeAssumption DEF Region, Pages
  <2>4. Behind(regions[i], address')
    BY <1>1, <1>2, <2>3 DEF DumpInv, Behind
  <2> QED
    BY <2>1, <2>2, <2>4
<1>5. ASSUME NEW a \in Pages, ~(a < address), a < end, Writable(src[a])
      PROVE  src[address].state = "committed" /\ ~Dump!Skipped(src[address])
             /\ a \in address..(end - 1)
  <2>1. a \in address..(end - 1)
    BY <1>1, <1>2, <1>5 DEF Pages
  <2>2. Alike(src[address], src[a])
    BY <1>2, <2>1
  <2> QED
    BY <1>5, <2>1, <2>2 DEF Alike, Writable, Dump!Skipped
<1>6. src' \in Sources /\ address' \in 0..NPages
  BY <1>1, <1>2 DEF DumpInv
<1>7. CASE /\ regions' = regions /\ unread \in SUBSET unread'
           /\ \A a \in Pages : /\ ~(a < address) /\ a < end /\ Writable(src[a]) => a \in unread'
  <2>1. regions' \in Seq(Region) /\ Ascending'
    BY <1>7 DEF DumpInv, Ascending
  <2>2. \A i \in DOMAIN regions' : Behind(regions'[i], address') /\ IsCopy(regions'[i], src')
    BY <1>4, <1>7
  <2>3. ASSUME NEW a \in Pages, a < address', Writable(src'[a])
        PROVE  a \in unread' \/ \E i \in DOMAIN regions' : a \in Data(regions'[i])
    BY <1>1, <1>7, <2>3 DEF DumpInv
  <2> HIDE DEF end
  <2> QED
    BY <1>6, <2>1, <2>2, <2>3 DEF DumpInv
<1>8. ASSUME NEW len \in Nat, len \in 1..(end - address), 
             regions' = Append(regions, Dump!Captured(address, end, len)),
             unread' = unread \cup (address + len)..(end - 1)
      PROVE  DumpInv'
  <2> DEFINE r == Dump!Captured(address, end, len)
             new == Len(regions) + 1
  <2>1. /\ r \in Region /\ IsCopy(r, src) /\ r.base = address /\ r.base + r.size = end
        /\ r.len = len /\ r.len <= r.size
    <3>1. len # 0 /\ len \in 0..(Dump!RegionEnd(src, address) - address)
      BY <1>1, <1>2, <1>8
    <3> QED
      BY <1>1, <3>1, CapturedRegion
  <2> HIDE DEF end, r
  <2>2. /\ regions' \in Seq(Region) /\ DOMAIN regions' = 1..(Len(regions) + 1)
        /\ \A i \in DOMAIN regions : i \in DOMAIN regions' /\ regions'[i] = regions[i]
        /\ regions'[new] = r
        /\ Ascending'
    BY <1>8, <2>1, AppendAscends DEF r
  <2>3. regions \in Seq(Region) /\ DOMAIN regions = 1..Len(regions) /\ Len(regions) \in Nat
    BY DEF DumpInv
  <2>4. Behind(r, address') /\ IsCopy(r, src')
    BY <1>1, <1>2, <2>1 DEF Behind, IsCopy, Data, Span
  <2>5. \A i \in DOMAIN regions' : Behind(regions'[i], address') /\ IsCopy(regions'[i], src')
    <3> SUFFICES ASSUME NEW i \in DOMAIN regions'
                 PROVE  Behind(regions'[i], address') /\ IsCopy(regions'[i], src')
      OBVIOUS
    <3>1. i \in DOMAIN regions \/ i = new
      BY <2>2, <2>3
    <3> QED
      BY <1>4, <2>2, <2>4, <3>1
  <2>6. ASSUME NEW a \in Pages, a < address', Writable(src'[a])
        PROVE  a \in unread' \/ \E i \in DOMAIN regions' : a \in Data(regions'[i])
    <3>1. CASE a < address
      BY <1>1, <1>8, <2>2, <2>6, <3>1 DEF DumpInv
    <3>2. CASE ~(a < address)
      <4>1. a \in address..(end - 1)
        BY <1>1, <1>5, <2>6, <3>2
      <4>2. a \in Data(r) \/ a \in (address + len)..(end - 1)
        BY <1>1, <2>1, <4>1 DEF Data, Span
      <4>3. new \in DOMAIN regions'
        BY <2>2, <2>3
      <4> QED
        BY <1>8, <2>2, <4>2, <4>3
    <3> QED
      BY <3>1, <3>2
  <2> QED
    BY <1>6, <2>2, <2>5, <2>6 DEF DumpInv
<1>9. CASE regions' = regions /\ unread' = unread
           /\ (src[address].state # "committed" \/ Dump!Skipped(src[address]))
  BY <1>5, <1>7, <1>9
<1>10. ASSUME NEW len \in 0..(end - address),
              regions' = IF len = 0 THEN regions
                         ELSE Append(regions, Dump!Captured(address, end, len)),
              unread' = unread \cup (address + len)..(end - 1)
       PROVE  DumpInv'
  <2>1. CASE len = 0
    <3>1. (address + len) = address
      BY <1>1, <2>1
    <3>2. \A a \in Pages : ~(a < address) /\ a < end /\ Writable(src[a]) => a \in unread'
      BY <1>5, <1>10, <3>1
    <3> QED
      BY <1>7, <1>10, <2>1, <3>2
  <2>2. CASE len # 0
    <3>1. len \in Nat /\ len \in 1..(end - address)
      BY <1>1, <1>2, <2>2
    <3> QED
      BY <1>8, <1>10, <2>2, <3>1
  <2> QED
    BY <2>1, <2>2
<1> QED
  BY <1>3, <1>9, <1>10

\* A page is in the data of one region at most.
LEMMA OneRegion ==
  ASSUME DumpInv, NEW i \in DOMAIN regions, NEW j \in DOMAIN regions, NEW a,
         a \in Span(regions[i].base, regions[i].size),
         a \in Span(regions[j].base, regions[j].size)
  PROVE  i = j
<1>1. /\ regions[i] \in Region /\ regions[j] \in Region
      /\ i \in Nat /\ j \in Nat
  BY DEF DumpInv
<1>2. /\ regions[i].base \in Nat /\ regions[i].size \in Nat
      /\ regions[j].base \in Nat /\ regions[j].size \in Nat
  BY <1>1, SizeAssumption DEF Region, Pages
<1>3. a \in Nat /\ a < regions[i].base + regions[i].size /\ a >= regions[i].base
      /\ a < regions[j].base + regions[j].size /\ a >= regions[j].base
  BY <1>2 DEF Span
<1>4. ~(i < j) /\ ~(j < i)
  BY <1>2, <1>3 DEF DumpInv, Ascending
<1> QED
  BY <1>1, <1>4

\* The data of a region is at its start.
LEMMA DataInRegion ==
  ASSUME DumpInv, NEW i \in DOMAIN regions
  PROVE  LET r == regions[i] IN
         /\ r \in Region /\ r.base \in Pages /\ r.base \in Nat /\ r.size \in Nat /\ r.len \in Nat
         /\ r.size > 0 /\ r.len > 0 /\ r.len <= r.size /\ r.base + r.size <= NPages
         /\ Data(r) \in SUBSET Span(r.base, r.size) /\ Span(r.base, r.size) \in SUBSET Pages
         /\ DOMAIN r.data = Data(r)
         /\ \A a \in Data(r) : r.data[a] = src[a].data /\ r.data[a] \in Contents
                               /\ r.protect = src[a].protect
<1> DEFINE r == regions[i]
<1>1. r \in Region /\ Behind(r, address) /\ IsCopy(r, src)
  BY DEF DumpInv
<1> HIDE DEF r
<1>2. /\ NPages \in Nat /\ r.base \in Pages /\ r.base \in Nat /\ r.size \in 1..NPages
      /\ r.len \in 1..NPages
  BY <1>1, SizeAssumption DEF Region, Pages
<1>3. r.len <= r.size /\ r.base + r.size <= NPages
  BY <1>1, <1>2 DEF Behind, DumpInv
<1>4. Data(r) \in SUBSET Span(r.base, r.size) /\ Span(r.base, r.size) \in SUBSET Pages
  BY <1>2, <1>3 DEF Data, Span, Pages
<1>5. src \in Sources
  BY DEF DumpInv
<1>6. \A a \in Pages : src[a].data \in Contents
  BY <1>5, LayoutsAssumption, Shape DEF Page
<1>7. /\ DOMAIN r.data = Data(r)
      /\ \A a \in Data(r) : r.data[a] = src[a].data /\ r.data[a] \in Contents
                            /\ r.protect = src[a].protect
  BY <1>1, <1>4, <1>6 DEF IsCopy
<1> QED
  BY <1>1, <1>2, <1>3, <1>4, <1>7 DEF r

\* At the end of the walk each writable page was behind it.
LEMMA DumpResult ==
  ASSUME DumpInv
  PROVE  WritablePagesCaptured
<1> SUFFICES ASSUME Dump!DumpDone, NEW a \in Pages, Writable(src[a]), a \notin unread
             PROVE  \E i \in DOMAIN regions :
                      /\ a \in DOMAIN regions[i].data /\ regions[i].data[a] = src[a].data
                      /\ \A j \in DOMAIN regions : a \in DOMAIN regions[j].data => j = i
  BY DEF WritablePagesCaptured, Dump!WritablePagesCaptured, Dump!Pages, Pages,
         Dump!Writable, Writable
<1>1. a < address
  BY SizeAssumption DEF Dump!DumpDone, Pages
<1>2. PICK i \in DOMAIN regions : a \in Data(regions[i])
  BY <1>1 DEF DumpInv
<1>3. ASSUME NEW j \in DOMAIN regions, a \in DOMAIN regions[j].data PROVE j = i
  <2>1. a \in Span(regions[i].base, regions[i].size)
    BY <1>2, DataInRegion
  <2>2. a \in Span(regions[j].base, regions[j].size)
    BY <1>3, DataInRegion
  <2> QED
    BY <2>1, <2>2, OneRegion
<1> QED
  BY <1>2, <1>3, DataInRegion

-----------------------------------------------------------------------------
(* The restore *)

Counted(i) == outcomes[i] \in {"allocated", "direct"}

\* The pages that restore_region has changed for the region it is restoring.
InFlight ==
  CASE pc = "free" -> Reservation(Current.base, Current.size)
    [] pc \in {"write", "protect"} -> Span(Current.base, Current.size)
    [] pc \in {"overwrite", "reprotect"} -> Data(Current)
    [] OTHER -> {}

Written ==
  \A a \in Data(Current) : mem[a].state = "committed" /\ mem[a].data = Current.data[a]

\* What VirtualFreeEx is about to give back: all of it, and nothing else.
Misplaced ==
  pc = "free" =>
    /\ \A a \in Pages : a \in Reservation(Current.base, Current.size)
                        <=> mem[a].state # "free" /\ mem[a].base = alloc
    /\ \A a \in Reservation(Current.base, Current.size) :
         /\ start[a] = FreePage(a)
         /\ \A i \in DOMAIN outcomes : Counted(i) => a \notin Data(regions[i])

Fresh ==
  pc \in {"write", "protect"} =>
    /\ alloc = Current.base
    /\ \A a \in Span(Current.base, Current.size) :
         mem[a].state = "committed" /\ mem[a].base = alloc /\ mem[a].type = "private"
    /\ pc = "protect" /\ wrote => Written

Mapped ==
  pc \in {"unprotect", "overwrite", "reprotect"} =>
    /\ ~(image /\ Current.type = "image")
    /\ pc = "reprotect" /\ wrote => Written

\* The regions that may have changed memory for good.
Touching == DOMAIN outcomes \cup leaked

Changed ==
  \A a \in Pages : mem[a] # start[a] =>
    a \in InFlight \/ \E i \in Touching : a \in Footprint(i)

FreeIsFree == \A a \in Pages : mem[a].state = "free" => start[a] = mem[a]

Open ==
  \A a \in Pages : mem[a].protect = "rwx" /\ start[a].protect # "rwx" =>
    \/ \E i \in Touching : LeavesOpen(i, a)
    \/ /\ a \in InFlight
       /\ pc \in {"overwrite", "reprotect"} => CanProtect(mem, Data(Current), "rwx")

Aligned(r) == r.base = RoundDown(r.base) /\ FreeInStart(r)

AlignedIsBack ==
  ~callsMayFail =>
    /\ \A i \in DOMAIN outcomes : Aligned(regions[i]) =>
         /\ outcomes[i] = "allocated"
         /\ \A a \in Data(regions[i]) :
              mem[a].protect = src[a].protect \/ src[a].protect = "wc"
    /\ InRegion /\ Aligned(Current) =>
         pc \in {"alloc", "write", "protect"} /\ (pc = "protect" => wrote)

RestoreInv ==
  /\ RestoreTypeOK /\ start \in Targets /\ WellFormed(mem)
  /\ ~Dump!DumpDone => pc = "alloc" /\ outcomes = <<>>
  /\ Misplaced /\ Fresh /\ Mapped
  /\ Changed /\ FreeIsFree /\ CountedIsInPlace /\ Open /\ AlignedIsBack

\* Where the region being restored is.
LEMMA HereIs ==
  ASSUME DumpInv, RestoreInv, InRegion
  PROVE  /\ Here \in DOMAIN regions /\ Current = regions[Here] /\ Here \notin DOMAIN outcomes
         /\ Current \in Region /\ Current.base \in Pages /\ Current.base \in Nat
         /\ Current.size \in Nat /\ Current.len \in Nat
         /\ Current.size > 0 /\ Current.len > 0 /\ Current.base + Current.size <= NPages
         /\ Current.len <= Current.size
         /\ Current.protect \in Protections
         /\ Data(Current) \in SUBSET Span(Current.base, Current.size)
         /\ Span(Current.base, Current.size) \in SUBSET Pages
         /\ \A a \in Data(Current) : Current.data[a] = src[a].data /\ Current.data[a] \in Contents
                                     /\ Current.protect = src[a].protect
<1>1. regions \in Seq(Region) /\ outcomes \in Seq(Outcomes)
  BY DEF DumpInv, RestoreInv, RestoreTypeOK
<1>2. Len(outcomes) \in Nat /\ Len(regions) \in Nat /\ Len(outcomes) < Len(regions)
  BY <1>1 DEF InRegion
<1>3. Here \in DOMAIN regions /\ Current = regions[Here] /\ Here \notin DOMAIN outcomes
  BY <1>1, <1>2 DEF Here, Current
<1>4. Current \in Region
  BY <1>3, DataInRegion
<1>5. Current.protect \in Protections
  BY <1>4 DEF Region
<1> QED
  BY <1>3, <1>5, DataInRegion

\* What VirtualAllocEx would take for it.
LEMMA ReservationIs ==
  ASSUME DumpInv, RestoreInv, InRegion
  PROVE  /\ RoundDown(Current.base) \in Pages
         /\ RoundDown(Current.base) \in Reservation(Current.base, Current.size)
         /\ Reservation(Current.base, Current.size) \in SUBSET Pages
         /\ Span(Current.base, Current.size) \in SUBSET Reservation(Current.base, Current.size)
         /\ RoundDown(Current.base) = Current.base =>
              Reservation(Current.base, Current.size) = Span(Current.base, Current.size)
<1>1. /\ Current.base \in Nat /\ Current.size \in Nat /\ NPages \in Nat /\ Current.size > 0
      /\ Current.base + Current.size <= NPages
  BY HereIs, SizeAssumption
<1>2. RoundDown(Current.base) \in 0..Current.base
  BY <1>1, RoundDownBelow
<1> QED
  BY <1>1, <1>2 DEF Reservation, Span, Pages

\* It shares no page with the regions before it, nor with what was reserved for
\* them: VirtualAllocEx rounds down only.
LEMMA Apart ==
  ASSUME DumpInv, RestoreInv, NEW i \in DOMAIN outcomes
  PROVE  /\ i \in DOMAIN regions
         /\ InRegion => \A a \in Reservation(regions[i].base, regions[i].size) :
              a \notin Span(Current.base, Current.size)
<1>1. i \in DOMAIN regions
  <2>1. regions \in Seq(Region) /\ outcomes \in Seq(Outcomes) /\ Len(outcomes) <= Len(regions)
    BY DEF DumpInv, RestoreInv, RestoreTypeOK
  <2> QED
    BY <2>1
<1>2. ASSUME InRegion, NEW a \in Reservation(regions[i].base, regions[i].size)
      PROVE  a \notin Span(Current.base, Current.size)
  <2>1. Here \in DOMAIN regions /\ Current = regions[Here] /\ Current.base \in Nat
    BY <1>2, HereIs
  <2>2. i < Here
    <3>1. Len(outcomes) \in Nat /\ DOMAIN outcomes = 1..Len(outcomes)
      BY DEF RestoreInv, RestoreTypeOK
    <3> QED
      BY <3>1 DEF Here
  <2>3. regions[i].base + regions[i].size <= Current.base
    BY <1>1, <2>1, <2>2 DEF DumpInv, Ascending
  <2>4. /\ regions[i].base \in Nat /\ regions[i].size \in Nat
        /\ RoundDown(regions[i].base) \in Nat
    BY <1>1, DataInRegion, RoundDownBelow
  <2> QED
    BY <1>2, <2>1, <2>3, <2>4 DEF Reservation, Span
<1> QED
  BY <1>1, <1>2

\* The pages a done region may have changed, and those it is counted for, are its
\* own, or were reserved for it.
LEMMA OwnPages ==
  ASSUME DumpInv, RestoreInv, NEW i \in DOMAIN outcomes
  PROVE  /\ Footprint(i) \in SUBSET Reservation(regions[i].base, regions[i].size)
         /\ i \notin leaked => Footprint(i) \in SUBSET Span(regions[i].base, regions[i].size)
         /\ Span(regions[i].base, regions[i].size) \in
              SUBSET Reservation(regions[i].base, regions[i].size)
         /\ Data(regions[i]) \in SUBSET Span(regions[i].base, regions[i].size)
         /\ Data(regions[i]) \in SUBSET Pages
<1>1. i \in DOMAIN regions
  BY Apart
<1>2. /\ Data(regions[i]) \in SUBSET Span(regions[i].base, regions[i].size)
      /\ Data(regions[i]) \in SUBSET Pages
  BY <1>1, DataInRegion
<1>3. Span(regions[i].base, regions[i].size) \in
        SUBSET Reservation(regions[i].base, regions[i].size)
  <2>1. /\ regions[i].base \in Nat /\ regions[i].size \in Nat
        /\ RoundDown(regions[i].base) \in 0..regions[i].base
    BY <1>1, DataInRegion, RoundDownBelow
  <2> QED
    BY <2>1 DEF Span, Reservation
<1> QED
  BY <1>2, <1>3 DEF Footprint

\* restore_region returns: one more outcome, and nothing in flight.
LEMMA Concluded ==
  ASSUME DumpInv, RestoreInv, InRegion, regions' = regions, NEW outcome \in Outcomes,
         Conclude(outcome)
  PROVE  /\ pc' = "alloc" /\ InFlight' = {}
         /\ outcomes' \in Seq(Outcomes) /\ Len(outcomes') <= Len(regions')
         /\ DOMAIN outcomes' = DOMAIN outcomes \cup {Here}
         /\ outcomes'[Here] = outcome
         /\ \A i \in DOMAIN outcomes : outcomes'[i] = outcomes[i]
         /\ Here' \notin DOMAIN outcomes'
<1>1. regions \in Seq(Region) /\ outcomes \in Seq(Outcomes)
  BY DEF DumpInv, RestoreInv, RestoreTypeOK
<1>2. Len(outcomes) \in Nat /\ Len(regions) \in Nat /\ Len(outcomes) < Len(regions)
  BY <1>1 DEF InRegion
<1>3. outcomes' = Append(outcomes, outcome) /\ pc' = "alloc"
  BY DEF Conclude
<1>4. /\ outcomes' \in Seq(Outcomes) /\ Len(outcomes') = Len(outcomes) + 1
      /\ DOMAIN outcomes' = DOMAIN outcomes \cup {Here}
      /\ outcomes'[Here] = outcome
      /\ \A i \in DOMAIN outcomes : outcomes'[i] = outcomes[i]
  BY <1>1, <1>2, <1>3 DEF Here
<1>5. InFlight' = {}
  BY <1>3 DEF InFlight
<1>6. Here' \notin DOMAIN outcomes'
  BY <1>4 DEF Here
<1> QED
  BY <1>2, <1>3, <1>4, <1>5, <1>6

\* What a step of the restore does to memory: nothing, or one call on the region.
LEMMA Calls ==
  ASSUME DumpInv, RestoreInv, Restore
  PROVE  /\ InRegion /\ regions' = regions /\ start' = start /\ callsMayFail' = callsMayFail
         /\ leaked \subseteq leaked' /\ unprotected \subseteq unprotected'
         /\ \/ mem' = mem
            \/ /\ pc = "alloc" /\ CanReserve(mem, Current.base, Current.size)
               /\ mem' = AfterReserve(mem, Current.base, Current.size)
            \/ pc = "free" /\ mem' = AfterRelease(mem, alloc)
            \/ /\ pc \in {"write", "overwrite"}
               /\ \E n \in 0..Current.len :
                    /\ \A a \in Span(Current.base, n) : mem[a].state = "committed"
                    /\ mem' = AfterWrite(mem, Span(Current.base, n), Current.data)
            \/ /\ pc \in {"protect", "unprotect", "reprotect"}
               /\ \E protect \in Protections :
                    mem' = AfterProtect(mem, Data(Current), protect)
<1>1. regions' = regions /\ start' = start /\ callsMayFail' = callsMayFail
  BY DEF Restore, Allocate, AllocateFails, FreeMisplaced, WriteFresh, ProtectFresh,
         QueryTarget, QueryFails, Unprotect, Overwrite, Reprotect, given, unseen
<1>0. leaked \subseteq leaked' /\ unprotected \subseteq unprotected'
  BY DEF Restore, Allocate, AllocateFails, FreeMisplaced, WriteFresh, ProtectFresh,
         QueryTarget, QueryFails, Unprotect, Overwrite, Reprotect, SetProtection, unseen
<1>2. InRegion
  BY DEF Restore, Allocate, AllocateFails, FreeMisplaced, WriteFresh, ProtectFresh,
         QueryTarget, QueryFails, Unprotect, Overwrite, Reprotect, RestoreInv, RestoreTypeOK
<1>3. /\ Current.len \in Nat /\ Current.base \in Nat /\ Current.protect \in Protections
      /\ Data(Current) \in SUBSET Span(Current.base, Current.size)
      /\ \A n \in 0..Current.len : Span(Current.base, n) \in SUBSET Data(Current)
  <2>1. \A n \in 0..Current.len : Span(Current.base, n) \in SUBSET Data(Current)
    <3>1. Current.base \in Nat /\ Current.len \in Nat
      BY <1>2, HereIs
    <3> QED
      BY <3>1 DEF Span, Data
  <2> QED
    BY <1>2, <2>1, HereIs
<1>4. CASE Allocate
  BY <1>0, <1>1, <1>2, <1>4 DEF Allocate
<1>5. CASE AllocateFails \/ QueryTarget \/ QueryFails
  BY <1>0, <1>1, <1>2, <1>5 DEF AllocateFails, QueryTarget, QueryFails
<1>6. CASE FreeMisplaced
  BY <1>0, <1>1, <1>2, <1>6 DEF FreeMisplaced
<1>7. CASE WriteFresh
  <2>1. \A a \in Data(Current) : mem[a].state = "committed"
    BY <1>3, <1>7 DEF WriteFresh, RestoreInv, Fresh
  <2>2. PICK n \in 0..Current.len :
          mem' = AfterWrite(mem, Span(Current.base, n), Current.data)
    BY <1>3, <1>7 DEF WriteFresh, Data
  <2> QED
    BY <1>0, <1>1, <1>2, <1>3, <1>7, <2>1, <2>2 DEF WriteFresh
<1>8. CASE Overwrite
  <2>1. PICK n \in 0..Current.len :
          /\ mem' = AfterWrite(mem, Span(Current.base, n), Current.data)
          /\ \A a \in Span(Current.base, n) : Writable(mem[a])
    BY <1>3, <1>8 DEF Overwrite, Data
  <2> QED
    BY <1>0, <1>1, <1>2, <1>8, <2>1 DEF Overwrite, Writable
<1>9. CASE ProtectFresh \/ Reprotect
  BY <1>0, <1>1, <1>2, <1>3, <1>9 DEF ProtectFresh, Reprotect, SetProtection
<1>10. CASE Unprotect
  <2>1. "rwx" \in Protections
    BY DEF Protections
  <2> QED
    BY <1>0, <1>1, <1>2, <1>10, <2>1 DEF Unprotect
<1> QED
  BY <1>4, <1>5, <1>6, <1>7, <1>8, <1>9, <1>10 DEF Restore

\* The new process always has a well-formed address space.
LEMMA StaysShaped ==
  ASSUME DumpInv, RestoreInv, Restore
  PROVE  WellFormed(mem')
<1>1. WellFormed(mem) /\ InRegion
  BY Calls DEF RestoreInv
<1>2. CASE pc = "alloc" /\ CanReserve(mem, Current.base, Current.size)
           /\ mem' = AfterReserve(mem, Current.base, Current.size)
  BY <1>1, <1>2, HereIs, ReserveKeepsShape
<1>3. CASE mem' = AfterRelease(mem, alloc)
  BY <1>1, <1>3, ReleaseKeepsShape
<1>4. ASSUME NEW n \in 0..Current.len,
             \A a \in Span(Current.base, n) : mem[a].state = "committed",
             mem' = AfterWrite(mem, Span(Current.base, n), Current.data)
      PROVE  WellFormed(mem')
  <2>1. Current.base \in Nat /\ Current.len \in Nat
    BY <1>1, HereIs
  <2>2. Span(Current.base, n) \in SUBSET Data(Current)
    BY <2>1 DEF Span, Data
  <2>3. \A a \in Span(Current.base, n) :
          mem[a].state = "committed" /\ Current.data[a] \in Contents
    BY <1>1, <1>4, <2>2, HereIs
  <2> QED
    BY <1>1, <1>4, <2>3, WriteKeepsShape
<1>5. ASSUME NEW protect \in Protections, mem' = AfterProtect(mem, Data(Current), protect)
      PROVE  WellFormed(mem')
  BY <1>1, <1>5, ProtectKeepsShape
<1> QED
  BY <1>1, <1>2, <1>3, <1>4, <1>5, Calls

\* The same, page by page.
LEMMA PageMoves ==
  ASSUME DumpInv, RestoreInv, Restore, NEW a \in Pages
  PROVE  \/ mem'[a] = mem[a]
         \/ /\ pc = "alloc" /\ a \in Reservation(Current.base, Current.size)
            /\ mem[a].state = "free" /\ mem'[a].state = "committed"
         \/ pc = "free" /\ a \in InFlight /\ mem'[a] = FreePage(a) /\ start[a] = FreePage(a)
         \/ /\ pc \in {"write", "protect", "unprotect", "overwrite", "reprotect"}
            /\ a \in Data(Current)
            /\ mem[a].state = "committed" /\ mem'[a].state = "committed"
            /\ mem'[a].base = mem[a].base /\ mem'[a].type = mem[a].type
            /\ mem'[a].protect = mem[a].protect \/ mem'[a].data = mem[a].data
<1>1. WellFormed(mem) /\ InRegion
  BY Calls DEF RestoreInv
<1>2. mem[a] \in Page
  BY <1>1, Shape
<1>3. CASE pc = "alloc" /\ CanReserve(mem, Current.base, Current.size)
           /\ mem' = AfterReserve(mem, Current.base, Current.size)
  BY <1>3 DEF AfterReserve, CanReserve
<1>4. CASE pc = "free" /\ mem' = AfterRelease(mem, alloc)
  <2>1. mem'[a] = IF mem[a].state # "free" /\ mem[a].base = alloc THEN FreePage(a) ELSE mem[a]
    BY <1>4 DEF AfterRelease
  <2>2. InFlight = Reservation(Current.base, Current.size)
    BY <1>4 DEF InFlight
  <2> QED
    BY <1>4, <2>1, <2>2 DEF RestoreInv, Misplaced
<1>5. ASSUME pc \in {"write", "overwrite"}, NEW n \in 0..Current.len,
             \A c \in Span(Current.base, n) : mem[c].state = "committed",
             mem' = AfterWrite(mem, Span(Current.base, n), Current.data)
      PROVE  \/ mem'[a] = mem[a]
             \/ /\ a \in Data(Current)
                /\ mem[a].state = "committed" /\ mem'[a].state = "committed"
                /\ mem'[a].base = mem[a].base /\ mem'[a].type = mem[a].type
                /\ mem'[a].protect = mem[a].protect
  <2>1. mem'[a] = IF a \in Span(Current.base, n)
                  THEN [mem[a] EXCEPT !.data = Current.data[a]] ELSE mem[a]
    BY <1>5 DEF AfterWrite
  <2>2. Current.base \in Nat /\ Current.len \in Nat
    BY <1>1, HereIs
  <2>3. Span(Current.base, n) \in SUBSET Data(Current)
    BY <2>2 DEF Span, Data
  <2> QED
    BY <1>2, <1>5, <2>1, <2>3 DEF Page
<1>6. ASSUME NEW protect \in Protections, mem' = AfterProtect(mem, Data(Current), protect)
      PROVE  \/ mem'[a] = mem[a]
             \/ /\ a \in Data(Current)
                /\ mem[a].state = "committed" /\ mem'[a].state = "committed"
                /\ mem'[a].base = mem[a].base /\ mem'[a].type = mem[a].type
                /\ mem'[a].data = mem[a].data
  <2>1. CASE CanProtect(mem, Data(Current), protect)
    <3>1. mem'[a] = IF a \in Data(Current) THEN [mem[a] EXCEPT !.protect = protect] ELSE mem[a]
      BY <1>6, <2>1 DEF AfterProtect
    <3>2. a \in Data(Current) => mem[a].state = "committed"
      BY <2>1 DEF CanProtect
    <3> QED
      BY <1>2, <3>1, <3>2 DEF Page
  <2>2. CASE ~CanProtect(mem, Data(Current), protect)
    BY <1>6, <2>2 DEF AfterProtect
  <2> QED
    BY <2>1, <2>2
<1> QED
  BY <1>3, <1>4, <1>5, <1>6, Calls

\* No step touches a page of a region that is counted as restored.
LEMMA CountedUntouched ==
  ASSUME DumpInv, RestoreInv, Restore, NEW i \in DOMAIN outcomes, Counted(i),
         NEW a \in Data(regions[i])
  PROVE  mem'[a] = mem[a]
<1>1. /\ mem[a].state = "committed" /\ a \in Pages
      /\ a \in Span(regions[i].base, regions[i].size)
  BY OwnPages DEF RestoreInv, CountedIsInPlace, Counted
<1>2. a \notin Span(Current.base, Current.size) /\ a \notin Data(Current)
  BY <1>1, Calls, Apart, OwnPages, HereIs
<1>3. pc = "free" => a \notin InFlight
  BY DEF InFlight, RestoreInv, Misplaced
<1> QED
  BY <1>1, <1>2, <1>3, PageMoves

\* A page is free only if the loader left it so.
LEMMA FreeStaysFree ==
  ASSUME DumpInv, RestoreInv, Restore
  PROVE  FreeIsFree'
<1>1. ASSUME NEW a \in Pages, mem'[a].state = "free" PROVE start'[a] = mem'[a]
  <2>1. start' = start
    BY Calls
  <2> QED
    BY <1>1, <2>1, PageMoves DEF RestoreInv, FreeIsFree
<1> QED
  BY <1>1 DEF FreeIsFree

\* How a region is concluded.
Ending(outcome) ==
  /\ Conclude(outcome) /\ leaked' = leaked
  /\ \/ /\ pc = "query" /\ mem' = mem /\ unprotected' = unprotected
        /\ outcome \in {"guard", "not_mapped", "image"}
        /\ outcome = "image" => Current.type = "image"
     \/ /\ pc = "protect" /\ SetProtection
        /\ outcome = IF wrote THEN "allocated" ELSE "write_error"
     \/ /\ pc = "reprotect" /\ SetProtection
        /\ \/ wrote /\ outcome = "direct"
           \/ image /\ outcome = "image"
           \/ outcome = "write_error"

\* The region is not concluded yet, and perhaps its misplaced pages stay.
GoesOn ==
  /\ outcomes' = outcomes /\ pc' # "alloc" /\ unprotected' = unprotected
  /\ \/ leaked' = leaked
     \/ pc = "free" /\ callsMayFail /\ leaked' = leaked \cup {Here}

\* A step goes on with the region, or concludes it.
LEMMA GoesOnOrEnds ==
  ASSUME DumpInv, RestoreInv, Restore
  PROVE  \/ /\ GoesOn /\ Current' = Current /\ Here' = Here /\ InRegion'
            /\ \A i \in Touching : Footprint(i)' = Footprint(i)
         \/ \E outcome \in Outcomes : Ending(outcome)
<1>1. InRegion /\ regions' = regions
  BY Calls
<1>2. CASE GoesOn
  <2>1. outcomes' = outcomes /\ Current' = Current /\ Here' = Here /\ InRegion'
    BY <1>1, <1>2 DEF GoesOn, Current, Here, InRegion
  <2>2. ASSUME NEW i \in Touching PROVE i \in leaked' <=> i \in leaked
    <3>1. CASE leaked' = leaked
      BY <3>1
    <3>2. CASE pc = "free" /\ leaked' = leaked \cup {Here}
      <4>1. Here \notin DOMAIN outcomes /\ Here \notin leaked
        BY <1>1, <3>2, HereIs DEF RestoreInv, RestoreTypeOK
      <4> QED
        BY <3>2, <4>1 DEF Touching
    <3> QED
      BY <1>2, <3>1, <3>2 DEF GoesOn
  <2>3. \A i \in Touching : Footprint(i)' = Footprint(i)
    BY <1>1, <2>1, <2>2 DEF Footprint, Data
  <2> QED
    BY <1>2, <2>1, <2>3
<1>3. CASE Allocate
  BY <1>2, <1>3 DEF Allocate, GoesOn, unseen
<1>4. CASE AllocateFails \/ FreeMisplaced \/ WriteFresh \/ Unprotect \/ Overwrite
  BY <1>2, <1>4 DEF AllocateFails, FreeMisplaced, WriteFresh, Unprotect, Overwrite, GoesOn,
     unseen
<1>5. CASE ProtectFresh
  BY <1>5 DEF ProtectFresh, Outcomes, Ending
<1>6. CASE Reprotect
  <2>1. CASE wrote
    BY <1>6, <2>1 DEF Reprotect, Outcomes, Ending
  <2>2. CASE ~wrote /\ image
    BY <1>6, <2>2 DEF Reprotect, Outcomes, Ending
  <2>3. CASE ~wrote /\ ~image
    BY <1>6, <2>3 DEF Reprotect, Outcomes, Ending
  <2> QED
    BY <2>1, <2>2, <2>3
<1>7. CASE QueryFails
  BY <1>7 DEF QueryFails, Outcomes, Ending, unseen
<1>8. CASE QueryTarget
  <2> DEFINE verdict == Verdict(mem[Current.base], Current)
  <2>1. /\ verdict \in {"guard", "not_mapped", "image", "overwrite"}
        /\ verdict = "image" => Current.type = "image"
    BY DEF Verdict
  <2>2. CASE verdict = "overwrite"
    BY <1>2, <1>8, <2>2 DEF QueryTarget, GoesOn, unseen
  <2>3. CASE verdict # "overwrite"
    <3>1. pc = "query" /\ mem' = mem /\ Conclude(verdict) /\ UNCHANGED unseen
      BY <1>8, <2>3 DEF QueryTarget
    <3> HIDE DEF verdict
    <3>2. verdict \in Outcomes /\ Ending(verdict)
      BY <2>1, <2>3, <3>1 DEF Ending, Outcomes, unseen
    <3> QED
      BY <3>2
  <2> QED
    BY <2>2, <2>3
<1> QED
  BY <1>3, <1>4, <1>5, <1>6, <1>7, <1>8 DEF Restore

\* Every call of restore_region keeps the types.
LEMMA TypesKept ==
  ASSUME DumpInv, RestoreInv, Restore
  PROVE  RestoreTypeOK'
<1>1. /\ InRegion /\ regions' = regions /\ start' = start /\ callsMayFail' = callsMayFail
      /\ RestoreTypeOK
  BY Calls DEF RestoreInv
<1>2. mem' \in Spaces
  BY StaysShaped DEF WellFormed
<1>3. image' \in BOOLEAN /\ wrote' \in BOOLEAN
  BY <1>1 DEF RestoreTypeOK, Restore, Allocate, AllocateFails, FreeMisplaced, WriteFresh,
     ProtectFresh, QueryTarget, QueryFails, Unprotect, Overwrite, Reprotect
<1>4. /\ alloc' \in Pages
      /\ pc' \in {"alloc", "free", "write", "protect", "query", "unprotect",
                  "overwrite", "reprotect"}
      /\ pc' \in {"free", "write", "protect"} => alloc' = RoundDown(Current.base)
  <2>1. CASE Allocate
    BY <1>1, <2>1, ReservationIs DEF Allocate
  <2>2. CASE AllocateFails \/ QueryFails \/ QueryTarget
    BY <1>1, <2>2 DEF RestoreTypeOK, AllocateFails, QueryFails, QueryTarget, Conclude
  <2>3. CASE FreeMisplaced \/ WriteFresh \/ ProtectFresh
    BY <1>1, <2>3 DEF RestoreTypeOK, FreeMisplaced, WriteFresh, ProtectFresh, Conclude
  <2>4. CASE Unprotect \/ Overwrite \/ Reprotect
    BY <1>1, <2>4 DEF RestoreTypeOK, Unprotect, Overwrite, Reprotect, Conclude
  <2> QED
    BY <2>1, <2>2, <2>3, <2>4 DEF Restore
<1>5. CASE GoesOn /\ Current' = Current /\ Here' = Here /\ InRegion'
  <2>1. Here \in leaked' => pc' \in {"query", "unprotect", "overwrite", "reprotect"}
    <3>1. CASE pc = "free"
      BY <3>1 DEF Restore, Allocate, AllocateFails, FreeMisplaced, WriteFresh,
         ProtectFresh, QueryTarget, QueryFails, Unprotect, Overwrite, Reprotect
    <3>2. CASE pc # "free"
      <4>1. leaked' = leaked /\ pc' # "alloc"
        BY <1>5, <3>2 DEF GoesOn
      <4>2. Here \in leaked => pc \in {"query", "unprotect", "overwrite", "reprotect"}
        BY <1>1 DEF RestoreTypeOK
      <4>3. pc \in {"query", "unprotect", "overwrite", "reprotect"} =>
              pc' \in {"unprotect", "overwrite", "reprotect"}
        BY <4>1 DEF Restore, Allocate, AllocateFails, FreeMisplaced, WriteFresh,
           ProtectFresh, QueryTarget, QueryFails, Unprotect, Overwrite, Reprotect, Conclude
      <4> QED
        BY <4>1, <4>2, <4>3
    <3> QED
      BY <3>1, <3>2
  <2>2. /\ leaked' \subseteq DOMAIN outcomes' \cup {Here}
        /\ unprotected' \subseteq DOMAIN outcomes'
        /\ leaked' \cup unprotected' # {} => callsMayFail
    BY <1>1, <1>5 DEF GoesOn, RestoreTypeOK
  <2> QED
    BY <1>1, <1>2, <1>3, <1>4, <1>5, <2>1, <2>2 DEF GoesOn, RestoreTypeOK
<1>6. ASSUME NEW outcome \in Outcomes, Ending(outcome) PROVE RestoreTypeOK'
  <2>1. /\ outcomes' \in Seq(Outcomes) /\ Len(outcomes') <= Len(regions') /\ pc' = "alloc"
        /\ DOMAIN outcomes' = DOMAIN outcomes \cup {Here} /\ Here' \notin DOMAIN outcomes'
    BY <1>1, <1>6, Concluded DEF Ending
  <2>2. leaked' = leaked /\ unprotected' \in {unprotected, unprotected \cup {Here}}
        /\ (unprotected' = unprotected \/ callsMayFail)
    BY <1>6 DEF Ending, SetProtection
  <2>3. /\ leaked' \subseteq DOMAIN outcomes' /\ unprotected' \subseteq DOMAIN outcomes'
        /\ leaked' \cup unprotected' # {} => callsMayFail
    BY <1>1, <2>1, <2>2 DEF RestoreTypeOK
  <2>4. Here' \notin leaked'
    BY <2>1, <2>3
  <2> QED
    BY <1>1, <1>2, <1>3, <1>4, <2>1, <2>3, <2>4 DEF RestoreTypeOK
<1> QED
  BY <1>5, <1>6, GoesOnOrEnds

\* What landed at a wrong address was free before, and lies in one reservation.
LEMMA MisplacedKept ==
  ASSUME DumpInv, RestoreInv, Restore
  PROVE  Misplaced'
<1>1. /\ InRegion /\ regions' = regions /\ start' = start /\ WellFormed(mem)
  BY Calls DEF RestoreInv
<1>2. CASE Allocate
  <2> DEFINE R == Reservation(Current.base, Current.size)
             low == RoundDown(Current.base)
  <2>1. /\ CanReserve(mem, Current.base, Current.size) /\ alloc' = low
        /\ mem' = AfterReserve(mem, Current.base, Current.size) /\ outcomes' = outcomes
        /\ Current' = Current
    BY <1>1, <1>2 DEF Allocate, Current, Here
  <2>2. R \in SUBSET Pages /\ low \in R /\ low \in Nat
    BY <1>1, ReservationIs, SizeAssumption DEF Pages
  <2>3. \A a \in R : mem[a].state = "free"
    BY <2>1 DEF CanReserve
  <2>4. ASSUME NEW a \in Pages
        PROVE  a \in R <=> mem'[a].state # "free" /\ mem'[a].base = alloc'
    <3>1. CASE a \in R
      BY <2>1, <3>1 DEF AfterReserve
    <3>2. CASE a \notin R
      <4>1. mem'[a] = mem[a]
        BY <2>1, <3>2 DEF AfterReserve
      <4>2. ~(mem[a].state # "free" /\ mem[a].base = low)
        <5>1. SUFFICES ASSUME mem[a].state # "free", mem[a].base = low PROVE FALSE
          OBVIOUS
        <5>2. low <= a /\ \A c \in low..a : mem[c].state # "free"
          BY <1>1, <5>1, Shape
        <5>3. low \in low..a
          BY <2>2, <5>2 DEF Pages
        <5> QED
          BY <2>2, <2>3, <5>2, <5>3
      <4> QED
        BY <2>1, <3>2, <4>1, <4>2
    <3> QED
      BY <3>1, <3>2
  <2>5. ASSUME NEW a \in R
        PROVE  /\ start'[a] = FreePage(a)
               /\ \A i \in DOMAIN outcomes' : Counted(i)' => a \notin Data(regions'[i])
    <3>1. mem[a] = FreePage(a)
      BY <1>1, <2>2, <2>3, Shape
    <3>2. start'[a] = FreePage(a)
      BY <1>1, <2>2, <2>3, <3>1 DEF RestoreInv, FreeIsFree
    <3>3. ASSUME NEW i \in DOMAIN outcomes', Counted(i)' PROVE a \notin Data(regions'[i])
      <4>1. i \in DOMAIN outcomes /\ Counted(i)
        BY <2>1, <3>3 DEF Counted
      <4>2. \A c \in Data(regions[i]) : mem[c].state = "committed"
        BY <4>1 DEF RestoreInv, CountedIsInPlace, Counted
      <4> QED
        BY <1>1, <2>3, <4>2
    <3> QED
      BY <3>2, <3>3
  <2> QED
    BY <2>1, <2>4, <2>5 DEF Misplaced
<1>3. CASE ~Allocate
  <2>1. pc' # "free"
    BY <1>3 DEF Restore, AllocateFails, FreeMisplaced, WriteFresh, ProtectFresh,
         QueryTarget, QueryFails, Unprotect, Overwrite, Reprotect, Conclude
  <2> QED
    BY <2>1 DEF Misplaced
<1> QED
  BY <1>2, <1>3

\* A write that succeeds leaves the data of the region in place.
LEMMA Writes ==
  ASSUME DumpInv, RestoreInv, InRegion, regions' = regions, outcomes' = outcomes,
         \A a \in Data(Current) : mem[a].state = "committed",
         mem' = AfterWrite(mem, Data(Current), Current.data)
  PROVE  Written'
<1>1. Current' = Current /\ Data(Current)' = Data(Current) /\ Data(Current) \in SUBSET Pages
  <2>1. Current' = Current
    BY DEF Current, Here
  <2>2. Data(Current)' = Data(Current)
    BY <2>1 DEF Data
  <2> QED
    BY <2>1, <2>2, HereIs
<1>2. ASSUME NEW a \in Data(Current)
      PROVE  mem'[a].state = "committed" /\ mem'[a].data = Current.data[a]
  <2>1. mem[a] \in Page /\ mem[a].state = "committed"
    BY <1>1, Shape DEF RestoreInv
  <2>2. mem'[a] = [mem[a] EXCEPT !.data = Current.data[a]]
    BY <1>1 DEF AfterWrite
  <2> QED
    BY <2>1, <2>2 DEF Page
<1> QED
  BY <1>1, <1>2 DEF Written

\* Fresh pages are private, committed and of one reservation.
LEMMA FreshKept ==
  ASSUME DumpInv, RestoreInv, Restore
  PROVE  Fresh'
<1>1. InRegion /\ regions' = regions /\ WellFormed(mem)
  BY Calls DEF RestoreInv
<1>2. CASE Allocate
  <2>1. CASE pc' = "write"
    <3>1. /\ alloc' = Current.base /\ alloc' = RoundDown(Current.base) /\ Current' = Current
          /\ mem' = AfterReserve(mem, Current.base, Current.size)
      BY <1>1, <1>2, <2>1 DEF Allocate, Current, Here
    <3>2. /\ Span(Current.base, Current.size) \in SUBSET Pages
          /\ Span(Current.base, Current.size) \in SUBSET Reservation(Current.base, Current.size)
      BY <1>1, HereIs, ReservationIs
    <3>3. \A a \in Span(Current.base, Current.size) :
            mem'[a].state = "committed" /\ mem'[a].base = alloc' /\ mem'[a].type = "private"
      BY <3>1, <3>2 DEF AfterReserve
    <3> QED
      BY <2>1, <3>1, <3>3 DEF Fresh
  <2>2. CASE pc' # "write"
    BY <1>2, <2>2 DEF Allocate, Fresh
  <2> QED
    BY <2>1, <2>2
<1>3. CASE WriteFresh
  <2>1. /\ pc = "write" /\ pc' = "protect" /\ alloc' = alloc /\ outcomes' = outcomes
        /\ Current' = Current
    BY <1>1, <1>3 DEF WriteFresh, Current, Here
  <2>2. /\ alloc = Current.base
        /\ \A a \in Span(Current.base, Current.size) :
             mem[a].state = "committed" /\ mem[a].base = alloc /\ mem[a].type = "private"
    BY <2>1 DEF RestoreInv, Fresh
  <2>3. /\ Span(Current.base, Current.size) \in SUBSET Pages
        /\ Data(Current) \in SUBSET Span(Current.base, Current.size)
    BY <1>1, HereIs
  <2>4. \A a \in Span(Current.base, Current.size) :
          mem'[a].state = "committed" /\ mem'[a].base = alloc /\ mem'[a].type = "private"
    BY <2>1, <2>2, <2>3, PageMoves
  <2>5. ASSUME wrote' PROVE Written'
    <3>1. mem' = AfterWrite(mem, Data(Current), Current.data)
      BY <1>3, <2>5 DEF WriteFresh
    <3> QED
      BY <1>1, <2>1, <2>2, <2>3, <3>1, Writes
  <2> QED
    BY <2>1, <2>2, <2>4, <2>5 DEF Fresh
<1>4. CASE ~Allocate /\ ~WriteFresh
  <2>1. pc' \notin {"write", "protect"}
    BY <1>4 DEF Restore, AllocateFails, FreeMisplaced, ProtectFresh,
         QueryTarget, QueryFails, Unprotect, Overwrite, Reprotect, Conclude
  <2> QED
    BY <2>1 DEF Fresh
<1> QED
  BY <1>2, <1>3, <1>4

\* The pages of an image are not overwritten with those of an image.
LEMMA MappedKept ==
  ASSUME DumpInv, RestoreInv, Restore
  PROVE  Mapped'
<1>1. InRegion /\ regions' = regions /\ WellFormed(mem)
  BY Calls DEF RestoreInv
<1>2. CASE QueryTarget
  <2>1. CASE Verdict(mem[Current.base], Current) = "overwrite"
    <3>1. /\ image' = (mem[Current.base].type = "image") /\ pc' = "unprotect"
          /\ outcomes' = outcomes /\ Current' = Current
      BY <1>1, <1>2, <2>1 DEF QueryTarget, Current, Here
    <3>2. ~(mem[Current.base].type = "image" /\ Current.type = "image")
      BY <2>1 DEF Verdict
    <3> QED
      BY <3>1, <3>2 DEF Mapped
  <2>2. CASE Verdict(mem[Current.base], Current) # "overwrite"
    BY <1>2, <2>2 DEF QueryTarget, Conclude, Mapped
  <2> QED
    BY <2>1, <2>2
<1>3. CASE Unprotect
  BY <1>1, <1>3 DEF Unprotect, Mapped, RestoreInv, Current, Here
<1>4. CASE Overwrite
  <2>1. /\ pc = "overwrite" /\ pc' = "reprotect" /\ image' = image /\ outcomes' = outcomes
        /\ Current' = Current
    BY <1>1, <1>4 DEF Overwrite, Current, Here
  <2>2. ASSUME wrote' PROVE Written'
    <3>1. /\ mem' = AfterWrite(mem, Data(Current), Current.data)
          /\ \A a \in Data(Current) : mem[a].state = "committed"
      BY <1>4, <2>2 DEF Overwrite, Writable
    <3> QED
      BY <1>1, <2>1, <3>1, Writes
  <2> QED
    BY <2>1, <2>2 DEF Mapped, RestoreInv
<1>5. CASE ~QueryTarget /\ ~Unprotect /\ ~Overwrite
  <2>1. pc' \notin {"unprotect", "overwrite", "reprotect"}
    BY <1>5 DEF Restore, Allocate, AllocateFails, FreeMisplaced, WriteFresh, ProtectFresh,
         QueryFails, Reprotect, Conclude
  <2> QED
    BY <2>1 DEF Mapped
<1> QED
  BY <1>2, <1>3, <1>4, <1>5

\* A region that is counted has its bytes, and keeps them.
LEMMA CountedKept ==
  ASSUME DumpInv, RestoreInv, Restore
  PROVE  CountedIsInPlace'
<1>1. InRegion /\ regions' = regions
  BY Calls
<1>2. \A i \in DOMAIN outcomes : Counted(i) =>
        \A a \in Data(regions[i]) :
          mem'[a].state = "committed" /\ mem'[a].data = regions[i].data[a]
  <2> SUFFICES ASSUME NEW i \in DOMAIN outcomes, Counted(i), NEW a \in Data(regions[i])
               PROVE  mem'[a].state = "committed" /\ mem'[a].data = regions[i].data[a]
    OBVIOUS
  <2>1. mem'[a] = mem[a]
    BY CountedUntouched
  <2> QED
    BY <2>1 DEF RestoreInv, CountedIsInPlace, Counted
<1>3. CASE outcomes' = outcomes
  BY <1>1, <1>2, <1>3 DEF CountedIsInPlace, Counted, Data
<1>4. ASSUME NEW outcome \in Outcomes, Ending(outcome)
      PROVE  CountedIsInPlace'
  <2>1. /\ DOMAIN outcomes' = DOMAIN outcomes \cup {Here} /\ outcomes'[Here] = outcome
        /\ \A i \in DOMAIN outcomes : outcomes'[i] = outcomes[i]
    BY <1>1, <1>4, Concluded DEF Ending
  <2>2. Here \in DOMAIN regions /\ Current = regions[Here]
    BY <1>1, HereIs
  <2>3. ASSUME outcome \in {"allocated", "direct"}, NEW a \in Data(Current)
        PROVE  mem'[a].state = "committed" /\ mem'[a].data = Current.data[a]
    <3>1. /\ wrote /\ pc \in {"protect", "reprotect"}
          /\ mem' = AfterProtect(mem, Data(Current), Current.protect) \/ mem' = mem
      BY <1>4, <2>3 DEF Ending, SetProtection
    <3>2. Written
      BY <3>1 DEF RestoreInv, Fresh, Mapped
    <3>3. a \in Pages
      BY <1>1, <2>3, HereIs
    <3>4. mem[a] \in Page
      BY <3>3, Shape DEF RestoreInv
    <3>5. mem'[a] = mem[a] \/ mem'[a] = [mem[a] EXCEPT !.protect = Current.protect]
      BY <3>1, <3>3 DEF AfterProtect
    <3>6. mem'[a].data = mem[a].data /\ mem'[a].state = mem[a].state
      BY <3>4, <3>5 DEF Page
    <3> QED
      BY <2>3, <3>2, <3>6 DEF Written
  <2>4. ASSUME NEW i \in DOMAIN outcomes', outcomes'[i] \in {"allocated", "direct"},
               NEW a \in Data(regions'[i])
        PROVE  mem'[a].state = "committed" /\ mem'[a].data = regions'[i].data[a]
    <3>1. CASE i = Here
      BY <1>1, <2>1, <2>2, <2>3, <2>4, <3>1
    <3>2. CASE i \in DOMAIN outcomes
      BY <1>1, <1>2, <2>1, <2>4, <3>2 DEF Counted
    <3> QED
      BY <2>1, <3>1, <3>2
  <2> QED
    BY <1>1, <2>4 DEF CountedIsInPlace, Data
<1> QED
  BY <1>3, <1>4, GoesOnOrEnds DEF GoesOn

\* The pages in flight, call by call.
LEMMA InFlightIs ==
  ASSUME DumpInv, RestoreInv, InRegion
  PROVE  /\ InFlight \in SUBSET Pages
         /\ pc = "free" => InFlight = Reservation(Current.base, Current.size)
         /\ pc \in {"write", "protect"} => InFlight = Span(Current.base, Current.size)
         /\ pc \in {"overwrite", "reprotect"} => InFlight = Data(Current)
         /\ pc \in {"alloc", "query", "unprotect"} => InFlight = {}
<1>1. /\ pc = "free" => InFlight = Reservation(Current.base, Current.size)
      /\ pc \in {"write", "protect"} => InFlight = Span(Current.base, Current.size)
      /\ pc \in {"overwrite", "reprotect"} => InFlight = Data(Current)
      /\ pc \notin {"free", "write", "protect", "overwrite", "reprotect"} => InFlight = {}
  BY DEF InFlight
<1>2. /\ Reservation(Current.base, Current.size) \in SUBSET Pages
      /\ Span(Current.base, Current.size) \in SUBSET Pages
      /\ Data(Current) \in SUBSET Pages
  BY HereIs, ReservationIs
<1> QED
  BY <1>1, <1>2

\* A step that goes on with the region either gives its pages back or keeps
\* them, with those it changes, or leaves them where they should not be.
LEMMA FlightGoesOn ==
  ASSUME DumpInv, RestoreInv, Restore, outcomes' = outcomes, NEW a \in Pages
  PROVE  \/ mem'[a] = start[a]
         \/ mem'[a] = mem[a] /\ (a \in InFlight => a \in InFlight')
         \/ a \in InFlight'
         \/ Here \in leaked' /\ a \in Reservation(Current.base, Current.size)
<1>1. /\ InRegion /\ regions' = regions /\ Current' = Current
  BY Calls DEF Current, Here
<1>2. /\ Data(Current) \in SUBSET Span(Current.base, Current.size)
      /\ RoundDown(Current.base) = Current.base =>
           Reservation(Current.base, Current.size) = Span(Current.base, Current.size)
  BY <1>1, HereIs, ReservationIs
<1>3. outcomes' # outcomes \/ ~\E outcome : outcomes' = Append(outcomes, outcome)
  <2>1. outcomes \in Seq(Outcomes)
    BY DEF RestoreInv, RestoreTypeOK
  <2>2. \A o : Append(outcomes, o) # outcomes
    <3>1. \A o : Len(Append(outcomes, o)) = Len(outcomes) + 1
      BY <2>1
    <3> QED
      BY <2>1, <3>1
  <2> QED
    BY <2>2
<1>4. CASE Allocate
  <2>1. /\ pc = "alloc" /\ a \notin InFlight /\ alloc' = RoundDown(Current.base)
        /\ pc' = IF alloc' = Current.base THEN "write" ELSE "free"
    BY <1>4 DEF Allocate, InFlight
  <2>2. InFlight' = Reservation(Current.base, Current.size)
    BY <1>1, <1>2, <2>1 DEF InFlight
  <2>3. mem'[a] = mem[a] \/ a \in Reservation(Current.base, Current.size)
    BY <1>4 DEF Allocate, AfterReserve
  <2> QED
    BY <2>1, <2>2, <2>3
<1>5. CASE FreeMisplaced
  <2>1. pc = "free" /\ InFlight = Reservation(Current.base, Current.size)
    BY <1>5 DEF FreeMisplaced, InFlight
  <2>2. CASE mem' = AfterRelease(mem, alloc)
    <3>1. a \in InFlight =>
            mem[a].state # "free" /\ mem[a].base = alloc /\ start[a] = FreePage(a)
      BY <2>1 DEF RestoreInv, Misplaced
    <3>2. a \in InFlight => mem'[a] = start[a]
      BY <2>2, <3>1 DEF AfterRelease
    <3>3. a \notin InFlight => mem'[a] = mem[a]
      BY <2>1, PageMoves
    <3> QED
      BY <3>2, <3>3
  <2>3. CASE mem' = mem /\ leaked' = leaked \cup {Here}
    BY <2>1, <2>3
  <2> QED
    BY <1>5, <2>2, <2>3 DEF FreeMisplaced
<1>6. CASE WriteFresh
  <2>1. pc = "write" /\ pc' = "protect"
    BY <1>6 DEF WriteFresh
  <2>2. InFlight = Span(Current.base, Current.size) /\ InFlight' = Span(Current.base, Current.size)
    BY <1>1, <2>1 DEF InFlight
  <2> QED
    BY <1>2, <2>1, <2>2, PageMoves
<1>7. CASE Unprotect \/ Overwrite
  <2>1. pc \in {"unprotect", "overwrite"} /\ pc' \in {"overwrite", "reprotect"}
    BY <1>7 DEF Unprotect, Overwrite
  <2>2. InFlight \in SUBSET Data(Current)
    BY <2>1 DEF InFlight
  <2>3. InFlight' = Data(Current)
    BY <1>1, <2>1 DEF InFlight, Data
  <2> QED
    BY <2>1, <2>2, <2>3, PageMoves
<1>8. CASE AllocateFails \/ QueryTarget
  <2>1. mem' = mem /\ pc \in {"alloc", "query"}
    BY <1>8 DEF AllocateFails, QueryTarget
  <2>2. InFlight = {}
    BY <2>1 DEF InFlight
  <2> QED
    BY <2>1, <2>2
<1>9. CASE ProtectFresh \/ QueryFails \/ Reprotect
  BY <1>3, <1>9 DEF ProtectFresh, QueryFails, Reprotect, Conclude
<1> QED
  BY <1>4, <1>5, <1>6, <1>7, <1>8, <1>9 DEF Restore

\* A changed page belongs to a region that may change it.
LEMMA ChangedKept ==
  ASSUME DumpInv, RestoreInv, Restore
  PROVE  Changed'
<1>1. InRegion /\ regions' = regions /\ start' = start
  BY Calls
<1>2. CASE outcomes' = outcomes /\ \A i \in Touching : Footprint(i)' = Footprint(i)
  <2>1. ASSUME NEW a \in Pages, mem'[a] # start[a], a \notin InFlight'
        PROVE  \E i \in Touching' : a \in Footprint(i)'
    <3>1. CASE mem'[a] = mem[a] /\ a \notin InFlight
      <4>1. PICK i \in Touching : a \in Footprint(i)
        BY <2>1, <3>1 DEF RestoreInv, Changed
      <4>2. i \in Touching'
        BY <1>2, Calls DEF Touching
      <4> QED
        BY <1>2, <4>1, <4>2
    <3>2. CASE Here \in leaked' /\ a \in Reservation(Current.base, Current.size)
      <4> PICK n : n = Here
        OBVIOUS
      <4>1. Current = regions'[n] /\ n \in Touching'
        BY <1>1, <3>2, HereIs DEF Touching
      <4>2. a \in Footprint(n)'
        BY <3>2, <4>1 DEF Footprint
      <4> QED
        BY <4>1, <4>2
    <3> QED
      BY <1>2, <2>1, <3>1, <3>2, FlightGoesOn
  <2> QED
    BY <1>1, <2>1 DEF Changed
<1>3. ASSUME NEW outcome \in Outcomes, Ending(outcome)
      PROVE  Changed'
  <2> PICK n : n = Here
    OBVIOUS
  <2>1. /\ DOMAIN outcomes' = DOMAIN outcomes \cup {n} /\ outcomes'[n] = outcome
        /\ \A i \in DOMAIN outcomes : outcomes'[i] = outcomes[i]
    BY <1>1, <1>3, Concluded DEF Ending
  <2>0. leaked' = leaked /\ leaked \subseteq DOMAIN outcomes \cup {n}
    BY <1>3 DEF Ending, RestoreInv, RestoreTypeOK
  <2>2. \A i \in DOMAIN outcomes : Footprint(i)' = Footprint(i)
    BY <1>1, <2>0, <2>1 DEF Footprint, Data
  <2>3. /\ Current = regions[n] /\ Data(Current) \in SUBSET Span(Current.base, Current.size)
        /\ Span(Current.base, Current.size) \in SUBSET Reservation(Current.base, Current.size)
    BY <1>1, HereIs, ReservationIs
  <2>4. /\ n \notin leaked => Footprint(n)' =
             CASE outcome \in {"guard", "not_mapped"} -> {}
               [] outcome = "image" -> IF Current.type = "image" THEN {} ELSE Data(Current)
               [] outcome = "direct" -> Data(Current)
               [] OTHER -> Span(Current.base, Current.size)
        /\ n \in leaked => Footprint(n)' = Reservation(Current.base, Current.size)
                          /\ Footprint(n) = Reservation(Current.base, Current.size)
    BY <1>1, <2>0, <2>1, <2>3 DEF Footprint, Data
  <2>5. ASSUME NEW a \in Pages
        PROVE  \/ mem'[a] = mem[a] /\ a \notin InFlight
               \/ a \in Footprint(n)'
    <3>1. CASE pc = "query" /\ mem' = mem
      BY <1>1, <3>1, InFlightIs
    <3>2. CASE pc = "protect"
      <4>1. InFlight = Span(Current.base, Current.size)
        BY <1>1, <3>2, InFlightIs
      <4>2. Span(Current.base, Current.size) \in SUBSET (Footprint(n)')
        BY <1>3, <2>3, <2>4, <3>2 DEF Ending
      <4>3. mem'[a] = mem[a] \/ a \in Data(Current)
        BY <3>2, PageMoves
      <4> QED
        BY <2>3, <4>1, <4>2, <4>3
    <3>3. CASE pc = "reprotect"
      <4>1. InFlight = Data(Current)
        BY <1>1, <3>3, InFlightIs
      <4>2. mem'[a] = mem[a] \/ a \in Data(Current)
        BY <3>3, PageMoves
      <4>3. image => Current.type # "image"
        BY <3>3 DEF RestoreInv, Mapped
      <4>4. outcome \in {"direct", "write_error"} \/ (outcome = "image" /\ Current.type # "image")
        BY <1>3, <3>3, <4>3 DEF Ending
      <4>5. Data(Current) \in SUBSET (Footprint(n)')
        BY <2>3, <2>4, <4>4
      <4> QED
        BY <4>1, <4>2, <4>5
    <3> QED
      BY <1>3, <3>1, <3>2, <3>3 DEF Ending
  <2>6. ASSUME NEW a \in Pages, mem'[a] # start'[a]
        PROVE  \E i \in Touching' : a \in Footprint(i)'
    <3>1. CASE a \in Footprint(n)'
      BY <2>1, <3>1 DEF Touching
    <3>2. CASE mem'[a] = mem[a] /\ a \notin InFlight
      <4>1. PICK i \in Touching : a \in Footprint(i)
        BY <1>1, <2>6, <3>2 DEF RestoreInv, Changed
      <4>2. CASE i \in DOMAIN outcomes
        BY <2>1, <2>2, <4>1, <4>2 DEF Touching
      <4>3. CASE i = n /\ n \in leaked
        BY <2>1, <2>4, <4>1, <4>3 DEF Touching
      <4> QED
        BY <2>0, <4>2, <4>3 DEF Touching
    <3> QED
      BY <2>5, <3>1, <3>2
  <2> QED
    BY <2>6 DEF Changed
<1> QED
  BY <1>2, <1>3, GoesOnOrEnds DEF GoesOn

\* VirtualProtectEx looks at nothing that it, or a write, changes.
LEMMA CanStillProtect ==
  ASSUME DumpInv, RestoreInv, Restore, pc \in {"unprotect", "overwrite"},
         CanProtect(mem, Data(Current), "rwx")
  PROVE  CanProtect(mem', Data(Current), "rwx")
<1>1. Data(Current) \in SUBSET Pages
  BY Calls, HereIs
<1>2. \A a \in Data(Current) : /\ mem[a].state = "committed" /\ mem'[a].state = "committed"
                               /\ mem'[a].base = mem[a].base
  BY <1>1, PageMoves DEF CanProtect
<1> QED
  BY <1>2 DEF CanProtect

\* Fresh pages take any protection but one.
LEMMA FreshCanProtect ==
  ASSUME DumpInv, RestoreInv, InRegion, pc = "protect", Current.protect # "wc"
  PROVE  CanProtect(mem, Data(Current), Current.protect)
<1>1. Data(Current) \in SUBSET Span(Current.base, Current.size)
  BY HereIs
<1> QED
  BY <1>1 DEF RestoreInv, Fresh, CanProtect

\* VirtualProtectEx sets the protection when it can.
LEMMA Protected ==
  ASSUME NEW a \in Data(Current), a \in Pages, mem[a] \in Page,
         CanProtect(mem, Data(Current), Current.protect),
         mem' = AfterProtect(mem, Data(Current), Current.protect)
  PROVE  mem'[a].protect = Current.protect
<1>1. mem'[a] = [mem[a] EXCEPT !.protect = Current.protect]
  BY DEF AfterProtect
<1> QED
  BY <1>1 DEF Page

\* An open page is in flight, or one that its region never closes.
LEMMA OpenKept ==
  ASSUME DumpInv, RestoreInv, Restore
  PROVE  Open'
<1>1. InRegion /\ regions' = regions /\ start' = start
  BY Calls
<1>2. \A i, a : LeavesOpen(i, a) => LeavesOpen(i, a)'
  BY <1>1, Calls DEF LeavesOpen, Data
<1>3. \A a \in Pages : mem[a] \in Page
  BY Shape DEF RestoreInv
<1>4. CASE outcomes' = outcomes
  <2>1. Current' = Current /\ Touching \in SUBSET (Touching')
    BY <1>1, <1>4, Calls DEF Current, Here, Touching
  <2> SUFFICES ASSUME NEW a \in Pages, mem'[a].protect = "rwx", start[a].protect # "rwx",
                      ~\E i \in Touching' : LeavesOpen(i, a)'
               PROVE  /\ a \in InFlight'
                      /\ pc' \in {"overwrite", "reprotect"} =>
                           CanProtect(mem', Data(Current), "rwx")
    BY <1>1, <2>1 DEF Open, Data
  <2>2. a \in InFlight'
    <3>1. mem'[a] = mem[a] => a \in InFlight
      BY <1>2, <2>1 DEF RestoreInv, Open
    <3>2. ~(Here \in leaked' /\ a \in Reservation(Current.base, Current.size))
      <4> PICK n : n = Here
        OBVIOUS
      <4>1. Current = regions'[n]
        BY <1>1, HereIs
      <4> QED
        BY <4>1 DEF LeavesOpen, Touching
    <3> QED
      BY <1>4, <3>1, <3>2, FlightGoesOn
  <2>3. CASE Unprotect
    <3>1. pc = "unprotect" /\ InFlight = {}
      BY <1>1, <2>3, InFlightIs DEF Unprotect
    <3>2. mem' # mem
      BY <1>2, <2>1, <3>1 DEF RestoreInv, Open
    <3>3. CanProtect(mem, Data(Current), "rwx")
      BY <2>3, <3>2 DEF Unprotect, AfterProtect
    <3> QED
      BY <2>2, <3>1, <3>3, CanStillProtect
  <2>4. CASE Overwrite
    <3>1. pc = "overwrite"
      BY <2>4 DEF Overwrite
    <3>2. mem'[a].protect = mem[a].protect
      <4>1. PICK n : mem' = AfterWrite(mem, Span(Current.base, n), Current.data)
        BY <2>4 DEF Overwrite, Data
      <4>2. mem'[a] = mem[a] \/ mem'[a] = [mem[a] EXCEPT !.data = Current.data[a]]
        BY <4>1 DEF AfterWrite
      <4> QED
        BY <1>3, <4>2 DEF Page
    <3>3. CanProtect(mem, Data(Current), "rwx")
      BY <1>2, <2>1, <3>1, <3>2 DEF RestoreInv, Open
    <3> QED
      BY <2>2, <3>1, <3>3, CanStillProtect
  <2>5. CASE ~Unprotect /\ ~Overwrite
    <3>1. pc' \notin {"overwrite", "reprotect"}
      BY <2>5 DEF Restore, Allocate, AllocateFails, FreeMisplaced, WriteFresh, ProtectFresh,
         QueryTarget, QueryFails, Reprotect, Conclude
    <3> QED
      BY <2>2, <3>1
  <2> QED
    BY <2>3, <2>4, <2>5
<1>5. ASSUME NEW outcome \in Outcomes, Ending(outcome)
      PROVE  Open'
  <2> PICK n : n = Here
    OBVIOUS
  <2>1. n \in Touching' /\ Touching \in SUBSET (Touching')
    BY <1>1, <1>5, Concluded DEF Ending, Touching
  <2>2. Current = regions[n] /\ Data(Current) \in SUBSET Span(Current.base, Current.size)
    BY <1>1, HereIs
  <2>3. ASSUME NEW a \in Pages, mem'[a].protect = "rwx", start[a].protect # "rwx"
        PROVE  \E i \in Touching' : LeavesOpen(i, a)'
    <3>1. CASE \E i \in Touching : LeavesOpen(i, a)
      BY <1>2, <2>1, <3>1
    <3>2. CASE ~\E i \in Touching : LeavesOpen(i, a)
      <4>1. mem'[a] = mem[a] =>
              /\ a \in InFlight
              /\ pc = "reprotect" => CanProtect(mem, Data(Current), "rwx")
        BY <2>3, <3>2 DEF RestoreInv, Open
      <4>2. CASE pc = "query" /\ mem' = mem
        BY <1>1, <4>1, <4>2, InFlightIs
      <4>3. ASSUME a \in Span(Current.base, Current.size),
                   a \in Data(Current) => Current.protect \in {"rwx", "wc"} \/ n \in unprotected'
            PROVE  LeavesOpen(n, a)'
        BY <1>1, <2>2, <4>3 DEF LeavesOpen, Data
      <4>4. CASE pc = "protect" /\ SetProtection
        <5>1. a \in Span(Current.base, Current.size)
          BY <1>1, <2>2, <4>1, <4>4, InFlightIs, PageMoves
        <5>2. a \in Data(Current) => Current.protect \in {"rwx", "wc"} \/ n \in unprotected'
          BY <1>1, <1>3, <2>3, <4>4, FreshCanProtect, Protected DEF SetProtection
        <5> QED
          BY <2>1, <4>3, <5>1, <5>2
      <4>5. CASE pc = "reprotect" /\ SetProtection
        <5>1. a \in Data(Current) /\ a \in Span(Current.base, Current.size)
          BY <1>1, <2>2, <4>1, <4>5, InFlightIs, PageMoves
        <5>2. CASE n \in unprotected'
          BY <2>1, <4>3, <5>1, <5>2
        <5>3. CASE mem' = AfterProtect(mem, Data(Current), Current.protect)
          <6>1. CASE CanProtect(mem, Data(Current), Current.protect)
            <7>1. Current.protect = "rwx"
              BY <1>3, <2>3, <5>1, <5>3, <6>1, Protected
            <7> QED
              BY <2>1, <4>3, <5>1, <7>1
          <6>2. CASE ~CanProtect(mem, Data(Current), Current.protect)
            <7>1. CanProtect(mem, Data(Current), "rwx")
              BY <4>1, <4>5, <5>3, <6>2 DEF AfterProtect
            <7>2. Current.protect = "wc"
              BY <6>2, <7>1 DEF CanProtect
            <7> QED
              BY <2>1, <4>3, <5>1, <7>2
          <6> QED
            BY <6>1, <6>2
        <5> QED
          BY <4>5, <5>2, <5>3 DEF SetProtection
      <4> QED
        BY <1>5, <4>2, <4>4, <4>5 DEF Ending
    <3> QED
      BY <3>1, <3>2
  <2> QED
    BY <1>1, <2>3 DEF Open
<1> QED
  BY <1>4, <1>5, GoesOnOrEnds DEF GoesOn

\* A region that starts on a boundary and was free is still free when its turn
\* comes: no earlier region has reached its pages.
LEMMA AlignedIsFree ==
  ASSUME DumpInv, RestoreInv, InRegion, Aligned(Current), pc = "alloc"
  PROVE  CanReserve(mem, Current.base, Current.size)
<1>1. /\ Reservation(Current.base, Current.size) = Span(Current.base, Current.size)
      /\ Span(Current.base, Current.size) \in SUBSET Pages
  BY HereIs, ReservationIs DEF Aligned
<1>2. ASSUME NEW a \in Span(Current.base, Current.size) PROVE mem[a].state = "free"
  <2>1. start[a].state = "free"
    BY DEF Aligned, FreeInStart
  <2>2. Touching = DOMAIN outcomes
    BY DEF RestoreInv, RestoreTypeOK, Touching
  <2>3. ~\E i \in Touching : a \in Footprint(i)
    BY <2>2, Apart, OwnPages
  <2>4. mem[a] = start[a]
    BY <1>1, <2>3, InFlightIs DEF RestoreInv, Changed
  <2> QED
    BY <2>1, <2>4
<1> QED
  BY <1>1, <1>2 DEF CanReserve

\* An aligned region whose place is free is allocated, written and protected.
LEMMA AlignedKept ==
  ASSUME DumpInv, RestoreInv, Restore, src' = src
  PROVE  AlignedIsBack'
<1>1. /\ InRegion /\ regions' = regions /\ start' = start /\ callsMayFail' = callsMayFail
  BY Calls
<1> SUFFICES ASSUME ~callsMayFail PROVE AlignedIsBack'
  BY <1>1 DEF AlignedIsBack
<1>2. \A i : Aligned(regions[i])' <=> Aligned(regions[i])
  BY <1>1 DEF Aligned, FreeInStart
<1>3. ASSUME NEW i \in DOMAIN outcomes, Aligned(regions[i]), NEW a \in Data(regions[i])
      PROVE  /\ outcomes[i] = "allocated"
             /\ mem'[a].protect = src[a].protect \/ src[a].protect = "wc"
  <2>1. /\ outcomes[i] = "allocated"
        /\ mem[a].protect = src[a].protect \/ src[a].protect = "wc"
    BY <1>3 DEF RestoreInv, AlignedIsBack
  <2>2. mem'[a] = mem[a]
    BY <2>1, CountedUntouched DEF Counted
  <2> QED
    BY <2>1, <2>2
<1>4. \A i \in DOMAIN outcomes : Aligned(regions[i]) => outcomes[i] = "allocated"
  BY DEF RestoreInv, AlignedIsBack
<1>5. Aligned(Current) => pc \in {"alloc", "write", "protect"} /\ (pc = "protect" => wrote)
  BY <1>1 DEF RestoreInv, AlignedIsBack
<1>6. CASE outcomes' = outcomes /\ Current' = Current
  <2>1. ASSUME Aligned(Current)
        PROVE  pc' \in {"alloc", "write", "protect"} /\ (pc' = "protect" => wrote')
    <3>1. CASE Allocate
      BY <2>1, <3>1 DEF Allocate, Aligned
    <3>2. CASE AllocateFails
      BY <1>1, <2>1, <3>2, AlignedIsFree DEF AllocateFails
    <3>3. CASE WriteFresh
      BY <3>3 DEF WriteFresh
    <3>4. CASE ProtectFresh \/ QueryFails \/ Reprotect
      BY <3>4 DEF ProtectFresh, QueryFails, Reprotect, Conclude
    <3>5. CASE FreeMisplaced \/ QueryTarget \/ Unprotect \/ Overwrite
      BY <1>5, <2>1, <3>5 DEF FreeMisplaced, QueryTarget, Unprotect, Overwrite
    <3> QED
      BY <3>1, <3>2, <3>3, <3>4, <3>5 DEF Restore
  <2>2. Aligned(Current)' <=> Aligned(Current)
    BY <1>1, <1>6 DEF Aligned, FreeInStart
  <2> QED
    BY <1>1, <1>2, <1>3, <1>4, <1>6, <2>1, <2>2 DEF AlignedIsBack, Data
<1>7. ASSUME NEW outcome \in Outcomes, Ending(outcome)
      PROVE  AlignedIsBack'
  <2> PICK n : n = Here
    OBVIOUS
  <2>1. /\ pc' = "alloc" /\ DOMAIN outcomes' = DOMAIN outcomes \cup {n} /\ outcomes'[n] = outcome
        /\ \A i \in DOMAIN outcomes : outcomes'[i] = outcomes[i]
    BY <1>1, <1>7, Concluded DEF Ending
  <2>2. Current = regions[n] /\ Data(Current) \in SUBSET Pages
    BY <1>1, HereIs
  <2>3. ASSUME Aligned(Current)
        PROVE  /\ outcome = "allocated"
               /\ \A a \in Data(Current) :
                    mem'[a].protect = src[a].protect \/ src[a].protect = "wc"
    <3>1. /\ pc = "protect" /\ outcome = "allocated"
          /\ mem' = AfterProtect(mem, Data(Current), Current.protect)
      BY <1>5, <1>7, <2>3 DEF Ending, SetProtection
    <3>2. ASSUME NEW a \in Data(Current), src[a].protect # "wc"
          PROVE  mem'[a].protect = src[a].protect
      <4>1. Current.protect = src[a].protect
        BY <1>1, <3>2, HereIs
      <4>2. CanProtect(mem, Data(Current), Current.protect)
        BY <1>1, <3>1, <3>2, <4>1, FreshCanProtect
      <4>3. mem[a] \in Page
        BY <2>2, Shape DEF RestoreInv
      <4> QED
        BY <2>2, <3>1, <4>1, <4>2, <4>3, Protected
    <3> QED
      BY <3>1, <3>2
  <2>4. ASSUME NEW i \in DOMAIN outcomes', Aligned(regions[i])
        PROVE  /\ outcomes'[i] = "allocated"
               /\ \A a \in Data(regions[i]) :
                    mem'[a].protect = src[a].protect \/ src[a].protect = "wc"
    <3>1. CASE i = n
      BY <2>1, <2>2, <2>3, <2>4, <3>1
    <3>2. CASE i \in DOMAIN outcomes
      BY <1>3, <1>4, <2>1, <2>4, <3>2
    <3> QED
      BY <2>1, <3>1, <3>2
  <2> QED
    BY <1>1, <1>2, <2>1, <2>4 DEF AlignedIsBack, Data
<1> QED
  BY <1>6, <1>7, GoesOnOrEnds DEF GoesOn

-----------------------------------------------------------------------------
(* The theorems *)

MemoryInv == DumpInv /\ RestoreInv

\* Before the restore nothing has changed.
LEMMA RestoreStarts ==
  ASSUME RestoreInit, regions = <<>>, ~Dump!DumpDone
  PROVE  RestoreInv
<1>1. /\ mem \in Targets /\ start = mem /\ callsMayFail \in BOOLEAN /\ pc = "alloc"
      /\ alloc = 0 /\ image = FALSE /\ wrote = FALSE /\ outcomes = <<>>
      /\ leaked = {} /\ unprotected = {}
  BY DEF RestoreInit
<1>2. WellFormed(mem) /\ mem \in Spaces
  BY <1>1, LayoutsAssumption DEF WellFormed
<1>3. outcomes \in Seq(Outcomes) /\ Len(outcomes) = 0 /\ Len(regions) = 0 /\ 0 \in Pages
      /\ DOMAIN outcomes = {}
  <2>1. NPages \in Nat /\ NPages > 0
    BY SizeAssumption
  <2>2. 0 \in Pages
    BY <2>1 DEF Pages
  <2>3. outcomes \in Seq(Outcomes) /\ Len(outcomes) = 0 /\ DOMAIN outcomes = {}
    BY <1>1
  <2>4. Len(regions) = 0
    OBVIOUS
  <2> QED
    BY <2>2, <2>3, <2>4
<1>4. RestoreTypeOK
  <2>1. start \in Spaces /\ pc \notin {"free", "write", "protect"}
    BY <1>1, <1>2
  <2>2. Len(outcomes) <= Len(regions)
    BY <1>3
  <2> QED
    BY <1>1, <1>2, <1>3, <2>1, <2>2 DEF RestoreTypeOK
<1>5. Misplaced /\ Fresh /\ Mapped
  BY <1>1 DEF Misplaced, Fresh, Mapped
<1>6. Changed /\ FreeIsFree /\ CountedIsInPlace /\ Open
  BY <1>1, <1>3 DEF Changed, FreeIsFree, CountedIsInPlace, Open
<1>7. AlignedIsBack
  BY <1>1, <1>3 DEF AlignedIsBack
<1> QED
  BY <1>1, <1>2, <1>4, <1>5, <1>6, <1>7 DEF RestoreInv

\* The dump runs before the restore: it finds it in its first state.
LEMMA DumpKeepsRestore ==
  ASSUME DumpInv, RestoreInv, Dump!DumpRegion, UNCHANGED restoreVars
  PROVE  RestoreInv'
<1>1. /\ pc = "alloc" /\ outcomes = <<>> /\ mem' = mem /\ start' = start
      /\ callsMayFail' = callsMayFail /\ pc' = pc /\ alloc' = alloc /\ image' = image
      /\ wrote' = wrote /\ outcomes' = outcomes /\ UNCHANGED <<leaked, unprotected>>
  <2>1. address < NPages /\ address \in Nat /\ NPages \in Nat
    BY SizeAssumption DEF Dump!DumpRegion, DumpInv
  <2>2. ~Dump!DumpDone
    BY <2>1 DEF Dump!DumpDone
  <2> QED
    BY <2>2 DEF RestoreInv, restoreVars, given, unseen
<1>2. regions' \in Seq(Region)
  BY DumpStepKeeps DEF DumpInv
<1>3. /\ DOMAIN outcomes = {} /\ Len(outcomes) = 0 /\ outcomes \in Seq(Outcomes)
      /\ Len(regions') \in Nat
  BY <1>1, <1>2
<1>4. InFlight = {} /\ InFlight' = {}
  BY <1>1 DEF InFlight
<1>5. /\ leaked = {} /\ unprotected = {} /\ Touching = {} /\ Touching' = {}
      /\ RestoreTypeOK'
  <2>1. leaked = {} /\ unprotected = {}
    BY <1>1, <1>3 DEF RestoreInv, RestoreTypeOK
  <2>2. Touching = {} /\ Touching' = {}
    BY <1>1, <1>3, <2>1 DEF Touching
  <2> QED
    BY <1>1, <1>3, <2>1, <2>2 DEF RestoreInv, RestoreTypeOK
<1>6. Misplaced' /\ Fresh' /\ Mapped'
  BY <1>1 DEF Misplaced, Fresh, Mapped
<1>7. Changed'
  BY <1>1, <1>4, <1>5 DEF RestoreInv, Changed
<1>8. FreeIsFree' /\ CountedIsInPlace'
  BY <1>1, <1>3 DEF RestoreInv, FreeIsFree, CountedIsInPlace
<1>9. Open'
  BY <1>1, <1>4, <1>5 DEF RestoreInv, Open
<1>10. AlignedIsBack'
  BY <1>1, <1>3 DEF AlignedIsBack
<1>11. WellFormed(mem') /\ start' \in Targets
  BY <1>1 DEF RestoreInv
<1> QED
  BY <1>1, <1>5, <1>6, <1>7, <1>8, <1>9, <1>10, <1>11 DEF RestoreInv

\* The restore runs after the dump: it leaves what was captured alone.
LEMMA RestoreKeeps ==
  ASSUME DumpInv, RestoreInv, Restore, Dump!DumpDone, UNCHANGED <<src, address, unread>>
  PROVE  DumpInv' /\ RestoreInv'
<1>1. regions' = regions /\ start' = start
  BY Calls
<1>2. DumpInv'
  BY <1>1 DEF DumpInv, Ascending, Data
<1>3. Dump!DumpDone'
  BY DEF Dump!DumpDone
<1>4. start' \in Targets
  BY <1>1 DEF RestoreInv
<1>5. /\ RestoreTypeOK' /\ WellFormed(mem') /\ Misplaced' /\ Fresh' /\ Mapped'
      /\ Changed' /\ FreeIsFree' /\ CountedIsInPlace' /\ Open' /\ AlignedIsBack'
  BY TypesKept, StaysShaped, MisplacedKept, FreshKept, MappedKept, ChangedKept,
     FreeStaysFree, CountedKept, OpenKept, AlignedKept
<1> QED
  BY <1>2, <1>3, <1>4, <1>5 DEF RestoreInv

\* The steps of the round trip.
LEMMA MemoryStep ==
  ASSUME MemoryInv, [Next]_vars
  PROVE  MemoryInv'
<1>1. CASE Dump!DumpRegion /\ UNCHANGED restoreVars
  BY <1>1, DumpStepKeeps, DumpKeepsRestore DEF MemoryInv
<1>2. CASE Dump!DumpDone /\ Restore /\ UNCHANGED <<src, address, unread>>
  BY <1>2, RestoreKeeps DEF MemoryInv
<1>3. CASE UNCHANGED vars
  <2>1. DumpInv'
    BY <1>3 DEF vars, MemoryInv, DumpInv, Ascending, Data
  <2>2. RestoreTypeOK' /\ start' \in Targets /\ WellFormed(mem')
    BY <1>3 DEF vars, restoreVars, given, unseen, MemoryInv, RestoreInv, RestoreTypeOK,
       InRegion, Current, Here
  <2>3. ~Dump!DumpDone' => pc' = "alloc" /\ outcomes' = <<>>
    BY <1>3 DEF vars, restoreVars, MemoryInv, RestoreInv, Dump!DumpDone
  <2>4. Misplaced' /\ Fresh' /\ Mapped'
    BY <1>3 DEF vars, restoreVars, given, unseen, MemoryInv, RestoreInv, Misplaced, Fresh, Mapped,
       Written, Counted, Current, Here, Data
  <2>5. Changed' /\ FreeIsFree' /\ CountedIsInPlace' /\ Open'
    BY <1>3 DEF vars, restoreVars, given, unseen, MemoryInv, RestoreInv, Changed, FreeIsFree,
       CountedIsInPlace, Open, Touching, InFlight, Footprint, LeavesOpen, Current, Here, Data
  <2>6. AlignedIsBack'
    BY <1>3 DEF vars, restoreVars, given, unseen, MemoryInv, RestoreInv, AlignedIsBack, Aligned,
       FreeInStart, InRegion, Current, Here, Data
  <2> QED
    BY <2>1, <2>2, <2>3, <2>4, <2>5, <2>6 DEF MemoryInv, RestoreInv
<1> QED
  BY <1>1, <1>2, <1>3 DEF Next

\* Both invariants hold throughout.
LEMMA MemoryInvariant == Spec => []MemoryInv
<1>1. Init => MemoryInv
  <2> SUFFICES ASSUME Init PROVE MemoryInv
    OBVIOUS
  <2>1. DumpInv
    BY DumpStarts DEF Init
  <2>2. regions = <<>> /\ ~Dump!DumpDone
    BY SizeAssumption DEF Init, Dump!DumpInit, Dump!DumpDone
  <2>3. RestoreInv
    BY <2>2, RestoreStarts DEF Init
  <2> QED
    BY <2>1, <2>3 DEF MemoryInv
<1>2. MemoryInv /\ [Next]_vars => MemoryInv'
  BY MemoryStep
<1> QED
  BY <1>1, <1>2, PTL DEF Spec

\* restore_memory is about the regions it was given: one outcome for each it has
\* tried, in their order, and restore_region never runs past the last one.
THEOREM TypeCorrect == Spec => []RestoreTypeOK
<1>1. MemoryInv => RestoreTypeOK
  BY DEF MemoryInv, RestoreInv
<1> QED
  BY <1>1, MemoryInvariant, PTL

\* dump_memory: each page the frozen target could write to is in exactly one
\* region of the dump, with its bytes, unless its read failed, however the
\* target's memory is laid out.
THEOREM DumpIsComplete == Spec => []WritablePagesCaptured
<1>1. MemoryInv => WritablePagesCaptured
  BY DumpResult DEF MemoryInv
<1> QED
  BY <1>1, MemoryInvariant, PTL

\* Between two regions each leak is of a region that has its outcome.
LEMMA NothingLeaksHere ==
  ASSUME MemoryInv, pc = "alloc"
  PROVE  Touching = DOMAIN outcomes
BY DEF MemoryInv, RestoreInv, RestoreTypeOK, Touching

\* restore_memory: a region that is skipped before its write leaves memory as the
\* loader left it, whatever was mapped there and whichever calls fail, and what
\* was reserved at a wrong address is given back unless VirtualFreeEx fails,
\* whose result the code drops.
THEOREM SkippedChangesNothing == Spec => []SkippedUntouched
<1>1. MemoryInv => SkippedUntouched
  <2> SUFFICES ASSUME MemoryInv, pc = "alloc", NEW a \in Pages, mem[a] # start[a]
               PROVE  \E i \in DOMAIN outcomes : a \in Footprint(i)
    BY DEF SkippedUntouched
  <2>1. InFlight = {} /\ Touching = DOMAIN outcomes
    BY NothingLeaksHere DEF InFlight
  <2> QED
    BY <2>1 DEF MemoryInv, RestoreInv, Changed
<1> QED
  BY <1>1, MemoryInvariant, PTL

\* restore_memory: the bytes of a region that counts as restored are in the
\* process, and stay there whatever happens to the regions after it.
THEOREM CountedStaysInPlace == Spec => []CountedIsInPlace
<1>1. MemoryInv => CountedIsInPlace
  BY DEF MemoryInv, RestoreInv
<1> QED
  BY <1>1, MemoryInvariant, PTL

\* restore_memory: a page left writable and executable is one that the code never
\* protects again, or one for which the VirtualFreeEx or the VirtualProtectEx
\* that the code does not look at has failed.  Allocations, queries, writes and
\* the first VirtualProtectEx leave no other, however they fail.
THEOREM NothingElseLeftOpen == Spec => []LeftOpenWithReason
<1>1. MemoryInv => LeftOpenWithReason
  <2> SUFFICES ASSUME MemoryInv, pc = "alloc", NEW a \in Pages,
                      mem[a].protect = "rwx", start[a].protect # "rwx"
               PROVE  \E i \in DOMAIN outcomes : LeavesOpen(i, a)
    BY DEF LeftOpenWithReason
  <2>1. InFlight = {} /\ Touching = DOMAIN outcomes
    BY NothingLeaksHere DEF InFlight
  <2> QED
    BY <2>1 DEF MemoryInv, RestoreInv, Open
<1> QED
  BY <1>1, MemoryInvariant, PTL

\* The round trip: a region that starts on an allocation boundary and finds its
\* place free comes back with its bytes and protection, whatever the regions
\* around it meet.
THEOREM AlignedComesBack == Spec => []AlignedRegionsComeBack
<1>1. MemoryInv => AlignedRegionsComeBack
  <2> SUFFICES ASSUME MemoryInv, RestoreDone, ~callsMayFail, NEW i \in DOMAIN regions,
                      Aligned(regions[i]), NEW a \in Data(regions[i])
               PROVE  ComesBack(a)
    BY DEF AlignedRegionsComeBack, Finished, Aligned
  <2>1. i \in DOMAIN outcomes
    <3>1. regions \in Seq(Region) /\ outcomes \in Seq(Outcomes)
      BY DEF MemoryInv, DumpInv, RestoreInv, RestoreTypeOK
    <3> QED
      BY <3>1 DEF RestoreDone
  <2>2. /\ outcomes[i] = "allocated"
        /\ mem[a].protect = src[a].protect \/ src[a].protect = "wc"
    BY <2>1 DEF MemoryInv, RestoreInv, AlignedIsBack
  <2>3. mem[a].state = "committed" /\ mem[a].data = regions[i].data[a]
    BY <2>1, <2>2 DEF MemoryInv, RestoreInv, CountedIsInPlace
  <2>4. regions[i].data[a] = src[a].data
    BY DataInRegion DEF MemoryInv
  <2> QED
    BY <2>2, <2>3, <2>4 DEF ComesBack
<1> QED
  BY <1>1, MemoryInvariant, PTL

-----------------------------------------------------------------------------
(* Where private memory comes back, and where it does not *)

\* A region of VirtualQueryEx starts at page a, or the address space ends there.
Boundary(space, a) == a = 0 \/ a = NPages \/ ~Alike(space[a - 1], space[a])

WholeRegion(r) ==
  /\ Boundary(src, r.base)
  /\ src[r.base].state = "committed" /\ src[r.base].type = r.type
  /\ \A a \in Span(r.base, r.size) : Alike(src[r.base], src[a])

WalkInv ==
  /\ Boundary(src, address)
  /\ \A i \in DOMAIN regions : WholeRegion(regions[i])

\* The walk steps from one boundary to the next.
LEMMA WalkStepKeeps ==
  ASSUME DumpInv, WalkInv, Dump!DumpRegion
  PROVE  WalkInv'
<1> DEFINE end == Dump!RegionEnd(src, address)
<1>1. /\ address < NPages /\ address' = end /\ src' = src
      /\ address \in Pages /\ address \in Nat /\ NPages \in Nat
  BY SizeAssumption DEF Dump!DumpRegion, DumpInv, Pages
<1>2. /\ end \in (address + 1)..NPages
      /\ \A c \in address..(end - 1) : Alike(src[address], src[c])
      /\ end < NPages => ~Alike(src[address], src[end])
  BY <1>1, RegionEnds
<1>3. \/ regions' = regions
      \/ /\ src[address].state = "committed"
         /\ \E len \in 1..(end - address) :
              regions' = Append(regions, Dump!Captured(address, end, len))
  <2>1. \/ regions' = regions
        \/ /\ src[address].state = "committed"
           /\ \E len \in 0..(end - address) :
                regions' = IF len = 0 THEN regions
                           ELSE Append(regions, Dump!Captured(address, end, len))
    BY DEF Dump!DumpRegion
  <2> HIDE DEF end
  <2>2. \A len \in 0..(end - address) : len = 0 \/ len \in 1..(end - address)
    BY <1>1, <1>2
  <2> QED
    BY <2>1, <2>2
<1> HIDE DEF end
<1>4. Boundary(src, address)'
  <2>1. CASE end = NPages
    BY <1>1, <2>1 DEF Boundary
  <2>2. CASE end # NPages
    <3>1. end - 1 \in address..(end - 1) /\ end < NPages
      BY <1>1, <1>2, <2>2
    <3>2. Alike(src[address], src[end - 1]) /\ ~Alike(src[address], src[end])
      BY <1>2, <3>1
    <3>3. ~Alike(src[end - 1], src[end])
      BY <3>2 DEF Alike
    <3> QED
      BY <1>1, <3>3 DEF Boundary
  <2> QED
    BY <2>1, <2>2
<1>5. CASE regions' = regions
  BY <1>1, <1>4, <1>5 DEF WalkInv, WholeRegion, Boundary
<1>6. ASSUME src[address].state = "committed", NEW len \in 1..(end - address),
             regions' = Append(regions, Dump!Captured(address, end, len))
      PROVE  WalkInv'
  <2> DEFINE r == Dump!Captured(address, end, len)
             new == Len(regions) + 1
  <2>1. len \in Nat /\ len # 0 /\ len \in 0..(end - address)
    BY <1>1, <1>2
  <2>2. r \in Region /\ r.base = address /\ r.base + r.size = end
    BY <1>1, <2>1, CapturedRegion DEF end
  <2>3. r.type = src[address].type
    BY DEF Dump!Captured
  <2> HIDE DEF r
  <2>4. \A a \in Span(r.base, r.size) : Alike(src[address], src[a])
    <3>1. r.size \in Nat
      BY <2>2 DEF Region
    <3>2. Span(r.base, r.size) \in SUBSET (address..(end - 1))
      BY <1>1, <1>2, <2>2, <3>1 DEF Span
    <3> QED
      BY <1>2, <3>2
  <2>5. \A i \in DOMAIN regions' :
          \/ i = new /\ regions'[i] = r
          \/ i \in DOMAIN regions /\ regions'[i] = regions[i]
    <3>1. regions \in Seq(Region) /\ DOMAIN regions = 1..Len(regions) /\ Len(regions) \in Nat
      BY DEF DumpInv
    <3>2. /\ DOMAIN regions' = 1..(Len(regions) + 1) /\ regions'[new] = r
          /\ \A i \in DOMAIN regions : i \in DOMAIN regions' /\ regions'[i] = regions[i]
      BY <1>6, <2>2, AppendAscends DEF r
    <3>3. \A i \in DOMAIN regions' : i = new \/ i \in DOMAIN regions
      BY <3>1, <3>2
    <3> QED
      BY <3>2, <3>3
  <2>6. \A i \in DOMAIN regions' : WholeRegion(regions'[i])
    <3> SUFFICES ASSUME NEW i \in DOMAIN regions' PROVE WholeRegion(regions'[i])
      OBVIOUS
    <3>1. WholeRegion(r)
      BY <1>6, <2>2, <2>3, <2>4 DEF WholeRegion, WalkInv
    <3> QED
      BY <2>5, <3>1 DEF WalkInv
  <2> QED
    BY <1>1, <1>4, <2>6 DEF WalkInv, WholeRegion, Boundary
<1> QED
  BY <1>3, <1>5, <1>6

LEMMA WalkInvariant == Spec => []WalkInv
<1>1. Init => WalkInv
  <2> SUFFICES ASSUME Init PROVE WalkInv
    OBVIOUS
  <2>1. address = 0 /\ DOMAIN regions = {}
    BY DEF Init, Dump!DumpInit
  <2> QED
    BY <2>1 DEF WalkInv, Boundary
<1>2. MemoryInv /\ WalkInv /\ [Next]_vars => WalkInv'
  <2> SUFFICES ASSUME MemoryInv, WalkInv, [Next]_vars PROVE WalkInv'
    OBVIOUS
  <2>1. CASE Dump!DumpRegion
    BY <2>1, WalkStepKeeps DEF MemoryInv
  <2>2. CASE ~Dump!DumpRegion
    <3>1. regions' = regions /\ src' = src /\ address' = address
      BY <2>2, Calls DEF Next, vars, MemoryInv
    <3> QED
      BY <3>1 DEF WalkInv, WholeRegion, Boundary
  <2> QED
    BY <2>1, <2>2
<1> QED
  BY <1>1, <1>2, MemoryInvariant, PTL DEF Spec

\* Every private region of the target starts on an allocation boundary.
AlignedLayout(space) ==
  \A a \in Pages : space[a].type = "private" /\ Boundary(space, a) => a = RoundDown(a)

\* When no protection changes inside an allocation granule of private memory, the
\* claim of restore/memory.rs holds: all private memory whose place is free in
\* the new process comes back, if no call fails at will.
THEOREM AlignedLayoutsComeBack ==
  (\A space \in Sources : AlignedLayout(space)) => (Spec => []PrivateMemoryComesBack)
<1> SUFFICES ASSUME \A space \in Sources : AlignedLayout(space)
             PROVE  Spec => []PrivateMemoryComesBack
  OBVIOUS
<1>1. MemoryInv /\ WalkInv /\ AlignedRegionsComeBack => PrivateMemoryComesBack
  <2> SUFFICES ASSUME MemoryInv, WalkInv, AlignedRegionsComeBack, Finished, ~callsMayFail,
                      NEW i \in DOMAIN regions, regions[i].type = "private",
                      \A a \in Pages :
                        src[a].state # "free" /\ src[a].base = src[regions[i].base].base
                          => start[a].state = "free"
               PROVE  \A a \in Data(regions[i]) : ComesBack(a)
    BY DEF PrivateMemoryComesBack
  <2> DEFINE r == regions[i]
  <2>1. r.base \in Pages /\ Span(r.base, r.size) \in SUBSET Pages
    BY DataInRegion DEF MemoryInv
  <2>2. WholeRegion(r)
    BY DEF WalkInv
  <2>3. r.base = RoundDown(r.base)
    BY <2>1, <2>2 DEF WholeRegion, AlignedLayout, MemoryInv, DumpInv
  <2>4. \A a \in Span(r.base, r.size) : src[a].state # "free" /\ src[a].base = src[r.base].base
    BY <2>2 DEF WholeRegion, Alike
  <2>5. FreeInStart(r)
    BY <2>1, <2>4 DEF FreeInStart
  <2> QED
    BY <2>3, <2>5 DEF AlignedRegionsComeBack
<1> QED
  BY <1>1, MemoryInvariant, WalkInvariant, AlignedComesBack, PTL

\* What an outcome tells of the place of the region: it starts on an allocation
\* boundary, or something was mapped there.
Placed(r) == r.base = RoundDown(r.base) \/ start[r.base].state # "free"

PlacedInv ==
  /\ pc \in {"unprotect", "overwrite", "reprotect"} =>
       start[Current.base].state # "free" \/ Here \in leaked
  /\ \A i \in DOMAIN outcomes :
       outcomes[i] # "not_mapped" => Placed(regions[i]) \/ i \in leaked

\* VirtualQueryEx finds the page as the loader left it, or misplaced pages of the
\* same region.
LEMMA QuerySeesStart ==
  ASSUME DumpInv, RestoreInv, InRegion, pc = "query", Here \notin leaked
  PROVE  mem[Current.base] = start[Current.base]
<1>1. Current.base \in Pages /\ Current.base \in Span(Current.base, Current.size)
  BY HereIs DEF Span
<1>2. InFlight = {}
  BY DEF InFlight
<1>3. \A i \in Touching : Current.base \notin Footprint(i)
  <2>1. Touching = DOMAIN outcomes
    BY DEF RestoreInv, RestoreTypeOK, Touching
  <2> QED
    BY <1>1, <2>1, Apart, OwnPages
<1> QED
  BY <1>1, <1>2, <1>3 DEF RestoreInv, Changed

\* Path B goes on only where something is mapped, path A only on a boundary.
LEMMA PlacedKept ==
  ASSUME DumpInv, RestoreInv, PlacedInv, Restore
  PROVE  PlacedInv'
<1>1. InRegion /\ regions' = regions /\ start' = start /\ leaked \subseteq leaked'
  BY Calls
<1>2. ASSUME pc = "query", start[Current.base].state = "free", Here \notin leaked
      PROVE  Conclude("not_mapped")
  <2>1. mem[Current.base].state = "free" /\ Current.base \in Pages
    BY <1>1, <1>2, QuerySeesStart, HereIs
  <2>2. mem[Current.base] = FreePage(Current.base)
    BY <2>1, Shape DEF RestoreInv
  <2>3. Verdict(mem[Current.base], Current) = "not_mapped"
    BY <2>1, <2>2 DEF Verdict, FreePage
  <2>4. QueryTarget \/ QueryFails
    BY <1>2 DEF Restore, Allocate, AllocateFails, FreeMisplaced, WriteFresh, ProtectFresh,
                Unprotect, Overwrite, Reprotect
  <2> QED
    BY <2>3, <2>4 DEF QueryTarget, QueryFails
<1>3. CASE outcomes' = outcomes /\ pc' # "alloc" /\ Current' = Current /\ Here' = Here
  <2>1. pc' \in {"unprotect", "overwrite", "reprotect"} =>
          pc \in {"unprotect", "overwrite", "query"}
    BY <1>3 DEF Restore, Allocate, AllocateFails, FreeMisplaced, WriteFresh, ProtectFresh,
           QueryTarget, QueryFails, Unprotect, Overwrite, Reprotect, Conclude
  <2> QED
    BY <1>1, <1>2, <1>3, <2>1 DEF PlacedInv, Placed, Conclude
<1>4. ASSUME NEW outcome \in Outcomes, Ending(outcome) PROVE PlacedInv'
  <2>1. Conclude(outcome)
    BY <1>4 DEF Ending
  <2>2. /\ pc' = "alloc" /\ DOMAIN outcomes' = DOMAIN outcomes \cup {Here}
        /\ outcomes'[Here] = outcome
        /\ \A i \in DOMAIN outcomes : outcomes'[i] = outcomes[i]
    BY <1>1, <2>1, Concluded
  <2>3. Current = regions[Here]
    BY <1>1, HereIs
  <2>4. ASSUME outcome # "not_mapped" PROVE Placed(Current) \/ Here \in leaked
    <3>1. CASE pc = "query"
      <4>1. ~Conclude("not_mapped")
        BY <1>1, <2>2, <2>4, Concluded DEF Outcomes
      <4> QED
        BY <1>2, <3>1, <4>1 DEF Placed
    <3>2. CASE pc = "protect"
      BY <3>2 DEF RestoreInv, RestoreTypeOK, Fresh, Placed
    <3>3. CASE pc = "reprotect"
      BY <3>3 DEF PlacedInv, Placed
    <3> QED
      BY <1>4, <3>1, <3>2, <3>3 DEF Ending
  <2> QED
    BY <1>1, <2>2, <2>3, <2>4 DEF PlacedInv, Placed
<1> QED
  BY <1>3, <1>4, GoesOnOrEnds DEF GoesOn

LEMMA PlacedInvariant == Spec => []PlacedInv
<1>1. Init => PlacedInv
  BY DEF Init, RestoreInit, PlacedInv
<1>2. MemoryInv /\ PlacedInv /\ [Next]_vars => PlacedInv'
  <2> SUFFICES ASSUME MemoryInv, PlacedInv, [Next]_vars PROVE PlacedInv'
    OBVIOUS
  <2>1. CASE Dump!DumpRegion /\ UNCHANGED restoreVars
    <3>1. ~Dump!DumpDone
      BY <2>1, SizeAssumption DEF Dump!DumpRegion, Dump!DumpDone
    <3>2. pc' = "alloc" /\ DOMAIN outcomes' = {}
      BY <2>1, <3>1 DEF MemoryInv, RestoreInv, restoreVars
    <3> QED
      BY <3>2 DEF PlacedInv
  <2>2. CASE Restore
    BY <2>2, PlacedKept DEF MemoryInv
  <2>3. CASE UNCHANGED vars
    BY <2>3 DEF vars, restoreVars, given, unseen, PlacedInv, Placed, Current, Here
  <2> QED
    BY <2>1, <2>2, <2>3 DEF Next
<1> QED
  BY <1>1, <1>2, MemoryInvariant, PTL DEF Spec

\* restore_region never restores a region that starts inside an allocation
\* granule when its place is free, unless the VirtualFreeEx of its misplaced pages
\* fails unseen: AlignedComesBack is else all there is of fresh pages.
THEOREM MisalignedNeverComesBack == Spec => []MisalignedIsLost
<1>1. MemoryInv /\ PlacedInv => MisalignedIsLost
  <2> SUFFICES ASSUME MemoryInv, PlacedInv, NEW i \in DOMAIN outcomes, i \notin leaked,
                      ~Placed(regions[i])
               PROVE  /\ outcomes[i] = "not_mapped"
                      /\ pc = "alloc" =>
                           \A a \in Data(regions[i]) : mem[a] = start[a] \/ InLeak(a)
    BY DEF MisalignedIsLost, Placed
  <2>1. outcomes[i] = "not_mapped"
    BY DEF PlacedInv
  <2>2. ASSUME pc = "alloc", NEW a \in Data(regions[i]), mem[a] # start[a]
        PROVE  InLeak(a)
    <3>1. InFlight = {} /\ Footprint(i) = {}
      BY <2>1, <2>2 DEF InFlight, Footprint
    <3>2. i \in DOMAIN regions /\ a \in Pages /\ a \in Span(regions[i].base, regions[i].size)
      BY <2>2, Apart, OwnPages DEF MemoryInv
    <3>3. PICK j \in DOMAIN outcomes : a \in Footprint(j)
      BY <2>2, <3>1, <3>2, NothingLeaksHere DEF MemoryInv, RestoreInv, Changed
    <3>4. CASE j \in leaked
      BY <3>3, <3>4 DEF Footprint, InLeak
    <3>5. CASE j \notin leaked
      <4>1. j = i
        BY <3>2, <3>3, <3>5, Apart, OwnPages, OneRegion DEF MemoryInv
      <4> QED
        BY <3>1, <3>3, <4>1
    <3> QED
      BY <3>4, <3>5
  <2> QED
    BY <2>1, <2>2
<1> QED
  BY <1>1, MemoryInvariant, PlacedInvariant, PTL

-----------------------------------------------------------------------------
(* How many calls are left *)

\* Calls that restore_region makes for a region before the one of pc: path A
\* first, then path B, and no way back.
CallsBefore == [alloc |-> 0, free |-> 1, write |-> 1, protect |-> 2,
                query |-> 2, unprotect |-> 3, overwrite |-> 4, reprotect |-> 5]

\* The most calls that the round trip can still make: for each page one turn of
\* dump_memory and the six calls of restore_region, for each region captured
\* already those six.
CallsLeft == 7 * (NPages - address) + 6 * (Len(regions) - Len(outcomes)) - CallsBefore[pc]

\* The terms of CallsLeft.
LEMMA CallsLeftIs ==
  ASSUME MemoryInv
  PROVE  /\ address \in 0..NPages /\ NPages \in Nat
         /\ Len(regions) \in Nat /\ Len(outcomes) \in Nat /\ Len(outcomes) <= Len(regions)
         /\ CallsBefore[pc] \in 0..5
         /\ pc # "alloc" => Len(outcomes) < Len(regions)
         /\ pc = "alloc" => CallsBefore[pc] = 0
         /\ CallsLeft \in Nat
<1>1. address \in 0..NPages /\ NPages \in Nat
  BY SizeAssumption DEF MemoryInv, DumpInv
<1>2. Len(regions) \in Nat /\ Len(outcomes) \in Nat /\ Len(outcomes) <= Len(regions)
  BY DEF MemoryInv, DumpInv, RestoreInv, RestoreTypeOK
<1>3. CallsBefore[pc] \in 0..5 /\ (pc = "alloc" => CallsBefore[pc] = 0)
  BY DEF MemoryInv, RestoreInv, RestoreTypeOK, CallsBefore
<1>4. pc # "alloc" => Len(outcomes) < Len(regions)
  BY DEF MemoryInv, RestoreInv, RestoreTypeOK, InRegion
<1>5. CallsLeft \in Nat
  <2> DEFINE pages == NPages - address
             todo == Len(regions) - Len(outcomes)
             before == CallsBefore[pc]
  <2>1. pages \in Nat /\ todo \in Nat /\ before \in 0..5 /\ (before = 0 \/ todo > 0)
    BY <1>1, <1>2, <1>3, <1>4
  <2>2. CallsLeft = 7 * pages + 6 * todo - before
    BY DEF CallsLeft
  <2> HIDE DEF pages, todo, before
  <2> QED
    BY <2>1, <2>2
<1> QED
  BY <1>1, <1>2, <1>3, <1>4, <1>5

\* A turn of dump_memory moves on by a page at least, and adds one region at most.
LEMMA DumpCounts ==
  ASSUME MemoryInv, Dump!DumpRegion, UNCHANGED restoreVars
  PROVE  CallsLeft' < CallsLeft
<1>1. address' \in (address + 1)..NPages /\ address \in Nat /\ NPages \in Nat
  <2>1. address \in Pages
    BY SizeAssumption DEF MemoryInv, DumpInv, Dump!DumpRegion, Pages
  <2>2. address' = Dump!RegionEnd(src, address)
    BY DEF Dump!DumpRegion
  <2> QED
    BY <2>1, <2>2, RegionEnds, SizeAssumption DEF Pages
<1>2. Len(regions') \in {Len(regions), Len(regions) + 1}
  <2>1. regions' = regions \/ \E r : regions' = Append(regions, r)
    BY DEF Dump!DumpRegion
  <2>2. regions \in Seq(Region)
    BY DEF MemoryInv, DumpInv
  <2>3. ASSUME NEW r, regions' = Append(regions, r) PROVE Len(regions') = Len(regions) + 1
    BY <2>2, <2>3
  <2> QED
    BY <2>1, <2>3
<1>3. outcomes' = outcomes /\ pc' = pc
  BY DEF restoreVars
<1> DEFINE n == Len(regions)
           k == Len(outcomes)
           before == CallsBefore[pc]
<1>4. n \in Nat /\ k \in Nat /\ before \in 0..5
  BY CallsLeftIs
<1>5. /\ CallsLeft = 7 * (NPages - address) + 6 * (n - k) - before
      /\ CallsLeft' = 7 * (NPages - address') + 6 * (n' - k) - before
  BY <1>3 DEF CallsLeft
<1>6. n' = n \/ n' = n + 1
  BY <1>2
<1> HIDE DEF n, k, before
<1> QED
  BY <1>1, <1>4, <1>5, <1>6

\* A call of restore_region is followed by one further on, or ends the region.
LEMMA RestoreCounts ==
  ASSUME MemoryInv, Restore, UNCHANGED <<src, address, unread>>
  PROVE  CallsLeft' < CallsLeft
<1> DEFINE n == Len(regions)
           k == Len(outcomes)
           before == CallsBefore[pc]
<1>1. n \in Nat /\ k \in Nat /\ before \in 0..5 /\ address \in Nat /\ NPages \in Nat
  BY CallsLeftIs
<1>2. regions' = regions /\ address' = address
  BY Calls DEF MemoryInv
<1>3. CallsLeft = 7 * (NPages - address) + 6 * (n - k) - before
  BY DEF CallsLeft
<1>4. CASE outcomes' = outcomes /\ pc' # "alloc"
  <2>1. CallsBefore[pc'] \in Nat /\ CallsBefore[pc'] > before
    BY <1>4 DEF Restore, Allocate, AllocateFails, FreeMisplaced, WriteFresh, ProtectFresh,
                QueryTarget, QueryFails, Unprotect, Overwrite, Reprotect, Conclude, CallsBefore
  <2>2. CallsLeft' = 7 * (NPages - address) + 6 * (n - k) - CallsBefore[pc']
    BY <1>2, <1>4 DEF CallsLeft
  <2> HIDE DEF n, k, before
  <2> QED
    BY <1>1, <1>3, <2>1, <2>2
<1>5. ASSUME NEW outcome \in Outcomes, Ending(outcome) PROVE CallsLeft' < CallsLeft
  <2>1. outcomes' = Append(outcomes, outcome) /\ pc' = "alloc"
    BY <1>5 DEF Ending, Conclude
  <2>2. Len(outcomes') = k + 1
    BY <2>1 DEF MemoryInv, RestoreInv, RestoreTypeOK
  <2>3. CallsLeft' = 7 * (NPages - address) + 6 * (n - (k + 1))
    <3>1. CallsBefore[pc'] = 0
      BY <2>1 DEF CallsBefore
    <3>2. CallsLeft' = 7 * (NPages - address) + 6 * (n - (k + 1)) - 0
      BY <1>2, <2>2, <3>1 DEF CallsLeft
    <3> HIDE DEF n, k
    <3> QED
      BY <1>1, <3>2
  <2> HIDE DEF n, k, before
  <2> QED
    BY <1>1, <1>3, <2>3
<1> QED
  BY <1>4, <1>5, GoesOnOrEnds DEF MemoryInv, GoesOn

\* The dump and the restore make a bounded number of calls: no path of
\* restore_region leads back to a call it has made, whatever the calls return.
THEOREM CallsAreBounded == Spec => [][CallsLeft' \in 0..(CallsLeft - 1)]_vars
<1> DEFINE Bounded == CallsLeft \in Nat
<1>1. MemoryInv => Bounded
  BY CallsLeftIs
<1>2. MemoryInv /\ Bounded' /\ Next => CallsLeft' \in 0..(CallsLeft - 1)
  <2> SUFFICES ASSUME MemoryInv, Bounded', Next PROVE CallsLeft' \in 0..(CallsLeft - 1)
    OBVIOUS
  <2>1. CallsLeft' < CallsLeft
    BY DumpCounts, RestoreCounts DEF Next
  <2>2. CallsLeft \in Nat
    BY CallsLeftIs
  <2> QED
    BY <2>1, <2>2
<1>3. MemoryInv /\ Bounded' /\ [Next]_vars => [CallsLeft' \in 0..(CallsLeft - 1)]_vars
  BY <1>2
<1> HIDE DEF Bounded
<1> QED
  BY <1>1, <1>3, MemoryInvariant, PTL DEF Spec

=============================================================================
