-------------------------- MODULE MCMemoryRoundTrip --------------------------
(* MemoryRoundTrip over all the layouts of a few pages that can be built from *)
(* the kinds of page below.                                                   *)
EXTENDS MemoryRoundTrip

CONSTANTS SourceKinds, TargetKinds

\* A kind of page: state, protection, type, contents.
Kinds ==
  [W |-> <<"committed", "rw", "private", "saved">>,     \* heap
   O |-> <<"committed", "ro", "private", "saved">>,     \* JIT code, read-only
   G |-> <<"committed", "guard", "private", "zero">>,   \* stack guard
   R |-> <<"reserved", "noaccess", "private", "zero">>,
   I |-> <<"committed", "rw", "image", "saved">>,       \* .data, written to
   C |-> <<"committed", "wc", "image", "disk">>,        \* .data, not written to
   D |-> <<"committed", "ro", "image", "disk">>,        \* .text, .rdata
   N |-> <<"committed", "rw", "private", "own">>]       \* heap of the new process

Template(kind, a, b) ==
  [state |-> Kinds[kind][1], protect |-> Kinds[kind][2], type |-> Kinds[kind][3],
   base |-> b, data |-> <<Kinds[kind][4], a>>]

Boundaries == {a \in Pages : a % Granule = 0}

\* The page where the reservation that page a belongs to starts.
Start(starts, a) ==
  CHOOSE b \in starts : b <= a /\ \A c \in starts : c <= a => c <= b

Buildable(kind, starts) ==
  /\ \A b \in starts : kind[b] # "free"
  /\ \A a \in Pages : kind[a] # "free" =>
       /\ \E b \in starts : b <= a
       /\ \A c \in Start(starts, a)..a :
            kind[c] # "free" /\ Kinds[kind[c]][3] = Kinds[kind[a]][3]

Layouts(kinds) ==
  {[a \in Pages |-> IF l[1][a] = "free" THEN FreePage(a)
                    ELSE Template(l[1][a], a, Start(l[2], a))] :
     l \in {k \in [Pages -> kinds \cup {"free"}] \X SUBSET Boundaries :
              Buildable(k[1], k[2])}}

MCSources == Layouts(SourceKinds)
MCTargets == Layouts(TargetKinds)

=============================================================================
