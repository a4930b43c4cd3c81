------------------------ MODULE ThreadContextsProofs ------------------------
(***************************************************************************)
(* Theorems about ThreadContexts, for any number of thread ids, threads    *)
(* and listings.                                                           *)
(*                                                                         *)
(* While the target lives, its listed ids mean what they meant.  In the    *)
(* restore an id may come to mean another thread, but never a thread that  *)
(* was given a context at another id.                                      *)
(***************************************************************************)
EXTENDS ThreadContexts, FiniteSetTheorems, TLAPS

TargetLives == ThreadsOf("target") # {}

\* The listing of the live target, and what was captured from it.
CaptureInv ==
  pc \in {"capture", "resume"} /\ TargetLives =>
    /\ \A k \in DOMAIN list : who[list[k]].of = "target"
    /\ \A j, k \in DOMAIN list : j < k => who[list[j]].nth < who[list[k]].nth
    /\ old = {who[list[k]] : k \in DOMAIN list}
    /\ \A k \in DOMAIN saved : saved[k].of = "target"
    /\ \A j, k \in DOMAIN saved : j < k => saved[j].nth < saved[k].nth
    /\ \A k \in DOMAIN saved : \A j \in (at + 1)..Len(list) :
         saved[k].nth < who[list[j]].nth
    /\ ~disturbed => Len(saved) = at /\ \A k \in 1..at : saved[k] = who[list[k]]

\* In an undisturbed capture every context has the rank of its thread.
SavedInv ==
  Restoring /\ ~disturbed =>
    \A k \in DOMAIN saved : saved[k] \in old /\ Rank(saved[k], old) = k - 1

\* The listing of the new process.
ListInv ==
  pc = "restore" =>
    /\ \A j, k \in DOMAIN list : list[j] = list[k] => j = k
    /\ ~disturbed => \A k \in DOMAIN list :
         who[list[k]].of = "new" /\ who[list[k]] \in fresh
         /\ Rank(who[list[k]], fresh) = k - 1

\* Threads of the new process are numbered as they are created.
NewOnce ==
  \A t, u \in Tids : who[t] = who[u] /\ who[t].of = "new" => t = u

BornInv ==
  /\ NewOnce
  /\ \A t \in Tids : who[t].of = "new" => who[t].nth <= born
  /\ pc \in {"list", "capture", "resume", "saved"} => ThreadsOf("new") = {}

\* The thread of a context that was set has the id it was set at, if any.
PlacedAt(p, j) ==
  /\ j \in DOMAIN saved /\ j \in DOMAIN list
  /\ p.ctx = saved[j]
  /\ p.thread.of = "new" =>
       p.thread.nth <= born /\ \A t \in Tids : who[t] = p.thread => t = list[j]

PlacedInv ==
  /\ pc \notin {"restore", "done"} => placed = {}
  /\ pc = "list" => at = 0 /\ saved = << >>
  /\ \A p \in placed : \E j \in 1..at : PlacedAt(p, j)

IInv ==
  /\ TypeOK /\ CaptureInv /\ SavedInv /\ ListInv /\ BornInv /\ PlacedInv
  /\ CapturesAreOwn /\ NoContextTwice /\ MatchedUnlessDisturbed

-----------------------------------------------------------------------------
(* Identities of threads *)

Identity == Live \cup {Nobody, Dead}

LEMMA Identities ==
  /\ Nobody.of = "nobody" /\ Dead.of = "dead" /\ Other.of = "other"
  /\ \A p, n : Thread(p, n).of = p /\ Thread(p, n).nth = n
  /\ Other \in Live /\ \A n \in 1..MaxBorn : Thread("new", n) \in Live
  /\ \A x \in Identity : x.nth \in Nat
  /\ \A x \in Identity : x.of \notin {"nobody", "dead"} => x \in Live
  /\ \A x \in Identity : x.of = "new" => x = Thread("new", x.nth)
<1>1. Cardinality(Tids) \in Nat
  BY ThreadsAssumption, FS_CardinalityType
<1>2. ASSUME NEW x \in Identity
      PROVE  /\ x.nth \in Nat
             /\ x.of \notin {"nobody", "dead"} => x \in Live
             /\ x.of = "new" => x = Thread("new", x.nth)
  <2>1. CASE x \in {Nobody, Dead, Other}
    BY <2>1 DEF Nobody, Dead, Other, Thread, Live
  <2>2. CASE \E n \in 1..Cardinality(Tids) : x = Thread("target", n)
    BY <1>1, <2>2 DEF Thread, Live
  <2>3. CASE \E n \in 1..MaxBorn : x = Thread("new", n)
    BY ThreadsAssumption, <2>3 DEF Thread, Live
  <2> QED
    BY <2>1, <2>2, <2>3 DEF Identity, Live
<1> QED
  BY <1>2 DEF Nobody, Dead, Other, Thread, Live

\* What TypeOK says of the ids.
LEMMA Whoever ==
  ASSUME TypeOK
  PROVE  /\ \A t \in Tids : who[t] \in Identity /\ who[t].nth \in Nat
         /\ \A p \in {"target", "new", "other"} : \A t \in ThreadsOf(p) :
              who[t] \in Live
BY Identities DEF TypeOK, Identity, ThreadsOf

-----------------------------------------------------------------------------
(* Listings *)

\* In a sequence ordered by age, the rank of an element is its place.
LEMMA RankIsPlace ==
  ASSUME NEW n \in Nat, NEW l, DOMAIN l = 1..n,
         \A k \in 1..n : l[k].nth \in Nat,
         \A j, k \in 1..n : j < k => l[j].nth < l[k].nth,
         NEW k \in 1..n
  PROVE  Rank(l[k], {l[j] : j \in 1..n}) = k - 1
<1> DEFINE S == {y \in {l[j] : j \in 1..n} : y.nth < l[k].nth}
           f == [j \in 1..(k - 1) |-> l[j]]
<1>1. \A j \in 1..n : l[j].nth < l[k].nth <=> j < k
  OBVIOUS
<1>2. S = {l[j] : j \in 1..(k - 1)}
  BY <1>1
<1>3. f \in [1..(k - 1) -> S]
  BY <1>2
<1>4. \A i, j \in 1..(k - 1) : f[i] = f[j] => i = j
  <2> TAKE i, j \in 1..(k - 1)
  <2>1. i < j => l[i].nth < l[j].nth
    OBVIOUS
  <2>2. j < i => l[j].nth < l[i].nth
    OBVIOUS
  <2>3. l[i].nth \in Nat
    OBVIOUS
  <2> QED
    BY <2>1, <2>2, <2>3
<1>5. \A y \in S : \E j \in 1..(k - 1) : f[j] = y
  BY <1>2
<1>6. f \in Bijection(1..(k - 1), S)
  BY <1>3, <1>4, <1>5 DEF Bijection, Injection, Surjection, IsInjective
<1>7. Cardinality(S) = k - 1
  BY <1>6, FS_CountingElements DEF ExistsBijection
<1> QED
  BY <1>7 DEF Rank

\* A listing has each thread of the process once, and at its rank.
LEMMA ListingIsRanked ==
  ASSUME TypeOK, NEW p \in {"target", "new"}, NEW l \in Listings(p)
  PROVE  /\ l \in Seq(Tids)
         /\ \A k \in DOMAIN l : who[l[k]].of = p
         /\ \A j, k \in DOMAIN l : j < k => who[l[j]].nth < who[l[k]].nth
         /\ \A j, k \in DOMAIN l : l[j] = l[k] => j = k
         /\ {who[t] : t \in ThreadsOf(p)} = {who[l[k]] : k \in DOMAIN l}
         /\ \A k \in DOMAIN l :
              Rank(who[l[k]], {who[t] : t \in ThreadsOf(p)}) = k - 1
<1> DEFINE n == Cardinality(ThreadsOf(p))
           w == [k \in 1..n |-> who[l[k]]]
<1>1. n \in Nat
  BY ThreadsAssumption, FS_Subset, FS_CardinalityType DEF ThreadsOf
<1>2. /\ l \in [1..n -> Tids] /\ {l[k] : k \in 1..n} = ThreadsOf(p)
      /\ \A j, k \in 1..n : j < k => who[l[j]].nth < who[l[k]].nth
  BY DEF Listings
<1>3. \A k \in 1..n : who[l[k]].of = p /\ who[l[k]].nth \in Nat
  <2> TAKE k \in 1..n
  <2>1. l[k] \in ThreadsOf(p)
    BY <1>2
  <2> QED
    BY <2>1, Whoever DEF ThreadsOf
<1>4. \A j, k \in 1..n : l[j] = l[k] => j = k
  <2> TAKE j, k \in 1..n
  <2>1. who[l[j]].nth \in Nat
    BY <1>3
  <2> QED
    BY <1>1, <1>2, <2>1
<1>5. {who[t] : t \in ThreadsOf(p)} = {w[k] : k \in 1..n}
  BY <1>2
<1>6. \A k \in 1..n : Rank(w[k], {w[j] : j \in 1..n}) = k - 1
  <2>1. DOMAIN w = 1..n /\ \A k \in 1..n : w[k].nth \in Nat
    BY <1>3
  <2>2. \A j, k \in 1..n : j < k => w[j].nth < w[k].nth
    BY <1>2
  <2> HIDE DEF n, w
  <2> QED
    BY <1>1, <2>1, <2>2, RankIsPlace
<1>7. l \in Seq(Tids) /\ DOMAIN l = 1..n
  BY <1>1, <1>2
<1>8. {who[t] : t \in ThreadsOf(p)} = {who[l[k]] : k \in DOMAIN l}
  BY <1>5, <1>7
<1>9. \A k \in DOMAIN l : Rank(who[l[k]], {who[t] : t \in ThreadsOf(p)}) = k - 1
  BY <1>5, <1>6, <1>7
<1> QED
  BY <1>2, <1>3, <1>4, <1>7, <1>8, <1>9

-----------------------------------------------------------------------------
(* Types *)

\* A change of one id, to a thread or to nobody.
LEMMA TypeOfWho ==
  ASSUME TypeOK, NEW t \in Tids, NEW x \in Identity, who' = [who EXCEPT ![t] = x]
  PROVE  who' \in [Tids -> Live \cup {Nobody, Dead}]
BY DEF TypeOK, Identity

LEMMA TypeStep == TypeOK /\ PlacedInv /\ [Next]_vars => TypeOK'
<1> SUFFICES ASSUME TypeOK, PlacedInv, [Next]_vars PROVE TypeOK'
  OBVIOUS
<1> USE DEF Goto, Advance, system
<1>1. CASE ListTarget
  <2>1. list' \in Seq(Tids)
    BY <1>1, ListingIsRanked DEF ListTarget
  <2>2. old' \subseteq Live
    BY <1>1, Whoever DEF ListTarget
  <2>3. at = 0
    BY <1>1 DEF ListTarget, PlacedInv
  <2> QED
    BY <1>1, <2>1, <2>2, <2>3 DEF ListTarget, TypeOK
<1>2. CASE CaptureOne
  BY <1>2 DEF CaptureOne, TypeOK
<1>3. CASE CaptureFails \/ CaptureEnds \/ Resume
  <2>1. at' \in 0..Len(list)
    BY <1>3 DEF CaptureFails, CaptureEnds, Resume, TypeOK
  <2> QED
    BY <1>3, <2>1 DEF CaptureFails, CaptureEnds, Resume, TypeOK
<1>4. CASE Launch
  <2>1. PICK t \in Tids : who' = [who EXCEPT ![t] = Thread("new", 1)]
    BY <1>4 DEF Launch, ThreadsOf
  <2>2. Thread("new", 1) \in Identity
    BY Identities, ThreadsAssumption DEF Identity
  <2>3. who' \in [Tids -> Live \cup {Nobody, Dead}]
    BY <2>1, <2>2, TypeOfWho
  <2>4. born' \in 0..MaxBorn
    BY <1>4, ThreadsAssumption DEF Launch
  <2> QED
    BY <1>4, <2>3, <2>4 DEF Launch, TypeOK
<1>5. CASE ListNew
  <2>1. list' \in Seq(Tids)
    BY <1>5, ListingIsRanked DEF ListNew
  <2>2. fresh' \subseteq Live
    BY <1>5, Whoever DEF ListNew
  <2> QED
    BY <1>5, <2>1, <2>2 DEF ListNew, TypeOK
<1>6. CASE RestoreOne
  <2>1. saved[at + 1] \in Live /\ at' \in 0..Len(list)
    BY <1>6 DEF RestoreOne, Paired, TypeOK
  <2> QED
    BY <1>6, <2>1 DEF RestoreOne, Paired, TypeOK
<1>7. CASE RestoreOneFails \/ RestoreEnds
  <2>1. at' \in 0..Len(list)
    BY <1>7 DEF RestoreOneFails, RestoreEnds, Paired, TypeOK
  <2> QED
    BY <1>7, <2>1 DEF RestoreOneFails, RestoreEnds, Paired, TypeOK
<1>8. CASE TargetExits
  BY <1>8 DEF TargetExits, TypeOK
<1>9. CASE WorkerStarts
  <2>1. born + 1 \in 1..MaxBorn
    BY <1>9, ThreadsAssumption DEF WorkerStarts, TypeOK
  <2>2. who' \in [Tids -> Live \cup {Nobody, Dead}]
    BY <1>9, <2>1, TypeOfWho, Identities DEF WorkerStarts, Identity, ThreadsOf
  <2> QED
    BY <1>9, <2>1, <2>2 DEF WorkerStarts, TypeOK
<1>10. CASE WorkerEnds
  BY <1>10 DEF WorkerEnds, TypeOK
<1>11. CASE NewExits
  BY <1>11 DEF NewExits, TypeOK
<1>12. CASE OtherStarts \/ OtherEnds
  <2>1. who' \in [Tids -> Live \cup {Nobody, Dead}]
    BY <1>12, TypeOfWho, Identities DEF OtherStarts, OtherEnds, Identity, ThreadsOf
  <2> QED
    BY <1>12, <2>1 DEF OtherStarts, OtherEnds, TypeOK
<1>13. CASE ListTargetFails \/ ListNewFails
  BY <1>13 DEF ListTargetFails, ListNewFails, TypeOK
<1>14. CASE UNCHANGED vars
  BY <1>14 DEF vars, TypeOK
<1> QED
  BY <1>1, <1>2, <1>3, <1>4, <1>5, <1>6, <1>7, <1>8, <1>9, <1>10, <1>11, <1>12,
     <1>13, <1>14 DEF Next, Tool, System

-----------------------------------------------------------------------------
(* Steps of the system *)

\* The system does not take part in the listing, and nobody joins the target.
LEMMA SystemSteps ==
  ASSUME TypeOK, BornInv, System
  PROVE  /\ UNCHANGED <<pc, list, at, saved, placed, old, fresh>>
         /\ disturbed => disturbed'
         /\ TargetLives' => TargetLives /\ \A t \in ThreadsOf("target") : who'[t] = who[t]
         /\ pc = "restore" /\ ~disturbed' =>
              \A t \in ThreadsOf("new") : who'[t] = who[t]
         /\ born' >= born
         /\ \A t \in Tids : who'[t].of = "new" =>
              who'[t].nth <= born' /\ (who'[t] = who[t] \/ who'[t].nth > born)
         /\ ThreadsOf("new") = {} => ThreadsOf("new")' = {}
         /\ NewOnce'
<1> USE DEF TargetLives, ThreadsOf, system, NewOnce
<1>0. born \in Nat /\ who \in [Tids -> Identity] /\ disturbed \in BOOLEAN
  BY ThreadsAssumption DEF TypeOK, Identity
<1>1. CASE TargetExits
  BY <1>0, <1>1, Identities DEF TargetExits, BornInv
<1>2. CASE WorkerStarts
  <2>1. PICK t \in ThreadsOf("nobody") : who' = [who EXCEPT ![t] = Thread("new", born + 1)]
    BY <1>2 DEF WorkerStarts
  <2>2. born' = born + 1 /\ disturbed' = disturbed /\ ThreadsOf("new") # {}
    BY <1>2, Identities DEF WorkerStarts, NewRuns
  <2>3. \A u \in Tids : who'[u] = IF u = t THEN Thread("new", born + 1) ELSE who[u]
    BY <1>0, <2>1
  <2>4. NewOnce'
    <3>1. \A u \in Tids : who[u].of = "new" => who[u] # Thread("new", born + 1)
      BY <1>0, Identities DEF BornInv
    <3> QED
      BY <2>3, <3>1 DEF BornInv
  <2> QED
    BY <1>0, <1>2, <2>1, <2>2, <2>3, <2>4, Identities DEF WorkerStarts, BornInv
<1>3. CASE WorkerEnds
  <2>1. PICK t \in ThreadsOf("new") : who' = [who EXCEPT ![t] = Nobody]
    BY <1>3 DEF WorkerEnds
  <2>2. \A u \in Tids : who'[u] = IF u = t THEN Nobody ELSE who[u]
    BY <1>0, <2>1
  <2>3. disturbed' <=> disturbed \/ pc = "restore"
    BY <1>3 DEF WorkerEnds
  <2>4. UNCHANGED <<born, pc, list, at, saved, placed, old, fresh>>
    BY <1>3 DEF WorkerEnds
  <2> QED
    BY <1>0, <2>1, <2>2, <2>3, <2>4, Identities DEF BornInv
<1>4. CASE NewExits
  <2>1. \A u \in Tids : who'[u] = IF who[u].of # "new" THEN who[u]
                                 ELSE IF who[u] = Thread("new", 1) THEN Dead ELSE Nobody
    BY <1>0, <1>4, Identities DEF NewExits
  <2>2. disturbed' <=> disturbed \/ pc = "restore"
    BY <1>4 DEF NewExits
  <2>3. UNCHANGED <<born, pc, list, at, saved, placed, old, fresh>>
    BY <1>4 DEF NewExits
  <2> QED
    BY <1>0, <2>1, <2>2, <2>3, Identities DEF BornInv
<1>5. CASE OtherStarts \/ OtherEnds
  <2>1. PICK t \in Tids, x \in {Other, Nobody} :
          who' = [who EXCEPT ![t] = x] /\ who[t].of \in {"nobody", "other"}
    BY <1>5 DEF OtherStarts, OtherEnds
  <2>2. \A u \in Tids : who'[u] = IF u = t THEN x ELSE who[u]
    BY <1>0, <2>1
  <2> QED
    BY <1>0, <1>5, <2>1, <2>2, Identities DEF OtherStarts, OtherEnds, BornInv
<1> QED
  BY <1>1, <1>2, <1>3, <1>4, <1>5 DEF System

LEMMA SystemPreserves ==
  ASSUME IInv, System, TypeOK'
  PROVE  IInv'
<1> USE DEF IInv
<1>0. BornInv'
  BY SystemSteps DEF BornInv, ThreadsOf
<1>1. CaptureInv'
  <2> SUFFICES ASSUME pc \in {"capture", "resume"}, TargetLives' PROVE CaptureInv'
    BY SystemSteps DEF CaptureInv
  <2>1. TargetLives /\ \A k \in DOMAIN list : list[k] \in ThreadsOf("target")
    BY SystemSteps DEF CaptureInv, TypeOK, ThreadsOf
  <2>2. \A k \in DOMAIN list : who'[list[k]] = who[list[k]]
    BY <2>1, SystemSteps
  <2>3. at \in Nat /\ DOMAIN list = 1..Len(list) /\ at <= Len(list)
    BY DEF TypeOK
  <2>4. \A k \in 1..at : k \in DOMAIN list
    BY <2>3
  <2>5. \A k \in (at + 1)..Len(list) : k \in DOMAIN list
    BY <2>3
  <2> QED
    BY <2>1, <2>2, <2>4, <2>5, SystemSteps DEF CaptureInv
<1>2. SavedInv' /\ CapturesAreOwn'
  BY SystemSteps DEF SavedInv, CapturesAreOwn, Restoring
<1>3. ListInv'
  <2> SUFFICES ASSUME pc = "restore" PROVE ListInv'
    BY SystemSteps DEF ListInv
  <2>1. ASSUME ~disturbed', NEW k \in DOMAIN list
        PROVE  list[k] \in ThreadsOf("new") /\ who'[list[k]] = who[list[k]]
    BY <2>1, SystemSteps DEF ListInv, TypeOK, ThreadsOf
  <2> QED
    BY <2>1, SystemSteps DEF ListInv, ThreadsOf
<1>4. PlacedInv'
  <2>1. ASSUME NEW p \in placed, NEW j \in 1..at, PlacedAt(p, j) PROVE PlacedAt(p, j)'
    <3>1. p.thread.of = "new" => p.thread.nth \in Nat
      BY Identities DEF TypeOK, Identity
    <3>2. born \in Nat /\ born' \in Nat /\ born' >= born
      BY SystemSteps, ThreadsAssumption DEF TypeOK
    <3>3. ASSUME p.thread.of = "new", NEW t \in Tids, who'[t] = p.thread
          PROVE  t = list[j]
      BY <2>1, <3>1, <3>2, <3>3, SystemSteps DEF PlacedAt
    <3> QED
      BY <2>1, <3>1, <3>2, <3>3, SystemSteps DEF PlacedAt
  <2> QED
    BY <2>1, SystemSteps DEF PlacedInv
<1>5. NoContextTwice' /\ MatchedUnlessDisturbed'
  BY SystemSteps DEF NoContextTwice, MatchedUnlessDisturbed, MatchedByCreationOrder
<1> QED
  BY <1>0, <1>1, <1>2, <1>3, <1>4, <1>5

-----------------------------------------------------------------------------
(* Steps of the tool *)

\* A capture, good or not, keeps what is known of a live target.
LEMMA CapturePreserves ==
  ASSUME IInv, ListTarget \/ CaptureOne \/ CaptureFails \/ CaptureEnds
  PROVE  CaptureInv'
<1> USE DEF IInv, CaptureInv, Goto, Advance, system, TargetLives, ThreadsOf
<1>1. CASE ListTarget
  <2>1. saved = << >> /\ at = 0
    BY <1>1 DEF ListTarget, PlacedInv
  <2>2. list' \in Listings("target") /\ who' = who /\ saved' = << >> /\ at' = 0
        /\ old' = {who[t] : t \in ThreadsOf("target")}
    BY <1>1, <2>1 DEF ListTarget
  <2>3. /\ list' \in Seq(Tids) /\ \A k \in DOMAIN list' : who[list'[k]].of = "target"
        /\ \A j, k \in DOMAIN list' : j < k => who[list'[j]].nth < who[list'[k]].nth
        /\ old' = {who[list'[k]] : k \in DOMAIN list'}
    BY <2>2, ListingIsRanked
  <2>4. DOMAIN saved' = {} /\ Len(saved') = at' /\ \A k \in 1..at' : FALSE
    BY <2>2
  <2> QED
    BY <2>2, <2>3, <2>4
<1>2. CASE CaptureOne
  <2> SUFFICES ASSUME TargetLives PROVE CaptureInv'
    BY <1>2 DEF CaptureOne
  <2>1. /\ at + 1 \in DOMAIN list /\ who[list[at + 1]].of = "target"
        /\ saved' = Append(saved, who[list[at + 1]])
    BY <1>2 DEF CaptureOne, TypeOK
  <2>2. /\ Len(saved') = Len(saved) + 1 /\ saved'[Len(saved')] = who[list[at + 1]]
        /\ \A k \in 1..Len(saved) : saved'[k] = saved[k]
    BY <2>1 DEF TypeOK
  <2>3. \A k \in DOMAIN saved : saved[k].nth < who[list[at + 1]].nth
    BY <1>2, <2>1 DEF CaptureOne, TypeOK
  <2>4. ASSUME NEW j \in (at + 2)..Len(list)
        PROVE  who[list[at + 1]].nth < who[list[j]].nth /\ j \in (at + 1)..Len(list)
    <3>1. j \in DOMAIN list /\ at + 1 < j /\ j \in (at + 1)..Len(list)
      BY DEF TypeOK
    <3> QED
      BY <1>2, <2>1, <3>1 DEF CaptureOne
  <2>5. \A k \in DOMAIN saved' : saved'[k].of = "target"
    BY <1>2, <2>1, <2>2 DEF CaptureOne, TypeOK
  <2>6. \A j, k \in DOMAIN saved' : j < k => saved'[j].nth < saved'[k].nth
    BY <1>2, <2>2, <2>3 DEF CaptureOne, TypeOK
  <2>7. \A k \in DOMAIN saved' : \A j \in (at + 2)..Len(list) :
          saved'[k].nth < who[list[j]].nth
    BY <1>2, <2>2, <2>4 DEF CaptureOne, TypeOK
  <2>8. ~disturbed => Len(saved') = at + 1 /\ \A k \in 1..(at + 1) : saved'[k] = who[list[k]]
    BY <1>2, <2>2 DEF CaptureOne, TypeOK
  <2>9. at' = at + 1 /\ (at + 1) + 1 = at + 2
    BY <1>2 DEF CaptureOne, TypeOK
  <2> QED
    BY <1>2, <2>5, <2>6, <2>7, <2>8, <2>9 DEF CaptureOne
<1>3. CASE CaptureFails
  <2>1. at' = at + 1 /\ disturbed' /\ UNCHANGED <<who, pc, list, saved, old>> /\ pc = "capture"
    BY <1>3 DEF CaptureFails
  <2>2. \A j \in (at' + 1)..Len(list) : j \in (at + 1)..Len(list)
    BY <2>1 DEF TypeOK
  <2> QED
    BY <2>1, <2>2
<1>4. CASE CaptureEnds
  BY <1>4 DEF CaptureEnds
<1> QED
  BY <1>1, <1>2, <1>3, <1>4

\* A context that is set: this thread and this context are new in placed.
LEMMA RestorePreserves ==
  ASSUME IInv, RestoreOne
  PROVE  (PlacedInv /\ NoContextTwice /\ MatchedUnlessDisturbed)'
<1> USE DEF IInv, Goto, Advance, system
<1>0. \E x, y : x = [ctx |-> saved[at + 1], thread |-> who[list[at + 1]]] /\ y = at + 1
  OBVIOUS
<1> PICK r, i : r = [ctx |-> saved[at + 1], thread |-> who[list[at + 1]]] /\ i = at + 1
  BY <1>0
<1>1. /\ pc = "restore" /\ pc' = pc /\ at' = at + 1 /\ placed' = placed \cup {r}
      /\ UNCHANGED <<who, born, list, saved, old, fresh, disturbed>>
      /\ at + 1 \in DOMAIN list /\ at + 1 \in DOMAIN saved /\ at \in Nat
      /\ list[at + 1] \in Tids
  BY DEF RestoreOne, Paired, TypeOK
<1>2. PlacedAt(r, i)'
  <2>1. ASSUME NEW t \in Tids, who[t] = who[list[at + 1]], who[t].of = "new"
        PROVE  t = list[at + 1]
    BY <1>1, <2>1 DEF BornInv, NewOnce
  <2> QED
    BY <1>1, <2>1 DEF PlacedAt, BornInv
<1>3. ASSUME NEW p \in placed, NEW j \in 1..at, PlacedAt(p, j)
      PROVE  /\ PlacedAt(p, j)'
             /\ p.ctx # r.ctx
             /\ p.thread.of = "new" => p.thread # r.thread
  <2>1. PlacedAt(p, j)'
    BY <1>1, <1>3 DEF PlacedAt
  <2>2. p.ctx # r.ctx
    <3>1. j < at + 1 /\ saved[j].nth < saved[at + 1].nth /\ saved[j] \in Live
      BY <1>1, <1>3 DEF PlacedAt, CapturesAreOwn, Restoring, TypeOK
    <3>2. saved[j].nth \in Nat
      BY <3>1, ThreadsAssumption, FS_CardinalityType DEF Live, Other, Thread
    <3> QED
      BY <1>3, <3>1, <3>2 DEF PlacedAt
  <2>3. p.thread.of = "new" => p.thread # r.thread
    BY <1>1, <1>3 DEF PlacedAt, ListInv
  <2> QED
    BY <2>1, <2>2, <2>3
<1>4. PlacedInv'
  <2>1. ASSUME NEW p \in placed PROVE \E j \in 1..at' : PlacedAt(p, j)'
    BY <1>1, <1>3 DEF PlacedInv
  <2> QED
    <3>1. i \in 1..at'
      BY <1>1
    <3> QED
      BY <1>1, <1>2, <2>1, <3>1 DEF PlacedInv
<1>5. NoContextTwice'
  BY <1>1, <1>3 DEF NoContextTwice, PlacedInv
<1>6. MatchedUnlessDisturbed'
  BY <1>1 DEF MatchedUnlessDisturbed, MatchedByCreationOrder, SavedInv, ListInv, Restoring
<1> QED
  BY <1>4, <1>5, <1>6

LEMMA ToolPreserves ==
  ASSUME IInv, Tool, TypeOK'
  PROVE  IInv'
<1> USE DEF IInv, Goto, Advance, system
<1>1. CASE ListTarget \/ CaptureOne \/ CaptureFails \/ CaptureEnds
  <2>1. CaptureInv'
    BY <1>1, CapturePreserves
  <2>2. placed = {} /\ placed' = {} /\ pc \in {"list", "capture"} /\ pc' \in {"capture", "resume"}
        /\ UNCHANGED <<who, born>>
    BY <1>1 DEF ListTarget, CaptureOne, CaptureFails, CaptureEnds, PlacedInv
  <2> QED
    BY <2>1, <2>2 DEF SavedInv, ListInv, BornInv, NewOnce, PlacedInv, CapturesAreOwn,
       Restoring, NoContextTwice, MatchedUnlessDisturbed, MatchedByCreationOrder, ThreadsOf
<1>2. CASE Resume
  <2>1. placed = {} /\ placed' = {} /\ pc' \in {"saved", "failed"}
        /\ UNCHANGED <<who, born, list, at, saved, old, disturbed>>
    BY <1>2 DEF Resume, PlacedInv
  <2>2. ASSUME pc' = "saved" PROVE CapturesAreOwn' /\ SavedInv'
    <3>1. TargetLives
      BY <1>2, <2>2 DEF Resume, TargetLives
    <3>2. /\ \A k \in DOMAIN list : who[list[k]].of = "target" /\ who[list[k]].nth \in Nat
          /\ \A j, k \in DOMAIN list : j < k => who[list[j]].nth < who[list[k]].nth
          /\ old = {who[list[k]] : k \in DOMAIN list}
          /\ DOMAIN list = 1..Len(list) /\ Len(list) \in Nat
      <4>1. \A k \in DOMAIN list : list[k] \in Tids
        BY DEF TypeOK
      <4>2. \A k \in DOMAIN list : who[list[k]].nth \in Nat
        BY <4>1, Whoever
      <4>3. DOMAIN list = 1..Len(list) /\ Len(list) \in Nat
        BY DEF TypeOK
      <4> QED
        BY <1>2, <3>1, <4>2, <4>3 DEF Resume, CaptureInv
    <3>3. \A k \in DOMAIN list : Rank(who[list[k]], old) = k - 1
      <4> DEFINE n == Len(list)
                 w == [k \in 1..n |-> who[list[k]]]
      <4>1. /\ n \in Nat /\ DOMAIN w = 1..n /\ \A k \in 1..n : w[k].nth \in Nat
            /\ \A j, k \in 1..n : j < k => w[j].nth < w[k].nth
        BY <3>2
      <4>2. old = {w[j] : j \in 1..n} /\ \A k \in DOMAIN list : k \in 1..n /\ w[k] = who[list[k]]
        BY <3>2
      <4> HIDE DEF n, w
      <4>3. \A k \in 1..n : Rank(w[k], {w[j] : j \in 1..n}) = k - 1
        BY <4>1, RankIsPlace
      <4> QED
        BY <4>2, <4>3
    <3>4. ~disturbed => \A k \in DOMAIN saved : k \in DOMAIN list /\ saved[k] = who[list[k]]
      BY <1>2, <3>1 DEF Resume, CaptureInv, TypeOK
    <3>5. CapturesAreOwn'
      BY <1>2, <2>1, <3>1 DEF Resume, CaptureInv, CapturesAreOwn
    <3>6. \A k \in DOMAIN list : who[list[k]] \in old
      BY <3>2
    <3>7. ~disturbed => \A k \in DOMAIN saved : saved[k] \in old /\ Rank(saved[k], old) = k - 1
      BY <3>3, <3>4, <3>6
    <3>8. ~disturbed => \A k \in DOMAIN saved : saved[k] \in old /\ Rank(saved[k], old)' = k - 1
      BY <2>1, <3>7 DEF Rank
    <3> QED
      BY <2>1, <3>5, <3>8 DEF SavedInv
  <2>3. CapturesAreOwn' /\ SavedInv'
    BY <2>1, <2>2 DEF CapturesAreOwn, SavedInv, Restoring
  <2> QED
    BY <1>2, <2>1, <2>3 DEF Resume, CaptureInv, ListInv, BornInv, NewOnce, PlacedInv,
       NoContextTwice, MatchedUnlessDisturbed, MatchedByCreationOrder, ThreadsOf
<1>3. CASE Launch
  <2>1. placed = {} /\ placed' = {} /\ pc = "saved" /\ pc' = "listnew" /\ born' = 1
        /\ UNCHANGED <<list, at, saved, old, disturbed>>
    BY <1>3 DEF Launch, PlacedInv
  <2>2. PICK t \in ThreadsOf("nobody") : who' = [who EXCEPT ![t] = Thread("new", 1)]
    BY <1>3 DEF Launch
  <2>3. \A u \in Tids : who'[u] = IF u = t THEN Thread("new", 1) ELSE who[u]
    BY <2>2 DEF TypeOK
  <2>4. \A u \in Tids : who[u].of # "new"
    BY <2>1 DEF BornInv, ThreadsOf
  <2>5. BornInv'
    BY <2>1, <2>3, <2>4, Identities DEF BornInv, NewOnce
  <2> QED
    BY <2>1, <2>5 DEF CaptureInv, SavedInv, ListInv, PlacedInv, CapturesAreOwn, Restoring,
       NoContextTwice, MatchedUnlessDisturbed, MatchedByCreationOrder
<1>4. CASE ListNew
  <2>1. /\ placed = {} /\ placed' = {} /\ pc = "listnew" /\ pc' \in {"restore", "failed"}
        /\ UNCHANGED <<who, born, saved, old, disturbed>>
    BY <1>4 DEF ListNew, PlacedInv
  <2>2. list' \in Listings("new") /\ fresh' = {who[t] : t \in ThreadsOf("new")}
    BY <1>4 DEF ListNew
  <2>3. /\ \A k \in DOMAIN list' : who[list'[k]].of = "new"
        /\ \A j, k \in DOMAIN list' : list'[j] = list'[k] => j = k
        /\ fresh' = {who[list'[k]] : k \in DOMAIN list'}
        /\ \A k \in DOMAIN list' : Rank(who[list'[k]], fresh') = k - 1
    BY <2>2, ListingIsRanked
  <2>4. ListInv'
    BY <2>1, <2>3 DEF ListInv
  <2> QED
    BY <2>1, <2>4 DEF CaptureInv, SavedInv, BornInv, NewOnce, PlacedInv, CapturesAreOwn,
       Restoring, NoContextTwice, MatchedUnlessDisturbed, MatchedByCreationOrder, ThreadsOf
<1>5. CASE RestoreOne
  <2>1. /\ pc = "restore" /\ pc' = pc
        /\ UNCHANGED <<who, born, list, saved, old, fresh, disturbed>>
    BY <1>5 DEF RestoreOne, Paired
  <2> QED
    BY <1>5, <2>1, RestorePreserves DEF CaptureInv, SavedInv, ListInv, BornInv,
       NewOnce, CapturesAreOwn, Restoring, ThreadsOf
<1>6. CASE RestoreOneFails \/ RestoreEnds
  <2>1. /\ pc = "restore" /\ pc' \in {"restore", "done", "failed"} /\ at' \in Nat /\ at' >= at
        /\ pc' = "failed" => placed = {}
        /\ UNCHANGED <<who, born, list, saved, placed, old, fresh, disturbed>>
    BY <1>6 DEF RestoreOneFails, RestoreEnds, Paired, TypeOK
  <2>2. PlacedInv'
    BY <2>1 DEF PlacedInv, PlacedAt, TypeOK
  <2> QED
    BY <2>1, <2>2 DEF CaptureInv, SavedInv, ListInv, BornInv, NewOnce, CapturesAreOwn,
       Restoring, NoContextTwice, MatchedUnlessDisturbed, MatchedByCreationOrder, ThreadsOf
<1>7. CASE ListTargetFails \/ ListNewFails
  <2>1. /\ placed = {} /\ pc' = "failed"
        /\ UNCHANGED <<who, born, list, at, saved, placed, old, fresh, disturbed>>
    BY <1>7 DEF ListTargetFails, ListNewFails, PlacedInv
  <2> QED
    BY <1>7, <2>1 DEF ListTargetFails, ListNewFails, CaptureInv, SavedInv, ListInv, BornInv,
       NewOnce, PlacedInv, CapturesAreOwn, Restoring, NoContextTwice, MatchedUnlessDisturbed,
       MatchedByCreationOrder, ThreadsOf
<1> QED
  BY <1>1, <1>2, <1>3, <1>4, <1>5, <1>6, <1>7 DEF Tool

LEMMA Inductive == Spec => []IInv
<1>1. Init => IInv
  <2> SUFFICES ASSUME Init PROVE IInv
    OBVIOUS
  <2> PICK n \in 1..Cardinality(Tids) : \E l \in [1..n -> Tids] :
        who = [t \in Tids |-> IF \E k \in 1..n : l[k] = t
                              THEN Thread("target", CHOOSE k \in 1..n : l[k] = t)
                              ELSE Nobody]
    BY DEF Init
  <2> PICK l \in [1..n -> Tids] :
        who = [t \in Tids |-> IF \E k \in 1..n : l[k] = t
                              THEN Thread("target", CHOOSE k \in 1..n : l[k] = t)
                              ELSE Nobody]
    OBVIOUS
  <2>1. Cardinality(Tids) \in Nat
    BY ThreadsAssumption, FS_CardinalityType
  <2>2. \A t \in Tids : who[t] = Nobody \/ \E k \in 1..n : who[t] = Thread("target", k)
    OBVIOUS
  <2>3. \A k \in 1..n : Thread("target", k) \in Live
    BY <2>1 DEF Live
  <2>4. TypeOK
    <3>1. who \in [Tids -> Live \cup {Nobody, Dead}]
      BY <2>2, <2>3
    <3>2. /\ born = 0 /\ pc = "list" /\ list = << >> /\ at = 0 /\ saved = << >>
          /\ placed = {} /\ old = {} /\ fresh = {} /\ disturbed = FALSE
      BY DEF Init
    <3> QED
      <4>1. list \in Seq(Tids) /\ at \in 0..Len(list) /\ saved \in Seq(Live)
        BY <3>2
      <4>2. born \in 0..MaxBorn
        BY <3>2, ThreadsAssumption
      <4> QED
        BY <3>1, <3>2, <4>1, <4>2 DEF TypeOK
  <2>5. ThreadsOf("new") = {}
    BY <2>2 DEF ThreadsOf, Nobody, Thread
  <2> QED
    BY <2>4, <2>5 DEF Init, IInv, CaptureInv, SavedInv, ListInv, BornInv, PlacedInv,
       NewOnce, CapturesAreOwn, Restoring, NoContextTwice,
       MatchedUnlessDisturbed, MatchedByCreationOrder, ThreadsOf
<1>2. IInv /\ [Next]_vars => IInv'
  <2> SUFFICES ASSUME IInv, [Next]_vars PROVE IInv'
    OBVIOUS
  <2>1. TypeOK'
    BY TypeStep DEF IInv
  <2>2. CASE UNCHANGED vars
    BY <2>2 DEF vars, system, IInv, TypeOK, CaptureInv, SavedInv, ListInv, BornInv,
       PlacedInv, PlacedAt, NewOnce, CapturesAreOwn, Restoring, NoContextTwice,
       MatchedUnlessDisturbed, MatchedByCreationOrder, ThreadsOf, TargetLives
  <2> QED
    BY <2>1, <2>2, SystemPreserves, ToolPreserves DEF Next
<1> QED
  BY <1>1, <1>2, PTL DEF Spec

-----------------------------------------------------------------------------
(* The properties *)

\* Every variable keeps its type: neither loop goes past its list.
THEOREM TypeCorrect == Spec => []TypeOK
<1>1. IInv => TypeOK
  BY DEF IInv
<1> QED
  BY <1>1, Inductive, PTL

\* A snapshot that gets written has contexts of the target's threads only,
\* whatever became of the ids while they were captured.
THEOREM SnapshotsHaveOwnThreads == Spec => []CapturesAreOwn
<1>1. IInv => CapturesAreOwn
  BY DEF IInv
<1> QED
  BY <1>1, Inductive, PTL

\* No context goes to two threads of the new process, no thread gets two.
THEOREM ContextsAreSetOnce == Spec => []NoContextTwice
<1>1. IInv => NoContextTwice
  BY DEF IInv
<1> QED
  BY <1>1, Inductive, PTL

\* Without a failed capture and without a listed thread that ended, threads are
\* matched by order of creation.
THEOREM UndisturbedThreadsMatch == Spec => []MatchedUnlessDisturbed
<1>1. IInv => MatchedUnlessDisturbed
  BY DEF IInv
<1> QED
  BY <1>1, Inductive, PTL

-----------------------------------------------------------------------------
(* The main thread of the new process *)

MainThread == Thread("new", 1)

\* The listing has it first, if at all; nobody becomes it later.
MainInv ==
  pc = "restore" => \A k \in DOMAIN list : who[list[k]] = MainThread => k = 1

\* It is given the first context of the snapshot, or none.
MainGetsFirst ==
  \A p \in placed : p.thread = MainThread => p.ctx = saved[1]

\* No step of the system makes a thread the main thread.
LEMMA MainIsNotMade ==
  ASSUME IInv, System, NEW t \in Tids, who'[t] = MainThread
  PROVE  who[t] = MainThread
<1> USE DEF IInv, TypeOK, MainThread, Thread
<1>1. CASE TargetExits
  BY <1>1 DEF TargetExits, Nobody
<1>2. CASE WorkerStarts
  <2>1. born \in Nat /\ born >= 1
    <3>1. PICK u \in Tids : who[u] = Thread("new", 1)
      BY <1>2 DEF WorkerStarts, NewRuns
    <3>2. who[u].of = "new" /\ who[u].nth = 1
      BY <3>1
    <3> QED
      BY <3>2, ThreadsAssumption DEF BornInv
  <2>2. PICK u \in Tids : who' = [who EXCEPT ![u] = Thread("new", born + 1)]
    BY <1>2 DEF WorkerStarts, ThreadsOf
  <2>3. Thread("new", born + 1).nth # MainThread.nth
    BY <2>1
  <2> QED
    BY <2>2, <2>3
<1>3. CASE WorkerEnds
  BY <1>3 DEF WorkerEnds, ThreadsOf, Nobody
<1>4. CASE NewExits
  BY <1>4 DEF NewExits, Nobody, Dead
<1>5. CASE OtherStarts \/ OtherEnds
  BY <1>5 DEF OtherStarts, OtherEnds, ThreadsOf, Nobody, Other
<1> QED
  BY <1>1, <1>2, <1>3, <1>4, <1>5 DEF System

\* In a listing of the new process the main thread comes first.
LEMMA MainIsListedFirst ==
  ASSUME TypeOK, NEW l \in Listings("new"), NEW k \in DOMAIN l, who[l[k]] = MainThread
  PROVE  k = 1
<1>1. /\ l \in Seq(Tids) /\ \A j \in DOMAIN l : who[l[j]].of = "new"
      /\ \A j, i \in DOMAIN l : j < i => who[l[j]].nth < who[l[i]].nth
  BY ListingIsRanked
<1>2. DOMAIN l = 1..Len(l) /\ Len(l) \in Nat /\ \A j \in DOMAIN l : l[j] \in Tids
  BY <1>1
<1>3. ASSUME k # 1 PROVE FALSE
  <2>1. 1 \in DOMAIN l /\ 1 < k
    BY <1>2, <1>3
  <2>2. who[l[1]].nth < 1
    BY <1>1, <2>1 DEF MainThread, Thread
  <2>3. who[l[1]].of = "new" /\ l[1] \in Tids
    BY <1>1, <1>2, <2>1
  <2>4. who[l[1]] \in Live \cup {Nobody, Dead}
    BY <2>3 DEF TypeOK
  <2>5. who[l[1]].nth \in 1..MaxBorn
    <3>1. \A x \in Live \cup {Nobody, Dead} : x.of = "new" => x.nth \in 1..MaxBorn
      BY DEF Live, Nobody, Dead, Other, Thread
    <3> QED
      BY <2>3, <2>4, <3>1
  <2> QED
    BY <2>2, <2>5, ThreadsAssumption
<1> QED
  BY <1>3

\* Whatever captures fail, whatever threads come and go, and whoever gets their
\* ids, the main thread of the new process never goes on from the context of a
\* thread behind the first one captured: the creation order of the README
\* holds for it without a condition on the other threads.
THEOREM MainThreadIsFirst == Spec => []MainGetsFirst
<1>1. Init => MainInv /\ MainGetsFirst
  BY DEF Init, MainInv, MainGetsFirst
<1>2. IInv /\ IInv' /\ MainInv /\ MainGetsFirst /\ [Next]_vars => (MainInv /\ MainGetsFirst)'
  <2> SUFFICES ASSUME IInv, MainInv, MainGetsFirst, IInv', [Next]_vars
               PROVE  (MainInv /\ MainGetsFirst)'
    OBVIOUS
  <2>1. CASE System
    <3>1. UNCHANGED <<pc, list, saved, placed>>
      BY <2>1 DEF System, TargetExits, WorkerStarts, WorkerEnds, NewExits, OtherStarts, OtherEnds
    <3>2. \A k \in DOMAIN list : list[k] \in Tids
      BY DEF IInv, TypeOK
    <3> QED
      BY <2>1, <3>1, <3>2, MainIsNotMade DEF MainInv, MainGetsFirst
  <2>2. CASE ListNew
    <3>1. list' \in Listings("new") /\ UNCHANGED <<who, saved, placed>>
      BY <2>2 DEF ListNew, system
    <3>2. \A k \in DOMAIN list' : who[list'[k]] = MainThread => k = 1
      BY <3>1, MainIsListedFirst DEF IInv
    <3> QED
      BY <3>1, <3>2 DEF MainInv, MainGetsFirst
  <2>3. CASE RestoreOne
    <3>1. /\ pc = "restore" /\ at + 1 \in DOMAIN list /\ UNCHANGED <<who, pc, list, saved>>
          /\ placed' = placed \cup {[ctx |-> saved[at + 1], thread |-> who[list[at + 1]]]}
      BY <2>3 DEF RestoreOne, Paired, system, IInv, TypeOK
    <3>2. who[list[at + 1]] = MainThread => saved[at + 1] = saved[1]
      BY <3>1 DEF MainInv
    <3> QED
      BY <3>1, <3>2 DEF MainInv, MainGetsFirst
  <2>4. CASE \/ ListTarget \/ ListTargetFails \/ CaptureOne \/ CaptureFails \/ CaptureEnds
             \/ Resume \/ Launch \/ ListNewFails
    <3>1. placed' = {} /\ pc' # "restore"
      BY <2>4 DEF ListTarget, ListTargetFails, CaptureOne, CaptureFails, CaptureEnds, Resume,
                  Launch, ListNewFails, Goto, IInv, PlacedInv
    <3> QED
      BY <3>1 DEF MainInv, MainGetsFirst
  <2>5. CASE RestoreOneFails \/ RestoreEnds \/ UNCHANGED vars
    <3>1. UNCHANGED <<who, list, saved, placed>> /\ (pc' = "restore" => pc = "restore")
      BY <2>5 DEF RestoreOneFails, RestoreEnds, Goto, system, vars
    <3> QED
      BY <3>1 DEF MainInv, MainGetsFirst
  <2> QED
    BY <2>1, <2>2, <2>3, <2>4, <2>5 DEF Next, Tool
<1> QED
  BY <1>1, <1>2, Inductive, PTL DEF Spec

-----------------------------------------------------------------------------
(* How much is left to do *)

\* A listing has no more entries than there are ids.
ListBound == Len(list) <= Cardinality(Tids)

LEMMA ListsAreBounded == Spec => []ListBound
<1>1. Init => ListBound
  BY ThreadsAssumption, FS_CardinalityType DEF Init, ListBound
<1>2. ListBound /\ [Next]_vars => ListBound'
  <2> SUFFICES ASSUME ListBound, [Next]_vars PROVE ListBound'
    OBVIOUS
  <2>1. \A p, l : l \in Listings(p) => Len(l) <= Cardinality(Tids)
    <3> SUFFICES ASSUME NEW p, NEW l \in Listings(p) PROVE Len(l) <= Cardinality(Tids)
      OBVIOUS
    <3>1. /\ Cardinality(ThreadsOf(p)) \in Nat
          /\ Cardinality(ThreadsOf(p)) <= Cardinality(Tids)
      BY ThreadsAssumption, FS_Subset, FS_CardinalityType DEF ThreadsOf
    <3>2. l \in [1..Cardinality(ThreadsOf(p)) -> Tids]
      BY DEF Listings
    <3>3. Len(l) = Cardinality(ThreadsOf(p))
      BY <3>1, <3>2
    <3> QED
      BY <3>1, <3>3
  <2>2. CASE ListTarget \/ ListNew
    BY <2>1, <2>2 DEF ListTarget, ListNew, ListBound
  <2>3. CASE ~(ListTarget \/ ListNew)
    <3>1. list' = list
      BY <2>3 DEF Next, Tool, System, vars, ListTargetFails, ListNewFails, CaptureOne,
                  CaptureFails, CaptureEnds, Resume, Launch, RestoreOne, RestoreOneFails,
                  RestoreEnds, TargetExits, WorkerStarts, WorkerEnds, NewExits, OtherStarts,
                  OtherEnds
    <3> QED
      BY <3>1 DEF ListBound
  <2> QED
    BY <2>2, <2>3
<1> QED
  BY <1>1, <1>2, PTL DEF Spec

\* The most steps that the two loops, and what is around them, can still take.
StepsLeft ==
  LET n == Cardinality(Tids) IN
  CASE pc = "list" -> 2 * n + 6
    [] pc = "capture" -> Len(list) - at + n + 5
    [] pc = "resume" -> n + 4
    [] pc = "saved" -> n + 3
    [] pc = "listnew" -> n + 2
    [] pc = "restore" -> Len(list) - at + 1
    [] pc \in {"done", "failed"} -> 0

\* Every step of the capture and the restore of contexts brings their end nearer,
\* and no thread that comes or goes puts it off.
THEOREM ThreadLoopsAreBounded ==
  Spec => [][/\ StepsLeft' \in 0..StepsLeft
             /\ Tool => StepsLeft' < StepsLeft]_vars
<1> DEFINE Nearer == /\ StepsLeft' \in 0..StepsLeft
                     /\ Tool => StepsLeft' < StepsLeft
<1>1. ASSUME TypeOK, TypeOK', ListBound, ListBound', PlacedInv, Next PROVE Nearer
  <2> DEFINE n == Cardinality(Tids)
  <2>1. /\ n \in Nat /\ Len(list) \in 0..n /\ Len(list)' \in 0..n
        /\ at \in 0..Len(list) /\ at' \in 0..Len(list')
    BY <1>1, ThreadsAssumption, FS_CardinalityType DEF TypeOK, ListBound
  <2>2. StepsLeft \in Nat /\ StepsLeft' \in Nat
    <3>1. /\ pc \in {"list", "capture", "resume", "saved", "listnew", "restore", "done", "failed"}
          /\ pc' \in {"list", "capture", "resume", "saved", "listnew", "restore", "done", "failed"}
      BY <1>1 DEF TypeOK
    <3>2. /\ Len(list) - at + n + 5 \in Nat /\ Len(list) - at + 1 \in Nat
          /\ Len(list') - at' + n + 5 \in Nat /\ Len(list') - at' + 1 \in Nat
          /\ 2 * n + 6 \in Nat /\ n + 4 \in Nat /\ n + 3 \in Nat /\ n + 2 \in Nat
      <4> HIDE DEF n
      <4> QED
        BY <2>1
    <3>3. StepsLeft \in Nat
      BY <3>1, <3>2, Zenon DEF StepsLeft
    <3>4. StepsLeft' \in Nat
      BY <3>1, <3>2, Zenon DEF StepsLeft
    <3> QED
      BY <3>3, <3>4
  <2>3. CASE Tool
    <3>1. StepsLeft' < StepsLeft
      BY <1>1, <2>1, <2>3
      DEF Tool, ListTarget, ListTargetFails, CaptureOne, CaptureFails, CaptureEnds, Resume,
          Launch, ListNew, ListNewFails, RestoreOne, RestoreOneFails, RestoreEnds, Paired, Goto,
          Advance, StepsLeft, PlacedInv
    <3> QED
      BY <2>2, <3>1
  <2>4. CASE ~Tool
    <3>1. UNCHANGED <<pc, list, at>>
      BY <1>1, <2>4 DEF Next, System, TargetExits, WorkerStarts, WorkerEnds, NewExits, OtherStarts,
                        OtherEnds
    <3>2. StepsLeft' = StepsLeft
      BY <3>1 DEF StepsLeft
    <3> QED
      BY <2>2, <2>4, <3>2
  <2> QED
    BY <2>3, <2>4
<1>2. IInv /\ TypeOK' /\ ListBound /\ ListBound' /\ [Next]_vars => [Nearer]_vars
  BY <1>1 DEF IInv
<1> QED
  BY <1>2, Inductive, ListsAreBounded, TypeCorrect, PTL DEF Spec

=============================================================================
