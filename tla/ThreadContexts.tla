--------------------------- MODULE ThreadContexts ---------------------------
(***************************************************************************)
(* capture_thread_contexts (snapshot/threads.rs) and                       *)
(* restore_thread_contexts (restore/threads.rs) over the thread ids of one *)
(* system: a listing gives ids, and every id is opened later, when it may  *)
(* be another thread's.                                                    *)
(*                                                                         *)
(* The target is suspended while it is captured, but it may be terminated. *)
(* Of the new process only the main thread is suspended: its workers come  *)
(* and go while contexts are set.                                          *)
(* A thread, and the context taken from it, is its process and its place   *)
(* in the order of creation.  Toolhelp lists threads in that order.        *)
(*                                                                         *)
(* MaxBorn bounds the threads the new process creates.                     *)
(***************************************************************************)
EXTENDS Naturals, Sequences, FiniteSets

CONSTANTS Tids, MaxBorn

ASSUME ThreadsAssumption == IsFiniteSet(Tids) /\ MaxBorn \in Nat \ {0}

VARIABLES
  who,          \* who[t]: the thread whose id is t
  born,         \* threads the new process has created
  pc,           \* what the tool does next
  list,         \* the ids it has listed
  at,           \* how many of them it is done with
  saved,        \* the contexts of the snapshot
  placed,       \* history: [ctx, thread] for every context that was set
  old, fresh,   \* history: the threads listed, of the target and the new process
  disturbed     \* history: a capture failed, or a listed thread ended

system == <<who, born>>
vars == <<system, pc, list, at, saved, placed, old, fresh, disturbed>>

Thread(p, n) == [of |-> p, nth |-> n]
Nobody == Thread("nobody", 0)
Other == Thread("other", 0)           \* a thread of any third process
Dead == Thread("dead", 0)             \* ended, but its id is reserved
Live ==
  {Other} \cup {Thread("target", n) : n \in 1..Cardinality(Tids)}
          \cup {Thread("new", n) : n \in 1..MaxBorn}

ThreadsOf(p) == {t \in Tids : who[t].of = p}

\* Mutant of Listings: in any order.
ListingsUnordered(p) ==
  {l \in [1..Cardinality(ThreadsOf(p)) -> Tids] :
     {l[k] : k \in DOMAIN l} = ThreadsOf(p)}

\* collect_tids: the ids of the threads of p, in order of creation.
Listings(p) ==
  {l \in [1..Cardinality(ThreadsOf(p)) -> Tids] :
     /\ {l[k] : k \in DOMAIN l} = ThreadsOf(p)
     /\ \A j, k \in DOMAIN l : j < k => who[l[j]].nth < who[l[k]].nth}

Init ==
  /\ \E n \in 1..Cardinality(Tids) : \E l \in [1..n -> Tids] :
       /\ \A j, k \in 1..n : l[j] = l[k] => j = k
       /\ who = [t \in Tids |-> IF \E k \in 1..n : l[k] = t
                                THEN Thread("target", CHOOSE k \in 1..n : l[k] = t)
                                ELSE Nobody]
  /\ born = 0
  /\ pc = "list"
  /\ list = << >> /\ at = 0 /\ saved = << >>
  /\ placed = {} /\ old = {} /\ fresh = {} /\ disturbed = FALSE

Goto(label) == pc' = label
Advance == at' = at + 1

-----------------------------------------------------------------------------
(* capture_thread_contexts, and the resume after it *)

ListTarget ==
  /\ pc = "list"
  /\ list' \in Listings("target")
  /\ old' = {who[t] : t \in ThreadsOf("target")}
  /\ Goto("capture")
  /\ UNCHANGED <<system, at, saved, placed, fresh, disturbed>>

\* collect_tids has an error when CreateToolhelp32Snapshot gives no list.
ListTargetFails ==
  /\ pc = "list"
  /\ Goto("failed")
  /\ UNCHANGED <<system, list, at, saved, placed, old, fresh, disturbed>>

\* OpenThread and GetThreadContext: the owner of the id is not looked at.
CaptureOne ==
  /\ pc = "capture" /\ at < Len(list)
  /\ who[list[at + 1]] \in Live
  /\ saved' = Append(saved, who[list[at + 1]])
  /\ Advance
  /\ UNCHANGED <<system, pc, list, placed, old, fresh, disturbed>>

\* Mutant of CaptureFails: an empty context keeps the place.
CaptureFailsEmpty ==
  /\ pc = "capture" /\ at < Len(list)
  /\ saved' = Append(saved, Nobody)
  /\ Advance
  /\ UNCHANGED <<system, pc, list, placed, old, fresh, disturbed>>

\* The context is left out.
CaptureFails ==
  /\ pc = "capture" /\ at < Len(list)
  /\ Advance
  /\ disturbed' = TRUE
  /\ UNCHANGED <<system, pc, list, saved, placed, old, fresh>>

CaptureEnds ==
  /\ pc = "capture" /\ at = Len(list)
  /\ Goto("resume")
  /\ UNCHANGED <<system, list, at, saved, placed, old, fresh, disturbed>>

\* Mutant of Resume: the result of NtResumeProcess is ignored.
ResumeUnchecked ==
  /\ pc = "resume"
  /\ Goto("saved")
  /\ UNCHANGED <<system, list, at, saved, placed, old, fresh, disturbed>>

\* guard.resume()? fails for a terminated process; then nothing is written.
Resume ==
  /\ pc = "resume"
  /\ Goto(IF ThreadsOf("target") # {} THEN "saved" ELSE "failed")
  /\ UNCHANGED <<system, list, at, saved, placed, old, fresh, disturbed>>

-----------------------------------------------------------------------------
(* restore_thread_contexts *)

\* launch_suspended: the main thread's handle is open from here to the end.
Launch ==
  /\ pc = "saved"
  /\ \E t \in ThreadsOf("nobody") : who' = [who EXCEPT ![t] = Thread("new", 1)]
  /\ born' = 1
  /\ Goto("listnew")
  /\ UNCHANGED <<list, at, saved, placed, old, fresh, disturbed>>

ListNew ==
  /\ pc = "listnew"
  /\ list' \in Listings("new")
  /\ fresh' = {who[t] : t \in ThreadsOf("new")}
  /\ at' = 0
  /\ Goto(IF list' = << >> THEN "failed" ELSE "restore")
  /\ UNCHANGED <<system, saved, placed, old, disturbed>>

ListNewFails ==
  /\ pc = "listnew"
  /\ Goto("failed")
  /\ UNCHANGED <<system, list, at, saved, placed, old, fresh, disturbed>>

Paired == pc = "restore" /\ at < Len(list) /\ at < Len(saved)

\* Mutant of RestoreOne: every thread gets the first context.
RestoreOneFirst ==
  /\ Paired
  /\ who[list[at + 1]] \in Live
  /\ placed' = placed \cup {[ctx |-> saved[1], thread |-> who[list[at + 1]]]}
  /\ Advance
  /\ UNCHANGED <<system, pc, list, saved, old, fresh, disturbed>>

\* OpenThread and SetThreadContext: again whoever has the id now.
RestoreOne ==
  /\ Paired
  /\ who[list[at + 1]] \in Live
  /\ placed' = placed \cup {[ctx |-> saved[at + 1], thread |-> who[list[at + 1]]]}
  /\ Advance
  /\ UNCHANGED <<system, pc, list, saved, old, fresh, disturbed>>

RestoreOneFails ==
  /\ Paired
  /\ Advance
  /\ UNCHANGED <<system, pc, list, saved, placed, old, fresh, disturbed>>

RestoreEnds ==
  /\ pc = "restore" /\ ~Paired
  /\ Goto(IF placed = {} THEN "failed" ELSE "done")
  /\ UNCHANGED <<system, list, at, saved, placed, old, fresh, disturbed>>

-----------------------------------------------------------------------------
(* The system *)

TargetExits ==
  /\ ThreadsOf("target") # {}
  /\ who' = [t \in Tids |-> IF who[t].of = "target" THEN Nobody ELSE who[t]]
  /\ UNCHANGED <<born, pc, list, at, saved, placed, old, fresh, disturbed>>

NewRuns == \E t \in Tids : who[t] = Thread("new", 1)

WorkerStarts ==
  /\ NewRuns /\ born < MaxBorn
  /\ \E t \in ThreadsOf("nobody") :
       who' = [who EXCEPT ![t] = Thread("new", born + 1)]
  /\ born' = born + 1
  /\ UNCHANGED <<pc, list, at, saved, placed, old, fresh, disturbed>>

WorkerEnds ==
  /\ \E t \in ThreadsOf("new") :
       who[t].nth > 1 /\ who' = [who EXCEPT ![t] = Nobody]
  /\ disturbed' = (disturbed \/ pc = "restore")
  /\ UNCHANGED <<born, pc, list, at, saved, placed, old, fresh>>

NewExits ==
  /\ NewRuns
  /\ who' = [t \in Tids |-> CASE who[t] = Thread("new", 1) -> Dead
                              [] who[t].of = "new" /\ who[t].nth # 1 -> Nobody
                              [] OTHER -> who[t]]
  /\ disturbed' = (disturbed \/ pc = "restore")
  /\ UNCHANGED <<born, pc, list, at, saved, placed, old, fresh>>

\* Another process creates a thread, which may get an id that was listed.
OtherStarts ==
  /\ \E t \in ThreadsOf("nobody") : who' = [who EXCEPT ![t] = Other]
  /\ UNCHANGED <<born, pc, list, at, saved, placed, old, fresh, disturbed>>

OtherEnds ==
  /\ \E t \in ThreadsOf("other") : who' = [who EXCEPT ![t] = Nobody]
  /\ UNCHANGED <<born, pc, list, at, saved, placed, old, fresh, disturbed>>

Tool ==
  \/ ListTarget \/ ListTargetFails \/ CaptureOne \/ CaptureFails \/ CaptureEnds
  \/ Resume \/ Launch \/ ListNew \/ ListNewFails \/ RestoreOne \/ RestoreOneFails \/ RestoreEnds

System ==
  \/ TargetExits \/ WorkerStarts \/ WorkerEnds \/ NewExits
  \/ OtherStarts \/ OtherEnds

Next == Tool \/ System

Spec == Init /\ [][Next]_vars

-----------------------------------------------------------------------------
(* Properties *)

TypeOK ==
  /\ who \in [Tids -> Live \cup {Nobody, Dead}]
  /\ born \in 0..MaxBorn
  /\ pc \in {"list", "capture", "resume", "saved", "listnew", "restore",
             "done", "failed"}
  /\ list \in Seq(Tids) /\ at \in 0..Len(list)
  /\ saved \in Seq(Live)
  /\ \A p \in placed : p.ctx \in Live /\ p.thread \in Live
  /\ old \subseteq Live /\ fresh \subseteq Live
  /\ disturbed \in BOOLEAN

Restoring == pc \in {"saved", "listnew", "restore", "done"}

\* Every context of a snapshot that gets written is one of the target's own
\* threads, each once and in order of creation: although ids are opened without
\* a look at their owner, a target that was terminated while it was captured,
\* and whose ids others took, is found out by the resume.
CapturesAreOwn ==
  Restoring =>
    /\ \A k \in DOMAIN saved : saved[k].of = "target"
    /\ \A j, k \in DOMAIN saved : j < k => saved[j].nth < saved[k].nth

\* No thread of the new process is given two contexts, and no context goes to
\* two of them, while ids end and come back under the tool.
NoContextTwice ==
  \A p, q \in {r \in placed : r.thread.of = "new"} :
    p.ctx = q.ctx <=> p.thread = q.thread

Rank(x, S) == Cardinality({y \in S : y.nth < x.nth})

\* The k-th thread of the target goes to the k-th thread of the new process
\* (README.md: threads are "matched by creation-order index").
MatchedByCreationOrder ==
  \A p \in placed :
    p.ctx \in old /\ p.thread \in fresh /\ Rank(p.ctx, old) = Rank(p.thread, fresh)

\* That is so when every capture succeeded and no listed thread has ended.
MatchedUnlessDisturbed == ~disturbed => MatchedByCreationOrder

=============================================================================
