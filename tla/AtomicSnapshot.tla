--------------------------- MODULE AtomicSnapshot ---------------------------
(***************************************************************************)
(* What `quick_resume --snapshot` promises: a snapshot is a copy of the    *)
(* whole target at ONE instant.  The target may go on running while a copy *)
(* is in flight; the copy does not change with it.  A copy in flight is    *)
(* published (the .qrs file is reported as written) or dropped.            *)
(*                                                                         *)
(* The state of the target is abstracted to a version number `now`, and a  *)
(* copy to the set of versions its parts come from: {} or {one version}.   *)
(***************************************************************************)
EXTENDS Naturals

CONSTANT Tools      \* invocations of quick_resume --snapshot on one target

VARIABLES
  now,              \* version of the target's memory and registers
  inflight,         \* inflight[t]: the copy tool t holds in its own memory
  saved             \* saved[t]: the copy tool t reported as written

vars == <<now, inflight, saved>>

Init ==
  /\ now = 0
  /\ inflight = [t \in Tools |-> {}]
  /\ saved = [t \in Tools |-> {}]

\* The target runs.
Advance ==
  /\ now' = now + 1
  /\ UNCHANGED <<inflight, saved>>

\* The tool's copy is the target as it is at this instant.
Take(t) ==
  /\ inflight[t] = {}
  /\ inflight' = [inflight EXCEPT ![t] = {now}]
  /\ UNCHANGED <<now, saved>>

Publish(t) ==
  /\ inflight[t] # {}
  /\ saved' = [saved EXCEPT ![t] = inflight[t]]
  /\ inflight' = [inflight EXCEPT ![t] = {}]
  /\ UNCHANGED now

Discard(t) ==
  /\ inflight' = [inflight EXCEPT ![t] = {}]
  /\ UNCHANGED <<now, saved>>

Next == Advance \/ \E t \in Tools : Take(t) \/ Publish(t) \/ Discard(t)

Spec == Init /\ [][Next]_vars

=============================================================================
