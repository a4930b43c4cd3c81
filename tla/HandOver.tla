------------------------------ MODULE HandOver ------------------------------
(***************************************************************************)
(* What --restore does with the main thread of the process it launches:    *)
(* the thread runs on its own before it is taken and after it is released, *)
(* and not at all while it is held, nor when it is left behind.  Once a    *)
(* call has failed unseen during the trial, all this is lost.              *)
(***************************************************************************)
EXTENDS Naturals

VARIABLES
  phase,        \* "none", "trial", "held", "free", "left", "lost" or "gone"
  position      \* how far the main thread has run

vars == <<phase, position>>

Init == phase = "none" /\ position = 0

Moves(from, to) == phase \in from /\ phase' = to /\ UNCHANGED position

Run ==
  /\ phase \in {"trial", "free", "lost"}
  /\ position' \in Nat /\ position' > position
  /\ UNCHANGED phase

Next ==
  \/ Moves({"none"}, "trial")
  \/ Moves({"trial"}, "held")
  \/ Moves({"held"}, "free")
  \/ Moves({"trial", "held"}, "left")
  \/ Moves({"trial"}, "lost")
  \/ Moves({"trial", "held", "free", "left", "lost"}, "gone")
  \/ Run

Spec == Init /\ [][Next]_vars

=============================================================================
