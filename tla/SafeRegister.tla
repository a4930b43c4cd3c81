----------------------------- MODULE SafeRegister -----------------------------
(***************************************************************************)
(* What the path of the .qrs file promises to --snapshot and --restore,    *)
(* which share it without a lock: a register that is safe, and no more.    *)
(* A read that no write overlaps returns the value the last write left, or *)
(* is refused when it left none; a read that one overlaps may return       *)
(* anything.  A write takes time, may fail at any moment and then leaves   *)
(* no value; after writes that overlap each other nobody knows what there  *)
(* is, until a write starts alone again.                                   *)
(***************************************************************************)

CONSTANTS
  Writers, Readers, Values,
  Storable,     \* the values that a read can give back
  Nothing,      \* no value: never written, or a write was cut short
  Unknown       \* any value, none, or something that is not a value

VARIABLES
  value,        \* what the register holds
  job,          \* job[w]: the value that w writes
  writer,       \* writer[w]: "idle", "writing", "done" or "failed"
  reader,       \* reader[r]: "idle", "reading", "accepted" or "rejected"
  due,          \* due[r]: the value r has to find
  result        \* result[r]: the value that r returned

vars == <<value, job, writer, reader, due, result>>

Writing == {w \in Writers : writer[w] = "writing"}

Init ==
  /\ value = Nothing
  /\ job \in [Writers -> Values]
  /\ writer = [w \in Writers |-> "idle"]
  /\ reader = [r \in Readers |-> "idle"]
  /\ due = [r \in Readers |-> Nothing]
  /\ result = [r \in Readers |-> Nothing]

\* The old value is gone at once, and every read under way has been overlapped.
Begin(w) ==
  /\ writer[w] = "idle"
  /\ writer' = [writer EXCEPT ![w] = "writing"]
  /\ value' = IF Writing = {} THEN Nothing ELSE Unknown
  /\ due' = [r \in Readers |-> IF reader[r] = "reading" THEN Unknown ELSE due[r]]
  /\ UNCHANGED <<job, reader, result>>

\* All of the new value is there, though its writer may still fail.
Complete(w) ==
  /\ Writing = {w} /\ value = Nothing
  /\ value' = job[w]
  /\ UNCHANGED <<job, writer, reader, due, result>>

Succeed(w) ==
  /\ writer[w] = "writing" /\ value \in {job[w], Unknown}
  /\ writer' = [writer EXCEPT ![w] = "done"]
  /\ UNCHANGED <<value, job, reader, due, result>>

Fail(w) ==
  /\ writer[w] \in {"idle", "writing"}
  /\ writer' = [writer EXCEPT ![w] = "failed"]
  /\ UNCHANGED <<value, job, reader, due, result>>

Start(r) ==
  /\ reader[r] = "idle"
  /\ reader' = [reader EXCEPT ![r] = "reading"]
  /\ due' = [due EXCEPT ![r] = IF Writing = {} THEN value ELSE Unknown]
  /\ UNCHANGED <<value, job, writer, result>>

Return(r, outcome, v) ==
  /\ reader' = [reader EXCEPT ![r] = outcome]
  /\ result' = [result EXCEPT ![r] = v]
  /\ UNCHANGED <<value, job, writer, due>>

Accept(r) ==
  /\ reader[r] = "reading"
  /\ \E v \in Values \cup {Unknown} :
       /\ due[r] = Unknown \/ (due[r] = v /\ v \in Storable)
       /\ Return(r, "accepted", v)

Reject(r) ==
  /\ \/ reader[r] = "reading" /\ due[r] \notin Storable
     \/ reader[r] = "idle" /\ value = Nothing
  /\ Return(r, "rejected", Nothing)

Next ==
  \/ \E w \in Writers : Begin(w) \/ Complete(w) \/ Succeed(w) \/ Fail(w)
  \/ \E r \in Readers : Start(r) \/ Accept(r) \/ Reject(r)

Spec == Init /\ [][Next]_vars

=============================================================================
