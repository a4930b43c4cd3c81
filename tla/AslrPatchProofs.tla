--------------------------- MODULE AslrPatchProofs ---------------------------
(***************************************************************************)
(* Theorems about AslrPatch, for any number of tools and updates.          *)
(*                                                                         *)
(* As long as nothing has spoiled the backup, one tool is at work at most, *)
(* and each of its steps knows what is in the backup.                      *)
(***************************************************************************)
EXTENDS AslrPatch, TLAPS

\* What a tool copies was there when it looked.
CopyInv ==
  \A t \in Tools :
    /\ pc[t] = "restore" => bak # Missing
    /\ pc[t] \in {"backing", "patch", "patching", "restoring"} => buf[t] # Missing

TypeInv == TypeOK /\ CopyInv

\* No two tools at once.
Alone == \A t, u \in Tools : pc[t] \notin AtRest /\ pc[u] \notin AtRest => t = u

\* The backup is missing, being made, or the executable as shipped.
BackupInv ==
  /\ bak \in {Missing, Torn, shipped}
  /\ bak = Missing => exe = shipped
  /\ bak = Torn => \E t \in Tools : pc[t] = "backing"

\* What the next step of t relies on.
KnownTo(t) ==
  /\ pc[t] = "backup" => bak = Missing /\ exe = shipped
  /\ pc[t] = "backing" => bak = Torn /\ exe = shipped /\ buf[t] = shipped
  /\ pc[t] \in {"read", "patch", "patching", "restore", "restoring"} => bak = shipped
  /\ pc[t] = "restoring" => buf[t] = shipped

IInv ==
  /\ TypeInv
  /\ ~spoiled => Alone /\ BackupInv /\ \A t \in Tools : KnownTo(t)

-----------------------------------------------------------------------------
(* Types *)

LEMMA TypeStep == TypeInv /\ [Next]_vars => TypeInv'
<1> SUFFICES ASSUME TypeInv, [Next]_vars PROVE TypeInv'
  OBVIOUS
<1> USE AslrAssumption
        DEF TypeInv, TypeOK, CopyInv, Goto, Executable, Content, Missing, Torn, AtRest
<1>1. CASE Update
  BY <1>1 DEF Update
<1>2. CASE UNCHANGED vars
  BY <1>2 DEF vars
<1>3. ASSUME NEW t \in Tools, Step(t) PROVE TypeInv'
  <2>1. CASE StartDisable(t) \/ StartRestore(t)
    BY <2>1 DEF StartDisable, StartRestore, Starts
  <2>2. CASE BeginBackup(t)
    BY <2>2 DEF BeginBackup
  <2>3. CASE EndBackup(t)
    BY <2>3 DEF EndBackup
  <2>4. CASE ReadExe(t)
    BY <2>4 DEF ReadExe
  <2>5. CASE BeginPatch(t)
    BY <2>5 DEF BeginPatch
  <2>6. CASE EndPatch(t)
    <3>1. buf[t] \in Executable \cup {Torn}
      BY <2>6 DEF EndPatch
    <3>2. CASE buf[t] = Torn
      <4>1. buf[t].version = 0
        BY <3>2
      <4>2. exe' = [version |-> 0, aslr |-> FALSE]
        BY <2>6, <4>1 DEF EndPatch
      <4> QED
        BY <2>6, <4>2 DEF EndPatch
    <3>3. CASE buf[t] \in Executable
      <4>1. buf[t].version \in 1..MaxVersion
        BY <3>3
      <4>2. exe' \in Executable
        BY <2>6, <4>1 DEF EndPatch
      <4> QED
        BY <2>6, <4>2 DEF EndPatch
    <3> QED
      BY <3>1, <3>2, <3>3
  <2>7. CASE BeginRestore(t) \/ EndRestore(t)
    BY <2>7 DEF BeginRestore, EndRestore
  <2>8. CASE Stop(t)
    BY <2>8 DEF Stop, Active
  <2> QED
    BY <1>3, <2>1, <2>2, <2>3, <2>4, <2>5, <2>6, <2>7, <2>8 DEF Step
<1> QED
  BY <1>1, <1>2, <1>3 DEF Next

LEMMA TypeInit == Init => TypeInv
<1> SUFFICES ASSUME Init PROVE TypeInv
  OBVIOUS
<1>1. shipped \in Executable
  BY AslrAssumption DEF Init, Executable
<1> QED
  BY <1>1 DEF Init, TypeInv, TypeOK, CopyInv, Content, AtRest

\* Every variable keeps its type: nothing is restored from a backup that is
\* not there, whatever stops or updates meet the tools.
THEOREM TypeCorrect == Spec => []TypeOK
<1>1. TypeInv => TypeOK
  BY DEF TypeInv
<1> QED
  BY <1>1, TypeInit, TypeStep, PTL DEF Spec

-----------------------------------------------------------------------------
(* The backup *)

LEMMA BackupStep == IInv /\ [Next]_vars => IInv'
<1> SUFFICES ASSUME IInv, [Next]_vars, ~spoiled' PROVE (Alone /\ BackupInv /\ \A t \in Tools : KnownTo(t))'
  BY TypeStep DEF IInv
<1>0. TypeInv /\ TypeInv'
  BY TypeStep DEF IInv
<1> USE DEF IInv, TypeInv, TypeOK, Goto, AtRest, Alone, BackupInv, KnownTo
<1>1. CASE Update
  BY <1>1 DEF Update, Active
<1>2. CASE UNCHANGED vars
  BY <1>2 DEF vars
<1>3. ASSUME NEW t \in Tools, Step(t) PROVE (Alone /\ BackupInv /\ \A u \in Tools : KnownTo(u))'
  <2>1. CASE StartDisable(t) \/ StartRestore(t)
    <3>1. ~spoiled /\ \A u \in Tools : pc[u] \in AtRest
      BY <2>1 DEF StartDisable, StartRestore, Starts, Active
    <3>2. bak # Torn
      BY <3>1
    <3> QED
      BY <2>1, <3>1, <3>2 DEF StartDisable, StartRestore, Starts
  <2>2. CASE BeginBackup(t)
    BY <2>2 DEF BeginBackup, Missing, Torn
  <2>3. CASE EndBackup(t)
    BY <2>3, <1>0 DEF EndBackup, Missing, Torn, Executable
  <2>4. CASE ReadExe(t)
    BY <2>4 DEF ReadExe, Missing, Torn
  <2>5. CASE BeginPatch(t) \/ EndPatch(t)
    BY <2>5, <1>0 DEF BeginPatch, EndPatch, Missing, Torn, Executable
  <2>6. CASE BeginRestore(t) \/ EndRestore(t)
    BY <2>6, <1>0 DEF BeginRestore, EndRestore, Missing, Torn, Executable
  <2>7. CASE Stop(t)
    BY <2>7 DEF Stop, Active
  <2> QED
    BY <1>3, <2>1, <2>2, <2>3, <2>4, <2>5, <2>6, <2>7 DEF Step
<1> QED
  BY <1>1, <1>2, <1>3 DEF Next

LEMMA Inductive == Spec => []IInv
<1>1. Init => IInv
  BY TypeInit DEF Init, IInv, Alone, BackupInv, KnownTo, AtRest, Missing, Torn
<1> QED
  BY <1>1, BackupStep, PTL DEF Spec

\* The executable as shipped is in one of the two files, unless a tool stopped
\* while it copied the backup, an update found a backup or a tool, or two tools
\* ran at once.
THEOREM NothingIsLost == Spec => []LostOnlyWhenSpoiled
<1>1. IInv => LostOnlyWhenSpoiled
  BY DEF IInv, BackupInv, KnownTo, LostOnlyWhenSpoiled, Recoverable
<1> QED
  BY <1>1, Inductive, PTL

\* A --restore-aslr that succeeds puts back what was shipped.
THEOREM RestoresGiveBack == Spec => RestoreGivesBack
<1>1. IInv /\ [Next]_vars =>
        [\A t \in Tools : pc[t] = "restoring" /\ pc'[t] = "done" /\ ~spoiled
                            => exe' = shipped]_vars
  <2> SUFFICES ASSUME IInv, [Next]_vars, NEW t \in Tools,
                      pc[t] = "restoring", pc'[t] = "done", ~spoiled
               PROVE  exe' = shipped
    OBVIOUS
  <2>1. PICK u \in Tools : Step(u)
    BY DEF Next, Update, vars
  <2>2. pc'[t] # pc[t] /\ pc' = [pc EXCEPT ![u] = pc'[u]]
    BY <2>1 DEF Step, IInv, TypeInv, TypeOK, Starts, StartDisable, StartRestore,
                BeginBackup, EndBackup, ReadExe, BeginPatch, EndPatch,
                BeginRestore, EndRestore, Stop, Goto
  <2>3. u = t /\ EndRestore(t)
    BY <2>1, <2>2 DEF Step, IInv, TypeInv, TypeOK, Starts, StartDisable, StartRestore,
                BeginBackup, EndBackup, ReadExe, BeginPatch, EndPatch,
                BeginRestore, Stop, Goto, AtRest
  <2> QED
    BY <2>3 DEF EndRestore, IInv, KnownTo
<1> QED
  BY <1>1, Inductive, PTL DEF Spec, RestoreGivesBack

=============================================================================
