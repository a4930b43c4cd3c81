------------------------------ MODULE AslrPatch ------------------------------
(***************************************************************************)
(* disable_aslr and restore_aslr (util/pe.rs): the executable is backed up *)
(* once, patched in place, and copied back from the backup.                *)
(*                                                                         *)
(* Tools are invocations of --disable-aslr and --restore-aslr on one path, *)
(* each of which may be run again; the executable may be replaced by an    *)
(* update.  A file is a version and its DYNAMIC_BASE flag; where the flag  *)
(* is in the file is the subject of PeHeader.                              *)
(*                                                                         *)
(* MaxVersion bounds the updates.                                          *)
(***************************************************************************)
EXTENDS Naturals

CONSTANTS
  Tools,
  MaxVersion,
  MayStop       \* a tool may be killed, or fail, between any two steps

ASSUME AslrAssumption == MaxVersion \in Nat \ {0} /\ MayStop \in BOOLEAN

VARIABLES
  exe, bak,     \* the executable and its .exe.bak
  shipped,      \* the executable as it was installed, or last updated
  pc,           \* pc[t]: the next step of t
  buf,          \* buf[t]: what t has read
  spoiled       \* history: something happened that the backup is not made for

vars == <<exe, bak, shipped, pc, buf, spoiled>>

Executable == [version : 1..MaxVersion, aslr : BOOLEAN]
Missing == [version |-> 0, aslr |-> TRUE]
Torn == [version |-> 0, aslr |-> FALSE]     \* truncated, or written in part
Content == Executable \cup {Missing, Torn}

AtRest == {"idle", "done", "failed"}
Active == {t \in Tools : pc[t] \notin AtRest}

Init ==
  /\ shipped \in [version : {1}, aslr : BOOLEAN]
  /\ exe = shipped
  /\ bak = Missing
  /\ pc = [t \in Tools |-> "idle"]
  /\ buf = [t \in Tools |-> Missing]
  /\ spoiled = FALSE

Goto(t, label) == pc' = [pc EXCEPT ![t] = label]

\* A tool starts; two at once are what the code is not made for.
Starts(t, label) ==
  /\ pc[t] \in AtRest
  /\ Goto(t, label)
  /\ spoiled' = (spoiled \/ Active # {})
  /\ UNCHANGED <<exe, bak, shipped, buf>>

-----------------------------------------------------------------------------
(* disable_aslr *)

\* Mutants of StartDisable: no backup is made; one is made every time.
StartDisableNoBackup(t) == Starts(t, "read")
StartDisableAnew(t) == Starts(t, "backup")

\* backup_path.exists() decides whether a backup is made.
StartDisable(t) == Starts(t, IF bak = Missing THEN "backup" ELSE "read")

\* fs::copy creates or truncates its destination, then fills it.
BeginBackup(t) ==
  /\ pc[t] = "backup"
  /\ buf' = [buf EXCEPT ![t] = exe]
  /\ bak' = Torn
  /\ Goto(t, "backing")
  /\ UNCHANGED <<exe, shipped, spoiled>>

EndBackup(t) ==
  /\ pc[t] = "backing"
  /\ bak' = buf[t]
  /\ Goto(t, "read")
  /\ UNCHANGED <<exe, shipped, buf, spoiled>>

\* fs::read and find_dll_characteristics_offset: a torn file may or may not
\* have a header; an executable whose flag is clear is left alone.
ReadExe(t) ==
  /\ pc[t] = "read"
  /\ buf' = [buf EXCEPT ![t] = exe]
  /\ \/ exe = Torn /\ \E label \in {"patch", "done", "failed"} : Goto(t, label)
     \/ exe # Torn /\ Goto(t, IF exe.aslr THEN "patch" ELSE "done")
  /\ UNCHANGED <<exe, bak, shipped, spoiled>>

\* fs::write truncates, then writes what was read with the flag cleared.
BeginPatch(t) ==
  /\ pc[t] = "patch"
  /\ exe' = Torn
  /\ Goto(t, "patching")
  /\ UNCHANGED <<bak, shipped, buf, spoiled>>

EndPatch(t) ==
  /\ pc[t] = "patching"
  /\ exe' = [version |-> buf[t].version, aslr |-> FALSE]
  /\ Goto(t, "done")
  /\ UNCHANGED <<bak, shipped, buf, spoiled>>

-----------------------------------------------------------------------------
(* restore_aslr *)

\* Mutant of StartRestore: the backup is copied without a look for it.
StartRestoreBlind(t) == Starts(t, "restore")

StartRestore(t) == Starts(t, IF bak = Missing THEN "failed" ELSE "restore")

BeginRestore(t) ==
  /\ pc[t] = "restore"
  /\ buf' = [buf EXCEPT ![t] = bak]
  /\ exe' = Torn
  /\ Goto(t, "restoring")
  /\ UNCHANGED <<bak, shipped, spoiled>>

EndRestore(t) ==
  /\ pc[t] = "restoring"
  /\ exe' = buf[t]
  /\ Goto(t, "done")
  /\ UNCHANGED <<bak, shipped, buf, spoiled>>

-----------------------------------------------------------------------------
(* What goes on around the tools *)

\* The tool ends in the middle; what it was writing stays torn.
Stop(t) ==
  /\ MayStop
  /\ t \in Active
  /\ Goto(t, "failed")
  /\ spoiled' = (spoiled \/ pc[t] = "backing")
  /\ UNCHANGED <<exe, bak, shipped, buf>>

\* The game is updated; a backup of the old version stays.
Update ==
  /\ shipped.version < MaxVersion
  /\ \E aslr \in BOOLEAN :
       shipped' = [version |-> shipped.version + 1, aslr |-> aslr]
  /\ exe' = shipped'
  /\ spoiled' = (spoiled \/ bak # Missing \/ Active # {})
  /\ UNCHANGED <<bak, pc, buf>>

Step(t) ==
  \/ StartDisable(t) \/ BeginBackup(t) \/ EndBackup(t) \/ ReadExe(t)
  \/ BeginPatch(t) \/ EndPatch(t)
  \/ StartRestore(t) \/ BeginRestore(t) \/ EndRestore(t)
  \/ Stop(t)

Next == Update \/ \E t \in Tools : Step(t)

Spec == Init /\ [][Next]_vars

-----------------------------------------------------------------------------
(* Properties *)

TypeOK ==
  /\ exe \in Executable \cup {Torn} /\ bak \in Content
  /\ shipped \in Executable
  /\ pc \in [Tools -> AtRest \cup {"backup", "backing", "read", "patch",
                                   "patching", "restore", "restoring"}]
  /\ buf \in [Tools -> Content]
  /\ spoiled \in BOOLEAN

\* The executable as shipped is in one of the two files.
Recoverable == exe = shipped \/ bak = shipped

\* The original is lost in three ways only: a tool that stops while it copies
\* the backup, an update that finds a backup or a running tool, and two tools
\* at once.  Stopping anywhere else, and running the commands again in any
\* order, loses nothing.
LostOnlyWhenSpoiled == ~spoiled => Recoverable

\* A --restore-aslr that succeeds puts back the executable as it was shipped,
\* whatever was cut short before, unless the backup was spoiled.
RestoreGivesBack ==
  [][\A t \in Tools :
       pc[t] = "restoring" /\ pc'[t] = "done" /\ ~spoiled => exe' = shipped]_vars

=============================================================================
