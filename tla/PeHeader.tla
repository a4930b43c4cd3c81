------------------------------ MODULE PeHeader ------------------------------
(***************************************************************************)
(* find_dll_characteristics_offset and the patch of disable_aslr           *)
(* (util/pe.rs): one action per field that is looked at, over the bytes of *)
(* the file.  The file is patched again and again, as by repeated runs.    *)
(*                                                                         *)
(* usize has Usize values (2^64 on the x64 targets this code builds for);  *)
(* sums of offsets wrap.                                                   *)
(***************************************************************************)
EXTENDS Naturals

CONSTANTS
  Files,        \* files to patch: [len, byte], byte[i] is the byte at i
  Usize

Byte == 0..255

\* Offsets of the fields, and the magic numbers.
LfanewAt == 60
DosHeader == 64
ToOptional == 24
ToCharacteristics == 70
MZ == 23117
PE == 17744
Magics == {267, 523}                 \* PE32, PE32+
DynamicBase == 64                    \* IMAGE_DLLCHARACTERISTICS_DYNAMIC_BASE

IsFile(f) ==
  /\ f.len \in Nat /\ f.byte \in [0..(f.len - 1) -> Byte]
  /\ f = [len |-> f.len, byte |-> f.byte]

VARIABLES
  original,     \* history: the file before the first patch
  data,         \* the file
  pc,           \* the next field that is looked at
  base,         \* e_lfanew, then the start of the optional header,
                \* then the offset of DllCharacteristics
  used,         \* history: the offsets of data indexed so far
  patched       \* history: a patch has succeeded

vars == <<original, data, pc, base, used, patched>>

\* data[i]; out of range the code panics, and `used` tells.
At(f, i) == IF i < f.len THEN f.byte[i] ELSE 0
U16(f, i) == At(f, i) + 256 * At(f, i + 1)
U32(f, i) == U16(f, i) + 65536 * U16(f, i + 2)

\* e_lfanew is a u32: with 2^64 values of usize no sum made of it wraps.
ASSUME FilesAssumption ==
  /\ Usize \in Nat
  /\ \A f \in Files :
       /\ IsFile(f) /\ f.len < Usize
       /\ f.len >= DosHeader => U32(f, LfanewAt) + 96 < Usize

Plus(x, y) == (x + y) % Usize

Init ==
  /\ original \in Files
  /\ data = original
  /\ pc = "size"
  /\ base = 0
  /\ used = {}
  /\ patched = FALSE

Goto(label) == pc' = label
Look(offsets) == used' = used \cup offsets

\* An error is returned; the file stays as it is.
Reject ==
  /\ Goto("rejected")
  /\ UNCHANGED base

-----------------------------------------------------------------------------
(* find_dll_characteristics_offset *)

CheckSize ==
  /\ pc = "size"
  /\ Look({})
  /\ IF data.len < DosHeader THEN Reject ELSE Goto("mz") /\ UNCHANGED base
  /\ UNCHANGED <<original, data, patched>>

CheckMz ==
  /\ pc = "mz"
  /\ Look(0..1)
  /\ IF U16(data, 0) # MZ THEN Reject ELSE Goto("lfanew") /\ UNCHANGED base
  /\ UNCHANGED <<original, data, patched>>

\* Mutant of ReadLfanew: the signature may start anywhere in the file.
ReadLfanewInFile ==
  /\ pc = "lfanew"
  /\ Look(LfanewAt..(LfanewAt + 3))
  /\ IF U32(data, LfanewAt) > data.len THEN Reject
     ELSE Goto("signature") /\ base' = U32(data, LfanewAt)
  /\ UNCHANGED <<original, data, patched>>

ReadLfanew ==
  /\ pc = "lfanew"
  /\ Look(LfanewAt..(LfanewAt + 3))
  /\ IF Plus(U32(data, LfanewAt), 4) > data.len THEN Reject
     ELSE Goto("signature") /\ base' = U32(data, LfanewAt)
  /\ UNCHANGED <<original, data, patched>>

CheckSignature ==
  /\ pc = "signature"
  /\ Look(base..(base + 3))
  /\ LET optional == Plus(base, ToOptional) IN
     IF U32(data, base) # PE \/ Plus(optional, 2) > data.len THEN Reject
     ELSE Goto("magic") /\ base' = optional
  /\ UNCHANGED <<original, data, patched>>

\* Mutant of CheckMagic: the offset is taken from the start of the file.
CheckMagicAbsolute ==
  /\ pc = "magic"
  /\ Look(base..(base + 1))
  /\ IF U16(data, base) \notin Magics THEN Reject
     ELSE Goto("flag") /\ base' = ToCharacteristics
  /\ UNCHANGED <<original, data, patched>>

CheckMagic ==
  /\ pc = "magic"
  /\ Look(base..(base + 1))
  /\ LET characteristics == Plus(base, ToCharacteristics) IN
     IF U16(data, base) \notin Magics \/ Plus(characteristics, 2) > data.len
     THEN Reject
     ELSE Goto("flag") /\ base' = characteristics
  /\ UNCHANGED <<original, data, patched>>

-----------------------------------------------------------------------------
(* disable_aslr *)

\* Mutants of Cleared: the bit is subtracted unseen; it is toggled.
ClearedUnseen(b) == b - DynamicBase
Toggled(b) == IF (b \div DynamicBase) % 2 = 1 THEN b - DynamicBase ELSE b + DynamicBase

\* The low byte of before & !0x0040; the high byte does not change.
Cleared(b) == IF (b \div DynamicBase) % 2 = 1 THEN b - DynamicBase ELSE b

Patch ==
  /\ pc = "flag"
  /\ Look(base..(base + 1))
  /\ data' = [data EXCEPT !.byte[base] = Cleared(@)]
  /\ patched' = TRUE
  /\ Goto("done")
  /\ UNCHANGED <<original, base>>

\* --disable-aslr is run again.
Again ==
  /\ pc = "done"
  /\ Goto("size")
  /\ base' = 0
  /\ used' = {}
  /\ UNCHANGED <<original, data, patched>>

Next ==
  \/ CheckSize \/ CheckMz \/ ReadLfanew \/ CheckSignature \/ CheckMagic
  \/ Patch \/ Again

Spec == Init /\ [][Next]_vars

-----------------------------------------------------------------------------
(* Properties *)

TypeOK ==
  /\ IsFile(original) /\ IsFile(data) /\ data.len = original.len
  /\ pc \in {"size", "mz", "lfanew", "signature", "magic", "flag", "done",
             "rejected"}
  /\ base \in 0..(Usize - 1)
  /\ patched \in BOOLEAN

\* Every index into the file is in range, whatever is in it: the checks come
\* before the reads they are for, and none of their sums wraps.
IndexesInRange == used \subseteq 0..(data.len - 1)

\* A patch changes one bit: the flag, in the file it was found in.
OnlyTheFlagChanges ==
  \A i \in 0..(data.len - 1) :
    data.byte[i] # original.byte[i] =>
      /\ i = U32(original, LfanewAt) + ToOptional + ToCharacteristics
      /\ data.byte[i] = Cleared(original.byte[i])

\* A patched file is still a file that can be patched, and is then left as it
\* is: no byte that is patched is one the next run looks at to find the flag.
PatchedAgainIsTheSame ==
  patched =>
    /\ pc # "rejected"
    /\ LET flag == U32(original, LfanewAt) + ToOptional + ToCharacteristics IN
       At(data, flag) = Cleared(At(original, flag))

=============================================================================
