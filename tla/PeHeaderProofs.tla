--------------------------- MODULE PeHeaderProofs ---------------------------
(***************************************************************************)
(* Theorems about PeHeader, for any set of files of any length and         *)
(* contents.                                                               *)
(*                                                                         *)
(* The file only ever differs from the original in the byte of the flag,   *)
(* and no check looks at that byte: what the checks found in the original  *)
(* they find again.                                                        *)
(***************************************************************************)
EXTENDS PeHeader, TLAPS

Lfanew == U32(original, LfanewAt)
Flag == Lfanew + ToOptional + ToCharacteristics

\* The checks, in the order they are made.
HasDosHeader == original.len >= DosHeader
HasMz == HasDosHeader /\ U16(original, 0) = MZ
HasRoom == HasMz /\ Lfanew + 4 <= original.len
HasPe ==
  HasRoom /\ U32(original, Lfanew) = PE /\ Lfanew + ToOptional + 2 <= original.len
Accepted ==
  HasPe /\ U16(original, Lfanew + ToOptional) \in Magics /\ Flag + 2 <= original.len

\* What the checks made so far have established.
StageInv ==
  /\ pc \in {"mz", "lfanew", "signature", "magic", "flag"} => HasDosHeader
  /\ pc \in {"lfanew", "signature", "magic", "flag"} => HasMz
  /\ pc = "signature" => HasRoom /\ base = Lfanew
  /\ pc = "magic" => HasPe /\ base = Lfanew + ToOptional
  /\ pc = "flag" => Accepted /\ base = Flag
  /\ pc = "done" => patched

\* How the file relates to the original.
DataInv ==
  /\ original \in Files
  /\ \A i \in 0..(data.len - 1) :
       data.byte[i] # original.byte[i] =>
         patched /\ i = Flag /\ data.byte[i] = Cleared(original.byte[i])
  /\ patched =>
       Accepted /\ data.byte[Flag] = Cleared(original.byte[Flag]) /\ pc # "rejected"

IInv == TypeOK /\ StageInv /\ DataInv /\ IndexesInRange

-----------------------------------------------------------------------------
(* Bytes and sums *)

LEMMA Sums ==
  ASSUME NEW x \in Nat, NEW y \in Nat, x + y < Usize
  PROVE  Plus(x, y) = x + y
BY FilesAssumption DEF Plus

\* Clearing a bit twice is clearing it once.
LEMMA Clearing ==
  ASSUME NEW b \in Byte
  PROVE  Cleared(b) \in Byte /\ Cleared(Cleared(b)) = Cleared(b)
BY DEF Byte, Cleared, DynamicBase

LEMMA Numbers ==
  ASSUME NEW f, IsFile(f), NEW i \in Nat
  PROVE  At(f, i) \in Byte /\ U16(f, i) \in Nat /\ U32(f, i) \in Nat
<1>1. ASSUME NEW j \in Nat PROVE At(f, j) \in Byte
  <2>1. f.len \in Nat /\ f.byte \in [0..(f.len - 1) -> Byte]
    BY DEF IsFile
  <2>2. CASE j < f.len
    BY <2>1, <2>2 DEF At
  <2>3. CASE ~(j < f.len)
    BY <2>3 DEF At, Byte
  <2> QED
    BY <2>2, <2>3
<1>2. ASSUME NEW j \in Nat PROVE U16(f, j) \in Nat
  <2>1. At(f, j) \in Byte /\ At(f, j + 1) \in Byte
    BY <1>1
  <2>2. \A x, y \in Byte : x + 256 * y \in Nat
    BY DEF Byte
  <2> QED
    BY <2>1, <2>2 DEF U16
<1> QED
  BY <1>1, <1>2 DEF U32

\* The part of FilesAssumption that is about sums holds of every file when usize
\* has 2^64 values: a u32 and the 96 bytes from e_lfanew to the end of the flag
\* do not come near that.
THEOREM WideUsizeSuffices ==
  ASSUME NEW f, IsFile(f), NEW u \in Nat, u >= 4294967296 + 96
  PROVE  U32(f, LfanewAt) + 96 < u
<1> DEFINE a == At(f, 60)  b == At(f, 61)  c == At(f, 62)  d == At(f, 63)
<1>1. a \in 0..255 /\ b \in 0..255 /\ c \in 0..255 /\ d \in 0..255
  BY Numbers DEF Byte
<1>2. U32(f, LfanewAt) = a + 256 * b + 65536 * (c + 256 * d)
  <2>1. U16(f, 60) = a + 256 * b
    BY DEF U16
  <2>2. U16(f, 62) = c + 256 * d
    BY DEF U16
  <2>3. U32(f, LfanewAt) = U16(f, 60) + 65536 * U16(f, 62)
    BY DEF U32, LfanewAt
  <2> QED
    BY <2>1, <2>2, <2>3
<1> HIDE DEF a, b, c, d
<1>3. a + 256 * b + 65536 * (c + 256 * d) \in Nat
  BY <1>1, SMT
<1>4. a + 256 * b + 65536 * (c + 256 * d) <= 4294967295
  BY <1>1, SMT
<1>5. U32(f, LfanewAt) \in Nat /\ U32(f, LfanewAt) <= 4294967295
  BY <1>2, <1>3, <1>4, SMT
<1> QED
  BY <1>5, SMT

\* No field that is checked reaches the byte of the flag.
LEMMA FieldsStand ==
  ASSUME TypeOK, DataInv
  PROVE  /\ Lfanew \in Nat /\ U32(data, LfanewAt) = Lfanew
         /\ U16(data, 0) = U16(original, 0)
         /\ U32(data, Lfanew) = U32(original, Lfanew)
         /\ U16(data, Lfanew + ToOptional) = U16(original, Lfanew + ToOptional)
<1>1. Lfanew \in Nat
  BY Numbers DEF TypeOK, Lfanew, LfanewAt
<1>2. \A i \in Nat : i # Flag => At(data, i) = At(original, i)
  BY DEF TypeOK, DataInv, At, IsFile
<1>3. \A i \in Nat : i + 1 < 94 \/ i = Lfanew \/ i = Lfanew + 2 \/ i = Lfanew + 24
        => U16(data, i) = U16(original, i)
  BY <1>1, <1>2 DEF U16, Flag, ToOptional, ToCharacteristics
<1>4. U32(data, LfanewAt) = Lfanew
  BY <1>3 DEF U32, Lfanew, LfanewAt
<1>5. U32(data, Lfanew) = U32(original, Lfanew)
  BY <1>1, <1>3 DEF U32
<1>6. U16(data, Lfanew + ToOptional) = U16(original, Lfanew + ToOptional)
  BY <1>1, <1>3 DEF ToOptional
<1> QED
  BY <1>1, <1>3, <1>4, <1>5, <1>6

\* No sum of offsets wraps.
LEMMA NothingWraps ==
  ASSUME TypeOK, DataInv, HasDosHeader
  PROVE  /\ Plus(Lfanew, 4) = Lfanew + 4
         /\ Plus(Lfanew, ToOptional) = Lfanew + ToOptional
         /\ Plus(Lfanew + ToOptional, 2) = Lfanew + ToOptional + 2
         /\ Plus(Lfanew + ToOptional, ToCharacteristics) = Flag
         /\ Plus(Flag, 2) = Flag + 2
         /\ Flag + 2 < Usize /\ Lfanew + ToOptional \in Nat /\ Flag \in Nat
<1>1. Lfanew \in Nat /\ Lfanew + 96 < Usize /\ Usize \in Nat
  BY FieldsStand, FilesAssumption DEF DataInv, HasDosHeader, Lfanew
<1> QED
  BY <1>1, Sums DEF ToOptional, ToCharacteristics, Flag

-----------------------------------------------------------------------------
(* The steps *)

\* A check: the file stays, and the header is looked at in range.
LEMMA CheckPreserves ==
  ASSUME IInv, CheckSize \/ CheckMz \/ ReadLfanew \/ CheckSignature \/ CheckMagic
  PROVE  IInv'
<1> USE DEF IInv, Goto, Look, Reject
<1>0. /\ UNCHANGED <<original, data, patched>>
      /\ data.len = original.len /\ data.len \in Nat /\ Usize \in Nat
      /\ base \in Nat /\ base < Usize /\ data.len < Usize
  BY FilesAssumption DEF CheckSize, CheckMz, ReadLfanew, CheckSignature, CheckMagic,
     TypeOK, IsFile, DataInv
<1>1. CASE CheckSize
  <2>1. \/ data.len < DosHeader /\ pc' = "rejected"
        \/ HasDosHeader /\ pc' = "mz"
    BY <1>0, <1>1 DEF CheckSize, HasDosHeader, DosHeader
  <2>2. UNCHANGED <<base, used>> /\ ~(patched /\ pc' = "rejected")
    BY <1>0, <1>1, <2>1 DEF CheckSize, DataInv, Accepted, HasPe, HasRoom, HasMz,
       HasDosHeader, DosHeader
  <2> QED
    BY <1>0, <2>1, <2>2 DEF TypeOK, StageInv, DataInv, IndexesInRange, Accepted, HasPe,
       HasRoom, HasMz, HasDosHeader, Flag, Lfanew
<1>2. CASE CheckMz
  <2>1. HasDosHeader
    BY <1>2 DEF CheckMz, StageInv
  <2>2. \/ ~HasMz /\ pc' = "rejected"
        \/ HasMz /\ pc' = "lfanew"
    BY <1>2, <2>1, FieldsStand DEF CheckMz, HasMz
  <2>3. used' \subseteq 0..(data.len - 1) /\ UNCHANGED base
    BY <1>0, <1>2, <2>1 DEF CheckMz, IndexesInRange, HasDosHeader, DosHeader
  <2>4. ~(patched /\ pc' = "rejected")
    BY <2>2 DEF DataInv, Accepted, HasPe, HasRoom
  <2> QED
    BY <1>0, <2>1, <2>2, <2>3, <2>4 DEF TypeOK, StageInv, DataInv, IndexesInRange, Accepted,
       HasPe, HasRoom, HasMz, HasDosHeader, Flag, Lfanew
<1>3. CASE ReadLfanew
  <2>1. HasDosHeader /\ HasMz
    BY <1>3 DEF ReadLfanew, StageInv
  <2>2. \/ ~HasRoom /\ pc' = "rejected" /\ UNCHANGED base
        \/ HasRoom /\ pc' = "signature" /\ base' = Lfanew
    BY <1>0, <1>3, <2>1, FieldsStand, NothingWraps DEF ReadLfanew, HasRoom
  <2>3. used' \subseteq 0..(data.len - 1)
    BY <1>0, <1>3, <2>1 DEF ReadLfanew, IndexesInRange, HasDosHeader, DosHeader, LfanewAt
  <2>4. ~(patched /\ pc' = "rejected") /\ base' \in 0..(Usize - 1)
    BY <1>0, <2>1, <2>2, FieldsStand, NothingWraps
    DEF DataInv, Accepted, HasPe, Flag, ToOptional, ToCharacteristics
  <2> QED
    BY <1>0, <2>1, <2>2, <2>3, <2>4 DEF TypeOK, StageInv, DataInv, IndexesInRange, Accepted,
       HasPe, HasRoom, HasMz, HasDosHeader, Flag, Lfanew
<1>4. CASE CheckSignature
  <2>1. HasDosHeader /\ HasRoom /\ base = Lfanew
    BY <1>4 DEF CheckSignature, StageInv, HasRoom, HasMz
  <2>2. \/ ~HasPe /\ pc' = "rejected" /\ UNCHANGED base
        \/ HasPe /\ pc' = "magic" /\ base' = Lfanew + ToOptional
    BY <1>0, <1>4, <2>1, FieldsStand, NothingWraps DEF CheckSignature, HasPe, ToOptional
  <2>3. used' \subseteq 0..(data.len - 1)
    BY <1>0, <1>4, <2>1 DEF CheckSignature, IndexesInRange, HasRoom
  <2>4. ~(patched /\ pc' = "rejected") /\ base' \in 0..(Usize - 1)
    BY <1>0, <2>1, <2>2, FieldsStand, NothingWraps
    DEF DataInv, Accepted, Flag, ToOptional, ToCharacteristics
  <2> QED
    BY <1>0, <2>1, <2>2, <2>3, <2>4 DEF TypeOK, StageInv, DataInv, IndexesInRange, Accepted,
       HasPe, HasRoom, HasMz, HasDosHeader, Flag, Lfanew
<1>5. CASE CheckMagic
  <2>1. HasDosHeader /\ HasPe /\ base = Lfanew + ToOptional
    BY <1>5 DEF CheckMagic, StageInv, HasPe, HasRoom, HasMz
  <2>2. \/ ~Accepted /\ pc' = "rejected" /\ UNCHANGED base
        \/ Accepted /\ pc' = "flag" /\ base' = Flag
    BY <1>0, <1>5, <2>1, FieldsStand, NothingWraps DEF CheckMagic, Accepted
  <2>3. used' \subseteq 0..(data.len - 1)
    <3>1. Lfanew + ToOptional + 2 <= data.len /\ Lfanew + ToOptional \in Nat
      BY <1>0, <2>1, NothingWraps DEF HasPe
    <3>2. base..(base + 1) \subseteq 0..(data.len - 1)
      BY <1>0, <2>1, <3>1
    <3> QED
      BY <1>0, <1>5, <3>2 DEF CheckMagic, IndexesInRange
  <2>4. ~(patched /\ pc' = "rejected") /\ base' \in 0..(Usize - 1)
    BY <1>0, <2>1, <2>2, FieldsStand, NothingWraps
    DEF DataInv, Flag, ToOptional, ToCharacteristics
  <2> QED
    BY <1>0, <2>1, <2>2, <2>3, <2>4 DEF TypeOK, StageInv, DataInv, IndexesInRange, Accepted,
       HasPe, HasRoom, HasMz, HasDosHeader, Flag, Lfanew
<1> QED
  BY <1>1, <1>2, <1>3, <1>4, <1>5

LEMMA PatchPreserves ==
  ASSUME IInv, Patch
  PROVE  IInv'
<1> USE DEF IInv, Goto, Look
<1>1. /\ Accepted /\ base = Flag /\ Flag + 1 \in 0..(data.len - 1) /\ Flag \in 0..(data.len - 1)
      /\ data.len = original.len /\ data.len \in Nat
  BY NothingWraps DEF Patch, StageInv, Accepted, HasPe, HasRoom, HasMz, TypeOK, IsFile
<1>2. /\ data'.len = data.len /\ IsFile(data')
      /\ data'.byte[Flag] = Cleared(data.byte[Flag])
      /\ \A i \in 0..(data.len - 1) : i # Flag => data'.byte[i] = data.byte[i]
  <2>1. data = [len |-> data.len, byte |-> data.byte]
        /\ data.byte \in [0..(data.len - 1) -> Byte]
    BY DEF TypeOK, IsFile
  <2>2. data' = [len |-> data.len, byte |-> [data.byte EXCEPT ![Flag] = Cleared(@)]]
    BY <1>1, <2>1 DEF Patch
  <2>3. Cleared(data.byte[Flag]) \in Byte
    BY <1>1, <2>1, Clearing
  <2> QED
    BY <1>1, <2>1, <2>2, <2>3 DEF IsFile
<1>3. data.byte[Flag] \in {original.byte[Flag], Cleared(original.byte[Flag])}
      /\ original.byte[Flag] \in Byte
  BY <1>1 DEF DataInv, TypeOK, IsFile
<1>4. data'.byte[Flag] = Cleared(original.byte[Flag])
  BY <1>2, <1>3, Clearing
<1>5. UNCHANGED <<original, base>> /\ patched' /\ pc' = "done" /\ used' = used \cup (base..(base + 1))
  BY DEF Patch
<1>6. used' \subseteq 0..(data'.len - 1)
  BY <1>1, <1>2, <1>5 DEF IndexesInRange
<1>7. Accepted' /\ Flag' = Flag
  BY <1>1, <1>5 DEF Accepted, HasPe, HasRoom, HasMz, HasDosHeader, Flag, Lfanew
<1>8. DataInv'
  BY <1>1, <1>2, <1>4, <1>5, <1>7 DEF DataInv
<1> QED
  BY <1>1, <1>2, <1>5, <1>6, <1>8 DEF TypeOK, StageInv, IndexesInRange

LEMMA Inductive == Spec => []IInv
<1>1. Init => IInv
  <2> SUFFICES ASSUME Init PROVE IInv
    OBVIOUS
  <2>1. IsFile(original) /\ original \in Files /\ base \in 0..(Usize - 1) /\ data = original
    BY FilesAssumption DEF Init, IsFile
  <2> QED
    BY <2>1 DEF Init, IInv, TypeOK, StageInv, DataInv, IndexesInRange
<1>2. IInv /\ [Next]_vars => IInv'
  <2> SUFFICES ASSUME IInv, [Next]_vars PROVE IInv'
    OBVIOUS
  <2>1. CASE Again
    BY <2>1, FilesAssumption DEF Again, Goto, IInv, TypeOK, StageInv, DataInv, IndexesInRange,
       Accepted, HasPe, HasRoom, HasMz, HasDosHeader, Flag, Lfanew
  <2>2. CASE UNCHANGED vars
    BY <2>2 DEF vars, IInv, TypeOK, StageInv, DataInv, IndexesInRange,
       Accepted, HasPe, HasRoom, HasMz, HasDosHeader, Flag, Lfanew
  <2> QED
    BY <2>1, <2>2, CheckPreserves, PatchPreserves DEF Next
<1> QED
  BY <1>1, <1>2, PTL DEF Spec

-----------------------------------------------------------------------------
(* The properties *)

\* The file keeps its length, and its bytes stay bytes.
THEOREM TypeCorrect == Spec => []TypeOK
<1>1. IInv => TypeOK
  BY DEF IInv
<1> QED
  BY <1>1, Inductive, PTL

\* No index is out of range, for any file: the parser never panics.
THEOREM IndexesAreInRange == Spec => []IndexesInRange
<1>1. IInv => IndexesInRange
  BY DEF IInv
<1> QED
  BY <1>1, Inductive, PTL

\* However often a file is patched, one bit of it changes.
THEOREM OneBitChanges == Spec => []OnlyTheFlagChanges
<1>1. IInv => OnlyTheFlagChanges
  BY DEF IInv, DataInv, OnlyTheFlagChanges, Flag, Lfanew
<1> QED
  BY <1>1, Inductive, PTL

\* A patched file is accepted again, and left as it is.
THEOREM PatchingIsIdempotent == Spec => []PatchedAgainIsTheSame
<1>1. IInv => PatchedAgainIsTheSame
  <2> SUFFICES ASSUME IInv, patched PROVE PatchedAgainIsTheSame
    BY DEF PatchedAgainIsTheSame
  <2>1. Flag \in Nat /\ Flag < data.len /\ Flag < original.len
    BY NothingWraps DEF IInv, DataInv, Accepted, HasPe, HasRoom, HasMz, TypeOK, IsFile
  <2>2. At(data, Flag) = Cleared(At(original, Flag)) /\ pc # "rejected"
    BY <2>1 DEF IInv, DataInv, At
  <2> QED
    BY <2>2 DEF PatchedAgainIsTheSame, Flag, Lfanew
<1> QED
  BY <1>1, Inductive, PTL

=============================================================================
