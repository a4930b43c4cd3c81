-------------------------- MODULE SnapshotFileProofs --------------------------
(***************************************************************************)
(* Theorems about SnapshotFile, for any number of writers and readers on   *)
(* one path, any snapshots, and any size at which the LZ4 prefix wraps.    *)
(***************************************************************************)
EXTENDS SnapshotFile, TLAPS

-----------------------------------------------------------------------------
(* Types *)

\* A prefix of a file is a file.
LEMMA PrefixType ==
  ASSUME NEW s \in Payloads \cup Strangers, NEW n \in Nat
  PROVE  Prefix(s, n) \in [Offsets -> Cell] /\ Empty \in [Offsets -> Cell]
BY DEF Prefix, Empty, Cell

\* A step of a writer keeps the types.
LEMMA WriteType ==
  ASSUME TypeOK, NEW w \in Writers, Write(w)
  PROVE  TypeOK'
<1> USE PayloadAssumption DEF TypeOK
<1>1. CASE Create(w)
  BY <1>1, PrefixType DEF Create, Disturb, Empty, Cell
<1>2. CASE WriteCell(w)
  <2>1. wpos[w] + 1 \in Offsets /\ wpos' = [wpos EXCEPT ![w] = wpos[w] + 1]
    BY <1>2 DEF WriteCell, Offsets, HeaderLen
  <2>2. file' \in [Offsets -> Cell]
    BY <1>2, <2>1 DEF WriteCell, Cell
  <2>3. wpos' \in [Writers -> 0..MaxLen]
    BY <2>1 DEF Offsets
  <2>4. /\ disturbed' \in [Readers -> BOOLEAN]
        /\ opened' \in [Readers -> [Offsets -> Cell]]
    BY <1>2 DEF WriteCell, Disturb, Empty, Cell
  <2> QED
    BY <1>2, <2>2, <2>3, <2>4 DEF WriteCell, Disturb
<1>3. CASE CreateFails(w) \/ FinishWrite(w) \/ AbandonWrite(w)
  BY <1>3 DEF CreateFails, FinishWrite, AbandonWrite, files, readerVars
<1> QED
  BY <1>1, <1>2, <1>3 DEF Write

\* What a reader returns does not change the file.
LEMMA FinishType ==
  ASSUME TypeOK, NEW r \in Readers, NEW value \in Payloads \cup {Garbage, NoPayload},
         NEW outcome \in {"accepted", "rejected", "printed", "wrapped"},
         Finish(r, outcome, value)
  PROVE  TypeOK'
BY PayloadAssumption DEF TypeOK, Finish, Empty, Cell, files, writerVars, HeaderLen

\* Every way a reader ends is a Finish.
LEMMA EndIsFinish ==
  ASSUME NEW r \in Readers, OpenFails(r) \/ RejectHeader(r) \/ Decode(r) \/ PeekSize(r)
  PROVE  \E outcome \in {"accepted", "rejected", "printed", "wrapped"},
            value \in Payloads \cup {Garbage, NoPayload} : Finish(r, outcome, value)
<1>1. CASE OpenFails(r) \/ RejectHeader(r)
  BY <1>1 DEF OpenFails, RejectHeader, Reject
<1>2. CASE Decode(r)
  BY <1>2 DEF Decode, Reject
<1>3. CASE PeekSize(r)
  BY <1>3 DEF PeekSize
<1> QED
  BY <1>1, <1>2, <1>3

\* A step of a reader keeps the types; --peek never reads past the header.
LEMMA ReadType ==
  ASSUME TypeOK, NEW r \in Readers, Read(r)
  PROVE  TypeOK'
<1>1. CASE Open(r)
  BY <1>1 DEF TypeOK, Open, files, writerVars
<1>2. CASE ReadCell(r)
  <2>1. /\ rpos[r] + 1 \in Offsets
        /\ r \in Peekers => rpos[r] + 1 <= HeaderLen
    <3>1. rpos[r] + 1 \in Extent(r) /\ rpos[r] \in Nat
      BY <1>2 DEF TypeOK, ReadCell
    <3>2. Extent(r) \subseteq Offsets
      BY PayloadAssumption DEF Extent, Offsets, HeaderLen
    <3>3. r \in Peekers => Extent(r) = 1..HeaderLen
      BY DistinctAssumption DEF Extent
    <3> QED
      BY <3>1, <3>2, <3>3 DEF HeaderLen
  <2>2. /\ rpos' \in [Readers -> 0..MaxLen]
        /\ \A q \in Peekers : rpos'[q] <= HeaderLen
    BY <1>2, <2>1 DEF TypeOK, ReadCell, Offsets, Readers
  <2>3. view' \in [Readers -> [Offsets -> Cell]]
    BY <1>2, <2>1 DEF TypeOK, ReadCell
  <2> QED
    BY <1>2, <2>2, <2>3 DEF TypeOK, ReadCell, files, writerVars
<1>3. CASE OpenFails(r) \/ RejectHeader(r) \/ Decode(r) \/ PeekSize(r)
  BY <1>3, EndIsFinish, FinishType
<1> QED
  BY <1>1, <1>2, <1>3 DEF Read

\* Every variable keeps its type.
THEOREM TypeCorrect == Spec => []TypeOK
<1>1. Init => TypeOK
  <2> SUFFICES ASSUME Init PROVE TypeOK
    OBVIOUS
  <2>1. file \in [Offsets -> Cell] /\ Empty \in [Offsets -> Cell]
    <3>1. Empty \in [Offsets -> Cell]
      BY DEF Empty, Cell
    <3>2. \A s \in Strangers, n \in Offsets : Prefix(s, n) \in [Offsets -> Cell]
      BY PrefixType, PayloadAssumption DEF Offsets
    <3> QED
      BY <3>1, <3>2 DEF Init
  <2>2. 0 \in 0..MaxLen /\ 0 <= HeaderLen
    BY PayloadAssumption DEF HeaderLen
  <2> QED
    BY <2>1, <2>2 DEF Init, TypeOK, Readers
<1>2. TypeOK /\ [Next]_vars => TypeOK'
  <2>1. TypeOK /\ UNCHANGED vars => TypeOK'
    BY DEF TypeOK, vars, files, writerVars, readerVars
  <2> QED
    BY <2>1, WriteType, ReadType DEF Next
<1> QED
  BY <1>1, <1>2, PTL DEF Spec

-----------------------------------------------------------------------------
(* The writer that no other one disturbs *)

\* Unless two writers had the file open, only the one that created it last
\* writes, and what is on disk is what it has written so far.
SoleWriter ==
  /\ \A w \in Writers : wpc[w] = "idle" => wpos[w] = 0
  /\ ~collided =>
       /\ Writing \subseteq {latest}
       /\ wpc[latest] = "writing" => file = Prefix(job[latest], wpos[latest])
       /\ wpc[latest] = "done" => file = Image(job[latest])

\* One more cell makes the next prefix.
LEMMA NextPrefix ==
  ASSUME TypeOK, NEW w \in Writers, WriteCell(w), file = Prefix(job[w], wpos[w])
  PROVE  file' = Prefix(job'[w], wpos'[w])
<1>1. wpos[w] \in Nat /\ \A o \in Offsets : o \in Nat /\ o > 0
  BY PayloadAssumption DEF TypeOK, Offsets
<1>2. job'[w] = job[w] /\ wpos'[w] = wpos[w] + 1
  BY DEF WriteCell, TypeOK
<1>3. ASSUME NEW o \in Offsets
      PROVE  file'[o] = IF o <= wpos[w] + 1 THEN [of |-> job[w], at |-> o] ELSE Eof
  <2>1. file[o] = IF o <= wpos[w] THEN [of |-> job[w], at |-> o] ELSE Eof
    BY DEF Prefix
  <2>2. [of |-> job[w], at |-> o] # Eof
    BY <1>1 DEF Eof
  <2>3. file'[o] = CASE o = wpos[w] + 1 -> [of |-> job[w], at |-> o]
                     [] o < wpos[w] + 1 /\ file[o] = Eof -> Zero
                     [] OTHER -> file[o]
    BY DEF WriteCell
  <2>4. CASE o = wpos[w] + 1
    BY <1>1, <2>3, <2>4
  <2>5. CASE o < wpos[w] + 1
    BY <1>1, <2>1, <2>2, <2>3, <2>5
  <2>6. CASE o > wpos[w] + 1
    BY <1>1, <2>1, <2>3, <2>6
  <2> QED
    BY <1>1, <2>4, <2>5, <2>6
<1>4. file' = [o \in Offsets |-> file'[o]]
  BY DEF WriteCell
<1> QED
  BY <1>2, <1>3, <1>4 DEF Prefix

\* SoleWriter is kept by every step.
LEMMA SoleWriterKept ==
  ASSUME TypeOK, SoleWriter, [Next]_vars
  PROVE  SoleWriter'
<1>1. CASE UNCHANGED vars
  BY <1>1 DEF SoleWriter, Writing, vars, files, writerVars
<1>2. ASSUME NEW r \in Readers, Read(r) PROVE SoleWriter'
  <2>1. UNCHANGED <<files, writerVars>>
    BY <1>2, EndIsFinish DEF Read, Open, ReadCell, Finish
  <2> QED
    BY <2>1 DEF SoleWriter, Writing, files, writerVars
<1>3. ASSUME NEW w \in Writers, Write(w) PROVE SoleWriter'
  <2>1. CASE Create(w)
    <3>1. Prefix(job[w], 0) = Empty
      BY DEF Prefix, Empty, Offsets
    <3> QED
      BY <2>1, <3>1 DEF SoleWriter, Writing, Create, TypeOK
  <2>2. CASE WriteCell(w)
    <3>1. \A v \in Writers : wpc'[v] = "idle" => wpos'[v] = 0
      BY <2>2 DEF SoleWriter, WriteCell, TypeOK
    <3>2. ASSUME ~collided PROVE w = latest /\ file = Prefix(job[w], wpos[w])
      BY <2>2, <3>2 DEF SoleWriter, WriteCell, Writing
    <3>3. ~collided => file' = Prefix(job'[latest], wpos'[latest])
      BY <2>2, <3>2, NextPrefix
    <3> QED
      BY <2>2, <3>1, <3>2, <3>3 DEF SoleWriter, WriteCell, Writing
  <2>3. CASE FinishWrite(w)
    BY <2>3 DEF SoleWriter, FinishWrite, Writing, Image, TypeOK, files
  <2>4. CASE CreateFails(w) \/ AbandonWrite(w)
    BY <2>4 DEF SoleWriter, CreateFails, AbandonWrite, Writing, TypeOK, files
  <2> QED
    BY <1>3, <2>1, <2>2, <2>3, <2>4 DEF Write
<1> QED
  BY <1>1, <1>2, <1>3 DEF Next

\* A --snapshot that reports success, and that no other writer disturbed, has
\* left exactly its snapshot on disk.
THEOREM ReportedSnapshotsAreOnDisk == Spec => []DoneIsOnDisk
<1>1. Init => SoleWriter
  BY DEF Init, SoleWriter, Writing
<1>2. SoleWriter => DoneIsOnDisk
  BY DEF SoleWriter, DoneIsOnDisk
<1> QED
  BY <1>1, <1>2, SoleWriterKept, TypeCorrect, PTL DEF Spec

-----------------------------------------------------------------------------
(* The reader that no writer disturbs *)

\* A file that one writer at a time has worked on: the first cells of something.
Shaped(f) ==
  \E s \in Payloads \cup Strangers, n \in 0..MaxLen :
    f = Prefix(s, n) /\ (s \in Payloads => n <= Length[s])

FileShape == ~collided => Shaped(file)

\* What UndisturbedRead asks of one restorer.
ReadCorrectly(r) ==
  IF \E p \in Payloads : Decompresses(p) /\ opened[r] = Image(p)
  THEN rpc[r] = "accepted" /\ opened[r] = Image(result[r])
  ELSE rpc[r] = "rejected"

\* An undisturbed reader has seen the beginning of the file that it opened, and
\* every field it has passed was good.
SeesBeginning(r) ==
  /\ Writing = {} /\ file = opened[r] /\ Shaped(file)
  /\ \A o \in Offsets : view[r][o] = IF o <= rpos[r] THEN file[o] ELSE Eof
  /\ \A o \in Offsets : o <= rpos[r] => file[o] # Eof /\ FieldOk(r, o, file[o])

ReaderInv(r) ==
  /\ rpc[r] = "idle" => rpos[r] = 0 /\ view[r] = Empty /\ opened[r] = Empty
                         /\ ~disturbed[r]
  /\ rpc[r] = "reading" /\ ~disturbed[r] => SeesBeginning(r)
  /\ rpc[r] \in {"accepted", "rejected"} /\ ~disturbed[r] /\ r \in Restorers
       => ReadCorrectly(r)

ReadersInv == \A r \in Readers : ReaderInv(r)

\* The cells of a complete file: none is missing, and each names its snapshot.
LEMMA ImageCells ==
  ASSUME NEW p \in Payloads
  PROVE  /\ \A o \in Offsets : Image(p)[o] = IF o <= Length[p] THEN [of |-> p, at |-> o] ELSE Eof
         /\ \A s : \A o \in Offsets : [of |-> s, at |-> o] # Eof
         /\ Length[p] \in Offsets /\ Length[p] > HeaderLen
         /\ 1..5 \subseteq Offsets
BY PayloadAssumption DEF Image, Prefix, Eof, Offsets, HeaderLen

\* Different snapshots make different files, and none makes an empty one.
LEMMA ImagesDiffer ==
  ASSUME NEW p \in Payloads, NEW q \in Payloads
  PROVE  (Image(p) = Image(q) => p = q) /\ Image(p) # Empty
<1>1. 1 \in Offsets /\ Image(p)[1] = [of |-> p, at |-> 1] /\ Image(q)[1] = [of |-> q, at |-> 1]
  BY ImageCells DEF Offsets, HeaderLen
<1> QED
  BY <1>1, ImageCells DEF Empty

\* The header of a complete file passes every check.
LEMMA HeaderIsGood ==
  ASSUME NEW p \in Payloads, NEW r \in Readers, NEW o \in Offsets, o <= Length[p]
  PROVE  Image(p)[o] # Eof /\ FieldOk(r, o, Image(p)[o])
<1>1. Image(p)[o] = [of |-> p, at |-> o] /\ [of |-> p, at |-> o] # Eof
  BY ImageCells
<1>2. Image(p)[o].of = p
  BY <1>1
<1> QED
  BY <1>1, <1>2 DEF FieldOk

\* At the end of the file an undisturbed restorer has all of it in its view, and
\* it is the beginning of a snapshot.
LEMMA AtEnd ==
  ASSUME TypeOK, NEW r \in Restorers, SeesBeginning(r), rpos[r] >= HeaderLen,
         rpos[r] < MaxLen => file[rpos[r] + 1] = Eof
  PROVE  /\ view[r] = file
         /\ \E p \in Payloads, n \in HeaderLen..MaxLen :
              n <= Length[p] /\ file = Prefix(p, n)
<1>1. r \in Readers /\ rpos[r] \in 0..MaxLen /\ MaxLen \in Nat /\ MaxLen > 4
  BY PayloadAssumption DEF TypeOK, Readers, HeaderLen
<1>2. PICK s \in Payloads \cup Strangers, n \in 0..MaxLen :
        file = Prefix(s, n) /\ (s \in Payloads => n <= Length[s])
  BY DEF SeesBeginning, Shaped
<1>3. \A o \in Offsets : file[o] = IF o <= n THEN [of |-> s, at |-> o] ELSE Eof
  BY <1>2 DEF Prefix
<1>4. \A o \in Offsets : [of |-> s, at |-> o] # Eof
  BY DEF Eof, Offsets
<1>5. n = rpos[r]
  <2>1. rpos[r] <= n
    <3>1. rpos[r] \in Offsets
      BY <1>1 DEF Offsets, HeaderLen
    <3>2. file[rpos[r]] # Eof
      BY <3>1, <1>1 DEF SeesBeginning
    <3> QED
      BY <3>1, <3>2, <1>3
  <2>2. n <= rpos[r]
    <3>1. CASE rpos[r] = MaxLen
      BY <3>1, <1>1
    <3>2. CASE rpos[r] < MaxLen
      <4>1. rpos[r] + 1 \in Offsets /\ file[rpos[r] + 1] = Eof
        BY <3>2, <1>1 DEF Offsets
      <4>2. ~(rpos[r] + 1 <= n)
        BY <4>1, <1>3, <1>4
      <4> QED
        BY <4>2, <1>1
    <3> QED
      BY <3>1, <3>2, <1>1
  <2> QED
    BY <2>1, <2>2, <1>1
<1>6. view[r] = file
  <2>1. \A o \in Offsets : view[r][o] = file[o]
    BY <1>3, <1>5 DEF SeesBeginning
  <2>2. view[r] = [o \in Offsets |-> view[r][o]] /\ file = [o \in Offsets |-> file[o]]
    BY <1>1 DEF TypeOK
  <2> QED
    BY <2>1, <2>2
<1>7. s \in Payloads
  <2>1. 2 \in Offsets /\ 2 <= rpos[r]
    BY <1>1 DEF Offsets, HeaderLen
  <2>2. file[2] = [of |-> s, at |-> 2] /\ FieldOk(r, 2, file[2])
    BY <2>1, <1>3, <1>5 DEF SeesBeginning
  <2> QED
    BY <2>2 DEF FieldOk
<1> QED
  BY <1>1, <1>2, <1>5, <1>6, <1>7 DEF HeaderLen

\* A view that is the beginning of one snapshot is whole or torn, not both.
LEMMA WholeOrTorn ==
  ASSUME NEW p \in Payloads, NEW n \in HeaderLen..MaxLen, n <= Length[p],
         NEW v, v = Prefix(p, n)
  PROVE  /\ n = Length[p] => v = Image(p) /\ WholeBlock(v, p) /\ ~TornBlock(v)
         /\ n < Length[p] => TornBlock(v) /\ \A q \in Payloads : ~WholeBlock(v, q)
         /\ \A q \in Payloads : WholeBlock(v, q) => q = p
<1>1. /\ \A q \in Payloads : Length[q] \in Nat /\ Length[q] >= 5 /\ Length[q] <= MaxLen
      /\ MaxLen \in Nat /\ MaxLen >= 5 /\ n \in Nat /\ n >= 4 /\ n <= MaxLen
      /\ Block \subseteq Offsets /\ 5 \in Block
      /\ \A o \in Offsets : o \in Nat /\ o > 0
      /\ \A o \in Nat : o >= 5 /\ o <= MaxLen => o \in Block
  BY PayloadAssumption DEF HeaderLen, Block, Offsets
<1>2. \A s : \A m \in Nat : \A o \in Block :
        Prefix(s, m)[o] = IF o <= m THEN [of |-> s, at |-> o] ELSE Eof
  BY <1>1 DEF Prefix
<1>3. \A s : \A o \in Offsets : [of |-> s, at |-> o] # Eof
  BY <1>1 DEF Eof
<1>4. \A s, t : \A o \in Offsets : [of |-> s, at |-> o] = [of |-> t, at |-> o] => s = t
  OBVIOUS
<1>5. ASSUME NEW q \in Payloads, NEW m \in Nat, m >= 4, m <= MaxLen, BlockIs(v, q, m)
      PROVE  n = m /\ (n > 4 => q = p)
  <2>1. \A o \in Block : Prefix(p, n)[o] = Prefix(q, m)[o]
    BY <1>5 DEF BlockIs
  <2>2. ~(n < m)
    <3>1. SUFFICES ASSUME n < m PROVE FALSE
      OBVIOUS
    <3>2. n + 1 \in Block /\ n + 1 \in Offsets
      BY <3>1, <1>1, <1>5
    <3>3. n + 1 <= m /\ ~(n + 1 <= n)
      BY <3>1, <1>1
    <3>4. Prefix(p, n)[n + 1] = Eof /\ Prefix(q, m)[n + 1] = [of |-> q, at |-> n + 1]
      BY <3>2, <3>3, <1>1, <1>2
    <3> QED
      BY <3>2, <3>4, <2>1, <1>3
  <2>3. ~(m < n)
    <3>1. SUFFICES ASSUME m < n PROVE FALSE
      OBVIOUS
    <3>2. m + 1 \in Block /\ m + 1 \in Offsets
      BY <3>1, <1>1, <1>5
    <3>3. m + 1 <= n /\ ~(m + 1 <= m)
      BY <3>1, <1>1
    <3>4. Prefix(q, m)[m + 1] = Eof /\ Prefix(p, n)[m + 1] = [of |-> p, at |-> m + 1]
      <4>1. n \in Nat
        BY <1>1
      <4>2. Prefix(p, n)[m + 1] = [of |-> p, at |-> m + 1]
        BY <4>1, <3>2, <3>3, <1>2
      <4>3. Prefix(q, m)[m + 1] = Eof
        BY <3>2, <3>3, <1>2
      <4> QED
        BY <4>2, <4>3
    <3> QED
      BY <3>2, <3>4, <2>1, <1>3
  <2>4. n = m
    BY <2>2, <2>3, <1>1
  <2>5. ASSUME n > 4 PROVE q = p
    <3>1. Prefix(p, n)[5] = [of |-> p, at |-> 5] /\ Prefix(q, m)[5] = [of |-> q, at |-> 5]
      BY <2>4, <2>5, <1>1, <1>2
    <3> QED
      BY <3>1, <2>1, <1>1, <1>4
  <2> QED
    BY <2>4, <2>5
<1>6. BlockIs(v, p, n)
  BY DEF BlockIs
<1>7. \A q \in Payloads : WholeBlock(v, q) => n = Length[q] /\ q = p
  BY <1>1, <1>5 DEF WholeBlock
<1>8. TornBlock(v) => n < Length[p]
  <2>1. SUFFICES ASSUME NEW q \in Payloads, NEW m \in HeaderLen..MaxLen,
                        m < Length[q], BlockIs(v, q, m)
                 PROVE  n < Length[p]
    BY DEF TornBlock
  <2>2. m \in Nat /\ m >= 4 /\ m <= MaxLen
    BY DEF HeaderLen
  <2>3. n = m /\ (n > 4 => q = p)
    BY <2>1, <2>2, <1>5
  <2>4. CASE n > 4
    BY <2>1, <2>3, <2>4
  <2>5. CASE n = 4
    BY <2>5, <1>1
  <2> QED
    BY <2>4, <2>5, <1>1
<1> QED
  BY <1>1, <1>6, <1>7, <1>8 DEF WholeBlock, TornBlock, Image

\* What an undisturbed restorer decides at the end of the file is right.
LEMMA DecodeIsRight ==
  ASSUME TypeOK, NEW r \in Restorers, SeesBeginning(r), Decode(r)
  PROVE  ReadCorrectly(r)'
<1>1. /\ rpos[r] >= HeaderLen
      /\ rpos[r] < MaxLen => file[rpos[r] + 1] = Eof
  BY DEF Decode
<1>2. PICK p \in Payloads, n \in HeaderLen..MaxLen : n <= Length[p] /\ file = Prefix(p, n)
  BY <1>1, AtEnd
<1>3. view[r] = file /\ file = opened[r]
  BY <1>1, AtEnd DEF SeesBeginning
<1>4. opened'[r] = opened[r] /\ DOMAIN rpc = Readers /\ DOMAIN result = Readers /\ r \in Readers
  <2>1. r \in Readers
    BY DEF Readers
  <2>2. opened' = opened
    BY <2>1, EndIsFinish DEF Finish
  <2> QED
    BY <2>1, <2>2 DEF TypeOK
<1>5. /\ n = Length[p] => opened[r] = Image(p) /\ WholeBlock(view[r], p) /\ ~TornBlock(view[r])
      /\ n < Length[p] => TornBlock(view[r]) /\ \A q \in Payloads : ~WholeBlock(view[r], q)
      /\ \A q \in Payloads : WholeBlock(view[r], q) => q = p
  <2>1. view[r] = Prefix(p, n) /\ opened[r] = view[r]
    BY <1>2, <1>3
  <2> QED
    BY <2>1, <1>2, WholeOrTorn
<1>6. \A q \in Payloads : opened[r] = Image(q) => q = p /\ n = Length[p]
  <2>1. SUFFICES ASSUME NEW q \in Payloads, opened[r] = Image(q) PROVE q = p /\ n = Length[p]
    OBVIOUS
  <2>2. WholeBlock(view[r], q)
    BY <2>1, <1>3 DEF WholeBlock, BlockIs, Image
  <2> QED
    BY <2>2, <1>2, <1>5, PayloadAssumption DEF HeaderLen
<1>7. CASE n < Length[p]
  <2>1. Reject(r)
    BY <1>5, <1>7 DEF Decode
  <2>2. rpc'[r] = "rejected"
    BY <2>1, <1>4 DEF Reject, Finish
  <2>3. n # Length[p]
    BY <1>7, <1>2, PayloadAssumption DEF HeaderLen
  <2> QED
    BY <2>2, <2>3, <1>4, <1>6 DEF ReadCorrectly
<1>8. CASE n = Length[p]
  <2>1. SizeMatches(view[r][4], p)
    <3>1. view[r][4] = [of |-> p, at |-> 4]
      BY <1>3, <1>5, <1>8, ImageCells DEF HeaderLen
    <3>2. view[r][4].of = p
      BY <3>1
    <3> QED
      BY <3>2 DEF SizeMatches
  <2>2. IF Decompresses(p) THEN Finish(r, "accepted", p) ELSE Reject(r)
    BY <2>1, <1>5, <1>8 DEF Decode
  <2>3. CASE Decompresses(p)
    <3>1. rpc'[r] = "accepted" /\ result'[r] = p
      BY <2>2, <2>3, <1>4 DEF Finish
    <3> QED
      BY <3>1, <2>3, <1>4, <1>5, <1>8 DEF ReadCorrectly
  <2>4. CASE ~Decompresses(p)
    <3>1. rpc'[r] = "rejected"
      BY <2>2, <2>4, <1>4 DEF Reject, Finish
    <3> QED
      BY <3>1, <2>4, <1>4, <1>6 DEF ReadCorrectly
  <2> QED
    BY <2>3, <2>4
<1> QED
  BY <1>2, <1>7, <1>8, PayloadAssumption DEF HeaderLen

\* A rejected header is not that of a complete snapshot.
LEMMA RejectIsRight ==
  ASSUME TypeOK, NEW r \in Restorers, SeesBeginning(r), RejectHeader(r)
  PROVE  ReadCorrectly(r)'
<1>1. r \in Readers /\ rpos[r] \in 0..MaxLen
  BY DEF TypeOK, Readers
<1>2. opened' = opened /\ rpc'[r] = "rejected"
  BY <1>1 DEF RejectHeader, Reject, Finish, TypeOK
<1>3. \A p \in Payloads : opened[r] # Image(p)
  <2>1. SUFFICES ASSUME NEW p \in Payloads, file = Image(p) PROVE FALSE
    BY DEF SeesBeginning
  <2>2. rpos[r] + 1 \in Offsets /\ rpos[r] + 1 <= Length[p]
    BY <1>1, PayloadAssumption DEF RejectHeader, Offsets, HeaderLen
  <2>3. file[rpos[r] + 1] # Eof /\ FieldOk(r, rpos[r] + 1, file[rpos[r] + 1])
    BY <1>1, <2>1, <2>2, HeaderIsGood
  <2> QED
    BY <2>3 DEF RejectHeader
<1> QED
  BY <1>2, <1>3 DEF ReadCorrectly

\* Undisturbed writers keep the shape of the file.
LEMMA FileShapeKept ==
  ASSUME TypeOK, SoleWriter, FileShape, [Next]_vars
  PROVE  FileShape'
<1>1. CASE UNCHANGED vars
  BY <1>1 DEF FileShape, vars, files, writerVars
<1>2. ASSUME NEW r \in Readers, Read(r) PROVE FileShape'
  BY <1>2, EndIsFinish DEF FileShape, Read, Open, ReadCell, Finish, files, writerVars
<1>3. ASSUME NEW w \in Writers, Write(w) PROVE FileShape'
  <2>1. CASE Create(w)
    <3>1. Empty = Prefix(Foreign, 0)
      BY DEF Empty, Prefix, Offsets
    <3>2. Foreign \in Strangers /\ Foreign \notin Payloads /\ 0 \in 0..MaxLen
      BY DistinctAssumption, PayloadAssumption DEF Strangers
    <3> QED
      BY <2>1, <3>1, <3>2 DEF FileShape, Shaped, Create
  <2>2. CASE WriteCell(w)
    <3>1. SUFFICES ASSUME ~collided PROVE Shaped(file')
      BY <2>2 DEF FileShape, WriteCell
    <3>2. w = latest /\ file = Prefix(job[w], wpos[w])
      BY <2>2, <3>1 DEF SoleWriter, WriteCell, Writing
    <3>3. file' = Prefix(job[w], wpos[w] + 1)
      BY <2>2, <3>2, NextPrefix DEF WriteCell, TypeOK
    <3>4. job[w] \in Payloads /\ wpos[w] + 1 \in 0..MaxLen /\ wpos[w] + 1 <= Length[job[w]]
      BY <2>2, PayloadAssumption DEF WriteCell, TypeOK, HeaderLen
    <3> QED
      BY <3>3, <3>4 DEF Shaped
  <2>3. CASE CreateFails(w) \/ FinishWrite(w) \/ AbandonWrite(w)
    BY <2>3 DEF FileShape, CreateFails, FinishWrite, AbandonWrite, files
  <2> QED
    BY <1>3, <2>1, <2>2, <2>3 DEF Write
<1> QED
  BY <1>1, <1>2, <1>3 DEF Next

\* A writer that changes the file marks every reader that has it open.
LEMMA WritersKeepReaders ==
  ASSUME TypeOK, ReadersInv, NEW w \in Writers, Write(w)
  PROVE  ReadersInv'
<1> SUFFICES ASSUME NEW r \in Readers PROVE ReaderInv(r)'
  BY DEF ReadersInv
<1>1. ReaderInv(r)
  BY DEF ReadersInv
<1>2. CASE Create(w) \/ WriteCell(w)
  <2>1. /\ rpc' = rpc /\ rpos' = rpos /\ view' = view /\ result' = result
        /\ rpc[r] = "reading" => disturbed'[r]
        /\ rpc[r] # "reading" => opened'[r] = opened[r] /\ disturbed'[r] = disturbed[r]
    BY <1>2 DEF Create, WriteCell, Disturb, TypeOK
  <2> QED
    BY <1>1, <2>1 DEF ReaderInv, ReadCorrectly
<1>3. CASE CreateFails(w) \/ FinishWrite(w) \/ AbandonWrite(w)
  <2>1. UNCHANGED <<files, readerVars>> /\ (Writing = {} => Writing' = {})
    BY <1>3 DEF CreateFails, FinishWrite, AbandonWrite, Writing, TypeOK
  <2> QED
    BY <1>1, <2>1 DEF ReaderInv, SeesBeginning, ReadCorrectly, files, readerVars
<1> QED
  BY <1>2, <1>3 DEF Write

\* A reader keeps what is known of itself.
LEMMA ReaderKeepsItself ==
  ASSUME TypeOK, FileShape, NEW r \in Readers, ReaderInv(r), Read(r)
  PROVE  ReaderInv(r)'
<1>1. CASE Open(r)
  <2>1. /\ rpc'[r] = "reading" /\ opened'[r] = file /\ file' = file /\ Writing' = Writing
        /\ rpos'[r] = 0 /\ view'[r] = Empty
        /\ disturbed'[r] = (collided \/ Writing # {})
    BY <1>1 DEF Open, TypeOK, ReaderInv, files, writerVars, Writing
  <2>2. \A o \in Offsets : ~(o <= 0) /\ Empty[o] = Eof
    BY PayloadAssumption DEF Offsets, Empty
  <2> QED
    BY <2>1, <2>2 DEF ReaderInv, SeesBeginning, FileShape
<1>2. CASE ReadCell(r)
  <2>1. /\ rpc'[r] = "reading" /\ opened' = opened /\ file' = file /\ Writing' = Writing
        /\ disturbed' = disturbed /\ rpos'[r] = rpos[r] + 1
        /\ \A o \in Offsets :
             view'[r][o] = IF o = rpos[r] + 1 THEN file[o] ELSE view[r][o]
    BY <1>2 DEF ReadCell, TypeOK, files, writerVars, Writing
  <2>2. rpos[r] \in Nat /\ \A o \in Offsets : o \in Nat
    BY PayloadAssumption DEF TypeOK, Offsets
  <2>3. file[rpos[r] + 1] # Eof /\ FieldOk(r, rpos[r] + 1, file[rpos[r] + 1])
    BY <1>2 DEF ReadCell
  <2>4. ASSUME ~disturbed[r] PROVE SeesBeginning(r)'
    <3>1. SeesBeginning(r)
      BY <1>2, <2>4 DEF ReaderInv, ReadCell
    <3>2. \A o \in Offsets : o <= rpos[r] + 1 <=> o <= rpos[r] \/ o = rpos[r] + 1
      BY <2>2
    <3>3. \A o \in Offsets : o <= rpos'[r] => file'[o] # Eof /\ FieldOk(r, o, file'[o])
      BY <2>1, <2>3, <3>1, <3>2 DEF SeesBeginning
    <3>4. \A o \in Offsets : view'[r][o] = IF o <= rpos'[r] THEN file'[o] ELSE Eof
      BY <2>1, <3>1, <3>2 DEF SeesBeginning
    <3> QED
      BY <2>1, <3>1, <3>3, <3>4 DEF SeesBeginning
  <2> QED
    BY <2>1, <2>4 DEF ReaderInv
<1>3. CASE OpenFails(r) \/ RejectHeader(r) \/ Decode(r) \/ PeekSize(r)
  <2>1. /\ rpc'[r] \in {"accepted", "rejected", "printed", "wrapped"}
        /\ opened' = opened /\ disturbed' = disturbed
    BY <1>3, EndIsFinish DEF Finish, TypeOK
  <2>2. ASSUME r \in Restorers, ~disturbed[r] PROVE ReadCorrectly(r)'
    <3>1. CASE OpenFails(r)
      <4>1. opened[r] = Empty /\ rpc'[r] = "rejected"
        BY <3>1 DEF OpenFails, Reject, Finish, ReaderInv, TypeOK
      <4> QED
        BY <4>1, <2>1, ImagesDiffer DEF ReadCorrectly
    <3>2. CASE RejectHeader(r)
      BY <2>2, <3>2, RejectIsRight DEF ReaderInv, RejectHeader
    <3>3. CASE Decode(r)
      BY <2>2, <3>3, DecodeIsRight DEF ReaderInv, Decode
    <3>4. CASE PeekSize(r)
      BY <2>2, <3>4, DistinctAssumption DEF PeekSize
    <3> QED
      BY <1>3, <3>1, <3>2, <3>3, <3>4
  <2> QED
    BY <2>1, <2>2 DEF ReaderInv
<1> QED
  BY <1>1, <1>2, <1>3 DEF Read

\* ... and of the others.
LEMMA ReadersKeepReaders ==
  ASSUME TypeOK, FileShape, ReadersInv, NEW r \in Readers, Read(r)
  PROVE  ReadersInv'
<1>1. ReaderInv(r)'
  BY ReaderKeepsItself DEF ReadersInv
<1>2. ASSUME NEW q \in Readers, q # r PROVE ReaderInv(q)'
  <2>1. /\ UNCHANGED <<files, writerVars>>
        /\ rpc'[q] = rpc[q] /\ rpos'[q] = rpos[q] /\ view'[q] = view[q]
        /\ result'[q] = result[q] /\ opened'[q] = opened[q] /\ disturbed'[q] = disturbed[q]
    <3>1. CASE Open(r) \/ ReadCell(r)
      BY <1>2, <3>1 DEF Open, ReadCell, TypeOK
    <3>2. CASE OpenFails(r) \/ RejectHeader(r) \/ Decode(r) \/ PeekSize(r)
      BY <1>2, <3>2, EndIsFinish DEF Finish, TypeOK
    <3> QED
      BY <3>1, <3>2 DEF Read
  <2> QED
    BY <2>1 DEF ReadersInv, ReaderInv, SeesBeginning, ReadCorrectly, Writing, files, writerVars
<1> QED
  BY <1>1, <1>2 DEF ReadersInv

FileInv == SoleWriter /\ FileShape /\ ReadersInv

\* The three hold together, whoever writes and reads.
LEMMA FileInvariant == Spec => []FileInv
<1>1. Init => FileInv
  <2> SUFFICES ASSUME Init PROVE FileInv
    OBVIOUS
  <2>1. SoleWriter
    BY DEF Init, SoleWriter, Writing
  <2>2. FileShape
    <3>1. Empty = Prefix(Foreign, 0)
      BY DEF Empty, Prefix, Offsets
    <3>2. Strangers \cap Payloads = {} /\ Foreign \in Strangers /\ 0 \in 0..MaxLen
          /\ Offsets \subseteq 0..MaxLen
      BY DistinctAssumption, PayloadAssumption DEF Strangers, Offsets
    <3> QED
      BY <3>1, <3>2 DEF Init, FileShape, Shaped
  <2>3. ReadersInv
    BY DEF Init, ReadersInv, ReaderInv
  <2> QED
    BY <2>1, <2>2, <2>3 DEF FileInv
<1>2. TypeOK /\ FileInv /\ [Next]_vars => FileInv'
  <2> SUFFICES ASSUME TypeOK, FileInv, [Next]_vars PROVE FileInv'
    OBVIOUS
  <2>1. SoleWriter' /\ FileShape'
    BY SoleWriterKept, FileShapeKept DEF FileInv
  <2>2. CASE UNCHANGED vars
    BY <2>1, <2>2 DEF FileInv, ReadersInv, ReaderInv, SeesBeginning, ReadCorrectly, Writing,
                      vars, files, writerVars, readerVars
  <2>3. CASE Next
    BY <2>1, <2>3, WritersKeepReaders, ReadersKeepReaders DEF Next, FileInv
  <2> QED
    BY <2>2, <2>3
<1> QED
  BY <1>1, <1>2, TypeCorrect, PTL DEF Spec

\* A restore that no writer disturbs returns the snapshot that is in the file
\* when there is a complete one of a size that LZ4 can hold, and an error
\* otherwise.
THEOREM UndisturbedReadsAreRight == Spec => []UndisturbedRead
<1>1. FileInv => UndisturbedRead
  BY DEF FileInv, ReadersInv, ReaderInv, ReadCorrectly, UndisturbedRead, Readers
<1> QED
  BY <1>1, FileInvariant, PTL

\* When no snapshot is so long that its length wraps in the u32 that LZ4 puts in
\* front of the block, every complete snapshot can be restored: the length is
\* the only reason why read_snapshot refuses one.
THEOREM ShortSnapshotsAreReadable ==
  (\A p \in Payloads : RawLen[p] < SizeMod) => (Spec => []CompleteSnapshotIsReadable)
<1> SUFFICES ASSUME \A p \in Payloads : RawLen[p] < SizeMod
             PROVE  Spec => []CompleteSnapshotIsReadable
  OBVIOUS
<1>1. \A p \in Payloads : Decompresses(p)
  <2> SUFFICES ASSUME NEW p \in Payloads PROVE Decompresses(p)
    OBVIOUS
  <2>1. RawLen[p] \in Nat /\ RawLen[p] < SizeMod /\ SizeMod \in Nat \ {0}
    BY PayloadAssumption
  <2>2. RawLen[p] % SizeMod = RawLen[p]
    BY <2>1
  <2> QED
    BY <2>1, <2>2 DEF Decompresses, PrependedSize
<1>2. UndisturbedRead => CompleteSnapshotIsReadable
  BY <1>1 DEF UndisturbedRead, CompleteSnapshotIsReadable
<1> QED
  BY <1>2, UndisturbedReadsAreRight, PTL

\* A peek that has read the header, and that no writer disturbs, finds a file
\* that is at least as long.
LEMMA PeekSeesHeader ==
  ASSUME ReadersInv, NEW r \in Readers, PeekSize(r), ~disturbed[r]
  PROVE  Finish(r, "printed", NoPayload)
<1>1. rpc[r] = "reading" /\ rpos[r] = HeaderLen
  BY DEF PeekSize, PeekAtEnd
<1>2. SeesBeginning(r)
  BY <1>1 DEF ReadersInv, ReaderInv
<1>3. HeaderLen \in Offsets /\ HeaderLen <= rpos[r]
  BY <1>1, PayloadAssumption DEF HeaderLen, Offsets
<1>4. file[HeaderLen] # Eof
  BY <1>2, <1>3 DEF SeesBeginning
<1> QED
  BY <1>4 DEF PeekSize

\* The size that --peek prints is kept sound by every step.
LEMMA PeekSizeKept ==
  ASSUME TypeOK, ReadersInv, PeekSizeIsSound, [Next]_vars
  PROVE  PeekSizeIsSound'
<1>1. CASE UNCHANGED vars
  BY <1>1 DEF PeekSizeIsSound, vars, readerVars
<1>2. ASSUME NEW w \in Writers, Write(w) PROVE PeekSizeIsSound'
  <2>1. rpc' = rpc /\ \A r \in Readers : disturbed[r] => disturbed'[r]
    BY <1>2 DEF Write, Create, CreateFails, WriteCell, FinishWrite, AbandonWrite, Disturb,
       readerVars, TypeOK
  <2> QED
    BY <2>1 DEF PeekSizeIsSound, Readers
<1>3. ASSUME NEW r \in Readers, Read(r) PROVE PeekSizeIsSound'
  <2>1. CASE Open(r)
    BY <2>1 DEF PeekSizeIsSound, Open, TypeOK, Readers
  <2>2. CASE ReadCell(r)
    BY <2>2 DEF PeekSizeIsSound, ReadCell
  <2>3. ASSUME NEW outcome \in {"accepted", "rejected", "printed"}, NEW value,
               Finish(r, outcome, value)
        PROVE  PeekSizeIsSound'
    BY <2>3 DEF PeekSizeIsSound, Finish, TypeOK, Readers
  <2>4. CASE OpenFails(r) \/ RejectHeader(r) \/ Decode(r)
    <3>1. \E outcome \in {"accepted", "rejected", "printed"} :
            \E value : Finish(r, outcome, value)
      BY <2>4 DEF OpenFails, RejectHeader, Decode, Reject
    <3> QED
      BY <2>3, <3>1
  <2>5. CASE PeekSize(r)
    <3>1. CASE disturbed[r]
      BY <2>5, <3>1 DEF PeekSizeIsSound, PeekSize, Finish, TypeOK, Readers
    <3>2. CASE ~disturbed[r]
      BY <2>3, <2>5, <3>2, PeekSeesHeader
    <3> QED
      BY <3>1, <3>2
  <2> QED
    BY <1>3, <2>1, <2>2, <2>4, <2>5 DEF Read
<1> QED
  BY <1>1, <1>2, <1>3 DEF Next

\* The subtraction in peek_snapshot_header wraps only when a writer has the file
\* open while it is peeked at.
THEOREM PeeksAreSound == Spec => []PeekSizeIsSound
<1>1. Init => PeekSizeIsSound
  BY DEF Init, PeekSizeIsSound, Readers
<1>2. TypeOK /\ FileInv /\ PeekSizeIsSound /\ [Next]_vars => PeekSizeIsSound'
  BY PeekSizeKept DEF FileInv
<1> QED
  BY <1>1, <1>2, TypeCorrect, FileInvariant, PTL DEF Spec

-----------------------------------------------------------------------------
(* Refinement of SafeRegister *)

\* What SafeRegister calls value, reader, due and result.
Value == IF collided THEN Garbage ELSE Held(file)
Status == [r \in Restorers |-> rpc[r]]
Due == [r \in Restorers |-> IF disturbed[r] THEN Garbage ELSE Held(opened[r])]
Returned == [r \in Restorers |-> result[r]]

\* A complete file holds its own snapshot, whatever is compared with it.
LEMMA HeldIsIt ==
  ASSUME NEW p \in Payloads
  PROVE  Held(Image(p)) = p /\ \A x : Image(p) = Image(x) => x = p
<1>1. \A q \in Payloads : Image(p) = Image(q) => p = q
  BY ImagesDiffer
<1>2. ASSUME NEW x, Image(p) = Image(x) PROVE x = p
  <2>1. 1 \in Offsets /\ Image(p)[1] = [of |-> p, at |-> 1] /\ [of |-> p, at |-> 1] # Eof
    BY ImageCells DEF Offsets, HeaderLen
  <2>2. Image(x)[1] = IF 1 <= Length[x] THEN [of |-> x, at |-> 1] ELSE Eof
    BY <2>1 DEF Image, Prefix
  <2>3. [of |-> p, at |-> 1] = [of |-> x, at |-> 1]
    BY <1>2, <2>1, <2>2
  <2> QED
    BY <2>3
<1> QED
  BY <1>1, <1>2 DEF Held

\* A file that is not complete holds nothing.
LEMMA CutShortHoldsNothing ==
  ASSUME NEW p \in Payloads, NEW n \in Nat, n < Length[p]
  PROVE  Held(Prefix(p, n)) = NoPayload /\ Held(Empty) = NoPayload
<1>1. \A q \in Payloads : Image(q) # Empty
  BY ImagesDiffer
<1>2. ASSUME NEW q \in Payloads, Prefix(p, n) = Image(q) PROVE FALSE
  <2>1. /\ Length[p] \in Offsets /\ Length[p] > HeaderLen
        /\ Length[q] \in Offsets /\ Length[q] > HeaderLen /\ 1 \in Offsets
    BY ImageCells DEF Offsets, HeaderLen
  <2>2. \A o \in Offsets : /\ Prefix(p, n)[o] = IF o <= n THEN [of |-> p, at |-> o] ELSE Eof
                           /\ Image(q)[o] = IF o <= Length[q] THEN [of |-> q, at |-> o] ELSE Eof
                           /\ [of |-> p, at |-> o] # Eof /\ [of |-> q, at |-> o] # Eof
    BY ImageCells DEF Prefix
  <2>3. 1 <= Length[q]
    BY <2>1 DEF HeaderLen, Offsets
  <2>4. [of |-> p, at |-> 1] = [of |-> q, at |-> 1]
    BY <1>2, <2>1, <2>2, <2>3
  <2>5. p = q
    BY <2>4
  <2>6. Prefix(p, n)[Length[p]] = Image(p)[Length[p]]
    BY <1>2, <2>5
  <2>7. Prefix(p, n)[Length[p]] = Eof
    <3>1. ~(Length[p] <= n)
      BY <2>1 DEF Offsets
    <3> QED
      BY <2>1, <3>1 DEF Prefix
  <2>8. Image(p)[Length[p]] # Eof
    <3>1. Length[p] \in Nat /\ Length[p] <= Length[p]
      BY PayloadAssumption DEF HeaderLen
    <3>2. Image(p)[Length[p]] = [of |-> p, at |-> Length[p]]
      BY <2>1, <3>1, ImageCells
    <3> QED
      BY <2>1, <3>2, ImageCells
  <2> QED
    BY <2>6, <2>7, <2>8
<1> QED
  BY <1>1, <1>2 DEF Held

\* As long as there is no file nobody has written.
NoFileYet == ~exists => file = Empty /\ ~collided /\ Writing = {}

\* A step of a writer is a step of the register's, or none.
LEMMA WriteRefines ==
  ASSUME TypeOK, FileInv, NEW w \in Writers, Write(w)
  PROVE  [Register!Next]_Register!vars
<1>1. Status' = Status /\ Returned' = Returned /\ job' = job
  BY DEF Write, Create, CreateFails, WriteCell, FinishWrite, AbandonWrite, Disturb, readerVars,
         Status, Returned
<1>2. CASE Create(w)
  <2>1. Value' = IF Writing = {} THEN NoPayload ELSE Garbage
    <3>1. Held(Empty) = NoPayload
      BY ImagesDiffer DEF Held
    <3> QED
      BY <1>2, <3>1 DEF Create, Value
  <2>2. Due' = [r \in Restorers |-> IF Status[r] = "reading" THEN Garbage ELSE Due[r]]
    <3>1. \A r \in Restorers : r \in Readers
      BY DEF Readers
    <3>2. \A r \in Restorers :
            /\ disturbed'[r] = (disturbed[r] \/ rpc[r] = "reading")
            /\ rpc[r] # "reading" => opened'[r] = opened[r]
      BY <1>2, <3>1 DEF Create, Disturb
    <3> QED
      BY <3>2 DEF TypeOK, Due, Status
  <2>3. wpc[w] = "idle" /\ wpc' = [wpc EXCEPT ![w] = "writing"]
    BY <1>2 DEF Create
  <2>4. Register!Begin(w)
    BY <1>1, <2>1, <2>2, <2>3 DEF Register!Begin, Register!Writing, Writing,
                                  Value, Status, Due, Returned
  <2> QED
    BY <2>4 DEF Register!Next
<1>3. CASE WriteCell(w)
  <2>1. wpc' = wpc /\ collided' = collided /\ w \in Writing
        /\ wpos[w] \in Nat /\ wpos[w] < Length[job[w]] /\ job[w] \in Payloads
    BY <1>3 DEF WriteCell, Writing, TypeOK
  <2>2. Due' = Due
    <3>1. \A r \in Restorers : r \in Readers /\ (rpc[r] = "reading" => disturbed[r])
      BY <2>1 DEF FileInv, ReadersInv, ReaderInv, SeesBeginning, Readers
    <3>2. \A r \in Restorers :
            /\ disturbed'[r] = (disturbed[r] \/ rpc[r] = "reading")
            /\ rpc[r] # "reading" => opened'[r] = opened[r]
      BY <1>3, <3>1 DEF WriteCell, Disturb
    <3>3. disturbed \in [Readers -> BOOLEAN]
      BY DEF TypeOK
    <3>4. \A r \in Restorers : disturbed'[r] = disturbed[r]
      BY <3>1, <3>2, <3>3
    <3>5. \A r \in Restorers : ~disturbed[r] => opened'[r] = opened[r]
      BY <3>1, <3>2
    <3> QED
      BY <3>4, <3>5 DEF Due
  <2>3. CASE collided
    <3>1. Value' = Value
      BY <2>1, <2>3 DEF Value
    <3> QED
      BY <1>1, <2>1, <2>2, <3>1 DEF Register!vars, Value, Status, Due, Returned
  <2>4. CASE ~collided
    <3>1. Writing = {w} /\ file = Prefix(job[w], wpos[w])
      BY <2>1, <2>4 DEF FileInv, SoleWriter, Writing
    <3>2. file' = Prefix(job[w], wpos[w] + 1)
      BY <1>3, <3>1, NextPrefix DEF WriteCell, TypeOK
    <3>3. Value = NoPayload
      BY <2>1, <2>4, <3>1, CutShortHoldsNothing DEF Value
    <3>4. CASE wpos[w] + 1 = Length[job[w]]
      <4>1. Value' = job[w]
        BY <2>1, <2>4, <3>2, <3>4, HeldIsIt DEF Value, Image
      <4>2. Register!Complete(w)
        BY <1>1, <2>1, <2>2, <3>1, <3>3, <4>1 DEF Register!Complete, Register!Writing, Writing,
                                                  Value, Status, Due, Returned
      <4> QED
        BY <4>2 DEF Register!Next
    <3>5. CASE wpos[w] + 1 # Length[job[w]]
      <4>1. wpos[w] + 1 < Length[job[w]]
        BY <2>1, <3>5, PayloadAssumption DEF HeaderLen
      <4>2. Value' = NoPayload
        BY <2>1, <2>4, <3>2, <4>1, CutShortHoldsNothing DEF Value
      <4> QED
        BY <1>1, <2>1, <2>2, <3>3, <4>2 DEF Register!vars, Value, Status, Due, Returned
    <3> QED
      BY <3>4, <3>5
  <2> QED
    BY <2>3, <2>4
<1>4. CASE FinishWrite(w)
  <2>1. /\ wpc[w] = "writing" /\ wpc' = [wpc EXCEPT ![w] = "done"]
        /\ Value' = Value /\ Due' = Due
    BY <1>4 DEF FinishWrite, files, readerVars, Value, Due
  <2>2. Value \in {job[w], Garbage}
    <3>1. ~collided => file = Image(job[w])
      BY <1>4, <2>1 DEF FinishWrite, FileInv, SoleWriter, Writing, Image
    <3> QED
      BY <3>1, HeldIsIt DEF Value, TypeOK
  <2>3. Register!Succeed(w)
    BY <1>1, <2>1, <2>2 DEF Register!Succeed, Value, Status, Due, Returned
  <2> QED
    BY <2>3 DEF Register!Next
<1>5. CASE CreateFails(w) \/ AbandonWrite(w)
  <2>1. /\ wpc[w] \in {"idle", "writing"} /\ wpc' = [wpc EXCEPT ![w] = "failed"]
        /\ Value' = Value /\ Due' = Due
    BY <1>5 DEF CreateFails, AbandonWrite, files, readerVars, Value, Due
  <2>2. Register!Fail(w)
    BY <1>1, <2>1 DEF Register!Fail, Value, Status, Due, Returned
  <2> QED
    BY <2>2 DEF Register!Next
<1> QED
  BY <1>2, <1>3, <1>4, <1>5 DEF Write

\* What a restorer returns is what the register allows.
LEMMA ReturnRefines ==
  ASSUME TypeOK, NEW r \in Restorers, rpc[r] = "reading", ~disturbed[r] => ReadCorrectly(r)',
         Reject(r) \/ \E v \in Payloads \cup {Garbage} : Finish(r, "accepted", v)
  PROVE  Register!Next
<1>1. r \in Readers
  BY DEF Readers
<1>2. Value' = Value /\ Due' = Due /\ wpc' = wpc /\ job' = job /\ opened' = opened
  BY DEF Reject, Finish, files, writerVars, Value, Due
<1>3. ASSUME NEW outcome, NEW v, Finish(r, outcome, v)
      PROVE  Register!Return(r, outcome, v) /\ rpc'[r] = outcome /\ result'[r] = v
  <2>1. /\ Status' = [Status EXCEPT ![r] = outcome]
        /\ Returned' = [Returned EXCEPT ![r] = v]
        /\ rpc'[r] = outcome /\ result'[r] = v
    BY <1>1, <1>3 DEF Finish, Status, Returned, TypeOK, Readers
  <2> QED
    BY <1>2, <2>1 DEF Register!Return, Value, Status, Due, Returned
<1>4. CASE Reject(r)
  <2>1. Register!Return(r, "rejected", NoPayload) /\ rpc'[r] = "rejected"
    BY <1>3, <1>4 DEF Reject
  <2>2. Due[r] \notin {p \in Payloads : Decompresses(p)}
    <3>1. CASE disturbed[r]
      BY <3>1, DistinctAssumption DEF Due
    <3>2. CASE ~disturbed[r]
      <4>1. \A p \in Payloads : Decompresses(p) => opened[r] # Image(p)
        BY <1>2, <2>1, <3>2 DEF ReadCorrectly, Decompresses, PrependedSize
      <4>2. Due[r] = Held(opened[r])
        BY <3>2 DEF Due
      <4>3. Held(opened[r]) \in Payloads => opened[r] = Image(Held(opened[r]))
        BY DistinctAssumption DEF Held
      <4> QED
        BY <4>1, <4>2, <4>3
    <3> QED
      BY <3>1, <3>2
  <2>3. Register!Reject(r)
    BY <2>1, <2>2 DEF Register!Reject, Status, Due
  <2> QED
    BY <2>3 DEF Register!Next
<1>5. ASSUME NEW v \in Payloads \cup {Garbage}, Finish(r, "accepted", v) PROVE Register!Next
  <2>1. Register!Return(r, "accepted", v) /\ rpc'[r] = "accepted" /\ result'[r] = v
    BY <1>3, <1>5
  <2>2. Due[r] = Garbage \/ (Due[r] = v /\ v \in {p \in Payloads : Decompresses(p)})
    <3>1. CASE disturbed[r]
      BY <3>1 DEF Due
    <3>2. CASE ~disturbed[r]
      <4>1. PICK p \in Payloads : Decompresses(p) /\ opened[r] = Image(p)
        BY <1>2, <2>1, <3>2 DEF ReadCorrectly, Decompresses, PrependedSize
      <4>2. opened[r] = Image(v)
        BY <1>2, <2>1, <3>2, <4>1 DEF ReadCorrectly, Decompresses, PrependedSize
      <4>3. v = p /\ Held(opened[r]) = p
        BY <4>1, <4>2, HeldIsIt
      <4> QED
        BY <3>2, <4>1, <4>3 DEF Due
    <3> QED
      BY <3>1, <3>2
  <2>3. Register!Accept(r)
    BY <2>1, <2>2 DEF Register!Accept, Status, Due
  <2> QED
    BY <2>3 DEF Register!Next
<1> QED
  BY <1>4, <1>5

\* A step of a reader is a step of the register's, or none.
LEMMA ReadRefines ==
  ASSUME TypeOK, FileInv, NoFileYet, NEW r \in Readers, Read(r)
  PROVE  [Register!Next]_Register!vars
<1>1. UNCHANGED <<files, writerVars>> /\ Value' = Value
  BY EndIsFinish DEF Read, Open, ReadCell, Finish, files, writerVars, Value
<1>2. CASE r \in Peekers
  <2>1. \A q \in Restorers : q \in Readers /\ q # r
    BY <1>2, DistinctAssumption DEF Readers
  <2>2. \A q \in Restorers : /\ rpc'[q] = rpc[q] /\ result'[q] = result[q]
                             /\ opened'[q] = opened[q] /\ disturbed'[q] = disturbed[q]
    BY <2>1, EndIsFinish DEF Read, Open, ReadCell, Finish, TypeOK
  <2>3. Status' = Status /\ Due' = Due /\ Returned' = Returned
    BY <2>2 DEF Status, Due, Returned
  <2> QED
    BY <1>1, <2>3 DEF Register!vars, writerVars, Value, Status, Due, Returned
<1>3. CASE r \in Restorers
  <2>1. CASE Open(r)
    <3>0. /\ \A q \in Restorers : rpc'[q] = IF q = r THEN "reading" ELSE rpc[q]
          /\ \A q \in Restorers : opened'[q] = IF q = r THEN file ELSE opened[q]
          /\ \A q \in Restorers :
               disturbed'[q] = IF q = r THEN collided \/ Writing # {} ELSE disturbed[q]
          /\ result' = result /\ rpc[r] = "idle"
      BY <2>1 DEF Open, TypeOK, Readers
    <3>1. /\ rpc[r] = "idle" /\ Status' = [Status EXCEPT ![r] = "reading"]
          /\ Returned' = Returned
      BY <1>3, <3>0 DEF Status, Returned
    <3>2. Due' = [Due EXCEPT ![r] = IF Writing = {} THEN Value ELSE Garbage]
      BY <1>3, <3>0 DEF Due, Value
    <3>3. Register!Start(r)
      BY <1>1, <1>3, <3>1, <3>2 DEF Register!Start, Register!Writing, Writing, writerVars,
                                    Value, Status, Due, Returned
    <3> QED
      BY <1>3, <3>3 DEF Register!Next
  <2>2. CASE ReadCell(r)
    <3>1. Status' = Status /\ Due' = Due /\ Returned' = Returned
      BY <2>2 DEF ReadCell, Status, Due, Returned
    <3> QED
      BY <1>1, <3>1 DEF Register!vars, writerVars, Value, Status, Due, Returned
  <2>3. CASE OpenFails(r)
    <3>1. rpc[r] = "idle" /\ Value = NoPayload
      BY <2>3, ImagesDiffer DEF OpenFails, NoFileYet, Value, Held
    <3>2. /\ Status' = [Status EXCEPT ![r] = "rejected"]
          /\ Returned' = [Returned EXCEPT ![r] = NoPayload]
          /\ Due' = Due
      BY <1>3, <2>3 DEF OpenFails, Reject, Finish, Status, Returned, Due, TypeOK, Readers
    <3>3. Register!Return(r, "rejected", NoPayload)
      BY <1>1, <3>2 DEF Register!Return, writerVars, Value, Status, Due, Returned
    <3>4. Register!Reject(r)
      BY <1>3, <3>1, <3>3 DEF Register!Reject, Value, Status
    <3> QED
      BY <1>3, <3>4 DEF Register!Next
  <2>4. CASE RejectHeader(r)
    <3>1. rpc[r] = "reading" /\ Reject(r)
      BY <2>4 DEF RejectHeader
    <3>2. ~disturbed[r] => ReadCorrectly(r)'
      BY <1>3, <2>4, <3>1, RejectIsRight DEF FileInv, ReadersInv, ReaderInv
    <3> QED
      BY <1>3, <3>1, <3>2, ReturnRefines
  <2>5. CASE Decode(r)
    <3>1. rpc[r] = "reading" /\ (Reject(r) \/ \E v \in Payloads \cup {Garbage} : Finish(r, "accepted", v))
      BY <2>5 DEF Decode
    <3>2. ~disturbed[r] => ReadCorrectly(r)'
      BY <1>3, <2>5, <3>1, DecodeIsRight DEF FileInv, ReadersInv, ReaderInv
    <3> QED
      BY <1>3, <3>1, <3>2, ReturnRefines
  <2>6. CASE PeekSize(r)
    BY <1>3, <2>6, DistinctAssumption DEF PeekSize
  <2> QED
    BY <2>1, <2>2, <2>3, <2>4, <2>5, <2>6 DEF Read
<1> QED
  BY <1>2, <1>3 DEF Readers

\* Nothing but a write makes the file.
LEMMA NoFileKept ==
  ASSUME TypeOK, NoFileYet, [Next]_vars
  PROVE  NoFileYet'
<1>1. CASE UNCHANGED vars
  BY <1>1 DEF NoFileYet, Writing, vars, files, writerVars
<1>2. ASSUME NEW r \in Readers, Read(r) PROVE NoFileYet'
  <2>1. UNCHANGED <<files, writerVars>>
    BY <1>2, EndIsFinish DEF Read, Open, ReadCell, Finish
  <2> QED
    BY <2>1 DEF NoFileYet, Writing, files, writerVars
<1>3. ASSUME NEW w \in Writers, Write(w) PROVE NoFileYet'
  BY <1>3 DEF Write, Create, CreateFails, WriteCell, FinishWrite, AbandonWrite, NoFileYet, Writing,
              files, TypeOK
<1> QED
  BY <1>1, <1>2, <1>3 DEF Next

\* write_snapshot and read_snapshot, for any number of tools on one path,
\* implement the safe register: a restore that no write overlaps returns the
\* last complete snapshot or an error, whatever happened to the writes before.
THEOREM Refinement == Spec => ImplementsSafeRegister
<1>1. Init => Register!Init /\ NoFileYet
  <2> SUFFICES ASSUME Init PROVE Register!Init /\ NoFileYet
    OBVIOUS
  <2>1. Held(Empty) = NoPayload
    BY ImagesDiffer DEF Held
  <2>2. Value = NoPayload
    <3>1. ASSUME NEW s \in Strangers, NEW n \in Offsets, file = Prefix(s, n),
                 NEW p \in Payloads, file = Image(p)
          PROVE  FALSE
      <4>1. 1 \in Offsets /\ file[1] = [of |-> p, at |-> 1] /\ [of |-> p, at |-> 1] # Eof
        BY <3>1, ImageCells DEF Offsets, HeaderLen
      <4>2. file[1] = [of |-> s, at |-> 1] \/ file[1] = Eof
        BY <3>1, <4>1 DEF Prefix
      <4>3. [of |-> s, at |-> 1] = [of |-> p, at |-> 1]
        BY <4>1, <4>2
      <4>4. s = p
        BY <4>3
      <4> QED
        BY <4>4, DistinctAssumption
    <3> QED
      BY <2>1, <3>1 DEF Init, Value, Held
  <2>3. /\ Status = [r \in Restorers |-> "idle"]
        /\ Due = [r \in Restorers |-> NoPayload]
        /\ Returned = [r \in Restorers |-> NoPayload]
    BY <2>1 DEF Init, Status, Due, Returned, Readers
  <2> QED
    BY <2>2, <2>3 DEF Init, Register!Init, NoFileYet, Writing, Value, Status, Due, Returned
<1>2. TypeOK /\ FileInv /\ NoFileYet /\ [Next]_vars => [Register!Next]_Register!vars
  <2>1. UNCHANGED vars => UNCHANGED Register!vars
    BY DEF vars, files, writerVars, readerVars, Register!vars, Held
  <2> QED
    BY <2>1, WriteRefines, ReadRefines DEF Next
<1> QED
  BY <1>1, <1>2, NoFileKept, TypeCorrect, FileInvariant, PTL
  DEF Spec, ImplementsSafeRegister, Register!Spec

=============================================================================
