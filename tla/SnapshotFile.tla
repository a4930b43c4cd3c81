---------------------------- MODULE SnapshotFile ----------------------------
(***************************************************************************)
(* The .qrs file: write_snapshot (snapshot/writer.rs) against              *)
(* read_snapshot and peek_snapshot_header (restore/reader.rs), run by      *)
(* separate processes on one path (by default every invocation uses the    *)
(* same one).                                                              *)
(*                                                                         *)
(* A file is a sequence of cells, one per write_all for the header and     *)
(* one or more for the block, which takes several system calls:            *)
(*   1 magic, 2 version, 3 timestamp, 4 size of the bincode payload,       *)
(*   5.. LZ4 block, whose first cell starts with that size as a u32.       *)
(* A cell is [of |-> what it was written for, at |-> its offset there].    *)
(*                                                                         *)
(* Numbers: SizeMod stands for 2^32, the range of the size that            *)
(* compress_prepend_size puts in front of the block (external, lz4_flex);  *)
(* the size in the header is a u64 and does not wrap.                      *)
(***************************************************************************)
EXTENDS Naturals

CONSTANTS
  Writers,      \* invocations of --snapshot that have reached write_snapshot
  Restorers,    \* invocations of --restore
  Peekers,      \* invocations of --peek
  Payloads,     \* snapshots, as SnapshotPayload values
  RawLen,       \* RawLen[p]: length of p serialized by bincode
  Length,       \* Length[p]: cells of the whole file of p
  MaxLen,       \* bound on the cells of a file
  SizeMod,
  Foreign,      \* a file that is not a snapshot
  OldVersion,   \* a snapshot file with another version number
  Garbage,      \* what a block mixed from two files may decode to
  NoPayload

HeaderLen == 4
Offsets == 1..MaxLen
Strangers == {Foreign, OldVersion}
Readers == Restorers \cup Peekers

ASSUME PayloadAssumption ==
  /\ MaxLen \in Nat /\ MaxLen > HeaderLen
  /\ Length \in [Payloads -> (HeaderLen + 1)..MaxLen]
  /\ RawLen \in [Payloads -> Nat]
  /\ SizeMod \in Nat \ {0}
ASSUME DistinctAssumption ==
  /\ Payloads \cap (Strangers \cup {Garbage, NoPayload}) = {}
  /\ Foreign # OldVersion /\ NoPayload \notin Strangers \cup {Garbage}
  /\ Restorers \cap Peekers = {}

Eof == [of |-> NoPayload, at |-> 0]        \* past the end of the file
Zero == [of |-> NoPayload, at |-> 1]       \* a hole, filled with zeros
Cell == [of : Payloads \cup Strangers, at : Offsets] \cup {Eof, Zero}

\* The first n cells of the file of s.
Prefix(s, n) ==
  [o \in Offsets |-> IF o <= n THEN [of |-> s, at |-> o] ELSE Eof]
Image(p) == Prefix(p, Length[p])
Empty == [o \in Offsets |-> Eof]

VARIABLES
  exists,       \* a file is at the path
  file,         \* its cells
  job,          \* job[w]: the payload writer w serializes
  wpc, wpos,    \* progress of the writers: cells written
  rpc, rpos,    \* progress of the readers: cells read
  view,         \* view[r]: the cells r has read
  result,       \* result[r]: what read_snapshot returned
  latest,       \* history: the writer that created the file last
  collided,     \* history: two writers had the file open since it was created
  opened,       \* history: the file as r found it
  disturbed     \* history: a writer had the file open while r read it

files == <<exists, file>>
writerVars == <<job, wpc, wpos, latest, collided>>
readerVars == <<rpc, rpos, view, result, opened, disturbed>>
vars == <<files, writerVars, readerVars>>

Init ==
  /\ \/ exists = FALSE /\ file = Empty
     \/ exists = TRUE /\ \E s \in Strangers, n \in Offsets : file = Prefix(s, n)
  /\ job \in [Writers -> Payloads]
  /\ wpc = [w \in Writers |-> "idle"]
  /\ wpos = [w \in Writers |-> 0]
  /\ latest \in Writers
  /\ collided = FALSE
  /\ rpc = [r \in Readers |-> "idle"]
  /\ rpos = [r \in Readers |-> 0]
  /\ view = [r \in Readers |-> Empty]
  /\ result = [r \in Readers |-> NoPayload]
  /\ opened = [r \in Readers |-> Empty]
  /\ disturbed = [r \in Readers |-> FALSE]

-----------------------------------------------------------------------------
(* write_snapshot *)

Writing == {w \in Writers : wpc[w] = "writing"}

\* Readers that have the file open see it change under them; how they found it
\* no longer matters.
Disturb ==
  /\ disturbed' = [r \in Readers |-> disturbed[r] \/ rpc[r] = "reading"]
  /\ opened' = [r \in Readers |-> IF rpc[r] = "reading" THEN Empty ELSE opened[r]]
  /\ UNCHANGED <<rpc, rpos, view, result>>

\* Mutant of Create: the file is opened without truncating it.
CreateInPlace(w) ==
  /\ wpc[w] = "idle"
  /\ exists' = TRUE
  /\ wpc' = [wpc EXCEPT ![w] = "writing"]
  /\ latest' = w
  /\ collided' = (Writing # {})
  /\ Disturb
  /\ UNCHANGED <<file, job, wpos>>

\* File::create truncates whatever is at the path; there is no lock, no
\* temporary file and no rename.
Create(w) ==
  /\ wpc[w] = "idle"
  /\ exists' = TRUE
  /\ file' = Empty
  /\ wpc' = [wpc EXCEPT ![w] = "writing"]
  /\ latest' = w
  /\ collided' = (Writing # {})
  /\ Disturb
  /\ UNCHANGED <<job, wpos>>

\* create_dir_all, the serialization or the creation of the file fails.
CreateFails(w) ==
  /\ wpc[w] = "idle"
  /\ wpc' = [wpc EXCEPT ![w] = "failed"]
  /\ UNCHANGED <<files, readerVars, job, wpos, latest, collided>>

\* Each write lands at the writer's own offset: past the end of a file that
\* another writer has truncated it leaves a hole.
WriteCell(w) ==
  LET here == wpos[w] + 1 IN
  /\ wpc[w] = "writing"
  /\ wpos[w] < Length[job[w]]
  /\ wpos' = [wpos EXCEPT ![w] = here]
  /\ file' = [o \in Offsets |->
                CASE o = here -> [of |-> job[w], at |-> o]
                  [] o < here /\ file[o] = Eof -> Zero
                  [] OTHER -> file[o]]
  /\ Disturb
  /\ UNCHANGED <<exists, job, wpc, latest, collided>>

\* Mutant of FinishWrite: the result of the last write_all is not looked at.
FinishWriteUnchecked(w) ==
  /\ wpc[w] = "writing"
  /\ wpos[w] >= Length[job[w]] - 1
  /\ wpc' = [wpc EXCEPT ![w] = "done"]
  /\ UNCHANGED <<files, readerVars, job, wpos, latest, collided>>

FinishWrite(w) ==
  /\ wpc[w] = "writing"
  /\ wpos[w] = Length[job[w]]
  /\ wpc' = [wpc EXCEPT ![w] = "done"]
  /\ UNCHANGED <<files, readerVars, job, wpos, latest, collided>>

\* A write fails (a full disk), or the tool is killed: the file stays as it is.
AbandonWrite(w) ==
  /\ wpc[w] = "writing"
  /\ wpc' = [wpc EXCEPT ![w] = "failed"]
  /\ UNCHANGED <<files, readerVars, job, wpos, latest, collided>>

-----------------------------------------------------------------------------
(* read_snapshot and peek_snapshot_header *)

\* The function returns; its buffers go with it.
Finish(r, outcome, value) ==
  /\ rpc' = [rpc EXCEPT ![r] = outcome]
  /\ result' = [result EXCEPT ![r] = value]
  /\ view' = [view EXCEPT ![r] = Empty]
  /\ rpos' = [rpos EXCEPT ![r] = 0]
  /\ UNCHANGED <<files, writerVars, opened, disturbed>>

Reject(r) == Finish(r, "rejected", NoPayload)

Open(r) ==
  /\ rpc[r] = "idle"
  /\ exists
  /\ rpc' = [rpc EXCEPT ![r] = "reading"]
  /\ opened' = [opened EXCEPT ![r] = file]
  /\ disturbed' = [disturbed EXCEPT ![r] = collided \/ Writing # {}]
  /\ UNCHANGED <<files, writerVars, rpos, view, result>>

OpenFails(r) ==
  /\ rpc[r] = "idle"
  /\ ~exists
  /\ Reject(r)

\* Mutant of FieldOk: read_snapshot does not compare the version.
FieldOkAnyVersion(r, o, c) == o = 1 => c.of \in Payloads \cup {OldVersion}

\* The checks on the field just read; peek_snapshot_header looks only at the
\* magic, read_snapshot also at the version.
FieldOk(r, o, c) ==
  /\ o = 1 => c.of \in Payloads \cup {OldVersion}
  /\ o = 2 /\ r \in Restorers => c.of \in Payloads

\* Mutant of Extent: peek goes on into the block.
ExtentWhole(r) == Offsets

\* How far a reader reads: --peek stops after the header.
Extent(r) == IF r \in Restorers THEN Offsets ELSE 1..HeaderLen

\* read_exact of a header field, or one system call of read_to_end.
ReadCell(r) ==
  LET here == rpos[r] + 1 IN
  /\ rpc[r] = "reading"
  /\ here \in Extent(r)
  /\ file[here] # Eof
  /\ FieldOk(r, here, file[here])
  /\ rpos' = [rpos EXCEPT ![r] = here]
  /\ view' = [view EXCEPT ![r][here] = file[here]]
  /\ UNCHANGED <<files, writerVars, rpc, result, opened, disturbed>>

\* UnexpectedEof, InvalidSnapshotMagic or UnsupportedVersion.
RejectHeader(r) ==
  LET here == rpos[r] + 1 IN
  /\ rpc[r] = "reading"
  /\ here <= HeaderLen
  /\ file[here] = Eof \/ ~FieldOk(r, here, file[here])
  /\ Reject(r)

Block == (HeaderLen + 1)..MaxLen
BlockIs(v, s, n) == \A o \in Block : v[o] = Prefix(s, n)[o]
WholeBlock(v, p) == BlockIs(v, p, Length[p])
TornBlock(v) == \E p \in Payloads, n \in HeaderLen..MaxLen :
                  n < Length[p] /\ BlockIs(v, p, n)

\* compress_prepend_size wraps the length; decompress_size_prepended makes a
\* buffer of the prepended size and fails when the data does not fit in it.
PrependedSize(p) == RawLen[p] % SizeMod
Decompresses(p) == RawLen[p] <= PrependedSize(p)

\* The size field of the header against the length of the decompressed data.
SizeMatches(c, p) == c.of \in Payloads /\ RawLen[c.of] = RawLen[p]

\* End of file: decompress, compare the sizes, deserialize.  A block cut short
\* never yields a payload (LZ4, the size check or bincode refuses it); one
\* mixed from two files may decode to anything.
Decode(r) ==
  /\ rpc[r] = "reading"
  /\ r \in Restorers
  /\ rpos[r] >= HeaderLen
  /\ rpos[r] < MaxLen => file[rpos[r] + 1] = Eof
  /\ \/ \E p \in Payloads :
          /\ WholeBlock(view[r], p)
          /\ IF Decompresses(p) /\ SizeMatches(view[r][4], p)
             THEN Finish(r, "accepted", p)
             ELSE Reject(r)
     \/ TornBlock(view[r]) /\ Reject(r)
     \/ /\ ~TornBlock(view[r]) /\ \A p \in Payloads : ~WholeBlock(view[r], p)
        /\ Reject(r) \/ Finish(r, "accepted", Garbage)

\* Mutant of PeekAtEnd: the size field is not read before the arithmetic.
PeekBeforeSize(r) == rpos[r] = HeaderLen - 1

PeekAtEnd(r) == rpos[r] = HeaderLen

\* metadata(path).len() - 24: looked up by path after the header was read, it
\* wraps (a debug build panics) when the file has become shorter than a header.
PeekSize(r) ==
  /\ rpc[r] = "reading"
  /\ r \in Peekers
  /\ PeekAtEnd(r)
  /\ Finish(r, IF file[HeaderLen] = Eof THEN "wrapped" ELSE "printed", NoPayload)

Write(w) == \/ Create(w) \/ CreateFails(w) \/ WriteCell(w)
            \/ FinishWrite(w) \/ AbandonWrite(w)
Read(r) == \/ Open(r) \/ OpenFails(r) \/ ReadCell(r) \/ RejectHeader(r)
           \/ Decode(r) \/ PeekSize(r)

Next == (\E w \in Writers : Write(w)) \/ (\E r \in Readers : Read(r))

Spec == Init /\ [][Next]_vars

-----------------------------------------------------------------------------
(* Properties *)

TypeOK ==
  /\ exists \in BOOLEAN /\ file \in [Offsets -> Cell]
  /\ job \in [Writers -> Payloads]
  /\ wpc \in [Writers -> {"idle", "writing", "done", "failed"}]
  /\ wpos \in [Writers -> 0..MaxLen]
  /\ latest \in Writers /\ collided \in BOOLEAN
  /\ rpc \in [Readers -> {"idle", "reading", "accepted", "rejected",
                          "printed", "wrapped"}]
  /\ rpos \in [Readers -> 0..MaxLen]
  /\ \A r \in Peekers : rpos[r] <= HeaderLen
  /\ view \in [Readers -> [Offsets -> Cell]]
  /\ result \in [Readers -> Payloads \cup {Garbage, NoPayload}]
  /\ opened \in [Readers -> [Offsets -> Cell]]
  /\ disturbed \in [Readers -> BOOLEAN]

\* `--snapshot` reports success only with the whole file on disk, unless some
\* other writer created the file again or had it open at the same time.
DoneIsOnDisk ==
  \A w \in Writers :
    wpc[w] = "done" /\ latest = w /\ ~collided => file = Image(job[w])

\* A restore that no writer overlaps returns exactly the snapshot that is in
\* the file when the file is one complete snapshot, short enough for the u32
\* size, and an error in every other case: a file cut short by a crash, of
\* another version, or not a snapshot at all is never taken for one.
UndisturbedRead ==
  \A r \in Restorers :
    rpc[r] \in {"accepted", "rejected"} /\ ~disturbed[r] =>
      IF \E p \in Payloads : Decompresses(p) /\ opened[r] = Image(p)
      THEN rpc[r] = "accepted" /\ opened[r] = Image(result[r])
      ELSE rpc[r] = "rejected"

\* The subtraction in peek_snapshot_header wraps only if a --snapshot truncated
\* the file between the read of the header and the look at its length.
PeekSizeIsSound == \A r \in Peekers : rpc[r] = "wrapped" => disturbed[r]

\* The snapshot that a file holds.
Held(f) == IF \E p \in Payloads : f = Image(p)
           THEN CHOOSE p \in Payloads : f = Image(p) ELSE NoPayload

\* The path is a safe register: it holds the snapshot whose file is complete,
\* and a restore has to find what was there when it opened the file.
Register == INSTANCE SafeRegister WITH
  Readers <- Restorers,
  Values <- Payloads,
  Storable <- {p \in Payloads : Decompresses(p)},
  Nothing <- NoPayload,
  Unknown <- Garbage,
  value <- IF collided THEN Garbage ELSE Held(file),
  writer <- wpc,
  reader <- [r \in Restorers |-> rpc[r]],
  due <- [r \in Restorers |-> IF disturbed[r] THEN Garbage ELSE Held(opened[r])],
  result <- [r \in Restorers |-> result[r]]

\* write_snapshot and read_snapshot implement SafeRegister: cell by cell, with
\* files cut short, of other versions and of other programs, and without a lock.
ImplementsSafeRegister == Register!Spec

\* Every complete snapshot can be restored (README: "restores that exact
\* state into a freshly spawned instance of the same executable later").
CompleteSnapshotIsReadable ==
  \A r \in Restorers :
    rpc[r] = "rejected" /\ ~disturbed[r] =>
      \A p \in Payloads : opened[r] # Image(p)

=============================================================================
