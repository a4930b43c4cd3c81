# A verification of quick-resume

quick-resume (`src/`) snapshots the memory and the thread contexts of a running
Windows process to a file and restores them into a new process. Every invocation
is one short straight-line program. What makes it hard is what it runs beside: a
target that runs until it is frozen and may die at any moment, other invocations
on the same target or the same file, an operating system whose calls fail half
way, and a loader that has already laid out part of the new process.

Paths below are relative to `src/src/` unless they start with `src/`.

## The system

| component | state | operations | correct when |
|---|---|---|---|
| `--snapshot` (`main.rs` 120-161) and `SuspendGuard` (`process/suspend.rs`) | suspend count of the target, `resumed` flag of the guard | attach, suspend, dump, capture, resume, write; drop on every exit that unwinds | the target is frozen only while a guard is held and thaws afterwards; everything captured is one instant of the target; a truncated capture is never written |
| memory dump (`snapshot/memory.rs`) | walk address, regions captured | `VirtualQueryEx` walk, filter, full / partial / failed read | each writable page is captured once |
| thread capture (`snapshot/threads.rs`) | thread list, contexts | list, open, `GetThreadContext` | slot i of the snapshot is thread i |
| writer (`snapshot/writer.rs`) | the `.qrs` file | create (truncates), five writes, flush | success means the file is on disk |
| reader and peek (`restore/reader.rs`) | file position | header checks, read to end, LZ4, size check, bincode | a complete snapshot is read back, anything else is an error |
| memory restore (`restore/memory.rs`) | memory of the new process, outcome per region | allocate / free / write / protect, or query / unprotect / overwrite / reprotect | a region counted as restored is in place, one skipped before its write changes nothing |
| launch (`restore/launch.rs`) | suspend count of the main thread | create suspended; up to 60 rounds of resume, sleep, suspend, check; resume; drop | the main thread executes nothing from the check to the resume, and runs afterwards |
| thread restore (`restore/threads.rs`) | contexts of the new threads | list, set by index, fail when none succeeded | each new thread gets the context of its counterpart, and one only |
| `--restore` (`main.rs` 165-212) | all of the above | read, launch, memory, threads, resume | it ends; what a failure leaves behind stays suspended |
| attach (`process/attach.rs`) | pid | listing, `OpenProcess` | from the open on, the pid is that process's |
| ASLR patch and PE header (`util/pe.rs`) | executable, `.bak` | back up, patch in place, copy back | the original can be brought back; one bit changes; no index is out of range |
| `--profile` (`main.rs` 110-116, `process/info.rs`) | none kept | three read-only walks | the walks end; a report is whole and of one process |
| command line, errors (`main.rs`, `util/error.rs`) | none | dispatch, messages | |

They interact through the target process (suspend count, memory), through the
`.qrs` file, and by passing values: the regions and contexts captured become the
payload, the payload read back is what the restore injects. There are no threads
or callbacks inside an invocation; the concurrency is between processes, and it
is real because nothing is locked: `NtSuspendProcess` counts, so two tools may hold
the same target, and every invocation uses `snapshot/mini_metro.qrs` by default.

`PROJECT.json` lists the hazards line by line ("hazards"), with the property that
covers each, or the reason why none does.

## Modules

| module | models | state and actions against the code |
|---|---|---|
| `AtomicSnapshot` | what `--snapshot` promises | a copy is taken at one instant, then published or dropped |
| `SnapshotCommand` | `cmd_snapshot`, `SuspendGuard`, for any number of tools on one target | `pc[t]` is the place in `cmd_snapshot`, `guard[t]` the `SuspendGuard` (`"held"` is `resumed = false`), `count` the kernel's suspend count, `region`/`thread` the two loops, `stamp[t]` the versions of the target that t has read. `Leave` is every exit that unwinds (`?`, a panic, the end) and runs the drop; `Kill` is an exit that does not |
| `SnapshotCommandProofs` | - | theorems about it |
| `SafeRegister` | what the path of the `.qrs` file promises to those who share it without a lock | a read that no write overlaps returns the last value or is refused, one that is overlapped may return anything |
| `SnapshotFile` | `write_snapshot`, `read_snapshot`, `peek_snapshot_header` on one path | `file` is a sequence of cells, one per `write_all` of the header and one or more for the block; `wpos`/`rpos` are the file offsets of the handles; `Create` truncates under everybody |
| `SnapshotFileProofs` | - | theorems about it |
| `AddressSpace` | external: Windows virtual memory | `VirtualQueryEx`, `VirtualAllocEx` (rounds its base down to `Granule`), `VirtualFreeEx`, `VirtualProtectEx`, `WriteProcessMemory` as operators on a page table |
| `DumpMemory` | `dump_memory` | one action per turn of the loop |
| `RestoreMemory` | `restore_memory`, `restore_region` | one action per system call, `pc` the next one, `outcomes` the `RestoreOutcome`s. With `callsMayFail` each call may fail, also `VirtualFreeEx` and `VirtualProtectEx`, whose results the code drops; the history variables `leaked` and `unprotected` name the regions for which the release, or the last protection, failed in this way |
| `MemoryRoundTrip` | the composition: dump the frozen target, restore into the new process | `DumpMemory` by `INSTANCE`, `RestoreMemory` by `EXTENDS`, sharing `regions` |
| `MemoryProofs` | - | theorems about it |
| `HandOver` | what `--restore` does with the main thread of the new process | the thread runs in the trial and once it is free, never while it is held or left behind; after a call that failed unseen the thread is lost |
| `RestoreCommand` | `cmd_restore`, `launch_suspended`, `wait_for_loader`, `resume_main_thread`, next to other tools that suspend the same process | `pc` is the place in `cmd_restore`, `round` the loop of `wait_for_loader`, `suspends` the kernel's count for the main thread, `stage` how far that thread has run. `Counts` is a call whose result is not looked at, `faults` how many of these failed. `Panic` is an exit that unwinds (the drop closes handles and resumes nothing), `Kill` one that does not |
| `RestoreCommandProofs` | - | theorems about it |
| `ThreadContexts` | `capture_thread_contexts` and `restore_thread_contexts` over the thread ids of one system | `who[t]` is the thread that has id t now, `list`/`at` the ids listed and the loop over them, `saved` the contexts of the snapshot, `placed` what was set where; each listing may fail (`ListTargetFails`, `ListNewFails`) |
| `ThreadContextsProofs` | - | theorems about it |
| `AslrPatch` | `disable_aslr`, `restore_aslr` on an executable and its `.bak` | a file is a version and its flag; every copy and write begins with a torn file (`Begin...`) and ends with a whole one (`End...`); `Stop` is a tool that ends in between |
| `AslrPatchProofs` | - | theorems about it |
| `PeHeader` | `find_dll_characteristics_offset` and the patch | one action per field that is looked at, over the bytes of the file; `used` are the offsets indexed; sums wrap at `Usize` |
| `PeHeaderProofs` | - | theorems about it |
| `Profile` | `cmd_profile` with `open_process_by_name` | `who[p]` is the process with pid p now, `Reserved` the pid that the open handle keeps; the walk goes from region to region while the process may end; a `VirtualQueryEx` that returns 0 ends it at any time, and the history variable `cut` says that it did so on a live process short of the end |
| `ProfileProofs` | - | theorems about it |
| `MC...` | - | values of the constants for TLC |

The payload goes from `DumpMemory` to `RestoreMemory` unchanged; that the file
between them returns what it was given is `UndisturbedRead` of `SnapshotFile`.

### Abstractions

- The target's whole state is a version number that may grow whenever the suspend
  count is 0. A read records the version it happened at, so "one instant" is "one
  version". What is in a region is the subject of `MemoryRoundTrip` instead.
- `NtResumeProcess` fails exactly when the target has been terminated. The calls
  that list, open or suspend may fail at any time, and must once it is gone.
- A panic unwinds: `src/Cargo.toml` does not set `panic = "abort"`. The tool can
  panic wherever it prints.
- A block made of cells from two files may decode to anything (`Garbage`): the
  format has no checksum. A block cut short never decodes. Losing data that
  `write_all` accepted (a power loss; there is no fsync) is not modelled, and
  neither is a read error of an existing file, which ends as an error.
- Sizes wrap modulo `SizeMod`, which stands for 2^32 in the prefix that lz4_flex
  writes; the u64 in the header does not wrap.
- Addresses are pages; a protection is one of six; `"ro"` also stands for
  execute-read and `"rw"` for execute-read-write, which the code treats alike.
  `VirtualProtectEx` fails when the pages are not all committed, not of one
  reservation, or when `PAGE_WRITECOPY` is asked of private memory; it and every
  other call may fail besides, and the code ignores its failures and those of
  `VirtualFreeEx`. MEM_MAPPED memory is treated by the code as private memory
  and is not a type of its own.
- While memory is restored nobody else writes to the new process. The code only
  suspends its main thread; `RestoreCommand` has workers that run meanwhile.
- Of Windows the following is assumed, all of it external. A Toolhelp listing is
  complete, and has the threads of a process in the order they were created. A pid or thread id is not
  used again while a handle to its process or thread is open. Suspending and
  resuming a process counts for each of its threads. `NtResumeProcess`, and the
  list of modules, fail for a process that has ended, and `VirtualQueryEx` returns 0
  for it. A region that `VirtualQueryEx` returns starts at the address asked for.
- The thread lists of the two processes are all that `ThreadContexts` keeps of
  them; a context is the thread it was taken from. In `RestoreThreads` of
  `RestoreCommand` the same function is one step that succeeds or fails.
- A file that is copied or written is torn from the first call to the last;
  `fs::copy` truncates its destination first. Parsing is `PeHeader`'s subject, and
  fails or succeeds in one step of `AslrPatch`.
- `usize` has `Usize` values, 2^64 in a build for x64; the bytes of a file are bytes,
  and a little-endian field is built from them.

## Runs

| run | question | bounds | result |
|---|---|---|---|
| `snapshot` | are suspensions owned, copies consistent and atomic, written snapshots complete? does a frozen target run again? | 3 tools, 1 region, 1 thread, 1 change of the target, 1 kill; fairness below | holds |
| `snapshot_killed` | is the target never left frozen? | 1 tool, 2 regions, 1 kill | violated: finding 1 |
| `file` | is a reported snapshot on disk, what does an undisturbed restore return, when does the subtraction in `--peek` wrap? do both together implement `SafeRegister`? | 2 interchangeable writers, and a restorer or a peek, snapshots of 5 and 6 cells, any prefix of a foreign or old file at the start | holds |
| `file_oversize` | is every complete snapshot readable? | a payload longer than `SizeMod` | violated: finding 2 |
| `memory` | does the dump miss nothing, does what can come back come back, what is lost, what do failing calls leave behind, those that fail unseen among them? | all layouts of 3 pages (a granule of 2, and one cut short) from 6 kinds of page; free or 5 kinds in the new process; partial reads; with and without calls that fail at will | holds; what comes back are the regions that start a reservation |
| `memory_unaligned` | does all private memory come back into an empty space? | 2 pages | violated: finding 3 |
| `restore` | who owns the suspend count of the new main thread, when does that thread run, does the restore end, by how much do unseen failures put the count off? | 3 rounds for the 60 of the code, 2 workers, 1 other tool at a time, 2 calls that fail unseen; fairness below | holds |
| `threads_matched` | whose contexts are captured and where are they set? | 4 thread ids, 3 threads of the new process, ids that are used again | holds |
| `threads_shifted` | does the k-th context go to the k-th thread? | the same | violated: finding 4 |
| `aslr_backup` | when is the original lost, and what does a restore put back? | 2 tools that are run again and again, 2 versions, stopped anywhere | holds |
| `pe_header` | is every index in range, and what does a patch change? | files of 11 lengths around each check, 12 values of `e_lfanew`, 5 of the flags, each magic right or wrong | holds |
| `profile_report` | is a report whole, of one process, and does it end? | 2 pids, 2 processes for each, 3 addresses; fairness below | holds |

Why the bounds are enough. Three tools are one that captures, one that leaves
meanwhile and one that comes meanwhile. One region and one thread already give a
read before and a read after every step of the others; one change of the target
tells a capture that straddles it from one that does not. In the file,
two writers suffice to overlap and every longer history of writers ends in one of
those states; the block has two cells in one snapshot and one in the other, so
that a longer file can show behind a shorter one. Readers change nothing that
another one sees, so one that is not idle at a time is enough (`OneReader`). Three pages with a
granule of 2 hold two reservations, a region in the middle of one, and a free page
next to one; all layouts are enumerated, not chosen. Three rounds are a first, a
middle and a last one. Two other tools may take turns for ever, so that the
process is never seen running: the run has one, whose suspensions still nest with those of
the restore; the theorems hold for any number. Two calls that fail unseen can put the count off
twice in one direction, or once in each. Four thread ids are a target with two threads, or one
that leaves ids free, next to a new process with a worker that ends and one that gets its
id. Two versions are one update. The lengths and values of `pe_header` are those at
which a check of the code turns, and their neighbours.

Deadlock is not checked: every actor ends, and a finished system has no step.

### Fairness

`SnapshotCommand` asks weak fairness of `Step(t)` for each tool: a tool is a process that
the scheduler runs, and none of its calls waits for another tool (the suspend count
never blocks the suspender). Nothing is asked of the target. `Panic` and `Kill` are
never forced. `Thawed` excepts a kill; `snapshot_killed` shows why.

`RestoreCommand` asks the same of the `Step` of its tool, and of `OtherResumes`: a tool
that has suspended the process resumes it, which is what `Thawed` says of `--snapshot`.
Nothing is asked of the new process: it may hang in the loader or never
run. `DoneRuns` excepts a call of `ResumeThread` that failed unseen: the next
`SuspendThread` then makes two suspensions, and there is one resume at the end.

`Profile` asks weak fairness of the one tool. That its walk ends rests on the
addresses growing, not on the process holding still.

## What the checks found

1. *Killed tool* (`snapshot_killed`). The resume lives in `Drop`. A tool that is
   killed, or aborts because `vec![0u8; size]` cannot be allocated
   (`snapshot/memory.rs:106`), leaves the target suspended; `src/README.md:114` says
   it is "never left permanently frozen".
2. *Payload of 4 GiB or more* (`file_oversize`). `compress_prepend_size` stores the
   length in a u32; the file is reported as written and can never be decompressed.
   The failure noted in `src/README.md:121` has this form.
3. *Regions inside a reservation* (`memory_unaligned`). `VirtualAllocEx` rounds down,
   so only the first region of a reservation can be allocated: a second one, such as
   a committed stack above its guard page, ends as "not mapped" in an empty address space.
4. *Shifted contexts* (`threads_shifted`). A context that cannot be captured is left out
   of the list and restore pairs the lists by index, so every later thread gets the context
   of another; `src/README.md:27` says "matched by creation-order index".

### What is not so

What the code does in the following cases follows from a line or two of it, and no
run of its own is spent on them. Where a property above touches one of them it is
stated so as to except it.

- `restore_memory` returns `Ok` whatever the outcomes are; `src/README.md:113` says that
  zero regions fail hard.
- The dump keeps image pages that are not read-only, the ones a program changes, and the
  restore skips them as "same bytes from disk" (`restore/memory.rs:185`).
- A backup cut short is taken for a backup by the next `--disable-aslr`
  (`util/pe.rs:31`), which then patches the only good copy; a backup from before an update is
  later copied over the new version. `LostOnlyWhenSpoiled` and `RestoreGivesBack` name
  these two, and two tools at once, as the only ways.
- The main thread may get past the loader within the round in which the loader gets
  ready, that is run user code before anything is injected (`restore/launch.rs:109`;
  `restore/launch.rs:4` says it does not).
- Workers of the new process run while memory and contexts are replaced;
  `restore/threads.rs:25` asks for a fully suspended process.
- When `VirtualFreeEx` fails (`restore/memory.rs:128`) path B takes the misplaced pages for
  a mapping of the new process, writes into them and reports `DirectWritten`; its last
  `VirtualProtectEx` covers the data alone, so the rest of them stays writable and executable.
  `SkippedUntouched`, `MisalignedIsLost` and `LeftOpenWithReason` except the regions in `leaked`.
- When the last `VirtualProtectEx` of a region fails (`restore/memory.rs:142` and 216) its
  pages stay `PAGE_EXECUTE_READWRITE` and the region counts as restored.
  `LeftOpenWithReason` excepts the regions in `unprotected`.
- After a call of `ResumeThread` that failed unseen the process stays suspended though
  it is reported as running (`restore/launch.rs:109`). `DoneRuns` and `HandOver` except it;
  `FaultsShiftCount` says how far the count can be off.
- `--profile` takes a `VirtualQueryEx` that fails on a live process for the end of the regions
  (`process/info.rs:41`) and prints what it has. `ReportIsWhole` excepts it (`cut`).
- A thread id listed in the new process may be another process's thread when it is opened
  (`restore/threads.rs:95`), and a pid found by name another program's
  (`process/attach.rs:64`).

## Proofs

### `SnapshotCommandProofs`

It proves, for every finite set of tools and every number of
regions, threads, versions and kills (assumptions `ToolsAssumption` and
`BoundsAssumption`):

| theorem | says |
|---|---|
| `TypeCorrect` | `Spec => []TypeOK`; `TypeOK` is inductive by itself |
| `CountsAreOwned` | `Spec => []CountMatchesGuards` |
| `SnapshotsAreConsistent` | `Spec => []ConsistentCut` |
| `WrittenSnapshotsAreComplete` | `Spec => []WrittenIsComplete` |
| `OnlyKillsFreeze` | `Spec => [](LeaksAreKills /\ (kills = 0 => NeverLeftFrozen))`: finding 1 has no other cause |
| `SnapshotsAreBounded` | every step of a tool brings its end nearer, nobody else's puts it off |
| `Refinement` | `Spec => ImplementsAtomicSnapshot` |

None of the properties after `TypeCorrect` is inductive by itself. `ConsistentCut` survives a read only
if the version read is the one read before; that holds because the target was frozen
in between; that holds because the suspend count is positive; and that because the
count is the number of guards held and this tool holds one. So `IInv` joins, to the
types, where a guard is held (`GuardOfPc`), the count (`CountMatchesGuards`, by
adding and removing one element of the finite set of holders, `CountHolders`), what
a holder has read (`StampOfPc`: nothing but the present version, while the target
lives) and how far the walks went (`ProgressOfPc`: to the end, unless the target
died). The last two carry the escape "unless the target died" up to `Resume`, which
succeeds only on a live target: that is the line `guard.resume()?` (`main.rs:143`).
`StepKeepsIInv` takes the steps of the tools, one conjunct at a time;
`TargetKeepsIInv` those of the target. The refinement maps the first read that
yields bytes to `Take`, a written end to `Publish`, any other end to `Discard`, and
every other step to a stutter.

`OnlyKillsFreeze` counts the killed tools (`KillsAreCounted`) and finds the guards still held,
once all tools have ended, among them.

### `SnapshotFileProofs`

It proves, for any number of writers and readers on the path, any snapshots and
any `SizeMod`, that is also for 2^32 (assumptions `PayloadAssumption`: a file has a
header and at least one cell of block; `DistinctAssumption`: snapshots, foreign
files and garbage are different things):

| theorem | says |
|---|---|
| `TypeCorrect` | `Spec => []TypeOK`; `TypeOK` is inductive by itself |
| `ReportedSnapshotsAreOnDisk` | `Spec => []DoneIsOnDisk` |
| `UndisturbedReadsAreRight` | `Spec => []UndisturbedRead` |
| `ShortSnapshotsAreReadable` | if every payload is shorter than `SizeMod`, `Spec => []CompleteSnapshotIsReadable`: finding 2 has no other cause |
| `PeeksAreSound` | `Spec => []PeekSizeIsSound` |
| `Refinement` | `Spec => ImplementsSafeRegister` |

`DoneIsOnDisk` needs to know what the file holds before the last write: `SoleWriter`
says that, unless two writers had the file open, only the one that created it last
writes, and that the file is the prefix of its snapshot up to its offset
(`NextPrefix` is the step of one cell). `UndisturbedRead` rests on three facts.
`FileShape`: such a file is always a prefix of one snapshot or of a stranger, however
its writers ended. `SeesBeginning`: what an undisturbed reader has read is the file
it opened, up to its offset, and the header it has passed is that of a snapshot.
`WholeOrTorn`: so at the end of the file (`AtEnd`) the block is whole or cut short,
never mixed, and the third, undetermined way of `Decode` is not open to it.
`DecodeIsRight` and `RejectIsRight` draw the conclusion for each way a restore ends. A peek sees the beginning of the file in the same
way (`PeekSeesHeader`), so that a file shorter than a header has been truncated under it.

The refinement maps `Create` to `Begin`, the write of the last cell to `Complete`, and the way an
undisturbed read ends to the value its file held when it was opened. Its step for
`Complete` needs that a file is complete only after its last cell (`CutShortHoldsNothing`)
and that the snapshots do not look alike (`HeldIsIt`).

### `MemoryProofs`

For address spaces of any size, any granule (`SizeAssumption`) and any layouts of the
target and of the new process in which a reservation has no gaps
(`LayoutsAssumption`), regions read whole, in part or not, and any calls that fail, seen or unseen:

| theorem | says |
|---|---|
| `TypeCorrect` | `Spec => []RestoreTypeOK`: among others, no region past the last |
| `DumpIsComplete` | `Spec => []WritablePagesCaptured` |
| `SkippedChangesNothing` | `Spec => []SkippedUntouched`: but for misplaced pages whose release failed |
| `CountedStaysInPlace` | `Spec => []CountedIsInPlace` |
| `NothingElseLeftOpen` | `Spec => []LeftOpenWithReason`: a page stays writable and executable only past the data of a region read in part, when its protection is that or was refused, when the last `VirtualProtectEx` failed, or when it was not released |
| `AlignedComesBack` | `Spec => []AlignedRegionsComeBack` |
| `AlignedLayoutsComeBack` | if each private region of the target starts on an allocation boundary, `Spec => []PrivateMemoryComesBack`: finding 3 has no other cause |
| `MisalignedNeverComesBack` | `Spec => []MisalignedIsLost`: unless `VirtualFreeEx` fails unseen |
| `CallsAreBounded` | every call lowers a number (`CallsLeft`) that is never negative |

The dump: `RegionEnds` shows that the region the walk looks at exists and that its pages
are alike, and `DumpInv` that the regions captured so far are copies, lie behind the walk and
ascend. So a page is in one region at most (`OneRegion`). The rest is about the new
process: that its address space stays well formed through every call (`StaysShaped`) is
why `VirtualFreeEx` gives back the pages that landed at a wrong address and no others
(`Misplaced`), when it succeeds. `PageMoves` says what a step does to one page: nothing, unless the page was free, belongs to
the region being restored or is one of its misplaced pages. With `OneRegion`, a counted region is never touched again
(`CountedUntouched`). None of the properties is inductive, since each is about what
holds between two regions: `InFlight` names the pages changed for the region at hand, and
`Changed`, `Open` and `AlignedIsBack` carry the properties through its calls.
For an aligned region the first call decides: its pages are free when its turn comes
(`AlignedIsFree`), because no earlier region has a page in common with it.

`AlignedLayoutsComeBack` and `MisalignedNeverComesBack` are the two sides of finding 3. A region
captured starts where a region of the target does (`WalkInvariant`), so if all of those are aligned
`AlignedRegionsComeBack` covers all private memory. For the other side `PlacedInv` follows a misaligned
region through its calls: path A lands elsewhere or nowhere, its pages are given back or the region
is in `leaked`, and when they are path B finds the first page as free as it was (`QuerySeesStart`).

### `RestoreCommandProofs`

For any number of rounds, workers, other suspenders and calls that fail
(`RestoreAssumption`):

| theorem | says |
|---|---|
| `TypeCorrect` | `Spec => []TypeOK`: among others, no round too many |
| `CountsAreShared` | `Spec => []CountIsShared` |
| `StandsStill` | `Spec => MainStandsStill` |
| `FaultsShiftTheCount` | `Spec => []FaultsShiftCount`: calls that fail unseen put the count off by no more than their number |
| `RestoresAreBounded` | every step of the tool brings its end nearer, nothing else puts it off |
| `Refinement` | `Spec => ImplementsHandOver` |

`CountIsShared` is inductive together with the types and `LaunchInv`, which says that there is
a process exactly when the launch succeeded and that nothing counts before. `StandsStill`
and the refinement follow from it: a main thread that moves has a suspend count of 0,
so the tool's own suspension is not in it, so the tool is asleep in a round or done.

### `ThreadContextsProofs`

For every finite set of thread ids and any number of threads of the new process
(`ThreadsAssumption`):

| theorem | says |
|---|---|
| `TypeCorrect` | `Spec => []TypeOK`: neither loop goes past its list |
| `SnapshotsHaveOwnThreads` | `Spec => []CapturesAreOwn` |
| `ContextsAreSetOnce` | `Spec => []NoContextTwice` |
| `UndisturbedThreadsMatch` | `Spec => []MatchedUnlessDisturbed` |
| `MainThreadIsFirst` | `Spec => []MainGetsFirst`: without a condition on captures or other threads, the main thread gets no context but the first captured |
| `ThreadLoopsAreBounded` | every step of either loop brings the end nearer, no thread puts it off |

While the target lives its listed ids mean what they meant: `CaptureInv` says that they
are its threads in order of creation, and that what was captured is theirs in that order. Once it
has been terminated nothing is known, and the resume fails; `SavedInv` is what remains for a
snapshot that is written, the rank of each context. In the restore an id may come to mean another
thread. `ListInv` gives the rank of the listed threads while none of them has ended; `BornInv` says
that the threads of the new process are numbered as they are created; and `PlacedInv` that a thread
that was given a context has, if any, the id it was set at, so that no other id of the list can
lead to it. `RankIsPlace` counts the ranks. The main thread is the first of any list it is in
(`MainIsListedFirst`), and no thread becomes it later (`MainIsNotMade`).

### `AslrPatchProofs`

For any set of tools and any number of updates (`AslrAssumption`):

| theorem | says |
|---|---|
| `TypeCorrect` | `Spec => []TypeOK`: a restore never copies a backup that is not there |
| `NothingIsLost` | `Spec => []LostOnlyWhenSpoiled` |
| `RestoresGiveBack` | `Spec => RestoreGivesBack` |

`CopyInv` is about any number of tools: what a tool copies was there when it looked. The rest of the
invariant holds unless the backup is spoiled: at most one tool is at work (`Alone`), the backup
is missing, in the making or the executable as shipped (`BackupInv`), and so is what the next step
of that tool relies on (`KnownTo`).

### `PeHeaderProofs`

For any set of files in which no sum made of `e_lfanew` wraps (`FilesAssumption`; by
`WideUsizeSuffices` no file can break that when `usize` has 2^64 values):

| theorem | says |
|---|---|
| `TypeCorrect` | `Spec => []TypeOK`: the file keeps its length, its bytes stay bytes |
| `IndexesAreInRange` | `Spec => []IndexesInRange` |
| `OneBitChanges` | `Spec => []OnlyTheFlagChanges` |
| `PatchingIsIdempotent` | `Spec => []PatchedAgainIsTheSame` |
| `WideUsizeSuffices` | a field of four bytes, and 96 more, stay below any `usize` of more than 2^32 + 96 values |

`StageInv` is what the checks passed so far have established of the length and the fields; `DataInv` that the file
differs from the original at most in the flag byte, which the checks never look at,
so that a patched file passes them like the original.

### `ProfileProofs`

For any pids, address spaces and numbers of processes (`ProfileAssumption`):

| theorem | says |
|---|---|
| `TypeCorrect` | `Spec => []TypeOK` |
| `ReportsAreOfOneProcess` | `Spec => []OneProcess` |
| `ReportsAreWhole` | `Spec => []ReportIsWhole` |
| `ProfilesAreBounded` | every step of the tool brings its end nearer, no process puts it off |

`HandleInv`: while the handle is open the pid is the opened process's or nobody's. `Tiling`: the
regions so far tile the addresses walked, whichever way the walk ended. `AliveInv`: if the process is
still there, the walk was not cut short by its end and the threads are its own; the list of modules succeeds only then.

### Only model-checked

`Thawed`, `RestoreEnds`, `DoneRuns` and `ProfileEnds`: liveness under fairness, with the `ENABLED`
in it, is out of the prover's reach. Every other property of the passing runs is also a theorem.

What a proof of liveness needs besides fairness is that the steps cannot go on for ever, and
that part is proved. The four theorems `...AreBounded` of the tools, and `CallsAreBounded`, give a number
(`StepsLeft`, `CallsLeft`) that is never negative, that every step of the tool lowers and that no step of
anybody else raises: a tool that gets its turn ends, however many threads, regions,
rounds, processes or other tools there are. What TLC adds on small instances is that a
tool which has not ended can always take a step, and what then holds.

## Not modelled

The counts, sums and printing of `--profile` and of the other
commands (output only; the check for address 0 in `process/info.rs` is never reached
after the first region), flag parsing and messages, the bincode and LZ4 encodings
beyond their size prefix, WOW64 detection (recorded in the file and never used), `find_all_pids` and
`read_dll_characteristics` (called by nothing).
