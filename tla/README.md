# Flash Drive Leveling: a verification project in TLA+

Flash Drive Leveling (`fdlvling`) is a Windows filter driver that turns the random writes
made to a flash drive into sequential ones.  It sits between the disk class driver and the
USB storage stack, gathers written blocks in a memory cache, purges the cache sequentially
into chunks of the medium, keeps a map from logical blocks to places, and relocates the live
blocks of old chunks so that there is always a free chunk to go on in.  After a power loss it
rebuilds the map from control sectors on the medium.

This directory holds models of the driver (`*.tla`), configurations for TLC (`*.cfg`), proofs
for TLAPS (`*Proofs.tla`) and this description.  `PROJECT.json` lists the
runs, the source lines each definition stands for, and the hazards of the code.

## 1. The system

| Component | Source | State | Operations | Model |
|---|---|---|---|---|
| Chunk log | `driver/vscsi.c`, `vrelocation.c`, `vflush.c`, `vscsi.h`, `config.h` | `Map`, `ChunkInfo` (SCN, WCN, Used), `ChunkCtl`, `NextChunkCtl`, positions, the cache, the relocation window | read, write, cache fill, purge of the cache, purge of the chunk control, switch of chunk, relocation, flush, choice of the next chunk | `ChunkLog` |
| Recovery | `driver/recovery.c` | the progress of `DoRecovery1`, a worker thread and its queue | scan of the chunk controls, position, replay of purges | `ChunkLog`; the worker and its mode changes in `Gate` |
| Format and configuration | `driver/config.c` | the first sectors of the medium, weights and timeout | format, change of the weights, query | `Format`; the formatted medium is `ChunkLog`'s initial state; its mode changes and the timeout meet the rest in `Gate` |
| Gate | `driver/vgate.c` | queues of waiting requests, pending and active counters, free list of read threads, marks, flush timer, the leveling context | dispatch, completion, timer flush, cleaning after a mode change, creation and freeing of the context | `Gate`, above it `RequestService` |
| Filter device | `driver/vltl.c`, `vltl.h` | `Mode`, `TURErrors`, `LevelingCapable` | SCSI, PnP, power, I/O control dispatch, TEST UNIT READY | what touches the mode and the context: `Gate` |
| Media check | `driver/vcheck.c` | a chain of three completions | read capacity, read sector 0, create the context | `Gate` |
| Request engine | `driver/vreq.c`, `vreq.h` | Used, Busy, Retry, Transferred | split a transfer, retry it, complete it | `Request`, above it `Transfer` |
| Checksum | `lib/common.c` | none | produce, verify | abstracted: a control is valid or `Torn` |
| Registry | `driver/registry.c` | none | pattern match of hardware ids | not modelled |
| Trace buffer | `driver/trace.c`, `control.c` | a ring of characters | print, read | not modelled |
| Names, setting panel, `vltlctl`, test programs, installer | `driver/names.c`, `app/`, `vltlctl/`, `test/`, `fdlvling.wxs` | none of the driver's | text tables, dialogs, command line | not modelled |

How they interact.  Requests of the class driver enter through the filter device.  While the
mode is ACTIVE they go to the gate, which serves reads on up to ten read threads and every
other request on one "other" thread, in order.  A thread is not a kernel thread but a chain
of completion routines: a handler starts a request of the request engine, returns, and the
completion calls the handler again.  The read threads and the other thread share the
context: the read path takes `Ctx->SpinLock` for each lookup and releases it before its read
of the medium is served; the write path changes `CachePos`, `Map` and the positions under
that lock.  The media check creates the context and hands it to a recovery worker, which
builds the map and sets the mode to ACTIVE.  Failures set the mode to ERROR; the next TEST
UNIT READY frees the context once nothing is pending, and the device is checked anew.

What is hard about it:

* **Crash recovery.**  The map exists in memory only.  It is rebuilt from chunk controls that
  name dead blocks too, and from purge controls of the current chunk behind which older
  purges may lie.  The order of the SCN numbers decides.
* **Relocation in the background.**  The next chunk is emptied bit by bit, a few blocks per
  purge, against a quota computed from counters that writes change at the same time.  When
  the current chunk is full the next one has to be empty.
* **Reads against reuse.**  A read is sent to a place after the lock is released; the chunk
  may be freed, chosen again and overwritten before the read is served.  `MarkReadingThreads`
  is there to prevent it.
* **Partial failure.**  A failed purge may have reached the medium or not.
* **Retries.**  A request is split and retried with what the last call left in its fields.
* **What a format leaves behind.**  Nearly everything: only the CCN and the Magic keep a
  recovery from taking the data of an earlier format for its own.
* **Gate.**  Mode changes, timer, cancellation and freeing of the context run in
  arbitrary order on several processors.

## 2. Modules

| Module | What it is |
|---|---|
| `SnapshotStore` | the abstract promise of the log: writes accepted one at a time and done or refused, a copy of all blocks that is saved as a whole, and restarts that fall back to it |
| `ChunkLog` | the log: write, flush, read and relocation paths, recovery, power loss, failing requests, the medium |
| `MCChunkLog` | the request kinds for TLC |
| `RequestService` | the abstract promise of the gate: what it admits ends, everything but reads in order, and nothing is left over from one activation to the next |
| `Gate` | the gate, the modes and the life of the leveling context |
| `MCGate` | the media, timeouts and the symmetry for TLC |
| `Transfer` | the abstract promise of the request engine: the sectors of a transfer move front to back, and a good outcome means that all have moved |
| `Request` | the request engine: splitting, retries, the life of a request, callers that wait for it |
| `Format` | formatting a medium used before, its interruptions, the change of the settings in sector 0 |
| `ChunkLogProofs` | type correctness, the counts of the map, the consistency of the cache, and the order of the chunks by SCN, proved for every geometry and through any number of power losses |
| `LogMapProofs` | the map against the medium, and the relocation: no live block is overwritten, the next chunk is empty in time |
| `LogStoreProofs` | reads in flight, the implementation of `SnapshotStore`, whose writes a block shows, and how much a power loss takes back |
| `LogProgressProofs` | why every request of the log ends: the distance from its end, which every step lowers |
| `RequestProofs`, `FormatProofs` | the safety properties of `Request` and `Format`, the implementation of `Transfer`, and why calls and formats end |
| `GateProofs`, `GateServiceProofs` | the gate for any number of threads and requests: counters, queues and waiting; timer, recovery and format; the implementation of `RequestService` |

### ChunkLog

The variables have the names of the fields of `LEVELING_CTX`.  The thread that serves the
other requests is a small automaton: `step` is the request of the request engine it waits
for (`prepare`, `relocate`, `fill`, `purge`, `finalize`), `handler` when it is about to take
its next turn in `ExecuteWriteHandler` or `ExecuteFlushHandler`, `marked` when it waits for
marked readers, `copy` in the loop of `ExecuteRelocateCached`, and `idle` between requests.
Each action is one turn of the handler's loop up to the next request, or the completion of a
request with everything the completion changes.  Because there is one such thread, only the
readers, power losses and failures interleave with it.

| Code | Actions |
|---|---|
| `ExecuteRW`, `ExecuteWriteHandler` | `DispatchWrite`, `WriteAbort`, `CloseChunk`, `SwitchChunk`, `WriteHit`, `WritePurge`, `WriteFill`, `WriteAppend` |
| `ExecuteFlush`, `ExecuteFlushHandler` | `DispatchFlush`, `FlushFill`, `FlushPurge`, `FlushFinalize`, `FlushDone` |
| `CacheFillReadCompletion`, `PurgeCacheCompletion`, `PurgeChunkCompletion` | `CacheFillReadDone`, `PurgeCacheDone`, `PurgeChunkDone`; their error branches `IoFails` |
| `PrepareRelocate`, `ExecuteRelocateCached`, `ExecuteRelocate` and completions | `PrepareRelocate`, `PrepareRelocateDone`, `RelocateQuota`, `RelocateCopy`, `RelocateEnd`, `ExecuteRelocate`, `RelocateRead` |
| `ExecuteReadHandler`, `ExecuteReadCompletion` | `StartRead`, `FinishRead` |
| `UpdateMap`, `FindNextChunk`, `MarkReadingThreads` | operators of these names |
| `DoRecovery1` | `ScanChunk`, `RecoverPosition`, `ReplayPurge`, `FinishRecovery`, `RecoveryFails` |
| `InitializeLevelingCtx` after a power loss, or after ERROR | `Crash`, `Reinitialize` |
| `SetLevelingConfig` (completed) | `Formatted`, part of `Init` |

Abstractions:

* The unit is the block of 8 sectors, the unit of the map.  A purge is `CacheSize` blocks,
  the last of which is its control (`LAST_CACHE_POS`).  A request is a write of one whole
  block (`full`), of its first sectors (`head`), of the rest of them (`tail`), or of some
  inside (`inner`), a flush or a finalizing flush.  After a `head` the last block of the cache
  is *open* (`CachePos & 7`): a `tail` of the same block goes on there, and whatever else needs
  room in the cache first fills in the tail from the medium.  A `tail` of a block that is not
  cached has its head filled in first, which leaves the block open for it.  Where a head ends
  is the same for all writes.
* The contents of a block are the set of writes visible in it, each with the half (head or
  tail) it is visible in, so that a write replaces the halves it covers, and an inner one
  adds to them.  `Garbage` stands for whatever memory holds.
* Version, CCN, magic, chunk number and purge position in the controls identify the format
  and the place; within one format they match whenever the checksum does, so they are not
  part of the model.  A control is a record or `Torn`.
* A request cut short by a power loss, or failed after its retries, leaves nothing, all, or
  all but its control on the medium, or a control with a bad checksum.  Blocks of an
  unacknowledged purge are written over dead places only (`NoLiveOverwritten`), so it makes
  no difference which of them are new.
* `DispatchFlush` and `DispatchWrite` stand for the gate, which gives the other thread one
  request at a time.  The map of a read is looked up in one step, for one block.

### SnapshotStore

`contents` is what a read returns, `saved` what a restart returns, and `accepted` the write being
served.  A write is done as it was accepted (`Write`) or refused (`Refuse`), `Save` replaces the
whole of `saved`, and after `Crash` all blocks are as they were or all as they were saved.
`ChunkLog` implements it (`StoreSpec`) with `contents` refined to `Shown`, the cache before the
mapped place, and `accepted` to `Accepted`, the request the thread is at.  It is a strong
statement: relocation, switching of chunks, fills and failures change nothing a reader sees;
no write is done that was not accepted, at another block, or twice; a purge commits exactly
what was visible; after any power loss the log comes back with the last commit, or with the
one that had reached the medium unacknowledged.

### Gate

An action of `Gate` is a section under `GlobalSpinLock`, or the step of a handler up to its
next request; where the code looks at the mode without the lock (`TurLooksForError`, the
handlers' tests, the media check) that look is an action of its own, so that the mode may
change after it.

| Code | Actions |
|---|---|
| `LevelingDispatch` | `DispatchRead`, `DispatchOther` |
| `LevelingThreadCompletion` | `ReadCompletion` (`TakeNextRead`, `ReleaseReader`, `Unmark`), `NextOther`, `TimedFlush`, `OtherIdle`; `CleanIfLast` decides whether it cleans |
| `LevelingCleanAfterModeChanged` | `CleanRead`, `CleanOther`, `CleanEnds`; `cleaners` counts the calls in progress |
| `LevelingFlushDpc` | `FlushDpc`, after `TimerExpires` |
| `ExecuteReadHandler`, `ExecuteReadCompletion` | `ReadDone` |
| `ExecuteWriteHandler` | `WriteAbort`, `WriteEnds`, `WriteIo`, `WritePurge`, `WriteClose` (with `MarkReadingThreads`), `WritePrepare` |
| `ExecuteFlushHandler`, `ExecutePass` | `FlushFill`, `FlushPurge`, `FlushClose`, `FlushEnds`, `PassDone` |
| completions of the cache and relocation requests | `IoDone`, `PurgeDone`, `PrepareDone` (with `WaitMarkedThreads...`), `IoFails` |
| `FreeLevelingCtx` | `FreeCtx`, used by `TurFrees` and `RemoveFrees`; `RemoveWaits` and `RemovePolls` are its waiting loop |
| `VltlDispatchScsiTURCompletion` | `TurSucceeds`, `TurFails`, `TurLooksForError`, `TurLooksForCompleted`, `TurFrees` |
| `LevelingCheck`, `CheckCompletion1..3`, `InitializeLevelingCtx` | `CheckStarts`, `CheckFails`, `CheckCapacity`, `CheckSector`, `InstallCtx`, `CheckEnds` |
| `RecoveryWorkerRoutine`, `DoRecovery1` | `RecoveryStarts`, `RecoveryEnds`, `RecoveryFails` |
| `SetLevelingConfig` | `FormatAsked`, `FormatStarts`, `FormatRefused`, `FormatEnds`, `FormatFails`, `Configure` |

Abstractions:

* What a request is (write, flush, passed on) is chosen when it is taken up, not when it
  arrives; the gate treats all of them alike until then.  Requests that are answered on the
  spot (VERIFY, READ CAPACITY, an illegal command) are passed on and answered at once.
* A write or flush starts at most `MaxWork` I/Os and may dirty the cache before each; why it
  starts them and that it comes to an end is `ChunkLog`'s subject (`RequestsEnd`).
* `ThreadsMarked` is the set of marked threads, whose size the code counts.
* `timer` is the kernel's timer: off, set, or expired with its DPC on the way;
  `KeCancelTimer` succeeds in the second case only.
* `worker` is `stale` when a recovery runs whose context is gone, or when two are queued.
* `TURErrors` stops counting beyond its limit, which the code compares it with only.
* One I/O control sets the configuration at a time; a second format would be refused by its
  mode.  What a format and the settings write is `Format`'s subject.

### RequestService

`Gate` implements `RequestService` with `ready` refined to `mode = "ACTIVE"`, `reads` to the
requests of the read threads and their queue, and `others` to the one at work followed by
the queue.  It says that the gate neither loses, doubles nor reorders a request, that the
queues are empty again before the device becomes active anew, and, with fairness, that every
admitted request ends.

### Request and Transfer

`Request` follows one `REQUEST` from its creation to its end, under a caller that uses it again and
again.  Its variables are the fields of the structure; `turn` says that `Req->Handler` is about
to run, `caller` who has started the request and waits: an owner with a completion routine, or
a thread in `SyncScsiCallRW` whose event replaces that routine for the time of the call.  The
lower driver answers as it pleases: success, overrun, a success whose two lengths disagree, an
error, each after moving any front part of the transfer.

| Code | Actions |
|---|---|
| `CreateRequest`, `FreeRequest`, the hook of the adapter's limit | `CreateRequest`, `FreeRequest`, `HookStorageProperty` |
| `ScsiCallRW`, `SyncScsiCallRW`, `ReuseRequest` | `ScsiCallRW`, `SyncScsiCallRW`, `SyncReturns` |
| `ScsiCallReadCapacity`, `ScsiCallFlushCache`, `ScsiCallSrbFlush` | actions of these names |
| `ScsiCallRWHandler`, `ScsiCallDefaultHandler` | `RWSends`, `RWGivesUp`, `RWEnds`, `ScsiCallDefaultHandler` |
| `ScsiCallCompletion` | `IrpSucceeds`, `IrpDisagrees`, `IrpFails` |

`Request` implements `Transfer`, and this is what the other modules rely on: a request of `ChunkLog`
or `Format` is one step that succeeds as a whole, or fails having moved some front part, which
is why the control at the end of a purge is on the medium only if all its blocks are
(`ControlComesLast`).  Two things are assumed of the lower driver: within one transfer the
sectors move front to back, and a success moves at least one sector.  Without the second a
request goes on for ever, since every success resets `Retry` (`vreq.c:168`).
`MaximumTransferLength` is at least one sector (`Parameters`); the code does not check it.

### Format

`Format` is about a medium that carries the traces of earlier formats, all with valid checksums.
A generation stands for the random Magic and for the data of one format; `AcceptsCtl` and
`AcceptsPurge` are the tests of `recovery.c`.  A purge has its data and, behind it, its control, so
that a write cut short can leave the data of one format under the control of another
(`PurgeCutShort`; `CtlCutShort` for the control of a chunk).  The properties say that what recovery
accepts is of the generation in sector 0, with two exceptions, both in chunk 1 and both left
by interrupted formats behind the one that wrote the record:

* Two interrupted formats may leave a control of chunk 1 that recovery takes for its own:
  the first replaces the control that carried the number of the record, and when the numbers
  wrap around, the second may choose that number again, since no control carries it any more.
* One interrupted format may leave its first purge, in part or as a whole, where the control
  of the old format still stands.

The log at work appears by what it leaves on the medium: purges (`ExecutePurgeCache`), and the
control of a chunk once it has come to a position there (`ExecutePurgeChunk`; `End` is that position,
short of the whole chunk when a finalizing flush ends it early).  A failed write may tear any
control, the only one of the log too; recovery then starts from nothing, which is the loss
that `TornFirstChunk` names in `ChunkLog`.  Everything between appears by `Check`, `DoRecovery`, `ReCheck`,
and a power loss or exchange of the medium by `Restart`, at any point.

| Code | Actions |
|---|---|
| `SetLevelingConfig(VLTL_MODE_FORMAT)` | `StartFormat`, `SetFormatMode`, `FormatCtl`, `FormatPurge`, `FormatConf`, with `GivesUp` on every error path |
| `GetNewCCN` | `ScanCtl`, `NewCCN` |
| `SetLevelingConfig(VLTL_MODE_CONFIG)` | `ReadConf`, `EditConf`, `WriteConf` |

## 3. Runs

All instances of the log have 3 chunks, of which chunk 0 is one purge shorter as in the driver,
and one of two geometries: three purges of two blocks (one and a control) per chunk with 3
logical blocks, where a relocation takes several purges and resumes, or two purges of three
blocks with 2 logical blocks, where a purge holds relocated blocks and a written one.  This is
small, but everything the properties are about happens in it: chunks fill up and are closed,
the next one holds live blocks that have to be relocated, the log wraps around the medium
several times, recovery meets controls of all ages.  `RELOCATION_LIMIT_PERCENTAGE` satisfies the
relation the driver's values satisfy (90 * 64 <= 100 * 63):
`LIMIT * CacheSize <= 100 * (CacheSize - 1)`.  `MaxWrites` bounds the writes per block; power losses
are not bounded.

| Run | States | Question |
|---|---|---|
| `log_crash` | 2.0 million | writes of 3 blocks, purged one by one, a power loss at every step: types, counts, relocation, whose writes a block shows, and how much is lost |
| `log_failures` | 1.6 million | writes that end or begin inside a block, finalizing flushes, one failing request: the cache, the implementation of the snapshot store, and every step nearer to the end of its request |
| `log_liveness` | 686 thousand | a reader races writes and flushes through a failure: every request ends, and no place is overwritten under a read |
| `gate_service` | 1.9 million | two read threads, three requests, one failure: counters, free list, queues, timer, marks, and the implementation of `RequestService` |
| `gate_life` | 4.4 million | two media checks at once, formats, reconfiguration: one recovery, and recovery and format keep their mode |
| `gate_removal` | 3.9 million | a removal and two TEST UNIT READYs race requests, timer and DPC for the context |
| `gate_liveness` | 312 thousand | every request ends; a dirty cache is flushed |
| `request_engine` | 17 thousand | splits, retries, overruns, disagreeing lengths, reuse by two kinds of callers: complete, earned, in order, every turn nearer to the end, and the implementation of `Transfer` |
| `format_medium` | 1.4 million | three formats of one medium with a failure, direct use and a power loss at any point: nothing old is taken for new |
| `eject_loses_write` | violation | finding 1 |
| `purge_chunk_garbage` | violation | finding 2 |
| `read_overtaken` | violation | finding 3 |

The instances of the gate are small but reach its limits: more requests than read threads,
a queue behind the other thread, a timer that expires while the thread is at work, several
ways to lose the mode at once.  Two read threads and three requests are the least with a
free list that is permuted and a queue next to busy threads; `MaxWork = 2` is the least with
which a write marks the readers and waits for them.  `MaxTURErrors` (5 in the driver) is 0 or
1: only reaching it matters.  `MaxCleaners` bounds the calls of
`LevelingCleanAfterModeChanged` in progress.  Formats are explored with a single request, because formats
and requests meet in the mode only.

A request of three sectors under a limit of one or two is split in every way that matters (at
once, evenly, with a rest), and two retries tell "in a row" from "in total".  Two chunks of two
purges are the least with a control that maps something and one that does not; four values of
the CCN are one more than the three formats can use up, so that they run out of fresh numbers
and wrap around; the third format meets the traces of two.  One write may fail; interruptions
between the writes are not bounded.  (With two failing writes, 5 million states, the same
properties hold.)

`gate_removal` has no deadlock check, since a removed device does nothing any more.
Requests (`IrpSymmetry`) and checks (`CheckerSymmetry`) are interchangeable where only safety is
checked.

Fairness (`FairSpec`).  In the log, the other thread takes its turns and its requests are completed, the
recovery worker runs, the reads end.  The code justifies it because every handler runs to its
next request without waiting, and every request below has a timeout of 60 seconds
(`vreq.c:179`).  Nothing is assumed of new requests, power losses or failures; the number of
failures is bounded by `MaxFailures`, and it has to be: a flush does not look at the mode (`vflush.c:38`), so on a device that fails
for ever it is retried for ever.

In the gate, threads take their turns and their requests end, the timer expires, its DPC and the
cleaning run.  Nothing is assumed of TEST UNIT READY, checks, recovery, formats or removal.

In the request engine, handlers run, the lower driver answers (the same timeout), and a thread
whose event is set goes on.  Failures are not bounded there: the retries are.  In `Format` the
thread that formats goes on (`FormatStep`), because each of its requests ends.

### Properties

Of the log:

* `NextChunkIsEmpty`, `RelocationConsistent`: the assertion at `vscsi.c:233` and the message
  "Broken relocation consistency" at `recovery.c:137`.
* `RelocationKeepsPace`, `RelocationSeesAll`: why these hold: the quota test at
  `vrelocation.c:64` is made for the purge about to happen, and the table read from the
  medium names all blocks still mapped into the chunk.
* `NoLiveOverwritten`, `ReadsUndisturbed`: a purge does not touch a place that is mapped, nor
  one a read in flight was sent to.
* `CurrentIsNewest`: recovery starts from the chunk with the largest SCN.
* `UsedCounts`, `CacheConsistent`: the counters against the map, the cache against itself.
* `StoreSpec`: the implementation of `SnapshotStore`.
* `OnlyOwnWrites`: what a block shows was written to it, whatever its places held before, and
  whatever the memory of the cache holds behind `CachePos` when a purge is not full.
* `LossIsBounded`: a power loss takes back no more blocks than one cache holds.
* `StepsComeNearer`, `RequestsEnd`: every turn of the handlers brings the request nearer to its
  end (`Distance`), and with fairness it ends.

Of the gate:

* `CountersAgree`, `FreeListExact`: what the counters and the FreeLinks say against what the
  threads do; the context is freed and threads are given out on their word.
* `NobodyForgotten`: a queued request is never left without someone who will take it up or
  clean it away, whichever thread happens to finish last after a change of mode.
* `TimerAccounted`, `DirtyHasTimer`, `DpcFindsContext`, `DirtyIsFlushed`: the timer through
  cancellation, a DPC that comes late, a flush owed by a busy thread, and freeing.
* `WaitIsJustified`: the assertions on waiting for marked readers.
* `RecoveryUndisturbed`, `FormatUndisturbed`, `FreedWhenUnused`: who may change the mode or free
  the context under whom.
* `ServiceSpec`, `ServiceFairSpec`: the implementation of `RequestService`.

Of the request engine:

* `SuccessIsComplete`, `ControlComesLast`, `TransferSpec`: no sector is skipped, doubled into the wrong
  place of the buffer, or overtaken by a later one, however the request was split.
* `FailureIsEarned`: the retries count per transfer, and neither an earlier transfer nor an earlier
  call has used them up.
* `FreeWhenTold`: the assertions on Used and Busy.
* `CallsComeNearer`, `EveryCallAnswered`: every turn and every answer brings a call nearer to its
  end, and with fairness it ends, also through the completion routine that a waiting thread
  replaces and restores.

Of the format:

* `OwnControlsOnly`, `OwnDataOnly`: recovery takes controls and data of the format in sector 0 only,
  also when CCNs are used again and when later formats were interrupted, up to the two
  exceptions of section 2.  Neither exception can be left out: without it the run fails.
* `FormatErases`: a completed format has erased everything: recovery finds its first control, the
  first purge of a fixed disk, and nothing else.
* `RecordComesLast`: a new record arrives in sector 0, be it by a write that is reported as failed,
  only when the first control and the first purge are there and nothing else is accepted.
* `FormatEnds`: every format leaves its mode, through any failure.

The types of `Gate`, `Request` and `Format` are proved (`TypeCorrect` in their proofs) and not run.

### Findings

1. *Eject may lose a write* (`EjectSavesEverything`).  A write that finds its block in the
   cache does not set `CacheDirty` (`vscsi.c:256-268`).  If the block came there by relocation
   into a clean cache, the flush of STOP UNIT purges nothing and the write is lost, although
   the manual asks for "Eject" to be safe.
2. *A finalizing flush overwrites cached blocks* (`CacheEmptyAtPurgeChunk`).  With a clean cache
   that is not empty, `ExecuteFlushHandler` goes on to `ExecutePurgeChunk`, whose assertion says
   the cache is empty, and the chunk control is built over the cached blocks.
3. *A finalizing flush does not mark the readers* (`ReadsUndisturbed` in `read_overtaken`).  When
   it closes a full chunk, the later switch does not wait for the reads in flight.

The passing runs exclude the cause of 2 (`FinalizeAnytime = FALSE`, which is also the shortest
way to 3's medium) so that one flaw does not hide everything behind it.  `TornFirstChunk =
FALSE` excludes a power loss that tears the very first chunk control ever written after a
format: with it, recovery takes chunk 1 as never written (`recovery.c:99`).  Both are named
constants of the specification.

*How full a device may be.*  A map of 80% of all chunks is accepted (`vgate.c:61`, offered by
`config.c:270`), but one chunk has to be emptied while the current one fills up, so all blocks
have to fit into the others (`Capacity`, section 4).  On the driver's devices they do:
`vcheck.c:48` leaves media of fewer than 0x1c0000 sectors, 7 chunks, in direct mode, and from 7
chunks on the biggest map fits: a tenth of 7 * 0x40000 is 183500 blocks, and 6 chunks take
6 * 32130 = 192780.  The runs have three chunks and keep to maps that fit likewise.

What the runs of the gate exclude, because the code does not ensure it and no document says
what should happen (most of them are hazards in `PROJECT.json`):

* A removal that found the context busy waits for ever: `StillActive` is never reset
  (`vgate.c:130`).  The model has it; no liveness of the removal is claimed.
* A removal during a recovery frees the context under the worker (`vgate.c:129` does not count
  it): `RecoveryUndisturbed` fails with `Removal = TRUE`.
* TEST UNIT READY looks for ERROR outside the lock (`vltl.c:516`); a format that starts just
  then has its mode reset: `FormatUndisturbed` fails with `FormatMeetsFree = TRUE`.  Likewise
  `RecoveryUndisturbed` needs that one TEST UNIT READY is looked at at a time.
* The check of an oversized medium sets ERROR without the lock (`vgate.c:63`): with two checks
  and such a medium `RecoveryUndisturbed` fails.
* `DirtyHasTimer` is checked without reconfiguration: switching the timeout on arms no timer
  (`config.c:124`).
* `DirtyIsFlushed` has a condition: under an other thread that is never idle the flush of the
  timer waits for ever (`vgate.c:348`).
* Left in the model without a property: `TURErrors` is not reset for a new medium (`vltl.c:501`); a
  check that began before the medium changed ends with the mode of the old one (`vcheck.c:73`).

What the run of the format excludes:

* `FormatMeetsLog = FALSE`: `GetNewCCN` reads the controls while the log may still write others, and
  writes on the way when the mode changes reach the medium after the format has begun.  With
  `TRUE`, `OwnControlsOnly`, `OwnDataOnly`, `FormatErases` and `RecordComesLast` fail.
* `ConfigMeetsFormat = FALSE`: the change of the settings reads, edits and writes back sector 0
  (`config.c:110`); with `TRUE` the record of the old format may come back after a format,
  and all of these properties fail.

Two things the properties of the format do not promise.  The settings are changed in memory
before the write that may fail (`config.c:122`): `SettingsAgree` lets memory and medium part at that
failed write, and only there.  And a format that stops after its first write leaves the old
record with the control of chunk 1 gone or replaced (`config.c:178`): the properties say what
recovery can take then, not that the old format is complete.  `RecordComesLast` is therefore about
the record that arrives, not about every record that is there.

## 4. Proofs

Each theorem holds for all constants that satisfy the assumptions of its module: every
geometry, every number of threads, requests, formats and retries.

### The log

`ChunkLogProofs` proves, from `Geometry` and `Parameters` of `ChunkLog`:

* `TypeCorrect`: `Spec => []TypeOK`,
* `UsedIsExact`: `Spec => []UsedCounts`,
* `CacheStaysConsistent`: `Spec => []CacheConsistent`,
* `Invariance`: `Spec => []IInv`, from which the others follow.

`IInv` is the conjunction of `TypeOK`, `UsedCounts`, `CacheConsistent`, `CachePhases` and
`RelocatedOnly`.  The last two are needed because `CacheConsistent` alone is not inductive:
that a relocated block is not in the cache yet follows from the cache holding only blocks
mapped to lower places of the same chunk until the relocation is done (`RelocatedOnly`), and
that a fill has room follows from what was true when it was started (`CachePhases`).  `UsedCounts`
needs that `UpdateMap` takes the last place of a block named twice; `LatestIsThere` shows that
there is one (by well-founded strict subset, as induction over data is out of reach).
`UpdateMapCounts` is the heart of the argument: the increments and decrements of `UpdateMap`
are the change of the cardinalities.  There is one lemma per action, named after it.

It also proves `CurrentNewest`: `~TornFirstChunk /\ Spec => []CurrentIsNewest`.  `Order` adds to `IInv` what the
medium must hold for the next recovery to find the same current chunk: either its control
carries the largest SCN of all, or the control with the largest SCN is that of a full chunk
that names it as the next (`DiskHasNewest`), and halfway through the scan the current chunk is the
newest of those read (`Scanned`).  The theorem needs that the first control ever is not torn; with
`TornFirstChunk` it is false.

`LogMapProofs` proves what the relocation is there for, from `~TornFirstChunk` and from

    Capacity == SIZE_OF_MAP <= (MAX_CHUNKS - 1) * ((PURGES - 1) * LastCachePos)

that is, all blocks fit into all chunks but one, each without its first purge: `NoLiveLost`,
`NextEmpty`, `RecoveryConsistent`, `PaceKept` and `AllSeen`.  With the driver's geometry `Capacity` holds for every
map the driver accepts on a leveled device (section 3); without it `NextChunkIsEmpty` is false.
The argument is `MapInv`, added to `IInv` and `Order`:

* `Running`: in memory, the map names for each block the last place that the controls of the log name
  (`Log`).  `PurgeExtendsLog` shows that a purge of the cache makes it longer by one purge, `LogSucceeds`
  that a full chunk can be left for one that no block is mapped to.
* `Resumable`: before recovery is through, there is such a log on the medium: the newest control says
  where it begins, the purge controls behind that position where it ends.  `MediumIsWhole` is the heart
  of the proof: whatever a power loss leaves of the write under way, this holds again.
  `ScannedMap` is the same halfway through the scan.  `MapUnique` and `MediumUnique` show that there is only one
  such map, hence that recovery ends with the one that was lost.
* `Unacknowledged`: a purge that failed but had reached the medium is either repeated as it was or
  found by the next recovery; nothing else is done before.
* `Relocation`: the blocks that remain in the next chunk are no more than the purges that remain can
  take (`Pace`), with what is true in each phase of the thread (`PacePhases`).  `SomeChunkFits` is where
  `Capacity` comes in: by counting, some chunk other than the current one holds few enough blocks, and
  `FindNextChunk` chooses such a one, whatever the weights are.

`LogStoreProofs` proves what readers see.

* `ReadsSafe` (`ReadsUndisturbed`) for any number of readers, without finalizing flushes: with one it is
  false (finding 3).  `ReadsKept` says that a read was sent behind `PurgePos`, or that its reader is marked
  and waited for before the next purge.
* `LogImplementsStore`: `Spec` implements `StoreSpec`, for every geometry, any number of writes, power losses and
  failures, from `~TornFirstChunk`, `Capacity` and `~FinalizeAnytime` (finding 2 shows why).  `StoreInv` says that `saved`
  is what the log on the medium shows, in memory as during recovery (`Saves`); that a purge that is on
  the medium unacknowledged has left the data of the cache there (`Purging`); that what was read
  ahead for the relocation is still what the medium holds (`Window`); and that a finalizing flush does not meet
  cached blocks in a clean cache (`Served`).  `WrittenShows`, `AppendShows`, `ReplaceShows` and `FilledShows` say
  what a change of the cache shows, `PurgedShows` that the medium shows after a purge what the cache showed
  before; `RestartSaves` and `RecoverStutters` are the power loss and the recovery.
* `OwnWritesOnly` (`OnlyOwnWrites`) and `LossBounded` (`LossIsBounded`) under the same assumptions.
  The first is an invariant of the store itself, once `Owned` adds that the write being served is
  counted already: what `StoreSpec` lets a block show is what it showed or the write accepted.  The
  second follows from `Saves`: a block shown otherwise than saved is in the cache.

`LogProgressProofs` is about progress.  `Distance` is a tuple of nine numbers, compared
lexicographically: the failures that may still come; for a write, whether its block is out of
the cache, whether the cache holds a block that is not of the next chunk (`Mixed`: the next
purge takes it out for good), the chunks that relocation may have to fill up (`ChunksToFill`), the purges left in
the chunk, what is to be done before the next of them (`Stage`: close the chunk, switch, prepare,
wait for readers, relocate), how much of that is left, and whose turn it is; for a flush, its
stage (`FlushStage`).

* `StepsNearer` (`StepsComeNearer`), from `~TornFirstChunk` and `Capacity`: every step at a request lowers
  the distance, and no reader raises it.  It rests on `IInv`, `Order` and `MapInv`, and on `Phases`, which says at what
  stage each step may be met.  The point is a write that finds the cache full of relocated blocks:
  it purges them, relocates again, and the cache is full again.  This ends because relocation gets
  ahead of its quota: `SmallLeavesSlack` shows that the chunk `FindNextChunk` chooses leaves the
  current one room to spare (`Slack`), unless the current one is chunk 0, which has a purge less; that
  costs one chunk more.  Whether it happens depends on the geometry: the map of the run
  leaves slack earlier than a map that just satisfies `Capacity`, so here the theorem says more than the run.
* `NoEndlessDescent`: there is no endless descent of distances, from the library's theorem about
  lexicographic products of well-founded relations.
* `WaitsEnd` (`WaitsForReaders`): when the thread waits for marked readers, each of them is at work, so that the
  last one wakes it.  It needs that the read threads are finitely many (`SomeReaders`; the driver has ten).

Together these are the argument for `RequestsEnd`: whatever is left of it is that a step which
can be taken is taken, that is the fairness of section 3.

### The request engine and the format

`RequestProofs` proves `TypeCorrect`, `SuccessComplete`, `FailureEarned`, `ControlLast`, `RequestIsFree` and
`RequestImplementsTransfer`.  The invariant says for every stage of a request which front part has
moved, `Own(Transferred)` at least, and relates `Retry` to the answers that were bad in a row.
`CallsNearer` (`CallsComeNearer`) says the same of calls as `StepsNearer` of requests of the log, for every limit
of the retries and any number of bad answers: the pair of the sectors left and of the turns
left before one more is counted or the call is given up becomes less; `NoEndlessCall` shows that
this cannot go on for ever.

`FormatProofs` proves `TypeCorrect`, `OwnControls`, `OwnData`, `Erases`, `RecordLast` and `SettingsKept`, all
for formats that neither meet the log nor a configuration (`Serial`).  The key lemma is
`NewCCNIsNew`: the number chosen is on none of the controls read, whatever the wrap-around; the
invariant carries it from the scan to the end of the format, past the log that goes on writing
until then.  `Held` is what the exceptions rest on: chunk 1 keeps the number of the record, torn
or not, until a later format has chosen another, so only a second one can choose it again.
`RecordLast` follows from what the write of sector 0 finds (`RecordArrives`).  `SettingsKept`
(`SameSettings`, and `SettingsAgree` for the failed write) is proved only, not run.
`FormatGoesOn` needs no such condition: in the mode FORMAT there is a format under way, past its
scan, and each of its steps leaves one write less, or the mode (`FormatEnds` without the fairness).

### The gate

`GateProofs` rests on one inductive invariant of six parts: who holds a read thread and what the
free list says (`ReadSide`), the same for the other thread (`OtherSide`), marks and waiting (`MarkSide`),
the timer's flush (`FlushSide`), the context (`LifeSide`), and that every queued request has someone who
will take it up (`NobodyForgotten`).  From it follow `TypeCorrect`, `CountersExact`, `FreeListKept`,
`NobodyIsForgotten`, `WaitJustified`, `DpcFinds` and `FreedUnused` for all constants.  It also proves `TimerKept`
(no removal), `DirtyCacheTimed` (no removal, no reconfiguration), `RecoveryIsUndisturbed` and
`FormatIsUndisturbed` under `Calm`, which names what section 3 lists: no removal, no format that meets
the freeing of a context, no oversized medium, one TEST UNIT READY at a time.
`GateServiceProofs` proves `GateImplementsService`: initial states map to initial states of `RequestService`,
and every action to one of its steps or a stutter.

### Only model-checked

Liveness as such (`RequestsEnd`, `EveryCallAnswered`, `FormatEnds`, `DirtyIsFlushed`, `ServiceFairSpec`), since TLAPS
does not reason about fairness.  For the first three the proofs leave only the fairness to TLC: the
measure that each step lowers, and that it cannot be lowered for ever, are theorems.  For the
gate there is no such measure here, since requests and timer come again and again;
`NobodyForgotten` and `WaitIsJustified`, both proved, say who will take up what waits.

Every invariant of a passing run is also proved, and every action property.  The violations
(section 3, findings) are found by TLC only.

## 5. Not modelled

* Names of codes (`names.c`, tables of texts), setting panel, `vltlctl`, test programs and installer:
  no behaviour of the driver.
* The arithmetic of the checksum: a control is valid or `Torn`.
* Power and PnP requests that are passed on unchanged, the creation of the devices.
* The trace buffer, a diagnostic ring of characters under one lock, and the matching of hardware
  ids, a pure function that runs once at start.
* Sectors below the halves of a block; a request of several blocks is a sequence of requests
  here; no other write or flush comes between its blocks in the code either.
