-------------------------------- MODULE Gate --------------------------------
(***************************************************************************)
(* The gate of the driver (driver/vgate.c) and the life of the leveling    *)
(* context: requests are admitted in ACTIVE mode and served by the read    *)
(* threads and the one "other" thread, a timer flushes a dirty cache, and  *)
(* failures, TEST UNIT READY, media check, recovery, format and removal    *)
(* change the mode and create and free the context (driver/vltl.c,         *)
(* vcheck.c, recovery.c, config.c).                                        *)
(*                                                                         *)
(* An action is a section under GlobalSpinLock, or a step of a handler up  *)
(* to its next request.  What the requests do to the log is the subject of *)
(* ChunkLog; here the other thread only starts I/O and dirties the cache.  *)
(***************************************************************************)
EXTENDS Naturals, Sequences, FiniteSets

CONSTANTS
  READ_THREADS,
  Irps, NoIrp,        \* requests that can be open at once; no request
  Checkers,           \* READ CAPACITY requests that can be checked at once
  Turs,               \* TEST UNIT READY requests that can complete at once
  MaxTURErrors,       \* failing TEST UNIT READYs an active device forgives
  MaxWork,            \* I/Os one request of the other thread needs at most
  MaxFailures, MaxCleaners,  \* bounds of the exploration
  Timeouts,           \* values of CacheTimeout > 0
  Media,              \* what sector 0 may hold: "plain", "leveled", "oversized"
  Formats, Removal, Reconfigure,  \* may the device be formatted, removed, reconfigured?
  FormatMeetsFree     \* may a format start while TEST UNIT READY is about to free the context?

Threads == 0..(READ_THREADS - 1)
Busy    == 255        \* FreeLink of a thread that is not on the free list
Kinds   == {"write", "flush", "pass"}

ASSUME Parameters ==
  /\ READ_THREADS \in 1..254
  /\ NoIrp \notin Irps
  /\ MaxTURErrors \in Nat /\ MaxWork \in Nat
  /\ MaxFailures \in Nat /\ MaxCleaners \in Nat \ {0}
  /\ Timeouts \subseteq BOOLEAN /\ Timeouts # {}
  /\ Media \subseteq {"plain", "leveled", "oversized"}
  /\ Formats \in BOOLEAN /\ Removal \in BOOLEAN /\ Reconfigure \in BOOLEAN
  /\ FormatMeetsFree \in BOOLEAN

VARIABLES
  mode, ctx,                          \* DeviceExtension->Mode, Ctx # NULL
  ReadPending, OtherPending, ReadActive, OtherActive,
  ReadFreeList, FreeLink,             \* the free list of the read threads
  ReadIrpQueue, OtherIrpQueue,
  Marked, WaitingMarkedThreads,       \* Marked: the threads ThreadsMarked counts
  CacheDirty, FlushPending, TimerActive, CacheTimeout,
  timer,                              \* "off", "set", or "fired": its DPC is on the way
  readPc, readIrp,                    \* the read threads
  otherPc, otherIrp, otherKind, work, \* the other thread
  cleaners,                           \* runs of LevelingCleanAfterModeChanged
  tur, TURErrors, check, LevelingCapable, worker, formatting, removal,
  failures

countVars  == <<ReadPending, OtherPending, ReadActive, OtherActive>>
readVars   == <<ReadFreeList, FreeLink, readPc, readIrp>>
queueVars  == <<ReadIrpQueue, OtherIrpQueue>>
markVars   == <<Marked, WaitingMarkedThreads>>
flushVars  == <<CacheDirty, FlushPending, TimerActive, CacheTimeout, timer>>
otherVars  == <<otherPc, otherIrp, otherKind, work>>
ctxVars    == <<countVars, readVars, queueVars, markVars, flushVars, otherVars>>
deviceVars == <<mode, ctx>>
lifeVars   == <<tur, TURErrors, check, LevelingCapable, worker, formatting, removal>>
vars == <<deviceVars, ctxVars, cleaners, lifeVars, failures>>

InQueue(q) == {q[i] : i \in 1..Len(q)}
BusyReaders == {t \in Threads : readPc[t] # "free"}
OpenReads  == ({readIrp[t] : t \in Threads} \ {NoIrp}) \cup InQueue(ReadIrpQueue)
OpenOthers == (IF otherIrp = NoIrp THEN <<>> ELSE <<otherIrp>>) \o OtherIrpQueue

\* A context as InitializeLevelingCtx zeroes it.
FreshLinks   == [t \in Threads |-> t + 1]
FreeReaders  == [t \in Threads |-> "free"]
NoReads      == [t \in Threads |-> NoIrp]

Init ==
  /\ mode = "INITIAL" /\ ctx = FALSE
  /\ ReadPending = 0 /\ OtherPending = 0 /\ ReadActive = 0 /\ OtherActive = 0
  /\ ReadFreeList = 0 /\ FreeLink = FreshLinks /\ readPc = FreeReaders /\ readIrp = NoReads
  /\ ReadIrpQueue = <<>> /\ OtherIrpQueue = <<>>
  /\ Marked = {} /\ WaitingMarkedThreads = FALSE
  /\ CacheDirty = FALSE /\ FlushPending = FALSE /\ TimerActive = FALSE /\ CacheTimeout = FALSE
  /\ timer = "off"
  /\ otherPc = "idle" /\ otherIrp = NoIrp /\ otherKind = "pass" /\ work = 0
  /\ cleaners = 0
  /\ tur = [u \in Turs |-> "none"] /\ TURErrors = 0
  /\ check = [c \in Checkers |-> "none"] /\ LevelingCapable = FALSE
  /\ worker = "none" /\ formatting = "none" /\ removal = "none"
  /\ failures = 0

-----------------------------------------------------------------------------
(* LevelingDispatch.  Requests that meet another mode are answered at once. *)

Admits(i) ==
  /\ ctx /\ mode = "ACTIVE"
  /\ i \notin OpenReads \cup InQueue(OpenOthers)
  /\ removal = "none"

StartRead(t, i) ==
  /\ readPc' = [readPc EXCEPT ![t] = "run"]
  /\ readIrp' = [readIrp EXCEPT ![t] = i]

StartOther(i, k) ==
  /\ otherPc' = IF k = "pass" THEN "pass" ELSE "run"
  /\ otherIrp' = i /\ otherKind' = k /\ work' = MaxWork

DispatchRead(i) ==
  /\ Admits(i)
  /\ ReadPending' = ReadPending + 1
  /\ \/ /\ ReadActive < READ_THREADS
        /\ ReadFreeList' = FreeLink[ReadFreeList]
        /\ FreeLink' = [FreeLink EXCEPT ![ReadFreeList] = Busy]
        /\ ReadActive' = ReadActive + 1
        /\ StartRead(ReadFreeList, i)
        /\ UNCHANGED ReadIrpQueue
     \/ /\ ReadActive >= READ_THREADS
        /\ ReadIrpQueue' = Append(ReadIrpQueue, i)
        /\ UNCHANGED <<readVars, ReadActive>>
  /\ UNCHANGED <<deviceVars, OtherPending, OtherActive, OtherIrpQueue, markVars, flushVars,
                 otherVars, cleaners, lifeVars, failures>>

DispatchOtherFirst(i) ==                                                \* mutant
  /\ Admits(i)
  /\ OtherPending' = OtherPending + 1
  /\ \/ /\ OtherActive = 0
        /\ OtherActive' = 1
        /\ \E k \in Kinds : StartOther(i, k)
        /\ UNCHANGED OtherIrpQueue
     \/ /\ OtherActive # 0
        /\ OtherIrpQueue' = <<i>> \o OtherIrpQueue
        /\ UNCHANGED <<otherVars, OtherActive>>
  /\ UNCHANGED <<deviceVars, ReadPending, ReadActive, readVars, ReadIrpQueue, markVars, flushVars,
                 cleaners, lifeVars, failures>>
DispatchOther(i) ==
  /\ Admits(i)
  /\ OtherPending' = OtherPending + 1
  /\ \/ /\ OtherActive = 0
        /\ OtherActive' = 1
        /\ \E k \in Kinds : StartOther(i, k)
        /\ UNCHANGED OtherIrpQueue
     \/ /\ OtherActive # 0
        /\ OtherIrpQueue' = Append(OtherIrpQueue, i)
        /\ UNCHANGED <<otherVars, OtherActive>>
  /\ UNCHANGED <<deviceVars, ReadPending, ReadActive, readVars, ReadIrpQueue, markVars, flushVars,
                 cleaners, lifeVars, failures>>

-----------------------------------------------------------------------------
(* The read threads and the read half of LevelingThreadCompletion *)

\* The read is over, with whatever status, and its request is completed.
ReadDone(t) ==
  /\ readPc[t] = "run"
  /\ readPc' = [readPc EXCEPT ![t] = "done"]
  /\ readIrp' = [readIrp EXCEPT ![t] = NoIrp]
  /\ UNCHANGED <<deviceVars, countVars, ReadFreeList, FreeLink, queueVars, markVars, flushVars,
                 otherVars, cleaners, lifeVars, failures>>

TakeNextRead(t) ==
  /\ mode = "ACTIVE" /\ ReadIrpQueue # <<>>
  /\ StartRead(t, Head(ReadIrpQueue))
  /\ ReadIrpQueue' = Tail(ReadIrpQueue)
  /\ UNCHANGED <<ReadFreeList, FreeLink, ReadActive>>

ReleaseReaderSwapped(t) ==                                              \* mutant
  /\ mode # "ACTIVE" \/ ReadIrpQueue = <<>>
  /\ FreeLink' = [FreeLink EXCEPT ![t] = t]
  /\ ReadFreeList' = t
  /\ ReadActive' = ReadActive - 1
  /\ readPc' = [readPc EXCEPT ![t] = "free"]
  /\ UNCHANGED <<readIrp, ReadIrpQueue>>
ReleaseReader(t) ==
  /\ mode # "ACTIVE" \/ ReadIrpQueue = <<>>
  /\ FreeLink' = [FreeLink EXCEPT ![t] = ReadFreeList]
  /\ ReadFreeList' = t
  /\ ReadActive' = ReadActive - 1
  /\ readPc' = [readPc EXCEPT ![t] = "free"]
  /\ UNCHANGED <<readIrp, ReadIrpQueue>>

UnmarkStillWaiting(t) ==                                                \* mutant
  /\ Marked' = Marked \ {t}
  /\ otherPc' = IF Marked' = {} /\ WaitingMarkedThreads THEN "run" ELSE otherPc
  /\ UNCHANGED WaitingMarkedThreads
\* The last of the marked threads lets the other thread go on.
Unmark(t) ==
  /\ Marked' = Marked \ {t}
  /\ IF Marked' = {} /\ WaitingMarkedThreads
     THEN WaitingMarkedThreads' = FALSE /\ otherPc' = "run"
     ELSE UNCHANGED <<WaitingMarkedThreads, otherPc>>

CleanIfLastBefore ==                                                    \* mutant
  IF mode # "ACTIVE" /\ ReadActive = 0 /\ OtherActive = 0
  THEN cleaners < MaxCleaners /\ cleaners' = cleaners + 1
  ELSE UNCHANGED cleaners
\* Whoever goes last after a change of mode cleans the queues.
CleanIfLast ==
  IF mode # "ACTIVE" /\ ReadActive' = 0 /\ OtherActive' = 0
  THEN cleaners < MaxCleaners /\ cleaners' = cleaners + 1
  ELSE UNCHANGED cleaners

ReadCompletion(t) ==
  /\ readPc[t] = "done"
  /\ ReadPending' = ReadPending - 1
  /\ TakeNextRead(t) \/ ReleaseReader(t)
  /\ Unmark(t)
  /\ UNCHANGED OtherActive
  /\ CleanIfLast
  /\ UNCHANGED <<deviceVars, OtherPending, OtherIrpQueue, flushVars, otherIrp, otherKind, work,
                 lifeVars, failures>>

-----------------------------------------------------------------------------
(* The other thread.  A handler runs until it has started an I/O. *)

otherStepRest == <<deviceVars, countVars, readVars, queueVars, cleaners, lifeVars, failures>>

Handling(k) == otherPc = "run" /\ otherKind = k
WritingActive == Handling("write") /\ mode = "ACTIVE"

StartIo(pc) ==
  /\ work > 0 /\ work' = work - 1
  /\ otherPc' = pc
  /\ UNCHANGED <<otherIrp, otherKind>>

EndRequest ==
  /\ otherPc' = "done" /\ otherIrp' = NoIrp
  /\ UNCHANGED <<otherKind, work>>

\* What a write puts into the cache before it comes to its next I/O.
MayDirty == CacheDirty' \in {CacheDirty, TRUE}

CallOffTimerAnyway ==                                                   \* mutant
  /\ TimerActive' = FALSE
  /\ timer' = IF timer = "set" THEN "off" ELSE timer
CallOffTimerSilently ==                                                 \* mutant
  /\ timer' = IF timer = "set" THEN "off" ELSE timer
  /\ UNCHANGED TimerActive
\* ExecutePurgeCache calls the timer off unless it has expired.
CallOffTimer ==
  IF TimerActive /\ timer = "set"
  THEN TimerActive' = FALSE /\ timer' = "off"
  ELSE UNCHANGED <<TimerActive, timer>>

WriteAbort ==
  /\ Handling("write") /\ mode # "ACTIVE"
  /\ EndRequest
  /\ UNCHANGED <<otherStepRest, markVars, flushVars>>

WriteEnds ==
  /\ WritingActive /\ MayDirty
  /\ EndRequest
  /\ UNCHANGED <<otherStepRest, markVars, FlushPending, TimerActive, CacheTimeout, timer>>

WriteIo ==
  /\ WritingActive /\ MayDirty
  /\ StartIo("io")
  /\ UNCHANGED <<otherStepRest, markVars, FlushPending, TimerActive, CacheTimeout, timer>>

WritePurge ==
  /\ WritingActive /\ MayDirty
  /\ CallOffTimer
  /\ StartIo("purge")
  /\ UNCHANGED <<otherStepRest, markVars, FlushPending, CacheTimeout>>

\* A full chunk is closed when its last purge is done, so the cache is clean.
WriteClose ==
  /\ WritingActive /\ ~CacheDirty
  /\ Marked' = Marked \cup {t \in Threads : FreeLink[t] = Busy}
  /\ StartIo("close")
  /\ UNCHANGED <<otherStepRest, WaitingMarkedThreads, flushVars>>

WritePrepare ==
  /\ WritingActive /\ ~CacheDirty
  /\ StartIo("prepare")
  /\ UNCHANGED <<otherStepRest, markVars, flushVars>>

\* ExecuteFlushHandler does not look at the mode.
FlushFill ==
  /\ Handling("flush")
  /\ StartIo("io")
  /\ UNCHANGED <<otherStepRest, markVars, flushVars>>

FlushPurge ==
  /\ Handling("flush") /\ CacheDirty
  /\ CallOffTimer
  /\ otherPc' = "purge"
  /\ UNCHANGED <<otherStepRest, markVars, CacheDirty, FlushPending, CacheTimeout, otherIrp,
                 otherKind, work>>

\* Only a request asks for a finalizing flush, the timer does not.
FlushClose ==
  /\ Handling("flush") /\ ~CacheDirty /\ otherIrp # NoIrp
  /\ StartIo("close")
  /\ UNCHANGED <<otherStepRest, markVars, flushVars>>

\* A flush is passed on, but for that of a shutdown, which ends here, and that of the timer,
\* which has no request to pass on.
FlushEnds ==
  /\ Handling("flush") /\ ~CacheDirty
  /\ \/ EndRequest
     \/ otherIrp # NoIrp /\ otherPc' = "pass" /\ UNCHANGED <<otherIrp, otherKind, work>>
  /\ UNCHANGED <<otherStepRest, markVars, flushVars>>

PassDone ==
  /\ otherPc = "pass"
  /\ EndRequest
  /\ UNCHANGED <<otherStepRest, markVars, flushVars>>

IoDone ==
  /\ otherPc \in {"io", "close"}
  /\ otherPc' = "run"
  /\ UNCHANGED <<otherStepRest, markVars, flushVars, otherIrp, otherKind, work>>

PurgeDone ==
  /\ otherPc = "purge"
  /\ CacheDirty' = FALSE
  /\ otherPc' = "run"
  /\ UNCHANGED <<otherStepRest, markVars, FlushPending, TimerActive, CacheTimeout, timer, otherIrp,
                 otherKind, work>>

\* WaitMarkedThreadsAndWriteCompleteHandler
PrepareDone ==
  /\ otherPc = "prepare"
  /\ WaitingMarkedThreads' = (Marked # {})
  /\ otherPc' = IF Marked # {} THEN "wait" ELSE "run"
  /\ UNCHANGED <<otherStepRest, Marked, flushVars, otherIrp, otherKind, work>>

IoFailsAlways ==                                                        \* mutant
  /\ otherPc \in {"io", "purge", "close", "prepare"}
  /\ failures < MaxFailures /\ failures' = failures + 1
  /\ mode' = "ERROR"
  /\ otherPc' = "run"
  /\ UNCHANGED <<ctx, countVars, readVars, queueVars, markVars, flushVars, otherIrp, otherKind,
                 work, cleaners, lifeVars>>
IoFails ==
  /\ otherPc \in {"io", "purge", "close", "prepare"}
  /\ failures < MaxFailures /\ failures' = failures + 1
  /\ mode' = IF mode = "ACTIVE" THEN "ERROR" ELSE mode
  /\ otherPc' = "run"
  /\ UNCHANGED <<ctx, countVars, readVars, queueVars, markVars, flushVars, otherIrp, otherKind,
                 work, cleaners, lifeVars>>

-----------------------------------------------------------------------------
(* The other half of LevelingThreadCompletion *)

completionRest == <<deviceVars, ReadPending, ReadActive, readVars, ReadIrpQueue, markVars,
                    lifeVars, failures>>

GoesOn == mode = "ACTIVE" /\ OtherIrpQueue # <<>>

NextOther ==
  /\ otherPc = "done" /\ GoesOn
  /\ OtherPending' = OtherPending - 1
  /\ \E k \in Kinds : StartOther(Head(OtherIrpQueue), k)
  /\ OtherIrpQueue' = Tail(OtherIrpQueue)
  /\ UNCHANGED <<completionRest, OtherActive, flushVars, cleaners>>

\* The flush the timer asked for while the thread was at work.
TimedFlushDue == FlushPending /\ CacheDirty /\ mode = "ACTIVE"

TimedFlush ==
  /\ otherPc = "done" /\ ~GoesOn /\ TimedFlushDue
  /\ StartOther(NoIrp, "flush")
  /\ FlushPending' = FALSE /\ TimerActive' = FALSE
  /\ UNCHANGED <<completionRest, OtherPending, OtherActive, OtherIrpQueue, CacheDirty, CacheTimeout,
                 timer, cleaners>>

OtherIdle ==
  /\ otherPc = "done" /\ ~GoesOn /\ ~TimedFlushDue
  /\ OtherPending' = OtherPending - 1
  /\ OtherActive' = OtherActive - 1
  /\ FlushPending' = FALSE
  /\ IF CacheDirty /\ CacheTimeout /\ (FlushPending \/ ~TimerActive)
     THEN TimerActive' = TRUE /\ timer' = "set"
     ELSE TimerActive' = (TimerActive /\ ~FlushPending) /\ UNCHANGED timer
  /\ otherPc' = "idle"
  /\ UNCHANGED ReadActive
  /\ CleanIfLast
  /\ UNCHANGED <<deviceVars, ReadPending, readVars, queueVars, markVars, CacheDirty, CacheTimeout,
                 otherIrp, otherKind, work, lifeVars, failures>>

-----------------------------------------------------------------------------
(* The flush timer and LevelingFlushDpc *)

TimerExpires ==
  /\ timer = "set" /\ timer' = "fired"
  /\ UNCHANGED <<deviceVars, countVars, readVars, queueVars, markVars, CacheDirty, FlushPending,
                 TimerActive, CacheTimeout, otherVars, cleaners, lifeVars, failures>>

FlushDpcForgets ==                                                      \* mutant
  /\ timer = "fired" /\ ctx /\ OtherActive # 0
  /\ timer' = "off"
  /\ UNCHANGED <<deviceVars, countVars, readVars, queueVars, markVars, CacheDirty, FlushPending,
                 TimerActive, CacheTimeout, otherVars, cleaners, lifeVars, failures>>
FlushDpc ==
  /\ timer = "fired" /\ ctx
  /\ timer' = "off"
  /\ \/ /\ OtherActive = 0 /\ CacheDirty /\ mode = "ACTIVE"
        /\ OtherPending' = OtherPending + 1 /\ OtherActive' = 1
        /\ StartOther(NoIrp, "flush")
        /\ FlushPending' = FALSE /\ TimerActive' = FALSE
     \/ /\ OtherActive = 0 /\ ~(CacheDirty /\ mode = "ACTIVE")
        /\ FlushPending' = FALSE /\ TimerActive' = FALSE
        /\ UNCHANGED <<otherVars, OtherPending, OtherActive>>
     \/ /\ OtherActive # 0
        /\ FlushPending' = TRUE
        /\ UNCHANGED <<otherVars, OtherPending, OtherActive, TimerActive>>
  /\ UNCHANGED <<deviceVars, ReadPending, ReadActive, readVars, queueVars, markVars, CacheDirty,
                 CacheTimeout, cleaners, lifeVars, failures>>

-----------------------------------------------------------------------------
(* LevelingCleanAfterModeChanged: one request of the queues, or the end *)

cleanRest == <<deviceVars, ReadActive, OtherActive, readVars, markVars, flushVars, otherVars,
               lifeVars, failures>>
Cleanable == ctx /\ mode # "ACTIVE"

CleanRead ==
  /\ cleaners > 0 /\ Cleanable /\ ReadIrpQueue # <<>>
  /\ ReadIrpQueue' = Tail(ReadIrpQueue)
  /\ ReadPending' = ReadPending - 1
  /\ UNCHANGED <<cleanRest, OtherPending, OtherIrpQueue, cleaners>>

CleanOtherUncounted ==                                                  \* mutant
  /\ cleaners > 0 /\ Cleanable /\ ReadIrpQueue = <<>> /\ OtherIrpQueue # <<>>
  /\ OtherIrpQueue' = Tail(OtherIrpQueue)
  /\ UNCHANGED <<cleanRest, ReadPending, OtherPending, ReadIrpQueue, cleaners>>
CleanOther ==
  /\ cleaners > 0 /\ Cleanable /\ ReadIrpQueue = <<>> /\ OtherIrpQueue # <<>>
  /\ OtherIrpQueue' = Tail(OtherIrpQueue)
  /\ OtherPending' = OtherPending - 1
  /\ UNCHANGED <<cleanRest, ReadPending, ReadIrpQueue, cleaners>>

CleanEnds ==
  /\ cleaners > 0 /\ ~(Cleanable /\ (ReadIrpQueue # <<>> \/ OtherIrpQueue # <<>>))
  /\ cleaners' = cleaners - 1
  /\ UNCHANGED <<cleanRest, ReadPending, OtherPending, queueVars>>

-----------------------------------------------------------------------------
(* FreeLevelingCtx, under its lock *)

StillActiveUntimed == ctx /\ (ReadPending > 0 \/ OtherPending > 0)      \* mutant
StillActiveReading == ctx /\ (ReadPending > 0 \/ (TimerActive /\ timer # "set")) \* mutant
StillActive ==
  ctx /\ (ReadPending > 0 \/ OtherPending > 0 \/ (TimerActive /\ timer # "set"))

\* Nothing of the context is left; the next one starts from zeroed memory.
ForgetCtx ==
  /\ ReadPending' = 0 /\ OtherPending' = 0 /\ ReadActive' = 0 /\ OtherActive' = 0
  /\ ReadFreeList' = 0 /\ FreeLink' = FreshLinks /\ readPc' = FreeReaders /\ readIrp' = NoReads
  /\ ReadIrpQueue' = <<>> /\ OtherIrpQueue' = <<>>
  /\ Marked' = {} /\ WaitingMarkedThreads' = FALSE
  /\ CacheDirty' = FALSE /\ FlushPending' = FALSE /\ TimerActive' = FALSE /\ CacheTimeout' = FALSE
  /\ otherPc' = "idle" /\ otherIrp' = NoIrp /\ otherKind' = "pass" /\ work' = 0

\* A context under recovery is freed like any other: the worker is not counted.
FreeCtx ==
  /\ ~StillActive
  /\ ctx' = FALSE
  /\ mode' = "INITIAL" /\ LevelingCapable' = FALSE
  /\ IF ctx THEN /\ ForgetCtx
                 /\ timer' = IF TimerActive /\ timer = "set" THEN "off" ELSE timer
                 /\ worker' = IF worker = "none" THEN "none" ELSE "stale"
            ELSE UNCHANGED <<ctxVars, worker>>

FreeLevelingCtx ==
  FreeCtx \/ (StillActive /\ UNCHANGED <<deviceVars, ctxVars, LevelingCapable, worker>>)

-----------------------------------------------------------------------------
(* TEST UNIT READY: its completion counts failures and frees what is given up *)

turRest == <<ctx, ctxVars, cleaners, check, worker, formatting, removal, failures>>

TurSucceeds(u) ==
  /\ tur[u] = "none" /\ removal = "none"
  /\ TURErrors' = 0
  /\ tur' = [tur EXCEPT ![u] = "ends"]
  /\ UNCHANGED <<turRest, mode, LevelingCapable>>

\* Beyond the limit TURErrors no longer tells anything and is not counted on.
TurFails(u) ==
  /\ tur[u] = "none" /\ removal = "none"
  /\ tur' = [tur EXCEPT ![u] = "failed"]
  /\ TURErrors' = IF mode = "ACTIVE" /\ TURErrors <= MaxTURErrors THEN TURErrors + 1 ELSE TURErrors
  /\ mode' = CASE mode = "DIRECT" -> "INITIAL"
               [] mode = "ACTIVE" /\ TURErrors' > MaxTURErrors -> "ERROR"
               [] OTHER -> mode
  /\ LevelingCapable' = (LevelingCapable /\ mode # "DIRECT")
  /\ UNCHANGED turRest

TurLooksForUnready(u) ==                                                \* mutant
  /\ tur[u] = "failed"
  /\ tur' = [tur EXCEPT ![u] = IF mode \in {"ERROR", "RECOVERY"} THEN "free" ELSE "ends"]
  /\ UNCHANGED <<turRest, mode, TURErrors, LevelingCapable>>
TurLooksForError(u) ==
  /\ tur[u] = "failed"
  /\ tur' = [tur EXCEPT ![u] = IF mode = "ERROR" THEN "free" ELSE "ends"]
  /\ UNCHANGED <<turRest, mode, TURErrors, LevelingCapable>>

TurLooksForCompleted(u) ==
  /\ tur[u] = "ends"
  /\ tur' = [tur EXCEPT ![u] = IF mode = "COMPLETED" THEN "freeLast" ELSE "none"]
  /\ UNCHANGED <<turRest, mode, TURErrors, LevelingCapable>>

TurFrees(u) ==
  /\ tur[u] \in {"free", "freeLast"}
  /\ tur' = [tur EXCEPT ![u] = IF tur[u] = "free" THEN "ends" ELSE "none"]
  /\ FreeLevelingCtx
  /\ UNCHANGED <<cleaners, TURErrors, check, formatting, removal, failures>>

-----------------------------------------------------------------------------
(* Media check: a chain of completions on one READ CAPACITY request *)

checkRest == <<ctxVars, cleaners, tur, TURErrors, formatting, removal, failures>>

CheckStarts(c) ==
  /\ check[c] = "none" /\ mode = "INITIAL" /\ removal = "none"
  /\ check' = [check EXCEPT ![c] = "capacity"]
  /\ UNCHANGED <<checkRest, deviceVars, LevelingCapable, worker>>

CheckFails(c) ==
  /\ check[c] \in {"capacity", "sector"}
  /\ check' = [check EXCEPT ![c] = "none"]
  /\ UNCHANGED <<checkRest, deviceVars, LevelingCapable, worker>>

\* CheckCompletion2: a medium too small, or with other blocks, is not leveled.
CheckCapacity(c) ==
  /\ check[c] = "capacity"
  /\ \E next \in {"sector", "direct"} : check' = [check EXCEPT ![c] = next]
  /\ UNCHANGED <<checkRest, deviceVars, LevelingCapable, worker>>

\* CheckCompletion3: sector 0 decides, also when the mode has meanwhile changed.
CheckSector(c) ==
  /\ check[c] = "sector"
  /\ LevelingCapable' = TRUE
  /\ \E m \in Media :
       /\ check' = [check EXCEPT ![c] = IF m = "leveled" THEN "install" ELSE "direct"]
       /\ mode' = IF m = "oversized" THEN "ERROR" ELSE mode
  /\ UNCHANGED <<checkRest, ctx, worker>>

InstallCtxAnyway(c) ==                                                  \* mutant
  /\ check[c] = "install"
  /\ ctx' = TRUE /\ mode' = "RECOVERY"
  /\ CacheTimeout' \in Timeouts
  /\ worker' = IF worker = "none" THEN "queued" ELSE "stale"
  /\ check' = [check EXCEPT ![c] = "none"]
  /\ UNCHANGED <<countVars, readVars, queueVars, markVars, CacheDirty, FlushPending, TimerActive,
                 timer, otherVars, cleaners, tur, TURErrors, LevelingCapable, formatting, removal,
                 failures>>
InstallCtx(c) ==
  /\ check[c] = "install"
  /\ IF ~ctx /\ mode = "INITIAL"
     THEN /\ ctx' = TRUE /\ mode' = "RECOVERY"
          /\ CacheTimeout' \in Timeouts
          /\ worker' = IF worker = "none" THEN "queued" ELSE "stale"
          /\ check' = [check EXCEPT ![c] = "none"]
     ELSE /\ check' = [check EXCEPT ![c] = "direct"]
          /\ UNCHANGED <<deviceVars, CacheTimeout, worker>>
  /\ UNCHANGED <<countVars, readVars, queueVars, markVars, CacheDirty, FlushPending, TimerActive,
                 timer, otherVars, cleaners, tur, TURErrors, LevelingCapable, formatting, removal,
                 failures>>

\* ChangeModeAtomic(INITIAL, DIRECT)
CheckEnds(c) ==
  /\ check[c] = "direct"
  /\ check' = [check EXCEPT ![c] = "none"]
  /\ mode' = IF mode = "INITIAL" THEN "DIRECT" ELSE mode
  /\ UNCHANGED <<checkRest, ctx, LevelingCapable, worker>>

-----------------------------------------------------------------------------
(* The recovery worker.  ChunkLog says what it does to the context. *)

workerRest == <<ctx, ctxVars, cleaners, tur, TURErrors, check, LevelingCapable, formatting, removal>>

RecoveryStarts ==
  /\ worker = "queued" /\ worker' = "running"
  /\ UNCHANGED <<workerRest, mode, failures>>

RecoveryEnds ==
  /\ worker = "running" /\ worker' = "none"
  /\ mode' = IF mode = "RECOVERY" THEN "ACTIVE" ELSE mode
  /\ UNCHANGED <<workerRest, failures>>

RecoveryFails ==
  /\ worker = "running" /\ worker' = "none"
  /\ failures < MaxFailures /\ failures' = failures + 1
  /\ mode' = IF mode = "RECOVERY" THEN "ERROR" ELSE mode
  /\ UNCHANGED workerRest

-----------------------------------------------------------------------------
(* SetLevelingConfig.  A format reads the old controls before it sets its mode. *)

formatRest == <<ctx, ctxVars, cleaners, tur, TURErrors, check, LevelingCapable, worker, removal>>

FormatAsked ==
  /\ Formats /\ LevelingCapable /\ formatting = "none" /\ removal = "none"
  /\ formatting' = "reading"
  /\ UNCHANGED <<formatRest, mode, failures>>

FormatStarts ==
  /\ formatting = "reading" /\ mode \in {"DIRECT", "ACTIVE", "ERROR"}
  /\ FormatMeetsFree \/ \A u \in Turs : tur[u] # "free"
  /\ formatting' = "writing" /\ mode' = "FORMAT"
  /\ UNCHANGED <<formatRest, failures>>

FormatRefused ==
  /\ formatting = "reading" /\ mode \notin {"DIRECT", "ACTIVE", "ERROR"}
  /\ formatting' = "none"
  /\ UNCHANGED <<formatRest, mode, failures>>

FormatEnds ==
  /\ formatting = "writing" /\ formatting' = "none"
  /\ mode' = IF mode = "FORMAT" THEN "COMPLETED" ELSE mode
  /\ UNCHANGED <<formatRest, failures>>

FormatFails ==
  /\ formatting \in {"reading", "writing"} /\ formatting' = "none"
  /\ failures < MaxFailures /\ failures' = failures + 1
  /\ mode' = IF formatting = "writing" /\ mode = "FORMAT" THEN "ERROR" ELSE mode
  /\ UNCHANGED formatRest

Configure(timeout) ==
  /\ Reconfigure /\ LevelingCapable /\ ctx /\ removal = "none"
  /\ CacheTimeout' = timeout
  /\ UNCHANGED <<deviceVars, countVars, readVars, queueVars, markVars, CacheDirty, FlushPending,
                 TimerActive, timer, otherVars, cleaners, lifeVars, failures>>

-----------------------------------------------------------------------------
(* Removal: FreeLevelingCtx waits, but never forgets that the context was busy once. *)

removeRest == <<cleaners, tur, TURErrors, check, formatting, failures>>

RemoveStarts ==
  /\ Removal /\ removal = "none"
  /\ removal' = "called"
  /\ UNCHANGED <<removeRest, deviceVars, ctxVars, LevelingCapable, worker>>

RemoveFrees ==
  /\ removal = "called" /\ removal' = "done"
  /\ FreeCtx
  /\ UNCHANGED removeRest

RemoveWaits ==
  /\ removal = "called" /\ StillActive
  /\ removal' = "waiting"
  /\ UNCHANGED <<removeRest, deviceVars, ctxVars, LevelingCapable, worker>>

\* Each time it looks again it calls the timer off, or finds the context freed by another.
RemovePolls ==
  /\ removal = "waiting"
  /\ \/ /\ ctx /\ ReadPending = 0 /\ OtherPending = 0 /\ TimerActive /\ timer = "set"
        /\ timer' = "off"
        /\ UNCHANGED <<mode, LevelingCapable>>
     \/ /\ ~ctx
        /\ mode' = "INITIAL" /\ LevelingCapable' = FALSE
        /\ UNCHANGED timer
  /\ UNCHANGED <<removeRest, ctx, countVars, readVars, queueVars, markVars, CacheDirty, FlushPending,
                 TimerActive, CacheTimeout, otherVars, worker, removal>>

-----------------------------------------------------------------------------

OtherServes ==
  \/ WriteAbort \/ WriteEnds \/ WriteIo \/ WritePurge \/ WriteClose \/ WritePrepare
  \/ FlushFill \/ FlushPurge \/ FlushClose \/ FlushEnds \/ PassDone
  \/ IoDone \/ PurgeDone \/ PrepareDone \/ IoFails
  \/ NextOther \/ TimedFlush \/ OtherIdle

ReaderServes(t) == ReadDone(t) \/ ReadCompletion(t)

Cleans == CleanRead \/ CleanOther \/ CleanEnds

TurSteps(u) ==
  \/ TurSucceeds(u) \/ TurFails(u) \/ TurLooksForError(u) \/ TurLooksForCompleted(u) \/ TurFrees(u)

CheckSteps(c) ==
  \/ CheckStarts(c) \/ CheckFails(c) \/ CheckCapacity(c) \/ CheckSector(c)
  \/ InstallCtx(c) \/ CheckEnds(c)

FormatSteps == FormatAsked \/ FormatStarts \/ FormatRefused \/ FormatEnds \/ FormatFails

Next ==
  \/ \E i \in Irps : DispatchRead(i) \/ DispatchOther(i)
  \/ \E t \in Threads : ReaderServes(t)
  \/ OtherServes \/ TimerExpires \/ FlushDpc \/ Cleans
  \/ \E u \in Turs : TurSteps(u)
  \/ \E c \in Checkers : CheckSteps(c)
  \/ RecoveryStarts \/ RecoveryEnds \/ RecoveryFails
  \/ FormatSteps \/ \E timeout \in Timeouts : Configure(timeout)
  \/ RemoveStarts \/ RemoveFrees \/ RemoveWaits \/ RemovePolls

Spec == Init /\ [][Next]_vars

\* Handlers do not wait, every I/O is answered, timers expire and their DPCs run.
FairSpec ==
  /\ Spec
  /\ WF_vars(OtherServes) /\ WF_vars(TimerExpires) /\ WF_vars(FlushDpc) /\ WF_vars(Cleans)
  /\ \A t \in Threads : WF_vars(ReaderServes(t))

-----------------------------------------------------------------------------
(* Properties *)

\* Every variable stays in its type; no counter falls below zero.
TypeOK ==
  /\ mode \in {"DIRECT", "INITIAL", "ACTIVE", "RECOVERY", "FORMAT", "COMPLETED", "ERROR"}
  /\ ctx \in BOOLEAN
  /\ ReadPending \in Nat /\ OtherPending \in Nat
  /\ ReadActive \in 0..READ_THREADS /\ OtherActive \in 0..1
  /\ ReadFreeList \in 0..READ_THREADS
  /\ FreeLink \in [Threads -> 0..READ_THREADS \cup {Busy}]
  /\ ReadIrpQueue \in Seq(Irps) /\ OtherIrpQueue \in Seq(Irps)
  /\ Marked \subseteq Threads /\ WaitingMarkedThreads \in BOOLEAN
  /\ CacheDirty \in BOOLEAN /\ FlushPending \in BOOLEAN
  /\ TimerActive \in BOOLEAN /\ CacheTimeout \in BOOLEAN
  /\ timer \in {"off", "set", "fired"}
  /\ readPc \in [Threads -> {"free", "run", "done"}]
  /\ readIrp \in [Threads -> Irps \cup {NoIrp}]
  /\ otherPc \in {"idle", "run", "io", "purge", "close", "prepare", "wait", "pass", "done"}
  /\ otherIrp \in Irps \cup {NoIrp} /\ otherKind \in Kinds /\ work \in 0..MaxWork
  /\ cleaners \in 0..MaxCleaners
  /\ tur \in [Turs -> {"none", "failed", "free", "ends", "freeLast"}]
  /\ TURErrors \in 0..(MaxTURErrors + 1)
  /\ check \in [Checkers -> {"none", "capacity", "sector", "install", "direct"}]
  /\ LevelingCapable \in BOOLEAN
  /\ worker \in {"none", "queued", "running", "stale"}
  /\ formatting \in {"none", "reading", "writing"}
  /\ removal \in {"none", "called", "waiting", "done"}
  /\ failures \in 0..MaxFailures

\* The counters by which the context is freed and the threads are given out tell exactly
\* what is queued and at work, a request that is completed but not yet taken off included.
CountersAgree ==
  /\ ReadActive = Cardinality(BusyReaders)
  /\ ReadPending = ReadActive + Len(ReadIrpQueue)
  /\ OtherActive = IF otherPc = "idle" THEN 0 ELSE 1
  /\ OtherPending = OtherActive + Len(OtherIrpQueue)

\* The chain of FreeLinks from ReadFreeList goes through the free threads, each once, and a
\* busy thread is linked nowhere (the assertions of LevelingDispatch).
FreeListExact ==
  /\ LET free == READ_THREADS - ReadActive
     IN \E chain \in [0..free -> 0..READ_THREADS] :
          /\ chain[0] = ReadFreeList /\ chain[free] = READ_THREADS
          /\ \A n \in 0..(free - 1) : /\ chain[n] \in Threads \ BusyReaders
                                     /\ FreeLink[chain[n]] = chain[n + 1]
                                     /\ \A m \in 0..(n - 1) : chain[m] # chain[n]
          /\ \A t \in Threads \ BusyReaders : \E n \in 0..(free - 1) : chain[n] = t
  /\ \A t \in BusyReaders : FreeLink[t] = Busy

\* A waiting request never lies beside an idle thread: in ACTIVE mode all threads of its
\* kind are at work, in another mode someone is still to take it off the queue.
NobodyForgotten ==
  ctx /\ (ReadIrpQueue # <<>> \/ OtherIrpQueue # <<>>) =>
    \/ /\ mode = "ACTIVE"
       /\ ReadIrpQueue # <<>> => ReadActive = READ_THREADS
       /\ OtherIrpQueue # <<>> => OtherActive = 1
    \/ mode # "ACTIVE" /\ (ReadActive > 0 \/ OtherActive > 0 \/ cleaners > 0)

\* TimerActive says that the timer runs, or that its flush is owed by the other thread,
\* which is then at work.
TimerAccounted ==
  /\ TimerActive <=> (timer # "off" \/ FlushPending)
  /\ FlushPending => otherPc # "idle"

\* ASSERT(Ctx != NULL) of LevelingFlushDpc (vgate.c:279).
DpcFindsContext == timer = "fired" => ctx

\* An idle active device with a dirty cache has its flush timer running.
DirtyHasTimer ==
  mode = "ACTIVE" /\ otherPc = "idle" /\ CacheDirty /\ CacheTimeout => timer # "off"

\* The other thread waits for marked readers only while there are some, and those are busy;
\* nobody wakes it otherwise (the assertions at vgate.c:257, 383 and 389).
WaitIsJustified ==
  /\ WaitingMarkedThreads <=> otherPc = "wait"
  /\ otherPc = "wait" => Marked # {}
  /\ Marked \subseteq BusyReaders

\* A recovery keeps its context and its mode to its end, and what it has not recovered is not
\* active: neither a second check nor TEST UNIT READY nor a format comes in between.
RecoveryUndisturbed ==
  /\ worker # "none" => worker # "stale" /\ ctx /\ mode = "RECOVERY"
  /\ mode = "ACTIVE" => ctx

\* A format keeps its mode to its end: no check, recovery or request interferes.
FormatUndisturbed == formatting = "writing" => mode = "FORMAT"

\* A context is freed only when no thread, queue or timer refers to it.
FreedWhenUnused ==
  [][ctx /\ ~ctx' => /\ BusyReaders = {} /\ otherPc = "idle"
                     /\ ReadIrpQueue = <<>> /\ OtherIrpQueue = <<>>
                     /\ timer' = "off"]_vars

\* The gate keeps what it promises: order, completeness, nothing left from one activation
\* to the next; under fairness every request ends.
Service == INSTANCE RequestService
             WITH Requests <- Irps, ready <- mode = "ACTIVE",
                  reads <- OpenReads, others <- OpenOthers
ServiceSpec == Service!Spec
ServiceFairSpec == Service!FairSpec

\* A dirty cache is flushed by the timer, provided the other thread is idle now and then:
\* while requests keep its queue filled the flush of the timer has to wait.
DirtyIsFlushed ==
  []<>(otherPc = "idle" \/ mode # "ACTIVE")
    => [](CacheDirty /\ CacheTimeout /\ mode = "ACTIVE" => <>(~CacheDirty \/ mode # "ACTIVE"))
=============================================================================
