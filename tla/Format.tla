------------------------------- MODULE Format -------------------------------
(***************************************************************************)
(* Formatting a medium (driver/config.c), and what tells the data of one   *)
(* format from the data of another.  A format leaves most of the medium as *)
(* it is: what the log of an earlier format has written is still there,    *)
(* with valid checksums.  Sector 0, the chunk controls and the purge       *)
(* controls carry the chunk control number (CCN) of their format, which    *)
(* has to differ from all that are found on the medium, and the purge      *)
(* controls the random Magic of sector 0 too.                              *)
(*                                                                         *)
(* A generation stands for the Magic and for the data of one format; 0 for *)
(* whatever a file system wrote while the medium was in direct mode.  The  *)
(* log at work, which ChunkLog models, is seen here by what it leaves on   *)
(* the medium.                                                             *)
(***************************************************************************)
EXTENDS Naturals, FiniteSets

CONSTANTS
  MAX_CHUNKS, PURGES,   \* chunks of the medium, purges in a chunk (chunk 0 has one less)
  CCN_VALUES,           \* 2^32 in the driver
  MaxFormats, MaxFailures, MaxGarbage,   \* bounds of the exploration
  FormatMeetsLog,       \* the log writes chunk controls while GetNewCCN reads them, or has
                        \* writes on the way when the format begins
  ConfigMeetsFormat     \* a configuration overlaps a format or a check of the medium

ASSUME Parameters ==
  /\ MAX_CHUNKS \in Nat /\ MAX_CHUNKS > 1 /\ PURGES \in Nat /\ PURGES > 1
  /\ CCN_VALUES \in Nat /\ CCN_VALUES > MAX_CHUNKS
  /\ MaxFormats \in Nat /\ MaxFailures \in Nat /\ MaxGarbage \in Nat
  /\ FormatMeetsLog \in BOOLEAN /\ ConfigMeetsFormat \in BOOLEAN

VARIABLES
  RemovableMedia,       \* a fixed disk gets a first purge, with its partition table
  conf,                 \* sector 0: the record of a format, or Plain
  ctl,                  \* the chunk controls: is the checksum valid, how many purges it maps
  purge,                \* the purges: whose data is in it, and the control at its end
  mode,
  ctx,                  \* DeviceExtension->Ctx: what was read from sector 0, or NoCtx
  newest,               \* the generation of the format begun last
  format,               \* SetLevelingConfig(VLTL_MODE_FORMAT): where it stands, its locals
  config,               \* SetLevelingConfig(VLTL_MODE_CONFIG): where it stands, its locals
  failures, garbage     \* what the bounds count

medium == <<RemovableMedia, conf, ctl, purge>>
bounds == <<failures, garbage>>
vars == <<medium, mode, ctx, newest, format, config, bounds>>

Chunks == 0..(MAX_CHUNKS - 1)
CCNs   == 0..(CCN_VALUES - 1)
Places == (Chunks \X (0..(PURGES - 1))) \ {<<0, 0>>}
PlacesOf(c) == {p \in Places : p[1] = c}

Plain  == [gen |-> 0, ccn |-> 0, weight |-> 0]
NoCtx  == Plain
Torn(ccn) == [gen |-> 0, ccn |-> ccn, valid |-> FALSE, end |-> 0]   \* no chunk control
Raw == [data |-> 0, gen |-> 0, ccn |-> 0, valid |-> FALSE]          \* no purge
Purge(gen, ccn) == [data |-> gen, gen |-> gen, ccn |-> ccn, valid |-> TRUE]
Conf(gen, ccn) == [gen |-> gen, ccn |-> ccn, weight |-> 0]

NoFormat == [at |-> "none", map |-> FALSE, next |-> 0, seen |-> {}, ccn |-> 0, gen |-> 0]
NoConfig == [at |-> "none", copy |-> Plain]

Init ==
  /\ RemovableMedia \in BOOLEAN
  /\ conf = Plain
  /\ ctl = [c \in Chunks |-> Torn(0)]
  /\ purge = [p \in Places |-> Raw]
  /\ mode = "INITIAL" /\ ctx = NoCtx /\ newest = 0
  /\ format = NoFormat /\ config = NoConfig
  /\ failures = 0 /\ garbage = 0

-----------------------------------------------------------------------------
(* What recovery accepts (recovery.c:99-107, 156-161) *)

AcceptsPurgeAnyMagic(p) == conf # Plain /\ purge[p].valid /\ purge[p].ccn = conf.ccn   \* mutant: Magic is not compared

AcceptsCtl(c)   == conf # Plain /\ ctl[c].valid /\ ctl[c].ccn = conf.ccn
AcceptsPurge(p) == conf # Plain /\ purge[p].valid /\ purge[p].ccn = conf.ccn
                                /\ purge[p].gen = conf.gen
Mapped(c)       == {p \in PlacesOf(c) : p[2] < ctl[c].end}

-----------------------------------------------------------------------------
(* The device: check of the medium, recovery, and what is written in the end *)

Fails == failures < MaxFailures /\ failures' = failures + 1

\* A write that fails, or is cut short by a power loss, has done nothing, or a part of it, or
\* all.  The control of a purge comes behind its data: a front part is data under the control
\* that was there before.  The CCN is in the first sector of a chunk control.
PurgeCutShort(old, new) == {old, [old EXCEPT !.data = new.data], [new EXCEPT !.valid = FALSE], new}
CtlCutShort(old, new)   == {old, Torn(new.ccn), new}

ChangeModeAtomic(from, to) == mode' = IF mode = from THEN to ELSE mode

\* CheckCompletion3 and InitializeLevelingCtx, whose steps Gate models.
Check ==
  /\ mode = "INITIAL"
  /\ ctx' = conf
  /\ mode' = IF conf = Plain THEN "DIRECT" ELSE "RECOVERY"
  /\ UNCHANGED <<medium, newest, format, config, bounds>>

DoRecovery ==
  /\ mode = "RECOVERY"
  /\ \/ mode' = "ACTIVE" /\ UNCHANGED failures
     \/ mode' = "ERROR" /\ Fails
  /\ UNCHANGED <<medium, ctx, newest, format, config, garbage>>

LogAtWork == \/ mode = "ACTIVE"
             \/ FormatMeetsLog /\ mode = "FORMAT" /\ ctx # NoCtx

\* The log writes a purge.
ExecutePurgeCache(p) ==
  /\ LogAtWork
  /\ LET new == Purge(ctx.gen, ctx.ccn)
     IN \/ /\ purge' = [purge EXCEPT ![p] = new]
           /\ UNCHANGED <<mode, failures>>
        \/ /\ \E short \in PurgeCutShort(purge[p], new) : purge' = [purge EXCEPT ![p] = short]
           /\ ChangeModeAtomic("ACTIVE", "ERROR") /\ Fails
  /\ UNCHANGED <<RemovableMedia, conf, ctl, ctx, newest, format, config, garbage>>

\* The log has come to PurgePos in this chunk: it has written the purges before it, or found
\* them by a recovery.
LogIsAt(c, PurgePos) ==
  \A p \in PlacesOf(c) : p[2] < PurgePos => AcceptsPurge(p) \/ (AcceptsCtl(c) /\ p \in Mapped(c))

\* The log writes the control of a chunk it has filled, or that a finalizing flush ends early
\* (vflush.c:47-52).
ExecutePurgeChunk(c, PurgePos) ==
  /\ LogAtWork
  /\ FormatMeetsLog \/ format.at # "scan"
  /\ PurgePos > (IF c = 0 THEN 1 ELSE 0) /\ LogIsAt(c, PurgePos)
  /\ LET new == [gen |-> ctx.gen, ccn |-> ctx.ccn, valid |-> TRUE, end |-> PurgePos]
     IN \/ /\ ctl' = [ctl EXCEPT ![c] = new]
           /\ UNCHANGED <<mode, failures>>
        \/ /\ \E short \in CtlCutShort(ctl[c], new) : ctl' = [ctl EXCEPT ![c] = short]
           /\ ChangeModeAtomic("ACTIVE", "ERROR") /\ Fails
  /\ UNCHANGED <<RemovableMedia, conf, purge, ctx, newest, format, config, garbage>>

\* In direct mode a file system writes what it likes; the record of a format, with its
\* checksum, is not among it.
DirectWrite ==
  /\ mode = "DIRECT" /\ garbage < MaxGarbage /\ garbage' = garbage + 1
  /\ \/ /\ \E c \in Chunks, n \in {0, CCN_VALUES - 1} :
             ctl' = [ctl EXCEPT ![c] = Torn(n)]
        /\ UNCHANGED purge
     \/ /\ \E p \in Places, raw \in BOOLEAN :
             purge' = [purge EXCEPT ![p] = IF raw THEN Raw ELSE [@ EXCEPT !.data = 0]]
        /\ UNCHANGED ctl
  /\ UNCHANGED <<RemovableMedia, conf, mode, ctx, newest, format, config, failures>>

\* Errors of a device that is given up, or the end of a format: the medium is checked anew.
ReCheck ==
  /\ mode \in {"DIRECT", "ERROR", "COMPLETED"}
  /\ ConfigMeetsFormat \/ config = NoConfig
  /\ mode' = "INITIAL" /\ ctx' = NoCtx
  /\ UNCHANGED <<medium, newest, format, config, bounds>>

\* Power loss, or the medium is pulled out and put in again.
Restart ==
  /\ mode' = "INITIAL" /\ ctx' = NoCtx
  /\ format' = NoFormat /\ config' = NoConfig
  /\ UNCHANGED <<medium, newest, bounds>>

-----------------------------------------------------------------------------
(* The format *)

StartFormatAtOne ==   \* mutant: the scan leaves out chunk 0
  /\ format = NoFormat /\ newest < MaxFormats
  /\ \E map \in BOOLEAN :
       format' = [at |-> "scan", map |-> map, next |-> 1, seen |-> {}, ccn |-> 0, gen |-> 0]
  /\ UNCHANGED <<medium, mode, ctx, newest, config, bounds>>

\* The control panel asks for a format with a map, or for a plain one.
StartFormat ==
  /\ format = NoFormat /\ newest < MaxFormats
  /\ \E map \in BOOLEAN :
       format' = [at |-> "scan", map |-> map, next |-> 0, seen |-> {}, ccn |-> 0, gen |-> 0]
  /\ UNCHANGED <<medium, mode, ctx, newest, config, bounds>>

\* GetNewCCN: the number after the largest one, and on, past the end of the range, to the
\* first that is not used.  There is one: the numbers outnumber the chunks.
NewCCN(seen) ==
  LET largest    == CHOOSE n \in seen : \A m \in seen : m <= n
      StepsTo(n) == (n + CCN_VALUES - (largest + 1)) % CCN_VALUES
  IN CHOOSE n \in CCNs \ seen : \A m \in CCNs \ seen : StepsTo(n) <= StepsTo(m)

\* GetNewCCN reads one chunk control after another, whatever the device does meanwhile.
ScanCtl ==
  /\ format.at = "scan" /\ format.next < MAX_CHUNKS
  /\ \/ /\ format' = [format EXCEPT !.next = @ + 1, !.seen = @ \cup {ctl[format.next].ccn}]
        /\ UNCHANGED failures
     \/ /\ format' = NoFormat /\ Fails
  /\ UNCHANGED <<medium, mode, ctx, newest, config, garbage>>

SetFormatMode ==
  /\ format.at = "scan" /\ format.next = MAX_CHUNKS
  /\ ConfigMeetsFormat \/ config = NoConfig
  /\ IF mode \in {"DIRECT", "ACTIVE", "ERROR"}
     THEN /\ mode' = "FORMAT"
          /\ newest' = newest + 1
          /\ format' = [format EXCEPT !.at = IF format.map THEN "ctl" ELSE "conf",
                                      !.ccn = NewCCN(format.seen), !.gen = newest + 1]
     ELSE /\ format' = NoFormat
          /\ UNCHANGED <<mode, newest>>
  /\ UNCHANGED <<medium, ctx, config, bounds>>

GoesOn(at) == /\ format' = [format EXCEPT !.at = at]
              /\ UNCHANGED <<mode, failures>>

GivesUpInFormat == Fails /\ format' = NoFormat /\ UNCHANGED mode   \* mutant: the mode is left as it is

GivesUp == /\ Fails
           /\ format' = NoFormat
           /\ ChangeModeAtomic("FORMAT", "ERROR")

FirstEndAlways == 1   \* mutant: the first purge is mapped on removable media too

\* The control of chunk 1 is the first thing written.  It maps the first purge of a fixed
\* disk, and nothing on removable media.
FirstEnd == IF RemovableMedia THEN 0 ELSE 1
FirstCtl == [gen |-> format.gen, ccn |-> format.ccn, valid |-> TRUE, end |-> FirstEnd]

FormatCtlUnchecked ==   \* mutant: the result of the write is not looked at
  /\ format.at = "ctl"
  /\ \/ ctl' = [ctl EXCEPT ![1] = FirstCtl] /\ UNCHANGED failures
     \/ ctl' = [ctl EXCEPT ![1] = Torn(format.ccn)] /\ Fails
  /\ format' = [format EXCEPT !.at = IF RemovableMedia THEN "conf" ELSE "purge"]
  /\ UNCHANGED <<RemovableMedia, conf, purge, mode, ctx, newest, config, garbage>>

FormatCtl ==
  /\ format.at = "ctl"
  /\ \/ /\ ctl' = [ctl EXCEPT ![1] = FirstCtl]
        /\ GoesOn(IF RemovableMedia THEN "conf" ELSE "purge")
     \/ /\ \E short \in CtlCutShort(ctl[1], FirstCtl) : ctl' = [ctl EXCEPT ![1] = short]
        /\ GivesUp
  /\ UNCHANGED <<RemovableMedia, conf, purge, ctx, newest, config, garbage>>

FormatPurge ==
  /\ format.at = "purge"
  /\ LET first == Purge(format.gen, format.ccn)
     IN \/ /\ purge' = [purge EXCEPT ![<<1, 0>>] = first]
           /\ GoesOn("conf")
        \/ /\ \E short \in PurgeCutShort(purge[<<1, 0>>], first) :
                purge' = [purge EXCEPT ![<<1, 0>>] = short]
           /\ GivesUp
  /\ UNCHANGED <<RemovableMedia, conf, ctl, ctx, newest, config, garbage>>

\* Sector 0 is the first of the 65 sectors of the last write.
FormatConf ==
  /\ format.at = "conf"
  /\ LET new == IF format.map THEN Conf(format.gen, format.ccn) ELSE Plain
     IN \/ /\ conf' = new
           /\ format' = NoFormat
           /\ ChangeModeAtomic("FORMAT", "COMPLETED")
           /\ UNCHANGED failures
        \/ /\ conf' \in {conf, new}
           /\ GivesUp
  /\ UNCHANGED <<RemovableMedia, ctl, purge, ctx, newest, config, garbage>>

-----------------------------------------------------------------------------
(* The change of the weights and of the cache settings *)

ReadConf ==
  /\ config = NoConfig
  /\ ConfigMeetsFormat \/ format.at \in {"none", "scan"}
  /\ conf # Plain
  /\ config' = [at |-> "edit", copy |-> conf]
  /\ UNCHANGED <<medium, mode, ctx, newest, format, bounds>>

\* Under the lock, in the context and in the copy.
EditConf ==
  /\ config.at = "edit"
  /\ \E w \in {0, 1} :
       IF ctx = NoCtx
       THEN config' = NoConfig /\ UNCHANGED ctx
       ELSE /\ ctx' = [ctx EXCEPT !.weight = w]
            /\ config' = [at |-> "write", copy |-> [config.copy EXCEPT !.weight = w]]
  /\ UNCHANGED <<medium, mode, newest, format, bounds>>

WriteConf ==
  /\ config.at = "write"
  /\ config' = NoConfig
  /\ \/ conf' = config.copy /\ UNCHANGED failures
     \/ conf' \in {conf, config.copy} /\ Fails
  /\ UNCHANGED <<RemovableMedia, ctl, purge, mode, ctx, newest, format, garbage>>

-----------------------------------------------------------------------------

FormatStep == ScanCtl \/ SetFormatMode \/ FormatCtl \/ FormatPurge \/ FormatConf

Configure == ReadConf \/ EditConf \/ WriteConf

LogStep == \/ \E p \in Places : ExecutePurgeCache(p)
           \/ \E c \in Chunks, n \in 1..PURGES : ExecutePurgeChunk(c, n)

Next == \/ Check \/ DoRecovery \/ LogStep \/ DirectWrite \/ ReCheck \/ Restart
        \/ StartFormat \/ FormatStep \/ Configure

Spec == Init /\ [][Next]_vars

\* The thread that formats goes on; its transfers end (Request).
FairSpec == Spec /\ WF_vars(FormatStep)

-----------------------------------------------------------------------------
(* Properties *)

\* The variables have the types of the fields they stand for.
TypeOK ==
  /\ RemovableMedia \in BOOLEAN
  /\ conf \in [gen : 0..newest, ccn : CCNs, weight : {0, 1}]
  /\ ctl \in [Chunks -> [gen : 0..newest, ccn : CCNs, valid : BOOLEAN, end : 0..PURGES]]
  /\ purge \in [Places -> [data : 0..newest, gen : 0..newest, ccn : CCNs, valid : BOOLEAN]]
  /\ mode \in {"INITIAL", "DIRECT", "RECOVERY", "ACTIVE", "FORMAT", "COMPLETED", "ERROR"}
  /\ ctx \in [gen : 0..newest, ccn : CCNs, weight : {0, 1}]
  /\ newest \in 0..MaxFormats
  /\ format \in [at : {"none", "scan", "ctl", "purge", "conf"}, map : BOOLEAN,
                 next : 0..MAX_CHUNKS, seen : SUBSET CCNs, ccn : CCNs, gen : {0, newest}]
  /\ config \in [at : {"none", "edit", "write"},
                 copy : [gen : 0..newest, ccn : CCNs, weight : {0, 1}]]
  /\ failures \in 0..MaxFailures /\ garbage \in 0..MaxGarbage

\* Recovery takes no control of another format for its own.  The one exception is that of
\* chunk 1 when two formats have begun since the one in sector 0 and were interrupted: the
\* first removes the CCN of the record from the medium, the second may choose it again.
OwnControlsOnly ==
  conf # Plain =>
    \A c \in Chunks : AcceptsCtl(c) => \/ ctl[c].gen = conf.gen
                                      \/ (c = 1 /\ newest > conf.gen + 1)

\* What recovery takes, from a chunk control or from a purge control, holds the data of the
\* format in sector 0 and no other.  The one exception is the first purge when a format has
\* begun since: it may have been interrupted in the middle of that purge.
OwnDataOnly ==
  conf # Plain =>
    \A p \in Places :
      (AcceptsPurge(p) \/ (AcceptsCtl(p[1]) /\ p \in Mapped(p[1]))) =>
        \/ purge[p].data = conf.gen
        \/ (p = <<1, 0>> /\ newest > conf.gen)

\* Recovery finds the first control, the first purge of a fixed disk, and nothing else.
FreshlyFormatted == /\ {c \in Chunks : AcceptsCtl(c)} = {1}
                    /\ {p \in Places : AcceptsPurge(p)} = Mapped(1)

\* A format that reports success has erased everything that was on the medium.
FormatErases ==
  mode = "COMPLETED" => conf.gen \in {0, newest} /\ (conf # Plain => FreshlyFormatted)

\* The record comes last: when it gets into sector 0, be it by a write that is reported as
\* failed, all the rest of the format is on the medium (config.c:178, 204, 239).  A format
\* that stops before leaves the record that was there.
RecordComesLast == [][conf'.gen \notin {0, conf.gen} => FreshlyFormatted']_vars

\* What the log works with, or is about to, is what the next check of the medium will find;
\* while a change is under way it may be ahead.
SameSettings == mode \in {"RECOVERY", "ACTIVE"} /\ config = NoConfig => ctx = conf

\* The settings part only when the write of sector 0 fails behind a change of them: the context
\* has been changed before (config.c:122-134).
SettingsAgree == [][SameSettings => (SameSettings' \/ (config.at = "write" /\ Fails))]_vars

\* Every format ends, and leaves the format mode.
FormatEnds == mode = "FORMAT" ~> mode # "FORMAT"
=============================================================================
