--------------------------- MODULE FormatProofs ----------------------------
(***************************************************************************)
(* The data of one format is never taken for that of another: proofs for   *)
(* every size of the medium, every range of numbers and every bound, while *)
(* nothing else rewrites a chunk control during the scan of a format, and  *)
(* no configuration overlaps a format.                                     *)
(***************************************************************************)
EXTENDS Format, FiniteSetTheorems, WellFoundedInduction, TLAPS

\* A remainder is smaller than the divisor.
LEMMA Remainder ==
  ASSUME NEW a \in Int, NEW b \in Nat, b > 0
  PROVE  a % b \in 0..(b - 1)
  OBVIOUS

\* A set of naturals that is not empty has a smallest element.
LEMMA HasLeast ==
  ASSUME NEW T \in SUBSET Nat, T # {}
  PROVE  \E x \in T : \A y \in T : x <= y
<1>1. PICK x \in T : \A y \in T : ~(<<y, x>> \in OpToRel(<, Nat))
  BY NatLessThanWellFounded, WFMin
<1>2. ASSUME NEW y \in T
      PROVE  x <= y
  <2>1. ~(y < x)
    BY <1>1 DEF OpToRel
  <2> QED BY <2>1
<1> QED BY <1>2

\* GetNewCCN ends with a number that no chunk control carries (config.c:52-58).
LEMMA NewCCNIsNew ==
  ASSUME NEW seen \in SUBSET CCNs, seen # {}, IsFiniteSet(seen), Cardinality(seen) <= MAX_CHUNKS
  PROVE  NewCCN(seen) \in CCNs \ seen
<1> USE Parameters
<1> DEFINE largest    == CHOOSE n \in seen : \A m \in seen : m <= n
           StepsTo(n) == (n + CCN_VALUES - (largest + 1)) % CCN_VALUES
           free       == CCNs \ seen
<1>1. largest \in Int
  <2> DEFINE T == {CCN_VALUES - m : m \in seen}
  <2>0. \A m \in seen : m \in Nat /\ CCN_VALUES - m \in Nat
    BY DEF CCNs
  <2>1. T \in SUBSET Nat /\ T # {}
    BY <2>0
  <2>2. PICK x \in T : \A y \in T : x <= y
    BY <2>1, HasLeast
  <2>3. PICK n \in seen : x = CCN_VALUES - n
    OBVIOUS
  <2>4. ASSUME NEW m \in seen
        PROVE  m <= n
    <3>1. x <= CCN_VALUES - m
      BY <2>2
    <3>2. n \in Nat /\ m \in Nat
      BY <2>0
    <3> QED BY <3>1, <3>2, <2>3
  <2>5. largest \in seen
    BY <2>4
  <2> QED BY <2>0, <2>5
<1>2. \A n \in CCNs : StepsTo(n) \in Nat
  <2> TAKE n \in CCNs
  <2> HIDE DEF largest
  <2>1. n + CCN_VALUES - (largest + 1) \in Int
    BY <1>1 DEF CCNs
  <2> QED BY <2>1, Remainder
<1>3. free # {}
  <2>1. IsFiniteSet(CCNs) /\ Cardinality(CCNs) = CCN_VALUES
    BY FS_Interval DEF CCNs
  <2>2. SUFFICES ASSUME free = {} PROVE FALSE
    OBVIOUS
  <2>3. seen = CCNs
    BY <2>2
  <2> QED BY <2>1, <2>3
<1>4. \E n \in free : \A m \in free : StepsTo(n) <= StepsTo(m)
  <2> HIDE DEF StepsTo
  <2> DEFINE T == {StepsTo(m) : m \in free}
  <2>1. T \in SUBSET Nat /\ T # {}
    BY <1>2, <1>3
  <2>2. PICK x \in T : \A y \in T : x <= y
    BY <2>1, HasLeast
  <2> QED BY <2>2
<1>5. NewCCN(seen) = CHOOSE n \in free : \A m \in free : StepsTo(n) <= StepsTo(m)
  BY DEF NewCCN
<1> HIDE DEF StepsTo, free
<1>6. NewCCN(seen) \in free
  BY <1>4, <1>5
<1> QED BY <1>6 DEF free

-----------------------------------------------------------------------------
(* The inductive invariant *)

FormatAts == {"ctl", "purge", "conf"}

\* A format at work has the device to itself, and writes a generation of its own.
Alone ==
  /\ mode = "FORMAT" <=> format.at \in FormatAts
  /\ mode = "FORMAT" => /\ config = NoConfig
                        /\ format.gen = newest /\ newest > 0 /\ conf.gen # newest
  /\ format.at \in {"ctl", "purge"} => format.map
  /\ format.at = "purge" => ~RemovableMedia
  /\ format.at = "scan" => newest < MaxFormats

\* What has been read so far holds the numbers of all valid chunk controls read so far.
Scanned ==
  format.at = "scan" =>
    /\ IsFiniteSet(format.seen) /\ Cardinality(format.seen) <= format.next
    /\ format.next > 0 => format.seen # {}
    /\ \A c \in Chunks : c < format.next /\ ctl[c].valid => ctl[c].ccn \in format.seen

\* The number of the format at work is on no chunk control but that of chunk 1, once it
\* is written.
Fresh ==
  /\ format.at = "ctl" => \A c \in Chunks : ctl[c].valid => ctl[c].ccn # format.ccn
  /\ format.at \in {"purge", "conf"} /\ format.map =>
       /\ ctl[1] = FirstCtl
       /\ \A c \in Chunks \ {1} : ctl[c].valid => ctl[c].ccn # format.ccn

\* The same for its Magic, and the first purge is all there before the record is written.
FreshData ==
  /\ format.at \in {"ctl", "purge"} => \A p \in Places : purge[p].gen # newest
  /\ format.at = "conf" /\ format.map =>
       /\ \A p \in Places \ Mapped(1) : purge[p].gen # newest
       /\ \A p \in Mapped(1) : purge[p] = Purge(newest, format.ccn)

\* As long as no format has begun since, chunk 1 holds the number of the record, be its
\* control torn or not.  So the scan of the next format finds it, and chooses another.
Held ==
  /\ conf # Plain /\ conf.gen = newest => ctl[1].ccn = conf.ccn
  /\ conf # Plain /\ conf.gen = newest /\ format.at = "scan" /\ format.next > 1 =>
       conf.ccn \in format.seen
  /\ conf # Plain /\ newest = conf.gen + 1 /\ mode = "FORMAT" => format.ccn # conf.ccn

\* Only Plain is no record; a copy of the record is one of the record there is; a context
\* at work is of that record; a change of the settings is in it before it is written.
Settings ==
  /\ conf.gen = 0 => conf = Plain
  /\ mode = "INITIAL" => ctx = NoCtx /\ config.at # "write"
  /\ mode = "DIRECT" => conf = Plain
  /\ config.at = "none" <=> config = NoConfig
  /\ config # NoConfig => conf.gen > 0 /\ config.copy.gen = conf.gen /\ config.copy.ccn = conf.ccn
  /\ config.at = "edit" => config.copy = conf
  /\ mode \in {"RECOVERY", "ACTIVE"} =>
       /\ conf.gen > 0 /\ ctx.gen = conf.gen /\ ctx.ccn = conf.ccn
       /\ config.at = "write" => ctx = config.copy

Basis == TypeOK /\ Alone /\ Scanned /\ Settings
Inv   == /\ Basis /\ Fresh /\ FreshData /\ Held
         /\ OwnControlsOnly /\ OwnDataOnly /\ FormatErases

-----------------------------------------------------------------------------
(* The initial state *)

\* The fresh machine.
LEMMA InitInv == Init => Inv
<1> SUFFICES ASSUME Init PROVE Inv
  OBVIOUS
<1> USE Parameters
<1>1. TypeOK
  BY DEF Init, TypeOK, Torn, Raw, Plain, NoCtx, NoFormat, NoConfig, CCNs
<1>2. Alone /\ Scanned /\ Settings /\ Fresh /\ FreshData /\ Held
  BY DEF Init, Alone, Scanned, Settings, Fresh, FreshData, Held, FormatAts, Plain, NoCtx, NoFormat,
      NoConfig
<1>3. OwnControlsOnly /\ OwnDataOnly /\ FormatErases
  BY DEF Init, OwnControlsOnly, OwnDataOnly, FormatErases
<1> QED BY <1>1, <1>2, <1>3 DEF Inv, Basis

-----------------------------------------------------------------------------
(* Types, and the control of the format, the scan and the settings *)

\* The values of the format's locals, g the generation begun last.
Formats(g) == [at : {"none", "scan", "ctl", "purge", "conf"}, map : BOOLEAN,
               next : 0..MAX_CHUNKS, seen : SUBSET CCNs, ccn : CCNs, gen : {0, g}]

\* The values of a chunk control and of a purge.
Ctls(g)   == [gen : 0..g, ccn : CCNs, valid : BOOLEAN, end : 0..PURGES]
Purges(g) == [data : 0..g, gen : 0..g, ccn : CCNs, valid : BOOLEAN]

\* What is left of a purge that is cut short, and whose data it is.
LEMMA PurgeLeft ==
  ASSUME NEW g \in Nat, NEW old \in Purges(g), NEW new \in Purges(g), NEW x \in PurgeCutShort(old, new)
  PROVE  x \in Purges(g) /\ (x = old \/ x.data = new.data)
BY DEF PurgeCutShort, Purges

\* What is left of a chunk control that is cut short.
LEMMA CtlLeft ==
  ASSUME NEW g \in Nat, NEW old \in Ctls(g), NEW new \in Ctls(g), NEW x \in CtlCutShort(old, new)
  PROVE  /\ x \in Ctls(g) /\ x.ccn \in {old.ccn, new.ccn}
         /\ x.valid => x = old \/ x = new
<1>1. CASE x = old \/ x = new
  BY <1>1
<1>2. CASE x = Torn(new.ccn)
  <2>1. new.ccn \in CCNs /\ 0 \in 0..g /\ 0 \in 0..PURGES
    BY Parameters DEF Ctls
  <2>2. x.ccn = new.ccn /\ ~x.valid /\ x \in Ctls(g)
    BY <1>2, <2>1 DEF Torn, Ctls
  <2> QED BY <2>2
<1> QED BY <1>1, <1>2 DEF CtlCutShort

\* The log writes one purge, or a part of it.
LEMMA PurgeCacheEffect ==
  ASSUME TypeOK, NEW p \in Places, ExecutePurgeCache(p)
  PROVE  \E x \in Purges(newest) : /\ purge' = [purge EXCEPT ![p] = x]
                                   /\ x = purge[p] \/ x.data = ctx.gen
<1> DEFINE new == Purge(ctx.gen, ctx.ccn)
<1>1. new \in Purges(newest) /\ purge[p] \in Purges(newest) /\ newest \in Nat
  BY Parameters DEF TypeOK, Purge, Purges
<1>2. new.data = ctx.gen /\ new \in PurgeCutShort(purge[p], new)
  BY DEF Purge, PurgeCutShort
<1>3. PICK x \in PurgeCutShort(purge[p], new) : purge' = [purge EXCEPT ![p] = x]
  BY <1>2, Zenon DEF ExecutePurgeCache
<1> HIDE DEF new
<1>4. x \in Purges(newest) /\ (x = purge[p] \/ x.data = ctx.gen)
  BY <1>1, <1>2, PurgeLeft
<1> QED BY <1>3, <1>4, Zenon

\* The log writes one chunk control, or a part of it.
LEMMA PurgeChunkEffect ==
  ASSUME TypeOK, NEW c \in Chunks, NEW n \in 1..PURGES, ExecutePurgeChunk(c, n)
  PROVE  \E x \in Ctls(newest) : /\ ctl' = [ctl EXCEPT ![c] = x]
                                 /\ \A d \in Chunks : ctl'[d] = IF d = c THEN x ELSE ctl[d]
                                 /\ x.ccn \in {ctl[c].ccn, ctx.ccn}
                                 /\ x.valid => x = ctl[c] \/ (x.gen = ctx.gen /\ x.end = n)
<1> DEFINE new == [gen |-> ctx.gen, ccn |-> ctx.ccn, valid |-> TRUE, end |-> n]
<1>1. new \in Ctls(newest) /\ ctl[c] \in Ctls(newest) /\ newest \in Nat
  BY Parameters DEF TypeOK, Ctls
<1>2. /\ new.gen = ctx.gen /\ new.ccn = ctx.ccn /\ new.end = n
      /\ new \in CtlCutShort(ctl[c], new)
  BY DEF CtlCutShort
<1>3. PICK x \in CtlCutShort(ctl[c], new) : ctl' = [ctl EXCEPT ![c] = x]
  BY <1>2, Zenon DEF ExecutePurgeChunk
<1> HIDE DEF new
<1>4. /\ x \in Ctls(newest) /\ x.ccn \in {ctl[c].ccn, ctx.ccn}
      /\ x.valid => x = ctl[c] \/ (x.gen = ctx.gen /\ x.end = n)
  BY <1>1, <1>2, CtlLeft
<1>5. \A d \in Chunks : ctl'[d] = IF d = c THEN x ELSE ctl[d]
  <2>1. DOMAIN ctl = Chunks
    BY DEF TypeOK
  <2> HIDE DEF Chunks
  <2> QED BY <1>3, <2>1
<1> QED BY <1>3, <1>4, <1>5, Zenon

\* What it leaves valid is the control that was there, or one of its own.
LEMMA PurgeChunkKeeps ==
  ASSUME TypeOK, NEW c \in Chunks, NEW n \in 1..PURGES, ExecutePurgeChunk(c, n)
  PROVE  \A d \in Chunks : ctl'[d].valid =>
           ctl'[d] = ctl[d] \/ (d = c /\ ctl'[d].gen = ctx.gen /\ ctl'[d].end = n)
BY PurgeChunkEffect, Zenon

\* The format writes its chunk control, or a part of it.
LEMMA FormatCtlEffect ==
  ASSUME Basis, FormatCtl
  PROVE  \E x \in Ctls(newest) : /\ ctl' = [ctl EXCEPT ![1] = x]
                                 /\ x.valid => x = ctl[1] \/ x = FirstCtl
<1>1. FirstCtl \in Ctls(newest) /\ ctl[1] \in Ctls(newest) /\ newest \in Nat
  BY Parameters DEF Basis, TypeOK, Ctls, FirstCtl, FirstEnd, Chunks
<1>2. FirstCtl \in CtlCutShort(ctl[1], FirstCtl)
  BY DEF CtlCutShort
<1>3. PICK x \in CtlCutShort(ctl[1], FirstCtl) : ctl' = [ctl EXCEPT ![1] = x]
  BY <1>2, Zenon DEF FormatCtl
<1>4. x \in Ctls(newest) /\ (x.valid => x = ctl[1] \/ x = FirstCtl)
  BY <1>1, CtlLeft
<1> QED BY <1>3, <1>4, Zenon

\* The format writes the first purge, or a part of it.
LEMMA FormatPurgeEffect ==
  ASSUME Basis, FormatPurge
  PROVE  \E x \in Purges(newest) : purge' = [purge EXCEPT ![<<1, 0>>] = x]
<1> DEFINE new == Purge(format.gen, format.ccn)
<1>1. <<1, 0>> \in Places
  <2>1. 1 \in Chunks /\ 0 \in 0..(PURGES - 1)
    BY Parameters DEF Chunks
  <2> QED BY <2>1 DEF Places
<1>2. new \in Purges(newest) /\ purge[<<1, 0>>] \in Purges(newest) /\ newest \in Nat
  BY <1>1, Parameters DEF Basis, TypeOK, Purge, Purges
<1>3. new \in PurgeCutShort(purge[<<1, 0>>], new)
  BY DEF PurgeCutShort
<1>4. \E x \in PurgeCutShort(purge[<<1, 0>>], new) : purge' = [purge EXCEPT ![<<1, 0>>] = x]
  BY <1>3 DEF FormatPurge
<1> HIDE DEF new
<1> QED BY <1>2, <1>4, PurgeLeft

\* One chunk control more has been read, or the scan has failed.
LEMMA ScanCtlEffect ==
  ASSUME Basis, ScanCtl
  PROVE  \/ format' = NoFormat
         \/ /\ format' \in Formats(newest) /\ format'.at = "scan"
            /\ format.next \in Chunks /\ format'.next = format.next + 1
            /\ format'.seen = format.seen \cup {ctl[format.next].ccn}
<1>1. CASE format' = NoFormat
  BY <1>1
<1>2. CASE format' = [format EXCEPT !.next = format.next + 1,
                                    !.seen = format.seen \cup {ctl[format.next].ccn}]
  <2>1. /\ format.next \in Chunks /\ format.next + 1 \in 0..MAX_CHUNKS
        /\ format.seen \cup {ctl[format.next].ccn} \in SUBSET CCNs
    BY Parameters DEF ScanCtl, Basis, TypeOK, Chunks
  <2>2. format \in Formats(newest) /\ format.at = "scan"
    BY DEF Basis, TypeOK, Formats, ScanCtl
  <2>3. /\ format'.at = format.at /\ format'.next = format.next + 1
        /\ format'.seen = format.seen \cup {ctl[format.next].ccn}
        /\ format' \in Formats(newest)
    BY <1>2, <2>1, <2>2, Zenon DEF Formats
  <2> QED BY <2>1, <2>2, <2>3
<1> QED BY <1>1, <1>2, Zenon DEF ScanCtl

\* What the scan knows after one chunk control more.
LEMMA ScanOne ==
  ASSUME NEW seen, NEW n \in Chunks, NEW c0, IsFiniteSet(seen), Cardinality(seen) <= n,
         \A c \in Chunks : c < n /\ c0[c].valid => c0[c].ccn \in seen
  PROVE  LET s == seen \cup {c0[n].ccn}
         IN /\ IsFiniteSet(s) /\ Cardinality(s) <= n + 1 /\ s # {}
            /\ \A c \in Chunks : c < n + 1 /\ c0[c].valid => c0[c].ccn \in s
<1> DEFINE s == seen \cup {c0[n].ccn}
<1> USE Parameters DEF Chunks
<1>1. IsFiniteSet(s) /\ Cardinality(s) \in {Cardinality(seen), Cardinality(seen) + 1}
  BY FS_AddElement
<1>2. Cardinality(seen) \in Nat
  BY FS_CardinalityType
<1>3. ASSUME NEW c \in Chunks, c < n + 1, c0[c].valid
      PROVE  c0[c].ccn \in s
  <2>1. c < n \/ c = n
    BY <1>3
  <2> QED BY <1>3, <2>1
<1>4. Cardinality(s) <= n + 1
  BY <1>1, <1>2
<1> QED BY <1>1, <1>3, <1>4

\* The format goes on with its next step.
LEMMA GoesOnEffect ==
  ASSUME Basis, NEW at \in {"purge", "conf"}, GoesOn(at)
  PROVE  /\ format' \in Formats(newest) /\ format'.at = at
         /\ format'.map = format.map /\ format'.ccn = format.ccn /\ format'.gen = format.gen
<1>1. format \in Formats(newest)
  BY DEF Basis, TypeOK, Formats
<1>2. at \in {"none", "scan", "ctl", "purge", "conf"}
  OBVIOUS
<1> QED BY <1>1, <1>2, Zenon DEF GoesOn, Formats

\* The format begins with a number that no valid chunk control carries, or not at all.
LEMMA SetFormatModeEffect ==
  ASSUME Basis, SetFormatMode
  PROVE  \/ format' = NoFormat /\ UNCHANGED <<mode, newest>>
         \/ /\ mode \in {"DIRECT", "ACTIVE", "ERROR"} /\ mode' = "FORMAT" /\ newest' = newest + 1
            /\ format' \in Formats(newest + 1)
            /\ format'.at = IF format.map THEN "ctl" ELSE "conf"
            /\ format'.map = format.map /\ format'.gen = newest + 1
            /\ format'.ccn \notin format.seen
            /\ \A c \in Chunks : ctl[c].valid => ctl[c].ccn # format'.ccn
<1>1. CASE format' = NoFormat /\ UNCHANGED <<mode, newest>>
  BY <1>1
<1>2. CASE /\ mode \in {"DIRECT", "ACTIVE", "ERROR"} /\ mode' = "FORMAT" /\ newest' = newest + 1
           /\ format' = [format EXCEPT !.at = IF format.map THEN "ctl" ELSE "conf",
                                       !.ccn = NewCCN(format.seen), !.gen = newest + 1]
  <2>1. format \in Formats(newest) /\ format.map \in BOOLEAN /\ format.seen \in SUBSET CCNs
    BY DEF Basis, TypeOK, Formats
  <2>2. /\ format.seen # {} /\ IsFiniteSet(format.seen) /\ Cardinality(format.seen) <= MAX_CHUNKS
        /\ \A c \in Chunks : ctl[c].valid => ctl[c].ccn \in format.seen
    BY Parameters DEF SetFormatMode, Basis, TypeOK, Scanned, Chunks
  <2>3. NewCCN(format.seen) \in CCNs \ format.seen
    BY <2>1, <2>2, NewCCNIsNew
  <2>5. /\ format' \in Formats(newest + 1)
        /\ format'.at = IF format.map THEN "ctl" ELSE "conf"
        /\ format'.map = format.map /\ format'.gen = newest + 1
        /\ format'.ccn = NewCCN(format.seen)
    <3> DEFINE at == IF format.map THEN "ctl" ELSE "conf"
    <3>1. at \in {"none", "scan", "ctl", "purge", "conf"}
      OBVIOUS
    <3> HIDE DEF at
    <3> QED BY <1>2, <2>1, <2>3, <3>1, Zenon DEF Formats, at
  <2> QED BY <1>2, <2>2, <2>3, <2>5
<1> QED BY <1>1, <1>2, Zenon DEF SetFormatMode

\* The types are kept.
LEMMA TypeStep ==
  ASSUME Basis, [Next]_vars
  PROVE  TypeOK'
<1> USE Parameters DEF Basis, TypeOK, Alone, Scanned, Settings, FormatAts, CCNs, FirstCtl,
      FirstEnd, Plain, NoCtx, NoFormat, NoConfig, Torn, medium, bounds
<1>1. CASE Check
  BY <1>1 DEF Check
<1>2. CASE DoRecovery
  BY <1>2 DEF DoRecovery, Fails
<1>3. ASSUME NEW p \in Places, ExecutePurgeCache(p) PROVE TypeOK'
  <2>1. PICK x \in Purges(newest) : purge' = [purge EXCEPT ![p] = x]
    BY <1>3, PurgeCacheEffect
  <2>2. purge' \in [Places -> Purges(newest)]
    BY <2>1 DEF Purges
  <2> QED BY <1>3, <2>2 DEF ExecutePurgeCache, ChangeModeAtomic, Fails, Purges
<1>4. ASSUME NEW c \in Chunks, NEW n \in 1..PURGES, ExecutePurgeChunk(c, n) PROVE TypeOK'
  <2>1. PICK x \in Ctls(newest) : ctl' = [ctl EXCEPT ![c] = x]
    BY <1>4, PurgeChunkEffect
  <2>2. ctl' \in [Chunks -> Ctls(newest)]
    BY <2>1 DEF Ctls
  <2> QED BY <1>4, <2>2 DEF ExecutePurgeChunk, ChangeModeAtomic, Fails, Ctls
<1>5. CASE DirectWrite
  <2>1. CASE UNCHANGED ctl /\ \E p \in Places, raw \in BOOLEAN :
               purge' = [purge EXCEPT ![p] = IF raw THEN Raw ELSE [@ EXCEPT !.data = 0]]
    <3>0. PICK p \in Places, raw \in BOOLEAN :
                 purge' = [purge EXCEPT ![p] = IF raw THEN Raw ELSE [purge[p] EXCEPT !.data = 0]]
      BY <2>1
    <3>1. PICK x \in Purges(newest) : purge' = [purge EXCEPT ![p] = x]
      <4>1. Raw \in Purges(newest) /\ [purge[p] EXCEPT !.data = 0] \in Purges(newest)
        BY DEF Raw, Purges
      <4> QED BY <3>0, <4>1
    <3>2. purge' \in [Places -> Purges(newest)]
      BY <3>1 DEF Purges
    <3> QED BY <1>5, <2>1, <3>2 DEF DirectWrite, Purges
  <2>2. CASE UNCHANGED purge /\ \E c \in Chunks, n \in {0, CCN_VALUES - 1} :
               ctl' = [ctl EXCEPT ![c] = Torn(n)]
    <3>1. PICK c \in Chunks, n \in {0, CCN_VALUES - 1} : ctl' = [ctl EXCEPT ![c] = Torn(n)]
      BY <2>2
    <3>2. Torn(n) \in [gen : 0..newest, ccn : CCNs, valid : BOOLEAN, end : 0..PURGES]
      BY DEF Torn
    <3>3. ctl' \in [Chunks -> [gen : 0..newest, ccn : CCNs, valid : BOOLEAN, end : 0..PURGES]]
      BY <3>1, <3>2
    <3> QED BY <1>5, <2>2, <3>3 DEF DirectWrite
  <2> QED BY <1>5, <2>1, <2>2 DEF DirectWrite
<1>6. CASE ReCheck
  BY <1>6 DEF ReCheck
<1>7. CASE Restart
  BY <1>7 DEF Restart
<1>8. CASE StartFormat
  BY <1>8 DEF StartFormat
<1>9. CASE ScanCtl
  <2>1. format' \in Formats(newest)
    <3>1. NoFormat \in Formats(newest)
      BY DEF Formats
    <3> QED BY <1>9, <3>1, ScanCtlEffect
  <2>2. failures' \in 0..MaxFailures
    <3>1. UNCHANGED failures \/ Fails
      BY <1>9, Zenon DEF ScanCtl
    <3> QED BY <3>1 DEF Fails
  <2>3. UNCHANGED <<medium, mode, ctx, newest, config, garbage>>
    BY <1>9 DEF ScanCtl
  <2> QED BY <2>1, <2>2, <2>3 DEF Formats
<1>10. CASE SetFormatMode
  <2>1. format' \in Formats(newest') /\ newest' \in newest..MaxFormats /\ mode' \in {mode, "FORMAT"}
    <3>1. NoFormat \in Formats(newest)
      BY DEF Formats
    <3>2. newest < MaxFormats
      BY <1>10 DEF SetFormatMode
    <3>3. CASE format' = NoFormat /\ UNCHANGED <<mode, newest>>
      BY <3>1, <3>3
    <3>4. CASE format' \in Formats(newest + 1) /\ newest' = newest + 1 /\ mode' = "FORMAT"
      BY <3>2, <3>4
    <3> QED BY <1>10, <3>3, <3>4, SetFormatModeEffect
  <2>2. UNCHANGED <<medium, ctx, config, bounds>>
    BY <1>10 DEF SetFormatMode
  <2>3. 0..newest \subseteq 0..newest'
    BY <2>1
  <2> QED BY <2>1, <2>2, <2>3 DEF Formats
<1>11. CASE FormatCtl
  <2>1. PICK x \in Ctls(newest) : ctl' = [ctl EXCEPT ![1] = x]
    BY <1>11, FormatCtlEffect
  <2>3. ctl' \in [Chunks -> Ctls(newest)]
    BY <2>1 DEF Ctls
  <2>4. format' \in Formats(newest)
    <3>1. NoFormat \in Formats(newest)
      BY DEF Formats
    <3> QED BY <1>11, <3>1, GoesOnEffect DEF FormatCtl, GivesUp
  <2>5. mode' \in {mode, "ERROR"} /\ failures' \in 0..MaxFailures
    BY <1>11 DEF FormatCtl, GoesOn, GivesUp, Fails, ChangeModeAtomic
  <2>6. UNCHANGED <<RemovableMedia, conf, purge, ctx, newest, config, garbage>>
    BY <1>11 DEF FormatCtl
  <2> QED BY <2>3, <2>4, <2>5, <2>6 DEF Formats, Ctls
<1>12. CASE FormatPurge
  <2>1. PICK x \in Purges(newest) : purge' = [purge EXCEPT ![<<1, 0>>] = x]
    BY <1>12, FormatPurgeEffect
  <2>2. purge' \in [Places -> Purges(newest)]
    BY <2>1 DEF Purges
  <2>3. format' \in Formats(newest)
    <3>1. NoFormat \in Formats(newest)
      BY DEF Formats
    <3> QED BY <1>12, <3>1, GoesOnEffect DEF FormatPurge, GivesUp
  <2>4. mode' \in {mode, "ERROR"} /\ failures' \in 0..MaxFailures
    BY <1>12 DEF FormatPurge, GoesOn, GivesUp, Fails, ChangeModeAtomic
  <2>5. UNCHANGED <<RemovableMedia, conf, ctl, ctx, newest, config, garbage>>
    BY <1>12 DEF FormatPurge
  <2> QED BY <2>2, <2>3, <2>4, <2>5 DEF Formats, Purges
<1>13. CASE FormatConf
  <2>1. conf' \in [gen : 0..newest, ccn : CCNs, weight : {0, 1}]
    BY <1>13 DEF FormatConf, Conf
  <2>2. format' = NoFormat
    BY <1>13 DEF FormatConf, GivesUp
  <2> QED BY <1>13, <2>1, <2>2 DEF FormatConf, GivesUp, Fails, ChangeModeAtomic
<1>14. CASE ReadConf
  BY <1>14 DEF ReadConf
<1>15. CASE EditConf
  BY <1>15 DEF EditConf
<1>16. CASE WriteConf
  BY <1>16 DEF WriteConf, Fails
<1>17. CASE UNCHANGED vars
  BY <1>17 DEF vars
<1> QED
  BY <1>1, <1>2, <1>3, <1>4, <1>5, <1>6, <1>7, <1>8, <1>9, <1>10, <1>11, <1>12, <1>13, <1>14,
      <1>15, <1>16, <1>17
  DEF Next, LogStep, FormatStep, Configure

\* A format stays alone.
LEMMA AloneStep ==
  ASSUME ~ConfigMeetsFormat, Basis, TypeOK', [Next]_vars
  PROVE  Alone'
<1> USE Parameters DEF Basis, TypeOK, Alone, FormatAts, Plain, NoCtx, NoFormat, NoConfig, Torn,
      medium, bounds
<1>1. CASE Check
  BY <1>1 DEF Check
<1>2. CASE DoRecovery
  BY <1>2 DEF DoRecovery, Fails
<1>3. ASSUME NEW p \in Places, ExecutePurgeCache(p) PROVE Alone'
  BY <1>3 DEF ExecutePurgeCache, LogAtWork, ChangeModeAtomic, Fails
<1>4. ASSUME NEW c \in Chunks, NEW n \in 1..PURGES, ExecutePurgeChunk(c, n) PROVE Alone'
  BY <1>4 DEF ExecutePurgeChunk, LogAtWork, ChangeModeAtomic, Fails
<1>5. CASE DirectWrite
  BY <1>5 DEF DirectWrite
<1>6. CASE ReCheck
  BY <1>6 DEF ReCheck
<1>7. CASE Restart
  BY <1>7 DEF Restart
<1>8. CASE StartFormat
  BY <1>8 DEF StartFormat
<1>9. CASE ScanCtl
  BY <1>9, ScanCtlEffect DEF ScanCtl, Fails
<1>10. CASE SetFormatMode
  BY <1>10, SetFormatModeEffect DEF SetFormatMode
<1>11. CASE FormatCtl
  BY <1>11 DEF FormatCtl, GoesOn, GivesUp, Fails, ChangeModeAtomic
<1>12. CASE FormatPurge
  BY <1>12 DEF FormatPurge, GoesOn, GivesUp, Fails, ChangeModeAtomic
<1>13. CASE FormatConf
  BY <1>13 DEF FormatConf, GivesUp, Fails, ChangeModeAtomic, Conf
<1>14. CASE ReadConf
  BY <1>14 DEF ReadConf
<1>15. CASE EditConf
  BY <1>15 DEF EditConf
<1>16. CASE WriteConf
  BY <1>16 DEF WriteConf, Fails
<1>17. CASE UNCHANGED vars
  BY <1>17 DEF vars
<1> QED
  BY <1>1, <1>2, <1>3, <1>4, <1>5, <1>6, <1>7, <1>8, <1>9, <1>10, <1>11, <1>12, <1>13, <1>14,
      <1>15, <1>16, <1>17
  DEF Next, LogStep, FormatStep, Configure

\* The scan misses nothing.
LEMMA ScannedStep ==
  ASSUME ~FormatMeetsLog, Basis, TypeOK', [Next]_vars
  PROVE  Scanned'
<1> USE Parameters DEF Basis, TypeOK, Alone, Scanned, FormatAts, Plain, NoCtx, NoFormat,
      NoConfig, Torn, medium, bounds
<1>1. CASE Check
  BY <1>1 DEF Check
<1>2. CASE DoRecovery
  BY <1>2 DEF DoRecovery, Fails
<1>3. ASSUME NEW p \in Places, ExecutePurgeCache(p) PROVE Scanned'
  BY <1>3 DEF ExecutePurgeCache, LogAtWork, ChangeModeAtomic, Fails
<1>4. ASSUME NEW c \in Chunks, NEW n \in 1..PURGES, ExecutePurgeChunk(c, n) PROVE Scanned'
  <2>1. format' = format /\ format.at # "scan"
    BY <1>4 DEF ExecutePurgeChunk
  <2> QED BY <2>1
<1>5. CASE DirectWrite
  <2>1. UNCHANGED format /\ DOMAIN ctl = Chunks
    BY <1>5 DEF DirectWrite
  <2>2. \A c \in Chunks : ctl'[c].valid => ctl'[c] = ctl[c]
    BY <1>5, <2>1 DEF DirectWrite
  <2> QED BY <2>1, <2>2
<1>6. CASE ReCheck
  BY <1>6 DEF ReCheck
<1>7. CASE Restart
  BY <1>7 DEF Restart
<1>8. CASE StartFormat
  <2>1. format'.at = "scan" /\ format'.next = 0 /\ format'.seen = {}
    BY <1>8 DEF StartFormat
  <2>2. IsFiniteSet({}) /\ Cardinality({}) = 0
    BY FS_EmptySet
  <2> QED BY <2>1, <2>2 DEF Chunks
<1>9. CASE ScanCtl
  <2>1. CASE format' = NoFormat
    BY <2>1
  <2>2. CASE /\ format'.next = format.next + 1 /\ format.next \in Chunks
             /\ format'.seen = format.seen \cup {ctl[format.next].ccn}
    <3>1. format.at = "scan" /\ UNCHANGED ctl
      BY <1>9 DEF ScanCtl
    <3>2. /\ IsFiniteSet(format.seen) /\ Cardinality(format.seen) <= format.next
          /\ \A c \in Chunks : c < format.next /\ ctl[c].valid => ctl[c].ccn \in format.seen
      BY <3>1
    <3>3. LET s == format.seen \cup {ctl[format.next].ccn}
          IN /\ IsFiniteSet(s) /\ Cardinality(s) <= format.next + 1 /\ s # {}
             /\ \A c \in Chunks : c < format.next + 1 /\ ctl[c].valid => ctl[c].ccn \in s
      BY <2>2, <3>2, ScanOne, Zenon
    <3> QED BY <2>2, <3>1, <3>3, Zenon DEF Scanned
  <2> QED BY <1>9, <2>1, <2>2, ScanCtlEffect
<1>10. CASE SetFormatMode
  BY <1>10, SetFormatModeEffect DEF SetFormatMode
<1>11. CASE FormatCtl
  BY <1>11 DEF FormatCtl, GoesOn, GivesUp, Fails, ChangeModeAtomic
<1>12. CASE FormatPurge
  BY <1>12 DEF FormatPurge, GoesOn, GivesUp, Fails, ChangeModeAtomic
<1>13. CASE FormatConf
  BY <1>13 DEF FormatConf, GivesUp, Fails, ChangeModeAtomic, Conf
<1>14. CASE ReadConf
  BY <1>14 DEF ReadConf
<1>15. CASE EditConf
  BY <1>15 DEF EditConf
<1>16. CASE WriteConf
  BY <1>16 DEF WriteConf, Fails
<1>17. CASE UNCHANGED vars
  BY <1>17 DEF vars
<1> QED
  BY <1>1, <1>2, <1>3, <1>4, <1>5, <1>6, <1>7, <1>8, <1>9, <1>10, <1>11, <1>12, <1>13, <1>14,
      <1>15, <1>16, <1>17
  DEF Next, LogStep, FormatStep, Configure

\* The settings agree.
LEMMA SettingsStep ==
  ASSUME ~ConfigMeetsFormat, Basis, TypeOK', Alone', [Next]_vars
  PROVE  Settings'
<1> USE Parameters DEF Basis, TypeOK, Alone, Settings, FormatAts, Plain, NoCtx, NoFormat,
      NoConfig, Torn, medium, bounds
<1>1. CASE Check
  BY <1>1 DEF Check
<1>2. CASE DoRecovery
  BY <1>2 DEF DoRecovery, Fails
<1>3. ASSUME NEW p \in Places, ExecutePurgeCache(p) PROVE Settings'
  BY <1>3 DEF ExecutePurgeCache, LogAtWork, ChangeModeAtomic, Fails
<1>4. ASSUME NEW c \in Chunks, NEW n \in 1..PURGES, ExecutePurgeChunk(c, n) PROVE Settings'
  BY <1>4 DEF ExecutePurgeChunk, LogAtWork, ChangeModeAtomic, Fails
<1>5. CASE DirectWrite
  BY <1>5 DEF DirectWrite
<1>6. CASE ReCheck
  BY <1>6 DEF ReCheck
<1>7. CASE Restart
  BY <1>7 DEF Restart
<1>8. CASE StartFormat
  BY <1>8 DEF StartFormat
<1>9. CASE ScanCtl
  BY <1>9 DEF ScanCtl, Fails
<1>10. CASE SetFormatMode
  BY <1>10 DEF SetFormatMode
<1>11. CASE FormatCtl
  BY <1>11 DEF FormatCtl, GoesOn, GivesUp, Fails, ChangeModeAtomic
<1>12. CASE FormatPurge
  BY <1>12 DEF FormatPurge, GoesOn, GivesUp, Fails, ChangeModeAtomic
<1>13. CASE FormatConf
  BY <1>13 DEF FormatConf, GivesUp, Fails, ChangeModeAtomic, Conf
<1>14. CASE ReadConf
  BY <1>14 DEF ReadConf
<1>15. CASE EditConf
  BY <1>15 DEF EditConf
<1>16. CASE WriteConf
  BY <1>16 DEF WriteConf, Fails
<1>17. CASE UNCHANGED vars
  BY <1>17 DEF vars
<1> QED
  BY <1>1, <1>2, <1>3, <1>4, <1>5, <1>6, <1>7, <1>8, <1>9, <1>10, <1>11, <1>12, <1>13, <1>14,
      <1>15, <1>16, <1>17
  DEF Next, LogStep, FormatStep, Configure

-----------------------------------------------------------------------------
(* What is on the medium *)

\* The number of a format at work stays its own.
LEMMA FreshStep ==
  ASSUME ~FormatMeetsLog, ~ConfigMeetsFormat, Inv, Basis', [Next]_vars
  PROVE  Fresh'
<1> USE Parameters DEF Inv, Basis, TypeOK, Alone, Settings, Fresh, FreshData, FormatAts,
      FirstCtl, FirstEnd, Plain, NoCtx, NoFormat, NoConfig, Torn, medium, bounds
<1>1. CASE Check
  BY <1>1 DEF Check
<1>2. CASE DoRecovery
  BY <1>2 DEF DoRecovery, Fails
<1>3. ASSUME NEW p \in Places, ExecutePurgeCache(p) PROVE Fresh'
  BY <1>3 DEF ExecutePurgeCache, LogAtWork, ChangeModeAtomic, Fails
<1>4. ASSUME NEW c \in Chunks, NEW n \in 1..PURGES, ExecutePurgeChunk(c, n) PROVE Fresh'
  BY <1>4 DEF ExecutePurgeChunk, LogAtWork, ChangeModeAtomic, Fails
<1>5. CASE DirectWrite
  BY <1>5 DEF DirectWrite
<1>6. CASE ReCheck
  BY <1>6 DEF ReCheck
<1>7. CASE Restart
  BY <1>7 DEF Restart
<1>8. CASE StartFormat
  BY <1>8 DEF StartFormat
<1>9. CASE ScanCtl
  BY <1>9 DEF ScanCtl, Fails
<1>10. CASE SetFormatMode
  <2>1. UNCHANGED ctl
    BY <1>10 DEF SetFormatMode
  <2> QED BY <1>10, <2>1, SetFormatModeEffect
<1>11. CASE FormatCtl
  <2>1. CASE format' = NoFormat
    BY <2>1
  <2>2. CASE /\ ctl' = [ctl EXCEPT ![1] = FirstCtl]
             /\ GoesOn(IF RemovableMedia THEN "conf" ELSE "purge")
    <3>1. /\ format'.at \in {"purge", "conf"}
          /\ format'.map = format.map /\ format'.ccn = format.ccn /\ format'.gen = format.gen
      BY <2>2, GoesOnEffect
    <3>2. 1 \in Chunks
      BY DEF Chunks
    <3>3. UNCHANGED RemovableMedia /\ format.at = "ctl"
      BY <1>11 DEF FormatCtl
    <3>4. FirstCtl' = FirstCtl
      BY <3>1, <3>3
    <3>5. ctl'[1] = FirstCtl' /\ \A c \in Chunks \ {1} : ctl'[c] = ctl[c]
      BY <2>2, <3>2, <3>4
    <3> HIDE DEF FirstCtl
    <3> QED BY <3>1, <3>3, <3>5
  <2> QED BY <1>11, <2>1, <2>2 DEF FormatCtl, GivesUp
<1>12. CASE FormatPurge
  <2>1. CASE format' = NoFormat
    BY <2>1
  <2>2. CASE GoesOn("conf")
    <3>1. /\ format'.at = "conf"
          /\ format'.map = format.map /\ format'.ccn = format.ccn /\ format'.gen = format.gen
      BY <2>2, GoesOnEffect
    <3>2. UNCHANGED <<RemovableMedia, ctl>> /\ format.at = "purge"
      BY <1>12 DEF FormatPurge
    <3> QED BY <3>1, <3>2
  <2> QED BY <1>12, <2>1, <2>2 DEF FormatPurge, GivesUp
<1>13. CASE FormatConf
  BY <1>13 DEF FormatConf, GivesUp, Fails, ChangeModeAtomic, Conf
<1>14. CASE ReadConf
  BY <1>14 DEF ReadConf
<1>15. CASE EditConf
  BY <1>15 DEF EditConf
<1>16. CASE WriteConf
  BY <1>16 DEF WriteConf, Fails
<1>17. CASE UNCHANGED vars
  BY <1>17 DEF vars
<1> QED
  BY <1>1, <1>2, <1>3, <1>4, <1>5, <1>6, <1>7, <1>8, <1>9, <1>10, <1>11, <1>12, <1>13, <1>14,
      <1>15, <1>16, <1>17
  DEF Next, LogStep, FormatStep, Configure

\* So does its generation.
LEMMA FreshDataStep ==
  ASSUME ~FormatMeetsLog, ~ConfigMeetsFormat, Inv, Basis', [Next]_vars
  PROVE  FreshData'
<1> USE Parameters DEF Inv, Basis, TypeOK, Alone, Settings, Fresh, FreshData, FormatAts,
      FirstCtl, FirstEnd, Mapped, PlacesOf, Places, Plain, NoCtx, NoFormat, NoConfig, Torn,
      medium, bounds
<1>1. CASE Check
  BY <1>1 DEF Check
<1>2. CASE DoRecovery
  BY <1>2 DEF DoRecovery, Fails
<1>3. ASSUME NEW p \in Places, ExecutePurgeCache(p) PROVE FreshData'
  BY <1>3 DEF ExecutePurgeCache, LogAtWork, ChangeModeAtomic, Fails
<1>4. ASSUME NEW c \in Chunks, NEW n \in 1..PURGES, ExecutePurgeChunk(c, n) PROVE FreshData'
  BY <1>4 DEF ExecutePurgeChunk, LogAtWork, ChangeModeAtomic, Fails
<1>5. CASE DirectWrite
  BY <1>5 DEF DirectWrite
<1>6. CASE ReCheck
  BY <1>6 DEF ReCheck
<1>7. CASE Restart
  BY <1>7 DEF Restart
<1>8. CASE StartFormat
  BY <1>8 DEF StartFormat
<1>9. CASE ScanCtl
  BY <1>9 DEF ScanCtl, Fails
<1>10. CASE SetFormatMode
  <2>1. UNCHANGED <<RemovableMedia, ctl, purge>>
    BY <1>10 DEF SetFormatMode
  <2>2. CASE format' = NoFormat /\ UNCHANGED newest
    BY <2>2
  <2>3. CASE newest' = newest + 1 /\ format'.at = (IF format.map THEN "ctl" ELSE "conf")
             /\ format'.map = format.map
    <3>1. \A p \in Places : purge[p].gen # newest'
      BY <2>3
    <3>2. format'.at # "purge" /\ (format'.at = "conf" => ~format'.map)
      BY <2>3
    <3> QED BY <2>1, <3>1, <3>2
  <2> QED BY <1>10, <2>2, <2>3, SetFormatModeEffect
<1>11. CASE FormatCtl
  BY <1>11 DEF FormatCtl, GoesOn, GivesUp, Fails, ChangeModeAtomic
<1>12. CASE FormatPurge
  <2>1. CASE format' = NoFormat
    BY <2>1
  <2>2. CASE /\ purge' = [purge EXCEPT ![<<1, 0>>] = Purge(format.gen, format.ccn)]
             /\ GoesOn("conf")
    <3>1. format'.at = "conf" /\ format'.map = format.map /\ format'.ccn = format.ccn
      BY <2>2, GoesOnEffect
    <3>2. UNCHANGED <<RemovableMedia, ctl, newest>> /\ format.at = "purge" /\ format.gen = newest
      BY <1>12 DEF FormatPurge
    <3>3. <<1, 0>> \in Places
      <4>1. 1 \in Chunks /\ 0 \in 0..(PURGES - 1)
        BY DEF Chunks
      <4>2. <<1, 0>> \in Chunks \X (0..(PURGES - 1)) /\ <<1, 0>> # <<0, 0>>
        BY <4>1
      <4> QED BY <4>2 DEF Places
    <3>4. ctl[1].end = 1
      BY <3>2
    <3>5. Mapped(1)' = {<<1, 0>>}
      BY <3>2, <3>3, <3>4
    <3>6. purge'[<<1, 0>>] = Purge(newest', format'.ccn)
      BY <2>2, <3>1, <3>2, <3>3
    <3>7. \A p \in Places \ {<<1, 0>>} : purge'[p].gen # newest'
      BY <2>2, <3>2
    <3> HIDE DEF Mapped
    <3> QED BY <3>1, <3>5, <3>6, <3>7
  <2> QED BY <1>12, <2>1, <2>2 DEF FormatPurge, GivesUp
<1>13. CASE FormatConf
  BY <1>13 DEF FormatConf, GivesUp, Fails, ChangeModeAtomic, Conf
<1>14. CASE ReadConf
  BY <1>14 DEF ReadConf
<1>15. CASE EditConf
  BY <1>15 DEF EditConf
<1>16. CASE WriteConf
  BY <1>16 DEF WriteConf, Fails
<1>17. CASE UNCHANGED vars
  BY <1>17 DEF vars
<1> QED
  BY <1>1, <1>2, <1>3, <1>4, <1>5, <1>6, <1>7, <1>8, <1>9, <1>10, <1>11, <1>12, <1>13, <1>14,
      <1>15, <1>16, <1>17
  DEF Next, LogStep, FormatStep, Configure

\* When the record gets into sector 0, the first control and the first purge are there, and
\* nothing else has the number of the format.
LEMMA RecordArrives ==
  ASSUME Inv, FormatConf, format.map, conf' = Conf(format.gen, format.ccn)
  PROVE  conf' # Plain /\ conf'.gen = newest' /\ FreshlyFormatted'
<1> USE Parameters DEF Inv, Basis, TypeOK, Alone, Fresh, FreshData, FormatAts, FirstCtl,
      AcceptsCtl, AcceptsPurge, Mapped, PlacesOf, Places, Plain, Purge
<1>1. UNCHANGED <<RemovableMedia, ctl, purge, newest>> /\ format.at = "conf" /\ format.gen = newest
  BY DEF FormatConf
<1>2. conf' # Plain /\ conf'.gen = newest /\ conf'.ccn = format.ccn
  BY <1>1 DEF Conf
<1>3. 1 \in Chunks
  BY DEF Chunks
<1>4. \A c \in Chunks : AcceptsCtl(c)' <=> c = 1
  BY <1>1, <1>2, <1>3
<1>5. \A p \in Places : AcceptsPurge(p)' <=> p \in Mapped(1)'
  <2>1. Mapped(1)' = Mapped(1)
    BY <1>1
  <2> HIDE DEF Mapped, Places
  <2>2. \A p \in Places : p \in Mapped(1) <=> purge[p].gen = newest
    BY <1>1
  <2>3. \A p \in Mapped(1) \cap Places : purge[p].valid /\ purge[p].ccn = format.ccn
    BY <1>1
  <2> QED BY <1>1, <1>2, <2>1, <2>2, <2>3
<1>6. Mapped(1)' \in SUBSET Places
  OBVIOUS
<1> HIDE DEF AcceptsCtl, AcceptsPurge, Mapped, Places
<1> QED BY <1>1, <1>2, <1>3, <1>4, <1>5, <1>6 DEF FreshlyFormatted

\* The generation begun next.
LEMMA NextGeneration ==
  ASSUME Basis
  PROVE  conf.gen # newest + 1 /\ (newest + 1 = conf.gen + 1 => conf.gen = newest)
<1>1. conf.gen \in 0..newest /\ newest \in Nat
  BY Parameters DEF Basis, TypeOK
<1> QED BY <1>1

\* A format at work is later than the record.
LEMMA LaterThanRecord ==
  ASSUME Basis, mode = "FORMAT"
  PROVE  /\ newest > conf.gen
         /\ newest # conf.gen + 1 => newest > conf.gen + 1
<1>1. conf.gen \in 0..newest /\ newest \in Nat /\ conf.gen # newest
  BY Parameters DEF Basis, TypeOK, Alone
<1> QED BY <1>1

\* The number of the record stays on chunk 1 until a format has chosen another.
LEMMA HeldStep ==
  ASSUME ~FormatMeetsLog, ~ConfigMeetsFormat, Inv, Basis', [Next]_vars
  PROVE  Held'
<1> USE Parameters DEF Inv, Basis, TypeOK, Alone, Settings, Held, Fresh, FormatAts, FirstCtl,
      FirstEnd, Plain, NoCtx, NoFormat, NoConfig, Torn, medium, bounds
<1>0. 1 \in Chunks
  BY DEF Chunks
<1>1. CASE Check
  BY <1>1 DEF Check
<1>2. CASE DoRecovery
  BY <1>2 DEF DoRecovery, Fails
<1>3. ASSUME NEW p \in Places, ExecutePurgeCache(p) PROVE Held'
  BY <1>3 DEF ExecutePurgeCache, LogAtWork, ChangeModeAtomic, Fails
<1>4. ASSUME NEW c \in Chunks, NEW n \in 1..PURGES, ExecutePurgeChunk(c, n) PROVE Held'
  <2>1. mode = "ACTIVE" /\ UNCHANGED <<conf, newest, format>> /\ mode' # "FORMAT"
    BY <1>4 DEF ExecutePurgeChunk, LogAtWork, ChangeModeAtomic
  <2>2. ctl'[1].ccn \in {ctl[1].ccn, ctx.ccn}
    <3>1. PICK x \in Ctls(newest) : ctl' = [ctl EXCEPT ![c] = x] /\ x.ccn \in {ctl[c].ccn, ctx.ccn}
      BY <1>4, PurgeChunkEffect
    <3> QED BY <1>0, <3>1
  <2> QED BY <2>1, <2>2
<1>5. CASE DirectWrite
  BY <1>5 DEF DirectWrite
<1>6. CASE ReCheck
  BY <1>6 DEF ReCheck
<1>7. CASE Restart
  BY <1>7 DEF Restart
<1>8. CASE StartFormat
  BY <1>8 DEF StartFormat
<1>9. CASE ScanCtl
  <2>1. UNCHANGED <<conf, ctl, mode, newest>> /\ mode # "FORMAT" /\ format.at = "scan"
    BY <1>9 DEF ScanCtl
  <2>2. CASE format' = NoFormat
    BY <2>1, <2>2
  <2>3. CASE /\ format.next \in Chunks /\ format'.next = format.next + 1
             /\ format'.seen = format.seen \cup {ctl[format.next].ccn}
    <3>1. CASE format.next = 1
      BY <2>1, <2>3, <3>1
    <3>2. CASE format.next # 1
      BY <2>1, <2>3, <3>2 DEF Chunks
    <3> QED BY <3>1, <3>2
  <2> QED BY <1>9, <2>2, <2>3, ScanCtlEffect
<1>10. CASE SetFormatMode
  <2>1. /\ UNCHANGED <<conf, ctl>> /\ format.at = "scan" /\ format.next > 1 /\ mode # "FORMAT"
    BY <1>10 DEF SetFormatMode
  <2>2. CASE format' = NoFormat /\ UNCHANGED <<mode, newest>>
    BY <2>1, <2>2
  <2>3. CASE newest' = newest + 1 /\ format'.ccn \notin format.seen
    <3>1. conf.gen # newest' /\ (newest' = conf.gen + 1 => conf.gen = newest)
      BY <2>1, <2>3, NextGeneration
    <3> QED BY <2>1, <2>3, <3>1
  <2> QED BY <1>10, <2>2, <2>3, SetFormatModeEffect
<1>11. CASE FormatCtl
  <2>1. UNCHANGED <<conf, newest>> /\ mode = "FORMAT" /\ mode' \in {"FORMAT", "ERROR"}
    BY <1>11 DEF FormatCtl, GoesOn, GivesUp, ChangeModeAtomic
  <2>2. format'.ccn = format.ccn \/ mode' = "ERROR"
    BY <1>11, <2>1, GoesOnEffect DEF FormatCtl, GivesUp, ChangeModeAtomic
  <2> QED BY <2>1, <2>2
<1>12. CASE FormatPurge
  <2>1. UNCHANGED <<conf, ctl, newest>> /\ mode = "FORMAT" /\ mode' \in {"FORMAT", "ERROR"}
    BY <1>12 DEF FormatPurge, GoesOn, GivesUp, ChangeModeAtomic
  <2>2. format'.ccn = format.ccn \/ mode' = "ERROR"
    BY <1>12, <2>1, GoesOnEffect DEF FormatPurge, GivesUp, ChangeModeAtomic
  <2> QED BY <2>1, <2>2
<1>13. CASE FormatConf
  BY <1>13 DEF FormatConf, GivesUp, ChangeModeAtomic, Conf
<1>14. CASE ReadConf
  BY <1>14 DEF ReadConf
<1>15. CASE EditConf
  BY <1>15 DEF EditConf
<1>16. CASE WriteConf
  BY <1>16 DEF WriteConf, Fails
<1>17. CASE UNCHANGED vars
  BY <1>17 DEF vars
<1> QED
  BY <1>1, <1>2, <1>3, <1>4, <1>5, <1>6, <1>7, <1>8, <1>9, <1>10, <1>11, <1>12, <1>13, <1>14,
      <1>15, <1>16, <1>17
  DEF Next, LogStep, FormatStep, Configure

\* Recovery takes nothing of an earlier format, and of a later one only its first control.
LEMMA OwnControlsStep ==
  ASSUME ~FormatMeetsLog, ~ConfigMeetsFormat, Inv, Basis', [Next]_vars
  PROVE  OwnControlsOnly'
<1> USE Parameters DEF Inv, Basis, TypeOK, Alone, Settings, Fresh, FormatAts, FirstCtl, FirstEnd,
      OwnControlsOnly, AcceptsCtl, Plain, NoCtx, NoFormat, NoConfig, Torn, medium, bounds
<1>1. CASE Check
  BY <1>1 DEF Check
<1>2. CASE DoRecovery
  BY <1>2 DEF DoRecovery, Fails
<1>3. ASSUME NEW p \in Places, ExecutePurgeCache(p) PROVE OwnControlsOnly'
  BY <1>3 DEF ExecutePurgeCache, LogAtWork, ChangeModeAtomic, Fails
<1>4. ASSUME NEW c \in Chunks, NEW n \in 1..PURGES, ExecutePurgeChunk(c, n) PROVE OwnControlsOnly'
  <2>1. UNCHANGED <<conf, newest>> /\ ctx.gen = conf.gen
    BY <1>4 DEF ExecutePurgeChunk, LogAtWork
  <2>2. \A d \in Chunks : ctl'[d].valid => ctl'[d] = ctl[d] \/ ctl'[d].gen = conf.gen
    BY <1>4, <2>1, PurgeChunkKeeps
  <2> QED BY <2>1, <2>2
<1>5. CASE DirectWrite
  BY <1>5 DEF DirectWrite
<1>6. CASE ReCheck
  BY <1>6 DEF ReCheck
<1>7. CASE Restart
  BY <1>7 DEF Restart
<1>8. CASE StartFormat
  BY <1>8 DEF StartFormat
<1>9. CASE ScanCtl
  BY <1>9 DEF ScanCtl, Fails
<1>10. CASE SetFormatMode
  <2>1. UNCHANGED <<conf, ctl>> /\ newest' >= newest
    BY <1>10 DEF SetFormatMode
  <2> QED BY <2>1
<1>11. CASE FormatCtl
  <2>1. UNCHANGED <<conf, newest>> /\ mode = "FORMAT"
    BY <1>11 DEF FormatCtl
  <2>2. conf # Plain /\ format.ccn = conf.ccn => newest > conf.gen + 1
    BY <2>1, LaterThanRecord DEF Held
  <2>3. \A d \in Chunks : ctl'[d].valid => ctl'[d] = ctl[d] \/ (d = 1 /\ ctl'[d].ccn = format.ccn)
    BY <1>11, FormatCtlEffect
  <2> QED BY <2>1, <2>2, <2>3
<1>12. CASE FormatPurge
  BY <1>12 DEF FormatPurge, GoesOn, GivesUp, Fails, ChangeModeAtomic
<1>13. CASE FormatConf
  BY <1>13 DEF FormatConf, GivesUp, Fails, ChangeModeAtomic, Conf
<1>14. CASE ReadConf
  BY <1>14 DEF ReadConf
<1>15. CASE EditConf
  BY <1>15 DEF EditConf
<1>16. CASE WriteConf
  BY <1>16 DEF WriteConf, Fails
<1>17. CASE UNCHANGED vars
  BY <1>17 DEF vars
<1> QED
  BY <1>1, <1>2, <1>3, <1>4, <1>5, <1>6, <1>7, <1>8, <1>9, <1>10, <1>11, <1>12, <1>13, <1>14,
      <1>15, <1>16, <1>17
  DEF Next, LogStep, FormatStep, Configure

\* What recovery takes is of the format in sector 0, the first purge of a later one excepted.
LEMMA OwnDataStep ==
  ASSUME ~FormatMeetsLog, ~ConfigMeetsFormat, Inv, Basis', [Next]_vars
  PROVE  OwnDataOnly'
<1> USE Parameters DEF Inv, Basis, TypeOK, Alone, Settings, FormatAts, OwnDataOnly, AcceptsCtl,
      AcceptsPurge, Mapped, PlacesOf, Plain, NoCtx, NoFormat, NoConfig, Torn, medium, bounds
<1>0. \A p \in Places : p[1] \in Chunks
  BY DEF Places
<1>1. CASE Check
  BY <1>1 DEF Check
<1>2. CASE DoRecovery
  BY <1>2 DEF DoRecovery, Fails
<1>3. ASSUME NEW p \in Places, ExecutePurgeCache(p) PROVE OwnDataOnly'
  <2>1. UNCHANGED <<conf, ctl, newest>> /\ ctx.gen = conf.gen
    BY <1>3 DEF ExecutePurgeCache, LogAtWork
  <2>2. \A q \in Places : purge'[q] = purge[q] \/ purge'[q].data = conf.gen
    BY <1>3, <2>1, PurgeCacheEffect
  <2> QED BY <2>1, <2>2
<1>4. ASSUME NEW c \in Chunks, NEW n \in 1..PURGES, ExecutePurgeChunk(c, n) PROVE OwnDataOnly'
  <2>1. UNCHANGED <<conf, purge, newest>> /\ LogIsAt(c, n)
    BY <1>4 DEF ExecutePurgeChunk
  <2>2. \A d \in Chunks : ctl'[d].valid => ctl'[d] = ctl[d] \/ (d = c /\ ctl'[d].end = n)
    BY <1>4, PurgeChunkKeeps
  <2>3. ASSUME NEW p \in Places, conf # Plain, AcceptsCtl(p[1])', p \in Mapped(p[1])'
        PROVE  AcceptsPurge(p) \/ (AcceptsCtl(p[1]) /\ p \in Mapped(p[1]))
    <3>1. CASE ctl'[p[1]] = ctl[p[1]]
      BY <2>1, <2>3, <3>1
    <3>2. CASE p[1] = c /\ ctl'[c].end = n
      BY <2>1, <2>3, <3>2 DEF LogIsAt
    <3> QED BY <1>0, <2>2, <2>3, <3>1, <3>2
  <2> QED BY <2>1, <2>3
<1>5. CASE DirectWrite
  BY <1>5 DEF DirectWrite
<1>6. CASE ReCheck
  BY <1>6 DEF ReCheck
<1>7. CASE Restart
  BY <1>7 DEF Restart
<1>8. CASE StartFormat
  BY <1>8 DEF StartFormat
<1>9. CASE ScanCtl
  BY <1>9 DEF ScanCtl, Fails
<1>10. CASE SetFormatMode
  <2>1. UNCHANGED <<conf, ctl, purge>> /\ newest' >= newest
    BY <1>10 DEF SetFormatMode
  <2> QED BY <2>1
<1>11. CASE FormatCtl
  <2>1. UNCHANGED <<conf, purge, newest>> /\ mode = "FORMAT"
    BY <1>11 DEF FormatCtl
  <2>2. newest > conf.gen
    BY <2>1, LaterThanRecord
  <2>3. \A d \in Chunks : ctl'[d].valid => ctl'[d] = ctl[d] \/ (d = 1 /\ ctl'[d].end \in {0, 1})
    BY <1>11, FormatCtlEffect DEF FirstCtl, FirstEnd
  <2>4. ASSUME NEW p \in Places, AcceptsCtl(p[1])', p \in Mapped(p[1])', p # <<1, 0>>
        PROVE  AcceptsCtl(p[1]) /\ p \in Mapped(p[1])
    <3>1. ~(p[1] = 1 /\ ctl'[p[1]].end \in {0, 1})
      BY <2>4 DEF Places
    <3>2. ctl'[p[1]] = ctl[p[1]]
      BY <1>0, <2>3, <2>4, <3>1
    <3> QED BY <2>1, <2>4, <3>2
  <2> QED BY <2>1, <2>2, <2>4
<1>12. CASE FormatPurge
  <2>1. UNCHANGED <<conf, ctl, newest>> /\ mode = "FORMAT"
    BY <1>12 DEF FormatPurge
  <2>2. newest > conf.gen
    BY <2>1, LaterThanRecord
  <2>3. \A q \in Places \ {<<1, 0>>} : purge'[q] = purge[q]
    BY <1>12, FormatPurgeEffect
  <2> QED BY <2>1, <2>2, <2>3
<1>13. CASE FormatConf
  <2>1. UNCHANGED <<ctl, purge, newest>> /\ (~format.map \/ conf' = conf => conf' \in {conf, Plain})
    BY <1>13 DEF FormatConf
  <2>2. CASE conf' \in {conf, Plain}
    BY <2>1, <2>2
  <2>3. CASE format.map /\ conf' = Conf(format.gen, format.ccn)
    <3>1. conf'.gen = newest /\ FreshlyFormatted'
      BY <1>13, <2>1, <2>3, RecordArrives
    <3>2. \A p \in Mapped(1) : purge[p] = Purge(newest, format.ccn)
      BY <1>13, <2>3 DEF FreshData, FormatConf
    <3>3. Mapped(1)' = Mapped(1)
      BY <2>1
    <3> HIDE DEF Mapped, AcceptsCtl, AcceptsPurge
    <3>4. \A p \in Places : AcceptsPurge(p)' => p \in Mapped(1)'
      BY <3>1 DEF FreshlyFormatted
    <3>5. \A p \in Places : AcceptsCtl(p[1])' => p[1] = 1
      BY <1>0, <3>1 DEF FreshlyFormatted
    <3>6. ASSUME NEW p \in Places, AcceptsPurge(p)' \/ (AcceptsCtl(p[1])' /\ p \in Mapped(p[1])')
          PROVE  purge'[p].data = conf'.gen
      <4>1. p \in Mapped(1)
        BY <3>3, <3>4, <3>5, <3>6
      <4> QED BY <2>1, <3>1, <3>2, <4>1 DEF Purge
    <3> QED BY <3>6
  <2> QED BY <1>13, <2>2, <2>3 DEF FormatConf
<1>14. CASE ReadConf
  BY <1>14 DEF ReadConf
<1>15. CASE EditConf
  BY <1>15 DEF EditConf
<1>16. CASE WriteConf
  BY <1>16 DEF WriteConf, Fails
<1>17. CASE UNCHANGED vars
  BY <1>17 DEF vars
<1> QED
  BY <1>1, <1>2, <1>3, <1>4, <1>5, <1>6, <1>7, <1>8, <1>9, <1>10, <1>11, <1>12, <1>13, <1>14,
      <1>15, <1>16, <1>17
  DEF Next, LogStep, FormatStep, Configure

\* A completed format leaves its own controls only.
LEMMA ErasesStep ==
  ASSUME ~FormatMeetsLog, ~ConfigMeetsFormat, Inv, Basis', [Next]_vars
  PROVE  FormatErases'
<1> USE Parameters DEF Inv, Basis, TypeOK, Alone, Settings, FormatAts, FormatErases, FreshlyFormatted,
      AcceptsCtl, AcceptsPurge, Mapped, PlacesOf, Places,
      Plain, NoCtx, NoFormat, NoConfig, Torn, medium, bounds
<1>1. CASE Check
  BY <1>1 DEF Check
<1>2. CASE DoRecovery
  BY <1>2 DEF DoRecovery, Fails
<1>3. ASSUME NEW p \in Places, ExecutePurgeCache(p) PROVE FormatErases'
  BY <1>3 DEF ExecutePurgeCache, LogAtWork, ChangeModeAtomic, Fails
<1>4. ASSUME NEW c \in Chunks, NEW n \in 1..PURGES, ExecutePurgeChunk(c, n) PROVE FormatErases'
  BY <1>4 DEF ExecutePurgeChunk, LogAtWork, ChangeModeAtomic, Fails
<1>5. CASE DirectWrite
  BY <1>5 DEF DirectWrite
<1>6. CASE ReCheck
  BY <1>6 DEF ReCheck
<1>7. CASE Restart
  BY <1>7 DEF Restart
<1>8. CASE StartFormat
  BY <1>8 DEF StartFormat
<1>9. CASE ScanCtl
  BY <1>9 DEF ScanCtl, Fails
<1>10. CASE SetFormatMode
  BY <1>10 DEF SetFormatMode
<1>11. CASE FormatCtl
  BY <1>11 DEF FormatCtl, GoesOn, GivesUp, Fails, ChangeModeAtomic
<1>12. CASE FormatPurge
  BY <1>12 DEF FormatPurge, GoesOn, GivesUp, Fails, ChangeModeAtomic
<1>13. CASE FormatConf
  <2>1. CASE mode' # "COMPLETED"
    BY <2>1
  <2>2. CASE ~format.map /\ conf' = Plain
    BY <2>2
  <2>3. CASE format.map /\ conf' = Conf(format.gen, format.ccn)
    BY <1>13, <2>3, RecordArrives
  <2> QED BY <1>13, <2>1, <2>2, <2>3 DEF FormatConf, GivesUp, ChangeModeAtomic
<1>14. CASE ReadConf
  BY <1>14 DEF ReadConf
<1>15. CASE EditConf
  BY <1>15 DEF EditConf
<1>16. CASE WriteConf
  BY <1>16 DEF WriteConf, Fails
<1>17. CASE UNCHANGED vars
  BY <1>17 DEF vars
<1> QED
  BY <1>1, <1>2, <1>3, <1>4, <1>5, <1>6, <1>7, <1>8, <1>9, <1>10, <1>11, <1>12, <1>13, <1>14,
      <1>15, <1>16, <1>17
  DEF Next, LogStep, FormatStep, Configure

-----------------------------------------------------------------------------
(* The theorems *)

Serial == ~FormatMeetsLog /\ ~ConfigMeetsFormat

\* The invariant is kept by every step.
LEMMA InvStep == Serial /\ Inv /\ [Next]_vars => Inv'
<1> SUFFICES ASSUME Serial, Inv, [Next]_vars PROVE Inv'
  OBVIOUS
<1>1. ~FormatMeetsLog /\ ~ConfigMeetsFormat /\ Basis
  BY DEF Serial, Inv
<1>2. TypeOK'
  BY <1>1, TypeStep
<1>3. Alone' /\ Scanned'
  BY <1>1, <1>2, AloneStep, ScannedStep
<1>4. Settings'
  BY <1>1, <1>2, <1>3, SettingsStep
<1>5. Basis'
  BY <1>2, <1>3, <1>4 DEF Basis
<1> QED BY <1>1, <1>5, FreshStep, FreshDataStep, HeldStep, OwnControlsStep, OwnDataStep, ErasesStep
  DEF Inv

\* The invariant holds in every reachable state of a serialized machine.
LEMMA AlwaysInv == Serial /\ Spec => []Inv
<1> SUFFICES ASSUME Serial PROVE Spec => []Inv
  OBVIOUS
<1>1. Init => Inv
  BY InitInv
<1>2. Inv /\ [Next]_vars => Inv'
  BY InvStep
<1> QED BY <1>1, <1>2, PTL DEF Spec

\* The variables have their types, the locals of a format at work included.
THEOREM TypeCorrect == Serial /\ Spec => []TypeOK
BY AlwaysInv, PTL DEF Inv, Basis

\* The number GetNewCCN finds keeps what an earlier format has left on the medium apart from
\* the new one: recovery (recovery.c:105) takes no chunk control of it.  Of a later, interrupted
\* format it takes the first control at most, and only when it is not the first interrupted one.
THEOREM OwnControls == Serial /\ Spec => []OwnControlsOnly
BY AlwaysInv, PTL DEF Inv

\* The control of chunk 1 is rewritten before the data it maps (config.c:178, 204), so what
\* recovery takes is data of the format in sector 0, however formats are interrupted; but the
\* first purge may be that of a later one, once this one has begun.
THEOREM OwnData == Serial /\ Spec => []OwnDataOnly
BY AlwaysInv, PTL DEF Inv

\* After a format that reports success recovery finds the controls this format wrote, and
\* no other, whatever was on the medium.
THEOREM Erases == Serial /\ Spec => []FormatErases
BY AlwaysInv, PTL DEF Inv

\* A new record gets into sector 0 only when all the rest of its format is on the medium.
THEOREM RecordLast == Serial /\ Spec => RecordComesLast
<1> DEFINE Arrives == conf'.gen \notin {0, conf.gen} => FreshlyFormatted'
<1>1. ASSUME Inv, [Next]_vars PROVE Arrives
  <2>1. CASE FormatConf
    <3>1. conf' \in {conf, Plain} \/ (format.map /\ conf' = Conf(format.gen, format.ccn))
      BY <2>1 DEF FormatConf
    <3> QED BY <1>1, <2>1, <3>1, RecordArrives DEF Plain
  <2>2. CASE WriteConf
    <3>1. config # NoConfig /\ config.copy.gen = conf.gen
      BY <1>1, <2>2 DEF WriteConf, Inv, Basis, Settings, NoConfig
    <3> QED BY <2>2, <3>1 DEF WriteConf
  <2>3. CASE ~(FormatConf \/ WriteConf)
    <3>1. UNCHANGED conf
      BY <1>1, <2>3, Zenon DEF Next, LogStep, FormatStep, Configure, Check, DoRecovery, ExecutePurgeCache,
         ExecutePurgeChunk, DirectWrite, ReCheck, Restart, StartFormat, ScanCtl, SetFormatMode,
         FormatCtl, FormatPurge, ReadConf, EditConf, vars, medium
    <3> QED BY <3>1
  <2> QED BY <2>1, <2>2, <2>3
<1> HIDE DEF Arrives
<1>2. Serial /\ Spec => [][Arrives]_vars
  BY <1>1, AlwaysInv, PTL DEF Spec
<1> QED BY <1>2 DEF Arrives, RecordComesLast

\* The log works with the settings that are on the medium, except after a write of sector 0
\* that failed behind a change of them.
THEOREM SettingsKept == Serial /\ Spec => SameSettings /\ SettingsAgree
<1> DEFINE Agrees == SameSettings => (SameSettings' \/ (config.at = "write" /\ Fails))
<1>1. Init => SameSettings
  BY DEF Init, SameSettings
<1>2. ASSUME Inv, [Next]_vars PROVE Agrees
  <2> USE <1>2 DEF Inv, Basis, TypeOK, Alone, Settings, SameSettings, Plain, NoCtx, NoFormat,
        NoConfig, medium, bounds
  <2>1. CASE Check
    BY <2>1 DEF Check
  <2>2. CASE DoRecovery
    BY <2>2 DEF DoRecovery, Fails
  <2>3. ASSUME NEW p \in Places, ExecutePurgeCache(p) PROVE Agrees
    BY <2>3 DEF ExecutePurgeCache, ChangeModeAtomic
  <2>4. ASSUME NEW c \in Chunks, NEW n \in 1..PURGES, ExecutePurgeChunk(c, n) PROVE Agrees
    BY <2>4 DEF ExecutePurgeChunk, ChangeModeAtomic
  <2>5. CASE DirectWrite
    BY <2>5 DEF DirectWrite
  <2>6. CASE ReCheck
    BY <2>6 DEF ReCheck
  <2>7. CASE Restart
    BY <2>7 DEF Restart
  <2>8. CASE StartFormat
    BY <2>8 DEF StartFormat
  <2>9. CASE ScanCtl
    BY <2>9 DEF ScanCtl, Fails
  <2>10. CASE SetFormatMode
    BY <2>10 DEF SetFormatMode
  <2>11. CASE FormatCtl
    BY <2>11 DEF FormatCtl, GoesOn, GivesUp, ChangeModeAtomic
  <2>12. CASE FormatPurge
    BY <2>12 DEF FormatPurge, GoesOn, GivesUp, ChangeModeAtomic
  <2>13. CASE FormatConf
    <3>1. mode = "FORMAT" /\ mode' \in {"COMPLETED", "ERROR"}
      BY <2>13 DEF FormatConf, GivesUp, ChangeModeAtomic, FormatAts
    <3> QED BY <3>1
  <2>14. CASE ReadConf
    BY <2>14 DEF ReadConf
  <2>15. CASE EditConf
    BY <2>15 DEF EditConf
  <2>16. CASE WriteConf
    BY <2>16 DEF WriteConf
  <2>17. CASE UNCHANGED vars
    BY <2>17 DEF vars
  <2> QED
    BY <2>1, <2>2, <2>3, <2>4, <2>5, <2>6, <2>7, <2>8, <2>9, <2>10, <2>11, <2>12, <2>13, <2>14,
        <2>15, <2>16, <2>17
    DEF Next, LogStep, FormatStep, Configure
<1> HIDE DEF Agrees
<1>3. Serial /\ Spec => [][Agrees]_vars
  BY <1>2, AlwaysInv, PTL DEF Spec
<1>4. Serial /\ Spec => SameSettings
  BY <1>1 DEF Spec
<1> QED BY <1>3, <1>4 DEF Agrees, SettingsAgree

-----------------------------------------------------------------------------
(* Why a format ends, also where it meets the log and configurations *)

\* In format mode there is a thread that formats, and it has passed the scan.
UnderWay == mode = "FORMAT" => format.at \in FormatAts

\* What is left of a format.
WritesLeft(at) == IF at = "ctl" THEN 3 ELSE IF at = "purge" THEN 2 ELSE 1

Shape == "at" \in DOMAIN format

\* The thread has its locals.
LEMMA ShapeStep == Shape /\ [Next]_vars => Shape'
<1> SUFFICES ASSUME Shape, [Next]_vars PROVE Shape'
  OBVIOUS
<1>1. CASE FormatCtl \/ FormatPurge \/ FormatConf \/ ScanCtl \/ SetFormatMode
  <2>1. DOMAIN NoFormat = {"at", "map", "next", "seen", "ccn", "gen"}
    BY DEF NoFormat
  <2>2. format' = NoFormat \/ DOMAIN format' = DOMAIN format
    BY <1>1 DEF FormatCtl, FormatPurge, FormatConf, ScanCtl, SetFormatMode, GoesOn, GivesUp
  <2> QED BY <2>1, <2>2 DEF Shape
<1>2. CASE StartFormat \/ Restart
  BY <1>2 DEF StartFormat, Restart, NoFormat, Shape
<1>3. CASE Check \/ DoRecovery \/ LogStep \/ DirectWrite \/ ReCheck \/ Configure \/ UNCHANGED vars
  BY <1>3 DEF Check, DoRecovery, LogStep, ExecutePurgeCache, ExecutePurgeChunk, DirectWrite, ReCheck,
     Configure, ReadConf, EditConf, WriteConf, vars, Shape
<1> QED BY <1>1, <1>2, <1>3 DEF Next, FormatStep

\* In format mode only the writes of the format, and a restart, do anything to it.
LEMMA UnderWayStep ==
  ASSUME Shape, UnderWay, [Next]_vars
  PROVE  /\ UnderWay'
         /\ mode = "FORMAT" /\ mode' = "FORMAT" =>
              format' = format \/ WritesLeft(format'.at) < WritesLeft(format.at)
<1>1. CASE FormatCtl \/ FormatPurge \/ FormatConf
  <2>1. CASE GivesUp \/ (FormatConf /\ ChangeModeAtomic("FORMAT", "COMPLETED"))
    <3>1. mode' # "FORMAT" /\ format' = NoFormat /\ format.at # "none"
      BY <1>1, <2>1 DEF GivesUp, ChangeModeAtomic, FormatCtl, FormatPurge, FormatConf
    <3> QED BY <3>1 DEF UnderWay, NoFormat
  <2>2. ASSUME NEW at \in {"purge", "conf"}, GoesOn(at), FormatCtl \/ (FormatPurge /\ at = "conf")
        PROVE  /\ format'.at = at /\ at # format.at /\ mode' = mode
               /\ WritesLeft(at) < WritesLeft(format.at)
    <3>1. format'.at = at /\ mode' = mode
      BY <2>2 DEF GoesOn, Shape
    <3>2. format.at = "ctl" \/ (format.at = "purge" /\ at = "conf")
      BY <2>2 DEF FormatCtl, FormatPurge
    <3> QED BY <3>1, <3>2 DEF WritesLeft
  <2>3. GivesUp \/ (FormatConf /\ ChangeModeAtomic("FORMAT", "COMPLETED"))
        \/ \E at \in {"purge", "conf"} : GoesOn(at) /\ (FormatCtl \/ (FormatPurge /\ at = "conf"))
    BY <1>1 DEF FormatCtl, FormatPurge, FormatConf
  <2> QED BY <2>1, <2>2, <2>3 DEF UnderWay, FormatAts
<1>2. CASE ScanCtl \/ StartFormat
  <2>1. mode # "FORMAT" /\ mode' = mode
    BY <1>2 DEF ScanCtl, StartFormat, UnderWay, FormatAts, NoFormat
  <2> QED BY <2>1 DEF UnderWay
<1>3. CASE SetFormatMode
  <2>1. mode # "FORMAT" /\ (mode' = "FORMAT" => format'.at \in FormatAts)
    BY <1>3 DEF SetFormatMode, UnderWay, FormatAts, Shape
  <2> QED BY <2>1 DEF UnderWay
<1>4. CASE Restart
  BY <1>4 DEF Restart, UnderWay, FormatStep, ScanCtl, SetFormatMode, FormatCtl, FormatPurge, FormatConf,
     GoesOn, GivesUp, ChangeModeAtomic
<1>5. CASE Check \/ DoRecovery \/ LogStep \/ DirectWrite \/ ReCheck \/ Configure \/ UNCHANGED vars
  <2>1. UNCHANGED format /\ (mode' = "FORMAT" => mode = "FORMAT")
    BY <1>5 DEF Check, DoRecovery, LogStep, ExecutePurgeCache, ExecutePurgeChunk, ChangeModeAtomic,
       DirectWrite, ReCheck, Configure, ReadConf, EditConf, WriteConf, vars
  <2> QED BY <2>1 DEF UnderWay
<1> QED BY <1>1, <1>2, <1>3, <1>4, <1>5 DEF Next, FormatStep

\* No medium is left in format mode: there a format is under way, and each of its writes
\* leads on to the next one or leaves the mode (SetLevelingConfig, config.c:166-260).  A thread
\* that gave up without taking the mode back would leave the disk out of use for good.
THEOREM FormatGoesOn ==
  Spec => /\ []UnderWay
          /\ [][mode = "FORMAT" /\ mode' = "FORMAT" =>
                  format' = format \/ WritesLeft(format'.at) < WritesLeft(format.at)]_vars
<1>1. Init => Shape /\ UnderWay
  BY DEF Init, Shape, UnderWay, NoFormat
<1> DEFINE Leads == mode = "FORMAT" /\ mode' = "FORMAT" =>
                      format' = format \/ WritesLeft(format'.at) < WritesLeft(format.at)
<1>2. Shape /\ UnderWay /\ [Next]_vars => Shape' /\ UnderWay' /\ [Leads]_vars
  BY ShapeStep, UnderWayStep
<1> HIDE DEF Leads
<1>3. Spec => []UnderWay /\ [][Leads]_vars
  BY <1>1, <1>2, PTL DEF Spec
<1> QED BY <1>3 DEF Leads
=============================================================================
