---------------------------- MODULE LogMapProofs ----------------------------
(***************************************************************************)
(* The map of ChunkLog and what the medium holds of it: recovery finds the *)
(* map that the purges and the chunk controls left, relocation keeps pace  *)
(* with the purges, and no purge overwrites a live block.  For every       *)
(* geometry with room for all blocks in all but one of the chunks.         *)
(***************************************************************************)
EXTENDS ChunkLogProofs, FunctionTheorems

-----------------------------------------------------------------------------
(* A log: chunk controls ctl, the current chunk cur with number s, and its *)
(* LBA table t up to position x.                                           *)

\* All blocks fit in all chunks but one, and in one purge less than these have.
Capacity == SIZE_OF_MAP <= (MAX_CHUNKS - 1) * ((PURGES - 1) * LastCachePos)

Maps == [Blocks -> Places \cup {NotMapped}]

\* The control of chunk c names block b at position p.
Named(ctl, c, p, b) ==
  ctl[c] # Torn /\ ctl[c].start <= p /\ p < ctl[c].end /\ ctl[c].lba[p] = b

\* The log names block b at position p of chunk c.
Says(ctl, cur, t, x, c, p, b) ==
  IF c = cur THEN FirstPos(cur) <= p /\ p < x /\ t[p] = b ELSE Named(ctl, c, p, b)

Age(ctl, cur, s, c) == IF c = cur THEN s ELSE ctl[c].scn

\* The map m shows for every block the last place that the log names.
Agrees(m, ctl, cur, s, t, x) ==
  \A b \in Blocks :
    /\ m[b] # NotMapped => Says(ctl, cur, t, x, m[b][1], m[b][2], b)
    /\ \A c \in Chunks, p \in Positions : Says(ctl, cur, t, x, c, p, b) =>
         /\ m[b] # NotMapped
         /\ IF m[b][1] = c THEN p <= m[b][2]
                           ELSE Age(ctl, cur, s, c) < Age(ctl, cur, s, m[b][1])

\* A control left from an earlier use of the chunk names no block that a younger control
\* does not name too: the blocks have been relocated.
OldControl(ctl, cur, s) ==
  ctl[cur] # Torn /\ ctl[cur].scn < s =>
    \A b \in Blocks, p \in Positions : Named(ctl, cur, p, b) =>
      \E c \in Chunks \ {cur}, q \in Positions :
        Named(ctl, c, q, b) /\ ctl[c].scn > ctl[cur].scn

\* A control already written for this use of the chunk agrees with its table.
OwnControl(ctl, cur, s, t, x) ==
  ctl[cur] # Torn /\ ctl[cur].scn = s =>
    /\ ctl[cur].end <= x
    /\ \A p \in Positions : ctl[cur].start <= p /\ p < ctl[cur].end => ctl[cur].lba[p] = t[p]

\* The purges of the current chunk up to x are on the medium, those beyond it are older.
PurgesFollow(pc, cur, s, t, x) ==
  \A q \in PurgeEnds : FirstPos(cur) <= q /\ q < x =>
    /\ pc[<<cur, q>>] # Torn /\ pc[<<cur, q>>].scn = s
    /\ \A i \in 0..LastCachePos : pc[<<cur, q>>].lba[i] = t[q + i]

PurgesOlder(pc, cur, s, x) ==
  \A l \in PurgePlaces :
    pc[l] # Torn => pc[l].scn < s \/ (pc[l].scn = s /\ l[1] = cur /\ l[2] < x)

Log(m, ctl, pc, cur, s, t, x) ==
  /\ FirstPos(cur) <= x
  /\ Agrees(m, ctl, cur, s, t, x)
  /\ OldControl(ctl, cur, s) /\ OwnControl(ctl, cur, s, t, x)
  /\ PurgesFollow(pc, cur, s, t, x)

\* The blocks mapped into chunk n, and whether u of them can be relocated behind pos.
In(m, n) == {b \in Blocks : m[b] # NotMapped /\ m[b][1] = n}
Fits(u, pos) == u * CacheSize <= (LastPurgePos - pos) * LastCachePos
RoomFor(m, cur, x) == \E n \in Chunks \ {cur} : Fits(Cardinality(In(m, n)), x)

\* A map after the positions P of chunk c, with table lba, have been entered.
Moved(m, lba, P, c) ==
  [b \in Blocks |-> IF NamedAt(lba, P, b) # {} THEN <<c, LatestAt(lba, P, b)>> ELSE m[b]]

-----------------------------------------------------------------------------
(* The map of a log *)

\* LatestAt is the last position with the name.
LEMMA LatestNames ==
  ASSUME NEW lba, NEW P \in SUBSET Positions, NEW b, NamedAt(lba, P, b) # {}
  PROVE  /\ LatestAt(lba, P, b) \in P /\ lba[LatestAt(lba, P, b)] = b
         /\ \A p \in P : lba[p] = b => p <= LatestAt(lba, P, b)
<1>1. NamedAt(lba, P, b) \subseteq 0..LastPurgePos
  <2>1. Positions \subseteq 0..LastPurgePos
    BY Sizes DEF Positions
  <2> QED BY <2>1 DEF NamedAt
<1>2. \E p \in NamedAt(lba, P, b) : \A q \in NamedAt(lba, P, b) : q <= p
  BY <1>1, Sizes, GreatestBelow
<1>3. /\ LatestAt(lba, P, b) \in NamedAt(lba, P, b)
      /\ \A q \in NamedAt(lba, P, b) : q <= LatestAt(lba, P, b)
  BY <1>2 DEF LatestAt
<1> QED BY <1>3 DEF NamedAt

\* A log has one map only.
LEMMA MapUnique ==
  ASSUME NEW m \in Maps, NEW n \in Maps, NEW ctl, NEW cur \in Chunks, NEW s \in Nat,
         NEW t, NEW u, NEW x \in Nat,
         \A c \in Chunks : ctl[c] # Torn => ctl[c].scn \in Nat,
         Agrees(m, ctl, cur, s, t, x), Agrees(n, ctl, cur, s, u, x),
         \A p \in Positions : FirstPos(cur) <= p /\ p < x => t[p] = u[p]
  PROVE  m = n
<1>1. \A b \in Blocks : m[b] # NotMapped => m[b] = <<m[b][1], m[b][2]>>
                          /\ m[b][1] \in Chunks /\ m[b][2] \in Positions
  BY DEF Maps, Places
<1>2. \A b \in Blocks : n[b] # NotMapped => n[b] = <<n[b][1], n[b][2]>>
                          /\ n[b][1] \in Chunks /\ n[b][2] \in Positions
  BY DEF Maps, Places
<1>3. \A c \in Chunks, p \in Positions, b \in Blocks :
        /\ Says(ctl, cur, t, x, c, p, b) <=> Says(ctl, cur, u, x, c, p, b)
        /\ Says(ctl, cur, t, x, c, p, b) => Age(ctl, cur, s, c) \in Nat
  BY DEF Says, Age, Named
<1>4. ASSUME NEW b \in Blocks PROVE m[b] = n[b]
  <2>1. m[b] # NotMapped => n[b] # NotMapped
          /\ IF n[b][1] = m[b][1] THEN m[b][2] <= n[b][2]
                                  ELSE Age(ctl, cur, s, m[b][1]) < Age(ctl, cur, s, n[b][1])
    BY <1>1, <1>3 DEF Agrees
  <2>2. n[b] # NotMapped => m[b] # NotMapped
          /\ IF m[b][1] = n[b][1] THEN n[b][2] <= m[b][2]
                                  ELSE Age(ctl, cur, s, n[b][1]) < Age(ctl, cur, s, m[b][1])
    BY <1>2, <1>3 DEF Agrees
  <2>3. m[b] # NotMapped => Age(ctl, cur, s, m[b][1]) \in Nat
    BY <1>1, <1>3 DEF Agrees
  <2>4. n[b] # NotMapped => Age(ctl, cur, s, n[b][1]) \in Nat
    BY <1>2, <1>3 DEF Agrees
  <2>5. CASE m[b] # NotMapped
    <3>1. n[b][1] = m[b][1]
      BY <2>1, <2>2, <2>3, <2>4, <2>5
    <3>2. n[b][2] = m[b][2]
      BY <1>1, <1>2, <2>1, <2>2, <2>5, <3>1 DEF Positions
    <3> QED BY <1>1, <1>2, <2>1, <2>5, <3>1, <3>2
  <2> QED BY <2>2, <2>5
<1> QED BY <1>4 DEF Maps

\* A purge behind x moves the blocks it names there.
LEMMA PurgeAgrees ==
  ASSUME NEW m \in Maps, NEW ctl, NEW cur \in Chunks, NEW s \in Nat, NEW t, NEW u,
         NEW x \in PurgeEnds, x # LastPurgePos, FirstPos(cur) <= x,
         \A c \in Chunks \ {cur} : ctl[c] # Torn => ctl[c].scn \in Nat /\ ctl[c].scn < s,
         Agrees(m, ctl, cur, s, t, x),
         NEW lba, NEW P \in SUBSET (x..(x + LastCachePos)),
         \A p \in x..(x + LastCachePos) : u[p] = lba[p] /\ (p \notin P => lba[p] \notin Blocks),
         \A p \in Positions : p < x => u[p] = t[p]
  PROVE  /\ Moved(m, lba, P, cur) \in Maps
         /\ Agrees(Moved(m, lba, P, cur), ctl, cur, s, u, x + CacheSize)
<1> DEFINE n == Moved(m, lba, P, cur)
<1>1. P \subseteq Positions /\ x..(x + LastCachePos) \subseteq Positions
  BY PurgeFits
<1>2. \A b \in Blocks : NamedAt(lba, P, b) # {} =>
        /\ n[b] = <<cur, LatestAt(lba, P, b)>>
        /\ LatestAt(lba, P, b) \in P /\ lba[LatestAt(lba, P, b)] = b
        /\ \A p \in P : lba[p] = b => p <= LatestAt(lba, P, b)
  BY <1>1, LatestNames DEF Moved
<1>3. \A b \in Blocks : NamedAt(lba, P, b) = {} => n[b] = m[b] /\ \A p \in P : lba[p] # b
  BY DEF Moved, NamedAt
<1>4. n \in Maps
  BY <1>1, <1>2 DEF Maps, Places, Moved
<1>5. \A b \in Blocks : m[b] # NotMapped => m[b][1] \in Chunks /\ m[b][2] \in Positions
  BY DEF Maps, Places
<1>6. x \in Nat /\ CacheSize = LastCachePos + 1 /\ LastCachePos \in Nat /\ FirstPos(cur) \in Nat
  BY Sizes, SmallNumbers
<1> HIDE DEF n
<1>7. ASSUME NEW b \in Blocks, n[b] # NotMapped
      PROVE  Says(ctl, cur, u, x + CacheSize, n[b][1], n[b][2], b)
  <2>1. CASE NamedAt(lba, P, b) # {}
    <3>1. n[b][1] = cur /\ n[b][2] \in P /\ lba[n[b][2]] = b
      BY <1>2, <2>1
    <3>2. n[b][2] \in x..(x + LastCachePos) /\ n[b][2] \in Nat
      <4>1. n[b][2] \in x..(x + LastCachePos)
        BY <3>1
      <4> QED BY <1>6, <4>1
    <3>3. u[n[b][2]] = b
      BY <3>1, <3>2
    <3> QED BY <1>6, <3>1, <3>2, <3>3 DEF Says
  <2>2. CASE NamedAt(lba, P, b) = {}
    <3>1. Says(ctl, cur, t, x, m[b][1], m[b][2], b) /\ n[b] = m[b]
          /\ m[b][2] \in Positions
      BY <1>3, <1>5, <1>7, <2>2 DEF Agrees
    <3> QED BY <1>6, <3>1 DEF Says, Positions
  <2> QED BY <2>1, <2>2
<1>8. ASSUME NEW b \in Blocks, NEW c \in Chunks, NEW p \in Positions,
             Says(ctl, cur, u, x + CacheSize, c, p, b)
      PROVE  /\ n[b] # NotMapped
             /\ IF n[b][1] = c THEN p <= n[b][2]
                               ELSE Age(ctl, cur, s, c) < Age(ctl, cur, s, n[b][1])
  <2>0. p \in Nat
    BY DEF Positions
  <2>1. CASE NamedAt(lba, P, b) # {}
    <3>1. /\ n[b] # NotMapped /\ n[b][1] = cur /\ n[b][2] \in P /\ n[b][2] \in Nat
          /\ \A q \in P : lba[q] = b => q <= n[b][2]
      <4>1. n[b][1] = cur /\ n[b][2] \in P /\ \A q \in P : lba[q] = b => q <= n[b][2]
        BY <1>2, <2>1
      <4>2. n[b][2] \in Positions /\ n[b] = <<cur, n[b][2]>>
        BY <1>1, <1>2, <2>1
      <4>3. n[b] \in Places
        BY <4>2 DEF Places
      <4> QED BY <4>1, <4>2, <4>3, Parameters DEF Positions
    <3>2. CASE c = cur /\ p \in x..(x + LastCachePos)
      BY <1>8, <3>1, <3>2 DEF Says
    <3>3. CASE c = cur /\ p < x
      BY <1>6, <2>0, <3>1, <3>3
    <3>4. CASE c # cur
      BY <1>8, <3>1, <3>4 DEF Says, Named, Age
    <3> QED BY <1>6, <1>8, <2>0, <3>2, <3>3, <3>4 DEF Says
  <2>2. CASE NamedAt(lba, P, b) = {}
    <3>1. Says(ctl, cur, t, x, c, p, b)
      <4>1. CASE c = cur
        <5>1. p < x
          BY <1>3, <1>6, <1>8, <2>0, <2>2, <4>1 DEF Says
        <5> QED BY <1>8, <4>1, <5>1 DEF Says
      <4> QED BY <1>8, <4>1 DEF Says
    <3> QED BY <1>3, <2>2, <3>1 DEF Agrees
  <2> QED BY <2>1, <2>2
<1>9. Agrees(n, ctl, cur, s, u, x + CacheSize)
  BY <1>7, <1>8 DEF Agrees
<1> QED BY <1>4, <1>9 DEF n

\* A full chunk whose control is on the medium is left for a chunk no block is mapped to.
LEMMA LogSucceeds ==
  ASSUME NEW m \in Maps, NEW ctl, NEW cur \in Chunks, NEW next \in Chunks, next # cur,
         NEW s \in Nat, NEW t, NEW u,
         \A c \in Chunks : ctl[c] # Torn => ctl[c].scn \in Nat /\ (c # cur => ctl[c].scn < s),
         ctl[cur] # Torn, ctl[cur].scn = s, ctl[cur].start = FirstPos(cur),
         ctl[cur].end = LastPurgePos,
         Agrees(m, ctl, cur, s, t, LastPurgePos), OwnControl(ctl, cur, s, t, LastPurgePos),
         In(m, next) = {}
  PROVE  /\ Agrees(m, ctl, next, s + 1, u, FirstPos(next))
         /\ OldControl(ctl, next, s + 1) /\ OwnControl(ctl, next, s + 1, u, FirstPos(next))
<1>1. \A b \in Blocks : m[b] # NotMapped => m[b][1] \in Chunks \ {next} /\ m[b][2] \in Positions
  BY DEF Maps, Places, In
<1>2. FirstPos(next) \in Nat
  BY Sizes, SmallNumbers
<1>3. ASSUME NEW c \in Chunks \ {next}, NEW p \in Positions, NEW b \in Blocks
      PROVE  /\ Says(ctl, cur, t, LastPurgePos, c, p, b) <=> Named(ctl, c, p, b)
             /\ Says(ctl, next, u, FirstPos(next), c, p, b) <=> Named(ctl, c, p, b)
             /\ Named(ctl, c, p, b) => /\ Age(ctl, cur, s, c) = ctl[c].scn
                                       /\ Age(ctl, next, s + 1, c) = ctl[c].scn
                                       /\ ctl[c].scn \in Nat
  BY <1>3 DEF Says, Named, Age, OwnControl
<1>4. ASSUME NEW p \in Positions, NEW b \in Blocks
      PROVE  /\ ~Says(ctl, next, u, FirstPos(next), next, p, b)
             /\ Says(ctl, cur, t, LastPurgePos, next, p, b) <=> Named(ctl, next, p, b)
             /\ Age(ctl, cur, s, next) = ctl[next].scn
  BY <1>2 DEF Says, Age, Positions
<1>5. Agrees(m, ctl, next, s + 1, u, FirstPos(next))
  <2>1. ASSUME NEW b \in Blocks, m[b] # NotMapped
        PROVE  Says(ctl, next, u, FirstPos(next), m[b][1], m[b][2], b)
               /\ Named(ctl, m[b][1], m[b][2], b)
    <3>1. Says(ctl, cur, t, LastPurgePos, m[b][1], m[b][2], b)
      BY <2>1 DEF Agrees
    <3> QED BY <1>1, <1>3, <2>1, <3>1
  <2>2. ASSUME NEW b \in Blocks, NEW c \in Chunks, NEW p \in Positions,
               Says(ctl, next, u, FirstPos(next), c, p, b)
        PROVE  /\ m[b] # NotMapped
               /\ IF m[b][1] = c THEN p <= m[b][2]
                                 ELSE Age(ctl, next, s + 1, c) < Age(ctl, next, s + 1, m[b][1])
    <3>1. c # next
      BY <1>4, <2>2
    <3>2. Says(ctl, cur, t, LastPurgePos, c, p, b) /\ Named(ctl, c, p, b)
      BY <1>3, <2>2, <3>1
    <3>3. /\ m[b] # NotMapped
          /\ IF m[b][1] = c THEN p <= m[b][2]
                            ELSE Age(ctl, cur, s, c) < Age(ctl, cur, s, m[b][1])
      BY <3>2 DEF Agrees
    <3>4. Named(ctl, m[b][1], m[b][2], b)
      BY <2>1, <3>3
    <3> QED BY <1>1, <1>3, <3>1, <3>2, <3>3, <3>4
  <2> QED BY <2>1, <2>2 DEF Agrees
<1>6. OldControl(ctl, next, s + 1)
  <2>1. ASSUME NEW b \in Blocks, NEW p \in Positions, Named(ctl, next, p, b)
        PROVE  \E c \in Chunks \ {next}, q \in Positions :
                 Named(ctl, c, q, b) /\ ctl[c].scn > ctl[next].scn
    <3>1. /\ m[b] # NotMapped /\ m[b][1] \in Chunks \ {next} /\ m[b][2] \in Positions
          /\ Age(ctl, cur, s, next) < Age(ctl, cur, s, m[b][1])
          /\ Says(ctl, cur, t, LastPurgePos, m[b][1], m[b][2], b)
      BY <1>1, <1>4, <2>1 DEF Agrees
    <3>2. Named(ctl, m[b][1], m[b][2], b) /\ ctl[next].scn < ctl[m[b][1]].scn
          /\ ctl[m[b][1]].scn \in Nat /\ ctl[next].scn \in Nat
      BY <1>3, <1>4, <2>1, <3>1 DEF Named
    <3> QED BY <3>1, <3>2
  <2> QED BY <2>1 DEF OldControl
<1>7. OwnControl(ctl, next, s + 1, u, FirstPos(next))
  BY DEF OwnControl
<1> QED BY <1>5, <1>6, <1>7

\* UpdateMap for the newest chunk moves all blocks that are named.
LEMMA UpdateMoves ==
  ASSUME NEW lba, NEW P, NEW c, NEW scn, UpdateMap(lba, P, c, scn),
         \A b \in Blocks : Map[b] # NotMapped => scn[Map[b][1]] <= scn[c]
  PROVE  Map' = Moved(Map, lba, P, c)
BY DEF UpdateMap, MovedBy, Takes, Moved

\* What is left in another chunk after a move.
LEMMA MovedLeaves ==
  ASSUME NEW m \in Maps, NEW lba, NEW P \in SUBSET Positions, NEW c \in Chunks,
         NEW n \in Chunks, n # c
  PROVE  \A b \in Blocks :
           b \in In(Moved(m, lba, P, c), n) <=> b \in In(m, n) /\ NamedAt(lba, P, b) = {}
<1>1. ASSUME NEW b \in Blocks, NamedAt(lba, P, b) # {}
      PROVE  Moved(m, lba, P, c)[b] # NotMapped /\ Moved(m, lba, P, c)[b][1] = c
  <2>1. Moved(m, lba, P, c)[b] = <<c, LatestAt(lba, P, b)>>
    BY <1>1 DEF Moved
  <2>2. <<c, LatestAt(lba, P, b)>> \in Places
    BY <1>1, LatestNames DEF Places
  <2> QED BY <2>1, <2>2, Parameters
<1>2. ASSUME NEW b \in Blocks, NamedAt(lba, P, b) = {}
      PROVE  Moved(m, lba, P, c)[b] = m[b]
  BY <1>2 DEF Moved
<1> QED BY <1>1, <1>2 DEF In

-----------------------------------------------------------------------------
(* Room *)

\* Sets of blocks are finite.
LEMMA Counts ==
  ASSUME NEW S \in SUBSET Blocks
  PROVE  IsFiniteSet(S) /\ Cardinality(S) \in Nat
BY SmallNumbers, FS_Subset, FS_CardinalityType

\* If relocation keeps pace, and keeps up with one purge, what is left fits.
LEMMA PaceFits ==
  ASSUME NEW S \in Nat, NEW T \in Nat, T > 0, NEW u \in Nat, NEW pos \in Nat,
         pos <= LastPurgePos, S * (LastPurgePos - pos) >= T * u,
         S * CacheSize <= T * LastCachePos
  PROVE  Fits(u, pos)
<1> DEFINE R == LastPurgePos - pos
           C == CacheSize
           L == LastCachePos
<1>1. R \in Nat /\ C \in Nat /\ L \in Nat
  BY Sizes
<1>2. S * R >= T * u /\ S * C <= T * L
  OBVIOUS
<1> HIDE DEF R, C, L
<1>3. (T * u) * C <= (S * R) * C
  BY <1>1, <1>2
<1>4. (S * C) * R <= (T * L) * R
  BY <1>1, <1>2
<1>5. T * (u * C) <= T * (R * L)
  <2>1. (T * u) * C = T * (u * C)
    BY <1>1
  <2>2. (S * R) * C = (S * C) * R
    BY <1>1
  <2>3. (T * L) * R = T * (R * L)
    BY <1>1
  <2> QED BY <1>1, <1>3, <1>4, <2>1, <2>2, <2>3
<1>6. u * C <= R * L
  <2>1. u * C \in Nat /\ R * L \in Nat
    BY <1>1
  <2>2. ASSUME NEW a \in Nat, NEW b \in Nat, T * a <= T * b PROVE a <= b
    BY <2>2
  <2> QED BY <1>5, <2>1, <2>2
<1> QED BY <1>6 DEF Fits, R, C, L

\* Fewer blocks fit as well.
LEMMA FewerFit ==
  ASSUME NEW u \in Nat, NEW v \in Nat, v <= u, NEW pos, Fits(u, pos)
  PROVE  v * CacheSize <= u * CacheSize
BY Sizes

\* Nothing fits behind the end.
LEMMA NoneFits ==
  ASSUME NEW u \in Nat, Fits(u, LastPurgePos)
  PROVE  u = 0
BY Sizes DEF Fits

\* The chunk that FindNextChunk takes has few enough blocks if any chunk has.
LEMMA FindNextFits ==
  ASSUME NEW cur \in Chunks, NEW pos \in Nat, pos <= LastPurgePos, Used \in [Chunks -> Nat],
         FindNextChunk(cur, pos), NEW n \in Chunks \ {cur}, Fits(Used[n], pos)
  PROVE  NextChunkNo' \in Chunks /\ NextChunkNo' # cur /\ Fits(Used[NextChunkNo'], pos)
<1> DEFINE next == NextChunkNo'
           eligible == {c \in Chunks \ {cur} :
                          Used[c] * 100 < (LastPurgePos - pos) * RELOCATION_LIMIT_PERCENTAGE}
<1>1. next \in Chunks \ {cur}
  BY DEF FindNextChunk, NextChunks
<1>2. eligible # {} => next \in eligible
  BY DEF FindNextChunk, NextChunks
<1>3. eligible = {} => \A d \in Chunks \ {cur} : Used[next] <= Used[d]
  BY <1>1 DEF FindNextChunk, NextChunks
<1>4. Used[next] \in Nat /\ Used[n] \in Nat
  BY <1>1
<1>5. CASE eligible = {}
  <2>1. Used[next] <= Used[n]
    BY <1>3, <1>5
  <2>2. Used[next] * CacheSize <= Used[n] * CacheSize
    BY <1>4, <2>1, Sizes
  <2>3. Used[next] * CacheSize \in Nat /\ Used[n] * CacheSize \in Nat
        /\ (LastPurgePos - pos) * LastCachePos \in Nat
    BY <1>4, Sizes
  <2> QED BY <1>1, <2>2, <2>3 DEF Fits
<1>6. CASE eligible # {}
  <2> DEFINE R == LastPurgePos - pos
             U == Used[next]
             G == RELOCATION_LIMIT_PERCENTAGE
             C == CacheSize
             L == LastCachePos
  <2>1. R \in Nat /\ U \in Nat /\ G \in Nat /\ C \in Nat /\ L \in Nat
    BY <1>4, Sizes, Geometry
  <2>2. U * 100 <= R * G
    BY <1>2, <1>6, <2>1
  <2>3. G * C <= 100 * L
    BY Geometry
  <2> HIDE DEF R, U, G, C, L
  <2>4. (U * 100) * C <= (R * G) * C
    BY <2>1, <2>2
  <2>5. R * (G * C) <= R * (100 * L)
    BY <2>1, <2>3
  <2>6. (R * G) * C = R * (G * C) /\ (U * 100) * C = 100 * (U * C)
        /\ R * (100 * L) = 100 * (R * L)
    BY <2>1
  <2>7. U * C \in Nat /\ R * L \in Nat
    BY <2>1
  <2>8. U * C <= R * L
    <3>1. 100 * (U * C) <= R * (G * C) /\ R * (G * C) <= 100 * (R * L)
      BY <2>4, <2>5, <2>6
    <3>2. R * (G * C) \in Nat
      BY <2>1
    <3> QED BY <2>7, <3>1, <3>2
  <2> QED BY <1>1, <2>8 DEF Fits, R, U, C, L
<1> QED BY <1>5, <1>6

\* The members of a finite set can be numbered.
Enumerates(f, S) == /\ f \in [1..Cardinality(S) -> S]
                    /\ \A i, j \in 1..Cardinality(S) : f[i] = f[j] => i = j

\* A finite set can be counted out.
LEMMA Enumeration ==
  ASSUME NEW S, IsFiniteSet(S)
  PROVE  \E f : Enumerates(f, S)
<1>1. PICK f : f \in Bijection(1..Cardinality(S), S)
  BY FS_CardinalityType DEF ExistsBijection
<1>2. f \in [1..Cardinality(S) -> S] /\ \A i, j \in 1..Cardinality(S) : f[i] = f[j] => i = j
  BY <1>1 DEF Bijection, Injection, IsInjective
<1> QED BY <1>2 DEF Enumerates

\* Some chunk holds no more blocks than fit in one purge less than a chunk has.
LEMMA SomeChunkIsSmall ==
  ASSUME Capacity, NEW m \in Maps, NEW cur \in Chunks
  PROVE  \E n \in Chunks \ {cur} : Cardinality(In(m, n)) <= (PURGES - 1) * LastCachePos
<1> DEFINE D == Chunks \ {cur}
           K == (PURGES - 1) * LastCachePos
           S == D \X (1..(K + 1))
<1>1. K \in Nat /\ MAX_CHUNKS \in Nat /\ MAX_CHUNKS >= 3 /\ SIZE_OF_MAP \in Nat
  BY Geometry, Sizes
<1>2. IsFiniteSet(D) /\ Cardinality(D) = MAX_CHUNKS - 1
  <2>1. IsFiniteSet(Chunks) /\ Cardinality(Chunks) = MAX_CHUNKS
    BY <1>1, FS_Interval DEF Chunks
  <2> QED BY <2>1, FS_RemoveElement
<1>3. IsFiniteSet(1..(K + 1)) /\ Cardinality(1..(K + 1)) = K + 1
  BY <1>1, FS_Interval
<1>4. IsFiniteSet(S) /\ Cardinality(S) = (MAX_CHUNKS - 1) * (K + 1)
  <2> HIDE DEF D, K
  <2> QED BY <1>2, <1>3, FS_Product
<1>5. IsFiniteSet(Blocks) /\ Cardinality(Blocks) = SIZE_OF_MAP
  <2>1. 0 \in Int /\ SIZE_OF_MAP - 1 \in Int /\ SIZE_OF_MAP >= 1
    BY <1>1, Geometry
  <2>2. Cardinality(0..(SIZE_OF_MAP - 1)) = SIZE_OF_MAP
    BY <1>1, <2>1, FS_Interval
  <2> QED BY <2>2, SmallNumbers DEF Blocks
<1>6. SIZE_OF_MAP < (MAX_CHUNKS - 1) * (K + 1)
  <2>1. SIZE_OF_MAP <= (MAX_CHUNKS - 1) * K
    BY DEF Capacity
  <2>2. (MAX_CHUNKS - 1) * (K + 1) = (MAX_CHUNKS - 1) * K + (MAX_CHUNKS - 1)
    BY <1>1
  <2>3. (MAX_CHUNKS - 1) * K \in Nat
    BY <1>1
  <2> HIDE DEF K
  <2> QED BY <1>1, <2>1, <2>2, <2>3
<1>7. \E n \in D : Cardinality(In(m, n)) <= K
  <2> SUFFICES ASSUME \A n \in D : ~(Cardinality(In(m, n)) <= K) PROVE FALSE
    OBVIOUS
  <2> DEFINE Count(n) == CHOOSE f : Enumerates(f, In(m, n))
             g == [l \in S |-> Count(l[1])[l[2]]]
  <2>1. ASSUME NEW n \in D
        PROVE  /\ Cardinality(In(m, n)) \in Nat /\ K + 1 <= Cardinality(In(m, n))
               /\ Enumerates(Count(n), In(m, n))
    <3>1. In(m, n) \in SUBSET Blocks
      BY DEF In
    <3>2. Cardinality(In(m, n)) \in Nat /\ \E f : Enumerates(f, In(m, n))
      BY <3>1, Counts, Enumeration
    <3> QED BY <1>1, <3>2
  <2>2. \A n \in D : \A i \in 1..(K + 1) :
          /\ Count(n)[i] \in In(m, n)
          /\ \A j \in 1..(K + 1) : Count(n)[i] = Count(n)[j] => i = j
    <3>1. ASSUME NEW n \in D PROVE 1..(K + 1) \subseteq 1..Cardinality(In(m, n))
      <4>1. Cardinality(In(m, n)) \in Nat /\ K + 1 <= Cardinality(In(m, n)) /\ K \in Nat
        BY <1>1, <2>1
      <4> HIDE DEF K
      <4> QED BY <4>1
    <3> HIDE DEF Count, K, D
    <3> QED BY <2>1, <3>1 DEF Enumerates
  <2>3. \A l \in S : l = <<l[1], l[2]>> /\ l[1] \in D /\ l[2] \in 1..(K + 1)
    OBVIOUS
  <2> HIDE DEF Count, K, D
  <2>4. g \in [S -> Blocks] /\ \A l \in S : g[l] \in In(m, l[1])
    BY <2>2, <2>3 DEF In
  <2>5. \A k, l \in S : g[k] = g[l] => k = l
    <3> TAKE k, l \in S
    <3> HAVE g[k] = g[l]
    <3>1. k[1] = l[1]
      BY <2>4 DEF In
    <3>2. g[k] = Count(k[1])[k[2]] /\ g[l] = Count(l[1])[l[2]]
      BY <2>3
    <3>3. k[2] = l[2]
      BY <2>2, <2>3, <3>1, <3>2
    <3> QED BY <2>3, <3>1, <3>3
  <2>6. g \in Injection(S, Blocks)
    <3> HIDE DEF S, g
    <3> QED BY <2>4, <2>5, Fun_IsInj
  <2>7. Cardinality(S) <= Cardinality(Blocks)
    <3> HIDE DEF S, g
    <3> QED BY <2>6, <1>5, FS_Injection
  <2>8. (MAX_CHUNKS - 1) * (K + 1) \in Nat
    BY <1>1
  <2> QED BY <1>1, <1>4, <1>5, <1>6, <2>7, <2>8
<1> QED BY <1>7

\* Its blocks can be relocated behind the first position of the current one.
LEMMA SomeChunkFits ==
  ASSUME Capacity, NEW m \in Maps, NEW cur \in Chunks
  PROVE  RoomFor(m, cur, FirstPos(cur))
<1>8. PICK n \in Chunks \ {cur} : Cardinality(In(m, n)) <= (PURGES - 1) * LastCachePos
  BY SomeChunkIsSmall
<1>9. Fits(Cardinality(In(m, n)), FirstPos(cur))
  <2> DEFINE u == Cardinality(In(m, n))
             N == PURGES - 1
             C == CacheSize
             L == LastCachePos
  <2>1. u \in Nat
    <3>1. In(m, n) \in SUBSET Blocks
      BY DEF In
    <3> QED BY <3>1, Counts
  <2>2. N \in Nat /\ C \in Nat /\ L \in Nat /\ u <= N * L
    BY <1>8, Geometry, Sizes
  <2>3. LastPurgePos - FirstPos(cur) >= N * C /\ LastPurgePos - FirstPos(cur) \in Nat
    <3>1. LastPurgePos = N * C + C
      BY Geometry DEF LastPurgePos
    <3>2. FirstPos(cur) \in Nat /\ FirstPos(cur) <= C
      BY Sizes DEF FirstPos
    <3>3. N * C \in Nat
      BY <2>2
    <3> HIDE DEF N, C
    <3> QED BY <2>2, <3>1, <3>2, <3>3
  <2> DEFINE R == LastPurgePos - FirstPos(cur)
  <2> HIDE DEF u, N, C, L, R
  <2>4. u * C <= (N * L) * C
    BY <2>1, <2>2
  <2>5. (N * C) * L <= R * L
    BY <2>2, <2>3 DEF R
  <2>6. (N * L) * C = (N * C) * L
    BY <2>2
  <2>7. u * C <= R * L
    BY <2>1, <2>2, <2>3, <2>4, <2>5, <2>6 DEF R
  <2> QED BY <2>7 DEF Fits, u, C, L, R
<1> QED BY <1>9 DEF RoomFor

-----------------------------------------------------------------------------
(* The inductive invariant *)

\* Every control on the medium is about the chunk from its first position on, and no two
\* have the same number.
Medium ==
  /\ \A c \in Chunks : Present(c) => chunkCtl[c].start = FirstPos(c)
                                     /\ FirstPos(c) <= chunkCtl[c].end
  /\ \A c, d \in Chunks : Present(c) /\ Present(d) /\ c # d => chunkCtl[c].scn # chunkCtl[d].scn

\* While the controls are scanned, the map shows the last places that those seen name, and
\* the table is that of the newest one.
ScannedMap ==
  ~Positioned =>
    /\ ChunkNo < scan /\ Present(ChunkNo) => ChunkLBA = chunkCtl[ChunkNo].lba
    /\ \A b \in Blocks :
         /\ Map[b] # NotMapped => Map[b][1] < scan /\ Named(chunkCtl, Map[b][1], Map[b][2], b)
         /\ \A c \in Chunks, p \in Positions : c < scan /\ Named(chunkCtl, c, p, b) =>
              /\ Map[b] # NotMapped
              /\ IF Map[b][1] = c THEN p <= Map[b][2]
                                  ELSE chunkCtl[c].scn < chunkCtl[Map[b][1]].scn

\* The newest control tells that the log goes on in chunk cur, with number s, at from.
Resumes(cur, s, from) ==
  \E c \in Chunks :
    /\ Leads(c)
    /\ IF chunkCtl[c].end = LastPurgePos
       THEN cur = chunkCtl[c].next /\ s = chunkCtl[c].scn + 1 /\ from = FirstPos(cur)
       ELSE cur = c /\ s = chunkCtl[c].scn /\ from = chunkCtl[c].end

\* The medium holds a whole log whose map is m and whose last purge ends at x.
OnMedium(m, cur, s, from, t, x) ==
  /\ Resumes(cur, s, from) /\ from <= x
  /\ Log(m, chunkCtl, purgeCtl, cur, s, t, x)
  /\ PurgesOlder(purgeCtl, cur, s, x)
  /\ RoomFor(m, cur, x)

\* Recovery has come to PurgePos of that log.
Replayed(cur, s, t, x) ==
  /\ ChunkNo = cur /\ SCN[ChunkNo] = s
  /\ FirstPos(ChunkNo) <= PurgePos /\ PurgePos <= x
  /\ Agrees(Map, chunkCtl, ChunkNo, SCN[ChunkNo], ChunkLBA, PurgePos)
  /\ \A p \in Positions : FirstPos(ChunkNo) <= p /\ p < PurgePos => t[p] = ChunkLBA[p]

Resumable ==
  ~Loaded =>
    \E m \in Maps, cur \in Chunks, s \in Nat, from \in PurgeEnds, t \in LBATable,
       x \in PurgeEnds :
      /\ OnMedium(m, cur, s, from, t, x)
      /\ Positioned => Replayed(cur, s, t, x)

\* The log in memory is the one on the medium, except for a purge not acknowledged.
Running ==
  Loaded =>
    /\ Log(Map, chunkCtl, purgeCtl, ChunkNo, SCN[ChunkNo], ChunkLBA, PurgePos)
    /\ PurgesOlder(purgeCtl, ChunkNo, SCN[ChunkNo], PurgePos + 1)
    /\ Present(ChunkNo) /\ chunkCtl[ChunkNo].scn = SCN[ChunkNo]
         /\ chunkCtl[ChunkNo].end = LastPurgePos => chunkCtl[ChunkNo].next = NextChunkNo

\* A purge that failed though it reached the medium stays what the cache would purge.
Unacknowledged ==
  Loaded /\ PurgeOnMedium(purgeCtl) =>
    /\ mode # "ACTIVE" /\ step \notin {"copy", "fill"}
    /\ ~CacheOpen /\ RelocationDone /\ RelocationPrepared
    /\ \A i \in 0..LastCachePos : purgeCtl[<<ChunkNo, PurgePos>>].lba[i] = PurgedLBA(PurgePos + i)

Uncached == {b \in In(Map, NextChunkNo) : ~Cached(b)}

\* What the pace of relocation rests on: the blocks relocated are in the cache, those that
\* remain are no more than the purges that remain can take.
Pace ==
  RelocationPrepared =>
    /\ RelocateTarget > 0 /\ RelocateSource * CacheSize <= RelocateTarget * LastCachePos
    /\ RelocateSource * (LastPurgePos - PurgePos) >= RelocateTarget * Used[NextChunkNo]
    /\ \A b \in Blocks, p \in Positions : Map[b] = <<NextChunkNo, p>> => NextLBA[p] = b
    /\ \A p \in Positions : Live(p) /\ p < RelocatePos => Cached(NextLBA[p])
    /\ RelocationDone /\ PurgePos < LastPurgePos =>
         RelocateSource * (LastPurgePos - CacheSize - PurgePos)
           >= RelocateTarget * Cardinality(Uncached)

PacePhases ==
  /\ Loaded /\ ~RelocationPrepared => Fits(Used[NextChunkNo], PurgePos)
  /\ step = "prepare" => PurgePos < LastPurgePos
  /\ CacheDirty \/ step = "purge" => RelocationDone
  /\ RelocationDone => RelocationPrepared
  /\ step = "purge" => ~CacheOpen
  /\ RelocationPrepared => Loaded

Relocation == Pace /\ PacePhases

MapInv == Medium /\ ScannedMap /\ Resumable /\ Running /\ Unacknowledged /\ Relocation

mapVars == <<scan, Map, Used, chunkCtl, purgeCtl, ChunkNo, SCN, ChunkLBA, PurgePos, NextChunkNo>>

-----------------------------------------------------------------------------
(* Frames *)

\* What the medium and the map say is kept by a step that leaves them alone.
LEMMA MapFrame ==
  ASSUME Medium, ScannedMap, Resumable, Running, UNCHANGED mapVars
  PROVE  Medium' /\ ScannedMap' /\ Resumable' /\ Running'
<1>1. Medium'
  BY DEF Medium, mapVars, Present
<1>2. ScannedMap'
  BY DEF ScannedMap, mapVars, Positioned, Present
<1>3. Running'
  BY DEF Running, mapVars, Loaded, Present
<1>4. Resumable'
  <2>1. \A cur, s, from : Resumes(cur, s, from)' <=> Resumes(cur, s, from)
    BY DEF mapVars, Resumes, Leads, Precedes, Present
  <2>2. \A m, cur, s, from, t, x : OnMedium(m, cur, s, from, t, x)' <=> OnMedium(m, cur, s, from, t, x)
    BY <2>1 DEF mapVars, OnMedium
  <2>3. \A cur, s, t, x : Replayed(cur, s, t, x)' <=> Replayed(cur, s, t, x)
    BY DEF mapVars, Replayed
  <2> QED BY <2>2, <2>3 DEF Resumable, mapVars, Loaded, Positioned
<1> QED BY <1>1, <1>2, <1>3, <1>4

\* The blocks of the next chunk that are not cached count no more when more are cached.
LEMMA UncachedCounts ==
  /\ In(Map, NextChunkNo) \in SUBSET Blocks /\ Uncached \in SUBSET Blocks
  /\ Cardinality(In(Map, NextChunkNo)) \in Nat /\ Cardinality(Uncached) \in Nat
  /\ Cardinality(Uncached) <= Cardinality(In(Map, NextChunkNo))
<1>1. In(Map, NextChunkNo) \in SUBSET Blocks /\ Uncached \in SUBSET In(Map, NextChunkNo)
  BY DEF In, Uncached
<1>2. Cardinality(Uncached) <= Cardinality(In(Map, NextChunkNo))
  BY <1>1, Counts, FS_Subset
<1> QED BY <1>1, <1>2, Counts

\* Pace is kept by a step that takes nothing out of the cache.
LEMMA RelocationFrame ==
  ASSUME TypeOK, Relocation,
         UNCHANGED <<scan, RelocationPrepared, RelocationDone, Used, NextChunkNo, PurgePos,
                     RelocateTarget, RelocateSource, Map, NextLBA, RelocatePos>>,
         \A b \in Blocks : Cached(b) => Cached(b)',
         step' = "prepare" => step = "prepare",
         CacheDirty' \/ step' = "purge" => RelocationDone,
         step' = "purge" => ~CacheOpen'
  PROVE  Relocation'
<1>1. PacePhases'
  BY DEF Relocation, PacePhases, Loaded
<1>2. Pace'
  <2> SUFFICES ASSUME RelocationPrepared PROVE Pace'
    BY DEF Pace
  <2>1. /\ RelocateTarget \in Nat /\ RelocateSource \in Nat
    BY DEF TypeOK, RelocationTypeOK
  <2>2. \A p \in Positions : Live(p)' <=> Live(p)
    BY DEF Live, IsLive
  <2>3. \A p \in Positions : Live(p)' /\ p < RelocatePos' => Cached(NextLBA[p])'
    BY <2>2 DEF Relocation, Pace, Live, IsLive
  <2>4. RelocateTarget * Cardinality(Uncached') <= RelocateTarget * Cardinality(Uncached)
    <3>1. Uncached' \in SUBSET Uncached
      BY DEF Uncached, In
    <3>2. Cardinality(Uncached') \in Nat /\ Cardinality(Uncached) \in Nat
          /\ Cardinality(Uncached') <= Cardinality(Uncached)
      BY <3>1, UncachedCounts, Counts, FS_Subset
    <3> QED BY <2>1, <3>2
  <2>5. RelocationDone /\ PurgePos < LastPurgePos =>
          RelocateSource * (LastPurgePos - CacheSize - PurgePos)
            >= RelocateTarget * Cardinality(Uncached')
    <3>1. RelocateTarget * Cardinality(Uncached') \in Nat
          /\ RelocateTarget * Cardinality(Uncached) \in Nat
      BY <2>1, <2>4, UncachedCounts, Counts DEF Uncached, In
    <3>2. LastPurgePos - CacheSize - PurgePos \in Int
      BY Sizes DEF TypeOK, LogTypeOK
    <3>3. RelocateSource * (LastPurgePos - CacheSize - PurgePos) \in Int
      BY <2>1, <3>2
    <3> QED BY <2>4, <3>1, <3>3 DEF Relocation, Pace
  <2> QED BY <2>3, <2>5 DEF Relocation, Pace
<1> QED BY <1>1, <1>2 DEF Relocation

\* A purge not acknowledged stays what the cache would purge.
LEMMA UnacknowledgedFrame ==
  ASSUME TypeOK, Unacknowledged,
         UNCHANGED <<scan, purgeCtl, PurgePos, ChunkNo, SCN, RelocationDone, RelocationPrepared>>,
         mode' = "ACTIVE" => mode = "ACTIVE",
         step' \in {"copy", "fill"} => step' = step,
         Len(cache') = Len(cache),
         \A i \in 1..Len(cache) : cache'[i].lba = cache[i].lba /\ cache'[i].open = cache[i].open
  PROVE  Unacknowledged'
<1>1. PurgeOnMedium(purgeCtl)' <=> PurgeOnMedium(purgeCtl)
  BY DEF PurgeOnMedium
<1> SUFFICES ASSUME Loaded, PurgeOnMedium(purgeCtl)
             PROVE  Unacknowledged'
  BY <1>1 DEF Unacknowledged, Loaded
<1>2. ~CacheOpen'
  BY DEF Unacknowledged, CacheOpen
<1>3. \A i \in 0..LastCachePos : PurgedLBA(PurgePos + i)' = PurgedLBA(PurgePos + i)
  <2>1. PurgePos \in Nat /\ Len(cache) \in Nat /\ PurgePos' = PurgePos
    BY PurgePosition, LenProperties DEF TypeOK, CacheTypeOK
  <2>2. ASSUME NEW i \in 0..LastCachePos, i < Len(cache)
        PROVE  cache'[i + 1].lba = cache[i + 1].lba
    BY <2>1, <2>2
  <2>3. \A i \in 0..LastCachePos : (PurgePos + i) - PurgePos = i
    BY <2>1
  <2> QED BY <2>1, <2>2, <2>3 DEF PurgedLBA
<1> QED BY <1>2, <1>3 DEF Unacknowledged

\* In ACTIVE mode, and while blocks are filled in or relocated, there is none.
LEMMA NoneUnacknowledged ==
  ASSUME Unacknowledged,
         mode = "ACTIVE" \/ CacheOpen \/ step \in {"copy", "fill"} \/ ~RelocationDone,
         UNCHANGED <<scan, purgeCtl, PurgePos, ChunkNo, SCN>>
  PROVE  Unacknowledged'
BY DEF Unacknowledged, Loaded, PurgeOnMedium

-----------------------------------------------------------------------------
(* Steps that leave the log and the cache alone *)

\* A step that leaves all but the request and the readers alone keeps the invariant.
LEMMA ThreadStepKeepsMap ==
  ASSUME TypeOK, MapInv, UNCHANGED <<logVars, diskVars, scan, cacheVars, relocVars>>,
         mode' = "ACTIVE" => mode = "ACTIVE",
         step' \in {"idle", "handler"} \/ step' = step
  PROVE  MapInv'
<1>1. UNCHANGED mapVars
  BY DEF logVars, diskVars, mapVars
<1>2. Relocation'
  BY RelocationFrame DEF MapInv, logVars, cacheVars, relocVars, Relocation, PacePhases, Cached,
     CachedAt, CacheOpen
<1>3. Unacknowledged'
  BY UnacknowledgedFrame DEF MapInv, logVars, diskVars, cacheVars, relocVars
<1> QED BY <1>1, <1>2, <1>3, MapFrame DEF MapInv

\* Requests and reads come and go.
LEMMA RequestStepsKeepMap ==
  ASSUME TypeOK, MapInv,
         \/ \E k \in Kinds, b \in Blocks : DispatchWrite(k, b)
         \/ \E k \in Kinds : DispatchFlush(k)
         \/ WriteAbort \/ FlushDone
         \/ \E r \in Readers, b \in Blocks : StartRead(r, b)
         \/ \E r \in Readers : FinishRead(r)
         \/ RecoveryFails \/ UNCHANGED vars
  PROVE  MapInv'
<1>1. ASSUME NEW k \in Kinds, NEW b \in Blocks, DispatchWrite(k, b) PROVE MapInv'
  BY <1>1, ThreadStepKeepsMap DEF DispatchWrite
<1>2. ASSUME NEW k \in Kinds, DispatchFlush(k) PROVE MapInv'
  BY <1>2, ThreadStepKeepsMap DEF DispatchFlush
<1>3. CASE WriteAbort
  BY <1>3, ThreadStepKeepsMap DEF WriteAbort
<1>4. CASE FlushDone
  BY <1>4, ThreadStepKeepsMap DEF FlushDone
<1>5. ASSUME NEW r \in Readers, NEW b \in Blocks, StartRead(r, b) PROVE MapInv'
  BY <1>5, ThreadStepKeepsMap DEF StartRead
<1>6. ASSUME NEW r \in Readers, FinishRead(r) PROVE MapInv'
  BY <1>6, ThreadStepKeepsMap DEF FinishRead
<1>7. CASE RecoveryFails
  BY <1>7, ThreadStepKeepsMap DEF RecoveryFails
<1>8. CASE UNCHANGED vars
  BY <1>8, ThreadStepKeepsMap DEF vars
<1> QED BY <1>1, <1>2, <1>3, <1>4, <1>5, <1>6, <1>7, <1>8

-----------------------------------------------------------------------------
(* Writes into the cache *)

\* A step that adds to the cache, or changes its contents only.
LEMMA CacheStepKeepsMap ==
  ASSUME TypeOK, MapInv, UNCHANGED <<logVars, diskVars, scan, relocVars, mode>>,
         mode = "ACTIVE" \/ CacheOpen \/ step = "fill",
         \A b \in Blocks : Cached(b) => Cached(b)',
         step' \notin {"prepare", "purge"},
         CacheDirty' => CacheDirty \/ RelocationDone
  PROVE  MapInv'
<1>1. UNCHANGED mapVars
  BY DEF logVars, diskVars, mapVars
<1>2. Relocation'
  BY RelocationFrame DEF MapInv, logVars, relocVars, Relocation, PacePhases
<1>3. Unacknowledged'
  BY NoneUnacknowledged DEF MapInv, logVars, diskVars
<1> QED BY <1>1, <1>2, <1>3, MapFrame DEF MapInv

\* What is cached stays cached when an entry is changed but for its block, or one appended.
LEMMA StaysCached ==
  ASSUME CacheTypeOK
  PROVE  /\ \A e : cache' = Append(cache, e) => \A b \in Blocks : Cached(b) => Cached(b)'
         /\ Len(cache') = Len(cache) /\ (\A i \in 1..Len(cache) : cache'[i].lba = cache[i].lba)
              => \A b \in Blocks : Cached(b)' <=> Cached(b)
<1>1. Len(cache) \in Nat
  BY DEF CacheTypeOK
<1>2. ASSUME NEW e, cache' = Append(cache, e), NEW b \in Blocks, Cached(b) PROVE Cached(b)'
  <2>1. PICK i \in 1..Len(cache) : cache[i].lba = b
    BY <1>2 DEF Cached, CachedAt
  <2>2. i \in 1..Len(cache') /\ cache'[i] = cache[i]
    BY <1>1, <1>2, <2>1, AppendProperties DEF CacheTypeOK
  <2> QED BY <2>1, <2>2 DEF Cached, CachedAt
<1>3. Len(cache') = Len(cache) /\ (\A i \in 1..Len(cache) : cache'[i].lba = cache[i].lba)
        => \A b \in Blocks : Cached(b)' <=> Cached(b)
  BY DEF Cached, CachedAt
<1> QED BY <1>2, <1>3

\* Filling in a block changes the open entry or appends one.
LEMMA FilledKeepsMap ==
  ASSUME TypeOK, MapInv, UNCHANGED <<logVars, diskVars, scan, relocVars, mode>>,
         mode = "ACTIVE" \/ CacheOpen \/ step = "fill",
         NEW old, cache' = Filled(old) \/ UNCHANGED cache, CacheDirty' = CacheDirty,
         step' \notin {"prepare", "purge"}
  PROVE  MapInv'
<1>1. CacheTypeOK
  BY DEF TypeOK
<1>2. \A b \in Blocks : Cached(b) => Cached(b)'
  <2>1. CASE cache' = Filled(old) /\ CacheOpen
    <3>1. Len(cache') = Len(cache) /\ (\A i \in 1..Len(cache) : cache'[i].lba = cache[i].lba)
      BY <1>1, <2>1 DEF Filled, CacheTypeOK, CacheEntries
    <3> QED BY <1>1, <3>1, StaysCached
  <2>2. CASE cache' = Filled(old) /\ ~CacheOpen
    BY <1>1, <2>2, StaysCached DEF Filled
  <2>3. CASE UNCHANGED cache
    BY <2>3 DEF Cached, CachedAt
  <2> QED BY <2>1, <2>2, <2>3
<1> QED BY <1>2, CacheStepKeepsMap

\* Writes into the cache, and fills.
LEMMA CacheStepsKeepMap ==
  ASSUME TypeOK, MapInv, WriteHit \/ WriteFill \/ FlushFill \/ CacheFillReadDone \/ WriteAppend
  PROVE  MapInv'
<1>1. CASE WriteHit
  <2>1. /\ UNCHANGED <<logVars, diskVars, scan, relocVars, mode>> /\ step' = "idle"
        /\ mode = "ACTIVE" /\ RelocationDone
    BY <1>1 DEF WriteHit, Ready, Writing
  <2>2. Len(cache') = Len(cache) /\ (\A i \in 1..Len(cache) : cache'[i].lba = cache[i].lba)
    BY <1>1 DEF WriteHit, TypeOK, CacheTypeOK, CacheEntries, CachedAt
  <2>3. \A b \in Blocks : Cached(b) => Cached(b)'
    BY <2>2, StaysCached DEF TypeOK
  <2> QED BY <2>1, <2>3, CacheStepKeepsMap
<1>2. CASE WriteFill
  BY <1>2, FilledKeepsMap DEF WriteFill, Ready, Writing, CacheFill
<1>3. CASE FlushFill
  BY <1>3, FilledKeepsMap DEF FlushFill, Flushing, CacheFill
<1>4. CASE CacheFillReadDone
  BY <1>4, FilledKeepsMap DEF CacheFillReadDone
<1>5. CASE WriteAppend
  BY <1>5, StaysCached, CacheStepKeepsMap DEF WriteAppend, Ready, Writing, TypeOK
<1> QED BY <1>1, <1>2, <1>3, <1>4, <1>5

\* The control of the chunk is built in the memory of the cache, its blocks stay.
LEMMA PurgeChunkBeginsKeepsMap ==
  ASSUME TypeOK, MapInv, CloseChunk \/ FlushFinalize
  PROVE  MapInv'
<1>1. /\ ExecutePurgeChunk
      /\ UNCHANGED <<CacheDirty, relocVars, diskVars, scan, mode>> /\ step' = "finalize"
      /\ UNCHANGED mapVars
  BY DEF CloseChunk, FlushFinalize, ExecutePurgeChunk, mapVars, diskVars
<1>2. /\ Len(cache') = Len(cache)
      /\ \A i \in 1..Len(cache) : cache'[i].lba = cache[i].lba /\ cache'[i].open = cache[i].open
  <2>1. Len(cache) \in Nat /\ \A i \in 1..Len(cache) : cache[i] \in CacheEntries
    BY LenProperties, ElementOfSeq DEF TypeOK, CacheTypeOK
  <2>2. cache' = [i \in 1..Len(cache) |-> [cache[i] EXCEPT !.data = Whole(Garbage)]]
    BY <1>1 DEF ExecutePurgeChunk
  <2>3. \A i \in 1..Len(cache) : cache'[i].lba = cache[i].lba /\ cache'[i].open = cache[i].open
    BY <2>1, <2>2 DEF CacheEntries
  <2>4. Len(cache') = Len(cache)
    <3> DEFINE S == {cache'[i] : i \in 1..Len(cache)}
    <3>1. cache' \in [1..Len(cache) -> S]
      BY <2>2
    <3> HIDE DEF S
    <3> QED BY <2>1, <3>1, FunctionIsSeq
  <2> QED BY <2>3, <2>4
<1>3. \A b \in Blocks : Cached(b) => Cached(b)'
  BY <1>2, StaysCached DEF TypeOK
<1>4. Relocation'
  BY <1>1, <1>3, RelocationFrame DEF MapInv, mapVars, relocVars, Relocation, PacePhases
<1>5. Unacknowledged'
  BY <1>1, <1>2, UnacknowledgedFrame DEF MapInv, mapVars, relocVars
<1> QED BY <1>1, <1>4, <1>5, MapFrame DEF MapInv

-----------------------------------------------------------------------------
(* Relocation *)

\* Before the relocation is done for a purge all that is cached comes from the next chunk.
LEMMA CachedAreRelocated ==
  IInv /\ ~RelocationDone => ~Mixed
<1> SUFFICES ASSUME IInv, ~RelocationDone PROVE ~Mixed
  OBVIOUS
<1>1. \A i \in 1..Len(cache) : \E q \in Positions : Map[cache[i].lba] = <<NextChunkNo, q>>
  BY DEF IInv, RelocatedOnly
<1>2. ASSUME NEW b, NEW q \in Positions, Map[b] = <<NextChunkNo, q>>
      PROVE  Map[b] # NotMapped /\ Map[b][1] = NextChunkNo
  <2>1. <<NextChunkNo, q>> \in Places
    BY DEF Places, IInv, TypeOK, LogTypeOK
  <2> QED BY <1>2, <2>1, Parameters
<1> QED BY <1>1, <1>2 DEF Mixed

\* A cache that comes from the next chunk holds as many blocks as will leave that one.
LEMMA CachedAreCounted ==
  ASSUME IInv, ~Mixed
  PROVE  /\ Len(cache) \in Nat /\ Len(cache) <= Used[NextChunkNo]
         /\ Cardinality(Uncached) = Used[NextChunkNo] - Len(cache)
<1> DEFINE N == In(Map, NextChunkNo)
           B == {cache[i].lba : i \in 1..Len(cache)}
           f == [i \in 1..Len(cache) |-> cache[i].lba]
<1>1. Len(cache) \in Nat
  BY LenProperties DEF IInv, TypeOK, CacheTypeOK
<1>2. \A i \in 1..Len(cache) : cache[i].lba \in N
  <2>1. \A i \in 1..Len(cache) : cache[i].lba \in Blocks
    <3>1. \A i \in 1..Len(cache) : cache[i] \in CacheEntries
      BY <1>1, ElementOfSeq DEF IInv, TypeOK, CacheTypeOK
    <3> QED BY <3>1 DEF CacheEntries
  <2>2. \A i \in 1..Len(cache) : Map[cache[i].lba] # NotMapped /\ Map[cache[i].lba][1] = NextChunkNo
    BY DEF Mixed
  <2> QED BY <2>1, <2>2 DEF In
<1>3. IsFiniteSet(B) /\ Cardinality(B) = Len(cache)
  <2>1. f \in Bijection(1..Len(cache), B)
    BY Fun_IsBij DEF IInv, CacheConsistent
  <2>2. IsFiniteSet(1..Len(cache)) /\ Cardinality(1..Len(cache)) = Len(cache)
    BY <1>1, FS_Interval
  <2> HIDE DEF f, B
  <2> QED BY <2>1, <2>2, FS_Bijection DEF ExistsBijection
<1>4. Uncached = N \ B
  BY DEF Uncached, Cached, CachedAt
<1>5. N \cap B = B /\ IsFiniteSet(N) /\ Cardinality(N) \in Nat
  BY <1>2, UncachedCounts, Counts
<1>6. Cardinality(N) = Used[NextChunkNo]
  BY DEF In, IInv, UsedCounts, TypeOK, LogTypeOK
<1> HIDE DEF N, B
<1>7. Cardinality(Uncached) = Cardinality(N) - Len(cache)
  <2>1. Cardinality(N \ B) = Cardinality(N) - Cardinality(N \cap B)
    BY <1>5, FS_Difference
  <2> QED BY <1>3, <1>4, <1>5, <2>1
<1> QED BY <1>1, <1>5, <1>6, <1>7, UncachedCounts

\* The position reached by the relocation moves over places that are dead or cached.
LEMMA RelocationMoves ==
  ASSUME TypeOK, Relocation, ~RelocationDone, RelocationPrepared,
         UNCHANGED <<scan, RelocationPrepared, RelocationDone, CacheDirty, Used, NextChunkNo,
                     PurgePos, RelocateTarget, RelocateSource, Map, NextLBA>>,
         \A p \in Positions : Live(p) /\ p < RelocatePos' => Cached(NextLBA[p])',
         step' \notin {"prepare", "purge"}
  PROVE  Relocation'
<1>1. \A p \in Positions : Live(p)' <=> Live(p)
  BY DEF Live, IsLive
<1>2. Pace'
  BY <1>1 DEF Relocation, Pace
<1>3. PacePhases'
  BY DEF Relocation, PacePhases, Loaded
<1> QED BY <1>2, <1>3 DEF Relocation

\* No live place lies between the position reached and the first one left.
LEMMA FirstLeft ==
  ASSUME TypeOK, Relocation, RelocationPrepared, NEW p \in LeftToRelocate, First(p, LeftToRelocate)
  PROVE  /\ p \in Positions
         /\ \A q \in Positions : Live(q) /\ q < p => Cached(NextLBA[q])
<1>1. RelocatePos \in Nat /\ LastPurgePos \in Nat
  BY Sizes DEF TypeOK, RelocationTypeOK
<1>2. p \in Positions
  BY <1>1 DEF LeftToRelocate, Positions
<1>3. ASSUME NEW q \in Positions, Live(q), q < p PROVE q < RelocatePos
  <2>1. q \notin LeftToRelocate /\ q \in Nat /\ q <= LastPurgePos - 1
    BY <1>1, <1>2, <1>3 DEF First, Positions
  <2> QED BY <1>1, <1>3, <2>1 DEF LeftToRelocate
<1> QED BY <1>2, <1>3 DEF Relocation, Pace

\* The control of the next chunk is asked for.
LEMMA PrepareRelocateKeepsMap ==
  ASSUME TypeOK, MapInv, PrepareRelocate
  PROVE  MapInv'
<1>1. /\ UNCHANGED <<mapVars, cacheVars, relocVars>> /\ mode = "ACTIVE" /\ PurgePos < LastPurgePos
      /\ step' = "prepare"
  BY DEF PrepareRelocate, Writing, logVars, diskVars, mapVars
<1>2. Unacknowledged'
  BY <1>1, NoneUnacknowledged DEF MapInv, mapVars
<1>3. Relocation'
  <2>1. Pace' = Pace
    BY <1>1 DEF Pace, mapVars, cacheVars, relocVars, Live, IsLive, Uncached, In, Cached, CachedAt
  <2> QED BY <1>1, <2>1 DEF MapInv, Relocation, PacePhases, mapVars, cacheVars, relocVars, Loaded
<1> QED BY <1>1, <1>2, <1>3, MapFrame DEF MapInv

\* The blocks of the next chunk are named by its control, and fit behind PurgePos.
LEMMA PrepareRelocateDoneKeepsMap ==
  ASSUME IInv, Order, MapInv, PrepareRelocateDone
  PROVE  MapInv'
<1>1. /\ UNCHANGED mapVars /\ UNCHANGED <<cacheVars, RelocationDone>> /\ step = "prepare"
      /\ step' \in {"handler", "marked"} /\ RelocationPrepared' = TRUE
      /\ RelocateTarget' = LastPurgePos - PurgePos /\ RelocateSource' = Used[NextChunkNo]
      /\ RelocatePos' = 0
      /\ chunkCtl[NextChunkNo] # Torn => NextLBA' = chunkCtl[NextChunkNo].lba
  BY DEF PrepareRelocateDone, logVars, diskVars, cacheVars, mapVars
<1>2. ~RelocationPrepared /\ ~RelocationDone /\ PurgePos < LastPurgePos /\ Loaded
      /\ Fits(Used[NextChunkNo], PurgePos) /\ ~CacheDirty
  BY <1>1 DEF IInv, CachePhases, MapInv, Relocation, PacePhases, Order, OrderPhases
<1>3. Unacknowledged'
  BY <1>1, <1>2, NoneUnacknowledged DEF MapInv, mapVars
<1>4. PacePhases'
  BY <1>1, <1>2 DEF PacePhases, mapVars, cacheVars, Loaded
<1>5. Pace'
  <2>1. PurgePos \in Nat /\ LastPurgePos \in Nat /\ Used[NextChunkNo] \in Nat
    BY Sizes DEF IInv, TypeOK, LogTypeOK
  <2>2. RelocateTarget' > 0 /\ RelocateSource' * CacheSize <= RelocateTarget' * LastCachePos
    BY <1>1, <1>2, <2>1 DEF Fits
  <2>3. RelocateSource' * (LastPurgePos - PurgePos) >= RelocateTarget' * Used[NextChunkNo]
    <3> DEFINE R == LastPurgePos - PurgePos
    <3>1. R \in Nat
      BY <1>2, <2>1
    <3>2. RelocateSource' = Used[NextChunkNo] /\ RelocateTarget' = R
      BY <1>1
    <3> HIDE DEF R
    <3>3. Used[NextChunkNo] * R = R * Used[NextChunkNo] /\ Used[NextChunkNo] * R \in Nat
      BY <2>1, <3>1
    <3> QED BY <3>2, <3>3 DEF R
  <2>4. ASSUME NEW b \in Blocks, NEW p \in Positions, Map[b] = <<NextChunkNo, p>>
        PROVE  NextLBA'[p] = b
    <3>1. Map[b] # NotMapped /\ Map[b][1] = NextChunkNo /\ Map[b][2] = p
      BY <2>4, Parameters DEF Places, IInv, TypeOK, LogTypeOK
    <3>2. Says(chunkCtl, ChunkNo, ChunkLBA, PurgePos, NextChunkNo, p, b)
      BY <1>2, <3>1 DEF MapInv, Running, Log, Agrees
    <3>3. Named(chunkCtl, NextChunkNo, p, b)
      BY <1>2, <3>2 DEF Says, Order, Closed
    <3> QED BY <1>1, <3>3 DEF Named
  <2>5. \A p \in Positions : ~(p < RelocatePos')
    BY <1>1 DEF Positions
  <2> QED BY <1>1, <1>2, <2>2, <2>3, <2>4, <2>5 DEF Pace, mapVars
<1> QED BY <1>1, <1>3, <1>4, <1>5, MapFrame DEF MapInv, Relocation

\* The quota is met when what remains after the next purge keeps pace.
LEMMA RelocateQuotaKeepsMap ==
  ASSUME IInv, MapInv, RelocateQuota
  PROVE  MapInv'
<1>1. /\ UNCHANGED <<mapVars, cacheVars, RelocationPrepared, NextLBA, RelocatePos, RelocateTarget,
                     RelocateSource, mode>>
      /\ mode = "ACTIVE" /\ RelocationPrepared /\ ~RelocationDone
      /\ step' \in {"handler", "copy"} /\ (RelocationDone' => QuotaMet)
  BY DEF RelocateQuota, Relocating, Writing, logVars, diskVars, mapVars
<1>2. Unacknowledged'
  BY <1>1, NoneUnacknowledged DEF MapInv, mapVars
<1>3. PacePhases'
  BY <1>1 DEF MapInv, Relocation, PacePhases, mapVars, cacheVars, CacheOpen, Loaded
<1>4. QuotaMet => RelocateSource * (LastPurgePos - CacheSize - PurgePos)
                    >= RelocateTarget * Cardinality(Uncached)
  BY <1>1, CachedAreRelocated, CachedAreCounted DEF QuotaMet
<1>5. Pace'
  BY <1>1, <1>4 DEF MapInv, Relocation, Pace, mapVars, cacheVars, Live, IsLive, Uncached, In, Cached,
     CachedAt
<1> QED BY <1>1, <1>2, <1>3, <1>5, MapFrame DEF MapInv, Relocation

\* The relocation for a purge ends when nothing is left or the cache is full.
LEMMA RelocateEndKeepsMap ==
  ASSUME IInv, MapInv, RelocateEnd
  PROVE  MapInv'
<1>1. /\ UNCHANGED <<mapVars, cacheVars, RelocationPrepared, NextLBA, RelocateTarget,
                     RelocateSource, mode>>
      /\ RelocationPrepared /\ ~RelocationDone /\ PurgePos < LastPurgePos
      /\ step = "copy" /\ step' = "handler" /\ RelocationDone'
  BY DEF RelocateEnd, IInv, CachePhases, logVars, diskVars, mapVars
<1>2. Unacknowledged'
  BY <1>1, NoneUnacknowledged DEF MapInv, mapVars
<1>3. PacePhases'
  BY <1>1 DEF MapInv, Relocation, PacePhases, mapVars, cacheVars, CacheOpen, Loaded
<1>4. /\ RelocateSource \in Nat /\ RelocateTarget \in Nat /\ PurgePos \in Nat
      /\ RelocatePos \in Nat /\ LastPurgePos \in Nat
      /\ PurgePos + CacheSize <= LastPurgePos /\ CacheSize \in Nat /\ LastCachePos \in Nat
      /\ Used[NextChunkNo] \in Nat
  BY <1>1, Sizes, PurgeFits DEF IInv, TypeOK, LogTypeOK, RelocationTypeOK
<1>5. CASE LeftToRelocate = {} /\ RelocatePos' = LastPurgePos
  <2>1. \A p \in Positions : Live(p) => p < RelocatePos
    BY <1>4, <1>5 DEF LeftToRelocate, Positions
  <2>2. \A p \in Positions : Live(p) => Cached(NextLBA[p])
    BY <1>1, <2>1 DEF MapInv, Relocation, Pace
  <2>3. Uncached = {}
    <3> SUFFICES ASSUME NEW b \in In(Map, NextChunkNo), ~Cached(b) PROVE FALSE
      BY DEF Uncached
    <3>1. b \in Blocks /\ Map[b] = <<NextChunkNo, Map[b][2]>> /\ Map[b][2] \in Positions
      BY DEF In, IInv, TypeOK, LogTypeOK, Places
    <3>2. NextLBA[Map[b][2]] = b
      BY <1>1, <3>1 DEF MapInv, Relocation, Pace
    <3>3. Live(Map[b][2])
      BY <3>1, <3>2 DEF Live, IsLive
    <3> QED BY <2>2, <3>1, <3>2, <3>3
  <2>4. Cardinality(Uncached) = 0
    BY <2>3, FS_EmptySet
  <2>5. RelocateSource * (LastPurgePos - CacheSize - PurgePos) >= RelocateTarget * Cardinality(Uncached)
    BY <1>4, <2>4
  <2> QED BY <1>1, <1>2, <1>3, <2>2, <2>5, MapFrame DEF MapInv, Relocation, Pace, mapVars,
             cacheVars, Live, IsLive, Uncached, In, Cached, CachedAt
<1>6. CASE /\ Len(cache) >= LastCachePos
           /\ \E p \in LeftToRelocate : First(p, LeftToRelocate) /\ RelocatePos' = p
  <2>1. \A p \in Positions : Live(p) /\ p < RelocatePos' => Cached(NextLBA[p])
    BY <1>1, <1>6, FirstLeft DEF IInv, MapInv
  <2>2. RelocateSource * (LastPurgePos - CacheSize - PurgePos) >= RelocateTarget * Cardinality(Uncached)
    <3> DEFINE S == RelocateSource
               T == RelocateTarget
               R == LastPurgePos - PurgePos
               U == Used[NextChunkNo]
               L == LastCachePos
               C == CacheSize
    <3>1. Cardinality(Uncached) = U - L /\ U >= L
      BY <1>1, <1>4, <1>6, CachedAreRelocated, CachedAreCounted DEF IInv, CacheConsistent
    <3>2. S * R >= T * U /\ S * C <= T * L
      BY <1>1 DEF MapInv, Relocation, Pace
    <3>3. S \in Nat /\ T \in Nat /\ U \in Nat /\ L \in Nat /\ C \in Nat /\ R \in Nat /\ R >= C
          /\ LastPurgePos - CacheSize - PurgePos = R - C
      BY <1>4
    <3> HIDE DEF S, T, R, U, L, C
    <3>4. S * (R - C) = S * R - S * C /\ T * (U - L) = T * U - T * L
      BY <3>3
    <3>5. S * R \in Nat /\ S * C \in Nat /\ T * U \in Nat /\ T * L \in Nat
      BY <3>3
    <3>6. S * (R - C) >= T * (U - L)
      BY <3>2, <3>4, <3>5
    <3> QED BY <3>1, <3>3, <3>6 DEF S, T
  <2> QED BY <1>1, <1>2, <1>3, <2>1, <2>2, MapFrame DEF MapInv, Relocation, Pace, mapVars,
             cacheVars, Live, IsLive, Uncached, In, Cached, CachedAt
<1> QED BY <1>5, <1>6 DEF RelocateEnd

\* A block is copied, or the next blocks are read.
LEMMA RelocateStepsKeepMap ==
  ASSUME IInv, MapInv, RelocateCopy \/ ExecuteRelocate \/ RelocateRead
  PROVE  MapInv'
<1>1. CASE RelocateCopy
  <2>1. PICK p \in LeftToRelocate :
          /\ First(p, LeftToRelocate) /\ RelocatePos' = p + 1
          /\ cache' = Append(cache, [lba |-> NextLBA[p], data |-> RelocateMem[p], open |-> FALSE])
    BY <1>1 DEF RelocateCopy
  <2>2. /\ UNCHANGED mapVars /\ step = "copy" /\ step' = "copy" /\ RelocationPrepared /\ ~RelocationDone
        /\ UNCHANGED <<RelocationPrepared, RelocationDone, CacheDirty, RelocateTarget,
                       RelocateSource, NextLBA>>
    BY <1>1 DEF RelocateCopy, IInv, CachePhases, logVars, diskVars, mapVars
  <2>3. p \in Positions /\ \A q \in Positions : Live(q) /\ q < p => Cached(NextLBA[q])
    BY <2>1, <2>2, FirstLeft DEF IInv, MapInv
  <2>4. /\ \A b \in Blocks : Cached(b) => Cached(b)'
        /\ Cached(NextLBA[p])'
    <3>1. Len(cache) \in Nat /\ Len(cache') = Len(cache) + 1 /\ cache'[Len(cache) + 1].lba = NextLBA[p]
      BY <2>1, LenProperties, AppendProperties DEF IInv, TypeOK, CacheTypeOK
    <3> QED BY <2>1, <2>2, <3>1, StaysCached DEF Cached, CachedAt, IInv, TypeOK
  <2>5. ASSUME NEW q \in Positions, Live(q), q < RelocatePos' PROVE Cached(NextLBA[q])'
    <3>1. q < p \/ q = p
      BY <2>1, <2>3, <2>5 DEF Positions
    <3>2. CASE q = p
      BY <2>4, <3>2
    <3>3. CASE q < p
      <4> DEFINE b == NextLBA[q]
      <4>1. b \in Blocks /\ Cached(b) /\ NextLBA'[q] = b
        BY <2>2, <2>3, <2>5, <3>3 DEF Live, IsLive
      <4>2. Cached(b)'
        <5> HIDE DEF b
        <5>1. \A d \in Blocks : Cached(d) => \E i \in 1..Len(cache') : cache'[i].lba = d
          BY <2>4 DEF Cached, CachedAt
        <5> QED BY <4>1, <5>1 DEF b, Cached, CachedAt
      <4> QED BY <4>2
    <3> QED BY <3>1, <3>2, <3>3
  <2>6. Relocation'
    BY <2>2, <2>5, RelocationMoves DEF IInv, MapInv, mapVars
  <2>7. Unacknowledged'
    BY <2>2, NoneUnacknowledged DEF MapInv, mapVars
  <2> QED BY <2>2, <2>6, <2>7, MapFrame DEF MapInv
<1>2. CASE ExecuteRelocate
  <2>1. PICK p \in LeftToRelocate : First(p, LeftToRelocate) /\ RelocatePos' = p
    BY <1>2 DEF ExecuteRelocate
  <2>2. /\ UNCHANGED <<mapVars, cacheVars>> /\ step = "copy" /\ step' = "relocate"
        /\ RelocationPrepared /\ ~RelocationDone
        /\ UNCHANGED <<RelocationPrepared, RelocationDone, RelocateTarget, RelocateSource, NextLBA>>
    BY <1>2 DEF ExecuteRelocate, IInv, CachePhases, logVars, diskVars, mapVars
  <2>3. \A q \in Positions : Live(q) /\ q < RelocatePos' => Cached(NextLBA[q])'
    BY <2>1, <2>2, FirstLeft DEF IInv, MapInv, cacheVars, Cached, CachedAt
  <2>4. Relocation'
    BY <2>2, <2>3, RelocationMoves DEF IInv, MapInv, mapVars, cacheVars
  <2>5. Unacknowledged'
    BY <2>2, NoneUnacknowledged DEF MapInv, mapVars
  <2> QED BY <2>2, <2>4, <2>5, MapFrame DEF MapInv
<1>3. CASE RelocateRead
  <2>1. /\ UNCHANGED <<mapVars, cacheVars, mode>> /\ step' = "handler"
        /\ UNCHANGED <<RelocationPrepared, RelocationDone, RelocateTarget, RelocateSource, NextLBA,
                       RelocatePos>>
    BY <1>3 DEF RelocateRead, logVars, diskVars, mapVars
  <2>2. Relocation'
    BY <2>1, RelocationFrame DEF IInv, MapInv, mapVars, cacheVars, Relocation, PacePhases, Cached, CachedAt
  <2>3. Unacknowledged'
    BY <2>1, UnacknowledgedFrame DEF IInv, MapInv, mapVars, cacheVars
  <2> QED BY <2>1, <2>2, <2>3, MapFrame DEF MapInv
<1> QED BY <1>1, <1>2, <1>3

-----------------------------------------------------------------------------
(* Purges *)

\* The purges of a chunk do not overlap.
LEMMA PurgesApart ==
  ASSUME NEW q \in PurgeEnds, NEW x \in PurgeEnds, q < x
  PROVE  q + CacheSize <= x /\ q # LastPurgePos
<1>1. PICK n \in 0..PURGES, k \in 0..PURGES : q = n * CacheSize /\ x = k * CacheSize
  BY DEF PurgeEnds
<1>2. n \in Nat /\ k \in Nat /\ CacheSize \in Nat
  BY <1>1, Geometry
<1>3. n < k
  <2>1. ASSUME k <= n PROVE x <= q
    <3>1. (n - k) * CacheSize >= 0 /\ (n - k) * CacheSize = n * CacheSize - k * CacheSize
      BY <1>2, <2>1
    <3>2. n * CacheSize \in Nat /\ k * CacheSize \in Nat
      BY <1>2
    <3> QED BY <1>1, <3>1, <3>2
  <2> QED BY <1>2, <2>1, Sizes
<1>4. (k - n - 1) * CacheSize >= 0 /\ (k - n - 1) * CacheSize = k * CacheSize - n * CacheSize - CacheSize
  BY <1>2, <1>3
<1>5. k * CacheSize \in Nat /\ n * CacheSize \in Nat
  BY <1>2
<1>6. q + CacheSize <= x
  BY <1>1, <1>2, <1>4, <1>5
<1> QED BY <1>6, Sizes

\* Every position lies in one purge.
LEMMA PositionInPurge ==
  ASSUME NEW p \in Positions
  PROVE  \E q \in PurgeEnds, i \in 0..LastCachePos : p = q + i
<1> DEFINE S == {q \in PurgeEnds : q <= p}
<1>1. p \in Nat /\ p < LastPurgePos /\ CacheSize = LastCachePos + 1 /\ LastCachePos \in Nat
  BY Sizes DEF Positions
<1>2. S \subseteq 0..p /\ S # {}
  <2>1. \A q \in PurgeEnds : q \in Nat
    BY Sizes
  <2>2. 0 \in S
    BY <1>1, Sizes
  <2> QED BY <1>1, <2>1, <2>2
<1>3. PICK q \in S : \A r \in S : r <= q
  <2> HIDE DEF S
  <2> QED BY <1>1, <1>2, GreatestBelow
<1>4. q \in PurgeEnds /\ q <= p /\ q \in Nat /\ q + CacheSize \in PurgeEnds
  BY <1>1, <1>3, PurgeFits, Sizes
<1>5. ~(q + CacheSize <= p)
  BY <1>1, <1>3, <1>4
<1>6. p - q \in 0..LastCachePos /\ p = q + (p - q)
  BY <1>1, <1>4, <1>5
<1> QED BY <1>4, <1>6

\* A log is what its table says up to x.
LEMMA LogFrame ==
  ASSUME NEW m \in Maps, NEW ctl, NEW pc, NEW cur \in Chunks, NEW s, NEW t, NEW u,
         NEW x \in PurgeEnds,
         \A c \in Chunks : ctl[c] # Torn => ctl[c] \in ChunkCtls,
         ctl[cur] # Torn => ctl[cur].start = FirstPos(cur),
         Log(m, ctl, pc, cur, s, t, x),
         \A p \in Positions : FirstPos(cur) <= p /\ p < x => u[p] = t[p]
  PROVE  Log(m, ctl, pc, cur, s, u, x)
<1>1. Agrees(m, ctl, cur, s, u, x)
  <2>1. \A c \in Chunks, p \in Positions, b \in Blocks :
          Says(ctl, cur, u, x, c, p, b) <=> Says(ctl, cur, t, x, c, p, b)
    BY DEF Says
  <2>2. \A b \in Blocks : m[b] # NotMapped => m[b][1] \in Chunks /\ m[b][2] \in Positions
    BY DEF Maps, Places
  <2> QED BY <2>1, <2>2 DEF Log, Agrees
<1>2. OwnControl(ctl, cur, s, u, x)
  <2> SUFFICES ASSUME ctl[cur] # Torn, ctl[cur].scn = s
               PROVE  /\ ctl[cur].end <= x
                      /\ \A p \in Positions : ctl[cur].start <= p /\ p < ctl[cur].end
                                                => ctl[cur].lba[p] = u[p]
    BY DEF OwnControl
  <2>1. ctl[cur].end \in Nat /\ ctl[cur].end <= x /\ x \in Nat
    BY Sizes DEF Log, OwnControl, ChunkCtls
  <2> QED BY <2>1 DEF Log, OwnControl, Positions
<1>3. PurgesFollow(pc, cur, s, u, x)
  <2>1. ASSUME NEW q \in PurgeEnds, FirstPos(cur) <= q, q < x, NEW i \in 0..LastCachePos
        PROVE  u[q + i] = t[q + i]
    <3>1. q + CacheSize <= x /\ q \in Nat /\ x \in Nat /\ CacheSize = LastCachePos + 1
          /\ LastCachePos \in Nat /\ x <= LastPurgePos /\ LastPurgePos \in Nat
          /\ FirstPos(cur) \in Nat
      BY <2>1, PurgesApart, SmallNumbers, Sizes
    <3> QED BY <2>1, <3>1 DEF Positions
  <2> QED BY <2>1 DEF Log, PurgesFollow
<1> QED BY <1>1, <1>2, <1>3 DEF Log

\* Once the log is loaded nothing is left to be recovered.
LEMMA LoadedKnows ==
  ASSUME Loaded'
  PROVE  Positioned' /\ ScannedMap' /\ Resumable'
<1>1. Positioned'
  BY Geometry DEF Loaded, Positioned
<1> QED BY <1>1 DEF ScannedMap, Resumable

\* ExecutePurgeCache enters the cache in the table behind PurgePos.
LEMMA PurgeBeginsKeepsMap ==
  ASSUME IInv, Order, MapInv, WritePurge \/ FlushPurge
  PROVE  MapInv'
<1>1. /\ ExecutePurgeCache /\ step = "handler" /\ step' = "purge" /\ ~CacheOpen /\ RelocationDone
      /\ UNCHANGED <<scan, Map, Used, chunkCtl, purgeCtl, ChunkNo, SCN, PurgePos, NextChunkNo,
                     cacheVars, relocVars, mode>>
      /\ ChunkLBA' = RecordPurge([p \in PurgeRange |-> PurgedLBA(p)])
  BY DEF WritePurge, FlushPurge, Ready, Writing, Flushing, ExecutePurgeCache, diskVars, MapInv,
     Relocation, PacePhases
<1>2. Loaded /\ Loaded'
  BY <1>1 DEF Order, OrderPhases, Loaded
<1>3. \A p \in Positions : p < PurgePos => ChunkLBA'[p] = ChunkLBA[p]
  BY <1>1, PurgePosition DEF RecordPurge, PurgeRange, IInv, TypeOK
<1>4. Log(Map, chunkCtl, purgeCtl, ChunkNo, SCN[ChunkNo], ChunkLBA', PurgePos)
  <2>1. Map \in Maps /\ ChunkNo \in Chunks /\ PurgePos \in PurgeEnds
        /\ \A c \in Chunks : chunkCtl[c] # Torn => chunkCtl[c] \in ChunkCtls
    BY DEF IInv, TypeOK, LogTypeOK, DiskTypeOK, Maps
  <2> QED BY <1>2, <1>3, <2>1, LogFrame DEF MapInv, Running, Medium, Present
<1>5. Running'
  BY <1>1, <1>2, <1>4 DEF MapInv, Running, Present
<1>6. Medium'
  BY <1>1 DEF MapInv, Medium, Present
<1>7. Relocation'
  BY <1>1, RelocationFrame DEF IInv, MapInv, relocVars, cacheVars, Cached, CachedAt, CacheOpen
<1>8. Unacknowledged'
  BY <1>1, UnacknowledgedFrame DEF IInv, MapInv, relocVars, cacheVars
<1> QED BY <1>2, <1>5, <1>6, <1>7, <1>8, LoadedKnows DEF MapInv

-----------------------------------------------------------------------------
(* What a write leaves on the medium *)

\* A control of the current chunk that is written, or torn, says nothing new.
LEMMA ControlWriteKeepsLog ==
  ASSUME IInv, Order, MapInv, Loaded, UNCHANGED purgeCtl,
         \A c \in Chunks \ {ChunkNo} : chunkCtl'[c] = chunkCtl[c],
         chunkCtl'[ChunkNo] \in {NewChunkCtl, Torn}
  PROVE  /\ Medium'
         /\ Log(Map, chunkCtl', purgeCtl', ChunkNo, SCN[ChunkNo], ChunkLBA, PurgePos)
         /\ chunkCtl'[ChunkNo] # Torn /\ chunkCtl'[ChunkNo].scn = SCN[ChunkNo]
              /\ chunkCtl'[ChunkNo].end = LastPurgePos => chunkCtl'[ChunkNo].next = NextChunkNo
<1>1. /\ ChunkNo \in Chunks /\ SCN[ChunkNo] \in Nat /\ PurgePos \in Nat /\ Positioned
      /\ FirstPos(ChunkNo) <= PurgePos
      /\ \A c \in Chunks \ {ChunkNo} : chunkCtl[c] # Torn =>
           chunkCtl[c].scn \in Nat /\ chunkCtl[c].scn < SCN[ChunkNo]
  <2>1. Positioned
    BY Geometry DEF Loaded, Positioned
  <2> QED BY <2>1, OrderTypes, PurgePosition
          DEF IInv, TypeOK, Order, Ordered, Present, ChunkCtls, MapInv, Running, Log
<1>2. chunkCtl'[ChunkNo] # Torn =>
        /\ chunkCtl'[ChunkNo].scn = SCN[ChunkNo] /\ chunkCtl'[ChunkNo].start = FirstPos(ChunkNo)
        /\ chunkCtl'[ChunkNo].end = PurgePos /\ chunkCtl'[ChunkNo].lba = ChunkLBA
        /\ chunkCtl'[ChunkNo].next = NextChunkNo
  BY DEF NewChunkCtl
<1>3. Medium'
  <2>1. \A c \in Chunks : Present(c)' => chunkCtl'[c].start = FirstPos(c) /\ FirstPos(c) <= chunkCtl'[c].end
    BY <1>1, <1>2 DEF MapInv, Medium, Present
  <2>2. \A c \in Chunks \ {ChunkNo} : chunkCtl'[c] # Torn =>
          chunkCtl'[c].scn \in Nat /\ chunkCtl'[c].scn < SCN[ChunkNo]
    BY <1>1
  <2>3. ASSUME NEW c \in Chunks, NEW d \in Chunks, chunkCtl'[c] # Torn, chunkCtl'[d] # Torn, c # d
        PROVE  chunkCtl'[c].scn # chunkCtl'[d].scn
    <3>1. CASE c # ChunkNo /\ d # ChunkNo
      BY <2>3, <3>1 DEF MapInv, Medium, Present
    <3>2. CASE c = ChunkNo
      BY <1>1, <1>2, <2>2, <2>3, <3>2
    <3>3. CASE d = ChunkNo
      BY <1>1, <1>2, <2>2, <2>3, <3>3
    <3> QED BY <3>1, <3>2, <3>3
  <2> QED BY <2>1, <2>3 DEF Medium, Present
<1>4. Log(Map, chunkCtl', purgeCtl', ChunkNo, SCN[ChunkNo], ChunkLBA, PurgePos)
  <2>1. Log(Map, chunkCtl, purgeCtl, ChunkNo, SCN[ChunkNo], ChunkLBA, PurgePos)
    BY DEF MapInv, Running
  <2>2. Agrees(Map, chunkCtl', ChunkNo, SCN[ChunkNo], ChunkLBA, PurgePos)
    <3>1. \A c \in Chunks :
            /\ \A p, b : Says(chunkCtl', ChunkNo, ChunkLBA, PurgePos, c, p, b)
                            <=> Says(chunkCtl, ChunkNo, ChunkLBA, PurgePos, c, p, b)
            /\ Age(chunkCtl', ChunkNo, SCN[ChunkNo], c) = Age(chunkCtl, ChunkNo, SCN[ChunkNo], c)
      BY DEF Says, Age, Named
    <3>2. \A b \in Blocks : Map[b] # NotMapped => Map[b][1] \in Chunks
      BY DEF IInv, TypeOK, LogTypeOK, Places
    <3> QED BY <2>1, <3>1, <3>2 DEF Log, Agrees
  <2>3. OldControl(chunkCtl', ChunkNo, SCN[ChunkNo])
    BY <1>1, <1>2 DEF OldControl
  <2>4. OwnControl(chunkCtl', ChunkNo, SCN[ChunkNo], ChunkLBA, PurgePos)
    BY <1>1, <1>2 DEF OwnControl
  <2> QED BY <2>1, <2>2, <2>3, <2>4 DEF Log
<1> QED BY <1>2, <1>3, <1>4

\* A purge that is written, or torn, adds itself and no other.
LEMMA PurgeWriteKeepsLog ==
  ASSUME IInv, Order, MapInv, Loaded, UNCHANGED chunkCtl, step = "purge",
         purgeCtl' \in {[purgeCtl EXCEPT ![<<ChunkNo, PurgePos>>] = NewPurgeCtl],
                       [purgeCtl EXCEPT ![<<ChunkNo, PurgePos>>] = Torn]}
  PROVE  /\ Log(Map, chunkCtl', purgeCtl', ChunkNo, SCN[ChunkNo], ChunkLBA, PurgePos)
         /\ PurgesOlder(purgeCtl', ChunkNo, SCN[ChunkNo], PurgePos + 1)
         /\ PurgeOnMedium(purgeCtl') =>
              \A i \in 0..LastCachePos :
                purgeCtl'[<<ChunkNo, PurgePos>>].lba[i] = PurgedLBA(PurgePos + i)
<1>1. /\ PurgePos < LastPurgePos /\ <<ChunkNo, PurgePos>> \in PurgePlaces
      /\ purgeCtl \in [PurgePlaces -> PurgeCtls \cup {Torn}]
      /\ PurgePos \in Nat /\ PurgePos \in PurgeEnds /\ ChunkNo \in Chunks
  BY PurgeInside DEF IInv, CachePhases, TypeOK, LogTypeOK, DiskTypeOK
<1>2. /\ purgeCtl'[<<ChunkNo, PurgePos>>] \in {NewPurgeCtl, Torn}
      /\ \A l \in PurgePlaces : l # <<ChunkNo, PurgePos>> => purgeCtl'[l] = purgeCtl[l]
  BY <1>1
<1>3. Log(Map, chunkCtl, purgeCtl, ChunkNo, SCN[ChunkNo], ChunkLBA, PurgePos)
      /\ PurgesOlder(purgeCtl, ChunkNo, SCN[ChunkNo], PurgePos + 1)
  BY DEF MapInv, Running
<1>4. ASSUME NEW q \in PurgeEnds, q < PurgePos
      PROVE  purgeCtl'[<<ChunkNo, q>>] = purgeCtl[<<ChunkNo, q>>]
  <2>1. <<ChunkNo, q>> \in PurgePlaces /\ q # PurgePos
    BY <1>1, <1>4, PurgesApart, PurgeFits, Sizes
  <2> QED BY <1>2, <2>1
<1>5. PurgesFollow(purgeCtl', ChunkNo, SCN[ChunkNo], ChunkLBA, PurgePos)
  BY <1>3, <1>4 DEF Log, PurgesFollow
<1>6. PurgesOlder(purgeCtl', ChunkNo, SCN[ChunkNo], PurgePos + 1)
  BY <1>1, <1>2, <1>3 DEF PurgesOlder, NewPurgeCtl
<1>7. PurgeOnMedium(purgeCtl') =>
        \A i \in 0..LastCachePos : purgeCtl'[<<ChunkNo, PurgePos>>].lba[i] = PurgedLBA(PurgePos + i)
  <2>1. PurgeOnMedium(purgeCtl') => purgeCtl'[<<ChunkNo, PurgePos>>] = NewPurgeCtl
    BY <1>2 DEF PurgeOnMedium
  <2>2. \A i \in 0..LastCachePos : NewPurgeCtl.lba[i] = PurgedLBA(PurgePos + i)
    BY DEF NewPurgeCtl
  <2> QED BY <2>1, <2>2
<1> QED BY <1>3, <1>5, <1>6, <1>7 DEF Log

\* Whatever a write reaches, the log in memory is the one on the medium, but for a purge
\* that the cache would repeat.
LEMMA WriteReachesLog ==
  ASSUME IInv, Order, MapInv, Loaded, NEW effect, WriteReaches(effect)
  PROVE  /\ Medium'
         /\ Log(Map, chunkCtl', purgeCtl', ChunkNo, SCN[ChunkNo], ChunkLBA, PurgePos)
         /\ PurgesOlder(purgeCtl', ChunkNo, SCN[ChunkNo], PurgePos + 1)
         /\ chunkCtl'[ChunkNo] # Torn /\ chunkCtl'[ChunkNo].scn = SCN[ChunkNo]
              /\ chunkCtl'[ChunkNo].end = LastPurgePos => chunkCtl'[ChunkNo].next = NextChunkNo
         /\ PurgeOnMedium(purgeCtl') =>
              /\ ~CacheOpen /\ RelocationDone /\ RelocationPrepared
              /\ \A i \in 0..LastCachePos :
                   purgeCtl'[<<ChunkNo, PurgePos>>].lba[i] = PurgedLBA(PurgePos + i)
<1>1. CASE UNCHANGED <<chunkCtl, purgeCtl>>
  <2>1. PurgeOnMedium(purgeCtl') => PurgeOnMedium(purgeCtl)
    BY <1>1
  <2> QED BY <1>1, <2>1 DEF MapInv, Medium, Running, Present, Unacknowledged
<1>2. CASE /\ step = "purge" /\ UNCHANGED chunkCtl
           /\ purgeCtl' \in {[purgeCtl EXCEPT ![<<ChunkNo, PurgePos>>] = NewPurgeCtl],
                            [purgeCtl EXCEPT ![<<ChunkNo, PurgePos>>] = Torn]}
  <2>1. Medium'
    BY <1>2 DEF MapInv, Medium, Present
  <2>2. ~CacheOpen /\ RelocationDone /\ RelocationPrepared
    BY <1>2 DEF MapInv, Relocation, PacePhases
  <2> QED BY <1>2, <2>1, <2>2, PurgeWriteKeepsLog DEF MapInv, Running, Present
<1>3. CASE /\ step = "finalize" /\ UNCHANGED purgeCtl
           /\ chunkCtl' \in {[chunkCtl EXCEPT ![ChunkNo] = NewChunkCtl], [chunkCtl EXCEPT ![ChunkNo] = Torn]}
  <2>1. /\ \A c \in Chunks \ {ChunkNo} : chunkCtl'[c] = chunkCtl[c]
        /\ chunkCtl'[ChunkNo] \in {NewChunkCtl, Torn}
    BY <1>3 DEF IInv, TypeOK, LogTypeOK, DiskTypeOK
  <2>2. PurgeOnMedium(purgeCtl') => PurgeOnMedium(purgeCtl)
    BY <1>3
  <2> QED BY <1>3, <2>1, <2>2, ControlWriteKeepsLog DEF MapInv, Running, Unacknowledged
<1> QED BY <1>1, <1>2, <1>3 DEF WriteReaches, diskVars

\* The control of the chunk is written, or any request of the thread fails.
LEMMA PurgeChunkDoneKeepsMap ==
  ASSUME IInv, Order, MapInv, PurgeChunkDone
  PROVE  MapInv'
<1>1. /\ step = "finalize" /\ step' = "handler" /\ WriteReaches("all") /\ UNCHANGED purgeCtl
      /\ UNCHANGED <<mode, Map, Used, SCN, ChunkNo, NextChunkNo, ChunkLBA, PurgePos, cacheVars,
                     relocVars, scan>>
  BY DEF PurgeChunkDone, WriteReaches
<1>2. Loaded /\ Loaded'
  BY <1>1 DEF Order, OrderPhases, Loaded
<1>3. Medium' /\ Running'
  <2>1. /\ Medium'
        /\ Log(Map, chunkCtl', purgeCtl', ChunkNo, SCN[ChunkNo], ChunkLBA, PurgePos)
        /\ PurgesOlder(purgeCtl', ChunkNo, SCN[ChunkNo], PurgePos + 1)
        /\ chunkCtl'[ChunkNo] # Torn /\ chunkCtl'[ChunkNo].scn = SCN[ChunkNo]
             /\ chunkCtl'[ChunkNo].end = LastPurgePos => chunkCtl'[ChunkNo].next = NextChunkNo
    BY <1>1, <1>2, WriteReachesLog
  <2> QED BY <1>1, <1>2, <2>1 DEF Running, Present
<1>4. Relocation'
  BY <1>1, RelocationFrame DEF IInv, MapInv, cacheVars, relocVars, Relocation, PacePhases, Cached,
     CachedAt
<1>5. Unacknowledged'
  BY <1>1, UnacknowledgedFrame DEF IInv, MapInv, cacheVars, relocVars
<1> QED BY <1>2, <1>3, <1>4, <1>5, LoadedKnows DEF MapInv

\* A purge that fails may have reached the medium: from now on it is unacknowledged.
LEMMA IoFailsKeepsMap ==
  ASSUME IInv, Order, MapInv, IoFails
  PROVE  MapInv'
<1>1. /\ step # "idle" /\ step' = "handler" /\ mode' # "ACTIVE"
      /\ UNCHANGED <<Map, Used, SCN, ChunkNo, NextChunkNo, ChunkLBA, PurgePos, cacheVars,
                     relocVars, scan>>
  BY DEF IoFails, Degrade, logVars
<1>2. PICK effect \in Effects : WriteReaches(effect)
  BY DEF IoFails
<1>3. Loaded /\ Loaded'
  BY <1>1 DEF Order, OrderPhases, Loaded
<1>4. /\ Medium'
      /\ Log(Map, chunkCtl', purgeCtl', ChunkNo, SCN[ChunkNo], ChunkLBA, PurgePos)
      /\ PurgesOlder(purgeCtl', ChunkNo, SCN[ChunkNo], PurgePos + 1)
      /\ chunkCtl'[ChunkNo] # Torn /\ chunkCtl'[ChunkNo].scn = SCN[ChunkNo]
           /\ chunkCtl'[ChunkNo].end = LastPurgePos => chunkCtl'[ChunkNo].next = NextChunkNo
      /\ PurgeOnMedium(purgeCtl') =>
           /\ ~CacheOpen /\ RelocationDone /\ RelocationPrepared
           /\ \A i \in 0..LastCachePos :
                purgeCtl'[<<ChunkNo, PurgePos>>].lba[i] = PurgedLBA(PurgePos + i)
  BY <1>2, <1>3, WriteReachesLog
<1>5. Running'
  BY <1>1, <1>3, <1>4 DEF Running, Present
<1>6. Unacknowledged'
  <2> SUFFICES ASSUME PurgeOnMedium(purgeCtl)'
               PROVE  /\ ~CacheOpen' /\ RelocationDone' /\ RelocationPrepared'
                      /\ \A i \in 0..LastCachePos :
                           purgeCtl'[<<ChunkNo', PurgePos'>>].lba[i] = PurgedLBA(PurgePos + i)'
    BY <1>1 DEF Unacknowledged
  <2>1. PurgeOnMedium(purgeCtl')
    BY <1>1 DEF PurgeOnMedium
  <2>2. CacheOpen' <=> CacheOpen
    BY <1>1 DEF CacheOpen, cacheVars
  <2>3. \A i \in 0..LastCachePos : PurgedLBA(PurgePos + i)' = PurgedLBA(PurgePos + i)
    BY <1>1 DEF PurgedLBA, cacheVars
  <2> QED BY <1>1, <1>4, <2>1, <2>2, <2>3 DEF relocVars
<1>7. Relocation'
  BY <1>1, RelocationFrame DEF IInv, MapInv, cacheVars, relocVars, Relocation, PacePhases, Cached,
     CachedAt
<1> QED BY <1>3, <1>4, <1>5, <1>6, <1>7, LoadedKnows DEF MapInv
-----------------------------------------------------------------------------
(* A purge that is on the medium *)

\* From when a purge begins the table holds what is being written.
Recorded == step = "purge" => \A p \in PurgeRange : ChunkLBA[p] = PurgedLBA(p)

\* The map after the blocks of the cache have been purged.
Purged == Moved(Map, [p \in PurgeRange |-> PurgedLBA(p)], PurgePos..(PurgePos + Len(cache) - 1),
                ChunkNo)

\* A purge of the cache makes the log longer.
LEMMA PurgeExtendsLog ==
  ASSUME IInv, Order, Loaded, PurgePos < LastPurgePos, NEW ctl, NEW pc, NEW t,
         Log(Map, ctl, pc, ChunkNo, SCN[ChunkNo], ChunkLBA, PurgePos),
         \A c \in Chunks : ctl[c] # Torn => ctl[c] \in ChunkCtls,
         \A c \in Chunks \ {ChunkNo} : ctl[c] = chunkCtl[c],
         \A p \in PurgeRange : t[p] = PurgedLBA(p),
         \A p \in Positions : p < PurgePos => t[p] = ChunkLBA[p],
         pc[<<ChunkNo, PurgePos>>] # Torn, pc[<<ChunkNo, PurgePos>>].scn = SCN[ChunkNo],
         \A i \in 0..LastCachePos : pc[<<ChunkNo, PurgePos>>].lba[i] = PurgedLBA(PurgePos + i)
  PROVE  /\ Purged \in Maps /\ In(Purged, NextChunkNo) = Uncached
         /\ \A b \in Blocks : ~Cached(b) => Purged[b] = Map[b]
         /\ Log(Purged, ctl, pc, ChunkNo, SCN[ChunkNo], t, PurgePos + CacheSize)
<1> DEFINE lba == [p \in PurgeRange |-> PurgedLBA(p)]
           P   == PurgePos..(PurgePos + Len(cache) - 1)
<1>1. Positioned
  BY Geometry DEF Loaded, Positioned
<1>2. /\ PurgePos \in PurgeEnds /\ PurgePos \in Nat /\ LastCachePos \in Nat /\ Len(cache) \in Nat
      /\ CacheSize = LastCachePos + 1 /\ FirstPos(ChunkNo) \in Nat
      /\ Len(cache) <= LastCachePos /\ ChunkNo \in Chunks /\ NextChunkNo \in Chunks
      /\ Map \in Maps /\ SCN[ChunkNo] \in Nat /\ PurgePos # LastPurgePos
  BY PurgePosition, Sizes, LenProperties DEF IInv, TypeOK, LogTypeOK, CacheTypeOK, CacheConsistent,
     Maps, FirstPos
<1>3. P \subseteq PurgeRange /\ PurgeRange \subseteq Positions
  <2>1. PurgeRange \subseteq Positions
    BY PurgeInside DEF IInv, TypeOK
  <2> QED BY <1>2, <2>1 DEF PurgeRange
<1>4. \A c \in Chunks \ {ChunkNo} :
        ctl[c] # Torn => ctl[c].scn \in Nat /\ ctl[c].scn < SCN[ChunkNo]
  <2>1. \A c \in Chunks : ctl[c] # Torn => ctl[c].scn \in Nat
    BY DEF ChunkCtls
  <2> QED BY <1>1, <2>1, OrderTypes DEF IInv, Order, Ordered, Present
<1>5. ASSUME NEW p \in PurgeRange
      PROVE  lba[p] = PurgedLBA(p) /\ t[p] = lba[p] /\ (p \notin P => lba[p] \notin Blocks)
  <2>1. p \in Nat /\ p >= PurgePos
    BY <1>2 DEF PurgeRange
  <2>2. p \notin P => PurgedLBA(p) = NotMapped
    BY <1>2, <2>1 DEF PurgedLBA
  <2> QED BY <2>2, Parameters
<1>6. \A b \in Blocks : NamedAt(lba, P, b) = {} <=> ~Cached(b)
  <2>1. ASSUME NEW b \in Blocks, NEW p \in P, lba[p] = b PROVE Cached(b)
    <3>1. p - PurgePos + 1 \in 1..Len(cache) /\ cache[p - PurgePos + 1].lba = b
      BY <1>2, <1>3, <1>5, <2>1 DEF PurgedLBA
    <3> QED BY <3>1 DEF Cached, CachedAt
  <2>2. ASSUME NEW b \in Blocks, NEW i \in 1..Len(cache), cache[i].lba = b
        PROVE  \E p \in P : lba[p] = b
    <3>1. PurgePos + i - 1 \in P /\ (PurgePos + i - 1) - PurgePos = i - 1
          /\ i - 1 < Len(cache) /\ (i - 1) + 1 = i
      BY <1>2
    <3>2. PurgedLBA(PurgePos + i - 1) = b
      BY <2>2, <3>1 DEF PurgedLBA
    <3> QED BY <1>3, <1>5, <3>1, <3>2
  <2> QED BY <2>1, <2>2 DEF NamedAt, Cached, CachedAt
<1>7. Purged = Moved(Map, lba, P, ChunkNo)
  BY DEF Purged
<1>8. /\ Moved(Map, lba, P, ChunkNo) \in Maps
      /\ Agrees(Moved(Map, lba, P, ChunkNo), ctl, ChunkNo, SCN[ChunkNo], t, PurgePos + CacheSize)
  <2>1. Agrees(Map, ctl, ChunkNo, SCN[ChunkNo], ChunkLBA, PurgePos) /\ FirstPos(ChunkNo) <= PurgePos
    BY DEF Log
  <2>2. \A p \in PurgePos..(PurgePos + LastCachePos) :
          t[p] = lba[p] /\ (p \notin P => lba[p] \notin Blocks)
    BY <1>5 DEF PurgeRange
  <2>3. P \in SUBSET (PurgePos..(PurgePos + LastCachePos))
    BY <1>3 DEF PurgeRange
  <2> HIDE DEF lba, P
  <2>4. \A p \in Positions : p < PurgePos => t[p] = ChunkLBA[p]
    OBVIOUS
  <2> QED BY <1>2, <1>4, <2>1, <2>2, <2>3, <2>4, PurgeAgrees
<1>9. In(Purged, NextChunkNo) = Uncached
  <2>1. NextChunkNo # ChunkNo
    BY DEF Order, Closed
  <2>2. P \in SUBSET Positions
    BY <1>3
  <2> HIDE DEF lba, P
  <2>3. \A b \in Blocks : b \in In(Purged, NextChunkNo)
                           <=> b \in In(Map, NextChunkNo) /\ NamedAt(lba, P, b) = {}
    BY <1>2, <1>7, <2>1, <2>2, MovedLeaves
  <2> QED BY <1>6, <2>3 DEF Uncached, In
<1>10. \A b \in Blocks : ~Cached(b) => Purged[b] = Map[b]
  BY <1>6, <1>7 DEF Moved
<1>11. PurgesFollow(pc, ChunkNo, SCN[ChunkNo], t, PurgePos + CacheSize)
  <2> SUFFICES ASSUME NEW q \in PurgeEnds, FirstPos(ChunkNo) <= q, q < PurgePos + CacheSize
               PROVE  /\ pc[<<ChunkNo, q>>] # Torn /\ pc[<<ChunkNo, q>>].scn = SCN[ChunkNo]
                      /\ \A i \in 0..LastCachePos : pc[<<ChunkNo, q>>].lba[i] = t[q + i]
    BY DEF PurgesFollow
  <2>1. q \in Nat
    BY Sizes
  <2>2. CASE q < PurgePos
    <3>1. q + CacheSize <= PurgePos
      BY <1>2, <2>2, PurgesApart
    <3>2. \A i \in 0..LastCachePos : q + i \in Positions /\ q + i < PurgePos
      BY <1>2, <2>1, <3>1, Sizes DEF Positions
    <3>3. /\ pc[<<ChunkNo, q>>] # Torn /\ pc[<<ChunkNo, q>>].scn = SCN[ChunkNo]
          /\ \A i \in 0..LastCachePos : pc[<<ChunkNo, q>>].lba[i] = ChunkLBA[q + i]
      BY <2>2 DEF Log, PurgesFollow
    <3>4. \A i \in 0..LastCachePos : t[q + i] = ChunkLBA[q + i]
      BY <3>2
    <3> QED BY <3>3, <3>4
  <2>3. CASE q = PurgePos
    <3>1. \A i \in 0..LastCachePos : PurgePos + i \in PurgeRange
      BY <1>2 DEF PurgeRange
    <3>2. \A i \in 0..LastCachePos : pc[<<ChunkNo, PurgePos>>].lba[i] = t[PurgePos + i]
      BY <3>1
    <3>3. \A i \in 0..LastCachePos : pc[<<ChunkNo, q>>].lba[i] = t[q + i]
      BY <2>3, <3>2
    <3>4. pc[<<ChunkNo, q>>] # Torn /\ pc[<<ChunkNo, q>>].scn = SCN[ChunkNo]
      BY <2>3
    <3> QED BY <3>3, <3>4
  <2>4. q < PurgePos \/ q = PurgePos
    <3>1. ~(PurgePos < q)
      BY <1>2, <2>1, PurgesApart
    <3> QED BY <1>2, <2>1, <3>1
  <2> QED BY <2>2, <2>3, <2>4
<1>12. OwnControl(ctl, ChunkNo, SCN[ChunkNo], t, PurgePos + CacheSize)
  <2> SUFFICES ASSUME ctl[ChunkNo] # Torn, ctl[ChunkNo].scn = SCN[ChunkNo]
               PROVE  /\ ctl[ChunkNo].end <= PurgePos + CacheSize
                      /\ \A p \in Positions : ctl[ChunkNo].start <= p /\ p < ctl[ChunkNo].end
                                                => ctl[ChunkNo].lba[p] = t[p]
    BY DEF OwnControl
  <2>1. ctl[ChunkNo].end \in Nat /\ ctl[ChunkNo].end <= PurgePos
    <3>1. ctl[ChunkNo] \in ChunkCtls
      BY <1>2
    <3>2. ctl[ChunkNo].end \in PurgeEnds
      BY <3>1 DEF ChunkCtls
    <3> QED BY <3>2, Sizes DEF Log, OwnControl
  <2>2. \A p \in Positions : ctl[ChunkNo].start <= p /\ p < ctl[ChunkNo].end
                             => ctl[ChunkNo].lba[p] = ChunkLBA[p]
    BY DEF Log, OwnControl
  <2>3. \A p \in Positions : p < ctl[ChunkNo].end => t[p] = ChunkLBA[p]
    BY <1>2, <2>1 DEF Positions
  <2> QED BY <1>2, <2>1, <2>2, <2>3
<1>13. Log(Purged, ctl, pc, ChunkNo, SCN[ChunkNo], t, PurgePos + CacheSize)
  BY <1>2, <1>7, <1>8, <1>11, <1>12 DEF Log
<1> QED BY <1>7, <1>8, <1>9, <1>10, <1>13

\* A purge written in full is there.
LEMMA NewPurge ==
  ASSUME TypeOK, PurgePos < LastPurgePos,
         purgeCtl' = [purgeCtl EXCEPT ![<<ChunkNo, PurgePos>>] = NewPurgeCtl]
  PROVE  /\ purgeCtl'[<<ChunkNo, PurgePos>>] # Torn
         /\ purgeCtl'[<<ChunkNo, PurgePos>>].scn = SCN[ChunkNo]
         /\ \A i \in 0..LastCachePos : purgeCtl'[<<ChunkNo, PurgePos>>].lba[i] = PurgedLBA(PurgePos + i)
<1>1. purgeCtl'[<<ChunkNo, PurgePos>>] = NewPurgeCtl
  BY PurgeInside DEF TypeOK, DiskTypeOK
<1>2. NewPurgeCtl \in PurgeCtls
  <2>1. \A i \in 0..LastCachePos : PurgedLBA(PurgePos + i) \in Blocks \cup {NotMapped}
    BY Sizes, PurgedTypes DEF TypeOK
  <2> QED BY <2>1 DEF NewPurgeCtl, PurgeCtls, TypeOK, LogTypeOK
<1>3. NewPurgeCtl.scn = SCN[ChunkNo]
      /\ \A i \in 0..LastCachePos : NewPurgeCtl.lba[i] = PurgedLBA(PurgePos + i)
  BY DEF NewPurgeCtl
<1> QED BY <1>1, <1>2, <1>3, TornIsNoControl

\* No block is mapped to a chunk younger than the current one, so UpdateMap moves them all.
LEMMA PurgeMoves ==
  ASSUME IInv, Order, Loaded, PurgeCacheDone
  PROVE  Map' = Purged
<1>1. UpdateMap([p \in PurgeRange |-> PurgedLBA(p)], PurgePos..(PurgePos + Len(cache) - 1), ChunkNo, SCN)
  BY DEF PurgeCacheDone
<1>2. Positioned
  BY Geometry DEF Loaded, Positioned
<1>3. ASSUME NEW b \in Blocks, Map[b] # NotMapped PROVE SCN[Map[b][1]] <= SCN[ChunkNo]
  <2>1. Map[b][1] \in Chunks /\ SCN \in [Chunks -> Nat] /\ ChunkNo \in Chunks
    BY <1>3 DEF IInv, TypeOK, LogTypeOK, Places
  <2>2. SCN[Map[b][1]] \in Nat /\ (Map[b][1] # ChunkNo => SCN[Map[b][1]] < SCN[ChunkNo])
    BY <1>2, <2>1 DEF Order, Ordered
  <2> QED BY <2>1, <2>2
<1> QED BY <1>1, <1>3, UpdateMoves DEF Purged

\* The purge is acknowledged: its blocks are mapped, and the next one has to be met.
LEMMA PurgeCacheDoneKeepsMap ==
  ASSUME IInv, IInv', Order, MapInv, Recorded, PurgeCacheDone
  PROVE  MapInv' /\ Used'[NextChunkNo] = Cardinality(Uncached)
<1>1. /\ step = "purge" /\ step' = "handler" /\ ~RelocationDone' /\ ~CacheDirty'
      /\ PurgePos' = PurgePos + CacheSize /\ WriteReaches("all")
      /\ purgeCtl' = [purgeCtl EXCEPT ![<<ChunkNo, PurgePos>>] = NewPurgeCtl]
      /\ UNCHANGED <<scan, SCN, ChunkNo, NextChunkNo, ChunkLBA, chunkCtl, mode, RelocationPrepared,
                     NextLBA, RelocatePos, RelocateMem, RelocateTarget, RelocateSource>>
  BY DEF PurgeCacheDone, WriteReaches
<1>2. /\ Loaded /\ Loaded' /\ Positioned /\ PurgePos < LastPurgePos
      /\ RelocationDone /\ RelocationPrepared
  BY <1>1, Geometry DEF IInv, CachePhases, Order, OrderPhases, Loaded, Positioned, MapInv, Relocation,
     PacePhases
<1>3. /\ PurgePos \in PurgeEnds /\ PurgePos \in Nat /\ PurgePos' \in PurgeEnds /\ PurgePos' \in Nat
      /\ CacheSize \in Nat /\ CacheSize > 0 /\ LastPurgePos \in Nat
      /\ ChunkNo \in Chunks /\ NextChunkNo \in Chunks /\ SCN[ChunkNo] \in Nat
      /\ purgeCtl \in [PurgePlaces -> PurgeCtls \cup {Torn}] /\ <<ChunkNo, PurgePos>> \in PurgePlaces
      /\ \A l \in PurgePlaces : purgeCtl'[l] # Torn => purgeCtl'[l] \in PurgeCtls
  BY <1>1, <1>2, PurgePosition, Sizes, PurgeInside DEF IInv, TypeOK, LogTypeOK, DiskTypeOK
<1>4. Map' = Purged
  BY <1>2, PurgeMoves
<1>5. /\ Log(Map, chunkCtl', purgeCtl', ChunkNo, SCN[ChunkNo], ChunkLBA, PurgePos)
      /\ PurgesOlder(purgeCtl', ChunkNo, SCN[ChunkNo], PurgePos + 1)
  BY <1>1, <1>2, WriteReachesLog
<1>6. /\ Purged \in Maps /\ In(Purged, NextChunkNo) = Uncached
      /\ \A b \in Blocks : ~Cached(b) => Purged[b] = Map[b]
      /\ Log(Purged, chunkCtl', purgeCtl', ChunkNo, SCN[ChunkNo], ChunkLBA, PurgePos + CacheSize)
  <2>1. /\ purgeCtl'[<<ChunkNo, PurgePos>>] # Torn
        /\ purgeCtl'[<<ChunkNo, PurgePos>>].scn = SCN[ChunkNo]
        /\ \A i \in 0..LastCachePos : purgeCtl'[<<ChunkNo, PurgePos>>].lba[i] = PurgedLBA(PurgePos + i)
    BY <1>1, <1>2, NewPurge DEF IInv
  <2>2. /\ \A c \in Chunks : chunkCtl'[c] # Torn => chunkCtl'[c] \in ChunkCtls
        /\ \A c \in Chunks \ {ChunkNo} : chunkCtl'[c] = chunkCtl[c]
    BY <1>1 DEF IInv, TypeOK, DiskTypeOK
  <2>3. \A p \in PurgeRange : ChunkLBA[p] = PurgedLBA(p)
    BY <1>1 DEF Recorded
  <2> QED BY <1>2, <1>5, <2>1, <2>2, <2>3, PurgeExtendsLog
<1>7. PurgesOlder(purgeCtl', ChunkNo, SCN[ChunkNo], PurgePos')
      /\ PurgesOlder(purgeCtl', ChunkNo, SCN[ChunkNo], PurgePos' + 1)
  <2>1. \A l \in PurgePlaces : l[2] \in Nat
    BY Sizes, Geometry DEF PurgePlaces
  <2> QED BY <1>1, <1>3, <1>5, <2>1 DEF PurgesOlder
<1>8. Running'
  BY <1>1, <1>2, <1>4, <1>6, <1>7 DEF MapInv, Running, Present
<1>9. Unacknowledged'
  <2>1. ~PurgeOnMedium(purgeCtl)'
    <3> SUFFICES ASSUME PurgePos' < LastPurgePos PROVE ~PurgeOnMedium(purgeCtl)'
      BY DEF PurgeOnMedium
    <3>1. <<ChunkNo, PurgePos'>> \in PurgePlaces /\ <<ChunkNo, PurgePos'>>[2] = PurgePos'
      BY <1>3, PurgeFits
    <3>2. purgeCtl'[<<ChunkNo, PurgePos'>>] # Torn => purgeCtl'[<<ChunkNo, PurgePos'>>].scn < SCN[ChunkNo]
                /\ purgeCtl'[<<ChunkNo, PurgePos'>>].scn \in Nat
      BY <1>3, <1>7, <3>1 DEF PurgesOlder, PurgeCtls
    <3> QED BY <1>1, <1>3, <3>2 DEF PurgeOnMedium
  <2> QED BY <2>1 DEF Unacknowledged
<1>10. Medium' /\ PacePhases'
  BY <1>1, <1>2 DEF MapInv, Medium, Present, PacePhases
<1>11. Used'[NextChunkNo] = Cardinality(Uncached)
  BY <1>1, <1>3, <1>4, <1>6 DEF IInv, UsedCounts, In
<1>12. ASSUME NEW b \in Blocks, NEW p \in Positions, Map'[b] = <<NextChunkNo, p>>
       PROVE  Map[b] = Map'[b] /\ ~Cached(b)
  <2>1. <<NextChunkNo, p>> \in Places
    BY <1>3 DEF Places
  <2>2. Map'[b] # NotMapped /\ Map'[b][1] = NextChunkNo
    BY <1>12, <2>1, Parameters
  <2>3. b \in Uncached
    BY <1>4, <1>6, <2>2 DEF In
  <2> QED BY <1>4, <1>6, <2>3 DEF Uncached
<1>13. Pace'
  <2>1. \A b \in Blocks, p \in Positions : Map'[b] = <<NextChunkNo, p>> => NextLBA[p] = b
    BY <1>2, <1>12 DEF MapInv, Relocation, Pace
  <2>2. ASSUME NEW p \in Positions, Live(p)', p < RelocatePos PROVE FALSE
    <3>1. NextLBA[p] \in Blocks /\ Map'[NextLBA[p]] = <<NextChunkNo, p>>
      BY <1>1, <2>2 DEF Live, IsLive
    <3>2. Live(p) /\ ~Cached(NextLBA[p])
      BY <1>12, <3>1 DEF Live, IsLive
    <3> QED BY <1>2, <2>2, <3>2 DEF MapInv, Relocation, Pace
  <2>3. RelocateSource * (LastPurgePos - PurgePos') >= RelocateTarget * Used'[NextChunkNo]
    <3>1. LastPurgePos - PurgePos' = LastPurgePos - CacheSize - PurgePos
      BY <1>1, <1>3
    <3> QED BY <1>2, <1>11, <3>1 DEF MapInv, Relocation, Pace
  <2> QED BY <1>1, <1>2, <2>1, <2>2, <2>3 DEF MapInv, Relocation, Pace
<1> QED BY <1>2, <1>8, <1>9, <1>10, <1>11, <1>13, LoadedKnows DEF MapInv, Relocation

-----------------------------------------------------------------------------
(* The next chunk *)

\* What is chosen for the next chunk fits behind the position of the current one.
LEMMA NextChunkHasRoom ==
  ASSUME IInv, NEW cur \in Chunks, NEW pos \in PurgeEnds, FindNextChunk(cur, pos),
         RoomFor(Map, cur, pos)
  PROVE  NextChunkNo' \in Chunks /\ NextChunkNo' # cur /\ Fits(Used[NextChunkNo'], pos)
<1>1. \A c \in Chunks : Used[c] = Cardinality(In(Map, c))
  BY DEF IInv, UsedCounts, In
<1>2. PICK n \in Chunks \ {cur} : Fits(Used[n], pos)
  BY <1>1 DEF RoomFor
<1>3. pos \in Nat /\ pos <= LastPurgePos /\ Used \in [Chunks -> Nat]
  BY Sizes DEF IInv, TypeOK, LogTypeOK
<1> QED BY <1>2, <1>3, FindNextFits

\* When a chunk is full relocation has emptied the next one.
LEMMA FullChunkSucceeds ==
  ASSUME IInv, MapInv, Loaded, PurgePos = LastPurgePos
  PROVE  Used[NextChunkNo] = 0 /\ In(Map, NextChunkNo) = {}
<1>1. Used[NextChunkNo] \in Nat /\ NextChunkNo \in Chunks /\ LastPurgePos \in Nat
  BY Sizes DEF IInv, TypeOK, LogTypeOK
<1>2. Used[NextChunkNo] = 0
  <2>1. CASE RelocationPrepared
    <3>1. RelocateTarget \in Nat /\ RelocateSource \in Nat /\ RelocateTarget > 0
          /\ RelocateSource * (LastPurgePos - LastPurgePos) >= RelocateTarget * Used[NextChunkNo]
      BY <2>1 DEF MapInv, Relocation, Pace, IInv, TypeOK, RelocationTypeOK
    <3>2. RelocateSource * (LastPurgePos - LastPurgePos) = 0
      BY <1>1, <3>1
    <3>3. Used[NextChunkNo] > 0 => RelocateTarget * Used[NextChunkNo] > 0
      BY <1>1, <3>1
    <3> QED BY <1>1, <3>1, <3>2, <3>3
  <2>2. CASE ~RelocationPrepared
    BY <1>1, <2>2, NoneFits DEF MapInv, Relocation, PacePhases
  <2> QED BY <2>1, <2>2
<1>3. Cardinality(In(Map, NextChunkNo)) = 0 /\ IsFiniteSet(In(Map, NextChunkNo))
  BY <1>1, <1>2, UncachedCounts, Counts DEF IInv, UsedCounts, In
<1> QED BY <1>2, <1>3, FS_EmptySet

\* The log moves on to a chunk no block is mapped to.
LEMMA SwitchChunkKeepsMap ==
  ASSUME Capacity, IInv, Order, MapInv, SwitchChunk
  PROVE  MapInv'
<1> DEFINE next == NextChunkNo
           s    == SCN[ChunkNo]
<1>1. /\ SCN' = [SCN EXCEPT ![next] = s + 1] /\ ChunkNo' = next
      /\ PurgePos = LastPurgePos /\ FinalizedPos = LastPurgePos /\ PurgePos' = FirstPos(next)
      /\ FindNextChunk(next, FirstPos(next)) /\ ~RelocationDone' /\ ~RelocationPrepared'
      /\ UNCHANGED <<scan, mode, Map, Used, ChunkLBA, cacheVars, step, chunkCtl, purgeCtl>>
      /\ step = "handler"
  BY DEF SwitchChunk, SucceedBy, Writing, FindNextChunk, diskVars
<1>2. Loaded /\ Loaded' /\ Positioned
  BY <1>1, Geometry DEF Order, OrderPhases, Loaded, Positioned
<1>3. /\ next \in Chunks /\ ChunkNo \in Chunks /\ next # ChunkNo /\ s \in Nat /\ Map \in Maps
      /\ chunkCtl[ChunkNo] # Torn /\ chunkCtl[ChunkNo].scn = s
      /\ chunkCtl[ChunkNo].start = FirstPos(ChunkNo) /\ chunkCtl[ChunkNo].end = LastPurgePos
      /\ SCN'[next] = s + 1 /\ FirstPos(next) \in PurgeEnds /\ FirstPos(next) \in Nat
      /\ FirstPos(next) # LastPurgePos
  BY <1>1, <1>2, SmallNumbers, Sizes
     DEF IInv, TypeOK, LogTypeOK, Order, Closed, Present, MapInv, Medium, Maps
<1>4. \A c \in Chunks : chunkCtl[c] # Torn =>
        chunkCtl[c].scn \in Nat /\ (c # ChunkNo => chunkCtl[c].scn < s) /\ chunkCtl[c].scn < s + 1
  <2>1. \A c \in Chunks : chunkCtl[c] # Torn => chunkCtl[c].scn \in Nat
    BY OrderTypes DEF IInv, Present, ChunkCtls
  <2>2. \A c \in Chunks \ {ChunkNo} : chunkCtl[c] # Torn => chunkCtl[c].scn < s
    BY <1>2, <2>1, OrderTypes DEF IInv, Order, Ordered, Present
  <2> QED BY <1>3, <2>1, <2>2
<1>5. /\ In(Map, next) = {}
      /\ Log(Map, chunkCtl, purgeCtl, ChunkNo, s, ChunkLBA, LastPurgePos)
      /\ PurgesOlder(purgeCtl, ChunkNo, s, PurgePos + 1)
  BY <1>1, <1>2, FullChunkSucceeds DEF MapInv, Running
<1>6. Log(Map, chunkCtl, purgeCtl, next, s + 1, ChunkLBA, FirstPos(next))
  <2>1. /\ Agrees(Map, chunkCtl, next, s + 1, ChunkLBA, FirstPos(next))
        /\ OldControl(chunkCtl, next, s + 1)
        /\ OwnControl(chunkCtl, next, s + 1, ChunkLBA, FirstPos(next))
    <3> HIDE DEF next, s
    <3> QED BY <1>3, <1>4, <1>5, LogSucceeds DEF Log
  <2>2. PurgesFollow(purgeCtl, next, s + 1, ChunkLBA, FirstPos(next))
    BY <1>3, Sizes DEF PurgesFollow
  <2> QED BY <1>3, <2>1, <2>2 DEF Log
<1>7. \A l \in PurgePlaces : purgeCtl[l] # Torn => purgeCtl[l].scn < s + 1 /\ purgeCtl[l].scn # s + 1
  <2>1. \A l \in PurgePlaces : purgeCtl[l] # Torn => purgeCtl[l].scn \in Nat
    BY DEF IInv, TypeOK, DiskTypeOK, PurgeCtls
  <2> QED BY <1>3, <1>5, <2>1 DEF PurgesOlder
<1>8. Running'
  <2>1. PurgesOlder(purgeCtl, next, s + 1, FirstPos(next) + 1)
    BY <1>7 DEF PurgesOlder
  <2>2. ~(chunkCtl[next] # Torn /\ chunkCtl[next].scn = s + 1)
    BY <1>3, <1>4
  <2> QED BY <1>1, <1>3, <1>6, <2>1, <2>2 DEF Running, Present
<1>9. Unacknowledged'
  <2>1. ~PurgeOnMedium(purgeCtl)'
    <3>1. <<next, FirstPos(next)>> \in PurgePlaces
      BY <1>3, PurgeFits
    <3> QED BY <1>1, <1>3, <1>7, <3>1 DEF PurgeOnMedium
  <2> QED BY <2>1 DEF Unacknowledged
<1>10. Medium'
  BY <1>1 DEF MapInv, Medium, Present
<1>11. Relocation'
  <2>1. Fits(Used[NextChunkNo'], FirstPos(next))
    <3>1. RoomFor(Map, next, FirstPos(next))
      BY <1>3, SomeChunkFits
    <3> QED BY <1>1, <1>3, <3>1, NextChunkHasRoom
  <2>2. ~CacheDirty
    BY <1>1 DEF IInv, CachePhases
  <2> QED BY <1>1, <2>1, <2>2 DEF Relocation, Pace, PacePhases, cacheVars
<1> QED BY <1>2, <1>8, <1>9, <1>10, <1>11, LoadedKnows DEF MapInv

-----------------------------------------------------------------------------
(* Restart *)

\* Whatever was cut short the medium holds a log of the current chunk, with the purge that
\* was not acknowledged if it is there, and what is left of the next chunk fits behind it.
LEMMA MediumHasLog ==
  ASSUME IInv, Order, MapInv, Loaded, NEW effect, WriteReaches(effect), DiskTypeOK'
  PROVE  \E m \in Maps, t \in LBATable, x \in PurgeEnds :
           /\ Log(m, chunkCtl', purgeCtl', ChunkNo, SCN[ChunkNo], t, x)
           /\ PurgesOlder(purgeCtl', ChunkNo, SCN[ChunkNo], x)
           /\ Fits(Cardinality(In(m, NextChunkNo)), x)
           /\ m = IF PurgeOnMedium(purgeCtl') THEN Purged ELSE Map
<1>1. /\ Log(Map, chunkCtl', purgeCtl', ChunkNo, SCN[ChunkNo], ChunkLBA, PurgePos)
      /\ PurgesOlder(purgeCtl', ChunkNo, SCN[ChunkNo], PurgePos + 1)
      /\ PurgeOnMedium(purgeCtl') =>
           /\ ~CacheOpen /\ RelocationDone /\ RelocationPrepared
           /\ \A i \in 0..LastCachePos :
                purgeCtl'[<<ChunkNo, PurgePos>>].lba[i] = PurgedLBA(PurgePos + i)
  BY WriteReachesLog
<1>2. /\ Map \in Maps /\ ChunkLBA \in LBATable /\ PurgePos \in PurgeEnds /\ PurgePos \in Nat
      /\ PurgePos <= LastPurgePos /\ LastPurgePos \in Nat /\ CacheSize \in Nat
      /\ RelocateSource \in Nat /\ RelocateTarget \in Nat /\ ChunkNo \in Chunks
      /\ Used[NextChunkNo] = Cardinality(In(Map, NextChunkNo)) /\ Used[NextChunkNo] \in Nat
  BY Sizes DEF IInv, TypeOK, LogTypeOK, RelocationTypeOK, Maps, UsedCounts, In
<1>3. \A l \in PurgePlaces : l = <<l[1], l[2]>> /\ l[2] \in Nat /\ l[2] < LastPurgePos
  <2>1. \A n \in 0..(PURGES - 1) : n * CacheSize \in PurgeEnds /\ n * CacheSize # LastPurgePos
    <3>1. ASSUME NEW n \in 0..(PURGES - 1) PROVE n * CacheSize < PURGES * CacheSize
      <4>1. (PURGES - n) * CacheSize > 0 /\ (PURGES - n) * CacheSize = PURGES * CacheSize - n * CacheSize
        BY Geometry
      <4>2. n * CacheSize \in Nat /\ PURGES * CacheSize \in Nat
        BY Geometry
      <4> QED BY <4>1, <4>2
    <3>2. \A n \in 0..(PURGES - 1) : n \in 0..PURGES /\ n * CacheSize \in Nat
      BY Geometry
    <3>3. PURGES * CacheSize \in Nat
      BY Geometry
    <3> QED BY <3>1, <3>2, <3>3 DEF PurgeEnds, LastPurgePos
  <2>2. \A l \in PurgePlaces : \E n \in 0..(PURGES - 1) : l[2] = n * CacheSize
    BY DEF PurgePlaces
  <2> QED BY <2>1, <2>2, Sizes DEF PurgePlaces
<1>4. CASE ~PurgeOnMedium(purgeCtl')
  <2>1. PurgesOlder(purgeCtl', ChunkNo, SCN[ChunkNo], PurgePos)
    <3> SUFFICES ASSUME NEW l \in PurgePlaces, purgeCtl'[l] # Torn, ~(purgeCtl'[l].scn < SCN[ChunkNo])
                 PROVE  purgeCtl'[l].scn = SCN[ChunkNo] /\ l[1] = ChunkNo /\ l[2] < PurgePos
      BY DEF PurgesOlder
    <3>1. purgeCtl'[l].scn = SCN[ChunkNo] /\ l[1] = ChunkNo /\ l[2] < PurgePos + 1
      BY <1>1 DEF PurgesOlder
    <3>2. l[2] # PurgePos
      BY <1>3, <1>4, <3>1 DEF PurgeOnMedium
    <3> QED BY <1>2, <1>3, <3>1, <3>2
  <2>2. Fits(Cardinality(In(Map, NextChunkNo)), PurgePos)
    <3>1. CASE RelocationPrepared
      <4>1. /\ RelocateTarget > 0 /\ RelocateSource * CacheSize <= RelocateTarget * LastCachePos
            /\ RelocateSource * (LastPurgePos - PurgePos) >= RelocateTarget * Used[NextChunkNo]
        BY <3>1 DEF MapInv, Relocation, Pace
      <4> QED BY <1>2, <4>1, PaceFits
    <3>2. CASE ~RelocationPrepared
      BY <1>2, <3>2 DEF MapInv, Relocation, PacePhases
    <3> QED BY <3>1, <3>2
  <2> QED BY <1>1, <1>2, <1>4, <2>1, <2>2
<1>5. CASE PurgeOnMedium(purgeCtl')
  <2> DEFINE lba == [p \in PurgeRange |-> PurgedLBA(p)]
             t   == RecordPurge(lba)
             x   == PurgePos + CacheSize
  <2>1. /\ PurgePos < LastPurgePos /\ purgeCtl'[<<ChunkNo, PurgePos>>] # Torn
        /\ purgeCtl'[<<ChunkNo, PurgePos>>].scn = SCN[ChunkNo]
    BY <1>5 DEF PurgeOnMedium
  <2>2. /\ PurgeRange \subseteq Positions /\ x \in PurgeEnds /\ x \in Nat /\ x <= LastPurgePos
        /\ lba \in [PurgeRange -> Blocks \cup {NotMapped}]
    BY <2>1, PurgeInside, PurgedTypes, Sizes DEF IInv, TypeOK
  <2>3. t \in LBATable /\ (\A p \in PurgeRange : t[p] = PurgedLBA(p))
        /\ \A p \in Positions : p < PurgePos => t[p] = ChunkLBA[p]
    <3>1. \A p \in PurgeRange : p \in Nat /\ PurgePos <= p
      BY <1>2 DEF PurgeRange
    <3>2. \A p \in Positions : t[p] = IF p \in PurgeRange THEN lba[p] ELSE ChunkLBA[p]
      BY DEF RecordPurge
    <3>3. \A p \in Positions : t[p] \in Blocks \cup {NotMapped}
      BY <1>2, <2>2, <3>2 DEF LBATable
    <3>4. t \in LBATable
      <4>1. t = [p \in Positions |-> t[p]]
        BY DEF RecordPurge
      <4> HIDE DEF t
      <4> QED BY <3>3, <4>1 DEF LBATable
    <3> QED BY <1>2, <2>2, <3>1, <3>2, <3>4
  <2>4. /\ \A c \in Chunks : chunkCtl'[c] # Torn => chunkCtl'[c] \in ChunkCtls
        /\ \A c \in Chunks \ {ChunkNo} : chunkCtl'[c] = chunkCtl[c]
    BY <1>2 DEF DiskTypeOK, WriteReaches, diskVars, IInv, TypeOK
  <2>5. /\ Purged \in Maps /\ In(Purged, NextChunkNo) = Uncached
        /\ Log(Purged, chunkCtl', purgeCtl', ChunkNo, SCN[ChunkNo], t, x)
    <3> HIDE DEF t
    <3> QED BY <1>1, <1>5, <2>1, <2>3, <2>4, PurgeExtendsLog
  <2>6. PurgesOlder(purgeCtl', ChunkNo, SCN[ChunkNo], x)
    BY <1>1, <1>2, <1>3, <2>1, <2>2, Sizes DEF PurgesOlder
  <2>7. Fits(Cardinality(Uncached), x)
    <3>1. LastPurgePos - CacheSize - PurgePos = LastPurgePos - x
      BY <1>2
    <3>2. /\ RelocateTarget > 0 /\ RelocateSource * CacheSize <= RelocateTarget * LastCachePos
          /\ RelocateSource * (LastPurgePos - x) >= RelocateTarget * Cardinality(Uncached)
      BY <1>1, <1>5, <2>1, <3>1 DEF MapInv, Relocation, Pace
    <3> HIDE DEF x
    <3> QED BY <1>2, <2>2, <3>2, UncachedCounts, PaceFits
  <2> HIDE DEF t, x
  <2> QED BY <1>5, <2>2, <2>3, <2>5, <2>6, <2>7
<1> QED BY <1>4, <1>5

\* The newest control leads to that log, or to the next chunk if it closes the current one.
LEMMA MediumIsWhole ==
  ASSUME Capacity, IInv, Order, MapInv, Loaded, NEW effect, WriteReaches(effect), DiskTypeOK',
         DiskHasNewest'
  PROVE  \E m \in Maps, cur \in Chunks, s \in Nat, from \in PurgeEnds, t \in LBATable, x \in PurgeEnds :
           /\ OnMedium(m, cur, s, from, t, x)'
           /\ m = IF PurgeOnMedium(purgeCtl') THEN Purged ELSE Map
<1> DEFINE own == chunkCtl'[ChunkNo] # Torn /\ chunkCtl'[ChunkNo].scn = SCN[ChunkNo]
<1>0. PICK here \in Chunks, next \in Chunks, s \in Nat :
        here = ChunkNo /\ next = NextChunkNo /\ s = SCN[ChunkNo]
  BY OrderTypes DEF IInv
<1>1. PICK m \in Maps, t \in LBATable, x \in PurgeEnds :
        /\ Log(m, chunkCtl', purgeCtl', here, s, t, x)
        /\ PurgesOlder(purgeCtl', here, s, x)
        /\ Fits(Cardinality(In(m, next)), x)
        /\ m = IF PurgeOnMedium(purgeCtl') THEN Purged ELSE Map
  BY <1>0, MediumHasLog
<1>2. Medium' /\ (own /\ chunkCtl'[here].end = LastPurgePos => chunkCtl'[here].next = next)
  BY <1>0, WriteReachesLog
<1>3. /\ next # here /\ s >= 1 /\ Positioned
      /\ Cardinality(In(m, next)) \in Nat /\ IsFiniteSet(In(m, next))
      /\ x \in Nat /\ x <= LastPurgePos /\ LastPurgePos \in Nat
  <2>1. Positioned
    BY Geometry DEF Loaded, Positioned
  <2>2. In(m, next) \in SUBSET Blocks
    BY DEF In
  <2> QED BY <1>0, <2>1, <2>2, Counts, Sizes DEF Order, Ordered, Closed
<1>4. \A c \in Chunks : chunkCtl'[c] # Torn => chunkCtl'[c] \in ChunkCtls /\ chunkCtl'[c].scn \in Nat
  BY DEF DiskTypeOK, ChunkCtls
<1>5. \A c \in Chunks \ {here} : chunkCtl'[c] = chunkCtl[c]
  BY <1>0 DEF WriteReaches, diskVars, IInv, TypeOK, DiskTypeOK
<1>6. \A c \in Chunks \ {here} : chunkCtl'[c] # Torn => chunkCtl'[c].scn < s
  BY <1>0, <1>3, <1>4, <1>5, OrderTypes DEF IInv, Order, Ordered, Present
<1>7. chunkCtl'[here] # Torn => chunkCtl'[here].scn <= s
  <2>1. CASE chunkCtl'[here] = chunkCtl[here]
    BY <1>0, <1>3, <2>1 DEF Order, Ordered, Present
  <2>2. CASE chunkCtl'[here] \in {NewChunkCtl, Torn}
    BY <1>0, <1>3, <2>2 DEF NewChunkCtl
  <2> QED BY <1>0, <1>3, <2>1, <2>2 DEF WriteReaches, diskVars, IInv, TypeOK, DiskTypeOK
<1>8. PICK n \in Chunks : Leads(n)'
  BY DEF DiskHasNewest
<1>9. /\ chunkCtl'[n] # Torn /\ chunkCtl'[n].scn >= 1
      /\ \A d \in Chunks \ {n} : chunkCtl'[d] # Torn => chunkCtl'[d].scn < chunkCtl'[n].scn
  BY <1>8 DEF Leads, Present
<1>10. own <=> chunkCtl'[here] # Torn /\ chunkCtl'[here].scn = s
  BY <1>0
<1> HIDE DEF own
<1>11. own => n = here
  BY <1>3, <1>4, <1>6, <1>9, <1>10
<1>12. RoomFor(m, here, x)
  BY <1>1, <1>3 DEF RoomFor
<1>13. CASE own /\ chunkCtl'[here].end # LastPurgePos
  <2>1. PICK from \in PurgeEnds : from = chunkCtl'[here].end
    BY <1>4, <1>10, <1>13 DEF ChunkCtls
  <2>2. Resumes(here, s, from)'
    BY <1>8, <1>10, <1>11, <1>13, <2>1 DEF Resumes
  <2>3. from <= x
    BY <1>1, <1>10, <1>13, <2>1 DEF Log, OwnControl
  <2>4. OnMedium(m, here, s, from, t, x)'
    BY <1>1, <1>12, <2>2, <2>3 DEF OnMedium
  <2> QED BY <1>1, <2>4
<1>14. CASE own /\ chunkCtl'[here].end = LastPurgePos
  <2>1. PICK from \in PurgeEnds : from = FirstPos(next) /\ from \in Nat
    BY SmallNumbers, Sizes
  <2>2. Resumes(next, s + 1, from)'
    <3>1. chunkCtl'[here].next = next /\ Leads(here)'
      BY <1>2, <1>8, <1>11, <1>14
    <3> QED BY <1>10, <1>14, <2>1, <3>1 DEF Resumes, FirstPos
  <2>3. x = LastPurgePos
    BY <1>1, <1>3, <1>10, <1>14 DEF Log, OwnControl
  <2>4. In(m, next) = {}
    <3>1. Cardinality(In(m, next)) = 0
      BY <1>1, <1>3, <2>3, NoneFits
    <3> QED BY <1>3, <3>1, FS_EmptySet
  <2>5. /\ Agrees(m, chunkCtl', next, s + 1, t, FirstPos(next))
        /\ OldControl(chunkCtl', next, s + 1) /\ OwnControl(chunkCtl', next, s + 1, t, FirstPos(next))
    <3>1. chunkCtl'[here] # Torn /\ chunkCtl'[here].scn = s /\ chunkCtl'[here].start = FirstPos(here)
      BY <1>2, <1>10, <1>14 DEF Medium, Present
    <3>2. \A c \in Chunks : chunkCtl'[c] # Torn =>
            chunkCtl'[c].scn \in Nat /\ (c # here => chunkCtl'[c].scn < s)
      BY <1>4, <1>6
    <3> QED BY <1>1, <1>3, <1>14, <2>3, <2>4, <3>1, <3>2, LogSucceeds DEF Log
  <2>6. Log(m, chunkCtl', purgeCtl', next, s + 1, t, from)
    <3>1. PurgesFollow(purgeCtl', next, s + 1, t, from)
      BY <2>1, Sizes DEF PurgesFollow
    <3> QED BY <2>1, <2>5, <3>1 DEF Log
  <2>7. PurgesOlder(purgeCtl', next, s + 1, from)
    <3>1. \A l \in PurgePlaces : purgeCtl'[l] # Torn => purgeCtl'[l].scn \in Nat
      BY DEF DiskTypeOK, PurgeCtls
    <3> QED BY <1>1, <3>1 DEF PurgesOlder
  <2>8. RoomFor(m, next, from) /\ from <= from
    BY <2>1, SomeChunkFits
  <2>9. OnMedium(m, next, s + 1, from, t, from)'
    BY <2>2, <2>6, <2>7, <2>8 DEF OnMedium
  <2> QED BY <1>1, <2>9
<1>15. CASE ~own
  <2>1. s > 1
    <3>1. n = here => chunkCtl'[n].scn < s
      BY <1>4, <1>7, <1>9, <1>10, <1>15
    <3> QED BY <1>4, <1>6, <1>9, <3>1
  <2>2. PICK d \in Chunks : Precedes(d, here, s)
    BY <1>0, <1>3, <2>1 DEF Order, Ordered
  <2>3. /\ d # here /\ chunkCtl'[d] = chunkCtl[d] /\ chunkCtl'[d] # Torn
        /\ chunkCtl'[d].scn + 1 = s /\ chunkCtl'[d].scn \in Nat
        /\ chunkCtl'[d].end = LastPurgePos /\ chunkCtl'[d].next = here
    BY <1>4, <1>5, <2>2 DEF Precedes, Present
  <2>4. n = d
    <3>1. n \notin {here, d} => chunkCtl'[n].scn < chunkCtl'[d].scn
      BY <1>5, <1>9, <2>2, <2>3 DEF Precedes, Present
    <3>2. n = here => chunkCtl'[n].scn <= chunkCtl'[d].scn
      BY <1>4, <1>7, <1>9, <1>10, <1>15, <2>3
    <3> QED BY <1>4, <1>9, <2>3, <3>1, <3>2
  <2>5. PICK from \in PurgeEnds : from = FirstPos(here)
    BY SmallNumbers
  <2>6. Resumes(here, s, from)'
    BY <1>8, <2>3, <2>4, <2>5 DEF Resumes, FirstPos
  <2>7. from <= x
    BY <1>1, <2>5 DEF Log
  <2>8. OnMedium(m, here, s, from, t, x)'
    BY <1>1, <1>12, <2>6, <2>7 DEF OnMedium
  <2> QED BY <1>1, <2>8
<1> QED BY <1>13, <1>14, <1>15

\* When the memory is lost a whole log is on the medium.
LEMMA RestartKeepsMap ==
  ASSUME ~TornFirstChunk, Capacity, IInv, IInv', Order, MapInv, Crash \/ Reinitialize
  PROVE  MapInv'
<1>1. PICK effect : LoseMemory(effect)
  BY DEF Crash, Reinitialize
<1>2. /\ WriteReaches(effect) /\ scan' = 0 /\ Map' = [b \in Blocks |-> NotMapped]
      /\ ~CacheDirty' /\ ~RelocationPrepared' /\ ~RelocationDone' /\ step' = "idle"
  BY <1>1 DEF LoseMemory
<1>3. ~Loaded' /\ ~Positioned' /\ \A c \in Chunks : ~(c < 0)
  BY <1>2, Geometry DEF Loaded, Positioned, Chunks
<1>4. DiskHasNewest' /\ DiskTypeOK'
  BY RestartKeepsOrder DEF Order, IInv, TypeOK
<1>5. Medium' /\ \E m \in Maps, cur \in Chunks, s \in Nat, from \in PurgeEnds, t \in LBATable,
                    x \in PurgeEnds : OnMedium(m, cur, s, from, t, x)'
  <2>1. CASE Loaded
    BY <1>2, <1>4, <2>1, MediumIsWhole, WriteReachesLog
  <2>2. CASE ~Loaded
    <3>1. UNCHANGED <<chunkCtl, purgeCtl>>
      BY <1>2, <2>2 DEF WriteReaches, diskVars, Order, OrderPhases
    <3>2. \A cur, s, from : Resumes(cur, s, from)' <=> Resumes(cur, s, from)
      BY <3>1 DEF Resumes, Leads, Precedes, Present
    <3>3. \A m, cur, s, from, t, x : OnMedium(m, cur, s, from, t, x)' <=> OnMedium(m, cur, s, from, t, x)
      BY <3>1, <3>2 DEF OnMedium
    <3> QED BY <2>2, <3>1, <3>3 DEF MapInv, Medium, Resumable, Present
  <2> QED BY <2>1, <2>2
<1>6. ScannedMap'
  <2>1. ~(ChunkNo' < scan')
    BY <1>1 DEF LoseMemory
  <2> QED BY <1>2, <1>3, <2>1 DEF ScannedMap
<1>7. Resumable'
  BY <1>3, <1>5 DEF Resumable
<1>8. Running' /\ Unacknowledged' /\ Relocation'
  BY <1>2, <1>3 DEF Running, Unacknowledged, Relocation, Pace, PacePhases
<1> QED BY <1>5, <1>6, <1>7, <1>8 DEF MapInv

-----------------------------------------------------------------------------
(* Recovery *)

\* A step of recovery leaves the medium and the relocation as they are.
LEMMA RecoveryFrame ==
  ASSUME IInv, MapInv, mode = "RECOVERY", ~Loaded, ~Loaded',
         UNCHANGED <<chunkCtl, purgeCtl, cacheVars, relocVars, step>>
  PROVE  /\ Medium' /\ Running' /\ Unacknowledged' /\ Relocation'
         /\ \A m, cur, s, from, t, x : OnMedium(m, cur, s, from, t, x)' <=> OnMedium(m, cur, s, from, t, x)
<1>1. \A cur, s, from : Resumes(cur, s, from)' <=> Resumes(cur, s, from)
  BY DEF Resumes, Leads, Precedes, Present
<1>2. \A m, cur, s, from, t, x : OnMedium(m, cur, s, from, t, x)' <=> OnMedium(m, cur, s, from, t, x)
  BY <1>1 DEF OnMedium
<1>3. Medium' /\ Running' /\ Unacknowledged'
  BY DEF MapInv, Medium, Present, Running, Unacknowledged
<1>4. step = "idle" /\ ~CacheDirty /\ ~RelocationPrepared /\ ~RelocationDone
  BY DEF IInv, CachePhases, MapInv, Relocation, PacePhases
<1>5. Relocation'
  BY <1>4 DEF Relocation, Pace, PacePhases, relocVars, cacheVars
<1> QED BY <1>2, <1>3, <1>5

\* One more control is entered in the map.
LEMMA ScanChunkKeepsMap ==
  ASSUME IInv, Order, MapInv, ScanChunk
  PROVE  MapInv'
<1> DEFINE ctl == chunkCtl[scan]
           P   == ctl.start..(ctl.end - 1)
<1>1. /\ mode = "RECOVERY" /\ scan \in Chunks /\ scan' = scan + 1 /\ scan \in Nat /\ scan < MAX_CHUNKS
      /\ UNCHANGED <<chunkCtl, purgeCtl, cacheVars, relocVars, step>> /\ MAX_CHUNKS \in Nat
  BY Geometry DEF ScanChunk, diskVars, Chunks
<1>2. ~Loaded /\ ~Loaded' /\ ~Positioned /\ ~Positioned'
  BY <1>1 DEF Loaded, Positioned
<1>3. /\ Medium' /\ Running' /\ Unacknowledged' /\ Relocation' /\ Resumable'
  BY <1>1, <1>2, RecoveryFrame DEF MapInv, Resumable
<1>4. \A c \in Chunks : c \in Nat /\ (c < scan' <=> c < scan \/ c = scan)
  BY <1>1, SmallNumbers
<1>5. \A b \in Blocks : Map[b] # NotMapped =>
        /\ Map[b][1] \in Chunks /\ Map[b][2] \in Positions /\ Map[b][1] < scan
        /\ Named(chunkCtl, Map[b][1], Map[b][2], b)
  BY <1>2 DEF MapInv, ScannedMap, IInv, TypeOK, LogTypeOK, Places
<1>6. \A b \in Blocks, c \in Chunks, p \in Positions : c < scan /\ Named(chunkCtl, c, p, b) =>
        /\ Map[b] # NotMapped
        /\ IF Map[b][1] = c THEN p <= Map[b][2] ELSE chunkCtl[c].scn < chunkCtl[Map[b][1]].scn
  BY <1>2 DEF MapInv, ScannedMap
<1>7. CASE ctl = Torn
  <2>1. UNCHANGED <<Map, ChunkNo, ChunkLBA>>
    BY <1>7 DEF ScanChunk
  <2>2. \A b, p : ~Named(chunkCtl, scan, p, b)
    BY <1>7 DEF Named
  <2>3. ChunkNo < scan' /\ Present(ChunkNo) => ChunkNo < scan
    BY <1>4, <1>7, OrderTypes DEF IInv, Present
  <2>4. ScannedMap'
    BY <1>1, <1>2, <1>4, <1>5, <1>6, <2>1, <2>2, <2>3 DEF MapInv, ScannedMap, Present
  <2> QED BY <1>3, <2>4 DEF MapInv
<1>8. CASE ctl # Torn
  <2>1. /\ ctl \in ChunkCtls /\ ctl.scn \in Nat /\ ctl.start \in Nat /\ ctl.end \in Nat
        /\ ctl.end <= LastPurgePos
    BY <1>1, <1>8, Sizes, OrderTypes DEF IInv, Present, ChunkCtls
  <2>2. P \subseteq Positions
    BY <2>1, Sizes DEF Positions
  <2>3. /\ SCN' = [SCN EXCEPT ![scan] = ctl.scn]
        /\ UpdateMap(ctl.lba, P, scan, SCN')
        /\ IF SCN[ChunkNo] <= ctl.scn THEN ChunkNo' = scan /\ ChunkLBA' = ctl.lba
                                      ELSE UNCHANGED <<ChunkNo, ChunkLBA>>
    BY <1>8 DEF ScanChunk
  <2>4. \A c \in Chunks : (c < scan \/ c = scan) /\ Present(c) => SCN'[c] = chunkCtl[c].scn
    <3>1. \A c \in Chunks : c < scan /\ Present(c) => SCN[c] = chunkCtl[c].scn
      <4>1. scan <= MAX_CHUNKS
        BY <1>1
      <4> QED BY <4>1 DEF Order, Scanned, Present
    <3> QED BY <1>1, <2>3, <3>1 DEF IInv, TypeOK, LogTypeOK
  <2>5. \A b \in Blocks, p \in Positions : Named(chunkCtl, scan, p, b) <=> p \in NamedAt(ctl.lba, P, b)
    BY <1>8, <2>1 DEF Named, NamedAt, Positions
  <2>6. \A b \in Blocks : NamedAt(ctl.lba, P, b) # {} =>
          /\ LatestAt(ctl.lba, P, b) \in Positions
          /\ LatestAt(ctl.lba, P, b) \in NamedAt(ctl.lba, P, b)
          /\ \A p \in NamedAt(ctl.lba, P, b) : p <= LatestAt(ctl.lba, P, b)
    <3> HIDE DEF P, ctl
    <3> QED BY <2>2, LatestNames DEF NamedAt
  <2>7. \A b \in Blocks :
          Map'[b] = IF NamedAt(ctl.lba, P, b) # {} /\ Takes(b, scan, SCN')
                    THEN <<scan, LatestAt(ctl.lba, P, b)>> ELSE Map[b]
    BY <2>3 DEF UpdateMap, MovedBy
  <2> HIDE DEF P, ctl
  <2>8. \A c \in Chunks \ {scan} : Present(c) => chunkCtl[c].scn # chunkCtl[scan].scn
    BY <1>1, <1>8 DEF MapInv, Medium, Present, ctl
  <2>9. \A c \in Chunks : Present(c) => chunkCtl[c].scn \in Nat
    BY OrderTypes DEF IInv, ChunkCtls
  <2>10. ASSUME NEW b \in Blocks
         PROVE  /\ Map'[b] # NotMapped => Map'[b][1] < scan' /\ Named(chunkCtl, Map'[b][1], Map'[b][2], b)
                /\ \A c \in Chunks, p \in Positions : c < scan' /\ Named(chunkCtl, c, p, b) =>
                     /\ Map'[b] # NotMapped
                     /\ IF Map'[b][1] = c THEN p <= Map'[b][2]
                                          ELSE chunkCtl[c].scn < chunkCtl[Map'[b][1]].scn
    <3>1. CASE NamedAt(ctl.lba, P, b) # {} /\ Takes(b, scan, SCN')
      <4> DEFINE l == LatestAt(ctl.lba, P, b)
      <4>1. /\ Map'[b] = <<scan, l>> /\ l \in Positions /\ Named(chunkCtl, scan, l, b)
            /\ \A p \in Positions : Named(chunkCtl, scan, p, b) => p <= l
        BY <2>5, <2>6, <2>7, <3>1
      <4>2. Map'[b] # NotMapped /\ Map'[b][1] = scan /\ Map'[b][2] = l
        <5>1. <<scan, l>> \in Places
          BY <1>1, <4>1 DEF Places
        <5> QED BY <4>1, <5>1, Parameters
      <4> HIDE DEF l
      <4>3. ASSUME NEW c \in Chunks, NEW p \in Positions, c < scan, Named(chunkCtl, c, p, b)
            PROVE  chunkCtl[c].scn < chunkCtl[scan].scn
        <5>1. /\ Map[b] # NotMapped /\ Map[b][1] \in Chunks /\ Map[b][1] < scan
              /\ Present(c) /\ Present(Map[b][1]) /\ c # scan
              /\ (c = Map[b][1] \/ chunkCtl[c].scn < chunkCtl[Map[b][1]].scn)
          BY <1>1, <1>5, <1>6, <4>3 DEF Named, Present
        <5>2. SCN'[Map[b][1]] <= SCN'[scan]
          BY <3>1, <5>1 DEF Takes
        <5>3. chunkCtl[Map[b][1]].scn <= chunkCtl[scan].scn /\ Present(scan)
          BY <1>1, <1>8, <2>4, <5>1, <5>2 DEF Present, ctl
        <5>4. /\ chunkCtl[c].scn \in Nat /\ chunkCtl[Map[b][1]].scn \in Nat
              /\ chunkCtl[scan].scn \in Nat /\ chunkCtl[c].scn # chunkCtl[scan].scn
          BY <1>1, <2>8, <2>9, <5>1, <5>3
        <5> QED BY <5>1, <5>3, <5>4
      <4> QED BY <1>1, <1>4, <4>1, <4>2, <4>3
    <3>2. CASE ~(NamedAt(ctl.lba, P, b) # {} /\ Takes(b, scan, SCN'))
      <4>1. Map'[b] = Map[b]
        BY <2>7, <3>2
      <4>2. ASSUME NEW p \in Positions, Named(chunkCtl, scan, p, b)
            PROVE  Map[b] # NotMapped /\ Map[b][1] # scan /\ chunkCtl[scan].scn < chunkCtl[Map[b][1]].scn
        <5>1. NamedAt(ctl.lba, P, b) # {}
          BY <2>5, <4>2
        <5>2. Map[b] # NotMapped /\ ~(SCN'[Map[b][1]] <= SCN'[scan])
          BY <3>2, <5>1 DEF Takes
        <5>3. Map[b][1] \in Chunks /\ Map[b][1] < scan /\ Present(Map[b][1]) /\ Present(scan)
          BY <1>5, <1>8, <5>2 DEF Named, Present, ctl
        <5>4. Map[b][1] # scan
          BY <1>1, <5>3
        <5>5. SCN'[Map[b][1]] = chunkCtl[Map[b][1]].scn /\ SCN'[scan] = chunkCtl[scan].scn
          BY <1>1, <2>4, <5>3
        <5>6. chunkCtl[Map[b][1]].scn \in Nat /\ chunkCtl[scan].scn \in Nat
          BY <1>1, <2>9, <5>3
        <5> QED BY <5>2, <5>4, <5>5, <5>6
      <4> QED BY <1>1, <1>4, <1>5, <1>6, <4>1, <4>2
    <3> QED BY <3>1, <3>2
  <2>11. ChunkNo' < scan' /\ Present(ChunkNo') => ChunkLBA' = chunkCtl[ChunkNo'].lba
    <3>1. CASE SCN[ChunkNo] <= ctl.scn
      BY <2>3, <3>1 DEF ctl
    <3>2. CASE ~(SCN[ChunkNo] <= ctl.scn)
      <4>1. UNCHANGED <<ChunkNo, ChunkLBA>>
        BY <2>3, <3>2
      <4>2. ChunkNo # scan
        <5>1. SCN[scan] = 0
          BY <1>1 DEF Order, Scanned
        <5> QED BY <2>1, <3>2, <5>1
      <4>3. ChunkNo < scan' /\ Present(ChunkNo) => ChunkNo < scan
        BY <1>4, <4>2, OrderTypes DEF IInv
      <4> QED BY <1>2, <4>1, <4>3 DEF MapInv, ScannedMap
    <3> QED BY <3>1, <3>2
  <2>12. ScannedMap'
    BY <1>1, <2>10, <2>11 DEF ScannedMap, Present
  <2> QED BY <1>3, <2>12 DEF MapInv
<1> QED BY <1>7, <1>8

\* After the last control has been seen the newest one tells where the log goes on, and
\* the map shows nothing that is only in the chunk it goes on in.
LEMMA NewestFound ==
  ASSUME IInv, Order, MapInv, scan = MAX_CHUNKS
  PROVE  /\ Present(ChunkNo) /\ chunkCtl[ChunkNo] \in ChunkCtls
         /\ ChunkLBA = chunkCtl[ChunkNo].lba
         /\ \A c \in Chunks : Present(c) => /\ chunkCtl[c].scn \in Nat
                                            /\ chunkCtl[c].scn <= chunkCtl[ChunkNo].scn
         /\ SCN[ChunkNo] = chunkCtl[ChunkNo].scn
         /\ \A cur \in Chunks : \A s, from : Resumes(cur, s, from) =>
              IF chunkCtl[ChunkNo].end = LastPurgePos
              THEN /\ cur = chunkCtl[ChunkNo].next /\ s = SCN[ChunkNo] + 1
                   /\ from = FirstPos(cur) /\ cur # ChunkNo
              ELSE cur = ChunkNo /\ s = SCN[ChunkNo] /\ from = chunkCtl[ChunkNo].end
         /\ chunkCtl[ChunkNo].end = LastPurgePos =>
              chunkCtl[ChunkNo].next \in Chunks /\ In(Map, chunkCtl[ChunkNo].next) = {}
<1>1. /\ MAX_CHUNKS \in Nat /\ ChunkNo \in Chunks /\ SCN \in [Chunks -> Nat]
      /\ \A c \in Chunks : c < scan
      /\ \A c \in Chunks : Present(c) => chunkCtl[c] \in ChunkCtls /\ chunkCtl[c].scn \in Nat
  BY OrderTypes, Geometry DEF Chunks, IInv, ChunkCtls
<1>2. \A c \in Chunks : /\ SCN[c] = IF Present(c) THEN chunkCtl[c].scn ELSE 0
                        /\ SCN[c] <= SCN[ChunkNo]
  BY <1>1 DEF Order, Scanned
<1>3. \A n \in Chunks : Leads(n) => n = ChunkNo
  <2> SUFFICES ASSUME NEW n \in Chunks, Leads(n) PROVE n = ChunkNo
    OBVIOUS
  <2>1. /\ Present(n) /\ chunkCtl[n].scn >= 1
        /\ \A d \in Chunks \ {n} : Present(d) => chunkCtl[d].scn < chunkCtl[n].scn
    BY DEF Leads
  <2> QED BY <1>1, <1>2, <2>1
<1>4. Leads(ChunkNo) /\ Present(ChunkNo)
  BY <1>3 DEF Order, DiskHasNewest, Leads
<1>5. SCN[ChunkNo] = chunkCtl[ChunkNo].scn /\ chunkCtl[ChunkNo] \in ChunkCtls
  BY <1>1, <1>2, <1>4
<1>6. ~Positioned /\ ~Loaded
  BY <1>1 DEF Positioned, Loaded
<1>7. ChunkLBA = chunkCtl[ChunkNo].lba
  BY <1>1, <1>4, <1>6 DEF MapInv, ScannedMap
<1>8. ASSUME NEW cur \in Chunks, NEW s, NEW from, Resumes(cur, s, from)
      PROVE  IF chunkCtl[ChunkNo].end = LastPurgePos
             THEN /\ cur = chunkCtl[ChunkNo].next /\ s = SCN[ChunkNo] + 1
                  /\ from = FirstPos(cur) /\ cur # ChunkNo
             ELSE cur = ChunkNo /\ s = SCN[ChunkNo] /\ from = chunkCtl[ChunkNo].end
  <2>1. IF chunkCtl[ChunkNo].end = LastPurgePos
        THEN cur = chunkCtl[ChunkNo].next /\ s = chunkCtl[ChunkNo].scn + 1 /\ from = FirstPos(cur)
        ELSE cur = ChunkNo /\ s = chunkCtl[ChunkNo].scn /\ from = chunkCtl[ChunkNo].end
    BY <1>3, <1>8 DEF Resumes
  <2>2. chunkCtl[ChunkNo].end = LastPurgePos => chunkCtl[ChunkNo].next # ChunkNo
    BY <1>4 DEF Leads
  <2> QED BY <1>5, <2>1, <2>2
<1>9. ASSUME chunkCtl[ChunkNo].end = LastPurgePos
      PROVE  chunkCtl[ChunkNo].next \in Chunks /\ In(Map, chunkCtl[ChunkNo].next) = {}
  <2>1. PICK next \in Chunks : next = chunkCtl[ChunkNo].next
    BY <1>5 DEF ChunkCtls
  <2>2. PICK m \in Maps, cur \in Chunks, s \in Nat, from \in PurgeEnds, t \in LBATable,
             x \in PurgeEnds : OnMedium(m, cur, s, from, t, x)
    BY <1>6 DEF MapInv, Resumable
  <2>3. cur = next /\ s = SCN[ChunkNo] + 1 /\ OldControl(chunkCtl, cur, s)
    BY <1>8, <1>9, <2>1, <2>2 DEF OnMedium, Log
  <2>4. ASSUME NEW b \in Blocks, Map[b] # NotMapped, Map[b][1] = next PROVE FALSE
    <3>1. /\ Named(chunkCtl, next, Map[b][2], b) /\ Map[b][2] \in Positions
      BY <1>6, <2>4 DEF MapInv, ScannedMap, IInv, TypeOK, LogTypeOK, Places
    <3>2. Present(next) /\ chunkCtl[next].scn \in Nat /\ chunkCtl[next].scn < s
      BY <1>1, <1>2, <2>3, <3>1 DEF Named, Present
    <3>3. PICK c \in Chunks \ {next}, q \in Positions :
            Named(chunkCtl, c, q, b) /\ chunkCtl[c].scn > chunkCtl[next].scn
      BY <2>3, <3>1, <3>2 DEF OldControl, Present
    <3>4. chunkCtl[c].scn < chunkCtl[next].scn
      BY <1>1, <1>6, <2>4, <3>3 DEF MapInv, ScannedMap
    <3>5. chunkCtl[c].scn \in Nat
      BY <1>1, <3>3 DEF Named, Present
    <3> QED BY <3>2, <3>3, <3>4, <3>5
  <2> QED BY <2>1, <2>4 DEF In
<1>10. \A c \in Chunks : Present(c) => chunkCtl[c].scn <= chunkCtl[ChunkNo].scn
  BY <1>2, <1>5
<1> QED BY <1>1, <1>4, <1>5, <1>7, <1>8, <1>9, <1>10

\* The scan has found all that the log names up to where it goes on.
LEMMA RecoverPositionKeepsMap ==
  ASSUME IInv, Order, MapInv, RecoverPosition
  PROVE  MapInv'
<1>1. /\ mode = "RECOVERY" /\ scan = MAX_CHUNKS /\ scan' = MAX_CHUNKS + 1 /\ MAX_CHUNKS \in Nat
      /\ UNCHANGED <<chunkCtl, purgeCtl, cacheVars, relocVars, step, Map, ChunkLBA>>
  BY Geometry DEF RecoverPosition, diskVars
<1>2. ~Loaded /\ ~Loaded' /\ ~Positioned /\ Positioned'
  BY <1>1 DEF Loaded, Positioned
<1>3. Medium' /\ Running' /\ Unacknowledged' /\ Relocation'
  BY <1>1, <1>2, RecoveryFrame
<1>4. PICK m \in Maps, cur \in Chunks, s \in Nat, from \in PurgeEnds, t \in LBATable,
           x \in PurgeEnds : OnMedium(m, cur, s, from, t, x)
  BY <1>2 DEF MapInv, Resumable
<1>5. OnMedium(m, cur, s, from, t, x)'
  BY <1>1, <1>2, <1>4, RecoveryFrame
<1>6. Resumes(cur, s, from) /\ from <= x /\ OwnControl(chunkCtl, cur, s, t, x)
  BY <1>4 DEF OnMedium, Log
<1>7. PICK here \in Chunks : here = ChunkNo
  BY OrderTypes DEF IInv
<1> DEFINE ctl == chunkCtl[here]
<1>8. /\ ctl # Torn /\ ctl \in ChunkCtls /\ ChunkLBA = ctl.lba /\ SCN[here] = ctl.scn
      /\ \A c \in Chunks : chunkCtl[c] # Torn => chunkCtl[c].scn \in Nat
      /\ IF ctl.end = LastPurgePos
         THEN cur = ctl.next /\ s = SCN[here] + 1 /\ from = FirstPos(cur)
              /\ cur # here /\ In(Map, cur) = {}
         ELSE cur = here /\ s = SCN[here] /\ from = ctl.end
  BY <1>1, <1>6, <1>7, NewestFound DEF Present
<1>9. ChunkNo' = cur /\ SCN'[cur] = s /\ PurgePos' = from
  <2>1. CASE ctl.end = LastPurgePos
    <3>1. /\ SCN' = [SCN EXCEPT ![ctl.next] = SCN[here] + 1] /\ ChunkNo' = ctl.next
          /\ PurgePos' = FirstPos(ctl.next)
      BY <1>7, <1>8, <2>1 DEF RecoverPosition, SucceedBy
    <3> QED BY <1>8, <2>1, <3>1, OrderTypes DEF IInv
  <2>2. CASE ctl.end # LastPurgePos
    <3>1. PurgePos' = ctl.end /\ UNCHANGED <<SCN, ChunkNo>>
      BY <1>7, <1>8, <2>2 DEF RecoverPosition
    <3> QED BY <1>7, <1>8, <2>2, <3>1
  <2> QED BY <2>1, <2>2
<1>10. FirstPos(cur) <= from /\ ctl.start = FirstPos(here)
  <2>1. FirstPos(cur) \in Nat
    BY Sizes, SmallNumbers
  <2>2. \A c \in Chunks : chunkCtl[c] # Torn => chunkCtl[c].start = FirstPos(c)
                                               /\ FirstPos(c) <= chunkCtl[c].end
    BY DEF MapInv, Medium, Present
  <2> QED BY <1>8, <2>1, <2>2
<1>11. \A b \in Blocks : Map[b] # NotMapped =>
        /\ Map[b][1] \in Chunks /\ Map[b][2] \in Positions
        /\ Named(chunkCtl, Map[b][1], Map[b][2], b)
  BY <1>2 DEF MapInv, ScannedMap, IInv, TypeOK, LogTypeOK, Places
<1>12. \A b \in Blocks, c \in Chunks, p \in Positions : Named(chunkCtl, c, p, b) =>
        /\ Map[b] # NotMapped
        /\ IF Map[b][1] = c THEN p <= Map[b][2] ELSE chunkCtl[c].scn < chunkCtl[Map[b][1]].scn
  <2>1. \A c \in Chunks : c < scan
    BY <1>1 DEF Chunks
  <2> QED BY <1>2, <2>1 DEF MapInv, ScannedMap
<1>13. Agrees(Map, chunkCtl, cur, s, ChunkLBA, from)
       /\ \A p \in Positions : FirstPos(cur) <= p /\ p < from => t[p] = ChunkLBA[p]
  <2>1. CASE ctl.end = LastPurgePos
    <3>1. \A b \in Blocks : Map[b] # NotMapped => Map[b][1] # cur
      BY <1>8, <2>1 DEF In
    <3>2. \A p \in Positions : ~(FirstPos(cur) <= p /\ p < from)
      BY <1>8, <2>1, Sizes, SmallNumbers DEF Positions
    <3>3. \A c \in Chunks, p \in Positions, b \in Blocks :
            Says(chunkCtl, cur, ChunkLBA, from, c, p, b) <=> c # cur /\ Named(chunkCtl, c, p, b)
      BY <3>2 DEF Says
    <3>4. \A c \in Chunks : c # cur => Age(chunkCtl, cur, s, c) = chunkCtl[c].scn
      BY DEF Age
    <3>5. Agrees(Map, chunkCtl, cur, s, ChunkLBA, from)
      BY <1>11, <1>12, <3>1, <3>3, <3>4 DEF Agrees
    <3> QED BY <3>2, <3>5
  <2>2. CASE ctl.end # LastPurgePos
    <3>1. \A c \in Chunks, p \in Positions, b \in Blocks :
            Says(chunkCtl, cur, ChunkLBA, from, c, p, b) <=> Named(chunkCtl, c, p, b)
      BY <1>8, <1>10, <2>2 DEF Says, Named
    <3>2. \A c \in Chunks : Age(chunkCtl, cur, s, c) = chunkCtl[c].scn
      BY <1>8, <2>2 DEF Age
    <3>3. Agrees(Map, chunkCtl, cur, s, ChunkLBA, from)
      BY <1>11, <1>12, <3>1, <3>2 DEF Agrees
    <3> QED BY <1>6, <1>8, <1>10, <2>2, <3>3 DEF OwnControl
  <2> QED BY <2>1, <2>2
<1>14. Replayed(cur, s, t, x)'
  <2>1. Agrees(Map', chunkCtl', ChunkNo', SCN'[ChunkNo'], ChunkLBA', PurgePos')
    BY <1>1, <1>9, <1>13
  <2> QED BY <1>1, <1>6, <1>9, <1>10, <1>13, <2>1 DEF Replayed
<1>15. Resumable'
  BY <1>5, <1>14 DEF Resumable
<1>16. ScannedMap'
  BY <1>2 DEF ScannedMap
<1> QED BY <1>3, <1>15, <1>16 DEF MapInv

\* A purge found on the medium is entered in the map.
LEMMA ReplayPurgeKeepsMap ==
  ASSUME IInv, Order, MapInv, ReplayPurge
  PROVE  MapInv'
<1> DEFINE lba == [p \in PurgeRange |-> purgeCtl[<<ChunkNo, PurgePos>>].lba[p - PurgePos]]
<1>1. /\ mode = "RECOVERY" /\ scan = MAX_CHUNKS + 1 /\ scan' = scan /\ MAX_CHUNKS \in Nat
      /\ UNCHANGED <<chunkCtl, purgeCtl, cacheVars, relocVars, step, SCN, ChunkNo>>
      /\ PurgePos' = PurgePos + CacheSize /\ ChunkLBA' = RecordPurge(lba)
      /\ UpdateMap(lba, PurgeRange, ChunkNo, SCN) /\ PurgeOnMedium(purgeCtl)
  BY Geometry DEF ReplayPurge, diskVars
<1>2. ~Loaded /\ ~Loaded' /\ Positioned /\ Positioned'
  BY <1>1 DEF Loaded, Positioned
<1>3. Medium' /\ Running' /\ Unacknowledged' /\ Relocation'
  BY <1>1, <1>2, RecoveryFrame
<1>4. PICK m \in Maps, cur \in Chunks, s \in Nat, from \in PurgeEnds, t \in LBATable,
           x \in PurgeEnds : OnMedium(m, cur, s, from, t, x) /\ Replayed(cur, s, t, x)
  BY <1>2 DEF MapInv, Resumable
<1>5. OnMedium(m, cur, s, from, t, x)'
  BY <1>1, <1>2, <1>4, RecoveryFrame
<1>6. PICK pos \in PurgeEnds : pos = PurgePos
  BY DEF IInv, TypeOK, LogTypeOK
<1>7. /\ ChunkNo = cur /\ SCN[cur] = s /\ FirstPos(cur) <= pos /\ pos \in Nat /\ pos # LastPurgePos
      /\ Agrees(Map, chunkCtl, cur, s, ChunkLBA, pos)
      /\ \A p \in Positions : FirstPos(cur) <= p /\ p < pos => t[p] = ChunkLBA[p]
      /\ purgeCtl[<<cur, pos>>] # Torn /\ purgeCtl[<<cur, pos>>].scn = s
      /\ <<cur, pos>> \in PurgePlaces
  BY <1>1, <1>4, <1>6, Sizes, PurgeFits DEF Replayed, PurgeOnMedium
<1>8. pos < x
  <2>1. <<cur, pos>>[2] = pos
    OBVIOUS
  <2> QED BY <1>4, <1>7, <2>1 DEF OnMedium, PurgesOlder
<1>9. pos + CacheSize <= x /\ x \in Nat /\ CacheSize = LastCachePos + 1 /\ LastCachePos \in Nat
      /\ x <= LastPurgePos /\ LastPurgePos \in Nat
  BY <1>6, <1>8, PurgesApart, Sizes
<1>10. PurgeRange = pos..(pos + LastCachePos) /\ PurgeRange \subseteq Positions
  <2>1. PurgeRange = pos..(pos + LastCachePos)
    BY <1>6 DEF PurgeRange
  <2> QED BY <1>7, <1>9, <2>1 DEF Positions
<1>11. \A p \in PurgeRange : lba[p] = t[p] /\ ChunkLBA'[p] = lba[p]
  <2>1. \A i \in 0..LastCachePos : purgeCtl[<<cur, pos>>].lba[i] = t[pos + i]
    BY <1>4, <1>6, <1>7, <1>8 DEF OnMedium, Log, PurgesFollow
  <2>2. ASSUME NEW p \in PurgeRange PROVE lba[p] = t[p]
    <3>1. p - pos \in 0..LastCachePos /\ pos + (p - pos) = p
      BY <1>7, <1>9, <1>10
    <3>2. lba[p] = purgeCtl[<<cur, pos>>].lba[p - pos]
      BY <1>6, <1>7
    <3> QED BY <2>1, <3>1, <3>2
  <2>3. \A p \in PurgeRange : ChunkLBA'[p] = lba[p]
    BY <1>1, <1>10 DEF RecordPurge
  <2> QED BY <2>2, <2>3
<1>12. \A p \in Positions : p < pos => ChunkLBA'[p] = ChunkLBA[p]
  <2>1. \A p \in Positions : p < pos => p \notin PurgeRange
    BY <1>7, <1>9, <1>10 DEF Positions
  <2> QED BY <1>1, <2>1 DEF RecordPurge
<1>13. Map' = Moved(Map, lba, PurgeRange, cur)
  <2>1. ASSUME NEW b \in Blocks, Map[b] # NotMapped PROVE SCN[Map[b][1]] <= SCN[ChunkNo]
    <3>1. Map[b][1] \in Chunks /\ SCN \in [Chunks -> Nat]
      BY <2>1 DEF IInv, TypeOK, LogTypeOK, Places
    <3>2. SCN[Map[b][1]] \in Nat /\ (Map[b][1] # ChunkNo => SCN[Map[b][1]] < SCN[ChunkNo])
      BY <1>2, <3>1 DEF Order, Ordered
    <3> QED BY <1>7, <3>2
  <2> HIDE DEF lba
  <2> QED BY <1>1, <1>7, <2>1, UpdateMoves
<1>14. Agrees(Map', chunkCtl, cur, s, ChunkLBA', pos + CacheSize)
  <2>1. \A c \in Chunks \ {cur} : chunkCtl[c] # Torn => chunkCtl[c].scn \in Nat /\ chunkCtl[c].scn < s
    <3>1. \A c \in Chunks : chunkCtl[c] # Torn => chunkCtl[c].scn \in Nat /\ SCN[c] \in Nat
      BY OrderTypes DEF IInv, Present, ChunkCtls
    <3> QED BY <1>2, <1>7, <3>1 DEF Order, Ordered, Present
  <2>2. Map \in Maps
    BY DEF IInv, TypeOK, LogTypeOK, Maps
  <2> HIDE DEF lba
  <2> QED BY <1>7, <1>10, <1>11, <1>12, <1>13, <2>1, <2>2, PurgeAgrees
<1>15. \A p \in Positions : FirstPos(cur) <= p /\ p < pos + CacheSize => t[p] = ChunkLBA'[p]
  <2>1. \A p \in Positions : p < pos + CacheSize => p < pos \/ p \in PurgeRange
    BY <1>7, <1>9, <1>10 DEF Positions
  <2> QED BY <1>7, <1>11, <1>12, <2>1
<1>16. Replayed(cur, s, t, x)'
  <2>1. FirstPos(cur) <= pos + CacheSize
    BY <1>7, <1>9, SmallNumbers
  <2>2. Agrees(Map', chunkCtl', ChunkNo', SCN'[ChunkNo'], ChunkLBA', PurgePos')
    BY <1>1, <1>6, <1>7, <1>14
  <2> QED BY <1>1, <1>6, <1>7, <1>9, <1>15, <2>1, <2>2 DEF Replayed
<1>17. Resumable'
  BY <1>5, <1>16 DEF Resumable
<1>18. ScannedMap'
  BY <1>2 DEF ScannedMap
<1> QED BY <1>3, <1>17, <1>18 DEF MapInv

\* The map of the log on the medium is the only one.
LEMMA MediumUnique ==
  ASSUME DiskTypeOK, Medium,
         NEW m \in Maps, NEW cur \in Chunks, NEW s \in Nat, NEW from \in PurgeEnds,
         NEW t \in LBATable, NEW x \in PurgeEnds, OnMedium(m, cur, s, from, t, x),
         NEW n \in Maps, NEW cur2 \in Chunks, NEW s2 \in Nat, NEW from2 \in PurgeEnds,
         NEW u \in LBATable, NEW y \in PurgeEnds, OnMedium(n, cur2, s2, from2, u, y)
  PROVE  m = n
<1>1. \A c \in Chunks : chunkCtl[c] # Torn => chunkCtl[c] \in ChunkCtls /\ chunkCtl[c].scn \in Nat
  BY DEF DiskTypeOK, ChunkCtls
<1>2. cur = cur2 /\ s = s2
  <2>1. \A c, d \in Chunks : Leads(c) /\ Leads(d) => c = d
    BY <1>1 DEF Leads, Present
  <2> QED BY <2>1 DEF OnMedium, Resumes
<1>3. /\ Log(m, chunkCtl, purgeCtl, cur, s, t, x) /\ PurgesOlder(purgeCtl, cur, s, x)
      /\ Log(n, chunkCtl, purgeCtl, cur, s, u, y) /\ PurgesOlder(purgeCtl, cur, s, y)
  BY <1>2 DEF OnMedium
<1>4. /\ x \in Nat /\ y \in Nat /\ x <= LastPurgePos /\ y <= LastPurgePos /\ LastPurgePos \in Nat
      /\ FirstPos(cur) \in Nat /\ FirstPos(cur) <= x /\ FirstPos(cur) <= y
      /\ x # LastPurgePos => <<cur, x>> \in PurgePlaces
      /\ y # LastPurgePos => <<cur, y>> \in PurgePlaces
  BY <1>3, Sizes, SmallNumbers, PurgeFits DEF Log
<1>5. x = y
  <2>1. ASSUME x < y PROVE FALSE
    <3>1. purgeCtl[<<cur, x>>] # Torn /\ purgeCtl[<<cur, x>>].scn = s
      BY <1>3, <1>4, <2>1 DEF Log, PurgesFollow
    <3>2. <<cur, x>> \in PurgePlaces /\ <<cur, x>>[2] = x
      BY <1>4, <2>1
    <3> QED BY <1>3, <1>4, <3>1, <3>2 DEF PurgesOlder
  <2>2. ASSUME y < x PROVE FALSE
    <3>1. purgeCtl[<<cur, y>>] # Torn /\ purgeCtl[<<cur, y>>].scn = s
      BY <1>3, <1>4, <2>2 DEF Log, PurgesFollow
    <3>2. <<cur, y>> \in PurgePlaces /\ <<cur, y>>[2] = y
      BY <1>4, <2>2
    <3> QED BY <1>3, <1>4, <3>1, <3>2 DEF PurgesOlder
  <2> QED BY <1>4, <2>1, <2>2
<1>6. \A p \in Positions : FirstPos(cur) <= p /\ p < x => t[p] = u[p]
  <2> SUFFICES ASSUME NEW p \in Positions, FirstPos(cur) <= p, p < x PROVE t[p] = u[p]
    OBVIOUS
  <2>1. PICK q \in PurgeEnds, i \in 0..LastCachePos : q <= p /\ p = q + i
    <3>1. PICK q \in PurgeEnds, i \in 0..LastCachePos : p = q + i
      BY PositionInPurge
    <3>2. q \in Nat /\ i \in Nat /\ q <= p
      BY <3>1, Sizes
    <3> QED BY <3>1, <3>2
  <2>2. FirstPos(cur) <= q /\ q < x
    BY <1>4, <2>1, PurgesApart, SmallNumbers, Sizes
  <2>3. purgeCtl[<<cur, q>>].lba[i] = t[q + i]
    BY <1>3, <2>2 DEF Log, PurgesFollow
  <2>4. purgeCtl[<<cur, q>>].lba[i] = u[q + i]
    BY <1>3, <1>5, <2>2 DEF Log, PurgesFollow
  <2> QED BY <2>1, <2>3, <2>4
<1> QED BY <1>1, <1>3, <1>4, <1>5, <1>6, MapUnique DEF Log

\* When no more purges are found the map recovered is that of the log on the medium.
LEMMA EndOfLog ==
  ASSUME IInv, Order, MapInv, FinishRecovery
  PROVE  \E s \in Nat, from \in PurgeEnds, t \in LBATable :
           OnMedium(Map, ChunkNo, s, from, t, PurgePos) /\ Replayed(ChunkNo, s, t, PurgePos)
<1>1. /\ mode = "RECOVERY" /\ scan = MAX_CHUNKS + 1 /\ scan' = MAX_CHUNKS + 2 /\ MAX_CHUNKS \in Nat
      /\ UNCHANGED <<chunkCtl, purgeCtl, cacheVars, step, Map, Used, SCN, ChunkNo, ChunkLBA, PurgePos>>
      /\ FindNextChunk(ChunkNo, PurgePos) /\ ~PurgeOnMedium(purgeCtl)
      /\ ~RelocationDone' /\ ~RelocationPrepared'
  BY Geometry DEF FinishRecovery, diskVars, FindNextChunk
<1>2. ~Loaded /\ Loaded' /\ Positioned /\ step = "idle" /\ ~CacheDirty
  BY <1>1 DEF Loaded, Positioned, IInv, CachePhases
<1>3. PICK m \in Maps, cur \in Chunks, s \in Nat, from \in PurgeEnds, t \in LBATable,
           x \in PurgeEnds : OnMedium(m, cur, s, from, t, x) /\ Replayed(cur, s, t, x)
  BY <1>2 DEF MapInv, Resumable
<1>4. PICK pos \in PurgeEnds : pos = PurgePos
  BY DEF IInv, TypeOK, LogTypeOK
<1>5. /\ ChunkNo = cur /\ SCN[cur] = s /\ FirstPos(cur) <= pos /\ pos <= x
      /\ Agrees(Map, chunkCtl, cur, s, ChunkLBA, pos)
      /\ \A p \in Positions : FirstPos(cur) <= p /\ p < pos => t[p] = ChunkLBA[p]
      /\ pos \in Nat /\ x \in Nat /\ x <= LastPurgePos /\ LastPurgePos \in Nat
  BY <1>3, <1>4, Sizes DEF Replayed
<1>6. /\ Log(m, chunkCtl, purgeCtl, cur, s, t, x) /\ PurgesOlder(purgeCtl, cur, s, x)
      /\ RoomFor(m, cur, x) /\ Resumes(cur, s, from)
  BY <1>3 DEF OnMedium
<1>7. pos = x
  <2> SUFFICES ASSUME pos < x PROVE FALSE
    BY <1>5
  <2>1. purgeCtl[<<cur, pos>>] # Torn /\ purgeCtl[<<cur, pos>>].scn = s
    BY <1>5, <1>6 DEF Log, PurgesFollow
  <2> QED BY <1>1, <1>4, <1>5, <2>1 DEF PurgeOnMedium
<1>8. \A c \in Chunks : chunkCtl[c] # Torn => chunkCtl[c] \in ChunkCtls /\ chunkCtl[c].scn \in Nat
  BY OrderTypes DEF IInv, Present, ChunkCtls
<1>9. Map = m
  <2>1. Map \in Maps
    BY DEF IInv, TypeOK, LogTypeOK, Maps
  <2> QED BY <1>5, <1>6, <1>7, <1>8, <2>1, MapUnique DEF Log
<1> QED BY <1>3, <1>4, <1>5, <1>7, <1>9

\* All that the medium holds has been recovered.
LEMMA FinishRecoveryKeepsMap ==
  ASSUME IInv, Order, MapInv, FinishRecovery
  PROVE  MapInv'
<1>1. /\ mode = "RECOVERY" /\ scan = MAX_CHUNKS + 1 /\ scan' = MAX_CHUNKS + 2 /\ MAX_CHUNKS \in Nat
      /\ UNCHANGED <<chunkCtl, purgeCtl, cacheVars, step, Map, Used, SCN, ChunkNo, ChunkLBA, PurgePos>>
      /\ FindNextChunk(ChunkNo, PurgePos) /\ ~PurgeOnMedium(purgeCtl)
      /\ ~RelocationDone' /\ ~RelocationPrepared'
  BY Geometry DEF FinishRecovery, diskVars, FindNextChunk
<1>2. ~Loaded /\ Loaded' /\ Positioned /\ step = "idle" /\ ~CacheDirty
  BY <1>1 DEF Loaded, Positioned, IInv, CachePhases
<1>3. PICK cur \in Chunks, x \in PurgeEnds : cur = ChunkNo /\ x = PurgePos /\ Map \in Maps
  BY DEF IInv, TypeOK, LogTypeOK, Maps
<1>4. PICK s \in Nat, from \in PurgeEnds, t \in LBATable :
        OnMedium(Map, cur, s, from, t, x) /\ Replayed(cur, s, t, x)
  BY <1>3, EndOfLog
<1>5. /\ SCN[cur] = s /\ FirstPos(cur) <= x
      /\ \A p \in Positions : FirstPos(cur) <= p /\ p < x => t[p] = ChunkLBA[p]
      /\ x \in Nat /\ x <= LastPurgePos /\ LastPurgePos \in Nat
  BY <1>3, <1>4, Sizes DEF Replayed
<1>6. /\ Log(Map, chunkCtl, purgeCtl, cur, s, t, x) /\ PurgesOlder(purgeCtl, cur, s, x)
      /\ RoomFor(Map, cur, x) /\ Resumes(cur, s, from)
  BY <1>4 DEF OnMedium
<1>7. \A c \in Chunks : chunkCtl[c] # Torn => chunkCtl[c] \in ChunkCtls /\ chunkCtl[c].scn \in Nat
  BY OrderTypes DEF IInv, Present, ChunkCtls
<1>8. Log(Map, chunkCtl, purgeCtl, cur, s, ChunkLBA, x)
  <2>1. chunkCtl[cur] # Torn => chunkCtl[cur].start = FirstPos(cur)
    BY DEF MapInv, Medium, Present
  <2> QED BY <1>3, <1>5, <1>6, <1>7, <2>1, LogFrame
<1>9. PurgesOlder(purgeCtl, cur, s, x + 1)
  <2>1. \A l \in PurgePlaces : l[2] \in Nat
    BY Sizes, Geometry DEF PurgePlaces
  <2> QED BY <1>5, <1>6, <2>1 DEF PurgesOlder
<1>10. ~(chunkCtl[cur] # Torn /\ chunkCtl[cur].scn = s /\ chunkCtl[cur].end = LastPurgePos)
  <2>1. PICK c \in Chunks :
          /\ Leads(c)
          /\ IF chunkCtl[c].end = LastPurgePos
             THEN cur = chunkCtl[c].next /\ s = chunkCtl[c].scn + 1
             ELSE cur = c
    BY <1>6 DEF Resumes
  <2>2. ASSUME chunkCtl[c].end = LastPurgePos, chunkCtl[cur] # Torn PROVE chunkCtl[cur].scn # s
    <3>1. cur # c /\ chunkCtl[cur].scn < chunkCtl[c].scn
      BY <2>1, <2>2 DEF Leads, Present
    <3>2. chunkCtl[cur].scn \in Nat /\ chunkCtl[c].scn \in Nat
      BY <1>7, <2>1, <2>2 DEF Leads, Present
    <3> QED BY <2>1, <2>2, <3>1, <3>2
  <2> QED BY <2>1, <2>2
<1>11. Running'
  <2>1. Log(Map', chunkCtl', purgeCtl', ChunkNo', SCN'[ChunkNo'], ChunkLBA', PurgePos')
        /\ PurgesOlder(purgeCtl', ChunkNo', SCN'[ChunkNo'], PurgePos' + 1)
    BY <1>1, <1>3, <1>5, <1>8, <1>9
  <2>2. ~(Present(ChunkNo)' /\ chunkCtl'[ChunkNo'].scn = SCN'[ChunkNo']
          /\ chunkCtl'[ChunkNo'].end = LastPurgePos)
    BY <1>1, <1>3, <1>5, <1>10 DEF Present
  <2> QED BY <2>1, <2>2 DEF Running
<1>12. Unacknowledged' /\ Medium'
  BY <1>1 DEF Unacknowledged, PurgeOnMedium, MapInv, Medium, Present
<1>13. Relocation'
  <2>1. Fits(Used[NextChunkNo'], x)
    BY <1>1, <1>3, <1>6, NextChunkHasRoom
  <2> QED BY <1>1, <1>2, <1>3, <2>1 DEF Relocation, Pace, PacePhases, cacheVars
<1> QED BY <1>2, <1>11, <1>12, <1>13, LoadedKnows DEF MapInv

-----------------------------------------------------------------------------
(* The theorems *)

\* The table names the blocks of the cache as long as the purge is being written.
LEMMA RecordedKept == IInv /\ Recorded /\ [Next]_vars => Recorded'
<1> SUFFICES ASSUME IInv, Recorded, [Next]_vars PROVE Recorded'
  OBVIOUS
<1>1. CASE UNCHANGED <<step, ChunkLBA, PurgePos, cache>>
  BY <1>1 DEF Recorded, PurgeRange, PurgedLBA
<1>2. CASE step' # "purge"
  BY <1>2 DEF Recorded
<1>3. CASE WritePurge \/ FlushPurge
  <2>1. PurgePos < LastPurgePos
    BY <1>3, PurgePosition DEF WritePurge, FlushPurge, Ready, IInv, TypeOK, CachePhases
  <2>2. PurgeRange \subseteq Positions
    BY <2>1, PurgeInside DEF IInv, TypeOK
  <2>3. /\ ChunkLBA' = RecordPurge([p \in PurgeRange |-> PurgedLBA(p)])
        /\ UNCHANGED <<PurgePos, cache>>
    BY <1>3 DEF WritePurge, FlushPurge, ExecutePurgeCache, cacheVars
  <2>4. \A p \in PurgeRange : ChunkLBA'[p] = PurgedLBA(p)
    BY <2>2, <2>3 DEF RecordPurge
  <2> QED BY <2>3, <2>4 DEF Recorded, PurgeRange, PurgedLBA
<1>4. CASE Serve
  <2>1. CASE \/ WriteAbort \/ FlushDone \/ CloseChunk \/ FlushFinalize \/ SwitchChunk
             \/ PrepareRelocate \/ PrepareRelocateDone \/ RelocateQuota \/ RelocateEnd
             \/ RelocateCopy \/ ExecuteRelocate \/ RelocateRead
    <3>1. step' # "purge"
      BY <2>1 DEF WriteAbort, FlushDone, CloseChunk, FlushFinalize, ExecutePurgeChunk, SwitchChunk,
         Writing, PrepareRelocate, PrepareRelocateDone, RelocateQuota, RelocateEnd, RelocateCopy,
         ExecuteRelocate, RelocateRead
    <3> QED BY <1>2, <3>1
  <2>2. CASE WriteHit \/ WriteFill \/ CacheFillReadDone \/ WriteAppend \/ FlushFill
    <3>1. step' # "purge"
      BY <2>2 DEF WriteHit, WriteFill, CacheFillReadDone, WriteAppend, FlushFill, CacheFill, Ready,
         Writing, Flushing
    <3> QED BY <1>2, <3>1
  <2>3. CASE PurgeCacheDone \/ PurgeChunkDone \/ IoFails
    BY <1>2, <2>3 DEF PurgeCacheDone, PurgeChunkDone, IoFails
  <2> QED BY <1>3, <1>4, <2>1, <2>2, <2>3 DEF Serve
<1>5. CASE Crash \/ Reinitialize
  BY <1>2, <1>5 DEF Crash, Reinitialize, LoseMemory
<1>6. CASE Recover
  BY <1>2, <1>6 DEF Recover, ScanChunk, RecoverPosition, ReplayPurge, FinishRecovery, IInv, CachePhases
<1>7. CASE \/ \E k \in Kinds, b \in Blocks : DispatchWrite(k, b)
           \/ \E k \in Kinds : DispatchFlush(k)
  BY <1>2, <1>7 DEF DispatchWrite, DispatchFlush
<1>8. ASSUME NEW r \in Readers, NEW b \in Blocks, StartRead(r, b) PROVE Recorded'
  BY <1>1, <1>8 DEF StartRead, logVars, cacheVars
<1>9. ASSUME NEW r \in Readers, FinishRead(r) PROVE Recorded'
  <2>1. UNCHANGED <<ChunkLBA, PurgePos, cache>> /\ step' \in {step, "handler"}
    BY <1>9 DEF FinishRead, logVars, cacheVars
  <2> QED BY <1>1, <1>2, <2>1
<1>10. CASE RecoveryFails \/ UNCHANGED vars
  BY <1>1, <1>10 DEF RecoveryFails, vars, logVars, cacheVars
<1> QED BY <1>4, <1>5, <1>6, <1>7, <1>8, <1>9, <1>10 DEF Next

\* A formatted medium holds a log: that of chunk 1, with the first purge on a fixed disk.
LEMMA FormatHoldsLog ==
  ASSUME NEW fixed \in BOOLEAN, Formatted(fixed)
  PROVE  /\ Medium
         /\ \E m \in Maps, s \in Nat, from \in PurgeEnds, t \in LBATable, x \in PurgeEnds :
              /\ OnMedium(m, 1, s, from, t, x)
              /\ saved = [b \in Blocks |-> IF m[b] = NotMapped THEN {} ELSE data[m[b]]]
<1> DEFINE t == FormatLBA(fixed)
           x == IF fixed THEN CacheSize ELSE 0
           m == [b \in Blocks |-> IF fixed /\ b = 0 THEN <<1, 0>> ELSE NotMapped]
           first == [scn |-> 1, wcn |-> 1, next |-> 1, nextWcn |-> 0, start |-> 0,
                     end |-> IF fixed THEN CacheSize ELSE 0, lba |-> t]
           purge == [scn |-> 1, lba |-> [i \in 0..LastCachePos |-> IF i = 0 THEN 0 ELSE NotMapped]]
<1>1. /\ x \in PurgeEnds /\ x \in Nat /\ x <= CacheSize /\ x # LastPurgePos /\ FirstPos(1) = 0
      /\ LastPurgePos \in Nat /\ LastCachePos \in Nat /\ CacheSize \in Nat /\ x <= LastPurgePos
      /\ (fixed => 0 < x) /\ CacheSize = LastCachePos + 1
  BY Sizes DEF FirstPos
<1>2. t \in LBATable /\ \A p \in Positions : t[p] = IF fixed /\ p = 0 THEN 0 ELSE NotMapped
  BY SmallNumbers DEF FormatLBA, LBATable
<1>3. first \in ChunkCtls /\ first # Torn
  <2>1. first \in ChunkCtls
    BY <1>2, SmallNumbers, Sizes DEF ChunkCtls
  <2> QED BY <2>1, TornIsNoControl
<1>4. chunkCtl[1] = first /\ \A c \in Chunks \ {1} : chunkCtl[c] = Torn
  BY SmallNumbers DEF Formatted
<1>5. /\ Present(1) /\ chunkCtl[1].scn = 1 /\ chunkCtl[1].start = 0 /\ chunkCtl[1].end = x
      /\ chunkCtl[1].lba = t /\ \A c \in Chunks \ {1} : ~Present(c)
  BY <1>3, <1>4 DEF Present
<1>6. purge \in PurgeCtls /\ purge # Torn
  <2>1. purge \in PurgeCtls
    BY SmallNumbers DEF PurgeCtls
  <2> QED BY <2>1, TornIsNoControl
<1>7. \A l \in PurgePlaces : purgeCtl[l] = IF fixed /\ l = <<1, 0>> THEN purge ELSE Torn
  BY DEF Formatted
<1>8. m \in Maps
  BY SmallNumbers DEF Maps, Places
<1>9. \A b \in Blocks :
        /\ m[b] # NotMapped => fixed /\ b = 0 /\ m[b][1] = 1 /\ m[b][2] = 0
        /\ fixed /\ b = 0 => m[b] # NotMapped
  <2>1. <<1, 0>> \in Places
    BY SmallNumbers DEF Places
  <2> QED BY <2>1, Parameters
<1> HIDE DEF first, purge, m, t, x
<1>10. Medium
  BY <1>1, <1>5 DEF Medium
<1>11. Resumes(1, 1, x)
  <2>1. Leads(1)
    BY <1>1, <1>5 DEF Leads
  <2> QED BY <1>1, <1>5, <2>1, SmallNumbers DEF Resumes
<1>12. Agrees(m, chunkCtl, 1, 1, t, x)
  <2>1. \A c \in Chunks, p \in Positions, b \in Blocks :
          Says(chunkCtl, 1, t, x, c, p, b) <=> c = 1 /\ p < x /\ t[p] = b
    BY <1>1, <1>5, SmallNumbers DEF Says, Named, Present
  <2>2. \A p \in Positions, b \in Blocks : t[p] = b => fixed /\ p = 0 /\ b = 0
    BY <1>2, Parameters
  <2>3. fixed => t[0] = 0
    BY <1>2, SmallNumbers
  <2>4. 1 \in Chunks /\ 0 \in Positions
    BY SmallNumbers
  <2> QED BY <1>1, <1>9, <2>1, <2>2, <2>3, <2>4 DEF Agrees
<1>13. PurgesFollow(purgeCtl, 1, 1, t, x)
  <2> SUFFICES ASSUME NEW q \in PurgeEnds, q < x
               PROVE  /\ purgeCtl[<<1, q>>] # Torn /\ purgeCtl[<<1, q>>].scn = 1
                      /\ \A i \in 0..LastCachePos : purgeCtl[<<1, q>>].lba[i] = t[q + i]
    BY DEF PurgesFollow
  <2>1. q = 0 /\ fixed
    <3>1. q + CacheSize <= x /\ q \in Nat
      BY <1>1, PurgesApart, Sizes
    <3>2. q = 0
      BY <1>1, <3>1
    <3>3. ~fixed => x = 0
      BY DEF x
    <3> QED BY <1>1, <3>2, <3>3
  <2>2. purgeCtl[<<1, q>>] = purge
    <3>1. <<1, 0>> \in PurgePlaces
      BY PurgeFits, Sizes, SmallNumbers
    <3> QED BY <1>7, <2>1, <3>1
  <2>3. \A i \in 0..LastCachePos : i \in Positions /\ q + i = i
    BY <1>1, <2>1, Sizes DEF Positions
  <2>4. /\ purge.scn = 1
        /\ \A i \in 0..LastCachePos : purge.lba[i] = IF i = 0 THEN 0 ELSE NotMapped
    BY DEF purge
  <2> QED BY <1>2, <1>6, <2>1, <2>2, <2>3, <2>4
<1>14. PurgesOlder(purgeCtl, 1, 1, x)
  <2>1. purge.scn = 1
    BY DEF purge
  <2> QED BY <1>1, <1>7, <2>1 DEF PurgesOlder
<1>15. OldControl(chunkCtl, 1, 1) /\ OwnControl(chunkCtl, 1, 1, t, x)
  BY <1>1, <1>5 DEF OldControl, OwnControl, Present
<1>16. RoomFor(m, 1, x)
  <2>1. In(m, 0) = {}
    BY <1>9 DEF In
  <2>2. Cardinality(In(m, 0)) = 0
    BY <2>1, FS_EmptySet
  <2>3. (LastPurgePos - x) * LastCachePos \in Nat /\ 0 * CacheSize = 0
    BY <1>1
  <2>4. Fits(0, x)
    BY <2>3 DEF Fits
  <2> QED BY <2>2, <2>4, SmallNumbers DEF RoomFor
<1>17. OnMedium(m, 1, 1, x, t, x)
  BY <1>1, <1>11, <1>12, <1>13, <1>14, <1>15, <1>16 DEF OnMedium, Log
<1>18. saved = [b \in Blocks |-> IF m[b] = NotMapped THEN {} ELSE data[m[b]]]
  <2>1. fixed => m[0] = <<1, 0>> /\ data[<<1, 0>>] = Whole(0)
    BY SmallNumbers DEF m, Formatted, Places
  <2> QED BY <1>9, <2>1 DEF Formatted
<1> QED BY <1>1, <1>2, <1>8, <1>10, <1>17, <1>18

\* A formatted medium holds a whole log.
LEMMA InitMap == Init => MapInv /\ Recorded
<1> SUFFICES ASSUME Init PROVE MapInv /\ Recorded
  OBVIOUS
<1>1. /\ scan = 0 /\ Map = [b \in Blocks |-> NotMapped] /\ ~CacheDirty /\ step = "idle"
      /\ ~RelocationPrepared /\ ~RelocationDone /\ ChunkNo = 1
  BY DEF Init
<1>2. ~Loaded /\ ~Positioned /\ \A c \in Chunks : ~(c < scan)
  BY <1>1, Geometry DEF Loaded, Positioned, Chunks
<1>3. PICK fixed \in BOOLEAN : Formatted(fixed)
  BY DEF Init
<1>4. Medium /\ Resumable
  BY <1>2, <1>3, FormatHoldsLog, SmallNumbers DEF Resumable
<1>5. ScannedMap
  <2>1. ~(ChunkNo < scan)
    BY <1>1, <1>2, SmallNumbers
  <2> QED BY <1>1, <1>2, <2>1 DEF ScannedMap
<1>6. Running /\ Unacknowledged /\ Relocation /\ Recorded
  BY <1>1, <1>2 DEF Running, Unacknowledged, Relocation, Pace, PacePhases, Recorded
<1> QED BY <1>4, <1>5, <1>6 DEF MapInv

\* The invariant is kept by every step.
LEMMA NextKeepsMap ==
  ~TornFirstChunk /\ Capacity /\ IInv /\ Order /\ MapInv /\ Recorded /\ [Next]_vars => MapInv'
<1> SUFFICES ASSUME ~TornFirstChunk, Capacity, IInv, Order, MapInv, Recorded, [Next]_vars
             PROVE  MapInv'
  OBVIOUS
<1>1. TypeOK /\ IInv'
  BY NextKeeps DEF IInv
<1>2. CASE Serve
  <2>1. CASE WriteAbort \/ FlushDone BY <1>1, <2>1, RequestStepsKeepMap
  <2>2. CASE CloseChunk \/ FlushFinalize BY <1>1, <2>2, PurgeChunkBeginsKeepsMap
  <2>3. CASE SwitchChunk BY <2>3, SwitchChunkKeepsMap
  <2>4. CASE PrepareRelocate BY <1>1, <2>4, PrepareRelocateKeepsMap
  <2>5. CASE PrepareRelocateDone BY <1>1, <2>5, PrepareRelocateDoneKeepsMap
  <2>6. CASE RelocateQuota BY <1>1, <2>6, RelocateQuotaKeepsMap
  <2>7. CASE RelocateEnd BY <1>1, <2>7, RelocateEndKeepsMap
  <2>8. CASE RelocateCopy \/ ExecuteRelocate \/ RelocateRead BY <1>1, <2>8, RelocateStepsKeepMap
  <2>9. CASE WriteHit \/ WriteFill \/ CacheFillReadDone \/ WriteAppend \/ FlushFill
    BY <1>1, <2>9, CacheStepsKeepMap
  <2>10. CASE WritePurge \/ FlushPurge BY <2>10, PurgeBeginsKeepsMap
  <2>11. CASE PurgeCacheDone BY <1>1, <2>11, PurgeCacheDoneKeepsMap
  <2>12. CASE PurgeChunkDone BY <1>1, <2>12, PurgeChunkDoneKeepsMap
  <2>13. CASE IoFails BY <1>1, <2>13, IoFailsKeepsMap
  <2> QED BY <1>2, <2>1, <2>2, <2>3, <2>4, <2>5, <2>6, <2>7, <2>8, <2>9, <2>10, <2>11, <2>12,
             <2>13 DEF Serve
<1>3. CASE Crash \/ Reinitialize
  BY <1>1, <1>3, RestartKeepsMap
<1>4. CASE Recover
  BY <1>4, ScanChunkKeepsMap, RecoverPositionKeepsMap, ReplayPurgeKeepsMap, FinishRecoveryKeepsMap
     DEF Recover
<1>5. CASE \/ \E k \in Kinds, b \in Blocks : DispatchWrite(k, b)
           \/ \E k \in Kinds : DispatchFlush(k)
           \/ \E r \in Readers, b \in Blocks : StartRead(r, b)
           \/ \E r \in Readers : FinishRead(r)
           \/ RecoveryFails \/ UNCHANGED vars
  BY <1>1, <1>5, RequestStepsKeepMap
<1> QED BY <1>2, <1>3, <1>4, <1>5 DEF Next

\* What is on the medium and in memory is a whole log in every reachable state.
LEMMA MapKept ==
  ~TornFirstChunk /\ Capacity /\ Spec => [](IInv /\ Order /\ MapInv /\ Recorded)
<1> SUFFICES ASSUME ~TornFirstChunk, Capacity
             PROVE  Spec => [](IInv /\ Order /\ MapInv /\ Recorded)
  OBVIOUS
<1>1. Init => IInv /\ Order /\ MapInv /\ Recorded
  BY InitIInv, InitOrder, InitMap
<1>2. IInv /\ Order /\ MapInv /\ Recorded /\ [Next]_vars => (IInv /\ Order /\ MapInv /\ Recorded)'
  BY NextKeeps, NextKeepsOrder, NextKeepsMap, RecordedKept
<1> QED BY <1>1, <1>2, PTL DEF Spec

\* No block is mapped behind PurgePos of the current chunk.
LEMMA NothingBehind ==
  ASSUME IInv, MapInv, Loaded, NEW b \in Blocks, Map[b] # NotMapped, Map[b][1] = ChunkNo
  PROVE  Map[b][2] \notin PurgeRange
<1>1. Map[b][2] < PurgePos
  BY DEF MapInv, Running, Log, Agrees, Says
<1>2. PurgePos \in Nat /\ Map[b][2] \in Nat
  BY PurgePosition, SmallNumbers DEF IInv, TypeOK, LogTypeOK, Places
<1> QED BY <1>1, <1>2 DEF PurgeRange

\* No purge overwrites the place of a block that is still mapped there: PurgePos lies
\* behind every live block of the current chunk (vscsi.c:287-371).  Assumed are that the
\* first control ever written is not torn and that the blocks leave the relocation room.
THEOREM NoLiveLost == ~TornFirstChunk /\ Capacity /\ Spec => []NoLiveOverwritten
<1>1. IInv /\ Order /\ MapInv => NoLiveOverwritten
  BY NothingBehind DEF NoLiveOverwritten, Order, OrderPhases
<1> QED BY <1>1, MapKept, PTL

\* When a chunk is full the next one is empty (the assertion at vscsi.c:233).
THEOREM NextEmpty == ~TornFirstChunk /\ Capacity /\ Spec => []NextChunkIsEmpty
<1>1. IInv /\ MapInv => NextChunkIsEmpty
  BY FullChunkSucceeds DEF NextChunkIsEmpty
<1> QED BY <1>1, MapKept, PTL

\* Recovery never meets the "Broken relocation consistency" of recovery.c:136-139.
THEOREM RecoveryConsistent == ~TornFirstChunk /\ Capacity /\ Spec => []RelocationConsistent
<1>1. IInv /\ Order /\ MapInv => RelocationConsistent
  <2> SUFFICES ASSUME IInv, Order, MapInv, scan = MAX_CHUNKS, chunkCtl[ChunkNo].end = LastPurgePos
               PROVE  Used[chunkCtl[ChunkNo].next] = 0
    BY DEF RelocationConsistent
  <2>1. PICK next \in Chunks : next = chunkCtl[ChunkNo].next /\ In(Map, next) = {}
    BY NewestFound
  <2>2. Used[next] = Cardinality(In(Map, next))
    BY DEF IInv, UsedCounts, In
  <2> QED BY <2>1, <2>2, FS_EmptySet
<1> QED BY <1>1, MapKept, PTL

\* The blocks left to relocate never get ahead of the room left in the chunk: the quota of
\* IsRelocatedEnough (vrelocation.c) is kept at every purge and restored by every restart.
THEOREM PaceKept == ~TornFirstChunk /\ Capacity /\ Spec => []RelocationKeepsPace
<1>1. MapInv => RelocationKeepsPace
  BY DEF MapInv, Relocation, Pace, RelocationKeepsPace
<1> QED BY <1>1, MapKept, PTL

\* The LBA table read from the next chunk names every live block of it once.
LEMMA LiveCounts ==
  ASSUME IInv, MapInv, RelocationPrepared
  PROVE  Used[NextChunkNo] = Cardinality({p \in Positions : Live(p)})
<1> DEFINE N == In(Map, NextChunkNo)
           L == {p \in Positions : Live(p)}
           f == [b \in N |-> Map[b][2]]
<1>1. \A b \in N : b \in Blocks /\ Map[b][2] \in Positions /\ Map[b] = <<NextChunkNo, Map[b][2]>>
  BY DEF In, IInv, TypeOK, LogTypeOK, Places
<1>2. \A b \in N : NextLBA[Map[b][2]] = b
  BY <1>1 DEF MapInv, Relocation, Pace
<1>3. \A b \in N : Map[b][2] \in L
  BY <1>1, <1>2 DEF Live, IsLive
<1>4. ASSUME NEW p \in L PROVE NextLBA[p] \in N /\ Map[NextLBA[p]][2] = p
  <2>1. p \in Positions /\ NextLBA[p] \in Blocks /\ Map[NextLBA[p]] = <<NextChunkNo, p>>
    BY <1>4 DEF Live, IsLive
  <2>2. <<NextChunkNo, p>> \in Places
    BY <2>1 DEF IInv, TypeOK, LogTypeOK, Places
  <2> QED BY <2>1, <2>2, Parameters DEF In
<1>5. \A a, b \in N : Map[a][2] = Map[b][2] => a = b
  BY <1>2
<1>6. Used[NextChunkNo] = Cardinality(N) /\ IsFiniteSet(N)
  BY UncachedCounts, Counts DEF IInv, UsedCounts, In, TypeOK, LogTypeOK
<1> HIDE DEF N, L
<1>7. f \in Bijection(N, L)
  <2>1. \A b \in N : f[b] \in L
    BY <1>3
  <2>2. \A a, b \in N : f[a] = f[b] => a = b
    BY <1>5
  <2>3. \A p \in L : \E b \in N : f[b] = p
    BY <1>4
  <2>4. f \in [N -> L]
    BY <2>1
  <2> QED BY <2>2, <2>3, <2>4 DEF Bijection, Injection, Surjection, IsInjective
<1>8. Cardinality(N) = Cardinality(L)
  <2> HIDE DEF f
  <2> QED BY <1>6, <1>7, FS_Bijection DEF ExistsBijection
<1> QED BY <1>6, <1>8 DEF L

\* The relocation knows of all live blocks of the next chunk (vrelocation.c:29-42), and
\* caches no more than there are (vrelocation.c:62).
THEOREM AllSeen == ~TornFirstChunk /\ Capacity /\ Spec => []RelocationSeesAll
<1>1. IInv /\ MapInv => RelocationSeesAll
  BY LiveCounts, CachedAreRelocated, CachedAreCounted DEF RelocationSeesAll, IInv, TypeOK, LogTypeOK
<1> QED BY <1>1, MapKept, PTL
=============================================================================
