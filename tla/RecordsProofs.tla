--------------------------- MODULE RecordsProofs ----------------------------
(***************************************************************************)
(* What TLAPS proves of PoolFigures, for every number of paths, parts and  *)
(* days: the figures of a pool count every file once, with the disks it is *)
(* on, and the alert on too few copies speaks of the files that were short *)
(* of them for the whole of the grace period. And of CatalogHistory, for   *)
(* every number of members, files and runs: the log of changes tells the   *)
(* story of every row, the totals are those of the rows when a pass is     *)
(* done, and a member that lost half of its files has its alert. And of    *)
(* Benchmark, for every number of disks, agents and runs: each measurement *)
(* is judged, and the alerts say what the newest of a disk's says.         *)
(***************************************************************************)
EXTENDS PoolFigures, CatalogHistory, Benchmark, FiniteSetTheorems, SequenceTheorems, TLAPS

-----------------------------------------------------------------------------
AllDisks == PartSet \cup {DeviceReported[r] : r \in PartSet}

RollType ==
  [pc : {"off", "on"}, key : Paths \cup {0}, part : DOMAIN PoolParts \cup {0}, group : Paths \cup {0},
   disks : SUBSET AllDisks, counted : Seq(Paths \X Nat), dirty : SUBSET Paths, unknown : SUBSET PartSet]
CheckType ==
  [pc : {"off", "levels", "rollup", "shared", "sweep"}, key : Paths \cup {0}, on : BOOLEAN, unknown : SUBSET PartSet]

FiguresTyped ==
  /\ fileRows \in [Paths -> [PartSet -> {"none", "live", "deleted"}]]
  /\ dupLevel \in [Paths -> Nat] /\ unreported \subseteq PartSet
  /\ roller \in [Rollers -> RollType] /\ figures \in Seq(Paths \X Nat)
  /\ dupCheck \in CheckType
  /\ shortfall \in [Paths -> 0..LastDay] /\ marked \subseteq Paths
  /\ dupAlerts \subseteq {"under", "shared"}
  /\ poolDay \in 1..LastDay /\ checkedOn \in 0..poolDay
  /\ untrusted \subseteq Paths
  /\ sweeps \in Seq([on : 1..LastDay, left : SUBSET Paths])

(* A list counts no path twice; it counts a path as the catalog has it.    *)
OnceEach(list) == \A i, j \in DOMAIN list : list[i][1] = list[j][1] => i = j
Counts(list, unknown, p) ==
  Known(p) <=> \E i \in DOMAIN list : list[i] = <<p, Cardinality(Devices(p, unknown))>>

(* The disks of the path a rollup is at, by the rows up to its cursor.     *)
SeenOf(roll) ==
  {DeviceOf(PoolParts[i], roll.unknown) : i \in {j \in 1..roll.part : fileRows[roll.group][PoolParts[j]] = "live"}}

(* A rollup has counted the paths before its cursor, and knows of the one  *)
(* at it the disks it has read, those that changed under it excepted.      *)
RollupIsSound(roll) ==
  roll.pc = "on" =>
    /\ roll.key = roll.group /\ (roll.group = 0 => roll.counted = <<>>)
    /\ OnceEach(roll.counted) /\ \A i \in DOMAIN roll.counted : roll.counted[i][1] < roll.group
    /\ \A p \in Paths \ roll.dirty :
         /\ roll.unknown = unreported
         /\ p < roll.group => Counts(roll.counted, roll.unknown, p)
         /\ p = roll.group => Known(p) /\ roll.disks = SeenOf(roll)

FiguresAreRight ==
  OnceEach(figures) /\ \A p \in Paths \ untrusted : Counts(figures, unreported, p)

RollupInv ==
  /\ \A w \in Rollers : RollupIsSound(roller[w])
  /\ FiguresAreRight

(* A path is in the table since the day of the sweep from which on every   *)
(* one left it there, or, until the sweep that has marked it ends, since   *)
(* today.                                                                  *)
LeftSince(p, i) == \A j \in i..Len(sweeps) : p \in sweeps[j].left
TableTellsSince ==
  /\ \A p \in Paths : shortfall[p] > 0 =>
       \/ \E i \in DOMAIN sweeps : sweeps[i].on = shortfall[p] /\ LeftSince(p, i)
       \/ p \in marked /\ shortfall[p] = poolDay
  /\ \A p \in Paths, i \in DOMAIN sweeps : LeftSince(p, i) => shortfall[p] > 0 /\ shortfall[p] <= sweeps[i].on

(* The marks are the ones of the sweep that is under way, which is of a    *)
(* check that has not been made today.                                     *)
CheckIsUnderWay ==
  /\ CheckAt("off") \/ checkedOn < poolDay
  /\ roller["check"].pc = "on" => CheckAt("rollup")
  /\ marked # {} => CheckAt("sweep") /\ tracking
  /\ \A p \in marked : p <= dupCheck.key /\ shortfall[p] > 0
  /\ \A p \in Paths : shortfall[p] <= poolDay
  /\ \A i \in DOMAIN sweeps : sweeps[i].on <= poolDay

AlertIsDue ==
  CheckAt("off") /\ checkedOn = poolDay =>
    ("under" \in dupAlerts <=> \E p \in Paths : shortfall[p] > 0 /\ shortfall[p] <= poolDay - Grace)

TableInv == TableTellsSince /\ CheckIsUnderWay /\ AlertIsDue

FiguresInv == FiguresTyped /\ RollupInv /\ TableInv

-----------------------------------------------------------------------------
(* Paths, parts and disks.                                                 *)

LEMMA NumbersAre ==
  /\ Len(FirstRows) \in Nat /\ Paths = 1..Len(FirstRows) /\ Paths \subseteq Nat \ {0}
  /\ Len(PoolParts) \in Nat /\ DOMAIN PoolParts = 1..Len(PoolParts) /\ DOMAIN PoolParts \subseteq Nat \ {0}
  /\ Grace \in Nat /\ LastDay \in Nat \ {0} /\ MaxWrites \in Nat
  BY FiguresAssumption DEF Paths

LEMMA PathsAreOrdered ==
  /\ \A p, q \in Paths : (p < q => p # q /\ p <= q /\ ~(q < p)) /\ (~(p < q) => q <= p) /\ (p <= q /\ p # q => p < q)
  /\ \A p \in Paths : p <= p /\ p # 0 /\ 0 < p /\ ~(p < 0) /\ p \in Nat
  BY NumbersAre

(* The image of a finite set under a function is finite.                   *)
LEMMA ImageIsFinite ==
  ASSUME NEW S, IsFiniteSet(S), NEW T, NEW f \in [S -> T], \A t \in T : \E s \in S : f[s] = t
  PROVE  IsFiniteSet(T)
  <1>1. f \in Surjection(S, T)
    BY DEF Surjection
  <1>2. \A U, V : \A g \in Surjection(U, V) : IsFiniteSet(U) => IsFiniteSet(V)
    BY FS_Surjection
  <1> QED BY <1>1, <1>2

LEMMA DisksAreFinite == IsFiniteSet(AllDisks)
  <1>1. IsFiniteSet(DOMAIN PoolParts)
    BY NumbersAre, FS_Interval
  <1>2. IsFiniteSet(PartSet)
    <2> DEFINE f == [i \in DOMAIN PoolParts |-> PoolParts[i]]
    <2>1. f \in [DOMAIN PoolParts -> PartSet] /\ \A r \in PartSet : \E i \in DOMAIN PoolParts : f[i] = r
      BY DEF PartSet
    <2> QED BY <1>1, <2>1, ImageIsFinite
  <1>3. IsFiniteSet({DeviceReported[r] : r \in PartSet})
    <2> DEFINE T == {DeviceReported[r] : r \in PartSet}
               f == [r \in PartSet |-> DeviceReported[r]]
    <2>1. f \in [PartSet -> T] /\ \A d \in T : \E r \in PartSet : f[r] = d
      OBVIOUS
    <2> QED BY <1>2, <2>1, ImageIsFinite, ZenonT(40)
  <1> QED BY <1>2, <1>3, FS_Union DEF AllDisks

LEMMA DeviceIsADisk == ASSUME NEW r \in PartSet, NEW unknown PROVE DeviceOf(r, unknown) \in AllDisks
  BY DEF DeviceOf, AllDisks

LEMMA DisksAreCounted == ASSUME NEW S \in SUBSET AllDisks PROVE Cardinality(S) \in Nat
  BY DisksAreFinite, FS_Subset, FS_CardinalityType

(* A set of numbers without a least one would leave below it a finite set  *)
(* that is as large as itself without zero.                                *)
LEMMA LeastIs == ASSUME NEW S \in SUBSET Nat, S # {} PROVE \E n \in S : \A m \in S : n <= m
  <1> SUFFICES ASSUME \A n \in S : \E m \in S : m < n PROVE FALSE
    OBVIOUS
  <1>1. PICK x \in S : TRUE
    OBVIOUS
  <1> DEFINE A == {n \in 0..x : \A m \in S : n < m}
             f == [n \in A |-> IF n = 0 THEN 0 ELSE n - 1]
  <1>2. 0 \in A
    BY <1>1
  <1>3. \A n \in A : n + 1 \in A
    <2> TAKE n \in A
    <2>1. n \in Nat /\ \A m \in S : m \in Nat /\ n + 1 <= m
      OBVIOUS
    <2>2. ASSUME NEW m \in S, m = n + 1 PROVE FALSE
      BY <2>1, <2>2
    <2>3. \A m \in S : n + 1 < m
      BY <2>1, <2>2
    <2> QED BY <1>1, <2>1, <2>3
  <1>4. IsFiniteSet(A)
    <2>1. IsFiniteSet(0..x)
      BY <1>1, FS_Interval
    <2> QED BY <2>1, FS_Subset
  <1>5. f \in Surjection(A, A)
    <2>1. \A n \in A : f[n] \in A
      OBVIOUS
    <2>2. \A n \in A : n + 1 \in A /\ f[n + 1] = n
      BY <1>3
    <2> QED BY <2>1, <2>2 DEF Surjection
  <1>6. f \in Injection(A, A)
    <2>1. \A U : IsFiniteSet(U) => \A g \in Surjection(U, U) : g \in Injection(U, U)
      BY FS_SurjSameCardinalityImpliesInj
    <2> HIDE DEF A, f
    <2> QED BY <1>4, <1>5, <2>1
  <1>7. 0 \in A /\ 1 \in A /\ 0 # 1 /\ f[0] = f[1]
    BY <1>2, <1>3
  <1>8. \A a, b \in A : f[a] = f[b] => a = b
    <2> HIDE DEF A, f
    <2> QED BY <1>6 DEF Injection, IsInjective
  <1> HIDE DEF A, f
  <1> QED BY <1>7, <1>8

(* If a rollup has a row to read, it has a first one.                      *)
LEMMA FirstRowIs ==
  ASSUME FiguresTyped, NEW w \in Rollers, NEW p \in Paths, NEW i \in DOMAIN PoolParts,
         fileRows[p][PoolParts[i]] # "none", AfterCursor(w, <<p, i>>)
  PROVE  NextRow(w) # {}
  <1> DEFINE There(q, j) == fileRows[q][PoolParts[j]] # "none" /\ AfterCursor(w, <<q, j>>)
  <1>1. PICK q \in Paths : /\ \E j \in DOMAIN PoolParts : There(q, j)
                         /\ \A y \in Paths : (\E j \in DOMAIN PoolParts : There(y, j)) => q <= y
    <2> DEFINE S == {y \in Paths : \E j \in DOMAIN PoolParts : There(y, j)}
    <2>1. S \in SUBSET Nat /\ p \in S
      BY NumbersAre
    <2>2. PICK q \in S : \A y \in S : q <= y
      BY <2>1, LeastIs
    <2> QED BY <2>2
  <1>2. PICK k \in DOMAIN PoolParts : There(q, k) /\ \A j \in DOMAIN PoolParts : There(q, j) => k <= j
    <2> DEFINE S == {j \in DOMAIN PoolParts : There(q, j)}
    <2>1. S \in SUBSET Nat /\ S # {}
      BY <1>1, NumbersAre
    <2>2. PICK k \in S : \A j \in S : k <= j
      BY <2>1, LeastIs
    <2> QED BY <2>2
  <1>3. \A y \in Paths \X DOMAIN PoolParts : There(y[1], y[2]) => q < y[1] \/ (q = y[1] /\ k <= y[2])
    <2> TAKE y \in Paths \X DOMAIN PoolParts
    <2>1. PICK m \in Paths, j \in DOMAIN PoolParts : y[1] = m /\ y[2] = j
      OBVIOUS
    <2>2. There(m, j) => q <= m /\ (m = q => k <= j)
      BY <1>1, <1>2
    <2> QED BY <2>1, <2>2, NumbersAre
  <1>4. \A y \in Paths \X DOMAIN PoolParts : AfterCursor(w, y) <=> AfterCursor(w, <<y[1], y[2]>>)
    BY DEF AfterCursor
  <1>5. <<q, k>> \in NextRow(w)
    BY <1>1, <1>2, <1>3, <1>4 DEF NextRow
  <1> QED BY <1>5

-----------------------------------------------------------------------------
(* A rollup.                                                               *)

LEMMA RollIs ==
  ASSUME FiguresTyped, NEW w \in Rollers
  PROVE  /\ roller[w] \in RollType
         /\ roller[w].pc \in {"off", "on"} /\ roller[w].key \in Paths \cup {0}
         /\ roller[w].part \in DOMAIN PoolParts \cup {0} /\ roller[w].group \in Paths \cup {0}
         /\ roller[w].disks \in SUBSET AllDisks /\ roller[w].counted \in Seq(Paths \X Nat)
         /\ roller[w].dirty \in SUBSET Paths /\ roller[w].unknown \in SUBSET PartSet
  BY DEF FiguresTyped, RollType

LEMMA NoRollupIs ==
  /\ NoRollup \in RollType /\ NoRollup.pc = "off" /\ NoRollup.dirty = {} /\ NoRollup.counted = <<>>
  /\ NoRollup.group = 0 /\ NoRollup.key = 0 /\ NoRollup.part = 0
  BY EmptySeq, NumbersAre DEF NoRollup, RollType

(* A path whose rows are as they were is known as it was, on the same disks. *)
LEMMA PathKept ==
  ASSUME NEW p, fileRows'[p] = fileRows[p]
  PROVE  /\ Known(p)' <=> Known(p)
         /\ \A unknown : Devices(p, unknown)' = Devices(p, unknown)
         /\ \A list, unknown : Counts(list, unknown, p)' <=> Counts(list, unknown, p)
  <1>1. Known(p)' <=> Known(p)
    BY DEF Known
  <1>2. \A unknown : Devices(p, unknown)' = Devices(p, unknown)
    BY DEF Devices
  <1> QED BY <1>1, <1>2 DEF Counts

(* A list to which the last path has been added.                           *)
Below(list, g) == \A i \in DOMAIN list : list[i][1] < g
Adds(l, list, g, n) ==
  /\ l \in Seq(Paths \X Nat) /\ OnceEach(l) /\ \A i \in DOMAIN l : l[i][1] <= g
  /\ \A q, m : q # g => ((\E i \in DOMAIN l : l[i] = <<q, m>>) <=> \E i \in DOMAIN list : list[i] = <<q, m>>)
  /\ \A m : (\E i \in DOMAIN l : l[i] = <<g, m>>) <=> m = n

LEMMA AppendedIs ==
  ASSUME NEW list \in Seq(Paths \X Nat), NEW g \in Paths, NEW n \in Nat, OnceEach(list), Below(list, g)
  PROVE  Adds(Append(list, <<g, n>>), list, g, n)
  <1> DEFINE l == Append(list, <<g, n>>)
  <1>1. /\ Len(list) \in Nat /\ DOMAIN list = 1..Len(list)
        /\ DOMAIN l = 1..(Len(list) + 1) /\ l \in Seq(Paths \X Nat)
        /\ \A i \in DOMAIN list : l[i] = list[i]
        /\ l[Len(list) + 1] = <<g, n>>
    BY AppendProperties, LenProperties
  <1> HIDE DEF l
  <1>2. \A i \in DOMAIN l : i \in DOMAIN list \/ i = Len(list) + 1
    BY <1>1
  <1>3. \A i \in DOMAIN list : l[i] = list[i] /\ l[i][1] \in Paths /\ l[i][1] < g
    <2> TAKE i \in DOMAIN list
    <2>1. list[i] \in Paths \X Nat
      BY <1>1, ElementOfSeq
    <2> QED BY <1>1, <2>1 DEF Below
  <1>4. OnceEach(l)
    <2> SUFFICES ASSUME NEW i \in DOMAIN l, NEW j \in DOMAIN l, l[i][1] = l[j][1] PROVE i = j
      BY DEF OnceEach
    <2>1. CASE i \in DOMAIN list /\ j \in DOMAIN list
      BY <1>1, <2>1 DEF OnceEach
    <2>2. \A k \in DOMAIN l : k \notin DOMAIN list => k = Len(list) + 1 /\ l[k][1] = g
      BY <1>1, <1>2
    <2>3. \A k \in DOMAIN list : l[k][1] # g
      BY <1>3, PathsAreOrdered
    <2> QED BY <2>1, <2>2, <2>3
  <1>5. \A i \in DOMAIN l : l[i][1] <= g
    <2> TAKE i \in DOMAIN l
    <2>1. CASE i \in DOMAIN list
      BY <1>3, <2>1, PathsAreOrdered
    <2>2. CASE i = Len(list) + 1
      <3>1. l[i][1] = g
        BY <1>1, <2>2
      <3> QED BY <3>1, PathsAreOrdered
    <2> QED BY <1>2, <2>1, <2>2
  <1>6. \A q, m : q # g => ((\E i \in DOMAIN l : l[i] = <<q, m>>) <=> \E i \in DOMAIN list : list[i] = <<q, m>>)
    <2> SUFFICES ASSUME NEW q, NEW m, q # g
                 PROVE  (\E i \in DOMAIN l : l[i] = <<q, m>>) <=> \E i \in DOMAIN list : list[i] = <<q, m>>
      OBVIOUS
    <2>1. l[Len(list) + 1] # <<q, m>>
      BY <1>1
    <2>2. \A i \in DOMAIN list : i \in DOMAIN l /\ l[i] = list[i]
      BY <1>1
    <2> QED BY <1>2, <2>1, <2>2
  <1>7. \A m : (\E i \in DOMAIN l : l[i] = <<g, m>>) <=> m = n
    <2> TAKE m
    <2>1. ASSUME NEW i \in DOMAIN l, l[i] = <<g, m>> PROVE m = n
      <3>1. ASSUME i \in DOMAIN list PROVE FALSE
        <4>1. l[i][1] = g /\ l[i][1] < g
          BY <1>3, <2>1, <3>1
        <4> QED BY <4>1, PathsAreOrdered
      <3>2. l[i] = <<g, n>>
        BY <1>1, <1>2, <3>1
      <3> QED BY <2>1, <3>2
    <2>2. Len(list) + 1 \in DOMAIN l
      BY <1>1
    <2> QED BY <1>1, <2>1, <2>2
  <1> QED BY <1>1, <1>4, <1>5, <1>6, <1>7 DEF Adds, l

(* When no row of its path is left, a rollup has seen all its disks.       *)
LEMMA AllIsSeen ==
  ASSUME FiguresTyped, NEW roll \in RollType, roll.group \in Paths,
         \A i \in DOMAIN PoolParts : i > roll.part => fileRows[roll.group][PoolParts[i]] = "none"
  PROVE  SeenOf(roll) = Devices(roll.group, roll.unknown)
  <1>1. PICK g \in Paths : g = roll.group
    OBVIOUS
  <1>2. PICK n \in Nat : n = roll.part /\ 1..n \subseteq DOMAIN PoolParts
    BY NumbersAre DEF RollType
  <1>3. PICK u : u = roll.unknown
    OBVIOUS
  <1>4. \A i \in DOMAIN PoolParts : fileRows[g][PoolParts[i]] = "live" => i \in 1..n
    BY <1>1, <1>2, NumbersAre
  <1>5. SeenOf(roll) = {DeviceOf(PoolParts[i], u) : i \in {j \in 1..n : fileRows[g][PoolParts[j]] = "live"}}
    BY <1>1, <1>2, <1>3 DEF SeenOf
  <1>6. Devices(g, u) = {DeviceOf(r, u) : r \in {q \in PartSet : fileRows[g][q] = "live"}}
    BY DEF Devices
  <1>7. \A i \in 1..n : PoolParts[i] \in PartSet
    BY <1>2 DEF PartSet
  <1>8. \A r \in PartSet : fileRows[g][r] = "live" => \E i \in 1..n : PoolParts[i] = r
    BY <1>4 DEF PartSet
  <1> QED BY <1>1, <1>3, <1>5, <1>6, <1>7, <1>8

(* What a rollup has counted when it leaves its path.                      *)
LEMMA FlushedIs ==
  ASSUME FiguresTyped, NEW roll \in RollType, roll.pc = "on", RollupIsSound(roll)
  PROVE  /\ Flushed(roll) \in Seq(Paths \X Nat) /\ OnceEach(Flushed(roll))
         /\ \A i \in DOMAIN Flushed(roll) : Flushed(roll)[i][1] <= roll.group
         /\ \A q \in Paths \ roll.dirty : q < roll.group => Counts(Flushed(roll), roll.unknown, q)
         /\ \A q \in Paths \ roll.dirty :
              q = roll.group /\ (\A i \in DOMAIN PoolParts : i > roll.part => fileRows[q][PoolParts[i]] = "none")
                => Counts(Flushed(roll), roll.unknown, q)
  <1>1. PICK g \in Paths \cup {0} : g = roll.group
    BY DEF RollType
  <1>2. PICK list \in Seq(Paths \X Nat) : list = roll.counted
    BY DEF RollType
  <1>3. PICK u : u = roll.unknown
    OBVIOUS
  <1>4. PICK n \in Nat : n = Cardinality(roll.disks)
    BY DisksAreCounted DEF RollType
  <1>5. PICK l : l = Flushed(roll)
    OBVIOUS
  <1>6. CASE g = 0
    <2>1. l = <<>>
      BY <1>1, <1>2, <1>5, <1>6 DEF Flushed, RollupIsSound
    <2>2. DOMAIN l = {} /\ l \in Seq(Paths \X Nat)
      BY <2>1
    <2>3. \A q \in Paths : ~(q < g) /\ q # g
      BY <1>6, NumbersAre
    <2> QED BY <1>1, <1>5, <2>3, <2>2 DEF OnceEach
  <1>7. CASE g \in Paths
    <2>1. l = Append(list, <<g, n>>)
      BY <1>1, <1>2, <1>4, <1>5, <1>7, NumbersAre DEF Flushed
    <2>2. OnceEach(list) /\ \A i \in DOMAIN list : list[i][1] < g
      BY <1>1, <1>2 DEF RollupIsSound
    <2>3. /\ l \in Seq(Paths \X Nat) /\ OnceEach(l) /\ \A i \in DOMAIN l : l[i][1] <= g
          /\ \A q, m : q # g => ((\E i \in DOMAIN l : l[i] = <<q, m>>) <=> \E i \in DOMAIN list : list[i] = <<q, m>>)
          /\ \A m : (\E i \in DOMAIN l : l[i] = <<g, m>>) <=> m = n
      <3>1. Adds(Append(list, <<g, n>>), list, g, n)
        BY <1>7, <2>2, AppendedIs DEF Below
      <3> QED BY <2>1, <3>1 DEF Adds
    <2>4. ASSUME NEW q \in Paths \ roll.dirty, q < g PROVE Counts(l, u, q)
      <3>1. q # g
        BY <1>7, <2>4, NumbersAre
      <3>2. Counts(list, u, q)
        BY <1>1, <1>2, <1>3, <2>4 DEF RollupIsSound
      <3> QED BY <2>3, <3>1, <3>2 DEF Counts
    <2>5. ASSUME g \notin roll.dirty, \A i \in DOMAIN PoolParts : i > roll.part => fileRows[g][PoolParts[i]] = "none"
          PROVE  Counts(l, u, g)
      <3>1. Known(g) /\ roll.disks = SeenOf(roll)
        BY <1>1, <1>7, <2>5 DEF RollupIsSound
      <3>2. SeenOf(roll) = Devices(g, u)
        BY <1>1, <1>3, <1>7, <2>5, AllIsSeen
      <3>3. Cardinality(Devices(g, u)) = n
        BY <1>4, <3>1, <3>2
      <3> QED BY <2>3, <3>1, <3>3 DEF Counts
    <2> QED BY <1>1, <1>3, <1>5, <2>3, <2>4, <2>5
  <1> QED BY <1>6, <1>7

(* A rollup goes on as it was, its figures for the paths that did not      *)
(* change under it too.                                                    *)
LEMMA RollKept ==
  ASSUME FiguresTyped, NEW w \in Rollers, RollupIsSound(roller[w]),
         roller'[w].pc = roller[w].pc, roller'[w].key = roller[w].key, roller'[w].part = roller[w].part,
         roller'[w].group = roller[w].group, roller'[w].disks = roller[w].disks,
         roller'[w].counted = roller[w].counted, roller'[w].unknown = roller[w].unknown,
         roller[w].dirty \subseteq roller'[w].dirty,
         roller[w].pc = "on" => \A q \in Paths \ roller'[w].dirty : unreported' = unreported /\ fileRows'[q] = fileRows[q]
  PROVE  RollupIsSound(roller[w])'
  <1> SUFFICES ASSUME roller[w].pc = "on" PROVE RollupIsSound(roller[w])'
    BY DEF RollupIsSound
  <1>1. /\ roller[w].key = roller[w].group /\ (roller[w].group = 0 => roller[w].counted = <<>>)
        /\ OnceEach(roller[w].counted) /\ \A i \in DOMAIN roller[w].counted : roller[w].counted[i][1] < roller[w].group
    BY DEF RollupIsSound
  <1>2. ASSUME NEW q \in Paths \ roller'[w].dirty
        PROVE  /\ roller'[w].unknown = unreported'
               /\ q < roller'[w].group => Counts(roller[w].counted, roller[w].unknown, q)'
               /\ q = roller'[w].group => Known(q)' /\ roller'[w].disks = SeenOf(roller[w])'
    <2>1. q \in Paths \ roller[w].dirty /\ unreported' = unreported /\ fileRows'[q] = fileRows[q]
      OBVIOUS
    <2>2. /\ roller[w].unknown = unreported
          /\ q < roller[w].group => Counts(roller[w].counted, roller[w].unknown, q)
          /\ q = roller[w].group => Known(q) /\ roller[w].disks = SeenOf(roller[w])
      BY <2>1 DEF RollupIsSound
    <2>3. ASSUME q < roller'[w].group PROVE Counts(roller[w].counted, roller[w].unknown, q)'
      <3>1. PICK list : list = roller[w].counted
        OBVIOUS
      <3>2. PICK u : u = roller[w].unknown
        OBVIOUS
      <3>3. Counts(list, u, q)
        BY <2>2, <2>3, <3>1, <3>2
      <3>4. Counts(list, u, q)'
        BY <2>1, <3>3, PathKept
      <3>5. list = roller'[w].counted /\ u = roller'[w].unknown
        BY <3>1, <3>2
      <3> QED BY <3>4, <3>5
    <2>4. ASSUME q = roller'[w].group PROVE Known(q)' /\ roller'[w].disks = SeenOf(roller[w])'
      <3>1. Known(q)'
        BY <2>1, <2>2, <2>4, PathKept
      <3>2. SeenOf(roller[w])' = SeenOf(roller[w])
        BY <2>1, <2>4 DEF SeenOf
      <3> QED BY <2>2, <2>4, <3>1, <3>2
    <2> QED BY <2>1, <2>2, <2>3, <2>4
  <1>3. OnceEach(roller[w].counted)'
    BY <1>1 DEF OnceEach
  <1> QED BY <1>1, <1>2, <1>3 DEF RollupIsSound

(* One that begins knows nothing, of the disks as they are now.            *)
LEMMA RollBegun ==
  ASSUME NEW w \in Rollers, roller'[w] = [NoRollup EXCEPT !.pc = "on", !.unknown = unreported], unreported' = unreported
  PROVE  RollupIsSound(roller[w])'
  <1>1. /\ roller'[w].key = 0 /\ roller'[w].group = 0 /\ roller'[w].counted = <<>> /\ roller'[w].unknown = unreported'
    BY DEF NoRollup
  <1>2. DOMAIN roller'[w].counted = {}
    BY <1>1
  <1>3. \A q \in Paths : ~(q < roller'[w].group) /\ q # roller'[w].group
    BY <1>1, PathsAreOrdered
  <1> QED BY <1>1, <1>2, <1>3 DEF RollupIsSound, OnceEach

LEMMA RollOff == ASSUME NEW w \in Rollers, roller'[w].pc = "off" PROVE RollupIsSound(roller[w])'
  BY DEF RollupIsSound

(* The stored figures stay, and the paths that change are marked.          *)
LEMMA FiguresKept ==
  ASSUME FiguresAreRight, figures' = figures, untrusted \subseteq untrusted',
         \A q \in Paths \ untrusted' : unreported' = unreported /\ fileRows'[q] = fileRows[q]
  PROVE  FiguresAreRight'
  <1>1. OnceEach(figures)'
    BY DEF FiguresAreRight, OnceEach
  <1>2. ASSUME NEW q \in Paths \ untrusted' PROVE Counts(figures, unreported, q)'
    <2>1. PICK list : list = figures
      OBVIOUS
    <2>2. PICK u : u = unreported
      OBVIOUS
    <2>3. Counts(list, u, q)'
      BY <1>2, <2>1, <2>2, PathKept DEF FiguresAreRight
    <2>4. list = figures' /\ u = unreported'
      BY <1>2, <2>1, <2>2
    <2> QED BY <2>3, <2>4
  <1> QED BY <1>1, <1>2 DEF FiguresAreRight

(* The row a rollup reads is the first after its cursor.                   *)
LEMMA ReadsNext ==
  ASSUME FiguresTyped, NEW w \in Rollers, NEW x \in NextRow(w)
  PROVE  /\ x[1] \in Paths /\ x[2] \in DOMAIN PoolParts /\ PoolParts[x[2]] \in PartSet
         /\ fileRows[x[1]][PoolParts[x[2]]] # "none"
         /\ x[1] > roller[w].key \/ (x[1] = roller[w].key /\ x[2] > roller[w].part)
         /\ \A q \in Paths, j \in DOMAIN PoolParts :
              /\ fileRows[q][PoolParts[j]] # "none"
              /\ q > roller[w].key \/ (q = roller[w].key /\ j > roller[w].part)
              => x[1] < q \/ (x[1] = q /\ x[2] <= j)
  <1>1. /\ x \in Paths \X DOMAIN PoolParts /\ fileRows[x[1]][PoolParts[x[2]]] # "none" /\ AfterCursor(w, x)
        /\ \A y \in Paths \X DOMAIN PoolParts :
             fileRows[y[1]][PoolParts[y[2]]] # "none" /\ AfterCursor(w, y)
               => x[1] < y[1] \/ (x[1] = y[1] /\ x[2] <= y[2])
    BY DEF NextRow
  <1>2. ASSUME NEW q \in Paths, NEW j \in DOMAIN PoolParts, fileRows[q][PoolParts[j]] # "none",
               q > roller[w].key \/ (q = roller[w].key /\ j > roller[w].part)
        PROVE  x[1] < q \/ (x[1] = q /\ x[2] <= j)
    <2>1. AfterCursor(w, <<q, j>>) /\ <<q, j>> \in Paths \X DOMAIN PoolParts
      BY <1>2 DEF AfterCursor
    <2>2. PICK y \in Paths \X DOMAIN PoolParts : y = <<q, j>>
      BY <2>1
    <2>3. y[1] = q /\ y[2] = j
      BY <2>2
    <2> QED BY <1>1, <1>2, <2>1, <2>2, <2>3
  <1>3. x[1] > roller[w].key \/ (x[1] = roller[w].key /\ x[2] > roller[w].part)
    BY <1>1 DEF AfterCursor
  <1> QED BY <1>1, <1>2, <1>3 DEF PartSet

(* Reading a row: of the path it is at, one more disk; of the next path,   *)
(* the first, with the last one counted and all between known of nobody.   *)
LEMMA ReadKeeps ==
  ASSUME FiguresTyped, RollupInv, NEW w \in Rollers, RollupReads(w)
  PROVE  RollupInv'
  <1>1. PICK roll \in RollType : roll = roller[w] /\ roll.pc = "on"
    BY RollIs DEF RollupReads
  <1>2. PICK x \in NextRow(w) :
          roller' = [roller EXCEPT ![w] =
            [roll EXCEPT !.key = x[1], !.part = x[2], !.group = x[1],
               !.disks = IF roll.group = x[1]
                         THEN @ \cup (IF fileRows[x[1]][PoolParts[x[2]]] = "live"
                                      THEN {DeviceOf(PoolParts[x[2]], roll.unknown)} ELSE {})
                         ELSE IF fileRows[x[1]][PoolParts[x[2]]] = "live"
                              THEN {DeviceOf(PoolParts[x[2]], roll.unknown)} ELSE {},
               !.counted = IF roll.group = x[1] THEN @ ELSE Flushed(roll)]]
    BY <1>1, Zenon DEF RollupReads
  <1>3. PICK p \in Paths, i \in DOMAIN PoolParts : p = x[1] /\ i = x[2]
    BY ReadsNext
  <1>4. PICK u : u = roll.unknown
    OBVIOUS
  <1>5. PICK disk : disk = IF fileRows[p][PoolParts[i]] = "live" THEN {DeviceOf(PoolParts[i], u)} ELSE {}
    OBVIOUS
  <1>6. UNCHANGED <<fileRows, unreported, figures, untrusted>>
    BY DEF RollupReads
  <1>7. PICK new : new = roller'[w]
    OBVIOUS
  <1>8. /\ new.pc = "on" /\ new.key = p /\ new.part = i /\ new.group = p /\ new.unknown = u /\ new.dirty = roll.dirty
        /\ roll.group = p => new.disks = roll.disks \cup disk /\ new.counted = roll.counted
        /\ roll.group # p => new.disks = disk /\ new.counted = Flushed(roll)
        /\ \A v \in Rollers \ {w} : roller'[v] = roller[v]
    <2>1. roller \in [Rollers -> RollType]
      BY DEF FiguresTyped
    <2> QED BY <1>1, <1>2, <1>3, <1>4, <1>5, <1>7, <2>1 DEF RollType
  <1>9. RollupIsSound(roll)
    BY <1>1 DEF RollupInv
  <1>10. PICK g \in Paths \cup {0} : g = roll.group /\ g = roll.key
    BY <1>1, <1>9 DEF RollType, RollupIsSound
  <1>11. PICK k \in DOMAIN PoolParts \cup {0} : k = roll.part
    BY DEF RollType
  <1>12. /\ fileRows[p][PoolParts[i]] # "none" /\ PoolParts[i] \in PartSet
         /\ p > g \/ (p = g /\ i > k)
         /\ \A q \in Paths, j \in DOMAIN PoolParts :
              /\ fileRows[q][PoolParts[j]] # "none"
              /\ q > g \/ (q = g /\ j > k)
              => p < q \/ (p = q /\ i <= j)
    BY <1>1, <1>3, <1>10, <1>11, ReadsNext
  <1>13. Known(p)
    BY <1>12 DEF Known
  <1>14. SeenOf(new) = {DeviceOf(PoolParts[j], u) : j \in {m \in 1..i : fileRows[p][PoolParts[m]] = "live"}}
    BY <1>8 DEF SeenOf
  <1>15. i \in Nat \ {0} /\ k \in Nat /\ g \in Nat /\ p \in Nat \ {0} /\ 1..i \subseteq DOMAIN PoolParts
    BY NumbersAre
  <1>16. ASSUME g = p PROVE RollupIsSound(new)
    <2>1. \A j \in 1..i : fileRows[p][PoolParts[j]] = "live" => j \in 1..k \/ j = i
      BY <1>12, <1>15, <1>16
    <2>2. k < i
      BY <1>12, <1>15, <1>16
    <2>3. SeenOf(roll) = {DeviceOf(PoolParts[j], u) : j \in {m \in 1..k : fileRows[p][PoolParts[m]] = "live"}}
      BY <1>4, <1>10, <1>11, <1>16 DEF SeenOf
    <2>4. SeenOf(new) = SeenOf(roll) \cup disk
      <3>1. 1..k \subseteq 1..i /\ i \in 1..i
        BY <1>15, <2>2
      <3> QED BY <1>5, <1>14, <2>1, <2>3, <3>1
    <2>5. \A q \in Paths \ roll.dirty :
            /\ u = unreported
            /\ q < p => Counts(new.counted, u, q)
            /\ q = p => new.disks = SeenOf(new)
      BY <1>4, <1>8, <1>9, <1>1, <1>10, <1>16, <2>4 DEF RollupIsSound
    <2>6. p # 0 /\ OnceEach(new.counted) /\ \A j \in DOMAIN new.counted : new.counted[j][1] < p
      BY <1>1, <1>8, <1>9, <1>10, <1>15, <1>16 DEF RollupIsSound
    <2>7. \A q \in Paths \ new.dirty :
            /\ new.unknown = unreported
            /\ q < new.group => Counts(new.counted, new.unknown, q)
            /\ q = new.group => Known(q) /\ new.disks = SeenOf(new)
      BY <1>8, <1>13, <2>5
    <2> QED BY <1>8, <2>6, <2>7 DEF RollupIsSound
  <1>17. ASSUME g # p PROVE RollupIsSound(new)
    <2>1. g < p
      BY <1>12, <1>15, <1>17
    <2>2. \A j \in 1..i : fileRows[p][PoolParts[j]] = "live" => j = i
      BY <1>12, <1>15, <2>1
    <2>3. new.disks = SeenOf(new)
      <3>1. i \in 1..i
        BY <1>15
      <3> QED BY <1>5, <1>8, <1>10, <1>14, <1>17, <2>2, <3>1
    <2>4. PICK l : l = Flushed(roll)
      OBVIOUS
    <2>5. /\ l \in Seq(Paths \X Nat) /\ OnceEach(l) /\ \A j \in DOMAIN l : l[j][1] <= g
          /\ \A q \in Paths \ roll.dirty : q < g => Counts(l, u, q)
          /\ \A q \in Paths \ roll.dirty :
               q = g /\ (\A j \in DOMAIN PoolParts : j > k => fileRows[q][PoolParts[j]] = "none") => Counts(l, u, q)
      BY <1>1, <1>4, <1>9, <1>10, <1>11, <2>4, FlushedIs
    <2>6. \A j \in DOMAIN l : l[j][1] \in Paths /\ l[j][1] <= g
      <3> TAKE j \in DOMAIN l
      <3>1. l[j] \in Paths \X Nat
        BY <2>5
      <3> QED BY <2>5, <3>1
    <2>7. \A q \in Paths \ roll.dirty : u = unreported
      BY <1>1, <1>4, <1>9 DEF RollupIsSound
    <2>8. ASSUME NEW q \in Paths \ roll.dirty, q < p PROVE Counts(l, u, q)
      <3>1. CASE q < g
        BY <2>5, <3>1
      <3>2. CASE q = g
        <4>1. \A j \in DOMAIN PoolParts : j > k => fileRows[q][PoolParts[j]] = "none"
          <5> SUFFICES ASSUME NEW j \in DOMAIN PoolParts, j > k, fileRows[q][PoolParts[j]] # "none" PROVE FALSE
            OBVIOUS
          <5>1. p < q \/ p = q
            BY <1>12, <3>2
          <5> QED BY <2>8, <5>1, PathsAreOrdered
        <4> QED BY <2>5, <3>2, <4>1
      <3>3. CASE g < q
        <4>1. ~Known(q)
          <5> SUFFICES ASSUME NEW j \in DOMAIN PoolParts, fileRows[q][PoolParts[j]] # "none" PROVE FALSE
            BY DEF Known, PartSet
          <5>1. q > g
            BY <1>15, <3>3, NumbersAre
          <5>2. p < q \/ p = q
            BY <1>12, <5>1
          <5> QED BY <2>8, <5>2, PathsAreOrdered
        <4>2. ASSUME NEW j \in DOMAIN l, NEW m, l[j] = <<q, m>> PROVE FALSE
          <5>1. q <= g
            BY <2>6, <4>2
          <5> QED BY <1>15, <3>3, <5>1, NumbersAre
        <4> QED BY <4>1, <4>2 DEF Counts
      <3>4. q < g \/ q = g \/ g < q
        BY <1>15, NumbersAre
      <3> QED BY <3>1, <3>2, <3>3, <3>4
    <2>9. \A j \in DOMAIN l : l[j][1] < p
      <3> TAKE j \in DOMAIN l
      <3>1. l[j][1] \in Nat /\ l[j][1] <= g
        BY <2>6, PathsAreOrdered
      <3> QED BY <1>15, <2>1, <3>1
    <2>10. new.counted = l
      BY <1>8, <1>10, <1>17, <2>4, Zenon
    <2>11. \A q \in Paths \ new.dirty :
             /\ new.unknown = unreported
             /\ q < new.group => Counts(new.counted, new.unknown, q)
             /\ q = new.group => Known(q) /\ new.disks = SeenOf(new)
      BY <1>8, <1>13, <2>3, <2>7, <2>8, <2>10
    <2>12. new.group # 0 /\ OnceEach(new.counted) /\ \A j \in DOMAIN new.counted : new.counted[j][1] < new.group
      BY <1>8, <1>15, <2>5, <2>9, <2>10
    <2> QED BY <1>8, <2>11, <2>12 DEF RollupIsSound
  <1>18. RollupIsSound(new)
    BY <1>16, <1>17
  <1>19. RollupIsSound(roller[w])'
    <2>1. RollupIsSound(new)'
      BY <1>6, <1>18, ZenonT(40) DEF RollupIsSound, Counts, Known, Devices, SeenOf
    <2> QED BY <1>7, <2>1
  <1>20. \A v \in Rollers \ {w} : RollupIsSound(roller[v])'
    <2> TAKE v \in Rollers \ {w}
    <2>1. RollupIsSound(roller[v]) /\ roller'[v] = roller[v]
      BY <1>8 DEF RollupInv
    <2> QED BY <1>6, <2>1, RollKept
  <1>21. FiguresAreRight'
    BY <1>6, FiguresKept DEF RollupInv
  <1> QED BY <1>19, <1>20, <1>21 DEF RollupInv

(* At the end no row is left: the paths after the last one are unknown.    *)
LEMMA EndKeeps ==
  ASSUME FiguresTyped, RollupInv, NEW w \in Rollers, RollupEnds(w)
  PROVE  RollupInv'
  <1>1. PICK roll \in RollType : roll = roller[w] /\ roll.pc = "on"
    BY RollIs DEF RollupEnds
  <1>2. /\ NextRow(w) = {} /\ figures' = Flushed(roll) /\ untrusted' = roll.dirty
        /\ roller' = [roller EXCEPT ![w] = NoRollup] /\ UNCHANGED <<fileRows, unreported>>
    BY <1>1 DEF RollupEnds, RollupStored
  <1>3. RollupIsSound(roll)
    BY <1>1 DEF RollupInv
  <1>4. PICK g \in Paths \cup {0} : g = roll.group /\ g = roll.key
    BY <1>1, <1>3 DEF RollType, RollupIsSound
  <1>5. PICK l : l = Flushed(roll)
    OBVIOUS
  <1>6. PICK u : u = roll.unknown
    OBVIOUS
  <1>7. PICK k \in DOMAIN PoolParts \cup {0} : k = roll.part
    BY DEF RollType
  <1>8. /\ l \in Seq(Paths \X Nat) /\ OnceEach(l) /\ \A j \in DOMAIN l : l[j][1] <= g
        /\ \A q \in Paths \ roll.dirty : q < g => Counts(l, u, q)
        /\ \A q \in Paths \ roll.dirty :
             q = g /\ (\A j \in DOMAIN PoolParts : j > k => fileRows[q][PoolParts[j]] = "none") => Counts(l, u, q)
    BY <1>1, <1>3, <1>4, <1>5, <1>6, <1>7, FlushedIs
  <1>9. \A q \in Paths, j \in DOMAIN PoolParts : q > g \/ (q = g /\ j > k) => fileRows[q][PoolParts[j]] = "none"
    <2> SUFFICES ASSUME NEW q \in Paths, NEW j \in DOMAIN PoolParts, q > g \/ (q = g /\ j > k),
                        fileRows[q][PoolParts[j]] # "none"
                 PROVE  FALSE
      OBVIOUS
    <2>1. AfterCursor(w, <<q, j>>)
      BY <1>1, <1>4, <1>7 DEF AfterCursor
    <2> QED BY <1>2, <2>1, FirstRowIs
  <1>10. ASSUME NEW q \in Paths \ roll.dirty PROVE Counts(l, u, q)
    <2>1. CASE q < g
      BY <1>8, <2>1
    <2>2. CASE q = g
      BY <1>8, <1>9, <2>2
    <2>3. CASE q > g
      <3>1. ~Known(q)
        BY <1>9, <2>3 DEF Known, PartSet
      <3>2. ASSUME NEW j \in DOMAIN l, NEW m, l[j] = <<q, m>> PROVE FALSE
        <4>1. q <= g
          BY <1>8, <3>2
        <4> QED BY <2>3, <4>1, NumbersAre
      <3> QED BY <3>1, <3>2 DEF Counts
    <2> QED BY <2>1, <2>2, <2>3, NumbersAre
  <1>11. \A q \in Paths \ roll.dirty : u = unreported
    BY <1>1, <1>3, <1>6 DEF RollupIsSound
  <1>12. FiguresAreRight'
    <2>1. \A q \in Paths \ roll.dirty : Counts(l, u, q)'
      BY <1>2, <1>10, PathKept
    <2>2. \A q \in Paths \ untrusted' : Counts(figures, unreported, q)'
      <3> TAKE q \in Paths \ untrusted'
      <3>1. Counts(l, u, q)' /\ l = figures' /\ u = unreported'
        BY <1>2, <1>5, <1>11, <2>1
      <3> QED BY <3>1
    <2>3. OnceEach(figures)'
      BY <1>2, <1>5, <1>8 DEF OnceEach
    <2> QED BY <2>2, <2>3 DEF FiguresAreRight
  <1>13. \A v \in Rollers : RollupIsSound(roller[v])'
    <2> TAKE v \in Rollers
    <2>1. CASE v = w
      BY <1>2, <2>1, RollOff, NoRollupIs DEF FiguresTyped
    <2>2. CASE v # w
      <3>1. RollupIsSound(roller[v]) /\ roller'[v] = roller[v]
        BY <1>2, <2>2 DEF RollupInv, FiguresTyped
      <3> QED BY <1>2, <3>1, RollKept
    <2> QED BY <2>1, <2>2
  <1> QED BY <1>12, <1>13 DEF RollupInv

(* Another rollup begins; the rest of them and the figures are as before.  *)
LEMMA BeginKeeps ==
  ASSUME FiguresTyped, RollupInv, NEW w \in Rollers, RollupBegins(w),
         UNCHANGED <<fileRows, unreported, figures, untrusted>>
  PROVE  RollupInv'
  <1>1. /\ roller'[w] = [NoRollup EXCEPT !.pc = "on", !.unknown = unreported]
        /\ \A v \in Rollers \ {w} : roller'[v] = roller[v]
    BY DEF RollupBegins, FiguresTyped
  <1>2. RollupIsSound(roller[w])'
    BY <1>1, RollBegun
  <1>3. \A v \in Rollers \ {w} : RollupIsSound(roller[v])'
    <2> TAKE v \in Rollers \ {w}
    <2>1. RollupIsSound(roller[v]) /\ roller'[v] = roller[v]
      BY <1>1 DEF RollupInv
    <2> QED BY <2>1, RollKept
  <1>4. FiguresAreRight'
    BY FiguresKept DEF RollupInv
  <1> QED BY <1>2, <1>3, <1>4 DEF RollupInv

LEMMA DirtiedIs ==
  ASSUME NEW roll \in RollType, NEW told
  PROVE  LET after == [roll EXCEPT !.dirty = told]
         IN  /\ after.pc = roll.pc /\ after.key = roll.key /\ after.part = roll.part /\ after.group = roll.group
             /\ after.disks = roll.disks /\ after.counted = roll.counted /\ after.unknown = roll.unknown
             /\ after.dirty = told
  BY DEF RollType

(* Rows or disks change, and every rollup and the figures are told.        *)
LEMMA ChangeKeeps ==
  ASSUME FiguresTyped, RollupInv, NEW changed \in SUBSET Paths, Dirtied(changed),
         untrusted' = untrusted \cup changed, figures' = figures,
         \A q \in Paths \ changed : unreported' = unreported /\ fileRows'[q] = fileRows[q]
  PROVE  RollupInv'
  <1> DEFINE told(w) == IF roller[w].pc = "on" THEN roller[w].dirty \cup changed ELSE roller[w].dirty
  <1>1. ASSUME NEW w \in Rollers PROVE roller'[w] = [roller[w] EXCEPT !.dirty = told(w)]
    BY DEF Dirtied
  <1>2. ASSUME NEW w \in Rollers PROVE RollupIsSound(roller[w])'
    <2>1. RollupIsSound(roller[w])
      BY DEF RollupInv
    <2>2. /\ roller'[w].pc = roller[w].pc /\ roller'[w].key = roller[w].key /\ roller'[w].part = roller[w].part
          /\ roller'[w].group = roller[w].group /\ roller'[w].disks = roller[w].disks
          /\ roller'[w].counted = roller[w].counted /\ roller'[w].unknown = roller[w].unknown
          /\ roller'[w].dirty = told(w)
      <3>1. PICK t : t = told(w)
        OBVIOUS
      <3>2. roller[w] \in RollType /\ roller'[w] = [roller[w] EXCEPT !.dirty = t]
        BY <1>1, <3>1, RollIs
      <3> HIDE DEF told
      <3> QED BY <3>1, <3>2, DirtiedIs
    <2> QED BY <2>1, <2>2, RollKept
  <1>3. FiguresAreRight'
    BY FiguresKept DEF RollupInv
  <1> QED BY <1>2, <1>3 DEF RollupInv

LEMMA RollupInvKept == ASSUME FiguresTyped, RollupInv, [NextFigures]_figureVars PROVE RollupInv'
  <1>1. ASSUME UNCHANGED <<fileRows, unreported, roller, figures, untrusted>> PROVE RollupInv'
    <2>1. \A w \in Rollers : RollupIsSound(roller[w])'
      <3> TAKE w \in Rollers
      <3>1. RollupIsSound(roller[w]) /\ roller'[w] = roller[w]
        BY <1>1 DEF RollupInv
      <3> QED BY <1>1, <3>1, RollKept
    <2>2. FiguresAreRight'
      BY <1>1, FiguresKept DEF RollupInv
    <2> QED BY <2>1, <2>2 DEF RollupInv
  <1>2. ASSUME NEW w \in Rollers, RollupReads(w) PROVE RollupInv'
    BY <1>2, ReadKeeps
  <1>3. ASSUME NEW w \in Rollers, RollupEnds(w) PROVE RollupInv'
    BY <1>3, EndKeeps
  <1>4. CASE ScanRollsUp
    BY <1>4, BeginKeeps DEF ScanRollsUp, Rollers
  <1>5. CASE RefreshesLevels
    BY <1>5, BeginKeeps DEF RefreshesLevels, Rollers
  <1>6. CASE CheckBegins \/ RaisesShared \/ SweepsPage \/ CheckPauses \/ DayPasses
    BY <1>1, <1>6 DEF CheckBegins, RaisesShared, SweepsPage, CheckPauses, DayPasses
  <1>7. CASE SweepEnds \/ NotTracking
    BY <1>1, <1>7 DEF SweepEnds, NotTracking, CheckEnds
  <1>8. ASSUME NEW p \in Paths, NEW r \in PartSet, RowWritten(p, r) PROVE RollupInv'
    <2>1. {p} \in SUBSET Paths /\ Dirtied({p}) /\ untrusted' = untrusted \cup {p} /\ figures' = figures
      BY <1>8 DEF RowWritten, RowsChange
    <2>2. \A q \in Paths \ {p} : unreported' = unreported /\ fileRows'[q] = fileRows[q]
      BY <1>8 DEF RowWritten, FiguresTyped
    <2> QED BY <2>1, <2>2, ChangeKeeps
  <1>9. CASE DiskReported
    <2>1. Dirtied(Paths) /\ untrusted' = untrusted \cup Paths /\ figures' = figures
      BY <1>9 DEF DiskReported, RowsChange
    <2> QED BY <2>1, ChangeKeeps
  <1>10. CASE TrackingToggled
    <2>1. /\ Dirtied({}) /\ untrusted' = untrusted \cup {} /\ figures' = figures
          /\ unreported' = unreported /\ fileRows' = fileRows
      BY <1>10 DEF TrackingToggled, RowsChange
    <2> QED BY <2>1, ChangeKeeps
  <1>11. CASE FigureServiceDies
    <2>1. /\ roller' = [w \in Rollers |-> NoRollup] /\ figures' = figures /\ untrusted' = untrusted
          /\ unreported' = unreported /\ fileRows' = fileRows
      BY <1>11 DEF FigureServiceDies, RowsChange
    <2>2. \A w \in Rollers : RollupIsSound(roller[w])'
      BY <2>1, RollOff, NoRollupIs
    <2>3. FiguresAreRight'
      BY <2>1, FiguresKept DEF RollupInv
    <2> QED BY <2>2, <2>3 DEF RollupInv
  <1>12. CASE UNCHANGED figureVars
    BY <1>1, <1>12 DEF figureVars
  <1> QED BY <1>2, <1>3, <1>4, <1>5, <1>6, <1>7, <1>8, <1>9, <1>10, <1>11, <1>12 DEF NextFigures

-----------------------------------------------------------------------------
(* The types.                                                              *)

LEMMA FiguresStart == InitFigures => FiguresInv
  <1> SUFFICES ASSUME InitFigures PROVE FiguresInv
    OBVIOUS
  <1> USE DEF InitFigures
  <1>1. NoCheck \in CheckType /\ NoCheck.pc = "off"
    BY DEF NoCheck, CheckType
  <1>2. FiguresTyped
    <2>1. roller \in [Rollers -> RollType]
      BY NoRollupIs
    <2>2. unreported \subseteq PartSet
      BY FiguresAssumption
    <2>3. figures \in Seq(Paths \X Nat) /\ sweeps \in Seq([on : 1..LastDay, left : SUBSET Paths])
      BY EmptySeq
    <2>4. shortfall \in [Paths -> 0..LastDay] /\ poolDay \in 1..LastDay /\ checkedOn \in 0..poolDay
      BY NumbersAre
    <2> QED BY <1>1, <2>1, <2>2, <2>3, <2>4 DEF FiguresTyped
  <1>3. RollupInv
    <2>1. \A w \in Rollers : RollupIsSound(roller[w])
      BY NoRollupIs DEF RollupIsSound
    <2>2. DOMAIN figures = {}
      OBVIOUS
    <2>3. FiguresAreRight
      BY <2>2 DEF FiguresAreRight, OnceEach
    <2> QED BY <2>1, <2>3 DEF RollupInv
  <1>4. TableInv
    <2>1. /\ DOMAIN sweeps = {} /\ (\A p \in Paths : shortfall[p] = 0) /\ marked = {}
          /\ CheckAt("off") /\ checkedOn # poolDay /\ roller["check"].pc = "off"
      BY <1>1, NoRollupIs DEF CheckAt, Rollers
    <2> QED BY <2>1, NumbersAre DEF TableInv, TableTellsSince, CheckIsUnderWay, AlertIsDue
  <1> QED BY <1>2, <1>3, <1>4 DEF FiguresInv

SweepType == [on : 1..LastDay, left : SUBSET Paths]

LEMMA SweptIsTyped ==
  ASSUME FiguresTyped, NEW left \in SUBSET Paths, sweeps' = Append(sweeps, [on |-> poolDay, left |-> left])
  PROVE  sweeps' \in Seq([on : 1..LastDay, left : SUBSET Paths])
  <1>1. [on |-> poolDay, left |-> left] \in SweepType /\ sweeps \in Seq(SweepType)
    BY DEF FiguresTyped, SweepType
  <1> QED BY <1>1, AppendProperties DEF SweepType

LEMMA TypesKept == ASSUME FiguresTyped, RollupInv, [NextFigures]_figureVars PROVE FiguresTyped'
  <1> USE DEF FiguresTyped
  <1>1. ASSUME NEW w \in Rollers, RollupReads(w) PROVE FiguresTyped'
    <2>1. PICK roll \in RollType : roll = roller[w] /\ roll.pc = "on"
      BY <1>1, RollIs DEF RollupReads
    <2>2. PICK x \in NextRow(w) :
            roller' = [roller EXCEPT ![w] =
              [roll EXCEPT !.key = x[1], !.part = x[2], !.group = x[1],
                 !.disks = IF roll.group = x[1]
                           THEN @ \cup (IF fileRows[x[1]][PoolParts[x[2]]] = "live"
                                        THEN {DeviceOf(PoolParts[x[2]], roll.unknown)} ELSE {})
                           ELSE IF fileRows[x[1]][PoolParts[x[2]]] = "live"
                                THEN {DeviceOf(PoolParts[x[2]], roll.unknown)} ELSE {},
                 !.counted = IF roll.group = x[1] THEN @ ELSE Flushed(roll)]]
      BY <1>1, <2>1, Zenon DEF RollupReads
    <2>3. x[1] \in Paths /\ x[2] \in DOMAIN PoolParts /\ DeviceOf(PoolParts[x[2]], roll.unknown) \in AllDisks
      BY ReadsNext, DeviceIsADisk
    <2>4. Flushed(roll) \in Seq(Paths \X Nat)
      BY <2>1, FlushedIs DEF RollupInv
    <2>5. PICK disks \in SUBSET AllDisks :
            disks = IF roll.group = x[1]
                    THEN roll.disks \cup (IF fileRows[x[1]][PoolParts[x[2]]] = "live"
                                         THEN {DeviceOf(PoolParts[x[2]], roll.unknown)} ELSE {})
                    ELSE IF fileRows[x[1]][PoolParts[x[2]]] = "live"
                         THEN {DeviceOf(PoolParts[x[2]], roll.unknown)} ELSE {}
      BY <2>3 DEF RollType
    <2>6. PICK counted \in Seq(Paths \X Nat) : counted = IF roll.group = x[1] THEN roll.counted ELSE Flushed(roll)
      BY <2>4 DEF RollType
    <2>7. [roll EXCEPT !.key = x[1], !.part = x[2], !.group = x[1], !.disks = disks, !.counted = counted] \in RollType
      BY <2>3 DEF RollType
    <2>8. roller' \in [Rollers -> RollType]
      BY <2>2, <2>5, <2>6, <2>7
    <2> QED BY <1>1, <2>8 DEF RollupReads
  <1>2. ASSUME NEW w \in Rollers, RollupEnds(w) PROVE FiguresTyped'
    <2>1. Flushed(roller[w]) \in Seq(Paths \X Nat)
      BY <1>2, RollIs, FlushedIs DEF RollupInv, RollupEnds
    <2>2. roller' \in [Rollers -> RollType] /\ untrusted' \subseteq Paths
      BY <1>2, NoRollupIs, RollIs DEF RollupEnds, RollupStored
    <2>3. dupCheck' \in CheckType
      BY <1>2 DEF RollupEnds, CheckType
    <2> QED BY <1>2, <2>1, <2>2, <2>3 DEF RollupEnds, RollupStored
  <1>3. ASSUME NEW w \in Rollers, RollupBegins(w) PROVE roller' \in [Rollers -> RollType]
    <2>1. [NoRollup EXCEPT !.pc = "on", !.unknown = unreported] \in RollType
      BY NoRollupIs DEF RollType
    <2> QED BY <1>3, <2>1 DEF RollupBegins
  <1>4. CASE ScanRollsUp
    BY <1>3, <1>4 DEF ScanRollsUp, Rollers
  <1>5. CASE CheckBegins
    BY <1>5 DEF CheckBegins, NoCheck, CheckType
  <1>6. CASE RefreshesLevels
    <2>1. dupLevel' \in [Paths -> Nat]
      BY <1>6, FiguresAssumption DEF RefreshesLevels
    <2>2. dupCheck' \in CheckType
      BY <1>6 DEF RefreshesLevels, CheckType
    <2>3. roller' \in [Rollers -> RollType]
      BY <1>3, <1>6 DEF RefreshesLevels, Rollers
    <2> QED BY <1>6, <2>1, <2>2, <2>3 DEF RefreshesLevels
  <1>7. CASE RaisesShared
    <2>1. dupCheck' \in CheckType
      BY <1>7, NumbersAre DEF RaisesShared, CheckType, SharingADisk
    <2> QED BY <1>7, <2>1 DEF RaisesShared
  <1>8. CASE SweepsPage
    <2>1. PICK p \in Paths : shortfall' = Clocked(p) /\ marked' = marked \cup {p} /\ dupCheck' = [dupCheck EXCEPT !.key = p]
      BY <1>8 DEF SweepsPage
    <2>2. shortfall' \in [Paths -> 0..LastDay]
      BY <2>1, NumbersAre DEF Clocked
    <2>3. dupCheck' \in CheckType
      BY <2>1 DEF CheckType
    <2> QED BY <1>8, <2>1, <2>2, <2>3 DEF SweepsPage
  <1>9. ASSUME NEW table \in [Paths -> 0..LastDay], NEW under, CheckEnds(table, under),
               sweeps' = Append(sweeps, [on |-> poolDay, left |-> {p \in Paths : table[p] > 0}])
        PROVE  FiguresTyped'
    <2>1. sweeps' \in Seq([on : 1..LastDay, left : SUBSET Paths])
      BY <1>9, SweptIsTyped
    <2>2. dupCheck' \in CheckType /\ marked' \subseteq Paths
      BY <1>9 DEF CheckEnds, NoCheck, CheckType
    <2>3. dupAlerts' \subseteq {"under", "shared"}
      BY <1>9 DEF CheckEnds
    <2>4. checkedOn' \in 0..poolDay'
      BY <1>9 DEF CheckEnds
    <2> QED BY <1>9, <2>1, <2>2, <2>3, <2>4 DEF CheckEnds
  <1>10. CASE SweepEnds
    <2> DEFINE table == [p \in Paths |-> IF p \in marked THEN shortfall[p] ELSE 0]
               overdue == {p \in Paths : table[p] > 0 /\ table[p] <= poolDay - Grace}
    <2>1. CheckEnds(table, overdue # {}) /\ sweeps' = Append(sweeps, [on |-> poolDay, left |-> {p \in Paths : table[p] > 0}])
      BY <1>10 DEF SweepEnds
    <2>2. table \in [Paths -> 0..LastDay]
      BY NumbersAre
    <2> HIDE DEF table, overdue
    <2> QED BY <1>9, <2>1, <2>2
  <1>11. CASE NotTracking
    <2> DEFINE zeros == [p \in Paths |-> 0]
    <2>1. zeros \in [Paths -> 0..LastDay]
      BY NumbersAre
    <2>2. PICK table \in [Paths -> 0..LastDay] : table = zeros
      BY <2>1
    <2>3. {p \in Paths : table[p] > 0} = {}
      BY <2>2
    <2>4. CheckEnds(table, FALSE) /\ sweeps' = Append(sweeps, [on |-> poolDay, left |-> {p \in Paths : table[p] > 0}])
      BY <1>11, <2>2, <2>3 DEF NotTracking
    <2> QED BY <1>9, <2>4
  <1>12. CASE CheckPauses
    BY <1>12 DEF CheckPauses, NoCheck, CheckType
  <1>13. ASSUME NEW changed \in SUBSET Paths, Dirtied(changed) PROVE roller' \in [Rollers -> RollType]
    <2>1. \A w \in Rollers : [roller[w] EXCEPT !.dirty = IF roller[w].pc = "on" THEN @ \cup changed ELSE @] \in RollType
      <3> TAKE w \in Rollers
      <3>1. PICK roll \in RollType : roll = roller[w]
        BY RollIs
      <3>2. PICK d \in SUBSET Paths : d = IF roll.pc = "on" THEN roll.dirty \cup changed ELSE roll.dirty
        BY DEF RollType
      <3>3. [roll EXCEPT !.dirty = d] \in RollType
        BY DEF RollType
      <3> QED BY <3>1, <3>2, <3>3
    <2> QED BY <1>13, <2>1 DEF Dirtied
  <1>14. ASSUME NEW p \in Paths, NEW r \in PartSet, RowWritten(p, r) PROVE FiguresTyped'
    <2>1. roller' \in [Rollers -> RollType]
      BY <1>13, <1>14 DEF RowWritten
    <2>2. fileRows' \in [Paths -> [PartSet -> {"none", "live", "deleted"}]]
      BY <1>14 DEF RowWritten
    <2> QED BY <1>14, <2>1, <2>2 DEF RowWritten, RowsChange
  <1>15. CASE DiskReported
    <2>1. roller' \in [Rollers -> RollType]
      BY <1>13, <1>15 DEF DiskReported
    <2> QED BY <1>15, <2>1 DEF DiskReported, RowsChange
  <1>16. CASE TrackingToggled
    <2>1. roller' \in [Rollers -> RollType]
      BY <1>13, <1>16 DEF TrackingToggled
    <2> QED BY <1>16, <2>1 DEF TrackingToggled, RowsChange
  <1>17. CASE FigureServiceDies
    <2>1. roller' \in [Rollers -> RollType]
      BY <1>17, NoRollupIs DEF FigureServiceDies
    <2>2. dupCheck' \in CheckType
      BY <1>17 DEF FigureServiceDies, NoCheck, CheckType
    <2>3. sweeps' \in Seq([on : 1..LastDay, left : SUBSET Paths])
      <3>1. CASE marked # {}
        BY <1>17, <3>1, SweptIsTyped DEF FigureServiceDies
      <3> QED BY <1>17, <3>1 DEF FigureServiceDies
    <2> QED BY <1>17, <2>1, <2>2, <2>3 DEF FigureServiceDies, RowsChange
  <1>18. CASE DayPasses
    BY <1>18, NumbersAre DEF DayPasses
  <1>19. CASE UNCHANGED figureVars
    BY <1>19 DEF figureVars
  <1> QED BY <1>1, <1>2, <1>4, <1>5, <1>6, <1>7, <1>8, <1>10, <1>11, <1>12, <1>14, <1>15, <1>16, <1>17, <1>18, <1>19
          DEF NextFigures

-----------------------------------------------------------------------------
(* The table of files short of copies.                                     *)

LEMMA DaysAre ==
  ASSUME FiguresTyped
  PROVE  /\ poolDay \in Nat \ {0} /\ checkedOn \in Nat /\ checkedOn <= poolDay /\ LastDay \in Nat /\ Grace \in Nat
         /\ \A p \in Paths : shortfall[p] \in Nat
         /\ Len(sweeps) \in Nat /\ DOMAIN sweeps = 1..Len(sweeps) /\ \A i \in DOMAIN sweeps : sweeps[i].on \in Nat
  <1>1. /\ poolDay \in 1..LastDay /\ checkedOn \in 0..poolDay
        /\ shortfall \in [Paths -> 0..LastDay] /\ sweeps \in Seq([on : 1..LastDay, left : SUBSET Paths])
    BY DEF FiguresTyped
  <1>2. LastDay \in Nat /\ Grace \in Nat
    BY NumbersAre
  <1>3. \A i \in DOMAIN sweeps : sweeps[i] \in [on : 1..LastDay, left : SUBSET Paths]
    BY <1>1, ElementOfSeq, LenProperties
  <1>4. \A i \in DOMAIN sweeps : sweeps[i].on \in Nat
    BY <1>2, <1>3
  <1> QED BY <1>1, <1>2, <1>4, LenProperties

LEMMA SweptIs ==
  ASSUME FiguresTyped, NEW left \in SUBSET Paths, sweeps' = Append(sweeps, [on |-> poolDay, left |-> left]),
         NEW n \in Nat, n = Len(sweeps)
  PROVE  /\ Len(sweeps') = n + 1 /\ DOMAIN sweeps' = 1..(n + 1)
         /\ sweeps'[n + 1].on = poolDay
         /\ \A i \in DOMAIN sweeps : sweeps'[i] = sweeps[i]
         /\ \A p : LeftSince(p, n + 1)' <=> p \in left
         /\ \A p, i : i \in DOMAIN sweeps => (LeftSince(p, i)' <=> LeftSince(p, i) /\ p \in left)
  <1>1. PICK new \in SweepType : new = [on |-> poolDay, left |-> left]
    BY DEF FiguresTyped, SweepType
  <1>2. DOMAIN sweeps = 1..n
    BY DaysAre
  <1>3. /\ Len(sweeps') = n + 1 /\ DOMAIN sweeps' = 1..(n + 1) /\ sweeps'[n + 1] = new
        /\ \A i \in DOMAIN sweeps : sweeps'[i] = sweeps[i]
    <2>1. sweeps \in Seq(SweepType) /\ sweeps' = Append(sweeps, new)
      BY <1>1 DEF FiguresTyped, SweepType
    <2> QED BY <1>2, <2>1, AppendProperties, LenProperties
  <1>4. \A p : LeftSince(p, n + 1)' <=> p \in left
    <2>1. (n + 1)..Len(sweeps') = {n + 1}
      BY <1>3
    <2> QED BY <1>1, <1>3, <2>1 DEF LeftSince
  <1>5. ASSUME NEW p, NEW i \in DOMAIN sweeps PROVE LeftSince(p, i)' <=> LeftSince(p, i) /\ p \in left
    <2>1. i..Len(sweeps') = (i..n) \cup {n + 1} /\ i..n \subseteq DOMAIN sweeps
      BY <1>2, <1>3
    <2>2. \A j \in i..n : sweeps'[j].left = sweeps[j].left
      BY <1>3, <2>1
    <2>3. sweeps'[n + 1].left = left
      BY <1>1, <1>3
    <2> QED BY <1>2, <2>1, <2>2, <2>3 DEF LeftSince
  <1> QED BY <1>1, <1>2, <1>3, <1>4, <1>5

(* A step that neither sweeps nor ends a sweep.                            *)
LEMMA TableStands ==
  ASSUME FiguresTyped, FiguresTyped', TableInv, shortfall' = shortfall, sweeps' = sweeps, marked = {}, marked' = {},
         poolDay' >= poolDay, CheckAt("off")' \/ checkedOn' < poolDay', AlertIsDue',
         roller'["check"].pc = "on" => CheckAt("rollup")'
  PROVE  TableInv'
  <1>1. TableTellsSince'
    BY DEF TableInv, TableTellsSince, LeftSince
  <1>2. CheckIsUnderWay'
    <2>1. /\ \A p \in Paths : shortfall[p] <= poolDay'
          /\ \A i \in DOMAIN sweeps : sweeps[i].on <= poolDay'
      <3>1. poolDay \in Nat /\ poolDay' \in Nat
        BY DaysAre DEF FiguresTyped
      <3> QED BY <3>1, DaysAre DEF TableInv, CheckIsUnderWay
    <2> QED BY <2>1 DEF CheckIsUnderWay
  <1> QED BY <1>1, <1>2 DEF TableInv

(* A page of the sweep: a row that is new is of today.                     *)
LEMMA PageKeeps ==
  ASSUME FiguresTyped, TableInv, SweepsPage
  PROVE  TableInv'
  <1>1. PICK p \in Paths :
          /\ p > dupCheck.key /\ shortfall' = Clocked(p) /\ marked' = marked \cup {p}
          /\ dupCheck' = [dupCheck EXCEPT !.key = p]
    BY DEF SweepsPage
  <1>2. /\ CheckAt("sweep") /\ tracking
        /\ UNCHANGED <<sweeps, poolDay, checkedOn, roller, tracking>>
    BY DEF SweepsPage
  <1>3. /\ \A q \in Paths \ {p} : shortfall'[q] = shortfall[q]
        /\ shortfall'[p] = IF shortfall[p] = 0 THEN poolDay ELSE shortfall[p]
    BY <1>1 DEF Clocked, FiguresTyped
  <1>4. TableTellsSince'
    <2>1. ASSUME NEW q \in Paths, shortfall'[q] > 0
          PROVE  \/ \E i \in DOMAIN sweeps' : sweeps'[i].on = shortfall'[q] /\ LeftSince(q, i)'
                 \/ q \in marked' /\ shortfall'[q] = poolDay'
      <3>1. CASE q = p /\ shortfall[p] = 0
        BY <1>1, <1>2, <1>3, <3>1
      <3>2. CASE ~(q = p /\ shortfall[p] = 0)
        <4>1. shortfall'[q] = shortfall[q]
          BY <1>3, <3>2
        <4>2. \/ \E i \in DOMAIN sweeps : sweeps[i].on = shortfall[q] /\ LeftSince(q, i)
              \/ q \in marked /\ shortfall[q] = poolDay
          BY <2>1, <4>1 DEF TableInv, TableTellsSince
        <4> QED BY <1>1, <1>2, <4>1, <4>2 DEF LeftSince
      <3> QED BY <3>1, <3>2
    <2>2. ASSUME NEW q \in Paths, NEW i \in DOMAIN sweeps', LeftSince(q, i)'
          PROVE  shortfall'[q] > 0 /\ shortfall'[q] <= sweeps'[i].on
      <3>1. LeftSince(q, i) /\ i \in DOMAIN sweeps
        BY <1>2, <2>2 DEF LeftSince
      <3>2. shortfall[q] > 0 /\ shortfall[q] <= sweeps[i].on
        BY <3>1 DEF TableInv, TableTellsSince
      <3>3. shortfall'[q] = shortfall[q]
        BY <1>3, <3>2, DaysAre
      <3> QED BY <1>2, <3>2, <3>3
    <2> QED BY <2>1, <2>2 DEF TableTellsSince
  <1>5. CheckIsUnderWay'
    <2>1. CheckAt("sweep")' /\ dupCheck'.key = p
      BY <1>1, <1>2 DEF CheckAt, FiguresTyped, CheckType
    <2>2. checkedOn < poolDay /\ roller["check"].pc # "on"
      BY <1>2 DEF TableInv, CheckIsUnderWay, CheckAt
    <2>3. ASSUME NEW q \in marked' PROVE q <= dupCheck'.key /\ shortfall'[q] > 0
      <3>1. CASE q = p
        <4>1. shortfall[p] \in Nat /\ poolDay > 0
          BY DaysAre
        <4> QED BY <1>3, <2>1, <3>1, <4>1, PathsAreOrdered
      <3>2. CASE q # p
        <4>1. q \in marked /\ q \in Paths /\ q <= dupCheck.key /\ shortfall[q] > 0
          BY <1>1, <2>3, <3>2 DEF TableInv, CheckIsUnderWay, FiguresTyped
        <4>2. dupCheck.key \in Nat /\ q \in Nat /\ p \in Nat
          BY <4>1, NumbersAre DEF FiguresTyped, CheckType
        <4> QED BY <1>1, <1>3, <2>1, <3>2, <4>1, <4>2
      <3> QED BY <3>1, <3>2
    <2>4. \A q \in Paths : shortfall'[q] <= poolDay
      <3> TAKE q \in Paths
      <3>1. shortfall[q] <= poolDay
        BY DEF TableInv, CheckIsUnderWay
      <3> QED BY <1>3, <3>1, DaysAre
    <2>5. \A i \in DOMAIN sweeps : sweeps[i].on <= poolDay
      BY DEF TableInv, CheckIsUnderWay
    <2> QED BY <1>2, <2>1, <2>2, <2>3, <2>4, <2>5 DEF CheckIsUnderWay
  <1>6. AlertIsDue'
    BY <1>1, <1>2 DEF AlertIsDue, CheckAt, FiguresTyped, CheckType
  <1> QED BY <1>4, <1>5, <1>6 DEF TableInv

(* A sweep is over, by its end or by a death in the midst of it: the rows  *)
(* of the table are what it left.                                          *)
LEMMA SweptKeeps ==
  ASSUME FiguresTyped, TableInv, NEW table \in [Paths -> Nat], shortfall' = table, marked' = {}, poolDay' = poolDay,
         sweeps' = Append(sweeps, [on |-> poolDay, left |-> {p \in Paths : table[p] > 0}]),
         \A p \in Paths : table[p] = shortfall[p] \/ table[p] = 0
  PROVE  TableTellsSince' /\ (\A p \in Paths : table[p] <= poolDay) /\ (\A i \in DOMAIN sweeps' : sweeps'[i].on <= poolDay)
  <1> DEFINE left == {p \in Paths : table[p] > 0}
  <1>1. PICK n \in Nat : n = Len(sweeps)
    BY DaysAre
  <1>2. /\ DOMAIN sweeps = 1..n /\ DOMAIN sweeps' = 1..(n + 1) /\ sweeps'[n + 1].on = poolDay
        /\ \A i \in DOMAIN sweeps : sweeps'[i] = sweeps[i]
        /\ \A p : LeftSince(p, n + 1)' <=> p \in left
        /\ \A p, i : i \in DOMAIN sweeps => (LeftSince(p, i)' <=> LeftSince(p, i) /\ p \in left)
    BY <1>1, SweptIs, DaysAre
  <1>3. \A p \in Paths : table[p] <= poolDay
    <2> TAKE p \in Paths
    <2>1. shortfall[p] <= poolDay /\ poolDay \in Nat
      BY DaysAre DEF TableInv, CheckIsUnderWay
    <2> QED BY <2>1
  <1>4. \A p \in Paths : table[p] \in Nat /\ shortfall[p] \in Nat
    BY DaysAre
  <1>5. \A i \in DOMAIN sweeps' : i \in DOMAIN sweeps \/ i = n + 1
    BY <1>2
  <1>6. ASSUME NEW p \in Paths, table[p] > 0
        PROVE  \E i \in DOMAIN sweeps' : sweeps'[i].on = table[p] /\ LeftSince(p, i)'
    <2>1. p \in left /\ table[p] = shortfall[p] /\ shortfall[p] > 0
      BY <1>4, <1>6
    <2>2. CASE \E i \in DOMAIN sweeps : sweeps[i].on = shortfall[p] /\ LeftSince(p, i)
      <3>1. PICK i \in DOMAIN sweeps : sweeps[i].on = shortfall[p] /\ LeftSince(p, i)
        BY <2>2
      <3>2. i \in DOMAIN sweeps' /\ sweeps'[i].on = table[p] /\ LeftSince(p, i)'
        BY <1>2, <2>1, <3>1
      <3> QED BY <3>2
    <2>3. CASE shortfall[p] = poolDay
      <3>1. n + 1 \in DOMAIN sweeps' /\ sweeps'[n + 1].on = table[p] /\ LeftSince(p, n + 1)'
        BY <1>2, <2>1, <2>3
      <3> QED BY <3>1
    <2> QED BY <2>1, <2>2, <2>3 DEF TableInv, TableTellsSince
  <1>7. ASSUME NEW p \in Paths, NEW i \in DOMAIN sweeps', LeftSince(p, i)'
        PROVE  table[p] > 0 /\ table[p] <= sweeps'[i].on
    <2>1. p \in left
      BY <1>2, <1>5, <1>7
    <2>2. CASE i \in DOMAIN sweeps
      <3>1. LeftSince(p, i) /\ sweeps'[i] = sweeps[i]
        BY <1>2, <1>7, <2>2
      <3>2. shortfall[p] <= sweeps[i].on
        BY <2>2, <3>1 DEF TableInv, TableTellsSince
      <3>3. table[p] = shortfall[p]
        BY <1>4, <2>1
      <3> QED BY <2>1, <3>1, <3>2, <3>3
    <2>3. CASE i = n + 1
      BY <1>2, <1>3, <2>1, <2>3
    <2> QED BY <1>5, <2>2, <2>3
  <1>8. TableTellsSince'
    BY <1>6, <1>7 DEF TableTellsSince
  <1>9. \A i \in DOMAIN sweeps' : sweeps'[i].on <= poolDay
    <2> TAKE i \in DOMAIN sweeps'
    <2>1. CASE i \in DOMAIN sweeps
      BY <1>2, <2>1 DEF TableInv, CheckIsUnderWay
    <2>2. CASE i = n + 1
      BY <1>2, <2>2, DaysAre
    <2> QED BY <1>5, <2>1, <2>2
  <1> QED BY <1>3, <1>8, <1>9, SMTT(30)

(* The check is over: the alert is open if a row is old enough.            *)
LEMMA EndOfCheckKeeps ==
  ASSUME FiguresTyped, TableInv, CheckAt("sweep"), NEW table \in [Paths -> Nat], NEW under \in BOOLEAN,
         CheckEnds(table, under), sweeps' = Append(sweeps, [on |-> poolDay, left |-> {p \in Paths : table[p] > 0}]),
         \A p \in Paths : table[p] = shortfall[p] \/ table[p] = 0,
         under <=> \E p \in Paths : table[p] > 0 /\ table[p] <= poolDay - Grace
  PROVE  TableInv'
  <1>1. /\ shortfall' = table /\ marked' = {} /\ dupCheck' = NoCheck /\ checkedOn' = poolDay
        /\ dupAlerts' = (IF under THEN {"under"} ELSE {}) \cup (IF dupCheck.on THEN {"shared"} ELSE {})
        /\ UNCHANGED <<poolDay, roller>>
    BY DEF CheckEnds
  <1>2. /\ TableTellsSince' /\ \A p \in Paths : table[p] <= poolDay
        /\ \A i \in DOMAIN sweeps' : sweeps'[i].on <= poolDay
    BY <1>1, SweptKeeps
  <1>3. CheckAt("off")' /\ roller'["check"].pc # "on"
    BY <1>1 DEF CheckAt, NoCheck, TableInv, CheckIsUnderWay
  <1>4. CheckIsUnderWay'
    BY <1>1, <1>2, <1>3 DEF CheckIsUnderWay
  <1>5. "under" \in dupAlerts' <=> under
    BY <1>1
  <1>6. AlertIsDue'
    BY <1>1, <1>5 DEF AlertIsDue
  <1> QED BY <1>2, <1>4, <1>6 DEF TableInv

LEMMA DeathKeeps == ASSUME FiguresTyped, FiguresTyped', TableInv, FigureServiceDies PROVE TableInv'
  <1>1. /\ dupCheck' = NoCheck /\ marked' = {} /\ roller'["check"].pc = "off"
        /\ UNCHANGED <<shortfall, dupAlerts, poolDay, checkedOn>>
    BY NoRollupIs DEF FigureServiceDies, RowsChange, Rollers
  <1>2. CheckAt("off")'
    BY <1>1 DEF CheckAt, NoCheck
  <1>3. AlertIsDue'
    <2>1. CASE checkedOn < poolDay
      <3>1. checkedOn' # poolDay'
        BY <1>1, <2>1, DaysAre
      <3> QED BY <3>1 DEF AlertIsDue
    <2>2. CASE CheckAt("off")
      BY <1>1, <2>2 DEF TableInv, AlertIsDue
    <2> QED BY <2>1, <2>2 DEF TableInv, CheckIsUnderWay
  <1>4. CASE marked = {}
    <2>1. sweeps' = sweeps /\ poolDay' >= poolDay
      BY <1>1, <1>4, DaysAre DEF FigureServiceDies
    <2> QED BY <1>1, <1>2, <1>3, <1>4, <2>1, TableStands
  <1>5. CASE marked # {}
    <2>1. PICK table \in [Paths -> Nat] : table = shortfall
      <3>1. shortfall \in [Paths -> Nat]
        BY DaysAre DEF FiguresTyped
      <3> QED BY <3>1
    <2>2. sweeps' = Append(sweeps, [on |-> poolDay, left |-> {p \in Paths : table[p] > 0}])
      BY <1>5, <2>1 DEF FigureServiceDies
    <2>3. /\ TableTellsSince' /\ \A p \in Paths : table[p] <= poolDay
          /\ \A i \in DOMAIN sweeps' : sweeps'[i].on <= poolDay
      BY <1>1, <2>1, <2>2, SweptKeeps
    <2>4. CheckIsUnderWay'
      BY <1>1, <1>2, <2>1, <2>3 DEF CheckIsUnderWay
    <2> QED BY <1>3, <2>3, <2>4 DEF TableInv
  <1> QED BY <1>4, <1>5

LEMMA TableKept ==
  ASSUME FiguresTyped, FiguresTyped', TableInv, [NextFigures]_figureVars
  PROVE  TableInv'
  <1> USE DEF CheckAt
  <1>1. poolDay \in Nat /\ checkedOn \in Nat /\ checkedOn <= poolDay
    BY DaysAre
  <1>2. /\ marked # {} => CheckAt("sweep") /\ tracking
        /\ CheckAt("off") \/ checkedOn < poolDay
        /\ roller["check"].pc = "on" => CheckAt("rollup")
    BY DEF TableInv, CheckIsUnderWay
  <1>3. ASSUME UNCHANGED <<shortfall, sweeps, marked, poolDay, checkedOn, dupAlerts, tracking, dupCheck>>,
               roller'["check"].pc = "on" => roller["check"].pc = "on"
        PROVE  TableInv'
    <2>1. TableTellsSince' /\ AlertIsDue'
      BY <1>3 DEF TableInv, TableTellsSince, LeftSince, AlertIsDue
    <2>2. CheckIsUnderWay'
      BY <1>3 DEF TableInv, CheckIsUnderWay
    <2> QED BY <2>1, <2>2 DEF TableInv
  <1>4. ASSUME UNCHANGED <<shortfall, sweeps, marked, poolDay, checkedOn>>, marked = {}, checkedOn < poolDay,
               roller'["check"].pc = "on" => CheckAt("rollup")'
        PROVE  TableInv'
    <2>1. AlertIsDue' /\ poolDay' >= poolDay /\ checkedOn' < poolDay' /\ marked' = {}
      BY <1>1, <1>4 DEF AlertIsDue
    <2> QED BY <1>4, <2>1, TableStands
  <1>5. ASSUME NEW w \in Rollers, RollupReads(w) PROVE TableInv'
    <2>1. roller[w].pc = "on" /\ \A v \in Rollers \ {w} : roller'[v] = roller[v]
      BY <1>5 DEF RollupReads, FiguresTyped
    <2>2. roller'["check"].pc = "on" => roller["check"].pc = "on"
      BY <2>1 DEF Rollers
    <2> QED BY <1>3, <1>5, <2>2 DEF RollupReads
  <1>6. ASSUME NEW w \in Rollers, RollupEnds(w) PROVE TableInv'
    <2>1. /\ roller[w].pc = "on" /\ roller' = [roller EXCEPT ![w] = NoRollup]
          /\ UNCHANGED <<shortfall, sweeps, marked, poolDay, checkedOn, dupAlerts, tracking>>
          /\ dupCheck' = IF w = "check" THEN [dupCheck EXCEPT !.pc = "shared"] ELSE dupCheck
      BY <1>6 DEF RollupEnds, RollupStored
    <2>2. roller'[w].pc = "off" /\ \A v \in Rollers \ {w} : roller'[v] = roller[v]
      BY <2>1, NoRollupIs DEF FiguresTyped
    <2>3. CASE w = "check"
      <3>1. CheckAt("rollup") /\ roller'["check"].pc = "off"
        BY <1>2, <2>1, <2>2, <2>3
      <3> QED BY <1>2, <1>4, <2>1, <3>1
    <2>4. CASE w # "check"
      <3>1. roller'["check"] = roller["check"]
        BY <2>2, <2>4 DEF Rollers
      <3> QED BY <1>3, <2>1, <2>4, <3>1
    <2> QED BY <2>3, <2>4
  <1>7. CASE ScanRollsUp
    <2>1. roller'["check"] = roller["check"]
      BY <1>7 DEF ScanRollsUp, RollupBegins, FiguresTyped, Rollers
    <2> QED BY <1>3, <1>7, <2>1 DEF ScanRollsUp
  <1>8. CASE CheckBegins
    BY <1>2, <1>4, <1>8 DEF CheckBegins
  <1>9. CASE RefreshesLevels
    <2>1. dupCheck'.pc = "rollup"
      BY <1>9 DEF RefreshesLevels, FiguresTyped, CheckType
    <2> QED BY <1>2, <1>4, <1>9, <2>1 DEF RefreshesLevels
  <1>10. CASE RaisesShared
    BY <1>2, <1>4, <1>10 DEF RaisesShared
  <1>11. CASE SweepsPage
    BY <1>11, PageKeeps
  <1>12. CASE SweepEnds
    <2> DEFINE table == [p \in Paths |-> IF p \in marked THEN shortfall[p] ELSE 0]
               overdue == {p \in Paths : table[p] > 0 /\ table[p] <= poolDay - Grace}
    <2>1. /\ CheckAt("sweep") /\ CheckEnds(table, overdue # {})
          /\ sweeps' = Append(sweeps, [on |-> poolDay, left |-> {p \in Paths : table[p] > 0}])
      BY <1>12 DEF SweepEnds
    <2>2. table \in [Paths -> Nat] /\ \A p \in Paths : table[p] = shortfall[p] \/ table[p] = 0
      BY DaysAre
    <2>3. (overdue # {}) \in BOOLEAN /\ (overdue # {} <=> \E p \in Paths : table[p] > 0 /\ table[p] <= poolDay - Grace)
      OBVIOUS
    <2> HIDE DEF table, overdue
    <2> QED BY <2>1, <2>2, <2>3, EndOfCheckKeeps
  <1>13. CASE NotTracking
    <2> DEFINE zeros == [p \in Paths |-> 0]
    <2>1. PICK table \in [Paths -> Nat] : table = zeros
      OBVIOUS
    <2>2. /\ {p \in Paths : table[p] > 0} = {} /\ \A p \in Paths : table[p] = 0
      BY <2>1
    <2>3. /\ CheckAt("sweep") /\ CheckEnds(table, FALSE)
          /\ sweeps' = Append(sweeps, [on |-> poolDay, left |-> {p \in Paths : table[p] > 0}])
      BY <1>13, <2>1, <2>2 DEF NotTracking
    <2>4. FALSE <=> \E p \in Paths : table[p] > 0 /\ table[p] <= poolDay - Grace
      BY <2>2
    <2> QED BY <2>2, <2>3, <2>4, EndOfCheckKeeps
  <1>14. CASE CheckPauses
    <2>1. marked = {}
      <3>1. CASE CheckAt("levels")
        BY <1>2, <3>1
      <3>2. CASE dupCheck.key = 0
        BY <3>2, PathsAreOrdered, NumbersAre DEF TableInv, CheckIsUnderWay, FiguresTyped
      <3> QED BY <1>14, <3>1, <3>2 DEF CheckPauses
    <2>2. /\ checkedOn < poolDay /\ roller["check"].pc # "on"
          /\ UNCHANGED <<shortfall, sweeps, poolDay, checkedOn, roller>> /\ marked' = marked
      BY <1>2, <1>14 DEF CheckPauses
    <2> QED BY <1>4, <2>1, <2>2
  <1>15. ASSUME NEW changed, Dirtied(changed) PROVE roller'["check"].pc = "on" => roller["check"].pc = "on"
    <2>1. PICK roll \in RollType : roll = roller["check"]
      BY RollIs DEF Rollers
    <2>2. roller'["check"] = [roll EXCEPT !.dirty = IF roll.pc = "on" THEN @ \cup changed ELSE @]
      BY <1>15, <2>1 DEF Dirtied, Rollers
    <2> QED BY <2>1, <2>2 DEF RollType
  <1>16. ASSUME NEW p \in Paths, NEW r \in PartSet, RowWritten(p, r) PROVE TableInv'
    BY <1>3, <1>15, <1>16 DEF RowWritten, RowsChange
  <1>17. CASE DiskReported
    BY <1>3, <1>15, <1>17 DEF DiskReported, RowsChange
  <1>18. CASE TrackingToggled
    <2>1. /\ CheckAt("off") /\ marked = {}
          /\ UNCHANGED <<shortfall, sweeps, marked, poolDay, checkedOn, dupAlerts, dupCheck>>
      BY <1>2, <1>18 DEF TrackingToggled, RowsChange
    <2>2. AlertIsDue' /\ CheckAt("off")' /\ poolDay' >= poolDay /\ marked' = {}
      BY <1>1, <2>1 DEF TableInv, AlertIsDue
    <2>3. roller["check"].pc # "on" /\ roller'["check"].pc # "on"
      BY <1>2, <1>15, <1>18, <2>1 DEF TrackingToggled
    <2> QED BY <2>1, <2>2, <2>3, TableStands
  <1>19. CASE FigureServiceDies
    BY <1>19, DeathKeeps
  <1>20. CASE DayPasses
    <2>1. /\ CheckAt("off") /\ CheckAt("off")' /\ marked = {} /\ marked' = {} /\ poolDay' = poolDay + 1
          /\ UNCHANGED <<shortfall, sweeps, checkedOn, roller>>
      BY <1>2, <1>20 DEF DayPasses
    <2>2. checkedOn' # poolDay' /\ poolDay' >= poolDay
      BY <1>1, <2>1
    <2>3. AlertIsDue' /\ roller'["check"].pc # "on"
      BY <1>2, <2>1, <2>2 DEF AlertIsDue
    <2> QED BY <2>1, <2>2, <2>3, TableStands
  <1>21. CASE UNCHANGED figureVars
    BY <1>3, <1>21 DEF figureVars
  <1> QED BY <1>5, <1>6, <1>7, <1>8, <1>9, <1>10, <1>11, <1>12, <1>13, <1>14, <1>16, <1>17, <1>18, <1>19, <1>20, <1>21
          DEF NextFigures

-----------------------------------------------------------------------------
(* The theorems.                                                           *)

LEMMA FiguresInvariant == FiguresSpec => []FiguresInv
  <1>1. InitFigures => FiguresInv
    BY FiguresStart
  <1>2. ASSUME FiguresInv, [NextFigures]_figureVars PROVE FiguresInv'
    <2>1. FiguresTyped' /\ RollupInv'
      BY <1>2, TypesKept, RollupInvKept DEF FiguresInv
    <2>2. TableInv'
      BY <1>2, <2>1, TableKept DEF FiguresInv
    <2> QED BY <2>1, <2>2 DEF FiguresInv
  <1> QED BY <1>1, <1>2, PTL DEF FiguresSpec

(* The state of the rollups and of the duplication check is of its type.   *)
THEOREM FiguresTypeCorrect == FiguresSpec => []FiguresTypeOK
  <1>1. FiguresInv => FiguresTypeOK
    <2> SUFFICES ASSUME FiguresInv PROVE FiguresTypeOK
      OBVIOUS
    <2> USE DEF FiguresInv, FiguresTyped
    <2>1. \A w \in Rollers : /\ roller[w].key \in 0..Len(FirstRows)
                             /\ roller[w].disks \subseteq PartSet \cup {DeviceReported[r] : r \in PartSet}
      BY RollIs, NumbersAre DEF AllDisks
    <2>2. dupCheck.pc \in {"off", "levels", "rollup", "shared", "sweep"}
      BY DEF CheckType
    <2> QED BY <2>1, <2>2 DEF FiguresTypeOK
  <1> QED BY <1>1, FiguresInvariant, PTL

(* However pages are read while files come and go, whatever rollup stores  *)
(* its figures last and whenever the service dies: every file is counted   *)
(* once, a file nobody changed since with the disks it is on, and the      *)
(* alert is open exactly when a file was short at every check of the grace *)
(* period.                                                                 *)
THEOREM FiguresAreTrue == FiguresSpec => []FiguresMatchTheCatalog
  <1>1. FiguresInv => FiguresMatchTheCatalog
    <2> SUFFICES ASSUME FiguresInv PROVE FiguresMatchTheCatalog
      OBVIOUS
    <2>1. FiguresTyped /\ FiguresAreRight /\ TableInv
      BY DEF FiguresInv, RollupInv
    <2>2. \A i, j \in DOMAIN figures : figures[i][1] = figures[j][1] => i = j
      BY <2>1 DEF FiguresAreRight, OnceEach
    <2>3. \A p \in Paths \ untrusted :
            Known(p) <=> \E i \in DOMAIN figures : figures[i] = <<p, Cardinality(Devices(p, unreported))>>
      BY <2>1 DEF FiguresAreRight, Counts
    <2>4. ASSUME CheckAt("off"), checkedOn = poolDay
          PROVE  "under" \in dupAlerts <=>
                   \E p \in Paths, i \in DOMAIN sweeps :
                     sweeps[i].on <= poolDay - Grace /\ \A j \in i..Len(sweeps) : p \in sweeps[j].left
      <3>1. "under" \in dupAlerts <=> \E p \in Paths : shortfall[p] > 0 /\ shortfall[p] <= poolDay - Grace
        BY <2>1, <2>4 DEF TableInv, AlertIsDue
      <3>2. marked = {}
        BY <2>1, <2>4 DEF TableInv, CheckIsUnderWay, CheckAt
      <3>3. ASSUME NEW p \in Paths, shortfall[p] > 0, shortfall[p] <= poolDay - Grace
            PROVE  \E i \in DOMAIN sweeps : sweeps[i].on <= poolDay - Grace /\ LeftSince(p, i)
        BY <2>1, <3>2, <3>3 DEF TableInv, TableTellsSince
      <3>4. ASSUME NEW p \in Paths, NEW i \in DOMAIN sweeps, sweeps[i].on <= poolDay - Grace, LeftSince(p, i)
            PROVE  shortfall[p] > 0 /\ shortfall[p] <= poolDay - Grace
        <4>1. shortfall[p] > 0 /\ shortfall[p] <= sweeps[i].on
          BY <2>1, <3>4 DEF TableInv, TableTellsSince
        <4> QED BY <2>1, <3>4, <4>1, DaysAre
      <3> QED BY <3>1, <3>3, <3>4 DEF LeftSince
    <2> QED BY <2>2, <2>3, <2>4 DEF FiguresMatchTheCatalog
  <1> QED BY <1>1, FiguresInvariant, PTL

-----------------------------------------------------------------------------
(* The history of the catalog: what holds at every step.                   *)

ScanType ==
  [member : Members \cup {"none"}, run : 0..MaxCatalogRuns, pc : {"off", "walk", "sweep"},
   walked : SUBSET PoolFiles, swept : Nat]
RunType == [id : 1..MaxCatalogRuns, state : {"running", "completed", "failed"}]
FileRowType == [state : {"none", "live", "deleted"}, stamp : 0..2, run : 0..MaxCatalogRuns]
ChangeType ==
  [run : 1..MaxCatalogRuns, member : Members, file : PoolFiles,
   kind : {"created", "modified", "deleted", "restored"}, new : 0..2, old : 0..2]

HistoryTyped ==
  /\ onMember \in [Members -> [PoolFiles -> 0..2]]
  /\ rowOf \in [Members -> [PoolFiles -> FileRowType]]
  /\ catalogRuns \in [Members -> Seq(RunType)]
  /\ catalogScan \in ScanType /\ (catalogScan.pc # "off" => catalogScan.member \in Members)
  /\ DOMAIN history \subseteq Nat \ {0} /\ IsFiniteSet(DOMAIN history)
  /\ history \in [DOMAIN history -> ChangeType]
  /\ keptStats \in [Members -> {<<>>} \cup (Nat \X Nat)] /\ rollUp \in [Members -> Nat \cup {-1}]
  /\ massGone \subseteq Members /\ pruned \subseteq Members /\ cutShort \subseteq Members
  /\ runsBegun \in 0..MaxCatalogRuns /\ edits \in Nat

HasRun(m) == catalogRuns[m] # <<>>

(* The runs of a member are numbered as they begin, and the last alone may *)
(* be in progress: the scan is of that one.                                *)
RunsInOrder ==
  /\ \A m \in Members : \A i \in DOMAIN catalogRuns[m] :
       /\ catalogRuns[m][i].id <= runsBegun
       /\ catalogRuns[m][i].state = "running" => i = Len(catalogRuns[m])
       /\ \A j \in DOMAIN catalogRuns[m] : i < j => catalogRuns[m][i].id < catalogRuns[m][j].id
       /\ \A n \in Members \ {m} : \A j \in DOMAIN catalogRuns[n] : catalogRuns[m][i].id # catalogRuns[n][j].id
  /\ catalogScan.pc # "off" =>
       LET m == catalogScan.member
       IN HasRun(m) /\ LastRun(m).id = catalogScan.run /\ LastRun(m).state = "running"

(* A change is of a run of its member, and comes after those of earlier ones. *)
ChangesHaveRuns ==
  /\ \A i \in DOMAIN history : \E k \in DOMAIN catalogRuns[history[i].member] :
       catalogRuns[history[i].member][k].id = history[i].run
  /\ \A i, j \in DOMAIN history : history[i].member = history[j].member /\ i < j => history[i].run <= history[j].run

FileStory(m, f) ==
  /\ StoryHolds(m, f)
  /\ rowOf[m][f].state = "none" => rowOf[m][f] = NoRow /\ ChangesShown(m, f) = {}
StoriesHold == \A m \in Members, f \in PoolFiles : FileStory(m, f)

StatsAreKept == \A m \in Members : keptStats[m] # <<>> => keptStats[m] = CountsNow(m)

LastCompleted(m) == HasRun(m) /\ LastRun(m).state = "completed"
RolledUp == \A m \in Members : LastCompleted(m) => rollUp[m] = Cardinality(LiveFiles(m))

(* What the last run of a member took.                                     *)
TakenBy(run) == {i \in DOMAIN history : history[i].run = run /\ history[i].kind \in {"deleted"}}
Taken(m) == Cardinality(TakenBy(LastRun(m).id))
Sweeping(m) == catalogScan.pc = "sweep" /\ catalogScan.member = m
HalfGone(m) == Taken(m) > 0 /\ 2 * Taken(m) >= Cardinality(LiveFiles(m)) + Taken(m)

LossOfLastRun(m) ==
  HasRun(m) => IF Sweeping(m) THEN Taken(m) = catalogScan.swept
               ELSE IF LastRun(m).state = "completed" THEN HalfGone(m) <=> m \in massGone
               ELSE Taken(m) = 0
LossIsCounted ==
  /\ catalogScan.pc # "sweep" => catalogScan.swept = 0
  /\ \A m \in Members \ cutShort : LossOfLastRun(m)

HistoryInv ==
  /\ HistoryTyped /\ RunsInOrder /\ ChangesHaveRuns /\ StoriesHold
  /\ StatsAreKept /\ RolledUp /\ LossIsCounted
-----------------------------------------------------------------------------
(* The log.                                                                *)

(* A finite set of numbers without a greatest one would go into itself     *)
(* less its least.                                                         *)
LEMMA GreatestIs == ASSUME NEW S \in SUBSET Nat, IsFiniteSet(S), S # {} PROVE \E n \in S : \A m \in S : m <= n
  <1> SUFFICES ASSUME \A n \in S : \E m \in S : n < m PROVE FALSE
    OBVIOUS
  <1>1. PICK z \in S : \A m \in S : z <= m
    BY LeastIs
  <1> DEFINE Next(n) == {m \in S : n < m}
             T == S \ {z}
  <1>2. \A n \in S : \E m \in Next(n) : \A k \in Next(n) : m <= k
    <2> TAKE n \in S
    <2>1. Next(n) \in SUBSET Nat /\ Next(n) # {}
      OBVIOUS
    <2> HIDE DEF Next
    <2> QED BY <2>1, LeastIs
  <1> DEFINE f == [n \in S |-> CHOOSE m \in Next(n) : \A k \in Next(n) : m <= k]
  <1>3. \A n \in S : f[n] \in S /\ n < f[n] /\ \A k \in S : n < k => f[n] <= k
    BY <1>2
  <1>4. f \in [S -> T]
    <2>1. \A n \in S : f[n] \in T
      <3> HIDE DEF f
      <3>1. TAKE n \in S
      <3>2. n \in Nat /\ z \in Nat /\ f[n] \in Nat /\ z <= n /\ n < f[n]
        BY <1>1, <1>3
      <3> QED BY <1>3, <3>2
    <2> QED BY <2>1
  <1>5. IsFiniteSet(T) /\ Cardinality(T) < Cardinality(S)
    <2>1. IsFiniteSet(T) /\ Cardinality(T) = Cardinality(S) - Cardinality(S \cap {z})
      BY FS_Difference
    <2>2. S \cap {z} = {z}
      BY <1>1
    <2>3. Cardinality({z}) = 1 /\ Cardinality(S) \in Nat
      BY FS_Singleton, FS_CardinalityType
    <2> HIDE DEF T
    <2> QED BY <2>1, <2>2, <2>3
  <1>6. PICK x, y \in S : x # y /\ f[x] = f[y]
    <2> HIDE DEF f, T
    <2> QED BY <1>4, <1>5, FS_PigeonHole
  <1>7. x \in Nat /\ y \in Nat /\ f[x] \in Nat /\ (x < y => f[x] <= y) /\ (y < x => f[y] <= x) /\ x < f[x] /\ y < f[y]
    BY <1>3, <1>6
  <1> HIDE DEF f, T
  <1> QED BY <1>6, <1>7

LEMMA NextIdIs ==
  ASSUME DOMAIN history \subseteq Nat \ {0}, IsFiniteSet(DOMAIN history)
  PROVE  NextId \in Nat \ {0} /\ \A i \in DOMAIN history : i < NextId /\ i # NextId
  <1>1. CASE DOMAIN history = {}
    BY <1>1 DEF NextId
  <1>2. CASE DOMAIN history # {}
    <2>1. PICK n \in DOMAIN history : \A j \in DOMAIN history : j <= n
      BY <1>2, GreatestIs
    <2> DEFINE g == CHOOSE i \in DOMAIN history : \A j \in DOMAIN history : j <= i
    <2>2. g \in DOMAIN history /\ \A j \in DOMAIN history : j <= g
      BY <2>1
    <2>3. NextId = 1 + g
      BY <1>2 DEF NextId
    <2> HIDE DEF g
    <2> QED BY <2>2, <2>3
  <1> QED BY <1>1, <1>2

(* A change that is logged comes after all others.                         *)
LEMMA LoggedIs ==
  ASSUME DOMAIN history \subseteq Nat \ {0}, IsFiniteSet(DOMAIN history), NEW change, history' = Logged(change)
  PROVE  /\ DOMAIN history' = DOMAIN history \cup {NextId}
         /\ history' = [i \in DOMAIN history' |-> history'[i]]
         /\ history'[NextId] = change /\ \A i \in DOMAIN history : history'[i] = history[i]
         /\ DOMAIN history' \subseteq Nat \ {0} /\ IsFiniteSet(DOMAIN history')
  <1>1. NextId \in Nat \ {0} /\ \A i \in DOMAIN history : i # NextId
    BY NextIdIs
  <1>2. PICK n : n = NextId
    OBVIOUS
  <1>3. history' = [i \in DOMAIN history \cup {n} |-> IF i = n THEN change ELSE history[i]]
    BY <1>2 DEF Logged
  <1>4. IsFiniteSet(DOMAIN history \cup {n})
    BY FS_AddElement
  <1> QED BY <1>1, <1>2, <1>3, <1>4

LEMMA RestrictedIs ==
  ASSUME DOMAIN history \subseteq Nat \ {0}, IsFiniteSet(DOMAIN history),
         NEW ids \in SUBSET DOMAIN history, history' = Restrict(history, ids)
  PROVE  /\ DOMAIN history' = ids /\ history' = [i \in DOMAIN history' |-> history'[i]]
         /\ \A i \in ids : history'[i] = history[i]
         /\ DOMAIN history' \subseteq Nat \ {0} /\ IsFiniteSet(DOMAIN history')
  <1>1. history' = [i \in ids |-> history[i]]
    BY DEF Restrict
  <1>2. IsFiniteSet(ids)
    BY FS_Subset
  <1> QED BY <1>1, <1>2

(* The scan is of the last run of its member, whose files are finite.      *)
LEMMA FilesAreCounted ==
  ASSUME NEW m PROVE Cardinality(LiveFiles(m)) \in Nat /\ Cardinality(GoneFiles(m)) \in Nat
  <1>1. IsFiniteSet(LiveFiles(m)) /\ IsFiniteSet(GoneFiles(m))
    BY HistoryAssumption, FS_Subset DEF LiveFiles, GoneFiles
  <1> QED BY <1>1, FS_CardinalityType

LEMMA LastRunIs ==
  ASSUME HistoryTyped, NEW m \in Members, HasRun(m)
  PROVE  /\ LastRun(m) \in RunType /\ Len(catalogRuns[m]) \in DOMAIN catalogRuns[m]
         /\ Len(catalogRuns[m]) \in Nat \ {0} /\ DOMAIN catalogRuns[m] = 1..Len(catalogRuns[m])
  BY DEF HistoryTyped, HasRun, LastRun

LEMMA ScanIs ==
  ASSUME HistoryTyped
  PROVE  /\ catalogScan.member \in Members \cup {"none"} /\ catalogScan.run \in 0..MaxCatalogRuns
         /\ catalogScan.pc \in {"off", "walk", "sweep"} /\ catalogScan.walked \in SUBSET PoolFiles
         /\ catalogScan.swept \in Nat /\ NoScan \in ScanType /\ NoScan.pc = "off" /\ NoScan.swept = 0
         /\ (catalogScan.pc # "off" => catalogScan.member \in Members)
  BY HistoryAssumption DEF HistoryTyped, ScanType, NoScan

LEMMA RowIs ==
  ASSUME HistoryTyped, NEW m \in Members, NEW f \in PoolFiles
  PROVE  /\ rowOf[m][f] \in FileRowType /\ rowOf[m][f].state \in {"none", "live", "deleted"}
         /\ rowOf[m][f].stamp \in 0..2 /\ rowOf[m][f].run \in 0..MaxCatalogRuns
         /\ NoRow \in FileRowType /\ NoRow.state = "none" /\ onMember[m][f] \in 0..2
  BY HistoryAssumption DEF HistoryTyped, FileRowType, NoRow

LEMMA ScanHasRun ==
  ASSUME HistoryTyped, RunsInOrder, catalogScan.pc # "off"
  PROVE  /\ catalogScan.member \in Members /\ catalogScan.run \in 1..MaxCatalogRuns /\ HasRun(catalogScan.member)
         /\ LastRun(catalogScan.member).id = catalogScan.run /\ LastRun(catalogScan.member).state = "running"
  BY ScanIs, LastRunIs DEF RunsInOrder, RunType

(* What a scan writes of a file: its row, a change of the file or none.    *)
WritesOf(m, f) ==
  \E row \in FileRowType, kind \in {"created", "modified", "deleted", "restored", "same"}, new \in 0..2 :
    /\ rowOf' = [rowOf EXCEPT ![m][f] = row] /\ keptStats' = Forgotten0
    /\ history' = IF kind = "same" THEN history ELSE Logged(ChangeOf(m, f, kind, new, rowOf[m][f].stamp))

LEMMA RecordWrites ==
  ASSUME HistoryTyped, RunsInOrder, NEW f \in PoolFiles, RecordsFile(f)
  PROVE  \/ UNCHANGED <<rowOf, history, keptStats>>
         \/ WritesOf(catalogScan.member, f)
  <1> DEFINE m == catalogScan.member
             stamp == onMember[m][f]
             old == rowOf[m][f]
             kind == CASE old.state = "none" -> "created"
                       [] old.state = "deleted" -> "restored"
                       [] old.state = "live" -> IF old.stamp = stamp THEN "same" ELSE "modified"
             row == [state |-> "live", stamp |-> stamp, run |-> catalogScan.run]
  <1>1. catalogScan.pc # "off" /\ m \in Members
    BY ScanHasRun DEF RecordsFile
  <1>2. CASE onMember[m][f] > 0
    <2>1. WriteRow(m, f, stamp)
      BY <1>2 DEF RecordsFile
    <2>2. rowOf' = [rowOf EXCEPT ![m][f] = row] /\ keptStats' = Forgotten0
      BY <2>1 DEF WriteRow
    <2>3. history' = IF kind = "same" THEN history ELSE Logged(ChangeOf(m, f, kind, stamp, old.stamp))
      BY <2>1 DEF WriteRow
    <2>4. kind \in {"created", "modified", "deleted", "restored", "same"} /\ stamp \in 0..2
      BY <1>1, RowIs
    <2>5. row \in FileRowType
      BY <1>1, RowIs, ScanIs DEF FileRowType
    <2> HIDE DEF row, kind, stamp
    <2> QED BY <2>2, <2>3, <2>4, <2>5 DEF WritesOf
  <1>3. CASE ~(onMember[m][f] > 0)
    BY <1>3 DEF RecordsFile
  <1> QED BY <1>2, <1>3

LEMMA SweepWrites ==
  ASSUME HistoryTyped, RunsInOrder, NEW f \in PoolFiles, SweepsFile(f)
  PROVE  WritesOf(catalogScan.member, f)
  <1> DEFINE m == catalogScan.member
             row == [rowOf[m][f] EXCEPT !.state = "deleted"]
  <1>1. catalogScan.pc # "off" /\ m \in Members
    BY ScanHasRun DEF SweepsFile
  <1>2. row \in FileRowType
    BY <1>1, RowIs DEF FileRowType
  <1>3. rowOf' = [rowOf EXCEPT ![m][f] = row] /\ keptStats' = Forgotten0
    BY <1>1 DEF SweepsFile, HistoryTyped
  <1>4. history' = Logged(ChangeOf(m, f, "deleted", 0, rowOf[m][f].stamp)) /\ 0 \in 0..2
    BY DEF SweepsFile
  <1> HIDE DEF row
  <1> QED BY <1>2, <1>3, <1>4 DEF WritesOf

(* A write leaves the other files as they were, in the rows and the log.   *)
LEMMA WriteIs ==
  ASSUME HistoryTyped, RunsInOrder, NEW m \in Members, NEW f \in PoolFiles, WritesOf(m, f),
         m = catalogScan.member, catalogScan.pc # "off"
  PROVE  /\ rowOf' \in [Members -> [PoolFiles -> FileRowType]]
         /\ \A n \in Members, g \in PoolFiles : n # m \/ g # f => rowOf'[n][g] = rowOf[n][g]
         /\ keptStats' = Forgotten0
         /\ DOMAIN history' \subseteq Nat \ {0} /\ IsFiniteSet(DOMAIN history')
         /\ history' \in [DOMAIN history' -> ChangeType]
         /\ \/ history' = history
            \/ /\ DOMAIN history' = DOMAIN history \cup {NextId} /\ \A i \in DOMAIN history : history'[i] = history[i]
               /\ history'[NextId].member = m /\ history'[NextId].file = f /\ history'[NextId].run = catalogScan.run
  <1>1. PICK row \in FileRowType, kind \in {"created", "modified", "deleted", "restored", "same"}, new \in 0..2 :
          /\ rowOf' = [rowOf EXCEPT ![m][f] = row] /\ keptStats' = Forgotten0
          /\ history' = IF kind = "same" THEN history ELSE Logged(ChangeOf(m, f, kind, new, rowOf[m][f].stamp))
    BY DEF WritesOf
  <1>2. /\ rowOf' \in [Members -> [PoolFiles -> FileRowType]]
        /\ \A n \in Members, g \in PoolFiles : n # m \/ g # f => rowOf'[n][g] = rowOf[n][g]
    BY <1>1 DEF HistoryTyped
  <1>3. DOMAIN history \subseteq Nat \ {0} /\ IsFiniteSet(DOMAIN history) /\ history \in [DOMAIN history -> ChangeType]
    BY DEF HistoryTyped
  <1>4. CASE kind # "same"
    <2> DEFINE c == ChangeOf(m, f, kind, new, rowOf[m][f].stamp)
    <2>1. c \in ChangeType /\ c.member = m /\ c.file = f /\ c.run = catalogScan.run
      BY <1>4, ScanHasRun, RowIs DEF ChangeOf, ChangeType
    <2>2. history' = Logged(c)
      BY <1>1, <1>4
    <2> HIDE DEF c
    <2>3. /\ DOMAIN history' = DOMAIN history \cup {NextId}
          /\ history' = [i \in DOMAIN history' |-> history'[i]]
          /\ history'[NextId] = c /\ \A i \in DOMAIN history : history'[i] = history[i]
          /\ DOMAIN history' \subseteq Nat \ {0} /\ IsFiniteSet(DOMAIN history')
      BY <1>3, <2>2, LoggedIs
    <2>4. \A i \in DOMAIN history' : history'[i] \in ChangeType
      BY <1>3, <2>1, <2>3
    <2> QED BY <1>1, <1>2, <2>1, <2>3, <2>4
  <1>5. CASE kind = "same"
    BY <1>1, <1>2, <1>3, <1>5
  <1> QED BY <1>4, <1>5

(* Rows of the log go, and no others come.                                 *)
LEMMA PruneIs ==
  ASSUME HistoryTyped, NEW ids \in SUBSET DOMAIN history, history' = Restrict(history, ids)
  PROVE  /\ DOMAIN history' = ids /\ \A i \in ids : history'[i] = history[i]
         /\ DOMAIN history' \subseteq Nat \ {0} /\ IsFiniteSet(DOMAIN history')
         /\ history' \in [DOMAIN history' -> ChangeType]
  <1>1. DOMAIN history \subseteq Nat \ {0} /\ IsFiniteSet(DOMAIN history) /\ history \in [DOMAIN history -> ChangeType]
    BY DEF HistoryTyped
  <1>2. /\ DOMAIN history' = ids /\ history' = [i \in DOMAIN history' |-> history'[i]]
        /\ \A i \in ids : history'[i] = history[i]
        /\ DOMAIN history' \subseteq Nat \ {0} /\ IsFiniteSet(DOMAIN history')
    BY <1>1, RestrictedIs
  <1> QED BY <1>1, <1>2

-----------------------------------------------------------------------------
(* The runs.                                                               *)

LEMMA ClosedIs ==
  ASSUME HistoryTyped, RunsInOrder, catalogScan.pc # "off", NEW state \in {"completed", "failed"},
         catalogRuns' = Closed(catalogScan.member, state)
  PROVE  LET m == catalogScan.member
         IN /\ catalogRuns' \in [Members -> Seq(RunType)]
            /\ \A n \in Members \ {m} : catalogRuns'[n] = catalogRuns[n]
            /\ DOMAIN catalogRuns'[m] = DOMAIN catalogRuns[m] /\ Len(catalogRuns'[m]) = Len(catalogRuns[m])
            /\ \A i \in DOMAIN catalogRuns[m] : catalogRuns'[m][i].id = catalogRuns[m][i].id
            /\ \A i \in DOMAIN catalogRuns[m] : catalogRuns'[m][i].state =
                 IF i = Len(catalogRuns[m]) THEN state ELSE catalogRuns[m][i].state
  <1> DEFINE m == catalogScan.member
             runs == catalogRuns[m]
             new == [i \in DOMAIN runs |-> IF runs[i].id = catalogScan.run THEN [runs[i] EXCEPT !.state = state] ELSE runs[i]]
  <1>1. /\ m \in Members /\ HasRun(m) /\ runs[Len(runs)].id = catalogScan.run /\ runs \in Seq(RunType)
        /\ DOMAIN runs = 1..Len(runs) /\ Len(runs) \in Nat \ {0}
    BY ScanHasRun, LastRunIs DEF LastRun, HistoryTyped
  <1>2. catalogRuns' = [catalogRuns EXCEPT ![m] = new]
    BY DEF Closed
  <1>3. \A i \in DOMAIN runs : runs[i].id = catalogScan.run <=> i = Len(runs)
    <2> TAKE i \in DOMAIN runs
    <2>1. i # Len(runs) => i < Len(runs)
      BY <1>1
    <2>2. \A j \in DOMAIN runs : i < j => runs[i].id < runs[j].id
      BY <1>1 DEF RunsInOrder
    <2>3. runs[i].id \in Nat /\ catalogScan.run \in Nat
      <3>1. runs[i] \in RunType /\ catalogScan.run \in 1..MaxCatalogRuns
        BY <1>1, ScanHasRun
      <3> QED BY <3>1, HistoryAssumption DEF RunType
    <2> QED BY <1>1, <2>1, <2>2, <2>3
  <1>4. \A i \in DOMAIN runs : new[i] \in RunType /\ new[i].id = runs[i].id
                               /\ new[i].state = IF i = Len(runs) THEN state ELSE runs[i].state
    <2> TAKE i \in DOMAIN runs
    <2>1. runs[i] \in RunType
      BY <1>1
    <2>2. [runs[i] EXCEPT !.state = state] \in RunType /\ [runs[i] EXCEPT !.state = state].id = runs[i].id
          /\ [runs[i] EXCEPT !.state = state].state = state
      BY <2>1 DEF RunType
    <2> QED BY <1>3, <2>1, <2>2
  <1>5. DOMAIN new = 1..Len(runs) /\ new \in Seq(RunType) /\ Len(new) = Len(runs)
    <2>1. new \in [1..Len(runs) -> RunType]
      BY <1>1, <1>4
    <2>2. Len(runs) \in Nat
      BY <1>1
    <2> HIDE DEF new, runs
    <2> QED BY <2>1, <2>2, SeqDef, LenProperties
  <1>6. catalogRuns'[m] = new /\ \A n \in Members \ {m} : catalogRuns'[n] = catalogRuns[n]
    BY <1>1, <1>2 DEF HistoryTyped
  <1>7. catalogRuns' \in [Members -> Seq(RunType)]
    <2> HIDE DEF new
    <2> QED BY <1>2, <1>5 DEF HistoryTyped
  <1> HIDE DEF new
  <1> QED BY <1>1, <1>4, <1>5, <1>6, <1>7

(* A new run comes last, under the next number.                            *)
LEMMA BegunIs ==
  ASSUME HistoryTyped, RunsInOrder, NEW m \in Members, runsBegun < MaxCatalogRuns,
         catalogRuns' = [catalogRuns EXCEPT ![m] = Append(@, [id |-> runsBegun + 1, state |-> "running"])]
  PROVE  /\ catalogRuns' \in [Members -> Seq(RunType)]
         /\ \A n \in Members \ {m} : catalogRuns'[n] = catalogRuns[n]
         /\ DOMAIN catalogRuns'[m] = DOMAIN catalogRuns[m] \cup {Len(catalogRuns[m]) + 1}
         /\ Len(catalogRuns'[m]) = Len(catalogRuns[m]) + 1
         /\ \A i \in DOMAIN catalogRuns[m] : catalogRuns'[m][i] = catalogRuns[m][i] /\ i < Len(catalogRuns'[m])
         /\ LastRun(m)'.id = runsBegun + 1 /\ LastRun(m)'.state = "running"
  <1> DEFINE run == [id |-> runsBegun + 1, state |-> "running"]
  <1>1. catalogRuns[m] \in Seq(RunType) /\ Len(catalogRuns[m]) \in Nat /\ DOMAIN catalogRuns[m] = 1..Len(catalogRuns[m])
    BY DEF HistoryTyped
  <1>2. run \in RunType
    BY HistoryAssumption DEF HistoryTyped, RunType
  <1>3. run.id = runsBegun + 1 /\ run.state = "running"
    OBVIOUS
  <1>4. catalogRuns' = [catalogRuns EXCEPT ![m] = Append(catalogRuns[m], run)]
    OBVIOUS
  <1> HIDE DEF run
  <1>5. PICK runs : runs = catalogRuns[m]
    OBVIOUS
  <1>6. /\ Append(runs, run) \in Seq(RunType) /\ Len(Append(runs, run)) = Len(runs) + 1
        /\ Append(runs, run)[Len(runs) + 1] = run /\ \A i \in 1..Len(runs) : Append(runs, run)[i] = runs[i]
        /\ DOMAIN Append(runs, run) = 1..(Len(runs) + 1)
    BY <1>1, <1>2, <1>5, AppendProperties
  <1>7. catalogRuns'[m] = Append(runs, run) /\ \A n \in Members \ {m} : catalogRuns'[n] = catalogRuns[n]
    BY <1>4, <1>5 DEF HistoryTyped
  <1>8. catalogRuns' \in [Members -> Seq(RunType)]
    BY <1>4, <1>5, <1>6 DEF HistoryTyped
  <1>9. LastRun(m)' = run
    BY <1>6, <1>7 DEF LastRun
  <1> QED BY <1>1, <1>3, <1>5, <1>6, <1>7, <1>8, <1>9

-----------------------------------------------------------------------------
(* Types.                                                                  *)

LEMMA NextIs ==
  ASSUME NextHistory
  PROVE  \/ \E m \in Members : ScanBegins(m)
         \/ \E m \in Members : PurgesRoot(m)
         \/ \E m \in Members : ReadsStats(m)
         \/ \E f \in PoolFiles : RecordsFile(f)
         \/ \E f \in PoolFiles : SweepsFile(f)
         \/ WalkEnds \/ ScanFinishes \/ ScanFails \/ ScanDies \/ PrunesHistory
         \/ \E m \in Members, f \in PoolFiles : DiskChanges(m, f)
  BY DEF NextHistory

LEMMA ForgottenIs == Forgotten0 \in [Members -> {<<>>} \cup (Nat \X Nat)] /\ \A m \in Members : Forgotten0[m] = <<>>
  BY DEF Forgotten0

LEMMA HistoryTypesKept == ASSUME HistoryTyped, RunsInOrder, [NextHistory]_historyVars PROVE HistoryTyped'
  <1> USE ScanIs, ForgottenIs
  <1>1. ASSUME NEW m \in Members, ScanBegins(m) PROVE HistoryTyped'
    <2>1. ASSUME NEW i \in DOMAIN catalogRuns[m], catalogScan' = [NoScan EXCEPT !.member = m, !.run = catalogRuns[m][i].id, !.pc = "walk"],
                 UNCHANGED <<catalogRuns, runsBegun>>
          PROVE HistoryTyped'
      <3>1. catalogRuns[m][i] \in RunType
        BY DEF HistoryTyped
      <3>2. catalogRuns[m][i].id \in 0..MaxCatalogRuns
        BY <3>1, HistoryAssumption DEF RunType
      <3>3. PICK r \in 0..MaxCatalogRuns : r = catalogRuns[m][i].id
        BY <3>2
      <3>4. catalogScan' = [NoScan EXCEPT !.member = m, !.run = r, !.pc = "walk"]
        BY <2>1, <3>3
      <3>5. catalogScan' \in ScanType /\ catalogScan'.member = m
        BY <3>4 DEF ScanType
      <3> QED BY <1>1, <2>1, <3>5 DEF HistoryTyped, ScanBegins
    <2>2. ASSUME runsBegun < MaxCatalogRuns, runsBegun' = runsBegun + 1,
                 catalogRuns' = [catalogRuns EXCEPT ![m] = Append(@, [id |-> runsBegun + 1, state |-> "running"])],
                 catalogScan' = [NoScan EXCEPT !.member = m, !.run = runsBegun + 1, !.pc = "walk"]
          PROVE HistoryTyped'
      <3>1. catalogRuns' \in [Members -> Seq(RunType)]
        BY <2>2, BegunIs
      <3>2. runsBegun' \in 0..MaxCatalogRuns
        BY <2>2, HistoryAssumption DEF HistoryTyped
      <3>3. catalogScan' \in ScanType /\ catalogScan'.member = m
        BY <2>2, <3>2 DEF ScanType
      <3> QED BY <1>1, <3>1, <3>2, <3>3 DEF HistoryTyped, ScanBegins
    <2> QED BY <1>1, <2>1, <2>2 DEF ScanBegins
  <1>2. ASSUME NEW m \in Members, PurgesRoot(m) PROVE HistoryTyped'
    <2>1. rowOf' \in [Members -> [PoolFiles -> FileRowType]]
      <3>1. [f \in PoolFiles |-> NoRow] \in [PoolFiles -> FileRowType]
        BY HistoryAssumption DEF FileRowType, NoRow
      <3> QED BY <1>2, <3>1 DEF PurgesRoot, HistoryTyped
    <2>2. catalogRuns' \in [Members -> Seq(RunType)]
      BY <1>2, EmptySeq DEF PurgesRoot, HistoryTyped
    <2>3. DOMAIN history' \subseteq Nat \ {0} /\ IsFiniteSet(DOMAIN history') /\ history' \in [DOMAIN history' -> ChangeType]
      BY <1>2, PruneIs DEF PurgesRoot
    <2>4. /\ keptStats' = Forgotten0 /\ pruned' = pruned \ {m} /\ rollUp' = [rollUp EXCEPT ![m] = -1] /\ edits' = edits + 1
          /\ UNCHANGED <<onMember, catalogScan, massGone, cutShort, runsBegun>>
      BY <1>2 DEF PurgesRoot
    <2> QED BY <2>1, <2>2, <2>3, <2>4 DEF HistoryTyped
  <1>3. ASSUME NEW m \in Members, ReadsStats(m) PROVE HistoryTyped'
    <2>1. CountsNow(m) \in Nat \X Nat
      BY FilesAreCounted DEF CountsNow
    <2> QED BY <1>3, <2>1 DEF ReadsStats, HistoryTyped
  <1>4. ASSUME NEW f \in PoolFiles, RecordsFile(f) PROVE HistoryTyped'
    <2>1. catalogScan' = [catalogScan EXCEPT !.walked = @ \cup {f}] /\ catalogScan.pc # "off"
          /\ UNCHANGED <<onMember, catalogRuns, rollUp, massGone, pruned, cutShort, runsBegun, edits>>
      BY <1>4 DEF RecordsFile
    <2>2. catalogScan' \in ScanType /\ catalogScan'.member = catalogScan.member
      <3>1. PICK w \in SUBSET PoolFiles : w = catalogScan.walked \cup {f}
        OBVIOUS
      <3>2. catalogScan' = [catalogScan EXCEPT !.walked = w]
        BY <2>1, <3>1
      <3> QED BY <3>2 DEF HistoryTyped, ScanType
    <2>3. CASE UNCHANGED <<rowOf, history, keptStats>>
      BY <2>1, <2>2, <2>3 DEF HistoryTyped
    <2>4. CASE WritesOf(catalogScan.member, f)
      <3>1. /\ rowOf' \in [Members -> [PoolFiles -> FileRowType]] /\ keptStats' = Forgotten0
            /\ DOMAIN history' \subseteq Nat \ {0} /\ IsFiniteSet(DOMAIN history')
            /\ history' \in [DOMAIN history' -> ChangeType]
        BY <2>1, <2>4, WriteIs
      <3> QED BY <2>1, <2>2, <3>1 DEF HistoryTyped
    <2> QED BY <1>4, <2>3, <2>4, RecordWrites
  <1>5. ASSUME NEW f \in PoolFiles, SweepsFile(f) PROVE HistoryTyped'
    <2>1. catalogScan' = [catalogScan EXCEPT !.swept = @ + 1] /\ catalogScan.pc # "off"
          /\ UNCHANGED <<onMember, catalogRuns, rollUp, massGone, pruned, cutShort, runsBegun, edits>>
      BY <1>5 DEF SweepsFile
    <2>2. catalogScan' \in ScanType /\ catalogScan'.member = catalogScan.member
      <3>1. PICK n \in Nat : n = catalogScan.swept + 1
        OBVIOUS
      <3>2. catalogScan' = [catalogScan EXCEPT !.swept = n]
        BY <2>1, <3>1
      <3> QED BY <3>2 DEF HistoryTyped, ScanType
    <2>3. /\ rowOf' \in [Members -> [PoolFiles -> FileRowType]] /\ keptStats' = Forgotten0
          /\ DOMAIN history' \subseteq Nat \ {0} /\ IsFiniteSet(DOMAIN history')
          /\ history' \in [DOMAIN history' -> ChangeType]
      BY <1>5, <2>1, WriteIs, SweepWrites
    <2> QED BY <2>1, <2>2, <2>3 DEF HistoryTyped
  <1>6. CASE WalkEnds
    <2>1. catalogScan' \in ScanType /\ catalogScan'.member = catalogScan.member /\ catalogScan.pc # "off"
      BY <1>6 DEF WalkEnds, HistoryTyped, ScanType
    <2> QED BY <1>6, <2>1 DEF WalkEnds, HistoryTyped
  <1>7. CASE ScanFinishes
    <2>1. catalogRuns' \in [Members -> Seq(RunType)] /\ catalogScan.member \in Members
      BY <1>7, ClosedIs DEF ScanFinishes
    <2>2. rollUp' \in [Members -> Nat \cup {-1}]
      BY <1>7, FilesAreCounted DEF ScanFinishes, HistoryTyped
    <2> QED BY <1>7, <2>1, <2>2 DEF ScanFinishes, HistoryTyped
  <1>8. CASE ScanFails
    <2>1. catalogRuns' \in [Members -> Seq(RunType)]
      BY <1>8, ClosedIs DEF ScanFails
    <2> QED BY <1>8, <2>1 DEF ScanFails, HistoryTyped
  <1>9. CASE ScanDies
    BY <1>9 DEF ScanDies, HistoryTyped
  <1>10. CASE PrunesHistory
    <2>1. DOMAIN history' \subseteq Nat \ {0} /\ IsFiniteSet(DOMAIN history') /\ history' \in [DOMAIN history' -> ChangeType]
      BY <1>10, PruneIs, ZenonT(40) DEF PrunesHistory
    <2>2. pruned' \subseteq Members
      BY <1>10 DEF PrunesHistory, HistoryTyped
    <2>3. UNCHANGED <<onMember, rowOf, catalogRuns, catalogScan, keptStats, rollUp, massGone, cutShort, runsBegun, edits>>
      BY <1>10 DEF PrunesHistory
    <2> QED BY <2>1, <2>2, <2>3 DEF HistoryTyped
  <1>11. ASSUME NEW m \in Members, NEW f \in PoolFiles, DiskChanges(m, f) PROVE HistoryTyped'
    <2>1. PICK stamp \in 0..2 : onMember' = [onMember EXCEPT ![m][f] = stamp]
      BY <1>11 DEF DiskChanges
    <2> QED BY <1>11, <2>1 DEF DiskChanges, HistoryTyped
  <1>12. CASE UNCHANGED historyVars
    BY <1>12 DEF historyVars, HistoryTyped
  <1> QED BY <1>1, <1>2, <1>3, <1>4, <1>5, <1>6, <1>7, <1>8, <1>9, <1>10, <1>11, <1>12, NextIs

-----------------------------------------------------------------------------
(* The runs and the log.                                                   *)

LEMMA RunsKeptBy ==
  ASSUME UNCHANGED <<catalogRuns, runsBegun>>, RunsInOrder,
         \/ UNCHANGED <<catalogScan.pc, catalogScan.member, catalogScan.run>>
         \/ catalogScan'.pc = "off"
         \/ catalogScan.pc # "off" /\ UNCHANGED <<catalogScan.member, catalogScan.run>>
  PROVE  RunsInOrder'
  BY DEF RunsInOrder, LastRun, HasRun

LEMMA RunsKept == ASSUME HistoryTyped, RunsInOrder, [NextHistory]_historyVars PROVE RunsInOrder'
  <1> USE ScanIs
  <1>1. ASSUME NEW m \in Members, ScanBegins(m) PROVE RunsInOrder'
    <2>1. ASSUME NEW i \in DOMAIN catalogRuns[m], catalogRuns[m][i].state = "running",
                 catalogScan' = [NoScan EXCEPT !.member = m, !.run = catalogRuns[m][i].id, !.pc = "walk"],
                 UNCHANGED <<catalogRuns, runsBegun>>
          PROVE RunsInOrder'
      <3>1. i = Len(catalogRuns[m]) /\ HasRun(m)
        BY <2>1 DEF RunsInOrder, HasRun
      <3>2. catalogScan'.member = m /\ catalogScan'.run = catalogRuns[m][i].id
        BY <2>1 DEF NoScan
      <3> QED BY <2>1, <3>1, <3>2 DEF RunsInOrder, LastRun, HasRun
    <2>2. ASSUME \A i \in DOMAIN catalogRuns[m] : catalogRuns[m][i].state # "running",
                 runsBegun < MaxCatalogRuns, runsBegun' = runsBegun + 1,
                 catalogRuns' = [catalogRuns EXCEPT ![m] = Append(@, [id |-> runsBegun + 1, state |-> "running"])],
                 catalogScan' = [NoScan EXCEPT !.member = m, !.run = runsBegun + 1, !.pc = "walk"]
          PROVE RunsInOrder'
      <3>1. /\ \A n \in Members \ {m} : catalogRuns'[n] = catalogRuns[n]
            /\ DOMAIN catalogRuns'[m] = DOMAIN catalogRuns[m] \cup {Len(catalogRuns[m]) + 1}
            /\ Len(catalogRuns'[m]) = Len(catalogRuns[m]) + 1
            /\ \A i \in DOMAIN catalogRuns[m] : catalogRuns'[m][i] = catalogRuns[m][i] /\ i < Len(catalogRuns'[m])
            /\ LastRun(m)'.id = runsBegun + 1 /\ LastRun(m)'.state = "running"
            /\ catalogRuns' \in [Members -> Seq(RunType)]
        BY <2>2, BegunIs
      <3>2. PICK l \in Nat \ {0} : l = Len(catalogRuns[m]) + 1 /\ l = Len(catalogRuns'[m])
        BY <3>1 DEF HistoryTyped
      <3>3. catalogRuns'[m][l].id = runsBegun + 1 /\ catalogRuns'[m][l].state = "running" /\ l \in DOMAIN catalogRuns'[m]
        BY <3>1, <3>2 DEF LastRun
      <3>4. \A n \in Members : \A i \in DOMAIN catalogRuns[n] : catalogRuns[n][i].id \in Nat /\ catalogRuns[n][i].id < runsBegun + 1
        <4> TAKE n \in Members
        <4> TAKE i \in DOMAIN catalogRuns[n]
        <4>1. catalogRuns[n][i] \in RunType /\ runsBegun \in Nat
          BY HistoryAssumption DEF HistoryTyped
        <4>2. catalogRuns[n][i].id \in Nat /\ catalogRuns[n][i].id <= runsBegun
          BY <4>1, HistoryAssumption DEF RunType, RunsInOrder
        <4> QED BY <4>1, <4>2
      <3>5. ASSUME NEW n \in Members, NEW i \in DOMAIN catalogRuns'[n]
            PROVE  \/ n = m /\ i = l /\ catalogRuns'[n][i].id = runsBegun + 1
                   \/ /\ i \in DOMAIN catalogRuns[n] /\ catalogRuns'[n][i] = catalogRuns[n][i]
                      /\ (n = m => i < l /\ i \in Nat) /\ (n # m => catalogRuns'[n] = catalogRuns[n])
        <4>1. CASE n # m
          BY <4>1, <3>1
        <4>2. CASE n = m
          <5>1. CASE i = l
            BY <4>2, <5>1, <3>3
          <5>2. CASE i # l
            <6>1. i \in DOMAIN catalogRuns[m]
              BY <4>2, <5>2, <3>1, <3>2
            <6>2. i \in Nat
              BY <6>1 DEF HistoryTyped
            <6> QED BY <4>2, <6>1, <6>2, <3>1, <3>2
          <5> QED BY <5>1, <5>2
        <4> QED BY <4>1, <4>2
      <3>6. runsBegun \in Nat
        BY HistoryAssumption DEF HistoryTyped
      <3>7. ASSUME NEW n \in Members, NEW i \in DOMAIN catalogRuns'[n]
            PROVE /\ catalogRuns'[n][i].id <= runsBegun'
                  /\ catalogRuns'[n][i].state = "running" => i = Len(catalogRuns'[n])
                  /\ \A j \in DOMAIN catalogRuns'[n] : i < j => catalogRuns'[n][i].id < catalogRuns'[n][j].id
                  /\ \A k \in Members \ {n} : \A j \in DOMAIN catalogRuns'[k] : catalogRuns'[n][i].id # catalogRuns'[k][j].id
        <4>1. catalogRuns'[n][i].id <= runsBegun'
          BY <2>2, <3>4, <3>5, <3>6
        <4>2. catalogRuns'[n][i].state = "running" => i = Len(catalogRuns'[n])
          <5>1. CASE n = m /\ i = l
            BY <5>1, <3>2
          <5>2. CASE ~(n = m /\ i = l)
            BY <5>2, <3>5, <2>2 DEF RunsInOrder
          <5> QED BY <5>1, <5>2
        <4>3. ASSUME NEW j \in DOMAIN catalogRuns'[n], i < j PROVE catalogRuns'[n][i].id < catalogRuns'[n][j].id
          <5>1. ~(n = m /\ i = l)
            <6>1. CASE n = m /\ i = l
              <7>1. j \in DOMAIN catalogRuns'[n] /\ (j = l \/ (j < l /\ j \in Nat))
                BY <6>1, <4>3, <3>5
              <7> QED BY <6>1, <7>1, <4>3
            <6> QED BY <6>1
          <5>2. i \in DOMAIN catalogRuns[n] /\ catalogRuns'[n][i] = catalogRuns[n][i]
            BY <5>1, <3>5
          <5>3. CASE n = m /\ j = l
            BY <5>2, <5>3, <3>3, <3>4
          <5>4. CASE ~(n = m /\ j = l)
            <6>1. j \in DOMAIN catalogRuns[n] /\ catalogRuns'[n][j] = catalogRuns[n][j]
              BY <5>4, <3>5
            <6> QED BY <5>2, <6>1, <4>3 DEF RunsInOrder
          <5> QED BY <5>3, <5>4
        <4>4. ASSUME NEW k \in Members \ {n}, NEW j \in DOMAIN catalogRuns'[k] PROVE catalogRuns'[n][i].id # catalogRuns'[k][j].id
          <5>1. CASE n = m /\ i = l
            <6>1. j \in DOMAIN catalogRuns[k] /\ catalogRuns'[k][j] = catalogRuns[k][j]
              BY <5>1, <3>1
            <6> QED BY <5>1, <6>1, <3>3, <3>4, <3>6
          <5>2. CASE k = m /\ j = l
            <6>1. i \in DOMAIN catalogRuns[n] /\ catalogRuns'[n][i] = catalogRuns[n][i]
              BY <5>2, <3>1
            <6> QED BY <5>2, <6>1, <3>3, <3>4, <3>6
          <5>3. CASE ~(n = m /\ i = l) /\ ~(k = m /\ j = l)
            <6>1. /\ i \in DOMAIN catalogRuns[n] /\ catalogRuns'[n][i] = catalogRuns[n][i]
                  /\ j \in DOMAIN catalogRuns[k] /\ catalogRuns'[k][j] = catalogRuns[k][j]
              BY <5>3, <3>5
            <6> QED BY <6>1 DEF RunsInOrder
          <5> QED BY <5>1, <5>2, <5>3
        <4> QED BY <4>1, <4>2, <4>3, <4>4
      <3>8. catalogScan'.member = m /\ catalogScan'.run = runsBegun + 1
        BY <2>2 DEF NoScan
      <3>9. HasRun(m)'
        BY <3>3 DEF HasRun
      <3> QED BY <3>1, <3>7, <3>8, <3>9 DEF RunsInOrder
    <2> QED BY <1>1, <2>1, <2>2 DEF ScanBegins
  <1>2. ASSUME NEW m \in Members, PurgesRoot(m) PROVE RunsInOrder'
    <2>1. catalogRuns' = [catalogRuns EXCEPT ![m] = <<>>] /\ UNCHANGED <<catalogScan, runsBegun>> /\ catalogScan.pc = "off"
      BY <1>2 DEF PurgesRoot
    <2>2. \A n \in Members : \A i \in DOMAIN catalogRuns'[n] : n # m
      BY <2>1 DEF HistoryTyped
    <2>3. \A n \in Members : n # m => catalogRuns'[n] = catalogRuns[n]
      BY <2>1 DEF HistoryTyped
    <2> QED BY <2>1, <2>2, <2>3 DEF RunsInOrder
  <1>3. ASSUME catalogScan.pc # "off", catalogScan'.pc = "off", UNCHANGED runsBegun, NEW state \in {"completed", "failed"},
               catalogRuns' = Closed(catalogScan.member, state)
        PROVE  RunsInOrder'
    <2> DEFINE m == catalogScan.member
    <2>1. /\ \A n \in Members \ {m} : catalogRuns'[n] = catalogRuns[n]
          /\ DOMAIN catalogRuns'[m] = DOMAIN catalogRuns[m] /\ Len(catalogRuns'[m]) = Len(catalogRuns[m])
          /\ \A i \in DOMAIN catalogRuns[m] : catalogRuns'[m][i].id = catalogRuns[m][i].id
          /\ \A i \in DOMAIN catalogRuns[m] : catalogRuns'[m][i].state =
               IF i = Len(catalogRuns[m]) THEN state ELSE catalogRuns[m][i].state
      BY <1>3, ClosedIs
    <2>2. ASSUME NEW n \in Members
          PROVE  /\ DOMAIN catalogRuns'[n] = DOMAIN catalogRuns[n] /\ Len(catalogRuns'[n]) = Len(catalogRuns[n])
                 /\ \A i \in DOMAIN catalogRuns[n] :
                      /\ catalogRuns'[n][i].id = catalogRuns[n][i].id
                      /\ catalogRuns'[n][i].state = "running" => catalogRuns[n][i].state = "running"
      <3>1. CASE n # m
        <4> HIDE DEF m
        <4> QED BY <2>1, <3>1
      <3>2. CASE n = m
        <4> HIDE DEF m
        <4> QED BY <2>1, <3>2
      <3> QED BY <3>1, <3>2
    <2> QED BY <1>3, <2>2 DEF RunsInOrder
  <1>4. ASSUME NEW f \in PoolFiles, RecordsFile(f) \/ SweepsFile(f) PROVE RunsInOrder'
    <2>1. UNCHANGED <<catalogScan.pc, catalogScan.member, catalogScan.run>>
      BY <1>4 DEF RecordsFile, SweepsFile, HistoryTyped, ScanType
    <2> QED BY <1>4, <2>1, RunsKeptBy DEF RecordsFile, SweepsFile
  <1>5. CASE WalkEnds
    <2>1. catalogScan.pc # "off" /\ UNCHANGED <<catalogScan.member, catalogScan.run>>
      BY <1>5 DEF WalkEnds, HistoryTyped, ScanType
    <2> QED BY <1>5, <2>1, RunsKeptBy DEF WalkEnds
  <1>6. CASE ScanFinishes \/ ScanFails
    BY <1>3, <1>6 DEF ScanFinishes, ScanFails
  <1>7. CASE ScanDies
    BY <1>7, RunsKeptBy DEF ScanDies
  <1>8. CASE UNCHANGED <<catalogRuns, runsBegun, catalogScan>>
    BY <1>8, RunsKeptBy
  <1>9. CASE PrunesHistory \/ UNCHANGED historyVars \/ \E m \in Members : ReadsStats(m) \/ \E f \in PoolFiles : DiskChanges(m, f)
    BY <1>8, <1>9 DEF PrunesHistory, historyVars, ReadsStats, DiskChanges
  <1> QED BY <1>1, <1>2, <1>4, <1>5, <1>6, <1>7, <1>9, NextIs

(* The log is in the order of the runs, each change of a run of its member. *)
LEMMA LogKept ==
  ASSUME HistoryTyped, RunsInOrder, ChangesHaveRuns, [NextHistory]_historyVars
  PROVE  ChangesHaveRuns'
  <1> USE ScanIs
  <1>1. ASSUME UNCHANGED history,
               \A n \in Members : \A k \in DOMAIN catalogRuns[n] : k \in DOMAIN catalogRuns'[n] /\ catalogRuns'[n][k].id = catalogRuns[n][k].id
        PROVE  ChangesHaveRuns'
    <2>1. \A i \in DOMAIN history : history[i].member \in Members
      BY DEF HistoryTyped, ChangeType
    <2>2. ASSUME NEW i \in DOMAIN history PROVE \E k \in DOMAIN catalogRuns'[history[i].member] : catalogRuns'[history[i].member][k].id = history[i].run
      BY <1>1, <2>1 DEF ChangesHaveRuns
    <2>3. ASSUME NEW i \in DOMAIN history, NEW j \in DOMAIN history, history[i].member = history[j].member, i < j
          PROVE  history[i].run <= history[j].run
      BY <2>3 DEF ChangesHaveRuns
    <2> QED BY <1>1, <2>2, <2>3 DEF ChangesHaveRuns
  <1>2. ASSUME NEW f \in PoolFiles, WritesOf(catalogScan.member, f), UNCHANGED catalogRuns, catalogScan.pc # "off"
        PROVE  ChangesHaveRuns'
    <2> DEFINE m == catalogScan.member
    <2>1. m \in Members /\ HasRun(m) /\ LastRun(m).id = catalogScan.run
      BY <1>2, ScanHasRun
    <2>2. \/ history' = history
          \/ /\ DOMAIN history' = DOMAIN history \cup {NextId} /\ \A i \in DOMAIN history : history'[i] = history[i]
             /\ history'[NextId].member = m /\ history'[NextId].file = f /\ history'[NextId].run = catalogScan.run
      BY <1>2, <2>1, WriteIs
    <2>3. CASE history' = history
      BY <1>1, <1>2, <2>3
    <2>4. CASE /\ DOMAIN history' = DOMAIN history \cup {NextId} /\ \A i \in DOMAIN history : history'[i] = history[i]
               /\ history'[NextId].member = m /\ history'[NextId].file = f /\ history'[NextId].run = catalogScan.run
      <3>1. NextId \in Nat /\ \A i \in DOMAIN history : i < NextId /\ i # NextId /\ i \in Nat
        BY NextIdIs DEF HistoryTyped
      <3>2. \A i \in DOMAIN history : history[i].member = m => history[i].run <= catalogScan.run
        <4> TAKE i \in DOMAIN history
        <4> HAVE history[i].member = m
        <4>1. PICK k \in DOMAIN catalogRuns[m] : catalogRuns[m][k].id = history[i].run
          BY DEF ChangesHaveRuns
        <4>2. k = Len(catalogRuns[m]) \/ catalogRuns[m][k].id < catalogRuns[m][Len(catalogRuns[m])].id
          BY <2>1, LastRunIs DEF RunsInOrder
        <4>3. history[i].run \in Nat /\ catalogScan.run \in Nat
          BY HistoryAssumption DEF HistoryTyped, ChangeType
        <4> QED BY <2>1, <4>1, <4>2, <4>3 DEF LastRun
      <3>3. catalogScan.run = catalogRuns[m][Len(catalogRuns[m])].id /\ Len(catalogRuns[m]) \in DOMAIN catalogRuns[m]
        BY <2>1, LastRunIs DEF LastRun
      <3> HIDE DEF m
      <3>4. PICK z : z = NextId
        OBVIOUS
      <3>5. ASSUME NEW i \in DOMAIN history'
            PROVE \E k \in DOMAIN catalogRuns'[history'[i].member] : catalogRuns'[history'[i].member][k].id = history'[i].run
        <4>1. CASE i \in DOMAIN history
          BY <4>1, <1>2, <2>4 DEF ChangesHaveRuns
        <4>2. CASE i = z
          BY <4>2, <3>4, <1>2, <2>4, <3>3
        <4> QED BY <2>4, <3>4, <4>1, <4>2
      <3>6. ASSUME NEW i \in DOMAIN history', NEW j \in DOMAIN history', history'[i].member = history'[j].member, i < j
            PROVE  history'[i].run <= history'[j].run
        <4>1. i \in DOMAIN history
          BY <2>4, <3>1, <3>6
        <4>2. CASE j \in DOMAIN history
          BY <4>1, <4>2, <2>4, <3>6 DEF ChangesHaveRuns
        <4>3. CASE j = z
          BY <4>1, <4>3, <3>4, <2>4, <3>2, <3>6
        <4> QED BY <2>4, <3>4, <4>2, <4>3
      <3> QED BY <3>5, <3>6 DEF ChangesHaveRuns
    <2> QED BY <2>2, <2>3, <2>4
  <1>3. ASSUME NEW f \in PoolFiles, RecordsFile(f) \/ SweepsFile(f) PROVE ChangesHaveRuns'
    <2>1. UNCHANGED catalogRuns /\ catalogScan.pc # "off"
      BY <1>3 DEF RecordsFile, SweepsFile
    <2>2. UNCHANGED history \/ WritesOf(catalogScan.member, f)
      BY <1>3, RecordWrites, SweepWrites
    <2> QED BY <1>1, <1>2, <2>1, <2>2
  <1>4. ASSUME NEW m \in Members, ScanBegins(m) PROVE ChangesHaveRuns'
    <2>1. UNCHANGED history
      BY <1>4 DEF ScanBegins
    <2>2. CASE UNCHANGED catalogRuns
      BY <1>1, <2>1, <2>2
    <2>3. CASE runsBegun < MaxCatalogRuns /\ catalogRuns' = [catalogRuns EXCEPT ![m] = Append(@, [id |-> runsBegun + 1, state |-> "running"])]
      <3>1. /\ \A n \in Members \ {m} : catalogRuns'[n] = catalogRuns[n]
            /\ DOMAIN catalogRuns'[m] = DOMAIN catalogRuns[m] \cup {Len(catalogRuns[m]) + 1}
            /\ \A i \in DOMAIN catalogRuns[m] : catalogRuns'[m][i] = catalogRuns[m][i]
        BY <2>3, BegunIs
      <3> QED BY <1>1, <2>1, <3>1
    <2> QED BY <1>4, <2>2, <2>3 DEF ScanBegins
  <1>5. CASE ScanFinishes \/ ScanFails
    <2>1. PICK state \in {"completed", "failed"} : catalogRuns' = Closed(catalogScan.member, state)
      BY <1>5 DEF ScanFinishes, ScanFails
    <2>2. UNCHANGED history /\ catalogScan.pc # "off"
      BY <1>5 DEF ScanFinishes, ScanFails
    <2> DEFINE m == catalogScan.member
    <2>3. /\ \A n \in Members \ {m} : catalogRuns'[n] = catalogRuns[n]
          /\ DOMAIN catalogRuns'[m] = DOMAIN catalogRuns[m]
          /\ \A i \in DOMAIN catalogRuns[m] : catalogRuns'[m][i].id = catalogRuns[m][i].id
      BY <2>1, <2>2, ClosedIs
    <2> HIDE DEF m
    <2> QED BY <1>1, <2>2, <2>3
  <1>6. ASSUME NEW ids \in SUBSET DOMAIN history, history' = Restrict(history, ids),
               \A i \in ids : catalogRuns'[history[i].member] = catalogRuns[history[i].member]
        PROVE  ChangesHaveRuns'
    <2>1. DOMAIN history' = ids /\ \A i \in ids : history'[i] = history[i]
      BY <1>6, PruneIs
    <2> QED BY <1>6, <2>1 DEF ChangesHaveRuns
  <1>7. ASSUME NEW m \in Members, PurgesRoot(m) PROVE ChangesHaveRuns'
    <2> DEFINE ids == {i \in DOMAIN history : history[i].member # m}
    <2>1. history' = Restrict(history, ids) /\ catalogRuns' = [catalogRuns EXCEPT ![m] = <<>>]
      BY <1>7 DEF PurgesRoot
    <2>2. \A i \in ids : history[i].member \in Members \ {m}
      BY DEF HistoryTyped, ChangeType
    <2>3. \A i \in ids : catalogRuns'[history[i].member] = catalogRuns[history[i].member]
      BY <2>1, <2>2 DEF HistoryTyped
    <2> HIDE DEF ids
    <2>4. ids \in SUBSET DOMAIN history
      BY DEF ids
    <2> QED BY <1>6, <2>1, <2>3, <2>4
  <1>8. CASE PrunesHistory
    <2>1. UNCHANGED catalogRuns /\ \E ids \in SUBSET DOMAIN history : history' = Restrict(history, ids)
      BY <1>8 DEF PrunesHistory
    <2> QED BY <1>6, <2>1
  <1>9. CASE UNCHANGED <<catalogRuns, history>>
    BY <1>1, <1>9
  <1>10. CASE WalkEnds \/ ScanDies \/ UNCHANGED historyVars \/ \E m \in Members : ReadsStats(m) \/ \E f \in PoolFiles : DiskChanges(m, f)
    BY <1>9, <1>10 DEF WalkEnds, ScanDies, historyVars, ReadsStats, DiskChanges
  <1> QED BY <1>3, <1>4, <1>5, <1>7, <1>8, <1>10, NextIs

-----------------------------------------------------------------------------
(* The story of a file.                                                    *)

LEMMA StoryFrame ==
  ASSUME NEW m, NEW f, FileStory(m, f), rowOf'[m][f] = rowOf[m][f], m \in pruned => m \in pruned',
         ChangesShown(m, f)' = ChangesShown(m, f), \A i \in ChangesShown(m, f) : history'[i] = history[i]
  PROVE  FileStory(m, f)'
  <1> DEFINE told == ChangesShown(m, f)
  <1>1. /\ told = {} => m \in pruned \/ rowOf[m][f] = NoRow
        /\ \A i \in told : (\A j \in told : j <= i) => EndsAsTheRow(history[i], rowOf[m][f])
        /\ \A i, j \in told : i < j /\ (\A k \in told : k <= i \/ j <= k) => Follows(history[j], history[i])
        /\ rowOf[m][f].state = "none" => rowOf[m][f] = NoRow /\ told = {}
    BY DEF FileStory, StoryHolds
  <1>2. ChangesShown(m, f)' = told /\ \A i \in told : history'[i] = history[i]
    OBVIOUS
  <1> HIDE DEF told
  <1>3. /\ told = {} => m \in pruned' \/ rowOf'[m][f] = NoRow
        /\ \A i \in told : (\A j \in told : j <= i) => EndsAsTheRow(history'[i], rowOf'[m][f])
        /\ \A i, j \in told : i < j /\ (\A k \in told : k <= i \/ j <= k) => Follows(history'[j], history'[i])
        /\ rowOf'[m][f].state = "none" => rowOf'[m][f] = NoRow /\ told = {}
    BY <1>1, <1>2
  <1>4. StoryHolds(m, f)'
    BY <1>2, <1>3 DEF StoryHolds
  <1> QED BY <1>2, <1>3, <1>4 DEF FileStory

(* A change that is logged goes on from where the row stood.               *)
LEMMA StoryGoesOn ==
  ASSUME HistoryTyped, NEW m \in Members, NEW f \in PoolFiles, FileStory(m, f), UNCHANGED pruned, NEW change,
         history' = Logged(change), change.member = m, change.file = f,
         rowOf'[m][f].state # "none", EndsAsTheRow(change, rowOf'[m][f]),
         \A i \in ChangesShown(m, f) : change.run >= history[i].run,
         rowOf[m][f].state = "none" \/ \A earlier : EndsAsTheRow(earlier, rowOf[m][f]) /\ change.run >= earlier.run => Follows(change, earlier)
  PROVE  FileStory(m, f)'
  <1> DEFINE told == ChangesShown(m, f)
  <1>1. PICK n : n = NextId
    OBVIOUS
  <1>2. /\ DOMAIN history' = DOMAIN history \cup {n} /\ history'[n] = change
        /\ \A i \in DOMAIN history : history'[i] = history[i] /\ i < n /\ i # n /\ i \in Nat
        /\ n \in Nat
    BY <1>1, LoggedIs, NextIdIs DEF HistoryTyped
  <1>3. ChangesShown(m, f)' = told \cup {n}
    BY <1>2 DEF ChangesShown
  <1>4. told \subseteq DOMAIN history
    BY DEF ChangesShown
  <1>5. \A i \in told : history'[i] = history[i] /\ i < n /\ i # n /\ i \in Nat /\ ~(n <= i) /\ ~(n < i) /\ change.run >= history[i].run
    BY <1>2, <1>4
  <1>6. /\ \A i \in told : (\A j \in told : j <= i) => EndsAsTheRow(history[i], rowOf[m][f])
        /\ \A i, j \in told : i < j /\ (\A k \in told : k <= i \/ j <= k) => Follows(history[j], history[i])
        /\ rowOf[m][f].state = "none" => told = {}
    BY DEF FileStory, StoryHolds
  <1> HIDE DEF told
  <1>7. ASSUME NEW i \in told \cup {n}, \A j \in told \cup {n} : j <= i PROVE EndsAsTheRow(history'[i], rowOf'[m][f])
    <2>1. i = n
      BY <1>5, <1>7
    <2> QED BY <2>1, <1>2
  <1>8. ASSUME NEW i \in told \cup {n}, NEW j \in told \cup {n}, i < j, \A k \in told \cup {n} : k <= i \/ j <= k
        PROVE  Follows(history'[j], history'[i])
    <2>1. i \in told
      BY <1>2, <1>5, <1>8
    <2>2. CASE j \in told
      BY <2>1, <2>2, <1>5, <1>6, <1>8
    <2>3. CASE j = n
      <3>1. \A k \in told : k <= i
        BY <2>3, <1>5, <1>8
      <3>2. EndsAsTheRow(history[i], rowOf[m][f]) /\ change.run >= history[i].run
        BY <2>1, <3>1, <1>5, <1>6
      <3> QED BY <2>1, <2>3, <3>2, <1>2, <1>5, <1>6
    <2> QED BY <2>2, <2>3
  <1>9. StoryHolds(m, f)'
    BY <1>3, <1>7, <1>8 DEF StoryHolds
  <1> QED BY <1>9 DEF FileStory

(* An unchanged file is seen again.                                        *)
LEMMA StoryStays ==
  ASSUME HistoryTyped, NEW m \in Members, NEW f \in PoolFiles, FileStory(m, f), UNCHANGED <<history, pruned>>,
         rowOf[m][f].state = "live", rowOf'[m][f].state = "live", rowOf'[m][f].stamp = rowOf[m][f].stamp
  PROVE  FileStory(m, f)'
  <1>1. ChangesShown(m, f)' = ChangesShown(m, f)
    BY DEF ChangesShown
  <1>2. rowOf[m][f] # NoRow
    BY DEF NoRow
  <1>3. \A change : EndsAsTheRow(change, rowOf[m][f]) => EndsAsTheRow(change, rowOf'[m][f])
    BY DEF EndsAsTheRow
  <1>4. StoryHolds(m, f)'
    BY <1>1, <1>2, <1>3 DEF FileStory, StoryHolds
  <1> QED BY <1>4 DEF FileStory

LEMMA OthersStories ==
  ASSUME HistoryTyped, RunsInOrder, NEW m \in Members, NEW f \in PoolFiles, WritesOf(m, f), UNCHANGED pruned,
         m = catalogScan.member, catalogScan.pc # "off",
         NEW n \in Members, NEW g \in PoolFiles, n # m \/ g # f, FileStory(n, g)
  PROVE  FileStory(n, g)'
  <1>1. /\ rowOf'[n][g] = rowOf[n][g]
        /\ \/ history' = history
           \/ /\ DOMAIN history' = DOMAIN history \cup {NextId} /\ \A i \in DOMAIN history : history'[i] = history[i]
              /\ history'[NextId].member = m /\ history'[NextId].file = f
    <2>1. \A k \in Members, h \in PoolFiles : k # m \/ h # f => rowOf'[k][h] = rowOf[k][h]
      BY WriteIs
    <2>2. \/ history' = history
          \/ /\ DOMAIN history' = DOMAIN history \cup {NextId} /\ \A i \in DOMAIN history : history'[i] = history[i]
             /\ history'[NextId].member = m /\ history'[NextId].file = f
      BY WriteIs
    <2>3. rowOf'[n][g] = rowOf[n][g]
      BY <2>1
    <2> QED BY <2>2, <2>3
  <1>2. ChangesShown(n, g)' = ChangesShown(n, g) /\ \A i \in ChangesShown(n, g) : history'[i] = history[i]
    <2>1. CASE history' = history
      BY <2>1 DEF ChangesShown
    <2>2. PICK z : z = NextId
      OBVIOUS
    <2>3. CASE /\ DOMAIN history' = DOMAIN history \cup {z} /\ \A i \in DOMAIN history : history'[i] = history[i]
               /\ history'[z].member = m /\ history'[z].file = f
      <3>1. \A i : i \in ChangesShown(n, g)' <=> i \in ChangesShown(n, g)
        <4>1. NextId \notin DOMAIN history
          BY NextIdIs DEF HistoryTyped
        <4> QED BY <4>1, <2>2, <2>3 DEF ChangesShown
      <3>2. ChangesShown(n, g)' = ChangesShown(n, g)
        <4>1. ChangesShown(n, g)' \subseteq DOMAIN history' /\ ChangesShown(n, g) \subseteq DOMAIN history
          BY DEF ChangesShown
        <4> QED BY <3>1
      <3> QED BY <3>2, <2>3 DEF ChangesShown
    <2> QED BY <1>1, <2>1, <2>2, <2>3
  <1> QED BY <1>1, <1>2, StoryFrame

(* The run of a scan is not before any that wrote of the member.            *)
LEMMA RunIsNew ==
  ASSUME HistoryTyped, RunsInOrder, ChangesHaveRuns, catalogScan.pc # "off", NEW f
  PROVE  \A i \in ChangesShown(catalogScan.member, f) : catalogScan.run >= history[i].run
  <1> DEFINE m == catalogScan.member
  <1>1. m \in Members /\ HasRun(m) /\ LastRun(m).id = catalogScan.run
    BY ScanHasRun
  <1> TAKE i \in ChangesShown(m, f)
  <1>2. i \in DOMAIN history /\ history[i].member = m
    BY DEF ChangesShown
  <1>3. PICK k \in DOMAIN catalogRuns[m] : catalogRuns[m][k].id = history[i].run
    BY <1>2 DEF ChangesHaveRuns
  <1>4. k = Len(catalogRuns[m]) \/ catalogRuns[m][k].id < catalogRuns[m][Len(catalogRuns[m])].id
    BY <1>1, LastRunIs DEF RunsInOrder
  <1>5. history[i].run \in Nat /\ catalogScan.run \in Nat
    <2>1. history[i] \in ChangeType
      BY <1>2 DEF HistoryTyped
    <2>2. history[i].run \in 1..MaxCatalogRuns /\ catalogScan.run \in 0..MaxCatalogRuns
      BY <2>1, ScanIs DEF ChangeType
    <2> QED BY <2>2, HistoryAssumption
  <1>6. PICK last, its : last = catalogRuns[m][Len(catalogRuns[m])].id /\ its = catalogRuns[m][k].id
    OBVIOUS
  <1>7. last = catalogScan.run /\ its = history[i].run /\ (its = last \/ its < last)
    BY <1>1, <1>3, <1>4, <1>6 DEF LastRun
  <1> QED BY <1>5, <1>7

LEMMA RecordsRow ==
  ASSUME HistoryTyped, RunsInOrder, ChangesHaveRuns, NEW m \in Members, NEW f \in PoolFiles, m = catalogScan.member,
         catalogScan.pc # "off", FileStory(m, f), UNCHANGED pruned, NEW stamp, WriteRow(m, f, stamp)
  PROVE  FileStory(m, f)'
  <1>1. rowOf'[m][f].state = "live" /\ rowOf'[m][f].stamp = stamp
    <2> DEFINE row == [state |-> "live", stamp |-> stamp, run |-> catalogScan.run]
    <2>1. rowOf' = [rowOf EXCEPT ![m][f] = row]
      BY DEF WriteRow
    <2>2. row.state = "live" /\ row.stamp = stamp
      OBVIOUS
    <2> HIDE DEF row
    <2> QED BY <2>1, <2>2 DEF HistoryTyped
  <1>2. PICK old : old = rowOf[m][f]
    OBVIOUS
  <1>3. ASSUME NEW kind \in {"created", "modified", "restored"}, history' = Logged(ChangeOf(m, f, kind, stamp, old.stamp)),
               \/ kind = "created" /\ old.state = "none"
               \/ kind = "restored" /\ old.state = "deleted"
               \/ kind = "modified" /\ old.state = "live"
        PROVE  FileStory(m, f)'
    <2> DEFINE change == ChangeOf(m, f, kind, stamp, old.stamp)
    <2>1. /\ change.member = m /\ change.file = f /\ change.run = catalogScan.run /\ change.kind = kind
          /\ change.new = stamp /\ change.old = old.stamp
      BY DEF ChangeOf
    <2>2. history' = Logged(change)
      BY <1>3
    <2> HIDE DEF change
    <2>3. EndsAsTheRow(change, rowOf'[m][f])
      BY <1>1, <1>3, <2>1 DEF EndsAsTheRow
    <2>4. old.state = "none" \/ \A earlier : EndsAsTheRow(earlier, old) /\ change.run >= earlier.run => Follows(change, earlier)
      <3>1. CASE kind = "restored" /\ old.state = "deleted"
        BY <2>1, <3>1 DEF EndsAsTheRow, Follows
      <3>2. CASE kind = "modified" /\ old.state = "live"
        BY <2>1, <3>2 DEF EndsAsTheRow, Follows
      <3> QED BY <1>3, <3>1, <3>2
    <2>5. \A i \in ChangesShown(m, f) : change.run >= history[i].run
      BY <2>1, RunIsNew
    <2>6. rowOf'[m][f].state # "none"
      BY <1>1
    <2> QED BY <1>2, <2>1, <2>2, <2>3, <2>4, <2>5, <2>6, StoryGoesOn
  <1>4. old.state \in {"none", "live", "deleted"}
    BY <1>2, RowIs
  <1>5. CASE old.state = "none"
    <2>1. history' = Logged(ChangeOf(m, f, "created", stamp, old.stamp))
      BY <1>2, <1>5 DEF WriteRow
    <2> QED BY <1>3, <1>5, <2>1
  <1>6. CASE old.state = "deleted"
    <2>1. history' = Logged(ChangeOf(m, f, "restored", stamp, old.stamp))
      BY <1>2, <1>6 DEF WriteRow
    <2> QED BY <1>3, <1>6, <2>1
  <1>7. CASE old.state = "live" /\ old.stamp # stamp
    <2>1. history' = Logged(ChangeOf(m, f, "modified", stamp, old.stamp))
      BY <1>2, <1>7 DEF WriteRow
    <2> QED BY <1>3, <1>7, <2>1
  <1>8. CASE old.state = "live" /\ old.stamp = stamp
    <2>1. history' = history
      BY <1>2, <1>8 DEF WriteRow
    <2> QED BY <1>1, <1>2, <1>8, <2>1, StoryStays
  <1> QED BY <1>4, <1>5, <1>6, <1>7, <1>8

LEMMA RecordsStory ==
  ASSUME HistoryTyped, RunsInOrder, ChangesHaveRuns, NEW f \in PoolFiles, RecordsFile(f),
         NEW n \in Members, NEW g \in PoolFiles, FileStory(n, g)
  PROVE  FileStory(n, g)'
  <1> DEFINE m == catalogScan.member
  <1>1. catalogScan.pc # "off" /\ m \in Members /\ UNCHANGED pruned
    BY ScanHasRun DEF RecordsFile
  <1>2. CASE UNCHANGED <<rowOf, history>>
    BY <1>1, <1>2, StoryFrame DEF ChangesShown
  <1>3. CASE WritesOf(m, f) /\ (n # m \/ g # f)
    BY <1>1, <1>3, OthersStories
  <1>4. CASE n = m /\ g = f
    <2>1. WriteRow(m, f, onMember[m][f]) \/ UNCHANGED <<rowOf, history>>
      BY DEF RecordsFile
    <2> HIDE DEF m
    <2>2. CASE WriteRow(m, f, onMember[m][f])
      BY <1>1, <1>4, <2>2, RecordsRow DEF m
    <2> QED BY <1>2, <2>1, <2>2
  <1> QED BY <1>2, <1>3, <1>4, RecordWrites

(* A scan that begins changes the scan and its runs, no more.              *)
LEMMA BeginsFrame ==
  ASSUME NEW m, ScanBegins(m)
  PROVE  /\ UNCHANGED <<onMember, rowOf, history, keptStats, rollUp>> /\ UNCHANGED <<massGone, pruned, cutShort, edits>>
         /\ catalogScan.pc = "off" /\ catalogScan'.pc = "walk" /\ catalogScan'.member = m /\ catalogScan'.swept = 0
         /\ \/ UNCHANGED <<catalogRuns, runsBegun>>
            \/ /\ runsBegun < MaxCatalogRuns /\ runsBegun' = runsBegun + 1
               /\ catalogRuns' = [catalogRuns EXCEPT ![m] = Append(@, [id |-> runsBegun + 1, state |-> "running"])]
  <1>1. /\ UNCHANGED <<onMember, rowOf, history, keptStats, rollUp>> /\ UNCHANGED <<massGone, pruned, cutShort, edits>>
        /\ catalogScan.pc = "off"
        /\ \/ UNCHANGED <<catalogRuns, runsBegun>>
           \/ /\ runsBegun < MaxCatalogRuns /\ runsBegun' = runsBegun + 1
              /\ catalogRuns' = [catalogRuns EXCEPT ![m] = Append(@, [id |-> runsBegun + 1, state |-> "running"])]
    BY Zenon DEF ScanBegins
  <1>2. \E r : catalogScan' = [NoScan EXCEPT !.member = m, !.run = r, !.pc = "walk"]
    BY Zenon DEF ScanBegins
  <1>3. catalogScan'.pc = "walk" /\ catalogScan'.member = m /\ catalogScan'.swept = 0
    BY <1>2 DEF NoScan
  <1> QED BY <1>1, <1>3

LEMMA SweepsStory ==
  ASSUME HistoryTyped, RunsInOrder, ChangesHaveRuns, NEW f \in PoolFiles, SweepsFile(f),
         NEW n \in Members, NEW g \in PoolFiles, FileStory(n, g)
  PROVE  FileStory(n, g)'
  <1>1. PICK m \in Members : m = catalogScan.member /\ catalogScan.pc # "off"
    BY ScanHasRun DEF SweepsFile
  <1>2. UNCHANGED pruned /\ WritesOf(m, f)
    BY <1>1, SweepWrites DEF SweepsFile
  <1>3. CASE n # m \/ g # f
    BY <1>1, <1>2, <1>3, OthersStories
  <1>4. CASE n = m /\ g = f
    <2>1. PICK old : old = rowOf[m][f]
      OBVIOUS
    <2>2. old.state = "live"
      BY <1>1, <2>1 DEF SweepsFile, Unseen, LiveFiles
    <2>3. rowOf'[m][f].state = "deleted"
      BY <1>1, RowIs DEF SweepsFile, HistoryTyped, FileRowType
    <2> DEFINE change == ChangeOf(m, f, "deleted", 0, old.stamp)
    <2>4. /\ change.member = m /\ change.file = f /\ change.run = catalogScan.run /\ change.kind = "deleted"
          /\ change.old = old.stamp
      BY DEF ChangeOf
    <2>5. history' = Logged(change)
      BY <1>1, <2>1 DEF SweepsFile
    <2> HIDE DEF change
    <2>6. EndsAsTheRow(change, rowOf'[m][f]) /\ rowOf'[m][f].state # "none"
      BY <2>3, <2>4 DEF EndsAsTheRow
    <2>7. \A earlier : EndsAsTheRow(earlier, old) /\ change.run >= earlier.run => Follows(change, earlier)
      BY <2>2, <2>4 DEF EndsAsTheRow, Follows
    <2>8. \A i \in ChangesShown(m, f) : change.run >= history[i].run
      BY <1>1, <2>4, RunIsNew
    <2> QED BY <1>1, <1>2, <1>4, <2>1, <2>4, <2>5, <2>6, <2>7, <2>8, StoryGoesOn
  <1> QED BY <1>3, <1>4

(* What is pruned of a story is its beginning, and a story that is gone    *)
(* altogether is of a pruned member.                                       *)
LEMMA PrunesStory ==
  ASSUME HistoryTyped, RunsInOrder, ChangesHaveRuns, PrunesHistory,
         NEW n \in Members, NEW g \in PoolFiles, FileStory(n, g)
  PROVE  FileStory(n, g)'
  <1> DEFINE oldest(m) == catalogRuns[m][IF Len(catalogRuns[m]) > KeepRuns THEN Len(catalogRuns[m]) - KeepRuns + 1 ELSE 1].id
             stale(c) == c.run < oldest(c.member)
             ids == {i \in DOMAIN history : ~stale(history[i])}
             told == ChangesShown(n, g)
             kept == ChangesShown(n, g)'
  <1>1. /\ history' = Restrict(history, ids) /\ UNCHANGED rowOf
        /\ pruned' = pruned \cup {m \in Members : \E i \in DOMAIN history : stale(history[i]) /\ history[i].member = m}
    BY DEF PrunesHistory
  <1>2. PICK old : old = oldest(n)
    OBVIOUS
  <1>3. DOMAIN history \subseteq Nat /\ told \subseteq DOMAIN history /\ \A i \in told : history[i].member = n /\ history[i].run \in Nat
    BY HistoryAssumption DEF HistoryTyped, ChangesShown, ChangeType
  <1>4. \A i \in told : i \in ids <=> ~(history[i].run < old)
    BY <1>2, <1>3
  <1> HIDE DEF ids
  <1>5. ids \in SUBSET DOMAIN history
    BY DEF ids
  <1>6. DOMAIN history' = ids /\ \A i \in ids : history'[i] = history[i]
    BY <1>1, <1>5, PruneIs
  <1>7. kept = told \cap ids
    <2>1. kept = {i \in DOMAIN history' : history'[i].member = n /\ history'[i].file = g}
      BY DEF ChangesShown
    <2> QED BY <2>1, <1>5, <1>6 DEF ChangesShown
  <1> HIDE DEF told, kept
  <1>8. CASE told = {}
    <2>1. kept = told /\ \A i \in told : history'[i] = history[i]
      BY <1>7, <1>8
    <2>2. n \in pruned => n \in pruned'
      BY <1>1
    <2> QED BY <1>1, <2>1, <2>2, StoryFrame DEF told, kept
  <1>9. CASE told # {}
    <2>1. old \in Nat
      <3>1. catalogRuns[n] \in Seq(RunType)
        BY DEF HistoryTyped
      <3>2. PICK i \in told : i \in DOMAIN history /\ history[i].member = n
        BY <1>3, <1>9
      <3>3. PICK k \in DOMAIN catalogRuns[n] : TRUE
        BY <3>2 DEF ChangesHaveRuns
      <3>4. Len(catalogRuns[n]) \in Nat \ {0} /\ DOMAIN catalogRuns[n] = 1..Len(catalogRuns[n])
        BY <3>1, <3>3
      <3>5. PICK l : l = IF Len(catalogRuns[n]) > KeepRuns THEN Len(catalogRuns[n]) - KeepRuns + 1 ELSE 1
        OBVIOUS
      <3>6. l \in DOMAIN catalogRuns[n]
        BY <3>4, <3>5, HistoryAssumption
      <3>7. catalogRuns[n][l] \in RunType
        BY <3>1, <3>6
      <3>8. oldest(n) = catalogRuns[n][l].id
        BY <3>5
      <3> HIDE DEF oldest
      <3> QED BY <1>2, <3>7, <3>8, HistoryAssumption DEF RunType
    <2> HIDE DEF oldest
    <2>2. \A i, j \in told : i < j /\ i \in ids => j \in ids
      <3> TAKE i \in told, j \in told
      <3> HAVE i < j /\ i \in ids
      <3>1. history[i].run <= history[j].run
        BY <1>3 DEF ChangesHaveRuns
      <3> QED BY <1>3, <1>4, <2>1, <3>1
    <2>3. /\ told \in SUBSET Nat /\ \A i \in told : (\A j \in told : j <= i) => EndsAsTheRow(history[i], rowOf[n][g])
          /\ \A i, j \in told : i < j /\ (\A k \in told : k <= i \/ j <= k) => Follows(history[j], history[i])
          /\ rowOf[n][g].state # "none"
      BY <1>3, <1>9 DEF FileStory, StoryHolds, told
    <2>4. kept = {} => n \in pruned'
      BY <1>1, <1>2, <1>3, <1>4, <1>7, <1>9
    <2>5. ASSUME NEW i \in kept, \A j \in kept : j <= i PROVE EndsAsTheRow(history'[i], rowOf'[n][g])
      <3>1. \A j \in told : j <= i
        BY <1>7, <2>2, <2>3, <2>5
      <3> QED BY <1>1, <1>6, <1>7, <2>3, <2>5, <3>1
    <2>6. ASSUME NEW i \in kept, NEW j \in kept, i < j, \A k \in kept : k <= i \/ j <= k PROVE Follows(history'[j], history'[i])
      <3>1. \A k \in told : k <= i \/ j <= k
        <4> TAKE k \in told
        <4>1. i \in told /\ i \in ids /\ i \in Nat /\ k \in Nat /\ (k \in ids => k \in kept)
          BY <1>7, <2>3
        <4>2. i < k => k \in ids
          BY <2>2, <4>1
        <4> QED BY <2>6, <4>1, <4>2
      <3> QED BY <1>6, <1>7, <2>3, <2>6, <3>1
    <2>7. rowOf'[n][g].state # "none"
      BY <1>1, <2>3
    <2>8. StoryHolds(n, g)'
      BY <2>4, <2>5, <2>6 DEF StoryHolds, kept
    <2> QED BY <2>7, <2>8 DEF FileStory
  <1> QED BY <1>8, <1>9

LEMMA PurgesStory ==
  ASSUME HistoryTyped, NEW m \in Members, PurgesRoot(m), NEW n \in Members, NEW g \in PoolFiles, FileStory(n, g)
  PROVE  FileStory(n, g)'
  <1> DEFINE ids == {i \in DOMAIN history : history[i].member # m}
  <1>1. /\ history' = Restrict(history, ids) /\ pruned' = pruned \ {m}
        /\ rowOf' = [rowOf EXCEPT ![m] = [f \in PoolFiles |-> NoRow]]
    BY DEF PurgesRoot
  <1>2. ids \in SUBSET DOMAIN history
    OBVIOUS
  <1>3. \A i \in DOMAIN history : i \in ids <=> history[i].member # m
    OBVIOUS
  <1> HIDE DEF ids
  <1>4. DOMAIN history' = ids /\ \A i \in ids : history'[i] = history[i]
    BY <1>1, <1>2, PruneIs
  <1>5. CASE n = m
    <2>1. ChangesShown(n, g)' = {}
      BY <1>2, <1>3, <1>4, <1>5 DEF ChangesShown
    <2>2. rowOf'[n][g] = NoRow
      BY <1>1, <1>5 DEF HistoryTyped
    <2>3. StoryHolds(n, g)'
      BY <2>1, <2>2 DEF StoryHolds
    <2> QED BY <2>1, <2>2, <2>3 DEF FileStory
  <1>6. CASE n # m
    <2>1. rowOf'[n][g] = rowOf[n][g] /\ (n \in pruned => n \in pruned')
      BY <1>1, <1>6 DEF HistoryTyped
    <2>2. ChangesShown(n, g)' = ChangesShown(n, g) /\ \A i \in ChangesShown(n, g) : history'[i] = history[i]
      BY <1>2, <1>3, <1>4, <1>6 DEF ChangesShown
    <2> QED BY <2>1, <2>2, StoryFrame
  <1> QED BY <1>5, <1>6

LEMMA StoriesKept ==
  ASSUME HistoryTyped, RunsInOrder, ChangesHaveRuns, StoriesHold, [NextHistory]_historyVars
  PROVE  StoriesHold'
  <1> SUFFICES ASSUME NEW n \in Members, NEW g \in PoolFiles PROVE FileStory(n, g)'
    BY DEF StoriesHold
  <1>1. FileStory(n, g)
    BY DEF StoriesHold
  <1>2. CASE UNCHANGED <<rowOf, history, pruned>>
    BY <1>1, <1>2, StoryFrame DEF ChangesShown
  <1>3. ASSUME NEW m \in Members, ScanBegins(m) PROVE UNCHANGED <<rowOf, history, pruned>>
    BY <1>3, BeginsFrame
  <1>5. ASSUME NEW m \in Members, ReadsStats(m) PROVE UNCHANGED <<rowOf, history, pruned>>
    BY <1>5 DEF ReadsStats
  <1>6. ASSUME NEW m \in Members, NEW f \in PoolFiles, DiskChanges(m, f) PROVE UNCHANGED <<rowOf, history, pruned>>
    BY <1>6 DEF DiskChanges
  <1>4. CASE WalkEnds \/ ScanFinishes \/ ScanFails \/ ScanDies \/ UNCHANGED historyVars
    BY <1>2, <1>4 DEF WalkEnds, ScanFinishes, ScanFails, ScanDies, historyVars
  <1> QED BY <1>1, <1>2, <1>3, <1>4, <1>5, <1>6, NextIs, RecordsStory, SweepsStory, PrunesStory, PurgesStory

-----------------------------------------------------------------------------
(* The figures.                                                            *)

LEMMA StatsKept ==
  ASSUME HistoryTyped, RunsInOrder, StatsAreKept, [NextHistory]_historyVars
  PROVE  StatsAreKept'
  <1>1. CASE keptStats' = Forgotten0
    BY <1>1, ForgottenIs DEF StatsAreKept
  <1>2. CASE UNCHANGED <<rowOf, keptStats>>
    BY <1>2 DEF StatsAreKept, CountsNow, LiveFiles, GoneFiles
  <1>3. ASSUME NEW m \in Members, ScanBegins(m) PROVE UNCHANGED <<rowOf, keptStats>>
    BY <1>3, BeginsFrame
  <1>4. ASSUME NEW m \in Members, PurgesRoot(m) PROVE keptStats' = Forgotten0
    BY <1>4 DEF PurgesRoot
  <1>5. ASSUME NEW m \in Members, ReadsStats(m) PROVE StatsAreKept'
    <2>1. keptStats' = [keptStats EXCEPT ![m] = CountsNow(m)] /\ UNCHANGED rowOf
      BY <1>5 DEF ReadsStats
    <2>2. \A n \in Members : CountsNow(n)' = CountsNow(n)
      BY <2>1 DEF CountsNow, LiveFiles, GoneFiles
    <2>3. \A n \in Members : keptStats'[n] = IF n = m THEN CountsNow(m) ELSE keptStats[n]
      BY <2>1 DEF HistoryTyped
    <2> QED BY <2>2, <2>3 DEF StatsAreKept
  <1>6. ASSUME NEW f \in PoolFiles, RecordsFile(f) PROVE keptStats' = Forgotten0 \/ UNCHANGED <<rowOf, keptStats>>
    BY <1>6, RecordWrites DEF WritesOf
  <1>7. ASSUME NEW f \in PoolFiles, SweepsFile(f) PROVE keptStats' = Forgotten0
    BY <1>7 DEF SweepsFile
  <1>8. ASSUME WalkEnds \/ PrunesHistory \/ UNCHANGED historyVars PROVE UNCHANGED <<rowOf, keptStats>>
    BY <1>8 DEF WalkEnds, PrunesHistory, historyVars
  <1>9. ASSUME ScanFinishes \/ ScanFails \/ ScanDies PROVE keptStats' = Forgotten0
    BY <1>9 DEF ScanFinishes, ScanFails, ScanDies
  <1>10. ASSUME NEW m \in Members, NEW f \in PoolFiles, DiskChanges(m, f) PROVE UNCHANGED <<rowOf, keptStats>>
    BY <1>10 DEF DiskChanges
  <1> QED BY <1>1, <1>2, <1>3, <1>4, <1>5, <1>6, <1>7, <1>8, <1>9, <1>10, NextIs

LEMMA RowsAre == ASSUME NEW n, rowOf'[n] = rowOf[n] PROVE LiveFiles(n)' = LiveFiles(n)
  BY DEF LiveFiles

LEMMA WritesElsewhere ==
  ASSUME HistoryTyped, NEW m \in Members, NEW f \in PoolFiles, WritesOf(m, f), NEW n \in Members, n # m
  PROVE  rowOf'[n] = rowOf[n]
  BY DEF WritesOf, HistoryTyped

(* What a run of the scan's member wrote is not of another's.              *)
LEMMA FileWrites ==
  ASSUME HistoryTyped, RunsInOrder, NEW f \in PoolFiles, RecordsFile(f) \/ SweepsFile(f)
  PROVE  /\ catalogScan.member \in Members /\ catalogScan.pc # "off" /\ UNCHANGED <<catalogRuns, rollUp, massGone, cutShort>>
         /\ catalogScan'.pc = catalogScan.pc /\ catalogScan'.member = catalogScan.member
         /\ HasRun(catalogScan.member) /\ LastRun(catalogScan.member).state = "running"
         /\ LastRun(catalogScan.member).id = catalogScan.run
         /\ \A n \in Members \ {catalogScan.member} : rowOf'[n] = rowOf[n]
  <1>1. /\ catalogScan.pc # "off" /\ UNCHANGED <<catalogRuns, rollUp, massGone, cutShort>>
        /\ catalogScan'.pc = catalogScan.pc /\ catalogScan'.member = catalogScan.member
    BY DEF RecordsFile, SweepsFile, HistoryTyped, ScanType
  <1>2. /\ catalogScan.member \in Members /\ HasRun(catalogScan.member) /\ LastRun(catalogScan.member).state = "running"
        /\ LastRun(catalogScan.member).id = catalogScan.run
    BY <1>1, ScanHasRun
  <1>3. rowOf' = rowOf \/ WritesOf(catalogScan.member, f)
    BY RecordWrites, SweepWrites
  <1> QED BY <1>1, <1>2, <1>3, WritesElsewhere

LEMMA RolledUpKept ==
  ASSUME HistoryTyped, RunsInOrder, RolledUp, [NextHistory]_historyVars
  PROVE  RolledUp'
  <1> SUFFICES ASSUME NEW n \in Members, LastCompleted(n)' PROVE rollUp'[n] = Cardinality(LiveFiles(n)')
    BY DEF RolledUp
  <1>1. LastCompleted(n) => rollUp[n] = Cardinality(LiveFiles(n))
    BY DEF RolledUp
  <1>2. CASE rowOf'[n] = rowOf[n] /\ rollUp'[n] = rollUp[n] /\ catalogRuns'[n] = catalogRuns[n]
    <2>1. LastCompleted(n)
      BY <1>2 DEF LastCompleted, HasRun, LastRun
    <2> QED BY <1>1, <1>2, <2>1, RowsAre
  <1>3. ASSUME NEW m \in Members, ScanBegins(m) PROVE rollUp'[n] = Cardinality(LiveFiles(n)')
    <2>1. UNCHANGED <<rowOf, rollUp>>
      BY <1>3, BeginsFrame
    <2>2. CASE n # m \/ UNCHANGED catalogRuns
      <3>1. catalogRuns'[n] = catalogRuns[n]
        BY <1>3, <2>2, BeginsFrame DEF HistoryTyped
      <3> QED BY <1>2, <2>1, <3>1
    <2>3. CASE n = m /\ ~UNCHANGED catalogRuns
      <3>1. LastRun(m)'.state = "running"
        BY <1>3, <2>3, BegunIs, BeginsFrame
      <3> QED BY <2>3, <3>1 DEF LastCompleted
    <2> QED BY <2>2, <2>3
  <1>4. ASSUME NEW m \in Members, PurgesRoot(m) PROVE rollUp'[n] = Cardinality(LiveFiles(n)')
    <2>1. n # m
      BY <1>4 DEF PurgesRoot, LastCompleted, HasRun, HistoryTyped
    <2>2. rowOf'[n] = rowOf[n] /\ rollUp'[n] = rollUp[n] /\ catalogRuns'[n] = catalogRuns[n]
      BY <1>4, <2>1 DEF PurgesRoot, HistoryTyped
    <2> QED BY <1>2, <2>2
  <1>5. ASSUME NEW f \in PoolFiles, RecordsFile(f) \/ SweepsFile(f) PROVE rollUp'[n] = Cardinality(LiveFiles(n)')
    <2>1. n # catalogScan.member
      BY <1>5, FileWrites DEF LastCompleted, LastRun
    <2> QED BY <1>2, <1>5, <2>1, FileWrites
  <1>6. ASSUME ScanFinishes \/ ScanFails PROVE rollUp'[n] = Cardinality(LiveFiles(n)')
    <2>1. PICK m \in Members : m = catalogScan.member /\ catalogScan.pc # "off"
      BY <1>6, ScanIs DEF ScanFinishes, ScanFails
    <2>2. PICK state \in {"completed", "failed"} : catalogRuns' = Closed(m, state) /\ (state = "completed" => ScanFinishes)
      BY <1>6, <2>1 DEF ScanFinishes, ScanFails
    <2>3. /\ \A k \in Members \ {m} : catalogRuns'[k] = catalogRuns[k]
          /\ DOMAIN catalogRuns'[m] = DOMAIN catalogRuns[m] /\ Len(catalogRuns'[m]) = Len(catalogRuns[m])
          /\ \A i \in DOMAIN catalogRuns[m] : catalogRuns'[m][i].state = IF i = Len(catalogRuns[m]) THEN state ELSE catalogRuns[m][i].state
      BY <2>1, <2>2, ClosedIs
    <2>4. CASE n # m
      <3>1. rowOf'[n] = rowOf[n] /\ rollUp'[n] = rollUp[n]
        BY <1>6, <2>1, <2>4 DEF ScanFinishes, ScanFails, HistoryTyped
      <3> QED BY <1>2, <2>3, <2>4, <3>1
    <2>5. CASE n = m
      <3>1. HasRun(m)
        BY <2>1, ScanHasRun
      <3>2. LastRun(m)'.state = state
        BY <2>3, <3>1, LastRunIs DEF LastRun
      <3>3. ScanFinishes
        BY <2>2, <2>5, <3>2 DEF LastCompleted
      <3> QED BY <2>1, <2>5, <3>3, RowsAre DEF ScanFinishes, HistoryTyped
    <2> QED BY <2>4, <2>5
  <1>7. CASE WalkEnds \/ ScanDies \/ PrunesHistory \/ UNCHANGED historyVars
    BY <1>2, <1>7 DEF WalkEnds, ScanDies, PrunesHistory, historyVars
  <1>8. ASSUME NEW m \in Members, ReadsStats(m) \/ \E f \in PoolFiles : DiskChanges(m, f) PROVE rollUp'[n] = Cardinality(LiveFiles(n)')
    BY <1>2, <1>8 DEF ReadsStats, DiskChanges
  <1> QED BY <1>3, <1>4, <1>5, <1>6, <1>7, <1>8, NextIs

-----------------------------------------------------------------------------
(* The loss.                                                               *)

(* The last run of a member is not the run of a change of another's.       *)
LEMMA OwnChanges ==
  ASSUME HistoryTyped, RunsInOrder, ChangesHaveRuns, NEW n \in Members, HasRun(n),
         NEW i \in DOMAIN history, history[i].run = LastRun(n).id
  PROVE  history[i].member = n
  <1>1. history[i].member \in Members
    BY DEF HistoryTyped, ChangeType
  <1>2. PICK k \in DOMAIN catalogRuns[history[i].member] : catalogRuns[history[i].member][k].id = history[i].run
    BY DEF ChangesHaveRuns
  <1>3. LastRun(n) = catalogRuns[n][Len(catalogRuns[n])] /\ Len(catalogRuns[n]) \in DOMAIN catalogRuns[n]
    BY LastRunIs DEF LastRun
  <1> QED BY <1>1, <1>2, <1>3 DEF RunsInOrder

LEMMA TakenStays ==
  ASSUME NEW n, NEW r, r = LastRun(n).id, LastRun(n)'.id = r, TakenBy(r)' = TakenBy(r)
  PROVE  Taken(n)' = Taken(n)
  BY DEF Taken, TakenBy

(* Of a member that no action is about, nothing changes.                   *)
LEMMA LossFrame ==
  ASSUME NEW n \in Members, LossOfLastRun(n), rowOf'[n] = rowOf[n], catalogRuns'[n] = catalogRuns[n],
         HasRun(n) => TakenBy(LastRun(n).id)' = TakenBy(LastRun(n).id), n \in massGone <=> n \in massGone',
         ~Sweeping(n), ~Sweeping(n)'
  PROVE  LossOfLastRun(n)'
  <1>1. HasRun(n)' = HasRun(n) /\ LastRun(n)' = LastRun(n)
    BY DEF HasRun, LastRun
  <1>2. HasRun(n) => Taken(n)' = Taken(n)
    BY <1>1, TakenStays DEF TakenBy
  <1>3. LiveFiles(n)' = LiveFiles(n)
    BY RowsAre
  <1> QED BY <1>1, <1>2, <1>3 DEF LossOfLastRun, HalfGone

LEMMA LossAtBegin ==
  ASSUME HistoryTyped, RunsInOrder, ChangesHaveRuns, LossIsCounted, NEW m \in Members, ScanBegins(m),
         NEW n \in Members \ cutShort
  PROVE  LossOfLastRun(n)'
  <1>1. /\ UNCHANGED <<rowOf, history, massGone, cutShort>> /\ catalogScan.pc = "off" /\ catalogScan'.pc = "walk"
        /\ LossOfLastRun(n) /\ ~Sweeping(n) /\ ~Sweeping(n)'
    BY BeginsFrame DEF LossIsCounted, Sweeping
  <1>2. \A r : TakenBy(r)' = TakenBy(r)
    BY <1>1 DEF TakenBy
  <1>3. CASE catalogRuns'[n] = catalogRuns[n]
    <2>1. TakenBy(LastRun(n).id)' = TakenBy(LastRun(n).id)
      BY <1>1, <1>3 DEF TakenBy, LastRun
    <2> QED BY <1>1, <1>3, <2>1, LossFrame
  <1>4. CASE n = m /\ ~UNCHANGED catalogRuns
    <2>1. LastRun(m)'.id = runsBegun + 1 /\ LastRun(m)'.state = "running"
      BY <1>4, BegunIs, BeginsFrame
    <2>2. \A i \in DOMAIN history : history[i].run # runsBegun + 1
      <3> TAKE i \in DOMAIN history
      <3>1. history[i].member \in Members /\ history[i].run \in Nat /\ runsBegun \in Nat
        BY HistoryAssumption DEF HistoryTyped, ChangeType
      <3>2. PICK k \in DOMAIN catalogRuns[history[i].member] : catalogRuns[history[i].member][k].id = history[i].run
        BY DEF ChangesHaveRuns
      <3>3. history[i].run <= runsBegun
        BY <3>1, <3>2 DEF RunsInOrder
      <3> QED BY <3>1, <3>3
    <2>3. TakenBy(LastRun(m).id)' = {}
      BY <1>1, <2>1, <2>2 DEF TakenBy
    <2>4. Taken(m)' = 0
      BY <2>3, FS_EmptySet DEF Taken
    <2> QED BY <1>1, <1>4, <2>1, <2>4 DEF LossOfLastRun
  <1> QED BY <1>3, <1>4, BeginsFrame DEF HistoryTyped

LEMMA LossAtPurge ==
  ASSUME HistoryTyped, RunsInOrder, ChangesHaveRuns, LossIsCounted, NEW m \in Members, PurgesRoot(m),
         NEW n \in Members \ cutShort
  PROVE  LossOfLastRun(n)'
  <1> DEFINE ids == {i \in DOMAIN history : history[i].member # m}
  <1>1. /\ history' = Restrict(history, ids) /\ catalogRuns' = [catalogRuns EXCEPT ![m] = <<>>]
        /\ rowOf' = [rowOf EXCEPT ![m] = [f \in PoolFiles |-> NoRow]]
        /\ UNCHANGED <<catalogScan, massGone, cutShort>> /\ catalogScan.pc = "off"
    BY DEF PurgesRoot
  <1>2. ids \in SUBSET DOMAIN history
    OBVIOUS
  <1>3. \A i \in DOMAIN history : i \in ids <=> history[i].member # m
    OBVIOUS
  <1> HIDE DEF ids
  <1>4. DOMAIN history' = ids /\ \A i \in ids : history'[i] = history[i]
    BY <1>1, <1>2, PruneIs
  <1>5. CASE n = m
    <2>1. ~HasRun(n)'
      BY <1>1, <1>5 DEF HasRun, HistoryTyped
    <2> QED BY <2>1 DEF LossOfLastRun
  <1>6. CASE n # m
    <2>1. rowOf'[n] = rowOf[n] /\ catalogRuns'[n] = catalogRuns[n]
      BY <1>1, <1>6 DEF HistoryTyped
    <2>2. LossOfLastRun(n) /\ ~Sweeping(n) /\ ~Sweeping(n)'
      BY <1>1 DEF LossIsCounted, Sweeping
    <2>3. ASSUME HasRun(n) PROVE TakenBy(LastRun(n).id)' = TakenBy(LastRun(n).id)
      <3>1. PICK r : r = LastRun(n).id /\ r = LastRun(n)'.id
        BY <2>1 DEF LastRun
      <3>2. \A i \in DOMAIN history : history[i].run = r => i \in ids
        BY <1>3, <1>6, <2>3, <3>1, OwnChanges
      <3>3. TakenBy(r)' = TakenBy(r)
        BY <1>2, <1>4, <3>2 DEF TakenBy
      <3> QED BY <3>1, <3>3 DEF TakenBy
    <2> QED BY <1>1, <2>1, <2>2, <2>3, LossFrame
  <1> QED BY <1>5, <1>6

LEMMA LossAtPrune ==
  ASSUME HistoryTyped, RunsInOrder, ChangesHaveRuns, LossIsCounted, PrunesHistory, NEW n \in Members \ cutShort
  PROVE  LossOfLastRun(n)'
  <1> DEFINE oldest(m) == catalogRuns[m][IF Len(catalogRuns[m]) > KeepRuns THEN Len(catalogRuns[m]) - KeepRuns + 1 ELSE 1].id
             ids == {i \in DOMAIN history : ~(history[i].run < oldest(history[i].member))}
  <1>1. history' = Restrict(history, ids) /\ UNCHANGED <<rowOf, catalogRuns, catalogScan, massGone, cutShort>>
    BY DEF PrunesHistory
  <1>2. ids \in SUBSET DOMAIN history
    OBVIOUS
  <1>3. \A i \in DOMAIN history : i \in ids <=> ~(history[i].run < oldest(history[i].member))
    OBVIOUS
  <1> HIDE DEF ids
  <1>4. DOMAIN history' = ids /\ \A i \in ids : history'[i] = history[i]
    BY <1>1, <1>2, PruneIs
  <1>5. HasRun(n)' = HasRun(n) /\ LastRun(n)' = LastRun(n) /\ LiveFiles(n)' = LiveFiles(n) /\ Sweeping(n)' = Sweeping(n)
    BY <1>1 DEF HasRun, LastRun, LiveFiles, Sweeping
  <1>6. ASSUME HasRun(n) PROVE Taken(n)' = Taken(n)
    <2>1. PICK r : r = LastRun(n).id /\ r = LastRun(n)'.id
      BY <1>5
    <2>2. ASSUME NEW i \in DOMAIN history, history[i].run = r PROVE i \in ids
      <3>1. history[i].member = n
        BY <1>6, <2>1, <2>2, OwnChanges
      <3>2. PICK k : k = IF Len(catalogRuns[n]) > KeepRuns THEN Len(catalogRuns[n]) - KeepRuns + 1 ELSE 1
        OBVIOUS
      <3>3. PICK l \in Nat \ {0} : l = Len(catalogRuns[n]) /\ DOMAIN catalogRuns[n] = 1..l
        BY <1>6, LastRunIs
      <3>4. k \in DOMAIN catalogRuns[n] /\ (k = l \/ k < l) /\ l \in DOMAIN catalogRuns[n]
        BY <3>2, <3>3, HistoryAssumption
      <3>5. catalogRuns[n][k] \in RunType /\ catalogRuns[n][l] \in RunType
        BY <3>4 DEF HistoryTyped
      <3>6. PICK a \in Nat, b \in Nat : a = catalogRuns[n][k].id /\ b = catalogRuns[n][l].id
        BY <3>5, HistoryAssumption DEF RunType
      <3>7. a = b \/ a < b
        BY <3>4, <3>6 DEF RunsInOrder
      <3>8. oldest(n) = a /\ r = b
        BY <2>1, <3>2, <3>3, <3>6 DEF LastRun
      <3> HIDE DEF oldest
      <3> QED BY <1>3, <2>2, <3>1, <3>6, <3>7, <3>8
    <2> HIDE DEF oldest
    <2>3. TakenBy(r)' = TakenBy(r)
      BY <1>2, <1>4, <2>2 DEF TakenBy
    <2> QED BY <2>1, <2>3, TakenStays
  <1>7. LossOfLastRun(n)
    BY DEF LossIsCounted
  <1> QED BY <1>1, <1>5, <1>6, <1>7 DEF LossOfLastRun, HalfGone

LEMMA LossAtRecord ==
  ASSUME HistoryTyped, RunsInOrder, ChangesHaveRuns, LossIsCounted, NEW f \in PoolFiles, RecordsFile(f),
         NEW n \in Members \ cutShort
  PROVE  LossOfLastRun(n)'
  <1>1. PICK m \in Members : m = catalogScan.member /\ catalogScan.pc = "walk"
    BY FileWrites DEF RecordsFile
  <1>2. /\ UNCHANGED <<catalogRuns, massGone, cutShort>> /\ catalogScan'.pc = "walk" /\ LastRun(m).state = "running"
        /\ \A k \in Members \ {m} : rowOf'[k] = rowOf[k]
    BY <1>1, FileWrites
  <1>3. \A r : TakenBy(r)' = TakenBy(r)
    <2>1. CASE history' = history
      BY <2>1 DEF TakenBy
    <2>2. ASSUME NEW change, change.kind # "deleted", history' = Logged(change) PROVE \A r : TakenBy(r)' = TakenBy(r)
      <3>1. /\ DOMAIN history' = DOMAIN history \cup {NextId}
            /\ history'[NextId] = change /\ \A i \in DOMAIN history : history'[i] = history[i]
        BY <2>2, LoggedIs DEF HistoryTyped
      <3>2. NextId \notin DOMAIN history
        BY NextIdIs DEF HistoryTyped
      <3>3. PICK z : z = NextId
        OBVIOUS
      <3> TAKE r
      <3>4. \A i : i \in TakenBy(r)' <=> i \in TakenBy(r)
        BY <2>2, <3>1, <3>2, <3>3 DEF TakenBy
      <3>5. TakenBy(r)' \subseteq DOMAIN history' /\ TakenBy(r) \subseteq DOMAIN history
        BY DEF TakenBy
      <3> QED BY <3>4
    <2>3. history' = history \/ \E change : change.kind # "deleted" /\ history' = Logged(change)
      <3>1. CASE onMember[m][f] > 0
        <4>1. PICK old : old = rowOf[m][f]
          OBVIOUS
        <4>2. PICK kind \in {"created", "modified", "restored", "same"} :
                history' = IF kind = "same" THEN history ELSE Logged(ChangeOf(m, f, kind, onMember[m][f], old.stamp))
          <5> DEFINE kind == CASE old.state = "none" -> "created"
                               [] old.state = "deleted" -> "restored"
                               [] old.state = "live" -> IF old.stamp = onMember[m][f] THEN "same" ELSE "modified"
          <5>1. history' = IF kind = "same" THEN history ELSE Logged(ChangeOf(m, f, kind, onMember[m][f], old.stamp))
            BY <1>1, <3>1, <4>1 DEF RecordsFile, WriteRow
          <5>2. kind \in {"created", "modified", "restored", "same"}
            BY <4>1, RowIs
          <5> HIDE DEF kind
          <5> QED BY <5>1, <5>2
        <4>3. ChangeOf(m, f, kind, onMember[m][f], old.stamp).kind = kind
          BY DEF ChangeOf
        <4> QED BY <4>2, <4>3
      <3>2. CASE ~(onMember[m][f] > 0)
        BY <1>1, <3>2 DEF RecordsFile
      <3> QED BY <3>1, <3>2
    <2> QED BY <2>1, <2>2, <2>3
  <1>4. LossOfLastRun(n) /\ ~Sweeping(n) /\ ~Sweeping(n)'
    BY <1>1, <1>2 DEF LossIsCounted, Sweeping
  <1>5. LastRun(n)' = LastRun(n) /\ HasRun(n)' = HasRun(n) /\ Taken(n)' = Taken(n)
    BY <1>2, <1>3, TakenStays DEF LastRun, HasRun
  <1>6. CASE n = m
    BY <1>2, <1>4, <1>5, <1>6 DEF LossOfLastRun
  <1>7. CASE n # m
    <2>1. LiveFiles(n)' = LiveFiles(n)
      BY <1>2, <1>7, RowsAre
    <2> QED BY <1>2, <1>4, <1>5, <2>1 DEF LossOfLastRun, HalfGone
  <1> QED BY <1>6, <1>7

LEMMA LossAtSweep ==
  ASSUME HistoryTyped, RunsInOrder, ChangesHaveRuns, LossIsCounted, NEW f \in PoolFiles, SweepsFile(f),
         NEW n \in Members \ cutShort
  PROVE  LossOfLastRun(n)'
  <1>1. PICK m \in Members : m = catalogScan.member /\ catalogScan.pc = "sweep"
    BY FileWrites DEF SweepsFile
  <1>2. /\ UNCHANGED <<catalogRuns, massGone, cutShort>> /\ catalogScan'.pc = "sweep" /\ catalogScan'.member = m
        /\ HasRun(m) /\ LastRun(m).id = catalogScan.run
        /\ \A k \in Members \ {m} : rowOf'[k] = rowOf[k]
    BY <1>1, FileWrites
  <1>3. PICK r, old : r = catalogScan.run /\ old = rowOf[m][f].stamp
    OBVIOUS
  <1>4. PICK change : change = ChangeOf(m, f, "deleted", 0, old)
    OBVIOUS
  <1>5. change.run = r /\ change.kind = "deleted" /\ history' = Logged(change)
    BY <1>1, <1>3, <1>4 DEF ChangeOf, SweepsFile
  <1>6. PICK z : z = NextId
    OBVIOUS
  <1>7. /\ DOMAIN history' = DOMAIN history \cup {z} /\ z \notin DOMAIN history
        /\ history'[z] = change /\ \A i \in DOMAIN history : history'[i] = history[i]
    BY <1>5, <1>6, LoggedIs, NextIdIs DEF HistoryTyped
  <1>8. LossOfLastRun(n) /\ LastRun(n)' = LastRun(n) /\ HasRun(n)' = HasRun(n)
    BY <1>2 DEF LossIsCounted, LastRun, HasRun
  <1>9. CASE n = m
    <2>1. TakenBy(r)' = TakenBy(r) \cup {z}
      <3>1. \A i : i \in TakenBy(r)' <=> i \in TakenBy(r) \/ i = z
        BY <1>5, <1>7 DEF TakenBy
      <3>2. TakenBy(r)' \subseteq DOMAIN history' /\ TakenBy(r) \subseteq DOMAIN history
        BY DEF TakenBy
      <3> QED BY <3>1, <1>7
    <2>2. IsFiniteSet(TakenBy(r)) /\ z \notin TakenBy(r)
      BY <1>7, FS_Subset DEF TakenBy, HistoryTyped
    <2>3. Cardinality(TakenBy(r)') = Cardinality(TakenBy(r)) + 1
      BY <2>1, <2>2, FS_AddElement
    <2>4. Taken(m) = Cardinality(TakenBy(r)) /\ Taken(m)' = Cardinality(TakenBy(r)')
      BY <1>2, <1>3, <1>8, <1>9 DEF Taken, TakenBy
    <2>5. Taken(m) = catalogScan.swept
      BY <1>1, <1>2, <1>8, <1>9 DEF LossOfLastRun, Sweeping
    <2>6. catalogScan'.swept = catalogScan.swept + 1
      BY DEF SweepsFile, HistoryTyped, ScanType
    <2>7. Sweeping(m)'
      BY <1>2 DEF Sweeping
    <2> QED BY <1>9, <2>3, <2>4, <2>5, <2>6, <2>7 DEF LossOfLastRun
  <1>10. CASE n # m
    <2>1. ~Sweeping(n) /\ ~Sweeping(n)'
      BY <1>1, <1>2, <1>10 DEF Sweeping
    <2>2. ASSUME HasRun(n) PROVE TakenBy(LastRun(n).id)' = TakenBy(LastRun(n).id)
      <3>1. PICK s : s = LastRun(n).id /\ s = LastRun(n)'.id
        BY <1>8
      <3>2. s # r
        <4>1. LastRun(m) = catalogRuns[m][Len(catalogRuns[m])] /\ Len(catalogRuns[m]) \in DOMAIN catalogRuns[m]
          BY <1>2, LastRunIs DEF LastRun
        <4>2. LastRun(n) = catalogRuns[n][Len(catalogRuns[n])] /\ Len(catalogRuns[n]) \in DOMAIN catalogRuns[n]
          BY <2>2, LastRunIs DEF LastRun
        <4>3. PICK k, l : k = Len(catalogRuns[m]) /\ l = Len(catalogRuns[n])
          OBVIOUS
        <4>4. \A i \in DOMAIN catalogRuns[m], j \in DOMAIN catalogRuns[n] : catalogRuns[m][i].id # catalogRuns[n][j].id
          BY <1>10 DEF RunsInOrder
        <4>5. catalogRuns[m][k].id # catalogRuns[n][l].id
          BY <4>1, <4>2, <4>3, <4>4
        <4> QED BY <1>2, <1>3, <3>1, <4>1, <4>2, <4>3, <4>5
      <3>3. TakenBy(s)' = TakenBy(s)
        <4>1. \A i : i \in TakenBy(s)' <=> i \in TakenBy(s)
          BY <1>5, <1>7, <3>2 DEF TakenBy
        <4>2. TakenBy(s)' \subseteq DOMAIN history' /\ TakenBy(s) \subseteq DOMAIN history
          BY DEF TakenBy
        <4> QED BY <4>1
      <3> QED BY <3>1, <3>3 DEF TakenBy
    <2> QED BY <1>2, <1>8, <1>10, <2>1, <2>2, LossFrame
  <1> QED BY <1>9, <1>10

LEMMA LossAtWalkEnd ==
  ASSUME HistoryTyped, RunsInOrder, LossIsCounted, WalkEnds, NEW n \in Members \ cutShort'
  PROVE  LossOfLastRun(n)'
  <1>1. PICK m \in Members : m = catalogScan.member /\ catalogScan.pc = "walk"
    BY ScanIs DEF WalkEnds
  <1>2. HasRun(m) /\ LastRun(m).id = catalogScan.run /\ LastRun(m).state = "running" /\ catalogScan.swept = 0
    BY <1>1, ScanHasRun DEF LossIsCounted
  <1>3. UNCHANGED <<rowOf, catalogRuns, history, massGone>>
    BY DEF WalkEnds
  <1>4. catalogScan'.pc = "sweep" /\ catalogScan'.member = m /\ catalogScan'.swept = 0
    BY <1>1, <1>2 DEF WalkEnds, HistoryTyped, ScanType
  <1>5. LastRun(n)' = LastRun(n) /\ HasRun(n)' = HasRun(n) /\ Taken(n)' = Taken(n) /\ LiveFiles(n)' = LiveFiles(n)
    BY <1>3 DEF LastRun, HasRun, Taken, TakenBy, LiveFiles
  <1>6. CASE n = m
    <2>1. Taken(m) = 0
      <3>1. CASE m \notin cutShort
        BY <1>1, <1>2, <3>1 DEF LossIsCounted, LossOfLastRun, Sweeping
      <3>2. CASE m \in cutShort
        <4>1. \A i \in DOMAIN history : ~(history[i].run = catalogScan.run /\ history[i].kind = "deleted")
          BY <1>1, <1>6, <3>2 DEF WalkEnds
        <4>2. TakenBy(LastRun(m).id) = {}
          BY <1>2, <4>1 DEF TakenBy
        <4> QED BY <4>2, FS_EmptySet DEF Taken
      <3> QED BY <3>1, <3>2
    <2> QED BY <1>4, <1>5, <1>6, <2>1 DEF LossOfLastRun, Sweeping
  <1>7. CASE n # m
    <2>1. n \notin cutShort
      BY <1>1, <1>7 DEF WalkEnds
    <2>2. LossOfLastRun(n) /\ ~Sweeping(n) /\ ~Sweeping(n)'
      BY <1>1, <1>4, <1>7, <2>1 DEF LossIsCounted, Sweeping
    <2> QED BY <1>3, <1>5, <2>2 DEF LossOfLastRun, HalfGone
  <1> QED BY <1>6, <1>7

LEMMA LossAtEnd ==
  ASSUME HistoryTyped, RunsInOrder, LossIsCounted, ScanFinishes \/ ScanFails, NEW n \in Members \ cutShort
  PROVE  LossOfLastRun(n)'
  <1>1. PICK m \in Members : m = catalogScan.member /\ catalogScan.pc # "off"
    BY ScanIs DEF ScanFinishes, ScanFails
  <1>2. PICK state \in {"completed", "failed"} : catalogRuns' = Closed(m, state) /\ (IF state = "completed" THEN ScanFinishes ELSE ScanFails)
    BY <1>1 DEF ScanFinishes, ScanFails
  <1>3. /\ \A k \in Members \ {m} : catalogRuns'[k] = catalogRuns[k]
        /\ DOMAIN catalogRuns'[m] = DOMAIN catalogRuns[m] /\ Len(catalogRuns'[m]) = Len(catalogRuns[m])
        /\ \A i \in DOMAIN catalogRuns[m] : catalogRuns'[m][i].id = catalogRuns[m][i].id
        /\ \A i \in DOMAIN catalogRuns[m] : catalogRuns'[m][i].state = IF i = Len(catalogRuns[m]) THEN state ELSE catalogRuns[m][i].state
    BY <1>1, <1>2, ClosedIs
  <1>4. UNCHANGED <<rowOf, history>> /\ catalogScan'.pc = "off"
    BY ScanIs DEF ScanFinishes, ScanFails
  <1>5. LiveFiles(n)' = LiveFiles(n) /\ ~Sweeping(n)' /\ LossOfLastRun(n)
    BY <1>4 DEF LiveFiles, Sweeping, LossIsCounted
  <1>6. CASE n = m
    <2>1. HasRun(m) /\ LastRun(m).state = "running"
      BY <1>1, ScanHasRun
    <2>2. LastRun(m)'.state = state /\ LastRun(m)'.id = LastRun(m).id
      BY <1>3, <2>1, LastRunIs DEF LastRun
    <2>3. Taken(m)' = Taken(m)
      BY <1>4, <2>2 DEF Taken, TakenBy
    <2>4. CASE state = "completed"
      <3>1. Taken(m) = catalogScan.swept
        BY <1>1, <1>2, <1>5, <1>6, <2>1, <2>4 DEF LossOfLastRun, Sweeping, ScanFinishes
      <3>2. massGone' = IF ManyGone(m, Taken(m)) THEN massGone \cup {m} ELSE massGone \ {m}
        BY <1>1, <1>2, <2>4, <3>1 DEF ScanFinishes
      <3>3. HalfGone(m)' = ManyGone(m, Taken(m))
        BY <1>5, <1>6, <2>3 DEF HalfGone, ManyGone
      <3> QED BY <1>5, <1>6, <2>2, <2>4, <3>2, <3>3 DEF LossOfLastRun
    <2>5. CASE state = "failed"
      <3>1. Taken(m) = 0
        BY <1>1, <1>2, <1>5, <1>6, <2>1, <2>5 DEF LossOfLastRun, Sweeping, ScanFails
      <3> QED BY <1>5, <1>6, <2>2, <2>3, <2>5, <3>1 DEF LossOfLastRun
    <2> QED BY <2>4, <2>5
  <1>7. CASE n # m
    <2>1. LastRun(n)' = LastRun(n) /\ HasRun(n)' = HasRun(n)
      BY <1>3, <1>7 DEF LastRun, HasRun
    <2>4. Taken(n)' = Taken(n)
      BY <1>4, <2>1 DEF Taken, TakenBy
    <2>2. ~Sweeping(n)
      BY <1>1, <1>7 DEF Sweeping
    <2>3. n \in massGone <=> n \in massGone'
      BY <1>1, <1>2, <1>7 DEF ScanFinishes, ScanFails
    <2> QED BY <1>5, <2>1, <2>2, <2>3, <2>4 DEF LossOfLastRun, HalfGone
  <1> QED BY <1>6, <1>7

LEMMA LossAtDeath ==
  ASSUME HistoryTyped, RunsInOrder, LossIsCounted, ScanDies, NEW n \in Members \ cutShort'
  PROVE  LossOfLastRun(n)'
  <1>1. UNCHANGED <<rowOf, catalogRuns, history, massGone>> /\ catalogScan'.pc = "off"
    BY ScanIs DEF ScanDies
  <1>2. n \notin cutShort /\ ~Sweeping(n) /\ ~Sweeping(n)'
    BY <1>1 DEF ScanDies, Sweeping
  <1>3. LossOfLastRun(n)
    BY <1>2 DEF LossIsCounted
  <1>4. LastRun(n)' = LastRun(n) /\ HasRun(n)' = HasRun(n) /\ Taken(n)' = Taken(n) /\ LiveFiles(n)' = LiveFiles(n)
    BY <1>1 DEF LastRun, HasRun, Taken, TakenBy, LiveFiles
  <1> QED BY <1>1, <1>2, <1>3, <1>4 DEF LossOfLastRun, HalfGone

LEMMA LossKept ==
  ASSUME HistoryTyped, RunsInOrder, ChangesHaveRuns, LossIsCounted, [NextHistory]_historyVars
  PROVE  LossIsCounted'
  <1>1. catalogScan'.pc # "sweep" => catalogScan'.swept = 0
    <2>1. CASE UNCHANGED <<catalogScan.pc, catalogScan.swept>> \/ catalogScan'.swept = 0
      BY <2>1 DEF LossIsCounted
    <2>2. ASSUME NEW m \in Members, ScanBegins(m) PROVE catalogScan'.swept = 0
      BY <2>2, BeginsFrame
    <2>3. ASSUME NEW m \in Members, PurgesRoot(m) PROVE UNCHANGED catalogScan
      BY <2>3 DEF PurgesRoot
    <2>4. ASSUME NEW m \in Members, ReadsStats(m) PROVE UNCHANGED catalogScan
      BY <2>4 DEF ReadsStats
    <2>5. ASSUME NEW f \in PoolFiles, RecordsFile(f) PROVE UNCHANGED <<catalogScan.pc, catalogScan.swept>>
      BY <2>5 DEF RecordsFile, HistoryTyped, ScanType
    <2>6. ASSUME NEW f \in PoolFiles, SweepsFile(f) PROVE catalogScan'.pc = "sweep"
      BY <2>6 DEF SweepsFile, HistoryTyped, ScanType
    <2>7. ASSUME WalkEnds PROVE catalogScan'.pc = "sweep"
      BY <2>7 DEF WalkEnds, HistoryTyped, ScanType
    <2>8. ASSUME ScanFinishes \/ ScanFails \/ ScanDies PROVE catalogScan'.swept = 0
      BY <2>8, ScanIs DEF ScanFinishes, ScanFails, ScanDies
    <2>9. ASSUME PrunesHistory \/ UNCHANGED historyVars PROVE UNCHANGED catalogScan
      BY <2>9 DEF PrunesHistory, historyVars
    <2>10. ASSUME NEW m \in Members, NEW f \in PoolFiles, DiskChanges(m, f) PROVE UNCHANGED catalogScan
      BY <2>10 DEF DiskChanges
    <2> QED BY <2>1, <2>2, <2>3, <2>4, <2>5, <2>6, <2>7, <2>8, <2>9, <2>10, NextIs
  <1> SUFFICES ASSUME NEW n \in Members \ cutShort' PROVE LossOfLastRun(n)'
    BY <1>1 DEF LossIsCounted
  <1>2. CASE UNCHANGED <<rowOf, catalogRuns, history, massGone, cutShort, catalogScan>>
    <2>1. /\ LastRun(n)' = LastRun(n) /\ HasRun(n)' = HasRun(n) /\ Taken(n)' = Taken(n) /\ LiveFiles(n)' = LiveFiles(n)
          /\ Sweeping(n)' = Sweeping(n) /\ LossOfLastRun(n)
      BY <1>2 DEF LastRun, HasRun, Taken, TakenBy, LiveFiles, Sweeping, LossIsCounted
    <2> QED BY <1>2, <2>1 DEF LossOfLastRun, HalfGone
  <1>3. ASSUME NEW m \in Members, ScanBegins(m) PROVE n \in Members \ cutShort
    BY <1>3, BeginsFrame
  <1>4. ASSUME NEW m \in Members, PurgesRoot(m) PROVE n \in Members \ cutShort
    BY <1>4 DEF PurgesRoot
  <1>5. ASSUME NEW f \in PoolFiles, RecordsFile(f) \/ SweepsFile(f) PROVE n \in Members \ cutShort
    BY <1>5, FileWrites
  <1>6. ASSUME ScanFinishes \/ ScanFails \/ PrunesHistory PROVE n \in Members \ cutShort
    BY <1>6 DEF ScanFinishes, ScanFails, PrunesHistory
  <1>7. ASSUME NEW m \in Members, ReadsStats(m) PROVE UNCHANGED <<rowOf, catalogRuns, history, massGone, cutShort, catalogScan>>
    BY <1>7 DEF ReadsStats
  <1>8. ASSUME NEW m \in Members, NEW f \in PoolFiles, DiskChanges(m, f) PROVE UNCHANGED <<rowOf, catalogRuns, history, massGone, cutShort, catalogScan>>
    BY <1>8 DEF DiskChanges
  <1>9. ASSUME UNCHANGED historyVars PROVE UNCHANGED <<rowOf, catalogRuns, history, massGone, cutShort, catalogScan>>
    BY <1>9 DEF historyVars
  <1> QED BY <1>2, <1>3, <1>4, <1>5, <1>6, <1>7, <1>8, <1>9, NextIs, LossAtBegin, LossAtPurge, LossAtRecord, LossAtSweep,
             LossAtWalkEnd, LossAtEnd, LossAtDeath, LossAtPrune

-----------------------------------------------------------------------------
(* What it comes to.                                                       *)

LEMMA HistoryInvAtFirst == ASSUME InitHistory PROVE HistoryInv
  <1> DEFINE rows == [m \in Members |-> [f \in PoolFiles |-> NoRow]]
  <1>1. /\ catalogRuns = [m \in Members |-> <<>>] /\ catalogScan = NoScan /\ history = <<>>
        /\ keptStats = Forgotten0 /\ rollUp = [m \in Members |-> -1] /\ massGone = {} /\ pruned = {} /\ cutShort = {}
        /\ runsBegun = 0 /\ edits = 0 /\ rowOf = rows
    BY DEF InitHistory
  <1>2. \A m \in Members, f \in PoolFiles : rowOf[m][f] = NoRow
    BY <1>1
  <1>3. DOMAIN history = {} /\ \A m \in Members : catalogRuns[m] = <<>> /\ DOMAIN catalogRuns[m] = {}
    BY <1>1
  <1>4. HistoryTyped
    <2>1. NoRow \in FileRowType /\ NoScan \in ScanType /\ NoScan.pc = "off"
      BY HistoryAssumption DEF NoRow, FileRowType, NoScan, ScanType
    <2>2. onMember \in [Members -> [PoolFiles -> 0..2]]
      BY DEF InitHistory
    <2>3. rowOf \in [Members -> [PoolFiles -> FileRowType]]
      <3>1. \A m \in Members : [f \in PoolFiles |-> NoRow] \in [PoolFiles -> FileRowType]
        BY <2>1
      <3> QED BY <1>1, <3>1
    <2>4. catalogRuns \in [Members -> Seq(RunType)]
      BY <1>1, EmptySeq
    <2>5. IsFiniteSet(DOMAIN history) /\ DOMAIN history \subseteq Nat \ {0}
      BY <1>3, FS_EmptySet
    <2>6. history \in [DOMAIN history -> ChangeType]
      BY <1>1, <1>3
    <2>7. keptStats \in [Members -> {<<>>} \cup (Nat \X Nat)]
      BY <1>1, ForgottenIs
    <2>8. rollUp \in [Members -> Nat \cup {-1}] /\ runsBegun \in 0..MaxCatalogRuns /\ edits \in Nat
      BY <1>1, HistoryAssumption
    <2>9. massGone \subseteq Members /\ pruned \subseteq Members /\ cutShort \subseteq Members
      BY <1>1
    <2> QED BY <1>1, <2>1, <2>2, <2>3, <2>4, <2>5, <2>6, <2>7, <2>8, <2>9 DEF HistoryTyped
  <1>5. NoScan.pc = "off" /\ NoScan.swept = 0
    BY DEF NoScan
  <1>6. RunsInOrder /\ ChangesHaveRuns /\ RolledUp /\ LossIsCounted
    BY <1>1, <1>3, <1>5 DEF RunsInOrder, ChangesHaveRuns, RolledUp, LastCompleted, LossIsCounted, LossOfLastRun, HasRun
  <1>7. StoriesHold
    <2> SUFFICES ASSUME NEW m \in Members, NEW f \in PoolFiles PROVE FileStory(m, f)
      BY DEF StoriesHold
    <2>1. ChangesShown(m, f) = {}
      BY <1>3 DEF ChangesShown
    <2>2. StoryHolds(m, f)
      BY <1>2, <2>1 DEF StoryHolds
    <2> QED BY <1>2, <2>1, <2>2 DEF FileStory
  <1>8. StatsAreKept
    BY <1>1, ForgottenIs DEF StatsAreKept
  <1> QED BY <1>4, <1>6, <1>7, <1>8 DEF HistoryInv

LEMMA HistoryInvKept == ASSUME HistoryInv, [NextHistory]_historyVars PROVE HistoryInv'
  <1>1. HistoryTyped /\ RunsInOrder /\ ChangesHaveRuns /\ StoriesHold /\ StatsAreKept /\ RolledUp /\ LossIsCounted
    BY DEF HistoryInv
  <1>2. HistoryTyped' /\ RunsInOrder' /\ ChangesHaveRuns' /\ StoriesHold' /\ StatsAreKept' /\ RolledUp' /\ LossIsCounted'
    BY <1>1, HistoryTypesKept, RunsKept, LogKept, StoriesKept, StatsKept, RolledUpKept, LossKept
  <1> QED BY <1>2 DEF HistoryInv

(* Every behaviour of the passes over the catalog, their failures and the  *)
(* pruning of old runs: the runs of a member are numbered as they begin    *)
(* (beginRun()), a change is of a run of its member (recordFiles()), and   *)
(* the loss of a run is what its sweep took (sweepMissing()).              *)
THEOREM HistoryHolds == HistorySpec => []HistoryInv
  BY HistoryInvAtFirst, HistoryInvKept, PTL DEF HistorySpec

(* The totals of the directories are made from rows when every run is done. *)
LEMMA TotalsAre ==
  ASSUME HistoryInv, \A m \in Members : catalogRuns[m] # <<>> /\ LastRun(m).state = "completed"
  PROVE  Totals = SumOf([m \in Members |-> Cardinality(LiveFiles(m))])
  <1>1. \A m \in Members : rollUp[m] = Cardinality(LiveFiles(m)) /\ rollUp[m] \in Nat
    BY FilesAreCounted DEF HistoryInv, RolledUp, LastCompleted, HasRun
  <1>2. Rolled = Members
    BY <1>1 DEF Rolled
  <1>3. Restrict(rollUp, Members) = [m \in Members |-> Cardinality(LiveFiles(m))]
    BY <1>1 DEF Restrict
  <1> QED BY <1>2, <1>3 DEF Totals

(* When the rows say what is on the disks, so does what is made of them.   *)
LEMMA CurrentIs ==
  ASSUME \A m \in Members : Current(m), NEW f \in PoolFiles
  PROVE  {n \in Members : f \in LiveFiles(n)} = {m \in Members : onMember[m][f] > 0}
  BY DEF Current, LiveFiles

LEMMA LossIs ==
  ASSUME \A m \in Members : Current(m), NEW m \in Members
  PROVE  LossOf(m) = {f \in PoolFiles : (\E n \in Members : onMember[n][f] > 0)
                        /\ \A n \in Members : onMember[n][f] > 0 => DiskOfMember[n] = DiskOfMember[m]}
  <1>1. \A f \in PoolFiles, n \in Members : f \in LiveFiles(n) <=> onMember[n][f] > 0
    BY DEF Current, LiveFiles
  <1>2. \A n \in Members : LiveFiles(n) \subseteq PoolFiles
    BY DEF LiveFiles
  <1>3. \A n \in Members : n \in FailsWith(m) <=> DiskOfMember[n] = DiskOfMember[m]
    BY DEF FailsWith
  <1>4. FailsWith(m) \subseteq Members
    BY DEF FailsWith
  <1> QED BY <1>1, <1>2, <1>3, <1>4 DEF LossOf

LEMMA ImageIsAsLarge ==
  ASSUME NEW S, IsFiniteSet(S), \A m, n \in S : DiskOfMember[m] = DiskOfMember[n] => m = n
  PROVE  Cardinality({DiskOfMember[m] : m \in S}) = Cardinality(S)
  <1> DEFINE T == {DiskOfMember[m] : m \in S}
             g == [m \in S |-> DiskOfMember[m]]
  <1>1. g \in Surjection(S, T)
    BY DEF Surjection
  <1>2. g \in Injection(S, T)
    BY DEF Injection, IsInjective
  <1> HIDE DEF g, T
  <1>3. Cardinality(T) = Cardinality(S)
    BY <1>1, <1>2, FS_Surjection
  <1> QED BY <1>3 DEF T

LEMMA AnswersFollow == ASSUME HistoryInv PROVE CatalogAnswersTruly
  <1>1. \A m \in Members, f \in PoolFiles : StoryHolds(m, f)
    BY DEF HistoryInv, StoriesHold, FileStory
  <1>2. \A m \in Members : keptStats[m] # <<>> => keptStats[m] = CountsNow(m)
    BY DEF HistoryInv, StatsAreKept
  <1>3. \A m \in Members \ cutShort : catalogScan.pc = "off" /\ catalogRuns[m] # <<>> =>
          LET gone == ChangeCount(LastRun(m).id, {"deleted"})
              tookHalf == gone > 0 /\ 2 * gone >= Cardinality(LiveFiles(m)) + gone
          IN /\ tookHalf => m \in massGone
             /\ m \in massGone /\ LastRun(m).state = "completed" => tookHalf
    <2> SUFFICES ASSUME NEW m \in Members \ cutShort, catalogScan.pc = "off", catalogRuns[m] # <<>>
                 PROVE  /\ HalfGone(m) => m \in massGone
                        /\ m \in massGone /\ LastRun(m).state = "completed" => HalfGone(m)
      BY DEF ChangeCount, Taken, TakenBy, HalfGone
    <2>1. LossOfLastRun(m) /\ HasRun(m) /\ ~Sweeping(m)
      BY DEF HistoryInv, LossIsCounted, HasRun, Sweeping
    <2>2. HalfGone(m) => Taken(m) # 0
      BY DEF HalfGone
    <2> QED BY <2>1, <2>2 DEF LossOfLastRun
  <1>4. catalogScan.pc = "off" /\ (\A m \in Members : catalogRuns[m] # <<>> /\ LastRun(m).state = "completed") =>
          Totals = SumOf([m \in Members |-> Cardinality(LiveFiles(m))])
    BY TotalsAre
  <1>5. (\A m \in Members : Current(m)) =>
          /\ \A f \in PoolFiles :
               LET holding == {m \in Members : onMember[m][f] > 0}
                   disks == Cardinality({DiskOfMember[m] : m \in holding})
               IN /\ CopiesListed(f) = disks
                  /\ (\A m, n \in holding : DiskOfMember[m] = DiskOfMember[n] => m = n) => CopiesFound(f) = disks
          /\ \A m \in Members :
               LossOf(m) = {f \in PoolFiles : (\E n \in Members : onMember[n][f] > 0)
                              /\ \A n \in Members : onMember[n][f] > 0 => DiskOfMember[n] = DiskOfMember[m]}
    <2> HAVE \A m \in Members : Current(m)
    <2>1. \A f \in PoolFiles :
            LET holding == {m \in Members : onMember[m][f] > 0}
                disks == Cardinality({DiskOfMember[m] : m \in holding})
            IN /\ CopiesListed(f) = disks
               /\ (\A m, n \in holding : DiskOfMember[m] = DiskOfMember[n] => m = n) => CopiesFound(f) = disks
      <3> TAKE f \in PoolFiles
      <3> DEFINE holding == {m \in Members : onMember[m][f] > 0}
      <3>1. {n \in Members : f \in LiveFiles(n)} = holding
        BY CurrentIs
      <3>2. CopiesListed(f) = Cardinality({DiskOfMember[m] : m \in holding}) /\ CopiesFound(f) = Cardinality(holding)
        BY <3>1 DEF CopiesListed, CopiesFound
      <3>3. IsFiniteSet(holding)
        BY HistoryAssumption, FS_Subset
      <3> HIDE DEF holding
      <3>4. ASSUME \A m, n \in holding : DiskOfMember[m] = DiskOfMember[n] => m = n
            PROVE  Cardinality({DiskOfMember[m] : m \in holding}) = Cardinality(holding)
        BY <3>3, <3>4, ImageIsAsLarge
      <3> QED BY <3>2, <3>4 DEF holding
    <2> QED BY <2>1, LossIs
  <1>6. PoolMissing \cap UNION {LiveFiles(m) : m \in Members} = {}
    BY DEF PoolMissing
  <1> QED BY <1>1, <1>2, <1>3, <1>4, <1>5, <1>6 DEF CatalogAnswersTruly

(* The rows, the runs and the log of changes keep their types, whatever    *)
(* the members and the files are.                                          *)
THEOREM HistoryTypeCorrect == HistorySpec => []HistoryTypeOK
  <1>1. HistoryInv => HistoryTypeOK
    <2> SUFFICES ASSUME HistoryTyped PROVE HistoryTypeOK
      BY DEF HistoryInv
    <2>1. \A i \in DOMAIN history : history[i].kind \in {"created", "modified", "deleted", "restored"}
      BY DEF HistoryTyped, ChangeType
    <2>2. \A m \in Members, f \in PoolFiles : rowOf[m][f] \in [state : {"none", "live", "deleted"}, stamp : 0..2, run : 0..MaxCatalogRuns]
      BY DEF HistoryTyped, FileRowType
    <2> QED BY <2>1, <2>2, ScanIs DEF HistoryTyped, HistoryTypeOK
  <1> QED BY <1>1, HistoryHolds, PTL

(* Whatever fails, is pruned or purged on the way: the log of changes ends *)
(* with every row as it is, each change follows from the one before it, a  *)
(* member has the alert on mass deletion just when its completed pass took *)
(* half its files, the totals of a catalog whose passes are done count its *)
(* live rows, and the storage view counts the disks that hold a file.      *)
THEOREM HistoryIsTrue == HistorySpec => []CatalogAnswersTruly
  BY AnswersFollow, HistoryHolds, PTL

-----------------------------------------------------------------------------
(* A loop of n turns, each from what the turn before has left.             *)
IsLoop(f, S, x, n, G) ==
  /\ f \in [0..n -> S] /\ f[0] = x
  /\ \A k \in 1..n : f[k] = G[<<f[k - 1], k>>]

LEMMA LoopRuns ==
  ASSUME NEW S, NEW x \in S, NEW n \in Nat, NEW G \in [S \X Nat -> S]
  PROVE \E f : IsLoop(f, S, x, n, G)
  <1> DEFINE Ran(m) == \E f \in [0..m -> S] : f[0] = x /\ \A k \in 1..m : f[k] = G[<<f[k - 1], k>>]
             Bad == {m \in Nat : ~Ran(m)}
  <1>1. Bad = {}
    <2> SUFFICES ASSUME Bad # {} PROVE FALSE
      OBVIOUS
    <2>1. PICK m \in Bad : \A k \in Bad : m <= k
      <3>1. Bad \in SUBSET Nat
        OBVIOUS
      <3> QED BY <3>1, LeastIs
    <2>2. m # 0
      <3>1. Ran(0)
        <4> DEFINE z == [k \in 0..0 |-> x]
        <4>1. z \in [0..0 -> S] /\ z[0] = x /\ 1..0 = {}
          OBVIOUS
        <4> HIDE DEF z
        <4> QED BY <4>1
      <3> QED BY <3>1, <2>1
    <2>3. m - 1 \in Nat /\ Ran(m - 1)
      BY <2>1, <2>2
    <2>4. PICK f \in [0..(m - 1) -> S] : f[0] = x /\ \A k \in 1..(m - 1) : f[k] = G[<<f[k - 1], k>>]
      BY <2>3
    <2> DEFINE g == [k \in 0..m |-> IF k = m THEN G[<<f[m - 1], m>>] ELSE f[k]]
    <2>5. f[m - 1] \in S /\ G[<<f[m - 1], m>>] \in S
      BY <2>3, <2>4
    <2>6. g \in [0..m -> S]
      BY <2>4, <2>5, <2>3
    <2>7. g[0] = x /\ \A k \in 1..m : g[k] = G[<<g[k - 1], k>>]
      <3>1. g[0] = x
        BY <2>2, <2>3, <2>4
      <3>2. ASSUME NEW k \in 1..m PROVE g[k] = G[<<g[k - 1], k>>]
        <4>1. k - 1 \in 0..m /\ k - 1 # m /\ k \in 0..m /\ m \in Nat
          BY <2>1
        <4>2. g[k - 1] = f[k - 1]
          BY <4>1
        <4>3. CASE k = m
          BY <4>1, <4>2, <4>3
        <4>4. CASE k # m
          <5>1. k \in 1..(m - 1)
            BY <4>1, <4>4
          <5>2. g[k] = f[k]
            BY <4>1, <4>4
          <5> QED BY <4>2, <5>1, <5>2, <2>4
        <4> QED BY <4>3, <4>4
      <3> QED BY <3>1, <3>2
    <2>8. Ran(m)
      BY <2>6, <2>7
    <2> QED BY <2>1, <2>8
  <1>2. Ran(n)
    BY <1>1
  <1> QED BY <1>2 DEF IsLoop

(* InOrder() gives disks.                                                  *)
LEMMA InOrderIs ==
  ASSUME NEW ds
  PROVE InOrder(ds) \in Seq(Disks)
  <1> DEFINE N == Len(Benches)
             G == [p \in Seq(Disks) \X Nat |-> IF p[2] \in 1..N /\ Benches[p[2]] \in ds THEN Append(p[1], Benches[p[2]]) ELSE p[1]]
             Eq(g) == g = [k \in 0..N |-> IF k = 0 THEN <<>> ELSE IF Benches[k] \in ds THEN Append(g[k - 1], Benches[k]) ELSE g[k - 1]]
  <1>1. N \in Nat /\ \A k \in 1..N : Benches[k] \in Disks
    BY BenchmarkAssumption DEF Disks
  <1>2. G \in [Seq(Disks) \X Nat -> Seq(Disks)]
    BY <1>1
  <1>3. PICK f \in [0..N -> Seq(Disks)] : f[0] = <<>> /\ \A k \in 1..N : f[k] = G[<<f[k - 1], k>>]
    <2> DEFINE S == Seq(Disks) z == <<>>
    <2>1. z \in S /\ N \in Nat /\ G \in [S \X Nat -> S]
      BY <1>1, <1>2
    <2> HIDE DEF G, N, S, z
    <2>2. PICK f : IsLoop(f, S, z, N, G)
      BY <2>1, LoopRuns
    <2> QED BY <2>2 DEF S, z, IsLoop
  <1>4. Eq(f)
    <2>1. \A k \in 1..N : G[<<f[k - 1], k>>] = IF Benches[k] \in ds THEN Append(f[k - 1], Benches[k]) ELSE f[k - 1]
      <3> TAKE k \in 1..N
      <3>1. k - 1 \in 0..N /\ k \in Nat /\ f[k - 1] \in Seq(Disks)
        BY <1>1, <1>3
      <3>2. <<f[k - 1], k>> \in Seq(Disks) \X Nat
        BY <3>1
      <3> HIDE DEF N
      <3> QED BY <3>2
    <2> DEFINE h == [k \in 0..N |-> IF k = 0 THEN <<>> ELSE IF Benches[k] \in ds THEN Append(f[k - 1], Benches[k]) ELSE f[k - 1]]
    <2>2. \A k \in 0..N : k = 0 \/ k \in 1..N
      BY <1>1
    <2> HIDE DEF G, N
    <2>3. \A k \in 0..N : f[k] = h[k]
      BY <2>1, <2>2, <1>3
    <2>4. f = h
      <3>1. h = [k \in 0..N |-> h[k]] /\ f = [k \in 0..N |-> f[k]]
        BY <1>3
      <3> HIDE DEF h
      <3> QED BY <2>3, <3>1
    <2> QED BY <2>3, <1>3
  <1>5. PICK g : g = (CHOOSE h : Eq(h)) /\ Eq(g)
    BY <1>4
  <1>6. InOrder(ds) = g[N]
    BY <1>5 DEF InOrder
  <1> QED BY <1>6

-----------------------------------------------------------------------------
Measured == {"fast", "slow", "cached", "error", "skipped"}
PerfRowType == [run : 1..MaxBenches, target : Disks \cup {Container}, what : Measured]
BenchType ==
  [run : 0..MaxBenches, pc : {"off", "container", "targets", "judge", "wait"}, half : BOOLEAN,
   done : SUBSET (Disks \cup {Container})]
BenchJobType ==
  [state : {"none", "queued", "claimed", "paused", "completed", "failed", "cancelled"},
   run : 0..MaxBenches, targets : Seq(Disks), cancel : BOOLEAN]
BenchAgentType == [on : BOOLEAN, old : BOOLEAN, stop : BOOLEAN, left : Seq(Disks)]

\* No run is under way, and none is to be resumed.
BenchIdle == BenchAt("off") /\ ~bench.half

BenchTyped ==
  /\ perfResults \in Seq(PerfRowType) /\ bench \in BenchType /\ benchDue \in BOOLEAN
  /\ benchJob \in BenchJobType /\ benchAgent \in [BenchAgents -> BenchAgentType]
  /\ evaluated \subseteq DOMAIN perfResults /\ orphaned \in BOOLEAN

(* The runs are numbered as they begin, and a job bears the number of one. *)
RunsAreNumbered ==
  /\ benchJob.run <= bench.run
  /\ Outstanding => benchJob.run > 0
  /\ BenchIdle /\ benchDue => bench.run < MaxBenches
  /\ ~BenchIdle => bench.run > 0
  /\ ~BenchAt("off") => ~bench.half

(* An outstanding job is of the run under way, or of one to be resumed.    *)
JobBelongs == ~orphaned /\ Outstanding => benchJob.run = bench.run /\ ~BenchIdle

RowsInOrder ==
  ~orphaned => /\ \A i, j \in DOMAIN perfResults : i < j => perfResults[i].run <= perfResults[j].run
               /\ \A i \in DOMAIN perfResults : perfResults[i].run <= bench.run

(* The rows of every run but the present one have been read.               *)
RowsAreRead ==
  ~orphaned => evaluated = {i \in DOMAIN perfResults : perfResults[i].run < bench.run \/ BenchIdle}

(* What the alerts on a disk say, judged by a row of it.                   *)
SaysOf(open, d, i) ==
  /\ <<"error", d>> \in open <=> perfResults[i].what = "error"
  /\ Usable(i) => (<<"slow", d>> \in open <=> IsSlow(i))

SameOf(open, before, d) ==
  /\ <<"error", d>> \in open <=> <<"error", d>> \in before
  /\ <<"slow", d>> \in open <=> <<"slow", d>> \in before

NewestRead(d) ==
  {i \in evaluated : perfResults[i].target = d /\ \A j \in evaluated : perfResults[j].target = d => j <= i}

AlertsTell == ~orphaned => \A d \in Disks : \A i \in NewestRead(d) : SaysOf(benchAlerts, d, i)

BenchInv == BenchTyped /\ RunsAreNumbered /\ JobBelongs /\ RowsInOrder /\ RowsAreRead /\ AlertsTell

-----------------------------------------------------------------------------
(* One turn of evaluateRun() speaks of its own disk, and by that row.      *)
LEMMA TurnTells ==
  ASSUME NEW open, NEW i, NEW d
  PROVE /\ perfResults[i].target # d => SameOf(Judged(open, i), open, d)
        /\ perfResults[i].target = d => SaysOf(Judged(open, i), d, i)
  <1>1. ASSUME perfResults[i].target # d PROVE SameOf(Judged(open, i), open, d)
    BY <1>1 DEF SameOf, Judged
  <1>2. ASSUME perfResults[i].target = d PROVE SaysOf(Judged(open, i), d, i)
    <2>1. CASE perfResults[i].what = "error"
      BY <1>2, <2>1 DEF SaysOf, Judged, Usable
    <2>2. CASE perfResults[i].what = "skipped"
      BY <1>2, <2>2 DEF SaysOf, Judged, Usable
    <2>3. CASE perfResults[i].what \notin {"error", "skipped"}
      BY <1>2, <2>3 DEF SaysOf, Judged, Usable
    <2> QED BY <2>1, <2>2, <2>3
  <1> QED BY <1>1, <1>2

(* evaluateRun() as the loop it is.                                        *)
Turn(f, n) ==
  IF n \in Rows(bench.run) /\ perfResults[n].target \in Disks THEN Judged(f[n - 1], n) ELSE f[n - 1]

LEMMA EvaluatedIs ==
  ASSUME BenchTyped, NEW open
  PROVE \E f : /\ f[0] = open /\ Evaluated(open) = f[Len(perfResults)]
               /\ \A n \in 1..Len(perfResults) : f[n] = Turn(f, n)
  <1> DEFINE N == Len(perfResults)
             S == SUBSET (open \cup ({"error", "slow"} \X Disks))
             C(n) == n \in Rows(bench.run) /\ perfResults[n].target \in Disks
             G == [p \in S \X Nat |-> IF C(p[2]) THEN Judged(p[1], p[2]) ELSE p[1]]
             Eq(g) == g = [n \in 0..N |-> IF n = 0 THEN open ELSE IF C(n) THEN Judged(g[n - 1], n) ELSE g[n - 1]]
  <1>1. N \in Nat /\ open \in S
    BY DEF BenchTyped
  <1>2. G \in [S \X Nat -> S]
    <2>1. ASSUME NEW A \in S, NEW n \in Nat, C(n) PROVE Judged(A, n) \in S
      BY <2>1 DEF Judged
    <2> HIDE DEF S, C
    <2> QED BY <2>1
  <1>3. PICK f : IsLoop(f, S, open, N, G)
    <2> HIDE DEF N, S, G
    <2> QED BY <1>1, <1>2, LoopRuns
  <1>4. \A n \in 1..N : f[n] = IF C(n) THEN Judged(f[n - 1], n) ELSE f[n - 1]
    <2> TAKE n \in 1..N
    <2>1. n - 1 \in 0..N /\ n \in Nat /\ f \in [0..N -> S]
      BY <1>1, <1>3 DEF IsLoop
    <2>2. <<f[n - 1], n>> \in S \X Nat
      <3> HIDE DEF N, S
      <3> QED BY <2>1
    <2>3. G[<<f[n - 1], n>>] = IF C(n) THEN Judged(f[n - 1], n) ELSE f[n - 1]
      <3> HIDE DEF N, S, C
      <3> QED BY <2>2
    <2> HIDE DEF S, G, C
    <2> QED BY <2>3, <1>3 DEF IsLoop
  <1>5. Eq(f)
    <2> DEFINE h == [n \in 0..N |-> IF n = 0 THEN open ELSE IF C(n) THEN Judged(f[n - 1], n) ELSE f[n - 1]]
    <2>1. \A n \in 0..N : n = 0 \/ n \in 1..N
      BY <1>1
    <2>2. f \in [0..N -> S] /\ f[0] = open
      BY <1>3 DEF IsLoop
    <2> HIDE DEF G, N, C, S
    <2>3. \A n \in 0..N : f[n] = h[n]
      BY <2>1, <2>2, <1>4
    <2>4. f = h
      <3>1. h = [n \in 0..N |-> h[n]] /\ f = [n \in 0..N |-> f[n]]
        BY <2>2
      <3> HIDE DEF h
      <3> QED BY <2>3, <3>1
    <2> QED BY <2>4
  <1>6. PICK g : g = (CHOOSE h : Eq(h)) /\ Eq(g)
    BY <1>5
  <1>7. Evaluated(open) = g[N]
    BY <1>6 DEF Evaluated
  <1>8. g[0] = open /\ \A n \in 1..N : g[n] = IF C(n) THEN Judged(g[n - 1], n) ELSE g[n - 1]
    <2>1. 0 \in 0..N /\ \A n \in 1..N : n \in 0..N /\ n # 0
      BY <1>1
    <2> HIDE DEF N, C
    <2> QED BY <2>1, <1>6
  <1> QED BY <1>7, <1>8 DEF Turn

(* Of a disk that the run has rows of, the newest one decides; the others  *)
(* keep what they had.                                                     *)
RunRows(n, d) == {k \in 1..n : perfResults[k].run = bench.run /\ perfResults[k].target = d}

LEMMA EvaluatedTells ==
  ASSUME BenchTyped, NEW open, NEW d \in Disks
  PROVE /\ RunRows(Len(perfResults), d) = {} => SameOf(Evaluated(open), open, d)
        /\ \A i \in RunRows(Len(perfResults), d) :
             (\A j \in RunRows(Len(perfResults), d) : j <= i) => SaysOf(Evaluated(open), d, i)
  <1> DEFINE N == Len(perfResults)
  <1>1. PICK f : /\ f[0] = open /\ Evaluated(open) = f[N]
                 /\ \A n \in 1..N : f[n] = Turn(f, n)
    BY EvaluatedIs
  <1>2. N \in Nat /\ DOMAIN perfResults = 1..N
    BY DEF BenchTyped
  <1> DEFINE Told(n) == /\ RunRows(n, d) = {} => SameOf(f[n], open, d)
                        /\ \A i \in RunRows(n, d) : (\A j \in RunRows(n, d) : j <= i) => SaysOf(f[n], d, i)
             Bad == {n \in 0..N : ~Told(n)}
  <1>3. Told(0)
    BY <1>1 DEF RunRows, SameOf
  <1>4. ASSUME NEW n \in 1..N, Told(n - 1) PROVE Told(n)
    <2>1. n - 1 \in Nat /\ n \in Nat /\ f[n] = Turn(f, n) /\ n \in DOMAIN perfResults
      BY <1>1, <1>2
    <2>2. CASE n \in RunRows(n, d)
      <3>1. f[n] = Judged(f[n - 1], n) /\ perfResults[n].target = d
        BY <2>1, <2>2 DEF Turn, RunRows, Rows
      <3>2. SaysOf(f[n], d, n)
        BY <3>1, TurnTells
      <3>3. ASSUME NEW i \in RunRows(n, d), \A j \in RunRows(n, d) : j <= i PROVE i = n
        <4>1. n <= i /\ i \in 1..n
          BY <2>2, <3>3 DEF RunRows
        <4> QED BY <4>1, <2>1
      <3> QED BY <2>2, <3>2, <3>3
    <2>3. CASE n \notin RunRows(n, d)
      <3>1. RunRows(n, d) = RunRows(n - 1, d)
        <4>1. ASSUME NEW k \in RunRows(n, d) PROVE k \in 1..(n - 1)
          <5>1. k \in 1..n /\ k # n
            BY <4>1, <2>3 DEF RunRows
          <5> QED BY <5>1, <2>1
        <4>2. \A k \in 1..(n - 1) : k \in 1..n
          BY <2>1
        <4> QED BY <4>1, <4>2 DEF RunRows
      <3>2. SameOf(f[n], f[n - 1], d)
        <4>1. CASE n \in Rows(bench.run) /\ perfResults[n].target \in Disks
          <5>1. perfResults[n].target # d
            BY <4>1, <2>1, <2>3 DEF RunRows, Rows
          <5> QED BY <4>1, <5>1, <2>1, TurnTells DEF Turn
        <4>2. CASE ~(n \in Rows(bench.run) /\ perfResults[n].target \in Disks)
          BY <4>2, <2>1 DEF Turn, SameOf
        <4> QED BY <4>1, <4>2
      <3> QED BY <3>1, <3>2, <1>4 DEF SameOf, SaysOf
    <2> QED BY <2>2, <2>3
  <1>5. Bad = {}
    <2> SUFFICES ASSUME Bad # {} PROVE FALSE
      OBVIOUS
    <2>1. PICK n \in Bad : \A k \in Bad : n <= k
      <3>1. Bad \in SUBSET Nat
        BY <1>2
      <3> HIDE DEF Bad
      <3> QED BY <3>1, LeastIs
    <2>2. n \in 0..N /\ ~Told(n)
      OBVIOUS
    <2> HIDE DEF Told
    <2>3. n # 0
      BY <1>3, <2>2
    <2>4. n \in 1..N /\ n - 1 \in 0..N /\ ~(n <= n - 1)
      BY <2>2, <2>3, <1>2
    <2>5. Told(n - 1)
      BY <2>1, <2>4
    <2> QED BY <2>2, <2>4, <2>5, <1>4
  <1>6. Told(N)
    <2>1. N \in 0..N
      BY <1>2
    <2> HIDE DEF Told
    <2> QED BY <2>1, <1>5
  <1> QED BY <1>6, <1>1

-----------------------------------------------------------------------------
(* What a step does to the rows and to what was read of them: rows are     *)
(* added, to the run in progress; or the run is judged; or one begins.     *)
Grows ==
  /\ Len(perfResults) <= Len(perfResults')
  /\ \A i \in DOMAIN perfResults : perfResults'[i] = perfResults[i]
  /\ \A i \in DOMAIN perfResults' \ DOMAIN perfResults :
       ~orphaned => perfResults'[i].run = bench.run /\ ~BenchIdle
  /\ UNCHANGED <<benchAlerts, evaluated, orphaned>> /\ bench'.run = bench.run /\ (BenchIdle' <=> BenchIdle)

Judges ==
  /\ \E open : /\ \A d \in Disks : SameOf(open, benchAlerts, d)
               /\ benchAlerts' = Evaluated(open)
  /\ evaluated' = evaluated \cup Rows(bench.run) /\ UNCHANGED perfResults
  /\ bench'.run = bench.run /\ ~BenchIdle /\ BenchIdle' /\ (orphaned => orphaned')

Opens ==
  /\ BenchIdle /\ ~BenchIdle' /\ bench'.run = bench.run + 1
  /\ UNCHANGED <<perfResults, benchAlerts, evaluated, orphaned>>

LEMMA IdleIs ==
  ASSUME BenchTyped, RunsAreNumbered
  PROVE /\ ~BenchAt("off") => ~BenchIdle /\ ~bench.half
        /\ bench.half => ~BenchIdle
        /\ BenchAt("off") /\ ~bench.half => BenchIdle
  BY DEF BenchIdle, RunsAreNumbered

LEMMA StoppedIs ==
  ASSUME BenchTyped
  PROVE /\ Stopped \in BenchType /\ Stopped.run = bench.run /\ Stopped.pc = "off" /\ Stopped.half = bench.half
        /\ [Stopped EXCEPT !.half = TRUE] \in BenchType
        /\ [Stopped EXCEPT !.half = TRUE].run = bench.run
        /\ [Stopped EXCEPT !.half = TRUE].pc = "off"
        /\ [Stopped EXCEPT !.half = TRUE].half = TRUE
  BY DEF BenchTyped, BenchType, Stopped

LEMMA CompletionJudges ==
  ASSUME BenchTyped, RunsAreNumbered, NEW open, BenchCompletes(open),
         \A d \in Disks : SameOf(open, benchAlerts, d),
         ~BenchAt("off"), UNCHANGED perfResults, orphaned => orphaned'
  PROVE Judges /\ bench' \in BenchType /\ benchDue' = FALSE /\ BenchAt("off")'
  <1>1. bench' = Stopped /\ bench'.run = bench.run /\ bench'.pc = "off" /\ bench'.half = FALSE /\ bench' \in BenchType
    BY StoppedIs, IdleIs DEF BenchCompletes, BenchTyped, BenchType
  <1>2. BenchIdle'
    BY <1>1 DEF BenchIdle, BenchAt
  <1> QED BY <1>1, <1>2, IdleIs DEF Judges, BenchCompletes, BenchAt

LEMMA PausingIs ==
  ASSUME BenchTyped, RunsAreNumbered, BenchPauses, ~BenchAt("off")
  PROVE /\ bench' \in BenchType /\ bench'.run = bench.run /\ BenchAt("off")' /\ bench'.half = TRUE
        /\ ~BenchIdle' /\ ~BenchIdle
  BY StoppedIs, IdleIs DEF BenchPauses, BenchAt, BenchIdle

LEMMA UnavailableIsApart ==
  ASSUME NEW open, NEW d
  PROVE /\ SameOf(open, open, d)
        /\ SameOf(open \cup {<<"unavailable">>}, open, d)
        /\ SameOf(open \ {<<"unavailable">>}, open, d)
  <1>1. <<"error", d>> # <<"unavailable">> /\ <<"slow", d>> # <<"unavailable">>
    OBVIOUS
  <1> QED BY <1>1 DEF SameOf

LEMMA AppendGrows ==
  ASSUME perfResults \in Seq(PerfRowType), NEW row \in PerfRowType, perfResults' = Append(perfResults, row)
  PROVE /\ perfResults' \in Seq(PerfRowType) /\ Len(perfResults) <= Len(perfResults')
        /\ \A i \in DOMAIN perfResults : perfResults'[i] = perfResults[i]
        /\ \A i \in DOMAIN perfResults' \ DOMAIN perfResults : perfResults'[i] = row
  <1>1. /\ Len(perfResults') = Len(perfResults) + 1 /\ Len(perfResults) \in Nat
        /\ DOMAIN perfResults = 1..Len(perfResults) /\ DOMAIN perfResults' = 1..Len(perfResults')
    OBVIOUS
  <1>2. \A i \in DOMAIN perfResults' \ DOMAIN perfResults : i = Len(perfResults) + 1
    BY <1>1
  <1> QED BY <1>1, <1>2

LEMMA ConcatGrows ==
  ASSUME perfResults \in Seq(PerfRowType), NEW more \in Seq(PerfRowType), perfResults' = perfResults \o more
  PROVE /\ perfResults' \in Seq(PerfRowType) /\ Len(perfResults) <= Len(perfResults')
        /\ \A i \in DOMAIN perfResults : perfResults'[i] = perfResults[i]
        /\ \A i \in DOMAIN perfResults' \ DOMAIN perfResults : \E j \in DOMAIN more : perfResults'[i] = more[j]
  <1>1. /\ Len(perfResults') = Len(perfResults) + Len(more) /\ Len(perfResults) \in Nat /\ Len(more) \in Nat
        /\ DOMAIN perfResults = 1..Len(perfResults) /\ DOMAIN perfResults' = 1..Len(perfResults')
        /\ DOMAIN more = 1..Len(more) /\ perfResults' \in Seq(PerfRowType)
    OBVIOUS
  <1>2. ASSUME NEW i \in DOMAIN perfResults' \ DOMAIN perfResults
        PROVE \E j \in DOMAIN more : perfResults'[i] = more[j]
    <2>1. i - Len(perfResults) \in 1..Len(more)
      BY <1>1
    <2>2. perfResults'[i] = more[i - Len(perfResults)]
      BY <1>1, <2>1
    <2> QED BY <2>1, <2>2, <1>1
  <1> QED BY <1>1, <1>2

LEMMA NothingGrows ==
  ASSUME BenchTyped, UNCHANGED <<perfResults, benchAlerts, evaluated, orphaned>>, bench'.run = bench.run, BenchIdle' <=> BenchIdle
  PROVE Grows
  <1>1. Len(perfResults) \in Nat
    BY DEF BenchTyped
  <1> QED BY <1>1 DEF Grows

-----------------------------------------------------------------------------
(* Each step keeps the types and the numbers, and is of one of those kinds. *)
Steady == BenchTyped' /\ RunsAreNumbered' /\ JobBelongs' /\ (Grows \/ Judges \/ Opens)

LEMMA ReadRowsAreRows ==
  ASSUME BenchTyped, perfResults' \in Seq(PerfRowType), Grows \/ Judges \/ Opens
  PROVE evaluated' \subseteq DOMAIN perfResults'
  <1>1. Len(perfResults) \in Nat /\ DOMAIN perfResults = 1..Len(perfResults) /\ evaluated \subseteq DOMAIN perfResults
    BY DEF BenchTyped
  <1>2. Len(perfResults') \in Nat /\ DOMAIN perfResults' = 1..Len(perfResults')
    OBVIOUS
  <1>3. CASE Grows
    BY <1>1, <1>2, <1>3 DEF Grows
  <1>4. CASE Judges
    BY <1>1, <1>4 DEF Judges, Rows
  <1>5. CASE Opens
    BY <1>1, <1>5 DEF Opens
  <1> QED BY <1>3, <1>4, <1>5

LEMMA BeginningSteady == ASSUME BenchTyped, RunsAreNumbered, JobBelongs, BenchBegins PROVE Steady
  <1> DEFINE run == IF bench.half THEN bench.run ELSE bench.run + 1
  <1>1. bench.run \in 0..MaxBenches /\ bench.half \in BOOLEAN /\ MaxBenches \in Nat
    BY BenchmarkAssumption DEF BenchTyped, BenchType
  <1>2. run \in 1..MaxBenches
    <2>1. CASE bench.half
      BY <1>1, <2>1, IdleIs DEF RunsAreNumbered
    <2>2. CASE ~bench.half
      BY <1>1, <2>2, IdleIs DEF RunsAreNumbered, BenchBegins
    <2> QED BY <2>1, <2>2
  <1>3. DoneBy(run) \subseteq Disks \cup {Container}
    <2>1. \A i \in DOMAIN perfResults : perfResults[i] \in PerfRowType
      BY DEF BenchTyped
    <2>2. \A i \in DOMAIN perfResults : perfResults[i].target \in Disks \cup {Container}
      BY <2>1 DEF PerfRowType
    <2> QED BY <2>2 DEF DoneBy, Rows
  <1>4. bench' = [run |-> run, pc |-> "container", half |-> FALSE, done |-> DoneBy(run)]
    BY DEF BenchBegins
  <1> HIDE DEF run
  <1>5. bench' \in BenchType /\ bench'.run = run /\ bench'.pc = "container" /\ bench'.half = FALSE
    BY <1>1, <1>2, <1>3, <1>4 DEF BenchType
  <1>6. ~BenchIdle' /\ ~BenchAt("off")'
    BY <1>5 DEF BenchIdle, BenchAt
  <1>7. CASE bench.half
    <2>1. run = bench.run /\ ~BenchIdle
      BY <1>7, IdleIs DEF run
    <2>2. Grows
      BY <2>1, <1>5, <1>6, NothingGrows DEF BenchBegins
    <2>3. BenchTyped'
      BY <2>2, <1>5, ReadRowsAreRows DEF BenchTyped, BenchBegins
    <2> QED BY <2>1, <2>2, <2>3, <1>2, <1>5, <1>6 DEF Steady, BenchBegins, RunsAreNumbered, JobBelongs, Outstanding
  <1>8. CASE ~bench.half
    <2>1. run = bench.run + 1 /\ BenchIdle
      BY <1>8, IdleIs DEF run, BenchBegins
    <2>2. Opens
      BY <2>1, <1>5, <1>6 DEF Opens, BenchBegins
    <2>3. BenchTyped'
      BY <2>2, <1>5, ReadRowsAreRows DEF BenchTyped, BenchBegins
    <2>4. benchJob.run \in Nat
      BY <1>1 DEF BenchTyped, BenchJobType
    <2>5. RunsAreNumbered'
      BY <2>1, <2>4, <1>1, <1>2, <1>5, <1>6 DEF BenchBegins, RunsAreNumbered, Outstanding
    <2>6. JobBelongs'
      BY <2>1 DEF BenchBegins, JobBelongs, Outstanding
    <2> QED BY <2>2, <2>3, <2>5, <2>6 DEF Steady
  <1> QED BY <1>1, <1>7, <1>8

LEMMA ContainerSteady == ASSUME BenchTyped, RunsAreNumbered, JobBelongs, MeasuresContainer PROVE Steady
  <1>1. ~BenchAt("off") /\ ~BenchIdle /\ bench.run \in 1..MaxBenches /\ bench.half = FALSE /\ bench \in BenchType
    <2>1. ~BenchAt("off")
      BY DEF BenchAt, MeasuresContainer
    <2> QED BY <2>1, IdleIs, BenchmarkAssumption DEF RunsAreNumbered, BenchTyped, BenchType
  <1>2. CASE ~benchWindow /\ BenchPauses /\ UNCHANGED perfResults
    <2>1. /\ bench' \in BenchType /\ bench'.run = bench.run /\ BenchAt("off")' /\ bench'.half = TRUE /\ ~BenchIdle'
      BY <1>1, <1>2, PausingIs
    <2>2. Grows
      BY <1>1, <1>2, <2>1, NothingGrows DEF BenchPauses, MeasuresContainer
    <2>3. BenchTyped'
      BY <1>2, <2>1, <2>2, ReadRowsAreRows DEF BenchTyped, BenchPauses, MeasuresContainer
    <2> QED BY <1>1, <1>2, <2>1, <2>2, <2>3 DEF Steady, MeasuresContainer, BenchPauses, RunsAreNumbered, JobBelongs, Outstanding
  <1>3. CASE ~(~benchWindow /\ BenchPauses /\ UNCHANGED perfResults)
    <2>1. bench' = [bench EXCEPT !.pc = "targets"]
      BY <1>3 DEF MeasuresContainer
    <2>2. bench' \in BenchType /\ bench'.run = bench.run /\ bench'.pc = "targets" /\ bench'.half = FALSE
      BY <1>1, <2>1 DEF BenchType
    <2>3. ~BenchIdle' /\ ~BenchAt("off")'
      BY <2>2 DEF BenchIdle, BenchAt
    <2>4. UNCHANGED <<benchAlerts, evaluated, benchDue, benchJob, benchAgent, orphaned>>
      BY <1>3 DEF MeasuresContainer
    <2>5. perfResults' \in Seq(PerfRowType) /\ Grows
      <3>1. CASE Container \in bench.done
        <4>1. UNCHANGED perfResults
          BY <1>3, <3>1 DEF MeasuresContainer
        <4> QED BY <4>1, <1>1, <2>2, <2>3, <2>4, NothingGrows DEF BenchTyped
      <3>2. CASE Container \notin bench.done
        <4> DEFINE row == PerfRow(bench.run, Container, "fast")
        <4>1. perfResults' = Append(perfResults, row)
          BY <1>3, <3>2 DEF MeasuresContainer
        <4>2. row \in PerfRowType /\ row.run = bench.run
          BY <1>1 DEF PerfRow, PerfRowType, Measured
        <4> HIDE DEF row
        <4>3. perfResults \in Seq(PerfRowType)
          BY DEF BenchTyped
        <4> QED BY <4>1, <4>2, <4>3, <1>1, <2>2, <2>3, <2>4, AppendGrows DEF Grows
      <3> QED BY <3>1, <3>2
    <2>6. BenchTyped'
      BY <2>2, <2>4, <2>5, ReadRowsAreRows DEF BenchTyped
    <2> QED BY <1>1, <2>2, <2>3, <2>4, <2>5, <2>6 DEF Steady, RunsAreNumbered, JobBelongs, Outstanding
  <1> QED BY <1>2, <1>3

LEMMA HandingOutSteady == ASSUME BenchTyped, RunsAreNumbered, JobBelongs, HandsOut PROVE Steady
  <1>1. ~BenchAt("off") /\ ~BenchIdle /\ bench.run \in 1..MaxBenches /\ bench.half = FALSE /\ bench \in BenchType
    <2>1. ~BenchAt("off")
      BY DEF BenchAt, HandsOut
    <2> QED BY <2>1, IdleIs, BenchmarkAssumption DEF RunsAreNumbered, BenchTyped, BenchType
  <1>2. UNCHANGED <<benchDue, benchAlerts, evaluated, orphaned>>
    BY DEF HandsOut
  <1>3. PICK short, rest :
          /\ short \in Seq(Disks) /\ rest \in Seq(Disks)
          /\ perfResults' = perfResults \o [i \in DOMAIN short |-> PerfRow(bench.run, short[i], "skipped")]
          /\ IF rest = <<>>
             THEN bench' = [bench EXCEPT !.pc = "judge"] /\ UNCHANGED <<benchJob, benchAgent>>
             ELSE /\ bench' = [bench EXCEPT !.pc = "wait"]
                  /\ IF Outstanding THEN UNCHANGED <<benchJob, benchAgent>>
                     ELSE /\ benchJob' = [state |-> "queued", run |-> bench.run, targets |-> rest, cancel |-> FALSE]
                          /\ benchAgent' = [a \in BenchAgents |-> [benchAgent[a] EXCEPT !.old = TRUE]]
    <2>1. PICK tight \in SUBSET {d \in Disks : "skipped" \in MayMeasure[d]} :
       LET short == InOrder(tight \ bench.done)
           rest == InOrder((Disks \ tight) \ bench.done)
       IN /\ perfResults' = perfResults \o [i \in DOMAIN short |-> PerfRow(bench.run, short[i], "skipped")]
          /\ IF rest = <<>>
             THEN bench' = [bench EXCEPT !.pc = "judge"] /\ UNCHANGED <<benchJob, benchAgent>>
             ELSE /\ bench' = [bench EXCEPT !.pc = "wait"]
                  /\ IF Outstanding THEN UNCHANGED <<benchJob, benchAgent>>
                     ELSE /\ benchJob' = [state |-> "queued", run |-> bench.run, targets |-> rest, cancel |-> FALSE]
                          /\ benchAgent' = [a \in BenchAgents |-> [benchAgent[a] EXCEPT !.old = TRUE]]
      BY DEF HandsOut
    <2> QED BY <2>1, InOrderIs
  <1>4. PICK pc \in {"judge", "wait"} : bench' = [bench EXCEPT !.pc = pc]
    BY <1>3
  <1>5. bench' \in BenchType /\ bench'.run = bench.run /\ bench'.pc # "off" /\ bench'.half = FALSE
    BY <1>1, <1>4 DEF BenchType
  <1>6. ~BenchIdle' /\ ~BenchAt("off")'
    BY <1>5 DEF BenchIdle, BenchAt
  <1>7. perfResults' \in Seq(PerfRowType) /\ Grows
    <2> DEFINE more == [i \in DOMAIN short |-> PerfRow(bench.run, short[i], "skipped")]
    <2>1. more \in Seq(PerfRowType) /\ \A j \in DOMAIN more : more[j].run = bench.run
      <3>1. DOMAIN short = 1..Len(short) /\ Len(short) \in Nat /\ \A i \in DOMAIN short : short[i] \in Disks
        BY <1>3
      <3>2. \A i \in DOMAIN short : PerfRow(bench.run, short[i], "skipped") \in PerfRowType
        BY <3>1, <1>1 DEF PerfRow, PerfRowType, Measured
      <3>3. \A i \in DOMAIN short : PerfRow(bench.run, short[i], "skipped").run = bench.run
        BY DEF PerfRow
      <3> QED BY <3>1, <3>2, <3>3
    <2>2. perfResults' = perfResults \o more
      BY <1>3
    <2> HIDE DEF more
    <2>3. perfResults \in Seq(PerfRowType)
      BY DEF BenchTyped
    <2> QED BY <2>1, <2>2, <2>3, <1>1, <1>2, <1>5, <1>6, ConcatGrows DEF Grows
  <1>8. CASE UNCHANGED <<benchJob, benchAgent>>
    <2>1. BenchTyped'
      BY <1>2, <1>5, <1>7, <1>8, ReadRowsAreRows DEF BenchTyped
    <2> QED BY <1>1, <1>2, <1>5, <1>6, <1>7, <1>8, <2>1 DEF Steady, RunsAreNumbered, JobBelongs, Outstanding
  <1>9. CASE ~UNCHANGED <<benchJob, benchAgent>>
    <2>1. /\ benchJob' = [state |-> "queued", run |-> bench.run, targets |-> rest, cancel |-> FALSE]
          /\ benchAgent' = [a \in BenchAgents |-> [benchAgent[a] EXCEPT !.old = TRUE]]
      BY <1>3, <1>9
    <2>2. benchJob' \in BenchJobType /\ benchJob'.run = bench.run
      BY <2>1, <1>1, <1>3 DEF BenchJobType
    <2>3. benchAgent' \in [BenchAgents -> BenchAgentType]
      <3>1. \A a \in BenchAgents : [benchAgent[a] EXCEPT !.old = TRUE] \in BenchAgentType
        BY DEF BenchTyped, BenchAgentType
      <3> QED BY <2>1, <3>1
    <2>4. BenchTyped'
      BY <1>2, <1>5, <1>7, <2>2, <2>3, ReadRowsAreRows DEF BenchTyped
    <2> QED BY <1>1, <1>2, <1>5, <1>6, <1>7, <2>2, <2>4 DEF Steady, RunsAreNumbered, JobBelongs, Outstanding
  <1> QED BY <1>8, <1>9

(* A run that was judged is over, and no job of its is outstanding unless  *)
(* the ghost says so.                                                      *)
LEMMA JudgedSteady ==
  ASSUME BenchTyped, RunsAreNumbered, JobBelongs, ~BenchAt("off"),
         NEW open, BenchCompletes(open), \A d \in Disks : SameOf(open, benchAlerts, d),
         UNCHANGED <<perfResults, benchAgent>>, orphaned => orphaned', orphaned' \in BOOLEAN,
         benchJob' \in BenchJobType, benchJob'.run = benchJob.run, Outstanding' => Outstanding /\ orphaned'
  PROVE Steady
  <1>1. Judges /\ bench' \in BenchType /\ benchDue' = FALSE /\ BenchAt("off")'
    BY CompletionJudges
  <1>2. BenchTyped'
    BY <1>1, ReadRowsAreRows DEF BenchTyped
  <1>3. RunsAreNumbered'
    BY <1>1 DEF RunsAreNumbered, Judges
  <1> QED BY <1>1, <1>2, <1>3 DEF Steady, JobBelongs

LEMMA AtOnceSteady == ASSUME BenchTyped, RunsAreNumbered, JobBelongs, JudgesAtOnce PROVE Steady
  <1>1. ~BenchAt("off")
    BY DEF JudgesAtOnce, BenchAt
  <1>2. Outstanding' <=> Outstanding
    BY DEF JudgesAtOnce, Outstanding
  <1>3. \A d \in Disks : SameOf(benchAlerts, benchAlerts, d)
    BY UnavailableIsApart
  <1> QED BY <1>1, <1>2, <1>3, JudgedSteady DEF JudgesAtOnce, BenchTyped

LEMMA UnclaimedSteady == ASSUME BenchTyped, RunsAreNumbered, JobBelongs, NobodyClaims PROVE Steady
  <1>1. ~BenchAt("off")
    BY DEF NobodyClaims, BenchAt
  <1>2. benchJob' \in BenchJobType /\ benchJob'.run = benchJob.run /\ benchJob'.state = "cancelled"
    BY DEF NobodyClaims, BenchTyped, BenchJobType
  <1>3. \A d \in Disks : SameOf(benchAlerts \cup {<<"unavailable">>}, benchAlerts, d)
    BY UnavailableIsApart
  <1> QED BY <1>1, <1>2, <1>3, JudgedSteady DEF NobodyClaims, BenchTyped, Outstanding

LEMMA EndSteady == ASSUME BenchTyped, RunsAreNumbered, JobBelongs, SeesTheEnd PROVE Steady
  <1>1. ~BenchAt("off") /\ ~Outstanding
    BY DEF SeesTheEnd, BenchAt
  <1>2. UNCHANGED <<perfResults, benchJob, benchAgent, orphaned>>
    BY DEF SeesTheEnd
  <1>3. ~Outstanding'
    BY <1>1, <1>2 DEF Outstanding
  <1>4. CASE BenchPauses
    <2>1. /\ bench' \in BenchType /\ bench'.run = bench.run /\ BenchAt("off")' /\ bench'.half = TRUE
          /\ ~BenchIdle' /\ ~BenchIdle
      BY <1>1, <1>4, PausingIs
    <2>2. Grows
      BY <1>2, <1>4, <2>1, NothingGrows DEF BenchPauses
    <2>3. BenchTyped'
      BY <1>2, <1>4, <2>1, <2>2, ReadRowsAreRows DEF BenchTyped, BenchPauses
    <2> QED BY <1>2, <1>3, <2>1, <2>2, <2>3 DEF Steady, RunsAreNumbered, JobBelongs
  <1>5. CASE ~BenchPauses
    <2>1. PICK open \in {benchAlerts, benchAlerts \ {<<"unavailable">>}} : BenchCompletes(open)
      BY <1>5 DEF SeesTheEnd
    <2>2. \A d \in Disks : SameOf(open, benchAlerts, d)
      BY <2>1, UnavailableIsApart
    <2> QED BY <1>1, <1>2, <1>3, <2>1, <2>2, JudgedSteady DEF BenchTyped
  <1> QED BY <1>4, <1>5

LEMMA WindowNoticedSteady == ASSUME BenchTyped, RunsAreNumbered, JobBelongs, NoticesWindow PROVE Steady
  <1>1. ~BenchAt("off") /\ Outstanding /\ ~BenchIdle
    BY IdleIs DEF NoticesWindow, BenchAt
  <1>2. UNCHANGED <<perfResults, benchAgent, orphaned>>
    BY DEF NoticesWindow
  <1>3. CASE BenchPauses /\ benchJob' = [benchJob EXCEPT !.state = "cancelled", !.cancel = TRUE]
    <2>1. /\ bench' \in BenchType /\ bench'.run = bench.run /\ BenchAt("off")' /\ bench'.half = TRUE
          /\ ~BenchIdle'
      BY <1>1, <1>3, PausingIs
    <2>2. benchJob' \in BenchJobType /\ benchJob'.run = benchJob.run
      BY <1>3 DEF BenchTyped, BenchJobType
    <2>3. benchJob'.state = "cancelled"
      BY <1>3 DEF BenchTyped, BenchJobType
    <2>4. Grows
      BY <1>1, <1>2, <1>3, <2>1, NothingGrows DEF BenchPauses
    <2>5. BenchTyped'
      BY <1>2, <1>3, <2>1, <2>2, <2>4, ReadRowsAreRows DEF BenchTyped, BenchPauses
    <2> QED BY <1>1, <1>2, <2>1, <2>2, <2>3, <2>4, <2>5 DEF Steady, RunsAreNumbered, JobBelongs, Outstanding
  <1>4. CASE ~(BenchPauses /\ benchJob' = [benchJob EXCEPT !.state = "cancelled", !.cancel = TRUE])
    <2>1. benchJob' = [benchJob EXCEPT !.cancel = TRUE] /\ UNCHANGED <<bench, benchAlerts, evaluated, benchDue>>
      BY <1>4 DEF NoticesWindow
    <2>2. benchJob' \in BenchJobType /\ benchJob'.run = benchJob.run /\ benchJob'.state = benchJob.state
      BY <2>1 DEF BenchTyped, BenchJobType
    <2>3. BenchIdle' <=> BenchIdle
      BY <2>1 DEF BenchIdle, BenchAt
    <2>4. Grows
      BY <1>2, <2>1, <2>3, NothingGrows
    <2>5. BenchTyped'
      BY <1>2, <2>1, <2>2, <2>4, ReadRowsAreRows DEF BenchTyped
    <2> QED BY <1>1, <1>2, <2>1, <2>2, <2>3, <2>4, <2>5 DEF Steady, RunsAreNumbered, JobBelongs, Outstanding, BenchAt
  <1> QED BY <1>3, <1>4

-----------------------------------------------------------------------------
(* The agents touch neither the run nor the alerts.                        *)
LEMMA AgentSteady ==
  ASSUME BenchTyped, RunsAreNumbered, JobBelongs, UNCHANGED <<bench, benchDue, benchAlerts, evaluated, orphaned>>,
         perfResults' \in Seq(PerfRowType), Grows \/ UNCHANGED perfResults,
         benchJob' \in BenchJobType, benchJob'.run = benchJob.run, Outstanding' => Outstanding,
         benchAgent' \in [BenchAgents -> BenchAgentType]
  PROVE Steady
  <1>1. BenchIdle' <=> BenchIdle
    BY DEF BenchIdle, BenchAt
  <1>2. Grows
    BY <1>1, NothingGrows
  <1>3. BenchTyped'
    BY <1>2, ReadRowsAreRows DEF BenchTyped
  <1> QED BY <1>1, <1>2, <1>3 DEF Steady, RunsAreNumbered, JobBelongs, BenchAt

LEMMA IdleAgent == IdleBench \in BenchAgentType
  BY DEF IdleBench, BenchAgentType

LEMMA ClaimSteady ==
  ASSUME BenchTyped, RunsAreNumbered, JobBelongs, NEW a \in BenchAgents, BenchClaims(a) PROVE Steady
  <1>1. Outstanding
    BY DEF BenchClaims, Outstanding
  <1>2. benchJob' \in BenchJobType /\ benchJob'.run = benchJob.run
    BY DEF BenchClaims, StartsOn, BenchTyped, BenchJobType
  <1>3. benchAgent' \in [BenchAgents -> BenchAgentType]
    <2>1. [IdleBench EXCEPT !.on = TRUE, !.left = benchJob.targets] \in BenchAgentType
      BY DEF BenchTyped, BenchJobType, BenchAgentType, IdleBench
    <2> QED BY <2>1 DEF BenchClaims, StartsOn, BenchTyped
  <1> QED BY <1>1, <1>2, <1>3, AgentSteady DEF BenchClaims, StartsOn, BenchTyped

LEMMA MeasuringSteady ==
  ASSUME BenchTyped, RunsAreNumbered, JobBelongs, NEW a \in BenchAgents, Measures(a) PROVE Steady
  <1> DEFINE me == benchAgent[a] d == Head(me.left)
  <1>1. me \in BenchAgentType /\ me.left \in Seq(Disks) /\ me.left # <<>>
    BY DEF BenchTyped, BenchAgentType, Measures
  <1>2. d \in Disks /\ Tail(me.left) \in Seq(Disks)
    BY <1>1
  <1>3. UNCHANGED <<bench, benchDue, benchJob, benchAlerts, evaluated, orphaned>>
    BY DEF Measures
  <1>4. benchAgent' \in [BenchAgents -> BenchAgentType]
    <2>1. PICK stop \in BOOLEAN : benchAgent' = [benchAgent EXCEPT ![a].left = Tail(@), ![a].stop = stop]
      BY DEF Measures
    <2>2. [me EXCEPT !.left = Tail(@), !.stop = stop] \in BenchAgentType
      BY <1>1, <1>2 DEF BenchAgentType
    <2> QED BY <2>1, <2>2 DEF BenchTyped
  <1>5. perfResults' \in Seq(PerfRowType) /\ (Grows \/ UNCHANGED perfResults)
    <2>1. CASE ~Takes(a)
      BY <2>1 DEF Measures, BenchTyped
    <2>2. CASE Takes(a)
      <3>1. PICK what \in MayMeasure[d] \ {"skipped"} : perfResults' = Append(perfResults, PerfRow(benchJob.run, d, what))
        BY <2>2 DEF Measures
      <3>2. what \in Measured
        BY <1>2, <3>1, BenchmarkAssumption DEF Measured
      <3>3. Outstanding /\ benchJob.run \in 1..MaxBenches
        BY <2>2, BenchmarkAssumption DEF Takes, Outstanding, RunsAreNumbered, BenchTyped, BenchJobType
      <3> DEFINE row == PerfRow(benchJob.run, d, what)
      <3>4. row \in PerfRowType /\ row.run = benchJob.run
        BY <1>2, <3>2, <3>3 DEF PerfRow, PerfRowType
      <3>5. perfResults' = Append(perfResults, row) /\ perfResults \in Seq(PerfRowType)
        BY <3>1 DEF BenchTyped
      <3>6. BenchIdle' <=> BenchIdle
        BY <1>3 DEF BenchIdle, BenchAt
      <3> HIDE DEF row, d, me
      <3>7. Grows
        BY <3>3, <3>4, <3>5, <3>6, <1>3, AppendGrows DEF Grows, JobBelongs
      <3> QED BY <3>4, <3>5, <3>7, AppendGrows
    <2> QED BY <2>1, <2>2
  <1>6. Outstanding' <=> Outstanding
    BY <1>3 DEF Outstanding
  <1> HIDE DEF me, d
  <1> QED BY <1>3, <1>4, <1>5, <1>6, AgentSteady DEF BenchTyped

LEMMA EndingSteady ==
  ASSUME BenchTyped, RunsAreNumbered, JobBelongs, NEW a \in BenchAgents,
         NEW state \in {"paused", "completed", "failed"}, BenchEnds(a, state)
  PROVE Steady
  <1>1. benchJob' \in BenchJobType /\ benchJob'.run = benchJob.run /\ (Outstanding' => Outstanding)
    <2>1. CASE benchAgent[a].old
      BY <2>1 DEF BenchEnds, BenchTyped, Outstanding
    <2>2. CASE ~benchAgent[a].old
      <3>1. benchJob' = [benchJob EXCEPT !.state = state]
        BY <2>2 DEF BenchEnds
      <3>2. benchJob' \in BenchJobType /\ benchJob'.run = benchJob.run /\ benchJob'.state = state
        BY <3>1 DEF BenchTyped, BenchJobType
      <3> QED BY <3>2 DEF Outstanding
    <2> QED BY <2>1, <2>2
  <1>2. benchAgent' \in [BenchAgents -> BenchAgentType]
    BY IdleAgent DEF BenchEnds, BenchTyped
  <1> QED BY <1>1, <1>2, AgentSteady DEF BenchEnds, BenchTyped

LEMMA DyingSteady ==
  ASSUME BenchTyped, RunsAreNumbered, JobBelongs, NEW a \in BenchAgents, BenchAgentDies(a) PROVE Steady
  <1>1. benchAgent' \in [BenchAgents -> BenchAgentType]
    BY IdleAgent DEF BenchAgentDies, BenchTyped
  <1>2. Outstanding' <=> Outstanding
    BY DEF BenchAgentDies, Outstanding
  <1> QED BY <1>1, <1>2, AgentSteady DEF BenchAgentDies, BenchTyped

LEMMA StandingSteady ==
  ASSUME BenchTyped, RunsAreNumbered, JobBelongs, WindowMoves \/ UNCHANGED benchVars PROVE Steady
  <1>1. UNCHANGED <<perfResults, bench, benchDue, benchJob, benchAgent, benchAlerts, evaluated, orphaned>>
    BY DEF WindowMoves, benchVars
  <1>2. Outstanding' <=> Outstanding
    BY <1>1 DEF Outstanding
  <1> QED BY <1>1, <1>2, AgentSteady DEF BenchTyped

LEMMA RestartSteady == ASSUME BenchTyped, RunsAreNumbered, JobBelongs, BenchServiceDies PROVE Steady
  <1>1. ~BenchAt("off") /\ ~BenchIdle
    BY IdleIs DEF BenchServiceDies
  <1>2. bench' \in BenchType /\ bench'.run = bench.run /\ bench'.pc = "off" /\ bench'.half = TRUE
    BY StoppedIs DEF BenchServiceDies
  <1>3. BenchAt("off")' /\ ~BenchIdle'
    BY <1>2 DEF BenchIdle, BenchAt
  <1>4. Grows
    BY <1>1, <1>2, <1>3, NothingGrows DEF BenchServiceDies
  <1>5. BenchTyped'
    BY <1>2, <1>4, ReadRowsAreRows DEF BenchTyped, BenchServiceDies
  <1> QED BY <1>1, <1>2, <1>3, <1>4, <1>5 DEF Steady, BenchServiceDies, RunsAreNumbered, JobBelongs, Outstanding

LEMMA DueSteady == ASSUME BenchTyped, RunsAreNumbered, JobBelongs, BenchComesDue PROVE Steady
  <1>1. UNCHANGED <<perfResults, bench, benchJob, benchAgent, benchAlerts, evaluated, orphaned>> /\ benchDue' = TRUE
    BY DEF BenchComesDue
  <1>2. BenchIdle' <=> BenchIdle
    BY <1>1 DEF BenchIdle, BenchAt
  <1>3. Grows
    BY <1>1, <1>2, NothingGrows
  <1>4. BenchTyped'
    BY <1>1, <1>3, ReadRowsAreRows DEF BenchTyped
  <1> QED BY <1>1, <1>2, <1>3, <1>4 DEF Steady, BenchComesDue, RunsAreNumbered, JobBelongs, Outstanding, BenchAt

LEMMA EveryStepSteady ==
  ASSUME BenchTyped, RunsAreNumbered, JobBelongs, [NextBench]_benchVars PROVE Steady
  <1>1. ASSUME BenchBegins \/ MeasuresContainer \/ HandsOut \/ JudgesAtOnce PROVE Steady
    BY <1>1, BeginningSteady, ContainerSteady, HandingOutSteady, AtOnceSteady
  <1>2. ASSUME NobodyClaims \/ NoticesWindow \/ SeesTheEnd PROVE Steady
    BY <1>2, UnclaimedSteady, WindowNoticedSteady, EndSteady
  <1>3. ASSUME NEW a \in BenchAgents,
               BenchClaims(a) \/ Measures(a) \/ BenchFinishes(a) \/ BenchFails(a) \/ BenchAgentDies(a)
        PROVE Steady
    <2>1. ASSUME BenchFinishes(a) PROVE Steady
      BY <2>1, EndingSteady DEF BenchFinishes
    <2>2. ASSUME BenchFails(a) PROVE Steady
      BY <2>2, EndingSteady DEF BenchFails
    <2> QED BY <1>3, <2>1, <2>2, ClaimSteady, MeasuringSteady, DyingSteady
  <1>4. ASSUME WindowMoves \/ BenchServiceDies \/ BenchComesDue \/ UNCHANGED benchVars PROVE Steady
    BY <1>4, StandingSteady, RestartSteady, DueSteady
  <1> QED BY <1>1, <1>2, <1>3, <1>4 DEF NextBench

-----------------------------------------------------------------------------
(* What was read of a row stays true of it while rows of other runs come.  *)
LEMMA SlowStays ==
  ASSUME BenchTyped, BenchTyped', NEW i \in DOMAIN perfResults,
         Len(perfResults) <= Len(perfResults'),
         \A j \in DOMAIN perfResults : perfResults'[j] = perfResults[j],
         \A j \in DOMAIN perfResults' \ DOMAIN perfResults : perfResults'[j].run # perfResults[i].run
  PROVE IsSlow(i)' <=> IsSlow(i)
  <1>1. /\ Len(perfResults) \in Nat /\ Len(perfResults') \in Nat
        /\ DOMAIN perfResults = 1..Len(perfResults) /\ DOMAIN perfResults' = 1..Len(perfResults')
    BY DEF BenchTyped
  <1>2. DOMAIN perfResults \subseteq DOMAIN perfResults' /\ i \in Nat /\ i <= Len(perfResults)
    BY <1>1
  <1>3. \A j \in DOMAIN perfResults : Usable(j)' <=> Usable(j)
    BY DEF Usable
  <1>4. Rows(perfResults[i].run)' = Rows(perfResults[i].run) /\ perfResults'[i] = perfResults[i]
    <2>1. perfResults'[i] = perfResults[i]
      OBVIOUS
    <2> QED BY <2>1, <1>2 DEF Rows
  <1>5. Peers(i)' = Peers(i) /\ Peers(i) \subseteq DOMAIN perfResults
    BY <1>3, <1>4 DEF Peers, Rows
  <1>6. Earlier(i)' = Earlier(i) /\ Earlier(i) \subseteq DOMAIN perfResults
    <2>1. \A j \in 1..(i - 1) : j \in DOMAIN perfResults
      BY <1>1, <1>2
    <2> QED BY <2>1, <1>3, <1>4 DEF Earlier
  <1>7. History(i)' = History(i) /\ History(i) \subseteq DOMAIN perfResults
    BY <1>6 DEF History
  <1>8. ASSUME NEW rows \in SUBSET DOMAIN perfResults PROVE SpeedsOf(rows)' = SpeedsOf(rows)
    BY <1>8 DEF SpeedsOf
  <1>9. ASSUME NEW rows \in SUBSET DOMAIN perfResults PROVE Falls(i, rows)' <=> Falls(i, rows)
    BY <1>8, <1>4, <1>9 DEF Falls
  <1>10. Falls(i, Peers(i))' <=> Falls(i, Peers(i))
    BY <1>5, <1>9
  <1>11. Falls(i, History(i))' <=> Falls(i, History(i))
    BY <1>7, <1>9
  <1> QED BY <1>3, <1>10, <1>11 DEF IsSlow

LEMMA RowTypes ==
  ASSUME BenchTyped
  PROVE /\ Len(perfResults) \in Nat /\ DOMAIN perfResults = 1..Len(perfResults)
        /\ \A i \in DOMAIN perfResults : perfResults[i].run \in Nat
        /\ bench.run \in Nat
  <1>1. \A i \in DOMAIN perfResults : perfResults[i] \in PerfRowType
    BY DEF BenchTyped
  <1>2. \A i \in DOMAIN perfResults : perfResults[i].run \in Nat
    BY <1>1, BenchmarkAssumption DEF PerfRowType
  <1> QED BY <1>2, BenchmarkAssumption DEF BenchTyped, BenchType

LEMMA OrderKept ==
  ASSUME BenchTyped, BenchTyped', RowsInOrder, Grows \/ Judges \/ Opens PROVE RowsInOrder'
  <1> SUFFICES ASSUME ~orphaned'
               PROVE /\ (\A i, j \in DOMAIN perfResults : i < j => perfResults[i].run <= perfResults[j].run)'
                     /\ (\A i \in DOMAIN perfResults : perfResults[i].run <= bench.run)'
    BY DEF RowsInOrder
  <1>1. /\ ~orphaned
        /\ \A i, j \in DOMAIN perfResults : i < j => perfResults[i].run <= perfResults[j].run
        /\ \A i \in DOMAIN perfResults : perfResults[i].run <= bench.run
    BY DEF RowsInOrder, Grows, Judges, Opens
  <1>2. CASE Grows
    <2>1. Len(perfResults) \in Nat /\ DOMAIN perfResults = 1..Len(perfResults)
      BY RowTypes
    <2>2. Len(perfResults') \in Nat /\ DOMAIN perfResults' = 1..Len(perfResults')
      BY DEF BenchTyped
    <2>3. \A i \in DOMAIN perfResults' : i \notin DOMAIN perfResults => perfResults'[i].run = bench.run
      BY <1>1, <1>2 DEF Grows
    <2>4. \A i \in DOMAIN perfResults : perfResults'[i] = perfResults[i]
      BY <1>2 DEF Grows
    <2>5. bench'.run = bench.run /\ bench.run \in Nat
      BY <1>2, RowTypes DEF Grows
    <2>6. \A i \in DOMAIN perfResults' : perfResults'[i].run <= bench'.run
      BY <1>1, <2>3, <2>4, <2>5
    <2>7. ASSUME NEW i \in DOMAIN perfResults', NEW j \in DOMAIN perfResults', i < j
          PROVE perfResults'[i].run <= perfResults'[j].run
      <3>1. CASE j \in DOMAIN perfResults
        <4>1. i \in DOMAIN perfResults
          BY <2>1, <2>2, <2>7, <3>1
        <4> QED BY <4>1, <3>1, <2>4, <2>7, <1>1
      <3>2. CASE j \notin DOMAIN perfResults
        BY <3>2, <2>3, <2>5, <2>6
      <3> QED BY <3>1, <3>2
    <2> QED BY <2>6, <2>7
  <1>3. CASE Judges
    BY <1>1, <1>3 DEF Judges
  <1>4. CASE Opens
    <2>1. \A i \in DOMAIN perfResults : perfResults[i].run <= bench.run + 1
      BY <1>1, RowTypes
    <2> QED BY <1>1, <1>4, <2>1 DEF Opens
  <1> QED BY <1>2, <1>3, <1>4

LEMMA ReadingKept ==
  ASSUME BenchTyped, BenchTyped', RowsInOrder, RowsAreRead, Grows \/ Judges \/ Opens PROVE RowsAreRead'
  <1> SUFFICES ASSUME ~orphaned'
               PROVE evaluated' = {i \in DOMAIN perfResults' : perfResults'[i].run < bench'.run \/ BenchIdle'}
    BY DEF RowsAreRead
  <1>1. /\ ~orphaned
        /\ \A i \in DOMAIN perfResults : perfResults[i].run <= bench.run
        /\ evaluated = {i \in DOMAIN perfResults : perfResults[i].run < bench.run \/ BenchIdle}
    BY DEF RowsInOrder, RowsAreRead, Grows, Judges, Opens
  <1>2. CASE Grows
    <2>1. DOMAIN perfResults \subseteq DOMAIN perfResults'
      <3>1. Len(perfResults') \in Nat /\ DOMAIN perfResults' = 1..Len(perfResults')
        BY DEF BenchTyped
      <3> QED BY <3>1, <1>2, RowTypes DEF Grows
    <2>2. \A i \in DOMAIN perfResults' : i \notin DOMAIN perfResults => ~(perfResults'[i].run < bench'.run \/ BenchIdle')
      BY <1>1, <1>2, RowTypes DEF Grows
    <2>3. \A i \in DOMAIN perfResults : perfResults'[i] = perfResults[i]
      BY <1>2 DEF Grows
    <2> QED BY <1>1, <1>2, <2>1, <2>2, <2>3 DEF Grows
  <1>3. CASE Judges
    <2>1. \A i \in DOMAIN perfResults : perfResults[i].run < bench.run \/ perfResults[i].run = bench.run
      BY <1>1, RowTypes
    <2>2. evaluated \cup Rows(bench.run) = DOMAIN perfResults
      BY <1>1, <1>3, <2>1 DEF Judges, Rows
    <2> QED BY <2>2, <1>3 DEF Judges
  <1>4. CASE Opens
    <2>1. \A i \in DOMAIN perfResults : perfResults[i].run < bench.run + 1
      BY <1>1, RowTypes
    <2> QED BY <1>1, <1>4, <2>1 DEF Opens
  <1> QED BY <1>2, <1>3, <1>4

LEMMA TellingKept ==
  ASSUME BenchTyped, BenchTyped', RowsInOrder, RowsAreRead, AlertsTell, Grows \/ Judges \/ Opens PROVE AlertsTell'
  <1> SUFFICES ASSUME ~orphaned', NEW d \in Disks, NEW i \in NewestRead(d)'
               PROVE SaysOf(benchAlerts, d, i)'
    BY DEF AlertsTell
  <1>1. /\ ~orphaned
        /\ \A j, k \in DOMAIN perfResults : j < k => perfResults[j].run <= perfResults[k].run
        /\ \A j \in DOMAIN perfResults : perfResults[j].run <= bench.run
        /\ evaluated = {j \in DOMAIN perfResults : perfResults[j].run < bench.run \/ BenchIdle}
        /\ \A j \in NewestRead(d) : SaysOf(benchAlerts, d, j)
    BY DEF RowsInOrder, RowsAreRead, AlertsTell, Grows, Judges, Opens
  <1>2. CASE Grows
    <2>1. \A j \in evaluated : j \in DOMAIN perfResults /\ perfResults'[j] = perfResults[j]
      BY <1>1, <1>2 DEF Grows
    <2>2. i \in NewestRead(d)
      BY <2>1, <1>2 DEF NewestRead, Grows
    <2>3. i \in DOMAIN perfResults /\ perfResults'[i] = perfResults[i] /\ (perfResults[i].run < bench.run \/ BenchIdle)
      BY <1>1, <2>1, <2>2 DEF NewestRead
    <2>4. \A j \in DOMAIN perfResults' \ DOMAIN perfResults : perfResults'[j].run # perfResults[i].run
      BY <1>1, <1>2, <2>3, RowTypes DEF Grows
    <2>5. IsSlow(i)' <=> IsSlow(i)
      BY <1>2, <2>3, <2>4, SlowStays DEF Grows
    <2>6. SaysOf(benchAlerts, d, i) /\ benchAlerts' = benchAlerts
      BY <1>1, <1>2, <2>2 DEF Grows
    <2> QED BY <2>3, <2>5, <2>6 DEF SaysOf, Usable
  <1>3. CASE Opens
    <2>1. i \in NewestRead(d) /\ benchAlerts' = benchAlerts /\ perfResults' = perfResults
      BY <1>3 DEF NewestRead, Opens
    <2>2. i \in DOMAIN perfResults
      BY <1>1, <2>1 DEF NewestRead
    <2>3. IsSlow(i)' <=> IsSlow(i)
      BY <2>1, <2>2, RowTypes, SlowStays
    <2> QED BY <1>1, <2>1, <2>3 DEF SaysOf, Usable
  <1>4. CASE Judges
    <2> DEFINE rows == RunRows(Len(perfResults), d)
    <2>1. perfResults' = perfResults /\ evaluated' = evaluated \cup Rows(bench.run) /\ ~BenchIdle
      BY <1>4 DEF Judges
    <2>2. PICK open : (\A e \in Disks : SameOf(open, benchAlerts, e)) /\ benchAlerts' = Evaluated(open)
      BY <1>4 DEF Judges
    <2>3. /\ rows = {} => SameOf(benchAlerts', open, d)
          /\ \A j \in rows : (\A k \in rows : k <= j) => SaysOf(benchAlerts', d, j)
      BY <2>2, EvaluatedTells
    <2>4. rows = {j \in Rows(bench.run) : perfResults[j].target = d}
      BY RowTypes DEF RunRows, Rows
    <2> HIDE DEF rows
    <2>5. /\ i \in evaluated \cup Rows(bench.run) /\ perfResults[i].target = d /\ i \in DOMAIN perfResults
          /\ \A j \in evaluated \cup Rows(bench.run) : perfResults[j].target = d => j <= i
      BY <2>1, <1>1 DEF NewestRead, Rows
    <2>6. SaysOf(benchAlerts', d, i)
      <3>1. CASE rows = {}
        <4>1. i \in NewestRead(d)
          BY <3>1, <2>4, <2>5 DEF NewestRead
        <4> QED BY <3>1, <4>1, <1>1, <2>2, <2>3 DEF SameOf, SaysOf
      <3>2. CASE rows # {}
        <4>1. PICK r \in rows : r \in DOMAIN perfResults /\ perfResults[r].run = bench.run /\ r <= i
          BY <3>2, <2>4, <2>5 DEF Rows
        <4>2. r = i \/ r < i
          BY <4>1, <2>5, RowTypes
        <4>3. perfResults[i].run = bench.run
          BY <4>1, <4>2, <2>5, <1>1, RowTypes
        <4>4. i \in rows /\ \A k \in rows : k <= i
          BY <4>3, <2>4, <2>5 DEF Rows
        <4> QED BY <4>4, <2>3
      <3> QED BY <3>1, <3>2
    <2>7. IsSlow(i)' <=> IsSlow(i)
      BY <2>1, <2>5, RowTypes, SlowStays
    <2> QED BY <2>1, <2>6, <2>7 DEF SaysOf, Usable
  <1> QED BY <1>2, <1>3, <1>4

-----------------------------------------------------------------------------
LEMMA BenchBeginsSo == InitBench => BenchInv
  <1> SUFFICES ASSUME InitBench PROVE BenchInv
    OBVIOUS
  <1>1. MaxBenches \in Nat \ {0}
    BY BenchmarkAssumption
  <1>2. BenchTyped
    <2>1. <<>> \in Seq(PerfRowType) /\ <<>> \in Seq(Disks)
      OBVIOUS
    <2>2. bench \in BenchType
      BY <1>1 DEF InitBench, BenchType
    <2>3. benchJob \in BenchJobType
      BY <1>1, <2>1 DEF InitBench, BenchJobType
    <2>4. benchAgent \in [BenchAgents -> BenchAgentType]
      BY IdleAgent DEF InitBench
    <2> QED BY <2>1, <2>2, <2>3, <2>4 DEF InitBench, BenchTyped
  <1>3. DOMAIN perfResults = {} /\ evaluated = {}
    BY DEF InitBench
  <1>4. BenchIdle /\ ~Outstanding /\ bench.run = 0 /\ benchJob.run = 0 /\ ~bench.half
    BY DEF InitBench, BenchIdle, BenchAt, Outstanding
  <1>5. RunsAreNumbered
    BY <1>1, <1>4 DEF RunsAreNumbered
  <1> QED BY <1>2, <1>3, <1>4, <1>5 DEF BenchInv, JobBelongs, RowsInOrder, RowsAreRead, AlertsTell, NewestRead

(* Every row of a run that is over has been read, and the alerts on a disk *)
(* say what its newest row that was read says, however measurements are    *)
(* repeated, lost or late, unless a run was judged before its job was over. *)
THEOREM BenchHolds == BenchSpec => []BenchInv
  <1>1. BenchInv /\ [NextBench]_benchVars => BenchInv'
    <2> SUFFICES ASSUME BenchInv, [NextBench]_benchVars PROVE BenchInv'
      OBVIOUS
    <2>1. Steady
      BY EveryStepSteady DEF BenchInv
    <2> QED BY <2>1, OrderKept, ReadingKept, TellingKept DEF BenchInv, Steady
  <1> QED BY <1>1, BenchBeginsSo, PTL DEF BenchSpec

LEMMA BenchFollows == BenchInv => BenchTypeOK /\ MeasurementsAreJudged
  <1> SUFFICES ASSUME BenchInv PROVE BenchTypeOK /\ MeasurementsAreJudged
    OBVIOUS
  <1>1. BenchTypeOK
    <2>1. \A i \in DOMAIN perfResults : perfResults[i] \in PerfRowType
      BY DEF BenchInv, BenchTyped
    <2> QED BY <2>1 DEF BenchInv, BenchTyped, BenchTypeOK, PerfRowType, Measured, BenchType, BenchJobType
  <1>2. ASSUME BenchIdle, ~orphaned
        PROVE /\ evaluated = DOMAIN perfResults
              /\ \A d \in Disks : \A i \in Newest(d) :
                   /\ <<"error", d>> \in benchAlerts <=> perfResults[i].what = "error"
                   /\ Usable(i) => (<<"slow", d>> \in benchAlerts <=> ShownSlow(d))
    <2>1. evaluated = DOMAIN perfResults
      BY <1>2 DEF BenchInv, RowsAreRead
    <2>2. ASSUME NEW d \in Disks, NEW i \in Newest(d)
          PROVE SaysOf(benchAlerts, d, i) /\ (ShownSlow(d) <=> IsSlow(i))
      <3>1. i \in NewestRead(d)
        BY <2>1, <2>2 DEF Newest, NewestRead
      <3>2. ASSUME NEW j \in Newest(d) PROVE j = i
        <4>1. i \in DOMAIN perfResults /\ j \in DOMAIN perfResults /\ i <= j /\ j <= i
          BY <2>2, <3>2 DEF Newest
        <4>2. i \in Nat /\ j \in Nat
          BY <4>1, RowTypes DEF BenchInv
        <4> QED BY <4>1, <4>2
      <3> QED BY <1>2, <3>1, <3>2, <2>2 DEF BenchInv, AlertsTell, ShownSlow
    <2> QED BY <2>1, <2>2 DEF SaysOf
  <1> QED BY <1>1, <1>2 DEF MeasurementsAreJudged, BenchIdle

(* The rows, the run, its job and the agents keep their types.             *)
THEOREM BenchTypeCorrect == BenchSpec => []BenchTypeOK
  BY BenchHolds, BenchFollows, PTL

(* For any disks, agents, runs and upsets: once no run is under way or to  *)
(* be resumed, every measurement has been judged, and the alerts on a disk *)
(* are those its newest row, its peers and its history call for.           *)
THEOREM MeasurementsAreAlwaysJudged == BenchSpec => []MeasurementsAreJudged
  BY BenchHolds, BenchFollows, PTL
=============================================================================
