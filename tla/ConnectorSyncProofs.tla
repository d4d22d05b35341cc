-------------------------- MODULE ConnectorSyncProofs --------------------------
(***************************************************************************)
(* What the checkpoint of a connector promises, for any rows, threads,     *)
(* pages, keys and schemas.  As in the run, states after the commit of an  *)
(* overtaken batch are exempt.                                             *)
(***************************************************************************)
EXTENDS ConnectorSync, FiniteSetTheorems, WellFoundedInduction, NaturalsInduction, TLAPS

-----------------------------------------------------------------------------
(* The order of positions, and the last row of a page.                     *)

Pairs == (Nat \X Nat)

\* Positions are totally ordered.
LEMMA BeforeOrder ==
  ASSUME NEW p \in Pairs, NEW q \in Pairs
  PROVE  /\ ~Before(p, p)
         /\ Before(p, q) => ~Before(q, p)
         /\ p = q \/ Before(p, q) \/ Before(q, p)
         /\ \A x \in Pairs : Before(p, q) /\ Before(q, x) => Before(p, x)
  BY DEF Pairs, Before

\* A non-empty set of natural numbers has a least one.
LEMMA LeastExists ==
  ASSUME NEW S \in SUBSET Nat, S # {}
  PROVE  \E n \in S : \A m \in S : n <= m
<1> DEFINE R == OpToRel(<, Nat)
<1>1. R = {p \in Nat \X Nat : p[1] < p[2]}
  BY DEF OpToRel
<1>2. IsWellFoundedOn(R, Nat)
  BY NatLessThanWellFounded
<1>. HIDE DEF R
<1>3. PICK n \in S : \A m \in S : ~(<<m, n>> \in R)
  BY <1>2, WFMin
<1>4. ASSUME NEW m \in S PROVE n <= m
  <2>1. m \in Nat /\ n \in Nat /\ <<m, n>> \notin R
    BY <1>3
  <2>2. ~(m < n)
    BY <2>1, <1>1
  <2>. QED
    BY <2>1, <2>2
<1>. QED
  BY <1>4

\* A finite non-empty set of positions has a last one.
LEMMA LastExists ==
  ASSUME NEW S \in SUBSET Pairs, IsFiniteSet(S), S # {}
  PROVE  \E q \in S : \A x \in S : x = q \/ Before(x, q)
<1> DEFINE Later(q) == {x \in S : Before(q, x)}
<1>1. \A q \in S : IsFiniteSet(Later(q)) /\ Cardinality(Later(q)) \in Nat
  BY FS_Subset, FS_CardinalityType
<1>2. PICK q \in S : \A x \in S : Cardinality(Later(q)) <= Cardinality(Later(x))
  <2> DEFINE Counts == {Cardinality(Later(q)) : q \in S}
  <2>1. Counts \subseteq Nat /\ Counts # {}
    BY <1>1
  <2>2. \E n \in Counts : \A m \in Counts : n <= m
    <3>. HIDE DEF Counts
    <3>. QED
      BY <2>1, LeastExists
  <2>. QED
    BY <2>2
<1>3. ASSUME NEW x \in S, x # q, ~Before(x, q)
      PROVE  FALSE
  <2>1. Before(q, x)
    BY <1>3, BeforeOrder
  <2>2. \A y \in S : Before(x, y) => Before(q, y)
    BY <2>1, BeforeOrder
  <2>3. Later(x) \subseteq Later(q) /\ x \in Later(q) /\ x \notin Later(x)
    BY <2>1, <2>2, BeforeOrder
  <2>4. Cardinality(Later(x)) <= Cardinality(Later(q)) /\ Later(x) # Later(q)
    BY <2>3, <1>1, FS_Subset
  <2>5. Cardinality(Later(x)) # Cardinality(Later(q))
    <3> HIDE DEF Later
    <3>. QED
      BY <2>3, <2>4, <1>1, FS_Subset
  <2>. QED
    BY <2>4, <2>5, <1>1, <1>2
<1>. QED
  BY <1>3

-----------------------------------------------------------------------------
(* Reading a page, and the newest of several versions.                     *)

Sourced == source \in [Rows -> Times \cup {0}]

LEMMA PositionPairs ==
  /\ Positions \subseteq Pairs /\ Times \X Rows \subseteq Positions
  /\ Origin \in Positions
<1>1. Times \subseteq Nat /\ Rows \subseteq Nat
  BY SyncAssumption
<1>2. Positions \subseteq Pairs
  <2>1. Times \cup {0} \subseteq Nat /\ Rows \cup {0} \subseteq Nat
    BY <1>1
  <2>. QED
    BY <2>1 DEF Positions, Pairs
<1>3. Times \X Rows \subseteq Positions
  BY DEF Positions
<1>4. Origin \in Positions
  BY DEF Positions, Origin
<1>. QED
  BY <1>2, <1>3, <1>4

LEMMA TimesAreNumbers == \A v \in Times \cup {0} : v \in Nat /\ (v # 0 => 0 < v)
  BY SyncAssumption

\* A page is a finite part of the rows after p, and its last row is a position
\* up to which it leaves none of them out.
LEMMA PageComplete ==
  ASSUME Sourced, NEW p \in Positions
  PROVE  /\ After(p) \subseteq Times \X Rows /\ Page(p) \subseteq After(p)
         /\ LastOf(Page(p), p) \in Page(p) \cup {p}
         /\ \A x \in After(p) : ~Before(LastOf(Page(p), p), x) => x \in Page(p)
<1>1. After(p) \subseteq Times \X Rows
  BY DEF After, Sourced
<1>2. IsFiniteSet(After(p))
  <2>1. IsFiniteSet(Times)
    <3>1. \A a, b \in Int : IsFiniteSet(a..b)
      BY FS_Interval
    <3>2. IsFiniteSet(1..99)
      <4>1. 1 \in Int /\ 99 \in Int
        OBVIOUS
      <4>. QED
        BY <3>1, <4>1, Zenon
    <3>3. Times \in SUBSET (1..99)
      BY SyncAssumption
    <3>. QED
      BY <3>2, <3>3, FS_Subset
  <2>. QED
    BY <1>1, <2>1, SyncAssumption, FS_Product, FS_Subset
<1>3. Page(p) \subseteq After(p) /\ IsFiniteSet(Page(p))
  BY <1>2, FS_Subset DEF Page
<1>4. After(p) \subseteq Pairs
  BY <1>1, PositionPairs
<1>5. CASE Page(p) = {}
  BY <1>1, <1>3, <1>5 DEF LastOf, After
<1>6. CASE Page(p) # {}
  <2> DEFINE q == LastOf(Page(p), p)
  <2>1. q \in Page(p) /\ \A x \in Page(p) : x = q \/ Before(x, q)
    BY <1>3, <1>4, <1>6, LastExists DEF LastOf
  <2>2. ASSUME NEW x \in After(p), ~Before(q, x)
        PROVE  x \in Page(p)
    <3> DEFINE Earlier(y) == {z \in After(p) : Before(z, y)}
    <3>1. x = q \/ Before(x, q)
      BY <2>1, <2>2, <1>3, <1>4, BeforeOrder
    <3>2. Earlier(x) \subseteq Earlier(q)
      BY <3>1, <2>1, <1>3, <1>4, BeforeOrder
    <3>3. Cardinality(Earlier(x)) <= Cardinality(Earlier(q))
          /\ Cardinality(Earlier(x)) \in Nat /\ Cardinality(Earlier(q)) \in Nat
      <4>1. IsFiniteSet(Earlier(x)) /\ IsFiniteSet(Earlier(q))
        BY <1>2, FS_Subset
      <4>. HIDE DEF Earlier
      <4>. QED
        BY <3>2, <4>1, FS_Subset, FS_CardinalityType
    <3>4. Cardinality(Earlier(q)) < PageSize
      BY <2>1 DEF Page
    <3>5. Cardinality(Earlier(x)) < PageSize
      BY <3>3, <3>4, SyncAssumption
    <3>. QED
      BY <3>5 DEF Page
  <2>. QED
    BY <1>1, <1>3, <2>1, <2>2
<1>. QED
  BY <1>5, <1>6

\* The texts of all watermarks have one length, as those of timestamps do.
OneLength == Times \subseteq 1..9 \/ Times \subseteq 10..99

LEMMA NewerIsLater ==
  ASSUME OneLength, NEW v \in Times, NEW w \in Times
  PROVE  Newer(v, w) <=> w < v
  BY DEF OneLength, Newer, Digits, Before

\* The latest of some versions is one of them, whatever the length of the texts.
LEMMA LatestIn ==
  ASSUME NEW vs \in SUBSET Times, vs # {}
  PROVE  Latest(vs) \in vs
<1> DEFINE Place(v) == <<Digits(v)[1], Digits(v)[2] + 1>>
<1>1. \A v \in 1..99 : Digits(v)[1] \in 0..9 /\ Digits(v)[2] + 1 \in 0..10
  BY DEF Digits
<1>2. \A v, w \in 1..99 : v = w \/ Before(Digits(v), Digits(w)) \/ Before(Digits(w), Digits(v))
  BY DEF Digits, Before
<1>3. \A v, w \in 1..99 : Before(Place(v), Place(w)) => Newer(w, v)
  BY <1>1 DEF Newer, Digits, Before
<1>4. \A v, w \in 1..99 : Place(v) = Place(w) => v = w
  BY DEF Digits
<1>5. vs \subseteq 1..99
  BY SyncAssumption
<1> DEFINE S == {Place(v) : v \in vs}
<1>6. S \subseteq (0..9) \X (0..10) /\ S # {}
  <2>1. \A v \in vs : Place(v) \in (0..9) \X (0..10)
    BY <1>1, <1>5
  <2>. HIDE DEF Place
  <2>. QED
    BY <2>1
<1>7. IsFiniteSet((0..9) \X (0..10)) /\ (0..9) \X (0..10) \in SUBSET Pairs
  <2>1. \A a, b \in Int : IsFiniteSet(a..b)
    BY FS_Interval
  <2>2. 0 \in Int /\ 9 \in Int /\ 10 \in Int
    OBVIOUS
  <2>3. IsFiniteSet(0..9) /\ IsFiniteSet(0..10)
    BY <2>1, <2>2, Zenon
  <2>. QED
    BY <2>3, FS_Product DEF Pairs
<1>8. PICK q \in S : \A x \in S : x = q \/ Before(x, q)
  <2>. HIDE DEF S
  <2>1. S \in SUBSET Pairs /\ IsFiniteSet(S)
    BY <1>6, <1>7, FS_Subset
  <2>. QED
    BY <2>1, <1>6, LastExists
<1>9. PICK v \in vs : q = Place(v)
  BY <1>8
<1>10. \A w \in vs : w = v \/ Newer(v, w)
  <2>1. \A w \in vs : Place(w) = Place(v) \/ Before(Place(w), Place(v))
    BY <1>8, <1>9
  <2>. HIDE DEF Place
  <2>. QED
    BY <2>1, <1>3, <1>4, <1>5
<1>. QED
  BY <1>10 DEF Latest

LEMMA LatestIsGreatest ==
  ASSUME OneLength, NEW vs \in SUBSET Times, NEW m \in vs, \A v \in vs : v <= m
  PROVE  Latest(vs) = m
<1>1. \A v \in vs : m = v \/ Newer(m, v)
  BY NewerIsLater, SyncAssumption
<1>2. \A u \in vs : (\A v \in vs : u = v \/ Newer(u, v)) => u = m
  BY NewerIsLater, SyncAssumption
<1>. QED
  BY <1>1, <1>2 DEF Latest

-----------------------------------------------------------------------------
(* The invariant.                                                          *)

\* Some source row has come as far as p.
Reached(p) == p[1] = 0 \/ \E r \in Rows : p[1] <= source[r]

\* A batch holds every row between the checkpoint it began at and its position,
\* but for those that were updated since: they are beyond it.
Gathered(r) ==
  \A row \in Rows :
    /\ source[row] # 0
    /\ Before(r.from, <<source[row], row>>)
    /\ ~Before(r.position, <<source[row], row>>)
    => <<source[row], row>> \in r.batch

\* A request that reads has pages left; what has been read has a schema, and
\* is nothing that the source has not come to.
WellRead(r) ==
  /\ r.pc = "reading" => r.pages < MaxPages
  /\ r.pages > 0 \/ r.pc \notin {"idle", "reading"} => r.shape \in Shapes
  /\ Reached(r.from) /\ Reached(r.position)
  /\ \A q \in r.batch : q[1] <= source[q[2]]
  /\ Gathered(r)

\* The copy of a request that nobody overtook is that of the row, and what it is
\* about to write was decided from the stored records; it never writes what the
\* source has not come to.
WellDecided(r) ==
  /\ Served(r) /\ ~r.stale => r.loaded = connector
  /\ r.pc = "publishing" =>
       /\ ~Drifts(r) /\ ~Regresses(r.position, r.loaded.checkpoint)
       /\ \A row \in Rows : r.writes[row] <= source[row]
       /\ ~r.stale => \A row \in Rows : r.writes[row] = Outcome(r.batch, row)

SInv ==
  /\ TypeOK
  /\ Reached(connector.checkpoint)
  /\ \A r \in Rows : records[r].version <= source[r]
  /\ \A t \in Threads : WellRead(request[t]) /\ WellDecided(request[t])

\* Whatever checkpoint a request began reading at stays covered.
CInv == crossed \/ (RowsCovered /\ \A t \in Threads : Covers(request[t].from))

\* Stored records have the connector's schema, which is then known.
OneKnownSchema ==
  crossed \/ \A r \in Rows : records[r].version # 0 =>
                records[r].schema = connector.schema /\ connector.schema \in Shapes

-----------------------------------------------------------------------------
(* Steps of one request, which leave everything else alone.                *)

Elsewhere == <<source, shape, connector, records, crossed>>

\* A step keeps the invariants.
Keeps == /\ SInv'
         /\ CInv => CInv'
         /\ OneKnownSchema => OneKnownSchema'

LEMMA OriginCovered == SInv => Reached(Origin) /\ Covers(Origin)
<1>1. Reached(Origin)
  BY DEF Origin, Reached
<1>2. ASSUME SInv, NEW r \in Rows, source[r] # 0
      PROVE  Before(Origin, <<source[r], r>>)
  <2>1. source[r] \in Times
    BY <1>2 DEF SInv, TypeOK
  <2>2. \A w \in Times : 0 < w
    BY SyncAssumption
  <2>. QED
    BY <2>1, <2>2 DEF Origin, Before
<1>. QED
  BY <1>1, <1>2 DEF Covers

LEMMA NoRequestWell ==
  ASSUME SInv
  PROVE  NoRequest \in Request /\ WellRead(NoRequest) /\ WellDecided(NoRequest)
<1>1. NoRequest \in Request
  BY SyncAssumption, PositionPairs
     DEF NoRequest, Request, Unsynced, Connector, NoWrites
<1>2. Gathered(NoRequest)
  BY DEF Gathered, NoRequest
<1>. QED
  BY <1>1, <1>2, OriginCovered DEF NoRequest, WellRead, WellDecided, Served

LEMMA RequestSteps ==
  ASSUME SInv, NEW t \in Threads, NEW r \in Request, WellRead(r), WellDecided(r),
         CInv => crossed \/ Covers(r.from),
         Step(t, r), UNCHANGED Elsewhere, runs' \in [Keys -> {"none", "completed", "failed"}]
  PROVE  Keeps
<1>1. /\ source' = source /\ shape' = shape /\ connector' = connector /\ records' = records
      /\ crossed' = crossed
  BY DEF Elsewhere
<1>2. \A u \in Threads : request'[u] = IF u = t THEN r ELSE request[u]
  BY DEF Step, SInv, TypeOK
<1>3. TypeOK'
  BY <1>1 DEF Step, SInv, TypeOK
<1>4. ASSUME NEW u \in Threads
      PROVE  WellRead(request[u])' /\ WellDecided(request[u])'
  <2>1. WellRead(request'[u]) /\ WellDecided(request'[u])
    BY <1>2 DEF SInv
  <2>2. WellRead(request[u])'
    BY <1>1, <2>1 DEF WellRead, Reached, Gathered
  <2>3. WellDecided(request[u])'
    BY <1>1, <2>1 DEF WellDecided, Outcome
  <2>. QED
    BY <2>2, <2>3
<1>5. SInv'
  BY <1>1, <1>3, <1>4 DEF SInv, Reached
<1>6. CInv => CInv'
  BY <1>1, <1>2 DEF CInv, RowsCovered, Covers
<1>7. OneKnownSchema => OneKnownSchema'
  BY <1>1 DEF OneKnownSchema
<1>. QED
  BY <1>5, <1>6, <1>7 DEF Keeps

\* What is left of a request when it ends is as good as it was.
LEMMA EndedWell ==
  ASSUME SInv, NEW r \in Request, WellRead(r), r.pc # "idle", r.via = "sync" => r.pc # "reading"
  PROVE  /\ Ended(r) \in Request /\ WellRead(Ended(r)) /\ WellDecided(Ended(r))
         /\ Ended(r).from \in {r.from, Origin}
         /\ ~Served(Ended(r))
<1>1. CASE r.via = "sync"
  <2> DEFINE e == Ended(r)
  <2>1. /\ e \in Request /\ e.pc = "staged" /\ e.shape = r.shape /\ e.from = r.from
        /\ e.position = r.position /\ e.batch = r.batch /\ e.pages = r.pages
    BY <1>1, SyncAssumption, PositionPairs
       DEF Ended, Request, Unsynced, Connector, NoWrites
  <2>2. r.shape \in Shapes
    BY <1>1 DEF WellRead
  <2>3. WellRead(e)
    <3>. HIDE DEF e
    <3>. QED
      BY <2>1, <2>2 DEF WellRead, Gathered
  <2>4. WellDecided(e) /\ ~Served(e)
    <3>. HIDE DEF e
    <3>. QED
      BY <2>1 DEF WellDecided, Served
  <2>. QED
    BY <2>1, <2>3, <2>4
<1>2. CASE r.via # "sync"
  BY <1>2, NoRequestWell DEF Ended, NoRequest, Served
<1>. QED
  BY <1>1, <1>2
LEMMA InitWell == Init => SInv /\ CInv /\ OneKnownSchema
<1> SUFFICES ASSUME Init PROVE SInv /\ CInv /\ OneKnownSchema
  OBVIOUS
<1>1. TypeOK
  <2>1. NoRequest \in Request /\ NoRecord \in Record /\ Unsynced \in Connector
    BY SyncAssumption, PositionPairs
       DEF NoRequest, Request, Unsynced, Connector, NoWrites, NoRecord, Record
  <2>. QED
    BY <2>1 DEF Init, TypeOK
<1>2. \A r \in Rows : source[r] = 0 /\ records[r].version = 0
  BY DEF Init, NoRecord
<1>3. Reached(Origin)
  BY DEF Reached, Origin
<1>4. \A t \in Threads : WellRead(request[t]) /\ WellDecided(request[t])
  <2>1. Gathered(NoRequest)
    BY DEF Gathered, NoRequest
  <2>. QED
    BY <1>3, <2>1 DEF Init, NoRequest, WellRead, WellDecided, Served
<1>5. SInv
  BY <1>1, <1>2, <1>3, <1>4 DEF SInv, Init, Unsynced
<1>. QED
  BY <1>2, <1>5 DEF CInv, RowsCovered, Covers, OneKnownSchema

-----------------------------------------------------------------------------
(* The source changes.                                                     *)

LEMMA SourceCommits ==
  ASSUME SInv, NEW rs \in SUBSET Rows, NEW w \in Times, SourceCommit(rs, w)
  PROVE  Keeps
<1>1. /\ shape' = shape /\ connector' = connector /\ records' = records /\ runs' = runs
      /\ request' = request /\ crossed' = crossed
      /\ \A r \in Rows : source'[r] = IF r \in rs THEN w ELSE source[r]
      /\ \A r \in Rows : source[r] < w
  BY DEF SourceCommit
<1>2. w \in Nat /\ 0 < w /\ \A r \in Rows : source[r] \in Nat /\ source'[r] \in Nat /\ source[r] <= source'[r]
  <2>1. \A r \in Rows : source[r] \in Times \cup {0}
    BY DEF SInv, TypeOK
  <2>2. \A v \in Times \cup {0} : v \in Nat /\ (v = w => 0 < v)
    BY SyncAssumption
  <2>. QED
    BY <1>1, <2>1, <2>2
<1>3. ASSUME NEW p \in Positions, Reached(p)
      PROVE  /\ Reached(p)'
             /\ \A r \in rs : Before(p, <<w, r>>)
  <2>1. p[1] \in Nat
    BY PositionPairs DEF Pairs
  <2>2. p[1] < w
    BY <1>1, <1>2, <1>3, <2>1 DEF Reached
  <2>3. Reached(p)'
    BY <1>2, <1>3, <2>1 DEF Reached
  <2>. QED
    BY <2>2, <2>3 DEF Before
<1>4. TypeOK'
  BY <1>1 DEF SInv, TypeOK, SourceCommit
<1>5. ASSUME NEW r \in Request, WellRead(r), WellDecided(r)
      PROVE  /\ WellRead(r)'
             /\ r.pc = "publishing" => \A row \in Rows : r.writes[row] <= source'[row]
  <2>1. r.from \in Positions /\ r.position \in Positions /\ r.batch \subseteq Times \X Rows
        /\ r.writes \in [Rows -> Times \cup {0}]
    BY DEF Request
  <2>2. Gathered(r)'
    BY <1>1, <1>3, <1>5, <2>1 DEF WellRead, Gathered
  <2>3. ASSUME NEW q \in r.batch
        PROVE  q[1] <= source'[q[2]]
    <3>1. q[1] \in Times /\ q[2] \in Rows /\ q[1] <= source[q[2]]
      BY <1>5, <2>1 DEF WellRead
    <3>2. q[1] \in Nat /\ source[q[2]] \in Nat /\ source'[q[2]] \in Nat
          /\ source[q[2]] <= source'[q[2]]
      BY <3>1, <1>2, TimesAreNumbers
    <3>. QED
      BY <3>1, <3>2
  <2>4. Reached(r.from)' /\ Reached(r.position)'
    BY <1>3, <1>5, <2>1 DEF WellRead
  <2>5. r.pc = "publishing" => \A row \in Rows : r.writes[row] <= source'[row]
    <3>1. \A row \in Rows : r.writes[row] \in Nat
      BY <2>1, TimesAreNumbers
    <3>. QED
      BY <3>1, <1>2, <1>5 DEF WellDecided
  <2>. QED
    BY <1>5, <2>2, <2>3, <2>4, <2>5 DEF WellRead
<1>6. ASSUME NEW t \in Threads
      PROVE  WellRead(request[t])' /\ WellDecided(request[t])'
  <2>1. request[t] \in Request /\ WellRead(request[t]) /\ WellDecided(request[t])
    BY DEF SInv, TypeOK
  <2>2. WellRead(request[t])'
    BY <1>1, <1>5, <2>1 DEF WellRead, Reached, Gathered
  <2>3. WellDecided(request[t])'
    BY <1>1, <1>5, <2>1 DEF WellDecided, Outcome
  <2>. QED
    BY <2>2, <2>3
<1>7. SInv'
  <2>1. Reached(connector.checkpoint)'
    BY <1>1, <1>3 DEF SInv, TypeOK, Connector
  <2>2. \A r \in Rows : records[r].version <= source'[r]
    <3>1. \A r \in Rows : records[r].version \in Nat /\ records[r].version <= source[r]
      BY TimesAreNumbers DEF SInv, TypeOK, Record
    <3>. QED
      BY <3>1, <1>2
  <2>. QED
    BY <1>1, <1>4, <1>6, <2>1, <2>2 DEF SInv
<1>8. ASSUME NEW p \in Positions, Reached(p), Covers(p) PROVE Covers(p)'
  BY <1>1, <1>3, <1>8 DEF Covers
<1>9. CInv => CInv'
  <2>1. connector.checkpoint \in Positions /\ \A t \in Threads : request[t].from \in Positions
    BY DEF SInv, TypeOK, Connector, Request
  <2>2. Reached(connector.checkpoint) /\ \A t \in Threads : Reached(request[t].from)
    BY DEF SInv, WellRead
  <2>. QED
    BY <1>1, <1>8, <2>1, <2>2 DEF CInv, RowsCovered
<1>. QED
  BY <1>1, <1>7, <1>9 DEF Keeps, OneKnownSchema

LEMMA SourceMigrations ==
  ASSUME SInv, NEW s \in Shapes, SourceMigrates(s)
  PROVE  Keeps
<1>1. source' = source /\ connector' = connector /\ records' = records /\ runs' = runs
      /\ request' = request /\ crossed' = crossed /\ shape' \in Shapes
  BY DEF SourceMigrates
<1>2. TypeOK'
  BY <1>1 DEF SInv, TypeOK
<1>3. ASSUME NEW t \in Threads
      PROVE  WellRead(request[t])' /\ WellDecided(request[t])'
  BY <1>1 DEF SInv, WellRead, WellDecided, Reached, Gathered, Outcome
<1>4. SInv'
  BY <1>1, <1>2, <1>3 DEF SInv, Reached
<1>. QED
  BY <1>1, <1>4 DEF Keeps, CInv, RowsCovered, Covers, OneKnownSchema
-----------------------------------------------------------------------------
(* Reading the source.                                                     *)

\* A request that starts reads from the stored checkpoint.
LEMMA BeginSteps ==
  ASSUME SInv, NEW t \in Threads,
         \/ \E k \in Keys : FetchBegin(t, k)
         \/ ExtractBegin(t)
  PROVE  Keeps
<1>1. connector \in Connector /\ connector.checkpoint \in Positions
  BY DEF SInv, TypeOK, Connector
<1>2. PICK r \in Request :
        /\ Step(t, r) /\ UNCHANGED Elsewhere /\ runs' = runs
        /\ r.pc = "reading" /\ (r.via = "fetch" => r.loaded = connector) /\ r.pages = 0
        /\ r.batch = {} /\ r.from = connector.checkpoint /\ r.position = connector.checkpoint
  <2>1. CASE \E k \in Keys : FetchBegin(t, k)
    <3>1. PICK k \in Keys : FetchBegin(t, k)
      BY <2>1
    <3> DEFINE r == [NoRequest EXCEPT !.pc = "reading", !.key = k, !.loaded = connector,
                       !.from = connector.checkpoint, !.position = connector.checkpoint]
    <3>2. /\ r \in Request /\ r.pc = "reading" /\ r.loaded = connector /\ r.pages = 0
          /\ r.batch = {} /\ r.from = connector.checkpoint /\ r.position = connector.checkpoint
      BY <1>1, NoRequestWell DEF NoRequest, Request
    <3>3. Step(t, r) /\ UNCHANGED Elsewhere /\ runs' = runs
      BY <3>1 DEF FetchBegin, Elsewhere
    <3>. HIDE DEF r
    <3>. QED
      BY <3>2, <3>3
  <2>2. CASE ExtractBegin(t)
    <3> DEFINE r == [NoRequest EXCEPT !.pc = "reading", !.via = "sync",
                       !.from = connector.checkpoint, !.position = connector.checkpoint]
    <3>1. /\ r \in Request /\ r.pc = "reading" /\ r.via = "sync" /\ r.pages = 0
          /\ r.batch = {} /\ r.from = connector.checkpoint /\ r.position = connector.checkpoint
      BY <1>1, NoRequestWell DEF NoRequest, Request
    <3>2. Step(t, r) /\ UNCHANGED Elsewhere /\ runs' = runs
      BY <2>2 DEF ExtractBegin, Elsewhere
    <3>. HIDE DEF r
    <3>. QED
      BY <3>1, <3>2
  <2>. QED
    BY <2>1, <2>2
<1>3. WellRead(r)
  BY <1>2, SyncAssumption DEF WellRead, Gathered, SInv
<1>4. WellDecided(r)
  BY <1>2 DEF WellDecided, Served
<1>5. CInv => crossed \/ Covers(r.from)
  BY <1>2 DEF CInv, RowsCovered
<1>6. runs' \in [Keys -> {"none", "completed", "failed"}]
  BY <1>2 DEF SInv, TypeOK
<1>. QED
  BY <1>2, <1>3, <1>4, <1>5, <1>6, RequestSteps

\* A page that is read leaves no row out between the checkpoint and its last row.
LEMMA PageSteps ==
  ASSUME SInv, NEW t \in Threads, ReadPage(t)
  PROVE  Keeps
<1> DEFINE r    == request[t]
           page == Page(r.position)
           done == Cardinality(page) < PageSize \/ r.pages + 1 = MaxPages
           pc   == IF ~done THEN "reading" ELSE IF r.via = "sync" THEN "staged" ELSE "loaded"
           sh   == IF r.pages = 0 THEN shape ELSE r.shape
           e    == [r EXCEPT !.pc = pc, !.shape = sh, !.position = LastOf(page, @),
                      !.pages = @ + 1, !.batch = @ \cup page]
<1>1. Step(t, e) /\ UNCHANGED Elsewhere /\ runs' = runs
  BY DEF ReadPage, Elsewhere
<1>2. r \in Request /\ r.pc = "reading" /\ WellRead(r) /\ WellDecided(r)
  BY DEF SInv, TypeOK, ReadPage
<1>3. /\ r.position \in Positions /\ r.from \in Positions /\ r.batch \subseteq Times \X Rows
      /\ r.pages \in Nat /\ r.pages + 1 \in 0..MaxPages /\ r.via \in {"fetch", "sync"}
      /\ r.loaded \in Connector /\ shape \in Shapes
  BY <1>2, SyncAssumption DEF Request, WellRead, SInv, TypeOK
<1>4. Sourced
  BY DEF SInv, TypeOK, Sourced
<1>5. /\ page \subseteq Times \X Rows /\ page \subseteq After(r.position)
      /\ LastOf(page, r.position) \in page \cup {r.position}
      /\ \A x \in After(r.position) : ~Before(LastOf(page, r.position), x) => x \in page
  BY <1>3, <1>4, PageComplete
<1>6. LastOf(page, r.position) \in Positions
  BY <1>3, <1>5, PositionPairs
<1>. HIDE DEF page, done
<1>7. /\ pc \in {"reading", "staged", "loaded"} /\ (pc = "reading" => ~done)
      /\ r.via = "sync" => pc # "loaded"
      /\ sh \in Shapes \cup {None} /\ (r.pages > 0 => sh = r.shape) /\ (r.pages = 0 => sh = shape)
  BY <1>2, <1>3 DEF Request
<1>. HIDE DEF pc, sh
<1>8. /\ e.pc = pc /\ e.shape = sh
      /\ e.position = LastOf(page, r.position) /\ e.pages = r.pages + 1
      /\ e.batch = r.batch \cup page /\ e.from = r.from /\ e.via = r.via
      /\ e.loaded = r.loaded /\ e.stale = r.stale
  BY <1>2 DEF Request
<1>9. e \in Request
  <2>1. r.batch \cup page \in SUBSET (Times \X Rows)
    BY <1>3, <1>5
  <2>2. pc \in {"idle", "reading", "staged", "loaded", "publishing", "drifted"}
    BY <1>7
  <2>. QED
    BY <2>1, <2>2, <1>2, <1>3, <1>6, <1>7 DEF Request
<1>. HIDE DEF r, e
<1>10. Gathered(e)
  <2> SUFFICES ASSUME NEW row \in Rows, source[row] # 0,
                      Before(e.from, <<source[row], row>>),
                      ~Before(e.position, <<source[row], row>>)
               PROVE  <<source[row], row>> \in e.batch
    BY DEF Gathered
  <2>1. CASE ~Before(r.position, <<source[row], row>>)
    BY <2>1, <1>2, <1>8 DEF WellRead, Gathered
  <2>2. CASE Before(r.position, <<source[row], row>>)
    <3>1. <<source[row], row>> \in After(r.position)
      BY <2>2 DEF After
    <3>. QED
      BY <3>1, <1>5, <1>8
  <2>. QED
    BY <2>1, <2>2
<1>11. WellRead(e)
  <2>1. e.pc = "reading" => e.pages < MaxPages
    BY <1>3, <1>8, <1>7, SyncAssumption DEF done
  <2>2. e.shape \in Shapes
    BY <1>2, <1>3, <1>8, <1>7 DEF WellRead
  <2>3. \A q \in page : \E row \in Rows : q = <<source[row], row>>
    BY <1>5 DEF After
  <2>4. Reached(e.position)
    <3>1. \A row \in Rows : source[row] \in Nat
      BY <1>4, TimesAreNumbers DEF Sourced
    <3>. QED
      BY <1>2, <1>5, <1>8, <2>3, <3>1 DEF WellRead, Reached
  <2>5. \A q \in e.batch : q[1] <= source[q[2]]
    <3>1. \A row \in Rows : source[row] \in Nat
      BY <1>4, TimesAreNumbers DEF Sourced
    <3>2. \A q \in page : q[1] <= source[q[2]]
      BY <2>3, <3>1
    <3>. QED
      BY <1>2, <1>8, <3>2 DEF WellRead
  <2>. QED
    BY <1>2, <1>8, <1>10, <2>1, <2>2, <2>4, <2>5 DEF WellRead
<1>12. WellDecided(e)
  <2>1. Served(e) => Served(r)
    BY <1>2, <1>3, <1>7, <1>8 DEF Served
  <2>2. e.pc # "publishing"
    BY <1>7, <1>8
  <2>3. Served(r) /\ ~r.stale => r.loaded = connector
    BY <1>2 DEF WellDecided
  <2>. QED
    BY <2>1, <2>2, <2>3, <1>8 DEF WellDecided
<1>13. CInv => crossed \/ Covers(e.from)
  BY <1>8 DEF CInv, r
<1>14. runs' \in [Keys -> {"none", "completed", "failed"}]
  BY <1>1 DEF SInv, TypeOK
<1>. QED
  BY <1>1, <1>9, <1>11, <1>12, <1>13, <1>14, RequestSteps
-----------------------------------------------------------------------------
(* Posting a batch, and every way in which a request ends without effect.  *)

LEMMA PostSteps ==
  ASSUME SInv, NEW t \in Threads, NEW k \in Keys, Post(t, k)
  PROVE  Keeps
<1> DEFINE r == request[t]
           e == [r EXCEPT !.pc = "loaded", !.key = k, !.loaded = connector]
<1>1. r \in Request /\ WellRead(r) /\ connector \in Connector /\ r.pc = "staged"
  BY DEF SInv, TypeOK, Post
<1>2. Step(t, e) /\ UNCHANGED Elsewhere /\ runs' = runs
  BY DEF Post, Elsewhere
<1>3. /\ e \in Request /\ e.pc = "loaded" /\ e.loaded = connector /\ e.shape = r.shape
      /\ e.from = r.from /\ e.position = r.position /\ e.batch = r.batch /\ e.pages = r.pages
  BY <1>1 DEF Request
<1>4. CInv => crossed \/ Covers(r.from)
  BY DEF CInv
<1>5. runs' \in [Keys -> {"none", "completed", "failed"}]
  BY <1>2 DEF SInv, TypeOK
<1>. HIDE DEF r, e
<1>6. WellRead(e)
  BY <1>1, <1>3 DEF WellRead, Gathered
<1>7. WellDecided(e)
  BY <1>3 DEF WellDecided
<1>. QED
  BY <1>2, <1>3, <1>4, <1>5, <1>6, <1>7, RequestSteps

LEMMA DiscardSteps ==
  ASSUME SInv, NEW t \in Threads, Discard(t)
  PROVE  Keeps
<1>1. Step(t, NoRequest) /\ UNCHANGED Elsewhere /\ runs' = runs
  BY DEF Discard, Elsewhere
<1>2. runs' \in [Keys -> {"none", "completed", "failed"}]
  BY <1>1 DEF SInv, TypeOK
<1>3. NoRequest.from = Origin
  BY DEF NoRequest
<1>. QED
  BY <1>1, <1>2, <1>3, NoRequestWell, OriginCovered, RequestSteps

LEMMA EndSteps ==
  ASSUME SInv, NEW t \in Threads,
         \/ Deduplicate(t) \/ Regress(t) \/ PublishDrift(t) \/ Conflict(t) \/ Fail(t)
  PROVE  Keeps
<1> DEFINE r == request[t]
<1>1. r \in Request /\ WellRead(r) /\ runs \in [Keys -> {"none", "completed", "failed"}]
  BY DEF SInv, TypeOK
<1>2. r.pc # "idle" /\ (r.via = "sync" => r.pc # "reading")
  BY DEF Deduplicate, Regress, PublishDrift, Conflict, Fail, Served
<1>3. /\ Step(t, Ended(r)) /\ UNCHANGED Elsewhere
      /\ runs' \in [Keys -> {"none", "completed", "failed"}]
  BY <1>1 DEF Deduplicate, Regress, PublishDrift, Conflict, Fail, Elsewhere
<1>4. CInv => crossed \/ Covers(r.from)
  BY DEF CInv
<1>. HIDE DEF r
<1>. QED
  BY <1>1, <1>2, <1>3, <1>4, EndedWell, OriginCovered, RequestSteps

LEMMA DriftSteps ==
  ASSUME SInv, NEW t \in Threads, Drift(t)
  PROVE  Keeps
<1> DEFINE r == request[t]
           e == [r EXCEPT !.pc = "drifted"]
<1>1. r \in Request /\ WellRead(r) /\ WellDecided(r) /\ r.pc = "loaded"
  BY DEF SInv, TypeOK, Drift
<1>2. Step(t, e) /\ UNCHANGED Elsewhere /\ runs' = runs
  BY DEF Drift, Elsewhere
<1>3. /\ e \in Request /\ e.pc = "drifted" /\ e.loaded = r.loaded /\ e.shape = r.shape
      /\ e.from = r.from /\ e.position = r.position /\ e.batch = r.batch /\ e.pages = r.pages
      /\ e.stale = r.stale
  BY <1>1 DEF Request
<1>4. CInv => crossed \/ Covers(r.from)
  BY DEF CInv
<1>5. runs' \in [Keys -> {"none", "completed", "failed"}]
  BY <1>2 DEF SInv, TypeOK
<1>. HIDE DEF r, e
<1>6. WellRead(e)
  BY <1>1, <1>3 DEF WellRead, Gathered
<1>7. WellDecided(e)
  BY <1>1, <1>3 DEF WellDecided, Served
<1>. QED
  BY <1>2, <1>3, <1>4, <1>5, <1>6, <1>7, RequestSteps

\* The API process dies: every request it served has ended.
LEMMA CrashSteps ==
  ASSUME SInv, Crash
  PROVE  Keeps
<1>1. /\ source' = source /\ shape' = shape /\ connector' = connector /\ records' = records
      /\ runs' = runs /\ crossed' = crossed
      /\ \A t \in Threads : request'[t] = IF Served(request[t]) THEN Ended(request[t]) ELSE request[t]
  BY DEF Crash
<1>2. ASSUME NEW t \in Threads
      PROVE  /\ request'[t] \in Request /\ WellRead(request'[t]) /\ WellDecided(request'[t])
             /\ request'[t].from \in {request[t].from, Origin}
  <2> DEFINE r == request[t]
  <2>1. r \in Request /\ WellRead(r) /\ WellDecided(r)
    BY DEF SInv, TypeOK
  <2>2. Served(r) => r.pc # "idle" /\ (r.via = "sync" => r.pc # "reading")
    BY DEF Served
  <2>. HIDE DEF r
  <2>3. Served(r) => /\ Ended(r) \in Request /\ WellRead(Ended(r)) /\ WellDecided(Ended(r))
                     /\ Ended(r).from \in {r.from, Origin}
    BY <2>1, <2>2, EndedWell
  <2>4. request'[t] = IF Served(r) THEN Ended(r) ELSE r
    BY <1>1 DEF r
  <2>5. request'[t] \in Request /\ WellRead(request'[t]) /\ WellDecided(request'[t])
        /\ request'[t].from \in {r.from, Origin}
    BY <2>1, <2>3, <2>4
  <2>. QED
    BY <2>5 DEF r
<1>3. TypeOK'
  <2>1. request' \in [Threads -> Request]
    BY <1>2 DEF Crash
  <2>. QED
    BY <1>1, <2>1 DEF SInv, TypeOK
<1>4. ASSUME NEW t \in Threads
      PROVE  WellRead(request[t])' /\ WellDecided(request[t])'
  <2>1. WellRead(request[t])'
    BY <1>1, <1>2 DEF WellRead, Reached, Gathered
  <2>2. WellDecided(request[t])'
    BY <1>1, <1>2 DEF WellDecided, Outcome
  <2>. QED
    BY <2>1, <2>2
<1>5. SInv'
  BY <1>1, <1>3, <1>4 DEF SInv, Reached
<1>6. CInv => CInv'
  BY <1>1, <1>2, OriginCovered DEF CInv, RowsCovered, Covers
<1>. QED
  BY <1>1, <1>5, <1>6 DEF Keeps, OneKnownSchema
-----------------------------------------------------------------------------
(* Deciding what to write, and the commit.                                 *)

\* What a batch writes to a row is nothing, or a version that it holds.
LEMMA OutcomeIn ==
  ASSUME NEW batch \in SUBSET (Times \X Rows), NEW row \in Rows
  PROVE  Outcome(batch, row) \in {0} \cup VersionsOf(batch, row)
<1>1. VersionsOf(batch, row) \in SUBSET Times
  BY DEF VersionsOf
<1>. QED
  BY <1>1, LatestIn DEF Outcome

LEMMA UpsertSteps ==
  ASSUME SInv, NEW t \in Threads, Upsert(t)
  PROVE  Keeps
<1> DEFINE r == request[t]
           ws == [row \in Rows |-> Outcome(r.batch, row)]
           is == {row \in Rows : VersionsOf(r.batch, row) # {} /\ records[row].version = 0}
           e == [r EXCEPT !.pc = "publishing", !.writes = ws, !.inserts = is]
<1>1. r \in Request /\ WellRead(r) /\ WellDecided(r) /\ r.pc = "loaded"
      /\ ~Drifts(r) /\ ~Regresses(r.position, r.loaded.checkpoint)
  BY DEF SInv, TypeOK, Upsert
<1>2. Step(t, e) /\ UNCHANGED Elsewhere /\ runs' = runs
  BY DEF Upsert, Elsewhere
<1>3. \A row \in Rows : ws[row] = Outcome(r.batch, row)
  OBVIOUS
<1>4. \A row \in Rows : ws[row] \in {0} \cup VersionsOf(r.batch, row)
  BY <1>1, <1>3, OutcomeIn DEF Request
<1>5. \A row \in Rows : VersionsOf(r.batch, row) \subseteq Times
  BY DEF VersionsOf
<1>6. ws \in [Rows -> Times \cup {0}] /\ is \in SUBSET Rows
  BY <1>4, <1>5
<1>7. \A row \in Rows : ws[row] <= source[row]
  <2>1. \A row \in Rows : \A v \in VersionsOf(r.batch, row) : v <= source[row]
    BY <1>1 DEF VersionsOf, WellRead
  <2>2. \A row \in Rows : 0 <= source[row]
    BY TimesAreNumbers DEF SInv, TypeOK
  <2>. QED
    BY <1>4, <2>1, <2>2
<1>8. CInv => crossed \/ Covers(r.from)
  BY DEF CInv
<1>9. runs' \in [Keys -> {"none", "completed", "failed"}]
  BY <1>2 DEF SInv, TypeOK
<1>. HIDE DEF ws, is
<1>10. /\ e \in Request /\ e.pc = "publishing" /\ e.loaded = r.loaded /\ e.shape = r.shape
       /\ e.from = r.from /\ e.position = r.position /\ e.batch = r.batch /\ e.pages = r.pages
       /\ e.stale = r.stale /\ e.writes = ws
  BY <1>1, <1>6 DEF Request
<1>. HIDE DEF r, e
<1>11. WellRead(e)
  BY <1>1, <1>10 DEF WellRead, Gathered
<1>12. WellDecided(e)
  <2>1. Served(e) /\ ~e.stale => e.loaded = connector
    BY <1>1, <1>10 DEF WellDecided, Served
  <2>2. ~Drifts(e) /\ ~Regresses(e.position, e.loaded.checkpoint)
    BY <1>1, <1>10 DEF Drifts
  <2>. QED
    BY <1>3, <1>7, <1>10, <2>1, <2>2 DEF WellDecided
<1>. QED
  BY <1>2, <1>8, <1>9, <1>10, <1>11, <1>12, RequestSteps

\* A row whose present version is stored, or in the batch, is stored in it after
\* the outcome of the batch has been written.
LEMMA OutcomeStores ==
  ASSUME OneLength, SInv, NEW batch \in SUBSET (Times \X Rows), NEW row \in Rows,
         \A q \in batch : q[1] <= source[q[2]],
         source[row] # 0,
         records[row].version = source[row] \/ <<source[row], row>> \in batch
  PROVE  /\ Outcome(batch, row) = 0 => records[row].version = source[row]
         /\ Outcome(batch, row) # 0 => Outcome(batch, row) = source[row]
<1> DEFINE vs == VersionsOf(batch, row)
           v  == records[row].version
           s  == source[row]
<1>1. vs \in SUBSET Times /\ \A w \in vs : w <= s
  BY DEF VersionsOf
<1>2. s \in Times /\ v \in Times \cup {0} /\ v <= s
  BY DEF SInv, TypeOK, Record
<1>3. \A w \in Times : w \in Nat /\ w # 0 /\ w <= w
  BY SyncAssumption
<1>4. s \in vs => Latest(vs) = s
  BY <1>1, LatestIsGreatest
<1>5. (s = v \/ s \in vs) /\ v # 0 => Latest(vs \cup {v}) = s
  BY <1>1, <1>2, <1>3, LatestIsGreatest
<1>6. v = s \/ s \in vs
  BY <1>2 DEF VersionsOf
<1>7. Outcome(batch, row) = IF vs = {} THEN 0
                            ELSE IF v = 0 THEN Latest(vs)
                            ELSE IF Latest(vs \cup {v}) = v THEN 0 ELSE Latest(vs)
  BY DEF Outcome
<1>. HIDE DEF vs, v, s
<1>8. /\ Outcome(batch, row) = 0 => v = s
      /\ Outcome(batch, row) # 0 => Outcome(batch, row) = s
  BY <1>2, <1>3, <1>4, <1>5, <1>6, <1>7
<1>. QED
  BY <1>8 DEF v, s
\* The commit of a batch.
LEMMA PublishSteps ==
  ASSUME SInv, NEW t \in Threads, Publish(t)
  PROVE  /\ SInv'
         /\ OneLength /\ CInv => CInv'
         /\ OneKnownSchema => OneKnownSchema'
<1> DEFINE r == request[t]
<1>1. /\ r \in Request /\ WellRead(r) /\ WellDecided(r) /\ r.pc = "publishing"
      /\ connector \in Connector /\ records \in [Rows -> Record]
      /\ source \in [Rows -> Times \cup {0}]
  BY DEF SInv, TypeOK, Publish
<1>2. /\ source' = source /\ shape' = shape
      /\ connector' =
           [schema |-> IF r.loaded.schema = r.shape THEN connector.schema ELSE r.shape,
            checkpoint |-> IF r.loaded.checkpoint = r.position THEN connector.checkpoint
                           ELSE r.position]
      /\ \A u \in Threads : request'[u] =
           IF u = t THEN Ended(r) ELSE [request[u] EXCEPT !.stale = @ \/ Served(request[u])]
  BY DEF Publish, Overtake
<1>3. \A row \in Rows :
        /\ r.writes[row] = 0 => records'[row] = records[row]
        /\ r.writes[row] # 0 => /\ records'[row] = [version |-> r.writes[row], schema |-> r.shape]
                                /\ records'[row].version = r.writes[row]
                                /\ records'[row].schema = r.shape
  BY DEF Publish
<1>4. ~crossed' => ~crossed /\ ~r.stale
  BY DEF Publish
<1>5. /\ r.shape \in Shapes /\ r.position \in Positions /\ r.batch \in SUBSET (Times \X Rows)
      /\ r.writes \in [Rows -> Times \cup {0}] /\ r.from \in Positions
      /\ connector.checkpoint \in Positions /\ connector.schema \in Shapes \cup {None}
      /\ Reached(r.position) /\ Gathered(r)
      /\ \A q \in r.batch : q[1] <= source[q[2]]
      /\ \A row \in Rows : r.writes[row] <= source[row]
  BY <1>1 DEF Request, WellRead, WellDecided, Connector
<1>6. ~r.stale => /\ r.loaded = connector
                  /\ \A row \in Rows : r.writes[row] = Outcome(r.batch, row)
  BY <1>1 DEF WellDecided, Served
<1>7. ~Drifts(r)
  BY <1>1 DEF WellDecided
<1>8. /\ Ended(r) \in Request /\ WellRead(Ended(r)) /\ WellDecided(Ended(r))
      /\ Ended(r).from \in {r.from, Origin} /\ ~Served(Ended(r))
  <2>. HIDE DEF r
  <2>. QED
    BY <1>1, EndedWell
<1>. HIDE DEF r
<1>9. TypeOK'
  <2>1. source' \in [Rows -> Times \cup {0}] /\ shape' \in Shapes
    BY <1>2 DEF SInv, TypeOK
  <2>2. connector' \in Connector
    BY <1>2, <1>5 DEF Connector
  <2>3. records' \in [Rows -> Record]
    <3>1. ASSUME NEW row \in Rows
          PROVE  records'[row] \in Record
      <4>1. CASE r.writes[row] = 0
        BY <1>1, <1>3, <4>1
      <4>2. CASE r.writes[row] # 0
        <5>1. r.writes[row] \in Times \cup {0} /\ r.shape \in Shapes \cup {None}
          BY <1>5
        <5>2. [version |-> r.writes[row], schema |-> r.shape] \in Record
          BY <5>1 DEF Record
        <5>. QED
          BY <1>3, <4>2, <5>2
      <4>. QED
        BY <4>1, <4>2
    <3>. QED
      BY <3>1 DEF Publish
  <2>4. runs' \in [Keys -> {"none", "completed", "failed"}]
    BY DEF Publish, SInv, TypeOK
  <2>5. crossed' \in BOOLEAN
    BY DEF Publish, SInv, TypeOK
  <2>6. request' \in [Threads -> Request]
    <3>1. \A u \in Threads : request[u] \in Request
      BY DEF SInv, TypeOK
    <3>2. \A x \in Request : \A b \in BOOLEAN : [x EXCEPT !.stale = b] \in Request
      BY DEF Request
    <3>3. \A u \in Threads : (request[u].stale \/ Served(request[u])) \in BOOLEAN
      OBVIOUS
    <3>4. \A u \in Threads : request'[u] \in Request
      BY <1>2, <1>8, <3>1, <3>2, <3>3
    <3>. QED
      BY <3>4 DEF Publish, Overtake
  <2>. QED
    BY <2>1, <2>2, <2>3, <2>4, <2>5, <2>6 DEF TypeOK
<1>10. ASSUME NEW u \in Threads
      PROVE  /\ WellRead(request'[u]) /\ WellRead(request[u])'
             /\ WellDecided(request[u])'
             /\ \/ request'[u].from = request[u].from
                \/ u = t /\ request'[u].from \in {r.from, Origin}
  <2>1. CASE u = t
    <3>1. request'[u] = Ended(r) /\ ~Served(Ended(r)) /\ Ended(r).pc # "publishing"
      BY <2>1, <1>2, <1>8 DEF Served
    <3>. QED
      BY <1>2, <1>8, <2>1, <3>1 DEF WellRead, WellDecided, Reached, Gathered
  <2>2. CASE u # t
    <3> DEFINE x == request[u]
               y == request'[u]
    <3>1. x \in Request /\ WellRead(x) /\ WellDecided(x)
      BY DEF SInv, TypeOK
    <3>2. y = [x EXCEPT !.stale = x.stale \/ Served(x)]
      BY <1>2, <2>2
    <3>. HIDE DEF x
    <3>3. /\ y.pc = x.pc /\ y.via = x.via /\ y.pages = x.pages /\ y.shape = x.shape
          /\ y.from = x.from /\ y.position = x.position /\ y.batch = x.batch
          /\ y.loaded = x.loaded /\ y.writes = x.writes
          /\ (Served(x) => y.stale)
      BY <3>1, <3>2 DEF Request
    <3>4. WellRead(y)
      BY <3>1, <3>3 DEF WellRead, Gathered
    <3>5. WellRead(request[u])'
      BY <1>2, <3>4 DEF WellRead, Reached, Gathered
    <3>6. WellDecided(request[u])'
      <4>1. Served(y) => y.stale
        BY <3>3 DEF Served
      <4>2. y.pc = "publishing" => /\ Served(y) /\ ~Drifts(y) /\ ~Regresses(y.position, y.loaded.checkpoint)
                                   /\ \A row \in Rows : y.writes[row] <= source'[row]
        BY <1>2, <3>1, <3>3 DEF WellDecided, Served, Drifts
      <4>. QED
        BY <4>1, <4>2 DEF WellDecided, Drifts, Regresses, Served
    <3>. QED
      BY <3>3, <3>4, <3>5, <3>6 DEF x
  <2>. QED
    BY <2>1, <2>2
<1>11. SInv'
  <2>1. Reached(connector'.checkpoint)
    BY <1>2, <1>5 DEF SInv
  <2>2. ASSUME NEW row \in Rows
        PROVE  records'[row].version <= source[row]
    <3>1. CASE r.writes[row] = 0
      BY <1>3, <3>1 DEF SInv
    <3>2. CASE r.writes[row] # 0
      BY <1>3, <1>5, <3>2
    <3>. QED
      BY <3>1, <3>2
  <2>. QED
    BY <1>2, <1>9, <1>10, <2>1, <2>2 DEF SInv, Reached
<1>12. OneKnownSchema => OneKnownSchema'
  <2> SUFFICES ASSUME OneKnownSchema, ~crossed',
                      NEW row \in Rows, records'[row].version # 0
               PROVE  records'[row].schema = connector'.schema /\ connector'.schema \in Shapes
    BY DEF OneKnownSchema
  <2>1. connector'.schema = r.shape /\ connector.schema \in {None, r.shape}
    BY <1>2, <1>4, <1>6, <1>7 DEF Drifts
  <2>2. records[row].version # 0 => records[row].schema = connector.schema /\ connector.schema \in Shapes
    BY <1>4 DEF OneKnownSchema
  <2>3. records'[row].schema = r.shape
    <3>1. CASE r.writes[row] = 0
      BY <1>3, <2>1, <2>2, <3>1, SyncAssumption
    <3>2. CASE r.writes[row] # 0
      BY <1>3, <3>2
    <3>. QED
      BY <3>1, <3>2
  <2>. QED
    BY <1>5, <2>1, <2>3
<1>13. OneLength /\ CInv => CInv'
  <2> DEFINE CoversNow(q) == \A row \in Rows : source[row] # 0 /\ ~Before(q, <<source[row], row>>)
                                                 => records'[row].version = source[row]
  <2> SUFFICES ASSUME OneLength, CInv, ~crossed'
               PROVE  /\ CoversNow(connector'.checkpoint)
                      /\ \A u \in Threads : CoversNow(request'[u].from)
    BY <1>2 DEF CInv, RowsCovered, Covers
  <2>1. r.loaded = connector /\ \A row \in Rows : r.writes[row] = Outcome(r.batch, row)
    BY <1>4, <1>6
  <2>2. RowsCovered /\ \A u \in Threads : Covers(request[u].from)
    BY <1>4 DEF CInv
  <2>3. ASSUME NEW row \in Rows, source[row] # 0,
               records[row].version = source[row] \/ <<source[row], row>> \in r.batch
        PROVE  records'[row].version = source[row]
    <3>1. /\ r.writes[row] = 0 => records[row].version = source[row]
          /\ r.writes[row] # 0 => r.writes[row] = source[row]
      BY <1>5, <2>1, <2>3, OutcomeStores
    <3>2. CASE r.writes[row] = 0
      BY <1>3, <3>1, <3>2
    <3>3. CASE r.writes[row] # 0
      BY <1>3, <3>1, <3>3
    <3>. QED
      BY <3>2, <3>3
  <2>4. ASSUME NEW q, Covers(q)
        PROVE  CoversNow(q)
    BY <2>3, <2>4 DEF Covers
  <2>5. connector'.checkpoint = r.position
    BY <1>2, <2>1
  <2>6. Covers(r.from)
    BY <2>2 DEF r
  <2>7. ASSUME NEW row \in Rows, source[row] # 0, ~Before(r.position, <<source[row], row>>)
        PROVE  records'[row].version = source[row]
    <3>1. CASE Before(r.from, <<source[row], row>>)
      BY <1>5, <2>3, <2>7, <3>1 DEF Gathered
    <3>2. CASE ~Before(r.from, <<source[row], row>>)
      BY <2>3, <2>6, <2>7, <3>2 DEF Covers
    <3>. QED
      BY <3>1, <3>2
  <2>8. Covers(Origin)
    BY OriginCovered
  <2>9. ASSUME NEW u \in Threads
        PROVE  CoversNow(request'[u].from)
    <3>1. PICK q : Covers(q) /\ request'[u].from = q
      BY <1>10, <2>2, <2>6, <2>8
    <3>. QED
      BY <2>4, <3>1
  <2>. QED
    BY <2>5, <2>7, <2>9
<1>. QED
  BY <1>11, <1>12, <1>13
-----------------------------------------------------------------------------
(* The theorems.                                                           *)

LEMMA SyncSteps ==
  ASSUME SInv, [Next]_vars
  PROVE  /\ SInv'
         /\ OneLength /\ CInv => CInv'
         /\ OneKnownSchema => OneKnownSchema'
<1>1. CASE UNCHANGED vars
  <2>1. source' = source /\ shape' = shape /\ connector' = connector /\ records' = records
        /\ runs' = runs /\ request' = request /\ crossed' = crossed
    BY <1>1 DEF vars
  <2>2. \A t \in Threads : WellRead(request[t])' /\ WellDecided(request[t])'
    BY <2>1 DEF SInv, WellRead, WellDecided, Reached, Gathered, Outcome
  <2>3. SInv'
    BY <2>1, <2>2 DEF SInv, TypeOK, Reached
  <2>. QED
    BY <2>1, <2>3 DEF CInv, RowsCovered, Covers, OneKnownSchema
<1>2. ASSUME NEW rs \in SUBSET Rows \ {{}}, NEW w \in Times, SourceCommit(rs, w)
      PROVE  Keeps
  BY <1>2, SourceCommits
<1>3. ASSUME NEW s \in Shapes, SourceMigrates(s)
      PROVE  Keeps
  BY <1>3, SourceMigrations
<1>4. ASSUME NEW t \in Threads,
             \/ \E k \in Keys : FetchBegin(t, k) \/ Post(t, k)
             \/ ExtractBegin(t) \/ ReadPage(t) \/ Discard(t)
             \/ Deduplicate(t) \/ Drift(t) \/ Regress(t) \/ Upsert(t)
             \/ PublishDrift(t) \/ Conflict(t) \/ Fail(t)
      PROVE  Keeps
  BY <1>4, BeginSteps, PostSteps, PageSteps, DiscardSteps, EndSteps, DriftSteps, UpsertSteps
<1>5. ASSUME NEW t \in Threads, Publish(t)
      PROVE  /\ SInv'
             /\ OneLength /\ CInv => CInv'
             /\ OneKnownSchema => OneKnownSchema'
  BY <1>5, PublishSteps
<1>6. Crash => Keeps
  BY CrashSteps
<1>. QED
  BY <1>1, <1>2, <1>3, <1>4, <1>5, <1>6 DEF Next, Keeps

\* Every table, request and history field keeps its type, whatever interleaving of
\* fetches, extract jobs, posts, source changes and crashes.
THEOREM SyncTypes == Spec => []TypeOK
<1>1. Init => SInv
  BY InitWell
<1>2. SInv /\ [Next]_vars => SInv'
  BY SyncSteps
<1>3. SInv => TypeOK
  BY DEF SInv
<1>. QED
  BY <1>1, <1>2, <1>3, PTL DEF Spec

\* _upsert_record and the checkpoint of sync_records: if the texts of watermarks
\* have one length, every source row up to the stored checkpoint is stored in its
\* present version, unless a batch was committed that another had overtaken.
THEOREM SyncCovers ==
  ASSUME OneLength
  PROVE  Spec => []CheckpointCovers
<1>1. Init => SInv /\ CInv
  BY InitWell
<1>2. SInv /\ CInv /\ [Next]_vars => (SInv /\ CInv)'
  BY SyncSteps
<1>3. CInv => CheckpointCovers
  BY DEF CInv, CheckpointCovers
<1>. QED
  BY <1>1, <1>2, <1>3, PTL DEF Spec

\* The fingerprint comparison of sync_records: the stored records have one schema,
\* the connector's, with the same exemption.
THEOREM SyncOneSchema == Spec => []OneSchemaStored
<1>1. Init => SInv /\ OneKnownSchema
  BY InitWell
<1>2. SInv /\ OneKnownSchema /\ [Next]_vars => (SInv /\ OneKnownSchema)'
  BY SyncSteps
<1>3. OneKnownSchema => OneSchemaStored
  BY DEF OneKnownSchema, OneSchemaStored
<1>. QED
  BY <1>1, <1>2, <1>3, PTL DEF Spec

\* Only a commit moves the checkpoint.
LEMMA OnlyPublishMoves ==
  ASSUME [Next]_vars, ~\E t \in Threads : Publish(t)
  PROVE  connector' = connector
  BY DEF Next, vars, SourceCommit, SourceMigrates, FetchBegin, Post, ExtractBegin, ReadPage,
         Discard, Deduplicate, Drift, Regress, Upsert, PublishDrift, Conflict, Fail, Crash

\* _checkpoint_regresses, read under the copy of a request that nobody overtook:
\* a stored checkpoint never moves backwards, unless it starts over.
THEOREM SyncAdvances == Spec => CheckpointAdvances
<1>1. Init => SInv
  BY InitWell
<1>2. SInv /\ [Next]_vars => SInv'
  BY SyncSteps
<1>3. ASSUME SInv, [Next]_vars
      PROVE  \/ crossed' \/ connector'.checkpoint = Origin
             \/ ~Before(connector'.checkpoint, connector.checkpoint)
  <2>1. connector.checkpoint \in Pairs
    BY <1>3, PositionPairs DEF SInv, TypeOK, Connector
  <2>2. CASE ~\E t \in Threads : Publish(t)
    BY <1>3, <2>1, <2>2, OnlyPublishMoves, BeforeOrder
  <2>3. ASSUME NEW t \in Threads, Publish(t), ~crossed'
        PROVE  \/ connector'.checkpoint = Origin
               \/ ~Before(connector'.checkpoint, connector.checkpoint)
    <3> DEFINE r == request[t]
    <3>1. r \in Request /\ WellDecided(r) /\ r.pc = "publishing" /\ ~r.stale
      BY <1>3, <2>3 DEF SInv, TypeOK, Publish
    <3>2. r.loaded = connector /\ ~Regresses(r.position, r.loaded.checkpoint)
      BY <3>1 DEF WellDecided, Served
    <3>3. connector'.checkpoint = r.position
      BY <2>3, <3>2 DEF Publish
    <3>4. r.position \in Pairs
      BY <3>1, PositionPairs DEF Request
    <3>5. ~Before(r.position, Origin)
      BY <3>4 DEF Pairs, Before, Origin
    <3>. QED
      BY <3>2, <3>3, <3>5 DEF Regresses
  <2>. QED
    BY <2>2, <2>3
<1>. QED
  BY <1>1, <1>2, <1>3, PTL DEF Spec, CheckpointAdvances
=============================================================================
