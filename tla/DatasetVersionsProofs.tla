----------------------- MODULE DatasetVersionsProofs -----------------------
(***************************************************************************)
(* Proofs about DatasetVersions, for any threads, datasets, ids and keys.  *)
(* The inductive invariant ties every request that has drawn an id to rows *)
(* that can no longer change under it (its parent, the row numbered just   *)
(* before its own) and to names nobody else has drawn.                     *)
(***************************************************************************)
EXTENDS DatasetVersions, TLAPS

USE VersionsAssumption

-----------------------------------------------------------------------------
\* A missing row is blank; a stored one has its file, and its dataset a head.
Blank(v) == ~Exists(v) => versions[v] = NoVersion

Kept(v) == Exists(v) =>
  /\ versions[v].dataset \in Datasets
  /\ published[versions[v].dataset] # None
  /\ versions[v].file = FileOf(versions[v].dataset, v, versions[v].number)
  /\ artifacts[versions[v].file] = v

\* A request between drawing its id and its commit.
Drawing(t) == request[t].pc \in {"upload", "numbered", "ready"}

Preceded(d, n) == \E w \in Ids : versions[w].dataset = d /\ versions[w].number + 1 = n

Drawn(t) == LET r == request[t] IN
  /\ r.dataset \in Datasets /\ r.version \in Ids /\ ~Exists(r.version)
  /\ r.number \in Numbers
  /\ r.parent = None => r.number = 1 /\ published[r.dataset] = None
  /\ r.parent # None => /\ Exists(r.parent) /\ versions[r.parent].dataset = r.dataset
                        /\ r.number # 1 /\ Preceded(r.dataset, r.number)

Held(t) == LET r == request[t] IN
  /\ Drawing(t) => Drawn(t)
  /\ r.pc = "ready" => artifacts[FileOf(r.dataset, r.version, r.number)] = r.version
  /\ r.pc = "apply" => /\ r.parent \in Ids /\ Exists(r.parent)
                       /\ r.dataset = versions[r.parent].dataset
  /\ r.pc = "rollback" => /\ r.dataset \in Datasets /\ r.version \in Ids
                          /\ Exists(r.version) /\ versions[r.version].dataset = r.dataset
  /\ r.pc = "query" => r.member \in Members /\ r.version \in Ids /\ r.seen = r.version

Apart(s, t) ==
  s # t /\ Drawing(s) /\ Drawing(t) =>
    /\ request[s].version # request[t].version
    /\ request[s].parent = None => request[s].dataset # request[t].dataset

\* The idempotency record of a key and the version made under it agree.
Recorded ==
  /\ \A ok \in Operations \X Keys : records[ok] # None =>
       /\ Exists(records[ok])
       /\ versions[records[ok]].parent = ok[1] /\ versions[records[ok]].key = ok[2]
  /\ \A v \in Ids : Exists(v) /\ versions[v].key # None
       => records[<<versions[v].parent, versions[v].key>>] = v

DInv ==
  /\ TypeOK
  /\ \A v \in Ids : Blank(v) /\ Kept(v)
  /\ \A t \in Threads : Held(t)
  /\ \A s, t \in Threads : Apart(s, t)
  /\ HeadStored
  /\ Recorded
  /\ DenseNumbers
  /\ ResultsFaithful

-----------------------------------------------------------------------------
\* The initial states satisfy the invariant.
LEMMA InitDInv == Init => DInv
<1> SUFFICES ASSUME Init PROVE DInv
  OBVIOUS
<1>1. TypeOK
  BY DEF Init, TypeOK, NoVersion, Version, Numbers, NoRequest, Request
<1>2. \A v \in Ids : ~Exists(v) /\ Blank(v) /\ Kept(v)
  BY DEF Init, Exists, Blank, Kept, NoVersion
<1>3. \A t \in Threads : Held(t) /\ ~Drawing(t)
  BY DEF Init, Held, Drawing, NoRequest
<1>4. HeadStored /\ Recorded /\ DenseNumbers /\ ResultsFaithful
  BY <1>2 DEF Init, HeadStored, Recorded, DenseNumbers, ResultsFaithful
<1> QED
  BY <1>1, <1>2, <1>3, <1>4 DEF DInv, Apart

\* File names: different drawn or stored versions never share one.
LEMMA FilesApart ==
  ASSUME NEW d \in Datasets, NEW v \in Ids, NEW n \in Numbers,
         NEW e \in Datasets, NEW w \in Ids, NEW m \in Numbers,
         v # w, d # e \/ n # 1 \/ m # 1
  PROVE  FileOf(d, v, n) # FileOf(e, w, m)
BY DEF FileOf, Numbers

LEMMA FileTyped ==
  ASSUME NEW d \in Datasets, NEW v \in Ids, NEW n \in Numbers
  PROVE  FileOf(d, v, n) \in Files /\ FileOf(d, v, n) # <<d, Original>>
         /\ \A e \in Datasets : FileOf(d, v, n) # <<e, Original>>
BY DEF FileOf, Files, Numbers, Original
-----------------------------------------------------------------------------
(* Types.                                                                  *)

\* What a request thread holds stays a Request, whichever step it takes.
LEMMA StepTyped ==
  ASSUME TypeOK, NEW t \in Threads, NEW r \in Request, Step(t, r)
  PROVE  /\ request' \in [Threads -> Request]
         /\ request'[t] = r /\ \A s \in Threads \ {t} : request'[s] = request[s]
BY DEF TypeOK, Step

LEMMA NoRequestTyped == NoRequest \in Request
BY DEF NoRequest, Request

\* The transaction of CommitVersion writes rows of the right types.
LEMMA CommitTyped ==
  ASSUME TypeOK, NEW t \in Threads, Drawn(t), Commit(request[t])
  PROVE  /\ versions' \in [Ids -> Version]
         /\ published' \in [Datasets -> Ids \cup {None}]
         /\ records' \in [Operations \X Keys -> Ids \cup {None}]
<1> DEFINE r == request[t]
           f == FileOf(r.dataset, r.version, r.number)
<1>1. r \in Request
  BY DEF TypeOK
<1>2. f \in Files
  BY <1>1, FileTyped DEF Drawn
<1> HIDE DEF f
<1>3. versions' \in [Ids -> Version]
  BY <1>1, <1>2 DEF TypeOK, Commit, Drawn, Version, Request, f
<1>4. published' \in [Datasets -> Ids \cup {None}]
  BY <1>1 DEF TypeOK, Commit, Drawn
<1>5. records' \in [Operations \X Keys -> Ids \cup {None}]
  BY <1>1 DEF TypeOK, Commit, Drawn, Request
<1> QED
  BY <1>3, <1>4, <1>5

LEMMA NextTypeOK ==
  ASSUME DInv, [Next]_vars
  PROVE  TypeOK'
<1> USE DEF DInv
<1>1. ASSUME NEW t \in Threads, NEW k \in Keys \cup {None}, UploadLookup(t, k)
      PROVE  TypeOK'
  <2>1. PICK d \in Datasets, v \in Ids :
          Step(t, [NoRequest EXCEPT !.pc = "upload", !.dataset = d,
                     !.version = v, !.number = 1, !.key = k])
    BY <1>1 DEF UploadLookup
  <2>2. [NoRequest EXCEPT !.pc = "upload", !.dataset = d,
           !.version = v, !.number = 1, !.key = k] \in Request
    <3>1. 1 \in Numbers
      BY DEF Numbers
    <3> QED
      BY <3>1 DEF NoRequest, Request
  <2> QED
    BY <1>1, <2>1, <2>2, StepTyped DEF UploadLookup, TypeOK
<1>2. ASSUME NEW t \in Threads, NEW p \in Ids, NEW e \in Numbers,
             NEW k \in Keys \cup {None}, ApplyLookup(t, p, e, k)
      PROVE  TypeOK'
  <2>1. [NoRequest EXCEPT !.pc = "apply", !.dataset = versions[p].dataset,
           !.parent = p, !.key = k] \in Request
    BY DEF NoRequest, Request, TypeOK, Version
  <2> QED
    BY <1>2, <2>1, StepTyped DEF ApplyLookup, TypeOK
<1>3. ASSUME NEW t \in Threads, StoreOriginal(t) PROVE TypeOK'
  <2>1. request[t] \in Request /\ Drawn(t)
    BY <1>3 DEF TypeOK, Held, Drawing, StoreOriginal
  <2>2. [request[t] EXCEPT !.pc = "numbered"] \in Request
    BY <2>1 DEF Request
  <2>3. artifacts' \in [Files -> Ids \cup {None}]
    BY <1>3, <2>1 DEF StoreOriginal, Store, TypeOK, Drawn
  <2> QED
    BY <1>3, <2>2, <2>3, StepTyped DEF StoreOriginal, TypeOK
<1>4. ASSUME NEW t \in Threads, ApplyNumber(t) PROVE TypeOK'
  <2>1. PICK v \in Ids, n \in Numbers :
          Step(t, [request[t] EXCEPT !.pc = "numbered", !.version = v, !.number = n])
    BY <1>4 DEF ApplyNumber
  <2>2. [request[t] EXCEPT !.pc = "numbered", !.version = v, !.number = n] \in Request
    <3>1. request[t] \in Request
      BY DEF TypeOK
    <3> QED
      BY <3>1 DEF Request
  <2> QED
    BY <1>4, <2>1, <2>2, StepTyped DEF ApplyNumber, TypeOK
<1>5. ASSUME NEW t \in Threads, StoreRows(t) PROVE TypeOK'
  <2>1. request[t] \in Request /\ Drawn(t)
    BY <1>5 DEF TypeOK, Held, Drawing, StoreRows
  <2>2. [request[t] EXCEPT !.pc = "ready"] \in Request
    BY <2>1 DEF Request
  <2>3. artifacts' \in [Files -> Ids \cup {None}]
    BY <1>5, <2>1 DEF StoreRows, Store, TypeOK, Drawn
  <2> QED
    BY <1>5, <2>2, <2>3, StepTyped DEF StoreRows, TypeOK
<1>6. ASSUME NEW t \in Threads, CommitVersion(t) PROVE TypeOK'
  <2>1. Drawn(t)
    BY <1>6 DEF Held, Drawing, CommitVersion
  <2> QED
    BY <1>6, <2>1, CommitTyped, StepTyped, NoRequestTyped DEF CommitVersion, TypeOK
<1>7. ASSUME NEW t \in Threads, CommitConflict(t) \/ Fail(t) PROVE TypeOK'
  BY <1>7, StepTyped, NoRequestTyped DEF CommitConflict, Fail, TypeOK
<1>8. ASSUME NEW t \in Threads, NEW d \in Datasets, NEW v \in Ids, RollbackRead(t, d, v)
      PROVE  TypeOK'
  <2>1. [NoRequest EXCEPT !.pc = "rollback", !.dataset = d, !.version = v,
           !.seen = published[d]] \in Request
    BY DEF NoRequest, Request, TypeOK
  <2> QED
    BY <1>8, <2>1, StepTyped DEF RollbackRead, TypeOK
<1>9. ASSUME NEW t \in Threads, RollbackWrite(t) PROVE TypeOK'
  <2>1. published' \in [Datasets -> Ids \cup {None}]
    BY <1>9 DEF RollbackWrite, TypeOK, Request
  <2> QED
    BY <1>9, <2>1, StepTyped, NoRequestTyped DEF RollbackWrite, TypeOK
<1>10. ASSUME NEW t \in Threads, NEW m \in Members, NEW v \in Ids, QueryRead(t, m, v)
       PROVE  TypeOK'
  <2>1. versions[v].file \in Files
    BY <1>10, FileTyped DEF QueryRead, Kept, TypeOK, Exists, Version
  <2>2. [NoRequest EXCEPT !.pc = "query", !.version = v, !.member = m,
           !.seen = artifacts[versions[v].file]] \in Request
    BY <2>1 DEF NoRequest, Request, TypeOK
  <2> QED
    BY <1>10, <2>2, StepTyped DEF QueryRead, TypeOK
<1>11. ASSUME NEW t \in Threads, QueryCommit(t) PROVE TypeOK'
  <2>1. results' \in [Members \X Ids -> Ids \cup {None}]
    BY <1>11 DEF QueryCommit, Held, TypeOK, Request
  <2> QED
    BY <1>11, <2>1, StepTyped, NoRequestTyped DEF QueryCommit, TypeOK
<1>12. CASE Crash
  BY <1>12, NoRequestTyped DEF Crash, TypeOK
<1>13. CASE UNCHANGED vars
  BY <1>13 DEF vars, TypeOK
<1> QED
  BY <1>1, <1>2, <1>3, <1>4, <1>5, <1>6, <1>7, <1>8, <1>9, <1>10, <1>11, <1>12, <1>13
  DEF Next

-----------------------------------------------------------------------------
(* What a thread holds survives the steps of the others.                   *)

LEMMA HeldKept ==
  ASSUME DInv, NEW s \in Threads, request'[s] = request[s],
         \A v \in Ids : Exists(v) => versions'[v] = versions[v],
         Drawing(s) => ~Exists(request[s].version)',
         Drawing(s) /\ request[s].parent = None => published'[request[s].dataset] = None,
         request[s].pc = "ready" =>
           artifacts'[FileOf(request[s].dataset, request[s].version, request[s].number)]
             = request[s].version
  PROVE  Held(s)'
<1> DEFINE r == request[s]
<1>1. Held(s) /\ r \in Request
  BY DEF DInv, TypeOK
<1>2. \A v \in Ids : Exists(v) => Exists(v)' /\ versions'[v] = versions[v]
  BY DEF Exists
<1>3. Drawing(s)' <=> Drawing(s)
  BY DEF Drawing
<1>4. ASSUME Drawing(s) PROVE Drawn(s)'
  <2>1. Drawn(s)
    BY <1>1, <1>4 DEF Held
  <2>2. r.parent # None => /\ Exists(r.parent)' /\ versions'[r.parent].dataset = r.dataset
    BY <1>1, <1>2, <2>1 DEF Drawn, Request
  <2>3. r.parent # None => Preceded(r.dataset, r.number)'
    <3>1. SUFFICES ASSUME r.parent # None PROVE Preceded(r.dataset, r.number)'
      OBVIOUS
    <3>2. PICK w \in Ids : versions[w].dataset = r.dataset /\ versions[w].number + 1 = r.number
      BY <2>1, <3>1 DEF Drawn, Preceded
    <3>3. Exists(w)
      BY <2>1, <3>1, <3>2 DEF Drawn, Exists
    <3> QED
      BY <1>2, <3>2, <3>3 DEF Preceded
  <2> QED
    BY <1>4, <2>1, <2>2, <2>3 DEF Drawn
<1>5. r.pc = "apply" => r.parent \in Ids /\ Exists(r.parent)'
                        /\ r.dataset = versions'[r.parent].dataset
  BY <1>1, <1>2 DEF Held
<1>6. r.pc = "rollback" => /\ r.dataset \in Datasets /\ r.version \in Ids
                           /\ Exists(r.version)' /\ versions'[r.version].dataset = r.dataset
  BY <1>1, <1>2 DEF Held
<1>7. r.pc = "query" => r.member \in Members /\ r.version \in Ids /\ r.seen = r.version
  BY <1>1 DEF Held
<1> QED
  BY <1>3, <1>4, <1>5, <1>6, <1>7 DEF Held

\* A thread that holds nothing satisfies Held and is apart from every other.
LEMMA IdleHeld ==
  ASSUME NEW t \in Threads, request[t] = NoRequest
  PROVE  Held(t) /\ ~Drawing(t)
BY DEF Held, Drawing, NoRequest

\* Threads whose requests did not change are as far apart as before.
LEMMA ApartKept ==
  ASSUME DInv, NEW t \in Threads,
         \A s \in Threads \ {t} : request'[s] = request[s],
         \A s \in Threads \ {t} : Apart(s, t)' /\ Apart(t, s)'
  PROVE  \A s, u \in Threads : Apart(s, u)'
<1> SUFFICES ASSUME NEW s \in Threads, NEW u \in Threads PROVE Apart(s, u)'
  OBVIOUS
<1>1. CASE s = t \/ u = t
  BY <1>1 DEF Apart
<1>2. CASE s # t /\ u # t
  BY <1>2 DEF DInv, Apart, Drawing
<1> QED
  BY <1>1, <1>2

\* The rest of the invariant only speaks of the tables and the store.
LEMMA TablesKept ==
  ASSUME DInv, UNCHANGED <<versions, published, records, artifacts, results>>
  PROVE  /\ \A v \in Ids : Blank(v)' /\ Kept(v)'
         /\ HeadStored' /\ Recorded' /\ DenseNumbers' /\ ResultsFaithful'
BY DEF DInv, Blank, Kept, HeadStored, Recorded, DenseNumbers, ResultsFaithful, Exists

\* Everything but the types, which NextTypeOK establishes.
Core ==
  /\ \A v \in Ids : Blank(v) /\ Kept(v)
  /\ \A t \in Threads : Held(t)
  /\ \A s, t \in Threads : Apart(s, t)
  /\ HeadStored /\ Recorded /\ DenseNumbers /\ ResultsFaithful

-----------------------------------------------------------------------------
(* Steps that only change what a thread holds.                             *)

LEMMA ThreadStep ==
  ASSUME DInv, NEW t \in Threads, NEW r \in Request, Step(t, r),
         UNCHANGED <<versions, published, records, artifacts, results>>,
         Held(t)', \A s \in Threads \ {t} : Apart(s, t)' /\ Apart(t, s)'
  PROVE  Core'
<1>1. request'[t] = r /\ \A s \in Threads \ {t} : request'[s] = request[s]
  BY StepTyped DEF DInv
<1>2. ASSUME NEW s \in Threads PROVE Held(s)'
  <2>1. CASE s = t
    BY <2>1
  <2>2. CASE s # t
    <3>1. Held(s) /\ request'[s] = request[s]
      BY <1>1, <2>2 DEF DInv
    <3> QED
      BY <3>1, HeldKept DEF Held, Drawing, Drawn, Exists
  <2> QED
    BY <2>1, <2>2
<1>3. \A s, u \in Threads : Apart(s, u)'
  BY <1>1, ApartKept
<1> QED
  BY <1>2, <1>3, TablesKept DEF Core

\* Look-ups, and requests that end without a commit.
LEMMA ReadSteps ==
  ASSUME DInv, NEW t \in Threads,
         \/ \E p \in Ids, e \in Numbers, k \in Keys \cup {None} : ApplyLookup(t, p, e, k)
         \/ \E d \in Datasets, v \in Ids : RollbackRead(t, d, v)
         \/ \E m \in Members, v \in Ids : QueryRead(t, m, v)
         \/ CommitConflict(t) \/ Fail(t)
  PROVE  Core'
<1> DEFINE r == request'[t]
<1>0. TypeOK'
  BY NextTypeOK DEF Next
<1>1. r \in Request
  BY <1>0 DEF TypeOK
<1>2. Step(t, r) /\ UNCHANGED <<versions, published, records, artifacts, results>>
  BY DEF ApplyLookup, RollbackRead, QueryRead, CommitConflict, Fail, Step, DInv, TypeOK
<1>3. Held(t)' /\ ~Drawing(t)'
  <2>1. ASSUME NEW p \in Ids, NEW e \in Numbers, NEW k \in Keys \cup {None},
               ApplyLookup(t, p, e, k)
        PROVE  Held(t)' /\ ~Drawing(t)'
    <3>1. r = [NoRequest EXCEPT !.pc = "apply", !.dataset = versions[p].dataset,
                 !.parent = p, !.key = k]
      BY <2>1 DEF ApplyLookup, Step, DInv, TypeOK
    <3>2. r.pc = "apply" /\ r.parent = p /\ r.dataset = versions[p].dataset
      BY <3>1 DEF NoRequest
    <3> QED
      BY <1>2, <2>1, <3>2 DEF ApplyLookup, Held, Drawing, Exists
  <2>2. ASSUME NEW d \in Datasets, NEW v \in Ids, RollbackRead(t, d, v)
        PROVE  Held(t)' /\ ~Drawing(t)'
    <3>1. r = [NoRequest EXCEPT !.pc = "rollback", !.dataset = d, !.version = v,
                 !.seen = published[d]]
      BY <2>2 DEF RollbackRead, Step, DInv, TypeOK
    <3>2. r.pc = "rollback" /\ r.dataset = d /\ r.version = v
      BY <3>1 DEF NoRequest
    <3> QED
      BY <1>2, <2>2, <3>2 DEF RollbackRead, Held, Drawing, Exists
  <2>3. ASSUME NEW m \in Members, NEW v \in Ids, QueryRead(t, m, v)
        PROVE  Held(t)' /\ ~Drawing(t)'
    <3>1. r = [NoRequest EXCEPT !.pc = "query", !.version = v, !.member = m,
                 !.seen = artifacts[versions[v].file]]
      BY <2>3 DEF QueryRead, Step, DInv, TypeOK
    <3>2. r.pc = "query" /\ r.version = v /\ r.member = m /\ r.seen = v
      BY <2>3, <3>1 DEF NoRequest, QueryRead, DInv, Kept
    <3> QED
      BY <3>2 DEF Held, Drawing
  <2>4. ASSUME CommitConflict(t) \/ Fail(t) PROVE Held(t)' /\ ~Drawing(t)'
    <3>1. r = NoRequest
      BY <2>4 DEF CommitConflict, Fail, Step, DInv, TypeOK
    <3> QED
      BY <3>1 DEF Held, Drawing, NoRequest
  <2> QED
    BY <2>1, <2>2, <2>3, <2>4
<1>4. \A s \in Threads : Apart(s, t)' /\ Apart(t, s)'
  BY <1>3 DEF Apart
<1> QED
  BY <1>1, <1>2, <1>3, <1>4, ThreadStep

\* The ids an upload draws are used nowhere.
LEMMA UploadLookupCore ==
  ASSUME DInv, NEW t \in Threads, NEW k \in Keys \cup {None}, UploadLookup(t, k)
  PROVE  Core'
<1> DEFINE r == request'[t]
<1>0. TypeOK'
  BY NextTypeOK DEF Next
<1>1. r \in Request
  BY <1>0 DEF TypeOK
<1>2. Step(t, r) /\ UNCHANGED <<versions, published, records, artifacts, results>>
  BY DEF UploadLookup, Step, DInv, TypeOK
<1>3. PICK d \in Datasets, v \in Ids :
        /\ FreshDataset(d) /\ FreshVersion(v)
        /\ r = [NoRequest EXCEPT !.pc = "upload", !.dataset = d,
                  !.version = v, !.number = 1, !.key = k]
  BY DEF UploadLookup, Step, DInv, TypeOK
<1>4. r.pc = "upload" /\ r.dataset = d /\ r.version = v /\ r.number = 1 /\ r.parent = None
  BY <1>3 DEF NoRequest
<1>5. Held(t)'
  <2>1. 1 \in Numbers
    BY DEF Numbers
  <2> QED
    BY <1>2, <1>3, <1>4, <2>1 DEF Held, Drawing, Drawn, FreshDataset, FreshVersion, Exists
<1>6. ASSUME NEW s \in Threads \ {t} PROVE Apart(s, t)' /\ Apart(t, s)'
  <2>1. request'[s] = request[s]
    BY <1>1, <1>2, StepTyped DEF DInv
  <2>2. request[s].version # v /\ request[s].dataset # d
    BY <1>3 DEF FreshDataset, FreshVersion
  <2> QED
    BY <1>4, <2>1, <2>2 DEF Apart
<1> QED
  BY <1>1, <1>2, <1>5, <1>6, ThreadStep

\* A cleaning takes the number after the last one, and an unused id.
LEMMA ApplyNumberCore ==
  ASSUME DInv, NEW t \in Threads, ApplyNumber(t)
  PROVE  Core'
<1> DEFINE q == request[t]
           r == request'[t]
<1>0. TypeOK'
  BY NextTypeOK DEF Next
<1>1. r \in Request /\ q \in Request
  BY <1>0 DEF TypeOK, DInv
<1>2. Step(t, r) /\ UNCHANGED <<versions, published, records, artifacts, results>>
  BY DEF ApplyNumber, Step, DInv, TypeOK
<1>3. PICK v \in Ids, n \in Numbers :
        /\ FreshVersion(v) /\ IsNext(q.dataset, n)
        /\ r = [q EXCEPT !.pc = "numbered", !.version = v, !.number = n]
  BY DEF ApplyNumber, Step, DInv, TypeOK
<1>4. /\ r.pc = "numbered" /\ r.dataset = q.dataset /\ r.version = v
      /\ r.number = n /\ r.parent = q.parent
  BY <1>1, <1>3 DEF Request
<1>5. /\ q.parent \in Ids /\ Exists(q.parent) /\ versions[q.parent].dataset = q.dataset
      /\ q.dataset \in Datasets /\ published[q.dataset] # None /\ versions[q.parent].number \in Numbers
  BY DEF ApplyNumber, DInv, Held, Kept, Exists, TypeOK, Version
<1>6. n # 1 /\ Preceded(q.dataset, n)
  BY <1>3, <1>5 DEF IsNext, Preceded, Numbers
<1>7. Held(t)'
  BY <1>2, <1>3, <1>4, <1>5, <1>6
  DEF Held, Drawing, Drawn, FreshVersion, Exists, Preceded
<1>8. ASSUME NEW s \in Threads \ {t} PROVE Apart(s, t)' /\ Apart(t, s)'
  <2>1. request'[s] = request[s]
    BY <1>1, <1>2, StepTyped DEF DInv
  <2>2. request[s].version # v
    BY <1>3 DEF FreshVersion
  <2>3. Drawing(s) /\ request[s].parent = None => request[s].dataset # q.dataset
    BY <1>5 DEF DInv, Held, Drawn
  <2> QED
    BY <1>4, <1>5, <2>1, <2>2, <2>3 DEF Apart, Drawing
<1> QED
  BY <1>1, <1>2, <1>7, <1>8, ThreadStep

LEMMA CrashCore ==
  ASSUME DInv, Crash
  PROVE  Core'
<1>1. \A t \in Threads : Held(t)' /\ ~Drawing(t)'
  BY DEF Crash, Held, Drawing, NoRequest
<1> QED
  BY <1>1, TablesKept DEF Crash, Core, Apart

-----------------------------------------------------------------------------
(* Steps that write a file.                                                *)

\* A thread that writes a file of its own disturbs nobody.
LEMMA FileStep ==
  ASSUME DInv, NEW t \in Threads, NEW r \in Request, Step(t, r), NEW f,
         Store(f, request[t].version),
         UNCHANGED <<versions, published, records, results>>, Drawing(t),
         \/ f = <<request[t].dataset, Original>>
         \/ f = FileOf(request[t].dataset, request[t].version, request[t].number),
         f \in Files,
         r.pc \in {"numbered", "ready"}, r = [request[t] EXCEPT !.pc = r.pc],
         r.pc = "ready" => f # <<request[t].dataset, Original>>
  PROVE  Core'
<1> DEFINE q == request[t]
<1>1. /\ q \in Request /\ Drawn(t) /\ request'[t] = r
      /\ \A s \in Threads \ {t} : request'[s] = request[s]
  BY StepTyped DEF DInv, TypeOK, Held
<1>2. /\ r.dataset = q.dataset /\ r.version = q.version /\ r.number = q.number
      /\ r.parent = q.parent
  BY <1>1 DEF Request
<1>3. \A g \in Files : artifacts'[g] = IF g = f THEN q.version ELSE artifacts[g]
  BY DEF Store, DInv, TypeOK
<1>4. ASSUME NEW v \in Ids, Exists(v) PROVE versions[v].file # f
  <2>1. /\ versions[v].number \in Numbers /\ versions[v].dataset \in Datasets
        /\ published[versions[v].dataset] # None
        /\ versions[v].file = FileOf(versions[v].dataset, v, versions[v].number)
    BY <1>4 DEF DInv, TypeOK, Version, Exists, Kept
  <2>2. v # q.version
    BY <1>1, <1>4 DEF Drawn
  <2>3. q.number = 1 => versions[v].dataset # q.dataset
    BY <1>1, <2>1 DEF Drawn
  <2> QED
    BY <1>1, <2>1, <2>2, <2>3, FileTyped, FilesApart DEF Drawn
<1>5. \A v \in Ids : Blank(v)' /\ Kept(v)'
  <2> SUFFICES ASSUME NEW v \in Ids PROVE Blank(v)' /\ Kept(v)'
    OBVIOUS
  <2>1. Blank(v) /\ Kept(v)
    BY DEF DInv
  <2>2. Exists(v) => versions[v].file \in Files /\ versions[v].number \in Numbers
    BY <2>1, FileTyped DEF DInv, TypeOK, Version, Exists, Kept
  <2> QED
    BY <1>3, <1>4, <2>1, <2>2 DEF Blank, Kept, Exists
<1>6. Held(t)'
  <2>1. Drawn(t)'
    BY <1>1, <1>2 DEF Drawn, Exists, Preceded
  <2>2. r.pc = "ready" => artifacts'[FileOf(r.dataset, r.version, r.number)] = r.version
    BY <1>2, <1>3
  <2> QED
    BY <1>1, <2>1, <2>2 DEF Held
<1>7. ASSUME NEW s \in Threads \ {t} PROVE Held(s)'
  <2> DEFINE o == request[s]
  <2>1. CASE o.pc = "ready"
    <3>1. Drawing(s) /\ Drawn(s) /\ Apart(s, t) /\ Apart(t, s)
      BY <2>1 DEF Drawing, DInv, Held
    <3>2. /\ o.version # q.version
          /\ o.number = 1 /\ q.number = 1 => o.dataset # q.dataset
      BY <1>1, <3>1 DEF Apart, Drawn
    <3>3. /\ FileOf(o.dataset, o.version, o.number) # f
          /\ FileOf(o.dataset, o.version, o.number) \in Files
      BY <1>1, <3>1, <3>2, FileTyped, FilesApart DEF Drawn
    <3> QED
      BY <1>1, <1>3, <2>1, <3>1, <3>3, HeldKept DEF DInv, Held, Drawn, Exists
  <2>2. CASE o.pc # "ready"
    BY <1>1, <2>2, HeldKept DEF DInv, Held, Drawn, Exists
  <2> QED
    BY <2>1, <2>2
<1>8. \A s \in Threads \ {t} : Apart(s, t)' /\ Apart(t, s)'
  BY <1>1, <1>2 DEF DInv, Apart, Drawing
<1>9. HeadStored' /\ Recorded' /\ DenseNumbers' /\ ResultsFaithful'
  BY DEF DInv, HeadStored, Recorded, DenseNumbers, ResultsFaithful, Exists
<1> QED
  BY <1>1, <1>5, <1>6, <1>7, <1>8, <1>9, ApartKept DEF Core

LEMMA StoreSteps ==
  ASSUME DInv, NEW t \in Threads, StoreOriginal(t) \/ StoreRows(t)
  PROVE  Core'
<1>1. request[t] \in Request /\ Drawing(t) /\ Drawn(t)
  BY DEF DInv, TypeOK, Held, Drawing, StoreOriginal, StoreRows
<1>2. CASE StoreOriginal(t)
  <2> DEFINE f == <<request[t].dataset, Original>>
             r == [request[t] EXCEPT !.pc = "numbered"]
  <2>1. r \in Request /\ r.pc = "numbered" /\ f \in Files
    BY <1>1 DEF Request, Drawn, Files, Original
  <2>2. Store(f, request[t].version) /\ Step(t, r)
        /\ UNCHANGED <<versions, published, records, results>>
    BY <1>2 DEF StoreOriginal
  <2> QED
    BY <1>1, <2>1, <2>2, FileStep
<1>3. CASE StoreRows(t)
  <2> DEFINE f == FileOf(request[t].dataset, request[t].version, request[t].number)
             r == [request[t] EXCEPT !.pc = "ready"]
  <2>1. r \in Request /\ r.pc = "ready" /\ f \in Files /\ f # <<request[t].dataset, Original>>
    BY <1>1, FileTyped DEF Request, Drawn
  <2>2. Store(f, request[t].version) /\ Step(t, r)
        /\ UNCHANGED <<versions, published, records, results>>
    BY <1>3 DEF StoreRows
  <2> QED
    BY <1>1, <2>1, <2>2, FileStep
<1> QED
  BY <1>2, <1>3

-----------------------------------------------------------------------------
(* Commits.                                                                *)

\* The rows after a commit: one more, the others as they were.
LEMMA CommitRows ==
  ASSUME DInv, NEW t \in Threads, CommitVersion(t)
  PROVE  LET q == request[t] IN
         /\ q \in Request /\ Drawn(t) /\ Unique(q)
         /\ \A v \in Ids : versions'[v] = IF v = q.version
              THEN [dataset |-> q.dataset, number |-> q.number, parent |-> q.parent,
                    file |-> FileOf(q.dataset, q.version, q.number), key |-> q.key]
              ELSE versions[v]
         /\ \A d \in Datasets : published'[d] = IF d = q.dataset THEN q.version ELSE published[d]
         /\ UNCHANGED <<artifacts, results>>
         /\ request'[t] = NoRequest
         /\ \A s \in Threads \ {t} : request'[s] = request[s]
BY NoRequestTyped, StepTyped DEF DInv, TypeOK, Held, Drawing, CommitVersion, Commit

LEMMA CommitCore ==
  ASSUME DInv, NEW t \in Threads, CommitVersion(t)
  PROVE  Core'
<1> DEFINE q == request[t]
           file == FileOf(q.dataset, q.version, q.number)
           row == [dataset |-> q.dataset, number |-> q.number, parent |-> q.parent,
                   file |-> file, key |-> q.key]
<1>0. PICK new \in Ids : new = q.version
  BY CommitRows DEF Drawn
<1>1. /\ q \in Request /\ Drawn(t) /\ Unique(q)
      /\ \A v \in Ids : versions'[v] = IF v = new THEN row ELSE versions[v]
      /\ \A d \in Datasets : published'[d] = IF d = q.dataset THEN new ELSE published[d]
      /\ UNCHANGED <<artifacts, results>>
      /\ request'[t] = NoRequest
      /\ \A s \in Threads \ {t} : request'[s] = request[s]
  BY <1>0, CommitRows
<1>2. /\ new = q.version /\ ~Exists(new) /\ q.dataset \in Datasets /\ q.number \in Numbers
      /\ artifacts[file] = new /\ q.pc = "ready" /\ None \notin Ids
  BY <1>0, <1>1 DEF Drawn, DInv, Held, CommitVersion
<1>3. /\ Exists(new)' /\ row.number # 0
      /\ \A v \in Ids \ {new} : versions'[v] = versions[v] /\ (Exists(v)' <=> Exists(v))
  BY <1>1, <1>2 DEF Exists, Numbers
<1>4. ASSUME NEW v \in Ids PROVE Blank(v)' /\ Kept(v)'
  <2>1. CASE v = new
    BY <1>1, <1>2, <1>3, <2>1 DEF Blank, Kept
  <2>2. CASE v # new
    <3>1. Blank(v) /\ Kept(v) /\ versions'[v] = versions[v] /\ (Exists(v)' <=> Exists(v))
      BY <1>3, <2>2 DEF DInv
    <3>2. Exists(v) => published'[versions[v].dataset] # None
      BY <1>1, <1>2, <3>1 DEF Kept
    <3> QED
      BY <1>1, <3>1, <3>2 DEF Blank, Kept
  <2> QED
    BY <2>1, <2>2
<1>5. ASSUME NEW s \in Threads \ {t} PROVE Held(s)'
  <2> DEFINE o == request[s]
  <2>1. Held(s) /\ Apart(s, t) /\ Apart(t, s) /\ Drawing(t)
    BY <1>2 DEF DInv, Drawing
  <2>2. Drawing(s) => o.version # new /\ o.version \in Ids /\ ~Exists(o.version)
    BY <1>2, <2>1 DEF Apart, Held, Drawn
  <2>3. Drawing(s) /\ o.parent = None => published'[o.dataset] = None
    BY <1>1, <2>1 DEF Apart, Held, Drawn
  <2>4. \A v \in Ids : Exists(v) => versions'[v] = versions[v]
    BY <1>2, <1>3
  <2> QED
    BY <1>1, <1>3, <2>1, <2>2, <2>3, <2>4, HeldKept DEF Held
<1>6. Held(t)' /\ ~Drawing(t)'
  BY <1>1 DEF Held, Drawing, NoRequest
<1>7. \A s, u \in Threads : Apart(s, u)'
  BY <1>1, <1>6, ApartKept DEF Apart
<1>8. HeadStored'
  <2> SUFFICES ASSUME NEW d \in Datasets, published'[d] # None
               PROVE  published'[d] \in Ids /\ versions'[published'[d]].dataset = d
    BY DEF HeadStored
  <2>1. CASE d = q.dataset
    BY <1>1, <1>2, <2>1
  <2>2. CASE d # q.dataset
    <3>1. /\ published'[d] = published[d] /\ published[d] \in Ids
          /\ versions[published[d]].dataset = d
      BY <1>1, <2>2 DEF DInv, HeadStored
    <3>2. published[d] # new
      BY <1>2, <3>1 DEF DInv, Blank, NoVersion
    <3> QED
      BY <1>1, <3>1, <3>2
  <2> QED
    BY <2>1, <2>2
<1>9. Recorded'
  <2>1. /\ q.parent \in Operations /\ q.key \in Keys \cup {None}
        /\ q.key # None => records[<<q.parent, q.key>>] = None
    BY <1>1 DEF Request, Operations, Unique, Unrecorded
  <2>2. \A ok \in Operations \X Keys :
          records'[ok] = IF q.key # None /\ ok = <<q.parent, q.key>> THEN new ELSE records[ok]
    BY <1>2, <2>1 DEF CommitVersion, Commit, DInv, TypeOK
  <2>3. ASSUME NEW ok \in Operations \X Keys, records'[ok] # None
        PROVE  /\ Exists(records[ok])' /\ versions'[records'[ok]].parent = ok[1]
               /\ versions'[records'[ok]].key = ok[2]
    <3>1. CASE q.key # None /\ ok = <<q.parent, q.key>>
      BY <1>1, <1>2, <1>3, <2>2, <3>1 DEF Exists
    <3>2. CASE ~(q.key # None /\ ok = <<q.parent, q.key>>)
      <4>1. records'[ok] = records[ok] /\ records[ok] \in Ids
        BY <2>2, <2>3, <3>2 DEF DInv, TypeOK
      <4>2. /\ Exists(records[ok]) /\ versions[records[ok]].parent = ok[1]
            /\ versions[records[ok]].key = ok[2]
        BY <2>3, <4>1 DEF DInv, Recorded
      <4>3. records[ok] # new
        BY <1>2, <4>2
      <4> QED
        BY <1>1, <4>1, <4>2, <4>3 DEF Exists
    <3> QED
      BY <3>1, <3>2
  <2>4. ASSUME NEW v \in Ids, Exists(v)', versions'[v].key # None
        PROVE  records'[<<versions'[v].parent, versions'[v].key>>] = v
    <3>1. CASE v = new
      BY <1>1, <1>2, <2>1, <2>2, <2>4, <3>1
    <3>2. CASE v # new
      <4>1. /\ Exists(v) /\ versions'[v] = versions[v] /\ versions[v].parent \in Operations
            /\ versions[v].key \in Keys
        BY <1>3, <2>4, <3>2 DEF DInv, TypeOK, Version, Operations
      <4>2. records[<<versions[v].parent, versions[v].key>>] = v
        BY <2>4, <4>1 DEF DInv, Recorded
      <4>3. ~(q.key # None /\ <<versions[v].parent, versions[v].key>> = <<q.parent, q.key>>)
        BY <2>1, <4>2
      <4> QED
        BY <2>2, <4>1, <4>2, <4>3
    <3> QED
      BY <3>1, <3>2
  <2> QED
    BY <2>3, <2>4 DEF Recorded
<1>10. DenseNumbers'
  <2>1. \A w \in Ids : Exists(w) => versions[w].number \in Numbers /\ w # new
    BY <1>2 DEF DInv, TypeOK, Version, Exists
  <2>2. \A w \in Ids : versions[w].dataset = q.dataset => versions[w].number # q.number
    BY <1>1 DEF Unique
  <2>3. ASSUME NEW n \in 1..(q.number - 1)
        PROVE  \E w \in Ids : versions[w].dataset = q.dataset /\ versions[w].number = n
    <3>1. q.number # 1 /\ q.number \in Nat /\ n \in Nat
      BY <1>2, <2>3 DEF Numbers
    <3>2. PICK p \in Ids : versions[p].dataset = q.dataset /\ versions[p].number + 1 = q.number
      BY <1>1, <3>1 DEF Drawn, Preceded
    <3>3. Exists(p) /\ versions[p].number \in Nat
      BY <1>2, <3>1, <3>2 DEF Exists, DInv, TypeOK, Version, Numbers
    <3>4. CASE n = versions[p].number
      BY <3>2, <3>4
    <3>5. CASE n # versions[p].number
      <4>1. n \in 1..(versions[p].number - 1)
        BY <2>3, <3>1, <3>2, <3>3, <3>5
      <4> QED
        BY <3>2, <3>3, <4>1 DEF DInv, DenseNumbers
    <3> QED
      BY <3>4, <3>5
  <2>4. \A w \in Ids : versions[w].dataset \in Datasets => Exists(w)
    BY DEF DInv, Blank, NoVersion
  <2> SUFFICES ASSUME NEW v \in Ids, Exists(v)'
               PROVE  /\ \A n \in 1..(versions'[v].number - 1) : \E w \in Ids :
                           /\ versions'[w].dataset = versions'[v].dataset
                           /\ versions'[w].number = n
                      /\ \A w \in Ids \ {v} : versions'[w].dataset = versions'[v].dataset
                           => versions'[w].number # versions'[v].number
    BY DEF DenseNumbers
  <2>5. CASE v = new
    <3>1. versions'[v].number = q.number /\ versions'[v].dataset = q.dataset
      BY <1>1, <2>5
    <3>2. ASSUME NEW n \in 1..(q.number - 1)
          PROVE  \E w \in Ids : versions'[w].dataset = q.dataset /\ versions'[w].number = n
      <4>1. PICK w \in Ids : versions[w].dataset = q.dataset /\ versions[w].number = n
        BY <2>3
      <4>2. w # new
        BY <1>2, <2>1, <2>4, <4>1
      <4> QED
        BY <1>3, <4>1, <4>2
    <3> QED
      BY <1>3, <2>2, <2>5, <3>1, <3>2
  <2>6. CASE v # new
    <3>1. Exists(v) /\ versions'[v] = versions[v]
      BY <1>3, <2>6
    <3>2. ASSUME NEW n \in 1..(versions[v].number - 1)
          PROVE  \E w \in Ids : versions'[w].dataset = versions[v].dataset
                              /\ versions'[w].number = n
      <4>1. PICK w \in Ids : versions[w].dataset = versions[v].dataset /\ versions[w].number = n
        BY <3>1 DEF DInv, DenseNumbers
      <4>2. w # new
        <5>1. versions[v].dataset \in Datasets
          BY <3>1 DEF DInv, Kept
        <5> QED
          BY <1>2, <2>4, <4>1, <5>1
      <4> QED
        BY <1>3, <4>1, <4>2
    <3>3. ASSUME NEW w \in Ids \ {v}, versions'[w].dataset = versions[v].dataset
          PROVE  versions'[w].number # versions[v].number
      <4>1. CASE w = new
        BY <1>1, <2>2, <3>1, <3>3, <4>1
      <4>2. CASE w # new
        BY <1>3, <3>1, <3>3, <4>2 DEF DInv, DenseNumbers
      <4> QED
        BY <4>1, <4>2
    <3> QED
      BY <3>1, <3>2, <3>3
  <2> QED
    BY <2>5, <2>6
<1>11. ResultsFaithful'
  BY <1>1 DEF DInv, ResultsFaithful
<1> QED
  BY <1>4, <1>5, <1>6, <1>7, <1>8, <1>9, <1>10, <1>11 DEF Core

LEMMA RollbackWriteCore ==
  ASSUME DInv, NEW t \in Threads, RollbackWrite(t)
  PROVE  Core'
<1> DEFINE q == request[t]
<1>1. /\ q.dataset \in Datasets /\ q.version \in Ids /\ Exists(q.version)
      /\ versions[q.version].dataset = q.dataset
      /\ published[q.dataset] # None /\ q.version # None
  BY DEF RollbackWrite, DInv, Held, Kept
<1>2. /\ request'[t] = NoRequest /\ \A s \in Threads \ {t} : request'[s] = request[s]
      /\ UNCHANGED <<versions, records, artifacts, results>>
  BY NoRequestTyped, StepTyped DEF RollbackWrite, DInv
<1>3. \A d \in Datasets : /\ published'[d] \in {published[d], q.version}
                          /\ d # q.dataset => published'[d] = published[d]
                          /\ published'[d] = None <=> published[d] = None
  BY <1>1 DEF RollbackWrite, DInv, TypeOK
<1>4. \A v \in Ids : Blank(v)' /\ Kept(v)'
  BY <1>2, <1>3 DEF DInv, Blank, Kept, Exists
<1>5. ASSUME NEW s \in Threads \ {t} PROVE Held(s)'
  <2>1. Drawing(s) => /\ ~Exists(request[s].version)'
                      /\ request[s].parent = None => published'[request[s].dataset] = None
    BY <1>2, <1>3 DEF DInv, Held, Drawn, Exists
  <2> QED
    BY <1>2, <2>1, HeldKept DEF DInv, Held
<1>6. Held(t)' /\ ~Drawing(t)'
  BY <1>2 DEF Held, Drawing, NoRequest
<1>7. \A s, u \in Threads : Apart(s, u)'
  BY <1>2, <1>6, ApartKept DEF Apart
<1>8. HeadStored'
  BY <1>1, <1>2, <1>3 DEF DInv, HeadStored
<1>9. Recorded' /\ DenseNumbers' /\ ResultsFaithful'
  BY <1>2 DEF DInv, Recorded, DenseNumbers, ResultsFaithful, Exists
<1> QED
  BY <1>4, <1>5, <1>6, <1>7, <1>8, <1>9 DEF Core

LEMMA QueryCommitCore ==
  ASSUME DInv, NEW t \in Threads, QueryCommit(t)
  PROVE  Core'
<1> DEFINE q == request[t]
<1>1. q.member \in Members /\ q.version \in Ids /\ q.seen = q.version
  BY DEF QueryCommit, DInv, Held
<1>2. /\ request'[t] = NoRequest /\ \A s \in Threads \ {t} : request'[s] = request[s]
      /\ UNCHANGED <<versions, published, records, artifacts>>
  BY NoRequestTyped, StepTyped DEF QueryCommit, DInv
<1>3. ResultsFaithful'
  BY <1>1 DEF QueryCommit, DInv, TypeOK, ResultsFaithful
<1>4. ASSUME NEW s \in Threads \ {t} PROVE Held(s)'
  BY <1>2, HeldKept DEF DInv, Held, Drawn, Exists
<1>5. Held(t)' /\ ~Drawing(t)'
  BY <1>2 DEF Held, Drawing, NoRequest
<1>6. \A s, u \in Threads : Apart(s, u)'
  BY <1>2, <1>5, ApartKept DEF Apart
<1>7. /\ \A v \in Ids : Blank(v)' /\ Kept(v)'
      /\ HeadStored' /\ Recorded' /\ DenseNumbers'
  BY <1>2 DEF DInv, Blank, Kept, HeadStored, Recorded, DenseNumbers, Exists
<1> QED
  BY <1>3, <1>4, <1>5, <1>6, <1>7 DEF Core

-----------------------------------------------------------------------------
(* The theorems.                                                           *)

LEMMA NextDInv ==
  ASSUME DInv, [Next]_vars
  PROVE  DInv'
<1>1. CASE Next
  <2>1. Core'
    BY <1>1, ReadSteps, UploadLookupCore, ApplyNumberCore, StoreSteps, CommitCore,
       RollbackWriteCore, QueryCommitCore, CrashCore DEF Next
  <2> QED
    BY <2>1, NextTypeOK DEF Core, DInv
<1>2. CASE UNCHANGED vars
  <2>1. /\ \A t \in Threads : Held(t)'
        /\ \A s, t \in Threads : Apart(s, t)'
    BY <1>2, HeldKept DEF vars, DInv, Held, Drawn, Drawing, Exists, Apart
  <2> QED
    BY <1>2, <2>1, TablesKept, NextTypeOK DEF vars, DInv
<1> QED
  BY <1>1, <1>2

\* The invariant holds in every reachable state.
THEOREM VersionsInvariant == Spec => []DInv
<1>1. DInv /\ [Next]_vars => DInv'
  BY NextDInv
<1> QED
  BY InitDInv, <1>1, PTL DEF Spec

\* Types, for any number of requests and versions.
THEOREM VersionsTyped == Spec => []TypeOK
<1>1. DInv => TypeOK
  BY DEF DInv
<1> QED
  BY <1>1, VersionsInvariant, PTL

\* A committed version's file is there, and holds that version's data.
THEOREM VersionsImmutable == Spec => []ArtifactsFaithful
<1>1. DInv => ArtifactsFaithful
  BY DEF DInv, Kept, ArtifactsFaithful
<1> QED
  BY <1>1, VersionsInvariant, PTL

\* Version numbers have no gaps and no repeats.
THEOREM NumbersAreDense == Spec => []DenseNumbers
<1>1. DInv => DenseNumbers
  BY DEF DInv
<1> QED
  BY <1>1, VersionsInvariant, PTL

\* A key creates at most one version per operation: its record names them all.
THEOREM KeysAreHonoured == Spec => []OneVersionPerKey
<1>1. DInv => OneVersionPerKey
  <2> SUFFICES ASSUME DInv, NEW v \in Ids, NEW w \in Ids, v # w, Exists(v), Exists(w),
                      versions[v].key # None, versions[v].parent = versions[w].parent,
                      versions[v].key = versions[w].key
               PROVE  FALSE
    BY DEF OneVersionPerKey
  <2> QED
    BY DEF DInv, Recorded
<1> QED
  BY <1>1, VersionsInvariant, PTL

\* Heads name stored versions of their dataset; results cite their own data.
THEOREM HeadsAndResults == Spec => [](HeadStored /\ ResultsFaithful)
<1>1. DInv => HeadStored /\ ResultsFaithful
  BY DEF DInv
<1> QED
  BY <1>1, VersionsInvariant, PTL

-----------------------------------------------------------------------------
(* The endpoints implement the version history.                            *)

RowOf(v) == [dataset |-> versions[v].dataset, number |-> versions[v].number,
             parent |-> versions[v].parent]

UsedKeys == {ok \in Operations \X Keys : records[ok] # None}

LEMMA HistoryInit == Init => History!Init
BY DEF Init, History!Init, History!NoRow, NoVersion

LEMMA HistoryStutter ==
  ASSUME UNCHANGED <<versions, published, records>>
  PROVE  UNCHANGED History!history
BY DEF History!history

\* A rollback moves the head to a stored version of the dataset.
LEMMA HistoryRollback ==
  ASSUME DInv, NEW t \in Threads, RollbackWrite(t)
  PROVE  History!Next \/ UNCHANGED History!history
<1>1. PICK d \in Datasets, v \in Ids : /\ d = request[t].dataset /\ v = request[t].version
                                     /\ versions[v].dataset = d
  BY DEF RollbackWrite, DInv, Held
<1>2. UNCHANGED <<versions, records>>
  BY DEF RollbackWrite
<1>3. CASE published' = published
  BY <1>2, <1>3, HistoryStutter
<1>4. CASE published' # published
  <2>1. published' = [published EXCEPT ![d] = v]
    BY <1>1, <1>4 DEF RollbackWrite
  <2>2. History!Publish(d, v)
    BY <1>1, <1>2, <2>1 DEF History!Publish
  <2> QED
    BY <2>2 DEF History!Next
<1> QED
  BY <1>3, <1>4

\* A commit creates a dataset or appends to the history of one.
LEMMA HistoryCommit ==
  ASSUME DInv, NEW t \in Threads, CommitVersion(t)
  PROVE  History!Next
<1> DEFINE q == request[t]
<1>1. q \in Request /\ Drawn(t) /\ Unique(q)
  BY CommitRows
<1>2. PICK d \in Datasets, v \in Ids, k \in Keys \cup {None}, p \in Ids \cup {None} :
        d = q.dataset /\ v = q.version /\ k = q.key /\ p = q.parent
  BY <1>1 DEF Drawn, Request
<1>3. PICK n \in Numbers : n = q.number
  BY <1>1 DEF Drawn
<1>4. /\ \A w \in Ids : versions'[w] = IF w = v
           THEN [dataset |-> d, number |-> n, parent |-> p,
                 file |-> FileOf(d, v, n), key |-> k] ELSE versions[w]
      /\ published' = [published EXCEPT ![d] = v]
      /\ records' = IF k = None THEN records ELSE [records EXCEPT ![<<p, k>>] = v]
  <2>1. \A w \in Ids : versions'[w] = IF w = v
           THEN [dataset |-> d, number |-> n, parent |-> p,
                 file |-> FileOf(d, v, n), key |-> k] ELSE versions[w]
    BY <1>2, <1>3, CommitRows
  <2> QED
    BY <1>2, <2>1 DEF CommitVersion, Commit
<1>5. \A w \in Ids : RowOf(w)' = IF w = v THEN [dataset |-> d, number |-> n, parent |-> p]
                                 ELSE RowOf(w)
  BY <1>4 DEF RowOf
<1>6. RowOf(v) = History!NoRow
  BY <1>1, <1>2 DEF Drawn, DInv, Blank, RowOf, NoVersion, History!NoRow
<1>7. /\ <<p, k>> \notin UsedKeys
      /\ UsedKeys' = IF k = None THEN UsedKeys ELSE UsedKeys \cup {<<p, k>>}
  <2>1. k # None => records[<<p, k>>] = None
    BY <1>1, <1>2 DEF Unique, Unrecorded
  <2>2. <<p, k>> \notin UsedKeys
    BY <2>1 DEF UsedKeys
  <2>3. CASE k = None
    BY <1>4, <2>2, <2>3 DEF UsedKeys
  <2>4. CASE k # None
    <3>1. <<p, k>> \in Operations \X Keys /\ v # None
      BY <2>4 DEF Operations
    <3>2. \A ok \in Operations \X Keys :
            records'[ok] = IF ok = <<p, k>> THEN v ELSE records[ok]
      BY <1>4, <2>4, <3>1 DEF DInv, TypeOK
    <3>3. ASSUME NEW ok \in Operations \X Keys
          PROVE  ok \in UsedKeys' <=> ok \in UsedKeys \/ ok = <<p, k>>
      BY <3>1, <3>2 DEF UsedKeys
    <3>4. UsedKeys \subseteq Operations \X Keys /\ UsedKeys' \subseteq Operations \X Keys
      BY DEF UsedKeys
    <3>5. UsedKeys' = UsedKeys \cup {<<p, k>>}
      BY <3>1, <3>3, <3>4
    <3> QED
      BY <2>2, <2>4, <3>5
  <2> QED
    BY <2>2, <2>3, <2>4
<1>8. History!Record(p, k)
  BY <1>7 DEF History!Record, UsedKeys
<1>9. CASE p = None
  <2>1. n = 1 /\ published[d] = None
    BY <1>1, <1>2, <1>3, <1>9 DEF Drawn
  <2>2. History!Create(d, v, k)
    BY <1>4, <1>5, <1>6, <1>8, <1>9, <2>1 DEF History!Create, RowOf
  <2> QED
    BY <2>2 DEF History!Next
<1>10. CASE p # None
  <2>1. p \in Ids /\ versions[p].dataset = d /\ n # 1 /\ Preceded(d, n)
    BY <1>1, <1>2, <1>3, <1>10 DEF Drawn
  <2>2. PICK l \in Ids : versions[l].dataset = d /\ versions[l].number + 1 = n
    BY <2>1 DEF Preceded
  <2>3. \A w \in Ids : versions[w].dataset = d => versions[w].number <= versions[l].number
    <3> SUFFICES ASSUME NEW w \in Ids, versions[w].dataset = d,
                        ~(versions[w].number <= versions[l].number)
                 PROVE  FALSE
      OBVIOUS
    <3>1. /\ versions[w].number \in Nat /\ versions[l].number \in Nat /\ n \in Nat
          /\ Exists(w)
      BY DEF DInv, TypeOK, Version, Numbers, Blank, NoVersion
    <3>2. versions[w].number # n
      BY <1>1, <1>2, <1>3 DEF Unique
    <3>3. n \in 1..(versions[w].number - 1)
      BY <2>2, <3>1, <3>2 DEF Numbers
    <3>4. PICK x \in Ids : versions[x].dataset = d /\ versions[x].number = n
      BY <3>1, <3>3 DEF DInv, DenseNumbers
    <3> QED
      BY <1>1, <1>2, <1>3, <3>4 DEF Unique
  <2>4. History!Last(l)
    BY <2>2, <2>3 DEF History!Last
  <2>5. [w \in Ids |-> RowOf(w)]' =
          [[w \in Ids |-> RowOf(w)] EXCEPT ![v] =
             [dataset |-> d, number |-> RowOf(l).number + 1, parent |-> p]]
    <3>1. RowOf(l).number + 1 = n
      BY <2>2 DEF RowOf
    <3> QED
      BY <1>5, <3>1
  <2>6. /\ RowOf(p).dataset = d /\ RowOf(l).dataset = d
        /\ \A w \in Ids : [x \in Ids |-> RowOf(x)][w] = RowOf(w)
    BY <2>1, <2>2 DEF RowOf
  <2>7. History!Append(p, l, v, k)
    BY <1>4, <1>6, <1>8, <2>1, <2>4, <2>5, <2>6 DEF History!Append, RowOf
  <2> QED
    BY <2>1, <2>7 DEF History!Next
<1> QED
  BY <1>9, <1>10

\* Uploads, cleanings, rollbacks and queries, however they interleave and
\* fail, are steps of the version history or invisible to it.
THEOREM EndpointsImplementHistory == Spec => ImplementsHistory
<1>1. DInv /\ [Next]_vars => [History!Next]_(History!history)
  <2> SUFFICES ASSUME DInv, [Next]_vars
               PROVE  History!Next \/ UNCHANGED History!history
    OBVIOUS
  <2>1. CASE UNCHANGED vars
    BY <2>1, HistoryStutter DEF vars
  <2>2. ASSUME NEW t \in Threads, CommitVersion(t) PROVE History!Next
    BY <2>2, HistoryCommit
  <2>3. ASSUME NEW t \in Threads, RollbackWrite(t)
        PROVE  History!Next \/ UNCHANGED History!history
    BY <2>3, HistoryRollback
  <2>4. CASE Next /\ ~(\E t \in Threads : CommitVersion(t) \/ RollbackWrite(t))
    <3>1. UNCHANGED <<versions, published, records>>
      BY <2>4 DEF Next, UploadLookup, StoreOriginal, ApplyLookup, ApplyNumber, StoreRows,
         CommitConflict, RollbackRead, QueryRead, QueryCommit, Fail, Crash
    <3> QED
      BY <3>1, HistoryStutter
  <2> QED
    BY <2>1, <2>2, <2>3, <2>4
<1> QED
  BY HistoryInit, <1>1, VersionsInvariant, PTL DEF Spec, History!Spec, ImplementsHistory
=============================================================================
