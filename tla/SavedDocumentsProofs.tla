-------------------------- MODULE SavedDocumentsProofs --------------------------
(***************************************************************************)
(* The properties of SavedDocuments and that it implements DocumentLog,    *)
(* for any threads, documents, contents, changes and bounds.               *)
(*                                                                         *)
(* What a patch computes is never expanded: a content is whatever the      *)
(* change made of the one before it.  Two facts carry the proofs: a stored *)
(* version is never written again, and what a request holds was true of    *)
(* the tables when it read them and is about versions that are stored.     *)
(***************************************************************************)
EXTENDS SavedDocuments, SequenceTheorems, TLAPS

\* The fields of a request.
Fields(r) == DOMAIN r = {"pc", "doc", "loaded", "expected", "number", "change", "content"}

Shaped ==
  /\ DOMAIN documents = Docs /\ DOMAIN snapshots = Docs \X Numbers /\ DOMAIN request = Threads
  /\ \A t \in Threads : Fields(request[t])

Kept(snaps, d, n) == snaps[<<d, n>>] # NoSnapshot

\* The versions of a document are those up to the one its row names.
Headed(docs, snaps) ==
  \A d \in Docs :
    /\ docs[d].current \in 0..MaxVersions
    /\ docs[d].current = 0 <=> docs[d] = NoDocument
    /\ \A n \in Numbers : Kept(snaps, d, n) <=> n <= docs[d].current
    /\ docs[d].current # 0 => docs[d].title = snaps[<<d, docs[d].current>>].content.title

\* A later version is a change of the one before it.
Chained(snaps) ==
  \A d \in Docs : \A n \in Numbers \ {1} : Kept(snaps, d, n) =>
    /\ snaps[<<d, n>>].expected = n - 1 /\ snaps[<<d, n>>].change \in Changes
    /\ snaps[<<d, n>>].content = Applied(snaps[<<d, n - 1>>].content, snaps[<<d, n>>].change)

\* A dashboard's versions have a title and widgets.
Plain(snaps) ==
  \A d \in Dashboards : \A n \in Numbers : Kept(snaps, d, n) =>
    snaps[<<d, n>>].content = [title  |-> snaps[<<d, n>>].content.title,
                               blocks |-> snaps[<<d, n>>].content.blocks]

\* What a request holds.
Holds(r, docs, snaps, stored) ==
  r.pc # "idle" =>
    /\ r.doc \in Docs /\ r.loaded.current \in Numbers
    /\ r.loaded.current <= docs[r.doc].current
    /\ r.loaded.title = snaps[<<r.doc, r.loaded.current>>].content.title
    /\ r.pc \in {"editing", "saving"} =>
         /\ r.expected = r.loaded.current /\ r.expected < MaxVersions /\ r.change \in Changes
         /\ r.doc \in Dashboards => r.change.kind = "update" /\ Whole(r.change.body)
    /\ r.pc = "saving" =>
         /\ r.number = r.expected + 1
         /\ r.content = Applied(snaps[<<r.doc, r.expected>>].content, r.change)
    /\ r.pc \in {"showing", "exporting", "answering", "storing", "recording"} =>
         /\ r.number \in Numbers /\ (r.expected = 0 => r.number = r.loaded.current)
         /\ r.doc \in IF r.pc \in {"showing", "answering"} THEN Dashboards ELSE Reports
    /\ r.pc \in {"answering", "storing", "recording"} => Kept(snaps, r.doc, r.number)
    /\ r.pc = "answering" /\ r.expected = 0 => r.content = snaps[<<r.doc, r.number>>].content
    /\ r.pc \in {"storing", "recording"} => r.content = snaps[<<r.doc, r.number>>].content
    /\ r.pc = "recording" => FileOf(r) \in stored

Held == \A t \in Threads : Holds(request[t], documents, snapshots, files)

\* An export names a stored version and its file.
Faithful(e, snaps, stored) ==
  /\ e.doc \in Reports /\ e.number \in Numbers /\ Kept(snaps, e.doc, e.number)
  /\ e.file \in stored /\ e.file = <<e.doc, e.number, snaps[<<e.doc, e.number>>].content>>

Exported == \A e \in exports : Faithful(e, snapshots, files)

DInv ==
  /\ Shaped /\ Headed(documents, snapshots) /\ Chained(snapshots) /\ Plain(snapshots)
  /\ Held /\ Exported

\* What the proofs use of the assumption.
LEMMA Bounds == MaxVersions \in Nat \ {0} /\ Reports \cap Dashboards = {}
  BY DocumentsAssumption

-----------------------------------------------------------------------------
(* What a step must leave alone.                                           *)

\* No stored version is written, no row moves back, no file goes.
Frozen ==
  /\ \A d \in Docs : \A n \in Numbers :
       Kept(snapshots, d, n) => snapshots'[<<d, n>>] = snapshots[<<d, n>>]
  /\ \A d \in Docs : documents'[d].current \in 0..MaxVersions
                     /\ documents'[d].current >= documents[d].current
  /\ files \subseteq files'

\* What was true of stored versions stays true.
LEMMA HoldsOn ==
  ASSUME DInv, Frozen, NEW r, Holds(r, documents, snapshots, files)
  PROVE  Holds(r, documents', snapshots', files')
<1>. USE Bounds DEF Numbers, Docs
<1>. SUFFICES ASSUME r.pc # "idle" PROVE Holds(r, documents', snapshots', files')
  BY DEF Holds
<1>1. /\ r.doc \in Docs /\ r.loaded.current \in Numbers
      /\ r.loaded.current <= documents[r.doc].current
  BY DEF Holds
<1>2. documents[r.doc].current \in 0..MaxVersions /\ documents'[r.doc].current \in 0..MaxVersions
      /\ documents'[r.doc].current >= documents[r.doc].current
  BY <1>1 DEF DInv, Headed, Frozen
<1>3. r.loaded.current <= documents'[r.doc].current
  BY <1>1, <1>2
<1>4. snapshots'[<<r.doc, r.loaded.current>>] = snapshots[<<r.doc, r.loaded.current>>]
  BY <1>1 DEF DInv, Headed, Frozen
<1>5. r.pc \in {"answering", "storing", "recording"} =>
        /\ r.number \in Numbers /\ Kept(snapshots, r.doc, r.number)
        /\ snapshots'[<<r.doc, r.number>>] = snapshots[<<r.doc, r.number>>]
  BY <1>1 DEF Holds, Frozen
<1>6. r.pc = "recording" => FileOf(r) \in files'
  BY DEF Holds, Frozen
<1>. QED
  BY <1>1, <1>3, <1>4, <1>5, <1>6 DEF Holds, Kept

\* An export stays true.
LEMMA ExportsOn ==
  ASSUME DInv, Frozen, NEW e, Faithful(e, snapshots, files)
  PROVE  Faithful(e, snapshots', files')
  BY DEF Faithful, Frozen, Kept, Docs

\* The tables but for files and exports are as they were.
LEMMA Unmoved ==
  ASSUME DInv, Shaped', UNCHANGED <<documents, snapshots>>, files \subseteq files',
         NEW t \in Threads,
         \A s \in Threads \ {t} : request'[s] = request[s],
         Holds(request'[t], documents, snapshots, files'),
         \A e \in exports' : e \in exports \/ Faithful(e, snapshots, files')
  PROVE  DInv'
<1>1. Frozen
  <2>1. \A d \in Docs : documents'[d].current = documents[d].current
    OBVIOUS
  <2>2. \A d \in Docs : documents[d].current \in 0..MaxVersions
    BY DEF DInv, Headed
  <2>3. \A d \in Docs : documents[d].current >= documents[d].current
    BY <2>2, Bounds
  <2>4. \A d \in Docs : \A n \in Numbers :
          Kept(snapshots, d, n) => snapshots'[<<d, n>>] = snapshots[<<d, n>>]
    OBVIOUS
  <2>. QED
    BY <2>1, <2>2, <2>3, <2>4 DEF Frozen
<1>2. Held'
  BY <1>1, HoldsOn DEF DInv, Held
<1>3. Exported'
  BY <1>1, ExportsOn DEF DInv, Exported
<1>4. Headed(documents, snapshots)' /\ Chained(snapshots)' /\ Plain(snapshots)'
  BY DEF DInv, Headed, Chained, Plain, Kept
<1>. QED
  BY <1>2, <1>3, <1>4 DEF DInv

\* Nothing is stored at the start.
LEMMA DInvInit == Init => DInv
<1>. SUFFICES ASSUME Init PROVE DInv
  OBVIOUS
<1>1. Shaped
  BY DEF Init, Shaped, Fields, NoDocument, NoSnapshot, NoRequest
<1>2. \A d \in Docs : \A n \in Numbers : ~Kept(snapshots, d, n)
  BY DEF Init, Kept
<1>3. Headed(documents, snapshots)
  BY <1>2, Bounds DEF Init, Headed, NoDocument, Numbers
<1>4. Chained(snapshots) /\ Plain(snapshots)
  BY <1>2 DEF Chained, Plain, Docs
<1>5. Held /\ Exported
  BY DEF Init, Held, Holds, Exported, NoRequest
<1>. QED
  BY <1>1, <1>3, <1>4, <1>5 DEF DInv

\* A request takes its next step and touches no row.
LEMMA RequestShaped ==
  ASSUME Shaped, NEW t \in Threads, NEW r, Step(t, r), UNCHANGED <<documents, snapshots>>,
         Fields(r)
  PROVE  Shaped' /\ request'[t] = r /\ \A s \in Threads \ {t} : request'[s] = request[s]
  BY DEF Shaped, Step

\* A request ends.
LEMMA Ended ==
  ASSUME DInv, NEW t \in Threads, Step(t, NoRequest),
         UNCHANGED <<documents, snapshots, files, exports>>
  PROVE  DInv'
<1>1. Shaped' /\ request'[t] = NoRequest /\ \A s \in Threads \ {t} : request'[s] = request[s]
  BY RequestShaped DEF Fields, NoRequest, DInv
<1>2. Holds(request'[t], documents, snapshots, files')
  BY <1>1 DEF Holds, NoRequest
<1>. QED
  BY <1>1, <1>2, Unmoved

\* The row of a document that exists, as a request loads it.
LEMMA RowRead ==
  ASSUME DInv, NEW d \in Docs, documents[d] # NoDocument
  PROVE  /\ documents[d].current \in Numbers /\ documents[d].current <= MaxVersions
         /\ documents[d].title = snapshots[<<d, documents[d].current>>].content.title
         /\ Kept(snapshots, d, documents[d].current)
<1>1. documents[d].current \in 1..MaxVersions
  <2>1. documents[d].current \in 0..MaxVersions /\ documents[d].current # 0
    BY DEF DInv, Headed
  <2>. QED
    BY <2>1, Bounds
<1>. QED
  BY <1>1, Bounds DEF DInv, Headed, Numbers

\* An edit loads the row.
LEMMA EditReadKeeps ==
  ASSUME DInv, NEW t \in Threads, NEW d \in Docs, NEW n \in Numbers, NEW h \in Changes,
         EditRead(t, d, n, h)
  PROVE  DInv'
<1>. DEFINE r == [NoRequest EXCEPT !.pc = "editing", !.doc = d, !.loaded = documents[d],
                    !.expected = n, !.change = h]
<1>1. /\ r.pc = "editing" /\ r.doc = d /\ r.loaded = documents[d] /\ r.expected = n
      /\ r.change = h /\ Fields(r)
  BY DEF NoRequest, Fields
<1>2. /\ documents[d] # NoDocument /\ documents[d].current = n /\ n < MaxVersions
      /\ d \in Dashboards => h.kind = "update" /\ Whole(h.body)
      /\ Step(t, r) /\ UNCHANGED <<documents, snapshots, files, exports>>
  BY DEF EditRead
<1>. HIDE DEF r
<1>3. Shaped' /\ request'[t] = r /\ \A s \in Threads \ {t} : request'[s] = request[s]
  BY <1>1, <1>2, RequestShaped DEF DInv
<1>4. n <= n
  BY DEF Numbers
<1>5. Holds(r, documents, snapshots, files')
  BY <1>1, <1>2, <1>4, RowRead DEF Holds
<1>. QED
  BY <1>2, <1>3, <1>5, Unmoved

\* An edit computes its content.
LEMMA EditLoadKeeps == ASSUME DInv, NEW t \in Threads, EditLoad(t) PROVE DInv'
<1>. DEFINE q == request[t]
            c == snapshots[<<q.doc, q.loaded.current>>].content
            r == [q EXCEPT !.pc = "saving", !.number = q.loaded.current + 1,
                           !.content = Applied(c, q.change)]
<1>1. /\ q.pc = "editing" /\ Step(t, r) /\ UNCHANGED <<documents, snapshots, files, exports>>
  BY DEF EditLoad
<1>2. /\ r.pc = "saving" /\ r.doc = q.doc /\ r.loaded = q.loaded /\ r.expected = q.expected
      /\ r.number = q.loaded.current + 1 /\ r.change = q.change
      /\ r.content = Applied(c, q.change)
      /\ Fields(r)
  <2>1. Fields(q)
    BY DEF DInv, Shaped
  <2>. DEFINE n == q.loaded.current + 1
              new == Applied(c, q.change)
  <2>. HIDE DEF c, n, new
  <2>2. r = [q EXCEPT !.pc = "saving", !.number = n, !.content = new]
    BY DEF n, new
  <2>3. /\ r.pc = "saving" /\ r.doc = q.doc /\ r.loaded = q.loaded /\ r.expected = q.expected
        /\ r.number = n /\ r.change = q.change /\ r.content = new /\ Fields(r)
    <3>. HIDE DEF q, r
    <3>. QED
      BY <2>1, <2>2 DEF Fields
  <2>. QED
    BY <2>3 DEF n, new
<1>3. Holds(q, documents, snapshots, files)
  BY DEF DInv, Held
<1>. HIDE DEF r
<1>4. Shaped' /\ request'[t] = r /\ \A s \in Threads \ {t} : request'[s] = request[s]
  BY <1>1, <1>2, RequestShaped DEF DInv
<1>5. Holds(r, documents, snapshots, files')
  BY <1>1, <1>2, <1>3 DEF Holds
<1>. QED
  BY <1>1, <1>4, <1>5, Unmoved

\* A view or an export loads the row.
LEMMA ReadKeeps ==
  ASSUME DInv, NEW t \in Threads, NEW d \in Docs, NEW n \in Numbers \cup {0}, Read(t, d, n)
  PROVE  DInv'
<1>. DEFINE r == [NoRequest EXCEPT !.pc = IF d \in Reports THEN "exporting" ELSE "showing",
                    !.doc = d, !.loaded = documents[d], !.expected = n,
                    !.number = IF n = 0 THEN documents[d].current ELSE n]
<1>1. /\ r.pc = (IF d \in Reports THEN "exporting" ELSE "showing")
      /\ r.doc = d /\ r.loaded = documents[d] /\ r.expected = n
      /\ r.number = IF n = 0 THEN documents[d].current ELSE n
      /\ Fields(r)
  BY DEF NoRequest, Fields
<1>2. /\ documents[d] # NoDocument
      /\ Step(t, r) /\ UNCHANGED <<documents, snapshots, files, exports>>
  BY DEF Read
<1>. HIDE DEF r
<1>3. Shaped' /\ request'[t] = r /\ \A s \in Threads \ {t} : request'[s] = request[s]
  BY <1>1, <1>2, RequestShaped DEF DInv
<1>4. documents[d].current \in Numbers /\ documents[d].current <= documents[d].current
  <2>1. documents[d].current \in Numbers
    BY <1>2, RowRead
  <2>. QED
    BY <2>1 DEF Numbers
<1>5. Holds(r, documents, snapshots, files')
  BY <1>1, <1>2, <1>4, RowRead DEF Holds, Docs
<1>. QED
  BY <1>2, <1>3, <1>5, Unmoved

\* It loads the version.
LEMMA LoadKeeps == ASSUME DInv, NEW t \in Threads, Load(t) PROVE DInv'
<1>. DEFINE q == request[t]
            c == snapshots[<<q.doc, q.number>>].content
            r == IF q.pc = "exporting" THEN [q EXCEPT !.pc = "storing", !.content = c]
                 ELSE [q EXCEPT !.pc = "answering", !.content = [c EXCEPT !.title = q.loaded.title]]
<1>1. /\ q.pc \in {"showing", "exporting"} /\ c # None
      /\ Step(t, r) /\ UNCHANGED <<documents, snapshots, files, exports>>
  BY DEF Load
<1>2. /\ r.pc = (IF q.pc = "exporting" THEN "storing" ELSE "answering")
      /\ r.doc = q.doc /\ r.loaded = q.loaded /\ r.expected = q.expected
      /\ r.number = q.number /\ r.change = q.change
      /\ r.content = IF q.pc = "exporting" THEN c ELSE [c EXCEPT !.title = q.loaded.title]
      /\ Fields(r)
  <2>1. Fields(q)
    BY DEF DInv, Shaped
  <2>2. CASE q.pc = "exporting"
    <3>. DEFINE new == [q EXCEPT !.pc = "storing", !.content = c]
    <3>1. r = new
      BY <2>2
    <3>. HIDE DEF c, q, r
    <3>. QED
      BY <2>1, <2>2, <3>1 DEF Fields
  <2>3. CASE q.pc # "exporting"
    <3>. DEFINE e == [c EXCEPT !.title = q.loaded.title]
                new == [q EXCEPT !.pc = "answering", !.content = e]
    <3>1. r = new
      BY <2>3
    <3>. HIDE DEF c, q, r, e
    <3>2. /\ r.pc = "answering" /\ r.number = q.number /\ r.content = e
          /\ r.doc = q.doc /\ r.loaded = q.loaded /\ r.expected = q.expected
          /\ r.change = q.change /\ Fields(r)
      BY <2>1, <3>1 DEF Fields
    <3>. QED
      BY <2>3, <3>2 DEF e
  <2>. QED
    BY <2>2, <2>3
<1>3. Holds(q, documents, snapshots, files)
  BY DEF DInv, Held
<1>4. Kept(snapshots, q.doc, q.number)
  BY <1>1 DEF Kept, NoSnapshot
<1>. HIDE DEF r
<1>5. Shaped' /\ request'[t] = r /\ \A s \in Threads \ {t} : request'[s] = request[s]
  BY <1>1, <1>2, RequestShaped DEF DInv
<1>6. q.pc = "showing" /\ q.expected = 0 => [c EXCEPT !.title = q.loaded.title] = c
  <2>. SUFFICES ASSUME q.pc = "showing", q.expected = 0
                PROVE  [c EXCEPT !.title = q.loaded.title] = c
    OBVIOUS
  <2>1. q.doc \in Dashboards /\ q.number \in Numbers /\ q.loaded.title = c.title
    BY <1>3 DEF Holds
  <2>2. c = [title |-> c.title, blocks |-> c.blocks]
    BY <1>4, <2>1 DEF DInv, Plain
  <2>. HIDE DEF c
  <2>. QED
    BY <2>1, <2>2
<1>7. Holds(r, documents, snapshots, files')
  BY <1>1, <1>2, <1>3, <1>4, <1>6 DEF Holds
<1>. QED
  BY <1>1, <1>5, <1>7, Unmoved

\* The export's file is stored.
LEMMA StoreKeeps == ASSUME DInv, NEW t \in Threads, Store(t) PROVE DInv'
<1>. DEFINE q == request[t]
            r == [q EXCEPT !.pc = "recording"]
<1>1. /\ q.pc = "storing" /\ files' = files \cup {FileOf(q)}
      /\ Step(t, r) /\ UNCHANGED <<documents, snapshots, exports>>
  BY DEF Store
<1>2. /\ r.pc = "recording" /\ r.doc = q.doc /\ r.loaded = q.loaded /\ r.expected = q.expected
      /\ r.number = q.number /\ r.change = q.change /\ r.content = q.content
      /\ Fields(r)
  <2>1. Fields(q) /\ r = [q EXCEPT !.pc = "recording", !.content = q.content]
    BY DEF DInv, Shaped, Fields
  <2>. HIDE DEF q, r
  <2>. QED
    BY <2>1 DEF Fields
<1>3. Holds(q, documents, snapshots, files)
  BY DEF DInv, Held
<1>. HIDE DEF r
<1>4. Shaped' /\ request'[t] = r /\ \A s \in Threads \ {t} : request'[s] = request[s]
  BY <1>1, <1>2, RequestShaped DEF DInv
<1>5. FileOf(r) \in files'
  BY <1>1, <1>2 DEF FileOf
<1>6. Holds(r, documents, snapshots, files')
  BY <1>1, <1>2, <1>3, <1>5 DEF Holds
<1>. QED
  BY <1>1, <1>4, <1>6, Unmoved

\* The export is recorded.
LEMMA RecordKeeps == ASSUME DInv, NEW t \in Threads, Record(t) PROVE DInv'
<1>. DEFINE q == request[t]
            e == [doc |-> q.doc, number |-> q.number, file |-> FileOf(q)]
<1>1. /\ q.pc = "recording" /\ exports' = exports \cup {e}
      /\ Step(t, NoRequest) /\ UNCHANGED <<documents, snapshots, files>>
  BY DEF Record
<1>2. Holds(q, documents, snapshots, files)
  BY DEF DInv, Held
<1>3. Shaped' /\ request'[t] = NoRequest /\ \A s \in Threads \ {t} : request'[s] = request[s]
  BY <1>1, RequestShaped DEF Fields, NoRequest, DInv
<1>4. Holds(request'[t], documents, snapshots, files')
  BY <1>3 DEF Holds, NoRequest
<1>5. Faithful(e, snapshots, files')
  BY <1>1, <1>2 DEF Holds, Faithful, FileOf
<1>. QED
  BY <1>1, <1>3, <1>4, <1>5, Unmoved

-----------------------------------------------------------------------------
(* What creating and editing commit.                                       *)

\* The next version of a document is inserted, and its row names it.
LEMMA Inserted ==
  ASSUME DInv, NEW d \in Docs, NEW n \in Numbers, n = documents[d].current + 1,
         NEW row, NEW version, version # NoSnapshot,
         row.current = n, row.title = version.content.title,
         documents' = [documents EXCEPT ![d] = row],
         snapshots' = [snapshots EXCEPT ![<<d, n>>] = version],
         UNCHANGED <<files, exports>>,
         n # 1 => /\ version.expected = n - 1 /\ version.change \in Changes
                  /\ version.content = Applied(snapshots[<<d, n - 1>>].content, version.change),
         d \in Dashboards => version.content = [title  |-> version.content.title,
                                                blocks |-> version.content.blocks],
         Shaped', \A t \in Threads : request'[t] = request[t] \/ request'[t] = NoRequest
  PROVE  DInv'
<1>1. /\ documents'[d] = row /\ \A p \in Docs \ {d} : documents'[p] = documents[p]
      /\ snapshots'[<<d, n>>] = version
      /\ \A p \in Docs : \A m \in Numbers :
           p # d \/ m # n => snapshots'[<<p, m>>] = snapshots[<<p, m>>]
  BY DEF DInv, Shaped
<1>2. /\ \A p \in Docs : documents[p].current \in 0..MaxVersions
      /\ \A p \in Docs : \A m \in Numbers : Kept(snapshots, p, m) <=> m <= documents[p].current
  BY DEF DInv, Headed
<1>3. n \in 1..MaxVersions /\ documents[d].current \in 0..MaxVersions /\ ~(n <= documents[d].current)
  BY <1>2, Bounds DEF Numbers
<1>4. ~Kept(snapshots, d, n)
  BY <1>2, <1>3
<1>5. Frozen
  <2>1. \A p \in Docs : documents'[p].current \in 0..MaxVersions
                        /\ documents'[p].current >= documents[p].current
    <3>. SUFFICES ASSUME NEW p \in Docs
                  PROVE  documents'[p].current \in 0..MaxVersions
                         /\ documents'[p].current >= documents[p].current
      OBVIOUS
    <3>1. CASE p = d
      <4>. DEFINE k == documents[d].current
      <4>1. documents'[p].current = n /\ n = k + 1 /\ n \in 1..MaxVersions /\ k \in 0..MaxVersions
        BY <1>1, <1>3, <3>1
      <4>. HIDE DEF k
      <4>2. n \in 0..MaxVersions /\ n >= k
        BY <4>1, Bounds
      <4>. QED
        BY <3>1, <4>1, <4>2 DEF k
    <3>2. CASE p # d
      <4>1. documents'[p].current = documents[p].current
        BY <1>1, <3>2
      <4>. QED
        BY <1>2, <4>1, Bounds
    <3>. QED
      BY <3>1, <3>2
  <2>2. \A p \in Docs : \A m \in Numbers :
          Kept(snapshots, p, m) => snapshots'[<<p, m>>] = snapshots[<<p, m>>]
    BY <1>1, <1>4
  <2>. QED
    BY <2>1, <2>2 DEF Frozen
<1>6. \A p \in Docs : \A m \in Numbers :
        Kept(snapshots', p, m) <=> Kept(snapshots, p, m) \/ (p = d /\ m = n)
  BY <1>1 DEF Kept
<1>7. Headed(documents', snapshots')
  <2>. SUFFICES ASSUME NEW p \in Docs
                PROVE  /\ documents'[p].current = 0 <=> documents'[p] = NoDocument
                       /\ \A m \in Numbers : Kept(snapshots', p, m) <=> m <= documents'[p].current
                       /\ documents'[p].current # 0 =>
                            documents'[p].title
                              = snapshots'[<<p, documents'[p].current>>].content.title
    BY <1>5 DEF Frozen, Headed
  <2>1. CASE p = d
    <3>1. documents'[p].current = n /\ n # 0 /\ documents'[p] # NoDocument
      <4>1. n # 0
        BY <1>3
      <4>2. documents'[p].current = n
        BY <1>1, <2>1
      <4>. QED
        BY <4>1, <4>2 DEF NoDocument
    <3>2. \A m \in Numbers : m <= n <=> m <= documents[d].current \/ m = n
      <4>. DEFINE k == documents[d].current
      <4>1. n = k + 1 /\ k \in 0..MaxVersions
        BY <1>3
      <4>. HIDE DEF k
      <4>2. \A m \in Numbers : m <= n <=> m <= k \/ m = n
        BY <4>1, Bounds DEF Numbers
      <4>. QED
        BY <4>2 DEF k
    <3>3. \A m \in Numbers : Kept(snapshots', p, m) <=> m <= n
      BY <1>2, <1>6, <2>1, <3>2
    <3>. QED
      BY <1>1, <2>1, <3>1, <3>3
  <2>2. CASE p # d
    <3>1. documents'[p] = documents[p]
      BY <1>1, <2>2
    <3>2. \A m \in Numbers : Kept(snapshots', p, m) <=> m <= documents[p].current
      BY <1>2, <1>6, <2>2
    <3>3. /\ documents[p].current = 0 <=> documents[p] = NoDocument
          /\ documents[p].current # 0 =>
               documents[p].title = snapshots[<<p, documents[p].current>>].content.title
      BY DEF DInv, Headed
    <3>4. documents[p].current # 0 => documents[p].current \in Numbers
      <4>1. documents[p].current \in 0..MaxVersions
        BY <1>2
      <4>. QED
        BY <4>1, Bounds DEF Numbers
    <3>. QED
      BY <1>1, <2>2, <3>1, <3>2, <3>3, <3>4
  <2>. QED
    BY <2>1, <2>2
<1>8. Chained(snapshots')
  <2>. SUFFICES ASSUME NEW p \in Docs, NEW m \in Numbers \ {1}, Kept(snapshots', p, m)
                PROVE  LET v == snapshots'[<<p, m>>]
                       IN /\ v.expected = m - 1 /\ v.change \in Changes
                          /\ v.content = Applied(snapshots'[<<p, m - 1>>].content, v.change)
    BY DEF Chained
  <2>1. m - 1 \in Numbers /\ m - 1 # m
    BY Bounds DEF Numbers
  <2>2. CASE p = d /\ m = n
    <3>1. snapshots'[<<d, n - 1>>] = snapshots[<<d, n - 1>>]
      BY <1>1, <2>1, <2>2
    <3>. QED
      BY <1>1, <2>2, <3>1
  <2>3. CASE ~(p = d /\ m = n)
    <3>1. Kept(snapshots, p, m) /\ snapshots'[<<p, m>>] = snapshots[<<p, m>>]
      BY <1>1, <1>6, <2>3
    <3>2. m <= documents[p].current /\ documents[p].current \in 0..MaxVersions
      BY <1>2, <3>1
    <3>3. m - 1 <= documents[p].current
      BY <3>2, Bounds DEF Numbers
    <3>4. Kept(snapshots, p, m - 1)
      BY <1>2, <2>1, <3>3
    <3>5. snapshots'[<<p, m - 1>>] = snapshots[<<p, m - 1>>]
      BY <1>5, <2>1, <3>4 DEF Frozen
    <3>. QED
      BY <3>1, <3>5 DEF DInv, Chained
  <2>. QED
    BY <2>2, <2>3
<1>9. Plain(snapshots')
  BY <1>1, <1>6 DEF DInv, Plain, Docs
<1>10. Held'
  <2>. SUFFICES ASSUME NEW t \in Threads PROVE Holds(request'[t], documents', snapshots', files')
    BY DEF Held
  <2>1. CASE request'[t] = request[t]
    BY <1>5, <2>1, HoldsOn DEF DInv, Held
  <2>2. CASE request'[t] = NoRequest
    BY <2>2 DEF Holds, NoRequest
  <2>. QED
    BY <2>1, <2>2
<1>11. Exported'
  BY <1>5, ExportsOn DEF DInv, Exported
<1>. QED
  BY <1>7, <1>8, <1>9, <1>10, <1>11 DEF DInv

\* A document is created with its first version.
LEMMA CreateKeeps ==
  ASSUME DInv, NEW d \in Docs, NEW c \in Drafts, Create(d, c)
  PROVE  DInv'
<1>. DEFINE row == [title |-> c.title, current |-> 1]
            version == [NoSnapshot EXCEPT !.content = c]
<1>1. /\ documents[d] = NoDocument
      /\ documents' = [documents EXCEPT ![d] = row]
      /\ snapshots' = [snapshots EXCEPT ![<<d, 1>>] = version]
      /\ UNCHANGED <<files, exports, request>>
  BY DEF Create
<1>2. c \in Content /\ c # None
  BY DocumentsAssumption
<1>3. c = [title |-> c.title, blocks |-> c.blocks]
  BY <1>2 DEF Content
<1>4. version.content = c /\ version # NoSnapshot
  BY <1>2 DEF NoSnapshot
<1>5. row.current = 1 /\ row.title = c.title
  OBVIOUS
<1>6. 1 \in Numbers /\ documents[d].current + 1 = 1
  BY <1>1, Bounds DEF Numbers, NoDocument
<1>7. Shaped'
  BY <1>1 DEF DInv, Shaped
<1>. HIDE DEF row, version
<1>. QED
  BY <1>1, <1>3, <1>4, <1>5, <1>6, <1>7, Inserted

\* The version an edit is about to insert is the next one, and its change is
\* one of the last.
LEMMA EditSound ==
  ASSUME DInv, NEW t \in Threads, EditCommit(t)
  PROVE  LET q == request[t]
         IN /\ q.doc \in Docs /\ q.number \in Numbers /\ q.change \in Changes
            /\ q.expected \in Numbers /\ q.expected = documents[q.doc].current
            /\ q.number = documents[q.doc].current + 1
            /\ q.content = Applied(snapshots[<<q.doc, q.expected>>].content, q.change)
            /\ Renamed(q).title = q.content.title
            /\ q.doc \in Dashboards => q.content = [title  |-> q.content.title,
                                                    blocks |-> q.content.blocks]
<1>. DEFINE q == request[t]
<1>1. q.pc = "saving" /\ ~Kept(snapshots, q.doc, q.number)
  BY DEF EditCommit, Taken, Kept
<1>2. Holds(q, documents, snapshots, files)
  BY DEF DInv, Held
<1>. HIDE DEF q
<1>3. /\ q.doc \in Docs /\ q.loaded.current \in Numbers
      /\ q.loaded.current <= documents[q.doc].current
      /\ q.loaded.title = snapshots[<<q.doc, q.loaded.current>>].content.title
      /\ q.expected = q.loaded.current /\ q.expected < MaxVersions /\ q.change \in Changes
      /\ q.doc \in Dashboards => q.change.kind = "update" /\ Whole(q.change.body)
      /\ q.number = q.expected + 1
      /\ q.content = Applied(snapshots[<<q.doc, q.expected>>].content, q.change)
  BY <1>1, <1>2 DEF Holds
<1>4. q.number \in Numbers
  BY <1>3, Bounds DEF Numbers
<1>5. ~(q.number <= documents[q.doc].current) /\ documents[q.doc].current \in 0..MaxVersions
  BY <1>1, <1>3, <1>4 DEF DInv, Headed
<1>6. q.expected = documents[q.doc].current /\ q.expected # 0
  <2>1. q.expected \in 1..MaxVersions /\ q.expected <= documents[q.doc].current
        /\ ~(q.expected + 1 <= documents[q.doc].current)
    BY <1>3, <1>5 DEF Numbers
  <2>. QED
    BY <1>5, <2>1, Bounds
<1>7. documents[q.doc].title = q.loaded.title
  BY <1>3, <1>6 DEF DInv, Headed
<1>8. Renamed(q).title = q.content.title
  BY <1>7 DEF Renamed
<1>9. q.doc \in Dashboards => q.content = [title |-> q.content.title, blocks |-> q.content.blocks]
  <2>. DEFINE c == snapshots[<<q.doc, q.expected>>].content
  <2>1. q.doc \in Dashboards => q.content = Updated(c, q.change.body)
    BY <1>3 DEF Applied
  <2>. HIDE DEF c
  <2>2. \A u : LET v == Updated(c, u) IN v = [title |-> v.title, blocks |-> v.blocks]
    BY DEF Updated
  <2>. QED
    BY <2>1, <2>2
<1>. QED
  BY <1>3, <1>4, <1>6, <1>8, <1>9 DEF q

\* An edit is committed.
LEMMA EditCommitKeeps == ASSUME DInv, NEW t \in Threads, EditCommit(t) PROVE DInv'
<1>. DEFINE q == request[t]
            row == Renamed(q)
            version == [content |-> q.content, expected |-> q.expected, change |-> q.change]
<1>1. /\ documents' = [documents EXCEPT ![q.doc] = row]
      /\ snapshots' = [snapshots EXCEPT ![<<q.doc, q.number>>] = version]
      /\ Step(t, NoRequest) /\ UNCHANGED <<files, exports>>
  BY DEF EditCommit
<1>2. /\ q.doc \in Docs /\ q.number \in Numbers /\ q.change \in Changes
      /\ q.expected \in Numbers /\ q.expected = documents[q.doc].current
      /\ q.number = documents[q.doc].current + 1
      /\ q.content = Applied(snapshots[<<q.doc, q.expected>>].content, q.change)
      /\ row.title = q.content.title
      /\ q.doc \in Dashboards => q.content = [title |-> q.content.title, blocks |-> q.content.blocks]
  BY EditSound
<1>3. row.current = q.number
  BY DEF Renamed
<1>4. /\ version.content = q.content /\ version.expected = q.expected /\ version.change = q.change
      /\ version # NoSnapshot
  BY <1>2 DEF NoSnapshot, Numbers
<1>5. /\ Shaped'
      /\ \A s \in Threads : request'[s] = request[s] \/ request'[s] = NoRequest
  BY <1>1 DEF DInv, Shaped, Step, Fields, NoRequest
<1>6. q.number - 1 = q.expected
  BY <1>2 DEF Numbers
<1>. HIDE DEF row, version
<1>7. /\ version.expected = q.number - 1 /\ version.change \in Changes
      /\ version.content = Applied(snapshots[<<q.doc, q.number - 1>>].content, version.change)
  BY <1>2, <1>4, <1>6
<1>8. q.doc \in Dashboards => version.content = [title  |-> version.content.title,
                                                  blocks |-> version.content.blocks]
  BY <1>2, <1>4
<1>9. row.title = version.content.title
  BY <1>2, <1>4
<1>. HIDE DEF q
<1>. QED
  BY <1>1, <1>2, <1>3, <1>4, <1>5, <1>7, <1>8, <1>9, Inserted

\* Every step keeps the invariant.
LEMMA DInvNext == DInv /\ [Next]_vars => DInv'
<1>. SUFFICES ASSUME DInv, [Next]_vars PROVE DInv'
  OBVIOUS
<1>1. ASSUME NEW t \in Threads, EditConflict(t) \/ End(t) PROVE DInv'
  BY <1>1, Ended DEF EditConflict, End
<1>2. CASE Crash
  <2>1. /\ request' = [t \in Threads |-> NoRequest]
        /\ UNCHANGED <<documents, snapshots, files, exports>>
    BY <1>2 DEF Crash
  <2>2. Shaped' /\ Held'
    BY <2>1 DEF DInv, Shaped, Fields, Held, Holds, NoRequest
  <2>. QED
    BY <2>1, <2>2 DEF DInv, Headed, Chained, Plain, Kept, Exported, Faithful
<1>3. CASE UNCHANGED vars
  BY <1>3 DEF vars, DInv, Shaped, Headed, Chained, Plain, Kept, Held, Exported
<1>. QED
  BY <1>1, <1>2, <1>3, CreateKeeps, EditReadKeeps, EditLoadKeeps, EditCommitKeeps, ReadKeeps,
     LoadKeeps, StoreKeeps, RecordKeeps DEF Next

\* The versions of every document are its authors' changes, one of the other.
THEOREM ChangesAreKept == Spec => []ChangesKept
<1>1. DInv => ChangesKept
  <2>. SUFFICES ASSUME DInv, NEW d \in Docs, NEW n \in Numbers \ {1}, Stored(d, n)
                PROVE  /\ Stored(d, n - 1) /\ snapshots[<<d, n>>].expected = n - 1
                       /\ snapshots[<<d, n>>].content =
                            Applied(snapshots[<<d, n - 1>>].content, snapshots[<<d, n>>].change)
    BY DEF ChangesKept
  <2>1. n - 1 \in Numbers
    BY Bounds DEF Numbers
  <2>2. Kept(snapshots, d, n)
    BY DEF Stored, Kept
  <2>3. n <= documents[d].current /\ documents[d].current \in 0..MaxVersions
    BY <2>2 DEF DInv, Headed
  <2>4. n - 1 <= documents[d].current
    BY <2>3, Bounds DEF Numbers
  <2>5. Stored(d, n - 1)
    BY <2>1, <2>4 DEF DInv, Headed, Kept, Stored
  <2>. QED
    BY <2>2, <2>5 DEF DInv, Chained
<1>. QED
  BY DInvInit, DInvNext, <1>1, PTL DEF Spec

\* A document row names the last version and has its title.
THEOREM HeadsAreCurrent == Spec => []HeadCurrent
<1>1. DInv => HeadCurrent
  <2>. SUFFICES ASSUME DInv, NEW d \in Docs, documents[d] # NoDocument
                PROVE  /\ Stored(d, documents[d].current)
                       /\ \A n \in Numbers : Stored(d, n) => n <= documents[d].current
                       /\ documents[d].title = snapshots[<<d, documents[d].current>>].content.title
    BY DEF HeadCurrent
  <2>. QED
    BY RowRead DEF DInv, Headed, Kept, Stored
<1>. QED
  BY DInvInit, DInvNext, <1>1, PTL DEF Spec

\* A dashboard shown without naming a version is one version, title and all.
THEOREM DashboardsAreWhole == Spec => []ShownWhole
<1>1. DInv => ShownWhole
  BY DEF DInv, Held, Holds, ShownWhole
<1>. QED
  BY DInvInit, DInvNext, <1>1, PTL DEF Spec

\* A recorded export has its file, with what the version it names contains.
THEOREM ExportsAreFaithful == Spec => []ExportsFaithful
<1>1. DInv => ExportsFaithful
  BY DEF DInv, Exported, Faithful, ExportsFaithful
<1>. QED
  BY DInvInit, DInvNext, <1>1, PTL DEF Spec

-----------------------------------------------------------------------------
(* The log of contents.                                                    *)

\* What the log of SavedDocuments is.
LogState == [d \in Docs |-> [n \in 1..documents[d].current |-> snapshots[<<d, n>>].content]]

\* No document has a content at the start.
LEMMA LogInit == Init => Log!Init
<1>. SUFFICES ASSUME Init PROVE Log!Init
  OBVIOUS
<1>1. \A d \in Docs : documents[d].current = 0
  BY DEF Init, NoDocument
<1>2. \A d \in Docs : [n \in 1..documents[d].current |-> snapshots[<<d, n>>].content] = <<>>
  BY <1>1
<1>. QED
  BY <1>2 DEF Log!Init

\* Appending to the first k values of a function.
LEMMA Appending ==
  ASSUME NEW k \in Nat, NEW f, NEW e
  PROVE  LET s == [m \in 1..k |-> f[m]]
         IN /\ Append(s, e) = [m \in 1..(k + 1) |-> IF m = k + 1 THEN e ELSE f[m]]
            /\ Len(s) = k /\ Append(s, e) # s
<1>. DEFINE s == [m \in 1..k |-> f[m]]
            S == {f[m] : m \in 1..k} \cup {e}
<1>1. s \in Seq(S) /\ Len(s) = k /\ DOMAIN s = 1..k /\ e \in S /\ \A m \in 1..k : s[m] = f[m]
  OBVIOUS
<1>. HIDE DEF s, S
<1>2. /\ Append(s, e) \in Seq(S) /\ Len(Append(s, e)) = k + 1
      /\ \A m \in 1..k : Append(s, e)[m] = s[m]
      /\ Append(s, e)[k + 1] = e
  BY <1>1, AppendProperties
<1>3. Append(s, e) \in [1..(k + 1) -> S]
  BY <1>2, LenProperties
<1>4. \A m \in 1..(k + 1) : Append(s, e)[m] = IF m = k + 1 THEN e ELSE f[m]
  BY <1>1, <1>2
<1>5. Append(s, e) = [m \in 1..(k + 1) |-> IF m = k + 1 THEN e ELSE f[m]]
  BY <1>3, <1>4
<1>6. Append(s, e) # s
  BY <1>1, <1>2
<1>. QED
  BY <1>1, <1>5, <1>6 DEF s

\* Inserting the next version of a document appends its content to the log.
LEMMA LogGrows ==
  ASSUME DInv, NEW d \in Docs, NEW n \in Numbers, n = documents[d].current + 1,
         NEW row, NEW version, row.current = n,
         documents' = [documents EXCEPT ![d] = row],
         snapshots' = [snapshots EXCEPT ![<<d, n>>] = version]
  PROVE  /\ LogState' = [LogState EXCEPT ![d] = Append(@, version.content)]
         /\ LogState'[d] # LogState[d]
         /\ Len(LogState[d]) = n - 1
         /\ n # 1 => LogState[d][n - 1] = snapshots[<<d, n - 1>>].content
<1>. DEFINE k == n - 1
            f == [m \in Numbers |-> snapshots[<<d, m>>].content]
            e == version.content
<1>1. k \in Nat /\ n = k + 1 /\ documents[d].current = k /\ n \in 1..MaxVersions
  <2>1. documents[d].current \in 0..MaxVersions
    BY DEF DInv, Headed
  <2>. QED
    BY <2>1, Bounds DEF Numbers
<1>2. /\ documents'[d] = row /\ \A p \in Docs \ {d} : documents'[p] = documents[p]
      /\ snapshots'[<<d, n>>] = version
      /\ \A p \in Docs : \A m \in Numbers :
           p # d \/ m # n => snapshots'[<<p, m>>] = snapshots[<<p, m>>]
  BY DEF DInv, Shaped
<1>. HIDE DEF k
<1>3. \A m \in 1..(k + 1) : m \in Numbers
  BY <1>1, Bounds DEF Numbers
<1>4. LogState[d] = [m \in 1..k |-> f[m]]
  <2>1. \A m \in 1..k : m \in Numbers
    BY <1>1, <1>3
  <2>. QED
    BY <1>1, <2>1 DEF LogState
<1>5. LogState'[d] = [m \in 1..(k + 1) |-> IF m = k + 1 THEN e ELSE f[m]]
  <2>1. \A m \in 1..(k + 1) : snapshots'[<<d, m>>].content = IF m = k + 1 THEN e ELSE f[m]
    BY <1>1, <1>2, <1>3
  <2>2. documents'[d].current = k + 1
    BY <1>1, <1>2
  <2>3. LogState'[d] = [m \in 1..documents'[d].current |-> snapshots'[<<d, m>>].content]
    BY DEF LogState
  <2>. HIDE DEF e, f
  <2>. QED
    BY <2>1, <2>2, <2>3
<1>6. \A p \in Docs \ {d} : LogState'[p] = LogState[p]
  <2>. SUFFICES ASSUME NEW p \in Docs \ {d} PROVE LogState'[p] = LogState[p]
    OBVIOUS
  <2>1. documents'[p].current = documents[p].current /\ documents[p].current \in 0..MaxVersions
    BY <1>2 DEF DInv, Headed
  <2>2. \A m \in 1..documents[p].current : m \in Numbers
    BY <2>1, Bounds DEF Numbers
  <2>3. \A m \in 1..documents[p].current : snapshots'[<<p, m>>] = snapshots[<<p, m>>]
    BY <1>2, <2>2
  <2>. QED
    BY <2>1, <2>3 DEF LogState
<1>. HIDE DEF e, f
<1>7. /\ LogState'[d] = Append(LogState[d], e) /\ Len(LogState[d]) = k
      /\ LogState'[d] # LogState[d]
  BY <1>1, <1>4, <1>5, Appending
<1>8. LogState' = [LogState EXCEPT ![d] = Append(@, e)]
  <2>1. DOMAIN LogState = Docs /\ DOMAIN LogState' = Docs
    BY DEF LogState
  <2>2. LogState' = [p \in Docs |-> LogState'[p]] /\ LogState = [p \in Docs |-> LogState[p]]
    BY DEF LogState
  <2>. QED
    BY <1>6, <1>7, <2>1, <2>2
<1>9. n # 1 => LogState[d][k] = snapshots[<<d, k>>].content
  BY <1>1, <1>3, <1>4 DEF f
<1>. QED
  BY <1>7, <1>8, <1>9 DEF e, k

\* Creating a document is a step of the log.
LEMMA LogCreate ==
  ASSUME DInv, NEW d \in Docs, NEW c \in Drafts, Create(d, c)
  PROVE  Log!Next
<1>. DEFINE row == [title |-> c.title, current |-> 1]
            version == [NoSnapshot EXCEPT !.content = c]
<1>1. /\ documents[d] = NoDocument
      /\ documents' = [documents EXCEPT ![d] = row]
      /\ snapshots' = [snapshots EXCEPT ![<<d, 1>>] = version]
  BY DEF Create
<1>2. version.content = c /\ row.current = 1
  BY DEF NoSnapshot
<1>3. 1 \in Numbers /\ documents[d].current = 0 /\ documents[d].current + 1 = 1
  BY <1>1, Bounds DEF Numbers, NoDocument
<1>. DEFINE n == 1
<1>. HIDE DEF row, version, n
<1>4. /\ LogState' = [LogState EXCEPT ![d] = Append(@, c)] /\ LogState'[d] # LogState[d]
  <2>1. /\ n \in Numbers /\ n = documents[d].current + 1 /\ row.current = n
        /\ documents' = [documents EXCEPT ![d] = row]
        /\ snapshots' = [snapshots EXCEPT ![<<d, n>>] = version]
    BY <1>1, <1>2, <1>3 DEF n
  <2>2. /\ LogState' = [LogState EXCEPT ![d] = Append(@, version.content)]
        /\ LogState'[d] # LogState[d]
    BY <2>1, LogGrows
  <2>. QED
    BY <1>2, <2>2
<1>5. LogState[d] = <<>>
  BY <1>3 DEF LogState
<1>6. LogState' = [LogState EXCEPT ![d] = <<c>>]
  BY <1>4, <1>5
<1>7. Log!Create(d, c)
  BY <1>5, <1>6 DEF Log!Create, LogState
<1>. QED
  BY <1>4, <1>7 DEF Log!Next, LogState

\* Committing an edit is a step of the log.
LEMMA LogChange == ASSUME DInv, NEW t \in Threads, EditCommit(t) PROVE Log!Next
<1>. DEFINE q == request[t]
            row == Renamed(q)
            version == [content |-> q.content, expected |-> q.expected, change |-> q.change]
            d == q.doc
            n == q.number
            h == q.change
<1>1. /\ documents' = [documents EXCEPT ![d] = row]
      /\ snapshots' = [snapshots EXCEPT ![<<d, n>>] = version]
  BY DEF EditCommit
<1>2. /\ d \in Docs /\ n \in Numbers /\ h \in Changes
      /\ q.expected \in Numbers /\ q.expected = documents[d].current
      /\ n = documents[d].current + 1
      /\ q.content = Applied(snapshots[<<d, q.expected>>].content, h)
  BY EditSound
<1>3. row.current = n /\ version.content = q.content
  BY DEF Renamed
<1>4. n - 1 = q.expected /\ n # 1
  BY <1>2 DEF Numbers
<1>. HIDE DEF row, version, q, d, n, h
<1>5. /\ LogState' = [LogState EXCEPT ![d] = Append(@, q.content)]
      /\ LogState'[d] # LogState[d]
      /\ Len(LogState[d]) = n - 1
      /\ LogState[d][n - 1] = snapshots[<<d, n - 1>>].content
  <2>1. /\ LogState' = [LogState EXCEPT ![d] = Append(@, version.content)]
        /\ LogState'[d] # LogState[d]
        /\ Len(LogState[d]) = n - 1
        /\ n # 1 => LogState[d][n - 1] = snapshots[<<d, n - 1>>].content
    BY <1>1, <1>2, <1>3, LogGrows
  <2>. QED
    BY <1>3, <1>4, <2>1
<1>6. q.content = Applied(LogState[d][Len(LogState[d])], h)
  BY <1>2, <1>4, <1>5
<1>7. LogState[d] # <<>>
  BY <1>2, <1>4, <1>5 DEF Numbers
<1>8. LogState' = [LogState EXCEPT ![d] = Append(@, Applied(@[Len(@)], h))]
  BY <1>5, <1>6
<1>9. PICK p \in Docs, g \in Changes : p = d /\ g = h
  BY <1>2
<1>10. Log!Change(p, g)
  BY <1>7, <1>8, <1>9 DEF Log!Change, LogState
<1>. QED
  BY <1>5, <1>9, <1>10 DEF Log!Next, LogState

\* Every step of the handlers changes no content, creates a document, or
\* appends what its author's change makes of the last content.
THEOREM DocumentsImplementLog == Spec => ImplementsLog
<1>1. DInv /\ [Next]_vars => [Log!Next]_LogState
  <2>. SUFFICES ASSUME DInv, [Next]_vars PROVE Log!Next \/ UNCHANGED LogState
    OBVIOUS
  <2>1. CASE UNCHANGED vars
    BY <2>1 DEF vars, LogState
  <2>2. CASE Next /\ ~(\E d \in Docs, c \in Drafts : Create(d, c))
             /\ ~(\E t \in Threads : EditCommit(t))
    <3>1. UNCHANGED <<documents, snapshots>>
      BY <2>2 DEF Next, EditRead, EditLoad, EditConflict, Read, Load, Store, Record, End, Crash
    <3>. QED
      BY <3>1 DEF LogState
  <2>. QED
    BY <2>1, <2>2, LogCreate, LogChange
<1>. QED
  BY LogInit, DInvInit, DInvNext, <1>1, PTL DEF Spec, Log!Spec, ImplementsLog, LogState
=============================================================================
