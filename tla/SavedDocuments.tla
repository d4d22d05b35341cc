--------------------------- MODULE SavedDocuments ---------------------------
(***************************************************************************)
(* Reports and dashboards, as the request threads of main.py create, edit, *)
(* show and export them.  A document row names its current version; every  *)
(* edit adds a row to report_versions or dashboard_versions.  A handler    *)
(* checks the expected version against the row it loaded; the unique       *)
(* constraint on (document, version_number) is all that stands between     *)
(* two edits of one version.                                               *)
(*                                                                         *)
(* A section or widget is a model value, with the metric results it cites: *)
(* a result never changes, and one the caller may not see ends the request *)
(* (Fail).  Filters go the way of the widgets and are left out, as is the  *)
(* rendering of an export.                                                 *)
(***************************************************************************)
EXTENDS Naturals, Sequences, FiniteSets

CONSTANTS
  Threads,     \* request threads
  Reports,     \* report ids
  Dashboards,  \* dashboard ids
  Titles,      \* titles
  Blocks,      \* sections and widgets
  Drafts,      \* bound: contents that creating requests carry
  Updates,     \* bound: PATCH bodies, [title, blocks], either None in a report's
  Patches,     \* bound: bodies of POST /patches, sequences of operations
  None,        \* SQL NULL
  MaxVersions, \* bound: highest version number
  MaxFiles     \* bound: exported files

Docs    == Reports \cup Dashboards
Numbers == 1..MaxVersions
Content == [title : Titles, blocks : Seq(Blocks)]

Operation == [op : {"replace_title"}, value : Titles]
        \cup [op : {"append_section"}, value : Blocks]
        \cup [op : {"remove_section"}, value : Nat]

Update == [title : Titles \cup {None}, blocks : Seq(Blocks) \cup {None}]
Whole(u) == u.title # None /\ u.blocks # None

\* A change is an update, or a patch.
Changes == [kind : {"update"}, body : Updates] \cup [kind : {"patch"}, body : Patches]

ASSUME DocumentsAssumption ==
  /\ Reports \cap Dashboards = {} /\ None \notin Docs \cup Titles \cup Changes
  /\ None \notin Seq(Blocks) /\ None \notin Content
  /\ Drafts \subseteq Content /\ Updates \subseteq Update
  /\ Patches \subseteq Seq(Operation)
  /\ MaxVersions \in Nat \ {0} /\ MaxFiles \in Nat

VARIABLES
  documents,  \* the reports and dashboards tables: title and current_version
  snapshots,  \* the report_versions and dashboard_versions tables
  files,      \* exported files: each name holds the checksum of its bytes
  exports,    \* the report_exports table
  request     \* what each request thread holds

vars == <<documents, snapshots, files, exports, request>>

-----------------------------------------------------------------------------
Document   == [title : Titles \cup {None}, current : Numbers \cup {0}]
NoDocument == [title |-> None, current |-> 0]

\* "expected" and "change" are history fields, and so is the title of a
\* dashboard's version: that table has no such column.
Snapshot   == [content  : Content \cup {None},
               expected : Numbers \cup {0},
               change   : Changes \cup {None}]
NoSnapshot == [content |-> None, expected |-> 0, change |-> None]

\* Names reports/<id>/exports/v<number>-<checksum>.<format>.
Files == Reports \X Numbers \X Content

Request == [pc       : {"idle", "editing", "saving", "showing", "answering",
                        "exporting", "storing", "recording"},
            doc      : Docs \cup {None},
            loaded   : Document,
            expected : Numbers \cup {0},   \* of an edit; the version asked for otherwise
            number   : Numbers \cup {0},   \* the version in hand
            change   : Changes \cup {None},
            content  : Content \cup {None}]

NoRequest == [pc |-> "idle", doc |-> None, loaded |-> NoDocument, expected |-> 0,
              number |-> 0, change |-> None, content |-> None]

TypeOK ==
  /\ documents \in [Docs -> Document]
  /\ snapshots \in [Docs \X Numbers -> Snapshot]
  /\ files \subseteq Files
  /\ exports \subseteq [doc : Reports, number : Numbers, file : Files]
  /\ request \in [Threads -> Request]

Init ==
  /\ documents = [d \in Docs |-> NoDocument]
  /\ snapshots = [dn \in Docs \X Numbers |-> NoSnapshot]
  /\ files = {} /\ exports = {}
  /\ request = [t \in Threads |-> NoRequest]

-----------------------------------------------------------------------------
(* The content a change makes.                                             *)

Updated(c, u) == [title  |-> IF u.title = None THEN c.title ELSE u.title,
                  blocks |-> IF u.blocks = None THEN c.blocks ELSE u.blocks]

Without(s, i) == SubSeq(s, 1, i) \o SubSeq(s, i + 2, Len(s))   \* list.pop(i)

Operated(c, o) ==
  IF o.op = "replace_title" THEN [c EXCEPT !.title = o.value]
  ELSE IF o.op = "append_section" THEN [c EXCEPT !.blocks = Append(@, o.value)]
  ELSE [c EXCEPT !.blocks = Without(@, o.value)]

\* The contents on the way through the operations of a patch.
Stages(c, ops) ==
  LET stage[i \in 0..Len(ops)] == IF i = 0 THEN c ELSE Operated(stage[i - 1], ops[i])
  IN stage

Patched(c, ops) == Stages(c, ops)[Len(ops)]

\* Every removal finds its section when its turn comes; else 422.
Fits(c, ops) ==
  \A i \in 1..Len(ops) :
    ops[i].op = "remove_section" => ops[i].value < Len(Stages(c, ops)[i - 1].blocks)

Applied(c, h) == IF h.kind = "update" THEN Updated(c, h.body) ELSE Patched(c, h.body)

Acceptable(c, h) == h.kind = "patch" => Fits(c, h.body)

Step(t, r) == request' = [request EXCEPT ![t] = r]

-----------------------------------------------------------------------------
(* Creating and editing.                                                   *)

\* One transaction under a new uuid: the document and its first version.
Create(d, c) ==
  /\ documents[d] = NoDocument
  /\ documents' = [documents EXCEPT ![d] = [title |-> c.title, current |-> 1]]
  /\ snapshots' = [snapshots EXCEPT ![<<d, 1>>] = [NoSnapshot EXCEPT !.content = c]]
  /\ UNCHANGED <<files, exports, request>>

\* Mutant of EditRead: the expected version is not compared.
EditReadAny(t, d, n, h) ==
  /\ request[t].pc = "idle" /\ documents[d] # NoDocument
  /\ documents[d].current < MaxVersions
  /\ d \in Dashboards => h.kind = "update" /\ Whole(h.body)
  /\ Step(t, [NoRequest EXCEPT !.pc = "editing", !.doc = d, !.loaded = documents[d],
                !.expected = n, !.change = h])
  /\ UNCHANGED <<documents, snapshots, files, exports>>

\* The row is loaded, and must be at the expected version; else 409.
EditRead(t, d, n, h) ==
  /\ request[t].pc = "idle" /\ documents[d] # NoDocument
  /\ d \in Dashboards => h.kind = "update" /\ Whole(h.body)
  /\ documents[d].current = n /\ n < MaxVersions
  /\ Step(t, [NoRequest EXCEPT !.pc = "editing", !.doc = d, !.loaded = documents[d],
                !.expected = n, !.change = h])
  /\ UNCHANGED <<documents, snapshots, files, exports>>

\* The version the loaded row names, and what the change makes of it.  (A
\* dashboard's is replaced as a whole, and not loaded.)
EditLoad(t) ==
  LET r == request[t]
      c == snapshots[<<r.doc, r.loaded.current>>].content
  IN
  /\ r.pc = "editing" /\ c # None /\ Acceptable(c, r.change)
  /\ Step(t, [r EXCEPT !.pc = "saving", !.number = r.loaded.current + 1,
                !.content = Applied(c, r.change)])
  /\ UNCHANGED <<documents, snapshots, files, exports>>

\* Mutant of Taken: no unique constraint.
NeverTaken(d, n) == FALSE

Taken(d, n) == snapshots[<<d, n>>] # NoSnapshot

\* Mutant of Renamed: the copy of the row is written back, title and all.
RenamedBack(r) == [title |-> r.loaded.title, current |-> r.number]

\* The UPDATE writes the title only if it differs from the copy's.
Renamed(r) ==
  [title   |-> IF r.content.title = r.loaded.title THEN documents[r.doc].title
               ELSE r.content.title,
   current |-> r.number]

EditCommit(t) ==
  LET r == request[t] IN
  /\ r.pc = "saving" /\ ~Taken(r.doc, r.number)
  /\ documents' = [documents EXCEPT ![r.doc] = Renamed(r)]
  /\ snapshots' = [snapshots EXCEPT ![<<r.doc, r.number>>] =
        [content |-> r.content, expected |-> r.expected, change |-> r.change]]
  /\ Step(t, NoRequest)
  /\ UNCHANGED <<files, exports>>

\* IntegrityError: 409, "saved first".
EditConflict(t) ==
  /\ request[t].pc = "saving"
  /\ Taken(request[t].doc, request[t].number)
  /\ Step(t, NoRequest)
  /\ UNCHANGED <<documents, snapshots, files, exports>>

-----------------------------------------------------------------------------
(* Showing a dashboard and exporting a report; n = 0 asks for the current  *)
(* version.                                                                *)

Read(t, d, n) ==
  /\ request[t].pc = "idle" /\ documents[d] # NoDocument
  /\ Step(t, [NoRequest EXCEPT !.pc = IF d \in Reports THEN "exporting" ELSE "showing",
                !.doc = d, !.loaded = documents[d], !.expected = n,
                !.number = IF n = 0 THEN documents[d].current ELSE n])
  /\ UNCHANGED <<documents, snapshots, files, exports>>

\* Mutant of Load: the current version is looked up once more.
LoadLatest(t) ==
  LET r == request[t]
      n == IF r.expected = 0 THEN documents[r.doc].current ELSE r.number
      c == snapshots[<<r.doc, n>>].content
  IN
  /\ r.pc \in {"showing", "exporting"} /\ c # None
  /\ Step(t, [r EXCEPT !.pc = IF @ = "exporting" THEN "storing" ELSE "answering",
                !.number = n, !.content = [c EXCEPT !.title = r.loaded.title]])
  /\ UNCHANGED <<documents, snapshots, files, exports>>

\* A dashboard is answered with the title of its row, a report is exported
\* with the title of its version.
Load(t) ==
  LET r == request[t]
      c == snapshots[<<r.doc, r.number>>].content
  IN
  /\ r.pc \in {"showing", "exporting"} /\ c # None
  /\ Step(t, IF r.pc = "exporting" THEN [r EXCEPT !.pc = "storing", !.content = c]
             ELSE [r EXCEPT !.pc = "answering",
                     !.content = [c EXCEPT !.title = r.loaded.title]])
  /\ UNCHANGED <<documents, snapshots, files, exports>>

FileOf(r) == <<r.doc, r.number, r.content>>

\* Mutant of Store: the file is left to a later upload.
StoreLater(t) ==
  /\ request[t].pc = "storing"
  /\ Step(t, [request[t] EXCEPT !.pc = "recording"])
  /\ UNCHANGED <<documents, snapshots, exports, files>>

Store(t) ==
  /\ request[t].pc = "storing"
  /\ Cardinality(files \cup {FileOf(request[t])}) <= MaxFiles
  /\ files' = files \cup {FileOf(request[t])}
  /\ Step(t, [request[t] EXCEPT !.pc = "recording"])
  /\ UNCHANGED <<documents, snapshots, exports>>

Record(t) ==
  LET r == request[t] IN
  /\ r.pc = "recording"
  /\ exports' = exports \cup {[doc |-> r.doc, number |-> r.number, file |-> FileOf(r)]}
  /\ Step(t, NoRequest)
  /\ UNCHANGED <<documents, snapshots, files>>

-----------------------------------------------------------------------------
\* The request is answered, refused or fails.
End(t) ==
  /\ request[t].pc # "idle" /\ Step(t, NoRequest)
  /\ UNCHANGED <<documents, snapshots, files, exports>>

\* The API process dies.
Crash ==
  /\ \E t \in Threads : request[t].pc # "idle"
  /\ request' = [t \in Threads |-> NoRequest]
  /\ UNCHANGED <<documents, snapshots, files, exports>>

Next ==
  \/ \E d \in Docs, c \in Drafts : Create(d, c)
  \/ \E t \in Threads :
       \/ \E d \in Docs, n \in Numbers, h \in Changes : EditRead(t, d, n, h)
       \/ EditLoad(t) \/ EditCommit(t) \/ EditConflict(t)
       \/ \E d \in Docs, n \in Numbers \cup {0} : Read(t, d, n)
       \/ Load(t) \/ Store(t) \/ Record(t) \/ End(t)
  \/ Crash

Spec == Init /\ [][Next]_vars

-----------------------------------------------------------------------------
(* Properties.                                                             *)

Stored(d, n) == n \in Numbers /\ snapshots[<<d, n>>] # NoSnapshot

\* No edit is lost or applied to something its author did not see: every
\* later version is its author's change of the version before it, and that is
\* the version the author expected.
ChangesKept ==
  \A d \in Docs : \A n \in Numbers \ {1} : Stored(d, n) =>
    /\ Stored(d, n - 1) /\ snapshots[<<d, n>>].expected = n - 1
    /\ snapshots[<<d, n>>].content =
         Applied(snapshots[<<d, n - 1>>].content, snapshots[<<d, n>>].change)

\* A document row names the last version and has its title, although a commit
\* writes the title only where it differs from an older copy.
HeadCurrent ==
  \A d \in Docs : documents[d] # NoDocument =>
    /\ Stored(d, documents[d].current)
    /\ \A n \in Numbers : Stored(d, n) => n <= documents[d].current
    /\ documents[d].title = snapshots[<<d, documents[d].current>>].content.title

\* A dashboard shown without naming a version has the title and the widgets of
\* one version, although two SELECTs with edits in between read them.
ShownWhole ==
  \A t \in Threads :
    request[t].pc = "answering" /\ request[t].expected = 0
      => request[t].content = snapshots[<<request[t].doc, request[t].number>>].content

\* A recorded export has its file, with what the version it names contains.
ExportsFaithful ==
  \A e \in exports :
    /\ e.file \in files
    /\ e.file = <<e.doc, e.number, snapshots[<<e.doc, e.number>>].content>>

-----------------------------------------------------------------------------
Log == INSTANCE DocumentLog WITH
  log <- [d \in Docs |->
            [n \in 1..documents[d].current |-> snapshots[<<d, n>>].content]]

\* Edits of a document are its authors' changes, one after the other.
ImplementsLog == Log!Spec
=============================================================================
