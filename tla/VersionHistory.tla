--------------------------- MODULE VersionHistory ---------------------------
(***************************************************************************)
(* What the dataset endpoints promise, with no requests, artifacts or      *)
(* failures: each dataset has a history of rows numbered 1, 2, 3, ... that *)
(* only grows at its end, a head that names one of its rows, and, for each *)
(* idempotency key of an operation, at most one row.                       *)
(***************************************************************************)
EXTENDS Naturals

CONSTANTS Datasets, Ids, Keys, None

VARIABLES
  row,    \* row[v]: dataset, number and parent of version v
  head,   \* head[d]: the published version of d, None before the upload
  used    \* pairs <<parent, key>> that have produced a version

history == <<row, head, used>>

NoRow == [dataset |-> None, number |-> 0, parent |-> None]

Init ==
  /\ row = [v \in Ids |-> NoRow]
  /\ head = [d \in Datasets |-> None]
  /\ used = {}

\* A key is recorded with the version it produced; no key, nothing recorded.
Record(p, k) ==
  /\ <<p, k>> \notin used
  /\ used' = IF k = None THEN used ELSE used \cup {<<p, k>>}

Create(d, v, k) ==
  /\ head[d] = None /\ row[v] = NoRow
  /\ row' = [row EXCEPT ![v] = [dataset |-> d, number |-> 1, parent |-> None]]
  /\ head' = [head EXCEPT ![d] = v]
  /\ Record(None, k)

\* l is the last version of its dataset.
Last(l) ==
  \A w \in Ids : row[w].dataset = row[l].dataset => row[w].number <= row[l].number

Append(p, l, v, k) ==
  /\ row[p].dataset \in Datasets /\ row[l].dataset = row[p].dataset
  /\ Last(l) /\ row[v] = NoRow
  /\ row' = [row EXCEPT ![v] = [dataset |-> row[p].dataset,
                                number |-> row[l].number + 1, parent |-> p]]
  /\ head' = [head EXCEPT ![row[p].dataset] = v]
  /\ Record(p, k)

Publish(d, v) ==
  /\ row[v].dataset = d
  /\ head' = [head EXCEPT ![d] = v]
  /\ UNCHANGED <<row, used>>

Next ==
  \/ \E d \in Datasets, v \in Ids : Publish(d, v)
  \/ \E v \in Ids, k \in Keys \cup {None} :
       \/ \E d \in Datasets : Create(d, v, k)
       \/ \E p, l \in Ids : Append(p, l, v, k)

Spec == Init /\ [][Next]_history
=============================================================================
