----------------------------- MODULE DocumentLog -----------------------------
(***************************************************************************)
(* What saved reports and dashboards promise, with no requests or copies:  *)
(* a document is a log of contents that grows at its end, and only by a    *)
(* change that its author made to the last content.                        *)
(***************************************************************************)
EXTENDS Sequences

CONSTANTS
  Docs,            \* documents
  Drafts,          \* contents a document may be created with
  Changes,         \* changes an author may make
  Applied(_, _)    \* the content a change makes of a content

VARIABLE log

Init == log = [d \in Docs |-> <<>>]

Create(d, c) ==
  /\ log[d] = <<>>
  /\ log' = [log EXCEPT ![d] = <<c>>]

\* The author of change h saw the last content, and nothing after it.
Change(d, h) ==
  /\ log[d] # <<>>
  /\ log' = [log EXCEPT ![d] = Append(@, Applied(@[Len(@)], h))]

\* The first conjunct only rules stuttering out, before anything is computed.
Next ==
  \E d \in Docs :
    /\ log'[d] # log[d]
    /\ \/ \E c \in Drafts : Create(d, c)
       \/ \E h \in Changes : Change(d, h)

Spec == Init /\ [][Next]_log
=============================================================================
