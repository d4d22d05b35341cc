------------------------------ MODULE JobLedger ------------------------------
(***************************************************************************)
(* What the job queue promises, with no workers, sessions or recoveries:   *)
(* attempts of a job are numbered, each number is handed out once and only *)
(* while no cancellation is stored, and an open attempt may publish the    *)
(* result of its job, once, or be abandoned.  Nothing else publishes.      *)
(***************************************************************************)
EXTENDS Naturals

CONSTANTS Jobs, Results, None

VARIABLES
  names,      \* names[j]: the result job j asks for, None before submission
  attempt,    \* attempt[j]: attempts of j begun so far
  cancel,     \* cancel[j]: cancellation of j is stored
  open,       \* attempts <<j, n>> being performed
  published   \* results published

ledger == <<names, attempt, cancel, open, published>>

Init ==
  /\ names = [j \in Jobs |-> None]
  /\ attempt = [j \in Jobs |-> 0]
  /\ cancel = [j \in Jobs |-> FALSE]
  /\ open = {}
  /\ published = {}

Submit(j, r) ==
  /\ names[j] = None
  /\ names' = [names EXCEPT ![j] = r]
  /\ UNCHANGED <<attempt, cancel, open, published>>

Cancel(j) ==
  /\ names[j] # None
  /\ cancel' = [cancel EXCEPT ![j] = TRUE]
  /\ UNCHANGED <<names, attempt, open, published>>

BeginAttempt(j) ==
  /\ names[j] # None /\ ~cancel[j]
  /\ attempt' = [attempt EXCEPT ![j] = @ + 1]
  /\ open' = open \cup {<<j, attempt[j] + 1>>}
  /\ UNCHANGED <<names, cancel, published>>

Publish(j, n) ==
  /\ <<j, n>> \in open
  /\ open' = open \ {<<j, n>>}
  /\ published' = published \cup {names[j]}
  /\ UNCHANGED <<names, attempt, cancel>>

Abandon(j, n) ==
  /\ <<j, n>> \in open
  /\ open' = open \ {<<j, n>>}
  /\ UNCHANGED <<names, attempt, cancel, published>>

Next ==
  \E j \in Jobs :
    \/ \E r \in Results : Submit(j, r)
    \/ Cancel(j)
    \/ BeginAttempt(j)
    \/ \E n \in 1..attempt[j] : Publish(j, n) \/ Abandon(j, n)

Spec == Init /\ [][Next]_ledger
=============================================================================
