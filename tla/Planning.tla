-------------------------------- MODULE Planning --------------------------------
(***************************************************************************)
(* The two planning tools of analytics.py.                                 *)
(*                                                                         *)
(* optimize_assignments gives every task to a worker with the skill, each  *)
(* worker within capacity, with loads as even as possible: by the CP-SAT   *)
(* solver where it is installed (modelled by the constraints it is given:  *)
(* it may return any solution that meets them, or run out of time), and by *)
(* enumeration otherwise.                                                  *)
(*                                                                         *)
(* simulate_queue replays arrivals at a desk with several agents; the      *)
(* random draws are a choice among small gaps and service times.           *)
(***************************************************************************)
EXTENDS Integers, Sequences, FiniteSets, FiniteSetsExt, SequencesExt

CONSTANTS
  Plans,        \* requests: workers and tasks, sequences of records
  TaskLimit,    \* tasks the enumeration takes (12 in the code)
  SearchLimit,  \* combinations the enumeration takes (250 000 in the code)
  Agents,       \* numbers of agents
  Opening,      \* hours simulated
  Draws         \* gaps between arrivals and service times

\* A request has a worker and a task at least (OptimizationRequest).
ASSUME PlanningAssumption ==
  /\ \A p \in Plans :
       /\ p.workers \in Seq([skills : SUBSET STRING, capacity : Nat]) \ {<<>>}
       /\ p.tasks \in Seq([skill : STRING, hours : Nat \ {0}]) \ {<<>>}
  /\ Agents \subseteq Nat \ {0} /\ Opening \in Nat /\ Draws \subseteq Nat

VARIABLES
  plan,         \* the assignment asked for
  result,       \* its answer; NoResult before
  desk          \* the queue simulation

planningVars == <<plan, result, desk>>

NoResult == [feasibility |-> "open"]

-----------------------------------------------------------------------------
(* Assignments.  Hours are counted in half thousandths, because the solver *)
(* works in thousandths.                                                   *)

Workers == DOMAIN plan.workers
Tasks   == DOMAIN plan.tasks

Skilled(t, w) == plan.tasks[t].skill \in plan.workers[w].skills

Load(choice, hours, w) == MapThenSumSet(LAMBDA t : hours[t], {t \in Tasks : choice[t] = w})

RealHours   == [t \in Tasks |-> plan.tasks[t].hours]
SolverHours == [t \in Tasks |-> (plan.tasks[t].hours + 1) \div 2]   \* rounded up

\* Mutant of SolverCapacity: capacities are rounded up as the tasks are.
GenerousCapacity(w) == (plan.workers[w].capacity + 1) \div 2

SolverCapacity(w) == plan.workers[w].capacity \div 2        \* rounded down

\* What the solver is asked: each task to one worker that has the skill and
\* could take it alone, and no load above a capacity.
SolverChoices ==
  {c \in [Tasks -> Workers] :
     /\ \A t \in Tasks : Skilled(t, c[t]) /\ SolverHours[t] <= SolverCapacity(c[t])
     /\ \A w \in Workers : Load(c, SolverHours, w) <= SolverCapacity(w)}

\* Utilization in ten thousandths, of the workers with any capacity at all.
SolverRange(c) ==
  LET used == {(Load(c, SolverHours, w) * 10000) \div SolverCapacity(w) :
                 w \in {w \in Workers : SolverCapacity(w) > 0}}
  IN IF used = {} THEN 0 ELSE Max(used) - Min(used)

Feasible(choice, claim) == [feasibility |-> "feasible", choice |-> choice, claim |-> claim]
Infeasible(claim)       == [feasibility |-> "infeasible", claim |-> claim]

Solve ==
  /\ result = NoResult
  /\ \/ /\ SolverChoices = {}
        /\ result' \in {Infeasible("no_feasible_solution_returned"), [feasibility |-> "unknown"]}
     \/ \E c \in SolverChoices :
          result' \in {[feasibility |-> "unknown"], Feasible(c, "feasible_solution_not_proven")}
            \cup (IF \A d \in SolverChoices : SolverRange(c) <= SolverRange(d)
                  THEN {Feasible(c, "optimal_for_bounded_search")} ELSE {})
  /\ UNCHANGED <<plan, desk>>

\* The enumeration compares real hours.
Eligible(t) == {w \in Workers : Skilled(t, w) /\ RealHours[t] <= plan.workers[w].capacity}

Enumerated == {c \in [Tasks -> Workers] : \A t \in Tasks : c[t] \in Eligible(t)}

Fitting == {c \in Enumerated : \A w \in Workers : Load(c, RealHours, w) <= plan.workers[w].capacity}

\* The range of utilization, over the product of the capacities.
Imbalance(c) ==
  LET all  == FoldLeft(LAMBDA p, w : p * w.capacity, 1, plan.workers)
      used == {Load(c, RealHours, w) * (all \div plan.workers[w].capacity) : w \in Workers}
  IN Max(used) - Min(used)

\* The least imbalance, and the first choice in the order of the workers.
Before(c, d) ==
  \/ Imbalance(c) < Imbalance(d)
  \/ /\ Imbalance(c) = Imbalance(d)
     /\ \E t \in Tasks : c[t] < d[t] /\ \A s \in 1..(t - 1) : c[s] = d[s]

Combinations == FoldLeft(LAMBDA p, t : p * Max({1, Cardinality(Eligible(t))}), 1,
                         [t \in Tasks |-> t])

\* Tasks that nobody could take.
Hopeless(tasks) ==
  [feasibility |-> "infeasible", claim |-> "infeasibility_witness", witnesses |-> tasks]

\* The enumeration divides by a capacity, and a request may hold one of zero.
DivisionByZero == [feasibility |-> "failed"]

Enumerate ==
  LET hopeless == {t \in Tasks : Eligible(t) = {}}
      best     == {c \in Fitting : \A d \in Fitting : d = c \/ Before(c, d)}
  IN
  /\ result = NoResult
  /\ result' =
       IF hopeless # {} THEN Hopeless(hopeless)
       ELSE IF Len(plan.tasks) > TaskLimit \/ Combinations > SearchLimit
       THEN [feasibility |-> "unsupported"]
       ELSE IF Fitting = {} THEN Infeasible("infeasibility_witness")
       ELSE IF \E w \in Workers : plan.workers[w].capacity = 0 THEN DivisionByZero
       ELSE Feasible(CHOOSE c \in best : TRUE, "optimal_for_bounded_search")
  /\ UNCHANGED <<plan, desk>>

-----------------------------------------------------------------------------
(* The queue: when each agent is free again, and who was served when.      *)

NoDesk == [freeAt |-> <<>>]

OpenDesk(agents) ==
  [freeAt |-> [a \in 1..agents |-> 0], clock |-> 0, completed |-> 0, open |-> TRUE,
   served |-> <<>>]

\* Mutant of NextAgent: the agents take turns.
AgentsInTurn(d) == (Len(d.served) % Len(d.freeAt)) + 1

\* heappop: the agent who is free first.
NextAgent(d) == CHOOSE a \in DOMAIN d.freeAt : \A b \in DOMAIN d.freeAt : d.freeAt[a] <= d.freeAt[b]

Arrive(gap, service) ==
  LET arrival == desk.clock + gap
      agent   == NextAgent(desk)
      start   == Max({arrival, desk.freeAt[agent]})
      finish  == start + service
  IN
  /\ desk # NoDesk /\ desk.open
  /\ desk' = IF arrival > Opening THEN [desk EXCEPT !.clock = arrival, !.open = FALSE]
             ELSE [desk EXCEPT !.clock     = arrival,
                               !.freeAt    = [desk.freeAt EXCEPT ![agent] = finish],
                               !.served    = Append(desk.served, <<arrival, start, finish>>),
                               !.completed = IF finish <= Opening THEN @ + 1 ELSE @]
  /\ UNCHANGED <<plan, result>>

-----------------------------------------------------------------------------
NoPlan == [workers |-> <<>>, tasks |-> <<>>]

PlanningInit ==
  \/ plan \in Plans /\ result = NoResult /\ desk = NoDesk
  \/ plan = NoPlan /\ result = [feasibility |-> "none"] /\ \E n \in Agents : desk = OpenDesk(n)

PlanningNext ==
  \/ Solve \/ Enumerate
  \/ \E gap, service \in Draws : Arrive(gap, service)

-----------------------------------------------------------------------------
(* Properties.                                                             *)

\* An assignment that is returned gives every task to a worker with the skill
\* and overloads nobody in real hours, whichever engine rounded what; and what
\* the enumeration calls infeasible no assignment could do.
AssignmentsSound ==
  LET honest(c) ==
        /\ \A t \in Tasks : Skilled(t, c[t])
        /\ \A w \in Workers : Load(c, RealHours, w) <= plan.workers[w].capacity
  IN /\ result.feasibility = "feasible" => honest(result.choice)
     /\ result.feasibility = "infeasible" /\ result.claim = "infeasibility_witness" =>
          ~\E c \in [Tasks -> Workers] : honest(c)

\* The simulated desk is one queue: customers start in the order they come, at
\* most as many are being served as there are agents, and nobody waits while an
\* agent is free.
OneQueue ==
  desk # NoDesk =>
    LET served == desk.served
        busy(t, before) == Quantify(1..before, LAMBDA j : served[j][2] <= t /\ t < served[j][3])
    IN \A i \in DOMAIN served :
         /\ i > 1 => served[i - 1][2] <= served[i][2]
         /\ busy(served[i][2], i - 1) < Len(desk.freeAt)
         /\ \A t \in served[i][1]..(served[i][2] - 1) : busy(t, i - 1) = Len(desk.freeAt)
=============================================================================
