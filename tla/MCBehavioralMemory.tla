-------------------------- MODULE MCBehavioralMemory --------------------------
(***************************************************************************)
(* A small instance of BehavioralMemory.  Of the executions submitted, one *)
(* is admitted, and the others fall short of it in one respect each.       *)
(***************************************************************************)
EXTENDS BehavioralMemory, TLC

Finished(agent) ==
  [ agent |-> agent, applicability |-> {x \in Contexts : TRUE}, confidence |-> 95,
    evidence |-> "OBSERVED", status |-> "SUCCESS", outcome |-> "SUCCESS",
    completed |-> TRUE, referenced |-> TRUE, events |-> <<0, 1>> ]

MCSubmissions ==
  UNION {
    { Finished(agent),
      [Finished(agent) EXCEPT !.evidence = "INFERRED"],
      [Finished(agent) EXCEPT !.confidence = 60],
      [Finished(agent) EXCEPT !.status = "RUNNING"],
      [Finished(agent) EXCEPT !.outcome = "FAILURE"],
      [Finished(agent) EXCEPT !.events = <<0, 2>>],
      [Finished(agent) EXCEPT !.referenced = FALSE],
      [Finished(agent) EXCEPT !.completed = FALSE] } : agent \in Agents }

Symmetry ==
  Permutations(Callers \ Fragile) \cup Permutations(Versions) \cup Permutations(Families)
    \cup Permutations(Agents) \cup Permutations(Evaluations)

=============================================================================
