-------------------------- MODULE MCRecallDecision --------------------------
(***************************************************************************)
(* A small instance of RecallDecision: two agents with an execution each   *)
(* and a third run to compare with, a weak and a strong revision of the    *)
(* agent's memory, one foreign memory, a lax fallback and a strict policy. *)
(***************************************************************************)
EXTENDS RecallDecision, TLC

CONSTANTS a, b, v1, e1, e2, m1, r1, r2, d1, c1, c2, c3, lax, strict

MCBundle ==
  [ p \in {lax, strict} |->
      [ admitOn |-> {}, minimumEvidence |-> OBSERVED,
        allowedEvidence |-> IF p = lax THEN {SIMULATED, OBSERVED, VERIFIED} ELSE {VERIFIED},
        minimumConfidence |-> 65, matchEnvironment |-> TRUE, tolerated |-> {} ] ]

Mem(agent, env, evidence, rev) ==
  [ agent |-> agent, env |-> env, evidence |-> evidence, confidence |-> 90,
    sources |-> {e2}, malformed |-> FALSE, rev |-> rev ]

MCMemoryInputs == { Mem(a, NoEnv, VERIFIED, 0), Mem(a, NoEnv, OBSERVED, 1) }
MCStartInputs == e1 :> { [agent |-> a, env |-> v1] } @@
                 e2 :> { [agent |-> a, env |-> v1], [agent |-> b, env |-> NoEnv] }
MCRegistered == e1 :> {strict} @@ e2 :> {}

Inf(retrieval, changed, counterfactual) ==
  [ memory |-> m1, retrieval |-> retrieval, changedAction |-> changed,
    counterfactual |-> counterfactual ]

MCInfluenceInputs ==
  { {}, {Inf(None, FALSE, None)}, {Inf(r1, FALSE, Unpaired)},
    {Inf(r1, TRUE, e2), Inf(r2, FALSE, Declared)} }

MCSymmetry == Permutations({c1, c2, c3})

=============================================================================
