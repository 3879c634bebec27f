----------------------------- MODULE MCRuntime -----------------------------
(***************************************************************************)
(* A small instance of Runtime: a run that leaves a memory and a later one *)
(* of the same agent or of another, which may recall it, cite it and end.  *)
(***************************************************************************)
EXTENDS Runtime, TLC

CONSTANTS a, b, v1, e1, e2, m1, r1, d1, s1, s2, f1, f2, c1, c2, lesson, lax, strict

MCBundle ==
  [ p \in {lax, strict} |->
      [ admitOn |-> {lesson}, minimumEvidence |-> OBSERVED,
        allowedEvidence |-> IF p = lax THEN {OBSERVED, VERIFIED} ELSE {VERIFIED},
        minimumConfidence |-> 65, matchEnvironment |-> TRUE, tolerated |-> {} ] ]

Context(agent, env) == [agent |-> agent, env |-> env]
MCStartInputs == e1 :> {Context(a, NoEnv)} @@ e2 :> {Context(a, v1), Context(b, v1)}
MCRegistered == e1 :> {} @@ e2 :> {strict}
MCRevisions == [origin : {e1, e2}, kind : {lesson}]

Start(e) == {[op |-> "start", exec |-> e, context |-> ctx] : ctx \in MCStartInputs[e]}
Complete(e, evidence, signals) ==
  [op |-> "complete", exec |-> e, status |-> "SUCCESS", evidence |-> evidence,
   signals |-> signals]
Learned(evidence) ==
  [kind |-> lesson, evidence |-> evidence, confidence |-> None, sources |-> {}]

MCRequests ==
  s1 :> Start(e1) @@ s2 :> Start(e2) @@ f2 :> {Complete(e2, OBSERVED, << >>)} @@
  f1 :> {Complete(e1, VERIFIED, <<Learned(VERIFIED)>>), Complete(e1, OBSERVED, <<Learned(OBSERVED)>>)}

MCMemoryInputs ==
  {AdmittedMemory(e1, Context(a, env), Learned(evidence), {e1}) :
     env \in {v1, NoEnv}, evidence \in {OBSERVED, VERIFIED}} \cup
  {AdmittedMemory(e1, Context(b, env), Learned(evidence), {e1}) :
     env \in {v1, NoEnv}, evidence \in {OBSERVED, VERIFIED}}

MCInfluenceInputs ==
  { {}, {[memory |-> m1, retrieval |-> None, changedAction |-> TRUE, counterfactual |-> e1]} }

=============================================================================
