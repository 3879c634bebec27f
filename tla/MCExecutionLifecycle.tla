------------------------ MODULE MCExecutionLifecycle ------------------------
(***************************************************************************)
(* A small instance of ExecutionLifecycle: two executions, of one agent or *)
(* of two, each started, observed and completed by invocations of its own; *)
(* a lax fallback and a strict policy; signals about one run and about two.*)
(***************************************************************************)
EXTENDS ExecutionLifecycle, TLC

CONSTANTS a, b, v1, e1, e2, m1, m2, m3, s1, s2, o1, o2, o3, f1, f2, k1, k2, x1, x2, lax, strict

MCBundle ==
  [ p \in {lax, strict} |->
      [ admitOn |-> {k1}, minimumEvidence |-> IF p = lax THEN OBSERVED ELSE VERIFIED,
        allowedEvidence |-> {VERIFIED}, minimumConfidence |-> 65,
        matchEnvironment |-> TRUE, tolerated |-> {} ] ]

Context(agent, env) == [agent |-> agent, env |-> env]
MCStartInputs == e1 :> {Context(a, v1)} @@ e2 :> {Context(a, NoEnv), Context(b, v1)}
MCRegistered == e1 :> {strict} @@ e2 :> {}
MCRevisions == [origin : {e1, e2}, kind : {k1, k2}]

Start(e) == {[op |-> "start", exec |-> e, context |-> ctx] : ctx \in MCStartInputs[e]}
Observe(e, x) == [op |-> "observe", exec |-> e, body |-> x]
Complete(e, status, evidence, signals) ==
  [op |-> "complete", exec |-> e, status |-> status, evidence |-> evidence,
   signals |-> signals]
Signalled(kind, evidence, confidence, sources) ==
  [kind |-> kind, evidence |-> evidence, confidence |-> confidence, sources |-> sources]

Pattern == Signalled(k1, VERIFIED, None, {e1, e2})
MCRequests ==
  s1 :> Start(e1) @@ s2 :> Start(e2) @@
  o1 :> {Observe(e1, x1)} @@ o2 :> {Observe(e2, x2)} @@ o3 :> {Observe(e1, x2)} @@
  f1 :> {Complete(e1, "SUCCESS", VERIFIED, <<Pattern, Signalled(k1, OBSERVED, 70, {})>>)} @@
  f2 :> {Complete(e2, "FAILURE", OBSERVED, <<Signalled(k1, VERIFIED, None, {e2})>>),
         Complete(e2, "SUCCESS", VERIFIED, <<Signalled(k1, VERIFIED, None, {e1}),
                                             Signalled(k2, VERIFIED, None, {})>>)}

\* Two observations of one execution, two completions of another.
RacingRequests ==
  s1 :> Start(e1) @@ s2 :> Start(e2) @@
  o1 :> {Observe(e1, x1)} @@ o2 :> {Observe(e1, x2)} @@ o3 :> {} @@
  f1 :> {Complete(e2, "SUCCESS", VERIFIED, << >>)} @@
  f2 :> {Complete(e2, "FAILURE", OBSERVED, << >>)}

MCMemoryInputs ==
  UNION {UNION {{AdmittedMemory(q.exec, [agent |-> ctx.agent, env |-> ctx.env], q.signals[n],
                                SourcesOf(q.signals[n], q.exec)) :
                   ctx \in [agent : {a, b}, env : {v1, NoEnv}]} : n \in DOMAIN q.signals} :
         q \in MCRequests[f1] \cup MCRequests[f2]}

=============================================================================
