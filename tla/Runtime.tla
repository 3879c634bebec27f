------------------------------ MODULE Runtime ------------------------------
(***************************************************************************)
(* EngramRuntime as a whole, over one Sibyl store: executions are started, *)
(* observed and completed (ExecutionLifecycle) while memories are recalled *)
(* and decisions recorded (RecallDecision).  What each half is to the other*)
(* is no longer any step of RuntimeStore but what the code does: memories  *)
(* come of complete, which is the only caller of persistMemory, and        *)
(* executions change by startExecution and complete.                       *)
(*                                                                         *)
(* Invocations of any kind interleave at every bridge call.                *)
(***************************************************************************)
EXTENDS ExecutionLifecycle

CONSTANTS
  Recalls, Decisions, Declared, Unpaired, Unlisted, Unbound, InfluenceInputs,
  Deciders    \* invocations of recall and recordDecision

VARIABLES
  recall, decision,
  decisionAudit,  \* the events in "runtime_evaluation" that recall and decision write
  deciding        \* what each invocation of recall or recordDecision is doing

\* RecallDecision, with what its proofs establish of it.
R == INSTANCE RecallDecisionProofs WITH
       Callers <- Deciders, call <- deciding, audit <- decisionAudit

decisionVars == <<recall, decision, decisionAudit, deciding>>
runtimeVars == <<vars, decisionVars>>

\* What RecallDecision assumes of its constants.
DecidersAssumption ==
  /\ None \notin R!Recall /\ None \notin R!Decision /\ None \notin Recalls
  /\ None \notin R!Influence
  /\ None \notin [agent : Agents, env : Envs \cup {NoEnv}, policy : Policies]
  /\ {Unlisted, Unbound} \cap Memory = {} /\ Unlisted # Unbound
  /\ {Declared, Unpaired, None} \cap Execs = {}
  /\ Declared # None /\ Unpaired # None /\ Declared # Unpaired
  /\ InfluenceInputs \subseteq SUBSET R!Influence

RuntimeInit == Init /\ R!Init

Decide(c) == R!CallerStep(c) /\ UNCHANGED <<outcome, event, audit, call>>
Live == Next /\ UNCHANGED decisionVars

RuntimeNext == Live \/ \E c \in Deciders : Decide(c)

RuntimeSpec == RuntimeInit /\ [][RuntimeNext]_runtimeVars

-----------------------------------------------------------------------------
(* Properties                                                              *)

\* From end to end: an influence on record cites a memory that is on record in the very
\* state in which a recall showed it to that execution; the memory is strong enough for
\* the policy the execution was published with; and it was learned from executions of
\* the same agent, each with an outcome on record that bears the memory's evidence, the
\* one that left it having ended, under a policy that lets it be admitted.
InfluenceIsEarned ==
  \A d \in Decisions : decision[d] # None =>
    LET e == decision[d].execution IN
    \A i \in decision[d].influences :
      LET mem == memory[i.memory]
          origin == mem.rev.origin
      IN
      /\ mem # None
      /\ \E r \in Recalls : /\ recall[r] # None /\ recall[r].execution = e
                            /\ recall[r].candidates[i.memory] = mem
                            /\ i.retrieval \in {None, r}
      /\ mem.agent = execution[e].agent
      /\ StrongEnough(mem, execution[e]) /\ EnvironmentMatches(mem, execution[e])
      /\ origin \in mem.sources /\ execution[origin].status \in Terminal
      /\ mem.rev.kind \in Bundle[execution[origin].policy].admitOn
      /\ mem.evidence >= Bundle[execution[origin].policy].minimumEvidence
      /\ \A s \in mem.sources : /\ execution[s] # None /\ execution[s].agent = mem.agent
                                /\ outcome[s] # None /\ mem.evidence <= outcome[s].evidence

\* runtime.ts:492: "operation requires RUNNING".  A decision is put only while
\* its execution is still running.
DecisionsWhileRunning ==
  [][\A d \in Decisions : decision'[d] # decision[d] =>
       execution[decision'[d].execution].status = "RUNNING"]_runtimeVars

=============================================================================
