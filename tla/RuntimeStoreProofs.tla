------------------------- MODULE RuntimeStoreProofs -------------------------
(***************************************************************************)
(* What every step of RuntimeStore keeps, for any executions and memories. *)
(***************************************************************************)
EXTENDS RuntimeStore, TLAPS

LEMMA StoreTypeInit == StoreInit => StoreTypeOK
BY DEF StoreInit, StoreTypeOK

LEMMA StoreTypeStep == ASSUME StoreTypeOK, StoreNext PROVE StoreTypeOK'
<1> USE RuntimeStoreAssumption, PolicyAssumption
<1>1. ASSUME NEW e \in Execs, NEW ctx \in StartInputs[e], BeginExecution(e, ctx)
      PROVE  StoreTypeOK'
  <2>1. ctx \in [agent : Agents, env : Envs \cup {NoEnv}]
    OBVIOUS
  <2>2. [agent |-> ctx.agent, env |-> ctx.env, policy |-> Fallback, status |-> "RUNNING"]
          \in Execution
    BY <2>1 DEF Execution, Status
  <2> QED BY <1>1, <2>2 DEF BeginExecution, StoreTypeOK
<1>2. ASSUME NEW e \in Execs, NEW p \in Registered[e], FreezePolicy(e, p)
      PROVE  StoreTypeOK'
  <2>1. p \in Policies
    OBVIOUS
  <2>2. [execution[e] EXCEPT !.policy = p] \in Execution
    BY <1>2, <2>1 DEF FreezePolicy, StoreTypeOK, Execution
  <2> QED BY <1>2, <2>2 DEF FreezePolicy, StoreTypeOK
<1>3. ASSUME NEW e \in Execs, PublishExecution(e) PROVE StoreTypeOK'
  BY <1>3 DEF PublishExecution, StoreTypeOK
<1>4. ASSUME NEW e \in Execs, NEW status \in Outcomes, FinishExecution(e, status)
      PROVE  StoreTypeOK'
  <2>1. [execution[e] EXCEPT !.status = status] \in Execution
    BY <1>4 DEF FinishExecution, StoreTypeOK, Execution, Status, Terminal
  <2> QED BY <1>4, <2>1 DEF FinishExecution, StoreTypeOK
<1>5. ASSUME NEW m \in Memories, NEW mem \in MemoryInputs, WriteMemory(m, mem)
      PROVE  StoreTypeOK'
  BY <1>5 DEF WriteMemory, StoreTypeOK
<1> QED BY <1>1, <1>2, <1>3, <1>4, <1>5 DEF StoreNext

\* What no step of the store takes back: ids stay known, executions keep their
\* agent and stay finished, and known ones keep their environment and policy.
StoreEvolves ==
  /\ known \subseteq known'
  /\ \A e \in Execs : execution[e] # None =>
       /\ execution'[e] # None
       /\ execution'[e].agent = execution[e].agent
       /\ execution[e].status \in Terminal => execution'[e].status \in Terminal
  /\ \A e \in known : /\ execution'[e].env = execution[e].env
                      /\ execution'[e].policy = execution[e].policy

LEMMA StoreStepEvolves == ASSUME StoreTypeOK, StoreNext PROVE StoreEvolves
<1> USE RuntimeStoreAssumption, PolicyAssumption
<1>1. ASSUME NEW e \in Execs, NEW ctx \in StartInputs[e], BeginExecution(e, ctx)
      PROVE  StoreEvolves
  BY <1>1 DEF BeginExecution, StoreEvolves, StoreTypeOK
<1>2. ASSUME NEW e \in Execs, NEW p \in Registered[e], FreezePolicy(e, p)
      PROVE  StoreEvolves
  BY <1>2 DEF FreezePolicy, StoreEvolves, StoreTypeOK, Execution
<1>3. ASSUME NEW e \in Execs, PublishExecution(e) PROVE StoreEvolves
  BY <1>3 DEF PublishExecution, StoreEvolves, StoreTypeOK
<1>4. ASSUME NEW e \in Execs, NEW status \in Outcomes, FinishExecution(e, status)
      PROVE  StoreEvolves
  <2> DEFINE run == [execution[e] EXCEPT !.status = status]
  <2>1. e \in Execs /\ execution[e] \in Execution
    BY <1>4 DEF FinishExecution, StoreTypeOK
  <2>2. /\ run \in Execution /\ run.agent = execution[e].agent /\ run.env = execution[e].env
        /\ run.policy = execution[e].policy /\ run.status \in Terminal
    BY <2>1 DEF Execution, Terminal
  <2>3. execution' = [execution EXCEPT ![e] = run]
    BY <1>4 DEF FinishExecution
  <2> HIDE DEF run
  <2> QED BY <1>4, <2>1, <2>2, <2>3 DEF FinishExecution, StoreEvolves, StoreTypeOK
<1>5. ASSUME NEW m \in Memories, NEW mem \in MemoryInputs, WriteMemory(m, mem)
      PROVE  StoreEvolves
  BY <1>5 DEF WriteMemory, StoreEvolves
<1> QED BY <1>1, <1>2, <1>3, <1>4, <1>5 DEF StoreNext

=============================================================================
