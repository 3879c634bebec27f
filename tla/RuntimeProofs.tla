--------------------------- MODULE RuntimeProofs ---------------------------
(***************************************************************************)
(* Proofs about Runtime, for any executions, invocations and policies: each*)
(* half keeps what was proved of it alone, and from both follows where an  *)
(* influence on record comes from.                                         *)
(***************************************************************************)
EXTENDS Runtime, ExecutionLifecycleProofs

(***************************************************************************)
(* Each half of the runtime behaves as its own module says                 *)
(***************************************************************************)
\* Recalling and deciding writes nothing of the lifecycle's.
LEMMA LifecycleHalf == RuntimeSpec => Spec
<1>1. [RuntimeNext]_runtimeVars => [Next]_vars
  <2>1. ASSUME NEW c \in Deciders, Decide(c) PROVE UNCHANGED vars
    <3>1. UNCHANGED <<execution, known, memory>>
      BY <2>1 DEF Decide, R!CallerStep, R!StartRecall, R!StartDecision, R!SearchMemory,
         R!PutRecall, R!JudgeCandidate, R!UpdateRecallExposure, R!RecordRecallEvent,
         R!GetRecalls, R!CheckInfluence, R!CheckComparison, R!RejectInfluence,
         R!RecordRejection, R!RecordRuntimeDecision, R!RecordAcceptance,
         R!RecordDecisionEvent, R!Abort, R!stored
    <3> QED BY <2>1, <3>1 DEF Decide, vars
  <2> QED BY <2>1 DEF RuntimeNext, Live, runtimeVars, vars
<1> QED BY <1>1, PTL DEF RuntimeSpec, RuntimeInit, Spec

\* RecallDecision's copy of RuntimeStore is this one.
LEMMA SameStore == StoreNext => R!StoreNext
BY DEF StoreNext, BeginExecution, FreezePolicy, PublishExecution, FinishExecution, WriteMemory,
  R!StoreNext, R!BeginExecution, R!FreezePolicy, R!PublishExecution, R!FinishExecution,
  R!WriteMemory

\* To an invocation that recalls or decides, every step of the lifecycle is one of the
\* environment RecallDecision allows it.
LEMMA DecisionStep ==
  ASSUME IInv, [RuntimeNext]_runtimeVars PROVE [R!Next]_(R!vars)
<1>1. CASE Live
  <2>1. StoreNext \/ UNCHANGED records
    BY <1>1, StoreSteps DEF Live, IInv
  <2> QED BY <1>1, <2>1, SameStore
          DEF Live, decisionVars, records, R!Next, R!Environment, R!vars
<1>2. CASE \E c \in Deciders : Decide(c)
  BY <1>2 DEF Decide, R!Next
<1>3. CASE UNCHANGED runtimeVars
  BY <1>3 DEF runtimeVars, vars, decisionVars, R!vars
<1> QED BY <1>1, <1>2, <1>3 DEF RuntimeNext

LEMMA DecisionHalf == RuntimeSpec => R!Spec
BY LifecycleHalf, Inductive, DecisionStep, PTL DEF RuntimeSpec, RuntimeInit, R!Spec

\* The hypotheses under which the theorems of RecallDecisionProofs hold of this instance.
LEMMA AssumedOfDeciders ==
  ASSUME DecidersAssumption
  PROVE  R!PolicyAssumption /\ R!RuntimeStoreAssumption /\ R!RecallDecisionAssumption
<1>1. R!PolicyAssumption
  BY PolicyAssumption DEF PolicyBundle, Evidence, Percent, Execution, Memory, Status,
     R!PolicyBundle, R!Evidence, R!Percent, R!Execution, R!Memory, R!Status
<1>2. R!RuntimeStoreAssumption
  BY RuntimeStoreAssumption DEF Terminal, Status, R!Terminal, R!Status, Memory, R!Memory,
     Evidence, Percent, R!Evidence, R!Percent
<1>3. R!RecallDecisionAssumption
  BY LifecycleAssumption DEF DecidersAssumption, Memory, R!Memory,
     Evidence, Percent, R!Evidence, R!Percent
<1> QED BY <1>1, <1>2, <1>3

\* The inductive invariants of both halves hold of the runtime as a whole.
THEOREM Halves == ASSUME DecidersAssumption PROVE RuntimeSpec => [](IInv /\ R!IInv)
<1>1. R!PolicyAssumption /\ R!RuntimeStoreAssumption /\ R!RecallDecisionAssumption
  BY AssumedOfDeciders
<1>2. R!Spec => []R!IInv
  BY <1>1, R!Inductive
<1> QED BY <1>2, LifecycleHalf, DecisionHalf, Inductive, PTL

\* With executions started and completed, and memories admitted, by the code that does it
\* and not by any step a store allows, the influence ledger is still kept, decisions cite
\* what they were shown, agents stay apart and comparison runs are complete.
THEOREM RuntimeKeepsPromises ==
  ASSUME DecidersAssumption
  PROVE  RuntimeSpec => /\ R!ImplementsLedger
                        /\ [](/\ R!DecisionsCiteExposedState
                              /\ R!ExposureKeepsAgentsApart
                              /\ R!ComparisonsAreComplete)
<1>1. R!PolicyAssumption /\ R!RuntimeStoreAssumption /\ R!RecallDecisionAssumption
  BY AssumedOfDeciders
<1>2. R!Spec => R!ImplementsLedger
  BY <1>1, R!Implements
<1>3. R!IInv => /\ R!DecisionsCiteExposedState /\ R!ExposureKeepsAgentsApart
                /\ R!ComparisonsAreComplete
  BY DEF R!IInv
<1> QED BY <1>2, <1>3, Halves, DecisionHalf, PTL

(***************************************************************************)
(* What a recall shows is, and stays, what is stored                       *)
(***************************************************************************)
FoundIsStored ==
  \A c \in Deciders, m \in Memories :
    deciding[c].pc \in {"list", "filter"} /\ deciding[c].found[m] # None =>
      deciding[c].found[m] = memory[m]

BoundIsStored ==
  \A r \in Recalls, m \in Memories :
    recall[r] # None /\ R!Bound(recall[r].candidates[m]) => recall[r].candidates[m] = memory[m]

ShownInv == FoundIsStored /\ BoundIsStored

LEMMA ShownLive ==
  ASSUME DecidersAssumption, IInv, R!IInv, ShownInv, Live PROVE ShownInv'
<1>1. UNCHANGED <<recall, deciding>>
  BY DEF Live, decisionVars
<1>2. ASSUME NEW m \in Memories, memory[m] # None PROVE memory'[m] = memory[m]
  BY <1>2, MemoriesLast DEF Live, IInv
<1>3. ASSUME NEW r \in Recalls, recall[r] # None, NEW m \in Memories,
             R!Bound(recall[r].candidates[m])
      PROVE  recall[r].candidates[m] # None
  <2>1. None \notin R!Memory
    BY PolicyAssumption DEF Memory, R!Memory, Evidence, R!Evidence, Percent, R!Percent
  <2>2. recall[r] \in R!Recall
    BY <1>3 DEF R!IInv, R!TypeOK
  <2> QED BY <1>3, <2>1, <2>2 DEF R!Recall, R!Exposure, R!Bound
<1> QED BY <1>1, <1>2, <1>3 DEF ShownInv, FoundIsStored, BoundIsStored

LEMMA ShownDecide ==
  ASSUME DecidersAssumption, R!IInv, ShownInv, NEW c \in Deciders, Decide(c) PROVE ShownInv'
<1> USE AssumedOfDeciders
<1>0. /\ R!TypeOK /\ R!CallerStep(c) /\ [R!Next]_(R!vars)
      /\ memory' = memory /\ deciding \in [Deciders -> R!Call]
  BY DEF Decide, R!Next, R!IInv, R!TypeOK, R!CallerStep, R!StartRecall, R!StartDecision,
     R!SearchMemory, R!PutRecall, R!JudgeCandidate, R!UpdateRecallExposure,
     R!RecordRecallEvent, R!GetRecalls, R!CheckInfluence, R!CheckComparison,
     R!RejectInfluence, R!RecordRejection, R!RecordRuntimeDecision, R!RecordAcceptance,
     R!RecordDecisionEvent, R!Abort, R!stored
<1>1. FoundIsStored'
  <2>1. ASSUME NEW m \in Memories, deciding'[c].pc \in {"list", "filter"},
               deciding'[c].found[m] # None
        PROVE  deciding'[c].found[m] = memory[m]
    <3>1. R!SearchMemory(c) \/ R!PutRecall(c) \/ \E n \in Memories : R!JudgeCandidate(c, n)
      BY <1>0, <2>1, R!StepTo
    <3>2. CASE R!SearchMemory(c)
      BY <1>0, <2>1, <3>2 DEF R!SearchMemory, R!Call
    <3>3. CASE R!PutRecall(c)
      BY <1>0, <2>1, <3>3 DEF R!PutRecall, R!Call, ShownInv, FoundIsStored
    <3>4. ASSUME NEW n \in Memories, R!JudgeCandidate(c, n)
          PROVE  deciding'[c].found[m] = memory[m]
      BY <1>0, <2>1, <3>4 DEF R!JudgeCandidate, R!Call, ShownInv, FoundIsStored
    <3> QED BY <3>1, <3>2, <3>3, <3>4
  <2>2. \A d \in Deciders \ {c} : deciding'[d] = deciding[d]
    BY <1>0, R!OthersKeepCalls
  <2> QED BY <1>0, <2>1, <2>2 DEF ShownInv, FoundIsStored
<1>2. BoundIsStored'
  <2>1. CASE recall' = recall
    BY <1>0, <2>1 DEF ShownInv, BoundIsStored
  <2>2. ASSUME NEW d \in Deciders, R!PutRecall(d) PROVE BoundIsStored'
    BY <1>0, <2>2, R!FreshRecall DEF ShownInv, BoundIsStored
  <2>3. ASSUME NEW d \in Deciders, R!UpdateRecallExposure(d) PROVE BoundIsStored'
    <3>1. deciding[d].pc = "filter"
      BY <2>3 DEF R!UpdateRecallExposure
    <3>2. R!Bound(Unlisted) = FALSE
      BY DEF R!Bound
    <3> QED BY <1>0, <2>3, <3>1, <3>2, R!OwnExposure DEF ShownInv, FoundIsStored, BoundIsStored
  <2> QED BY <1>0, <2>1, <2>2, <2>3, R!RecallWrites
<1> QED BY <1>1, <1>2 DEF ShownInv

LEMMA ShownInductive ==
  ASSUME DecidersAssumption PROVE RuntimeSpec => []ShownInv
<1>1. RuntimeInit => ShownInv
  BY DEF RuntimeInit, R!Init, R!Idle, ShownInv, FoundIsStored, BoundIsStored
<1>2. IInv /\ R!IInv /\ ShownInv /\ [RuntimeNext]_runtimeVars => ShownInv'
  <2>1. ASSUME ShownInv, UNCHANGED runtimeVars PROVE ShownInv'
    BY <2>1 DEF runtimeVars, vars, decisionVars, ShownInv, FoundIsStored, BoundIsStored
  <2> QED BY <2>1, ShownLive, ShownDecide DEF RuntimeNext
<1> QED BY <1>1, <1>2, Halves, PTL DEF RuntimeSpec

(***************************************************************************)
(* From end to end                                                         *)
(***************************************************************************)
\* From a decision back to the runs it owes its influences to, whatever overlaps and is
\* cut short: the memory cited is the one shown and the one stored, of the same agent,
\* strong enough for the frozen policy, and worth no more than the outcomes it came of,
\* unless two completions of one execution raced for its outcome.
THEOREM InfluencesAreEarned ==
  ASSUME DecidersAssumption PROVE RuntimeSpec /\ []~OutcomeRace => []InfluenceIsEarned
<1>1. ASSUME IInv, AuthInv, EndedInv, R!IInv, ShownInv,
             NEW d \in Decisions, decision[d] # None, NEW i \in decision[d].influences
      PROVE  LET e == decision[d].execution
                 mem == memory[i.memory]
                 origin == mem.rev.origin
             IN
             /\ mem # None
             /\ \E r \in Recalls : /\ recall[r] # None /\ recall[r].execution = e
                                   /\ recall[r].candidates[i.memory] = mem
                                   /\ i.retrieval \in {None, r}
             /\ mem.agent = execution[e].agent
             /\ StrongEnough(mem, execution[e]) /\ EnvironmentMatches(mem, execution[e])
             /\ origin \in mem.sources /\ execution[origin].status \in Terminal
             /\ mem.rev.kind \in Bundle[execution[origin].policy].admitOn
             /\ mem.evidence >= Bundle[execution[origin].policy].minimumEvidence
             /\ \A s \in mem.sources : /\ execution[s] # None /\ execution[s].agent = mem.agent
                                       /\ outcome[s] # None /\ mem.evidence <= outcome[s].evidence
  <2> DEFINE e == decision[d].execution
             mem == memory[i.memory]
  <2>1. PICK r \in Recalls : R!Supports(r, e, i)
    BY <1>1 DEF R!IInv, R!DecisionsCiteExposedState
  <2>2. i.memory \in Memories
    BY <1>1 DEF R!IInv, R!TypeOK, R!Decision, R!Influence
  <2>3. /\ recall[r] \in R!Recall /\ R!Bound(recall[r].candidates[i.memory])
        /\ recall[r].candidates[i.memory] = mem
    BY <1>1, <2>1, <2>2 DEF R!IInv, R!TypeOK, R!Supports, R!Bound, ShownInv, BoundIsStored
  <2>4. mem # None
    <3>1. None \notin R!Memory
      BY PolicyAssumption DEF Memory, R!Memory, Evidence, R!Evidence, Percent, R!Percent
    <3> QED BY <2>2, <2>3, <3>1 DEF R!Recall, R!Exposure, R!Bound
  <2>5. /\ StrongEnough(mem, execution[e]) /\ EnvironmentMatches(mem, execution[e])
        /\ mem.agent = execution[e].agent
    BY <2>1, <2>3 DEF R!Supports, R!StrongEnough, StrongEnough, R!EnvironmentMatches,
       EnvironmentMatches
  <2>6. Authorised(mem)
    BY <1>1, <2>2, <2>4 DEF AuthInv, MemoriesAreAuthorised
  <2>7. execution[mem.rev.origin].status \in Terminal
    BY <1>1, <2>2, <2>4 DEF EndedInv, OriginsHaveEnded
  <2> QED BY <2>1, <2>3, <2>4, <2>5, <2>6, <2>7 DEF R!Supports, Authorised
<1>2. IInv /\ AuthInv /\ EndedInv /\ R!IInv /\ ShownInv => InfluenceIsEarned
  BY <1>1 DEF InfluenceIsEarned
<1> QED BY <1>2, Halves, LifecycleHalf, AuthInductive, EndedInductive, ShownInductive, PTL
=============================================================================
