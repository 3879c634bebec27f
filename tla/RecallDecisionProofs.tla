------------------------ MODULE RecallDecisionProofs ------------------------
(***************************************************************************)
(* Proofs about RecallDecision, for any executions, memories, policies and *)
(* number of concurrent invocations.                                       *)
(***************************************************************************)
EXTENDS RecallDecision, RuntimeStoreProofs

(***************************************************************************)
(* Type correctness                                                        *)
(***************************************************************************)
\* What an invocation may hold, and what it must hold at its pc.
Held == {k \in Call : HoldsWhatItNeeds(k)}

LEMMA HeldTyped == ASSUME NEW c \in Callers, TypeOK PROVE call[c] \in Held
BY DEF TypeOK, StoreTypeOK, Held

LEMMA Holding ==
  ASSUME TypeOK, NEW c \in Callers, NEW k \in Held, call' = [call EXCEPT ![c] = k]
  PROVE  /\ call' \in [Callers -> Call]
         /\ \A d \in Callers : HoldsWhatItNeeds(call'[d])
BY DEF TypeOK, StoreTypeOK, Held

LEMMA IdleInCall == Idle \in Call /\ Idle.todo = {}
BY DEF Idle, Call, NotFound, NotSeen

LEMMA IdleTyped == Idle \in Held /\ [Idle EXCEPT !.pc = "done"] \in Held
BY RecallDecisionAssumption DEF Idle, Call, NotFound, NotSeen, Held, HoldsWhatItNeeds

LEMMA TypeInit == Init => TypeOK
BY IdleTyped, StoreTypeInit DEF Init, TypeOK, Held

LEMMA TypeEnvironment == ASSUME TypeOK, Environment PROVE TypeOK'
<1>1. StoreTypeOK'
  BY StoreTypeStep DEF TypeOK, Environment
<1> QED BY <1>1 DEF Environment, TypeOK

CallTyped == /\ call \in [Callers -> Call]
             /\ \A c \in Callers : HoldsWhatItNeeds(call[c])

LEMMA TypeReturn ==
  ASSUME TypeOK, NEW c \in Callers, Return(c) PROVE CallTyped'
BY IdleTyped, Holding DEF Return, CallTyped

LEMMA TypeVerdict ==
  ASSUME TypeOK, NEW c \in Callers, call[c].exec \in Execs, call[c].id \in Decisions,
         Commit(c) \/ Reject(c)
  PROVE  CallTyped'
<1> DEFINE k1 == [Idle EXCEPT !.pc = "commit", !.exec = call[c].exec,
                              !.id = call[c].id, !.influences = call[c].influences]
           k2 == [Idle EXCEPT !.pc = "rejected", !.exec = call[c].exec]
<1>1. call[c] \in Call
  BY DEF TypeOK, StoreTypeOK
<1>2. k1 \in Held
  <2>1. k1 \in Call
    BY <1>1, IdleInCall DEF Call, HoldsWhatItNeeds
  <2> QED BY <1>1, <2>1, IdleInCall DEF Call, Held, HoldsWhatItNeeds
<1>3. k2 \in Held
  <2>1. k2 \in Call
    BY <1>1, IdleInCall DEF Call, HoldsWhatItNeeds
  <2> QED BY <1>1, <2>1, IdleInCall DEF Call, Held, HoldsWhatItNeeds
<1>4. CASE Commit(c)
  <2>1. call' = [call EXCEPT ![c] = k1]
    BY <1>4 DEF Commit
  <2> QED BY <2>1, <1>2, Holding DEF CallTyped
<1>5. CASE Reject(c)
  <2>1. call' = [call EXCEPT ![c] = k2]
    BY <1>5 DEF Reject
  <2> QED BY <2>1, <1>3, Holding DEF CallTyped
<1> QED BY <1>4, <1>5

LEMMA TypePassed ==
  ASSUME TypeOK, NEW c \in Callers, NEW i, call[c].pc \in {"check", "compare"}, Passed(c, i)
  PROVE  CallTyped'
<1>1. call[c] \in Call /\ HoldsWhatItNeeds(call[c])
  BY DEF TypeOK, StoreTypeOK
<1>2. CASE call[c].todo = {i}
  BY <1>1, <1>2, TypeVerdict DEF Passed, HoldsWhatItNeeds
<1>3. CASE call[c].todo # {i}
  <2> DEFINE k == [call[c] EXCEPT !.todo = @ \ {i}, !.one = None, !.pc = "check"]
  <2>1. k \in Held
    BY <1>1 DEF Call, Held, HoldsWhatItNeeds
  <2>2. call' = [call EXCEPT ![c] = k]
    BY <1>3 DEF Passed, TypeOK, StoreTypeOK
  <2> HIDE DEF k
  <2> QED BY <2>1, <2>2, Holding DEF CallTyped
<1> QED BY <1>2, <1>3

LEMMA TypeCaller ==
  ASSUME TypeOK, NEW c \in Callers, CallerStep(c) PROVE TypeOK'
<1> USE RecallDecisionAssumption, RuntimeStoreAssumption, PolicyAssumption
<1> DEFINE now == call[c]
<1>0. now \in Call /\ HoldsWhatItNeeds(now)
  BY DEF TypeOK, StoreTypeOK
<1>1. ASSUME NEW e \in Execs, StartRecall(c, e) PROVE TypeOK'
  <2> DEFINE k == [Idle EXCEPT !.pc = "search", !.exec = e, !.run = execution[e]]
  <2>1. execution[e] \in Execution
    BY <1>1 DEF StartRecall, requireRunning, TypeOK, StoreTypeOK
  <2>2. k \in Held
    <3>1. k \in Call
      BY <2>1, IdleInCall DEF Call, HoldsWhatItNeeds
    <3> QED BY <2>1, <3>1, IdleInCall DEF Call, Held, HoldsWhatItNeeds
  <2>3. CallTyped'
    BY <1>1, <2>2, Holding DEF StartRecall, CallTyped
  <2> QED BY <1>1, <2>3 DEF StartRecall, stored, TypeOK, StoreTypeOK, CallTyped
<1>2. ASSUME NEW e \in Execs, NEW d \in Decisions, NEW I \in InfluenceInputs,
             StartDecision(c, e, d, I)
      PROVE  TypeOK'
  <2> DEFINE k == [Idle EXCEPT !.pc = "recalls", !.exec = e, !.run = execution[e],
                               !.id = d, !.influences = I, !.todo = I]
  <2>1. execution[e] \in Execution
    BY <1>2 DEF StartDecision, requireRunning, TypeOK, StoreTypeOK
  <2>2. k \in Held
    <3>1. k \in Call
      BY <2>1, IdleInCall DEF Call, HoldsWhatItNeeds
    <3> QED BY <2>1, <3>1, IdleInCall DEF Call, Held, HoldsWhatItNeeds
  <2>3. call' = [call EXCEPT ![c] = k]
    BY <1>2 DEF StartDecision
  <2> HIDE DEF k
  <2>4. CallTyped'
    BY <2>2, <2>3, Holding DEF CallTyped
  <2> QED BY <1>2, <2>4 DEF StartDecision, stored, TypeOK, StoreTypeOK, CallTyped
<1>3. ASSUME SearchMemory(c) PROVE TypeOK'
  <2>1. PICK S \in SUBSET {m \in Memories : memory[m] # None
                                             /\ memory[m].agent = call[c].run.agent} :
          call' = [call EXCEPT ![c].pc = "list",
                     ![c].found = [m \in Memories |->
                                     IF m \in S THEN memory[m] ELSE None]]
    BY <1>3 DEF SearchMemory
  <2> DEFINE f == [m \in Memories |-> IF m \in S THEN memory[m] ELSE None]
             k == [now EXCEPT !.pc = "list", !.found = f]
  <2>2. f \in [Memories -> Memory \cup {None}]
    BY DEF TypeOK, StoreTypeOK
  <2>3. k \in Held
    BY <1>0, <1>3, <2>2 DEF SearchMemory, Call, Held, HoldsWhatItNeeds
  <2>4. call' = [call EXCEPT ![c] = k]
    BY <2>1 DEF TypeOK, StoreTypeOK
  <2> HIDE DEF k
  <2>5. CallTyped'
    BY <2>3, <2>4, Holding DEF CallTyped
  <2> QED BY <1>3, <2>5 DEF SearchMemory, stored, TypeOK, StoreTypeOK, CallTyped
<1>4. ASSUME PutRecall(c) PROVE TypeOK'
  <2> DEFINE listed == [m \in Memories |->
                          IF call[c].found[m] = None THEN Unlisted ELSE Unbound]
  <2>1. PICK r \in Recalls :
          /\ recall' = [recall EXCEPT ![r] =
                          [execution |-> call[c].exec, candidates |-> listed]]
          /\ call' = [call EXCEPT ![c].pc = "filter", ![c].retrieval = r,
                        ![c].pending = {m \in Memories : call[c].found[m] # None}]
    BY <1>4 DEF PutRecall
  <2>2. listed \in [Memories -> Exposure]
    BY DEF Exposure
  <2>3. recall' \in [Recalls -> Recall \cup {None}]
    BY <1>0, <1>4, <2>1, <2>2 DEF PutRecall, TypeOK, StoreTypeOK, Recall, HoldsWhatItNeeds
  <2> DEFINE k == [now EXCEPT !.pc = "filter", !.retrieval = r,
                     !.pending = {m \in Memories : call[c].found[m] # None}]
  <2>4. k \in Held
    BY <1>0, <1>4 DEF PutRecall, Call, Held, HoldsWhatItNeeds
  <2>5. call' = [call EXCEPT ![c] = k]
    BY <2>1 DEF TypeOK, StoreTypeOK
  <2> HIDE DEF k
  <2>6. CallTyped'
    BY <2>4, <2>5, Holding DEF CallTyped
  <2> QED BY <1>4, <2>3, <2>6 DEF PutRecall, TypeOK, StoreTypeOK, CallTyped
<1>5. ASSUME NEW m \in Memories, JudgeCandidate(c, m) PROVE TypeOK'
  <2>1. PICK verdict \in {None, call[c].found[m]} :
          call' = [call EXCEPT ![c].found[m] = verdict, ![c].pending = @ \ {m}]
    BY <1>5 DEF JudgeCandidate
  <2> DEFINE k == [now EXCEPT !.found[m] = verdict, !.pending = @ \ {m}]
  <2>2. k \in Held
    BY <1>0, <1>5 DEF JudgeCandidate, Call, Held, HoldsWhatItNeeds
  <2>3. call' = [call EXCEPT ![c] = k]
    BY <2>1 DEF TypeOK, StoreTypeOK
  <2> HIDE DEF k
  <2>4. CallTyped'
    BY <2>2, <2>3, Holding DEF CallTyped
  <2> QED BY <1>5, <2>4 DEF JudgeCandidate, stored, TypeOK, StoreTypeOK, CallTyped
<1>6. ASSUME UpdateRecallExposure(c) PROVE TypeOK'
  <2> DEFINE x == [m \in Memories |->
                     IF call[c].found[m] = None THEN Unlisted ELSE call[c].found[m]]
             k == [Idle EXCEPT !.pc = "exposed", !.retrieval = call[c].retrieval]
  <2>1. x \in [Memories -> Exposure]
    BY <1>0 DEF Call, Exposure
  <2>2. k \in Held
    <3>1. k \in Call
      BY <1>0, <1>6, IdleInCall DEF UpdateRecallExposure, Call, HoldsWhatItNeeds
    <3> QED BY <1>0, <1>6, <3>1, IdleInCall DEF UpdateRecallExposure, Call, Held, HoldsWhatItNeeds
  <2>3. CallTyped'
    BY <1>6, <2>2, Holding DEF UpdateRecallExposure, CallTyped
  <2>4. recall[call[c].retrieval] \in Recall \cup {None}
    BY <1>0, <1>6 DEF UpdateRecallExposure, HoldsWhatItNeeds, TypeOK, StoreTypeOK
  <2>5. recall' \in [Recalls -> Recall \cup {None}]
    <3> HIDE DEF x, k
    <3>0. recall[call[c].retrieval] # None
      BY <1>6 DEF UpdateRecallExposure
    <3>1. recall[call[c].retrieval] \in Recall
      BY <3>0, <2>4
    <3>2. [recall[call[c].retrieval] EXCEPT !.candidates = x] \in Recall
      BY <3>1, <2>1 DEF Recall
    <3> QED BY <1>6, <3>2 DEF UpdateRecallExposure, TypeOK, StoreTypeOK, x
  <2> QED BY <1>6, <2>3, <2>5 DEF UpdateRecallExposure, TypeOK, StoreTypeOK, CallTyped
<1>7. ASSUME RecordRecallEvent(c) PROVE TypeOK'
  <2>1. audit' \subseteq {"RECALL_COMPLETED", "INFLUENCE_REJECTED", "INFLUENCE_ACCEPTED",
                          "DECISION_RECORDED"} \X (Recalls \cup Execs \cup Decisions)
    BY <1>0, <1>7 DEF RecordRecallEvent, TypeOK, StoreTypeOK, HoldsWhatItNeeds
  <2> QED BY <1>7, <2>1, TypeReturn DEF RecordRecallEvent, TypeOK, StoreTypeOK, CallTyped
<1>8. ASSUME GetRecalls(c) PROVE TypeOK'
  <2>1. CallTyped'
    <3>1. CASE Commit(c) \/ Reject(c)
      BY <1>0, <1>8, <3>1, TypeVerdict DEF GetRecalls, HoldsWhatItNeeds
    <3>2. CASE ~(Commit(c) \/ Reject(c))
      <4>1. PICK listed \in SUBSET {r \in Recalls : recall[r] # None} :
              call' = [call EXCEPT ![c].pc = "check",
                         ![c].seen = [r \in Recalls |->
                                        IF r \in listed THEN recall[r] ELSE None]]
        BY <1>8, <3>2 DEF GetRecalls
      <4> DEFINE seen == [r \in Recalls |-> IF r \in listed THEN recall[r] ELSE None]
                 k == [now EXCEPT !.pc = "check", !.seen = seen]
      <4>2. seen \in [Recalls -> Recall \cup {None}]
        BY DEF TypeOK, StoreTypeOK
      <4>3. k \in Held
        BY <1>0, <1>8, <4>2 DEF GetRecalls, Call, Held, HoldsWhatItNeeds
      <4>4. call' = [call EXCEPT ![c] = k]
        BY <4>1 DEF TypeOK, StoreTypeOK
      <4> HIDE DEF k
      <4> QED BY <4>3, <4>4, Holding DEF CallTyped
    <3> QED BY <3>1, <3>2
  <2> QED BY <1>8, <2>1 DEF GetRecalls, stored, TypeOK, StoreTypeOK, CallTyped
<1>9. ASSUME NEW i \in call[c].todo, CheckInfluence(c, i) PROVE TypeOK'
  <2>1. CallTyped'
    <3>1. CASE i.counterfactual \in Execs
      <4> DEFINE k == [now EXCEPT !.pc = "compare", !.one = i]
      <4>1. k \in Held
        BY <1>0, <1>9 DEF CheckInfluence, Call, Held, HoldsWhatItNeeds
      <4>2. call' = [call EXCEPT ![c] = k]
        <5>1. call' = [call EXCEPT ![c].pc = "compare", ![c].one = i]
          BY <1>9, <3>1 DEF CheckInfluence
        <5> QED BY <5>1 DEF TypeOK, StoreTypeOK
      <4> HIDE DEF k
      <4> QED BY <4>1, <4>2, Holding DEF CallTyped
    <3>2. CASE i.counterfactual \notin Execs
      BY <1>9, <3>2, TypePassed DEF CheckInfluence
    <3> QED BY <3>1, <3>2
  <2> QED BY <1>9, <2>1 DEF CheckInfluence, stored, TypeOK, StoreTypeOK, CallTyped
<1>10. ASSUME CheckComparison(c) PROVE TypeOK'
  BY <1>10, TypePassed DEF CheckComparison, stored, TypeOK, StoreTypeOK, CallTyped
<1>11. ASSUME RejectInfluence(c) PROVE TypeOK'
  <2>1. CallTyped'
    BY <1>0, <1>11, TypeVerdict DEF RejectInfluence, HoldsWhatItNeeds
  <2> QED BY <1>11, <2>1 DEF RejectInfluence, stored, TypeOK, StoreTypeOK, CallTyped
<1>12. ASSUME RecordRejection(c) PROVE TypeOK'
  <2>1. audit' \subseteq {"RECALL_COMPLETED", "INFLUENCE_REJECTED", "INFLUENCE_ACCEPTED",
                          "DECISION_RECORDED"} \X (Recalls \cup Execs \cup Decisions)
    BY <1>0, <1>12 DEF RecordRejection, TypeOK, StoreTypeOK, HoldsWhatItNeeds
  <2> QED BY <1>12, <2>1, TypeReturn DEF RecordRejection, TypeOK, StoreTypeOK, CallTyped
<1>13. ASSUME RecordRuntimeDecision(c) PROVE TypeOK'
  <2> DEFINE k == [Idle EXCEPT !.id = call[c].id,
                     !.pc = IF call[c].influences = {} THEN "recorded" ELSE "accepted"]
  <2>0. call[c].id \in Decisions
    BY <1>0, <1>13 DEF RecordRuntimeDecision, HoldsWhatItNeeds
  <2>1. k \in Held
    <3>1. k \in Call
      BY <2>0, IdleInCall DEF Call, HoldsWhatItNeeds
    <3> QED BY <2>0, <3>1, IdleInCall DEF Call, Held, HoldsWhatItNeeds
  <2>2. CallTyped'
    BY <1>13, <2>1, Holding DEF RecordRuntimeDecision, CallTyped
  <2>3. [execution |-> call[c].exec, influences |-> call[c].influences] \in Decision
    BY <1>0, <1>13 DEF RecordRuntimeDecision, Call, Decision, HoldsWhatItNeeds
  <2> QED BY <1>13, <2>2, <2>3 DEF RecordRuntimeDecision, TypeOK, StoreTypeOK, CallTyped
<1>14. ASSUME RecordAcceptance(c) PROVE TypeOK'
  <2> DEFINE k == [now EXCEPT !.pc = "recorded"]
  <2>1. k \in Held
    BY <1>0, <1>14 DEF RecordAcceptance, Call, Held, HoldsWhatItNeeds
  <2>2. CallTyped'
    BY <1>14, <2>1, Holding DEF RecordAcceptance, Goto, CallTyped, TypeOK, StoreTypeOK
  <2>3. audit' \subseteq {"RECALL_COMPLETED", "INFLUENCE_REJECTED", "INFLUENCE_ACCEPTED",
                          "DECISION_RECORDED"} \X (Recalls \cup Execs \cup Decisions)
    BY <1>0, <1>14 DEF RecordAcceptance, TypeOK, StoreTypeOK, HoldsWhatItNeeds
  <2> QED BY <1>14, <2>2, <2>3 DEF RecordAcceptance, TypeOK, StoreTypeOK, CallTyped
<1>15. ASSUME RecordDecisionEvent(c) PROVE TypeOK'
  <2>1. audit' \subseteq {"RECALL_COMPLETED", "INFLUENCE_REJECTED", "INFLUENCE_ACCEPTED",
                          "DECISION_RECORDED"} \X (Recalls \cup Execs \cup Decisions)
    BY <1>0, <1>15 DEF RecordDecisionEvent, TypeOK, StoreTypeOK, HoldsWhatItNeeds
  <2> QED BY <1>15, <2>1, TypeReturn DEF RecordDecisionEvent, TypeOK, StoreTypeOK, CallTyped
<1>16. ASSUME Abort(c) PROVE TypeOK'
  BY <1>16, TypeReturn DEF Abort, stored, TypeOK, StoreTypeOK, CallTyped
<1> QED BY <1>1, <1>2, <1>3, <1>4, <1>5, <1>6, <1>7, <1>8, <1>9, <1>10, <1>11,
           <1>12, <1>13, <1>14, <1>15, <1>16 DEF CallerStep

\* Whatever executions, memories and invocations there are, the stores and the
\* callers' locals always hold records of the shapes the schemas declare.
THEOREM TypeCorrect == Spec => []TypeOK
<1>1. TypeOK /\ [Next]_vars => TypeOK'
  <2>1. CASE UNCHANGED vars
    BY <2>1 DEF vars, TypeOK, StoreTypeOK
  <2> QED BY <2>1, TypeEnvironment, TypeCaller DEF Next
<1> QED BY <1>1, TypeInit, PTL DEF Spec

(***************************************************************************)
(* The inductive invariant                                                 *)
(***************************************************************************)
Bound(x) == x \notin {Unlisted, Unbound}

\* What a decision needs of the comparison run its influence names.
Compared(e, i) ==
  /\ i.changedAction => i.counterfactual # None
  /\ i.counterfactual # Unpaired
  /\ i.counterfactual \in Execs =>
       /\ i.counterfactual # e
       /\ execution[i.counterfactual] # None
       /\ execution[i.counterfactual].agent = execution[e].agent
       /\ execution[i.counterfactual].status \in Terminal

Supported(e, i) == \E r \in Recalls : Supports(r, e, i)

\* The record an invocation read at entry differs from the stored one, if at
\* all, in its status: agent, environment and policy are those it started with.
RunsAreCurrent ==
  \A c \in Callers :
    LET k == call[c] IN
    /\ k.pc \in {"search", "list", "filter", "recalls", "check", "compare", "commit"} =>
         k.exec \in known
    /\ k.pc \in {"search", "list", "filter", "recalls", "check", "compare"} =>
         /\ k.run.agent = execution[k.exec].agent
         /\ k.run.env = execution[k.exec].env
         /\ k.run.policy = execution[k.exec].policy

\* A recall being filtered belongs to one invocation, and nothing in it is bound.
FilteringIsExclusive ==
  \A c \in Callers : call[c].pc = "filter" =>
    /\ recall[call[c].retrieval] # None
    /\ recall[call[c].retrieval].execution = call[c].exec
    /\ \A m \in Memories : ~Bound(recall[call[c].retrieval].candidates[m])
    /\ \A d \in Callers \ {c} : call[d].pc = "filter" =>
         call[d].retrieval # call[c].retrieval

\* The candidates in play are the agent's own, and judged ones have their lineage.
CandidatesAreOwn ==
  \A c \in Callers, m \in Memories :
    LET mem == call[c].found[m] IN
    call[c].pc \in {"list", "filter"} /\ mem # None =>
      /\ mem.agent = call[c].run.agent
      /\ call[c].pc = "filter" /\ m \notin call[c].pending =>
           validateMemorySourceLineage(mem, execution)

RecallsAreSound ==
  \A r \in Recalls : recall[r] # None => recall[r].execution \in known

\* The digests recordDecision has read are those still on record.
SeenIsOnRecord ==
  \A c \in Callers, r \in Recalls :
    LET seen == call[c].seen[r] IN
    call[c].pc \in {"check", "compare"} /\ seen # None =>
      /\ recall[r] # None
      /\ recall[r].execution = seen.execution
      /\ \A m \in Memories :
           Bound(seen.candidates[m]) => recall[r].candidates[m] = seen.candidates[m]

\* Every influence an invocation has passed still deserves to.
Settled(c) ==
  LET k == call[c] IN
  /\ k.pc \in {"check", "compare", "commit"} =>
       \A i \in k.influences \ k.todo : Supported(k.exec, i) /\ Compared(k.exec, i)
  /\ k.pc = "recalls" => k.todo = k.influences
  /\ k.pc \in {"check", "compare"} =>
       \A i \in k.influences : i.changedAction => i.counterfactual # None
  /\ k.pc = "compare" =>
       /\ Supported(k.exec, k.one)
       /\ k.one.counterfactual \in Execs \ {k.exec}
  /\ k.pc = "commit" => k.todo = {}

PassedStaysPassed == \A c \in Callers : Settled(c)

DecisionsAreKnown ==
  \A d \in Decisions : decision[d] # None => decision[d].execution \in known

IInv ==
  /\ TypeOK
  /\ RunsAreCurrent /\ FilteringIsExclusive /\ CandidatesAreOwn
  /\ RecallsAreSound /\ SeenIsOnRecord /\ PassedStaysPassed /\ DecisionsAreKnown
  /\ ExposureKeepsAgentsApart /\ DecisionsCiteExposedState /\ ComparisonsAreComplete

\* What every step leaves as it is: what the store does not take back, and the
\* recalls: they stay, and what they bound stays bound.
Evolves ==
  /\ StoreEvolves
  /\ \A r \in Recalls : recall[r] # None =>
       /\ recall'[r] # None
       /\ recall'[r].execution = recall[r].execution
       /\ \A m \in Memories : Bound(recall[r].candidates[m]) =>
            recall'[r].candidates[m] = recall[r].candidates[m]

LEMMA EnvironmentEvolves == ASSUME TypeOK, Environment PROVE Evolves
<1>1. StoreEvolves
  BY StoreStepEvolves DEF TypeOK, Environment
<1> QED BY <1>1 DEF Environment, Evolves

LEMMA CallerEvolves ==
  ASSUME TypeOK, FilteringIsExclusive, NEW c \in Callers, CallerStep(c) PROVE Evolves
<1>1. ASSUME UNCHANGED <<execution, known, recall>> PROVE Evolves
  BY <1>1 DEF Evolves, StoreEvolves
<1>2. ASSUME PutRecall(c) PROVE Evolves
  <2>1. PICK r \in Recalls :
          /\ recall[r] = None
          /\ \E new : recall' = [recall EXCEPT ![r] = new]
    BY <1>2 DEF PutRecall
  <2>2. \A q \in Recalls : recall[q] # None => recall'[q] = recall[q]
    BY <2>1 DEF TypeOK, StoreTypeOK
  <2> QED BY <1>2, <2>2 DEF PutRecall, Evolves, StoreEvolves
<1>3. ASSUME UpdateRecallExposure(c) PROVE Evolves
  <2> DEFINE q == call[c].retrieval
             x == [m \in Memories |->
                     IF call[c].found[m] = None THEN Unlisted ELSE call[c].found[m]]
  <2>1. q \in Recalls /\ \A m \in Memories : ~Bound(recall[q].candidates[m])
    BY <1>3 DEF UpdateRecallExposure, FilteringIsExclusive, TypeOK, StoreTypeOK, HoldsWhatItNeeds
  <2>2. recall' = [recall EXCEPT ![q] = [recall[q] EXCEPT !.candidates = x]]
    BY <1>3, <2>1 DEF UpdateRecallExposure, TypeOK, StoreTypeOK
  <2>3. recall[q] \in Recall
    <3> HIDE DEF q, x
    <3>1. recall[q] # None
      BY <1>3 DEF UpdateRecallExposure, q
    <3> QED BY <2>1, <3>1 DEF TypeOK, StoreTypeOK
  <2> HIDE DEF q, x
  <2>4. recall'[q].execution = recall[q].execution /\ recall'[q] # None
    <3>1. x \in [Memories -> Exposure]
      BY <1>3 DEF UpdateRecallExposure, TypeOK, StoreTypeOK, Call, Exposure, x
    <3>2. /\ [recall[q] EXCEPT !.candidates = x] \in Recall
          /\ [recall[q] EXCEPT !.candidates = x].execution = recall[q].execution
      BY <2>3, <3>1 DEF Recall
    <3> QED BY <2>1, <2>2, <3>2, RecallDecisionAssumption DEF TypeOK, StoreTypeOK
  <2>5. \A r \in Recalls \ {q} : recall'[r] = recall[r]
    BY <2>2 DEF TypeOK, StoreTypeOK
  <2>6. UNCHANGED <<execution, known>>
    BY <1>3 DEF UpdateRecallExposure
  <2> QED BY <2>1, <2>4, <2>5, <2>6 DEF Evolves, StoreEvolves
<1> QED BY <1>1, <1>2, <1>3 DEF CallerStep, StartRecall, SearchMemory, JudgeCandidate,
     RecordRecallEvent, StartDecision, GetRecalls, CheckInfluence, CheckComparison,
     RejectInfluence, RecordRejection, RecordRuntimeDecision, RecordAcceptance,
     RecordDecisionEvent, Abort, stored

LEMMA StepEvolves == ASSUME TypeOK, FilteringIsExclusive, [Next]_vars PROVE Evolves
<1>1. CASE UNCHANGED vars
  BY <1>1 DEF vars, Evolves, StoreEvolves
<1> QED BY <1>1, EnvironmentEvolves, CallerEvolves DEF Next

LEMMA SupportLasts ==
  ASSUME TypeOK, Evolves, NEW e \in known, NEW i \in Influence, Supported(e, i)
  PROVE  Supported(e, i)'
<1>1. PICK r \in Recalls : Supports(r, e, i)
  BY DEF Supported
<1>2. e \in Execs /\ execution[e] # None /\ i.memory \in Memories
  BY DEF TypeOK, StoreTypeOK, Influence
<1>3. recall'[r].candidates[i.memory] = recall[r].candidates[i.memory]
  BY <1>1, <1>2 DEF Evolves, StoreEvolves, Supports, Bound
<1>4. Supports(r, e, i)'
  BY <1>1, <1>2, <1>3 DEF Evolves, StoreEvolves, Supports, StrongEnough, EnvironmentMatches
<1> QED BY <1>4 DEF Supported

LEMMA ComparisonLasts ==
  ASSUME TypeOK, Evolves, NEW e \in known, NEW i \in Influence, Compared(e, i)
  PROVE  Compared(e, i)'
<1>1. e \in Execs /\ execution[e] # None
  BY DEF TypeOK, StoreTypeOK
<1> QED BY <1>1 DEF Evolves, StoreEvolves, Compared

LEMMA LineageLasts ==
  ASSUME Evolves, NEW mem \in Memory, validateMemorySourceLineage(mem, execution)
  PROVE  validateMemorySourceLineage(mem, execution')
BY DEF Evolves, StoreEvolves, validateMemorySourceLineage, Memory

(***************************************************************************)
(* What one step does to the invocations' locals                           *)
(***************************************************************************)
\* Pcs at which an invocation still relies on the execution it works for.
Working == {"search", "list", "filter", "recalls", "check", "compare", "commit"}

\* The invocation has just read its execution, goes on with it, or is past caring.
Progress(c) ==
  \/ call'[c].pc \notin Working
  \/ /\ call'[c].pc \in {"search", "recalls"}
     /\ call'[c].exec \in known /\ call'[c].run = execution[call'[c].exec]
  \/ /\ call[c].pc \in Working \ {"commit"} /\ call'[c].exec = call[c].exec
     /\ call'[c].pc = "commit" \/ call'[c].run = call[c].run

LEMMA SetCall ==
  ASSUME TypeOK, NEW c \in Callers, NEW k, call' = [call EXCEPT ![c] = k]
  PROVE  call'[c] = k /\ \A d \in Callers \ {c} : call'[d] = call[d]
BY DEF TypeOK, StoreTypeOK

LEMMA VerdictProgress ==
  ASSUME TypeOK, NEW c \in Callers, call[c].pc \in {"recalls", "check", "compare"},
         Commit(c) \/ Reject(c)
  PROVE  Progress(c)
<1>1. CASE Commit(c)
  <2> DEFINE k == [Idle EXCEPT !.pc = "commit", !.exec = call[c].exec,
                               !.id = call[c].id, !.influences = call[c].influences]
  <2>1. call'[c] = k
    BY <1>1, SetCall DEF Commit
  <2>2. k.pc = "commit" /\ k.exec = call[c].exec
    BY IdleInCall DEF Call
  <2> QED BY <2>1, <2>2 DEF Progress, Working
<1>2. CASE Reject(c)
  <2> DEFINE k == [Idle EXCEPT !.pc = "rejected", !.exec = call[c].exec]
  <2>1. call'[c] = k
    BY <1>2, SetCall DEF Reject
  <2>2. k.pc = "rejected"
    BY IdleInCall DEF Call
  <2> QED BY <2>1, <2>2 DEF Progress, Working
<1> QED BY <1>1, <1>2

\* Only the stepping invocation's locals change.
LEMMA OthersKeepCalls ==
  ASSUME TypeOK, NEW c \in Callers, CallerStep(c), NEW d \in Callers \ {c}
  PROVE  call'[d] = call[d]
<1>1. ASSUME NEW k, call' = [call EXCEPT ![c] = k] PROVE call'[d] = call[d]
  BY <1>1, SetCall
<1> QED BY <1>1 DEF TypeOK, StoreTypeOK, CallerStep, StartRecall, StartDecision, SearchMemory, PutRecall,
     JudgeCandidate, UpdateRecallExposure, RecordRecallEvent, GetRecalls, Commit, Reject,
     Passed, CheckInfluence, CheckComparison, RejectInfluence, RecordRejection,
     RecordRuntimeDecision, RecordAcceptance, RecordDecisionEvent, Abort, Return, Goto

LEMMA CallerProgress ==
  ASSUME TypeOK, NEW c \in Callers, CallerStep(c) PROVE Progress(c)
<1>0. Idle \in Call /\ call \in [Callers -> Call] /\ call[c] \in Call
  BY IdleInCall DEF TypeOK, StoreTypeOK
<1>1. ASSUME NEW e \in Execs, StartRecall(c, e)
      PROVE  Progress(c)
  BY <1>0, <1>1 DEF StartRecall, requireRunning, Progress, Working, Call
<1>2. ASSUME NEW e \in Execs, NEW d \in Decisions, NEW I \in InfluenceInputs,
             StartDecision(c, e, d, I)
      PROVE  Progress(c)
  BY <1>0, <1>2 DEF StartDecision, requireRunning, Progress, Working, Call
<1>3. ASSUME SearchMemory(c)
      PROVE  Progress(c)
  BY <1>0, <1>3 DEF SearchMemory, Progress, Working, Call
<1>4. ASSUME PutRecall(c)
      PROVE  Progress(c)
  BY <1>0, <1>4 DEF PutRecall, Progress, Working, Call
<1>5. ASSUME NEW m \in Memories, JudgeCandidate(c, m)
      PROVE  Progress(c)
  BY <1>0, <1>5 DEF JudgeCandidate, Progress, Working, Call
<1>6. ASSUME UpdateRecallExposure(c)
      PROVE  Progress(c)
  BY <1>0, <1>6 DEF UpdateRecallExposure, Progress, Working, Call
<1>7. ASSUME RecordRecallEvent(c) \/ RecordRejection(c) \/ RecordDecisionEvent(c) \/ Abort(c)
      PROVE  Progress(c)
  BY <1>0, <1>7 DEF RecordRecallEvent, RecordRejection, RecordDecisionEvent, Abort, Return, Progress, Working, Call
<1>8. ASSUME RecordRuntimeDecision(c)
      PROVE  Progress(c)
  BY <1>0, <1>8 DEF RecordRuntimeDecision, Progress, Working, Call
<1>9. ASSUME RecordAcceptance(c)
      PROVE  Progress(c)
  BY <1>0, <1>9 DEF RecordAcceptance, Goto, Progress, Working, Call
<1>10. ASSUME GetRecalls(c) PROVE Progress(c)
  <2>1. CASE Commit(c) \/ Reject(c)
    BY <1>10, <2>1, VerdictProgress DEF GetRecalls
  <2>2. CASE ~(Commit(c) \/ Reject(c))
    BY <1>0, <1>10, <2>2 DEF GetRecalls, Progress, Working, Call
  <2> QED BY <2>1, <2>2
<1>11. ASSUME NEW i, call[c].pc \in {"check", "compare"}, Passed(c, i) PROVE Progress(c)
  <2>1. CASE call[c].todo = {i}
    BY <1>11, <2>1, VerdictProgress DEF Passed
  <2>2. CASE call[c].todo # {i}
    BY <1>0, <1>11, <2>2 DEF Passed, Progress, Working, Call
  <2> QED BY <2>1, <2>2
<1>12. ASSUME NEW i \in call[c].todo, CheckInfluence(c, i) PROVE Progress(c)
  <2>1. CASE i.counterfactual \in Execs
    BY <1>0, <1>12, <2>1 DEF CheckInfluence, Progress, Working, Call
  <2>2. CASE i.counterfactual \notin Execs
    BY <1>11, <1>12, <2>2 DEF CheckInfluence
  <2> QED BY <2>1, <2>2
<1>13. ASSUME CheckComparison(c) \/ RejectInfluence(c) PROVE Progress(c)
  BY <1>11, <1>13, VerdictProgress DEF CheckComparison, RejectInfluence
<1> QED BY <1>1, <1>2, <1>3, <1>4, <1>5, <1>6, <1>7, <1>8, <1>9, <1>10,
           <1>12, <1>13 DEF CallerStep

LEMMA EnvironmentKeepsCalls == ASSUME Environment PROVE call' = call
BY DEF Environment

LEMMA RunsStep ==
  ASSUME IInv, [Next]_vars PROVE RunsAreCurrent'
<1>1. Evolves
  BY StepEvolves DEF IInv
<1>2. ASSUME NEW c \in Callers, call'[c] = call[c] PROVE RunsAreCurrent!(c)'
  BY <1>1, <1>2 DEF IInv, TypeOK, StoreTypeOK, RunsAreCurrent, Evolves, StoreEvolves
<1>3. ASSUME NEW c \in Callers, Progress(c) PROVE RunsAreCurrent!(c)'
  BY <1>1, <1>3 DEF IInv, TypeOK, StoreTypeOK, RunsAreCurrent, Evolves, StoreEvolves, Progress, Working
<1>4. CASE UNCHANGED vars
  BY <1>4, <1>2 DEF vars, RunsAreCurrent
<1>5. CASE Environment
  BY <1>5, <1>2, EnvironmentKeepsCalls DEF RunsAreCurrent
<1>6. ASSUME NEW c \in Callers, CallerStep(c) PROVE RunsAreCurrent'
  BY <1>6, <1>2, <1>3, CallerProgress, OthersKeepCalls DEF IInv, RunsAreCurrent
<1> QED BY <1>4, <1>5, <1>6 DEF Next

\* The only two ways a step writes recalls: a fresh one without digests, or the
\* stepping invocation's own.
LEMMA RecallWrites ==
  ASSUME TypeOK, [Next]_vars, recall' # recall
  PROVE  \E c \in Callers : PutRecall(c) \/ UpdateRecallExposure(c)
BY DEF Next, vars, Environment, CallerStep, StartRecall,
     StartDecision, SearchMemory, JudgeCandidate, RecordRecallEvent, GetRecalls,
     CheckInfluence, CheckComparison, RejectInfluence, RecordRejection,
     RecordRuntimeDecision, RecordAcceptance, RecordDecisionEvent, Abort, stored

LEMMA FreshRecall ==
  ASSUME TypeOK, NEW c \in Callers, PutRecall(c)
  PROVE  \E r \in Recalls :
           /\ recall[r] = None
           /\ recall'[r] # None /\ recall'[r].execution = call[c].exec
           /\ \A m \in Memories : ~Bound(recall'[r].candidates[m])
           /\ \A q \in Recalls \ {r} : recall'[q] = recall[q]
           /\ call'[c].pc = "filter" /\ call'[c].retrieval = r
           /\ call'[c].exec = call[c].exec /\ call'[c].found = call[c].found
           /\ call'[c].run = call[c].run
           /\ call'[c].pending = {m \in Memories : call[c].found[m] # None}
<1> DEFINE listed == [m \in Memories |->
                        IF call[c].found[m] = None THEN Unlisted ELSE Unbound]
<1>1. PICK r \in Recalls :
        /\ recall[r] = None
        /\ recall' = [recall EXCEPT ![r] =
                        [execution |-> call[c].exec, candidates |-> listed]]
        /\ call' = [call EXCEPT ![c].pc = "filter", ![c].retrieval = r,
                      ![c].pending = {m \in Memories : call[c].found[m] # None}]
  BY DEF PutRecall
<1>2. call[c] \in Call /\ call \in [Callers -> Call]
  BY DEF TypeOK, StoreTypeOK
<1>3. /\ call'[c].pc = "filter" /\ call'[c].retrieval = r
      /\ call'[c].exec = call[c].exec /\ call'[c].found = call[c].found
      /\ call'[c].run = call[c].run
      /\ call'[c].pending = {m \in Memories : call[c].found[m] # None}
  BY <1>1, <1>2 DEF Call
<1>4. /\ recall'[r] = [execution |-> call[c].exec, candidates |-> listed]
      /\ \A q \in Recalls \ {r} : recall'[q] = recall[q]
  BY <1>1 DEF TypeOK, StoreTypeOK
<1>5. \A m \in Memories : ~Bound(listed[m])
  BY DEF Bound
<1>6. [execution |-> call[c].exec, candidates |-> listed] \in Recall
  <2>1. listed \in [Memories -> Exposure]
    BY DEF Exposure
  <2>2. call[c].exec \in Execs
    BY DEF PutRecall, TypeOK, StoreTypeOK, HoldsWhatItNeeds
  <2> QED BY <2>1, <2>2 DEF Recall
<1> HIDE DEF listed
<1>7. recall'[r] # None /\ recall'[r].execution = call[c].exec
      /\ recall'[r].candidates = listed
  BY <1>4, <1>6, RecallDecisionAssumption
<1> QED BY <1>1, <1>3, <1>4, <1>5, <1>7

LEMMA OwnExposure ==
  ASSUME TypeOK, NEW c \in Callers, UpdateRecallExposure(c)
  PROVE  /\ call[c].retrieval \in Recalls /\ recall[call[c].retrieval] # None
         /\ \A q \in Recalls \ {call[c].retrieval} : recall'[q] = recall[q]
         /\ \A m \in Memories : recall'[call[c].retrieval].candidates[m] =
              IF call[c].found[m] = None THEN Unlisted ELSE call[c].found[m]
         /\ recall'[call[c].retrieval].execution = recall[call[c].retrieval].execution
<1> DEFINE q == call[c].retrieval
           x == [m \in Memories |->
                   IF call[c].found[m] = None THEN Unlisted ELSE call[c].found[m]]
<1>1. recall' = [recall EXCEPT ![q].candidates = x]
  BY DEF UpdateRecallExposure
<1>2. q \in Recalls
  BY DEF UpdateRecallExposure, TypeOK, StoreTypeOK, HoldsWhatItNeeds
<1>3. recall[q] # None
  BY DEF UpdateRecallExposure
<1>4. recall \in [Recalls -> Recall \cup {None}]
  BY DEF TypeOK, StoreTypeOK
<1>5. \A m \in Memories : x[m] =
        IF call[c].found[m] = None THEN Unlisted ELSE call[c].found[m]
  OBVIOUS
<1> HIDE DEF q, x
<1>6. recall[q] \in Recall
  BY <1>2, <1>3, <1>4
<1>7. recall'[q] = [recall[q] EXCEPT !.candidates = x]
  BY <1>1, <1>2, <1>4
<1>8. recall'[q].candidates = x /\ recall'[q].execution = recall[q].execution
  BY <1>6, <1>7 DEF Recall
<1>9. \A r \in Recalls \ {q} : recall'[r] = recall[r]
  BY <1>1, <1>2, <1>4
<1> QED BY <1>2, <1>3, <1>5, <1>8, <1>9 DEF q

(***************************************************************************)
(* Each part of the invariant is preserved                                 *)
(***************************************************************************)
LEMMA RecallsStep == ASSUME IInv, [Next]_vars PROVE RecallsAreSound'
<1>1. Evolves
  BY StepEvolves DEF IInv
<1>2. CASE recall' = recall
  BY <1>1, <1>2 DEF IInv, RecallsAreSound, Evolves, StoreEvolves
<1>3. ASSUME NEW c \in Callers, PutRecall(c) PROVE RecallsAreSound'
  <2>1. call[c].exec \in known
    BY <1>3 DEF PutRecall, IInv, RunsAreCurrent
  <2> QED BY <1>1, <1>3, <2>1, FreshRecall DEF IInv, RecallsAreSound, Evolves, StoreEvolves
<1>4. ASSUME NEW c \in Callers, UpdateRecallExposure(c) PROVE RecallsAreSound'
  BY <1>1, <1>4, OwnExposure DEF IInv, RecallsAreSound, Evolves, StoreEvolves
<1> QED BY <1>2, <1>3, <1>4, RecallWrites DEF IInv

\* Which actions an invocation's pc after the step leaves possible.
LEMMA StepTo ==
  ASSUME TypeOK, NEW c \in Callers, CallerStep(c)
  PROVE  /\ call'[c].pc = "list" => SearchMemory(c)
         /\ call'[c].pc = "filter" =>
              PutRecall(c) \/ \E m \in Memories : JudgeCandidate(c, m)
         /\ call'[c].pc = "recalls" =>
              \E e \in Execs, d \in Decisions, I \in InfluenceInputs : StartDecision(c, e, d, I)
         /\ call'[c].pc \in {"check", "compare"} =>
              \/ GetRecalls(c) \/ CheckComparison(c)
              \/ \E i \in call[c].todo : CheckInfluence(c, i)
         /\ call'[c].pc = "commit" =>
              \/ GetRecalls(c) \/ CheckComparison(c)
              \/ \E i \in call[c].todo : CheckInfluence(c, i)
<1>0. Idle \in Call /\ call \in [Callers -> Call] /\ call[c] \in Call
  BY IdleInCall DEF TypeOK, StoreTypeOK
<1>1. ASSUME NEW m \in Memories, JudgeCandidate(c, m) PROVE call'[c].pc = "filter"
  BY <1>0, <1>1 DEF JudgeCandidate, Call
<1>2. ASSUME NEW e \in Execs, StartRecall(c, e) PROVE call'[c].pc = "search"
  BY <1>0, <1>2 DEF StartRecall, Call
<1>3. ASSUME NEW e \in Execs, NEW d \in Decisions, NEW I \in InfluenceInputs,
             StartDecision(c, e, d, I)
      PROVE  call'[c].pc = "recalls"
  BY <1>0, <1>3 DEF StartDecision, Call
<1>4. ASSUME SearchMemory(c) PROVE call'[c].pc = "list"
  BY <1>0, <1>4 DEF SearchMemory, Call
<1>5. ASSUME PutRecall(c) PROVE call'[c].pc = "filter"
  BY <1>5, FreshRecall
<1>6. ASSUME UpdateRecallExposure(c) PROVE call'[c].pc = "exposed"
  BY <1>0, <1>6 DEF UpdateRecallExposure, Call
<1>7. ASSUME RecordRuntimeDecision(c) PROVE call'[c].pc \in {"accepted", "recorded"}
  BY <1>0, <1>7 DEF RecordRuntimeDecision, Call
<1>8. ASSUME RecordAcceptance(c) PROVE call'[c].pc = "recorded"
  BY <1>0, <1>8 DEF RecordAcceptance, Goto, Call
<1>9. ASSUME Return(c) PROVE call'[c].pc = "done"
  BY <1>0, <1>9 DEF Return, Call
<1>10. ASSUME Reject(c) PROVE call'[c].pc = "rejected"
  BY <1>0, <1>10 DEF Reject, Call
<1>11. ASSUME Commit(c) PROVE call'[c].pc = "commit"
  BY <1>0, <1>11 DEF Commit, Call
<1>12. ASSUME GetRecalls(c) PROVE call'[c].pc \in {"check", "commit", "rejected"}
  <2>1. CASE \E seen : call' = [call EXCEPT ![c].pc = "check", ![c].seen = seen]
    BY <1>0, <2>1 DEF Call
  <2> QED BY <1>10, <1>11, <1>12, <2>1 DEF GetRecalls
<1>13. ASSUME NEW i, Passed(c, i) PROVE call'[c].pc \in {"check", "commit"}
  BY <1>0, <1>11, <1>13 DEF Passed, Call
<1>14. ASSUME NEW i \in call[c].todo, CheckInfluence(c, i)
       PROVE  call'[c].pc \in {"check", "compare", "commit"}
  BY <1>0, <1>13, <1>14 DEF CheckInfluence, Call
<1>15. ASSUME \/ RecordRecallEvent(c) \/ RecordRejection(c)
              \/ RecordDecisionEvent(c) \/ Abort(c)
       PROVE  call'[c].pc = "done"
  BY <1>9, <1>15 DEF RecordRecallEvent, RecordRejection, RecordDecisionEvent, Abort
<1>16. ASSUME CheckComparison(c) PROVE call'[c].pc \in {"check", "commit"}
  BY <1>13, <1>16 DEF CheckComparison
<1>17. ASSUME RejectInfluence(c) PROVE call'[c].pc = "rejected"
  BY <1>10, <1>17 DEF RejectInfluence
<1> QED BY <1>1, <1>2, <1>3, <1>4, <1>5, <1>6, <1>7, <1>8, <1>12, <1>14, <1>15, <1>16,
           <1>17 DEF CallerStep

LEMMA StillFiltering ==
  ASSUME TypeOK, NEW c \in Callers, CallerStep(c), call'[c].pc = "filter", ~PutRecall(c)
  PROVE  /\ call[c].pc = "filter" /\ call'[c].retrieval = call[c].retrieval
         /\ call'[c].exec = call[c].exec /\ recall' = recall
<1>0. call \in [Callers -> Call] /\ call[c] \in Call
  BY DEF TypeOK, StoreTypeOK
<1>1. PICK m \in Memories : JudgeCandidate(c, m)
  BY StepTo
<1> QED BY <1>0, <1>1 DEF JudgeCandidate, stored, Call

LEMMA FilteringStep == ASSUME IInv, [Next]_vars PROVE FilteringIsExclusive'
<1>0. TypeOK /\ FilteringIsExclusive
  BY DEF IInv
<1>1. CASE UNCHANGED vars
  BY <1>0, <1>1 DEF vars, FilteringIsExclusive
<1>2. CASE Environment
  <2>1. recall' = recall /\ call' = call
    BY <1>2, EnvironmentKeepsCalls DEF Environment
  <2> QED BY <1>0, <2>1 DEF FilteringIsExclusive
<1>3. ASSUME NEW c \in Callers, CallerStep(c) PROVE FilteringIsExclusive'
  <2>1. \A d \in Callers \ {c} : call'[d] = call[d]
    BY <1>0, <1>3, OthersKeepCalls
  <2>2. CASE PutRecall(c)
    <3>1. PICK r \in Recalls :
            /\ recall[r] = None
            /\ recall'[r] # None /\ recall'[r].execution = call[c].exec
            /\ \A m \in Memories : ~Bound(recall'[r].candidates[m])
            /\ \A q \in Recalls \ {r} : recall'[q] = recall[q]
            /\ call'[c].retrieval = r /\ call'[c].exec = call[c].exec
      BY <1>0, <2>2, FreshRecall
    <3>2. \A d \in Callers \ {c} : call[d].pc = "filter" =>
            call[d].retrieval \in Recalls \ {r}
      BY <1>0, <3>1 DEF FilteringIsExclusive, TypeOK, StoreTypeOK, HoldsWhatItNeeds
    <3> QED BY <1>0, <2>1, <3>1, <3>2 DEF FilteringIsExclusive
  <2>3. CASE UpdateRecallExposure(c)
    <3>1. call'[c].pc # "filter"
      BY <1>0, <2>3, IdleInCall DEF UpdateRecallExposure, TypeOK, StoreTypeOK, Call
    <3>2. call[c].pc = "filter"
      BY <2>3 DEF UpdateRecallExposure
    <3> QED BY <1>0, <2>1, <2>3, <3>1, <3>2, OwnExposure
            DEF FilteringIsExclusive, TypeOK, StoreTypeOK, HoldsWhatItNeeds
  <2>4. CASE recall' = recall /\ ~PutRecall(c)
    <3>1. \A d \in Callers : call'[d].pc = "filter" =>
            /\ call[d].pc = "filter" /\ call'[d].retrieval = call[d].retrieval
            /\ call'[d].exec = call[d].exec
      BY <1>0, <1>3, <2>1, <2>4, StillFiltering
    <3> QED BY <1>0, <2>4, <3>1 DEF FilteringIsExclusive
  <2>5. recall' = recall \/ PutRecall(c) \/ UpdateRecallExposure(c)
    BY <1>3 DEF CallerStep, StartRecall, StartDecision, SearchMemory, JudgeCandidate,
       RecordRecallEvent, GetRecalls, CheckInfluence, CheckComparison, RejectInfluence,
       RecordRejection, RecordRuntimeDecision, RecordAcceptance, RecordDecisionEvent,
       Abort, stored
  <2> QED BY <2>2, <2>3, <2>4, <2>5
<1> QED BY <1>1, <1>2, <1>3 DEF Next

\* Whichever invocation steps, the locals of the others and, in an environment
\* step or a stutter, of all of them are as they were.
LEMMA OneMoves ==
  ASSUME TypeOK, [Next]_vars
  PROVE  \/ call' = call
         \/ \E c \in Callers : /\ CallerStep(c)
                              /\ \A d \in Callers \ {c} : call'[d] = call[d]
BY EnvironmentKeepsCalls, OthersKeepCalls DEF Next, vars

LEMMA CandidatesStep == ASSUME IInv, [Next]_vars PROVE CandidatesAreOwn'
<1>0. TypeOK /\ Evolves
  BY StepEvolves DEF IInv
<1> DEFINE Own(d, m) ==
      LET mem == call[d].found[m] IN
      call[d].pc \in {"list", "filter"} /\ mem # None =>
        /\ mem.agent = call[d].run.agent
        /\ call[d].pc = "filter" /\ m \notin call[d].pending =>
             validateMemorySourceLineage(mem, execution)
<1>1. ASSUME NEW d \in Callers, NEW m \in Memories, call'[d] = call[d] PROVE Own(d, m)'
  <2>1. call[d].found[m] \in Memory \cup {None}
    BY <1>0 DEF TypeOK, StoreTypeOK, Call
  <2> QED BY <1>0, <1>1, <2>1, LineageLasts DEF IInv, CandidatesAreOwn
<1>2. ASSUME NEW c \in Callers, CallerStep(c), NEW m \in Memories PROVE Own(c, m)'
  <2>0. /\ Idle \in Call /\ call \in [Callers -> Call] /\ call[c] \in Call
        /\ memory \in [Memories -> Memory \cup {None}]
    BY <1>0, IdleInCall, RuntimeStoreAssumption DEF TypeOK, StoreTypeOK
  <2>1. CASE SearchMemory(c)
    BY <2>0, <2>1 DEF SearchMemory, Call
  <2>2. CASE PutRecall(c)
    <3>1. /\ call'[c].pc = "filter" /\ call'[c].found = call[c].found
          /\ call'[c].run = call[c].run
          /\ call'[c].pending = {n \in Memories : call[c].found[n] # None}
      BY <1>0, <2>2, FreshRecall
    <3>2. call[c].pc = "list"
      BY <2>2 DEF PutRecall
    <3>3. call[c].found[m] # None => call[c].found[m].agent = call[c].run.agent
      BY <3>2 DEF IInv, CandidatesAreOwn
    <3> QED BY <3>1, <3>3
  <2>3. ASSUME NEW n \in Memories, JudgeCandidate(c, n) PROVE Own(c, m)'
    <3>1. PICK verdict \in {None, call[c].found[n]} :
            /\ verdict # None => Exposable(verdict, call[c].run)
            /\ call' = [call EXCEPT ![c].found[n] = verdict, ![c].pending = @ \ {n}]
      BY <2>3 DEF JudgeCandidate
    <3>2. /\ call'[c].pc = call[c].pc /\ call'[c].run = call[c].run
          /\ call'[c].pending = call[c].pending \ {n}
          /\ call'[c].found = [call[c].found EXCEPT ![n] = verdict]
      BY <2>0, <3>1 DEF Call
    <3>3. call[c].found \in [Memories -> Memory \cup {None}] /\ execution' = execution
          /\ call[c].pc = "filter"
      BY <2>0, <2>3 DEF Call, JudgeCandidate, stored
    <3>4. CASE m = n
      BY <3>1, <3>2, <3>3, <3>4 DEF Exposable
    <3>5. CASE m # n
      BY <3>2, <3>3, <3>5 DEF IInv, CandidatesAreOwn
    <3> QED BY <3>4, <3>5
  <2>4. CASE call'[c].pc \notin {"list", "filter"}
    BY <2>4
  <2> QED BY <1>0, <1>2, <2>1, <2>2, <2>3, <2>4, StepTo
<1> QED BY <1>0, <1>1, <1>2, OneMoves DEF CandidatesAreOwn

LEMMA SeenStep == ASSUME IInv, [Next]_vars PROVE SeenIsOnRecord'
<1>0. TypeOK /\ Evolves
  BY StepEvolves DEF IInv
<1> DEFINE Fresh(d, r) ==
      LET seen == call[d].seen[r] IN
      call[d].pc \in {"check", "compare"} /\ seen # None =>
        /\ recall[r] # None
        /\ recall[r].execution = seen.execution
        /\ \A m \in Memories :
             Bound(seen.candidates[m]) => recall[r].candidates[m] = seen.candidates[m]
<1>1. ASSUME NEW d \in Callers, NEW r \in Recalls, call'[d].seen = call[d].seen,
             call[d].pc \in {"check", "compare"}
      PROVE  Fresh(d, r)'
  BY <1>0, <1>1 DEF IInv, SeenIsOnRecord, Evolves, StoreEvolves
<1>2. ASSUME NEW d \in Callers, NEW r \in Recalls, call'[d] = call[d] PROVE Fresh(d, r)'
  BY <1>1, <1>2
<1>3. ASSUME NEW c \in Callers, CallerStep(c), NEW r \in Recalls PROVE Fresh(c, r)'
  <2>0. call \in [Callers -> Call] /\ call[c] \in Call
    BY <1>0 DEF TypeOK, StoreTypeOK
  <2>1. CASE call'[c].pc \notin {"check", "compare"}
    BY <2>1
  <2>2. CASE GetRecalls(c) /\ call'[c].pc \in {"check", "compare"}
    <3>1. ~Commit(c) /\ ~Reject(c)
      <4>2. ASSUME Commit(c) PROVE FALSE
        BY <2>0, <2>2, <4>2, IdleInCall DEF Commit, Call
      <4>3. ASSUME Reject(c) PROVE FALSE
        BY <2>0, <2>2, <4>3, IdleInCall DEF Reject, Call
      <4> QED BY <4>2, <4>3
    <3>2. PICK listed \in SUBSET {q \in Recalls : recall[q] # None} :
            call' = [call EXCEPT ![c].pc = "check",
                       ![c].seen = [q \in Recalls |->
                                      IF q \in listed THEN recall[q] ELSE None]]
      BY <2>2, <3>1 DEF GetRecalls
    <3>3. call'[c].seen[r] = IF r \in listed THEN recall[r] ELSE None
      BY <2>0, <3>2 DEF Call
    <3>4. recall' = recall
      BY <2>2 DEF GetRecalls, stored
    <3> QED BY <3>3, <3>4
  <2>3. ASSUME NEW i \in call[c].todo, CheckInfluence(c, i),
               call'[c].pc \in {"check", "compare"}
        PROVE  Fresh(c, r)'
    <3>1. ASSUME Commit(c) PROVE FALSE
      BY <2>0, <2>3, <3>1, IdleInCall DEF Commit, Call
    <3>2. call'[c].seen = call[c].seen
      BY <2>0, <2>3, <3>1 DEF CheckInfluence, Passed, Call
    <3> QED BY <1>1, <2>3, <3>2 DEF CheckInfluence
  <2>4. CASE CheckComparison(c) /\ call'[c].pc \in {"check", "compare"}
    <3>1. ASSUME Commit(c) PROVE FALSE
      BY <2>0, <2>4, <3>1, IdleInCall DEF Commit, Call
    <3>2. call'[c].seen = call[c].seen
      BY <2>0, <2>4, <3>1 DEF CheckComparison, Passed, Call
    <3> QED BY <1>1, <2>4, <3>2 DEF CheckComparison
  <2> QED BY <1>0, <1>3, <2>1, <2>2, <2>3, <2>4, StepTo
<1> QED BY <1>0, <1>2, <1>3, OneMoves DEF SeenIsOnRecord

\* The heart of the matter: an influence that passes the checks is supported by an
\* exposure on record, although the checks read it from a snapshot.
LEMMA CheckedIsSupported ==
  ASSUME IInv, NEW c \in Callers, NEW i \in call[c].todo, CheckInfluence(c, i)
  PROVE  Supported(call[c].exec, i)
<1> DEFINE k == call[c]
           mem == memory[i.memory]
<1>1. k \in Call /\ i \in Influence /\ k.pc = "check"
  BY DEF IInv, TypeOK, StoreTypeOK, Call, CheckInfluence
<1>2. /\ mem \in Memory /\ mem.agent = k.run.agent /\ StrongEnough(mem, k.run)
      /\ EnvironmentMatches(mem, k.run)
      /\ validateRecalledMemoryState(mem, i, k.exec, k.seen)
  <2>1. i.memory \in Memories
    BY <1>1 DEF Influence
  <2>2. mem \in MemoryInputs \cup {None}
    BY <2>1 DEF IInv, TypeOK, StoreTypeOK
  <2> QED BY <2>2, RuntimeStoreAssumption DEF CheckInfluence, EligibleToInfluence,
          evaluateInfluenceMemory, evaluateRecallCandidate
<1>3. PICK r \in Recalls :
        /\ k.seen[r] # None /\ k.seen[r].execution = k.exec
        /\ i.retrieval # None => r = i.retrieval
        /\ k.seen[r].candidates[i.memory] = mem
  BY <1>2 DEF validateRecalledMemoryState, Listing
<1>4. /\ recall[r] # None /\ recall[r].execution = k.exec
      /\ recall[r].candidates[i.memory] = mem /\ Bound(mem)
  <2>1. Bound(mem)
    BY <1>2, RecallDecisionAssumption DEF Bound
  <2>2. i.memory \in Memories
    BY <1>1 DEF Influence
  <2> QED BY <1>1, <1>3, <2>1, <2>2 DEF IInv, SeenIsOnRecord
<1>5. /\ k.run.agent = execution[k.exec].agent /\ k.run.env = execution[k.exec].env
      /\ k.run.policy = execution[k.exec].policy
  BY <1>1 DEF IInv, RunsAreCurrent
<1>6. Supports(r, k.exec, i)
  BY <1>2, <1>3, <1>4, <1>5 DEF Supports, StrongEnough, EnvironmentMatches, Bound
<1> QED BY <1>6 DEF Supported

LEMMA CommitKeeps ==
  ASSUME TypeOK, NEW c \in Callers, Commit(c)
  PROVE  /\ call'[c].pc = "commit" /\ call'[c].exec = call[c].exec
         /\ call'[c].influences = call[c].influences /\ call'[c].todo = {}
BY IdleInCall DEF Commit, TypeOK, StoreTypeOK, Call

\* What was true of an influence before a step is true of it after, as long as
\* the invocation keeps working for the same execution.
LEMMA PassedLasts ==
  ASSUME TypeOK, Evolves, NEW d \in Callers, call[d].exec \in known,
         call'[d].exec = call[d].exec, NEW i \in Influence
  PROVE  /\ Supported(call[d].exec, i) => Supported(call[d].exec, i)'
         /\ Compared(call[d].exec, i) => Compared(call[d].exec, i)'
<1>1. PICK e \in known : e = call[d].exec
  OBVIOUS
<1>2. /\ Supported(e, i) => Supported(e, i)'
      /\ Compared(e, i) => Compared(e, i)'
  BY SupportLasts, ComparisonLasts
<1>3. /\ Supported(e, i) <=> Supported(call[d].exec, i)
      /\ Compared(e, i) <=> Compared(call[d].exec, i)
  BY <1>1
<1>4. Supported(e, i)' <=> Supported(call[d].exec, i)'
  BY <1>1 DEF Supported, Supports
<1>5. Compared(e, i)' <=> Compared(call[d].exec, i)'
  BY <1>1 DEF Compared
<1> QED BY <1>2, <1>3, <1>4, <1>5

\* Passing one more influence that is supported and compared keeps Settled.
LEMMA PassedSettles ==
  ASSUME TypeOK, Evolves, NEW c \in Callers, Settled(c), NEW i \in call[c].todo,
         call[c].pc \in {"check", "compare"}, call[c].exec \in known, Passed(c, i),
         Supported(call[c].exec, i), Compared(call[c].exec, i)
  PROVE  Settled(c)'
<1>0. /\ call \in [Callers -> Call] /\ call[c] \in Call
      /\ call[c].influences \subseteq Influence /\ call[c].todo \subseteq call[c].influences
  BY DEF TypeOK, StoreTypeOK, Call, HoldsWhatItNeeds
<1>1. \A j \in (call[c].influences \ call[c].todo) \cup {i} :
        Supported(call[c].exec, j) /\ Compared(call[c].exec, j)
  BY DEF Settled
<1>2. ASSUME call'[c].exec = call[c].exec
      PROVE  \A j \in (call[c].influences \ call[c].todo) \cup {i} :
               Supported(call[c].exec, j)' /\ Compared(call[c].exec, j)'
  <2> SUFFICES ASSUME NEW j \in (call[c].influences \ call[c].todo) \cup {i}
               PROVE  Supported(call[c].exec, j)' /\ Compared(call[c].exec, j)'
    OBVIOUS
  <2>1. j \in Influence
    BY <1>0
  <2> QED BY <1>1, <1>2, <2>1, PassedLasts
<1>3. CASE call[c].todo = {i}
  <2>1. Commit(c)
    BY <1>3 DEF Passed
  <2>2. /\ call'[c].pc = "commit" /\ call'[c].exec = call[c].exec
        /\ call'[c].influences = call[c].influences /\ call'[c].todo = {}
    BY <2>1, CommitKeeps
  <2>3. \A j \in call'[c].influences \ call'[c].todo :
          j \in (call[c].influences \ call[c].todo) \cup {i}
    BY <1>3, <2>2
  <2> QED BY <1>2, <2>2, <2>3 DEF Settled
<1>4. CASE call[c].todo # {i}
  <2>1. /\ call'[c].pc = "check" /\ call'[c].exec = call[c].exec
        /\ call'[c].influences = call[c].influences /\ call'[c].todo = call[c].todo \ {i}
    BY <1>0, <1>4 DEF Passed, Call
  <2>2. \A j \in call'[c].influences \ call'[c].todo :
          j \in (call[c].influences \ call[c].todo) \cup {i}
    BY <2>1
  <2>3. \A j \in call'[c].influences : j.changedAction => j.counterfactual # None
    BY <2>1 DEF Settled
  <2> QED BY <1>2, <2>1, <2>2, <2>3 DEF Settled
<1> QED BY <1>3, <1>4

LEMMA PassedStep == ASSUME IInv, [Next]_vars PROVE PassedStaysPassed'
<1>0. TypeOK /\ Evolves /\ RunsAreCurrent /\ PassedStaysPassed
  BY StepEvolves DEF IInv
<1>1. ASSUME NEW d \in Callers, call'[d] = call[d] PROVE Settled(d)'
  <2>1. CASE call[d].pc \in {"check", "compare", "commit"}
    <3>1. call[d].exec \in known
      BY <1>0, <2>1 DEF RunsAreCurrent
    <3>2. /\ call[d].influences \subseteq Influence /\ call[d].todo \subseteq call[d].influences
          /\ call[d].pc = "compare" => call[d].one \in call[d].todo
      BY <1>0 DEF TypeOK, StoreTypeOK, Call, HoldsWhatItNeeds
    <3>3. \A i \in Influence :
            /\ Supported(call[d].exec, i) => Supported(call[d].exec, i)'
            /\ Compared(call[d].exec, i) => Compared(call[d].exec, i)'
      BY <1>0, <1>1, <3>1, PassedLasts
    <3>4. Settled(d)
      BY <1>0 DEF PassedStaysPassed
    <3>5. call[d].pc = "compare" =>
            /\ Supported(call[d].exec, call[d].one)'
            /\ call[d].one.counterfactual \in Execs \ {call[d].exec}
      <4> SUFFICES ASSUME call[d].pc = "compare"
                   PROVE  /\ Supported(call[d].exec, call[d].one)'
                          /\ call[d].one.counterfactual \in Execs \ {call[d].exec}
        OBVIOUS
      <4>1. PICK i \in Influence : i = call[d].one
        BY <3>2
      <4>2. Supported(call[d].exec, i)'
        BY <3>3, <3>4, <4>1 DEF Settled
      <4>3. call'[d].one = i /\ call[d].one = i
        BY <1>1, <4>1
      <4>4. Supported(call[d].exec, call[d].one)'
        BY <4>2, <4>3 DEF Supported, Supports
      <4> QED BY <3>4, <4>4 DEF Settled
    <3>6. \A i \in call[d].influences \ call[d].todo :
            Supported(call[d].exec, i)' /\ Compared(call[d].exec, i)'
      BY <3>2, <3>3, <3>4, <2>1 DEF Settled
    <3> QED BY <1>1, <2>1, <3>4, <3>5, <3>6 DEF Settled
  <2>2. CASE call[d].pc \notin {"check", "compare", "commit"}
    BY <1>0, <1>1, <2>2 DEF PassedStaysPassed, Settled
  <2> QED BY <2>1, <2>2
<1>2. ASSUME NEW c \in Callers, CallerStep(c) PROVE Settled(c)'
  <2>0. /\ call \in [Callers -> Call] /\ call[c] \in Call /\ Settled(c)
        /\ call[c].influences \subseteq Influence /\ call[c].todo \subseteq call[c].influences
    BY <1>0 DEF TypeOK, StoreTypeOK, Call, HoldsWhatItNeeds, PassedStaysPassed
  <2>1. CASE call'[c].pc \notin {"recalls", "check", "compare", "commit"}
    BY <2>1 DEF Settled
  <2>2. CASE call'[c].pc = "recalls"
    <3>1. PICK e \in Execs, d \in Decisions, I \in InfluenceInputs : StartDecision(c, e, d, I)
      BY <1>0, <1>2, <2>2, StepTo
    <3>2. call'[c].todo = call'[c].influences
      BY <2>0, <3>1, IdleInCall DEF StartDecision, Call
    <3> QED BY <2>2, <3>2 DEF Settled
  <2>3. CASE GetRecalls(c) /\ call'[c].pc \in {"check", "compare", "commit"}
    <3>1. PICK listed \in SUBSET {q \in Recalls : recall[q] # None} :
            LET seen == [q \in Recalls |-> IF q \in listed THEN recall[q] ELSE None] IN
            IF ~assertDecisionInfluencesValid(call[c].exec, call[c].influences, seen)
            THEN Reject(c)
            ELSE IF call[c].influences = {} THEN Commit(c)
            ELSE call' = [call EXCEPT ![c].pc = "check", ![c].seen = seen]
      BY <2>3 DEF GetRecalls
    <3> DEFINE seen == [q \in Recalls |-> IF q \in listed THEN recall[q] ELSE None]
    <3>2. ASSUME Reject(c) PROVE FALSE
      BY <2>0, <2>3, <3>2, IdleInCall DEF Reject, Call
    <3>3. CASE call[c].influences = {}
      <4>1. Commit(c)
        BY <3>1, <3>2, <3>3
      <4> QED BY <1>0, <3>3, <4>1, CommitKeeps DEF Settled
    <3>4. CASE call[c].influences # {}
      <4>1. /\ assertDecisionInfluencesValid(call[c].exec, call[c].influences, seen)
            /\ call' = [call EXCEPT ![c].pc = "check", ![c].seen = seen]
        BY <3>1, <3>2, <3>4
      <4>2. /\ call'[c].pc = "check" /\ call'[c].todo = call[c].todo
            /\ call'[c].influences = call[c].influences
        BY <2>0, <4>1 DEF Call
      <4>3. \A i \in call[c].influences : i.changedAction => i.counterfactual # None
        BY <4>1 DEF assertDecisionInfluencesValid
      <4>4. call[c].todo = call[c].influences
        BY <2>0, <2>3 DEF Settled, GetRecalls
      <4> QED BY <4>2, <4>3, <4>4 DEF Settled
    <3> QED BY <3>3, <3>4
  <2>4. ASSUME NEW i \in call[c].todo, CheckInfluence(c, i) PROVE Settled(c)'
    <3>1. call[c].pc = "check" /\ call[c].exec \in known /\ i \in Influence
      BY <1>0, <2>0, <2>4 DEF CheckInfluence, RunsAreCurrent
    <3>2. Supported(call[c].exec, i)
      BY <2>4, CheckedIsSupported
    <3>3. i.counterfactual \notin {Unpaired, call[c].exec}
      BY <2>4 DEF CheckInfluence, EligibleToInfluence
    <3>4. CASE i.counterfactual \in Execs
      <4>1. /\ call'[c].pc = "compare" /\ call'[c].one = i /\ call'[c].exec = call[c].exec
            /\ call'[c].todo = call[c].todo /\ call'[c].influences = call[c].influences
        BY <2>0, <2>4, <3>4 DEF CheckInfluence, Call
      <4>2. \A j \in Influence :
              /\ Supported(call[c].exec, j) => Supported(call[c].exec, j)'
              /\ Compared(call[c].exec, j) => Compared(call[c].exec, j)'
        BY <1>0, <3>1, <4>1, PassedLasts
      <4>3. \A j \in call'[c].influences \ call'[c].todo :
              Supported(call[c].exec, j)' /\ Compared(call[c].exec, j)'
        BY <2>0, <3>1, <4>1, <4>2 DEF Settled
      <4>4. Supported(call[c].exec, call[c].one)'
        <5>1. Supported(call[c].exec, i)'
          BY <3>1, <3>2, <4>2
        <5> QED BY <4>1, <5>1 DEF Supported, Supports
      <4>5. \A j \in call'[c].influences : j.changedAction => j.counterfactual # None
        BY <2>0, <3>1, <4>1 DEF Settled
      <4> QED BY <3>3, <3>4, <4>1, <4>3, <4>4, <4>5 DEF Settled
    <3>5. CASE i.counterfactual \notin Execs
      <4>1. Compared(call[c].exec, i)
        BY <2>0, <3>1, <3>3, <3>5 DEF Compared, Settled
      <4>2. Passed(c, i)
        BY <2>4, <3>5 DEF CheckInfluence
      <4> QED BY <1>0, <2>0, <3>1, <3>2, <4>1, <4>2, PassedSettles
    <3> QED BY <3>4, <3>5
  <2>5. CASE CheckComparison(c)
    <3>1. PICK i \in call[c].todo : i = call[c].one
      BY <1>0, <2>5 DEF CheckComparison, TypeOK, StoreTypeOK, HoldsWhatItNeeds
    <3>2. /\ call[c].pc = "compare" /\ call[c].exec \in known
          /\ call[c].run.agent = execution[call[c].exec].agent
      BY <1>0, <2>5 DEF CheckComparison, RunsAreCurrent
    <3>3. /\ Supported(call[c].exec, i) /\ i.counterfactual \in Execs \ {call[c].exec}
          /\ i.changedAction => i.counterfactual # None
      BY <2>0, <3>1, <3>2 DEF Settled
    <3>4. /\ execution[i.counterfactual] \in Execution
          /\ execution[i.counterfactual].agent = call[c].run.agent
          /\ execution[i.counterfactual].status # "RUNNING"
      BY <1>0, <2>5, <3>1, <3>3 DEF CheckComparison, validateCounterfactualComparison, TypeOK, StoreTypeOK
    <3>5. Compared(call[c].exec, i)
      <4>1. execution[i.counterfactual].status \in Terminal
        BY <3>4 DEF Execution, Status, Terminal
      <4>2. i.counterfactual # Unpaired
        BY <3>3, RecallDecisionAssumption
      <4>3. execution[i.counterfactual] # None
        BY <3>4, PolicyAssumption, RecallDecisionAssumption
      <4> QED BY <3>2, <3>3, <3>4, <4>1, <4>2, <4>3 DEF Compared
    <3>6. Passed(c, i)
      BY <2>5, <3>1 DEF CheckComparison
    <3> QED BY <1>0, <2>0, <3>2, <3>3, <3>5, <3>6, PassedSettles
  <2> QED BY <1>0, <1>2, <2>1, <2>2, <2>3, <2>4, <2>5, StepTo
<1> QED BY <1>0, <1>1, <1>2, OneMoves DEF PassedStaysPassed

LEMMA ExposureStep == ASSUME IInv, [Next]_vars PROVE ExposureKeepsAgentsApart'
<1>0. TypeOK /\ Evolves /\ RunsAreCurrent /\ CandidatesAreOwn /\ RecallsAreSound
      /\ ExposureKeepsAgentsApart /\ FilteringIsExclusive
  BY StepEvolves DEF IInv
<1> SUFFICES ASSUME NEW r \in Recalls, recall'[r] # None, NEW m \in Memories,
                    Bound(recall'[r].candidates[m])
             PROVE  /\ recall'[r].candidates[m].agent =
                         execution'[recall'[r].execution].agent
                    /\ validateMemorySourceLineage(recall'[r].candidates[m], execution')
  BY DEF ExposureKeepsAgentsApart, Bound
<1>1. ASSUME recall[r] # None, recall'[r].execution = recall[r].execution,
             recall'[r].candidates[m] = recall[r].candidates[m]
      PROVE  /\ recall'[r].candidates[m].agent = execution'[recall'[r].execution].agent
             /\ validateMemorySourceLineage(recall'[r].candidates[m], execution')
  <2> DEFINE mem == recall[r].candidates[m]
  <2>1. mem \in Memory /\ recall[r].execution \in known
    BY <1>0, <1>1 DEF TypeOK, StoreTypeOK, Recall, Exposure, Bound, RecallsAreSound
  <2>2. /\ mem.agent = execution[recall[r].execution].agent
        /\ validateMemorySourceLineage(mem, execution)
    BY <1>0, <1>1 DEF ExposureKeepsAgentsApart, Bound
  <2>3. execution'[recall[r].execution].agent = execution[recall[r].execution].agent
    BY <1>0, <2>1 DEF Evolves, StoreEvolves, TypeOK, StoreTypeOK
  <2> QED BY <1>0, <1>1, <2>1, <2>2, <2>3, LineageLasts
<1>2. CASE recall' = recall
  BY <1>1, <1>2
<1>3. ASSUME NEW c \in Callers, PutRecall(c)
      PROVE  /\ recall'[r].candidates[m].agent = execution'[recall'[r].execution].agent
             /\ validateMemorySourceLineage(recall'[r].candidates[m], execution')
  <2>1. recall'[r] = recall[r]
    BY <1>0, <1>3, FreshRecall
  <2> QED BY <1>1, <2>1
<1>4. ASSUME NEW c \in Callers, UpdateRecallExposure(c)
      PROVE  /\ recall'[r].candidates[m].agent = execution'[recall'[r].execution].agent
             /\ validateMemorySourceLineage(recall'[r].candidates[m], execution')
  <2>1. CASE r # call[c].retrieval
    BY <1>0, <1>1, <1>4, <2>1, OwnExposure
  <2>2. CASE r = call[c].retrieval
    <3> DEFINE mem == call[c].found[m]
    <3>1. /\ recall'[r].candidates[m] = mem /\ mem # None
          /\ recall'[r].execution = recall[r].execution
      BY <1>0, <1>4, <2>2, OwnExposure DEF Bound
    <3>2. /\ call[c].pc = "filter" /\ call[c].pending = {} /\ execution' = execution
      BY <1>4 DEF UpdateRecallExposure
    <3>3. recall[r].execution = call[c].exec
      BY <1>0, <2>2, <3>2 DEF FilteringIsExclusive
    <3>4. call[c].run.agent = execution[call[c].exec].agent
      BY <1>0, <3>2 DEF RunsAreCurrent
    <3>5. mem.agent = call[c].run.agent /\ validateMemorySourceLineage(mem, execution)
      BY <1>0, <3>1, <3>2 DEF CandidatesAreOwn
    <3> QED BY <3>1, <3>2, <3>3, <3>4, <3>5
  <2> QED BY <2>1, <2>2
<1> QED BY <1>0, <1>2, <1>3, <1>4, RecallWrites

\* A decision on record was kept by the step, or put by an invocation at "commit".
LEMMA DecisionWrites ==
  ASSUME TypeOK, [Next]_vars, NEW d \in Decisions, decision'[d] # decision[d]
  PROVE  \E c \in Callers : /\ RecordRuntimeDecision(c) /\ UNCHANGED <<execution, known, recall>>
                            /\ decision'[d].execution = call[c].exec
                            /\ decision'[d].influences = call[c].influences
<1>1. decision' # decision
  OBVIOUS
<1>2. PICK c \in Callers : RecordRuntimeDecision(c)
  BY <1>1 DEF Next, vars, Environment, CallerStep, StartRecall,
     StartDecision, SearchMemory, JudgeCandidate, RecordRecallEvent, GetRecalls,
     CheckInfluence, CheckComparison, RejectInfluence, RecordRejection, PutRecall,
     UpdateRecallExposure, RecordAcceptance, RecordDecisionEvent, Abort, stored
<1>3. d = call[c].id /\ decision'[d] = [execution |-> call[c].exec,
                                         influences |-> call[c].influences]
  BY <1>2 DEF RecordRuntimeDecision, TypeOK, StoreTypeOK
<1>4. UNCHANGED <<execution, known, recall>>
  BY <1>2 DEF RecordRuntimeDecision
<1>5. decision'[d].execution = call[c].exec /\ decision'[d].influences = call[c].influences
  BY <1>3
<1> QED BY <1>2, <1>4, <1>5

LEMMA DecisionsStep ==
  ASSUME IInv, [Next]_vars
  PROVE  DecisionsAreKnown' /\ DecisionsCiteExposedState' /\ ComparisonsAreComplete'
<1>0. TypeOK /\ Evolves /\ RunsAreCurrent /\ PassedStaysPassed
      /\ DecisionsAreKnown /\ DecisionsCiteExposedState /\ ComparisonsAreComplete
  BY StepEvolves DEF IInv
<1> DEFINE Deserved(e, i) == Supported(e, i) /\ Compared(e, i)
\* Either way, the decision's execution deserved its influences before the step.
<1>1. ASSUME NEW d \in Decisions, decision'[d] # None
      PROVE  \E e \in known, I \in SUBSET Influence :
               /\ decision'[d].execution = e /\ decision'[d].influences = I
               /\ \A i \in I : Deserved(e, i)
  <2>1. CASE decision'[d] = decision[d]
    <3>1. decision[d] \in Decision /\ decision[d].execution \in known
      BY <1>0, <1>1, <2>1 DEF TypeOK, StoreTypeOK, DecisionsAreKnown
    <3>2. decision[d].influences \in SUBSET Influence
      BY <3>1 DEF Decision
    <3>3. \A i \in decision[d].influences :
            Supported(decision[d].execution, i) /\ Compared(decision[d].execution, i)
      BY <1>0, <1>1, <2>1 DEF DecisionsCiteExposedState, ComparisonsAreComplete,
         Supported, Compared
    <3> QED BY <2>1, <3>1, <3>2, <3>3
  <2>2. CASE decision'[d] # decision[d]
    <3>1. PICK c \in Callers : /\ RecordRuntimeDecision(c)
                               /\ decision'[d].execution = call[c].exec
                               /\ decision'[d].influences = call[c].influences
      BY <1>0, <2>2, DecisionWrites
    <3>2. call[c].pc = "commit"
      BY <3>1 DEF RecordRuntimeDecision
    <3>3. call[c].exec \in known /\ call[c].influences \in SUBSET Influence
      BY <1>0, <3>2 DEF RunsAreCurrent, TypeOK, StoreTypeOK, Call
    <3>4. \A i \in call[c].influences : Deserved(call[c].exec, i)
      BY <1>0, <3>2 DEF PassedStaysPassed, Settled
    <3> QED BY <3>1, <3>3, <3>4
  <2> QED BY <2>1, <2>2
<1>2. ASSUME NEW d \in Decisions, decision'[d] # None
      PROVE  /\ decision'[d].execution \in known'
             /\ \A i \in decision'[d].influences :
                  /\ \E r \in Recalls : Supports(r, decision[d].execution, i)'
                  /\ Compared(decision[d].execution, i)'
  <2>1. PICK e \in known, I \in SUBSET Influence :
          /\ decision'[d].execution = e /\ decision'[d].influences = I
          /\ \A i \in I : Supported(e, i) /\ Compared(e, i)
    BY <1>1, <1>2
  <2>2. ASSUME NEW i \in I PROVE Supported(e, i)' /\ Compared(e, i)'
    BY <1>0, <2>1, SupportLasts, ComparisonLasts
  <2>3. ASSUME NEW i \in I
        PROVE  /\ \E r \in Recalls : Supports(r, decision[d].execution, i)'
               /\ Compared(decision[d].execution, i)'
    <3>1. \E r \in Recalls : Supports(r, decision[d].execution, i)'
      BY <2>1, <2>2 DEF Supported, Supports
    <3>2. Compared(decision[d].execution, i)'
      BY <2>1, <2>2 DEF Compared
    <3> QED BY <3>1, <3>2
  <2> QED BY <1>0, <2>1, <2>3 DEF Evolves, StoreEvolves
<1>3. DecisionsAreKnown'
  BY <1>2 DEF DecisionsAreKnown
<1>4. DecisionsCiteExposedState'
  BY <1>2 DEF DecisionsCiteExposedState
<1>5. ComparisonsAreComplete'
  BY <1>2 DEF ComparisonsAreComplete, Compared
<1> QED BY <1>3, <1>4, <1>5

LEMMA InitIInv == Init => IInv
<1> SUFFICES ASSUME Init PROVE IInv
  OBVIOUS
<1>1. \A c \in Callers : call[c].pc = "idle" /\ call[c].todo = {}
  BY DEF Init, Idle
<1>2. TypeOK
  BY TypeInit
<1>3. RunsAreCurrent /\ FilteringIsExclusive /\ CandidatesAreOwn /\ SeenIsOnRecord
      /\ PassedStaysPassed
  BY <1>1 DEF RunsAreCurrent, FilteringIsExclusive, CandidatesAreOwn, SeenIsOnRecord,
     PassedStaysPassed, Settled
<1>4. RecallsAreSound /\ DecisionsAreKnown /\ ExposureKeepsAgentsApart
      /\ DecisionsCiteExposedState /\ ComparisonsAreComplete
  BY DEF Init, RecallsAreSound, DecisionsAreKnown, ExposureKeepsAgentsApart,
     DecisionsCiteExposedState, ComparisonsAreComplete
<1> QED BY <1>2, <1>3, <1>4 DEF IInv

\* IInv is inductive: it holds at first, and every step keeps it.
THEOREM Inductive == Spec => []IInv
<1>1. IInv /\ [Next]_vars => IInv'
  <2> SUFFICES ASSUME IInv, [Next]_vars PROVE IInv'
    OBVIOUS
  <2>1. TypeOK'
    <3>1. CASE UNCHANGED vars
      BY <3>1 DEF vars, TypeOK, StoreTypeOK, IInv
    <3> QED BY <3>1, TypeEnvironment, TypeCaller DEF Next, IInv
  <2> QED BY <2>1, RunsStep, RecallsStep, FilteringStep, CandidatesStep, SeenStep, PassedStep,
          ExposureStep, DecisionsStep DEF IInv
<1> QED BY <1>1, InitIInv, PTL DEF Spec

\* Retrieved is not influenced, for any number of concurrent recalls, decisions and
\* revisions: every influence on record cites a state that was exposed to the same
\* execution and that its frozen policy lets through.
THEOREM DecisionsAreSupported == Spec => []DecisionsCiteExposedState
<1>1. IInv => DecisionsCiteExposedState
  BY DEF IInv
<1> QED BY <1>1, Inductive, PTL

\* No recall ever exposes another agent's memory, or one learned from another
\* agent's executions.
THEOREM AgentsStayApart == Spec => []ExposureKeepsAgentsApart
<1>1. IInv => ExposureKeepsAgentsApart
  BY DEF IInv
<1> QED BY <1>1, Inductive, PTL

\* Every comparison run a decision names is, and stays, another finished
\* execution of the same agent.
THEOREM ComparisonsStayComplete == Spec => []ComparisonsAreComplete
<1>1. IInv => ComparisonsAreComplete
  BY DEF IInv
<1> QED BY <1>1, Inductive, PTL

(***************************************************************************)
(* Recall and recordDecision implement InfluenceLedger                     *)
(***************************************************************************)
Shown(recs, r, m) ==
  [execution |-> recs[r].execution, retrieval |-> r, memory |-> m,
   state |-> recs[r].candidates[m]]

LEMMA ExposedIff ==
  ASSUME NEW recs, NEW x
  PROVE  x \in ExposedBy(recs) <=>
           \E r \in Recalls, m \in Memories :
             /\ recs[r] # None /\ Bound(recs[r].candidates[m])
             /\ x = Shown(recs, r, m)
<1> DEFINE P == {q \in Recalls \X Memories :
                   recs[q[1]] # None /\ recs[q[1]].candidates[q[2]] \notin {Unlisted, Unbound}}
           S(p) == [execution |-> recs[p[1]].execution, retrieval |-> p[1],
                    memory |-> p[2], state |-> recs[p[1]].candidates[p[2]]]
<1>1. ExposedBy(recs) = {S(p) : p \in P}
  BY DEF ExposedBy
<1>2. \A p \in P : /\ p[1] \in Recalls /\ p[2] \in Memories
                   /\ recs[p[1]] # None /\ Bound(recs[p[1]].candidates[p[2]])
                   /\ S(p) = Shown(recs, p[1], p[2])
  BY DEF Bound, Shown
<1>3. ASSUME NEW r \in Recalls, NEW m \in Memories,
             recs[r] # None, Bound(recs[r].candidates[m])
      PROVE  /\ <<r, m>> \in P
             /\ S(<<r, m>>) = Shown(recs, r, m)
  BY <1>3 DEF Bound, Shown
<1> HIDE DEF P, S
<1>4. x \in {S(p) : p \in P} <=> \E p \in P : x = S(p)
  OBVIOUS
<1>5. ASSUME NEW p \in P, x = S(p)
      PROVE  \E r \in Recalls, m \in Memories :
               recs[r] # None /\ Bound(recs[r].candidates[m]) /\ x = Shown(recs, r, m)
  BY <1>2, <1>5
<1> QED BY <1>1, <1>3, <1>4, <1>5

LEMMA LedgerInitially == Init => Ledger!LedgerInit
<1> SUFFICES ASSUME Init PROVE Ledger!LedgerInit
  OBVIOUS
<1>1. Terms = [e \in Execs |-> None] /\ decision = [d \in Decisions |-> None]
  BY DEF Init, StoreInit, Terms
<1>2. \A r \in Recalls : recall[r] = None
  BY DEF Init
<1>3. \A x : x \notin ExposedBy(recall)
  BY <1>2, ExposedIff
<1>4. Exposed = {}
  BY <1>3 DEF Exposed
<1> QED BY <1>1, <1>4 DEF Ledger!LedgerInit

\* The terms an execution was published with are the terms it keeps.
LEMMA TermsStay ==
  ASSUME TypeOK, Evolves, known' = known PROVE Terms' = Terms
<1>1. \A e \in known : /\ execution'[e].agent = execution[e].agent
                       /\ execution'[e].env = execution[e].env
                       /\ execution'[e].policy = execution[e].policy
  BY DEF TypeOK, StoreTypeOK, Evolves, StoreEvolves
<1> QED BY <1>1 DEF Terms

LEMMA KnownTerms ==
  ASSUME TypeOK, NEW e \in known
  PROVE  e \in Execs /\ Terms[e] # None /\ Terms[e].agent = execution[e].agent
         /\ Terms[e].env = execution[e].env /\ Terms[e].policy = execution[e].policy
<1>1. e \in Execs /\ execution[e] \in Execution
  BY DEF TypeOK, StoreTypeOK
<1>2. Terms[e] = [agent |-> execution[e].agent, env |-> execution[e].env,
                  policy |-> execution[e].policy]
  BY <1>1 DEF Terms
<1>3. Terms[e] \in [agent : Agents, env : Envs \cup {NoEnv}, policy : Policies]
  BY <1>1, <1>2 DEF Execution
<1> QED BY <1>1, <1>2, <1>3, RecallDecisionAssumption

LEMMA PublishStep ==
  ASSUME TypeOK, NEW e \in Execs, PublishExecution(e),
         UNCHANGED <<recall, decision, audit, call>>
  PROVE  Ledger!Publish(e)
<1>1. /\ execution[e] \in Execution /\ e \notin known /\ known' = known \cup {e}
      /\ execution' = execution
  BY DEF PublishExecution, TypeOK, StoreTypeOK
<1>2. Terms[e] = None
  BY <1>1 DEF Terms
<1>3. Terms' = [Terms EXCEPT ![e] = [agent |-> execution[e].agent, env |-> execution[e].env,
                                     policy |-> execution[e].policy]]
  BY <1>1 DEF Terms
<1>4. /\ execution[e].agent \in Agents /\ execution[e].env \in Envs \cup {NoEnv}
      /\ execution[e].policy \in Policies
  BY <1>1 DEF Execution
<1>5. Exposed' = Exposed
  BY <1>1 DEF Exposed
<1> QED BY <1>1, <1>2, <1>3, <1>4, <1>5 DEF Ledger!Publish

\* The put of a fresh recall exposes nothing: none of its candidates is bound.
LEMMA PutExposesNothing ==
  ASSUME TypeOK, NEW c \in Callers, PutRecall(c) PROVE Exposed' = Exposed
<1>1. PICK r \in Recalls :
        /\ recall[r] = None
        /\ \A m \in Memories : ~Bound(recall'[r].candidates[m])
        /\ \A q \in Recalls \ {r} : recall'[q] = recall[q]
  BY FreshRecall
<1>2. ASSUME NEW x PROVE x \in ExposedBy(recall') <=> x \in ExposedBy(recall)
  <2>1. ASSUME NEW q \in Recalls, NEW m \in Memories, q # r
        PROVE  recall'[q] = recall[q] /\ Shown(recall', q, m) = Shown(recall, q, m)
    BY <1>1, <2>1 DEF Shown
  <2> QED BY <1>1, <2>1, ExposedIff
<1> QED BY <1>2 DEF Exposed

LEMMA ExposeStep ==
  ASSUME IInv, NEW c \in Callers, UpdateRecallExposure(c),
         ExposureKeepsAgentsApart', RecallsAreSound'
  PROVE  Ledger!Expose(call[c].exec, call[c].retrieval)
<1> DEFINE q == call[c].retrieval
           e == call[c].exec
<1>0. /\ TypeOK /\ Evolves /\ FilteringIsExclusive /\ RunsAreCurrent /\ RecallsAreSound
      /\ call[c].pc = "filter"
  BY CallerEvolves DEF IInv, UpdateRecallExposure, CallerStep
<1>1. /\ q \in Recalls /\ recall[q] # None /\ recall[q].execution = e /\ e \in known
      /\ \A m \in Memories : ~Bound(recall[q].candidates[m])
  BY <1>0, OwnExposure DEF FilteringIsExclusive, RunsAreCurrent
<1>2. /\ \A r \in Recalls \ {q} : recall'[r] = recall[r]
      /\ recall'[q].execution = e /\ recall'[q] # None
      /\ \A m \in Memories : recall'[q].candidates[m] =
           IF call[c].found[m] = None THEN Unlisted ELSE call[c].found[m]
  BY <1>0, <1>1, OwnExposure DEF Evolves, StoreEvolves
<1>3. /\ known' = known /\ execution' = execution /\ decision' = decision
      /\ recall \in [Recalls -> Recall \cup {None}]
  BY <1>0 DEF UpdateRecallExposure, TypeOK, StoreTypeOK
<1>4. Terms' = Terms /\ Terms[e] # None /\ Terms[e].agent = execution[e].agent
  BY <1>0, <1>1, <1>3, TermsStay, KnownTerms
<1>5. ASSUME NEW x \in Exposed
      PROVE  x.retrieval # q /\ x \in Exposed'
  <2>1. PICK r \in Recalls, m \in Memories :
          recall[r] # None /\ Bound(recall[r].candidates[m]) /\ x = Shown(recall, r, m)
    BY <1>5, ExposedIff DEF Exposed
  <2>2. r # q /\ recall'[r] = recall[r]
    BY <1>1, <1>2, <2>1
  <2>3. x = Shown(recall', r, m) /\ x.retrieval = r
    BY <2>1, <2>2 DEF Shown
  <2> QED BY <2>1, <2>2, <2>3, ExposedIff DEF Exposed
<1>6. ASSUME NEW x \in Exposed' \ Exposed
      PROVE  \E m \in Memories : /\ Bound(recall'[q].candidates[m])
                                 /\ x = Shown(recall', q, m)
  <2>1. PICK r \in Recalls, m \in Memories :
          recall'[r] # None /\ Bound(recall'[r].candidates[m]) /\ x = Shown(recall', r, m)
    BY <1>6, ExposedIff DEF Exposed
  <2>2. CASE r # q
    <3>1. recall'[r] = recall[r]
      BY <1>2, <2>2
    <3>2. x = Shown(recall, r, m)
      BY <2>1, <3>1 DEF Shown
    <3> QED BY <2>1, <3>1, <3>2, <1>6, ExposedIff DEF Exposed
  <2> QED BY <2>1, <2>2
<1>7. ASSUME NEW m \in Memories, Bound(recall'[q].candidates[m])
      PROVE  LET x == Shown(recall', q, m) IN
             /\ x \in Ledger!Entry /\ x.execution = e /\ x.retrieval = q
             /\ x.memory = m /\ x.state.agent = Terms[e].agent
  <2>1. recall'[q].candidates[m] \in Memory
    BY <1>0, <1>2, <1>7 DEF TypeOK, StoreTypeOK, Call, Bound
  <2>2. recall'[q].candidates[m].agent = execution[e].agent
    BY <1>1, <1>2, <1>3, <1>7 DEF ExposureKeepsAgentsApart, Bound
  <2>3. e \in Execs
    BY <1>0, <1>1, KnownTerms
  <2>4. Shown(recall', q, m) = [execution |-> e, retrieval |-> q, memory |-> m,
                                state |-> recall'[q].candidates[m]]
    BY <1>2 DEF Shown
  <2> DEFINE state == recall'[q].candidates[m]
  <2> HIDE DEF state, q, e
  <2>5. [execution |-> e, retrieval |-> q, memory |-> m, state |-> state] \in Ledger!Entry
    <3>1. Ledger!Memory = Memory
      BY DEF Ledger!Memory, Memory, Ledger!Evidence, Evidence, Ledger!Percent, Percent
    <3> QED BY <1>1, <2>1, <2>3, <3>1 DEF Ledger!Entry, state
  <2> QED BY <1>4, <2>2, <2>4, <2>5 DEF state
<1>8. \A x, y \in Exposed' \ Exposed : x.memory = y.memory => x = y
  BY <1>6, <1>7
<1>9. \A x \in Exposed' \ Exposed :
        x \in Ledger!Entry /\ x.execution = e /\ x.retrieval = q
        /\ x.state.agent = Terms[e].agent
  BY <1>6, <1>7
<1> QED BY <1>3, <1>4, <1>5, <1>8, <1>9 DEF Ledger!Expose

LEMMA RecordStep ==
  ASSUME IInv, NEW c \in Callers, RecordRuntimeDecision(c)
  PROVE  Ledger!Record(call[c].id, call[c].exec)
<1> DEFINE d == call[c].id
           e == call[c].exec
           I == call[c].influences
<1>0. /\ TypeOK /\ Evolves /\ RunsAreCurrent /\ PassedStaysPassed /\ call[c].pc = "commit"
  BY CallerEvolves DEF IInv, RecordRuntimeDecision, CallerStep
<1>1. d \in Decisions /\ e \in known /\ I \subseteq Influence
  BY <1>0 DEF TypeOK, StoreTypeOK, HoldsWhatItNeeds, RunsAreCurrent, Call
<1>2. /\ known' = known /\ execution' = execution /\ recall' = recall
      /\ decision' = [decision EXCEPT ![d] = [execution |-> e, influences |-> I]]
      /\ decision \in [Decisions -> Decision \cup {None}]
  BY <1>0 DEF RecordRuntimeDecision, TypeOK, StoreTypeOK
<1>3. Terms' = Terms /\ Exposed' = Exposed
  BY <1>0, <1>2, TermsStay DEF Exposed
<1>4. decision'[d] = [execution |-> e, influences |-> I]
  BY <1>1, <1>2
<1>5. decision'[d] # None /\ decision'[d].execution = e /\ decision'[d].influences = I
  <2>1. [execution |-> e, influences |-> I] \in Decision
    BY <1>0, <1>1, KnownTerms DEF Decision
  <2> QED BY <1>4, <2>1, RecallDecisionAssumption
<1>6. ASSUME NEW i \in I PROVE \E x \in Exposed : Ledger!Citable(x, i, e)
  <2>1. PICK r \in Recalls : Supports(r, e, i)
    BY <1>0, <1>6 DEF PassedStaysPassed, Settled, Supported
  <2> DEFINE x == Shown(recall, r, i.memory)
  <2>2. i.memory \in Memories
    BY <1>1 DEF Influence
  <2>3. x \in Exposed
    BY <2>1, <2>2, ExposedIff DEF Supports, Bound, Exposed
  <2>4. /\ x.execution = e /\ x.memory = i.memory /\ x.retrieval = r
        /\ x.state = recall[r].candidates[i.memory]
    BY <2>1 DEF Shown, Supports
  <2>5. /\ Terms[e].env = execution[e].env /\ Terms[e].policy = execution[e].policy
    BY <1>0, <1>1, KnownTerms
  <2>6. StrongEnough(x.state, Terms[e]) /\ EnvironmentMatches(x.state, Terms[e])
    BY <2>1, <2>4, <2>5 DEF Supports, StrongEnough, EnvironmentMatches
  <2>7. i.retrieval \in {None, r}
    BY <2>1 DEF Supports
  <2> HIDE DEF x
  <2>8. Ledger!Citable(x, i, e)
    BY <2>4, <2>6, <2>7 DEF Ledger!Citable, StrongEnough, Ledger!StrongEnough,
       EnvironmentMatches, Ledger!EnvironmentMatches
  <2> QED BY <2>3, <2>8
<1>7. decision' = [decision EXCEPT ![d] = decision'[d]]
  BY <1>1, <1>2, <1>4
<1> QED BY <1>0, <1>1, <1>3, <1>5, <1>6, <1>7, KnownTerms DEF Ledger!Record

LEMMA LedgerStep ==
  ASSUME IInv, IInv', [Next]_vars PROVE [Ledger!LedgerNext]_(Ledger!lvars)
<1>0. TypeOK /\ Evolves /\ RunsAreCurrent
  BY StepEvolves DEF IInv
<1>1. ASSUME NEW e \in Execs, PublishExecution(e), UNCHANGED <<recall, decision, audit, call>>
      PROVE  Ledger!LedgerNext
  BY <1>0, <1>1, PublishStep DEF Ledger!LedgerNext
<1>2. ASSUME NEW c \in Callers, PutRecall(c) PROVE UNCHANGED Ledger!lvars
  <2>1. known' = known /\ decision' = decision
    BY <1>2 DEF PutRecall
  <2> QED BY <1>0, <1>2, <2>1, TermsStay, PutExposesNothing DEF Ledger!lvars
<1>3. ASSUME NEW c \in Callers, UpdateRecallExposure(c) PROVE Ledger!LedgerNext
  <2>1. call[c].exec \in Execs /\ call[c].retrieval \in Recalls
    BY <1>0, <1>3 DEF UpdateRecallExposure, TypeOK, StoreTypeOK, HoldsWhatItNeeds, RunsAreCurrent
  <2>2. Ledger!Expose(call[c].exec, call[c].retrieval)
    BY <1>3, ExposeStep DEF IInv
  <2> QED BY <2>1, <2>2 DEF Ledger!LedgerNext
<1>4. ASSUME NEW c \in Callers, RecordRuntimeDecision(c) PROVE Ledger!LedgerNext
  <2>1. call[c].exec \in Execs /\ call[c].id \in Decisions
    BY <1>0, <1>4 DEF RecordRuntimeDecision, TypeOK, StoreTypeOK, HoldsWhatItNeeds
  <2> QED BY <1>4, <2>1, RecordStep DEF Ledger!LedgerNext
<1>5. ASSUME UNCHANGED <<known, recall, decision>> PROVE UNCHANGED Ledger!lvars
  BY <1>0, <1>5, TermsStay DEF Ledger!lvars, Exposed
<1>6. \/ UNCHANGED <<known, recall, decision>>
      \/ \E e \in Execs : /\ PublishExecution(e)
                          /\ UNCHANGED <<recall, decision, audit, call>>
      \/ \E c \in Callers : PutRecall(c) \/ UpdateRecallExposure(c) \/ RecordRuntimeDecision(c)
  BY DEF Next, vars, Environment, CallerStep, StartRecall,
     StartDecision, SearchMemory, JudgeCandidate, RecordRecallEvent, GetRecalls,
     CheckInfluence, CheckComparison, RejectInfluence, RecordRejection,
     RecordAcceptance, RecordDecisionEvent, Abort, stored, StoreNext,
     BeginExecution, FreezePolicy, FinishExecution, WriteMemory
<1> QED BY <1>1, <1>2, <1>3, <1>4, <1>5, <1>6

\* Whatever the interleaving, each step of the runtime publishes an execution's
\* terms, exposes one retrieval, records one decision that cites what is exposed
\* - or changes nothing the ledger promises.
THEOREM Implements == Spec => ImplementsLedger
<1>1. IInv /\ IInv' /\ [Next]_vars => [Ledger!LedgerNext]_(Ledger!lvars)
  BY LedgerStep
<1> QED BY <1>1, LedgerInitially, Inductive, PTL DEF Spec, ImplementsLedger, Ledger!LedgerSpec

(***************************************************************************)
(* The audit trail                                                         *)
(***************************************************************************)
Complete(r) == recall[r] # None /\ \A m \in Memories : recall[r].candidates[m] # Unbound

\* An invocation announces only what it has stored.
Announceable(c) ==
  /\ call[c].pc \in {"accepted", "recorded"} => decision[call[c].id] # None
  /\ call[c].pc = "exposed" => Complete(call[c].retrieval)

AuditInv == AuditNeverAhead /\ \A c \in Callers : Announceable(c)

LEMMA CompleteLasts ==
  ASSUME TypeOK, FilteringIsExclusive, [Next]_vars, NEW r \in Recalls, Complete(r)
  PROVE  Complete(r)'
<1>1. CASE recall' = recall
  BY <1>1 DEF Complete
<1>2. ASSUME NEW c \in Callers, PutRecall(c) PROVE Complete(r)'
  <2>1. recall'[r] = recall[r]
    BY <1>2, FreshRecall DEF Complete
  <2> QED BY <2>1 DEF Complete
<1>3. ASSUME NEW c \in Callers, UpdateRecallExposure(c) PROVE Complete(r)'
  <2>1. \A m \in Memories : call[c].found[m] \in Memory \cup {None}
    BY DEF TypeOK, StoreTypeOK, Call
  <2>2. recall'[r] # None
    BY StepEvolves DEF Evolves, StoreEvolves, Complete
  <2>3. \A m \in Memories : recall'[r].candidates[m] # Unbound
    BY <1>3, <2>1, OwnExposure, RecallDecisionAssumption DEF Complete
  <2> QED BY <2>2, <2>3 DEF Complete
<1> QED BY <1>1, <1>2, <1>3, RecallWrites

LEMMA DecisionLasts ==
  ASSUME TypeOK, [Next]_vars, NEW d \in Decisions, decision[d] # None
  PROVE  decision'[d] # None
<1>1. ASSUME NEW c \in Callers, RecordRuntimeDecision(c) PROVE decision'[d] # None
  <2> DEFINE new == [execution |-> call[c].exec, influences |-> call[c].influences]
  <2>1. new # None
    BY <1>1, RecallDecisionAssumption DEF RecordRuntimeDecision, TypeOK, StoreTypeOK, Call, Decision,
       HoldsWhatItNeeds
  <2>2. decision' = [decision EXCEPT ![call[c].id] = new]
    BY <1>1 DEF RecordRuntimeDecision
  <2> HIDE DEF new
  <2> QED BY <2>1, <2>2 DEF TypeOK, StoreTypeOK
<1> QED BY <1>1, DecisionWrites

LEMMA AuditWrites ==
  ASSUME TypeOK, [Next]_vars, audit' # audit
  PROVE  \E c \in Callers :
           \/ RecordRecallEvent(c) \/ RecordRejection(c)
           \/ RecordAcceptance(c) \/ RecordDecisionEvent(c)
BY DEF Next, vars, Environment, CallerStep, StartRecall,
     StartDecision, SearchMemory, PutRecall, JudgeCandidate, UpdateRecallExposure,
     GetRecalls, CheckInfluence, CheckComparison, RejectInfluence,
     RecordRuntimeDecision, Abort, stored

LEMMA AnnouncingSteps ==
  ASSUME TypeOK, NEW c \in Callers, CallerStep(c),
         call'[c].pc \in {"accepted", "recorded", "exposed"}
  PROVE  UpdateRecallExposure(c) \/ RecordRuntimeDecision(c) \/ RecordAcceptance(c)
<1>0. Idle \in Call /\ call \in [Callers -> Call] /\ call[c] \in Call
  BY IdleInCall DEF TypeOK, StoreTypeOK
<1>1. ASSUME NEW m \in Memories, JudgeCandidate(c, m) PROVE FALSE
  BY <1>0, <1>1 DEF JudgeCandidate, Call
<1>2. ASSUME NEW e \in Execs, StartRecall(c, e) PROVE FALSE
  BY <1>0, <1>2 DEF StartRecall, Call
<1>3. ASSUME NEW e \in Execs, NEW d \in Decisions, NEW I \in InfluenceInputs,
             StartDecision(c, e, d, I)
      PROVE  FALSE
  BY <1>0, <1>3 DEF StartDecision, Call
<1>4. ASSUME SearchMemory(c) PROVE FALSE
  BY <1>0, <1>4 DEF SearchMemory, Call
<1>5. ASSUME PutRecall(c) PROVE FALSE
  BY <1>5, FreshRecall
<1>6. ASSUME Return(c) PROVE FALSE
  BY <1>0, <1>6 DEF Return, Call
<1>7. ASSUME Reject(c) PROVE FALSE
  BY <1>0, <1>7 DEF Reject, Call
<1>8. ASSUME Commit(c) PROVE FALSE
  BY <1>8, CommitKeeps
<1>9. ASSUME GetRecalls(c) PROVE FALSE
  <2>1. ASSUME NEW seen, call' = [call EXCEPT ![c].pc = "check", ![c].seen = seen] PROVE FALSE
    BY <1>0, <2>1 DEF Call
  <2> QED BY <1>7, <1>8, <1>9, <2>1 DEF GetRecalls
<1>10. ASSUME NEW i, Passed(c, i) PROVE FALSE
  BY <1>0, <1>8, <1>10 DEF Passed, Call
<1>11. ASSUME NEW i \in call[c].todo, CheckInfluence(c, i) PROVE FALSE
  BY <1>0, <1>10, <1>11 DEF CheckInfluence, Call
<1>12. ASSUME \/ RecordRecallEvent(c) \/ RecordRejection(c) \/ RecordDecisionEvent(c)
              \/ Abort(c) \/ RejectInfluence(c) \/ CheckComparison(c)
       PROVE  FALSE
  BY <1>6, <1>7, <1>10, <1>12 DEF RecordRecallEvent, RecordRejection, RecordDecisionEvent,
     Abort, RejectInfluence, CheckComparison
<1> QED BY <1>1, <1>2, <1>3, <1>4, <1>5, <1>9, <1>11, <1>12 DEF CallerStep

LEMMA AnnounceableStep ==
  ASSUME TypeOK, FilteringIsExclusive, AuditInv, NEW c \in Callers, [Next]_vars
  PROVE  Announceable(c)'
<1>0. /\ call \in [Callers -> Call] /\ call[c] \in Call /\ Idle \in Call
      /\ HoldsWhatItNeeds(call[c]) /\ Announceable(c)
  BY IdleInCall DEF TypeOK, StoreTypeOK, AuditInv
<1>1. ASSUME call'[c].pc = call[c].pc, call'[c].id = call[c].id,
             call'[c].retrieval = call[c].retrieval
      PROVE  Announceable(c)'
  <2>1. call[c].pc \in {"accepted", "recorded"} => decision'[call[c].id] # None
    BY <1>0, DecisionLasts DEF Announceable, HoldsWhatItNeeds
  <2>2. ASSUME call[c].pc = "exposed" PROVE Complete(call[c].retrieval)'
    <3>1. PICK r \in Recalls : r = call[c].retrieval
      BY <1>0, <2>2 DEF HoldsWhatItNeeds
    <3>2. Complete(r)'
      BY <1>0, <2>2, <3>1, CompleteLasts DEF Announceable
    <3>3. r = call'[c].retrieval
      BY <1>1, <3>1
    <3> QED BY <3>2, <3>3 DEF Complete
  <2> QED BY <1>1, <2>1, <2>2 DEF Announceable
<1>2. CASE call'[c].pc \notin {"accepted", "recorded", "exposed"}
  BY <1>2 DEF Announceable
<1>3. CASE UpdateRecallExposure(c)
  <2>1. call'[c].pc = "exposed" /\ call'[c].retrieval = call[c].retrieval
    BY <1>0, <1>3 DEF UpdateRecallExposure, Call
  <2>2. \A m \in Memories : call[c].found[m] \in Memory \cup {None}
    BY <1>0 DEF Call
  <2>3. \A m \in Memories : recall'[call[c].retrieval].candidates[m] # Unbound
    BY <1>3, <2>2, OwnExposure, RecallDecisionAssumption
  <2>4. recall'[call[c].retrieval] # None
    BY <1>3, OwnExposure, StepEvolves DEF Evolves, StoreEvolves
  <2> QED BY <2>1, <2>3, <2>4 DEF Announceable, Complete
<1>4. CASE RecordRuntimeDecision(c)
  <2> DEFINE new == [execution |-> call[c].exec, influences |-> call[c].influences]
  <2>1. new # None
    BY <1>0, <1>4, RecallDecisionAssumption DEF RecordRuntimeDecision, Call, Decision,
       HoldsWhatItNeeds
  <2>2. call'[c].pc \in {"accepted", "recorded"} /\ call'[c].id = call[c].id
    BY <1>0, <1>4 DEF RecordRuntimeDecision, Call
  <2>3. decision' = [decision EXCEPT ![call[c].id] = new] /\ call[c].id \in Decisions
    BY <1>0, <1>4 DEF RecordRuntimeDecision, HoldsWhatItNeeds
  <2> HIDE DEF new
  <2>4. decision'[call[c].id] # None
    BY <2>1, <2>3 DEF TypeOK, StoreTypeOK
  <2> QED BY <2>2, <2>4 DEF Announceable
<1>5. CASE RecordAcceptance(c)
  <2>1. /\ call[c].pc = "accepted" /\ call'[c].pc = "recorded" /\ call'[c].id = call[c].id
        /\ decision' = decision
    BY <1>0, <1>5 DEF RecordAcceptance, Goto, Call
  <2> QED BY <1>0, <2>1 DEF Announceable
<1>6. CASE CallerStep(c)
  BY <1>0, <1>2, <1>3, <1>4, <1>5, <1>6, AnnouncingSteps
<1> QED BY <1>1, <1>6, OneMoves

LEMMA AuditStep ==
  ASSUME TypeOK, FilteringIsExclusive, AuditInv, [Next]_vars PROVE AuditNeverAhead'
<1>0. AuditNeverAhead /\ \A c \in Callers : Announceable(c) /\ HoldsWhatItNeeds(call[c])
  BY DEF AuditInv, TypeOK, StoreTypeOK
<1>1. ASSUME NEW d \in Decisions, NEW tag \in {"INFLUENCE_ACCEPTED", "DECISION_RECORDED"},
             <<tag, d>> \in audit'
      PROVE  decision'[d] # None
  <2>1. CASE <<tag, d>> \in audit
    BY <1>0, <2>1, DecisionLasts DEF AuditNeverAhead
  <2>2. CASE <<tag, d>> \notin audit
    <3>1. PICK c \in Callers :
            \/ RecordRecallEvent(c) \/ RecordRejection(c)
            \/ RecordAcceptance(c) \/ RecordDecisionEvent(c)
      BY <1>1, <2>2, AuditWrites
    <3>2. ASSUME NEW x, \/ audit' = audit \cup {<<"RECALL_COMPLETED", x>>}
                        \/ audit' = audit \cup {<<"INFLUENCE_REJECTED", x>>}
          PROVE  FALSE
      BY <1>1, <2>2, <3>2
    <3>3. /\ call[c].pc \in {"accepted", "recorded"} /\ decision' = decision
          /\ \/ audit' = audit \cup {<<"INFLUENCE_ACCEPTED", call[c].id>>}
             \/ audit' = audit \cup {<<"DECISION_RECORDED", call[c].id>>}
      <4>1. CASE RecordRecallEvent(c) \/ RecordRejection(c)
        BY <3>2, <4>1 DEF RecordRecallEvent, RecordRejection
      <4>2. CASE RecordAcceptance(c) \/ RecordDecisionEvent(c)
        BY <4>2 DEF RecordAcceptance, RecordDecisionEvent
      <4> QED BY <3>1, <4>1, <4>2
    <3>4. d = call[c].id
      BY <1>1, <2>2, <3>3
    <3> QED BY <1>0, <3>3, <3>4 DEF Announceable
  <2> QED BY <2>1, <2>2
<1>2. ASSUME NEW r \in Recalls, <<"RECALL_COMPLETED", r>> \in audit' PROVE Complete(r)'
  <2>1. CASE <<"RECALL_COMPLETED", r>> \in audit
    <3>1. Complete(r)
      BY <1>0, <2>1 DEF AuditNeverAhead, Complete
    <3> QED BY <3>1, CompleteLasts
  <2>2. CASE <<"RECALL_COMPLETED", r>> \notin audit
    <3>1. PICK c \in Callers :
            \/ RecordRecallEvent(c) \/ RecordRejection(c)
            \/ RecordAcceptance(c) \/ RecordDecisionEvent(c)
      BY <1>2, <2>2, AuditWrites
    <3>2. /\ call[c].pc = "exposed" /\ recall' = recall
          /\ audit' = audit \cup {<<"RECALL_COMPLETED", call[c].retrieval>>}
      BY <1>2, <2>2, <3>1 DEF RecordRecallEvent, RecordRejection, RecordAcceptance,
         RecordDecisionEvent
    <3>3. r = call[c].retrieval
      BY <1>2, <2>2, <3>2
    <3> QED BY <1>0, <3>2, <3>3 DEF Announceable, Complete
  <2> QED BY <2>1, <2>2
<1> QED BY <1>1, <1>2 DEF AuditNeverAhead, Complete

\* The audit trail never reports a decision or a completed recall that the store
\* does not hold, however calls interleave and wherever they are cut short.
THEOREM AuditFollowsStore == Spec => []AuditNeverAhead
<1>1. Init => AuditInv
  <2> SUFFICES ASSUME Init PROVE AuditInv
    OBVIOUS
  <2>1. audit = {} /\ \A c \in Callers : call[c].pc = "idle"
    BY DEF Init, Idle
  <2> QED BY <2>1 DEF AuditInv, AuditNeverAhead, Announceable
<1>2. IInv /\ AuditInv /\ [Next]_vars => AuditInv'
  BY AuditStep, AnnounceableStep DEF IInv, AuditInv
<1>3. AuditInv => AuditNeverAhead
  BY DEF AuditInv
<1> QED BY <1>1, <1>2, <1>3, Inductive, PTL DEF Spec

=============================================================================
