----------------------- MODULE BehavioralMemoryProofs -----------------------
(***************************************************************************)
(* Proofs about BehavioralMemory, for any memories, callers, submissions   *)
(* and evaluations, over either kind of store.                             *)
(***************************************************************************)
EXTENDS BehavioralMemory, FiniteSetTheorems, WellFoundedInduction, TLAPS

(***************************************************************************)
(* The inductive invariant: what each invocation holds is worth, at its pc *)
(***************************************************************************)
\* The parts of a family stored before a pc.
Earlier ==
  [ episode |-> {}, executionSlice |-> {"episode"},
    experience |-> {"episode", "executionSlice"},
    candidate |-> {"episode", "executionSlice", "experience"}, memory |-> Part ]

Drawing == {"memorySlice", "influenceGrant"}

RecordSound(k) ==
  k.pc \in Part \cup {"memory"} /\ k.report = None =>
    /\ k.family # None /\ k.version # None /\ k.body # None
    /\ k.body.family = k.family /\ k.body.state = "ADMITTED" /\ k.body.supersedes = {}
    /\ admitCandidateMemory(k.body.evidence, k.body.confidence)
    /\ Earlier[k.pc] \subseteq parts[k.family]

RecallSound(k) ==
  k.pc \in Drawing =>
    /\ k.slice # None /\ k.view # None /\ k.grant # None
    /\ memory[k.view.version] # None
    /\ memory[k.view.version].state # "INVALIDATED"
    /\ memory[k.view.version].confidence = k.view.confidence
    /\ k.pc = "influenceGrant" => slice[k.slice] = k.view

RequestSound(k) ==
  k.pc = "authorized" =>
    /\ k.grant # None /\ k.proposal # None /\ grant[k.grant] # None
    /\ grant[k.grant].slice \in k.proposal.slices
    /\ grant[k.grant].execution = k.proposal.execution
    /\ k.proposal.effects \subseteq SAFE_EFFECTS \ DENIED_EFFECTS

Submitting(k) ==
  \/ k.pc \in {"getEvaluation", "putEvaluation", "update"}
  \/ k.pc = "memory" /\ k.report # None

SubmitSound(k) ==
  /\ k.pc \in Part => k.report = None
  /\ Submitting(k) =>
       /\ k.version # None /\ k.body # None /\ k.evaluation # None /\ k.report # None
       /\ memory[k.report.version] # None
       /\ k.body = applyMemoryUpdate(k.report.version, memory[k.report.version],
                                     k.report.directive)
       /\ k.pc \in {"update", "memory"} /\ ~Upserts => evaluation[k.evaluation] = k.report
       /\ k.pc = "memory" =>
            update[k.version] = [ prior |-> k.report.version, evaluation |-> k.evaluation,
                                  directive |-> k.report.directive ]

\* The ids an invocation has drawn are not taken yet.
Reserved(k) ==
  /\ k.version # None /\ k.pc # "broken" => memory[k.version] = None
  /\ k.pc = "memorySlice" => slice[k.slice] = None
  /\ k.pc \in Drawing => grant[k.grant] = None

Sound(k) == RecordSound(k) /\ RecallSound(k) /\ RequestSound(k) /\ SubmitSound(k) /\ Reserved(k)

\* No two invocations have drawn the same id.
Distinct ==
  \A c, d \in Callers : c # d =>
    /\ call[c].version # None => call[c].version # call[d].version
    /\ call[c].slice # None => call[c].slice # call[d].slice
    /\ call[c].pc \in Drawing /\ call[d].pc \in Drawing => call[c].grant # call[d].grant

AllGrounded == \A g \in Grants : grant[g] # None => Grounded(g)

IInv ==
  /\ TypeOK
  /\ \A c \in Callers : Sound(call[c])
  /\ Distinct
  /\ GraphsLoad /\ VersionsDescend /\ AllGrounded

-----------------------------------------------------------------------------
(* Types of the rules                                                      *)

LEMMA IdleInCall == Idle \in Call
BY DEF Idle, Call

LEMMA IdleSound == Sound(Idle)
BY DEF Idle, Sound, RecordSound, RecallSound, RequestSound, SubmitSound, Submitting,
   Reserved, Part, Drawing

LEMMA NoneIsApart ==
  /\ None \notin Versions /\ None \notin Families /\ None \notin Slices
  /\ None \notin Grants /\ None \notin Evaluations
BY LifecycleRulesAssumption, BehavioralAssumption

LEMMA ConfidenceTyped ==
  ASSUME NEW x \in 0..100, NEW d PROVE nextConfidence(x, d) \in 0..100
<1>1. CASE d = "STRENGTHEN"
  BY <1>1 DEF nextConfidence, AtMost
<1>2. CASE d = "WEAKEN"
  BY <1>2 DEF nextConfidence, AtLeast
<1>3. CASE d = "INVALIDATE"
  BY <1>3 DEF nextConfidence
<1>4. CASE d \notin {"STRENGTHEN", "WEAKEN", "INVALIDATE"}
  BY <1>4 DEF nextConfidence
<1> QED BY <1>1, <1>2, <1>3, <1>4

LEMMA StateTyped ==
  ASSUME NEW x \in State, NEW d PROVE nextState(x, d) \in State
<1>1. CASE d = "STRENGTHEN"
  BY <1>1 DEF nextState, State
<1>2. CASE d \in {"WEAKEN", "QUALIFY"}
  BY <1>2 DEF nextState, State
<1>3. CASE d = "INVALIDATE"
  BY <1>3 DEF nextState, State
<1>4. CASE d = "SUPERSEDE"
  BY <1>4 DEF nextState, State
<1>5. CASE d \notin {"STRENGTHEN", "WEAKEN", "QUALIFY", "INVALIDATE", "SUPERSEDE"}
  BY <1>5 DEF nextState, State
<1> QED BY <1>1, <1>2, <1>3, <1>4, <1>5

\* What a version made of another keeps of it, and that it is a memory.
LEMMA UpdateTyped ==
  ASSUME NEW v \in Versions, NEW m \in Memory, NEW d
  PROVE  /\ applyMemoryUpdate(v, m, d) \in Memory
         /\ applyMemoryUpdate(v, m, d).agent = m.agent
         /\ applyMemoryUpdate(v, m, d).family = m.family
         /\ applyMemoryUpdate(v, m, d).supersedes = m.supersedes \cup {v}
         /\ applyMemoryUpdate(v, m, d).evidence = m.evidence
         /\ applyMemoryUpdate(v, m, d).applicability = m.applicability
<1> DEFINE confidence == nextConfidence(m.confidence, d)
           state == nextState(m.state, d)
<1>1. confidence \in 0..100 /\ state \in State
  BY ConfidenceTyped, StateTyped DEF Memory
<1>2. applyMemoryUpdate(v, m, d) =
        [m EXCEPT !.confidence = confidence, !.state = state,
                  !.supersedes = m.supersedes \cup {v}]
  BY DEF applyMemoryUpdate, Memory
<1> HIDE DEF confidence, state
<1> QED BY <1>1, <1>2 DEF Memory

LEMMA FormedTyped ==
  ASSUME NEW x \in Submissions, NEW f \in Families
  PROVE  formExecutionMemory(x, f) \in Memory
<1>1. x \in Submission /\ Confidences \subseteq 0..100
  BY BehavioralAssumption, LifecycleRulesAssumption
<1>2. /\ x.agent \in Agents /\ x.applicability \in SUBSET Contexts
      /\ x.confidence \in 0..100 /\ x.evidence \in Evidence
  BY <1>1 DEF Submission
<1> QED BY <1>2 DEF formExecutionMemory, Memory, State

-----------------------------------------------------------------------------
(* What a step leaves alone                                                *)

\* A step of c stores under ids c has drawn, and takes nothing back.
Kept(c) ==
  /\ \A f \in Families : parts[f] \subseteq parts'[f]
  /\ \A v \in Versions : memory'[v] = memory[v] \/ (v = call[c].version /\ memory[v] = None)
  /\ \A v \in Versions : update'[v] = update[v] \/ (v = call[c].version /\ memory[v] = None)
  /\ \A s \in Slices : slice'[s] = slice[s] \/ (s = call[c].slice /\ slice[s] = None)
  /\ \A g \in Grants : \/ grant'[g] = grant[g]
                       \/ g = call[c].grant /\ grant[g] = None /\ call[c].pc \in Drawing
  /\ \A e \in Evaluations : evaluation'[e] = evaluation[e] \/ evaluation[e] = None \/ Upserts

LEMMA KeptByStep ==
  ASSUME IInv, NEW c \in Callers, Begin(c) \/ Proceed(c) \/ Abort(c)
  PROVE  Kept(c)
<1> DEFINE now == call[c]
<1>0. now \in Call /\ Sound(now) /\ TypeOK
  BY DEF IInv, TypeOK
<1>1. CASE UNCHANGED <<parts, memory, slice, grant, evaluation, update>>
  BY <1>1 DEF Kept
<1>2. CASE PersistPart(c)
  BY <1>0, <1>2 DEF PersistPart, Kept, TypeOK
<1>3. CASE PersistExecutionMemory(c)
  <2>1. now.version # None /\ memory[now.version] = None
    BY <1>0, <1>3 DEF PersistExecutionMemory, Sound, RecordSound, SubmitSound, Submitting,
       Reserved
  <2> QED BY <1>0, <1>3, <2>1 DEF PersistExecutionMemory, Kept, TypeOK
<1>4. CASE PersistMemorySlice(c)
  <2>1. slice[now.slice] = None
    BY <1>0, <1>4 DEF PersistMemorySlice, Sound, Reserved
  <2> QED BY <1>0, <1>4, <2>1 DEF PersistMemorySlice, Kept, TypeOK
<1>5. CASE PersistInfluenceGrant(c)
  <2>1. grant[now.grant] = None /\ now.pc \in Drawing
    BY <1>0, <1>5 DEF PersistInfluenceGrant, Sound, Reserved, Drawing
  <2> QED BY <1>0, <1>5, <2>1 DEF PersistInfluenceGrant, Kept, TypeOK
<1>6. CASE PutEvaluation(c)
  BY <1>0, <1>6 DEF PutEvaluation, Kept, TypeOK
<1>7. CASE PersistMemoryUpdate(c)
  <2>1. memory[now.version] = None
    BY <1>0, <1>7 DEF PersistMemoryUpdate, Sound, SubmitSound, Submitting, Reserved
  <2> QED BY <1>0, <1>7, <2>1 DEF PersistMemoryUpdate, Kept, TypeOK
<1>8. CASE Begin(c) \/ Abort(c) \/ Answer(c) \/ GetEvaluation(c)
  BY <1>1, <1>8 DEF Begin, Abort, Answer, GetEvaluation, RecordCompleteExecution,
     RecallApplicableMemory, RequestInfluence, SubmitOutcomeEvaluation
<1> QED BY <1>2, <1>3, <1>4, <1>5, <1>6, <1>7, <1>8 DEF Proceed

\* What another invocation holds is worth as much after the step.
LEMMA OthersSound ==
  ASSUME IInv, NEW c \in Callers, Kept(c), NEW d \in Callers, c # d, call'[d] = call[d]
  PROVE  Sound(call[d])'
<1> DEFINE k == call[d]
<1>0. k \in Call /\ Sound(k)
  BY NoneIsApart DEF IInv, TypeOK
<1>1. RecordSound(call[d])'
  <2>1. k.family \in Families \cup {None}
    BY <1>0 DEF Call
  <2> QED BY <1>0, <2>1 DEF Sound, RecordSound, Kept
<1>2. /\ k.version # None /\ k.pc # "broken" => k.version # call[c].version
      /\ k.pc \in Drawing /\ k.slice # None => k.slice # call[c].slice
      /\ k.pc \in Drawing /\ call[c].pc \in Drawing => k.grant # call[c].grant
  BY DEF IInv, Distinct
<1>3. RecallSound(call[d])'
  <2> SUFFICES ASSUME k.pc \in Drawing PROVE RecallSound(call[d])'
    BY DEF RecallSound
  <2>1. k.slice \in Slices /\ k.view \in Slice /\ k.grant \in Grants
    BY <1>0 DEF Call, Sound, RecallSound
  <2>2. memory'[k.view.version] = memory[k.view.version] /\ slice'[k.slice] = slice[k.slice]
    BY <1>0, <1>2, <2>1 DEF Kept, Slice, Sound, RecallSound
  <2> QED BY <1>0, <2>2 DEF Sound, RecallSound
<1>4. RequestSound(call[d])'
  <2> SUFFICES ASSUME k.pc = "authorized" PROVE RequestSound(call[d])'
    BY DEF RequestSound
  <2>1. k.grant \in Grants /\ grant[k.grant] # None
    BY <1>0 DEF Call, Sound, RequestSound
  <2>2. grant'[k.grant] = grant[k.grant]
    BY <2>1 DEF Kept
  <2> QED BY <1>0, <2>2 DEF Sound, RequestSound
<1>5. SubmitSound(call[d])'
  <2>1. CASE ~Submitting(k)
    BY <1>0, <2>1 DEF Sound, SubmitSound, Submitting
  <2>2. CASE Submitting(k)
    <3>1. /\ k.version \in Versions /\ k.version # None
          /\ k.evaluation \in Evaluations /\ k.report \in Report
          /\ k.pc # "broken"
      BY <1>0, <2>2 DEF Call, Sound, SubmitSound, Submitting
    <3>2. memory'[k.report.version] = memory[k.report.version]
      BY <1>0, <2>2, <3>1 DEF Kept, Report, Sound, SubmitSound
    <3>3. update'[k.version] = update[k.version]
      BY <1>0, <1>2, <3>1 DEF Kept
    <3>4. k.pc \in {"update", "memory"} /\ ~Upserts =>
            evaluation'[k.evaluation] = evaluation[k.evaluation]
      <4> SUFFICES ASSUME k.pc \in {"update", "memory"}, ~Upserts
                   PROVE  evaluation'[k.evaluation] = evaluation[k.evaluation]
        OBVIOUS
      <4>1. evaluation[k.evaluation] = k.report /\ k.report # None
        BY <1>0, <2>2 DEF Sound, SubmitSound
      <4> QED BY <3>1, <4>1 DEF Kept
    <3>5. k.pc \in Part => k.report = None
      BY <1>0 DEF Sound, SubmitSound
    <3> QED BY <1>0, <2>2, <3>2, <3>3, <3>4, <3>5 DEF Sound, SubmitSound, Submitting
  <2> QED BY <2>1, <2>2
<1>6. Reserved(call[d])'
  <2>1. k.version # None /\ k.pc # "broken" => memory'[k.version] = None
    BY <1>0, <1>2 DEF Kept, Sound, Reserved, Call
  <2>2. k.pc = "memorySlice" => slice'[k.slice] = None
    BY <1>0, <1>2 DEF Kept, Sound, Reserved, RecallSound, Call, Drawing
  <2>3. k.pc \in Drawing => grant'[k.grant] = None
    BY <1>0, <1>2 DEF Kept, Sound, Reserved, RecallSound, Call
  <2> QED BY <2>1, <2>2, <2>3 DEF Reserved
<1> QED BY <1>1, <1>3, <1>4, <1>5, <1>6 DEF Sound

\* Ids stay apart when a step keeps the ids its invocation holds, or draws unused ones.
LEMMA DistinctStep ==
  ASSUME TypeOK, Distinct, NEW c \in Callers, NEW k, call' = [call EXCEPT ![c] = k],
         \/ k.version \in {None, call[c].version}
         \/ \A d \in Callers : call[d].version # k.version,
         \/ k.slice \in {None, call[c].slice}
         \/ \A d \in Callers : call[d].slice # k.slice,
         \/ k.pc \notin Drawing
         \/ k.grant = call[c].grant /\ call[c].pc \in Drawing
         \/ \A d \in Callers : call[d].grant # k.grant
  PROVE  Distinct'
<1> SUFFICES ASSUME NEW x \in Callers, NEW y \in Callers, x # y
    PROVE /\ call'[x].version # None => call'[x].version # call'[y].version
          /\ call'[x].slice # None => call'[x].slice # call'[y].slice
          /\ call'[x].pc \in Drawing /\ call'[y].pc \in Drawing =>
               call'[x].grant # call'[y].grant
  BY DEF Distinct
<1>1. call'[c] = k /\ \A d \in Callers \ {c} : call'[d] = call[d]
  BY DEF TypeOK
<1>2. CASE x = c
  BY <1>1, <1>2 DEF Distinct
<1>3. CASE y = c
  BY <1>1, <1>3 DEF Distinct
<1>4. CASE x # c /\ y # c
  BY <1>1, <1>4 DEF Distinct
<1> QED BY <1>2, <1>3, <1>4

-----------------------------------------------------------------------------
(* What the invocation that takes a step holds afterwards                  *)

CallsOK(c) ==
  /\ call' \in [Callers -> Call]
  /\ Sound(call[c])'
  /\ Distinct'
  /\ \A d \in Callers \ {c} : call'[d] = call[d]

LEMMA Replacing ==
  ASSUME TypeOK, NEW c \in Callers, NEW k \in Call, call' = [call EXCEPT ![c] = k]
  PROVE  /\ call' \in [Callers -> Call] /\ call'[c] = k
         /\ \A d \in Callers \ {c} : call'[d] = call[d]
BY DEF TypeOK

LEMMA ReturnCalls ==
  ASSUME IInv, NEW c \in Callers, Return(c) PROVE CallsOK(c)
<1>1. call' = [call EXCEPT ![c] = Idle] /\ call'[c] = Idle
  BY DEF Return, IInv, TypeOK
<1>2. Sound(call[c])'
  BY <1>1 DEF Idle, Sound, RecordSound, RecallSound, RequestSound, SubmitSound, Submitting,
     Reserved, Part, Drawing
<1>3. Distinct'
  <2>1. Idle.version = None /\ Idle.slice = None /\ Idle.pc \notin Drawing
    BY DEF Idle, Drawing
  <2> QED BY <1>1, <2>1, DistinctStep DEF IInv
<1> QED BY <1>1, <1>2, <1>3, Replacing, IdleInCall DEF CallsOK, IInv

\* The record a Goto leaves.
LEMMA GotoCalls ==
  ASSUME IInv, NEW c \in Callers, NEW pc, Goto(c, pc),
         pc \in Part \cup {"memory", "update", "putEvaluation", "influenceGrant", "broken"},
         pc \in Drawing => call[c].pc \in Drawing
  PROVE  /\ call' \in [Callers -> Call] /\ Distinct'
         /\ call'[c] = [call[c] EXCEPT !.pc = pc]
         /\ \A d \in Callers \ {c} : call'[d] = call[d]
<1> DEFINE k == [call[c] EXCEPT !.pc = pc]
<1>1. call[c] \in Call
  BY DEF IInv, TypeOK
<1>2. /\ k \in Call /\ k.version = call[c].version /\ k.slice = call[c].slice
      /\ k.grant = call[c].grant /\ k.pc = pc
  BY <1>1 DEF Call
<1>3. call' = [call EXCEPT ![c] = k]
  BY DEF Goto, IInv, TypeOK
<1> HIDE DEF k
<1>4. Distinct'
  BY <1>2, <1>3, DistinctStep DEF IInv
<1> QED BY <1>2, <1>3, <1>4, Replacing DEF IInv, k

LEMMA RecordStep ==
  ASSUME IInv, NEW c \in Callers, NEW x \in Submissions, NEW f \in Families,
         NEW v \in Versions, RecordCompleteExecution(c, x, f, v)
  PROVE  TypeOK' /\ CallsOK(c)
<1> DEFINE body == formExecutionMemory(x, f)
           k == [Idle EXCEPT !.pc = "episode", !.family = f, !.version = v, !.body = body]
<1>1. body \in Memory
  BY FormedTyped
<1>2. /\ body.family = f /\ body.state = "ADMITTED" /\ body.supersedes = {}
      /\ admitCandidateMemory(body.evidence, body.confidence)
      /\ body # None
  <2>1. body # None
    BY <1>1, LifecycleRulesAssumption
  <2> QED BY <2>1 DEF RecordCompleteExecution, formExecutionMemory
<1> HIDE DEF body
<1>3. /\ k \in Call /\ k.pc = "episode" /\ k.family = f /\ k.version = v /\ k.body = body
      /\ k.slice = None /\ k.report = None
  BY <1>1, IdleInCall DEF Call, Idle, Part
<1>4. call' = [call EXCEPT ![c] = k]
  BY DEF RecordCompleteExecution, body
<1> HIDE DEF k
<1>5. memory[v] = None /\ \A d \in Callers : call[d].version # v
  BY DEF RecordCompleteExecution, FreshVersion
<1>6. UNCHANGED <<parts, memory, slice, grant, evaluation, update>>
  BY DEF RecordCompleteExecution
<1>7. Distinct'
  BY <1>3, <1>4, <1>5, DistinctStep DEF IInv, Drawing
<1>8. call'[c] = k
  BY <1>3, <1>4, Replacing DEF IInv
<1>9. Sound(call[c])'
  <2>1. RecordSound(call[c])'
    BY <1>2, <1>3, <1>8, NoneIsApart DEF RecordSound, Earlier
  <2>2. RecallSound(call[c])' /\ RequestSound(call[c])' /\ SubmitSound(call[c])'
    BY <1>3, <1>8 DEF RecallSound, RequestSound, SubmitSound, Submitting, Drawing
  <2>3. Reserved(call[c])'
    BY <1>3, <1>5, <1>6, <1>8 DEF Reserved, Drawing
  <2> QED BY <2>1, <2>2, <2>3 DEF Sound
<1> QED BY <1>3, <1>4, <1>6, <1>7, <1>9, Replacing DEF CallsOK, IInv, TypeOK

LEMMA PartStep ==
  ASSUME IInv, NEW c \in Callers, PersistPart(c)
  PROVE  TypeOK' /\ CallsOK(c)
<1> DEFINE now == call[c]
           pc == Following[now.pc]
<1>0. now \in Call /\ Sound(now) /\ TypeOK /\ now.pc \in Part
  BY DEF IInv, TypeOK, PersistPart
<1>1. pc \in Part \cup {"memory"} /\ Earlier[pc] = Earlier[now.pc] \cup {now.pc}
  BY <1>0 DEF Following, Part, Earlier
<1>2. now.report = None /\ now.family \in Families
  BY <1>0 DEF Sound, SubmitSound, RecordSound, Call
<1> HIDE DEF pc
<1>3. /\ call' \in [Callers -> Call] /\ Distinct'
      /\ call'[c] = [now EXCEPT !.pc = pc]
      /\ \A d \in Callers \ {c} : call'[d] = call[d]
  BY <1>1, GotoCalls DEF PersistPart, Part, Drawing, pc
<1>4. /\ call'[c].pc = pc /\ call'[c].family = now.family /\ call'[c].version = now.version
      /\ call'[c].body = now.body /\ call'[c].report = None
  BY <1>0, <1>2, <1>3 DEF Call
<1>5. parts' = [parts EXCEPT ![now.family] = @ \cup {now.pc}]
  BY DEF PersistPart
<1>6. RecordSound(call[c])'
  BY <1>0, <1>1, <1>2, <1>4, <1>5 DEF Sound, RecordSound, TypeOK
<1>7. RecallSound(call[c])' /\ RequestSound(call[c])' /\ SubmitSound(call[c])'
  BY <1>1, <1>4 DEF RecallSound, RequestSound, SubmitSound, Submitting, Drawing, Part
<1>8. Reserved(call[c])'
  BY <1>0, <1>1, <1>4 DEF PersistPart, Sound, Reserved, Drawing, Part
<1>9. parts' \in [Families -> SUBSET Part]
  BY <1>0, <1>2, <1>5 DEF TypeOK
<1> QED BY <1>0, <1>3, <1>6, <1>7, <1>8, <1>9 DEF CallsOK, Sound, TypeOK, PersistPart

LEMMA MemoryStep ==
  ASSUME IInv, NEW c \in Callers, PersistExecutionMemory(c)
  PROVE  TypeOK' /\ CallsOK(c)
<1> DEFINE now == call[c]
<1>0. now \in Call /\ Sound(now) /\ TypeOK /\ now.pc = "memory"
  BY DEF IInv, TypeOK, PersistExecutionMemory
<1>1. now.version \in Versions /\ now.body \in Memory
  BY <1>0 DEF Sound, RecordSound, SubmitSound, Submitting, Call
<1>2. CallsOK(c)
  BY ReturnCalls DEF PersistExecutionMemory
<1> QED BY <1>0, <1>1, <1>2 DEF PersistExecutionMemory, TypeOK, CallsOK

LEMMA RecallStep ==
  ASSUME IInv, NEW c \in Callers, NEW v \in Versions, NEW context \in Contexts,
         NEW agent \in Agents, NEW e \in Executions, NEW s \in Slices, NEW g \in Grants,
         RecallApplicableMemory(c, v, context, agent, e, s, g)
  PROVE  TypeOK' /\ CallsOK(c)
<1> DEFINE view == materializeMemorySlice(v, agent, e)
           k == [Idle EXCEPT !.pc = "memorySlice", !.slice = s, !.grant = g, !.view = view]
<1>0. /\ memory[v] # None /\ memory[v].state # "INVALIDATED"
      /\ slice[s] = None /\ \A d \in Callers : call[d].slice # s
      /\ grant[g] = None /\ \A d \in Callers : call[d].grant # g
  BY DEF RecallApplicableMemory, Recallable, isCurrentMemoryEligible, FreshSlice, FreshGrant
<1>1. memory[v] \in Memory
  BY <1>0 DEF IInv, TypeOK
<1>2. view \in Slice /\ view.version = v /\ view.confidence = memory[v].confidence
  BY <1>1 DEF materializeMemorySlice, Slice, Memory
<1>3. view # None
  BY <1>2, BehavioralAssumption
<1>4. call' = [call EXCEPT ![c] = k] /\ UNCHANGED <<parts, memory, slice, grant, evaluation, update>>
  BY DEF RecallApplicableMemory
<1> HIDE DEF view
<1>5. /\ k \in Call /\ k.pc = "memorySlice" /\ k.slice = s /\ k.grant = g /\ k.view = view
      /\ k.version = None /\ k.report = None
  BY <1>2, IdleInCall DEF Call, Idle
<1> HIDE DEF k
<1>6. Distinct'
  BY <1>0, <1>4, <1>5, DistinctStep DEF IInv
<1>7. call'[c] = k
  BY <1>4, <1>5, Replacing DEF IInv
<1>8. Sound(call[c])'
  <2>1. RecallSound(call[c])'
    BY <1>0, <1>2, <1>3, <1>4, <1>5, <1>7, NoneIsApart DEF RecallSound
  <2>2. RecordSound(call[c])' /\ RequestSound(call[c])' /\ SubmitSound(call[c])'
    BY <1>5, <1>7 DEF RecordSound, RequestSound, SubmitSound, Submitting, Part
  <2>3. Reserved(call[c])'
    BY <1>0, <1>4, <1>5, <1>7 DEF Reserved
  <2> QED BY <2>1, <2>2, <2>3 DEF Sound
<1> QED BY <1>4, <1>5, <1>6, <1>8, Replacing DEF CallsOK, IInv, TypeOK

LEMMA SliceStep ==
  ASSUME IInv, NEW c \in Callers, PersistMemorySlice(c)
  PROVE  TypeOK' /\ CallsOK(c)
<1> DEFINE now == call[c]
<1>0. now \in Call /\ Sound(now) /\ TypeOK /\ now.pc = "memorySlice"
  BY DEF IInv, TypeOK, PersistMemorySlice
<1>1. now.slice \in Slices /\ now.view \in Slice
  BY <1>0 DEF Sound, RecallSound, Call, Drawing
<1>2. /\ call' \in [Callers -> Call] /\ Distinct'
      /\ call'[c] = [now EXCEPT !.pc = "influenceGrant"]
      /\ \A d \in Callers \ {c} : call'[d] = call[d]
  BY <1>0, GotoCalls DEF PersistMemorySlice, Drawing
<1>3. /\ call'[c].pc = "influenceGrant" /\ call'[c].slice = now.slice
      /\ call'[c].view = now.view /\ call'[c].grant = now.grant
      /\ call'[c].version = now.version
  BY <1>0, <1>2 DEF Call
<1>4. slice' = [slice EXCEPT ![now.slice] = now.view]
      /\ UNCHANGED <<parts, memory, grant, evaluation, update>>
  BY DEF PersistMemorySlice
<1>5. RecallSound(call[c])'
  BY <1>0, <1>1, <1>3, <1>4 DEF Sound, RecallSound, TypeOK, Drawing
<1>6. RecordSound(call[c])' /\ RequestSound(call[c])' /\ SubmitSound(call[c])'
  BY <1>3 DEF RecordSound, RequestSound, SubmitSound, Submitting, Part
<1>7. Reserved(call[c])'
  BY <1>0, <1>3, <1>4 DEF Sound, Reserved, Drawing
<1>8. slice' \in [Slices -> Slice \cup {None}]
  BY <1>0, <1>1, <1>4 DEF TypeOK
<1> QED BY <1>0, <1>2, <1>4, <1>5, <1>6, <1>7, <1>8 DEF CallsOK, Sound, TypeOK

LEMMA GrantStep ==
  ASSUME IInv, NEW c \in Callers, PersistInfluenceGrant(c)
  PROVE  TypeOK' /\ CallsOK(c)
<1> DEFINE now == call[c]
<1>0. now \in Call /\ Sound(now) /\ TypeOK /\ now.pc = "influenceGrant"
  BY DEF IInv, TypeOK, PersistInfluenceGrant
<1>1. now.slice \in Slices /\ now.view \in Slice
  BY <1>0 DEF Sound, RecallSound, Call, Drawing
<1>2. materializeInfluenceGrant(now.slice, now.view) \in Grant
  BY <1>1 DEF materializeInfluenceGrant, Grant, Slice
<1>3. CallsOK(c)
  BY ReturnCalls DEF PersistInfluenceGrant
<1> QED BY <1>0, <1>2, <1>3 DEF PersistInfluenceGrant, TypeOK, CallsOK

LEMMA RequestStep ==
  ASSUME IInv, NEW c \in Callers, NEW g \in Grants, NEW agent \in Agents,
         NEW p \in Proposal, RequestInfluence(c, g, agent, p)
  PROVE  TypeOK' /\ CallsOK(c)
<1> DEFINE k == [Idle EXCEPT !.pc = "authorized", !.grant = g, !.proposal = p]
<1>1. /\ k \in Call /\ k.pc = "authorized" /\ k.grant = g /\ k.proposal = p
      /\ k.version = None /\ k.slice = None /\ k.report = None
  BY IdleInCall DEF Call, Idle
<1>2. call' = [call EXCEPT ![c] = k] /\ UNCHANGED <<parts, memory, slice, grant, evaluation, update>>
  BY DEF RequestInfluence
<1>3. /\ grant[g] # None /\ p.execution = grant[g].execution /\ grant[g].slice \in p.slices
      /\ p.effects \subseteq SAFE_EFFECTS \ DENIED_EFFECTS
  BY DEF RequestInfluence, assertBehavioralProposalAuthorizedByGrant
<1>4. p # None /\ g # None
  BY BehavioralAssumption
<1> HIDE DEF k
<1>5. Distinct'
  BY <1>1, <1>2, DistinctStep DEF IInv, Drawing
<1>6. call'[c] = k
  BY <1>1, <1>2, Replacing DEF IInv
<1>7. Sound(call[c])'
  BY <1>1, <1>2, <1>3, <1>4, <1>6 DEF Sound, RecordSound, RecallSound, RequestSound,
     SubmitSound, Submitting, Reserved, Part, Drawing
<1> QED BY <1>1, <1>2, <1>5, <1>7, Replacing DEF CallsOK, IInv, TypeOK

LEMMA SubmitStep ==
  ASSUME IInv, NEW c \in Callers, NEW e \in Evaluations, NEW report \in Report,
         NEW v \in Versions, SubmitOutcomeEvaluation(c, e, report, v)
  PROVE  TypeOK' /\ CallsOK(c)
<1> DEFINE body == applyMemoryUpdate(report.version, memory[report.version], report.directive)
           k == [Idle EXCEPT !.pc = "getEvaluation", !.evaluation = e, !.report = report,
                             !.version = v, !.body = body]
<1>0. /\ memory[report.version] # None /\ memory[v] = None
      /\ \A d \in Callers : call[d].version # v
      /\ UNCHANGED <<parts, memory, slice, grant, evaluation, update>>
      /\ call' = [call EXCEPT ![c] = k]
  BY DEF SubmitOutcomeEvaluation, FreshVersion
<1>1. report.version \in Versions /\ memory[report.version] \in Memory
  BY <1>0 DEF Report, IInv, TypeOK
<1>2. body \in Memory /\ body # None
  BY <1>1, UpdateTyped, LifecycleRulesAssumption
<1>3. e # None /\ report # None /\ v # None
  BY BehavioralAssumption, LifecycleRulesAssumption
<1>4. /\ k \in Call /\ k.pc = "getEvaluation" /\ k.evaluation = e /\ k.report = report
      /\ k.version = v /\ k.body = body /\ k.slice = None
  <2> HIDE DEF body
  <2> QED BY <1>2, IdleInCall DEF Call, Idle
<1> HIDE DEF k
<1>5. Distinct'
  BY <1>0, <1>4, DistinctStep DEF IInv, Drawing
<1>6. call'[c] = k
  BY <1>0, <1>4, Replacing DEF IInv
<1>7. SubmitSound(call[c])'
  BY <1>0, <1>2, <1>3, <1>4, <1>6 DEF SubmitSound, Submitting, Part
<1>8. RecordSound(call[c])' /\ RecallSound(call[c])' /\ RequestSound(call[c])' /\ Reserved(call[c])'
  BY <1>0, <1>4, <1>6 DEF RecordSound, RecallSound, RequestSound, Reserved, Part, Drawing
<1> QED BY <1>0, <1>4, <1>5, <1>7, <1>8, Replacing DEF CallsOK, Sound, IInv, TypeOK

\* A step of a submission that keeps what it holds.
LEMMA SubmittingOn ==
  ASSUME IInv, NEW c \in Callers, NEW pc \in {"putEvaluation", "update", "memory"},
         Submitting(call[c]), call[c].pc # "memory", Goto(c, pc),
         UNCHANGED <<parts, memory, slice, grant>>,
         pc # "putEvaluation" /\ ~Upserts =>
           evaluation'[call[c].evaluation] = call[c].report,
         pc = "memory" => update'[call[c].version] =
           [ prior |-> call[c].report.version, evaluation |-> call[c].evaluation,
             directive |-> call[c].report.directive ]
  PROVE  CallsOK(c)
<1> DEFINE now == call[c]
<1>0. now \in Call /\ Sound(now) /\ now.pc \notin Part \cup Drawing \cup {"broken"}
  BY DEF IInv, TypeOK, Submitting, Part, Drawing
<1>1. /\ call' \in [Callers -> Call] /\ Distinct'
      /\ call'[c] = [now EXCEPT !.pc = pc]
      /\ \A d \in Callers \ {c} : call'[d] = call[d]
  BY GotoCalls DEF Drawing
<1>2. /\ call'[c].pc = pc /\ call'[c].version = now.version /\ call'[c].body = now.body
      /\ call'[c].evaluation = now.evaluation /\ call'[c].report = now.report
  BY <1>0, <1>1 DEF Call
<1>3. now.report # None
  BY <1>0 DEF Sound, SubmitSound
<1>4. SubmitSound(call[c])'
  BY <1>0, <1>2, <1>3 DEF Sound, SubmitSound, Submitting, Part
<1>5. RecordSound(call[c])' /\ RecallSound(call[c])' /\ RequestSound(call[c])'
  BY <1>2, <1>3 DEF RecordSound, RecallSound, RequestSound, Part, Drawing
<1>6. Reserved(call[c])'
  BY <1>0, <1>2 DEF Sound, Reserved, Drawing
<1> QED BY <1>1, <1>4, <1>5, <1>6 DEF CallsOK, Sound

LEMMA GetEvaluationStep ==
  ASSUME IInv, NEW c \in Callers, GetEvaluation(c)
  PROVE  TypeOK' /\ CallsOK(c)
<1>0. Submitting(call[c]) /\ call[c].pc # "memory"
  BY DEF GetEvaluation, Submitting
<1>1. CASE Goto(c, "putEvaluation")
  BY <1>0, <1>1, SubmittingOn DEF GetEvaluation, CallsOK, IInv, TypeOK
<1>2. CASE Goto(c, "update") /\ evaluation[call[c].evaluation] = call[c].report
  BY <1>0, <1>2, SubmittingOn DEF GetEvaluation, CallsOK, IInv, TypeOK
<1>3. CASE Return(c)
  BY <1>3, ReturnCalls DEF GetEvaluation, CallsOK, IInv, TypeOK
<1> QED BY <1>1, <1>2, <1>3 DEF GetEvaluation

LEMMA PutEvaluationStep ==
  ASSUME IInv, NEW c \in Callers, PutEvaluation(c)
  PROVE  TypeOK' /\ CallsOK(c)
<1> DEFINE now == call[c]
<1>0. /\ Submitting(now) /\ now.pc # "memory" /\ TypeOK
      /\ UNCHANGED <<parts, memory, slice, grant, update>>
  BY DEF PutEvaluation, Submitting, IInv
<1>1. now.evaluation \in Evaluations /\ now.report \in Report
  BY <1>0 DEF IInv, TypeOK, Call, Sound, SubmitSound
<1>2. CASE evaluation' = [evaluation EXCEPT ![now.evaluation] = now.report] /\ Goto(c, "update")
  <2>1. evaluation' \in [Evaluations -> Report \cup {None}]
        /\ evaluation'[now.evaluation] = now.report
    BY <1>0, <1>1, <1>2 DEF TypeOK
  <2>2. CallsOK(c)
    BY <1>0, <1>2, <2>1, SubmittingOn
  <2> QED BY <1>0, <2>1, <2>2 DEF CallsOK, TypeOK
<1>3. CASE UNCHANGED evaluation /\ Return(c)
  BY <1>0, <1>3, ReturnCalls DEF CallsOK, TypeOK
<1> QED BY <1>2, <1>3 DEF PutEvaluation

LEMMA UpdateStep ==
  ASSUME IInv, NEW c \in Callers, PersistMemoryUpdate(c)
  PROVE  TypeOK' /\ CallsOK(c)
<1> DEFINE now == call[c]
           record == [ prior |-> now.report.version, evaluation |-> now.evaluation,
                       directive |-> now.report.directive ]
<1>0. /\ Submitting(now) /\ now.pc = "update" /\ TypeOK /\ Sound(now) /\ now \in Call
      /\ UNCHANGED <<parts, memory, slice, grant, evaluation>>
      /\ update' = [update EXCEPT ![now.version] = record] /\ Goto(c, "memory")
  BY DEF PersistMemoryUpdate, Submitting, IInv, TypeOK
<1>1. now.evaluation \in Evaluations /\ now.report \in Report /\ now.version \in Versions
  BY <1>0 DEF Call, Sound, SubmitSound
<1>2. record \in Update
  BY <1>1 DEF Report, Update
<1> HIDE DEF record
<1>3. update' \in [Versions -> Update \cup {None}] /\ update'[now.version] = record
  BY <1>0, <1>1, <1>2 DEF TypeOK
<1>4. ~Upserts => evaluation'[now.evaluation] = now.report
  BY <1>0 DEF Sound, SubmitSound
<1>5. CallsOK(c)
  BY <1>0, <1>3, <1>4, SubmittingOn DEF record
<1> QED BY <1>0, <1>3, <1>5 DEF CallsOK, TypeOK

LEMMA AbortStep ==
  ASSUME IInv, NEW c \in Callers, Abort(c)
  PROVE  TypeOK' /\ CallsOK(c)
<1>1. /\ call' \in [Callers -> Call] /\ Distinct'
      /\ call'[c] = [call[c] EXCEPT !.pc = "broken"]
      /\ \A d \in Callers \ {c} : call'[d] = call[d]
      /\ UNCHANGED <<parts, memory, slice, grant, evaluation, update>>
  BY GotoCalls DEF Abort, Drawing
<1>2. call'[c].pc = "broken"
  BY <1>1 DEF IInv, TypeOK, Call
<1>3. Sound(call[c])'
  BY <1>2 DEF Sound, RecordSound, RecallSound, RequestSound, SubmitSound, Submitting,
     Reserved, Part, Drawing
<1> QED BY <1>1, <1>3 DEF CallsOK, IInv, TypeOK

LEMMA CallsStep ==
  ASSUME IInv, NEW c \in Callers, Begin(c) \/ Proceed(c) \/ Abort(c)
  PROVE  TypeOK' /\ CallsOK(c)
<1>1. CASE Begin(c)
  <2>1. [version : Versions, directive : Verdicts] \subseteq Report
    BY BehavioralAssumption DEF Report
  <2> QED BY <1>1, <2>1, RecordStep, RecallStep, RequestStep, SubmitStep DEF Begin
<1>2. CASE Answer(c)
  BY <1>2, ReturnCalls DEF Answer, CallsOK, IInv, TypeOK
<1> QED BY <1>1, <1>2, PartStep, MemoryStep, SliceStep, GrantStep, GetEvaluationStep,
       PutEvaluationStep, UpdateStep, AbortStep DEF Proceed

-----------------------------------------------------------------------------
(* The store                                                               *)

\* A memory that is stored is the first of its family, or made of a stored one.
LEMMA NewVersion ==
  ASSUME IInv, NEW c \in Callers, PersistExecutionMemory(c)
  PROVE  LET v == call[c].version
             m == call[c].body
             p == call[c].report.version
         IN  /\ v \in Versions /\ memory[v] = None /\ m \in Memory
             /\ memory' = [memory EXCEPT ![v] = m]
             /\ \/ /\ m.supersedes = {} /\ m.state = "ADMITTED"
                   /\ admitCandidateMemory(m.evidence, m.confidence)
                   /\ parts[m.family] = Part
                \/ /\ call[c].report \in Report /\ memory[p] # None /\ p # v
                   /\ m = applyMemoryUpdate(p, memory[p], call[c].report.directive)
                   /\ ~Upserts => evaluation[call[c].evaluation] = call[c].report
                   /\ update[v] = [ prior |-> p, evaluation |-> call[c].evaluation,
                                    directive |-> call[c].report.directive ]
<1> DEFINE now == call[c]
<1>0. /\ now \in Call /\ Sound(now) /\ TypeOK /\ now.pc = "memory"
      /\ memory' = [memory EXCEPT ![now.version] = now.body]
  BY DEF IInv, TypeOK, PersistExecutionMemory
<1>1. /\ now.version \in Versions /\ now.version # None /\ now.body \in Memory
      /\ memory[now.version] = None
  BY <1>0 DEF Sound, RecordSound, SubmitSound, Submitting, Reserved, Call
<1>2. CASE now.report = None
  <2>1. now.body.family = now.family /\ parts[now.family] = Part
    <3>1. now.family \in Families /\ Part \subseteq parts[now.family]
          /\ now.body.family = now.family
      BY <1>0, <1>2 DEF Sound, RecordSound, Earlier, Call
    <3> QED BY <1>0, <3>1 DEF TypeOK
  <2> QED BY <1>0, <1>1, <1>2, <2>1 DEF Sound, RecordSound
<1>3. CASE now.report # None
  BY <1>0, <1>1, <1>3 DEF Sound, SubmitSound, Submitting, Call
<1> QED BY <1>2, <1>3

\* Only the last put of a record or of a submission changes what memories there are.
LEMMA MemoryWriter ==
  ASSUME IInv, NEW c \in Callers, Begin(c) \/ Proceed(c) \/ Abort(c),
         ~PersistExecutionMemory(c)
  PROVE  memory' = memory
BY DEF Begin, Proceed, Abort, Answer, GetEvaluation, PutEvaluation, PersistMemoryUpdate,
   PersistPart, PersistMemorySlice, PersistInfluenceGrant, RecordCompleteExecution,
   RecallApplicableMemory, RequestInfluence, SubmitOutcomeEvaluation

LEMMA GrantWriter ==
  ASSUME IInv, NEW c \in Callers, Begin(c) \/ Proceed(c) \/ Abort(c),
         ~PersistInfluenceGrant(c)
  PROVE  grant' = grant
BY DEF Begin, Proceed, Abort, Answer, GetEvaluation, PutEvaluation, PersistMemoryUpdate,
   PersistPart, PersistMemorySlice, PersistExecutionMemory, RecordCompleteExecution,
   RecallApplicableMemory, RequestInfluence, SubmitOutcomeEvaluation

LEMMA PartsStay ==
  ASSUME IInv, TypeOK', NEW c \in Callers, Kept(c), NEW f \in Families, parts[f] = Part
  PROVE  parts'[f] = Part
<1>1. Part \subseteq parts'[f]
  BY DEF Kept
<1>2. parts'[f] \subseteq Part
  BY DEF TypeOK
<1> QED BY <1>1, <1>2

LEMMA GraphsStep ==
  ASSUME IInv, TypeOK', NEW c \in Callers, Begin(c) \/ Proceed(c) \/ Abort(c)
  PROVE  GraphsLoad'
<1> SUFFICES ASSUME NEW v \in Versions, memory'[v] # None
    PROVE parts'[memory'[v].family] = Part
  BY DEF GraphsLoad
<1>0. Kept(c) /\ GraphsLoad /\ memory'[v] \in Memory /\ TypeOK
  BY KeptByStep DEF IInv, TypeOK
<1>1. CASE memory'[v] = memory[v]
  <2>1. memory[v].family \in Families /\ parts[memory[v].family] = Part
    BY <1>0, <1>1 DEF GraphsLoad, Memory
  <2> QED BY <1>0, <1>1, <2>1, PartsStay
<1>2. CASE memory'[v] # memory[v]
  <2> DEFINE m == call[c].body
             p == call[c].report.version
  <2>1. PersistExecutionMemory(c)
    BY <1>2, MemoryWriter
  <2>2. v = call[c].version /\ memory'[v] = m
    BY <1>0, <1>2, <2>1, NewVersion DEF Kept, TypeOK
  <2>3. CASE parts[m.family] = Part
    BY <1>0, <2>2, <2>3, PartsStay DEF Memory
  <2>4. CASE /\ call[c].report \in Report /\ memory[p] # None
             /\ m = applyMemoryUpdate(p, memory[p], call[c].report.directive)
    <3>1. p \in Versions /\ memory[p] \in Memory
      BY <1>0, <2>4 DEF Report, TypeOK
    <3>2. m.family = memory[p].family
      BY <2>4, <3>1, UpdateTyped
    <3>3. m.family \in Families /\ parts[m.family] = Part
      BY <1>0, <2>4, <3>1, <3>2 DEF GraphsLoad, Memory
    <3> QED BY <1>0, <2>2, <3>3, PartsStay
  <2> QED BY <2>1, <2>3, <2>4, NewVersion
<1> QED BY <1>1, <1>2

LEMMA DescendStep ==
  ASSUME IInv, TypeOK', NEW c \in Callers, Begin(c) \/ Proceed(c) \/ Abort(c)
  PROVE  VersionsDescend'
<1>0. Kept(c) /\ VersionsDescend /\ TypeOK
  BY KeptByStep DEF IInv
<1>1. ASSUME NEW u \in Versions, memory[u] # None PROVE memory'[u] = memory[u]
  BY <1>0, <1>1 DEF Kept
<1>2. ASSUME NEW v \in Versions, memory[v] # None PROVE memory[v].supersedes \subseteq Versions
  BY <1>0, <1>2 DEF TypeOK, Memory
<1> SUFFICES ASSUME NEW v \in Versions, memory'[v] # None
    PROVE  /\ v \notin memory'[v].supersedes
           /\ \A u \in memory'[v].supersedes :
                /\ memory'[u] # None
                /\ memory'[u].agent = memory'[v].agent
                /\ memory'[u].family = memory'[v].family
                /\ memory'[u].supersedes \subseteq memory'[v].supersedes
  BY DEF VersionsDescend
<1>3. CASE memory'[v] = memory[v]
  BY <1>0, <1>1, <1>2, <1>3 DEF VersionsDescend
<1>4. CASE memory'[v] # memory[v]
  <2> DEFINE m == call[c].body
             p == call[c].report.version
  <2>1. PersistExecutionMemory(c)
    BY <1>4, MemoryWriter
  <2>2. v = call[c].version /\ memory'[v] = m /\ memory[v] = None
    BY <1>0, <1>4, <2>1, NewVersion DEF Kept, TypeOK
  <2>3. CASE m.supersedes = {}
    BY <2>2, <2>3
  <2>4. CASE /\ call[c].report \in Report /\ memory[p] # None
             /\ m = applyMemoryUpdate(p, memory[p], call[c].report.directive)
    <3>1. p \in Versions /\ memory[p] \in Memory
      BY <1>0, <2>4 DEF Report, TypeOK
    <3>2. /\ m.agent = memory[p].agent /\ m.family = memory[p].family
          /\ m.supersedes = memory[p].supersedes \cup {p}
      BY <2>4, <3>1, UpdateTyped
    <3> HIDE DEF m, p
    <3>3. ASSUME NEW u \in m.supersedes
          PROVE  /\ u \in Versions /\ memory[u] # None
                 /\ memory[u].agent = m.agent /\ memory[u].family = m.family
                 /\ memory[u].supersedes \subseteq m.supersedes
      <4>1. CASE u = p
        BY <2>4, <3>1, <3>2, <4>1
      <4>2. CASE u \in memory[p].supersedes
        BY <1>0, <1>2, <2>4, <3>1, <3>2, <4>2 DEF VersionsDescend
      <4> QED BY <3>2, <3>3, <4>1, <4>2
    <3>4. v \notin m.supersedes
      BY <2>2, <3>3
    <3> QED BY <1>1, <2>2, <3>3, <3>4
  <2> QED BY <2>1, <2>3, <2>4, NewVersion
<1> QED BY <1>3, <1>4

LEMMA GroundedStep ==
  ASSUME IInv, TypeOK', NEW c \in Callers, Begin(c) \/ Proceed(c) \/ Abort(c)
  PROVE  AllGrounded'
<1>0. Kept(c) /\ AllGrounded /\ GraphsLoad /\ TypeOK
  BY KeptByStep DEF IInv
<1> SUFFICES ASSUME NEW g \in Grants, grant'[g] # None PROVE Grounded(g)'
  BY DEF AllGrounded
\* What is said of a slice made of a stored memory stays true.
<1>1. ASSUME NEW s \in Slice, memory[s.version] # None
      PROVE  /\ memory'[s.version] = memory[s.version]
             /\ memory[s.version].family \in Families
             /\ parts'[memory[s.version].family] = Part
  <2>1. s.version \in Versions
    BY DEF Slice
  <2>2. memory'[s.version] = memory[s.version] /\ memory[s.version] \in Memory
    BY <1>0, <1>1, <2>1 DEF Kept, TypeOK
  <2>3. memory[s.version].family \in Families /\ parts[memory[s.version].family] = Part
    BY <1>0, <1>1, <2>1, <2>2 DEF GraphsLoad, Memory
  <2> QED BY <1>0, <2>2, <2>3, PartsStay
<1>2. CASE grant'[g] = grant[g]
  <2> DEFINE s == slice[grant[g].slice]
  <2>1. grant[g].slice \in Slices /\ Grounded(g)
    BY <1>0, <1>2 DEF TypeOK, Grant, AllGrounded
  <2>2. s # None /\ s \in Slice /\ memory[s.version] # None
    BY <1>0, <2>1 DEF TypeOK, Grounded
  <2>3. slice'[grant[g].slice] = s
    BY <1>0, <2>1, <2>2 DEF Kept
  <2> QED BY <1>1, <1>2, <2>1, <2>2, <2>3 DEF Grounded
<1>3. CASE grant'[g] # grant[g]
  <2> DEFINE now == call[c]
             s == now.view
  <2>1. PersistInfluenceGrant(c) /\ now.pc = "influenceGrant" /\ now.pc \in Drawing
    BY <1>3, GrantWriter DEF PersistInfluenceGrant, Drawing
  <2>2. now \in Call /\ RecallSound(now) /\ UNCHANGED slice
    BY <2>1 DEF IInv, TypeOK, Sound, PersistInfluenceGrant
  <2>3. /\ now.slice \in Slices /\ s \in Slice /\ s # None /\ slice'[now.slice] = s
        /\ memory[s.version] # None /\ memory[s.version].state # "INVALIDATED"
        /\ memory[s.version].confidence = s.confidence
    BY <2>1, <2>2 DEF RecallSound, Call
  <2>4. grant'[g] = materializeInfluenceGrant(now.slice, s)
    BY <1>0, <1>3, <2>1 DEF PersistInfluenceGrant, TypeOK
  <2>5. grant'[g].slice = now.slice /\ grant'[g].agent = s.agent /\ grant'[g].execution = s.execution
    BY <2>4 DEF materializeInfluenceGrant
  <2> QED BY <1>1, <2>3, <2>5 DEF Grounded
<1> QED BY <1>2, <1>3

-----------------------------------------------------------------------------
(* The theorems                                                            *)

LEMMA Initially == Init => IInv
<1> SUFFICES ASSUME Init PROVE IInv
  OBVIOUS
<1>1. TypeOK
  BY IdleInCall DEF Init, TypeOK
<1>2. \A c \in Callers : Sound(call[c])
  BY IdleSound DEF Init
<1>3. Distinct
  BY DEF Init, Distinct, Idle, Drawing
<1>4. GraphsLoad /\ VersionsDescend /\ AllGrounded
  BY DEF Init, GraphsLoad, VersionsDescend, AllGrounded
<1> QED BY <1>1, <1>2, <1>3, <1>4 DEF IInv

LEMMA Stepwise == IInv /\ [Next]_vars => IInv'
<1> SUFFICES ASSUME IInv, [Next]_vars PROVE IInv'
  OBVIOUS
<1>1. CASE Next
  <2>1. PICK c \in Callers : Begin(c) \/ Proceed(c) \/ Abort(c)
    BY <1>1 DEF Next
  <2>2. TypeOK' /\ CallsOK(c) /\ Kept(c)
    BY <2>1, CallsStep, KeptByStep
  <2>3. ASSUME NEW d \in Callers PROVE Sound(call[d])'
    BY <2>2, OthersSound DEF CallsOK
  <2>4. Distinct'
    BY <2>2 DEF CallsOK
  <2>5. GraphsLoad' /\ VersionsDescend' /\ AllGrounded'
    BY <2>1, <2>2, GraphsStep, DescendStep, GroundedStep
  <2> QED BY <2>2, <2>3, <2>4, <2>5 DEF IInv
<1>2. CASE UNCHANGED vars
  BY <1>2 DEF vars, IInv, TypeOK, Sound, RecordSound, RecallSound, RequestSound,
     SubmitSound, Submitting, Reserved, Distinct, GraphsLoad, VersionsDescend,
     AllGrounded, Grounded
<1> QED BY <1>1, <1>2

\* What every invocation holds is sound at each of its awaits, whichever others run
\* between them, and the store keeps the invariants that this gives.
THEOREM Inductive == Spec => []IInv
BY Initially, Stepwise, PTL DEF Spec

\* The state has its type.
THEOREM TypeCorrect == Spec => []TypeOK
<1>1. IInv => TypeOK
  BY DEF IInv
<1> QED BY <1>1, Inductive, PTL

\* The graph of every stored memory loads, wherever a record was cut short.
THEOREM GraphsAlwaysLoad == Spec => []GraphsLoad
<1>1. IInv => GraphsLoad
  BY DEF IInv
<1> QED BY <1>1, Inductive, PTL

\* Versions stay an order within an agent's family, however evaluations overlap.
THEOREM VersionsAlwaysDescend == Spec => []VersionsDescend
<1>1. IInv => VersionsDescend
  BY DEF IInv
<1> QED BY <1>1, Inductive, PTL

\* Influence that is granted, and influence that a consumer was told it may use, rests
\* on a stored slice of a stored memory, for the execution it was made for.
THEOREM InfluenceStaysGrounded == Spec => []InfluenceIsGrounded
<1>1. IInv => InfluenceIsGrounded
  <2> SUFFICES ASSUME IInv PROVE InfluenceIsGrounded
    OBVIOUS
  <2>1. ASSUME NEW g \in Grants, grant[g] # None PROVE Grounded(g)
    BY <2>1 DEF IInv, AllGrounded
  <2>2. ASSUME NEW c \in Callers, call[c].pc = "authorized"
        PROVE  LET g == grant[call[c].grant] IN
               /\ g # None
               /\ g.slice \in call[c].proposal.slices
               /\ slice[g.slice].execution = call[c].proposal.execution
               /\ call[c].proposal.effects \subseteq SAFE_EFFECTS \ DENIED_EFFECTS
    <3>1. call[c] \in Call /\ RequestSound(call[c])
      BY DEF IInv, TypeOK, Sound
    <3>2. call[c].grant \in Grants /\ grant[call[c].grant] # None
      BY <2>2, <3>1 DEF Call, RequestSound
    <3>3. slice[grant[call[c].grant].slice].execution = grant[call[c].grant].execution
      BY <2>1, <3>2 DEF Grounded
    <3> QED BY <2>2, <3>1, <3>2, <3>3 DEF RequestSound
  <2> QED BY <2>1, <2>2 DEF InfluenceIsGrounded
<1> QED BY <1>1, Inductive, PTL

LEMMA AccountedStep ==
  ASSUME ~Upserts, IInv, VersionsAccounted, NEW c \in Callers,
         Begin(c) \/ Proceed(c) \/ Abort(c)
  PROVE  VersionsAccounted'
<1>0. Kept(c) /\ TypeOK
  BY KeptByStep DEF IInv
<1>1. ASSUME NEW u \in Versions, memory[u] # None PROVE memory'[u] = memory[u]
  BY <1>0, <1>1 DEF Kept
<1> SUFFICES ASSUME NEW v \in Versions, memory'[v] # None, memory'[v].supersedes # {}
    PROVE  LET a == update'[v] IN
           /\ a # None /\ memory'[a.prior] # None
           /\ evaluation'[a.evaluation] = [version |-> a.prior, directive |-> a.directive]
           /\ memory'[v] = applyMemoryUpdate(a.prior, memory'[a.prior], a.directive)
  BY DEF VersionsAccounted
<1>2. CASE memory'[v] = memory[v]
  <2> DEFINE a == update[v]
             report == [version |-> a.prior, directive |-> a.directive]
  <2>1. /\ a # None /\ memory[a.prior] # None /\ evaluation[a.evaluation] = report
        /\ memory[v] = applyMemoryUpdate(a.prior, memory[a.prior], a.directive)
    BY <1>2 DEF VersionsAccounted
  <2>2. a \in Update
    BY <1>0, <2>1 DEF TypeOK
  <2>3. /\ a.prior \in Versions /\ a.evaluation \in Evaluations /\ report \in Report
        /\ report # None
    BY <2>2, BehavioralAssumption DEF Update, Report
  <2>4. update'[v] = a /\ memory'[a.prior] = memory[a.prior]
        /\ evaluation'[a.evaluation] = report
    BY <1>0, <1>1, <1>2, <2>1, <2>3 DEF Kept
  <2> QED BY <1>2, <2>1, <2>4
<1>3. CASE memory'[v] # memory[v]
  <2> DEFINE p == call[c].report.version
             d == call[c].report.directive
  <2>1. PersistExecutionMemory(c)
    BY <1>3, MemoryWriter
  <2>2. /\ v = call[c].version /\ memory'[v] = call[c].body
        /\ UNCHANGED <<update, evaluation>>
    BY <1>0, <1>3, <2>1, NewVersion DEF Kept, TypeOK, PersistExecutionMemory
  <2>3. /\ call[c].report \in Report /\ memory[p] # None
        /\ call[c].body = applyMemoryUpdate(p, memory[p], d)
        /\ evaluation[call[c].evaluation] = call[c].report
        /\ update[v] = [prior |-> p, evaluation |-> call[c].evaluation, directive |-> d]
    BY <2>1, <2>2, NewVersion
  <2>4. call[c].report = [version |-> p, directive |-> d] /\ p \in Versions
    BY <2>3 DEF Report
  <2>5. memory'[p] = memory[p] /\ memory[p] # None
    BY <1>1, <2>3, <2>4
  <2>6. /\ update'[v] = [prior |-> p, evaluation |-> call[c].evaluation, directive |-> d]
        /\ evaluation'[call[c].evaluation] = [version |-> p, directive |-> d]
        /\ memory'[v] = applyMemoryUpdate(p, memory'[p], d)
    BY <2>2, <2>3, <2>4, <2>5
  <2>7. update'[v] # None
    <3>1. /\ call[c] \in Call /\ SubmitSound(call[c]) /\ Submitting(call[c])
          /\ p \in Versions /\ d \in Directive
      BY <2>1, <2>3, BehavioralAssumption
      DEF IInv, TypeOK, Sound, Submitting, PersistExecutionMemory, Report
    <3>2. call[c].evaluation \in Evaluations
      BY <3>1 DEF Call, SubmitSound
    <3> HIDE DEF p, d
    <3>3. update'[v] \in Update
      BY <2>6, <3>1, <3>2 DEF Update
    <3> QED BY <3>3, BehavioralAssumption
  <2> HIDE DEF p, d
  <2> QED BY <2>5, <2>6, <2>7
<1> QED BY <1>2, <1>3

\* Over a store that refuses a taken id, every version stays accounted for by the
\* evaluation and the update on record, however submissions interleave.
THEOREM VersionsStayAccounted ==
  ASSUME ~Upserts PROVE Spec => []VersionsAccounted
<1>1. Init => VersionsAccounted
  BY DEF Init, VersionsAccounted
<1>2. IInv /\ VersionsAccounted /\ [Next]_vars => VersionsAccounted'
  <2> SUFFICES ASSUME IInv, VersionsAccounted, [Next]_vars PROVE VersionsAccounted'
    OBVIOUS
  <2>1. CASE Next
    BY <2>1, AccountedStep DEF Next
  <2>2. CASE UNCHANGED vars
    BY <2>2 DEF vars, VersionsAccounted
  <2> QED BY <2>1, <2>2
<1> QED BY <1>1, <1>2, Inductive, PTL DEF Spec

-----------------------------------------------------------------------------
(* The surface implements the history                                      *)

\* What is granted stays what it was while no grant is stored.
LEMMA GrantedStays ==
  ASSUME IInv, NEW c \in Callers, Kept(c), UNCHANGED grant PROVE UNCHANGED Granted
<1>1. ASSUME NEW g \in Grants, grant[g] # None
      PROVE  slice'[grant[g].slice] = slice[grant[g].slice]
  <2>1. grant[g].slice \in Slices /\ slice[grant[g].slice] # None
    BY <1>1 DEF IInv, TypeOK, Grant, AllGrounded, Grounded
  <2> QED BY <2>1 DEF Kept
<1> QED BY <1>1 DEF Granted

\* The history is stated with the same rules.
LEMMA SameRules ==
  /\ History!Memory = Memory /\ History!Directive = Directive
  /\ \A e, x : History!admitCandidateMemory(e, x) = admitCandidateMemory(e, x)
  /\ \A v, m, d : History!applyMemoryUpdate(v, m, d) = applyMemoryUpdate(v, m, d)
<1>1. \A x, d : History!nextConfidence(x, d) = nextConfidence(x, d)
  BY DEF History!nextConfidence, nextConfidence, History!AtMost, AtMost, History!AtLeast,
     AtLeast
<1>2. \A x, d : History!nextState(x, d) = nextState(x, d)
  BY DEF History!nextState, nextState
<1>3. \A v, m, d : History!applyMemoryUpdate(v, m, d) = applyMemoryUpdate(v, m, d)
  BY <1>1, <1>2 DEF History!applyMemoryUpdate, applyMemoryUpdate
<1>4. History!Memory = Memory /\ History!Directive = Directive
  BY DEF History!Memory, Memory, History!Directive, Directive, History!Evidence, Evidence,
     History!State, State
<1>5. \A e, x : History!admitCandidateMemory(e, x) = admitCandidateMemory(e, x)
  BY DEF History!admitCandidateMemory, admitCandidateMemory
<1> QED BY <1>3, <1>4, <1>5

LEMMA MemoryStepMaps ==
  ASSUME IInv, NEW c \in Callers, PersistExecutionMemory(c) PROVE History!HistoryNext
<1> DEFINE v == call[c].version
           m == call[c].body
           p == call[c].report.version
           d == call[c].report.directive
<1>1. UNCHANGED Granted
  BY GrantedStays, KeptByStep DEF Proceed, PersistExecutionMemory
<1>2. /\ v \in Versions /\ memory[v] = None /\ m \in Memory
      /\ memory' = [memory EXCEPT ![v] = m] /\ memory'[v] = m
  BY NewVersion DEF IInv, TypeOK
<1>3. CASE /\ m.supersedes = {} /\ m.state = "ADMITTED"
           /\ admitCandidateMemory(m.evidence, m.confidence)
  <2> HIDE DEF v, m
  <2>0. memory'[v] = m
    BY <1>2
  <2>1. memory' = [memory EXCEPT ![v] = memory'[v]] /\ memory'[v] \in History!Memory
    <3>1. memory' = [memory EXCEPT ![v] = memory'[v]]
      BY <1>2, <2>0
    <3>2. memory'[v] \in Memory
      BY <1>2, <2>0
    <3> QED BY <3>1, <3>2, SameRules
  <2>2. /\ memory'[v].state = "ADMITTED" /\ memory'[v].supersedes = {}
        /\ History!admitCandidateMemory(memory'[v].evidence, memory'[v].confidence)
    BY <1>2, <1>3, SameRules
  <2>3. History!Admit(v)
    BY <1>1, <1>2, <2>1, <2>2 DEF History!Admit
  <2> QED BY <1>2, <2>3 DEF History!HistoryNext
<1>4. CASE /\ call[c].report \in Report /\ memory[p] # None
           /\ m = applyMemoryUpdate(p, memory[p], d)
  <2>1. p \in Versions /\ d \in Directive
    BY <1>4 DEF Report
  <2>2. History!Derive(v, p, d)
    BY <1>1, <1>2, <1>4, SameRules DEF History!Derive
  <2> QED BY <1>2, <2>1, <2>2, SameRules DEF History!HistoryNext
<1> QED BY <1>3, <1>4, NewVersion

LEMMA GrantStepMaps ==
  ASSUME IInv, TypeOK', NEW c \in Callers, PersistInfluenceGrant(c)
  PROVE  History!HistoryNext
<1> DEFINE now == call[c]
           s == now.view
           given == [version |-> s.version, agent |-> s.agent, execution |-> s.execution]
<1>1. now \in Call /\ RecallSound(now) /\ Reserved(now) /\ now.pc = "influenceGrant"
      /\ now.pc \in Drawing
  BY DEF IInv, TypeOK, Sound, PersistInfluenceGrant, Drawing
<1>2. /\ now.grant \in Grants /\ grant[now.grant] = None
      /\ s \in Slice /\ slice[now.slice] = s
      /\ memory[s.version] # None /\ memory[s.version].state # "INVALIDATED"
  BY <1>1 DEF RecallSound, Reserved, Call
<1>3. /\ s.version \in Versions /\ s.agent \in Agents /\ s.execution \in Executions
  BY <1>2 DEF Slice
<1>4. /\ UNCHANGED <<memory, slice>>
      /\ grant' = [grant EXCEPT ![now.grant] =
                     [slice |-> now.slice, agent |-> s.agent, execution |-> s.execution]]
  BY DEF PersistInfluenceGrant, materializeInfluenceGrant
<1>5. [slice |-> now.slice, agent |-> s.agent, execution |-> s.execution] # None
  <2>1. now.slice \in Slices
    BY <1>1 DEF RecallSound, Call
  <2> QED BY <1>3, <2>1, BehavioralAssumption DEF Grant
<1>6. Granted[now.grant] = None /\ Granted' = [Granted EXCEPT ![now.grant] = given]
  BY <1>2, <1>4, <1>5 DEF Granted, IInv, TypeOK
<1>7. History!Grant(now.grant, s.version)
  BY <1>2, <1>3, <1>4, <1>6 DEF History!Grant
<1> QED BY <1>2, <1>3, <1>7 DEF History!HistoryNext

\* Every execution of the surface is a history: memories and grants are write-once,
\* each version comes of one on record, and each grant of one that is not invalidated.
THEOREM SurfaceImplementsHistory == Spec => ImplementsHistory
<1>1. Init => History!HistoryInit
  BY DEF Init, Granted, History!HistoryInit
<1>2. IInv /\ [Next]_vars => [History!HistoryNext]_(History!hvars)
  <2> SUFFICES ASSUME IInv, [Next]_vars
               PROVE  History!HistoryNext \/ UNCHANGED <<memory, Granted>>
    BY DEF History!hvars
  <2>1. CASE Next
    <3>1. PICK c \in Callers : Begin(c) \/ Proceed(c) \/ Abort(c)
      BY <2>1 DEF Next
    <3>2. Kept(c) /\ TypeOK'
      BY <3>1, KeptByStep, CallsStep
    <3>3. CASE PersistExecutionMemory(c)
      BY <3>3, MemoryStepMaps
    <3>4. CASE PersistInfluenceGrant(c)
      BY <3>2, <3>4, GrantStepMaps
    <3>5. CASE ~PersistExecutionMemory(c) /\ ~PersistInfluenceGrant(c)
      BY <3>1, <3>2, <3>5, MemoryWriter, GrantWriter, GrantedStays
    <3> QED BY <3>3, <3>4, <3>5
  <2>2. CASE UNCHANGED vars
    BY <2>2 DEF vars, Granted
  <2> QED BY <2>1, <2>2
<1> QED BY <1>1, <1>2, Inductive, PTL DEF Spec, ImplementsHistory, History!HistorySpec

-----------------------------------------------------------------------------
(* What the exceptions of the model come to                                *)

\* Over a store that refuses a taken id, an evaluation on record is final, although
\* its check and its put are two calls.
THEOREM EvaluationsStayFinal == ASSUME ~Upserts PROVE Spec => EvaluationsAreFinal
<1>1. IInv /\ [Next]_vars =>
        [\A e \in Evaluations : evaluation[e] # None => evaluation'[e] = evaluation[e]]_vars
  BY KeptByStep DEF Next, Kept
<1> QED BY <1>1, Inductive, PTL DEF Spec, EvaluationsAreFinal

\* What no evaluation can change: a version has the evidence and the applicability of
\* every version it supersedes, and evidence that is good enough to be admitted.
EvidenceIsInherited ==
  \A v \in Versions : memory[v] # None =>
    /\ memory[v].evidence \in {"VERIFIED", "OBSERVED", "SIMULATED"}
    /\ \A u \in memory[v].supersedes :
         /\ memory[u].evidence = memory[v].evidence
         /\ memory[u].applicability = memory[v].applicability

LEMMA InheritedStep ==
  ASSUME IInv, EvidenceIsInherited, NEW c \in Callers, Begin(c) \/ Proceed(c) \/ Abort(c)
  PROVE  EvidenceIsInherited'
<1>0. Kept(c) /\ VersionsDescend /\ TypeOK
  BY KeptByStep DEF IInv
<1>1. ASSUME NEW u \in Versions, memory[u] # None PROVE memory'[u] = memory[u]
  BY <1>0, <1>1 DEF Kept
<1>2. ASSUME NEW v \in Versions, memory[v] # None PROVE memory[v].supersedes \subseteq Versions
  BY <1>0, <1>2 DEF TypeOK, Memory
<1> SUFFICES ASSUME NEW v \in Versions, memory'[v] # None
    PROVE  /\ memory'[v].evidence \in {"VERIFIED", "OBSERVED", "SIMULATED"}
           /\ \A u \in memory'[v].supersedes :
                /\ memory'[u].evidence = memory'[v].evidence
                /\ memory'[u].applicability = memory'[v].applicability
  BY DEF EvidenceIsInherited
<1>3. CASE memory'[v] = memory[v]
  <2>1. \A u \in memory[v].supersedes : u \in Versions /\ memory[u] # None
    BY <1>0, <1>2, <1>3 DEF VersionsDescend
  <2> QED BY <1>1, <1>3, <2>1 DEF EvidenceIsInherited
<1>4. CASE memory'[v] # memory[v]
  <2> DEFINE m == call[c].body
             p == call[c].report.version
  <2>1. PersistExecutionMemory(c)
    BY <1>4, MemoryWriter
  <2>2. v = call[c].version /\ memory'[v] = m
    BY <1>0, <1>4, <2>1, NewVersion DEF Kept, TypeOK
  <2>3. CASE m.supersedes = {} /\ admitCandidateMemory(m.evidence, m.confidence)
    BY <2>2, <2>3 DEF admitCandidateMemory
  <2>4. CASE /\ call[c].report \in Report /\ memory[p] # None
             /\ m = applyMemoryUpdate(p, memory[p], call[c].report.directive)
    <3>1. p \in Versions /\ memory[p] \in Memory
      BY <1>0, <2>4 DEF Report, TypeOK
    <3>2. /\ m.supersedes = memory[p].supersedes \cup {p}
          /\ m.evidence = memory[p].evidence /\ m.applicability = memory[p].applicability
      BY <2>4, <3>1, UpdateTyped
    <3> HIDE DEF m, p
    <3>3. ASSUME NEW u \in m.supersedes
          PROVE  /\ u \in Versions /\ memory[u] # None
                 /\ memory[u].evidence = m.evidence
                 /\ memory[u].applicability = m.applicability
      <4>1. CASE u = p
        BY <2>4, <3>1, <3>2, <4>1
      <4>2. CASE u \in memory[p].supersedes
        BY <1>0, <1>2, <2>4, <3>1, <3>2, <4>2 DEF VersionsDescend, EvidenceIsInherited
      <4> QED BY <3>2, <3>3, <4>1, <4>2
    <3>4. m.evidence \in {"VERIFIED", "OBSERVED", "SIMULATED"}
      BY <2>4, <3>1, <3>2 DEF EvidenceIsInherited
    <3> QED BY <1>1, <2>2, <3>3, <3>4
  <2> QED BY <2>1, <2>3, <2>4, NewVersion
<1> QED BY <1>3, <1>4

\* However many evaluations a memory goes through, and however they overlap, none
\* makes its evidence stronger, or makes it apply where it did not.
THEOREM EvidenceStaysInherited == Spec => []EvidenceIsInherited
<1>1. Init => EvidenceIsInherited
  BY DEF Init, EvidenceIsInherited
<1>2. IInv /\ EvidenceIsInherited /\ [Next]_vars => EvidenceIsInherited'
  <2> SUFFICES ASSUME IInv, EvidenceIsInherited, [Next]_vars PROVE EvidenceIsInherited'
    OBVIOUS
  <2>1. CASE Next
    BY <2>1, InheritedStep DEF Next
  <2>2. CASE UNCHANGED vars
    BY <2>2 DEF vars, EvidenceIsInherited
  <2> QED BY <2>1, <2>2
<1> QED BY <1>1, <1>2, Inductive, PTL DEF Spec

\* A set of numbers has a least one.
LEMMA Least ==
  ASSUME NEW S, S \subseteq Nat, S # {}
  PROVE  \E n \in S : \A m \in S : n <= m
<1>1. PICK n \in S : \A m \in S : ~ (<<m, n>> \in OpToRel(<, Nat))
  BY NatLessThanWellFounded, WFMin
<1>2. \A m \in S : ~ (m < n)
  BY <1>1 DEF OpToRel
<1> QED BY <1>2

Stored == {v \in Versions : memory[v] # None}

\* Of finitely many stored versions, one is superseded by none of them: one that
\* supersedes as many of them as any other does.
LEMMA SomeIsCurrent ==
  ASSUME IInv, NEW V \in SUBSET Stored, IsFiniteSet(V), V # {}
  PROVE  \E v \in V : \A u \in V : v \notin memory[u].supersedes
<1> DEFINE Below(v) == {u \in V : u \in memory[v].supersedes}
           N == Cardinality(V)
           left == {N - Cardinality(Below(v)) : v \in V}
<1>1. N \in Nat /\ \A v \in V : /\ IsFiniteSet(Below(v)) /\ Cardinality(Below(v)) \in Nat
                               /\ Cardinality(Below(v)) <= N
  BY FS_Subset, FS_CardinalityType
<1>2. left \subseteq Nat /\ left # {}
  <2> HIDE DEF N, Below
  <2>1. \A v \in V : N - Cardinality(Below(v)) \in Nat
    BY <1>1
  <2> QED BY <2>1
<1>3. PICK n \in left : \A m \in left : n <= m
  BY <1>2, Least
<1>4. PICK v \in V : n = N - Cardinality(Below(v))
  BY <1>3
<1>5. ASSUME NEW u \in V, v \in memory[u].supersedes PROVE FALSE
  <2>1. /\ u \in Versions /\ v \in Versions /\ memory[u] # None /\ memory[v] # None
        /\ v \notin memory[v].supersedes /\ memory[v].supersedes \subseteq memory[u].supersedes
    BY <1>5 DEF IInv, VersionsDescend, Stored
  <2>2. Below(v) \subseteq Below(u) /\ v \in Below(u) /\ v \notin Below(v)
    BY <1>5, <2>1
  <2>3. Cardinality(Below(v)) < Cardinality(Below(u))
    BY <1>1, <2>2, FS_Subset
  <2>4. N - Cardinality(Below(v)) <= N - Cardinality(Below(u))
    BY <1>3, <1>4
  <2> HIDE DEF N, Below
  <2> QED BY <1>1, <1>5, <2>3, <2>4
<1> QED BY <1>5

\* What resolveCurrentMemory would do for any list of stored versions: it never comes to
\* its second choice, and so no version of the list that another one supersedes is
\* eligible.
CurrentIsUnsuperseded ==
  \A V \in SUBSET Stored : IsFiniteSet(V) /\ V # {} =>
    /\ resolveCurrentMemory(memory, V) # {}
    /\ \A v \in resolveCurrentMemory(memory, V), u \in V : v \notin memory[u].supersedes
    /\ \A v, u \in V, context \in Contexts :
         isCurrentMemoryEligible(memory, v, V, context) => v \notin memory[u].supersedes

\* The rule keeps superseded versions out, whatever versions the history has led to. That
\* the surface recalls them all the same is due to the list it passes: one version.
THEOREM CurrentStaysUnsuperseded == Spec => []CurrentIsUnsuperseded
<1>1. IInv => CurrentIsUnsuperseded
  <2> SUFFICES ASSUME IInv, NEW V \in SUBSET Stored, IsFiniteSet(V), V # {}
               PROVE  /\ resolveCurrentMemory(memory, V) # {}
                      /\ \A v \in resolveCurrentMemory(memory, V), u \in V :
                           v \notin memory[u].supersedes
    BY DEF CurrentIsUnsuperseded, isCurrentMemoryEligible
  <2>1. \E v \in V : \A u \in V : v \notin memory[u].supersedes
    BY SomeIsCurrent
  <2> QED BY <2>1 DEF resolveCurrentMemory
<1> QED BY <1>1, Inductive, PTL

-----------------------------------------------------------------------------
(* What only a failure can leave half done                                 *)

Cut(c) == call[c].pc = "broken" /\ c \in Fragile

\* An update on record has the version it announces, or an invocation that is about to put
\* it, or one that failed before it could: nothing else leaves an update without its version.
UpdatesOnlyWait ==
  \A v \in Versions : update[v] # None =>
    \/ memory[v] # None
    \/ \E c \in Callers : call[c].version = v /\ (call[c].pc = "memory" \/ Cut(c))

\* Parts on record have a memory, or an invocation that is on its way to put one, or one that
\* failed before it could: nothing else leaves an episode without a memory.
PartsOnlyWait ==
  \A f \in Families : parts[f] # {} =>
    \/ \E v \in Versions : memory[v] # None /\ memory[v].family = f
    \/ \E c \in Callers : /\ call[c].family = f /\ call[c].report = None
                          /\ call[c].pc \in Part \cup {"memory"} \/ Cut(c)

\* What one step does to an invocation that has something left to put.
LEMMA WaitingGoesOn ==
  ASSUME IInv, NEW c \in Callers, Begin(c) \/ Proceed(c) \/ Abort(c)
  PROVE  /\ \A d \in Callers \ {c} : call'[d] = call[d]
         /\ ~Cut(c)
         /\ call[c].pc \in Part =>
              \/ PersistPart(c) /\ call'[c] = [call[c] EXCEPT !.pc = Following[call[c].pc]]
              \/ c \in Fragile /\ call'[c] = [call[c] EXCEPT !.pc = "broken"]
         /\ call[c].pc = "memory" =>
              \/ PersistExecutionMemory(c)
              \/ c \in Fragile /\ call'[c] = [call[c] EXCEPT !.pc = "broken"]
<1>0. call \in [Callers -> Call] /\ CallsOK(c)
  BY CallsStep DEF IInv, TypeOK
<1>1. /\ Begin(c) => call[c].pc = "idle"
      /\ Proceed(c) => call[c].pc \notin {"idle", "broken"}
      /\ Abort(c) => call[c].pc \notin {"idle", "broken"}
  BY DEF Begin, Proceed, Abort, RecordCompleteExecution, RecallApplicableMemory, RequestInfluence,
     SubmitOutcomeEvaluation, PersistPart, PersistExecutionMemory, PersistMemorySlice,
     PersistInfluenceGrant, Answer, GetEvaluation, PutEvaluation, PersistMemoryUpdate, Part
<1>2. Abort(c) => c \in Fragile /\ call'[c] = [call[c] EXCEPT !.pc = "broken"]
  BY <1>0 DEF Abort, Goto
<1>3. PersistPart(c) => call'[c] = [call[c] EXCEPT !.pc = Following[call[c].pc]]
  BY <1>0 DEF PersistPart, Goto
<1>4. call[c].pc \in Part /\ Proceed(c) => PersistPart(c)
  BY DEF Proceed, PersistExecutionMemory, PersistMemorySlice, PersistInfluenceGrant, Answer,
     GetEvaluation, PutEvaluation, PersistMemoryUpdate, Part
<1>5. call[c].pc = "memory" /\ Proceed(c) => PersistExecutionMemory(c)
  BY DEF Proceed, PersistPart, PersistMemorySlice, PersistInfluenceGrant, Answer,
     GetEvaluation, PutEvaluation, PersistMemoryUpdate, Part
<1>6. \A d \in Callers \ {c} : call'[d] = call[d]
  BY <1>0 DEF CallsOK
<1>7. ~Cut(c)
  BY <1>1 DEF Cut
<1>8. call[c].pc \in Part \cup {"memory"} => Proceed(c) \/ Abort(c)
  BY <1>1 DEF Part
<1>9. call[c].pc \in Part =>
        \/ PersistPart(c) /\ call'[c] = [call[c] EXCEPT !.pc = Following[call[c].pc]]
        \/ c \in Fragile /\ call'[c] = [call[c] EXCEPT !.pc = "broken"]
  BY <1>2, <1>3, <1>4, <1>8
<1>10. call[c].pc = "memory" =>
         \/ PersistExecutionMemory(c)
         \/ c \in Fragile /\ call'[c] = [call[c] EXCEPT !.pc = "broken"]
  BY <1>2, <1>5, <1>8
<1> QED BY <1>6, <1>7, <1>9, <1>10

\* The last put leaves a memory, which was not there before.
LEMMA PutLeavesMemory ==
  ASSUME IInv, NEW c \in Callers, PersistExecutionMemory(c)
  PROVE  /\ call[c].version \in Versions
         /\ memory'[call[c].version] = call[c].body /\ call[c].body # None
<1>1. /\ call[c].version \in Versions /\ call[c].body \in Memory
      /\ memory' = [memory EXCEPT ![call[c].version] = call[c].body]
  BY NewVersion
<1>2. call[c].body # None
  BY DEF IInv, Sound, RecordSound, SubmitSound, Submitting, PersistExecutionMemory
<1> QED BY <1>1, <1>2 DEF IInv, TypeOK

LEMMA UpdatesWaitStep ==
  ASSUME IInv, UpdatesOnlyWait, NEW c \in Callers, Begin(c) \/ Proceed(c) \/ Abort(c)
  PROVE  UpdatesOnlyWait'
<1> DEFINE Waiting(v, d) == call[d].version = v /\ (call[d].pc = "memory" \/ Cut(d))
<1>0. /\ Kept(c) /\ call \in [Callers -> Call] /\ call' \in [Callers -> Call]
      /\ update \in [Versions -> Update \cup {None}]
  BY KeptByStep, CallsStep DEF CallsOK, IInv, TypeOK
<1>1. ASSUME NEW v \in Versions, memory[v] # None PROVE memory'[v] # None
  BY <1>0, <1>1 DEF Kept
<1>2. ASSUME NEW v \in Versions, NEW d \in Callers, Waiting(v, d)
      PROVE  memory'[v] # None \/ Waiting(v, d)'
  <2>1. CASE d # c
    BY <1>2, <2>1, WaitingGoesOn DEF Cut
  <2>2. CASE d = c
    <3>1. call[c].pc = "memory" /\ call[c].version = v
      BY <1>2, <2>2, WaitingGoesOn
    <3>2. CASE PersistExecutionMemory(c)
      BY <3>1, <3>2, PutLeavesMemory
    <3>3. CASE c \in Fragile /\ call'[c] = [call[c] EXCEPT !.pc = "broken"]
      BY <1>0, <2>2, <3>1, <3>3 DEF Cut, Call
    <3> QED BY <3>1, <3>2, <3>3, WaitingGoesOn
  <2> QED BY <2>1, <2>2
<1>3. ASSUME NEW v \in Versions, update'[v] # update[v] PROVE Waiting(v, c)'
  <2>1. PersistMemoryUpdate(c)
    BY <1>0, <1>3
       DEF Begin, Proceed, Abort, Answer, GetEvaluation, PutEvaluation, PersistPart,
       PersistMemorySlice, PersistInfluenceGrant, PersistExecutionMemory,
       RecordCompleteExecution, RecallApplicableMemory, RequestInfluence, SubmitOutcomeEvaluation
  <2>2. v = call[c].version
    BY <1>0, <1>3, <2>1 DEF PersistMemoryUpdate
  <2>3. call'[c].pc = "memory" /\ call'[c].version = call[c].version
    BY <1>0, <2>1 DEF PersistMemoryUpdate, Goto, Call
  <2> QED BY <2>2, <2>3
<1>4. \A v \in Versions : update[v] # None => memory[v] # None \/ \E d \in Callers : Waiting(v, d)
  BY DEF UpdatesOnlyWait
<1>5. \A v \in Versions : update'[v] # None =>
        memory'[v] # None \/ \E d \in Callers : Waiting(v, d)'
  <2> HIDE DEF Waiting
  <2> QED BY <1>1, <1>2, <1>3, <1>4
<1> QED BY <1>5 DEF UpdatesOnlyWait

LEMMA PartsWaitStep ==
  ASSUME IInv, PartsOnlyWait, NEW c \in Callers, Begin(c) \/ Proceed(c) \/ Abort(c)
  PROVE  PartsOnlyWait'
<1> DEFINE Waiting(f, d) == /\ call[d].family = f /\ call[d].report = None
                            /\ call[d].pc \in Part \cup {"memory"} \/ Cut(d)
           Remembered(f) == \E v \in Versions : memory[v] # None /\ memory[v].family = f
<1>0. /\ Kept(c) /\ call \in [Callers -> Call] /\ call' \in [Callers -> Call]
      /\ parts \in [Families -> SUBSET Part]
  BY KeptByStep, CallsStep DEF CallsOK, IInv, TypeOK
<1>1. ASSUME NEW f \in Families, Remembered(f) PROVE Remembered(f)'
  BY <1>0, <1>1 DEF Kept
<1>2. ASSUME NEW f \in Families, Waiting(f, c), call[c].pc \in Part, PersistPart(c),
             call'[c] = [call[c] EXCEPT !.pc = Following[call[c].pc]]
      PROVE  Waiting(f, c)'
  <2>1. Following[call[c].pc] \in Part \cup {"memory"}
    BY <1>2 DEF Following, Part
  <2>2. /\ call'[c].pc = Following[call[c].pc]
        /\ call'[c].family = call[c].family /\ call'[c].report = call[c].report
    BY <1>0, <1>2 DEF Call
  <2> QED BY <1>2, <2>1, <2>2
<1>3. ASSUME NEW f \in Families, NEW d \in Callers, Waiting(f, d)
      PROVE  Remembered(f)' \/ Waiting(f, d)'
  <2>1. CASE d # c
    BY <1>3, <2>1, WaitingGoesOn DEF Cut
  <2>2. CASE d = c
    <3>1. call[c].pc \in Part \cup {"memory"} /\ call[c].family = f /\ call[c].report = None
      BY <1>3, <2>2, WaitingGoesOn
    <3>2. CASE PersistExecutionMemory(c)
      <4>1. call[c].body.family = f
        BY <3>1, <3>2 DEF PersistExecutionMemory, IInv, Sound, RecordSound
      <4> QED BY <4>1, <3>2, PutLeavesMemory
    <3>3. CASE c \in Fragile /\ call'[c] = [call[c] EXCEPT !.pc = "broken"]
      BY <1>0, <2>2, <3>1, <3>3 DEF Cut, Call
    <3> QED BY <1>2, <1>3, <2>2, <3>1, <3>2, <3>3, WaitingGoesOn
  <2> QED BY <2>1, <2>2
<1>4. ASSUME NEW f \in Families, parts'[f] # parts[f] PROVE Waiting(f, c)'
  <2>1. PersistPart(c)
    BY <1>0, <1>4
       DEF Begin, Proceed, Abort, Answer, GetEvaluation, PutEvaluation, PersistMemoryUpdate,
       PersistMemorySlice, PersistInfluenceGrant, PersistExecutionMemory,
       RecordCompleteExecution, RecallApplicableMemory, RequestInfluence, SubmitOutcomeEvaluation
  <2>2. f = call[c].family /\ call[c].pc \in Part
    BY <1>0, <1>4, <2>1 DEF PersistPart
  <2>3. call[c].report = None
    BY <2>2 DEF IInv, Sound, SubmitSound
  <2>4. Following[call[c].pc] \in Part \cup {"memory"}
    BY <2>2 DEF Following, Part
  <2>5. /\ call'[c].pc = Following[call[c].pc]
        /\ call'[c].family = call[c].family /\ call'[c].report = call[c].report
    BY <1>0, <2>1 DEF PersistPart, Goto, Call
  <2> QED BY <2>2, <2>3, <2>4, <2>5
<1>5. \A f \in Families : parts[f] # {} => Remembered(f) \/ \E d \in Callers : Waiting(f, d)
  BY DEF PartsOnlyWait
<1>6. \A f \in Families : parts'[f] # {} =>
        Remembered(f)' \/ \E d \in Callers : Waiting(f, d)'
  <2> HIDE DEF Waiting, Remembered
  <2> QED BY <1>1, <1>3, <1>4, <1>5
<1> QED BY <1>6 DEF PartsOnlyWait

\* Whatever overlaps, only the failure of the very invocation that was to put a memory can
\* leave an update, or the parts of a record, without it.  With the fairness of that
\* invocation this is what UpdatesAreFulfilled rests on.
THEOREM OnlyFailuresOrphan == Spec => [](UpdatesOnlyWait /\ PartsOnlyWait)
<1>1. Init => UpdatesOnlyWait /\ PartsOnlyWait
  BY DEF Init, UpdatesOnlyWait, PartsOnlyWait
<1>2. ASSUME IInv, UpdatesOnlyWait, PartsOnlyWait, [Next]_vars
      PROVE  UpdatesOnlyWait' /\ PartsOnlyWait'
  <2>1. CASE UNCHANGED vars
    BY <1>2, <2>1 DEF vars, UpdatesOnlyWait, PartsOnlyWait, Cut
  <2> QED BY <1>2, <2>1, UpdatesWaitStep, PartsWaitStep DEF Next
<1>3. IInv /\ UpdatesOnlyWait /\ PartsOnlyWait /\ [Next]_vars
        => UpdatesOnlyWait' /\ PartsOnlyWait'
  BY <1>2
<1> QED BY <1>1, <1>3, Inductive, PTL DEF Spec

=============================================================================
