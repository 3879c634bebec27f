--------------------------- MODULE BehavioralMemory ---------------------------
(***************************************************************************)
(* The agent surface over a behavioral memory store: a complete execution  *)
(* is formed into a memory, a memory is recalled into a slice and a grant, *)
(* influence is requested under a grant, and an evaluation makes the next  *)
(* version of a memory.                                                    *)
(*                                                                         *)
(* Every store call another invocation could interfere with is a step of   *)
(* its own.  Ids are drawn by randomUUID, so the check for an existing     *)
(* object finds none and a put of one is one step; only the evaluation's   *)
(* id is the caller's, and its check and its put are two.                  *)
(***************************************************************************)
EXTENDS MemoryLifecycle, Sequences

CONSTANTS
  Slices, Grants,   \* ids of memory slices and of influence grants
  Evaluations,      \* ids callers give to evaluations
  Verdicts,         \* directives the evaluations carry
  Executions,       \* executions that consume memory
  Submissions,      \* executions submitted to be remembered
  Effects,          \* what a proposal may ask for
  SAFE_EFFECTS, DENIED_EFFECTS,
  Callers,          \* invocations at a time; each may serve any number of calls
  Fragile,          \* those that may be cut short
  Upserts           \* put replaces (Sibyl), or is refused on a taken id (D1)

Terminal == {"SUCCESS", "FAILURE", "PARTIAL", "COMPENSATED", "ABORTED", "UNKNOWN"}
Submission ==
  [ agent : Agents, applicability : SUBSET Contexts, confidence : Confidences,
    evidence : Evidence,
    status : Terminal \cup {"RUNNING", "MEMORY_UNAVAILABLE"}, outcome : Terminal,
    completed : BOOLEAN,    \* it has an end time, and no event is out of its time
    referenced : BOOLEAN,   \* evidence is referred to
    events : Seq(Nat) ]     \* numbers of its events, sorted

Part == {"episode", "executionSlice", "experience", "candidate"}
Slice == [version : Versions, agent : Agents, execution : Executions, confidence : 0..100]
Grant == [slice : Slices, agent : Agents, execution : Executions]
Report == [version : Versions, directive : Directive]
Update == [prior : Versions, evaluation : Evaluations, directive : Directive]
Proposal == [execution : Executions, slices : SUBSET Slices, effects : SUBSET Effects]

ASSUME BehavioralAssumption ==
  /\ Submissions \subseteq Submission
  /\ Verdicts \subseteq Directive
  /\ SAFE_EFFECTS \cap DENIED_EFFECTS = {}
  /\ Upserts \in BOOLEAN
  /\ None \notin Families \cup Slices \cup Grants \cup Evaluations
  /\ None \notin Slice /\ None \notin Grant /\ None \notin Report
  /\ None \notin Update /\ None \notin Proposal

VARIABLES
  parts,       \* [Families -> which of its four objects are stored]
  memory,      \* "execution_memory": [Versions -> Memory or None]
  slice,       \* "memory_slice": [Slices -> Slice or None]
  grant,       \* "influence_grant": [Grants -> Grant or None]
  evaluation,  \* "behavioral_memory_evaluation": [Evaluations -> Report or None]
  update,      \* "memory_update", by the version it announces
  call         \* what each invocation is doing, and what it holds

vars == <<parts, memory, slice, grant, evaluation, update, call>>

Call ==
  [ pc : Part \cup {"idle", "memory", "memorySlice", "influenceGrant", "authorized",
                    "getEvaluation", "putEvaluation", "update", "broken"},
    family     : Families \cup {None},
    version    : Versions \cup {None},      \* id drawn for a memory,
    body       : Memory \cup {None},        \* and the memory
    slice      : Slices \cup {None},
    view       : Slice \cup {None},
    grant      : Grants \cup {None},
    proposal   : Proposal \cup {None},
    evaluation : Evaluations \cup {None},
    report     : Report \cup {None} ]

Idle ==
  [ pc |-> "idle", family |-> None, version |-> None, body |-> None, slice |-> None,
    view |-> None, grant |-> None, proposal |-> None, evaluation |-> None, report |-> None ]

Init ==
  /\ parts = [f \in Families |-> {}]
  /\ memory = [v \in Versions |-> None]
  /\ slice = [s \in Slices |-> None]
  /\ grant = [g \in Grants |-> None]
  /\ evaluation = [e \in Evaluations |-> None]
  /\ update = [v \in Versions |-> None]
  /\ call = [c \in Callers |-> Idle]

FreshFamily(f) == parts[f] = {} /\ \A c \in Callers : call[c].family # f
FreshVersion(v) == memory[v] = None /\ update[v] = None /\ \A c \in Callers : call[c].version # v
FreshSlice(s) == slice[s] = None /\ \A c \in Callers : call[c].slice # s
FreshGrant(g) == grant[g] = None /\ \A c \in Callers : call[c].grant # g

Goto(c, pc) == call' = [call EXCEPT ![c].pc = pc]
Return(c) == call' = [call EXCEPT ![c] = Idle]

-----------------------------------------------------------------------------
(* record_complete_execution                                               *)

\* What formExecutionEpisode accepts; anything else throws before it is stored.
formExecutionEpisode(x) ==
  /\ x.referenced /\ x.completed
  /\ x.outcome = x.status
  /\ \A n \in DOMAIN x.events : x.events[n] = n - 1

formExecutionMemory(x, f) ==
  [ agent |-> x.agent, family |-> f, applicability |-> x.applicability,
    confidence |-> x.confidence, evidence |-> x.evidence, state |-> "ADMITTED",
    supersedes |-> {} ]

RecordCompleteExecution(c, x, f, v) ==
  /\ call[c].pc = "idle"
  /\ formExecutionEpisode(x) /\ admitCandidateMemory(x.evidence, x.confidence)
  /\ FreshFamily(f) /\ FreshVersion(v)
  /\ call' = [call EXCEPT ![c] =
       [Idle EXCEPT !.pc = "episode", !.family = f, !.version = v,
                    !.body = formExecutionMemory(x, f)]]
  /\ UNCHANGED <<parts, memory, slice, grant, evaluation, update>>

\* Mutant: the candidate is left out.
Following_NoCandidate ==
  [ episode |-> "executionSlice", executionSlice |-> "experience",
    experience |-> "memory", candidate |-> "memory" ]

Following ==
  [ episode |-> "executionSlice", executionSlice |-> "experience",
    experience |-> "candidate", candidate |-> "memory" ]

PersistPart(c) ==
  /\ call[c].pc \in Part
  /\ parts' = [parts EXCEPT ![call[c].family] = @ \cup {call[c].pc}]
  /\ Goto(c, Following[call[c].pc])
  /\ UNCHANGED <<memory, slice, grant, evaluation, update>>

\* Mutant: the version evaluated is changed in place.
PersistExecutionMemory_InPlace(c) ==
  /\ call[c].pc = "memory"
  /\ LET v == IF call[c].report = None THEN call[c].version ELSE call[c].report.version
     IN  memory' = [memory EXCEPT ![v] = call[c].body]
  /\ Return(c)
  /\ UNCHANGED <<parts, slice, grant, evaluation, update>>

\* The last put of both operations that make a memory.
PersistExecutionMemory(c) ==
  /\ call[c].pc = "memory"
  /\ memory' = [memory EXCEPT ![call[c].version] = call[c].body]
  /\ Return(c)
  /\ UNCHANGED <<parts, slice, grant, evaluation, update>>

-----------------------------------------------------------------------------
(* recall_applicable_memory and request_influence                          *)

\* The versions the surface looks at: the one asked for, and no other.
versions(v) == {v}

\* Mutant: the state of the version is not looked at.
Recallable_AnyState(v, context) == context \in memory[v].applicability

Recallable(v, context) == isCurrentMemoryEligible(memory, v, versions(v), context)

materializeMemorySlice(v, agent, e) ==
  [version |-> v, agent |-> agent, execution |-> e, confidence |-> memory[v].confidence]
materializeInfluenceGrant(s, view) ==
  [slice |-> s, agent |-> view.agent, execution |-> view.execution]

RecallApplicableMemory(c, v, context, agent, e, s, g) ==
  /\ call[c].pc = "idle"
  /\ memory[v] # None /\ Recallable(v, context)
  /\ FreshSlice(s) /\ FreshGrant(g)
  /\ call' = [call EXCEPT ![c] =
       [Idle EXCEPT !.pc = "memorySlice", !.slice = s, !.grant = g,
                    !.view = materializeMemorySlice(v, agent, e)]]
  /\ UNCHANGED <<parts, memory, slice, grant, evaluation, update>>

PersistMemorySlice(c) ==
  /\ call[c].pc = "memorySlice"
  /\ slice' = [slice EXCEPT ![call[c].slice] = call[c].view]
  /\ Goto(c, "influenceGrant")
  /\ UNCHANGED <<parts, memory, grant, evaluation, update>>

PersistInfluenceGrant(c) ==
  /\ call[c].pc = "influenceGrant"
  /\ grant' = [grant EXCEPT ![call[c].grant] =
                 materializeInfluenceGrant(call[c].slice, call[c].view)]
  /\ Return(c)
  /\ UNCHANGED <<parts, memory, slice, evaluation, update>>

\* The surface's grants have no end, so none is ever expired.
assertBehavioralProposalAuthorizedByGrant(p, g, agent) ==
  /\ agent = grant[g].agent
  /\ p.execution = grant[g].execution
  /\ grant[g].slice \in p.slices
  /\ p.effects \cap DENIED_EFFECTS = {} /\ p.effects \subseteq SAFE_EFFECTS

\* Reads only; what it answers stands until the consumer has it.
RequestInfluence(c, g, agent, p) ==
  /\ call[c].pc = "idle"
  /\ grant[g] # None /\ assertBehavioralProposalAuthorizedByGrant(p, g, agent)
  /\ call' = [call EXCEPT ![c] =
       [Idle EXCEPT !.pc = "authorized", !.grant = g, !.proposal = p]]
  /\ UNCHANGED <<parts, memory, slice, grant, evaluation, update>>

Answer(c) ==
  /\ call[c].pc = "authorized"
  /\ Return(c)
  /\ UNCHANGED <<parts, memory, slice, grant, evaluation, update>>

-----------------------------------------------------------------------------
(* submit_outcome_evaluation                                               *)

SubmitOutcomeEvaluation(c, e, report, v) ==
  /\ call[c].pc = "idle"
  /\ memory[report.version] # None /\ FreshVersion(v)
  /\ call' = [call EXCEPT ![c] =
       [Idle EXCEPT !.pc = "getEvaluation", !.evaluation = e, !.report = report,
                    !.version = v,
                    !.body = applyMemoryUpdate(report.version, memory[report.version],
                                               report.directive)]]
  /\ UNCHANGED <<parts, memory, slice, grant, evaluation, update>>

\* Mutant: that an object exists is enough, whatever it says.
GetEvaluation_Lax(c) ==
  /\ call[c].pc = "getEvaluation"
  /\ Goto(c, IF evaluation[call[c].evaluation] = None THEN "putEvaluation" ELSE "update")
  /\ UNCHANGED <<parts, memory, slice, grant, evaluation, update>>

\* The same evaluation again is taken as stored; another under its id is refused.
GetEvaluation(c) ==
  LET existing == evaluation[call[c].evaluation] IN
  /\ call[c].pc = "getEvaluation"
  /\ \/ existing = None /\ Goto(c, "putEvaluation")
     \/ existing = call[c].report /\ Goto(c, "update")
     \/ existing \notin {None, call[c].report} /\ Return(c)
  /\ UNCHANGED <<parts, memory, slice, grant, evaluation, update>>

PutEvaluation(c) ==
  LET e == call[c].evaluation IN
  /\ call[c].pc = "putEvaluation"
  /\ \/ /\ Upserts \/ evaluation[e] = None
        /\ evaluation' = [evaluation EXCEPT ![e] = call[c].report]
        /\ Goto(c, "update")
     \/ /\ ~Upserts /\ evaluation[e] # None
        /\ UNCHANGED evaluation
        /\ Return(c)
  /\ UNCHANGED <<parts, memory, slice, grant, update>>

\* Mutant: the new version is not stored.
PersistMemoryUpdate_Last(c) ==
  /\ call[c].pc = "update"
  /\ update' = [update EXCEPT ![call[c].version] =
       [ prior |-> call[c].report.version, evaluation |-> call[c].evaluation,
         directive |-> call[c].report.directive ]]
  /\ Return(c)
  /\ UNCHANGED <<parts, memory, slice, grant, evaluation>>

PersistMemoryUpdate(c) ==
  /\ call[c].pc = "update"
  /\ update' = [update EXCEPT ![call[c].version] =
       [ prior |-> call[c].report.version, evaluation |-> call[c].evaluation,
         directive |-> call[c].report.directive ]]
  /\ Goto(c, "memory")
  /\ UNCHANGED <<parts, memory, slice, grant, evaluation>>

-----------------------------------------------------------------------------
\* The process dies or a store call fails: what is stored stays, and the ids drawn
\* are never drawn again.
Abort(c) ==
  /\ c \in Fragile /\ call[c].pc \notin {"idle", "broken"}
  /\ Goto(c, "broken")
  /\ UNCHANGED <<parts, memory, slice, grant, evaluation, update>>

Begin(c) ==
  \/ \E x \in Submissions, f \in Families, v \in Versions : RecordCompleteExecution(c, x, f, v)
  \/ \E v \in Versions, context \in Contexts, agent \in Agents, e \in Executions,
        s \in Slices, g \in Grants : RecallApplicableMemory(c, v, context, agent, e, s, g)
  \/ \E g \in Grants, agent \in Agents, p \in Proposal : RequestInfluence(c, g, agent, p)
  \/ \E e \in Evaluations, report \in [version : Versions, directive : Verdicts],
        v \in Versions : SubmitOutcomeEvaluation(c, e, report, v)

Proceed(c) ==
  \/ PersistPart(c) \/ PersistExecutionMemory(c)
  \/ PersistMemorySlice(c) \/ PersistInfluenceGrant(c) \/ Answer(c)
  \/ GetEvaluation(c) \/ PutEvaluation(c) \/ PersistMemoryUpdate(c)

Next == \E c \in Callers : Begin(c) \/ Proceed(c) \/ Abort(c)

Spec == Init /\ [][Next]_vars

\* The event loop resumes each await of a promise that settles.
FairSpec == Spec /\ \A c \in Callers : WF_vars(Proceed(c))

-----------------------------------------------------------------------------
(* Properties                                                              *)

TypeOK ==
  /\ parts \in [Families -> SUBSET Part]
  /\ memory \in [Versions -> Memory \cup {None}]
  /\ slice \in [Slices -> Slice \cup {None}]
  /\ grant \in [Grants -> Grant \cup {None}]
  /\ evaluation \in [Evaluations -> Report \cup {None}]
  /\ update \in [Versions -> Update \cup {None}]
  /\ call \in [Callers -> Call]

\* loadBehavioralMemoryGraph never throws for a stored memory: whatever was cut short,
\* the candidate, experience, slice and episode it goes back to are stored.
GraphsLoad == \A v \in Versions : memory[v] # None => parts[memory[v].family] = Part

\* Versions form an order: what a version supersedes is on record, is of the same
\* agent and family, is not itself, and is superseded by it together with all that
\* came before, however evaluations of one version overlap.
VersionsDescend ==
  \A v \in Versions : memory[v] # None =>
    /\ v \notin memory[v].supersedes
    /\ \A u \in memory[v].supersedes :
         /\ memory[u] # None
         /\ memory[u].agent = memory[v].agent /\ memory[u].family = memory[v].family
         /\ memory[u].supersedes \subseteq memory[v].supersedes

\* Each version but the first is what the directive of an evaluation on record made of
\* the version that evaluation is about.
VersionsAccounted ==
  \A v \in Versions : memory[v] # None /\ memory[v].supersedes # {} =>
    /\ update[v] # None
    /\ memory[update[v].prior] # None
    /\ evaluation[update[v].evaluation] =
         [version |-> update[v].prior, directive |-> update[v].directive]
    /\ memory[v] = applyMemoryUpdate(update[v].prior, memory[update[v].prior],
                                     update[v].directive)

\* Each grant goes back to a stored slice made for the same agent and execution, and
\* that to a stored memory that is not invalidated and whose graph loads.
Grounded(g) ==
  LET s == slice[grant[g].slice] IN
  /\ s # None
  /\ s.agent = grant[g].agent /\ s.execution = grant[g].execution
  /\ memory[s.version] # None /\ memory[s.version].state # "INVALIDATED"
  /\ memory[s.version].confidence = s.confidence
  /\ parts[memory[s.version].family] = Part

\* Every grant on record is grounded; and whatever influence a consumer was told is
\* authorised is so under a grant on record, for the execution its slice was made for,
\* and asks for nothing that is denied.
InfluenceIsGrounded ==
  /\ \A g \in Grants : grant[g] # None => Grounded(g)
  /\ \A c \in Callers : call[c].pc = "authorized" =>
       LET g == grant[call[c].grant] IN
       /\ g # None
       /\ g.slice \in call[c].proposal.slices
       /\ slice[g.slice].execution = call[c].proposal.execution
       /\ call[c].proposal.effects \subseteq SAFE_EFFECTS \ DENIED_EFFECTS

Granted ==
  [ g \in Grants |->
      IF grant[g] = None THEN None
      ELSE [ version |-> slice[grant[g].slice].version, agent |-> grant[g].agent,
             execution |-> grant[g].execution ] ]

\* The surface implements the history: memories and grants are write-once, versions
\* come of versions on record, grants of versions that are not invalidated.
History == INSTANCE VersionHistory WITH granted <- Granted
ImplementsHistory == History!HistorySpec

\* An update on record announces a version that comes to be stored, or its writer was
\* cut short.
UpdatesAreFulfilled ==
  \A v \in Versions :
    update[v] # None ~> \/ memory[v] # None
                        \/ \E c \in Callers : call[c].pc = "broken" /\ call[c].version = v

\* README.md, "Closed-loop execution learning": superseded versions are not eligible for
\* influence.
SupersededNotRecalled ==
  [][ \A c \in Callers :
        call[c].pc = "idle" /\ call'[c].pc = "memorySlice" =>
          \A v \in Versions : memory[v] # None =>
            call'[c].view.version \notin memory[v].supersedes ]_vars

\* behavioral-store.ts, putImmutable: another body under a taken id is a conflict.
EvaluationsAreFinal ==
  [][ \A e \in Evaluations : evaluation[e] # None => evaluation'[e] = evaluation[e] ]_vars

=============================================================================
