--------------------------- MODULE RecallDecision ---------------------------
(***************************************************************************)
(* EngramRuntime.recall and EngramRuntime.recordDecision over the Sibyl    *)
(* store.  Every bridge call is an await, so every bridge call that another*)
(* caller could interfere with is a step of its own; the synchronous code  *)
(* between two of them belongs to the step before it.  A caller may be cut *)
(* short after any step (process crash, or a bridge call that throws): what*)
(* it has stored stays, what it held is lost.                              *)
(*                                                                         *)
(* The executions and memories are written by others - startExecution,     *)
(* complete, an operator - and change here as RuntimeStore allows.         *)
(***************************************************************************)
EXTENDS RuntimeStore

CONSTANTS
  Recalls,          \* retrieval ids (randomUUID)
  Decisions,        \* decision ids (drawn, or supplied by the caller)
  Callers,          \* invocations of the runtime, each of which happens once
  ListLimit,        \* rows the bridge's "list" returns at most
  Declared,         \* a counterfactual that names no comparison source run
  Unpaired,         \* a run-sourced counterfactual without a comparison id
  Unlisted, Unbound,\* exposure of a memory: not a candidate / without digest
  InfluenceInputs   \* sets of influences callers pass to recordDecision

Exposure == {Unlisted, Unbound} \cup Memory
Recall == [ execution : Execs, candidates : [Memories -> Exposure] ]
Counterfactual == {None, Declared, Unpaired} \cup Execs
Influence ==
  [ memory : Memories, retrieval : Recalls \cup {None}, changedAction : BOOLEAN,
    counterfactual : Counterfactual ]
Decision == [ execution : Execs, influences : SUBSET Influence ]

ASSUME RecallDecisionAssumption ==
  /\ None \notin Recall /\ None \notin Decision /\ None \notin Recalls
  /\ None \notin Influence
  /\ None \notin [agent : Agents, env : Envs \cup {NoEnv}, policy : Policies]
  /\ {Unlisted, Unbound} \cap Memory = {} /\ Unlisted # Unbound
  /\ {Declared, Unpaired, None} \cap Execs = {}
  /\ Declared # None /\ Unpaired # None /\ Declared # Unpaired
  /\ InfluenceInputs \subseteq SUBSET Influence
  /\ ListLimit \in Nat

VARIABLES
  recall,     \* "recall" category
  decision,   \* "decision" category
  audit,      \* "runtime_evaluation" category
  call        \* what each invocation is doing, and what it holds

stored == <<execution, known, memory, recall, decision, audit>>
vars == <<execution, known, memory, recall, decision, audit, call>>

\* A caller's locals; only those its pc has reached are meaningful.
Call ==
  [ pc : {"idle", "search", "list", "filter", "exposed",
          "recalls", "check", "compare", "commit", "accepted", "recorded", "rejected",
          "done"},
    exec       : Execs \cup {None},
    run        : Execution \cup {None},             \* the record read at entry
    found      : [Memories -> Memory \cup {None}],  \* candidates still in play
    pending    : SUBSET Memories,                   \* candidates not yet judged
    retrieval  : Recalls \cup {None},
    id         : Decisions \cup {None},
    influences : SUBSET Influence,
    seen       : [Recalls -> Recall \cup {None}],   \* what getRecalls returned
    todo       : SUBSET Influence,                  \* influences not yet checked
    one        : Influence \cup {None} ]            \* the one being compared

NotFound == [m \in Memories |-> None]
NotSeen == [r \in Recalls |-> None]

Idle ==
  [ pc |-> "idle", exec |-> None, run |-> None, found |-> NotFound,
    pending |-> {}, retrieval |-> None, id |-> None, influences |-> {}, seen |-> NotSeen,
    todo |-> {}, one |-> None ]

Init ==
  /\ StoreInit
  /\ recall = [r \in Recalls |-> None]
  /\ decision = [d \in Decisions |-> None]
  /\ audit = {}
  /\ call = [c \in Callers |-> Idle]

Goto(c, pc) == call' = [call EXCEPT ![c].pc = pc]
Return(c) == call' = [call EXCEPT ![c] = [Idle EXCEPT !.pc = "done"]]

-----------------------------------------------------------------------------
(* recall                                                                  *)

StartRecall(c, e) ==
  /\ call[c].pc = "idle"
  /\ requireRunning(e)
  /\ call' = [call EXCEPT ![c] = [Idle EXCEPT !.pc = "search", !.exec = e,
                                              !.run = execution[e]]]
  /\ UNCHANGED stored

\* Search relevance, the result limit and the workflow filter pick any part of
\* the agent's memories; the bridge enforces the agent boundary.
SearchMemory(c) ==
  /\ call[c].pc = "search"
  /\ \E S \in SUBSET {m \in Memories : memory[m] # None
                                       /\ memory[m].agent = call[c].run.agent} :
       call' = [call EXCEPT ![c].pc = "list",
                            ![c].found = [m \in Memories |->
                                            IF m \in S THEN memory[m] ELSE None]]
  /\ UNCHANGED stored

\* searchMemory stores the recall at once, listing every raw candidate without digest.
PutRecall(c) ==
  /\ call[c].pc = "list"
  /\ \E r \in Recalls :
       /\ recall[r] = None
       /\ recall' = [recall EXCEPT ![r] =
            [ execution  |-> call[c].exec,
              candidates |-> [m \in Memories |->
                                IF call[c].found[m] = None THEN Unlisted ELSE Unbound] ]]
       /\ call' = [call EXCEPT ![c].pc = "filter", ![c].retrieval = r,
                    ![c].pending = {m \in Memories : call[c].found[m] # None}]
  /\ UNCHANGED <<execution, known, memory, decision, audit>>

\* Mutant: the executions a memory was learned from are not looked up.
Exposable_NoLineage(mem, run) ==
  /\ \E age \in SUBSET Age : evaluateRecallCandidate(mem, run, age)
  /\ mem.agent = run.agent

\* The clock may have made anything of the memory's validity when it is judged.
Exposable(mem, run) ==
  /\ \E age \in SUBSET Age : evaluateRecallCandidate(mem, run, age)
  /\ mem.agent = run.agent
  /\ validateMemorySourceLineage(mem, execution)

\* One turn of the loop.  A score below the threshold or an eligibility
\* advisor may reject a candidate that passes every check modelled here.
JudgeCandidate(c, m) ==
  /\ call[c].pc = "filter" /\ m \in call[c].pending
  /\ \E verdict \in {None, call[c].found[m]} :
       /\ verdict # None => Exposable(verdict, call[c].run)
       /\ call' = [call EXCEPT ![c].found[m] = verdict,
                               ![c].pending = @ \ {m}]
  /\ UNCHANGED stored

\* Only the recall's own caller writes it again, so the get and the put are one step.
UpdateRecallExposure(c) ==
  /\ call[c].pc = "filter" /\ call[c].pending = {}
  /\ recall[call[c].retrieval] # None
  /\ recall' = [recall EXCEPT ![call[c].retrieval].candidates =
       [m \in Memories |->
          IF call[c].found[m] = None THEN Unlisted ELSE call[c].found[m]]]
  /\ call' = [call EXCEPT ![c] = [Idle EXCEPT !.pc = "exposed",
                                              !.retrieval = call[c].retrieval]]
  /\ UNCHANGED <<execution, known, memory, decision, audit>>

\* RECALL_FILTERED, when some candidate was turned down, is the same event here.
RecordRecallEvent(c) ==
  /\ call[c].pc = "exposed"
  /\ audit' = audit \cup {<<"RECALL_COMPLETED", call[c].retrieval>>}
  /\ Return(c)
  /\ UNCHANGED <<execution, known, memory, recall, decision>>

-----------------------------------------------------------------------------
(* recordDecision                                                          *)

StartDecision(c, e, d, I) ==
  /\ call[c].pc = "idle"
  /\ requireRunning(e)
  /\ call' = [call EXCEPT ![c] = [Idle EXCEPT !.pc = "recalls", !.exec = e,
                !.run = execution[e], !.id = d, !.influences = I, !.todo = I]]
  /\ UNCHANGED stored

\* The recalls of this execution, among those listed, that list the memory.
Listing(seen, e, i) ==
  {r \in Recalls : /\ seen[r] # None
                   /\ seen[r].execution = e
                   /\ seen[r].candidates[i.memory] # Unlisted}

assertDecisionInfluencesValid(e, I, seen) ==
  \A i \in I :
    /\ Listing(seen, e, i) # {}
    /\ i.retrieval # None => i.retrieval \in Listing(seen, e, i)
    /\ i.changedAction => i.counterfactual # None

\* Mutant: the acceptance is announced before the decision is stored.
Commit_Announced(c) ==
  call' = [call EXCEPT ![c] = [Idle EXCEPT !.pc = "accepted", !.id = call[c].id]]

\* What the caller still needs once the verdict is known; the rest is dropped.
Commit(c) ==
  call' = [call EXCEPT ![c] = [Idle EXCEPT !.pc = "commit", !.exec = call[c].exec,
             !.id = call[c].id, !.influences = call[c].influences]]
Reject(c) ==
  call' = [call EXCEPT ![c] = [Idle EXCEPT !.pc = "rejected", !.exec = call[c].exec]]

GetRecalls(c) ==
  LET kept == {r \in Recalls : recall[r] # None}
      e == call[c].exec
      I == call[c].influences
  IN
  /\ call[c].pc = "recalls"
  /\ \E listed \in SUBSET kept :
       /\ Cardinality(listed) = IF Cardinality(kept) <= ListLimit
                                THEN Cardinality(kept) ELSE ListLimit
       /\ LET seen == [r \in Recalls |-> IF r \in listed THEN recall[r] ELSE None] IN
          IF ~assertDecisionInfluencesValid(e, I, seen) THEN Reject(c)
          ELSE IF I = {} THEN Commit(c)
          ELSE call' = [call EXCEPT ![c].pc = "check", ![c].seen = seen]
  /\ UNCHANGED stored

\* Mutant: a candidate recorded without a digest is let through.
validateRecalledMemoryState_Unbound(mem, i, e, seen) ==
  LET matching == Listing(seen, e, i) \cap
                  (IF i.retrieval = None THEN Recalls ELSE {i.retrieval})
  IN \E r \in matching : /\ matching = {r}
                         /\ seen[r].candidates[i.memory] \in {mem, Unbound}

\* An influence without a retrieval id must match one recall only; its digest
\* must be present and be the memory's state now.
validateRecalledMemoryState(mem, i, e, seen) ==
  LET matching == Listing(seen, e, i) \cap
                  (IF i.retrieval = None THEN Recalls ELSE {i.retrieval})
  IN \E r \in matching : /\ matching = {r}
                         /\ seen[r].candidates[i.memory] = mem

EligibleToInfluence(mem, i, c) ==
  /\ mem # None
  /\ \E age \in SUBSET Age : evaluateInfluenceMemory(mem, call[c].run, age)
  /\ mem.agent = call[c].run.agent
  /\ validateRecalledMemoryState(mem, i, call[c].exec, call[c].seen)
  /\ validateMemorySourceLineage(mem, execution)
  /\ i.counterfactual \notin {Unpaired, call[c].exec}

Passed(c, i) ==
  IF call[c].todo = {i} THEN Commit(c)
  ELSE call' = [call EXCEPT ![c].todo = @ \ {i}, ![c].one = None, ![c].pc = "check"]

\* One turn of the loop in assertInfluencePolicy, up to the comparison's read.
CheckInfluence(c, i) ==
  /\ call[c].pc = "check" /\ i \in call[c].todo
  /\ EligibleToInfluence(memory[i.memory], i, c)
  /\ IF i.counterfactual \in Execs
     THEN call' = [call EXCEPT ![c].pc = "compare", ![c].one = i]
     ELSE Passed(c, i)
  /\ UNCHANGED stored

\* Mutant: a comparison run may still be running.
validateCounterfactualComparison_Unfinished(e, run) ==
  /\ execution[e] # None
  /\ execution[e].agent = run.agent

validateCounterfactualComparison(e, run) ==
  /\ execution[e] # None
  /\ execution[e].agent = run.agent
  /\ execution[e].status # "RUNNING"

CheckComparison(c) ==
  /\ call[c].pc = "compare"
  /\ validateCounterfactualComparison(call[c].one.counterfactual, call[c].run)
  /\ Passed(c, call[c].one)
  /\ UNCHANGED stored

\* A failed check, or an advisor's extra reason, throws.
RejectInfluence(c) ==
  /\ call[c].pc \in {"check", "compare"}
  /\ Reject(c)
  /\ UNCHANGED stored

RecordRejection(c) ==
  /\ call[c].pc = "rejected"
  /\ audit' = audit \cup {<<"INFLUENCE_REJECTED", call[c].exec>>}
  /\ Return(c)
  /\ UNCHANGED <<execution, known, memory, recall, decision>>

\* An upsert: a decision id the caller supplies twice is overwritten.
RecordRuntimeDecision(c) ==
  /\ call[c].pc = "commit"
  /\ decision' = [decision EXCEPT ![call[c].id] =
       [execution |-> call[c].exec, influences |-> call[c].influences]]
  /\ call' = [call EXCEPT ![c] = [Idle EXCEPT !.id = call[c].id,
       !.pc = IF call[c].influences = {} THEN "recorded" ELSE "accepted"]]
  /\ UNCHANGED <<execution, known, memory, recall, audit>>

RecordAcceptance(c) ==
  /\ call[c].pc = "accepted"
  /\ audit' = audit \cup {<<"INFLUENCE_ACCEPTED", call[c].id>>}
  /\ Goto(c, "recorded")
  /\ UNCHANGED <<execution, known, memory, recall, decision>>

RecordDecisionEvent(c) ==
  /\ call[c].pc = "recorded"
  /\ audit' = audit \cup {<<"DECISION_RECORDED", call[c].id>>}
  /\ Return(c)
  /\ UNCHANGED <<execution, known, memory, recall, decision>>

Abort(c) ==
  /\ call[c].pc \notin {"idle", "done"}
  /\ Return(c)
  /\ UNCHANGED stored

-----------------------------------------------------------------------------
\* The rest of the program: startExecution, complete and persistMemory.
Environment == StoreNext /\ UNCHANGED <<recall, decision, audit, call>>

CallerStep(c) ==
  \/ \E e \in Execs : \/ StartRecall(c, e)
                      \/ \E d \in Decisions, I \in InfluenceInputs :
                           StartDecision(c, e, d, I)
  \/ SearchMemory(c) \/ PutRecall(c)
  \/ \E m \in Memories : JudgeCandidate(c, m)
  \/ UpdateRecallExposure(c) \/ RecordRecallEvent(c)
  \/ GetRecalls(c)
  \/ \E i \in call[c].todo : CheckInfluence(c, i)
  \/ CheckComparison(c) \/ RejectInfluence(c) \/ RecordRejection(c)
  \/ RecordRuntimeDecision(c) \/ RecordAcceptance(c) \/ RecordDecisionEvent(c)
  \/ Abort(c)

Next == Environment \/ \E c \in Callers : CallerStep(c)

Spec == Init /\ [][Next]_vars

-----------------------------------------------------------------------------
(* Properties                                                              *)

\* The locals an invocation has set by the time it reaches its pc.
HoldsWhatItNeeds(k) ==
  /\ k.pc \in {"search", "list", "filter", "recalls", "check", "compare"} =>
       k.exec \in Execs /\ k.run \in Execution
  /\ k.pc \in {"commit", "rejected"} => k.exec \in Execs
  /\ k.pc \in {"filter", "exposed"} => k.retrieval \in Recalls
  /\ k.pc \in {"recalls", "check", "compare", "commit", "accepted", "recorded"} =>
       k.id \in Decisions
  /\ k.pc = "compare" => k.one \in k.todo
  /\ k.todo \subseteq k.influences

\* Every store and every invocation holds only what the schemas allow.
TypeOK ==
  /\ StoreTypeOK
  /\ recall \in [Recalls -> Recall \cup {None}]
  /\ decision \in [Decisions -> Decision \cup {None}]
  /\ audit \subseteq {"RECALL_COMPLETED", "INFLUENCE_REJECTED", "INFLUENCE_ACCEPTED",
                     "DECISION_RECORDED"} \X (Recalls \cup Execs \cup Decisions)
  /\ call \in [Callers -> Call]
  /\ \A c \in Callers : HoldsWhatItNeeds(call[c])

\* The state of memory m that retrieval r exposed to execution e, on record, and
\* whether it may support influence i under the policy e was published with.
Supports(r, e, i) ==
  /\ recall[r] # None
  /\ recall[r].execution = e
  /\ recall[r].candidates[i.memory] \notin {Unlisted, Unbound}
  /\ i.retrieval \in {None, r}
  /\ LET mem == recall[r].candidates[i.memory] IN
       /\ StrongEnough(mem, execution[e])
       /\ EnvironmentMatches(mem, execution[e])
       /\ mem.agent = execution[e].agent

\* Retrieved is not influenced: whatever other callers, crashes and revisions of
\* the memory do between a recall and the decision, every influence on record
\* cites a state exposed to the same execution, by the retrieval it names, of
\* the same agent, and strong enough for the execution's frozen policy.
DecisionsCiteExposedState ==
  \A d \in Decisions : decision[d] # None =>
    \A i \in decision[d].influences :
      \E r \in Recalls : Supports(r, decision[d].execution, i)

\* What a recall exposes belongs to the recalling agent, as do the executions
\* the memory says it was learned from: nothing crosses to another agent's run.
ExposureKeepsAgentsApart ==
  \A r \in Recalls : recall[r] # None =>
    \A m \in Memories :
      LET mem == recall[r].candidates[m] IN
      mem \notin {Unlisted, Unbound} =>
        /\ mem.agent = execution[recall[r].execution].agent
        /\ validateMemorySourceLineage(mem, execution)

\* A decision that claims memory changed the action names a counterfactual, and a
\* comparison run it names is another, finished execution of the same agent.
ComparisonsAreComplete ==
  \A d \in Decisions : decision[d] # None =>
    \A i \in decision[d].influences :
      /\ i.changedAction => i.counterfactual # None
      /\ i.counterfactual # Unpaired
      /\ i.counterfactual \in Execs =>
           /\ i.counterfactual # decision[d].execution
           /\ execution[i.counterfactual] # None
           /\ execution[i.counterfactual].agent = execution[decision[d].execution].agent
           /\ execution[i.counterfactual].status \in Terminal

\* An audit event is never ahead of what it reports: the decision is stored, and
\* a completed recall has no candidate left without the digest of its state.
AuditNeverAhead ==
  /\ \A d \in Decisions :
       {<<"INFLUENCE_ACCEPTED", d>>, <<"DECISION_RECORDED", d>>} \cap audit # {} =>
         decision[d] # None
  /\ \A r \in Recalls : <<"RECALL_COMPLETED", r>> \in audit =>
       /\ recall[r] # None
       /\ \A m \in Memories : recall[r].candidates[m] # Unbound

\* The promise of InfluenceLedger, kept by the calls above.
Terms == [e \in Execs |->
  IF e \in known THEN [agent |-> execution[e].agent, env |-> execution[e].env,
                       policy |-> execution[e].policy]
  ELSE None]
ExposedBy(recs) ==
  {[execution |-> recs[p[1]].execution, retrieval |-> p[1], memory |-> p[2],
    state |-> recs[p[1]].candidates[p[2]]] :
     p \in {q \in Recalls \X Memories :
             recs[q[1]] # None /\ recs[q[1]].candidates[q[2]] \notin {Unlisted, Unbound}}}
Exposed == ExposedBy(recall)
Ledger == INSTANCE InfluenceLedger WITH terms <- Terms, exposed <- Exposed,
                                        ledger <- decision
\* Refinement: each step records, exposes or publishes exactly as the ledger allows.
ImplementsLedger == Ledger!LedgerSpec

=============================================================================
