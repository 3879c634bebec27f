------------------------- MODULE ExecutionLifecycle -------------------------
(***************************************************************************)
(* EngramRuntime.startExecution, observe and complete over the Sibyl store:*)
(* an execution is started and its policy version frozen, events are added *)
(* to it, and its completion records an outcome and admits memories.       *)
(*                                                                         *)
(* Every bridge call another invocation could interfere with is a step of  *)
(* its own; an invocation may be cut short after any step, and what it has *)
(* stored stays.                                                           *)
(***************************************************************************)
EXTENDS RuntimeStore, Sequences

CONSTANTS
  Callers,    \* invocations of the runtime, each of which happens once
  Requests,   \* [Callers -> what each may be asked to do]
  Bodies,     \* what an event says: its id, type, payload and time
  Fragile,    \* the invocations that may be cut short
  ListLimit   \* rows the bridge's "list" returns at most

Outcome == [by : Callers, status : Terminal, evidence : Evidence]
Event == [exec : Execs, seq : Nat, body : Bodies]

StartRequest == [op : {"start"}, exec : Execs, context : [agent : Agents, env : Envs \cup {NoEnv}]]
ObserveRequest == [op : {"observe"}, exec : Execs, body : Bodies]
CompleteRequest == [op : {"complete"}, exec : Execs, status : Terminal, evidence : Evidence,
                    signals : Seq(Signal)]
Request == StartRequest \cup ObserveRequest \cup CompleteRequest

\* The memory an admitted signal becomes; rev stands for its structured context.
AdmittedMemory(e, run, signal, sources) ==
  [ agent      |-> run.agent,
    env        |-> run.env,
    evidence   |-> signal.evidence,
    confidence |-> IF signal.confidence = None THEN defaultConfidence(signal.evidence)
                   ELSE signal.confidence,
    sources    |-> sources,
    malformed  |-> FALSE,
    rev        |-> [origin |-> e, kind |-> signal.kind] ]

\* A signal that names no source execution is about the one being completed.
SourcesOf(signal, e) == IF signal.sources = {} THEN {e} ELSE signal.sources

ASSUME LifecycleAssumption ==
  /\ Requests \in [Callers -> SUBSET Request]
  /\ None \notin Request /\ None \notin Outcome
  /\ [origin : Execs, kind : Kinds] \subseteq Revisions
  /\ Fragile \subseteq Callers
  /\ ListLimit \in Nat
  /\ \A c \in Callers : \A q \in Requests[c] :
       /\ q.op = "start" => q.context \in StartInputs[q.exec]
       /\ q.op = "complete" =>
            /\ q.status \in Outcomes
            /\ \A n \in DOMAIN q.signals, run \in Execution :
                 AdmittedMemory(q.exec, run, q.signals[n], SourcesOf(q.signals[n], q.exec))
                   \in MemoryInputs

VARIABLES
  outcome,  \* "outcome" category: [Execs -> Outcome or None]
  event,    \* "execution_event" category: its rows, one per execution and number
  audit,    \* "runtime_evaluation" category
  call      \* what each invocation is doing, and what it holds

records == <<execution, known, memory>>
stored == <<execution, known, memory, outcome, event, audit>>
vars == <<execution, known, memory, outcome, event, audit, call>>

Call ==
  [ pc : {"idle", "freeze", "publish", "count", "slot", "put", "outcome", "store", "status",
          "signals", "sources", "admitted", "done", "failed"},
    q       : Request \cup {None},
    run     : Execution \cup {None},          \* the record read at entry
    seq     : Nat,                            \* number computed for the event
    signals : Seq(Signal),                    \* admission signals still to judge
    pending : SUBSET Execs,                   \* sources of the first not yet read
    ok      : BOOLEAN,                        \* no reason against it so far
    memory  : Memories \cup {None} ]          \* the memory just admitted

Idle == [ pc |-> "idle", q |-> None, run |-> None, seq |-> 0, signals |-> << >>,
          pending |-> {}, ok |-> FALSE, memory |-> None ]

Init ==
  /\ StoreInit
  /\ outcome = [e \in Execs |-> None]
  /\ event = {}
  /\ audit = {}
  /\ call = [c \in Callers |-> Idle]

Goto(c, pc) == call' = [call EXCEPT ![c].pc = pc]
\* The promise settles: the caller is told of success, or of an error.
Return(c) == call' = [call EXCEPT ![c] = [Idle EXCEPT !.pc = "done", !.q = call[c].q]]
Throw(c) == call' = [call EXCEPT ![c] = [Idle EXCEPT !.pc = "failed"]]

\* Mutant: the record that was checked is not kept.
Accept_Unread(c, q, pc) ==
  call' = [call EXCEPT ![c] = [Idle EXCEPT !.pc = pc, !.q = q]]

Accept(c, q, pc) ==
  call' = [call EXCEPT ![c] = [Idle EXCEPT !.pc = pc, !.q = q, !.run = execution[q.exec]]]

-----------------------------------------------------------------------------
(* startExecution                                                          *)

\* The registry resolves first.  The id is drawn fresh, so nothing else can touch
\* the record until the call returns it.
StartExecution(c, q) ==
  /\ call[c].pc = "idle" /\ q.op = "start" /\ execution[q.exec] = None
  /\ execution' = [execution EXCEPT ![q.exec] =
       [agent |-> q.context.agent, env |-> q.context.env, policy |-> Fallback,
        status |-> "RUNNING"]]
  /\ \E pc \in {"publish"} \cup {"freeze" : p \in Registered[q.exec]} :
       call' = [call EXCEPT ![c] = [Idle EXCEPT !.pc = pc, !.q = q]]
  /\ UNCHANGED <<known, memory, outcome, event, audit>>

\* Another version already set is refused (EXECUTION_POLICY_FROZEN).
SetExecutionMemoryPolicy(c) ==
  LET e == call[c].q.exec IN
  /\ call[c].pc = "freeze"
  /\ \E p \in Registered[e] :
       IF execution[e].policy \in {Fallback, p}
       THEN /\ execution' = [execution EXCEPT ![e].policy = p]
            /\ Goto(c, "publish")
       ELSE UNCHANGED execution /\ Throw(c)
  /\ UNCHANGED <<known, memory, outcome, event, audit>>

\* Mutant: the id is returned while its policy version is still being set.
ReturnExecution_Early(c) ==
  /\ call[c].pc \in {"freeze", "publish"}
  /\ known' = known \cup {call[c].q.exec}
  /\ IF call[c].pc = "freeze" THEN UNCHANGED call ELSE Return(c)
  /\ UNCHANGED <<execution, memory, outcome, event, audit>>

ReturnExecution(c) ==
  /\ call[c].pc = "publish"
  /\ known' = known \cup {call[c].q.exec}
  /\ Return(c)
  /\ UNCHANGED <<execution, memory, outcome, event, audit>>

-----------------------------------------------------------------------------
(* observe                                                                 *)

StartObserve(c, q) ==
  /\ call[c].pc = "idle" /\ q.op = "observe"
  /\ requireRunning(q.exec)
  /\ Accept(c, q, "count")
  /\ UNCHANGED stored

\* Mutant: the events of all executions are counted.
nextEventSequence_Unfiltered(e, listed) == Cardinality(listed)

nextEventSequence(e, listed) == Cardinality({x \in listed : x.exec = e})

CountEvents(c) ==
  /\ call[c].pc = "count"
  /\ \E listed \in SUBSET event :
       /\ Cardinality(listed) = IF Cardinality(event) <= ListLimit
                                THEN Cardinality(event) ELSE ListLimit
       /\ call' = [call EXCEPT ![c].pc = "slot",
                               ![c].seq = nextEventSequence(call[c].q.exec, listed)]
  /\ UNCHANGED stored

InSlot(x, e, n) == x.exec = e /\ x.seq = n

\* appendEvent, up to its put: an occupied number is a conflict, unless by the same event.
GetEvent(c) ==
  LET q == call[c].q
      existing == {x \in event : InSlot(x, q.exec, call[c].seq)}
  IN
  /\ call[c].pc = "slot"
  /\ IF existing = {} THEN Goto(c, "put")
     ELSE IF \E x \in existing : x.body = q.body THEN Return(c)
     ELSE Throw(c)
  /\ UNCHANGED stored

\* The put is an upsert: whatever came to occupy the number meanwhile is replaced.
PutEvent(c) ==
  LET q == call[c].q IN
  /\ call[c].pc = "put"
  /\ event' = {x \in event : ~InSlot(x, q.exec, call[c].seq)}
              \cup {[exec |-> q.exec, seq |-> call[c].seq, body |-> q.body]}
  /\ Return(c)
  /\ UNCHANGED <<execution, known, memory, outcome, audit>>

-----------------------------------------------------------------------------
(* complete                                                                *)

StartComplete(c, q) ==
  /\ call[c].pc = "idle" /\ q.op = "complete"
  /\ requireRunning(q.exec)
  /\ Accept(c, q, "outcome")
  /\ UNCHANGED stored

\* recordOutcome: the outcome's id is drawn anew, so any outcome there conflicts.
GetOutcome(c) ==
  /\ call[c].pc = "outcome"
  /\ IF outcome[call[c].q.exec] = None THEN Goto(c, "store") ELSE Throw(c)
  /\ UNCHANGED stored

\* Mutant: the status is written before the outcome.
PutOutcome_StatusFirst(c) ==
  LET q == call[c].q IN
  /\ call[c].pc = "store"
  /\ execution' = [execution EXCEPT ![q.exec].status = q.status]
  /\ Goto(c, "status")
  /\ UNCHANGED <<known, memory, outcome, event, audit>>

PutOutcome(c) ==
  LET q == call[c].q IN
  /\ call[c].pc = "store"
  /\ outcome' = [outcome EXCEPT ![q.exec] =
                   [by |-> c, status |-> q.status, evidence |-> q.evidence]]
  /\ Goto(c, "status")
  /\ UNCHANGED <<execution, known, memory, event, audit>>

\* Mutant: the returned record is not put back.
PutStatus_Forgotten(c) ==
  /\ call[c].pc = "status"
  /\ call' = [call EXCEPT ![c].pc = "signals", ![c].signals = call[c].q.signals]
  /\ UNCHANGED stored

\* The record is read again and put back; only completions write a known
\* execution, and they set the same fields, so the two calls are one step.
PutStatus(c) ==
  LET q == call[c].q IN
  /\ call[c].pc = "status"
  /\ execution' = [execution EXCEPT ![q.exec].status = q.status]
  /\ call' = [call EXCEPT ![c].pc = "signals", ![c].signals = q.signals]
  /\ UNCHANGED <<known, memory, outcome, event, audit>>

\* The reasons that need no other record, then the sources one by one.
JudgeSignal(c) ==
  LET q == call[c].q
      signal == Head(call[c].signals)
      sources == SourcesOf(signal, q.exec)
  IN
  /\ call[c].pc = "signals" /\ call[c].signals # << >>
  /\ call' = [call EXCEPT ![c].pc = "sources", ![c].pending = sources,
       ![c].ok = /\ evaluateAdmissionSignal(signal, call[c].run, q.evidence)
                 /\ q.exec \in sources]
  /\ UNCHANGED stored

\* Mutant: what the source's own outcome is evidence of is not asked.
SourceSupports_AnyOutcome(s, e, run, evidence) ==
  /\ execution[s] # None /\ execution[s].agent = run.agent
  /\ s # e => outcome[s] # None

\* The admitting execution's own evidence was compared when the signal was judged.
SourceSupports(s, e, run, evidence) ==
  /\ execution[s] # None /\ execution[s].agent = run.agent
  /\ s # e => outcome[s] # None /\ evidence <= outcome[s].evidence

\* One turn of the loop in validateAdmissionSources.
CheckSource(c, s) ==
  /\ call[c].pc = "sources" /\ s \in call[c].pending
  /\ call' = [call EXCEPT ![c].pending = @ \ {s},
       ![c].ok = @ /\ SourceSupports(s, call[c].q.exec, call[c].run,
                                     Head(call[c].signals).evidence)]
  /\ UNCHANGED stored

PersistMemory(c) ==
  LET q == call[c].q
      signal == Head(call[c].signals)
  IN
  /\ call[c].pc = "sources" /\ call[c].pending = {} /\ call[c].ok
  /\ \E m \in Memories :
       /\ memory[m] = None
       /\ memory' = [memory EXCEPT ![m] = AdmittedMemory(q.exec, call[c].run, signal,
                                                        SourcesOf(signal, q.exec))]
       /\ call' = [call EXCEPT ![c].pc = "admitted", ![c].memory = m]
  /\ UNCHANGED <<execution, known, outcome, event, audit>>

RecordAdmission(c) ==
  /\ call[c].pc = "admitted"
  /\ audit' = audit \cup {<<"MEMORY_ADMITTED", call[c].memory>>}
  /\ call' = [call EXCEPT ![c].pc = "signals", ![c].signals = Tail(@)]
  /\ UNCHANGED <<execution, known, memory, outcome, event>>

RecordRefusal(c) ==
  /\ call[c].pc = "sources" /\ call[c].pending = {} /\ ~call[c].ok
  /\ audit' = audit \cup {<<"MEMORY_NOT_ADMITTED", call[c].q.exec>>}
  /\ call' = [call EXCEPT ![c].pc = "signals", ![c].signals = Tail(@)]
  /\ UNCHANGED <<execution, known, memory, outcome, event>>

ReturnCompletion(c) ==
  /\ call[c].pc = "signals" /\ call[c].signals = << >>
  /\ Return(c)
  /\ UNCHANGED stored

-----------------------------------------------------------------------------
\* A process crash, or a bridge call that throws.
Abort(c) ==
  /\ c \in Fragile
  /\ call[c].pc \notin {"idle", "done", "failed"}
  /\ Throw(c)
  /\ UNCHANGED stored

Enter(c) == \E q \in Requests[c] : StartExecution(c, q) \/ StartObserve(c, q) \/ StartComplete(c, q)

Proceed(c) ==
  \/ SetExecutionMemoryPolicy(c) \/ ReturnExecution(c)
  \/ CountEvents(c) \/ GetEvent(c) \/ PutEvent(c)
  \/ GetOutcome(c) \/ PutOutcome(c) \/ PutStatus(c)
  \/ JudgeSignal(c) \/ (\E s \in call[c].pending : CheckSource(c, s))
  \/ PersistMemory(c) \/ RecordAdmission(c) \/ RecordRefusal(c) \/ ReturnCompletion(c)

Next == \E c \in Callers : Enter(c) \/ Proceed(c) \/ Abort(c)

Spec == Init /\ [][Next]_vars

\* An invocation that has begun is not left hanging: each await returns.
FairSpec == Spec /\ \A c \in Callers : WF_vars(Proceed(c))

-----------------------------------------------------------------------------
(* Properties                                                              *)

\* The locals an invocation has set by the time it reaches its pc.
HoldsWhatItNeeds(k) ==
  /\ k.pc \in {"freeze", "publish"} => k.q \in StartRequest
  /\ k.pc \in {"count", "slot", "put"} => k.q \in ObserveRequest
  /\ k.pc \in {"outcome", "store", "status", "signals", "sources", "admitted"} =>
       k.q \in CompleteRequest /\ k.run \in Execution
  /\ k.pc \in {"sources", "admitted"} => k.signals # << >>
  /\ k.pc = "admitted" => k.memory \in Memories

\* Every store and every invocation holds only what the schemas allow.
TypeOK ==
  /\ StoreTypeOK
  /\ outcome \in [Execs -> Outcome \cup {None}]
  /\ event \subseteq Event
  /\ audit \subseteq {"MEMORY_ADMITTED", "MEMORY_NOT_ADMITTED"} \X (Memories \cup Execs)
  /\ call \in [Callers -> Call]
  /\ \A c \in Callers : HoldsWhatItNeeds(call[c])

\* Whatever overlaps and wherever it is cut short, executions and memories change
\* only as RuntimeStore allows: in particular an execution's policy version is set
\* before anyone else can use it, and never after.
ImplementsStore == [][StoreNext]_records

\* A memory is never worth more than the runs it was learned from: the policy frozen
\* for the admitting execution lets its kind and evidence in, that execution is among
\* its sources, and each source is the agent's own and ended with evidence as strong.
AdmissionAuthority ==
  \A m \in Memories : memory[m] # None =>
    LET mem == memory[m]
        run == execution[mem.rev.origin]
    IN
    /\ mem.rev.kind \in Bundle[run.policy].admitOn
    /\ mem.evidence >= Bundle[run.policy].minimumEvidence
    /\ mem.rev.origin \in mem.sources
    /\ \A s \in mem.sources :
         /\ execution[s] # None /\ execution[s].agent = mem.agent
         /\ outcome[s] # None /\ mem.evidence <= outcome[s].evidence

\* An execution's events are numbered 0, 1, 2, ... without a gap and without a
\* number taken twice, even by observes that overlap.
EventsContiguous ==
  /\ \A x \in event : x.seq > 0 => \E y \in event : InSlot(y, x.exec, x.seq - 1)
  /\ \A x, y \in event : InSlot(y, x.exec, x.seq) => x = y

\* An execution leaves RUNNING only with an outcome on record, and with its status.
FinishedAsRecorded ==
  \A e \in Execs : execution[e] # None /\ execution[e].status \in Terminal =>
    outcome[e] # None /\ outcome[e].status = execution[e].status

\* An outcome on record leads to an execution that has ended, or to the completion
\* that wrote it having been cut short (the execution is then stuck: every later
\* completion finds the outcome and is refused).
CompletionFinishes ==
  \A e \in Execs :
    outcome[e] # None ~> \/ execution[e] # None /\ execution[e].status \in Terminal
                         \/ outcome[e] # None /\ call[outcome[e].by].pc = "failed"

\* runtime-store.ts:164 refuses an event for a number that is taken
\* (EVENT_IDEMPOTENCY_CONFLICT): an event on record stays on record.
EventsAreFinal == [][event \subseteq event']_vars

\* runtime-store.ts:173 refuses a second, different outcome
\* (OUTCOME_IDEMPOTENCY_CONFLICT): an outcome on record is never replaced.
OutcomesAreFinal ==
  [][\A e \in Execs : outcome[e] # None => outcome'[e] = outcome[e]]_vars

=============================================================================
