# Engram Divergent: models and proofs

TLA+ models of Engram Divergent, TLC configurations that check them on small
instances, and TLAPS proofs of what matters most for every instance. Paths are
relative to the repository (`src/` in `PROJECT.json`); line numbers are those of
the modelled commit.

Engram's claim is `STORED ≠ RECALLED ≠ ELIGIBLE ≠ INFLUENTIAL` (README.md): a memory may
influence a decision only after it was recalled for that very execution, found
eligible under a policy frozen for it, and cited in the state in which it was
shown. The code that keeps the claim is a chain of awaits over a store without
transactions, each of them a child process that may be killed. That is what is
modelled here; and beside it the agent surface, which makes memories of finished
executions, grants influence from them, and learns new versions of them, with the
transports that lead to it; the loop of paid jobs, provider memories and settlements;
and the benchmark that measures what memory is worth.

## The system

### Parts, state, operations

| Part | Code | State it keeps | Operations |
|---|---|---|---|
| Runtime | `packages/runtime/src/runtime.ts`, `policy.ts`, `memory-state.ts`; `packages/core/src/validate.ts` | none; everything is in the store | `startExecution`, `recall`, `recordDecision`, `observe`, `complete`; read-only `trace`, `inspectMemory`, `compareExecutions` |
| Sibyl runtime store | `packages/sibyl/src/runtime-store.ts` | categories `execution`, `execution_event`, `outcome`, `operational_memory`, `recall`, `decision`, `runtime_evaluation` | one method per runtime need, each one to four bridge calls |
| Bridge | `packages/sibyl/bridge.py` | the Sibyl database | `put` (upsert), `get`, `list` (10000 rows at most), `search_memories`, `delete_memory` (called by no package) |
| Policies | `packages/policy/src`, `packages/runtime/src/defaults.ts` | a registry (interface only) | resolve a bundle for a context, get one by version |
| Experience | `packages/experience/src`, `packages/memory-core/src` | none (pure) | form episode, slice, experience, candidate, memory, memory slice, grant; validate a lineage |
| Behavioral stores | `packages/sibyl/src/behavioral-store.ts`, `d1-store.ts` | nine categories of immutable objects | persist (get, compare, put), get, list, load a memory's graph |
| Evaluation | `packages/evaluation/src/memory-lifecycle.ts` | none (pure) | apply a directive to a version, resolve the current version, eligibility |
| Agent surface | `packages/agent-surface/src/server.ts` | none | `record_complete_execution`, `recall_applicable_memory`, `request_influence`, `submit_outcome_evaluation` |
| REST, MCP, SDK | `packages/agent-surface/src/http.ts`, `mcp-stdio.ts`, `sdk.ts` | REST: answers by idempotency key, in memory; stdio: lines not yet handled | route, refuse, time out, replay an answer, retry |
| Worker | `cloudflare/worker.ts` | answers by key, in D1 | check key, execute, record key |
| ACP | `packages/virtuals-acp/src`, `scripts/acp-live-prepare.ts`, `scripts/acp-a0-v2-continuous.ts`, `scripts/virtuals-acp-ingest.ts` | a record kept by the caller; the report of a run | prepare, authorize, create job, fund, observe, ingest; the continuous client; classify a job's history |
| Settlement | `packages/base-settlement/src`, `packages/scenarios/provider-continuity`, `scripts/sibyl-provider-demo.ts`, `scripts/base-settlement-verify.ts` | the intent file | provider decision, amount to pay ahead, intent, verification of a receipt |
| Benchmark | `packages/benchmark/src`, `packages/evaluation/src/benchmark.ts`, `scripts/benchmark-campaign.ts` | a checkpoint and a summary file | run the arms, gate influence by grants, compare, resume |

### How they interact

An application calls the runtime; the runtime calls its store; each store call
spawns the Python bridge and waits for it. Nothing is locked, there are no
transactions, and several invocations, in one process or in many, share one
Sibyl database. The agent surface is a second, separate path: it forms
behavioral objects from a finished execution, stores them write-once, and hands
out grants; REST, MCP stdio, the worker and the SDK are transports of it. The
economic adapters meet the runtime only through what they hand each other: a job's
history becomes an observation, observations become a memory of a provider, a
process that starts anew decides with that memory and writes an intent to a file,
and a verifier reads the file. The benchmark uses memories as fixtures and shares no
state with the rest.

### What is hard, and what must hold

* **Interleaving at every await.** What was read is used several awaits later:
  the execution's status, the recalls, a memory, a source's outcome, the next
  event number. It must hold that decisions cite exposed states only, that
  memories are admitted on authority that is on record, and that events stay
  contiguous (a gap would make `formExecutionEpisode` refuse the execution).
* **No transactions.** recall stores an unfiltered recall first and narrows it
  later; complete stores the outcome, then the status, then the memories. A
  crash leaves any prefix; it must not turn a retrieved memory into an
  influential one, nor an audit event into a lie.
* **Upserts.** `put` replaces. "Conflict" checks read before they put.
* **Order.** The policy version is put after the execution record; it must be
  there before anyone else uses the execution.
* **Limits and time-outs.** `list` truncates; a killed bridge call may have
  taken effect; REST answers 504 for an operation that goes on, stdio serves the
  next line beside it, and the SDK tries again what may have taken effect. It must
  hold that a client is told once, only what was done for its request, and that a
  request that comes after it was told a result does not run again under its key.
* **Values that can be used again.** An ACP record is returned to its caller, who may
  go on from any it was ever given, in any order, with any job id, receipt and terminal
  flag. No job may be opened that was not approved. What a record says of the
  marketplace is the caller's word.
* **Calls that take effect and fail.** The marketplace may open a job and not be heard.
* **Histories read at any time.** A job's history may be fetched before or after the job
  has ended, again and again, and be late besides; what is observed must be true of the job.
* **Files.** The intent file is replaced by whichever process decided last, after its
  decision was recorded, and may be cut; the checkpoint of a campaign is appended to, and an append may be cut anywhere.
* **Untrusted proposals.** A model may cite, ask for effects, or do neither, in any
  combination; influence must be what a grant allows.

`PROJECT.json` lists the hazards one by one, at their lines, with the property
that would catch each, or says why there is none.

## The modules

| Module | Models | Role |
|---|---|---|
| `MemoryPolicy` | `policy.ts`, the record types, `validateMemorySourceLineage` | vocabulary and pure rules |
| `RuntimeStore` | executions and operational memories in the store | what any writer may do to them: the interface between the next two |
| `RecallDecision` | `recall`, `recordDecision` and the store methods they call | one action per bridge call, over a store that changes as `RuntimeStore` allows |
| `InfluenceLedger` | the promise of recall and recordDecision | abstract specification: publish, expose, record |
| `ExecutionLifecycle` | `startExecution`, `observe`, `complete` and the store methods they call | one action per bridge call; shown to change the store as `RuntimeStore` allows |
| `Runtime` | `EngramRuntime` as a whole | composes the two halves over one store: what was any step of `RuntimeStore` to each is now what the other does |
| `MemoryLifecycle` | `memory-lifecycle.ts`, admission in `formation.ts`, the memory's schema | pure rules: next version, current version, eligibility |
| `VersionHistory` | the promise of the agent surface | abstract specification: admit, derive, grant |
| `BehavioralMemory` | the four writing operations of `server.ts` with the formation rules, over `behavioral-store.ts` or `d1-store.ts` | one action per store call that another invocation could interfere with |
| `SurfaceTransport` | `http.ts`, `worker.ts`, `sdk.ts`, `mcp-stdio.ts` | requests over an operation that may take effect, return and fail at any time, also after its caller was answered |
| `KeyedAnswers` | what an idempotency key promises | abstract specification: decide, hear |
| `AcpOrchestration` | `orchestration.ts`, `acp-live-prepare.ts`, `acp-a0-v2-continuous.ts` | records and the continuous client, over an external marketplace |
| `ProviderContinuity` | `provider-continuity/src/index.ts` | pure rules: eligible offers, the memory that applies, the engagement |
| `SettlementTerms` | `base-settlement/src` | pure rules: amounts, intents, what a receipt is evidence of |
| `ProviderLoop` | `virtuals-acp/src/evidence.ts`, `virtuals-acp-ingest.ts`, `sibyl-provider-demo.ts`, `base-settlement-verify.ts` | composes the three: job, evidence, memory, decision, intent file, verification |
| `BenchmarkArms` | `runner.ts`, `scenario.ts`, `deterministic.ts`, `evaluation/src/benchmark.ts` | pure rules: what an arm may do, and how it is judged |
| `Campaign` | `campaign.ts`, `benchmark-campaign.ts`, the retries of `qwen.ts` | the process, its files, crashes and resumption |
| `RuntimeStoreProofs`, `RecallDecisionProofs`, `ExecutionLifecycleProofs`, `RuntimeProofs`, `BehavioralMemoryProofs`, `SurfaceTransportProofs`, `ProviderLoopProofs`, `CampaignProofs` | | theorems and proofs |
| `MCRecallDecision`, `MCExecutionLifecycle`, `MCRuntime`, `MCBehavioralMemory`, `MCSurfaceTransport`, `MCProviderLoop`, `MCCampaign` | | instances for TLC |

`RecallDecision` and `ExecutionLifecycle` are two halves of one class over one
store. They are composed through `RuntimeStore`: the first assumes of the rest of
the program only that executions and memories change by its actions
(`Environment`), the second guarantees exactly that (`ImplementsStore`). `Runtime` puts
them together (it extends the second and instantiates the first with its proofs), so
that a property can speak of a decision and of the completions behind it at once.
`BehavioralMemory` stands apart, as in the code: it has other categories of the
store, and what it takes from the runtime is a finished execution with its events,
which the caller submits (`Submissions`). `SurfaceTransport` takes an operation of the
surface for what it can do to a transport: nothing, an effect, an answer, an error; so
it holds whatever `BehavioralMemory` does. `ProviderLoop` and `Campaign` stand apart in
the same way.

### From code to model

* **A caller is one invocation** of a runtime method. Its `pc` names the bridge
  call it will make next, the other fields of its record are the locals it holds.
  A bridge call that another invocation may interfere with is a step of its own;
  the synchronous code up to the next one belongs to it. Two calls are one step
  only where nothing else can touch the record between them; the definitions say
  so where it applies.
* **Errors and crashes.** A throw before anything is stored is a disabled action
  (`requireRunning`) or a return without effect. `Abort` ends an invocation after
  any step: the process dies, or a bridge call fails, with or without effect.
* **Statuses** are RUNNING and two terminal ones; the code treats all terminal
  ones alike. **Evidence** keeps its order 0..5, **confidence** is in percent.
* **Time** is what the rules ask: not yet valid, expired, too old. Each check
  draws it afresh, since the clock moves between them.
* **Environment and tool version** obey one matching rule, so one attribute stands
  for both.
* **A memory state digest** is the state itself: two states have equal digests
  exactly if every field the digest covers agrees (`memory-state.ts`). `rev` stands
  for the covered fields no rule reads.
* **Search** may return any of the agent's memories: ranking, result limit and
  filters decide which, and no property depends on them. `policiesFor` is
  `Bundle[run.policy]`; the policy a record does not name is `Fallback`.
* **Ids drawn by `randomUUID`** are fresh: the action picks an unused one.
* **An eligibility advisor** can only add reasons to refuse; refusal is always
  possible in the model.

And for `BehavioralMemory`:

* **A family** is what one recorded execution is formed into: its episode, slice,
  experience and candidate. They are stored in that order, before the memory, under
  ids drawn together, so one id stands for the four, and `parts` says which of them
  are stored. A memory refers to its candidate, experience and episode by its family,
  and keeps it from version to version, as `...prior` does.
* **Two kinds of store.** Both read, compare, and then write. On Sibyl the write is an
  upsert, on D1 it is refused on a taken id: the constant `Upserts`. Ids drawn by
  `randomUUID` are fresh, so the read finds nothing and the two steps are one; only an
  evaluation's id is given by the caller, and there they are two (`GetEvaluation`,
  `PutEvaluation`).
* **An update record** has an id of its own; it is kept under the version it announces,
  which is drawn together with it.
* **Applicability** is the set of contexts that agree with each key a memory names.
  **Times** of versions are the evaluators', in any order, so any version that nothing
  supersedes may be the latest.
* **A submission** carries what decides whether it is formed: evidence, confidence,
  status, outcome, event numbers, and whether its times are in order.
* `requestInfluence` writes nothing. Its answer stays visible (`authorized`) until the
  consumer has it, so that a property can speak of it.

For `SurfaceTransport`:

* **One module for four transports**, since what can go wrong is the same: an operation
  and its caller part. `deployment` says which it is, and is fixed. The tables of
  refusals (`restChecks`, `workerChecks`, `parseRequest`) keep the order of the checks; that is
  what decides whether a request is answered 401 or 404, and whether it gets to run.
* **A body** is what the schema parses it to, and its fingerprint is itself. `Large`
  bodies are those whose answer is beyond `MAX_RESPONSE_BYTES`.
* **What an error becomes** is a table for each transport (`errorCode`). The SDK's
  comment says that refusals are never retried (sdk.ts:140); `normalizeError` does not look for
  the messages of a conflict and of a denied effect, so these are "INTERNAL" and are
  retried, and so they are here.
* **Keys.** `packages/agent-surface/README.md` (30-33) says that a repeated key replays
  the response, and that keys are process-local. The code keeps that from the moment an
  answer is on record, for requests that look the key up after that; `AnsweredKeysAreClosed`
  and `KeyedAnswers` say as much and no more. Two requests that overlap under one key both
  run, and so does one that follows a time-out. Over D1 the look-up is awaited: one that
  has found no row (`Miss`) starts its operation (`Start`) even if the other is answered
  in between. Its insert then fails, and it is told of an error after its effects.
* **Results without an effect** are REJECTED, NO_ELIGIBLE_MEMORY and AUTHORIZED
  (server.ts:68, 80, 87-92). They are kept under their key like any other. `Effectless` is
  the route that never writes (`request_influence`), `Effectful` the one that returns only
  after it has written (`submit_outcome_evaluation`); the other two may do either.
* **An insert may take effect and not be heard of**: the row stays, the client is told of an
  error, and its next attempt is told what the row says.
* **Restarts** are those of the REST process, and **terminations** those of one
  invocation of the worker. A client that was not answered is `lost`.

For `ProviderLoop` and its parts:

* **Records** are values: `records` holds every one that was ever returned, and any of
  them may be used at any time. The digest of a plan is the plan itself.
  `prepareAcpExecution` does not verify the contract, the script that calls it does:
  `PrepareAcpExecution` is the script (acp-live-prepare.ts), and `JobsAreApproved` is owed to
  it; the exported function alone would not keep it. (`virtuals-acp-prepare.ts` calls it too, on the draft
  contract of a catalogue, and does not verify that; its record goes to a file only.)
  `CreateAcpJob`, `FundAcpJob` and `ObserveAcpJob` check the record's state and no more, as in the
  code: a record may be moved on with a job that does not exist, was not paid or has
  not ended. So no property says that records are true.
* **The marketplace and the chain are external**: jobs are opened, paid for and ended
  as their clients' use of them shows; `Receipts` is any function.
* **Prices** are integers, `Fine` to the atomic unit of USDC, so that rounding and the
  tolerance of a double near a whole unit are exact, as they are in the code for
  amounts of that size.
* **A deciding process** owns its execution. What it shares with others is the file: it
  decides, has the decision recorded if it cites a memory, opens the file, which
  empties it, and writes it, whole or in part; after each of these it may be cut
  short, and then takes no other step. Two that write at once can leave any of them,
  or neither, whole. The verifier reads the file once. Executions are numbered as they
  decide, which is a choice of names.
* **Recall and recordDecision** are `RecallDecision`'s; here recall may give any memory with any
  score, and recording a decision is a step that may not come.
* **Memories** are any that someone had admitted: `seed` takes the failure it is about from
  its caller (sibyl-provider-demo.ts:83-97), and nothing compares that with what was observed
  of jobs. So no property relates memories and observations.
* **A history** is fetched at any time of the job and read at once; whether it is late is up
  to the dates and the expected latency the caller gives. A status the code does not
  know (`"other"`) is UNKNOWN_FAILURE.
* **One receipt may settle two intents** for the same amount and provider
  (evidence.ts:80 takes the first matching log): `settled` keeps both. No property says
  otherwise, since nothing in the repository does.

For `BenchmarkArms` and `Campaign`:

* **A proposal** is a provider, whether it sets other executable terms, whether it cites
  the arm's slice, and its effects. One that cites a slice and asks for no effect
  is authorized on every arm, and counts as influenced; A2's grant is eligible
  whatever its expiry (scenario.ts:182; model-adapter.ts:27 gives expiry as an example of
  what makes one ineligible). The runner's `escapes` is a constant 0 there, and not a variable here.
* **A verdict** compares actions and utilities only: a beneficial pair need not be one
  that was influenced, as in the code.
* **Utilities** are integers, in parts of 2 * Budget * Latency. No two candidates
  cost the same (`ArmsAssumption`): fallback and adapter break ties differently.
* **The checkpoint** is a sequence of lines, with whether the last has its newline.
  A record cut before its newline parses, and counts as completed; the next append
  then makes one line of both, which does not parse and stops every later start.
  So a campaign can end its own file; what it cannot do is to repeat or to lose
  a pair in a file that is read.
* **The summary** is written after an append. A crash in between, at the last pair,
  leaves a summary that no later start brings up to date, since it finds nothing
  to do. What the summary claims stays true (`FileHoldsClaims`).
* **A request that was timed out** goes on in the background and is not heard; the
  model drops it. **One process at a time** runs a campaign; the code does not
  exclude a second one on the same file.

## What TLC checks

| Run | Instance | Shows |
|---|---|---|
| `recall_decision` | 3 invocations, 2 agents, 2 executions, 1 memory with a weak and a strong revision, 2 retrievals, 1 decision id, 2 policies, list limit 2; 2.3 million states | `TypeOK`, `DecisionsCiteExposedState`, `ExposureKeepsAgentsApart`, `ComparisonsAreComplete`, `AuditNeverAhead`, and `ImplementsLedger` (refinement) |
| `execution_lifecycle` | 7 invocations (2 starts, 3 observes, 2 completions of two executions), 3 of them breakable, list limit 1; 0.5 million states | `TypeOK`, `AdmissionAuthority`, `EventsContiguous`, `FinishedAsRecorded`, `ImplementsStore`, and the liveness `CompletionFinishes` |
| `decision_while_running` | the whole runtime: 2 starts, 2 completions, 2 recalls or decisions of two executions, 1 memory, 2 policies | a disagreement: a decision is stored after its execution ended |
| `events_final` | two observes of one execution, nothing breaks | a disagreement: an event on record is replaced |
| `outcomes_final` | two completions of one execution, nothing breaks | a disagreement: an outcome on record is replaced |
| `behavioral_memory` | 3 invocations, one breakable, 2 agents, 2 families, 4 versions, 2 evaluations, 1 slice, 1 grant, over D1; 0.2 million states | `TypeOK`, `GraphsLoad`, `VersionsDescend`, `VersionsAccounted`, `InfluenceIsGrounded`, and `ImplementsHistory` (refinement) |
| `updates_fulfilled` | 2 invocations, one breakable, 3 versions, 1 evaluation id, over Sibyl; 8 thousand states | the liveness `UpdatesAreFulfilled` |
| `superseded_recalled` | one invocation at a time, over D1 | a disagreement: a superseded version is recalled |
| `evaluations_final` | 2 invocations, over Sibyl | a disagreement: an evaluation on record is replaced |
| `surface_transport` | 3 calls over each of 7 deployments, 1 key, 3 bodies, 2 attempts, 1 restart; 0.8 million states | `TypeOK`, `AnswersAreEarned`, `AnsweredKeysAreClosed`, `AnsweredOnce`, the liveness `AllAnswered`, and `ImplementsKeyedAnswers` (refinement) |
| `provider_loop` | 2 jobs, 1 run of the client, 5 plans and 4 contracts, 2 deciding processes in 3 situations, 2 memories, 3 transactions; 0.35 million states | `TypeOK`, `JobsAreApproved`, `RunReportsAreTrue`, `ObservationsAreTrue`, `InfluenceOnlyGuards`, `SettlementsAreAuthorized`, `SettlementsAreAccounted`, and the liveness `RunsEnd` |
| `benchmark_campaign` | 2 pairs of up to 3 arms in 3 orders, 6 proposals and both adapters, 2 attempts, 3 starts; 0.5 million states | `TypeOK`, `InfluenceIsGranted`, `RulesStayWithinGrants`, `NoPairTwice`, `FileHoldsClaims`, `CheckpointOnlyGrows`, and the liveness `CampaignEnds` |

The bounds, and why they are enough for the cases that matter:

* Three invocations are a recall and a decision on the same execution with a third
  that recalls or decides meanwhile, and crashes; symmetric, so TLC uses symmetry
  (safety only). The execution that finishes, the operator that revises the memory
  and the comparison run are `Environment` steps, of which there may be any number.
* Two retrievals make an influence without retrieval id ambiguous. Two agents make
  `e2` a foreign or an own run. The strict policy refuses the weak revision.
* `ListLimit` is 10000 in the code. In `execution_lifecycle` it is 1, so lists are truncated
  there. In `recall_decision` it is 2, and there are two recalls at most: both can be listed,
  which an ambiguous influence needs, and nothing is truncated. That a truncated
  list does no harm to decisions is proved (`DecisionsAreSupported` holds for every limit);
  the same file with `ListLimit = 1` passes too (2.1 million states).
* `PutStatus` reads the execution and puts it back in one step. A lost update of another
  field could not show in `execution_lifecycle`; it is excluded because nobody sets another
  field of an execution whose id has been returned, which is what `ImplementsStore` says.
* In `execution_lifecycle` every execution has one completion: two that overlap
  replace each other's outcome (`outcomes_final`), after which `AdmissionAuthority`
  and `FinishedAsRecorded` fail for that reason alone. Overlapping observes are
  included, since `EventsContiguous` survives them.
* In `decision_while_running` the first execution leaves a memory, verified or merely
  observed, and the second belongs to the same agent or to another, and has the strict
  policy or the fallback. With `INVARIANT InfluenceIsEarned` in place of its property, the same
  file checks that every influence was earned (0.7 million states, some of them with
  influences on record); that property is proved, and takes no run of its own.
* In `behavioral_memory` an invocation serves any number of calls; ids and families run
  out instead. Four versions are two recorded memories with a version each, a chain of
  three with a fork, or several versions made of one. Of the submissions one is admitted, and each other
  one falls short in a single respect. Three invocations race two submissions of
  evaluations under one id with a third call. `VersionsAccounted` is checked over D1 only;
  over Sibyl it fails for the reason `evaluations_final` shows.
* In `surface_transport` the second call may be any request: well-formed, or at fault in
  one respect of each kind. The first and the third share its key, with the same or
  another body, so a key is looked up before, while and after it is answered, and a
  third request finds what two that overlapped have left. One restart is enough to
  forget, two attempts are one retry.
* In `provider_loop` the plans and contracts are one that is in order and others at
  fault in one respect (arm, ceiling, snapshot, price, a repeated candidate). Two
  jobs let a caller open a second from an old record, or beside the run of the client.
  The constraint `OneWithoutTheOther` explores jobs with their records, runs and observations
  in states where no process has decided, and decisions, file and settlements in states
  where no record was made and no run has begun. The two halves share no variable, no guard
  and no property, so the states of each are all there, and what is left out is their
  product. `RunsEnd` is a matter of the first half. The proofs have no such constraint.
  The prices round down, round up, and fit no whole unit. Two deciding processes share
  the file, so a verifier may see the intent of either. Of the transactions one pays
  both providers after other transfers, one pays what a guarded engagement allows
  behind a log that is no transfer, and one was reverted.
* In `benchmark_campaign` the proposals are the fallback, an uncited and a cited change,
  effects that are granted, uncited and denied, and an unlisted provider. Three
  starts are a crash, a second crash and an end; both files may be cut each time.
  One order of arms lacks the treatment, which the runner refuses after running them.
* `CHECK_DEADLOCK FALSE`: when all invocations have returned, the system has stopped.

**Fairness.** `FairSpec` assumes weak fairness of `Proceed(c)`, the next step of an
invocation that has begun: each await of a promise that settles is resumed by the
event loop. Nothing is assumed about invocations that have not begun, and
`Abort` may still end a breakable one at any point, so `CompletionFinishes` says: an
outcome on record leads to an ended execution, or its writer was cut short. In the
second case the execution is stuck: RUNNING for ever, since every later completion
finds the outcome and throws. `UpdatesAreFulfilled` has the same form: an update on record
leads to the version it announces, or its writer was cut short; then the update names a
memory that never exists, since a retry draws new ids.

The other three specifications carry their fairness themselves:

* `SurfaceTransport`: a line that is read from stdin comes to be handled, and the timer
  of an accepted request fires. That an operation ends is not assumed: `AllAnswered`
  is owed to `withTimeout` alone, for the REST server and stdio, which have it.
* `AcpOrchestration`: each call of a run returns or throws (`RunStep`). What the
  marketplace does is not assumed: a job nobody ends is left at the deadline, and
  `RunsEnd`.
* `Campaign`: the process goes on; where a model is asked, only the time-out is sure
  to come. `CampaignEnds` holds although a model may never answer and an append may
  always fail.

## What is proved

All theorems hold for every value of the constants that satisfies the named
assumptions (`PolicyAssumption`, `RuntimeStoreAssumption`, `RecallDecisionAssumption`,
`LifecycleAssumption`, `LifecycleRulesAssumption`,
`BehavioralAssumption`, `TransportAssumption`, `NoneAssumption`, `AcpAssumption`,
`SettlementAssumption`, `LoopAssumption`, `NoneIsNoRelationship`, `ArmsAssumption`,
`CampaignAssumption`, `TornAssumption`), which state types and that distinct markers
differ (and `ArmsAssumption`, that candidates differ in cost); TLC evaluates them in each
run.

The main argument is the inductive invariant `IInv` of `RecallDecisionProofs`. The
properties are not inductive: they speak of what is on record and say nothing of the
locals that will be put there. `IInv` adds what each local is worth at each `pc`:

* `RunsAreCurrent`: the execution record read at entry still agrees with the
  stored one, except for its status (needs: a policy version is never set on a
  published execution);
* `FilteringIsExclusive`, `CandidatesAreOwn`: only its own invocation narrows a
  recall, and what it still holds is of the recalling agent or judged already;
* `RecallsAreSound`: a digest on record was exposed and passed `Exposable`;
* `SeenIsOnRecord`: a digest in a list read earlier is still on record;
* `PassedStaysPassed`: each influence already checked is supported now, and its
  comparison settled, whatever happened since;
* `DecisionsAreKnown`: each decision on record belongs to a published execution.

From it follow `DecisionsAreSupported`, `AgentsStayApart`, `ComparisonsStayComplete` and, step
by step, `Implements`: under the mapping `Terms`, `Exposed`, `decision`, each step is a step
of `InfluenceLedger` or a stutter. `AuditFollowsStore` has an invariant of its own,
`AuditInv`. `RuntimeStoreProofs` holds what both halves need of the store: its types,
and that published executions keep agent, environment and policy.

`ExecutionLifecycleProofs` has an `IInv` of its own, in three parts:

* `TypeOK`;
* `CallsInv`: an execution being started is held by one invocation and is not
  known yet (`StartsArePrivate`), one being used is known, each invocation works on a
  request it was given and on signals of that request. This makes every step a
  step of `RuntimeStore` or a stutter (`LifecycleImplementsStore`);
* `EventsInv`: events are finitely many, every number below an event's is taken,
  none twice, and the number an observe holds is at most the next one. The step
  that computes it counts rows of a list that may be truncated: `n` events with
  distinct numbers cannot all be numbered below `n - 1`, and those that exist have no
  gap below them, so the count never skips a number (`EventsStayContiguous`).

These hold however invocations overlap. `FinishedStaysRecorded` and `AdmissionsAreAuthorised`
hold of every behaviour without an `OutcomeRace`: a state in which two completions of one
execution have both found no outcome and neither has put its own. With one they
are false (see `outcomes_final`). An execution may be completed any number of times besides:
after a completion has ended, after one was cut short anywhere, or while one is at
any other point. Their invariant `AuthInv` says that from finding no
outcome until it writes one, a completion's execution has none; that the outcome is
its own from then on; and that a signal with nothing against it has the support of
each source read so far, which lasts because outcomes and agents do.

`events_final` and `outcomes_final` show that two overlapping invocations can replace what
is on record. That nothing else can is proved: `OutcomesStayFinal` and `StatusesStayFinal`
of behaviours without an `OutcomeRace`, and `EventsStayFinal` of behaviours without an
`EventRace`, in which two observes hold one number of one execution, each having found it
free. Observes may follow each other and overlap in every other way, and count in a list
cut anywhere, so that the number they get is taken and they are refused. The
invariant is `NumbersStayFree`: the number that an observe has found free is free until it
puts its event.

What a caller was told has come about, and lasts: `StartsStayTrue` (the execution is known, with
the context asked for and a policy that may be resolved for it; by `PrivateLasts`, nobody else
writes an execution that is being started), and, short of the same two races,
`ObservesStayTrue` and `CompletionsStayTrue`. With them TLC finds both false.

`OnlyFailuresStrand` is the safety half of `CompletionFinishes`, and needs no hypothesis: an execution
whose outcome is on record has ended, or the invocation that wrote the outcome is the one
that is about to end it, or that very invocation failed. What the run adds is that an
invocation that is about to go on does. `MemoriesFollowEnds`, again without a hypothesis, says
that no memory is of an execution that may still run.

`RuntimeProofs` composes the halves. A step of `startExecution`, `observe` or `complete` is a
step of `RuntimeStore`, hence of `RecallDecision`'s environment (by `LifecycleImplementsStore`), and
recall and decision leave alone all that the lifecycle writes. So both inductive
invariants hold of the whole (`Halves`), and with them what was proved of recall and decision
over an arbitrary environment (`RuntimeKeepsPromises`). `InfluencesAreEarned` says what neither
half can say: from a decision back to the runs it owes its influence to. Its
invariants are that a memory is written once and stays, that what a recall found is what
is stored (`ShownInv`), and that the run a memory came of has ended before the
memory is put (`EndedInv`). It holds without an `OutcomeRace`, as `AdmissionsAreAuthorised` does.
The theorems of `RuntimeProofs` assume `DecidersAssumption`, that the markers and the inputs of
recall and decision are as `RecallDecisionAssumption` has them; TLC has found it true of `MCRuntime`.

`BehavioralMemoryProofs` proves all safety properties of `BehavioralMemory`, for either kind
of store except for `VersionsAccounted`. Its `IInv` says of each invocation what it holds at
its `pc` (`Sound`):

* `RecordSound`: the parts before its `pc` are stored, so the memory comes last;
* `RecallSound`: its slice is of a stored version that is not invalidated;
* `RequestSound`: the grant it was told of covers the proposal;
* `SubmitSound`: the version it will store is made of a stored one, and its evaluation and
  update are on record;
* `Reserved` and `Distinct`: the ids it has drawn are not taken and nobody else's.

`Kept` (`KeptByStep`) says what a step leaves alone, from which everything said of the other
invocations lasts (`OthersSound`). `SurfaceImplementsHistory` maps the last put of a record to
`Admit`, that of a submission to `Derive`, the put of a grant to `Grant`, and every other
step to a stutter.

`OnlyFailuresOrphan` is the safety half of `UpdatesAreFulfilled`: an update on record, or the parts of
a record, stand without their memory only while the invocation that drew its id is on its
way, or if it failed.

Three more say what evaluations may do. `EvidenceStaysInherited`: over any chain of them a
version keeps the evidence and the applicability of each version it supersedes, so no
number of evaluations makes a memory stronger or wider. `CurrentStaysUnsuperseded`: since
versions descend, `resolveCurrentMemory` always finds a version that nothing supersedes and never
falls back on the last of a cycle, and no version that another supersedes is
eligible; what `superseded_recalled` shows is that the surface does not ask it.
`EvaluationsStayFinal`: over a store that refuses taken ids (`~Upserts`, the worker's D1) an evaluation
on record is never replaced, so `evaluations_final` is due to the upsert alone.

`SurfaceTransportProofs` proves all safety properties of the transports, for any requests
and deployments, calls, attempts and restarts. Its `IInv` says

* of each call, what its place tells of its operation (`CallSound`): one that has found no
  row has none yet, one that waits has an operation that runs or has taken effect, one
  that has a row to write has a finished operation, and nothing takes effect more often
  than it was tried;
* of what is kept (`KeptSound`, `RowSound`), that a finished operation produced it for
  that route, key and body (`Produced`);
* of who was told a result (`HeardSound`), that it is still what the table says, and
  that the map of its own process still has an entry. This is what makes a later
  request find the key: `AnsweredKeysStayClosed`, and `ImplementsPromise`, where the put of a row
  is `Decide`, the answer of the worker is `Hear`, and every other step stutters.

`Stays` says what a step leaves alone of the calls it is not about, as `Kept` does above.
That the tables of checks refuse every write without a key, and never answer
"IDEMPOTENCY_KEY_REUSED" themselves, is a lemma (`RefusalIsCode`).

`ProviderLoopProofs` proves all safety properties of the loop. `IInv` is

* `AcpSound`: every plan of a record or of a job is `Agreed` (so the contract was verified
  before the first record was made, and nothing later changes a plan), and each run has
  what its place says (`RunSound`). It lasts because jobs only go forward (`JobsStay`);
* `ObservationSound`: each observation is what a status its job had is evidence of, and agrees
  with what the job has come to since;
* `LoopSound`: a whole file is what was derived from the choice of the execution it names
  (`FileSound`), which has written it, and an execution past its recording has its
  decision on record if it cites a memory (`ProcessSound`). Hence `SettlementsStayAuthorized`, `SettlementsStayAccounted`
  and `IntentsParse`.

`PaymentsStayBounded` adds what the two shares of `terms` come to in money: evidence is of a
payment of at most half the price agreed, up to the rounding of half an atomic unit,
and where a memory guards the engagement of at most a fifth of what the same provider
would have been paid ahead without the memory, whatever the prices.

The decision itself is a lemma by cases on the two guards of `decideProviderEngagement`; the
offer it takes is the first in a total order, which exists in every non-empty set of
places (by well-foundedness, not by induction over the sort).

`CampaignProofs` proves all safety properties of a campaign. `FileHoldsClaims` alone is not
inductive: a count could overtake the file. `IInv` adds that the pair being run was not
known at the start (`AtPair`), that whatever the file holds was known or has been passed
(`PassedOrKnown`), and that no more is counted than was known or passed (`Counted`). What an
append does to what a file holds, at each of its four extents and on an open or a
closed last line, is one lemma (`AppendHolds`), from which `NoPairTwice` follows, since
the pair appended is not held yet.

Only model-checked: liveness (`CompletionFinishes`, `UpdatesAreFulfilled`, `AllAnswered`,
`RunsEnd`, `CampaignEnds`), which needs `ENABLED` and fairness (of the first two the safety halves are
proved), and the five disagreements, each
of them a behaviour. Of the disagreements three are proved not to occur without the race or
the upsert they need (`OutcomesStayFinal`, `EventsStayFinal`,
`EvaluationsStayFinal`). What a recursive definition computes for every input would take
induction over data; where the models need such a fact, it is got from
well-foundedness (the first offer, the current version) instead.

## What is left

Not modelled, and why:

* model adapters' prompts and replies, scripts that print or plot, and the demo page:
  text and output. Of the adapters there is when they ask again and when they fail, and
  any proposal;
* statistics over runs (bootstrap intervals, medians, aggregates of a campaign) and
  the result files: floating point and output, after everything has ended;
* the evaluation reports, `eligibility-advisor.ts`, `relationships.ts`, `staleness.ts`, `quality.ts`,
  `closed-loop.ts`: classification of finished runs. An advisor only adds reasons to refuse,
  and refusal is always possible in the models;
* the tool-recovery and agent-handoff scenarios: sequential demonstrations over parts
  that are modelled;
* `validateBehavioralMemoryLineage` and `decideProviderScenario`, which only demos and tests call;
* ranking scores, the bridge's journal of writes, and its `delete_memory`, which no
  package calls;
* two processes running one campaign on one file: nothing in the code provides for it.

## Running

    tlc -workers 2 -config recall_decision.cfg MCRecallDecision.tla
    tlc -workers 2 -config execution_lifecycle.cfg MCExecutionLifecycle.tla
    tlc -workers 2 -config decision_while_running.cfg MCRuntime.tla      (ends in a counterexample)
    tlc -workers 2 -config behavioral_memory.cfg MCBehavioralMemory.tla
    tlc -workers 2 -config surface_transport.cfg MCSurfaceTransport.tla
    tlc -workers 2 -config provider_loop.cfg MCProviderLoop.tla
    tlc -workers 2 -config benchmark_campaign.cfg MCCampaign.tla
    tlapm RecallDecisionProofs.tla      (and each other module ending in Proofs)

The definitions whose names end in a suffix after an underscore (`FreezePolicy_Late`)
are mutants: plausible bugs that each break the property `PROJECT.json` names.
