---------------------------- MODULE RuntimeStore ----------------------------
(***************************************************************************)
(* The executions and operational memories of the Sibyl store, and what may*)
(* happen to them, whoever writes: an execution is put, given its policy   *)
(* version, and only then is its id returned by startExecution; from then  *)
(* on only its status changes.  RecallDecision works over a store that     *)
(* changes this way; ExecutionLifecycle is shown to change it this way.    *)
(***************************************************************************)
EXTENDS MemoryPolicy

CONSTANTS
  MemoryInputs,  \* records that may be persisted as memories
  Registered,    \* bundles the policy registry may resolve for an execution
  StartInputs,   \* the [agent, env] each execution may be started with
  Outcomes       \* statuses executions may be completed with

ASSUME RuntimeStoreAssumption ==
  /\ MemoryInputs \subseteq Memory
  /\ StartInputs \in [Execs -> SUBSET [agent : Agents, env : Envs \cup {NoEnv}]]
  /\ Registered \in [Execs -> SUBSET Policies]
  /\ Outcomes \subseteq Terminal

VARIABLES
  execution,  \* "execution" category: [Execs -> Execution or None]
  known,      \* execution ids startExecution has returned
  memory      \* "operational_memory" category

StoreInit ==
  /\ execution = [e \in Execs |-> None]
  /\ known = {}
  /\ memory = [m \in Memories |-> None]

\* requireRunningExecution: any other status throws, and the call has no effect.
requireRunning(e) == e \in known /\ execution[e].status = "RUNNING"

BeginExecution(e, ctx) ==
  /\ execution[e] = None
  /\ execution' = [execution EXCEPT ![e] =
       [agent |-> ctx.agent, env |-> ctx.env, policy |-> Fallback, status |-> "RUNNING"]]
  /\ UNCHANGED <<known, memory>>

\* Mutant: the policy version of an execution already in use is set.
FreezePolicy_Late(e, p) ==
  /\ execution[e] # None
  /\ execution[e].policy = Fallback
  /\ execution' = [execution EXCEPT ![e].policy = p]
  /\ UNCHANGED <<known, memory>>

FreezePolicy(e, p) ==
  /\ execution[e] # None /\ e \notin known
  /\ execution[e].policy = Fallback
  /\ execution' = [execution EXCEPT ![e].policy = p]
  /\ UNCHANGED <<known, memory>>

\* Mutant: the id is returned while the write of the execution is still pending.
PublishExecution_Unawaited(e) ==
  /\ e \notin known
  /\ known' = known \cup {e}
  /\ UNCHANGED <<execution, memory>>

PublishExecution(e) ==
  /\ execution[e] # None /\ e \notin known
  /\ known' = known \cup {e}
  /\ UNCHANGED <<execution, memory>>

\* A status is set more than once only by invocations of complete that overlap.
FinishExecution(e, status) ==
  /\ e \in known
  /\ execution' = [execution EXCEPT ![e].status = status]
  /\ UNCHANGED <<known, memory>>

\* persistMemory is an upsert: a first write, or a revision of a memory in use.
WriteMemory(m, mem) ==
  /\ memory' = [memory EXCEPT ![m] = mem]
  /\ UNCHANGED <<execution, known>>

StoreNext ==
  \/ \E e \in Execs : \/ \E ctx \in StartInputs[e] : BeginExecution(e, ctx)
                      \/ \E p \in Registered[e] : FreezePolicy(e, p)
                      \/ PublishExecution(e)
                      \/ \E status \in Outcomes : FinishExecution(e, status)
  \/ \E m \in Memories, mem \in MemoryInputs : WriteMemory(m, mem)

\* The store holds what the schemas allow, and returned ids exist.
StoreTypeOK ==
  /\ execution \in [Execs -> Execution \cup {None}]
  /\ known \subseteq {e \in Execs : execution[e] # None}
  /\ memory \in [Memories -> MemoryInputs \cup {None}]

=============================================================================
