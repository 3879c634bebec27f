---------------------------- MODULE MemoryPolicy ----------------------------
(***************************************************************************)
(* The vocabulary and the pure rules the Engram runtime is built from: the *)
(* evidence order, policy bundles, execution records, operational memories *)
(* and the three policy evaluations (recall, influence, admission).        *)
(*                                                                         *)
(* Timestamps are abstracted to the questions the rules ask of them: is the*)
(* memory not valid yet ("early"), past validUntil ("expired") or older    *)
(* than maxAgeSeconds ("aged")?  environmentVersion and the major of       *)
(* toolVersion obey the same matching rule, so one attribute, env, stands  *)
(* for both; NoEnv is the version that was left unspecified.               *)
(***************************************************************************)
EXTENDS Integers, FiniteSets

CONSTANTS
  Agents,          \* agent identities
  Envs, NoEnv,     \* environment versions, and "not specified"
  Execs,           \* execution ids
  Memories,        \* ids of operational memories
  Kinds,           \* kinds of admission signal
  Revisions,       \* the rest of what memoryStateDigest covers
  Policies,        \* policy bundle versions
  Fallback,        \* the bundle the runtime was constructed with
  Bundle,          \* [Policies -> PolicyBundle]
  None             \* an absent record, or an omitted field

-----------------------------------------------------------------------------
Evidence == 0..5
UNKNOWN == 0
PROPOSED == 1
INFERRED == 2
SIMULATED == 3
OBSERVED == 4
VERIFIED == 5

Percent == 0..100
Age == {"early", "expired", "aged"}

\* Only the bundle's fields that decide something in the runtime.
PolicyBundle ==
  [ admitOn             : SUBSET Kinds,
    minimumEvidence     : Evidence,
    allowedEvidence     : SUBSET Evidence,
    minimumConfidence   : Percent,
    matchEnvironment    : BOOLEAN,
    tolerated           : SUBSET {"expired", "aged"} ]

Status == {"RUNNING", "SUCCESS", "FAILURE"}
Terminal == Status \ {"RUNNING"}

\* memoryPolicyBundleVersion is undefined in the code exactly when policy = Fallback.
Execution ==
  [ agent : Agents, env : Envs \cup {NoEnv}, policy : Policies, status : Status ]

\* malformed: the declared lineage is ill-typed, empty or contradictory.
Memory ==
  [ agent      : Agents,
    env        : Envs \cup {NoEnv},
    evidence   : Evidence,
    confidence : Percent,
    sources    : SUBSET Execs,
    malformed  : BOOLEAN,
    rev        : Revisions ]

\* sources = {} is the signal that names no source execution.
Signal ==
  [ kind : Kinds, evidence : Evidence, confidence : Percent \cup {None},
    sources : SUBSET Execs ]

ASSUME PolicyAssumption ==
  /\ NoEnv \notin Envs
  /\ Fallback \in Policies
  /\ Bundle \in [Policies -> PolicyBundle]
  /\ None \notin Execution /\ None \notin Memory
  /\ None \notin Percent /\ None \notin Execs

-----------------------------------------------------------------------------
defaultConfidence(evidence) ==
  CASE evidence = VERIFIED  -> 98
    [] evidence = OBSERVED  -> 90
    [] evidence = SIMULATED -> 75
    [] evidence = INFERRED  -> 65
    [] evidence = PROPOSED  -> 45
    [] OTHER                -> 25

\* The two halves of evaluateRecallCandidate: time, and the environment.
WithinValidity(run, age) == age \subseteq Bundle[run.policy].tolerated
EnvironmentMatches(mem, run) ==
  Bundle[run.policy].matchEnvironment => mem.env \in {NoEnv, run.env}

\* May this memory be exposed to (and still used by) this execution?
evaluateRecallCandidate(mem, run, age) ==
  WithinValidity(run, age) /\ EnvironmentMatches(mem, run)

\* May a memory of this strength influence a decision under this policy?
StrongEnough(mem, run) ==
  /\ mem.evidence \in Bundle[run.policy].allowedEvidence
  /\ mem.confidence >= Bundle[run.policy].minimumConfidence

evaluateInfluenceMemory(mem, run, age) ==
  evaluateRecallCandidate(mem, run, age) /\ StrongEnough(mem, run)

evaluateAdmissionSignal(signal, run, admitting) ==
  /\ signal.kind \in Bundle[run.policy].admitOn
  /\ signal.evidence >= Bundle[run.policy].minimumEvidence
  /\ signal.evidence <= admitting

\* Every execution a memory says it was learned from exists and is the agent's own.
validateMemorySourceLineage(mem, execs) ==
  /\ ~mem.malformed
  /\ \A s \in mem.sources : execs[s] # None /\ execs[s].agent = mem.agent

=============================================================================
