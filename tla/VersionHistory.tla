---------------------------- MODULE VersionHistory ----------------------------
(***************************************************************************)
(* What the behavioral memory promises: memories are admitted, versions    *)
(* derived from versions, and influence granted from a version that is not *)
(* invalidated, to one agent in one execution.  Nothing is ever taken back *)
(* or changed.  No store, no evaluation records, no interleaving.          *)
(***************************************************************************)
EXTENDS MemoryLifecycle

CONSTANTS Grants, Executions

VARIABLES
  memory,   \* [Versions -> Memory or None]
  granted   \* [Grants -> what was granted, or None]

hvars == <<memory, granted>>

HistoryInit ==
  /\ memory = [v \in Versions |-> None]
  /\ granted = [g \in Grants |-> None]

Admit(v) ==
  /\ memory[v] = None
  /\ memory' = [memory EXCEPT ![v] = memory'[v]]
  /\ memory'[v] \in Memory
  /\ memory'[v].state = "ADMITTED" /\ memory'[v].supersedes = {}
  /\ admitCandidateMemory(memory'[v].evidence, memory'[v].confidence)
  /\ UNCHANGED granted

Derive(v, prior, directive) ==
  /\ memory[v] = None /\ memory[prior] # None
  /\ memory' = [memory EXCEPT ![v] = applyMemoryUpdate(prior, memory[prior], directive)]
  /\ UNCHANGED granted

Grant(g, v) ==
  /\ granted[g] = None
  /\ memory[v] # None /\ memory[v].state # "INVALIDATED"
  /\ \E agent \in Agents, e \in Executions :
       granted' = [granted EXCEPT ![g] = [version |-> v, agent |-> agent, execution |-> e]]
  /\ UNCHANGED memory

HistoryNext ==
  \/ \E v \in Versions : Admit(v)
  \/ \E v, prior \in Versions, directive \in Directive : Derive(v, prior, directive)
  \/ \E g \in Grants, v \in Versions : Grant(g, v)

HistorySpec == HistoryInit /\ [][HistoryNext]_hvars

=============================================================================
