--------------------------- MODULE InfluenceLedger ---------------------------
(***************************************************************************)
(* What recall and recordDecision promise together, with no store, no      *)
(* bridge and no interleaving: memory that was merely retrieved is not     *)
(* memory that influenced.  A decision may cite only a memory state that   *)
(* was exposed, to that very execution, and that the policy the execution  *)
(* was published with allows to influence it.  Exposures are append-only   *)
(* and an execution's terms never change.                                  *)
(***************************************************************************)
EXTENDS MemoryPolicy

CONSTANTS Recalls, Decisions

VARIABLES
  terms,    \* per execution: agent, environment and policy, once published
  exposed,  \* every memory state exposed so far, and by which retrieval
  ledger    \* the decisions on record

lvars == <<terms, exposed, ledger>>

Entry == [execution : Execs, retrieval : Recalls, memory : Memories, state : Memory]

LedgerInit ==
  /\ terms = [e \in Execs |-> None]
  /\ exposed = {}
  /\ ledger = [d \in Decisions |-> None]

Publish(e) ==
  /\ terms[e] = None
  /\ \E agent \in Agents, env \in Envs \cup {NoEnv}, policy \in Policies :
       terms' = [terms EXCEPT ![e] = [agent |-> agent, env |-> env, policy |-> policy]]
  /\ UNCHANGED <<exposed, ledger>>

\* Everything one retrieval exposes appears at once, and never again.
Expose(e, r) ==
  /\ terms[e] # None
  /\ \A x \in exposed : x.retrieval # r
  /\ exposed \subseteq exposed'
  /\ \A x \in exposed' \ exposed :
       /\ x \in Entry /\ x.execution = e /\ x.retrieval = r
       /\ x.state.agent = terms[e].agent
  /\ \A x, y \in exposed' \ exposed : x.memory = y.memory => x = y
  /\ UNCHANGED <<terms, ledger>>

Citable(x, i, e) ==
  /\ x.execution = e /\ x.memory = i.memory
  /\ i.retrieval \in {None, x.retrieval}
  /\ StrongEnough(x.state, terms[e])
  /\ EnvironmentMatches(x.state, terms[e])

\* Recording under an id that is on record already replaces the decision.
Record(d, e) ==
  /\ terms[e] # None
  /\ ledger' = [ledger EXCEPT ![d] = ledger'[d]]
  /\ ledger'[d] # None /\ ledger'[d].execution = e
  /\ \A i \in ledger'[d].influences : \E x \in exposed : Citable(x, i, e)
  /\ UNCHANGED <<terms, exposed>>

LedgerNext ==
  \E e \in Execs : \/ Publish(e)
                   \/ \E r \in Recalls : Expose(e, r)
                   \/ \E d \in Decisions : Record(d, e)

LedgerSpec == LedgerInit /\ [][LedgerNext]_lvars

=============================================================================
