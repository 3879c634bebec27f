--------------------------- MODULE MemoryLifecycle ---------------------------
(***************************************************************************)
(* Behavioral memories: what a formed and admitted memory is, how an       *)
(* evaluation's directive makes the next version of it, which version of   *)
(* several is current, and whether a version may be recalled in a context. *)
(* Pure rules, used by the surface and by what it is measured against.     *)
(***************************************************************************)
EXTENDS Integers

CONSTANTS
  Families,     \* formed experiences: an episode, its slice, experience, candidate
  Versions,     \* ids of execution memories
  Agents,
  Contexts,     \* contexts a consumer may be in
  Confidences,  \* in percent, what the formed experiences are given
  None

Evidence == {"VERIFIED", "OBSERVED", "SIMULATED", "INFERRED", "PROPOSED", "UNKNOWN"}
Directive == {"STRENGTHEN", "WEAKEN", "QUALIFY", "SUPERSEDE", "INVALIDATE", "NO_CHANGE"}
State == {"ADMITTED", "SUPPORTED", "QUALIFIED", "SUPERSEDED", "INVALIDATED"}

\* applicability: the contexts that agree with every key the memory names.
Memory ==
  [ agent : Agents, family : Families, applicability : SUBSET Contexts,
    confidence : 0..100, evidence : Evidence, state : State,
    supersedes : SUBSET Versions ]

ASSUME LifecycleRulesAssumption ==
  /\ Confidences \subseteq 0..100
  /\ None \notin Versions /\ None \notin Memory

AtLeast(x, y) == IF x < y THEN y ELSE x
AtMost(x, y) == IF x > y THEN y ELSE x

\* Mutant: the bound is on the wrong side.
nextConfidence_Unbounded(prior, directive) ==
  CASE directive = "STRENGTHEN" -> prior + 10
    [] directive = "WEAKEN"     -> prior - 15
    [] directive = "INVALIDATE" -> 0
    [] OTHER                    -> prior

nextConfidence(prior, directive) ==
  CASE directive = "STRENGTHEN" -> AtMost(prior + 10, 100)
    [] directive = "WEAKEN"     -> AtLeast(prior - 15, 0)
    [] directive = "INVALIDATE" -> 0
    [] OTHER                    -> prior

nextState(prior, directive) ==
  CASE directive = "STRENGTHEN"            -> "SUPPORTED"
    [] directive \in {"WEAKEN", "QUALIFY"} -> "QUALIFIED"
    [] directive = "INVALIDATE"            -> "INVALIDATED"
    [] directive = "SUPERSEDE"             -> "ADMITTED"
    [] OTHER                               -> prior

\* Mutant: only the version evaluated is superseded, not those before it.
applyMemoryUpdate_Forgetful(v, prior, directive) ==
  [prior EXCEPT !.confidence = nextConfidence(@, directive),
                !.state = nextState(@, directive),
                !.supersedes = {v}]

applyMemoryUpdate(v, prior, directive) ==
  [prior EXCEPT !.confidence = nextConfidence(@, directive),
                !.state = nextState(@, directive),
                !.supersedes = @ \cup {v}]

\* The versions of V that resolveCurrentMemory may pick: the latest of those no other
\* one supersedes.  The times are the evaluators', so any of them may be the latest.
resolveCurrentMemory(memory, V) ==
  LET current == {v \in V : \A u \in V : v \notin memory[u].supersedes}
  IN  IF current = {} THEN V ELSE current

isCurrentMemoryEligible(memory, v, V, context) ==
  /\ v \in resolveCurrentMemory(memory, V)
  /\ memory[v].state # "INVALIDATED"
  /\ context \in memory[v].applicability

admitCandidateMemory(evidence, confidence) ==
  evidence \in {"VERIFIED", "OBSERVED", "SIMULATED"} /\ confidence >= 65

=============================================================================
