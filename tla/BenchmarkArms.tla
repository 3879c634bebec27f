----------------------------- MODULE BenchmarkArms -----------------------------
(***************************************************************************)
(* The matched-arm benchmark: on every arm a model is put to the same task *)
(* and only the memory it is shown differs.  It proposes; the runner       *)
(* decides whether what it proposes may stand, executes that or a fixed    *)
(* fallback, and compares the arm with Engram's memory with the one        *)
(* without any.                                                            *)
(***************************************************************************)
EXTENDS Integers, Sequences, FiniteSets

CONSTANTS
  Candidates,  \* a sequence of providers with their terms
  Latency,     \* the longest a task may take
  Budget,      \* the most it may cost
  Verify,      \* whether verification is required
  Fixture      \* what the arms with a memory are shown

Arm == { "A0_NO_MEMORY", "A1_RAW_HISTORY", "A2_ENGRAM", "A3_IRRELEVANT_MEMORY",
         "A4_STALE_OR_CONTRADICTORY" }
WithMemory == {"A2_ENGRAM", "A3_IRRELEVANT_MEMORY", "A4_STALE_OR_CONTRADICTORY"}

\* Risk is known to the evaluator, not to the models.
Candidate == [provider : STRING, cost : Nat, latency : Nat, risk : BOOLEAN]

\* A memory slice with its grant; what it is constrained to, where it is, is the
\* move from one provider to another.
Memory == [ allowed : SUBSET STRING, denied : SUBSET STRING, from : STRING, to : STRING ]

\* Of a proposed action: the provider, and whether it sets other executable terms.
Action == [provider : STRING, terms : BOOLEAN]
Proposal == [action : Action, cites : BOOLEAN, effects : SUBSET STRING]
Authorization == { "AUTHORIZED", "REJECTED_NO_ELIGIBLE_GRANT", "REJECTED_EFFECT_NOT_ALLOWED",
                   "REJECTED_STALE_OR_EXPIRED", "REJECTED_INVALID_CITATION" }
Trial == [ arm : Arm, action : Action, authorization : Authorization,
           exercised : SUBSET STRING, influenced : BOOLEAN ]
Verdict == {"beneficial", "equal", "harmful"}

\* A provider is listed with its own terms, and no two ask the same: the fallback
\* breaks ties by name and the adapter by place, and neither is modelled.
ASSUME ArmsAssumption ==
  /\ Candidates \in Seq(Candidate) /\ Candidates # <<>>
  /\ \A m, n \in DOMAIN Candidates :
       \/ Candidates[m].provider = Candidates[n].provider \/ Candidates[m].cost = Candidates[n].cost
       => Candidates[m] = Candidates[n]
  /\ Latency \in Nat \ {0} /\ Budget \in Nat \ {0} /\ Verify \in BOOLEAN
  /\ Fixture \in [WithMemory -> Memory]

\* Whether the runner qualified the grant of an arm's memory.  When it expires is
\* not looked at.
eligible(arm) == arm = "A2_ENGRAM"

Cheapest ==
  CHOOSE c \in {Candidates[n] : n \in DOMAIN Candidates} :
    \A n \in DOMAIN Candidates : c.cost <= Candidates[n].cost

deterministicFallbackAction == [provider |-> Cheapest.provider, terms |-> FALSE]

-----------------------------------------------------------------------------
(* The adapter without a model                                             *)

Offered(provider) == \E n \in DOMAIN Candidates : Candidates[n].provider = provider

\* Mutant: it acts on any grant it is shown.
findAuthorizedSubstitution_AnyGrant(arm) ==
  arm \in WithMemory /\ Offered(Fixture[arm].from) /\ Offered(Fixture[arm].to)

findAuthorizedSubstitution(arm) ==
  /\ arm \in WithMemory /\ eligible(arm)
  /\ Offered(Fixture[arm].from) /\ Offered(Fixture[arm].to)

Supported == {"PROVIDER_SUBSTITUTION", "PREPAYMENT_REDUCTION", "MILESTONE_VERIFICATION"}

deterministicProposal(arm) ==
  IF findAuthorizedSubstitution(arm)
  THEN [ action |-> [provider |-> Fixture[arm].to, terms |-> TRUE], cites |-> TRUE,
         effects |-> Fixture[arm].allowed \cap Supported ]
  ELSE [ action |-> [provider |-> Cheapest.provider, terms |-> FALSE], cites |-> FALSE,
         effects |-> {} ]

-----------------------------------------------------------------------------
(* One arm                                                                 *)

\* A citation counts only of a slice that the arm has.
cited(arm, p) == p.cites /\ arm \in WithMemory

assertInfluenceAllowed(arm, effects) ==
  effects \cap Fixture[arm].denied = {} /\ effects \subseteq Fixture[arm].allowed

\* Mutant: a proposal that cites a slice has its effects.
authorized_Cited(arm, p) == p.effects = {} \/ cited(arm, p)

authorized(arm, p) ==
  \/ p.effects = {}
  \/ cited(arm, p) /\ eligible(arm) /\ assertInfluenceAllowed(arm, p.effects)

authorizationFailureDecision(arm, p) ==
  IF ~cited(arm, p) THEN "REJECTED_INVALID_CITATION"
  ELSE IF arm = "A4_STALE_OR_CONTRADICTORY" THEN "REJECTED_STALE_OR_EXPIRED"
  ELSE IF ~eligible(arm) THEN "REJECTED_NO_ELIGIBLE_GRANT"
  ELSE "REJECTED_EFFECT_NOT_ALLOWED"

\* What becomes of a proposal.  It is not tried again: where it may not stand, the
\* fallback is executed.
runArm(arm, p) ==
  IF authorized(arm, p)
  THEN [ arm |-> arm, action |-> p.action, authorization |-> "AUTHORIZED",
         exercised |-> p.effects, influenced |-> cited(arm, p) ]
  ELSE [ arm |-> arm, action |-> deterministicFallbackAction,
         authorization |-> authorizationFailureDecision(arm, p),
         exercised |-> {}, influenced |-> FALSE ]

-----------------------------------------------------------------------------
(* Outcomes.  Utilities are in parts of 2 * Budget * Latency to the unit.  *)

Whole == 2 * Budget * Latency

Over(c) == IF c.latency > Latency THEN c.latency - Latency ELSE 0

\* Success, less the penalties for cost, latency and a failed verification.
utility(c) ==
  (IF ~c.risk /\ c.latency <= Latency THEN Whole ELSE 0)
    - 2 * Latency * c.cost - 2 * Budget * Over(c)
    - (IF Verify /\ c.risk THEN Budget * Latency ELSE 0)

\* An action for which there is no candidate is a violation of policy.
evaluateOutcome(action) ==
  IF Offered(action.provider)
  THEN utility(CHOOSE c \in {Candidates[n] : n \in DOMAIN Candidates} :
                 c.provider = action.provider)
  ELSE 0 - Whole

compareControlAndEngram(control, treatment) ==
  LET delta == evaluateOutcome(treatment.action) - evaluateOutcome(control.action)
  IN  IF treatment.action = control.action \/ delta = 0 THEN "equal"
      ELSE IF delta > 0 THEN "beneficial" ELSE "harmful"

=============================================================================
