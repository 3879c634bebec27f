-------------------------- MODULE ProviderContinuity --------------------------
(***************************************************************************)
(* How an agent chooses a provider and the terms it engages it on, with    *)
(* and without a memory of how the provider has served it.                 *)
(***************************************************************************)
EXTENDS Integers, Sequences

CONSTANT None

ProviderId == {"atlas", "beacon"}
Context == [urgency : {"URGENT", "ROUTINE"}, task : {"data_fetch", "other"},
            budget : Nat, maxLatency : Nat]
Offer == [provider : ProviderId, price : Nat, latency : Nat]
Terms == [prepayBps : 0..10000, milestone : BOOLEAN, maxSpend : Nat]

\* What is looked at of a recalled memory; similar stands for the workflow
\* type, the primitive and the posture, which are all as they should be.
Relationship ==
  [ id : Nat, similar : BOOLEAN, task : {"data_fetch", "other"}, provider : ProviderId,
    failure : {"SLA_BREACH", "JOB_REJECTED", "JOB_EXPIRED", "UNKNOWN_FAILURE"},
    confidence : 0..100, breaches : Nat, sources : Nat ]

ASSUME NoneIsNoRelationship == None \notin Relationship

\* Mutant: experience makes the agent pay more ahead.
terms_Reversed(maxSpend, guarded) ==
  [ prepayBps |-> IF guarded THEN 5000 ELSE 1000, milestone |-> guarded,
    maxSpend |-> maxSpend ]

\* Mutant: the share is a digit too long.
terms_DigitMore(maxSpend, guarded) ==
  [ prepayBps |-> IF guarded THEN 10000 ELSE 50000, milestone |-> guarded,
    maxSpend |-> maxSpend ]

terms(maxSpend, guarded) ==
  [ prepayBps |-> IF guarded THEN 1000 ELSE 5000, milestone |-> guarded,
    maxSpend |-> maxSpend ]

\* The places of the offers that may be taken.
eligibleOffers(context, offers) ==
  { n \in DOMAIN offers : /\ offers[n].price <= context.budget
                          /\ offers[n].latency <= context.maxLatency }

\* The order they are sorted in; the sort is stable.
Before(offers, m, n) ==
  \/ offers[m].price < offers[n].price
  \/ /\ offers[m].price = offers[n].price
     /\ \/ offers[m].latency < offers[n].latency
        \/ offers[m].latency = offers[n].latency /\ m < n

FirstOf(offers, places) ==
  CHOOSE n \in places : \A m \in places \ {n} : Before(offers, n, m)

applicableRelationshipMemory(context, m, score) ==
  /\ score >= 65 /\ m.confidence >= 80
  /\ m.similar /\ m.task = context.task
  /\ m.provider = "atlas"
  /\ m.failure = "SLA_BREACH"
  /\ m.breaches >= 2 /\ m.sources >= 2

Engage(offer, guarded, refs, counterfactual) ==
  [ provider |-> offer.provider, terms |-> terms(offer.price, guarded),
    memoryRefs |-> refs, counterfactual |-> counterfactual ]

\* The decision, given the applicable memory that was found first, or None.
\* There is one only if an offer is eligible.
decideProviderEngagement(context, offers, memory) ==
  LET eligible == eligibleOffers(context, offers)
      baseline == offers[FirstOf(offers, eligible)]
      others == {n \in eligible : offers[n].provider # memory.provider}
      without == [provider |-> baseline.provider, terms |-> terms(baseline.price, FALSE)]
  IN  IF memory = None \/ memory.provider # baseline.provider
      THEN Engage(baseline, FALSE, {}, None)
      ELSE IF context.urgency = "URGENT" /\ others # {}
           THEN Engage(offers[FirstOf(offers, others)], FALSE, {memory.id}, without)
           ELSE Engage(baseline, TRUE, {memory.id}, without)

\* How an engagement comes out in the demonstration: atlas is late when it matters.
executeProviderEngagement(decision, context) ==
  IF decision.provider = "atlas" /\ context.urgency = "URGENT" THEN "FAILURE" ELSE "SUCCESS"

=============================================================================
