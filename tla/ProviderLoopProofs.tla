-------------------------- MODULE ProviderLoopProofs --------------------------
(***************************************************************************)
(* Proofs about ProviderLoop, for any catalogue, plans, jobs, situations,  *)
(* memories and receipts.                                                  *)
(***************************************************************************)
EXTENDS ProviderLoop, WellFoundedInduction, TLAPS

(***************************************************************************)
(* The inductive invariant                                                 *)
(***************************************************************************)
\* A plan within the ceiling, for a candidate as it was frozen.
Agreed(plan) ==
  /\ plan.candidate.price <= plan.spend /\ plan.spend <= Ceiling
  /\ \E n \in DOMAIN Catalog : /\ Catalog[n].key = plan.candidate.key
                               /\ Catalog[n].offering = plan.candidate.offering
                               /\ Catalog[n].price = plan.candidate.price

\* A record is of a plan that is agreed and, beyond the first, approved.
RecordTrue(r) ==
  /\ Agreed(r.plan)
  /\ r.state # "A0_PREPARED" => r.plan \in approved

JobTrue(j) ==
  job[j] # NoJob /\ job[j].by = "caller" => job[j].plan \in approved /\ Agreed(job[j].plan)

\* What a run has of a job, by where it is.
RunSound(r) ==
  /\ run[r].at \in {"idle", "started", "verified"} =>
       /\ run[r].job = NoJob /\ ~run[r].funded
       /\ \A j \in Jobs : job[j] # NoJob => job[j].by # r
  /\ run[r].at \in {"created", "funded"} => run[r].job # NoJob
  /\ run[r].at \notin {"final", "failed"} => run[r].seen = "nothing"
  /\ run[r].job # NoJob => job[run[r].job] # NoJob /\ job[run[r].job].by = r
  /\ run[r].funded => run[r].job # NoJob /\ job[run[r].job].paid
  /\ run[r].seen \in Ended => run[r].job # NoJob /\ job[run[r].job].status = run[r].seen
  /\ \A i, j \in Jobs : (job[i] # NoJob /\ job[j] # NoJob /\ job[i].by = r /\ job[j].by = r) => i = j

AcpSound ==
  /\ \A r \in records : RecordTrue(r)
  /\ \A j \in Jobs : JobTrue(j)
  /\ \A r \in Runs : RunSound(r)

\* What was observed of a job is what a status it had is evidence of.
ObservationSound ==
  \A j \in Jobs : observed[j] # None =>
    LET saw == observed[j]
    IN  /\ job[j] # NoJob
        /\ saw.status \in Ended => job[j].status = saw.status
        /\ saw.status = "rejected" <=> saw.failure = "JOB_REJECTED"
        /\ saw.status = "expired" <=> saw.failure = "JOB_EXPIRED"
        /\ saw.status = "other" <=> saw.failure = "UNKNOWN_FAILURE"

\* A choice is among offers one of which may be taken, with a memory that applies.
ChoiceSound(choice) ==
  /\ eligibleOffers(choice.context, choice.offers) # {}
  /\ choice.memory # None => choice.memory.provider = "atlas"

\* What the process of an execution has recorded.
OnRecord(x) ==
  LET made == treatment(chosen[x])
  IN  [ execution |-> x, provider |-> made.provider, terms |-> made.terms,
        memoryRefs |-> made.memoryRefs ] \in decisions

\* Where a process is, it has chosen, recorded, and may derive an intent.
ProcessSound(x) ==
  /\ process[x] # "idle" => chosen[x] # None /\ ChoiceSound(chosen[x])
  /\ process[x] \in {"decided", "writing", "done"} /\ treatment(chosen[x]).memoryRefs # {} =>
       OnRecord(x)
  /\ process[x] \in {"writing", "done"} => MayDerive(treatment(chosen[x]), Book)
  /\ process[x] = "idle" => chosen[x] = None

\* A whole file is what was derived from the choice of the execution it names.
FileSound ==
  file \notin {None, Torn} =>
    LET x == file.execution
    IN  /\ x \in Executions /\ process[x] = "done"
        /\ file = deriveBaseSettlementIntent(treatment(chosen[x]), Book, x)

LoopSound ==
  /\ FileSound /\ SettlementsAreAuthorized
  /\ \A e \in settled : e.execution \in Executions /\ process[e.execution] = "done"
  /\ \A x \in Executions : ProcessSound(x)

IInv == TypeOK /\ AcpSound /\ ObservationSound /\ LoopSound

-----------------------------------------------------------------------------
(* Choosing a provider                                                     *)

\* A set of numbers has a least one.
LEMMA Least ==
  ASSUME NEW S, S \subseteq Nat, S # {}
  PROVE  \E n \in S : \A m \in S : n <= m
<1>1. PICK n \in S : \A m \in S : ~ (<<m, n>> \in OpToRel(<, Nat))
  BY NatLessThanWellFounded, WFMin
<1>2. \A m \in S : ~ (m < n)
  BY <1>1 DEF OpToRel
<1> QED BY <1>2

\* Of some places one comes first: the cheapest, of those the quickest, and of those
\* the one listed first.
LEMMA FirstExists ==
  ASSUME NEW offers \in Seq(Offer), NEW places \in SUBSET DOMAIN offers, places # {}
  PROVE  FirstOf(offers, places) \in places
<1>1. \A n \in places : n \in Nat /\ offers[n].price \in Nat /\ offers[n].latency \in Nat
  <2>1. /\ DOMAIN offers = 1..Len(offers) /\ Len(offers) \in Nat
        /\ \A n \in 1..Len(offers) : offers[n] \in Offer
    OBVIOUS
  <2> QED BY <2>1 DEF Offer
<1> DEFINE prices == {offers[n].price : n \in places}
<1>2. PICK p \in prices : \A q \in prices : p <= q
  <2>1. prices \subseteq Nat /\ prices # {}
    BY <1>1
  <2> QED BY <2>1, Least
<1> DEFINE cheapest == {n \in places : offers[n].price = p}
           latencies == {offers[n].latency : n \in cheapest}
<1>3. PICK l \in latencies : \A k \in latencies : l <= k
  <2>1. latencies \subseteq Nat /\ latencies # {}
    BY <1>1, <1>2
  <2> QED BY <2>1, Least
<1> DEFINE quickest == {n \in cheapest : offers[n].latency = l}
<1>4. PICK n \in quickest : \A m \in quickest : n <= m
  <2>1. quickest \subseteq Nat /\ quickest # {}
    BY <1>1, <1>3
  <2> QED BY <2>1, Least
<1>5. \A m \in places \ {n} : Before(offers, n, m)
  <2> SUFFICES ASSUME NEW m \in places, m # n
               PROVE  Before(offers, n, m)
    OBVIOUS
  <2>1. n \in Nat /\ m \in Nat /\ offers[n].price = p /\ offers[n].latency = l
    BY <1>1, <1>4
  <2>2. p <= offers[m].price /\ p \in Nat /\ offers[m].price \in Nat
    BY <1>1, <1>2
  <2>3. offers[m].price = p => /\ l <= offers[m].latency
                               /\ l \in Nat /\ offers[m].latency \in Nat
    BY <1>1, <1>3
  <2>4. (offers[m].price = p /\ offers[m].latency = l) => n <= m
    BY <1>4
  <2> QED BY <2>1, <2>2, <2>3, <2>4 DEF Before
<1> QED BY <1>4, <1>5 DEF FirstOf

\* What a decision is, by the place of the offer that it takes.
LEMMA WhatIsDecided ==
  ASSUME NEW context \in Context, NEW offers \in Seq(Offer),
         NEW memory \in Relationship \cup {None},
         eligibleOffers(context, offers) # {}
  PROVE  LET eligible == eligibleOffers(context, offers)
             n == FirstOf(offers, eligible)
             baseline == offers[n]
             made == decideProviderEngagement(context, offers, memory)
             without == [provider |-> baseline.provider, terms |-> terms(baseline.price, FALSE)]
         IN  /\ baseline \in Offer /\ baseline.price <= context.budget
             /\ \/ made = Engage(baseline, FALSE, {}, None)
                \/ /\ memory # None /\ memory.provider = baseline.provider
                   /\ \/ made = Engage(baseline, TRUE, {memory.id}, without)
                      \/ /\ context.urgency = "URGENT"
                         /\ \E m \in eligible :
                              /\ offers[m] \in Offer /\ offers[m].price <= context.budget
                              /\ offers[m].provider # memory.provider
                              /\ made = Engage(offers[m], FALSE, {memory.id}, without)
<1> DEFINE eligible == eligibleOffers(context, offers)
           others == {n \in eligible : offers[n].provider # memory.provider}
<1>1. eligible \subseteq DOMAIN offers /\ others \subseteq DOMAIN offers /\ others \subseteq eligible
  BY DEF eligibleOffers
<1>2. \A n \in eligible : offers[n] \in Offer /\ offers[n].price <= context.budget
  <2>1. \A n \in DOMAIN offers : offers[n] \in Offer
    OBVIOUS
  <2> QED BY <2>1 DEF eligibleOffers
<1>3. FirstOf(offers, eligible) \in eligible
  BY <1>1, FirstExists
<1>4. others # {} => FirstOf(offers, others) \in others
  BY <1>1, FirstExists
<1> QED BY <1>2, <1>3, <1>4 DEF decideProviderEngagement

-----------------------------------------------------------------------------
(* Terms and amounts                                                       *)

Engagement ==
  [ provider : ProviderId, terms : Terms, memoryRefs : SUBSET Nat,
    counterfactual : [provider : ProviderId, terms : Terms] \cup {None} ]

\* What may be paid ahead, guarded or not, in hundredths of a percent.
Share == {1000, 5000}

\* The terms for so much, guarded or not.
TermsFor(t, n) == t \in Terms /\ t.maxSpend = n /\ t.prepayBps \in Share

LEMMA TermsType ==
  ASSUME NEW n \in Nat
  PROVE  TermsFor(terms(n, TRUE), n) /\ TermsFor(terms(n, FALSE), n)
  BY DEF terms, Terms, TermsFor, Share

\* What an offer is engaged on, guarded or not.
Offered(engagement, offer) ==
  /\ engagement \in Engagement /\ engagement.terms.maxSpend = offer.price
  /\ engagement.terms.prepayBps \in Share

LEMMA EngageType ==
  ASSUME NEW o \in Offer, NEW refs \in SUBSET Nat,
         NEW other \in [provider : ProviderId, terms : Terms] \cup {None}
  PROVE  Offered(Engage(o, TRUE, refs, other), o) /\ Offered(Engage(o, FALSE, refs, other), o)
<1>1. o.provider \in ProviderId /\ o.price \in Nat
  BY DEF Offer
<1>2. TermsFor(terms(o.price, TRUE), o.price) /\ TermsFor(terms(o.price, FALSE), o.price)
  BY <1>1, TermsType
<1>3. \A t \in Terms : [provider |-> o.provider, terms |-> t, memoryRefs |-> refs,
                       counterfactual |-> other] \in Engagement
  BY <1>1 DEF Engagement
<1>4. /\ Engage(o, TRUE, refs, other) \in Engagement
      /\ Engage(o, FALSE, refs, other) \in Engagement
  <2>1. terms(o.price, TRUE) \in Terms /\ terms(o.price, FALSE) \in Terms
    BY <1>2 DEF TermsFor
  <2> QED BY <1>3, <2>1 DEF Engage
<1>5. /\ Engage(o, TRUE, refs, other).terms = terms(o.price, TRUE)
      /\ Engage(o, FALSE, refs, other).terms = terms(o.price, FALSE)
  BY DEF Engage
<1>6. \A t : TermsFor(t, o.price) => t.maxSpend = o.price /\ t.prepayBps \in Share
  BY DEF TermsFor
<1> QED BY <1>2, <1>4, <1>5, <1>6 DEF Offered

LEMMA EngagementType ==
  ASSUME NEW context \in Context, NEW offers \in Seq(Offer),
         NEW memory \in Relationship \cup {None},
         eligibleOffers(context, offers) # {}
  PROVE  LET made == decideProviderEngagement(context, offers, memory)
         IN  /\ made \in Engagement /\ made.terms.maxSpend <= context.budget
             /\ made.terms.prepayBps \in Share
<1> DEFINE made == decideProviderEngagement(context, offers, memory)
           n == FirstOf(offers, eligibleOffers(context, offers))
           without == [provider |-> offers[n].provider, terms |-> terms(offers[n].price, FALSE)]
           Good == /\ made \in Engagement /\ made.terms.maxSpend <= context.budget
                   /\ made.terms.prepayBps \in Share
<1>1. /\ offers[n] \in Offer /\ offers[n].price <= context.budget
      /\ \/ made = Engage(offers[n], FALSE, {}, None)
         \/ /\ memory # None /\ memory.provider = offers[n].provider
            /\ \/ made = Engage(offers[n], TRUE, {memory.id}, without)
               \/ /\ context.urgency = "URGENT"
                  /\ \E m \in eligibleOffers(context, offers) :
                       /\ offers[m] \in Offer /\ offers[m].price <= context.budget
                       /\ offers[m].provider # memory.provider
                       /\ made = Engage(offers[m], FALSE, {memory.id}, without)
  BY WhatIsDecided
<1>2. without \in [provider : ProviderId, terms : Terms]
  <2>1. offers[n].provider \in ProviderId /\ offers[n].price \in Nat
    BY <1>1 DEF Offer
  <2>2. terms(offers[n].price, FALSE) \in Terms
    BY <2>1, TermsType DEF TermsFor
  <2> QED BY <2>1, <2>2
<1>3. memory # None => {memory.id} \in SUBSET Nat
  BY DEF Relationship
<1> SUFFICES Good
  OBVIOUS
<1> HIDE DEF made, n, without
<1>4. CASE made = Engage(offers[n], FALSE, {}, None)
  <2>1. {} \in SUBSET Nat /\ None \in [provider : ProviderId, terms : Terms] \cup {None}
    OBVIOUS
  <2> QED BY <1>1, <1>4, <2>1, EngageType DEF Offered
<1>5. CASE memory # None /\ made = Engage(offers[n], TRUE, {memory.id}, without)
  <2>1. Offered(Engage(offers[n], TRUE, {memory.id}, without), offers[n])
    BY <1>1, <1>2, <1>3, <1>5, EngageType
  <2> QED BY <1>1, <1>5, <2>1 DEF Offered
<1>6. ASSUME NEW m, memory # None, offers[m] \in Offer, offers[m].price <= context.budget,
             made = Engage(offers[m], FALSE, {memory.id}, without)
      PROVE  Good
  BY <1>2, <1>3, <1>6, EngageType DEF Offered
<1> QED BY <1>1, <1>4, <1>5, <1>6

LEMMA ScaledType ==
  ASSUME NEW usd \in Nat
  PROVE  Scaled(usd) \in Nat
<1>1. Fine \in Nat \ {0}
  BY SettlementAssumption
<1>2. usd + Fine \div 2 \in Nat
  BY <1>1
<1>3. \A a \in Nat, b \in Nat \ {0} : a \div b \in Nat
  BY SMT
<1> QED BY <1>1, <1>2, <1>3 DEF Scaled

\* What may be paid ahead is a whole amount, and no more than may be spent; under a
\* guard it is no more than without one.
LEMMA PrepayBounds ==
  ASSUME NEW usd \in Nat, NEW bps \in Share
  PROVE  /\ Scaled(usd) \in Nat /\ Prepay(usd, bps) \in Nat /\ Prepay(usd, bps) <= Scaled(usd)
         /\ Prepay(usd, 1000) <= Prepay(usd, 5000)
<1>1. Scaled(usd) \in Nat
  BY ScaledType
<1>2. \A a \in Nat : /\ (a * 1000) \div 10000 \in Nat /\ (a * 5000) \div 10000 \in Nat
                     /\ (a * 1000) \div 10000 <= (a * 5000) \div 10000
                     /\ (a * 5000) \div 10000 <= a
  BY SMT
<1> QED BY <1>1, <1>2, SMT DEF Prepay, usdToUsdcAtomic, Share

\* Scaling back, an amount is at most what it was scaled from, and the tolerance.
LEMMA PrepayWithinBudget ==
  ASSUME NEW usd \in Nat, NEW budget \in Nat, NEW bps \in Share,
         Representable(usd), usd <= budget
  PROVE  Prepay(usd, bps) * Fine <= budget + Tolerance
<1>1. /\ Scaled(usd) \in Nat /\ Prepay(usd, bps) \in Nat /\ Prepay(usd, bps) <= Scaled(usd)
      /\ Fine \in Nat /\ Tolerance \in Nat
  BY PrepayBounds, SettlementAssumption
<1>2. \A a, b, f \in Nat : a <= b => a * f <= b * f
  OBVIOUS
<1>3. Prepay(usd, bps) * Fine <= Scaled(usd) * Fine
  BY <1>1, <1>2
<1>4. Scaled(usd) * Fine - usd <= Tolerance
  BY DEF Representable
<1>5. Prepay(usd, bps) * Fine \in Nat /\ Scaled(usd) * Fine \in Nat
  BY <1>1
<1> QED BY <1>1, <1>3, <1>4, <1>5

\* A record of five fields is in the set of the records whose fields are.
LEMMA TermsRecord ==
  ASSUME NEW M, NEW B, NEW P, NEW D, NEW G,
         NEW m \in M, NEW b \in B, NEW p \in P, NEW d \in D, NEW g \in G
  PROVE  [maxSpend |-> m, prepayBps |-> b, prepay |-> p, prepayUsd |-> d, milestone |-> g]
           \in [maxSpend : M, prepayBps : B, prepay : P, prepayUsd : D, milestone : G]
  OBVIOUS

LEMMA SettlementTermsType ==
  ASSUME NEW t \in Terms
  PROVE  settlementTerms(t) \in SettlementTerms
<1>1. t.maxSpend \in Nat /\ t.milestone \in BOOLEAN /\ t.prepayBps \in 0..10000
  BY SMT DEF Terms
<1>2. Prepay(t.maxSpend, t.prepayBps) \in Nat
  <2>1. Scaled(t.maxSpend) \in Nat
    <3>1. t.maxSpend \in Nat
      BY DEF Terms
    <3> QED BY <3>1, ScaledType
  <2>2. t.prepayBps \in Nat
    <3> DEFINE Bps == 0..10000
    <3>1. t.prepayBps \in Bps
      BY SMT DEF Terms
    <3>2. \A n \in Bps : n \in Nat
      BY SMT
    <3> HIDE DEF Bps
    <3> QED BY <3>1, <3>2
  <2>3. \A m, n \in Nat : m * n \in Nat
    OBVIOUS
  <2>4. \A m \in Nat : m \div 10000 \in Nat
    BY SMT
  <2> QED BY <2>1, <2>2, <2>3, <2>4, SMT DEF Prepay, usdToUsdcAtomic
<1>3. \A n \in Nat : usdcAtomicToDecimal(n) \in Nat \X Micro
  BY SMT DEF usdcAtomicToDecimal, Micro
<1>4. usdcAtomicToDecimal(Prepay(t.maxSpend, t.prepayBps)) \in Nat \X Micro
  BY <1>2, <1>3
<1>5. settlementTerms(t) =
        [ maxSpend |-> t.maxSpend, prepayBps |-> t.prepayBps,
          prepay |-> Prepay(t.maxSpend, t.prepayBps),
          prepayUsd |-> usdcAtomicToDecimal(Prepay(t.maxSpend, t.prepayBps)),
          milestone |-> t.milestone ]
  BY Zenon DEF settlementTerms
<1>6. SettlementTerms = [ maxSpend : Nat, prepayBps : 0..10000, prepay : Nat,
                          prepayUsd : Nat \X Micro, milestone : BOOLEAN ]
  BY Zenon DEF SettlementTerms
<1>7. [ maxSpend |-> t.maxSpend, prepayBps |-> t.prepayBps,
        prepay |-> Prepay(t.maxSpend, t.prepayBps),
        prepayUsd |-> usdcAtomicToDecimal(Prepay(t.maxSpend, t.prepayBps)),
        milestone |-> t.milestone ]
          \in [ maxSpend : Nat, prepayBps : 0..10000, prepay : Nat, prepayUsd : Nat \X Micro,
                milestone : BOOLEAN ]
  BY <1>1, <1>2, <1>4, TermsRecord
<1> QED BY <1>5, <1>6, <1>7

\* What is derived is what parsing accepts: derived terms are consistent.
LEMMA DerivedTermsConsistent ==
  ASSUME NEW t, Representable(t.maxSpend)
  PROVE  assertSerializedTermsConsistent(settlementTerms(t))
  BY SMT DEF assertSerializedTermsConsistent, settlementTerms

-----------------------------------------------------------------------------
(* Jobs, records and runs                                                  *)

\* What is checked of jobs and runs follows.
LEMMA AcpSoundGives ==
  ASSUME AcpSound
  PROVE  JobsAreApproved /\ RunReportsAreTrue
<1>1. JobsAreApproved
  BY DEF AcpSound, JobTrue, Agreed, JobsAreApproved
<1>2. RunReportsAreTrue
  BY DEF AcpSound, RunSound, RunReportsAreTrue
<1> QED BY <1>1, <1>2

\* Jobs stay what they were opened for, stay paid, and end once.
JobsStay ==
  \A j \in Jobs : job[j] # NoJob =>
    /\ job'[j] # NoJob /\ job'[j].plan = job[j].plan /\ job'[j].by = job[j].by
    /\ job[j].paid => job'[j].paid
    /\ job[j].status \in Ended => job'[j].status = job[j].status

LEMMA RecordStays ==
  ASSUME NEW r \in Record, RecordTrue(r), approved \subseteq approved'
  PROVE  RecordTrue(r)'
  BY DEF RecordTrue, Agreed

LEMMA JobStays ==
  ASSUME NEW j \in Jobs, JobTrue(j), job[j] # NoJob, JobsStay, approved \subseteq approved'
  PROVE  JobTrue(j)'
  BY DEF JobTrue, JobsStay, Agreed

\* A run that does nothing, while no job is opened for it.
LEMMA RunStays ==
  ASSUME AcpTypeOK, NEW r \in Runs, RunSound(r), run'[r] = run[r], JobsStay,
         \A j \in Jobs : job[j] = NoJob /\ job'[j] # NoJob => job'[j].by # r
  PROVE  RunSound(r)'
<1>1. run[r].job \in Jobs \cup {NoJob}
  BY DEF AcpTypeOK, Run
<1>2. \A j \in Jobs : job'[j] # NoJob /\ job'[j].by = r => job[j] # NoJob /\ job[j].by = r
  BY DEF JobsStay
<1> QED BY <1>1, <1>2 DEF RunSound, JobsStay

\* A record that is true is given.
LEMMA Given ==
  ASSUME AcpTypeOK, AcpSound, NEW r \in Record, RecordTrue(r)', Give(r),
         approved \subseteq approved', approved' \subseteq Plan, UNCHANGED <<run, job>>
  PROVE  AcpTypeOK' /\ AcpSound' /\ JobsStay
<1>1. JobsStay
  BY DEF JobsStay
<1>2. AcpTypeOK'
  BY DEF AcpTypeOK, Give
<1>3. \A q \in records' : RecordTrue(q)'
  <2> SUFFICES ASSUME NEW q \in records
               PROVE  RecordTrue(q)'
    BY DEF Give
  <2>1. q \in Record /\ RecordTrue(q)
    BY DEF AcpTypeOK, AcpSound
  <2> QED BY <2>1, RecordStays
<1>4. \A j \in Jobs : JobTrue(j)'
  BY DEF AcpSound, JobTrue, Agreed
<1>5. \A q \in Runs : RunSound(q)'
  BY <1>1, RunStays DEF AcpSound
<1> QED BY <1>1, <1>2, <1>3, <1>4, <1>5 DEF AcpSound

\* Jobs go on, and runs with them.
LEMMA JobsGoOn ==
  ASSUME AcpTypeOK, AcpSound, JobsStay, UNCHANGED <<records, approved>>,
         job' \in [Jobs -> Job \cup {NoJob}], run' \in [Runs -> Run],
         \A j \in Jobs : job[j] = NoJob => JobTrue(j)',
         \A r \in Runs : RunSound(r)'
  PROVE  AcpTypeOK' /\ AcpSound' /\ JobsStay
<1>1. AcpTypeOK'
  BY DEF AcpTypeOK
<1>2. \A q \in records' : RecordTrue(q)'
  <2> SUFFICES ASSUME NEW q \in records
               PROVE  RecordTrue(q)'
    OBVIOUS
  <2>1. q \in Record /\ RecordTrue(q)
    BY DEF AcpTypeOK, AcpSound
  <2> QED BY <2>1, RecordStays
<1>3. \A j \in Jobs : JobTrue(j)'
  <2> SUFFICES ASSUME NEW j \in Jobs, job[j] # NoJob
               PROVE  JobTrue(j)'
    OBVIOUS
  <2>1. JobTrue(j)
    BY DEF AcpSound
  <2> QED BY <2>1, JobStays
<1> QED BY <1>1, <1>2, <1>3 DEF AcpSound

\* A plan whose candidate comes from a contract that was verified is agreed.
LEMMA VerifiedIsAgreed ==
  ASSUME NEW contract \in Contracts, NEW plan \in Plan,
         verifyFrozenAcpContract(contract, plan), contract # <<>>,
         plan.candidate = contract[1], prepareAcpExecution(plan)
  PROVE  Agreed(plan)
<1>1. contract \in Seq(Candidate)
  BY AcpAssumption
<1>2. 1 \in DOMAIN contract
  BY <1>1
<1>3. contract[1].price <= plan.spend
  BY <1>2 DEF verifyFrozenAcpContract
<1>4. PICK m \in Frozen(contract[1].key) : /\ Catalog[m].offering = contract[1].offering
                                            /\ Catalog[m].price = contract[1].price
  BY <1>2 DEF verifyFrozenAcpContract
<1>5. m \in DOMAIN Catalog /\ Catalog[m].key = contract[1].key
  BY <1>4 DEF Frozen
<1> QED BY <1>3, <1>4, <1>5 DEF Agreed, prepareAcpExecution

-----------------------------------------------------------------------------
(* The steps of the marketplace's clients                                  *)

\* Callers: each record that a function returns is true.
LEMMA CallerStep ==
  ASSUME AcpTypeOK, AcpSound,
         \/ \E contract \in Contracts, plan \in Plans : PrepareAcpExecution(contract, plan)
         \/ \E r \in records :
              \/ AuthorizeAcpExecution(r)
              \/ \E j \in Jobs : CreateAcpJob(r, j)
              \/ FundAcpJob(r) \/ ObserveAcpJob(r) \/ IngestAcpOutcome(r)
  PROVE  AcpTypeOK' /\ AcpSound' /\ JobsStay
<1>1. ASSUME NEW contract \in Contracts, NEW plan \in Plans, PrepareAcpExecution(contract, plan)
      PROVE  AcpTypeOK' /\ AcpSound' /\ JobsStay
  <2> DEFINE r == [state |-> "A0_PREPARED", plan |-> plan, job |-> NoJob, sideEffect |-> FALSE]
  <2>1. plan \in Plan
    BY AcpAssumption
  <2>2. r \in Record
    BY <2>1 DEF Record, State
  <2>3. Agreed(plan)'
    BY <1>1, <2>1, VerifiedIsAgreed DEF PrepareAcpExecution, Agreed
  <2>4. RecordTrue(r)'
    BY <2>3 DEF RecordTrue
  <2>5. Give(r) /\ UNCHANGED <<approved, run, job>>
    BY <1>1 DEF PrepareAcpExecution
  <2>6. approved \subseteq approved' /\ approved' \subseteq Plan
    BY <2>5 DEF AcpTypeOK
  <2> HIDE DEF r
  <2> QED BY <2>2, <2>4, <2>5, <2>6, Given
<1>2. ASSUME NEW r \in records, AuthorizeAcpExecution(r)
      PROVE  AcpTypeOK' /\ AcpSound' /\ JobsStay
  <2> DEFINE q == [r EXCEPT !.state = "A0_AUTHORIZED"]
  <2>1. r \in Record /\ RecordTrue(r) /\ r.state = "A0_PREPARED"
    BY <1>2 DEF AcpTypeOK, AcpSound, AuthorizeAcpExecution
  <2>2. q \in Record /\ q.plan = r.plan /\ q.state = "A0_AUTHORIZED"
    BY <2>1 DEF Record, State
  <2>3. /\ Give(q) /\ UNCHANGED <<run, job>>
        /\ approved \subseteq approved' /\ approved' \subseteq Plan /\ q.plan \in approved'
    BY <1>2, <2>1, <2>2 DEF AuthorizeAcpExecution, AcpTypeOK, Record
  <2>4. Agreed(q.plan)'
    BY <2>1, <2>2 DEF RecordTrue, Agreed
  <2> HIDE DEF q
  <2>5. RecordTrue(q)'
    BY <2>2, <2>3, <2>4 DEF RecordTrue
  <2> QED BY <2>2, <2>3, <2>5, Given
<1>3. ASSUME NEW r \in records, r.state # "A0_PREPARED", NEW q \in Record,
             q.plan = r.plan, Give(q), UNCHANGED <<approved, run, job>>
      PROVE  AcpTypeOK' /\ AcpSound' /\ JobsStay
  <2>1. r \in Record /\ RecordTrue(r) /\ approved' \subseteq Plan
    BY <1>3 DEF AcpTypeOK, AcpSound
  <2>2. RecordTrue(q)'
    BY <1>3, <2>1 DEF RecordTrue, Agreed
  <2>3. approved \subseteq approved' /\ UNCHANGED <<run, job>>
    BY <1>3
  <2> QED BY <1>3, <2>1, <2>2, <2>3, Given
<1>4. ASSUME NEW r \in records, NEW j \in Jobs, CreateAcpJob(r, j)
      PROVE  AcpTypeOK' /\ AcpSound' /\ JobsStay
  <2> DEFINE q == [r EXCEPT !.state = "A0_JOB_CREATED", !.job = j, !.sideEffect = TRUE]
  <2>1. r \in Record /\ r.state = "A0_AUTHORIZED"
    BY <1>4 DEF AcpTypeOK, CreateAcpJob
  <2>2. q \in Record /\ q.plan = r.plan
    BY <2>1 DEF Record, State
  <2>3. Give(q) /\ UNCHANGED <<approved, run, job>>
    BY <1>4 DEF CreateAcpJob
  <2> HIDE DEF q
  <2> QED BY <1>3, <2>1, <2>2, <2>3
<1>5. ASSUME NEW r \in records, r.state # "A0_PREPARED",
             NEW to \in {"A0_FUNDED", "A0_TERMINAL", "A0_INGESTED"},
             Give([r EXCEPT !.state = to]), UNCHANGED <<approved, run, job>>
      PROVE  AcpTypeOK' /\ AcpSound' /\ JobsStay
  <2> DEFINE q == [r EXCEPT !.state = to]
  <2>1. r \in Record
    BY DEF AcpTypeOK
  <2>2. q \in Record /\ q.plan = r.plan
    BY <2>1 DEF Record, State
  <2>3. Give(q)
    BY <1>5
  <2> HIDE DEF q
  <2> QED BY <1>3, <1>5, <2>2, <2>3
<1>6. ASSUME NEW r \in records, FundAcpJob(r) \/ ObserveAcpJob(r) \/ IngestAcpOutcome(r)
      PROVE  AcpTypeOK' /\ AcpSound' /\ JobsStay
  BY <1>5, <1>6 DEF FundAcpJob, ObserveAcpJob, IngestAcpOutcome
<1> QED BY <1>1, <1>2, <1>4, <1>6

\* Opening a job for a caller, or for a run that has none.
LEMMA JobOpened ==
  ASSUME AcpTypeOK, NEW j \in Jobs, job[j] = NoJob, NEW plan \in Plan,
         NEW by \in Runs \cup {"caller"}, job' = [job EXCEPT ![j] = Opened(plan, by)]
  PROVE  /\ JobsStay /\ job' \in [Jobs -> Job \cup {NoJob}]
         /\ job'[j] = Opened(plan, by) /\ job'[j] # NoJob /\ Opened(plan, by).by = by
         /\ \A i \in Jobs \ {j} : job'[i] = job[i]
<1>1. Opened(plan, by) \in Job /\ Opened(plan, by).by = by
  BY DEF Opened, Job
<1>2. Opened(plan, by) # NoJob
  BY <1>1, AcpAssumption
<1>3. job \in [Jobs -> Job \cup {NoJob}]
  BY DEF AcpTypeOK
<1> QED BY <1>1, <1>2, <1>3 DEF JobsStay

\* Paying for an open job, or its end.
LEMMA JobChanged ==
  ASSUME AcpTypeOK, NEW j \in Jobs, job[j] # NoJob, job[j].status \notin Ended,
         NEW paid \in BOOLEAN, NEW status \in {"open", "funded"} \cup Ended, job[j].paid => paid,
         job' = [job EXCEPT ![j] = [@ EXCEPT !.status = status, !.paid = paid]]
  PROVE  /\ JobsStay /\ job' \in [Jobs -> Job \cup {NoJob}]
         /\ job'[j] # NoJob /\ job'[j].paid = paid
         /\ \A i \in Jobs : job[i] = NoJob => job'[i] = NoJob
<1> DEFINE one == [job[j] EXCEPT !.status = status, !.paid = paid]
<1>1. job \in [Jobs -> Job \cup {NoJob}] /\ job[j] \in Job
  BY DEF AcpTypeOK
<1>2. one \in Job /\ one.plan = job[j].plan /\ one.by = job[j].by /\ one.paid = paid
  BY <1>1 DEF Job
<1>3. one # NoJob
  BY <1>2, AcpAssumption
<1>4. job' = [job EXCEPT ![j] = one]
  OBVIOUS
<1> HIDE DEF one
<1> QED BY <1>1, <1>2, <1>3, <1>4 DEF JobsStay

LEMMA Paying ==
  ASSUME AcpTypeOK, NEW j \in Jobs, job[j] # NoJob, Pay(j)
  PROVE  /\ JobsStay /\ job' \in [Jobs -> Job \cup {NoJob}]
         /\ job'[j] # NoJob /\ job'[j].paid
         /\ \A i \in Jobs : job[i] = NoJob => job'[i] = NoJob
<1>1. job \in [Jobs -> Job \cup {NoJob}] /\ job[j] \in Job
  BY DEF AcpTypeOK
<1>2. job[j].status = "open" /\ job[j].status \notin Ended
  BY DEF Pay, Ended
<1>3. job' = [job EXCEPT ![j] = [@ EXCEPT !.status = "funded", !.paid = TRUE]]
  BY <1>1 DEF Pay, Job
<1> QED BY <1>2, <1>3, JobChanged

\* The marketplace: a job is opened or paid for by a caller, or ends.
LEMMA MarketStep ==
  ASSUME AcpTypeOK, AcpSound,
         \/ \E r \in records, j \in Jobs : OpenJob(r, j)
         \/ \E j \in Jobs : PayJob(j) \/ \E status \in Ended : EndJob(j, status)
  PROVE  AcpTypeOK' /\ AcpSound' /\ JobsStay
<1>1. ASSUME NEW r \in records, NEW j \in Jobs, OpenJob(r, j)
      PROVE  AcpTypeOK' /\ AcpSound' /\ JobsStay
  <2>1. r \in Record /\ RecordTrue(r) /\ r.plan \in Plan
    BY <1>1 DEF AcpTypeOK, AcpSound, Record
  <2>2. r.plan \in approved /\ Agreed(r.plan)
    BY <1>1, <2>1 DEF OpenJob, RecordTrue
  <2>3. /\ job[j] = NoJob /\ job' = [job EXCEPT ![j] = Opened(r.plan, "caller")]
        /\ UNCHANGED <<records, approved, run>>
    BY <1>1 DEF OpenJob
  <2>4. /\ JobsStay /\ job' \in [Jobs -> Job \cup {NoJob}]
        /\ job'[j] = Opened(r.plan, "caller") /\ job'[j] # NoJob
        /\ \A i \in Jobs \ {j} : job'[i] = job[i]
        /\ Opened(r.plan, "caller").by = "caller"
    <3>1. "caller" \in Runs \cup {"caller"}
      OBVIOUS
    <3> QED BY <2>1, <2>3, <3>1, JobOpened
  <2>5. JobTrue(j)'
    BY <2>2, <2>3, <2>4 DEF JobTrue, Opened, Agreed
  <2>6. \A i \in Jobs : job[i] = NoJob => JobTrue(i)'
    BY <2>4, <2>5 DEF JobTrue
  <2>7. \A q \in Runs : RunSound(q)'
    <3> SUFFICES ASSUME NEW q \in Runs
                 PROVE  RunSound(q)'
      OBVIOUS
    <3>1. \A i \in Jobs : job[i] = NoJob /\ job'[i] # NoJob => job'[i].by # q
      BY <2>4, AcpAssumption
    <3> QED BY <2>3, <2>4, <3>1, RunStays DEF AcpSound
  <2>8. run' \in [Runs -> Run]
    BY <2>3 DEF AcpTypeOK
  <2> QED BY <2>3, <2>4, <2>6, <2>7, <2>8, JobsGoOn
<1>2. ASSUME JobsStay, UNCHANGED <<records, approved, run>>,
             job' \in [Jobs -> Job \cup {NoJob}],
             \A i \in Jobs : job[i] = NoJob => job'[i] = NoJob
      PROVE  AcpTypeOK' /\ AcpSound' /\ JobsStay
  <2>1. \A i \in Jobs : job[i] = NoJob => JobTrue(i)'
    BY <1>2 DEF JobTrue
  <2>2. \A q \in Runs : RunSound(q)'
    BY <1>2, RunStays DEF AcpSound
  <2>3. run' \in [Runs -> Run]
    BY <1>2 DEF AcpTypeOK
  <2> QED BY <1>2, <2>1, <2>2, <2>3, JobsGoOn
<1>3. ASSUME NEW j \in Jobs, PayJob(j)
      PROVE  AcpTypeOK' /\ AcpSound' /\ JobsStay
  <2>1. job[j] # NoJob /\ Pay(j) /\ UNCHANGED <<records, approved, run>>
    BY <1>3 DEF PayJob
  <2> QED BY <1>2, <2>1, Paying
<1>4. ASSUME NEW j \in Jobs, NEW status \in Ended, EndJob(j, status)
      PROVE  AcpTypeOK' /\ AcpSound' /\ JobsStay
  <2>1. job[j] # NoJob /\ job[j] \in Job /\ job \in [Jobs -> Job \cup {NoJob}]
    BY <1>4 DEF AcpTypeOK, EndJob
  <2>2. job[j].status \notin Ended /\ UNCHANGED <<records, approved, run>>
    BY <1>4 DEF EndJob, Ended
  <2>3. job[j].paid \in BOOLEAN
    BY <2>1 DEF Job
  <2>4. job' = [job EXCEPT ![j] = [@ EXCEPT !.status = status, !.paid = job[j].paid]]
    <3>1. [job[j] EXCEPT !.status = status]
            = [job[j] EXCEPT !.status = status, !.paid = job[j].paid]
      BY <2>1 DEF Job
    <3> QED BY <1>4, <2>1, <3>1 DEF EndJob
  <2>5. /\ JobsStay /\ job' \in [Jobs -> Job \cup {NoJob}]
        /\ \A i \in Jobs : job[i] = NoJob => job'[i] = NoJob
    BY <2>1, <2>2, <2>3, <2>4, JobChanged
  <2> QED BY <1>2, <2>2, <2>5
<1> QED BY <1>1, <1>3, <1>4

\* A step of a run, in which a job may be opened for it.
LEMMA RunGoesOn ==
  ASSUME AcpTypeOK, AcpSound, NEW r \in Runs, NEW q \in Run, run' = [run EXCEPT ![r] = q],
         UNCHANGED <<records, approved>>, JobsStay, job' \in [Jobs -> Job \cup {NoJob}],
         \A i \in Jobs : job[i] = NoJob /\ job'[i] # NoJob => job'[i].by = r,
         RunSound(r)'
  PROVE  AcpTypeOK' /\ AcpSound' /\ JobsStay
<1>1. run \in [Runs -> Run]
  BY DEF AcpTypeOK
<1>2. run' \in [Runs -> Run] /\ \A p \in Runs \ {r} : run'[p] = run[p]
  BY <1>1
<1>3. \A p \in Runs : RunSound(p)'
  <2> SUFFICES ASSUME NEW p \in Runs \ {r}
               PROVE  RunSound(p)'
    OBVIOUS
  <2>1. \A i \in Jobs : job[i] = NoJob /\ job'[i] # NoJob => job'[i].by # p
    OBVIOUS
  <2> QED BY <1>2, <2>1, RunStays DEF AcpSound
<1>4. \A i \in Jobs : job[i] = NoJob => JobTrue(i)'
  BY AcpAssumption DEF JobTrue
<1> QED BY <1>2, <1>3, <1>4, JobsGoOn

\* A step of a run that leaves the jobs alone, and what it has of one.
LEMMA RunMoves ==
  ASSUME AcpTypeOK, AcpSound, NEW r \in Runs, UNCHANGED <<records, approved, job>>,
         NEW to \in {"started", "verified", "failed"}, run' = [run EXCEPT ![r].at = to],
         to # "failed" => run[r].at \in {"idle", "started"}
  PROVE  AcpTypeOK' /\ AcpSound' /\ JobsStay
<1> DEFINE q == [run[r] EXCEPT !.at = to]
<1>1. run \in [Runs -> Run] /\ run[r] \in Run /\ RunSound(r) /\ job \in [Jobs -> Job \cup {NoJob}]
  BY DEF AcpTypeOK, AcpSound
<1>2. /\ q \in Run /\ q.at = to /\ q.job = run[r].job /\ q.funded = run[r].funded
      /\ q.seen = run[r].seen
  BY <1>1 DEF Run
<1>3. run' = [run EXCEPT ![r] = q] /\ run'[r] = q
  BY <1>1
<1> HIDE DEF q
<1>4. RunSound(r)'
  BY <1>1, <1>2, <1>3 DEF RunSound
<1>5. JobsStay
  BY DEF JobsStay
<1> QED BY <1>1, <1>2, <1>3, <1>4, <1>5, RunGoesOn

LEMMA ClientStep ==
  ASSUME AcpTypeOK, AcpSound, NEW r \in Runs, StartRun(r) \/ RunStep(r) \/ Fail(r)
  PROVE  AcpTypeOK' /\ AcpSound' /\ JobsStay
<1>1. /\ run \in [Runs -> Run] /\ run[r] \in Run /\ RunSound(r)
      /\ job \in [Jobs -> Job \cup {NoJob}]
  BY DEF AcpTypeOK, AcpSound
<1>2. CASE StartRun(r)
  BY <1>2, RunMoves DEF StartRun
<1>3. CASE BrowseAgents(r)
  BY <1>3, RunMoves DEF BrowseAgents
<1>4. CASE RefuseJob(r) \/ Fail(r)
  BY <1>4, RunMoves DEF RefuseJob, Fail
<1>5. ASSUME NEW j \in Jobs, NEW heard \in BOOLEAN, CreateJobFromOffering(r, j, heard)
      PROVE  AcpTypeOK' /\ AcpSound' /\ JobsStay
  <2> DEFINE q == IF heard THEN [run[r] EXCEPT !.at = "created", !.job = j]
                           ELSE [run[r] EXCEPT !.at = "failed"]
  <2>1. /\ q \in Run /\ q.funded = run[r].funded /\ q.seen = run[r].seen
        /\ \/ q.at = "created" /\ q.job = j
           \/ q.at = "failed" /\ q.job = run[r].job
    BY <1>1 DEF Run
  <2>2. run' = [run EXCEPT ![r] = q] /\ run'[r] = q
    BY <1>1, <1>5 DEF CreateJobFromOffering
  <2> HIDE DEF q
  <2>3. /\ job[j] = NoJob /\ job' = [job EXCEPT ![j] = Opened(Decided, r)]
        /\ UNCHANGED <<records, approved>> /\ run[r].at = "verified"
    BY <1>5 DEF CreateJobFromOffering
  <2>4. Decided \in Plan /\ r \in Runs \cup {"caller"}
    BY AcpAssumption
  <2>5. /\ JobsStay /\ job' \in [Jobs -> Job \cup {NoJob}]
        /\ job'[j] # NoJob /\ job'[j].by = r
        /\ \A i \in Jobs \ {j} : job'[i] = job[i]
    BY <2>3, <2>4, JobOpened
  <2>6. \A i \in Jobs : job[i] = NoJob /\ job'[i] # NoJob => job'[i].by = r
    BY <2>5
  <2>7. run[r].job = NoJob /\ ~run[r].funded /\ run[r].seen = "nothing" /\ j # NoJob
        /\ \A i \in Jobs : job[i] # NoJob => job[i].by # r
    BY <1>1, <2>3, AcpAssumption DEF RunSound
  <2>8. RunSound(r)'
    BY <2>1, <2>2, <2>5, <2>7 DEF RunSound, Ended
  <2> QED BY <2>1, <2>2, <2>3, <2>5, <2>6, <2>8, RunGoesOn
<1>6. ASSUME NEW heard \in BOOLEAN, Fund(r, heard)
      PROVE  AcpTypeOK' /\ AcpSound' /\ JobsStay
  <2> DEFINE q == IF heard THEN [run[r] EXCEPT !.at = "funded", !.funded = TRUE]
                           ELSE [run[r] EXCEPT !.at = "failed"]
  <2>1. /\ q \in Run /\ q.job = run[r].job /\ q.seen = run[r].seen
        /\ \/ heard /\ q.at = "funded" /\ q.funded
           \/ q.at = "failed" /\ q.funded = run[r].funded
    BY <1>1 DEF Run
  <2>2. run' = [run EXCEPT ![r] = q] /\ run'[r] = q
    BY <1>1, <1>6 DEF Fund
  <2> HIDE DEF q
  <2>3. UNCHANGED <<records, approved>> /\ run[r].at = "created"
    BY <1>6 DEF Fund
  <2>4. run[r].job \in Jobs /\ job[run[r].job] # NoJob /\ run[r].seen = "nothing"
    BY <1>1, <2>3 DEF RunSound, Run
  <2>5. /\ JobsStay /\ job' \in [Jobs -> Job \cup {NoJob}]
        /\ \A i \in Jobs : job[i] = NoJob => job'[i] = NoJob
        /\ heard => job'[run[r].job].paid
    <3>1. CASE Pay(run[r].job)
      BY <2>4, <3>1, Paying
    <3>2. CASE ~heard /\ UNCHANGED job
      BY <1>1, <3>2 DEF JobsStay
    <3> QED BY <1>6, <3>1, <3>2 DEF Fund
  <2>6. \A i \in Jobs : job'[i] # NoJob => job[i] # NoJob /\ job'[i].by = job[i].by
    BY <2>5 DEF JobsStay
  <2>7. RunSound(r)'
    BY <1>1, <2>1, <2>2, <2>3, <2>4, <2>5, <2>6 DEF RunSound, Ended, JobsStay
  <2> QED BY <2>1, <2>2, <2>3, <2>5, <2>7, RunGoesOn
<1>7. ASSUME NEW heard \in BOOLEAN, Observe(r, heard)
      PROVE  AcpTypeOK' /\ AcpSound' /\ JobsStay
  <2> DEFINE q == [run[r] EXCEPT !.at = IF heard THEN "final" ELSE "failed",
                                 !.seen = job[run[r].job].status]
  <2>1. UNCHANGED <<records, approved, job>> /\ run[r].at = "funded"
    BY <1>7 DEF Observe
  <2>2. run[r].job \in Jobs /\ run[r].job # NoJob /\ job[run[r].job] \in Job
    BY <1>1, <2>1 DEF RunSound, Run
  <2>3. job[run[r].job].status \in {"open", "funded"} \cup Ended
    BY <2>2 DEF Job
  <2>4. /\ q \in Run /\ q.job = run[r].job /\ q.funded = run[r].funded
        /\ q.seen = job[run[r].job].status /\ q.at \in {"final", "failed"}
    BY <1>1, <2>3 DEF Run
  <2>5. run' = [run EXCEPT ![r] = q] /\ run'[r] = q
    BY <1>1, <1>7 DEF Observe
  <2> HIDE DEF q
  <2>6. RunSound(r)'
    BY <1>1, <2>1, <2>2, <2>4, <2>5 DEF RunSound
  <2>7. JobsStay
    BY <2>1 DEF JobsStay
  <2> QED BY <1>1, <2>1, <2>4, <2>5, <2>6, <2>7, RunGoesOn
<1> QED BY <1>2, <1>3, <1>4, <1>5, <1>6, <1>7 DEF RunStep

\* What there is of jobs, records and runs keeps its type and stays true.
LEMMA AcpStep ==
  ASSUME AcpTypeOK, AcpSound, AcpNext
  PROVE  AcpTypeOK' /\ AcpSound' /\ JobsStay
  BY CallerStep, MarketStep, ClientStep DEF AcpNext

-----------------------------------------------------------------------------
(* Influence                                                               *)

\* What a decision is without memory, by the place of the offer that it takes.
LEMMA Control ==
  ASSUME NEW context \in Context, NEW offers \in Seq(Offer),
         eligibleOffers(context, offers) # {}
  PROVE  decideProviderEngagement(context, offers, None)
           = Engage(offers[FirstOf(offers, eligibleOffers(context, offers))], FALSE, {}, None)
  BY DEF decideProviderEngagement

LEMMA GuardedTerms ==
  ASSUME NEW n \in Nat
  PROVE  /\ terms(n, TRUE).milestone /\ terms(n, TRUE).maxSpend = terms(n, FALSE).maxSpend
         /\ Prepay(terms(n, TRUE).maxSpend, terms(n, TRUE).prepayBps)
              <= Prepay(terms(n, FALSE).maxSpend, terms(n, FALSE).prepayBps)
<1> DEFINE s == terms(n, TRUE)
           t == terms(n, FALSE)
<1>1. /\ s.milestone /\ s.maxSpend = n /\ t.maxSpend = n
      /\ s.prepayBps = 1000 /\ t.prepayBps = 5000
  BY SMT DEF terms
<1>2. Prepay(n, 1000) <= Prepay(n, 5000)
  BY PrepayBounds, SMT DEF Share
<1> SUFFICES /\ s.milestone /\ s.maxSpend = t.maxSpend
             /\ Prepay(s.maxSpend, s.prepayBps) <= Prepay(t.maxSpend, t.prepayBps)
  OBVIOUS
<1> HIDE DEF s, t
<1> QED BY <1>1, <1>2, SMT

LEMMA InfluenceIsGuarded ==
  ASSUME NEW choice \in Choice, ChoiceSound(choice)
  PROVE  LET made == treatment(choice)
             without == control(choice)
         IN  /\ made.memoryRefs = {} => made = without
             /\ made.memoryRefs # {} =>
                  /\ choice.memory # None
                  /\ made.counterfactual = [provider |-> without.provider, terms |-> without.terms]
                  /\ without.provider = choice.memory.provider
                  /\ IF made.provider = without.provider
                     THEN /\ made.terms.milestone /\ made.terms.maxSpend = without.terms.maxSpend
                          /\ Prepay(made.terms.maxSpend, made.terms.prepayBps)
                               <= Prepay(without.terms.maxSpend, without.terms.prepayBps)
                     ELSE choice.context.urgency = "URGENT"
                  /\ executeProviderEngagement(made, choice.context) = "FAILURE" =>
                       executeProviderEngagement(without, choice.context) = "FAILURE"
<1> DEFINE offers == choice.offers
           eligible == eligibleOffers(choice.context, offers)
           n == FirstOf(offers, eligible)
           o == offers[n]
           made == treatment(choice)
           without == control(choice)
           other == [provider |-> o.provider, terms |-> terms(o.price, FALSE)]
           refs == {choice.memory.id}
<1>1. /\ choice.context \in Context /\ offers \in Seq(Offer)
      /\ choice.memory \in Relationship \cup {None} /\ eligible # {}
  BY DEF Choice, ChoiceSound
<1>2. without = Engage(o, FALSE, {}, None)
  BY <1>1, Control DEF control
<1>3. /\ o \in Offer /\ o.price <= choice.context.budget
      /\ \/ made = Engage(o, FALSE, {}, None)
         \/ /\ choice.memory # None /\ choice.memory.provider = o.provider
            /\ \/ made = Engage(o, TRUE, refs, other)
               \/ /\ choice.context.urgency = "URGENT"
                  /\ \E m \in eligible :
                       /\ offers[m] \in Offer /\ offers[m].price <= choice.context.budget
                       /\ offers[m].provider # choice.memory.provider
                       /\ made = Engage(offers[m], FALSE, refs, other)
  BY <1>1, WhatIsDecided DEF treatment
<1>4. without.provider = o.provider /\ without.terms = terms(o.price, FALSE)
  BY <1>2 DEF Engage
<1>5. o.price \in Nat
  BY <1>3 DEF Offer
<1>6. choice.memory # None => choice.memory.provider = "atlas"
  BY DEF ChoiceSound
<1>7. other = [provider |-> without.provider, terms |-> without.terms]
  BY <1>4
<1> DEFINE Guards ==
      /\ choice.memory # None
      /\ made.counterfactual = [provider |-> without.provider, terms |-> without.terms]
      /\ without.provider = choice.memory.provider
      /\ IF made.provider = without.provider
         THEN /\ made.terms.milestone /\ made.terms.maxSpend = without.terms.maxSpend
              /\ Prepay(made.terms.maxSpend, made.terms.prepayBps)
                   <= Prepay(without.terms.maxSpend, without.terms.prepayBps)
         ELSE choice.context.urgency = "URGENT"
      /\ executeProviderEngagement(made, choice.context) = "FAILURE" =>
           executeProviderEngagement(without, choice.context) = "FAILURE"
<1> SUFFICES (made.memoryRefs = {} => made = without) /\ (made.memoryRefs # {} => Guards)
  OBVIOUS
<1> HIDE DEF made, without, other, o, n, refs
<1>8. CASE made = Engage(o, FALSE, {}, None)
  <2>1. made.memoryRefs = {}
    BY <1>8 DEF Engage
  <2> QED BY <1>2, <1>8, <2>1
<1>9. ASSUME choice.memory # None, choice.memory.provider = o.provider,
             made = Engage(o, TRUE, refs, other)
      PROVE  Guards
  <2>1. /\ made.provider = o.provider /\ made.terms = terms(o.price, TRUE)
        /\ made.counterfactual = other
    BY <1>9 DEF Engage
  <2>2. made.provider = without.provider
    BY <1>4, <2>1
  <2>3. /\ made.terms.milestone /\ made.terms.maxSpend = without.terms.maxSpend
        /\ Prepay(made.terms.maxSpend, made.terms.prepayBps)
             <= Prepay(without.terms.maxSpend, without.terms.prepayBps)
    BY <1>4, <1>5, <2>1, GuardedTerms
  <2>4. executeProviderEngagement(made, choice.context)
          = executeProviderEngagement(without, choice.context)
    BY <2>2 DEF executeProviderEngagement
  <2>5. without.provider = choice.memory.provider
    BY <1>4, <1>9
  <2>6. made.counterfactual = [provider |-> without.provider, terms |-> without.terms]
    BY <1>7, <2>1
  <2> QED BY <1>9, <2>2, <2>3, <2>4, <2>5, <2>6
<1>10. ASSUME choice.memory # None, choice.memory.provider = o.provider,
              choice.context.urgency = "URGENT", NEW m, offers[m].provider # choice.memory.provider,
              made = Engage(offers[m], FALSE, refs, other)
       PROVE  Guards
  <2>1. made.provider = offers[m].provider /\ made.counterfactual = other
    BY <1>10 DEF Engage
  <2>2. made.provider # without.provider
    BY <1>4, <1>10, <2>1
  <2>3. without.provider = "atlas"
    BY <1>4, <1>6, <1>10
  <2>4. executeProviderEngagement(made, choice.context) = "FAILURE" =>
          executeProviderEngagement(without, choice.context) = "FAILURE"
    BY <2>3, <1>10 DEF executeProviderEngagement
  <2>5. without.provider = choice.memory.provider
    BY <1>4, <1>10
  <2>6. made.counterfactual = [provider |-> without.provider, terms |-> without.terms]
    BY <1>7, <2>1
  <2> QED BY <1>10, <2>2, <2>4, <2>5, <2>6
<1>11. ASSUME choice.memory # None PROVE refs # {}
  BY DEF refs
<1>12. \/ made = Engage(o, FALSE, {}, None)
       \/ Guards /\ made.memoryRefs = refs /\ refs # {}
  <2>1. ASSUME NEW m PROVE Engage(offers[m], FALSE, refs, other).memoryRefs = refs
    BY DEF Engage
  <2>2. Engage(o, TRUE, refs, other).memoryRefs = refs
    BY DEF Engage
  <2> QED BY <1>3, <1>9, <1>10, <1>11, <2>1, <2>2
<1> QED BY <1>8, <1>12

-----------------------------------------------------------------------------
(* The steps of the loop                                                   *)

\* What a sound choice comes to.
LEMMA TreatmentType ==
  ASSUME NEW choice \in Choice, ChoiceSound(choice)
  PROVE  LET made == treatment(choice)
         IN  /\ made \in Engagement /\ made.terms.maxSpend <= choice.context.budget
             /\ made.terms.prepayBps \in Share
  BY EngagementType DEF treatment, Choice, ChoiceSound

LEMMA DeriveType ==
  ASSUME NEW d \in Engagement, MayDerive(d, Book), NEW x \in Nat
  PROVE  /\ deriveBaseSettlementIntent(d, Book, x) \in Intent
         /\ deriveBaseSettlementIntent(d, Book, x).execution = x
<1> DEFINE Side == [provider : ProviderId, recipient : Addresses, terms : SettlementTerms]
           other == d.counterfactual
           against == IF other = None THEN None
                      ELSE [ provider |-> other.provider, recipient |-> Book[other.provider],
                             terms |-> settlementTerms(other.terms) ]
<1>1. /\ d.provider \in ProviderId /\ d.terms \in Terms /\ d.memoryRefs \in SUBSET Nat
      /\ other \in [provider : ProviderId, terms : Terms] \cup {None}
  BY DEF Engagement
<1>2. Book[d.provider] \in Addresses /\ settlementTerms(d.terms) \in SettlementTerms
  BY <1>1, LoopAssumption, SettlementTermsType
<1>3. against \in Side \cup {None}
  <2>1. CASE other = None
    BY <2>1
  <2>2. CASE other # None
    <3>1. other.provider \in ProviderId /\ other.terms \in Terms
      BY <1>1, <2>2
    <3>2. Book[other.provider] \in Addresses /\ settlementTerms(other.terms) \in SettlementTerms
      BY <3>1, LoopAssumption, SettlementTermsType
    <3>3. against = [ provider |-> other.provider, recipient |-> Book[other.provider],
                      terms |-> settlementTerms(other.terms) ]
      BY <2>2
    <3> HIDE DEF other, against
    <3> QED BY <3>1, <3>2, <3>3
  <2> QED BY <2>1, <2>2
<1>4. deriveBaseSettlementIntent(d, Book, x)
        = [ provider |-> d.provider, recipient |-> Book[d.provider],
            terms |-> settlementTerms(d.terms), memoryRefs |-> d.memoryRefs,
            execution |-> x, counterfactual |-> against ]
  BY DEF deriveBaseSettlementIntent
<1> HIDE DEF against
<1> QED BY <1>1, <1>2, <1>3, <1>4 DEF Intent

\* A job's history is observed.
LEMMA EvidenceStep ==
  ASSUME TypeOK, ObservationSound, NEW j \in Jobs, NEW status \in Status, NEW late \in BOOLEAN,
         IngestHistory(j, status, late)
  PROVE  TypeOK' /\ ObservationSound'
<1> DEFINE saw == [status |-> status, failure |-> failureType(status, late)]
<1>1. /\ job[j] # NoJob /\ status \in {job[j].status, "other"}
      /\ observed' = [observed EXCEPT ![j] = saw] /\ UNCHANGED <<acpVars, decideVars>>
  BY DEF IngestHistory
<1>2. observed \in [Jobs -> Observation \cup {None}]
  BY DEF TypeOK
<1>3. /\ saw.failure \in Failure \cup {None}
      /\ saw.status = "rejected" <=> saw.failure = "JOB_REJECTED"
      /\ saw.status = "expired" <=> saw.failure = "JOB_EXPIRED"
      /\ saw.status = "other" <=> saw.failure = "UNKNOWN_FAILURE"
  BY LoopAssumption DEF failureType, Failure
<1>4. saw.status = status /\ saw \in Observation
  BY <1>3 DEF Observation
<1> HIDE DEF saw
<1>5. TypeOK'
  BY <1>1, <1>2, <1>4 DEF TypeOK, AcpTypeOK, acpVars, decideVars
<1>6. UNCHANGED job
  BY <1>1 DEF acpVars
<1>7. saw.status \in Ended => job[j].status = saw.status
  BY <1>1, <1>4 DEF Ended
<1>8. ObservationSound'
  BY <1>1, <1>2, <1>3, <1>6, <1>7 DEF ObservationSound
<1> QED BY <1>5, <1>8

\* Jobs stay what was observed of them.
LEMMA ObservationsStay ==
  ASSUME ObservationSound, JobsStay, UNCHANGED observed
  PROVE  ObservationSound'
  BY DEF ObservationSound, JobsStay

\* What was soundly observed is true.
LEMMA ObservationsHold ==
  ASSUME TypeOK, ObservationSound
  PROVE  ObservationsAreTrue
<1> SUFFICES ASSUME NEW j \in Jobs, observed[j] # None
             PROVE  LET saw == observed[j]
                    IN  /\ saw.failure = "JOB_REJECTED" => job[j].status = "rejected"
                        /\ saw.failure = "JOB_EXPIRED" => job[j].status = "expired"
                        /\ /\ saw.failure \in {None, "SLA_BREACH"}
                           /\ job[j].status \in {"rejected", "expired"}
                           => saw.status \in {"open", "funded"}
  BY DEF ObservationsAreTrue
<1>1. observed[j].status \in Status /\ None \notin Failure
  BY LoopAssumption DEF TypeOK, Observation
<1> QED BY <1>1 DEF ObservationSound, Status, Failure, Ended

\* A choice that can be put to a deciding process is sound.
LEMMA ChooseSound ==
  ASSUME NEW y \in Situations, NEW m \in Recallable, NEW score \in Scores,
         eligibleOffers(y.context, y.offers) # {}
  PROVE  Choose(y, m, score) \in Choice /\ ChoiceSound(Choose(y, m, score))
<1> DEFINE c == Choose(y, m, score)
<1>1. y.context \in Context /\ y.offers \in Seq(Offer)
  BY LoopAssumption DEF Situation
<1>2. m # None => m \in Relationship
  BY LoopAssumption DEF Recallable
<1>3. c.context = y.context /\ c.offers = y.offers /\ c \in Choice
  BY <1>1, <1>2 DEF Choose, Choice
<1>4. c.memory # None => c.memory = m /\ applicableRelationshipMemory(y.context, m, score)
  BY DEF Choose
<1> HIDE DEF c
<1>5. c.memory # None => c.memory.provider = "atlas"
  BY <1>4 DEF applicableRelationshipMemory
<1>6. ChoiceSound(c)
  BY <1>3, <1>5 DEF ChoiceSound
<1> QED BY <1>3, <1>6 DEF c

\* What processes have chosen, and what has come of it, stays where only one goes on,
\* beyond where it was.
LEMMA OthersStay ==
  ASSUME TypeOK, LoopSound, NEW x \in Executions, process[x] # "done",
         NEW to \in {"recording", "decided", "writing", "done"},
         process' = [process EXCEPT ![x] = to],
         chosen' = chosen \/ (process[x] = "idle" /\ \E c \in Choice : chosen' = [chosen EXCEPT ![x] = c]),
         decisions \subseteq decisions', decisions' \subseteq Decision,
         ProcessSound(x)', FileSound', file' \in Intent \cup {None, Torn},
         UNCHANGED <<acpVars, observed, settled>>
  PROVE  TypeOK' /\ LoopSound'
<1>1. /\ process \in [Executions -> {"idle", "recording", "decided", "writing", "done"}]
      /\ chosen \in [Executions -> Choice \cup {None}]
  BY DEF TypeOK
<1>2. /\ process' \in [Executions -> {"idle", "recording", "decided", "writing", "done"}]
      /\ chosen' \in [Executions -> Choice \cup {None}]
      /\ \A n \in Executions \ {x} : process'[n] = process[n] /\ chosen'[n] = chosen[n]
  BY <1>1
<1>3. TypeOK'
  BY <1>2 DEF TypeOK, AcpTypeOK, acpVars
<1>4. \A n \in Executions : ProcessSound(n)'
  <2> SUFFICES ASSUME NEW n \in Executions \ {x}
               PROVE  ProcessSound(n)'
    OBVIOUS
  <2>1. process'[n] = process[n] /\ chosen'[n] = chosen[n] /\ ProcessSound(n)
    BY <1>2 DEF LoopSound
  <2>2. treatment(chosen[n])' = treatment(chosen[n])
    BY <2>1 DEF treatment
  <2>3. ChoiceSound(chosen[n])' <=> ChoiceSound(chosen[n])
    BY <2>1 DEF ChoiceSound
  <2>4. OnRecord(n) => OnRecord(n)'
    BY <2>2 DEF OnRecord
  <2> QED BY <2>1, <2>2, <2>3, <2>4 DEF ProcessSound
<1>5. \A e \in settled : e.execution \in Executions \ {x} /\ process[e.execution] = "done"
  BY DEF LoopSound
<1>6. \A e \in settled' : e.execution \in Executions /\ process'[e.execution] = "done"
  BY <1>2, <1>5
<1>7. SettlementsAreAuthorized'
  BY <1>2, <1>5 DEF LoopSound, SettlementsAreAuthorized, treatment
<1> QED BY <1>3, <1>4, <1>6, <1>7 DEF LoopSound

\* A file that is not written stays sound, as what it names is done.
LEMMA FileStays ==
  ASSUME LoopSound, NEW x \in Executions, process[x] # "done", UNCHANGED file,
         \A n \in Executions \ {x} : process'[n] = process[n] /\ chosen'[n] = chosen[n]
  PROVE  FileSound'
  BY DEF LoopSound, FileSound, treatment

LEMMA DecideStep ==
  ASSUME TypeOK, LoopSound, NEW x \in Executions, NEW choice \in Choice, ChoiceSound(choice),
         Decide(x, choice)
  PROVE  TypeOK' /\ LoopSound'
<1> DEFINE to == IF treatment(choice).memoryRefs # {} THEN "recording" ELSE "decided"
<1>1. /\ process[x] = "idle" /\ process' = [process EXCEPT ![x] = to]
      /\ chosen' = [chosen EXCEPT ![x] = choice]
      /\ UNCHANGED <<acpVars, observed, decisions, file, settled>>
  BY DEF Decide
<1>2. /\ process \in [Executions -> {"idle", "recording", "decided", "writing", "done"}]
      /\ chosen \in [Executions -> Choice \cup {None}] /\ decisions \subseteq Decision
      /\ file \in Intent \cup {None, Torn} /\ choice # None
  BY LoopAssumption DEF TypeOK
<1>3. /\ to \in {"recording", "decided"} /\ process'[x] = to /\ chosen'[x] = choice
      /\ \A n \in Executions \ {x} : process'[n] = process[n] /\ chosen'[n] = chosen[n]
  BY <1>1, <1>2
<1>4. treatment(chosen[x])' = treatment(choice)
  BY <1>3 DEF treatment
<1>5. to = "decided" => treatment(choice).memoryRefs = {}
  OBVIOUS
<1> HIDE DEF to
<1>6. ProcessSound(x)'
  BY <1>2, <1>3, <1>4, <1>5 DEF ProcessSound, ChoiceSound
<1>7. FileSound'
  BY <1>1, <1>3, FileStays
<1> QED BY <1>1, <1>2, <1>3, <1>6, <1>7, OthersStay

LEMMA RecordStep ==
  ASSUME TypeOK, LoopSound, NEW x \in Executions, RecordDecision(x)
  PROVE  TypeOK' /\ LoopSound'
<1> DEFINE made == treatment(chosen[x])
           d == [ execution |-> x, provider |-> made.provider, terms |-> made.terms,
                  memoryRefs |-> made.memoryRefs ]
<1>1. /\ process[x] = "recording" /\ process' = [process EXCEPT ![x] = "decided"]
      /\ decisions' = decisions \cup {d} /\ UNCHANGED <<acpVars, observed, chosen, file, settled>>
  BY DEF RecordDecision
<1>2. /\ process \in [Executions -> {"idle", "recording", "decided", "writing", "done"}]
      /\ chosen \in [Executions -> Choice \cup {None}] /\ decisions \subseteq Decision
      /\ file \in Intent \cup {None, Torn} /\ x \in Nat
  BY LoopAssumption DEF TypeOK
<1>3. /\ chosen[x] # None /\ chosen[x] \in Choice /\ ChoiceSound(chosen[x])
  BY <1>1, <1>2 DEF LoopSound, ProcessSound
<1>4. made \in Engagement
  BY <1>3, TreatmentType
<1>5. d \in Decision
  <2>1. made.provider \in ProviderId /\ made.terms \in Terms /\ made.memoryRefs \in SUBSET Nat
    <3> HIDE DEF made
    <3> QED BY <1>4 DEF Engagement
  <2> HIDE DEF made
  <2> QED BY <1>2, <2>1 DEF Decision
<1>6. process'[x] = "decided" /\ \A n \in Executions \ {x} : process'[n] = process[n]
  BY <1>1, <1>2
<1>7. ProcessSound(x)'
  <2>1. OnRecord(x)'
    BY <1>1 DEF OnRecord, treatment
  <2> QED BY <1>1, <1>3, <1>6, <2>1 DEF ProcessSound, ChoiceSound
<1> HIDE DEF d, made
<1>8. FileSound'
  BY <1>1, <1>6, FileStays
<1>9. decisions \subseteq decisions' /\ decisions' \subseteq Decision
  BY <1>1, <1>2, <1>5
<1> QED BY <1>1, <1>2, <1>7, <1>8, <1>9, OthersStay

\* The intent is written: opening the file, then the whole of it or a part.
LEMMA WriteStep ==
  ASSUME TypeOK, LoopSound, NEW x \in Executions,
         OpenIntent(x) \/ \E whole \in BOOLEAN : WriteIntent(x, whole)
  PROVE  TypeOK' /\ LoopSound'
<1> DEFINE intent == deriveBaseSettlementIntent(treatment(chosen[x]), Book, x)
<1>1. PICK to \in {"writing", "done"} :
        /\ process[x] = IF to = "writing" THEN "decided" ELSE "writing"
        /\ process' = [process EXCEPT ![x] = to]
        /\ to = "writing" => MayDerive(treatment(chosen[x]), Book)
        /\ file' = Torn \/ (to = "done" /\ file' = intent)
        /\ UNCHANGED <<acpVars, observed, chosen, decisions, settled>>
  BY DEF OpenIntent, WriteIntent
<1>2. /\ process \in [Executions -> {"idle", "recording", "decided", "writing", "done"}]
      /\ chosen \in [Executions -> Choice \cup {None}] /\ decisions \subseteq Decision
      /\ x \in Nat
  BY LoopAssumption DEF TypeOK
<1>3. /\ ProcessSound(x) /\ chosen[x] # None /\ chosen[x] \in Choice /\ ChoiceSound(chosen[x])
      /\ MayDerive(treatment(chosen[x]), Book)
  BY <1>1, <1>2 DEF LoopSound, ProcessSound
<1>4. treatment(chosen[x]) \in Engagement
  BY <1>3, TreatmentType
<1>5. intent \in Intent /\ intent.execution = x
  BY <1>2, <1>3, <1>4, DeriveType
<1>6. process'[x] = to /\ \A n \in Executions \ {x} : process'[n] = process[n]
  BY <1>1, <1>2
<1>7. ProcessSound(x)'
  <2>1. treatment(chosen[x])' = treatment(chosen[x])
    BY <1>1 DEF treatment
  <2>2. OnRecord(x) => OnRecord(x)'
    BY <1>1, <2>1 DEF OnRecord
  <2>3. ChoiceSound(chosen[x])'
    BY <1>1, <1>3 DEF ChoiceSound
  <2> QED BY <1>1, <1>3, <1>6, <2>1, <2>2, <2>3 DEF ProcessSound
<1> HIDE DEF intent
<1>8. FileSound'
  <2>1. CASE file' = Torn
    BY <2>1 DEF FileSound
  <2>2. CASE to = "done" /\ file' = intent
    BY <1>1, <1>5, <1>6, <2>2 DEF FileSound, intent, treatment
  <2> QED BY <1>1, <2>1, <2>2
<1>9. file' \in Intent \cup {None, Torn}
  BY <1>1, <1>5
<1> QED BY <1>1, <1>2, <1>7, <1>8, <1>9, OthersStay

LEMMA VerifyStep ==
  ASSUME TypeOK, LoopSound, NEW t \in Transactions, NEW payer \in Addresses \cup {None},
         Verify(t, payer)
  PROVE  TypeOK' /\ LoopSound'
<1> DEFINE x == file.execution
           made == treatment(chosen[x])
           logs == Receipts[t].logs
           Evidence(n) == [ execution |-> x, transaction |-> t, recipient |-> file.recipient,
                            amount |-> file.terms.prepay, payer |-> logs[n].from ]
<1>1. /\ file \notin {None, Torn} /\ Receipts[t].success
      /\ settled' = settled \cup {Evidence(n) : n \in Matching(file, Receipts[t], payer)}
      /\ UNCHANGED <<acpVars, observed, process, chosen, decisions, file>>
  BY DEF Verify, verifyBaseSettlementReceipt
<1>2. /\ x \in Executions /\ process[x] = "done" /\ chosen[x] # None /\ MayDerive(made, Book)
      /\ file = deriveBaseSettlementIntent(made, Book, x)
  BY <1>1 DEF LoopSound, FileSound, ProcessSound
<1>3. chosen[x] \in Choice /\ ChoiceSound(chosen[x]) /\ x \in Nat /\ file \in Intent
  BY <1>1, <1>2, LoopAssumption DEF TypeOK, LoopSound, ProcessSound
<1>4. /\ made \in Engagement /\ made.terms.maxSpend <= chosen[x].context.budget
      /\ made.terms.prepayBps \in Share
  BY <1>3, TreatmentType
<1>5. /\ file.recipient = Book[made.provider]
      /\ file.terms.prepay = Prepay(made.terms.maxSpend, made.terms.prepayBps)
  BY <1>2 DEF deriveBaseSettlementIntent, settlementTerms
<1>6. file.terms.prepay * Fine <= chosen[x].context.budget + Tolerance
  <2>1. made.terms.maxSpend \in Nat
    <3>1. made.terms \in Terms
      BY <1>4 DEF Engagement
    <3>2. \A s \in Terms : s.maxSpend \in Nat
      BY DEF Terms
    <3> QED BY <3>1, <3>2
  <2>2. chosen[x].context.budget \in Nat
    BY <1>3 DEF Choice, Context
  <2>3. Representable(made.terms.maxSpend)
    BY <1>2 DEF MayDerive
  <2> HIDE DEF made
  <2> QED BY <1>4, <1>5, <2>1, <2>2, <2>3, PrepayWithinBudget
<1>7. logs \in Seq(Log)
  BY LoopAssumption DEF Receipt
<1>8. ASSUME NEW n \in Matching(file, Receipts[t], payer)
      PROVE  /\ n \in DOMAIN logs /\ logs[n] \in Log /\ logs[n].usdc /\ logs[n].transfer
             /\ logs[n].to = file.recipient /\ logs[n].amount = file.terms.prepay
  <2>1. n \in DOMAIN logs /\ logs[n].usdc /\ logs[n].transfer
        /\ logs[n].to = file.recipient /\ logs[n].amount = file.terms.prepay
    BY <1>8 DEF Matching, Transfers
  <2>2. \A m \in DOMAIN logs : logs[m] \in Log
    BY <1>7
  <2> QED BY <2>1, <2>2
<1>9. file.recipient \in Addresses /\ file.terms.prepay \in Nat
  BY <1>3 DEF Intent, SettlementTerms
<1>10. \A n \in Matching(file, Receipts[t], payer) : Evidence(n) \in Settlement
  <2> SUFFICES ASSUME NEW n \in Matching(file, Receipts[t], payer)
               PROVE  Evidence(n) \in Settlement
    OBVIOUS
  <2>1. logs[n].from \in Addresses
    BY <1>8 DEF Log
  <2>2. /\ x \in Executions /\ t \in Transactions /\ file.recipient \in Addresses
        /\ file.terms.prepay \in Nat
    BY <1>2, <1>9
  <2> DEFINE from == logs[n].from
             to == file.recipient
             amount == file.terms.prepay
  <2> HIDE DEF x, logs, from, to, amount
  <2>3. [execution |-> x, transaction |-> t, recipient |-> to, amount |-> amount, payer |-> from]
          \in Settlement
    <3>1. from \in Addresses /\ to \in Addresses /\ amount \in Nat
      BY <2>1, <2>2 DEF from, to, amount
    <3> QED BY <2>2, <3>1, LoopAssumption DEF Settlement
  <2> QED BY <2>3, Zenon DEF from, to, amount
<1>11. TypeOK'
  BY <1>1, <1>10 DEF TypeOK, AcpTypeOK, acpVars
<1> DEFINE Earned(e) ==
      /\ chosen[e.execution] # None
      /\ LET m == treatment(chosen[e.execution])
         IN  /\ e.recipient = Book[m.provider]
             /\ e.amount = Prepay(m.terms.maxSpend, m.terms.prepayBps)
             /\ e.amount * Fine <= chosen[e.execution].context.budget + Tolerance
      /\ Receipts[e.transaction].success
      /\ \E n \in DOMAIN Receipts[e.transaction].logs :
           LET log == Receipts[e.transaction].logs[n]
           IN  /\ log.usdc /\ log.transfer /\ log.to = e.recipient
               /\ log.from = e.payer /\ log.amount = e.amount
<1>12. ASSUME NEW n \in Matching(file, Receipts[t], payer)
       PROVE  Earned(Evidence(n)) /\ Evidence(n).execution = x
  <2> DEFINE e == Evidence(n)
  <2>1. /\ e.execution = x /\ e.transaction = t /\ e.recipient = file.recipient
        /\ e.amount = file.terms.prepay /\ e.payer = logs[n].from
    OBVIOUS
  <2> HIDE DEF e
  <2>2. chosen[e.execution] # None /\ treatment(chosen[e.execution]) = made
    BY <1>2, <2>1
  <2>3. /\ e.recipient = Book[made.provider]
        /\ e.amount = Prepay(made.terms.maxSpend, made.terms.prepayBps)
        /\ e.amount * Fine <= chosen[e.execution].context.budget + Tolerance
    BY <1>5, <1>6, <2>1
  <2>4. /\ n \in DOMAIN Receipts[e.transaction].logs /\ logs = Receipts[e.transaction].logs
        /\ logs[n].usdc /\ logs[n].transfer /\ logs[n].to = e.recipient
        /\ logs[n].from = e.payer /\ logs[n].amount = e.amount
    BY <1>8, <2>1
  <2>5. Earned(e)
    <3> HIDE DEF made, logs
    <3> QED BY <1>1, <2>1, <2>2, <2>3, <2>4
  <2> QED BY <1>2, <2>1, <2>5 DEF e
<1>13. \A e \in settled : Earned(e) /\ e.execution \in Executions /\ process[e.execution] = "done"
  BY DEF LoopSound, SettlementsAreAuthorized
<1> HIDE DEF Evidence
<1>14. \A e \in settled' : Earned(e) /\ e.execution \in Executions /\ process[e.execution] = "done"
  <2> HIDE DEF Earned
  <2> QED BY <1>1, <1>2, <1>12, <1>13
<1>15. /\ SettlementsAreAuthorized'
       /\ \A e \in settled' : e.execution \in Executions /\ process'[e.execution] = "done"
  BY <1>1, <1>14 DEF SettlementsAreAuthorized, treatment
<1>16. FileSound'
  BY <1>1 DEF LoopSound, FileSound, treatment
<1>17. \A n \in Executions : ProcessSound(n)'
  BY <1>1 DEF LoopSound, ProcessSound, ChoiceSound, OnRecord, treatment
<1> QED BY <1>11, <1>15, <1>16, <1>17 DEF LoopSound

-----------------------------------------------------------------------------
(* The theorems                                                            *)

LEMMA InitIsSound == Init => IInv
<1> SUFFICES ASSUME Init PROVE IInv
  OBVIOUS
<1>1. AcpTypeOK
  BY DEF Init, AcpInit, AcpTypeOK, Run
<1>2. AcpSound
  BY DEF Init, AcpInit, AcpSound, JobTrue, RunSound, Ended
<1>3. TypeOK
  BY <1>1 DEF Init, TypeOK
<1>4. ObservationSound /\ LoopSound
  BY DEF Init, ObservationSound, LoopSound, ProcessSound, FileSound, SettlementsAreAuthorized
<1> QED BY <1>2, <1>3, <1>4 DEF IInv

\* Engagements stay as they are while nothing is done about them.
LEMMA LoopStays ==
  ASSUME LoopSound, UNCHANGED decideVars
  PROVE  LoopSound'
<1>1. UNCHANGED <<process, chosen, decisions, file, settled>>
  BY DEF decideVars
<1>2. FileSound' /\ SettlementsAreAuthorized'
  BY <1>1 DEF LoopSound, FileSound, SettlementsAreAuthorized, treatment
<1>3. \A x \in Executions : ProcessSound(x)'
  BY <1>1 DEF LoopSound, ProcessSound, ChoiceSound, OnRecord, treatment
<1> QED BY <1>1, <1>2, <1>3 DEF LoopSound

LEMMA StepIsSound == IInv /\ [Next]_vars => IInv'
<1> SUFFICES ASSUME IInv, [Next]_vars PROVE IInv'
  OBVIOUS
<1>1. TypeOK /\ AcpTypeOK /\ AcpSound /\ ObservationSound /\ LoopSound
  BY DEF IInv, TypeOK
<1>2. CASE AcpNext /\ UNCHANGED loopVars
  <2>1. AcpTypeOK' /\ AcpSound' /\ JobsStay
    BY <1>1, <1>2, AcpStep
  <2>2. UNCHANGED observed /\ UNCHANGED decideVars
    BY <1>2 DEF loopVars
  <2>3. TypeOK'
    BY <1>1, <2>1, <2>2 DEF TypeOK, decideVars
  <2>4. ObservationSound' /\ LoopSound'
    BY <1>1, <2>1, <2>2, ObservationsStay, LoopStays
  <2> QED BY <2>1, <2>3, <2>4 DEF IInv
<1>3. ASSUME UNCHANGED acpVars
      PROVE  AcpSound' /\ (UNCHANGED observed => ObservationSound')
  BY <1>1, <1>3 DEF AcpSound, RecordTrue, JobTrue, RunSound, Agreed, ObservationSound, acpVars
<1>4. ASSUME NEW j \in Jobs, NEW status \in Status, NEW late \in BOOLEAN,
             IngestHistory(j, status, late)
      PROVE  IInv'
  <2>1. UNCHANGED acpVars /\ UNCHANGED decideVars
    BY <1>4 DEF IngestHistory
  <2> QED BY <1>1, <1>3, <1>4, <2>1, EvidenceStep, LoopStays DEF IInv
<1>5. ASSUME TypeOK', LoopSound', UNCHANGED acpVars, UNCHANGED observed
      PROVE  IInv'
  BY <1>3, <1>5 DEF IInv
<1>6. ASSUME NEW x \in Executions, NEW y \in Situations, NEW m \in Recallable, NEW score \in Scores,
             Decide(x, Choose(y, m, score))
      PROVE  IInv'
  <2>1. UNCHANGED acpVars /\ UNCHANGED observed
    BY <1>6 DEF Decide
  <2>2. eligibleOffers(y.context, y.offers) # {}
    BY <1>6 DEF Decide, Choose
  <2>3. Choose(y, m, score) \in Choice /\ ChoiceSound(Choose(y, m, score))
    BY <2>2, ChooseSound
  <2>4. TypeOK' /\ LoopSound'
    BY <1>1, <1>6, <2>3, DecideStep
  <2> QED BY <1>5, <2>1, <2>4
<1>7. ASSUME NEW x \in Executions,
             RecordDecision(x) \/ OpenIntent(x) \/ \E whole \in BOOLEAN : WriteIntent(x, whole)
      PROVE  IInv'
  <2>1. UNCHANGED acpVars /\ UNCHANGED observed
    BY <1>7 DEF RecordDecision, OpenIntent, WriteIntent
  <2>2. TypeOK' /\ LoopSound'
    BY <1>1, <1>7, RecordStep, WriteStep
  <2> QED BY <1>5, <2>1, <2>2
<1>8. ASSUME NEW t \in Transactions, NEW payer \in Addresses \cup {None}, Verify(t, payer)
      PROVE  IInv'
  <2>1. UNCHANGED acpVars /\ UNCHANGED observed
    BY <1>8 DEF Verify
  <2>2. TypeOK' /\ LoopSound'
    BY <1>1, <1>8, VerifyStep
  <2> QED BY <1>5, <2>1, <2>2
<1>9. CASE UNCHANGED vars
  <2>1. UNCHANGED acpVars /\ UNCHANGED observed /\ UNCHANGED decideVars
    BY <1>9 DEF vars, loopVars
  <2>2. TypeOK'
    BY <1>1, <2>1 DEF TypeOK, AcpTypeOK, acpVars, decideVars
  <2> QED BY <1>1, <1>5, <2>1, <2>2, LoopStays
<1> QED BY <1>2, <1>4, <1>6, <1>7, <1>8, <1>9 DEF Next

\* The invariant of the loop.
THEOREM Inductive == Spec => []IInv
<1>1. Init => IInv
  BY InitIsSound
<1>2. IInv /\ [Next]_vars => IInv'
  BY StepIsSound
<1> QED BY <1>1, <1>2, PTL DEF Spec

\* Jobs, records, choices, intents and evidence have their types: what is derived
\* from any decision is an intent, amounts included.
THEOREM TypeCorrect == Spec => []TypeOK
<1>1. IInv => TypeOK
  BY DEF IInv
<1> QED BY <1>1, Inductive, PTL

\* No job is opened for a plan nobody approved, whichever of the records it was
\* ever given a caller goes on from, and however often.
THEOREM JobsStayApproved == Spec => []JobsAreApproved
<1>1. IInv => JobsAreApproved
  BY AcpSoundGives DEF IInv
<1> QED BY <1>1, Inductive, PTL

\* What a run of the client reports has happened, wherever it failed.
THEOREM ReportsStayTrue == Spec => []RunReportsAreTrue
<1>1. IInv => RunReportsAreTrue
  BY AcpSoundGives DEF IInv
<1> QED BY <1>1, Inductive, PTL

\* What was observed of a job stays true of it, whatever becomes of the job.
THEOREM ObservationsStayTrue == Spec => []ObservationsAreTrue
<1>1. IInv => ObservationsAreTrue
  BY ObservationsHold DEF IInv
<1> QED BY <1>1, Inductive, PTL

\* A memory only ever makes an engagement safer, for any offers, budget and prices.
THEOREM InfluenceStaysGuarded == Spec => []InfluenceOnlyGuards
<1>1. IInv => InfluenceOnlyGuards
  <2> SUFFICES ASSUME IInv
               PROVE  InfluenceOnlyGuards
    OBVIOUS
  <2>1. \A x \in Executions : chosen[x] # None => chosen[x] \in Choice /\ ChoiceSound(chosen[x])
    BY DEF IInv, TypeOK, LoopSound, ProcessSound
  <2> QED BY <2>1, TreatmentType, InfluenceIsGuarded DEF InfluenceOnlyGuards
<1> QED BY <1>1, Inductive, PTL

\* Evidence of a settlement is of what an engagement allowed, for any receipts.
THEOREM SettlementsStayAuthorized == Spec => []SettlementsAreAuthorized
<1>1. IInv => SettlementsAreAuthorized
  BY DEF IInv, LoopSound
<1> QED BY <1>1, Inductive, PTL

\* No payment that a memory had a part in is evidenced before the decision that
\* cites the memory is on record, however processes write over each other's file.
THEOREM SettlementsStayAccounted == Spec => []SettlementsAreAccounted
<1>1. IInv => SettlementsAreAccounted
  <2> SUFFICES ASSUME IInv, NEW e \in settled, treatment(chosen[e.execution]).memoryRefs # {}
               PROVE  \E d \in decisions :
                        /\ d.execution = e.execution
                        /\ d.memoryRefs = treatment(chosen[e.execution]).memoryRefs
                        /\ e.recipient = Book[d.provider]
                        /\ e.amount = Prepay(d.terms.maxSpend, d.terms.prepayBps)
    BY DEF SettlementsAreAccounted
  <2> DEFINE made == treatment(chosen[e.execution])
             d == [ execution |-> e.execution, provider |-> made.provider,
                    terms |-> made.terms, memoryRefs |-> made.memoryRefs ]
  <2>1. /\ ProcessSound(e.execution) /\ process[e.execution] = "done"
        /\ e.recipient = Book[made.provider]
        /\ e.amount = Prepay(made.terms.maxSpend, made.terms.prepayBps)
    BY DEF IInv, LoopSound, SettlementsAreAuthorized
  <2>2. d \in decisions
    BY <2>1 DEF ProcessSound, OnRecord
  <2> QED BY <2>1, <2>2
<1> QED BY <1>1, Inductive, PTL

\* What is paid ahead is at most half the price agreed, up to the rounding of half an
\* atomic unit; and where a memory guards the engagement, it is at most a fifth of what
\* the same provider would have been paid ahead without the memory.
PaymentsAreBounded ==
  \A e \in settled :
    LET made == treatment(chosen[e.execution])
        without == control(chosen[e.execution])
    IN  /\ 2 * (e.amount * Fine) <= made.terms.maxSpend + Fine \div 2
        /\ made.terms.milestone =>
             /\ made.memoryRefs # {} /\ made.provider = without.provider
             /\ 5 * e.amount <= Prepay(without.terms.maxSpend, without.terms.prepayBps)

\* A prepaid share is at most half of the price, up to rounding, and the share paid
\* against a milestone at most a fifth of the one paid without.
LEMMA Shares ==
  ASSUME NEW usd \in Nat, NEW bps \in Share
  PROVE  /\ 2 * (Prepay(usd, bps) * Fine) <= usd + Fine \div 2
         /\ 5 * Prepay(usd, 1000) <= Prepay(usd, 5000)
<1>1. Scaled(usd) \in Nat /\ Prepay(usd, bps) \in Nat /\ Fine \in Nat \ {0}
  BY PrepayBounds, SettlementAssumption
<1>2. \A a \in Nat : /\ 2 * ((a * 1000) \div 10000) <= a /\ 2 * ((a * 5000) \div 10000) <= a
                     /\ 5 * ((a * 1000) \div 10000) <= (a * 5000) \div 10000
  BY SMT
<1>3. 2 * Prepay(usd, bps) <= Scaled(usd) /\ 5 * Prepay(usd, 1000) <= Prepay(usd, 5000)
  BY <1>1, <1>2, SMT DEF Prepay, usdToUsdcAtomic, Share
<1>4. Scaled(usd) * Fine <= usd + Fine \div 2
  <2>1. \A a \in Nat, f \in Nat \ {0} : (a \div f) * f <= a
    BY SMT
  <2>2. usd + Fine \div 2 \in Nat
    BY <1>1
  <2> QED BY <1>1, <2>1, <2>2 DEF Scaled
<1>5. 2 * (Prepay(usd, bps) * Fine) <= Scaled(usd) * Fine
  <2>1. \A p, s, f \in Nat : 2 * p <= s => 2 * (p * f) <= s * f
    <3>1. \A p, s, f \in Nat : p <= s => p * f <= s * f
      OBVIOUS
    <3> QED BY <3>1
  <2> QED BY <1>1, <1>3, <2>1
<1>6. Fine \div 2 \in Nat /\ Prepay(usd, bps) * Fine \in Nat /\ Scaled(usd) * Fine \in Nat
  BY <1>1
<1> QED BY <1>3, <1>4, <1>5, <1>6

\* Every payment made ahead keeps both bounds, for any offers, memories, prices and receipts.
THEOREM PaymentsStayBounded == Spec => []PaymentsAreBounded
<1>1. ASSUME IInv, NEW e \in settled
      PROVE  LET made == treatment(chosen[e.execution])
                 without == control(chosen[e.execution])
             IN  /\ 2 * (e.amount * Fine) <= made.terms.maxSpend + Fine \div 2
                 /\ made.terms.milestone =>
                      /\ made.memoryRefs # {} /\ made.provider = without.provider
                      /\ 5 * e.amount <= Prepay(without.terms.maxSpend, without.terms.prepayBps)
  <2> DEFINE choice == chosen[e.execution]
             offers == choice.offers
             eligible == eligibleOffers(choice.context, offers)
             baseline == offers[FirstOf(offers, eligible)]
             other == [provider |-> baseline.provider, terms |-> terms(baseline.price, FALSE)]
             made == treatment(choice)
             without == control(choice)
  <2>1. choice \in Choice /\ ChoiceSound(choice)
    BY <1>1 DEF IInv, TypeOK, LoopSound, ProcessSound, SettlementsAreAuthorized
  <2>2. e.amount = Prepay(made.terms.maxSpend, made.terms.prepayBps)
    BY <1>1 DEF IInv, LoopSound, SettlementsAreAuthorized
  <2>3. /\ choice.context \in Context /\ offers \in Seq(Offer) /\ eligible # {}
        /\ choice.memory \in Relationship \cup {None}
    BY <2>1 DEF Choice, ChoiceSound
  <2>4. without = Engage(baseline, FALSE, {}, None)
    BY <2>3, Control DEF control
  <2>5. /\ baseline \in Offer /\ baseline.price <= choice.context.budget
        /\ \/ made = Engage(baseline, FALSE, {}, None)
           \/ /\ choice.memory # None /\ choice.memory.provider = baseline.provider
              /\ \/ made = Engage(baseline, TRUE, {choice.memory.id}, other)
                 \/ /\ choice.context.urgency = "URGENT"
                    /\ \E m \in eligible :
                         /\ offers[m] \in Offer /\ offers[m].price <= choice.context.budget
                         /\ offers[m].provider # choice.memory.provider
                         /\ made = Engage(offers[m], FALSE, {choice.memory.id}, other)
    BY <2>3, WhatIsDecided DEF treatment
  <2> HIDE DEF choice, offers, eligible, baseline, other, made, without
  <2>6. /\ baseline \in Offer
        /\ \/ made = Engage(baseline, FALSE, {}, None)
           \/ made = Engage(baseline, TRUE, {choice.memory.id}, other)
           \/ \E m \in eligible : /\ offers[m] \in Offer
                                  /\ made = Engage(offers[m], FALSE, {choice.memory.id}, other)
    BY <2>5
  <2>7. ASSUME NEW o \in Offer, NEW refs, NEW against, made = Engage(o, FALSE, refs, against)
        PROVE  /\ made.terms.maxSpend \in Nat /\ made.terms.prepayBps \in Share
               /\ ~made.terms.milestone
    BY <2>7 DEF Engage, terms, Offer, Share
  <2>8. ASSUME made = Engage(baseline, TRUE, {choice.memory.id}, other)
        PROVE  /\ made.terms.maxSpend \in Nat /\ made.terms.prepayBps \in Share
               /\ made.memoryRefs # {} /\ made.provider = without.provider
               /\ 5 * e.amount <= Prepay(without.terms.maxSpend, without.terms.prepayBps)
    <3>1. /\ made.terms.maxSpend = baseline.price /\ made.terms.prepayBps = 1000
          /\ made.memoryRefs = {choice.memory.id} /\ made.provider = baseline.provider
      BY <2>8 DEF Engage, terms
    <3>2. /\ without.terms.maxSpend = baseline.price /\ without.terms.prepayBps = 5000
          /\ without.provider = baseline.provider
      BY <2>4 DEF Engage, terms
    <3>3. baseline.price \in Nat /\ 1000 \in Share
      BY <2>6 DEF Offer, Share
    <3> QED BY <2>2, <3>1, <3>2, <3>3, Shares
  <2>9. made.terms.maxSpend \in Nat /\ made.terms.prepayBps \in Share
    BY <2>6, <2>7, <2>8
  <2>10. 2 * (e.amount * Fine) <= made.terms.maxSpend + Fine \div 2
    BY <2>2, <2>9, Shares
  <2>11. made.terms.milestone => made = Engage(baseline, TRUE, {choice.memory.id}, other)
    BY <2>6, <2>7
  <2> QED BY <2>8, <2>10, <2>11 DEF made, without, choice
<1>2. IInv => PaymentsAreBounded
  BY <1>1 DEF PaymentsAreBounded
<1> QED BY <1>2, Inductive, PTL

\* Whatever is whole in the intent file is what the verifier takes: parsing it
\* again never finds terms that disagree with each other.
THEOREM IntentsParse ==
  Spec => [](file \notin {None, Torn} => parseSerializedBaseSettlementIntent(file))
<1>1. IInv => (file \notin {None, Torn} => parseSerializedBaseSettlementIntent(file))
  <2> SUFFICES ASSUME IInv, file \notin {None, Torn}
               PROVE  parseSerializedBaseSettlementIntent(file)
    OBVIOUS
  <2> DEFINE d == treatment(chosen[file.execution])
             x == file.execution
  <2>1. MayDerive(d, Book) /\ file = deriveBaseSettlementIntent(d, Book, x)
    BY DEF IInv, LoopSound, FileSound, ProcessSound
  <2> HIDE DEF d, x
  <2>2. assertSerializedTermsConsistent(file.terms)
    <3>1. file.terms = settlementTerms(d.terms) /\ Representable(d.terms.maxSpend)
      BY <2>1 DEF deriveBaseSettlementIntent, MayDerive
    <3> QED BY <3>1, DerivedTermsConsistent
  <2>3. ASSUME file.counterfactual # None
        PROVE  assertSerializedTermsConsistent(file.counterfactual.terms)
    <3>1. d.counterfactual # None
      BY <2>1, <2>3 DEF deriveBaseSettlementIntent
    <3>2. /\ file.counterfactual.terms = settlementTerms(d.counterfactual.terms)
          /\ Representable(d.counterfactual.terms.maxSpend)
      BY <2>1, <3>1 DEF deriveBaseSettlementIntent, MayDerive
    <3> QED BY <3>2, DerivedTermsConsistent
  <2> QED BY <2>2, <2>3 DEF parseSerializedBaseSettlementIntent
<1> QED BY <1>1, Inductive, PTL

=============================================================================
