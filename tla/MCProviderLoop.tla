----------------------------- MODULE MCProviderLoop -----------------------------
(* Two jobs, one run of the client, two deciding processes, three transactions. *)
EXTENDS ProviderLoop

CONSTANTS j1, j2, c1, t1, t2, t3, a, b, payer1, frozen

MCCatalog == << [key |-> "hermes", offering |-> "o1", price |-> 10, sla |-> 5],
                [key |-> "argus", offering |-> "o2", price |-> 20, sla |-> 5] >>
Changed == [MCCatalog[1] EXCEPT !.price = 30]
MCDecided == [ arm |-> "A0", candidate |-> MCCatalog[1], spend |-> 30, latency |-> 300,
               snapshot |-> frozen ]
MCPlans == { MCDecided, [MCDecided EXCEPT !.arm = "A2"], [MCDecided EXCEPT !.spend = 40],
             [MCDecided EXCEPT !.snapshot = "other"], [MCDecided EXCEPT !.candidate = Changed] }
MCContracts == { MCCatalog, <<MCCatalog[1]>>, <<Changed, MCCatalog[2]>>,
                 <<MCCatalog[1], MCCatalog[1]>> }
\* Prices are in tenths of an atomic unit: 2511 rounds down to 251, 3099 up to
\* 310, and 2555 is no amount of USDC.
MCOffers(atlas, beacon) ==
  << [provider |-> "beacon", price |-> 3600, latency |-> 10],
     [provider |-> "atlas", price |-> atlas, latency |-> 20],
     [provider |-> "beacon", price |-> beacon, latency |-> 18] >>
Asked(urgency, offers) ==
  [ context |-> [urgency |-> urgency, task |-> "data_fetch", budget |-> 3500, maxLatency |-> 30],
    offers |-> offers ]
MCSituations == { Asked("URGENT", MCOffers(2511, 3099)), Asked("ROUTINE", MCOffers(2511, 3099)),
                  Asked("URGENT", MCOffers(2555, 2600)) }
Remembers(id, failure) ==
  [ id |-> id, similar |-> TRUE, task |-> "data_fetch", provider |-> "atlas",
    failure |-> failure, confidence |-> 92, breaches |-> 2, sources |-> 3 ]
MCMemories == { Remembers(1, "SLA_BREACH"), Remembers(2, "JOB_REJECTED") }

MCBook == [p \in ProviderId |-> IF p = "atlas" THEN a ELSE b]
Paid(to, amount) == [usdc |-> TRUE, transfer |-> TRUE, from |-> payer1, to |-> to, amount |-> amount]
\* One pays both providers, after more than was asked; one pays ahead what a
\* guarded engagement lets be paid; one was reverted.
MCReceipts ==
  [ t \in Transactions |->
      [ success |-> t # t3,
        logs |-> IF t = t1 THEN << Paid(b, 200), Paid(a, 125), Paid(b, 155) >>
                 ELSE IF t = t2 THEN << [Paid(a, None) EXCEPT !.usdc = FALSE], Paid(a, 25) >>
                 ELSE << Paid(a, 125) >> ] ]

\* Jobs and engagements share no variable, and are explored one without the other.
OneWithoutTheOther ==
  \/ \A x \in Executions : process[x] = "idle"
  \/ records = {} /\ \A r \in Runs : run[r].at = "idle"
=============================================================================
