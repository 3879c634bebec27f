-------------------------------- MODULE MCCampaign --------------------------------
(* Two pairs of three arms, two or three starts, and proposals of every kind. *)
EXTENDS Campaign, TLC

MCCandidates == << [provider |-> "atlas", cost |-> 12, latency |-> 3060, risk |-> TRUE],
                   [provider |-> "beacon", cost |-> 16, latency |-> 1500, risk |-> FALSE] >>
Substitute(allowed, denied, from, to) ==
  [allowed |-> allowed, denied |-> denied, from |-> from, to |-> to]
MCFixture ==
  ( "A2_ENGRAM" :> Substitute({"PROVIDER_SUBSTITUTION", "PREPAYMENT_REDUCTION"}, {"BUDGET_INCREASE"},
                              "atlas", "beacon")
 @@ "A3_IRRELEVANT_MEMORY" :> Substitute({"PROVIDER_SUBSTITUTION"}, {}, "atlas", "beacon")
 @@ "A4_STALE_OR_CONTRADICTORY" :> Substitute({"PROVIDER_SUBSTITUTION"}, {}, "atlas", "beacon") )
Does(provider, terms, cites, effects) ==
  [action |-> [provider |-> provider, terms |-> terms], cites |-> cites, effects |-> effects]
MCProposals ==
  { Does("atlas", FALSE, FALSE, {}), Does("beacon", FALSE, TRUE, {}),
    Does("beacon", TRUE, TRUE, {"PROVIDER_SUBSTITUTION"}),
    Does("beacon", FALSE, FALSE, {"PROVIDER_SUBSTITUTION"}),
    Does("beacon", FALSE, TRUE, {"BUDGET_INCREASE"}), Does("nobody", FALSE, FALSE, {}) }
MCOrders == { <<"A0_NO_MEMORY", "A2_ENGRAM", "A3_IRRELEVANT_MEMORY">>,
              <<"A4_STALE_OR_CONTRADICTORY", "A2_ENGRAM", "A0_NO_MEMORY">>,
              <<"A0_NO_MEMORY", "A1_RAW_HISTORY">> }
=============================================================================
