---------------------------- MODULE SettlementTerms ----------------------------
(***************************************************************************)
(* From a provider decision to the amount of USDC that may be paid ahead,  *)
(* and from a receipt of the Base chain to evidence that it was paid.      *)
(*                                                                         *)
(* Amounts in USD are counted in parts of an atomic unit of USDC (Fine to  *)
(* the unit): the code has them as doubles and accepts one within          *)
(* Tolerance parts of a whole unit.                                        *)
(***************************************************************************)
EXTENDS ProviderContinuity

CONSTANTS
  Fine,        \* 1000: nano-dollars to an atomic unit
  Tolerance,   \* 1
  Addresses,   \* well-formed addresses
  Transactions

ASSUME SettlementAssumption ==
  /\ Fine \in Nat \ {0} /\ Tolerance \in Nat
  /\ None \notin Addresses

\* What is left of a dollar, in atomic units.
Micro == {n \in Nat : n < 1000000}

SettlementTerms ==
  [ maxSpend : Nat, prepayBps : 0..10000, prepay : Nat, prepayUsd : Nat \X Micro,
    milestone : BOOLEAN ]
Intent ==
  [ provider : ProviderId, recipient : Addresses, terms : SettlementTerms,
    memoryRefs : SUBSET Nat, execution : Nat,
    counterfactual : [provider : ProviderId, recipient : Addresses, terms : SettlementTerms]
                       \cup {None} ]
\* amount is None where the data of the log is not a number.
Log == [ usdc : BOOLEAN, transfer : BOOLEAN, from : Addresses, to : Addresses,
         amount : Nat \cup {None} ]
Receipt == [success : BOOLEAN, logs : Seq(Log)]

Scaled(usd) == (usd + Fine \div 2) \div Fine

\* Whether an amount can be turned into whole units; what is left over or
\* missing is at most Tolerance.
Representable(usd) ==
  /\ Scaled(usd) * Fine - usd <= Tolerance
  /\ usd - Scaled(usd) * Fine <= Tolerance

usdToUsdcAtomic(usd) == Scaled(usd)

usdcAtomicToDecimal(amount) == <<amount \div 1000000, amount % 1000000>>

Prepay(maxSpend, bps) == (usdToUsdcAtomic(maxSpend) * bps) \div 10000

settlementTerms(t) ==
  [ maxSpend |-> t.maxSpend, prepayBps |-> t.prepayBps,
    prepay |-> Prepay(t.maxSpend, t.prepayBps),
    prepayUsd |-> usdcAtomicToDecimal(Prepay(t.maxSpend, t.prepayBps)),
    milestone |-> t.milestone ]

\* What parsing a serialized intent checks of terms.
assertSerializedTermsConsistent(t) ==
  /\ Representable(t.maxSpend)
  /\ t.prepay = Prepay(t.maxSpend, t.prepayBps)
  /\ t.prepayUsd = usdcAtomicToDecimal(t.prepay)

parseSerializedBaseSettlementIntent(intent) ==
  /\ assertSerializedTermsConsistent(intent.terms)
  /\ intent.counterfactual # None =>
       assertSerializedTermsConsistent(intent.counterfactual.terms)

\* Deriving throws unless all amounts and addresses are in order.
MayDerive(decision, book) ==
  /\ Representable(decision.terms.maxSpend) /\ book[decision.provider] \in Addresses
  /\ decision.counterfactual # None =>
       /\ Representable(decision.counterfactual.terms.maxSpend)
       /\ book[decision.counterfactual.provider] \in Addresses

deriveBaseSettlementIntent(decision, book, execution) ==
  LET other == decision.counterfactual
  IN  [ provider |-> decision.provider, recipient |-> book[decision.provider],
        terms |-> settlementTerms(decision.terms), memoryRefs |-> decision.memoryRefs,
        execution |-> execution,
        counterfactual |->
          IF other = None THEN None
          ELSE [ provider |-> other.provider, recipient |-> book[other.provider],
                 terms |-> settlementTerms(other.terms) ] ]

\* The logs that are looked at as far as their amount.
Transfers(intent, receipt, payer) ==
  { n \in DOMAIN receipt.logs :
      LET log == receipt.logs[n]
      IN  log.usdc /\ log.transfer /\ log.to = intent.recipient /\ payer \in {None, log.from} }

\* Mutant: more than was authorized will do.
Matching_AtLeast(intent, receipt, payer) ==
  { n \in Transfers(intent, receipt, payer) :
      /\ receipt.logs[n].amount # None
      /\ receipt.logs[n].amount >= intent.terms.prepay }

\* The log that is found: the first whose amount is the one authorized, unless
\* one before it has data that is no number, which throws.
Matching(intent, receipt, payer) ==
  { n \in Transfers(intent, receipt, payer) :
      /\ receipt.logs[n].amount = intent.terms.prepay
      /\ \A m \in Transfers(intent, receipt, payer) :
           m < n => receipt.logs[m].amount \notin {None, intent.terms.prepay} }

verifyBaseSettlementReceipt(intent, receipt, payer) ==
  receipt.success /\ Matching(intent, receipt, payer) # {}

=============================================================================
