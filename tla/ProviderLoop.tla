----------------------------- MODULE ProviderLoop -----------------------------
(***************************************************************************)
(* What the economic adapters do: jobs on the marketplace become evidence; *)
(* a process that starts anew engages a provider with or without a memory  *)
(* of it, has the decision recorded, and writes a settlement intent to a   *)
(* file; and a verifier matches a transaction of the Base chain with the   *)
(* intent it finds in the file.                                            *)
(***************************************************************************)
EXTENDS AcpOrchestration, SettlementTerms

CONSTANTS
  Executions,  \* runs of the deciding process, each with an execution of its own
  Situations,  \* what they may be asked, and what they are offered
  Memories,    \* memories of providers that may have been consolidated
  Scores,      \* scores recall may give, in hundredths
  Book,        \* [ProviderId -> address]
  Torn,        \* what a file holds that was written in part
  Receipts     \* external: [Transactions -> the receipt the chain has]

Situation == [context : Context, offers : Seq(Offer)]
Choice == [context : Context, offers : Seq(Offer), memory : Relationship \cup {None}]
Status == {"open", "funded", "other"} \cup Ended
Failure == {"SLA_BREACH", "JOB_REJECTED", "JOB_EXPIRED", "UNKNOWN_FAILURE"}
Observation == [status : Status, failure : Failure \cup {None}]
Decision == [execution : Nat, provider : ProviderId, terms : Terms, memoryRefs : SUBSET Nat]
Settlement == [ execution : Nat, transaction : Transactions, payer : Addresses,
                recipient : Addresses, amount : Nat ]

ASSUME LoopAssumption ==
  /\ Executions \subseteq Nat /\ Situations \subseteq Situation
  /\ Memories \subseteq Relationship /\ Scores \subseteq 0..100
  /\ Book \in [ProviderId -> Addresses] /\ Receipts \in [Transactions -> Receipt]
  /\ None \notin Choice /\ None \notin Observation /\ None \notin Failure
  /\ None \notin Intent /\ Torn \notin Intent

VARIABLES
  observed,   \* [Jobs -> what an execution last observed of a job]
  process,    \* [Executions -> where the deciding process is]
  chosen,     \* [Executions -> the choice it was put to]
  decisions,  \* decisions on record
  file,       \* what the intent file holds
  settled     \* evidence that was put out

decideVars == <<process, chosen, decisions, file, settled>>
loopVars == <<observed, decideVars>>
vars == <<acpVars, loopVars>>

Init ==
  /\ AcpInit
  /\ observed = [j \in Jobs |-> None]
  /\ process = [x \in Executions |-> "idle"]
  /\ chosen = [x \in Executions |-> None]
  /\ decisions = {}
  /\ file = None
  /\ settled = {}

-----------------------------------------------------------------------------
(* Evidence                                                                *)

\* Mutant: a late job is a breach, whatever became of it.
failureType_LateFirst(status, late) ==
  IF late THEN "SLA_BREACH"
  ELSE IF status = "rejected" THEN "JOB_REJECTED"
  ELSE IF status = "expired" THEN "JOB_EXPIRED"
  ELSE IF status = "other" THEN "UNKNOWN_FAILURE" ELSE None

\* What a job's history is evidence of, if of a failure.
failureType(status, late) ==
  IF status = "rejected" THEN "JOB_REJECTED"
  ELSE IF status = "expired" THEN "JOB_EXPIRED"
  ELSE IF status = "other" THEN "UNKNOWN_FAILURE"
  ELSE IF late THEN "SLA_BREACH" ELSE None

\* A job's history is fetched, and an execution observes what it is evidence of,
\* late though that may be.  The status is told in a word that may not be known
\* here; when the job was started and completed is for the caller to say.
IngestHistory(j, status, late) ==
  /\ job[j] # NoJob /\ status \in {job[j].status, "other"}
  /\ observed' = [observed EXCEPT ![j] =
       [status |-> status, failure |-> failureType(status, late)]]
  /\ UNCHANGED <<acpVars, decideVars>>

-----------------------------------------------------------------------------
(* Decisions                                                               *)

treatment(choice) == decideProviderEngagement(choice.context, choice.offers, choice.memory)

control(choice) == decideProviderEngagement(choice.context, choice.offers, None)

\* What recall may find: nothing, or a memory.  The failure a memory is of is told
\* by whoever had it admitted, and compared with no observation.
Recallable == {None} \cup Memories

\* What a process in a situation decides upon: with the memory it recalled, with
\* a score, if that applies.
Choose(situation, m, score) ==
  [ context |-> situation.context, offers |-> situation.offers,
    memory |-> IF m # None /\ applicableRelationshipMemory(situation.context, m, score)
               THEN m ELSE None ]

\* Executions are numbered as they decide.  What cites no memory is not recorded.
\* The process may fail or crash after any step, and then takes no other.
Decide(x, choice) ==
  /\ process[x] = "idle" /\ \A n \in Executions : n < x => process[n] # "idle"
  /\ eligibleOffers(choice.context, choice.offers) # {}
  /\ chosen' = [chosen EXCEPT ![x] = choice]
  /\ process' = [process EXCEPT ![x] =
       IF treatment(choice).memoryRefs # {} THEN "recording" ELSE "decided"]
  /\ UNCHANGED <<acpVars, observed, decisions, file, settled>>

RecordDecision(x) ==
  /\ process[x] = "recording"
  /\ LET made == treatment(chosen[x])
     IN  decisions' = decisions \cup
           { [ execution |-> x, provider |-> made.provider, terms |-> made.terms,
               memoryRefs |-> made.memoryRefs ] }
  /\ process' = [process EXCEPT ![x] = "decided"]
  /\ UNCHANGED <<acpVars, observed, chosen, file, settled>>

\* Mutant: the intent is written while the decision is being recorded.
OpenIntent_Early(x) ==
  /\ process[x] \in {"recording", "decided"}
  /\ MayDerive(treatment(chosen[x]), Book)
  /\ file' = Torn
  /\ process' = [process EXCEPT ![x] = "writing"]
  /\ UNCHANGED <<acpVars, observed, chosen, decisions, settled>>

\* What cannot be derived is not written.  Opening the file empties it.
OpenIntent(x) ==
  /\ process[x] = "decided"
  /\ MayDerive(treatment(chosen[x]), Book)
  /\ file' = Torn
  /\ process' = [process EXCEPT ![x] = "writing"]
  /\ UNCHANGED <<acpVars, observed, chosen, decisions, settled>>

\* The file is written whole, or in part, as it also is over what another
\* process wrote that is longer.
WriteIntent(x, whole) ==
  /\ process[x] = "writing"
  /\ file' = IF whole THEN deriveBaseSettlementIntent(treatment(chosen[x]), Book, x) ELSE Torn
  /\ process' = [process EXCEPT ![x] = "done"]
  /\ UNCHANGED <<acpVars, observed, chosen, decisions, settled>>

-----------------------------------------------------------------------------
(* Settlement                                                              *)

\* The verifier reads the file once; it throws unless everything is in order.
Verify(t, payer) ==
  /\ file \notin {None, Torn}
  /\ parseSerializedBaseSettlementIntent(file)
  /\ verifyBaseSettlementReceipt(file, Receipts[t], payer)
  /\ settled' = settled \cup
       { [ execution |-> file.execution, transaction |-> t, recipient |-> file.recipient,
           amount |-> file.terms.prepay, payer |-> Receipts[t].logs[n].from ] :
         n \in Matching(file, Receipts[t], payer) }
  /\ UNCHANGED <<acpVars, observed, process, chosen, decisions, file>>

Next ==
  \/ AcpNext /\ UNCHANGED loopVars
  \/ \E j \in Jobs, status \in Status, late \in BOOLEAN : IngestHistory(j, status, late)
  \/ \E x \in Executions :
       \/ \E y \in Situations, m \in Recallable, score \in Scores : Decide(x, Choose(y, m, score))
       \/ RecordDecision(x) \/ OpenIntent(x)
       \/ \E whole \in BOOLEAN : WriteIntent(x, whole)
  \/ \E t \in Transactions, payer \in Addresses \cup {None} : Verify(t, payer)

Spec == Init /\ [][Next]_vars /\ AcpFairness

-----------------------------------------------------------------------------
(* Properties                                                              *)

TypeOK ==
  /\ AcpTypeOK
  /\ observed \in [Jobs -> Observation \cup {None}]
  /\ process \in [Executions -> {"idle", "recording", "decided", "writing", "done"}]
  /\ decisions \subseteq Decision
  /\ chosen \in [Executions -> Choice \cup {None}]
  /\ file \in Intent \cup {None, Torn}
  /\ settled \subseteq Settlement

\* What an execution observed of a job holds of it for good, however late it was
\* observed: one called refused or lapsed was, and one that was is never called
\* late or in order, except by an observation from before it ended.
ObservationsAreTrue ==
  \A j \in Jobs : observed[j] # None =>
    LET saw == observed[j]
    IN  /\ saw.failure = "JOB_REJECTED" => job[j].status = "rejected"
        /\ saw.failure = "JOB_EXPIRED" => job[j].status = "expired"
        /\ saw.failure \in {None, "SLA_BREACH"} /\ job[j].status \in {"rejected", "expired"} =>
             saw.status \in {"open", "funded"}

\* A memory never makes an agent pay more ahead to a provider it would have
\* engaged anyway, and makes it ask for a milestone; it moves the agent from a
\* provider only in an urgent task, and only from the one it is about; it
\* never makes an engagement fail that would not have failed.  A decision that
\* cites no memory is the one taken without memory.
InfluenceOnlyGuards ==
  \A x \in Executions : chosen[x] # None =>
    LET made == treatment(chosen[x])
        without == control(chosen[x])
    IN  /\ made.terms.maxSpend <= chosen[x].context.budget
        /\ made.memoryRefs = {} => made = without
        /\ made.memoryRefs # {} =>
             /\ made.counterfactual = [provider |-> without.provider, terms |-> without.terms]
             /\ without.provider = chosen[x].memory.provider
             /\ IF made.provider = without.provider
                THEN /\ made.terms.milestone /\ made.terms.maxSpend = without.terms.maxSpend
                     /\ Prepay(made.terms.maxSpend, made.terms.prepayBps)
                          <= Prepay(without.terms.maxSpend, without.terms.prepayBps)
                ELSE chosen[x].context.urgency = "URGENT"
             /\ executeProviderEngagement(made, chosen[x].context) = "FAILURE" =>
                  executeProviderEngagement(without, chosen[x].context) = "FAILURE"

\* A payment that a memory had a part in is accounted for: the decision is on record
\* with the memory it cites, and is to pay what was paid to whom it was paid.
SettlementsAreAccounted ==
  \A e \in settled :
    LET made == treatment(chosen[e.execution])
    IN  made.memoryRefs # {} =>
          \E d \in decisions :
            /\ d.execution = e.execution /\ d.memoryRefs = made.memoryRefs
            /\ e.recipient = Book[d.provider]
            /\ e.amount = Prepay(d.terms.maxSpend, d.terms.prepayBps)

\* Evidence of a settlement is evidence that the provider of an engagement was
\* paid, in a transaction that succeeded, what that engagement lets be paid
\* ahead, and that is within what the agent may spend.
SettlementsAreAuthorized ==
  \A e \in settled :
    /\ chosen[e.execution] # None
    /\ LET made == treatment(chosen[e.execution])
       IN  /\ e.recipient = Book[made.provider]
           /\ e.amount = Prepay(made.terms.maxSpend, made.terms.prepayBps)
           /\ e.amount * Fine <= chosen[e.execution].context.budget + Tolerance
    /\ Receipts[e.transaction].success
    /\ \E n \in DOMAIN Receipts[e.transaction].logs :
         LET log == Receipts[e.transaction].logs[n]
         IN  /\ log.usdc /\ log.transfer /\ log.to = e.recipient
             /\ log.from = e.payer /\ log.amount = e.amount

=============================================================================
