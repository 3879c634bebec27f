--------------------------- MODULE AcpOrchestration ---------------------------
(***************************************************************************)
(* A paid job on the Virtuals marketplace, from a plan over a frozen       *)
(* catalogue to its observed end.  There are two ways to one:              *)
(*                                                                         *)
(*  - records: plain values that functions take and return.  Whoever calls *)
(*    them keeps the values, may go on from any it has ever been given, and *)
(*    says itself what has become of a job;                                *)
(*  - a run of the continuous client: one process that opens a job, pays   *)
(*    for it and watches it until it ends or a deadline passes.            *)
(*                                                                         *)
(* The marketplace is external.                                            *)
(***************************************************************************)
EXTENDS Integers, Sequences, FiniteSets

CONSTANTS
  NoJob,
  Runs,        \* runs of the continuous client
  Jobs,        \* ids the marketplace gives
  Catalog,     \* the frozen candidates, a sequence
  Contracts,   \* candidate lists a contract may state
  Snapshot,    \* digest and manifest of the frozen catalogue
  Plans,       \* plans callers may make
  Ceiling,     \* the most a plan may spend: 0.03 USDC
  Decided      \* the plan of the frozen decision the client carries out

Candidate == [key : STRING, offering : STRING, price : Nat, sla : Nat]
Plan == [ arm : {"A0", "A2"}, candidate : Candidate, spend : Nat, latency : Nat,
          snapshot : {Snapshot, "other"} ]
State == {"A0_PREPARED", "A0_AUTHORIZED", "A0_JOB_CREATED", "A0_FUNDED", "A0_TERMINAL",
          "A0_INGESTED"}
Record == [state : State, plan : Plan, job : Jobs \cup {NoJob}, sideEffect : BOOLEAN]
Ended == {"completed", "rejected", "expired"}
Job == [ plan : Plan, by : Runs \cup {"caller"}, paid : BOOLEAN,
         status : {"open", "funded"} \cup Ended ]
Run == [ at : {"idle", "started", "verified", "created", "funded", "final", "failed"},
         job : Jobs \cup {NoJob}, funded : BOOLEAN,
         seen : {"open", "funded", "nothing"} \cup Ended ]

ASSUME AcpAssumption ==
  /\ Plans \subseteq Plan /\ Decided \in Plan /\ Ceiling \in Nat
  /\ Catalog \in Seq(Candidate) /\ Contracts \subseteq Seq(Candidate)
  /\ NoJob \notin Jobs /\ NoJob \notin Job /\ "caller" \notin Runs

VARIABLES
  records,   \* every record that has been given to a caller
  approved,  \* plans somebody has approved
  run,       \* [Runs -> what the client has to report]
  job        \* external: [Jobs -> the marketplace's jobs]

acpVars == <<records, approved, run, job>>

AcpInit ==
  /\ records = {}
  /\ approved = {}
  /\ run = [r \in Runs |-> [at |-> "idle", job |-> NoJob, funded |-> FALSE, seen |-> "nothing"]]
  /\ job = [j \in Jobs |-> NoJob]

AcpTypeOK ==
  /\ records \subseteq Record
  /\ approved \subseteq Plan
  /\ run \in [Runs -> Run]
  /\ job \in [Jobs -> Job \cup {NoJob}]

-----------------------------------------------------------------------------
(* Records                                                                 *)

\* The place of the candidate that is frozen under a key: the last one.
Frozen(key) ==
  { m \in DOMAIN Catalog : /\ Catalog[m].key = key
                           /\ \A n \in DOMAIN Catalog : Catalog[n].key = key => n <= m }

\* Mutant: a candidate is looked up, and its price is not compared.
verifyFrozenAcpContract_AnyPrice(contract, plan) ==
  /\ Len(contract) = Cardinality({Catalog[n].key : n \in DOMAIN Catalog})
  /\ \A n \in DOMAIN contract :
       /\ contract[n].price <= plan.spend /\ contract[n].sla * 60 <= plan.latency
       /\ \E m \in Frozen(contract[n].key) : Catalog[m].offering = contract[n].offering

\* As many candidates as are frozen, each of them frozen and unchanged, cheap
\* and quick enough.  That they are all different is not asked.
verifyFrozenAcpContract(contract, plan) ==
  /\ Len(contract) = Cardinality({Catalog[n].key : n \in DOMAIN Catalog})
  /\ \A n \in DOMAIN contract :
       /\ contract[n].price <= plan.spend /\ contract[n].sla * 60 <= plan.latency
       /\ \E m \in Frozen(contract[n].key) : /\ Catalog[m].offering = contract[n].offering
                                             /\ Catalog[m].price = contract[n].price

prepareAcpExecution(plan) ==
  plan.snapshot = Snapshot /\ plan.spend <= Ceiling /\ plan.arm = "A0"

Give(r) == records' = records \cup {r}

\* The plan is for the first candidate of a contract that was verified.
PrepareAcpExecution(contract, plan) ==
  /\ verifyFrozenAcpContract(contract, plan)
  /\ contract # <<>> /\ plan.candidate = contract[1]
  /\ prepareAcpExecution(plan)
  /\ Give([state |-> "A0_PREPARED", plan |-> plan, job |-> NoJob, sideEffect |-> FALSE])
  /\ UNCHANGED <<approved, run, job>>

AuthorizeAcpExecution(r) ==
  /\ r.state = "A0_PREPARED"
  /\ approved' = approved \cup {r.plan}
  /\ Give([r EXCEPT !.state = "A0_AUTHORIZED"])
  /\ UNCHANGED <<run, job>>

Opened(plan, by) == [plan |-> plan, by |-> by, paid |-> FALSE, status |-> "open"]

\* External: a caller that holds an authorized record has a job opened.
OpenJob(r, j) ==
  /\ r.state = "A0_AUTHORIZED" /\ job[j] = NoJob
  /\ job' = [job EXCEPT ![j] = Opened(r.plan, "caller")]
  /\ UNCHANGED <<records, approved, run>>

\* The caller hands in an id; whose job that is, or whether there is one, is not
\* looked at.
CreateAcpJob(r, j) ==
  /\ r.state = "A0_AUTHORIZED"
  /\ Give([r EXCEPT !.state = "A0_JOB_CREATED", !.job = j, !.sideEffect = TRUE])
  /\ UNCHANGED <<approved, run, job>>

Pay(j) ==
  /\ job[j].status = "open"
  /\ job' = [job EXCEPT ![j].status = "funded", ![j].paid = TRUE]

\* External: a caller pays for a job that it had opened.
PayJob(j) ==
  /\ job[j] # NoJob /\ job[j].by = "caller"
  /\ Pay(j)
  /\ UNCHANGED <<records, approved, run>>

\* The caller hands in some receipt.
FundAcpJob(r) ==
  /\ r.state = "A0_JOB_CREATED"
  /\ Give([r EXCEPT !.state = "A0_FUNDED"])
  /\ UNCHANGED <<approved, run, job>>

\* The caller says that the job has ended.
ObserveAcpJob(r) ==
  /\ r.state = "A0_FUNDED"
  /\ Give([r EXCEPT !.state = "A0_TERMINAL"])
  /\ UNCHANGED <<approved, run, job>>

IngestAcpOutcome(r) ==
  /\ r.state = "A0_TERMINAL"
  /\ Give([r EXCEPT !.state = "A0_INGESTED"])
  /\ UNCHANGED <<approved, run, job>>

\* External: a paid job is done or refused, one that nobody pays for lapses.
EndJob(j, status) ==
  /\ job[j] # NoJob
  /\ \/ job[j].status = "funded" /\ status \in {"completed", "rejected"}
     \/ job[j].status = "open" /\ status = "expired"
  /\ job' = [job EXCEPT ![j].status = status]
  /\ UNCHANGED <<records, approved, run>>

-----------------------------------------------------------------------------
(* The continuous client.  It checks the frozen decision, goes through the *)
(* steps once, and writes what it has to report after each.                *)

StartRun(r) ==
  /\ run[r].at = "idle"
  /\ Decided.snapshot = Snapshot /\ Decided.spend <= Ceiling
  /\ run' = [run EXCEPT ![r].at = "started"]
  /\ UNCHANGED <<records, approved, job>>

\* The offering was found as it was when the decision was taken.
BrowseAgents(r) ==
  /\ run[r].at = "started"
  /\ run' = [run EXCEPT ![r].at = "verified"]
  /\ UNCHANGED <<records, approved, job>>

\* Mutant: it tries again.
CreateJobFromOffering_Again(r, j, heard) ==
  /\ run[r].at = "verified" /\ job[j] = NoJob
  /\ job' = [job EXCEPT ![j] = Opened(Decided, r)]
  /\ run' = [run EXCEPT ![r] = IF heard THEN [@ EXCEPT !.at = "created", !.job = j] ELSE @]
  /\ UNCHANGED <<records, approved>>

\* The marketplace opens a job; that it has may not be heard of.
CreateJobFromOffering(r, j, heard) ==
  /\ run[r].at = "verified" /\ job[j] = NoJob
  /\ job' = [job EXCEPT ![j] = Opened(Decided, r)]
  /\ run' = [run EXCEPT ![r] = IF heard THEN [@ EXCEPT !.at = "created", !.job = j]
                                        ELSE [@ EXCEPT !.at = "failed"]]
  /\ UNCHANGED <<records, approved>>

RefuseJob(r) ==
  /\ run[r].at = "verified"
  /\ run' = [run EXCEPT ![r].at = "failed"]
  /\ UNCHANGED <<records, approved, job>>

\* A job that is not open any more cannot be paid for.
Fund(r, heard) ==
  /\ run[r].at = "created"
  /\ \/ Decided.candidate.price <= Ceiling /\ Pay(run[r].job)
     \/ ~heard /\ job[run[r].job].status # "open" /\ UNCHANGED job
  /\ run' = [run EXCEPT ![r] = IF heard THEN [@ EXCEPT !.at = "funded", !.funded = TRUE]
                                        ELSE [@ EXCEPT !.at = "failed"]]
  /\ UNCHANGED <<records, approved>>

\* Mutant: there is no deadline.
Observe_NoDeadline(r, heard) ==
  /\ run[r].at = "funded" /\ job[run[r].job].status \in Ended
  /\ run' = [run EXCEPT ![r].at = IF heard THEN "final" ELSE "failed",
                       ![r].seen = job[run[r].job].status]
  /\ UNCHANGED <<records, approved, job>>

\* The last time it looks, as the job has ended or the deadline has passed; then
\* it fetches the history, and writes its last report.
Observe(r, heard) ==
  /\ run[r].at = "funded"
  /\ run' = [run EXCEPT ![r].at = IF heard THEN "final" ELSE "failed",
                       ![r].seen = job[run[r].job].status]
  /\ UNCHANGED <<records, approved, job>>

\* Anything may throw, which ends the run.
Fail(r) ==
  /\ run[r].at \in {"started", "verified", "created", "funded"}
  /\ run' = [run EXCEPT ![r].at = "failed"]
  /\ UNCHANGED <<records, approved, job>>

\* The steps of a run none of whose calls is lost: some are refused.
RunStep(r) ==
  \/ BrowseAgents(r)
  \/ \E j \in Jobs, heard \in BOOLEAN : CreateJobFromOffering(r, j, heard)
  \/ RefuseJob(r)
  \/ \E heard \in BOOLEAN : Fund(r, heard) \/ Observe(r, heard)

AcpNext ==
  \/ \E contract \in Contracts, plan \in Plans : PrepareAcpExecution(contract, plan)
  \/ \E r \in records :
       \/ AuthorizeAcpExecution(r)
       \/ \E j \in Jobs : OpenJob(r, j) \/ CreateAcpJob(r, j)
       \/ FundAcpJob(r) \/ ObserveAcpJob(r) \/ IngestAcpOutcome(r)
  \/ \E j \in Jobs : PayJob(j) \/ \E status \in Ended : EndJob(j, status)
  \/ \E r \in Runs : StartRun(r) \/ RunStep(r) \/ Fail(r)

\* A run is one process, each of whose calls returns or throws.
AcpFairness == \A r \in Runs : WF_acpVars(RunStep(r))

-----------------------------------------------------------------------------
(* Properties                                                              *)

\* Every job a caller had opened was for a plan somebody approved, within the
\* ceiling, for a candidate as it was frozen.
JobsAreApproved ==
  \A j \in Jobs : job[j] # NoJob /\ job[j].by = "caller" =>
    LET plan == job[j].plan
    IN  /\ plan \in approved
        /\ plan.candidate.price <= plan.spend /\ plan.spend <= Ceiling
        /\ \E n \in DOMAIN Catalog : /\ Catalog[n].key = plan.candidate.key
                                     /\ Catalog[n].offering = plan.candidate.offering
                                     /\ Catalog[n].price = plan.candidate.price

\* A run of the client opens one job at most, and what it reports has happened:
\* the job is its own, was paid for if it says so, and ended the way it says.
RunReportsAreTrue ==
  \A r \in Runs :
    /\ \A i, j \in Jobs : (job[i] # NoJob /\ job[j] # NoJob /\ job[i].by = r /\ job[j].by = r) => i = j
    /\ run[r].job # NoJob => job[run[r].job] # NoJob /\ job[run[r].job].by = r
    /\ run[r].funded => run[r].job # NoJob /\ job[run[r].job].paid
    /\ run[r].seen \in Ended => job[run[r].job].status = run[r].seen

\* Whatever the marketplace does, a run ends.
RunsEnd == \A r \in Runs : run[r].at = "started" ~> run[r].at \in {"final", "failed"}

=============================================================================
