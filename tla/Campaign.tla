-------------------------------- MODULE Campaign --------------------------------
(***************************************************************************)
(* A campaign: the matched arms run again and again, one pair after        *)
(* another, each pair checkpointed to a file as it ends.  A process that   *)
(* was stopped is started again, reads the file and goes on with the pairs *)
(* that the file does not hold.  The file is appended to and never         *)
(* repaired.                                                               *)
(***************************************************************************)
EXTENDS BenchmarkArms

CONSTANTS
  None,         \* no summary yet
  Torn,         \* a line, or a summary, that does not parse
  Repetitions,  \* pairs to run
  Every,        \* a summary is written after so many
  MaxAttempts,  \* how often the adapter asks for one proposal
  Proposals,    \* what a model may propose
  Orders,       \* sequences of arms that a scenario may ask for
  MaxStarts     \* bound of the model: how often the process is started

ASSUME CampaignAssumption ==
  /\ Repetitions \in Nat \ {0} /\ Every \in Nat \ {0} /\ MaxAttempts \in Nat \ {0}
  /\ Proposals \subseteq Proposal /\ Orders \subseteq Seq(Arm) \ {<<>>}
  /\ MaxStarts \in Nat

VARIABLES
  setup,       \* the adapter and the arms of the scenario
  checkpoint,  \* the lines of the file, and whether its last line has no end
  summary,     \* what the last summary claims
  at,          \* what the process is at, "down" when there is none
  index,       \* the pair it is at
  known,       \* the pairs it read as completed when it started
  completedCount, errorCount,
  trials,      \* of this pair, so far
  attempt,     \* how often the adapter has asked for this arm
  starts

vars == << setup, checkpoint, summary, at, index, known, completedCount, errorCount, trials,
           attempt, starts >>
counts == << completedCount, errorCount >>

Pair == 1 .. Repetitions
Record == [kind : {"completed"}, pair : Pair, verdict : Verdict] \cup [kind : {"error"}, pair : Pair]

Summary == [completed : 0 .. Repetitions, errors : 0 .. Repetitions]

\* What is no record is no summary either.
ASSUME TornAssumption == Torn \notin Record /\ None \notin Summary /\ Torn \notin Summary

\* Lines without an end: what was cut short while it was written.
Empty == [lines |-> <<>>, open |-> FALSE]

Readable(file) == \A n \in DOMAIN file.lines : file.lines[n] # Torn

completed(file) ==
  {p \in Pair : \E n \in DOMAIN file.lines :
     /\ file.lines[n] # Torn
     /\ file.lines[n].kind = "completed" /\ file.lines[n].pair = p}

Init ==
  /\ setup \in [adapter : {"model", "rules"}, arms : Orders]
  /\ checkpoint = Empty /\ summary = None /\ at = "down" /\ index = 0 /\ known = {}
  /\ completedCount = 0 /\ errorCount = 0 /\ trials = <<>> /\ attempt = 0 /\ starts = 0

-----------------------------------------------------------------------------
(* The file                                                                *)

\* How much of a line reaches the file.
Extent == {"nothing", "part", "all but its end", "all"}

\* What is written after a line without an end becomes part of that line.
appendCampaignRecord(file, record, extent) ==
  LET line == IF file.open \/ extent = "part" THEN Torn ELSE record
      before == IF file.open THEN SubSeq(file.lines, 1, Len(file.lines) - 1) ELSE file.lines
  IN  IF extent = "nothing" THEN file
      ELSE [lines |-> Append(before, line), open |-> extent # "all"]

-----------------------------------------------------------------------------
(* The process                                                             *)

\* Mutant: every pair is run in every start.
readCompletedPairIds_None == {}

\* A line that does not parse is an error, and nothing is run.
readCompletedPairIds == completed(checkpoint)

\* Mutant: lines that do not parse are dropped.
Start_Repaired ==
  /\ at = "down" /\ starts < MaxStarts
  /\ checkpoint' = [ lines |-> SelectSeq(checkpoint.lines, LAMBDA line : line # Torn),
                     open |-> FALSE ]
  /\ starts' = starts + 1 /\ at' = "next" /\ index' = 0
  /\ known' = readCompletedPairIds
  /\ completedCount' = Cardinality(readCompletedPairIds) /\ errorCount' = 0
  /\ UNCHANGED << setup, summary, trials, attempt >>

Start ==
  /\ at = "down" /\ starts < MaxStarts /\ Readable(checkpoint)
  /\ starts' = starts + 1 /\ at' = "next" /\ index' = 0
  /\ known' = readCompletedPairIds
  /\ completedCount' = Cardinality(readCompletedPairIds) /\ errorCount' = 0
  /\ UNCHANGED << setup, checkpoint, summary, trials, attempt >>

\* The next pair that was not completed when the process started.
NextPair ==
  /\ at = "next" /\ \E p \in Pair : p > index /\ p \notin known
  /\ index' = CHOOSE p \in Pair : /\ p > index /\ p \notin known
                                  /\ \A q \in Pair : q > index /\ q \notin known => p <= q
  /\ at' = "asking" /\ trials' = <<>> /\ attempt' = 1
  /\ UNCHANGED << setup, checkpoint, summary, known, counts, starts >>

End ==
  /\ at = "next" /\ \A p \in Pair : p > index => p \in known
  /\ at' = "down" /\ trials' = <<>> /\ attempt' = 0
  /\ UNCHANGED << setup, checkpoint, summary, index, known, counts, starts >>

arm == setup.arms[Len(trials) + 1]

\* The adapter has answered for one arm.
Propose(p) ==
  /\ at = "asking"
  /\ p \in IF setup.adapter = "rules" THEN {deterministicProposal(arm)} ELSE Proposals
  /\ trials' = Append(trials, runArm(arm, p)) /\ attempt' = 1
  /\ at' = IF Len(trials') < Len(setup.arms) THEN "asking" ELSE "judging"
  /\ UNCHANGED << setup, checkpoint, summary, index, known, counts, starts >>

\* Mutant: it asks for ever.
Degenerate_Unbounded ==
  /\ at = "asking" /\ setup.adapter = "model" /\ attempt' = attempt + 1 /\ at' = at
  /\ UNCHANGED << setup, checkpoint, summary, index, known, counts, trials, starts >>

\* The reply was no JSON object: the adapter asks once more, while it may.
Degenerate ==
  /\ at = "asking" /\ setup.adapter = "model"
  /\ IF attempt < MaxAttempts THEN attempt' = attempt + 1 /\ at' = at
     ELSE attempt' = attempt /\ at' = "failing"
  /\ UNCHANGED << setup, checkpoint, summary, index, known, counts, trials, starts >>

\* Mutant: the time-out stands for the first question only.
Throw_FirstAttempt ==
  /\ at = "asking" /\ setup.adapter = "model" /\ attempt = 1 /\ at' = "failing"
  /\ UNCHANGED << setup, checkpoint, summary, index, known, counts, trials, attempt, starts >>

\* The endpoint failed, its reply had another shape, or the time-out of the arm,
\* which stands for all attempts, is over.  The rules answer before any timer.
Throw ==
  /\ at = "asking" /\ setup.adapter = "model" /\ at' = "failing"
  /\ UNCHANGED << setup, checkpoint, summary, index, known, counts, trials, attempt, starts >>

\* The first trial of an arm.
The(name) ==
  trials[CHOOSE n \in DOMAIN trials :
           trials[n].arm = name /\ \A m \in DOMAIN trials : trials[m].arm = name => n <= m]

Matched == \A name \in {"A0_NO_MEMORY", "A2_ENGRAM"} : \E n \in DOMAIN trials : trials[n].arm = name

\* A scenario without the control or the treatment is refused after its arms.
Judge ==
  /\ at = "judging" /\ at' = IF Matched THEN "recording" ELSE "failing"
  /\ UNCHANGED << setup, checkpoint, summary, index, known, counts, trials, attempt, starts >>

Completed ==
  [ kind |-> "completed", pair |-> index,
    verdict |-> compareControlAndEngram(The("A0_NO_MEMORY"), The("A2_ENGRAM")) ]

\* Mutant: the pair is counted although the file may not hold it.
RecordCompleted_Counted(extent, fails) ==
  /\ at = "recording" /\ (extent = "all" \/ fails)
  /\ checkpoint' = appendCampaignRecord(checkpoint, Completed, extent)
  /\ at' = "reporting" /\ completedCount' = completedCount + 1 /\ UNCHANGED errorCount
  /\ trials' = <<>> /\ attempt' = 0
  /\ UNCHANGED << setup, summary, index, known, starts >>

\* An append that fails, after whatever part of it, makes the pair an error.
RecordCompleted(extent, fails) ==
  /\ at = "recording" /\ (extent = "all" \/ fails)
  /\ checkpoint' = appendCampaignRecord(checkpoint, Completed, extent)
  /\ IF fails THEN at' = "failing" /\ UNCHANGED counts
     ELSE at' = "reporting" /\ completedCount' = completedCount + 1 /\ UNCHANGED errorCount
  /\ trials' = <<>> /\ attempt' = 0
  /\ UNCHANGED << setup, summary, index, known, starts >>

\* An error that cannot be appended ends the process.
RecordError(extent, fails) ==
  /\ at = "failing" /\ (extent = "all" \/ fails)
  /\ checkpoint' = appendCampaignRecord(checkpoint, [kind |-> "error", pair |-> index], extent)
  /\ IF fails THEN at' = "down" /\ UNCHANGED counts
     ELSE at' = "reporting" /\ errorCount' = errorCount + 1 /\ UNCHANGED completedCount
  /\ trials' = <<>> /\ attempt' = 0
  /\ UNCHANGED << setup, summary, index, known, starts >>

Due ==
  LET n == completedCount + errorCount IN n % Every = 0 \/ n = Repetitions

Report ==
  /\ at = "reporting" /\ at' = "next"
  /\ summary' = IF Due THEN [completed |-> completedCount, errors |-> errorCount] ELSE summary
  /\ UNCHANGED << setup, checkpoint, index, known, counts, trials, attempt, starts >>

\* Wherever the process is, it may be stopped, and where it writes the summary a
\* failure stops it too; what it was writing is then cut.
Crash(extent) ==
  /\ at # "down" /\ at' = "down" /\ trials' = <<>> /\ attempt' = 0
  /\ checkpoint' =
       CASE at = "recording" -> appendCampaignRecord(checkpoint, Completed, extent)
         [] at = "failing" ->
              appendCampaignRecord(checkpoint, [kind |-> "error", pair |-> index], extent)
         [] OTHER -> checkpoint
  /\ summary' = IF at # "reporting" \/ ~Due \/ extent = "nothing" THEN summary
                ELSE IF extent = "part" THEN Torn
                ELSE [completed |-> completedCount, errors |-> errorCount]
  /\ UNCHANGED << setup, index, known, counts, starts >>

-----------------------------------------------------------------------------
Process ==
  \/ NextPair \/ End \/ Degenerate \/ Throw \/ Judge \/ Report
  \/ \E p \in Proposals \cup {deterministicProposal(name) : name \in Arm} : Propose(p)
  \/ \E extent \in Extent, fails \in BOOLEAN :
       RecordCompleted(extent, fails) \/ RecordError(extent, fails)

Next == Start \/ Process \/ \E extent \in Extent : Crash(extent)

\* The process goes on with what it is at.  It answers for nothing but its timer
\* where a model is asked, and the rules answer at once.
Fairness ==
  /\ WF_vars(NextPair \/ End \/ Judge \/ Report)
  /\ WF_vars(Throw)
  /\ WF_vars(setup.adapter = "rules" /\ Propose(deterministicProposal(arm)))
  /\ WF_vars(\E extent \in Extent, fails \in BOOLEAN :
               RecordCompleted(extent, fails) \/ RecordError(extent, fails))

Spec == Init /\ [][Next]_vars /\ Fairness

-----------------------------------------------------------------------------
(* Properties                                                              *)

\* Every variable holds a value of its kind; no question is asked more often than
\* the adapter may.
TypeOK ==
  /\ setup \in [adapter : {"model", "rules"}, arms : Orders]
  /\ checkpoint \in [lines : Seq(Record \cup {Torn}), open : BOOLEAN]
  /\ summary \in Summary \cup {None, Torn}
  /\ at \in {"down", "next", "asking", "judging", "recording", "failing", "reporting"}
  /\ index \in 0 .. Repetitions /\ known \in SUBSET Pair
  /\ completedCount \in 0 .. Repetitions /\ errorCount \in 0 .. Repetitions
  /\ trials \in Seq(Trial) /\ Len(trials) <= Len(setup.arms)
  /\ attempt \in 0 .. MaxAttempts /\ starts \in 0 .. MaxStarts

\* Whatever a model proposes, an effect of memory reaches execution on the arm of
\* Engram alone, within what its grant allows and not against what it denies; a
\* refused proposal leaves the fallback, which is the same on every arm, and counts
\* as uninfluenced.
InfluenceIsGranted ==
  \A n \in DOMAIN trials : LET t == trials[n] IN
    /\ t.exercised # {} =>
         /\ t.arm = "A2_ENGRAM" /\ t.influenced
         /\ t.exercised \subseteq Fixture["A2_ENGRAM"].allowed \ Fixture["A2_ENGRAM"].denied
    /\ t.authorization # "AUTHORIZED" =>
         t.action = deterministicFallbackAction /\ ~t.influenced

\* The adapter without a model never asks for more than it was granted, and away
\* from the arm of Engram it does what the control does: what a pair shows under it
\* is owed to the granted memory alone.
RulesStayWithinGrants ==
  setup.adapter = "rules" /\ Fixture["A2_ENGRAM"].allowed \cap Fixture["A2_ENGRAM"].denied = {}
  => \A n \in DOMAIN trials : LET t == trials[n] IN
       /\ t.authorization = "AUTHORIZED"
       /\ t.arm # "A2_ENGRAM" => t.action = deterministicFallbackAction /\ ~t.influenced

IsCompleted(line) == line # Torn /\ line.kind = "completed"

\* However often the process is stopped and started, the checkpoint never holds two
\* completed runs of one pair.
NoPairTwice ==
  \A m, n \in DOMAIN checkpoint.lines :
    /\ IsCompleted(checkpoint.lines[m]) /\ IsCompleted(checkpoint.lines[n])
    /\ checkpoint.lines[m].pair = checkpoint.lines[n].pair
    => m = n

\* While the file can be read, it holds what the process and the summary claim as
\* completed, and a line of every pair that the process has passed.
FileHoldsClaims ==
  Readable(checkpoint) =>
    /\ completedCount <= Cardinality(completed(checkpoint))
    /\ summary \in Summary => summary.completed <= Cardinality(completed(checkpoint))
    /\ at \in {"next", "reporting"} =>
         \A p \in 1 .. index : \E n \in DOMAIN checkpoint.lines : checkpoint.lines[n].pair = p

\* No step loses a completed pair from a file that can still be read, and none makes
\* a file readable again.
CheckpointOnlyGrows ==
  [][Readable(checkpoint)' =>
       Readable(checkpoint) /\ completed(checkpoint) \subseteq completed(checkpoint)']_vars

\* A process that was started ends, though a model may never answer.
CampaignEnds == at # "down" ~> at = "down"

=============================================================================
