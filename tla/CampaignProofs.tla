---------------------------- MODULE CampaignProofs ----------------------------
(***************************************************************************)
(* Proofs about Campaign, for any number of pairs and starts, whatever a   *)
(* model proposes and wherever the process is stopped.                     *)
(***************************************************************************)
EXTENDS Campaign, FiniteSetTheorems, SequenceTheorems, WellFoundedInduction, TLAPS

(***************************************************************************)
(* The inductive invariant                                                 *)
(***************************************************************************)
File == [lines : Seq(Record \cup {Torn}), open : BOOLEAN]

\* While a pair is run, it is one that was not known as completed.
AtPair ==
  at \in {"asking", "judging", "recording", "failing", "reporting"} => index \in Pair \ known

\* A pair that the file holds as completed was known, or the process has passed it;
\* one that could not be appended without failure may be held all the same.
PassedOrKnown ==
  at # "down" => \A p \in completed(checkpoint) :
    p \in known \/ p < index \/ (p = index /\ at \in {"next", "failing", "reporting"})

\* The pairs the process has passed.
Passed == IF at \in {"next", "reporting"} THEN 1 .. index ELSE 1 .. (index - 1)

\* What is counted was known or passed.
Counted == at # "down" => completedCount + errorCount <= Cardinality(known \cup Passed)

HasLine(p) == \E n \in DOMAIN checkpoint.lines : checkpoint.lines[n].pair = p

\* While the file can be read it holds what is claimed, and a line of all passed.
Held ==
  Readable(checkpoint) =>
    /\ completedCount <= Cardinality(completed(checkpoint))
    /\ summary \in Summary => summary.completed <= Cardinality(completed(checkpoint))
    /\ at # "down" => known \subseteq completed(checkpoint) /\ \A p \in Passed : HasLine(p)

Asked == at = "asking" => Len(trials) < Len(setup.arms)

IInv ==
  /\ TypeOK /\ AtPair /\ PassedOrKnown /\ Counted /\ Held /\ Asked
  /\ NoPairTwice /\ InfluenceIsGranted /\ RulesStayWithinGrants

-----------------------------------------------------------------------------
(* Numbers and counts                                                      *)

\* A set of numbers has a least one.
LEMMA Least ==
  ASSUME NEW S, S \subseteq Nat, S # {}
  PROVE  \E n \in S : \A m \in S : n <= m
<1>1. PICK n \in S : \A m \in S : ~ (<<m, n>> \in OpToRel(<, Nat))
  BY NatLessThanWellFounded, WFMin
<1>2. \A m \in S : ~ (m < n)
  BY <1>1 DEF OpToRel
<1> QED BY <1>2

\* Sets of pairs are finite, and there are no more in one than there are to run.
LEMMA PairsCounted ==
  ASSUME NEW S \in SUBSET Pair
  PROVE  IsFiniteSet(S) /\ Cardinality(S) \in 0 .. Repetitions
<1>1. IsFiniteSet(Pair) /\ Cardinality(Pair) = Repetitions
  BY CampaignAssumption, FS_Interval DEF Pair
<1>2. IsFiniteSet(S) /\ Cardinality(S) <= Cardinality(Pair) /\ Cardinality(S) \in Nat
  BY <1>1, FS_Subset, FS_CardinalityType
<1> QED BY <1>1, <1>2, CampaignAssumption

LEMMA MorePairs ==
  ASSUME NEW S \in SUBSET Pair, NEW T \in SUBSET Pair, S \subseteq T
  PROVE  /\ Cardinality(S) <= Cardinality(T)
         /\ \A p \in T \ S : Cardinality(S) + 1 <= Cardinality(T)
<1>1. IsFiniteSet(T) /\ IsFiniteSet(S)
  BY PairsCounted
<1>2. Cardinality(S) <= Cardinality(T)
  BY <1>1, FS_Subset
<1>3. ASSUME NEW p \in T \ S
      PROVE  Cardinality(S) + 1 <= Cardinality(T)
  <2>1. Cardinality(S \cup {p}) = Cardinality(S) + 1
    BY <1>1, FS_AddElement
  <2>2. Cardinality(S \cup {p}) <= Cardinality(T)
    BY <1>1, FS_Subset
  <2> QED BY <2>1, <2>2
<1> QED BY <1>2, <1>3

-----------------------------------------------------------------------------
(* The file                                                                *)

\* The lines after an append are the lines before, but for the last where that had
\* no end, and the one appended, unless it was cut.
LEMMA AppendLines ==
  ASSUME NEW file \in File, NEW record \in Record, NEW extent \in Extent,
         NEW f, f = appendCampaignRecord(file, record, extent)
  PROVE  /\ f \in File
         /\ \A n \in DOMAIN f.lines : \/ f.lines[n] = Torn
                                      \/ n \in DOMAIN file.lines /\ f.lines[n] = file.lines[n]
                                      \/ n = Len(file.lines) + 1 /\ f.lines[n] = record
         /\ Readable(f) =>
              /\ \A n \in DOMAIN file.lines : n \in DOMAIN f.lines /\ f.lines[n] = file.lines[n]
              /\ extent = "all" => \E n \in DOMAIN f.lines : f.lines[n] = record
<1> DEFINE l == file.lines
           Line == Record \cup {Torn}
<1>1. l \in Seq(Line) /\ file.open \in BOOLEAN /\ Len(l) \in Nat /\ DOMAIN l = 1..Len(l)
  BY DEF File
<1>2. CASE extent = "nothing"
  <2>1. f = file
    BY <1>2 DEF appendCampaignRecord
  <2> QED BY <1>2, <2>1
<1>3. CASE extent # "nothing" /\ file.open
  <2> DEFINE b == SubSeq(l, 1, Len(l) - 1)
  <2>1. \A i \in 1 .. (Len(l) - 1) : l[i] \in Line
    BY <1>1
  <2>2. /\ b \in Seq(Line) /\ Len(b) = (IF 1 <= Len(l) - 1 THEN Len(l) - 1 - 1 + 1 ELSE 0)
        /\ \A i \in 1 .. (Len(l) - 1) - 1 + 1 : b[i] = l[1 + i - 1]
    BY <1>1, <2>1, SubSeqProperties, 1 \in Int, Len(l) - 1 \in Int
  <2>3. /\ Len(b) \in Nat /\ Len(b) <= Len(l) /\ \A i \in 1 .. Len(b) : b[i] = l[i]
    BY <1>1, <2>2
  <2> HIDE DEF b
  <2>4. f = [lines |-> Append(b, Torn), open |-> extent # "all"]
    BY <1>3 DEF appendCampaignRecord, b
  <2>5. /\ f.lines \in Seq(Line) /\ DOMAIN f.lines = 1 .. Len(b) + 1
        /\ f.lines[Len(b) + 1] = Torn /\ \A i \in 1 .. Len(b) : f.lines[i] = b[i]
    BY <2>2, <2>3, <2>4
  <2>6. f \in File
    BY <2>4, <2>5 DEF File
  <2>7. ~Readable(f)
    BY <2>3, <2>5 DEF Readable
  <2>8. \A n \in DOMAIN f.lines : f.lines[n] = Torn \/ (n \in DOMAIN l /\ f.lines[n] = l[n])
    <3> SUFFICES ASSUME NEW n \in 1 .. Len(b)
                 PROVE  n \in DOMAIN l /\ f.lines[n] = l[n]
      BY <2>3, <2>5
    <3> QED BY <1>1, <2>3, <2>5
  <2> QED BY <2>6, <2>7, <2>8
<1>4. CASE extent # "nothing" /\ ~file.open
  <2> DEFINE line == IF extent = "part" THEN Torn ELSE record
  <2>1. f = [lines |-> Append(l, line), open |-> extent # "all"]
    BY <1>4 DEF appendCampaignRecord
  <2>2. line \in Line
    OBVIOUS
  <2> HIDE DEF line
  <2>3. /\ f.lines \in Seq(Line) /\ DOMAIN f.lines = 1 .. Len(l) + 1
        /\ f.lines[Len(l) + 1] = line /\ \A i \in 1 .. Len(l) : f.lines[i] = l[i]
    BY <1>1, <2>1, <2>2
  <2>4. f \in File
    BY <2>1, <2>3 DEF File
  <2>5. line = Torn \/ line = record
    BY DEF line
  <2>6. \A n \in DOMAIN f.lines : \/ f.lines[n] = Torn
                                  \/ n \in DOMAIN l /\ f.lines[n] = l[n]
                                  \/ n = Len(l) + 1 /\ f.lines[n] = record
    BY <1>1, <2>3, <2>5
  <2>7. \A n \in DOMAIN l : n \in DOMAIN f.lines /\ f.lines[n] = l[n]
    BY <1>1, <2>3
  <2>8. extent = "all" => \E n \in DOMAIN f.lines : f.lines[n] = record
    <3>1. extent = "all" => line = record
      BY DEF line
    <3> QED BY <1>1, <2>3, <3>1
  <2> QED BY <2>4, <2>6, <2>7, <2>8
<1> QED BY <1>2, <1>3, <1>4

\* No file holds two completed runs of one pair.
OncePerPair(file) ==
  \A m, n \in DOMAIN file.lines :
    /\ IsCompleted(file.lines[m]) /\ IsCompleted(file.lines[n])
    /\ file.lines[m].pair = file.lines[n].pair
    => m = n

\* What an append does to what the file holds.
LEMMA AppendHolds ==
  ASSUME NEW file \in File, NEW record \in Record, NEW extent \in Extent,
         NEW f, f = appendCampaignRecord(file, record, extent)
  PROVE  /\ f \in File
         /\ completed(f) \subseteq completed(file) \cup {record.pair}
         /\ record.kind # "completed" => completed(f) \subseteq completed(file)
         /\ Readable(f) => Readable(file) /\ completed(file) \subseteq completed(f)
         /\ Readable(f) =>
              \A p : (\E n \in DOMAIN file.lines : file.lines[n].pair = p)
                      => \E n \in DOMAIN f.lines : f.lines[n].pair = p
         /\ Readable(f) /\ extent = "all" =>
              /\ \E n \in DOMAIN f.lines : f.lines[n].pair = record.pair
              /\ record.kind = "completed" => record.pair \in completed(f)
         /\ OncePerPair(file) /\ (record.kind = "completed" => record.pair \notin completed(file))
              => OncePerPair(f)
<1>1. f \in File
  BY AppendLines
<1>2. \A n \in DOMAIN f.lines : \/ f.lines[n] = Torn
                                \/ n \in DOMAIN file.lines /\ f.lines[n] = file.lines[n]
                                \/ n = Len(file.lines) + 1 /\ f.lines[n] = record
  BY AppendLines
<1>3. Readable(f) =>
        /\ \A n \in DOMAIN file.lines : n \in DOMAIN f.lines /\ f.lines[n] = file.lines[n]
        /\ extent = "all" => \E n \in DOMAIN f.lines : f.lines[n] = record
  BY AppendLines
<1>4. record \in Record /\ record # Torn /\ record.pair \in Pair
  BY TornAssumption DEF Record
<1>5. /\ completed(f) \subseteq completed(file) \cup {record.pair}
      /\ record.kind # "completed" => completed(f) \subseteq completed(file)
  BY <1>2 DEF completed
<1>6. Readable(f) => Readable(file) /\ completed(file) \subseteq completed(f)
  BY <1>3 DEF Readable, completed
<1>7. Readable(f) =>
        \A p : (\E n \in DOMAIN file.lines : file.lines[n].pair = p)
                => \E n \in DOMAIN f.lines : f.lines[n].pair = p
  BY <1>3
<1>8. Readable(f) /\ extent = "all" =>
        /\ \E n \in DOMAIN f.lines : f.lines[n].pair = record.pair
        /\ record.kind = "completed" => record.pair \in completed(f)
  BY <1>3, <1>4 DEF completed
<1>9. ASSUME OncePerPair(file), record.kind = "completed" => record.pair \notin completed(file)
      PROVE  OncePerPair(f)
  <2> SUFFICES ASSUME NEW m \in DOMAIN f.lines, NEW n \in DOMAIN f.lines,
                      IsCompleted(f.lines[m]), IsCompleted(f.lines[n]),
                      f.lines[m].pair = f.lines[n].pair
               PROVE  m = n
    BY DEF OncePerPair
  <2>1. \A k \in DOMAIN file.lines :
          IsCompleted(file.lines[k]) /\ file.lines[k].pair \in Pair
            => file.lines[k].pair \in completed(file)
    BY DEF IsCompleted, completed
  <2>2. \A k \in DOMAIN f.lines : IsCompleted(f.lines[k]) =>
          \/ k \in DOMAIN file.lines /\ f.lines[k] = file.lines[k]
          \/ k = Len(file.lines) + 1 /\ f.lines[k] = record /\ record.kind = "completed"
    BY <1>2 DEF IsCompleted
  <2> QED BY <1>4, <1>9, <2>1, <2>2 DEF OncePerPair
<1> QED BY <1>1, <1>5, <1>6, <1>7, <1>8, <1>9

-----------------------------------------------------------------------------
(* One arm                                                                 *)

LEMMA CheapestExists == Cheapest \in Candidate
<1> DEFINE S == {Candidates[n] : n \in DOMAIN Candidates}
           costs == {c.cost : c \in S}
<1>1. S \subseteq Candidate /\ S # {}
  <2>1. /\ DOMAIN Candidates = 1 .. Len(Candidates) /\ Len(Candidates) \in Nat
        /\ Len(Candidates) # 0 /\ \A n \in 1 .. Len(Candidates) : Candidates[n] \in Candidate
    BY ArmsAssumption
  <2>2. 1 \in DOMAIN Candidates
    BY <2>1
  <2> QED BY <2>1, <2>2
<1>2. costs \subseteq Nat /\ costs # {}
  BY <1>1 DEF Candidate
<1>3. PICK m \in costs : \A n \in costs : m <= n
  BY <1>2, Least
<1>4. \E c \in S : \A d \in S : c.cost <= d.cost
  BY <1>3
<1>5. Cheapest = CHOOSE c \in S : \A n \in DOMAIN Candidates : c.cost <= Candidates[n].cost
  BY DEF Cheapest
<1>6. \E c \in S : \A n \in DOMAIN Candidates : c.cost <= Candidates[n].cost
  BY <1>4
<1>7. Cheapest \in S
  BY <1>5, <1>6
<1> QED BY <1>1, <1>7

\* The rules ask for what is granted and no more, and where they are granted nothing
\* they propose the fallback.
LEMMA RulesPropose ==
  ASSUME NEW a \in Arm
  PROVE  LET p == deterministicProposal(a)
         IN  /\ p \in Proposal
             /\ a # "A2_ENGRAM" => p.action = deterministicFallbackAction /\ ~p.cites
             /\ p.effects # {} => p.cites /\ eligible(a) /\ p.effects \subseteq Fixture[a].allowed
<1>1. Cheapest.provider \in STRING
  BY CheapestExists DEF Candidate
<1>2. CASE findAuthorizedSubstitution(a)
  <2>1. a \in WithMemory /\ eligible(a) /\ a = "A2_ENGRAM"
    BY <1>2 DEF findAuthorizedSubstitution, eligible
  <2>2. Fixture[a].allowed \in SUBSET STRING /\ Fixture[a].to \in STRING
    BY <2>1, ArmsAssumption DEF Memory
  <2>3. deterministicProposal(a) =
          [ action |-> [provider |-> Fixture[a].to, terms |-> TRUE], cites |-> TRUE,
            effects |-> Fixture[a].allowed \cap Supported ]
    BY <1>2 DEF deterministicProposal
  <2>4. Fixture[a].allowed \cap Supported \in SUBSET STRING
    BY <2>2
  <2>5. [provider |-> Fixture[a].to, terms |-> TRUE] \in Action
    BY <2>2 DEF Action
  <2>6. deterministicProposal(a) \in Proposal
    BY <2>3, <2>4, <2>5 DEF Proposal
  <2>7. /\ deterministicProposal(a).cites
        /\ deterministicProposal(a).effects \subseteq Fixture[a].allowed
    BY <2>3
  <2> QED BY <2>1, <2>6, <2>7
<1>3. CASE ~findAuthorizedSubstitution(a)
  <2>1. deterministicProposal(a) =
          [ action |-> deterministicFallbackAction, cites |-> FALSE, effects |-> {} ]
    BY <1>3 DEF deterministicProposal, deterministicFallbackAction
  <2>2. deterministicFallbackAction \in Action
    BY <1>1 DEF deterministicFallbackAction, Action
  <2> QED BY <2>1, <2>2 DEF Proposal
<1> QED BY <1>2, <1>3

\* What is checked of one trial.
Granted(t) ==
  /\ t.exercised # {} =>
       /\ t.arm = "A2_ENGRAM" /\ t.influenced
       /\ t.exercised \subseteq Fixture["A2_ENGRAM"].allowed \ Fixture["A2_ENGRAM"].denied
  /\ t.authorization # "AUTHORIZED" => t.action = deterministicFallbackAction /\ ~t.influenced

WithinGrants(t) ==
  /\ t.authorization = "AUTHORIZED"
  /\ t.arm # "A2_ENGRAM" => t.action = deterministicFallbackAction /\ ~t.influenced

LEMMA TrialOf ==
  ASSUME NEW a \in Arm, NEW p \in Proposal
  PROVE  runArm(a, p) \in Trial /\ Granted(runArm(a, p))
<1>1. CASE authorized(a, p)
  <2> DEFINE c == cited(a, p)
             t == [ arm |-> a, action |-> p.action, authorization |-> "AUTHORIZED",
                    exercised |-> p.effects, influenced |-> c ]
  <2>1. runArm(a, p) = t
    BY <1>1 DEF runArm
  <2>2. c \in BOOLEAN
    BY DEF cited
  <2>3. p.effects # {} =>
          /\ c /\ a = "A2_ENGRAM"
          /\ p.effects \subseteq Fixture["A2_ENGRAM"].allowed \ Fixture["A2_ENGRAM"].denied
    BY <1>1 DEF authorized, eligible, assertInfluenceAllowed
  <2>4. p.action \in Action /\ p.effects \in SUBSET STRING
    BY DEF Proposal
  <2> HIDE DEF c
  <2>5. t \in Trial
    BY <2>2, <2>4 DEF Trial, Authorization
  <2>6. /\ t.arm = a /\ t.authorization = "AUTHORIZED" /\ t.exercised = p.effects
        /\ t.influenced = c
    OBVIOUS
  <2> HIDE DEF t
  <2>7. Granted(t)
    BY <2>3, <2>6 DEF Granted
  <2> QED BY <2>1, <2>5, <2>7
<1>2. CASE ~authorized(a, p)
  <2> DEFINE w == authorizationFailureDecision(a, p)
  <2>1. runArm(a, p) = [ arm |-> a, action |-> deterministicFallbackAction, authorization |-> w,
                         exercised |-> {}, influenced |-> FALSE ]
    BY <1>2 DEF runArm
  <2>2. w \in Authorization
    BY DEF authorizationFailureDecision, Authorization
  <2>3. deterministicFallbackAction \in Action
    BY CheapestExists DEF Candidate, deterministicFallbackAction, Action
  <2> HIDE DEF w
  <2> QED BY <2>1, <2>2, <2>3 DEF Trial, Granted
<1> QED BY <1>1, <1>2

LEMMA RulesTrial ==
  ASSUME NEW a \in Arm, Fixture["A2_ENGRAM"].allowed \cap Fixture["A2_ENGRAM"].denied = {}
  PROVE  WithinGrants(runArm(a, deterministicProposal(a)))
<1> DEFINE p == deterministicProposal(a)
<1>1. /\ a # "A2_ENGRAM" => p.action = deterministicFallbackAction /\ ~p.cites
      /\ p.effects # {} => p.cites /\ eligible(a) /\ p.effects \subseteq Fixture[a].allowed
  BY RulesPropose
<1> HIDE DEF p
<1>2. authorized(a, p)
  <2> SUFFICES ASSUME p.effects # {}
               PROVE  cited(a, p) /\ assertInfluenceAllowed(a, p.effects)
    BY <1>1 DEF authorized
  <2>1. a = "A2_ENGRAM" /\ p.cites /\ p.effects \subseteq Fixture[a].allowed
    BY <1>1 DEF eligible
  <2> QED BY <2>1 DEF cited, WithMemory, assertInfluenceAllowed
<1>3. runArm(a, p) = [ arm |-> a, action |-> p.action, authorization |-> "AUTHORIZED",
                       exercised |-> p.effects, influenced |-> cited(a, p) ]
  BY <1>2 DEF runArm
<1>4. a # "A2_ENGRAM" => ~cited(a, p)
  BY <1>1 DEF cited
<1>5. WithinGrants(runArm(a, p))
  BY <1>1, <1>3, <1>4 DEF WithinGrants
<1> QED BY <1>5 DEF p

-----------------------------------------------------------------------------
(* The steps                                                               *)

Sound == AtPair /\ PassedOrKnown /\ Counted /\ Held /\ NoPairTwice
Tried == Asked /\ InfluenceIsGranted /\ RulesStayWithinGrants

LEMMA IInvIs == IInv <=> TypeOK /\ Sound /\ Tried
  BY DEF IInv, Sound, Tried

LEMMA TrialsStay ==
  ASSUME Tried, setup' = setup, trials' = trials, at' = "asking" => at = "asking"
  PROVE  Tried'
  BY DEF Tried, Asked, InfluenceIsGranted, RulesStayWithinGrants

LEMMA TrialsDropped ==
  ASSUME trials' = <<>>, at' # "asking"
  PROVE  Tried'
  BY DEF Tried, Asked, InfluenceIsGranted, RulesStayWithinGrants

LEMMA CompletedType ==
  ASSUME NEW file
  PROVE  completed(file) \in SUBSET Pair
  BY DEF completed

\* The process is at a pair, and leaves the file alone.
LEMMA AtItsPair ==
  ASSUME Sound, at \in {"asking", "judging"}, at' \in {"asking", "judging", "recording", "failing"},
         UNCHANGED <<checkpoint, summary, index, known, counts>>
  PROVE  Sound'
<1>1. Passed' = Passed
  BY DEF Passed
<1>2. AtPair' /\ PassedOrKnown'
  BY DEF Sound, AtPair, PassedOrKnown
<1>3. Counted' /\ Held'
  BY <1>1 DEF Sound, Counted, Held, HasLine, counts
<1>4. NoPairTwice'
  BY DEF Sound, NoPairTwice
<1> QED BY <1>2, <1>3, <1>4 DEF Sound

\* The pairs up to one, and those before a later one.
LEMMA UpTo ==
  ASSUME NEW i \in 0 .. Repetitions, NEW j \in Pair, i < j
  PROVE  /\ 1 .. i \subseteq 1 .. (j - 1) /\ 1 .. (j - 1) \subseteq Pair
         /\ \A p \in 1 .. (j - 1) : p \notin 1 .. i => p \in Pair /\ p > i /\ ~(j <= p)
  BY CampaignAssumption DEF Pair

LEMMA StartStep == IInv /\ Start => IInv'
<1> SUFFICES ASSUME IInv, Start PROVE IInv'
  OBVIOUS
<1>1. TypeOK /\ Sound /\ Tried
  BY IInvIs
<1>2. /\ starts' = starts + 1 /\ starts < MaxStarts /\ at' = "next" /\ index' = 0
      /\ known' = completed(checkpoint) /\ errorCount' = 0
      /\ completedCount' = Cardinality(completed(checkpoint))
      /\ UNCHANGED << setup, checkpoint, summary, trials, attempt >>
  BY DEF Start, readCompletedPairIds
<1>3. /\ completed(checkpoint) \in SUBSET Pair
      /\ Cardinality(completed(checkpoint)) \in 0 .. Repetitions
  BY CompletedType, PairsCounted
<1>4. TypeOK'
  BY <1>1, <1>2, <1>3, CampaignAssumption DEF TypeOK
<1>5. Passed' = {}
  BY <1>2 DEF Passed
<1>6. AtPair' /\ PassedOrKnown' /\ NoPairTwice'
  BY <1>1, <1>2 DEF AtPair, PassedOrKnown, Sound, NoPairTwice
<1>7. Counted'
  BY <1>2, <1>3, <1>5 DEF Counted
<1>8. Held'
  BY <1>1, <1>2, <1>3, <1>5 DEF Held, Sound, HasLine
<1>9. Tried'
  BY <1>1, <1>2, TrialsStay
<1> QED BY <1>4, <1>6, <1>7, <1>8, <1>9, IInvIs DEF IInv, Tried

LEMMA NextPairStep == IInv /\ NextPair => IInv'
<1> SUFFICES ASSUME IInv, NextPair PROVE IInv'
  OBVIOUS
<1>1. TypeOK /\ Sound /\ Tried
  BY IInvIs
<1> DEFINE rest == {p \in Pair : p > index /\ p \notin known}
<1>2. /\ at = "next" /\ rest # {} /\ at' = "asking" /\ trials' = <<>> /\ attempt' = 1
      /\ UNCHANGED << setup, checkpoint, summary, known, counts, starts >>
      /\ index' = CHOOSE p \in Pair : /\ p > index /\ p \notin known
                                      /\ \A q \in Pair : q > index /\ q \notin known => p <= q
  BY DEF NextPair
<1>3. /\ Pair \subseteq Nat /\ index \in Nat /\ index <= Repetitions /\ Repetitions \in Nat
      /\ known \in SUBSET Pair /\ \A p \in Nat : p \in Pair <=> 1 <= p /\ p <= Repetitions
  BY <1>1, CampaignAssumption DEF Pair, TypeOK
<1>4. \E p \in rest : \A q \in rest : p <= q
  BY <1>2, <1>3, Least
<1>5. /\ index' \in Pair /\ index' > index /\ index' \notin known
      /\ \A q \in Pair : q > index /\ q \notin known => index' <= q
  BY <1>2, <1>4
<1>6. Len(setup.arms) > 0
  <2>1. setup.arms \in Seq(Arm) \ {<<>>}
    BY <1>1, CampaignAssumption DEF TypeOK
  <2> QED BY <2>1
<1>7. TypeOK'
  <2>1. index' \in 0 .. Repetitions
    BY <1>3, <1>5
  <2>2. trials' \in Seq(Trial) /\ Len(trials') <= Len(setup'.arms) /\ attempt' \in 0 .. MaxAttempts
    BY <1>2, <1>6, CampaignAssumption
  <2> QED BY <1>1, <1>2, <2>1, <2>2 DEF TypeOK, counts
<1>8. Passed = 1 .. index /\ Passed' = 1 .. (index' - 1)
  BY <1>2 DEF Passed
<1>9. AtPair' /\ NoPairTwice'
  BY <1>1, <1>2, <1>5 DEF AtPair, Sound, NoPairTwice
<1>10. PassedOrKnown'
  <2> SUFFICES ASSUME NEW p \in completed(checkpoint)
               PROVE  p \in known \/ p < index'
    BY <1>2 DEF PassedOrKnown
  <2>1. p \in known \/ p < index \/ p = index
    BY <1>1, <1>2 DEF PassedOrKnown, Sound
  <2>2. p \in Nat /\ index' \in Nat
    BY <1>3, <1>5, CompletedType
  <2> QED BY <1>3, <1>5, <2>1, <2>2
<1>11. /\ Passed \subseteq Passed' /\ Passed' \subseteq Pair
       /\ \A p \in Passed' : p \notin Passed => p \in Pair /\ p > index /\ ~(index' <= p)
  <2>1. index \in 0 .. Repetitions
    BY <1>1 DEF TypeOK
  <2> QED BY <1>5, <1>8, <2>1, UpTo
<1>12. \A p \in Passed' : p \in Passed \/ p \in known
  BY <1>5, <1>11
<1>13. Counted'
  <2>1. known \cup Passed' \in SUBSET Pair /\ known \cup Passed \in SUBSET Pair
    BY <1>3, <1>11
  <2>2. Cardinality(known \cup Passed) <= Cardinality(known \cup Passed')
    BY <1>11, <2>1, MorePairs
  <2>3. completedCount + errorCount <= Cardinality(known \cup Passed)
    BY <1>1, <1>2 DEF Counted, Sound
  <2>4. /\ Cardinality(known \cup Passed) \in Int /\ Cardinality(known \cup Passed') \in Int
        /\ completedCount + errorCount \in Int
    BY <1>1, <2>1, PairsCounted, CampaignAssumption DEF TypeOK
  <2> QED BY <1>2, <2>2, <2>3, <2>4 DEF Counted, counts
<1>14. Held'
  <2> SUFFICES ASSUME Readable(checkpoint)
               PROVE  /\ completedCount <= Cardinality(completed(checkpoint))
                      /\ summary \in Summary => summary.completed <= Cardinality(completed(checkpoint))
                      /\ known \subseteq completed(checkpoint)
                      /\ \A p \in Passed' : HasLine(p)
    BY <1>2 DEF Held, HasLine, counts
  <2>1. /\ completedCount <= Cardinality(completed(checkpoint))
        /\ summary \in Summary => summary.completed <= Cardinality(completed(checkpoint))
        /\ known \subseteq completed(checkpoint) /\ \A p \in Passed : HasLine(p)
    BY <1>1, <1>2 DEF Held, Sound
  <2>2. \A p \in known : HasLine(p)
    BY <2>1 DEF completed, HasLine
  <2> QED BY <1>12, <2>1, <2>2
<1>15. Tried'
  BY <1>2, <1>6 DEF Tried, Asked, InfluenceIsGranted, RulesStayWithinGrants
<1> QED BY <1>7, <1>9, <1>10, <1>13, <1>14, <1>15 DEF IInv, Tried

\* The process is gone, and the file and the summary hold what they did.
LEMMA EndStep == IInv /\ End => IInv'
<1> SUFFICES ASSUME IInv, End PROVE IInv'
  OBVIOUS
<1>1. TypeOK /\ Sound /\ Tried
  BY IInvIs
<1>2. /\ at' = "down" /\ trials' = <<>> /\ attempt' = 0
      /\ UNCHANGED << setup, checkpoint, summary, index, known, counts, starts >>
  BY DEF End
<1>3. setup.arms \in Seq(Arm)
  BY <1>1, CampaignAssumption DEF TypeOK
<1>4. TypeOK'
  <2>1. trials' \in Seq(Trial) /\ Len(trials') <= Len(setup'.arms) /\ attempt' \in 0 .. MaxAttempts
    BY <1>2, <1>3, CampaignAssumption
  <2> QED BY <1>1, <1>2, <2>1 DEF TypeOK, counts
<1>5. AtPair' /\ PassedOrKnown' /\ Counted' /\ Held' /\ NoPairTwice'
  BY <1>1, <1>2 DEF AtPair, PassedOrKnown, Counted, Held, NoPairTwice, Sound, counts
<1>6. Tried'
  BY <1>2, TrialsDropped
<1> QED BY <1>4, <1>5, <1>6 DEF IInv, Tried

LEMMA ProposeStep ==
  ASSUME IInv, NEW p \in Proposals \cup {deterministicProposal(name) : name \in Arm}, Propose(p)
  PROVE  IInv'
<1> DEFINE t == runArm(arm, p)
<1>1. TypeOK /\ Sound /\ Tried
  BY IInvIs
<1>2. /\ at = "asking" /\ trials' = Append(trials, t) /\ attempt' = 1
      /\ at' \in {"asking", "judging"} /\ (at' = "asking" => Len(trials') < Len(setup.arms))
      /\ setup.adapter = "rules" => p = deterministicProposal(arm)
      /\ UNCHANGED << setup, checkpoint, summary, index, known, counts, starts >>
  BY DEF Propose
<1>3. arm \in Arm
  <2>1. setup.arms \in Seq(Arm) /\ Len(trials) < Len(setup.arms) /\ trials \in Seq(Trial)
    BY <1>1, <1>2, CampaignAssumption DEF TypeOK, Tried, Asked
  <2> QED BY <2>1 DEF arm
<1>4. p \in Proposal
  BY CampaignAssumption, RulesPropose
<1>5. t \in Trial /\ Granted(t)
  BY <1>3, <1>4, TrialOf
<1>6. setup.adapter = "rules" /\ Fixture["A2_ENGRAM"].allowed \cap Fixture["A2_ENGRAM"].denied = {}
        => WithinGrants(t)
  BY <1>2, <1>3, RulesTrial
<1> HIDE DEF t
<1>7. /\ trials \in Seq(Trial) /\ setup.arms \in Seq(Arm) /\ Len(trials) < Len(setup.arms)
      /\ Len(trials) \in Nat /\ Len(setup.arms) \in Nat
  BY <1>1, <1>2, CampaignAssumption DEF TypeOK, Tried, Asked
<1>8. /\ trials' \in Seq(Trial) /\ Len(trials') <= Len(setup.arms)
      /\ \A n \in DOMAIN trials' : trials'[n] = t \/ (n \in DOMAIN trials /\ trials'[n] = trials[n])
  BY <1>2, <1>5, <1>7
<1>9. TypeOK'
  BY <1>1, <1>2, <1>8, CampaignAssumption DEF TypeOK, counts
<1>10. Sound'
  BY <1>1, <1>2, AtItsPair
<1>11. Asked'
  BY <1>2 DEF Asked
<1>12. InfluenceIsGranted'
  <2>1. \A n \in DOMAIN trials : Granted(trials[n])
    BY <1>1 DEF Tried, InfluenceIsGranted, Granted
  <2>2. \A n \in DOMAIN trials' : Granted(trials'[n])
    BY <1>5, <1>8, <2>1
  <2> QED BY <2>2 DEF InfluenceIsGranted, Granted
<1>13. RulesStayWithinGrants'
  <2> SUFFICES ASSUME setup.adapter = "rules",
                      Fixture["A2_ENGRAM"].allowed \cap Fixture["A2_ENGRAM"].denied = {}
               PROVE  \A n \in DOMAIN trials' : WithinGrants(trials'[n])
    BY <1>2 DEF RulesStayWithinGrants, WithinGrants
  <2>1. \A n \in DOMAIN trials : WithinGrants(trials[n])
    BY <1>1 DEF Tried, RulesStayWithinGrants, WithinGrants
  <2> QED BY <1>6, <1>8, <2>1
<1> QED BY <1>9, <1>10, <1>11, <1>12, <1>13, IInvIs DEF IInv, Sound

\* The adapter asks once more or gives up, or the arms of the pair are judged.
LEMMA AskingStep == IInv /\ (Degenerate \/ Throw \/ Judge) => IInv'
<1> SUFFICES ASSUME IInv, Degenerate \/ Throw \/ Judge PROVE IInv'
  OBVIOUS
<1>1. TypeOK /\ Sound /\ Tried
  BY IInvIs
<1>2. /\ at \in {"asking", "judging"} /\ at' \in {"asking", "recording", "failing"}
      /\ at' = "asking" => at = "asking"
      /\ attempt' \in 0 .. MaxAttempts
      /\ UNCHANGED << setup, checkpoint, summary, index, known, counts, trials, starts >>
  <2>1. attempt \in 0 .. MaxAttempts /\ MaxAttempts \in Nat
    BY <1>1, CampaignAssumption DEF TypeOK
  <2> QED BY <2>1 DEF Degenerate, Throw, Judge
<1>3. TypeOK'
  BY <1>1, <1>2 DEF TypeOK, counts
<1>4. Sound'
  BY <1>1, <1>2, AtItsPair
<1>5. Tried'
  BY <1>1, <1>2, TrialsStay
<1> QED BY <1>3, <1>4, <1>5 DEF IInv, Sound, Tried

\* There is a summary of what is counted, or the one before.
LEMMA ReportStep == IInv /\ Report => IInv'
<1> SUFFICES ASSUME IInv, Report PROVE IInv'
  OBVIOUS
<1>1. TypeOK /\ Sound /\ Tried
  BY IInvIs
<1>2. /\ at = "reporting" /\ at' = "next"
      /\ summary' \in {summary, [completed |-> completedCount, errors |-> errorCount]}
      /\ UNCHANGED << setup, checkpoint, index, known, counts, trials, attempt, starts >>
  BY DEF Report
<1>3. [completed |-> completedCount, errors |-> errorCount] \in Summary
  BY <1>1 DEF TypeOK, Summary
<1>4. TypeOK'
  BY <1>1, <1>2, <1>3 DEF TypeOK, counts
<1>5. Passed' = Passed
  BY <1>2 DEF Passed
<1>6. AtPair' /\ PassedOrKnown' /\ NoPairTwice'
  BY <1>1, <1>2 DEF AtPair, PassedOrKnown, NoPairTwice, Sound
<1>7. Counted'
  BY <1>1, <1>2, <1>5 DEF Counted, Sound, counts
<1>8. Held'
  BY <1>1, <1>2, <1>5 DEF Held, HasLine, Sound, counts
<1>9. Tried'
  BY <1>1, <1>2, TrialsStay
<1> QED BY <1>4, <1>6, <1>7, <1>8, <1>9 DEF IInv, Tried

\* What an append does to what is claimed.
LEMMA Appended ==
  ASSUME TypeOK, Sound, NEW record \in Record, NEW extent \in Extent,
         checkpoint' = appendCampaignRecord(checkpoint, record, extent),
         record.kind = "completed" => record.pair \notin completed(checkpoint)
  PROVE  /\ checkpoint' \in File /\ NoPairTwice'
         /\ completed(checkpoint') \subseteq completed(checkpoint) \cup {record.pair}
         /\ record.kind # "completed" => completed(checkpoint') \subseteq completed(checkpoint)
         /\ Readable(checkpoint') =>
              /\ Readable(checkpoint) /\ completed(checkpoint) \subseteq completed(checkpoint')
              /\ completedCount <= Cardinality(completed(checkpoint'))
              /\ summary \in Summary => summary.completed <= Cardinality(completed(checkpoint'))
              /\ \A p : HasLine(p) => HasLine(p)'
              /\ extent = "all" =>
                   /\ HasLine(record.pair)'
                   /\ record.kind = "completed" =>
                        completedCount + 1 <= Cardinality(completed(checkpoint'))
<1>1. checkpoint \in File
  BY DEF TypeOK, File
<1>2. OncePerPair(checkpoint)
  BY DEF Sound, NoPairTwice, OncePerPair
<1> DEFINE f == checkpoint'
           old == completed(checkpoint)
           new == completed(f)
<1>3. /\ f \in File
      /\ new \subseteq old \cup {record.pair}
      /\ record.kind # "completed" => new \subseteq old
      /\ Readable(f) => Readable(checkpoint) /\ old \subseteq new
      /\ Readable(f) =>
           \A p : (\E n \in DOMAIN checkpoint.lines : checkpoint.lines[n].pair = p)
                   => \E n \in DOMAIN f.lines : f.lines[n].pair = p
      /\ Readable(f) /\ extent = "all" =>
           /\ \E n \in DOMAIN f.lines : f.lines[n].pair = record.pair
           /\ record.kind = "completed" => record.pair \in new
      /\ OncePerPair(f)
  BY <1>1, <1>2, AppendHolds
<1>4. old \in SUBSET Pair /\ new \in SUBSET Pair
  BY CompletedType
<1>5. Cardinality(old) \in Int /\ Cardinality(new) \in Int /\ completedCount \in Int
  BY <1>4, PairsCounted, CampaignAssumption DEF TypeOK
<1>6. Readable(f) => /\ completedCount <= Cardinality(old)
                     /\ summary \in Summary => summary.completed <= Cardinality(old)
  BY <1>3 DEF Sound, Held
<1>7. summary \in Summary => summary.completed \in Int
  BY CampaignAssumption DEF Summary
<1>8. Readable(f) => Cardinality(old) <= Cardinality(new)
  BY <1>3, <1>4, MorePairs
<1>9. Readable(f) /\ extent = "all" /\ record.kind = "completed" =>
        Cardinality(old) + 1 <= Cardinality(new)
  BY <1>3, <1>4, MorePairs
<1>10. NoPairTwice'
  BY <1>3 DEF NoPairTwice, OncePerPair
<1>11. Readable(f) =>
         /\ completedCount <= Cardinality(new)
         /\ summary \in Summary => summary.completed <= Cardinality(new)
         /\ extent = "all" /\ record.kind = "completed" => completedCount + 1 <= Cardinality(new)
  BY <1>5, <1>6, <1>7, <1>8, <1>9
<1>12. Readable(f) => /\ \A p : HasLine(p) => HasLine(p)'
                      /\ extent = "all" => HasLine(record.pair)'
  BY <1>3 DEF HasLine
<1> QED BY <1>3, <1>10, <1>11, <1>12

Failed == [kind |-> "error", pair |-> index]

\* What is recorded of the pair that the process is at.
LEMMA RecordOfPair ==
  ASSUME Sound, at \in {"recording", "failing"}
  PROVE  LET record == IF at = "recording" THEN Completed ELSE Failed
         IN  /\ record \in Record /\ record.pair = index
             /\ record.kind = (IF at = "recording" THEN "completed" ELSE "error")
             /\ record.kind = "completed" => record.pair \notin completed(checkpoint)
<1>1. index \in Pair /\ index \notin known
  BY DEF Sound, AtPair
<1>2. CASE at = "recording"
  <2> DEFINE v == compareControlAndEngram(The("A0_NO_MEMORY"), The("A2_ENGRAM"))
  <2>1. v \in Verdict
    BY DEF compareControlAndEngram, Verdict
  <2> HIDE DEF v
  <2>2. Completed = [kind |-> "completed", pair |-> index, verdict |-> v]
    BY DEF Completed, v
  <2>3. Completed \in Record /\ Completed.pair = index /\ Completed.kind = "completed"
    BY <1>1, <2>1, <2>2 DEF Record
  <2>4. \A p \in completed(checkpoint) : p \in known \/ p < index
    BY <1>2 DEF Sound, PassedOrKnown
  <2>5. ~(index < index)
    BY <1>1, CampaignAssumption DEF Pair
  <2> QED BY <1>1, <1>2, <2>3, <2>4, <2>5
<1>3. CASE at = "failing"
  BY <1>1, <1>3 DEF Record, Failed
<1> QED BY <1>2, <1>3

\* Stopped, with part of what was being written: the file has grown by what reached
\* it, and nothing more is claimed.
LEMMA Stopped ==
  ASSUME IInv, NEW extent \in Extent, at' = "down", trials' = <<>>, attempt' = 0,
         \/ UNCHANGED checkpoint
         \/ /\ at = "recording"
            /\ checkpoint' = appendCampaignRecord(checkpoint, Completed, extent)
         \/ /\ at = "failing"
            /\ checkpoint' = appendCampaignRecord(checkpoint, Failed, extent),
         summary' \in {summary, Torn, [completed |-> completedCount, errors |-> errorCount]},
         UNCHANGED << setup, index, known, counts, starts >>
  PROVE  IInv'
<1>1. TypeOK /\ Sound /\ Tried
  BY IInvIs
<1>2. setup.arms \in Seq(Arm)
  BY <1>1, CampaignAssumption DEF TypeOK
<1>3. trials' \in Seq(Trial) /\ Len(trials') <= Len(setup'.arms) /\ attempt' \in 0 .. MaxAttempts
  BY <1>2, CampaignAssumption
<1>4. [completed |-> completedCount, errors |-> errorCount] \in Summary
  BY <1>1 DEF TypeOK, Summary
<1> DEFINE Grown ==
      /\ checkpoint' \in File /\ NoPairTwice'
      /\ Readable(checkpoint') =>
           /\ completedCount <= Cardinality(completed(checkpoint'))
           /\ summary \in Summary => summary.completed <= Cardinality(completed(checkpoint'))
<1>5. Grown
  <2>1. CASE UNCHANGED checkpoint
    BY <1>1, <2>1 DEF TypeOK, File, Sound, NoPairTwice, Held
  <2>2. ASSUME NEW record \in Record,
               checkpoint' = appendCampaignRecord(checkpoint, record, extent),
               record.kind = "completed" => record.pair \notin completed(checkpoint)
        PROVE  Grown
    BY <1>1, <2>2, Appended
  <2>3. CASE at = "recording" /\ checkpoint' = appendCampaignRecord(checkpoint, Completed, extent)
    BY <1>1, <2>2, <2>3, RecordOfPair
  <2>4. CASE /\ at = "failing"
             /\ checkpoint' = appendCampaignRecord(checkpoint, Failed, extent)
    BY <1>1, <2>2, <2>4, RecordOfPair
  <2> QED BY <2>1, <2>3, <2>4
<1>6. TypeOK'
  BY <1>1, <1>3, <1>4, <1>5 DEF TypeOK, File, counts
<1>7. AtPair' /\ PassedOrKnown' /\ Counted'
  BY DEF AtPair, PassedOrKnown, Counted
<1>8. Held'
  BY <1>4, <1>5, TornAssumption DEF Held, counts
<1>9. Tried'
  BY TrialsDropped
<1> QED BY <1>5, <1>6, <1>7, <1>8, <1>9 DEF IInv, Tried

LEMMA UpToAndWith ==
  ASSUME NEW i \in Pair
  PROVE  1 .. i = 1 .. (i - 1) \cup {i} /\ 1 .. i \subseteq Pair /\ i \notin 1 .. (i - 1)
  BY CampaignAssumption DEF Pair

\* A record that was appended whole passes the pair.
LEMMA Recorded ==
  ASSUME IInv, at \in {"recording", "failing"}, at' = "reporting", trials' = <<>>, attempt' = 0,
         NEW record \in Record, record.pair = index,
         checkpoint' = appendCampaignRecord(checkpoint, record, "all"),
         record.kind = "completed" => record.pair \notin completed(checkpoint),
         \/ completedCount' = completedCount + 1 /\ errorCount' = errorCount
                /\ record.kind = "completed"
         \/ completedCount' = completedCount /\ errorCount' = errorCount + 1,
         UNCHANGED << setup, summary, index, known, starts >>
  PROVE  IInv'
<1>1. TypeOK /\ Sound /\ Tried
  BY IInvIs
<1>2. setup.arms \in Seq(Arm)
  BY <1>1, CampaignAssumption DEF TypeOK
<1>3. trials' \in Seq(Trial) /\ Len(trials') <= Len(setup'.arms) /\ attempt' \in 0 .. MaxAttempts
  BY <1>2, CampaignAssumption
<1>4. index \in Pair /\ index \notin known /\ known \in SUBSET Pair
  BY <1>1 DEF Sound, AtPair, TypeOK
<1>5. /\ Passed = 1 .. (index - 1) /\ Passed' = 1 .. index
      /\ Passed' = Passed \cup {index} /\ Passed' \subseteq Pair /\ index \notin Passed
  <2>1. Passed = 1 .. (index - 1) /\ Passed' = 1 .. index
    BY DEF Passed
  <2> QED BY <1>4, <2>1, UpToAndWith
<1>6. /\ checkpoint' \in File /\ NoPairTwice'
      /\ completed(checkpoint') \subseteq completed(checkpoint) \cup {index}
      /\ Readable(checkpoint') =>
           /\ Readable(checkpoint) /\ completed(checkpoint) \subseteq completed(checkpoint')
           /\ completedCount <= Cardinality(completed(checkpoint'))
           /\ summary \in Summary => summary.completed <= Cardinality(completed(checkpoint'))
           /\ (\A p : HasLine(p) => HasLine(p)') /\ HasLine(index)'
           /\ record.kind = "completed" =>
                completedCount + 1 <= Cardinality(completed(checkpoint'))
  <2>1. "all" \in Extent
    BY DEF Extent
  <2> QED BY <1>1, <2>1, Appended
<1>7. AtPair'
  BY <1>4 DEF AtPair
<1>8. PassedOrKnown'
  BY <1>1, <1>6 DEF PassedOrKnown, Sound
<1>9. /\ completedCount' + errorCount' <= Cardinality((known \cup Passed)')
      /\ Cardinality((known \cup Passed)') \in 0 .. Repetitions
  <2> DEFINE old == known \cup Passed
             new == known' \cup Passed'
  <2>1. old \in SUBSET Pair /\ new \in SUBSET Pair /\ old \subseteq new /\ index \in new \ old
    BY <1>4, <1>5
  <2>2. Cardinality(old) + 1 <= Cardinality(new)
    BY <2>1, MorePairs
  <2>3. Cardinality(old) \in 0 .. Repetitions /\ Cardinality(new) \in 0 .. Repetitions
    BY <2>1, PairsCounted
  <2>4. completedCount + errorCount <= Cardinality(old)
    BY <1>1 DEF Sound, Counted
  <2>5. completedCount \in Nat /\ errorCount \in Nat
    BY <1>1 DEF TypeOK
  <2>6. completedCount' + errorCount' = completedCount + errorCount + 1
    BY <2>5
  <2> HIDE DEF old, new
  <2>7. completedCount' + errorCount' <= Cardinality(new)
    BY <2>2, <2>3, <2>4, <2>5, <2>6, CampaignAssumption
  <2> QED BY <2>3, <2>7 DEF new
<1>10. completedCount' \in 0 .. Repetitions /\ errorCount' \in 0 .. Repetitions
  <2>1. completedCount' \in Nat /\ errorCount' \in Nat
    BY <1>1 DEF TypeOK
  <2> QED BY <1>9, <2>1, CampaignAssumption
<1>11. TypeOK'
  BY <1>1, <1>3, <1>6, <1>10 DEF TypeOK, File
<1>12. Counted'
  BY <1>9 DEF Counted
<1>13. Held'
  <2> SUFFICES ASSUME Readable(checkpoint')
               PROVE  /\ completedCount' <= Cardinality(completed(checkpoint'))
                      /\ summary \in Summary => summary.completed <= Cardinality(completed(checkpoint'))
                      /\ known \subseteq completed(checkpoint') /\ \A p \in Passed' : HasLine(p)'
    BY DEF Held
  <2>1. known \subseteq completed(checkpoint) /\ \A p \in Passed : HasLine(p)
    BY <1>1, <1>6 DEF Sound, Held
  <2>2. completedCount' <= Cardinality(completed(checkpoint'))
    BY <1>6
  <2> QED BY <1>5, <1>6, <2>1, <2>2
<1>14. Tried'
  BY TrialsDropped
<1> QED BY <1>6, <1>7, <1>8, <1>11, <1>12, <1>13, <1>14 DEF IInv, Tried

LEMMA RecordCompletedStep ==
  ASSUME IInv, NEW extent \in Extent, NEW fails \in BOOLEAN, RecordCompleted(extent, fails)
  PROVE  IInv'
<1>1. TypeOK /\ Sound /\ Tried
  BY IInvIs
<1>2. /\ at = "recording" /\ checkpoint' = appendCampaignRecord(checkpoint, Completed, extent)
      /\ trials' = <<>> /\ attempt' = 0 /\ UNCHANGED << setup, summary, index, known, starts >>
  BY DEF RecordCompleted
<1>3. /\ Completed \in Record /\ Completed.pair = index /\ Completed.kind = "completed"
      /\ Completed.pair \notin completed(checkpoint)
  BY <1>1, <1>2, RecordOfPair
<1>4. CASE ~fails
  <2>1. /\ extent = "all" /\ at' = "reporting"
        /\ completedCount' = completedCount + 1 /\ errorCount' = errorCount
    BY <1>4 DEF RecordCompleted
  <2> QED BY <1>2, <1>3, <2>1, Recorded
<1>5. CASE fails
  <2>1. at' = "failing" /\ UNCHANGED counts
    BY <1>5 DEF RecordCompleted
  <2>2. Passed' = Passed
    BY <1>2, <2>1 DEF Passed
  <2>3. /\ checkpoint' \in File /\ NoPairTwice'
        /\ completed(checkpoint') \subseteq completed(checkpoint) \cup {index}
        /\ Readable(checkpoint') =>
             /\ Readable(checkpoint) /\ completed(checkpoint) \subseteq completed(checkpoint')
             /\ completedCount <= Cardinality(completed(checkpoint'))
             /\ summary \in Summary => summary.completed <= Cardinality(completed(checkpoint'))
             /\ \A p : HasLine(p) => HasLine(p)'
    BY <1>1, <1>2, <1>3, Appended
  <2>4. setup.arms \in Seq(Arm)
    BY <1>1, CampaignAssumption DEF TypeOK
  <2>5. trials' \in Seq(Trial) /\ Len(trials') <= Len(setup'.arms) /\ attempt' \in 0 .. MaxAttempts
    BY <1>2, <2>4, CampaignAssumption
  <2>6. TypeOK'
    BY <1>1, <1>2, <2>1, <2>3, <2>5 DEF TypeOK, File, counts
  <2>7. AtPair' /\ PassedOrKnown'
    BY <1>1, <1>2, <2>1, <2>3 DEF AtPair, PassedOrKnown, Sound
  <2>8. Counted'
    BY <1>1, <1>2, <2>1, <2>2 DEF Counted, Sound, counts
  <2>9. Held'
    <3>1. Readable(checkpoint') =>
            known \subseteq completed(checkpoint) /\ \A p \in Passed : HasLine(p)
      BY <1>1, <1>2, <2>3 DEF Sound, Held
    <3> QED BY <1>2, <2>1, <2>2, <2>3, <3>1 DEF Held, counts
  <2>10. Tried'
    BY <1>2, <2>1, TrialsDropped
  <2> QED BY <2>3, <2>6, <2>7, <2>8, <2>9, <2>10 DEF IInv, Tried
<1> QED BY <1>4, <1>5

LEMMA RecordErrorStep ==
  ASSUME IInv, NEW extent \in Extent, NEW fails \in BOOLEAN, RecordError(extent, fails)
  PROVE  IInv'
<1> DEFINE record == Failed
<1>1. TypeOK /\ Sound /\ Tried
  BY IInvIs
<1>2. /\ at = "failing" /\ checkpoint' = appendCampaignRecord(checkpoint, record, extent)
      /\ trials' = <<>> /\ attempt' = 0 /\ UNCHANGED << setup, summary, index, known, starts >>
  BY DEF RecordError, Failed
<1>3. CASE ~fails
  <2>1. /\ extent = "all" /\ at' = "reporting"
        /\ errorCount' = errorCount + 1 /\ completedCount' = completedCount
    BY <1>3 DEF RecordError
  <2>2. record \in Record /\ record.pair = index /\ record.kind = "error"
    BY <1>1, <1>2, RecordOfPair
  <2> QED BY <1>2, <2>1, <2>2, Recorded
<1>4. CASE fails
  <2>1. at' = "down" /\ UNCHANGED counts
    BY <1>4 DEF RecordError
  <2> QED BY <1>2, <2>1, Stopped
<1> QED BY <1>3, <1>4

LEMMA CrashStep ==
  ASSUME IInv, NEW extent \in Extent, Crash(extent)
  PROVE  IInv'
<1>1. /\ at' = "down" /\ trials' = <<>> /\ attempt' = 0
      /\ UNCHANGED << setup, index, known, counts, starts >>
  BY DEF Crash
<1>2. \/ UNCHANGED checkpoint
      \/ /\ at = "recording"
         /\ checkpoint' = appendCampaignRecord(checkpoint, Completed, extent)
      \/ /\ at = "failing"
         /\ checkpoint' = appendCampaignRecord(checkpoint, Failed, extent)
  BY DEF Crash, Failed
<1>3. summary' \in {summary, Torn, [completed |-> completedCount, errors |-> errorCount]}
  BY DEF Crash
<1> QED BY <1>1, <1>2, <1>3, Stopped

-----------------------------------------------------------------------------
(* The theorems                                                            *)

LEMMA InitIsSound == Init => IInv
<1> SUFFICES ASSUME Init PROVE IInv
  OBVIOUS
<1>1. /\ checkpoint = [lines |-> <<>>, open |-> FALSE] /\ summary = None /\ at = "down" /\ index = 0
      /\ known = {} /\ completedCount = 0 /\ errorCount = 0 /\ trials = <<>> /\ attempt = 0
      /\ starts = 0 /\ setup \in [adapter : {"model", "rules"}, arms : Orders]
  BY DEF Init, Empty
<1>2. setup.arms \in Seq(Arm)
  BY <1>1, CampaignAssumption
<1>3. TypeOK
  BY <1>1, <1>2, CampaignAssumption DEF TypeOK
<1>4. AtPair /\ PassedOrKnown /\ Counted /\ NoPairTwice
  BY <1>1 DEF AtPair, PassedOrKnown, Counted, NoPairTwice
<1>5. Held
  <2>1. Cardinality(completed(checkpoint)) \in 0 .. Repetitions
    BY CompletedType, PairsCounted
  <2> QED BY <1>1, <2>1, TornAssumption, CampaignAssumption DEF Held
<1>6. Tried
  BY <1>1 DEF Tried, Asked, InfluenceIsGranted, RulesStayWithinGrants
<1> QED BY <1>3, <1>4, <1>5, <1>6 DEF IInv, Tried

LEMMA StepIsSound == IInv /\ [Next]_vars => IInv'
<1> SUFFICES ASSUME IInv, [Next]_vars PROVE IInv'
  OBVIOUS
<1>1. CASE Start
  BY <1>1, StartStep
<1>2. CASE NextPair
  BY <1>2, NextPairStep
<1>3. CASE End
  BY <1>3, EndStep
<1>4. CASE Degenerate \/ Throw \/ Judge
  BY <1>4, AskingStep
<1>5. CASE Report
  BY <1>5, ReportStep
<1>6. CASE \E p \in Proposals \cup {deterministicProposal(name) : name \in Arm} : Propose(p)
  BY <1>6, ProposeStep
<1>7. CASE \E extent \in Extent, fails \in BOOLEAN : RecordCompleted(extent, fails)
  BY <1>7, RecordCompletedStep
<1>8. CASE \E extent \in Extent, fails \in BOOLEAN : RecordError(extent, fails)
  BY <1>8, RecordErrorStep
<1>9. CASE \E extent \in Extent : Crash(extent)
  BY <1>9, CrashStep
<1>10. CASE UNCHANGED vars
  <2>1. UNCHANGED << setup, checkpoint, summary, at, index, known, counts, trials, attempt, starts >>
    BY <1>10 DEF vars, counts
  <2>2. TypeOK'
    BY <2>1 DEF IInv, TypeOK, counts
  <2>3. Passed' = Passed
    BY <2>1 DEF Passed
  <2>4. AtPair' /\ PassedOrKnown' /\ Counted' /\ Held' /\ NoPairTwice'
    BY <2>1, <2>3 DEF IInv, AtPair, PassedOrKnown, Counted, Held, HasLine, NoPairTwice, counts
  <2>5. Tried'
    BY <2>1, TrialsStay, IInvIs
  <2> QED BY <2>2, <2>4, <2>5 DEF IInv, Tried
<1> QED BY <1>1, <1>2, <1>3, <1>4, <1>5, <1>6, <1>7, <1>8, <1>9, <1>10 DEF Next, Process

\* The invariant of a campaign.
THEOREM Inductive == Spec => []IInv
<1>1. Init => IInv
  BY InitIsSound
<1>2. IInv /\ [Next]_vars => IInv'
  BY StepIsSound
<1> QED BY <1>1, <1>2, PTL DEF Spec

\* The file, the trials and the counts have their types: no more pairs are ever
\* counted than there are to run.
THEOREM TypeCorrect == Spec => []TypeOK
<1>1. IInv => TypeOK
  BY DEF IInv
<1> QED BY <1>1, Inductive, PTL

\* Whatever is proposed, an effect of memory is one that the arm was granted.
THEOREM InfluenceStaysGranted == Spec => []InfluenceIsGranted
<1>1. IInv => InfluenceIsGranted
  BY DEF IInv
<1> QED BY <1>1, Inductive, PTL

\* The rules act on a grant or not at all.
THEOREM RulesStayGranted == Spec => []RulesStayWithinGrants
<1>1. IInv => RulesStayWithinGrants
  BY DEF IInv
<1> QED BY <1>1, Inductive, PTL

\* No pair is ever completed twice in the file, wherever the process is stopped.
THEOREM PairsStayUnique == Spec => []NoPairTwice
<1>1. IInv => NoPairTwice
  BY DEF IInv
<1> QED BY <1>1, Inductive, PTL

\* Counts and summaries claim what a file that can be read holds.
THEOREM ClaimsStayHeld == Spec => []FileHoldsClaims
<1>1. IInv => FileHoldsClaims
  BY DEF IInv, Held, FileHoldsClaims, Passed, HasLine
<1> QED BY <1>1, Inductive, PTL

\* A completed pair stays in a file that can be read, and a file that cannot be
\* read stays so.
THEOREM CheckpointGrows == Spec => CheckpointOnlyGrows
<1> DEFINE Grows == Readable(checkpoint)' =>
                      Readable(checkpoint) /\ completed(checkpoint) \subseteq completed(checkpoint)'
<1>1. IInv /\ [Next]_vars => [Grows]_vars
  <2> SUFFICES ASSUME IInv, Next
               PROVE  Grows
    OBVIOUS
  <2>1. TypeOK /\ Sound
    BY IInvIs
  <2>2. ASSUME UNCHANGED checkpoint PROVE Grows
    BY <2>2
  <2>3. ASSUME at \in {"recording", "failing"}, NEW extent \in Extent,
               checkpoint' = appendCampaignRecord(checkpoint,
                 IF at = "recording" THEN Completed ELSE Failed, extent)
        PROVE  Grows
    <3> DEFINE record == IF at = "recording" THEN Completed ELSE Failed
    <3>1. /\ record \in Record
          /\ record.kind = "completed" => record.pair \notin completed(checkpoint)
      BY <2>1, <2>3, RecordOfPair
    <3> HIDE DEF record
    <3>2. checkpoint' = appendCampaignRecord(checkpoint, record, extent)
      BY <2>3 DEF record
    <3> QED BY <2>1, <3>1, <3>2, Appended
  <2>4. CASE \E extent \in Extent, fails \in BOOLEAN : RecordCompleted(extent, fails)
    BY <2>3, <2>4 DEF RecordCompleted
  <2>5. CASE \E extent \in Extent, fails \in BOOLEAN : RecordError(extent, fails)
    BY <2>3, <2>5 DEF RecordError, Failed
  <2>6. CASE \E extent \in Extent : Crash(extent)
    BY <2>2, <2>3, <2>6 DEF Crash, Failed
  <2>7. CASE Start \/ NextPair \/ End \/ Degenerate \/ Throw \/ Judge \/ Report
    BY <2>2, <2>7 DEF Start, NextPair, End, Degenerate, Throw, Judge, Report
  <2>8. CASE \E p \in Proposals \cup {deterministicProposal(name) : name \in Arm} : Propose(p)
    BY <2>2, <2>8 DEF Propose
  <2> QED BY <2>4, <2>5, <2>6, <2>7, <2>8 DEF Next, Process
<1> QED BY <1>1, Inductive, PTL DEF Spec, CheckpointOnlyGrows

=============================================================================
