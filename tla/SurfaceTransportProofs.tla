------------------------ MODULE SurfaceTransportProofs ------------------------
(***************************************************************************)
(* Proofs about SurfaceTransport, for any deployments, requests, keys and  *)
(* calls, any number of attempts and any number of restarts.               *)
(***************************************************************************)
EXTENDS SurfaceTransport, WellFoundedInduction, SequenceTheorems, TLAPS

(***************************************************************************)
(* The inductive invariant                                                 *)
(***************************************************************************)
Slot(r) == <<r.route, r.key>>

\* Lines wait for calls that were sent and not yet looked at, each once.
QueueSound ==
  /\ deployment.transport # "stdio" => lines = <<>>
  /\ \A n \in DOMAIN lines : call[lines[n]].pc = "queued"
  /\ \A m, n \in DOMAIN lines : lines[m] = lines[n] => m = n

\* What is known of a call by where it is, and of its operation.
CallSound(c) ==
  /\ call[c].pc \in {"unsent", "queued", "missed"} =>
       operation[c] = "none" /\ call[c].code = None /\ call[c].result = None
  /\ call[c].pc = "missed" =>
       /\ call[c].request # None
       /\ deployment.transport = "worker" /\ call[c].request.route \in Writes
       /\ call[c].request.key # None
  /\ operation[c] = "none" => call[c].tries = 0 /\ effects[c] = 0
  /\ call[c].pc = "running" => operation[c] \in {"running", "effected"}
  /\ call[c].pc \in {"running", "insert", "recorded"} =>
       call[c].code = None /\ call[c].result = None
  /\ call[c].pc \in {"insert", "recorded"} =>
       /\ operation[c] = "done"
       /\ deployment.transport = "worker" /\ call[c].request.route \in Writes
  /\ operation[c] # "none" =>
       /\ call[c].request # None /\ call[c].tries > 0
       /\ (Keyed /\ call[c].request.route \in Writes) => call[c].request.key # None
  /\ effects[c] <= call[c].tries
  /\ operation[c] = "running" => effects[c] < call[c].tries
  /\ operation[c] = "effected" => effects[c] > 0
  /\ (operation[c] = "done" /\ call[c].request.route \in Effectful) => effects[c] > 0

\* An answer under a slot is one that a finished operation has produced for it.
Produced(s, e) ==
  LET d == e.result[1]
  IN  /\ operation[d] = "done" /\ call[d].tries = e.result[2]
      /\ call[d].request # None /\ Slot(call[d].request) = s /\ call[d].request.body = e.body

KeptSound ==
  \A s \in Slots : kept[s] # None => deployment.transport = "rest" /\ Produced(s, kept[s])

RowSound ==
  \A s \in Slots : row[s] # None => deployment.transport = "worker" /\ Produced(s, row[s])

\* Whoever was told a result under a key is told what is kept under it: in the
\* table for good, in the map until the process ends.
HeardSound(c) ==
  /\ call[c].epoch <= epoch
  /\ call[c].pc = "recorded" =>
       row[Slot(call[c].request)] =
         [body |-> call[c].request.body, result |-> <<c, call[c].tries>>]
  /\ Answered(c) =>
       /\ call[c].request # None
       /\ (Keyed /\ call[c].request.route \in Writes) =>
            /\ call[c].request.key # None
            /\ deployment.transport = "worker" =>
                 row[Slot(call[c].request)] =
                   [body |-> call[c].request.body, result |-> call[c].result]
            /\ (deployment.transport = "rest" /\ call[c].epoch = epoch) =>
                 kept[Slot(call[c].request)] # None

\* A refusal for the key is the answer of a call that caused nothing.
ReuseSound(c) ==
  call[c].code = "IDEMPOTENCY_KEY_REUSED" => call[c].pc = "answered" /\ operation[c] = "none"

IInv ==
  /\ TypeOK /\ QueueSound
  /\ \A c \in Calls : CallSound(c) /\ HeardSound(c) /\ ReuseSound(c)
  /\ KeptSound /\ RowSound
  /\ AnswersAreEarned

-----------------------------------------------------------------------------
(* What a refusal is                                                       *)

\* A set of numbers has a least one.
LEMMA Least ==
  ASSUME NEW S, S \subseteq Nat, S # {}
  PROVE  \E n \in S : \A m \in S : n <= m
<1>1. PICK n \in S : \A m \in S : ~ (<<m, n>> \in OpToRel(<, Nat))
  BY NatLessThanWellFounded, WFMin
<1>2. \A m \in S : ~ (m < n)
  BY <1>1 DEF OpToRel
<1> QED BY <1>2

\* The last element of a concatenation.
LEMMA LastOfConcat ==
  ASSUME NEW S, NEW s \in Seq(S), NEW t \in Seq(S), Len(t) > 0
  PROVE  Len(s \o t) > 0 /\ (s \o t)[Len(s \o t)] = t[Len(t)]
  OBVIOUS

\* One of the checks that a transport makes of a request.
Check == [applies : BOOLEAN, code : Code \ {"IDEMPOTENCY_KEY_REUSED"}]

LEMMA RefusalIsCode ==
  ASSUME TypeOK, NEW r \in Request
  PROVE  /\ refusal(r) \in Code \cup {None} /\ refusal(r) # "IDEMPOTENCY_KEY_REUSED"
         /\ (refusal(r) = None /\ Keyed /\ r.route \in Writes) => r.key # None
<1> DEFINE applying == {n \in DOMAIN checks(r) : checks(r)[n].applies}
<1>1. deployment \in Deployment
  BY TransportAssumption DEF TypeOK
<1>2. /\ open(r) \in Check /\ unknown(r) \in Check /\ noKey(r) \in Check
  BY DEF open, unknown, noKey, When, Check, Code
<1>3. readBody(r) \in Seq(Check)
  <2>1. /\ When(r.route \in Writes /\ r.content = "tooLarge", "BODY_TOO_LARGE") \in Check
        /\ When(r.route \in Writes /\ r.content = "notJson", "INVALID_JSON") \in Check
    BY DEF When, Check, Code
  <2> QED BY <2>1 DEF readBody
<1>4. /\ restChecks(r) \in Seq(Check) /\ Len(restChecks(r)) > 0
      /\ restChecks(r)[Len(restChecks(r))] = noKey(r)
  <2> DEFINE hosted == deployment.mode = "hosted-authenticated"
             first ==
               << When(~hosted /\ ~r.loopback, "LOOPBACK_ONLY"),
                  When(hosted /\ ~deployment.authenticator, "AUTHENTICATOR_REQUIRED"),
                  open(r), unknown(r),
                  When(deployment.authenticator /\ ~r.token, "UNAUTHORIZED"),
                  When(r.route \in Writes /\ ~r.typed, "CONTENT_TYPE_REQUIRED") >>
             last == << When(r.route \in Writes /\ r.content \in Malformed, "INVALID_REQUEST"),
                        noKey(r) >>
  <2>1. /\ When(~hosted /\ ~r.loopback, "LOOPBACK_ONLY") \in Check
        /\ When(hosted /\ ~deployment.authenticator, "AUTHENTICATOR_REQUIRED") \in Check
        /\ When(deployment.authenticator /\ ~r.token, "UNAUTHORIZED") \in Check
        /\ When(r.route \in Writes /\ ~r.typed, "CONTENT_TYPE_REQUIRED") \in Check
        /\ When(r.route \in Writes /\ r.content \in Malformed, "INVALID_REQUEST") \in Check
    BY DEF When, Check, Code
  <2>2. first \in Seq(Check) /\ last \in Seq(Check)
    BY <1>2, <2>1
  <2>3. restChecks(r) = (first \o readBody(r)) \o last
    BY DEF restChecks
  <2>4. Len(last) = 2 /\ last[2] = noKey(r)
    OBVIOUS
  <2> HIDE DEF first, last
  <2>5. first \o readBody(r) \in Seq(Check) /\ Len(last) > 0
    BY <1>3, <2>2, <2>4
  <2>6. restChecks(r) \in Seq(Check)
    BY <2>2, <2>3, <2>5
  <2>7. /\ Len(restChecks(r)) > 0
        /\ restChecks(r)[Len(restChecks(r))] = last[Len(last)]
    BY <2>2, <2>3, <2>5, LastOfConcat, Zenon
  <2> QED BY <2>4, <2>6, <2>7
<1>5. /\ workerChecks(r) \in Seq(Check) /\ Len(workerChecks(r)) > 0
      /\ workerChecks(r)[Len(workerChecks(r))] = noKey(r)
  <2> DEFINE first == << open(r), unknown(r),
                         When(~deployment.authenticator \/ ~r.token, "UNAUTHORIZED") >>
             last == <<noKey(r)>>
  <2>1. When(~deployment.authenticator \/ ~r.token, "UNAUTHORIZED") \in Check
    BY DEF When, Check, Code
  <2>2. first \in Seq(Check) /\ last \in Seq(Check)
    BY <1>2, <2>1
  <2>3. workerChecks(r) = (first \o readBody(r)) \o last
    BY DEF workerChecks
  <2>4. Len(last) = 1 /\ last[1] = noKey(r)
    OBVIOUS
  <2> HIDE DEF first, last
  <2>5. first \o readBody(r) \in Seq(Check) /\ Len(last) > 0
    BY <1>3, <2>2, <2>4
  <2>6. workerChecks(r) \in Seq(Check)
    BY <2>2, <2>3, <2>5
  <2>7. /\ Len(workerChecks(r)) > 0
        /\ workerChecks(r)[Len(workerChecks(r))] = last[Len(last)]
    BY <2>2, <2>3, <2>5, LastOfConcat, Zenon
  <2> QED BY <2>4, <2>6, <2>7
<1>6. parseRequest(r) \in Seq(Check) /\ << >> \in Seq(Check)
  <2>1. /\ When(r.content = "tooLarge", "MCP_REQUEST_TOO_LARGE") \in Check
        /\ When(r.content = "notJson", "MCP_INVALID_JSON") \in Check
        /\ When(r.content = "notRequest", "MCP_INVALID_REQUEST") \in Check
    BY DEF When, Check, Code
  <2> QED BY <2>1 DEF parseRequest
<1>7. checks(r) \in Seq(Check)
  BY <1>1, <1>4, <1>5, <1>6 DEF checks, Deployment, Transport
<1>8. CASE applying = {}
  <2>1. refusal(r) = None /\ None # "IDEMPOTENCY_KEY_REUSED"
    <3>1. "IDEMPOTENCY_KEY_REUSED" \in Code
      BY DEF Code
    <3> QED BY <1>8, <3>1, NoneAssumption DEF refusal
  <2>2. ASSUME Keyed, r.route \in Writes, r.key = None
        PROVE  FALSE
    <3> DEFINE last == Len(checks(r))
    <3>1. last > 0 /\ checks(r)[last] = noKey(r)
      BY <1>4, <1>5, <2>2 DEF checks, Keyed
    <3>2. last \in DOMAIN checks(r)
      BY <1>7, <3>1
    <3>3. checks(r)[last].applies
      <4>1. (r.route \in Writes /\ r.key = None) = TRUE
        BY <2>2
      <4>2. noKey(r).applies = TRUE
        BY <4>1 DEF noKey, When
      <4> QED BY <3>1, <4>2
    <3>4. last \in applying
      BY <3>2, <3>3
    <3> QED BY <1>8, <3>4
  <2> QED BY <2>1, <2>2
<1>9. CASE applying # {}
  <2>1. applying \subseteq Nat
    <3>1. DOMAIN checks(r) = 1..Len(checks(r)) /\ Len(checks(r)) \in Nat
      BY <1>7
    <3> QED BY <3>1
  <2>2. (CHOOSE n \in applying : \A m \in applying : n <= m) \in applying
    BY <1>9, <2>1, Least
  <2>3. \A n \in DOMAIN checks(r) : checks(r)[n] \in Check
    BY <1>7
  <2>4. refusal(r) \in Code \ {"IDEMPOTENCY_KEY_REUSED"}
    BY <1>9, <2>2, <2>3 DEF refusal, Check
  <2> QED BY <2>4, NoneAssumption
<1> QED BY <1>8, <1>9


-----------------------------------------------------------------------------
(* Types                                                                   *)

\* A request that is looked at is one of the call's, which has not run, and what
\* waits behind it are other calls.
LEMMA Arriving ==
  ASSUME IInv, NEW c \in Calls, NEW r \in Requests[c], Arrives(c, r)
  PROVE  /\ r \in Request /\ call[c].pc \in {"unsent", "queued"}
         /\ operation[c] = "none" /\ call[c].tries = 0 /\ effects[c] = 0
         /\ lines' \in Seq(Calls) /\ (deployment.transport # "stdio" => lines' = <<>>)
         /\ \A n \in DOMAIN lines' :
              lines'[n] # c /\ lines'[n] \in Calls /\ call[lines'[n]].pc = "queued"
         /\ \A m, n \in DOMAIN lines' : lines'[m] = lines'[n] => m = n
<1>1. r \in Request
  BY TransportAssumption
<1>2. CASE deployment.transport = "stdio"
  <2>1. lines \in Seq(Calls) /\ lines # <<>> /\ c = lines[1] /\ lines' = Tail(lines)
    BY <1>2 DEF IInv, TypeOK, Arrives
  <2>2. 1 \in DOMAIN lines /\ call[c].pc = "queued"
    BY <2>1 DEF IInv, QueueSound
  <2>3. /\ lines' \in Seq(Calls)
        /\ \A n \in DOMAIN lines' :
             n \in Nat \ {0} /\ n + 1 \in DOMAIN lines /\ lines'[n] = lines[n + 1]
    BY <2>1
  <2>4. \A n \in DOMAIN lines' : lines'[n] # c /\ lines'[n] \in Calls
    <3> SUFFICES ASSUME NEW n \in DOMAIN lines'
                 PROVE  lines'[n] # c /\ lines'[n] \in Calls
      OBVIOUS
    <3>1. n + 1 # 1
      BY <2>3
    <3>2. lines'[n] # c
      BY <2>1, <2>2, <2>3, <3>1 DEF IInv, QueueSound
    <3> QED BY <2>3, <3>2
  <2>5. \A m, n \in DOMAIN lines' : lines'[m] = lines'[n] => m = n
    BY <2>3 DEF IInv, QueueSound
  <2> QED BY <1>1, <1>2, <2>2, <2>3, <2>4, <2>5 DEF IInv, CallSound, QueueSound
<1>3. CASE deployment.transport # "stdio"
  BY <1>1, <1>3 DEF IInv, TypeOK, QueueSound, CallSound, Arrives
<1> QED BY <1>2, <1>3

\* What a client is told is a call's record.
LEMMA ToldIsCall ==
  ASSUME TypeOK, NEW c \in Calls, NEW r \in Request, NEW code \in Code \cup {None},
         NEW result \in Result \cup {None}, Told(c, r, code, result)
  PROVE  call' \in [Calls -> Call]
<1>1. call[c] \in Call /\ epoch \in 0..MaxRestarts
  BY DEF TypeOK
<1>2. [pc |-> "answered", request |-> r, tries |-> call[c].tries, epoch |-> epoch,
       code |-> code, result |-> result] \in Call
  BY <1>1 DEF Call
<1> QED BY <1>2 DEF TypeOK, Told

LEMMA SizedIsCode ==
  ASSUME NEW r
  PROVE  sized(r) \in Code /\ sized(r) # "IDEMPOTENCY_KEY_REUSED"
  BY DEF sized, Code

\* What is kept is an entry, under a slot.
LEMMA RecordedIsEntry ==
  ASSUME IInv, NEW r \in Request, recorded(r) # None
  PROVE  /\ Keyed /\ r.route \in Writes /\ r.key # None /\ Slot(r) \in Slots
         /\ recorded(r) \in Entry
         /\ deployment.transport = "rest" => recorded(r) = kept[Slot(r)]
         /\ deployment.transport = "worker" => recorded(r) = row[Slot(r)]
         /\ Produced(Slot(r), recorded(r))
<1>1. Keyed /\ r.route \in Writes /\ r.key # None
  BY DEF recorded, Keyed
<1>2. Slot(r) \in Slots
  BY <1>1 DEF Slot, Slots, Request
<1>3. /\ deployment.transport = "rest" => recorded(r) = kept[Slot(r)]
      /\ deployment.transport = "worker" => recorded(r) = row[Slot(r)]
  BY <1>1 DEF recorded, Slot
<1> QED BY <1>1, <1>2, <1>3 DEF Keyed, IInv, TypeOK, KeptSound, RowSound

\* What an operation's request is known to be.
LEMMA Requested ==
  ASSUME IInv, NEW c \in Calls, operation[c] # "none"
  PROVE  /\ call[c] \in Call /\ call[c].request \in Request
         /\ call[c].tries \in 1..Attempts /\ <<c, call[c].tries>> \in Result
         /\ (Keyed /\ call[c].request.route \in Writes) => Slot(call[c].request) \in Slots
<1>1. call[c] \in Call /\ call[c].request # None /\ call[c].tries > 0
  BY DEF IInv, TypeOK, CallSound
<1>2. call[c].request \in Request /\ call[c].tries \in 1..Attempts
  BY <1>1, TransportAssumption DEF Call
<1>3. (Keyed /\ call[c].request.route \in Writes) => call[c].request.key # None
  BY DEF IInv, CallSound
<1> QED BY <1>1, <1>2, <1>3 DEF Slot, Slots, Request, Result

\* The code of an error is none of those that have a meaning for keys.
LEMMA ErrorIsCode ==
  ASSUME NEW t \in Transport, NEW f \in Failure
  PROVE  errorCode[t][f] \in Code /\ errorCode[t][f] # "IDEMPOTENCY_KEY_REUSED"
<1>1. errorCode[t][f] \in {errorCode[u][g] : u \in Transport, g \in Failure}
  OBVIOUS
<1>2. errorCode[t][f] \in Code
  BY <1>1 DEF Code
<1>3. errorCode[t][f] # "IDEMPOTENCY_KEY_REUSED"
  BY DEF errorCode, restErrorCode, workerErrorCode, normalizeError, errorPayload, Failure,
         Transport
<1> QED BY <1>2, <1>3

LEMMA InternalIsCode == "INTERNAL_ERROR" \in Code
<1>1. "rest" \in Transport /\ "Internal" \in Failure
  BY DEF Failure, Transport
<1>2. errorCode["rest"]["Internal"] = "INTERNAL_ERROR"
  BY <1>1 DEF errorCode, restErrorCode
<1> QED BY <1>1, <1>2, ErrorIsCode

LEMMA TypeStep ==
  ASSUME IInv, Next
  PROVE  TypeOK'
<1> USE DEF IInv
<1>1. ASSUME NEW c \in Calls, NEW r \in Requests[c], SendLine(c, r)
      PROVE  TypeOK'
  <2>1. r \in Request /\ call[c] \in Call
    BY TransportAssumption DEF TypeOK
  <2>2. [call[c] EXCEPT !.pc = "queued", !.request = r] \in Call
    BY <2>1 DEF Call
  <2>3. call' = [call EXCEPT ![c] = [call[c] EXCEPT !.pc = "queued", !.request = r]]
    BY <1>1, <2>1 DEF SendLine, TypeOK, Call
  <2> QED BY <1>1, <2>2, <2>3 DEF SendLine, TypeOK
<1>2. ASSUME NEW c \in Calls, NEW r \in Requests[c],
             Refuse(c, r) \/ RefuseReuse(c, r) \/ Replay(c, r)
      PROVE  TypeOK'
  <2>1. r \in Request /\ lines' \in Seq(Calls)
    BY <1>2, Arriving DEF Refuse, RefuseReuse, Replay
  <2>2. \E code \in Code \cup {None}, result \in Result \cup {None} : Told(c, r, code, result)
    <3>1. CASE Refuse(c, r)
      BY <2>1, <3>1, RefusalIsCode DEF Refuse
    <3>2. CASE RefuseReuse(c, r)
      BY <3>2 DEF RefuseReuse, Code
    <3>3. CASE Replay(c, r)
      <4>1. recorded(r).result \in Result
        BY <2>1, <3>3, RecordedIsEntry DEF Replay, Entry
      <4> QED BY <3>3, <4>1, SizedIsCode DEF Replay
    <3> QED BY <1>2, <3>1, <3>2, <3>3
  <2>3. call' \in [Calls -> Call]
    BY <2>1, <2>2, ToldIsCall
  <2> QED BY <1>2, <2>1, <2>3 DEF Refuse, RefuseReuse, Replay, TypeOK
<1>3. ASSUME NEW c \in Calls, NEW r \in Requests[c], Invoke(c, r)
      PROVE  TypeOK'
  <2>1. r \in Request /\ lines' \in Seq(Calls) /\ call[c] \in Call
    BY <1>3, Arriving DEF Invoke, TypeOK
  <2> DEFINE k == [call[c] EXCEPT !.pc = "running", !.request = r, !.tries = 1, !.epoch = epoch]
  <2>2. k \in Call
    <3>1. 1 \in 0..Attempts /\ epoch \in 0..MaxRestarts
      BY TransportAssumption DEF TypeOK
    <3> QED BY <2>1, <3>1 DEF Call
  <2>3. call' = [call EXCEPT ![c] = k]
    BY <1>3, <2>1 DEF Invoke, TypeOK, Call
  <2> QED BY <1>3, <2>1, <2>2, <2>3 DEF Invoke, TypeOK
<1>15. ASSUME NEW c \in Calls, NEW r \in Requests[c], Miss(c, r)
       PROVE  TypeOK'
  <2>1. r \in Request /\ lines' \in Seq(Calls) /\ call[c] \in Call /\ epoch \in 0..MaxRestarts
    BY <1>15, Arriving DEF Miss, TypeOK
  <2>2. [call[c] EXCEPT !.pc = "missed", !.request = r, !.epoch = epoch] \in Call
    BY <2>1 DEF Call
  <2>3. call' = [call EXCEPT ![c] = [call[c] EXCEPT !.pc = "missed", !.request = r,
                                                    !.epoch = epoch]]
    BY <1>15, <2>1 DEF Miss, TypeOK, Call
  <2> QED BY <1>15, <2>1, <2>2, <2>3 DEF Miss, TypeOK
<1>16. ASSUME NEW c \in Calls, NEW r \in Requests[c], LookupFails(c, r)
       PROVE  TypeOK'
  <2>1. r \in Request /\ lines' \in Seq(Calls)
    BY <1>16, Arriving DEF LookupFails
  <2>2. call' \in [Calls -> Call]
    BY <1>16, <2>1, InternalIsCode, ToldIsCall DEF LookupFails
  <2> QED BY <1>16, <2>1, <2>2 DEF LookupFails, TypeOK
<1>17. ASSUME NEW c \in Calls, Start(c)
       PROVE  TypeOK'
  <2>1. call[c] \in Call /\ 1 \in 0..Attempts
    BY TransportAssumption DEF TypeOK
  <2>2. [call[c] EXCEPT !.pc = "running", !.tries = 1] \in Call
    BY <2>1 DEF Call
  <2>3. call' = [call EXCEPT ![c] = [call[c] EXCEPT !.pc = "running", !.tries = 1]]
    BY <1>17, <2>1 DEF Start, TypeOK, Call
  <2> QED BY <1>17, <2>2, <2>3 DEF Start, TypeOK
<1>4. ASSUME NEW c \in Calls, TakeEffect(c)
      PROVE  TypeOK'
  <2>1. effects[c] + 1 \in 0..Attempts
    BY <1>4, TransportAssumption DEF TakeEffect, TypeOK, CallSound, Call
  <2> QED BY <1>4, <2>1 DEF TakeEffect, TypeOK
<1>5. ASSUME NEW c \in Calls, ReturnKept(c)
      PROVE  TypeOK'
  <2> DEFINE r == call[c].request
             result == <<c, call[c].tries>>
  <2>1. r \in Request /\ result \in Result
    BY <1>5, Requested DEF ReturnKept, CallSound
  <2>2. call' \in [Calls -> Call]
    BY <1>5, <2>1, ToldIsCall, SizedIsCode DEF ReturnKept
  <2>3. [body |-> r.body, result |-> result] \in Entry
    BY <2>1 DEF Request, Entry
  <2>4. kept' \in [Slots -> Entry \cup {None}]
    BY <1>5, <2>3 DEF ReturnKept, TypeOK
  <2> QED BY <1>5, <2>2, <2>4 DEF ReturnKept, TypeOK
<1>6. ASSUME NEW c \in Calls, ReturnToWorker(c)
      PROVE  TypeOK'
  <2>1. call[c] \in Call /\ call[c].request \in Request /\ <<c, call[c].tries>> \in Result
    BY <1>6, Requested DEF ReturnToWorker, CallSound
  <2>2. call' \in [Calls -> Call]
    <3>1. CASE call[c].request.route \in Writes
      <4>1. call' = [call EXCEPT ![c] = [call[c] EXCEPT !.pc = "insert"]]
        BY <1>6, <3>1 DEF ReturnToWorker
      <4>2. [call[c] EXCEPT !.pc = "insert"] \in Call
        BY <2>1 DEF Call
      <4> QED BY <4>1, <4>2 DEF TypeOK
    <3>2. CASE call[c].request.route \notin Writes
      <4>1. "OK" \in Code
        BY DEF Code
      <4> QED BY <1>6, <2>1, <3>2, <4>1, ToldIsCall DEF ReturnToWorker
    <3> QED BY <3>1, <3>2
  <2> QED BY <1>6, <2>2 DEF ReturnToWorker, TypeOK
<1>7. ASSUME NEW c \in Calls, ReturnLate(c)
      PROVE  TypeOK'
  BY <1>7 DEF ReturnLate, TypeOK
<1>8. ASSUME NEW c \in Calls, NEW f \in Failure, Throw(c, f)
      PROVE  TypeOK'
  <2>1. call' \in [Calls -> Call]
    <3>1. CASE call[c].pc = "running"
      <4>1. call[c].request \in Request
        BY <3>1, Requested DEF CallSound
      <4>2. deployment.transport \in Transport
        BY TransportAssumption DEF TypeOK, Deployment
      <4>3. errorCode[deployment.transport][f] \in Code
        BY <4>2, ErrorIsCode
      <4> QED BY <1>8, <3>1, <4>1, <4>3, ToldIsCall DEF Throw
    <3>2. CASE call[c].pc # "running"
      BY <1>8, <3>2 DEF Throw, TypeOK
    <3> QED BY <3>1, <3>2
  <2> QED BY <1>8, <2>1 DEF Throw, TypeOK
<1>9. ASSUME NEW c \in Calls, NEW f \in Failure, Retry(c, f)
      PROVE  TypeOK'
  <2>1. call[c] \in Call
    BY DEF TypeOK
  <2>2. [call[c] EXCEPT !.tries = call[c].tries + 1] \in Call
    BY <1>9, <2>1, TransportAssumption DEF Retry, Call
  <2>3. call' = [call EXCEPT ![c] = [call[c] EXCEPT !.tries = call[c].tries + 1]]
    BY <1>9, <2>1 DEF Retry, TypeOK, Call
  <2> QED BY <1>9, <2>2, <2>3 DEF Retry, TypeOK
<1>10. ASSUME NEW c \in Calls, NEW heard \in BOOLEAN, PutIdempotency(c, heard)
       PROVE  TypeOK'
  <2> DEFINE r == call[c].request
             e == [body |-> r.body, result |-> <<c, call[c].tries>>]
  <2>1. call[c] \in Call /\ r \in Request /\ <<c, call[c].tries>> \in Result
    BY <1>10, Requested DEF PutIdempotency, CallSound
  <2>2. [call[c] EXCEPT !.pc = "recorded"] \in Call
    BY <2>1 DEF Call
  <2>3. e \in Entry
    BY <2>1 DEF Entry, Request
  <2>4. call' \in [Calls -> Call]
    <3>1. CASE heard
      BY <1>10, <2>2, <3>1 DEF PutIdempotency, TypeOK
    <3>2. CASE ~heard
      <4>1. Told(c, r, "INTERNAL_ERROR", None)
        BY <1>10, <3>2 DEF PutIdempotency
      <4> QED BY <2>1, <4>1, InternalIsCode, ToldIsCall
    <3> QED BY <3>1, <3>2
  <2> QED BY <1>10, <2>3, <2>4 DEF PutIdempotency, TypeOK
<1>11. ASSUME NEW c \in Calls, PutIdempotencyFails(c) \/ Timeout(c)
       PROVE  TypeOK'
  <2>1. call[c].request \in Request
    BY <1>11, Requested DEF PutIdempotencyFails, Timeout, CallSound
  <2>2. "INTERNAL_ERROR" \in Code /\ "UPSTREAM_TIMEOUT" \in Code
    BY InternalIsCode DEF Code
  <2>3. call' \in [Calls -> Call]
    BY <1>11, <2>1, <2>2, ToldIsCall DEF PutIdempotencyFails, Timeout
  <2> QED BY <1>11, <2>3 DEF PutIdempotencyFails, Timeout, TypeOK
<1>12. ASSUME NEW c \in Calls, SendRecorded(c)
       PROVE  TypeOK'
  <2>1. call[c].request \in Request /\ <<c, call[c].tries>> \in Result /\ "OK" \in Code
    BY <1>12, Requested DEF SendRecorded, CallSound, Code
  <2>2. call' \in [Calls -> Call]
    BY <1>12, <2>1, ToldIsCall DEF SendRecorded
  <2> QED BY <1>12, <2>2 DEF SendRecorded, TypeOK
<1>13. ASSUME NEW c \in Calls, Terminate(c)
       PROVE  TypeOK'
  <2>1. [call[c] EXCEPT !.pc = "lost"] \in Call
    BY DEF TypeOK, Call
  <2> QED BY <1>13, <2>1 DEF Terminate, TypeOK, Cut
<1>14. ASSUME Restart
       PROVE  TypeOK'
  <2>1. call' \in [Calls -> Call]
    <3>1. \A c \in Calls : [call[c] EXCEPT !.pc = "lost"] \in Call /\ call[c] \in Call
      BY DEF TypeOK, Call
    <3> QED BY <1>14, <3>1 DEF Restart
  <2> QED BY <1>14, <2>1, TransportAssumption DEF Restart, TypeOK, Cut
<1> QED
  BY <1>1, <1>2, <1>3, <1>4, <1>5, <1>6, <1>7, <1>8, <1>9, <1>10, <1>11, <1>12, <1>13, <1>14,
     <1>15, <1>16, <1>17
  DEF Next, Serve

-----------------------------------------------------------------------------
(* Calls                                                                   *)

\* What a step leaves of a call: an answer for good, and the request and the
\* effects of an operation that is done.
Stays(d) ==
  /\ call[d].pc \in {"answered", "lost"} => call'[d] = call[d]
  /\ call[d].pc = "answered" /\ operation[d] = "none" => operation'[d] = "none"
  /\ operation[d] # "none" => operation'[d] # "none" /\ call'[d].request = call[d].request
  /\ operation[d] = "done" =>
       operation'[d] = "done" /\ call'[d].tries = call[d].tries /\ effects'[d] = effects[d]

LEMMA CallsStay ==
  ASSUME IInv, Next
  PROVE  deployment' = deployment /\ \A d \in Calls : Stays(d)
<1>1. ASSUME NEW c \in Calls, NEW r \in Requests[c], SendLine(c, r)
      PROVE  deployment' = deployment /\ \A d \in Calls : Stays(d)
  BY <1>1 DEF SendLine, IInv, TypeOK, CallSound, Call, Finishing, MayThrow, Stays
<1>2. ASSUME NEW c \in Calls, NEW r \in Requests[c], Refuse(c, r)
      PROVE  deployment' = deployment /\ \A d \in Calls : Stays(d)
  BY <1>2, Arriving DEF Refuse, Told, TypeOK, CallSound, QueueSound, Call, Calls, IInv, Stays
<1>3. ASSUME NEW c \in Calls, NEW r \in Requests[c], RefuseReuse(c, r)
      PROVE  deployment' = deployment /\ \A d \in Calls : Stays(d)
  BY <1>3, Arriving DEF RefuseReuse, Told, TypeOK, CallSound, QueueSound, Call, Calls, IInv, Stays
<1>4. ASSUME NEW c \in Calls, NEW r \in Requests[c], Replay(c, r)
      PROVE  deployment' = deployment /\ \A d \in Calls : Stays(d)
  BY <1>4, Arriving DEF Replay, Told, TypeOK, CallSound, QueueSound, Call, Calls, IInv, Stays
<1>5. ASSUME NEW c \in Calls, NEW r \in Requests[c], Invoke(c, r)
      PROVE  deployment' = deployment /\ \A d \in Calls : Stays(d)
  BY <1>5, Arriving DEF Invoke, Told, TypeOK, CallSound, QueueSound, Call, Calls, IInv, Stays
<1>6. ASSUME NEW c \in Calls, TakeEffect(c)
      PROVE  deployment' = deployment /\ \A d \in Calls : Stays(d)
  BY <1>6 DEF TakeEffect, IInv, TypeOK, CallSound, Call, Finishing, MayThrow, Stays
<1>7. ASSUME NEW c \in Calls, ReturnKept(c)
      PROVE  deployment' = deployment /\ \A d \in Calls : Stays(d)
  BY <1>7 DEF ReturnKept, Told, IInv, TypeOK, CallSound, Call, Finishing, MayThrow, Stays
<1>8. ASSUME NEW c \in Calls, ReturnToWorker(c)
      PROVE  deployment' = deployment /\ \A d \in Calls : Stays(d)
  BY <1>8 DEF ReturnToWorker, Told, IInv, TypeOK, CallSound, Call, Finishing, MayThrow, Stays
<1>9. ASSUME NEW c \in Calls, ReturnLate(c)
      PROVE  deployment' = deployment /\ \A d \in Calls : Stays(d)
  BY <1>9 DEF ReturnLate, IInv, TypeOK, CallSound, Call, Finishing, MayThrow, Stays
<1>10. ASSUME NEW c \in Calls, NEW f \in Failure, Throw(c, f)
      PROVE  deployment' = deployment /\ \A d \in Calls : Stays(d)
  BY <1>10 DEF Throw, Told, IInv, TypeOK, CallSound, Call, Finishing, MayThrow, Stays
<1>11. ASSUME NEW c \in Calls, NEW f \in Failure, Retry(c, f)
      PROVE  deployment' = deployment /\ \A d \in Calls : Stays(d)
  BY <1>11 DEF Retry, IInv, TypeOK, CallSound, Call, Finishing, MayThrow, Stays
<1>12. ASSUME NEW c \in Calls, NEW heard \in BOOLEAN, PutIdempotency(c, heard)
      PROVE  deployment' = deployment /\ \A d \in Calls : Stays(d)
  <2>1. \/ call' = [call EXCEPT ![c].pc = "recorded"]
        \/ Told(c, call[c].request, "INTERNAL_ERROR", None)
    BY <1>12 DEF PutIdempotency
  <2>2. /\ UNCHANGED <<deployment, operation, effects>> /\ call[c].pc = "insert"
        /\ operation[c] = "done"
    BY <1>12 DEF PutIdempotency, IInv, CallSound
  <2>3. CASE call' = [call EXCEPT ![c].pc = "recorded"]
    BY <2>2, <2>3 DEF IInv, TypeOK, CallSound, Call, Stays
  <2>4. CASE Told(c, call[c].request, "INTERNAL_ERROR", None)
    BY <2>2, <2>4 DEF Told, IInv, TypeOK, CallSound, Call, Stays
  <2> QED BY <2>1, <2>3, <2>4
<1>13. ASSUME NEW c \in Calls, PutIdempotencyFails(c)
      PROVE  deployment' = deployment /\ \A d \in Calls : Stays(d)
  BY <1>13 DEF PutIdempotencyFails, Told, IInv, TypeOK, CallSound, Call, Finishing, MayThrow, Stays
<1>14. ASSUME NEW c \in Calls, SendRecorded(c)
      PROVE  deployment' = deployment /\ \A d \in Calls : Stays(d)
  BY <1>14 DEF SendRecorded, Told, IInv, TypeOK, CallSound, Call, Finishing, MayThrow, Stays
<1>15. ASSUME NEW c \in Calls, Timeout(c)
      PROVE  deployment' = deployment /\ \A d \in Calls : Stays(d)
  BY <1>15 DEF Timeout, Told, IInv, TypeOK, CallSound, Call, Finishing, MayThrow, Stays
<1>16. ASSUME NEW c \in Calls, Terminate(c)
      PROVE  deployment' = deployment /\ \A d \in Calls : Stays(d)
  BY <1>16 DEF Terminate, Cut, IInv, TypeOK, CallSound, Call, Finishing, MayThrow, Stays
<1>17. ASSUME Restart
      PROVE  deployment' = deployment /\ \A d \in Calls : Stays(d)
  BY <1>17 DEF Restart, Cut, IInv, TypeOK, CallSound, Call, Finishing, MayThrow, Stays
<1>18. ASSUME NEW c \in Calls, NEW r \in Requests[c], Miss(c, r)
      PROVE  deployment' = deployment /\ \A d \in Calls : Stays(d)
  BY <1>18, Arriving DEF Miss, Told, TypeOK, CallSound, QueueSound, Call, Calls, IInv, Stays
<1>19. ASSUME NEW c \in Calls, NEW r \in Requests[c], LookupFails(c, r)
      PROVE  deployment' = deployment /\ \A d \in Calls : Stays(d)
  BY <1>19, Arriving DEF LookupFails, Told, TypeOK, CallSound, QueueSound, Call, Calls, IInv,
       Stays
<1>20. ASSUME NEW c \in Calls, Start(c)
      PROVE  deployment' = deployment /\ \A d \in Calls : Stays(d)
  BY <1>20 DEF Start, IInv, TypeOK, CallSound, Call, Stays
<1> QED
  BY <1>1, <1>2, <1>3, <1>4, <1>5, <1>6, <1>7, <1>8, <1>9, <1>10, <1>11, <1>12, <1>13, <1>14,
  <1>15, <1>16, <1>17, <1>18, <1>19, <1>20
  DEF Next, Serve

LEMMA QueueStep ==
  ASSUME IInv, Next
  PROVE  QueueSound'
<1>1. ASSUME NEW c \in Calls, NEW r \in Requests[c], SendLine(c, r)
      PROVE  QueueSound'
  BY <1>1 DEF SendLine, IInv, TypeOK, QueueSound, CallSound, Call, Finishing, MayThrow
<1>2. ASSUME NEW c \in Calls, NEW r \in Requests[c], Refuse(c, r)
      PROVE  QueueSound'
  BY <1>2, Arriving DEF Refuse, Told, IInv, TypeOK, QueueSound, CallSound
<1>3. ASSUME NEW c \in Calls, NEW r \in Requests[c], RefuseReuse(c, r)
      PROVE  QueueSound'
  BY <1>3, Arriving DEF RefuseReuse, Told, IInv, TypeOK, QueueSound, CallSound
<1>4. ASSUME NEW c \in Calls, NEW r \in Requests[c], Replay(c, r)
      PROVE  QueueSound'
  BY <1>4, Arriving DEF Replay, Told, IInv, TypeOK, QueueSound, CallSound
<1>5. ASSUME NEW c \in Calls, NEW r \in Requests[c], Invoke(c, r)
      PROVE  QueueSound'
  BY <1>5, Arriving DEF Invoke, Told, IInv, TypeOK, QueueSound, CallSound
<1>6. ASSUME NEW c \in Calls, TakeEffect(c)
      PROVE  QueueSound'
  BY <1>6 DEF TakeEffect, IInv, TypeOK, QueueSound, CallSound, Call, Finishing, MayThrow
<1>7. ASSUME NEW c \in Calls, ReturnKept(c)
      PROVE  QueueSound'
  BY <1>7 DEF ReturnKept, Told, IInv, TypeOK, QueueSound, CallSound, Call, Finishing, MayThrow
<1>8. ASSUME NEW c \in Calls, ReturnToWorker(c)
      PROVE  QueueSound'
  BY <1>8 DEF ReturnToWorker, Told, IInv, TypeOK, QueueSound, CallSound, Call, Finishing, MayThrow
<1>9. ASSUME NEW c \in Calls, ReturnLate(c)
      PROVE  QueueSound'
  BY <1>9 DEF ReturnLate, IInv, TypeOK, QueueSound, CallSound, Call, Finishing, MayThrow
<1>10. ASSUME NEW c \in Calls, NEW f \in Failure, Throw(c, f)
      PROVE  QueueSound'
  <2>1. \A d \in Calls : call[d].pc = "queued" => call'[d].pc = "queued"
    BY <1>10 DEF Throw, Told, IInv, TypeOK, CallSound, MayThrow
  <2> QED BY <1>10, <2>1 DEF Throw, IInv, TypeOK, QueueSound
<1>11. ASSUME NEW c \in Calls, NEW f \in Failure, Retry(c, f)
      PROVE  QueueSound'
  BY <1>11 DEF Retry, IInv, TypeOK, QueueSound, CallSound, Call, Finishing, MayThrow
<1>12. ASSUME NEW c \in Calls, NEW heard \in BOOLEAN, PutIdempotency(c, heard)
      PROVE  QueueSound'
  BY <1>12 DEF PutIdempotency, Told, IInv, TypeOK, QueueSound, CallSound, Call, Finishing, MayThrow
<1>13. ASSUME NEW c \in Calls, PutIdempotencyFails(c)
      PROVE  QueueSound'
  BY <1>13 DEF PutIdempotencyFails, Told, IInv, TypeOK, QueueSound,
       CallSound, Call, Finishing, MayThrow
<1>14. ASSUME NEW c \in Calls, SendRecorded(c)
      PROVE  QueueSound'
  BY <1>14 DEF SendRecorded, Told, IInv, TypeOK, QueueSound, CallSound, Call, Finishing, MayThrow
<1>15. ASSUME NEW c \in Calls, Timeout(c)
      PROVE  QueueSound'
  BY <1>15 DEF Timeout, Told, IInv, TypeOK, QueueSound, CallSound, Call, Finishing, MayThrow
<1>16. ASSUME NEW c \in Calls, Terminate(c)
      PROVE  QueueSound'
  BY <1>16 DEF Terminate, Cut, IInv, TypeOK, QueueSound, CallSound, Call, Finishing, MayThrow
<1>17. ASSUME Restart
      PROVE  QueueSound'
  BY <1>17 DEF Restart, Cut, IInv, TypeOK, QueueSound, CallSound, Call, Finishing, MayThrow
<1>18. ASSUME NEW c \in Calls, NEW r \in Requests[c], Miss(c, r)
      PROVE  QueueSound'
  BY <1>18, Arriving DEF Miss, IInv, TypeOK, QueueSound, CallSound
<1>19. ASSUME NEW c \in Calls, NEW r \in Requests[c], LookupFails(c, r)
      PROVE  QueueSound'
  BY <1>19, Arriving DEF LookupFails, Told, IInv, TypeOK, QueueSound, CallSound
<1>20. ASSUME NEW c \in Calls, Start(c)
      PROVE  QueueSound'
  BY <1>20 DEF Start, IInv, TypeOK, QueueSound, CallSound, Call
<1> QED
  BY <1>1, <1>2, <1>3, <1>4, <1>5, <1>6, <1>7, <1>8, <1>9, <1>10, <1>11, <1>12, <1>13, <1>14,
  <1>15, <1>16, <1>17, <1>18, <1>19, <1>20
  DEF Next, Serve

LEMMA CallStep ==
  ASSUME IInv, Next
  PROVE  \A d \in Calls : CallSound(d)'
<1>1. ASSUME NEW c \in Calls, NEW r \in Requests[c], SendLine(c, r)
      PROVE  \A d \in Calls : CallSound(d)'
  BY <1>1 DEF SendLine, IInv, TypeOK, CallSound, Call, Finishing, MayThrow, Keyed
<1>2. ASSUME NEW c \in Calls, NEW r \in Requests[c], Refuse(c, r)
      PROVE  \A d \in Calls : CallSound(d)'
  BY <1>2, Arriving, RefusalIsCode DEF Refuse, Told, IInv, TypeOK, CallSound, Keyed
<1>3. ASSUME NEW c \in Calls, NEW r \in Requests[c], RefuseReuse(c, r)
      PROVE  \A d \in Calls : CallSound(d)'
  BY <1>3, Arriving, RefusalIsCode DEF RefuseReuse, Told, IInv, TypeOK, CallSound, Keyed
<1>4. ASSUME NEW c \in Calls, NEW r \in Requests[c], Replay(c, r)
      PROVE  \A d \in Calls : CallSound(d)'
  BY <1>4, Arriving, RefusalIsCode DEF Replay, Told, IInv, TypeOK, CallSound, Keyed
<1>5. ASSUME NEW c \in Calls, NEW r \in Requests[c], Invoke(c, r)
      PROVE  \A d \in Calls : CallSound(d)'
  <2>1. r \in Request /\ call[c].pc \in {"unsent", "queued"} /\ effects[c] = 0
    BY <1>5, Arriving DEF Invoke
  <2>2. (Keyed /\ r.route \in Writes) => r.key # None
    BY <1>5, <2>1, RefusalIsCode DEF Invoke, IInv
  <2> QED BY <1>5, <2>1, <2>2, NoneAssumption DEF Invoke, IInv, TypeOK, CallSound, Keyed, Call
<1>6. ASSUME NEW c \in Calls, TakeEffect(c)
      PROVE  \A d \in Calls : CallSound(d)'
  BY <1>6 DEF TakeEffect, IInv, TypeOK, CallSound, Call, Finishing, MayThrow, Keyed
<1>7. ASSUME NEW c \in Calls, ReturnKept(c)
      PROVE  \A d \in Calls : CallSound(d)'
  BY <1>7, TransportAssumption DEF ReturnKept, Told, IInv, TypeOK,
       CallSound, Call, Finishing, MayThrow, Keyed
<1>8. ASSUME NEW c \in Calls, ReturnToWorker(c)
      PROVE  \A d \in Calls : CallSound(d)'
  BY <1>8, TransportAssumption DEF ReturnToWorker, Told, IInv, TypeOK,
       CallSound, Call, Finishing, MayThrow, Keyed
<1>9. ASSUME NEW c \in Calls, ReturnLate(c)
      PROVE  \A d \in Calls : CallSound(d)'
  BY <1>9, TransportAssumption DEF ReturnLate, IInv, TypeOK,
       CallSound, Call, Finishing, MayThrow, Keyed
<1>10. ASSUME NEW c \in Calls, NEW f \in Failure, Throw(c, f)
      PROVE  \A d \in Calls : CallSound(d)'
  BY <1>10 DEF Throw, Told, IInv, TypeOK, CallSound, Call, Finishing, MayThrow, Keyed
<1>11. ASSUME NEW c \in Calls, NEW f \in Failure, Retry(c, f)
      PROVE  \A d \in Calls : CallSound(d)'
  BY <1>11 DEF Retry, IInv, TypeOK, CallSound, Call, Finishing, MayThrow, Keyed
<1>12. ASSUME NEW c \in Calls, NEW heard \in BOOLEAN, PutIdempotency(c, heard)
      PROVE  \A d \in Calls : CallSound(d)'
  <2>1. \/ call' = [call EXCEPT ![c].pc = "recorded"]
        \/ Told(c, call[c].request, "INTERNAL_ERROR", None)
    BY <1>12 DEF PutIdempotency
  <2>2. /\ UNCHANGED <<deployment, operation, effects>> /\ call[c].pc = "insert"
        /\ operation[c] = "done"
    BY <1>12 DEF PutIdempotency, IInv, CallSound
  <2>3. CASE call' = [call EXCEPT ![c].pc = "recorded"]
    BY <2>2, <2>3 DEF IInv, TypeOK, CallSound, Call, Keyed
  <2>4. CASE Told(c, call[c].request, "INTERNAL_ERROR", None)
    BY <2>2, <2>4 DEF Told, IInv, TypeOK, CallSound, Call, Keyed
  <2> QED BY <2>1, <2>3, <2>4
<1>13. ASSUME NEW c \in Calls, PutIdempotencyFails(c)
      PROVE  \A d \in Calls : CallSound(d)'
  BY <1>13 DEF PutIdempotencyFails, Told, IInv, TypeOK, CallSound, Call, Finishing, MayThrow, Keyed
<1>14. ASSUME NEW c \in Calls, SendRecorded(c)
      PROVE  \A d \in Calls : CallSound(d)'
  BY <1>14 DEF SendRecorded, Told, IInv, TypeOK, CallSound, Call, Finishing, MayThrow, Keyed
<1>15. ASSUME NEW c \in Calls, Timeout(c)
      PROVE  \A d \in Calls : CallSound(d)'
  BY <1>15 DEF Timeout, Told, IInv, TypeOK, CallSound, Call, Finishing, MayThrow, Keyed
<1>16. ASSUME NEW c \in Calls, Terminate(c)
      PROVE  \A d \in Calls : CallSound(d)'
  BY <1>16 DEF Terminate, Cut, IInv, TypeOK, CallSound, Call, Finishing, MayThrow, Keyed
<1>17. ASSUME Restart
      PROVE  \A d \in Calls : CallSound(d)'
  BY <1>17 DEF Restart, Cut, IInv, TypeOK, CallSound, Call, Finishing, MayThrow, Keyed
<1>18. ASSUME NEW c \in Calls, NEW r \in Requests[c], Miss(c, r)
      PROVE  \A d \in Calls : CallSound(d)'
  <2>1. /\ r \in Request /\ call[c].pc \in {"unsent", "queued"} /\ effects[c] = 0
        /\ operation[c] = "none" /\ call[c].tries = 0
    BY <1>18, Arriving DEF Miss
  <2>2. Keyed /\ r.route \in Writes /\ deployment.transport = "worker"
    BY <1>18 DEF Miss, LooksUp, Keyed
  <2>3. r.key # None
    BY <1>18, <2>1, <2>2, RefusalIsCode DEF Miss, IInv
  <2> QED
    BY <1>18, <2>1, <2>2, <2>3, NoneAssumption DEF Miss, IInv, TypeOK, CallSound, Keyed, Call
<1>19. ASSUME NEW c \in Calls, NEW r \in Requests[c], LookupFails(c, r)
      PROVE  \A d \in Calls : CallSound(d)'
  BY <1>19, Arriving, RefusalIsCode DEF LookupFails, Told, IInv, TypeOK, CallSound, Keyed
<1>20. ASSUME NEW c \in Calls, Start(c)
      PROVE  \A d \in Calls : CallSound(d)'
  BY <1>20 DEF Start, IInv, TypeOK, CallSound, Keyed, Call
<1> QED
  BY <1>1, <1>2, <1>3, <1>4, <1>5, <1>6, <1>7, <1>8, <1>9, <1>10, <1>11, <1>12, <1>13, <1>14,
  <1>15, <1>16, <1>17, <1>18, <1>19, <1>20
  DEF Next, Serve

-----------------------------------------------------------------------------
(* What is kept, and what clients have heard                               *)

\* What an operation has produced it has produced for good.
After(s, e) ==
  LET d == e.result[1]
  IN  /\ operation'[d] = "done" /\ call'[d].tries = e.result[2]
      /\ call'[d].request # None /\ Slot(call'[d].request) = s
      /\ call'[d].request.body = e.body

LEMMA ProducedStays ==
  ASSUME IInv, Next
  PROVE  \A s \in Slots, e \in Entry : Produced(s, e) => After(s, e)
<1>1. \A e \in Entry : e.result[1] \in Calls
  BY DEF Entry, Result
<1> QED BY <1>1, CallsStay DEF Stays, Produced, After

\* A step that changes no more than where a call is, and one that is an answer.
Unheard(c) ==
  /\ call'[c].result = None /\ call'[c].code # "IDEMPOTENCY_KEY_REUSED"
  /\ call'[c].pc # "recorded" /\ call'[c].epoch \in {call[c].epoch, epoch}

Hears(c) ==
  \/ call'[c] = call[c]
  \/ Unheard(c)
  \/ \E r \in Requests[c] : Replay(c, r) \/ RefuseReuse(c, r)
  \/ ReturnKept(c) \/ PutIdempotency(c, TRUE) \/ SendRecorded(c)
  \/ ReturnToWorker(c) /\ call[c].request.route \notin Writes

LEMMA NoReuse == None # "IDEMPOTENCY_KEY_REUSED"
<1>1. "IDEMPOTENCY_KEY_REUSED" \in Code
  BY DEF Code
<1> QED BY <1>1, NoneAssumption

LEMMA Answers ==
  ASSUME IInv, Next
  PROVE  \A d \in Calls : Hears(d)
<1>1. ASSUME NEW c \in Calls, NEW r \in Requests[c], SendLine(c, r)
      PROVE  \A d \in Calls : Hears(d)
  BY <1>1, NoReuse DEF SendLine, Unheard, Hears, IInv, TypeOK, CallSound, Call
<1>2. ASSUME NEW c \in Calls, NEW r \in Requests[c], Refuse(c, r)
      PROVE  \A d \in Calls : Hears(d)
  <2>1. refusal(r) # "IDEMPOTENCY_KEY_REUSED"
    BY <1>2, Arriving, RefusalIsCode DEF Refuse, IInv
  <2> QED BY <1>2, <2>1 DEF Refuse, Told, Unheard, Hears, IInv, TypeOK
<1>3. ASSUME NEW c \in Calls, NEW r \in Requests[c], RefuseReuse(c, r)
      PROVE  \A d \in Calls : Hears(d)
  <2>1. \A d \in Calls \ {c} : call'[d] = call[d]
    BY <1>3 DEF RefuseReuse, Told, IInv, TypeOK
  <2> QED BY <1>3, <2>1 DEF Hears
<1>4. ASSUME NEW c \in Calls, NEW r \in Requests[c], Replay(c, r)
      PROVE  \A d \in Calls : Hears(d)
  <2>1. \A d \in Calls \ {c} : call'[d] = call[d]
    BY <1>4 DEF Replay, Told, IInv, TypeOK
  <2> QED BY <1>4, <2>1 DEF Hears
<1>5. ASSUME NEW c \in Calls, NEW r \in Requests[c], Invoke(c, r)
      PROVE  \A d \in Calls : Hears(d)
  <2>1. call[c].pc \in {"unsent", "queued"}
    BY <1>5, Arriving DEF Invoke
  <2>2. call[c].code # "IDEMPOTENCY_KEY_REUSED" /\ call[c].result = None
    BY <2>1, NoReuse DEF IInv, CallSound
  <2>3. /\ \A d \in Calls \ {c} : call'[d] = call[d]
        /\ call'[c].result = None /\ call'[c].code = call[c].code
        /\ call'[c].pc = "running" /\ call'[c].epoch = epoch
    BY <1>5, <2>2 DEF Invoke, IInv, TypeOK, Call
  <2> QED BY <2>2, <2>3 DEF Unheard, Hears
<1>6. ASSUME NEW c \in Calls, TakeEffect(c)
      PROVE  \A d \in Calls : Hears(d)
  BY <1>6 DEF TakeEffect, Unheard, Hears, IInv, TypeOK, CallSound, Call
<1>7. ASSUME NEW c \in Calls, ReturnKept(c)
      PROVE  \A d \in Calls : Hears(d)
  <2>1. \A d \in Calls \ {c} : call'[d] = call[d]
    BY <1>7 DEF ReturnKept, Told, IInv, TypeOK
  <2> QED BY <1>7, <2>1 DEF Hears
<1>8. ASSUME NEW c \in Calls, ReturnToWorker(c)
      PROVE  \A d \in Calls : Hears(d)
  <2>1. \A d \in Calls \ {c} : call'[d] = call[d]
    BY <1>8 DEF ReturnToWorker, Told, IInv, TypeOK
  <2>2. call[c].request.route \in Writes => Unheard(c)
    BY <1>8, NoReuse DEF ReturnToWorker, Unheard, IInv, TypeOK, CallSound, Call
  <2> QED BY <1>8, <2>1, <2>2 DEF Hears
<1>9. ASSUME NEW c \in Calls, ReturnLate(c)
      PROVE  \A d \in Calls : Hears(d)
  BY <1>9 DEF ReturnLate, Unheard, Hears, IInv, TypeOK, CallSound, Call
<1>10. ASSUME NEW c \in Calls, NEW f \in Failure, Throw(c, f)
      PROVE  \A d \in Calls : Hears(d)
  <2>1. deployment.transport \in Transport
    BY TransportAssumption DEF IInv, TypeOK, Deployment
  <2>2. errorCode[deployment.transport][f] # "IDEMPOTENCY_KEY_REUSED"
    BY <2>1, ErrorIsCode
  <2>3. \A d \in Calls \ {c} : call'[d] = call[d]
    BY <1>10 DEF Throw, Told, IInv, TypeOK
  <2>4. call'[c] = call[c] \/ Unheard(c)
    BY <1>10, <2>2 DEF Throw, Told, Unheard, IInv, TypeOK
  <2> QED BY <2>3, <2>4 DEF Hears
<1>11. ASSUME NEW c \in Calls, NEW f \in Failure, Retry(c, f)
      PROVE  \A d \in Calls : Hears(d)
  BY <1>11, NoReuse DEF Retry, Unheard, Hears, IInv, TypeOK, CallSound, Call
<1>12. ASSUME NEW c \in Calls, NEW heard \in BOOLEAN, PutIdempotency(c, heard)
      PROVE  \A d \in Calls : Hears(d)
  <2>1. \A d \in Calls \ {c} : call'[d] = call[d]
    BY <1>12 DEF PutIdempotency, Told, IInv, TypeOK
  <2>2. heard = TRUE \/ Unheard(c)
    BY <1>12 DEF PutIdempotency, Told, Unheard, IInv, TypeOK
  <2> QED BY <1>12, <2>1, <2>2 DEF Hears
<1>13. ASSUME NEW c \in Calls, PutIdempotencyFails(c)
      PROVE  \A d \in Calls : Hears(d)
  BY <1>13 DEF PutIdempotencyFails, Told, Unheard, Hears, IInv, TypeOK, CallSound, Call
<1>14. ASSUME NEW c \in Calls, SendRecorded(c)
      PROVE  \A d \in Calls : Hears(d)
  <2>1. \A d \in Calls \ {c} : call'[d] = call[d]
    BY <1>14 DEF SendRecorded, Told, IInv, TypeOK
  <2> QED BY <1>14, <2>1 DEF Hears
<1>15. ASSUME NEW c \in Calls, Timeout(c)
      PROVE  \A d \in Calls : Hears(d)
  BY <1>15 DEF Timeout, Told, Unheard, Hears, IInv, TypeOK, CallSound, Call
<1>16. ASSUME NEW c \in Calls, Terminate(c)
      PROVE  \A d \in Calls : Hears(d)
  BY <1>16, NoReuse DEF Terminate, Unheard, Hears, IInv, TypeOK, CallSound, Call
<1>17. ASSUME Restart
      PROVE  \A d \in Calls : Hears(d)
  BY <1>17, NoReuse DEF Restart, Unheard, Hears, IInv, TypeOK, CallSound, Call
<1>18. ASSUME NEW c \in Calls, NEW r \in Requests[c], Miss(c, r)
      PROVE  \A d \in Calls : Hears(d)
  <2>1. call[c].pc \in {"unsent", "queued"}
    BY <1>18, Arriving DEF Miss
  <2>2. call[c].code # "IDEMPOTENCY_KEY_REUSED" /\ call[c].result = None
    BY <2>1, NoReuse DEF IInv, CallSound
  <2>3. call \in [Calls -> Call]
    BY DEF IInv, TypeOK
  <2>4. call' = [call EXCEPT ![c].pc = "missed", ![c].request = r, ![c].epoch = epoch]
    BY <1>18 DEF Miss
  <2>5. \A d \in Calls \ {c} : call'[d] = call[d]
    BY <2>3, <2>4
  <2>6. /\ call'[c].pc = "missed" /\ call'[c].epoch = epoch
        /\ call'[c].code = call[c].code /\ call'[c].result = call[c].result
    BY <2>3, <2>4 DEF Call
  <2>7. Unheard(c)
    BY <2>2, <2>6 DEF Unheard
  <2> QED BY <2>5, <2>7 DEF Hears
<1>19. ASSUME NEW c \in Calls, NEW r \in Requests[c], LookupFails(c, r)
      PROVE  \A d \in Calls : Hears(d)
  BY <1>19 DEF LookupFails, Told, Unheard, Hears, IInv, TypeOK
<1>20. ASSUME NEW c \in Calls, Start(c)
      PROVE  \A d \in Calls : Hears(d)
  BY <1>20, NoReuse DEF Start, Unheard, Hears, IInv, TypeOK, CallSound, Call
<1> QED
  BY <1>1, <1>2, <1>3, <1>4, <1>5, <1>6, <1>7, <1>8, <1>9, <1>10, <1>11, <1>12, <1>13, <1>14,
  <1>15, <1>16, <1>17, <1>18, <1>19, <1>20
  DEF Next, Serve

\* Which steps change what is kept.
LEMMA Frame ==
  ASSUME Next
  PROVE  /\ epoch' = epoch \/ Restart
         /\ kept' = kept \/ Restart \/ \E c \in Calls : ReturnKept(c)
         /\ row' = row \/ \E c \in Calls, heard \in BOOLEAN : PutIdempotency(c, heard)
<1>1. \A c \in Calls : Serve(c) => UNCHANGED <<kept, row, epoch>>
  BY DEF Serve, Refuse, RefuseReuse, Replay, Invoke, Miss, LookupFails
<1>2. \A c \in Calls : (\E r \in Requests[c] : SendLine(c, r)) => UNCHANGED <<kept, row, epoch>>
  BY DEF SendLine
<1>3. \A c \in Calls :
        (Start(c) \/ TakeEffect(c) \/ ReturnToWorker(c) \/ ReturnLate(c))
        => UNCHANGED <<kept, row, epoch>>
  BY DEF Start, TakeEffect, ReturnToWorker, ReturnLate
<1>4. \A c \in Calls, f \in Failure : Throw(c, f) \/ Retry(c, f) => UNCHANGED <<kept, row, epoch>>
  BY DEF Throw, Retry
<1>5. \A c \in Calls :
        (PutIdempotencyFails(c) \/ SendRecorded(c) \/ Timeout(c) \/ Terminate(c))
        => UNCHANGED <<kept, row, epoch>>
  BY DEF PutIdempotencyFails, SendRecorded, Timeout, Terminate
<1>6. \A c \in Calls : ReturnKept(c) => UNCHANGED <<row, epoch>>
  BY DEF ReturnKept
<1>7. \A c \in Calls, heard \in BOOLEAN : PutIdempotency(c, heard) => UNCHANGED <<kept, epoch>>
  BY DEF PutIdempotency
<1>8. Restart => row' = row
  BY DEF Restart
<1> QED BY <1>1, <1>2, <1>3, <1>4, <1>5, <1>6, <1>7, <1>8 DEF Next

LEMMA KeptStep ==
  ASSUME IInv, Next
  PROVE  /\ KeptSound'
         /\ epoch' = epoch => \A s \in Slots : kept[s] # None => kept'[s] # None
         /\ epoch' = epoch \/ epoch' = epoch + 1
<1>1. CASE kept' = kept /\ epoch' = epoch
  <2>1. \A s \in Slots : kept[s] # None => deployment.transport = "rest" /\ After(s, kept[s])
    BY ProducedStays DEF IInv, TypeOK, KeptSound
  <2> QED BY <1>1, <2>1, CallsStay DEF KeptSound, Produced, After, Slot
<1>2. ASSUME NEW c \in Calls, ReturnKept(c), deployment.transport = "rest",
             call[c].request.route \in Writes
      PROVE  /\ KeptSound' /\ epoch' = epoch
             /\ \A s \in Slots : kept[s] # None => kept'[s] # None
  <2> DEFINE r == call[c].request
             e == [body |-> r.body, result |-> <<c, call[c].tries>>]
  <2>1. /\ operation[c] # "none" /\ Slot(r) \in Slots /\ r \in Request /\ e \in Entry
    BY <1>2, Requested DEF ReturnKept, Finishing, Keyed, Entry, Request
  <2>2. /\ operation'[c] = "done" /\ call'[c].tries = call[c].tries /\ call'[c].request = r
    BY <1>2 DEF ReturnKept, Told, IInv, TypeOK
  <2>4. After(Slot(r), e)
    BY <2>1, <2>2, NoneAssumption DEF After, Slot
  <2>5. kept' = [kept EXCEPT ![Slot(r)] = e]
    BY <1>2 DEF ReturnKept, Slot
  <2>6. \A s \in Slots : kept'[s] # None =>
          \/ s = Slot(r) /\ kept'[s] = e
          \/ s # Slot(r) /\ kept'[s] = kept[s] /\ kept[s] # None
    BY <2>5 DEF IInv, TypeOK
  <2>7. \A s \in Slots : kept[s] # None => After(s, kept[s])
    BY ProducedStays DEF IInv, TypeOK, KeptSound
  <2>8. KeptSound'
    <3>1. \A s \in Slots : kept'[s] # None => After(s, kept'[s])
      BY <2>4, <2>6, <2>7
    <3> QED BY <1>2, <3>1, CallsStay DEF KeptSound, Produced, After, Slot
  <2>9. \A s \in Slots : kept[s] # None => kept'[s] # None
    BY <2>1, <2>5, NoneAssumption DEF IInv, TypeOK
  <2> QED BY <1>2, <2>8, <2>9 DEF ReturnKept
<1>3. CASE Restart
  BY <1>3 DEF Restart, KeptSound, IInv, TypeOK
<1>4. \/ kept' = kept /\ epoch' = epoch
      \/ Restart
      \/ \E c \in Calls : /\ ReturnKept(c) /\ deployment.transport = "rest"
                         /\ call[c].request.route \in Writes
  <2>1. \A c \in Calls : ReturnKept(c) =>
          kept' = kept \/ (deployment.transport = "rest" /\ call[c].request.route \in Writes)
    BY DEF ReturnKept
  <2>2. epoch' = epoch \/ Restart
    BY Frame
  <2>3. kept' = kept \/ Restart \/ \E c \in Calls : ReturnKept(c)
    BY Frame
  <2> QED BY <2>1, <2>2, <2>3
<1> QED BY <1>1, <1>2, <1>3, <1>4 DEF IInv, TypeOK

LEMMA RowStep ==
  ASSUME IInv, Next
  PROVE  /\ RowSound'
         /\ \A s \in Slots : row[s] # None => row'[s] = row[s]
<1>1. CASE row' = row
  <2>1. \A s \in Slots : row[s] # None => deployment.transport = "worker" /\ After(s, row[s])
    BY ProducedStays DEF IInv, TypeOK, RowSound
  <2> QED BY <1>1, <2>1, CallsStay DEF RowSound, Produced, After, Slot
<1>2. ASSUME NEW c \in Calls, NEW heard \in BOOLEAN, PutIdempotency(c, heard)
      PROVE  /\ RowSound'
             /\ \A s \in Slots : row[s] # None => row'[s] = row[s]
  <2> DEFINE r == call[c].request
             e == [body |-> r.body, result |-> <<c, call[c].tries>>]
  <2>1. /\ operation[c] = "done" /\ deployment.transport = "worker" /\ r.route \in Writes
    BY <1>2 DEF PutIdempotency, IInv, CallSound
  <2>2. r \in Request /\ r # None
    BY <2>1, Requested, NoneAssumption
  <2>3. /\ operation'[c] = "done" /\ call'[c].tries = call[c].tries /\ call'[c].request = r
    BY <2>1, CallsStay DEF Stays
  <2>5. row' = [row EXCEPT ![Slot(r)] = e] /\ row[Slot(r)] = None
    BY <1>2 DEF PutIdempotency, Slot
  <2>6. RowSound'
    <3>1. After(Slot(r), e)
      BY <2>2, <2>3 DEF After, Slot
    <3>2. \A s \in Slots : row[s] # None => After(s, row[s])
      BY ProducedStays DEF IInv, TypeOK, RowSound
    <3>3. \A s \in Slots : row'[s] # None =>
            (s = Slot(r) /\ row'[s] = e) \/ (row[s] # None /\ row'[s] = row[s])
      <4>1. row \in [Slots -> Entry \cup {None}]
        BY DEF IInv, TypeOK
      <4> HIDE DEF e, r
      <4> QED BY <2>5, <4>1
    <3>4. \A s \in Slots : row'[s] # None => After(s, row'[s])
      BY <3>1, <3>2, <3>3
    <3> QED BY <2>1, <3>4, CallsStay DEF RowSound, Produced, After, Slot
  <2> QED BY <2>5, <2>6 DEF IInv, TypeOK
<1>3. row' = row \/ \E c \in Calls, heard \in BOOLEAN : PutIdempotency(c, heard)
  BY Frame
<1> QED BY <1>1, <1>2, <1>3

\* A call that answers from what is kept.
LEMMA ReplayFacts ==
  ASSUME IInv, NEW c \in Calls, NEW r \in Requests[c], Replay(c, r)
  PROVE  /\ r \in Request /\ Keyed /\ r.route \in Writes /\ r.key # None
         /\ Slot(r) \in Slots /\ operation[c] = "none" /\ UNCHANGED <<kept, row, epoch>>
         /\ recorded(r) \in Entry /\ recorded(r).body = r.body /\ recorded(r) # None
         /\ deployment.transport = "rest" => recorded(r) = kept[Slot(r)]
         /\ deployment.transport = "worker" => recorded(r) = row[Slot(r)]
         /\ Produced(Slot(r), recorded(r))
         /\ call'[c].pc = "answered" /\ call'[c].request = r /\ call'[c].epoch = epoch
         /\ call'[c].result = recorded(r).result
         /\ call'[c].code # "IDEMPOTENCY_KEY_REUSED"
<1>1. r \in Request /\ operation[c] = "none" /\ recorded(r) # None /\ recorded(r).body = r.body
  BY Arriving DEF Replay
<1>2. /\ call'[c].pc = "answered" /\ call'[c].request = r /\ call'[c].epoch = epoch
      /\ call'[c].result = recorded(r).result /\ call'[c].code = sized(r)
      /\ UNCHANGED <<kept, row, epoch>>
  BY DEF Replay, Told, IInv, TypeOK
<1> QED BY <1>1, <1>2, RecordedIsEntry, SizedIsCode

LEMMA HeardStep ==
  ASSUME IInv, Next
  PROVE  \A c \in Calls : HeardSound(c)'
<1> SUFFICES ASSUME NEW c \in Calls
             PROVE  HeardSound(c)'
  OBVIOUS
<1>1. HeardSound(c) /\ call[c] \in Call /\ call'[c] \in Call /\ deployment' = deployment
  BY TypeStep, CallsStay DEF IInv, TypeOK
<1>2. /\ \A s \in Slots : row[s] # None => row'[s] = row[s]
      /\ epoch' = epoch => \A s \in Slots : kept[s] # None => kept'[s] # None
      /\ epoch \in Nat /\ (epoch' = epoch \/ epoch' = epoch + 1)
  BY KeptStep, RowStep, TransportAssumption DEF IInv, TypeOK
<1>3. \A r \in Request : Keyed /\ r.route \in Writes /\ r.key # None => Slot(r) \in Slots
  BY DEF Slot, Slots, Request
<1>4. call[c].epoch \in Nat /\ call[c].request \in Request \cup {None}
  BY <1>1, TransportAssumption DEF Call
<1>5. \A r \in Request, n \in Result : [body |-> r.body, result |-> n] # None
  BY NoneAssumption DEF Entry, Request
<1>6. CASE call'[c] = call[c]
  <2>1. call'[c].epoch <= epoch'
    BY <1>1, <1>2, <1>4, <1>6 DEF HeardSound
  <2>2. ASSUME call[c].pc = "recorded"
        PROVE  row'[Slot(call[c].request)] =
                 [body |-> call[c].request.body, result |-> <<c, call[c].tries>>]
    <3>1. /\ operation[c] # "none" /\ Keyed /\ call[c].request.route \in Writes
      BY <2>2 DEF IInv, CallSound, Keyed
    <3>2. /\ Slot(call[c].request) \in Slots /\ call[c].request \in Request
          /\ <<c, call[c].tries>> \in Result
      BY <3>1, Requested
    <3> QED BY <1>1, <1>2, <1>5, <2>2, <3>2 DEF HeardSound
  <2>3. ASSUME Answered(c), Keyed, call[c].request.route \in Writes
        PROVE  /\ call[c].request.key # None
               /\ deployment.transport = "worker" =>
                    row'[Slot(call[c].request)] =
                      [body |-> call[c].request.body, result |-> call[c].result]
               /\ (deployment.transport = "rest" /\ call[c].epoch = epoch') =>
                    kept'[Slot(call[c].request)] # None
    <3>1. /\ call[c].request # None /\ call[c].request.key # None
      BY <1>1, <2>3 DEF HeardSound
    <3>2. call[c].request \in Request /\ Slot(call[c].request) \in Slots
      BY <1>3, <1>4, <2>3, <3>1
    <3>3. call[c].result \in Result
      BY <1>1, <2>3 DEF Answered, Call
    <3>4. deployment.transport = "worker" =>
            row'[Slot(call[c].request)] =
              [body |-> call[c].request.body, result |-> call[c].result]
      BY <1>1, <1>2, <1>5, <2>3, <3>2, <3>3 DEF HeardSound
    <3>5. (deployment.transport = "rest" /\ call[c].epoch = epoch') =>
            kept'[Slot(call[c].request)] # None
      BY <1>1, <1>2, <1>4, <2>3, <3>2 DEF HeardSound
    <3> QED BY <3>1, <3>4, <3>5
  <2>4. Answered(c) => call[c].request # None
    BY <1>1 DEF HeardSound
  <2> QED BY <1>1, <1>6, <2>1, <2>2, <2>3, <2>4 DEF HeardSound, Answered, Keyed
<1>7. CASE Unheard(c)
  <2>1. call'[c].epoch <= epoch'
    BY <1>1, <1>2, <1>4, <1>7 DEF Unheard, HeardSound
  <2> QED BY <1>7, <2>1 DEF Unheard, HeardSound, Answered
<1>8. ASSUME NEW r \in Requests[c], Replay(c, r)
      PROVE  HeardSound(c)'
  <2>1. recorded(r) = [body |-> r.body, result |-> recorded(r).result]
    BY <1>8, ReplayFacts DEF Entry
  <2>2. r # None
    BY <1>8, ReplayFacts, NoneAssumption
  <2>3. /\ deployment.transport = "worker" =>
             row'[Slot(r)] = [body |-> r.body, result |-> recorded(r).result]
        /\ deployment.transport = "rest" => kept'[Slot(r)] # None
    BY <1>8, <2>1, ReplayFacts
  <2>4. /\ r.key # None /\ call'[c].pc = "answered" /\ call'[c].request = r
        /\ call'[c].epoch = epoch' /\ call'[c].result = recorded(r).result
    BY <1>8, ReplayFacts
  <2> QED BY <1>1, <1>2, <2>2, <2>3, <2>4 DEF HeardSound
<1>9. ASSUME NEW r \in Requests[c], RefuseReuse(c, r)
      PROVE  HeardSound(c)'
  <2>1. call'[c].result = None /\ call'[c].pc = "answered" /\ call'[c].epoch = epoch'
    BY <1>9 DEF RefuseReuse, Told, IInv, TypeOK
  <2> QED BY <1>2, <2>1 DEF HeardSound, Answered
<1>10. CASE ReturnKept(c)
  <2> DEFINE r == call[c].request
             e == [body |-> r.body, result |-> <<c, call[c].tries>>]
  <2>1. operation[c] # "none" /\ deployment.transport # "worker"
    BY <1>10 DEF ReturnKept, Finishing
  <2>2. /\ r \in Request /\ <<c, call[c].tries>> \in Result
        /\ (Keyed /\ r.route \in Writes) => Slot(r) \in Slots /\ r.key # None
    BY <2>1, Requested DEF IInv, CallSound
  <2>3. /\ call'[c].pc = "answered" /\ call'[c].request = r /\ call'[c].epoch = epoch'
    BY <1>10 DEF ReturnKept, Told, IInv, TypeOK
  <2>4. deployment.transport = "rest" /\ r.route \in Writes => kept'[Slot(r)] # None
    <3>1. SUFFICES ASSUME deployment.transport = "rest", r.route \in Writes
                   PROVE  kept'[Slot(r)] # None
      OBVIOUS
    <3>2. kept' = [kept EXCEPT ![Slot(r)] = e]
      BY <1>10, <3>1 DEF ReturnKept, Slot
    <3>3. Slot(r) \in Slots /\ e # None
      BY <1>5, <2>2, <3>1 DEF Keyed
    <3> QED BY <3>2, <3>3 DEF IInv, TypeOK
  <2>5. r # None
    BY <2>2, NoneAssumption
  <2> QED BY <1>1, <1>2, <2>1, <2>2, <2>3, <2>4, <2>5 DEF HeardSound, Keyed
<1>11. CASE PutIdempotency(c, TRUE)
  <2> DEFINE r == call[c].request
             e == [body |-> r.body, result |-> <<c, call[c].tries>>]
  <2>1. operation[c] # "none" /\ Keyed /\ r.route \in Writes
    BY <1>11 DEF PutIdempotency, IInv, CallSound, Keyed
  <2>2. Slot(r) \in Slots
    BY <2>1, Requested
  <2>3. row' = [row EXCEPT ![Slot(r)] = e]
    BY <1>11 DEF PutIdempotency, Slot
  <2>4. row'[Slot(r)] = e
    BY <2>2, <2>3 DEF IInv, TypeOK
  <2>5. /\ call'[c].pc = "recorded" /\ call'[c].request = r /\ call'[c].tries = call[c].tries
        /\ call'[c].epoch = call[c].epoch /\ epoch' = epoch
    BY <1>11 DEF PutIdempotency, IInv, TypeOK, Call
  <2> QED BY <1>1, <2>4, <2>5 DEF HeardSound, Answered
<1>12. CASE SendRecorded(c)
  <2> DEFINE r == call[c].request
  <2>1. operation[c] # "none" /\ deployment.transport = "worker" /\ r.route \in Writes
    BY <1>12 DEF SendRecorded, IInv, CallSound
  <2>2. r \in Request /\ r # None /\ r.key # None
    BY <2>1, Requested, NoneAssumption DEF IInv, CallSound, Keyed
  <2>3. row[Slot(r)] = [body |-> r.body, result |-> <<c, call[c].tries>>]
    BY <1>1, <1>12 DEF SendRecorded, HeardSound
  <2>4. /\ call'[c].pc = "answered" /\ call'[c].request = r /\ call'[c].epoch = epoch'
        /\ call'[c].result = <<c, call[c].tries>> /\ row' = row
    BY <1>12 DEF SendRecorded, Told, IInv, TypeOK
  <2> QED BY <1>1, <1>2, <2>1, <2>2, <2>3, <2>4 DEF HeardSound, Keyed
<1>13. CASE ReturnToWorker(c) /\ call[c].request.route \notin Writes
  <2>1. operation[c] # "none"
    BY <1>13 DEF ReturnToWorker, Finishing
  <2>2. call[c].request \in Request /\ call[c].request # None
    BY <2>1, Requested, NoneAssumption
  <2>3. /\ call'[c].pc = "answered" /\ call'[c].request = call[c].request
        /\ call'[c].epoch = epoch'
    BY <1>13 DEF ReturnToWorker, Told, IInv, TypeOK
  <2> QED BY <1>1, <1>2, <1>13, <2>2, <2>3 DEF HeardSound, Keyed
<1> QED
  BY <1>6, <1>7, <1>8, <1>9, <1>10, <1>11, <1>12, <1>13, Answers DEF Hears

LEMMA ReuseStep ==
  ASSUME IInv, Next
  PROVE  \A c \in Calls : ReuseSound(c)'
<1> SUFFICES ASSUME NEW c \in Calls, call'[c].code = "IDEMPOTENCY_KEY_REUSED"
             PROVE  call'[c].pc = "answered" /\ operation'[c] = "none"
  BY DEF ReuseSound
<1>1. CASE call'[c] = call[c]
  BY <1>1, CallsStay DEF IInv, ReuseSound, Stays
<1>2. ASSUME NEW r \in Requests[c], RefuseReuse(c, r)
      PROVE  call'[c].pc = "answered" /\ operation'[c] = "none"
  BY <1>2, Arriving DEF RefuseReuse, Told, IInv, TypeOK
<1>3. ASSUME NEW r \in Requests[c], Replay(c, r)
      PROVE  FALSE
  BY <1>3, ReplayFacts
<1>4. CASE \/ ReturnKept(c) \/ SendRecorded(c)
           \/ ReturnToWorker(c) /\ call[c].request.route \notin Writes
  <2>1. call'[c].code # "IDEMPOTENCY_KEY_REUSED"
    BY <1>4, SizedIsCode DEF ReturnKept, SendRecorded, ReturnToWorker, Told, IInv, TypeOK
  <2> QED BY <2>1
<1>5. CASE PutIdempotency(c, TRUE)
  <2>1. call'[c].code = call[c].code /\ call[c].code = None
    BY <1>5 DEF PutIdempotency, IInv, TypeOK, CallSound, Call
  <2> QED BY <2>1, NoReuse
<1>6. ~Unheard(c)
  BY DEF Unheard
<1> QED BY <1>1, <1>2, <1>3, <1>4, <1>5, <1>6, Answers DEF Hears

\* The two parts of AnswersAreEarned, of one call.
EarnedBy(c) ==
  Answered(c) =>
    LET d == call[c].result[1]
    IN  /\ operation[d] = "done" /\ call[d].tries = call[c].result[2]
        /\ call[d].request.route = call[c].request.route
        /\ call[c].request.route \in Effectful => effects[d] > 0
        /\ c # d => /\ Keyed /\ SameKey(c, d) /\ operation[c] = "none"
                    /\ call[d].request.body = call[c].request.body

ReusedBy(c) ==
  call[c].code = "IDEMPOTENCY_KEY_REUSED" =>
    /\ operation[c] = "none"
    /\ \E d \in Calls : /\ SameKey(c, d) /\ call[d].request.body # call[c].request.body
                        /\ operation[d] = "done"
                        /\ call[d].request.route \in Effectful => effects[d] > 0

LEMMA EarnedStep ==
  ASSUME IInv, Next, NEW c \in Calls
  PROVE  EarnedBy(c)'
<1> SUFFICES ASSUME Answered(c)'
             PROVE  EarnedBy(c)'
  BY DEF EarnedBy
<1>1. deployment' = deployment /\ call'[c] \in Call /\ \A d \in Calls : Stays(d)
  BY CallsStay, TypeStep DEF IInv, TypeOK
<1>2. CASE call'[c] = call[c]
  <2> DEFINE d == call[c].result[1]
  <2>1. Answered(c) /\ EarnedBy(c)
    BY <1>2 DEF Answered, IInv, AnswersAreEarned, EarnedBy
  <2>2. d \in Calls
    BY <1>1, <1>2, <2>1 DEF Answered, Call, Result
  <2> QED BY <1>1, <1>2, <2>1, <2>2 DEF EarnedBy, Stays, SameKey, Keyed, Answered
<1>3. ASSUME NEW r \in Requests[c], Replay(c, r)
      PROVE  EarnedBy(c)'
  <2> DEFINE d == recorded(r).result[1]
  <2>1. Produced(Slot(r), recorded(r)) /\ operation[c] = "none"
    BY <1>3, ReplayFacts
  <2>2. d \in Calls /\ d # c /\ recorded(r).body = r.body /\ r # None
    BY <1>3, <2>1, ReplayFacts, NoneAssumption DEF Entry, Result, Produced
  <2>3. /\ call'[d].request = call[d].request /\ operation'[d] = "done"
        /\ call'[d].tries = call[d].tries
    BY <1>1, <2>1, <2>2 DEF Stays, Produced
  <2>4. /\ call[d].request.route = r.route /\ call[d].request.key = r.key
        /\ call[d].request.body = r.body /\ call[d].request # None
        /\ call[d].tries = recorded(r).result[2]
    BY <2>1, <2>2 DEF Produced, Slot
  <2>5. /\ call'[c].request = r /\ call'[c].result = recorded(r).result /\ Keyed
        /\ r.route \in Writes
    BY <1>3, ReplayFacts
  <2>6. operation'[c] = "none"
    BY <1>3, <2>1 DEF Replay
  <2>7. r.route \in Effectful => effects'[d] > 0
    BY <2>2, <2>3, <2>4, CallStep DEF CallSound
  <2> QED BY <1>1, <2>2, <2>3, <2>4, <2>5, <2>6, <2>7 DEF EarnedBy, SameKey, Keyed
<1>4. CASE \/ ReturnKept(c) \/ SendRecorded(c)
           \/ ReturnToWorker(c) /\ call[c].request.route \notin Writes
  <2>1. call'[c].result = <<c, call[c].tries>> /\ call'[c].tries = call[c].tries
    BY <1>4 DEF ReturnKept, ReturnToWorker, SendRecorded, Told, IInv, TypeOK
  <2>2. operation'[c] = "done"
    <3>1. CASE SendRecorded(c)
      BY <3>1 DEF SendRecorded, IInv, CallSound
    <3>2. CASE ReturnKept(c) \/ ReturnToWorker(c)
      BY <3>2 DEF ReturnKept, ReturnToWorker, IInv, TypeOK
    <3> QED BY <1>4, <3>1, <3>2
  <2>3. call'[c].request.route \in Effectful => effects'[c] > 0
    BY <2>2, CallStep DEF CallSound
  <2> QED BY <2>1, <2>2, <2>3 DEF EarnedBy
<1>5. CASE Unheard(c) \/ PutIdempotency(c, TRUE) \/ \E r \in Requests[c] : RefuseReuse(c, r)
  <2>1. call'[c].result = None \/ call'[c].pc # "answered"
    <3>1. ASSUME NEW r \in Requests[c], RefuseReuse(c, r)
          PROVE  call'[c].result = None
      BY <3>1 DEF RefuseReuse, Told, IInv, TypeOK
    <3>2. ASSUME PutIdempotency(c, TRUE)
          PROVE  call'[c].pc = "recorded"
      BY <3>2 DEF PutIdempotency, IInv, TypeOK, Call
    <3> QED BY <1>5, <3>1, <3>2 DEF Unheard
  <2> QED BY <2>1 DEF Answered
<1> QED BY <1>2, <1>3, <1>4, <1>5, Answers DEF Hears

LEMMA ReusedStep ==
  ASSUME IInv, Next, NEW c \in Calls
  PROVE  ReusedBy(c)'
<1> SUFFICES ASSUME call'[c].code = "IDEMPOTENCY_KEY_REUSED"
             PROVE  ReusedBy(c)'
  BY DEF ReusedBy
<1>1. /\ \A d \in Calls : Stays(d) /\ CallSound(d)'
      /\ call'[c].pc = "answered" /\ operation'[c] = "none"
  BY CallsStay, ReuseStep, CallStep DEF ReuseSound
<1>2. CASE call'[c] = call[c]
  <2>1. ReusedBy(c)
    BY <1>2 DEF IInv, AnswersAreEarned, ReusedBy
  <2>2. PICK d \in Calls : /\ SameKey(c, d) /\ operation[d] = "done"
                           /\ call[d].request.body # call[c].request.body
    BY <1>2, <2>1 DEF ReusedBy
  <2>3. call'[d].request = call[d].request /\ operation'[d] = "done"
    BY <1>1, <2>2 DEF Stays
  <2>4. call'[d].request.route \in Effectful => effects'[d] > 0
    BY <1>1, <2>3 DEF CallSound
  <2> QED BY <1>1, <1>2, <2>2, <2>3, <2>4 DEF ReusedBy, SameKey
<1>3. ASSUME NEW r \in Requests[c], RefuseReuse(c, r)
      PROVE  ReusedBy(c)'
  <2> DEFINE d == recorded(r).result[1]
  <2>1. r \in Request /\ recorded(r) # None /\ recorded(r).body # r.body
    BY <1>3, Arriving DEF RefuseReuse
  <2>2. /\ Produced(Slot(r), recorded(r)) /\ recorded(r) \in Entry /\ r # None
        /\ r.route \in Writes
    BY <2>1, RecordedIsEntry, NoneAssumption
  <2>3. d \in Calls
    BY <2>2 DEF Entry, Result
  <2>4. /\ call'[d].request = call[d].request /\ operation'[d] = "done"
        /\ call[d].request.route = r.route /\ call[d].request.key = r.key
        /\ call[d].request.body = recorded(r).body /\ call[d].request # None
    BY <1>1, <2>2, <2>3 DEF Stays, Produced, Slot
  <2>5. call'[c].request = r
    BY <1>3 DEF RefuseReuse, Told, IInv, TypeOK
  <2>6. call'[d].request.route \in Effectful => effects'[d] > 0
    BY <1>1, <2>3, <2>4 DEF CallSound
  <2> QED BY <1>1, <2>1, <2>2, <2>3, <2>4, <2>5, <2>6 DEF ReusedBy, SameKey
<1>4. ASSUME NEW r \in Requests[c], Replay(c, r)
      PROVE  FALSE
  BY <1>4, ReplayFacts
<1>5. CASE ReturnKept(c) \/ SendRecorded(c) \/ PutIdempotency(c, TRUE) \/ ReturnToWorker(c)
  <2>1. operation'[c] # "none"
    BY <1>5 DEF ReturnKept, SendRecorded, PutIdempotency, ReturnToWorker, IInv, TypeOK, CallSound
  <2> QED BY <1>1, <2>1
<1>6. ~Unheard(c)
  BY DEF Unheard
<1> QED BY <1>2, <1>3, <1>4, <1>5, <1>6, Answers DEF Hears

\* Who sets out to run is let through by one of two actions.
LEMMA Arrivals ==
  ASSUME IInv, Next, NEW c \in Calls,
         call[c].pc \in {"unsent", "queued"}, call'[c].pc \in {"missed", "running"}
  PROVE  \E r \in Requests[c] : Invoke(c, r) \/ Miss(c, r)
<1>1. ASSUME NEW b \in Calls, b # c, \E r \in Requests[b] : Invoke(b, r) \/ Miss(b, r)
      PROVE  FALSE
  BY <1>1 DEF Invoke, Miss, IInv, TypeOK
<1>2. ASSUME NEW b \in Calls, NEW r \in Requests[b],
             \/ SendLine(b, r) \/ Refuse(b, r) \/ RefuseReuse(b, r) \/ Replay(b, r)
             \/ LookupFails(b, r)
      PROVE  FALSE
  <2>1. \/ call' = [call EXCEPT ![b].pc = "queued", ![b].request = r]
        \/ \E code, result : Told(b, r, code, result)
    BY <1>2 DEF SendLine, Refuse, RefuseReuse, Replay, LookupFails
  <2>2. CASE call' = [call EXCEPT ![b].pc = "queued", ![b].request = r]
    BY <2>2 DEF IInv, TypeOK, Call
  <2>3. CASE \E code, result : Told(b, r, code, result)
    <3>1. call'[c].pc \in {call[c].pc, "answered"}
      BY <2>3 DEF Told, IInv, TypeOK
    <3> QED BY <3>1
  <2> QED BY <2>1, <2>2, <2>3
<1>3. ASSUME NEW b \in Calls,
             \/ Start(b) \/ ReturnToWorker(b)
             \/ \E heard \in BOOLEAN : PutIdempotency(b, heard)
             \/ \E f \in Failure : Retry(b, f)
      PROVE  FALSE
  BY <1>3 DEF Start, ReturnToWorker, PutIdempotency, Retry, Told, IInv, TypeOK, Call
<1>4. ASSUME NEW b \in Calls,
             \/ ReturnKept(b) \/ PutIdempotencyFails(b) \/ SendRecorded(b) \/ Timeout(b)
             \/ Terminate(b) \/ \E f \in Failure : Throw(b, f)
      PROVE  FALSE
  BY <1>4 DEF ReturnKept, PutIdempotencyFails, SendRecorded, Timeout, Terminate, Throw, Told,
              IInv, TypeOK, Call
<1>5. ~Restart
  BY DEF Restart
<1>6. \A b \in Calls : ~TakeEffect(b) /\ ~ReturnLate(b)
  BY DEF TakeEffect, ReturnLate
<1> QED BY <1>1, <1>2, <1>3, <1>4, <1>5, <1>6 DEF Next, Serve

-----------------------------------------------------------------------------
(* Theorems                                                                *)

\* The inductive invariant holds of every execution: it says what a call's place
\* tells of its operation, and that what is kept under a key was produced for it.
THEOREM Inductive == Spec => []IInv
<1>1. Init => IInv
  <2> SUFFICES ASSUME Init
               PROVE  IInv
    OBVIOUS
  <2>1. TypeOK
    BY TransportAssumption DEF Init, TypeOK, Call
  <2>2. QueueSound /\ KeptSound /\ RowSound
    BY DEF Init, QueueSound, KeptSound, RowSound
  <2>3. \A c \in Calls : CallSound(c) /\ HeardSound(c) /\ ReuseSound(c)
    BY NoReuse DEF Init, CallSound, HeardSound, ReuseSound, Answered
  <2>4. AnswersAreEarned
    BY NoReuse DEF Init, AnswersAreEarned, Answered
  <2> QED BY <2>1, <2>2, <2>3, <2>4 DEF IInv
<1>2. IInv /\ [Next]_vars => IInv'
  <2>1. ASSUME IInv, Next
        PROVE  IInv'
    <3>1. AnswersAreEarned'
      BY <2>1, EarnedStep, ReusedStep DEF AnswersAreEarned, EarnedBy, ReusedBy
    <3> QED
      BY <2>1, <3>1, TypeStep, QueueStep, CallStep, HeardStep, ReuseStep, KeptStep, RowStep
      DEF IInv
  <2>2. ASSUME IInv, UNCHANGED vars
        PROVE  IInv'
    BY <2>2 DEF vars, IInv, TypeOK, QueueSound, CallSound, HeardSound, ReuseSound, KeptSound,
                RowSound, AnswersAreEarned, Produced, Slot, Answered, SameKey, Keyed
  <2> QED BY <2>1, <2>2
<1> QED BY <1>1, <1>2, PTL DEF Spec

\* Type correctness: what is kept, what rows say and what clients know are of the
\* kinds the four transports deal in, and nothing takes effect more often than the
\* SDK may try.
THEOREM TypeCorrect == Spec => []TypeOK
<1>1. IInv => TypeOK
  BY DEF IInv
<1> QED BY <1>1, Inductive, PTL

\* Whoever is told a result is told one that an operation produced for the same
\* route and body, and a refusal for the key goes back to a call of another body
\* that got its result; where a result means that something was written, it was.
THEOREM AnswersStayEarned == Spec => []AnswersAreEarned
<1>1. IInv => AnswersAreEarned
  BY DEF IInv
<1> QED BY <1>1, Inductive, PTL

\* Under a key that a client was told a result for no later request is let through,
\* for good over D1 and until the process ends on the REST server.
THEOREM AnsweredKeysStayClosed == Spec => AnsweredKeysAreClosed
<1> DEFINE Safe ==
      \A c, d \in Calls :
        (/\ call[c].pc \in {"unsent", "queued"} /\ call'[c].pc \in {"missed", "running"}
         /\ Keyed /\ call'[c].request.route \in Writes
         /\ Answered(d) /\ SameKey(d, c)')
        => deployment.transport = "rest" /\ call[d].epoch < epoch
<1>1. IInv /\ [Next]_vars => Safe \/ UNCHANGED vars
  <2> SUFFICES ASSUME IInv, Next, NEW c \in Calls, NEW d \in Calls,
                      call[c].pc \in {"unsent", "queued"}, call'[c].pc \in {"missed", "running"},
                      Keyed, call'[c].request.route \in Writes, Answered(d), SameKey(d, c)'
               PROVE  deployment.transport = "rest" /\ call[d].epoch < epoch
    BY DEF vars
  <2>1. PICK r \in Requests[c] : Invoke(c, r) \/ Miss(c, r)
    BY Arrivals
  <2>2. r \in Request /\ recorded(r) = None /\ call'[c].request = r
    BY <2>1, Arriving DEF Invoke, Miss, IInv, TypeOK, Call
  <2>3. call'[d] = call[d]
    BY CallsStay DEF Stays, Answered
  <2>4. /\ call[d].request.route = r.route /\ call[d].request.key = r.key
        /\ r.route \in Writes /\ call[d].request # None
    BY <2>2, <2>3 DEF SameKey
  <2>5. r.key # None
    BY <2>4 DEF IInv, HeardSound
  <2>6. /\ deployment.transport = "rest" => kept[Slot(r)] = None
        /\ deployment.transport = "worker" => row[Slot(r)] = None
    BY <2>2, <2>4, <2>5 DEF recorded, Slot
  <2>7. Slot(call[d].request) = Slot(r)
    BY <2>4 DEF Slot
  <2>8. call[d] \in Call /\ call[d].request \in Request /\ call[d].result \in Result
    BY <2>4 DEF IInv, TypeOK, Call, Answered
  <2>9. [body |-> call[d].request.body, result |-> call[d].result] # None
    BY <2>8, NoneAssumption DEF Entry, Request
  <2>10. deployment.transport # "worker"
    BY <2>4, <2>6, <2>7, <2>9 DEF IInv, HeardSound
  <2>11. deployment.transport = "rest" /\ call[d].epoch # epoch
    BY <2>4, <2>6, <2>7, <2>10 DEF IInv, HeardSound, Keyed
  <2>12. call[d].epoch <= epoch /\ call[d].epoch \in Nat /\ epoch \in Nat
    <3>1. MaxRestarts \in Nat
      BY TransportAssumption
    <3>2. call[d].epoch \in 0..MaxRestarts /\ epoch \in 0..MaxRestarts
      BY <2>8 DEF IInv, TypeOK, Call
    <3>3. call[d].epoch <= epoch
      BY DEF IInv, HeardSound
    <3> QED BY <3>1, <3>2, <3>3
  <2> QED BY <2>11, <2>12
<1> QED BY <1>1, Inductive, PTL DEF Spec, AnsweredKeysAreClosed

\* No call is answered twice.
THEOREM NobodyIsToldTwice == Spec => AnsweredOnce
<1>1. IInv /\ [Next]_vars =>
        \/ \A c \in Calls : call[c].pc \in {"answered", "lost"} => call'[c] = call[c]
        \/ UNCHANGED vars
  BY CallsStay DEF Stays
<1> QED BY <1>1, Inductive, PTL DEF Spec, AnsweredOnce

-----------------------------------------------------------------------------
(* The refinement                                                          *)

Hearer(c) ==
  deployment.transport = "worker" /\ Answered(c) /\ call[c].request.route \in Writes

HeardBy(c) ==
  << Slot(call[c].request), [body |-> call[c].request.body, result |-> call[c].result] >>

LEMMA HeardIs ==
  /\ Heard = {HeardBy(c) : c \in {c \in Calls : Hearer(c)}}
  /\ Heard' = {HeardBy(c)' : c \in {c \in Calls : Hearer(c)'}}
  BY DEF Heard, HeardBy, Hearer, Slot

\* Who has heard has heard for good, and who hears now is the one that steps.
LEMMA HearersStay ==
  ASSUME IInv, Next, NEW c \in Calls
  PROVE  /\ Hearer(c) => Hearer(c)' /\ HeardBy(c)' = HeardBy(c)
         /\ Hearer(c)' => \/ Hearer(c)
                          \/ SendRecorded(c) \/ \E r \in Requests[c] : Replay(c, r)
<1>1. deployment' = deployment /\ Stays(c)
  BY CallsStay
<1>2. Hearer(c) => Hearer(c)' /\ HeardBy(c)' = HeardBy(c)
  BY <1>1 DEF Hearer, HeardBy, Answered, Stays
<1>3. ASSUME Hearer(c)'
      PROVE  Hearer(c) \/ SendRecorded(c) \/ \E r \in Requests[c] : Replay(c, r)
  <2>1. call'[c] = call[c] => Hearer(c)
    BY <1>1, <1>3 DEF Hearer, Answered
  <2>2. ~Unheard(c) /\ ~(\E r \in Requests[c] : RefuseReuse(c, r))
    BY <1>3 DEF Unheard, RefuseReuse, Told, Hearer, Answered, IInv, TypeOK
  <2>3. ~ReturnKept(c)
    BY <1>1, <1>3 DEF ReturnKept, Hearer
  <2>4. ~PutIdempotency(c, TRUE)
    BY <1>3 DEF PutIdempotency, Hearer, Answered, IInv, TypeOK, Call
  <2>5. ~(ReturnToWorker(c) /\ call[c].request.route \notin Writes)
    BY <1>3 DEF ReturnToWorker, Told, Hearer, IInv, TypeOK
  <2> QED BY <2>1, <2>2, <2>3, <2>4, <2>5, Answers DEF Hears
<1> QED BY <1>2, <1>3

\* The worker's table keeps the promise of KeyedAnswers: every row is decided once,
\* and every client that is told of success under a key is told what the row says.
THEOREM ImplementsPromise == Spec => ImplementsKeyedAnswers
<1>1. Init => Promise!Init
  BY DEF Init, Promise!Init, Heard, Answered
<1>2. IInv /\ [Next]_vars => [Promise!Next]_(<<row, Heard>>)
  <2> SUFFICES ASSUME IInv, [Next]_vars
               PROVE  Promise!Next \/ UNCHANGED <<row, Heard>>
    OBVIOUS
  <2>1. CASE UNCHANGED vars
    BY <2>1 DEF vars, Heard, Answered
  <2>2. ASSUME Next, NEW c \in Calls, SendRecorded(c) \/ \E r \in Requests[c] : Replay(c, r)
        PROVE  Promise!Next \/ UNCHANGED <<row, Heard>>
    <3>1. row' = row /\ \A d \in Calls \ {c} : call'[d] = call[d]
      BY <2>2 DEF SendRecorded, Replay, Told, IInv, TypeOK
    <3>2. \A d \in Calls \ {c} : (Hearer(d)' <=> Hearer(d)) /\ HeardBy(d)' = HeardBy(d)
      BY <2>2, <3>1, CallsStay DEF Hearer, HeardBy, Answered
    <3>3. CASE Hearer(c)' /\ ~Hearer(c)
      <4>1. Heard' = Heard \cup {HeardBy(c)'}
        BY <3>2, <3>3, HeardIs
      <4>2. HeardBy(c)' = << Slot(call'[c].request), row'[Slot(call'[c].request)] >>
        BY <2>2, <3>3, HeardStep DEF HeardSound, HeardBy, Hearer, Keyed
      <4>3. /\ Slot(call'[c].request) \in Slots
            /\ [body |-> call'[c].request.body, result |-> call'[c].result] # None
        <5>1. /\ call'[c].request # None /\ call'[c].request.key # None
              /\ call'[c].request.route \in Writes /\ call'[c].result # None
          BY <2>2, <3>3, HeardStep DEF HeardSound, Hearer, Keyed, Answered
        <5>2. call'[c].request \in Request /\ call'[c].result \in Result
          BY <2>2, <5>1, TypeStep DEF TypeOK, Call
        <5> QED BY <5>1, <5>2, NoneAssumption DEF Slot, Slots, Entry, Request
      <4>4. row[Slot(call'[c].request)] # None
        BY <2>2, <3>1, <3>3, <4>3, HeardStep DEF HeardSound, Hearer, Keyed
      <4>5. Promise!Hear(Slot(call'[c].request))
        BY <3>1, <4>1, <4>2, <4>4 DEF Promise!Hear
      <4> QED BY <4>3, <4>5 DEF Promise!Next
    <3>4. CASE ~(Hearer(c)' /\ ~Hearer(c))
      <4>1. \A d \in Calls : (Hearer(d)' <=> Hearer(d)) /\ (Hearer(d) => HeardBy(d)' = HeardBy(d))
        BY <2>2, <3>2, <3>4, HearersStay
      <4>2. Heard' = Heard
        BY <4>1, HeardIs
      <4> QED BY <3>1, <4>2
    <3> QED BY <3>3, <3>4
  <2>3. ASSUME Next,
               \A c \in Calls : ~SendRecorded(c) /\ ~\E r \in Requests[c] : Replay(c, r)
        PROVE  Promise!Next \/ UNCHANGED <<row, Heard>>
    <3>1. \A d \in Calls : (Hearer(d)' <=> Hearer(d)) /\ (Hearer(d) => HeardBy(d)' = HeardBy(d))
      BY <2>3, HearersStay
    <3>2. Heard' = Heard
      BY <3>1, HeardIs
    <3>3. row' = row \/ \E c \in Calls, heard \in BOOLEAN : PutIdempotency(c, heard)
      BY <2>3, Frame
    <3>4. ASSUME NEW c \in Calls, NEW heard \in BOOLEAN, PutIdempotency(c, heard)
          PROVE  Promise!Next
      <4> DEFINE r == call[c].request
                 e == [body |-> r.body, result |-> <<c, call[c].tries>>]
      <4>1. operation[c] # "none" /\ Keyed /\ r.route \in Writes
        BY <3>4 DEF PutIdempotency, IInv, CallSound, Keyed
      <4>2. Slot(r) \in Slots /\ e \in Entry
        BY <4>1, Requested DEF Entry, Request
      <4>3. row[Slot(r)] = None /\ row' = [row EXCEPT ![Slot(r)] = e]
        BY <3>4 DEF PutIdempotency, Slot
      <4>4. Promise!Decide(Slot(r), e)
        BY <3>2, <4>3 DEF Promise!Decide
      <4> QED BY <4>2, <4>4 DEF Promise!Next
    <3> QED BY <3>2, <3>3, <3>4
  <2> QED BY <2>1, <2>2, <2>3
<1> QED BY <1>1, <1>2, Inductive, PTL DEF Spec, ImplementsKeyedAnswers, Promise!Spec

=============================================================================
