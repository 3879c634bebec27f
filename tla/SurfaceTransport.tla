--------------------------- MODULE SurfaceTransport ---------------------------
(***************************************************************************)
(* The four ways into the agent surface: the REST server and the worker,   *)
(* which keep answers by idempotency key (in a map of the process, in a D1 *)
(* table), the SDK with its recovery, and the MCP server on stdio.  What   *)
(* the surface does is an operation that may take effect, return and fail  *)
(* at any time, also after its caller has been answered.                   *)
(***************************************************************************)
EXTENDS Integers, Sequences

CONSTANTS
  None,
  MaxCalls,       \* calls made, numbered as they arrive
  Keys, Bodies,   \* idempotency keys, bodies as the schemas parse them
  Writes, Reads,  \* POST routes, GET routes
  Effectless,     \* POST routes that write nothing: request_influence
  Effectful,      \* POST routes that return no result before they have written:
                  \* submit_outcome_evaluation
  Large,          \* bodies whose answer is beyond MAX_RESPONSE_BYTES
  Requests,       \* what each call may ask
  Deployments,    \* how the surface is deployed
  Attempts,       \* attempts of withRecovery
  MaxRestarts     \* bound: restarts of the REST server

Calls == 1..MaxCalls
Transport == {"rest", "worker", "sdk", "stdio"}
Open == {"health", "capabilities"}
Deployment ==
  [ transport : Transport, mode : {"local-loopback", "hosted-authenticated"},
    authenticator : BOOLEAN ]   \* one is configured; for the worker, a token
Request ==
  [ route : Writes \cup Reads \cup Open \cup {"unknown"}, loopback : BOOLEAN,
    token : BOOLEAN, typed : BOOLEAN,
    content : {"ok", "tooLarge", "notJson", "notRequest", "invalid"},
    key : Keys \cup {None}, body : Bodies ]

Failure == {"Unknown", "Invalid", "NotFound", "Conflict", "Refused", "Denied", "Internal"}

ASSUME TransportAssumption ==
  /\ MaxCalls \in Nat /\ Attempts \in Nat \ {0} /\ MaxRestarts \in Nat
  /\ Requests \in [Calls -> SUBSET Request] /\ Deployments \subseteq Deployment
  /\ Effectless \subseteq Writes /\ Effectful \subseteq Writes \ Effectless
  /\ Writes \cap Reads = {} /\ (Writes \cup Reads) \cap (Open \cup {"unknown"}) = {}

-----------------------------------------------------------------------------
(* What each transport makes of an error of the surface                    *)

restErrorCode ==
  [f \in Failure |-> CASE f = "NotFound" -> "MEMORY_NOT_FOUND"
                       [] f = "Conflict" -> "CONFLICT"
                       [] OTHER -> "INTERNAL_ERROR"]

workerErrorCode == [restErrorCode EXCEPT !["Invalid"] = "INVALID_REQUEST"]

\* Only what is "INTERNAL" may be tried again.  A conflict and a denied effect
\* have messages that are not looked for.
normalizeError ==
  [f \in Failure |-> CASE f = "Invalid" -> "INVALID_REQUEST"
                       [] f = "NotFound" -> "NOT_FOUND"
                       [] f = "Refused" -> "REFUSED"
                       [] OTHER -> "INTERNAL"]

errorPayload ==
  [f \in Failure |-> CASE f = "Unknown" -> "MCP_TOOL_NOT_FOUND"
                       [] f = "Invalid" -> "MCP_INVALID_ARGUMENTS"
                       [] OTHER -> "ENGRAM_MCP_ERROR"]

errorCode ==
  [ rest |-> restErrorCode, worker |-> workerErrorCode, sdk |-> normalizeError,
    stdio |-> errorPayload ]

VARIABLES
  deployment,  \* fixed
  call,        \* [Calls -> what its client knows and how far it is served]
  operation,   \* [Calls -> the surface operation run for it]
  effects,     \* [Calls -> how often that has taken effect]
  lines,       \* stdio: lines not yet handled
  kept,        \* rest: answers by route and key
  row,         \* worker: rows of engram_idempotency, by route and key
  epoch        \* rest: incarnation of the process

vars == <<deployment, call, operation, effects, lines, kept, row, epoch>>

Slots == Writes \X Keys
Result == Calls \X (1..Attempts)
Entry == [body : Bodies, result : Result]
Code ==
  { "OK", "LOOPBACK_ONLY", "AUTHENTICATOR_REQUIRED", "NOT_FOUND", "UNAUTHORIZED",
    "CONTENT_TYPE_REQUIRED", "BODY_TOO_LARGE", "INVALID_JSON", "INVALID_REQUEST",
    "IDEMPOTENCY_KEY_REQUIRED", "IDEMPOTENCY_KEY_REUSED", "RESPONSE_TOO_LARGE",
    "UPSTREAM_TIMEOUT", "MCP_REQUEST_TOO_LARGE", "MCP_INVALID_JSON",
    "MCP_INVALID_REQUEST" }
  \cup { errorCode[t][f] : t \in Transport, f \in Failure }
ASSUME NoneAssumption == None \notin Keys \cup Request \cup Code \cup Result \cup Entry

Call ==
  [ pc : {"unsent", "queued", "missed", "running", "insert", "recorded", "answered", "lost"},
    request : Request \cup {None}, tries : 0..Attempts, epoch : 0..MaxRestarts,
    code : Code \cup {None}, result : Result \cup {None} ]

Init ==
  /\ deployment \in Deployments
  /\ call = [c \in Calls |-> [pc |-> "unsent", request |-> None, tries |-> 0, epoch |-> 0,
                              code |-> None, result |-> None]]
  /\ operation = [c \in Calls |-> "none"]
  /\ effects = [c \in Calls |-> 0]
  /\ lines = <<>>
  /\ kept = [s \in Slots |-> None]
  /\ row = [s \in Slots |-> None]
  /\ epoch = 0

-----------------------------------------------------------------------------
(* Requests arrive                                                         *)

\* JSON that is no request of MCP, and arguments that the route's schema refuses.
Malformed == {"notRequest", "invalid"}

\* The refusals of each transport in the order of its checks; "OK" is the
\* answer of the routes that are open to everyone.
When(applies, code) == [applies |-> applies, code |-> code]
open(r) == When(r.route \in Open, "OK")
unknown(r) == When(r.route \notin Writes \cup Reads, "NOT_FOUND")
noKey(r) == When(r.route \in Writes /\ r.key = None, "IDEMPOTENCY_KEY_REQUIRED")

readBody(r) ==
  << When(r.route \in Writes /\ r.content = "tooLarge", "BODY_TOO_LARGE"),
     When(r.route \in Writes /\ r.content = "notJson", "INVALID_JSON") >>

restChecks(r) ==
  LET hosted == deployment.mode = "hosted-authenticated"
  IN  << When(~hosted /\ ~r.loopback, "LOOPBACK_ONLY"),
         When(hosted /\ ~deployment.authenticator, "AUTHENTICATOR_REQUIRED"),
         open(r), unknown(r),
         When(deployment.authenticator /\ ~r.token, "UNAUTHORIZED"),
         When(r.route \in Writes /\ ~r.typed, "CONTENT_TYPE_REQUIRED") >>
      \o readBody(r)
      \o << When(r.route \in Writes /\ r.content \in Malformed, "INVALID_REQUEST"), noKey(r) >>

workerChecks(r) ==
  << open(r), unknown(r),
     When(~deployment.authenticator \/ ~r.token, "UNAUTHORIZED") >>
  \o readBody(r) \o << noKey(r) >>

parseRequest(r) ==
  << When(r.content = "tooLarge", "MCP_REQUEST_TOO_LARGE"),
     When(r.content = "notJson", "MCP_INVALID_JSON"),
     When(r.content = "notRequest", "MCP_INVALID_REQUEST") >>

checks(r) ==
  CASE deployment.transport = "rest"   -> restChecks(r)
    [] deployment.transport = "worker" -> workerChecks(r)
    [] deployment.transport = "stdio"  -> parseRequest(r)
    [] deployment.transport = "sdk"    -> << >>

refusal(r) ==
  LET applying == {n \in DOMAIN checks(r) : checks(r)[n].applies}
  IN  IF applying = {} THEN None
      ELSE checks(r)[CHOOSE n \in applying : \A m \in applying : n <= m].code

\* What is kept under the request's route and key.
recorded(r) ==
  IF r.route \notin Writes \/ r.key = None THEN None
  ELSE CASE deployment.transport = "rest"   -> kept[<<r.route, r.key>>]
         [] deployment.transport = "worker" -> row[<<r.route, r.key>>]
         [] OTHER                           -> None

\* An answer's code, given that only the REST server and stdio measure it.
sized(r) ==
  IF r.body \in Large /\ r.route \in Writes /\ deployment.transport \in {"rest", "stdio"}
  THEN "RESPONSE_TOO_LARGE" ELSE "OK"

\* Request r of call c comes to be looked at: on stdio when the lines before
\* it are done with.
Arrives(c, r) ==
  IF deployment.transport = "stdio"
  THEN /\ lines # <<>> /\ c = Head(lines) /\ r = call[c].request
       /\ \A d \in Calls : call[d].pc # "running"
       /\ lines' = Tail(lines)
  ELSE /\ call[c].pc = "unsent" /\ \A d \in 1..(c - 1) : call[d].pc # "unsent"
       /\ UNCHANGED lines

Told(c, r, code, result) ==
  call' = [call EXCEPT ![c] = [pc |-> "answered", request |-> r, tries |-> @.tries,
                               epoch |-> epoch, code |-> code, result |-> result]]

SendLine(c, r) ==
  /\ deployment.transport = "stdio"
  /\ call[c].pc = "unsent" /\ \A d \in 1..(c - 1) : call[d].pc # "unsent"
  /\ call' = [call EXCEPT ![c].pc = "queued", ![c].request = r]
  /\ lines' = Append(lines, c)
  /\ UNCHANGED <<deployment, operation, effects, kept, row, epoch>>

Refuse(c, r) ==
  /\ Arrives(c, r)
  /\ refusal(r) # None
  /\ Told(c, r, refusal(r), None)
  /\ UNCHANGED <<deployment, operation, effects, kept, row, epoch>>

RefuseReuse(c, r) ==
  /\ Arrives(c, r)
  /\ refusal(r) = None
  /\ recorded(r) # None /\ recorded(r).body # r.body
  /\ Told(c, r, "IDEMPOTENCY_KEY_REUSED", None)
  /\ UNCHANGED <<deployment, operation, effects, kept, row, epoch>>

\* Mutant: the fingerprint is not compared.
Replay_AnyBody(c, r) ==
  /\ Arrives(c, r)
  /\ refusal(r) = None
  /\ recorded(r) # None
  /\ Told(c, r, sized(r), recorded(r).result)
  /\ UNCHANGED <<deployment, operation, effects, kept, row, epoch>>

Replay(c, r) ==
  /\ Arrives(c, r)
  /\ refusal(r) = None
  /\ recorded(r) # None /\ recorded(r).body = r.body
  /\ Told(c, r, sized(r), recorded(r).result)
  /\ UNCHANGED <<deployment, operation, effects, kept, row, epoch>>

\* Over D1 a lookup is awaited, and what it found may be out of date when the
\* operation starts.
LooksUp(r) == deployment.transport = "worker" /\ r.route \in Writes

\* Mutant: what is kept is not looked at.
Invoke_NoLookup(c, r) ==
  /\ Arrives(c, r)
  /\ refusal(r) = None /\ ~LooksUp(r)
  /\ call' = [call EXCEPT ![c].pc = "running", ![c].request = r, ![c].tries = 1,
                          ![c].epoch = epoch]
  /\ operation' = [operation EXCEPT ![c] = "running"]
  /\ UNCHANGED <<deployment, effects, kept, row, epoch>>

Invoke(c, r) ==
  /\ Arrives(c, r)
  /\ refusal(r) = None /\ ~LooksUp(r) /\ recorded(r) = None
  /\ call' = [call EXCEPT ![c].pc = "running", ![c].request = r, ![c].tries = 1,
                          ![c].epoch = epoch]
  /\ operation' = [operation EXCEPT ![c] = "running"]
  /\ UNCHANGED <<deployment, effects, kept, row, epoch>>

\* The worker finds no row.
Miss(c, r) ==
  /\ Arrives(c, r)
  /\ refusal(r) = None /\ LooksUp(r) /\ recorded(r) = None
  /\ call' = [call EXCEPT ![c].pc = "missed", ![c].request = r, ![c].epoch = epoch]
  /\ UNCHANGED <<deployment, operation, effects, kept, row, epoch>>

LookupFails(c, r) ==
  /\ Arrives(c, r)
  /\ refusal(r) = None /\ LooksUp(r)
  /\ Told(c, r, "INTERNAL_ERROR", None)
  /\ UNCHANGED <<deployment, operation, effects, kept, row, epoch>>

\* And then starts the operation, whatever row there is by now.
Start(c) ==
  /\ call[c].pc = "missed"
  /\ call' = [call EXCEPT ![c].pc = "running", ![c].tries = 1]
  /\ operation' = [operation EXCEPT ![c] = "running"]
  /\ UNCHANGED <<deployment, effects, lines, kept, row, epoch>>

-----------------------------------------------------------------------------
(* The operation on the surface, whoever still waits for it                *)

TakeEffect(c) ==
  /\ operation[c] = "running"
  /\ call[c].request.route \in Writes \ Effectless
  /\ call[c].request.content \notin Malformed
  /\ operation' = [operation EXCEPT ![c] = "effected"]
  /\ effects' = [effects EXCEPT ![c] = @ + 1]
  /\ UNCHANGED <<deployment, call, lines, kept, row, epoch>>

\* A result without an effect: of a read, and of a POST that is not Effectful and
\* ends with REJECTED, NO_ELIGIBLE_MEMORY or AUTHORIZED.
Finishing(c) ==
  LET r == call[c].request
  IN  \/ operation[c] = "effected"
      \/ /\ operation[c] = "running"
         /\ \/ r.route \in Reads \cup Open
            \/ r.route \in Writes \ Effectful /\ r.content \notin Malformed

\* The map is set, and the answer sent, in the step that ends the wait.
ReturnKept(c) ==
  LET r == call[c].request
      result == <<c, call[c].tries>>
  IN  /\ call[c].pc = "running" /\ deployment.transport # "worker"
      /\ Finishing(c)
      /\ operation' = [operation EXCEPT ![c] = "done"]
      /\ kept' = IF deployment.transport = "rest" /\ r.route \in Writes
                 THEN [kept EXCEPT ![<<r.route, r.key>>] = [body |-> r.body, result |-> result]]
                 ELSE kept
      /\ Told(c, r, sized(r), result)
      /\ UNCHANGED <<deployment, effects, lines, row, epoch>>

\* The worker has yet to write a row, for a POST.
ReturnToWorker(c) ==
  /\ call[c].pc = "running" /\ deployment.transport = "worker"
  /\ Finishing(c)
  /\ operation' = [operation EXCEPT ![c] = "done"]
  /\ IF call[c].request.route \in Writes
     THEN call' = [call EXCEPT ![c].pc = "insert"]
     ELSE Told(c, call[c].request, "OK", <<c, call[c].tries>>)
  /\ UNCHANGED <<deployment, effects, lines, kept, row, epoch>>

\* Mutant: a result that comes late is sent all the same.
ReturnLate_Sent(c) ==
  /\ call[c].pc \in {"answered", "lost"}
  /\ Finishing(c)
  /\ operation' = [operation EXCEPT ![c] = "done"]
  /\ Told(c, call[c].request, "OK", <<c, call[c].tries>>)
  /\ UNCHANGED <<deployment, effects, lines, kept, row, epoch>>

\* Nobody waits: neither kept nor sent.
ReturnLate(c) ==
  /\ call[c].pc \in {"answered", "lost"}
  /\ Finishing(c)
  /\ operation' = [operation EXCEPT ![c] = "done"]
  /\ UNCHANGED <<deployment, call, effects, lines, kept, row, epoch>>

\* The errors an operation may end with: a tool that is not there and a shape
\* its schema refuses fail at once, and nothing but the store fails after an
\* effect.
MayThrow(c, f) ==
  \/ /\ operation[c] = "running"
     /\ f = "Unknown" <=> call[c].request.route = "unknown"
     /\ f = "Invalid" <=> /\ call[c].request.content \in Malformed
                          /\ call[c].request.route # "unknown"
  \/ operation[c] = "effected" /\ f = "Internal"

retryable(f) == normalizeError[f] = "INTERNAL"

Throw(c, f) ==
  /\ MayThrow(c, f)
  /\ ~(deployment.transport = "sdk" /\ retryable(f) /\ call[c].tries < Attempts)
  /\ operation' = [operation EXCEPT ![c] = "failed"]
  /\ IF call[c].pc = "running"
     THEN Told(c, call[c].request, errorCode[deployment.transport][f], None)
     ELSE UNCHANGED call
  /\ UNCHANGED <<deployment, effects, lines, kept, row, epoch>>

\* Mutant: the attempts are not counted.
Retry_Unbounded(c, f) ==
  /\ deployment.transport = "sdk" /\ call[c].pc = "running"
  /\ MayThrow(c, f) /\ retryable(f)
  /\ operation' = [operation EXCEPT ![c] = "running"]
  /\ call' = [call EXCEPT ![c].tries = @ + 1]
  /\ UNCHANGED <<deployment, effects, lines, kept, row, epoch>>

\* withRecovery runs the operation once more.
Retry(c, f) ==
  /\ deployment.transport = "sdk" /\ call[c].pc = "running"
  /\ MayThrow(c, f) /\ retryable(f) /\ call[c].tries < Attempts
  /\ operation' = [operation EXCEPT ![c] = "running"]
  /\ call' = [call EXCEPT ![c].tries = @ + 1]
  /\ UNCHANGED <<deployment, effects, lines, kept, row, epoch>>

-----------------------------------------------------------------------------
(* The worker's row                                                        *)

\* Mutant: the row is replaced.
PutIdempotency_Replace(c, heard) ==
  LET r == call[c].request
  IN  /\ call[c].pc = "insert"
      /\ row' = [row EXCEPT ![<<r.route, r.key>>] =
                   [body |-> r.body, result |-> <<c, call[c].tries>>]]
      /\ IF heard THEN call' = [call EXCEPT ![c].pc = "recorded"]
         ELSE Told(c, r, "INTERNAL_ERROR", None)
      /\ UNCHANGED <<deployment, operation, effects, lines, kept, epoch>>

\* The insert takes effect; that it did may not be heard.
PutIdempotency(c, heard) ==
  LET r == call[c].request
  IN  /\ call[c].pc = "insert"
      /\ row[<<r.route, r.key>>] = None
      /\ row' = [row EXCEPT ![<<r.route, r.key>>] =
                   [body |-> r.body, result |-> <<c, call[c].tries>>]]
      /\ IF heard THEN call' = [call EXCEPT ![c].pc = "recorded"]
         ELSE Told(c, r, "INTERNAL_ERROR", None)
      /\ UNCHANGED <<deployment, operation, effects, lines, kept, epoch>>

\* The insert fails: the primary key is taken, or D1 does not answer.
PutIdempotencyFails(c) ==
  /\ call[c].pc = "insert"
  /\ Told(c, call[c].request, "INTERNAL_ERROR", None)
  /\ UNCHANGED <<deployment, operation, effects, lines, kept, row, epoch>>

SendRecorded(c) ==
  /\ call[c].pc = "recorded"
  /\ Told(c, call[c].request, "OK", <<c, call[c].tries>>)
  /\ UNCHANGED <<deployment, operation, effects, lines, kept, row, epoch>>

-----------------------------------------------------------------------------
(* Time-outs, restarts and terminated invocations                          *)

\* Mutant: only an operation that has not taken effect is given up.
Timeout_NotEffected(c) ==
  /\ deployment.transport \in {"rest", "stdio"}
  /\ call[c].pc = "running" /\ operation[c] = "running"
  /\ Told(c, call[c].request, "UPSTREAM_TIMEOUT", None)
  /\ UNCHANGED <<deployment, operation, effects, lines, kept, row, epoch>>

\* withTimeout: the client is answered (MCP_REQUEST_TIMEOUT on stdio) and the
\* operation goes on.
Timeout(c) ==
  /\ deployment.transport \in {"rest", "stdio"}
  /\ call[c].pc = "running"
  /\ Told(c, call[c].request, "UPSTREAM_TIMEOUT", None)
  /\ UNCHANGED <<deployment, operation, effects, lines, kept, row, epoch>>

Cut(o) == IF o \in {"running", "effected"} THEN "cut" ELSE o

\* The REST process goes, with its map and what it was doing.
Restart ==
  /\ deployment.transport = "rest" /\ epoch < MaxRestarts
  /\ epoch' = epoch + 1
  /\ kept' = [s \in Slots |-> None]
  /\ call' = [c \in Calls |-> IF call[c].pc = "running" THEN [call[c] EXCEPT !.pc = "lost"]
                              ELSE call[c]]
  /\ operation' = [c \in Calls |-> Cut(operation[c])]
  /\ UNCHANGED <<deployment, effects, lines, row>>

\* One invocation of the worker is terminated.
Terminate(c) ==
  /\ deployment.transport = "worker"
  /\ call[c].pc \in {"missed", "running", "insert", "recorded"}
  /\ call' = [call EXCEPT ![c].pc = "lost"]
  /\ operation' = [operation EXCEPT ![c] = Cut(@)]
  /\ UNCHANGED <<deployment, effects, lines, kept, row, epoch>>

Serve(c) ==
  \E r \in Requests[c] :
    \/ Refuse(c, r) \/ RefuseReuse(c, r) \/ Replay(c, r) \/ Invoke(c, r)
    \/ Miss(c, r) \/ LookupFails(c, r)

Next ==
  \/ \E c \in Calls :
       \/ \E r \in Requests[c] : SendLine(c, r)
       \/ Serve(c) \/ Start(c)
       \/ TakeEffect(c)
       \/ ReturnKept(c) \/ ReturnToWorker(c) \/ ReturnLate(c)
       \/ \E f \in Failure : Throw(c, f) \/ Retry(c, f)
       \/ \E heard \in BOOLEAN : PutIdempotency(c, heard)
       \/ PutIdempotencyFails(c) \/ SendRecorded(c)
       \/ Timeout(c) \/ Terminate(c)
  \/ Restart

\* Lines are read and timers fire; that an operation ends is not assumed.
Fairness ==
  \A c \in Calls : WF_vars(call[c].pc = "queued" /\ Serve(c)) /\ WF_vars(Timeout(c))

Spec == Init /\ [][Next]_vars /\ Fairness

-----------------------------------------------------------------------------
(* Properties                                                              *)

TypeOK ==
  /\ deployment \in Deployments
  /\ call \in [Calls -> Call]
  /\ operation \in [Calls -> {"none", "running", "effected", "done", "failed", "cut"}]
  /\ effects \in [Calls -> 0..Attempts]
  /\ lines \in Seq(Calls)
  /\ kept \in [Slots -> Entry \cup {None}]
  /\ row \in [Slots -> Entry \cup {None}]
  /\ epoch \in 0..MaxRestarts

Keyed == deployment.transport \in {"rest", "worker"}
SameKey(c, d) ==
  /\ call[c].request # None /\ call[d].request # None
  /\ call[c].request.route \in Writes
  /\ call[c].request.route = call[d].request.route
  /\ call[c].request.key = call[d].request.key
Answered(c) == call[c].pc = "answered" /\ call[c].result # None

\* Whoever is told a result is told one that an operation for the same route
\* and body has produced: its own, or under the key it gave another's.  Whoever
\* is told that a key was used for something else has caused nothing, and shares
\* it with a call of another body that got its result.  Where a result means that
\* something was written, it was, and by the operation the result is from.
AnswersAreEarned ==
  \A c \in Calls :
    /\ Answered(c) =>
         LET d == call[c].result[1]
         IN  /\ operation[d] = "done" /\ call[d].tries = call[c].result[2]
             /\ call[d].request.route = call[c].request.route
             /\ call[c].request.route \in Effectful => effects[d] > 0
             /\ c # d => /\ Keyed /\ SameKey(c, d) /\ operation[c] = "none"
                         /\ call[d].request.body = call[c].request.body
    /\ call[c].code = "IDEMPOTENCY_KEY_REUSED" =>
         /\ operation[c] = "none"
         /\ \E d \in Calls :
              /\ SameKey(c, d) /\ call[d].request.body # call[c].request.body
              /\ operation[d] = "done"
              /\ call[d].request.route \in Effectful => effects[d] > 0

\* No request is let through under a key that a client was told a result for when
\* it is looked at, neither with the same body nor with another.  Only the REST
\* server forgets, when its process ends.  It says nothing of a request that was
\* let through before the answer was given: over D1 that one runs all the same.
AnsweredKeysAreClosed ==
  [][ \A c, d \in Calls :
        (/\ call[c].pc \in {"unsent", "queued"} /\ call'[c].pc \in {"missed", "running"}
         /\ Keyed /\ call'[c].request.route \in Writes
         /\ Answered(d) /\ SameKey(d, c)')
        => deployment.transport = "rest" /\ call[d].epoch < epoch ]_vars

\* Every call is answered at most once, whatever comes of its operation later.
AnsweredOnce ==
  [][ \A c \in Calls : call[c].pc \in {"answered", "lost"} => call'[c] = call[c] ]_vars

\* A request the REST server or stdio has accepted is answered, however long its
\* operation takes, unless the process ends; on stdio the lines after it too.
AllAnswered ==
  \A c \in Calls :
    (deployment.transport \in {"rest", "stdio"} /\ call[c].pc \in {"queued", "running"})
      ~> call[c].pc \in {"answered", "lost"}

\* What clients of the worker were told under keys.
Heard ==
  { << <<call[c].request.route, call[c].request.key>>,
       [body |-> call[c].request.body, result |-> call[c].result] >> :
    c \in {c \in Calls : /\ deployment.transport = "worker" /\ Answered(c)
                        /\ call[c].request.route \in Writes} }

\* Over D1 all who are told of success under a key are told the same, and what
\* the table says never changes.
Promise == INSTANCE KeyedAnswers WITH Answers <- Entry, told <- row, heard <- Heard

ImplementsKeyedAnswers == Promise!Spec

=============================================================================
