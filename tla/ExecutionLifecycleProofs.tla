---------------------- MODULE ExecutionLifecycleProofs ----------------------
(***************************************************************************)
(* Proofs about ExecutionLifecycle, for any executions, invocations,       *)
(* requests, signals and policies.                                         *)
(***************************************************************************)
EXTENDS ExecutionLifecycle, RuntimeStoreProofs, FiniteSetTheorems

(***************************************************************************)
(* Type correctness                                                        *)
(***************************************************************************)
\* What an invocation may hold, and what it must hold at its pc.
Held == {k \in Call : HoldsWhatItNeeds(k)}

CallTyped == /\ call \in [Callers -> Call]
             /\ \A c \in Callers : HoldsWhatItNeeds(call[c])

LEMMA HeldTyped ==
  ASSUME NEW c \in Callers, TypeOK
  PROVE  call[c] \in Call /\ HoldsWhatItNeeds(call[c])
BY DEF TypeOK, StoreTypeOK

LEMMA Holding ==
  ASSUME TypeOK, NEW c \in Callers, NEW k \in Held, call' = [call EXCEPT ![c] = k]
  PROVE  CallTyped'
BY DEF TypeOK, StoreTypeOK, Held, CallTyped

LEMMA IdleInCall == Idle \in Call
BY DEF Idle, Call

LEMMA IdleTyped == Idle \in Held /\ [Idle EXCEPT !.pc = "failed"] \in Held
<1>1. Idle \in Held
  BY IdleInCall DEF Idle, Held, HoldsWhatItNeeds
<1> DEFINE k == [Idle EXCEPT !.pc = "failed"]
<1>2. k \in Call /\ k.pc = "failed"
  BY IdleInCall DEF Call
<1>3. k \in Held
  <2> HIDE DEF k
  <2> QED BY <1>2 DEF Held, HoldsWhatItNeeds
<1> QED BY <1>1, <1>3

LEMMA RequestKinds ==
  ASSUME NEW c \in Callers, NEW q \in Requests[c]
  PROVE  /\ q.op = "start" => q \in StartRequest
         /\ q.op = "observe" => q \in ObserveRequest
         /\ q.op = "complete" => q \in CompleteRequest
         /\ q \in Request /\ q # None /\ q.exec \in Execs
BY LifecycleAssumption DEF Request, StartRequest, ObserveRequest, CompleteRequest

LEMMA TypeInit == Init => TypeOK
BY IdleTyped, StoreTypeInit DEF Init, TypeOK, Held

LEMMA TypeReturn ==
  ASSUME TypeOK, NEW c \in Callers, Return(c) PROVE CallTyped'
<1> DEFINE k == [Idle EXCEPT !.pc = "done", !.q = call[c].q]
<1>1. k \in Held
  BY HeldTyped, IdleInCall DEF Call, Held, HoldsWhatItNeeds
<1> QED BY <1>1, Holding DEF Return

LEMMA TypeThrow ==
  ASSUME TypeOK, NEW c \in Callers, Throw(c) PROVE CallTyped'
BY IdleTyped, Holding DEF Throw

LEMMA TypeAccept ==
  ASSUME TypeOK, NEW c \in Callers, NEW q \in Requests[c], NEW pc,
         \/ pc = "count" /\ q.op = "observe"
         \/ pc = "outcome" /\ q.op = "complete",
         requireRunning(q.exec), Accept(c, q, pc)
  PROVE  CallTyped'
<1> DEFINE k == [Idle EXCEPT !.pc = pc, !.q = q, !.run = execution[q.exec]]
<1>1. execution[q.exec] \in Execution
  BY RequestKinds DEF requireRunning, TypeOK, StoreTypeOK
<1>2. k \in Call
  BY <1>1, IdleInCall, RequestKinds DEF Call
<1>3. k.pc = pc /\ k.q = q /\ k.run = execution[q.exec]
  BY IdleInCall DEF Call
<1>4. HoldsWhatItNeeds(k)
  <2> HIDE DEF k
  <2> QED BY <1>1, <1>3, RequestKinds DEF HoldsWhatItNeeds
<1>5. k \in Held
  BY <1>2, <1>4 DEF Held
<1> HIDE DEF k
<1> QED BY <1>5, Holding DEF Accept, k

LEMMA TypeGoto ==
  ASSUME TypeOK, NEW c \in Callers, NEW pc, Goto(c, pc),
         \/ call[c].pc = "freeze" /\ pc = "publish"
         \/ call[c].pc = "slot" /\ pc = "put"
         \/ call[c].pc = "outcome" /\ pc = "store"
         \/ call[c].pc = "store" /\ pc = "status"
  PROVE  CallTyped'
<1> DEFINE k == [call[c] EXCEPT !.pc = pc]
<1>1. k \in Held
  BY HeldTyped DEF Call, Held, HoldsWhatItNeeds
<1>2. call' = [call EXCEPT ![c] = k]
  BY DEF Goto, TypeOK
<1> QED BY <1>1, <1>2, Holding

LEMMA TypeStart ==
  ASSUME TypeOK, NEW c \in Callers, NEW q \in Requests[c], StartExecution(c, q)
  PROVE  CallTyped'
<1>1. q \in StartRequest /\ q \in Request
  BY RequestKinds DEF StartExecution
<1>2. PICK pc \in {"publish", "freeze"} :
        call' = [call EXCEPT ![c] = [Idle EXCEPT !.pc = pc, !.q = q]]
  BY DEF StartExecution
<1> DEFINE k == [Idle EXCEPT !.pc = pc, !.q = q]
<1>3. k \in Call /\ k.pc = pc /\ k.q = q
  BY <1>1, IdleInCall DEF Call
<1>4. k \in Held
  <2> HIDE DEF k
  <2> QED BY <1>1, <1>3 DEF Held, HoldsWhatItNeeds
<1> QED BY <1>2, <1>4, Holding

LEMMA TypeEnter ==
  ASSUME TypeOK, NEW c \in Callers, Enter(c) PROVE CallTyped'
<1>1. ASSUME NEW q \in Requests[c], StartObserve(c, q) PROVE CallTyped'
  BY <1>1, TypeAccept DEF StartObserve
<1>2. ASSUME NEW q \in Requests[c], StartComplete(c, q) PROVE CallTyped'
  BY <1>2, TypeAccept DEF StartComplete
<1> QED BY <1>1, <1>2, TypeStart DEF Enter

LEMMA TypeCountEvents ==
  ASSUME TypeOK, IsFiniteSet(event), NEW c \in Callers, CountEvents(c)
  PROVE  CallTyped'
<1> DEFINE now == call[c]
<1>0. now \in Call /\ HoldsWhatItNeeds(now)
  BY HeldTyped
<1>1. PICK listed \in SUBSET event :
        call' = [call EXCEPT ![c].pc = "slot",
                             ![c].seq = nextEventSequence(now.q.exec, listed)]
  BY DEF CountEvents
<1> DEFINE n == nextEventSequence(now.q.exec, listed)
           k == [now EXCEPT !.pc = "slot", !.seq = n]
<1>2. n \in Nat
  <2>1. {x \in listed : x.exec = now.q.exec} \in SUBSET event
    OBVIOUS
  <2> QED BY <2>1, FS_Subset, FS_CardinalityType DEF nextEventSequence
<1> HIDE DEF n
<1>3. k \in Held
  BY <1>0, <1>2 DEF CountEvents, Call, Held, HoldsWhatItNeeds
<1>4. call' = [call EXCEPT ![c] = k]
  BY <1>1 DEF TypeOK, n
<1> HIDE DEF k
<1> QED BY <1>3, <1>4, Holding

\* A step that moves to "signals", "sources" or "admitted" and keeps the request.
LEMMA TypeAdmission ==
  ASSUME TypeOK, NEW c \in Callers,
         \/ PutStatus(c) \/ JudgeSignal(c) \/ PersistMemory(c)
         \/ RecordAdmission(c) \/ RecordRefusal(c)
         \/ \E s \in call[c].pending : CheckSource(c, s)
  PROVE  CallTyped'
<1> DEFINE now == call[c]
<1>0. now \in Call /\ HoldsWhatItNeeds(now)
  BY HeldTyped
<1>1. CASE PutStatus(c)
  <2> DEFINE k == [now EXCEPT !.pc = "signals", !.signals = now.q.signals]
  <2>1. k \in Held
    BY <1>0, <1>1 DEF PutStatus, Call, Held, HoldsWhatItNeeds, CompleteRequest
  <2>2. call' = [call EXCEPT ![c] = k]
    BY <1>1 DEF PutStatus, TypeOK
  <2> HIDE DEF k
  <2> QED BY <2>1, <2>2, Holding
<1>2. CASE JudgeSignal(c)
  <2> DEFINE sources == SourcesOf(Head(now.signals), now.q.exec)
             ok == /\ evaluateAdmissionSignal(Head(now.signals), now.run, now.q.evidence)
                   /\ now.q.exec \in sources
             k == [now EXCEPT !.pc = "sources", !.pending = sources, !.ok = ok]
  <2>1. Head(now.signals) \in Signal /\ now.q.exec \in Execs
    BY <1>0, <1>2 DEF JudgeSignal, Call, HoldsWhatItNeeds, CompleteRequest
  <2>2. sources \in SUBSET Execs
    BY <2>1 DEF SourcesOf, Signal
  <2>3. ok \in BOOLEAN
    BY DEF evaluateAdmissionSignal
  <2> HIDE DEF sources, ok
  <2>4. k \in Held
    BY <1>0, <1>2, <2>2, <2>3 DEF JudgeSignal, Call, Held, HoldsWhatItNeeds
  <2>5. call' = [call EXCEPT ![c] = k]
    BY <1>2 DEF JudgeSignal, TypeOK, sources, ok
  <2> HIDE DEF k
  <2> QED BY <2>4, <2>5, Holding
<1>3. ASSUME NEW s \in now.pending, CheckSource(c, s) PROVE CallTyped'
  <2> DEFINE ok == /\ now.ok
                   /\ SourceSupports(s, now.q.exec, now.run, Head(now.signals).evidence)
             k == [now EXCEPT !.pending = now.pending \ {s}, !.ok = ok]
  <2>1. ok \in BOOLEAN
    BY <1>0 DEF Call
  <2> HIDE DEF ok
  <2>2. k \in Held
    BY <1>0, <1>3, <2>1 DEF CheckSource, Call, Held, HoldsWhatItNeeds
  <2>3. call' = [call EXCEPT ![c] = k]
    BY <1>3 DEF CheckSource, TypeOK, ok
  <2> HIDE DEF k
  <2> QED BY <2>2, <2>3, Holding
<1>4. CASE PersistMemory(c)
  <2>1. PICK m \in Memories : call' = [call EXCEPT ![c].pc = "admitted", ![c].memory = m]
    BY <1>4 DEF PersistMemory
  <2> DEFINE k == [now EXCEPT !.pc = "admitted", !.memory = m]
  <2>2. k \in Held
    BY <1>0, <1>4 DEF PersistMemory, Call, Held, HoldsWhatItNeeds
  <2>3. call' = [call EXCEPT ![c] = k]
    BY <2>1 DEF TypeOK
  <2> HIDE DEF k
  <2> QED BY <2>2, <2>3, Holding
<1>5. CASE RecordAdmission(c) \/ RecordRefusal(c)
  <2> DEFINE k == [now EXCEPT !.pc = "signals", !.signals = Tail(now.signals)]
  <2>1. now.pc \in {"sources", "admitted"} /\ now.signals # << >>
    BY <1>0, <1>5 DEF RecordAdmission, RecordRefusal, HoldsWhatItNeeds
  <2>2. Tail(now.signals) \in Seq(Signal)
    BY <1>0, <2>1 DEF Call
  <2>3. k \in Held
    BY <1>0, <2>1, <2>2 DEF Call, Held, HoldsWhatItNeeds
  <2>4. call' = [call EXCEPT ![c] = k]
    BY <1>5 DEF RecordAdmission, RecordRefusal, TypeOK
  <2> HIDE DEF k
  <2> QED BY <2>3, <2>4, Holding
<1> QED BY <1>1, <1>2, <1>3, <1>4, <1>5

LEMMA TypeProceed ==
  ASSUME TypeOK, IsFiniteSet(event), NEW c \in Callers, Proceed(c)
  PROVE  CallTyped'
<1>1. CASE SetExecutionMemoryPolicy(c)
  BY <1>1, TypeGoto, TypeThrow DEF SetExecutionMemoryPolicy
<1>2. CASE ReturnExecution(c) \/ ReturnCompletion(c) \/ PutEvent(c)
  BY <1>2, TypeReturn DEF ReturnExecution, ReturnCompletion, PutEvent
<1>3. CASE GetEvent(c)
  BY <1>3, TypeGoto, TypeReturn, TypeThrow DEF GetEvent
<1>4. CASE GetOutcome(c)
  BY <1>4, TypeGoto, TypeThrow DEF GetOutcome
<1>5. CASE PutOutcome(c)
  BY <1>5, TypeGoto DEF PutOutcome
<1> QED BY <1>1, <1>2, <1>3, <1>4, <1>5, TypeCountEvents, TypeAdmission DEF Proceed

LEMMA TypeCall ==
  ASSUME TypeOK, IsFiniteSet(event), [Next]_vars PROVE CallTyped'
<1>1. CASE UNCHANGED vars
  BY <1>1 DEF vars, TypeOK, CallTyped
<1>2. ASSUME NEW c \in Callers, Abort(c) PROVE CallTyped'
  BY <1>2, TypeThrow DEF Abort
<1> QED BY <1>1, <1>2, TypeEnter, TypeProceed DEF Next

Audit == {"MEMORY_ADMITTED", "MEMORY_NOT_ADMITTED"} \X (Memories \cup Execs)

LEMMA TypeOutcome ==
  ASSUME TypeOK, [Next]_vars PROVE outcome' \in [Execs -> Outcome \cup {None}]
<1>1. CASE UNCHANGED outcome
  BY <1>1 DEF TypeOK
<1>2. ASSUME NEW c \in Callers, PutOutcome(c)
      PROVE  outcome' \in [Execs -> Outcome \cup {None}]
  <2> DEFINE q == call[c].q
             new == [by |-> c, status |-> q.status, evidence |-> q.evidence]
  <2>1. q \in CompleteRequest
    BY <1>2, HeldTyped DEF PutOutcome, HoldsWhatItNeeds
  <2>2. new \in Outcome /\ q.exec \in Execs
    BY <2>1 DEF CompleteRequest, Outcome
  <2>3. outcome' = [outcome EXCEPT ![q.exec] = new]
    BY <1>2 DEF PutOutcome
  <2> HIDE DEF new, q
  <2> QED BY <2>2, <2>3 DEF TypeOK
<1>3. UNCHANGED outcome \/ \E c \in Callers : PutOutcome(c)
  BY DEF Next, vars, Enter, Proceed, Abort, stored, StartExecution, StartObserve, StartComplete,
         SetExecutionMemoryPolicy, ReturnExecution, CountEvents, GetEvent, PutEvent, GetOutcome,
         PutStatus, JudgeSignal, CheckSource, PersistMemory, RecordAdmission, RecordRefusal,
         ReturnCompletion
<1> QED BY <1>1, <1>2, <1>3

\* What one observe writes is the only thing that ever happens to the events.
LEMMA EventWrites ==
  ASSUME [Next]_vars
  PROVE  UNCHANGED event \/ \E c \in Callers : PutEvent(c)
BY DEF Next, vars, Enter, Proceed, Abort, stored, StartExecution, StartObserve, StartComplete,
       SetExecutionMemoryPolicy, ReturnExecution, CountEvents, GetEvent, GetOutcome, PutOutcome,
       PutStatus, JudgeSignal, CheckSource, PersistMemory, RecordAdmission, RecordRefusal,
       ReturnCompletion

LEMMA EventPut ==
  ASSUME TypeOK, NEW c \in Callers, PutEvent(c)
  PROVE  LET q == call[c].q
             new == [exec |-> q.exec, seq |-> call[c].seq, body |-> q.body]
         IN  /\ new \in Event
             /\ event' = {x \in event : ~InSlot(x, new.exec, new.seq)} \cup {new}
BY HeldTyped DEF PutEvent, HoldsWhatItNeeds, ObserveRequest, Call, Event

LEMMA TypeEvent ==
  ASSUME TypeOK, IsFiniteSet(event), [Next]_vars
  PROVE  event' \subseteq Event /\ IsFiniteSet(event')
<1>1. CASE UNCHANGED event
  BY <1>1 DEF TypeOK
<1>2. ASSUME NEW c \in Callers, PutEvent(c)
      PROVE  event' \subseteq Event /\ IsFiniteSet(event')
  <2>1. PICK new \in Event :
          event' = {x \in event : ~InSlot(x, new.exec, new.seq)} \cup {new}
    BY <1>2, EventPut
  <2> DEFINE rest == {x \in event : ~InSlot(x, new.exec, new.seq)}
  <2>2. rest \subseteq event /\ event' = rest \cup {new}
    BY <2>1
  <2> HIDE DEF rest
  <2>3. IsFiniteSet(rest)
    BY <2>2, FS_Subset
  <2> QED BY <2>2, <2>3, FS_AddElement DEF TypeOK
<1> QED BY <1>1, <1>2, EventWrites

LEMMA TypeAudit == ASSUME TypeOK, [Next]_vars PROVE audit' \subseteq Audit
<1>1. CASE UNCHANGED audit
  BY <1>1 DEF TypeOK, Audit
<1>2. ASSUME NEW c \in Callers, RecordAdmission(c) PROVE audit' \subseteq Audit
  BY <1>2, HeldTyped DEF RecordAdmission, HoldsWhatItNeeds, TypeOK, Audit
<1>3. ASSUME NEW c \in Callers, RecordRefusal(c) PROVE audit' \subseteq Audit
  BY <1>3, HeldTyped DEF RecordRefusal, HoldsWhatItNeeds, CompleteRequest, TypeOK, Audit
<1>4. \/ UNCHANGED audit
      \/ \E c \in Callers : RecordAdmission(c) \/ RecordRefusal(c)
  BY DEF Next, vars, Enter, Proceed, Abort, stored, StartExecution, StartObserve, StartComplete,
         SetExecutionMemoryPolicy, ReturnExecution, CountEvents, GetEvent, PutEvent, GetOutcome,
         PutOutcome, PutStatus, JudgeSignal, CheckSource, PersistMemory, ReturnCompletion
<1> QED BY <1>1, <1>2, <1>3, <1>4

(***************************************************************************)
(* Executions and memories change as RuntimeStore says                     *)
(***************************************************************************)
\* The order in which an invocation goes through its steps.
Edges ==
  { <<"freeze", "publish">>, <<"count", "slot">>, <<"slot", "put">>,
    <<"outcome", "store">>, <<"store", "status">>, <<"status", "signals">>,
    <<"signals", "sources">>, <<"sources", "sources">>, <<"sources", "admitted">>,
    <<"sources", "signals">>, <<"admitted", "signals">> }

Begun == {"freeze", "publish"}
Using == {"count", "slot", "put", "outcome", "store", "status", "signals", "sources", "admitted"}

\* An invocation that goes on keeps its request and the record it read; it
\* touches no other invocation's locals.
LEMMA Moves ==
  ASSUME TypeOK, NEW c \in Callers, Proceed(c) \/ Abort(c)
  PROVE  /\ \A d \in Callers \ {c} : call'[d] = call[d]
         /\ call[c].pc \in Begun \cup Using
         /\ \/ call'[c].pc = "failed"
            \/ call'[c].pc = "done" /\ call'[c].q = call[c].q
            \/ /\ <<call[c].pc, call'[c].pc>> \in Edges
               /\ call'[c].q = call[c].q /\ call'[c].run = call[c].run
<1>0. call \in [Callers -> Call] /\ call[c] \in Call
  BY DEF TypeOK
<1> USE DEF Begun, Using
<1>1. CASE Abort(c)
  BY <1>0, <1>1, IdleInCall DEF Abort, Throw, Call
<1>2. CASE Return(c) /\ call[c].pc \in {"publish", "slot", "put", "signals"}
  BY <1>0, <1>2, IdleInCall DEF Return, Call
<1>3. CASE Throw(c) /\ call[c].pc \in {"freeze", "slot", "outcome"}
  BY <1>0, <1>3, IdleInCall DEF Throw, Call
<1>4. ASSUME NEW pc, Goto(c, pc), <<call[c].pc, pc>> \in Edges
      PROVE  /\ \A d \in Callers \ {c} : call'[d] = call[d]
             /\ call[c].pc \in Begun \cup Using
             /\ call'[c].pc = pc /\ call'[c].q = call[c].q /\ call'[c].run = call[c].run
  BY <1>0, <1>4 DEF Goto, Call, Edges
<1>5. CASE SetExecutionMemoryPolicy(c)
  <2>1. call[c].pc = "freeze" /\ (Goto(c, "publish") \/ Throw(c))
    BY <1>5 DEF SetExecutionMemoryPolicy
  <2>2. <<"freeze", "publish">> \in Edges
    BY DEF Edges
  <2> QED BY <2>1, <2>2, <1>3, <1>4
<1>6. CASE GetEvent(c)
  <2>1. call[c].pc = "slot" /\ (Goto(c, "put") \/ Return(c) \/ Throw(c))
    BY <1>6 DEF GetEvent
  <2>2. <<"slot", "put">> \in Edges
    BY DEF Edges
  <2> QED BY <2>1, <2>2, <1>2, <1>3, <1>4
<1>7. CASE GetOutcome(c) \/ PutOutcome(c)
  <2>1. \/ call[c].pc = "outcome" /\ (Goto(c, "store") \/ Throw(c))
        \/ call[c].pc = "store" /\ Goto(c, "status")
    BY <1>7 DEF GetOutcome, PutOutcome
  <2>2. <<"outcome", "store">> \in Edges /\ <<"store", "status">> \in Edges
    BY DEF Edges
  <2> QED BY <2>1, <2>2, <1>3, <1>4
<1>8. CASE ReturnExecution(c) \/ PutEvent(c) \/ ReturnCompletion(c)
  BY <1>2, <1>8 DEF ReturnExecution, PutEvent, ReturnCompletion
<1>9. CASE CountEvents(c)
  <2>1. PICK n : call' = [call EXCEPT ![c].pc = "slot", ![c].seq = n]
    BY <1>9 DEF CountEvents
  <2> QED BY <1>0, <1>9, <2>1 DEF CountEvents, Call, Edges
<1>10. CASE PutStatus(c)
  BY <1>0, <1>10 DEF PutStatus, Call, Edges
<1>11. CASE JudgeSignal(c)
  <2>1. PICK sources, ok : call' = [call EXCEPT ![c].pc = "sources", ![c].pending = sources,
                                                ![c].ok = ok]
    BY <1>11 DEF JudgeSignal
  <2> QED BY <1>0, <1>11, <2>1 DEF JudgeSignal, Call, Edges
<1>12. ASSUME NEW s, CheckSource(c, s)
       PROVE  /\ \A d \in Callers \ {c} : call'[d] = call[d]
              /\ call[c].pc = "sources" /\ call'[c].pc = "sources"
              /\ call'[c].q = call[c].q /\ call'[c].run = call[c].run
  <2>1. PICK pending, ok : call' = [call EXCEPT ![c].pending = pending, ![c].ok = ok]
    BY <1>12 DEF CheckSource
  <2> QED BY <1>0, <1>12, <2>1 DEF CheckSource, Call
<1>13. CASE PersistMemory(c)
  BY <1>0, <1>13 DEF PersistMemory, Call, Edges
<1>14. CASE RecordAdmission(c) \/ RecordRefusal(c)
  BY <1>0, <1>14 DEF RecordAdmission, RecordRefusal, Call, Edges
<1>15. <<"sources", "sources">> \in Edges
  BY DEF Edges
<1> QED BY <1>1, <1>5, <1>6, <1>7, <1>8, <1>9, <1>10, <1>11, <1>12, <1>13, <1>14, <1>15
        DEF Proceed

\* Until startExecution returns an id, only the invocation that drew it has it.
StartsArePrivate ==
  \A c \in Callers : call[c].pc \in Begun =>
    /\ execution[call[c].q.exec] # None /\ call[c].q.exec \notin known
    /\ \A d \in Callers :
         call[d].pc \in Begun /\ call[d].q.exec = call[c].q.exec => d = c

UsesAreKnown == \A c \in Callers : call[c].pc \in Using => call[c].q.exec \in known

AsksAreRequests ==
  \A c \in Callers : call[c].pc \notin {"idle", "failed"} => call[c].q \in Requests[c]

\* The signals still to judge are signals the caller passed.
SignalsAreAsked ==
  \A c \in Callers : call[c].pc \in {"signals", "sources", "admitted"} =>
    \A i \in DOMAIN call[c].signals :
      \E n \in DOMAIN call[c].q.signals : call[c].signals[i] = call[c].q.signals[n]

CallsInv == StartsArePrivate /\ UsesAreKnown /\ AsksAreRequests /\ SignalsAreAsked

LEMMA AdmittedIsInput ==
  ASSUME TypeOK, CallsInv, NEW c \in Callers, call[c].pc \in {"sources", "admitted"}
  PROVE  LET q == call[c].q
             signal == Head(call[c].signals)
         IN  AdmittedMemory(q.exec, call[c].run, signal, SourcesOf(signal, q.exec))
               \in MemoryInputs
<1> DEFINE q == call[c].q
<1>1. /\ q \in Requests[c] /\ q \in CompleteRequest /\ call[c].run \in Execution
      /\ call[c].signals \in Seq(Signal) /\ call[c].signals # << >>
  BY HeldTyped DEF CallsInv, AsksAreRequests, HoldsWhatItNeeds, Call
<1>2. 1 \in DOMAIN call[c].signals /\ Head(call[c].signals) = call[c].signals[1]
  BY <1>1
<1>3. PICK n \in DOMAIN q.signals : Head(call[c].signals) = q.signals[n]
  BY <1>2 DEF CallsInv, SignalsAreAsked
<1>4. q.op = "complete"
  BY <1>1 DEF CompleteRequest
<1> HIDE DEF q
<1>5. AdmittedMemory(q.exec, call[c].run, q.signals[n], SourcesOf(q.signals[n], q.exec))
        \in MemoryInputs
  BY <1>1, <1>4, LifecycleAssumption
<1> QED BY <1>3, <1>5 DEF q

\* The heart of the refinement: what an invocation does to the store's executions
\* and memories is one step of RuntimeStore, because an execution still being
\* started is nobody else's and one in use has been returned.
LEMMA StoreSteps ==
  ASSUME TypeOK, CallsInv, [Next]_vars
  PROVE  StoreNext \/ UNCHANGED records
<1>1. ASSUME NEW c \in Callers, NEW q \in Requests[c], StartExecution(c, q)
      PROVE  StoreNext
  <2>1. q.exec \in Execs /\ q.context \in StartInputs[q.exec]
    BY <1>1, RequestKinds, LifecycleAssumption DEF StartExecution
  <2>2. BeginExecution(q.exec, q.context)
    BY <1>1 DEF StartExecution, BeginExecution
  <2> QED BY <2>1, <2>2 DEF StoreNext
<1>2. ASSUME NEW c \in Callers, SetExecutionMemoryPolicy(c)
      PROVE  StoreNext \/ UNCHANGED records
  <2> DEFINE e == call[c].q.exec
  <2>1. e \in Execs /\ execution[e] # None /\ e \notin known
    BY <1>2, HeldTyped
       DEF SetExecutionMemoryPolicy, HoldsWhatItNeeds, StartRequest, Begun, CallsInv,
           StartsArePrivate
  <2>2. execution[e] \in Execution
    BY <2>1 DEF TypeOK, StoreTypeOK
  <2>3. ASSUME NEW p \in Registered[e], execution[e].policy \in {Fallback, p},
               execution' = [execution EXCEPT ![e].policy = p]
        PROVE  StoreNext \/ UNCHANGED records
    <3>1. CASE execution[e].policy = Fallback
      BY <1>2, <2>1, <2>3, <3>1 DEF SetExecutionMemoryPolicy, FreezePolicy, StoreNext
    <3>2. CASE execution[e].policy = p
      <4>1. [execution[e] EXCEPT !.policy = p] = execution[e]
        BY <2>2, <3>2 DEF Execution
      <4>2. execution' = execution
        BY <2>1, <2>3, <4>1 DEF TypeOK, StoreTypeOK
      <4> QED BY <1>2, <4>2 DEF SetExecutionMemoryPolicy, records
    <3> QED BY <2>3, <3>1, <3>2
  <2>4. CASE UNCHANGED execution
    BY <1>2, <2>4 DEF SetExecutionMemoryPolicy, records
  <2> QED BY <1>2, <2>3, <2>4 DEF SetExecutionMemoryPolicy
<1>3. ASSUME NEW c \in Callers, ReturnExecution(c) PROVE StoreNext
  <2>1. call[c].q.exec \in Execs /\ PublishExecution(call[c].q.exec)
    BY <1>3, HeldTyped
       DEF ReturnExecution, HoldsWhatItNeeds, StartRequest, Begun, CallsInv, StartsArePrivate,
           PublishExecution
  <2> QED BY <2>1 DEF StoreNext
<1>4. ASSUME NEW c \in Callers, PutStatus(c) PROVE StoreNext
  <2> DEFINE q == call[c].q
  <2>1. q \in CompleteRequest /\ q \in Requests[c] /\ q.exec \in known
    BY <1>4, HeldTyped
       DEF PutStatus, HoldsWhatItNeeds, Using, CallsInv, UsesAreKnown, AsksAreRequests
  <2>2. q.op = "complete" /\ q.exec \in Execs
    BY <2>1 DEF CompleteRequest
  <2>3. q.status \in Outcomes
    BY <2>1, <2>2, LifecycleAssumption
  <2>4. FinishExecution(q.exec, q.status)
    BY <1>4, <2>1 DEF PutStatus, FinishExecution
  <2> QED BY <2>2, <2>3, <2>4 DEF StoreNext
<1>5. ASSUME NEW c \in Callers, PersistMemory(c) PROVE StoreNext
  BY <1>5, AdmittedIsInput DEF PersistMemory, WriteMemory, StoreNext
<1>6. \/ UNCHANGED records
      \/ \E c \in Callers : \/ \E q \in Requests[c] : StartExecution(c, q)
                           \/ SetExecutionMemoryPolicy(c) \/ ReturnExecution(c)
                           \/ PutStatus(c) \/ PersistMemory(c)
  BY DEF Next, vars, records, Enter, Proceed, Abort, stored, StartObserve, StartComplete,
         CountEvents, GetEvent, PutEvent, GetOutcome, PutOutcome, JudgeSignal, CheckSource,
         RecordAdmission, RecordRefusal, ReturnCompletion
<1> QED BY <1>1, <1>2, <1>3, <1>4, <1>5, <1>6

LEMMA StoreFollows ==
  ASSUME TypeOK, CallsInv, [Next]_vars PROVE StoreTypeOK' /\ StoreEvolves
<1>1. CASE UNCHANGED records
  BY <1>1 DEF records, TypeOK, StoreTypeOK, StoreEvolves
<1> QED BY <1>1, StoreSteps, StoreTypeStep, StoreStepEvolves DEF TypeOK

LEMMA TypeNext ==
  ASSUME TypeOK, IsFiniteSet(event), CallsInv, [Next]_vars
  PROVE  TypeOK' /\ IsFiniteSet(event')
BY TypeCall, TypeOutcome, TypeEvent, TypeAudit, StoreFollows DEF TypeOK, CallTyped, Audit

\* An invocation enters with one of its requests: to start an execution no one
\* has, or to use one that is known and running.
LEMMA Enters ==
  ASSUME TypeOK, NEW c \in Callers, Enter(c)
  PROVE  \E q \in Requests[c] :
           /\ \A d \in Callers \ {c} : call'[d] = call[d]
           /\ call'[c].q = q
           /\ \/ call'[c].pc \in Begun /\ StartExecution(c, q)
              \/ /\ call'[c].pc \in {"count", "outcome"} /\ q.exec \in known
                 /\ call'[c].run = execution[q.exec]
                 /\ UNCHANGED stored
<1>0. call \in [Callers -> Call]
  BY DEF TypeOK
<1>1. ASSUME NEW q \in Requests[c], NEW pc, Accept(c, q, pc)
      PROVE  /\ \A d \in Callers \ {c} : call'[d] = call[d]
             /\ call'[c].pc = pc /\ call'[c].q = q /\ call'[c].run = execution[q.exec]
  BY <1>0, <1>1, IdleInCall DEF Accept, Call
<1>2. ASSUME NEW q \in Requests[c], StartExecution(c, q)
      PROVE  /\ \A d \in Callers \ {c} : call'[d] = call[d]
             /\ call'[c].pc \in Begun /\ call'[c].q = q
  <2>1. PICK pc \in Begun : call' = [call EXCEPT ![c] = [Idle EXCEPT !.pc = pc, !.q = q]]
    BY <1>2 DEF StartExecution, Begun
  <2> QED BY <1>0, <2>1, IdleInCall DEF Call
<1> QED BY <1>1, <1>2 DEF Enter, StartObserve, StartComplete, requireRunning

LEMMA Turn ==
  ASSUME [Next]_vars
  PROVE  UNCHANGED vars \/ \E c \in Callers : Enter(c) \/ Proceed(c) \/ Abort(c)
BY DEF Next

LEMMA RequestsStep == ASSUME TypeOK, CallsInv, [Next]_vars PROVE AsksAreRequests'
<1>1. CASE UNCHANGED vars
  BY <1>1 DEF vars, CallsInv, AsksAreRequests
<1>2. ASSUME NEW c \in Callers, Enter(c) PROVE AsksAreRequests'
  BY <1>2, Enters DEF CallsInv, AsksAreRequests
<1>3. ASSUME NEW c \in Callers, Proceed(c) \/ Abort(c) PROVE AsksAreRequests'
  BY <1>3, Moves DEF CallsInv, AsksAreRequests, Begun, Using
<1> QED BY <1>1, <1>2, <1>3, Turn

LEMMA UsesStep == ASSUME TypeOK, CallsInv, [Next]_vars PROVE UsesAreKnown'
<1>0. known \subseteq known'
  BY StoreFollows DEF StoreEvolves
<1>1. CASE UNCHANGED vars
  BY <1>1 DEF vars, CallsInv, UsesAreKnown
<1>2. ASSUME NEW c \in Callers, Enter(c) PROVE UsesAreKnown'
  BY <1>0, <1>2, Enters DEF CallsInv, UsesAreKnown, Begun, Using
<1>3. ASSUME NEW c \in Callers, Proceed(c) \/ Abort(c) PROVE UsesAreKnown'
  BY <1>0, <1>3, Moves DEF CallsInv, UsesAreKnown, Using, Edges
<1> QED BY <1>1, <1>2, <1>3, Turn

LEMMA StartsStep == ASSUME TypeOK, CallsInv, [Next]_vars PROVE StartsArePrivate'
<1>0. \A e \in Execs : execution[e] # None => execution'[e] # None
  BY StoreFollows DEF StoreEvolves
<1>a. \A c \in Callers : call[c].pc \in Begun => call[c].q.exec \in Execs
  BY HeldTyped DEF HoldsWhatItNeeds, Begun, StartRequest
<1>1. CASE UNCHANGED vars
  BY <1>1 DEF vars, CallsInv, StartsArePrivate
<1>2. ASSUME NEW c \in Callers, NEW q \in Requests[c], StartExecution(c, q),
             \A d \in Callers \ {c} : call'[d] = call[d], call'[c].q = q
      PROVE  StartsArePrivate'
  <2>1. q.exec \in Execs /\ execution[q.exec] = None /\ known' = known
    BY <1>2, RequestKinds DEF StartExecution
  <2>2. execution'[q.exec] # None
    <3> DEFINE new == [agent |-> q.context.agent, env |-> q.context.env, policy |-> Fallback,
                       status |-> "RUNNING"]
    <3>1. q.context \in [agent : Agents, env : Envs \cup {NoEnv}]
      BY <1>2, RequestKinds DEF StartExecution, StartRequest
    <3>2. new \in Execution
      BY <3>1, PolicyAssumption DEF Execution, Status
    <3>3. execution' = [execution EXCEPT ![q.exec] = new]
      BY <1>2 DEF StartExecution
    <3> HIDE DEF new
    <3> QED BY <2>1, <3>2, <3>3, PolicyAssumption DEF TypeOK, StoreTypeOK
  <2>3. q.exec \notin known
    BY <2>1 DEF TypeOK, StoreTypeOK
  <2>4. \A d \in Callers : call[d].pc \in Begun => call[d].q.exec # q.exec
    BY <2>1 DEF CallsInv, StartsArePrivate
  <2> QED BY <1>0, <1>a, <1>2, <2>1, <2>2, <2>3, <2>4 DEF CallsInv, StartsArePrivate
<1>3. ASSUME NEW c \in Callers, Enter(c) PROVE StartsArePrivate'
  <2>1. PICK q \in Requests[c] :
          /\ \A d \in Callers \ {c} : call'[d] = call[d]
          /\ call'[c].q = q
          /\ \/ StartExecution(c, q)
             \/ call'[c].pc \in {"count", "outcome"} /\ UNCHANGED stored
    BY <1>3, Enters
  <2>2. CASE call'[c].pc \in {"count", "outcome"} /\ UNCHANGED stored
    BY <2>1, <2>2 DEF stored, CallsInv, StartsArePrivate, Begun
  <2> QED BY <1>2, <2>1, <2>2
<1>4. ASSUME NEW c \in Callers, Proceed(c) \/ Abort(c) PROVE StartsArePrivate'
  <2>1. /\ \A d \in Callers \ {c} : call'[d] = call[d]
        /\ call'[c].pc \in Begun => call[c].pc = "freeze" /\ call'[c].q = call[c].q
    BY <1>4, Moves DEF Edges, Begun
  <2>2. CASE ReturnExecution(c)
    <3>1. call[c].pc \in Begun /\ call'[c].pc \notin Begun
      BY <2>1, <2>2 DEF ReturnExecution, Begun
    <3>2. known' = known \cup {call[c].q.exec}
      BY <2>2 DEF ReturnExecution
    <3> QED BY <1>0, <1>a, <2>1, <3>1, <3>2 DEF CallsInv, StartsArePrivate
  <2>3. CASE ~ReturnExecution(c)
    <3>1. known' = known
      BY <1>4, <2>3
         DEF Proceed, Abort, stored, SetExecutionMemoryPolicy, CountEvents, GetEvent, PutEvent,
             GetOutcome, PutOutcome, PutStatus, JudgeSignal, CheckSource, PersistMemory,
             RecordAdmission, RecordRefusal, ReturnCompletion
    <3> QED BY <1>0, <1>a, <2>1, <3>1 DEF CallsInv, StartsArePrivate, Begun
  <2> QED BY <2>2, <2>3
<1> QED BY <1>1, <1>3, <1>4, Turn

LEMMA SignalsStep == ASSUME TypeOK, CallsInv, [Next]_vars PROVE SignalsAreAsked'
<1> DEFINE Asked(k) == \A i \in DOMAIN k.signals :
                         \E n \in DOMAIN k.q.signals : k.signals[i] = k.q.signals[n]
<1>0. call \in [Callers -> Call]
  BY DEF TypeOK
<1>1. CASE UNCHANGED vars
  BY <1>1 DEF vars, CallsInv, SignalsAreAsked
<1>2. ASSUME NEW c \in Callers, Enter(c) PROVE SignalsAreAsked'
  BY <1>2, Enters DEF CallsInv, SignalsAreAsked, Begun
<1>3. ASSUME NEW c \in Callers, Proceed(c) \/ Abort(c),
             call'[c].pc \in {"signals", "sources", "admitted"} => Asked(call'[c])
      PROVE  SignalsAreAsked'
  <2>1. \A d \in Callers \ {c} : call'[d] = call[d]
    BY <1>3, Moves
  <2>2. \A d \in Callers : call[d].pc \in {"signals", "sources", "admitted"} => Asked(call[d])
    BY DEF CallsInv, SignalsAreAsked
  <2>3. \A d \in Callers : call'[d].pc \in {"signals", "sources", "admitted"} => Asked(call'[d])
    <3> HIDE DEF Asked
    <3> QED BY <1>3, <2>1, <2>2
  <2> QED BY <2>3 DEF SignalsAreAsked
<1>4. ASSUME NEW c \in Callers, PutStatus(c) PROVE Asked(call'[c])
  BY <1>0, <1>4 DEF PutStatus, Call
<1>5. ASSUME NEW c \in Callers, RecordAdmission(c) \/ RecordRefusal(c) PROVE Asked(call'[c])
  <2>1. /\ call[c].pc \in {"sources", "admitted"} /\ call[c].signals # << >>
        /\ call[c].signals \in Seq(Signal)
    BY <1>5, HeldTyped DEF RecordAdmission, RecordRefusal, HoldsWhatItNeeds, Call
  <2>2. /\ call'[c].signals = Tail(call[c].signals) /\ call'[c].q = call[c].q
    BY <1>0, <1>5 DEF RecordAdmission, RecordRefusal, Call
  <2> DEFINE s == call[c].signals
  <2>3. \A i \in DOMAIN Tail(s) : i + 1 \in DOMAIN s /\ Tail(s)[i] = s[i + 1]
    BY <2>1
  <2>4. Asked(call[c])
    BY <2>1 DEF CallsInv, SignalsAreAsked
  <2> QED BY <2>2, <2>3, <2>4
<1>6. ASSUME NEW c \in Callers,
             \/ JudgeSignal(c) \/ PersistMemory(c) \/ \E s \in call[c].pending : CheckSource(c, s)
      PROVE  Asked(call'[c])
  <2>1. call[c].pc \in {"signals", "sources"}
    BY <1>6 DEF JudgeSignal, PersistMemory, CheckSource
  <2>2. call'[c].signals = call[c].signals /\ call'[c].q = call[c].q
    <3>1. CASE JudgeSignal(c)
      <4>1. PICK sources, ok : call' = [call EXCEPT ![c].pc = "sources",
                                                    ![c].pending = sources, ![c].ok = ok]
        BY <3>1 DEF JudgeSignal
      <4> QED BY <1>0, <4>1 DEF Call
    <3>2. CASE PersistMemory(c)
      BY <1>0, <3>2 DEF PersistMemory, Call
    <3>3. ASSUME NEW s \in call[c].pending, CheckSource(c, s)
          PROVE  call'[c].signals = call[c].signals /\ call'[c].q = call[c].q
      <4>1. PICK rest, ok : call' = [call EXCEPT ![c].pending = rest, ![c].ok = ok]
        BY <3>3 DEF CheckSource
      <4> QED BY <1>0, <4>1 DEF Call
    <3> QED BY <1>6, <3>1, <3>2, <3>3
  <2> QED BY <2>1, <2>2 DEF CallsInv, SignalsAreAsked
<1>7. ASSUME NEW c \in Callers, Proceed(c) \/ Abort(c),
             call'[c].pc \in {"signals", "sources", "admitted"}
      PROVE  Asked(call'[c])
  <2>1. call[c].pc \in {"status", "signals", "sources", "admitted"}
    BY <1>7, Moves DEF Edges
  <2>2. ~Abort(c) /\ ~ReturnCompletion(c)
    <3>1. Throw(c) => call'[c].pc = "failed"
      BY <1>0, IdleInCall DEF Throw, Call
    <3>2. Return(c) => call'[c].pc = "done"
      BY <1>0, IdleInCall DEF Return, Call
    <3> QED BY <1>7, <3>1, <3>2 DEF Abort, ReturnCompletion
  <2> QED BY <1>4, <1>5, <1>6, <1>7, <2>1, <2>2
          DEF Proceed, SetExecutionMemoryPolicy, ReturnExecution, CountEvents, GetEvent,
              PutEvent, GetOutcome, PutOutcome
<1> HIDE DEF Asked
<1> QED BY <1>1, <1>2, <1>3, <1>7, Turn

(***************************************************************************)
(* Event numbers                                                           *)
(***************************************************************************)
\* Every number below an event's own is taken, and none twice.
EventsDense == \A x \in event : \A n \in 0..(x.seq - 1) : \E y \in event : InSlot(y, x.exec, n)
SlotsUnique == \A x, y \in event : InSlot(y, x.exec, x.seq) => x = y

\* The number an observe has computed is the next one or one already taken,
\* however few rows it was listed and whatever has been added since.
NumbersFollow ==
  \A c \in Callers : call[c].pc \in {"slot", "put"} =>
    \A n \in 0..(call[c].seq - 1) : \E y \in event : InSlot(y, call[c].q.exec, n)

EventsInv == IsFiniteSet(event) /\ EventsDense /\ SlotsUnique /\ NumbersFollow

\* Events with distinct numbers that all lie below n are at most n, so a count
\* above n shows that an event numbered n exists.
LEMMA CountedNumbersExist ==
  ASSUME event \subseteq Event, EventsInv, NEW e, NEW listed \in SUBSET event,
         NEW n \in Nat, n < nextEventSequence(e, listed)
  PROVE  \E y \in event : InSlot(y, e, n)
<1> SUFFICES ASSUME \A y \in event : ~InSlot(y, e, n) PROVE FALSE
  OBVIOUS
<1> DEFINE L == {x \in listed : x.exec = e}
           f == [x \in L |-> x.seq]
<1>1. \A x \in L : x \in event /\ x.exec = e /\ x.seq \in Nat
  BY DEF Event
<1>2. \A x \in L : x.seq \in 0..(n - 1)
  BY <1>1 DEF EventsInv, EventsDense, InSlot
<1>3. \A x, y \in L : x.seq = y.seq => x = y
  BY <1>1 DEF EventsInv, SlotsUnique, InSlot
<1>4. f \in Injection(L, 0..(n - 1))
  BY <1>2, <1>3 DEF Injection, IsInjective
<1> HIDE DEF L, f
<1>5. IsFiniteSet(0..(n - 1)) /\ Cardinality(0..(n - 1)) = n
  BY FS_Interval
<1>6. IsFiniteSet(L) /\ Cardinality(L) <= n
  BY <1>4, <1>5, FS_Injection
<1>7. Cardinality(L) \in Nat
  BY <1>6, FS_CardinalityType
<1> QED BY <1>6, <1>7 DEF nextEventSequence, L

\* A put may replace the event that has a number, but never frees the number.
LEMMA NumbersStayTaken ==
  ASSUME TypeOK, [Next]_vars, NEW y \in event
  PROVE  \E z \in event' : InSlot(z, y.exec, y.seq)
<1>1. ASSUME NEW c \in Callers, PutEvent(c) PROVE \E z \in event' : InSlot(z, y.exec, y.seq)
  <2>1. PICK new \in Event :
          event' = {x \in event : ~InSlot(x, new.exec, new.seq)} \cup {new}
    BY <1>1, EventPut
  <2>2. CASE InSlot(y, new.exec, new.seq)
    BY <2>1, <2>2 DEF InSlot
  <2>3. CASE ~InSlot(y, new.exec, new.seq)
    BY <2>1, <2>3 DEF InSlot
  <2> QED BY <2>2, <2>3
<1> QED BY <1>1, EventWrites DEF InSlot

LEMMA SlotStaysTaken ==
  ASSUME TypeOK, [Next]_vars, NEW e, NEW n, \E y \in event : InSlot(y, e, n)
  PROVE  \E z \in event' : InSlot(z, e, n)
BY NumbersStayTaken DEF InSlot

LEMMA EventsStep ==
  ASSUME TypeOK, EventsInv, [Next]_vars PROVE EventsDense' /\ SlotsUnique'
<1>1. CASE UNCHANGED event
  BY <1>1 DEF EventsInv, EventsDense, SlotsUnique
<1>2. ASSUME NEW c \in Callers, PutEvent(c) PROVE EventsDense' /\ SlotsUnique'
  <2>1. PICK new \in Event :
          /\ new.exec = call[c].q.exec /\ new.seq = call[c].seq
          /\ event' = {x \in event : ~InSlot(x, new.exec, new.seq)} \cup {new}
    BY <1>2, EventPut
  <2>2. \A x \in event' : x \in event \/ x = new
    BY <2>1
  <2>3. \A n \in 0..(new.seq - 1) : \E y \in event : InSlot(y, new.exec, n)
    BY <1>2, <2>1 DEF PutEvent, EventsInv, NumbersFollow
  <2>4. EventsDense'
    BY <2>2, <2>3, SlotStaysTaken DEF EventsInv, EventsDense
  <2>5. SlotsUnique'
    BY <2>1 DEF EventsInv, SlotsUnique, InSlot
  <2> QED BY <2>4, <2>5
<1> QED BY <1>1, <1>2, EventWrites

LEMMA NumbersStep == ASSUME TypeOK, EventsInv, [Next]_vars PROVE NumbersFollow'
<1>0. call \in [Callers -> Call]
  BY DEF TypeOK
<1>1. CASE UNCHANGED vars
  BY <1>1 DEF vars, EventsInv, NumbersFollow
<1>2. ASSUME NEW c \in Callers, Enter(c) PROVE NumbersFollow'
  <2>1. /\ \A d \in Callers \ {c} : call'[d] = call[d]
        /\ call'[c].pc \notin {"slot", "put"}
    BY <1>2, Enters DEF Begun
  <2> QED BY <2>1, SlotStaysTaken DEF EventsInv, NumbersFollow
<1>3. ASSUME NEW c \in Callers, Proceed(c) \/ Abort(c) PROVE NumbersFollow'
  <2>1. /\ \A d \in Callers \ {c} : call'[d] = call[d]
        /\ call'[c].pc \in {"slot", "put"} =>
             call[c].pc \in {"count", "slot"} /\ call'[c].q = call[c].q
    BY <1>3, Moves DEF Edges
  <2>2. CASE CountEvents(c)
    <3>1. PICK listed \in SUBSET event :
            call' = [call EXCEPT ![c].pc = "slot",
                                 ![c].seq = nextEventSequence(call[c].q.exec, listed)]
      BY <2>2 DEF CountEvents
    <3>2. call'[c].seq = nextEventSequence(call[c].q.exec, listed) /\ call'[c].q = call[c].q
      BY <1>0, <3>1 DEF Call
    <3>3. event' = event
      BY <2>2 DEF CountEvents, stored
    <3>4. \A n \in 0..(call'[c].seq - 1) : \E y \in event : InSlot(y, call[c].q.exec, n)
      <4> SUFFICES ASSUME NEW n \in 0..(call'[c].seq - 1)
                   PROVE  \E y \in event : InSlot(y, call[c].q.exec, n)
        OBVIOUS
      <4>1. call'[c].seq \in Nat
        BY TypeCall DEF EventsInv, CallTyped, Call
      <4> QED BY <3>2, <4>1, CountedNumbersExist DEF TypeOK
    <3> QED BY <2>1, <3>2, <3>3, <3>4 DEF EventsInv, NumbersFollow
  <2>3. CASE GetEvent(c) /\ call'[c].pc \in {"slot", "put"}
    <3>1. Goto(c, "put")
      <4>1. Return(c) => call'[c].pc = "done"
        BY <1>0, IdleInCall DEF Return, Call
      <4>2. Throw(c) => call'[c].pc = "failed"
        BY <1>0, IdleInCall DEF Throw, Call
      <4> QED BY <2>3, <4>1, <4>2 DEF GetEvent
    <3>2. call'[c].seq = call[c].seq /\ call'[c].q = call[c].q /\ call[c].pc = "slot"
      BY <1>0, <2>3, <3>1 DEF Goto, GetEvent, Call
    <3> QED BY <2>1, <3>2, SlotStaysTaken DEF EventsInv, NumbersFollow
  <2>4. CASE call'[c].pc \notin {"slot", "put"}
    BY <2>1, <2>4, SlotStaysTaken DEF EventsInv, NumbersFollow
  <2>5. call'[c].pc \in {"slot", "put"} => CountEvents(c) \/ GetEvent(c)
    <3>1. Throw(c) => call'[c].pc = "failed"
      BY <1>0, IdleInCall DEF Throw, Call
    <3> QED BY <1>3, <2>1, <3>1
            DEF Proceed, Abort, SetExecutionMemoryPolicy, ReturnExecution, PutEvent, GetOutcome,
                PutOutcome, PutStatus, JudgeSignal, CheckSource, PersistMemory, RecordAdmission,
                RecordRefusal, ReturnCompletion
  <2> QED BY <2>2, <2>3, <2>4, <2>5
<1> QED BY <1>1, <1>2, <1>3, Turn

(***************************************************************************)
(* The theorems that hold however invocations overlap                      *)
(***************************************************************************)
\* The inductive invariant.
IInv == TypeOK /\ CallsInv /\ EventsInv

LEMMA InitIInv == Init => IInv
<1> SUFFICES ASSUME Init PROVE IInv
  OBVIOUS
<1>1. \A c \in Callers : call[c].pc = "idle"
  BY DEF Init, Idle
<1>2. event = {}
  BY DEF Init
<1> QED BY <1>1, <1>2, TypeInit, FS_EmptySet
        DEF IInv, CallsInv, StartsArePrivate, UsesAreKnown, AsksAreRequests, SignalsAreAsked,
            EventsInv, EventsDense, SlotsUnique, NumbersFollow, Begun, Using

\* IInv is inductive: it holds at first, and every step keeps it.
THEOREM Inductive == Spec => []IInv
<1>1. IInv /\ [Next]_vars => IInv'
  <2> SUFFICES ASSUME IInv, [Next]_vars PROVE IInv'
    OBVIOUS
  <2>1. TypeOK' /\ IsFiniteSet(event')
    BY TypeNext DEF IInv, EventsInv
  <2> QED BY <2>1, RequestsStep, UsesStep, StartsStep, SignalsStep, EventsStep, NumbersStep
          DEF IInv, CallsInv, EventsInv
<1> QED BY <1>1, InitIInv, PTL DEF Spec

\* However many invocations overlap and wherever they are cut short, the stores and
\* the locals of startExecution, observe and complete hold what the schemas declare.
THEOREM TypeCorrect == Spec => []TypeOK
<1>1. IInv => TypeOK
  BY DEF IInv
<1> QED BY <1>1, Inductive, PTL

\* startExecution, observe and complete change executions and memories only as
\* RuntimeStore allows: a policy version is set before its execution's id is
\* returned and never after, and each admitted memory is one a signal asked for.
THEOREM LifecycleImplementsStore == Spec => ImplementsStore
<1>1. IInv /\ [Next]_vars => [StoreNext]_records
  BY StoreSteps DEF IInv
<1> QED BY <1>1, Inductive, PTL DEF Spec, ImplementsStore

\* An execution's events are numbered without gaps and no number is taken twice,
\* whatever prefix of the rows each observe was listed and however observes race.
THEOREM EventsStayContiguous == Spec => []EventsContiguous
<1>1. IInv => EventsContiguous
  <2> SUFFICES ASSUME IInv PROVE EventsContiguous
    OBVIOUS
  <2>1. \A x \in event : x.seq \in Nat /\ (x.seq > 0 => x.seq - 1 \in 0..(x.seq - 1))
    BY DEF IInv, TypeOK, Event
  <2> QED BY <2>1 DEF IInv, EventsInv, EventsDense, SlotsUnique, EventsContiguous
<1> QED BY <1>1, Inductive, PTL

(***************************************************************************)
(* Admission, when the outcomes of one execution are not raced for         *)
(***************************************************************************)
\* Two completions of one execution have both found it without an outcome, and neither
\* has put its own yet (runtime-store.ts:171-180).  An execution may be completed any
\* number of times before, during and after: only this window is left out below, and
\* from it an outcome can be replaced after a memory was admitted on its strength.
OutcomeRace ==
  \E c, d \in Callers : /\ c # d /\ call[c].pc = "store" /\ call[d].pc = "store"
                        /\ call[c].q.exec = call[d].q.exec

Completing == {"outcome", "store", "status", "signals", "sources", "admitted"}
Recorded == {"status", "signals", "sources", "admitted"}

\* What complete read at entry is still so: agent and policy of a known execution
\* do not change.
RunsAreCurrent ==
  \A c \in Callers : call[c].pc \in Completing =>
    /\ call[c].run.agent = execution[call[c].q.exec].agent
    /\ call[c].run.policy = execution[call[c].q.exec].policy

\* From the moment it found no outcome until it writes one, there is none; from
\* then on the outcome on record is its own.
OutcomesAreOwn ==
  \A c \in Callers :
    /\ call[c].pc = "store" => outcome[call[c].q.exec] = None
    /\ call[c].pc \in Recorded =>
         /\ outcome[call[c].q.exec] # None
         /\ outcome[call[c].q.exec].status = call[c].q.status
         /\ outcome[call[c].q.exec].evidence = call[c].q.evidence

LEMMA Completer ==
  ASSUME IInv, NEW c \in Callers, call[c].pc \in Completing
  PROVE  /\ call[c].q \in CompleteRequest /\ call[c].q \in Requests[c]
         /\ call[c].q.op = "complete" /\ call[c].q.exec \in Execs
         /\ call[c].q.exec \in known /\ call[c].run \in Execution
         /\ call[c].signals \in Seq(Signal)
<1>1. call[c].q \in CompleteRequest /\ call[c].run \in Execution /\ call[c].signals \in Seq(Signal)
  BY HeldTyped DEF IInv, Completing, HoldsWhatItNeeds, Call
<1>2. call[c].q \in Requests[c] /\ call[c].q.exec \in known
  BY DEF IInv, CallsInv, AsksAreRequests, UsesAreKnown, Using, Completing
<1> QED BY <1>1, <1>2 DEF CompleteRequest

LEMMA OutcomeWrites ==
  ASSUME [Next]_vars
  PROVE  UNCHANGED outcome \/ \E c \in Callers : PutOutcome(c)
BY DEF Next, vars, Enter, Proceed, Abort, stored, StartExecution, StartObserve, StartComplete,
       SetExecutionMemoryPolicy, ReturnExecution, CountEvents, GetEvent, PutEvent, GetOutcome,
       PutStatus, JudgeSignal, CheckSource, PersistMemory, RecordAdmission, RecordRefusal,
       ReturnCompletion

LEMMA OutcomePut ==
  ASSUME TypeOK, NEW c \in Callers, PutOutcome(c)
  PROVE  LET q == call[c].q
             new == [by |-> c, status |-> q.status, evidence |-> q.evidence]
         IN  /\ q.exec \in Execs /\ new \in Outcome /\ new # None
             /\ outcome' = [outcome EXCEPT ![q.exec] = new]
             /\ outcome'[q.exec] = new
<1> DEFINE q == call[c].q
           new == [by |-> c, status |-> q.status, evidence |-> q.evidence]
<1>1. q \in CompleteRequest
  BY HeldTyped DEF PutOutcome, HoldsWhatItNeeds
<1>2. new \in Outcome /\ q.exec \in Execs
  BY <1>1 DEF CompleteRequest, Outcome
<1>3. outcome' = [outcome EXCEPT ![q.exec] = new]
  BY DEF PutOutcome
<1> HIDE DEF new, q
<1>4. new # None /\ outcome'[q.exec] = new
  BY <1>2, <1>3, LifecycleAssumption DEF TypeOK
<1> QED BY <1>2, <1>3, <1>4 DEF new, q

LEMMA OutcomesLast ==
  ASSUME IInv, OutcomesAreOwn, [Next]_vars, NEW e \in Execs, outcome[e] # None
  PROVE  outcome'[e] = outcome[e]
<1>1. ASSUME NEW c \in Callers, PutOutcome(c) PROVE outcome'[e] = outcome[e]
  <2>1. outcome[call[c].q.exec] = None
    BY <1>1 DEF PutOutcome, OutcomesAreOwn
  <2> QED BY <1>1, <2>1, OutcomePut DEF IInv, TypeOK
<1> QED BY <1>1, OutcomeWrites

LEMMA RunsStep == ASSUME IInv, RunsAreCurrent, [Next]_vars PROVE RunsAreCurrent'
<1>0. \A e \in known : /\ e \in Execs /\ execution'[e].agent = execution[e].agent
                       /\ execution'[e].policy = execution[e].policy
  BY StoreFollows DEF IInv, StoreEvolves, TypeOK, StoreTypeOK
<1>1. CASE UNCHANGED vars
  BY <1>1 DEF vars, RunsAreCurrent
<1>2. ASSUME NEW c \in Callers, Enter(c) PROVE RunsAreCurrent'
  <2>1. PICK q \in Requests[c] :
          /\ \A d \in Callers \ {c} : call'[d] = call[d]
          /\ call'[c].q = q
          /\ \/ call'[c].pc \in Begun
             \/ q.exec \in known /\ call'[c].run = execution[q.exec]
    BY <1>2, Enters DEF IInv
  <2> QED BY <1>0, <2>1, Completer DEF RunsAreCurrent, Completing, Begun
<1>3. ASSUME NEW c \in Callers, Proceed(c) \/ Abort(c) PROVE RunsAreCurrent'
  <2>1. /\ \A d \in Callers \ {c} : call'[d] = call[d]
        /\ call'[c].pc \in Completing =>
             /\ call[c].pc \in Completing
             /\ call'[c].q = call[c].q /\ call'[c].run = call[c].run
    BY <1>3, Moves DEF IInv, Edges, Completing
  <2> QED BY <1>0, <2>1, Completer DEF RunsAreCurrent
<1> QED BY <1>1, <1>2, <1>3, Turn

LEMMA OwnStep ==
  ASSUME ~OutcomeRace, IInv, OutcomesAreOwn, [Next]_vars PROVE OutcomesAreOwn'
<1> DEFINE Own(c) ==
             /\ call[c].pc = "store" => outcome[call[c].q.exec] = None
             /\ call[c].pc \in Recorded =>
                  /\ outcome[call[c].q.exec] # None
                  /\ outcome[call[c].q.exec].status = call[c].q.status
                  /\ outcome[call[c].q.exec].evidence = call[c].q.evidence
<1>0. \A c \in Callers : Own(c)
  BY DEF OutcomesAreOwn
<1>1. CASE UNCHANGED vars
  BY <1>1 DEF vars, OutcomesAreOwn
<1>2. ASSUME NEW c \in Callers, PutOutcome(c) PROVE OutcomesAreOwn'
  <2>1. /\ \A d \in Callers \ {c} : call'[d] = call[d]
        /\ call[c].pc = "store" /\ call'[c].pc = "status" /\ call'[c].q = call[c].q
    BY <1>2 DEF PutOutcome, Goto, IInv, TypeOK, Call
  <2> DEFINE new == [by |-> c, status |-> call[c].q.status, evidence |-> call[c].q.evidence]
  <2>2. outcome'[call[c].q.exec] = new /\ new # None
    BY <1>2, OutcomePut DEF IInv
  <2>3. Own(c)'
    BY <2>1, <2>2
  <2>4. ASSUME NEW d \in Callers \ {c} PROVE Own(d)'
    <3>1. CASE call[d].pc \notin Recorded \cup {"store"}
      BY <2>1, <3>1
    <3>2. CASE call[d].pc \in Recorded \cup {"store"}
      <4>1. call[d].q.exec # call[c].q.exec
        <5>1. outcome[call[c].q.exec] = None
          BY <1>0, <2>1
        <5>2. call[d].pc \in Recorded => outcome[call[d].q.exec] # None
          BY <1>0
        <5> QED BY <2>1, <3>2, <5>1, <5>2 DEF OutcomeRace
      <4>2. outcome'[call[d].q.exec] = outcome[call[d].q.exec]
        BY <1>2, <3>2, <4>1, Completer DEF PutOutcome, IInv, TypeOK, Completing, Recorded
      <4> QED BY <1>0, <2>1, <4>2
    <3> QED BY <3>1, <3>2
  <2> QED BY <2>3, <2>4 DEF OutcomesAreOwn
<1>3. ASSUME NEW c \in Callers, Enter(c), UNCHANGED outcome PROVE OutcomesAreOwn'
  <2>1. /\ \A d \in Callers \ {c} : call'[d] = call[d]
        /\ call'[c].pc \notin Recorded \cup {"store"}
    BY <1>3, Enters DEF IInv, Begun, Recorded
  <2> QED BY <1>0, <1>3, <2>1 DEF OutcomesAreOwn
<1>4. ASSUME NEW c \in Callers, Proceed(c) \/ Abort(c), UNCHANGED outcome, ~PutOutcome(c)
      PROVE  OutcomesAreOwn'
  <2>1. /\ \A d \in Callers \ {c} : call'[d] = call[d]
        /\ call'[c].pc = "store" => call[c].pc = "outcome" /\ call'[c].q = call[c].q
        /\ call'[c].pc \in Recorded =>
             call[c].pc \in Recorded \cup {"store"} /\ call'[c].q = call[c].q
    BY <1>4, Moves DEF IInv, Edges, Recorded
  <2>2. Throw(c) => call'[c].pc = "failed"
    BY IdleInCall DEF Throw, Call, IInv, TypeOK
  <2>3. call'[c].pc = "store" => outcome[call[c].q.exec] = None
    <3>1. call[c].pc = "outcome" /\ call'[c].pc = "store" => GetOutcome(c)
      BY <1>4, <2>2
         DEF Proceed, Abort, SetExecutionMemoryPolicy, ReturnExecution, CountEvents, GetEvent,
             PutEvent, PutStatus, JudgeSignal, CheckSource, PersistMemory, RecordAdmission,
             RecordRefusal, ReturnCompletion
    <3> QED BY <2>1, <2>2, <3>1 DEF GetOutcome
  <2>4. call[c].pc = "store" => call'[c].pc \notin Recorded
    <3>1. call[c].pc = "store" => Abort(c)
      BY <1>4
         DEF Proceed, SetExecutionMemoryPolicy, ReturnExecution, CountEvents, GetEvent,
             PutEvent, GetOutcome, PutStatus, JudgeSignal, CheckSource, PersistMemory,
             RecordAdmission, RecordRefusal, ReturnCompletion
    <3> QED BY <2>2, <3>1 DEF Abort, Recorded
  <2> QED BY <1>0, <1>4, <2>1, <2>3, <2>4 DEF OutcomesAreOwn
<1>5. UNCHANGED outcome \/ \E c \in Callers : PutOutcome(c)
  BY OutcomeWrites
<1> HIDE DEF Own
<1> QED BY <1>1, <1>2, <1>3, <1>4, <1>5, Turn

\* What happens to one execution's status.
LEMMA StatusStep ==
  ASSUME IInv, [Next]_vars, NEW e \in Execs, execution'[e] # None, execution'[e].status \in Terminal
  PROVE  \/ execution[e] # None /\ execution[e].status = execution'[e].status
         \/ \E c \in Callers : /\ PutStatus(c) /\ call[c].q.exec = e
                              /\ execution'[e].status = call[c].q.status
<1>0. execution \in [Execs -> Execution \cup {None}]
  BY DEF IInv, TypeOK, StoreTypeOK
<1>1. ASSUME NEW c \in Callers, PutStatus(c)
      PROVE  \/ execution[e] # None /\ execution[e].status = execution'[e].status
             \/ call[c].q.exec = e /\ execution'[e].status = call[c].q.status
  <2> DEFINE f == call[c].q.exec
  <2>1. f \in known
    BY <1>1, Completer DEF PutStatus, Completing
  <2>2. f \in Execs /\ execution[f] \in Execution
    BY <2>1 DEF IInv, TypeOK, StoreTypeOK
  <2>3. CASE f = e
    BY <1>0, <1>1, <2>2, <2>3 DEF PutStatus, Execution
  <2>4. CASE f # e
    BY <1>0, <1>1, <2>2, <2>4 DEF PutStatus
  <2> QED BY <2>3, <2>4
<1>2. ASSUME NEW c \in Callers, NEW q \in Requests[c], StartExecution(c, q)
      PROVE  execution[e] # None /\ execution[e].status = execution'[e].status
  <2> DEFINE new == [agent |-> q.context.agent, env |-> q.context.env, policy |-> Fallback,
                     status |-> "RUNNING"]
  <2>1. new.status \notin Terminal
    BY DEF Terminal
  <2>2. execution' = [execution EXCEPT ![q.exec] = new]
    BY <1>2 DEF StartExecution
  <2>3. q.exec # e
    <3> HIDE DEF new
    <3> QED BY <1>0, <2>1, <2>2
  <2> HIDE DEF new
  <2> QED BY <1>0, <2>2, <2>3
<1>3. ASSUME NEW c \in Callers, SetExecutionMemoryPolicy(c)
      PROVE  execution[e] # None /\ execution[e].status = execution'[e].status
  <2> DEFINE f == call[c].q.exec
  <2>1. f \in Execs /\ execution[f] # None
    BY <1>3, HeldTyped
       DEF SetExecutionMemoryPolicy, HoldsWhatItNeeds, StartRequest, Begun, IInv, CallsInv,
           StartsArePrivate
  <2>2. execution[f] \in Execution
    BY <1>0, <2>1
  <2>3. ASSUME NEW p, execution' = [execution EXCEPT ![f].policy = p]
        PROVE  execution[e] # None /\ execution[e].status = execution'[e].status
    <3>1. CASE f = e
      BY <1>0, <2>1, <2>2, <2>3, <3>1 DEF Execution
    <3>2. CASE f # e
      BY <1>0, <2>1, <2>3, <3>2
    <3> QED BY <3>1, <3>2
  <2> QED BY <1>3, <2>3 DEF SetExecutionMemoryPolicy
<1>4. \/ UNCHANGED execution
      \/ \E c \in Callers : \/ \E q \in Requests[c] : StartExecution(c, q)
                           \/ SetExecutionMemoryPolicy(c) \/ PutStatus(c)
  BY DEF Next, vars, Enter, Proceed, Abort, stored, StartObserve, StartComplete,
         ReturnExecution, CountEvents, GetEvent, PutEvent, GetOutcome, PutOutcome, JudgeSignal,
         CheckSource, PersistMemory, RecordAdmission, RecordRefusal, ReturnCompletion
<1> QED BY <1>1, <1>2, <1>3, <1>4

LEMMA FinishedStep ==
  ASSUME IInv, OutcomesAreOwn, FinishedAsRecorded, [Next]_vars PROVE FinishedAsRecorded'
<1> SUFFICES ASSUME NEW e \in Execs, execution'[e] # None, execution'[e].status \in Terminal
             PROVE  outcome'[e] # None /\ outcome'[e].status = execution'[e].status
  BY DEF FinishedAsRecorded
<1>1. CASE execution[e] # None /\ execution[e].status = execution'[e].status
  BY <1>1, OutcomesLast DEF FinishedAsRecorded
<1>2. ASSUME NEW c \in Callers, PutStatus(c), call[c].q.exec = e,
             execution'[e].status = call[c].q.status
      PROVE  outcome'[e] # None /\ outcome'[e].status = execution'[e].status
  BY <1>2, OutcomesLast DEF OutcomesAreOwn, Recorded, PutStatus
<1> QED BY <1>1, <1>2, StatusStep

\* While complete goes through a signal's sources, it holds nothing against it
\* only if the policy allows it and every source already read supports it.
Judged(k) ==
  LET signal == Head(k.signals)
      sources == SourcesOf(signal, k.q.exec)
  IN  k.pc = "sources" /\ k.ok =>
        /\ evaluateAdmissionSignal(signal, k.run, k.q.evidence)
        /\ k.q.exec \in sources
        /\ \A s \in sources \ k.pending :
             SourceSupports(s, k.q.exec, k.run, signal.evidence)

VerdictsAreGrounded == \A c \in Callers : Judged(call[c])

\* AdmissionAuthority of one memory, whose admitting execution is moreover known.
Authorised(mem) ==
  /\ mem.rev.origin \in known
  /\ mem.rev.kind \in Bundle[execution[mem.rev.origin].policy].admitOn
  /\ mem.evidence >= Bundle[execution[mem.rev.origin].policy].minimumEvidence
  /\ mem.rev.origin \in mem.sources
  /\ mem.sources \subseteq Execs
  /\ \A s \in mem.sources :
       /\ execution[s] # None /\ execution[s].agent = mem.agent
       /\ outcome[s] # None /\ mem.evidence <= outcome[s].evidence

MemoriesAreAuthorised == \A m \in Memories : memory[m] # None => Authorised(memory[m])

\* Once a locals record is judged, the store's evolution leaves it so.
LEMMA VerdictLasts ==
  ASSUME IInv, OutcomesAreOwn, [Next]_vars, NEW c \in Callers, Judged(call[c]),
         call'[c] = call[c]
  PROVE  Judged(call[c])'
<1> DEFINE k == call[c]
           signal == Head(k.signals)
           sources == SourcesOf(signal, k.q.exec)
<1>1. CASE k.pc = "sources" /\ k.ok
  <2>1. sources \subseteq Execs
    <3>1. signal \in Signal /\ k.q.exec \in Execs
      BY <1>1, HeldTyped DEF IInv, HoldsWhatItNeeds, CompleteRequest, Call
    <3> QED BY <3>1 DEF SourcesOf, Signal
  <2>2. /\ evaluateAdmissionSignal(signal, k.run, k.q.evidence) /\ k.q.exec \in sources
        /\ \A s \in sources \ k.pending :
             SourceSupports(s, k.q.exec, k.run, signal.evidence)
    BY <1>1 DEF Judged
  <2>3. \A s \in sources \ k.pending :
          SourceSupports(s, k.q.exec, k.run, signal.evidence)'
    <3> SUFFICES ASSUME NEW s \in sources \ k.pending
                 PROVE  SourceSupports(s, k.q.exec, k.run, signal.evidence)'
      OBVIOUS
    <3>1. s \in Execs /\ SourceSupports(s, k.q.exec, k.run, signal.evidence)
      BY <2>1, <2>2
    <3>2. execution'[s] # None /\ execution'[s].agent = execution[s].agent
      BY <3>1, StoreFollows DEF IInv, StoreEvolves, SourceSupports
    <3> QED BY <3>1, <3>2, OutcomesLast DEF SourceSupports
  <2> QED BY <2>2, <2>3 DEF Judged
<1>2. CASE ~(k.pc = "sources" /\ k.ok)
  BY <1>2 DEF Judged
<1> QED BY <1>1, <1>2

LEMMA VerdictsStep ==
  ASSUME IInv, OutcomesAreOwn, VerdictsAreGrounded, [Next]_vars
  PROVE  VerdictsAreGrounded'
<1>0. call \in [Callers -> Call]
  BY DEF IInv, TypeOK
<1>1. CASE UNCHANGED vars
  BY <1>1, VerdictLasts DEF vars, VerdictsAreGrounded
<1>2. ASSUME NEW c \in Callers, \A d \in Callers \ {c} : call'[d] = call[d], Judged(call[c])'
      PROVE  VerdictsAreGrounded'
  BY <1>2, VerdictLasts DEF VerdictsAreGrounded
<1>3. ASSUME NEW c \in Callers, JudgeSignal(c) PROVE Judged(call[c])'
  <2> DEFINE k == call[c]
             signal == Head(k.signals)
             sources == SourcesOf(signal, k.q.exec)
             ok == /\ evaluateAdmissionSignal(signal, k.run, k.q.evidence)
                   /\ k.q.exec \in sources
  <2>1. call' = [call EXCEPT ![c].pc = "sources", ![c].pending = sources, ![c].ok = ok]
    BY <1>3 DEF JudgeSignal
  <2> HIDE DEF ok, sources
  <2>2. /\ call'[c].pending = sources /\ call'[c].ok = ok /\ call'[c].q = k.q
        /\ call'[c].run = k.run /\ call'[c].signals = k.signals
    BY <1>0, <2>1 DEF Call
  <2> QED BY <2>2 DEF Judged, ok, sources
<1>4. ASSUME NEW c \in Callers, NEW s \in call[c].pending, CheckSource(c, s)
      PROVE  Judged(call[c])'
  <2> DEFINE k == call[c]
             signal == Head(k.signals)
             sources == SourcesOf(signal, k.q.exec)
             ok == k.ok /\ SourceSupports(s, k.q.exec, k.run, signal.evidence)
  <2>1. call' = [call EXCEPT ![c].pending = k.pending \ {s}, ![c].ok = ok]
    BY <1>4 DEF CheckSource
  <2> HIDE DEF ok
  <2>2. /\ call'[c].pending = k.pending \ {s} /\ call'[c].ok = ok /\ call'[c].q = k.q
        /\ call'[c].run = k.run /\ call'[c].signals = k.signals
    BY <1>0, <2>1 DEF Call
  <2>3. k.pc = "sources" /\ Judged(k) /\ execution' = execution /\ outcome' = outcome
    BY <1>4 DEF CheckSource, VerdictsAreGrounded, stored
  <2>4. CASE ok
    <3>1. k.ok /\ SourceSupports(s, k.q.exec, k.run, signal.evidence)
      BY <2>4 DEF ok
    <3>2. /\ evaluateAdmissionSignal(signal, k.run, k.q.evidence) /\ k.q.exec \in sources
          /\ \A t \in sources \ (k.pending \ {s}) :
               SourceSupports(t, k.q.exec, k.run, signal.evidence)
      BY <2>3, <3>1 DEF Judged
    <3> QED BY <2>2, <2>3, <3>2 DEF Judged, SourceSupports
  <2>5. CASE ~ok
    BY <2>2, <2>5 DEF Judged
  <2> QED BY <2>4, <2>5
<1>5. ASSUME NEW c \in Callers, Enter(c) PROVE VerdictsAreGrounded'
  <2>1. (\A d \in Callers \ {c} : call'[d] = call[d]) /\ call'[c].pc # "sources"
    BY <1>5, Enters DEF IInv, Begun
  <2> QED BY <1>2, <2>1 DEF Judged
<1>6. ASSUME NEW c \in Callers, Proceed(c) \/ Abort(c) PROVE VerdictsAreGrounded'
  <2>1. \A d \in Callers \ {c} : call'[d] = call[d]
    BY <1>6, Moves DEF IInv
  <2>2. CASE call'[c].pc # "sources"
    BY <1>2, <2>1, <2>2 DEF Judged
  <2>3. CASE call'[c].pc = "sources"
    <3>1. call[c].pc \in {"signals", "sources"}
      BY <1>6, <2>3, Moves DEF IInv, Edges
    <3>2. Throw(c) => call'[c].pc = "failed"
      BY <1>0, IdleInCall DEF Throw, Call
    <3>3. Return(c) => call'[c].pc = "done"
      BY <1>0, IdleInCall DEF Return, Call
    <3>4. PersistMemory(c) => call'[c].pc = "admitted"
      BY <1>0 DEF PersistMemory, Call
    <3>5. RecordRefusal(c) => call'[c].pc = "signals"
      BY <1>0 DEF RecordRefusal, Call
    <3>6. JudgeSignal(c) \/ \E s \in call[c].pending : CheckSource(c, s)
      BY <1>6, <2>3, <3>1, <3>2, <3>3, <3>4, <3>5
         DEF Proceed, Abort, SetExecutionMemoryPolicy, ReturnExecution, CountEvents, GetEvent,
             PutEvent, GetOutcome, PutOutcome, PutStatus, RecordAdmission, ReturnCompletion
    <3> QED BY <1>2, <1>3, <1>4, <2>1, <3>6
  <2> QED BY <2>2, <2>3
<1> QED BY <1>1, <1>5, <1>6, Turn

\* The memory complete puts is authorised, by what it has judged.
LEMMA PersistedIsAuthorised ==
  ASSUME IInv, RunsAreCurrent, OutcomesAreOwn, VerdictsAreGrounded,
         NEW c \in Callers, PersistMemory(c)
  PROVE  LET q == call[c].q
             signal == Head(call[c].signals)
         IN  Authorised(AdmittedMemory(q.exec, call[c].run, signal, SourcesOf(signal, q.exec)))
<1> DEFINE k == call[c]
           e == k.q.exec
           signal == Head(k.signals)
           sources == SourcesOf(signal, e)
           mem == AdmittedMemory(e, k.run, signal, sources)
<1>1. /\ e \in known /\ e \in Execs /\ k.q \in CompleteRequest /\ k.signals \in Seq(Signal)
      /\ k.signals # << >> /\ k.pending = {} /\ k.pc = "sources" /\ k.ok
  BY Completer, HeldTyped DEF PersistMemory, Completing, HoldsWhatItNeeds, IInv
<1>2. signal \in Signal
  BY <1>1
<1>3. sources \subseteq Execs
  BY <1>1, <1>2 DEF SourcesOf, Signal
<1>4. /\ k.run.agent = execution[e].agent /\ k.run.policy = execution[e].policy
      /\ outcome[e] # None /\ outcome[e].evidence = k.q.evidence
  BY <1>1 DEF RunsAreCurrent, OutcomesAreOwn, Completing, Recorded
<1>5. /\ evaluateAdmissionSignal(signal, k.run, k.q.evidence) /\ e \in sources
      /\ \A s \in sources : SourceSupports(s, e, k.run, signal.evidence)
  BY <1>1 DEF VerdictsAreGrounded, Judged
<1>6. /\ mem.agent = k.run.agent /\ mem.evidence = signal.evidence /\ mem.sources = sources
      /\ mem.rev.origin = e /\ mem.rev.kind = signal.kind
  BY DEF AdmittedMemory
<1>7. /\ signal.kind \in Bundle[k.run.policy].admitOn
      /\ signal.evidence >= Bundle[k.run.policy].minimumEvidence
      /\ signal.evidence <= k.q.evidence
  BY <1>5 DEF evaluateAdmissionSignal
<1>8. \A s \in sources : /\ execution[s] # None /\ execution[s].agent = k.run.agent
                         /\ outcome[s] # None /\ signal.evidence <= outcome[s].evidence
  BY <1>4, <1>5, <1>7 DEF SourceSupports
<1> HIDE DEF mem, sources, signal, e
<1>9. Authorised(mem)
  BY <1>1, <1>3, <1>4, <1>5, <1>6, <1>7, <1>8 DEF Authorised
<1> QED BY <1>9 DEF mem, sources, signal, e

LEMMA AuthorityLasts ==
  ASSUME IInv, OutcomesAreOwn, [Next]_vars, NEW m \in Memories, Authorised(memory[m]),
         memory'[m] = memory[m]
  PROVE  Authorised(memory[m])'
<1> DEFINE mem == memory[m]
<1>1. /\ mem.rev.origin \in known'
      /\ execution'[mem.rev.origin].policy = execution[mem.rev.origin].policy
  BY StoreFollows DEF IInv, StoreEvolves, Authorised
<1>2. ASSUME NEW s \in mem.sources
      PROVE  /\ execution'[s] # None /\ execution'[s].agent = mem.agent
             /\ outcome'[s] # None /\ mem.evidence <= outcome'[s].evidence
  <2>1. /\ s \in Execs /\ execution[s] # None /\ execution[s].agent = mem.agent
        /\ outcome[s] # None /\ mem.evidence <= outcome[s].evidence
    BY <1>2 DEF Authorised
  <2>2. execution'[s] # None /\ execution'[s].agent = execution[s].agent
    BY <2>1, StoreFollows DEF IInv, StoreEvolves
  <2> QED BY <2>1, <2>2, OutcomesLast
<1> QED BY <1>1, <1>2 DEF Authorised

LEMMA MemoriesStep ==
  ASSUME IInv, RunsAreCurrent, OutcomesAreOwn, VerdictsAreGrounded, MemoriesAreAuthorised,
         [Next]_vars
  PROVE  MemoriesAreAuthorised'
<1>1. CASE UNCHANGED memory
  BY <1>1, AuthorityLasts DEF MemoriesAreAuthorised
<1>2. ASSUME NEW c \in Callers, PersistMemory(c) PROVE MemoriesAreAuthorised'
  <2> DEFINE q == call[c].q
             signal == Head(call[c].signals)
             mem == AdmittedMemory(q.exec, call[c].run, signal, SourcesOf(signal, q.exec))
  <2>1. PICK n \in Memories : memory' = [memory EXCEPT ![n] = mem]
    BY <1>2 DEF PersistMemory
  <2>2. Authorised(mem)
    BY <1>2, PersistedIsAuthorised
  <2>3. UNCHANGED <<execution, known, outcome>>
    BY <1>2 DEF PersistMemory
  <2> HIDE DEF mem
  <2>4. memory'[n] = mem /\ \A m \in Memories \ {n} : memory'[m] = memory[m]
    BY <2>1 DEF IInv, TypeOK, StoreTypeOK
  <2>5. Authorised(memory[n])'
    BY <2>2, <2>3, <2>4 DEF Authorised
  <2> QED BY <2>4, <2>5, AuthorityLasts DEF MemoriesAreAuthorised
<1>3. UNCHANGED memory \/ \E c \in Callers : PersistMemory(c)
  BY DEF Next, vars, Enter, Proceed, Abort, stored, StartExecution, StartObserve, StartComplete,
         SetExecutionMemoryPolicy, ReturnExecution, CountEvents, GetEvent, PutEvent, GetOutcome,
         PutOutcome, PutStatus, JudgeSignal, CheckSource, RecordAdmission, RecordRefusal,
         ReturnCompletion
<1> QED BY <1>1, <1>2, <1>3

AuthInv ==
  /\ RunsAreCurrent /\ OutcomesAreOwn /\ FinishedAsRecorded
  /\ VerdictsAreGrounded /\ MemoriesAreAuthorised

LEMMA InitAuthInv == Init => AuthInv
<1> SUFFICES ASSUME Init PROVE AuthInv
  OBVIOUS
<1>1. \A c \in Callers : call[c].pc = "idle"
  BY DEF Init, Idle
<1>2. /\ \A e \in Execs : execution[e] = None
      /\ \A m \in Memories : memory[m] = None
  BY DEF Init, StoreInit
<1> QED BY <1>1, <1>2
        DEF AuthInv, RunsAreCurrent, OutcomesAreOwn, FinishedAsRecorded, VerdictsAreGrounded,
            Judged, MemoriesAreAuthorised, Completing, Recorded

LEMMA AuthInductive == Spec /\ []~OutcomeRace => []AuthInv
<1>1. ~OutcomeRace /\ IInv /\ AuthInv /\ [Next]_vars => AuthInv'
  BY RunsStep, OwnStep, FinishedStep, VerdictsStep, MemoriesStep DEF AuthInv
<1> QED BY <1>1, InitAuthInv, Inductive, PTL DEF Spec

\* Unless two completions of one execution race for its outcome, an execution that has
\* left RUNNING has an outcome on record, with its status.
THEOREM FinishedStaysRecorded == Spec /\ []~OutcomeRace => []FinishedAsRecorded
<1>1. AuthInv => FinishedAsRecorded
  BY DEF AuthInv
<1> QED BY <1>1, AuthInductive, PTL

\* Unless two completions of one execution race for its outcome, every admitted memory
\* is, and stays, backed by its sources' outcomes and by the frozen policy, however its
\* admission was interleaved with other completions, starts and observes.
THEOREM AdmissionsAreAuthorised == Spec /\ []~OutcomeRace => []AdmissionAuthority
<1>1. AuthInv => AdmissionAuthority
  BY DEF AuthInv, MemoriesAreAuthorised, Authorised, AdmissionAuthority
<1> QED BY <1>1, AuthInductive, PTL

\* The race between recordOutcome's check and its put is the only way in which an
\* outcome on record is ever replaced: as long as it does not occur outcomes are final,
\* however often an execution is completed, also after a completion was cut short, ...
THEOREM OutcomesStayFinal == Spec /\ []~OutcomeRace => OutcomesAreFinal
<1>1. IInv /\ AuthInv /\ [Next]_vars =>
        [\A e \in Execs : outcome[e] # None => outcome'[e] = outcome[e]]_vars
  BY OutcomesLast DEF AuthInv
<1> QED BY <1>1, Inductive, AuthInductive, PTL DEF Spec, OutcomesAreFinal

\* ... and so is the status an execution has ended with.
StatusesAreFinal ==
  [][\A e \in Execs : execution[e] # None /\ execution[e].status \in Terminal =>
       execution'[e].status = execution[e].status]_vars

\* An execution that has ended neither runs again nor comes to have ended otherwise,
\* whoever tries to complete it again, unless two completions race for its outcome.
THEOREM StatusesStayFinal == Spec /\ []~OutcomeRace => StatusesAreFinal
<1>1. ASSUME IInv, AuthInv, AuthInv', [Next]_vars, NEW e \in Execs,
             execution[e] # None, execution[e].status \in Terminal
      PROVE  execution'[e].status = execution[e].status
  <2>1. outcome[e] # None /\ outcome[e].status = execution[e].status
    BY <1>1 DEF AuthInv, FinishedAsRecorded
  <2>2. execution'[e] # None /\ execution'[e].status \in Terminal
    BY <1>1, StoreFollows DEF IInv, StoreEvolves
  <2>3. outcome'[e].status = execution'[e].status
    BY <1>1, <2>2 DEF AuthInv, FinishedAsRecorded
  <2>4. outcome'[e] = outcome[e]
    BY <1>1, <2>1, OutcomesLast DEF AuthInv
  <2> QED BY <2>1, <2>3, <2>4
<1>2. IInv /\ AuthInv /\ AuthInv' /\ [Next]_vars =>
        [\A e \in Execs : execution[e] # None /\ execution[e].status \in Terminal =>
           execution'[e].status = execution[e].status]_vars
  BY <1>1
<1> QED BY <1>2, Inductive, AuthInductive, PTL DEF Spec, StatusesAreFinal

(***************************************************************************)
(* Events, when their numbers are not raced for                            *)
(***************************************************************************)
\* Two observes of one execution have computed the same number and both found it free,
\* and neither has put its event yet (runtime-store.ts:154-170).  Observes may overlap
\* in every other way, and an execution may be observed any number of times.
EventRace ==
  \E c, d \in Callers : /\ c # d /\ call[c].pc = "put" /\ call[d].pc = "put"
                        /\ call[c].q.exec = call[d].q.exec /\ call[c].seq = call[d].seq

\* From finding its number free until it puts its event, an observe's number is free.
NumbersStayFree ==
  \A c \in Callers : call[c].pc = "put" =>
    \A x \in event : ~InSlot(x, call[c].q.exec, call[c].seq)

LEMMA EventsLast ==
  ASSUME IInv, NumbersStayFree, [Next]_vars PROVE event \subseteq event'
<1>1. ASSUME NEW c \in Callers, PutEvent(c) PROVE event \subseteq event'
  BY <1>1 DEF PutEvent, NumbersStayFree
<1> QED BY <1>1, EventWrites

LEMMA FreeStep ==
  ASSUME ~EventRace, IInv, NumbersStayFree, [Next]_vars PROVE NumbersStayFree'
<1> DEFINE Free(c) == call[c].pc = "put" =>
                        \A x \in event : ~InSlot(x, call[c].q.exec, call[c].seq)
<1>0. call \in [Callers -> Call] /\ \A c \in Callers : Free(c)
  BY DEF IInv, TypeOK, NumbersStayFree
<1>1. CASE UNCHANGED vars
  BY <1>1 DEF vars, NumbersStayFree
<1>2. ASSUME NEW c \in Callers, PutEvent(c) PROVE NumbersStayFree'
  <2>1. /\ \A d \in Callers \ {c} : call'[d] = call[d]
        /\ call[c].pc = "put" /\ call'[c].pc = "done"
    BY <1>0, <1>2, IdleInCall DEF PutEvent, Return, Call
  <2>2. Free(c)'
    BY <2>1
  <2>3. ASSUME NEW d \in Callers \ {c}, call[d].pc = "put", NEW x \in event'
        PROVE  ~InSlot(x, call[d].q.exec, call[d].seq)
    <3>1. call[d].q.exec # call[c].q.exec \/ call[d].seq # call[c].seq
      BY <2>1, <2>3 DEF EventRace
    <3>2. x \in event \/ (x.exec = call[c].q.exec /\ x.seq = call[c].seq)
      <4> DEFINE new == [exec |-> call[c].q.exec, seq |-> call[c].seq, body |-> call[c].q.body]
      <4>1. x \in event \/ x = new
        BY <1>2, <2>3 DEF PutEvent
      <4>2. new.exec = call[c].q.exec /\ new.seq = call[c].seq
        OBVIOUS
      <4> HIDE DEF new
      <4> QED BY <4>1, <4>2
    <3> QED BY <1>0, <2>3, <3>1, <3>2 DEF InSlot
  <2> QED BY <2>1, <2>2, <2>3 DEF NumbersStayFree
<1>3. ASSUME NEW c \in Callers, Enter(c), UNCHANGED event PROVE NumbersStayFree'
  <2>1. /\ \A d \in Callers \ {c} : call'[d] = call[d]
        /\ call'[c].pc # "put"
    BY <1>3, Enters DEF IInv, Begun
  <2> QED BY <1>0, <1>3, <2>1 DEF NumbersStayFree
<1>4. ASSUME NEW c \in Callers, Proceed(c) \/ Abort(c), UNCHANGED event PROVE NumbersStayFree'
  <2>1. /\ \A d \in Callers \ {c} : call'[d] = call[d]
        /\ call'[c].pc = "put" => call[c].pc = "slot"
    BY <1>4, Moves DEF IInv, Edges
  <2>2. Throw(c) => call'[c].pc = "failed"
    BY <1>0, IdleInCall DEF Throw, Call
  <2>3. call'[c].pc = "put" => GetEvent(c)
    BY <1>4, <2>1, <2>2
       DEF Proceed, Abort, SetExecutionMemoryPolicy, ReturnExecution, CountEvents, PutEvent,
           GetOutcome, PutOutcome, PutStatus, JudgeSignal, CheckSource, PersistMemory,
           RecordAdmission, RecordRefusal, ReturnCompletion
  <2>4. GetEvent(c) /\ call'[c].pc = "put" => Free(c)'
    <3>1. Return(c) => call'[c].pc = "done"
      BY <1>0, IdleInCall DEF Return, Call
    <3>2. Goto(c, "put") => call'[c].q = call[c].q /\ call'[c].seq = call[c].seq
      BY <1>0 DEF Goto, Call
    <3> QED BY <1>4, <2>2, <3>1, <3>2 DEF GetEvent
  <2> QED BY <1>0, <1>4, <2>1, <2>3, <2>4 DEF NumbersStayFree
<1> HIDE DEF Free
<1> QED BY <1>1, <1>2, <1>3, <1>4, Turn, EventWrites

LEMMA FreeInductive == Spec /\ []~EventRace => []NumbersStayFree
<1>1. Init => NumbersStayFree
  <2> SUFFICES ASSUME Init PROVE NumbersStayFree
    OBVIOUS
  <2>1. event = {}
    BY DEF Init
  <2> QED BY <2>1 DEF NumbersStayFree
<1>2. ~EventRace /\ IInv /\ NumbersStayFree /\ [Next]_vars => NumbersStayFree'
  BY FreeStep
<1> QED BY <1>1, <1>2, Inductive, PTL DEF Spec

\* The race of two observes for one number is the only way in which an event on record
\* is ever replaced: as long as it does not occur events are final, whatever part of
\* the rows each observe was listed and however its number was miscounted.
THEOREM EventsStayFinal == Spec /\ []~EventRace => EventsAreFinal
<1>1. IInv /\ NumbersStayFree /\ [Next]_vars => [event \subseteq event']_vars
  BY EventsLast
<1> QED BY <1>1, FreeInductive, Inductive, PTL DEF Spec, EventsAreFinal

(***************************************************************************)
(* What memories are left by                                               *)
(***************************************************************************)
LEMMA MemoryWrites ==
  ASSUME [Next]_vars
  PROVE  UNCHANGED memory \/ \E c \in Callers : PersistMemory(c)
BY DEF Next, vars, Enter, Proceed, Abort, stored, StartExecution, StartObserve, StartComplete,
       SetExecutionMemoryPolicy, ReturnExecution, CountEvents, GetEvent, PutEvent, GetOutcome,
       PutOutcome, PutStatus, JudgeSignal, CheckSource, RecordAdmission, RecordRefusal,
       ReturnCompletion

\* complete draws a fresh id for each memory it persists: what is stored stays as it is.
LEMMA MemoriesLast ==
  ASSUME TypeOK, [Next]_vars, NEW m \in Memories, memory[m] # None
  PROVE  memory'[m] = memory[m]
BY MemoryWrites DEF PersistMemory, TypeOK, StoreTypeOK

Admitting == {"signals", "sources", "admitted"}

\* By the time complete judges its signals the execution's status is on record ...
CompletersHaveEnded ==
  \A c \in Callers : call[c].pc \in Admitting =>
    call[c].q.exec \in Execs /\ execution[call[c].q.exec] # None
    /\ execution[call[c].q.exec].status \in Terminal

\* ... so every memory was left by an execution that had ended.
OriginsHaveEnded ==
  \A m \in Memories : memory[m] # None =>
    LET e == memory[m].rev.origin IN
    e \in Execs /\ execution[e] # None /\ execution[e].status \in Terminal

EndedInv == CompletersHaveEnded /\ OriginsHaveEnded

LEMMA EndedStep == ASSUME IInv, EndedInv, [Next]_vars PROVE EndedInv'
<1>0. /\ TypeOK /\ call \in [Callers -> Call]
      /\ \A e \in Execs : execution[e] # None =>
           /\ execution'[e] # None
           /\ execution[e].status \in Terminal => execution'[e].status \in Terminal
  BY StoreFollows DEF IInv, TypeOK, StoreEvolves
<1>1. CompletersHaveEnded'
  <2>1. ASSUME NEW c \in Callers, call'[c] = call[c], call'[c].pc \in Admitting
        PROVE  /\ call'[c].q.exec \in Execs /\ execution'[call'[c].q.exec] # None
               /\ execution'[call'[c].q.exec].status \in Terminal
    BY <1>0, <2>1 DEF EndedInv, CompletersHaveEnded
  <2>2. ASSUME NEW c \in Callers, Proceed(c) \/ Abort(c), call'[c].pc \in Admitting
        PROVE  /\ call'[c].q.exec \in Execs /\ execution'[call'[c].q.exec] # None
               /\ execution'[call'[c].q.exec].status \in Terminal
    <3>1. /\ <<call[c].pc, call'[c].pc>> \in Edges
          /\ call'[c].q = call[c].q
      BY <1>0, <2>2, Moves DEF Admitting
    <3>2. CASE call[c].pc \in Admitting
      BY <1>0, <3>1, <3>2 DEF EndedInv, CompletersHaveEnded
    <3>3. CASE call[c].pc = "status"
      <4>1. PutStatus(c)
        <5>1. ~Abort(c)
          BY <1>0, <2>2, IdleInCall DEF Abort, Throw, Admitting, Call
        <5> QED BY <2>2, <3>3, <5>1 DEF Proceed, SetExecutionMemoryPolicy, ReturnExecution,
               CountEvents, GetEvent, PutEvent, GetOutcome, PutOutcome, JudgeSignal, CheckSource,
               PersistMemory, RecordAdmission, RecordRefusal, ReturnCompletion
      <4>2. /\ call[c].q \in CompleteRequest /\ call[c].q.exec \in known
        BY <3>3, Completer DEF Completing
      <4>3. call[c].q.exec \in Execs /\ execution[call[c].q.exec] \in Execution
        BY <1>0, <4>2 DEF TypeOK, StoreTypeOK
      <4> QED BY <1>0, <3>1, <4>1, <4>2, <4>3
              DEF PutStatus, CompleteRequest, TypeOK, StoreTypeOK, Execution
    <3> QED BY <2>2, <3>1, <3>2, <3>3 DEF Edges, Admitting
  <2>3. ASSUME NEW c \in Callers, Enter(c) PROVE call'[c].pc \notin Admitting
    BY <1>0, <2>3, Enters DEF Admitting, Begun
  <2>4. CASE UNCHANGED vars
    BY <2>1, <2>4 DEF vars, CompletersHaveEnded
  <2>5. ASSUME NEW c \in Callers, Enter(c) \/ Proceed(c) \/ Abort(c)
        PROVE  \A d \in Callers \ {c} : call'[d] = call[d]
    BY <1>0, <2>5, Enters, Moves
  <2> QED BY <2>1, <2>2, <2>3, <2>4, <2>5, Turn DEF CompletersHaveEnded
<1>2. OriginsHaveEnded'
  <2>1. CASE UNCHANGED memory
    BY <1>0, <2>1 DEF EndedInv, OriginsHaveEnded
  <2>2. ASSUME NEW c \in Callers, PersistMemory(c) PROVE OriginsHaveEnded'
    <3>1. PICK m \in Memories :
            memory' = [memory EXCEPT ![m] =
              AdmittedMemory(call[c].q.exec, call[c].run, Head(call[c].signals),
                             SourcesOf(Head(call[c].signals), call[c].q.exec))]
      BY <2>2 DEF PersistMemory
    <3>2. memory'[m].rev.origin = call[c].q.exec
      BY <1>0, <3>1 DEF AdmittedMemory, TypeOK, StoreTypeOK
    <3>3. \A n \in Memories \ {m} : memory'[n] = memory[n]
      BY <1>0, <3>1 DEF TypeOK, StoreTypeOK
    <3>4. call[c].pc \in Admitting
      BY <2>2 DEF PersistMemory, Admitting
    <3> QED BY <1>0, <3>2, <3>3, <3>4 DEF EndedInv, CompletersHaveEnded, OriginsHaveEnded
  <2> QED BY <2>1, <2>2, MemoryWrites
<1> QED BY <1>1, <1>2 DEF EndedInv

LEMMA EndedInductive == Spec => []EndedInv
<1>1. Init => EndedInv
  BY DEF Init, StoreInit, Idle, EndedInv, CompletersHaveEnded, OriginsHaveEnded, Admitting
<1>2. IInv /\ EndedInv /\ [Next]_vars => EndedInv'
  BY EndedStep
<1> QED BY <1>1, <1>2, Inductive, PTL DEF Spec

\* complete persists memories after the status: however completions overlap and wherever
\* they are cut short, no memory is of an execution that may still run.
THEOREM MemoriesFollowEnds == Spec => []OriginsHaveEnded
<1>1. EndedInv => OriginsHaveEnded
  BY DEF EndedInv
<1> QED BY <1>1, EndedInductive, PTL

(***************************************************************************)
(* What only a failure can leave unfinished                                *)
(***************************************************************************)
\* recordOutcome puts the outcome first and the status after it.  However completions
\* overlap, an execution whose outcome is on record has ended, or the invocation that
\* wrote the outcome is the one that is about to end it, or that invocation was cut short
\* by a failure it is exposed to.
StuckOnlyByFailure ==
  \A e \in Execs : outcome[e] # None =>
    \/ execution[e] # None /\ execution[e].status \in Terminal
    \/ call[outcome[e].by].pc = "status" /\ call[outcome[e].by].q.exec = e
    \/ call[outcome[e].by].pc = "failed" /\ outcome[e].by \in Fragile

LEMMA StuckStep ==
  ASSUME IInv, StuckOnlyByFailure, [Next]_vars PROVE StuckOnlyByFailure'
<1> DEFINE Ended(e) == execution[e] # None /\ execution[e].status \in Terminal
           Ending(b, e) == call[b].pc = "status" /\ call[b].q.exec = e
           Cut(b) == call[b].pc = "failed" /\ b \in Fragile
<1>0. call \in [Callers -> Call] /\ \A e \in Execs : outcome[e] # None => outcome[e].by \in Callers
  BY DEF IInv, TypeOK, Outcome
<1>1. \A e \in Execs : Ended(e) => Ended(e)'
  BY StoreFollows DEF IInv, StoreEvolves
<1>2. ASSUME NEW b \in Callers, Cut(b) PROVE Cut(b)'
  <2>1. ASSUME NEW c \in Callers, Enter(c) PROVE call'[b] = call[b]
    <3>1. call[c].pc = "idle"
      BY <2>1 DEF Enter, StartExecution, StartObserve, StartComplete
    <3> QED BY <1>2, <2>1, <3>1, Enters DEF IInv
  <2>2. ASSUME NEW c \in Callers, Proceed(c) \/ Abort(c) PROVE call'[b] = call[b]
    BY <1>2, <2>2, Moves DEF IInv, Begun, Using
  <2> QED BY <1>2, <2>1, <2>2, Turn DEF vars
<1>3. ASSUME NEW b \in Callers, NEW e \in Execs, Ending(b, e)
      PROVE  Ending(b, e)' \/ Ended(e)' \/ Cut(b)'
  <2>1. ASSUME NEW c \in Callers, Enter(c) PROVE call'[b] = call[b]
    <3>1. call[c].pc = "idle"
      BY <2>1 DEF Enter, StartExecution, StartObserve, StartComplete
    <3> QED BY <1>3, <2>1, <3>1, Enters DEF IInv
  <2>2. ASSUME NEW c \in Callers \ {b}, Proceed(c) \/ Abort(c) PROVE call'[b] = call[b]
    BY <2>2, Moves DEF IInv
  <2>3. CASE Abort(b)
    BY <1>0, <1>3, <2>3, IdleInCall DEF Abort, Throw, Call
  <2>4. CASE PutStatus(b)
    <3>1. /\ e \in known /\ call[b].q.status \in Terminal
      BY <1>3, Completer DEF Completing, CompleteRequest
    <3>2. execution \in [Execs -> Execution \cup {None}] /\ execution[e] \in Execution
      BY <3>1 DEF IInv, TypeOK, StoreTypeOK
    <3>3. execution' = [execution EXCEPT ![e].status = call[b].q.status]
      BY <1>3, <2>4 DEF PutStatus
    <3>4. execution'[e] = [execution[e] EXCEPT !.status = call[b].q.status]
      BY <3>2, <3>3
    <3>5. execution'[e].status = call[b].q.status
      BY <3>2, <3>4 DEF Execution
    <3>6. execution'[e] # None
      BY StoreFollows, <3>2, RuntimeStoreAssumption, PolicyAssumption DEF IInv, StoreEvolves, Execution
    <3> QED BY <3>1, <3>5, <3>6
  <2>5. Proceed(b) => PutStatus(b)
    BY <1>3
       DEF Proceed, SetExecutionMemoryPolicy, ReturnExecution, CountEvents, GetEvent, PutEvent,
           GetOutcome, PutOutcome, JudgeSignal, CheckSource, PersistMemory, RecordAdmission,
           RecordRefusal, ReturnCompletion
  <2>6. CASE call'[b] = call[b]
    BY <1>3, <2>6
  <2>7. CASE UNCHANGED vars
    BY <2>6, <2>7 DEF vars
  <2> QED BY <2>1, <2>2, <2>3, <2>4, <2>5, <2>6, <2>7, Turn
<1>4. ASSUME NEW c \in Callers, PutOutcome(c)
      PROVE  call'[c].pc = "status" /\ call'[c].q = call[c].q
  BY <1>0, <1>4 DEF PutOutcome, Goto, Call
<1>5. ASSUME NEW e \in Execs, outcome'[e] # None, outcome'[e] # outcome[e]
      PROVE  \E b \in Callers : outcome'[e].by = b /\ Ending(b, e)'
  <2>1. PICK c \in Callers : PutOutcome(c)
    BY <1>5, OutcomeWrites
  <2>2. \A f \in Execs : f # call[c].q.exec => outcome'[f] = outcome[f]
    BY <2>1, OutcomePut DEF IInv, TypeOK
  <2>3. call[c].q.exec = e
    BY <1>5, <2>2
  <2>4. outcome'[e].by = c
    <3>1. outcome'[call[c].q.exec] =
            [by |-> c, status |-> call[c].q.status, evidence |-> call[c].q.evidence]
      BY <2>1, OutcomePut DEF IInv
    <3> QED BY <2>3, <3>1
  <2> QED BY <1>4, <2>1, <2>3, <2>4
<1>6. \A e \in Execs : outcome[e] # None =>
        \E b \in Callers : outcome[e].by = b /\ (Ended(e) \/ Ending(b, e) \/ Cut(b))
  BY <1>0 DEF StuckOnlyByFailure
<1>7. \A e \in Execs : outcome'[e] # None =>
        \E b \in Callers : outcome'[e].by = b /\ (Ended(e)' \/ Ending(b, e)' \/ Cut(b)')
  <2> HIDE DEF Ended, Ending, Cut
  <2>1. ASSUME NEW e \in Execs, outcome'[e] # None, outcome'[e] = outcome[e]
        PROVE  \E b \in Callers : outcome'[e].by = b /\ (Ended(e)' \/ Ending(b, e)' \/ Cut(b)')
    BY <1>1, <1>2, <1>3, <1>6, <2>1
  <2> QED BY <1>5, <2>1
<1> QED BY <1>7 DEF StuckOnlyByFailure

\* Whatever overlaps, only the failure of the very invocation that wrote an outcome can
\* leave an execution RUNNING for good beside it.  With the fairness of that invocation
\* this is what CompletionFinishes rests on.
THEOREM OnlyFailuresStrand == Spec => []StuckOnlyByFailure
<1>1. Init => StuckOnlyByFailure
  BY DEF Init, StuckOnlyByFailure
<1>2. IInv /\ StuckOnlyByFailure /\ [Next]_vars => StuckOnlyByFailure'
  BY StuckStep
<1> QED BY <1>1, <1>2, Inductive, PTL DEF Spec

(***************************************************************************)
(* What a caller was told has come about                                   *)
(***************************************************************************)
\* startExecution returned: the execution may be used, and has the context asked for and a
\* policy that may be resolved for it.
StartsAreTrue ==
  \A c \in Callers : call[c].pc = "done" /\ call[c].q.op = "start" =>
    LET e == call[c].q.exec IN
    /\ e \in known /\ execution[e].agent = call[c].q.context.agent
    /\ execution[e].env = call[c].q.context.env
    /\ execution[e].policy \in {Fallback} \cup Registered[e]

\* observe returned: its event is on record.
ObservesAreTrue ==
  \A c \in Callers : call[c].pc = "done" /\ call[c].q.op = "observe" =>
    \E x \in event : x.exec = call[c].q.exec /\ x.body = call[c].q.body

\* complete returned: its outcome is on record, and its execution has ended with it.
CompletionsAreTrue ==
  \A c \in Callers : call[c].pc = "done" /\ call[c].q.op = "complete" =>
    LET e == call[c].q.exec IN
    /\ outcome[e] # None /\ outcome[e].evidence = call[c].q.evidence
    /\ outcome[e].status = call[c].q.status
    /\ execution[e] # None /\ execution[e].status = call[c].q.status

\* An invocation returns from four places, and from each after what it was asked for.
LEMMA Returning ==
  ASSUME TypeOK, NEW c \in Callers, Proceed(c) \/ Abort(c), call'[c].pc = "done"
  PROVE  /\ call'[c].q = call[c].q
         /\ \/ ReturnExecution(c) \/ PutEvent(c) \/ ReturnCompletion(c)
            \/ /\ GetEvent(c) /\ UNCHANGED event
               /\ \E x \in event : x.exec = call[c].q.exec /\ x.body = call[c].q.body
<1>0. call \in [Callers -> Call] /\ call[c] \in Call
  BY DEF TypeOK
<1>1. call'[c].q = call[c].q
  BY Moves DEF Edges
<1>2. Throw(c) => call'[c].pc = "failed"
  BY <1>0, IdleInCall DEF Throw, Call
<1>3. \/ ReturnExecution(c) \/ PutEvent(c) \/ ReturnCompletion(c) \/ GetEvent(c)
  <2>1. SetExecutionMemoryPolicy(c) => call'[c].pc # "done"
    BY <1>0, <1>2 DEF SetExecutionMemoryPolicy, Goto, Call
  <2>2. CountEvents(c) => call'[c].pc # "done"
    BY <1>0 DEF CountEvents, Call
  <2>3. GetOutcome(c) \/ PutOutcome(c) \/ PutStatus(c) => call'[c].pc # "done"
    BY <1>0, <1>2 DEF GetOutcome, PutOutcome, PutStatus, Goto, Call
  <2>4. JudgeSignal(c) => call'[c].pc # "done"
    BY <1>0 DEF JudgeSignal, Call
  <2>5. ASSUME NEW s \in call[c].pending, CheckSource(c, s) PROVE call'[c].pc # "done"
    BY <1>0, <2>5 DEF CheckSource, Call
  <2>6. PersistMemory(c) \/ RecordAdmission(c) \/ RecordRefusal(c) => call'[c].pc # "done"
    BY <1>0 DEF PersistMemory, RecordAdmission, RecordRefusal, Call
  <2> QED BY <1>2, <2>1, <2>2, <2>3, <2>4, <2>5, <2>6 DEF Proceed, Abort
<1>4. ASSUME GetEvent(c)
      PROVE  /\ UNCHANGED event
             /\ \E x \in event : x.exec = call[c].q.exec /\ x.body = call[c].q.body
  <2>1. Goto(c, "put") => call'[c].pc # "done"
    BY <1>0 DEF Goto, Call
  <2> QED BY <1>2, <1>4, <2>1 DEF GetEvent, InSlot, stored
<1> QED BY <1>1, <1>3, <1>4

\* Whoever has returned stays as it is.
LEMMA ReturnedStays ==
  ASSUME TypeOK, [Next]_vars, NEW c \in Callers, call[c].pc = "done"
  PROVE  call'[c] = call[c]
<1>1. ASSUME NEW d \in Callers, Enter(d) PROVE call'[c] = call[c]
  <2>1. call[d].pc = "idle"
    BY <1>1 DEF Enter, StartExecution, StartObserve, StartComplete
  <2> QED BY <1>1, <2>1, Enters
<1>2. ASSUME NEW d \in Callers, Proceed(d) \/ Abort(d) PROVE call'[c] = call[c]
  BY <1>2, Moves DEF Begun, Using
<1> QED BY <1>1, <1>2, Turn DEF vars

\* Who has returned now, had returned, or returns in this step.
LEMMA Returned ==
  ASSUME TypeOK, [Next]_vars, NEW c \in Callers, call'[c].pc = "done"
  PROVE  \/ call[c].pc = "done" /\ call'[c] = call[c]
         \/ call[c].pc # "done" /\ (Proceed(c) \/ Abort(c))
<1>1. ASSUME NEW d \in Callers, Enter(d) PROVE call'[c] = call[c]
  BY <1>1, Enters DEF Begun
<1>2. ASSUME NEW d \in Callers \ {c}, Proceed(d) \/ Abort(d) PROVE call'[c] = call[c]
  BY <1>2, Moves
<1> QED BY <1>1, <1>2, ReturnedStays, Turn DEF vars

\* While it is being started, an execution is as was asked for, and nobody else writes it.
StartsHeld ==
  \A c \in Callers : call[c].pc \in Begun =>
    LET e == call[c].q.exec IN
    /\ execution[e].agent = call[c].q.context.agent
    /\ execution[e].env = call[c].q.context.env
    /\ execution[e].policy \in {Fallback} \cup Registered[e]

LEMMA PrivateLasts ==
  ASSUME IInv, [Next]_vars, NEW c \in Callers, call[c].pc \in Begun, call'[c] = call[c]
  PROVE  execution'[call[c].q.exec] = execution[call[c].q.exec]
<1> DEFINE e == call[c].q.exec
<1>0. /\ execution \in [Execs -> Execution \cup {None}] /\ call \in [Callers -> Call]
      /\ execution[e] # None /\ e \notin known
  BY DEF IInv, TypeOK, StoreTypeOK, CallsInv, StartsArePrivate
<1>1. ASSUME NEW d \in Callers, NEW q \in Requests[d], StartExecution(d, q)
      PROVE  execution'[e] = execution[e]
  BY <1>0, <1>1 DEF StartExecution
<1>2. ASSUME NEW d \in Callers, SetExecutionMemoryPolicy(d) PROVE execution'[e] = execution[e]
  <2>1. call[d].pc = "freeze" /\ call'[d].pc # "freeze"
    BY <1>0, <1>2, IdleInCall DEF SetExecutionMemoryPolicy, Goto, Throw, Call
  <2>2. d # c /\ call[d].q.exec # e
    BY <2>1 DEF IInv, CallsInv, StartsArePrivate, Begun
  <2>3. ASSUME NEW f \in Execs \ {e}, NEW p, execution' = [execution EXCEPT ![f].policy = p]
        PROVE  execution'[e] = execution[e]
    BY <1>0, <2>3
  <2>4. call[d].q.exec \in Execs
    BY <2>1, HeldTyped DEF IInv, HoldsWhatItNeeds, StartRequest
  <2> HIDE DEF e
  <2> QED BY <1>2, <2>2, <2>3, <2>4 DEF SetExecutionMemoryPolicy
<1>3. ASSUME NEW d \in Callers, PutStatus(d) PROVE execution'[e] = execution[e]
  <2>1. call[d].q.exec \in known
    BY <1>3, Completer DEF PutStatus, Completing
  <2> QED BY <1>0, <1>3, <2>1 DEF PutStatus
<1>4. \/ UNCHANGED execution
      \/ \E d \in Callers : \/ \E q \in Requests[d] : StartExecution(d, q)
                           \/ SetExecutionMemoryPolicy(d) \/ PutStatus(d)
  BY DEF Next, vars, Enter, Proceed, Abort, stored, StartObserve, StartComplete,
         ReturnExecution, CountEvents, GetEvent, PutEvent, GetOutcome, PutOutcome, JudgeSignal,
         CheckSource, PersistMemory, RecordAdmission, RecordRefusal, ReturnCompletion
<1> QED BY <1>1, <1>2, <1>3, <1>4

LEMMA HeldStep == ASSUME IInv, StartsHeld, [Next]_vars PROVE StartsHeld'
<1> SUFFICES ASSUME NEW c \in Callers, call'[c].pc \in Begun
             PROVE  LET e == call'[c].q.exec IN
                    /\ execution'[e].agent = call'[c].q.context.agent
                    /\ execution'[e].env = call'[c].q.context.env
                    /\ execution'[e].policy \in {Fallback} \cup Registered[e]
  BY DEF StartsHeld
<1>0. execution \in [Execs -> Execution \cup {None}] /\ call \in [Callers -> Call]
  BY DEF IInv, TypeOK, StoreTypeOK
<1>1. CASE call'[c] = call[c]
  BY <1>1, PrivateLasts DEF StartsHeld
<1>2. CASE Enter(c)
  <2>1. PICK q \in Requests[c] : StartExecution(c, q) /\ call'[c].q = q
    BY <1>2, Enters DEF IInv, Begun
  <2>2. execution'[q.exec] = [agent |-> q.context.agent, env |-> q.context.env,
                              policy |-> Fallback, status |-> "RUNNING"]
    BY <1>0, <2>1, RequestKinds DEF StartExecution
  <2> QED BY <2>1, <2>2
<1>3. CASE Proceed(c) \/ Abort(c)
  <2>1. call[c].pc = "freeze" /\ call'[c].q = call[c].q
    BY <1>3, Moves DEF IInv, Edges, Begun
  <2>2. SetExecutionMemoryPolicy(c)
    <3>1. ~Abort(c)
      BY <1>0, IdleInCall DEF Abort, Throw, Begun, Call
    <3> QED BY <1>3, <2>1, <3>1
            DEF Proceed, ReturnExecution, CountEvents, GetEvent, PutEvent, GetOutcome, PutOutcome,
                PutStatus, JudgeSignal, CheckSource, PersistMemory, RecordAdmission,
                RecordRefusal, ReturnCompletion
  <2> DEFINE e == call[c].q.exec
  <2>3. execution[e] # None /\ e \in Execs
    BY <2>1, HeldTyped DEF IInv, CallsInv, StartsArePrivate, Begun, HoldsWhatItNeeds, StartRequest
  <2>4. execution[e] \in Execution
    BY <1>0, <2>3
  <2>5. /\ execution[e].agent = call[c].q.context.agent
        /\ execution[e].env = call[c].q.context.env
        /\ execution[e].policy \in {Fallback} \cup Registered[e]
    BY <2>1 DEF StartsHeld, Begun
  <2>6. CASE UNCHANGED execution
    BY <2>1, <2>5, <2>6
  <2>7. ASSUME NEW p \in Registered[e], execution' = [execution EXCEPT ![e].policy = p]
        PROVE  /\ execution'[e].agent = execution[e].agent /\ execution'[e].env = execution[e].env
               /\ execution'[e].policy = p
    BY <1>0, <2>3, <2>4, <2>7 DEF Execution
  <2> QED BY <2>1, <2>2, <2>5, <2>6, <2>7 DEF SetExecutionMemoryPolicy
<1>4. ASSUME NEW d \in Callers \ {c}, Enter(d) \/ Proceed(d) \/ Abort(d) PROVE call'[c] = call[c]
  BY <1>4, Enters, Moves DEF IInv
<1> QED BY <1>1, <1>2, <1>3, <1>4, Turn DEF vars

\* startExecution never returns an id whose execution is not the one asked for: in
\* particular the policy was in place first, and nothing has changed it since.
THEOREM StartsStayTrue == Spec => []StartsAreTrue
<1>1. ASSUME IInv, StartsHeld, StartsAreTrue, [Next]_vars PROVE StartsAreTrue'
  <2> SUFFICES ASSUME NEW c \in Callers, call'[c].pc = "done", call'[c].q.op = "start"
               PROVE  LET e == call'[c].q.exec IN
                      /\ e \in known' /\ execution'[e].agent = call'[c].q.context.agent
                      /\ execution'[e].env = call'[c].q.context.env
                      /\ execution'[e].policy \in {Fallback} \cup Registered[e]
    BY DEF StartsAreTrue
  <2>1. CASE call[c].pc = "done" /\ call'[c] = call[c]
    <3> DEFINE e == call[c].q.exec
    <3>1. e \in known /\ e \in Execs /\ execution[e] # None
      BY <1>1, <2>1 DEF StartsAreTrue, IInv, TypeOK, StoreTypeOK
    <3>2. /\ e \in known' /\ execution'[e].agent = execution[e].agent
          /\ execution'[e].env = execution[e].env /\ execution'[e].policy = execution[e].policy
      BY <1>1, <3>1, StoreFollows DEF IInv, StoreEvolves
    <3> QED BY <1>1, <2>1, <3>2 DEF StartsAreTrue
  <2>2. CASE Proceed(c) \/ Abort(c)
    <3>1. call'[c].q = call[c].q
      BY <1>1, <2>2, Returning DEF IInv
    <3>2. ~GetEvent(c) /\ ~PutEvent(c) /\ ~ReturnCompletion(c)
      BY <1>1, <3>1, HeldTyped
         DEF IInv, GetEvent, PutEvent, ReturnCompletion, HoldsWhatItNeeds, ObserveRequest, CompleteRequest
    <3>3. ReturnExecution(c)
      BY <1>1, <2>2, <3>2, Returning DEF IInv
    <3> QED BY <1>1, <3>1, <3>3 DEF ReturnExecution, StartsHeld, Begun
  <2> QED BY <1>1, <2>1, <2>2, Returned DEF IInv
<1>2. Init => StartsHeld /\ StartsAreTrue
  BY DEF Init, Idle, StartsHeld, StartsAreTrue, Begun
<1>3. IInv /\ StartsHeld /\ StartsAreTrue /\ [Next]_vars => StartsHeld' /\ StartsAreTrue'
  BY <1>1, HeldStep
<1> QED BY <1>2, <1>3, Inductive, PTL DEF Spec

\* An observe that has returned left its event, or found it, and however many observes
\* of the execution come after, it is still there, unless two raced for one number.
THEOREM ObservesStayTrue == Spec /\ []~EventRace => []ObservesAreTrue
<1>1. ASSUME IInv, NumbersStayFree, ObservesAreTrue, [Next]_vars PROVE ObservesAreTrue'
  <2> SUFFICES ASSUME NEW c \in Callers, call'[c].pc = "done", call'[c].q.op = "observe"
               PROVE  \E x \in event' : x.exec = call'[c].q.exec /\ x.body = call'[c].q.body
    BY DEF ObservesAreTrue
  <2>1. event \subseteq event'
    BY <1>1, EventsLast
  <2>2. CASE call[c].pc = "done" /\ call'[c] = call[c]
    BY <1>1, <2>1, <2>2 DEF ObservesAreTrue
  <2>3. CASE Proceed(c) \/ Abort(c)
    <3>1. call'[c].q = call[c].q
      BY <1>1, <2>3, Returning DEF IInv
    <3>2. ASSUME PutEvent(c)
          PROVE  \E x \in event' : x.exec = call[c].q.exec /\ x.body = call[c].q.body
      <4> DEFINE new == [exec |-> call[c].q.exec, seq |-> call[c].seq, body |-> call[c].q.body]
      <4>1. new \in event'
        BY <3>2 DEF PutEvent
      <4>2. new.exec = call[c].q.exec /\ new.body = call[c].q.body
        OBVIOUS
      <4> QED BY <4>1, <4>2
    <3>3. ~ReturnExecution(c) /\ ~ReturnCompletion(c)
      BY <1>1, <3>1, HeldTyped
         DEF IInv, ReturnExecution, ReturnCompletion, HoldsWhatItNeeds, StartRequest, CompleteRequest
    <3> QED BY <1>1, <2>3, <3>1, <3>2, <3>3, Returning DEF IInv
  <2> QED BY <1>1, <2>2, <2>3, Returned DEF IInv
<1>2. Init => ObservesAreTrue
  BY DEF Init, Idle, ObservesAreTrue
<1>3. IInv /\ NumbersStayFree /\ ObservesAreTrue /\ [Next]_vars => ObservesAreTrue'
  BY <1>1
<1> QED BY <1>2, <1>3, Inductive, FreeInductive, PTL DEF Spec

\* A complete that has returned has ended its execution with its own outcome, and no other
\* has replaced it since, unless two completions of the execution raced for its outcome.
THEOREM CompletionsStayTrue == Spec /\ []~OutcomeRace => []CompletionsAreTrue
<1>1. ASSUME IInv, AuthInv, AuthInv', EndedInv, CompletionsAreTrue, [Next]_vars
      PROVE  CompletionsAreTrue'
  <2> SUFFICES ASSUME NEW c \in Callers, call'[c].pc = "done", call'[c].q.op = "complete"
               PROVE  LET e == call'[c].q.exec IN
                      /\ outcome'[e] # None /\ outcome'[e].evidence = call'[c].q.evidence
                      /\ outcome'[e].status = call'[c].q.status
                      /\ execution'[e] # None /\ execution'[e].status = call'[c].q.status
    BY DEF CompletionsAreTrue
  <2> DEFINE q == call[c].q
  <2>1. ASSUME q.exec \in Execs, outcome[q.exec] # None, outcome[q.exec].evidence = q.evidence,
               outcome[q.exec].status = q.status, execution[q.exec] # None,
               execution[q.exec].status \in Terminal
        PROVE  /\ outcome'[q.exec] # None /\ outcome'[q.exec].evidence = q.evidence
               /\ outcome'[q.exec].status = q.status
               /\ execution'[q.exec] # None /\ execution'[q.exec].status = q.status
    <3>1. outcome'[q.exec] = outcome[q.exec]
      BY <1>1, <2>1, OutcomesLast DEF AuthInv
    <3>2. execution'[q.exec] # None /\ execution'[q.exec].status \in Terminal
      BY <1>1, <2>1, StoreFollows DEF IInv, StoreEvolves
    <3>3. outcome'[q.exec].status = execution'[q.exec].status
      BY <1>1, <2>1, <3>2 DEF AuthInv, FinishedAsRecorded
    <3> QED BY <2>1, <3>1, <3>2, <3>3
  <2>2. CASE call[c].pc = "done" /\ call'[c] = call[c]
    <3>1. q \in Requests[c] /\ q.op = "complete"
      BY <1>1, <2>2 DEF IInv, CallsInv, AsksAreRequests
    <3>2. q.exec \in Execs /\ q.status \in Terminal
      BY <3>1, RequestKinds DEF CompleteRequest
    <3> QED BY <1>1, <2>1, <2>2, <3>1, <3>2 DEF CompletionsAreTrue
  <2>3. CASE Proceed(c) \/ Abort(c)
    <3>1. call'[c].q = q
      BY <1>1, <2>3, Returning DEF IInv
    <3>2. q.op = "complete"
      BY <3>1
    <3>3. ~ReturnExecution(c) /\ ~GetEvent(c) /\ ~PutEvent(c)
      BY <1>1, <3>2, HeldTyped
         DEF IInv, ReturnExecution, GetEvent, PutEvent, HoldsWhatItNeeds, StartRequest, ObserveRequest
    <3>4. call[c].pc = "signals"
      BY <1>1, <2>3, <3>3, Returning DEF IInv, ReturnCompletion
    <3> QED BY <1>1, <2>1, <3>1, <3>4
            DEF AuthInv, OutcomesAreOwn, Recorded, EndedInv, CompletersHaveEnded, Admitting
  <2> QED BY <1>1, <2>2, <2>3, Returned DEF IInv
<1>2. Init => CompletionsAreTrue
  BY DEF Init, Idle, CompletionsAreTrue
<1>3. IInv /\ AuthInv /\ AuthInv' /\ EndedInv /\ CompletionsAreTrue /\ [Next]_vars
        => CompletionsAreTrue'
  BY <1>1
<1> QED BY <1>2, <1>3, Inductive, AuthInductive, EndedInductive, PTL DEF Spec

=============================================================================
