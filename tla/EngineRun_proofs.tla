-------------------------- MODULE EngineRun_proofs --------------------------
(***************************************************************************)
(* Proofs about EngineRun for all limits: the budgets bound every run, the *)
(* stored status is borne out by the stored steps, no step is lost, the    *)
(* last event tells what the store holds, and a cancelled run stops.       *)
(***************************************************************************)
EXTENDS EngineRun, SequenceTheorems, TLAPS

-----------------------------------------------------------------------------
(* The inductive invariant, in the order of the course of a run.           *)
Planning == {"start", "planning"}
Iterating == {"head", "acting", "executing", "observing", "verifying"}
Judging == {"recording", "remembering", "deciding"}
Over == {"ending", "announcing", "returned"}

(* The loop variable, the retries and the saved plans count the steps.     *)
LimitsPositive == maxSteps >= 1 /\ maxRetries >= 0

Counting ==
  /\ stored.plans = stepIndex
  /\ pc \in Planning => /\ stepIndex = Len(steps) /\ retries = Len(steps)
                        /\ stepIndex < maxSteps /\ retries <= maxRetries
  /\ pc \in Iterating => /\ stepIndex = Len(steps) + 1 /\ retries = Len(steps)
                         /\ stepIndex <= maxSteps /\ retries <= maxRetries
  /\ pc \in Judging => /\ stepIndex = Len(steps) /\ retries = Len(steps) - 1
                       /\ stepIndex <= maxSteps /\ retries <= maxRetries

(* Steps are numbered, and stored but for the last one.                    *)
StepsKept ==
  /\ \A i \in DOMAIN steps : steps[i].index = i
  /\ \/ stored.steps = steps
     \/ steps # <<>> /\ stored.steps = Front(steps)
  /\ pc \in Planning \cup Iterating \cup {"remembering", "deciding"} => stored.steps = steps
  /\ pc = "recording" => steps # <<>> /\ stored.steps = Front(steps)

(* Only the step that is being judged can be other than rejected.          *)
Judged ==
  /\ pc \in Planning \cup Iterating => AllRejected(steps)
  /\ pc \in Judging => /\ steps # <<>>
                       /\ AllRejected(Front(steps))
                       /\ Last(steps).verdict = "blocked" <=> action = "request_input"

(* The way the run has decided to end is the right one.                    *)
EndingJustified ==
  /\ pc \notin Over => ending.status = ""
  /\ pc \in {"ending", "announcing"} => ending.status # ""
  /\ ending.status \notin {"", "fatal_error"} => stored.steps = steps
  /\ ending.status = "success" => EndsIn(steps, "passed")
  /\ ending.status = "blocked_input" => EndsIn(steps, "blocked")
  /\ ending.status \in {"interrupted", "budget_exceeded", "verification_failed"} =>
       AllRejected(steps)
  /\ ending.status = "budget_exceeded" => Len(steps) = maxSteps
  /\ ending.status = "verification_failed" =>
       Len(steps) = maxRetries + 1 /\ Len(steps) < maxSteps

(* The store and the caller are told of that end and of no other.          *)
Told ==
  /\ pc = "start" => stored.status = ""
  /\ pc \in (Iterating \cup Judging \cup {"planning", "ending"}) => stored.status = "running"
  /\ pc = "announcing" => stored.status = ending.status
  /\ pc = "returned" =>
       \/ result.status = "" /\ result.err = "other" /\ stored.status \in {"", "running"}
       \/ result.status = ending.status /\ stored.status = ending.status /\ ending.status # ""

NoEnd(s) == \A i \in DOMAIN s : s[i].type \notin EndStatuses

Announced ==
  /\ pc # "returned" => NoEnd(events)
  /\ pc = "returned" =>
       IF result.status = "" THEN NoEnd(events)
       ELSE /\ events # <<>>
            /\ NoEnd(Front(events))
            /\ Last(events).type = result.status

(* A tool that runs after the cancellation is the last one.                *)
LastTool ==
  /\ lateTools \in {0, 1}
  /\ lateTools = 1 => cancelled /\ pc \notin {"acting", "executing"}

IInv == /\ TypeOK /\ LimitsPositive /\ Counting /\ StepsKept /\ Judged
        /\ EndingJustified /\ Told /\ Announced /\ LastTool

-----------------------------------------------------------------------------
(* Sequences, by their ends.                                               *)
LEMMA AppendFacts ==
  ASSUME NEW S, NEW s \in Seq(S), NEW e \in S
  PROVE  /\ Append(s, e) \in Seq(S) /\ Append(s, e) # <<>>
         /\ Len(Append(s, e)) = Len(s) + 1
         /\ DOMAIN Append(s, e) = 1 .. Len(s) + 1
         /\ \A i \in DOMAIN s : Append(s, e)[i] = s[i]
         /\ Append(s, e)[Len(s) + 1] = e
         /\ Front(Append(s, e)) = s /\ Last(Append(s, e)) = e
<1>1. /\ Append(s, e) \in Seq(S) /\ Append(s, e) # <<>>
      /\ Len(Append(s, e)) = Len(s) + 1
      /\ \A i \in 1 .. Len(s) : Append(s, e)[i] = s[i]
      /\ Append(s, e)[Len(s) + 1] = e
  BY AppendProperties
<1>2. DOMAIN Append(s, e) = 1 .. Len(s) + 1 /\ DOMAIN s = 1 .. Len(s) /\ Len(s) \in Nat
  BY <1>1, LenProperties
<1>3. Front(Append(s, e)) = s
  <2>1. /\ Front(Append(s, e)) \in Seq(S)
        /\ Len(Front(Append(s, e))) = Len(s)
        /\ \A i \in 1 .. Len(s) : Front(Append(s, e))[i] = s[i]
    <3>1. Front(Append(s, e)) = SubSeq(Append(s, e), 1, Len(s))
      BY <1>1, <1>2 DEF Front
    <3>2. \A i \in 1 .. Len(s) : Append(s, e)[i] \in S
      BY <1>1, <1>2, ElementOfSeq
    <3>3. /\ SubSeq(Append(s, e), 1, Len(s)) \in Seq(S)
          /\ Len(SubSeq(Append(s, e), 1, Len(s))) = IF 1 <= Len(s) THEN Len(s) - 1 + 1 ELSE 0
          /\ \A i \in 1 .. Len(s) - 1 + 1 :
               SubSeq(Append(s, e), 1, Len(s))[i] = Append(s, e)[1 + i - 1]
      BY <1>2, <3>2, SubSeqProperties
    <3>4. QED
      BY <1>1, <1>2, <3>1, <3>3
  <2>2. QED
    BY <2>1, SeqEqual
<1>4. QED
  BY <1>1, <1>2, <1>3 DEF Last

LEMMA FrontFacts ==
  ASSUME NEW S, NEW s \in Seq(S), s # <<>>
  PROVE  /\ Front(s) \in Seq(S) /\ Last(s) \in S
         /\ Append(Front(s), Last(s)) = s
         /\ Len(s) \in Nat \ {0} /\ Len(Front(s)) = Len(s) - 1
         /\ DOMAIN s = 1 .. Len(s) /\ DOMAIN Front(s) = 1 .. Len(s) - 1
         /\ \A i \in 1 .. Len(s) - 1 : Front(s)[i] = s[i]
<1>1. PICK t \in Seq(S), e \in S : s = Append(t, e)
  BY SequenceEmptyOrAppend
<1>2. /\ Front(s) = t /\ Last(s) = e /\ Len(s) = Len(t) + 1
      /\ \A i \in DOMAIN t : s[i] = t[i]
      /\ DOMAIN s = 1 .. Len(t) + 1
  BY <1>1, AppendFacts
<1>3. Len(t) \in Nat /\ DOMAIN t = 1 .. Len(t)
  BY LenProperties
<1>4. QED
  BY <1>1, <1>2, <1>3

(* Members of the enumerations, which need not be expanded otherwise.      *)
LEMMA Enums ==
  /\ "blocked_input" \in EndStatuses /\ "success" \in EndStatuses
  /\ "interrupted" \in EndStatuses /\ "verification_failed" \in EndStatuses
  /\ "budget_exceeded" \in EndStatuses /\ "fatal_error" \in EndStatuses
  /\ "" \notin EndStatuses /\ "running" \notin EndStatuses
  /\ "nil" \in Errors /\ "retryBudget" \in Errors /\ "canceled" \in Errors
  /\ "deadline" \in Errors /\ "other" \in Errors
  /\ "respond" \in ActionTypes
BY DEF EndStatuses, Errors, CallErrors, CtxErrors, Failures, ActionTypes

LEMMA FailuresAreErrors ==
  \A err \in Failures : err \in Errors /\ err # "nil" /\ err # "retryBudget"
BY DEF Failures, CallErrors, CtxErrors, Errors

(* What a run can end with and return.                                     *)
LEMMA EndTyped ==
  ASSUME NEW status \in EndStatuses, NEW err \in Errors, EndWith(status, err)
  PROVE  /\ ending' \in [status : EndStatuses \cup {""}, cause : Errors]
         /\ pc' = "ending" /\ ending'.status = status /\ ending'.status # ""
<1>1. [status |-> status, cause |-> err] \in [status : EndStatuses \cup {""}, cause : Errors]
  OBVIOUS
<1>2. QED
  BY <1>1, Enums DEF EndWith

LEMMA ReturnTyped ==
  ASSUME NEW status \in EndStatuses \cup {""}, NEW err \in Errors, Return(status, err)
  PROVE  /\ result' \in [status : EndStatuses \cup {""}, err : Errors]
         /\ pc' = "returned" /\ result'.status = status /\ result'.err = err
<1>1. [status |-> status, err |-> err] \in [status : EndStatuses \cup {""}, err : Errors]
  OBVIOUS
<1>2. QED
  BY <1>1 DEF Return

(* One event more.                                                         *)
LEMMA Emitted ==
  ASSUME TypeOK, NEW type \in {"tool_start", "tool_end", "step_complete"}, NEW n \in Int,
         events' = Append(events, Ev(type, n))
  PROVE  events' \in Seq(Event) /\ (NoEnd(events) => NoEnd(events'))
<1>1. Ev(type, n) \in Event /\ Ev(type, n).type \notin EndStatuses
  BY DEF Ev, Event, EventTypes, EndStatuses
<1>2. events \in Seq(Event) /\ DOMAIN events = 1 .. Len(events) /\ Len(events) \in Nat
  BY LenProperties DEF TypeOK
<1>3. /\ events' \in Seq(Event) /\ DOMAIN events' = 1 .. Len(events) + 1
      /\ \A i \in DOMAIN events : events'[i] = events[i]
      /\ events'[Len(events) + 1] = Ev(type, n)
  BY <1>1, <1>2, AppendFacts
<1>4. ASSUME NoEnd(events), NEW i \in DOMAIN events'
      PROVE  events'[i].type \notin EndStatuses
  <2>1. CASE i \in DOMAIN events
    BY <1>3, <1>4, <2>1 DEF NoEnd
  <2>2. CASE i = Len(events) + 1
    BY <1>1, <1>3, <2>2
  <2>3. QED
    BY <1>2, <1>3, <1>4, <2>1, <2>2
<1>5. QED
  BY <1>3, <1>4 DEF NoEnd

(* What arithmetic needs to know.                                           *)
LEMMA Numbers ==
  ASSUME TypeOK
  PROVE  /\ maxSteps \in Int /\ maxRetries \in Int
         /\ stepIndex \in Nat /\ retries \in Nat /\ lateTools \in Nat
         /\ stored.plans \in Nat
         /\ steps \in Seq(Step) /\ Len(steps) \in Nat
<1>1. /\ maxSteps \in Int /\ maxRetries \in Int
      /\ stepIndex \in Nat /\ retries \in Nat /\ lateTools \in Nat
      /\ stored.plans \in Nat /\ steps \in Seq(Step)
  BY DEF TypeOK
<1>2. QED
  BY <1>1

-----------------------------------------------------------------------------
(* The invariant holds at first, and every action keeps it.                *)
LEMMA InitIInv == Init => IInv
<1>1. SUFFICES ASSUME Init PROVE IInv
  OBVIOUS
<1>2. maxSteps \in Int /\ maxRetries \in Int /\ maxSteps >= 1 /\ maxRetries >= 0
  <2>1. \A b, n \in Int : AtLeast(b, n) \in Int /\ AtLeast(b, n) >= b
    BY DEF AtLeast
  <2>2. PICK n \in StepConfigs, k \in RetryConfigs :
          maxSteps = AtLeast(1, n) /\ maxRetries = AtLeast(0, k)
    BY <1>1 DEF Init
  <2>3. QED
    BY <2>1, <2>2, ConfigAssumption
<1>3. pc = "start" /\ stepIndex = 0 /\ retries = 0 /\ lateTools = 0
  BY <1>1 DEF Init
<1>4. /\ steps = <<>> /\ events = <<>>
      /\ stored = [status |-> "", steps |-> <<>>, plans |-> 0]
      /\ ending = [status |-> "", cause |-> "nil"]
      /\ result = [status |-> "", err |-> "nil"]
  BY <1>1 DEF Init
<1>5. <<>> \in Seq(Step) /\ <<>> \in Seq(Event) /\ Len(<<>>) = 0 /\ DOMAIN <<>> = {}
  BY EmptySeq
<1>6. TypeOK
  <2>1. /\ ending \in [status : EndStatuses \cup {""}, cause : Errors]
        /\ result \in [status : EndStatuses \cup {""}, err : Errors]
    <3>1. [status |-> "", cause |-> "nil"] \in [status : EndStatuses \cup {""}, cause : Errors]
      BY Enums
    <3>2. [status |-> "", err |-> "nil"] \in [status : EndStatuses \cup {""}, err : Errors]
      BY Enums
    <3>3. QED
      BY <1>4, <3>1, <3>2
  <2>2. stored \in [status : EndStatuses \cup {"", "running"}, steps : Seq(Step), plans : Nat]
    <3>1. [status |-> "", steps |-> <<>>, plans |-> 0]
            \in [status : EndStatuses \cup {"", "running"}, steps : Seq(Step), plans : Nat]
      BY <1>2, <1>5
    <3>2. QED
      BY <1>4, <3>1
  <2>3. /\ stepIndex \in Nat /\ stepIndex <= maxSteps /\ retries \in Nat
        /\ retries <= maxRetries + 1 /\ lateTools \in Nat
    BY <1>2, <1>3
  <2>4. steps \in Seq(Step) /\ events \in Seq(Event)
    BY <1>4, <1>5
  <2>5. action \in ActionTypes /\ cancelled \in BOOLEAN /\ expired \in BOOLEAN
    BY <1>1, Enums DEF Init
  <2>6. QED
    BY <1>2, <1>3, <2>1, <2>2, <2>3, <2>4, <2>5 DEF TypeOK
<1>7. LimitsPositive /\ LastTool
  BY <1>2, <1>3 DEF LimitsPositive, LastTool
<1>8. Counting
  <2>1. Len(steps) = 0 /\ stored.plans = 0
    BY <1>4, <1>5
  <2>2. QED
    BY <1>2, <1>3, <2>1 DEF Counting, Planning, Iterating, Judging
<1>9. StepsKept /\ Judged
  BY <1>3, <1>4, <1>5 DEF StepsKept, Judged, Planning, Iterating, Judging, AllRejected
<1>10. EndingJustified /\ Told /\ Announced
  BY <1>3, <1>4, <1>5 DEF EndingJustified, Told, Announced, Over, Iterating, Judging, NoEnd
<1>11. QED
  BY <1>6, <1>7, <1>8, <1>9, <1>10 DEF IInv

LEMMA SaveRunningKeeps ==
  ASSUME IInv, SaveRunning
  PROVE  IInv'
<1>1. \/ /\ pc' = "planning" /\ result' = result
         /\ stored'.status = "running"
         /\ stored'.plans = stored.plans
         /\ stored'.steps = stored.steps
         /\ stored' \in [status : EndStatuses \cup {"", "running"}, steps : Seq(Step), plans : Nat]
      \/ /\ pc' = "returned" /\ stored' = stored
         /\ result'.status = "" /\ result'.err = "other"
         /\ result' \in [status : EndStatuses \cup {""}, err : Errors]
  <2>1. stored \in [status : EndStatuses \cup {"", "running"}, steps : Seq(Step), plans : Nat]
    BY DEF IInv, TypeOK
  <2>2. QED
    BY <2>1, Enums, ReturnTyped DEF SaveRunning, Return
<1>2. pc = "start" /\ UNCHANGED <<limits, context, loop, ending, events, lateTools>>
  BY DEF SaveRunning
<1>3. TypeOK'
  BY <1>1, <1>2 DEF IInv, TypeOK, limits, context, loop
<1>4. LimitsPositive'
  BY <1>1, <1>2 DEF IInv, LimitsPositive, limits, context, loop
<1>5. Counting'
  BY <1>1, <1>2 DEF IInv, Counting, limits, context, loop, Planning, Iterating, Judging
<1>6. StepsKept'
  BY <1>1, <1>2 DEF IInv, StepsKept, limits, context, loop, Planning, Iterating
<1>7. Judged'
  BY <1>1, <1>2 DEF IInv, Judged, limits, context, loop, Planning, Iterating, Judging
<1>8. EndingJustified'
  BY <1>1, <1>2 DEF IInv, EndingJustified, limits, context, loop, Over
<1>9. Told'
  BY <1>1, <1>2 DEF IInv, Told, limits, context, loop, Iterating, Judging
<1>10. Announced'
  BY <1>1, <1>2 DEF IInv, Announced, limits, context, loop
<1>11. LastTool'
  BY <1>1, <1>2 DEF IInv, LastTool, limits, context, loop
<1>12. QED
  BY <1>3, <1>4, <1>5, <1>6, <1>7, <1>8, <1>9, <1>10, <1>11 DEF IInv

LEMMA PlanSavedKeeps ==
  ASSUME IInv, PlanSaved
  PROVE  IInv'
<1>1. /\ events' \in Seq(Event) /\ (NoEnd(events) => NoEnd(events'))
      /\ Len(steps) \in Nat
  <2>1. Len(steps) \in Nat /\ (IF stepIndex = 0 THEN 0 ELSE Len(steps) + 1) \in Int
    BY Numbers DEF IInv
  <2>2. QED
    BY <2>1, Emitted DEF IInv, PlanSaved
<1>2. /\ stored' \in [status : EndStatuses \cup {"", "running"}, steps : Seq(Step), plans : Nat]
      /\ stored'.plans = stored.plans + 1 /\ stored'.steps = stored.steps
      /\ stored'.status = stored.status
  <2>1. stored \in [status : EndStatuses \cup {"", "running"}, steps : Seq(Step), plans : Nat]
    BY DEF IInv, TypeOK
  <2>2. stored' = [stored EXCEPT !.plans = stored.plans + 1]
    BY DEF PlanSaved
  <2>3. stored.plans + 1 \in Nat
    BY Numbers DEF IInv
  <2>4. QED
    BY <2>1, <2>2, <2>3
<1>3. /\ pc = "planning" /\ pc' = "head" /\ stepIndex' = stepIndex + 1
      /\ UNCHANGED <<limits, context, retries, action, steps, ending, lateTools, result>>
  BY DEF PlanSaved
<1>4. stepIndex' \in Nat /\ stepIndex' <= maxSteps /\ stored'.plans = stepIndex'
  <2>1. stored.plans = stepIndex /\ stepIndex < maxSteps
    BY <1>3 DEF IInv, Counting, Planning
  <2>2. stepIndex \in Nat /\ maxSteps \in Int
    BY Numbers DEF IInv
  <2>3. stepIndex' = stepIndex + 1 /\ stored'.plans = stored.plans + 1
    BY <1>2, <1>3
  <2>4. QED
    BY <2>1, <2>2, <2>3
<1>5. TypeOK'
  BY <1>1, <1>2, <1>3, <1>4 DEF IInv, TypeOK, limits, context
<1>6. LimitsPositive'
  BY DEF PlanSaved, IInv, LimitsPositive, TypeOK, limits, context, loop
<1>7. Counting'
  BY <1>1, <1>3, <1>4 DEF IInv, Counting, Planning, Iterating, Judging, limits
<1>8. StepsKept'
  BY <1>2, <1>3 DEF IInv, StepsKept, Planning, Iterating
<1>9. Judged'
  BY <1>3 DEF IInv, Judged, Planning, Iterating, Judging
<1>10. EndingJustified'
  BY <1>2, <1>3 DEF IInv, EndingJustified, Over
<1>11. Told'
  BY <1>2, <1>3 DEF IInv, Told, Iterating, Judging
<1>12. Announced'
  BY <1>1, <1>3 DEF IInv, Announced
<1>13. LastTool'
  BY <1>3 DEF IInv, LastTool, context
<1>14. QED
  BY <1>5, <1>6, <1>7, <1>8, <1>9, <1>10, <1>11, <1>12, <1>13 DEF IInv

LEMMA IterateKeeps ==
  ASSUME IInv, Iterate
  PROVE  IInv'
<1>1. /\ pc = "head"
      /\ UNCHANGED <<limits, context, loop, stored, events, lateTools, result>>
      /\ \/ pc' = "acting" /\ ending' = ending /\ ~cancelled
         \/ /\ pc' = "ending" /\ ending'.status = "interrupted"
            /\ ending' \in [status : EndStatuses \cup {""}, cause : Errors]
  BY Enums, EndTyped DEF Iterate
<1>2. TypeOK'
  BY <1>1 DEF IInv, TypeOK, limits, context, loop
<1>3. LimitsPositive'
  BY <1>1 DEF IInv, LimitsPositive, limits, context, loop
<1>4. Counting'
  BY <1>1 DEF IInv, Counting, limits, context, loop, Planning, Iterating, Judging
<1>5. StepsKept'
  BY <1>1 DEF IInv, StepsKept, limits, context, loop, Planning, Iterating
<1>6. Judged'
  BY <1>1 DEF IInv, Judged, limits, context, loop, Planning, Iterating, Judging
<1>7. EndingJustified'
  BY <1>1
     DEF IInv, EndingJustified, limits, context, loop, Over, StepsKept, Judged, Planning, Iterating
<1>8. Told'
  BY <1>1 DEF IInv, Told, limits, context, loop, Iterating, Judging
<1>9. Announced'
  BY <1>1 DEF IInv, Announced, limits, context, loop
<1>10. LastTool'
  BY <1>1 DEF IInv, LastTool, limits, context, loop
<1>11. QED
  BY <1>2, <1>3, <1>4, <1>5, <1>6, <1>7, <1>8, <1>9, <1>10 DEF IInv

LEMMA ExecuteToolKeeps ==
  ASSUME IInv, ExecuteTool
  PROVE  IInv'
<1>1. events' \in Seq(Event) /\ (NoEnd(events) => NoEnd(events'))
  <2>1. Len(steps) + 1 \in Int
    BY Numbers DEF IInv
  <2>2. QED
    BY <2>1, Emitted DEF IInv, ExecuteTool
<1>2. /\ pc = "executing" /\ pc' = "observing"
      /\ UNCHANGED <<limits, context, loop, ending, stored, result>>
  BY DEF ExecuteTool
<1>3. lateTools' \in {0, 1} /\ (lateTools' = 1 => cancelled)
  BY DEF IInv, LastTool, ExecuteTool
<1>4. lateTools' \in Nat
  BY <1>3
<1>5. TypeOK'
  BY <1>1, <1>2, <1>4 DEF IInv, TypeOK, limits, context, loop
<1>6. LimitsPositive'
  BY <1>1, <1>2 DEF IInv, LimitsPositive, limits, context, loop
<1>7. Counting'
  BY <1>1, <1>2 DEF IInv, Counting, limits, context, loop, Planning, Iterating, Judging
<1>8. StepsKept'
  BY <1>1, <1>2 DEF IInv, StepsKept, limits, context, loop, Planning, Iterating
<1>9. Judged'
  BY <1>1, <1>2 DEF IInv, Judged, limits, context, loop, Planning, Iterating, Judging
<1>10. EndingJustified'
  BY <1>1, <1>2 DEF IInv, EndingJustified, limits, context, loop, Over
<1>11. Told'
  BY <1>1, <1>2 DEF IInv, Told, limits, context, loop, Iterating, Judging
<1>12. Announced'
  BY <1>1, <1>2 DEF IInv, Announced, limits, context, loop
<1>13. LastTool'
  BY <1>2, <1>3 DEF LastTool, context
<1>14. QED
  BY <1>5, <1>6, <1>7, <1>8, <1>9, <1>10, <1>11, <1>12, <1>13 DEF IInv

LEMMA ObserveKeeps ==
  ASSUME IInv, Observe
  PROVE  IInv'
<1>1. events' \in Seq(Event) /\ (NoEnd(events) => NoEnd(events'))
  <2>1. Len(steps) + 1 \in Int
    BY Numbers DEF IInv
  <2>2. QED
    BY <2>1, Emitted DEF IInv, Observe
<1>2. /\ pc = "observing" /\ pc' = "verifying"
      /\ UNCHANGED <<limits, context, loop, ending, stored, lateTools, result>>
  BY DEF Observe
<1>3. TypeOK'
  BY <1>1, <1>2 DEF IInv, TypeOK, limits, context, loop
<1>4. LimitsPositive'
  BY <1>1, <1>2 DEF IInv, LimitsPositive, limits, context, loop
<1>5. Counting'
  BY <1>1, <1>2 DEF IInv, Counting, limits, context, loop, Planning, Iterating, Judging
<1>6. StepsKept'
  BY <1>1, <1>2 DEF IInv, StepsKept, limits, context, loop, Planning, Iterating
<1>7. Judged'
  BY <1>1, <1>2 DEF IInv, Judged, limits, context, loop, Planning, Iterating, Judging
<1>8. EndingJustified'
  BY <1>1, <1>2 DEF IInv, EndingJustified, limits, context, loop, Over
<1>9. Told'
  BY <1>1, <1>2 DEF IInv, Told, limits, context, loop, Iterating, Judging
<1>10. Announced'
  BY <1>1, <1>2 DEF IInv, Announced, limits, context, loop
<1>11. LastTool'
  BY <1>1, <1>2 DEF IInv, LastTool, limits, context, loop
<1>12. QED
  BY <1>3, <1>4, <1>5, <1>6, <1>7, <1>8, <1>9, <1>10, <1>11 DEF IInv

LEMMA NextActionKeeps ==
  ASSUME IInv, NEW type \in ActionTypes, NextAction(type)
  PROVE  IInv'
<1>1. events' \in Seq(Event) /\ (NoEnd(events) => NoEnd(events'))
  <2>1. CASE type = "tool_call"
    <3>1. Len(steps) + 1 \in Int
      BY Numbers DEF IInv
    <3>2. QED
      BY <2>1, <3>1, Emitted DEF IInv, NextAction
  <2>2. CASE type # "tool_call"
    BY <2>2 DEF IInv, TypeOK, NextAction
  <2>3. QED
    BY <2>1, <2>2
<1>2. /\ pc = "acting" /\ pc' \in {"executing", "observing"} /\ action' \in ActionTypes
      /\ UNCHANGED <<limits, context, stepIndex, retries, steps, ending,
                     stored, lateTools, result>>
  BY DEF NextAction
<1>3. TypeOK'
  BY <1>1, <1>2 DEF IInv, TypeOK, limits, context, loop
<1>4. LimitsPositive'
  BY <1>1, <1>2 DEF IInv, LimitsPositive, limits, context, loop
<1>5. Counting'
  BY <1>1, <1>2 DEF IInv, Counting, limits, context, loop, Planning, Iterating, Judging
<1>6. StepsKept'
  BY <1>1, <1>2 DEF IInv, StepsKept, limits, context, loop, Planning, Iterating
<1>7. Judged'
  BY <1>1, <1>2 DEF IInv, Judged, limits, context, loop, Planning, Iterating, Judging
<1>8. EndingJustified'
  BY <1>1, <1>2 DEF IInv, EndingJustified, limits, context, loop, Over
<1>9. Told'
  BY <1>1, <1>2 DEF IInv, Told, limits, context, loop, Iterating, Judging
<1>10. Announced'
  BY <1>1, <1>2 DEF IInv, Announced, limits, context, loop
<1>11. LastTool'
  BY <1>1, <1>2 DEF IInv, LastTool, limits, context, loop
<1>12. QED
  BY <1>3, <1>4, <1>5, <1>6, <1>7, <1>8, <1>9, <1>10, <1>11 DEF IInv

LEMMA VerifyKeeps ==
  ASSUME IInv, NEW verdict \in Verdicts, Verify(verdict)
  PROVE  IInv'
<1>1. /\ steps' \in Seq(Step) /\ Len(steps) \in Nat
      /\ Len(steps') = Len(steps) + 1 /\ DOMAIN steps = 1 .. Len(steps)
      /\ DOMAIN steps' = 1 .. Len(steps) + 1 /\ steps' # <<>>
      /\ \A i \in DOMAIN steps : steps'[i] = steps[i]
      /\ steps'[Len(steps) + 1].index = stepIndex
      /\ Front(steps') = steps /\ Last(steps').verdict = verdict
  <2>1. [index |-> stepIndex, verdict |-> verdict] \in Step
    BY Numbers DEF IInv, Step
  <2>2. steps \in Seq(Step)
    BY DEF IInv, TypeOK
  <2>3. DOMAIN steps = 1 .. Len(steps) /\ Len(steps) \in Nat
    BY <2>2, LenProperties
  <2>4. QED
    BY <2>1, <2>2, <2>3, AppendFacts DEF Verify
<1>2. /\ pc = "verifying" /\ pc' = "recording"
      /\ ((action = "request_input") <=> (verdict = "blocked"))
      /\ UNCHANGED <<limits, context, stepIndex, retries, action, ending, stored,
                     events, lateTools, result>>
  BY DEF Verify
<1>3. TypeOK'
  BY <1>1, <1>2 DEF IInv, TypeOK, limits, context, loop
<1>4. LimitsPositive'
  BY <1>1, <1>2 DEF IInv, LimitsPositive, limits, context, loop
<1>5. Counting'
  <2>1. /\ stepIndex = Len(steps) + 1 /\ retries = Len(steps) /\ stored.plans = stepIndex
         /\ stepIndex <= maxSteps /\ retries <= maxRetries
    BY <1>2 DEF IInv, Counting, Planning, Iterating
  <2>2. Len(steps) + 1 - 1 = Len(steps)
    BY <1>1
  <2>3. QED
    BY <1>1, <1>2, <2>1, <2>2 DEF Counting, Planning, Iterating, Judging, limits
<1>6. StepsKept'
  <2>1. /\ stored.steps = steps /\ stepIndex = Len(steps) + 1
         /\ \A i \in DOMAIN steps : steps[i].index = i
    BY <1>2 DEF IInv, StepsKept, Counting, Planning, Iterating
  <2>2. \A i \in DOMAIN steps' : steps'[i].index = i
    BY <1>1, <2>1
  <2>3. QED
    BY <1>1, <1>2, <2>1, <2>2 DEF StepsKept, Planning, Iterating
<1>7. Judged'
  BY <1>1, <1>2 DEF IInv, Judged, Planning, Iterating, Judging
<1>8. EndingJustified'
  BY <1>2 DEF IInv, EndingJustified, Over
<1>9. Told'
  BY <1>1, <1>2 DEF IInv, Told, limits, context, loop, Iterating, Judging
<1>10. Announced'
  BY <1>1, <1>2 DEF IInv, Announced, limits, context, loop
<1>11. LastTool'
  BY <1>1, <1>2 DEF IInv, LastTool, limits, context, loop
<1>12. QED
  BY <1>3, <1>4, <1>5, <1>6, <1>7, <1>8, <1>9, <1>10, <1>11 DEF IInv

LEMMA AppendStepKeeps ==
  ASSUME IInv, AppendStep
  PROVE  IInv'
<1>1. stored'.steps = steps /\ stored'.plans = stored.plans /\ stored'.status = stored.status
      /\ stored' \in [status : EndStatuses \cup {"", "running"}, steps : Seq(Step), plans : Nat]
  <2>1. stored.steps = Front(steps) /\ steps # <<>> /\ steps \in Seq(Step)
    BY DEF IInv, StepsKept, TypeOK, AppendStep
  <2>2. stored \in [status : EndStatuses \cup {"", "running"}, steps : Seq(Step), plans : Nat]
    BY DEF IInv, TypeOK
  <2>3. Append(stored.steps, Last(steps)) = steps
    BY <2>1, FrontFacts
  <2>4. stored' = [stored EXCEPT !.steps = steps]
    BY <2>3 DEF AppendStep
  <2>5. QED
    BY <2>1, <2>2, <2>4
<1>2. /\ pc = "recording" /\ pc' = "remembering"
      /\ UNCHANGED <<limits, context, loop, ending, events, lateTools, result>>
  BY DEF AppendStep
<1>3. TypeOK'
  BY <1>1, <1>2 DEF IInv, TypeOK, limits, context, loop
<1>4. LimitsPositive'
  BY <1>1, <1>2 DEF IInv, LimitsPositive, limits, context, loop
<1>5. Counting'
  BY <1>1, <1>2 DEF IInv, Counting, limits, context, loop, Planning, Iterating, Judging
<1>6. StepsKept'
  BY <1>1, <1>2 DEF IInv, StepsKept, limits, context, loop, Planning, Iterating
<1>7. Judged'
  BY <1>1, <1>2 DEF IInv, Judged, limits, context, loop, Planning, Iterating, Judging
<1>8. EndingJustified'
  BY <1>1, <1>2 DEF IInv, EndingJustified, limits, context, loop, Over
<1>9. Told'
  BY <1>1, <1>2 DEF IInv, Told, limits, context, loop, Iterating, Judging
<1>10. Announced'
  BY <1>1, <1>2 DEF IInv, Announced, limits, context, loop
<1>11. LastTool'
  BY <1>1, <1>2 DEF IInv, LastTool, limits, context, loop
<1>12. QED
  BY <1>3, <1>4, <1>5, <1>6, <1>7, <1>8, <1>9, <1>10, <1>11 DEF IInv

LEMMA AppendStepFailsKeeps ==
  ASSUME IInv, AppendStepFails
  PROVE  IInv'
<1>1. /\ pc = "recording" /\ pc' = "ending" /\ ending'.status = "fatal_error"
      /\ ending' \in [status : EndStatuses \cup {""}, cause : Errors]
      /\ UNCHANGED <<limits, context, loop, stored, events, lateTools, result>>
  BY Enums, EndTyped DEF AppendStepFails, EndFatal
<1>2. TypeOK'
  BY <1>1 DEF IInv, TypeOK, limits, context, loop
<1>3. LimitsPositive'
  BY <1>1 DEF IInv, LimitsPositive, limits, context, loop
<1>4. Counting'
  BY <1>1 DEF IInv, Counting, limits, context, loop, Planning, Iterating, Judging
<1>5. StepsKept'
  BY <1>1 DEF IInv, StepsKept, limits, context, loop, Planning, Iterating
<1>6. Judged'
  BY <1>1 DEF IInv, Judged, limits, context, loop, Planning, Iterating, Judging
<1>7. EndingJustified'
  BY <1>1 DEF IInv, EndingJustified, limits, context, loop, Over
<1>8. Told'
  BY <1>1 DEF IInv, Told, limits, context, loop, Iterating, Judging
<1>9. Announced'
  BY <1>1 DEF IInv, Announced, limits, context, loop
<1>10. LastTool'
  BY <1>1 DEF IInv, LastTool, limits, context, loop
<1>11. QED
  BY <1>2, <1>3, <1>4, <1>5, <1>6, <1>7, <1>8, <1>9, <1>10 DEF IInv

LEMMA PlanFailsKeeps ==
  ASSUME IInv, NEW err \in Failures, PlanFails(err)
  PROVE  IInv'
<1>1. /\ pc = "planning" /\ pc' = "ending" /\ ending'.status = "fatal_error"
      /\ ending' \in [status : EndStatuses \cup {""}, cause : Errors]
      /\ UNCHANGED <<limits, context, loop, stored, events, lateTools, result>>
  BY Enums, FailuresAreErrors, EndTyped DEF PlanFails, EndFatal
<1>2. TypeOK'
  BY <1>1 DEF IInv, TypeOK, limits, context, loop
<1>3. LimitsPositive'
  BY <1>1 DEF IInv, LimitsPositive, limits, context, loop
<1>4. Counting'
  BY <1>1 DEF IInv, Counting, limits, context, loop, Planning, Iterating, Judging
<1>5. StepsKept'
  BY <1>1 DEF IInv, StepsKept, limits, context, loop, Planning, Iterating
<1>6. Judged'
  BY <1>1 DEF IInv, Judged, limits, context, loop, Planning, Iterating, Judging
<1>7. EndingJustified'
  BY <1>1 DEF IInv, EndingJustified, limits, context, loop, Over
<1>8. Told'
  BY <1>1 DEF IInv, Told, limits, context, loop, Iterating, Judging
<1>9. Announced'
  BY <1>1 DEF IInv, Announced, limits, context, loop
<1>10. LastTool'
  BY <1>1 DEF IInv, LastTool, limits, context, loop
<1>11. QED
  BY <1>2, <1>3, <1>4, <1>5, <1>6, <1>7, <1>8, <1>9, <1>10 DEF IInv

LEMMA RememberFailsKeeps ==
  ASSUME IInv, NEW err \in Failures, RememberFails(err)
  PROVE  IInv'
<1>1. /\ pc = "remembering" /\ pc' = "ending" /\ ending'.status = "fatal_error"
      /\ ending' \in [status : EndStatuses \cup {""}, cause : Errors]
      /\ UNCHANGED <<limits, context, loop, stored, events, lateTools, result>>
  BY Enums, FailuresAreErrors, EndTyped DEF RememberFails, EndFatal
<1>2. TypeOK'
  BY <1>1 DEF IInv, TypeOK, limits, context, loop
<1>3. LimitsPositive'
  BY <1>1 DEF IInv, LimitsPositive, limits, context, loop
<1>4. Counting'
  BY <1>1 DEF IInv, Counting, limits, context, loop, Planning, Iterating, Judging
<1>5. StepsKept'
  BY <1>1 DEF IInv, StepsKept, limits, context, loop, Planning, Iterating
<1>6. Judged'
  BY <1>1 DEF IInv, Judged, limits, context, loop, Planning, Iterating, Judging
<1>7. EndingJustified'
  BY <1>1 DEF IInv, EndingJustified, limits, context, loop, Over
<1>8. Told'
  BY <1>1 DEF IInv, Told, limits, context, loop, Iterating, Judging
<1>9. Announced'
  BY <1>1 DEF IInv, Announced, limits, context, loop
<1>10. LastTool'
  BY <1>1 DEF IInv, LastTool, limits, context, loop
<1>11. QED
  BY <1>2, <1>3, <1>4, <1>5, <1>6, <1>7, <1>8, <1>9, <1>10 DEF IInv

LEMMA IterationCallFailsKeeps ==
  ASSUME IInv, NEW err \in Failures, IterationCallFails(err)
  PROVE  IInv'
<1>1. /\ pc \in {"acting", "observing", "verifying"} /\ pc' = "ending"
      /\ ending'.status \in {"interrupted", "fatal_error"}
      /\ ending' \in [status : EndStatuses \cup {""}, cause : Errors]
      /\ UNCHANGED <<limits, context, loop, stored, events, lateTools, result>>
  <2>1. (IF err \in CtxErrors THEN "interrupted" ELSE "fatal_error") \in EndStatuses
    BY Enums
  <2>2. QED
    BY <2>1, FailuresAreErrors, EndTyped DEF IterationCallFails, IterationFails
<1>2. TypeOK'
  BY <1>1 DEF IInv, TypeOK, limits, context, loop
<1>3. LimitsPositive'
  BY <1>1 DEF IInv, LimitsPositive, limits, context, loop
<1>4. Counting'
  BY <1>1 DEF IInv, Counting, limits, context, loop, Planning, Iterating, Judging
<1>5. StepsKept'
  BY <1>1 DEF IInv, StepsKept, limits, context, loop, Planning, Iterating
<1>6. Judged'
  BY <1>1 DEF IInv, Judged, limits, context, loop, Planning, Iterating, Judging
<1>7. EndingJustified'
  BY <1>1
     DEF IInv, EndingJustified, limits, context, loop, Over, StepsKept, Judged, Planning, Iterating
<1>8. Told'
  BY <1>1 DEF IInv, Told, limits, context, loop, Iterating, Judging
<1>9. Announced'
  BY <1>1 DEF IInv, Announced, limits, context, loop
<1>10. LastTool'
  BY <1>1 DEF IInv, LastTool, limits, context, loop
<1>11. QED
  BY <1>2, <1>3, <1>4, <1>5, <1>6, <1>7, <1>8, <1>9, <1>10 DEF IInv

LEMMA RememberKeeps ==
  ASSUME IInv, Remember
  PROVE  IInv'
<1>1. /\ pc = "remembering" /\ pc' = "deciding"
      /\ UNCHANGED <<limits, context, loop, ending, stored, events, lateTools, result>>
  BY DEF Remember
<1>2. TypeOK'
  BY <1>1 DEF IInv, TypeOK, limits, context, loop
<1>3. LimitsPositive'
  BY <1>1 DEF IInv, LimitsPositive, limits, context, loop
<1>4. Counting'
  BY <1>1 DEF IInv, Counting, limits, context, loop, Planning, Iterating, Judging
<1>5. StepsKept'
  BY <1>1 DEF IInv, StepsKept, limits, context, loop, Planning, Iterating
<1>6. Judged'
  BY <1>1 DEF IInv, Judged, limits, context, loop, Planning, Iterating, Judging
<1>7. EndingJustified'
  BY <1>1 DEF IInv, EndingJustified, limits, context, loop, Over
<1>8. Told'
  BY <1>1 DEF IInv, Told, limits, context, loop, Iterating, Judging
<1>9. Announced'
  BY <1>1 DEF IInv, Announced, limits, context, loop
<1>10. LastTool'
  BY <1>1 DEF IInv, LastTool, limits, context, loop
<1>11. QED
  BY <1>2, <1>3, <1>4, <1>5, <1>6, <1>7, <1>8, <1>9, <1>10 DEF IInv

LEMMA CancelKeeps ==
  ASSUME IInv, Cancel
  PROVE  IInv'
<1>1. /\ cancelled' = TRUE
      /\ UNCHANGED <<pc, limits, expired, loop, ending, stored, events, lateTools, result>>
  BY DEF Cancel
<1>2. TypeOK'
  BY <1>1 DEF IInv, TypeOK, limits, context, loop
<1>3. LimitsPositive'
  BY <1>1 DEF IInv, LimitsPositive, limits, context, loop
<1>4. Counting'
  BY <1>1 DEF IInv, Counting, limits, context, loop, Planning, Iterating, Judging
<1>5. StepsKept'
  BY <1>1 DEF IInv, StepsKept, limits, context, loop, Planning, Iterating
<1>6. Judged'
  BY <1>1 DEF IInv, Judged, limits, context, loop, Planning, Iterating, Judging
<1>7. EndingJustified'
  BY <1>1 DEF IInv, EndingJustified, limits, context, loop, Over
<1>8. Told'
  BY <1>1 DEF IInv, Told, limits, context, loop, Iterating, Judging
<1>9. Announced'
  BY <1>1 DEF IInv, Announced, limits, context, loop
<1>10. LastTool'
  BY <1>1 DEF IInv, LastTool, limits, context, loop
<1>11. QED
  BY <1>2, <1>3, <1>4, <1>5, <1>6, <1>7, <1>8, <1>9, <1>10 DEF IInv

LEMMA ExpireKeeps ==
  ASSUME IInv, Expire
  PROVE  IInv'
<1>1. /\ expired' = TRUE
      /\ UNCHANGED <<pc, limits, cancelled, loop, ending, stored, events, lateTools, result>>
  BY DEF Expire
<1>2. TypeOK'
  BY <1>1 DEF IInv, TypeOK, limits, context, loop
<1>3. LimitsPositive'
  BY <1>1 DEF IInv, LimitsPositive, limits, context, loop
<1>4. Counting'
  BY <1>1 DEF IInv, Counting, limits, context, loop, Planning, Iterating, Judging
<1>5. StepsKept'
  BY <1>1 DEF IInv, StepsKept, limits, context, loop, Planning, Iterating
<1>6. Judged'
  BY <1>1 DEF IInv, Judged, limits, context, loop, Planning, Iterating, Judging
<1>7. EndingJustified'
  BY <1>1 DEF IInv, EndingJustified, limits, context, loop, Over
<1>8. Told'
  BY <1>1 DEF IInv, Told, limits, context, loop, Iterating, Judging
<1>9. Announced'
  BY <1>1 DEF IInv, Announced, limits, context, loop
<1>10. LastTool'
  BY <1>1 DEF IInv, LastTool, limits, context, loop
<1>11. QED
  BY <1>2, <1>3, <1>4, <1>5, <1>6, <1>7, <1>8, <1>9, <1>10 DEF IInv

LEMMA SaveEndingKeeps ==
  ASSUME IInv, SaveEnding
  PROVE  IInv'
<1>1. /\ stored' \in [status : EndStatuses \cup {"", "running"}, steps : Seq(Step), plans : Nat]
      /\ stored'.plans = stored.plans /\ stored'.steps = stored.steps
      /\ stored'.status = ending.status
  <2>1. stored \in [status : EndStatuses \cup {"", "running"}, steps : Seq(Step), plans : Nat]
    BY DEF IInv, TypeOK
  <2>2. ending.status \in EndStatuses \cup {"", "running"}
    BY DEF IInv, TypeOK
  <2>3. stored' = [stored EXCEPT !.status = ending.status]
    BY DEF SaveEnding
  <2>4. QED
    BY <2>1, <2>2, <2>3
<1>2. /\ pc = "ending" /\ pc' = "announcing"
      /\ UNCHANGED <<limits, context, loop, ending, events, lateTools, result>>
  BY DEF SaveEnding
<1>3. TypeOK'
  BY <1>1, <1>2 DEF IInv, TypeOK, limits, context, loop
<1>4. LimitsPositive'
  BY <1>1, <1>2 DEF IInv, LimitsPositive, limits, context, loop
<1>5. Counting'
  BY <1>1, <1>2 DEF IInv, Counting, limits, context, loop, Planning, Iterating, Judging
<1>6. StepsKept'
  BY <1>1, <1>2 DEF IInv, StepsKept, limits, context, loop, Planning, Iterating
<1>7. Judged'
  BY <1>1, <1>2 DEF IInv, Judged, limits, context, loop, Planning, Iterating, Judging
<1>8. EndingJustified'
  BY <1>1, <1>2 DEF IInv, EndingJustified, limits, context, loop, Over
<1>9. Told'
  BY <1>1, <1>2 DEF IInv, Told, limits, context, loop, Iterating, Judging
<1>10. Announced'
  BY <1>1, <1>2 DEF IInv, Announced, limits, context, loop
<1>11. LastTool'
  BY <1>1, <1>2 DEF IInv, LastTool, limits, context, loop
<1>12. QED
  BY <1>3, <1>4, <1>5, <1>6, <1>7, <1>8, <1>9, <1>10, <1>11 DEF IInv

LEMMA SaveEndingFailsKeeps ==
  ASSUME IInv, SaveEndingFails
  PROVE  IInv'
<1>1. /\ pc = "ending" /\ pc' = "returned" /\ result'.status = ""
      /\ result'.err = "other"
      /\ result' \in [status : EndStatuses \cup {""}, err : Errors]
      /\ UNCHANGED <<limits, context, loop, ending, stored, events, lateTools>>
  BY Enums, ReturnTyped DEF SaveEndingFails, Return
<1>2. TypeOK'
  BY <1>1 DEF IInv, TypeOK, limits, context, loop
<1>3. LimitsPositive'
  BY <1>1 DEF IInv, LimitsPositive, limits, context, loop
<1>4. Counting'
  BY <1>1 DEF IInv, Counting, limits, context, loop, Planning, Iterating, Judging
<1>5. StepsKept'
  BY <1>1 DEF IInv, StepsKept, limits, context, loop, Planning, Iterating
<1>6. Judged'
  BY <1>1 DEF IInv, Judged, limits, context, loop, Planning, Iterating, Judging
<1>7. EndingJustified'
  BY <1>1 DEF IInv, EndingJustified, limits, context, loop, Over
<1>8. Told'
  BY <1>1 DEF IInv, Told, limits, context, loop, Iterating, Judging
<1>9. Announced'
  BY <1>1 DEF IInv, Announced, limits, context, loop
<1>10. LastTool'
  BY <1>1 DEF IInv, LastTool, limits, context, loop
<1>11. QED
  BY <1>2, <1>3, <1>4, <1>5, <1>6, <1>7, <1>8, <1>9, <1>10 DEF IInv

LEMMA AnnounceKeeps ==
  ASSUME IInv, Announce
  PROVE  IInv'
<1>1. ending.status \in EndStatuses /\ ending.cause \in Errors
  BY DEF IInv, TypeOK, EndingJustified, Announce
<1>2. /\ events' \in Seq(Event) /\ events' # <<>> /\ NoEnd(Front(events'))
      /\ Last(events').type = ending.status
  <2>1. /\ Ev(ending.status, 0) \in Event /\ Ev(ending.status, 0).type = ending.status
        /\ Ev("error", Len(steps)) \in Event
        /\ Ev("error", Len(steps)).type \notin EndStatuses
    <3>1. Len(steps) \in Int
      BY Numbers DEF IInv
    <3>2. QED
      BY <1>1, <3>1 DEF Ev, Event, EventTypes, EndStatuses
  <2>2. events \in Seq(Event) /\ NoEnd(events)
    BY DEF IInv, TypeOK, Announced, Announce
  <2>3. PICK before \in Seq(Event) : events' = Append(before, Ev(ending.status, 0)) /\ NoEnd(before)
    <3>1. CASE ending.cause = "nil"
      <4>1. events \o <<>> = events
        BY <2>2, ConcatEmptySeq
      <4>2. events' = events \o <<Ev(ending.status, 0)>>
        BY <3>1, <4>1 DEF Announce, ErrorEvents
      <4>3. events' = Append(events, Ev(ending.status, 0))
        BY <2>1, <2>2, <4>2, AppendIsConcat
      <4>4. QED
        BY <2>2, <4>3
    <3>2. CASE ending.cause # "nil"
      <4> DEFINE before == Append(events, Ev("error", Len(steps)))
      <4>1. before \in Seq(Event) /\ before = events \o <<Ev("error", Len(steps))>>
        BY <2>1, <2>2, AppendFacts, AppendIsConcat
      <4>2. NoEnd(before)
        <5>1. /\ DOMAIN before = 1 .. Len(events) + 1 /\ DOMAIN events = 1 .. Len(events)
              /\ \A i \in DOMAIN events : before[i] = events[i]
              /\ before[Len(events) + 1] = Ev("error", Len(steps)) /\ Len(events) \in Nat
          BY <2>1, <2>2, AppendFacts, LenProperties
        <5>2. ASSUME NEW i \in DOMAIN before PROVE before[i].type \notin EndStatuses
          <6>1. CASE i \in DOMAIN events
            BY <2>2, <5>1, <6>1 DEF NoEnd
          <6>2. CASE i = Len(events) + 1
            BY <2>1, <5>1, <6>2
          <6>3. QED
            BY <5>1, <5>2, <6>1, <6>2
        <5>3. QED
          BY <5>2 DEF NoEnd
      <4>3. events' = before \o <<Ev(ending.status, 0)>>
        BY <3>2, <4>1 DEF Announce, ErrorEvents
      <4>4. events' = Append(before, Ev(ending.status, 0))
        BY <2>1, <4>1, <4>3, AppendIsConcat
      <4>5. QED
        BY <4>1, <4>2, <4>4
    <3>3. QED
      BY <3>1, <3>2
  <2>4. QED
    BY <2>1, <2>3, AppendFacts
<1>3. /\ pc = "announcing" /\ pc' = "returned" /\ result'.status = ending.status
      /\ result' \in [status : EndStatuses \cup {""}, err : Errors]
      /\ UNCHANGED <<limits, context, loop, ending, stored, lateTools>>
  BY <1>1, ReturnTyped DEF Announce
<1>4. ending.status # ""
  BY <1>1, Enums
<1>5. TypeOK'
  BY <1>2, <1>3, <1>4 DEF IInv, TypeOK, limits, context, loop
<1>6. LimitsPositive'
  BY <1>2, <1>3, <1>4 DEF IInv, LimitsPositive, limits, context, loop
<1>7. Counting'
  BY <1>2, <1>3, <1>4
     DEF IInv, Counting, limits, context, loop, Planning, Iterating, Judging
<1>8. StepsKept'
  BY <1>2, <1>3, <1>4 DEF IInv, StepsKept, limits, context, loop, Planning, Iterating
<1>9. Judged'
  BY <1>2, <1>3, <1>4 DEF IInv, Judged, limits, context, loop, Planning, Iterating, Judging
<1>10. EndingJustified'
  BY <1>2, <1>3, <1>4 DEF IInv, EndingJustified, limits, context, loop, Over
<1>11. Told'
  BY <1>2, <1>3, <1>4 DEF IInv, Told, limits, context, loop, Iterating, Judging
<1>12. Announced'
  BY <1>2, <1>3, <1>4 DEF IInv, Announced, limits, context, loop
<1>13. LastTool'
  BY <1>2, <1>3, <1>4 DEF IInv, LastTool, limits, context, loop
<1>14. QED
  BY <1>5, <1>6, <1>7, <1>8, <1>9, <1>10, <1>11, <1>12, <1>13 DEF IInv

LEMMA DecideKeeps ==
  ASSUME IInv, Decide
  PROVE  IInv'
<1>1. /\ steps \in Seq(Step) /\ steps # <<>> /\ Len(steps) \in Nat \ {0}
      /\ Last(steps) \in Step /\ stored.steps = steps /\ AllRejected(Front(steps))
      /\ Last(steps).verdict = "blocked" <=> action = "request_input"
  <2>1. /\ steps \in Seq(Step) /\ steps # <<>> /\ stored.steps = steps
        /\ AllRejected(Front(steps))
        /\ Last(steps).verdict = "blocked" <=> action = "request_input"
    BY DEF IInv, TypeOK, StepsKept, Judged, Judging, Decide
  <2>2. QED
    BY <2>1, FrontFacts
<1>2. ASSUME Last(steps).verdict # "passed", action # "request_input"
      PROVE  AllRejected(steps)
  <2>1. Last(steps).verdict = "rejected"
    BY <1>1, <1>2 DEF Step, Verdicts
  <2>2. /\ DOMAIN steps = 1 .. Len(steps) /\ DOMAIN Front(steps) = 1 .. Len(steps) - 1
        /\ \A i \in 1 .. Len(steps) - 1 : Front(steps)[i] = steps[i]
    BY <1>1, FrontFacts
  <2>3. ASSUME NEW i \in DOMAIN steps PROVE steps[i].verdict = "rejected"
    <3>1. CASE i = Len(steps)
      BY <2>1, <3>1 DEF Last
    <3>2. CASE i # Len(steps)
      BY <1>1, <2>2, <2>3, <3>2 DEF AllRejected
    <3>3. QED
      BY <3>1, <3>2
  <2>4. QED
    BY <2>3 DEF AllRejected
<1>3. /\ stepIndex = Len(steps) /\ retries = Len(steps) - 1 /\ stored.plans = stepIndex
      /\ stepIndex <= maxSteps /\ retries <= maxRetries
  BY DEF IInv, Counting, Judging, Decide
<1>4. /\ pc = "deciding"
      /\ UNCHANGED <<limits, context, stepIndex, action, steps, stored,
                     events, lateTools, result>>
  BY DEF Decide
<1>5. maxSteps \in Int /\ maxRetries \in Int /\ retries \in Nat
  BY Numbers DEF IInv
<1>6. \/ /\ pc' = "ending" /\ ending' \in [status : EndStatuses \cup {""}, cause : Errors]
         /\ retries' = retries
         /\ \/ ending'.status = "blocked_input" /\ EndsIn(steps, "blocked")
            \/ ending'.status = "success" /\ EndsIn(steps, "passed")
            \/ ending'.status = "budget_exceeded" /\ AllRejected(steps) /\ Len(steps) = maxSteps
      \/ /\ pc' = "ending" /\ ending' \in [status : EndStatuses \cup {""}, cause : Errors]
         /\ retries' = Len(steps) /\ retries' <= maxRetries + 1
         /\ ending'.status = "verification_failed" /\ AllRejected(steps)
         /\ Len(steps) = maxRetries + 1 /\ Len(steps) < maxSteps
      \/ /\ pc' = "planning" /\ ending' = ending /\ AllRejected(steps)
         /\ retries' = Len(steps) /\ retries' <= maxRetries /\ stepIndex < maxSteps
  <2>1. CASE /\ action = "request_input"
             /\ EndWith("blocked_input", "nil")
             /\ retries' = retries
    BY <1>1, <2>1, Enums, EndTyped DEF EndsIn
  <2>2. CASE /\ action # "request_input"
             /\ Last(steps).verdict = "passed"
             /\ EndWith("success", "nil")
             /\ retries' = retries
    BY <1>1, <2>2, Enums, EndTyped DEF EndsIn
  <2>3. CASE /\ Last(steps).verdict # "passed" /\ action # "request_input"
             /\ StepsUsedUp
             /\ EndWith("budget_exceeded", "nil")
             /\ retries' = retries
    BY <1>2, <1>3, <2>3, Enums, EndTyped DEF StepsUsedUp
  <2>4. CASE /\ Last(steps).verdict # "passed" /\ action # "request_input"
             /\ ~StepsUsedUp
             /\ retries' = retries + 1
             /\ IF RetriesUsedUp THEN EndWith("verification_failed", "retryBudget")
                ELSE pc' = "planning" /\ ending' = ending
    <3>1. retries' = Len(steps) /\ Len(steps) < maxSteps /\ stepIndex < maxSteps
      BY <1>1, <1>3, <1>5, <2>4 DEF StepsUsedUp
    <3>2. CASE RetriesUsedUp
      <4>1. Len(steps) = maxRetries + 1
        BY <1>1, <1>3, <1>5, <3>2 DEF RetriesUsedUp
      <4>2. retries' <= maxRetries + 1
        BY <1>5, <3>1, <4>1
      <4>3. EndWith("verification_failed", "retryBudget")
        BY <2>4, <3>2
      <4>4. QED
        BY <1>2, <2>4, <3>1, <4>1, <4>2, <4>3, Enums, EndTyped
    <3>3. CASE ~RetriesUsedUp
      <4>1. retries' <= maxRetries
        BY <1>1, <1>3, <1>5, <3>1, <3>3 DEF RetriesUsedUp
      <4>2. QED
        BY <1>2, <2>4, <3>1, <3>3, <4>1
    <3>4. QED
      BY <3>2, <3>3
  <2>5. QED
    BY <2>1, <2>2, <2>3, <2>4 DEF Decide
<1>7. retries' \in Nat /\ retries' <= maxRetries + 1
  <2>1. retries' = retries \/ (retries' = Len(steps) /\ retries' <= maxRetries + 1)
             \/ (retries' = Len(steps) /\ retries' <= maxRetries)
    BY <1>6
  <2>2. Len(steps) \in Nat
    BY <1>1
  <2>3. QED
    BY <1>3, <1>5, <2>1, <2>2
<1>8. /\ pc' \in {"ending", "planning"}
      /\ ending' \in [status : EndStatuses \cup {""}, cause : Errors]
  BY <1>6 DEF IInv, TypeOK
<1>9. TypeOK'
  BY <1>4, <1>7, <1>8 DEF IInv, TypeOK, limits, context
<1>10. LimitsPositive'
  BY <1>4 DEF IInv, LimitsPositive, limits, context, loop
<1>11. Counting'
  BY <1>3, <1>4, <1>6 DEF Counting, limits, Planning, Iterating, Judging
<1>12. StepsKept'
  BY <1>1, <1>4, <1>8 DEF IInv, StepsKept, Planning, Iterating
<1>13. Judged'
  BY <1>4, <1>6 DEF IInv, Judged, Planning, Iterating, Judging
<1>14. EndingJustified'
  BY <1>1, <1>4, <1>6 DEF IInv, EndingJustified, Over, limits
<1>15. Told'
  BY <1>4, <1>8 DEF IInv, Told, Iterating, Judging
<1>16. Announced'
  BY <1>4, <1>8 DEF IInv, Announced
<1>17. LastTool'
  BY <1>4, <1>8 DEF IInv, LastTool, context
<1>18. QED
  BY <1>9, <1>10, <1>11, <1>12, <1>13, <1>14, <1>15, <1>16, <1>17 DEF IInv

LEMMA StutterKeeps ==
  ASSUME IInv, UNCHANGED vars
  PROVE  IInv'
<1>1. UNCHANGED <<pc, limits, context, loop, ending, stored, events, lateTools, result>>
  BY DEF vars
<1>2. TypeOK'
  BY <1>1 DEF IInv, TypeOK, limits, context, loop
<1>3. LimitsPositive'
  BY <1>1 DEF IInv, LimitsPositive, limits, context, loop
<1>4. Counting'
  BY <1>1 DEF IInv, Counting, limits, context, loop, Planning, Iterating, Judging
<1>5. StepsKept'
  BY <1>1 DEF IInv, StepsKept, limits, context, loop, Planning, Iterating
<1>6. Judged'
  BY <1>1 DEF IInv, Judged, limits, context, loop, Planning, Iterating, Judging
<1>7. EndingJustified'
  BY <1>1 DEF IInv, EndingJustified, limits, context, loop, Over
<1>8. Told'
  BY <1>1 DEF IInv, Told, limits, context, loop, Iterating, Judging
<1>9. Announced'
  BY <1>1 DEF IInv, Announced, limits, context, loop
<1>10. LastTool'
  BY <1>1 DEF IInv, LastTool, limits, context, loop
<1>11. QED
  BY <1>2, <1>3, <1>4, <1>5, <1>6, <1>7, <1>8, <1>9, <1>10 DEF IInv

(* One case per action.                                                    *)
LEMMA NextKeeps == IInv /\ [Next]_vars => IInv'
<1>1. SUFFICES ASSUME IInv, [Next]_vars PROVE IInv'
  OBVIOUS
<1>2. CASE SaveRunning
  BY <1>1, <1>2, SaveRunningKeeps
<1>3. CASE PlanSaved
  BY <1>1, <1>3, PlanSavedKeeps
<1>4. CASE Iterate
  BY <1>1, <1>4, IterateKeeps
<1>5. CASE ExecuteTool
  BY <1>1, <1>5, ExecuteToolKeeps
<1>6. CASE Observe
  BY <1>1, <1>6, ObserveKeeps
<1>7. CASE \E type \in ActionTypes : NextAction(type)
  BY <1>1, <1>7, NextActionKeeps
<1>8. CASE \E verdict \in Verdicts : Verify(verdict)
  BY <1>1, <1>8, VerifyKeeps
<1>9. CASE AppendStep \/ AppendStepFails
  BY <1>1, <1>9, AppendStepKeeps, AppendStepFailsKeeps
<1>10. CASE Remember \/ Decide
  BY <1>1, <1>10, RememberKeeps, DecideKeeps
<1>11. CASE \E err \in Failures : PlanFails(err) \/ IterationCallFails(err) \/ RememberFails(err)
  BY <1>1, <1>11, PlanFailsKeeps, IterationCallFailsKeeps, RememberFailsKeeps
<1>12. CASE SaveEnding \/ SaveEndingFails
  BY <1>1, <1>12, SaveEndingKeeps, SaveEndingFailsKeeps
<1>13. CASE Announce
  BY <1>1, <1>13, AnnounceKeeps
<1>14. CASE Cancel \/ Expire
  BY <1>1, <1>14, CancelKeeps, ExpireKeeps
<1>15. CASE UNCHANGED vars
  BY <1>1, <1>15, StutterKeeps
<1>16. QED
  BY <1>1, <1>2, <1>3, <1>4, <1>5, <1>6, <1>7, <1>8, <1>9, <1>10, <1>11, <1>12, <1>13,
     <1>14, <1>15 DEF Next, Run

LEMMA Invariance == Spec => []IInv
<1>1. Init => IInv
  BY InitIInv
<1>2. IInv /\ [Next]_vars => IInv'
  BY NextKeeps
<1>3. QED
  BY <1>1, <1>2, PTL DEF Spec

-----------------------------------------------------------------------------
(* Whatever MaxSteps and MaxRetries are set to, Run never iterates more    *)
(* than the normalised MaxSteps, and counts at most one retry more than    *)
(* MaxRetries, the one that ends it.                                       *)
THEOREM TypeCorrect == Spec => []TypeOK
<1>1. IInv => TypeOK
  BY DEF IInv
<1>2. QED
  BY <1>1, Invariance, PTL

(* Run never stores a status that the stored steps do not bear out:        *)
(* success only over a last step that passed, a budget only over that many *)
(* rejected steps, at every limit.                                         *)
THEOREM EndsAreJustified == Spec => []EndIsJustified
<1>1. IInv => EndIsJustified
  <2>1. SUFFICES ASSUME IInv, stored.status \notin {"", "running"} PROVE EndIsJustified
    BY DEF EndIsJustified
  <2>2. stored.status = ending.status
    BY <2>1 DEF IInv, TypeOK, Told, Planning, Iterating, Judging, Over
  <2>3. stored.status # "fatal_error" => stored.steps = steps
    BY <2>1, <2>2 DEF IInv, EndingJustified
  <2>4. QED
    BY <2>1, <2>2, <2>3 DEF IInv, EndingJustified, EndIsJustified
<1>2. QED
  BY <1>1, Invariance, PTL

(* recordStep loses no step and stores none twice: what is stored is the   *)
(* run without at most its last step, and a run that ends other than by a  *)
(* fatal error has stored them all.                                        *)
THEOREM NoStepIsLost == Spec => []StoreKeepsTheRun
<1>1. IInv => StoreKeepsTheRun
  <2>1. SUFFICES ASSUME IInv PROVE StoreKeepsTheRun
    OBVIOUS
  <2>2. steps \in Seq(Step) /\ \A i \in DOMAIN steps : steps[i].index = i
    BY <2>1 DEF IInv, TypeOK, StepsKept
  <2>3. /\ \A i \in DOMAIN stored.steps : stored.steps[i].index = i
        /\ IsPrefix(stored.steps, steps)
        /\ Len(steps) <= Len(stored.steps) + 1
    <3>1. CASE stored.steps = steps
      <4>1. DOMAIN steps = 1 .. Len(steps) /\ Len(steps) \in Nat
        BY <2>2, LenProperties
      <4>2. IsPrefix(steps, steps)
        BY <4>1 DEF IsPrefix
      <4>3. QED
        BY <2>2, <3>1, <4>1, <4>2
    <3>2. CASE steps # <<>> /\ stored.steps = Front(steps)
      <4>1. /\ Front(steps) \in Seq(Step) /\ Len(steps) \in Nat \ {0}
            /\ Len(Front(steps)) = Len(steps) - 1
            /\ DOMAIN steps = 1 .. Len(steps) /\ DOMAIN Front(steps) = 1 .. Len(steps) - 1
            /\ \A i \in 1 .. Len(steps) - 1 : Front(steps)[i] = steps[i]
        BY <2>2, <3>2, FrontFacts
      <4>2. \A i \in DOMAIN Front(steps) : i \in DOMAIN steps /\ Front(steps)[i] = steps[i]
        BY <4>1
      <4>3. IsPrefix(Front(steps), steps)
        BY <4>1, <4>2 DEF IsPrefix
      <4>4. QED
        BY <2>2, <3>2, <4>1, <4>2, <4>3
    <3>3. QED
      BY <2>1, <3>1, <3>2 DEF IInv, StepsKept
  <2>4. stored.status \notin {"", "running", "fatal_error"} => stored.steps = steps
    <3>1. stored.status \notin {"", "running"} => stored.status = ending.status
      BY <2>1 DEF IInv, TypeOK, Told, Planning, Iterating, Judging, Over
    <3>2. QED
      BY <2>1, <3>1 DEF IInv, EndingJustified
  <2>5. pc \in {"planning", "head", "acting", "deciding"} => stored.steps = steps
    BY <2>1 DEF IInv, StepsKept, Planning, Iterating
  <2>6. QED
    BY <2>3, <2>4, <2>5 DEF StoreKeepsTheRun
<1>2. QED
  BY <1>1, Invariance, PTL

(* session_complete is emitted once, last, after its status was stored,    *)
(* and Run returns that status; without it Run returns no session and the  *)
(* store holds no end.                                                     *)
THEOREM LastWordIsTrue == Spec => []CompleteTellsTheTruth
<1>1. IInv => CompleteTellsTheTruth
  <2>1. SUFFICES ASSUME IInv PROVE CompleteTellsTheTruth
    OBVIOUS
  <2>2. events \in Seq(Event)
    BY <2>1 DEF IInv, TypeOK
  <2>3. CASE pc # "returned"
    BY <2>1, <2>3 DEF IInv, Announced, NoEnd, CompleteTellsTheTruth
  <2>4. CASE pc = "returned" /\ result.status = ""
    <3>1. NoEnd(events)
      BY <2>1, <2>4 DEF IInv, Announced
    <3>2. result.err = "other" /\ stored.status \in {"", "running"}
      BY <2>1, <2>4 DEF IInv, Told
    <3>3. QED
      BY <2>4, <3>1, <3>2 DEF NoEnd, CompleteTellsTheTruth
  <2>5. CASE pc = "returned" /\ result.status # ""
    <3>1. events # <<>> /\ NoEnd(Front(events)) /\ Last(events).type = result.status
      BY <2>1, <2>5 DEF IInv, Announced
    <3>2. result.status = stored.status /\ result.status \in EndStatuses
      <4>1. result \in [status : EndStatuses \cup {""}, err : Errors]
        BY <2>1 DEF IInv, TypeOK
      <4>2. result.status \in EndStatuses
        BY <2>5, <4>1
      <4>3. result.status = stored.status
        BY <2>1, <2>5 DEF IInv, Told
      <4>4. QED
        BY <4>2, <4>3
    <3>3. /\ Len(events) \in Nat \ {0} /\ DOMAIN events = 1 .. Len(events)
          /\ DOMAIN Front(events) = 1 .. Len(events) - 1
          /\ \A i \in 1 .. Len(events) - 1 : Front(events)[i] = events[i]
      BY <2>2, <3>1, FrontFacts
    <3>4. \A i \in DOMAIN events : events[i].type \in EndStatuses => i = Len(events)
      BY <3>1, <3>3 DEF NoEnd
    <3>5. events[Len(events)].type = result.status
      BY <3>1 DEF Last
    <3>6. QED
      BY <2>5, <3>1, <3>2, <3>4, <3>5 DEF CompleteTellsTheTruth
  <2>6. QED
    BY <2>3, <2>4, <2>5
<1>2. QED
  BY <1>1, Invariance, PTL

(* After the caller cancels, at most one more tool is executed: the one    *)
(* the iteration under way had decided on.                                 *)
THEOREM CancelStopsTheWork == Spec => []CancelStopsTools
<1>1. IInv => CancelStopsTools
  BY DEF IInv, LastTool, CancelStopsTools
<1>2. QED
  BY <1>1, Invariance, PTL
=============================================================================
