------------------------ MODULE OutboxWorker_proofs ------------------------
(***************************************************************************)
(* Proofs about OutboxWorker: type correctness, the bound on attempts, the *)
(* exclusion of claims, the completeness of DONE events, and that the      *)
(* workers implement an at-least-once queue, for any sets of events,       *)
(* workers and recipients, with and without crashes.                       *)
(***************************************************************************)
EXTENDS OutboxWorker, TLAPS

(* The events the scan finds are events. *)
LEMMA ScanTyped ==
  ASSUME TypeOK, NEW w \in Worker, Scan(w)
  PROVE  batch' \in [Worker -> SUBSET (Event \X Nat)]
<1>1. {<<e, attempts[e]>> : e \in Claimable} \in SUBSET (Event \X Nat)
  BY DEF TypeOK, Claimable
<1>2. QED
  BY <1>1 DEF Scan, TypeOK

LEMMA DocTyped ==
  ASSUME TypeOK, NEW w \in Worker, NEW doc \in batch[w]
  PROVE  doc[1] \in Event /\ doc[2] \in Nat
BY DEF TypeOK

(* The claim of a worker past claimEvent is an event. *)
LEMMA ClaimIsEvent ==
  ASSUME TypeOK, ClaimInv, NEW w \in Worker,
         pc[w] \in {"deliver", "notify", "failing"}
  PROVE  claimed[w] \in Event /\ status[claimed[w]] = "PROCESSING"
BY DEF TypeOK, ClaimInv

(* A step that is not one of the named ones changes nothing. *)
LEMMA NextCases ==
  ASSUME [Next]_vars
  PROVE  \/ \E e \in Event : Enqueue(e) \/ BecomeDue(e)
         \/ \E w \in Worker :
              \/ Scan(w) \/ EndBatch(w) \/ Deliver(w) \/ MarkSuccess(w)
              \/ MarkFailure(w) \/ HandlerError(w) \/ Abort(w)
              \/ \E doc \in batch[w] : Claim(w, doc) \/ Skip(w, doc)
              \/ \E r \in Recipient : Notify(w, r)
         \/ UNCHANGED vars
BY DEF Next, Progress

-----------------------------------------------------------------------------
(* Type correctness needs the claims: what a worker delivers or marks is an
   event only because the worker has claimed it. *)
LEMMA Typed ==
  ASSUME TypeOK, ClaimInv, [Next]_vars
  PROVE  TypeOK'
<1>1. ASSUME NEW e \in Event, Enqueue(e) \/ BecomeDue(e) PROVE TypeOK'
  BY <1>1 DEF Enqueue, BecomeDue, TypeOK
<1>2. ASSUME NEW w \in Worker, Scan(w) PROVE TypeOK'
  BY <1>2, ScanTyped DEF Scan, TypeOK
<1>3. ASSUME NEW w \in Worker, EndBatch(w) \/ HandlerError(w) \/ Abort(w)
      PROVE  TypeOK'
  BY <1>3 DEF EndBatch, HandlerError, Abort, TypeOK
<1>4. ASSUME NEW w \in Worker, Deliver(w) PROVE TypeOK'
  <2>1. claimed[w] \in Event
    BY <1>4, ClaimIsEvent DEF Deliver
  <2>2. RecipientsOf[claimed[w]] \in SUBSET Recipient
    BY <2>1, ConstantsAssumption
  <2> QED BY <1>4, <2>1, <2>2 DEF Deliver, TypeOK
<1>5. ASSUME NEW w \in Worker, MarkSuccess(w) PROVE TypeOK'
  BY <1>5 DEF MarkSuccess, Release, TypeOK
<1>6. ASSUME NEW w \in Worker, MarkFailure(w) PROVE TypeOK'
  BY <1>6 DEF MarkFailure, Release, TypeOK
<1>7. ASSUME NEW w \in Worker, NEW doc \in batch[w], Claim(w, doc)
      PROVE  TypeOK'
  BY <1>7, DocTyped DEF Claim, TypeOK
<1>8. ASSUME NEW w \in Worker, NEW doc \in batch[w], Skip(w, doc)
      PROVE  TypeOK'
  BY <1>8 DEF Skip, TypeOK
<1>9. ASSUME NEW w \in Worker, NEW r \in Recipient, Notify(w, r)
      PROVE  TypeOK'
  <2>1. claimed[w] \in Event
    BY <1>9, ClaimIsEvent DEF Notify
  <2> QED BY <1>9, <2>1 DEF Notify, TypeOK
<1>10. ASSUME UNCHANGED vars PROVE TypeOK'
  BY <1>10 DEF vars, TypeOK
<1> QED BY <1>1, <1>2, <1>3, <1>4, <1>5, <1>6, <1>7, <1>8, <1>9, <1>10, NextCases

-----------------------------------------------------------------------------
(* Claims are kept apart by the claim transaction. *)
ClaimsApart ==
  /\ \A w \in Worker :
       /\ pc[w] \in {"deliver", "notify", "failing"} <=> claimed[w] # NoEvent
       /\ claimed[w] # NoEvent => status[claimed[w]] = "PROCESSING"
  /\ OneHandlerPerEvent

LEMMA ClaimsStayApart ==
  ASSUME TypeOK, ClaimInv, [Next]_vars
  PROVE  ClaimsApart'
<1>0. ClaimsApart
  BY DEF ClaimInv, ClaimsApart
<1> USE DEF ClaimsApart, OneHandlerPerEvent
<1>1. ASSUME NEW e \in Event, Enqueue(e) PROVE ClaimsApart'
  BY <1>0, <1>1 DEF Enqueue, TypeOK
<1>2. ASSUME NEW e \in Event, BecomeDue(e) PROVE ClaimsApart'
  BY <1>0, <1>2 DEF BecomeDue, TypeOK
<1>3. ASSUME NEW w \in Worker, Scan(w) \/ EndBatch(w) \/ Deliver(w)
                               \/ HandlerError(w)
      PROVE  ClaimsApart'
  BY <1>0, <1>3 DEF Scan, EndBatch, Deliver, HandlerError, TypeOK
<1>4. ASSUME NEW w \in Worker, MarkSuccess(w) PROVE ClaimsApart'
  BY <1>0, <1>4, ConstantsAssumption DEF MarkSuccess, Release, TypeOK
<1>5. ASSUME NEW w \in Worker, MarkFailure(w) PROVE ClaimsApart'
  BY <1>0, <1>5, ConstantsAssumption DEF MarkFailure, Release, TypeOK
<1>6. ASSUME NEW w \in Worker, Abort(w) PROVE ClaimsApart'
  BY <1>0, <1>6, ConstantsAssumption DEF Abort, TypeOK
<1>7. ASSUME NEW w \in Worker, NEW doc \in batch[w], Claim(w, doc)
      PROVE  ClaimsApart'
  <2>1. doc[1] \in Event /\ doc[1] # NoEvent
    BY DocTyped, ConstantsAssumption
  <2>2. status[doc[1]] # "PROCESSING"
    BY <1>7 DEF Claim, Claimable
  <2>3. \A v \in Worker : claimed[v] # doc[1]
    BY <1>0, <2>1, <2>2
  <2> QED BY <1>0, <1>7, <2>1, <2>2, <2>3 DEF Claim, TypeOK
<1>8. ASSUME NEW w \in Worker, NEW doc \in batch[w], Skip(w, doc)
      PROVE  ClaimsApart'
  BY <1>0, <1>8 DEF Skip, TypeOK
<1>9. ASSUME NEW w \in Worker, NEW r \in Recipient, Notify(w, r)
      PROVE  ClaimsApart'
  BY <1>0, <1>9 DEF Notify, TypeOK
<1>10. ASSUME UNCHANGED vars PROVE ClaimsApart'
  BY <1>0, <1>10 DEF vars, TypeOK
<1> QED BY <1>1, <1>2, <1>3, <1>4, <1>5, <1>6, <1>7, <1>8, <1>9, <1>10, NextCases

(* What a handler has behind it is written, and stays written. *)
HandlerWrote ==
  \A w \in Worker :
    pc[w] = "notify" =>
      /\ claimed[w] \in delivered
      /\ \A r \in RecipientsOf[claimed[w]] \ todo[w] : <<claimed[w], r>> \in notified

LEMMA EffectsGrow ==
  ASSUME [Next]_vars
  PROVE  delivered \subseteq delivered' /\ notified \subseteq notified'
BY NextCases
DEF vars, Enqueue, BecomeDue, Scan, EndBatch, Deliver, MarkSuccess, MarkFailure,
    HandlerError, Abort, Claim, Skip, Notify

LEMMA HandlerWrites ==
  ASSUME TypeOK, HandlerWrote, [Next]_vars
  PROVE  HandlerWrote'
<1> USE DEF HandlerWrote, TypeOK
<1>0. delivered \subseteq delivered' /\ notified \subseteq notified'
  BY EffectsGrow
<1>1. ASSUME NEW e \in Event, Enqueue(e) \/ BecomeDue(e) PROVE HandlerWrote'
  BY <1>1 DEF Enqueue, BecomeDue
<1>2. ASSUME NEW w \in Worker, Scan(w) \/ EndBatch(w) \/ HandlerError(w) \/ Abort(w)
      PROVE  HandlerWrote'
  BY <1>2 DEF Scan, EndBatch, HandlerError, Abort
<1>3. ASSUME NEW w \in Worker, Deliver(w) PROVE HandlerWrote'
  BY <1>0, <1>3 DEF Deliver
<1>4. ASSUME NEW w \in Worker, MarkSuccess(w) \/ MarkFailure(w) PROVE HandlerWrote'
  BY <1>4 DEF MarkSuccess, MarkFailure, Release
<1>5. ASSUME NEW w \in Worker, NEW doc \in batch[w], Claim(w, doc) \/ Skip(w, doc)
      PROVE  HandlerWrote'
  BY <1>5 DEF Claim, Skip
<1>6. ASSUME NEW w \in Worker, NEW r \in Recipient, Notify(w, r)
      PROVE  HandlerWrote'
  BY <1>0, <1>6 DEF Notify
<1>7. ASSUME UNCHANGED vars PROVE HandlerWrote'
  BY <1>7 DEF vars
<1> QED BY <1>1, <1>2, <1>3, <1>4, <1>5, <1>6, <1>7, NextCases

(* An effect that is complete stays so. *)
LEMMA CompleteStable ==
  ASSUME [Next]_vars, NEW e, Complete(e)
  PROVE  Complete(e)'
BY EffectsGrow DEF Complete

(* Only markSuccess makes an event DONE, when its handler is through. *)
LEMMA DoneStaysComplete ==
  ASSUME TypeOK, ClaimInv, [Next]_vars
  PROVE  DoneIsComplete'
<1>1. SUFFICES ASSUME NEW e \in Event, status'[e] = "DONE" PROVE Complete(e)'
  BY DEF DoneIsComplete, Complete
<1>2. CASE status[e] = "DONE"
  BY <1>2, CompleteStable DEF ClaimInv, DoneIsComplete
<1>3. CASE status[e] # "DONE"
  <2>1. PICK w \in Worker : MarkSuccess(w) /\ claimed[w] = e
    BY <1>1, <1>3, NextCases, DocTyped
    DEF TypeOK, vars, Enqueue, BecomeDue, Scan, EndBatch, Deliver, MarkSuccess,
        MarkFailure, HandlerError, Abort, Claim, Skip, Notify
  <2>2. Complete(e)
    BY <2>1 DEF MarkSuccess, ClaimInv, Complete
  <2> QED BY <2>2, CompleteStable
<1> QED BY <1>2, <1>3

LEMMA ClaimInductive ==
  ASSUME TypeOK, ClaimInv, [Next]_vars
  PROVE  ClaimInv'
<1>1. HandlerWrote
  BY DEF ClaimInv, HandlerWrote
<1>2. ClaimsApart' /\ HandlerWrote' /\ DoneIsComplete'
  BY <1>1, ClaimsStayApart, HandlerWrites, DoneStaysComplete
<1> QED BY <1>2 DEF ClaimInv, ClaimsApart, HandlerWrote

(* The invariant that the other theorems rest on. *)
THEOREM ClaimCorrect == Spec => [](TypeOK /\ ClaimInv)
<1>1. Init => TypeOK /\ ClaimInv
  BY ConstantsAssumption
  DEF Init, TypeOK, ClaimInv, OneHandlerPerEvent, DoneIsComplete
<1>2. TypeOK /\ ClaimInv /\ [Next]_vars => (TypeOK /\ ClaimInv)'
  BY Typed, ClaimInductive
<1> QED BY <1>1, <1>2, PTL DEF Spec

(* An event marked DONE is delivered and everyone is notified. *)
THEOREM DoneCorrect == Spec => []DoneIsComplete
<1>1. ClaimInv => DoneIsComplete
  BY DEF ClaimInv
<1> QED BY <1>1, ClaimCorrect, PTL

(* No two workers handle the same event. *)
THEOREM ClaimsExclusive == Spec => []OneHandlerPerEvent
<1>1. ClaimInv => OneHandlerPerEvent
  BY DEF ClaimInv
<1> QED BY <1>1, ClaimCorrect, PTL

-----------------------------------------------------------------------------
(* The tries of an event are bounded by maxAttempts; a dead event has used
   them all. *)
LEMMA AttemptsInductive ==
  ASSUME TypeOK, ClaimInv, AttemptsBounded, [Next]_vars
  PROVE  AttemptsBounded'
<1> USE ConstantsAssumption DEF AttemptsBounded, TypeOK
<1>1. ASSUME NEW e \in Event, Enqueue(e) \/ BecomeDue(e) PROVE AttemptsBounded'
  <2>1. CASE BecomeDue(e)
    BY <2>1 DEF BecomeDue
  <2>2. CASE Enqueue(e)
    BY <2>2 DEF Enqueue
  <2> QED BY <1>1, <2>1, <2>2
<1>2. ASSUME NEW w \in Worker, Scan(w) \/ EndBatch(w) \/ Deliver(w)
                               \/ HandlerError(w) \/ Abort(w)
      PROVE  AttemptsBounded'
  BY <1>2 DEF Scan, EndBatch, Deliver, HandlerError, Abort
<1>3. ASSUME NEW w \in Worker, MarkSuccess(w) PROVE AttemptsBounded'
  BY <1>3 DEF MarkSuccess
<1>4. ASSUME NEW w \in Worker, MarkFailure(w) PROVE AttemptsBounded'
  BY <1>4, ClaimIsEvent DEF MarkFailure
<1>5. ASSUME NEW w \in Worker, NEW doc \in batch[w], Claim(w, doc)
      PROVE  AttemptsBounded'
  <2>1. attempts[doc[1]] < MaxAttempts /\ doc[1] \in Event
    BY <1>5, DocTyped DEF Claim, Claimable
  <2> QED BY <1>5, <2>1 DEF Claim
<1>6. ASSUME NEW w \in Worker, NEW doc \in batch[w], Skip(w, doc)
      PROVE  AttemptsBounded'
  BY <1>6 DEF Skip
<1>7. ASSUME NEW w \in Worker, NEW r \in Recipient, Notify(w, r)
      PROVE  AttemptsBounded'
  BY <1>7 DEF Notify
<1>8. ASSUME UNCHANGED vars PROVE AttemptsBounded'
  BY <1>8 DEF vars
<1> QED BY <1>1, <1>2, <1>3, <1>4, <1>5, <1>6, <1>7, <1>8, NextCases

(* No event is tried more than maxAttempts times, and no event is given up
   before. *)
THEOREM AttemptsCorrect == Spec => []AttemptsBounded
<1>1. Init => AttemptsBounded
  BY ConstantsAssumption DEF Init, AttemptsBounded
<1>2. TypeOK /\ ClaimInv /\ AttemptsBounded /\ [Next]_vars => AttemptsBounded'
  BY AttemptsInductive
<1> QED BY <1>1, <1>2, ClaimCorrect, PTL DEF Spec

-----------------------------------------------------------------------------
(* The refinement: each step of the workers is a step of AtLeastOnce!Next or
   leaves its two variables alone. *)
state == [e \in Event |-> Outcome(status[e])]
effects == {e \in Event : Complete(e)}

LEMMA OutcomeOf ==
  /\ Outcome("absent") = "none"
  /\ Outcome("DONE") = "done"
  /\ Outcome("DEAD") = "dead"
  /\ \A s \in {"PENDING", "PROCESSING", "FAILED"} : Outcome(s) = "open"
BY DEF Outcome

(* A status write is a write of the abstract state. *)
LEMMA StateWrite ==
  ASSUME TypeOK, NEW e \in Event, NEW s, NEW o, o = Outcome(s),
         status' = [status EXCEPT ![e] = s]
  PROVE  state' = [state EXCEPT ![e] = o]
BY DEF TypeOK, state

LEMMA EffectsKept ==
  ASSUME UNCHANGED <<delivered, notified>>
  PROVE  UNCHANGED effects
BY DEF effects, Complete

(* A write of a handler may complete the effect of its own event only, while
   that event is open. *)
LEMMA HandlerStep ==
  ASSUME TypeOK, ClaimInv, [Next]_vars, NEW e \in Event,
         status[e] = "PROCESSING", UNCHANGED status,
         delivered' \subseteq delivered \union {e},
         notified' \subseteq notified \union ({e} \X Recipient)
  PROVE  Abstract!TakeEffect(e) \/ UNCHANGED <<state, effects>>
<1>1. effects \subseteq effects'
  BY CompleteStable DEF effects
<1>2. effects' \subseteq effects \union {e}
  <2>1. ASSUME NEW d \in Event, d # e, Complete(d)' PROVE Complete(d)
    BY <2>1 DEF Complete
  <2> QED BY <2>1 DEF effects
<1>3. UNCHANGED state
  BY DEF state
<1>4. state[e] = "open"
  BY OutcomeOf DEF state
<1>5. effects' = effects \/ effects' = effects \union {e}
  BY <1>1, <1>2
<1> QED BY <1>3, <1>4, <1>5 DEF Abstract!TakeEffect, state, effects

LEMMA StepRefines ==
  ASSUME TypeOK, ClaimInv, [Next]_vars
  PROVE  Abstract!Next \/ UNCHANGED <<state, effects>>
<1>1. ASSUME NEW e \in Event, Enqueue(e) PROVE Abstract!Enqueue(e)
  <2>1. state[e] = "none"
    BY <1>1, OutcomeOf DEF Enqueue, state
  <2>2. state' = [state EXCEPT ![e] = "open"]
    <3>1. "open" = Outcome("PENDING")
      BY OutcomeOf
    <3>2. status' = [status EXCEPT ![e] = "PENDING"]
      BY <1>1 DEF Enqueue
    <3> QED BY <3>1, <3>2, StateWrite
  <2>3. UNCHANGED effects
    BY <1>1, EffectsKept DEF Enqueue
  <2> QED BY <2>1, <2>2, <2>3 DEF Abstract!Enqueue, state, effects
<1>2. ASSUME NEW w \in Worker, MarkSuccess(w) PROVE Abstract!Finish(claimed[w])
  <2>1. claimed[w] \in Event /\ status[claimed[w]] = "PROCESSING"
    BY <1>2, ClaimIsEvent DEF MarkSuccess
  <2>2. state[claimed[w]] = "open"
    BY <2>1, OutcomeOf DEF state
  <2>3. claimed[w] \in effects
    BY <1>2, <2>1 DEF MarkSuccess, ClaimInv, Complete, effects
  <2>4. state' = [state EXCEPT ![claimed[w]] = "done"]
    <3>1. "done" = Outcome("DONE")
      BY OutcomeOf
    <3>2. status' = [status EXCEPT ![claimed[w]] = "DONE"]
      BY <1>2 DEF MarkSuccess
    <3> QED BY <2>1, <3>1, <3>2, StateWrite
  <2>5. UNCHANGED effects
    BY <1>2, EffectsKept DEF MarkSuccess
  <2> QED BY <2>2, <2>3, <2>4, <2>5 DEF Abstract!Finish, state, effects
<1>3. ASSUME NEW w \in Worker, MarkFailure(w)
      PROVE  Abstract!GiveUp(claimed[w]) \/ UNCHANGED <<state, effects>>
  <2>1. claimed[w] \in Event /\ status[claimed[w]] = "PROCESSING"
    BY <1>3, ClaimIsEvent DEF MarkFailure
  <2>2. state[claimed[w]] = "open"
    BY <2>1, OutcomeOf DEF state
  <2>3. UNCHANGED effects
    BY <1>3, EffectsKept DEF MarkFailure
  <2>4. CASE status' = [status EXCEPT ![claimed[w]] = "DEAD"]
    <3>1. state' = [state EXCEPT ![claimed[w]] = "dead"]
      <4>1. "dead" = Outcome("DEAD")
        BY OutcomeOf
      <4> QED BY <2>1, <2>4, <4>1, StateWrite
    <3> QED BY <2>2, <2>3, <3>1 DEF Abstract!GiveUp, state, effects
  <2>5. CASE status' = [status EXCEPT ![claimed[w]] = "FAILED"]
    <3>1. state' = [state EXCEPT ![claimed[w]] = "open"]
      <4>1. "open" = Outcome("FAILED")
        BY OutcomeOf
      <4> QED BY <2>1, <2>5, <4>1, StateWrite
    <3>2. UNCHANGED state
      BY <2>2, <3>1 DEF state
    <3> QED BY <2>3, <3>2
  <2> QED BY <1>3, <2>4, <2>5 DEF MarkFailure
<1>4. ASSUME NEW w \in Worker, NEW doc \in batch[w], Claim(w, doc)
      PROVE  UNCHANGED <<state, effects>>
  <2>1. doc[1] \in Event /\ status[doc[1]] \in {"PENDING", "FAILED"}
    BY <1>4, DocTyped DEF Claim, Claimable
  <2>2. state' = [state EXCEPT ![doc[1]] = "open"]
    <3>1. "open" = Outcome("PROCESSING")
      BY OutcomeOf
    <3>2. status' = [status EXCEPT ![doc[1]] = "PROCESSING"]
      BY <1>4 DEF Claim
    <3> QED BY <2>1, <3>1, <3>2, StateWrite
  <2>3. state[doc[1]] = "open"
    BY <2>1, OutcomeOf DEF state
  <2>4. UNCHANGED state
    BY <2>2, <2>3 DEF state
  <2> QED BY <1>4, <2>4, EffectsKept DEF Claim
<1>5. ASSUME NEW w \in Worker, Deliver(w)
      PROVE  Abstract!TakeEffect(claimed[w]) \/ UNCHANGED <<state, effects>>
  <2>1. claimed[w] \in Event /\ status[claimed[w]] = "PROCESSING"
    BY <1>5, ClaimIsEvent DEF Deliver
  <2> QED BY <1>5, <2>1, HandlerStep DEF Deliver
<1>6. ASSUME NEW w \in Worker, NEW r \in Recipient, Notify(w, r)
      PROVE  Abstract!TakeEffect(claimed[w]) \/ UNCHANGED <<state, effects>>
  <2>1. claimed[w] \in Event /\ status[claimed[w]] = "PROCESSING"
    BY <1>6, ClaimIsEvent DEF Notify
  <2> QED BY <1>6, <2>1, HandlerStep DEF Notify
<1>7. ASSUME \/ \E e \in Event : BecomeDue(e)
             \/ \E w \in Worker : \/ Scan(w) \/ EndBatch(w) \/ HandlerError(w)
                                   \/ Abort(w)
                                   \/ \E doc \in batch[w] : Skip(w, doc)
             \/ UNCHANGED vars
      PROVE  UNCHANGED <<state, effects>>
  <2>1. UNCHANGED <<status, delivered, notified>>
    BY <1>7 DEF BecomeDue, Scan, EndBatch, HandlerError, Abort, Skip, vars
  <2> QED BY <2>1, EffectsKept DEF state
<1>8. \A w \in Worker : MarkSuccess(w) \/ MarkFailure(w) \/ Deliver(w)
                         \/ (\E r \in Recipient : Notify(w, r))
                         => claimed[w] \in Event
  BY ClaimIsEvent DEF MarkSuccess, MarkFailure, Deliver, Notify
<1> QED
  BY <1>1, <1>2, <1>3, <1>4, <1>5, <1>6, <1>7, <1>8, NextCases DEF Abstract!Next

(* The workers keep the promise of an at-least-once queue, even if they die
   at any point: no event is DONE before its effect is complete, effects only
   come about while it is open, and DONE and DEAD are final. *)
THEOREM OutboxRefines == Spec => ImplementsAtLeastOnce
<1>1. Init => Abstract!Init
  BY DEF Init, Abstract!Init, Outcome, Complete
<1>2. TypeOK /\ ClaimInv /\ [Next]_vars => [Abstract!Next]_(Abstract!vars)
  BY StepRefines DEF Abstract!vars, state, effects
<1> QED
  BY <1>1, <1>2, ClaimCorrect, PTL DEF Spec, ImplementsAtLeastOnce, Abstract!Spec

=============================================================================
