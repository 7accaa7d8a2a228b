----------------------- MODULE MutatingRequest_proofs -----------------------
(* Proofs about MutatingRequest, for every set of calls, keys and requests,
   every retry limit and every combination of faults. *)
EXTENDS MutatingRequest, TLAPS

(* An attempt names a call and the number of one of its tries. *)
LEMMA AttemptFacts ==
  /\ \A c \in Call : \A t \in 0 .. Retries[c] : <<c, t>> \in Attempt
  /\ \A a \in Attempt : /\ a[1] \in Call
                        /\ a[2] \in 0 .. Retries[a[1]]
                        /\ a = <<a[1], a[2]>>
                        /\ key(a) \in Key
                        /\ request(a) \in Request
<1>1. \A c \in Call : \A t \in 0 .. Retries[c] : <<c, t>> \in Attempt
  BY DEF Attempt
<1>2. ASSUME NEW a \in Attempt
      PROVE  a[1] \in Call /\ a[2] \in 0 .. Retries[a[1]] /\ a = <<a[1], a[2]>>
  <2>1. PICK c \in Call : a \in {c} \X (0 .. Retries[c])
    BY DEF Attempt
  <2> QED BY <2>1
<1>3. ASSUME NEW a \in Attempt
      PROVE  key(a) \in Key /\ request(a) \in Request
  BY <1>2, ConstantsAssumption DEF key, request
<1> QED BY <1>1, <1>2, <1>3

(* The current try of a waiting call is one of its attempts. *)
TryOK == \A c \in Call : call[c].try \in 0 .. Retries[c]

LEMMA CurrentIsAttempt ==
  ASSUME TypeOK, TryOK, NEW c \in Call
  PROVE  current(c) \in Attempt
BY AttemptFacts DEF TryOK, current

(* The retry loop stays within its tries. *)
LEMMA RetryTyped ==
  ASSUME call \in [Call -> CallLoop], TryOK,
         NEW c \in Call, NEW ended, RetryOrThrow(c, ended)
  PROVE  call' \in [Call -> CallLoop] /\ TryOK'
<1>0. Retries[c] \in Nat /\ call[c].try \in Nat
  BY ConstantsAssumption DEF CallLoop
<1>1. CASE call[c].try < Retries[c]
  <2>1. call' = [call EXCEPT ![c].try = @ + 1]
    BY <1>1 DEF RetryOrThrow
  <2>2. call' \in [Call -> CallLoop]
    BY <2>1, <1>0 DEF CallLoop
  <2>3. call[c].try + 1 \in 0 .. Retries[c]
    BY <1>0, <1>1
  <2> QED BY <2>1, <2>2, <2>3 DEF TryOK, CallLoop
<1>2. CASE ~(call[c].try < Retries[c])
  <2>1. call' = [call EXCEPT ![c].state = "failed"]
    BY <1>2 DEF RetryOrThrow
  <2> QED BY <2>1 DEF CallLoop, TryOK
<1> QED BY <1>1, <1>2

(* Type correctness: the variables keep their shape. *)
THEOREM TypeCorrect == Spec => [](TypeOK /\ TryOK)
<1>1. Init => TypeOK /\ TryOK
  BY ConstantsAssumption
  DEF Init, TypeOK, TryOK, CallLoop, KeyDoc, Phase, Code, AbsentKey, NoAttempt
<1>2. TypeOK /\ TryOK /\ [Next]_vars => (TypeOK /\ TryOK)'
  <2> SUFFICES ASSUME TypeOK, TryOK, [Next]_vars
               PROVE  (TypeOK /\ TryOK)'
    OBVIOUS
  <2>0. \A a \in Attempt : key(a) \in Key /\ request(a) \in Request
    BY AttemptFacts
  <2>1. ASSUME NEW c \in Call, Send(c) PROVE (TypeOK /\ TryOK)'
    <3>1. call' \in [Call -> CallLoop] /\ TryOK'
      BY <2>1 DEF Send, TypeOK, TryOK, CallLoop
    <3>2. phase' \in [Attempt -> Phase]
      BY <2>1 DEF Send, TypeOK, Phase
    <3> QED BY <2>1, <3>1, <3>2 DEF Send, TypeOK
  <2>2. ASSUME NEW c \in Call, TimeOut(c) PROVE (TypeOK /\ TryOK)'
    <3>1. call' \in [Call -> CallLoop] /\ TryOK'
      BY <2>2, RetryTyped DEF TimeOut, TypeOK
    <3>2. phase' \in [Attempt -> Phase]
      BY <2>2, CurrentIsAttempt DEF TimeOut, RetryOrThrow, TypeOK, Phase
    <3> QED BY <2>2, <3>1, <3>2 DEF TimeOut, TypeOK
  <2>3. ASSUME NEW c \in Call, Receive(c) PROVE (TypeOK /\ TryOK)'
    <3>0. current(c) \in Attempt
      BY CurrentIsAttempt
    <3>1. call' \in [Call -> CallLoop] /\ TryOK'
      <4>1. CASE RetryOrThrow(c, "done")
        BY <4>1, RetryTyped DEF TypeOK
      <4>2. answer[current(c)] \in Attempt \union {NoAttempt}
        BY <3>0 DEF TypeOK
      <4>3. CASE call' = [call EXCEPT ![c] = [@ EXCEPT !.state = "ok",
                                          !.answer = answer[current(c)]]]
        BY <4>2, <4>3 DEF TypeOK, TryOK, CallLoop
      <4>4. CASE call' = [call EXCEPT ![c].state = "failed"]
        BY <4>4 DEF TypeOK, TryOK, CallLoop
      <4> QED BY <2>3, <4>1, <4>3, <4>4 DEF Receive
    <3>2. phase' \in [Attempt -> Phase]
      BY <2>3, <3>0 DEF Receive, RetryOrThrow, TypeOK, Phase
    <3>3. code' \in [Attempt -> Code]
          /\ answer' \in [Attempt -> Attempt \union {NoAttempt}]
      BY <2>3 DEF Receive, Forget, TypeOK, Code
    <3> QED BY <2>3, <3>1, <3>2, <3>3 DEF Receive, TypeOK
  <2>4. ASSUME NEW a \in Attempt, ServerStep(a) PROVE (TypeOK /\ TryOK)'
    <3> USE <2>0 DEF TypeOK, TryOK, Phase, Code, Executing
    <3>1. CASE BeginStart(a)
      <4>1. idem' \in [Key -> KeyDoc]
        BY <3>1 DEF BeginStart, KeyDoc
      <4> QED BY <3>1, <4>1 DEF BeginStart
    <3>2. CASE BeginReplay(a)
      <4>1. idem[key(a)].response \in Attempt \union {NoAttempt}
        BY DEF KeyDoc
      <4> QED BY <3>2, <4>1 DEF BeginReplay, ReplyWith
    <3>3. CASE BeginConflict(a) BY <3>3 DEF BeginConflict, ReplyWith
    <3>4. CASE BeginInProgress(a) BY <3>4 DEF BeginInProgress, ReplyWith
    <3>5. CASE CommitVersioned(a) BY <3>5 DEF CommitVersioned
    <3>6. CASE CommitMerge(a) BY <3>6 DEF CommitMerge
    <3>7. CASE CommitAppend(a) BY <3>7 DEF CommitAppend
    <3>8. CASE RejectWrite(a) BY <3>8 DEF RejectWrite, FailWith
    <3>9. CASE Audit(a) BY <3>9 DEF Audit
    <3>10. CASE Complete(a)
      <4>1. idem' \in [Key -> KeyDoc]
        BY <3>10 DEF Complete, KeyDoc
      <4> QED BY <3>10, <4>1 DEF Complete, ReplyWith
    <3>11. CASE Fail(a)
      <4>1. idem' \in [Key -> KeyDoc]
        BY <3>11 DEF Fail, KeyDoc
      <4> QED BY <3>11, <4>1 DEF Fail
    <3> QED BY <2>4, <3>1, <3>2, <3>3, <3>4, <3>5, <3>6, <3>7, <3>8, <3>9,
               <3>10, <3>11 DEF ServerStep
  <2>5. ASSUME NEW a \in Attempt, FaultStep(a) \/ Discard(a)
        PROVE  (TypeOK /\ TryOK)'
    BY <2>5 DEF FaultStep, Discard, BeginError, StepError, FailError, Crash,
                ReplyWith, FailWith, Forget, TypeOK, TryOK, Phase, Code, Executing
  <2>6. ASSUME NEW k \in Key, Expire(k) PROVE (TypeOK /\ TryOK)'
    BY <2>6 DEF Expire, TypeOK, TryOK, KeyDoc
  <2>7. CASE CleanupScan
    BY <2>7 DEF CleanupScan, TypeOK, TryOK
  <2>8. CASE CleanupDelete
    BY <2>8 DEF CleanupDelete, AbsentKey, TypeOK, TryOK, KeyDoc, NoAttempt
  <2>9. CASE UNCHANGED vars
    BY <2>9 DEF vars, TypeOK, TryOK
  <2> QED BY <2>1, <2>2, <2>3, <2>4, <2>5, <2>6, <2>7, <2>8, <2>9
          DEF Next, ClientStep
<1> QED BY <1>1, <1>2, PTL DEF Spec

-----------------------------------------------------------------------------
(* A committed and audited write stays so. *)
LEMMA WrittenStable ==
  ASSUME TypeOK, [Next]_vars, NEW a, NEW k, NEW r, Written(a, k, r)
  PROVE  Written(a, k, r)'
<1>1. effect' = effect \/ \E b \in Attempt : \E v \in Nat :
        v > 0 /\ effect' = [effect EXCEPT ![b] = v]
  <2>1. version + 1 \in Nat /\ version + 1 > 0
    BY DEF TypeOK
  <2>2. ASSUME NEW b \in Attempt, ServerStep(b)
        PROVE  effect' = effect \/ \E v \in Nat :
                 v > 0 /\ effect' = [effect EXCEPT ![b] = v]
    BY <2>1, <2>2 DEF ServerStep, BeginStart, BeginReplay, BeginConflict,
       BeginInProgress, CommitVersioned, CommitMerge, CommitAppend, RejectWrite,
       Audit, Complete, Fail
  <2>3. ASSUME NEW b \in Attempt, FaultStep(b) \/ Discard(b)
        PROVE  effect' = effect
    BY <2>3 DEF FaultStep, BeginError, StepError, FailError, Crash, Discard
  <2>4. ASSUME NEW c \in Call, ClientStep(c) PROVE effect' = effect
    BY <2>4 DEF ClientStep, Send, TimeOut, Receive
  <2>5. ASSUME NEW q \in Key, Expire(q) PROVE effect' = effect
    BY <2>5 DEF Expire
  <2> QED BY <2>2, <2>3, <2>4, <2>5 DEF Next, CleanupScan, CleanupDelete, vars
<1>2. audited \subseteq audited'
  <2>2. ASSUME NEW b \in Attempt, ServerStep(b) PROVE audited \subseteq audited'
    BY <2>2 DEF ServerStep, BeginStart, BeginReplay, BeginConflict,
       BeginInProgress, CommitVersioned, CommitMerge, CommitAppend, RejectWrite,
       Audit, Complete, Fail
  <2>3. ASSUME NEW b \in Attempt, FaultStep(b) \/ Discard(b)
        PROVE  audited' = audited
    BY <2>3 DEF FaultStep, BeginError, StepError, FailError, Crash, Discard
  <2>4. ASSUME NEW c \in Call, ClientStep(c) PROVE audited' = audited
    BY <2>4 DEF ClientStep, Send, TimeOut, Receive
  <2>5. ASSUME NEW q \in Key, Expire(q) PROVE audited' = audited
    BY <2>5 DEF Expire
  <2> QED BY <2>2, <2>3, <2>4, <2>5 DEF Next, CleanupScan, CleanupDelete, vars
<1>3. effect'[a] > 0
  BY <1>1 DEF Written, TypeOK
<1> QED BY <1>2, <1>3 DEF Written, key, request

-----------------------------------------------------------------------------
(* Success is truthful.  The invariant follows the promise of a 2xx from the
   attempt that commits and audits, through the stored response and the answer
   on its way, to the caller. *)
THEOREM TruthCorrect == Spec => []TruthfulSuccess
<1>1. Init => TruthInv
  BY DEF Init, TruthInv, TruthfulSuccess, AbsentKey
<1>2. TypeOK /\ TryOK /\ TruthInv /\ [Next]_vars => TruthInv'
  <2> SUFFICES ASSUME TypeOK, TryOK, TruthInv, [Next]_vars PROVE TruthInv'
    OBVIOUS
  <2> DEFINE AttemptsOK ==
        \A a \in Attempt :
          /\ phase[a] \in {"audit", "complete"} => effect[a] > 0
          /\ phase[a] = "complete" => a \in audited
          /\ code[a] = "ok" => Written(answer[a], key(a), request(a))
      KeysOK ==
        \A k \in Key : idem[k].status = "completed" =>
                       Written(idem[k].response, k, idem[k].request)
  <2>0. /\ AttemptsOK /\ KeysOK /\ TruthfulSuccess
        /\ TruthInv' <=> AttemptsOK' /\ KeysOK' /\ TruthfulSuccess'
    BY DEF TruthInv
  <2>a. \A a, k, r : Written(a, k, r) => Written(a, k, r)'
    BY WrittenStable
  <2>b. \A a \in Attempt : key(a) \in Key
    BY AttemptFacts
  <2> HIDE DEF AttemptsOK, KeysOK
  <2>c. idem' = idem => KeysOK'
    BY <2>0, <2>a DEF KeysOK
  <2>d. call' = call => TruthfulSuccess'
    BY <2>0, <2>a DEF TruthfulSuccess
  <2>e. UNCHANGED <<phase, code, answer, effect, audited>> => AttemptsOK'
    BY <2>0, <2>a DEF AttemptsOK, key, request
  <2>1. ASSUME NEW c \in Call, Send(c) PROVE TruthInv'
    <3>1. AttemptsOK'
      BY <2>0, <2>1, <2>a DEF AttemptsOK, Send, TypeOK, key, request
    <3>2. TruthfulSuccess'
      BY <2>0, <2>1, <2>a DEF TruthfulSuccess, Send, TypeOK, CallLoop
    <3> QED BY <2>0, <2>1, <2>c, <3>1, <3>2 DEF Send
  <2>2. ASSUME NEW c \in Call, TimeOut(c) PROVE TruthInv'
    <3>1. AttemptsOK'
      BY <2>0, <2>2, <2>a
      DEF AttemptsOK, TimeOut, RetryOrThrow, TypeOK, key, request
    <3>2. TruthfulSuccess'
      BY <2>0, <2>2, <2>a
      DEF TruthfulSuccess, TimeOut, RetryOrThrow, TypeOK, CallLoop
    <3> QED BY <2>0, <2>2, <2>c, <3>1, <3>2 DEF TimeOut
  <2>3. ASSUME NEW c \in Call, Receive(c) PROVE TruthInv'
    <3>0. /\ current(c) \in Attempt
          /\ key(current(c)) = KeyOf[c] /\ request(current(c)) = RequestOf[c]
      BY CurrentIsAttempt DEF current, key, request
    <3>1. AttemptsOK'
      BY <2>0, <2>3, <2>a, <3>0
      DEF AttemptsOK, Receive, RetryOrThrow, Forget, TypeOK, key, request
    <3>2. TruthfulSuccess'
      <4>1. CASE call[c].state = "waiting" /\ code[current(c)] = "ok"
        <5>1. call' = [call EXCEPT ![c] = [@ EXCEPT !.state = "ok",
                                       !.answer = answer[current(c)]]]
          BY <2>3, <4>1 DEF Receive
        <5>2. PICK w : w = answer[current(c)]
          OBVIOUS
        <5>2a. Written(w, KeyOf[c], RequestOf[c])'
          BY <2>0, <2>a, <3>0, <4>1, <5>2 DEF AttemptsOK
        <5>3. call'[c].answer = w
          BY <5>1, <5>2 DEF TypeOK, CallLoop
        <5>4. \A d \in Call \ {c} : call'[d] = call[d]
          BY <5>1 DEF TypeOK
        <5> QED BY <2>0, <2>a, <5>2a, <5>3, <5>4 DEF TruthfulSuccess
      <4>2. CASE code[current(c)] # "ok"
        <5>1. call'[c].state # "ok" /\ \A d \in Call \ {c} : call'[d] = call[d]
          BY <2>3, <4>2 DEF Receive, RetryOrThrow, TypeOK, CallLoop
        <5> QED BY <2>0, <2>a, <5>1 DEF TruthfulSuccess
      <4> QED BY <2>3, <4>1, <4>2 DEF Receive
    <3> QED BY <2>0, <2>3, <2>c, <3>1, <3>2 DEF Receive
  <2>4. ASSUME NEW a \in Attempt, ServerStep(a) PROVE TruthInv'
    <3> USE <2>a, <2>b
    <3>0. AttemptsOK /\ KeysOK /\ TypeOK
      BY <2>0
    <3>1. CASE BeginStart(a)
      <4>1. AttemptsOK'
        BY <3>0, <3>1 DEF BeginStart, AttemptsOK, TypeOK, key, request
      <4>2. \A k \in Key : idem'[k].status = "completed" => idem'[k] = idem[k]
        BY <3>1 DEF BeginStart, TypeOK, KeyDoc
      <4> QED BY <2>0, <2>d, <3>0, <3>1, <4>1, <4>2 DEF BeginStart, KeysOK
    <3>2. CASE BeginReplay(a)
      <4>1. Written(idem[key(a)].response, key(a), request(a))
        BY <3>0, <3>2 DEF BeginReplay, KeysOK
      <4>2. AttemptsOK'
        BY <3>0, <3>2, <4>1
        DEF BeginReplay, ReplyWith, AttemptsOK, TypeOK, key, request
      <4> QED BY <2>0, <2>c, <2>d, <3>2, <4>2 DEF BeginReplay
    <3>3. CASE BeginConflict(a) \/ BeginInProgress(a)
      <4>1. AttemptsOK'
        BY <3>0, <3>3 DEF BeginConflict, BeginInProgress, ReplyWith, AttemptsOK,
           TypeOK, key, request
      <4> QED BY <2>0, <2>c, <2>d, <3>3, <4>1 DEF BeginConflict, BeginInProgress
    <3>4. CASE CommitVersioned(a) \/ CommitMerge(a) \/ CommitAppend(a)
      <4>1. AttemptsOK'
        BY <3>0, <3>4 DEF CommitVersioned, CommitMerge, CommitAppend, AttemptsOK,
           TypeOK, key, request
      <4> QED BY <2>0, <2>c, <2>d, <3>4, <4>1
              DEF CommitVersioned, CommitMerge, CommitAppend
    <3>5. CASE RejectWrite(a)
      <4>1. AttemptsOK'
        BY <3>0, <3>5 DEF RejectWrite, FailWith, AttemptsOK, TypeOK, key, request
      <4> QED BY <2>0, <2>c, <2>d, <3>5, <4>1 DEF RejectWrite
    <3>6. CASE Audit(a)
      <4>1. AttemptsOK'
        BY <3>0, <3>6 DEF Audit, AttemptsOK, TypeOK, key, request
      <4> QED BY <2>0, <2>c, <2>d, <3>6, <4>1 DEF Audit
    <3>7. CASE Complete(a)
      <4>1. Written(a, key(a), request(a))'
        BY <3>0, <3>7 DEF Complete, AttemptsOK, Written, key, request
      <4>2. AttemptsOK'
        BY <3>0, <3>7, <4>1 DEF Complete, ReplyWith, AttemptsOK, TypeOK, key, request
      <4>3. /\ idem'[key(a)].response = a
            /\ idem'[key(a)].request = request(a)
            /\ \A k \in Key \ {key(a)} : idem'[k] = idem[k]
        BY <3>7 DEF Complete, TypeOK, KeyDoc
      <4>4. KeysOK'
        BY <3>0, <4>1, <4>3 DEF KeysOK
      <4> QED BY <2>0, <2>d, <3>7, <4>2, <4>4 DEF Complete
    <3>8. CASE Fail(a)
      <4>1. AttemptsOK'
        BY <3>0, <3>8 DEF Fail, AttemptsOK, TypeOK, key, request
      <4>2. \A k \in Key : idem'[k].status = "completed" => idem'[k] = idem[k]
        BY <3>8 DEF Fail, TypeOK, KeyDoc
      <4> QED BY <2>0, <2>d, <3>0, <3>8, <4>1, <4>2 DEF Fail, KeysOK
    <3> QED BY <2>4, <3>1, <3>2, <3>3, <3>4, <3>5, <3>6, <3>7, <3>8
            DEF ServerStep
  <2>5. ASSUME NEW a \in Attempt, FaultStep(a) \/ Discard(a) PROVE TruthInv'
    <3>1. AttemptsOK'
      BY <2>0, <2>5, <2>a DEF FaultStep, Discard, BeginError, StepError, FailError,
         Crash, ReplyWith, FailWith, Forget, AttemptsOK, TypeOK, key, request
    <3> QED BY <2>0, <2>5, <2>c, <2>d, <3>1
            DEF FaultStep, Discard, BeginError, StepError, FailError, Crash
  <2>6. ASSUME NEW q \in Key, Expire(q) PROVE TruthInv'
    <3>1. \A k \in Key : /\ idem'[k].status = idem[k].status
                         /\ idem'[k].request = idem[k].request
                         /\ idem'[k].response = idem[k].response
      BY <2>6 DEF Expire, TypeOK, KeyDoc
    <3>2. KeysOK'
      BY <2>0, <2>a, <3>1 DEF KeysOK
    <3> QED BY <2>0, <2>6, <2>d, <2>e, <3>2 DEF Expire
  <2>7. CASE CleanupScan
    BY <2>0, <2>7, <2>c, <2>d, <2>e DEF CleanupScan
  <2>8. CASE CleanupDelete
    <3>1. \A k \in Key : idem'[k].status = "completed" => idem'[k] = idem[k]
      BY <2>8 DEF CleanupDelete, AbsentKey
    <3>2. KeysOK'
      BY <2>0, <2>a, <3>1 DEF KeysOK
    <3> QED BY <2>0, <2>8, <2>d, <2>e, <3>2 DEF CleanupDelete
  <2>9. CASE UNCHANGED vars
    BY <2>0, <2>9, <2>c, <2>d, <2>e DEF vars
  <2> QED BY <2>1, <2>2, <2>3, <2>4, <2>5, <2>6, <2>7, <2>8, <2>9
          DEF Next, ClientStep
<1>3. TruthInv => TruthfulSuccess
  BY DEF TruthInv
<1> QED BY <1>1, <1>2, <1>3, TypeCorrect, PTL DEF Spec

-----------------------------------------------------------------------------
(* Optimistic locking.  Each attempt commits at most once, and each commit
   takes a version above every version written before. *)

(* The effect of an attempt is set by its own commit alone. *)
LEMMA CommitStep ==
  ASSUME TypeOK, VersionInv, NEW a \in Attempt,
         CommitVersioned(a) \/ CommitMerge(a) \/ CommitAppend(a)
  PROVE  VersionInv'
<1>0. /\ effect[a] = 0 /\ version \in Nat /\ request(a) \in Request
      /\ Base[request(a)] \in Nat
  BY AttemptFacts, ConstantsAssumption
  DEF VersionInv, TypeOK, CommitVersioned, CommitMerge, CommitAppend
<1>1. CASE CommitVersioned(a) \/ CommitMerge(a)
  <2>1. /\ call' = call
        /\ version' = version + 1
        /\ effect' = [effect EXCEPT ![a] = version + 1]
        /\ phase' = [phase EXCEPT ![a] = "audit"]
        /\ phase[a] = "handle"
        /\ Kind[request(a)] = "versioned" => version = Base[request(a)]
    BY <1>1 DEF CommitVersioned, CommitMerge
  <2>2. \A b \in Attempt :
          /\ b[2] > call'[b[1]].try \/ call'[b[1]].state = "idle" => phase'[b] = "off"
          /\ phase'[b] \in {"off", "sent", "handle"} => effect'[b] = 0
    BY <2>1 DEF VersionInv, TypeOK
  <2>3. \A b \in Attempt : Kind[request(b)] # "append" => effect'[b] <= version'
    BY <1>0, <2>1 DEF VersionInv, TypeOK
  <2>4. \A b \in Attempt : Kind[request(b)] = "versioned" /\ effect'[b] > 0 =>
                             effect'[b] = Base[request(b)] + 1
    BY <1>0, <2>1 DEF VersionInv, TypeOK
  <2>5. \A b \in Attempt \ {a} :
          Kind[request(b)] # "append" => effect'[b] # effect'[a]
    BY <1>0, <2>1 DEF VersionInv, TypeOK
  <2>6. VersionWrittenOnce'
    BY <2>1, <2>5 DEF VersionInv, VersionWrittenOnce, TypeOK, request
  <2> QED BY <2>2, <2>3, <2>4, <2>6 DEF VersionInv, request
<1>2. CASE CommitAppend(a)
  <2>1. /\ call' = call /\ version' = version
        /\ effect' = [effect EXCEPT ![a] = 1]
        /\ phase' = [phase EXCEPT ![a] = "audit"]
        /\ Kind[request(a)] = "append"
    BY <1>2 DEF CommitAppend
  <2>2. \A b \in Attempt : Kind[request(b)] # "append" => effect'[b] = effect[b]
    BY <2>1 DEF TypeOK
  <2>3. \A b \in Attempt :
          /\ b[2] > call'[b[1]].try \/ call'[b[1]].state = "idle" => phase'[b] = "off"
          /\ phase'[b] \in {"off", "sent", "handle"} => effect'[b] = 0
    BY <1>2, <2>1 DEF VersionInv, TypeOK, CommitAppend
  <2>4. VersionWrittenOnce'
    BY <2>2 DEF VersionInv, VersionWrittenOnce, request
  <2> QED BY <2>1, <2>2, <2>3, <2>4 DEF VersionInv, request
<1> QED BY <1>1, <1>2

(* A step that commits nothing and sends nothing keeps VersionInv. *)
LEMMA QuietStep ==
  ASSUME VersionInv, UNCHANGED <<call, version, effect>>,
         \A a \in Attempt : /\ phase[a] = "off" => phase'[a] = "off"
                            /\ phase'[a] \in {"off", "sent", "handle"} =>
                                 phase[a] \in {"off", "sent", "handle"}
  PROVE  VersionInv'
BY DEF VersionInv, VersionWrittenOnce, request

(* A client that sends its next try uses an attempt nobody has used. *)
LEMMA SendStep ==
  ASSUME TypeOK, TryOK, VersionInv, NEW c \in Call, NEW ended \in Phase,
         ended \notin {"off", "sent", "handle"} \/ ended = phase[current(c)],
         call[c].state = "waiting", RetryOrThrow(c, ended),
         UNCHANGED <<version, effect>>
  PROVE  VersionInv'
<1>0. current(c) \in Attempt /\ Retries[c] \in Nat /\ call[c].try \in Nat
  BY CurrentIsAttempt, ConstantsAssumption DEF TypeOK, CallLoop
<1>1. CASE call[c].try < Retries[c]
  <2> DEFINE next == <<c, call[c].try + 1>>
  <2>1. /\ call' = [call EXCEPT ![c].try = @ + 1]
        /\ phase' = [phase EXCEPT ![current(c)] = ended, ![next] = "sent"]
    BY <1>1 DEF RetryOrThrow
  <2>2. next \in Attempt /\ next # current(c)
    BY <1>0, <1>1, AttemptFacts DEF current
  <2>3. phase[next] = "off"
    BY <1>0, <2>2 DEF VersionInv
  <2>4. effect[next] = 0
    BY <2>2, <2>3 DEF VersionInv
  <2>5. \A a \in Attempt : phase'[a] \in {"off", "sent", "handle"} => effect[a] = 0
    BY <1>0, <2>1, <2>4 DEF VersionInv, TypeOK
  <2>6. ASSUME NEW a \in Attempt,
               a[2] > call'[a[1]].try \/ call'[a[1]].state = "idle"
        PROVE  phase'[a] = "off"
    <3>1. a[2] > call[a[1]].try \/ call[a[1]].state = "idle"
      BY <2>1, <2>6, <1>0, AttemptFacts, ConstantsAssumption
      DEF TypeOK, CallLoop
    <3>2. phase[a] = "off"
      BY <3>1 DEF VersionInv
    <3>3. a # current(c)
      BY <2>1, <2>6, <1>0 DEF current, TypeOK, CallLoop
    <3>4. a # next
      BY <2>1, <2>6, <1>0 DEF TypeOK, CallLoop
    <3> QED BY <2>1, <3>2, <3>3, <3>4 DEF TypeOK
  <2> QED BY <2>5, <2>6 DEF VersionInv, VersionWrittenOnce, request
<1>2. CASE ~(call[c].try < Retries[c])
  <2>1. /\ call' = [call EXCEPT ![c].state = "failed"]
        /\ phase' = [phase EXCEPT ![current(c)] = ended]
    BY <1>2 DEF RetryOrThrow
  <2>2. \A a \in Attempt : phase'[a] \in {"off", "sent", "handle"} => effect[a] = 0
    BY <1>0, <2>1 DEF VersionInv, TypeOK
  <2>3. ASSUME NEW a \in Attempt,
               a[2] > call'[a[1]].try \/ call'[a[1]].state = "idle"
        PROVE  phase'[a] = "off"
    <3>1. a[2] > call[a[1]].try \/ call[a[1]].state = "idle"
      BY <2>1, <2>3, AttemptFacts DEF TypeOK, CallLoop
    <3>2. phase[a] = "off"
      BY <3>1 DEF VersionInv
    <3>3. a # current(c)
      BY <3>1, <1>0 DEF current
    <3> QED BY <2>1, <3>2, <3>3 DEF TypeOK
  <2> QED BY <2>2, <2>3 DEF VersionInv, VersionWrittenOnce, request
<1> QED BY <1>1, <1>2

LEMMA VersionInductive == Spec => []VersionInv
<1>1. Init => VersionInv
  BY DEF Init, VersionInv, VersionWrittenOnce
<1>2. TypeOK /\ TryOK /\ VersionInv /\ [Next]_vars => VersionInv'
  <2> SUFFICES ASSUME TypeOK, TryOK, VersionInv, [Next]_vars PROVE VersionInv'
    OBVIOUS
  <2>1. ASSUME NEW c \in Call, Send(c) PROVE VersionInv'
    <3>0. current(c) \in Attempt /\ current(c)[1] = c
      BY CurrentIsAttempt DEF current
    <3>1. /\ call' = [call EXCEPT ![c].state = "waiting"]
          /\ phase' = [phase EXCEPT ![current(c)] = "sent"]
          /\ call[c].state = "idle"
          /\ UNCHANGED <<version, effect>>
      BY <2>1 DEF Send
    <3>2. phase[current(c)] = "off" /\ effect[current(c)] = 0
      BY <3>0, <3>1 DEF VersionInv
    <3>3. \A a \in Attempt : phase'[a] \in {"off", "sent", "handle"} => effect[a] = 0
      BY <3>1, <3>2 DEF VersionInv, TypeOK
    <3>4. ASSUME NEW a \in Attempt,
                 a[2] > call'[a[1]].try \/ call'[a[1]].state = "idle"
          PROVE  phase'[a] = "off"
      <4>1. a[2] > call[a[1]].try \/ call[a[1]].state = "idle"
        BY <3>1, <3>4, AttemptFacts DEF TypeOK, CallLoop
      <4>2. /\ call'[c].state = "waiting" /\ call'[c].try = call[c].try
            /\ call[c].try \in Nat
        BY <3>1 DEF TypeOK, CallLoop
      <4>3. a # current(c)
        BY <3>4, <4>2 DEF current
      <4> QED BY <3>1, <4>1, <4>3 DEF VersionInv, TypeOK
    <3> QED BY <3>1, <3>3, <3>4 DEF VersionInv, VersionWrittenOnce, request
  <2>2. ASSUME NEW c \in Call, TimeOut(c) PROVE VersionInv'
    <3>1. phase[current(c)] \in Phase
      BY CurrentIsAttempt DEF TypeOK
    <3> QED BY <2>2, <3>1, SendStep DEF TimeOut
  <2>3. ASSUME NEW c \in Call, Receive(c) PROVE VersionInv'
    <3>1. CASE RetryOrThrow(c, "done")
      BY <2>3, <3>1, SendStep DEF Receive, Phase
    <3>2. CASE ~RetryOrThrow(c, "done")
      <4>0. /\ phase' = [phase EXCEPT ![current(c)] = "done"]
            /\ \/ call' = [call EXCEPT ![c] = [@ EXCEPT !.state = "ok",
                                             !.answer = answer[current(c)]]]
               \/ call' = [call EXCEPT ![c].state = "failed"]
        BY <2>3, <3>2 DEF Receive
      <4>1. \A d \in Call : /\ call'[d].try = call[d].try
                            /\ call'[d].state = "idle" => call[d].state = "idle"
        <5>1. CASE call' = [call EXCEPT ![c].state = "failed"]
          BY <5>1 DEF TypeOK, CallLoop
        <5>2. CASE call' = [call EXCEPT ![c] = [@ EXCEPT !.state = "ok",
                                            !.answer = answer[current(c)]]]
          <6>1. call'[c] = [call[c] EXCEPT !.state = "ok",
                                          !.answer = answer[current(c)]]
            BY <5>2 DEF TypeOK
          <6>2. call'[c].try = call[c].try /\ call'[c].state = "ok"
            BY <6>1 DEF TypeOK, CallLoop
          <6>3. \A d \in Call \ {c} : call'[d] = call[d]
            BY <5>2 DEF TypeOK
          <6> QED BY <6>2, <6>3
        <5> QED BY <4>0, <5>1, <5>2
      <4>2. UNCHANGED <<version, effect>> /\ phase[current(c)] = "reply"
        BY <2>3 DEF Receive
      <4>3. \A a \in Attempt : phase'[a] \in {"off", "sent", "handle"} => effect[a] = 0
        BY <4>0, <4>2 DEF VersionInv, TypeOK
      <4>4. ASSUME NEW a \in Attempt,
                   a[2] > call'[a[1]].try \/ call'[a[1]].state = "idle"
            PROVE  phase'[a] = "off"
        <5>1. phase[a] = "off"
          BY <4>1, <4>4, AttemptFacts DEF VersionInv
        <5> QED BY <4>0, <4>2, <5>1 DEF TypeOK
      <4> QED BY <4>2, <4>3, <4>4 DEF VersionInv, VersionWrittenOnce, request
    <3> QED BY <2>3, <3>1, <3>2 DEF Receive
  <2>4. ASSUME NEW a \in Attempt, ServerStep(a) PROVE VersionInv'
    <3>1. CASE CommitVersioned(a) \/ CommitMerge(a) \/ CommitAppend(a)
      BY <3>1, CommitStep
    <3>2. CASE BeginStart(a) \/ BeginReplay(a) \/ BeginConflict(a)
               \/ BeginInProgress(a) \/ RejectWrite(a)
      BY <3>2, QuietStep DEF BeginStart, BeginReplay, BeginConflict,
         BeginInProgress, RejectWrite, FailWith, ReplyWith, TypeOK
    <3>3. CASE Audit(a) \/ Complete(a) \/ Fail(a)
      BY <3>3, QuietStep DEF Audit, Complete, Fail, ReplyWith, TypeOK
    <3> QED BY <2>4, <3>1, <3>2, <3>3 DEF ServerStep
  <2>5. ASSUME NEW a \in Attempt, FaultStep(a) \/ Discard(a) PROVE VersionInv'
    BY <2>5, QuietStep DEF FaultStep, Discard, BeginError, StepError, FailError,
       Crash, ReplyWith, FailWith, Executing, TypeOK
  <2>6. ASSUME NEW k \in Key, Expire(k) PROVE VersionInv'
    BY <2>6, QuietStep DEF Expire
  <2>7. CASE CleanupScan \/ CleanupDelete \/ UNCHANGED vars
    BY <2>7, QuietStep DEF CleanupScan, CleanupDelete, vars
  <2> QED BY <2>1, <2>2, <2>3, <2>4, <2>5, <2>6, <2>7 DEF Next, ClientStep
<1> QED BY <1>1, <1>2, TypeCorrect, PTL DEF Spec

(* No update is lost: two attempts never write the same version, for any
   interleaving, fault and retry. *)
THEOREM VersionCorrect == Spec => []VersionWrittenOnce
<1>1. VersionInv => VersionWrittenOnce
  BY DEF VersionInv
<1> QED BY <1>1, VersionInductive, PTL

(* A versioned request takes effect at most once, although its key may be
   failed, expired or deleted after the commit: the version check is what
   makes a retry safe. *)
THEOREM VersionedOnceCorrect == Spec => []VersionedOnce
<1>1. TypeOK /\ VersionInv => VersionedOnce
  BY AttemptFacts DEF VersionInv, VersionWrittenOnce, VersionedOnce
<1> QED BY <1>1, VersionInductive, TypeCorrect, PTL

-----------------------------------------------------------------------------
(* The pending lock.  While no attempt outlives its TTL and no cleanup runs,
   whoever executes holds the lock, so begin lets nobody else in. *)

(* A step that leaves the keys alone and lets nobody start keeps LockInv. *)
LEMMA NoNewExecutor ==
  ASSUME LockInv, UNCHANGED <<idem, sweep>>,
         \A a \in Attempt : phase'[a] \in Executing => phase[a] \in Executing
  PROVE  LockInv'
BY DEF LockInv, OneExecutorPerKey, key, Locked

LEMMA LockInductive == Spec => []LockInv
<1>1. Init => LockInv
  BY DEF Init, LockInv, OneExecutorPerKey, Executing
<1>2. TypeOK /\ TryOK /\ LockInv /\ [Next]_vars => LockInv'
  <2> SUFFICES ASSUME TypeOK, TryOK, LockInv, [Next]_vars PROVE LockInv'
    OBVIOUS
  <2>0. \A c \in Call : current(c) \in Attempt
    BY CurrentIsAttempt
  <2>1. ASSUME NEW c \in Call, ClientStep(c) PROVE LockInv'
    <3>1. \A a \in Attempt : phase'[a] \in Executing => phase[a] \in Executing
      BY <2>0, <2>1 DEF ClientStep, Send, TimeOut, Receive, RetryOrThrow, TypeOK,
         Executing
    <3> QED BY <2>1, <3>1, NoNewExecutor DEF ClientStep, Send, TimeOut, Receive
  <2>2. ASSUME NEW a \in Attempt, BeginStart(a) PROVE LockInv'
    <3> SUFFICES ASSUME ~Overrun, ~Cleanup
                 PROVE  /\ sweep' = {}
                        /\ \A b \in Attempt : phase'[b] \in Executing =>
                                              Locked(idem'[key(b)])
                        /\ OneExecutorPerKey'
      BY DEF LockInv, Locked, key
    <3>1. /\ sweep' = sweep /\ ~Locked(idem[key(a)])
          /\ phase' = [phase EXCEPT ![a] = "handle"]
          /\ idem' = [idem EXCEPT ![key(a)] = [@ EXCEPT !.status = "pending",
                                                 !.request = request(a),
                                                 !.ttl = "live"]]
      BY <2>2 DEF BeginStart, Locked
    <3>2. \A b \in Attempt : key(b) = key(a) => phase[b] \notin Executing
      BY <3>1 DEF LockInv
    <3>3. /\ Locked(idem'[key(a)])
          /\ \A k \in Key \ {key(a)} : idem'[k] = idem[k]
      BY <3>1, AttemptFacts DEF Locked, TypeOK, KeyDoc
    <3>4. \A b \in Attempt : phase'[b] \in Executing => Locked(idem'[key(b)])
      BY <3>1, <3>3, AttemptFacts DEF LockInv, TypeOK
    <3>5. OneExecutorPerKey'
      BY <3>1, <3>2 DEF LockInv, OneExecutorPerKey, TypeOK, key
    <3> QED BY <3>1, <3>4, <3>5 DEF LockInv
  <2>3. ASSUME NEW a \in Attempt, Complete(a) \/ Fail(a) PROVE LockInv'
    <3>1. /\ sweep' = sweep /\ phase[a] \in Executing
          /\ phase' = [phase EXCEPT ![a] = "reply"]
          /\ \A k \in Key \ {key(a)} : idem'[k] = idem[k]
      BY <2>3 DEF Complete, Fail, ReplyWith, Executing, TypeOK
    <3>2. \A b \in Attempt : phase'[b] \in Executing => phase[b] \in Executing /\ b # a
      BY <3>1 DEF Executing, TypeOK
    <3>3. ~Overrun /\ ~Cleanup =>
            \A b \in Attempt : phase'[b] \in Executing => key(b) # key(a)
      BY <3>1, <3>2 DEF LockInv, OneExecutorPerKey
    <3> QED BY <3>1, <3>2, <3>3, AttemptFacts
            DEF LockInv, OneExecutorPerKey, key, Locked
  <2>4. ASSUME NEW a \in Attempt, ServerStep(a), ~BeginStart(a),
               ~Complete(a), ~Fail(a)
        PROVE  LockInv'
    <3>1. \A b \in Attempt : phase'[b] \in Executing => phase[b] \in Executing
      BY <2>4 DEF ServerStep, BeginReplay, BeginConflict, BeginInProgress,
         CommitVersioned, CommitMerge, CommitAppend, RejectWrite, Audit,
         ReplyWith, FailWith, TypeOK, Executing
    <3> QED BY <2>4, <3>1, NoNewExecutor DEF ServerStep, BeginReplay,
        BeginConflict, BeginInProgress, CommitVersioned, CommitMerge,
        CommitAppend, RejectWrite, Audit
  <2>5. ASSUME NEW a \in Attempt, FaultStep(a) \/ Discard(a) PROVE LockInv'
    <3>1. \A b \in Attempt : phase'[b] \in Executing => phase[b] \in Executing
      BY <2>5 DEF FaultStep, Discard, BeginError, StepError, FailError, Crash,
         ReplyWith, FailWith, TypeOK, Executing
    <3> QED BY <2>5, <3>1, NoNewExecutor DEF FaultStep, Discard, BeginError,
        StepError, FailError, Crash
  <2>6. ASSUME NEW k \in Key, Expire(k) PROVE LockInv'
    <3>1. /\ sweep' = sweep /\ phase' = phase
          /\ \A q \in Key \ {k} : idem'[q] = idem[q]
          /\ Overrun \/ \A a \in Attempt : key(a) = k => phase[a] \notin Executing
      BY <2>6 DEF Expire, TypeOK
    <3> QED BY <3>1, AttemptFacts DEF LockInv, OneExecutorPerKey, key, Locked
  <2>7. CASE CleanupScan
    BY <2>7 DEF CleanupScan, LockInv
  <2>8. CASE CleanupDelete
    BY <2>8 DEF CleanupDelete, LockInv
  <2>9. CASE UNCHANGED vars
    BY <2>9, NoNewExecutor DEF vars
  <2> QED BY <2>1, <2>2, <2>3, <2>4, <2>5, <2>6, <2>7, <2>8, <2>9
          DEF Next, ServerStep
<1> QED BY <1>1, <1>2, TypeCorrect, PTL DEF Spec

(* Mutual exclusion of the attempts of one key. *)
THEOREM LockCorrect ==
  ASSUME ~Overrun, ~Cleanup
  PROVE  Spec => []OneExecutorPerKey
<1>1. LockInv => OneExecutorPerKey
  BY DEF LockInv
<1> QED BY <1>1, LockInductive, PTL

(* A stored response is final: only an executing attempt completes or fails a
   key, and an executing attempt's key is pending. *)
THEOREM ResponseFinal ==
  ASSUME ~Overrun, ~Cleanup
  PROVE  Spec => CompletedIsFinal
<1> DEFINE Final == \A k \in Key : idem[k].status = "completed" =>
                      /\ idem'[k].status = "completed"
                      /\ idem'[k].response = idem[k].response
<1>1. TypeOK /\ LockInv /\ [Next]_vars => Final
  <2> SUFFICES ASSUME TypeOK, LockInv, [Next]_vars PROVE Final
    OBVIOUS
  <2>1. ASSUME NEW c \in Call, ClientStep(c) PROVE Final
    BY <2>1 DEF ClientStep, Send, TimeOut, Receive
  <2>2. ASSUME NEW a \in Attempt, BeginStart(a) PROVE Final
    <3>1. idem[key(a)].status # "completed"
      BY <2>2 DEF BeginStart
    <3> QED BY <2>2, <3>1 DEF BeginStart, TypeOK
  <2>3. ASSUME NEW a \in Attempt, Complete(a) \/ Fail(a) PROVE Final
    <3>1. idem[key(a)].status = "pending"
      BY <2>3 DEF Complete, Fail, LockInv, Locked, Executing
    <3> QED BY <2>3, <3>1 DEF Complete, Fail, TypeOK
  <2>4. ASSUME NEW a \in Attempt, ServerStep(a), ~BeginStart(a),
               ~Complete(a), ~Fail(a)
        PROVE  Final
    BY <2>4 DEF ServerStep, BeginReplay, BeginConflict, BeginInProgress,
       CommitVersioned, CommitMerge, CommitAppend, RejectWrite, Audit
  <2>5. ASSUME NEW a \in Attempt, FaultStep(a) \/ Discard(a) PROVE Final
    BY <2>5 DEF FaultStep, Discard, BeginError, StepError, FailError, Crash
  <2>6. ASSUME NEW k \in Key, Expire(k) PROVE Final
    BY <2>6 DEF Expire, TypeOK, KeyDoc
  <2>7. CASE CleanupScan \/ CleanupDelete \/ UNCHANGED vars
    BY <2>7 DEF CleanupScan, CleanupDelete, LockInv, vars
  <2> QED BY <2>1, <2>2, <2>3, <2>4, <2>5, <2>6, <2>7 DEF Next, ServerStep
<1>2. Final => [Final]_vars
  OBVIOUS
<1> QED BY <1>1, TypeCorrect, LockInductive, PTL DEF Spec, CompletedIsFinal
=============================================================================
