-------------------------- MODULE MutatingRequest --------------------------
(***************************************************************************)
(* The life of a mutating API call: the browser's PlatformApiClient sends  *)
(* it with an idempotency key and retries it on timeouts and server errors;*)
(* the BFF's createMutatingRoute begins the key, runs the route handler    *)
(* (one Firestore transaction that writes the entity under optimistic      *)
(* versioning, then an audit append outside of it), completes or fails the *)
(* key, and answers.  Attempts of one call can overlap: a client that timed*)
(* out sends the next attempt while the server still runs the last one.    *)
(*                                                                         *)
(* Abstractions: one contended entity document (its version is all that    *)
(* optimistic locking reads); a request body is its fingerprint; the       *)
(* response body is the attempt whose write it reports; time is only       *)
(* whether a key's expiresAt has passed; a Firestore call that throws has  *)
(* had no effect.  A definition called a mutant is no part of the model:   *)
(* it is the bug that the property it is paired with must catch.           *)
(***************************************************************************)
EXTENDS Naturals, FiniteSets

CONSTANTS
  Call,        \* calls of PlatformApiClient.request with a mutating method
  Key,         \* idempotency keys
  Request,     \* request fingerprints: method, path and body
  KeyOf,       \* the key a call sends
  RequestOf,   \* the request a call sends
  Kind,        \* how the route of a request writes: see Kinds
  Base,        \* the expectedVersion in the body; 0 also stands for none
  Retries,     \* the retries option (or the client's maxRetries) of a call
  Faults,      \* may Firestore calls fail and server processes crash?
  Overrun,     \* may an attempt still run when its key's TTL runs out?
  Cleanup      \* does the cleanup of expired keys run?

(* versioned: upsertVersionedDoc and the routes with their own version check;
   merge: mergeSystemManagedDoc; append: a new document with a generated id *)
Kinds == {"versioned", "merge", "append"}

ASSUME ConstantsAssumption ==
  /\ KeyOf \in [Call -> Key]
  /\ RequestOf \in [Call -> Request]
  /\ Kind \in [Request -> Kinds]
  /\ Base \in [Request -> Nat]
  /\ Retries \in [Call -> Nat]
  /\ {Faults, Overrun, Cleanup} \subseteq BOOLEAN

Attempt == UNION {{c} \X (0 .. Retries[c]) : c \in Call}
NoAttempt == <<>>

key(a) == KeyOf[a[1]]
request(a) == RequestOf[a[1]]

VARIABLES
  call,      \* [Call -> [state, try, answer]]: the client's request loop
  phase,     \* [Attempt -> phase of the HTTP request on the server]
  code,      \* [Attempt -> class of the status code it will answer]
  answer,    \* [Attempt -> the attempt whose write the 2xx body reports]
  idem,      \* [Key -> document of idempotency_keys]
  version,   \* version of the entity document, 0 while it does not exist
  effect,    \* [Attempt -> version its transaction committed, 0 if none]
  audited,   \* attempts whose audit entry was appended
  sweep      \* keys the cleanup has read and is about to delete

vars == <<call, phase, code, answer, idem, version, effect, audited, sweep>>

Executing == {"handle", "audit", "complete", "fail"}
Phase == {"off", "sent", "reply", "done"} \union Executing
Code == {"none", "ok", "reject", "error"}     \* 2xx, 4xx, 5xx

AbsentKey == [status |-> "absent", request |-> "none", ttl |-> "none",
              response |-> NoAttempt]

Init ==
  /\ call = [c \in Call |-> [state |-> "idle", try |-> 0, answer |-> NoAttempt]]
  /\ phase = [a \in Attempt |-> "off"]
  /\ code = [a \in Attempt |-> "none"]
  /\ answer = [a \in Attempt |-> NoAttempt]
  /\ idem = [k \in Key |-> AbsentKey]
  /\ version = 0
  /\ effect = [a \in Attempt |-> 0]
  /\ audited = {}
  /\ sweep = {}

-----------------------------------------------------------------------------
(* The client: PlatformApiClient.request *)

current(c) == <<c, call[c].try>>

(* An attempt that is over has no response any more. *)
Forget(a) ==
  /\ code' = [code EXCEPT ![a] = "none"]
  /\ answer' = [answer EXCEPT ![a] = NoAttempt]

Send(c) ==
  /\ call[c].state = "idle"
  /\ call' = [call EXCEPT ![c].state = "waiting"]
  /\ phase' = [phase EXCEPT ![current(c)] = "sent"]
  /\ UNCHANGED <<code, answer, idem, version, effect, audited, sweep>>

(* The catch block of the loop for an error shouldRetryRequest accepts:
   send the same key and body again, or throw after the last retry. *)
RetryOrThrow(c, ended) ==
  IF call[c].try < Retries[c]
  THEN /\ call' = [call EXCEPT ![c].try = @ + 1]
       /\ phase' = [phase EXCEPT ![current(c)] = ended,
                                 ![<<c, call[c].try + 1>>] = "sent"]
  ELSE /\ call' = [call EXCEPT ![c].state = "failed"]
       /\ phase' = [phase EXCEPT ![current(c)] = ended]

(* Mutant: the timer is armed for the first try only. *)
TimeOutFirstTry(c) ==
  /\ call[c].state = "waiting" /\ call[c].try = 0
  /\ RetryOrThrow(c, phase[current(c)])
  /\ UNCHANGED <<code, answer, idem, version, effect, audited, sweep>>

(* executeFetch aborts after timeoutMs; the server does not notice. *)
TimeOut(c) ==
  /\ call[c].state = "waiting"
  /\ RetryOrThrow(c, phase[current(c)])
  /\ UNCHANGED <<code, answer, idem, version, effect, audited, sweep>>

Receive(c) ==
  LET a == current(c) IN
  /\ call[c].state = "waiting"
  /\ phase[a] = "reply"
  /\ \/ /\ code[a] = "ok"
        /\ call' = [call EXCEPT ![c] = [@ EXCEPT !.state = "ok",
                                                  !.answer = answer[a]]]
        /\ phase' = [phase EXCEPT ![a] = "done"]
     \/ /\ code[a] = "reject"            \* a 4xx is not a retry status
        /\ call' = [call EXCEPT ![c].state = "failed"]
        /\ phase' = [phase EXCEPT ![a] = "done"]
     \/ /\ code[a] = "error"
        /\ RetryOrThrow(c, "done")
  /\ Forget(a)
  /\ UNCHANGED <<idem, version, effect, audited, sweep>>

(* A response to an attempt the client has given up goes nowhere. *)
Discard(a) ==
  /\ phase[a] = "reply"
  /\ a # current(a[1]) \/ call[a[1]].state # "waiting"
  /\ phase' = [phase EXCEPT ![a] = "done"]
  /\ Forget(a)
  /\ UNCHANGED <<call, idem, version, effect, audited, sweep>>

-----------------------------------------------------------------------------
(* The server: createMutatingRoute and the idempotency service *)

ReplyWith(a, c, body) ==
  /\ phase' = [phase EXCEPT ![a] = "reply"]
  /\ code' = [code EXCEPT ![a] = c]
  /\ answer' = [answer EXCEPT ![a] = body]

(* Mutant: a pending mark is honoured past its TTL. *)
LockedForEver(doc) == doc.status = "pending"

Locked(doc) == doc.status = "pending" /\ doc.ttl = "live"

(* Mutants: begin restarts a key whatever its status, or a locked one. *)
BeginStartIf(a, free) ==
  /\ phase[a] = "sent"
  /\ idem[key(a)].status = "absent" \/ (idem[key(a)].request = request(a) /\ free)
  /\ idem' = [idem EXCEPT ![key(a)] = [@ EXCEPT !.status = "pending",
                                                !.request = request(a),
                                                !.ttl = "live"]]
  /\ phase' = [phase EXCEPT ![a] = "handle"]
  /\ UNCHANGED <<call, code, answer, version, effect, audited, sweep>>
BeginStartCompleted(a) == BeginStartIf(a, ~Locked(idem[key(a)]))
BeginStartLocked(a) == BeginStartIf(a, idem[key(a)].status # "completed")

(* begin's transaction starts the request: the key is new, its last attempt
   failed, or its last attempt never finished and the TTL has run out. *)
BeginStart(a) ==
  LET doc == idem[key(a)] IN
  /\ phase[a] = "sent"
  /\ \/ doc.status = "absent"
     \/ doc.request = request(a) /\ doc.status # "completed" /\ ~Locked(doc)
  /\ idem' = [idem EXCEPT ![key(a)] = [@ EXCEPT !.status = "pending",
                                                !.request = request(a),
                                                !.ttl = "live"]]
  /\ phase' = [phase EXCEPT ![a] = "handle"]
  /\ UNCHANGED <<call, code, answer, version, effect, audited, sweep>>

(* Mutant: a retry is answered from the key before it has completed. *)
BeginReplayEarly(a) ==
  /\ phase[a] = "sent"
  /\ idem[key(a)].request = request(a)
  /\ ReplyWith(a, "ok", idem[key(a)].response)
  /\ UNCHANGED <<call, idem, version, effect, audited, sweep>>

BeginReplay(a) ==
  LET doc == idem[key(a)] IN
  /\ phase[a] = "sent"
  /\ doc.request = request(a)
  /\ doc.status = "completed"
  /\ ReplyWith(a, "ok", doc.response)
  /\ UNCHANGED <<call, idem, version, effect, audited, sweep>>

(* 409 idempotency_conflict *)
BeginConflict(a) ==
  LET doc == idem[key(a)] IN
  /\ phase[a] = "sent"
  /\ doc.status # "absent"
  /\ doc.request # request(a)
  /\ ReplyWith(a, "reject", NoAttempt)
  /\ UNCHANGED <<call, idem, version, effect, audited, sweep>>

(* 409 idempotency_in_progress *)
BeginInProgress(a) ==
  LET doc == idem[key(a)] IN
  /\ phase[a] = "sent"
  /\ doc.request = request(a)
  /\ Locked(doc)
  /\ ReplyWith(a, "reject", NoAttempt)
  /\ UNCHANGED <<call, idem, version, effect, audited, sweep>>

(* Mutant: expectedVersion is not compared with the version that is read. *)
CommitVersionedBlind(a) ==
  /\ phase[a] = "handle"
  /\ Kind[request(a)] = "versioned"
  /\ version' = version + 1
  /\ effect' = [effect EXCEPT ![a] = version + 1]
  /\ phase' = [phase EXCEPT ![a] = "audit"]
  /\ UNCHANGED <<call, code, answer, idem, audited, sweep>>

(* A transaction of upsertVersionedDoc (or of a route with its own check):
   the write and its outbox event commit only on the expected version. *)
CommitVersioned(a) ==
  /\ phase[a] = "handle"
  /\ Kind[request(a)] = "versioned"
  /\ Base[request(a)] = version
  /\ version' = version + 1
  /\ effect' = [effect EXCEPT ![a] = version + 1]
  /\ phase' = [phase EXCEPT ![a] = "audit"]
  /\ UNCHANGED <<call, code, answer, idem, audited, sweep>>

(* Mutant: the merge leaves the version as it is. *)
CommitMergeUnbumped(a) ==
  /\ phase[a] = "handle"
  /\ Kind[request(a)] = "merge"
  /\ version > 0
  /\ effect' = [effect EXCEPT ![a] = version]
  /\ phase' = [phase EXCEPT ![a] = "audit"]
  /\ UNCHANGED <<call, code, answer, idem, version, audited, sweep>>

(* mergeSystemManagedDoc: the version is bumped, never compared. *)
CommitMerge(a) ==
  /\ phase[a] = "handle"
  /\ Kind[request(a)] = "merge"
  /\ version > 0
  /\ version' = version + 1
  /\ effect' = [effect EXCEPT ![a] = version + 1]
  /\ phase' = [phase EXCEPT ![a] = "audit"]
  /\ UNCHANGED <<call, code, answer, idem, audited, sweep>>

(* A comment or evidence without a client-chosen id: a new document, with
   version 1, and its outbox event in one batch. *)
CommitAppend(a) ==
  /\ phase[a] = "handle"
  /\ Kind[request(a)] = "append"
  /\ effect' = [effect EXCEPT ![a] = 1]
  /\ phase' = [phase EXCEPT ![a] = "audit"]
  /\ UNCHANGED <<call, code, answer, idem, version, audited, sweep>>

FailWith(a, c) ==
  /\ phase' = [phase EXCEPT ![a] = "fail"]
  /\ code' = [code EXCEPT ![a] = c]

(* 409 version_conflict, version_required; 404 not_found for a merge *)
RejectWrite(a) ==
  /\ phase[a] = "handle"
  /\ \/ Kind[request(a)] = "versioned" /\ Base[request(a)] # version
     \/ Kind[request(a)] = "merge" /\ version = 0
  /\ FailWith(a, "reject")
  /\ UNCHANGED <<call, answer, idem, version, effect, audited, sweep>>

(* auditChainService.append, after the entity's transaction *)
Audit(a) ==
  /\ phase[a] = "audit"
  /\ audited' = audited \union {a}
  /\ phase' = [phase EXCEPT ![a] = "complete"]
  /\ UNCHANGED <<call, code, answer, idem, version, effect, sweep>>

(* complete and fail merge into whatever document the key has by now: they
   check no owner, and leave expiresAt alone. *)
Complete(a) ==
  /\ phase[a] = "complete"
  /\ idem' = [idem EXCEPT ![key(a)] = [@ EXCEPT !.status = "completed",
                                                !.request = request(a),
                                                !.response = a]]
  /\ ReplyWith(a, "ok", a)
  /\ UNCHANGED <<call, version, effect, audited, sweep>>

Fail(a) ==
  /\ phase[a] = "fail"
  /\ idem' = [idem EXCEPT ![key(a)] = [@ EXCEPT !.status = "failed",
                                                !.request = request(a)]]
  /\ phase' = [phase EXCEPT ![a] = "reply"]
  /\ UNCHANGED <<call, code, answer, version, effect, audited, sweep>>

-----------------------------------------------------------------------------
(* Faults, time and the cleanup job *)

(* begin throws outside of the try block: 500, the key is not touched. *)
BeginError(a) ==
  /\ Faults
  /\ phase[a] = "sent"
  /\ ReplyWith(a, "error", NoAttempt)
  /\ UNCHANGED <<call, idem, version, effect, audited, sweep>>

(* A read or the transaction of the handler, the audit append or complete
   throws: the catch block takes over, whatever has been committed. *)
StepError(a) ==
  /\ Faults
  /\ phase[a] \in {"handle", "audit", "complete"}
  /\ FailWith(a, "error")
  /\ UNCHANGED <<call, answer, idem, version, effect, audited, sweep>>

(* fail itself throws: its error replaces the first, the key stays pending. *)
FailError(a) ==
  /\ Faults
  /\ phase[a] = "fail"
  /\ ReplyWith(a, "error", NoAttempt)
  /\ UNCHANGED <<call, idem, version, effect, audited, sweep>>

(* The request is lost, the function is killed, or the response is lost. *)
Crash(a) ==
  /\ Faults
  /\ phase[a] \in {"sent", "reply"} \union Executing
  /\ phase' = [phase EXCEPT ![a] = "done"]
  /\ Forget(a)
  /\ UNCHANGED <<call, idem, version, effect, audited, sweep>>

(* expiresAt passes.  The TTL is 600 s and a function runs at most 60 s, so
   without Overrun no attempt of the key is executing by then. *)
Expire(k) ==
  /\ idem[k].ttl = "live"
  /\ Overrun \/ \A a \in Attempt : key(a) = k => phase[a] \notin Executing
  /\ idem' = [idem EXCEPT ![k].ttl = "past"]
  /\ UNCHANGED <<call, phase, code, answer, version, effect, audited, sweep>>

(* cleanupExpiredIdempotencyKeys queries, then deletes what it has read. *)
CleanupScan ==
  /\ Cleanup
  /\ sweep = {}
  /\ sweep' = {k \in Key : idem[k].ttl = "past"}
  /\ sweep' # {}
  /\ UNCHANGED <<call, phase, code, answer, idem, version, effect, audited>>

CleanupDelete ==
  /\ sweep # {}
  /\ idem' = [k \in Key |-> IF k \in sweep THEN AbsentKey ELSE idem[k]]
  /\ sweep' = {}
  /\ UNCHANGED <<call, phase, code, answer, version, effect, audited>>

-----------------------------------------------------------------------------
ClientStep(c) == Send(c) \/ TimeOut(c) \/ Receive(c)

ServerStep(a) ==
  \/ BeginStart(a) \/ BeginReplay(a) \/ BeginConflict(a) \/ BeginInProgress(a)
  \/ CommitVersioned(a) \/ CommitMerge(a) \/ CommitAppend(a) \/ RejectWrite(a)
  \/ Audit(a) \/ Complete(a) \/ Fail(a)

FaultStep(a) == BeginError(a) \/ StepError(a) \/ FailError(a) \/ Crash(a)

Next ==
  \/ \E c \in Call : ClientStep(c)
  \/ \E a \in Attempt : ServerStep(a) \/ FaultStep(a) \/ Discard(a)
  \/ \E k \in Key : Expire(k)
  \/ CleanupScan
  \/ CleanupDelete

(* A client's timer fires, a running function makes progress, time passes. *)
Fairness ==
  /\ \A c \in Call : WF_vars(TimeOut(c))
  /\ \A a \in Attempt : WF_vars(ServerStep(a))
  /\ \A k \in Key : WF_vars(Expire(k))

Spec == Init /\ [][Next]_vars /\ Fairness

-----------------------------------------------------------------------------
(* Properties *)

CallLoop == [state : {"idle", "waiting", "ok", "failed"},
             try : Nat,
             answer : Attempt \union {NoAttempt}]

KeyDoc == [status : {"absent", "pending", "completed", "failed"},
           request : Request \union {"none"},
           ttl : {"none", "live", "past"},
           response : Attempt \union {NoAttempt}]

(* Every variable keeps the shape of the documents and loops it stands for. *)
TypeOK ==
  /\ call \in [Call -> CallLoop]
  /\ phase \in [Attempt -> Phase]
  /\ code \in [Attempt -> Code]
  /\ answer \in [Attempt -> Attempt \union {NoAttempt}]
  /\ idem \in [Key -> KeyDoc]
  /\ version \in Nat
  /\ effect \in [Attempt -> Nat]
  /\ audited \subseteq Attempt
  /\ sweep \subseteq Key

(* Attempt a committed and audited the write of request r under key k. *)
Written(a, k, r) ==
  /\ a \in Attempt
  /\ effect[a] > 0
  /\ a \in audited
  /\ key(a) = k
  /\ request(a) = r

(* A caller that is told 2xx is told the truth: the body reports a write of
   the very request it sent, under its own key, that is committed and in the
   audit chain - also when a retry or another call made that write. *)
TruthfulSuccess ==
  \A c \in Call :
    call[c].state = "ok" => Written(call[c].answer, KeyOf[c], RequestOf[c])

(* Optimistic locking loses no update: no two attempts ever wrote the same
   version of the entity, however their transactions interleave. *)
VersionWrittenOnce ==
  \A a, b \in Attempt :
    /\ a # b
    /\ Kind[request(a)] # "append" /\ Kind[request(b)] # "append"
    /\ effect[a] > 0
    => effect[a] # effect[b]

(* Whatever happens to its idempotency key (a failed audit append, a crash, an
   expired TTL, a cleanup), a versioned request is executed at most once. *)
VersionedOnce ==
  \A a, b \in Attempt :
    /\ request(a) = request(b)
    /\ Kind[request(a)] = "versioned"
    /\ effect[a] > 0 /\ effect[b] > 0
    => a = b

(* The pending lock excludes: of the attempts with one key, at most one is
   past begin and not yet answered. *)
OneExecutorPerKey ==
  \A a, b \in Attempt :
    key(a) = key(b) /\ phase[a] \in Executing /\ phase[b] \in Executing => a = b

(* A stored response is never lost: once a key is completed no late attempt
   fails it, restarts it or replaces its response. *)
CompletedIsFinal ==
  [][\A k \in Key : idem[k].status = "completed" =>
       /\ idem'[k].status = "completed"
       /\ idem'[k].response = idem[k].response]_vars

(* The inductive strengthenings that the proofs use. *)

(* Every promise of a 2xx on its way to a caller - in an attempt about to
   complete, in a stored response, in an answer - is backed by a write. *)
TruthInv ==
  /\ \A a \in Attempt :
       /\ phase[a] \in {"audit", "complete"} => effect[a] > 0
       /\ phase[a] = "complete" => a \in audited
       /\ code[a] = "ok" => Written(answer[a], key(a), request(a))
  /\ \A k \in Key : idem[k].status = "completed" =>
                       Written(idem[k].response, k, idem[k].request)
  /\ TruthfulSuccess

(* Versions are handed out in order, and an attempt writes at most once. *)
VersionInv ==
  /\ \A a \in Attempt :
       /\ a[2] > call[a[1]].try \/ call[a[1]].state = "idle" => phase[a] = "off"
       /\ phase[a] \in {"off", "sent", "handle"} => effect[a] = 0
       /\ Kind[request(a)] # "append" => effect[a] <= version
       /\ Kind[request(a)] = "versioned" /\ effect[a] > 0 =>
            effect[a] = Base[request(a)] + 1
  /\ VersionWrittenOnce

(* An executing attempt holds the lock of its key, and holds it alone. *)
LockInv ==
  ~Overrun /\ ~Cleanup =>
    /\ sweep = {}
    /\ \A a \in Attempt : phase[a] \in Executing => Locked(idem[key(a)])
    /\ OneExecutorPerKey

(* No key stays locked for ever: a crashed owner's pending mark gives way to a
   result, or to its TTL. *)
LockReleased == \A k \in Key : Locked(idem[k]) ~> ~Locked(idem[k])

(* Every call that was sent comes back to its caller, with a result or an
   error, whatever the server loses. *)
CallSettles ==
  \A c \in Call : call[c].state = "waiting" ~> call[c].state \in {"ok", "failed"}
=============================================================================
