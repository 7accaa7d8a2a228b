--------------------------- MODULE ProjectionQueue ---------------------------
(***************************************************************************)
(* The projection pipeline: a generic write (POST /write in app.mjs)       *)
(* commits its entity, a change event and one work-queue job per view that *)
(* the relation rules name, in one transaction.  The request itself and    *)
(* the work-queue workers then run processWorkQueueBatch (work-queue.mjs)  *)
(* concurrently: scan, claim, rebuild the view from the collections it     *)
(* reads (projections.mjs), mark.  POST /queue/replay enqueues an event's  *)
(* jobs again.                                                             *)
(*                                                                         *)
(* Abstractions: a collection is the number of writes it has taken, a view *)
(* is the set of <<input, content>> pairs it was built from; nextAttemptAt *)
(* is only whether it has passed, so that jobs of one scan are taken in    *)
(* any order; the batch limit is not reached (the scan limit is a          *)
(* parameter); a Firestore call that throws has had no effect.  A          *)
(* definition called a mutant is no part of the model.                     *)
(***************************************************************************)
EXTENDS Naturals, FiniteSets

CONSTANTS
  Write,        \* generic writes, each to an entity of its own
  Source,       \* collections: entity types
  View,         \* projection views
  SourceOf,     \* the collection a write goes to
  Reads,        \* the inputs a view's rebuilder reads: collections, views
  Affects,      \* resolveAffectedViews: the views the rules name for a write
  Cron,         \* runs of the work-queue worker
  Sync,         \* the values of options.sync that requests may send
  Replayed,     \* the writes whose event is replayed, once each
  Rank,         \* the order of job ids, which are hashes
  ScanLimit,    \* how many documents of work_queue a scan reads
  MaxAttempts,  \* maxAttempts, 8 by default
  NoJob,        \* the claim of a worker that handles no job
  Crashes       \* may a worker or a request die?

Kind == {"event", "replay"}
Job == Write \X Kind \X View
Request == (Write \X {"event"}) \union (Replayed \X {"replay"})
Worker == Cron \union Request

ASSUME ConstantsAssumption ==
  /\ SourceOf \in [Write -> Source]
  /\ Reads \in [View -> SUBSET (Source \union View)]
  /\ Source \intersect View = {}
  /\ Affects \in [Source -> SUBSET View]
  /\ Sync \subseteq BOOLEAN
  /\ Replayed \subseteq Write
  /\ Rank \in [Job -> Nat]
  /\ ScanLimit \in Nat
  /\ MaxAttempts \in Nat \ {0}
  /\ NoJob \notin Job
  /\ Cron \intersect Request = {}
  /\ Crashes \in BOOLEAN

VARIABLES
  version,    \* [Source -> writes the collection has taken]
  seq,        \* [Write -> its number in its collection, 0 before it commits]
  shows,      \* [View -> the <<input, content>> pairs it was built from]
  status,     \* [Job -> status of the work_queue document]
  attempts,   \* [Job -> attempts of the work_queue document]
  due,        \* jobs whose nextAttemptAt has passed
  pc,         \* [Worker -> where the request or worker is]
  batch,      \* [Worker -> scanned jobs, <<job, attempts>>, still to claim]
  claimed,    \* [Worker -> the claimed job, NoJob between claims]
  got,        \* [Worker -> the pairs its rebuild has read so far]
  reflected,  \* <<write, view>>: the view has shown the write at some time
  clashed     \* views that two jobs were rebuilding at the same time

vars == <<version, seq, shows, status, attempts, due, pc, batch, claimed, got,
          reflected, clashed>>
sources == <<version, seq>>
jobs == <<status, attempts, due>>
views == <<shows, reflected>>

write(j) == j[1]
view(j) == j[3]

(* What a rebuild reads of one of its inputs. *)
Content(i) == IF i \in Source THEN version[i] ELSE shows[i]

Existing == {j \in Job : status[j] # "absent"}

Claimable == {j \in Job : status[j] \in {"READY", "FAILED"} /\ j \in due}

Init ==
  /\ version = [s \in Source |-> 0]
  /\ seq = [n \in Write |-> 0]
  /\ shows = [v \in View |-> {}]
  /\ status = [j \in Job |-> "absent"]
  /\ attempts = [j \in Job |-> 0]
  /\ due = {}
  /\ pc = [w \in Worker |-> IF w \in Cron THEN "idle" ELSE "off"]
  /\ batch = [w \in Worker |-> {}]
  /\ claimed = [w \in Worker |-> NoJob]
  /\ got = [w \in Worker |-> {}]
  /\ reflected = {}
  /\ clashed = {}

-----------------------------------------------------------------------------
(* Requests *)

Enqueue(fresh) ==
  /\ status' = [j \in Job |-> IF j \in fresh THEN "READY" ELSE status[j]]
  /\ due' = due \union fresh
  /\ UNCHANGED attempts

(* POST /write: entity, change event and jobs in one transaction. *)
CommitWrite(n) ==
  LET s == SourceOf[n] IN
  /\ pc[<<n, "event">>] = "off"
  /\ version' = [version EXCEPT ![s] = @ + 1]
  /\ seq' = [seq EXCEPT ![n] = version[s] + 1]
  /\ Enqueue({n} \X {"event"} \X Affects[s])
  /\ \E sync \in Sync :
       pc' = [pc EXCEPT ![<<n, "event">>] = IF sync THEN "scan" ELSE "end"]
  /\ UNCHANGED <<views, batch, claimed, got, clashed>>

(* POST /queue/replay/:eventId: the event's jobs again, with fresh ids; when
   no rule matches, a job for the alerts. *)
ReplayEvent(n) ==
  LET s == SourceOf[n] IN
  /\ pc[<<n, "replay">>] = "off"
  /\ seq[n] > 0
  /\ Enqueue({n} \X {"replay"} \X
             (IF Affects[s] # {} THEN Affects[s] ELSE View \intersect {"alerts"}))
  /\ pc' = [pc EXCEPT ![<<n, "replay">>] = "scan"]
  /\ UNCHANGED <<sources, views, batch, claimed, got, clashed>>

-----------------------------------------------------------------------------
(* processWorkQueueBatch *)

(* The documents a scan reads: the first ScanLimit by id, DONE ones too, since
   nothing deletes a job; the filters apply afterwards. *)
Scanned(found) ==
  {j \in found :
     Cardinality({k \in Existing : Rank[k] < Rank[j]}) < ScanLimit}

(* processQueueSync filters by event id, a worker does not. *)
InScope(w) == IF w \in Cron THEN Job ELSE {j \in Job : write(j) = w[1]}

Scan(w) ==
  LET found == Scanned(Claimable \intersect InScope(w)) IN
  /\ \/ pc[w] = "scan"
     \/ pc[w] = "idle" /\ found # {}
  /\ pc' = [pc EXCEPT ![w] = "batch"]
  /\ batch' = [batch EXCEPT ![w] = {<<j, attempts[j]>> : j \in found}]
  /\ UNCHANGED <<sources, views, jobs, claimed, got, clashed>>

(* The view of a job, if another worker is at it. *)
Clash(w, j) ==
  {v \in {view(j)} :
     \E u \in Worker \ {w} : claimed[u] # NoJob /\ view(claimed[u]) = v}

(* claimJob's transaction reads the document again. *)
Claim(w, doc) ==
  LET j == doc[1] IN
  /\ pc[w] = "batch"
  /\ j \in Claimable
  /\ status' = [status EXCEPT ![j] = "PROCESSING"]
  /\ attempts' = [attempts EXCEPT ![j] = @ + 1]
  /\ batch' = [batch EXCEPT ![w] = @ \ {doc}]
  /\ claimed' = [claimed EXCEPT ![w] = j]
  /\ pc' = [pc EXCEPT ![w] = "rebuild"]
  /\ clashed' = clashed \union Clash(w, doc[1])
  /\ UNCHANGED <<sources, views, due, got>>

(* claimJob returns null: somebody took the job since the scan, or tried it
   and its next time lies after nowIso, which is the scan's time. *)
Skip(w, doc) ==
  /\ pc[w] = "batch"
  /\ doc[1] \notin Claimable \/ attempts[doc[1]] # doc[2]
  /\ batch' = [batch EXCEPT ![w] = @ \ {doc}]
  /\ UNCHANGED <<sources, views, jobs, pc, claimed, got, clashed>>

(* The batch is done: a request answers, a worker waits for its next run. *)
EndBatch(w) ==
  /\ pc[w] = "batch"
  /\ batch[w] = {}
  /\ pc' = [pc EXCEPT ![w] = IF w \in Cron THEN "idle" ELSE "end"]
  /\ UNCHANGED <<sources, views, jobs, batch, claimed, got, clashed>>

(* rebuildView: the queries of Promise.all are answered one by one ... *)
Read(w, i) ==
  /\ pc[w] = "rebuild"
  /\ i \in Reads[view(claimed[w])]
  /\ \A p \in got[w] : p[1] # i
  /\ got' = [got EXCEPT ![w] = @ \union {<<i, Content(i)>>}]
  /\ UNCHANGED <<sources, views, jobs, pc, batch, claimed, clashed>>

(* Mutant: the view is written before all of its inputs are there. *)
WriteViewEarly(w) ==
  LET v == view(claimed[w]) IN
  /\ pc[w] = "rebuild" /\ got[w] # {}
  /\ shows' = [shows EXCEPT ![v] = got[w]]
  /\ reflected' = reflected \union
       {<<n, v>> : n \in {m \in Write : seq[m] > 0 /\ \E p \in got[w] :
                            p[1] = SourceOf[m] /\ seq[m] <= p[2]}}
  /\ pc' = [pc EXCEPT ![w] = "mark"]
  /\ UNCHANGED <<sources, jobs, batch, claimed, got, clashed>>

(* ... and then the view is set, whatever it has become in the meantime. *)
WriteView(w) ==
  LET v == view(claimed[w])
      shown(n) == \E p \in got[w] : p[1] = SourceOf[n] /\ seq[n] <= p[2]
  IN
  /\ pc[w] = "rebuild"
  /\ Reads[v] = {p[1] : p \in got[w]}
  /\ shows' = [shows EXCEPT ![v] = got[w]]
  /\ reflected' = reflected \union
                    {<<n, v>> : n \in {m \in Write : seq[m] > 0 /\ shown(m)}}
  /\ pc' = [pc EXCEPT ![w] = "mark"]
  /\ UNCHANGED <<sources, jobs, batch, claimed, got, clashed>>

(* The worker is done with its job and goes on with its batch. *)
Release(w) ==
  /\ claimed' = [claimed EXCEPT ![w] = NoJob]
  /\ got' = [got EXCEPT ![w] = {}]
  /\ pc' = [pc EXCEPT ![w] = "batch"]

MarkSuccess(w) ==
  /\ pc[w] = "mark"
  /\ status' = [status EXCEPT ![claimed[w]] = "DONE"]
  /\ Release(w)
  /\ UNCHANGED <<sources, views, attempts, due, batch, clashed>>

(* The rebuild or markSuccess throws. *)
HandlerError(w) ==
  /\ pc[w] \in {"rebuild", "mark"}
  /\ pc' = [pc EXCEPT ![w] = "failing"]
  /\ UNCHANGED <<sources, views, jobs, batch, claimed, got, clashed>>

MarkFailure(w) ==
  LET j == claimed[w] IN
  /\ pc[w] = "failing"
  /\ status' = [status EXCEPT ![j] =
                  IF attempts[j] >= MaxAttempts THEN "DEAD" ELSE "FAILED"]
  /\ due' = due \ {j}
  /\ Release(w)
  /\ UNCHANGED <<sources, views, attempts, batch, clashed>>

(* The retry delay of a failed job, min(300, 2^n) s, runs out. *)
BecomeDue(j) ==
  /\ status[j] = "FAILED"
  /\ j \notin due
  /\ due' = due \union {j}
  /\ UNCHANGED <<sources, views, status, attempts, pc, batch, claimed, got, clashed>>

(* The process dies, the audit append of the request throws, or claimJob or
   markFailure does: a claimed job is not taken back. *)
Abort(w) ==
  /\ Crashes
  /\ pc[w] \notin {"off", "idle", "end"}
  /\ pc' = [pc EXCEPT ![w] = IF w \in Cron THEN "idle" ELSE "end"]
  /\ batch' = [batch EXCEPT ![w] = {}]
  /\ claimed' = [claimed EXCEPT ![w] = NoJob]
  /\ got' = [got EXCEPT ![w] = {}]
  /\ UNCHANGED <<sources, views, jobs, clashed>>

-----------------------------------------------------------------------------
Progress(w) ==
  \/ Scan(w) \/ EndBatch(w) \/ WriteView(w) \/ MarkSuccess(w) \/ MarkFailure(w)
  \/ \E doc \in batch[w] : Claim(w, doc) \/ Skip(w, doc)
  \/ \E i \in Source \union View : Read(w, i)

Next ==
  \/ \E n \in Write : CommitWrite(n)
  \/ \E n \in Replayed : ReplayEvent(n)
  \/ \E j \in Job : BecomeDue(j)
  \/ \E w \in Worker : Progress(w) \/ HandlerError(w) \/ Abort(w)

(* Workers are run again and again, requests and running workers make
   progress, and retry delays run out. *)
Fairness ==
  /\ \A w \in Worker : WF_vars(Progress(w))
  /\ \A j \in Job : WF_vars(BecomeDue(j))

Spec == Init /\ [][Next]_vars /\ Fairness

-----------------------------------------------------------------------------
(* Properties *)

(* Every variable keeps the shape of the documents and loops it stands for. *)
TypeOK ==
  /\ version \in [Source -> Nat]
  /\ seq \in [Write -> Nat]
  /\ DOMAIN shows = View
  /\ status \in [Job -> {"absent", "READY", "PROCESSING", "FAILED", "DONE", "DEAD"}]
  /\ attempts \in [Job -> Nat]
  /\ due \subseteq Job
  /\ pc \in [Worker -> {"off", "idle", "scan", "batch", "rebuild", "mark",
                        "failing", "end"}]
  /\ batch \in [Worker -> SUBSET (Job \X Nat)]
  /\ claimed \in [Worker -> Job \union {NoJob}]
  /\ DOMAIN got = Worker
  /\ reflected \subseteq Write \X View
  /\ clashed \subseteq View

(* A DONE job kept its word: its view has shown its write, whoever rebuilt it
   and whatever failed on the way. *)
Kept(j) == SourceOf[write(j)] \in Reads[view(j)] => <<write(j), view(j)>> \in reflected
DoneJobsKept == \A j \in Job : status[j] = "DONE" => Kept(j)

(* The claim transaction excludes: no two workers handle the same job. *)
OneHandlerPerJob ==
  \A u, w \in Worker : u # w /\ claimed[u] # NoJob => claimed[u] # claimed[w]

(* The inductive strengthening: jobs belong to committed writes and to the
   one worker that claimed them, and what a rebuild reads of its job's
   collection includes the job's write, since it reads after the claim. *)
RequestInv ==
  /\ \A n \in Write :
       /\ pc[<<n, "event">>] = "off" <=> seq[n] = 0
       /\ seq[n] <= version[SourceOf[n]]
  /\ \A j \in Job : status[j] # "absent" =>
       /\ seq[write(j)] > 0
       /\ j[2] = "replay" =>
            write(j) \in Replayed /\ pc[<<write(j), "replay">>] # "off"

RebuildInv ==
  /\ \A w \in Worker :
       /\ pc[w] \in {"rebuild", "mark", "failing"} <=> claimed[w] # NoJob
       /\ claimed[w] # NoJob => status[claimed[w]] = "PROCESSING"
  /\ OneHandlerPerJob

ReadOK(w) ==
  /\ got[w] # {} => pc[w] \in {"rebuild", "mark", "failing"}
  /\ \A p \in got[w] :
       p[1] = SourceOf[write(claimed[w])] =>
         p[2] \in Nat /\ seq[write(claimed[w])] <= p[2]
  /\ pc[w] = "mark" => Kept(claimed[w])

ReadInv == \A w \in Worker : ReadOK(w)

JobInv == RequestInv /\ RebuildInv /\ ReadInv /\ DoneJobsKept

(* Nothing is left to do: every job is done and no request or worker runs. *)
Quiet ==
  /\ \A j \in Existing : status[j] = "DONE"
  /\ \A w \in Worker : pc[w] \in {"off", "idle", "end"}

UpToDate(v) ==
  shows[v] # {} => shows[v] = {<<i, Content(i)>> : i \in Reads[v]}

(* The views that are built from collections alone, each of which names them
   in a rule.  project_financials is not among them: it counts change requests,
   whose rules do not name it. *)
Tables == {v \in View : \A i \in Reads[v] : i \in Source /\ v \in Affects[i]}

(* "writes through generic pipeline and synchronizes projection views"
   (app.integration.test.ts): once the queue is empty, such a view shows all
   writes, after any errors, retries and replays, if its rebuilds never
   overlapped.  (If they did, the one that read first may have written last.) *)
TablesCatchUp == Quiet => \A v \in Tables \ clashed : UpToDate(v)

(* maxAttempts bounds the tries of a job, only one that has used them all is
   dead, and one that can be claimed has a try left. *)
TriesBounded ==
  \A j \in Job :
    /\ attempts[j] <= MaxAttempts
    /\ status[j] \in {"absent", "READY", "FAILED"} => attempts[j] < MaxAttempts
    /\ status[j] = "DEAD" => attempts[j] = MaxAttempts

(* No committed write is forgotten: each view that its rule names has shown it
   or has a job for it that is still to be done, in a worker's hands, orphaned
   by a dead one, or DEAD and listed for replay. *)
WritesFollowed ==
  \A n \in Write : \A v \in Affects[SourceOf[n]] :
    seq[n] > 0 /\ SourceOf[n] \in Reads[v] =>
      \/ <<n, v>> \in reflected
      \/ status[<<n, "event", v>>] \in {"READY", "PROCESSING", "FAILED", "DEAD"}

(* The inductive strengthening: the rebuilds of such a view exclude each
   other, and whatever a rebuild or the view itself has not seen of a
   collection, a job that is still to be handled will. *)
Outstanding(v) == {j \in Job : view(j) = v /\ status[j] \notin {"absent", "DONE"}}
OnePerInput(S, v) == \A p \in S : p[1] \in Reads[v] /\ \A q \in S : q[1] = p[1] => q = p
At(w, v) == claimed[w] # NoJob /\ view(claimed[w]) = v
Waiting(j) == \A w \in Worker : claimed[w] = j => pc[w] # "mark"

InputInv ==
  /\ \A v \in View : OnePerInput(shows[v], v)
  /\ \A w \in Worker : claimed[w] # NoJob => OnePerInput(got[w], view(claimed[w]))

OneRebuild(v) == \A u, w \in Worker : At(u, v) /\ At(w, v) => u = w
ReadsFollowed(v) ==
  \A w \in Worker : At(w, v) =>
    \A p \in got[w] : \/ p = <<p[1], version[p[1]]>>
                      \/ \E j \in Outstanding(v) : j # claimed[w]
ViewFollowed(v) ==
  shows[v] # {} =>
    \A i \in Reads[v] : \/ <<i, version[i]>> \in shows[v]
                        \/ \E j \in Outstanding(v) : Waiting(j)

CatchUpInv ==
  /\ InputInv
  /\ \A v \in Tables \ clashed : OneRebuild(v) /\ ReadsFollowed(v) /\ ViewFollowed(v)
=============================================================================
