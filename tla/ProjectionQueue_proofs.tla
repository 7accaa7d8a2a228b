----------------------- MODULE ProjectionQueue_proofs -----------------------
(***************************************************************************)
(* Proofs about ProjectionQueue: a DONE job's view has shown its write, no *)
(* job is handled twice at a time or tried too often, no write is          *)
(* forgotten, and views catch up once the queue is empty, for any          *)
(* collections, views, rules, writes, replays and workers, with and        *)
(* without crashes.                                                        *)
(***************************************************************************)
EXTENDS ProjectionQueue, TLAPS

LEMMA JobParts ==
  /\ \A j \in Job : write(j) \in Write /\ j[2] \in Kind /\ view(j) \in View
  /\ \A n \in Write : <<n, "event">> \in Worker
  /\ \A n \in Replayed : n \in Write /\ <<n, "replay">> \in Worker
  /\ \A n \in Write : <<n, "event">> \notin Cron
  /\ \A n \in Replayed : <<n, "replay">> \notin Cron
BY ConstantsAssumption DEF Job, write, view, Kind, Request, Worker

(* The cases of a step. *)
Requested(n) ==
  \/ n \in Write /\ CommitWrite(n)
  \/ n \in Replayed /\ ReplayEvent(n)
Idle(w) == EndBatch(w) \/ HandlerError(w) \/ Abort(w)
Take(w) == \E doc \in batch[w] : Claim(w, doc)
Pass(w) == \E doc \in batch[w] : Skip(w, doc)

LEMMA NextCases ==
  ASSUME [Next]_vars
  PROVE  \/ \E n \in Write : CommitWrite(n)
         \/ \E n \in Replayed : ReplayEvent(n)
         \/ \E j \in Job : BecomeDue(j)
         \/ \E w \in Worker :
              \/ Scan(w) \/ Idle(w) \/ WriteView(w) \/ MarkSuccess(w)
              \/ MarkFailure(w) \/ Take(w) \/ Pass(w)
              \/ \E i \in Source \union View : Read(w, i)
         \/ UNCHANGED vars
BY DEF Next, Progress, Idle, Take, Pass

LEMMA DocTyped ==
  ASSUME TypeOK, NEW w \in Worker, NEW doc \in batch[w]
  PROVE  doc[1] \in Job /\ doc[2] \in Nat
BY DEF TypeOK

LEMMA ClaimIsJob ==
  ASSUME TypeOK, RebuildInv, NEW w \in Worker,
         pc[w] \in {"rebuild", "mark", "failing"}
  PROVE  claimed[w] \in Job /\ status[claimed[w]] = "PROCESSING"
BY DEF TypeOK, RebuildInv

-----------------------------------------------------------------------------
(* Type correctness *)

LEMMA Typed ==
  ASSUME TypeOK, RebuildInv, [Next]_vars
  PROVE  TypeOK'
<1>1. ASSUME NEW n \in Write, CommitWrite(n) PROVE TypeOK'
  <2>1. SourceOf[n] \in Source /\ Affects[SourceOf[n]] \subseteq View
    BY ConstantsAssumption
  <2>2. {n} \X {"event"} \X Affects[SourceOf[n]] \subseteq Job
    BY <2>1 DEF Job, Kind
  <2>3. version' \in [Source -> Nat] /\ seq' \in [Write -> Nat]
    BY <1>1, <2>1 DEF CommitWrite, TypeOK
  <2>4. pc' \in [Worker -> {"off", "idle", "scan", "batch", "rebuild", "mark",
                            "failing", "end"}]
    BY <1>1 DEF CommitWrite, TypeOK
  <2>5. /\ status' \in [Job -> {"absent", "READY", "PROCESSING", "FAILED",
                                "DONE", "DEAD"}]
        /\ attempts' \in [Job -> Nat]
        /\ due' \subseteq Job
    BY <1>1, <2>2 DEF CommitWrite, Enqueue, TypeOK
  <2> QED BY <1>1, <2>3, <2>4, <2>5 DEF CommitWrite, TypeOK, views
<1>2. ASSUME NEW n \in Replayed, ReplayEvent(n) PROVE TypeOK'
  <2> DEFINE fresh == {n} \X {"replay"} \X
                        (IF Affects[SourceOf[n]] # {} THEN Affects[SourceOf[n]]
                                                      ELSE View \intersect {"alerts"})
  <2>1. n \in Write /\ SourceOf[n] \in Source /\ Affects[SourceOf[n]] \subseteq View
    BY ConstantsAssumption
  <2>2. fresh \subseteq Job
    BY <2>1 DEF Job, Kind
  <2>3. /\ status' = [j \in Job |-> IF j \in fresh THEN "READY" ELSE status[j]]
        /\ due' = due \union fresh
        /\ UNCHANGED attempts
    BY <1>2 DEF ReplayEvent, Enqueue
  <2> HIDE DEF fresh
  <2>4. /\ status' \in [Job -> {"absent", "READY", "PROCESSING", "FAILED",
                                "DONE", "DEAD"}]
        /\ attempts' \in [Job -> Nat]
        /\ due' \subseteq Job
    BY <2>2, <2>3 DEF TypeOK
  <2>5. pc' \in [Worker -> {"off", "idle", "scan", "batch", "rebuild", "mark",
                            "failing", "end"}]
    BY <1>2 DEF ReplayEvent, TypeOK
  <2> QED BY <1>2, <2>4, <2>5 DEF ReplayEvent, TypeOK, sources, views
<1>3. ASSUME NEW j \in Job, BecomeDue(j) PROVE TypeOK'
  BY <1>3 DEF BecomeDue, TypeOK, sources, views
<1>4. ASSUME NEW w \in Worker, Scan(w) PROVE TypeOK'
  <2>1. PICK found \in SUBSET Job :
          batch' = [batch EXCEPT ![w] = {<<j, attempts[j]>> : j \in found}]
    BY <1>4 DEF Scan, Scanned, Claimable
  <2>2. batch' \in [Worker -> SUBSET (Job \X Nat)]
    BY <2>1 DEF TypeOK
  <2> QED BY <1>4, <2>2 DEF Scan, TypeOK, sources, views, jobs
<1>5. ASSUME NEW w \in Worker, Idle(w) PROVE TypeOK'
  BY <1>5 DEF Idle, EndBatch, HandlerError, Abort, TypeOK, sources, views, jobs
<1>6. ASSUME NEW w \in Worker, WriteView(w) PROVE TypeOK'
  <2>1. view(claimed[w]) \in View
    BY <1>6, ClaimIsJob, JobParts DEF WriteView
  <2>2. reflected' \subseteq Write \X View
    BY <1>6, <2>1 DEF WriteView, TypeOK
  <2> QED BY <1>6, <2>2 DEF WriteView, TypeOK, sources, jobs
<1>7. ASSUME NEW w \in Worker, MarkSuccess(w) PROVE TypeOK'
  BY <1>7 DEF MarkSuccess, Release, TypeOK, sources, views
<1>8. ASSUME NEW w \in Worker, MarkFailure(w) PROVE TypeOK'
  BY <1>8 DEF MarkFailure, Release, TypeOK, sources, views
<1>9. ASSUME NEW w \in Worker, NEW doc \in batch[w], Claim(w, doc) PROVE TypeOK'
  <2>1. doc[1] \in Job /\ view(doc[1]) \in View
    BY DocTyped, JobParts
  <2>2. clashed' \subseteq View
    BY <1>9, <2>1 DEF Claim, Clash, TypeOK
  <2>3. /\ status' \in [Job -> {"absent", "READY", "PROCESSING", "FAILED",
                                "DONE", "DEAD"}]
        /\ attempts' \in [Job -> Nat]
        /\ claimed' \in [Worker -> Job \union {NoJob}]
    BY <1>9, <2>1 DEF Claim, TypeOK
  <2>4. /\ pc' \in [Worker -> {"off", "idle", "scan", "batch", "rebuild", "mark",
                               "failing", "end"}]
        /\ batch' \in [Worker -> SUBSET (Job \X Nat)]
    BY <1>9 DEF Claim, TypeOK
  <2> QED BY <1>9, <2>2, <2>3, <2>4 DEF Claim, TypeOK, sources, views
<1>10. ASSUME NEW w \in Worker, NEW doc \in batch[w], Skip(w, doc) PROVE TypeOK'
  BY <1>10 DEF Skip, TypeOK, sources, views, jobs
<1>11. ASSUME NEW w \in Worker, NEW i, Read(w, i) PROVE TypeOK'
  BY <1>11 DEF Read, TypeOK, sources, views, jobs
<1>12. ASSUME UNCHANGED vars PROVE TypeOK'
  BY <1>12 DEF vars, TypeOK
<1> QED
  BY <1>1, <1>2, <1>3, <1>4, <1>5, <1>6, <1>7, <1>8, <1>9, <1>10, <1>11, <1>12,
     NextCases DEF Take, Pass

-----------------------------------------------------------------------------
(* Requests and their jobs *)

(* Only a request's own commit moves it away from "off". *)
LEMMA OffStable ==
  ASSUME TypeOK, NEW w \in Worker,
         Scan(w) \/ Idle(w) \/ WriteView(w) \/ MarkSuccess(w) \/ MarkFailure(w)
         \/ Take(w) \/ Pass(w) \/ \E i \in Source \union View : Read(w, i)
  PROVE  \A u \in Worker : pc'[u] = "off" <=> pc[u] = "off"
BY DEF TypeOK, Scan, Idle, EndBatch, HandlerError, Abort, WriteView, MarkSuccess,
       MarkFailure, Release, Take, Claim, Pass, Skip, Read

(* A worker makes no job exist that did not exist. *)
LEMMA WorkerCreatesNone ==
  ASSUME TypeOK, RebuildInv, NEW w \in Worker,
         Scan(w) \/ Idle(w) \/ WriteView(w) \/ MarkSuccess(w) \/ MarkFailure(w)
         \/ Take(w) \/ Pass(w) \/ \E i \in Source \union View : Read(w, i)
  PROVE  /\ UNCHANGED sources
         /\ \A j \in Job : status'[j] # "absent" => status[j] # "absent"
<1>1. CASE MarkSuccess(w) \/ MarkFailure(w)
  BY <1>1, ClaimIsJob DEF MarkSuccess, MarkFailure, TypeOK
<1>2. CASE Take(w)
  BY <1>2, DocTyped DEF Take, Claim, Claimable, TypeOK
<1>3. CASE Scan(w) \/ Idle(w) \/ WriteView(w) \/ Pass(w)
           \/ \E i \in Source \union View : Read(w, i)
  BY <1>3 DEF Scan, Idle, EndBatch, HandlerError, Abort, WriteView, Pass, Skip,
              Read, jobs
<1> QED BY <1>1, <1>2, <1>3

LEMMA RequestsInductive ==
  ASSUME TypeOK, RequestInv, RebuildInv, [Next]_vars
  PROVE  RequestInv'
<1>1. ASSUME NEW n \in Write, CommitWrite(n) PROVE RequestInv'
  <2> DEFINE s == SourceOf[n]
  <2>1. s \in Source
    BY ConstantsAssumption
  <2>2. /\ version' = [version EXCEPT ![s] = @ + 1]
        /\ seq' = [seq EXCEPT ![n] = version[s] + 1]
        /\ pc[<<n, "event">>] = "off"
        /\ \E new \in {"scan", "end"} : pc' = [pc EXCEPT ![<<n, "event">>] = new]
    BY <1>1 DEF CommitWrite
  <2>3. status' = [j \in Job |-> IF j \in {n} \X {"event"} \X Affects[s]
                                 THEN "READY" ELSE status[j]]
    BY <1>1 DEF CommitWrite, Enqueue
  <2>4. ASSUME NEW m \in Write
        PROVE  /\ pc'[<<m, "event">>] = "off" <=> seq'[m] = 0
               /\ seq'[m] <= version'[SourceOf[m]]
    <3>1. SourceOf[m] \in Source
      BY ConstantsAssumption
    <3>2. seq'[m] <= version'[SourceOf[m]]
      <4>1. version[SourceOf[m]] \in Nat /\ version[s] \in Nat /\ seq[m] \in Nat
        BY <2>1, <3>1 DEF TypeOK
      <4>2. seq[m] <= version[SourceOf[m]]
        BY DEF RequestInv
      <4>3. version'[SourceOf[m]] = IF SourceOf[m] = s THEN version[s] + 1
                                                      ELSE version[SourceOf[m]]
        BY <2>1, <2>2, <3>1 DEF TypeOK
      <4>4. seq'[m] = IF m = n THEN version[s] + 1 ELSE seq[m]
        BY <2>2 DEF TypeOK
      <4> HIDE DEF s
      <4>5. m = n => SourceOf[m] = s
        BY DEF s
      <4> QED BY <4>1, <4>2, <4>3, <4>4, <4>5
    <3>3. CASE m = n
      BY <2>1, <2>2, <3>3, JobParts DEF TypeOK
    <3>4. CASE m # n
      <4>1. pc'[<<m, "event">>] = pc[<<m, "event">>] /\ seq'[m] = seq[m]
        BY <2>2, <3>4, JobParts DEF TypeOK
      <4> QED BY <3>2, <4>1 DEF RequestInv
    <3> QED BY <3>2, <3>3, <3>4
  <2>5. ASSUME NEW j \in Job, status'[j] # "absent"
        PROVE  /\ seq'[write(j)] > 0
               /\ j[2] = "replay" => write(j) \in Replayed
                                     /\ pc'[<<write(j), "replay">>] # "off"
    <3>1. write(j) \in Write
      BY JobParts
    <3>2. CASE j \in {n} \X {"event"} \X Affects[s]
      <4>1. write(j) = n /\ j[2] = "event"
        BY <3>2 DEF write
      <4>2. version[s] \in Nat /\ seq'[n] = version[s] + 1
        BY <2>1, <2>2 DEF TypeOK
      <4> HIDE DEF s
      <4> QED BY <4>1, <4>2
    <3>3. CASE j \notin {n} \X {"event"} \X Affects[s]
      <4>1. status[j] # "absent"
        BY <2>3, <2>5, <3>3
      <4>2. seq'[write(j)] > 0
        <5>1. seq[write(j)] > 0
          BY <4>1 DEF RequestInv
        <5>2. version[s] \in Nat
          BY <2>1 DEF TypeOK
        <5>3. seq'[write(j)] = IF write(j) = n THEN version[s] + 1 ELSE seq[write(j)]
          BY <2>2, <3>1 DEF TypeOK
        <5> HIDE DEF s
        <5> QED BY <5>1, <5>2, <5>3
      <4>3. ASSUME write(j) \in Replayed
            PROVE  pc'[<<write(j), "replay">>] = pc[<<write(j), "replay">>]
        BY <2>2, <4>3, JobParts DEF TypeOK
      <4> QED BY <4>1, <4>2, <4>3 DEF RequestInv
    <3> QED BY <3>2, <3>3
  <2> QED BY <2>4, <2>5 DEF RequestInv
<1>2. ASSUME NEW n \in Replayed, ReplayEvent(n) PROVE RequestInv'
  <2>1. /\ UNCHANGED <<version, seq>>
        /\ seq[n] > 0
        /\ pc' = [pc EXCEPT ![<<n, "replay">>] = "scan"]
    BY <1>2 DEF ReplayEvent, sources
  <2>2. ASSUME NEW j \in Job, status'[j] # "absent", status[j] = "absent"
        PROVE  write(j) = n
    BY <1>2, <2>2 DEF ReplayEvent, Enqueue, write
  <2>3. \A u \in Worker : u # <<n, "replay">> => pc'[u] = pc[u]
    BY <2>1 DEF TypeOK
  <2>4. pc'[<<n, "replay">>] = "scan"
    BY <2>1, JobParts DEF TypeOK
  <2>5. ASSUME NEW m \in Write
        PROVE  pc'[<<m, "event">>] = pc[<<m, "event">>]
    BY <2>3, JobParts
  <2>6. ASSUME NEW j \in Job, status'[j] # "absent"
        PROVE  /\ seq'[write(j)] > 0
               /\ j[2] = "replay" => write(j) \in Replayed
                                     /\ pc'[<<write(j), "replay">>] # "off"
    <3>1. CASE write(j) = n
      BY <2>1, <2>4, <3>1
    <3>2. CASE write(j) # n
      BY <2>1, <2>2, <2>3, <2>6, <3>2, JobParts DEF RequestInv
    <3> QED BY <3>1, <3>2
  <2> QED BY <2>1, <2>5, <2>6 DEF RequestInv
<1>3. ASSUME NEW j \in Job, BecomeDue(j) PROVE RequestInv'
  BY <1>3 DEF BecomeDue, RequestInv, sources
<1>4. ASSUME NEW w \in Worker,
             Scan(w) \/ Idle(w) \/ WriteView(w) \/ MarkSuccess(w) \/ MarkFailure(w)
             \/ Take(w) \/ Pass(w) \/ \E i \in Source \union View : Read(w, i)
      PROVE  RequestInv'
  <2>1. \A u \in Worker : pc'[u] = "off" <=> pc[u] = "off"
    BY <1>4, OffStable
  <2>2. /\ UNCHANGED <<version, seq>>
        /\ \A j \in Job : status'[j] # "absent" => status[j] # "absent"
    BY <1>4, WorkerCreatesNone DEF sources
  <2> QED BY <2>1, <2>2, JobParts DEF RequestInv
<1>5. ASSUME UNCHANGED vars PROVE RequestInv'
  BY <1>5 DEF vars, RequestInv
<1> QED BY <1>1, <1>2, <1>3, <1>4, <1>5, NextCases

(* The number of a committed write does not change, and the jobs that a
   request enqueues are new. *)
LEMMA SeqStable ==
  ASSUME TypeOK, RequestInv, RebuildInv, [Next]_vars, NEW n \in Write, seq[n] > 0
  PROVE  seq'[n] = seq[n]
<1>1. ASSUME NEW m \in Write, CommitWrite(m) PROVE seq'[n] = seq[n]
  <2>1. m # n
    BY <1>1 DEF CommitWrite, RequestInv
  <2> QED BY <1>1, <2>1 DEF CommitWrite, TypeOK
<1>2. ASSUME NEW m \in Replayed, ReplayEvent(m) PROVE seq'[n] = seq[n]
  BY <1>2 DEF ReplayEvent, sources
<1>3. ASSUME NEW j \in Job, BecomeDue(j) PROVE seq'[n] = seq[n]
  BY <1>3 DEF BecomeDue, sources
<1>4. ASSUME UNCHANGED vars PROVE seq'[n] = seq[n]
  BY <1>4 DEF vars
<1> QED BY <1>1, <1>2, <1>3, <1>4, NextCases, WorkerCreatesNone DEF sources

LEMMA EnqueueCreates ==
  ASSUME TypeOK, RequestInv, NEW n,
         Requested(n),
         NEW j \in Job, status[j] # "absent"
  PROVE  status'[j] = status[j]
<1>1. CASE n \in Write /\ CommitWrite(n)
  <2>1. status' = [i \in Job |-> IF i \in {n} \X {"event"} \X Affects[SourceOf[n]]
                                 THEN "READY" ELSE status[i]]
    BY <1>1 DEF CommitWrite, Enqueue
  <2>2. seq[n] = 0 /\ seq[write(j)] > 0
    BY <1>1 DEF CommitWrite, RequestInv
  <2>3. j \notin {n} \X {"event"} \X Affects[SourceOf[n]]
    BY <2>2 DEF write
  <2> QED BY <2>1, <2>3
<1>2. CASE n \in Replayed /\ ReplayEvent(n)
  <2> DEFINE on == IF Affects[SourceOf[n]] # {} THEN Affects[SourceOf[n]]
                                                ELSE View \intersect {"alerts"}
  <2>1. status' = [i \in Job |-> IF i \in {n} \X {"replay"} \X on
                                 THEN "READY" ELSE status[i]]
    BY <1>2 DEF ReplayEvent, Enqueue
  <2>2. pc[<<n, "replay">>] = "off"
    BY <1>2 DEF ReplayEvent
  <2>3. j[2] = "replay" => pc[<<write(j), "replay">>] # "off"
    BY DEF RequestInv
  <2> HIDE DEF on
  <2>4. j \notin {n} \X {"replay"} \X on
    BY <2>2, <2>3 DEF write
  <2> QED BY <2>1, <2>4
<1> QED BY <1>1, <1>2 DEF Requested

-----------------------------------------------------------------------------
(* Claims *)

LEMMA ClaimsInductive ==
  ASSUME TypeOK, RequestInv, RebuildInv, [Next]_vars
  PROVE  RebuildInv'
<1> USE DEF RebuildInv, OneHandlerPerJob
<1>1. ASSUME NEW n, Requested(n)
      PROVE  RebuildInv'
  <2>1. UNCHANGED claimed
    BY <1>1 DEF Requested, CommitWrite, ReplayEvent
  <2>2. \A w \in Worker : claimed[w] # NoJob => status'[claimed[w]] = "PROCESSING"
    BY <1>1, EnqueueCreates DEF TypeOK
  <2>3. \A w \in Worker : pc'[w] = pc[w] \/ (pc[w] = "off" /\ pc'[w] \in {"scan", "end"})
    BY <1>1, JobParts DEF Requested, CommitWrite, ReplayEvent, TypeOK
  <2> QED BY <2>1, <2>2, <2>3
<1>2. ASSUME NEW j \in Job, BecomeDue(j) PROVE RebuildInv'
  BY <1>2 DEF BecomeDue, TypeOK
<1>3. ASSUME NEW w \in Worker, Scan(w) \/ EndBatch(w) \/ HandlerError(w)
                               \/ WriteView(w) \/ Pass(w)
                               \/ \E i \in Source \union View : Read(w, i)
      PROVE  RebuildInv'
  BY <1>3 DEF Scan, EndBatch, HandlerError, WriteView, Pass, Skip, Read, jobs, TypeOK
<1>4. ASSUME NEW w \in Worker, Abort(w) PROVE RebuildInv'
  BY <1>4, ConstantsAssumption DEF Abort, jobs, TypeOK
<1>5. ASSUME NEW w \in Worker, MarkSuccess(w) PROVE RebuildInv'
  BY <1>5, ConstantsAssumption DEF MarkSuccess, Release, TypeOK
<1>6. ASSUME NEW w \in Worker, MarkFailure(w) PROVE RebuildInv'
  BY <1>6, ConstantsAssumption DEF MarkFailure, Release, TypeOK
<1>7. ASSUME NEW w \in Worker, NEW doc \in batch[w], Claim(w, doc)
      PROVE  RebuildInv'
  <2>1. doc[1] \in Job /\ doc[1] # NoJob
    BY DocTyped, ConstantsAssumption
  <2>2. status[doc[1]] # "PROCESSING"
    BY <1>7 DEF Claim, Claimable
  <2>3. \A u \in Worker : claimed[u] # doc[1]
    BY <2>1, <2>2
  <2> QED BY <1>7, <2>1, <2>2, <2>3 DEF Claim, TypeOK
<1>8. ASSUME UNCHANGED vars PROVE RebuildInv'
  BY <1>8 DEF vars, TypeOK
<1> QED
  BY <1>1, <1>2, <1>3, <1>4, <1>5, <1>6, <1>7, <1>8, NextCases
  DEF Idle, Take, Requested

-----------------------------------------------------------------------------
(* What a rebuild reads and shows *)

LEMMA ReflectedGrows ==
  ASSUME [Next]_vars
  PROVE  reflected \subseteq reflected'
BY NextCases
DEF vars, views, CommitWrite, ReplayEvent, BecomeDue, Scan, Idle, EndBatch,
    HandlerError, Abort, WriteView, MarkSuccess, MarkFailure, Take, Claim, Pass,
    Skip, Read

(* A write that a rebuild has read is shown by the view it sets. *)
LEMMA WriteViewKeeps ==
  ASSUME TypeOK, RequestInv, RebuildInv, ReadInv, NEW w \in Worker, WriteView(w)
  PROVE  Kept(claimed[w])'
<1> DEFINE j == claimed[w]
           n == write(j)
           v == view(j)
<1>1. j \in Job /\ status[j] = "PROCESSING" /\ pc[w] = "rebuild"
  BY ClaimIsJob DEF WriteView
<1>2. n \in Write /\ v \in View /\ seq[n] > 0
  BY <1>1, JobParts DEF RequestInv
<1>3. claimed' = claimed /\ seq' = seq
  BY DEF WriteView, sources
<1>4. SUFFICES ASSUME SourceOf[n] \in Reads[v] PROVE <<n, v>> \in reflected'
  BY <1>3 DEF Kept
<1>5. PICK p \in got[w] : p[1] = SourceOf[n]
  BY <1>4 DEF WriteView
<1>6. seq[n] <= p[2]
  BY <1>5 DEF ReadInv, ReadOK
<1> QED BY <1>2, <1>5, <1>6 DEF WriteView

(* What the worker w has read stays right as long as it keeps it. *)
LEMMA ReadsStay ==
  ASSUME TypeOK, RequestInv, RebuildInv, ReadInv, [Next]_vars, NEW w \in Worker,
         claimed'[w] = claimed[w], got'[w] = got[w],
         \/ pc'[w] = pc[w]
         \/ got[w] = {} /\ pc'[w] # "mark"
         \/ pc'[w] = "failing"
  PROVE  ReadOK(w)'
<1>1. got[w] # {} => seq'[write(claimed[w])] = seq[write(claimed[w])]
  <2> HAVE got[w] # {}
  <2>1. claimed[w] \in Job /\ status[claimed[w]] = "PROCESSING"
    BY ClaimIsJob DEF ReadInv, ReadOK
  <2> QED BY <2>1, SeqStable, JobParts DEF RequestInv
<1>2. ReadOK(w) /\ reflected \subseteq reflected'
  BY ReflectedGrows DEF ReadInv
<1>3. got'[w] # {} => pc'[w] \in {"rebuild", "mark", "failing"}
  BY <1>2 DEF ReadOK
<1>4. ASSUME NEW p \in got'[w], p[1] = SourceOf[write(claimed'[w])]
      PROVE  p[2] \in Nat /\ seq'[write(claimed'[w])] <= p[2]
  BY <1>1, <1>2, <1>4 DEF ReadOK
<1>5. pc'[w] = "mark" => Kept(claimed[w])
  BY <1>2 DEF ReadOK
<1>6. pc'[w] = "mark" => Kept(claimed[w])'
  BY <1>2, <1>5 DEF Kept
<1> QED BY <1>3, <1>4, <1>6 DEF ReadOK

LEMMA ReadsInductive ==
  ASSUME TypeOK, RequestInv, RebuildInv, ReadInv, [Next]_vars
  PROVE  ReadInv'
<1>1. SUFFICES ASSUME NEW u \in Worker PROVE ReadOK(u)'
  BY DEF ReadInv
<1>2. \A w \in Worker : pc[w] \notin {"rebuild", "mark", "failing"} => got[w] = {}
  BY DEF ReadInv, ReadOK
<1>3. ASSUME NEW n, Requested(n)
      PROVE  ReadOK(u)'
  <2>1. UNCHANGED <<claimed, got>>
    BY <1>3 DEF Requested, CommitWrite, ReplayEvent
  <2>2. pc'[u] = pc[u] \/ (pc[u] = "off" /\ pc'[u] \in {"scan", "end"})
    BY <1>3, JobParts DEF Requested, CommitWrite, ReplayEvent, TypeOK
  <2>3. pc'[u] = pc[u] \/ (got[u] = {} /\ pc'[u] # "mark")
    BY <1>2, <2>2
  <2> QED BY <2>1, <2>3, ReadsStay
<1>4. ASSUME (\E j \in Job : BecomeDue(j)) \/ UNCHANGED vars PROVE ReadOK(u)'
  <2>1. UNCHANGED <<pc, claimed, got>>
    BY <1>4 DEF BecomeDue, vars
  <2> QED BY <2>1, ReadsStay
<1>5. ASSUME NEW w \in Worker, w # u,
             Scan(w) \/ Idle(w) \/ WriteView(w) \/ MarkSuccess(w) \/ MarkFailure(w)
             \/ Take(w) \/ Pass(w) \/ \E i \in Source \union View : Read(w, i)
      PROVE  ReadOK(u)'
  <2>1. pc'[u] = pc[u] /\ claimed'[u] = claimed[u] /\ got'[u] = got[u]
    BY <1>5
    DEF TypeOK, Scan, Idle, EndBatch, HandlerError, Abort, WriteView, MarkSuccess,
        MarkFailure, Release, Take, Claim, Pass, Skip, Read
  <2> QED BY <2>1, ReadsStay
<1>6. ASSUME Scan(u) \/ EndBatch(u) \/ HandlerError(u) \/ Pass(u) PROVE ReadOK(u)'
  <2>1. UNCHANGED <<claimed, got>>
    BY <1>6 DEF Scan, EndBatch, HandlerError, Pass, Skip
  <2>2. \/ pc'[u] = pc[u]
        \/ pc'[u] = "failing"
        \/ pc[u] \in {"scan", "idle", "batch"} /\ pc'[u] # "mark"
    BY <1>6 DEF Scan, EndBatch, HandlerError, Pass, Skip, TypeOK
  <2>3. \/ pc'[u] = pc[u]
        \/ got[u] = {} /\ pc'[u] # "mark"
        \/ pc'[u] = "failing"
    BY <1>2, <2>2
  <2> QED BY <2>1, <2>3, ReadsStay
<1>7. ASSUME Abort(u) \/ MarkSuccess(u) \/ MarkFailure(u) PROVE ReadOK(u)'
  <2>1. got'[u] = {} /\ pc'[u] # "mark"
    BY <1>7 DEF Abort, MarkSuccess, MarkFailure, Release, TypeOK
  <2> QED BY <2>1 DEF ReadOK
<1>8. ASSUME Take(u) PROVE ReadOK(u)'
  <2>1. got'[u] = {} /\ pc'[u] # "mark"
    BY <1>2, <1>8 DEF Take, Claim, TypeOK
  <2> QED BY <2>1 DEF ReadOK
<1>9. ASSUME NEW i \in Source \union View, Read(u, i) PROVE ReadOK(u)'
  <2> DEFINE n == write(claimed[u])
  <2>1. /\ pc[u] = "rebuild"
        /\ got'[u] = got[u] \union {<<i, Content(i)>>}
        /\ UNCHANGED <<version, seq, pc, claimed>>
    BY <1>9 DEF Read, TypeOK, sources
  <2>2. n \in Write
    BY <2>1, ClaimIsJob, JobParts
  <2>3. i = SourceOf[n] => Content(i) \in Nat /\ seq[n] <= Content(i)
    BY <2>2, ConstantsAssumption DEF Content, RequestInv, TypeOK
  <2>4. \A p \in got[u] : p[1] = SourceOf[n] => p[2] \in Nat /\ seq[n] <= p[2]
    BY DEF ReadInv, ReadOK
  <2> HIDE DEF n
  <2>5. \A p \in got'[u] : p[1] = SourceOf[n] => p[2] \in Nat /\ seq[n] <= p[2]
    BY <2>1, <2>3, <2>4
  <2> QED BY <2>1, <2>5 DEF ReadOK, n
<1>10. ASSUME WriteView(u) PROVE ReadOK(u)'
  <2>1. /\ UNCHANGED <<seq, claimed, got>>
        /\ pc[u] = "rebuild" /\ pc'[u] = "mark"
    BY <1>10 DEF WriteView, sources, TypeOK
  <2>2. Kept(claimed[u])'
    BY <1>10, WriteViewKeeps
  <2>3. ReadOK(u)
    BY DEF ReadInv
  <2> QED BY <2>1, <2>2, <2>3 DEF ReadOK
<1> QED
  BY <1>3, <1>4, <1>5, <1>6, <1>7, <1>8, <1>9, <1>10, NextCases
  DEF Idle, Requested

(* Only markSuccess makes a job DONE, after its view was set. *)
LEMMA DoneInductive ==
  ASSUME TypeOK, RequestInv, RebuildInv, ReadInv, DoneJobsKept, [Next]_vars
  PROVE  DoneJobsKept'
<1>1. SUFFICES ASSUME NEW j \in Job, status'[j] = "DONE" PROVE Kept(j)'
  BY DEF DoneJobsKept
<1>2. SUFFICES Kept(j)
  BY ReflectedGrows DEF Kept
<1>3. CASE status[j] = "DONE"
  BY <1>3 DEF DoneJobsKept
<1>4. CASE status[j] # "DONE"
  <2>1. ASSUME NEW n, Requested(n)
        PROVE  FALSE
    BY <1>1, <1>4, <2>1 DEF Requested, CommitWrite, ReplayEvent, Enqueue
  <2>2. ASSUME NEW w \in Worker, MarkFailure(w) PROVE FALSE
    BY <1>1, <1>4, <2>2 DEF MarkFailure, TypeOK
  <2>3. ASSUME NEW w \in Worker, NEW doc \in batch[w], Claim(w, doc) PROVE FALSE
    BY <1>1, <1>4, <2>3 DEF Claim, TypeOK
  <2>4. ASSUME \/ \E i \in Job : BecomeDue(i)
               \/ \E w \in Worker :
                    \/ Scan(w) \/ Idle(w) \/ WriteView(w) \/ Pass(w)
                    \/ \E i \in Source \union View : Read(w, i)
               \/ UNCHANGED vars
        PROVE  FALSE
    <3>1. UNCHANGED status
      BY <2>4
      DEF BecomeDue, Scan, Idle, EndBatch, HandlerError, Abort, WriteView, Pass,
          Skip, Read, jobs, vars
    <3> QED BY <1>1, <1>4, <3>1
  <2>5. PICK w \in Worker : MarkSuccess(w)
    BY <2>1, <2>2, <2>3, <2>4, NextCases DEF Requested, Take
  <2>6. claimed[w] = j
    BY <1>1, <1>4, <2>5 DEF MarkSuccess, TypeOK
  <2> QED BY <2>5, <2>6 DEF MarkSuccess, ReadInv, ReadOK
<1> QED BY <1>3, <1>4

(* The invariant that the other theorems rest on. *)
THEOREM JobCorrect == Spec => [](TypeOK /\ JobInv)
<1>1. Init => TypeOK /\ JobInv
  <2> SUFFICES ASSUME Init PROVE TypeOK /\ JobInv
    OBVIOUS
  <2>1. TypeOK
    BY DEF Init, TypeOK
  <2>2. RequestInv
    BY JobParts, ConstantsAssumption DEF Init, RequestInv
  <2>3. RebuildInv /\ ReadInv /\ DoneJobsKept
    BY DEF Init, RebuildInv, OneHandlerPerJob, ReadInv, ReadOK, DoneJobsKept
  <2> QED BY <2>1, <2>2, <2>3 DEF JobInv
<1>2. TypeOK /\ JobInv /\ [Next]_vars => (TypeOK /\ JobInv)'
  BY Typed, RequestsInductive, ClaimsInductive, ReadsInductive, DoneInductive
  DEF JobInv
<1> QED BY <1>1, <1>2, PTL DEF Spec

(* A DONE job's view has shown its write. *)
THEOREM JobsKept == Spec => []DoneJobsKept
<1>1. JobInv => DoneJobsKept
  BY DEF JobInv
<1> QED BY <1>1, JobCorrect, PTL

(* No two workers handle the same job. *)
THEOREM JobsExclusive == Spec => []OneHandlerPerJob
<1>1. JobInv => OneHandlerPerJob
  BY DEF JobInv, RebuildInv
<1> QED BY <1>1, JobCorrect, PTL

-----------------------------------------------------------------------------
(* Tries, and jobs of committed writes *)

LEMMA TriesInductive ==
  ASSUME TypeOK, RequestInv, RebuildInv, TriesBounded, [Next]_vars
  PROVE  TriesBounded'
<1>1. ASSUME UNCHANGED jobs PROVE TriesBounded'
  BY <1>1 DEF jobs, TriesBounded
<1>2. ASSUME NEW fresh, Enqueue(fresh), \A j \in Job \intersect fresh : status[j] = "absent"
      PROVE  TriesBounded'
  BY <1>2 DEF Enqueue, TriesBounded, TypeOK
<1>3. ASSUME NEW n \in Write, CommitWrite(n) PROVE TriesBounded'
  <2> DEFINE fresh == {n} \X {"event"} \X Affects[SourceOf[n]]
  <2>1. \A j \in Job \intersect fresh : status[j] = "absent"
    <3>1. seq[n] = 0
      BY <1>3 DEF CommitWrite, RequestInv
    <3>2. ASSUME NEW j \in Job \intersect fresh PROVE j[1] = n
      OBVIOUS
    <3>3. ASSUME NEW j \in Job, j[1] = n PROVE status[j] = "absent"
      <4>1. status[j] # "absent" => seq[j[1]] > 0
        BY DEF RequestInv, write
      <4>2. ~(seq[j[1]] > 0)
        BY <3>1, <3>3
      <4> QED BY <4>1, <4>2
    <3> QED BY <3>2, <3>3
  <2>2. Enqueue(fresh)
    BY <1>3 DEF CommitWrite
  <2> HIDE DEF fresh
  <2> QED BY <1>2, <2>1, <2>2
<1>4. ASSUME NEW n \in Replayed, ReplayEvent(n) PROVE TriesBounded'
  <2> DEFINE S == SourceOf[n]
             V == IF Affects[S] # {} THEN Affects[S] ELSE View \intersect {"alerts"}
             fresh == {n} \X {"replay"} \X V
  <2>1. \A j \in Job \intersect fresh : status[j] = "absent"
    <3>1. ASSUME NEW j \in Job \intersect fresh PROVE j[1] = n /\ j[2] = "replay"
      OBVIOUS
    <3> QED BY <1>4, <3>1 DEF ReplayEvent, RequestInv, write
  <2>2. Enqueue(fresh)
    BY <1>4 DEF ReplayEvent
  <2> HIDE DEF fresh
  <2> QED BY <1>2, <2>1, <2>2
<1>5. ASSUME NEW w \in Worker, Take(w) PROVE TriesBounded'
  <2>1. PICK doc \in batch[w] : Claim(w, doc)
    BY <1>5 DEF Take
  <2> DEFINE j == doc[1]
  <2>2. /\ j \in Job /\ status[j] \in {"READY", "FAILED"}
        /\ status' = [status EXCEPT ![j] = "PROCESSING"]
        /\ attempts' = [attempts EXCEPT ![j] = @ + 1]
    BY <2>1, DocTyped DEF Claim, Claimable
  <2>3. attempts[j] < MaxAttempts /\ attempts[j] \in Nat /\ MaxAttempts \in Nat
    BY <2>2, ConstantsAssumption DEF TriesBounded, TypeOK
  <2> HIDE DEF j
  <2> QED BY <2>2, <2>3 DEF TriesBounded, TypeOK
<1>6. ASSUME NEW w \in Worker, MarkSuccess(w) PROVE TriesBounded'
  BY <1>6, ClaimIsJob DEF MarkSuccess, TriesBounded, TypeOK
<1>7. ASSUME NEW w \in Worker, MarkFailure(w) PROVE TriesBounded'
  <2>1. claimed[w] \in Job /\ attempts[claimed[w]] \in Nat /\ MaxAttempts \in Nat
    BY <1>7, ClaimIsJob, ConstantsAssumption DEF MarkFailure, TypeOK
  <2> QED BY <1>7, <2>1 DEF MarkFailure, TriesBounded, TypeOK
<1>8. ASSUME NEW j \in Job, BecomeDue(j) PROVE TriesBounded'
  BY <1>8 DEF BecomeDue, TriesBounded
<1>9. ASSUME NEW w \in Worker,
             \/ Scan(w) \/ Idle(w) \/ WriteView(w) \/ Pass(w)
             \/ \E i \in Source \union View : Read(w, i)
      PROVE  TriesBounded'
  BY <1>1, <1>9 DEF Scan, Idle, EndBatch, HandlerError, Abort, WriteView, Pass, Skip, Read
<1>10. CASE UNCHANGED vars
  BY <1>1, <1>10 DEF vars, jobs
<1> QED
  BY <1>3, <1>4, <1>5, <1>6, <1>7, <1>8, <1>9, <1>10, NextCases

(* A job is tried MaxAttempts times at most, and is dead after no fewer. *)
THEOREM TriesCorrect == Spec => []TriesBounded
<1>1. Init => TriesBounded
  BY ConstantsAssumption DEF Init, TriesBounded
<1>2. (TypeOK /\ JobInv) /\ TriesBounded /\ [Next]_vars => TriesBounded'
  BY TriesInductive DEF JobInv
<1> QED BY <1>1, <1>2, JobCorrect, PTL DEF Spec

(* A committed write has a job for each view that its rule names. *)
Enqueued ==
  \A n \in Write : \A v \in Affects[SourceOf[n]] :
    seq[n] > 0 => status[<<n, "event", v>>] # "absent"

LEMMA EnqueuedInductive ==
  ASSUME TypeOK, RebuildInv, Enqueued, [Next]_vars
  PROVE  Enqueued'
<1> DEFINE EventJob(n, v) == <<n, "event", v>>
<1>0. ASSUME NEW n \in Write, NEW v \in Affects[SourceOf[n]]
      PROVE  EventJob(n, v) \in Job
  BY <1>0, ConstantsAssumption DEF Job, Kind
<1>1. ASSUME UNCHANGED seq, \A j \in Job : status[j] # "absent" => status'[j] # "absent"
      PROVE  Enqueued'
  BY <1>0, <1>1 DEF Enqueued
<1>2. ASSUME NEW n \in Write, CommitWrite(n) PROVE Enqueued'
  <2> SUFFICES ASSUME NEW m \in Write, NEW v \in Affects[SourceOf[m]], seq'[m] > 0
               PROVE  status'[<<m, "event", v>>] # "absent"
    BY DEF Enqueued
  <2>1. <<m, "event", v>> \in Job
    BY <1>0
  <2>2. CASE m = n
    BY <1>2, <2>1, <2>2 DEF CommitWrite, Enqueue
  <2>3. CASE m # n
    <3>1. status[<<m, "event", v>>] # "absent"
      BY <1>2, <2>3 DEF CommitWrite, Enqueued, TypeOK
    <3> QED BY <1>2, <2>1, <3>1 DEF CommitWrite, Enqueue
  <2> QED BY <2>2, <2>3
<1>3. ASSUME NEW n \in Replayed, ReplayEvent(n) PROVE Enqueued'
  BY <1>1, <1>3 DEF ReplayEvent, Enqueue, sources
<1>4. ASSUME NEW w \in Worker, Take(w) \/ MarkSuccess(w) \/ MarkFailure(w)
      PROVE  Enqueued'
  BY <1>1, <1>4 DEF Take, Claim, MarkSuccess, MarkFailure, sources, TypeOK
<1>5. ASSUME UNCHANGED <<seq, status>> PROVE Enqueued'
  BY <1>1, <1>5
<1>6. ASSUME NEW j \in Job, BecomeDue(j) PROVE Enqueued'
  BY <1>5, <1>6 DEF BecomeDue, sources
<1>7. ASSUME NEW w \in Worker,
             \/ Scan(w) \/ Idle(w) \/ WriteView(w) \/ Pass(w)
             \/ \E i \in Source \union View : Read(w, i)
      PROVE  Enqueued'
  BY <1>5, <1>7 DEF Scan, Idle, EndBatch, HandlerError, Abort, WriteView, Pass, Skip,
     Read, sources, jobs
<1>8. CASE UNCHANGED vars
  BY <1>5, <1>8 DEF vars
<1> QED
  BY <1>2, <1>3, <1>4, <1>6, <1>7, <1>8, NextCases

(* A write is shown by each view that its rule names, or a job of it remains:
   enqueueing with the write, and claims that exclude, lose none. *)
THEOREM WritesCorrect == Spec => []WritesFollowed
<1>1. Init => Enqueued
  BY ConstantsAssumption DEF Init, Enqueued
<1>2. (TypeOK /\ JobInv) /\ Enqueued /\ [Next]_vars => Enqueued'
  BY EnqueuedInductive DEF JobInv
<1>3. (TypeOK /\ JobInv) /\ Enqueued => WritesFollowed
  <2> SUFFICES ASSUME TypeOK, JobInv, Enqueued, NEW n \in Write,
                      NEW v \in Affects[SourceOf[n]], seq[n] > 0,
                      SourceOf[n] \in Reads[v]
               PROVE  \/ <<n, v>> \in reflected
                      \/ status[<<n, "event", v>>] \in {"READY", "PROCESSING", "FAILED", "DEAD"}
    BY DEF WritesFollowed
  <2> DEFINE j == <<n, "event", v>>
  <2>1. j \in Job /\ write(j) = n /\ view(j) = v
    BY ConstantsAssumption DEF Job, Kind, write, view
  <2>2. status[j] # "absent"
    BY DEF Enqueued
  <2>3. status[j] = "DONE" => <<n, v>> \in reflected
    BY <2>1 DEF JobInv, DoneJobsKept, Kept
  <2> QED BY <2>1, <2>2, <2>3 DEF TypeOK
<1> QED BY <1>1, <1>2, <1>3, JobCorrect, PTL DEF Spec

-----------------------------------------------------------------------------
(* Views catch up *)

(* Rebuilds read the inputs of their view, each once, and views show what was
   read. *)
LEMMA InputsInductive ==
  ASSUME TypeOK, RequestInv, RebuildInv, ReadInv, InputInv, [Next]_vars
  PROVE  InputInv'
<1> USE DEF InputInv
<1>1. ASSUME NEW n, Requested(n) PROVE InputInv'
  BY <1>1 DEF Requested, CommitWrite, ReplayEvent, views, OnePerInput
<1>2. ASSUME NEW w \in Worker, Scan(w) \/ EndBatch(w) \/ HandlerError(w) \/ Pass(w)
      PROVE  InputInv'
  BY <1>2 DEF Scan, EndBatch, HandlerError, Pass, Skip, views, OnePerInput
<1>3. ASSUME NEW w \in Worker, Abort(w) \/ MarkSuccess(w) \/ MarkFailure(w)
      PROVE  InputInv'
  BY <1>3, ConstantsAssumption
  DEF Abort, MarkSuccess, MarkFailure, Release, views, TypeOK, OnePerInput
<1>4. ASSUME NEW w \in Worker, Take(w) PROVE InputInv'
  <2>1. PICK doc \in batch[w] : Claim(w, doc)
    BY <1>4 DEF Take
  <2>2. got[w] = {}
    BY <2>1 DEF Claim, ReadInv, ReadOK
  <2> QED BY <2>1, <2>2 DEF Claim, views, TypeOK, OnePerInput
<1>5. ASSUME NEW w \in Worker, NEW i \in Source \union View, Read(w, i) PROVE InputInv'
  <2>1. claimed[w] # NoJob
    BY <1>5 DEF Read, RebuildInv
  <2>2. OnePerInput(got'[w], view(claimed[w]))
    BY <1>5, <2>1 DEF Read, TypeOK, OnePerInput
  <2>3. UNCHANGED <<claimed, shows>> /\ \A u \in Worker : u # w => got'[u] = got[u]
    BY <1>5 DEF Read, TypeOK, views
  <2> QED BY <2>2, <2>3 DEF OnePerInput
<1>6. ASSUME NEW w \in Worker, WriteView(w) PROVE InputInv'
  <2>1. claimed[w] # NoJob
    BY <1>6 DEF WriteView, RebuildInv
  <2>2. UNCHANGED <<claimed, got>>
    BY <1>6 DEF WriteView
  <2>3. \A v \in View : \/ shows'[v] = shows[v]
                        \/ v = view(claimed[w]) /\ shows'[v] = got[w]
    BY <1>6 DEF WriteView, TypeOK
  <2> QED BY <2>1, <2>2, <2>3 DEF OnePerInput
<1>7. ASSUME (\E j \in Job : BecomeDue(j)) \/ UNCHANGED vars PROVE InputInv'
  BY <1>7 DEF BecomeDue, vars, views, OnePerInput
<1> QED
  BY <1>1, <1>2, <1>3, <1>4, <1>5, <1>6, <1>7, NextCases DEF Idle, Requested

(* The views that are to follow their collections, with everything that is
   known about one of them. *)
Following(v) == OneRebuild(v) /\ ReadsFollowed(v) /\ ViewFollowed(v)

(* A job that is left to do is left to do until markSuccess. *)
LEMMA OutstandingStays ==
  ASSUME TypeOK, RequestInv, RebuildInv, [Next]_vars, NEW v, NEW j \in Outstanding(v),
         \A w \in Worker : MarkSuccess(w) => claimed[w] # j
  PROVE  j \in Outstanding(v)'
<1> USE DEF Outstanding
<1>1. ASSUME NEW n, Requested(n) PROVE status'[j] = status[j]
  BY <1>1, EnqueueCreates
<1>2. ASSUME NEW w \in Worker, Take(w) PROVE status'[j] \in {status[j], "PROCESSING"}
  BY <1>2, DocTyped DEF Take, Claim, TypeOK
<1>3. ASSUME NEW w \in Worker, MarkFailure(w)
      PROVE  status'[j] \in {status[j], "FAILED", "DEAD"}
  BY <1>3 DEF MarkFailure, TypeOK
<1>4. ASSUME NEW w \in Worker, MarkSuccess(w) PROVE status'[j] = status[j]
  BY <1>4 DEF MarkSuccess, TypeOK
<1>5. ASSUME \/ \E i \in Job : BecomeDue(i)
             \/ \E w \in Worker :
                  \/ Scan(w) \/ Idle(w) \/ WriteView(w) \/ Pass(w)
                  \/ \E i \in Source \union View : Read(w, i)
             \/ UNCHANGED vars
      PROVE  status' = status
  BY <1>5 DEF BecomeDue, Scan, Idle, EndBatch, HandlerError, Abort, WriteView, Pass,
              Skip, Read, jobs, vars
<1>6. status'[j] \in {status[j], "PROCESSING", "FAILED", "DEAD"}
  BY <1>1, <1>2, <1>3, <1>4, <1>5, NextCases DEF Requested
<1> QED BY <1>6

(* A write to a collection that such a view reads enqueues a new job for it. *)
LEMMA CommitQueues ==
  ASSUME TypeOK, RequestInv, NEW n \in Write, CommitWrite(n),
         NEW v \in Tables, SourceOf[n] \in Reads[v]
  PROVE  \E j \in Outstanding(v)' : status[j] = "absent"
<1> DEFINE j == <<n, "event", v>>
<1>1. v \in View /\ v \in Affects[SourceOf[n]]
  BY DEF Tables
<1>2. j \in Job /\ view(j) = v /\ write(j) = n
  BY <1>1 DEF Job, Kind, view, write
<1>3. status' = [i \in Job |-> IF i \in {n} \X {"event"} \X Affects[SourceOf[n]]
                               THEN "READY" ELSE status[i]]
  BY DEF CommitWrite, Enqueue
<1>4. status'[j] = "READY"
  BY <1>1, <1>2, <1>3
<1>5. seq[n] = 0
  BY DEF CommitWrite, RequestInv
<1> HIDE DEF j
<1>6. status[j] # "absent" => seq[n] > 0
  BY <1>2 DEF RequestInv
<1>7. status[j] = "absent"
  BY <1>5, <1>6
<1> QED BY <1>2, <1>4, <1>7 DEF Outstanding

(* Only a write changes what a collection holds. *)
LEMMA VersionSteps ==
  ASSUME TypeOK, RebuildInv, [Next]_vars, NEW s, version'[s] # version[s]
  PROVE  \E n \in Write : CommitWrite(n) /\ s = SourceOf[n]
<1>1. ASSUME NEW n \in Replayed, ReplayEvent(n) PROVE version' = version
  BY <1>1 DEF ReplayEvent, sources
<1>2. ASSUME NEW j \in Job, BecomeDue(j) PROVE version' = version
  BY <1>2 DEF BecomeDue, sources
<1>3. PICK n \in Write : CommitWrite(n)
  BY <1>1, <1>2, NextCases, WorkerCreatesNone DEF vars, sources
<1>4. version' = [version EXCEPT ![SourceOf[n]] = @ + 1]
  BY <1>3 DEF CommitWrite
<1>5. s = SourceOf[n]
  BY <1>4 DEF TypeOK
<1> QED BY <1>3, <1>5

LEMMA RebuildsExclude ==
  ASSUME TypeOK, RequestInv, RebuildInv, ReadInv, [Next]_vars,
         NEW v \in View, v \notin clashed', OneRebuild(v)
  PROVE  OneRebuild(v)'
<1>1. ASSUME \A w \in Worker : claimed'[w] \in {claimed[w], NoJob} PROVE OneRebuild(v)'
  BY <1>1 DEF OneRebuild, At
<1>2. ASSUME NEW w \in Worker, Take(w) PROVE OneRebuild(v)'
  <2>1. PICK doc \in batch[w] : Claim(w, doc)
    BY <1>2 DEF Take
  <2>2. v = view(doc[1]) => \A u \in Worker \ {w} : ~At(u, v)
    BY <2>1 DEF Claim, Clash, At
  <2>3. claimed' = [claimed EXCEPT ![w] = doc[1]]
    BY <2>1 DEF Claim
  <2> QED BY <2>2, <2>3 DEF OneRebuild, At, TypeOK
<1>3. ASSUME NEW w \in Worker, Abort(w) \/ MarkSuccess(w) \/ MarkFailure(w)
      PROVE  \A u \in Worker : claimed'[u] \in {claimed[u], NoJob}
  BY <1>3 DEF Abort, MarkSuccess, MarkFailure, Release, TypeOK
<1>4. ASSUME \/ \E n : Requested(n)
             \/ \E i \in Job : BecomeDue(i)
             \/ \E w \in Worker :
                  \/ Scan(w) \/ EndBatch(w) \/ HandlerError(w) \/ WriteView(w) \/ Pass(w)
                  \/ \E i \in Source \union View : Read(w, i)
             \/ UNCHANGED vars
      PROVE  claimed' = claimed
  BY <1>4 DEF Requested, CommitWrite, ReplayEvent, BecomeDue, Scan, EndBatch,
              HandlerError, WriteView, Pass, Skip, Read, vars
<1> QED BY <1>1, <1>2, <1>3, <1>4, NextCases DEF Idle, Requested

(* The job that will see what a rebuild has missed is not the rebuild's own,
   and no other rebuild of the view can finish it. *)
LEMMA WitnessStays ==
  ASSUME TypeOK, RequestInv, RebuildInv, [Next]_vars, NEW v \in View, OneRebuild(v),
         NEW w \in Worker, At(w, v), NEW j \in Outstanding(v), j # claimed[w]
  PROVE  j \in Outstanding(v)'
<1>1. ASSUME NEW u \in Worker, MarkSuccess(u), claimed[u] = j PROVE FALSE
  <2>1. claimed[u] # NoJob
    BY <1>1 DEF MarkSuccess, RebuildInv
  <2>2. At(u, v)
    BY <1>1, <2>1 DEF At, Outstanding
  <2>3. u = w
    BY <2>2 DEF OneRebuild
  <2> QED BY <1>1, <2>3
<1> QED BY <1>1, OutstandingStays

LEMMA ReadsFollow ==
  ASSUME TypeOK, RequestInv, RebuildInv, ReadInv, InputInv, [Next]_vars,
         NEW v \in Tables, v \notin clashed', OneRebuild(v), ReadsFollowed(v)
  PROVE  ReadsFollowed(v)'
<1>0. v \in View
  BY DEF Tables
<1>1. SUFFICES ASSUME NEW u \in Worker, At(u, v)', NEW p \in got'[u]
               PROVE  \/ p = <<p[1], version'[p[1]]>>
                      \/ \E j \in Outstanding(v)' : j # claimed'[u]
  BY DEF ReadsFollowed
<1>2. ASSUME p \in got[u], At(u, v), claimed'[u] = claimed[u]
      PROVE  \/ p = <<p[1], version'[p[1]]>>
             \/ \E j \in Outstanding(v)' : j # claimed'[u]
  <2>1. CASE \E j \in Outstanding(v) : j # claimed[u]
    BY <1>0, <1>2, <2>1, WitnessStays
  <2>2. CASE p = <<p[1], version[p[1]]>>
    <3>1. CASE version'[p[1]] = version[p[1]]
      BY <2>2, <3>1
    <3>2. CASE version'[p[1]] # version[p[1]]
      <4>1. PICK n \in Write : CommitWrite(n) /\ p[1] = SourceOf[n]
        BY <3>2, VersionSteps
      <4>2. p[1] \in Reads[v]
        BY <1>2 DEF InputInv, OnePerInput, At
      <4>3. PICK j \in Outstanding(v)' : status[j] = "absent"
        BY <4>1, <4>2, CommitQueues
      <4>4. status[claimed[u]] = "PROCESSING"
        BY <1>2 DEF At, RebuildInv
      <4> QED BY <1>2, <4>3, <4>4
    <3> QED BY <3>1, <3>2
  <2> QED BY <1>2, <2>1, <2>2 DEF ReadsFollowed
<1>3. ASSUME NEW n, Requested(n) PROVE UNCHANGED <<claimed, got>>
  BY <1>3 DEF Requested, CommitWrite, ReplayEvent
<1>4. ASSUME (\E j \in Job : BecomeDue(j)) \/ UNCHANGED vars
      PROVE  UNCHANGED <<claimed, got>>
  BY <1>4 DEF BecomeDue, vars
<1>5. ASSUME NEW w \in Worker,
             Scan(w) \/ EndBatch(w) \/ HandlerError(w) \/ WriteView(w) \/ Pass(w)
      PROVE  UNCHANGED <<claimed, got>>
  BY <1>5 DEF Scan, EndBatch, HandlerError, WriteView, Pass, Skip
<1>6. ASSUME NEW w \in Worker, Abort(w) \/ MarkSuccess(w) \/ MarkFailure(w)
      PROVE  w # u /\ claimed'[u] = claimed[u] /\ got'[u] = got[u]
  BY <1>1, <1>6 DEF Abort, MarkSuccess, MarkFailure, Release, TypeOK, At
<1>7. ASSUME NEW w \in Worker, Take(w)
      PROVE  w # u /\ claimed'[u] = claimed[u] /\ got'[u] = got[u]
  <2>1. got' = got /\ got[w] = {}
    BY <1>7 DEF Take, Claim, ReadInv, ReadOK
  <2>2. w # u
    BY <1>1, <2>1
  <2> QED BY <1>7, <2>1, <2>2 DEF Take, Claim, TypeOK
<1>8. ASSUME NEW w \in Worker, NEW i \in Source \union View, Read(w, i)
      PROVE  \/ p \in got[u] /\ claimed'[u] = claimed[u]
             \/ p = <<p[1], version'[p[1]]>>
  <2>1. UNCHANGED <<claimed, version>>
    BY <1>8 DEF Read, sources
  <2>2. CASE w = u
    <3>1. i \in Reads[v]
      BY <1>1, <1>8, <2>1, <2>2 DEF Read, At
    <3>2. i \in Source
      BY <3>1 DEF Tables
    <3>3. p \in got[u] \/ p = <<i, version[i]>>
      BY <1>8, <2>2, <3>2 DEF Read, TypeOK, Content
    <3> QED BY <2>1, <3>3
  <2>3. CASE w # u
    BY <1>8, <2>1, <2>3 DEF Read, TypeOK
  <2> QED BY <2>2, <2>3
<1>9. \/ p \in got[u] /\ claimed'[u] = claimed[u]
      \/ p = <<p[1], version'[p[1]]>>
  BY <1>1, <1>3, <1>4, <1>5, <1>6, <1>7, <1>8, NextCases DEF Idle, Requested
<1> QED BY <1>1, <1>2, <1>9 DEF At

(* A worker comes to "mark" by setting the view. *)
LEMMA MarkSteps ==
  ASSUME TypeOK, RebuildInv, [Next]_vars, NEW u \in Worker,
         claimed'[u] # NoJob, pc'[u] = "mark"
  PROVE  claimed'[u] = claimed[u] /\ (pc[u] = "mark" \/ WriteView(u))
<1>1. ASSUME NEW n, Requested(n) PROVE claimed' = claimed /\ pc'[u] = pc[u]
  <2>1. \E w \in Worker, to \in {"scan", "end"} : pc' = [pc EXCEPT ![w] = to]
    BY <1>1, JobParts DEF Requested, CommitWrite, ReplayEvent
  <2> QED BY <1>1, <2>1 DEF Requested, CommitWrite, ReplayEvent, TypeOK
<1>2. ASSUME NEW w \in Worker,
             Scan(w) \/ Idle(w) \/ MarkSuccess(w) \/ MarkFailure(w) \/ Take(w)
      PROVE  w # u /\ pc'[u] = pc[u] /\ claimed'[u] = claimed[u]
  BY <1>2 DEF Scan, Idle, EndBatch, HandlerError, Abort, MarkSuccess, MarkFailure,
              Release, Take, Claim, TypeOK
<1>3. ASSUME NEW w \in Worker, WriteView(w)
      PROVE  claimed' = claimed /\ (w = u \/ pc'[u] = pc[u])
  BY <1>3 DEF WriteView, TypeOK
<1>4. ASSUME \/ \E j \in Job : BecomeDue(j)
             \/ \E w \in Worker : Pass(w) \/ \E i \in Source \union View : Read(w, i)
             \/ UNCHANGED vars
      PROVE  UNCHANGED <<claimed, pc>>
  BY <1>4 DEF BecomeDue, Pass, Skip, Read, vars
<1> QED BY <1>1, <1>2, <1>3, <1>4, NextCases DEF Requested

(* Only the rebuild of a view sets it. *)
LEMMA ShowsSteps ==
  ASSUME TypeOK, [Next]_vars, NEW v \in View,
         \A w \in Worker : WriteView(w) => view(claimed[w]) # v
  PROVE  shows'[v] = shows[v]
<1>1. ASSUME NEW w \in Worker, WriteView(w) PROVE shows'[v] = shows[v]
  BY <1>1 DEF WriteView, TypeOK
<1> QED
  BY <1>1, NextCases
  DEF vars, views, CommitWrite, ReplayEvent, BecomeDue, Scan, Idle, EndBatch,
      HandlerError, Abort, MarkSuccess, MarkFailure, Take, Claim, Pass, Skip, Read

LEMMA ClashedGrows ==
  ASSUME [Next]_vars
  PROVE  clashed \subseteq clashed'
BY NextCases
DEF vars, CommitWrite, ReplayEvent, BecomeDue, Scan, Idle, EndBatch, HandlerError,
    Abort, WriteView, MarkSuccess, MarkFailure, Take, Claim, Pass, Skip, Read

(* What a view has not seen is left to a job that no worker is about to
   mark as done. *)
LEMMA ViewFollows ==
  ASSUME TypeOK, RequestInv, RebuildInv, ReadInv, InputInv, [Next]_vars,
         NEW v \in Tables, v \notin clashed', Following(v)
  PROVE  ViewFollowed(v)'
<1>0. v \in View
  BY DEF Tables
<1> DEFINE Good(i) == \/ <<i, version'[i]>> \in shows'[v]
                      \/ \E j \in Outstanding(v)' : Waiting(j)'
<1>1. SUFFICES ASSUME shows'[v] # {}, NEW i \in Reads[v] PROVE Good(i)
  BY DEF ViewFollowed
<1>2. ASSUME NEW w \in Worker, WriteView(w), view(claimed[w]) = v PROVE Good(i)
  <2>1. /\ UNCHANGED <<version, status, claimed>>
        /\ pc' = [pc EXCEPT ![w] = "mark"]
        /\ pc[w] = "rebuild"
        /\ i \in {p[1] : p \in got[w]}
        /\ shows'[v] = got[w]
    BY <1>0, <1>2 DEF WriteView, sources, jobs, TypeOK
  <2>2. At(w, v)
    BY <1>2, <2>1 DEF At, RebuildInv
  <2>3. PICK p \in got[w] : p[1] = i
    BY <2>1
  <2>4. CASE p = <<p[1], version[p[1]]>>
    BY <2>1, <2>3, <2>4
  <2>5. ASSUME NEW j \in Outstanding(v), j # claimed[w]
        PROVE  j \in Outstanding(v)' /\ Waiting(j)'
    <3>1. \A u \in Worker : claimed[u] = j => At(u, v)
      BY <2>5, ConstantsAssumption DEF Outstanding, At
    <3>2. \A u \in Worker : claimed[u] # j
      BY <2>2, <2>5, <3>1 DEF Following, OneRebuild
    <3> QED BY <2>1, <2>5, <3>2 DEF Outstanding, Waiting
  <2> QED BY <2>2, <2>4, <2>5 DEF Following, ReadsFollowed
<1>3. ASSUME \A w \in Worker : WriteView(w) => view(claimed[w]) # v PROVE Good(i)
  <2>1. CASE version'[i] # version[i]
    <3>1. PICK n \in Write : CommitWrite(n) /\ i = SourceOf[n]
      BY <2>1, VersionSteps
    <3>2. PICK j \in Outstanding(v)' : status[j] = "absent"
      BY <3>1, CommitQueues
    <3>3. \A u \in Worker : claimed[u] # j
      BY <3>2, ConstantsAssumption DEF RebuildInv, Outstanding
    <3>4. claimed' = claimed
      BY <3>1 DEF CommitWrite
    <3> QED BY <3>2, <3>3, <3>4 DEF Waiting
  <2>2. ASSUME NEW j \in Outstanding(v), Waiting(j)
        PROVE  j \in Outstanding(v)' /\ Waiting(j)'
    <3>1. \A w \in Worker : MarkSuccess(w) => claimed[w] # j
      BY <2>2 DEF MarkSuccess, Waiting
    <3>2. j \in Outstanding(v)'
      BY <2>2, <3>1, OutstandingStays
    <3>3. ASSUME NEW u \in Worker, claimed'[u] = j, pc'[u] = "mark"
          PROVE  FALSE
      <4>1. j \in Job /\ j # NoJob
        BY <2>2, ConstantsAssumption DEF Outstanding
      <4>2. claimed[u] = j /\ (pc[u] = "mark" \/ WriteView(u))
        BY <3>3, <4>1, MarkSteps
      <4>3. WriteView(u) => view(claimed[u]) # v
        BY <1>3
      <4> QED BY <2>2, <4>2, <4>3 DEF Waiting, Outstanding
    <3> QED BY <3>2, <3>3 DEF Waiting
  <2>3. shows'[v] = shows[v]
    BY <1>0, <1>3, ShowsSteps
  <2> QED BY <1>1, <2>1, <2>2, <2>3 DEF Following, ViewFollowed
<1> QED BY <1>2, <1>3

LEMMA CatchUpInductive ==
  ASSUME TypeOK, RequestInv, RebuildInv, ReadInv, CatchUpInv, [Next]_vars
  PROVE  CatchUpInv'
<1>1. InputInv'
  BY InputsInductive DEF CatchUpInv
<1>2. ASSUME NEW v \in Tables, v \notin clashed'
      PROVE  (OneRebuild(v) /\ ReadsFollowed(v) /\ ViewFollowed(v))'
  <2>1. v \in View /\ v \notin clashed
    BY <1>2, ClashedGrows DEF Tables
  <2>2. OneRebuild(v) /\ ReadsFollowed(v) /\ ViewFollowed(v) /\ InputInv
    BY <1>2, <2>1 DEF CatchUpInv
  <2> QED BY <1>2, <2>1, <2>2, RebuildsExclude, ReadsFollow, ViewFollows DEF Following
<1>3. Tables' = Tables
  BY DEF Tables
<1> QED BY <1>1, <1>2, <1>3 DEF CatchUpInv

(* When nothing is left to do, a view that follows its collections is equal
   to a rebuild. *)
LEMMA QuietFresh ==
  ASSUME Quiet, CatchUpInv, NEW v \in Tables \ clashed
  PROVE  UpToDate(v)
<1>1. Outstanding(v) = {}
  BY DEF Quiet, Existing, Outstanding
<1>2. SUFFICES ASSUME shows[v] # {}
               PROVE  shows[v] = {<<i, Content(i)>> : i \in Reads[v]}
  BY DEF UpToDate
<1>3. \A i \in Reads[v] : <<i, version[i]>> \in shows[v] /\ Content(i) = version[i]
  BY <1>1, <1>2 DEF CatchUpInv, ViewFollowed, Tables, Content
<1>4. \A p \in shows[v] : p[1] \in Reads[v] /\ \A q \in shows[v] : q[1] = p[1] => q = p
  BY DEF CatchUpInv, InputInv, OnePerInput, Tables
<1>5. ASSUME NEW p \in shows[v] PROVE \E i \in Reads[v] : p = <<i, Content(i)>>
  <2> DEFINE q == <<p[1], version[p[1]]>>
  <2>1. /\ q \in shows[v] /\ q[1] = p[1]
        /\ p[1] \in Reads[v] /\ Content(p[1]) = version[p[1]]
    BY <1>3, <1>4
  <2> QED BY <1>4, <2>1
<1> QED BY <1>3, <1>5

(* Once the queue is empty, the views that the rules cover and whose rebuilds
   did not overlap show all that was written. *)
THEOREM TablesCaughtUp == Spec => []TablesCatchUp
<1>1. Init => CatchUpInv
  <2> SUFFICES ASSUME Init PROVE CatchUpInv
    OBVIOUS
  <2>1. InputInv
    BY DEF Init, InputInv, OnePerInput
  <2>2. \A v \in Tables : OneRebuild(v) /\ ReadsFollowed(v) /\ ViewFollowed(v)
    BY DEF Init, Tables, OneRebuild, ReadsFollowed, ViewFollowed, At
  <2> QED BY <2>1, <2>2 DEF CatchUpInv
<1>2. (TypeOK /\ JobInv) /\ CatchUpInv /\ [Next]_vars => CatchUpInv'
  BY CatchUpInductive DEF JobInv
<1>3. CatchUpInv => TablesCatchUp
  BY QuietFresh DEF TablesCatchUp
<1> QED BY <1>1, <1>2, <1>3, JobCorrect, PTL DEF Spec
=============================================================================
