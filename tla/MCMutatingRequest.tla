------------------------- MODULE MCMutatingRequest -------------------------
(* Instances of MutatingRequest for TLC: which call sends which request under
   which key. *)
EXTENDS MutatingRequest, TLC

TwoCalls == {"c1", "c2"}

(* The first call retries once. *)
OneRetry == "c1" :> 1 @@ "c2" :> 0

(* A versioned write followed, preceded or overlapped by a system-managed
   merge on the same entity, under keys of their own. *)
RaceKeyOf == "c1" :> "k1" @@ "c2" :> "k2"
MergeRequestOf == "c1" :> "put1" @@ "c2" :> "merge"
MergeKind == "put1" :> "versioned" @@ "merge" :> "merge"
MergeBase == "put1" :> 0 @@ "merge" :> 0

(* One key, sent by two calls with different bodies. *)
SharedKeyOf == "c1" :> "k1" @@ "c2" :> "k1"
OtherRequestOf == "c1" :> "comment" @@ "c2" :> "put1"
SharedKind == "comment" :> "append" @@ "put1" :> "versioned"
SharedBase == "comment" :> 0 @@ "put1" :> 0
=============================================================================
