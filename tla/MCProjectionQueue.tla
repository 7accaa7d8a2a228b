------------------------- MODULE MCProjectionQueue -------------------------
(* Instances of ProjectionQueue for TLC: two collections and the view that is
   built from both. *)
EXTENDS ProjectionQueue, TLC

TwoSourceOf == "w1" :> "transaction" @@ "w2" :> "change_request"

(* approval_inbox of projections.mjs *)
InboxReads == "approval_inbox" :> {"transaction", "change_request"}

InboxAffects ==
  "transaction" :> {"approval_inbox"} @@ "change_request" :> {"approval_inbox"}

(* Ids sort the jobs of w1 before those of w2. *)
IdRank == [j \in Job |-> (IF j[1] = "w1" THEN 0 ELSE 10)
                       + (IF j[2] = "event" THEN 0 ELSE 5)]

(* One run of the work-queue worker at a time, next to the requests. *)
OneCron == {<<"worker", "cron">>}
=============================================================================
