----------------------------- MODULE AtLeastOnce -----------------------------
(***************************************************************************)
(* What a retry queue promises to whoever enqueues an item: the item is    *)
(* never forgotten by being marked done before its effect took place, its  *)
(* effect takes place only while it is open, and a verdict is final.       *)
(* OutboxWorker implements it.                                             *)
(***************************************************************************)
CONSTANT Item

VARIABLES
  state,    \* [Item -> {"none", "open", "done", "dead"}]
  effects   \* items whose effect is complete

vars == <<state, effects>>

Init ==
  /\ state = [i \in Item |-> "none"]
  /\ effects = {}

Enqueue(i) ==
  /\ state[i] = "none"
  /\ state' = [state EXCEPT ![i] = "open"]
  /\ UNCHANGED effects

TakeEffect(i) ==
  /\ state[i] = "open"
  /\ effects' = effects \union {i}
  /\ UNCHANGED state

Finish(i) ==
  /\ state[i] = "open"
  /\ i \in effects
  /\ state' = [state EXCEPT ![i] = "done"]
  /\ UNCHANGED effects

(* After the last attempt an item is dead; its effect may have taken place
   all the same. *)
GiveUp(i) ==
  /\ state[i] = "open"
  /\ state' = [state EXCEPT ![i] = "dead"]
  /\ UNCHANGED effects

Next == \E i \in Item : Enqueue(i) \/ TakeEffect(i) \/ Finish(i) \/ GiveUp(i)

Spec == Init /\ [][Next]_vars

=============================================================================
