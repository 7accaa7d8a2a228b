---------------------------- MODULE MCMemberRoles ----------------------------
(* Instances of MemberRoles for TLC. *)
EXTENDS MemberRoles, TLC

(* A person with an account and two documents, and one without an account. *)
TwoAndOne == {<<"ann", "uid">>, <<"ann", "legacy">>, <<"bob", "uid">>}

(* Two people without legacy documents. *)
OneEach == {<<"ann", "uid">>, <<"bob", "uid">>}

(* The concurrent syncs are interchangeable. *)
Syncs == Permutations(Sync)
=============================================================================
