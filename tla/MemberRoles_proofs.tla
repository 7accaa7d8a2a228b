------------------------- MODULE MemberRoles_proofs -------------------------
(***************************************************************************)
(* Proofs about MemberRoles: only an overtaken sync, or one of a person    *)
(* with two documents, can remove the last admin, and an undisturbed sync  *)
(* aligns documents and claims, for any people, accounts, roles and any    *)
(* number of concurrent syncs.                                             *)
(***************************************************************************)
EXTENDS MemberRoles, FiniteSetTheorems, TLAPS

LEMMA NextCases ==
  ASSUME [Next]_vars
  PROVE  \/ \E d \in Doc, to \in Role : Patch(d, to) \/ GenericWrite(d, to)
         \/ \E s \in Sync :
              \/ \E p \in Person, to \in Role : SyncRead(s, p, to)
              \/ SyncCheck(s) \/ SyncReject(s) \/ SyncCommit(s) \/ SyncClaim(s)
              \/ SyncEnd(s)
         \/ UNCHANGED vars
BY ConstantsAssumption DEF Next, SyncStep

-----------------------------------------------------------------------------
(* Type correctness *)

LEMMA RoleTyped ==
  ASSUME TypeOK, NEW p \in Person
  PROVE  EffectiveRole(p) \in Role /\ Planned(p) \subseteq Doc
<1>1. {<<p, "uid">>, <<p, "legacy">>} \subseteq Doc
  BY DEF Doc
<1>2. Planned(p) \subseteq Doc
  BY <1>1 DEF Planned, CanonicalDoc
<1>3. EffectiveRole(p) \in Role
  BY <1>1, ConstantsAssumption DEF TypeOK, EffectiveRole
<1> QED BY <1>2, <1>3

LEMMA Typed ==
  ASSUME TypeOK, [Next]_vars
  PROVE  TypeOK'
<1> USE DEF TypeOK, Running
<1>1. ASSUME NEW d \in Doc, NEW to \in Role, Patch(d, to) \/ GenericWrite(d, to)
      PROVE  TypeOK'
  BY <1>1 DEF Patch, GenericWrite
<1>2. ASSUME NEW s \in Sync, NEW p \in Person, NEW to \in Role, SyncRead(s, p, to)
      PROVE  TypeOK'
  <2>1. req'[s] \in Requests /\ pc'[s] = "check"
    BY <1>2, RoleTyped DEF SyncRead, Requests
  <2>2. \A u \in Sync \ {s} : req'[u] = req[u] /\ pc'[u] = pc[u]
    BY <1>2 DEF SyncRead
  <2> QED BY <1>2, <2>1, <2>2 DEF SyncRead
<1>3. ASSUME NEW s \in Sync, SyncCheck(s) PROVE TypeOK'
  BY <1>3 DEF SyncCheck
<1>4. ASSUME NEW s \in Sync, SyncReject(s) \/ SyncEnd(s) PROVE TypeOK'
  BY <1>4 DEF SyncReject, SyncEnd, End
<1>5. ASSUME NEW s \in Sync, SyncCommit(s) PROVE TypeOK'
  <2>1. req[s].target \in Role
    BY <1>5 DEF SyncCommit, Requests
  <2> QED BY <1>5, <2>1 DEF SyncCommit
<1>6. ASSUME NEW s \in Sync, SyncClaim(s) PROVE TypeOK'
  <2>1. req[s].target \in Role
    BY <1>6 DEF SyncClaim, Requests
  <2> QED BY <1>6, <2>1 DEF SyncClaim
<1>7. ASSUME UNCHANGED vars PROVE TypeOK'
  BY <1>7 DEF vars
<1> QED BY <1>1, <1>2, <1>3, <1>4, <1>5, <1>6, <1>7, NextCases

-----------------------------------------------------------------------------
(* Undisturbed syncs *)

(* What is fresh depends on the roles and claims, and on the sync itself. *)
LEMMA FreshStable ==
  ASSUME NEW s, Fresh(s), UNCHANGED <<role, claim>>, pc'[s] = pc[s], req'[s] = req[s]
  PROVE  Fresh(s)'
BY DEF Fresh, EffectiveRole, Planned, CanonicalDoc, Demotes, Admins, DocsAligned,
       ClaimAligned

LEMMA PlanAligns ==
  ASSUME TypeOK, NEW s \in Sync, SyncCommit(s),
         req[s].plan = Planned(req[s].person)
  PROVE  DocsAligned(req[s])'
<1>1. req[s] \in Requests /\ req'[s] = req[s]
  BY DEF TypeOK, SyncCommit
<1>2. ASSUME NEW d \in DocOf(req[s].person), d \notin req[s].plan
      PROVE  role[d] = "none"
  BY <1>2 DEF DocOf, Planned, CanonicalDoc
<1>3. DocOf(req[s].person) \subseteq Doc
  BY <1>1 DEF DocOf, Doc, Requests
<1> QED BY <1>1, <1>2, <1>3 DEF SyncCommit, DocsAligned

LEMMA FreshInductive ==
  ASSUME TypeOK, FreshInv, [Next]_vars
  PROVE  FreshInv'
<1>1. ASSUME NEW d \in Doc, NEW to \in Role, Patch(d, to) \/ GenericWrite(d, to)
      PROVE  FreshInv'
  <2> SUFFICES ASSUME NEW u \in Sync, u \notin overtaken' PROVE Fresh(u)'
    BY DEF FreshInv
  <2>1. pc[u] = "idle" /\ pc'[u] = "idle"
    BY <1>1 DEF Patch, GenericWrite, Running
  <2> QED BY <2>1 DEF Fresh
<1>2. ASSUME NEW s \in Sync, NEW p \in Person, NEW to \in Role, SyncRead(s, p, to)
      PROVE  FreshInv'
  <2> SUFFICES ASSUME NEW u \in Sync, u \notin overtaken' PROVE Fresh(u)'
    BY DEF FreshInv
  <2>1. CASE u = s
    <3>1. /\ req'[s].person = p
          /\ req'[s].effective = EffectiveRole(p)
          /\ req'[s].plan = Planned(p)
          /\ pc'[s] = "check"
      BY <1>2 DEF SyncRead, TypeOK
    <3>2. UNCHANGED <<role, claim>>
      BY <1>2 DEF SyncRead
    <3> QED BY <2>1, <3>1, <3>2 DEF Fresh, EffectiveRole, Planned, CanonicalDoc
  <2>2. CASE u # s
    BY <1>2, <2>2, FreshStable DEF SyncRead, FreshInv, TypeOK
  <2> QED BY <2>1, <2>2
<1>3. ASSUME NEW s \in Sync, SyncCheck(s) PROVE FreshInv'
  <2> SUFFICES ASSUME NEW u \in Sync, u \notin overtaken' PROVE Fresh(u)'
    BY DEF FreshInv
  <2>1. UNCHANGED <<role, claim, req>> /\ u \notin overtaken
    BY <1>3 DEF SyncCheck
  <2>2. CASE u = s
    <3>1. Fresh(s) /\ pc[s] = "check" /\ pc'[s] = "commit"
      BY <1>3, <2>1, <2>2 DEF SyncCheck, FreshInv, TypeOK
    <3>2. Demotes(req[s]) => Cardinality(Admins) > 1
      BY <1>3 DEF SyncCheck
    <3> QED BY <2>1, <2>2, <3>1, <3>2
            DEF Fresh, EffectiveRole, Planned, CanonicalDoc, Demotes, Admins
  <2>3. CASE u # s
    BY <1>3, <2>1, <2>3, FreshStable DEF SyncCheck, FreshInv, TypeOK
  <2> QED BY <2>2, <2>3
<1>4. ASSUME NEW s \in Sync, SyncReject(s) \/ SyncEnd(s) PROVE FreshInv'
  <2> SUFFICES ASSUME NEW u \in Sync, u \notin overtaken' PROVE Fresh(u)'
    BY DEF FreshInv
  <2>1. CASE u = s
    BY <1>4, <2>1 DEF SyncReject, SyncEnd, End, TypeOK, Fresh
  <2>2. CASE u # s
    BY <1>4, <2>2, FreshStable DEF SyncReject, SyncEnd, End, FreshInv, TypeOK
  <2> QED BY <2>1, <2>2
<1>5. ASSUME NEW s \in Sync, SyncCommit(s) PROVE FreshInv'
  <2> SUFFICES ASSUME NEW u \in Sync, u \notin overtaken' PROVE Fresh(u)'
    BY DEF FreshInv
  <2>1. CASE u = s
    <3>1. pc[s] = "commit" /\ s \notin overtaken /\ pc'[s] = "claim"
      BY <1>5, <2>1 DEF SyncCommit, TypeOK
    <3>2. DocsAligned(req[s])'
      BY <1>5, <3>1, PlanAligns DEF FreshInv, Fresh
    <3> QED BY <2>1, <3>1, <3>2 DEF Fresh
  <2>2. CASE u # s
    BY <1>5, <2>2 DEF SyncCommit, Running, Fresh, TypeOK
  <2> QED BY <2>1, <2>2
<1>6. ASSUME NEW s \in Sync, SyncClaim(s) PROVE FreshInv'
  <2> SUFFICES ASSUME NEW u \in Sync, u \notin overtaken' PROVE Fresh(u)'
    BY DEF FreshInv
  <2>1. CASE u = s
    <3>1. /\ pc[s] = "claim" /\ pc'[s] = "done" /\ Fresh(s)
          /\ UNCHANGED <<role, req>>
      BY <1>6, <2>1 DEF SyncClaim, FreshInv, TypeOK
    <3>2. DocsAligned(req[s])'
      BY <3>1 DEF Fresh, DocsAligned
    <3>3. ClaimAligned(req[s])'
      BY <1>6, <3>1 DEF SyncClaim, ClaimAligned
    <3> QED BY <2>1, <3>1, <3>2, <3>3 DEF Fresh
  <2>2. CASE u # s
    BY <1>6, <2>2 DEF SyncClaim, Running, Fresh, TypeOK
  <2> QED BY <2>1, <2>2
<1>7. ASSUME UNCHANGED vars PROVE FreshInv'
  BY <1>7, FreshStable DEF vars, FreshInv
<1> QED BY <1>1, <1>2, <1>3, <1>4, <1>5, <1>6, <1>7, NextCases

(* The inductive invariant holds in every reachable state. *)
THEOREM MembersCorrect == Spec => [](TypeOK /\ FreshInv)
<1>1. Init => TypeOK /\ FreshInv
  BY DEF Init, TypeOK, FreshInv, Fresh
<1>2. TypeOK /\ FreshInv /\ [Next]_vars => (TypeOK /\ FreshInv)'
  BY Typed, FreshInductive
<1> QED BY <1>1, <1>2, PTL DEF Spec

(* A sync that succeeds undisturbed aligns documents and claims. *)
THEOREM SyncCorrect == Spec => []SyncAligns
<1>1. FreshInv => SyncAligns
  BY DEF FreshInv, Fresh, SyncAligns
<1> QED BY <1>1, MembersCorrect, PTL

-----------------------------------------------------------------------------
(* The last admin *)

(* More than one admin: one besides any given document. *)
LEMMA AnotherAdmin ==
  ASSUME Cardinality(Admins) > 1, NEW d
  PROVE  \E e \in Admins : e # d
<1> SUFFICES ASSUME Admins \subseteq {d} PROVE FALSE
  OBVIOUS
<1>1. IsFiniteSet({d}) /\ Cardinality({d}) = 1
  BY FS_Singleton
<1>2. Cardinality(Admins) <= 1 /\ Cardinality(Admins) \in Nat
  BY <1>1, FS_Subset, FS_CardinalityType
<1> QED BY <1>2

LEMMA PatchKeepsAdmin ==
  ASSUME TypeOK, NEW d \in Doc, NEW to \in Role, Patch(d, to), Admins # {}
  PROVE  Admins' # {}
<1>1. PICK e \in Admins : role[d] = "admin" /\ to # "admin" => e # d
  BY AnotherAdmin DEF Patch
<1>2. e \in Admins' \/ d \in Admins'
  BY <1>1 DEF Patch, Admins, TypeOK
<1> QED BY <1>2

LEMMA CommitKeepsAdmin ==
  ASSUME TypeOK, FreshInv, NEW s \in Sync, SyncCommit(s), s \notin overtaken,
         ~Duplicated(s), Admins # {}
  PROVE  Admins' # {}
<1> DEFINE r == req[s]
           p == r.person
<1>1. /\ r \in Requests /\ p \in Person
      /\ r.effective = EffectiveRole(p)
      /\ r.plan = Planned(p)
      /\ Demotes(r) => Cardinality(Admins) > 1
  BY DEF SyncCommit, FreshInv, Fresh, TypeOK, Requests
<1>2. DocOf(p) = {<<p, "uid">>, <<p, "legacy">>} /\ DocOf(p) \subseteq Doc
  BY <1>1 DEF DocOf, Doc
<1>3. r.plan \subseteq DocOf(p) /\ CanonicalDoc(p) \in r.plan
  BY <1>1, <1>2 DEF Planned, CanonicalDoc
<1>4. role' = [d \in Doc |-> IF d \in r.plan THEN r.target ELSE role[d]]
  BY DEF SyncCommit
<1>5. PICK n \in DocOf(p) : role[n] = "none"
  BY DEF Duplicated
<1> HIDE DEF r, p
<1>6. CASE r.target = "admin"
  <2>1. CanonicalDoc(p) \in Admins'
    BY <1>2, <1>3, <1>4, <1>6 DEF Admins
  <2> QED BY <2>1
<1>7. CASE r.target # "admin"
  <2>1. \E e \in Admins : e \notin DocOf(p)
    <3>1. CASE r.effective = "admin"
      <4>1. PICK d \in DocOf(p) : DocOf(p) = {d, n}
        BY <1>2, <1>5
      <4>2. PICK e \in Admins : e # d
        BY <1>1, <1>7, <3>1, AnotherAdmin DEF Demotes
      <4>3. e # n
        BY <1>5, <4>2 DEF Admins
      <4> QED BY <4>1, <4>2, <4>3
    <3>2. CASE r.effective # "admin"
      <4>1. \A d \in DocOf(p) : role[d] # "admin"
        BY <1>1, <1>2, <1>5, <3>2 DEF EffectiveRole
      <4> QED BY <4>1 DEF Admins
    <3> QED BY <3>1, <3>2
  <2> QED BY <1>3, <1>4, <2>1 DEF Admins
<1> QED BY <1>6, <1>7

(* Who can remove the last admin. *)
THEOREM LockoutCorrect == Spec => LockoutOnlyByStaleSync
<1> DEFINE Kept == WriteRole \subseteq {"admin"} /\ Admins # {} =>
                     \/ Admins' # {}
                     \/ \E s \in Sync : /\ pc[s] = "commit"
                                        /\ s \in overtaken \/ Duplicated(s)
<1>1. TypeOK /\ FreshInv /\ [Next]_vars => [Kept]_vars
  <2> SUFFICES ASSUME TypeOK, FreshInv, Next, WriteRole \subseteq {"admin"},
                      Admins # {}, UNCHANGED role => FALSE
               PROVE  \/ Admins' # {}
                      \/ \E s \in Sync : /\ pc[s] = "commit"
                                         /\ s \in overtaken \/ Duplicated(s)
    BY DEF Admins
  <2>1. ASSUME NEW d \in Doc, NEW to \in Role, Patch(d, to) PROVE Admins' # {}
    BY <2>1, PatchKeepsAdmin
  <2>2. ASSUME NEW d \in Doc, NEW to \in WriteRole, GenericWrite(d, to)
        PROVE  Admins' # {}
    <3>1. d \in Admins'
      BY <2>2 DEF GenericWrite, Admins, TypeOK
    <3> QED BY <3>1
  <2>3. ASSUME NEW s \in Sync, SyncCommit(s)
        PROVE  \/ Admins' # {}
               \/ pc[s] = "commit" /\ (s \in overtaken \/ Duplicated(s))
    BY <2>3, CommitKeepsAdmin DEF SyncCommit
  <2>4. ASSUME NEW s \in Sync, SyncStep(s), ~SyncCommit(s) PROVE UNCHANGED role
    BY <2>4 DEF SyncStep, SyncRead, SyncCheck, SyncReject, SyncClaim, SyncEnd, End
  <2> QED BY <2>1, <2>2, <2>3, <2>4 DEF Next
<1> QED BY <1>1, MembersCorrect, PTL DEF Spec, LockoutOnlyByStaleSync
=============================================================================
