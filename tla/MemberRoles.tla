----------------------------- MODULE MemberRoles -----------------------------
(***************************************************************************)
(* Roles of members (members.mjs, auth-governance.mjs).  An administrator  *)
(* changes the role of one member document in one transaction (PATCH), or  *)
(* deep-syncs a person: read the auth accounts and all member documents,   *)
(* check, write the role to the person's canonical and legacy documents in *)
(* one transaction, then set the claims of the account.  Syncs run         *)
(* concurrently with each other and with PATCHes.                          *)
(*                                                                         *)
(* Abstractions: a person has at most one document named after the uid and *)
(* one legacy document named after the email; actors are allowed to assign *)
(* the role (roleChangeRules); the other fields of a document, the outbox  *)
(* event and the audit entry of a request are left out; the two reads of a *)
(* sync are one step, since the claims only matter for the role of a       *)
(* person without documents.  A definition called a mutant is no part of   *)
(* the model.                                                              *)
(***************************************************************************)
EXTENDS Naturals, FiniteSets

CONSTANTS
  Person,     \* people: email addresses
  Account,    \* those with a Firebase Auth account
  Bootstrap,  \* those whose email is in the bootstrap admin list
  Role,       \* roles that can be assigned
  Member,     \* the documents that may exist at first, <<person, kind>>
  WriteRole,  \* the roles that generic writes to member documents carry
  Sync        \* concurrent deep-sync requests

DocOf(p) == {p} \X {"uid", "legacy"}
Doc == Person \X {"uid", "legacy"}

ASSUME ConstantsAssumption ==
  /\ IsFiniteSet(Person)
  /\ Account \subseteq Person
  /\ Bootstrap \subseteq Person
  /\ {"admin", "pm"} \subseteq Role
  /\ "none" \notin Role
  /\ Member \subseteq Doc
  /\ WriteRole \subseteq Role

VARIABLES
  role,      \* [Doc -> role of the member document, "none" if there is none]
  claim,     \* [Account -> role in the custom claims, "none" if not set]
  pc,        \* [Sync -> where the request is]
  req,       \* [Sync -> whom it syncs to which role, and what it made of its reads]
  overtaken  \* syncs during which another request wrote a role or a claim

vars == <<role, claim, pc, req, overtaken>>

NoRequest == <<>>

Admins == {d \in Doc : role[d] = "admin"}

Running == {s \in Sync : pc[s] # "idle"}

Init ==
  /\ role \in [Doc -> Role \union {"none"}]
  /\ \A d \in Doc \ Member : role[d] = "none"
  /\ Admins # {}
  /\ claim \in [Account -> Role \union {"none"}]
  /\ pc = [s \in Sync |-> "idle"]
  /\ req = [s \in Sync |-> NoRequest]
  /\ overtaken = {}

-----------------------------------------------------------------------------
(* PATCH /members/:memberId/role *)

(* Mutant: the admin to be demoted is enough of an admin. *)
PatchLast(d, to) ==
  /\ role[d] # "none"
  /\ role[d] = "admin" /\ to # "admin" => Cardinality(Admins) > 0
  /\ role' = [role EXCEPT ![d] = to]
  /\ overtaken' = overtaken \union Running
  /\ UNCHANGED <<claim, pc, req>>

(* The transaction of a PATCH: to demote an admin it needs another one. *)
Patch(d, to) ==
  /\ role[d] # "none"
  /\ role[d] = "admin" /\ to # "admin" => Cardinality(Admins) > 1
  /\ role' = [role EXCEPT ![d] = to]
  /\ overtaken' = overtaken \union Running
  /\ UNCHANGED <<claim, pc, req>>

(* POST /write of entityType member: any field, in a document old or new. *)
GenericWrite(d, to) ==
  /\ role' = [role EXCEPT ![d] = to]
  /\ overtaken' = overtaken \union Running
  /\ UNCHANGED <<claim, pc, req>>

-----------------------------------------------------------------------------
(* POST /admin/auth-governance/users/:identityKey/deep-sync *)

(* The first role that is known, in the order of computeEffectiveRole. *)
EffectiveRole(p) ==
  LET account == IF p \in Account THEN claim[p] ELSE "none" IN
  IF role[<<p, "uid">>] # "none" THEN role[<<p, "uid">>]
  ELSE IF role[<<p, "legacy">>] # "none" THEN role[<<p, "legacy">>]
  ELSE IF account # "none" THEN account
  ELSE IF p \in Bootstrap THEN "admin" ELSE "pm"

(* canonicalDocId: the account's uid, else the document there is. *)
CanonicalDoc(p) ==
  <<p, IF p \in Account \/ role[<<p, "uid">>] # "none" THEN "uid" ELSE "legacy">>

(* Mutant: the legacy documents are forgotten. *)
PlannedCanonical(p) == {CanonicalDoc(p)}

(* buildDeepSyncPlan: the canonical document, which need not exist, and the
   legacy one if it does. *)
Planned(p) ==
  {CanonicalDoc(p)} \union {d \in {<<p, "legacy">>} : role[d] # "none"}

(* Somebody unknown to the directory is 404. *)
InDirectory(p) ==
  p \in Account \union Bootstrap \/ \E d \in DocOf(p) : role[d] # "none"

SyncRead(s, p, to) ==
  /\ pc[s] = "idle"
  /\ InDirectory(p)
  /\ pc' = [pc EXCEPT ![s] = "check"]
  /\ req' = [req EXCEPT ![s] = [person |-> p, target |-> to,
                                effective |-> EffectiveRole(p),
                                plan |-> Planned(p)]]
  /\ UNCHANGED <<role, claim, overtaken>>

Demotes(r) == r.effective = "admin" /\ r.target # "admin"

(* The request is over and makes way for another one. *)
End(s) ==
  /\ pc' = [pc EXCEPT ![s] = "idle"]
  /\ req' = [req EXCEPT ![s] = NoRequest]
  /\ overtaken' = overtaken \ {s}
  /\ UNCHANGED <<role, claim>>

(* A query outside of any transaction. *)
SyncCheck(s) ==
  /\ pc[s] = "check"
  /\ Demotes(req[s]) => Cardinality(Admins) > 1
  /\ pc' = [pc EXCEPT ![s] = "commit"]
  /\ UNCHANGED <<role, claim, req, overtaken>>

(* 409 last_admin_lockout *)
SyncReject(s) ==
  /\ pc[s] = "check"
  /\ Demotes(req[s]) /\ Cardinality(Admins) <= 1
  /\ End(s)

(* The transaction writes the plan made from what was read. *)
SyncCommit(s) ==
  /\ pc[s] = "commit"
  /\ role' = [d \in Doc |-> IF d \in req[s].plan THEN req[s].target ELSE role[d]]
  /\ pc' = [pc EXCEPT ![s] = "claim"]
  /\ overtaken' = overtaken \union (Running \ {s})
  /\ UNCHANGED <<claim, req>>

(* setCustomUserClaims, if there is an account; then the request succeeds. *)
SyncClaim(s) ==
  /\ pc[s] = "claim"
  /\ claim' = [p \in Account |->
                 IF p = req[s].person THEN req[s].target ELSE claim[p]]
  /\ pc' = [pc EXCEPT ![s] = "done"]
  /\ overtaken' = overtaken \union (Running \ {s})
  /\ UNCHANGED <<role, req>>

(* The success is answered; or a call throws or the process dies before, and
   the writes made so far remain. *)
SyncEnd(s) ==
  /\ pc[s] # "idle"
  /\ End(s)

-----------------------------------------------------------------------------
SyncStep(s) ==
  \/ \E p \in Person, to \in Role : SyncRead(s, p, to)
  \/ SyncCheck(s) \/ SyncReject(s) \/ SyncCommit(s) \/ SyncClaim(s) \/ SyncEnd(s)

Next ==
  \/ \E d \in Doc, to \in Role : Patch(d, to)
  \/ \E d \in Doc, to \in WriteRole : GenericWrite(d, to)
  \/ \E s \in Sync : SyncStep(s)

Spec == Init /\ [][Next]_vars

-----------------------------------------------------------------------------
(* Properties *)

Requests == [person : Person, target : Role, effective : Role, plan : SUBSET Doc]

(* Every variable keeps the shape of the documents and requests it stands
   for. *)
TypeOK ==
  /\ role \in [Doc -> Role \union {"none"}]
  /\ claim \in [Account -> Role \union {"none"}]
  /\ pc \in [Sync -> {"idle", "check", "commit", "claim", "done"}]
  /\ req \in [Sync -> Requests \union {NoRequest}]
  /\ \A s \in Sync : req[s] \in IF pc[s] = "idle" THEN {NoRequest} ELSE Requests
  /\ overtaken \subseteq Running

(* "Cannot remove the last remaining admin": no sequence of requests leaves a
   tenant without a member whose role is admin. *)
AnAdminRemains == Admins # {}

(* The person whom s syncs has both documents. *)
Duplicated(s) == \A d \in DocOf(req[s].person) : role[d] # "none"

(* Unless a generic write demotes somebody, the one way to lose the last admin
   is a sync that another request overtook between its reads and its commit,
   or of a person with two documents, both of which its check counts; a PATCH
   never does. *)
LockoutOnlyByStaleSync ==
  [][WriteRole \subseteq {"admin"} /\ Admins # {} =>
       \/ Admins' # {}
       \/ \E s \in Sync : /\ pc[s] = "commit"
                          /\ s \in overtaken \/ Duplicated(s)]_vars

(* What a sync leaves behind: one role in the documents, and in the claims. *)
DocsAligned(r) == \A d \in DocOf(r.person) : role[d] \in {r.target, "none"}
ClaimAligned(r) == r.person \in Account => claim[r.person] = r.target

(* A sync that succeeds undisturbed leaves the canonical document, the legacy
   document and the claims of its person with the same role. *)
SyncAligns ==
  \A s \in Sync :
    pc[s] = "done" /\ s \notin overtaken =>
      DocsAligned(req[s]) /\ ClaimAligned(req[s])

(* The inductive strengthening: what an undisturbed sync has made of its reads
   and its check is still true. *)
Fresh(s) ==
  /\ pc[s] \in {"check", "commit"} =>
       /\ req[s].effective = EffectiveRole(req[s].person)
       /\ req[s].plan = Planned(req[s].person)
  /\ pc[s] = "commit" => (Demotes(req[s]) => Cardinality(Admins) > 1)
  /\ pc[s] \in {"claim", "done"} => DocsAligned(req[s])
  /\ pc[s] = "done" => ClaimAligned(req[s])

FreshInv == \A s \in Sync : s \notin overtaken => Fresh(s)
=============================================================================
