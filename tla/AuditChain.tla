------------------------------ MODULE AuditChain ------------------------------
(***************************************************************************)
(* The hash chain of the audit log (audit-chain.mjs): every append is a    *)
(* transaction that reads the head of the chain and writes an entry linked *)
(* to it; GET /audit-logs/verify recomputes the links of the first entries *)
(* (routes/audit.mjs).  The entries change by what the BFF does not do:    *)
(* the rotation of PII keys (scripts/pii_rotate_fields.mjs) and writes and *)
(* deletions outside the program, which the chain is there to reveal.      *)
(*                                                                         *)
(* Abstractions: a digest is the content it is made of, so that digests    *)
(* are equal when the contents are; the fields of an entry are one value   *)
(* but for the encrypted e-mail; a ciphertext is the version of the key it *)
(* was made with; one who edits an entry does not recompute digests.  A    *)
(* definition called a mutant is no part of the model.                     *)
(***************************************************************************)
EXTENDS Naturals

CONSTANTS
  Writer,  \* BFF instances and scripts that append
  Id,      \* document ids: appending is bounded by their number
  Data,    \* what an entry tells: entity, action, user, details
  Idle,    \* no transaction is running
  MaxKey   \* bound: versions of the key that encrypts e-mails

ASSUME ConstantsAssumption ==
  /\ Id \subseteq Nat
  /\ MaxKey \in Nat \ {0}

VARIABLES
  head,     \* audit_chain/head: lastSeq and lastHash
  logs,     \* the documents of audit_logs
  reading,  \* [Writer -> the head its transaction has read, or Idle]
  key,      \* the current version of the key
  written,  \* the entries as they were appended
  rotated,  \* ids whose ciphertext the rotation has replaced
  touched   \* ids edited or deleted outside the program

vars == <<head, logs, reading, key, written, rotated, touched>>

NoHash == <<>>

Init ==
  /\ head = [seq |-> 0, hash |-> NoHash]
  /\ logs = {}
  /\ reading = [w \in Writer |-> Idle]
  /\ key = 1
  /\ written = {}
  /\ rotated = {}
  /\ touched = {}

HashAuditEntry(e) == <<e.id, e.seq, e.prev, e.data, e.enc>>

-----------------------------------------------------------------------------
(* The append's transaction begins and reads the head. *)
Read(w) ==
  /\ reading[w] = Idle
  /\ reading' = [reading EXCEPT ![w] = head]
  /\ UNCHANGED <<head, logs, key, written, rotated, touched>>

(* The entry that a transaction with this head appends.  Its e-mail is absent
   (0), or encrypted with the key of the instance, whichever it was deployed
   with. *)
NewEntry(h, i, d, k) ==
  LET e == [id |-> i, seq |-> h.seq + 1, prev |-> h.hash, data |-> d, enc |-> k]
  IN  [id |-> i, seq |-> e.seq, prev |-> e.prev, data |-> d, enc |-> k,
       hash |-> HashAuditEntry(e)]

(* Mutant: the head is read outside the transaction. *)
AppendBlind(w, i, d, k) ==
  LET e == NewEntry(reading[w], i, d, k)
  IN  /\ reading[w] # Idle
      /\ \A v \in written : v.id # i
      /\ logs' = logs \union {e}
      /\ written' = written \union {e}
      /\ head' = [seq |-> e.seq, hash |-> e.hash]
      /\ reading' = [reading EXCEPT ![w] = Idle]
      /\ UNCHANGED <<key, rotated, touched>>

(* The transaction commits if the head is as it read it; ids are random. *)
Append(w, i, d, k) ==
  LET e == NewEntry(head, i, d, k)
  IN  /\ reading[w] = head
      /\ \A v \in written : v.id # i
      /\ logs' = logs \union {e}
      /\ written' = written \union {e}
      /\ head' = [seq |-> e.seq, hash |-> e.hash]
      /\ reading' = [reading EXCEPT ![w] = Idle]
      /\ UNCHANGED <<key, rotated, touched>>

(* Another one has committed: Firestore runs the transaction again. *)
Retry(w) ==
  /\ reading[w] \notin {Idle, head}
  /\ reading' = [reading EXCEPT ![w] = Idle]
  /\ UNCHANGED <<head, logs, key, written, rotated, touched>>

(* A new key is deployed. *)
NewKey ==
  /\ key < MaxKey
  /\ key' = key + 1
  /\ UNCHANGED <<head, logs, reading, written, rotated, touched>>

(* needsRotation *)
NeedsRotation(e) == e.enc \notin {0, key}

(* A page of the rotation: the ciphertext is replaced in place. *)
RotatePage(page) ==
  /\ page # {}
  /\ \A e \in page : NeedsRotation(e)
  /\ logs' = (logs \ page) \union {[e EXCEPT !.enc = key] : e \in page}
  /\ rotated' = rotated \union {e.id : e \in page}
  /\ UNCHANGED <<head, reading, key, written, touched>>

(* Outside the program an entry is edited, *)
Edit(e, d) ==
  /\ d # e.data
  /\ logs' = (logs \ {e}) \union {[e EXCEPT !.data = d]}
  /\ touched' = touched \union {e.id}
  /\ UNCHANGED <<head, reading, key, written, rotated>>

(* or deleted. *)
Delete(e) ==
  /\ logs' = logs \ {e}
  /\ touched' = touched \union {e.id}
  /\ UNCHANGED <<head, reading, key, written, rotated>>

-----------------------------------------------------------------------------
Next ==
  \/ \E w \in Writer :
       \/ Read(w) \/ Retry(w)
       \/ \E i \in Id, d \in Data, k \in 0 .. key : Append(w, i, d, k)
  \/ NewKey
  \/ \E page \in SUBSET logs : RotatePage(page)
  \/ \E e \in logs : Delete(e) \/ \E d \in Data : Edit(e, d)

Spec == Init /\ [][Next]_vars

-----------------------------------------------------------------------------
(* Verification *)

(* The order of the query: by chainSeq, then by document name. *)
Before(p, e) == p.seq < e.seq \/ (p.seq = e.seq /\ p.id < e.id)

(* What a query with some limit returns: the first documents of the order. *)
Scans == {S \in SUBSET logs : \A e \in S, f \in logs : Before(f, e) => f \in S}

(* Next to each other in what is scanned. *)
Adjacent(S, p, e) ==
  Before(p, e) /\ ~\E q \in S : Before(p, q) /\ Before(q, e)

(* Mutant: numbers without gaps are taken for a chain, prevHash is not checked. *)
LinkedLoosely(S, e) ==
  e.hash = HashAuditEntry(e) /\ \A p \in S : Adjacent(S, p, e) => e.seq = p.seq + 1

(* An entry passes: its number and its prevHash follow from the entry before
   it, the first one's from nothing, and its hash from its content. *)
Linked(S, e) ==
  /\ (~\E p \in S : Before(p, e)) => e.prev = NoHash
  /\ \A p \in S : Adjacent(S, p, e) =>
       e.seq = p.seq + 1 /\ e.prev = HashAuditEntry(p)
  /\ e.hash = HashAuditEntry(e)

(* verify's ok, which the route answers with 200 or 409. *)
VerifyOk(S) == \A e \in S : Linked(S, e)

-----------------------------------------------------------------------------
(* Properties *)

(* A document of audit_logs; a digest is of any depth. *)
IsEntry(e) ==
  /\ e = [id |-> e.id, seq |-> e.seq, prev |-> e.prev, data |-> e.data,
          enc |-> e.enc, hash |-> e.hash]
  /\ e.id \in Id /\ e.seq \in Nat \ {0} /\ e.data \in Data
  /\ e.enc \in 0 .. key

(* Every variable keeps the shape of the documents it stands for. *)
TypeOK ==
  /\ head = [seq |-> head.seq, hash |-> head.hash] /\ head.seq \in Nat
  /\ key \in 1 .. MaxKey
  /\ DOMAIN reading = Writer
  /\ \A e \in logs \union written : IsEntry(e)
  /\ rotated \union touched \subseteq Id

(* Verification raises no false alarm: as long as nobody touches the log and
   no key is rotated, every prefix of it verifies, however many writers append
   at once and while they do.  (A rotation replaces a field that the hashes
   cover, which verify cannot tell from an edit.) *)
NoFalseAlarm ==
  touched = {} /\ rotated = {} => \A S \in Scans : VerifyOk(S)

(* Verification is sound: what passes is exactly the first entries that were
   appended, each as it was appended, none edited and none missing before the
   last.  (That the last ones scanned are the last ones appended, it does not
   tell: it never looks at the head.) *)
VerifySound ==
  \A S \in Scans : VerifyOk(S) =>
    \E n \in 0 .. head.seq : S = {e \in written : e.seq <= n}

(* The inductive strengthening: what was appended is one chain up to the head, *)
ChainInv ==
  /\ \A w \in written :
       /\ w.seq \in 1 .. head.seq
       /\ w.hash = HashAuditEntry(w)
       /\ w.seq = 1 => w.prev = NoHash
       /\ w.seq = head.seq => w.hash = head.hash
  /\ \A v, w \in written :
       /\ v.seq = w.seq \/ v.id = w.id => v = w
       /\ w.seq = v.seq + 1 => w.prev = v.hash
  /\ \A n \in 1 .. head.seq : \E w \in written : w.seq = n
  /\ head.seq = 0 => head.hash = NoHash

(* and a document of the log is an entry that was appended but for the fields
   that an edit or a rotation changes. *)
LogInv ==
  /\ \A e \in logs : \E w \in written :
       /\ e.id = w.id /\ e.seq = w.seq /\ e.prev = w.prev /\ e.hash = w.hash
       /\ e.id \notin touched \union rotated => e = w
  /\ \A w \in written : w.id \notin touched => \E e \in logs : e.id = w.id
=============================================================================
