--------------------------- MODULE AuditChain_proofs ---------------------------
(* Proofs about AuditChain, for any writers, entries and keys. *)
EXTENDS AuditChain, Integers, WellFoundedInduction, TLAPS

(* The steps of Next. *)
LEMMA NextCases ==
  ASSUME Next
  PROVE  \/ \E w \in Writer : Read(w) \/ Retry(w)
         \/ \E w \in Writer, i \in Id, d \in Data, k \in 0 .. key :
              Append(w, i, d, k)
         \/ NewKey
         \/ \E page \in SUBSET logs : RotatePage(page)
         \/ \E e \in logs : Delete(e)
         \/ \E e \in logs, d \in Data : Edit(e, d)
BY DEF Next

(* An appended entry continues the chain at the head. *)
LEMMA NewEntryShape ==
  ASSUME TypeOK, NEW i \in Id, NEW d \in Data, NEW k \in 0 .. key
  PROVE  /\ IsEntry(NewEntry(head, i, d, k))
         /\ NewEntry(head, i, d, k).id = i
         /\ NewEntry(head, i, d, k).seq = head.seq + 1
         /\ NewEntry(head, i, d, k).prev = head.hash
         /\ NewEntry(head, i, d, k).hash =
              HashAuditEntry(NewEntry(head, i, d, k))
BY DEF TypeOK, IsEntry, NewEntry, HashAuditEntry

(* What an edit and a rotation leave of an entry. *)
LEMMA EntryEdited ==
  ASSUME NEW e, IsEntry(e), NEW d \in Data
  PROVE  LET f == [e EXCEPT !.data = d]
         IN  /\ IsEntry(f) /\ f.id = e.id /\ f.seq = e.seq
             /\ f.prev = e.prev /\ f.hash = e.hash
BY DEF IsEntry

LEMMA EntryRotated ==
  ASSUME TypeOK, NEW e, IsEntry(e)
  PROVE  LET f == [e EXCEPT !.enc = key]
         IN  /\ IsEntry(f) /\ f.id = e.id /\ f.seq = e.seq
             /\ f.prev = e.prev /\ f.hash = e.hash
<1>1. key \in 0 .. key
  BY DEF TypeOK
<1> QED BY <1>1 DEF IsEntry

-----------------------------------------------------------------------------
(* Every variable keeps the shape of the documents it stands for. *)
LEMMA TypeStep ==
  ASSUME TypeOK, [Next]_vars
  PROVE  TypeOK'
<1>1. ASSUME logs' = logs, written' = written, key' = key, head' = head,
             DOMAIN reading' = Writer, rotated' = rotated, touched' = touched
      PROVE  TypeOK'
  BY <1>1 DEF TypeOK, IsEntry
<1>2. CASE UNCHANGED vars
  BY <1>1, <1>2 DEF vars, TypeOK
<1>3. ASSUME NEW w \in Writer, Read(w) \/ Retry(w) PROVE TypeOK'
  BY <1>1, <1>3 DEF Read, Retry, TypeOK
<1>4. ASSUME NEW w \in Writer, NEW i \in Id, NEW d \in Data, NEW k \in 0 .. key,
             Append(w, i, d, k)
      PROVE  TypeOK'
  <2> DEFINE e == NewEntry(head, i, d, k)
  <2>1. IsEntry(e) /\ key' = key
    BY <1>4, NewEntryShape DEF Append
  <2>3. /\ logs' = logs \union {e}
        /\ written' = written \union {e}
        /\ head' = [seq |-> e.seq, hash |-> e.hash]
        /\ DOMAIN reading' = Writer
        /\ UNCHANGED <<key, rotated, touched>>
    BY <1>4 DEF Append, TypeOK
  <2>4. e.seq \in Nat
    BY <2>1 DEF IsEntry
  <2> HIDE DEF e
  <2>5. \A f \in logs' \union written' : IsEntry(f)
    BY <2>1, <2>3 DEF TypeOK
  <2>6. \A f \in logs' \union written' : IsEntry(f)'
    BY <2>1, <2>5 DEF IsEntry
  <2>7. head' = [seq |-> head'.seq, hash |-> head'.hash] /\ head'.seq \in Nat
    BY <2>3, <2>4
  <2> QED BY <2>3, <2>6, <2>7 DEF TypeOK
<1>5. ASSUME NewKey PROVE TypeOK'
  <2>1. key' \in 1 .. MaxKey /\ key' = key + 1
    BY <1>5, ConstantsAssumption DEF NewKey, TypeOK
  <2>2. \A n \in 0 .. key : n \in 0 .. key'
    BY <2>1 DEF TypeOK
  <2> QED BY <1>5, <2>1, <2>2 DEF NewKey, TypeOK, IsEntry
<1>6. ASSUME NEW page \in SUBSET logs, RotatePage(page) PROVE TypeOK'
  <2>1. \A e \in logs : IsEntry(e)
    BY DEF TypeOK
  <2>2. \A e \in page : IsEntry([e EXCEPT !.enc = key]) /\ e.id \in Id
    BY <2>1, EntryRotated DEF IsEntry
  <2>3. /\ logs' = (logs \ page) \union {[e EXCEPT !.enc = key] : e \in page}
        /\ rotated' = rotated \union {e.id : e \in page}
        /\ UNCHANGED <<head, reading, key, written, touched>>
    BY <1>6 DEF RotatePage
  <2>4. \A e \in logs' : IsEntry(e)
    BY <2>1, <2>2, <2>3
  <2>5. rotated' \subseteq Id
    BY <2>2, <2>3 DEF TypeOK
  <2> QED BY <2>3, <2>4, <2>5 DEF TypeOK, IsEntry
<1>7. ASSUME NEW e \in logs, Delete(e) PROVE TypeOK'
  BY <1>7 DEF Delete, TypeOK, IsEntry
<1>8. ASSUME NEW e \in logs, NEW d \in Data, Edit(e, d) PROVE TypeOK'
  <2>1. \A f \in logs : IsEntry(f)
    BY DEF TypeOK
  <2>2. IsEntry([e EXCEPT !.data = d])
    BY <2>1, EntryEdited
  <2>3. /\ logs' = (logs \ {e}) \union {[e EXCEPT !.data = d]}
        /\ touched' = touched \union {e.id}
        /\ UNCHANGED <<head, reading, key, written, rotated>>
    BY <1>8 DEF Edit
  <2>4. \A f \in logs' : IsEntry(f)
    BY <2>1, <2>2, <2>3
  <2>5. touched' \subseteq Id
    BY <2>1, <2>3 DEF TypeOK, IsEntry
  <2> QED BY <2>3, <2>4, <2>5 DEF TypeOK, IsEntry
<1> QED BY <1>2, <1>3, <1>4, <1>5, <1>6, <1>7, <1>8, NextCases
-----------------------------------------------------------------------------
(* What was appended is one chain that ends at the head. *)
LEMMA ChainStep ==
  ASSUME TypeOK, ChainInv, [Next]_vars
  PROVE  ChainInv'
<1>1. ASSUME written' = written, head' = head PROVE ChainInv'
  BY <1>1 DEF ChainInv, HashAuditEntry
<1>2. CASE UNCHANGED vars
  BY <1>1, <1>2 DEF vars
<1>3. ASSUME NEW w \in Writer, Read(w) \/ Retry(w) PROVE ChainInv'
  BY <1>1, <1>3 DEF Read, Retry
<1>4. ASSUME NEW x \in Writer, NEW i \in Id, NEW d \in Data, NEW k \in 0 .. key,
             Append(x, i, d, k)
      PROVE  ChainInv'
  <2> DEFINE e == NewEntry(head, i, d, k)
  <2>1. /\ e.id = i /\ e.seq = head.seq + 1 /\ e.prev = head.hash
        /\ e.hash = HashAuditEntry(e)
    BY NewEntryShape
  <2>2. /\ written' = written \union {e}
        /\ head' = [seq |-> e.seq, hash |-> e.hash]
        /\ \A v \in written : v.id # i
    BY <1>4 DEF Append
  <2> HIDE DEF e
  <2>3. head'.seq = head.seq + 1 /\ head'.hash = e.hash /\ head.seq \in Nat
    BY <2>1, <2>2 DEF TypeOK
  <2>4. \A w \in written :
          /\ w.seq \in Int /\ 1 <= w.seq /\ w.seq <= head.seq
          /\ w.seq # e.seq /\ w.seq # e.seq + 1 /\ w.seq # head'.seq
    BY <2>1, <2>3 DEF ChainInv
  <2>5. ASSUME NEW w \in written'
        PROVE  /\ w.seq \in 1 .. head'.seq
               /\ w.hash = HashAuditEntry(w)
               /\ w.seq = 1 => w.prev = NoHash
               /\ w.seq = head'.seq => w.hash = head'.hash
    <3>1. CASE w \in written
      BY <2>3, <2>4, <3>1 DEF ChainInv
    <3>2. CASE w = e
      BY <2>1, <2>3, <3>2 DEF ChainInv
    <3> QED BY <2>2, <3>1, <3>2
  <2>6. ASSUME NEW v \in written', NEW w \in written'
        PROVE  /\ v.seq = w.seq \/ v.id = w.id => v = w
               /\ w.seq = v.seq + 1 => w.prev = v.hash
    <3>1. CASE v \in written /\ w \in written
      BY <3>1 DEF ChainInv
    <3>2. CASE v \in written /\ w = e
      BY <2>1, <2>2, <2>3, <2>4, <3>2 DEF ChainInv
    <3>3. CASE v = e /\ w \in written
      BY <2>1, <2>2, <2>3, <2>4, <3>3
    <3>4. CASE v = e /\ w = e
      BY <2>1, <2>3, <3>4
    <3> QED BY <2>2, <3>1, <3>2, <3>3, <3>4
  <2>7. \A n \in 1 .. head'.seq : \E w \in written' : w.seq = n
    BY <2>1, <2>2, <2>3 DEF ChainInv
  <2>8. head'.seq # 0
    BY <2>3
  <2> QED BY <2>5, <2>6, <2>7, <2>8 DEF ChainInv, HashAuditEntry
<1>5. ASSUME NewKey PROVE ChainInv'
  BY <1>1, <1>5 DEF NewKey
<1>6. ASSUME NEW page \in SUBSET logs, RotatePage(page) PROVE ChainInv'
  BY <1>1, <1>6 DEF RotatePage
<1>7. ASSUME NEW e \in logs, Delete(e) PROVE ChainInv'
  BY <1>1, <1>7 DEF Delete
<1>8. ASSUME NEW e \in logs, NEW d \in Data, Edit(e, d) PROVE ChainInv'
  BY <1>1, <1>8 DEF Edit
<1> QED BY <1>2, <1>3, <1>4, <1>5, <1>6, <1>7, <1>8, NextCases
-----------------------------------------------------------------------------
(* A document of the log comes from an entry that was appended. *)
Origin(e, w) == e.id = w.id /\ e.seq = w.seq /\ e.prev = w.prev /\ e.hash = w.hash

LEMMA LogStep ==
  ASSUME TypeOK, LogInv, [Next]_vars
  PROVE  LogInv'
<1> USE DEF Origin
<1>1. ASSUME logs' = logs, written' = written, rotated' = rotated,
             touched' = touched
      PROVE  LogInv'
  BY <1>1 DEF LogInv
<1>2. CASE UNCHANGED vars
  BY <1>1, <1>2 DEF vars
<1>3. ASSUME NEW w \in Writer, Read(w) \/ Retry(w) PROVE LogInv'
  BY <1>1, <1>3 DEF Read, Retry
<1>4. ASSUME NEW x \in Writer, NEW i \in Id, NEW d \in Data, NEW k \in 0 .. key,
             Append(x, i, d, k)
      PROVE  LogInv'
  <2> DEFINE n == NewEntry(head, i, d, k)
  <2>1. /\ logs' = logs \union {n}
        /\ written' = written \union {n}
        /\ UNCHANGED <<rotated, touched>>
    BY <1>4 DEF Append
  <2> HIDE DEF n
  <2> QED BY <2>1 DEF LogInv
<1>5. ASSUME NewKey PROVE LogInv'
  BY <1>1, <1>5 DEF NewKey
<1>6. ASSUME NEW page \in SUBSET logs, RotatePage(page) PROVE LogInv'
  <2>1. /\ logs' = (logs \ page) \union {[e EXCEPT !.enc = key] : e \in page}
        /\ rotated' = rotated \union {e.id : e \in page}
        /\ written' = written /\ touched' = touched
    BY <1>6 DEF RotatePage
  <2>2. \A e \in page : /\ [e EXCEPT !.enc = key] \in logs'
                        /\ Origin([e EXCEPT !.enc = key], e)
    BY <2>1, EntryRotated DEF TypeOK
  <2>3. ASSUME NEW f \in logs'
        PROVE  \E w \in written :
                 Origin(f, w) /\ (f.id \notin touched' \union rotated' => f = w)
    <3>1. CASE f \in logs
      BY <2>1, <3>1 DEF LogInv
    <3>2. CASE \E e \in page : f = [e EXCEPT !.enc = key]
      BY <2>1, <2>2, <3>2 DEF LogInv
    <3> QED BY <2>1, <3>1, <3>2
  <2>4. ASSUME NEW w \in written, w.id \notin touched
        PROVE  \E f \in logs' : f.id = w.id
    <3>1. PICK e \in logs : e.id = w.id
      BY <2>4 DEF LogInv
    <3>2. CASE e \in page
      BY <2>2, <3>1, <3>2
    <3>3. CASE e \notin page
      BY <2>1, <3>1, <3>3
    <3> QED BY <3>2, <3>3
  <2> QED BY <2>1, <2>3, <2>4 DEF LogInv
<1>7. ASSUME NEW e \in logs, Delete(e) PROVE LogInv'
  BY <1>7 DEF Delete, LogInv
<1>8. ASSUME NEW e \in logs, NEW d \in Data, Edit(e, d) PROVE LogInv'
  <2> DEFINE f == [e EXCEPT !.data = d]
  <2>1. Origin(f, e)
    BY EntryEdited DEF TypeOK
  <2>2. /\ logs' = (logs \ {e}) \union {f}
        /\ touched' = touched \union {e.id}
        /\ written' = written /\ rotated' = rotated
    BY <1>8 DEF Edit
  <2> HIDE DEF f
  <2> QED BY <2>1, <2>2 DEF LogInv
<1> QED BY <1>2, <1>3, <1>4, <1>5, <1>6, <1>7, <1>8, NextCases

-----------------------------------------------------------------------------
(* What holds of the chain in every state. *)
Inv == TypeOK /\ ChainInv /\ LogInv

(* The appended entries are one chain that ends at the head, and the documents
   of the log are these entries but for what was edited or rotated. *)
THEOREM ChainCorrect == Spec => []Inv
<1>1. Init => Inv
  BY ConstantsAssumption DEF Init, Inv, TypeOK, ChainInv, LogInv
<1>2. Inv /\ [Next]_vars => Inv'
  BY TypeStep, ChainStep, LogStep DEF Inv
<1> QED BY <1>1, <1>2, PTL DEF Spec

(* Type correctness of the head, the log and the entries. *)
THEOREM ChainTyped == Spec => []TypeOK
<1>1. Inv => TypeOK
  BY DEF Inv
<1> QED BY <1>1, ChainCorrect, PTL

(* What is known of an entry that was appended. *)
LEMMA WrittenFacts ==
  ASSUME Inv
  PROVE  /\ head.seq \in Nat
         /\ \A w \in written : w.seq \in Nat /\ 1 <= w.seq /\ w.seq <= head.seq
         /\ \A v, w \in written : Before(v, w) <=> v.seq < w.seq
<1>1. head.seq \in Nat
  BY DEF Inv, TypeOK
<1>2. \A w \in written : w.seq \in Nat /\ 1 <= w.seq /\ w.seq <= head.seq
  BY <1>1 DEF Inv, ChainInv
<1>3. \A w \in written : w.id \in Nat
  BY ConstantsAssumption DEF Inv, TypeOK, IsEntry
<1>4. ASSUME NEW v \in written, NEW w \in written, v.seq = w.seq, v.id < w.id
      PROVE  FALSE
  <2>1. v = w
    BY <1>4 DEF Inv, ChainInv
  <2> QED BY <1>3, <1>4, <2>1
<1>5. ASSUME NEW v \in written, NEW w \in written
      PROVE  Before(v, w) <=> v.seq < w.seq
  BY <1>4 DEF Before
<1> QED BY <1>1, <1>2, <1>5

(* Verification raises no false alarm. *)
THEOREM NoFalseAlarmCorrect == Spec => []NoFalseAlarm
<1>1. ASSUME Inv, touched = {}, rotated = {}, NEW S \in Scans, NEW e \in S
      PROVE  Linked(S, e)
  <2>1. logs = written
    BY <1>1 DEF Inv, LogInv, ChainInv
  <2>2. S \subseteq written /\ \A f \in S, g \in written : Before(g, f) => g \in S
    BY <2>1 DEF Scans
  <2>3. ASSUME NEW n \in Nat, 1 <= n, n < e.seq
        PROVE  \E w \in S : w.seq = n
    <3>1. n \in 1 .. head.seq
      BY <1>1, <2>2, <2>3, WrittenFacts
    <3>2. PICK w \in written : w.seq = n
      BY <1>1, <3>1 DEF Inv, ChainInv
    <3> QED BY <1>1, <2>2, <2>3, <3>2, WrittenFacts
  <2>4. ASSUME ~\E p \in S : Before(p, e) PROVE e.prev = NoHash
    <3>1. e.seq \in Nat /\ 1 <= e.seq
      BY <1>1, <2>2, WrittenFacts
    <3>2. CASE e.seq = 1
      BY <1>1, <2>2, <3>2 DEF Inv, ChainInv
    <3>3. CASE e.seq # 1
      <4>1. PICK w \in S : w.seq = 1
        BY <2>3, <3>1, <3>3
      <4> QED BY <1>1, <2>2, <2>4, <3>1, <3>3, <4>1, WrittenFacts
    <3> QED BY <3>2, <3>3
  <2>5. ASSUME NEW p \in S, Adjacent(S, p, e)
        PROVE  e.seq = p.seq + 1 /\ e.prev = HashAuditEntry(p)
    <3>1. /\ p.seq \in Nat /\ e.seq \in Nat /\ 1 <= p.seq /\ p.seq < e.seq
          /\ p \in written /\ e \in written
      BY <1>1, <2>2, <2>5, WrittenFacts DEF Adjacent
    <3>2. e.seq = p.seq + 1
      <4>1. SUFFICES ASSUME p.seq + 1 < e.seq PROVE FALSE
        BY <3>1
      <4>2. PICK w \in S : w.seq = p.seq + 1
        BY <2>3, <3>1, <4>1
      <4>3. Before(p, w) /\ Before(w, e)
        BY <1>1, <2>2, <3>1, <4>1, <4>2, WrittenFacts
      <4> QED BY <2>5, <4>3 DEF Adjacent
    <3> QED BY <1>1, <3>1, <3>2 DEF Inv, ChainInv
  <2>6. e.hash = HashAuditEntry(e)
    BY <1>1, <2>2 DEF Inv, ChainInv
  <2> QED BY <2>4, <2>5, <2>6 DEF Linked
<1>2. Inv => NoFalseAlarm
  BY <1>1 DEF NoFalseAlarm, VerifyOk
<1> QED BY <1>2, ChainCorrect, PTL
-----------------------------------------------------------------------------
(* A set of natural numbers that is not empty has a least element: the relation
   of the library's theorem written as a set. *)
Less == {ss \in Nat \X Nat : ss[1] < ss[2]}

LEMMA LeastNat ==
  ASSUME NEW T \in SUBSET Nat, T # {}
  PROVE  \E n \in T : \A m \in T : n <= m
<1>1. IsWellFoundedOn({ss \in Nat \X Nat : ss[1] < ss[2]}, Nat)
  BY NatLessThanWellFounded DEF OpToRel
<1>2. IsWellFoundedOn(Less, Nat)
  BY <1>1 DEF Less
<1>3. PICK n \in T : \A m \in T : ~ (<<m, n>> \in Less)
  BY <1>2, WFMin
<1>4. ASSUME NEW m \in T PROVE n <= m
  <2>1. <<m, n>> \notin Less
    BY <1>3
  <2>2. ~ (m < n)
    BY <2>1 DEF Less
  <2> QED BY <2>2
<1> QED BY <1>4

(* A document that hashes to its hash is as it was appended. *)
LEMMA HashedIsWritten ==
  ASSUME Inv, NEW e \in logs, e.hash = HashAuditEntry(e)
  PROVE  e \in written
<1>1. PICK w \in written : Origin(e, w)
  BY DEF Inv, LogInv, Origin
<1>2. w.hash = HashAuditEntry(w) /\ e.hash = w.hash
  BY <1>1 DEF Inv, ChainInv, Origin
<1>3. e.data = w.data /\ e.enc = w.enc
  BY <1>2 DEF HashAuditEntry
<1>4. IsEntry(e) /\ IsEntry(w)
  BY DEF Inv, TypeOK
<1>5. e = w
  BY <1>1, <1>3, <1>4 DEF IsEntry, Origin
<1> QED BY <1>5

(* A digest is not the absence of one. *)
LEMMA HashIsSome ==
  ASSUME NEW e
  PROVE  HashAuditEntry(e) # NoHash
<1>1. 5 \in DOMAIN HashAuditEntry(e)
  BY DEF HashAuditEntry
<1>2. 5 \notin DOMAIN NoHash
  BY DEF NoHash
<1> QED BY <1>1, <1>2

(* In what passes, every entry but the first appended follows the one before. *)
LEMMA PassedHasPrevious ==
  ASSUME Inv, NEW S \in SUBSET written, VerifyOk(S),
         NEW e \in S, e.seq # 1
  PROVE  \E p \in S : p.seq = e.seq - 1
<1>1. e.seq \in Nat /\ 1 < e.seq /\ Linked(S, e)
  BY WrittenFacts DEF VerifyOk
<1>2. \E p \in S : Before(p, e)
  <2>1. SUFFICES ASSUME ~\E p \in S : Before(p, e) PROVE FALSE
    OBVIOUS
  <2>2. e.prev = NoHash
    BY <1>1, <2>1 DEF Linked
  <2>3. e.seq - 1 \in 1 .. head.seq
    BY <1>1, WrittenFacts
  <2>4. PICK v \in written : v.seq = e.seq - 1
    BY <2>3 DEF Inv, ChainInv
  <2>5. e.prev = HashAuditEntry(v)
    BY <1>1, <2>4 DEF Inv, ChainInv
  <2> QED BY <2>2, <2>5, HashIsSome
<1> DEFINE T == {n \in Nat : \E p \in S : Before(p, e) /\ n = e.seq - p.seq}
<1>3. ASSUME NEW p \in S, Before(p, e) PROVE e.seq - p.seq \in T
  BY <1>1, <1>3, WrittenFacts
<1>4. T # {} /\ T \subseteq Nat
  BY <1>2, <1>3
<1>5. PICK n \in T : \A m \in T : n <= m
  BY <1>4, LeastNat
<1>6. PICK p \in S : Before(p, e) /\ n = e.seq - p.seq
  OBVIOUS
<1>7. ASSUME NEW q \in S, Before(p, q), Before(q, e) PROVE FALSE
  <2>1. n <= e.seq - q.seq
    BY <1>3, <1>5, <1>7
  <2>2. p.seq < q.seq
    BY <1>7, WrittenFacts
  <2> QED BY <1>1, <1>6, <2>1, <2>2, WrittenFacts
<1>8. Adjacent(S, p, e)
  BY <1>6, <1>7 DEF Adjacent
<1>9. e.seq = p.seq + 1
  BY <1>1, <1>8 DEF Linked
<1> QED BY <1>9, WrittenFacts

(* What passes is the first entries that were appended. *)
LEMMA PassedIsPrefix ==
  ASSUME Inv, NEW S \in SUBSET written, VerifyOk(S)
  PROVE  \E n \in 0 .. head.seq : S = {e \in written : e.seq <= n}
<1> DEFINE U == {n \in Nat : \A e \in S : e.seq <= n}
<1>1. head.seq \in U
  BY WrittenFacts
<1>2. PICK n \in U : \A m \in U : n <= m
  BY <1>1, LeastNat
<1>3. n \in 0 .. head.seq /\ \A e \in S : e.seq <= n
  BY <1>1, <1>2, WrittenFacts
<1>4. ASSUME n # 0 PROVE \E e \in S : e.seq = n
  <2>1. n - 1 \in Nat /\ n - 1 \notin U
    BY <1>2, <1>3, <1>4
  <2>2. PICK e \in S : ~ (e.seq <= n - 1)
    BY <2>1
  <2> QED BY <1>3, <2>2, WrittenFacts
<1> DEFINE V == {k \in Nat : k < n /\ ~\E e \in S : e.seq = n - k}
<1>5. V = {}
  <2>1. SUFFICES ASSUME V # {} PROVE FALSE
    OBVIOUS
  <2>2. PICK k \in V : \A m \in V : k <= m
    BY <2>1, LeastNat
  <2>3. k # 0
    BY <1>3, <1>4, <2>2
  <2>4. k - 1 \in Nat /\ k - 1 \notin V /\ k - 1 < n
    BY <1>3, <2>2, <2>3
  <2>5. PICK e \in S : e.seq = n - (k - 1)
    BY <2>4
  <2>6. e.seq # 1
    BY <1>3, <2>2, <2>5
  <2>7. PICK p \in S : p.seq = e.seq - 1
    BY <2>6, PassedHasPrevious
  <2>8. p.seq = n - k
    BY <1>3, <2>2, <2>5, <2>7
  <2> QED BY <2>2, <2>8
<1>6. ASSUME NEW w \in written, w.seq <= n PROVE w \in S
  <2>1. n - w.seq \in Nat /\ n - w.seq < n /\ n - (n - w.seq) = w.seq
    BY <1>3, <1>6, WrittenFacts
  <2>2. PICK e \in S : e.seq = w.seq
    BY <1>5, <2>1
  <2>3. e = w
    BY <2>2 DEF Inv, ChainInv
  <2> QED BY <2>3
<1>7. S = {e \in written : e.seq <= n}
  BY <1>3, <1>6
<1> QED BY <1>3, <1>7

(* Verification is sound, for a log of any length and a scan of any limit. *)
THEOREM VerifySoundCorrect == Spec => []VerifySound
<1>1. ASSUME Inv, NEW S \in Scans, VerifyOk(S)
      PROVE  \E n \in 0 .. head.seq : S = {e \in written : e.seq <= n}
  <2>1. S \subseteq logs
    BY DEF Scans
  <2>2. ASSUME NEW e \in S PROVE e \in written
    <3>1. e.hash = HashAuditEntry(e)
      BY <1>1 DEF VerifyOk, Linked
    <3> QED BY <1>1, <2>1, <3>1, HashedIsWritten
  <2> QED BY <1>1, <2>2, PassedIsPrefix
<1>2. Inv => VerifySound
  BY <1>1 DEF VerifySound
<1> QED BY <1>2, ChainCorrect, PTL
=============================================================================
