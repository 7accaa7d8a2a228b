--------------------------- MODULE Approvals_proofs ---------------------------
(* Proofs about the two components in which something is submitted and decided:
   TransactionState, for any members and any bound on versions, and then
   ProjectReview, for any pages, any data and any bound on writes. *)
EXTENDS TransactionState, ProjectReview, Integers, TLAPS

(* The steps of Next, grouped by what they may write. *)
LEMMA NextCases ==
  ASSUME Next
  PROVE  \/ \E a \in Actor : Open(a)
         \/ \E a \in Actor : Attach(a)
         \/ \E a \in Actor, state \in State : Edit(a, state)
         \/ \E a \in Actor, to \in State : ChangeState(a, to)
         \/ \E e \in events : Deliver(e)
BY DEF Next

(* The document after a write. *)
LEMMA WriteShape ==
  ASSUME TypeOK, NEW a \in Actor, NEW state \in State, tx.version < MaxVersion,
         NEW content \in 0 .. MaxVersion
  PROVE  /\ Write(a, state, content) \in Document
         /\ Write(a, state, content).version = tx.version + 1
         /\ Write(a, state, content).state = state
         /\ Write(a, state, content).updatedBy = a
         /\ Write(a, state, content).submittedBy = tx.submittedBy
         /\ Write(a, state, content).approvedBy = tx.approvedBy
         /\ Write(a, state, content).createdBy =
              IF tx.createdBy = Nobody THEN a ELSE tx.createdBy
<1> DEFINE w == Write(a, state, content)
<1>1. tx.version + 1 \in 0 .. MaxVersion
  BY ConstantsAssumption DEF TypeOK, Document
<1>2. /\ w.version = tx.version + 1
      /\ w.state = state
      /\ w.updatedBy = a
      /\ w.submittedBy = tx.submittedBy
      /\ w.approvedBy = tx.approvedBy
      /\ w.createdBy = IF tx.createdBy = Nobody THEN a ELSE tx.createdBy
  BY DEF TypeOK, Document, Write
<1>3. w \in Document
  BY <1>1 DEF TypeOK, Document, Write
<1> QED BY <1>2, <1>3

(* The document after a change of state. *)
LEMMA ChangeShape ==
  ASSUME TypeOK, NEW a \in Actor, NEW to \in State, ChangeState(a, to)
  PROVE  /\ tx' \in Document
         /\ tx'.version = tx.version + 1
         /\ tx'.state = to
         /\ tx'.updatedBy = a
         /\ tx'.submittedBy = IF to = "SUBMITTED" THEN a ELSE tx.submittedBy
         /\ tx'.approvedBy = IF to = "APPROVED" THEN a ELSE tx.approvedBy
         /\ tx'.createdBy = IF tx.createdBy = Nobody THEN a ELSE tx.createdBy
<1> DEFINE w == Write(a, to, tx.content)
<1>1. tx.content \in 0 .. MaxVersion /\ tx.version < MaxVersion
  BY DEF TypeOK, Document, ChangeState
<1>2. /\ w \in Document
      /\ w.version = tx.version + 1
      /\ w.state = to
      /\ w.updatedBy = a
      /\ w.submittedBy = tx.submittedBy
      /\ w.approvedBy = tx.approvedBy
      /\ w.createdBy = IF tx.createdBy = Nobody THEN a ELSE tx.createdBy
  BY <1>1, WriteShape
<1>3. tx' = [w EXCEPT !.submittedBy = IF to = "SUBMITTED" THEN a ELSE @,
                      !.approvedBy = IF to = "APPROVED" THEN a ELSE @]
  BY DEF ChangeState
<1> HIDE DEF w
<1> QED BY <1>2, <1>3 DEF Document

(* The event of a change of state. *)
NewEvent(a, to) ==
  [id |-> tx.version + 1, next |-> to, by |-> a, round |-> round,
   author |-> SubmitterOf(tx)]

(* Every variable keeps the shape of the documents it stands for. *)
LEMMA TypeStep ==
  ASSUME TypeOK, [Next]_vars
  PROVE  TypeOK'
<1>1. CASE UNCHANGED vars
  BY <1>1 DEF TypeOK, vars
<1>2. ASSUME NEW a \in Actor, Open(a) PROVE TypeOK'
  <2>1. Seen(tx) \in [version : 0 .. MaxVersion, state : State,
                      content : 0 .. MaxVersion]
    BY DEF TypeOK, Document, Seen
  <2> QED BY <1>2, <2>1 DEF TypeOK, Open
<1>3. ASSUME NEW a \in Actor, NEW state \in State, Edit(a, state)
      PROVE  TypeOK'
  <2>1. tx.version + 1 \in 0 .. MaxVersion /\ tx.version < MaxVersion
    BY <1>3, ConstantsAssumption DEF TypeOK, Document, Edit
  <2>2. tx' \in Document
    BY <1>3, <2>1, WriteShape DEF Edit
  <2>3. round' \in 0 .. MaxVersion
    BY <1>3, <2>1 DEF TypeOK, Edit, NewRound
  <2> QED BY <1>3, <2>2, <2>3 DEF TypeOK, Edit
<1>4. ASSUME NEW a \in Actor, Attach(a) PROVE TypeOK'
  <2>1. tx.version + 1 \in 0 .. MaxVersion /\ tx.version < MaxVersion
    BY <1>4, ConstantsAssumption DEF TypeOK, Document, Attach
  <2>2. tx.state \in State
    BY DEF TypeOK, Document
  <2>3. tx' \in Document
    BY <1>4, <2>1, <2>2, WriteShape DEF Attach
  <2> QED BY <1>4, <2>3 DEF TypeOK, Attach
<1>5. ASSUME NEW a \in Actor, NEW to \in State, ChangeState(a, to)
      PROVE  TypeOK'
  <2>1. tx.version + 1 \in 1 .. MaxVersion
    BY <1>5, ConstantsAssumption DEF TypeOK, Document, ChangeState
  <2>2. tx' \in Document
    BY <1>5, ChangeShape
  <2>3. round' \in 0 .. MaxVersion
    BY <1>5, <2>1 DEF TypeOK, ChangeState, NewRound
  <2>4. NewEvent(a, to) \in Event
    BY <2>1 DEF NewEvent, Event, TypeOK, Document, SubmitterOf
  <2>5. events' = events \union {NewEvent(a, to)}
    BY <1>5 DEF ChangeState, NewEvent
  <2>6. /\ events' \subseteq Event
        /\ done' \subseteq events'
        /\ notices' \subseteq events' \X (Actor \union {Nobody})
        /\ seen' = seen
    BY <1>5, <2>4, <2>5 DEF TypeOK, ChangeState
  <2> QED BY <2>2, <2>3, <2>6 DEF TypeOK
<1>6. ASSUME NEW e \in events, Deliver(e) PROVE TypeOK'
  <2>1. RecipientsOf(e) \subseteq Actor \union {Nobody}
    BY ConstantsAssumption DEF RecipientsOf, SubmitterOf, TypeOK, Document
  <2>2. PICK sent \in SUBSET RecipientsOf(e) :
          /\ notices' = notices \union ({e} \X sent)
          /\ done' = IF sent = RecipientsOf(e) THEN done \union {e} ELSE done
    BY <1>6 DEF Deliver
  <2>3. /\ notices' \subseteq events \X (Actor \union {Nobody})
        /\ done' \subseteq events
    BY <2>1, <2>2 DEF TypeOK
  <2> QED BY <1>6, <2>3 DEF TypeOK, Deliver
<1> QED BY <1>1, <1>2, <1>3, <1>4, <1>5, <1>6, NextCases

-----------------------------------------------------------------------------
(* A version stands for one document. *)
LEMMA SeenStep ==
  ASSUME TypeOK, SeenInv, [Next]_vars
  PROVE  SeenInv'
<1>1. CASE UNCHANGED vars
  BY <1>1 DEF SeenInv, Seen, vars
<1>2. ASSUME NEW a \in Actor, Open(a) PROVE SeenInv'
  <2>1. Seen(tx).version = tx.version
    BY DEF Seen
  <2>2. tx.version <= tx.version
    BY DEF TypeOK, Document
  <2>3. seen' = [seen EXCEPT ![a] = Seen(tx)] /\ tx' = tx
    BY <1>2 DEF Open
  <2>4. Seen(tx)' = Seen(tx)
    BY <2>3 DEF Seen
  <2> QED BY <2>1, <2>2, <2>3, <2>4 DEF SeenInv, TypeOK
<1>3. ASSUME seen' = seen, tx'.version = tx.version + 1
      PROVE  SeenInv'
  <2>1. tx.version \in Int /\ \A b \in Actor : seen[b].version \in Int
    BY DEF TypeOK, Document
  <2>2. \A b \in Actor : seen[b].version < tx'.version
    BY <1>3, <2>1 DEF SeenInv
  <2>3. \A b \in Actor : seen'[b].version <= tx'.version /\ seen'[b].version # tx'.version
    BY <1>3, <2>1, <2>2
  <2> QED BY <2>3 DEF SeenInv
<1>4. ASSUME NEW a \in Actor, NEW state \in State, Edit(a, state)
      PROVE  SeenInv'
  <2>1. tx'.version = tx.version + 1 /\ seen' = seen
    BY <1>4 DEF Edit, Write, TypeOK, Document
  <2> QED BY <2>1, <1>3
<1>5. ASSUME NEW a \in Actor, Attach(a) PROVE SeenInv'
  <2>1. tx'.version = tx.version + 1 /\ seen' = seen
    BY <1>5 DEF Attach, Write, TypeOK, Document
  <2> QED BY <2>1, <1>3
<1>6. ASSUME NEW a \in Actor, NEW to \in State, ChangeState(a, to)
      PROVE  SeenInv'
  <2>1. tx'.version = tx.version + 1 /\ seen' = seen
    BY <1>6, ChangeShape DEF ChangeState
  <2> QED BY <2>1, <1>3
<1>7. ASSUME NEW e \in events, Deliver(e) PROVE SeenInv'
  BY <1>7 DEF Deliver, SeenInv, Seen
<1> QED BY <1>1, <1>2, <1>4, <1>5, <1>6, <1>7, NextCases

-----------------------------------------------------------------------------
(* A submission is decided once, and its decision belongs to the last round. *)
LEMMA RoundStep ==
  ASSUME TypeOK, RoundInv, [Next]_vars
  PROVE  RoundInv'
<1> USE DEF Decisions
<1>0. /\ tx.version \in Int /\ round \in Int
      /\ \A e \in events : e.id \in Int /\ e.round \in Int
  BY DEF TypeOK, Document, Event
<1>1. ASSUME events' = events, round' = round, tx'.version >= tx.version,
             tx'.version \in Int, tx'.state = "SUBMITTED" => tx.state = "SUBMITTED"
      PROVE  RoundInv'
  BY <1>0, <1>1 DEF RoundInv, DecidedOnce
<1>2. CASE UNCHANGED vars
  BY <1>2 DEF RoundInv, DecidedOnce, vars
<1>3. ASSUME NEW a \in Actor, Open(a) PROVE RoundInv'
  BY <1>0, <1>1, <1>3 DEF Open
<1>4. ASSUME NEW a \in Actor, Attach(a) PROVE RoundInv'
  <2>1. /\ tx'.version = tx.version + 1 /\ tx'.state = tx.state
        /\ events' = events /\ round' = round
    BY <1>4 DEF Attach, Write, TypeOK, Document
  <2> QED BY <1>0, <1>1, <2>1
<1>5. ASSUME NEW a \in Actor, NEW state \in State, Edit(a, state)
      PROVE  RoundInv'
  <2>1. tx'.version = tx.version + 1 /\ tx'.state = state /\ events' = events
    BY <1>5 DEF Edit, Write, TypeOK, Document
  <2>2. CASE state = "SUBMITTED" /\ tx.state # "SUBMITTED"
    <3>1. round' = tx.version + 1
      BY <1>5, <2>2 DEF Edit, NewRound
    <3>2. \A e \in Decisions : e.round < round'
      BY <1>0, <3>1 DEF RoundInv
    <3> QED BY <1>0, <2>1, <3>1, <3>2 DEF RoundInv, DecidedOnce
  <2>3. CASE ~(state = "SUBMITTED" /\ tx.state # "SUBMITTED")
    <3>1. round' = round
      BY <1>5, <2>3 DEF Edit, NewRound
    <3> QED BY <1>0, <1>1, <2>1, <2>3, <3>1
  <2> QED BY <2>2, <2>3
<1>6. ASSUME NEW a \in Actor, NEW to \in State, ChangeState(a, to)
      PROVE  RoundInv'
  <2> DEFINE n == NewEvent(a, to)
  <2>1. tx'.version = tx.version + 1 /\ tx'.state = to
    BY <1>6, ChangeShape
  <2>2. events' = events \union {n}
    BY <1>6 DEF ChangeState, NewEvent
  <2>3. n.id = tx.version + 1 /\ n.next = to /\ n.round = round
    BY DEF NewEvent
  <2> HIDE DEF n
  <2>4. CASE to = "SUBMITTED"
    <3>1. round' = tx.version + 1 /\ tx.state # "SUBMITTED"
      BY <1>6, <2>4 DEF ChangeState, NewRound, Allowed
    <3>2. Decisions' = Decisions
      BY <2>2, <2>3, <2>4
    <3>3. \A e \in Decisions : e.round < round'
      BY <1>0, <3>1 DEF RoundInv
    <3>4. \A e \in events' : e.id <= tx'.version
      BY <1>0, <2>1, <2>2, <2>3 DEF RoundInv
    <3>5. DecidedOnce'
      BY <3>2 DEF RoundInv, DecidedOnce
    <3> QED BY <1>0, <2>1, <3>1, <3>2, <3>3, <3>4, <3>5 DEF RoundInv
  <2>5. CASE to # "SUBMITTED"
    <3>1. tx.state = "SUBMITTED" /\ round' = round
      BY <1>6, <2>5 DEF ChangeState, NewRound, Allowed
    <3>2. \A e \in Decisions : e.round < round
      BY <3>1 DEF RoundInv
    <3>3. Decisions' \subseteq Decisions \union {n}
      BY <2>2
    <3>4. \A e \in Decisions' : e.round <= round'
      BY <1>0, <2>3, <3>1, <3>2, <3>3
    <3>5. DecidedOnce'
      BY <1>0, <2>3, <3>2, <3>3 DEF RoundInv, DecidedOnce
    <3>6. \A e \in events' : e.id <= tx'.version
      BY <1>0, <2>1, <2>2, <2>3 DEF RoundInv
    <3>7. round' <= tx'.version
      BY <1>0, <2>1, <3>1 DEF RoundInv
    <3> QED BY <2>1, <2>5, <3>4, <3>5, <3>6, <3>7 DEF RoundInv
  <2> QED BY <2>4, <2>5
<1>7. ASSUME NEW e \in events, Deliver(e) PROVE RoundInv'
  BY <1>0, <1>1, <1>7 DEF Deliver
<1> QED BY <1>2, <1>3, <1>4, <1>5, <1>6, <1>7, NextCases

-----------------------------------------------------------------------------
(* The document names the members who submitted and approved it last. *)
LEMMA SignaturesStep ==
  ASSUME TypeOK, RoundInv, SignaturesKept, [Next]_vars
  PROVE  SignaturesKept'
<1>1. ASSUME events' = events, tx'.submittedBy = tx.submittedBy,
             tx'.approvedBy = tx.approvedBy
      PROVE  SignaturesKept'
  BY <1>1 DEF SignaturesKept, Latest
<1>2. CASE UNCHANGED vars
  BY <1>1, <1>2 DEF vars
<1>3. ASSUME NEW a \in Actor, Open(a) PROVE SignaturesKept'
  BY <1>1, <1>3 DEF Open
<1>4. ASSUME NEW a \in Actor, Attach(a) PROVE SignaturesKept'
  <2>1. tx' = Write(a, tx.state, tx.version + 1) /\ events' = events
    BY <1>4 DEF Attach
  <2>2. tx'.submittedBy = tx.submittedBy /\ tx'.approvedBy = tx.approvedBy
    BY <2>1 DEF Write, TypeOK, Document
  <2> QED BY <1>1, <2>1, <2>2
<1>5. ASSUME NEW a \in Actor, NEW state \in State, Edit(a, state)
      PROVE  SignaturesKept'
  <2>1. tx' = Write(a, state, tx.version + 1) /\ events' = events
    BY <1>5 DEF Edit
  <2>2. tx'.submittedBy = tx.submittedBy /\ tx'.approvedBy = tx.approvedBy
    BY <2>1 DEF Write, TypeOK, Document
  <2> QED BY <1>1, <2>1, <2>2
<1>6. ASSUME NEW a \in Actor, NEW to \in State, ChangeState(a, to)
      PROVE  SignaturesKept'
  <2> DEFINE n == NewEvent(a, to)
  <2>1. /\ tx'.submittedBy = IF to = "SUBMITTED" THEN a ELSE tx.submittedBy
        /\ tx'.approvedBy = IF to = "APPROVED" THEN a ELSE tx.approvedBy
    BY <1>6, ChangeShape
  <2>2. events' = events \union {n}
    BY <1>6 DEF ChangeState, NewEvent
  <2>3. n.id = tx.version + 1 /\ n.next = to /\ n.by = a
    BY DEF NewEvent
  <2> HIDE DEF n
  <2>4. \A e \in events : e.id \in Int /\ e.id < n.id
    BY <2>3 DEF RoundInv, TypeOK, Document, Event
  <2>5. ASSUME NEW e \in events', Latest(e)'
        PROVE  /\ e.next = "SUBMITTED" => tx'.submittedBy = e.by
               /\ e.next = "APPROVED" => tx'.approvedBy = e.by
    <3>1. CASE e = n
      BY <2>1, <2>3, <3>1
    <3>2. CASE e # n
      <4>1. e \in events /\ e.id \in Int /\ e.id < n.id
        BY <2>2, <2>4, <3>2
      <4>2. e.next = to => n.id <= e.id
        BY <2>2, <2>3, <2>5 DEF Latest
      <4>3. n.id \in Int
        BY <2>3 DEF TypeOK, Document
      <4>4. e.next # to
        BY <4>1, <4>2, <4>3
      <4>5. Latest(e)
        BY <2>2, <2>5 DEF Latest
      <4> QED BY <2>1, <4>1, <4>4, <4>5 DEF SignaturesKept
    <3> QED BY <3>1, <3>2
  <2> QED BY <2>5 DEF SignaturesKept
<1>7. ASSUME NEW e \in events, Deliver(e) PROVE SignaturesKept'
  BY <1>1, <1>7 DEF Deliver
<1> QED BY <1>2, <1>3, <1>4, <1>5, <1>6, <1>7, NextCases

-----------------------------------------------------------------------------
(* A decision's author stays the one to tell until somebody else submits. *)
LEMMA AuthorStep ==
  ASSUME TypeOK, RoundInv, AuthorInv, [Next]_vars
  PROVE  AuthorInv'
<1> USE DEF Decisions
<1>1. ASSUME events' = events, tx'.submittedBy = tx.submittedBy,
             NEW a \in Actor,
             tx'.createdBy = IF tx.createdBy = Nobody THEN a ELSE tx.createdBy
      PROVE  AuthorInv'
  <2>1. tx'.createdBy # Nobody
    BY <1>1, ConstantsAssumption
  <2>2. ASSUME NEW e \in Decisions
        PROVE  SubmitterOf(tx)' = e.author \/ Overtaken(e)'
    <3>1. 0 < tx.version
      BY DEF RoundInv, TypeOK, Document, Event
    <3>2. tx'.createdBy = tx.createdBy
      BY <1>1, <3>1 DEF AuthorInv
    <3> QED BY <1>1, <2>2, <3>2 DEF AuthorInv, SubmitterOf, Overtaken
  <2> QED BY <1>1, <2>1, <2>2 DEF AuthorInv
<1>2. ASSUME events' = events, tx' = tx PROVE AuthorInv'
  BY <1>2 DEF AuthorInv, SubmitterOf, Overtaken
<1>3. CASE UNCHANGED vars
  BY <1>2, <1>3 DEF vars
<1>4. ASSUME NEW a \in Actor, Open(a) PROVE AuthorInv'
  BY <1>2, <1>4 DEF Open
<1>5. ASSUME NEW a \in Actor, Attach(a) PROVE AuthorInv'
  <2>1. tx' = Write(a, tx.state, tx.version + 1) /\ events' = events
    BY <1>5 DEF Attach
  <2>2. /\ tx'.submittedBy = tx.submittedBy
        /\ tx'.createdBy = IF tx.createdBy = Nobody THEN a ELSE tx.createdBy
    BY <2>1 DEF Write, TypeOK, Document
  <2> QED BY <1>1, <2>1, <2>2
<1>6. ASSUME NEW a \in Actor, NEW state \in State, Edit(a, state)
      PROVE  AuthorInv'
  <2>1. tx' = Write(a, state, tx.version + 1) /\ events' = events
    BY <1>6 DEF Edit
  <2>2. /\ tx'.submittedBy = tx.submittedBy
        /\ tx'.createdBy = IF tx.createdBy = Nobody THEN a ELSE tx.createdBy
    BY <2>1 DEF Write, TypeOK, Document
  <2> QED BY <1>1, <2>1, <2>2
<1>7. ASSUME NEW a \in Actor, NEW to \in State, ChangeState(a, to)
      PROVE  AuthorInv'
  <2> DEFINE n == NewEvent(a, to)
  <2>1. /\ tx'.submittedBy = IF to = "SUBMITTED" THEN a ELSE tx.submittedBy
        /\ tx'.createdBy = tx.createdBy
        /\ tx.createdBy # Nobody
    <3>1. tx.version > 0
      BY <1>7 DEF ChangeState, TypeOK, Document
    <3> QED BY <1>7, <3>1, ChangeShape DEF AuthorInv
  <2>2. events' = events \union {n}
    BY <1>7 DEF ChangeState, NewEvent
  <2>3. /\ n.id = tx.version + 1 /\ n.next = to /\ n.by = a
        /\ n.author = SubmitterOf(tx)
    BY DEF NewEvent
  <2> HIDE DEF n
  <2>4. \A e \in events : Overtaken(e) => Overtaken(e)'
    BY <2>2 DEF Overtaken
  <2>5. CASE to = "SUBMITTED"
    <3>1. SubmitterOf(tx)' = a
      BY <2>1, <2>5, ConstantsAssumption DEF SubmitterOf
    <3>2. \A e \in events : n.id > e.id
      BY <2>3 DEF RoundInv, TypeOK, Document, Event
    <3>3. ASSUME NEW e \in Decisions
          PROVE  SubmitterOf(tx)' = e.author \/ Overtaken(e)'
      BY <2>2, <2>3, <2>5, <3>1, <3>2, <3>3 DEF Overtaken
    <3>4. Decisions' = Decisions
      BY <2>2, <2>3, <2>5
    <3> QED BY <2>1, <3>3, <3>4 DEF AuthorInv
  <2>6. CASE to # "SUBMITTED"
    <3>1. SubmitterOf(tx)' = SubmitterOf(tx)
      BY <2>1, <2>6 DEF SubmitterOf
    <3>2. Decisions' \subseteq Decisions \union {n}
      BY <2>2
    <3>3. ASSUME NEW e \in Decisions'
          PROVE  SubmitterOf(tx)' = e.author \/ Overtaken(e)'
      BY <2>3, <2>4, <3>1, <3>2 DEF AuthorInv
    <3> QED BY <2>1, <3>3 DEF AuthorInv
  <2> QED BY <2>5, <2>6
<1>8. ASSUME NEW e \in events, Deliver(e) PROVE AuthorInv'
  BY <1>2, <1>8 DEF Deliver
<1> QED BY <1>3, <1>4, <1>5, <1>6, <1>7, <1>8, NextCases

(* A delivered decision has reached its author unless somebody else has
   submitted since. *)
LEMMA ReachStep ==
  ASSUME TypeOK, AuthorInv, DecisionReachesSubmitter, [Next]_vars
  PROVE  DecisionReachesSubmitter'
<1> USE DEF Decisions
<1>1. ASSUME done' = done, notices' = notices, events \subseteq events'
      PROVE  DecisionReachesSubmitter'
  BY <1>1 DEF DecisionReachesSubmitter, Overtaken, TypeOK
<1>2. CASE UNCHANGED vars
  BY <1>1, <1>2 DEF vars
<1>3. ASSUME NEW a \in Actor, Open(a) PROVE DecisionReachesSubmitter'
  BY <1>1, <1>3 DEF Open
<1>4. ASSUME NEW a \in Actor, Attach(a) PROVE DecisionReachesSubmitter'
  BY <1>1, <1>4 DEF Attach
<1>5. ASSUME NEW a \in Actor, NEW state \in State, Edit(a, state)
      PROVE  DecisionReachesSubmitter'
  BY <1>1, <1>5 DEF Edit
<1>6. ASSUME NEW a \in Actor, NEW to \in State, ChangeState(a, to)
      PROVE  DecisionReachesSubmitter'
  BY <1>1, <1>6 DEF ChangeState
<1>7. ASSUME NEW e \in events, Deliver(e) PROVE DecisionReachesSubmitter'
  <2>1. PICK sent \in SUBSET RecipientsOf(e) :
          /\ notices' = notices \union ({e} \X sent)
          /\ done' = IF sent = RecipientsOf(e) THEN done \union {e} ELSE done
    BY <1>7 DEF Deliver
  <2>2. events' = events
    BY <1>7 DEF Deliver
  <2>3. ASSUME e \in Decisions, sent = RecipientsOf(e), e.author = SubmitterOf(tx)
        PROVE  <<e, e.author>> \in notices'
    BY <2>1, <2>3 DEF RecipientsOf
  <2>4. ASSUME NEW d \in done' \intersect Decisions
        PROVE  <<d, d.author>> \in notices' \/ Overtaken(d)
    <3>1. CASE d \in done
      BY <2>1, <2>4, <3>1 DEF DecisionReachesSubmitter
    <3>2. CASE d \notin done
      BY <2>1, <2>3, <2>4, <3>2 DEF AuthorInv
    <3> QED BY <3>1, <3>2
  <2> QED BY <2>2, <2>4 DEF DecisionReachesSubmitter, Overtaken
<1> QED BY <1>2, <1>3, <1>4, <1>5, <1>6, <1>7, NextCases

-----------------------------------------------------------------------------
(* Only somebody who has seen the document as it is changes its state. *)
LEMMA InformedStep ==
  ASSUME TypeOK, SeenInv, [Next]_vars, tx'.state # tx.state
  PROVE  seen[tx'.updatedBy] = Seen(tx)
<1>1. ASSUME NEW a \in Actor, seen[a].version = tx.version, tx'.updatedBy = a
      PROVE  seen[tx'.updatedBy] = Seen(tx)
  BY <1>1 DEF SeenInv
<1>2. CASE UNCHANGED vars
  BY <1>2 DEF vars
<1>3. ASSUME NEW a \in Actor, Open(a) PROVE FALSE
  BY <1>3 DEF Open
<1>4. ASSUME NEW a \in Actor, Attach(a) PROVE FALSE
  <2>1. tx'.state = tx.state
    BY <1>4 DEF Attach, Write, TypeOK, Document
  <2> QED BY <2>1
<1>5. ASSUME NEW a \in Actor, NEW state \in State, Edit(a, state)
      PROVE  seen[tx'.updatedBy] = Seen(tx)
  <2>1. tx'.updatedBy = a /\ seen[a].version = tx.version
    BY <1>5 DEF Edit, Write, TypeOK, Document
  <2> QED BY <1>1, <2>1
<1>6. ASSUME NEW a \in Actor, NEW to \in State, ChangeState(a, to)
      PROVE  seen[tx'.updatedBy] = Seen(tx)
  <2>1. tx'.updatedBy = a /\ seen[a].version = tx.version
    BY <1>6, ChangeShape DEF ChangeState
  <2> QED BY <1>1, <2>1
<1>7. ASSUME NEW e \in events, Deliver(e) PROVE FALSE
  BY <1>7 DEF Deliver
<1> QED BY <1>2, <1>3, <1>4, <1>5, <1>6, <1>7, NextCases

-----------------------------------------------------------------------------
(* What holds of the transaction in every state. *)
Inv ==
  /\ TypeOK
  /\ SeenInv
  /\ RoundInv
  /\ SignaturesKept
  /\ AuthorInv
  /\ DecisionReachesSubmitter

(* Documents, events and notifications keep their shapes, a version stands for
   one document, and rounds and signatures are those of the events. *)
THEOREM TransactionCorrect == Spec => []Inv
<1>1. Init => Inv
  <2> SUFFICES ASSUME Init PROVE Inv
    OBVIOUS
  <2>1. NoTransaction \in Document
    BY ConstantsAssumption DEF NoTransaction, Document, State
  <2>2. TypeOK
    BY <2>1, ConstantsAssumption DEF Init, TypeOK, Seen, NoTransaction, State
  <2>3. SeenInv /\ RoundInv /\ SignaturesKept
    BY DEF Init, SeenInv, RoundInv, SignaturesKept, DecidedOnce, Decisions,
           Seen, NoTransaction
  <2>4. AuthorInv /\ DecisionReachesSubmitter
    BY DEF Init, AuthorInv, DecisionReachesSubmitter, Decisions, NoTransaction
  <2> QED BY <2>2, <2>3, <2>4 DEF Inv
<1>2. Inv /\ [Next]_vars => Inv'
  BY TypeStep, SeenStep, RoundStep, SignaturesStep, AuthorStep, ReachStep
     DEF Inv
<1> QED BY <1>1, <1>2, PTL DEF Spec

(* Type correctness of documents, what actors have seen, and notices. *)
THEOREM TransactionTyped == Spec => []TypeOK
<1>1. Inv => TypeOK
  BY DEF Inv
<1> QED BY <1>1, TransactionCorrect, PTL

(* A submission is decided once, however many approvers decide at once. *)
THEOREM DecisionCorrect == Spec => []DecidedOnce
<1>1. Inv => DecidedOnce
  BY DEF Inv, RoundInv
<1> QED BY <1>1, TransactionCorrect, PTL

(* The submitter and the approver a document names are the last ones. *)
THEOREM SignaturesCorrect == Spec => []SignaturesKept
<1>1. Inv => SignaturesKept
  BY DEF Inv
<1> QED BY <1>1, TransactionCorrect, PTL

(* A decision reaches the member whose submission was decided, unless another
   member submits before it is delivered. *)
THEOREM ReachCorrect == Spec => []DecisionReachesSubmitter
<1>1. Inv => DecisionReachesSubmitter
  BY DEF Inv
<1> QED BY <1>1, TransactionCorrect, PTL

(* Nobody changes the state of a document they have not seen as it is. *)
THEOREM InformedCorrect == Spec => InformedChange
<1>1. Inv /\ [Next]_vars =>
        [tx'.state # tx.state => seen[tx'.updatedBy] = Seen(tx)]_vars
  BY InformedStep DEF Inv
<1> QED BY <1>1, TransactionCorrect, PTL DEF Spec, InformedChange

-----------------------------------------------------------------------------
(* ProjectReview: shapes *)

(* The steps of a project, its request and its pages. *)
LEMMA ReviewCases ==
  ASSUME [ReviewNext]_reviewVars
  PROVE  \/ Register
         \/ Provision
         \/ \E p \in Page : Look(p)
         \/ \E p \in Page, d \in Data, kind \in {"save", "resubmit"} : Save(p, d, kind)
         \/ \E p \in Page : Rename(p)
         \/ \E p \in Page : Read(p)
         \/ \E p \in Page : Merge(p)
         \/ \E p \in Page : Patch(p)
         \/ \E p \in Page : Abandon(p)
         \/ \E p \in Page, s \in ReviewStatus : Review(p, s)
         \/ \E p \in Page : Trash(p) \/ Restore(p)
         \/ \E p \in Page, s \in {"APPROVED", "REJECTED"} : DecideRequest(p, s)
         \/ UNCHANGED reviewVars
BY DEF ReviewNext, Page

LEMMA CallParts ==
  ASSUME ReviewTypeOK, NEW p \in Page
  PROVE  /\ call[p] \in Calls \/ call[p] = NoCall
         /\ call[p].pc # "idle" => call[p] \in Calls
         /\ copy[p] \in [project : Projects, request : RequestStatus]
BY DEF ReviewTypeOK, NoCall

LEMMA NewCallTyped ==
  ASSUME ReviewTypeOK, NEW p \in Page, NEW pc \in {"idle", "rename", "read"},
         NEW kind \in {"save", "resubmit", "review"}, NEW s \in ReviewStatus,
         NEW d \in Data
  PROVE  NewCall(p, pc, kind, s, d) \in Calls \union {NoCall}
<1>1. copy[p].project \in Projects
  BY CallParts
<1> QED BY <1>1 DEF NewCall, Calls

LEMMA OvertakingTyped ==
  ASSUME ReviewTypeOK, NEW p \in Page, NEW c \in Calls \union {NoCall}
  PROVE  Overtaking(p, c) \in [Page -> Calls \union {NoCall}]
<1> SUFFICES ASSUME NEW q \in Page
             PROVE  Overtaking(p, c)[q] \in Calls \union {NoCall}
  BY DEF Overtaking
<1>1. CASE q = p
  BY <1>1 DEF Overtaking
<1>2. CASE q # p /\ call[q].pc \in {"rename", "read"}
  <2>1. call[q] \in Calls
    BY <1>2, CallParts
  <2>2. [call[q] EXCEPT !.overtaken = TRUE] \in Calls
    BY <2>1 DEF Calls
  <2> QED BY <1>2, <2>2 DEF Overtaking
<1>3. CASE q # p /\ call[q].pc \notin {"rename", "read"}
  BY <1>3 DEF Overtaking, ReviewTypeOK
<1> QED BY <1>1, <1>2, <1>3

(* What the writes make of a project is a project. *)
LEMMA ReviewedTyped ==
  ASSUME ReviewTypeOK, NEW c \in Calls, project.version < MaxWrites
  PROVE  Reviewed(c) \in Projects
<1>1. [status |-> c.status, previous |-> c.seen.status] \in Entry
  BY DEF Calls, Projects, Entry
<1>2. Append(c.seen.history, [status |-> c.status, previous |-> c.seen.status]) \in Seq(Entry)
  BY <1>1 DEF Calls, Projects
<1>3. project.version + 1 \in 1 .. MaxWrites
  BY ReviewAssumption DEF ReviewTypeOK, Projects
<1> QED BY <1>2, <1>3 DEF Reviewed, ReviewTypeOK, Projects, Calls

LEMMA VersionedTyped ==
  ASSUME ReviewTypeOK, NEW p \in Page, NEW document \in Projects,
         Versioned(p, document)
  PROVE  project' \in Projects
<1>1. project.version + 1 \in 1 .. MaxWrites
  BY ReviewAssumption DEF ReviewTypeOK, Projects, Versioned
<1> QED BY <1>1 DEF Versioned, Projects

LEMMA ReviewTyped ==
  ASSUME ReviewTypeOK, [ReviewNext]_reviewVars
  PROVE  ReviewTypeOK'
<1>1. CASE Register
  BY <1>1 DEF Register, ReviewTypeOK, RequestStatus
<1>2. ASSUME NEW p \in Page, Look(p) PROVE ReviewTypeOK'
  BY <1>2 DEF Look, ReviewTypeOK
<1>3. ASSUME NEW p \in Page, NEW d \in Data, NEW kind \in {"save", "resubmit"},
             Save(p, d, kind)
      PROVE  ReviewTypeOK'
  <2>1. project' \in Projects
    <3>1. [copy[p].project EXCEPT !.data = d] \in Projects
      BY CallParts DEF Projects
    <3> QED BY <1>3, <3>1, VersionedTyped DEF Save
  <2>2. call' \in [Page -> Calls \union {NoCall}]
    <3>1. PICK pc \in {"idle", "rename", "read"} :
            call' = Overtaking(p, NewCall(p, pc, kind, "PENDING", d))
      BY <1>3 DEF Save
    <3>2. "PENDING" \in ReviewStatus
      BY DEF ReviewStatus
    <3> QED BY <3>1, <3>2, NewCallTyped, OvertakingTyped
  <2> QED BY <1>3, <2>1, <2>2 DEF Save, ReviewTypeOK
<1>4. ASSUME MergeDrive PROVE project' \in Projects
  <2>1. project.version + 1 \in 1 .. MaxWrites
    BY <1>4, ReviewAssumption DEF MergeDrive, ReviewTypeOK, Projects
  <2> QED BY <1>4, <2>1 DEF MergeDrive, ReviewTypeOK, Projects
<1>5. CASE Provision
  BY <1>4, <1>5 DEF Provision, ReviewTypeOK
<1>6. ASSUME NEW p \in Page, Rename(p) PROVE ReviewTypeOK'
  <2>1. call[p] \in Calls
    BY <1>6, CallParts DEF Rename
  <2>2. call' \in [Page -> Calls \union {NoCall}]
    BY <1>6, <2>1 DEF Rename, ReviewTypeOK, Calls
  <2> QED BY <1>4, <1>6, <2>2 DEF Rename, ReviewTypeOK
<1>7. ASSUME NEW p \in Page, Read(p) PROVE ReviewTypeOK'
  <2>1. call[p] \in Calls
    BY <1>7, CallParts DEF Read
  <2>2. call' \in [Page -> Calls \union {NoCall}]
    BY <1>7, <2>1 DEF Read, ReviewTypeOK, Calls
  <2> QED BY <1>7, <2>2 DEF Read, ReviewTypeOK
<1>8. ASSUME NEW p \in Page, Merge(p) PROVE ReviewTypeOK'
  <2>1. call[p] \in Calls
    BY <1>8, CallParts DEF Merge
  <2>2. [call[p] EXCEPT !.pc = "patch"] \in Calls
    BY <2>1 DEF Calls
  <2>3. call' \in [Page -> Calls \union {NoCall}]
    BY <1>8, <2>2, OvertakingTyped DEF Merge
  <2>4. project' \in Projects
    BY <1>8, <2>1, ReviewedTyped DEF Merge
  <2> QED BY <1>8, <2>3, <2>4 DEF Merge, ReviewTypeOK
<1>9. ASSUME NEW p \in Page, Patch(p) PROVE ReviewTypeOK'
  <2>1. call[p] \in Calls
    BY <1>9, CallParts DEF Patch
  <2>2. /\ RequestStatusOf(call[p].status) \in RequestStatus
        /\ OutcomeOf(call[p].status) \in {"none"} \union (ReviewStatus \ {"PENDING"})
        /\ call[p].seen.data \in Data
    BY <2>1 DEF Calls, Projects, RequestStatusOf, OutcomeOf, ReviewStatus, Rejected,
                RequestStatus
  <2>3. Patched(call[p]) \in [status : RequestStatus,
                              outcome : {"none"} \union (ReviewStatus \ {"PENDING"}),
                              payload : Data]
    BY <2>2 DEF Patched, ReviewTypeOK
  <2> QED BY <1>9, <2>3 DEF Patch, ReviewTypeOK
<1>10. ASSUME NEW p \in Page, Abandon(p) PROVE ReviewTypeOK'
  BY <1>10 DEF Abandon, ReviewTypeOK
<1>11. ASSUME NEW p \in Page, NEW s \in ReviewStatus, Review(p, s) PROVE ReviewTypeOK'
  <2>1. copy[p].project.data \in Data
    BY CallParts DEF Projects
  <2>2. NewCall(p, "read", "review", s, copy[p].project.data) \in Calls \union {NoCall}
    BY <2>1, NewCallTyped
  <2> QED BY <1>11, <2>2 DEF Review, ReviewTypeOK
<1>12. ASSUME NEW p \in Page, Trash(p) \/ Restore(p) PROVE ReviewTypeOK'
  <2>1. \A b \in BOOLEAN : [project EXCEPT !.trashed = b] \in Projects
    BY DEF ReviewTypeOK, Projects
  <2>2. project' \in Projects
    BY <1>12, <2>1, VersionedTyped DEF Trash, Restore
  <2> QED BY <1>12, <2>2 DEF Trash, Restore, ReviewTypeOK
<1>13. ASSUME NEW p \in Page, NEW s \in {"APPROVED", "REJECTED"}, DecideRequest(p, s)
       PROVE  ReviewTypeOK'
  BY <1>13 DEF DecideRequest, ReviewTypeOK, RequestStatus
<1>14. CASE UNCHANGED reviewVars
  BY <1>14 DEF reviewVars, ReviewTypeOK
<1> QED
  BY <1>1, <1>2, <1>3, <1>5, <1>6, <1>7, <1>8, <1>9, <1>10, <1>11, <1>12, <1>13,
     <1>14, ReviewCases

LEMMA ReviewInitTyped ==
  ASSUME ReviewInit
  PROVE  ReviewTypeOK
<1>1. PICK d \in Data :
        /\ project = [version |-> 1, data |-> d, status |-> "PENDING",
                      history |-> <<>>, trashed |-> FALSE]
        /\ request = [status |-> "none", outcome |-> "none", payload |-> d]
  BY DEF ReviewInit
<1>2. project \in Projects
  BY <1>1, ReviewAssumption DEF Projects, ReviewStatus
<1>3. request \in [status : RequestStatus,
                  outcome : {"none"} \union (ReviewStatus \ {"PENDING"}),
                  payload : Data]
  BY <1>1 DEF RequestStatus
<1>4. copy = [p \in Page |-> [project |-> project, request |-> "none"]]
  BY DEF ReviewInit
<1>5. copy \in [Page -> [project : Projects, request : RequestStatus]]
  BY <1>2, <1>4 DEF RequestStatus
<1> QED BY <1>2, <1>3, <1>5 DEF ReviewInit, ReviewTypeOK

-----------------------------------------------------------------------------
(* What pages know of the project *)

(* A page's copy is of an earlier version, or it is the project: every write
   takes a version of its own. *)
CopyOK(p) ==
  /\ copy[p].project.version <= project.version
  /\ copy[p].project.version = project.version => copy[p].project = project
  /\ copy[p].request # "none" => request.status # "none"
CopyInv == \A p \in Page : CopyOK(p)

(* What a step may make of the project, besides giving it a new version. *)
Edited == \E p \in Page, d \in Data, kind \in {"save", "resubmit"} :
            Save(p, d, kind) /\ project' = [project EXCEPT !.version = @ + 1, !.data = d]
Judged == \E p \in Page : Merge(p) /\ project' = Reviewed(call[p])
Binned == \E p \in Page, b \in BOOLEAN :
            /\ Trash(p) \/ Restore(p)
            /\ project' = [project EXCEPT !.version = @ + 1, !.trashed = b]
Linked == /\ Provision \/ \E p \in Page : Rename(p)
          /\ project' = [project EXCEPT !.version = @ + 1]

LEMMA ProjectSteps ==
  ASSUME ReviewTypeOK, CopyInv, [ReviewNext]_reviewVars
  PROVE  Edited \/ Judged \/ Binned \/ Linked \/ project' = project
<1>1. ASSUME NEW p \in Page, NEW d \in Data, NEW kind \in {"save", "resubmit"},
             Save(p, d, kind)
      PROVE  Edited
  <2>1. copy[p].project = project
    BY <1>1 DEF Save, Versioned, CopyInv, CopyOK
  <2>2. project' = [[project EXCEPT !.data = d] EXCEPT !.version = project.version + 1]
    BY <1>1, <2>1 DEF Save, Versioned
  <2>3. project' = [project EXCEPT !.version = @ + 1, !.data = d]
    BY <2>2 DEF ReviewTypeOK, Projects
  <2> QED BY <1>1, <2>3 DEF Edited
<1>2. ASSUME NEW p \in Page, Merge(p) PROVE Judged
  BY <1>2 DEF Merge, Judged
<1>3. ASSUME NEW p \in Page, Trash(p) \/ Restore(p) PROVE Binned
  <2>1. PICK b \in BOOLEAN :
          project' = [[project EXCEPT !.trashed = b] EXCEPT !.version = project.version + 1]
    BY <1>3 DEF Trash, Restore, Versioned
  <2>2. project' = [project EXCEPT !.version = @ + 1, !.trashed = b]
    BY <2>1 DEF ReviewTypeOK, Projects
  <2> QED BY <1>3, <2>2 DEF Binned
<1>4. ASSUME Provision \/ \E p \in Page : Rename(p) PROVE Linked
  BY <1>4 DEF Provision, Rename, MergeDrive, Linked
<1> QED
  BY <1>1, <1>2, <1>3, <1>4, ReviewCases
  DEF Register, Look, Read, Patch, Abandon, Review, DecideRequest, reviewVars

(* Every write gives the project the next version. *)
LEMMA VersionGrows ==
  ASSUME ReviewTypeOK, CopyInv, [ReviewNext]_reviewVars
  PROVE  project' = project \/ project'.version = project.version + 1
BY ProjectSteps DEF Edited, Judged, Binned, Linked, Reviewed, ReviewTypeOK, Projects

LEMMA RequestStays ==
  ASSUME ReviewTypeOK, [ReviewNext]_reviewVars, request.status # "none"
  PROVE  request'.status # "none"
<1>1. ASSUME NEW p \in Page, Patch(p) PROVE request'.status # "none"
  <2>1. call[p].status \in ReviewStatus
    BY <1>1, CallParts DEF Patch, Calls
  <2>2. RequestStatusOf(call[p].status) # "none"
    BY <2>1 DEF RequestStatusOf, ReviewStatus, Rejected
  <2> QED BY <1>1, <2>2 DEF Patch, Patched
<1>2. ASSUME NEW p \in Page, NEW s \in {"APPROVED", "REJECTED"}, DecideRequest(p, s)
      PROVE  request'.status # "none"
  BY <1>2 DEF DecideRequest, ReviewTypeOK
<1> QED
  BY <1>1, <1>2, ReviewCases
  DEF Register, Provision, Look, Save, Rename, Read, Merge, Abandon, Review, Trash,
      Restore, reviewVars

(* Only a look changes a page's copy. *)
LEMMA CopySteps ==
  ASSUME ReviewTypeOK, [ReviewNext]_reviewVars, NEW q \in Page
  PROVE  \/ copy'[q] = copy[q]
         \/ /\ copy'[q] = [project |-> project, request |-> request.status]
            /\ UNCHANGED <<project, request>>
<1>1. ASSUME NEW p \in Page, Look(p)
      PROVE  \/ copy'[q] = copy[q]
             \/ /\ copy'[q] = [project |-> project, request |-> request.status]
                /\ UNCHANGED <<project, request>>
  BY <1>1 DEF Look, ReviewTypeOK
<1> QED
  BY <1>1, ReviewCases
  DEF Register, Provision, Save, Rename, Read, Merge, Patch, Abandon, Review, Trash,
      Restore, DecideRequest, reviewVars

LEMMA CopiesInductive ==
  ASSUME ReviewTypeOK, CopyInv, [ReviewNext]_reviewVars
  PROVE  CopyInv'
<1>1. SUFFICES ASSUME NEW q \in Page PROVE CopyOK(q)'
  BY DEF CopyInv
<1>2. ASSUME copy'[q] = copy[q] PROVE CopyOK(q)'
  <2>1. copy[q].project.version \in Nat /\ project.version \in Nat
    BY CallParts DEF ReviewTypeOK, Projects
  <2>2. project' = project \/ project'.version = project.version + 1
    BY VersionGrows
  <2>3. CopyOK(q)
    BY DEF CopyInv
  <2> QED BY <1>2, <2>1, <2>2, <2>3, RequestStays DEF CopyOK
<1>3. ASSUME copy'[q] = [project |-> project, request |-> request.status],
             UNCHANGED <<project, request>>
      PROVE  CopyOK(q)'
  <2>1. project.version \in Nat
    BY DEF ReviewTypeOK, Projects
  <2> QED BY <1>3, <2>1 DEF CopyOK
<1> QED BY <1>2, <1>3, CopySteps

-----------------------------------------------------------------------------
(* The history *)

Tells(document) ==
  LET h == document.history
  IN /\ document.status = IF h = <<>> THEN "PENDING" ELSE Last(h).status
     /\ \A i \in 1 .. Len(h) :
          h[i].previous = IF i = 1 THEN "PENDING" ELSE h[i - 1].status

(* The project, the copies of it and what handlers have read of it all tell
   one story. *)
StoryInv ==
  /\ Tells(project)
  /\ \A p \in Page : /\ Tells(copy[p].project)
                     /\ call[p].pc # "idle" => Tells(call[p].seen)

LEMMA ReviewedTells ==
  ASSUME ReviewTypeOK, NEW c \in Calls, Tells(c.seen)
  PROVE  Tells(Reviewed(c))
<1> DEFINE h == c.seen.history
           e == [status |-> c.status, previous |-> c.seen.status]
           g == Append(h, e)
<1>1. h \in Seq(Entry) /\ e \in Entry
  BY DEF Calls, Projects, Entry
<1>2. Reviewed(c).history = g /\ Reviewed(c).status = c.status
  BY DEF Reviewed, ReviewTypeOK, Projects
<1>3. c.seen.status = IF h = <<>> THEN "PENDING" ELSE h[Len(h)].status
  BY DEF Tells, Last
<1>4. \A i \in 1 .. Len(h) : h[i].previous = IF i = 1 THEN "PENDING" ELSE h[i - 1].status
  BY DEF Tells
<1>5. e.previous = c.seen.status /\ e.status = c.status
  OBVIOUS
<1> HIDE DEF h, e
<1>6. /\ Len(g) = Len(h) + 1 /\ g # <<>> /\ g[Len(g)] = e
      /\ \A i \in 1 .. Len(h) : g[i] = h[i]
      /\ Len(h) \in Nat
      /\ h = <<>> <=> Len(h) = 0
  BY <1>1
<1> HIDE DEF g
<1>7. ASSUME NEW i \in 1 .. Len(g)
      PROVE  g[i].previous = IF i = 1 THEN "PENDING" ELSE g[i - 1].status
  <2>1. CASE i = Len(g)
    BY <1>3, <1>5, <1>6, <2>1
  <2>2. CASE i # Len(g)
    <3>1. i \in 1 .. Len(h) /\ (i # 1 => i - 1 \in 1 .. Len(h))
      BY <1>6, <2>2
    <3> QED BY <1>4, <1>6, <3>1
  <2> QED BY <2>1, <2>2
<1> QED BY <1>2, <1>5, <1>6, <1>7 DEF Tells, Last

(* What a handler has seen is the page's copy or the project as it read it. *)
LEMMA SeenSteps ==
  ASSUME ReviewTypeOK, [ReviewNext]_reviewVars, NEW q \in Page, call'[q].pc # "idle"
  PROVE  \/ call[q].pc # "idle" /\ call'[q].seen = call[q].seen
         \/ call'[q].seen \in {copy[q].project, project}
<1> DEFINE Fine(c) == c.pc # "idle" =>
                        \/ call[q].pc # "idle" /\ c.seen = call[q].seen
                        \/ c.seen \in {copy[q].project, project}
<1>1. ASSUME NEW pc, NEW kind, NEW s, NEW d PROVE Fine(NewCall(q, pc, kind, s, d))
  BY DEF NewCall, NoCall
<1>2. ASSUME NEW p \in Page, NEW c, p = q => Fine(c) PROVE Fine(Overtaking(p, c)[q])
  <2>1. CASE p # q /\ call[q].pc \in {"rename", "read"}
    <3>1. call[q] \in Calls
      BY <2>1, CallParts
    <3> QED BY <2>1, <3>1 DEF Overtaking, Calls
  <2>2. CASE p = q \/ call[q].pc \notin {"rename", "read"}
    BY <1>2, <2>2 DEF Overtaking
  <2> QED BY <2>1, <2>2
<1>3. ASSUME NEW p \in Page, NEW d \in Data, NEW kind \in {"save", "resubmit"},
             Save(p, d, kind)
      PROVE  Fine(call'[q])
  <2>1. PICK pc : call' = Overtaking(p, NewCall(p, pc, kind, "PENDING", d))
    BY <1>3 DEF Save
  <2> HIDE DEF Fine
  <2> QED BY <1>1, <1>2, <2>1
<1>4. ASSUME NEW p \in Page, Merge(p) PROVE Fine(call'[q])
  <2>1. call[p] \in Calls /\ call[p].pc # "idle"
    BY <1>4, CallParts DEF Merge
  <2>2. p = q => Fine([call[p] EXCEPT !.pc = "patch"])
    BY <2>1 DEF Calls
  <2>3. call' = Overtaking(p, [call[p] EXCEPT !.pc = "patch"])
    BY <1>4 DEF Merge
  <2> HIDE DEF Fine
  <2> QED BY <1>2, <2>2, <2>3
<1>5. ASSUME NEW p \in Page, Rename(p) \/ Read(p) PROVE Fine(call'[q])
  <2>1. call[p] \in Calls /\ call[p].pc # "idle"
    BY <1>5, CallParts DEF Rename, Read
  <2>2. CASE p # q
    <3>1. call'[q] = call[q]
      BY <1>5, <2>2 DEF Rename, Read, ReviewTypeOK
    <3> QED BY <3>1
  <2>3. CASE p = q
    <3>1. \/ call'[q] = NoCall
          \/ call'[q] = [call[q] EXCEPT !.pc = "read"]
          \/ call'[q] = [call[q] EXCEPT !.pc = "merge", !.seen = project]
      BY <1>5, <2>3 DEF Rename, Read, ReviewTypeOK
    <3>2. /\ [call[q] EXCEPT !.pc = "read"].seen = call[q].seen
          /\ [call[q] EXCEPT !.pc = "merge", !.seen = project].seen = project
          /\ NoCall.pc = "idle"
      BY <2>1, <2>3 DEF Calls, NoCall
    <3> QED BY <2>1, <2>3, <3>1, <3>2
  <2> QED BY <2>2, <2>3
<1>6. ASSUME NEW p \in Page, Patch(p) \/ Abandon(p) PROVE Fine(call'[q])
  BY <1>6 DEF Patch, Abandon, ReviewTypeOK, NoCall
<1>7. ASSUME NEW p \in Page, NEW s \in ReviewStatus, Review(p, s) PROVE Fine(call'[q])
  <2>1. Fine(NewCall(q, "read", "review", s, copy[p].project.data))
    BY <1>1
  <2> HIDE DEF Fine
  <2>2. call'[q] = call[q] \/ call'[q] = NewCall(q, "read", "review", s, copy[p].project.data)
    BY <1>7 DEF Review, ReviewTypeOK
  <2> QED BY <2>1, <2>2 DEF Fine
<1>8. ASSUME \/ Register \/ Provision \/ UNCHANGED reviewVars
             \/ \E p \in Page : Look(p) \/ Trash(p) \/ Restore(p)
             \/ \E p \in Page, s \in {"APPROVED", "REJECTED"} : DecideRequest(p, s)
      PROVE  Fine(call'[q])
  <2>1. call' = call
    BY <1>8 DEF Register, Provision, Look, Trash, Restore, DecideRequest, reviewVars
  <2> QED BY <2>1
<1> HIDE DEF Fine
<1>9. Fine(call'[q])
  BY <1>3, <1>4, <1>5, <1>6, <1>7, <1>8, ReviewCases
<1> QED BY <1>9 DEF Fine

(* Copies and reads are copies of a project that tells its story. *)
LEMMA StoryInductive ==
  ASSUME ReviewTypeOK, CopyInv, StoryInv, [ReviewNext]_reviewVars
  PROVE  StoryInv'
<1>1. Tells(project)'
  <2>1. CASE Judged
    <3>1. PICK p \in Page : Merge(p) /\ project' = Reviewed(call[p])
      BY <2>1 DEF Judged
    <3>2. call[p] \in Calls /\ Tells(call[p].seen)
      BY <3>1, CallParts DEF Merge, StoryInv
    <3> QED BY <3>1, <3>2, ReviewedTells DEF Tells
  <2>2. CASE Edited \/ Binned \/ Linked \/ project' = project
    <3>1. project'.history = project.history /\ project'.status = project.status
      BY <2>2 DEF Edited, Binned, Linked, ReviewTypeOK, Projects
    <3> QED BY <3>1 DEF StoryInv, Tells
  <2> QED BY <2>1, <2>2, ProjectSteps
<1>2. ASSUME NEW q \in Page PROVE Tells(copy'[q].project)
  <2>1. copy'[q] = copy[q] \/ copy'[q].project = project
    BY CopySteps
  <2> QED BY <2>1 DEF StoryInv
<1>3. ASSUME NEW q \in Page, call'[q].pc # "idle" PROVE Tells(call'[q].seen)
  <2>1. \/ call[q].pc # "idle" /\ call'[q].seen = call[q].seen
        \/ call'[q].seen \in {copy[q].project, project}
    BY <1>3, SeenSteps
  <2> QED BY <2>1 DEF StoryInv
<1> QED BY <1>1, <1>2, <1>3 DEF StoryInv, Tells

LEMMA MergeGoesOn ==
  ASSUME ReviewTypeOK, NEW p \in Page, Merge(p)
  PROVE  /\ call'[p] = [call[p] EXCEPT !.pc = "patch"]
         /\ call'[p].pc = "patch"
<1>1. call[p] \in Calls
  BY CallParts DEF Merge
<1>2. call'[p] = [call[p] EXCEPT !.pc = "patch"]
  BY DEF Merge, Overtaking
<1> QED BY <1>1, <1>2 DEF Calls

(* An entry is lost only to one who had read the project before it. *)
LEMMA StepKeepsHistory ==
  ASSUME ReviewTypeOK, CopyInv, [ReviewNext]_reviewVars
  PROVE  \/ IsPrefix(project.history, project'.history)
         \/ \E p \in Page : /\ call[p].pc = "merge" /\ call'[p].pc = "patch"
                            /\ call[p].seen.history # project.history
<1>1. project.history \in Seq(Entry)
  BY DEF ReviewTypeOK, Projects
<1>2. ASSUME NEW e PROVE IsPrefix(project.history, Append(project.history, e))
  <2> DEFINE h == project.history
  <2>1. h \in Seq(Entry)
    BY <1>1
  <2> HIDE DEF h
  <2>2. Len(h) <= Len(Append(h, e)) /\ SubSeq(h, 1, Len(h)) = SubSeq(Append(h, e), 1, Len(h))
    BY <2>1
  <2> QED BY <2>2 DEF IsPrefix, h
<1>3. CASE Edited \/ Binned \/ Linked \/ project' = project
  <2>1. project'.history = project.history
    BY <1>3 DEF Edited, Binned, Linked, ReviewTypeOK, Projects
  <2> QED BY <1>1, <2>1 DEF IsPrefix
<1>4. CASE Judged
  <2>1. PICK p \in Page : Merge(p) /\ project' = Reviewed(call[p])
    BY <1>4 DEF Judged
  <2>2. call[p].pc = "merge" /\ call'[p].pc = "patch"
    BY <2>1, MergeGoesOn DEF Merge
  <2>3. project'.history = Append(call[p].seen.history,
                             [status |-> call[p].status, previous |-> call[p].seen.status])
    BY <2>1 DEF Reviewed, ReviewTypeOK, Projects
  <2> QED BY <1>2, <2>2, <2>3
<1> QED BY <1>3, <1>4, ProjectSteps

(* Each part of the project is changed by the actions that are for it. *)
LEMMA StepWritesApart ==
  ASSUME ReviewTypeOK, CopyInv, [ReviewNext]_reviewVars
  PROVE  /\ project'.data # project.data =>
              \E p \in Page, d \in Data, kind \in {"save", "resubmit"} : Save(p, d, kind)
         /\ (project'.status # project.status \/ project'.history # project.history) =>
              \E p \in Page : call[p].pc = "merge" /\ call'[p].pc = "patch"
         /\ project'.trashed # project.trashed =>
              \E p \in Page : Trash(p) \/ Restore(p)
<1>1. CASE Edited
  <2>1. /\ UNCHANGED <<project.status, project.history, project.trashed>>
        /\ \E p \in Page, d \in Data, kind \in {"save", "resubmit"} : Save(p, d, kind)
    BY <1>1 DEF Edited, ReviewTypeOK, Projects
  <2> QED BY <2>1
<1>2. CASE Judged
  <2>1. PICK p \in Page : Merge(p) /\ project' = Reviewed(call[p])
    BY <1>2 DEF Judged
  <2>2. call[p].pc = "merge" /\ call'[p].pc = "patch"
    BY <2>1, MergeGoesOn DEF Merge
  <2>3. UNCHANGED <<project.data, project.trashed>>
    BY <2>1 DEF Reviewed, ReviewTypeOK, Projects
  <2> QED BY <2>2, <2>3
<1>3. CASE Binned
  <2>1. /\ UNCHANGED <<project.status, project.history, project.data>>
        /\ \E p \in Page : Trash(p) \/ Restore(p)
    BY <1>3 DEF Binned, ReviewTypeOK, Projects
  <2> QED BY <2>1
<1>4. CASE Linked \/ project' = project
  BY <1>4 DEF Linked, ReviewTypeOK, Projects
<1> QED BY <1>1, <1>2, <1>3, <1>4, ProjectSteps

-----------------------------------------------------------------------------
(* Resubmissions *)

(* Until a resubmission reads, the project is what it has saved, of a status
   that may be resubmitted, unless it was overtaken; then its read is. *)
Timely(c, document) ==
  (c.kind = "resubmit" /\ ~c.overtaken) =>
    /\ c.pc \in {"rename", "read"} =>
         document.data = c.data /\ document.status \in Rejected
    /\ c.pc \in {"merge", "patch"} =>
         c.seen.data = c.data /\ c.seen.status \in Rejected
TimelyInv == \A p \in Page : call[p].pc # "idle" => Timely(call[p], project)

LEMMA TimelyInductive ==
  ASSUME ReviewTypeOK, CopyInv, TimelyInv, [ReviewNext]_reviewVars
  PROVE  TimelyInv'
<1>1. SUFFICES ASSUME NEW q \in Page, call'[q].pc # "idle"
               PROVE  Timely(call'[q], project')
  BY DEF TimelyInv
<1>2. ASSUME NEW p \in Page, p # q, NEW c, call' = Overtaking(p, c)
      PROVE  Timely(call'[q], project')
  <2>1. CASE call[q].pc \in {"rename", "read"}
    <3>1. call[q] \in Calls
      BY <2>1, CallParts
    <3>2. call'[q] = [call[q] EXCEPT !.overtaken = TRUE]
      BY <1>2, <2>1 DEF Overtaking
    <3> QED BY <3>1, <3>2 DEF Timely, Calls
  <2>2. CASE call[q].pc \notin {"rename", "read"}
    <3>1. call'[q] = call[q]
      BY <1>2, <2>2 DEF Overtaking
    <3> QED BY <1>1, <2>2, <3>1 DEF TimelyInv, Timely
  <2> QED BY <2>1, <2>2
<1>3. ASSUME NEW p \in Page, NEW d \in Data, NEW kind \in {"save", "resubmit"},
             Save(p, d, kind)
      PROVE  Timely(call'[q], project')
  <2>1. PICK pc : /\ call' = Overtaking(p, NewCall(p, pc, kind, "PENDING", d))
                  /\ pc \in {"idle", "rename", "read"}
    BY <1>3 DEF Save
  <2>2. CASE p = q
    <3>1. call'[q] = NewCall(q, pc, kind, "PENDING", d)
      BY <2>1, <2>2 DEF Overtaking
    <3>2. call'[q] = [pc |-> pc, kind |-> kind, status |-> "PENDING", data |-> d,
                      seen |-> copy[q].project, overtaken |-> FALSE]
      BY <1>1, <3>1 DEF NewCall, NoCall
    <3>3. kind = "resubmit" => copy[q].project.status \in Rejected
      BY <1>3, <2>2 DEF Save, CanResubmit
    <3>4. project'.data = d /\ project'.status = copy[q].project.status
      BY <1>3, <2>2, CallParts DEF Save, Versioned, Projects
    <3> QED BY <2>1, <3>2, <3>3, <3>4 DEF Timely
  <2> QED BY <1>2, <2>1, <2>2
<1>4. ASSUME NEW p \in Page, Merge(p) PROVE Timely(call'[q], project')
  <2>1. call' = Overtaking(p, [call[p] EXCEPT !.pc = "patch"])
    BY <1>4 DEF Merge
  <2>2. CASE p = q
    <3>1. call[q] \in Calls /\ call[q].pc = "merge"
      BY <1>4, <2>2, CallParts DEF Merge
    <3>2. call'[q] = [call[q] EXCEPT !.pc = "patch"]
      BY <1>4, <2>2, MergeGoesOn
    <3> QED BY <3>1, <3>2 DEF TimelyInv, Timely, Calls
  <2> QED BY <1>2, <2>1, <2>2
<1>5. ASSUME NEW p \in Page, \E s : Review(p, s)
      PROVE  Timely(call'[q], project')
  <2>1. PICK s : Review(p, s)
    BY <1>5
  <2>2. project' = project
    BY <2>1 DEF Review
  <2>3. CASE p = q
    <3>1. call'[q] = NewCall(q, "read", "review", s, copy[q].project.data)
      BY <2>1, <2>3 DEF Review, ReviewTypeOK
    <3> QED BY <3>1 DEF NewCall, Timely
  <2>4. CASE p # q
    <3>1. call'[q] = call[q]
      BY <2>1, <2>4 DEF Review, ReviewTypeOK
    <3> QED BY <1>1, <2>2, <3>1 DEF TimelyInv
  <2> QED BY <2>3, <2>4
<1>6. ASSUME NEW p \in Page, Rename(p) PROVE Timely(call'[q], project')
  <2>1. project'.data = project.data /\ project'.status = project.status
    BY <1>6 DEF Rename, MergeDrive, ReviewTypeOK, Projects
  <2>2. CASE p = q
    <3>1. call[q] \in Calls /\ call[q].pc = "rename"
      BY <1>6, <2>2, CallParts DEF Rename
    <3>2. call'[q] = [call[q] EXCEPT !.pc = "read"] \/ call'[q] = NoCall
      BY <1>6, <2>2 DEF Rename, ReviewTypeOK
    <3>3. call'[q] = [call[q] EXCEPT !.pc = "read"]
      BY <1>1, <3>2 DEF NoCall
    <3> QED BY <2>1, <3>1, <3>3 DEF TimelyInv, Timely, Calls
  <2>3. CASE p # q
    <3>1. call'[q] = call[q]
      BY <1>6, <2>3 DEF Rename, ReviewTypeOK
    <3> QED BY <1>1, <2>1, <3>1 DEF TimelyInv, Timely
  <2> QED BY <2>2, <2>3
<1>7. ASSUME NEW p \in Page, Read(p) PROVE Timely(call'[q], project')
  <2>1. project' = project
    BY <1>7 DEF Read
  <2>2. CASE p = q
    <3>1. call[q] \in Calls /\ call[q].pc = "read"
      BY <1>7, <2>2, CallParts DEF Read
    <3>2. call'[q] = [call[q] EXCEPT !.pc = "merge", !.seen = project]
      BY <1>7, <2>2 DEF Read, ReviewTypeOK
    <3> QED BY <2>1, <3>1, <3>2 DEF TimelyInv, Timely, Calls
  <2>3. CASE p # q
    <3>1. call'[q] = call[q]
      BY <1>7, <2>3 DEF Read, ReviewTypeOK
    <3> QED BY <1>1, <2>1, <3>1 DEF TimelyInv
  <2> QED BY <2>2, <2>3
<1>8. ASSUME NEW p \in Page, Patch(p) \/ Abandon(p) PROVE Timely(call'[q], project')
  <2>1. project' = project /\ (call'[q] = call[q] \/ call'[q] = NoCall)
    BY <1>8 DEF Patch, Abandon, ReviewTypeOK
  <2> QED BY <1>1, <2>1 DEF TimelyInv, NoCall
<1>9. ASSUME \/ Register \/ Provision \/ UNCHANGED reviewVars
             \/ \E p \in Page : Look(p) \/ Trash(p) \/ Restore(p)
             \/ \E p \in Page, s \in {"APPROVED", "REJECTED"} : DecideRequest(p, s)
      PROVE  Timely(call'[q], project')
  <2>1. call' = call
    BY <1>9 DEF Register, Provision, Look, Trash, Restore, DecideRequest, reviewVars
  <2>2. project'.data = project.data /\ project'.status = project.status
    BY <1>9
    DEF Register, Provision, MergeDrive, Look, Trash, Restore, Versioned, DecideRequest,
        reviewVars, ReviewTypeOK, Projects
  <2> QED BY <1>1, <2>1, <2>2 DEF TimelyInv, Timely
<1> QED
  BY <1>3, <1>4, <1>5, <1>6, <1>7, <1>8, <1>9, ReviewCases

-----------------------------------------------------------------------------
(* The request *)

(* Unless something was torn, at most one handler is between its two writes,
   and the project has the status that it will give the request. *)
PatchInv ==
  ~torn => \A p, q \in Patching : p = q /\ call[p].status = project.status

(* Only merges, patches and abandoned calls change who is between the two. *)
LEMMA PatchingStays ==
  ASSUME ReviewTypeOK, [ReviewNext]_reviewVars, NEW q \in Page,
         \A p \in Page : ~Merge(p) /\ ~Patch(p) /\ ~Abandon(p)
  PROVE  /\ q \in Patching' <=> q \in Patching
         /\ q \in Patching => call'[q] = call[q]
<1> DEFINE Fine == /\ call'[q].pc = "patch" <=> call[q].pc = "patch"
                   /\ call[q].pc = "patch" => call'[q] = call[q]
<1>1. ASSUME NEW p \in Page, NEW d \in Data, NEW kind \in {"save", "resubmit"},
             Save(p, d, kind)
      PROVE  Fine
  <2>1. PICK pc : /\ call' = Overtaking(p, NewCall(p, pc, kind, "PENDING", d))
                  /\ pc \in {"idle", "rename", "read"}
    BY <1>1 DEF Save
  <2>2. CASE p = q
    <3>1. call'[q] = NewCall(q, pc, kind, "PENDING", d) /\ call[q].pc = "idle"
      BY <1>1, <2>1, <2>2 DEF Overtaking, Save, Idle
    <3> QED BY <2>1, <3>1 DEF NewCall, NoCall
  <2>3. CASE p # q /\ call[q].pc \in {"rename", "read"}
    <3>1. call[q] \in Calls
      BY <2>3, CallParts
    <3>2. call'[q] = [call[q] EXCEPT !.overtaken = TRUE]
      BY <2>1, <2>3 DEF Overtaking
    <3> QED BY <2>3, <3>1, <3>2 DEF Calls
  <2>4. CASE p # q /\ call[q].pc \notin {"rename", "read"}
    BY <2>1, <2>4 DEF Overtaking
  <2> QED BY <2>2, <2>3, <2>4
<1>2. ASSUME NEW p \in Page, Rename(p) \/ Read(p) PROVE Fine
  <2>1. CASE p = q
    <3>1. call[q] \in Calls /\ call[q].pc # "patch"
      BY <1>2, <2>1, CallParts DEF Rename, Read
    <3>2. \/ call'[q] = NoCall
          \/ call'[q] = [call[q] EXCEPT !.pc = "read"]
          \/ call'[q] = [call[q] EXCEPT !.pc = "merge", !.seen = project]
      BY <1>2, <2>1 DEF Rename, Read, ReviewTypeOK
    <3>3. /\ [call[q] EXCEPT !.pc = "read"].pc = "read"
          /\ [call[q] EXCEPT !.pc = "merge", !.seen = project].pc = "merge"
          /\ NoCall.pc = "idle"
      BY <3>1 DEF NoCall, Calls
    <3> QED BY <3>1, <3>2, <3>3
  <2>2. CASE p # q
    BY <1>2, <2>2 DEF Rename, Read, ReviewTypeOK
  <2> QED BY <2>1, <2>2
<1>3. ASSUME NEW p \in Page, NEW s \in ReviewStatus, Review(p, s) PROVE Fine
  BY <1>3 DEF Review, NewCall, Idle, ReviewTypeOK
<1>4. ASSUME \/ Register \/ Provision \/ UNCHANGED reviewVars
             \/ \E p \in Page : Look(p) \/ Trash(p) \/ Restore(p)
             \/ \E p \in Page, s \in {"APPROVED", "REJECTED"} : DecideRequest(p, s)
      PROVE  Fine
  <2>1. call' = call
    BY <1>4 DEF Register, Provision, Look, Trash, Restore, DecideRequest, reviewVars
  <2> QED BY <2>1
<1> HIDE DEF Fine
<1>5. Fine
  BY <1>1, <1>2, <1>3, <1>4, ReviewCases
<1> QED BY <1>5 DEF Fine, Patching

(* Only a merge changes the status or the history, or mends what was torn. *)
LEMMA UntilMerge ==
  ASSUME ReviewTypeOK, CopyInv, [ReviewNext]_reviewVars, \A p \in Page : ~Merge(p)
  PROVE  /\ project'.status = project.status /\ project'.history = project.history
         /\ torn => torn'
<1>1. ~Judged
  BY DEF Judged
<1>2. project'.status = project.status /\ project'.history = project.history
  BY <1>1, ProjectSteps DEF Edited, Binned, Linked, ReviewTypeOK, Projects
<1>3. torn => torn'
  BY ReviewCases
  DEF Register, Provision, Look, Save, Rename, Read, Patch, Abandon, Review, Trash,
      Restore, DecideRequest, reviewVars
<1> QED BY <1>2, <1>3

LEMMA PatchInductive ==
  ASSUME ReviewTypeOK, CopyInv, PatchInv, [ReviewNext]_reviewVars
  PROVE  PatchInv'
<1>1. ASSUME NEW p \in Page, Merge(p) PROVE PatchInv'
  <2>1. SUFFICES ASSUME Patching = {}, NEW q \in Page, call'[q].pc = "patch"
                 PROVE  q = p /\ call'[q].status = project'.status
    BY <1>1 DEF Merge, PatchInv, Patching
  <2>2. call' = Overtaking(p, [call[p] EXCEPT !.pc = "patch"]) /\ call[q].pc # "patch"
    BY <1>1, <2>1 DEF Merge, Patching
  <2>3. q = p
    <3>1. CASE q # p /\ call[q].pc \in {"rename", "read"}
      <4>1. call[q] \in Calls /\ call'[q] = [call[q] EXCEPT !.overtaken = TRUE]
        BY <2>2, <3>1, CallParts DEF Overtaking
      <4> QED BY <2>1, <2>2, <4>1 DEF Calls
    <3>2. CASE q # p /\ call[q].pc \notin {"rename", "read"}
      BY <2>1, <2>2, <3>2 DEF Overtaking
    <3> QED BY <3>1, <3>2
  <2>4. call[p] \in Calls /\ call'[p] = [call[p] EXCEPT !.pc = "patch"]
    BY <1>1, CallParts, MergeGoesOn DEF Merge
  <2>5. project'.status = call[p].status
    BY <1>1 DEF Merge, Reviewed, ReviewTypeOK, Projects
  <2> QED BY <2>3, <2>4, <2>5 DEF Calls
<1>2. CASE \A p \in Page : ~Merge(p)
  <2>1. \A q \in Patching' : q \in Patching /\ call'[q] = call[q]
    <3>1. ASSUME NEW p \in Page, Patch(p) \/ Abandon(p), NEW q \in Page,
                 call'[q].pc = "patch"
          PROVE  call'[q] = call[q]
      BY <3>1 DEF Patch, Abandon, ReviewTypeOK, NoCall
    <3>2. ASSUME \A p \in Page : ~Patch(p) /\ ~Abandon(p), NEW q \in Page,
                 call'[q].pc = "patch"
          PROVE  call'[q] = call[q]
      BY <1>2, <3>2, PatchingStays DEF Patching
    <3> QED BY <3>1, <3>2 DEF Patching
  <2> QED BY <1>2, <2>1, UntilMerge DEF PatchInv
<1> QED BY <1>1, <1>2

LEMMA AgreesInductive ==
  ASSUME ReviewTypeOK, CopyInv, PatchInv, RequestAgrees, [ReviewNext]_reviewVars
  PROVE  RequestAgrees'
<1>1. SUFFICES ASSUME Patching' = {}, ~torn', request'.status # "none",
                      project'.history # <<>>
               PROVE  /\ request'.outcome = OutcomeOf(project'.status)
                      /\ elsewhere' \/ request'.status = RequestStatusOf(project'.status)
  BY DEF RequestAgrees, OutcomeOf, RequestStatusOf
<1>2. \A p \in Page : ~Merge(p)
  BY <1>1, MergeGoesOn DEF Patching
<1>3. project'.status = project.status /\ project'.history = project.history /\ ~torn
  BY <1>1, <1>2, UntilMerge
<1>4. ASSUME NEW p \in Page, Patch(p), request.status # "none"
      PROVE  /\ request'.outcome = OutcomeOf(project'.status)
             /\ request'.status = RequestStatusOf(project'.status)
  <2>1. call[p].status = project.status
    BY <1>3, <1>4 DEF PatchInv, Patching, Patch
  <2>2. request' = Patched(call[p])
    BY <1>4 DEF Patch
  <2> QED BY <1>3, <2>1, <2>2 DEF Patched
<1>5. ASSUME \A p \in Page : ~Patch(p) PROVE Patching = {}
  <2>1. ASSUME NEW p \in Page, Abandon(p), NEW q \in Patching PROVE FALSE
    <3>1. p # q
      BY <1>1, <2>1 DEF Abandon, Patching
    <3>2. call'[q] = call[q]
      BY <2>1, <3>1 DEF Abandon, ReviewTypeOK, Patching
    <3> QED BY <1>1, <2>1, <3>2 DEF Patching
  <2>2. CASE \A p \in Page : ~Abandon(p)
    BY <1>1, <1>2, <1>5, <2>2, PatchingStays DEF Patching
  <2> QED BY <2>1, <2>2
<1>6. CASE Register
  <2>1. Patching = {}
    BY <1>1, <1>6 DEF Register, Patching
  <2> QED BY <1>1, <1>3, <1>6, <2>1 DEF Register
<1>7. ASSUME NEW p \in Page, NEW s \in {"APPROVED", "REJECTED"}, DecideRequest(p, s)
      PROVE  request'.outcome = OutcomeOf(project'.status) /\ elsewhere'
  <2>1. request.status # "none" /\ request'.outcome = request.outcome /\ elsewhere'
    BY <1>7 DEF DecideRequest, CopyInv, CopyOK, ReviewTypeOK
  <2>2. Patching = {}
    BY <1>1, <1>7 DEF DecideRequest, Patching
  <2> QED BY <1>1, <1>3, <2>1, <2>2 DEF RequestAgrees
<1>8. ASSUME UNCHANGED <<request, elsewhere>>, \A p \in Page : ~Patch(p)
      PROVE  /\ request'.outcome = OutcomeOf(project'.status)
             /\ elsewhere' \/ request'.status = RequestStatusOf(project'.status)
  BY <1>1, <1>3, <1>5, <1>8 DEF RequestAgrees
<1>9. ASSUME \/ Provision
             \/ \E p \in Page :
                  \/ Look(p) \/ Rename(p) \/ Read(p) \/ Abandon(p) \/ Trash(p) \/ Restore(p)
                  \/ \E d \in Data, kind \in {"save", "resubmit"} : Save(p, d, kind)
                  \/ \E s \in ReviewStatus : Review(p, s)
             \/ UNCHANGED reviewVars
      PROVE  UNCHANGED <<request, elsewhere>>
  BY <1>9
  DEF Provision, Look, Rename, Read, Abandon, Trash, Restore, Save, Review, reviewVars
<1>10. ASSUME NEW p \in Page, Patch(p), request.status = "none" PROVE FALSE
  BY <1>1, <1>10 DEF Patch
<1>11. ASSUME UNCHANGED <<request, elsewhere>>
       PROVE  /\ request'.outcome = OutcomeOf(project'.status)
              /\ elsewhere' \/ request'.status = RequestStatusOf(project'.status)
  BY <1>1, <1>4, <1>8, <1>11
<1> QED
  BY <1>2, <1>4, <1>6, <1>7, <1>9, <1>10, <1>11, ReviewCases

-----------------------------------------------------------------------------
ReviewInv ==
  /\ ReviewTypeOK
  /\ CopyInv
  /\ StoryInv
  /\ TimelyInv
  /\ PatchInv
  /\ RequestAgrees

(* Documents, copies and calls keep their shapes, a copy of the project's
   version is the project, what was read and what is stored tell a story, and
   unless a write is torn the request says what the project says. *)
THEOREM ReviewCorrect == ReviewSpec => []ReviewInv
<1>1. ReviewInit => ReviewInv
  <2> SUFFICES ASSUME ReviewInit PROVE ReviewInv
    OBVIOUS
  <2>1. ReviewTypeOK
    BY ReviewInitTyped
  <2>2. CopyInv
    <3>1. project.version <= project.version
      BY <2>1 DEF ReviewTypeOK, Projects
    <3>2. copy = [p \in Page |-> [project |-> project, request |-> "none"]]
      BY DEF ReviewInit
    <3>3. \A p \in Page : copy[p].project = project /\ copy[p].request = "none"
      BY <3>2
    <3> QED BY <3>1, <3>3 DEF CopyInv, CopyOK
  <2>3. StoryInv
    BY DEF ReviewInit, StoryInv, Tells, NoCall
  <2>4. TimelyInv /\ PatchInv
    BY DEF ReviewInit, TimelyInv, PatchInv, Patching, NoCall
  <2>5. RequestAgrees
    BY DEF ReviewInit, RequestAgrees
  <2> QED BY <2>1, <2>2, <2>3, <2>4, <2>5 DEF ReviewInv
<1>2. ReviewInv /\ [ReviewNext]_reviewVars => ReviewInv'
  BY ReviewTyped, CopiesInductive, StoryInductive, TimelyInductive, PatchInductive,
     AgreesInductive
  DEF ReviewInv
<1> QED BY <1>1, <1>2, PTL DEF ReviewSpec

(* Type correctness of the project, its request, the copies and the calls. *)
THEOREM ReviewsTyped == ReviewSpec => []ReviewTypeOK
<1>1. ReviewInv => ReviewTypeOK
  BY DEF ReviewInv
<1> QED BY <1>1, ReviewCorrect, PTL

(* The history of a project tells one story, although a review replaces the
   history by what it made of an earlier read. *)
THEOREM HistoryTold == ReviewSpec => []HistoryTells
<1>1. ReviewInv => HistoryTells
  BY DEF ReviewInv, StoryInv, Tells, HistoryTells
<1> QED BY <1>1, ReviewCorrect, PTL

(* The request agrees with the project between reviews that were not torn. *)
THEOREM RequestsAgree == ReviewSpec => []RequestAgrees
<1>1. ReviewInv => RequestAgrees
  BY DEF ReviewInv
<1> QED BY <1>1, ReviewCorrect, PTL

(* A resubmission is of what was saved for it and of a rejected project, if
   nobody overtook it. *)
THEOREM ResubmittedTimely == ReviewSpec => []ResubmissionTimely
<1>1. ReviewInv => ResubmissionTimely
  BY DEF ReviewInv, TimelyInv, Timely, ResubmissionTimely
<1> QED BY <1>1, ReviewCorrect, PTL

(* Only a review that had read an earlier history drops an entry of it. *)
THEOREM EntriesKept == ReviewSpec => HistoryKept
<1>1. ReviewInv /\ [ReviewNext]_reviewVars =>
        [\/ IsPrefix(project.history, project'.history)
         \/ \E p \in Page : /\ call[p].pc = "merge" /\ call'[p].pc = "patch"
                            /\ call[p].seen.history # project.history]_reviewVars
  BY StepKeepsHistory DEF ReviewInv
<1> QED BY <1>1, ReviewCorrect, PTL DEF ReviewSpec, HistoryKept

(* Saves, reviews and the trash write the whole document, but each changes its
   own part of it. *)
THEOREM PartsKeptApart == ReviewSpec => WritesApart
<1>1. ReviewInv /\ [ReviewNext]_reviewVars =>
        [/\ project'.data # project.data =>
              \E p \in Page, d \in Data, kind \in {"save", "resubmit"} : Save(p, d, kind)
         /\ (project'.status # project.status \/ project'.history # project.history) =>
              \E p \in Page : call[p].pc = "merge" /\ call'[p].pc = "patch"
         /\ project'.trashed # project.trashed =>
              \E p \in Page : Trash(p) \/ Restore(p)]_reviewVars
  BY StepWritesApart DEF ReviewInv
<1> QED BY <1>1, ReviewCorrect, PTL DEF ReviewSpec, WritesApart
=============================================================================
