----------------------- MODULE OrdinalRootHeadProofs ------------------------
(***************************************************************************)
(* Proofs about settlement against the root of a family, for every set of  *)
(* queries, observations and dimensions and every limit: the row-locked    *)
(* ledger of V1 to V3 and the lock-free heads of V4 and V5 all implement   *)
(* the family's exposure ledger.                                           *)
(*                                                                         *)
(* The copy of the head a transaction works with may be stale, so the      *)
(* invariant ties it to the history instead (SnapOK): it is the head of    *)
(* its own epoch, and the head itself while the epoch has not moved.  A    *)
(* transaction that has won the head row (WinnerOK) therefore carries the  *)
(* novelty of its observation against the head; one that goes on without   *)
(* it (CoveredOK) has nothing new to charge and refers to an epoch that    *)
(* already shows its facts.                                                *)
(***************************************************************************)
EXTENDS OrdinalRootHead, TLAPS

Facts == [Dim -> SUBSET Fact]
Charge == [Dim -> Nat]
HeadRow == [epoch : Nat, used : Charge, facts : Facts]
Pc == {"none", "read", "count", "look", "update", "insert", "reread", "rereadFirst", "commit", "failed"}
SomeObservation == Observation \cup {NoObservation}
Reservation == [status : {"NONE", "RESERVED", "SETTLED", "RELEASED"}, charged : Charge,
                obs : SomeObservation, epoch : Nat]
Transaction == [pc : Pc, obs : SomeObservation, snap : HeadRow, delta : Charge, epoch : Nat,
                tries : Nat, began : Nat]

HeadTypeOK ==
  /\ profile \in {"V3", "V4", "V5"}
  /\ head \in HeadRow
  /\ seen \in [Observation -> Nat \cup {Absent}]
  /\ res \in [Query -> Reservation]
  /\ tx \in [Query -> Transaction]
  /\ headLock \in Query \cup {Nobody}
  /\ seenLock \in [Observation -> Query \cup {Nobody}]
  /\ shownAt \in Seq(Facts)

\* The facts of an observation are shown at an epoch.
ShownAt(o, e) == \A d \in Dim : FactsOf[o][d] \subseteq shownAt[e + 1][d]

\* The counters count the facts, and the history ends in the head and only grows.
RootOK ==
  /\ \A d \in Dim : head.used[d] = Cardinality(head.facts[d]) /\ head.used[d] <= RootLimit[d]
  /\ Len(shownAt) = head.epoch + 1 /\ shownAt[head.epoch + 1] = head.facts
  /\ \A i, j \in 1 .. Len(shownAt) : i <= j => \A d \in Dim : shownAt[i][d] \subseteq shownAt[j][d]

SeenOK(o) ==
  /\ seen[o] # Absent => seen[o] <= head.epoch /\ ShownAt(o, seen[o])
  /\ seenLock[o] # Nobody =>
       LET q == seenLock[o]
       IN  tx[q].pc = "commit" /\ tx[q].obs = o /\ seen[o] = Absent /\ profile # "V3"

Working == {"look", "update", "insert", "reread", "rereadFirst"}
Late == {"insert", "rereadFirst", "commit"}

\* The copy of the head.
SnapOK(q) ==
  tx[q].pc \in Working \/ (headLock = q) =>
    /\ tx[q].snap.epoch <= head.epoch
    /\ tx[q].snap.facts = shownAt[tx[q].snap.epoch + 1]
    /\ tx[q].snap.epoch = head.epoch => tx[q].snap = head
    /\ tx[q].tries <= tx[q].snap.epoch - tx[q].began

\* The charge a transaction has derived against its copy.
Derived(q) ==
  /\ tx[q].delta = Novelty(tx[q].obs, tx[q].snap.facts)
  /\ Fits(TaskOf[q], tx[q].snap.used, tx[q].delta)

\* The transaction that holds the head row.
WinnerOK(q) ==
  headLock = q =>
    /\ tx[q].snap = head
    /\ profile = "V3" => tx[q].pc \in {"count", "commit"}
    /\ profile # "V3" =>
         tx[q].pc \in {"insert", "commit"} /\ tx[q].delta # NoCharge /\ tx[q].epoch = head.epoch + 1
    /\ tx[q].pc # "count" => Derived(q)

\* One that settles without the head row.
CoveredOK(q) ==
  headLock # q /\ tx[q].pc \in Late =>
    /\ profile # "V3"
    /\ tx[q].delta = NoCharge
    /\ tx[q].epoch <= head.epoch /\ ShownAt(tx[q].obs, tx[q].epoch)

TxOK(q) ==
  /\ tx[q].pc # "none" => res[q].status = "RESERVED" /\ tx[q].obs \in Observation
  /\ tx[q].pc \in {"read", "look", "count"} => tx[q].delta = NoCharge
  /\ tx[q].pc = "update" => Derived(q) /\ tx[q].delta # NoCharge /\ profile # "V3"
  /\ tx[q].pc = "look" => profile # "V3" /\ tx[q].epoch = tx[q].snap.epoch
  /\ tx[q].pc = "count" => headLock = q
  /\ tx[q].pc # "none" => tx[q].tries <= head.epoch - tx[q].began
  /\ tx[q].pc = "reread" => profile = "V4" /\ seen[tx[q].obs] # Absent /\ tx[q].delta = NoCharge
  /\ tx[q].pc = "commit" /\ profile # "V3" /\ seenLock[tx[q].obs] # q =>
       seen[tx[q].obs] # Absent /\ (profile = "V4" => seen[tx[q].obs] <= tx[q].epoch)

ResOK(q) ==
  /\ res[q].status # "SETTLED" => res[q].charged = NoCharge
  /\ res[q].status = "SETTLED" => res[q].obs \in Observation
  /\ res[q].status = "SETTLED" /\ profile # "V3" =>
       /\ res[q].epoch <= head.epoch /\ ShownAt(res[q].obs, res[q].epoch)
       /\ seen[res[q].obs] # Absent
       /\ profile = "V4" => seen[res[q].obs] <= res[q].epoch

QueryOK(q) == SnapOK(q) /\ WinnerOK(q) /\ CoveredOK(q) /\ TxOK(q) /\ ResOK(q)

\* What is used of finite sets.  It is a fact about the constants (CountingHolds), kept
\* in the invariant so that the steps need no more of their theory.
Counting ==
  \A A, B \in SUBSET Fact :
    /\ Cardinality(A) \in Nat
    /\ Cardinality(A) = 0 <=> A = {}
    /\ A \cap B = {} => Cardinality(A \cup B) = Cardinality(A) + Cardinality(B)

IInv ==
  /\ Counting /\ HeadTypeOK /\ RootOK
  /\ \A o \in Observation : SeenOK(o)
  /\ \A q \in Query : QueryOK(q)
-----------------------------------------------------------------------------
(* Transactions and the rows they hold *)

\* What an update of one transaction does.
LEMMA TxSet ==
  ASSUME HeadTypeOK, NEW q \in Query, NEW v \in Transaction, tx' = [tx EXCEPT ![q] = v]
  PROVE  tx' \in [Query -> Transaction] /\ tx'[q] = v /\ \A r \in Query \ {q} : tx'[r] = tx[r]
  BY Zenon DEF HeadTypeOK

\* A record written out field by field.
LEMMA TransactionFields ==
  ASSUME NEW t \in Transaction
  PROVE  /\ t = [pc |-> t.pc, obs |-> t.obs, snap |-> t.snap, delta |-> t.delta, epoch |-> t.epoch,
                 tries |-> t.tries, began |-> t.began]
         /\ t.pc \in Pc /\ t.obs \in SomeObservation /\ t.snap \in HeadRow /\ t.delta \in Charge
         /\ t.epoch \in Nat /\ t.tries \in Nat /\ t.began \in Nat
         /\ t.snap.epoch \in Nat /\ t.snap.used \in Charge /\ t.snap.facts \in Facts
  BY Zenon DEF Transaction, HeadRow

\* The initial values.
LEMMA EmptyTypes ==
  /\ NoCharge \in Charge /\ EmptyHead \in HeadRow /\ NoTx \in Transaction
  /\ EmptyHead.epoch = 0 /\ EmptyHead.used = NoCharge /\ \A d \in Dim : EmptyHead.facts[d] = {}
  /\ NoTx.pc = "none" /\ NoTx.tries = 0 /\ NoTx.began = 0 /\ NoTx.delta = NoCharge
  <1>1. NoCharge \in Charge
    BY Zenon DEF NoCharge, Charge
  <1>2. EmptyHead \in HeadRow /\ EmptyHead.epoch = 0 /\ EmptyHead.used = NoCharge
        /\ \A d \in Dim : EmptyHead.facts[d] = {}
    BY <1>1, Zenon DEF EmptyHead, HeadRow, Facts
  <1> QED BY <1>1, <1>2, Zenon DEF NoTx, Transaction, Pc, SomeObservation

\* What an observation adds is a charge, and nothing is new that has been shown.
LEMMA NoveltyType ==
  ASSUME IInv, NEW o \in Observation, NEW shown \in Facts
  PROVE  /\ Novelty(o, shown) \in Charge
         /\ \A d \in Dim : FactsOf[o][d] \subseteq Fact /\ shown[d] \subseteq Fact
         /\ Novelty(o, shown) = NoCharge <=> \A d \in Dim : FactsOf[o][d] \subseteq shown[d]
  <1>1. \A d \in Dim : /\ FactsOf[o][d] \subseteq Fact /\ shown[d] \subseteq Fact
                       /\ FactsOf[o][d] \ shown[d] \in SUBSET Fact
    BY ExposureAssumption, Zenon DEF ExposureAssumption, Facts
  <1>2. \A d \in Dim : /\ Cardinality(FactsOf[o][d] \ shown[d]) \in Nat
                       /\ Cardinality(FactsOf[o][d] \ shown[d]) = 0 <=> FactsOf[o][d] \ shown[d] = {}
    BY <1>1, Zenon DEF IInv, Counting
  <1>3. Novelty(o, shown) \in Charge
    BY <1>2, Zenon DEF Novelty, Charge
  <1>4. \A d \in Dim : Novelty(o, shown)[d] = 0 <=> FactsOf[o][d] \subseteq shown[d]
    <2>1. \A d \in Dim : Novelty(o, shown)[d] = Cardinality(FactsOf[o][d] \ shown[d])
      BY Zenon DEF Novelty
    <2> QED BY <1>2, <2>1, Zenon
  <1>5. Novelty(o, shown) = NoCharge <=> \A d \in Dim : Novelty(o, shown)[d] = 0
    BY <1>3, Zenon DEF Novelty, NoCharge, Charge
  <1> QED BY <1>1, <1>3, <1>4, <1>5, Zenon

\* A step of q that leaves the committed rows and the other transactions alone.
Quiet(q) ==
  /\ UNCHANGED <<profile, head, seen, shownAt>>
  /\ \A r \in Query \ {q} :
       /\ tx'[r] = tx[r] /\ res'[r] = res[r]
       /\ headLock' = r <=> headLock = r
       /\ \A o \in Observation : seenLock'[o] = r <=> seenLock[o] = r

\* The other transactions keep what they rely on.
LEMMA QuietOthers ==
  ASSUME IInv, NEW q \in Query, Quiet(q), NEW r \in Query, r # q
  PROVE  QueryOK(r)'
  <1>1. QueryOK(r)
    BY Zenon DEF IInv
  <1>2. /\ UNCHANGED <<profile, head, seen, shownAt>>
        /\ tx'[r] = tx[r] /\ res'[r] = res[r] /\ (headLock' = r <=> headLock = r)
        /\ \A o \in Observation : seenLock'[o] = r <=> seenLock[o] = r
    BY Zenon DEF Quiet
  <1>3. SnapOK(r)' /\ WinnerOK(r)'
    BY <1>1, <1>2, Zenon DEF QueryOK, SnapOK, WinnerOK, Derived, Working
  <1>4. CoveredOK(r)'
    BY <1>1, <1>2, Zenon DEF QueryOK, CoveredOK, ShownAt
  <1>5. TxOK(r)'
    BY <1>1, <1>2, Zenon DEF QueryOK, TxOK, Derived
  <1>6. ResOK(r)'
    BY <1>1, <1>2, Zenon DEF QueryOK, ResOK, ShownAt
  <1> QED BY <1>3, <1>4, <1>5, <1>6, Zenon DEF QueryOK

\* A quiet step keeps the invariant when the one who steps does.
LEMMA QuietStep ==
  ASSUME IInv, NEW q \in Query, HeadTypeOK', Quiet(q), QueryOK(q)',
         \A o \in Observation : seenLock'[o] = q =>
           tx'[q].pc = "commit" /\ tx'[q].obs = o /\ seen[o] = Absent /\ profile # "V3"
  PROVE  IInv'
  <1>1. UNCHANGED <<profile, head, seen, shownAt>>
    BY Zenon DEF Quiet
  <1>2. RootOK'
    BY <1>1, Zenon DEF IInv, RootOK
  <1>3. \A r \in Query : QueryOK(r)'
    BY QuietOthers, Zenon
  <1>4. ASSUME NEW o \in Observation PROVE SeenOK(o)'
    <2>1. SeenOK(o) /\ seenLock'[o] \in Query \cup {Nobody}
      BY Zenon DEF IInv, HeadTypeOK
    <2>2. seenLock'[o] # Nobody => tx'[seenLock'[o]].pc = "commit" /\ tx'[seenLock'[o]].obs = o
                                   /\ seen[o] = Absent /\ profile # "V3"
      <3>1. ASSUME NEW r \in Query, seenLock'[o] = r, r # q, r # Nobody
            PROVE  tx'[r].pc = "commit" /\ tx'[r].obs = o /\ seen[o] = Absent /\ profile # "V3"
        BY <2>1, <3>1 DEF Quiet, SeenOK
      <3> QED BY <2>1, <3>1, Zenon
    <2> QED BY <1>1, <2>1, <2>2, Zenon DEF SeenOK, ShownAt
  <1> QED BY <1>2, <1>3, <1>4, Zenon DEF IInv

\* A transaction that moves and takes or frees no row.
LEMMA MoveStep ==
  ASSUME IInv, NEW q \in Query, NEW v \in Transaction, tx' = [tx EXCEPT ![q] = v],
         UNCHANGED <<profile, head, seen, headLock, seenLock, shownAt>>,
         res' \in [Query -> Reservation], \A r \in Query \ {q} : res'[r] = res[r],
         tx[q].pc # "commit", QueryOK(q)'
  PROVE  IInv'
  <1>1. HeadTypeOK
    BY Zenon DEF IInv
  <1>2. tx' \in [Query -> Transaction] /\ \A r \in Query \ {q} : tx'[r] = tx[r]
    BY <1>1, TxSet, Zenon
  <1>3. HeadTypeOK'
    BY <1>1, <1>2, Zenon DEF HeadTypeOK
  <1>4. Quiet(q)
    BY <1>2, Zenon DEF Quiet
  <1>5. \A o \in Observation : seenLock'[o] # q
    <2>1. q # Nobody
      BY HeadAssumption, Zenon DEF HeadAssumption, Nobody
    <2> QED BY <2>1, Zenon DEF IInv, SeenOK
  <1> QED BY <1>3, <1>4, <1>5, QuietStep, Zenon

\* A transaction that ends, by failure or to begin anew, frees its rows.
LEMMA EndStep ==
  ASSUME IInv, NEW q \in Query, FreeLocks(q), UNCHANGED <<profile, head, seen, res, shownAt>>,
         NEW v \in Transaction, tx' = [tx EXCEPT ![q] = v],
         v.pc = "failed" \/ (v.pc = "read" /\ v.delta = NoCharge),
         v.obs = tx[q].obs, v.began = tx[q].began,
         tx[q].pc # "none", v.tries <= head.epoch - tx[q].began
  PROVE  IInv'
  <1>0. HeadTypeOK /\ QueryOK(q)
    BY Zenon DEF IInv
  <1>1. q # Nobody
    BY HeadAssumption, Zenon DEF HeadAssumption, Nobody
  <1>2. tx' \in [Query -> Transaction] /\ tx'[q] = v /\ \A r \in Query \ {q} : tx'[r] = tx[r]
    BY <1>0, TxSet, Zenon
  <1>3. /\ headLock' \in Query \cup {Nobody} /\ headLock' # q
        /\ \A r \in Query \ {q} : headLock' = r <=> headLock = r
    BY <1>0, <1>1, HeadAssumption, Zenon DEF FreeLocks, HeadTypeOK, HeadAssumption, Nobody
  <1>4. /\ seenLock' \in [Observation -> Query \cup {Nobody}]
        /\ \A o \in Observation : seenLock'[o] # q /\ \A r \in Query \ {q} : seenLock'[o] = r <=> seenLock[o] = r
    BY <1>0, <1>1, HeadAssumption, Zenon DEF FreeLocks, HeadTypeOK, HeadAssumption, Nobody
  <1>5. HeadTypeOK' /\ Quiet(q)
    BY <1>0, <1>2, <1>3, <1>4 DEF HeadTypeOK, Quiet
  <1>6. SnapOK(q)' /\ WinnerOK(q)' /\ CoveredOK(q)'
    BY <1>2, <1>3, Zenon DEF SnapOK, WinnerOK, CoveredOK, Working, Late
  <1>7. TxOK(q)'
    BY <1>0, <1>2, Zenon DEF QueryOK, TxOK
  <1>8. ResOK(q)'
    BY <1>0, Zenon DEF QueryOK, ResOK, ShownAt
  <1> QED BY <1>4, <1>5, <1>6, <1>7, <1>8, QuietStep, Zenon DEF QueryOK

\* A reservation with nothing settled yet.
LEMMA PlainReservation ==
  ASSUME NEW q \in Query, ResOK(q), res'[q].status # "SETTLED", res'[q].charged = res[q].charged,
         res[q].status # "SETTLED"
  PROVE  ResOK(q)'
  BY Zenon DEF ResOK

\* Reservation and release of a query.
LEMMA ReserveStep ==
  ASSUME IInv, NEW q \in Query, Reserve(q) \/ Release(q)
  PROVE  IInv'
  <1>0. HeadTypeOK /\ QueryOK(q) /\ tx[q] \in Transaction /\ res[q] \in Reservation
    BY Zenon DEF IInv, HeadTypeOK
  <1>1. PICK s \in {"RESERVED", "RELEASED"} : res' = [res EXCEPT ![q].status = s]
    BY Zenon DEF Reserve, Release
  <1>2. [res[q] EXCEPT !.status = s] \in Reservation
    BY <1>0, Zenon DEF Reservation
  <1>3. res' = [res EXCEPT ![q] = [res[q] EXCEPT !.status = s]]
    BY <1>1, Zenon
  <1>4. /\ res' \in [Query -> Reservation] /\ \A r \in Query \ {q} : res'[r] = res[r]
        /\ res'[q] = [res[q] EXCEPT !.status = s]
    BY <1>0, <1>2, <1>3, Zenon DEF HeadTypeOK
  <1>5. res'[q].status = s /\ res'[q].charged = res[q].charged
    BY <1>0, <1>4, Zenon DEF Reservation
  <1>6. ResOK(q)'
    BY <1>0, <1>5, PlainReservation, Zenon DEF QueryOK, Reserve, Release
  <1>7. UNCHANGED <<profile, head, seen, headLock, seenLock, shownAt>>
    BY Zenon DEF Reserve, Release
  <1>8. tx[q].pc \in {"none", "failed"} /\ (Reserve(q) => tx[q].pc = "none")
    BY <1>0, Zenon DEF Reserve, Release, QueryOK, TxOK
  <1>9. PICK v \in Transaction : tx' = [tx EXCEPT ![q] = v] /\ v.pc = "none"
    <2>1. CASE Reserve(q)
      <3>1. tx' = [tx EXCEPT ![q] = tx[q]]
        BY <1>0, <2>1, Zenon DEF Reserve, HeadTypeOK
      <3> QED BY <1>0, <1>8, <2>1, <3>1, Zenon
    <2>2. CASE Release(q)
      BY <2>2, EmptyTypes, Zenon DEF Release
    <2> QED BY <2>1, <2>2, Zenon
  <1>10. tx'[q].pc = "none" /\ headLock # q
    <2>1. headLock # q
      BY <1>0, <1>8, Zenon DEF QueryOK, WinnerOK
    <2> QED BY <1>0, <1>9, <2>1, TxSet, Zenon
  <1>11. SnapOK(q)' /\ WinnerOK(q)' /\ CoveredOK(q)' /\ TxOK(q)'
    BY <1>7, <1>10, Zenon DEF SnapOK, WinnerOK, CoveredOK, TxOK, Working, Late
  <1> QED BY <1>4, <1>6, <1>7, <1>8, <1>9, <1>11, MoveStep, Zenon DEF QueryOK

\* A finalization begins, or a replay refers to an observation of the family.
LEMMA StartStep ==
  ASSUME IInv, NEW q \in Query, NEW o \in Observation, Start(q, o) \/ StartReplay(q, o)
  PROVE  IInv'
  <1>0. HeadTypeOK /\ QueryOK(q) /\ head \in HeadRow /\ head.epoch \in Nat /\ SeenOK(o)
        /\ seen[o] \in Nat \cup {Absent}
    BY Zenon DEF IInv, HeadTypeOK, HeadRow
  <1>1. /\ UNCHANGED <<profile, head, seen, res, headLock, seenLock, shownAt>>
        /\ tx[q].pc = "none" /\ res[q].status = "RESERVED"
    BY Zenon DEF Start, StartReplay, At
  <1>2. PICK v \in Transaction :
          /\ tx' = [tx EXCEPT ![q] = v]
          /\ v.obs = o /\ v.delta = NoCharge /\ v.tries = 0
          /\ \/ v.pc = "read" /\ v.began = head.epoch
             \/ v.pc = "failed" /\ v.began = 0
             \/ /\ v.pc = "commit" /\ v.began = 0 /\ v.epoch = head.epoch
                /\ seen[o] \in 0 .. head.epoch /\ profile # "V3"
    <2>1. CASE Start(q, o)
      <3> DEFINE w == [NoTx EXCEPT !.pc = "read", !.obs = o, !.began = head.epoch]
      <3>1. tx' = [tx EXCEPT ![q] = w]
        BY <2>1, Zenon DEF Start
      <3>2. w \in Transaction
        BY <1>0, EmptyTypes, Zenon DEF Transaction, Pc, SomeObservation
      <3>3. w.obs = o /\ w.delta = NoCharge /\ w.tries = 0 /\ w.pc = "read" /\ w.began = head.epoch
        BY EmptyTypes, Zenon DEF Transaction
      <3> HIDE DEF w
      <3> QED BY <3>1, <3>2, <3>3, Zenon
    <2>2. CASE StartReplay(q, o)
      <3> DEFINE c == IF seen[o] \in 0 .. head.epoch THEN "commit" ELSE "failed"
                 w == [NoTx EXCEPT !.pc = c, !.obs = o, !.epoch = head.epoch]
      <3>1. tx' = [tx EXCEPT ![q] = w] /\ profile # "V3"
        BY <2>2, Zenon DEF StartReplay
      <3>2. w \in Transaction
        BY <1>0, EmptyTypes, Zenon DEF Transaction, Pc, SomeObservation
      <3>3. /\ w.obs = o /\ w.delta = NoCharge /\ w.tries = 0 /\ w.began = 0 /\ w.epoch = head.epoch
            /\ w.pc = c
        BY EmptyTypes, Zenon DEF Transaction
      <3>4. (c = "commit" /\ seen[o] \in 0 .. head.epoch) \/ c = "failed"
        BY Zenon
      <3> HIDE DEF w, c
      <3> QED BY <3>1, <3>2, <3>3, <3>4, Zenon
    <2> QED BY <2>1, <2>2, Zenon
  <1>3. tx'[q] = v
    BY <1>0, <1>2, TxSet, Zenon
  <1>4. headLock # q
    BY <1>0, <1>1, Zenon DEF QueryOK, WinnerOK
  <1>5. SnapOK(q)' /\ WinnerOK(q)'
    BY <1>1, <1>2, <1>3, <1>4, Zenon DEF SnapOK, WinnerOK, Working
  <1>6. v.pc = "commit" => ShownAt(o, head.epoch)
    <2>1. SUFFICES ASSUME v.pc = "commit" PROVE ShownAt(o, head.epoch)
      BY Zenon
    <2>2. /\ seen[o] \in Nat /\ seen[o] <= head.epoch /\ ShownAt(o, seen[o])
      BY <1>0, <1>2, <2>1 DEF SeenOK, Absent
    <2>3. seen[o] + 1 \in 1 .. Len(shownAt) /\ head.epoch + 1 \in 1 .. Len(shownAt)
      BY <1>0, <2>2 DEF IInv, RootOK
    <2>4. \A d \in Dim : shownAt[seen[o] + 1][d] \subseteq shownAt[head.epoch + 1][d]
      BY <1>0, <2>2, <2>3 DEF IInv, RootOK
    <2> QED BY <2>2, <2>4, Zenon DEF ShownAt
  <1>7. CoveredOK(q)'
    BY <1>0, <1>1, <1>2, <1>3, <1>6 DEF CoveredOK, ShownAt, Late
  <1>8. TxOK(q)'
    <2>1. head.epoch - head.epoch = 0 /\ head.epoch - 0 = head.epoch /\ 0 <= head.epoch
      BY <1>0
    <2>2. v.pc = "commit" => seen[o] # Absent /\ seen[o] <= head.epoch
      BY <1>0, <1>2 DEF Absent
    <2> QED BY <1>0, <1>1, <1>2, <1>3, <2>1, <2>2 DEF TxOK
  <1>9. ResOK(q)'
    BY <1>0, <1>1, Zenon DEF QueryOK, ResOK, ShownAt
  <1>10. res' \in [Query -> Reservation] /\ \A r \in Query \ {q} : res'[r] = res[r]
    BY <1>0, <1>1, Zenon DEF HeadTypeOK
  <1> QED BY <1>1, <1>2, <1>5, <1>7, <1>8, <1>9, <1>10, MoveStep, Zenon DEF QueryOK
-----------------------------------------------------------------------------
(* V1 to V3: the ledger row is locked *)

\* Who waits for a row holds neither the head row nor a row of the family's record.
LEMMA Holds ==
  ASSUME IInv, NEW q \in Query
  PROVE  /\ q # Nobody
         /\ headLock = q => tx[q].pc \in {"count", "insert", "commit"}
         /\ \A o \in Observation : seenLock[o] = q => tx[q].pc = "commit"
  <1>1. q # Nobody
    BY HeadAssumption, Zenon DEF HeadAssumption, Nobody
  <1>2. profile \in {"V3", "V4", "V5"} /\ QueryOK(q)
    BY Zenon DEF IInv, HeadTypeOK
  <1> QED BY <1>1, <1>2, Zenon DEF IInv, QueryOK, WinnerOK, SeenOK

\* The ledger row is locked and copied.
LEMMA LockLedgerStep ==
  ASSUME IInv, NEW q \in Query, LockLedger(q)
  PROVE  IInv'
  <1>0. HeadTypeOK /\ QueryOK(q) /\ head \in HeadRow /\ tx[q] \in Transaction /\ head.epoch \in Nat
    BY Zenon DEF IInv, HeadTypeOK, HeadRow
  <1>1. /\ UNCHANGED <<profile, head, seen, res, seenLock, shownAt>> /\ profile = "V3"
        /\ headLock = Nobody /\ headLock' = q /\ tx[q].pc = "read"
    BY Zenon DEF LockLedger, At
  <1> DEFINE w == [tx[q] EXCEPT !.pc = "count", !.snap = head]
  <1>2. w \in Transaction
    BY <1>0, Zenon DEF Transaction, Pc
  <1>3. /\ w.pc = "count" /\ w.snap = head /\ w.obs = tx[q].obs /\ w.delta = tx[q].delta
        /\ w.tries = tx[q].tries /\ w.began = tx[q].began
    BY <1>0, Zenon DEF Transaction
  <1>4. tx' = [tx EXCEPT ![q] = w]
    BY Zenon DEF LockLedger
  <1> HIDE DEF w
  <1>5. tx' \in [Query -> Transaction] /\ tx'[q] = w /\ \A r \in Query \ {q} : tx'[r] = tx[r]
    BY <1>0, <1>2, <1>4, TxSet, Zenon
  <1>6. \A o \in Observation : seenLock'[o] # q
    BY <1>1, Holds, Zenon
  <1>7. HeadTypeOK' /\ Quiet(q)
    <2>1. \A r \in Query : r # Nobody
      BY HeadAssumption, Zenon DEF HeadAssumption, Nobody
    <2> QED BY <1>0, <1>1, <1>5, <2>1, Zenon DEF HeadTypeOK, Quiet
  <1>8. SnapOK(q)'
    <2>1. shownAt[head.epoch + 1] = head.facts /\ tx[q].tries <= head.epoch - tx[q].began
      BY <1>0, <1>1, Zenon DEF IInv, RootOK, QueryOK, TxOK
    <2>2. head.epoch <= head.epoch
      BY <1>0
    <2> QED BY <1>1, <1>3, <1>5, <2>1, <2>2, Zenon DEF SnapOK
  <1>9. WinnerOK(q)' /\ CoveredOK(q)'
    BY <1>1, <1>3, <1>5, Zenon DEF WinnerOK, CoveredOK, Late
  <1>10. TxOK(q)'
    BY <1>0, <1>1, <1>3, <1>5, Zenon DEF QueryOK, TxOK
  <1>11. ResOK(q)'
    BY <1>0, <1>1, Zenon DEF QueryOK, ResOK, ShownAt
  <1> QED BY <1>6, <1>7, <1>8, <1>9, <1>10, <1>11, QuietStep, Zenon DEF QueryOK

\* The novel facts are counted under the lock.
LEMMA InsertNovelFactsStep ==
  ASSUME IInv, NEW q \in Query, InsertNovelFacts(q)
  PROVE  IInv'
  <1>0. HeadTypeOK /\ QueryOK(q) /\ head \in HeadRow /\ tx[q] \in Transaction /\ head.facts \in Facts
    BY Zenon DEF IInv, HeadTypeOK, HeadRow
  <1> DEFINE new == Novelty(tx[q].obs, head.facts)
  <1>1. /\ UNCHANGED <<profile, head, seen, res, headLock, seenLock, shownAt>>
        /\ tx[q].pc = "count" /\ Fits(TaskOf[q], tx[q].snap.used, new)
        /\ tx' = [tx EXCEPT ![q].delta = new, ![q].pc = "commit"]
    BY Zenon DEF InsertNovelFacts, At
  <1>2. new \in Charge
    BY <1>0, <1>1, NoveltyType, Zenon DEF QueryOK, TxOK
  <1> HIDE DEF new
  <1> DEFINE w == [tx[q] EXCEPT !.delta = new, !.pc = "commit"]
  <1>3. w \in Transaction
    BY <1>0, <1>2, Zenon DEF Transaction, Pc
  <1>4. /\ w.pc = "commit" /\ w.snap = tx[q].snap /\ w.obs = tx[q].obs /\ w.delta = new
        /\ w.tries = tx[q].tries /\ w.began = tx[q].began
    BY <1>0, Zenon DEF Transaction
  <1>5. tx' = [tx EXCEPT ![q] = w]
    BY <1>1, Zenon
  <1> HIDE DEF w
  <1>6. tx'[q] = w
    BY <1>0, <1>3, <1>5, TxSet, Zenon
  <1>7. headLock = q /\ tx[q].snap = head
    BY <1>0, <1>1, Zenon DEF QueryOK, TxOK, WinnerOK
  <1>8. profile = "V3"
    BY <1>0, <1>1, <1>7, Zenon DEF QueryOK, WinnerOK
  <1>9. SnapOK(q)'
    BY <1>0, <1>1, <1>4, <1>6, <1>7, Zenon DEF SnapOK, QueryOK
  <1>10. WinnerOK(q)'
    BY <1>1, <1>4, <1>6, <1>7, <1>8, Zenon DEF WinnerOK, Derived, new
  <1>11. CoveredOK(q)'
    BY <1>1, <1>7, Zenon DEF CoveredOK
  <1>12. TxOK(q)'
    BY <1>0, <1>1, <1>4, <1>6, <1>8, Zenon DEF QueryOK, TxOK
  <1>13. ResOK(q)'
    BY <1>0, <1>1, Zenon DEF QueryOK, ResOK, ShownAt
  <1>14. res' \in [Query -> Reservation] /\ \A r \in Query \ {q} : res'[r] = res[r]
    BY <1>0, <1>1, Zenon DEF HeadTypeOK
  <1> QED BY <1>1, <1>3, <1>5, <1>9, <1>10, <1>11, <1>12, <1>13, <1>14, MoveStep, Zenon DEF QueryOK

\* A refusal and an abort end the transaction.
LEMMA FailStep ==
  ASSUME IInv, NEW q \in Query, RefuseFacts(q) \/ Refuse(q) \/ Abort(q)
  PROVE  IInv'
  <1>0. HeadTypeOK /\ QueryOK(q) /\ tx[q] \in Transaction
    BY Zenon DEF IInv, HeadTypeOK
  <1>1. /\ UNCHANGED <<profile, head, seen, res, shownAt>> /\ FreeLocks(q) /\ Goto(q, "failed")
        /\ tx[q].pc # "none"
    BY Zenon DEF RefuseFacts, Refuse, Abort, At
  <1> DEFINE w == [tx[q] EXCEPT !.pc = "failed"]
  <1>2. w \in Transaction
    BY <1>0, Zenon DEF Transaction, Pc
  <1>3. w.pc = "failed" /\ w.obs = tx[q].obs /\ w.tries = tx[q].tries /\ w.began = tx[q].began
    BY <1>0, Zenon DEF Transaction
  <1>4. tx' = [tx EXCEPT ![q] = w]
    BY <1>1, Zenon DEF Goto
  <1> HIDE DEF w
  <1>5. w.tries <= head.epoch - tx[q].began
    BY <1>0, <1>1, <1>3, Zenon DEF QueryOK, TxOK
  <1> QED BY <1>1, <1>2, <1>3, <1>4, <1>5, EndStep, Zenon
-----------------------------------------------------------------------------
(* V4 and V5: the head is read without a lock *)

\* What was shown at an epoch is shown at every later one.
LEMMA ShownLater ==
  ASSUME IInv, NEW o \in Observation, NEW e \in Nat, NEW f \in Nat, e <= f, f <= head.epoch,
         ShownAt(o, e)
  PROVE  ShownAt(o, f)
  <1>1. head.epoch \in Nat
    BY Zenon DEF IInv, HeadTypeOK, HeadRow
  <1>2. e + 1 \in 1 .. Len(shownAt) /\ f + 1 \in 1 .. Len(shownAt) /\ e + 1 <= f + 1
    BY <1>1 DEF IInv, RootOK
  <1>3. \A d \in Dim : shownAt[e + 1][d] \subseteq shownAt[f + 1][d]
    BY <1>2, Zenon DEF IInv, RootOK
  <1> QED BY <1>3, Zenon DEF ShownAt

\* An observation the family has recorded is shown by the head.
LEMMA SeenIsShown ==
  ASSUME IInv, NEW o \in Observation, seen[o] # Absent
  PROVE  seen[o] \in Nat /\ seen[o] <= head.epoch /\ ShownAt(o, head.epoch)
  <1>1. seen[o] \in Nat /\ head.epoch \in Nat
    BY Zenon DEF IInv, HeadTypeOK, HeadRow
  <1>2. seen[o] <= head.epoch /\ ShownAt(o, seen[o])
    BY Zenon DEF IInv, SeenOK
  <1> QED BY <1>1, <1>2, ShownLater

\* The head is copied; its epoch covers every race lost so far.
LEMMA ReadHeadStep ==
  ASSUME IInv, NEW q \in Query, ReadHead(q)
  PROVE  IInv'
  <1>0. HeadTypeOK /\ QueryOK(q) /\ head \in HeadRow /\ tx[q] \in Transaction /\ head.epoch \in Nat
    BY Zenon DEF IInv, HeadTypeOK, HeadRow
  <1>1. /\ UNCHANGED <<profile, head, seen, res, headLock, seenLock, shownAt>>
        /\ profile # "V3" /\ tx[q].pc = "read"
        /\ tx' = [tx EXCEPT ![q].pc = "look", ![q].snap = head, ![q].epoch = head.epoch]
    BY Zenon DEF ReadHead, At
  <1> DEFINE w == [tx[q] EXCEPT !.pc = "look", !.snap = head, !.epoch = head.epoch]
  <1>2. w \in Transaction
    BY <1>0, Zenon DEF Transaction, Pc
  <1>3. /\ w.pc = "look" /\ w.snap = head /\ w.obs = tx[q].obs /\ w.delta = tx[q].delta
        /\ w.tries = tx[q].tries /\ w.began = tx[q].began /\ w.epoch = head.epoch
    BY <1>0, Zenon DEF Transaction
  <1>4. tx' = [tx EXCEPT ![q] = w]
    BY <1>1, Zenon
  <1> HIDE DEF w
  <1>5. tx'[q] = w
    BY <1>0, <1>2, <1>4, TxSet, Zenon
  <1>6. headLock # q
    BY <1>1, Holds, Zenon
  <1>7. SnapOK(q)'
    <2>1. shownAt[head.epoch + 1] = head.facts /\ tx[q].tries <= head.epoch - tx[q].began
      BY <1>0, <1>1, Zenon DEF IInv, RootOK, QueryOK, TxOK
    <2>2. head.epoch <= head.epoch
      BY <1>0
    <2> QED BY <1>1, <1>3, <1>5, <2>1, <2>2, Zenon DEF SnapOK
  <1>8. WinnerOK(q)' /\ CoveredOK(q)'
    BY <1>1, <1>3, <1>5, <1>6, Zenon DEF WinnerOK, CoveredOK, Late
  <1>9. TxOK(q)'
    BY <1>0, <1>1, <1>3, <1>5, Zenon DEF QueryOK, TxOK
  <1>10. ResOK(q)'
    BY <1>0, <1>1, Zenon DEF QueryOK, ResOK, ShownAt
  <1>11. res' \in [Query -> Reservation] /\ \A r \in Query \ {q} : res'[r] = res[r]
    BY <1>0, <1>1, Zenon DEF HeadTypeOK
  <1> QED BY <1>1, <1>2, <1>4, <1>7, <1>8, <1>9, <1>10, <1>11, MoveStep, Zenon DEF QueryOK

\* The family's record is found.
LEMMA LookSeenStep ==
  ASSUME IInv, NEW q \in Query, LookSeen(q)
  PROVE  IInv'
  <1>0. HeadTypeOK /\ QueryOK(q) /\ tx[q] \in Transaction
    BY Zenon DEF IInv, HeadTypeOK
  <1>1. /\ UNCHANGED <<profile, head, seen, res, headLock, seenLock, shownAt>>
        /\ profile = "V4" /\ tx[q].pc = "look" /\ seen[tx[q].obs] # Absent
        /\ Goto(q, "reread")
    BY Zenon DEF LookSeen, At
  <1> DEFINE w == [tx[q] EXCEPT !.pc = "reread"]
  <1>2. w \in Transaction
    BY <1>0, Zenon DEF Transaction, Pc
  <1>3. /\ w.pc = "reread" /\ w.snap = tx[q].snap /\ w.obs = tx[q].obs /\ w.delta = tx[q].delta
        /\ w.tries = tx[q].tries /\ w.began = tx[q].began
    BY <1>0, Zenon DEF Transaction
  <1>4. tx' = [tx EXCEPT ![q] = w]
    BY <1>1, Zenon DEF Goto
  <1> HIDE DEF w
  <1>5. tx'[q] = w
    BY <1>0, <1>2, <1>4, TxSet, Zenon
  <1>6. headLock # q
    BY <1>1, Holds, Zenon
  <1>7. SnapOK(q)'
    BY <1>0, <1>1, <1>3, <1>5, Zenon DEF SnapOK, QueryOK, Working
  <1>8. WinnerOK(q)' /\ CoveredOK(q)'
    BY <1>1, <1>3, <1>5, <1>6, Zenon DEF WinnerOK, CoveredOK, Late
  <1>9. TxOK(q)'
    BY <1>0, <1>1, <1>3, <1>5, Zenon DEF QueryOK, TxOK
  <1>10. ResOK(q)'
    BY <1>0, <1>1, Zenon DEF QueryOK, ResOK, ShownAt
  <1>11. res' \in [Query -> Reservation] /\ \A r \in Query \ {q} : res'[r] = res[r]
    BY <1>0, <1>1, Zenon DEF HeadTypeOK
  <1> QED BY <1>1, <1>2, <1>4, <1>7, <1>8, <1>9, <1>10, <1>11, MoveStep, Zenon DEF QueryOK

\* The novelty is derived against the copy; with nothing new, the copy shows it all.
LEMMA DeriveStep ==
  ASSUME IInv, NEW q \in Query, Derive(q)
  PROVE  IInv'
  <1>0. /\ HeadTypeOK /\ QueryOK(q) /\ tx[q] \in Transaction
        /\ tx[q].snap \in HeadRow /\ tx[q].snap.facts \in Facts /\ tx[q].snap.epoch \in Nat
    BY TransactionFields, Zenon DEF IInv, HeadTypeOK
  <1> DEFINE new == Novelty(tx[q].obs, tx[q].snap.facts)
             c == IF new # NoCharge THEN "update" ELSE IF profile = "V4" THEN "insert" ELSE "rereadFirst"
  <1>1. /\ UNCHANGED <<profile, head, seen, res, headLock, seenLock, shownAt>>
        /\ tx[q].pc = "look" /\ Fits(TaskOf[q], tx[q].snap.used, new)
        /\ tx' = [tx EXCEPT ![q].delta = new, ![q].pc = c]
    BY Zenon DEF Derive, At
  <1>2. tx[q].obs \in Observation /\ profile # "V3" /\ tx[q].epoch = tx[q].snap.epoch
    BY <1>0, <1>1, Zenon DEF QueryOK, TxOK
  <1>3. new \in Charge /\ (new = NoCharge => \A d \in Dim : FactsOf[tx[q].obs][d] \subseteq tx[q].snap.facts[d])
    BY <1>0, <1>2, NoveltyType, Zenon
  <1>4. (c = "update" /\ new # NoCharge) \/ (c \in {"insert", "rereadFirst"} /\ new = NoCharge)
    BY Zenon
  <1> HIDE DEF new, c
  <1> DEFINE w == [tx[q] EXCEPT !.delta = new, !.pc = c]
  <1>5. w \in Transaction
    BY <1>0, <1>3, <1>4, Zenon DEF Transaction, Pc
  <1>6. /\ w.pc = c /\ w.snap = tx[q].snap /\ w.obs = tx[q].obs /\ w.delta = new
        /\ w.tries = tx[q].tries /\ w.began = tx[q].began /\ w.epoch = tx[q].snap.epoch
    BY <1>0, <1>2, Zenon DEF Transaction
  <1>7. tx' = [tx EXCEPT ![q] = w]
    BY <1>1, Zenon
  <1> HIDE DEF w
  <1>8. tx'[q] = w
    BY <1>0, <1>5, <1>7, TxSet, Zenon
  <1>9. headLock # q
    BY <1>1, Holds, Zenon
  <1>10. SnapOK(q)' /\ tx[q].snap.epoch <= head.epoch /\ tx[q].snap.facts = shownAt[tx[q].snap.epoch + 1]
    BY <1>0, <1>1, <1>4, <1>6, <1>8, Zenon DEF SnapOK, QueryOK, Working
  <1>11. WinnerOK(q)'
    BY <1>1, <1>9, Zenon DEF WinnerOK
  <1>12. CoveredOK(q)'
    <2>1. new = NoCharge => ShownAt(tx[q].obs, tx[q].snap.epoch)
      BY <1>3, <1>10, Zenon DEF ShownAt
    <2> QED BY <1>1, <1>2, <1>4, <1>6, <1>8, <1>10, <2>1, Zenon DEF CoveredOK, ShownAt, Late
  <1>13. TxOK(q)'
    <2>1. c = "update" => Derived(q)'
      BY <1>1, <1>6, <1>8, Zenon DEF Derived, new
    <2> QED BY <1>0, <1>1, <1>2, <1>4, <1>6, <1>8, <2>1, Zenon DEF QueryOK, TxOK
  <1>14. ResOK(q)'
    BY <1>0, <1>1, Zenon DEF QueryOK, ResOK, ShownAt
  <1>15. res' \in [Query -> Reservation] /\ \A r \in Query \ {q} : res'[r] = res[r]
    BY <1>0, <1>1, Zenon DEF HeadTypeOK
  <1> QED BY <1>1, <1>5, <1>7, <1>10, <1>11, <1>12, <1>13, <1>14, <1>15, MoveStep, Zenon DEF QueryOK

\* The epoch is read again once the observation is known to be shown.
LEMMA RereadStep ==
  ASSUME IInv, NEW q \in Query, Reread(q)
  PROVE  IInv'
  <1>0. HeadTypeOK /\ QueryOK(q) /\ tx[q] \in Transaction /\ head.epoch \in Nat /\ tx[q].epoch \in Nat
    BY TransactionFields, Zenon DEF IInv, HeadTypeOK, HeadRow
  <1> DEFINE c == IF At(q, "reread") THEN "commit" ELSE "insert"
  <1>1. /\ UNCHANGED <<profile, head, seen, res, headLock, seenLock, shownAt>>
        /\ tx' = [tx EXCEPT ![q].epoch = head.epoch, ![q].pc = c]
        /\ \/ tx[q].pc = "reread" /\ c = "commit"
           \/ tx[q].pc = "rereadFirst" /\ c = "insert"
    BY Zenon DEF Reread, At
  <1> HIDE DEF c
  <1> DEFINE w == [tx[q] EXCEPT !.epoch = head.epoch, !.pc = c]
  <1>2. w \in Transaction
    BY <1>0, <1>1, Zenon DEF Transaction, Pc
  <1>3. /\ w.pc = c /\ w.snap = tx[q].snap /\ w.obs = tx[q].obs /\ w.delta = tx[q].delta
        /\ w.tries = tx[q].tries /\ w.began = tx[q].began /\ w.epoch = head.epoch
    BY <1>0, Zenon DEF Transaction
  <1>4. tx' = [tx EXCEPT ![q] = w]
    BY <1>1, Zenon
  <1> HIDE DEF w
  <1>5. tx'[q] = w
    BY <1>0, <1>2, <1>4, TxSet, Zenon
  <1>6. headLock # q
    BY <1>1, Holds, Zenon
  <1>7. tx[q].obs \in Observation
    BY <1>0, <1>1, Zenon DEF QueryOK, TxOK
  <1>8. SnapOK(q)' /\ WinnerOK(q)'
    BY <1>0, <1>1, <1>3, <1>5, <1>6, Zenon DEF SnapOK, WinnerOK, QueryOK, Working
  <1>9. /\ ShownAt(tx[q].obs, head.epoch) /\ tx[q].delta = NoCharge /\ profile # "V3"
        /\ tx[q].pc = "reread" => seen[tx[q].obs] # Absent /\ seen[tx[q].obs] <= head.epoch
    <2>1. CASE tx[q].pc = "reread"
      <3>1. seen[tx[q].obs] # Absent /\ tx[q].delta = NoCharge /\ profile = "V4"
        BY <1>0, <2>1, Zenon DEF QueryOK, TxOK
      <3> QED BY <1>7, <3>1, SeenIsShown, Zenon
    <2>2. CASE tx[q].pc = "rereadFirst"
      <3>1. tx[q].delta = NoCharge /\ tx[q].epoch <= head.epoch /\ ShownAt(tx[q].obs, tx[q].epoch)
            /\ profile # "V3"
        BY <1>0, <1>6, <2>2, Zenon DEF QueryOK, CoveredOK, Late
      <3>2. ShownAt(tx[q].obs, head.epoch)
        BY <1>0, <1>7, <3>1, ShownLater
      <3> QED BY <2>2, <3>1, <3>2, Zenon
    <2> QED BY <1>1, <2>1, <2>2, Zenon
  <1>10. CoveredOK(q)'
    <2>1. head.epoch <= head.epoch /\ tx'[q].obs = tx[q].obs /\ tx'[q].epoch = head.epoch
          /\ tx'[q].delta = NoCharge
      BY <1>0, <1>3, <1>5, <1>9
    <2>2. ShownAt(tx[q].obs, head.epoch)' <=> ShownAt(tx'[q].obs, head.epoch)
      BY <1>1, Zenon DEF ShownAt
    <2> QED BY <1>1, <1>9, <2>1, <2>2, Zenon DEF CoveredOK
  <1>11. TxOK(q)'
    BY <1>0, <1>1, <1>3, <1>5, <1>9, Zenon DEF QueryOK, TxOK
  <1>12. ResOK(q)'
    BY <1>0, <1>1, Zenon DEF QueryOK, ResOK, ShownAt
  <1>13. res' \in [Query -> Reservation] /\ \A r \in Query \ {q} : res'[r] = res[r]
    BY <1>0, <1>1, Zenon DEF HeadTypeOK
  <1> QED BY <1>1, <1>2, <1>4, <1>8, <1>10, <1>11, <1>12, <1>13, MoveStep, Zenon DEF QueryOK

\* A conflict after the head has moved past the copy begins the next attempt, or fails.
LEMMA ConflictStep ==
  ASSUME IInv, NEW q \in Query, Conflict(q), UNCHANGED <<profile, head, seen, res, shownAt>>,
         tx[q].pc # "none", tx[q].tries + 1 <= head.epoch - tx[q].began
  PROVE  IInv'
  <1>0. tx[q] \in Transaction /\ tx[q].tries \in Nat /\ tx[q].tries + 1 \in Nat
    BY TransactionFields DEF IInv, HeadTypeOK
  <1> DEFINE c == IF tx[q].tries + 1 < MaxAttempts THEN "read" ELSE "failed"
  <1>1. /\ c \in {"read", "failed"} /\ FreeLocks(q)
        /\ tx' = [tx EXCEPT ![q].pc = c, ![q].tries = @ + 1, ![q].delta = NoCharge]
    BY Zenon DEF Conflict
  <1> HIDE DEF c
  <1> DEFINE w == [tx[q] EXCEPT !.pc = c, !.tries = tx[q].tries + 1, !.delta = NoCharge]
  <1>2. w \in Transaction
    BY <1>0, <1>1, EmptyTypes, Zenon DEF Transaction, Pc
  <1>3. w.pc = c /\ w.obs = tx[q].obs /\ w.tries = tx[q].tries + 1 /\ w.began = tx[q].began
        /\ w.delta = NoCharge
    BY <1>0, Zenon DEF Transaction
  <1>4. tx' = [tx EXCEPT ![q] = w]
    BY <1>1, Zenon
  <1> HIDE DEF w
  <1>5. w.tries <= head.epoch - tx[q].began
    BY <1>3, Zenon
  <1> QED BY <1>1, <1>2, <1>3, <1>4, <1>5, EndStep, Zenon

\* The conditional UPDATE wins the head row its copy shows, or has lost a race.
LEMMA UpdateHeadStep ==
  ASSUME IInv, NEW q \in Query, UpdateHead(q)
  PROVE  IInv'
  <1>0. /\ HeadTypeOK /\ QueryOK(q) /\ head \in HeadRow /\ tx[q] \in Transaction /\ head.epoch \in Nat
        /\ tx[q].snap.epoch \in Nat /\ tx[q].tries \in Nat /\ tx[q].began \in Nat
        /\ tx[q].delta \in Charge /\ head.used \in Charge
    BY TransactionFields, Zenon DEF IInv, HeadTypeOK, HeadRow
  <1>1. /\ UNCHANGED <<profile, head, seen, res, shownAt>>
        /\ tx[q].pc = "update" /\ headLock = Nobody
    BY Zenon DEF UpdateHead, At
  <1>2. /\ Derived(q) /\ tx[q].delta # NoCharge /\ profile # "V3"
        /\ tx[q].snap.epoch <= head.epoch
        /\ tx[q].snap.epoch = head.epoch => tx[q].snap = head
        /\ tx[q].tries <= tx[q].snap.epoch - tx[q].began
    BY <1>0, <1>1, Zenon DEF QueryOK, TxOK, SnapOK, Working
  <1>3. CASE Match(q)
    <2>1. /\ headLock' = q /\ seenLock' = seenLock /\ head.epoch = tx[q].snap.epoch
          /\ tx' = [tx EXCEPT ![q].pc = "insert", ![q].epoch = tx[q].snap.epoch + 1]
      BY <1>3, Zenon DEF UpdateHead, Match
    <2> DEFINE w == [tx[q] EXCEPT !.pc = "insert", !.epoch = tx[q].snap.epoch + 1]
    <2>2. w \in Transaction
      <3>1. tx[q].snap.epoch + 1 \in Nat
        BY <1>0
      <3> QED BY <1>0, <3>1, Zenon DEF Transaction, Pc
    <2>3. /\ w.pc = "insert" /\ w.snap = tx[q].snap /\ w.obs = tx[q].obs /\ w.delta = tx[q].delta
          /\ w.tries = tx[q].tries /\ w.began = tx[q].began /\ w.epoch = tx[q].snap.epoch + 1
      BY <1>0, Zenon DEF Transaction
    <2>4. tx' = [tx EXCEPT ![q] = w]
      BY <2>1, Zenon
    <2> HIDE DEF w
    <2>5. tx' \in [Query -> Transaction] /\ tx'[q] = w /\ \A r \in Query \ {q} : tx'[r] = tx[r]
      BY <1>0, <2>2, <2>4, TxSet, Zenon
    <2>6. \A o \in Observation : seenLock'[o] # q
      BY <1>1, <2>1, Holds, Zenon
    <2>7. HeadTypeOK' /\ Quiet(q)
      <3>1. \A r \in Query : r # Nobody
        BY HeadAssumption, Zenon DEF HeadAssumption, Nobody
      <3> QED BY <1>0, <1>1, <2>1, <2>5, <3>1, Zenon DEF HeadTypeOK, Quiet
    <2>8. SnapOK(q)'
      BY <1>0, <1>1, <2>3, <2>5, Zenon DEF SnapOK, QueryOK, Working
    <2>9. WinnerOK(q)'
      <3>1. Derived(q)'
        BY <1>2, <2>3, <2>5, Zenon DEF Derived
      <3> QED BY <1>1, <1>2, <2>1, <2>3, <2>5, <3>1, Zenon DEF WinnerOK
    <2>10. CoveredOK(q)'
      BY <2>1, Zenon DEF CoveredOK
    <2>11. TxOK(q)'
      BY <1>0, <1>1, <2>3, <2>5, Zenon DEF QueryOK, TxOK
    <2>12. ResOK(q)'
      BY <1>0, <1>1, Zenon DEF QueryOK, ResOK, ShownAt
    <2> QED BY <2>6, <2>7, <2>8, <2>9, <2>10, <2>11, <2>12, QuietStep, Zenon DEF QueryOK
  <1>4. CASE ~Match(q)
    <2>1. Conflict(q)
      BY <1>4, Zenon DEF UpdateHead
    <2>2. head.epoch # tx[q].snap.epoch
      <3>1. SUFFICES ASSUME head.epoch = tx[q].snap.epoch PROVE FALSE
        BY Zenon
      <3>2. Fits(TaskOf[q], head.used, tx[q].delta)
        BY <1>2, <3>1, Zenon DEF Derived
      <3>3. ASSUME NEW d \in Dim PROVE head.used[d] + tx[q].delta[d] <= RootLimit[d]
        <4>1. head.used[d] \in Nat /\ tx[q].delta[d] \in Nat /\ RootLimit[d] \in Nat
          BY <1>0, ExposureAssumption, Zenon DEF Charge, ExposureAssumption
        <4>2. head.used[d] <= RootLimit[d]
          BY Zenon DEF IInv, RootOK
        <4>3. tx[q].delta[d] > 0 => head.used[d] + tx[q].delta[d] <= RootLimit[d]
          BY <3>2, Zenon DEF Fits
        <4> QED BY <4>1, <4>2, <4>3
      <3> QED BY <1>4, <3>1, <3>3, Zenon DEF Match
    <2>3. tx[q].tries + 1 <= head.epoch - tx[q].began
      BY <1>0, <1>2, <2>2
    <2> QED BY <1>1, <2>1, <2>3, ConflictStep, Zenon
  <1> QED BY <1>3, <1>4, Zenon

\* The insert into the family's record: the row is new, or the observation is shown
\* already and there is nothing to charge for it.
LEMMA InsertSeenStep ==
  ASSUME IInv, NEW q \in Query, InsertSeen(q)
  PROVE  IInv'
  <1>0. /\ HeadTypeOK /\ QueryOK(q) /\ tx[q] \in Transaction /\ head \in HeadRow
        /\ profile \in {"V3", "V4", "V5"} /\ head.facts \in Facts
        /\ seenLock \in [Observation -> Query \cup {Nobody}]
    BY TransactionFields, Zenon DEF IInv, HeadTypeOK, HeadRow
  <1> DEFINE o == tx[q].obs
  <1>1. /\ UNCHANGED <<profile, head, seen, res, shownAt>>
        /\ tx[q].pc = "insert" /\ seenLock[o] = Nobody
    BY Zenon DEF InsertSeen, At
  <1>2. o \in Observation
    BY <1>0, <1>1, Zenon DEF QueryOK, TxOK
  <1>3. /\ profile # "V3"
        /\ headLock = q => tx[q].delta # NoCharge /\ Derived(q) /\ tx[q].snap = head
        /\ headLock # q => tx[q].delta = NoCharge
    BY <1>0, <1>1, Zenon DEF QueryOK, WinnerOK, CoveredOK, Late
  <1>4. seen[o] # Absent => headLock # q \/ profile # "V4"
    <2>1. SUFFICES ASSUME seen[o] # Absent, headLock = q PROVE FALSE
      BY Zenon
    <2>2. ShownAt(o, head.epoch) /\ head.facts = shownAt[head.epoch + 1]
      BY <1>2, <2>1, SeenIsShown, Zenon DEF IInv, RootOK
    <2>3. \A d \in Dim : FactsOf[o][d] \subseteq head.facts[d]
      BY <2>2, Zenon DEF ShownAt
    <2>4. Novelty(o, head.facts) = NoCharge
      BY <1>0, <1>2, <2>3, NoveltyType, Zenon
    <2> QED BY <1>3, <2>1, <2>4, Zenon DEF Derived
  <1>5. PICK c \in {"commit", "reread"} :
          /\ Goto(q, c) /\ headLock' = headLock
          /\ \/ c = "commit" /\ seen[o] = Absent /\ seenLock' = [seenLock EXCEPT ![o] = q]
             \/ c = "commit" /\ seen[o] # Absent /\ seenLock' = seenLock /\ profile = "V5"
             \/ /\ c = "reread" /\ seen[o] # Absent /\ seenLock' = seenLock /\ profile = "V4"
                /\ tx[q].delta = NoCharge
    <2>1. CASE seen[o] = Absent
      BY <2>1, Zenon DEF InsertSeen
    <2>2. CASE seen[o] # Absent /\ profile = "V4"
      <3>1. tx[q].delta = NoCharge
        BY <1>3, <1>4, <2>2, Zenon
      <3> QED BY <2>2, <3>1, Zenon DEF InsertSeen
    <2>3. CASE seen[o] # Absent /\ profile = "V5"
      BY <2>3, Zenon DEF InsertSeen
    <2> QED BY <1>0, <1>3, <2>1, <2>2, <2>3, Zenon
  <1> HIDE DEF o
  <1> DEFINE w == [tx[q] EXCEPT !.pc = c]
  <1>6. w \in Transaction
    BY <1>0, Zenon DEF Transaction, Pc
  <1>7. /\ w.pc = c /\ w.snap = tx[q].snap /\ w.obs = tx[q].obs /\ w.delta = tx[q].delta
        /\ w.tries = tx[q].tries /\ w.began = tx[q].began /\ w.epoch = tx[q].epoch
    BY <1>0, Zenon DEF Transaction
  <1>8. tx' = [tx EXCEPT ![q] = w]
    BY <1>5, Zenon DEF Goto
  <1> HIDE DEF w
  <1>9. tx' \in [Query -> Transaction] /\ tx'[q] = w /\ \A r \in Query \ {q} : tx'[r] = tx[r]
    BY <1>0, <1>6, <1>8, TxSet, Zenon
  <1>10. \A r \in Query : r # Nobody
    BY HeadAssumption, Zenon DEF HeadAssumption, Nobody
  <1>11. /\ seenLock' \in [Observation -> Query \cup {Nobody}]
         /\ \A s \in Observation : /\ \A r \in Query \ {q} : seenLock'[s] = r <=> seenLock[s] = r
                                   /\ seenLock'[s] = q => s = o /\ c = "commit" /\ seen[o] = Absent
    <2>1. \A s \in Observation : seenLock[s] # q
      BY <1>1, Holds, Zenon
    <2> QED BY <1>0, <1>1, <1>2, <1>5, <1>10, <2>1, Zenon
  <1>12. HeadTypeOK' /\ Quiet(q)
    BY <1>0, <1>1, <1>5, <1>9, <1>11, Zenon DEF HeadTypeOK, Quiet
  <1>13. SnapOK(q)'
    BY <1>0, <1>1, <1>5, <1>7, <1>9, Zenon DEF SnapOK, QueryOK, Working
  <1>14. WinnerOK(q)'
    <2>1. Derived(q) => Derived(q)'
      BY <1>7, <1>9, Zenon DEF Derived
    <2>2. headLock = q => c = "commit"
      BY <1>4, <1>5, Zenon
    <2> QED BY <1>0, <1>1, <1>3, <1>5, <1>7, <1>9, <2>1, <2>2, Zenon DEF QueryOK, WinnerOK
  <1>15. CoveredOK(q)'
    BY <1>0, <1>1, <1>5, <1>7, <1>9, Zenon DEF QueryOK, CoveredOK, ShownAt, Late
  <1>16. TxOK(q)'
    <2>1. c = "commit" => seenLock'[o] = q \/ (seen[o] # Absent /\ profile # "V4")
      BY <1>0, <1>2, <1>5, Zenon
    <2> QED BY <1>0, <1>1, <1>5, <1>7, <1>9, <2>1, Zenon DEF QueryOK, TxOK, o
  <1>17. ResOK(q)'
    BY <1>0, <1>1, Zenon DEF QueryOK, ResOK, ShownAt
  <1>18. \A s \in Observation : seenLock'[s] = q =>
           tx'[q].pc = "commit" /\ tx'[q].obs = s /\ seen[s] = Absent /\ profile # "V3"
    BY <1>3, <1>7, <1>9, <1>11, Zenon DEF o
  <1> QED BY <1>12, <1>13, <1>14, <1>15, <1>16, <1>17, <1>18, QuietStep, Zenon DEF QueryOK
-----------------------------------------------------------------------------
(* The commit *)

\* Merging the facts of an observation adds their novelty to every counter.
LEMMA MergeCounts ==
  ASSUME IInv, NEW o \in Observation, NEW shown \in Facts, NEW before \in Charge,
         \A d \in Dim : before[d] = Cardinality(shown[d])
  PROVE  /\ Merge(o, shown) \in Facts /\ Sum(before, Novelty(o, shown)) \in Charge
         /\ \A d \in Dim : /\ Sum(before, Novelty(o, shown))[d] = before[d] + Novelty(o, shown)[d]
                           /\ Sum(before, Novelty(o, shown))[d] = Cardinality(Merge(o, shown)[d])
                           /\ FactsOf[o][d] \subseteq Merge(o, shown)[d]
                           /\ shown[d] \subseteq Merge(o, shown)[d]
  <1>1. Novelty(o, shown) \in Charge /\ \A d \in Dim : FactsOf[o][d] \subseteq Fact /\ shown[d] \subseteq Fact
    BY NoveltyType, Zenon
  <1>2. \A d \in Dim : FactsOf[o][d] \subseteq Fact
    BY ExposureAssumption, Zenon DEF ExposureAssumption
  <1>3. Merge(o, shown) \in Facts
    BY <1>2, Zenon DEF Merge, Facts
  <1>4. \A d \in Dim : Merge(o, shown)[d] = shown[d] \cup FactsOf[o][d]
    BY Zenon DEF Merge
  <1>5. Sum(before, Novelty(o, shown)) \in Charge
    BY <1>1 DEF Sum, Charge
  <1>6. \A d \in Dim : Sum(before, Novelty(o, shown))[d] = before[d] + Novelty(o, shown)[d]
    BY Zenon DEF Sum
  <1>7. ASSUME NEW d \in Dim
        PROVE  before[d] + Novelty(o, shown)[d] = Cardinality(shown[d] \cup FactsOf[o][d])
    <2> DEFINE A == shown[d]
               B == FactsOf[o][d] \ shown[d]
    <2>1. A \in SUBSET Fact /\ B \in SUBSET Fact
      BY <1>1, Zenon
    <2>2. A \cup B = shown[d] \cup FactsOf[o][d] /\ A \cap B = {}
      OBVIOUS
    <2>3. Novelty(o, shown)[d] = Cardinality(B)
      BY Zenon DEF Novelty
    <2> HIDE DEF A, B
    <2>4. Cardinality(A \cup B) = Cardinality(A) + Cardinality(B)
      BY <2>1, <2>2, Zenon DEF IInv, Counting
    <2> QED BY <2>2, <2>3, <2>4, SMTT(60) DEF A
  <1> QED BY <1>3, <1>4, <1>5, <1>6, <1>7, Zenon

\* At its commit, a transaction settles its observation against the head as it is then:
\* with the head row it charges the novelty within the limits, without it there is none.
LEMMA CommitSettles ==
  ASSUME IInv, NEW q \in Query, Commit(q)
  PROVE  /\ tx[q].obs \in Observation /\ res[q].status = "RESERVED"
         /\ tx[q].delta = Novelty(tx[q].obs, head.facts)
         /\ Fits(TaskOf[q], head.used, tx[q].delta)
         /\ head'.facts = Merge(tx[q].obs, head.facts)
         /\ head'.used = Sum(head.used, tx[q].delta)
         /\ headLock = q => head'.epoch = head.epoch + 1 /\ shownAt' = Append(shownAt, head'.facts)
         /\ headLock # q => head' = head /\ shownAt' = shownAt
  <1>0. /\ QueryOK(q) /\ tx[q].pc = "commit" /\ head \in HeadRow
        /\ head.facts \in Facts /\ head.used \in Charge
    BY Zenon DEF Commit, At, IInv, HeadTypeOK, HeadRow
  <1>1. tx[q].obs \in Observation /\ res[q].status = "RESERVED"
    BY <1>0, Zenon DEF QueryOK, TxOK
  <1>2. CASE headLock = q
    <2>1. tx[q].snap = head /\ Derived(q)
      BY <1>0, <1>2, Zenon DEF QueryOK, WinnerOK
    <2>2. /\ head' = [epoch |-> head.epoch + 1, used |-> Sum(head.used, tx[q].delta),
                      facts |-> Merge(tx[q].obs, tx[q].snap.facts)]
          /\ shownAt' = Append(shownAt, Merge(tx[q].obs, tx[q].snap.facts))
      BY <1>2, Zenon DEF Commit
    <2> QED BY <1>1, <1>2, <2>1, <2>2, Zenon DEF Derived
  <1>3. CASE headLock # q
    <2>1. tx[q].delta = NoCharge /\ tx[q].epoch <= head.epoch /\ ShownAt(tx[q].obs, tx[q].epoch)
      BY <1>0, <1>3, Zenon DEF QueryOK, CoveredOK, Late
    <2>2. tx[q].epoch \in Nat /\ head.epoch \in Nat
      BY TransactionFields, Zenon DEF IInv, HeadTypeOK, HeadRow
    <2>3. ShownAt(tx[q].obs, head.epoch) /\ shownAt[head.epoch + 1] = head.facts
      BY <1>1, <2>1, <2>2, ShownLater DEF IInv, RootOK
    <2>4. \A d \in Dim : FactsOf[tx[q].obs][d] \subseteq head.facts[d]
      BY <2>3, Zenon DEF ShownAt
    <2>5. tx[q].delta = Novelty(tx[q].obs, head.facts)
      BY <1>0, <1>1, <2>1, <2>4, NoveltyType, Zenon
    <2>6. head' = head /\ shownAt' = shownAt
      BY <1>3, Zenon DEF Commit
    <2>7. Merge(tx[q].obs, head.facts) = head.facts
      BY <1>0, <2>4, Zenon DEF Merge, Facts
    <2>8. Sum(head.used, tx[q].delta) = head.used
      BY <1>0, <2>1 DEF Sum, NoCharge, Charge
    <2>9. Fits(TaskOf[q], head.used, tx[q].delta)
      BY <2>1 DEF Fits, NoCharge
    <2> QED BY <1>1, <1>3, <2>5, <2>6, <2>7, <2>8, <2>9, Zenon
  <1> QED BY <1>2, <1>3, Zenon

\* The root after a commit.
LEMMA CommitRoot ==
  ASSUME IInv, NEW q \in Query, Commit(q)
  PROVE  /\ RootOK' /\ head' \in HeadRow /\ shownAt' \in Seq(Facts)
         /\ \A i \in 1 .. Len(shownAt) : shownAt'[i] = shownAt[i]
         /\ head'.epoch = head.epoch \/ head'.epoch = head.epoch + 1
  <1>0. /\ head \in HeadRow /\ head.facts \in Facts /\ head.used \in Charge /\ head.epoch \in Nat
        /\ shownAt \in Seq(Facts) /\ RootOK
    BY Zenon DEF IInv, HeadTypeOK, HeadRow
  <1>1. CASE headLock # q
    <2>1. head' = head /\ shownAt' = shownAt
      BY <1>1, CommitSettles, Zenon
    <2> QED BY <1>0, <2>1, Zenon DEF RootOK
  <1>2. CASE headLock = q
    <2> DEFINE o == tx[q].obs
    <2>1. /\ o \in Observation /\ Fits(TaskOf[q], head.used, Novelty(o, head.facts))
          /\ head'.facts = Merge(o, head.facts) /\ head'.used = Sum(head.used, Novelty(o, head.facts))
          /\ head'.epoch = head.epoch + 1 /\ shownAt' = Append(shownAt, head'.facts)
      BY <1>2, CommitSettles, Zenon
    <2>2. head' = [epoch |-> head.epoch + 1, used |-> Sum(head.used, tx[q].delta),
                   facts |-> Merge(tx[q].obs, tx[q].snap.facts)]
      BY <1>2, Zenon DEF Commit
    <2> HIDE DEF o
    <2>3. \A d \in Dim : head.used[d] = Cardinality(head.facts[d]) /\ head.used[d] <= RootLimit[d]
      BY <1>0, Zenon DEF RootOK
    <2>4. /\ head'.facts \in Facts /\ head'.used \in Charge
          /\ \A d \in Dim : /\ head'.used[d] = head.used[d] + Novelty(o, head.facts)[d]
                            /\ head'.used[d] = Cardinality(head'.facts[d])
                            /\ head.facts[d] \subseteq head'.facts[d]
      BY <1>0, <2>1, <2>3, MergeCounts
    <2>5. head' \in HeadRow
      <3>1. head.epoch + 1 \in Nat
        BY <1>0
      <3> QED BY <2>1, <2>2, <2>4, <3>1, Zenon DEF HeadRow
    <2>6. ASSUME NEW d \in Dim PROVE head'.used[d] <= RootLimit[d]
      <3>1. /\ Novelty(o, head.facts)[d] \in Nat /\ head.used[d] \in Nat /\ RootLimit[d] \in Nat
        BY <1>0, <2>1, NoveltyType, ExposureAssumption, Zenon DEF Charge, ExposureAssumption
      <3>2. Novelty(o, head.facts)[d] > 0 => head.used[d] + Novelty(o, head.facts)[d] <= RootLimit[d]
        BY <2>1, Zenon DEF Fits
      <3>3. head'.used[d] = head.used[d] + Novelty(o, head.facts)[d]
        BY <2>4, Zenon
      <3>4. head.used[d] <= RootLimit[d]
        BY <2>3, Zenon
      <3> QED BY <3>1, <3>2, <3>3, <3>4
    <2>7. Len(shownAt) = head.epoch + 1 /\ shownAt[head.epoch + 1] = head.facts
      BY <1>0, Zenon DEF RootOK
    <2>8. /\ shownAt' \in Seq(Facts) /\ Len(shownAt') = Len(shownAt) + 1
          /\ shownAt'[Len(shownAt) + 1] = head'.facts
          /\ \A i \in 1 .. Len(shownAt) : shownAt'[i] = shownAt[i]
      BY <1>0, <2>1, <2>4
    <2>9. ASSUME NEW i \in 1 .. Len(shownAt'), NEW j \in 1 .. Len(shownAt'), i <= j, NEW d \in Dim
          PROVE  shownAt'[i][d] \subseteq shownAt'[j][d]
      <3>0. /\ Len(shownAt) \in Nat /\ i \in Nat /\ j \in Nat /\ 1 <= i /\ 1 <= j
            /\ i <= Len(shownAt) + 1 /\ j <= Len(shownAt) + 1
        BY <1>0, <2>7, <2>8
      <3>1. CASE j <= Len(shownAt)
        <4>1. i \in 1 .. Len(shownAt) /\ j \in 1 .. Len(shownAt)
          BY <2>9, <3>0, <3>1
        <4>2. shownAt[i][d] \subseteq shownAt[j][d]
          BY <1>0, <2>9, <4>1, Zenon DEF RootOK
        <4> QED BY <2>8, <4>1, <4>2, Zenon
      <3>2. CASE j = Len(shownAt) + 1 /\ i <= Len(shownAt)
        <4>1. i \in 1 .. Len(shownAt) /\ Len(shownAt) \in 1 .. Len(shownAt)
          BY <3>0, <3>2
        <4>2. shownAt[i][d] \subseteq shownAt[Len(shownAt)][d]
          BY <1>0, <3>2, <4>1, Zenon DEF RootOK
        <4>3. shownAt[i][d] \subseteq head'.facts[d]
          BY <2>4, <2>7, <4>2, Zenon
        <4> QED BY <2>8, <3>2, <4>1, <4>3, Zenon
      <3>3. CASE j = Len(shownAt) + 1 /\ i = Len(shownAt) + 1
        BY <3>3, Zenon
      <3> QED BY <2>9, <3>0, <3>1, <3>2, <3>3
    <2>10. RootOK'
      <3>1. Len(shownAt') = head'.epoch + 1 /\ shownAt'[head'.epoch + 1] = head'.facts
        BY <1>0, <2>1, <2>7, <2>8, Zenon
      <3> QED BY <2>4, <2>6, <2>9, <3>1, Zenon DEF RootOK
    <2> QED BY <2>1, <2>5, <2>8, <2>10, Zenon
  <1> QED BY <1>1, <1>2, Zenon

\* The other transactions after a commit.
LEMMA CommitOthers ==
  ASSUME IInv, NEW q \in Query, Commit(q), NEW r \in Query, r # q,
         tx'[r] = tx[r], res'[r] = res[r], headLock' = r <=> headLock = r,
         \A o \in Observation : seenLock'[o] = r <=> seenLock[o] = r,
         \A o \in Observation : seen[o] # Absent => seen'[o] = seen[o]
  PROVE  QueryOK(r)'
  <1>0. /\ QueryOK(r) /\ profile' = profile /\ tx[r] \in Transaction /\ head.epoch \in Nat
        /\ tx[r].epoch \in Nat /\ tx[r].snap.epoch \in Nat /\ tx[r].tries \in Nat /\ tx[r].began \in Nat
        /\ res[r] \in Reservation /\ res[r].epoch \in Nat
    BY TransactionFields, Zenon DEF IInv, HeadTypeOK, HeadRow, Reservation, Commit
  <1>1. /\ \A i \in 1 .. Len(shownAt) : shownAt'[i] = shownAt[i]
        /\ head'.epoch = head.epoch \/ head'.epoch = head.epoch + 1
        /\ Len(shownAt) = head.epoch + 1
    BY CommitRoot, Zenon DEF IInv, RootOK
  <1>2. head'.epoch = head.epoch => head' = head
    BY <1>0, CommitSettles
  <1>3. headLock = r => head' = head
    BY CommitSettles, Zenon
  <1>4. ASSUME NEW o \in Observation, NEW e \in Nat, e <= head.epoch, ShownAt(o, e)
        PROVE  e <= head'.epoch /\ ShownAt(o, e)'
    <2>1. e + 1 \in 1 .. Len(shownAt) /\ e <= head'.epoch
      BY <1>0, <1>1, <1>4
    <2>2. shownAt'[e + 1] = shownAt[e + 1]
      BY <1>1, <2>1, Zenon
    <2> QED BY <1>4, <2>1, <2>2, Zenon DEF ShownAt
  <1>5. SnapOK(r)'
    <2>1. SUFFICES ASSUME tx[r].pc \in Working \/ (headLock = r)
                   PROVE  /\ tx[r].snap.epoch <= head'.epoch
                          /\ tx[r].snap.facts = shownAt'[tx[r].snap.epoch + 1]
                          /\ tx[r].snap.epoch = head'.epoch => tx[r].snap = head'
                          /\ tx[r].tries <= tx[r].snap.epoch - tx[r].began
      BY Zenon DEF SnapOK, Working
    <2>2. /\ tx[r].snap.epoch <= head.epoch
          /\ tx[r].snap.facts = shownAt[tx[r].snap.epoch + 1]
          /\ tx[r].snap.epoch = head.epoch => tx[r].snap = head
          /\ tx[r].tries <= tx[r].snap.epoch - tx[r].began
      BY <1>0, <2>1, Zenon DEF QueryOK, SnapOK
    <2>3. tx[r].snap.epoch + 1 \in 1 .. Len(shownAt)
      BY <1>0, <1>1, <2>2, SMTT(60)
    <2>4. tx[r].snap.epoch = head'.epoch => head'.epoch = head.epoch
      BY <1>0, <1>1, <2>2
    <2>5. tx[r].snap.epoch <= head'.epoch
      BY <1>0, <1>1, <2>2, SMTT(60)
    <2> QED BY <1>1, <1>2, <2>2, <2>3, <2>4, <2>5, Zenon
  <1>6. WinnerOK(r)'
    BY <1>0, <1>3, Zenon DEF QueryOK, WinnerOK, Derived
  <1>7. tx[r].pc # "none" => tx[r].obs \in Observation
    BY <1>0, Zenon DEF QueryOK, TxOK
  <1>8. CoveredOK(r)'
    <2>1. SUFFICES ASSUME headLock # r, tx[r].pc \in Late
                   PROVE  /\ profile # "V3" /\ tx[r].delta = NoCharge
                          /\ tx[r].epoch <= head'.epoch /\ ShownAt(tx[r].obs, tx[r].epoch)'
      BY <1>0, Zenon DEF CoveredOK, ShownAt
    <2>2. /\ profile # "V3" /\ tx[r].delta = NoCharge
          /\ tx[r].epoch <= head.epoch /\ ShownAt(tx[r].obs, tx[r].epoch)
      BY <1>0, <2>1, Zenon DEF QueryOK, CoveredOK
    <2>3. PICK o \in Observation : o = tx[r].obs
      BY <1>7, <2>1, Zenon DEF Late
    <2>4. PICK e \in Nat : e = tx[r].epoch
      BY <1>0, Zenon
    <2>5. e <= head'.epoch /\ ShownAt(o, e)'
      BY <1>4, <2>2, <2>3, <2>4, Zenon
    <2> QED BY <2>2, <2>3, <2>4, <2>5, Zenon DEF ShownAt
  <1>9. TxOK(r)'
    <2>1. Derived(r) => Derived(r)'
      BY Zenon DEF Derived
    <2>2. tx[r].pc # "none" => tx[r].tries <= head'.epoch - tx[r].began
      <3>1. tx[r].pc # "none" => tx[r].tries <= head.epoch - tx[r].began
        BY <1>0, Zenon DEF QueryOK, TxOK
      <3> QED BY <1>0, <1>1, <3>1
    <2> QED BY <1>0, <1>7, <2>1, <2>2, Zenon DEF QueryOK, TxOK
  <1>10. ResOK(r)'
    <2>1. CASE res[r].status = "SETTLED" /\ profile # "V3"
      <3>1. /\ res[r].obs \in Observation /\ res[r].epoch <= head.epoch
            /\ ShownAt(res[r].obs, res[r].epoch) /\ seen[res[r].obs] # Absent
            /\ profile = "V4" => seen[res[r].obs] <= res[r].epoch
        BY <1>0, <2>1, Zenon DEF QueryOK, ResOK
      <3>2. PICK o \in Observation : o = res[r].obs
        BY <3>1, Zenon
      <3>3. PICK e \in Nat : e = res[r].epoch
        BY <1>0, Zenon
      <3>4. e <= head'.epoch /\ ShownAt(o, e)'
        BY <1>4, <3>1, <3>2, <3>3, Zenon
      <3>5. seen'[o] = seen[o]
        BY <3>1, <3>2, Zenon
      <3> QED BY <1>0, <2>1, <3>1, <3>2, <3>3, <3>4, <3>5, Zenon DEF ResOK, ShownAt
    <2>2. CASE ~(res[r].status = "SETTLED" /\ profile # "V3")
      BY <1>0, <2>2, Zenon DEF QueryOK, ResOK
    <2> QED BY <2>1, <2>2, Zenon
  <1> QED BY <1>5, <1>6, <1>8, <1>9, <1>10, Zenon DEF QueryOK

\* The family's record and the settled query after a commit, and so the invariant.
LEMMA CommitStep ==
  ASSUME IInv, NEW q \in Query, Commit(q)
  PROVE  IInv'
  <1>0. /\ HeadTypeOK /\ QueryOK(q) /\ tx[q] \in Transaction /\ head.epoch \in Nat
        /\ tx[q].epoch \in Nat /\ tx[q].delta \in Charge /\ tx[q].pc = "commit"
        /\ \A r \in Query : r # Nobody
    BY TransactionFields, HeadAssumption, Zenon DEF IInv, HeadTypeOK, HeadRow, HeadAssumption, Nobody, Commit, At
  <1>1. tx[q].obs \in Observation
    BY CommitSettles, Zenon
  <1>2. PICK o \in Observation : o = tx[q].obs
    BY <1>1, Zenon
  <1>3. PICK e \in Nat : e = tx[q].epoch
    BY <1>0, Zenon
  <1>4. /\ seen' = [s \in Observation |-> IF seenLock[s] = q THEN e ELSE seen[s]]
        /\ tx' = [tx EXCEPT ![q] = NoTx] /\ FreeLocks(q) /\ profile' = profile
        /\ res' = [res EXCEPT ![q] = [status |-> "SETTLED", charged |-> tx[q].delta, obs |-> o, epoch |-> e]]
    BY <1>2, <1>3, Zenon DEF Commit
  <1>5. /\ tx' \in [Query -> Transaction] /\ tx'[q] = NoTx /\ \A r \in Query \ {q} : tx'[r] = tx[r]
    BY <1>0, <1>4, TxSet, EmptyTypes, Zenon
  <1>6. /\ res' \in [Query -> Reservation] /\ \A r \in Query \ {q} : res'[r] = res[r]
        /\ res'[q].status = "SETTLED" /\ res'[q].obs = o /\ res'[q].epoch = e
    <2> DEFINE v == [status |-> "SETTLED", charged |-> tx[q].delta, obs |-> o, epoch |-> e]
    <2>1. v \in Reservation /\ v.status = "SETTLED" /\ v.obs = o /\ v.epoch = e
      BY <1>0, Zenon DEF Reservation, SomeObservation
    <2>2. res' = [res EXCEPT ![q] = v]
      BY <1>4, Zenon
    <2> HIDE DEF v
    <2>3. res' \in [Query -> Reservation] /\ res'[q] = v /\ \A r \in Query \ {q} : res'[r] = res[r]
      BY <1>0, <2>1, <2>2, Zenon DEF HeadTypeOK
    <2> QED BY <2>1, <2>3, Zenon
  <1>7. /\ headLock' \in Query \cup {Nobody} /\ headLock' # q
        /\ \A r \in Query \ {q} : headLock' = r <=> headLock = r
    BY <1>0, <1>4, Zenon DEF FreeLocks, HeadTypeOK
  <1>8. /\ seenLock' \in [Observation -> Query \cup {Nobody}]
        /\ \A s \in Observation : seenLock'[s] # q /\ \A r \in Query \ {q} : seenLock'[s] = r <=> seenLock[s] = r
    BY <1>0, <1>4 DEF FreeLocks, HeadTypeOK
  <1>9. /\ seen' \in [Observation -> Nat \cup {Absent}]
        /\ \A s \in Observation : seen'[s] = IF seenLock[s] = q THEN e ELSE seen[s]
    BY <1>0, <1>4, Zenon DEF HeadTypeOK
  <1>10. \A s \in Observation : (seen[s] # Absent => seen'[s] = seen[s]) /\ (seenLock[s] = q => s = o)
    BY <1>0, <1>2, <1>9, Zenon DEF IInv, SeenOK
  <1>11. /\ RootOK' /\ head' \in HeadRow /\ shownAt' \in Seq(Facts)
         /\ \A i \in 1 .. Len(shownAt) : shownAt'[i] = shownAt[i]
         /\ head'.epoch = head.epoch \/ head'.epoch = head.epoch + 1
         /\ Len(shownAt) = head.epoch + 1
    BY CommitRoot, Zenon DEF IInv, RootOK
  <1>12. HeadTypeOK'
    BY <1>0, <1>4, <1>5, <1>6, <1>7, <1>8, <1>9, <1>11, Zenon DEF HeadTypeOK
  <1>13. profile # "V3" => e <= head'.epoch /\ ShownAt(o, e)'
    <2>1. CASE headLock = q /\ profile # "V3"
      <3>1. e = head'.epoch
        BY <1>0, <1>3, <2>1, CommitSettles, Zenon DEF QueryOK, WinnerOK
      <3>2. head.facts \in Facts /\ head.used \in Charge
            /\ \A d \in Dim : head.used[d] = Cardinality(head.facts[d])
        BY Zenon DEF IInv, HeadTypeOK, HeadRow, RootOK
      <3>3. \A d \in Dim : FactsOf[o][d] \subseteq head'.facts[d]
        BY <1>2, <3>2, CommitSettles, MergeCounts, Zenon
      <3>4. shownAt'[head'.epoch + 1] = head'.facts /\ e <= head'.epoch
        BY <1>11, <3>1 DEF RootOK
      <3> QED BY <3>1, <3>3, <3>4, Zenon DEF ShownAt
    <2>2. CASE headLock # q /\ profile # "V3"
      <3>1. e <= head.epoch /\ ShownAt(o, e)
        BY <1>0, <1>2, <1>3, <2>2, Zenon DEF QueryOK, CoveredOK, Late
      <3>2. e + 1 \in 1 .. Len(shownAt)
        BY <1>0, <1>11, <3>1
      <3>3. shownAt'[e + 1] = shownAt[e + 1] /\ e <= head'.epoch
        BY <1>0, <1>11, <3>1, <3>2
      <3> QED BY <3>1, <3>3, Zenon DEF ShownAt
    <2> QED BY <2>1, <2>2, Zenon
  <1>14. ASSUME NEW s \in Observation PROVE SeenOK(s)'
    <2>1. seenLock'[s] # Nobody => LET r == seenLock'[s]
            IN  tx'[r].pc = "commit" /\ tx'[r].obs = s /\ seen'[s] = Absent /\ profile' # "V3"
      <3>1. SUFFICES ASSUME NEW r \in Query, seenLock'[s] = r
                     PROVE  tx'[r].pc = "commit" /\ tx'[r].obs = s /\ seen'[s] = Absent /\ profile' # "V3"
        BY <1>8, Zenon
      <3>2. r # q /\ seenLock[s] = r
        BY <1>8, <3>1, Zenon
      <3>3. tx[r].pc = "commit" /\ tx[r].obs = s /\ seen[s] = Absent /\ profile # "V3"
        BY <1>0, <3>2, Zenon DEF IInv, SeenOK
      <3> QED BY <1>4, <1>5, <1>9, <3>2, <3>3, Zenon
    <2>2. seen'[s] # Absent => seen'[s] <= head'.epoch /\ ShownAt(s, seen[s])' 
      <3>1. CASE seenLock[s] = q
        <4>1. s = o /\ seen'[s] = e /\ profile # "V3"
          BY <1>0, <1>9, <1>10, <3>1, Zenon DEF IInv, SeenOK
        <4> QED BY <1>13, <4>1, Zenon DEF ShownAt
      <3>2. CASE seenLock[s] # q /\ seen[s] # Absent
        <4>1. /\ seen'[s] = seen[s] /\ seen[s] \in Nat /\ seen[s] <= head.epoch /\ ShownAt(s, seen[s])
          BY <1>0, <1>9, <3>2 DEF IInv, SeenOK, HeadTypeOK
        <4>2. seen[s] + 1 \in 1 .. Len(shownAt)
          BY <1>0, <1>11, <4>1
        <4>3. shownAt'[seen[s] + 1] = shownAt[seen[s] + 1] /\ seen[s] <= head'.epoch
          BY <1>0, <1>11, <4>1, <4>2, SMTT(60)
        <4> QED BY <4>1, <4>3, Zenon DEF ShownAt
      <3> QED BY <1>9, <3>1, <3>2, Zenon
    <2> QED BY <2>1, <2>2, Zenon DEF SeenOK, ShownAt
  <1>15. QueryOK(q)'
    <2>1. tx'[q].pc = "none" /\ headLock' # q
      BY <1>5, <1>7, EmptyTypes, Zenon
    <2>2. SnapOK(q)' /\ WinnerOK(q)' /\ CoveredOK(q)' /\ TxOK(q)'
      BY <2>1, Zenon DEF SnapOK, WinnerOK, CoveredOK, TxOK, Working, Late
    <2>3. profile # "V3" => seen'[o] # Absent /\ (profile = "V4" => seen'[o] <= e)
      <3>1. CASE seenLock[o] = q
        BY <1>9, <3>1 DEF Absent
      <3>2. CASE seenLock[o] # q
        BY <1>0, <1>2, <1>3, <1>9, <3>2, Zenon DEF QueryOK, TxOK
      <3> QED BY <3>1, <3>2, Zenon
    <2>4. ResOK(q)'
      BY <1>4, <1>6, <1>13, <2>3, Zenon DEF ResOK, ShownAt
    <2> QED BY <2>2, <2>4, Zenon DEF QueryOK
  <1>16. ASSUME NEW r \in Query, r # q PROVE QueryOK(r)'
    BY <1>5, <1>6, <1>7, <1>8, <1>10, <1>16, CommitOthers
  <1> QED BY <1>11, <1>12, <1>14, <1>15, <1>16, Zenon DEF IInv
-----------------------------------------------------------------------------
(* The invariant *)

\* A root starts empty, with nothing reserved and no transaction.
LEMMA HeadInit ==
  ASSUME Counting, Init
  PROVE  IInv
  <1>1. /\ profile \in {"V3", "V4", "V5"} /\ head = EmptyHead /\ headLock = Nobody
        /\ \A o \in Observation : seen[o] = Absent /\ seenLock[o] = Nobody
        /\ \A q \in Query : res[q] = NoReservation /\ tx[q] = NoTx
        /\ shownAt = <<EmptyHead.facts>>
    BY Zenon DEF Init
  <1>2. NoReservation \in Reservation /\ NoReservation.status = "NONE" /\ NoReservation.charged = NoCharge
    BY EmptyTypes, Zenon DEF NoReservation, Reservation, SomeObservation
  <1>3. EmptyHead.facts \in Facts
    BY EmptyTypes, Zenon DEF HeadRow
  <1>4. /\ shownAt \in Seq(Facts) /\ Len(shownAt) = 1 /\ shownAt[1] = EmptyHead.facts
    BY <1>1, <1>3
  <1>5. HeadTypeOK
    BY <1>2, <1>4, EmptyTypes, Zenon DEF Init, HeadTypeOK
  <1>6. RootOK
    <2>1. \A d \in Dim : EmptyHead.used[d] = 0 /\ Cardinality(EmptyHead.facts[d]) = 0 /\ RootLimit[d] \in Nat
      <3>1. Cardinality({}) = 0
        BY Zenon DEF Counting
      <3> QED BY <3>1, EmptyTypes, ExposureAssumption, Zenon DEF NoCharge, ExposureAssumption
    <2>2. \A d \in Dim : head.used[d] = Cardinality(head.facts[d]) /\ head.used[d] <= RootLimit[d]
      BY <1>1, <2>1
    <2> QED BY <1>1, <1>4, <2>2, EmptyTypes DEF RootOK
  <1>7. ASSUME NEW o \in Observation PROVE SeenOK(o)
    BY <1>1, Zenon DEF SeenOK
  <1>8. ASSUME NEW q \in Query PROVE QueryOK(q)
    <2>1. tx[q].pc = "none" /\ headLock # q /\ res[q].status = "NONE" /\ res[q].charged = NoCharge
      BY <1>1, <1>2, EmptyTypes, HeadAssumption, Zenon DEF HeadAssumption, Nobody
    <2> QED BY <2>1, Zenon DEF QueryOK, SnapOK, WinnerOK, CoveredOK, TxOK, ResOK, Working, Late
  <1> QED BY <1>5, <1>6, <1>7, <1>8, Zenon DEF IInv

\* Nothing changes, nothing breaks.
LEMMA HeadStutter ==
  ASSUME IInv, UNCHANGED vars
  PROVE  IInv'
  <1>1. HeadTypeOK' /\ RootOK'
    BY Zenon DEF IInv, vars, HeadTypeOK, RootOK
  <1>2. ASSUME NEW o \in Observation PROVE SeenOK(o)'
    BY DEF IInv, vars, SeenOK, ShownAt
  <1>3. ASSUME NEW q \in Query PROVE QueryOK(q)'
    <2>1. QueryOK(q)
      BY Zenon DEF IInv
    <2>2. SnapOK(q)' /\ WinnerOK(q)'
      BY <2>1, SMTT(60) DEF vars, QueryOK, SnapOK, WinnerOK, Derived
    <2>3. CoveredOK(q)'
      BY <2>1, SMTT(60) DEF vars, QueryOK, CoveredOK, ShownAt
    <2>5. ResOK(q)'
      BY <2>1, SMTT(60) DEF vars, QueryOK, ResOK, ShownAt
    <2>4. TxOK(q)'
      BY <2>1 DEF vars, QueryOK, TxOK, Derived
    <2> QED BY <2>2, <2>3, <2>4, <2>5, Zenon DEF QueryOK
  <1> QED BY <1>1, <1>2, <1>3 DEF IInv

\* Every statement of every transaction keeps the invariant.
LEMMA HeadStep ==
  IInv /\ [Next]_vars => IInv'
  <1> SUFFICES ASSUME IInv, [Next]_vars PROVE IInv'
    BY Zenon
  <1>1. CASE UNCHANGED vars
    BY <1>1, HeadStutter, Zenon
  <1>2. CASE Next
    <2>1. PICK q \in Query :
            \/ Reserve(q) \/ Release(q)
            \/ (\E o \in Observation : Start(q, o) \/ StartReplay(q, o))
            \/ LockLedger(q) \/ InsertNovelFacts(q)
            \/ RefuseFacts(q) \/ Refuse(q) \/ Abort(q)
            \/ ReadHead(q) \/ LookSeen(q) \/ Derive(q)
            \/ UpdateHead(q) \/ InsertSeen(q) \/ Reread(q) \/ Commit(q)
      BY <1>2, Zenon DEF Next
    <2>2. CASE Reserve(q) \/ Release(q)
      BY <2>2, ReserveStep, Zenon
    <2>3. CASE \E o \in Observation : Start(q, o) \/ StartReplay(q, o)
      BY <2>3, StartStep, Zenon
    <2>4. CASE LockLedger(q)
      BY <2>4, LockLedgerStep, Zenon
    <2>5. CASE InsertNovelFacts(q)
      BY <2>5, InsertNovelFactsStep, Zenon
    <2>6. CASE RefuseFacts(q) \/ Refuse(q) \/ Abort(q)
      BY <2>6, FailStep, Zenon
    <2>7. CASE ReadHead(q)
      BY <2>7, ReadHeadStep, Zenon
    <2>8. CASE LookSeen(q)
      BY <2>8, LookSeenStep, Zenon
    <2>9. CASE Derive(q)
      BY <2>9, DeriveStep, Zenon
    <2>10. CASE UpdateHead(q)
      BY <2>10, UpdateHeadStep, Zenon
    <2>11. CASE InsertSeen(q)
      BY <2>11, InsertSeenStep, Zenon
    <2>12. CASE Reread(q)
      BY <2>12, RereadStep, Zenon
    <2>13. CASE Commit(q)
      BY <2>13, CommitStep, Zenon
    <2> QED BY <2>1, <2>2, <2>3, <2>4, <2>5, <2>6, <2>7, <2>8, <2>9, <2>10, <2>11, <2>12, <2>13, Zenon
  <1> QED BY <1>1, <1>2, Zenon

Sums == INSTANCE SumTheorems

\* The facts of a family are finitely many.
LEMMA CountingHolds == Counting
  <1>1. /\ \A S : Sums!IsFiniteSet(S) = IsFiniteSet(S)
        /\ \A S : Sums!Cardinality(S) = Cardinality(S)
    BY Zenon DEF Sums!IsFiniteSet, IsFiniteSet, Sums!Cardinality, Cardinality
  <1>2. SUFFICES ASSUME NEW A \in SUBSET Fact, NEW B \in SUBSET Fact
                 PROVE  /\ Cardinality(A) \in Nat
                        /\ Cardinality(A) = 0 <=> A = {}
                        /\ A \cap B = {} => Cardinality(A \cup B) = Cardinality(A) + Cardinality(B)
    BY Zenon DEF Counting
  <1>3. Sums!IsFiniteSet(A) /\ Sums!IsFiniteSet(B)
    BY <1>1, ExposureAssumption, Sums!FS_Subset, Zenon DEF ExposureAssumption
  <1>4. Sums!Cardinality(A) \in Nat /\ Sums!Cardinality(B) \in Nat
    BY <1>3, Sums!FS_CardinalityType, Zenon
  <1>5. Sums!Cardinality(A) = 0 <=> A = {}
    BY <1>3, Sums!FS_EmptySet, Zenon
  <1>6. ASSUME A \cap B = {} PROVE Sums!Cardinality(A \cup B) = Sums!Cardinality(A) + Sums!Cardinality(B)
    <2>1. Sums!Cardinality(A \cup B) =
            Sums!Cardinality(A) + Sums!Cardinality(B) - Sums!Cardinality(A \cap B)
      BY <1>3, Sums!FS_Union, Zenon
    <2>2. Sums!Cardinality(A \cap B) = 0
      BY <1>6, Sums!FS_EmptySet, Zenon
    <2> QED BY <1>4, <2>1, <2>2
  <1> QED BY <1>1, <1>4, <1>5, <1>6, Zenon

\* The inductive invariant holds of every execution of the three profiles.
THEOREM HeadInvariant ==
  Spec => []IInv
  <1>1. Init => IInv
    BY CountingHolds, HeadInit
  <1> QED BY <1>1, HeadStep, PTL DEF Spec

\* The epoch a settled query refers to shows its facts, and in V4 does not predate the
\* family's record of the observation (ordinal_exposure.go:806).
THEOREM EpochReferenceCovers ==
  Spec => []EpochCovers
  <1>1. IInv => EpochCovers
    BY Zenon DEF IInv, QueryOK, ResOK, EpochCovers, ShownAt
  <1> QED BY <1>1, HeadInvariant, PTL

\* Every attempt a query has lost is an advance of the head since its finalization
\* began (the retry loop of result.go).
THEOREM LostRacesAreProgress ==
  Spec => []LostRaceIsProgress
  <1>1. IInv => LostRaceIsProgress
    BY Zenon DEF IInv, QueryOK, TxOK, LostRaceIsProgress
  <1> QED BY <1>1, HeadInvariant, PTL
-----------------------------------------------------------------------------
(* The family's ledger *)

\* The two modules count alike.
LEMMA FamilyCounts ==
  /\ Family!NoCharge = NoCharge
  /\ \A o, shown : Family!Novelty(o, shown) = Novelty(o, shown) /\ Family!Merge(o, shown) = Merge(o, shown)
  /\ \A a, b : Family!Sum(a, b) = Sum(a, b)
  /\ \A t, a, b : Family!Fits(t, a, b) = Fits(t, a, b)
  <1>1. Family!NoCharge = NoCharge
    BY Zenon DEF Family!NoCharge, NoCharge
  <1>2. \A o, shown : Family!Novelty(o, shown) = Novelty(o, shown)
    <2>1. \A S : Family!Cardinality(S) = Cardinality(S)
      BY Zenon DEF Family!Cardinality, Cardinality
    <2> QED BY <2>1, Zenon DEF Family!Novelty, Novelty
  <1>3. \A o, shown : Family!Merge(o, shown) = Merge(o, shown)
    BY Zenon DEF Family!Merge, Merge
  <1>4. \A a, b : Family!Sum(a, b) = Sum(a, b)
    BY Zenon DEF Family!Sum, Sum
  <1>5. \A t, a, b : Family!Fits(t, a, b) = Fits(t, a, b)
    BY Zenon DEF Family!Fits, Fits
  <1> QED BY <1>1, <1>2, <1>3, <1>4, <1>5, Zenon

\* A statement of a transaction other than its commit changes neither the counters nor
\* the sets of the family; a reservation row changes as the family's ledger says.
LEMMA FamilyStep ==
  ASSUME IInv, [Next]_vars
  PROVE  [Family!FamilyNext]_Family!familyVars
  <1>0. HeadTypeOK
    BY Zenon DEF IInv
  <1> DEFINE st == [q \in Query |-> res[q].status]
             ch == [q \in Query |-> res[q].charged]
  <1>1. CASE head' = head /\ res' = res
    BY <1>1, Zenon DEF Family!familyVars
  <1>2. ASSUME NEW q \in Query, Reserve(q) \/ Release(q)
        PROVE  Family!FamilyReserve(q) \/ Family!FamilyRelease(q)
    <2>1. PICK s \in {"RESERVED", "RELEASED"} : 
            /\ res' = [res EXCEPT ![q].status = s] /\ head' = head
            /\ \/ s = "RESERVED" /\ res[q].status = "NONE"
               \/ s = "RELEASED" /\ res[q].status = "RESERVED"
      BY <1>2, Zenon DEF Reserve, Release
    <2>2. res[q] \in Reservation /\ res \in [Query -> Reservation]
      BY <1>0, Zenon DEF HeadTypeOK
    <2>3. /\ res'[q].status = s /\ res'[q].charged = res[q].charged
          /\ \A r \in Query \ {q} : res'[r] = res[r]
      BY <2>1, <2>2, Zenon DEF Reservation
    <2>4. st' = [st EXCEPT ![q] = s] /\ ch' = ch /\ st[q] = res[q].status
      BY <2>3, Zenon
    <2> QED BY <2>1, <2>4, Zenon DEF Family!FamilyReserve, Family!FamilyRelease
  <1>3. ASSUME NEW q \in Query, Commit(q)
        PROVE  \E o \in Observation : Family!FamilySettle(q, o)
    <2>1. res' = [res EXCEPT ![q] = [status |-> "SETTLED", charged |-> tx[q].delta,
                                     obs |-> tx[q].obs, epoch |-> tx[q].epoch]]
      BY <1>3, Zenon DEF Commit
    <2>2. /\ res'[q].status = "SETTLED" /\ res'[q].charged = tx[q].delta
          /\ \A r \in Query \ {q} : res'[r] = res[r]
      BY <1>0, <2>1, Zenon DEF HeadTypeOK
    <2>3. /\ st' = [st EXCEPT ![q] = "SETTLED"] /\ ch' = [ch EXCEPT ![q] = tx[q].delta]
          /\ st[q] = res[q].status
      BY <2>2, Zenon
    <2>4. PICK o \in Observation : o = tx[q].obs
      BY <1>3, CommitSettles, Zenon
    <2>5. PICK new : new = tx[q].delta
      BY Zenon
    <2>6. /\ res[q].status = "RESERVED" /\ new = Novelty(o, head.facts) /\ Fits(TaskOf[q], head.used, new)
          /\ head'.facts = Merge(o, head.facts) /\ head'.used = Sum(head.used, new)
      BY <1>3, <2>4, <2>5, CommitSettles, Zenon
    <2>7. Family!FamilySettle(q, o)
      BY <2>3, <2>5, <2>6, FamilyCounts, Zenon DEF Family!FamilySettle
    <2> QED BY <2>7, Zenon
  <1>4. CASE UNCHANGED vars
    BY <1>1, <1>4, Zenon DEF vars
  <1>5. CASE Next
    <2>1. PICK q \in Query :
            \/ Reserve(q) \/ Release(q) \/ Commit(q)
            \/ UNCHANGED <<head, res>>
      BY <1>5, Zenon DEF Next, Start, StartReplay, LockLedger, InsertNovelFacts, RefuseFacts, Refuse, Abort,
                  ReadHead, LookSeen, Derive, UpdateHead, InsertSeen, Reread
    <2> QED BY <1>1, <1>2, <1>3, <2>1, Zenon DEF Family!FamilyNext
  <1> QED BY <1>4, <1>5, Zenon

\* The row-locked ledger of V1 to V3 and the lock-free heads of V4 and V5 implement the
\* family's exposure ledger: every commit charges exactly what is new at that moment.
THEOREM HeadImplementsFamily ==
  Spec => RefinesFamily
  <1>1. Init => Family!FamilyInit
    BY FamilyCounts DEF Init, EmptyHead, NoReservation, Family!FamilyInit
  <1>2. IInv /\ [Next]_vars => [Family!FamilyNext]_Family!familyVars
    BY FamilyStep, Zenon
  <1> QED BY <1>1, <1>2, HeadInvariant, PTL DEF Spec, RefinesFamily, Family!FamilySpec

\* The sum of the queries' charges in a dimension.
Charges(d) == SumFunctionOnSet([q \in Query |-> res[q].charged[d]], Query)
ChargesOK == \A d \in Dim : head.used[d] = Charges(d)

\* The sums of the library and those of the theorems about them.
LEMMA SumsAgree ==
  /\ \A f, S : Sums!SumFunctionOnSet(f, S) = SumFunctionOnSet(f, S)
  /\ \A S : Sums!IsFiniteSet(S) = IsFiniteSet(S)
  <1>1. \A f, S : Sums!SumFunctionOnSet(f, S) = SumFunctionOnSet(f, S)
    BY Zenon DEF Sums!SumFunctionOnSet, SumFunctionOnSet, Sums!FoldFunctionOnSet, FoldFunctionOnSet,
                 Sums!MapThenFoldSet, MapThenFoldSet
  <1>2. \A S : Sums!IsFiniteSet(S) = IsFiniteSet(S)
    BY Zenon DEF Sums!IsFiniteSet, IsFiniteSet
  <1> QED BY <1>1, <1>2, Zenon

\* Every charge is a number.
LEMMA ChargesType ==
  ASSUME HeadTypeOK, NEW q \in Query, NEW d \in Dim
  PROVE  res[q].charged[d] \in Nat
  BY Zenon DEF HeadTypeOK, Reservation, Charge

\* Charges that stay add up to the same.
LEMMA ChargesStay ==
  ASSUME IInv, ChargesOK, head' = head, \A q \in Query : res'[q].charged = res[q].charged
  PROVE  ChargesOK'
  <1>1. ASSUME NEW d \in Dim PROVE Charges(d)' = Charges(d)
    BY Zenon DEF Charges
  <1> QED BY <1>1, Zenon DEF ChargesOK

\* A commit adds its charge once to the counter and once to the sum.
LEMMA ChargesAdd ==
  ASSUME IInv, ChargesOK, NEW q \in Query, Commit(q)
  PROVE  ChargesOK'
  <1>0. HeadTypeOK /\ IsFiniteSet(Query) /\ tx[q].delta \in Charge
    BY TransactionFields, ExposureAssumption, Zenon DEF IInv, HeadTypeOK, ExposureAssumption
  <1>1. /\ res'[q].charged = tx[q].delta
        /\ \A r \in Query \ {q} : res'[r] = res[r]
    BY <1>0, Zenon DEF Commit, HeadTypeOK
  <1>2. res[q].charged = NoCharge /\ head'.used = Sum(head.used, tx[q].delta)
    BY CommitSettles, Zenon DEF IInv, QueryOK, ResOK
  <1>3. ASSUME NEW d \in Dim PROVE head'.used[d] = Charges(d)'
    <2> DEFINE f == [r \in Query |-> res[r].charged[d]]
               g == [r \in Query |-> res'[r].charged[d]]
               n == tx[q].delta[d]
    <2>1. n \in Nat
      BY <1>0, Zenon DEF Charge
    <2>2. \A r \in Query : f[r] \in Nat
      BY <1>0, ChargesType, Zenon
    <2>3. f[q] = 0 /\ g[q] = n /\ \A r \in Query \ {q} : g[r] = f[r]
      BY <1>1, <1>2, Zenon DEF NoCharge
    <2>4. head'.used[d] = head.used[d] + n
      BY <1>2, Zenon DEF Sum
    <2>5. head.used[d] = SumFunctionOnSet(f, Query) /\ Charges(d)' = SumFunctionOnSet(g, Query)
      BY Zenon DEF ChargesOK, Charges
    <2> HIDE DEF f, g, n
    <2>6. \A r \in Query : g[r] = IF r = q THEN f[r] + n ELSE f[r]
      BY <2>1, <2>3, SMTT(60)
    <2>7. SumFunctionOnSet(g, Query) = SumFunctionOnSet(f, Query) + n
      BY <1>0, <2>1, <2>2, <2>6, SumsAgree, Sums!SumGrows, SMTT(60)
    <2> QED BY <2>4, <2>5, <2>7, Zenon
  <1> QED BY <1>3, Zenon DEF ChargesOK

\* The counters start at the empty sum.
LEMMA ChargesInit ==
  ASSUME Init
  PROVE  ChargesOK
  <1>1. ASSUME NEW d \in Dim PROVE head.used[d] = Charges(d)
    <2> DEFINE f == [q \in Query |-> res[q].charged[d]]
    <2>1. \A q \in Query : f[q] = 0
      BY Zenon DEF Init, NoReservation, NoCharge
    <2> HIDE DEF f
    <2>2. SumFunctionOnSet(f, Query) = 0
      BY <2>1, SumsAgree, Sums!SumZero, ExposureAssumption, SMTT(60) DEF ExposureAssumption
    <2> QED BY <2>2, EmptyTypes, Zenon DEF f, Charges, Init, NoCharge
  <1> QED BY <1>1, Zenon DEF ChargesOK

\* Every step keeps the counters and the sums together.
LEMMA ChargesStep ==
  ASSUME IInv, ChargesOK, [Next]_vars
  PROVE  ChargesOK'
  <1>1. CASE head' = head /\ res' = res
    BY <1>1, ChargesStay, Zenon
  <1>2. ASSUME NEW q \in Query, Reserve(q) \/ Release(q)
        PROVE  ChargesOK'
    <2>1. PICK s : head' = head /\ res' = [res EXCEPT ![q].status = s]
      BY <1>2, Zenon DEF Reserve, Release
    <2>2. res[q] \in Reservation /\ res \in [Query -> Reservation]
      BY Zenon DEF IInv, HeadTypeOK
    <2>3. \A r \in Query : res'[r].charged = res[r].charged
      BY <2>1, <2>2, Zenon DEF Reservation
    <2> QED BY <2>1, <2>3, ChargesStay, Zenon
  <1>3. CASE UNCHANGED vars
    BY <1>1, <1>3, Zenon DEF vars
  <1>4. CASE Next
    <2>1. PICK q \in Query : Reserve(q) \/ Release(q) \/ Commit(q) \/ UNCHANGED <<head, res>>
      BY <1>4, Zenon DEF Next, Start, StartReplay, LockLedger, InsertNovelFacts, RefuseFacts, Refuse, Abort,
                  ReadHead, LookSeen, Derive, UpdateHead, InsertSeen, Reread
    <2> QED BY <1>1, <1>2, <2>1, ChargesAdd, Zenon
  <1> QED BY <1>3, <1>4, Zenon

\* Every fact is charged to exactly one query: the counters are the numbers of facts
\* shown, within the limits, and the sums of the settled queries' charges.
THEOREM FactsAreChargedOnce ==
  Spec => []FactsChargedOnce
  <1>1. IInv /\ ChargesOK => FactsChargedOnce
    BY DEF IInv, RootOK, QueryOK, ResOK, ChargesOK, Charges, FactsChargedOnce
  <1>2. Init => IInv /\ ChargesOK
    BY CountingHolds, HeadInit, ChargesInit, SMTT(60)
  <1>3. IInv /\ ChargesOK /\ [Next]_vars => ChargesOK'
    BY ChargesStep, Zenon
  <1> QED BY <1>1, <1>2, <1>3, HeadStep, PTL DEF Spec
=============================================================================
