-------------------------- MODULE SemanticReplayProofs -----------------------
(***************************************************************************)
(* Proofs about semantic replay, for every set of queries and plans, every *)
(* size of their results and every row budget and influence ceiling.       *)
(*                                                                         *)
(* ReplayIsFaithful speaks of completed queries only and is not inductive. *)
(* It rests on what a row of the cache says of the budget: a source that   *)
(* was cut short, by a ceiling nobody shared, either used the row budget   *)
(* up, and then nobody holds a reservation any more, or has as many rows   *)
(* as the influence ceiling allows any scan.  That in turn rests on the    *)
(* ceiling read before the reservation never falling below what is left    *)
(* when the reservation is made.  OnlyLiveRowsBlock rests on the one       *)
(* reservation of the task: no row appears in the cache between a query's  *)
(* own look-up and its publication.                                        *)
(***************************************************************************)
EXTENDS SemanticReplay, TLAPS

Holding == {"lookup", "evict", "row", "object", "drop", "replay", "execute", "publish"}
Status == {"NEW", "RESERVED", "COMPLETED", "FAILED", "RELEASED"}
Work == [pc : {"idle", "reserve", "done"} \cup Holding, plan : Plan \cup {"none"}, ceiling : Int,
         shared : BOOLEAN, allowed : Nat, source : Query \cup {None},
         kept : {"NONE", "PENDING", "AVAILABLE"}, refused : BOOLEAN]

TypeOK ==
  /\ status \in [Query -> Status]
  /\ work \in [Query -> Work]
  /\ rows \in [Query -> Nat]
  /\ used \in Nat
  /\ cache \in [Plan -> Query \cup {None}]
  /\ artifact \in [Query -> {"NONE", "PENDING", "AVAILABLE", "DELETING", "DELETED"}]
  /\ granted \in BOOLEAN

OneReservation ==
  \A q, r \in Query : status[q] = "RESERVED" /\ status[r] = "RESERVED" => q = r

\* Where a request is agrees with its record, and what it carries with where it is.
PlaceOK(w, st) ==
  /\ st = "NEW" <=> w.pc \in {"idle", "reserve"}
  /\ st = "RESERVED" <=> w.pc \in Holding
  /\ st \in {"NEW", "RESERVED", "COMPLETED"} /\ w.pc # "idle" => w.plan \in Plan
  /\ w.source # None => w.pc \in {"row", "object", "drop", "replay", "done"}
  /\ w.pc \in {"row", "object", "drop", "replay"} => w.source # None /\ w.kept = "NONE"
  /\ w.pc \in {"lookup", "evict", "reserve"} => w.kept = "NONE"
  /\ w.pc # "done" => ~w.refused
  /\ w.refused => w.kept # "NONE"

\* The row ceiling of a request: never above the influence ceiling for a plain scan, and
\* unless it was shared, never below what is left of the budget or that ceiling.
CeilingOK(w, st, u) ==
  /\ w.pc = "reserve" =>
       /\ w.ceiling >= 1
       /\ w.plan \notin Expanded => w.ceiling <= InfluenceLimit
       /\ ~w.shared => \/ w.ceiling >= RowLimit - u
                       \/ w.plan \notin Expanded /\ w.ceiling = InfluenceLimit
  /\ st \in {"RESERVED", "COMPLETED"} /\ w.plan \notin Expanded => w.allowed <= InfluenceLimit
  /\ st = "RESERVED" =>
       /\ w.allowed >= 1
       /\ u + w.allowed <= RowLimit
       /\ ~w.shared => \/ w.allowed = RowLimit - u
                       \/ w.plan \notin Expanded /\ w.allowed = InfluenceLimit

\* An executed query has the rows of its plan or as many as it was allowed, and if these
\* were fewer, it used the budget up or reached the influence ceiling.
ExecutedOK(w, st, n, u) ==
  st = "COMPLETED" /\ w.source = None =>
    /\ n <= w.allowed /\ n <= Size[w.plan]
    /\ n = w.allowed \/ n = Size[w.plan]
    /\ ~w.shared /\ n < Size[w.plan] =>
         u = RowLimit \/ (w.plan \notin Expanded /\ n = InfluenceLimit)

\* A request that found nothing worth keeping in the cache has the row to itself.
RowOK(w, c) ==
  w.pc \in {"execute", "publish"} /\ w.kept = "NONE" => c[w.plan] = None

\* The source of a replay fits its reservation, and released no fewer rows than the
\* replaying query may have unless its ceiling was shared.
SourceOK(w, st, n, n0, w0) ==
  w.source # None =>
    /\ w.pc = "replay" => n0 <= w.allowed
    /\ st = "COMPLETED" =>
         /\ n = n0 /\ n <= w.allowed /\ n <= Size[w.plan]
         /\ n < w.allowed /\ n < Size[w.plan] => w0.shared

Committed(s, p) ==
  /\ s \in Query /\ status[s] = "COMPLETED" /\ work[s].plan = p /\ work[s].source = None
  /\ <<p, rows[s]>> \in root

QueryOK(q) ==
  /\ PlaceOK(work[q], status[q])
  /\ CeilingOK(work[q], status[q], used)
  /\ ExecutedOK(work[q], status[q], rows[q], used)
  /\ RowOK(work[q], cache)
  /\ SourceOK(work[q], status[q], rows[q], rows[work[q].source], work[work[q].source])
  /\ work[q].source # None => Committed(work[q].source, work[q].plan)

\* The inductive invariant.
ReplayInv ==
  /\ TypeOK
  /\ OneReservation
  /\ used <= RowLimit
  /\ \A q \in Query : QueryOK(q)
  /\ \A p \in Plan : cache[p] # None => Committed(cache[p], p)
-----------------------------------------------------------------------------
\* The smaller of two integers.
LEMMA MinIs ==
  ASSUME NEW a \in Int, NEW b \in Int
  PROVE  Min({a, b}) \in {a, b} /\ Min({a, b}) <= a /\ Min({a, b}) <= b
  <1>1. \E x \in {a, b} : \A y \in {a, b} : x <= y
    OBVIOUS
  <1>2. /\ Min({a, b}) \in {a, b}
        /\ \A y \in {a, b} : Min({a, b}) <= y
    BY <1>1, Zenon DEF Min
  <1> QED BY <1>2, Zenon

\* A committed source stays as it is while an unsettled query moves.
LEMMA CommittedStays ==
  ASSUME NEW q \in Query, status[q] # "COMPLETED", root \subseteq root',
         \A r \in Query \ {q} : work'[r] = work[r] /\ status'[r] = status[r] /\ rows'[r] = rows[r],
         NEW s, NEW p, Committed(s, p)
  PROVE  Committed(s, p)' /\ s \in Query \ {q}
  <1>1. s \in Query \ {q}
    BY Zenon DEF Committed
  <1> QED BY <1>1, Zenon DEF Committed

\* What a step of one request must keep: the others stay as they are, only the holder of
\* the reservation touches the budget and the cache, and a new row of the cache points
\* to the request itself.
LEMMA StepKeeps ==
  ASSUME ReplayInv, NEW q \in Query, TypeOK', status[q] \in {"NEW", "RESERVED"},
         \A r \in Query \ {q} : work'[r] = work[r] /\ status'[r] = status[r] /\ rows'[r] = rows[r],
         used' >= used, used' <= RowLimit, root \subseteq root',
         status[q] # "RESERVED" => used' = used /\ cache' = cache,
         status'[q] = "RESERVED" => status[q] = "RESERVED" \/ Reserved = {},
         \A p \in Plan : cache'[p] \in {cache[p], None} \/ (cache'[p] = q /\ Committed(q, p)'),
         QueryOK(q)'
  PROVE  ReplayInv'
  <1>1. OneReservation'
    BY Zenon DEF ReplayInv, OneReservation, Reserved
  <1>2. ASSUME NEW r \in Query, r # q PROVE QueryOK(r)'
    <2>1. work'[r] = work[r] /\ status'[r] = status[r] /\ rows'[r] = rows[r] /\ QueryOK(r)
      BY <1>2, Zenon DEF ReplayInv
    <2>2. work[r].source # None =>
            /\ Committed(work[r].source, work[r].plan)' /\ work[r].source \in Query \ {q}
      BY <2>1, CommittedStays, Zenon DEF QueryOK
    <2>3. work[r].source # None =>
            rows'[work[r].source] = rows[work[r].source] /\ work'[work[r].source] = work[work[r].source]
      BY <2>2, Zenon
    <2>4. status[r] = "RESERVED" => used' = used /\ cache' = cache
      BY <1>2, Zenon DEF ReplayInv, OneReservation
    <2>5. PICK w, st, n : w = work[r] /\ st = status[r] /\ n = rows[r]
      BY Zenon
    <2>6. PlaceOK(w, st) /\ CeilingOK(w, st, used) /\ ExecutedOK(w, st, n, used) /\ RowOK(w, cache)
      BY <2>1, <2>5, Zenon DEF QueryOK
    <2>7. w \in Work /\ used \in Nat /\ used' \in Nat
      BY <2>5, Zenon DEF ReplayInv, TypeOK
    <2>8. CeilingOK(w, st, used')
      BY <2>4, <2>5, <2>6, <2>7, ReplayAssumption DEF CeilingOK, Work
    <2>9. ExecutedOK(w, st, n, used')
      BY <2>6, <2>7, ReplayAssumption DEF ExecutedOK
    <2>10. RowOK(w, cache')
      BY <2>4, <2>5, <2>6, Zenon DEF RowOK, PlaceOK, Holding
    <2>11. SourceOK(w, st, n, rows'[w.source], work'[w.source])
      BY <2>1, <2>3, <2>5, Zenon DEF QueryOK, SourceOK
    <2> QED BY <2>1, <2>2, <2>5, <2>6, <2>8, <2>9, <2>10, <2>11, Zenon DEF QueryOK
  <1>3. ASSUME NEW p \in Plan, cache'[p] # None PROVE Committed(cache[p], p)'
    <2>1. CASE cache'[p] = cache[p]
      <3>1. Committed(cache[p], p)
        BY <1>3, <2>1, Zenon DEF ReplayInv
      <3>2. PICK s : s = cache[p]
        BY Zenon
      <3>3. Committed(s, p)'
        BY <3>1, <3>2, CommittedStays, Zenon
      <3> QED BY <2>1, <3>2, <3>3, Zenon DEF Committed
    <2>2. CASE cache'[p] = q /\ Committed(q, p)'
      BY <2>2, Zenon DEF Committed
    <2> QED BY <1>3, <2>1, <2>2, Zenon
  <1> QED BY <1>1, <1>2, <1>3, Zenon DEF ReplayInv
-----------------------------------------------------------------------------
(* One lemma per action of a request.                                      *)

\* What is known of the sum in Remaining.
Counted == Remaining \in Int /\ (Reserved = {} => Remaining = RowLimit - used)

\* The ceiling read by a new request.
LEMMA PrepareKeeps ==
  ASSUME ReplayInv, Counted, NEW q \in Query, NEW p \in Plan, Prepare(q, p)
  PROVE  ReplayInv'
  <1> DEFINE c == IF p \in Expanded THEN Remaining ELSE Min({Remaining, InfluenceLimit})
             w == [Fresh EXCEPT !.pc = "reserve", !.plan = p, !.shared = Reserved # {}, !.ceiling = c]
  <1>1. /\ work' = [work EXCEPT ![q] = w] /\ At(q, "idle") /\ Remaining >= 1
        /\ UNCHANGED <<status, rows, used, cache, root, results, granted>>
    BY Zenon DEF Prepare
  <1>2. /\ c \in Int /\ c >= 1
        /\ p \notin Expanded => c <= InfluenceLimit
        /\ c = Remaining \/ (p \notin Expanded /\ c = InfluenceLimit)
    <2>1. Remaining \in Int /\ InfluenceLimit \in Int /\ InfluenceLimit >= 1 /\ Remaining >= 1
      BY <1>1, ReplayAssumption DEF Counted
    <2>2. PICK m : m = Min({Remaining, InfluenceLimit})
      BY Zenon
    <2>3. m \in {Remaining, InfluenceLimit} /\ m <= Remaining /\ m <= InfluenceLimit
      BY <2>1, <2>2, MinIs, Zenon
    <2>4. c = IF p \in Expanded THEN Remaining ELSE m
      BY <2>2, Zenon
    <2> HIDE DEF c
    <2> QED BY <2>1, <2>3, <2>4, Zenon
  <1> HIDE DEF c
  <1>3. /\ w.pc = "reserve" /\ w.plan = p /\ w.ceiling = c /\ (~w.shared => Reserved = {})
        /\ w.source = None /\ w.kept = "NONE" /\ w.refused = FALSE /\ w \in Work
    <2>1. PICK b \in BOOLEAN : b = (Reserved # {})
      BY Zenon
    <2>2. w = [pc |-> "reserve", plan |-> p, ceiling |-> c, shared |-> b, allowed |-> 0,
               source |-> None, kept |-> "NONE", refused |-> FALSE]
      <3>1. w = [Fresh EXCEPT !.pc = "reserve", !.plan = p, !.shared = b, !.ceiling = c]
        BY <2>1, Zenon
      <3> HIDE DEF w
      <3> QED BY <3>1, Zenon DEF Fresh
    <2> HIDE DEF w
    <2> QED BY <1>2, <2>1, <2>2, Zenon DEF Work, Holding
  <1> HIDE DEF w
  <1>4. TypeOK /\ QueryOK(q) /\ used <= RowLimit
    BY Zenon DEF ReplayInv
  <1>5. TypeOK' /\ work'[q] = w /\ status[q] = "NEW"
    BY <1>1, <1>3, <1>4, Zenon DEF TypeOK, results, QueryOK, PlaceOK, At
  <1>6. PlaceOK(w, "NEW") /\ RowOK(w, cache)
    BY <1>3, Zenon DEF PlaceOK, RowOK, Holding
  <1>7. CeilingOK(w, "NEW", used)
    BY <1>2, <1>3, <1>4, ReplayAssumption DEF CeilingOK, Counted, TypeOK
  <1>8. QueryOK(q)'
    BY <1>1, <1>3, <1>5, <1>6, <1>7, Zenon DEF QueryOK, ExecutedOK, SourceOK
  <1>9. used' >= used /\ used' <= RowLimit
    BY <1>1, <1>4, ReplayAssumption DEF TypeOK
  <1>10. \A r \in Query \ {q} : work'[r] = work[r] /\ status'[r] = status[r] /\ rows'[r] = rows[r]
    BY <1>1, <1>4, Zenon DEF TypeOK
  <1> QED BY <1>1, <1>5, <1>8, <1>9, <1>10, StepKeeps, Zenon

\* The reservation: what is allowed is what the ceiling and the budget leave.
LEMMA ReserveKeeps ==
  ASSUME ReplayInv, Counted, NEW q \in Query, Reserve(q)
  PROVE  ReplayInv'
  <1> DEFINE m == Min({work[q].ceiling, Remaining})
  <1>1. /\ At(q, "reserve") /\ used < RowLimit /\ Reserved = {}
        /\ status' = [status EXCEPT ![q] = "RESERVED"]
        /\ work' = [work EXCEPT ![q].pc = "lookup", ![q].ceiling = 0, ![q].allowed = m]
        /\ UNCHANGED <<rows, used, cache, root, results, granted>>
    BY Zenon DEF Reserve, Active
  <1>2. TypeOK /\ QueryOK(q) /\ work[q] \in Work /\ used \in Nat
    BY Zenon DEF ReplayInv, TypeOK
  <1>3. m \in {work[q].ceiling, RowLimit - used} /\ m <= work[q].ceiling /\ m <= RowLimit - used
    <2>1. Remaining = RowLimit - used /\ Remaining \in Int /\ work[q].ceiling \in Int
      BY <1>1, <1>2, Zenon DEF Counted, Work
    <2> QED BY <2>1, MinIs, Zenon
  <1> HIDE DEF m
  <1>4. PICK w : w = work'[q]
    BY Zenon
  <1>5. /\ w.pc = "lookup" /\ w.plan = work[q].plan /\ w.allowed = m /\ w.shared = work[q].shared
        /\ w.source = work[q].source /\ w.kept = work[q].kept /\ w.refused = work[q].refused
    <2>1. PICK v : v = work[q] /\ v \in Work
      BY <1>2, Zenon
    <2>2. w = [v EXCEPT !.pc = "lookup", !.ceiling = 0, !.allowed = m]
      BY <1>1, <1>2, <1>4, <2>1, Zenon DEF TypeOK
    <2> QED BY <2>1, <2>2, Zenon DEF Work
  <1>6. PlaceOK(work[q], status[q]) /\ CeilingOK(work[q], status[q], used) /\ work[q].pc = "reserve"
    BY <1>1, <1>2, Zenon DEF QueryOK, At
  <1>7. m \in Nat /\ m >= 1
    BY <1>1, <1>2, <1>3, <1>6, ReplayAssumption DEF CeilingOK, Work
  <1>8. w \in Work
    <2>1. PICK v : v = work[q] /\ v \in Work
      BY <1>2, Zenon
    <2>2. w = [v EXCEPT !.pc = "lookup", !.ceiling = 0, !.allowed = m]
      BY <1>1, <1>2, <1>4, <2>1, Zenon DEF TypeOK
    <2>3. w = [pc |-> "lookup", plan |-> v.plan, ceiling |-> 0, shared |-> v.shared, allowed |-> m,
               source |-> v.source, kept |-> v.kept, refused |-> v.refused]
      BY <2>1, <2>2, Zenon DEF Work
    <2> QED BY <1>7, <2>1, <2>3 DEF Work, Holding
  <1>9. TypeOK' /\ status[q] = "NEW" /\ status'[q] = "RESERVED"
    BY <1>1, <1>2, <1>4, <1>6, <1>8, Zenon DEF TypeOK, results, PlaceOK, Status
  <1>10. PlaceOK(w, "RESERVED") /\ RowOK(w, cache) /\ w.source = None
    BY <1>5, <1>6, <1>9, Zenon DEF PlaceOK, RowOK, Holding
  <1>11. CeilingOK(w, "RESERVED", used)
    BY <1>2, <1>3, <1>5, <1>6, <1>7, ReplayAssumption DEF CeilingOK, Work
  <1>12. QueryOK(q)'
    BY <1>1, <1>4, <1>9, <1>10, <1>11, Zenon DEF QueryOK, ExecutedOK, SourceOK
  <1>13. used' >= used /\ used' <= RowLimit
    BY <1>1, <1>2, ReplayAssumption
  <1>14. \A r \in Query \ {q} : work'[r] = work[r] /\ status'[r] = status[r] /\ rows'[r] = rows[r]
    BY <1>1, <1>2, Zenon DEF TypeOK
  <1> QED BY <1>1, <1>9, <1>12, <1>13, <1>14, StepKeeps, Zenon

\* A request that gives up before its reservation.
LEMMA ReserveRefusedKeeps ==
  ASSUME ReplayInv, NEW q \in Query, ReserveRefused(q)
  PROVE  ReplayInv'
  <1>1. /\ At(q, "reserve") /\ work' = [work EXCEPT ![q] = Fresh]
        /\ UNCHANGED <<status, rows, used, cache, root, results, granted>>
    BY Zenon DEF ReserveRefused
  <1>2. TypeOK /\ QueryOK(q) /\ used <= RowLimit /\ Fresh \in Work
    BY DEF ReplayInv, Fresh, Work
  <1>3. TypeOK' /\ work'[q] = Fresh /\ status[q] = "NEW"
    BY <1>1, <1>2, Zenon DEF TypeOK, results, QueryOK, PlaceOK, At
  <1>4. /\ PlaceOK(Fresh, "NEW") /\ RowOK(Fresh, cache) /\ CeilingOK(Fresh, "NEW", used)
        /\ Fresh.source = None
    BY Zenon DEF Fresh, PlaceOK, RowOK, CeilingOK, Holding
  <1>5. QueryOK(q)'
    BY <1>1, <1>3, <1>4, Zenon DEF QueryOK, ExecutedOK, SourceOK
  <1>6. used' >= used /\ used' <= RowLimit
    BY <1>1, <1>2, ReplayAssumption DEF TypeOK
  <1>7. \A r \in Query \ {q} : work'[r] = work[r] /\ status'[r] = status[r] /\ rows'[r] = rows[r]
    BY <1>1, <1>2, Zenon DEF TypeOK
  <1> QED BY <1>1, <1>3, <1>5, <1>6, <1>7, StepKeeps, Zenon

\* Steps of the holder of the reservation that settle nothing: they move its request on
\* and at most remove a row of the cache.
LEMMA HolderMoves ==
  ASSUME ReplayInv, NEW q \in Query, status[q] = "RESERVED",
         NEW w \in Work, work' = [work EXCEPT ![q] = w],
         w.plan = work[q].plan, w.allowed = work[q].allowed, w.shared = work[q].shared,
         UNCHANGED <<status, rows, used, root, results, granted>>,
         cache' \in [Plan -> Query \cup {None}], \A p \in Plan : cache'[p] \in {cache[p], None},
         w.pc \in Holding, PlaceOK(w, "RESERVED"), RowOK(w, cache'),
         w.source # None => /\ Committed(w.source, w.plan)
                            /\ w.pc = "replay" => rows[w.source] <= w.allowed
  PROVE  ReplayInv'
  <1>1. TypeOK /\ QueryOK(q) /\ used <= RowLimit
    BY Zenon DEF ReplayInv
  <1>2. TypeOK' /\ work'[q] = w
    BY <1>1, Zenon DEF TypeOK, results
  <1>3. \A r \in Query \ {q} : work'[r] = work[r] /\ status'[r] = status[r] /\ rows'[r] = rows[r]
    BY <1>1, Zenon DEF TypeOK
  <1>4. w.source # None => Committed(w.source, w.plan)'
    BY <1>3, CommittedStays, Zenon
  <1>5. CeilingOK(w, "RESERVED", used)
    BY <1>1, Zenon DEF QueryOK, CeilingOK, Holding
  <1>6. SourceOK(w, "RESERVED", rows[q], rows[w.source], work'[w.source])
    BY Zenon DEF SourceOK
  <1>7. QueryOK(q)'
    BY <1>2, <1>4, <1>5, <1>6, Zenon DEF QueryOK, ExecutedOK
  <1>8. used' >= used /\ used' <= RowLimit
    BY <1>1, ReplayAssumption DEF TypeOK
  <1> QED BY <1>2, <1>3, <1>7, <1>8, StepKeeps, Zenon

\* Settlements without a result charge no more than the reservation.
LEMMA SettledWithout ==
  ASSUME ReplayInv, NEW q \in Query, status[q] = "RESERVED",
         NEW w \in Work, work' = [work EXCEPT ![q] = w], w.pc = "done", w.source = None,
         w.refused => w.kept # "NONE",
         NEW st \in {"FAILED", "RELEASED"}, status' = [status EXCEPT ![q] = st],
         NEW n \in Nat, n <= work[q].allowed, used' = used + n,
         UNCHANGED <<rows, cache, root, results, granted>>
  PROVE  ReplayInv'
  <1>1. TypeOK /\ QueryOK(q) /\ work[q] \in Work /\ used \in Nat
    BY Zenon DEF ReplayInv, TypeOK
  <1>2. TypeOK' /\ work'[q] = w /\ status'[q] = st
    BY <1>1 DEF TypeOK, results, Status
  <1>3. \A r \in Query \ {q} : work'[r] = work[r] /\ status'[r] = status[r] /\ rows'[r] = rows[r]
    BY <1>1, Zenon DEF TypeOK
  <1>4. PlaceOK(w, st) /\ RowOK(w, cache) /\ CeilingOK(w, st, used')
    BY Zenon DEF PlaceOK, RowOK, CeilingOK, Holding
  <1>5. QueryOK(q)'
    BY <1>2, <1>4, Zenon DEF QueryOK, ExecutedOK, SourceOK
  <1>6. used' >= used /\ used' <= RowLimit
    BY <1>1, ReplayAssumption DEF QueryOK, CeilingOK, Work
  <1> QED BY <1>2, <1>3, <1>5, <1>6, StepKeeps, Zenon
-----------------------------------------------------------------------------
\* A step that changes where a request is, its source and what it kept.
MovesTo(q, w, pc, s, k) ==
  /\ work' = [work EXCEPT ![q] = w]
  /\ w.pc = pc /\ w.source = s /\ w.kept = k
  /\ w.plan = work[q].plan /\ w.allowed = work[q].allowed /\ w.shared = work[q].shared
  /\ w.refused = work[q].refused

\* The record after such a step.
LEMMA WorkAfter ==
  ASSUME TypeOK, NEW q \in Query, NEW pc \in Holding, NEW s \in Query \cup {None},
         NEW k \in {"NONE", "PENDING", "AVAILABLE"},
         \/ work' = [work EXCEPT ![q].pc = pc] /\ s = work[q].source /\ k = work[q].kept
         \/ work' = [work EXCEPT ![q].pc = pc, ![q].source = s] /\ k = work[q].kept
         \/ work' = [work EXCEPT ![q].pc = pc, ![q].kept = k] /\ s = work[q].source
  PROVE  \E w \in Work : MovesTo(q, w, pc, s, k)
  <1>1. PICK v : v = work[q] /\ v \in Work
    BY Zenon DEF TypeOK
  <1>2. PICK w : w = [pc |-> pc, plan |-> v.plan, ceiling |-> v.ceiling, shared |-> v.shared,
                      allowed |-> v.allowed, source |-> s, kept |-> k, refused |-> v.refused]
    BY Zenon
  <1>3. /\ s = v.source /\ k = v.kept => [v EXCEPT !.pc = pc] = w
        /\ k = v.kept => [v EXCEPT !.pc = pc, !.source = s] = w
        /\ s = v.source => [v EXCEPT !.pc = pc, !.kept = k] = w
    <2>1. PICK a : a = [v EXCEPT !.pc = pc]
      BY Zenon
    <2>2. PICK b : b = [v EXCEPT !.pc = pc, !.source = s]
      BY Zenon
    <2>3. PICK c : c = [v EXCEPT !.pc = pc, !.kept = k]
      BY Zenon
    <2>4. s = v.source /\ k = v.kept => a = w
      BY <1>1, <1>2, <2>1 DEF Work
    <2>5. k = v.kept => b = w
      <3>1. b = [pc |-> pc, plan |-> v.plan, ceiling |-> v.ceiling, shared |-> v.shared,
                 allowed |-> v.allowed, source |-> s, kept |-> v.kept, refused |-> v.refused]
        BY <1>1, <2>2, Zenon DEF Work
      <3> QED BY <1>2, <3>1, Zenon
    <2>6. s = v.source => c = w
      <3>1. c = [pc |-> pc, plan |-> v.plan, ceiling |-> v.ceiling, shared |-> v.shared,
                 allowed |-> v.allowed, source |-> v.source, kept |-> k, refused |-> v.refused]
        BY <1>1, <2>3, Zenon DEF Work
      <3> QED BY <1>2, <3>1, Zenon
    <2> QED BY <2>1, <2>2, <2>3, <2>4, <2>5, <2>6, Zenon
  <1>4. work' = [work EXCEPT ![q] = w]
    BY <1>1, <1>3, Zenon DEF TypeOK
  <1>5. w \in Work
    BY <1>1, <1>2, Zenon DEF Work
  <1>6. MovesTo(q, w, pc, s, k)
    BY <1>1, <1>2, <1>4, Zenon DEF MovesTo
  <1> QED BY <1>5, <1>6, Zenon

\* What the holder of a reservation knows of itself.
LEMMA HolderFacts ==
  ASSUME ReplayInv, NEW q \in Query, work[q].pc \in Holding
  PROVE  /\ TypeOK /\ status[q] = "RESERVED" /\ work[q] \in Work /\ PlanOf(q) \in Plan
         /\ PlaceOK(work[q], "RESERVED") /\ RowOK(work[q], cache) /\ QueryOK(q)
         /\ ~work[q].refused
  BY Zenon DEF ReplayInv, QueryOK, PlaceOK, TypeOK, PlanOf, Holding

\* The look-up takes the source the cache has committed.
LEMMA LookupKeeps ==
  ASSUME ReplayInv, NEW q \in Query, LookupOrdinalMaterialization(q)
  PROVE  ReplayInv'
  <1>1. work[q].pc = "lookup" /\ work[q].pc \in Holding
    BY Zenon DEF LookupOrdinalMaterialization, At, Holding
  <1>2. UNCHANGED <<status, rows, used, cache, root, results, granted>>
    BY Zenon DEF LookupOrdinalMaterialization
  <1>3. /\ TypeOK /\ status[q] = "RESERVED" /\ work[q] \in Work /\ PlanOf(q) \in Plan
        /\ ~work[q].refused /\ PlaceOK(work[q], "RESERVED")
    BY <1>1, HolderFacts, Zenon
  <1>4. /\ cache' \in [Plan -> Query \cup {None}] /\ \A p \in Plan : cache'[p] \in {cache[p], None}
        /\ work[q].kept = "NONE" /\ work[q].source = None
    BY <1>1, <1>2, <1>3, Zenon DEF TypeOK, PlaceOK
  <1>5. CASE Replayable(PlanOf(q))
    <2>1. PICK s : s = cache[PlanOf(q)]
      BY Zenon
    <2>2. s \in Query /\ s # None /\ Committed(s, PlanOf(q))
      BY <1>3, <1>5, <2>1, Zenon DEF Replayable, ReplayInv, TypeOK
    <2>3. work' = [work EXCEPT ![q].pc = "row", ![q].source = s]
      BY <1>5, <2>1, Zenon DEF LookupOrdinalMaterialization
    <2>4. PICK w \in Work : MovesTo(q, w, "row", s, "NONE")
      BY <1>3, <1>4, <2>2, <2>3, WorkAfter, Zenon DEF Holding
    <2>5. PlaceOK(w, "RESERVED") /\ RowOK(w, cache') /\ w.pc \in Holding
      BY <1>3, <2>2, <2>4, Zenon DEF MovesTo, PlaceOK, RowOK, Holding, PlanOf
    <2>6. Committed(w.source, w.plan)
      BY <2>2, <2>4, Zenon DEF MovesTo, PlanOf
    <2> QED BY <1>2, <1>3, <1>4, <2>4, <2>5, <2>6, HolderMoves, Zenon DEF MovesTo
  <1>6. CASE ~Replayable(PlanOf(q))
    <2>3. work' = [work EXCEPT ![q].pc = "evict"]
      BY <1>6, Zenon DEF LookupOrdinalMaterialization, Goto
    <2>4. PICK w \in Work : MovesTo(q, w, "evict", None, "NONE")
      BY <1>3, <1>4, <2>3, WorkAfter, Zenon DEF Holding
    <2>5. PlaceOK(w, "RESERVED") /\ RowOK(w, cache') /\ w.pc \in Holding
      BY <1>3, <2>4, Zenon DEF MovesTo, PlaceOK, RowOK, Holding, PlanOf
    <2> QED BY <1>2, <1>3, <1>4, <2>4, <2>5, HolderMoves, Zenon DEF MovesTo
  <1> QED BY <1>5, <1>6, Zenon

\* The eviction leaves a row only if it was worth keeping, and remembers it.
LEMMA EvictKeeps ==
  ASSUME ReplayInv, NEW q \in Query, DeleteUnusable(q)
  PROVE  ReplayInv'
  <1>1. work[q].pc = "evict" /\ work[q].pc \in Holding
    BY Zenon DEF DeleteUnusable, At, Holding
  <1>2. UNCHANGED <<status, rows, used, root, results, granted>>
    BY Zenon DEF DeleteUnusable
  <1>3. /\ TypeOK /\ status[q] = "RESERVED" /\ work[q] \in Work /\ PlanOf(q) \in Plan
        /\ ~work[q].refused /\ PlaceOK(work[q], "RESERVED")
    BY <1>1, HolderFacts, Zenon
  <1>4. work[q].source = None
    BY <1>1, <1>3, Zenon DEF PlaceOK
  <1>5. PICK p \in Plan : p = PlanOf(q)
    BY <1>3, Zenon
  <1>6. PICK k : k = IF Keeps(p) THEN artifact[cache[p]] ELSE "NONE"
    BY Zenon
  <1>7. k \in {"NONE", "PENDING", "AVAILABLE"} /\ (k = "NONE" => ~Keeps(p))
    BY <1>6, Zenon DEF Keeps
  <1>8. cache' = [cache EXCEPT ![p] = IF Keeps(p) THEN cache[p] ELSE None]
    BY <1>5, Zenon DEF DeleteUnusable
  <1>9. /\ cache' \in [Plan -> Query \cup {None}] /\ \A o \in Plan : cache'[o] \in {cache[o], None}
        /\ ~Keeps(p) => cache'[p] = None
    BY <1>3, <1>8, Zenon DEF TypeOK
  <1>10. work' = [work EXCEPT ![q].pc = "execute", ![q].kept = k]
    BY <1>5, <1>6, Zenon DEF DeleteUnusable
  <1>11. PICK w \in Work : MovesTo(q, w, "execute", None, k)
    BY <1>3, <1>4, <1>7, <1>10, WorkAfter, Zenon DEF Holding
  <1>12. PlaceOK(w, "RESERVED") /\ w.pc \in Holding
    BY <1>3, <1>11, Zenon DEF MovesTo, PlaceOK, Holding, PlanOf
  <1>13. RowOK(w, cache')
    BY <1>5, <1>7, <1>9, <1>11, Zenon DEF MovesTo, RowOK, PlanOf
  <1> QED BY <1>2, <1>3, <1>9, <1>11, <1>12, <1>13, HolderMoves, Zenon DEF MovesTo

\* Reading the source: the row, and then the object, whose rows must fit.
LEMMA ReadKeeps ==
  ASSUME ReplayInv, NEW q \in Query, ReadRow(q) \/ ReadObject(q)
  PROVE  ReplayInv'
  <1>1. /\ work[q].pc \in {"row", "object"} /\ work[q].pc \in Holding
        /\ UNCHANGED <<status, rows, used, cache, root, results, granted>>
    BY Zenon DEF ReadRow, ReadObject, At, Holding
  <1>2. /\ TypeOK /\ status[q] = "RESERVED" /\ work[q] \in Work /\ PlanOf(q) \in Plan
        /\ ~work[q].refused /\ PlaceOK(work[q], "RESERVED") /\ QueryOK(q)
    BY <1>1, HolderFacts, Zenon
  <1>3. /\ cache' \in [Plan -> Query \cup {None}] /\ \A p \in Plan : cache'[p] \in {cache[p], None}
        /\ work[q].kept = "NONE" /\ work[q].source # None /\ work[q].source \in Query
        /\ Committed(work[q].source, work[q].plan)
    BY <1>1, <1>2, Zenon DEF TypeOK, PlaceOK, QueryOK, Work
  <1>4. PICK pc \in {"object", "replay", "drop"} :
          /\ work' = [work EXCEPT ![q].pc = pc]
          /\ pc = "replay" => rows[work[q].source] <= work[q].allowed
    <2>1. CASE ReadRow(q)
      BY <2>1, Zenon DEF ReadRow, Goto
    <2>2. CASE ReadObject(q)
      BY <2>2, Zenon DEF ReadObject, Goto
    <2> QED BY <2>1, <2>2, Zenon
  <1>6. PICK w \in Work : MovesTo(q, w, pc, work[q].source, "NONE")
    BY <1>2, <1>3, <1>4, WorkAfter, Zenon DEF Holding
  <1>7. PlaceOK(w, "RESERVED") /\ RowOK(w, cache') /\ w.pc \in Holding
    BY <1>2, <1>3, <1>6, Zenon DEF MovesTo, PlaceOK, RowOK, Holding, PlanOf
  <1> QED BY <1>1, <1>2, <1>3, <1>4, <1>6, <1>7, HolderMoves, Zenon DEF MovesTo

\* Dropping the row of a source that could not be read, and starting the execution.
LEMMA DropKeeps ==
  ASSUME ReplayInv, NEW q \in Query, DeleteOrdinalMaterialization(q)
  PROVE  ReplayInv'
  <1>1. work[q].pc = "drop" /\ work[q].pc \in Holding
    BY Zenon DEF DeleteOrdinalMaterialization, At, Holding
  <1>2. UNCHANGED <<status, rows, used, root, results, granted>>
    BY Zenon DEF DeleteOrdinalMaterialization
  <1>3. /\ TypeOK /\ status[q] = "RESERVED" /\ work[q] \in Work /\ PlanOf(q) \in Plan
        /\ ~work[q].refused /\ PlaceOK(work[q], "RESERVED")
    BY <1>1, HolderFacts, Zenon
  <1>4. /\ cache' \in [Plan -> Query \cup {None}] /\ \A p \in Plan : cache'[p] \in {cache[p], None}
        /\ cache'[PlanOf(q)] = None /\ work[q].kept = "NONE"
    BY <1>1, <1>3, Zenon DEF TypeOK, PlaceOK, DeleteOrdinalMaterialization
  <1>5. work' = [work EXCEPT ![q].pc = "execute", ![q].source = None]
    BY Zenon DEF DeleteOrdinalMaterialization
  <1>6. PICK w \in Work : MovesTo(q, w, "execute", None, "NONE")
    BY <1>3, <1>4, <1>5, WorkAfter, Zenon DEF Holding
  <1>7. PlaceOK(w, "RESERVED") /\ RowOK(w, cache') /\ w.pc \in Holding
    BY <1>3, <1>4, <1>6, Zenon DEF MovesTo, PlaceOK, RowOK, Holding, PlanOf
  <1> QED BY <1>2, <1>3, <1>4, <1>6, <1>7, HolderMoves, Zenon DEF MovesTo

\* The connector has answered.
LEMMA ExecuteKeeps ==
  ASSUME ReplayInv, NEW q \in Query, Execute(q)
  PROVE  ReplayInv'
  <1>1. /\ work[q].pc = "execute" /\ work[q].pc \in Holding
        /\ work' = [work EXCEPT ![q].pc = "publish"]
        /\ UNCHANGED <<status, rows, used, cache, root, results, granted>>
    BY Zenon DEF Execute, At, Goto, Holding
  <1>2. /\ TypeOK /\ status[q] = "RESERVED" /\ work[q] \in Work /\ PlanOf(q) \in Plan
        /\ ~work[q].refused /\ PlaceOK(work[q], "RESERVED") /\ RowOK(work[q], cache)
    BY <1>1, HolderFacts, Zenon
  <1>3. /\ cache' \in [Plan -> Query \cup {None}] /\ \A p \in Plan : cache'[p] \in {cache[p], None}
        /\ work[q].source = None /\ work[q].kept \in {"NONE", "PENDING", "AVAILABLE"}
    BY <1>1, <1>2, Zenon DEF TypeOK, PlaceOK, Work
  <1>4. PICK k \in {"NONE", "PENDING", "AVAILABLE"} : k = work[q].kept
    BY <1>3, Zenon
  <1>5. PICK w \in Work : MovesTo(q, w, "publish", None, k)
    BY <1>1, <1>2, <1>3, <1>4, WorkAfter, Zenon DEF Holding
  <1>6. PlaceOK(w, "RESERVED") /\ RowOK(w, cache') /\ w.pc \in Holding
    BY <1>1, <1>2, <1>3, <1>4, <1>5, Zenon DEF MovesTo, PlaceOK, RowOK, Holding, PlanOf
  <1> QED BY <1>1, <1>2, <1>3, <1>5, <1>6, HolderMoves, Zenon DEF MovesTo

\* What is left of a request that ended without a result.
LEMMA ForgottenIs ==
  Forgotten = [pc |-> "done", plan |-> "none", ceiling |-> 0, shared |-> FALSE, allowed |-> 0,
               source |-> None, kept |-> "NONE", refused |-> FALSE]
  <1>1. PICK f : f = Forgotten
    BY Zenon
  <1>2. f = [Fresh EXCEPT !.pc = "done"]
    BY <1>1, Zenon DEF Forgotten
  <1> QED BY <1>1, <1>2, Zenon DEF Fresh

\* A request that ends without a result, whatever it is charged.
LEMMA ForgottenKeeps ==
  ASSUME ReplayInv, NEW q \in Query, work[q].pc \in Holding,
         Release(q) \/ \E n \in Nat : n <= work[q].allowed /\ Failed(q, n, Forgotten)
  PROVE  ReplayInv'
  <1>1. Forgotten \in Work /\ Forgotten.pc = "done" /\ Forgotten.source = None /\ ~Forgotten.refused
    BY ForgottenIs DEF Work
  <1>2. status[q] = "RESERVED" /\ work[q].allowed \in Nat /\ used \in Nat
    BY HolderFacts, Zenon DEF Work, TypeOK
  <1>3. CASE Release(q)
    <2>1. /\ 0 \in Nat /\ 0 <= work[q].allowed /\ used' = used + 0
          /\ UNCHANGED <<rows, cache, root, results, granted>>
          /\ status' = [status EXCEPT ![q] = "RELEASED"] /\ work' = [work EXCEPT ![q] = Forgotten]
      BY <1>2, <1>3 DEF Release
    <2> QED BY <1>1, <1>2, <2>1, SettledWithout, Zenon
  <1>4. ASSUME NEW n \in Nat, n <= work[q].allowed, Failed(q, n, Forgotten) PROVE ReplayInv'
    <2>1. /\ used' = used + n /\ UNCHANGED <<rows, cache, root, results, granted>>
          /\ status' = [status EXCEPT ![q] = "FAILED"] /\ work' = [work EXCEPT ![q] = Forgotten]
      BY <1>4, Zenon DEF Failed
    <2> QED BY <1>1, <1>2, <1>4, <2>1, SettledWithout, Zenon
  <1> QED BY <1>3, <1>4, Zenon

\* The rows an execution yields.
LEMMA YieldIs ==
  ASSUME NEW q, work[q].plan \in Plan, work[q].allowed \in Nat
  PROVE  /\ Yield(q) \in Nat /\ Yield(q) <= work[q].allowed /\ Yield(q) <= Size[work[q].plan]
         /\ Yield(q) = work[q].allowed \/ Yield(q) = Size[work[q].plan]
  <1>1. Size[work[q].plan] \in Nat /\ Size[work[q].plan] \in Int /\ work[q].allowed \in Int
    BY ReplayAssumption
  <1>2. Yield(q) = Min({Size[work[q].plan], work[q].allowed})
    BY Zenon DEF Yield, PlanOf
  <1>3. /\ Yield(q) \in {Size[work[q].plan], work[q].allowed}
        /\ Yield(q) <= Size[work[q].plan] /\ Yield(q) <= work[q].allowed
    BY <1>1, <1>2, MinIs, Zenon
  <1> QED BY <1>1, <1>3, Zenon

\* A refused publication remembers what the request kept, unless the grant had ended.
LEMMA RefusedKeeps ==
  ASSUME ReplayInv, NEW q \in Query, FinalizeRefused(q)
  PROVE  ReplayInv'
  <1>1. /\ work[q].pc = "publish" /\ work[q].pc \in Holding /\ (Blocked(q) \/ ~granted)
        /\ Failed(q, Yield(q), [Forgotten EXCEPT !.kept = work[q].kept, !.refused = granted])
    BY Zenon DEF FinalizeRefused, At, Holding
  <1>2. /\ TypeOK /\ status[q] = "RESERVED" /\ work[q] \in Work /\ PlanOf(q) \in Plan
        /\ RowOK(work[q], cache)
    BY <1>1, HolderFacts, Zenon
  <1>3. PICK n \in Nat : n = Yield(q) /\ n <= work[q].allowed
    BY <1>2, YieldIs, Zenon DEF Work, PlanOf
  <1>4. PICK w : w = [Forgotten EXCEPT !.kept = work[q].kept, !.refused = granted]
    BY Zenon
  <1>5. w = [pc |-> "done", plan |-> "none", ceiling |-> 0, shared |-> FALSE, allowed |-> 0,
             source |-> None, kept |-> work[q].kept, refused |-> granted]
    BY <1>4, ForgottenIs, Zenon
  <1>6. w \in Work /\ w.pc = "done" /\ w.source = None /\ w.kept = work[q].kept
    BY <1>2, <1>5 DEF Work, TypeOK
  <1>7. w.refused => w.kept # "NONE"
    <2>1. w.refused => granted
      BY <1>5, Zenon
    <2>2. granted => cache[work[q].plan] # None
      BY <1>1, Zenon DEF Blocked, PlanOf
    <2> QED BY <1>1, <1>2, <1>6, <2>1, <2>2, Zenon DEF RowOK
  <1>8. /\ status' = [status EXCEPT ![q] = "FAILED"] /\ used' = used + n
        /\ work' = [work EXCEPT ![q] = w] /\ UNCHANGED <<rows, cache, root, results, granted>>
    BY <1>1, <1>3, <1>4, Zenon DEF Failed
  <1> QED BY <1>2, <1>3, <1>6, <1>7, <1>8, SettledWithout, Zenon

\* The settlements that forget the request.
LEMMA SettlementsKeep ==
  ASSUME ReplayInv, NEW q \in Query,
         \/ ReplayAborts(q) \/ ReplayFails(q) \/ ExecuteReleases(q) \/ ExecuteFails(q)
         \/ FinalizeFails(q)
  PROVE  ReplayInv'
  <1>1. work[q].pc \in Holding
    BY Zenon DEF ReplayAborts, ReplayFails, ExecuteReleases, ExecuteFails, FinalizeFails, At, Holding
  <1>2. /\ TypeOK /\ work[q] \in Work /\ PlanOf(q) \in Plan /\ QueryOK(q)
        /\ PlaceOK(work[q], "RESERVED")
    BY <1>1, HolderFacts, Zenon
  <1>3. CASE ReplayAborts(q) \/ ExecuteReleases(q)
    BY <1>1, <1>3, ForgottenKeeps, Zenon DEF ReplayAborts, ExecuteReleases
  <1>4. CASE ReplayFails(q)
    <2>1. work[q].source \in Query /\ rows[work[q].source] <= work[q].allowed
      BY <1>2, <1>4, Zenon DEF ReplayFails, At, PlaceOK, QueryOK, SourceOK, Work
    <2>2. rows[work[q].source] \in Nat
      BY <1>2, <2>1, Zenon DEF TypeOK
    <2> QED BY <1>1, <1>4, <2>1, <2>2, ForgottenKeeps, Zenon DEF ReplayFails
  <1>5. CASE ExecuteFails(q)
    <2>1. work[q].allowed \in Nat /\ work[q].allowed <= work[q].allowed
      BY <1>2 DEF Work
    <2> QED BY <1>1, <1>5, <2>1, ForgottenKeeps, Zenon DEF ExecuteFails
  <1>6. CASE FinalizeFails(q)
    <2>1. Yield(q) \in Nat /\ Yield(q) <= work[q].allowed
      BY <1>2, YieldIs, Zenon DEF Work, PlanOf
    <2> QED BY <1>1, <1>6, <2>1, ForgottenKeeps, Zenon DEF FinalizeFails
  <1> QED BY <1>3, <1>4, <1>5, <1>6, Zenon
-----------------------------------------------------------------------------
\* Settlements with a result.
LEMMA CompleteIs ==
  ASSUME TypeOK, NEW q \in Query, NEW n \in Nat, Complete(q, n)
  PROVE  \E w \in Work :
           /\ work' = [work EXCEPT ![q] = w]
           /\ w.pc = "done" /\ w.kept = "NONE" /\ w.source = work[q].source
           /\ w.plan = work[q].plan /\ w.allowed = work[q].allowed /\ w.shared = work[q].shared
           /\ w.refused = work[q].refused
  <1>1. PICK v : v = work[q] /\ v \in Work
    BY Zenon DEF TypeOK
  <1>2. PICK w : w = [v EXCEPT !.pc = "done", !.kept = "NONE"]
    BY Zenon
  <1>3. w = [pc |-> "done", plan |-> v.plan, ceiling |-> v.ceiling, shared |-> v.shared,
             allowed |-> v.allowed, source |-> v.source, kept |-> "NONE", refused |-> v.refused]
    BY <1>1, <1>2, Zenon DEF Work
  <1>4. work' = [work EXCEPT ![q] = w]
    BY <1>1, <1>2, Zenon DEF Complete, TypeOK
  <1>5. w \in Work
    BY <1>1, <1>3, Zenon DEF Work
  <1> QED BY <1>1, <1>3, <1>4, <1>5, Zenon

\* What a completed query leaves, once its rows are known to fit: the last three
\* assumptions are what executing and replaying show in their own ways.
LEMMA CompleteKeeps ==
  ASSUME ReplayInv, NEW q \in Query, work[q].pc \in {"replay", "publish"},
         NEW n \in Nat, Complete(q, n), n <= work[q].allowed,
         NEW w \in Work, work' = [work EXCEPT ![q] = w], w.pc = "done", w.kept = "NONE",
         w.source = work[q].source, w.plan = work[q].plan, w.allowed = work[q].allowed,
         w.shared = work[q].shared, w.refused = work[q].refused,
         root \subseteq root', cache' \in [Plan -> Query \cup {None}],
         \A p \in Plan : cache'[p] \in {cache[p], None} \/ (cache'[p] = q /\ Committed(q, p)'),
         ExecutedOK(w, "COMPLETED", n, used + n),
         w.source # None => SourceOK(w, "COMPLETED", n, rows[w.source], work[w.source])
  PROVE  ReplayInv'
  <1>1. work[q].pc \in Holding
    BY Zenon DEF Holding
  <1>2. /\ TypeOK /\ status[q] = "RESERVED" /\ work[q] \in Work /\ PlanOf(q) \in Plan
        /\ PlaceOK(work[q], "RESERVED") /\ QueryOK(q) /\ ~work[q].refused
    BY <1>1, HolderFacts, Zenon
  <1>3. /\ status' = [status EXCEPT ![q] = "COMPLETED"] /\ rows' = [rows EXCEPT ![q] = n]
        /\ used' = used + n /\ artifact' = [artifact EXCEPT ![q] = "PENDING"]
        /\ UNCHANGED <<object, lapsed, erased, granted>>
    BY Zenon DEF Complete
  <1>4. /\ TypeOK' /\ work'[q] = w /\ status'[q] = "COMPLETED" /\ rows'[q] = n
        /\ \A r \in Query \ {q} : work'[r] = work[r] /\ status'[r] = status[r] /\ rows'[r] = rows[r]
    BY <1>2, <1>3 DEF TypeOK, Status
  <1>5. used' >= used /\ used' <= RowLimit
    BY <1>2, <1>3, ReplayAssumption DEF QueryOK, CeilingOK, Work, TypeOK
  <1>6. PlaceOK(w, "COMPLETED") /\ RowOK(w, cache')
    BY <1>2, Zenon DEF PlaceOK, RowOK, Holding, PlanOf
  <1>7. CeilingOK(w, "COMPLETED", used')
    BY <1>2, Zenon DEF QueryOK, CeilingOK
  <1>8. w.source # None => /\ Committed(w.source, w.plan)' /\ w.source \in Query \ {q}
                           /\ rows'[w.source] = rows[w.source] /\ work'[w.source] = work[w.source]
    <2>1. w.source # None => Committed(w.source, w.plan)
      BY <1>2, Zenon DEF QueryOK
    <2>2. w.source # None => Committed(w.source, w.plan)' /\ w.source \in Query \ {q}
      BY <1>2, <1>4, <2>1, CommittedStays, Zenon
    <2> QED BY <1>4, <2>2, Zenon
  <1>9. SourceOK(w, "COMPLETED", n, rows'[w.source], work'[w.source])
    BY <1>8, Zenon DEF SourceOK
  <1>10. ExecutedOK(w, "COMPLETED", n, used')
    BY <1>3, Zenon
  <1>11. QueryOK(q)'
    BY <1>4, <1>6, <1>7, <1>8, <1>9, <1>10, Zenon DEF QueryOK
  <1> QED BY <1>2, <1>4, <1>5, <1>11, StepKeeps, Zenon

\* A replay: had the source been cut short by a ceiling nobody shared, either nobody
\* could hold a reservation or the replaying query could have no more rows either.
LEMMA ReplayKeeps ==
  ASSUME ReplayInv, NEW q \in Query, ReplayCompletes(q)
  PROVE  ReplayInv'
  <1>1. work[q].pc = "replay" /\ work[q].pc \in Holding /\ UNCHANGED <<cache, root>>
    BY Zenon DEF ReplayCompletes, At, Holding
  <1>2. /\ TypeOK /\ status[q] = "RESERVED" /\ work[q] \in Work /\ PlanOf(q) \in Plan
        /\ PlaceOK(work[q], "RESERVED") /\ QueryOK(q)
    BY <1>1, HolderFacts, Zenon
  <1>3. PICK s : s = work[q].source
    BY Zenon
  <1>4. s # None /\ s \in Query /\ Committed(s, work[q].plan) /\ QueryOK(s) /\ work[s] \in Work
    <2>1. s # None /\ Committed(s, work[q].plan)
      BY <1>1, <1>2, <1>3, Zenon DEF PlaceOK, QueryOK
    <2>2. s \in Query
      BY <1>2, <1>3, <2>1, Zenon DEF Work
    <2> QED BY <1>2, <2>1, <2>2, Zenon DEF ReplayInv, TypeOK
  <1>5. PICK n \in Nat : n = rows[s]
    BY <1>2, <1>4, Zenon DEF TypeOK
  <1>6. Complete(q, n)
    BY <1>3, <1>5, Zenon DEF ReplayCompletes
  <1>7. n <= work[q].allowed
    BY <1>1, <1>2, <1>3, <1>4, <1>5, Zenon DEF QueryOK, SourceOK
  <1>8. PICK w \in Work :
           /\ work' = [work EXCEPT ![q] = w]
           /\ w.pc = "done" /\ w.kept = "NONE" /\ w.source = work[q].source
           /\ w.plan = work[q].plan /\ w.allowed = work[q].allowed /\ w.shared = work[q].shared
           /\ w.refused = work[q].refused
    BY <1>2, <1>6, CompleteIs, Zenon
  <1>9. ExecutedOK(work[s], "COMPLETED", n, used) /\ work[s].source = None /\ work[s].plan = work[q].plan
    BY <1>4, <1>5, Zenon DEF QueryOK, Committed
  <1>10. /\ n <= Size[w.plan]
         /\ n < w.allowed /\ n < Size[w.plan] => work[s].shared
    <2>1. CeilingOK(work[q], "RESERVED", used)
      BY <1>2, Zenon DEF QueryOK
    <2>2. w.allowed \in Nat /\ used \in Nat /\ work[s].shared \in BOOLEAN
      BY <1>2, <1>4, Zenon DEF Work, TypeOK
    <2> QED BY <1>8, <1>9, <2>1, <2>2, ReplayAssumption DEF ExecutedOK, CeilingOK
  <1>11. SourceOK(w, "COMPLETED", n, rows[w.source], work[w.source])
    BY <1>3, <1>5, <1>7, <1>8, <1>10, Zenon DEF SourceOK
  <1>12. ExecutedOK(w, "COMPLETED", n, used + n)
    BY <1>3, <1>4, <1>8, Zenon DEF ExecutedOK
  <1>13. cache' \in [Plan -> Query \cup {None}] /\ \A p \in Plan : cache'[p] \in {cache[p], None}
    BY <1>1, <1>2, Zenon DEF TypeOK
  <1> QED BY <1>1, <1>6, <1>7, <1>8, <1>11, <1>12, <1>13, CompleteKeeps, Zenon

\* An execution: cut short by the reservation it has all the rows that were left, or as
\* many as the influence ceiling allows.
LEMMA NovelKeeps ==
  ASSUME ReplayInv, NEW q \in Query, FinalizeNovel(q)
  PROVE  ReplayInv'
  <1>1. work[q].pc = "publish" /\ work[q].pc \in Holding
    BY Zenon DEF FinalizeNovel, At, Holding
  <1>2. /\ TypeOK /\ status[q] = "RESERVED" /\ work[q] \in Work /\ PlanOf(q) \in Plan
        /\ PlaceOK(work[q], "RESERVED") /\ QueryOK(q) /\ work[q].source = None
    BY <1>1, HolderFacts, Zenon DEF PlaceOK
  <1>3. PICK p \in Plan : p = work[q].plan
    BY <1>2, Zenon DEF PlanOf
  <1>4. PICK n \in Nat : n = Yield(q) /\ n <= work[q].allowed /\ n <= Size[p]
                         /\ (n = work[q].allowed \/ n = Size[p])
    BY <1>2, <1>3, YieldIs, Zenon DEF Work
  <1>5. /\ Complete(q, n)
        /\ cache' = [cache EXCEPT ![p] = IF cache[p] = None THEN q ELSE cache[p]]
        /\ root' = root \cup {<<p, n>>}
    BY <1>3, <1>4, Zenon DEF FinalizeNovel, Observation, PlanOf
  <1>6. PICK w \in Work :
           /\ work' = [work EXCEPT ![q] = w]
           /\ w.pc = "done" /\ w.kept = "NONE" /\ w.source = work[q].source
           /\ w.plan = work[q].plan /\ w.allowed = work[q].allowed /\ w.shared = work[q].shared
           /\ w.refused = work[q].refused
    BY <1>2, <1>5, CompleteIs, Zenon
  <1>7. ExecutedOK(w, "COMPLETED", n, used + n)
    <2>1. CeilingOK(work[q], "RESERVED", used)
      BY <1>2, Zenon DEF QueryOK
    <2>2. w.allowed \in Nat /\ used \in Nat /\ Size[p] \in Nat
      BY <1>2, ReplayAssumption, Zenon DEF Work, TypeOK
    <2> QED BY <1>3, <1>4, <1>6, <2>1, <2>2, ReplayAssumption DEF ExecutedOK, CeilingOK
  <1>8. Committed(q, p)'
    <2>1. status'[q] = "COMPLETED" /\ rows'[q] = n /\ work'[q] = w
      BY <1>2, <1>5, <1>6, Zenon DEF Complete, TypeOK
    <2>2. <<p, n>> \in root'
      BY <1>5, Zenon
    <2> QED BY <1>2, <1>3, <1>6, <2>1, <2>2, Zenon DEF Committed
  <1>9. /\ cache' \in [Plan -> Query \cup {None}]
        /\ \A o \in Plan : cache'[o] \in {cache[o], None} \/ (cache'[o] = q /\ o = p)
    BY <1>2, <1>5, Zenon DEF TypeOK
  <1>10. \A o \in Plan : cache'[o] \in {cache[o], None} \/ (cache'[o] = q /\ Committed(q, o)')
    BY <1>8, <1>9, Zenon
  <1>11. root \subseteq root' /\ w.source = None
    BY <1>2, <1>5, <1>6, Zenon
  <1> QED BY <1>1, <1>4, <1>5, <1>6, <1>7, <1>9, <1>10, <1>11, CompleteKeeps, Zenon

\* The artifacts' own steps touch nothing of the requests.
LEMMA QuietKeeps ==
  ASSUME ReplayInv, Quiet,
         artifact' \in [Query -> {"NONE", "PENDING", "AVAILABLE", "DELETING", "DELETED"}],
         granted' \in BOOLEAN
  PROVE  ReplayInv'
  BY SMTT(60) DEF ReplayInv, Quiet, TypeOK, OneReservation, QueryOK, Committed

\* Each of them is quiet.
LEMMA ArtifactsKeep ==
  ASSUME ReplayInv,
         (\E q \in Query : ArtifactStep(q)) \/ EraseKey \/ GrantExpires \/ UNCHANGED vars
  PROVE  ReplayInv'
  <1>1. /\ artifact \in [Query -> {"NONE", "PENDING", "AVAILABLE", "DELETING", "DELETED"}]
        /\ granted \in BOOLEAN
    BY Zenon DEF ReplayInv, TypeOK
  <1>2. ASSUME NEW q \in Query, ArtifactStep(q) PROVE ReplayInv'
    <2>1. Quiet /\ UNCHANGED granted
      BY <1>2, Zenon DEF ArtifactStep, Promote, PurgeClaims, PurgeDeletes, PurgeTombstones, Expire
    <2>2. \/ UNCHANGED artifact
          \/ \E to \in {"AVAILABLE", "DELETING", "DELETED"} : artifact' = [artifact EXCEPT ![q] = to]
      BY <1>2, Zenon DEF ArtifactStep, Promote, PurgeClaims, PurgeDeletes, PurgeTombstones, Expire, Moved
    <2> QED BY <1>1, <2>1, <2>2, QuietKeeps, Zenon
  <1>3. CASE EraseKey
    BY <1>1, <1>3, QuietKeeps, Zenon DEF EraseKey
  <1>4. CASE GrantExpires
    BY <1>1, <1>4, QuietKeeps, Zenon DEF GrantExpires, results
  <1>5. CASE UNCHANGED vars
    BY <1>1, <1>5, QuietKeeps, Zenon DEF vars, Quiet
  <1> QED BY <1>2, <1>3, <1>4, <1>5, Zenon

\* The initial state.
LEMMA InitReplay == Init => ReplayInv
  <1> SUFFICES ASSUME Init PROVE ReplayInv
    BY Zenon
  <1>1. Fresh \in Work /\ None \notin Query
    BY ReplayAssumption DEF Fresh, Work, None
  <1>2. TypeOK /\ OneReservation
    BY <1>1, Zenon DEF Init, TypeOK, OneReservation, Status
  <1>3. ASSUME NEW q \in Query PROVE QueryOK(q)
    <2>1. work[q] = Fresh /\ status[q] = "NEW"
      BY Zenon DEF Init
    <2>2. /\ PlaceOK(Fresh, "NEW") /\ RowOK(Fresh, cache) /\ CeilingOK(Fresh, "NEW", used)
          /\ Fresh.source = None
      BY Zenon DEF Fresh, PlaceOK, RowOK, CeilingOK, Holding
    <2> QED BY <2>1, <2>2, Zenon DEF QueryOK, ExecutedOK, SourceOK
  <1>4. used <= RowLimit /\ \A p \in Plan : cache[p] = None
    BY ReplayAssumption DEF Init
  <1> QED BY <1>2, <1>3, <1>4, Zenon DEF ReplayInv
-----------------------------------------------------------------------------
Sums == INSTANCE SumTheorems

\* The sums of the two modules are the same.
LEMMA SumsAgree ==
  /\ \A f, S : Sums!SumFunctionOnSet(f, S) = SumFunctionOnSet(f, S)
  /\ \A S : Sums!IsFiniteSet(S) = IsFiniteSet(S)
  <1>1. \A f, S : Sums!SumFunctionOnSet(f, S) = SumFunctionOnSet(f, S)
    BY Zenon DEF Sums!SumFunctionOnSet, SumFunctionOnSet, Sums!FoldFunctionOnSet, FoldFunctionOnSet,
                 Sums!MapThenFoldSet, MapThenFoldSet
  <1>2. \A S : Sums!IsFiniteSet(S) = IsFiniteSet(S)
    BY Zenon DEF Sums!IsFiniteSet, IsFiniteSet
  <1> QED BY <1>1, <1>2, Zenon

\* What the open reservations hold is a number, and nothing if there is none.
LEMMA RemainingCounts ==
  ASSUME ReplayInv
  PROVE  Counted
  <1>1. PICK f : f = [q \in Reserved |-> work[q].allowed]
    BY Zenon
  <1>2. DOMAIN f = Reserved /\ \A x \in Reserved : f[x] \in Nat
    BY <1>1, Zenon DEF ReplayInv, TypeOK, Work, Reserved
  <1>3. Sums!IsFiniteSet(Reserved)
    <2>1. CASE Reserved = {}
      BY <2>1, Sums!FS_EmptySet, Zenon
    <2>2. ASSUME NEW q \in Reserved PROVE Sums!IsFiniteSet(Reserved)
      <3>1. Reserved = {q}
        BY <2>2, Zenon DEF ReplayInv, OneReservation, Reserved
      <3> QED BY <3>1, Sums!FS_Singleton, Zenon
    <2> QED BY <2>1, <2>2, Zenon
  <1>4. /\ SumFunctionOnSet(f, Reserved) \in Nat
        /\ Reserved = {} => SumFunctionOnSet(f, Reserved) = 0
    BY <1>2, <1>3, SumsAgree, Sums!SumType, Sums!SumZero, Zenon
  <1>5. Remaining = RowLimit - used - SumFunctionOnSet(f, Reserved)
    BY <1>1, <1>2, Zenon DEF Remaining, SumFunction
  <1> QED BY <1>4, <1>5, ReplayAssumption DEF Counted, ReplayInv, TypeOK

\* Every step keeps the invariant.
LEMMA NextReplay == ReplayInv /\ [Next]_vars => ReplayInv'
  <1> SUFFICES ASSUME ReplayInv, [Next]_vars PROVE ReplayInv'
    BY Zenon
  <1>1. ASSUME NEW q \in Query, Step(q) PROVE ReplayInv'
    BY <1>1, RemainingCounts, ReserveKeeps, ReserveRefusedKeeps, LookupKeeps, EvictKeeps, ReadKeeps,
       DropKeeps, ExecuteKeeps, SettlementsKeep, RefusedKeeps, ReplayKeeps, NovelKeeps, Zenon DEF Step
  <1>2. ASSUME NEW q \in Query, NEW p \in Plan, Prepare(q, p) PROVE ReplayInv'
    BY <1>2, RemainingCounts, PrepareKeeps, Zenon
  <1>3. CASE (\E q \in Query : ArtifactStep(q)) \/ EraseKey \/ GrantExpires \/ UNCHANGED vars
    BY <1>3, ArtifactsKeep, Zenon
  <1> QED BY <1>1, <1>2, <1>3, Zenon DEF Next

\* The inductive invariant of the replay protocol holds in every reachable state:
\* tryOrdinalSemanticReplay, the executions and the settlements preserve it whatever
\* becomes of the artifacts in between.
THEOREM ReplayInvariant == Spec => []ReplayInv
  BY InitReplay, NextReplay, PTL DEF Spec

\* A completed query has the rows it would have got by executing, or fewer only because
\* the ceiling of the source it replays was shared with a query in flight.
THEOREM ReplaysAreFaithful == Spec => []ReplayIsFaithful
  <1>1. ReplayInv => ReplayIsFaithful
    <2> SUFFICES ASSUME ReplayInv, NEW q \in Completed
                 PROVE  /\ rows[q] <= Yield(q)
                        /\ rows[q] < Yield(q) => work[q].source # None /\ work[work[q].source].shared
      BY Zenon DEF ReplayIsFaithful
    <2>1. q \in Query /\ status[q] = "COMPLETED" /\ QueryOK(q) /\ work[q] \in Work /\ rows[q] \in Nat
      BY Zenon DEF ReplayInv, TypeOK, Completed
    <2>2. work[q].plan \in Plan /\ work[q].allowed \in Nat
      BY <2>1, Zenon DEF QueryOK, PlaceOK, Work
    <2>3. /\ Yield(q) \in Nat /\ Yield(q) <= work[q].allowed /\ Yield(q) <= Size[work[q].plan]
          /\ Yield(q) = work[q].allowed \/ Yield(q) = Size[work[q].plan]
      BY <2>2, YieldIs, Zenon
    <2>4. Size[work[q].plan] \in Nat
      BY <2>2, ReplayAssumption, Zenon
    <2>5. CASE work[q].source = None
      BY <2>1, <2>2, <2>3, <2>4, <2>5, SMTT(60) DEF QueryOK, ExecutedOK
    <2>6. CASE work[q].source # None
      <3>1. /\ rows[q] <= work[q].allowed /\ rows[q] <= Size[work[q].plan]
            /\ rows[q] < work[q].allowed /\ rows[q] < Size[work[q].plan]
                 => work[work[q].source].shared
        BY <2>1, <2>6, Zenon DEF QueryOK, SourceOK
      <3> QED BY <2>1, <2>2, <2>3, <2>4, <2>6, <3>1, SMTT(60)
    <2> QED BY <2>5, <2>6, Zenon
  <1> QED BY <1>1, ReplayInvariant, PTL

\* No publication is refused for a row that was not worth keeping when the query looked
\* it up (deleteUnusableOrdinalMaterialization and publishOrdinalMaterializationTx).
THEOREM DeadRowsNeverBlock == Spec => []OnlyLiveRowsBlock
  <1>1. ReplayInv => OnlyLiveRowsBlock
    BY Zenon DEF ReplayInv, OnlyLiveRowsBlock, QueryOK, PlaceOK, TypeOK, Work
  <1> QED BY <1>1, ReplayInvariant, PTL

\* Whatever a replay refers to is committed, by an execution of the same plan.
THEOREM SourcesAreCommitted == Spec => []CacheIsCommitted
  <1>1. ReplayInv => CacheIsCommitted
    BY Zenon DEF ReplayInv, CacheIsCommitted, QueryOK, Committed, PlanOf
  <1> QED BY <1>1, ReplayInvariant, PTL

\* Replays, refusals and failures together never charge the task more rows than its
\* budget, although the ceiling of a request is read before its reservation.
THEOREM RowBudgetHolds == Spec => [](used <= RowLimit)
  <1>1. ReplayInv => used <= RowLimit
    BY Zenon DEF ReplayInv
  <1> QED BY <1>1, ReplayInvariant, PTL
=============================================================================
