------------------------ MODULE ResultArtifactProofs ------------------------
(***************************************************************************)
(* Proofs about result artifacts, for every number of results, readers,    *)
(* purges and crashes.                                                     *)
(*                                                                         *)
(* Control PostgreSQL and the object store share no transaction, so the    *)
(* invariant says for every process between two store calls what it can    *)
(* still rely on (ProcOK, CleanerOK, PurgerOK): a worker before its        *)
(* settlement that its staging object is there and nobody settles for it,  *)
(* a promotion past the copy that the object is there unless the row is on *)
(* its way out, a cleanup about to delete that nothing refers to the       *)
(* object, and a purge past its claim that the row was claimed.  These     *)
(* facts are stable because a row only advances (Moves).                   *)
(***************************************************************************)
EXTENDS ResultArtifact, TLAPS

Row == {"NONE", "PENDING", "AVAILABLE", "DELETING", "DELETED"}
Gone == {"DELETING", "DELETED"}
Unsettled == {"stage", "finalize"}
Working == {"recheck", "fail"}
Promoting == {"statObject", "readStaging", "createObject", "dropStaging", "markAvailable"}
Copied == {"dropStaging", "markAvailable"}

ArtifactTypeOK ==
  /\ query \in [Result -> {"RESERVED", "COMPLETED", "FAILED"}]
  /\ row \in [Result -> Row]
  /\ staging \subseteq Result /\ object \subseteq Result /\ doubt \subseteq Result
  /\ key \in {"ACTIVE", "ERASED"}
  /\ held \subseteq Task
  /\ proc \in [Promoter -> [pc : {"idle"} \cup Unsettled \cup Working \cup Promoting,
                            result : Result \cup {NoResult}]]
  /\ pass \in [phase : {"off", "starting", "promoting"}, todo : SUBSET Result, failed : Nat]
  /\ failures \in Nat
  /\ purger \in [Purger -> [pc : {"idle", "claim", "delete", "dropStaging", "tombstone"},
                            result : Result \cup {NoResult}]]
  /\ cleaner \in [pc : {"idle", "lookRow", "lookQuery", "delete"}, result : Result \cup {NoResult}]
  /\ up \in BOOLEAN /\ healthy \in BOOLEAN /\ crashes \in Nat
  /\ consumed \in [Result -> Nat]

\* What the two stores say about a result.
ResultOK(r) ==
  /\ row[r] # "NONE" <=> query[r] = "COMPLETED"
  /\ r \in doubt => query[r] = "RESERVED"
  /\ row[r] = "PENDING" \/ r \in doubt => r \in staging \cup object /\ key = "ACTIVE"
  /\ row[r] = "AVAILABLE" => r \in object
  /\ consumed[r] = IF row[r] \in {"AVAILABLE", "DELETING", "DELETED"} THEN 1 ELSE 0

\* What a worker, a reader or the recovery pass can rely on where it is.
ProcOK(p) ==
  /\ p \in Result /\ proc[p].pc # "idle" => Of(p) = p
  /\ proc[p].pc \in Unsettled \cup Working => p \in Result
  /\ proc[p].pc \in Unsettled => row[p] = "NONE" /\ query[p] = "RESERVED" /\ p \notin doubt
  /\ proc[p].pc = "finalize" => p \in staging
  /\ proc[p].pc \in Promoting => Of(p) \in Result /\ row[Of(p)] # "NONE"
  /\ proc[p].pc \in Copied => Of(p) \in object \/ row[Of(p)] \in Gone

CleanerOK ==
  /\ cleaner.pc # "idle" => cleaner.result \in Result
  /\ cleaner.pc = "delete" =>
       row[cleaner.result] \in {"AVAILABLE"} \cup Gone \/ query[cleaner.result] = "FAILED"

PurgerOK(g) ==
  /\ purger[g].pc # "idle" => purger[g].result \in Result
  /\ purger[g].pc \in {"delete", "dropStaging", "tombstone"} => row[purger[g].result] \in Gone

PassOK == \A r \in pass.todo : row[r] # "NONE"

\* Nothing runs in a gateway that is down.
DownOK == ~up => \A p \in Promoter : proc[p].pc = "idle"

IInv ==
  /\ ArtifactTypeOK
  /\ \A r \in Result : ResultOK(r)
  /\ \A p \in Promoter : ProcOK(p)
  /\ \A g \in Purger : PurgerOK(g)
  /\ CleanerOK /\ PassOK /\ DownOK
-----------------------------------------------------------------------------
(* Types *)

ProcPc == {"idle"} \cup Unsettled \cup Working \cup Promoting
ProcState == [pc : ProcPc, result : Result \cup {NoResult}]
PurgePc == {"idle", "claim", "delete", "dropStaging", "tombstone"}
PurgeState == [pc : PurgePc, result : Result \cup {NoResult}]

\* Process p is at pc with result r afterwards, and no other process has moved.
ProcTo(p, pc, r) ==
  /\ proc' \in [Promoter -> ProcState]
  /\ proc'[p].pc = pc /\ proc'[p].result = r
  /\ \A q \in Promoter \ {p} : proc'[q] = proc[q]
PurgeTo(g, pc, r) ==
  /\ purger' \in [Purger -> PurgeState]
  /\ purger'[g].pc = pc /\ purger'[g].result = r
  /\ \A h \in Purger \ {g} : purger'[h] = purger[h]

\* A process that takes up a result, or drops it.
LEMMA ProcSet ==
  ASSUME ArtifactTypeOK, NEW p \in Promoter, NEW pc \in ProcPc, NEW r \in Result \cup {NoResult},
         proc' = [proc EXCEPT ![p] = [pc |-> pc, result |-> r]]
  PROVE  ProcTo(p, pc, r)
  <1>1. proc \in [Promoter -> ProcState] /\ [pc |-> pc, result |-> r] \in ProcState
    BY Zenon DEF ArtifactTypeOK, ProcState, ProcPc
  <1>2. proc'[p] = [pc |-> pc, result |-> r]
    BY <1>1, Zenon
  <1>3. proc' \in [Promoter -> ProcState] /\ \A q \in Promoter \ {p} : proc'[q] = proc[q]
    BY <1>1, Zenon
  <1> QED BY <1>2, <1>3, Zenon DEF ProcTo

\* A process that goes on with its result.
LEMMA ProcGoto ==
  ASSUME ArtifactTypeOK, NEW p \in Promoter, NEW pc \in ProcPc, Goto(p, pc)
  PROVE  ProcTo(p, pc, Of(p))
  <1>1. proc \in [Promoter -> ProcState] /\ proc[p] \in ProcState
    BY Zenon DEF ArtifactTypeOK, ProcState, ProcPc
  <1>2. [proc[p] EXCEPT !.pc = pc] \in ProcState
    BY <1>1, Zenon DEF ProcState
  <1>3. proc' = [proc EXCEPT ![p] = [proc[p] EXCEPT !.pc = pc]]
    BY Zenon DEF Goto
  <1>4. proc'[p] = [proc[p] EXCEPT !.pc = pc]
    BY <1>1, <1>3, Zenon
  <1>5. proc'[p].pc = pc /\ proc'[p].result = Of(p)
    BY <1>1, <1>4, Zenon DEF ProcState, Of
  <1>6. proc' \in [Promoter -> ProcState] /\ \A q \in Promoter \ {p} : proc'[q] = proc[q]
    BY <1>1, <1>2, <1>3, Zenon
  <1> QED BY <1>5, <1>6, Zenon DEF ProcTo

\* A purge that takes up a result, or drops it.
LEMMA PurgeSet ==
  ASSUME ArtifactTypeOK, NEW g \in Purger, NEW pc \in PurgePc, NEW r \in Result \cup {NoResult},
         purger' = [purger EXCEPT ![g] = [pc |-> pc, result |-> r]]
  PROVE  PurgeTo(g, pc, r)
  <1>1. purger \in [Purger -> PurgeState] /\ [pc |-> pc, result |-> r] \in PurgeState
    BY Zenon DEF ArtifactTypeOK, PurgeState, PurgePc
  <1>2. purger'[g] = [pc |-> pc, result |-> r]
    BY <1>1, Zenon
  <1>3. purger' \in [Purger -> PurgeState] /\ \A h \in Purger \ {g} : purger'[h] = purger[h]
    BY <1>1, Zenon
  <1> QED BY <1>2, <1>3, Zenon DEF PurgeTo

\* A purge that goes on with its result.
LEMMA PurgeGoto ==
  ASSUME ArtifactTypeOK, NEW g \in Purger, NEW pc \in PurgePc,
         purger' = [purger EXCEPT ![g].pc = pc]
  PROVE  PurgeTo(g, pc, purger[g].result)
  <1>1. purger \in [Purger -> PurgeState] /\ purger[g] \in PurgeState
    BY Zenon DEF ArtifactTypeOK, PurgeState, PurgePc
  <1>2. [purger[g] EXCEPT !.pc = pc] \in PurgeState
    BY <1>1, Zenon DEF PurgeState
  <1>3. purger' = [purger EXCEPT ![g] = [purger[g] EXCEPT !.pc = pc]]
    BY Zenon
  <1>4. purger'[g] = [purger[g] EXCEPT !.pc = pc]
    BY <1>1, <1>3, Zenon
  <1>5. purger'[g].pc = pc /\ purger'[g].result = purger[g].result
    BY <1>1, <1>4, Zenon DEF PurgeState
  <1>6. purger' \in [Purger -> PurgeState] /\ \A h \in Purger \ {g} : purger'[h] = purger[h]
    BY <1>1, <1>2, <1>3, Zenon
  <1> QED BY <1>5, <1>6, Zenon DEF PurgeTo

\* What holds of a result of which another process's step is not about.
Frame(r) ==
  \A s \in Result \ {r} :
    /\ query'[s] = query[s] /\ row'[s] = row[s] /\ consumed'[s] = consumed[s]
    /\ s \in staging' <=> s \in staging
    /\ s \in object' <=> s \in object
    /\ s \in doubt' <=> s \in doubt

\* A step of a worker moves the worker and is about its own result.
LEMMA WorkerEffect ==
  ASSUME ArtifactTypeOK, NEW r \in Result, Worker(r), Of(r) = r
  PROVE  /\ ArtifactTypeOK' /\ Frame(r)
         /\ \E pc \in ProcPc : ProcTo(r, pc, r)
         /\ UNCHANGED <<object, key, held, pass, purger, cleaner, up, consumed>>
         /\ up
  <1>0. /\ r \in Promoter
        /\ {"finalize", "fail", "statObject", "recheck", "idle"} \subseteq ProcPc
    BY Zenon DEF Promoter, ProcPc, Unsettled, Working, Promoting
  <1>1. \E pc \in ProcPc : ProcTo(r, pc, r)
    <2>1. \E pc \in {"finalize", "fail", "statObject", "recheck", "idle"} : Goto(r, pc)
      BY Zenon DEF Worker, Stage, Finalize, FinalizeRefused, FinalizeInDoubt, Recheck, RecheckUnreadable,
             RecheckStrands, Fail
    <2> QED BY <1>0, <2>1, ProcGoto, Zenon
  <1>2. /\ query' \in [Result -> {"RESERVED", "COMPLETED", "FAILED"}] /\ row' \in [Result -> Row]
        /\ \A s \in Result \ {r} : query'[s] = query[s] /\ row'[s] = row[s]
    <2>1. query[r] \in {"RESERVED", "COMPLETED", "FAILED"}
      BY Zenon DEF ArtifactTypeOK
    <2>2. \/ query' = query
          \/ \E v \in {"RESERVED", "COMPLETED", "FAILED"} : query' = [query EXCEPT ![r] = v]
      <3>1. CASE Fail(r)
        BY <2>1, <3>1, Zenon DEF Fail
      <3>2. CASE ~Fail(r)
        BY <3>2, Zenon DEF Worker, Stage, Finalize, FinalizeRefused, FinalizeInDoubt, Recheck, RecheckUnreadable,
             RecheckStrands, store
      <3> QED BY <3>1, <3>2, Zenon
    <2>3. row' = row \/ row' = [row EXCEPT ![r] = "PENDING"]
      BY Zenon DEF Worker, Stage, Finalize, FinalizeRefused, FinalizeInDoubt, Recheck, RecheckUnreadable,
             RecheckStrands, Fail, store
    <2> QED BY <2>2, <2>3 DEF ArtifactTypeOK, Row
  <1>3. /\ staging' \subseteq Result /\ doubt' \subseteq Result /\ failures' \in Nat
        /\ \A s \in Result \ {r} : (s \in staging' <=> s \in staging) /\ (s \in doubt' <=> s \in doubt)
    <2>1. staging' = staging \/ staging' = staging \cup {r} \/ staging' = staging \ {r}
      BY Zenon DEF Worker, Stage, Finalize, FinalizeRefused, FinalizeInDoubt, Recheck, RecheckUnreadable,
             RecheckStrands, Fail, store, Dropped
    <2>2. (doubt' = doubt \/ doubt' = doubt \cup {r}) /\ (failures' = failures \/ failures' = 1)
      BY Zenon DEF Worker, Stage, Finalize, FinalizeRefused, FinalizeInDoubt, Recheck, RecheckUnreadable,
             RecheckStrands, Fail, store
    <2> QED BY <2>1, <2>2 DEF ArtifactTypeOK
  <1>4. /\ UNCHANGED <<object, key, held, pass, purger, cleaner, up, crashes, healthy, consumed>>
        /\ up
    BY Zenon DEF Worker, Stage, Finalize, FinalizeRefused, FinalizeInDoubt, Recheck, RecheckUnreadable,
           RecheckStrands, Fail, store, env, At
  <1>5. proc' \in [Promoter -> ProcState]
    BY <1>1, Zenon DEF ProcTo
  <1>6. ArtifactTypeOK'
    BY <1>2, <1>3, <1>4, <1>5, Zenon DEF ArtifactTypeOK, ProcState, ProcPc
  <1>7. Frame(r)
    BY <1>2, <1>3, <1>4, Zenon DEF Frame
  <1> QED BY <1>1, <1>4, <1>6, <1>7, Zenon

\* What a step may do to a result: its row advances, its canonical object stays unless the
\* row is on its way out, and while its worker is before the settlement nobody settles for
\* it or takes its staging object.
Moves(r) ==
  /\ row[r] # "NONE" => row'[r] # "NONE"
  /\ row[r] \in Gone => row'[r] \in Gone
  /\ row[r] = "AVAILABLE" => row'[r] \in {"AVAILABLE"} \cup Gone
  /\ query[r] = "FAILED" => query'[r] = "FAILED"
  /\ r \in object => r \in object' \/ row'[r] \in Gone
  /\ proc[r].pc \in Unsettled /\ proc'[r] = proc[r] =>
       /\ row'[r] = row[r] /\ query'[r] = query[r]
       /\ r \in doubt' => r \in doubt
       /\ r \in staging => r \in staging'

\* The stores about the results a step is not about.
LEMMA Elsewhere ==
  ASSUME NEW r, Frame(r), key' = key, NEW s \in Result, s # r, ResultOK(s)
  PROVE  ResultOK(s)' /\ Moves(s)
  <1>1. /\ query'[s] = query[s] /\ row'[s] = row[s] /\ consumed'[s] = consumed[s]
        /\ s \in staging' <=> s \in staging
        /\ s \in object' <=> s \in object
        /\ s \in doubt' <=> s \in doubt
    BY Zenon DEF Frame
  <1> QED BY <1>1, Zenon DEF ResultOK, Moves

\* A process that does not move keeps what it relies on.
LEMMA ProcStays ==
  ASSUME IInv, NEW q \in Promoter, proc'[q] = proc[q], \A s \in Result : Moves(s)
  PROVE  ProcOK(q)'
  <1>0. ProcOK(q) /\ (Of(q) = proc[q].result) /\ ((Of(q))' = Of(q))
    BY Zenon DEF IInv, Of
  <1>1. /\ q \in Result /\ proc'[q].pc # "idle" => (Of(q))' = q
        /\ proc'[q].pc \in Unsettled \cup Working => q \in Result
    BY <1>0, Zenon DEF ProcOK
  <1>2. /\ proc'[q].pc \in Unsettled => row'[q] = "NONE" /\ query'[q] = "RESERVED" /\ q \notin doubt'
        /\ proc'[q].pc = "finalize" => q \in staging'
    BY <1>0, Zenon DEF ProcOK, Moves, Unsettled
  <1>3. proc'[q].pc \in Promoting => (Of(q))' \in Result /\ row'[(Of(q))'] # "NONE"
    BY <1>0, Zenon DEF ProcOK, Moves
  <1>4. proc'[q].pc \in Copied => (Of(q))' \in object' \/ row'[(Of(q))'] \in Gone
    <2>1. proc[q].pc \in Copied => proc[q].pc \in Promoting
      BY Zenon DEF Copied, Promoting
    <2> QED BY <1>0, <2>1, Zenon DEF ProcOK, Moves
  <1> QED BY <1>1, <1>2, <1>3, <1>4, Zenon DEF ProcOK

\* So do a purge and the cleanup.
LEMMA PurgeStays ==
  ASSUME IInv, NEW g \in Purger, purger'[g] = purger[g], \A s \in Result : Moves(s)
  PROVE  PurgerOK(g)'
  BY Zenon DEF IInv, PurgerOK, Moves
\* What the staging cleanup relies on outlasts the steps of others.
LEMMA CleanerStays ==
  ASSUME IInv, cleaner' = cleaner, \A s \in Result : Moves(s)
  PROVE  CleanerOK'
  BY Zenon DEF IInv, CleanerOK, Moves, Gone
\* What a recovery pass relies on outlasts the steps of others.
LEMMA PassStays ==
  ASSUME IInv, pass'.todo \subseteq pass.todo, \A s \in Result : Moves(s)
  PROVE  PassOK'
  <1>1. \A r \in pass.todo : r \in Result /\ row[r] # "NONE"
    BY Zenon DEF IInv, ArtifactTypeOK, PassOK
  <1> QED BY <1>1, Zenon DEF PassOK, Moves
-----------------------------------------------------------------------------
(* The worker *)

\* A step of a worker keeps what the stores say about its result and leaves the worker
\* with what it relies on next.
LEMMA WorkerOwn ==
  ASSUME IInv, NEW r \in Result, Worker(r), Of(r) = r
  PROVE  ResultOK(r)' /\ Moves(r) /\ ProcOK(r)'
  <1>0. /\ r \in Promoter /\ ResultOK(r) /\ ProcOK(r) /\ ArtifactTypeOK
        /\ query[r] \in {"RESERVED", "COMPLETED", "FAILED"} /\ row[r] \in Row
        /\ query \in [Result -> {"RESERVED", "COMPLETED", "FAILED"}] /\ row \in [Result -> Row]
    BY Zenon DEF IInv, ArtifactTypeOK, Promoter
  <1>1. /\ ArtifactTypeOK'
        /\ UNCHANGED <<object, key, held, consumed>>
    BY <1>0, WorkerEffect, Zenon
  <1>2. ASSUME NEW pc \in ProcPc, Goto(r, pc)
        PROVE  proc'[r].pc = pc /\ (Of(r))' = r
    BY <1>0, <1>2, ProcGoto, Zenon DEF ProcTo, Of
  <1>3. {"finalize", "fail", "statObject", "recheck", "idle"} \subseteq ProcPc
    BY Zenon DEF ProcPc, Unsettled, Working, Promoting
  <1>4. CASE Stage(r)
    <2>1. /\ proc[r].pc = "stage"
          /\ UNCHANGED <<query, row, doubt>>
          /\ r \in staging => r \in staging'
          /\ (proc'[r].pc = "finalize" /\ r \in staging') \/ proc'[r].pc = "fail"
          /\ (Of(r))' = r
      BY <1>2, <1>3, <1>4, Zenon DEF Stage, At
    <2> QED BY <1>0, <1>1, <2>1, Zenon DEF ResultOK, Moves, ProcOK, Unsettled, Working, Promoting, Copied
  <1>5. CASE Finalize(r)
    <2>1. /\ proc[r].pc = "finalize" /\ key = "ACTIVE"
          /\ query'[r] = "COMPLETED" /\ row'[r] = "PENDING"
          /\ UNCHANGED <<staging, doubt>>
          /\ proc'[r].pc = "statObject" /\ (Of(r))' = r
      BY <1>0, <1>2, <1>3, <1>5, Zenon DEF Finalize, At
    <2> QED BY <1>0, <1>1, <2>1, Zenon DEF ResultOK, Moves, ProcOK, Unsettled, Working, Promoting, Copied, Gone
  <1>6. CASE FinalizeRefused(r)
    <2>1. /\ proc[r].pc = "finalize"
          /\ UNCHANGED <<query, row, doubt>>
          /\ proc'[r].pc = "recheck" /\ (Of(r))' = r
      BY <1>2, <1>3, <1>6, Zenon DEF FinalizeRefused, At
    <2> QED BY <1>0, <1>1, <2>1, Zenon DEF ResultOK, Moves, ProcOK, Unsettled, Working, Promoting, Copied
  <1>7. CASE FinalizeInDoubt(r)
    <2>1. /\ proc[r].pc = "finalize" /\ key = "ACTIVE"
          /\ UNCHANGED <<query, row, staging>>
          /\ proc'[r].pc = "recheck" /\ (Of(r))' = r
      BY <1>2, <1>3, <1>7, Zenon DEF FinalizeInDoubt, At
    <2> QED BY <1>0, <1>1, <2>1, Zenon DEF ResultOK, Moves, ProcOK, Unsettled, Working, Promoting, Copied
  <1>8. CASE Recheck(r) \/ RecheckUnreadable(r) \/ RecheckStrands(r)
    <2>1. /\ proc[r].pc = "recheck"
          /\ UNCHANGED <<query, row, staging, doubt>>
          /\ \/ proc'[r].pc = "statObject" /\ row[r] = "PENDING"
             \/ proc'[r].pc \in {"fail", "idle"}
          /\ (Of(r))' = r
      BY <1>2, <1>3, <1>8, Zenon DEF Recheck, RecheckUnreadable, RecheckStrands, At, store
    <2> QED BY <1>0, <1>1, <2>1, Zenon DEF ResultOK, Moves, ProcOK, Unsettled, Working, Promoting, Copied
  <1>9. CASE Fail(r)
    <2>1. /\ proc[r].pc = "fail" /\ r \notin doubt
          /\ query'[r] = IF query[r] = "RESERVED" THEN "FAILED" ELSE query[r]
          /\ UNCHANGED <<row, staging, doubt>>
          /\ proc'[r].pc = "idle" /\ (Of(r))' = r
      BY <1>0, <1>2, <1>3, <1>9, Zenon DEF Fail, At
    <2> QED BY <1>0, <1>1, <2>1, Zenon DEF ResultOK, Moves, ProcOK, Unsettled, Working, Promoting, Copied
  <1> QED BY <1>4, <1>5, <1>6, <1>7, <1>8, <1>9, Zenon DEF Worker

\* A worker's step keeps the invariant.
LEMMA WorkerStep ==
  ASSUME IInv, NEW r \in Result, Worker(r)
  PROVE  IInv'
  <1>0. r \in Promoter /\ ProcOK(r) /\ ArtifactTypeOK
    BY Zenon DEF IInv, Promoter
  <1>1. Of(r) = r
    <2>1. proc[r].pc # "idle"
      BY Zenon DEF Worker, Stage, Finalize, FinalizeRefused, FinalizeInDoubt, Recheck, RecheckUnreadable,
             RecheckStrands, Fail, At
    <2> QED BY <1>0, <2>1, Zenon DEF ProcOK
  <1>2. /\ ArtifactTypeOK' /\ Frame(r)
        /\ \A q \in Promoter \ {r} : proc'[q] = proc[q]
        /\ UNCHANGED <<object, key, held, pass, purger, cleaner, up, consumed>>
        /\ up
    BY <1>0, <1>1, WorkerEffect, Zenon DEF ProcTo
  <1>3. ResultOK(r)' /\ Moves(r) /\ ProcOK(r)'
    BY <1>1, WorkerOwn, Zenon
  <1>4. \A s \in Result : ResultOK(s)' /\ Moves(s)
    BY <1>2, <1>3, Elsewhere, Zenon DEF IInv
  <1>5. \A q \in Promoter : ProcOK(q)'
    BY <1>2, <1>3, <1>4, ProcStays, Zenon
  <1>6. (\A g \in Purger : PurgerOK(g)') /\ CleanerOK' /\ PassOK'
    BY <1>2, <1>4, PurgeStays, CleanerStays, PassStays, Zenon
  <1>7. DownOK'
    BY <1>2, Zenon DEF DownOK
  <1> QED BY <1>2, <1>4, <1>5, <1>6, <1>7, Zenon DEF IInv

\* The server decides a COMMIT that was in doubt.
LEMMA ServerStep ==
  ASSUME IInv, NEW r \in Result, ServerCommits(r) \/ ServerAborts(r)
  PROVE  IInv'
  <1>0. /\ r \in Promoter /\ ResultOK(r) /\ ProcOK(r) /\ ArtifactTypeOK
        /\ query[r] \in {"RESERVED", "COMPLETED", "FAILED"} /\ row[r] \in Row
        /\ query \in [Result -> {"RESERVED", "COMPLETED", "FAILED"}] /\ row \in [Result -> Row]
    BY Zenon DEF IInv, ArtifactTypeOK, Promoter
  <1>1. UNCHANGED <<staging, object, key, held, proc, pass, failures, purger, cleaner, up, crashes,
                    healthy, consumed>>
    BY Zenon DEF ServerCommits, ServerAborts, env
  <1>2. /\ r \in doubt /\ doubt' = doubt \ {r}
        /\ \/ query' = [query EXCEPT ![r] = "COMPLETED"] /\ row' = [row EXCEPT ![r] = "PENDING"]
           \/ query' = query /\ row' = row
    BY Zenon DEF ServerCommits, ServerAborts
  <1>3. /\ query' \in [Result -> {"RESERVED", "COMPLETED", "FAILED"}] /\ row' \in [Result -> Row]
        /\ doubt' \subseteq Result
    BY <1>0, <1>2, Zenon DEF ArtifactTypeOK, Row
  <1>4. ArtifactTypeOK'
    BY <1>0, <1>1, <1>3, Zenon DEF ArtifactTypeOK
  <1>5. Frame(r)
    BY <1>0, <1>1, <1>2, Zenon DEF Frame
  <1>6. ResultOK(r)' /\ Moves(r)
    <2>1. /\ r \notin doubt' /\ query[r] = "RESERVED" /\ row[r] = "NONE"
          /\ \/ query'[r] = "COMPLETED" /\ row'[r] = "PENDING"
             \/ query'[r] = query[r] /\ row'[r] = row[r]
      BY <1>0, <1>2, Zenon DEF ResultOK
    <2> QED BY <1>0, <1>1, <1>2, <2>1, Zenon DEF ResultOK, Moves, ProcOK, Gone
  <1>7. \A s \in Result : ResultOK(s)' /\ Moves(s)
    BY <1>1, <1>5, <1>6, Elsewhere, Zenon DEF IInv
  <1>8. \A q \in Promoter : ProcOK(q)'
    BY <1>1, <1>7, ProcStays, Zenon
  <1>9. (\A g \in Purger : PurgerOK(g)') /\ CleanerOK' /\ PassOK' /\ DownOK'
    BY <1>1, <1>7, PurgeStays, CleanerStays, PassStays, Zenon DEF IInv, DownOK
  <1> QED BY <1>4, <1>7, <1>8, <1>9, Zenon DEF IInv
-----------------------------------------------------------------------------
(* Promotion *)

\* A step of a promotion moves the process and is about its result.
LEMMA PromoteEffect ==
  ASSUME IInv, NEW p \in Promoter, Promote(p) \/ MarkLost(p) \/ PromotionFails(p)
  PROVE  /\ proc[p].pc \in Promoting /\ Of(p) \in Result /\ up
         /\ ArtifactTypeOK' /\ Frame(Of(p))
         /\ \E pc \in ProcPc, r \in Result \cup {NoResult} : ProcTo(p, pc, r)
         /\ UNCHANGED <<query, key, held, doubt, purger, cleaner, up>>
         /\ pass'.todo = pass.todo
  <1>0. ProcOK(p) /\ ArtifactTypeOK
    BY Zenon DEF IInv
  <1>1. proc[p].pc \in Promoting /\ up
    BY Zenon DEF Promote, StatObject, ReadStaging, CreateObject, DropStaging, MarkAvailable, MarkLost,
           PromotionFails, At, Promoting
  <1>2. Of(p) \in Result
    BY <1>0, <1>1, Zenon DEF ProcOK
  <1>3. {"statObject", "readStaging", "createObject", "dropStaging", "markAvailable", "idle"} \subseteq ProcPc
    BY Zenon DEF ProcPc, Promoting
  <1>4. \E pc \in ProcPc, r \in Result \cup {NoResult} : ProcTo(p, pc, r)
    <2>1. \/ \E pc \in {"statObject", "readStaging", "createObject", "dropStaging", "markAvailable"} :
               Goto(p, pc)
          \/ proc' = [proc EXCEPT ![p] = [pc |-> "idle", result |-> NoResult]]
      BY Zenon DEF Promote, StatObject, ReadStaging, CreateObject, DropStaging, MarkAvailable, MarkLost,
             PromotionFails, Report, Idle
    <2>2. CASE \E pc \in {"statObject", "readStaging", "createObject", "dropStaging", "markAvailable"} :
               Goto(p, pc)
      BY <1>0, <1>2, <1>3, <2>2, ProcGoto, Zenon
    <2>3. CASE proc' = [proc EXCEPT ![p] = [pc |-> "idle", result |-> NoResult]]
      BY <1>0, <1>3, <2>3, ProcSet, Zenon
    <2> QED BY <2>1, <2>2, <2>3, Zenon
  <1>5. UNCHANGED <<query, key, held, doubt, purger, cleaner, up, crashes, healthy>>
    BY Zenon DEF Promote, StatObject, ReadStaging, CreateObject, DropStaging, MarkAvailable, MarkLost,
           PromotionFails, store, env
  <1>6. /\ \/ row' = row /\ consumed' = consumed
           \/ /\ row' = [row EXCEPT ![Of(p)] = "AVAILABLE"]
              /\ consumed' = [consumed EXCEPT ![Of(p)] = @ + 1]
        /\ staging' = staging \/ staging' = staging \ {Of(p)}
        /\ object' = object \/ object' = object \cup {Of(p)}
    BY Zenon DEF Promote, StatObject, ReadStaging, CreateObject, DropStaging, MarkAvailable, MarkLost,
           PromotionFails, store, Dropped
  <1>7. pass' = pass \/ pass' = [pass EXCEPT !.failed = @ + 1]
    BY Zenon DEF Promote, StatObject, ReadStaging, CreateObject, DropStaging, MarkAvailable, MarkLost,
           PromotionFails, Report
  <1>8. failures' = failures \/ failures' = 1
    BY Zenon DEF Promote, StatObject, ReadStaging, CreateObject, DropStaging, MarkAvailable, MarkLost,
           PromotionFails, Report
  <1>9. /\ row' \in [Result -> Row] /\ consumed' \in [Result -> Nat]
        /\ \A s \in Result \ {Of(p)} : row'[s] = row[s] /\ consumed'[s] = consumed[s]
    <2>1. consumed[Of(p)] + 1 \in Nat
      BY <1>0, <1>2 DEF ArtifactTypeOK
    <2> QED BY <1>0, <1>2, <1>6, <2>1 DEF ArtifactTypeOK, Row
  <1>10. /\ staging' \subseteq Result /\ object' \subseteq Result
         /\ \A s \in Result \ {Of(p)} : (s \in staging' <=> s \in staging) /\ (s \in object' <=> s \in object)
    BY <1>0, <1>2, <1>6, Zenon DEF ArtifactTypeOK
  <1>11. /\ pass' \in [phase : {"off", "starting", "promoting"}, todo : SUBSET Result, failed : Nat]
         /\ pass'.todo = pass.todo
    BY <1>0, <1>7 DEF ArtifactTypeOK
  <1>12. ArtifactTypeOK'
    <2>1. proc' \in [Promoter -> ProcState]
      BY <1>4, Zenon DEF ProcTo
    <2>2. failures' \in Nat
      BY <1>0, <1>8 DEF ArtifactTypeOK
    <2> QED BY <1>0, <1>5, <1>9, <1>10, <1>11, <2>1, <2>2, Zenon DEF ArtifactTypeOK, ProcState, ProcPc
  <1>13. Frame(Of(p))
    BY <1>5, <1>9, <1>10, Zenon DEF Frame
  <1> QED BY <1>1, <1>2, <1>4, <1>5, <1>11, <1>12, <1>13, Zenon

\* A step of a promotion keeps what the stores say about its result and leaves the
\* process with what it relies on next.
LEMMA PromoteOwn ==
  ASSUME IInv, NEW p \in Promoter, Promote(p) \/ MarkLost(p) \/ PromotionFails(p),
         NEW r \in Result, r = Of(p)
  PROVE  ResultOK(r)' /\ Moves(r) /\ ProcOK(p)'
  <1>0. /\ ArtifactTypeOK /\ ProcOK(p) /\ proc[p].pc \in Promoting /\ r \in Result
        /\ UNCHANGED <<query, key, held, doubt>>
    BY PromoteEffect, Zenon DEF IInv
  <1>1. /\ row[r] # "NONE" /\ ResultOK(r)
        /\ row \in [Result -> Row] /\ row[r] \in Row /\ consumed \in [Result -> Nat]
        /\ proc[p].pc \in Copied => r \in object \/ row[r] \in Gone
        /\ p \in Result => r = p
    BY <1>0, Zenon DEF IInv, ProcOK, ArtifactTypeOK, Promoting
  <1>2. proc[r].pc \notin Unsettled
    <2>1. ProcOK(r)
      BY <1>0, Zenon DEF IInv, Promoter
    <2> QED BY <1>1, <2>1, Zenon DEF ProcOK
  <1>3. ASSUME NEW pc \in ProcPc, Goto(p, pc)
        PROVE  proc'[p].pc = pc /\ proc'[p].result = r
    BY <1>0, <1>3, ProcGoto, Zenon DEF ProcTo
  <1>4. ASSUME proc' = [proc EXCEPT ![p] = Idle]
        PROVE  proc'[p].pc = "idle"
    BY <1>0, <1>4, ProcSet, Zenon DEF ProcTo, Idle, ProcPc
  <1>5. {"statObject", "readStaging", "createObject", "dropStaging", "markAvailable", "idle"} \subseteq ProcPc
    BY Zenon DEF ProcPc, Promoting
  <1>6. ASSUME proc'[p].pc \in Promoting, proc'[p].result = r, row'[r] # "NONE",
               proc'[p].pc \in Copied => r \in object' \/ row'[r] \in Gone
        PROVE  ProcOK(p)'
    BY <1>0, <1>1, <1>6, Zenon DEF ProcOK, Of, Unsettled, Working, Promoting
  <1>7. ASSUME proc'[p].pc = "idle" PROVE ProcOK(p)'
    BY <1>7, Zenon DEF ProcOK, Unsettled, Working, Promoting, Copied
  <1>11. CASE StatObject(p)
    <2>1. /\ UNCHANGED <<row, staging, object, consumed>>
          /\ \/ proc'[p].pc = "dropStaging" /\ r \in object
             \/ proc'[p].pc = "readStaging"
          /\ proc'[p].result = r
      BY <1>3, <1>5, <1>11, Zenon DEF StatObject, store
    <2>2. ProcOK(p)'
      BY <1>1, <1>6, <2>1, Zenon DEF Promoting, Copied
    <2> QED BY <1>0, <1>1, <1>2, <2>1, <2>2, Zenon DEF ResultOK, Moves
  <1>12. CASE ReadStaging(p)
    <2>1. /\ UNCHANGED <<row, staging, object, consumed>>
          /\ proc'[p].pc = "createObject" /\ proc'[p].result = r
      BY <1>3, <1>5, <1>12, Zenon DEF ReadStaging, store
    <2>2. ProcOK(p)'
      BY <1>1, <1>6, <2>1, Zenon DEF Promoting, Copied
    <2> QED BY <1>0, <1>1, <1>2, <2>1, <2>2, Zenon DEF ResultOK, Moves
  <1>13. CASE CreateObject(p)
    <2>1. /\ UNCHANGED <<row, staging, consumed>> /\ r \in object'
          /\ proc'[p].pc = "dropStaging" /\ proc'[p].result = r
      BY <1>3, <1>5, <1>13, Zenon DEF CreateObject
    <2>2. ProcOK(p)'
      BY <1>1, <1>6, <2>1, Zenon DEF Promoting, Copied
    <2> QED BY <1>0, <1>1, <1>2, <2>1, <2>2, Zenon DEF ResultOK, Moves
  <1>14. CASE DropStaging(p)
    <2>1. /\ UNCHANGED <<row, object, consumed>> /\ proc[p].pc = "dropStaging"
          /\ proc'[p].pc = "markAvailable" /\ proc'[p].result = r
      BY <1>3, <1>5, <1>14, Zenon DEF DropStaging, At
    <2>2. ProcOK(p)'
      BY <1>1, <1>6, <2>1, Zenon DEF Promoting, Copied
    <2>3. r \notin doubt /\ (row[r] = "PENDING" => r \in object)
      BY <1>1, <2>1, Zenon DEF ResultOK, Copied, Gone
    <2> QED BY <1>0, <1>1, <1>2, <2>1, <2>2, <2>3, Zenon DEF ResultOK, Moves
  <1>15. CASE MarkAvailable(p) \/ MarkLost(p)
    <2>1. /\ UNCHANGED <<staging, object>> /\ proc[p].pc = "markAvailable"
          /\ \/ row[r] = "PENDING" /\ row' = [row EXCEPT ![r] = "AVAILABLE"]
                /\ consumed' = [consumed EXCEPT ![r] = @ + 1]
             \/ row[r] = "AVAILABLE" /\ row' = row /\ consumed' = consumed
          /\ proc'[p].pc = "idle"
      BY <1>4, <1>15, Zenon DEF MarkAvailable, MarkLost, Report, At
    <2>2. ProcOK(p)'
      BY <1>7, <2>1, Zenon
    <2>3. r \in object /\ r \notin doubt
      BY <1>1, <2>1, Zenon DEF ResultOK, Copied, Gone
    <2>4. /\ row'[r] = "AVAILABLE"
          /\ consumed'[r] = IF row[r] = "PENDING" THEN consumed[r] + 1 ELSE consumed[r]
      BY <1>0, <1>1, <2>1, Zenon
    <2>5. consumed'[r] = 1
      BY <1>1, <2>1, <2>4 DEF ResultOK
    <2> QED BY <1>0, <1>1, <1>2, <2>1, <2>2, <2>3, <2>4, <2>5, Zenon DEF ResultOK, Moves, Gone
  <1>16. CASE PromotionFails(p)
    <2>1. /\ UNCHANGED <<row, staging, object, consumed>>
          /\ proc'[p].pc = "idle"
      BY <1>4, <1>16, Zenon DEF PromotionFails, Report, store
    <2>2. ProcOK(p)'
      BY <1>7, <2>1, Zenon
    <2> QED BY <1>0, <1>1, <1>2, <2>1, <2>2, Zenon DEF ResultOK, Moves
  <1> QED BY <1>11, <1>12, <1>13, <1>14, <1>15, <1>16, Zenon DEF Promote

\* A promotion's step keeps the invariant.
LEMMA PromoteStep ==
  ASSUME IInv, NEW p \in Promoter, Promote(p) \/ MarkLost(p) \/ PromotionFails(p)
  PROVE  IInv'
  <1>0. PICK r \in Result : r = Of(p)
    BY PromoteEffect, Zenon
  <1>1. /\ ArtifactTypeOK' /\ Frame(r)
        /\ \A q \in Promoter \ {p} : proc'[q] = proc[q]
        /\ UNCHANGED <<key, purger, cleaner, up>> /\ up
        /\ pass'.todo = pass.todo
    BY <1>0, PromoteEffect, Zenon DEF ProcTo
  <1>2. ResultOK(r)' /\ Moves(r) /\ ProcOK(p)'
    BY <1>0, PromoteOwn, Zenon
  <1>4. \A s \in Result : ResultOK(s)' /\ Moves(s)
    BY <1>1, <1>2, Elsewhere, Zenon DEF IInv
  <1>5. \A q \in Promoter : ProcOK(q)'
    BY <1>1, <1>2, <1>4, ProcStays, Zenon
  <1>6. (\A g \in Purger : PurgerOK(g)') /\ CleanerOK' /\ PassOK' /\ DownOK'
    BY <1>1, <1>4, PurgeStays, CleanerStays, PassStays, Zenon DEF DownOK
  <1> QED BY <1>1, <1>4, <1>5, <1>6, Zenon DEF IInv

\* A step that leaves the stores alone.
LEMMA StoreStays ==
  ASSUME IInv, UNCHANGED store
  PROVE  \A r \in Result : ResultOK(r)' /\ Moves(r)
  <1>1. UNCHANGED <<query, row, staging, object, key, doubt, consumed>>
    BY Zenon DEF store
  <1> QED BY <1>1, Zenon DEF IInv, ResultOK, Moves

\* A reader or the recovery pass takes up a result.
LEMMA TakeStep ==
  ASSUME IInv, NEW r \in Result,
         (\E p \in Reader : ReadPending(p, r)) \/ PassTakes(r)
  PROVE  IInv'
  <1>0. ArtifactTypeOK /\ ArtifactAssumption
    BY ArtifactAssumption, Zenon DEF IInv
  <1>1. PICK p \in Promoter \ Result :
              proc' = [proc EXCEPT ![p] = [pc |-> "statObject", result |-> r]]
    <2>1. ASSUME NEW p \in Reader, ReadPending(p, r)
          PROVE  p \in Promoter \ Result /\ proc' = [proc EXCEPT ![p] = [pc |-> "statObject", result |-> r]]
      BY <1>0, <2>1, Zenon DEF ReadPending, Promoter, ArtifactAssumption
    <2>2. ASSUME PassTakes(r)
          PROVE  /\ Reconciler \in Promoter \ Result
                 /\ proc' = [proc EXCEPT ![Reconciler] = [pc |-> "statObject", result |-> r]]
      BY <1>0, <2>2, Zenon DEF PassTakes, Promoter, ArtifactAssumption, Reconciler
    <2> QED BY <2>1, <2>2, Zenon
  <1>2. /\ UNCHANGED store /\ UNCHANGED <<failures, purger, cleaner, up, crashes, healthy>> /\ up
        /\ pass' = pass \/ pass' = [pass EXCEPT !.todo = @ \ {r}]
        /\ row[r] # "NONE"
    <2>1. CASE \E q \in Reader : ReadPending(q, r)
      BY <2>1, Zenon DEF ReadPending, env, At
    <2>2. CASE PassTakes(r)
      BY <2>2, Zenon DEF PassTakes, env, At, IInv, PassOK
    <2> QED BY <2>1, <2>2, Zenon
  <1>3. /\ pass' \in [phase : {"off", "starting", "promoting"}, todo : SUBSET Result, failed : Nat]
        /\ pass'.todo \subseteq pass.todo
    <2>1. /\ pass \in [phase : {"off", "starting", "promoting"}, todo : SUBSET Result, failed : Nat]
          /\ pass.todo \ {r} \in SUBSET Result
      BY <1>0, Zenon DEF ArtifactTypeOK
    <2>2. CASE pass' = [pass EXCEPT !.todo = @ \ {r}]
      <3>1. pass'.todo = pass.todo \ {r}
        BY <2>1, <2>2, Zenon
      <3> QED BY <2>1, <2>2, <3>1, Zenon
    <2> QED BY <1>2, <2>1, <2>2, Zenon
  <1>4. ProcTo(p, "statObject", r)
    BY <1>0, <1>1, ProcSet, Zenon DEF ProcPc, Promoting
  <1>5. ArtifactTypeOK'
    <2>1. proc' \in [Promoter -> ProcState]
      BY <1>4, Zenon DEF ProcTo
    <2> QED BY <1>0, <1>2, <1>3, <2>1, Zenon DEF ArtifactTypeOK, ProcState, ProcPc, store
  <1>6. \A s \in Result : ResultOK(s)' /\ Moves(s)
    BY <1>2, StoreStays, Zenon
  <1>7. ProcOK(p)'
    <2>1. proc'[p].pc = "statObject" /\ (Of(p))' = r /\ row'[r] # "NONE"
      BY <1>2, <1>4, Zenon DEF ProcTo, Of, store
    <2> QED BY <1>1, <2>1, Zenon DEF ProcOK, Unsettled, Working, Promoting, Copied
  <1>8. \A q \in Promoter : ProcOK(q)'
    BY <1>4, <1>6, <1>7, ProcStays, Zenon DEF ProcTo
  <1>9. (\A g \in Purger : PurgerOK(g)') /\ CleanerOK' /\ PassOK' /\ DownOK'
    BY <1>2, <1>3, <1>6, PurgeStays, CleanerStays, PassStays, Zenon DEF DownOK
  <1> QED BY <1>5, <1>6, <1>8, <1>9, Zenon DEF IInv

\* The recovery pass starts, lists the pending rows and ends.
LEMMA PassStep ==
  ASSUME IInv, PassStarts \/ PassLists \/ PassEnds
  PROVE  IInv'
  <1>0. ArtifactTypeOK
    BY Zenon DEF IInv
  <1>1. UNCHANGED store /\ UNCHANGED <<proc, purger, cleaner, up, crashes, healthy>> /\ up
    BY Zenon DEF PassStarts, PassLists, PassEnds, env, At
  <1>2. /\ pass' \in [phase : {"off", "starting", "promoting"}, todo : SUBSET Result, failed : Nat]
        /\ failures' \in Nat
    BY <1>0 DEF PassStarts, PassLists, PassEnds, ArtifactTypeOK, NewPass, NoPass
  <1>3. ArtifactTypeOK'
    BY <1>0, <1>1, <1>2, Zenon DEF ArtifactTypeOK, store
  <1>4. \A s \in Result : ResultOK(s)' /\ Moves(s)
    BY <1>1, StoreStays, Zenon
  <1>5. \A q \in Promoter : ProcOK(q)'
    BY <1>1, <1>4, ProcStays, Zenon
  <1>6. PassOK'
    <2>1. \A r \in pass'.todo : row[r] = "PENDING"
      BY DEF PassStarts, PassLists, PassEnds, NewPass, NoPass
    <2> QED BY <1>1, <2>1, Zenon DEF PassOK, store
  <1>7. (\A g \in Purger : PurgerOK(g)') /\ CleanerOK' /\ DownOK'
    BY <1>1, <1>4, PurgeStays, CleanerStays, Zenon DEF DownOK
  <1> QED BY <1>3, <1>4, <1>5, <1>6, <1>7, Zenon DEF IInv
-----------------------------------------------------------------------------
(* The cleanup of staging objects *)

\* The cleanup deletes only what no settlement needs.
LEMMA CleanerStep ==
  ASSUME IInv,
         \/ \E r \in Result : CleanerTakes(r)
         \/ CleanerLooksRow \/ CleanerLooksQuery \/ CleanerDeletes \/ CleanerFails
  PROVE  IInv'
  <1>0. ArtifactTypeOK /\ CleanerOK
    BY Zenon DEF IInv
  <1>1. /\ UNCHANGED <<query, row, object, key, held, doubt, proc, pass, failures, purger, up, crashes,
                       healthy, consumed>>
        /\ up
    BY Zenon DEF CleanerTakes, CleanerLooksRow, CleanerLooksQuery, CleanerDeletes, CleanerFails, store, env
  <1>2. staging' = staging \/ (cleaner.pc = "delete" /\ staging' = staging \ {cleaner.result})
    BY Zenon DEF CleanerTakes, CleanerLooksRow, CleanerLooksQuery, CleanerDeletes, CleanerFails, store
  <1>3. \/ cleaner' = Idle
        \/ \E r \in Result : cleaner' = [pc |-> "lookRow", result |-> r]
        \/ cleaner.pc = "lookRow" /\ cleaner' = [cleaner EXCEPT !.pc = "lookQuery"]
        \/ /\ cleaner.pc = "lookRow" /\ row[cleaner.result] \notin {"PENDING", "NONE"}
           /\ cleaner' = [cleaner EXCEPT !.pc = "delete"]
        \/ /\ cleaner.pc = "lookQuery" /\ query[cleaner.result] \notin {"RESERVED", "COMPLETED"}
           /\ cleaner' = [cleaner EXCEPT !.pc = "delete"]
    BY Zenon DEF CleanerTakes, CleanerLooksRow, CleanerLooksQuery, CleanerDeletes, CleanerFails
  <1>4. cleaner' \in [pc : {"idle", "lookRow", "lookQuery", "delete"}, result : Result \cup {NoResult}]
    BY <1>0, <1>3 DEF ArtifactTypeOK, Idle
  <1>5. ArtifactTypeOK'
    BY <1>0, <1>1, <1>2, <1>4, Zenon DEF ArtifactTypeOK
  <1>6. CleanerOK'
    <2>1. \A r \in Result : row[r] \in Row /\ query[r] \in {"RESERVED", "COMPLETED", "FAILED"}
      BY <1>0, Zenon DEF ArtifactTypeOK
    <2> QED BY <1>0, <1>1, <1>3, <2>1 DEF CleanerOK, Idle, Row, Gone, ArtifactTypeOK
  <1>7. ASSUME NEW r \in Result PROVE ResultOK(r)' /\ Moves(r)
    <2>0. ResultOK(r) /\ ProcOK(r)
      BY Zenon DEF IInv, Promoter
    <2>1. CASE r \in staging => r \in staging'
      BY <1>1, <2>0, <2>1, Zenon DEF ResultOK, Moves
    <2>2. CASE cleaner.pc = "delete" /\ r = cleaner.result
      <3>1. row[r] \in {"AVAILABLE"} \cup Gone \/ query[r] = "FAILED"
        BY <1>0, <2>2, Zenon DEF CleanerOK
      <3>2. r \notin doubt /\ row[r] # "PENDING" /\ proc[r].pc \notin Unsettled
        BY <2>0, <3>1, Zenon DEF ResultOK, ProcOK, Gone
      <3> QED BY <1>1, <2>0, <3>2, Zenon DEF ResultOK, Moves
    <2> QED BY <1>2, <2>1, <2>2, Zenon
  <1>8. \A q \in Promoter : ProcOK(q)'
    BY <1>1, <1>7, ProcStays, Zenon
  <1>9. (\A g \in Purger : PurgerOK(g)') /\ PassOK' /\ DownOK'
    BY <1>1, <1>7, PurgeStays, PassStays, Zenon DEF DownOK
  <1> QED BY <1>5, <1>6, <1>7, <1>8, <1>9, Zenon DEF IInv
-----------------------------------------------------------------------------
(* Retention *)

\* A step of a purge moves the purge and is about its result.
LEMMA PurgeEffect ==
  ASSUME IInv, NEW g \in Purger, Purge(g), NEW r \in Result, r = purger[g].result
  PROVE  /\ ArtifactTypeOK' /\ Frame(r) /\ up /\ row'[r] \in Gone
         /\ PurgeTo(g, "idle", NoResult) \/ \E pc \in PurgePc : PurgeTo(g, pc, r)
         /\ UNCHANGED <<query, key, held, doubt, proc, pass, cleaner, up, consumed>>
         /\ row[r] \in {"AVAILABLE"} \cup Gone
         /\ object' = object \/ row[r] \in Gone
         /\ row[r] = "AVAILABLE" => TaskOf[r] \notin held
  <1>0. /\ ArtifactTypeOK /\ PurgerOK(g) /\ row \in [Result -> Row]
    BY Zenon DEF IInv, ArtifactTypeOK
  <1>1. /\ UNCHANGED <<query, key, held, doubt, proc, pass, failures, cleaner, up, crashes, healthy,
                       consumed>>
        /\ up
    BY Zenon DEF Purge, PurgeClaims, PurgeDeletes, PurgeDropsStaging, PurgeTombstones, env
  <1>2. /\ row' = row \/ row' = [row EXCEPT ![r] = "DELETING"] \/ row' = [row EXCEPT ![r] = "DELETED"]
        /\ staging' = staging \/ staging' = staging \ {r}
        /\ object' = object \/ (object' = object \ {r} /\ row[r] \in Gone)
        /\ row[r] \in {"AVAILABLE"} \cup Gone /\ row'[r] \in Gone
        /\ row[r] = "AVAILABLE" => TaskOf[r] \notin held
    <2>1. CASE PurgeClaims(g)
      BY <1>0, <2>1, Zenon DEF PurgeClaims, Claimable, Gone
    <2>2. CASE PurgeDeletes(g)
      BY <1>0, <2>2, Zenon DEF PurgeDeletes, PurgerOK, Gone
    <2>3. CASE PurgeDropsStaging(g)
      BY <1>0, <2>3, Zenon DEF PurgeDropsStaging, Dropped, PurgerOK, Gone
    <2>4. CASE PurgeTombstones(g)
      BY <1>0, <2>4, Zenon DEF PurgeTombstones, Gone
    <2> QED BY <2>1, <2>2, <2>3, <2>4, Zenon DEF Purge
  <1>3. \/ PurgeTo(g, "idle", NoResult)
        \/ \E pc \in PurgePc : PurgeTo(g, pc, r)
    <2>1. \/ purger' = [purger EXCEPT ![g] = [pc |-> "idle", result |-> NoResult]]
          \/ \E pc \in PurgePc : purger' = [purger EXCEPT ![g].pc = pc]
      BY Zenon DEF Purge, PurgeClaims, PurgeDeletes, PurgeDropsStaging, PurgeTombstones, Idle, PurgePc
    <2>2. CASE purger' = [purger EXCEPT ![g] = [pc |-> "idle", result |-> NoResult]]
      BY <1>0, <2>2, PurgeSet, Zenon DEF PurgePc
    <2>3. CASE \E pc \in PurgePc : purger' = [purger EXCEPT ![g].pc = pc]
      BY <1>0, <2>3, PurgeGoto, Zenon
    <2> QED BY <2>1, <2>2, <2>3, Zenon
  <1>4. row' \in [Result -> Row] /\ \A s \in Result \ {r} : row'[s] = row[s]
    BY <1>0, <1>2, Zenon DEF Row
  <1>5. /\ staging' \subseteq Result /\ object' \subseteq Result
        /\ \A s \in Result \ {r} : (s \in staging' <=> s \in staging) /\ (s \in object' <=> s \in object)
    BY <1>0, <1>2, Zenon DEF ArtifactTypeOK
  <1>6. ArtifactTypeOK'
    <2>1. purger' \in [Purger -> PurgeState]
      BY <1>3, Zenon DEF PurgeTo
    <2> QED BY <1>0, <1>1, <1>4, <1>5, <2>1, Zenon DEF ArtifactTypeOK, PurgeState, PurgePc
  <1>7. Frame(r)
    BY <1>1, <1>4, <1>5, Zenon DEF Frame
  <1> QED BY <1>1, <1>2, <1>3, <1>6, <1>7, Zenon

\* A purge's step keeps the invariant.
LEMMA PurgeStep ==
  ASSUME IInv, NEW g \in Purger, Purge(g)
  PROVE  IInv'
  <1>0. PICK r \in Result : r = purger[g].result
    BY Zenon DEF IInv, PurgerOK, Purge, PurgeClaims, PurgeDeletes, PurgeDropsStaging, PurgeTombstones
  <1>1. /\ ArtifactTypeOK' /\ Frame(r) /\ up /\ row'[r] \in Gone
        /\ PurgeTo(g, "idle", NoResult) \/ \E pc \in PurgePc : PurgeTo(g, pc, r)
        /\ UNCHANGED <<query, key, doubt, proc, pass, cleaner, up, consumed>>
        /\ row[r] \in {"AVAILABLE"} \cup Gone
    BY <1>0, PurgeEffect, Zenon
  <1>2. ResultOK(r)' /\ Moves(r)
    <2>1. ResultOK(r) /\ ProcOK(r)
      BY Zenon DEF IInv, Promoter
    <2>2. proc[r].pc \notin Unsettled /\ r \notin doubt
      BY <1>1, <2>1, Zenon DEF ResultOK, ProcOK, Gone
    <2> QED BY <1>1, <2>1, <2>2, Zenon DEF ResultOK, Moves, Gone
  <1>3. \A s \in Result : ResultOK(s)' /\ Moves(s)
    BY <1>1, <1>2, Elsewhere, Zenon DEF IInv
  <1>4. PurgerOK(g)' /\ \A h \in Purger \ {g} : purger'[h] = purger[h]
    BY <1>1, Zenon DEF PurgeTo, PurgerOK
  <1>5. \A h \in Purger : PurgerOK(h)'
    BY <1>3, <1>4, PurgeStays, Zenon
  <1>6. (\A q \in Promoter : ProcOK(q)') /\ CleanerOK' /\ PassOK' /\ DownOK'
    BY <1>1, <1>3, ProcStays, CleanerStays, PassStays, Zenon DEF DownOK
  <1> QED BY <1>1, <1>3, <1>5, <1>6, Zenon DEF IInv

\* A purge that takes up a result or gives up.
LEMMA PurgeTurns ==
  ASSUME IInv, NEW g \in Purger, PurgeFails(g) \/ \E r \in Result : PurgeTakes(g, r)
  PROVE  IInv'
  <1>0. ArtifactTypeOK /\ row \in [Result -> Row]
    BY Zenon DEF IInv, ArtifactTypeOK
  <1>1. UNCHANGED store /\ UNCHANGED <<proc, pass, failures, cleaner, up, crashes, healthy>> /\ up
    BY Zenon DEF PurgeFails, PurgeTakes, env
  <1>2. PurgeTo(g, "idle", NoResult) \/ \E r \in Result :
          \/ PurgeTo(g, "claim", r)
          \/ row[r] \in Gone /\ PurgeTo(g, "delete", r)
    <2>1. CASE PurgeFails(g)
      BY <1>0, <2>1, PurgeSet, Zenon DEF PurgeFails, Idle, PurgePc
    <2>2. ASSUME NEW r \in Result, PurgeTakes(g, r)
          PROVE  PurgeTo(g, "claim", r) \/ (row[r] \in Gone /\ PurgeTo(g, "delete", r))
      <3>1. \/ purger' = [purger EXCEPT ![g] = [pc |-> "claim", result |-> r]]
            \/ row[r] \in Gone /\ purger' = [purger EXCEPT ![g] = [pc |-> "delete", result |-> r]]
        BY <2>2, Zenon DEF PurgeTakes, Gone
      <3> QED BY <1>0, <3>1, PurgeSet, Zenon DEF PurgePc
    <2> QED BY <2>1, <2>2, Zenon
  <1>3. ArtifactTypeOK'
    <2>1. purger' \in [Purger -> PurgeState]
      BY <1>2, Zenon DEF PurgeTo
    <2> QED BY <1>0, <1>1, <2>1, Zenon DEF ArtifactTypeOK, PurgeState, PurgePc, store
  <1>4. \A s \in Result : ResultOK(s)' /\ Moves(s)
    BY <1>1, StoreStays, Zenon
  <1>5. PurgerOK(g)' /\ \A h \in Purger \ {g} : purger'[h] = purger[h]
    BY <1>1, <1>2, Zenon DEF PurgeTo, PurgerOK, store
  <1>6. \A h \in Purger : PurgerOK(h)'
    BY <1>4, <1>5, PurgeStays, Zenon
  <1>7. (\A q \in Promoter : ProcOK(q)') /\ CleanerOK' /\ PassOK' /\ DownOK'
    BY <1>1, <1>4, ProcStays, CleanerStays, PassStays, Zenon DEF DownOK
  <1> QED BY <1>3, <1>4, <1>6, <1>7, Zenon DEF IInv

\* Holds, the erasure of the key and the stores' recovery.
LEMMA RetentionStep ==
  ASSUME IInv, (\E t \in Task : SetHold(t) \/ ClearHold(t)) \/ EraseKey \/ Heal
  PROVE  IInv'
  <1>0. ArtifactTypeOK
    BY Zenon DEF IInv
  <1>1. /\ UNCHANGED <<query, row, staging, object, doubt, proc, pass, failures, purger, cleaner, up,
                       crashes, consumed>>
        /\ key' = key \/ (key' = "ERASED" /\ doubt = {} /\ \A r \in Result : row[r] # "PENDING")
    BY Zenon DEF SetHold, ClearHold, EraseKey, Heal, store, env
  <1>2. held' \subseteq Task /\ healthy' \in BOOLEAN
    BY <1>0, Zenon DEF SetHold, ClearHold, EraseKey, Heal, store, env, ArtifactTypeOK
  <1>3. ArtifactTypeOK'
    BY <1>0, <1>1, <1>2, Zenon DEF ArtifactTypeOK
  <1>4. ASSUME NEW r \in Result PROVE ResultOK(r)' /\ Moves(r)
    <2>1. ResultOK(r)
      BY Zenon DEF IInv
    <2> QED BY <1>1, <2>1, Zenon DEF ResultOK, Moves
  <1>5. /\ (\A q \in Promoter : ProcOK(q)') /\ (\A g \in Purger : PurgerOK(g)')
        /\ CleanerOK' /\ PassOK' /\ DownOK'
    BY <1>1, <1>4, ProcStays, PurgeStays, CleanerStays, PassStays, Zenon DEF IInv, DownOK
  <1> QED BY <1>3, <1>4, <1>5, Zenon DEF IInv

\* A crash forgets every process and nothing in the stores.
LEMMA CrashStep ==
  ASSUME IInv, Crash
  PROVE  IInv'
  <1>0. ArtifactTypeOK
    BY Zenon DEF IInv
  <1>1. /\ UNCHANGED store /\ healthy' = healthy /\ up' = FALSE /\ crashes' = crashes + 1
        /\ proc' = [p \in Promoter |-> Idle] /\ purger' = [g \in Purger |-> Idle]
        /\ cleaner' = Idle /\ pass' = NoPass /\ failures' = 0
    BY Zenon DEF Crash
  <1>2. /\ Idle \in ProcState /\ Idle \in PurgeState /\ Idle.pc = "idle"
        /\ Idle \in [pc : {"idle", "lookRow", "lookQuery", "delete"}, result : Result \cup {NoResult}]
        /\ NoPass \in [phase : {"off", "starting", "promoting"}, todo : SUBSET Result, failed : Nat]
        /\ NoPass.todo = {}
    BY Zenon DEF Idle, ProcState, ProcPc, PurgeState, PurgePc, NoPass
  <1>3. ArtifactTypeOK'
    <2>1. proc' \in [Promoter -> ProcState] /\ purger' \in [Purger -> PurgeState]
      BY <1>1, <1>2, Zenon
    <2>2. crashes' \in Nat /\ failures' \in Nat
      BY <1>0, <1>1 DEF ArtifactTypeOK
    <2>3. up' \in BOOLEAN
      BY <1>1, Zenon
    <2> QED BY <1>0, <1>1, <1>2, <2>1, <2>2, <2>3, Zenon DEF ArtifactTypeOK, ProcState, ProcPc, PurgeState, PurgePc, store
  <1>4. \A r \in Result : ResultOK(r)'
    BY <1>1, StoreStays, Zenon
  <1>5. /\ \A p \in Promoter : proc'[p].pc = "idle"
        /\ \A g \in Purger : purger'[g].pc = "idle"
    BY <1>1, <1>2, Zenon
  <1>6. \A p \in Promoter : ProcOK(p)'
    BY <1>5, Zenon DEF ProcOK, Unsettled, Working, Promoting, Copied
  <1>7. (\A g \in Purger : PurgerOK(g)') /\ CleanerOK' /\ PassOK' /\ DownOK'
    BY <1>1, <1>2, <1>5, Zenon DEF PurgerOK, CleanerOK, PassOK, DownOK
  <1> QED BY <1>3, <1>4, <1>6, <1>7, Zenon DEF IInv

\* A restart settles the queries that were still reserved, none of which has a row.
LEMMA RestartStep ==
  ASSUME IInv, Restart
  PROVE  IInv'
  <1>0. ArtifactTypeOK
    BY Zenon DEF IInv
  <1>1. /\ doubt = {} /\ ~up /\ up' = TRUE /\ pass' = NewPass
        /\ query' = [r \in Result |-> IF query[r] = "RESERVED" THEN "FAILED" ELSE query[r]]
        /\ UNCHANGED <<row, staging, object, key, held, doubt, proc, failures, purger, cleaner, crashes,
                       healthy, consumed>>
    BY Zenon DEF Restart
  <1>2. /\ NewPass \in [phase : {"off", "starting", "promoting"}, todo : SUBSET Result, failed : Nat]
        /\ NewPass.todo = {}
    BY Zenon DEF NewPass, NoPass
  <1>3. query' \in [Result -> {"RESERVED", "COMPLETED", "FAILED"}]
    BY <1>0, <1>1, Zenon DEF ArtifactTypeOK
  <1>4. ArtifactTypeOK'
    BY <1>0, <1>1, <1>2, <1>3, Zenon DEF ArtifactTypeOK
  <1>5. \A p \in Promoter : proc[p].pc = "idle"
    BY <1>1, Zenon DEF IInv, DownOK
  <1>6. ASSUME NEW r \in Result PROVE ResultOK(r)' /\ Moves(r)
    <2>1. ResultOK(r) /\ proc[r].pc = "idle" /\ r \notin doubt
          /\ query'[r] = IF query[r] = "RESERVED" THEN "FAILED" ELSE query[r]
      BY <1>1, <1>5, Zenon DEF IInv, Promoter
    <2> QED BY <1>1, <2>1, Zenon DEF ResultOK, Moves, Unsettled
  <1>7. /\ (\A q \in Promoter : ProcOK(q)') /\ (\A g \in Purger : PurgerOK(g)') /\ CleanerOK'
    BY <1>1, <1>6, ProcStays, PurgeStays, CleanerStays, Zenon
  <1>8. PassOK' /\ DownOK'
    BY <1>1, <1>2, Zenon DEF PassOK, DownOK
  <1> QED BY <1>4, <1>6, <1>7, <1>8, Zenon DEF IInv
-----------------------------------------------------------------------------
(* The theorems *)

\* The invariant holds at the start.
LEMMA ArtifactInit == Init => IInv
  <1> SUFFICES ASSUME Init PROVE IInv
    BY Zenon
  <1>0. ArtifactAssumption
    BY ArtifactAssumption, Zenon
  <1>1. /\ Idle \in ProcState /\ Idle \in PurgeState /\ Idle.pc = "idle"
        /\ Idle \in [pc : {"idle", "lookRow", "lookQuery", "delete"}, result : Result \cup {NoResult}]
        /\ NoPass \in [phase : {"off", "starting", "promoting"}, todo : SUBSET Result, failed : Nat]
        /\ NoPass.todo = {}
        /\ \A r \in Result : [pc |-> "stage", result |-> r] \in ProcState
    BY Zenon DEF Idle, ProcState, ProcPc, Unsettled, PurgeState, PurgePc, NoPass
  <1>2. proc \in [Promoter -> ProcState] /\ purger \in [Purger -> PurgeState]
    BY <1>1, Zenon DEF Init
  <1>3. ArtifactTypeOK
    BY <1>1, <1>2, Zenon DEF Init, ArtifactTypeOK, ProcState, ProcPc, PurgeState, PurgePc, Row
  <1>4. \A r \in Result : ResultOK(r)
    BY Zenon DEF Init, ResultOK
  <1>5. ASSUME NEW p \in Promoter PROVE ProcOK(p)
    <2>1. CASE p \in Result
      <3>1. proc[p].pc = "stage" /\ Of(p) = p
        BY <2>1, Zenon DEF Init, Of
      <3> QED BY <2>1, <3>1, Zenon DEF Init, ProcOK, Unsettled, Working, Promoting, Copied
    <2>2. CASE p \notin Result
      <3>1. proc[p].pc = "idle"
        BY <1>1, <2>2, Zenon DEF Init
      <3> QED BY <2>2, <3>1, Zenon DEF ProcOK, Unsettled, Working, Promoting, Copied
    <2> QED BY <2>1, <2>2, Zenon
  <1>6. (\A g \in Purger : PurgerOK(g)) /\ CleanerOK /\ PassOK /\ DownOK
    BY <1>1, Zenon DEF Init, PurgerOK, CleanerOK, PassOK, DownOK
  <1> QED BY <1>3, <1>4, <1>5, <1>6, Zenon DEF IInv

\* Every step of the gateway, its stores and a crash keeps the invariant.
LEMMA ArtifactStep == IInv /\ [Next]_vars => IInv'
  <1> SUFFICES ASSUME IInv, [Next]_vars PROVE IInv'
    BY Zenon
  <1>1. CASE \E r \in Result : Worker(r) \/ ServerCommits(r) \/ ServerAborts(r)
    BY <1>1, WorkerStep, ServerStep, Zenon
  <1>2. CASE \E p \in Promoter : Promote(p) \/ MarkLost(p) \/ PromotionFails(p)
    BY <1>2, PromoteStep, Zenon
  <1>3. CASE (\E p \in Reader, r \in Result : ReadPending(p, r)) \/ \E r \in Result : PassTakes(r)
    BY <1>3, TakeStep, Zenon
  <1>4. CASE PassStarts \/ PassLists \/ PassEnds
    BY <1>4, PassStep, Zenon
  <1>5. CASE \/ \E r \in Result : CleanerTakes(r)
             \/ CleanerLooksRow \/ CleanerLooksQuery \/ CleanerDeletes \/ CleanerFails
    BY <1>5, CleanerStep, Zenon
  <1>6. CASE \E g \in Purger : Purge(g) \/ PurgeFails(g) \/ \E r \in Result : PurgeTakes(g, r)
    BY <1>6, PurgeStep, PurgeTurns, Zenon
  <1>7. CASE (\E t \in Task : SetHold(t) \/ ClearHold(t)) \/ EraseKey \/ Heal
    BY <1>7, RetentionStep, Zenon
  <1>8. CASE Crash \/ Restart
    BY <1>8, CrashStep, RestartStep, Zenon
  <1>9. CASE UNCHANGED vars
    BY <1>9 DEF vars, IInv, ArtifactTypeOK, ResultOK, ProcOK, PurgerOK, CleanerOK, PassOK, DownOK, Of
  <1> QED BY <1>1, <1>2, <1>3, <1>4, <1>5, <1>6, <1>7, <1>8, <1>9, Zenon DEF Next

\* The inductive invariant: what the two stores say about a result, and what every process
\* between two store calls can still rely on.
THEOREM ArtifactInvariant == Spec => []IInv
  BY ArtifactInit, ArtifactStep, PTL DEF Spec

\* Whatever the worker, the cleanup, purges, other promotions and crashes did, a result
\* that is settled or may still turn out settled can be published: its bytes are in the
\* staging or in the canonical object and the key is active.
THEOREM SettledIsRecoverable == Spec => []PendingIsRecoverable
  <1>1. IInv => PendingIsRecoverable
    BY Zenon DEF IInv, ResultOK, PendingIsRecoverable
  <1> QED BY <1>1, ArtifactInvariant, PTL

\* An AVAILABLE result has its canonical object, and however many promotions ended in it,
\* was reported consumed once.
THEOREM PublishedOnce == Spec => []AvailableIsPublished
  <1>1. IInv => AvailableIsPublished
    BY Zenon DEF IInv, ResultOK, AvailableIsPublished
  <1> QED BY <1>1, ArtifactInvariant, PTL

\* What HoldIsKept forbids, for one result.
Held(r) == TaskOf[r] \in held /\ row[r] \in {"PENDING", "AVAILABLE"}

\* Only a purge takes a canonical object or claims a row, and none of a task under hold.
LEMMA HoldStep ==
  ASSUME IInv, [Next]_vars, NEW r \in Result, Held(r)
  PROVE  row'[r] # "DELETING" /\ (r \in object => r \in object')
  <1>0. ArtifactTypeOK /\ row \in [Result -> Row]
    BY Zenon DEF IInv, ArtifactTypeOK
  <1>1. CASE \E g \in Purger : Purge(g)
    <2>1. PICK g \in Purger : Purge(g)
      BY <1>1, Zenon
    <2>2. PICK s \in Result : s = purger[g].result
      BY <2>1, Zenon DEF IInv, PurgerOK, Purge, PurgeClaims, PurgeDeletes, PurgeDropsStaging, PurgeTombstones
    <2>3. /\ Frame(s) /\ row[s] \in {"AVAILABLE"} \cup Gone
          /\ row[s] = "AVAILABLE" => TaskOf[s] \notin held
      BY <2>1, <2>2, PurgeEffect, Zenon
    <2>4. r # s
      BY <2>3, Zenon DEF Held, Gone
    <2> QED BY <2>3, <2>4, Zenon DEF Frame, Held
  <1>2. CASE ~\E g \in Purger : Purge(g)
    <2>1. object \subseteq object' /\ \/ row' = row
                                      \/ \E s \in Result : row' = [row EXCEPT ![s] = "PENDING"]
                                      \/ \E s \in Result : row' = [row EXCEPT ![s] = "AVAILABLE"]
      <3>1. CASE \E s \in Result : Worker(s) \/ ServerCommits(s) \/ ServerAborts(s)
        BY <3>1, Zenon DEF Worker, Stage, Finalize, FinalizeRefused, FinalizeInDoubt, Recheck, RecheckUnreadable,
                    RecheckStrands, Fail, ServerCommits, ServerAborts, store
      <3>2. CASE \E p \in Promoter : Promote(p) \/ MarkLost(p) \/ PromotionFails(p)
        <4>1. PICK p \in Promoter : Promote(p) \/ MarkLost(p) \/ PromotionFails(p)
          BY <3>2, Zenon
        <4>2. Of(p) \in Result
          BY <4>1, PromoteEffect, Zenon
        <4> QED BY <4>1, <4>2, Zenon DEF Promote, StatObject, ReadStaging, CreateObject, DropStaging, MarkAvailable,
                    MarkLost, PromotionFails, store
      <3>3. CASE \/ \E p \in Reader, s \in Result : ReadPending(p, s)
                 \/ PassStarts \/ PassLists \/ PassEnds
                 \/ \E s \in Result : PassTakes(s) \/ CleanerTakes(s)
                 \/ CleanerLooksRow \/ CleanerLooksQuery \/ CleanerDeletes \/ CleanerFails
        BY <3>3, Zenon DEF ReadPending, PassStarts, PassLists, PassEnds, PassTakes, CleanerTakes, CleanerLooksRow,
                    CleanerLooksQuery, CleanerDeletes, CleanerFails, store
      <3>4. CASE \/ \E g \in Purger : PurgeFails(g) \/ \E s \in Result : PurgeTakes(g, s)
                 \/ \E t \in Task : SetHold(t) \/ ClearHold(t)
                 \/ EraseKey \/ Crash \/ Restart \/ Heal \/ UNCHANGED vars
        BY <3>4, Zenon DEF PurgeFails, PurgeTakes, SetHold, ClearHold, EraseKey, Crash, Restart, Heal, store, vars
      <3> QED BY <1>2, <3>1, <3>2, <3>3, <3>4, Zenon DEF Next
    <2>2. row'[r] # "DELETING"
      BY <1>0, <2>1, Zenon DEF Held
    <2> QED BY <2>1, <2>2, Zenon
  <1> QED BY <1>1, <1>2, Zenon

\* A hold that was granted is kept, even against a purge that had listed the result before.
THEOREM HoldsAreKept == Spec => HoldIsKept
  <1>1. IInv /\ [Next]_vars =>
          [\A r \in Result : TaskOf[r] \in held /\ row[r] \in {"PENDING", "AVAILABLE"} =>
             /\ row'[r] # "DELETING"
             /\ r \in object => r \in object']_vars
    BY HoldStep, Zenon DEF Held
  <1> QED BY <1>1, ArtifactInvariant, PTL DEF Spec, HoldIsKept
=============================================================================
