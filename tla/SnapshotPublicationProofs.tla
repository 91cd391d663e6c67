--------------------- MODULE SnapshotPublicationProofs ---------------------
(***************************************************************************)
(* SnapshotPublication for any number of publishers, installers, builds    *)
(* and faults.  The inductive invariant says, of each publisher, what its  *)
(* directory holds at each step and which listings of the base a power     *)
(* loss may bring back: a directory that may be found under the name of    *)
(* the publication was complete and synced before it could get there, and  *)
(* one that was reported is under that name in every listing.              *)
(***************************************************************************)
EXTENDS SnapshotPublication, FiniteSetTheorems, TLAPS

Listing == [Publisher -> {"none", "staged", "final"}]
Before == {"begin", "stage", "write", "sync", "rename", "open", "compare"}

Partial == {{}, {"hot"}, {"hot", "cold"}, {"hot", "cold", "sidecar"}}

PublisherType ==
    /\ build \in [Publisher -> Build]
    /\ lenient \in SUBSET Publisher
    /\ pc \in [Publisher -> Running \union {"ended", "killed"}]
    /\ verdict \in [Publisher -> {"none", "published", "identical", "failed"}]
    /\ existing \in [Publisher -> Publisher \union {NoPublisher}]

DiskType ==
    /\ place \in durable /\ durable \subseteq Listing
    /\ files \in [Publisher -> SUBSET File]
    /\ certain \in [Publisher -> SUBSET File]
    /\ possible \in [Publisher -> SUBSET File]
    /\ flushed \in [Publisher -> SUBSET File]
    /\ torn \in [Publisher -> SUBSET File]
    /\ outages \in Nat

JobType ==
    /\ job \in [Installer -> [pc : {"load", "begin", "lock", "locked", "installed", "refused"},
                              bundle : Build \union {NoBuild}, saw : BOOLEAN]]
    /\ sidecar \in [meta : Build \union {NoBuild}, rows : Build \union {NoBuild}]

Solid(p) == files[p] = File /\ certain[p] = File /\ flushed[p] = File /\ torn[p] = {}
MayBeFinal(p) == \E l \in durable : l[p] = "final"

\* What a publisher has in its directory, and where the directory may be.
Staging(p) ==
    /\ pc[p] \in {"begin", "stage"} => files[p] = {} /\ flushed[p] = {}
    /\ pc[p] = "write" => files[p] \in Partial /\ flushed[p] = files[p]
    /\ pc[p] = "sync" => files[p] = File /\ flushed[p] = File
    /\ pc[p] \in Before => torn[p] = {} /\ ~MayBeFinal(p)
    /\ pc[p] \in {"rename", "persist"} => Solid(p)

Finals(p) ==
    /\ MayBeFinal(p) /\ verdict[p] # "failed" => Solid(p)
    /\ verdict[p] = "identical" => ~MayBeFinal(p)
    /\ Returned(p, "published") => \A l \in durable : l[p] = "final"
    /\ Returned(p, "identical") /\ outages = 0 => place[p] = "none"

\* What a publisher is about to return at each step.
Verdicts(p) ==
    /\ pc[p] \in Before \union {"persist"} => verdict[p] = "none"
    /\ pc[p] \in {"rollback", "disable"} => verdict[p] = "failed"
    /\ pc[p] = "clean" => verdict[p] \in {"failed", "identical"}
    /\ pc[p] = "ended" => verdict[p] # "none"

\* The directory of e has the name of the publication, or lost it in one of two ways.
TakenBack(e) == verdict[e] = "failed" \/ (pc[e] = "killed" /\ outages > 0)

Accepted(p) ==
    /\ pc[p] = "compare" \/ verdict[p] = "identical" => existing[p] \in Publisher
    /\ verdict[p] = "identical" => build[existing[p]] = build[p]
    /\ existing[p] \in Publisher => At(existing[p]) \/ TakenBack(existing[p])

OneFinal == \A l \in durable, p, q \in Publisher : l[p] = "final" /\ l[q] = "final" => p = q

Installing(i) ==
    /\ job[i].pc \in {"begin", "lock", "locked"} =>
          \E e \in Publisher : build[e] = job[i].bundle /\ (At(e) \/ verdict[e] = "failed")
    /\ job[i].pc = "installed" => job[i].bundle \in Build /\ sidecar.meta = job[i].bundle

Installed ==
    /\ sidecar # Empty => sidecar.meta \in Build
    /\ sidecar.rows # sidecar.meta => \E p \in Publisher : verdict[p] = "failed"

PublisherInv ==
    /\ PublisherType /\ DiskType
    /\ \A p \in Publisher : Staging(p) /\ Finals(p) /\ Verdicts(p)

Inv ==
    /\ PublisherInv
    /\ \A p \in Publisher : Accepted(p)
    /\ OneFinal
    /\ JobType /\ Installed
    /\ \A i \in Installer : Installing(i)

-----------------------------------------------------------------------------
(* Helpers. *)

\* A publisher writes the hot file, then the cold one, the sidecar and the manifest.
LEMMA NextFiles ==
    ASSUME NEW p \in Publisher, files[p] \in Partial
    PROVE  /\ NextFile(p) \in File
           /\ NextFile(p) # "manifest" => files[p] \union {NextFile(p)} \in Partial
           /\ NextFile(p) = "manifest" => files[p] \union {NextFile(p)} = File
<1>1. Cardinality({}) = 0 /\ IsFiniteSet({})
  BY FS_EmptySet, Zenon
<1>2. Cardinality({"hot"}) = 1 /\ IsFiniteSet({"hot"})
  BY FS_Singleton, Zenon
<1>3. Cardinality({"hot", "cold"}) = 2 /\ IsFiniteSet({"hot", "cold"})
  <2>1. {"hot"} \union {"cold"} = {"hot", "cold"} /\ "cold" \notin {"hot"}
    BY Zenon
  <2>2. Cardinality({"hot"} \union {"cold"}) = 1 + 1 /\ IsFiniteSet({"hot"} \union {"cold"})
    BY ONLY <1>2, <2>1, FS_AddElement, Zenon
  <2> QED BY <2>1, <2>2
<1>4. Cardinality({"hot", "cold", "sidecar"}) = 3
  <2>1. {"hot", "cold"} \union {"sidecar"} = {"hot", "cold", "sidecar"} /\ "sidecar" \notin {"hot", "cold"}
    BY Zenon
  <2>2. Cardinality({"hot", "cold"} \union {"sidecar"}) = 2 + 1
    BY ONLY <1>3, <2>1, FS_AddElement, Zenon
  <2> QED BY <2>1, <2>2
<1>5. Order[1] = "hot" /\ Order[2] = "cold" /\ Order[3] = "sidecar" /\ Order[4] = "manifest"
  BY Zenon DEF Order
<1>6. File = {"hot", "cold", "sidecar", "manifest"}
  <2>1. 1..4 = {1, 2, 3, 4}
    OBVIOUS
  <2> QED BY <1>5, <2>1, Zenon DEF File
<1> QED BY <1>1, <1>2, <1>3, <1>4, <1>5, <1>6 DEF NextFile, Partial

\* What is not touched stays as it was, when no new listing says anything new of it.
LEMMA Frame ==
    ASSUME PublisherInv, NEW q \in Publisher,
           pc'[q] = pc[q], verdict'[q] = verdict[q], place'[q] = place[q], outages' = outages,
           files'[q] = files[q], certain'[q] = certain[q], flushed'[q] = flushed[q], torn'[q] = torn[q],
           \A l \in durable' : \E k \in durable : l[q] = k[q]
    PROVE  Staging(q)' /\ Finals(q)' /\ Verdicts(q)'
<1>1. MayBeFinal(q)' => MayBeFinal(q)
  BY Zenon DEF MayBeFinal
<1>2. Solid(q)' <=> Solid(q)
  BY Zenon DEF Solid
<1>3. Staging(q) /\ Finals(q) /\ Verdicts(q)
  BY Zenon DEF PublisherInv
<1>4. Staging(q)'
  BY <1>1, <1>2, <1>3, Zenon DEF Staging
<1>5. Finals(q)'
  BY <1>1, <1>2, <1>3, Zenon DEF Finals, Returned
<1>6. Verdicts(q)'
  BY <1>3, Zenon DEF Verdicts
<1> QED BY <1>4, <1>5, <1>6, Zenon
-----------------------------------------------------------------------------
(* The publishers. *)

\* A step of p leaves the other publishers and their directories alone, and no
\* listing says anything new of them.
LEMMA Others ==
    ASSUME PublisherInv, NEW p \in Publisher, Publish(p), NEW q \in Publisher, q # p
    PROVE  /\ pc'[q] = pc[q] /\ verdict'[q] = verdict[q] /\ place'[q] = place[q] /\ outages' = outages
           /\ files'[q] = files[q] /\ certain'[q] = certain[q] /\ flushed'[q] = flushed[q]
           /\ torn'[q] = torn[q] /\ existing'[q] = existing[q] /\ build' = build
           /\ \A l \in durable' : \E k \in durable : l[q] = k[q]
<1> USE DEF PublisherInv, PublisherType, DiskType, Listing, disk, compiler, database, Moved, MovedAndSynced,
            Returns, CleansUp, Goes, Fault
<1>1. CASE Begin(p)            BY <1>1, Zenon DEF Begin
<1>2. CASE Stage(p)            BY <1>2 DEF Stage
<1>3. CASE WriteFile(p)        BY <1>3, Zenon DEF WriteFile
<1>4. CASE SyncStaging(p)      BY <1>4, Zenon DEF SyncStaging
<1>5. CASE Rename(p)           BY <1>5 DEF Rename
<1>6. CASE OpenExisting(p)     BY <1>6, Zenon DEF OpenExisting
<1>7. CASE CompareExisting(p)  BY <1>7, Zenon DEF CompareExisting
<1>8. CASE Persist(p)          BY <1>8, Zenon DEF Persist
<1>9. CASE PersistFails(p)     BY <1>9, Zenon DEF PersistFails
<1>10. CASE Rollback(p)        BY <1>10 DEF Rollback
<1>11. CASE RollbackFails(p)   BY <1>11, Zenon DEF RollbackFails
<1>12. CASE Disable(p)         BY <1>12, Zenon DEF Disable
<1>13. CASE Clean(p)           BY <1>13 DEF Clean
<1>14. CASE Fails(p)           BY <1>14, Zenon DEF Fails
<1>15. CASE Kill(p)            BY <1>15, Zenon DEF Kill
<1> QED
  BY <1>1, <1>2, <1>3, <1>4, <1>5, <1>6, <1>7, <1>8, <1>9, <1>10, <1>11, <1>12, <1>13, <1>14, <1>15, Zenon
     DEF Publish

\* Every step of a publisher keeps the types.
LEMMA PublisherTypes ==
    ASSUME PublisherInv, NEW p \in Publisher, Publish(p)
    PROVE  PublisherType' /\ DiskType'
<1> USE DEF PublisherInv, PublisherType, DiskType, Listing, disk, compiler, database, Moved, MovedAndSynced,
            Returns, CleansUp, Goes, Fault, Running
<1>1. CASE Begin(p)            BY <1>1, Zenon DEF Begin
<1>2. CASE Stage(p)            BY <1>2 DEF Stage
<1>3. CASE WriteFile(p)
  <2>1. NextFile(p) \in File
    BY <1>3, NextFiles, Zenon DEF WriteFile, Staging
  <2> QED BY <1>3, <2>1 DEF WriteFile
<1>4. CASE SyncStaging(p)      BY <1>4, Zenon DEF SyncStaging
<1>5. CASE Rename(p)           BY <1>5 DEF Rename
<1>6. CASE OpenExisting(p)     BY <1>6 DEF OpenExisting, NameTaken
<1>7. CASE CompareExisting(p)  BY <1>7, Zenon DEF CompareExisting
<1>8. CASE Persist(p)          BY <1>8, Zenon DEF Persist
<1>9. CASE PersistFails(p)     BY <1>9, Zenon DEF PersistFails
<1>10. CASE Rollback(p)        BY <1>10 DEF Rollback
<1>11. CASE RollbackFails(p)   BY <1>11, Zenon DEF RollbackFails
<1>12. CASE Disable(p)         BY <1>12 DEF Disable
<1>13. CASE Clean(p)           BY <1>13 DEF Clean
<1>14. CASE Fails(p)           BY <1>14, Zenon DEF Fails
<1>15. CASE Kill(p)            BY <1>15, Zenon DEF Kill
<1> QED
  BY <1>1, <1>2, <1>3, <1>4, <1>5, <1>6, <1>7, <1>8, <1>9, <1>10, <1>11, <1>12, <1>13, <1>14, <1>15, Zenon
     DEF Publish

\* The publisher that takes the step: its directory, the listings it may be found in
\* and its verdict agree again afterwards.
LEMMA OwnStep ==
    ASSUME PublisherInv, NEW p \in Publisher, Publish(p)
    PROVE  Staging(p)' /\ Finals(p)' /\ Verdicts(p)'
<1>1. PublisherType /\ DiskType /\ Staging(p) /\ Finals(p) /\ Verdicts(p)
  BY Zenon DEF PublisherInv
<1> USE DEF PublisherType, DiskType, Listing, disk, compiler, database, Moved, MovedAndSynced, At, Whole,
            Returns, CleansUp, Goes, Fault, Running, Before, Staging, Finals, Verdicts, Returned, Solid, MayBeFinal
<1>2. CASE Begin(p)
  BY <1>1, <1>2 DEF Begin
<1>3. CASE Stage(p)
  <2>1. {} \in Partial
    BY Zenon DEF Partial
  <2>2. ~MayBeFinal(p)'
    BY <1>1, <1>3 DEF Stage
  <2>3. /\ pc'[p] = "write" /\ verdict'[p] = "none" /\ verdict[p] = "none"
        /\ files'[p] = {} /\ flushed'[p] = {} /\ torn'[p] = {}
    BY <1>1, <1>3, Zenon DEF Stage
  <2>4. Staging(p)'
    BY <2>1, <2>2, <2>3, Zenon
  <2>5. Finals(p)' /\ Verdicts(p)'
    BY <2>2, <2>3, Zenon
  <2> QED BY <2>4, <2>5, Zenon
<1>4. CASE WriteFile(p)
  <2>1. /\ NextFile(p) # "manifest" => files[p] \union {NextFile(p)} \in Partial
        /\ NextFile(p) = "manifest" => files[p] \union {NextFile(p)} = File
    BY <1>1, <1>4, NextFiles, Zenon DEF WriteFile
  <2> QED BY <1>1, <1>4, <2>1, Zenon DEF WriteFile
<1>5. CASE SyncStaging(p)
  BY <1>1, <1>5, Zenon DEF SyncStaging
<1>6. CASE Rename(p)
  BY <1>1, <1>6 DEF Rename
<1>7. CASE OpenExisting(p)
  BY <1>1, <1>7 DEF OpenExisting
<1>8. CASE CompareExisting(p)
  BY <1>1, <1>8, Zenon DEF CompareExisting
<1>9. CASE Persist(p)
  BY <1>1, <1>9, Zenon DEF Persist
<1>10. CASE PersistFails(p)
  BY <1>1, <1>10, Zenon DEF PersistFails
<1>11. CASE Rollback(p)
  BY <1>1, <1>11, Zenon DEF Rollback
<1>12. CASE RollbackFails(p)
  BY <1>1, <1>12, Zenon DEF RollbackFails
<1>13. CASE Disable(p)
  BY <1>1, <1>13, Zenon DEF Disable
<1>14. CASE Clean(p)
  BY <1>1, <1>14, SMTT(60) DEF Clean
<1>15. CASE Fails(p)
  BY <1>1, <1>15 DEF Fails
<1>16. CASE Kill(p)
  BY <1>1, <1>16, Zenon DEF Kill
<1> QED
  BY <1>2, <1>3, <1>4, <1>5, <1>6, <1>7, <1>8, <1>9, <1>10, <1>11, <1>12, <1>13, <1>14, <1>15, <1>16, Zenon
     DEF Publish

\* Synced files and listings survive a power loss, and nothing appears that was not
\* possible before.
LEMMA PowerLossKeeps ==
    ASSUME PublisherInv, PowerLoss
    PROVE  PublisherInv'
<1> USE DEF PublisherInv, PublisherType, DiskType, Listing, PowerLoss, Fault
<1>1. PublisherType'
  BY Zenon DEF Running
<1>2. DiskType'
  OBVIOUS
<1>3. ASSUME NEW p \in Publisher
      PROVE  Staging(p)' /\ Finals(p)' /\ Verdicts(p)'
  <2>1. MayBeFinal(p)' => MayBeFinal(p)
    BY Zenon DEF MayBeFinal
  <2>2. Solid(p) => Solid(p)'
    BY Zenon DEF Solid
  <2>3. pc'[p] \in {"ended", "killed"} /\ (pc'[p] = "ended" <=> pc[p] = "ended") /\ verdict'[p] = verdict[p]
    BY Zenon DEF Running
  <2>4. Staging(p)' /\ Verdicts(p)'
    BY <2>3, Zenon DEF Staging, Verdicts, Before
  <2>5. Finals(p)'
    BY <2>1, <2>2, <2>3 DEF Finals, Returned
  <2> QED BY <2>4, <2>5, Zenon
<1> QED BY <1>1, <1>2, <1>3, Zenon

\* A step of a publisher keeps what is said of all of them.
LEMMA PublisherKeeps ==
    ASSUME PublisherInv, NEW p \in Publisher, Publish(p)
    PROVE  PublisherInv'
<1>1. PublisherType' /\ DiskType'
  BY PublisherTypes, Zenon
<1>2. Staging(p)' /\ Finals(p)' /\ Verdicts(p)'
  BY OwnStep, Zenon
<1>3. ASSUME NEW q \in Publisher, q # p
      PROVE  Staging(q)' /\ Finals(q)' /\ Verdicts(q)'
  BY <1>3, Others, Frame, Zenon
<1> QED BY <1>1, <1>2, <1>3, Zenon DEF PublisherInv

\* A directory loses the name of the publication only when its publisher takes it back,
\* or in a power loss that also stops its publisher.
LEMMA NameIsKept ==
    ASSUME PublisherInv, NEW e \in Publisher, At(e), NEW p \in Publisher, Publish(p)
    PROVE  At(e)' \/ verdict'[e] = "failed"
<1>1. CASE e # p
  BY <1>1, Others, Zenon DEF At
<1>2. CASE e = p
  <2>1. MayBeFinal(p)
    BY <1>2, Zenon DEF At, MayBeFinal, PublisherInv, DiskType
  <2>2. pc[p] \notin Before /\ verdict[p] # "identical"
    BY <2>1, Zenon DEF PublisherInv, Staging, Finals
  <2>3. pc[p] \in {"persist", "rollback", "disable", "clean"}
    BY <2>2, Zenon DEF Publish, Before, Running, Begin, Stage, WriteFile, SyncStaging, Rename, OpenExisting,
       CompareExisting, Persist, PersistFails, Rollback, RollbackFails, Disable, Clean, Fails, Kill
  <2>4. CASE pc[p] = "persist"
    BY <1>2, <2>4, Zenon DEF At, Publish, Begin, Stage, WriteFile, SyncStaging, Rename, OpenExisting,
       CompareExisting, Persist, PersistFails, Rollback, RollbackFails, Disable, Clean, Fails, Kill, disk
  <2>5. CASE pc[p] # "persist"
    <3>1. verdict[p] = "failed"
      BY <2>2, <2>3, <2>5, Zenon DEF PublisherInv, Verdicts
    <3>2. verdict'[p] = "failed"
      BY <2>3, <2>5, <3>1, Zenon DEF Publish, Begin, Stage, WriteFile, SyncStaging, Rename, OpenExisting,
         CompareExisting, Persist, PersistFails, Rollback, RollbackFails, Disable, Clean, Fails, Kill,
         Goes, Returns, CleansUp, PublisherInv, PublisherType
    <3> QED BY <1>2, <3>2, Zenon
  <2> QED BY <2>4, <2>5, Zenon
<1> QED BY <1>1, <1>2, Zenon

\* A power loss that takes the name from a directory stopped its publisher, or found it
\* failed.
LEMMA NameInPowerLoss ==
    ASSUME PublisherInv, NEW e \in Publisher, At(e), PowerLoss
    PROVE  At(e)' \/ TakenBack(e)'
<1>1. MayBeFinal(e)
  BY Zenon DEF At, MayBeFinal, PublisherInv, DiskType
<1>2. pc'[e] = "killed" \/ (pc[e] = "ended" /\ pc'[e] = "ended")
  BY Zenon DEF PowerLoss, Running, PublisherInv, PublisherType
<1>3. CASE pc'[e] = "killed"
  BY <1>3 DEF TakenBack, PowerLoss, PublisherInv, DiskType
<1>4. CASE pc[e] = "ended"
  <2>1. verdict[e] \in {"published", "failed"}
    BY <1>1, <1>4, Zenon DEF PublisherInv, PublisherType, Verdicts, Finals
  <2>2. CASE verdict[e] = "failed"
    BY <2>2, Zenon DEF TakenBack, PowerLoss
  <2>3. CASE verdict[e] = "published"
    BY <1>4, <2>3, Zenon DEF PublisherInv, Finals, Returned, PowerLoss, At
  <2> QED BY <2>1, <2>2, <2>3, Zenon
<1> QED BY <1>2, <1>3, <1>4, Zenon

\* A failed verdict is final.
LEMMA FailedIsFinal ==
    ASSUME PublisherInv, NEW e \in Publisher, verdict[e] = "failed", NEW p \in Publisher, Publish(p)
    PROVE  verdict'[e] = "failed"
<1>1. CASE e # p
  BY <1>1, Others, Zenon
<1>2. CASE e = p
  <2>1. pc[p] \notin Before \union {"persist"}
    BY <1>2, Zenon DEF PublisherInv, Verdicts
  <2> QED
    BY <1>2, <2>1, Zenon DEF Before, Publish, Begin, Stage, WriteFile, SyncStaging, Rename, OpenExisting,
         CompareExisting, Persist, PersistFails, Rollback, RollbackFails, Disable, Clean, Fails, Kill,
         Goes, Returns, CleansUp, PublisherInv, PublisherType
<1> QED BY <1>1, <1>2, Zenon

\* A directory that had the name of the publication has it, or was taken back.
LEMMA StillThere ==
    ASSUME PublisherInv, NEW e \in Publisher, At(e) \/ TakenBack(e), NEW p \in Publisher, Publish(p)
    PROVE  At(e)' \/ TakenBack(e)'
<1>1. CASE At(e)
  BY <1>1, NameIsKept, Zenon DEF TakenBack
<1>2. CASE verdict[e] = "failed"
  BY <1>2, FailedIsFinal, Zenon DEF TakenBack
<1>3. CASE pc[e] = "killed" /\ outages > 0
  <2>1. e # p
    BY <1>3, Zenon DEF Publish, Running, Begin, Stage, WriteFile, SyncStaging, Rename, OpenExisting,
       CompareExisting, Persist, PersistFails, Rollback, RollbackFails, Disable, Clean, Fails, Kill
  <2> QED BY <1>3, <2>1, Others, Zenon DEF TakenBack
<1> QED BY <1>1, <1>2, <1>3, Zenon DEF TakenBack

\* What a lenient publisher compared with its own bundle had the name of the publication
\* when it was opened.
LEMMA AcceptedKept ==
    ASSUME PublisherInv, \A q \in Publisher : Accepted(q), NEW p \in Publisher, Publish(p)
    PROVE  \A q \in Publisher : Accepted(q)'
<1>1. \A e \in Publisher : At(e) \/ TakenBack(e) => At(e)' \/ TakenBack(e)'
  BY StillThere, Zenon
<1>2. ASSUME NEW q \in Publisher, q # p
      PROVE  Accepted(q)'
  <2>1. /\ pc'[q] = pc[q] /\ verdict'[q] = verdict[q]
        /\ existing'[q] = existing[q] /\ build' = build
    BY <1>2, Others, Zenon
  <2> QED BY ONLY <1>1, <2>1, \A e \in Publisher : Accepted(e), q \in Publisher, Zenon DEF Accepted
<1>3. build' = build
  BY Zenon DEF Publish, Begin, Stage, WriteFile, SyncStaging, Rename, OpenExisting, CompareExisting, Persist,
     PersistFails, Rollback, RollbackFails, Disable, Clean, Fails, Kill, Goes, Returns, CleansUp
<1>4. Accepted(p)'
  <2> USE DEF PublisherInv, PublisherType, Goes, Returns, CleansUp
  <2>1. CASE OpenExisting(p)
    <3>1. CASE NameTaken
      <4>1. existing'[p] \in Publisher /\ At(existing'[p])
        BY <2>1, <3>1, Zenon DEF OpenExisting, NameTaken
      <4>2. verdict'[p] = "none"
        BY <2>1, <3>1, Zenon DEF OpenExisting, Verdicts, Before
      <4> QED BY <1>1, <4>1, <4>2, Zenon DEF Accepted
    <3>2. CASE ~NameTaken
      <4>1. existing'[p] = existing[p] /\ verdict'[p] = "failed" /\ pc'[p] = "clean"
        BY <2>1, <3>2, Zenon DEF OpenExisting
      <4> QED BY <1>1, <4>1, Zenon DEF Accepted
    <3> QED BY <3>1, <3>2, Zenon
  <2>2. CASE CompareExisting(p)
    <3>1. existing'[p] = existing[p] /\ existing[p] \in Publisher
      BY <2>2, Zenon DEF CompareExisting, Accepted
    <3>2. verdict'[p] = "identical" => build[existing[p]] = build[p]
      BY <2>2, Zenon DEF CompareExisting, Identical
    <3>3. pc'[p] = "clean"
      BY <2>2, Zenon DEF CompareExisting
    <3> QED BY <1>1, <1>3, <3>1, <3>2, <3>3, Zenon DEF Accepted
  <2>3. CASE ~OpenExisting(p) /\ ~CompareExisting(p)
    <3>1. existing'[p] = existing[p] /\ pc'[p] # "compare"
      BY <2>3, Zenon DEF Publish, Begin, Stage, WriteFile, SyncStaging, Rename, Persist,
         PersistFails, Rollback, RollbackFails, Disable, Clean, Fails, Kill
    <3>2. verdict'[p] = "identical" => verdict[p] = "identical"
      BY <2>3, Zenon DEF Publish, Begin, Stage, WriteFile, SyncStaging, Rename, Persist,
         PersistFails, Rollback, RollbackFails, Disable, Clean, Fails, Kill
    <3> QED BY <1>1, <1>3, <3>1, <3>2, Zenon DEF Accepted
  <2> QED BY <2>1, <2>2, <2>3, Zenon
<1> QED BY <1>2, <1>4, Zenon

\* A power loss takes an accepted bundle away in the two known ways only.
LEMMA AcceptedInPowerLoss ==
    ASSUME PublisherInv, \A q \in Publisher : Accepted(q), PowerLoss
    PROVE  \A q \in Publisher : Accepted(q)'
<1>1. ASSUME NEW e \in Publisher, At(e) \/ TakenBack(e)
      PROVE  At(e)' \/ TakenBack(e)'
  <2>1. CASE At(e)
    BY <2>1, NameInPowerLoss, Zenon
  <2>2. CASE TakenBack(e)
    BY <2>2 DEF TakenBack, PowerLoss, Running, PublisherInv, PublisherType, DiskType
  <2> QED BY <1>1, <2>1, <2>2, Zenon
<1>2. ASSUME NEW q \in Publisher
      PROVE  pc'[q] # "compare" /\ verdict' = verdict /\ existing' = existing /\ build' = build
  BY Zenon DEF PowerLoss, Running, PublisherInv, PublisherType
<1> QED BY <1>1, <1>2, Zenon DEF Accepted

\* No listing has two directories under the name of the publication: the rename does
\* not replace.
LEMMA OneFinalKept ==
    ASSUME PublisherInv, OneFinal, NEW p \in Publisher, Publish(p)
    PROVE  OneFinal'
<1>1. ASSUME NEW l \in durable', l \notin durable, NEW a \in Publisher, NEW b \in Publisher,
             l[a] = "final", l[b] = "final"
      PROVE  a = b
  <2>1. l = place'
    <3> SUFFICES durable' \subseteq durable \cup {place'}
      BY <1>1, Zenon
    <3> USE DEF PublisherInv, DiskType, disk, Moved, MovedAndSynced
    <3>1. CASE Begin(p)            BY <3>1, Zenon DEF Begin
    <3>2. CASE Stage(p)            BY <3>2, Zenon DEF Stage
    <3>3. CASE WriteFile(p)        BY <3>3, Zenon DEF WriteFile
    <3>4. CASE SyncStaging(p)      BY <3>4, Zenon DEF SyncStaging
    <3>5. CASE Rename(p)           BY <3>5, Zenon DEF Rename
    <3>6. CASE OpenExisting(p)     BY <3>6, Zenon DEF OpenExisting
    <3>7. CASE CompareExisting(p)  BY <3>7, Zenon DEF CompareExisting
    <3>8. CASE Persist(p)          BY <3>8, Zenon DEF Persist
    <3>9. CASE PersistFails(p)     BY <3>9, Zenon DEF PersistFails
    <3>10. CASE Rollback(p)        BY <3>10, Zenon DEF Rollback
    <3>11. CASE RollbackFails(p)   BY <3>11, Zenon DEF RollbackFails
    <3>12. CASE Disable(p)         BY <3>12, Zenon DEF Disable
    <3>13. CASE Clean(p)           BY <3>13, Zenon DEF Clean
    <3>14. CASE Fails(p)           BY <3>14, Zenon DEF Fails
    <3>15. CASE Kill(p)            BY <3>15, Zenon DEF Kill
    <3> QED
      BY <3>1, <3>2, <3>3, <3>4, <3>5, <3>6, <3>7, <3>8, <3>9, <3>10, <3>11, <3>12, <3>13, <3>14, <3>15, Zenon
         DEF Publish
  <2>2. \A q \in Publisher : q # p => place'[q] = place[q]
    BY Others, Zenon
  <2>3. place'[p] = "final" => At(p) \/ ~NameTaken
    BY Zenon DEF Publish, Begin, Stage, WriteFile, SyncStaging, Rename, OpenExisting, CompareExisting, Persist,
       PersistFails, Rollback, RollbackFails, Disable, Clean, Fails, Kill, disk, Moved, MovedAndSynced,
       PublisherInv, DiskType, Listing, At
  <2>4. \A q, r \in Publisher : At(q) /\ At(r) => q = r
    BY Zenon DEF OneFinal, PublisherInv, DiskType, At
  <2> QED BY <1>1, <2>1, <2>2, <2>3, <2>4, Zenon DEF At, NameTaken
<1> QED BY <1>1, Zenon DEF OneFinal

-----------------------------------------------------------------------------
(* The installers. *)

\* Publishers do not touch the database, and a bundle that was loaded is still there
\* or was taken back.
LEMMA InstallersUndisturbed ==
    ASSUME Inv, NEW p \in Publisher, Publish(p)
    PROVE  JobType' /\ Installed' /\ \A i \in Installer : Installing(i)'
<1>1. UNCHANGED database
  BY Zenon DEF Publish, Begin, Stage, WriteFile, SyncStaging, Rename, OpenExisting, CompareExisting, Persist,
     PersistFails, Rollback, RollbackFails, Disable, Clean, Fails, Kill, database
<1>2. PublisherInv
  BY Zenon DEF Inv
<1>3. \A e \in Publisher : At(e) \/ verdict[e] = "failed" => At(e)' \/ verdict'[e] = "failed"
  BY <1>2, NameIsKept, FailedIsFinal, Zenon
<1>4. \A e \in Publisher : verdict[e] = "failed" => verdict'[e] = "failed"
  BY <1>2, FailedIsFinal, Zenon
<1>5. build' = build
  BY Zenon DEF Publish, Begin, Stage, WriteFile, SyncStaging, Rename, OpenExisting, CompareExisting, Persist,
     PersistFails, Rollback, RollbackFails, Disable, Clean, Fails, Kill, Goes, Returns, CleansUp
<1>6. JobType'
  BY <1>1, Zenon DEF Inv, JobType, database
<1>7. Installed'
  BY <1>1, <1>4, Zenon DEF Inv, Installed, database
<1>8. ASSUME NEW i \in Installer
      PROVE  Installing(i)'
  BY <1>1, <1>3, <1>5, Zenon DEF Inv, Installing, database
<1> QED BY <1>6, <1>7, <1>8, Zenon

\* Installers leave the publications alone.
LEMMA PublishersUndisturbed ==
    ASSUME Inv, NEW i \in Installer, Install(i)
    PROVE  PublisherInv' /\ OneFinal' /\ \A p \in Publisher : Accepted(p)'
<1>1. UNCHANGED <<disk, compiler, outages>>
  BY Zenon DEF Install, Load, BeginTx, Lock, Import, Verify, InstallFails
<1> USE <1>1 DEF disk, compiler, Inv
<1>2. PublisherInv'
  BY DEF PublisherInv, PublisherType, DiskType, Staging, Finals, Verdicts, Solid, MayBeFinal, Returned
<1>3. OneFinal'
  BY Zenon DEF OneFinal
<1>4. ASSUME NEW p \in Publisher
      PROVE  Accepted(p)'
  BY Zenon DEF Accepted, At, TakenBack
<1> QED BY <1>2, <1>3, <1>4, Zenon

\* The first installer that commits settles what is installed.
LEMMA InstallerKeeps ==
    ASSUME Inv, NEW i \in Installer, Install(i)
    PROVE  JobType' /\ Installed' /\ \A j \in Installer : Installing(j)'
<1>1. UNCHANGED <<disk, compiler>>
  BY Zenon DEF Install, Load, BeginTx, Lock, Import, Verify, InstallFails
<1>2. JobType /\ Installed /\ (\A j \in Installer : Installing(j)) /\ PublisherType /\ OneFinal /\ DiskType
  BY Zenon DEF Inv, PublisherInv
<1>3. NoBuild \notin Build
  BY PublicationAssumption, Zenon
<1>4. \A e \in Publisher : build[e] \in Build
  BY <1>2, Zenon DEF PublisherType
<1> USE DEF disk, compiler, JobType
<1>5. CASE Load(i)
  <2>1. PICK e \in Publisher :
          At(e) /\ job' = [job EXCEPT ![i].pc = "begin", ![i].bundle = build[e]]
    BY <1>5, Zenon DEF Load
  <2>2. JobType' /\ Installed'
    <3>1. UNCHANGED sidecar
      BY <1>5, Zenon DEF Load
    <3>2. job'[i] = [pc |-> "begin", bundle |-> build[e], saw |-> job[i].saw]
      BY <1>2, <2>1, Zenon
    <3>3. \A j \in Installer : j # i => job'[j] = job[j]
      BY <1>2, <2>1, Zenon
    <3>4. job' = [j \in Installer |-> job'[j]]
      BY <1>2, <2>1, Zenon
    <3>5. JobType'
      BY <1>2, <1>4, <3>1, <3>2, <3>3, <3>4
    <3> QED BY <1>1, <1>2, <3>1, <3>5, Zenon DEF Installed
  <2>3. \A j \in Installer : Installing(j)'
    BY <1>1, <1>2, <1>5, <2>1 DEF Load, Installing, At
  <2> QED BY <2>2, <2>3, Zenon
<1>6. CASE BeginTx(i)
  <2>1. UNCHANGED sidecar /\ job' = [job EXCEPT ![i].pc = "lock", ![i].saw = sidecar # Empty]
    BY <1>6, Zenon DEF BeginTx
  <2>2. (sidecar # Empty) \in BOOLEAN
    BY Zenon
  <2>3. job'[i] = [pc |-> "lock", bundle |-> job[i].bundle, saw |-> sidecar # Empty]
    BY <1>2, <2>1
  <2>4. \A j \in Installer : j # i => job'[j] = job[j]
    BY <1>2, <2>1, Zenon
  <2>5. job' = [j \in Installer |-> job'[j]]
    BY <1>2, <2>1, Zenon
  <2>6. JobType'
    BY <1>2, <2>1, <2>2, <2>3, <2>4, <2>5
  <2>7. \A j \in Installer : Installing(j)'
    BY <1>1, <1>2, <1>6, <2>1, <2>3, <2>4 DEF BeginTx, Installing, At
  <2> QED BY <1>1, <1>2, <2>1, <2>6, <2>7, Zenon DEF Installed
<1>7. CASE Lock(i)
  BY <1>1, <1>2, <1>7 DEF Lock, Step, Installing, Installed, At
<1>8. CASE Import(i)
  <2>1. CASE sidecar' = sidecar /\ Leaves(i, "refused")
    BY <1>1, <1>2, <2>1 DEF Leaves, Step, Installing, Installed, At
  <2>2. ASSUME NEW e \in Publisher, At(e), sidecar' = [meta |-> job[i].bundle, rows |-> build[e]],
               Leaves(i, "installed")
        PROVE  JobType' /\ Installed' /\ \A j \in Installer : Installing(j)'
    <3>1. PICK f \in Publisher : build[f] = job[i].bundle /\ (At(f) \/ verdict[f] = "failed")
      BY <1>2, <1>8, Zenon DEF Import, Installing
    <3>2. At(f) => f = e
      BY <1>2, <2>2, Zenon DEF OneFinal, DiskType, At
    <3>3. JobType'
      BY <1>2, <1>4, <2>2, Zenon DEF Leaves, Step
    <3>4. Installed'
      BY <1>1, <1>4, <2>2, <3>1, <3>2, Zenon DEF Installed
    <3>5. \A j \in Installer : job[j].pc # "installed"
      BY <1>2, <1>3, <1>8, Zenon DEF Import, Installing, Empty
    <3>6. \A j \in Installer : Installing(j)'
      BY <1>1, <1>2, <1>4, <2>2, <3>1, <3>5, SMTT(60) DEF Installing, Leaves, Step, At
    <3> QED BY <3>3, <3>4, <3>6, Zenon
  <2> QED BY <1>8, <2>1, <2>2, Zenon DEF Import
<1>9. CASE Verify(i)
  <2>1. job[i].bundle \in Build
    BY <1>2, <1>4, <1>9, Zenon DEF Verify, Installing
  <2> QED BY <1>1, <1>2, <1>9, <2>1 DEF Verify, VerifyPublicationSet, Leaves, Step, Installing, Installed, At
<1>10. CASE InstallFails(i)
  BY <1>1, <1>2, <1>10 DEF InstallFails, Leaves, Step, Installing, Installed, At
<1> QED BY <1>5, <1>6, <1>7, <1>8, <1>9, <1>10, Zenon DEF Install

-----------------------------------------------------------------------------
(* The invariant, and what it gives. *)

\* The initial states satisfy the invariant, and every step keeps it.
LEMMA InvHolds == Spec => []Inv
<1>1. Init => Inv
  <2> SUFFICES ASSUME Init PROVE Inv
    BY Zenon
  <2> USE DEF Init
  <2>1. PublisherType /\ DiskType
    BY Zenon DEF PublisherType, DiskType, Running, Listing
  <2>2. ASSUME NEW p \in Publisher
        PROVE  Staging(p) /\ Finals(p) /\ Verdicts(p)
    BY Zenon DEF Staging, Finals, Verdicts, MayBeFinal, Returned, Before
  <2>3. ASSUME NEW p \in Publisher
        PROVE  Accepted(p)
    BY PublicationAssumption, Zenon DEF Accepted
  <2>4. OneFinal
    BY Zenon DEF OneFinal
  <2>5. JobType /\ Installed /\ \A i \in Installer : Installing(i)
    BY Zenon DEF JobType, Installed, Installing, Empty
  <2> QED BY <2>1, <2>2, <2>3, <2>4, <2>5, Zenon DEF Inv, PublisherInv
<1>2. Inv /\ [Next]_vars => Inv'
  <2> SUFFICES ASSUME Inv, [Next]_vars PROVE Inv'
    BY Zenon
  <2>1. PublisherInv /\ OneFinal /\ \A p \in Publisher : Accepted(p)
    BY Zenon DEF Inv
  <2>2. ASSUME NEW p \in Publisher, Publish(p) PROVE Inv'
    BY <2>1, <2>2, PublisherKeeps, AcceptedKept, OneFinalKept, InstallersUndisturbed, Zenon DEF Inv
  <2>3. ASSUME NEW i \in Installer, Install(i) PROVE Inv'
    BY <2>3, PublishersUndisturbed, InstallerKeeps, Zenon DEF Inv
  <2>4. CASE PowerLoss
    <3>1. PublisherInv' /\ \A p \in Publisher : Accepted(p)'
      BY <2>1, <2>4, PowerLossKeeps, AcceptedInPowerLoss, Zenon
    <3>2. OneFinal'
      BY <2>1, <2>4, Zenon DEF OneFinal, PowerLoss
    <3>3. JobType' /\ Installed'
      BY <2>4 DEF Inv, JobType, Installed, PowerLoss
    <3>4. ASSUME NEW i \in Installer
          PROVE  Installing(i)'
      BY <2>4, Zenon DEF Inv, JobType, Installing, PowerLoss
    <3> QED BY <3>1, <3>2, <3>3, <3>4, Zenon DEF Inv
  <2>5. CASE UNCHANGED vars
    <3> USE <2>5 DEF vars, disk, compiler, database
    <3>1. PublisherType' /\ DiskType' /\ OneFinal' /\ JobType' /\ Installed'
      BY Zenon DEF Inv, PublisherInv, PublisherType, DiskType, OneFinal, JobType, Installed
    <3>2. ASSUME NEW p \in Publisher
          PROVE  Staging(p)' /\ Finals(p)' /\ Verdicts(p)'
      BY Zenon DEF Inv, PublisherInv, Staging, Finals, Verdicts, Solid, MayBeFinal, Returned
    <3>3. ASSUME NEW p \in Publisher
          PROVE  Accepted(p)'
      BY Zenon DEF Inv, Accepted, At, TakenBack
    <3>4. ASSUME NEW i \in Installer
          PROVE  Installing(i)'
      BY Zenon DEF Inv, Installing, At
    <3> QED BY <3>1, <3>2, <3>3, <3>4, Zenon DEF Inv, PublisherInv
  <2> QED BY <2>2, <2>3, <2>4, <2>5, Zenon DEF Next
<1> QED BY <1>1, <1>2, PTL DEF Spec

\* No step, kill or power loss lets the name of a publication lead to an incomplete
\* bundle, short of a publication that is being taken back.
THEOREM NameLeadsToWhole == Spec => []FinalIsWhole
<1>1. Inv => FinalIsWhole
  BY Zenon DEF Inv, PublisherInv, DiskType, Finals, MayBeFinal, FinalIsWhole, At, Whole, Solid
<1> QED BY <1>1, InvHolds, PTL

\* Whatever publishers, installers and power losses do, a publication that
\* compileOwnedToDirectory reported as published keeps its name and its four files.
THEOREM ReportedIsDurable == Spec => []PublishedIsDurable
<1>1. Inv => \A p \in Publisher : Returned(p, "published") => At(p) /\ Whole(p)
  BY Zenon DEF Inv, PublisherInv, DiskType, Finals, MayBeFinal, Returned, At, Whole, Solid
<1>2. (\A p \in Publisher : Returned(p, "published") => At(p) /\ Whole(p)) /\ FinalIsWhole => PublishedIsDurable
  BY Zenon DEF PublishedIsDurable
<1> QED BY <1>1, <1>2, InvHolds, NameLeadsToWhole, PTL

\* A bundle accepted under -allow-existing-identical has the content of the publisher's
\* own, and goes away only when its publisher fails or the power is lost.
THEOREM AcceptedIsSame == Spec => []IdenticalIsSame
<1>1. Inv => IdenticalIsSame
  <2> SUFFICES ASSUME Inv, NEW p \in Publisher, Returned(p, "identical")
      PROVE  /\ build[existing[p]] = build[p]
             /\ \/ At(existing[p]) /\ Whole(existing[p])
                \/ verdict[existing[p]] = "failed"
                \/ pc[existing[p]] = "killed" /\ outages > 0
    BY Zenon DEF IdenticalIsSame
  <2>1. /\ existing[p] \in Publisher /\ build[existing[p]] = build[p]
        /\ At(existing[p]) \/ TakenBack(existing[p])
    BY Zenon DEF Inv, Accepted, Returned
  <2>2. At(existing[p]) /\ verdict[existing[p]] # "failed" => Whole(existing[p])
    BY <2>1, Zenon DEF Inv, PublisherInv, DiskType, Finals, MayBeFinal, At, Whole, Solid
  <2> QED BY <2>1, <2>2, Zenon DEF TakenBack
<1> QED BY <1>1, InvHolds, PTL

\* When every compiler run has returned success, and the power was not lost, the gateway
\* loads the publication: nothing else is left in the directory.
THEOREM GatewayStarts == Spec => []SuccessLoads
<1>1. Inv => SuccessLoads
  <2> SUFFICES ASSUME Inv, outages = 0, NEW a \in Publisher, build[a] = Approved,
                      \A p \in Publisher : Returned(p, "published") \/ Returned(p, "identical")
               PROVE  Loads
    BY Zenon DEF SuccessLoads
  <2>1. \A p \in Publisher : Returned(p, "published") => At(p) /\ Whole(p)
    BY Zenon DEF Inv, PublisherInv, DiskType, Finals, MayBeFinal, Returned, At, Whole, Solid
  <2>2. \A p \in Publisher : place[p] # "staged"
    BY <2>1, Zenon DEF Inv, PublisherInv, Finals, At
  <2>3. CASE Returned(a, "published")
    BY <2>1, <2>2, <2>3, Zenon DEF Loads, LoadsPublication
  <2>4. CASE Returned(a, "identical")
    <3>1. /\ existing[a] \in Publisher /\ build[existing[a]] = Approved
          /\ At(existing[a]) \/ TakenBack(existing[a])
      BY <2>4, Zenon DEF Inv, Accepted, Returned
    <3>2. ~TakenBack(existing[a])
      BY <3>1, Zenon DEF TakenBack, Returned
    <3>3. ~Returned(existing[a], "identical")
      BY <3>1, <3>2, Zenon DEF Inv, PublisherInv, DiskType, Finals, Returned, MayBeFinal, At
    <3> QED BY <2>1, <2>2, <3>1, <3>3, Zenon DEF Loads, LoadsPublication
  <2> QED BY <2>3, <2>4, Zenon
<1> QED BY <1>1, InvHolds, PTL

\* A sidecar installer that returned success left its own bundle installed, and rows of
\* another build only after some publication was taken back.
THEOREM InstalledIsOwn == Spec => []InstalledAsReported
<1>1. Inv => InstalledAsReported
  BY Zenon DEF Inv, Installing, Installed, InstalledAsReported
<1> QED BY <1>1, InvHolds, PTL
=============================================================================
