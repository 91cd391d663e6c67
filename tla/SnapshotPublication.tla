------------------------ MODULE SnapshotPublication ------------------------
(***************************************************************************)
(* Publishing a snapshot index and taking it into use.  A publisher (one   *)
(* run of the compiler) writes the four files of a bundle into a staging   *)
(* directory of its own, syncs it, renames it to the name of the           *)
(* publication without replacing anything, and syncs the base directory;   *)
(* when that fails it takes the publication back.  A publisher that finds  *)
(* the name taken may accept a bundle identical to its own.  An installer  *)
(* copies the sidecar of the bundle into the business database, and the    *)
(* gateway loads the bundle when it starts.                                *)
(*                                                                         *)
(* Any number of publishers and installers of one publication run side by  *)
(* side.  A publisher may be killed at any step, any of its calls may      *)
(* fail, and a power loss stops everything and leaves of each directory    *)
(* what its last sync made certain and any part of what changed since.     *)
(***************************************************************************)
EXTENDS Naturals, Sequences, FiniteSets

CONSTANTS
    Publisher,   \* runs of the compiler; each has its own staging directory
    Installer,   \* runs of the sidecar installer
    Build,       \* the contents the compiler can produce for the publication
    Approved,    \* the build the Catalog declares
    Matching,    \* the builds whose sidecar has the entities of the source relation
    NoBuild, NoPublisher,
    MaxFaults    \* failed calls, killed processes and power losses together

ASSUME PublicationAssumption ==
    /\ Approved \in Build /\ Matching \subseteq Build /\ NoBuild \notin Build
    /\ NoPublisher \notin Publisher /\ MaxFaults \in Nat

VARIABLES
    build,     \* what each publisher compiled
    lenient,   \* the publishers that run with -allow-existing-identical
    pc,        \* the next step of each publisher
    verdict,   \* what it returns, or is about to return once it has cleaned up
    existing,  \* the directory a lenient publisher compares with its own
    place,     \* where the directory of each publisher is listed in the base
    durable,   \* the listings of the base that a power loss may leave
    files,     \* the files listed in each directory
    certain, possible,   \* of those: what a power loss leaves, what it may leave
    flushed,   \* files whose bytes were synced
    torn,      \* files that lost bytes
    faults,
    outages,   \* the power was lost
    job,       \* the installers
    lock,      \* the installer that holds the advisory lock
    sidecar    \* taskgate_ordinal: metadata and rows, as committed

disk == <<place, durable, files, certain, possible, flushed, torn>>
compiler == <<build, lenient, pc, verdict, existing>>
database == <<job, lock, sidecar>>
vars == <<disk, compiler, database, faults, outages>>

Order == <<"hot", "cold", "sidecar", "manifest">>
File == {Order[i] : i \in 1..4}
Empty == [meta |-> NoBuild, rows |-> NoBuild]
Running == {"begin", "stage", "write", "sync", "rename", "open", "compare", "persist",
            "rollback", "disable", "clean"}

Init ==
    /\ build \in [Publisher -> Build]
    /\ lenient \in SUBSET Publisher
    /\ pc = [p \in Publisher |-> "begin"]
    /\ verdict = [p \in Publisher |-> "none"]
    /\ existing = [p \in Publisher |-> NoPublisher]
    /\ place = [p \in Publisher |-> "none"]
    /\ durable = {place}
    /\ files = [p \in Publisher |-> {}]
    /\ certain = files /\ possible = files /\ flushed = files /\ torn = files
    /\ faults = 0 /\ outages = 0
    /\ job = [i \in Installer |-> [pc |-> "load", bundle |-> NoBuild, saw |-> FALSE]]
    /\ lock = {}
    /\ sidecar = Empty

-----------------------------------------------------------------------------
(* The file system. *)

At(p) == place[p] = "final"
NameTaken == \E p \in Publisher : At(p)

\* Every file is there and none lost bytes.
Whole(p) == files[p] = File /\ torn[p] = {}

\* A change of the base may reach the disk at any time; a sync makes it certain.
Moved(p, where) ==
    /\ place' = [place EXCEPT ![p] = where]
    /\ durable' = durable \union {place'}

MovedAndSynced(p, where) ==
    /\ place' = [place EXCEPT ![p] = where]
    /\ durable' = {place'}

Fault == faults < MaxFaults /\ faults' = faults + 1

-----------------------------------------------------------------------------
(* The publisher: compileOwnedToDirectory. *)

Returns(p, how) ==
    /\ pc' = [pc EXCEPT ![p] = "ended"]
    /\ verdict' = [verdict EXCEPT ![p] = how]
    /\ UNCHANGED <<build, lenient, existing>>

\* The deferred removal of the staging directory comes before the return.
CleansUp(p, how) ==
    /\ pc' = [pc EXCEPT ![p] = "clean"]
    /\ verdict' = [verdict EXCEPT ![p] = how]
    /\ UNCHANGED <<build, lenient, existing>>

Goes(p, to) ==
    /\ pc' = [pc EXCEPT ![p] = to]
    /\ UNCHANGED <<build, lenient, verdict, existing>>

\* os.Lstat of the final directory, before anything is compiled.
Begin(p) ==
    /\ pc[p] = "begin"
    /\ IF NameTaken /\ p \notin lenient THEN Returns(p, "failed") ELSE Goes(p, "stage")
    /\ UNCHANGED <<disk, database, faults, outages>>

\* os.MkdirTemp.
Stage(p) ==
    /\ pc[p] = "stage"
    /\ Goes(p, "write")
    /\ Moved(p, "staged")
    /\ UNCHANGED <<files, certain, possible, flushed, torn, database, faults, outages>>

NextFile(p) == Order[Cardinality(files[p]) + 1]

\* writeStreamedFile, in the order of the four files, and the independent
\* verification of what was written.
WriteFile(p) ==
    LET name == NextFile(p)
    IN  /\ pc[p] = "write"
        /\ Goes(p, IF name = "manifest" THEN "sync" ELSE "write")
        /\ files' = [files EXCEPT ![p] = @ \union {name}]
        /\ possible' = [possible EXCEPT ![p] = @ \union {name}]
        /\ flushed' = [flushed EXCEPT ![p] = @ \union {name}]
        /\ UNCHANGED <<place, durable, certain, torn, database, faults, outages>>

\* verifyStagedPublication and staging.Sync.
SyncStaging(p) ==
    /\ pc[p] = "sync"
    /\ Whole(p)
    /\ Goes(p, "rename")
    /\ certain' = [certain EXCEPT ![p] = files[p]]
    /\ possible' = [possible EXCEPT ![p] = files[p]]
    /\ UNCHANGED <<place, durable, files, flushed, torn, database, faults, outages>>

\* renameDirectoryNoReplace: EEXIST ends a strict publisher.
Rename(p) ==
    /\ pc[p] = "rename"
    /\ \/ /\ ~NameTaken
          /\ Moved(p, "final")
          /\ Goes(p, "persist")
       \/ /\ NameTaken
          /\ IF p \in lenient THEN Goes(p, "open") ELSE CleansUp(p, "failed")
          /\ UNCHANGED <<place, durable>>
    /\ UNCHANGED <<files, certain, possible, flushed, torn, database, faults, outages>>

\* verifyExistingStreamedPublication opens whatever has the name by now ...
OpenExisting(p) ==
    /\ pc[p] = "open"
    /\ IF NameTaken
       THEN /\ existing' = [existing EXCEPT ![p] = CHOOSE e \in Publisher : At(e)]
            /\ pc' = [pc EXCEPT ![p] = "compare"]
            /\ UNCHANGED <<build, lenient, verdict>>
       ELSE CleansUp(p, "failed")
    /\ UNCHANGED <<disk, database, faults, outages>>

SameNames(p, e) == files[e] = File   \* mutant

\* ... and reads every file through the open directory.
Identical(p, e) == Whole(e) /\ build[e] = build[p]

CompareExisting(p) ==
    /\ pc[p] = "compare"
    /\ CleansUp(p, IF Identical(p, existing[p]) THEN "identical" ELSE "failed")
    /\ UNCHANGED <<disk, database, faults, outages>>

SkipBaseSync(p) ==   \* mutant
    /\ pc[p] = "persist"
    /\ Returns(p, "published")
    /\ UNCHANGED <<disk, database, faults, outages>>

\* verifyPublishedDirectory, base.Sync and verifyOpenDirectoryIdentity.
Persist(p) ==
    /\ pc[p] = "persist"
    /\ At(p)
    /\ durable' = {place}
    /\ Returns(p, "published")
    /\ UNCHANGED <<place, files, certain, possible, flushed, torn, database, faults, outages>>

\* One of the three fails, the last one after a sync that took effect.
PersistFails(p) ==
    /\ pc[p] = "persist"
    /\ Fault
    /\ durable' \in {durable, {place}}
    /\ pc' = [pc EXCEPT ![p] = "rollback"]
    /\ verdict' = [verdict EXCEPT ![p] = "failed"]
    /\ UNCHANGED <<build, lenient, existing, place, files, certain, possible, flushed, torn,
                   database, outages>>

\* rollbackCommit: back to the staging name; the sync after it may fail.
Rollback(p) ==
    /\ pc[p] = "rollback"
    /\ Goes(p, "clean")
    /\ \/ MovedAndSynced(p, "staged") /\ UNCHANGED faults
       \/ Moved(p, "staged") /\ Fault
    /\ UNCHANGED <<files, certain, possible, flushed, torn, database, outages>>

RollbackFails(p) ==
    /\ pc[p] = "rollback"
    /\ Fault
    /\ Goes(p, "disable")
    /\ UNCHANGED <<disk, database, outages>>

\* disablePublishedDirectory removes the manifest and syncs both directories.
Disable(p) ==
    /\ pc[p] = "disable"
    /\ Returns(p, "failed")
    /\ files' = [files EXCEPT ![p] = @ \ {"manifest"}]
    /\ \/ /\ certain' = [certain EXCEPT ![p] = files'[p]]
          /\ possible' = [possible EXCEPT ![p] = files'[p]]
          /\ durable' = {place}
          /\ UNCHANGED faults
       \/ /\ certain' = [certain EXCEPT ![p] = @ \ {"manifest"}]
          /\ Fault
          /\ UNCHANGED <<possible, durable>>
    /\ UNCHANGED <<place, flushed, torn, database, outages>>

KeepStaging(p) ==   \* mutant
    /\ pc[p] = "clean"
    /\ Returns(p, verdict[p])
    /\ UNCHANGED <<disk, database, faults, outages>>

\* The deferred os.RemoveAll of the staging directory.
Clean(p) ==
    /\ pc[p] = "clean"
    /\ Returns(p, verdict[p])
    /\ Moved(p, "none")
    /\ files' = [files EXCEPT ![p] = {}]
    /\ certain' = [certain EXCEPT ![p] = {}]
    /\ UNCHANGED <<possible, flushed, torn, database, faults, outages>>

\* Any other call fails.  Up to the rename, the staging directory goes as well.
Fails(p) ==
    /\ pc[p] \in Running \ {"persist", "rollback"}
    /\ Fault
    /\ IF pc[p] \in {"begin", "stage", "disable", "clean"} THEN Returns(p, "failed") ELSE CleansUp(p, "failed")
    /\ UNCHANGED <<disk, database, outages>>

\* The process is killed: no deferred call runs.
Kill(p) ==
    /\ pc[p] \in Running
    /\ Fault
    /\ pc' = [pc EXCEPT ![p] = "killed"]
    /\ UNCHANGED <<build, lenient, verdict, existing, disk, database, outages>>

-----------------------------------------------------------------------------
(* The sidecar installer: loadPublication, then install in one transaction. *)

Step(i, to) == job' = [job EXCEPT ![i].pc = to]

\* The transaction ends, and the advisory lock with it.
Leaves(i, to) == Step(i, to) /\ lock' = lock \ {i}

\* The bundle under the name of the publication; what is read is verified against
\* the manifest.  An installer that finds none ends with nothing done.
Load(i) ==
    /\ job[i].pc = "load"
    /\ \E e \in Publisher :
         /\ At(e) /\ {"manifest", "hot", "sidecar"} \subseteq files[e] \ torn[e]
         /\ job' = [job EXCEPT ![i].pc = "begin", ![i].bundle = build[e]]
    /\ UNCHANGED <<disk, compiler, lock, sidecar, faults, outages>>

\* BeginTx: a serializable transaction reads what was committed before its first
\* statement, and that is the one that waits for the lock.
BeginTx(i) ==
    /\ job[i].pc = "begin"
    /\ job' = [job EXCEPT ![i].pc = "lock", ![i].saw = sidecar # Empty]
    /\ UNCHANGED <<disk, compiler, lock, sidecar, faults, outages>>

Lock(i) ==
    /\ job[i].pc = "lock" /\ lock = {}
    /\ lock' = {i}
    /\ Step(i, "locked")
    /\ UNCHANGED <<disk, compiler, sidecar, faults, outages>>

AnyPublicationSet(i) == sidecar.rows \in Matching   \* mutant

\* verifyPublicationSet and verifyEntitySet.  The table is found in the catalog
\* even by a transaction that is too old to see its rows.
VerifyPublicationSet(i) ==
    /\ job[i].saw
    /\ sidecar.meta = job[i].bundle
    /\ sidecar.rows \in Matching

\* importPublication opens the sidecar file again, by its path, and takes the rows
\* as they are.
Import(i) ==
    /\ job[i].pc = "locked" /\ sidecar = Empty
    /\ \/ \E e \in Publisher :
            /\ At(e) /\ "sidecar" \in files[e] \ torn[e] /\ build[e] \in Matching
            /\ sidecar' = [meta |-> job[i].bundle, rows |-> build[e]]
            /\ Leaves(i, "installed")
       \/ /\ \A e \in Publisher :
               ~(At(e) /\ "sidecar" \in files[e] \ torn[e] /\ build[e] \in Matching)
          /\ Leaves(i, "refused")
          /\ UNCHANGED sidecar
    /\ UNCHANGED <<disk, compiler, faults, outages>>

\* The metadata exists: nothing is imported, what is there is verified.
Verify(i) ==
    /\ job[i].pc = "locked" /\ sidecar # Empty
    /\ Leaves(i, IF VerifyPublicationSet(i) THEN "installed" ELSE "refused")
    /\ UNCHANGED <<disk, compiler, sidecar, faults, outages>>

\* A connection or the process is lost; the database rolls back.
InstallFails(i) ==
    /\ job[i].pc \in {"begin", "lock", "locked"}
    /\ Fault
    /\ Leaves(i, "refused")
    /\ UNCHANGED <<disk, compiler, sidecar, outages>>

-----------------------------------------------------------------------------
\* Everything stops.  Each directory keeps what was certain and some of the rest,
\* and the bytes that were synced.
PowerLoss ==
    /\ Fault
    /\ outages' = outages + 1
    /\ place' \in durable /\ durable' = {place'}
    /\ files' \in {left \in [Publisher -> SUBSET File] :
                     \A p \in Publisher : certain[p] \subseteq left[p] /\ left[p] \subseteq possible[p]}
    /\ certain' = files' /\ possible' = files'
    /\ torn' = [p \in Publisher |-> files'[p] \ flushed[p]]
    /\ pc' = [p \in Publisher |-> IF pc[p] \in Running THEN "killed" ELSE pc[p]]
    /\ job' = [i \in Installer |->
                 IF job[i].pc \in {"installed", "refused"} THEN job[i] ELSE [job[i] EXCEPT !.pc = "refused"]]
    /\ lock' = {}
    /\ UNCHANGED <<build, lenient, verdict, existing, flushed, sidecar>>

Publish(p) ==
    \/ Begin(p) \/ Stage(p) \/ WriteFile(p) \/ SyncStaging(p) \/ Rename(p) \/ OpenExisting(p)
    \/ CompareExisting(p) \/ Persist(p) \/ PersistFails(p) \/ Rollback(p) \/ RollbackFails(p)
    \/ Disable(p) \/ Clean(p) \/ Fails(p) \/ Kill(p)

Install(i) ==
    Load(i) \/ BeginTx(i) \/ Lock(i) \/ Import(i) \/ Verify(i) \/ InstallFails(i)

Next ==
    \/ \E p \in Publisher : Publish(p)
    \/ \E i \in Installer : Install(i)
    \/ PowerLoss

Spec == Init /\ [][Next]_vars

-----------------------------------------------------------------------------
(* The gateway. *)

\* loadSnapshotPublication: exactly the four files, each verified, of the build that
\* the Catalog declares.
LoadsPublication(p) == At(p) /\ Whole(p) /\ build[p] = Approved

\* loadSnapshotArtifactDirectory at start-up: nothing but the declared publication
\* may be in the base, not even a staging directory.
Loads ==
    /\ \A p \in Publisher : place[p] # "staged"
    /\ \E p \in Publisher : LoadsPublication(p)

Returned(p, how) == pc[p] = "ended" /\ verdict[p] = how

-----------------------------------------------------------------------------
(* Properties. *)

\* The name of the publication never leads to an incomplete bundle, at whatever step
\* a publisher is killed or the power is lost, unless a publisher had to take its
\* publication back.
FinalIsWhole ==
    \A p \in Publisher : At(p) /\ verdict[p] # "failed" => Whole(p)

\* A publication a publisher reported is there for good: whatever other publishers
\* do, and after every power loss, the name leads to the directory it verified, with
\* all its files; and short of a report the name leads to a whole bundle or to none.
PublishedIsDurable ==
    /\ \A p \in Publisher : Returned(p, "published") => At(p) /\ Whole(p)
    /\ FinalIsWhole

\* A publisher that accepted an existing bundle relied on one with its own content.
\* The bundle may still go away, but only in two ways: the publisher that made it
\* failed to persist it, or the power was lost before it was persisted.
IdenticalIsSame ==
    \A p \in Publisher : Returned(p, "identical") =>
        LET e == existing[p]
        IN  /\ build[e] = build[p]
            /\ \/ At(e) /\ Whole(e)
               \/ verdict[e] = "failed"
               \/ pc[e] = "killed" /\ outages > 0

\* When every publisher has returned success, the gateway starts on what they made:
\* no staging directory is left that would stop it.  (A power loss can bring back a
\* staging directory whose removal was never synced.)
SuccessLoads ==
    /\ \A p \in Publisher : Returned(p, "published") \/ Returned(p, "identical")
    /\ \E p \in Publisher : build[p] = Approved
    /\ outages = 0
    => Loads

\* An installer that returned success left its own bundle installed, whoever else
\* installed before or at the same time; metadata and rows come from one build
\* unless a publication was taken back between the two readings of the file.
InstalledAsReported ==
    /\ \A i \in Installer : job[i].pc = "installed" => sidecar.meta = job[i].bundle
    /\ sidecar.rows # sidecar.meta => \E p \in Publisher : verdict[p] = "failed"
=============================================================================
