---------------------------- MODULE OutcomeRadix ----------------------------
(***************************************************************************)
(* The outcome facts a V5 task family has been charged for: a set of       *)
(* hashes kept as immutable, content-addressed objects.  A root manifest   *)
(* lists one block per first byte, a block lists the leaves of its two-    *)
(* byte prefixes, and a leaf holds a chunk of sorted hashes.  A settlement *)
(* loads only the branches its own hashes fall in, builds a new root       *)
(* around them and stores only what changed; everything else the new root  *)
(* refers to is taken to be stored already.  It moves the family's head    *)
(* with a compare-and-swap on the epoch it read, and is rolled back and    *)
(* tried again when it loses.                                              *)
(*                                                                         *)
(* A hash is <<first byte, second byte, rest>>, a digest is the content it *)
(* is the digest of, and the released and the influencing facts, which     *)
(* move with the same head, are those of OrdinalRootHead.                  *)
(***************************************************************************)
EXTENDS Integers, FiniteSets, SequencesExt

CONSTANTS
    Queries,      \* the queries of one family
    Observable,   \* the sets of hashes a query can observe
    ChunkSize,    \* outcomeLeafChunkSize: hashes in a leaf
    MaxOutcome    \* max_outcome_facts of the family

ASSUME RadixAssumption ==
    /\ ChunkSize \in Nat \ {0} /\ MaxOutcome \in Nat
    /\ \A hashes \in Observable : IsFiniteSet(hashes) /\ hashes # {}

VARIABLES
    head,      \* v5_exposure_root_heads: epoch, used, and set (<<>> before the first)
    leaves, blocks, sets,   \* the stored objects, as committed
    work       \* the settlement of each query

vars == <<head, leaves, blocks, sets, work>>

-----------------------------------------------------------------------------
(* Objects. *)

Prefix16(hash) == <<hash[1], hash[2]>>

Total(refs) == FoldSeq(LAMBDA ref, sum : ref.cardinality + sum, 0, refs)

Before(a, b) ==
    \/ a[1] < b[1]
    \/ a[1] = b[1] /\ (a[2] < b[2] \/ (a[2] = b[2] /\ a[3] < b[3]))

\* uniqueOutcomeHashesV5: duplicates are gone once the hashes are a set.
InOrder(hashes) == SetToSortSeq(hashes, Before)

LeafBefore(a, b) == Before(Append(a.prefix, a.chunk), Append(b.prefix, b.chunk))

\* The leaves of one prefix: its hashes cut into chunks.
LeafRefs(prefix, hashes) ==
    [i \in 1..((Len(hashes) + ChunkSize - 1) \div ChunkSize) |->
        LET last == IF i * ChunkSize < Len(hashes) THEN i * ChunkSize ELSE Len(hashes)
            part == SubSeq(hashes, (i - 1) * ChunkSize + 1, last)
        IN  [prefix |-> prefix, chunk |-> i - 1, cardinality |-> Len(part),
             digest |-> [prefix |-> prefix, chunk |-> i - 1, hashes |-> part]]]

BlockRef(prefix, refs) ==
    [prefix |-> prefix, cardinality |-> Total(refs), digest |-> [prefix |-> prefix, refs |-> refs]]

Manifest(cardinality, refs) ==
    [cardinality |-> cardinality,
     refs |-> SetToSortSeq(refs, LAMBDA a, b : a.prefix < b.prefix)]

Digests(refs) == {ref.digest : ref \in refs}

\* buildOutcomeHashSetFromBinaryV5: the objects of a set, from nothing.
Build(hashes) ==
    LET refs == UNION {ToSet(LeafRefs(p, InOrder({h \in hashes : Prefix16(h) = p}))) :
                       p \in {Prefix16(h) : h \in hashes}}
        blockRefs == {BlockRef(b, SetToSortSeq({ref \in refs : ref.prefix[1] = b}, LeafBefore)) :
                      b \in {h[1] : h \in hashes}}
    IN  [set |-> Manifest(Cardinality(hashes), blockRefs),
         leaves |-> Digests(refs), blocks |-> Digests(blockRefs)]

-----------------------------------------------------------------------------
(* What a reader of an object accepts. *)

\* parseV5RootManifestReferences, through verifyOutcomeRootV5.
RootParses(set) ==
    /\ \A i, j \in DOMAIN set.refs : i < j => set.refs[i].prefix < set.refs[j].prefix
    /\ \A i \in DOMAIN set.refs : set.refs[i].cardinality > 0
    /\ Total(set.refs) = set.cardinality

\* parseV5BlockManifestReferences: prefixes in order, the chunks of each from 0.
BlockParses(block, cardinality) ==
    /\ block.refs # <<>> /\ Total(block.refs) = cardinality
    /\ \A i \in DOMAIN block.refs :
          /\ block.refs[i].cardinality \in 1..ChunkSize
          /\ IF i > 1 /\ block.refs[i - 1].prefix = block.refs[i].prefix
             THEN block.refs[i].chunk = block.refs[i - 1].chunk + 1
             ELSE /\ block.refs[i].chunk = 0
                  /\ i > 1 => block.refs[i - 1].prefix[2] < block.refs[i].prefix[2]

\* decodeOutcomeLeafV5, and the comparison with the reference to the leaf.
LeafDecodes(leaf, ref) ==
    /\ <<leaf.prefix, leaf.chunk, Len(leaf.hashes)>> = <<ref.prefix, ref.chunk, ref.cardinality>>
    /\ \A i \in DOMAIN leaf.hashes :
          /\ Prefix16(leaf.hashes[i]) = leaf.prefix
          /\ i > 1 => Before(leaf.hashes[i - 1], leaf.hashes[i])

\* persistV5SetObjectsTx checks what it is about to store.
Persists(objects) ==
    /\ RootParses(objects.set)
    /\ \A block \in objects.blocks : BlockParses(block, Total(block.refs))
    /\ \A leaf \in objects.leaves :
          LeafDecodes(leaf, [prefix |-> leaf.prefix, chunk |-> leaf.chunk, cardinality |-> Len(leaf.hashes)])

-----------------------------------------------------------------------------
(* The union of the stored set and the hashes of one observation. *)

\* mergeOutcomeHashesV5: two positions move through two sorted sequences.
Merge(existing, additions) ==
    LET from[l \in 1..(Len(existing) + 1), r \in 1..(Len(additions) + 1)] ==
          LET oldDone == l > Len(existing)
              newDone == r > Len(additions)
              take(hash, rest) == [rest EXCEPT !.merged = <<hash>> \o @]
              gain(hash, rest) == [rest EXCEPT !.merged = <<hash>> \o @, !.novel = <<hash>> \o @]
          IN  CASE oldDone /\ newDone -> [merged |-> <<>>, novel |-> <<>>]
                [] ~newDone /\ (oldDone \/ Before(additions[r], existing[l])) ->
                      gain(additions[r], from[l, r + 1])
                [] ~oldDone /\ ~newDone /\ additions[r] = existing[l] ->
                      take(existing[l], from[l + 1, r + 1])
                [] OTHER -> take(existing[l], from[l + 1, r])
    IN  from[1, 1]

\* The blocks of the root that the candidates fall in, and their leaves.
TouchedRefs(set, hashes) == {ref \in ToSet(set.refs) : \E h \in hashes : h[1] = ref.prefix}

TouchedLeaves(set, hashes) ==
    {leaf \in UNION {ToSet(ref.digest.refs) : ref \in TouchedRefs(set, hashes)} :
        \E h \in hashes : Prefix16(h) = leaf.prefix}

\* Every object on the way is there and agrees with what refers to it.
Loads(set, hashes) ==
    /\ set \in sets /\ RootParses(set)
    /\ \A ref \in TouchedRefs(set, hashes) : ref.digest \in blocks /\ BlockParses(ref.digest, ref.cardinality)
    /\ \A ref \in TouchedLeaves(set, hashes) : ref.digest \in leaves /\ LeafDecodes(ref.digest, ref)

AppendChunk(prefix, existing, additions) ==   \* mutant
    LET old   == LeafRefs(prefix, existing)
        fresh == LeafRefs(prefix, Merge(existing, additions).novel)
    IN  old \o [i \in DOMAIN fresh |->
                  [fresh[i] EXCEPT !.chunk = @ + Len(old), !.digest.chunk = @ + Len(old)]]

\* The leaves of a touched prefix, cut anew from the merged hashes.
Replacement(prefix, existing, additions) == LeafRefs(prefix, Merge(existing, additions).merged)

FirstChunkKept(prefix, existing, refs) ==   \* mutant
    {ref.digest : ref \in {r \in refs : r.chunk >= Len(existing) \div ChunkSize}}

\* What is submitted: a leaf the old root did not list for this prefix.
ChangedLeaves(prefix, existing, refs) == Digests(refs) \ Digests(ToSet(LeafRefs(prefix, existing)))

\* differenceAndUnionV5Tx.
DifferenceAndUnion(set, hashes) ==
    LET prefixes   == {Prefix16(h) : h \in hashes}
        additions(p) == InOrder({h \in hashes : Prefix16(h) = p})
        old(p)     == FlattenSeq([i \in 1..Cardinality({r \in TouchedLeaves(set, hashes) : r.prefix = p}) |->
                         (CHOOSE r \in TouchedLeaves(set, hashes) : r.prefix = p /\ r.chunk = i - 1).digest.hashes])
        refs(p)    == Replacement(p, old(p), additions(p))
        kept(b)    == {leaf \in UNION {ToSet(ref.digest.refs) : ref \in TouchedRefs(set, hashes)} :
                          leaf.prefix[1] = b /\ leaf.prefix \notin prefixes}
        block(b)   == BlockRef(b, SetToSortSeq(
                         kept(b) \union UNION {ToSet(refs(p)) : p \in {x \in prefixes : x[1] = b}}, LeafBefore))
        replaced   == {block(b) : b \in {h[1] : h \in hashes}}
        novel      == UNION {ToSet(Merge(old(p), additions(p)).novel) : p \in prefixes}
    IN  [novel |-> novel,
         objects |->
            [set |-> Manifest(set.cardinality + Cardinality(novel),
                              (ToSet(set.refs) \ TouchedRefs(set, hashes)) \union replaced),
             leaves |-> UNION {ChangedLeaves(p, old(p), ToSet(refs(p))) : p \in prefixes},
             blocks |-> Digests(replaced) \ Digests(ToSet(set.refs))]]

-----------------------------------------------------------------------------
Init ==
    /\ head = [epoch |-> 0, used |-> 0, set |-> <<>>]
    /\ leaves = {} /\ blocks = {} /\ sets = {}
    /\ work = [q \in Queries |-> [pc |-> "idle"]]

\* The query has run; what it observed is what every attempt settles.
Observe(q) ==
    /\ work[q].pc = "idle"
    /\ \E hashes \in Observable : work' = [work EXCEPT ![q] = [pc |-> "settle", hashes |-> hashes]]
    /\ UNCHANGED <<head, leaves, blocks, sets>>

Computed(q) ==
    IF head.set = <<>> THEN [novel |-> work[q].hashes, objects |-> Build(work[q].hashes)]
    ELSE DifferenceAndUnion(head.set, work[q].hashes)

Loadable(q) == head.set = <<>> \/ Loads(head.set, work[q].hashes)

\* An object that is missing, or is not what refers to it or its format says,
\* ends the settlement.
Verdict(q) ==
    CASE ~Loadable(q) -> "broken"
      [] head.used + Cardinality(Computed(q).novel) > MaxOutcome -> "exhausted"
      [] ~Persists(Computed(q).objects) -> "broken"
      [] OTHER -> "swap"

\* settleV5ExposureMeasuredTx up to the compare-and-swap: the head is read
\* without a lock, and what it refers to never changes.
Compute(q) ==
    /\ work[q].pc = "settle"
    /\ work' = [work EXCEPT ![q] =
                  IF Verdict(q) = "swap"
                  THEN [pc |-> "swap", hashes |-> work[q].hashes, epoch |-> head.epoch,
                        novel |-> Computed(q).novel, objects |-> Computed(q).objects]
                  ELSE [pc |-> Verdict(q), hashes |-> work[q].hashes]]
    /\ UNCHANGED <<head, leaves, blocks, sets>>

\* A settlement without novelty swaps nothing, and its epoch does not matter.
Wins(q) == work[q].novel = {} \/ work[q].epoch = head.epoch

\* The observation's own set was stored before the head was read.
Commit(q) ==
    /\ work[q].pc = "swap" /\ Wins(q)
    /\ LET own == Build(work[q].hashes)
           new == work[q].objects
       IN  /\ leaves' = leaves \union own.leaves \union new.leaves
           /\ blocks' = blocks \union own.blocks \union new.blocks
           /\ sets' = sets \union {own.set, new.set}
           /\ head' = IF work[q].novel = {} THEN head
                      ELSE [epoch |-> head.epoch + 1, used |-> head.used + Cardinality(work[q].novel),
                            set |-> new.set]
    /\ work' = [work EXCEPT ![q] = [pc |-> "settled", hashes |-> work[q].hashes,
                                    charged |-> Cardinality(work[q].novel)]]

\* ErrOrdinalCASConflict: everything is rolled back, and the attempt repeated.
Conflict(q) ==
    /\ work[q].pc = "swap" /\ ~Wins(q)
    /\ work' = [work EXCEPT ![q] = [pc |-> "settle", hashes |-> work[q].hashes]]
    /\ UNCHANGED <<head, leaves, blocks, sets>>

\* The connection is lost, or the sixteenth attempt was the last.
GiveUp(q) ==
    /\ work[q].pc \in {"settle", "swap"}
    /\ work' = [work EXCEPT ![q] = [pc |-> "failed", hashes |-> work[q].hashes]]
    /\ UNCHANGED <<head, leaves, blocks, sets>>

Finished ==
    /\ \A q \in Queries : work[q].pc \notin {"idle", "settle", "swap"}
    /\ UNCHANGED vars

Next ==
    \/ \E q \in Queries : \/ Observe(q) \/ Compute(q) \/ Commit(q) \/ Conflict(q) \/ GiveUp(q)
    \/ Finished

Spec == Init /\ [][Next]_vars

-----------------------------------------------------------------------------
(* Properties. *)

Settled == {q \in Queries : work[q].pc = "settled"}

\* The outcome facts of the family's settled queries.
Shown == UNION {work[q].hashes : q \in Settled}

\* The root a sequence of partial rewrites arrives at is the one that is built
\* from the whole set at once (differenceAndUnionV5Tx against
\* buildOutcomeHashSetFromBinaryV5): equal sets have equal digests, whatever
\* the order of the settlements, the conflicts between them and the chunks that
\* moved.  VerifySetDigest and every comparison of digests rest on it.  And novelty is
\* exact: the family has paid for each outcome fact it was shown once and for no other,
\* although a settlement computes its charge against a head that may move on.
RootIsCanonical ==
    /\ Settled # {} => head.set = Build(Shown).set
    /\ head.used = Cardinality(Shown)
    /\ head.used = FoldFunctionOnSet(+, 0, [q \in Queries |-> IF q \in Settled THEN work[q].charged ELSE 0],
                                     Queries)
    /\ head.used <= MaxOutcome

\* Whatever a stored set refers to is stored: a settlement submits only what it
\* changed against a head read without a lock, settlements that lose the
\* compare-and-swap roll back what they stored, and still no settlement ever
\* finds an object missing or malformed.
RootIsWhole ==
    /\ \A set \in sets : \A ref \in ToSet(set.refs) :
          /\ ref.digest \in blocks
          /\ \A leaf \in ToSet(ref.digest.refs) : leaf.digest \in leaves
    /\ \A q \in Queries : work[q].pc # "broken"
=============================================================================
