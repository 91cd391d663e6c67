----------------------------- MODULE AuditChain -----------------------------
(***************************************************************************)
(* The hash chain of audit events and what its verifiers accept            *)
(* (internal/auditchain).  SHA-256 is taken to be collision free, so the   *)
(* hash of an event is the sequence of the bodies it covers: two hashes    *)
(* are equal exactly when the histories behind them are.  A body stands    *)
(* for the identity fields, the type and the payload of an event; the      *)
(* sequence number is not among the hashed fields, as in hashMaterial.     *)
(***************************************************************************)
EXTENDS Integers, Sequences

GenesisHash == <<>>

Hash(previous, body) == Append(previous, body)

Checkpoint(sequence, hash) == [sequence |-> sequence, hash |-> hash]

UnlinkedEvent(head, body) ==   \* mutant
    [sequence |-> head.sequence + 1, body |-> body,
     previous |-> GenesisHash, hash |-> Hash(GenesisHash, body)]

\* The event that follows a chain head.
NextEvent(head, body) ==
    [sequence |-> head.sequence + 1, body |-> body,
     previous |-> head.hash, hash |-> Hash(head.hash, body)]

\* The head after an event.
HeadAfter(event) == Checkpoint(event.sequence, event.hash)

GenesisHead == Checkpoint(0, GenesisHash)

HeadOf(events) == IF events = <<>> THEN GenesisHead ELSE HeadAfter(events[Len(events)])

verifyLink(previous, event) ==
    /\ event.sequence > 0
    /\ event.previous = previous
    /\ event.hash = Hash(previous, event.body)

\* Each event of a path continues the one before it.
Continues(path) ==
    \A i \in 2..Len(path) :
        /\ path[i].sequence = path[i - 1].sequence + 1
        /\ verifyLink(path[i - 1].hash, path[i])

VerifyLinear(events, checkpoint) ==
    /\ events # <<>> => events[1].sequence = 1 /\ verifyLink(GenesisHash, events[1])
    /\ Continues(events)
    /\ checkpoint = HeadOf(events)

\* proof.predecessor is a sequence of at most one event.
VerifyInclusion(proof) ==
    LET terminal == proof.terminal
        path     == <<terminal>> \o proof.successors
    IN  /\ terminal.sequence > 0
        /\ verifyLink(terminal.previous, terminal)
        /\ IF proof.predecessor = <<>>
           THEN terminal.sequence = 1 /\ terminal.previous = GenesisHash
           ELSE LET predecessor == proof.predecessor[1]
                IN  /\ predecessor.sequence = terminal.sequence - 1
                    /\ predecessor.hash = terminal.previous
                    /\ verifyLink(predecessor.previous, predecessor)
        /\ proof.checkpoint.sequence >= terminal.sequence
        /\ Continues(path)
        /\ proof.checkpoint = HeadOf(path)
=============================================================================
