---------------------- MODULE ControlTransactionsProofs ----------------------
(***************************************************************************)
(* Proofs about the transactions of the control store, for any set of      *)
(* scenarios: any transactions, tasks, queries and contents.               *)
(*                                                                         *)
(* The argument is the one the row locks are taken for.  Two transactions  *)
(* never hold modes of one row that exclude each other (LocksHold).  A     *)
(* transaction that has events of its own holds the head row, so its       *)
(* events still follow the committed head when it commits; one that has    *)
(* decided on a query, a task or the cutover holds the row it decided      *)
(* under, so what it found is still so when it commits.                    *)
(***************************************************************************)
EXTENDS ControlTransactions, TLAPS

EventType ==
    {"TASK_CREATED", "TASK_STATE_CHANGED", "TASK_VIEW_SEMANTIC_CHANGED", "APPROVAL_CALLBACK_APPLIED",
     "QUERY_BUDGET_RESERVED", "QUERY_COMPLETED", "QUERY_FAILED", "QUERY_RESULT_OBJECT_REGISTERED",
     "EXPOSURE_SETTLED", "EXPOSURE_RELEASED", "RETENTION_HOLD_SET", "QUERY_RESULT_CONSUMED",
     "RESULT_DELETING", "RESULT_ENCRYPTION_KEY_ERASED", "EVENT"}

Name == STRING \union {"none"}

Body == [type : EventType, task : Name, query : Name]

Event == [sequence : Nat, body : Body, previous : Seq(Body), hash : Seq(Body)]

\* Events that follow head h, one after the other.
Follows(h, events) ==
    \A i \in 1..Len(events) :
        /\ events[i].sequence = h.sequence + i
        /\ i = 1 => verifyLink(h.hash, events[i])
        /\ i # 1 => verifyLink(events[i - 1].hash, events[i])

Holds(x, row, mode) == [row |-> row, mode |-> mode] \in locks[x]

WorksOnQuery(k) == k \in {"reserve", "finalize", "fail", "available", "purge"}

TypeOK ==
    /\ scene \in Scenarios
    /\ DOMAIN kind = Txs
    /\ status \in [Txs -> {"idle", "running", "done", "refused"}]
    /\ next \in [Txs -> Nat \ {0}]
    /\ archives \in [Txs -> BOOLEAN]
    /\ DOMAIN locks = Txs
    /\ own \in [Txs -> Seq(Event)]
    /\ chain \in Seq(Event)
    /\ taskState \in [Tasks -> {"AWAITING_APPROVAL", "ACTIVE", "ARCHIVED"}]
    /\ query \in [Queries -> {"NONE", "RESERVED", "COMPLETED", "FAILED"}]
    /\ DOMAIN receipt = Queries
    /\ marker \in BOOLEAN

\* What a transaction is between and within its runs.
TxOK(x) ==
    /\ WorksOnQuery(kind[x]) => Job[x].query \in Queries
    /\ archives[x] => Settlement(kind[x])
    /\ status[x] # "running" => next[x] = 1 /\ locks[x] = {} /\ own[x] = <<>>

LocksHold ==
    \A x, y \in Txs : x # y =>
        \A h \in locks[x], k \in locks[y] : h.row = k.row => ~Excludes(h.mode, k.mode)

ChainOK ==
    /\ head = HeadOf(chain)
    /\ Follows(GenesisHead, chain)
    /\ \A x \in Txs : /\ own[x] # <<>> => Holds(x, HeadRow, Update)
                      /\ Follows(head, own[x])

\* A reader has seen a part of the chain as it is.
ProverOK ==
    LET n == prover.terminal.sequence
        m == prover.checkpoint.sequence
    IN  /\ prover.pc \in {"idle", "predecessor", "successors", "proved"}
        /\ prover.pc # "idle" =>
              /\ n \in 1..m /\ m \in 1..Len(chain)
              /\ prover.terminal = chain[n] /\ prover.checkpoint = HeadAfter(chain[m])
        /\ prover.pc \in {"successors", "proved"} =>
              prover.predecessor = IF n > 1 THEN <<chain[n - 1]>> ELSE <<>>
        /\ prover.pc = "proved" =>
              /\ prover.successors \in Seq(Event) /\ Len(prover.successors) = m - n
              /\ \A i \in 1..(m - n) : prover.successors[i] = chain[n + i]

VerifierOK ==
    /\ verifier.pc \in {"idle", "head", "intact", "broken"}
    /\ verifier.pc # "idle" =>
          /\ verifier.events \in Seq(Event) /\ Len(verifier.events) <= Len(chain)
          /\ \A i \in 1..Len(verifier.events) : verifier.events[i] = chain[i]
    /\ verifier.pc = "broken" => verifier.head.sequence > Len(verifier.events)

\* Where the program of a transaction takes the lock of the cutover, for the
\* methods whose commit the cutover is about.
GuardAt(x) ==
    CASE kind[x] = "reserve" -> 4
      [] kind[x] = "callback" -> 3
      [] OTHER -> 1

Guarded(x) == kind[x] \in {"reserve", "callback", "activate"} /\ next[x] > GuardAt(x)

\* Past the guard, a transaction holds the lock and still passes.
GuardOK(x) == Guarded(x) => Holds(x, CutoverLock, Update) /\ Passes(x)

\* Where the program of a settlement appends the terminal event: it is
\* followed by the event of the artifact and the two steps of archiveTask.
TerminalAt(x) ==
    Len(Program(x)) - (IF archives[x] THEN 2 ELSE 0) - (IF kind[x] = "finalize" THEN 1 ELSE 0)

\* A transaction that decides on the status of its query, and the status.
Claimed(x) ==
    \/ kind[x] = "reserve" /\ next[x] > 2
    \/ Settlement(kind[x]) /\ next[x] > 1 /\ next[x] > TerminalAt(x) - 2

Terminated(x) == Settlement(kind[x]) /\ next[x] > 1 /\ next[x] > TerminalAt(x)

ClaimOK(x) ==
    Claimed(x) => /\ Holds(x, QueryRow(Job[x].query), Update)
                  /\ query[Job[x].query] = IF kind[x] = "reserve" THEN "NONE" ELSE "RESERVED"

TaskEnd == "TASK_STATE_CHANGED"

TerminalsIn(events, q) == {i \in 1..Len(events) : IsTerminal(events[i]) /\ events[i].body.query = q}
EndsIn(events, t) ==
    {i \in 1..Len(events) : events[i].body.type = TaskEnd /\ events[i].body.task = t}

\* A transaction that moves its task, and the state it moves it from.
HoldsTask(x) ==
    LET row == TaskRow(Job[x].task)
    IN  (Holds(x, row, Update) \/ Holds(x, row, NoKeyUpdate)) /\ taskState[Job[x].task] # "ARCHIVED"

MovesTask(x) ==
    \/ kind[x] = "callback" /\ next[x] > 2
    \/ kind[x] = "transition" /\ next[x] > 1
    \/ archives[x] /\ next[x] > 1 /\ next[x] = Len(Program(x))
    \/ EndsIn(own[x], Job[x].task) # {}

MoveOK(x) == MovesTask(x) => HoldsTask(x)

\* The events of a transaction: of its own task and query, the terminal one
\* once the settlement is past it, and at most one end of its task.
EventsOK(x) ==
    LET t == Job[x].task
        q == Job[x].query
    IN  /\ \A i \in 1..Len(own[x]) : own[x][i].body.task = t /\ own[x][i].body.query = q
        /\ IF Terminated(x)
           THEN \E i \in 1..Len(own[x]) : TerminalsIn(own[x], q) = {i}
           ELSE TerminalsIn(own[x], q) = {}
        /\ EndsIn(own[x], t) # {} =>
              /\ next[x] > Len(Program(x)) /\ kind[x] # "callback"
              /\ \E i \in 1..Len(own[x]) : EndsIn(own[x], t) = {i}

\* The committed events of a query and of a task.
QueryOK(q) ==
    Start[q].query \in {"NONE", "RESERVED"} =>
        IF query[q] \in {"COMPLETED", "FAILED"}
        THEN \E i \in 1..Len(chain) : TerminalsIn(chain, q) = {i} /\ receipt[q] = <<HeadAfter(chain[i])>>
        ELSE TerminalsIn(chain, q) = {}

TaskOK(t) ==
    IF taskState[t] = "ARCHIVED" THEN \E i \in 1..Len(chain) : EndsIn(chain, t) = {i}
    ELSE EndsIn(chain, t) = {}

IInv ==
    /\ TypeOK /\ LocksHold /\ ChainOK /\ ProverOK /\ VerifierOK /\ CutoverIsClean
    /\ \A x \in Txs : TxOK(x) /\ GuardOK(x) /\ ClaimOK(x) /\ MoveOK(x) /\ EventsOK(x)
    /\ \A q \in Queries : QueryOK(q)
    /\ \A t \in Tasks : TaskOK(t)

-----------------------------------------------------------------------------
(* The chain. *)

\* The head after events that follow head h.
After(h, events) == IF events = <<>> THEN h ELSE HeadOf(events)

\* Only the empty sequence has no elements.
LEMMA EmptySeq ==
  ASSUME NEW S, NEW s \in Seq(S)
  PROVE  s = <<>> <=> Len(s) = 0
  OBVIOUS

\* The elements of a sequence are members of its set.
LEMMA ElementOfSeq ==
  ASSUME NEW S, NEW s \in Seq(S)
  PROVE  \A i \in DOMAIN s : s[i] \in S
  OBVIOUS

\* The elements of a concatenation come from its first part or from its second.
LEMMA CatSeq ==
  ASSUME NEW S, NEW s \in Seq(S), NEW r \in Seq(S)
  PROVE  /\ s \o r \in Seq(S) /\ Len(s \o r) = Len(s) + Len(r)
         /\ \A i \in 1..Len(s) : (s \o r)[i] = s[i]
         /\ \A i \in 1..Len(r) : (s \o r)[Len(s) + i] = r[i]
         /\ \A i \in 1..(Len(s) + Len(r)) :
               i \in 1..Len(s) \/ \E j \in 1..Len(r) : i = Len(s) + j
  <1>1. ASSUME NEW i \in 1..(Len(s) + Len(r)) PROVE i \in 1..Len(s) \/ \E j \in 1..Len(r) : i = Len(s) + j
    <2>1. CASE i <= Len(s)
      BY <2>1
    <2>2. CASE i > Len(s)
      <3>1. i - Len(s) \in 1..Len(r) /\ i = Len(s) + (i - Len(s))
        BY <2>2
      <3> QED BY <3>1, Zenon
    <2> QED BY <2>1, <2>2
  <1> QED BY <1>1

\* A number counted on from another.
LEMMA CountsOn == \A a, n \in Nat : (a + n) + 1 = a + (n + 1)
  OBVIOUS

\* A count that one more takes past a bound it has not passed is at the bound.
LEMMA AtBound == \A a, b \in Nat : a + 1 > b /\ ~(a > b) => a = b
  OBVIOUS

\* The same of the place two before a bound.
LEMMA TwoBefore ==
  \A a, b \in Nat : a >= 1 /\ b >= 3 /\ a + 1 > b - 2 /\ ~(a > 1 /\ a > b - 2) => a = b - 2
  OBVIOUS

\* One more takes a count past a bound only from the bound.
LEMMA PassesBound ==
  \A a, b \in Nat : a >= 1 /\ b >= 3 =>
    /\ a = b => a + 1 > 1 /\ a + 1 > b /\ ~(a > 1 /\ a > b)
    /\ a # b => (a + 1 > 1 /\ a + 1 > b <=> a > 1 /\ a > b)
  OBVIOUS

\* The event that follows a head, typed.
LEMMA NextEventType ==
  ASSUME NEW h, h.sequence \in Nat, h.hash \in Seq(Body), NEW body \in Body
  PROVE  /\ NextEvent(h, body) \in Event
         /\ NextEvent(h, body).sequence = h.sequence + 1
         /\ NextEvent(h, body).body = body
         /\ verifyLink(h.hash, NextEvent(h, body))
  BY DEF NextEvent, Event, Hash, verifyLink

\* Appending the next event to events that follow a head.
LEMMA FollowsAppend ==
  ASSUME NEW h, h.sequence \in Nat, h.hash \in Seq(Body), NEW events \in Seq(Event),
         Follows(h, events), NEW body \in Body
  PROVE  LET e == NextEvent(After(h, events), body)
         IN  e \in Event /\ e.body = body /\ Append(events, e) \in Seq(Event) /\ Follows(h, Append(events, e))
  <1>1. CASE events = <<>>
    <2>1. PICK e : e = NextEvent(h, body)
      BY Zenon
    <2>2. e \in Event /\ e.sequence = h.sequence + 1 /\ e.body = body /\ verifyLink(h.hash, e)
      BY <2>1, NextEventType, Zenon
    <2>3. Append(events, e) \in Seq(Event) /\ Len(Append(events, e)) = 1 /\ Append(events, e)[1] = e
      BY <1>1, <2>2
    <2> QED BY <1>1, <2>1, <2>2, <2>3 DEF After, Follows
  <1>2. CASE events # <<>>
    <2>0. PICK n \in Nat : n = Len(events) /\ n > 0
      BY <1>2
    <2>1. PICK l \in Event : l = events[n]
      BY <2>0
    <2>2. After(h, events).hash = l.hash /\ After(h, events).sequence = l.sequence
      BY <1>2, <2>0, <2>1, Zenon DEF After, HeadOf, HeadAfter, Checkpoint
    <2>3. PICK e : e = NextEvent(After(h, events), body)
      BY Zenon
    <2>4. e \in Event /\ e.sequence = l.sequence + 1 /\ e.body = body /\ verifyLink(l.hash, e)
      BY <2>2, <2>3, NextEventType DEF Event
    <2>5. l.sequence = h.sequence + n
      BY <2>0, <2>1 DEF Follows
    <2>6. PICK es : es = Append(events, e)
      BY Zenon
    <2>a. es \in Seq(Event)
      BY <2>4, <2>6
    <2>7. Len(es) = n + 1 /\ es[n + 1] = e /\ \A i \in 1..n : es[i] = events[i]
      BY <2>0, <2>4, <2>6, <2>a
    <2>8. ASSUME NEW i \in 1..n
          PROVE  /\ es[i].sequence = h.sequence + i
                 /\ i = 1 => verifyLink(h.hash, es[i])
                 /\ i # 1 => verifyLink(es[i - 1].hash, es[i])
      <3>1. es[i] = events[i] /\ (i # 1 => es[i - 1] = events[i - 1])
        BY <2>0, <2>7
      <3> QED BY <2>0, <3>1, Zenon DEF Follows
    <2>9. /\ es[n + 1].sequence = h.sequence + (n + 1)
          /\ verifyLink(es[n].hash, es[n + 1])
      <3>1. es[n] = l
        BY <2>0, <2>1, <2>7
      <3>2. e.sequence = h.sequence + (n + 1)
        <4>1. (h.sequence + n) + 1 = h.sequence + (n + 1)
          BY CountsOn, Zenon
        <4> QED BY <2>4, <2>5, <4>1, Zenon
      <3> QED BY <2>4, <2>7, <3>1, <3>2, Zenon
    <2>10. Follows(h, es)
      BY <2>0, <2>7, <2>8, <2>9, SMTT(60) DEF Follows
    <2> QED BY <2>3, <2>4, <2>6, <2>a, <2>10, Zenon
  <1> QED BY <1>1, <1>2, Zenon

\* The head after events, typed: its sequence number counts them.
LEMMA AfterType ==
  ASSUME NEW h, h.sequence \in Nat, h.hash \in Seq(Body), NEW events \in Seq(Event), Follows(h, events)
  PROVE  /\ After(h, events).sequence = h.sequence + Len(events)
         /\ After(h, events).sequence \in Nat /\ After(h, events).hash \in Seq(Body)
  <1>1. CASE events = <<>>
    BY <1>1 DEF After
  <1>2. CASE events # <<>>
    <2>1. Len(events) \in 1..Len(events) /\ events[Len(events)] \in Event
      BY <1>2
    <2>2. events[Len(events)].sequence = h.sequence + Len(events)
      BY <2>1, Zenon DEF Follows
    <2> QED BY <1>2, <2>1, <2>2, Zenon DEF After, HeadOf, HeadAfter, Checkpoint, Event
  <1> QED BY <1>1, <1>2, Zenon

\* Events that follow the genesis head are a chain that verifies, and are
\* numbered from one.
LEMMA FollowsVerifies ==
  ASSUME NEW es \in Seq(Event), Follows(GenesisHead, es)
  PROVE  /\ VerifyLinear(es, HeadOf(es))
         /\ \A i \in 1..Len(es) : es[i].sequence = i
         /\ HeadOf(es).sequence = Len(es)
  <1>0. GenesisHead.sequence = 0 /\ GenesisHead.hash = GenesisHash /\ GenesisHash \in Seq(Body)
    BY DEF GenesisHead, Checkpoint, GenesisHash
  <1>1. \A i \in 1..Len(es) : es[i].sequence = i
    BY <1>0 DEF Follows
  <1>2. \A i \in 1..Len(es) : i # 1 => verifyLink(es[i - 1].hash, es[i])
    BY Zenon DEF Follows
  <1>3. es # <<>> => es[1].sequence = 1 /\ verifyLink(GenesisHash, es[1])
    <2>1. es # <<>> => 1 \in 1..Len(es)
      BY EmptySeq
    <2> QED BY <1>0, <1>1, <2>1, Zenon DEF Follows
  <1>4. ASSUME NEW i \in 2..Len(es)
        PROVE  es[i].sequence = es[i - 1].sequence + 1 /\ verifyLink(es[i - 1].hash, es[i])
    <2>1. i \in 1..Len(es) /\ i - 1 \in 1..Len(es) /\ i # 1
      OBVIOUS
    <2> QED BY <1>1, <1>2, <2>1
  <1>5. HeadOf(es).sequence = Len(es)
    <2>1. CASE es = <<>>
      BY <1>0, <2>1, Zenon DEF HeadOf
    <2>2. CASE es # <<>>
      <3>1. Len(es) \in 1..Len(es)
        BY <2>2, EmptySeq
      <3> QED BY <1>1, <2>2, <3>1, Zenon DEF HeadOf, HeadAfter, Checkpoint
    <2> QED BY <2>1, <2>2, Zenon
  <1> QED BY <1>1, <1>3, <1>4, <1>5, Zenon DEF VerifyLinear, Continues

\* A reader whose events are a part of the chain finds them linked.
LEMMA AlarmHolds ==
  ASSUME chain \in Seq(Event), Follows(GenesisHead, chain), VerifierOK
  PROVE  /\ AlarmIsStaleHead
         /\ verifier.pc # "idle" => VerifyLinear(verifier.events, HeadOf(verifier.events))
  <1>1. ASSUME verifier.pc # "idle" PROVE VerifyLinear(verifier.events, HeadOf(verifier.events))
    <2>1. PICK es \in Seq(Event) : es = verifier.events
      BY <1>1, Zenon DEF VerifierOK
    <2>2. Len(es) <= Len(chain) /\ \A i \in 1..Len(es) : es[i] = chain[i]
      BY <1>1, <2>1, Zenon DEF VerifierOK
    <2>3. ASSUME NEW i \in 1..Len(es)
          PROVE  /\ es[i].sequence = GenesisHead.sequence + i
                 /\ i = 1 => verifyLink(GenesisHead.hash, es[i])
                 /\ i # 1 => verifyLink(es[i - 1].hash, es[i])
      <3>1. i \in 1..Len(chain) /\ es[i] = chain[i] /\ (i # 1 => es[i - 1] = chain[i - 1])
        BY <2>2
      <3> QED BY <3>1, Zenon DEF Follows
    <2>4. Follows(GenesisHead, es)
      BY <2>3, Zenon DEF Follows
    <2> QED BY <2>1, <2>4, FollowsVerifies, Zenon
  <1> QED BY <1>1, Zenon DEF AlarmIsStaleHead, VerifierOK

-----------------------------------------------------------------------------
(* The programs. *)

Mode == {KeyShare, Share, NoKeyUpdate, Update}

Row(t, q) ==
    {HeadRow, RootRow, KeyRow, CutoverLock, TaskRow(t), LedgerRow(t), BindingRow(t), CallbackRow(t),
     QueryRow(q), ReservationRow(q), ArtifactRow(q)} \union {ContentRow(c) : c \in STRING}

\* A step that appends an event locks the head row.
Step(t, q) ==
    {s \in [row : Row(t, q), mode : Mode, event : EventType \union {"none"}] : s.event # "none" => s.row = HeadRow /\ s.mode = Update}

\* A step of a program that neither ends a query nor a task.
Quiet(s, t) ==
    /\ s.event \notin TerminalTypes /\ s.event # TaskEnd
    /\ ~(s.row = TaskRow(t) /\ s.mode = NoKeyUpdate)

Program0(p, t, q) == p \in Seq(Step(t, q)) /\ \A i \in 1..Len(p) : Quiet(p[i], t)

\* Sequence g is p and then r.
IsCat(g, p, r) ==
    /\ Len(p) \in Nat /\ Len(r) \in Nat /\ Len(g) = Len(p) + Len(r)
    /\ \A i \in 1..Len(p) : g[i] = p[i]
    /\ \A i \in 1..Len(r) : g[Len(p) + i] = r[i]

\* Concatenation does what IsCat says.
LEMMA CatIs ==
  ASSUME NEW S, NEW p \in Seq(S), NEW r \in Seq(S)
  PROVE  p \o r \in Seq(S) /\ IsCat(p \o r, p, r)
  <1>1. Len(p) \in Nat /\ Len(r) \in Nat
    OBVIOUS
  <1>2. p \o r \in Seq(S) /\ Len(p \o r) = Len(p) + Len(r)
    BY CatSeq, Zenon
  <1>3. \A i \in 1..Len(p) : (p \o r)[i] = p[i]
    BY CatSeq, Zenon
  <1>4. \A i \in 1..Len(r) : (p \o r)[Len(p) + i] = r[i]
    BY CatSeq
  <1> QED BY <1>1, <1>2, <1>3, <1>4, Zenon DEF IsCat

\* Rows are told apart by their table.
LEMMA Tables ==
  /\ HeadRow[1] = "audit_chain_head" /\ RootRow[1] = "exposure_root_heads"
  /\ KeyRow[1] = "result_encryption_keys" /\ CutoverLock[1] = "advisory lock of the cutover"
  /\ \A t : TaskRow(t)[1] = "tasks" /\ TaskRow(t)[2] = t
  /\ \A t : LedgerRow(t)[1] = "budget_ledger"
  /\ \A t : BindingRow(t)[1] = "task_view_binding_status"
  /\ \A t : CallbackRow(t)[1] = "callback_idempotency"
  /\ \A q : QueryRow(q)[1] = "query_records" /\ QueryRow(q)[2] = q
  /\ \A q : ReservationRow(q)[1] = "exposure_reservations"
  /\ \A q : ArtifactRow(q)[1] = "result_artifacts"
  /\ \A c : ContentRow(c)[1] = "content-addressed row"
  BY Zenon DEF HeadRow, RootRow, KeyRow, CutoverLock, TaskRow, LedgerRow, BindingRow, CallbackRow, QueryRow,
         ReservationRow, ArtifactRow, ContentRow

\* The program of a settlement: at T its terminal event, the claim of the query
\* two steps before it, and the end of the task last, where there is one.
SettlementForm(p, T, archive, t, q) ==
    /\ p \in Seq(Step(t, q)) /\ T \in 3..Len(p)
    /\ p[T - 2] = Lock(QueryRow(q), Update) /\ p[T].event \in TerminalTypes
    /\ \A i \in 1..Len(p) : i # T => p[i].event \notin TerminalTypes
    /\ \A i \in 1..Len(p) : p[i].event = TaskEnd => archive /\ i = Len(p)
    /\ \A i \in 1..Len(p) : p[i].row = TaskRow(t) /\ p[i].mode = NoKeyUpdate => archive /\ i = Len(p) - 1
    /\ archive => /\ T <= Len(p) - 2
                  /\ p[Len(p) - 1] = Lock(TaskRow(t), NoKeyUpdate) /\ p[Len(p)].event = TaskEnd

\* The tasks a scenario starts with approved, and those of an ordinal profile.
Approved(s) ==
    {s.jobs[x].task : x \in DOMAIN s.jobs}
    \ {s.jobs[x].task : x \in {y \in DOMAIN s.jobs : s.jobs[y].kind = "callback"}}

OrdinalOf(s) == {t \in {s.jobs[x].task : x \in DOMAIN s.jobs} : s.profile[t] \in {"v4", "v5"}}

\* Where an ordinal task is approved from the start, no approved task and no
\* open reservation is of the old profile.
LEMMA SceneProfiles ==
  ASSUME NEW s \in Scenarios, Approved(s) \cap OrdinalOf(s) # {}
  PROVE  /\ \A t \in Approved(s) : s.profile[t] # "v3"
         /\ \A q \in DOMAIN s.start : s.start[q].query = "RESERVED" =>
               \E x \in DOMAIN s.jobs : s.jobs[x].query = q /\ s.jobs[x].task \in OrdinalOf(s)
  BY ScenarioAssumption, ZenonT(60) DEF Approved, OrdinalOf

\* What a scenario is.
LEMMA SceneFacts ==
  ASSUME scene \in Scenarios
  PROVE  /\ \A x \in Txs : Job[x].kind \in STRING /\ Job[x].task \in STRING /\ Job[x].query \in STRING
         /\ \A x \in Txs : Job[x].task \in Tasks
         /\ \A x \in Txs : WorksOnQuery(Job[x].kind) => Job[x].query \in Queries
         /\ \A x, y \in Txs : Job[x].query = Job[y].query /\ Job[x].query \in Queries => Job[x].task = Job[y].task
         /\ \A q \in Queries : Stores[q] \in Seq(STRING)
         /\ \A q \in Queries : Start[q].query \in {"NONE", "RESERVED", "COMPLETED", "FAILED"}
  <1>1. scene.jobs \in Seq([kind : STRING, task : STRING, query : STRING])
    BY ScenarioAssumption, Zenon
  <1>2. \A x \in Txs : Job[x] \in [kind : STRING, task : STRING, query : STRING]
    BY <1>1, ElementOfSeq, Zenon DEF Txs, Job
  <1>3. \A x \in Txs : Job[x].task \in Tasks
    BY Zenon DEF Tasks
  <1>4. \A x \in Txs : WorksOnQuery(Job[x].kind) => Job[x].query \in Queries
    BY ScenarioAssumption, Zenon DEF Txs, Job, Queries, Start, WorksOnQuery
  <1>5. \A x, y \in Txs : Job[x].query = Job[y].query /\ Job[x].query \in Queries => Job[x].task = Job[y].task
    BY ScenarioAssumption, Zenon DEF Txs, Job, Queries, Start
  <1>6. \A q \in Queries : Stores[q] \in Seq(STRING)
    BY ScenarioAssumption, Zenon DEF Stores, Queries, Start
  <1>7. \A q \in Queries : Start[q].query \in {"NONE", "RESERVED", "COMPLETED", "FAILED"}
    <2>1. scene.start \in [DOMAIN scene.start ->
                  [query : {"NONE", "RESERVED", "COMPLETED", "FAILED"},
                   artifact : {"NONE", "PENDING", "AVAILABLE", "DELETING"}]]
      BY ScenarioAssumption, Zenon
    <2> QED BY <2>1, Zenon DEF Queries, Start
  <1> QED BY <1>2, <1>3, <1>4, <1>5, <1>6, <1>7, Zenon

\* The program of a transaction.
LEMMA Layout ==
  ASSUME scene \in Scenarios, NEW x \in Txs, archives[x] \in BOOLEAN,
         WorksOnQuery(kind[x]) => Job[x].query \in Queries
  PROVE  LET t == Job[x].task
             q == Job[x].query
             p == Program(x)
         IN  /\ p \in Seq(Step(t, q))
             /\ kind[x] = "reserve" =>
                   Len(p) >= 5 /\ p[2] = Lock(QueryRow(q), Update) /\ p[4] = cutoverGuard
             /\ kind[x] = "callback" =>
                   Len(p) >= 4 /\ p[2] = Lock(TaskRow(t), Update) /\ p[3] = cutoverGuard
             /\ kind[x] = "activate" => Len(p) = 1 /\ p[1] = cutoverGuard
             /\ kind[x] = "transition" =>
                   /\ Len(p) = 2 /\ p[1] = Lock(TaskRow(t), Update) /\ Quiet(p[1], t)
                   /\ p[2] = appendAudit(TaskEnd) /\ p[2].event = TaskEnd
             /\ kind[x] # "transition" /\ ~Settlement(kind[x]) => \A i \in 1..Len(p) : Quiet(p[i], t)
             /\ Settlement(kind[x]) => SettlementForm(p, TerminalAt(x), archives[x], t, q)
  <1>LockStep. ASSUME NEW t, NEW q, NEW r \in Row(t, q), NEW m \in Mode
      PROVE  /\ Lock(r, m) \in Step(t, q) /\ Lock(r, m).row = r /\ Lock(r, m).mode = m /\ Lock(r, m).event = "none"
             /\ r # TaskRow(t) \/ m # NoKeyUpdate => Quiet(Lock(r, m), t)
    <2>1. PICK s : s = Lock(r, m)
      BY Zenon
    <2>2. s.row = r /\ s.mode = m /\ s.event = "none" /\ s \in [row : Row(t, q), mode : Mode, event : EventType \union {"none"}]
      <3>1. s = [row |-> r, mode |-> m, event |-> "none"]
        BY <2>1, Zenon DEF Lock
      <3> QED BY <3>1, Zenon
    <2>3. s \in Step(t, q)
      BY <2>2, Zenon DEF Step
    <2>4. r # TaskRow(t) \/ m # NoKeyUpdate => Quiet(s, t)
      <3>1. s.event \notin TerminalTypes /\ s.event # TaskEnd
        BY <2>2, Zenon DEF TerminalTypes, TaskEnd
      <3> QED BY <2>2, <3>1, Zenon DEF Quiet
    <2> QED BY <2>1, <2>2, <2>3, <2>4, Zenon
  <1>AppendStep. ASSUME NEW t, NEW q, NEW e \in EventType
      PROVE  /\ appendAudit(e) \in Step(t, q) /\ appendAudit(e).event = e
             /\ e \notin TerminalTypes /\ e # TaskEnd => Quiet(appendAudit(e), t)
    <2>1. HeadRow # TaskRow(t)
      BY Tables, Zenon
    <2> QED BY <2>1, Zenon DEF appendAudit, Step, Quiet, Row, Mode
  \* Programs that end nothing, one after the other.
  <1>QuietCat. ASSUME NEW t, NEW q, NEW p, NEW r, Program0(p, t, q), Program0(r, t, q)
      PROVE  Program0(p \o r, t, q) /\ IsCat(p \o r, p, r)
    <2> USE <1>QuietCat
    <2>1. p \in Seq(Step(t, q)) /\ r \in Seq(Step(t, q))
      BY Zenon DEF Program0
    <2>2. /\ p \o r \in Seq(Step(t, q)) /\ Len(p \o r) = Len(p) + Len(r)
          /\ \A i \in 1..Len(p) : (p \o r)[i] = p[i]
          /\ \A i \in 1..Len(r) : (p \o r)[Len(p) + i] = r[i]
          /\ \A i \in 1..(Len(p) + Len(r)) : i \in 1..Len(p) \/ \E j \in 1..Len(r) : i = Len(p) + j
      BY <2>1, CatSeq, ZenonT(60)
    <2>3. \A i \in 1..Len(p \o r) : Quiet((p \o r)[i], t)
      BY <2>2 DEF Program0
    <2> QED BY <2>1, <2>2, <2>3 DEF Program0, IsCat
  \* The programs of a few steps.
  <1>Steps1. ASSUME NEW t, NEW q, NEW a \in Step(t, q), Quiet(a, t)
      PROVE  Program0(<<a>>, t, q) /\ Len(<<a>>) = 1 /\ <<a>>[1] = a
    BY <1>Steps1 DEF Program0
  <1>Steps2. ASSUME NEW t, NEW q, NEW a \in Step(t, q), Quiet(a, t), NEW b \in Step(t, q), Quiet(b, t)
      PROVE  Program0(<<a, b>>, t, q) /\ Len(<<a, b>>) = 2 /\ <<a, b>>[1] = a /\ <<a, b>>[2] = b
    BY <1>Steps2 DEF Program0
  <1>Steps3. ASSUME NEW t, NEW q, NEW a \in Step(t, q), Quiet(a, t), NEW b \in Step(t, q), Quiet(b, t),
             NEW c \in Step(t, q), Quiet(c, t)
      PROVE  /\ Program0(<<a, b, c>>, t, q) /\ Len(<<a, b, c>>) = 3
             /\ <<a, b, c>>[1] = a /\ <<a, b, c>>[2] = b /\ <<a, b, c>>[3] = c
    BY <1>Steps3 DEF Program0
  <1>Steps4. ASSUME NEW t, NEW q, NEW a \in Step(t, q), Quiet(a, t), NEW b \in Step(t, q), Quiet(b, t),
             NEW c \in Step(t, q), Quiet(c, t), NEW d \in Step(t, q), Quiet(d, t)
      PROVE  /\ Program0(<<a, b, c, d>>, t, q) /\ Len(<<a, b, c, d>>) = 4
             /\ <<a, b, c, d>>[1] = a /\ <<a, b, c, d>>[2] = b /\ <<a, b, c, d>>[3] = c /\ <<a, b, c, d>>[4] = d
    BY <1>Steps4 DEF Program0
  \* The locks and the events of the programs are steps.
  <1>QuietLocks. ASSUME NEW t, NEW q
      PROVE  /\ \A m \in {KeyShare, Share, Update} :
                   /\ Lock(TaskRow(t), m) \in Step(t, q) /\ Quiet(Lock(TaskRow(t), m), t)
             /\ \A r \in Row(t, q), m \in Mode :
                   r[1] # "tasks" => Lock(r, m) \in Step(t, q) /\ Quiet(Lock(r, m), t)
             /\ cutoverGuard \in Step(t, q) /\ Quiet(cutoverGuard, t)
    <2>1. TaskRow(t) \in Row(t, q) /\ CutoverLock \in Row(t, q) /\ CutoverLock # TaskRow(t)
      BY Tables, Zenon DEF Row
    <2>2. {KeyShare, Share, Update} \subseteq Mode /\ NoKeyUpdate \notin {KeyShare, Share, Update}
      BY Zenon DEF Mode, KeyShare, Share, Update, NoKeyUpdate
    <2>3. Update \in {KeyShare, Share, Update}
      BY Zenon
    <2>4. \A r \in Row(t, q) : r[1] # "tasks" => r # TaskRow(t)
      BY Tables, ZenonT(60)
    <2> QED BY <2>1, <2>2, <2>3, <2>4, <1>LockStep DEF cutoverGuard
  <1>QuietEvents. ASSUME NEW t, NEW q, NEW e \in EventType \ (TerminalTypes \union {TaskEnd})
      PROVE  appendAudit(e) \in Step(t, q) /\ Quiet(appendAudit(e), t)
    BY <1>AppendStep
  \* The rows that are not the task's.
  <1>OtherRows. ASSUME NEW t, NEW q
      PROVE  \A r \in {RootRow, KeyRow, LedgerRow(t), BindingRow(t), CallbackRow(t), QueryRow(q), ReservationRow(q),
                       ArtifactRow(q)} : r \in Row(t, q) /\ r[1] # "tasks"
    BY Tables, Zenon DEF Row
  <1>Modes. KeyShare \in Mode /\ Share \in Mode /\ NoKeyUpdate \in Mode /\ Update \in Mode
    BY Zenon DEF Mode
  <1>EmptyProgram. ASSUME NEW t, NEW q
      PROVE  Program0(<<>>, t, q) /\ Len(<<>>) = 0
    BY DEF Program0
  <1>ReserveLayout. ASSUME NEW t, NEW q
      PROVE  LET p == ReserveBudget(t, q)
             IN  /\ Program0(p, t, q) /\ Len(p) >= 5
                 /\ p[2] = Lock(QueryRow(q), Update) /\ p[4] = cutoverGuard
    <2>1. PICK a, b, c, d : a = Lock(TaskRow(t), Update) /\ b = Lock(QueryRow(q), Update)
                            /\ c = Lock(LedgerRow(t), Update) /\ d = cutoverGuard
      BY Zenon
    <2>2. /\ a \in Step(t, q) /\ Quiet(a, t) /\ b \in Step(t, q) /\ Quiet(b, t)
          /\ c \in Step(t, q) /\ Quiet(c, t) /\ d \in Step(t, q) /\ Quiet(d, t)
      BY <2>1, <1>QuietLocks, <1>OtherRows, <1>Modes, Zenon
    <2>3. PICK p1 : p1 = <<a, b, c, d>>
      BY Zenon
    <2>4. Program0(p1, t, q) /\ Len(p1) = 4 /\ p1[2] = b /\ p1[4] = d
      BY <2>2, <2>3, <1>Steps4, Zenon
    <2>5. PICK p2 : p2 = IfExposed(t, <<Lock(RootRow, KeyShare)>>)
      BY Zenon
    <2>6. Program0(p2, t, q) /\ Len(p2) \in Nat
      <3>1. Lock(RootRow, KeyShare) \in Step(t, q) /\ Quiet(Lock(RootRow, KeyShare), t)
        BY <1>QuietLocks, <1>OtherRows, <1>Modes, Zenon
      <3>2. Program0(<<Lock(RootRow, KeyShare)>>, t, q)
        BY <3>1, <1>Steps1, Zenon
      <3>3. Program0(p2, t, q)
        BY <2>5, <3>2, <1>EmptyProgram, Zenon DEF IfExposed
      <3> QED BY <3>3 DEF Program0
    <2>7. PICK p3 : p3 = <<appendAudit("QUERY_BUDGET_RESERVED")>>
      BY Zenon
    <2>8. Program0(p3, t, q) /\ Len(p3) = 1
      <3>1. "QUERY_BUDGET_RESERVED" \in EventType \ (TerminalTypes \union {TaskEnd})
        BY Zenon DEF EventType, TerminalTypes, TaskEnd
      <3> QED BY <2>7, <3>1, <1>QuietEvents, <1>Steps1, Zenon
    <2>9. PICK p4 : p4 = p1 \o p2
      BY Zenon
    <2>10. Program0(p4, t, q) /\ IsCat(p4, p1, p2) /\ Program0(p4 \o p3, t, q) /\ IsCat(p4 \o p3, p4, p3)
      BY <2>4, <2>6, <2>8, <2>9, <1>QuietCat, Zenon
    <2>11. Len(p4 \o p3) >= 5 /\ (p4 \o p3)[2] = b /\ (p4 \o p3)[4] = d
      BY <2>4, <2>6, <2>8, <2>10 DEF IsCat
    <2>12. ReserveBudget(t, q) = p4 \o p3
      BY <2>1, <2>3, <2>5, <2>7, <2>9, Zenon DEF ReserveBudget
    <2> QED BY <2>1, <2>10, <2>11, <2>12, Zenon
  <1>CallbackLayout. ASSUME NEW t, NEW q
      PROVE  LET p == ApplyApprovalCallback(t)
             IN  /\ Program0(p, t, q) /\ Len(p) >= 4
                 /\ p[2] = Lock(TaskRow(t), Update) /\ p[3] = cutoverGuard
    <2>1. PICK a, b, c : a = Lock(CallbackRow(t), Update) /\ b = Lock(TaskRow(t), Update) /\ c = cutoverGuard
      BY Zenon
    <2>2. a \in Step(t, q) /\ Quiet(a, t) /\ b \in Step(t, q) /\ Quiet(b, t) /\ c \in Step(t, q) /\ Quiet(c, t)
      BY <2>1, <1>QuietLocks, <1>OtherRows, <1>Modes, Zenon
    <2>3. PICK p1 : p1 = <<a, b, c>>
      BY Zenon
    <2>4. Program0(p1, t, q) /\ Len(p1) = 3 /\ p1[2] = b /\ p1[3] = c
      BY <2>2, <2>3, <1>Steps3, Zenon
    <2>5. PICK p2 : p2 = IfExposed(t, <<Lock(RootRow, Update)>>)
      BY Zenon
    <2>6. Program0(p2, t, q)
      <3>1. Lock(RootRow, Update) \in Step(t, q) /\ Quiet(Lock(RootRow, Update), t)
        BY <1>QuietLocks, <1>OtherRows, <1>Modes, Zenon
      <3>2. Program0(<<Lock(RootRow, Update)>>, t, q)
        BY <3>1, <1>Steps1, Zenon
      <3> QED BY <2>5, <3>2, <1>EmptyProgram, Zenon DEF IfExposed
    <2>7. PICK p3 : p3 = <<appendAudit("APPROVAL_CALLBACK_APPLIED")>>
      BY Zenon
    <2>8. Program0(p3, t, q) /\ Len(p3) = 1
      <3>1. "APPROVAL_CALLBACK_APPLIED" \in EventType \ (TerminalTypes \union {TaskEnd})
        BY Zenon DEF EventType, TerminalTypes, TaskEnd
      <3> QED BY <2>7, <3>1, <1>QuietEvents, <1>Steps1, Zenon
    <2>9. PICK p4 : p4 = p1 \o p2
      BY Zenon
    <2>10. Program0(p4, t, q) /\ IsCat(p4, p1, p2) /\ Program0(p4 \o p3, t, q) /\ IsCat(p4 \o p3, p4, p3)
      BY <2>4, <2>6, <2>8, <2>9, <1>QuietCat, Zenon
    <2>11. Len(p4 \o p3) >= 4 /\ (p4 \o p3)[2] = b /\ (p4 \o p3)[3] = c
      BY <2>4, <2>8, <2>10 DEF IsCat
    <2>12. ApplyApprovalCallback(t) = p4 \o p3
      BY <2>1, <2>3, <2>5, <2>7, <2>9, Zenon DEF ApplyApprovalCallback
    <2> QED BY <2>1, <2>10, <2>11, <2>12, Zenon
  <1>ActivateLayout. ASSUME NEW t, NEW q
      PROVE  LET p == EnforceExposureDeploymentMode
             IN  Program0(p, t, q) /\ Len(p) = 1 /\ p[1] = cutoverGuard
    BY <1>QuietLocks, <1>Steps1, Zenon DEF EnforceExposureDeploymentMode
  \* The programs that decide neither on a query nor on the cutover, and end nothing.
  <1>PlainLayout. ASSUME NEW t, NEW q
      PROVE  /\ Program0(CreateTask(t), t, q) /\ Program0(MarkTaskViewSemanticChanged(t), t, q)
             /\ Program0(SetResultRetentionHold(t), t, q) /\ Program0(MarkResultArtifactAvailable(q), t, q)
             /\ Program0(ClaimResultArtifactDeletion(t, q), t, q) /\ Program0(EraseResultEncryptionKey, t, q)
             /\ Program0(AppendAuditEvent, t, q)
    <2>0. DEFINE E == {"TASK_CREATED", "TASK_VIEW_SEMANTIC_CHANGED", "RETENTION_HOLD_SET", "QUERY_RESULT_CONSUMED",
                       "RESULT_DELETING", "RESULT_ENCRYPTION_KEY_ERASED", "EVENT"}
    <2>1. \A e \in E : appendAudit(e) \in Step(t, q) /\ Quiet(appendAudit(e), t)
      <3>1. E \subseteq EventType \ (TerminalTypes \union {TaskEnd})
        BY Zenon DEF EventType, TerminalTypes, TaskEnd
      <3> QED BY <3>1, <1>QuietEvents, Zenon
    <2>2. /\ appendAudit("TASK_CREATED") \in Step(t, q) /\ Quiet(appendAudit("TASK_CREATED"), t)
          /\ appendAudit("TASK_VIEW_SEMANTIC_CHANGED") \in Step(t, q)
          /\ Quiet(appendAudit("TASK_VIEW_SEMANTIC_CHANGED"), t)
          /\ appendAudit("RETENTION_HOLD_SET") \in Step(t, q) /\ Quiet(appendAudit("RETENTION_HOLD_SET"), t)
          /\ appendAudit("QUERY_RESULT_CONSUMED") \in Step(t, q) /\ Quiet(appendAudit("QUERY_RESULT_CONSUMED"), t)
          /\ appendAudit("RESULT_DELETING") \in Step(t, q) /\ Quiet(appendAudit("RESULT_DELETING"), t)
          /\ appendAudit("RESULT_ENCRYPTION_KEY_ERASED") \in Step(t, q)
          /\ Quiet(appendAudit("RESULT_ENCRYPTION_KEY_ERASED"), t)
          /\ appendAudit("EVENT") \in Step(t, q) /\ Quiet(appendAudit("EVENT"), t)
      BY <2>1, Zenon
    <2>3. \A m \in {Share, Update} : Lock(TaskRow(t), m) \in Step(t, q) /\ Quiet(Lock(TaskRow(t), m), t)
      BY <1>QuietLocks, Zenon
    <2>4. \A r \in {BindingRow(t), ArtifactRow(q), KeyRow}, m \in {Share, Update} :
             Lock(r, m) \in Step(t, q) /\ Quiet(Lock(r, m), t)
      BY <1>QuietLocks, <1>OtherRows, <1>Modes, Zenon
    <2>5. Program0(CreateTask(t), t, q)
      BY <2>2, <2>3, <1>Steps2, Zenon DEF CreateTask
    <2>6. Program0(MarkTaskViewSemanticChanged(t), t, q)
      BY <2>2, <2>3, <2>4, <1>Steps3, Zenon DEF MarkTaskViewSemanticChanged
    <2>7. Program0(SetResultRetentionHold(t), t, q)
      BY <2>2, <2>3, <1>Steps2, Zenon DEF SetResultRetentionHold
    <2>8. Program0(MarkResultArtifactAvailable(q), t, q)
      BY <2>2, <2>4, <1>Steps3, Zenon DEF MarkResultArtifactAvailable
    <2>9. Program0(ClaimResultArtifactDeletion(t, q), t, q)
      BY <2>2, <2>3, <2>4, <1>Steps3, Zenon DEF ClaimResultArtifactDeletion
    <2>10. Program0(EraseResultEncryptionKey, t, q)
      BY <2>2, <2>4, <1>Steps2, Zenon DEF EraseResultEncryptionKey
    <2>11. Program0(AppendAuditEvent, t, q)
      BY <2>2, <1>Steps1, Zenon DEF AppendAuditEvent
    <2> QED BY <2>5, <2>6, <2>7, <2>8, <2>9, <2>10, <2>11, Zenon
  <1>TransitionLayout. ASSUME NEW t, NEW q
      PROVE  LET p == TransitionTask(t)
             IN  /\ p \in Seq(Step(t, q)) /\ Len(p) = 2
                 /\ p[1] = Lock(TaskRow(t), Update) /\ Quiet(p[1], t)
                 /\ p[2] = appendAudit(TaskEnd) /\ p[2].event = TaskEnd
    <2>1. PICK a, b : a = Lock(TaskRow(t), Update) /\ b = appendAudit(TaskEnd)
      BY Zenon
    <2>2. a \in Step(t, q) /\ Quiet(a, t) /\ b \in Step(t, q) /\ b.event = TaskEnd
      <3>1. TaskEnd \in EventType
        BY Zenon DEF TaskEnd, EventType
      <3> QED BY <2>1, <3>1, <1>QuietLocks, <1>AppendStep, Zenon
    <2>3. TransitionTask(t) = <<a, b>>
      BY <2>1, Zenon DEF TransitionTask, TaskEnd
    <2> QED BY <2>1, <2>2, <2>3
  <1>SettleForm. ASSUME NEW t, NEW q, NEW p, Program0(p, t, q), NEW type \in TerminalTypes
      PROVE  /\ p \o settleBudget(t, q, type) \in Seq(Step(t, q))
             /\ Len(p \o settleBudget(t, q, type)) = Len(p) + 3
             /\ SettlementForm(p \o settleBudget(t, q, type), Len(p) + 3, FALSE, t, q)
    <2> USE <1>SettleForm
    <2>1. PICK a, b, c : a = Lock(QueryRow(q), Update) /\ b = Lock(LedgerRow(t), Update) /\ c = appendAudit(type)
      BY Zenon
    <2>2. a \in Step(t, q) /\ Quiet(a, t) /\ b \in Step(t, q) /\ Quiet(b, t)
      BY <2>1, <1>QuietLocks, <1>OtherRows, <1>Modes, Zenon
    <2>3. c \in Step(t, q) /\ c.event = type /\ c.row # TaskRow(t) /\ type # TaskEnd
      <3>1. type \in EventType /\ type # TaskEnd
        BY Zenon DEF TerminalTypes, EventType, TaskEnd
      <3>2. c.row = HeadRow /\ HeadRow # TaskRow(t)
        BY <2>1, Tables, Zenon DEF appendAudit
      <3> QED BY <2>1, <3>1, <3>2, <1>AppendStep, Zenon
    <2>4. PICK s : s = <<a, b, c>>
      BY Zenon
    <2>5. s \in Seq(Step(t, q)) /\ Len(s) = 3 /\ s[1] = a /\ s[2] = b /\ s[3] = c
      BY <2>2, <2>3, <2>4
    <2>6. p \in Seq(Step(t, q)) /\ Len(p) \in Nat /\ \A i \in 1..Len(p) : Quiet(p[i], t)
      BY DEF Program0
    <2>7. PICK g : g = p \o s
      BY Zenon
    <2>8. PICK n \in Nat : n = Len(p)
      BY <2>6, Zenon
    <2>16. g \in Seq(Step(t, q)) /\ IsCat(g, p, s)
      BY <2>5, <2>6, <2>7, CatIs, Zenon
    <2>9. g \in Seq(Step(t, q)) /\ Len(g) = n + 3
      BY <2>5, <2>8, <2>16, Zenon DEF IsCat
    <2>10. g[n + 1] = a /\ g[n + 2] = b /\ g[n + 3] = c
      BY <2>5, <2>8, <2>16 DEF IsCat
    <2>11. \A i \in 1..n : g[i] = p[i]
      BY <2>8, <2>16, Zenon DEF IsCat
    <2>12. ASSUME NEW i \in 1..(n + 3), i # n + 3 PROVE Quiet(g[i], t)
      <3>1. CASE i \in 1..n
        BY <2>6, <2>8, <2>11, <3>1, Zenon
      <3>2. CASE i = n + 1 \/ i = n + 2
        BY <2>2, <2>10, <3>2, Zenon
      <3> QED BY <2>12, <3>1, <3>2
    <2>13. (n + 3) - 2 = n + 1 /\ n + 3 \in 3..(n + 3)
      OBVIOUS
    <2>14. SettlementForm(g, n + 3, FALSE, t, q)
      BY <2>1, <2>3, <2>9, <2>10, <2>12, <2>13, Zenon DEF SettlementForm, Quiet
    <2>15. p \o settleBudget(t, q, type) = g
      BY <2>1, <2>4, <2>7, Zenon DEF settleBudget
    <2> QED BY <2>8, <2>9, <2>14, <2>15, Zenon
  <1>FormAndEvent. ASSUME NEW t, NEW q, NEW p, NEW T, SettlementForm(p, T, FALSE, t, q), NEW a \in Step(t, q), Quiet(a, t)
      PROVE  SettlementForm(p \o <<a>>, T, FALSE, t, q) /\ Len(p \o <<a>>) = Len(p) + 1
    <2> USE <1>FormAndEvent
    <2>1. PICK s, g, n : s = <<a>> /\ g = p \o s /\ n = Len(p)
      BY Zenon
    <2>2. p \in Seq(Step(t, q)) /\ s \in Seq(Step(t, q)) /\ Len(s) = 1 /\ s[1] = a /\ n \in Nat /\ T \in 3..n
      BY <2>1 DEF SettlementForm
    <2>3. g \in Seq(Step(t, q)) /\ Len(g) = n + 1 /\ (\A i \in 1..n : g[i] = p[i]) /\ g[n + 1] = a
      <3>1. g \in Seq(Step(t, q)) /\ IsCat(g, p, s)
        BY <2>1, <2>2, CatIs, Zenon
      <3> QED BY <2>1, <2>2, <3>1 DEF IsCat
    <2>4. ASSUME NEW i \in 1..(n + 1), i # T PROVE Quiet(g[i], t)
      <3>1. CASE i \in 1..n
        BY <2>1, <2>3, <2>4, <3>1, Zenon DEF SettlementForm, Quiet
      <3>2. CASE i = n + 1
        BY <2>3, <3>2, Zenon
      <3> QED BY <2>2, <3>1, <3>2
    <2>5. T \in 1..n /\ T - 2 \in 1..n /\ T \in 3..(n + 1)
      BY <2>2
    <2>6. g[T] = p[T] /\ g[T - 2] = p[T - 2]
      BY <2>3, <2>5, Zenon
    <2>7. p[T - 2] = Lock(QueryRow(q), Update) /\ p[T].event \in TerminalTypes
      BY Zenon DEF SettlementForm
    <2>8. p[T].event # TaskEnd /\ ~(p[T].row = TaskRow(t) /\ p[T].mode = NoKeyUpdate)
      BY <2>1, <2>5, Zenon DEF SettlementForm
    <2>9. SettlementForm(g, T, FALSE, t, q)
      BY <2>3, <2>4, <2>5, <2>6, <2>7, <2>8, Zenon DEF SettlementForm, Quiet
    <2> QED BY <2>1, <2>3, <2>9, Zenon
  <1>FormAndArchive. ASSUME NEW t, NEW q, NEW p, NEW T, SettlementForm(p, T, FALSE, t, q)
      PROVE  SettlementForm(p \o archiveTask(t), T, TRUE, t, q) /\ Len(p \o archiveTask(t)) = Len(p) + 2
    <2> USE <1>FormAndArchive
    <2>0. PICK a, b : a = Lock(TaskRow(t), NoKeyUpdate) /\ b = appendAudit(TaskEnd)
      BY Zenon
    <2>1. PICK s, g, n : s = <<a, b>> /\ g = p \o s /\ n = Len(p)
      BY Zenon
    <2>2. a \in Step(t, q) /\ a.event = "none" /\ b \in Step(t, q) /\ b.event = TaskEnd /\ b.row # TaskRow(t)
      <3>1. TaskEnd \in EventType /\ TaskRow(t) \in Row(t, q) /\ NoKeyUpdate \in Mode
        BY <1>Modes, Zenon DEF TaskEnd, EventType, Row
      <3>2. b.row = HeadRow /\ HeadRow # TaskRow(t)
        BY <2>0, Tables, Zenon DEF appendAudit
      <3> QED BY <2>0, <3>1, <3>2, <1>LockStep, <1>AppendStep
    <2>3. p \in Seq(Step(t, q)) /\ s \in Seq(Step(t, q)) /\ Len(s) = 2 /\ s[1] = a /\ s[2] = b
          /\ n \in Nat /\ T \in 3..n
      BY <2>1, <2>2 DEF SettlementForm
    <2>4. /\ g \in Seq(Step(t, q)) /\ Len(g) = n + 2 /\ (\A i \in 1..n : g[i] = p[i])
          /\ g[n + 1] = a /\ g[n + 2] = b
      <3>1. g \in Seq(Step(t, q)) /\ IsCat(g, p, s)
        BY <2>1, <2>3, CatIs, Zenon
      <3> QED BY <2>1, <2>3, <3>1 DEF IsCat
    <2>5. T \in 1..n /\ T - 2 \in 1..n /\ T \in 3..(n + 2) /\ T <= (n + 2) - 2 /\ (n + 2) - 1 = n + 1
      BY <2>3
    <2>6. g[T] = p[T] /\ g[T - 2] = p[T - 2]
      BY <2>4, <2>5, Zenon
    <2>7. p[T - 2] = Lock(QueryRow(q), Update) /\ p[T].event \in TerminalTypes
      BY Zenon DEF SettlementForm
    <2>8. ASSUME NEW i \in 1..(n + 2)
          PROVE  /\ i # T => g[i].event \notin TerminalTypes
                 /\ g[i].event = TaskEnd => i = n + 2
                 /\ g[i].row = TaskRow(t) /\ g[i].mode = NoKeyUpdate => i = n + 1
      <3>1. CASE i \in 1..n
        BY <2>1, <2>4, <3>1, Zenon DEF SettlementForm
      <3>2. CASE i = n + 1
        <4>1. "none" \notin TerminalTypes /\ "none" # TaskEnd
          BY Zenon DEF TerminalTypes, TaskEnd
        <4> QED BY <2>2, <2>4, <3>2, <4>1, Zenon
      <3>3. CASE i = n + 2
        <4>1. TaskEnd \notin TerminalTypes
          BY Zenon DEF TerminalTypes, TaskEnd
        <4> QED BY <2>2, <2>4, <3>3, <4>1, Zenon
      <3>4. i \in 1..n \/ i = n + 1 \/ i = n + 2
        BY <2>3
      <3> QED BY <3>1, <3>2, <3>3, <3>4, Zenon
    <2>9. SettlementForm(g, T, TRUE, t, q)
      BY <2>0, <2>2, <2>4, <2>5, <2>6, <2>7, <2>8, Zenon DEF SettlementForm
    <2>10. p \o archiveTask(t) = g
      BY <2>0, <2>1, Zenon DEF archiveTask, TaskEnd
    <2> QED BY <2>1, <2>4, <2>9, <2>10, Zenon
  <1>ExposureLayout. ASSUME NEW t, NEW q, Stores[q] \in Seq(STRING)
      PROVE  Program0(settleExposure(t, q), t, q)
    <2> USE <1>ExposureLayout
    <2>1. Program0(storeObservation(q), t, q)
      <3>1. PICK n \in Nat : n = Len(Stores[q])
        OBVIOUS
      <3>2. \A i \in 1..n : ContentRow(Stores[q][i]) \in Row(t, q) /\ ContentRow(Stores[q][i])[1] # "tasks"
        <4>1. \A i \in 1..n : Stores[q][i] \in STRING
          BY <3>1
        <4>2. \A c \in STRING : ContentRow(c) \in Row(t, q) /\ ContentRow(c)[1] # "tasks"
          BY Tables, Zenon DEF Row
        <4> QED BY <4>1, <4>2, Zenon
      <3>3. \A i \in 1..n : /\ Lock(ContentRow(Stores[q][i]), Update) \in Step(t, q)
                            /\ Quiet(Lock(ContentRow(Stores[q][i]), Update), t)
        BY <3>2, <1>QuietLocks, <1>Modes, Zenon
      <3>4. PICK p : p = [i \in 1..n |-> Lock(ContentRow(Stores[q][i]), Update)]
        BY Zenon
      <3>5. p \in [1..n -> Step(t, q)] /\ \A i \in 1..n : Quiet(p[i], t)
        BY <3>3, <3>4, Zenon
      <3>6. p \in Seq(Step(t, q)) /\ Len(p) = n
        BY <3>5
      <3>7. storeObservation(q) = p
        BY <3>1, <3>4, Zenon DEF storeObservation
      <3> QED BY <3>5, <3>6, <3>7, Zenon DEF Program0
    <2>2. CASE Ordinal(t)
      <3>1. PICK a, p : a = Lock(RootRow, NoKeyUpdate) /\ p = storeObservation(q)
        BY Zenon
      <3>2. a \in Step(t, q) /\ Quiet(a, t) /\ p \in Seq(Step(t, q)) /\ \A i \in 1..Len(p) : Quiet(p[i], t)
        BY <2>1, <3>1, <1>QuietLocks, <1>OtherRows, <1>Modes, Zenon DEF Program0
      <3>3. Append(p, a) \in Seq(Step(t, q)) /\ \A i \in 1..Len(Append(p, a)) : Quiet(Append(p, a)[i], t)
        BY <3>2
      <3>4. settleExposure(t, q) = Append(p, a)
        BY <2>2, <3>1, Zenon DEF settleExposure
      <3> QED BY <3>3, <3>4, Zenon DEF Program0
    <2>3. CASE ~Ordinal(t)
      <3>1. /\ Lock(RootRow, Update) \in Step(t, q) /\ Quiet(Lock(RootRow, Update), t)
            /\ cutoverGuard \in Step(t, q) /\ Quiet(cutoverGuard, t)
        BY <1>QuietLocks, <1>OtherRows, <1>Modes, Zenon
      <3> QED BY <2>3, <3>1, <1>Steps2, Zenon DEF settleExposure
    <2> QED BY <2>2, <2>3
  \* The last part of a settlement's program, and where its terminal event is.
  <1>ArchiveLayout. ASSUME NEW t, NEW q, NEW p, NEW T, SettlementForm(p, T, FALSE, t, q), NEW archive \in BOOLEAN
      PROVE  LET g == p \o (IF archive THEN archiveTask(t) ELSE <<>>)
             IN  /\ SettlementForm(g, T, archive, t, q)
                 /\ Len(p) = Len(g) - (IF archive THEN 2 ELSE 0)
    <2> USE <1>ArchiveLayout
    <2>0. p \in Seq(Step(t, q)) /\ Len(p) \in Nat
      BY DEF SettlementForm
    <2>1. CASE archive
      <3>1. PICK g : g = p \o archiveTask(t)
        BY Zenon
      <3>2. SettlementForm(g, T, TRUE, t, q) /\ Len(g) = Len(p) + 2
        BY <3>1, <1>FormAndArchive, Zenon
      <3>3. Len(p) = Len(g) - 2
        BY <2>0, <3>2
      <3>4. archive = TRUE /\ (IF archive THEN archiveTask(t) ELSE <<>>) = archiveTask(t)
            /\ (IF archive THEN 2 ELSE 0) = 2
        BY <2>1, Zenon
      <3> QED BY <3>1, <3>2, <3>3, <3>4, Zenon
    <2>2. CASE ~archive
      <3>1. p \o <<>> = p
        BY <2>0
      <3>2. archive = FALSE /\ (IF archive THEN archiveTask(t) ELSE <<>>) = <<>> /\ (IF archive THEN 2 ELSE 0) = 0
        BY <2>2, Zenon
      <3>3. Len(p) = Len(p) - 0
        BY <2>0
      <3> QED BY <3>1, <3>2, <3>3, Zenon
    <2> QED BY <2>1, <2>2, Zenon
  <1>FinalizeLayout. ASSUME NEW t, NEW q, Stores[q] \in Seq(STRING), NEW archive \in BOOLEAN
      PROVE  LET p == FinalizeQuery(t, q, archive)
             IN  SettlementForm(p, Len(p) - (IF archive THEN 2 ELSE 0) - 1, archive, t, q)
    <2> USE <1>FinalizeLayout
    <2>1. PICK a, b, c, d : /\ a = Lock(KeyRow, Share) /\ b = Lock(QueryRow(q), KeyShare)
                            /\ c = Lock(TaskRow(t), KeyShare) /\ d = Lock(ReservationRow(q), Update)
      BY Zenon
    <2>2. /\ a \in Step(t, q) /\ Quiet(a, t) /\ b \in Step(t, q) /\ Quiet(b, t)
          /\ c \in Step(t, q) /\ Quiet(c, t) /\ d \in Step(t, q) /\ Quiet(d, t)
      BY <2>1, <1>QuietLocks, <1>OtherRows, <1>Modes, Zenon
    <2>3. PICK p1, p2 : p1 = <<a, b, c, d>> /\ p2 = p1 \o settleExposure(t, q)
      BY Zenon
    <2>4. Program0(p2, t, q)
      <3>1. Program0(p1, t, q)
        BY <2>2, <2>3, <1>Steps4, Zenon
      <3> QED BY <2>3, <3>1, <1>ExposureLayout, <1>QuietCat, Zenon
    <2>5. PICK e, f : e = appendAudit("EXPOSURE_SETTLED") /\ f = appendAudit("QUERY_RESULT_OBJECT_REGISTERED")
      BY Zenon
    <2>6. e \in Step(t, q) /\ Quiet(e, t) /\ f \in Step(t, q) /\ Quiet(f, t)
      <3>1. {"EXPOSURE_SETTLED", "QUERY_RESULT_OBJECT_REGISTERED"}
              \subseteq EventType \ (TerminalTypes \union {TaskEnd})
        BY Zenon DEF EventType, TerminalTypes, TaskEnd
      <3> QED BY <2>5, <3>1, <1>QuietEvents, Zenon
    <2>7. PICK p3, p4 : p3 = p2 \o <<e>> /\ p4 = p3 \o settleBudget(t, q, "QUERY_COMPLETED")
      BY Zenon
    <2>8. Program0(p3, t, q)
      BY <2>4, <2>6, <2>7, <1>Steps1, <1>QuietCat, Zenon
    <2>9. SettlementForm(p4, Len(p3) + 3, FALSE, t, q) /\ Len(p4) = Len(p3) + 3
      <3>1. "QUERY_COMPLETED" \in TerminalTypes
        BY Zenon DEF TerminalTypes
      <3> QED BY <2>7, <2>8, <3>1, <1>SettleForm, ZenonT(60)
    <2>10. PICK p5 : p5 = p4 \o <<f>>
      BY Zenon
    <2>11. SettlementForm(p5, Len(p3) + 3, FALSE, t, q) /\ Len(p5) = Len(p4) + 1
      BY <2>6, <2>9, <2>10, <1>FormAndEvent, Zenon
    <2>12. PICK p6 : p6 = p5 \o (IF archive THEN archiveTask(t) ELSE <<>>)
      BY Zenon
    <2>13. SettlementForm(p6, Len(p3) + 3, archive, t, q) /\ Len(p5) = Len(p6) - (IF archive THEN 2 ELSE 0)
      BY <2>11, <2>12, <1>ArchiveLayout, ZenonT(60)
    <2>14. FinalizeQuery(t, q, archive) = p6
      BY <2>1, <2>3, <2>5, <2>7, <2>10, <2>12, Zenon DEF FinalizeQuery
    <2>15. Len(p3) + 3 = Len(p6) - (IF archive THEN 2 ELSE 0) - 1
      <3>1. Len(p3) \in Nat /\ Len(p6) \in Nat
        BY <2>8, <2>13 DEF Program0, SettlementForm
      <3> QED BY <2>9, <2>11, <2>13, <3>1
    <2> QED BY <2>13, <2>14, <2>15, Zenon
  <1>FailLayout. ASSUME NEW t, NEW q, NEW archive \in BOOLEAN
      PROVE  LET p == FailBudget(t, q, archive)
             IN  SettlementForm(p, Len(p) - (IF archive THEN 2 ELSE 0), archive, t, q)
    <2>1. PICK a, b : a = Lock(ReservationRow(q), Update) /\ b = appendAudit("EXPOSURE_RELEASED")
      BY Zenon
    <2>2. a \in Step(t, q) /\ Quiet(a, t) /\ b \in Step(t, q) /\ Quiet(b, t)
      <3>1. "EXPOSURE_RELEASED" \in EventType \ (TerminalTypes \union {TaskEnd})
        BY Zenon DEF EventType, TerminalTypes, TaskEnd
      <3> QED BY <2>1, <3>1, <1>QuietLocks, <1>OtherRows, <1>Modes, <1>QuietEvents, Zenon
    <2>3. PICK p1, p2 : p1 = IfExposed(t, <<a, b>>) /\ p2 = p1 \o settleBudget(t, q, "QUERY_FAILED")
      BY Zenon
    <2>4. Program0(p1, t, q)
      <3>1. Program0(<<a, b>>, t, q)
        BY <2>2, <1>Steps2, Zenon
      <3> QED BY <2>3, <3>1, <1>EmptyProgram, Zenon DEF IfExposed
    <2>5. SettlementForm(p2, Len(p1) + 3, FALSE, t, q) /\ Len(p2) = Len(p1) + 3
      <3>1. "QUERY_FAILED" \in TerminalTypes
        BY Zenon DEF TerminalTypes
      <3> QED BY <2>3, <2>4, <3>1, <1>SettleForm, ZenonT(60)
    <2>6. PICK p3 : p3 = p2 \o (IF archive THEN archiveTask(t) ELSE <<>>)
      BY Zenon
    <2>7. SettlementForm(p3, Len(p1) + 3, archive, t, q) /\ Len(p2) = Len(p3) - (IF archive THEN 2 ELSE 0)
      BY <2>5, <2>6, <1>ArchiveLayout, ZenonT(60)
    <2>8. FailBudget(t, q, archive) = p3
      BY <2>1, <2>3, <2>6, Zenon DEF FailBudget
    <2> QED BY <2>5, <2>7, <2>8, Zenon
  <1>1. PICK t, q : t = Job[x].task /\ q = Job[x].query
    BY Zenon
  <1>2. \A p : Program0(p, t, q) => p \in Seq(Step(t, q)) /\ \A i \in 1..Len(p) : Quiet(p[i], t)
    BY Zenon DEF Program0
  <1>3. CASE kind[x] = "reserve"
    <2>1. Program(x) = ReserveBudget(t, q)
      BY <1>1, <1>3, Zenon DEF Program
    <2>2. Program0(Program(x), t, q)
      BY <2>1, <1>ReserveLayout, Zenon
    <2>3. Len(Program(x)) >= 5 /\ Program(x)[2] = Lock(QueryRow(q), Update) /\ Program(x)[4] = cutoverGuard
      BY <2>1, <1>ReserveLayout, Zenon
    <2>4. Program(x) \in Seq(Step(t, q)) /\ \A i \in 1..Len(Program(x)) : Quiet(Program(x)[i], t)
      BY <1>2, <2>2, Zenon
    <2> QED BY <1>1, <1>3, <2>3, <2>4, Zenon DEF Settlement
  <1>4. CASE kind[x] = "callback"
    <2>1. Program(x) = ApplyApprovalCallback(t)
      BY <1>1, <1>4, Zenon DEF Program
    <2>2. Program0(Program(x), t, q)
      BY <2>1, <1>CallbackLayout, Zenon
    <2>3. Len(Program(x)) >= 4 /\ Program(x)[2] = Lock(TaskRow(t), Update) /\ Program(x)[3] = cutoverGuard
      BY <2>1, <1>CallbackLayout, Zenon
    <2>4. Program(x) \in Seq(Step(t, q)) /\ \A i \in 1..Len(Program(x)) : Quiet(Program(x)[i], t)
      BY <1>2, <2>2, Zenon
    <2> QED BY <1>1, <1>4, <2>3, <2>4, Zenon DEF Settlement
  <1>5. CASE kind[x] \in {"activate", "serve"}
    <2>1. Program(x) = EnforceExposureDeploymentMode
      BY <1>1, <1>5, Zenon DEF Program
    <2>2. Program0(Program(x), t, q)
      BY <2>1, <1>ActivateLayout, Zenon
    <2>3. Len(Program(x)) = 1 /\ Program(x)[1] = cutoverGuard
      BY <2>1, <1>ActivateLayout, Zenon
    <2>4. Program(x) \in Seq(Step(t, q)) /\ \A i \in 1..Len(Program(x)) : Quiet(Program(x)[i], t)
      BY <1>2, <2>2, Zenon
    <2> QED BY <1>1, <1>5, <2>3, <2>4, Zenon DEF Settlement
  <1>6. CASE kind[x] = "transition"
    <2>1. Program(x) = TransitionTask(t)
      BY <1>1, <1>6, Zenon DEF Program
    <2> QED BY <1>1, <1>6, <2>1, <1>TransitionLayout, Zenon DEF Settlement
  <1>7. CASE kind[x] = "finalize"
    <2>1. Program(x) = FinalizeQuery(t, q, archives[x])
      BY <1>1, <1>7, Zenon DEF Program
    <2>2. Stores[q] \in Seq(STRING)
      BY <1>1, <1>7, SceneFacts, Zenon DEF WorksOnQuery
    <2>3. SettlementForm(Program(x), TerminalAt(x), archives[x], t, q)
      BY <1>7, <2>1, <2>2, <1>FinalizeLayout, Zenon DEF TerminalAt
    <2> QED BY <1>1, <1>7, <2>3, Zenon DEF Settlement, SettlementForm
  <1>8. CASE kind[x] = "fail"
    <2>1. Program(x) = FailBudget(t, q, archives[x])
      BY <1>1, <1>8, Zenon DEF Program
    <2>2. SettlementForm(Program(x), Len(Program(x)) - (IF archives[x] THEN 2 ELSE 0), archives[x], t, q)
      BY <2>1, <1>FailLayout, Zenon
    <2>3. TerminalAt(x) = Len(Program(x)) - (IF archives[x] THEN 2 ELSE 0)
      BY <1>8, <2>2 DEF TerminalAt, SettlementForm
    <2> QED BY <1>1, <1>8, <2>2, <2>3, Zenon DEF Settlement, SettlementForm
  <1>9. CASE kind[x] \notin {"reserve", "callback", "activate", "serve", "transition", "finalize", "fail"}
    <2>1. Program(x) \in {CreateTask(t), MarkTaskViewSemanticChanged(t), SetResultRetentionHold(t),
                          MarkResultArtifactAvailable(q), ClaimResultArtifactDeletion(t, q),
                          EraseResultEncryptionKey, AppendAuditEvent}
      BY <1>1, <1>9, Zenon DEF Program
    <2>2. Program0(Program(x), t, q)
      BY <2>1, <1>PlainLayout, Zenon
    <2> QED BY <1>1, <1>2, <1>9, <2>2, Zenon DEF Settlement
  <1> QED BY <1>3, <1>4, <1>5, <1>6, <1>7, <1>8, <1>9, Zenon

-----------------------------------------------------------------------------
(* What a step leaves alone. *)

Same(y) ==
    /\ kind'[y] = kind[y] /\ status'[y] = status[y] /\ next'[y] = next[y]
    /\ archives'[y] = archives[y] /\ locks'[y] = locks[y] /\ own'[y] = own[y]

\* What is read off the scenario does not change with it unchanged.
LEMMA SceneFrame ==
  ASSUME scene' = scene
  PROVE  /\ Txs' = Txs /\ Job' = Job /\ Start' = Start /\ Stores' = Stores /\ Profile' = Profile
         /\ Queries' = Queries /\ Tasks' = Tasks
         /\ \A q : Owner(q)' = Owner(q)
         /\ \A t : Ordinal(t)' = Ordinal(t)
  BY Zenon DEF Txs, Job, Start, Stores, Profile, Queries, Tasks, Owner, Ordinal

\* A program depends on the scenario, the method and whether it archives.
LEMMA ProgramFrame ==
  ASSUME scene' = scene, NEW y, kind'[y] = kind[y], archives'[y] = archives[y]
  PROVE  Program(y)' = Program(y) /\ TerminalAt(y)' = TerminalAt(y) /\ GuardAt(y)' = GuardAt(y)
  <1>1. Program(y)' = Program(y)
    BY Zenon DEF Program, Job, ReserveBudget, FinalizeQuery, FailBudget, TransitionTask, CreateTask,
           ApplyApprovalCallback, MarkTaskViewSemanticChanged, SetResultRetentionHold,
           MarkResultArtifactAvailable, ClaimResultArtifactDeletion, EraseResultEncryptionKey,
           EnforceExposureDeploymentMode, AppendAuditEvent, IfExposed, settleExposure, storeObservation,
           Ordinal, Profile, Stores
  <1> QED BY <1>1, Zenon DEF TerminalAt, GuardAt

\* A transaction that a step leaves alone stays where it is in its program.
LEMMA TxFrame ==
  ASSUME scene' = scene, NEW y, Same(y)
  PROVE  /\ TxOK(y) => TxOK(y)'
         /\ EventsOK(y) => EventsOK(y)'
         /\ Guarded(y)' = Guarded(y) /\ Claimed(y)' = Claimed(y) /\ MovesTask(y)' = MovesTask(y)
         /\ \A row, mode : Holds(y, row, mode)' = Holds(y, row, mode)
  <1>1. Program(y)' = Program(y) /\ TerminalAt(y)' = TerminalAt(y) /\ GuardAt(y)' = GuardAt(y)
    BY ProgramFrame, Zenon DEF Same
  <1>2. Job' = Job /\ Queries' = Queries
    BY SceneFrame, Zenon
  <1>3. TxOK(y) => TxOK(y)'
    BY <1>2, Zenon DEF TxOK, Same, Settlement, WorksOnQuery
  <1>4. Terminated(y)' = Terminated(y)
    BY <1>1, Zenon DEF Terminated, Same, Settlement
  <1>5. EventsOK(y) => EventsOK(y)'
    <2>1. next'[y] = next[y] /\ own'[y] = own[y] /\ kind'[y] = kind[y] /\ Job'[y] = Job[y]
      BY <1>2, Zenon DEF Same
    <2>2. TerminalsIn(own[y], Job[y].query)' = TerminalsIn(own[y], Job[y].query)
      BY <2>1, Zenon DEF TerminalsIn, IsTerminal, TerminalTypes
    <2>3. EndsIn(own[y], Job[y].task)' = EndsIn(own[y], Job[y].task)
      BY <2>1, Zenon DEF EndsIn, TaskEnd
    <2> QED BY <1>1, <1>4, <2>1, <2>2, <2>3, Zenon DEF EventsOK
  <1>6. Guarded(y)' = Guarded(y) /\ Claimed(y)' = Claimed(y) /\ MovesTask(y)' = MovesTask(y)
    BY <1>1, <1>2, Zenon DEF Guarded, Claimed, MovesTask, Same, Settlement, EndsIn, TaskEnd
  <1> QED BY <1>3, <1>5, <1>6, Zenon DEF Holds, Same

\* The guard of the cutover reads the committed rows.
LEMMA PassesFrame ==
  ASSUME scene' = scene, UNCHANGED rowVars, NEW y, kind'[y] = kind[y]
  PROVE  Passes(y)' = Passes(y)
  <1>1. Job' = Job /\ Queries' = Queries /\ Profile' = Profile
    BY SceneFrame, Zenon
  <1>2. \A q : Owner(q)' = Owner(q)
    BY SceneFrame, Zenon
  <1>3. LegacyState' = LegacyState
    BY <1>1, <1>2, Zenon DEF LegacyState, rowVars
  <1> QED BY <1>1, <1>3, Zenon DEF Passes, Ordinal, rowVars

\* Where the committed rows stay, what a transaction found stays.
LEMMA RowFrame ==
  ASSUME scene' = scene, UNCHANGED rowVars
  PROVE  /\ \A y : Same(y) /\ GuardOK(y) => GuardOK(y)'
         /\ \A y : Same(y) /\ ClaimOK(y) => ClaimOK(y)'
         /\ \A y : Same(y) /\ MoveOK(y) => MoveOK(y)'
         /\ CutoverIsClean => CutoverIsClean'
         /\ (\A q \in Queries : QueryOK(q)) => (\A q \in Queries : QueryOK(q))'
         /\ (\A t \in Tasks : TaskOK(t)) => (\A t \in Tasks : TaskOK(t))'
  <1>1. /\ Job' = Job /\ Queries' = Queries /\ Tasks' = Tasks /\ Start' = Start
        /\ \A q : Owner(q)' = Owner(q)
        /\ \A t : Ordinal(t)' = Ordinal(t)
    BY SceneFrame, Zenon
  <1>2. ASSUME NEW y, Same(y) PROVE (GuardOK(y) => GuardOK(y)') /\ (ClaimOK(y) => ClaimOK(y)')
                                    /\ (MoveOK(y) => MoveOK(y)')
    <2>1. /\ Guarded(y)' = Guarded(y) /\ Claimed(y)' = Claimed(y) /\ MovesTask(y)' = MovesTask(y)
          /\ \A row, mode : Holds(y, row, mode)' = Holds(y, row, mode)
      BY <1>2, TxFrame, Zenon
    <2>2. Passes(y)' = Passes(y)
      BY <1>2, PassesFrame, Zenon DEF Same
    <2>3. GuardOK(y) => GuardOK(y)'
      BY <2>1, <2>2, Zenon DEF GuardOK, CutoverLock, Update
    <2>4. ClaimOK(y) => ClaimOK(y)'
      BY <1>1, <1>2, <2>1, Zenon DEF ClaimOK, rowVars, Same, QueryRow, Update
    <2>5. MoveOK(y) => MoveOK(y)'
      BY <1>1, <2>1, Zenon DEF MoveOK, HoldsTask, rowVars, TaskRow, Update, NoKeyUpdate
    <2> QED BY <2>3, <2>4, <2>5, Zenon
  <1>3. CutoverIsClean => CutoverIsClean'
    BY <1>1, Zenon DEF CutoverIsClean, rowVars
  <1>4. chain' = chain /\ query' = query /\ receipt' = receipt /\ taskState' = taskState
    BY Zenon DEF rowVars
  <1>5. \A q : TerminalsIn(chain, q)' = TerminalsIn(chain, q)
    BY <1>4, Zenon DEF TerminalsIn, IsTerminal, TerminalTypes
  <1>6. \A t : EndsIn(chain, t)' = EndsIn(chain, t)
    BY <1>4, Zenon DEF EndsIn, TaskEnd
  <1>7. \A q : QueryOK(q) => QueryOK(q)'
    BY <1>1, <1>4, <1>5, Zenon DEF QueryOK, HeadAfter, Checkpoint
  <1>8. \A t : TaskOK(t) => TaskOK(t)'
    BY <1>4, <1>6, Zenon DEF TaskOK
  <1> QED BY <1>1, <1>2, <1>3, <1>7, <1>8, Zenon

\* A transaction at its start has decided on nothing.
LEMMA FreshTx ==
  ASSUME scene' = scene, NEW x \in Txs, TxOK(x), kind'[x] = kind[x] \/ (Settlement(kind[x]) /\ kind'[x] = "fail"),
         next'[x] = 1, own'[x] = <<>>, locks'[x] = {}, archives'[x] => Settlement(kind'[x])
  PROVE  TxOK(x)' /\ GuardOK(x)' /\ ClaimOK(x)' /\ MoveOK(x)' /\ EventsOK(x)'
  <1>1. Job' = Job /\ Queries' = Queries
    BY SceneFrame, Zenon
  <1>2. TxOK(x)'
    BY <1>1, Zenon DEF TxOK, WorksOnQuery, Settlement
  <1>3. ~Guarded(x)' /\ ~Claimed(x)' /\ ~Terminated(x)'
    BY DEF Guarded, GuardAt, Claimed, Terminated
  <1>4. Len(own'[x]) = 0
    OBVIOUS
  <1>5. \A q : TerminalsIn(own'[x], q) = {}
    BY <1>4 DEF TerminalsIn
  <1>6. \A t : EndsIn(own'[x], t) = {}
    BY <1>4 DEF EndsIn
  <1>7. ~MovesTask(x)'
    BY <1>6 DEF MovesTask
  <1>8. EventsOK(x)'
    BY <1>3, <1>4, <1>5, <1>6 DEF EventsOK
  <1> QED BY <1>2, <1>3, <1>7, <1>8, Zenon DEF GuardOK, ClaimOK, MoveOK

\* A transaction is back at its start, or starts, and the committed rows stay.
LEMMA ResetStep ==
  ASSUME IInv, TypeOK', NEW x \in Txs, scene' = scene, UNCHANGED <<rowVars, prover, verifier>>,
         kind'[x] = kind[x] \/ (Settlement(kind[x]) /\ kind'[x] = "fail"),
         next'[x] = 1, own'[x] = <<>>, locks'[x] = {}, archives'[x] => Settlement(kind'[x]),
         \A y \in Txs \ {x} : Same(y)
  PROVE  IInv'
  <1>1. Txs' = Txs
    BY SceneFrame, Zenon
  <1>2. UNCHANGED rowVars /\ chain' = chain /\ head' = head
    BY Zenon DEF rowVars
  <1>3. ASSUME NEW y \in Txs PROVE TxOK(y)' /\ GuardOK(y)' /\ ClaimOK(y)' /\ MoveOK(y)' /\ EventsOK(y)'
    <2>0. TxOK(y) /\ GuardOK(y) /\ ClaimOK(y) /\ MoveOK(y) /\ EventsOK(y)
      BY Zenon DEF IInv
    <2>1. CASE y = x
      BY <2>0, <2>1, FreshTx, Zenon
    <2>2. CASE y # x
      <3>1. Same(y)
        BY <2>2, Zenon
      <3> QED BY <1>2, <2>0, <3>1, TxFrame, RowFrame, Zenon
    <2> QED BY <2>1, <2>2, Zenon
  <1>4. LocksHold'
    <2>1. \A y \in Txs : locks'[y] \subseteq locks[y]
      BY Zenon DEF Same
    <2> QED BY <1>1, <2>1 DEF IInv, LocksHold
  <1>5. ChainOK'
    <2>1. ASSUME NEW y \in Txs PROVE (own'[y] # <<>> => Holds(y, HeadRow, Update)') /\ Follows(head', own'[y])
      <3>1. CASE y = x
        BY <3>1 DEF Follows
      <3>2. CASE y # x
        <4>1. own'[y] = own[y] /\ locks'[y] = locks[y]
          BY <3>2, Zenon DEF Same
        <4> QED BY <1>2, <4>1, Zenon DEF IInv, ChainOK, Holds, HeadRow, Update
      <3> QED BY <3>1, <3>2, Zenon
    <2>2. head' = HeadOf(chain') /\ Follows(GenesisHead, chain')
      BY <1>2, Zenon DEF IInv, ChainOK
    <2> QED BY <1>1, <2>1, <2>2, Zenon DEF ChainOK
  <1>6. ProverOK' /\ VerifierOK'
    BY <1>2, Zenon DEF IInv, ProverOK, VerifierOK
  <1>7. CutoverIsClean' /\ (\A q \in Queries : QueryOK(q))' /\ (\A t \in Tasks : TaskOK(t))'
    BY <1>2, RowFrame, Zenon DEF IInv
  <1> QED BY <1>1, <1>3, <1>4, <1>5, <1>6, <1>7, Zenon DEF IInv

\* Ended touches its transaction only, and puts it back at its start.
LEMMA EndedEffect ==
  ASSUME TypeOK, NEW x \in Txs, NEW outcome \in {"idle", "done", "refused"}, NEW job, Ended(x, outcome, job)
  PROVE  /\ kind'[x] = job /\ next'[x] = 1 /\ own'[x] = <<>> /\ locks'[x] = {} /\ ~archives'[x]
         /\ DOMAIN kind' = Txs /\ status' \in [Txs -> {"idle", "running", "done", "refused"}]
         /\ next' \in [Txs -> Nat \ {0}] /\ archives' \in [Txs -> BOOLEAN] /\ DOMAIN locks' = Txs
         /\ own' \in [Txs -> Seq(Event)]
         /\ \A y \in Txs \ {x} : Same(y)
  <1>1. kind' = [kind EXCEPT ![x] = job] /\ DOMAIN kind = Txs
    BY Zenon DEF Ended, TypeOK
  <1>2. status' = [status EXCEPT ![x] = outcome] /\ status \in [Txs -> {"idle", "running", "done", "refused"}]
    BY Zenon DEF Ended, TypeOK
  <1>3. next' = [next EXCEPT ![x] = 1] /\ next \in [Txs -> Nat \ {0}]
    BY Zenon DEF Ended, TypeOK
  <1>4. archives' = [archives EXCEPT ![x] = FALSE] /\ archives \in [Txs -> BOOLEAN]
    BY Zenon DEF Ended, TypeOK
  <1>5. locks' = [locks EXCEPT ![x] = {}] /\ DOMAIN locks = Txs
    BY Zenon DEF Ended, TypeOK
  <1>6. own' = [own EXCEPT ![x] = <<>>] /\ own \in [Txs -> Seq(Event)]
    BY Zenon DEF Ended, TypeOK
  <1>7. <<>> \in Seq(Event)
    OBVIOUS
  <1>8. ASSUME NEW y \in Txs \ {x} PROVE Same(y)
    BY <1>1, <1>2, <1>3, <1>4, <1>5, <1>6, Zenon DEF Same
  <1>9. kind'[x] = job /\ DOMAIN kind' = Txs
    BY <1>1, Zenon
  <1>10. status' \in [Txs -> {"idle", "running", "done", "refused"}]
    BY <1>2, Zenon
  <1>11. next'[x] = 1 /\ next' \in [Txs -> Nat \ {0}]
    BY <1>3
  <1>12. ~archives'[x] /\ archives' \in [Txs -> BOOLEAN]
    BY <1>4, Zenon
  <1>13. locks'[x] = {} /\ DOMAIN locks' = Txs
    BY <1>5, Zenon
  <1>14. own'[x] = <<>> /\ own' \in [Txs -> Seq(Event)]
    BY <1>6, <1>7, Zenon
  <1> QED BY <1>8, <1>9, <1>10, <1>11, <1>12, <1>13, <1>14, Zenon

\* The committed rows keep their types when they stay.
LEMMA TypeFrame ==
  ASSUME TypeOK, scene' = scene, UNCHANGED rowVars,
         DOMAIN kind' = Txs, status' \in [Txs -> {"idle", "running", "done", "refused"}],
         next' \in [Txs -> Nat \ {0}], archives' \in [Txs -> BOOLEAN], DOMAIN locks' = Txs,
         own' \in [Txs -> Seq(Event)]
  PROVE  TypeOK'
  <1>1. Txs' = Txs /\ Tasks' = Tasks /\ Queries' = Queries
    BY SceneFrame, Zenon
  <1> QED BY <1>1, Zenon DEF TypeOK, rowVars

\* A transaction that ends without a commit.
LEMMA EndedStep ==
  ASSUME IInv, NEW x \in Txs, scene' = scene, UNCHANGED <<rowVars, prover, verifier>>,
         NEW outcome \in {"idle", "done", "refused"}, NEW job, Ended(x, outcome, job),
         job = kind[x] \/ (Settlement(kind[x]) /\ job = "fail")
  PROVE  IInv'
  <1>1. TypeOK /\ UNCHANGED rowVars
    BY Zenon DEF IInv
  <1>2. /\ kind'[x] = job /\ next'[x] = 1 /\ own'[x] = <<>> /\ locks'[x] = {} /\ ~archives'[x]
        /\ DOMAIN kind' = Txs /\ status' \in [Txs -> {"idle", "running", "done", "refused"}]
        /\ next' \in [Txs -> Nat \ {0}] /\ archives' \in [Txs -> BOOLEAN] /\ DOMAIN locks' = Txs
        /\ own' \in [Txs -> Seq(Event)]
        /\ \A y \in Txs \ {x} : Same(y)
    BY <1>1, EndedEffect, Zenon
  <1>3. TypeOK'
    BY <1>1, <1>2, TypeFrame, Zenon
  <1>4. kind'[x] = kind[x] \/ (Settlement(kind[x]) /\ kind'[x] = "fail")
    BY <1>2, Zenon
  <1> QED BY <1>2, <1>3, <1>4, ResetStep, Zenon

\* A rollback, by an error, a deadlock or a lost connection.
LEMMA RolledBackStep ==
  ASSUME IInv, NEW x \in Txs, scene' = scene, UNCHANGED <<rowVars, prover, verifier>>, RolledBack(x)
  PROVE  IInv'
  <1>1. CASE Settlement(kind[x])
    <2>1. Ended(x, "idle", "fail")
      BY <1>1, Zenon DEF RolledBack
    <2> QED BY <1>1, <2>1, EndedStep, Zenon
  <1>2. CASE ~Settlement(kind[x])
    <2>1. Ended(x, "refused", kind[x])
      BY <1>2, Zenon DEF RolledBack
    <2> QED BY <2>1, EndedStep, Zenon
  <1> QED BY <1>1, <1>2, Zenon

\* A transaction begins, or starts again because its answer was lost.
LEMMA BeginStep ==
  ASSUME IInv, NEW x \in Txs, Begin(x) \/ AnswerLost(x)
  PROVE  IInv'
  <1>1. TypeOK /\ TxOK(x)
    BY Zenon DEF IInv
  <1>2. status[x] # "running"
    BY Zenon DEF Begin, AnswerLost
  <1>3. next[x] = 1 /\ own[x] = <<>> /\ locks[x] = {}
    BY <1>1, <1>2, Zenon DEF TxOK
  <1>4. /\ scene' = scene /\ UNCHANGED <<rowVars, prover, verifier>> /\ UNCHANGED rowVars
        /\ kind' = kind /\ next' = next /\ locks' = locks /\ own' = own
    BY Zenon DEF Begin, AnswerLost
  <1>5. status' \in [Txs -> {"idle", "running", "done", "refused"}] /\ \A y \in Txs \ {x} : status'[y] = status[y]
    BY <1>1, Zenon DEF Begin, AnswerLost, TypeOK
  <1>6. /\ archives' \in [Txs -> BOOLEAN] /\ \A y \in Txs \ {x} : archives'[y] = archives[y]
        /\ archives'[x] => Settlement(kind[x])
    <2>1. archives \in [Txs -> BOOLEAN] /\ (archives[x] => Settlement(kind[x]))
      BY <1>1, Zenon DEF TypeOK, TxOK
    <2>2. CASE AnswerLost(x)
      BY <2>1, <2>2, Zenon DEF AnswerLost
    <2>3. CASE Begin(x)
      <3>1. PICK reached \in BOOLEAN : (reached => Settlement(kind[x])) /\ archives' = [archives EXCEPT ![x] = reached]
        BY <2>3, Zenon DEF Begin
      <3> QED BY <2>1, <3>1, Zenon
    <2> QED BY <2>2, <2>3, Zenon
  <1>7. TypeOK'
    <2>1. DOMAIN kind' = Txs /\ next' \in [Txs -> Nat \ {0}] /\ DOMAIN locks' = Txs /\ own' \in [Txs -> Seq(Event)]
      BY <1>1, <1>4, Zenon DEF TypeOK
    <2> QED BY <1>1, <1>4, <1>5, <1>6, <2>1, TypeFrame, Zenon
  <1>8. \A y \in Txs \ {x} : Same(y)
    BY <1>4, <1>5, <1>6, Zenon DEF Same
  <1>9. kind'[x] = kind[x] /\ next'[x] = 1 /\ own'[x] = <<>> /\ locks'[x] = {} /\ (archives'[x] => Settlement(kind'[x]))
    BY <1>3, <1>4, <1>6, Zenon
  <1> QED BY <1>4, <1>7, <1>8, <1>9, ResetStep, Zenon

\* A step of a reader.
LEMMA ReaderFrame ==
  ASSUME IInv, scene' = scene, UNCHANGED <<txVars, rowVars>>, ProverOK', VerifierOK'
  PROVE  IInv'
  <1>1. Txs' = Txs /\ UNCHANGED rowVars /\ chain' = chain /\ head' = head
    BY SceneFrame, Zenon DEF rowVars
  <1>2. /\ kind' = kind /\ status' = status /\ next' = next /\ archives' = archives
        /\ locks' = locks /\ own' = own
    BY Zenon DEF txVars
  <1>3. \A y : Same(y)
    BY <1>2, Zenon DEF Same
  <1>4. TypeOK'
    BY <1>1, <1>2, TypeFrame, Zenon DEF IInv, TypeOK
  <1>5. ASSUME NEW y \in Txs PROVE TxOK(y)' /\ GuardOK(y)' /\ ClaimOK(y)' /\ MoveOK(y)' /\ EventsOK(y)'
    <2>0. TxOK(y) /\ GuardOK(y) /\ ClaimOK(y) /\ MoveOK(y) /\ EventsOK(y)
      BY Zenon DEF IInv
    <2> QED BY <1>1, <1>3, <2>0, TxFrame, RowFrame, Zenon
  <1>6. LocksHold' /\ ChainOK'
    <2>1. LocksHold'
      <3>1. LocksHold
        BY Zenon DEF IInv
      <3> QED BY <1>1, <1>2, <3>1 DEF LocksHold
    <2>2. ChainOK'
      BY <1>1, <1>2, Zenon DEF IInv, ChainOK, Holds
    <2> QED BY <2>1, <2>2, Zenon
  <1>7. CutoverIsClean' /\ (\A q \in Queries : QueryOK(q))' /\ (\A t \in Tasks : TaskOK(t))'
    BY <1>1, RowFrame, Zenon DEF IInv
  <1> QED BY <1>1, <1>4, <1>5, <1>6, <1>7, Zenon DEF IInv

\* The committed head, and what the committed events are.
LEMMA ChainFacts ==
  ASSUME TypeOK, ChainOK
  PROVE  /\ chain \in Seq(Event) /\ Len(chain) \in Nat /\ \A i \in 1..Len(chain) : chain[i].sequence = i
         /\ head.sequence = Len(chain) /\ head.hash \in Seq(Body) /\ head = After(GenesisHead, chain)
         /\ GenesisHead.sequence = 0 /\ GenesisHead.hash \in Seq(Body)
         /\ Len(chain) > 0 => head = HeadAfter(chain[Len(chain)])
  <1>1. GenesisHead.sequence = 0 /\ GenesisHead.hash \in Seq(Body)
    BY DEF GenesisHead, Checkpoint, GenesisHash
  <1>2. chain \in Seq(Event) /\ head = HeadOf(chain) /\ Follows(GenesisHead, chain)
    BY Zenon DEF TypeOK, ChainOK
  <1>3. \A i \in 1..Len(chain) : chain[i].sequence = i
    BY <1>2, FollowsVerifies, Zenon
  <1>4. head = After(GenesisHead, chain)
    BY <1>2, Zenon DEF After, HeadOf
  <1>5. head.sequence = Len(chain) /\ head.hash \in Seq(Body)
    BY <1>1, <1>2, <1>4, AfterType
  <1>6. Len(chain) > 0 => head = HeadAfter(chain[Len(chain)])
    BY <1>2, EmptySeq DEF HeadOf
  <1> QED BY <1>1, <1>2, <1>3, <1>4, <1>5, <1>6, SMTT(60)

\* Readers of the chain, who take no locks, keep to a part of it as it was.
LEMMA ReaderStep ==
  ASSUME IInv, \/ ReadCheckpoint \/ ReadPredecessor \/ ReadSuccessors
               \/ VerifierReadsEvents \/ VerifierReadsHead
  PROVE  IInv'
  <1>0. TypeOK /\ ChainOK /\ ProverOK /\ VerifierOK
    BY Zenon DEF IInv
  <1>1. scene' = scene /\ UNCHANGED <<txVars, rowVars>> /\ chain' = chain
    BY Zenon DEF ReadCheckpoint, ReadPredecessor, ReadSuccessors, VerifierReadsEvents, VerifierReadsHead, rowVars
  <1>a. /\ chain \in Seq(Event) /\ Len(chain) \in Nat /\ \A i \in 1..Len(chain) : chain[i].sequence = i
        /\ head.sequence = Len(chain)
        /\ Len(chain) > 0 => head = HeadAfter(chain[Len(chain)])
    BY <1>0, ChainFacts, Zenon
  <1>2. CASE ReadCheckpoint
    <2>1. PICK n \in 1..Len(chain) :
             prover' = [pc |-> "predecessor", terminal |-> chain[n], checkpoint |-> head]
      BY <1>2, Zenon DEF ReadCheckpoint
    <2>2. /\ prover'.pc = "predecessor" /\ prover'.terminal = chain[n] /\ prover'.checkpoint = head
          /\ prover'.terminal.sequence = n /\ prover'.checkpoint.sequence = Len(chain)
      BY <1>a, <2>1, Zenon
    <2>3. ProverOK'
      BY <1>1, <1>a, <2>2 DEF ProverOK
    <2>4. VerifierOK'
      BY <1>0, <1>1, <1>2, Zenon DEF ReadCheckpoint, VerifierOK
    <2> QED BY <1>1, <2>3, <2>4, ReaderFrame, Zenon
  <1>3. CASE ReadPredecessor
    <2>1. PICK n, m : n = prover.terminal.sequence /\ m = prover.checkpoint.sequence
      BY Zenon
    <2>2. /\ prover'.pc = "successors" /\ prover'.terminal = prover.terminal
          /\ prover'.checkpoint = prover.checkpoint
          /\ prover'.predecessor = IF n > 1 THEN <<chain[n - 1]>> ELSE <<>>
      BY <1>3, <2>1, Zenon DEF ReadPredecessor
    <2>3. prover.pc # "idle"
      BY <1>3, Zenon DEF ReadPredecessor
    <2>4. ProverOK'
      BY <1>0, <1>1, <2>1, <2>2, <2>3, Zenon DEF ProverOK
    <2>5. VerifierOK'
      BY <1>0, <1>1, <1>3, Zenon DEF ReadPredecessor, VerifierOK
    <2> QED BY <1>1, <2>4, <2>5, ReaderFrame, Zenon
  <1>4. CASE ReadSuccessors
    <2>1. PICK n, m : n = prover.terminal.sequence /\ m = prover.checkpoint.sequence
      BY Zenon
    <2>2. /\ prover'.pc = "proved" /\ prover'.terminal = prover.terminal
          /\ prover'.checkpoint = prover.checkpoint /\ prover'.predecessor = prover.predecessor
          /\ prover'.successors = EventsIn(n, m)
      BY <1>4, <2>1, Zenon DEF ReadSuccessors
    <2>3. prover.pc = "successors"
      BY <1>4, Zenon DEF ReadSuccessors
    <2>4. n \in 1..m /\ m \in 1..Len(chain)
      BY <1>0, <2>1, <2>3, Zenon DEF ProverOK
    <2>5. PICK s : s = SubSeq(chain, n + 1, m)
      BY Zenon
    <2>6. s \in Seq(Event) /\ Len(s) = m - n /\ \A i \in 1..(m - n) : s[i] = chain[n + i]
      <3>1. n + 1 \in 1..(Len(chain) + 1) /\ m \in 0..Len(chain) /\ m \in n..Len(chain)
        BY <1>a, <2>4
      <3>2. s = [i \in 1..((m - (n + 1)) + 1) |-> chain[(i + (n + 1)) - 1]]
        BY <1>a, <2>4, <2>5, <3>1
      <3>3. (m - (n + 1)) + 1 = m - n /\ m - n \in Nat /\ \A i \in 1..(m - n) : (i + (n + 1)) - 1 = n + i
        BY <2>4
      <3>4. s = [i \in 1..(m - n) |-> chain[(i + (n + 1)) - 1]]
        BY <3>2, <3>3, Zenon
      <3>5. \A i \in 1..(m - n) : s[i] = chain[n + i] /\ chain[n + i] \in Event
        BY <1>a, <2>4, <3>3, <3>4
      <3> QED BY <3>3, <3>4, <3>5
    <2>7. EventsIn(n, m) = s
      <3>1. (IF m < Len(chain) THEN m ELSE Len(chain)) = m
        BY <1>a, <2>4
      <3> QED BY <2>5, <3>1, Zenon DEF EventsIn
    <2>8. ProverOK'
      BY <1>0, <1>1, <2>1, <2>2, <2>3, <2>6, <2>7, Zenon DEF ProverOK
    <2>9. VerifierOK'
      BY <1>0, <1>1, <1>4, Zenon DEF ReadSuccessors, VerifierOK
    <2> QED BY <1>1, <2>8, <2>9, ReaderFrame, Zenon
  <1>5. CASE VerifierReadsEvents
    <2>1. verifier'.pc = "head" /\ verifier'.events = chain
      BY <1>5, Zenon DEF VerifierReadsEvents
    <2>2. VerifierOK'
      BY <1>1, <1>a, <2>1 DEF VerifierOK
    <2>3. ProverOK'
      BY <1>0, <1>1, <1>5, Zenon DEF VerifierReadsEvents, ProverOK
    <2> QED BY <1>1, <2>2, <2>3, ReaderFrame, Zenon
  <1>6. CASE VerifierReadsHead
    <2>1. /\ verifier'.pc = (IF VerifyLinear(verifier.events, head) THEN "intact" ELSE "broken")
          /\ verifier'.events = verifier.events /\ verifier'.head = head
      BY <1>6, Zenon DEF VerifierReadsHead
    <2>2. PICK es \in Seq(Event) : /\ es = verifier.events /\ Len(es) <= Len(chain)
                                   /\ \A i \in 1..Len(es) : es[i] = chain[i]
      BY <1>0, <1>6, Zenon DEF VerifierReadsHead, VerifierOK
    <2>3. VerifyLinear(es, HeadOf(es))
      BY <1>0, <1>6, <2>2, AlarmHolds, Zenon DEF VerifierReadsHead, TypeOK, ChainOK
    <2>4. Len(es) = Len(chain) => es = chain
      BY <1>a, <2>2
    <2>5. ~VerifyLinear(es, head) => Len(chain) > Len(es)
      BY <1>0, <1>a, <2>2, <2>3, <2>4 DEF ChainOK
    <2>6. VerifierOK'
      BY <1>1, <1>a, <2>1, <2>2, <2>5, Zenon DEF VerifierOK
    <2>7. ProverOK'
      BY <1>0, <1>1, <1>6, Zenon DEF VerifierReadsHead, ProverOK
    <2> QED BY <1>1, <2>6, <2>7, ReaderFrame, Zenon
  <1> QED BY <1>2, <1>3, <1>4, <1>5, <1>6, Zenon

-----------------------------------------------------------------------------
(* A statement. *)

\* What the invariant says of the variables of one transaction.
LEMMA TxTypes ==
  ASSUME IInv, NEW x \in Txs
  PROVE  /\ TypeOK /\ scene \in Scenarios /\ archives[x] \in BOOLEAN /\ next[x] \in Nat /\ next[x] >= 1
         /\ own[x] \in Seq(Event) /\ (WorksOnQuery(kind[x]) => Job[x].query \in Queries)
         /\ (archives[x] => Settlement(kind[x]))
         /\ TxOK(x) /\ GuardOK(x) /\ ClaimOK(x) /\ MoveOK(x) /\ EventsOK(x)
  <1>1. TypeOK /\ TxOK(x) /\ GuardOK(x) /\ ClaimOK(x) /\ MoveOK(x) /\ EventsOK(x)
    BY Zenon DEF IInv
  <1>2. scene \in Scenarios /\ archives[x] \in BOOLEAN /\ own[x] \in Seq(Event) /\ next[x] \in Nat \ {0}
    BY <1>1, Zenon DEF TypeOK
  <1>3. next[x] \in Nat /\ next[x] >= 1
    BY <1>2
  <1> QED BY <1>1, <1>2, <1>3, Zenon DEF TxOK

\* What a statement does to its transaction.
Stepped(x, s) ==
    /\ s = StepOf(x) /\ next[x] \in 1..Len(Program(x)) /\ Accepts(x, s) /\ ~NothingToArchive(x, s)
    /\ \A y \in Txs \ {x} : \A h \in locks[y] : h.row = s.row => AlreadyStored(s) \/ ~Excludes(h.mode, s.mode)
    /\ locks'[x] = IF AlreadyStored(s) THEN locks[x] ELSE locks[x] \union {[row |-> s.row, mode |-> s.mode]}
    /\ own'[x] = Inserted(x, s) /\ next'[x] = next[x] + 1
    /\ kind'[x] = kind[x] /\ status'[x] = "running" /\ archives'[x] = archives[x]

\* What an event adds to the terminal events of a query and the ends of a task.
Adds(fs, es, e, t, q) ==
    /\ fs \in Seq(Event) /\ Len(fs) = Len(es) + 1 /\ fs[Len(fs)] = e /\ \A i \in 1..Len(es) : fs[i] = es[i]
    /\ ~(IsTerminal(e) /\ e.body.query = q) => TerminalsIn(fs, q) = TerminalsIn(es, q)
    /\ IsTerminal(e) /\ e.body.query = q => TerminalsIn(fs, q) = TerminalsIn(es, q) \union {Len(fs)}
    /\ ~(e.body.type = TaskEnd /\ e.body.task = t) => EndsIn(fs, t) = EndsIn(es, t)
    /\ e.body.type = TaskEnd /\ e.body.task = t => EndsIn(fs, t) = EndsIn(es, t) \union {Len(fs)}

\* A statement: its transaction holds what it decides on, and the others are as they were.
LEMMA StatementStep ==
  ASSUME IInv, NEW x \in Txs, Statement(x)
  PROVE  IInv'
  <1>StatementEffect. ASSUME IInv, NEW u \in Txs, Statement(u)
      PROVE  /\ Stepped(u, StepOf(u)) /\ scene' = scene /\ UNCHANGED <<rowVars, prover, verifier>>
             /\ \A y \in Txs \ {u} : Same(y)
             /\ kind' = kind /\ status' = status /\ archives' = archives /\ DOMAIN locks' = Txs
             /\ next' \in [Txs -> Nat \ {0}] /\ own' = [own EXCEPT ![u] = Inserted(u, StepOf(u))]
    <2> USE <1>StatementEffect
    <2>1. TypeOK
      BY Zenon DEF IInv
    <2>2. PICK s : s = StepOf(u)
      BY Zenon
    <2>3. /\ scene' = scene /\ UNCHANGED <<rowVars, prover, verifier>> /\ kind' = kind /\ status' = status
          /\ archives' = archives
      BY Zenon DEF Statement
    <2>4. /\ status[u] = "running" /\ next[u] <= Len(Program(u)) /\ Blockers(u) = {}
          /\ ~NothingToArchive(u, s) /\ Accepts(u, s)
      BY <2>2, Zenon DEF Statement, AtStep
    <2>5. /\ locks' = IF AlreadyStored(s) THEN locks
                      ELSE [locks EXCEPT ![u] = @ \union {[row |-> s.row, mode |-> s.mode]}]
          /\ own' = [own EXCEPT ![u] = Inserted(u, s)]
          /\ next' = [next EXCEPT ![u] = @ + 1]
      BY <2>2, Zenon DEF Statement
    <2>6. DOMAIN locks = Txs /\ next \in [Txs -> Nat \ {0}] /\ own \in [Txs -> Seq(Event)]
      BY <2>1, Zenon DEF TypeOK
    <2>7. next[u] \in 1..Len(Program(u))
      <3>1. Program(u) \in Seq(Step(Job[u].task, Job[u].query))
        BY <2>1, Layout, Zenon DEF IInv, TxOK, TypeOK
      <3>2. Len(Program(u)) \in Nat
        BY <3>1
      <3> QED BY <2>4, <2>6, <3>2
    <2>8. \A y \in Txs \ {u} : \A h \in locks[y] : h.row = s.row => AlreadyStored(s) \/ ~Excludes(h.mode, s.mode)
      <3>1. AlreadyStored(s) \/ {y \in Txs \ {u} : \E held \in locks[y] : held.row = s.row
                                                      /\ Excludes(held.mode, s.mode)} = {}
        BY <2>2, <2>4, Zenon DEF Blockers, AtStep
      <3> QED BY <3>1, Zenon
    <2>9. /\ locks'[u] = (IF AlreadyStored(s) THEN locks[u] ELSE locks[u] \union {[row |-> s.row, mode |-> s.mode]})
          /\ DOMAIN locks' = Txs /\ \A y \in Txs \ {u} : locks'[y] = locks[y]
      BY <2>5, <2>6, Zenon
    <2>10. next'[u] = next[u] + 1 /\ next' \in [Txs -> Nat \ {0}] /\ \A y \in Txs \ {u} : next'[y] = next[y]
      BY <2>5, <2>6
    <2>11. own'[u] = Inserted(u, s) /\ \A y \in Txs \ {u} : own'[y] = own[y]
      BY <2>5, <2>6, Zenon
    <2>12. Stepped(u, s)
      BY <2>2, <2>3, <2>4, <2>7, <2>8, <2>9, <2>10, <2>11, Zenon DEF Stepped
    <2>13. \A y \in Txs \ {u} : Same(y)
      BY <2>3, <2>9, <2>10, <2>11, Zenon DEF Same
    <2> QED BY <2>2, <2>3, <2>5, <2>9, <2>10, <2>12, <2>13, Zenon
  \* A lock that is granted excludes none that is held.
  <1>StatementLocks. ASSUME IInv, NEW u \in Txs, NEW s, Stepped(u, s), scene' = scene, \A y \in Txs \ {u} : Same(y)
      PROVE  LocksHold' /\ locks[u] \subseteq locks'[u]
    <2> USE <1>StatementLocks
    <2>1. Txs' = Txs
      BY SceneFrame, Zenon
    <2>2. locks[u] \subseteq locks'[u] /\ \A h \in locks'[u] : h \in locks[u] \/ (~AlreadyStored(s) /\ h.row = s.row /\ h.mode = s.mode)
      BY DEF Stepped
    <2>3. \A a, b : Excludes(a, b) => Excludes(b, a)
      BY Zenon DEF Excludes
    <2>4. ASSUME NEW y \in Txs, y # u, NEW h \in locks'[u], NEW k \in locks'[y], h.row = k.row
          PROVE  ~Excludes(h.mode, k.mode) /\ ~Excludes(k.mode, h.mode)
      <3>1. k \in locks[y]
        BY <2>4, Zenon DEF Same
      <3>2. CASE h \in locks[u]
        BY <2>3, <2>4, <3>1, <3>2, Zenon DEF IInv, LocksHold
      <3>3. CASE ~AlreadyStored(s) /\ h.row = s.row /\ h.mode = s.mode
        <4>1. ~Excludes(k.mode, s.mode)
          BY <2>4, <3>1, <3>3, Zenon DEF Stepped
        <4> QED BY <2>3, <3>3, <4>1, Zenon
      <3> QED BY <2>2, <3>2, <3>3, Zenon
    <2>5. ASSUME NEW y \in Txs, NEW z \in Txs, y # z, y # u, z # u, NEW h \in locks'[y], NEW k \in locks'[z], h.row = k.row
          PROVE  ~Excludes(h.mode, k.mode)
      <3>1. h \in locks[y] /\ k \in locks[z]
        BY <2>5, Zenon DEF Same
      <3> QED BY <2>5, <3>1, Zenon DEF IInv, LocksHold
    <2>6. \A y, z \in Txs : y # z => \A h \in locks'[y], k \in locks'[z] : h.row = k.row => ~Excludes(h.mode, k.mode)
      BY <2>4, <2>5, Zenon
    <2> QED BY <2>1, <2>2, <2>6, Zenon DEF LocksHold
  \* The step of a statement.
  <1>StepFacts. ASSUME IInv, NEW u \in Txs, NEW s, Stepped(u, s)
      PROVE  /\ s \in Step(Job[u].task, Job[u].query) /\ s = Program(u)[next[u]]
             /\ s.event # "none" => s.event \in EventType /\ s.row = HeadRow /\ s.mode = Update
             /\ s.row[1] # "content-addressed row" => Holds(u, s.row, s.mode)'
    <2> USE <1>StepFacts
    <2>1. Program(u) \in Seq(Step(Job[u].task, Job[u].query))
      BY Layout, Zenon DEF IInv, TxOK, TypeOK
    <2>2. s = Program(u)[next[u]] /\ next[u] \in 1..Len(Program(u))
      BY Zenon DEF Stepped, StepOf
    <2>3. s \in Step(Job[u].task, Job[u].query)
      BY <2>1, <2>2
    <2>4. s.event # "none" => s.event \in EventType /\ s.row = HeadRow /\ s.mode = Update
      BY <2>3, Zenon DEF Step
    <2>5. s.row[1] # "content-addressed row" => Holds(u, s.row, s.mode)'
      <3>1. s.row[1] # "content-addressed row" => ~AlreadyStored(s)
        BY Zenon DEF AlreadyStored
      <3>2. ~AlreadyStored(s) => [row |-> s.row, mode |-> s.mode] \in locks'[u]
        BY Zenon DEF Stepped
      <3>3. ASSUME s.row[1] # "content-addressed row" PROVE Holds(u, s.row, s.mode)'
        <4>1. PICK r, m : r = s.row /\ m = s.mode
          BY Zenon
        <4>2. [row |-> r, mode |-> m] \in locks'[u]
          BY <3>1, <3>2, <3>3, <4>1, Zenon
        <4> QED BY <4>1, <4>2, Zenon DEF Holds
      <3> QED BY <3>3, Zenon
    <2> QED BY <2>2, <2>3, <2>4, <2>5, Zenon
  \* The event a statement inserts.
  <1>StatementEvents. ASSUME IInv, NEW u \in Txs, NEW s, Stepped(u, s)
      PROVE  /\ own'[u] \in Seq(Event) /\ Follows(head, own'[u])
             /\ own'[u] # <<>> => Holds(u, HeadRow, Update)'
             /\ s.event = "none" => own'[u] = own[u]
             /\ s.event # "none" => \E e \in Event : /\ own'[u] = Append(own[u], e)
                                                     /\ e.body.type = s.event
                                                     /\ e.body.task = Job[u].task /\ e.body.query = Job[u].query
    <2> USE <1>StatementEvents
    <2>1. TypeOK /\ ChainOK
      BY Zenon DEF IInv
    <2>2. own[u] \in Seq(Event) /\ Follows(head, own[u]) /\ (own[u] # <<>> => Holds(u, HeadRow, Update))
      BY <2>1, Zenon DEF TypeOK, ChainOK
    <2>3. head.sequence \in Nat /\ head.hash \in Seq(Body)
      BY <2>1, ChainFacts, Zenon
    <2>4. locks[u] \subseteq locks'[u]
      BY Zenon DEF Stepped
    <2>5. CASE s.event = "none"
      <3>1. own'[u] = own[u]
        BY <2>5, Zenon DEF Stepped, Inserted
      <3>2. Holds(u, HeadRow, Update) => Holds(u, HeadRow, Update)'
        BY <2>4, Zenon DEF Holds
      <3> QED BY <2>2, <2>5, <3>1, <3>2, Zenon
    <2>6. CASE s.event # "none"
      <3>1. PICK body : body = [type |-> s.event, task |-> Job[u].task, query |-> Job[u].query]
        BY Zenon
      <3>2. s.event \in EventType /\ s.row = HeadRow /\ s.mode = Update
        BY <2>6, <1>StepFacts, Zenon
      <3>3. body \in Body /\ body.type = s.event /\ body.task = Job[u].task /\ body.query = Job[u].query
        <4>1. Job[u].task \in Name /\ Job[u].query \in Name
          BY <2>1, SceneFacts, Zenon DEF TypeOK, Name
        <4> QED BY <3>1, <3>2, <4>1, Zenon DEF Body
      <3>4. PICK e : e = NextEvent(After(head, own[u]), body)
        BY Zenon
      <3>5. e \in Event /\ e.body = body /\ Append(own[u], e) \in Seq(Event) /\ Follows(head, Append(own[u], e))
        BY <2>2, <2>3, <3>3, <3>4, FollowsAppend, Zenon
      <3>6. own'[u] = Append(own[u], e)
        <4>1. HeadSeen(u) = After(head, own[u])
          BY Zenon DEF HeadSeen, After
        <4> QED BY <2>6, <3>1, <3>4, <4>1, Zenon DEF Stepped, Inserted
      <3>7. Holds(u, HeadRow, Update)'
        <4>1. s.row[1] # "content-addressed row"
          BY <3>2, Tables, Zenon
        <4> QED BY <3>2, <4>1, <1>StepFacts, Zenon
      <3> QED BY <2>6, <3>3, <3>5, <3>6, <3>7, Zenon
    <2> QED BY <2>5, <2>6, Zenon
  \* A statement keeps what its transaction holds, and its program.
  <1>StatementKeeps. ASSUME NEW u \in Txs, NEW s, Stepped(u, s), scene' = scene
      PROVE  /\ Program(u)' = Program(u) /\ TerminalAt(u)' = TerminalAt(u) /\ GuardAt(u)' = GuardAt(u)
             /\ \A row, mode : Holds(u, row, mode) => Holds(u, row, mode)'
             /\ Job' = Job
    <2> USE <1>StatementKeeps
    <2>1. kind'[u] = kind[u] /\ archives'[u] = archives[u] /\ locks[u] \subseteq locks'[u]
      BY Zenon DEF Stepped
    <2>2. Program(u)' = Program(u) /\ TerminalAt(u)' = TerminalAt(u) /\ GuardAt(u)' = GuardAt(u)
      BY <2>1, ProgramFrame, Zenon
    <2>3. ASSUME NEW row, NEW mode, Holds(u, row, mode) PROVE Holds(u, row, mode)'
      <3>1. [row |-> row, mode |-> mode] \in locks[u]
        BY <2>3, Zenon DEF Holds
      <3>2. [row |-> row, mode |-> mode] \in locks'[u]
        BY <2>1, <3>1, Zenon
      <3> QED BY <3>2, Zenon DEF Holds
    <2>4. Job' = Job
      BY SceneFrame, Zenon
    <2> QED BY <2>2, <2>3, <2>4, Zenon
  \* The guard of the cutover, once it is passed, holds the lock.
  <1>StatementGuard. ASSUME IInv, NEW u \in Txs, NEW s, Stepped(u, s), scene' = scene, UNCHANGED rowVars
      PROVE  GuardOK(u)'
    <2> USE <1>StatementGuard
    <2>0. /\ scene \in Scenarios /\ archives[u] \in BOOLEAN /\ next[u] \in Nat /\ GuardOK(u)
          /\ (WorksOnQuery(kind[u]) => Job[u].query \in Queries)
      BY Zenon DEF IInv, TypeOK, TxOK
    <2>1. kind'[u] = kind[u] /\ next'[u] = next[u] + 1
      BY Zenon DEF Stepped
    <2>2. Passes(u)' = Passes(u)
      BY <2>1, PassesFrame, Zenon
    <2>3. GuardAt(u)' = GuardAt(u) /\ GuardAt(u) \in Nat
      BY <1>StatementKeeps, Zenon DEF GuardAt
    <2>4. SUFFICES ASSUME Guarded(u)' PROVE Holds(u, CutoverLock, Update)' /\ Passes(u)'
      BY Zenon DEF GuardOK
    <2>5. kind[u] \in {"reserve", "callback", "activate"} /\ next[u] + 1 > GuardAt(u)
      BY <2>1, <2>3, <2>4, Zenon DEF Guarded
    <2>6. CASE next[u] > GuardAt(u)
      <3>1. Holds(u, CutoverLock, Update) /\ Passes(u)
        BY <2>0, <2>5, <2>6, Zenon DEF GuardOK, Guarded
      <3> QED BY <2>2, <3>1, <1>StatementKeeps, Zenon
    <2>7. CASE next[u] = GuardAt(u)
      <3>1. s = cutoverGuard
        <4>1. Program(u)[GuardAt(u)] = cutoverGuard
          BY <2>0, <2>5, Layout, Zenon DEF GuardAt
        <4> QED BY <2>7, <4>1, <1>StepFacts, Zenon
      <3>2. s.row = CutoverLock /\ s.mode = Update
        BY <3>1, Zenon DEF cutoverGuard, Lock
      <3>3. Holds(u, CutoverLock, Update)'
        BY <3>2, <1>StepFacts, Tables, Zenon
      <3>4. Passes(u)
        <4>1. Accepts(u, s)
          BY Zenon DEF Stepped
        <4>2. PICK t, q : t = Job[u].task /\ q = Job[u].query
          BY Zenon
        <4>3. /\ s.row # TaskRow(t) /\ s.row # BindingRow(t) /\ s.row # QueryRow(q) /\ s.row # LedgerRow(t)
              /\ s.row # ReservationRow(q) /\ s.row # ArtifactRow(q) /\ s.row # KeyRow
          BY <3>2, Tables, ZenonT(60)
        <4> QED BY <3>2, <4>1, <4>2, <4>3, Zenon DEF Accepts, Claims
      <3> QED BY <2>2, <3>3, <3>4, Zenon
    <2> QED BY <2>0, <2>3, <2>5, <2>6, <2>7
  \* The claim of a query, once it is made, holds the query row.
  <1>StatementClaim. ASSUME IInv, NEW u \in Txs, NEW s, Stepped(u, s), scene' = scene, UNCHANGED rowVars
      PROVE  ClaimOK(u)'
    <2> USE <1>StatementClaim
    <2>0. /\ scene \in Scenarios /\ archives[u] \in BOOLEAN /\ next[u] \in Nat /\ next[u] >= 1 /\ ClaimOK(u)
          /\ (WorksOnQuery(kind[u]) => Job[u].query \in Queries)
      BY TxTypes, Zenon
    <2>1. kind'[u] = kind[u] /\ next'[u] = next[u] + 1 /\ Accepts(u, s)
      BY Zenon DEF Stepped
    <2>2. Job' = Job /\ query' = query /\ TerminalAt(u)' = TerminalAt(u)
      BY <1>StatementKeeps, Zenon DEF rowVars
    <2>3. PICK q : q = Job[u].query
      BY Zenon
    <2>4. SUFFICES ASSUME Claimed(u)'
                   PROVE  /\ Holds(u, QueryRow(q), Update)'
                          /\ query[q] = IF kind[u] = "reserve" THEN "NONE" ELSE "RESERVED"
      BY <2>1, <2>2, <2>3, Zenon DEF ClaimOK
    <2>5. CASE Claimed(u)
      <3>1. Holds(u, QueryRow(q), Update) /\ query[q] = IF kind[u] = "reserve" THEN "NONE" ELSE "RESERVED"
        BY <2>0, <2>3, <2>5, Zenon DEF ClaimOK
      <3> QED BY <3>1, <1>StatementKeeps, Zenon
    <2>6. CASE ~Claimed(u)
      <3>1. s = Lock(QueryRow(q), Update) /\ kind[u] \in {"reserve", "finalize", "fail"}
        <4>1. CASE kind[u] = "reserve"
          <5>1. next[u] = 2
            <6>1. next[u] + 1 > 2 /\ ~(next[u] > 2)
              BY <2>1, <2>4, <2>6, <4>1, Zenon DEF Claimed, Settlement
            <6> QED BY <2>0, <6>1, AtBound
          <5>2. Program(u)[2] = Lock(QueryRow(q), Update)
            BY <2>0, <2>3, <4>1, Layout, Zenon
          <5>3. s = Program(u)[next[u]]
            BY <1>StepFacts, Zenon
          <5> QED BY <4>1, <5>1, <5>2, <5>3, Zenon
        <4>2. CASE kind[u] # "reserve"
          <5>1. Settlement(kind[u]) /\ next[u] + 1 > TerminalAt(u) - 2
            BY <2>1, <2>2, <2>4, <4>2, Zenon DEF Claimed, Settlement
          <5>2. SettlementForm(Program(u), TerminalAt(u), archives[u], Job[u].task, q)
            BY <2>0, <2>3, <5>1, Layout, Zenon
          <5>3. TerminalAt(u) \in Nat /\ TerminalAt(u) >= 3 /\ Program(u)[TerminalAt(u) - 2] = Lock(QueryRow(q), Update)
            BY <5>2 DEF SettlementForm
          <5>4. ~(next[u] > 1 /\ next[u] > TerminalAt(u) - 2)
            BY <2>6, <5>1, Zenon DEF Claimed
          <5>5. next[u] = TerminalAt(u) - 2
            BY <2>0, <5>1, <5>3, <5>4, TwoBefore, Zenon
          <5> QED BY <5>1, <5>3, <5>5, <1>StepFacts, Zenon DEF Settlement
        <4> QED BY <4>1, <4>2, Zenon
      <3>2. s.row = QueryRow(q) /\ s.mode = Update
        BY <3>1, Zenon DEF Lock
      <3>3. Holds(u, QueryRow(q), Update)'
        <4>1. s.row[1] # "content-addressed row"
          BY <3>2, Tables, Zenon
        <4>2. Holds(u, s.row, s.mode)'
          BY <4>1, <1>StepFacts, Zenon
        <4>3. PICK r, m : r = s.row /\ m = s.mode /\ r = QueryRow(q) /\ m = Update
          BY <3>2, Zenon
        <4> QED BY <3>2, <4>2, Zenon DEF Holds
      <3>4. QueryRow(q) # CutoverLock
        BY Tables, Zenon
      <3>5. query[q] = IF kind[u] = "reserve" THEN "NONE" ELSE "RESERVED"
        <4>1. CASE kind[u] = "reserve"
          <5>0. PICK t : t = Job[u].task
            BY Zenon
          <5>1. s.row # LedgerRow(t) /\ s.row # CutoverLock
            BY <3>2, Tables, ZenonT(60)
          <5>2. /\ kind[u] \notin {"transition", "create", "hold"} /\ kind[u] # "rebind" /\ kind[u] # "callback"
                /\ ~Settlement(kind[u]) /\ kind[u] # "available" /\ kind[u] # "purge" /\ kind[u] # "erase"
            BY <4>1, Zenon DEF Settlement
          <5>3. query[q] = "NONE" /\ taskState[Job[u].task] = "ACTIVE"
            BY <2>1, <2>3, <3>2, <4>1, <5>0, <5>1, <5>2, Zenon DEF Accepts
          <5> QED BY <4>1, <5>3, Zenon
        <4>2. CASE kind[u] # "reserve"
          BY <2>1, <2>3, <3>1, <3>2, <3>4, <4>2, Zenon DEF Accepts, Settlement, Claims
        <4> QED BY <4>1, <4>2, Zenon
      <3> QED BY <3>3, <3>5, Zenon
    <2> QED BY <2>5, <2>6
  \* Appending an event adds it and nothing else.
  <1>EventsOfAppend. ASSUME NEW es \in Seq(Event), NEW e \in Event, NEW fs, fs = Append(es, e), NEW t, NEW q
      PROVE  Adds(fs, es, e, t, q)
    <2> USE <1>EventsOfAppend
    <2>1. PICK n \in Nat : n = Len(es)
      OBVIOUS
    <2>2. fs \in Seq(Event) /\ Len(fs) = n + 1 /\ fs[n + 1] = e /\ \A i \in 1..n : fs[i] = es[i]
      BY <2>1
    <2>3. 1..(n + 1) = 1..n \union {n + 1}
      BY <2>1
    <2>4. ~(IsTerminal(e) /\ e.body.query = q) => TerminalsIn(fs, q) = TerminalsIn(es, q)
      BY <2>1, <2>2, <2>3, ZenonT(60) DEF TerminalsIn
    <2>5. IsTerminal(e) /\ e.body.query = q => TerminalsIn(fs, q) = TerminalsIn(es, q) \union {n + 1}
      BY <2>1, <2>2, <2>3, Zenon DEF TerminalsIn
    <2>6. ~(e.body.type = TaskEnd /\ e.body.task = t) => EndsIn(fs, t) = EndsIn(es, t)
      BY <2>1, <2>2, <2>3 DEF EndsIn
    <2>7. e.body.type = TaskEnd /\ e.body.task = t => EndsIn(fs, t) = EndsIn(es, t) \union {n + 1}
      BY <2>1, <2>2, <2>3, Zenon DEF EndsIn
    <2> QED BY <2>1, <2>2, <2>4, <2>5, <2>6, <2>7, Zenon DEF Adds
  \* Where a transaction appends the end of its task.
  <1>EndOfTask. ASSUME IInv, NEW u \in Txs, NEW s, Stepped(u, s), s.event = TaskEnd
      PROVE  /\ next[u] > 1 /\ next[u] = Len(Program(u))
             /\ kind[u] = "transition" \/ archives[u]
    <2> USE <1>EndOfTask
    <2>0. /\ scene \in Scenarios /\ archives[u] \in BOOLEAN /\ next[u] \in Nat
          /\ (WorksOnQuery(kind[u]) => Job[u].query \in Queries)
      BY Zenon DEF IInv, TypeOK, TxOK
    <2>1. s = Program(u)[next[u]] /\ next[u] \in 1..Len(Program(u))
      BY <1>StepFacts, Zenon DEF Stepped
    <2>2. CASE kind[u] = "transition"
      <3>1. Len(Program(u)) = 2 /\ Quiet(Program(u)[1], Job[u].task)
        BY <2>0, <2>2, Layout, Zenon
      <3>2. next[u] # 1
        BY <2>1, <3>1, Zenon DEF Quiet
      <3> QED BY <2>1, <2>2, <3>1, <3>2
    <2>3. CASE Settlement(kind[u])
      <3>1. SettlementForm(Program(u), TerminalAt(u), archives[u], Job[u].task, Job[u].query)
        BY <2>0, <2>3, Layout, Zenon
      <3>2. archives[u] /\ next[u] = Len(Program(u)) /\ Len(Program(u)) >= 5
        BY <2>1, <3>1 DEF SettlementForm
      <3> QED BY <3>2
    <2>4. CASE kind[u] # "transition" /\ ~Settlement(kind[u])
      <3>1. Quiet(s, Job[u].task)
        BY <2>0, <2>1, <2>4, Layout, Zenon
      <3> QED BY <3>1, Zenon DEF Quiet
    <2> QED BY <2>2, <2>3, <2>4
  \* A transaction that moves its task holds the task row.
  <1>StatementMove. ASSUME IInv, NEW u \in Txs, NEW s, Stepped(u, s), scene' = scene, UNCHANGED rowVars
      PROVE  MoveOK(u)'
    <2> USE <1>StatementMove
    <2>0. /\ scene \in Scenarios /\ archives[u] \in BOOLEAN /\ next[u] \in Nat /\ next[u] >= 1 /\ MoveOK(u)
          /\ (WorksOnQuery(kind[u]) => Job[u].query \in Queries) /\ (archives[u] => Settlement(kind[u]))
          /\ own[u] \in Seq(Event)
      BY TxTypes, Zenon
    <2>1. /\ kind'[u] = kind[u] /\ next'[u] = next[u] + 1 /\ archives'[u] = archives[u]
          /\ Accepts(u, s) /\ ~NothingToArchive(u, s)
      BY Zenon DEF Stepped
    <2>2. Job' = Job /\ taskState' = taskState /\ Program(u)' = Program(u)
      BY <1>StatementKeeps, Zenon DEF rowVars
    <2>3. PICK t : t = Job[u].task
      BY Zenon
    <2>4. HoldsTask(u) => HoldsTask(u)'
      <3>1. \A row, mode : Holds(u, row, mode) => Holds(u, row, mode)'
        BY <1>StatementKeeps, Zenon
      <3>2. \A row, mode : Holds(u, row, mode)' <=> [row |-> row, mode |-> mode] \in locks'[u]
        BY Zenon DEF Holds
      <3> QED BY <2>2, <3>1, <3>2, Zenon DEF HoldsTask, Holds, TaskRow, Update, NoKeyUpdate
    <2>5. SUFFICES ASSUME MovesTask(u)', ~MovesTask(u) PROVE HoldsTask(u)'
      BY <2>0, <2>4, Zenon DEF MoveOK
    <2>6. s = Program(u)[next[u]]
      BY <1>StepFacts, Zenon
    <2>7. ASSUME s.row = TaskRow(t), s.mode \in {Update, NoKeyUpdate}, taskState[t] # "ARCHIVED"
          PROVE  HoldsTask(u)'
      <3>1. s.row[1] # "content-addressed row"
        BY <2>7, Tables, Zenon
      <3>2. Holds(u, s.row, s.mode)'
        BY <3>1, <1>StepFacts, Zenon
      <3>3. [row |-> TaskRow(t), mode |-> Update] \in locks'[u] \/ [row |-> TaskRow(t), mode |-> NoKeyUpdate] \in locks'[u]
        BY <2>7, <3>2, Zenon DEF Holds
      <3> QED BY <2>2, <2>3, <2>7, <3>3, Zenon DEF HoldsTask, Holds, TaskRow, Update, NoKeyUpdate
    <2>8. CASE kind[u] = "callback" /\ next[u] + 1 > 2
      <3>1. next[u] = 2
        <4>1. ~(next[u] > 2)
          BY <2>5, <2>8, Zenon DEF MovesTask
        <4> QED BY <2>0, <2>8, <4>1, AtBound
      <3>2. s = Lock(TaskRow(t), Update)
        BY <2>0, <2>3, <2>6, <2>8, <3>1, Layout, Zenon
      <3>3. s.row = TaskRow(t) /\ s.mode = Update
        BY <3>2, Zenon DEF Lock
      <3>4. s.row # CutoverLock
        BY <3>3, Tables, ZenonT(60)
      <3>5. /\ kind[u] \notin {"transition", "create", "hold"} /\ kind[u] # "rebind" /\ kind[u] # "reserve"
            /\ ~Settlement(kind[u]) /\ kind[u] # "available" /\ kind[u] # "purge" /\ kind[u] # "erase"
        BY <2>8, Zenon DEF Settlement
      <3>6. taskState[t] = "AWAITING_APPROVAL"
        BY <2>1, <2>3, <2>8, <3>3, <3>4, <3>5, Zenon DEF Accepts
      <3> QED BY <2>7, <3>3, <3>6, Zenon
    <2>9. CASE kind[u] = "transition" /\ next[u] + 1 > 1
      <3>1. next[u] = 1
        BY <2>0, <2>5, <2>9 DEF MovesTask
      <3>2. s = Lock(TaskRow(t), Update)
        BY <2>0, <2>3, <2>6, <2>9, <3>1, Layout, Zenon
      <3>3. s.row = TaskRow(t) /\ s.mode = Update
        BY <3>2, Zenon DEF Lock
      <3>4. s.row # CutoverLock
        BY <3>3, Tables, Zenon
      <3>5. /\ kind[u] \in {"transition", "create", "hold"} /\ kind[u] # "rebind" /\ kind[u] # "reserve"
            /\ kind[u] # "hold" /\ kind[u] # "callback"
            /\ ~Settlement(kind[u]) /\ kind[u] # "available" /\ kind[u] # "purge" /\ kind[u] # "erase"
        BY <2>9, Zenon DEF Settlement
      <3>6. taskState[t] = "ACTIVE"
        BY <2>1, <2>3, <3>3, <3>4, <3>5, Zenon DEF Accepts
      <3> QED BY <2>7, <3>3, <3>6, Zenon
    <2>10. CASE archives[u] /\ next[u] + 1 = Len(Program(u))
      <3>1. SettlementForm(Program(u), TerminalAt(u), archives[u], t, Job[u].query)
        BY <2>0, <2>3, <2>10, Layout, Zenon
      <3>2. Program(u)[Len(Program(u)) - 1] = Lock(TaskRow(t), NoKeyUpdate) /\ Len(Program(u)) \in Nat
        <4>1. Program(u) \in Seq(Step(t, Job[u].query))
          BY <3>1, Zenon DEF SettlementForm
        <4>2. Len(Program(u)) \in Nat
          BY <4>1
        <4> QED BY <2>10, <3>1, <4>2, Zenon DEF SettlementForm
      <3>3. s = Lock(TaskRow(t), NoKeyUpdate)
        BY <2>0, <2>6, <2>10, <3>2, SMTT(60)
      <3>4. s.row = TaskRow(t) /\ s.mode = NoKeyUpdate
        BY <3>3, Zenon DEF Lock
      <3>5. taskState[t] # "ARCHIVED"
        BY <2>0, <2>1, <2>3, <2>10, <3>4, Zenon DEF NothingToArchive
      <3> QED BY <2>7, <3>4, <3>5, Zenon
    <2>11. CASE EndsIn(own'[u], t) # {}
      <3>1. EndsIn(own[u], t) = {}
        BY <2>3, <2>5, Zenon DEF MovesTask
      <3>2. s.event # "none"
        BY <2>11, <3>1, <1>StatementEvents, Zenon
      <3>3. PICK e \in Event : own'[u] = Append(own[u], e) /\ e.body.type = s.event
        BY <3>2, <1>StatementEvents, Zenon
      <3>6. PICK es, fs : es = own[u] /\ fs = own'[u] /\ es \in Seq(Event)
        BY <2>0, Zenon
      <3>8. fs = Append(es, e)
        BY <3>3, <3>6, Zenon
      <3>7. ~(e.body.type = TaskEnd /\ e.body.task = t) => EndsIn(fs, t) = EndsIn(es, t)
        <4>1. Adds(fs, es, e, t, t)
          BY <3>6, <3>8, <1>EventsOfAppend, Zenon
        <4> QED BY <4>1, Zenon DEF Adds
      <3>4. s.event = TaskEnd
        BY <2>11, <3>1, <3>3, <3>6, <3>7, Zenon
      <3>5. MovesTask(u)
        BY <3>4, <1>EndOfTask, Zenon DEF MovesTask
      <3> QED BY <2>5, <3>5, Zenon
    <2>12. \/ kind[u] = "callback" /\ next[u] + 1 > 2
           \/ kind[u] = "transition" /\ next[u] + 1 > 1
           \/ archives[u] /\ next[u] + 1 = Len(Program(u))
           \/ EndsIn(own'[u], t) # {}
      BY <2>1, <2>2, <2>3, <2>5, Zenon DEF MovesTask
    <2> QED BY <2>8, <2>9, <2>10, <2>11, <2>12, Zenon
  \* Where a settlement appends its terminal event.
  <1>TerminalStep. ASSUME IInv, NEW u \in Txs, NEW s, Stepped(u, s)
      PROVE  /\ s.event \in TerminalTypes <=> Settlement(kind[u]) /\ next[u] = TerminalAt(u)
             /\ Settlement(kind[u]) => TerminalAt(u) \in Nat /\ TerminalAt(u) >= 3
    <2> USE <1>TerminalStep
    <2>0. /\ scene \in Scenarios /\ archives[u] \in BOOLEAN /\ next[u] \in Nat
          /\ (WorksOnQuery(kind[u]) => Job[u].query \in Queries)
      BY Zenon DEF IInv, TypeOK, TxOK
    <2>1. s = Program(u)[next[u]] /\ next[u] \in 1..Len(Program(u))
      BY <1>StepFacts, Zenon DEF Stepped
    <2>2. CASE kind[u] = "transition"
      <3>1. Len(Program(u)) = 2 /\ Quiet(Program(u)[1], Job[u].task) /\ Program(u)[2].event = TaskEnd
        BY <2>0, <2>2, Layout, Zenon
      <3>2. s.event \notin TerminalTypes
        <4>1. TaskEnd \notin TerminalTypes
          BY Zenon DEF TaskEnd, TerminalTypes
        <4>2. Program(u)[1].event \notin TerminalTypes
          BY <3>1, Zenon DEF Quiet
        <4>3. next[u] = 1 \/ next[u] = 2
          BY <2>1, <3>1
        <4> QED BY <2>1, <3>1, <4>1, <4>2, <4>3, Zenon
      <3>3. ~Settlement(kind[u])
        BY <2>2, Zenon DEF Settlement
      <3> QED BY <3>2, <3>3, Zenon
    <2>3. CASE Settlement(kind[u])
      <3>1. SettlementForm(Program(u), TerminalAt(u), archives[u], Job[u].task, Job[u].query)
        BY <2>0, <2>3, Layout, Zenon
      <3>2. TerminalAt(u) \in 3..Len(Program(u)) /\ Len(Program(u)) \in Nat
        BY <3>1 DEF SettlementForm
      <3>3. s.event \in TerminalTypes <=> next[u] = TerminalAt(u)
        BY <2>1, <3>1, Zenon DEF SettlementForm
      <3> QED BY <2>3, <3>2, <3>3
    <2>4. CASE kind[u] # "transition" /\ ~Settlement(kind[u])
      <3>1. Quiet(s, Job[u].task)
        BY <2>0, <2>1, <2>4, Layout, Zenon
      <3> QED BY <2>4, <3>1, Zenon DEF Quiet
    <2> QED BY <2>2, <2>3, <2>4, Zenon
  \* The events of a transaction after a statement.
  <1>StatementOwn. ASSUME IInv, NEW u \in Txs, NEW s, Stepped(u, s), scene' = scene
      PROVE  EventsOK(u)'
    <2> USE <1>StatementOwn
    <2>0. own[u] \in Seq(Event) /\ next[u] \in Nat /\ next[u] >= 1 /\ EventsOK(u)
      BY TxTypes, Zenon
    <2>1. kind'[u] = kind[u] /\ next'[u] = next[u] + 1 /\ next[u] <= Len(Program(u)) /\ Len(Program(u)) \in Nat
      <3>1. Program(u) \in Seq(Step(Job[u].task, Job[u].query))
        BY Layout, Zenon DEF IInv, TxOK, TypeOK
      <3>2. Len(Program(u)) \in Nat
        BY <3>1
      <3>3. kind'[u] = kind[u] /\ next'[u] = next[u] + 1 /\ next[u] \in 1..Len(Program(u))
        BY Zenon DEF Stepped
      <3>4. next[u] <= Len(Program(u))
        BY <3>2, <3>3
      <3> QED BY <3>2, <3>3, <3>4, Zenon
    <2>2. Job' = Job /\ Program(u)' = Program(u) /\ TerminalAt(u)' = TerminalAt(u)
      BY <1>StatementKeeps, Zenon
    <2>3. PICK t, q, es, fs : t = Job[u].task /\ q = Job[u].query /\ es = own[u] /\ fs = own'[u]
      BY Zenon
    <2>4. /\ \A i \in 1..Len(es) : es[i].body.task = t /\ es[i].body.query = q
          /\ Terminated(u) => \E i \in 1..Len(es) : TerminalsIn(es, q) = {i}
          /\ ~Terminated(u) => TerminalsIn(es, q) = {}
      BY <2>0, <2>3, Zenon DEF EventsOK
    <2>5. EndsIn(es, t) = {}
      <3>1. EndsIn(es, t) # {} => next[u] > Len(Program(u))
        BY <2>0, <2>3, Zenon DEF EventsOK
      <3>2. ~(next[u] > Len(Program(u)))
        BY <2>0, <2>1
      <3> QED BY <3>1, <3>2, Zenon
    <2>e. /\ s.event \notin TerminalTypes => (Terminated(u)' <=> Terminated(u))
          /\ s.event \in TerminalTypes => Terminated(u)' /\ ~Terminated(u)
      <3>1. Terminated(u)' <=> Settlement(kind[u]) /\ next[u] + 1 > 1 /\ next[u] + 1 > TerminalAt(u)
        BY <2>1, <2>2, Zenon DEF Terminated
      <3>2. /\ s.event \in TerminalTypes <=> Settlement(kind[u]) /\ next[u] = TerminalAt(u)
            /\ Settlement(kind[u]) => TerminalAt(u) \in Nat /\ TerminalAt(u) >= 3
        BY <1>TerminalStep, Zenon
      <3>3. CASE ~Settlement(kind[u])
        BY <3>1, <3>2, <3>3, Zenon DEF Terminated
      <3>4. CASE Settlement(kind[u])
        <4>1. PICK a, b : a = next[u] /\ b = TerminalAt(u)
          BY Zenon
        <4>2. a \in Nat /\ b \in Nat /\ a >= 1 /\ b >= 3
          BY <2>0, <3>2, <3>4, <4>1, Zenon
        <4>3. /\ a = b => a + 1 > 1 /\ a + 1 > b /\ ~(a > 1 /\ a > b)
              /\ a # b => (a + 1 > 1 /\ a + 1 > b <=> a > 1 /\ a > b)
          BY <4>2, PassesBound, Zenon
        <4> QED BY <3>1, <3>2, <3>4, <4>1, <4>3, Zenon DEF Terminated
      <3> QED BY <3>3, <3>4, Zenon
    <2>6. s.event \notin TerminalTypes => (Terminated(u)' <=> Terminated(u))
      BY <2>e, Zenon
    <2>7. s.event \in TerminalTypes => Terminated(u)' /\ ~Terminated(u)
      BY <2>e, Zenon
    <2>8. /\ \A i \in 1..Len(fs) : fs[i].body.task = t /\ fs[i].body.query = q
          /\ Terminated(u)' => \E i \in 1..Len(fs) : TerminalsIn(fs, q) = {i}
          /\ ~Terminated(u)' => TerminalsIn(fs, q) = {}
          /\ EndsIn(fs, t) # {} => /\ next[u] + 1 > Len(Program(u)) /\ kind[u] # "callback"
                                   /\ \E i \in 1..Len(fs) : EndsIn(fs, t) = {i}
      <3>1. CASE s.event = "none"
        <4>1. fs = es
          BY <2>3, <3>1, <1>StatementEvents, Zenon
        <4>2. s.event \notin TerminalTypes
          BY <3>1, Zenon DEF TerminalTypes
        <4> QED BY <2>4, <2>5, <2>6, <4>1, <4>2, Zenon
      <3>2. CASE s.event # "none"
        <4>1. PICK e \in Event : /\ fs = Append(es, e) /\ e.body.type = s.event
                                 /\ e.body.task = t /\ e.body.query = q
          BY <2>3, <3>2, <1>StatementEvents, Zenon
        <4>2. PICK n \in Nat : n = Len(es)
          BY <2>0, <2>3
        <4>3. /\ Len(fs) = n + 1 /\ fs[n + 1] = e /\ \A i \in 1..n : fs[i] = es[i]
              /\ s.event \notin TerminalTypes => TerminalsIn(fs, q) = TerminalsIn(es, q)
              /\ s.event \in TerminalTypes => TerminalsIn(fs, q) = TerminalsIn(es, q) \union {n + 1}
              /\ s.event # TaskEnd => EndsIn(fs, t) = EndsIn(es, t)
              /\ s.event = TaskEnd => EndsIn(fs, t) = EndsIn(es, t) \union {n + 1}
          <5>1. es \in Seq(Event)
            BY <2>0, <2>3, Zenon
          <5>2. /\ Len(fs) = Len(es) + 1 /\ fs[Len(fs)] = e /\ \A i \in 1..Len(es) : fs[i] = es[i]
                /\ ~(IsTerminal(e) /\ e.body.query = q) => TerminalsIn(fs, q) = TerminalsIn(es, q)
                /\ IsTerminal(e) /\ e.body.query = q => TerminalsIn(fs, q) = TerminalsIn(es, q) \union {Len(fs)}
                /\ ~(e.body.type = TaskEnd /\ e.body.task = t) => EndsIn(fs, t) = EndsIn(es, t)
                /\ e.body.type = TaskEnd /\ e.body.task = t => EndsIn(fs, t) = EndsIn(es, t) \union {Len(fs)}
            <6>1. Adds(fs, es, e, t, q)
              BY <4>1, <5>1, <1>EventsOfAppend, Zenon
            <6> QED BY <6>1, Zenon DEF Adds
          <5>3. IsTerminal(e) <=> s.event \in TerminalTypes
            BY <4>1, Zenon DEF IsTerminal
          <5> QED BY <4>1, <4>2, <5>2, <5>3, Zenon
        <4>4. \A i \in 1..Len(fs) : fs[i].body.task = t /\ fs[i].body.query = q
          BY <2>4, <4>1, <4>2, <4>3, SMTT(60)
        <4>5. s.event \in TerminalTypes => TerminalsIn(fs, q) = {n + 1}
          BY <2>4, <2>7, <4>3, Zenon
        <4>6. Terminated(u)' => \E i \in 1..Len(fs) : TerminalsIn(fs, q) = {i}
          <5>1. CASE s.event \in TerminalTypes
            <6>1. n + 1 \in 1..Len(fs)
              BY <4>3
            <6> QED BY <4>5, <5>1, <6>1, Zenon
          <5>2. CASE s.event \notin TerminalTypes
            BY <2>4, <2>6, <4>2, <4>3, <5>2
          <5> QED BY <5>1, <5>2, Zenon
        <4>7. ~Terminated(u)' => TerminalsIn(fs, q) = {}
          BY <2>4, <2>6, <2>7, <4>3, Zenon
        <4>8. EndsIn(fs, t) # {} => s.event = TaskEnd /\ EndsIn(fs, t) = {n + 1}
          BY <2>5, <4>3, Zenon
        <4>9. s.event = TaskEnd => next[u] + 1 > Len(Program(u)) /\ kind[u] # "callback"
          <5>1. archives[u] => kind[u] # "callback"
            BY TxTypes, Zenon DEF Settlement
          <5>2. s.event = TaskEnd => next[u] = Len(Program(u)) /\ kind[u] # "callback"
            BY <5>1, <1>EndOfTask, Zenon
          <5>3. next[u] + 1 > next[u]
            BY <2>0
          <5> QED BY <5>2, <5>3, Zenon
        <4>10. n + 1 \in 1..Len(fs)
          BY <4>3
        <4> QED BY <4>4, <4>6, <4>7, <4>8, <4>9, <4>10, Zenon
      <3> QED BY <3>1, <3>2, Zenon
    <2>9. TerminalsIn(own[u], q)' = TerminalsIn(fs, q) /\ EndsIn(own[u], t)' = EndsIn(fs, t)
      BY <2>3, Zenon DEF TerminalsIn, IsTerminal, TerminalTypes, EndsIn, TaskEnd
    <2> QED BY <2>1, <2>2, <2>3, <2>8, <2>9, Zenon DEF EventsOK
  <1>1. PICK s : s = StepOf(x)
    BY Zenon
  <1>2. /\ Stepped(x, s) /\ scene' = scene /\ UNCHANGED <<rowVars, prover, verifier>>
        /\ \A y \in Txs \ {x} : Same(y)
        /\ kind' = kind /\ status' = status /\ archives' = archives /\ DOMAIN locks' = Txs
        /\ next' \in [Txs -> Nat \ {0}] /\ own' = [own EXCEPT ![x] = Inserted(x, s)]
    BY <1>1, <1>StatementEffect, Zenon
  <1>3. Txs' = Txs /\ UNCHANGED rowVars /\ chain' = chain /\ head' = head /\ Job' = Job /\ Queries' = Queries
    BY <1>2, SceneFrame, Zenon DEF rowVars
  <1>4. TypeOK'
    <2>1. own \in [Txs -> Seq(Event)] /\ own'[x] \in Seq(Event)
      BY <1>2, <1>StatementEvents, Zenon DEF IInv, TypeOK
    <2>2. own' \in [Txs -> Seq(Event)]
      BY <1>2, <2>1, Zenon
    <2>3. TypeOK
      BY Zenon DEF IInv
    <2> QED BY <1>2, <1>3, <2>2, <2>3, TypeFrame, Zenon DEF TypeOK
  <1>5. LocksHold'
    BY <1>2, <1>StatementLocks, Zenon
  <1>6. ASSUME NEW y \in Txs PROVE TxOK(y)' /\ GuardOK(y)' /\ ClaimOK(y)' /\ MoveOK(y)' /\ EventsOK(y)'
    <2>0. TxOK(y) /\ GuardOK(y) /\ ClaimOK(y) /\ MoveOK(y) /\ EventsOK(y)
      BY Zenon DEF IInv
    <2>1. CASE y = x
      <3>1. kind'[x] = kind[x] /\ archives'[x] = archives[x] /\ status'[x] = "running"
        BY <1>2, Zenon DEF Stepped
      <3>2. TxOK(x)'
        BY <1>3, <2>0, <2>1, <3>1, Zenon DEF TxOK, WorksOnQuery, Settlement
      <3> QED BY <1>2, <1>3, <2>1, <3>2, <1>StatementGuard, <1>StatementClaim, <1>StatementMove, <1>StatementOwn, Zenon
    <2>2. CASE y # x
      <3>1. Same(y)
        BY <1>2, <2>2, Zenon
      <3> QED BY <1>2, <1>3, <2>0, <3>1, TxFrame, RowFrame, Zenon
    <2> QED BY <2>1, <2>2, Zenon
  <1>7. ChainOK'
    <2>1. ASSUME NEW y \in Txs PROVE (own'[y] # <<>> => Holds(y, HeadRow, Update)') /\ Follows(head', own'[y])
      <3>1. CASE y = x
        BY <1>2, <1>3, <3>1, <1>StatementEvents, Zenon
      <3>2. CASE y # x
        <4>1. own'[y] = own[y] /\ locks'[y] = locks[y]
          BY <1>2, <3>2, Zenon DEF Same
        <4> QED BY <1>3, <4>1, Zenon DEF IInv, ChainOK, Holds, HeadRow, Update
      <3> QED BY <3>1, <3>2, Zenon
    <2>2. head' = HeadOf(chain') /\ Follows(GenesisHead, chain')
      BY <1>3, Zenon DEF IInv, ChainOK
    <2> QED BY <1>3, <2>1, <2>2, Zenon DEF ChainOK
  <1>8. ProverOK' /\ VerifierOK'
    BY <1>2, <1>3, Zenon DEF IInv, ProverOK, VerifierOK
  <1>9. CutoverIsClean' /\ (\A q \in Queries : QueryOK(q))' /\ (\A t \in Tasks : TaskOK(t))'
    BY <1>2, <1>3, RowFrame, Zenon DEF IInv
  <1> QED BY <1>3, <1>4, <1>5, <1>6, <1>7, <1>8, <1>9, Zenon DEF IInv

\* A settlement that finds its task archived has appended its terminal event,
\* and is done.
LEMMA SkipArchiveStep ==
  ASSUME IInv, NEW x \in Txs, SkipArchive(x)
  PROVE  IInv'
  <1>0. /\ TypeOK /\ scene \in Scenarios /\ archives[x] \in BOOLEAN /\ next[x] \in Nat /\ next[x] >= 1
        /\ TxOK(x) /\ ClaimOK(x) /\ EventsOK(x) /\ (WorksOnQuery(kind[x]) => Job[x].query \in Queries)
    BY TxTypes, Zenon
  <1>1. /\ scene' = scene /\ kind' = kind /\ status' = status /\ archives' = archives /\ locks' = locks /\ own' = own
        /\ UNCHANGED rowVars /\ prover' = prover /\ verifier' = verifier
        /\ next' = [next EXCEPT ![x] = @ + 2]
        /\ status[x] = "running" /\ next[x] <= Len(Program(x)) /\ NothingToArchive(x, StepOf(x))
    BY Zenon DEF SkipArchive, AtStep
  <1>2. next'[x] = next[x] + 2 /\ next' \in [Txs -> Nat \ {0}] /\ \A y \in Txs \ {x} : next'[y] = next[y]
    <2>1. next \in [Txs -> Nat \ {0}]
      BY <1>0, Zenon DEF TypeOK
    <2> QED BY <1>1, <2>1
  <1>3. /\ Txs' = Txs /\ Job' = Job /\ Queries' = Queries /\ chain' = chain /\ head' = head /\ query' = query
        /\ Program(x)' = Program(x) /\ TerminalAt(x)' = TerminalAt(x)
    BY <1>1, SceneFrame, ProgramFrame, Zenon DEF rowVars
  <1>4. PICK n, T : n = Len(Program(x)) /\ T = TerminalAt(x)
    BY ZenonT(60)
  <1>5. Settlement(kind[x]) /\ archives[x] /\ n \in Nat /\ T \in 3..(n - 2) /\ next[x] = n - 1
    <2>1. /\ Settlement(kind[x]) /\ Program(x)[next[x]].row = TaskRow(Job[x].task)
          /\ Program(x)[next[x]].mode = NoKeyUpdate
      BY <1>1, Zenon DEF NothingToArchive, StepOf
    <2>2. SettlementForm(Program(x), T, archives[x], Job[x].task, Job[x].query)
      BY <1>0, <1>4, <2>1, Layout, Zenon
    <2>3. n \in Nat /\ next[x] \in 1..n
      <3>1. Program(x) \in Seq(Step(Job[x].task, Job[x].query))
        BY <2>2, Zenon DEF SettlementForm
      <3>2. n \in Nat
        BY <1>4, <3>1
      <3>3. next[x] \in Nat /\ next[x] >= 1 /\ next[x] <= n
        BY <1>0, <1>1, <1>4, Zenon
      <3> QED BY <3>2, <3>3
    <2>4. archives[x] /\ next[x] = n - 1
      BY <1>4, <2>1, <2>2, <2>3, Zenon DEF SettlementForm
    <2>5. T \in 3..n /\ T <= n - 2
      BY <1>4, <2>2, <2>4, Zenon DEF SettlementForm
    <2>6. T \in 3..(n - 2)
      BY <2>3, <2>5
    <2> QED BY <2>1, <2>3, <2>4, <2>6, Zenon
  <1>6. \A y \in Txs \ {x} : Same(y)
    BY <1>1, <1>2, Zenon DEF Same
  <1>7. TypeOK'
    BY <1>0, <1>1, <1>2, TypeFrame, Zenon DEF TypeOK
  <1>8. LocksHold'
    <2>1. LocksHold
      BY Zenon DEF IInv
    <2>2. Txs' = Txs /\ locks' = locks
      BY <1>1, <1>3, Zenon
    <2> QED BY <2>1, <2>2 DEF LocksHold
  <1>9. ChainOK'
    BY <1>1, <1>3, Zenon DEF IInv, ChainOK, Holds, HeadRow, Update
  <1>10. ASSUME NEW y \in Txs PROVE TxOK(y)' /\ GuardOK(y)' /\ ClaimOK(y)' /\ MoveOK(y)' /\ EventsOK(y)'
    <2>0. TxOK(y) /\ GuardOK(y) /\ ClaimOK(y) /\ MoveOK(y) /\ EventsOK(y)
      BY Zenon DEF IInv
    <2>1. CASE y = x
      <3>1. TxOK(x)'
        BY <1>0, <1>1, <1>3, Zenon DEF TxOK, WorksOnQuery, Settlement
      <3>2. GuardOK(x)'
        BY <1>1, <1>5, Zenon DEF GuardOK, Guarded, Settlement
      <3>3. ClaimOK(x)'
        <4>1. Claimed(x)
          BY <1>4, <1>5, SMTT(60) DEF Claimed
        <4> QED BY <1>0, <1>1, <1>3, <4>1, Zenon DEF ClaimOK, Holds, QueryRow, Update
      <3>4. Terminated(x) /\ Terminated(x)'
        <4>1. next[x] > 1 /\ next[x] > T /\ next[x] + 2 > 1 /\ next[x] + 2 > T
          BY <1>5
        <4> QED BY <1>1, <1>2, <1>3, <1>4, <1>5, <4>1, Zenon DEF Terminated
      <3>5. EndsIn(own[x], Job[x].task) = {}
        <4>1. EndsIn(own[x], Job[x].task) # {} => next[x] > n
          BY <1>0, <1>4, Zenon DEF EventsOK
        <4> QED BY <1>5, <4>1
      <3>6. EndsIn(own[x], Job[x].task)' = EndsIn(own[x], Job[x].task)
        BY <1>1, <1>3, Zenon DEF EndsIn, TaskEnd
      <3>7. MoveOK(x)'
        <4>1. ~(kind'[x] = "callback") /\ ~(kind'[x] = "transition") /\ next'[x] # Len(Program(x)')
          BY <1>1, <1>2, <1>3, <1>4, <1>5 DEF Settlement
        <4> QED BY <3>5, <3>6, <4>1, Zenon DEF MoveOK, MovesTask
      <3>8. EventsOK(x)'
        <4>1. \A q : TerminalsIn(own[x], q)' = TerminalsIn(own[x], q)
          BY <1>1, Zenon DEF TerminalsIn, IsTerminal, TerminalTypes
        <4>2. /\ \A i \in 1..Len(own[x]) : own[x][i].body.task = Job[x].task /\ own[x][i].body.query = Job[x].query
              /\ \E i \in 1..Len(own[x]) : TerminalsIn(own[x], Job[x].query) = {i}
          BY <1>0, <3>4, Zenon DEF EventsOK
        <4> QED BY <1>1, <1>3, <3>4, <3>5, <3>6, <4>1, <4>2, Zenon DEF EventsOK, TerminalsIn, IsTerminal, TerminalTypes
      <3> QED BY <2>1, <3>1, <3>2, <3>3, <3>7, <3>8, Zenon
    <2>2. CASE y # x
      <3>1. Same(y)
        BY <1>6, <2>2, Zenon
      <3> QED BY <1>1, <2>0, <3>1, TxFrame, RowFrame, Zenon
    <2> QED BY <2>1, <2>2, Zenon
  <1>11. ProverOK' /\ VerifierOK'
    BY <1>1, <1>3, Zenon DEF IInv, ProverOK, VerifierOK
  <1>12. CutoverIsClean' /\ (\A q \in Queries : QueryOK(q))' /\ (\A t \in Tasks : TaskOK(t))'
    BY <1>1, RowFrame, Zenon DEF IInv
  <1> QED BY <1>3, <1>7, <1>8, <1>9, <1>10, <1>11, <1>12, Zenon DEF IInv

-----------------------------------------------------------------------------
(* A commit. *)

\* Two transactions do not both hold a row to write it.
LEMMA Exclusive ==
  ASSUME IInv, NEW x \in Txs, NEW y \in Txs, x # y, NEW row
  PROVE  ~(/\ Holds(x, row, Update) \/ Holds(x, row, NoKeyUpdate)
           /\ Holds(y, row, Update) \/ Holds(y, row, NoKeyUpdate))
  <1>1. \A m, n \in {Update, NoKeyUpdate} : Excludes(m, n)
    BY Zenon DEF Excludes, Conflicting
  <1>2. ASSUME NEW m \in {Update, NoKeyUpdate}, NEW n \in {Update, NoKeyUpdate}, Holds(x, row, m), Holds(y, row, n)
        PROVE  FALSE
    <2>1. PICK h, k : h = [row |-> row, mode |-> m] /\ k = [row |-> row, mode |-> n]
      BY Zenon
    <2>2. h \in locks[x] /\ k \in locks[y] /\ h.row = k.row /\ h.mode = m /\ k.mode = n
      BY <1>2, <2>1, Zenon DEF Holds
    <2> QED BY <1>1, <2>2, Zenon DEF IInv, LocksHold
  <1> QED BY <1>2, Zenon

\* What a transaction that commits has done.
LEMMA CommitFacts ==
  ASSUME IInv, NEW x \in Txs, status[x] = "running", next[x] > Len(Program(x))
  PROVE  /\ kind[x] \in {"reserve", "callback", "activate"} => Holds(x, CutoverLock, Update) /\ Passes(x)
         /\ kind[x] = "reserve" \/ Settlement(kind[x]) =>
               /\ Holds(x, QueryRow(Job[x].query), Update) /\ Job[x].query \in Queries
         /\ kind[x] = "reserve" => query[Job[x].query] = "NONE"
         /\ Settlement(kind[x]) => query[Job[x].query] = "RESERVED" /\ Terminated(x)
         /\ ~Settlement(kind[x]) => ~Terminated(x)
         /\ kind[x] = "callback" \/ EndsIn(own[x], Job[x].task) # {} => HoldsTask(x)
  <1>0. /\ scene \in Scenarios /\ archives[x] \in BOOLEAN /\ next[x] \in Nat
        /\ GuardOK(x) /\ ClaimOK(x) /\ MoveOK(x) /\ (WorksOnQuery(kind[x]) => Job[x].query \in Queries)
    BY Zenon DEF IInv, TypeOK, TxOK
  <1>1. kind[x] \in {"reserve", "callback", "activate"} => Guarded(x)
    BY <1>0, Layout, SMTT(60) DEF Guarded, GuardAt
  <1>2. kind[x] = "reserve" => Claimed(x)
    <2>1. kind[x] = "reserve" => Len(Program(x)) >= 5 /\ Program(x) \in Seq(Step(Job[x].task, Job[x].query))
      BY <1>0, Layout, Zenon
    <2> QED BY <1>0, <2>1 DEF Claimed
  <1>3. Settlement(kind[x]) => Claimed(x) /\ Terminated(x)
    <2>1. Settlement(kind[x]) => SettlementForm(Program(x), TerminalAt(x), archives[x], Job[x].task, Job[x].query)
      BY <1>0, Layout, Zenon
    <2>2. Settlement(kind[x]) => TerminalAt(x) \in 3..Len(Program(x)) /\ Len(Program(x)) \in Nat
      BY <2>1, SMTT(60) DEF SettlementForm
    <2> QED BY <1>0, <2>2 DEF Claimed, Terminated
  <1>4. kind[x] = "callback" => MovesTask(x)
    <2>1. kind[x] = "callback" => Len(Program(x)) >= 4 /\ Program(x) \in Seq(Step(Job[x].task, Job[x].query))
      BY <1>0, Layout, Zenon
    <2>2. kind[x] = "callback" => next[x] > 2
      BY <1>0, <2>1
    <2> QED BY <2>2, Zenon DEF MovesTask
  <1>5. kind[x] = "reserve" => ~Settlement(kind[x])
    BY Zenon DEF Settlement
  <1>6. kind[x] = "reserve" \/ Settlement(kind[x]) => Job[x].query \in Queries
    BY <1>0, Zenon DEF WorksOnQuery, Settlement
  <1>7. ~Settlement(kind[x]) => ~Terminated(x)
    BY Zenon DEF Terminated
  <1>8. kind[x] = "callback" \/ EndsIn(own[x], Job[x].task) # {} => HoldsTask(x)
    BY <1>0, <1>4, Zenon DEF MoveOK, MovesTask
  <1>9. /\ kind[x] = "reserve" => Holds(x, QueryRow(Job[x].query), Update) /\ query[Job[x].query] = "NONE"
        /\ Settlement(kind[x]) => Holds(x, QueryRow(Job[x].query), Update) /\ query[Job[x].query] = "RESERVED"
    BY <1>0, <1>2, <1>3, <1>5, Zenon DEF ClaimOK
  <1> QED BY <1>0, <1>1, <1>3, <1>6, <1>7, <1>8, <1>9, Zenon DEF GuardOK

\* Where the events of a set are in a sequence.
Indices(es, P) == {i \in 1..Len(es) : es[i] \in P}

\* The places a in es, b in fs and c in the two, one after the other.
Shifts(c, a, b, es) ==
    /\ b = {} => c = a
    /\ \A i : a = {} /\ b = {i} => c = {Len(es) + i}

\* The places of events in two sequences, one after the other.
LEMMA IndicesOfCat ==
  ASSUME NEW es, NEW fs, NEW gs, IsCat(gs, es, fs), NEW P
  PROVE  Shifts(Indices(gs, P), Indices(es, P), Indices(fs, P), es)
  <1>1. PICK n \in Nat, m \in Nat : n = Len(es) /\ m = Len(fs)
    BY Zenon DEF IsCat
  <1>2. /\ Len(gs) = n + m /\ (\A i \in 1..n : gs[i] = es[i])
        /\ \A i \in 1..m : gs[n + i] = fs[i] /\ n + i \in 1..(n + m)
    BY <1>1 DEF IsCat
  <1>3. ASSUME NEW i \in 1..(n + m) PROVE i \in 1..n \/ \E j \in 1..m : i = n + j
    <2>1. CASE i <= n
      BY <2>1
    <2>2. CASE i > n
      <3>1. i - n \in 1..m /\ i = n + (i - n)
        BY <2>2
      <3> QED BY <3>1, Zenon
    <2> QED BY <2>1, <2>2
  <1>4. ASSUME Indices(fs, P) = {} PROVE Indices(gs, P) = Indices(es, P)
    <2>1. \A j \in 1..m : fs[j] \notin P
      BY <1>1, <1>4, Zenon DEF Indices
    <2>2. ASSUME NEW i \in 1..(n + m), gs[i] \in P PROVE i \in 1..n /\ es[i] \in P
      BY <1>2, <1>3, <2>1, <2>2, Zenon
    <2>3. ASSUME NEW i \in 1..n, es[i] \in P PROVE i \in 1..(n + m) /\ gs[i] \in P
      BY <1>2, <2>3
    <2> QED BY <1>1, <1>2, <2>2, <2>3, Zenon DEF Indices
  <1>5. ASSUME NEW k, Indices(es, P) = {}, Indices(fs, P) = {k} PROVE Indices(gs, P) = {n + k}
    <2>1. \A j \in 1..n : es[j] \notin P
      BY <1>1, <1>5, Zenon DEF Indices
    <2>2. k \in 1..m /\ fs[k] \in P
      BY <1>1, <1>5, Zenon DEF Indices
    <2>3. \A j \in 1..m : fs[j] \in P => j = k
      BY <1>1, <1>5, Zenon DEF Indices
    <2>4. ASSUME NEW i \in 1..(n + m), gs[i] \in P PROVE i = n + k
      BY <1>2, <1>3, <2>1, <2>3, <2>4, Zenon
    <2>5. n + k \in 1..(n + m) /\ gs[n + k] \in P
      BY <1>2, <2>2, Zenon
    <2> QED BY <1>2, <2>4, <2>5, Zenon DEF Indices
  <1> QED BY <1>1, <1>4, <1>5, Zenon DEF Shifts

\* The terminal events of a query and the ends of a task, as places of events.
LEMMA EventPlaces ==
  ASSUME NEW t, NEW q
  PROVE  /\ \E P : \A es \in Seq(Event) : TerminalsIn(es, q) = Indices(es, P)
         /\ \E P : \A es \in Seq(Event) : EndsIn(es, t) = Indices(es, P)
  <1>1. PICK P, R : /\ P = {e \in Event : IsTerminal(e) /\ e.body.query = q}
                    /\ R = {e \in Event : e.body.type = TaskEnd /\ e.body.task = t}
    BY Zenon
  <1>2. ASSUME NEW es \in Seq(Event) PROVE TerminalsIn(es, q) = Indices(es, P) /\ EndsIn(es, t) = Indices(es, R)
    <2>1. \A i \in 1..Len(es) : es[i] \in Event
      OBVIOUS
    <2>2. \A e \in Event : /\ (IsTerminal(e) /\ e.body.query = q) <=> e \in P
                           /\ (e.body.type = TaskEnd /\ e.body.task = t) <=> e \in R
      BY <1>1, Zenon
    <2>3. TerminalsIn(es, q) = Indices(es, P)
      BY <2>1, <2>2, Zenon DEF TerminalsIn, Indices
    <2>4. EndsIn(es, t) = Indices(es, R)
      BY <2>1, <2>2, Zenon DEF EndsIn, Indices
    <2> QED BY <2>3, <2>4, Zenon
  <1> QED BY <1>2, Zenon

\* A chain gs that has grown from es by fs, and what it says of a task and a query.
Joins(gs, es, fs, t, q) ==
    /\ gs \in Seq(Event) /\ IsCat(gs, es, fs)
    /\ Shifts(TerminalsIn(gs, q), TerminalsIn(es, q), TerminalsIn(fs, q), es)
    /\ Shifts(EndsIn(gs, t), EndsIn(es, t), EndsIn(fs, t), es)

\* The terminal events and the ends of tasks of a chain that grows.
LEMMA EventsOfCat ==
  ASSUME NEW es \in Seq(Event), NEW fs \in Seq(Event), NEW gs, gs = es \o fs, NEW t, NEW q
  PROVE  Joins(gs, es, fs, t, q)
  <1>1. gs \in Seq(Event) /\ IsCat(gs, es, fs)
    BY CatIs, Zenon
  <1>2. PICK P : \A s \in Seq(Event) : TerminalsIn(s, q) = Indices(s, P)
    BY EventPlaces, Zenon
  <1>3. PICK R : \A s \in Seq(Event) : EndsIn(s, t) = Indices(s, R)
    BY EventPlaces, Zenon
  <1>4. Shifts(Indices(gs, P), Indices(es, P), Indices(fs, P), es)
    BY <1>1, IndicesOfCat, Zenon
  <1>5. Shifts(Indices(gs, R), Indices(es, R), Indices(fs, R), es)
    BY <1>1, IndicesOfCat, Zenon
  <1>6. /\ TerminalsIn(es, q) = Indices(es, P) /\ TerminalsIn(fs, q) = Indices(fs, P)
        /\ TerminalsIn(gs, q) = Indices(gs, P)
        /\ EndsIn(es, t) = Indices(es, R) /\ EndsIn(fs, t) = Indices(fs, R) /\ EndsIn(gs, t) = Indices(gs, R)
    BY <1>1, <1>2, <1>3, Zenon
  <1> QED BY <1>1, <1>4, <1>5, <1>6, Zenon DEF Joins

\* What a commit does to the transactions.
LEMMA CommitEnds ==
  ASSUME IInv, NEW x \in Txs, Commit(x)
  PROVE  /\ scene' = scene /\ prover' = prover /\ verifier' = verifier
         /\ status[x] = "running" /\ next[x] > Len(Program(x))
         /\ chain' = chain \o own[x] /\ head' = After(head, own[x])
         /\ kind'[x] = kind[x] /\ next'[x] = 1 /\ own'[x] = <<>> /\ locks'[x] = {} /\ ~archives'[x]
         /\ \A y \in Txs \ {x} : Same(y)
         /\ DOMAIN kind' = Txs /\ status' \in [Txs -> {"idle", "running", "done", "refused"}]
         /\ next' \in [Txs -> Nat \ {0}] /\ archives' \in [Txs -> BOOLEAN] /\ DOMAIN locks' = Txs
         /\ own' \in [Txs -> Seq(Event)]
  <1>1. /\ scene' = scene /\ prover' = prover /\ verifier' = verifier
        /\ status[x] = "running" /\ next[x] > Len(Program(x))
        /\ chain' = chain \o own[x] /\ head' = HeadSeen(x) /\ Ended(x, "done", kind[x])
    BY Zenon DEF Commit
  <1>2. head' = After(head, own[x])
    BY <1>1, Zenon DEF HeadSeen, After
  <1>3. TypeOK /\ "done" \in {"idle", "done", "refused"}
    BY Zenon DEF IInv
  <1> QED BY <1>1, <1>2, <1>3, EndedEffect, Zenon

\* The rows a commit writes: of its own query and its own task.
LEMMA CommitRows ==
  ASSUME IInv, NEW x \in Txs, Commit(x)
  PROVE  LET q == Job[x].query
             t == Job[x].task
         IN  /\ kind[x] = "reserve" => query' = [query EXCEPT ![q] = "RESERVED"]
             /\ Settlement(kind[x]) => query' = [query EXCEPT ![q] = TargetStatus(kind[x])]
             /\ kind[x] # "reserve" /\ ~Settlement(kind[x]) => query' = query
             /\ kind[x] = "callback" => taskState' = [taskState EXCEPT ![t] = "ACTIVE"]
             /\ kind[x] # "callback" /\ EndsIn(own[x], t) # {} => taskState' = [taskState EXCEPT ![t] = "ARCHIVED"]
             /\ kind[x] # "callback" /\ EndsIn(own[x], t) = {} => taskState' = taskState
             /\ ~Settlement(kind[x]) => receipt' = receipt
             /\ marker' = (marker \/ kind[x] = "activate" \/ (kind[x] = "callback" /\ Ordinal(t)))
             /\ legacy' = IF kind[x] = "callback" /\ Profile[t] = "v3" THEN legacy \union {t} ELSE legacy
  <1>1. PICK q, t, written : /\ q = Job[x].query /\ t = Job[x].task
                             /\ written = {own[x][i] : i \in 1..Len(own[x])}
    BY Zenon
  <1>2. /\ query' = IF kind[x] = "reserve" THEN [query EXCEPT ![q] = "RESERVED"]
                    ELSE IF Settlement(kind[x]) THEN [query EXCEPT ![q] = TargetStatus(kind[x])]
                    ELSE query
        /\ ~Settlement(kind[x]) => receipt' = receipt
        /\ legacy' = IF kind[x] = "callback" /\ Profile[t] = "v3" THEN legacy \union {t} ELSE legacy
    BY <1>1, Zenon DEF Commit
  <1>8. marker' = (marker \/ kind[x] = "activate" \/ (kind[x] = "callback" /\ Ordinal(t)))
    BY <1>1, Zenon DEF Commit
  <1>3. taskState' = CASE kind[x] = "callback" -> [taskState EXCEPT ![t] = "ACTIVE"]
                       [] \E event \in written : event.body.type = "TASK_STATE_CHANGED" ->
                             [taskState EXCEPT ![t] = "ARCHIVED"]
                       [] OTHER -> taskState
    BY <1>1, Zenon DEF Commit
  <1>4. (\E event \in written : event.body.type = "TASK_STATE_CHANGED") <=> EndsIn(own[x], t) # {}
    <2>1. \A i \in 1..Len(own[x]) : own[x][i].body.task = t
      BY <1>1, Zenon DEF IInv, EventsOK
    <2> QED BY <1>1, <2>1, Zenon DEF EndsIn, TaskEnd
  <1>5. EndsIn(own[x], t) # {} => kind[x] # "callback"
    BY <1>1, Zenon DEF IInv, EventsOK
  <1>6. /\ kind[x] = "callback" => taskState' = [taskState EXCEPT ![t] = "ACTIVE"]
        /\ kind[x] # "callback" /\ EndsIn(own[x], t) # {} => taskState' = [taskState EXCEPT ![t] = "ARCHIVED"]
        /\ kind[x] # "callback" /\ EndsIn(own[x], t) = {} => taskState' = taskState
    BY <1>3, <1>4, <1>5, Zenon
  <1>7. kind[x] = "reserve" => ~Settlement(kind[x])
    BY Zenon DEF Settlement
  <1> QED BY <1>1, <1>2, <1>6, <1>7, <1>8, Zenon

\* The receipt of a settlement names its one terminal event.
LEMMA CommitReceipt ==
  ASSUME IInv, NEW x \in Txs, Commit(x), Settlement(kind[x])
  PROVE  \E i \in 1..Len(own[x]) :
            /\ TerminalsIn(own[x], Job[x].query) = {i}
            /\ receipt' = [receipt EXCEPT ![Job[x].query] = <<HeadAfter(own[x][i])>>]
  <1>1. PICK q, es, written : q = Job[x].query /\ es = own[x] /\ written = {es[i] : i \in 1..Len(es)}
    BY Zenon
  <1>2. receipt' = [receipt EXCEPT ![q] = <<HeadAfter(CHOOSE e \in written : IsTerminal(e))>>]
    BY <1>1, Zenon DEF Commit
  <1>3. Terminated(x) /\ EventsOK(x)
    BY CommitEnds, CommitFacts, Zenon DEF IInv
  <1>4. PICK i \in 1..Len(es) : TerminalsIn(es, q) = {i}
    BY <1>1, <1>3, Zenon DEF EventsOK
  <1>5. \A j \in 1..Len(es) : es[j].body.query = q
    BY <1>1, <1>3, Zenon DEF EventsOK
  <1>6. \A j \in 1..Len(es) : IsTerminal(es[j]) <=> j = i
    BY <1>4, <1>5, Zenon DEF TerminalsIn
  <1>7. es[i] \in written /\ \A e \in written : IsTerminal(e) <=> e = es[i]
    BY <1>1, <1>6, Zenon
  <1>8. (CHOOSE e \in written : IsTerminal(e)) = es[i]
    BY <1>7, Zenon
  <1> QED BY <1>1, <1>2, <1>4, <1>8, Zenon

\* A commit keeps the types.
LEMMA CommitTypes ==
  ASSUME IInv, NEW x \in Txs, Commit(x)
  PROVE  TypeOK'
  <1>1. TypeOK /\ own[x] \in Seq(Event) /\ chain \in Seq(Event)
    BY Zenon DEF IInv, TypeOK
  <1>2. Txs' = Txs /\ Tasks' = Tasks /\ Queries' = Queries /\ scene' = scene
    BY CommitEnds, SceneFrame, Zenon
  <1>3. chain' \in Seq(Event)
    <2>1. chain' = chain \o own[x]
      BY CommitEnds, Zenon
    <2> QED BY <1>1, <2>1, CatSeq, Zenon
  <1>4. taskState' \in [Tasks -> {"AWAITING_APPROVAL", "ACTIVE", "ARCHIVED"}]
    <2>1. taskState \in [Tasks -> {"AWAITING_APPROVAL", "ACTIVE", "ARCHIVED"}]
      BY <1>1, Zenon DEF TypeOK
    <2>2. \/ taskState' = [taskState EXCEPT ![Job[x].task] = "ACTIVE"]
          \/ taskState' = [taskState EXCEPT ![Job[x].task] = "ARCHIVED"]
          \/ taskState' = taskState
      BY CommitRows, Zenon
    <2> QED BY <2>1, <2>2, Zenon
  <1>5. query' \in [Queries -> {"NONE", "RESERVED", "COMPLETED", "FAILED"}]
    <2>1. query \in [Queries -> {"NONE", "RESERVED", "COMPLETED", "FAILED"}]
      BY <1>1, Zenon DEF TypeOK
    <2>2. \/ query' = [query EXCEPT ![Job[x].query] = "RESERVED"]
          \/ query' = [query EXCEPT ![Job[x].query] = TargetStatus(kind[x])]
          \/ query' = query
      BY CommitRows, Zenon
    <2>3. TargetStatus(kind[x]) \in {"COMPLETED", "FAILED"}
      BY Zenon DEF TargetStatus
    <2> QED BY <2>1, <2>2, <2>3, Zenon
  <1>6. DOMAIN receipt' = Queries
    <2>1. DOMAIN receipt = Queries
      BY <1>1, Zenon DEF TypeOK
    <2>2. receipt' = receipt \/ \E r : receipt' = [receipt EXCEPT ![Job[x].query] = r]
      BY CommitRows, CommitReceipt, Zenon
    <2> QED BY <2>1, <2>2, Zenon
  <1>7. marker' \in BOOLEAN
    BY CommitRows, Zenon
  <1>8. /\ DOMAIN kind' = Txs /\ status' \in [Txs -> {"idle", "running", "done", "refused"}]
        /\ next' \in [Txs -> Nat \ {0}] /\ archives' \in [Txs -> BOOLEAN] /\ DOMAIN locks' = Txs
        /\ own' \in [Txs -> Seq(Event)]
    BY CommitEnds, Zenon
  <1> QED BY <1>1, <1>2, <1>3, <1>4, <1>5, <1>6, <1>7, <1>8, Zenon DEF TypeOK

\* Events that follow the head after others follow them.
LEMMA FollowsConcat ==
  ASSUME NEW h, h.sequence \in Nat, h.hash \in Seq(Body), NEW es \in Seq(Event), NEW fs \in Seq(Event),
         Follows(h, es), Follows(After(h, es), fs)
  PROVE  /\ es \o fs \in Seq(Event) /\ Follows(h, es \o fs)
         /\ After(h, es \o fs) = After(After(h, es), fs)
         /\ Len(es \o fs) = Len(es) + Len(fs)
         /\ \A i \in 1..Len(es) : (es \o fs)[i] = es[i]
         /\ \A i \in 1..Len(fs) : (es \o fs)[Len(es) + i] = fs[i]
  <1>1. PICK gs : gs = es \o fs
    BY Zenon
  <1>a. gs \in Seq(Event)
    BY <1>1
  <1>2. PICK n \in Nat, m \in Nat : n = Len(es) /\ m = Len(fs)
    OBVIOUS
  <1>3. Len(gs) = n + m /\ (\A i \in 1..n : gs[i] = es[i]) /\ (\A i \in 1..m : gs[n + i] = fs[i])
    BY <1>1, <1>2
  <1>4. After(h, es).sequence = h.sequence + n
    BY <1>2, AfterType, Zenon
  <1>5. n > 0 => After(h, es).hash = es[n].hash
    BY <1>2 DEF After, HeadOf, HeadAfter, Checkpoint
  <1>6. n = 0 => After(h, es) = h
    <2>1. n = 0 => es = <<>>
      BY <1>2, EmptySeq, Zenon
    <2> QED BY <2>1, Zenon DEF After
  <1>7. ASSUME NEW i \in 1..n
        PROVE  /\ gs[i].sequence = h.sequence + i
               /\ i = 1 => verifyLink(h.hash, gs[i])
               /\ i # 1 => verifyLink(gs[i - 1].hash, gs[i])
    <2>1. gs[i] = es[i] /\ (i # 1 => gs[i - 1] = es[i - 1])
      BY <1>3, SMTT(60)
    <2> QED BY <1>2, <2>1, Zenon DEF Follows
  <1>8. ASSUME NEW j \in 1..m
        PROVE  /\ gs[n + j].sequence = h.sequence + (n + j)
               /\ n + j = 1 => verifyLink(h.hash, gs[n + j])
               /\ n + j # 1 => verifyLink(gs[(n + j) - 1].hash, gs[n + j])
    <2>1. gs[n + j] = fs[j] /\ fs[j].sequence = After(h, es).sequence + j
      BY <1>2, <1>3, Zenon DEF Follows
    <2>2. /\ j = 1 => verifyLink(After(h, es).hash, fs[j])
          /\ j # 1 => verifyLink(fs[j - 1].hash, fs[j])
      BY <1>2, Zenon DEF Follows
    <2>3. j # 1 => gs[(n + j) - 1] = fs[j - 1]
      <3>1. j # 1 => j - 1 \in 1..m /\ n + (j - 1) = (n + j) - 1
        BY SMTT(60)
      <3> QED BY <1>3, <3>1, Zenon
    <2>4. j = 1 /\ n > 0 => gs[(n + j) - 1].hash = After(h, es).hash
      BY <1>3, <1>5, SMTT(60)
    <2>5. CASE j = 1 /\ n = 0
      BY <1>4, <1>6, <2>1, <2>2, <2>5, SMTT(60)
    <2>6. CASE j = 1 /\ n > 0
      <3>1. verifyLink(gs[(n + j) - 1].hash, gs[n + j])
        BY <2>1, <2>2, <2>4, <2>6, Zenon
      <3>2. gs[n + j].sequence = h.sequence + (n + j)
        BY <1>4, <2>1, SMTT(60)
      <3>3. n + j # 1
        BY <1>2, <2>6
      <3> QED BY <3>1, <3>2, <3>3, Zenon
    <2>7. CASE j # 1
      BY <1>4, <2>1, <2>2, <2>3, <2>7, SMTT(60)
    <2>8. n = 0 \/ n > 0
      BY <1>2
    <2> QED BY <2>5, <2>6, <2>7, <2>8, Zenon
  <1>9. ASSUME NEW i \in 1..(n + m)
        PROVE  /\ gs[i].sequence = h.sequence + i
               /\ i = 1 => verifyLink(h.hash, gs[i])
               /\ i # 1 => verifyLink(gs[i - 1].hash, gs[i])
    <2>1. CASE i <= n
      <3>1. i \in 1..n
        BY <2>1
      <3> QED BY <1>7, <3>1, Zenon
    <2>2. CASE i > n
      <3>1. PICK j \in 1..m : i = n + j
        BY <2>2
      <3> QED BY <1>8, <3>1, Zenon
    <2> QED BY <2>1, <2>2
  <1>10. Follows(h, gs)
    BY <1>3, <1>9, Zenon DEF Follows
  <1>11. After(h, gs) = After(After(h, es), fs)
    <2>1. CASE m = 0
      <3>1. fs = <<>>
        BY <1>2, <2>1, EmptySeq, Zenon
      <3>2. gs = es
        BY <1>1, <3>1
      <3> QED BY <3>1, <3>2, Zenon DEF After
    <2>2. CASE m > 0
      <3>1. gs # <<>> /\ fs # <<>> /\ gs[Len(gs)] = fs[Len(fs)]
        BY <1>2, <1>3, <2>2
      <3> QED BY <3>1, Zenon DEF After, HeadOf
    <2> QED BY <2>1, <2>2
  <1> QED BY <1>1, <1>a, <1>2, <1>3, <1>10, <1>11, Zenon

\* The committed events are a chain after a commit, and the events of the
\* others still follow its head: one of two transactions has none.
LEMMA CommitChain ==
  ASSUME IInv, NEW x \in Txs, Commit(x)
  PROVE  ChainOK'
  <1>1. TypeOK /\ ChainOK /\ own[x] \in Seq(Event) /\ chain \in Seq(Event)
    BY Zenon DEF IInv, TypeOK
  <1>2. /\ chain' = chain \o own[x] /\ head' = After(head, own[x]) /\ own'[x] = <<>> /\ scene' = scene
        /\ \A y \in Txs \ {x} : own'[y] = own[y] /\ locks'[y] = locks[y]
    BY CommitEnds, Zenon DEF Same
  <1>3. Txs' = Txs
    BY <1>2, SceneFrame, Zenon
  <1>4. /\ GenesisHead.sequence \in Nat /\ GenesisHead.hash \in Seq(Body) /\ head = After(GenesisHead, chain)
        /\ Follows(GenesisHead, chain) /\ Follows(head, own[x])
    <2>1. TypeOK /\ ChainOK
      BY Zenon DEF IInv
    <2>2. GenesisHead.sequence = 0 /\ GenesisHead.hash \in Seq(Body) /\ head = After(GenesisHead, chain)
      BY <2>1, ChainFacts, Zenon
    <2>3. GenesisHead.sequence \in Nat
      BY <2>2
    <2> QED BY <2>1, <2>2, <2>3, Zenon DEF ChainOK
  <1>5. PICK es \in Seq(Event), fs \in Seq(Event) : es = chain /\ fs = own[x]
    BY <1>1, Zenon
  <1>6. /\ Follows(GenesisHead, es \o fs)
        /\ After(GenesisHead, es \o fs) = After(After(GenesisHead, es), fs)
    BY <1>4, <1>5, FollowsConcat
  <1>7. Follows(GenesisHead, chain') /\ After(GenesisHead, chain') = head'
    BY <1>2, <1>4, <1>5, <1>6, Zenon
  <1>8. head' = HeadOf(chain')
    BY <1>7, Zenon DEF After, HeadOf
  <1>9. ASSUME NEW y \in Txs PROVE (own'[y] # <<>> => Holds(y, HeadRow, Update)') /\ Follows(head', own'[y])
    <2>1. \A h : Follows(h, <<>>)
      BY DEF Follows
    <2>2. CASE y = x
      BY <1>2, <2>1, <2>2, Zenon
    <2>3. CASE y # x
      <3>1. own'[y] = own[y] /\ locks'[y] = locks[y]
        BY <1>2, <2>3, Zenon
      <3>2. own[y] # <<>> => Holds(y, HeadRow, Update)
        BY <1>1, Zenon DEF ChainOK
      <3>3. own'[y] # <<>> => Holds(y, HeadRow, Update)'
        BY <3>1, <3>2, Zenon DEF Holds, HeadRow, Update
      <3>4. CASE own[x] = <<>>
        <4>1. head' = head
          BY <1>2, <3>4, Zenon DEF After
        <4> QED BY <1>1, <3>1, <3>3, <4>1, Zenon DEF ChainOK
      <3>5. CASE own[x] # <<>>
        <4>1. Holds(x, HeadRow, Update)
          BY <1>1, <3>5, Zenon DEF ChainOK
        <4>2. own[y] = <<>>
          BY <2>3, <3>2, <4>1, Exclusive, Zenon
        <4> QED BY <2>1, <3>1, <3>3, <4>2, Zenon
      <3> QED BY <3>4, <3>5, Zenon
    <2> QED BY <2>2, <2>3, Zenon
  <1> QED BY <1>3, <1>7, <1>8, <1>9, Zenon DEF ChainOK

\* What readers have read stays as it was.
LEMMA CommitReaders ==
  ASSUME IInv, NEW x \in Txs, Commit(x)
  PROVE  ProverOK' /\ VerifierOK'
  <1>1. chain \in Seq(Event) /\ own[x] \in Seq(Event) /\ ProverOK /\ VerifierOK
    BY Zenon DEF IInv, TypeOK
  <1>2. chain' = chain \o own[x] /\ prover' = prover /\ verifier' = verifier
    BY CommitEnds, Zenon
  <1>3. PICK es \in Seq(Event), fs \in Seq(Event) : es = chain /\ fs = own[x]
    BY <1>1, Zenon
  <1>4. Len(es \o fs) = Len(es) + Len(fs) /\ \A i \in 1..Len(es) : (es \o fs)[i] = es[i]
    BY CatSeq, Zenon
  <1>5. Len(chain) \in Nat /\ Len(chain') \in Nat /\ Len(chain) <= Len(chain') /\ \A i \in 1..Len(chain) : chain'[i] = chain[i]
    BY <1>2, <1>3, <1>4
  <1>6. ProverOK'
    <2>1. PICK n, m, c : n = prover.terminal.sequence /\ m = prover.checkpoint.sequence /\ c = chain'
      BY Zenon
    <2>2. CASE prover.pc = "idle"
      BY <1>2, <2>2, Zenon DEF ProverOK
    <2>3. CASE prover.pc # "idle"
      <3>1. n \in 1..m /\ m \in 1..Len(chain) /\ prover.terminal = chain[n] /\ prover.checkpoint = HeadAfter(chain[m])
        BY <1>1, <2>1, <2>3, Zenon DEF ProverOK
      <3>2. /\ m \in 1..Len(c) /\ chain[n] = c[n] /\ chain[m] = c[m] /\ (n > 1 => chain[n - 1] = c[n - 1])
            /\ \A i \in 1..(m - n) : chain[n + i] = c[n + i]
        <4>1. n \in 1..Len(chain) /\ (n > 1 => n - 1 \in 1..Len(chain)) /\ \A i \in 1..(m - n) : n + i \in 1..Len(chain)
          BY <1>5, <3>1
        <4>2. \A i \in 1..Len(chain) : c[i] = chain[i]
          BY <1>5, <2>1, Zenon
        <4>3. m \in 1..Len(c)
          BY <1>5, <2>1, <3>1
        <4> QED BY <3>1, <4>1, <4>2, <4>3, Zenon
      <3>3. /\ n \in 1..m /\ m \in 1..Len(c) /\ prover.terminal = c[n] /\ prover.checkpoint = HeadAfter(c[m])
        BY <3>1, <3>2, Zenon
      <3>4. prover.pc \in {"successors", "proved"} => prover.predecessor = IF n > 1 THEN <<c[n - 1]>> ELSE <<>>
        <4>1. prover.pc \in {"successors", "proved"} => prover.predecessor = IF n > 1 THEN <<chain[n - 1]>> ELSE <<>>
          BY <1>1, <2>1, Zenon DEF ProverOK
        <4> QED BY <3>2, <4>1, Zenon
      <3>5. prover.pc = "proved" => /\ prover.successors \in Seq(Event) /\ Len(prover.successors) = m - n
                                    /\ \A i \in 1..(m - n) : prover.successors[i] = c[n + i]
        BY <1>1, <2>1, <3>2, Zenon DEF ProverOK
      <3>6. prover.pc \in {"idle", "predecessor", "successors", "proved"}
        BY <1>1, Zenon DEF ProverOK
      <3> QED BY <1>2, <2>1, <2>3, <3>3, <3>4, <3>5, <3>6, Zenon DEF ProverOK
    <2> QED BY <2>2, <2>3, Zenon
  <1>7. VerifierOK'
    BY <1>1, <1>2, <1>5 DEF VerifierOK
  <1> QED BY <1>6, <1>7, Zenon

\* The guard of the cutover another transaction has passed lets it pass still:
\* who changes what it looks at holds its lock.
LEMMA CommitGuard ==
  ASSUME IInv, NEW x \in Txs, Commit(x), NEW y \in Txs, y # x
  PROVE  GuardOK(y)'
  <1>1. scene' = scene /\ Same(y) /\ status[x] = "running" /\ next[x] > Len(Program(x))
    BY CommitEnds, Zenon
  <1>2. /\ Guarded(y)' = Guarded(y) /\ (\A row, mode : Holds(y, row, mode)' = Holds(y, row, mode))
        /\ Job' = Job /\ Queries' = Queries /\ Profile' = Profile
    BY <1>1, TxFrame, SceneFrame, Zenon
  <1>3. SUFFICES ASSUME Guarded(y) PROVE Holds(y, CutoverLock, Update)' /\ Passes(y)'
    BY <1>2, Zenon DEF GuardOK
  <1>4. Holds(y, CutoverLock, Update) /\ Passes(y)
    BY <1>3, Zenon DEF IInv, GuardOK
  <1>5. kind[x] \notin {"reserve", "callback", "activate"}
    BY <1>1, <1>4, CommitFacts, Exclusive, Zenon
  <1>6. marker' = marker /\ legacy' = legacy
    <2>1. marker \in BOOLEAN
      BY Zenon DEF IInv, TypeOK
    <2> QED BY <1>5, <2>1, CommitRows, Zenon
  <1>7. \A q \in Queries : query'[q] = "RESERVED" => query[q] = "RESERVED"
    <2>1. query \in [Queries -> {"NONE", "RESERVED", "COMPLETED", "FAILED"}]
      BY Zenon DEF IInv, TypeOK
    <2>2. query' = query \/ query' = [query EXCEPT ![Job[x].query] = TargetStatus(kind[x])]
      BY <1>5, CommitRows, Zenon
    <2>3. TargetStatus(kind[x]) # "RESERVED"
      BY Zenon DEF TargetStatus
    <2> QED BY <2>1, <2>2, <2>3, Zenon
  <1>8. LegacyState' => LegacyState
    <2>1. \A q : Owner(q)' = Owner(q)
      BY <1>1, SceneFrame, Zenon
    <2> QED BY <1>2, <1>6, <1>7, <2>1, Zenon DEF LegacyState
  <1>9. Passes(y)'
    <2>1. kind'[y] = kind[y]
      BY <1>1, Zenon DEF Same
    <2>2. \A t : Ordinal(t)' = Ordinal(t)
      BY <1>1, SceneFrame, Zenon
    <2>3. kind[y] \in {"reserve", "callback", "activate"}
      BY <1>3, Zenon DEF Guarded
    <2>4. PICK t : t = Job[y].task
      BY Zenon
    <2>5. CASE kind[y] = "activate"
      <3>1. ~LegacyState
        BY <1>4, <2>5, Zenon DEF Passes
      <3>2. ~LegacyState'
        BY <1>8, <3>1, Zenon
      <3> QED BY <2>1, <2>5, <3>2, Zenon DEF Passes
    <2>6. CASE kind[y] = "callback" /\ Ordinal(t)
      <3>1. marker \/ ~LegacyState
        BY <1>4, <2>4, <2>6, Zenon DEF Passes
      <3>2. marker' \/ ~LegacyState'
        BY <1>6, <1>8, <3>1, Zenon
      <3> QED BY <1>2, <2>1, <2>2, <2>4, <2>6, <3>2, Zenon DEF Passes
    <2>7. CASE kind[y] = "reserve"
      <3>1. marker => Ordinal(t)
        BY <1>4, <2>4, <2>7, Zenon DEF Passes
      <3>2. marker' => Ordinal(t)'
        BY <1>6, <2>2, <3>1, Zenon
      <3> QED BY <1>2, <2>1, <2>4, <2>7, <3>2, Zenon DEF Passes
    <2>8. CASE kind[y] = "callback" /\ ~Ordinal(t)
      <3>1. ~marker
        BY <1>4, <2>4, <2>8, Zenon DEF Passes
      <3> QED BY <1>2, <1>6, <2>1, <2>2, <2>4, <2>8, <3>1, Zenon DEF Passes
    <2> QED BY <2>3, <2>5, <2>6, <2>7, <2>8, Zenon
  <1> QED BY <1>2, <1>4, <1>9, Zenon

\* The claim of another transaction is not undone, nor is the task it moves
\* moved: who does that holds the row.
LEMMA CommitClaims ==
  ASSUME IInv, NEW x \in Txs, Commit(x), NEW y \in Txs, y # x
  PROVE  ClaimOK(y)' /\ MoveOK(y)'
  <1>1. scene' = scene /\ Same(y) /\ status[x] = "running" /\ next[x] > Len(Program(x))
    BY CommitEnds, Zenon
  <1>2. /\ Claimed(y)' = Claimed(y) /\ MovesTask(y)' = MovesTask(y) /\ kind'[y] = kind[y]
        /\ (\A row, mode : Holds(y, row, mode)' = Holds(y, row, mode))
        /\ Job' = Job
    BY <1>1, TxFrame, SceneFrame, Zenon DEF Same
  <1>3. PICK q, t, r, u : q = Job[y].query /\ t = Job[y].task /\ r = Job[x].query /\ u = Job[x].task
    BY Zenon
  <1>4. ClaimOK(y)'
    <2>1. SUFFICES ASSUME Claimed(y)
                   PROVE  /\ Holds(y, QueryRow(q), Update)'
                          /\ query'[q] = IF kind[y] = "reserve" THEN "NONE" ELSE "RESERVED"
      BY <1>2, <1>3, Zenon DEF ClaimOK, QueryRow, Update
    <2>2. Holds(y, QueryRow(q), Update) /\ query[q] = IF kind[y] = "reserve" THEN "NONE" ELSE "RESERVED"
      BY <1>3, <2>1, Zenon DEF IInv, ClaimOK
    <2>3. query'[q] = query[q]
      <3>1. CASE kind[x] = "reserve" \/ Settlement(kind[x])
        <4>1. Holds(x, QueryRow(r), Update)
          BY <1>1, <1>3, <3>1, CommitFacts, Zenon
        <4>2. q # r
          BY <2>2, <4>1, Exclusive, Zenon
        <4>3. \E v : query' = [query EXCEPT ![r] = v]
          BY <1>3, <3>1, CommitRows, Zenon
        <4> QED BY <4>2, <4>3
      <3>2. CASE ~(kind[x] = "reserve" \/ Settlement(kind[x]))
        <4>1. query' = query
          BY <3>2, CommitRows, Zenon
        <4> QED BY <4>1, Zenon
      <3> QED BY <3>1, <3>2, Zenon
    <2> QED BY <1>2, <2>2, <2>3, Zenon
  <1>5. MoveOK(y)'
    <2>1. SUFFICES ASSUME MovesTask(y) PROVE HoldsTask(y)'
      BY <1>2, Zenon DEF MoveOK
    <2>2. HoldsTask(y)
      BY <2>1, Zenon DEF IInv, MoveOK
    <2>3. taskState'[t] = taskState[t]
      <3>1. CASE kind[x] = "callback" \/ EndsIn(own[x], u) # {}
        <4>1. HoldsTask(x)
          BY <1>1, <1>3, <3>1, CommitFacts, Zenon
        <4>2. Holds(x, TaskRow(u), Update) \/ Holds(x, TaskRow(u), NoKeyUpdate)
          BY <1>3, <4>1, Zenon DEF HoldsTask
        <4>3. Holds(y, TaskRow(t), Update) \/ Holds(y, TaskRow(t), NoKeyUpdate)
          BY <1>3, <2>2, Zenon DEF HoldsTask
        <4>4. t # u
          BY <4>2, <4>3, Exclusive, Zenon
        <4>5. \E v : taskState' = [taskState EXCEPT ![u] = v]
          BY <1>3, <3>1, CommitRows, Zenon
        <4> QED BY <4>4, <4>5
      <3>2. CASE ~(kind[x] = "callback" \/ EndsIn(own[x], u) # {})
        <4>1. taskState' = taskState
          BY <1>3, <3>2, CommitRows, Zenon
        <4> QED BY <4>1, Zenon
      <3> QED BY <3>1, <3>2, Zenon
    <2> QED BY <1>2, <1>3, <2>2, <2>3, Zenon DEF HoldsTask, TaskRow, Update, NoKeyUpdate
  <1> QED BY <1>4, <1>5, Zenon

\* A reservation is of the task of its query.
LEMMA OwnerIs ==
  ASSUME scene \in Scenarios, NEW x \in Txs, Job[x].query \in Queries
  PROVE  Owner(Job[x].query) = Job[x].task
  <1>1. PICK q : q = Job[x].query
    BY Zenon
  <1>2. PICK y : y = CHOOSE z \in Txs : Job[z].query = q
    BY Zenon
  <1>3. y \in Txs /\ Job[y].query = q
    BY <1>1, <1>2, Zenon
  <1>4. Job[y].task = Job[x].task
    BY <1>1, <1>3, SceneFacts, Zenon
  <1> QED BY <1>1, <1>2, <1>4, Zenon DEF Owner

\* The cutover stays clean: who activates it has passed the guard, and so has
\* who reserves or approves after it.
LEMMA CommitCutover ==
  ASSUME IInv, NEW x \in Txs, Commit(x)
  PROVE  CutoverIsClean'
  <1>0. PICK t, q : t = Job[x].task /\ q = Job[x].query
    BY Zenon
  <1>1. /\ scene' = scene /\ status[x] = "running" /\ next[x] > Len(Program(x))
        /\ kind[x] \in {"reserve", "callback", "activate"} => Passes(x)
    BY CommitEnds, CommitFacts, Zenon
  <1>2. Queries' = Queries /\ (\A p : Owner(p)' = Owner(p)) /\ (\A u : Ordinal(u)' = Ordinal(u))
    BY <1>1, SceneFrame, Zenon
  <1>3. CutoverIsClean /\ scene \in Scenarios /\ marker \in BOOLEAN /\ query \in [Queries -> {"NONE", "RESERVED", "COMPLETED", "FAILED"}]
    BY Zenon DEF IInv, TypeOK
  <1>4. SUFFICES ASSUME marker'
                 PROVE  /\ legacy' = {}
                        /\ \A p \in Queries : query'[p] = "RESERVED" => Ordinal(Owner(p))
    BY <1>2, Zenon DEF CutoverIsClean
  <1>5. ASSUME ~LegacyState
        PROVE  legacy = {} /\ \A p \in Queries : query[p] = "RESERVED" => Ordinal(Owner(p))
    BY <1>5, Zenon DEF LegacyState, Ordinal
  <1>6. CASE kind[x] = "activate"
    <2>1. ~LegacyState
      BY <1>1, <1>6, Zenon DEF Passes
    <2>2. legacy' = legacy /\ query' = query
      BY <1>6, CommitRows, Zenon DEF Settlement
    <2> QED BY <1>5, <2>1, <2>2, Zenon
  <1>7. CASE kind[x] = "callback"
    <2>1. query' = query
      BY <1>7, CommitRows, Zenon DEF Settlement
    <2>2. Ordinal(t)
      <3>1. ~Ordinal(t) => ~marker
        BY <1>0, <1>1, <1>7, Zenon DEF Passes
      <3>2. marker' <=> (marker \/ Ordinal(t))
        BY <1>0, <1>7, CommitRows, Zenon
      <3> QED BY <1>4, <3>1, <3>2, Zenon
    <2>3. legacy' = legacy
      BY <1>0, <2>2, CommitRows, Zenon DEF Ordinal
    <2>4. marker \/ ~LegacyState
      BY <1>0, <1>1, <1>7, <2>2, Zenon DEF Passes
    <2> QED BY <1>3, <1>5, <2>1, <2>3, <2>4, Zenon DEF CutoverIsClean
  <1>8. CASE kind[x] = "reserve"
    <2>1. legacy' = legacy /\ query' = [query EXCEPT ![q] = "RESERVED"]
      BY <1>0, <1>8, CommitRows, Zenon
    <2>2. marker /\ Ordinal(t)
      <3>1. marker' = marker
        BY <1>3, <1>8, CommitRows, Zenon
      <3>2. marker => Ordinal(t)
        BY <1>0, <1>1, <1>8, Zenon DEF Passes
      <3> QED BY <1>4, <3>1, <3>2, Zenon
    <2>3. Owner(q) = t
      BY <1>0, <1>1, <1>3, <1>8, CommitFacts, OwnerIs, Zenon
    <2>4. legacy = {} /\ \A p \in Queries : query[p] = "RESERVED" => Ordinal(Owner(p))
      BY <1>3, <2>2, Zenon DEF CutoverIsClean
    <2>5. \A p \in Queries : p = q \/ query'[p] = query[p]
      BY <1>3, <2>1, Zenon
    <2> QED BY <2>1, <2>2, <2>3, <2>4, <2>5, Zenon
  <1>9. CASE kind[x] \notin {"reserve", "callback", "activate"}
    <2>1. marker' = marker /\ legacy' = legacy
      BY <1>3, <1>9, CommitRows, Zenon
    <2>2. query' = query \/ query' = [query EXCEPT ![q] = TargetStatus(kind[x])]
      BY <1>0, <1>9, CommitRows, Zenon
    <2>3. TargetStatus(kind[x]) # "RESERVED"
      BY Zenon DEF TargetStatus
    <2>4. \A p \in Queries : query'[p] = "RESERVED" => query[p] = "RESERVED"
      BY <1>3, <2>2, <2>3, Zenon
    <2>5. legacy = {} /\ \A p \in Queries : query[p] = "RESERVED" => Ordinal(Owner(p))
      BY <1>3, <1>4, <2>1, Zenon DEF CutoverIsClean
    <2> QED BY <2>1, <2>4, <2>5, Zenon
  <1> QED BY <1>6, <1>7, <1>8, <1>9, Zenon

\* The terminal event and the receipt of every query.
LEMMA CommitQueries ==
  ASSUME IInv, NEW x \in Txs, Commit(x), NEW p \in Queries
  PROVE  QueryOK(p)'
  <1>0. PICK q, t, es, fs, gs : /\ q = Job[x].query /\ t = Job[x].task
                                /\ es = chain /\ fs = own[x] /\ gs = chain'
    BY Zenon
  <1>1. /\ es \in Seq(Event) /\ fs \in Seq(Event) /\ EventsOK(x) /\ QueryOK(p) /\ DOMAIN receipt = Queries
        /\ query \in [Queries -> {"NONE", "RESERVED", "COMPLETED", "FAILED"}]
    BY <1>0, Zenon DEF IInv, TypeOK
  <1>2. scene' = scene /\ gs = es \o fs /\ status[x] = "running" /\ next[x] > Len(Program(x))
    BY <1>0, CommitEnds, Zenon
  <1>3. Queries' = Queries /\ Start' = Start
    BY <1>2, SceneFrame, Zenon
  <1>4. Joins(gs, es, fs, t, p)
    BY <1>1, <1>2, EventsOfCat, Zenon
  <1>5. /\ Shifts(TerminalsIn(gs, p), TerminalsIn(es, p), TerminalsIn(fs, p), es)
        /\ Len(es) \in Nat /\ Len(fs) \in Nat /\ Len(gs) = Len(es) + Len(fs)
        /\ \A i \in 1..Len(es) : gs[i] = es[i]
        /\ \A i \in 1..Len(fs) : gs[Len(es) + i] = fs[i]
    BY <1>4, Zenon DEF Joins, IsCat
  <1>6. \A i \in 1..Len(fs) : fs[i].body.query = q
    BY <1>0, <1>1, Zenon DEF EventsOK
  <1>7. SUFFICES ASSUME Start[p].query \in {"NONE", "RESERVED"}
                 PROVE  IF query'[p] \in {"COMPLETED", "FAILED"}
                        THEN \E i \in 1..Len(gs) : TerminalsIn(gs, p) = {i} /\ receipt'[p] = <<HeadAfter(gs[i])>>
                        ELSE TerminalsIn(gs, p) = {}
    BY <1>0, <1>3, Zenon DEF QueryOK
  <1>8. /\ query[p] \in {"COMPLETED", "FAILED"} =>
              \E i \in 1..Len(es) : TerminalsIn(es, p) = {i} /\ receipt[p] = <<HeadAfter(es[i])>>
        /\ query[p] \notin {"COMPLETED", "FAILED"} => TerminalsIn(es, p) = {}
    BY <1>0, <1>1, <1>7, Zenon DEF QueryOK
  <1>9. ASSUME TerminalsIn(fs, p) = {}, receipt'[p] = receipt[p],
               query'[p] \in {"COMPLETED", "FAILED"} <=> query[p] \in {"COMPLETED", "FAILED"}
        PROVE  IF query'[p] \in {"COMPLETED", "FAILED"}
               THEN \E i \in 1..Len(gs) : TerminalsIn(gs, p) = {i} /\ receipt'[p] = <<HeadAfter(gs[i])>>
               ELSE TerminalsIn(gs, p) = {}
    <2>1. TerminalsIn(gs, p) = TerminalsIn(es, p)
      BY <1>5, <1>9, Zenon DEF Shifts
    <2>2. CASE query[p] \in {"COMPLETED", "FAILED"}
      <3>1. PICK i \in 1..Len(es) : TerminalsIn(es, p) = {i} /\ receipt[p] = <<HeadAfter(es[i])>>
        BY <1>8, <2>2, Zenon
      <3>2. i \in 1..Len(gs) /\ gs[i] = es[i]
        BY <1>5
      <3> QED BY <1>9, <2>1, <2>2, <3>1, <3>2, Zenon
    <2>3. CASE query[p] \notin {"COMPLETED", "FAILED"}
      BY <1>8, <1>9, <2>1, <2>3, Zenon
    <2> QED BY <2>2, <2>3, Zenon
  <1>10. CASE Settlement(kind[x]) /\ p = q
    <2>1. PICK i \in 1..Len(fs) : TerminalsIn(fs, p) = {i} /\ receipt' = [receipt EXCEPT ![p] = <<HeadAfter(fs[i])>>]
      BY <1>0, <1>10, CommitReceipt, Zenon
    <2>2. query[p] = "RESERVED"
      BY <1>0, <1>2, <1>10, CommitFacts, Zenon
    <2>3. TerminalsIn(es, p) = {}
      BY <1>8, <2>2, Zenon
    <2>4. PICK j : j = Len(es) + i
      BY Zenon
    <2>5. j \in 1..Len(gs) /\ gs[j] = fs[i]
      BY <1>5, <2>4
    <2>6. TerminalsIn(gs, p) = {j}
      BY <1>5, <2>1, <2>3, <2>4, Zenon DEF Shifts
    <2>7. receipt'[p] = <<HeadAfter(gs[j])>>
      BY <1>1, <2>1, <2>5, Zenon
    <2>8. query'[p] \in {"COMPLETED", "FAILED"}
      <3>1. query' = [query EXCEPT ![p] = TargetStatus(kind[x])]
        BY <1>0, <1>10, CommitRows, Zenon
      <3> QED BY <1>1, <3>1, Zenon DEF TargetStatus
    <2> QED BY <2>5, <2>6, <2>7, <2>8, Zenon
  <1>11. CASE p # q
    <2>1. TerminalsIn(fs, p) = {}
      BY <1>6, <1>11, Zenon DEF TerminalsIn
    <2>2. receipt' = receipt \/ \E r : receipt' = [receipt EXCEPT ![q] = r]
      BY <1>0, CommitRows, CommitReceipt, Zenon
    <2>3. receipt'[p] = receipt[p]
      BY <1>1, <1>11, <2>2, Zenon
    <2>4. query' = query \/ \E r : query' = [query EXCEPT ![q] = r]
      BY <1>0, CommitRows, Zenon
    <2>5. query'[p] = query[p]
      BY <1>1, <1>11, <2>4, Zenon
    <2> QED BY <1>9, <2>1, <2>3, <2>5, Zenon
  <1>12. CASE ~Settlement(kind[x]) /\ p = q
    <2>1. TerminalsIn(fs, p) = {}
      <3>1. ~Terminated(x)
        BY <1>2, <1>12, CommitFacts, Zenon
      <3> QED BY <1>0, <1>1, <1>12, <3>1, Zenon DEF EventsOK
    <2>2. receipt' = receipt
      BY <1>12, CommitRows, Zenon
    <2>3. query'[p] \in {"COMPLETED", "FAILED"} <=> query[p] \in {"COMPLETED", "FAILED"}
      <3>1. CASE kind[x] = "reserve"
        <4>1. query[p] = "NONE" /\ query' = [query EXCEPT ![p] = "RESERVED"]
          BY <1>0, <1>2, <1>12, <3>1, CommitRows, CommitFacts, Zenon
        <4>2. query'[p] = "RESERVED"
          BY <1>1, <4>1, Zenon
        <4> QED BY <4>1, <4>2, Zenon
      <3>2. CASE kind[x] # "reserve"
        <4>1. query' = query
          BY <1>12, <3>2, CommitRows, Zenon
        <4> QED BY <4>1, Zenon
      <3> QED BY <3>1, <3>2, Zenon
    <2> QED BY <1>9, <2>1, <2>2, <2>3, Zenon
  <1> QED BY <1>10, <1>11, <1>12, Zenon

\* The end of every task.
LEMMA CommitTasks ==
  ASSUME IInv, NEW x \in Txs, Commit(x), NEW u \in Tasks
  PROVE  TaskOK(u)'
  <1>0. PICK t, es, fs, gs : t = Job[x].task /\ es = chain /\ fs = own[x] /\ gs = chain'
    BY Zenon
  <1>1. /\ es \in Seq(Event) /\ fs \in Seq(Event) /\ EventsOK(x) /\ TaskOK(u)
        /\ taskState \in [Tasks -> {"AWAITING_APPROVAL", "ACTIVE", "ARCHIVED"}]
    BY <1>0, Zenon DEF IInv, TypeOK
  <1>2. gs = es \o fs /\ status[x] = "running" /\ next[x] > Len(Program(x))
    BY <1>0, CommitEnds, Zenon
  <1>3. Joins(gs, es, fs, u, u)
    BY <1>1, <1>2, EventsOfCat, Zenon
  <1>4. /\ Shifts(EndsIn(gs, u), EndsIn(es, u), EndsIn(fs, u), es)
        /\ Len(es) \in Nat /\ Len(fs) \in Nat /\ Len(gs) = Len(es) + Len(fs)
    BY <1>3, Zenon DEF Joins, IsCat
  <1>5. \A i \in 1..Len(fs) : fs[i].body.task = t
    BY <1>0, <1>1, Zenon DEF EventsOK
  <1>6. /\ taskState[u] = "ARCHIVED" => \E i \in 1..Len(es) : EndsIn(es, u) = {i}
        /\ taskState[u] # "ARCHIVED" => EndsIn(es, u) = {}
    BY <1>0, <1>1, Zenon DEF TaskOK
  <1>7. SUFFICES /\ taskState'[u] = "ARCHIVED" => \E i \in 1..Len(gs) : EndsIn(gs, u) = {i}
                 /\ taskState'[u] # "ARCHIVED" => EndsIn(gs, u) = {}
    BY <1>0, Zenon DEF TaskOK
  <1>8. CASE EndsIn(fs, u) = {}
    <2>1. EndsIn(gs, u) = EndsIn(es, u)
      BY <1>4, <1>8, Zenon DEF Shifts
    <2>2. taskState'[u] = "ARCHIVED" <=> taskState[u] = "ARCHIVED"
      <3>1. CASE kind[x] = "callback"
        <4>1. taskState' = [taskState EXCEPT ![t] = "ACTIVE"]
          BY <1>0, <3>1, CommitRows, Zenon
        <4>2. taskState[t] # "ARCHIVED"
          BY <1>0, <1>2, <3>1, CommitFacts, Zenon DEF HoldsTask
        <4> QED BY <1>1, <4>1, <4>2, Zenon
      <3>2. CASE kind[x] # "callback"
        <4>1. CASE u = t
          <5>1. taskState' = taskState
            BY <1>0, <1>8, <3>2, <4>1, CommitRows, Zenon
          <5> QED BY <5>1, Zenon
        <4>2. CASE u # t
          <5>1. taskState' = taskState \/ \E v : taskState' = [taskState EXCEPT ![t] = v]
            BY <1>0, <3>2, CommitRows, Zenon
          <5> QED BY <1>1, <4>2, <5>1, Zenon
        <4> QED BY <4>1, <4>2, Zenon
      <3> QED BY <3>1, <3>2, Zenon
    <2>3. 1..Len(es) \subseteq 1..Len(gs)
      BY <1>4
    <2> QED BY <1>6, <2>1, <2>2, <2>3, Zenon
  <1>9. CASE EndsIn(fs, u) # {}
    <2>1. u = t
      BY <1>5, <1>9, Zenon DEF EndsIn
    <2>2. PICK i \in 1..Len(fs) : EndsIn(fs, u) = {i} /\ kind[x] # "callback"
      BY <1>0, <1>1, <1>9, <2>1, Zenon DEF EventsOK
    <2>3. taskState[u] # "ARCHIVED"
      BY <1>0, <1>2, <1>9, <2>1, CommitFacts, Zenon DEF HoldsTask
    <2>4. EndsIn(gs, u) = {Len(es) + i}
      BY <1>4, <1>6, <2>2, <2>3, Zenon DEF Shifts
    <2>5. Len(es) + i \in 1..Len(gs)
      BY <1>4
    <2>6. taskState'[u] = "ARCHIVED"
      <3>1. taskState' = [taskState EXCEPT ![u] = "ARCHIVED"]
        BY <1>0, <1>9, <2>1, <2>2, CommitRows, Zenon
      <3> QED BY <1>1, <3>1, Zenon
    <2> QED BY <2>4, <2>5, <2>6, Zenon
  <1> QED BY <1>8, <1>9, Zenon

\* A commit.
LEMMA CommitStep ==
  ASSUME IInv, NEW x \in Txs, Commit(x)
  PROVE  IInv'
  <1>1. /\ scene' = scene /\ kind'[x] = kind[x] /\ next'[x] = 1 /\ own'[x] = <<>> /\ locks'[x] = {} /\ ~archives'[x]
        /\ \A y \in Txs \ {x} : Same(y)
    BY CommitEnds, Zenon
  <1>2. Txs' = Txs /\ Queries' = Queries /\ Tasks' = Tasks
    BY <1>1, SceneFrame, Zenon
  <1>3. LocksHold'
    <2>1. \A y \in Txs : locks'[y] \subseteq locks[y]
      BY <1>1, Zenon DEF Same
    <2> QED BY <1>2, <2>1 DEF IInv, LocksHold
  <1>4. ASSUME NEW y \in Txs PROVE TxOK(y)' /\ GuardOK(y)' /\ ClaimOK(y)' /\ MoveOK(y)' /\ EventsOK(y)'
    <2>0. TxOK(y) /\ EventsOK(y)
      BY Zenon DEF IInv
    <2>1. CASE y = x
      BY <1>1, <2>0, <2>1, FreshTx, Zenon
    <2>2. CASE y # x
      <3>1. Same(y)
        BY <1>1, <2>2, Zenon
      <3>2. TxOK(y)' /\ EventsOK(y)'
        BY <1>1, <2>0, <3>1, TxFrame, Zenon
      <3> QED BY <2>2, <3>2, CommitGuard, CommitClaims, Zenon
    <2> QED BY <2>1, <2>2, Zenon
  <1>5. \A p \in Queries : QueryOK(p)'
    BY CommitQueries, Zenon
  <1>6. \A u \in Tasks : TaskOK(u)'
    BY CommitTasks, Zenon
  <1>7. TypeOK' /\ ChainOK' /\ ProverOK' /\ VerifierOK' /\ CutoverIsClean'
    BY CommitTypes, CommitChain, CommitReaders, CommitCutover, Zenon
  <1> QED BY <1>2, <1>3, <1>4, <1>5, <1>6, <1>7, Zenon DEF IInv

-----------------------------------------------------------------------------
(* The invariant. *)

\* At the start nothing runs, the chain has one event, and the rows are those
\* of the scenario.
LEMMA InitInv ==
  ASSUME Init
  PROVE  IInv
  <1>1. /\ scene \in Scenarios /\ kind = [x \in Txs |-> Job[x].kind] /\ status = [x \in Txs |-> "idle"]
        /\ next = [x \in Txs |-> 1] /\ archives = [x \in Txs |-> FALSE]
        /\ locks = [x \in Txs |-> {}] /\ own = [x \in Txs |-> <<>>]
        /\ prover = [pc |-> "idle"] /\ verifier = [pc |-> "idle"]
    BY Zenon DEF Init
  <1>2. PICK body, e : /\ body = [type |-> "TASK_CREATED", task |-> "none", query |-> "none"]
                       /\ e = NextEvent(GenesisHead, body)
    BY Zenon
  <1>3. body \in Body /\ body.type = "TASK_CREATED"
    BY <1>2, Zenon DEF Body, Name, EventType
  <1>4. GenesisHead.sequence = 0 /\ GenesisHead.sequence \in Nat /\ GenesisHead.hash \in Seq(Body)
    BY DEF GenesisHead, Checkpoint, GenesisHash
  <1>5. e \in Event /\ e.sequence = GenesisHead.sequence + 1 /\ e.body = body /\ verifyLink(GenesisHead.hash, e)
    BY <1>2, <1>3, <1>4, NextEventType, Zenon
  <1>6. chain = <<e>> /\ head = HeadOf(chain)
    BY <1>2, Zenon DEF Init
  <1>7. chain \in Seq(Event) /\ Len(chain) = 1 /\ chain[1] = e
    BY <1>5, <1>6
  <1>8. e.body.type # TaskEnd /\ ~IsTerminal(e)
    BY <1>3, <1>5, Zenon DEF TaskEnd, IsTerminal, TerminalTypes
  <1>9. \A q : TerminalsIn(chain, q) = {}
    BY <1>7, <1>8 DEF TerminalsIn
  <1>10. \A t : EndsIn(chain, t) = {}
    BY <1>7, <1>8 DEF EndsIn
  <1>11. /\ taskState = [t \in Tasks |-> IF \E x \in Txs : Job[x].kind = "callback" /\ Job[x].task = t
                                         THEN "AWAITING_APPROVAL" ELSE "ACTIVE"]
         /\ query = [q \in Queries |-> Start[q].query] /\ receipt = [q \in Queries |-> <<>>]
         /\ legacy = {t \in Tasks : Profile[t] = "v3" /\ taskState[t] = "ACTIVE"}
    BY Zenon DEF Init
  <1>12. marker = (\E t \in Tasks : Ordinal(t) /\ taskState[t] = "ACTIVE")
    BY Zenon DEF Init
  <1>13. /\ taskState \in [Tasks -> {"AWAITING_APPROVAL", "ACTIVE", "ARCHIVED"}]
         /\ \A t \in Tasks : taskState[t] # "ARCHIVED"
    BY <1>11, Zenon
  <1>14. /\ query \in [Queries -> {"NONE", "RESERVED", "COMPLETED", "FAILED"}]
         /\ \A q \in Queries : query[q] = Start[q].query
    BY <1>1, <1>11, SceneFacts, Zenon
  <1>15. TypeOK
    <2>1. DOMAIN kind = Txs /\ status \in [Txs -> {"idle", "running", "done", "refused"}]
      BY <1>1, Zenon
    <2>2. next \in [Txs -> Nat \ {0}] /\ archives \in [Txs -> BOOLEAN] /\ DOMAIN locks = Txs
      BY <1>1
    <2>3. own \in [Txs -> Seq(Event)]
      <3>1. <<>> \in Seq(Event)
        OBVIOUS
      <3> QED BY <1>1, <3>1, Zenon
    <2>4. DOMAIN receipt = Queries
      BY <1>11, Zenon
    <2>5. marker \in BOOLEAN
      BY <1>12, Zenon
    <2> QED BY <1>1, <1>7, <1>13, <1>14, <2>1, <2>2, <2>3, <2>4, <2>5, Zenon DEF TypeOK
  <1>16. \A x \in Txs : locks[x] = {} /\ own[x] = <<>> /\ next[x] = 1 /\ ~archives[x] /\ kind[x] = Job[x].kind
    BY <1>1, Zenon
  <1>17. LocksHold
    BY <1>16, Zenon DEF LocksHold
  <1>18. ChainOK
    <2>1. Follows(GenesisHead, chain)
      BY <1>5, <1>7, SMTT(60) DEF Follows
    <2>2. \A h : Follows(h, <<>>)
      BY DEF Follows
    <2> QED BY <1>6, <1>16, <2>1, <2>2, Zenon DEF ChainOK
  <1>19. ProverOK /\ VerifierOK
    BY <1>1, Zenon DEF ProverOK, VerifierOK
  <1>20. ASSUME NEW x \in Txs PROVE TxOK(x) /\ GuardOK(x) /\ ClaimOK(x) /\ MoveOK(x) /\ EventsOK(x)
    <2>1. TxOK(x)
      BY <1>1, <1>16, SceneFacts, Zenon DEF TxOK
    <2>2. ~Guarded(x) /\ ~Claimed(x) /\ ~Terminated(x)
      BY <1>16 DEF Guarded, GuardAt, Claimed, Terminated
    <2>3. Len(own[x]) = 0
      BY <1>16
    <2>4. \A q : TerminalsIn(own[x], q) = {}
      BY <2>3 DEF TerminalsIn
    <2>5. \A t : EndsIn(own[x], t) = {}
      BY <2>3, SMTT(60) DEF EndsIn
    <2>6. ~MovesTask(x)
      BY <1>16, <2>5, SMTT(60) DEF MovesTask
    <2>7. EventsOK(x)
      BY <2>2, <2>3, <2>4, <2>5 DEF EventsOK
    <2> QED BY <2>1, <2>2, <2>6, <2>7, Zenon DEF GuardOK, ClaimOK, MoveOK
  <1>21. \A q \in Queries : QueryOK(q)
    <2>1. ASSUME NEW q \in Queries PROVE QueryOK(q)
      <3>1. Start[q].query \in {"NONE", "RESERVED"} => query[q] \notin {"COMPLETED", "FAILED"}
        BY <1>14, Zenon
      <3> QED BY <1>9, <3>1, Zenon DEF QueryOK
    <2> QED BY <2>1, Zenon
  <1>22. \A t \in Tasks : TaskOK(t)
    BY <1>10, <1>13, Zenon DEF TaskOK
  <1>23. CutoverIsClean
    <2>1. SUFFICES ASSUME marker
                   PROVE  legacy = {} /\ \A q \in Queries : query[q] = "RESERVED" => Ordinal(Owner(q))
      BY Zenon DEF CutoverIsClean
    <2>2. PICK s : s = scene
      BY Zenon
    <2>3. PICK approved, ordinal :
            approved = Approved(s) /\ ordinal = OrdinalOf(s)
      BY Zenon
    <2>4. \A t \in Tasks : taskState[t] = "ACTIVE" <=> t \in approved
      BY <1>11, <2>2, <2>3, Zenon DEF Tasks, Txs, Job, Approved
    <2>5. \A t \in Tasks : Ordinal(t) <=> t \in ordinal
      BY <2>2, <2>3, Zenon DEF Tasks, Txs, Job, Ordinal, Profile, OrdinalOf
    <2>6. approved \cap ordinal # {}
      BY <1>12, <2>1, <2>4, <2>5, Zenon
    <2>7. /\ \A t \in approved : s.profile[t] # "v3"
          /\ \A q \in DOMAIN s.start : s.start[q].query = "RESERVED" =>
                \E x \in DOMAIN s.jobs : s.jobs[x].query = q /\ s.jobs[x].task \in ordinal
      <3>1. s \in Scenarios
        BY <1>1, <2>2, Zenon
      <3> QED BY <2>3, <2>6, <3>1, SceneProfiles, Zenon
    <2>8. legacy = {}
      BY <1>11, <2>2, <2>4, <2>7 DEF Profile
    <2>9. ASSUME NEW q \in Queries, query[q] = "RESERVED" PROVE Ordinal(Owner(q))
      <3>1. PICK x \in Txs : Job[x].query = q /\ Job[x].task \in ordinal
        BY <1>14, <2>2, <2>7, <2>9, SMTT(60) DEF Queries, Start, Txs, Job
      <3>2. Owner(q) = Job[x].task
        BY <1>1, <3>1, OwnerIs, Zenon
      <3>3. Job[x].task \in Tasks
        BY <1>1, SceneFacts, Zenon
      <3> QED BY <2>5, <3>1, <3>2, <3>3, Zenon
    <2> QED BY <2>8, <2>9, Zenon
  <1> QED BY <1>15, <1>17, <1>18, <1>19, <1>20, <1>21, <1>22, <1>23, Zenon DEF IInv

\* Every step keeps the invariant.
LEMMA NextInv ==
  ASSUME IInv, [Next]_vars
  PROVE  IInv'
  <1>1. ASSUME NEW x \in Txs, Begin(x) \/ AnswerLost(x) PROVE IInv'
    BY <1>1, BeginStep, Zenon
  <1>2. ASSUME NEW x \in Txs, Statement(x) PROVE IInv'
    BY <1>2, StatementStep, Zenon
  <1>3. ASSUME NEW x \in Txs, SkipArchive(x) PROVE IInv'
    BY <1>3, SkipArchiveStep, Zenon
  <1>4. ASSUME NEW x \in Txs, Refuse(x) PROVE IInv'
    <2>1. Ended(x, "refused", kind[x]) /\ scene' = scene /\ UNCHANGED <<rowVars, prover, verifier>>
      BY <1>4, Zenon DEF Refuse
    <2> QED BY <2>1, EndedStep, Zenon
  <1>5. ASSUME NEW x \in Txs, Replay(x) PROVE IInv'
    <2>1. Ended(x, "done", kind[x]) /\ scene' = scene /\ UNCHANGED <<rowVars, prover, verifier>>
      BY <1>5, Zenon DEF Replay
    <2> QED BY <2>1, EndedStep, Zenon
  <1>6. ASSUME NEW x \in Txs, Commit(x) PROVE IInv'
    BY <1>6, CommitStep, Zenon
  <1>7. ASSUME NEW x \in Txs, DeadlockAbort(x) \/ ConnectionLost(x) PROVE IInv'
    <2>1. RolledBack(x) /\ scene' = scene /\ UNCHANGED <<rowVars, prover, verifier>>
      BY <1>7, Zenon DEF DeadlockAbort, ConnectionLost
    <2> QED BY <2>1, RolledBackStep, Zenon
  <1>8. ASSUME \/ ReadCheckpoint \/ ReadPredecessor \/ ReadSuccessors
               \/ VerifierReadsEvents \/ VerifierReadsHead
        PROVE  IInv'
    BY <1>8, ReaderStep, Zenon
  <1>9. ASSUME UNCHANGED vars PROVE IInv'
    <2>1. scene' = scene /\ UNCHANGED <<txVars, rowVars>> /\ chain' = chain /\ prover' = prover /\ verifier' = verifier
      BY <1>9, Zenon DEF vars, rowVars
    <2>2. ProverOK' /\ VerifierOK'
      BY <2>1, Zenon DEF IInv, ProverOK, VerifierOK
    <2> QED BY <2>1, <2>2, ReaderFrame, Zenon
  <1> QED BY <1>1, <1>2, <1>3, <1>4, <1>5, <1>6, <1>7, <1>8, <1>9, Zenon DEF Next, Finished

\* The inductive invariant of the transactions of the control store.
THEOREM TransactionsInvariant == Spec => []IInv
  <1>1. Init => IInv
    BY InitInv, Zenon
  <1>2. IInv /\ [Next]_vars => IInv'
    BY NextInv, Zenon
  <1> QED BY <1>1, <1>2, PTL DEF Spec

\* The committed audit events are one hash chain, and the head row is its last
\* event, whatever transactions interleave.
THEOREM CommittedChainVerifies == Spec => []ChainVerifies
  <1>1. IInv => ChainVerifies
    BY FollowsVerifies, Zenon DEF IInv, TypeOK, ChainOK, ChainVerifies
  <1> QED BY <1>1, TransactionsInvariant, PTL

\* A stretch of a chain that verifies continues from event to event, and each
\* event of it is linked to the one it names as the previous.
LEMMA StretchContinues ==
  ASSUME NEW es \in Seq(Event), Follows(GenesisHead, es), NEW n \in 1..Len(es), NEW m \in n..Len(es),
         NEW path, Len(path) = (m - n) + 1, \A i \in 1..((m - n) + 1) : path[i] = es[(n + i) - 1]
  PROVE  Continues(path)
  <1> SUFFICES ASSUME NEW i \in 2..Len(path)
               PROVE  /\ path[i].sequence = path[i - 1].sequence + 1
                      /\ verifyLink(path[i - 1].hash, path[i])
    BY Zenon DEF Continues
  <1>1. PICK k : k = (n + i) - 1
    BY Zenon
  <1>2. k \in 1..Len(es) /\ k - 1 \in 1..Len(es) /\ k # 1
    BY <1>1
  <1>3. path[i] = es[k] /\ path[i - 1] = es[k - 1]
    <2>1. i \in 1..((m - n) + 1) /\ i - 1 \in 1..((m - n) + 1) /\ (n + (i - 1)) - 1 = k - 1
      BY <1>1
    <2> QED BY <1>1, <2>1, Zenon
  <1>4. es[k].sequence = k /\ es[k - 1].sequence = k - 1
    BY <1>2, FollowsVerifies, Zenon
  <1>5. verifyLink(es[k - 1].hash, es[k])
    BY <1>2, Zenon DEF Follows
  <1>6. (k - 1) + 1 = k
    BY <1>1
  <1> QED BY <1>3, <1>4, <1>5, <1>6, Zenon

\* What a reader put together while others committed verifies.
LEMMA ProofVerifies ==
  ASSUME chain \in Seq(Event), Follows(GenesisHead, chain), ProverOK
  PROVE  ProofsVerify
  <1> SUFFICES ASSUME prover.pc = "proved" PROVE VerifyInclusion(prover)
    BY Zenon DEF ProofsVerify
  <1>1. PICK n, m : n = prover.terminal.sequence /\ m = prover.checkpoint.sequence
    BY Zenon
  <1>2. /\ n \in 1..m /\ m \in 1..Len(chain) /\ prover.terminal = chain[n]
        /\ prover.checkpoint = HeadAfter(chain[m])
        /\ prover.predecessor = IF n > 1 THEN <<chain[n - 1]>> ELSE <<>>
        /\ prover.successors \in Seq(Event) /\ Len(prover.successors) = m - n
        /\ \A i \in 1..(m - n) : prover.successors[i] = chain[n + i]
    BY <1>1, Zenon DEF ProverOK
  <1>3. \A i \in 1..Len(chain) : chain[i] \in Event /\ chain[i].sequence = i
    BY FollowsVerifies, SMTT(60)
  <1>4. n \in 1..Len(chain) /\ m \in n..Len(chain)
    BY <1>2
  <1>5. PICK path : path = <<prover.terminal>> \o prover.successors
    BY Zenon
  <1>6. prover.terminal \in Event
    BY <1>2, <1>3, <1>4, Zenon
  <1>7. Len(path) = (m - n) + 1 /\ path \in Seq(Event)
    <2>1. <<prover.terminal>> \in Seq(Event) /\ Len(<<prover.terminal>>) = 1
      BY <1>6
    <2>2. PICK a \in Seq(Event), b \in Seq(Event) : a = <<prover.terminal>> /\ b = prover.successors
      BY <1>2, <2>1, Zenon
    <2>3. a \o b \in Seq(Event) /\ Len(a \o b) = Len(a) + Len(b)
      BY CatSeq, Zenon
    <2>4. path = a \o b /\ Len(a) = 1 /\ Len(b) = m - n
      BY <1>2, <1>5, <2>1, <2>2, Zenon
    <2> QED BY <1>2, <2>3, <2>4, SMTT(60)
  <1>8. ASSUME NEW i \in 1..((m - n) + 1) PROVE path[i] = chain[(n + i) - 1]
    <2>1. CASE i = 1
      BY <1>2, <1>5, <1>6, <2>1, SMTT(60)
    <2>2. CASE i # 1
      <3>1. i - 1 \in 1..(m - n) /\ n + (i - 1) = (n + i) - 1
        BY <1>2, <2>2, SMTT(60)
      <3>2. path[i] = prover.successors[i - 1]
        BY <1>2, <1>5, <1>6, <3>1
      <3> QED BY <1>2, <3>1, <3>2, Zenon
    <2> QED BY <2>1, <2>2, Zenon
  <1>9. Continues(path)
    BY <1>4, <1>7, <1>8, StretchContinues, Zenon
  <1>10. prover.checkpoint = HeadOf(path)
    <2>1. path # <<>> /\ Len(path) \in 1..((m - n) + 1) /\ (n + Len(path)) - 1 = m
      BY <1>2, <1>7, EmptySeq
    <2> QED BY <1>2, <1>8, <2>1, Zenon DEF HeadOf
  <1>11. \A i \in 1..Len(chain) : verifyLink(chain[i].previous, chain[i])
    <2>1. ASSUME NEW i \in 1..Len(chain) PROVE verifyLink(chain[i].previous, chain[i])
      BY Zenon DEF Follows, verifyLink
    <2> QED BY <2>1, Zenon
  <1>14. /\ prover.terminal.sequence > 0 /\ verifyLink(prover.terminal.previous, prover.terminal)
         /\ prover.checkpoint.sequence >= prover.terminal.sequence
         /\ Continues(<<prover.terminal>> \o prover.successors)
         /\ prover.checkpoint = HeadOf(<<prover.terminal>> \o prover.successors)
    <2>1. prover.terminal.sequence > 0 /\ prover.checkpoint.sequence >= prover.terminal.sequence
      <3>1. n > 0 /\ m >= n
        BY <1>4
      <3> QED BY <1>1, <3>1, Zenon
    <2>2. verifyLink(prover.terminal.previous, prover.terminal)
      BY <1>2, <1>4, <1>11, Zenon
    <2> QED BY <1>5, <1>9, <1>10, <2>1, <2>2, ZenonT(60)
  <1>12. CASE n = 1
    <2>1. prover.predecessor = <<>> /\ prover.terminal.sequence = 1
      <3>1. ~(n > 1)
        BY <1>12, SMTT(60)
      <3> QED BY <1>1, <1>2, <1>12, <3>1, Zenon
    <2>2. verifyLink(GenesisHash, chain[1])
      BY <1>4, FollowsVerifies, EmptySeq DEF VerifyLinear
    <2>3. prover.terminal.previous = GenesisHash
      BY <1>2, <1>12, <2>2, Zenon DEF verifyLink
    <2> QED BY <1>14, <2>1, <2>3, Zenon DEF VerifyInclusion
  <1>13. CASE n > 1
    <2>1. PICK p : p = chain[n - 1]
      BY Zenon
    <2>2. n - 1 \in 1..Len(chain) /\ p.sequence = n - 1 /\ verifyLink(p.previous, p)
      BY <1>3, <1>4, <1>11, <1>13, <2>1, SMTT(60)
    <2>3. verifyLink(p.hash, chain[n])
      BY <1>4, <1>13, <2>1 DEF Follows
    <2>4. p.hash = prover.terminal.previous
      BY <1>2, <2>3, Zenon DEF verifyLink
    <2>5. prover.predecessor # <<>> /\ prover.predecessor[1] = p
      <3>1. prover.predecessor = <<p>>
        BY <1>2, <1>13, <2>1, Zenon
      <3> QED BY <3>1
    <2>6. p.sequence = prover.terminal.sequence - 1
      BY <1>1, <2>2, Zenon
    <2> QED BY <1>14, <2>2, <2>4, <2>5, <2>6, Zenon DEF VerifyInclusion
  <1>15. n = 1 \/ n > 1
    BY <1>4, SMTT(60)
  <1> QED BY <1>12, <1>13, <1>15, Zenon

\* An inclusion proof read while others commit verifies.
THEOREM InclusionProofsVerify == Spec => []ProofsVerify
  <1>1. IInv => ProofsVerify
    BY ProofVerifies, Zenon DEF IInv, TypeOK, ChainOK
  <1> QED BY <1>1, TransactionsInvariant, PTL

\* VerifyAuditChain raises a false alarm about the head only, and only after a
\* commit between its reads.
THEOREM FalseAlarmIsStaleHead == Spec => []AlarmIsStaleHead
  <1>1. IInv => AlarmIsStaleHead
    BY AlarmHolds, Zenon DEF IInv, TypeOK, ChainOK
  <1> QED BY <1>1, TransactionsInvariant, PTL

\* Once the cutover is activated nothing of V1 to V3 is committed, nor is a
\* query without ordinals in flight.
THEOREM CutoverStaysClean == Spec => []CutoverIsClean
  <1>1. IInv => CutoverIsClean
    BY Zenon DEF IInv
  <1> QED BY <1>1, TransactionsInvariant, PTL

Sets == INSTANCE FiniteSetTheorems

\* A set of one element, and one of none.
LEMMA Counts == Cardinality({}) = 0 /\ \A i : Cardinality({i}) = 1
  <1>1. \A S : Sets!Cardinality(S) = Cardinality(S)
    BY Zenon DEF Sets!Cardinality, Cardinality, Sets!IsFiniteSet, IsFiniteSet
  <1>2. Sets!Cardinality({}) = 0 /\ \A i : Sets!Cardinality({i}) = 1
    BY Sets!FS_EmptySet, Sets!FS_Singleton, Zenon
  <1> QED BY <1>1, <1>2, Zenon

\* A query has its terminal event once and a receipt that names it, and a task
\* ends at most once, through every rollback, deadlock and repeated delivery.
THEOREM TerminalOnce == Spec => []TerminalOnceWithReceipt
  <1>1. ASSUME IInv PROVE TerminalOnceWithReceipt
    <2>1. ASSUME NEW q \in Queries, Start[q].query \in {"NONE", "RESERVED"}
          PROVE  LET terminal == {i \in 1..Len(chain) : IsTerminal(chain[i]) /\ chain[i].body.query = q}
                 IN  /\ Cardinality(terminal) = (IF query[q] \in {"COMPLETED", "FAILED"} THEN 1 ELSE 0)
                     /\ \A i \in terminal : receipt[q] = <<HeadAfter(chain[i])>>
      <3>1. PICK terminal : terminal = {i \in 1..Len(chain) : IsTerminal(chain[i]) /\ chain[i].body.query = q}
        BY Zenon
      <3>2. terminal = TerminalsIn(chain, q)
        BY <3>1, Zenon DEF TerminalsIn
      <3>3. QueryOK(q)
        BY <1>1, Zenon DEF IInv
      <3>4. CASE query[q] \in {"COMPLETED", "FAILED"}
        <4>1. PICK i \in 1..Len(chain) : terminal = {i} /\ receipt[q] = <<HeadAfter(chain[i])>>
          BY <2>1, <3>2, <3>3, <3>4, Zenon DEF QueryOK
        <4>2. Cardinality(terminal) = 1
          BY <4>1, Counts, Zenon
        <4> QED BY <3>1, <3>4, <4>1, <4>2, Zenon
      <3>5. CASE query[q] \notin {"COMPLETED", "FAILED"}
        <4>1. terminal = {}
          BY <2>1, <3>2, <3>3, <3>5, Zenon DEF QueryOK
        <4>2. Cardinality(terminal) = 0
          BY <4>1, Counts, Zenon
        <4> QED BY <3>1, <3>5, <4>1, <4>2, Zenon
      <3> QED BY <3>4, <3>5, Zenon
    <2>2. ASSUME NEW t \in Tasks
          PROVE  Cardinality({i \in 1..Len(chain) : chain[i].body.type = "TASK_STATE_CHANGED"
                                                    /\ chain[i].body.task = t}) <= 1
      <3>1. PICK ends : ends = {i \in 1..Len(chain) : chain[i].body.type = "TASK_STATE_CHANGED"
                                                      /\ chain[i].body.task = t}
        BY Zenon
      <3>2. ends = EndsIn(chain, t)
        BY <3>1, Zenon DEF EndsIn, TaskEnd
      <3>3. ends = {} \/ \E i : ends = {i}
        BY <1>1, <3>2, Zenon DEF IInv, TaskOK
      <3>4. Cardinality(ends) = 0 \/ Cardinality(ends) = 1
        BY <3>3, Counts, Zenon
      <3>5. Cardinality(ends) <= 1
        BY <3>4
      <3> QED BY <3>1, <3>5, Zenon
    <2> QED BY <2>1, <2>2, Zenon DEF TerminalOnceWithReceipt
  <1> QED BY <1>1, TransactionsInvariant, PTL
=============================================================================
