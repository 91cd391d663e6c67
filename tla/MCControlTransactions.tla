----------------------- MODULE MCControlTransactions -----------------------
(* Scenarios of ControlTransactions for TLC. *)
EXTENDS ControlTransactions

Tx(k, t, q) == [kind |-> k, task |-> t, query |-> q]
AllV4 == [t \in {"t1", "t2"} |-> "v4"]
Reserved == [query |-> "RESERVED", artifact |-> "NONE"]

\* One task at its hard limit: its query is finalized while the request is
\* delivered again, the task is revoked and a child is created under it.
TaskAtLimit ==
    [jobs |-> <<Tx("finalize", "t1", "q1"), Tx("reserve", "t1", "q1"), Tx("transition", "t1", "none"),
                Tx("create", "t1", "none")>>,
     profile |-> AllV4, start |-> [q \in {"q1"} |-> Reserved], stores |-> [q \in {"q1"} |-> <<>>],
     auditors |-> {}, maxLost |-> 1]

\* The results of a task: one is promoted and purged while a hold is placed, and
\* another is being settled.
ResultsOfTask ==
    [jobs |-> <<Tx("finalize", "t1", "q1"), Tx("available", "t1", "q2"), Tx("purge", "t1", "q2"),
                Tx("hold", "t1", "none")>>,
     profile |-> AllV4, start |-> [q \in {"q1", "q2"} |->
                  IF q = "q1" THEN Reserved ELSE [query |-> "COMPLETED", artifact |-> "PENDING"]],
     stores |-> [q \in {"q1", "q2"} |-> <<>>], auditors |-> {}, maxLost |-> 0]

\* The key of a task's results is erased while one is promoted and one is
\* settled, and a gateway with a catalog of V1 to V3 tries to start.
KeyOfResults ==
    [ResultsOfTask EXCEPT !.jobs = <<Tx("finalize", "t1", "q1"), Tx("available", "t1", "q2"),
                                     Tx("erase", "t1", "none"), Tx("serve", "t1", "none")>>]

\* Two tasks and readers: one query is reserved and failed, another task is
\* approved and a view binding closed.
WithReaders ==
    [jobs |-> <<Tx("reserve", "t1", "q1"), Tx("fail", "t1", "q1"), Tx("callback", "t2", "none"),
                Tx("rebind", "t2", "none")>>,
     profile |-> AllV4, start |-> [q \in {"q1"} |-> [query |-> "NONE", artifact |-> "NONE"]],
     stores |-> [q \in {"q1"} |-> <<>>], auditors |-> {"prover", "verifier"}, maxLost |-> 0]

\* Two tasks of a family: their queries are finalized together, and what one
\* releases the other is influenced by (or, in V5, both have the same outcomes).
FamilyTogether ==
    [jobs |-> <<Tx("finalize", "t1", "q1"), Tx("finalize", "t2", "q2"), Tx("transition", "t1", "none"),
                Tx("append", "t1", "none")>>,
     profile |-> AllV4, start |-> [q \in {"q1", "q2"} |-> Reserved],
     stores |-> [q \in {"q1", "q2"} |-> IF q = "q1" THEN <<"c1", "c2">> ELSE <<"c2", "c1">>],
     auditors |-> {}, maxLost |-> 0]

\* A gateway with an ordinal catalog starts while a V3 task is approved and a
\* task with resources only runs a query.
Cutover ==
    [jobs |-> <<Tx("activate", "none", "none"), Tx("callback", "t1", "none"), Tx("reserve", "t2", "q2"),
                Tx("fail", "t2", "q2")>>,
     profile |-> [t \in {"none", "t1", "t2"} |-> IF t = "t1" THEN "v3" ELSE "none"],
     start |-> [q \in {"q2"} |-> [query |-> "NONE", artifact |-> "NONE"]],
     stores |-> [q \in {"q2"} |-> <<>>], auditors |-> {}, maxLost |-> 0]

\* A V3 family: a query is finalized while another task of the family is
\* approved and a third starts a query and fails it.
LegacyFamily ==
    [jobs |-> <<Tx("finalize", "t1", "q1"), Tx("callback", "t2", "none"), Tx("reserve", "t3", "q3"),
                Tx("fail", "t3", "q3")>>,
     profile |-> [t \in {"t1", "t2", "t3"} |-> "v3"],
     start |-> [q \in {"q1", "q3"} |-> IF q = "q1" THEN Reserved ELSE [query |-> "NONE", artifact |-> "NONE"]],
     stores |-> [q \in {"q1", "q3"} |-> <<>>], auditors |-> {}, maxLost |-> 0]

MCScenarios == {TaskAtLimit, ResultsOfTask, KeyOfResults, WithReaders, FamilyTogether, Cutover, LegacyFamily}
=============================================================================
