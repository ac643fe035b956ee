----------------------------- MODULE DecisionTxn -----------------------------
(***************************************************************************)
(* The transactions of ImageRepository.complete, fail and delete, statement *)
(* by statement, as PostgreSQL runs them at READ COMMITTED: a statement     *)
(* sees what is committed when it starts, an UPDATE or DELETE waits for the *)
(* writer of its row and then looks at the row again, the foreign key of    *)
(* similar_to_id locks the referenced row against deletion until commit.    *)
(* JobQueue takes each of them as one step; this module shows that, with    *)
(* the advisory lock, they look that way from outside.                      *)
(***************************************************************************)
EXTENDS Integers

CONSTANTS Images, Txns, Flawed, Unreadable, Similar, None

ASSUME TxnConstants ==
    /\ None \notin Images \cup Txns
    /\ Similar \in [Images -> SUBSET Images]
    /\ \A i, j \in Images : j \in Similar[i] => i \in Similar[j] /\ i # j

VARIABLES
    status,     \* committed status of the rows, "absent" and "deleted" for no row
    similarTo,  \* committed similar_to_id
    txn,        \* the open transactions, one per database connection
    advisory,   \* the transaction that holds DECISION_LOCK_KEY
    writer,     \* the transaction that has updated or deleted the row, uncommitted
    sharers     \* the transactions that hold FOR KEY SHARE on the row

tables  == <<status, similarTo>>
locks   == <<advisory, writer, sharers>>
txnVars == <<status, similarTo, txn, advisory, writer, sharers>>

\* What a transaction does next; every one of them can still roll back.
Txn == [op : {"none", "complete", "fail", "delete"}, img : Images \cup {None},
        pc : {"idle", "lock", "scan", "write", "fk", "setnull", "commit"},
        match : Images \cup {None}]
Idle == [op |-> "none", img |-> None, pc |-> "idle", match |-> None]

TxnInit ==
    /\ status = [i \in Images |-> "absent"]
    /\ similarTo = [i \in Images |-> None]
    /\ txn = [t \in Txns |-> Idle]
    /\ advisory = None
    /\ writer = [i \in Images |-> None]
    /\ sharers = [i \in Images |-> {}]

-----------------------------------------------------------------------------
Goto(t, pc) == txn' = [txn EXCEPT ![t].pc = pc]

\* Mutant: the advisory lock is taken for the session, not the transaction.
ReleaseKeepsAdvisory(t) ==
    /\ txn' = [txn EXCEPT ![t] = Idle]
    /\ writer' = [i \in Images |-> IF writer[i] = t THEN None ELSE writer[i]]
    /\ sharers' = [i \in Images |-> sharers[i] \ {t}]
    /\ UNCHANGED advisory

\* The end of a transaction releases all it holds.
Release(t) ==
    /\ txn' = [txn EXCEPT ![t] = Idle]
    /\ advisory' = IF advisory = t THEN None ELSE advisory
    /\ writer' = [i \in Images |-> IF writer[i] = t THEN None ELSE writer[i]]
    /\ sharers' = [i \in Images |-> sharers[i] \ {t}]

\* insertMany, and a claim of a row that nobody holds (SKIP LOCKED).
Insert(i) ==
    /\ status[i] = "absent"
    /\ \E s \in {"pending", "rejected"} : status' = [status EXCEPT ![i] = s]
    /\ UNCHANGED <<similarTo, txn, locks>>

ClaimRow(i) ==
    /\ status[i] = "pending" /\ writer[i] = None /\ sharers[i] = {}
    /\ status' = [status EXCEPT ![i] = "processing"]
    /\ UNCHANGED <<similarTo, txn, locks>>

FirstStep(op) == IF op = "complete" THEN "lock" ELSE "write"

Begin(t) ==
    /\ txn[t] = Idle
    /\ \E op \in {"complete", "fail", "delete"}, i \in Images :
        /\ status[i] # "absent"
        /\ txn' = [txn EXCEPT ![t] = [op |-> op, img |-> i, pc |-> FirstStep(op),
                                      match |-> None]]
    /\ UNCHANGED <<tables, locks>>

\* A lost connection, a statement timeout: the transaction never happened.
Rollback(t) ==
    /\ txn[t].pc # "idle"
    /\ Release(t)
    /\ UNCHANGED tables

-----------------------------------------------------------------------------
(* complete. *)

\* Mutant: no advisory lock.
LockSkipped(t) == txn[t].pc = "lock" /\ Goto(t, "scan") /\ UNCHANGED <<tables, locks>>

Lock(t) ==
    /\ txn[t].pc = "lock"
    /\ advisory = None
    /\ advisory' = t
    /\ Goto(t, "scan")
    /\ UNCHANGED <<tables, writer, sharers>>

Matches(i) == IF i \in Unreadable THEN {}
              ELSE {j \in Similar[i] : status[j] = "accepted"}

Scan(t) ==
    /\ txn[t].pc = "scan"
    /\ \E match \in (IF Matches(txn[t].img) = {} THEN {None} ELSE Matches(txn[t].img)) :
          txn' = [txn EXCEPT ![t].match = match, ![t].pc = "write"]
    /\ UNCHANGED <<tables, locks>>

Verdict(i, match) ==
    IF match # None \/ i \in Flawed \cup Unreadable THEN "rejected" ELSE "accepted"

\* UPDATE ... WHERE id = ? AND status = 'processing', of complete and of fail.
\* No row: the transaction commits without having changed anything.
Update(t) ==
    LET i == txn[t].img IN
    /\ txn[t].pc = "write" /\ txn[t].op \in {"complete", "fail"}
    /\ writer[i] = None
    /\ IF status[i] = "processing"
       THEN /\ writer' = [writer EXCEPT ![i] = t]
            /\ Goto(t, IF txn[t].match = None THEN "commit" ELSE "fk")
            /\ UNCHANGED <<advisory, sharers>>
       ELSE Release(t)
    /\ UNCHANGED tables

\* The row is locked by a transaction that is deleting it.
BeingDeleted(i) ==
    writer[i] # None /\ txn[writer[i]].op = "delete" /\ txn[writer[i]].img = i

\* Mutant: similar_to_id is a plain column.
NoForeignKey(t) == txn[t].pc = "fk" /\ Goto(t, "commit") /\ UNCHANGED <<tables, locks>>

\* The foreign key check of similar_to_id: waits for a delete of the match, fails
\* when the match is gone, keeps it from being deleted until commit otherwise.
ForeignKey(t) ==
    LET j == txn[t].match IN
    /\ txn[t].pc = "fk"
    /\ ~BeingDeleted(j)
    /\ IF status[j] = "deleted" THEN Release(t)
       ELSE /\ sharers' = [sharers EXCEPT ![j] = @ \cup {t}]
            /\ Goto(t, "commit")
            /\ UNCHANGED <<advisory, writer>>
    /\ UNCHANGED tables

CommitComplete(t) ==
    /\ txn[t].pc = "commit" /\ txn[t].op = "complete"
    /\ status' = [status EXCEPT ![txn[t].img] = Verdict(txn[t].img, txn[t].match)]
    /\ similarTo' = [similarTo EXCEPT ![txn[t].img] = txn[t].match]
    /\ Release(t)

\* Another attempt or none, which depends on attempts.
CommitFail(t) ==
    /\ txn[t].pc = "commit" /\ txn[t].op = "fail"
    /\ \E s \in {"failed", "pending"} : status' = [status EXCEPT ![txn[t].img] = s]
    /\ Release(t)
    /\ UNCHANGED similarTo

-----------------------------------------------------------------------------
(* delete. *)

DeleteRow(t) ==
    LET i == txn[t].img IN
    /\ txn[t].pc = "write" /\ txn[t].op = "delete"
    /\ writer[i] = None /\ sharers[i] = {}
    /\ IF status[i] # "deleted"
       THEN /\ writer' = [writer EXCEPT ![i] = t]
            /\ Goto(t, "setnull")
            /\ UNCHANGED <<advisory, sharers>>
       ELSE Release(t)
    /\ UNCHANGED tables

Referrers(i) == {k \in Images : similarTo[k] = i}

\* ON DELETE SET NULL updates the rows that refer to the deleted one.
SetNull(t) ==
    LET ks == Referrers(txn[t].img) IN
    /\ txn[t].pc = "setnull"
    /\ \A k \in ks : writer[k] = None
    /\ writer' = [k \in Images |-> IF k \in ks THEN t ELSE writer[k]]
    /\ Goto(t, "commit")
    /\ UNCHANGED <<tables, advisory, sharers>>

CommitDelete(t) ==
    LET i == txn[t].img IN
    /\ txn[t].pc = "commit" /\ txn[t].op = "delete"
    /\ status' = [status EXCEPT ![i] = "deleted"]
    /\ similarTo' = [k \in Images |->
          IF k = i \/ (writer[k] = t /\ similarTo[k] = i) THEN None ELSE similarTo[k]]
    /\ Release(t)

-----------------------------------------------------------------------------
Statement(t) ==
    \/ Lock(t) \/ Scan(t) \/ Update(t) \/ ForeignKey(t) \/ CommitComplete(t)
    \/ CommitFail(t) \/ DeleteRow(t) \/ SetNull(t) \/ CommitDelete(t)

TxnNext ==
    \/ \E i \in Images : Insert(i) \/ ClaimRow(i)
    \/ \E t \in Txns : Begin(t) \/ Statement(t) \/ Rollback(t)

\* The server runs the statements of open transactions; its lock queues are first
\* come first served, so a waiting one is not overtaken for ever.
TxnFairness == \A t \in Txns : SF_txnVars(Statement(t))

TxnSpec == TxnInit /\ [][TxnNext]_txnVars /\ TxnFairness

-----------------------------------------------------------------------------
\* Locks belong to transactions that are open, at the step that took them; at most
\* one decision is between its scan and its commit.
LocksHeld ==
    /\ txn \in [Txns -> Txn]
    /\ \A t \in Txns : txn[t].op = "complete" /\ txn[t].pc # "lock" <=> advisory = t
    /\ \A i \in Images : /\ writer[i] # None => txn[writer[i]].pc \in {"fk", "setnull", "commit"}
                         /\ sharers[i] \subseteq {t \in Txns : /\ txn[t].match = i
                                                               /\ txn[t].pc = "commit"}

\* Every decision, failure and deletion takes effect at once and on what holds at
\* that moment: concurrent transactions implement the atomic lifecycle.
Lifecycle == INSTANCE ImageLifecycle
    WITH phase <- [i \in Images |-> IF status[i] \in {"pending", "processing"}
                                    THEN "queued" ELSE status[i]],
         duplicateOf <- similarTo

TxnsImplementLifecycle == Lifecycle!LifecycleSpec

\* No deadlock between advisory, row and key locks: a transaction ends.
TxnsEnd == \A t \in Txns : txn[t].pc # "idle" ~> txn[t].pc = "idle"

=============================================================================
