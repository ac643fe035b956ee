--------------------------- MODULE DecisionTxnProofs ---------------------------
(* The transactions of complete, fail and delete hold their locks as they      *)
(* should, and with them look atomic: they implement ImageLifecycle, for any   *)
(* number of images and database connections.                                  *)
EXTENDS DecisionTxn, TLAPS

NoRow == {"absent", "deleted"}
RowStatus == {"pending", "processing", "accepted", "rejected", "failed"} \cup NoRow

TxnTypes ==
    /\ txn \in [Txns -> Txn]
    /\ status \in [Images -> RowStatus]
    /\ similarTo \in [Images -> Images \cup {None}]
    /\ advisory \in Txns \cup {None}
    /\ writer \in [Images -> Txns \cup {None}]
    /\ sharers \in [Images -> SUBSET Txns]
    /\ \A i \in Images : status[i] \in {"absent", "pending", "processing"} =>
                            similarTo[i] = None
    /\ \A i \in Images : writer[i] # None => status[i] # "absent"

\* What a transaction is about, by the statement it is at.
Shape(t) ==
    /\ txn[t].pc = "idle" => txn[t] = Idle
    /\ txn[t].pc # "idle" =>
          txn[t].img \in Images /\ txn[t].op # "none" /\ status[txn[t].img] # "absent"
    /\ txn[t].pc \in {"lock", "scan", "fk"} => txn[t].op = "complete"
    /\ txn[t].pc = "setnull" => txn[t].op = "delete"
    /\ txn[t].match # None => txn[t].op = "complete" /\ txn[t].pc \in {"write", "fk", "commit"}
    /\ txn[t].pc = "fk" => txn[t].match # None

\* The scan is still right when its transaction writes: no image has been accepted
\* since, and the match has at most been deleted.
ScanHolds(t) ==
    txn[t].op = "complete" /\ txn[t].pc \in {"write", "fk", "commit"} =>
        IF txn[t].match = None THEN Matches(txn[t].img) = {}
        ELSE /\ txn[t].match \in Similar[txn[t].img] /\ txn[t].img \notin Unreadable
             /\ status[txn[t].match] \in {"accepted", "deleted"}

\* The row is the transaction's, and so are, for a delete, the rows that refer to it.
OwnsRows(t) ==
    /\ txn[t].pc \in {"fk", "commit"} /\ txn[t].op # "delete" =>
          writer[txn[t].img] = t /\ status[txn[t].img] = "processing"
    /\ txn[t].pc \in {"setnull", "commit"} /\ txn[t].op = "delete" =>
          writer[txn[t].img] = t /\ status[txn[t].img] \notin NoRow /\ sharers[txn[t].img] = {}
    /\ txn[t].pc = "commit" /\ txn[t].match # None =>
          t \in sharers[txn[t].match] /\ status[txn[t].match] = "accepted"
    /\ txn[t].pc = "commit" /\ txn[t].op = "delete" =>
          \A k \in Images : similarTo[k] = txn[t].img => writer[k] = t

TxnInv == /\ TxnTypes /\ LocksHeld
          /\ \A t \in Txns : Shape(t) /\ ScanHolds(t) /\ OwnsRows(t)

-----------------------------------------------------------------------------
(* What the step of one transaction leaves to the others. *)

\* A step of t: the other transactions stay where they are and keep their locks.
StepOf(t) ==
    /\ \A u \in Txns \ {t} : txn'[u] = txn[u] /\ (advisory' = u <=> advisory = u)
    /\ \A i \in Images :
        /\ writer'[i] # writer[i] => writer[i] \in {None, t} /\ writer'[i] \in {None, t}
        /\ \A u \in Txns \ {t} : u \in sharers'[i] <=> u \in sharers[i]

Scanned(u)  == txn[u].op = "complete" /\ txn[u].pc \in {"write", "fk", "commit"}
Deleting(u) == txn[u].op = "delete" /\ txn[u].pc \in {"setnull", "commit"}

\* What u relies on: the rows it has written or locked, the images that are accepted
\* once it has scanned them, and, if it deletes a row, that nobody comes to refer to it.
Undisturbed(u) ==
    /\ \A i \in Images : writer[i] = u => status'[i] = status[i]
    /\ \A i \in Images : u \in sharers[i] /\ status[i] = "accepted" => status'[i] = "accepted"
    /\ \A i \in Images : status[i] \in {"accepted", "deleted"} =>
                             status'[i] \in {"accepted", "deleted"}
    /\ \A i \in Images : status[i] # "absent" => status'[i] # "absent"
    /\ Scanned(u) => \A i \in Images : status'[i] = "accepted" => status[i] = "accepted"
    /\ Deleting(u) => /\ sharers'[txn[u].img] \subseteq sharers[txn[u].img]
                      /\ \A k \in Images : similarTo'[k] = txn[u].img =>
                                              similarTo[k] = txn[u].img

LEMMA OthersKeep ==
    ASSUME TxnInv, NEW t \in Txns \cup {None}, StepOf(t), NEW u \in Txns \ {t}, Undisturbed(u)
    PROVE  Shape(u)' /\ ScanHolds(u)' /\ OwnsRows(u)'
<1> DEFINE i == txn[u].img
           j == txn[u].match
<1>1. /\ txn'[u] = txn[u] /\ txn[u] \in Txn
      /\ Shape(u) /\ ScanHolds(u) /\ OwnsRows(u)
    BY DEF TxnInv, LocksHeld, StepOf
<1>2. \A k \in Images : writer[k] = u => writer'[k] = u
    BY TxnConstants DEF StepOf
<1>3. Shape(u)'
    BY <1>1 DEF Shape, Undisturbed
<1>4. ScanHolds(u)'
    <2> SUFFICES ASSUME Scanned(u)
                 PROVE  IF j = None THEN Matches(i)' = {}
                        ELSE /\ j \in Similar[i] /\ i \notin Unreadable
                             /\ status'[j] \in {"accepted", "deleted"}
        BY <1>1 DEF ScanHolds, Scanned, Matches
    <2>1. i \in Images /\ Similar[i] \subseteq Images
        BY <1>1, TxnConstants DEF Shape, Scanned
    <2>2. \A k \in Images : status'[k] = "accepted" => status[k] = "accepted"
        BY DEF Undisturbed
    <2>3. CASE j = None
        BY <1>1, <2>1, <2>2, <2>3 DEF ScanHolds, Scanned, Matches
    <2>4. CASE j # None
        BY <1>1, <2>1, <2>4 DEF ScanHolds, Scanned, Undisturbed
    <2> QED BY <2>3, <2>4
<1>5. OwnsRows(u)'
    <2>1. ASSUME txn[u].pc \in {"fk", "commit"}, txn[u].op # "delete"
          PROVE  writer'[i] = u /\ status'[i] = "processing"
        BY <1>1, <1>2, <2>1 DEF OwnsRows, Shape, Undisturbed
    <2>2. ASSUME Deleting(u)
          PROVE  writer'[i] = u /\ status'[i] \notin NoRow /\ sharers'[i] = {}
        BY <1>1, <1>2, <2>2 DEF OwnsRows, Shape, Undisturbed, Deleting
    <2>3. ASSUME txn[u].pc = "commit", j # None
          PROVE  u \in sharers'[j] /\ status'[j] = "accepted"
        <3>1. j \in Images /\ u \in sharers[j] /\ status[j] = "accepted"
            BY <1>1, <2>3 DEF OwnsRows, Txn
        <3> QED BY <3>1 DEF StepOf, Undisturbed
    <2>4. ASSUME txn[u].pc = "commit", txn[u].op = "delete", NEW k \in Images, similarTo'[k] = i
          PROVE  writer'[k] = u
        BY <1>1, <1>2, <2>4 DEF OwnsRows, Undisturbed, Deleting
    <2> QED BY <1>1, <2>1, <2>2, <2>3, <2>4 DEF OwnsRows, Deleting
<1> QED BY <1>3, <1>4, <1>5

\* What a step of t has to establish for t itself.
OwnPart(t) ==
    /\ Shape(t) /\ ScanHolds(t) /\ OwnsRows(t)
    /\ txn[t].op = "complete" /\ txn[t].pc # "lock" <=> advisory = t
    /\ \A i \in Images : /\ writer[i] = t => txn[t].pc \in {"fk", "setnull", "commit"}
                         /\ t \in sharers[i] => txn[t].match = i /\ txn[t].pc = "commit"

LEMMA OwnPartHolds == TxnInv => \A t \in Txns : OwnPart(t)
BY TxnConstants DEF TxnInv, OwnPart, LocksHeld

LEMMA StepKeeps ==
    ASSUME TxnInv, TxnTypes', NEW t \in Txns, StepOf(t), OwnPart(t)',
           \A u \in Txns \ {t} : Undisturbed(u)
    PROVE  TxnInv'
<1>1. \A u \in Txns : Shape(u)' /\ ScanHolds(u)' /\ OwnsRows(u)'
    BY OthersKeep DEF OwnPart
<1>2. \A u \in Txns : (txn'[u].op = "complete" /\ txn'[u].pc # "lock") <=> advisory' = u
    BY DEF StepOf, OwnPart, TxnInv, LocksHeld
<1>3. ASSUME NEW i \in Images, writer'[i] # None
      PROVE  txn'[writer'[i]].pc \in {"fk", "setnull", "commit"}
    <2>1. CASE writer'[i] = t
        BY <2>1 DEF OwnPart
    <2>2. CASE writer'[i] # t
        <3>1. writer'[i] = writer[i] /\ writer[i] \in Txns \ {t}
            BY <1>3, <2>2 DEF StepOf, TxnInv, TxnTypes
        <3> QED BY <1>3, <3>1 DEF StepOf, TxnInv, LocksHeld
    <2> QED BY <2>1, <2>2
<1>4. ASSUME NEW i \in Images, NEW u \in sharers'[i]
      PROVE  u \in Txns /\ txn'[u].match = i /\ txn'[u].pc = "commit"
    <2>1. u \in Txns
        BY DEF TxnTypes
    <2>2. CASE u = t
        BY <2>2 DEF OwnPart
    <2>3. CASE u # t
        BY <2>1, <2>3 DEF StepOf, TxnInv, LocksHeld
    <2> QED BY <2>1, <2>2, <2>3
<1>5. LocksHeld'
    BY <1>2, <1>3, <1>4 DEF LocksHeld, TxnTypes
<1> QED BY <1>1, <1>5 DEF TxnInv

-----------------------------------------------------------------------------
(* Steps that change no row: statements before commit, rollbacks. *)

LEMMA TablesUndisturbed ==
    ASSUME TxnInv, UNCHANGED tables, NEW u \in Txns,
           Deleting(u) => sharers'[txn[u].img] \subseteq sharers[txn[u].img]
    PROVE  Undisturbed(u)
BY DEF Undisturbed, tables

LEMMA ReleaseStep ==
    ASSUME TxnInv, NEW t \in Txns, Release(t)
    PROVE  /\ txn' \in [Txns -> Txn] /\ advisory' \in Txns \cup {None}
           /\ writer' \in [Images -> Txns \cup {None}] /\ sharers' \in [Images -> SUBSET Txns]
           /\ \A i \in Images : /\ sharers'[i] \subseteq sharers[i]
                                /\ writer'[i] \in {writer[i], None}
           /\ StepOf(t) /\ OwnPart(t)'
<1>1. Idle \in Txn
    BY DEF Idle, Txn
<1>2. /\ txn' \in [Txns -> Txn] /\ advisory' \in Txns \cup {None}
      /\ writer' \in [Images -> Txns \cup {None}] /\ sharers' \in [Images -> SUBSET Txns]
      /\ \A i \in Images : /\ sharers'[i] \subseteq sharers[i]
                           /\ writer'[i] \in {writer[i], None}
    BY <1>1 DEF Release, TxnInv, TxnTypes
<1>3. StepOf(t)
    BY TxnConstants DEF Release, StepOf, TxnInv, TxnTypes
<1>4. OwnPart(t)'
    <2>1. txn'[t] = Idle
        BY DEF Release, TxnInv, TxnTypes
    <2>2. advisory' # t /\ \A i \in Images : writer'[i] # t /\ t \notin sharers'[i]
        BY TxnConstants DEF Release, TxnInv, TxnTypes
    <2> QED BY <2>1, <2>2 DEF Idle, OwnPart, Shape, ScanHolds, OwnsRows
<1> QED BY <1>2, <1>3, <1>4

LEMMA ReleasedStep ==
    ASSUME TxnInv, NEW t \in Txns, Release(t), UNCHANGED tables PROVE TxnInv'
<1>1. TxnTypes'
    BY ReleaseStep DEF TxnInv, TxnTypes, tables
<1>2. \A u \in Txns : Undisturbed(u)
    <2> SUFFICES ASSUME NEW u \in Txns PROVE Undisturbed(u)
        OBVIOUS
    <2>1. Deleting(u) => txn[u].img \in Images
        BY DEF TxnInv, Shape, Deleting
    <2> QED BY <2>1, ReleaseStep, TablesUndisturbed
<1> QED BY <1>1, <1>2, ReleaseStep, StepKeeps

LEMMA RowFreeStep ==
    ASSUME TxnInv, NEW t \in Txns, NEW x \in Txn, txn' = [txn EXCEPT ![t] = x],
           UNCHANGED <<status, similarTo, sharers>>, advisory' \in Txns \cup {None},
           writer' \in [Images -> Txns \cup {None}], StepOf(t), OwnPart(t)',
           \A i \in Images : writer'[i] # None => status[i] # "absent"
    PROVE  TxnInv'
<1>1. TxnTypes'
    BY DEF TxnInv, TxnTypes
<1>2. \A u \in Txns : Undisturbed(u)
    BY TablesUndisturbed DEF tables
<1> QED BY <1>1, <1>2, StepKeeps

LEMMA BeginStep ==
    ASSUME TxnInv, NEW t \in Txns, Begin(t) PROVE TxnInv'
<1> USE DEF TxnInv, TxnTypes
<1>1. PICK op \in {"complete", "fail", "delete"}, i \in Images :
          /\ status[i] # "absent"
          /\ txn' = [txn EXCEPT ![t] = [op |-> op, img |-> i, pc |-> FirstStep(op),
                                        match |-> None]]
    BY DEF Begin
<1> DEFINE x == [op |-> op, img |-> i, pc |-> FirstStep(op), match |-> None]
<1>2. x \in Txn /\ txn'[t] = x /\ txn' = [txn EXCEPT ![t] = x]
    BY <1>1 DEF Txn, FirstStep
<1>3. UNCHANGED <<status, similarTo, advisory, writer, sharers>> /\ txn[t] = Idle
    BY DEF Begin, tables, locks
<1>4. StepOf(t)
    BY <1>2, <1>3 DEF StepOf
<1>5. OwnPart(t)
    BY OwnPartHolds
<1>6. OwnPart(t)'
    BY <1>1, <1>2, <1>3, <1>5 DEF Idle, OwnPart, FirstStep, Shape, ScanHolds, OwnsRows
<1> QED BY <1>2, <1>3, <1>4, <1>6, RowFreeStep

LEMMA LockStep ==
    ASSUME TxnInv, NEW t \in Txns, Lock(t) PROVE TxnInv'
<1> USE DEF TxnInv, TxnTypes
<1> DEFINE x == [txn[t] EXCEPT !.pc = "scan"]
<1>1. x \in Txn /\ txn' = [txn EXCEPT ![t] = x] /\ txn'[t] = x
    BY DEF Lock, Goto, Txn
<1>2. UNCHANGED <<status, similarTo, writer, sharers>> /\ advisory = None /\ advisory' = t
    BY DEF Lock, tables
<1>3. StepOf(t)
    BY <1>1, <1>2, TxnConstants DEF StepOf
<1>4. OwnPart(t)
    BY OwnPartHolds
<1>5. txn[t].pc = "lock" /\ txn[t] \in Txn
    BY DEF Lock
<1>6. OwnPart(t)'
    BY <1>1, <1>2, <1>4, <1>5 DEF Txn, OwnPart, Shape, ScanHolds, OwnsRows
<1> QED BY <1>1, <1>2, <1>3, <1>6, RowFreeStep

LEMMA ScanStep ==
    ASSUME TxnInv, NEW t \in Txns, Scan(t) PROVE TxnInv'
<1> USE DEF TxnInv, TxnTypes
<1> DEFINE i == txn[t].img
<1>1. PICK match \in (IF Matches(i) = {} THEN {None} ELSE Matches(i)) :
          txn' = [txn EXCEPT ![t].match = match, ![t].pc = "write"]
    BY DEF Scan
<1> DEFINE x == [txn[t] EXCEPT !.match = match, !.pc = "write"]
<1>2. txn[t].pc = "scan" /\ txn[t] \in Txn /\ OwnPart(t)
    BY OwnPartHolds DEF Scan
<1>3. i \in Images /\ txn[t].op = "complete"
    BY <1>2 DEF Shape
<1>4. match \in Images \cup {None}
    BY <1>1, <1>3, TxnConstants DEF Matches
<1>5. x \in Txn /\ txn' = [txn EXCEPT ![t] = x] /\ txn'[t] = x
    BY <1>1, <1>2, <1>4 DEF Txn
<1>6. UNCHANGED <<status, similarTo, advisory, writer, sharers>>
    BY DEF Scan, tables, locks
<1>7. StepOf(t)
    BY <1>5, <1>6 DEF StepOf
<1>8. x.img = i /\ x.op = "complete" /\ x.pc = "write" /\ x.match = match
    BY <1>2, <1>3 DEF Txn
<1> HIDE DEF x
<1>9. ScanHolds(t)'
    <2>1. IF match = None THEN Matches(i) = {}
          ELSE match \in Similar[i] /\ i \notin Unreadable /\ status[match] = "accepted"
        BY <1>1, <1>3, TxnConstants DEF Matches
    <2> QED BY <1>5, <1>6, <1>8, <2>1 DEF ScanHolds, Matches
<1>10. OwnPart(t)'
    BY <1>2, <1>3, <1>5, <1>6, <1>8, <1>9 DEF OwnPart, Shape, OwnsRows
<1> QED BY <1>5, <1>6, <1>7, <1>10, RowFreeStep

LEMMA UpdateStep ==
    ASSUME TxnInv, NEW t \in Txns, Update(t) PROVE TxnInv'
<1> USE DEF TxnInv, TxnTypes
<1> DEFINE i == txn[t].img
<1>1. CASE Release(t)
    BY <1>1, ReleasedStep DEF Update
<1>2. CASE /\ status[i] = "processing"
           /\ writer' = [writer EXCEPT ![i] = t]
           /\ Goto(t, IF txn[t].match = None THEN "commit" ELSE "fk")
           /\ UNCHANGED <<advisory, sharers>>
    <2> DEFINE x == [txn[t] EXCEPT !.pc = IF txn[t].match = None THEN "commit" ELSE "fk"]
    <2>1. /\ txn[t].pc = "write" /\ txn[t].op \in {"complete", "fail"} /\ txn[t] \in Txn
          /\ OwnPart(t) /\ writer[i] = None
        BY OwnPartHolds DEF Update
    <2>2. i \in Images
        BY <2>1 DEF Shape
    <2>3. x \in Txn /\ txn' = [txn EXCEPT ![t] = x] /\ txn'[t] = x
        BY <1>2, <2>1 DEF Txn, Goto
    <2>4. /\ UNCHANGED <<status, similarTo, advisory, sharers>>
          /\ writer' \in [Images -> Txns \cup {None}]
          /\ \A k \in Images : writer'[k] = IF k = i THEN t ELSE writer[k]
        BY <1>2, <2>2 DEF Update, tables
    <2>5. StepOf(t)
        BY <2>1, <2>3, <2>4 DEF StepOf
    <2>6. /\ x.img = i /\ x.op = txn[t].op /\ x.match = txn[t].match
          /\ x.pc = IF txn[t].match = None THEN "commit" ELSE "fk"
        BY <2>1 DEF Txn
    <2> HIDE DEF x
    <2>7. Shape(t)' /\ ScanHolds(t)'
        BY <2>1, <2>2, <2>3, <2>4, <2>6 DEF OwnPart, Shape, ScanHolds, Matches
    <2>8. OwnsRows(t)'
        BY <1>2, <2>1, <2>2, <2>3, <2>4, <2>6 DEF OwnPart, Shape, OwnsRows
    <2>9. OwnPart(t)'
        BY <2>1, <2>3, <2>4, <2>6, <2>7, <2>8 DEF OwnPart
    <2>10. \A k \in Images : writer'[k] # None => status[k] # "absent"
        BY <1>2, <2>4
    <2> QED BY <2>3, <2>4, <2>5, <2>9, <2>10, RowFreeStep
<1> QED BY <1>1, <1>2 DEF Update

\* The foreign key waits for deleters, so none of them loses the row to a referrer.
LEMMA ForeignKeyStep ==
    ASSUME TxnInv, NEW t \in Txns, ForeignKey(t) PROVE TxnInv'
<1> USE DEF TxnInv, TxnTypes
<1> DEFINE j == txn[t].match
<1>1. CASE Release(t)
    BY <1>1, ReleasedStep DEF ForeignKey
<1>2. CASE /\ status[j] # "deleted"
           /\ sharers' = [sharers EXCEPT ![j] = @ \cup {t}]
           /\ Goto(t, "commit")
           /\ UNCHANGED <<advisory, writer>>
    <2> DEFINE x == [txn[t] EXCEPT !.pc = "commit"]
    <2>1. /\ txn[t].pc = "fk" /\ txn[t] \in Txn /\ OwnPart(t) /\ ~BeingDeleted(j)
        BY OwnPartHolds DEF ForeignKey
    <2>2. /\ j \in Images /\ txn[t].img \in Images /\ txn[t].op = "complete"
          /\ status[j] = "accepted"
        BY <1>2, <2>1 DEF OwnPart, Shape, ScanHolds, Txn
    <2>3. x \in Txn /\ txn' = [txn EXCEPT ![t] = x] /\ txn'[t] = x
        BY <1>2, <2>1 DEF Txn, Goto
    <2>4. /\ UNCHANGED <<status, similarTo, advisory, writer>>
          /\ sharers' \in [Images -> SUBSET Txns]
          /\ \A k \in Images : sharers'[k] = IF k = j THEN sharers[k] \cup {t} ELSE sharers[k]
        BY <1>2, <2>2 DEF ForeignKey, tables
    <2>5. StepOf(t)
        BY <2>3, <2>4 DEF StepOf
    <2>6. x.img = txn[t].img /\ x.op = "complete" /\ x.match = j /\ x.pc = "commit"
        BY <2>1, <2>2 DEF Txn
    <2> HIDE DEF x
    <2>7. Shape(t)' /\ ScanHolds(t)' /\ OwnsRows(t)'
        BY <2>1, <2>2, <2>3, <2>4, <2>6 DEF OwnPart, Shape, ScanHolds, OwnsRows, Matches
    <2>8. OwnPart(t)'
        BY <2>1, <2>2, <2>3, <2>4, <2>6, <2>7 DEF OwnPart
    <2>9. TxnTypes'
        BY <2>3, <2>4
    <2>10. ASSUME NEW u \in Txns PROVE Undisturbed(u)
        <3>1. ASSUME Deleting(u) PROVE txn[u].img # j /\ txn[u].img \in Images
            BY <2>1, <3>1, TxnConstants DEF Deleting, OwnsRows, Shape, BeingDeleted
        <3> QED BY <2>4, <3>1, TablesUndisturbed DEF tables
    <2> QED BY <2>5, <2>8, <2>9, <2>10, StepKeeps
<1> QED BY <1>1, <1>2 DEF ForeignKey

LEMMA DeleteRowStep ==
    ASSUME TxnInv, NEW t \in Txns, DeleteRow(t) PROVE TxnInv'
<1> USE DEF TxnInv, TxnTypes
<1> DEFINE i == txn[t].img
<1>1. CASE Release(t)
    BY <1>1, ReleasedStep DEF DeleteRow
<1>2. CASE /\ status[i] # "deleted"
           /\ writer' = [writer EXCEPT ![i] = t]
           /\ Goto(t, "setnull")
           /\ UNCHANGED <<advisory, sharers>>
    <2> DEFINE x == [txn[t] EXCEPT !.pc = "setnull"]
    <2>1. /\ txn[t].pc = "write" /\ txn[t].op = "delete" /\ txn[t] \in Txn
          /\ OwnPart(t) /\ writer[i] = None /\ sharers[i] = {}
        BY OwnPartHolds DEF DeleteRow
    <2>2. i \in Images /\ txn[t].match = None
        BY <2>1 DEF Shape
    <2>3. x \in Txn /\ txn' = [txn EXCEPT ![t] = x] /\ txn'[t] = x
        BY <1>2, <2>1 DEF Txn, Goto
    <2>4. /\ UNCHANGED <<status, similarTo, advisory, sharers>>
          /\ writer' \in [Images -> Txns \cup {None}]
          /\ \A k \in Images : writer'[k] = IF k = i THEN t ELSE writer[k]
        BY <1>2, <2>2 DEF DeleteRow, tables
    <2>5. StepOf(t)
        BY <2>1, <2>3, <2>4 DEF StepOf
    <2>6. x.img = i /\ x.op = "delete" /\ x.match = None /\ x.pc = "setnull"
        BY <2>1, <2>2 DEF Txn
    <2> HIDE DEF x
    <2>7. status[i] \notin NoRow
        BY <1>2, <2>1 DEF OwnPart, Shape, NoRow
    <2>8. OwnPart(t)'
        BY <2>1, <2>2, <2>3, <2>4, <2>6, <2>7 DEF OwnPart, Shape, ScanHolds, OwnsRows
    <2>9. \A k \in Images : writer'[k] # None => status[k] # "absent"
        BY <2>4, <2>7 DEF NoRow
    <2> QED BY <2>3, <2>4, <2>5, <2>8, <2>9, RowFreeStep
<1> QED BY <1>1, <1>2 DEF DeleteRow

LEMMA SetNullStep ==
    ASSUME TxnInv, NEW t \in Txns, SetNull(t) PROVE TxnInv'
<1> USE DEF TxnInv, TxnTypes
<1> DEFINE i == txn[t].img
           ks == Referrers(i)
           x == [txn[t] EXCEPT !.pc = "commit"]
<1>1. txn[t].pc = "setnull" /\ txn[t] \in Txn /\ OwnPart(t)
    BY OwnPartHolds DEF SetNull
<1>2. i \in Images /\ txn[t].match = None /\ txn[t].op = "delete"
    BY <1>1 DEF Shape
<1>3. x \in Txn /\ txn' = [txn EXCEPT ![t] = x] /\ txn'[t] = x
    BY <1>1 DEF SetNull, Txn, Goto
<1>4. /\ UNCHANGED <<status, similarTo, advisory, sharers>>
      /\ writer' \in [Images -> Txns \cup {None}]
      /\ \A k \in Images : writer'[k] = IF k \in ks THEN t ELSE writer[k]
      /\ \A k \in ks : writer[k] = None
    BY DEF SetNull, tables
<1>5. StepOf(t)
    BY <1>3, <1>4 DEF StepOf, Referrers
<1>6. x.img = i /\ x.op = "delete" /\ x.match = None /\ x.pc = "commit"
    BY <1>1, <1>2 DEF Txn
<1> HIDE DEF x
<1>7. OwnsRows(t)'
    <2>1. writer[i] = t /\ status[i] \notin NoRow /\ sharers[i] = {}
        BY <1>1, <1>2 DEF OwnPart, OwnsRows
    <2>2. writer'[i] = t /\ \A k \in Images : similarTo[k] = i => writer'[k] = t
        BY <1>2, <1>4, <2>1 DEF Referrers
    <2> QED BY <1>3, <1>4, <1>6, <2>1, <2>2 DEF OwnsRows
<1>8. OwnPart(t)'
    BY <1>1, <1>2, <1>3, <1>4, <1>6, <1>7 DEF OwnPart, Shape, ScanHolds
<1>9. \A k \in Images : writer'[k] # None => status[k] # "absent"
    BY <1>2, <1>4, TxnConstants DEF Referrers
<1> QED BY <1>3, <1>4, <1>5, <1>8, <1>9, RowFreeStep

LEMMA RollbackStep ==
    ASSUME TxnInv, NEW t \in Txns, Rollback(t) PROVE TxnInv'
BY ReleasedStep DEF Rollback

-----------------------------------------------------------------------------
(* Steps that change rows. *)

\* A commit changes the row its transaction has written, and no one else relies on it.
LEMMA CommitStep ==
    ASSUME TxnInv, NEW t \in Txns, txn[t].pc = "commit", Release(t),
           status' \in [Images -> RowStatus], similarTo' \in [Images -> Images \cup {None}],
           \A k \in Images \ {txn[t].img} : status'[k] = status[k],
           \/ /\ status'[txn[t].img] \in {"accepted", "rejected", "failed", "pending"}
              /\ txn[t].op \in {"complete", "fail"}
              /\ status'[txn[t].img] = "accepted" => txn[t].op = "complete"
              /\ \A k \in Images \ {txn[t].img} : similarTo'[k] = similarTo[k]
              /\ similarTo'[txn[t].img] = txn[t].match
              /\ txn[t].match # None => status'[txn[t].img] # "pending"
           \/ /\ status'[txn[t].img] = "deleted"
              /\ txn[t].op = "delete"
              /\ \A k \in Images : similarTo'[k] \in {similarTo[k], None}
    PROVE  TxnInv'
<1> DEFINE i == txn[t].img
<1>1. /\ i \in Images /\ writer[i] = t /\ txn[t] \in Txn /\ OwnPart(t)
      /\ txn[t].op = "delete" => sharers[i] = {} /\ status[i] \notin NoRow
      /\ txn[t].op # "delete" => status[i] = "processing"
    BY OwnPartHolds DEF TxnInv, TxnTypes, Shape, OwnsRows
<1>2. /\ \A k \in Images : status'[k] \in {"absent", "pending", "processing"} =>
                              similarTo'[k] = None
      /\ \A k \in Images : writer'[k] # None => status'[k] # "absent"
    BY <1>1, ReleaseStep DEF TxnInv, TxnTypes
<1>3. TxnTypes'
    BY <1>2, ReleaseStep DEF TxnTypes
<1>4. ASSUME NEW u \in Txns \ {t} PROVE Undisturbed(u)
    <2>1. \A k \in Images : writer[k] = u => status'[k] = status[k]
        BY <1>1
    <2>2. \A k \in Images : u \in sharers[k] /\ status[k] = "accepted" => status'[k] = "accepted"
        BY <1>1
    <2>3. /\ \A k \in Images : status[k] \in {"accepted", "deleted"} =>
                                  status'[k] \in {"accepted", "deleted"}
          /\ \A k \in Images : status[k] # "absent" => status'[k] # "absent"
        BY <1>1
    <2>4. ASSUME Scanned(u) PROVE \A k \in Images : status'[k] = "accepted" => status[k] = "accepted"
        <3>1. advisory = u /\ txn[t].op # "complete"
            BY <1>1, <2>4 DEF Scanned, TxnInv, LocksHeld, OwnPart
        <3> QED BY <3>1
    <2>5. ASSUME Deleting(u)
          PROVE  /\ sharers'[txn[u].img] \subseteq sharers[txn[u].img]
                 /\ \A k \in Images : similarTo'[k] = txn[u].img => similarTo[k] = txn[u].img
        <3>1. txn[u].img \in Images /\ sharers[txn[u].img] = {}
            BY <2>5 DEF Deleting, TxnInv, Shape, OwnsRows
        <3>2. txn[t].match # txn[u].img
            BY <1>1, <3>1, TxnConstants DEF OwnPart, OwnsRows
        <3> QED BY <3>1, <3>2, ReleaseStep, TxnConstants
    <2> QED BY <2>1, <2>2, <2>3, <2>4, <2>5 DEF Undisturbed
<1> QED BY <1>3, <1>4, ReleaseStep, StepKeeps

LEMMA CommitCompleteStep ==
    ASSUME TxnInv, NEW t \in Txns, CommitComplete(t) PROVE TxnInv'
<1> DEFINE i == txn[t].img
<1>1. /\ i \in Images /\ txn[t].match \in Images \cup {None} /\ txn[t].op = "complete"
      /\ txn[t].pc = "commit" /\ Release(t)
    BY DEF CommitComplete, TxnInv, LocksHeld, Shape, Txn
<1>2. /\ Verdict(i, txn[t].match) \in {"accepted", "rejected"}
      /\ status' = [status EXCEPT ![i] = Verdict(i, txn[t].match)]
      /\ similarTo' = [similarTo EXCEPT ![i] = txn[t].match]
    BY DEF Verdict, CommitComplete
<1>3. /\ status' \in [Images -> RowStatus]
      /\ similarTo' \in [Images -> Images \cup {None}]
      /\ status'[i] = Verdict(i, txn[t].match) /\ similarTo'[i] = txn[t].match
      /\ \A k \in Images \ {i} : status'[k] = status[k] /\ similarTo'[k] = similarTo[k]
    BY <1>1, <1>2 DEF TxnInv, TxnTypes, RowStatus
<1> QED BY <1>1, <1>2, <1>3, CommitStep

LEMMA CommitFailStep ==
    ASSUME TxnInv, NEW t \in Txns, CommitFail(t) PROVE TxnInv'
<1> DEFINE i == txn[t].img
<1>1. /\ i \in Images /\ txn[t].match = None /\ txn[t].op = "fail" /\ txn[t].pc = "commit"
      /\ Release(t) /\ status[i] = "processing"
    BY DEF CommitFail, TxnInv, Shape, OwnsRows
<1>2. PICK s \in {"failed", "pending"} : status' = [status EXCEPT ![i] = s]
    BY DEF CommitFail
<1>3. /\ status' \in [Images -> RowStatus]
      /\ status'[i] = s /\ \A k \in Images \ {i} : status'[k] = status[k]
    BY <1>1, <1>2 DEF TxnInv, TxnTypes, RowStatus
<1>4. similarTo' = similarTo /\ similarTo \in [Images -> Images \cup {None}] /\ similarTo[i] = None
    BY <1>1 DEF CommitFail, TxnInv, TxnTypes
<1> QED BY <1>1, <1>3, <1>4, CommitStep

LEMMA CommitDeleteStep ==
    ASSUME TxnInv, NEW t \in Txns, CommitDelete(t) PROVE TxnInv'
<1> DEFINE i == txn[t].img
<1>1. i \in Images /\ txn[t].op = "delete" /\ txn[t].pc = "commit" /\ Release(t)
    BY DEF CommitDelete, TxnInv, Shape
<1>2. /\ status' \in [Images -> RowStatus] /\ status'[i] = "deleted"
      /\ \A k \in Images \ {i} : status'[k] = status[k]
    BY <1>1 DEF CommitDelete, TxnInv, TxnTypes, RowStatus, NoRow
<1>3. /\ similarTo' \in [Images -> Images \cup {None}]
      /\ \A k \in Images : similarTo'[k] \in {similarTo[k], None}
    BY DEF CommitDelete, TxnInv, TxnTypes
<1> QED BY <1>1, <1>2, <1>3, CommitStep

\* Uploads and claims touch only rows that no transaction has written.
LEMMA RowStep ==
    ASSUME TxnInv, NEW i \in Images, Insert(i) \/ ClaimRow(i) PROVE TxnInv'
<1>1. PICK s \in {"pending", "rejected", "processing"} : status' = [status EXCEPT ![i] = s]
    BY DEF Insert, ClaimRow
<1>2. UNCHANGED <<similarTo, txn, advisory, writer, sharers>>
    BY DEF Insert, ClaimRow, locks
<1>3. status[i] \in {"absent", "pending"} /\ writer[i] = None
    BY DEF Insert, ClaimRow, TxnInv, TxnTypes
<1>4. /\ status' \in [Images -> RowStatus] /\ status'[i] = s
      /\ \A k \in Images \ {i} : status'[k] = status[k]
    BY <1>1 DEF TxnInv, TxnTypes, RowStatus
<1>5. TxnTypes'
    BY <1>2, <1>3, <1>4 DEF TxnInv, TxnTypes
<1>6. LocksHeld'
    BY <1>2 DEF TxnInv, LocksHeld
<1>7. ASSUME NEW u \in Txns PROVE Undisturbed(u) /\ StepOf(None)
    BY <1>2, <1>3, <1>4, TxnConstants DEF Undisturbed, StepOf
<1>8. \A u \in Txns : Shape(u)' /\ ScanHolds(u)' /\ OwnsRows(u)'
    BY <1>7, OthersKeep, TxnConstants
<1> QED BY <1>5, <1>6, <1>8 DEF TxnInv

-----------------------------------------------------------------------------

LEMMA TxnInitial == TxnInit => TxnInv
<1> SUFFICES ASSUME TxnInit PROVE TxnInv
    OBVIOUS
<1>1. Idle \in Txn
    BY DEF Idle, Txn
<1>2. TxnTypes
    BY <1>1 DEF TxnInit, TxnTypes, RowStatus, NoRow
<1>3. \A t \in Txns : txn[t] = Idle
    BY DEF TxnInit
<1>4. LocksHeld
    BY <1>1, <1>3, TxnConstants DEF TxnInit, LocksHeld, Idle
<1>5. \A t \in Txns : Shape(t) /\ ScanHolds(t) /\ OwnsRows(t)
    BY <1>3 DEF Idle, Shape, ScanHolds, OwnsRows
<1> QED BY <1>2, <1>4, <1>5 DEF TxnInv

LEMMA TxnStep == TxnInv /\ [TxnNext]_txnVars => TxnInv'
<1> SUFFICES ASSUME TxnInv, [TxnNext]_txnVars PROVE TxnInv'
    OBVIOUS
<1>1. ASSUME NEW i \in Images, Insert(i) \/ ClaimRow(i) PROVE TxnInv'
    BY <1>1, RowStep
<1>2. ASSUME NEW t \in Txns, Begin(t) \/ Rollback(t) PROVE TxnInv'
    BY <1>2, BeginStep, RollbackStep
<1>3. ASSUME NEW t \in Txns, Statement(t) PROVE TxnInv'
    BY <1>3, LockStep, ScanStep, UpdateStep, ForeignKeyStep, DeleteRowStep, SetNullStep,
       CommitCompleteStep, CommitFailStep, CommitDeleteStep DEF Statement
<1>4. CASE UNCHANGED txnVars
    BY <1>4 DEF txnVars, TxnInv, TxnTypes, LocksHeld, Shape, ScanHolds, OwnsRows, Matches
<1> QED BY <1>1, <1>2, <1>3, <1>4 DEF TxnNext

THEOREM TxnInvariant == TxnSpec => []TxnInv
BY TxnInitial, TxnStep, PTL DEF TxnSpec

\* The advisory lock is held by the one decision between its scan and its commit; row
\* and key locks are held by open transactions only, at the steps that need them.
THEOREM LockDiscipline == TxnSpec => []LocksHeld
<1>1. TxnInv => LocksHeld
    BY DEF TxnInv
<1> QED BY <1>1, TxnInvariant, PTL

-----------------------------------------------------------------------------
(* The transactions implement ImageLifecycle. *)

PhaseOf(s) == IF s \in {"pending", "processing"} THEN "queued" ELSE s
phase == [i \in Images |-> IF status[i] \in {"pending", "processing"} THEN "queued" ELSE status[i]]

LEMMA LifecycleInitial == TxnInit => Lifecycle!LifecycleInit
BY DEF TxnInit, Lifecycle!LifecycleInit

\* What changes the status of one row changes the phase of one image.
LEMMA PhaseChange ==
    ASSUME TxnInv, NEW i \in Images, NEW s, status' = [status EXCEPT ![i] = s]
    PROVE  phase' = [phase EXCEPT ![i] = PhaseOf(s)]
<1>1. \A k \in Images : status'[k] = IF k = i THEN s ELSE status[k]
    BY DEF TxnInv, TxnTypes
<1> QED BY <1>1 DEF phase, PhaseOf

LEMMA InsertImplements ==
    ASSUME TxnInv, NEW i \in Images, Insert(i) PROVE Lifecycle!LifecycleNext
<1>1. PICK s \in {"pending", "rejected"} : status' = [status EXCEPT ![i] = s]
    BY DEF Insert
<1>2. PhaseOf(s) \in {"queued", "rejected"} /\ status[i] = "absent"
    BY DEF PhaseOf, Insert
<1>3. phase' = [phase EXCEPT ![i] = PhaseOf(s)] /\ phase[i] = "absent"
    BY <1>1, <1>2, PhaseChange DEF phase
<1>4. Lifecycle!Submit(i)
    BY <1>2, <1>3 DEF Insert, phase, Lifecycle!Submit
<1> QED BY <1>4 DEF Lifecycle!LifecycleNext

\* The verdict of a decision is that of its scan, and the scan still holds at commit.
LEMMA CompleteImplements ==
    ASSUME TxnInv, NEW t \in Txns, CommitComplete(t) PROVE Lifecycle!LifecycleNext
<1>1. PICK i \in Images, m \in Images \cup {None} : i = txn[t].img /\ m = txn[t].match
    BY DEF CommitComplete, TxnInv, LocksHeld, Shape, Txn
<1>2. /\ status' = [status EXCEPT ![i] = Verdict(i, m)]
      /\ similarTo' = [similarTo EXCEPT ![i] = m]
      /\ Verdict(i, m) \in {"accepted", "rejected"}
    BY <1>1 DEF CommitComplete, Verdict
<1>3. /\ i \in Images /\ m \in Images \cup {None}
      /\ status[i] = "processing" /\ similarTo[i] = None
      /\ IF m = None THEN Matches(i) = {}
         ELSE m \in Similar[i] /\ i \notin Unreadable /\ status[m] = "accepted"
    BY <1>1 DEF CommitComplete, TxnInv, TxnTypes, LocksHeld, Shape, ScanHolds, OwnsRows, Txn
<1>4. phase' = [phase EXCEPT ![i] = Verdict(i, m)] /\ phase[i] = "queued"
    BY <1>3, <1>2, PhaseChange DEF phase, PhaseOf
<1>5. Lifecycle!AcceptedLike(i) = {j \in Similar[i] : status[j] = "accepted"}
    <2>1. \A j \in Similar[i] : j \in Images
        BY <1>3, TxnConstants
    <2>2. \A j \in Images : phase[j] = "accepted" <=> status[j] = "accepted"
        BY DEF phase
    <2> QED BY <2>1, <2>2 DEF Lifecycle!AcceptedLike, phase
<1>6. CASE m # None
    <2>1. m \in Lifecycle!AcceptedLike(i) /\ i \notin Unreadable
        BY <1>3, <1>5, <1>6
    <2>2. Verdict(i, m) = "rejected"
        BY <1>6 DEF Verdict
    <2>3. Lifecycle!RejectDuplicate(i)
        BY <1>2, <1>4, <2>1, <2>2 DEF Lifecycle!RejectDuplicate, phase
    <2> QED BY <1>3, <2>3 DEF Lifecycle!LifecycleNext
<1>7. CASE m = None
    <2>1. similarTo' = similarTo
        BY <1>3, <1>2, <1>7 DEF TxnInv, TxnTypes
    <2>2. CASE i \in Flawed \cup Unreadable
        <3>1. Lifecycle!RejectFlawed(i)
            BY <1>4, <1>7, <2>1, <2>2 DEF Lifecycle!RejectFlawed, Verdict, phase
        <3> QED BY <1>3, <3>1 DEF Lifecycle!LifecycleNext
    <2>3. CASE i \notin Flawed \cup Unreadable
        <3>1. Lifecycle!AcceptedLike(i) = {}
            BY <1>3, <1>5, <1>7, <2>3 DEF Matches
        <3>2. Lifecycle!Accept(i)
            BY <1>4, <1>7, <2>1, <2>3, <3>1 DEF Lifecycle!Accept, Verdict, phase
        <3> QED BY <1>3, <3>2 DEF Lifecycle!LifecycleNext
    <2> QED BY <2>2, <2>3
<1> QED BY <1>6, <1>7

LEMMA FailImplements ==
    ASSUME TxnInv, NEW t \in Txns, CommitFail(t)
    PROVE  [Lifecycle!LifecycleNext]_(Lifecycle!lifecycleVars)
<1>1. PICK i \in Images : i = txn[t].img /\ status[i] = "processing"
    BY DEF CommitFail, TxnInv, Shape, OwnsRows
<1>2. PICK s \in {"failed", "pending"} : status' = [status EXCEPT ![i] = s]
    BY <1>1 DEF CommitFail
<1>3. phase' = [phase EXCEPT ![i] = PhaseOf(s)] /\ phase[i] = "queued" /\ similarTo' = similarTo
    BY <1>1, <1>2, PhaseChange DEF phase, CommitFail
<1>4. CASE s = "failed"
    <2>1. Lifecycle!GiveUp(i)
        BY <1>3, <1>4 DEF Lifecycle!GiveUp, PhaseOf, phase
    <2> QED BY <1>1, <2>1 DEF Lifecycle!LifecycleNext
<1>5. CASE s = "pending"
    <2>1. phase' = phase
        BY <1>3, <1>5 DEF PhaseOf, phase
    <2> QED BY <1>3, <2>1 DEF Lifecycle!lifecycleVars, phase
<1> QED BY <1>4, <1>5

\* By its commit a delete has written every row that refers to the deleted one.
LEMMA DeleteImplements ==
    ASSUME TxnInv, NEW t \in Txns, CommitDelete(t) PROVE Lifecycle!LifecycleNext
<1>1. PICK i \in Images :
          /\ i = txn[t].img /\ status[i] \notin NoRow
          /\ \A k \in Images : similarTo[k] = i => writer[k] = t
    BY DEF CommitDelete, TxnInv, Shape, OwnsRows
<1>2. /\ status' = [status EXCEPT ![i] = "deleted"]
      /\ similarTo' = [k \in Images |-> IF k = i \/ similarTo[k] = i THEN None ELSE similarTo[k]]
    BY <1>1 DEF CommitDelete
<1>3. phase' = [phase EXCEPT ![i] = "deleted"] /\ phase[i] \notin {"absent", "deleted"}
    BY <1>1, <1>2, PhaseChange DEF phase, PhaseOf, NoRow
<1>4. Lifecycle!Remove(i)
    BY <1>2, <1>3 DEF Lifecycle!Remove, phase
<1> QED BY <1>1, <1>4 DEF Lifecycle!LifecycleNext

LEMMA HiddenStep == ASSUME UNCHANGED tables PROVE UNCHANGED Lifecycle!lifecycleVars
BY DEF tables, Lifecycle!lifecycleVars

LEMMA LifecycleStep ==
    TxnInv /\ [TxnNext]_txnVars => [Lifecycle!LifecycleNext]_(Lifecycle!lifecycleVars)
<1> SUFFICES ASSUME TxnInv, [TxnNext]_txnVars
             PROVE  [Lifecycle!LifecycleNext]_(Lifecycle!lifecycleVars)
    OBVIOUS
<1>1. ASSUME NEW i \in Images, ClaimRow(i) PROVE UNCHANGED Lifecycle!lifecycleVars
    <2>1. status' = [status EXCEPT ![i] = "processing"] /\ status[i] = "pending"
        BY <1>1 DEF ClaimRow
    <2>2. phase' = phase
        BY <2>1, PhaseChange DEF phase, PhaseOf
    <2> QED BY <1>1, <2>2 DEF ClaimRow, Lifecycle!lifecycleVars, phase
<1>2. ASSUME NEW t \in Txns,
             Begin(t) \/ Rollback(t) \/ Lock(t) \/ Scan(t) \/ Update(t) \/ ForeignKey(t)
                      \/ DeleteRow(t) \/ SetNull(t)
      PROVE  UNCHANGED Lifecycle!lifecycleVars
    BY <1>2, HiddenStep
       DEF Begin, Rollback, Lock, Scan, Update, ForeignKey, DeleteRow, SetNull
<1>3. CASE UNCHANGED txnVars
    BY <1>3, HiddenStep DEF txnVars, tables
<1> QED BY <1>1, <1>2, <1>3, InsertImplements, CompleteImplements, FailImplements,
           DeleteImplements DEF TxnNext, Statement

\* READ COMMITTED statements, with the advisory lock of complete, the row locks and the
\* foreign key, are as good as atomic decisions, failures and deletions.
THEOREM TxnRefinement == TxnSpec => TxnsImplementLifecycle
<1>1. TxnSpec => Lifecycle!LifecycleSpec
    BY LifecycleInitial, LifecycleStep, TxnInvariant, PTL DEF TxnSpec, Lifecycle!LifecycleSpec
<1> QED BY <1>1 DEF TxnsImplementLifecycle

-----------------------------------------------------------------------------
(* No deadlock: transactions wait in one direction only, decisions that have    *)
(* not begun for the one that has, statements on a row for its writer, foreign  *)
(* keys for deletes, deletes for deletes of rows that nothing refers to.        *)

\* The transactions whose locks t's next statement has to wait for.
WaitsFor(t) ==
    {u \in Txns :
        \/ txn[t].pc = "lock" /\ advisory = u
        \/ /\ txn[t].pc = "write"
           /\ writer[txn[t].img] = u \/ (txn[t].op = "delete" /\ u \in sharers[txn[t].img])
        \/ txn[t].pc = "fk" /\ BeingDeleted(txn[t].match) /\ writer[txn[t].match] = u
        \/ txn[t].pc = "setnull" /\ \E k \in Referrers(txn[t].img) : writer[k] = u}

\* The guard of t's next statement.
CanGo(t) ==
    \/ txn[t].pc \in {"scan", "commit"}
    \/ txn[t].pc = "lock" /\ advisory = None
    \/ /\ txn[t].pc = "write" /\ writer[txn[t].img] = None
       /\ txn[t].op = "delete" => sharers[txn[t].img] = {}
    \/ txn[t].pc = "fk" /\ ~BeingDeleted(txn[t].match)
    \/ txn[t].pc = "setnull" /\ \A k \in Referrers(txn[t].img) : writer[k] = None

\* How far t is from its end, by what it can be made to wait for.
Depth(t) ==
    IF txn[t].pc = "lock" THEN 5
    ELSE IF txn[t].pc = "write" THEN 4
    ELSE IF txn[t].pc = "fk" THEN 3
    ELSE IF txn[t].pc = "setnull" THEN (IF Referrers(txn[t].img) = {} THEN 1 ELSE 2)
    ELSE 0

\* Only a rejected image refers to another, and to an accepted one: no row is both
\* referred to and referring.
NoChains ==
    \A k \in Images : similarTo[k] # None =>
        status[k] = "rejected" /\ status[similarTo[k]] = "accepted"

\* A transaction writes the row it is about, or is a delete that clears references to it.
WriterReasons ==
    \A k \in Images : writer[k] # None =>
        \/ txn[writer[k]].img = k
        \/ /\ txn[writer[k]].op = "delete" /\ txn[writer[k]].pc = "commit"
           /\ similarTo[k] = txn[writer[k]].img

WaitInv == TxnInv /\ NoChains /\ WriterReasons

LEMMA ReasonsKept ==
    ASSUME TxnInv, WriterReasons, NEW t \in Txns,
           \A u \in Txns \ {t} : txn'[u] = txn[u],
           \A k \in Images : writer'[k] \notin {None, t} =>
              writer'[k] = writer[k] /\ similarTo'[k] = similarTo[k],
           \A k \in Images : writer'[k] = t =>
              \/ txn'[t].img = k
              \/ txn'[t].op = "delete" /\ txn'[t].pc = "commit" /\ similarTo'[k] = txn'[t].img
    PROVE  WriterReasons'
<1> SUFFICES ASSUME NEW k \in Images, writer'[k] \notin {None, t}
             PROVE  \/ txn'[writer'[k]].img = k
                    \/ /\ txn'[writer'[k]].op = "delete" /\ txn'[writer'[k]].pc = "commit"
                       /\ similarTo'[k] = txn'[writer'[k]].img
    BY DEF WriterReasons
<1>1. writer'[k] = writer[k] /\ writer[k] \in Txns \ {t} /\ similarTo'[k] = similarTo[k]
    BY DEF TxnInv, TxnTypes
<1> QED BY <1>1 DEF WriterReasons

\* The end of a transaction: it may have changed the references of rows it had written.
LEMMA ReleasedReasons ==
    ASSUME WaitInv, NEW t \in Txns, Release(t),
           \A k \in Images : writer[k] # t => similarTo'[k] = similarTo[k]
    PROVE  WriterReasons'
<1>1. \A k \in Images : writer'[k] # t /\ (writer'[k] # None => writer'[k] = writer[k])
    BY TxnConstants DEF Release, WaitInv, TxnInv, TxnTypes
<1>2. \A u \in Txns \ {t} : txn'[u] = txn[u]
    BY DEF Release, WaitInv, TxnInv, TxnTypes
<1> QED BY <1>1, <1>2, ReasonsKept DEF WaitInv

\* A statement that ends nothing and writes at most its own row.
LEMMA StatementReasons ==
    ASSUME WaitInv, NEW t \in Txns, txn[t].pc # "commit", txn'[t].img = txn[t].img,
           \A u \in Txns \ {t} : txn'[u] = txn[u], UNCHANGED tables,
           \A k \in Images : writer'[k] = writer[k] \/ (writer'[k] = t /\ k = txn[t].img)
    PROVE  WriterReasons'
<1>1. \A k \in Images : writer[k] = t => txn[t].img = k
    BY TxnConstants DEF WaitInv, WriterReasons
<1> QED BY <1>1, ReasonsKept DEF WaitInv, tables

LEMMA StatementKeepsReasons ==
    ASSUME WaitInv, NEW t \in Txns, Statement(t) PROVE WriterReasons'
<1> USE DEF WaitInv, TxnInv, TxnTypes
<1>1. ASSUME NEW pc, Goto(t, pc)
      PROVE  /\ txn'[t].img = txn[t].img /\ txn'[t].pc = pc /\ txn'[t].op = txn[t].op
             /\ \A u \in Txns \ {t} : txn'[u] = txn[u]
    <2>1. txn[t] \in Txn
        OBVIOUS
    <2> QED BY <1>1, <2>1 DEF Goto, Txn
<1>2. CASE Release(t) /\ UNCHANGED tables
    BY <1>2, ReleasedReasons DEF tables
<1>3. CASE Lock(t)
    <2>1. Goto(t, "scan") /\ txn[t].pc = "lock" /\ UNCHANGED tables /\ writer' = writer
        BY <1>3 DEF Lock
    <2> QED BY <1>1, <2>1, StatementReasons
<1>4. CASE Scan(t)
    <2>1. PICK m : txn' = [txn EXCEPT ![t].match = m, ![t].pc = "write"]
        BY <1>4 DEF Scan
    <2>2. txn[t] \in Txn /\ txn[t].pc = "scan" /\ UNCHANGED <<status, similarTo, writer>>
        BY <1>4 DEF Scan, tables, locks
    <2>3. txn'[t].img = txn[t].img /\ \A u \in Txns \ {t} : txn'[u] = txn[u]
        BY <2>1, <2>2 DEF Txn
    <2> QED BY <2>2, <2>3, StatementReasons DEF tables
<1>5. CASE Update(t) /\ ~Release(t)
    <2>1. /\ Goto(t, IF txn[t].match = None THEN "commit" ELSE "fk") /\ txn[t].pc = "write"
          /\ UNCHANGED tables /\ writer' = [writer EXCEPT ![txn[t].img] = t]
        BY <1>5 DEF Update
    <2> QED BY <1>1, <2>1, StatementReasons
<1>6. CASE ForeignKey(t) /\ ~Release(t)
    <2>1. Goto(t, "commit") /\ txn[t].pc = "fk" /\ UNCHANGED tables /\ writer' = writer
        BY <1>6 DEF ForeignKey
    <2> QED BY <1>1, <2>1, StatementReasons
<1>7. CASE DeleteRow(t) /\ ~Release(t)
    <2>1. /\ Goto(t, "setnull") /\ txn[t].pc = "write"
          /\ UNCHANGED tables /\ writer' = [writer EXCEPT ![txn[t].img] = t]
        BY <1>7 DEF DeleteRow
    <2> QED BY <1>1, <2>1, StatementReasons
<1>8. CASE SetNull(t)
    <2>1. /\ txn'[t].img = txn[t].img /\ txn'[t].pc = "commit" /\ txn'[t].op = txn[t].op
          /\ \A u \in Txns \ {t} : txn'[u] = txn[u]
        <3>1. Goto(t, "commit")
            BY <1>8 DEF SetNull
        <3> QED BY <1>1, <3>1
    <2>2. txn[t].pc = "setnull" /\ txn[t].op = "delete" /\ similarTo' = similarTo
        BY <1>8 DEF SetNull, Shape, tables
    <2>3. \A k \in Images : writer'[k] = IF similarTo[k] = txn[t].img THEN t ELSE writer[k]
        BY <1>8 DEF SetNull, Referrers
    <2>4. \A k \in Images : writer[k] = t => txn[t].img = k
        BY <2>2, TxnConstants DEF WriterReasons
    <2> QED BY <2>1, <2>2, <2>3, <2>4, ReasonsKept
<1>9. CASE CommitComplete(t) \/ CommitFail(t) \/ CommitDelete(t)
    <2>1. Release(t) /\ writer[txn[t].img] = t /\ txn[t].img \in Images
        BY <1>9 DEF CommitComplete, CommitFail, CommitDelete, OwnsRows, Shape
    <2>2. \A k \in Images : writer[k] # t => similarTo'[k] = similarTo[k]
        BY <1>9, <2>1 DEF CommitComplete, CommitFail, CommitDelete
    <2> QED BY <2>1, <2>2, ReleasedReasons
<1> QED BY <1>2, <1>3, <1>4, <1>5, <1>6, <1>7, <1>8, <1>9
        DEF Statement, Update, ForeignKey, DeleteRow

LEMMA StatementKeepsNoChains ==
    ASSUME WaitInv, NEW t \in Txns, Statement(t) PROVE NoChains'
<1> USE DEF WaitInv, TxnInv, TxnTypes
<1> DEFINE i == txn[t].img
<1>1. CASE UNCHANGED tables
    BY <1>1 DEF tables, NoChains
<1>2. CASE CommitComplete(t)
    <2>1. /\ i \in Images /\ status[i] = "processing" /\ txn[t].match \in Images \cup {None}
          /\ txn[t].match # None => status[txn[t].match] = "accepted"
        BY <1>2 DEF CommitComplete, Shape, OwnsRows, Txn
    <2>2. \A k \in Images : /\ status'[k] = IF k = i THEN Verdict(i, txn[t].match) ELSE status[k]
                            /\ similarTo'[k] = IF k = i THEN txn[t].match ELSE similarTo[k]
        BY <1>2, <2>1 DEF CommitComplete
    <2>3. txn[t].match # None => Verdict(i, txn[t].match) = "rejected" /\ txn[t].match # i
        BY <2>1 DEF Verdict
    <2>4. \A k \in Images : similarTo[k] # None => similarTo[k] # i /\ k # i
        BY <2>1 DEF NoChains
    <2> QED BY <2>1, <2>2, <2>3, <2>4 DEF NoChains
<1>3. CASE CommitFail(t)
    <2>1. i \in Images /\ status[i] = "processing"
        BY <1>3 DEF CommitFail, Shape, OwnsRows
    <2>2. similarTo' = similarTo /\ \A k \in Images \ {i} : status'[k] = status[k]
        BY <1>3 DEF CommitFail
    <2>3. \A k \in Images : similarTo[k] # None => similarTo[k] # i /\ k # i
        BY <2>1 DEF NoChains
    <2> QED BY <2>2, <2>3 DEF NoChains
<1>4. CASE CommitDelete(t)
    <2>1. i \in Images /\ \A k \in Images : similarTo[k] = i => writer[k] = t
        BY <1>4 DEF CommitDelete, Shape, OwnsRows
    <2>2. /\ \A k \in Images \ {i} : status'[k] = status[k]
          /\ \A k \in Images : similarTo'[k] = IF k = i \/ similarTo[k] = i THEN None
                                               ELSE similarTo[k]
        BY <1>4, <2>1 DEF CommitDelete
    <2> QED BY <2>2 DEF NoChains
<1> QED BY <1>1, <1>2, <1>3, <1>4
        DEF Statement, Lock, Scan, Update, ForeignKey, DeleteRow, SetNull

LEMMA WaitInitial == TxnInit => WaitInv
BY TxnInitial DEF TxnInit, WaitInv, NoChains, WriterReasons

LEMMA WaitStep == WaitInv /\ [TxnNext]_txnVars => WaitInv'
<1> SUFFICES ASSUME WaitInv, [TxnNext]_txnVars PROVE NoChains' /\ WriterReasons'
    BY TxnStep DEF WaitInv
<1>1. ASSUME NEW i \in Images, Insert(i) \/ ClaimRow(i) PROVE NoChains' /\ WriterReasons'
    <2>1. /\ status[i] \in {"absent", "pending"} /\ UNCHANGED <<similarTo, txn, writer>>
          /\ \A k \in Images \ {i} : status'[k] = status[k]
        BY <1>1 DEF Insert, ClaimRow, locks, WaitInv, TxnInv, TxnTypes
    <2>2. \A k \in Images : similarTo[k] # None => similarTo[k] # i /\ k # i
        BY <2>1 DEF WaitInv, NoChains
    <2>3. \A k \in Images : similarTo[k] \in Images \cup {None}
        BY DEF WaitInv, TxnInv, TxnTypes
    <2> QED BY <2>1, <2>2, <2>3 DEF WaitInv, NoChains, WriterReasons
<1>2. ASSUME NEW t \in Txns, Begin(t) PROVE NoChains' /\ WriterReasons'
    <2>1. /\ UNCHANGED tables /\ writer' = writer /\ txn[t].pc = "idle"
          /\ \A u \in Txns \ {t} : txn'[u] = txn[u]
        BY <1>2 DEF Begin, Idle, locks, WaitInv, TxnInv, TxnTypes
    <2>2. \A k \in Images : writer[k] # t
        BY <2>1, TxnConstants DEF WaitInv, TxnInv, LocksHeld
    <2> QED BY <2>1, <2>2, ReasonsKept DEF WaitInv, NoChains, tables
<1>3. ASSUME NEW t \in Txns, Rollback(t) PROVE NoChains' /\ WriterReasons'
    BY <1>3, ReleasedReasons DEF Rollback, tables, WaitInv, NoChains
<1>4. CASE UNCHANGED txnVars
    BY <1>4 DEF txnVars, WaitInv, NoChains, WriterReasons
<1> QED BY <1>1, <1>2, <1>3, <1>4, StatementKeepsReasons, StatementKeepsNoChains DEF TxnNext

THEOREM WaitInvariant == TxnSpec => []WaitInv
BY WaitInitial, WaitStep, PTL DEF TxnSpec


\* A delete that waits to clear references waits for writers of rejected rows, which
\* nothing refers to: deletes of those rows, and they wait for nobody.
LEMMA SetNullWaits ==
    ASSUME WaitInv, NEW t \in Txns, txn[t].pc = "setnull",
           NEW k \in Referrers(txn[t].img), NEW u \in Txns, writer[k] = u
    PROVE  Depth(u) < Depth(t)
<1> USE DEF WaitInv, TxnInv, TxnTypes
<1>1. /\ txn[t].img \in Images /\ k \in Images /\ similarTo[k] = txn[t].img
      /\ writer[txn[t].img] = t /\ status[k] = "rejected"
      /\ \A x \in Images : similarTo[x] # k
    BY TxnConstants DEF Referrers, Shape, OwnsRows, NoChains
<1>2. Depth(t) = 2
    BY <1>1 DEF Depth
<1>3. txn[u].pc \in {"fk", "setnull", "commit"}
    BY <1>1, TxnConstants DEF LocksHeld
<1>4. u # t => txn[u].img = k
    <2>1. ASSUME txn[u].op = "delete", txn[u].pc = "commit", similarTo[k] = txn[u].img
          PROVE  u = t
        BY <1>1, <2>1 DEF OwnsRows
    <2> QED BY <1>1, <2>1, TxnConstants DEF WriterReasons
<1>5. u # t
    <2>1. txn[t].img # k
        BY <1>1
    <2> QED BY <1>1, <2>1, TxnConstants DEF WriterReasons
<1>6. txn[u].pc # "fk"
    BY <1>1, <1>4, <1>5 DEF Shape, OwnsRows
<1>7. txn[u].pc = "setnull" => Referrers(txn[u].img) = {}
    BY <1>1, <1>4, <1>5 DEF Referrers
<1>8. Depth(u) \in {0, 1}
    BY <1>3, <1>6, <1>7 DEF Depth
<1> QED BY <1>2, <1>8

\* No two transactions ever wait for each other, directly or through others: whoever
\* waits, waits for transactions nearer to their end, and whoever waits for nobody has
\* the guard of its next statement.  This is TxnsEnd but for fairness.
NoWaitCycle ==
    \A t \in Txns :
        /\ \A u \in WaitsFor(t) : txn[u].pc # "idle" /\ Depth(u) < Depth(t)
        /\ txn[t].pc # "idle" /\ WaitsFor(t) = {} => CanGo(t)

THEOREM WaitsAreAcyclic == TxnSpec => []NoWaitCycle
<1>1. WaitInv => NoWaitCycle
    <2> SUFFICES ASSUME WaitInv, NEW t \in Txns
                 PROVE  /\ \A u \in WaitsFor(t) : txn[u].pc # "idle" /\ Depth(u) < Depth(t)
                        /\ txn[t].pc # "idle" /\ WaitsFor(t) = {} => CanGo(t)
        BY DEF NoWaitCycle
    <2> USE DEF WaitInv, TxnInv, TxnTypes
    <2>1. /\ txn[t] \in Txn
          /\ txn[t].pc \in {"write", "setnull"} => txn[t].img \in Images
          /\ txn[t].pc = "fk" => txn[t].match \in Images
        BY DEF Shape, Txn
    <2>2. \A k \in Images, u \in Txns : writer[k] = u => txn[u].pc \in {"fk", "setnull", "commit"}
        BY TxnConstants DEF LocksHeld
    <2>3. ASSUME NEW u \in WaitsFor(t) PROVE txn[u].pc # "idle" /\ Depth(u) < Depth(t)
        <3>1. CASE txn[t].pc = "lock"
            <4>1. txn[u] \in Txn /\ txn[u].op = "complete" /\ txn[u].pc # "lock"
                BY <2>3, <3>1 DEF WaitsFor, LocksHeld
            <4>2. txn[u].pc # "idle"
                BY <2>3, <4>1 DEF WaitsFor, Shape, Idle
            <4>3. Depth(t) = 5 /\ Depth(u) \in 0 .. 4
                BY <3>1, <4>1 DEF Depth
            <4> QED BY <4>2, <4>3
        <3>2. CASE txn[t].pc = "write"
            <4>1. txn[u].pc \in {"fk", "setnull", "commit"}
                BY <2>1, <2>2, <2>3, <3>2 DEF WaitsFor, LocksHeld
            <4>2. Depth(t) = 4 /\ Depth(u) \in 0 .. 3
                BY <3>2, <4>1 DEF Depth
            <4> QED BY <4>1, <4>2
        <3>3. CASE txn[t].pc = "fk"
            <4>1. txn[u].pc \in {"setnull", "commit"}
                BY <2>1, <2>2, <2>3, <3>3 DEF WaitsFor, BeingDeleted, Shape
            <4>2. Depth(t) = 3 /\ Depth(u) \in 0 .. 2
                BY <3>3, <4>1 DEF Depth
            <4> QED BY <4>1, <4>2
        <3>4. CASE txn[t].pc = "setnull"
            <4>1. PICK k \in Referrers(txn[t].img) : u \in Txns /\ writer[k] = u
                BY <2>3, <3>4 DEF WaitsFor
            <4>2. k \in Images
                BY DEF Referrers
            <4> QED BY <2>2, <3>4, <4>1, <4>2, SetNullWaits
        <3> QED BY <2>3, <3>1, <3>2, <3>3, <3>4 DEF WaitsFor
    <2>4. ASSUME txn[t].pc # "idle", WaitsFor(t) = {} PROVE CanGo(t)
        <3>1. \A u \in Txns : u \notin WaitsFor(t)
            BY <2>4
        <3>2. CASE txn[t].pc = "lock"
            BY <3>1, <3>2 DEF WaitsFor, CanGo
        <3>3. CASE txn[t].pc = "write"
            BY <2>1, <3>1, <3>3 DEF WaitsFor, CanGo
        <3>4. CASE txn[t].pc = "fk"
            <4>1. ASSUME BeingDeleted(txn[t].match) PROVE FALSE
                <5>1. writer[txn[t].match] \in Txns
                    BY <2>1, <3>4, <4>1 DEF BeingDeleted
                <5> QED BY <3>1, <3>4, <4>1, <5>1 DEF WaitsFor
            <4> QED BY <3>4, <4>1 DEF CanGo
        <3>5. CASE txn[t].pc = "setnull"
            <4>1. ASSUME NEW k \in Referrers(txn[t].img) PROVE writer[k] = None
                <5>1. k \in Images
                    BY DEF Referrers
                <5> QED BY <3>1, <3>5, <5>1 DEF WaitsFor
            <4> QED BY <3>5, <4>1 DEF CanGo
        <3> QED BY <2>1, <2>4, <3>2, <3>3, <3>4, <3>5 DEF Txn, CanGo
    <2> QED BY <2>3, <2>4
<1> QED BY <1>1, WaitInvariant, PTL

\* Some open transaction can always run its next statement, if any is open.
NoDeadlock ==
    \A t \in Txns : txn[t].pc # "idle" => \E u \in Txns : txn[u].pc # "idle" /\ CanGo(u)

THEOREM SomeStatementRuns == TxnSpec => []NoDeadlock
<1> DEFINE Free(u) == txn[u].pc # "idle" /\ CanGo(u)
           Within(n) == \A t \in Txns : txn[t].pc # "idle" /\ Depth(t) < n =>
                                            \E u \in Txns : Free(u)
<1>1. ASSUME NoWaitCycle, NEW n \in 0 .. 5, Within(n) PROVE Within(n + 1)
    <2> SUFFICES ASSUME NEW t \in Txns, txn[t].pc # "idle", Depth(t) < n + 1
                 PROVE  \E u \in Txns : Free(u)
        OBVIOUS
    <2>1. CASE WaitsFor(t) = {}
        BY <1>1, <2>1 DEF NoWaitCycle
    <2>2. CASE WaitsFor(t) # {}
        <3>1. PICK u \in WaitsFor(t) : txn[u].pc # "idle" /\ Depth(u) < Depth(t)
            BY <1>1, <2>2 DEF NoWaitCycle
        <3>2. u \in Txns /\ Depth(u) \in 0 .. 5 /\ Depth(t) \in 0 .. 5
            BY DEF WaitsFor, Depth
        <3>3. Depth(u) < n
            BY <3>1, <3>2
        <3> QED BY <1>1, <3>1, <3>2, <3>3
    <2> QED BY <2>1, <2>2
<1>2. NoWaitCycle => NoDeadlock
    <2> SUFFICES ASSUME NoWaitCycle PROVE NoDeadlock
        OBVIOUS
    <2>1. \A t \in Txns : Depth(t) \in 0 .. 5
        BY DEF Depth
    <2>2. Within(0)
        BY <2>1
    <2> HIDE DEF Within
    <2>3. Within(1) /\ Within(2) /\ Within(3) /\ Within(4) /\ Within(5) /\ Within(6)
        <3>1. \A n \in 0 .. 5 : Within(n) => Within(n + 1)
            BY <1>1
        <3>2. Within(0 + 1)
            BY <2>2, <3>1
        <3>3. Within(1 + 1)
            BY <3>1, <3>2
        <3>4. Within(2 + 1)
            BY <3>1, <3>3
        <3>5. Within(3 + 1)
            BY <3>1, <3>4
        <3>6. Within(4 + 1)
            BY <3>1, <3>5
        <3>7. Within(5 + 1)
            BY <3>1, <3>6
        <3> QED BY <3>2, <3>3, <3>4, <3>5, <3>6, <3>7
    <2> QED BY <2>1, <2>3 DEF Within, NoDeadlock
<1> QED BY <1>2, WaitsAreAcyclic, PTL


===============================================================================
