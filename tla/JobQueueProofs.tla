--------------------------- MODULE JobQueueProofs ---------------------------
(* What JobQueue guarantees for all images, workers, similarities and bounds. *)
EXTENDS JobQueue, FiniteSetTheorems, TLAPS

-----------------------------------------------------------------------------
(* The inductive invariant. *)

\* Runs belong to claims that happened, and nothing happened to absent images.
RunsAreClaims ==
    /\ \A r \in runs : /\ r.attempt <= attempts[r.img]
                       /\ status[r.img] # "absent"
    /\ \A i \in Images : /\ IsFiniteSet(RunsOf(i))
                         /\ status[i] = "absent" => attempts[i] = 0 /\ requeues[i] = 0

QueueInv == TypeOK /\ RunsAreClaims /\ AttemptsBounded /\ OneRunPerLease /\ RunOwnsRow

\* An image that breaks a rule of its own is never accepted.
AcceptedAreGood ==
    \A i \in Images : status[i] = "accepted" => i \notin Flawed \cup Unreadable

DecisionInv == /\ NoTwoSimilarAccepted
               /\ SimilarToAccepted
               /\ RejectionJustified
               /\ AcceptedAreGood

IInv == QueueInv /\ DecisionInv

-----------------------------------------------------------------------------
(* Type correctness. *)

\* Moving a run to another place of its code keeps the set of runs well typed.
LEMMA GotoType ==
    ASSUME TypeOK, NEW r \in runs,
           NEW pc \in {"process", "complete", "discard", "fail"}, Goto(r, pc)
    PROVE  runs' \subseteq Run
BY DEF TypeOK, Goto, Run

LEMMA EndType == ASSUME TypeOK, NEW r \in runs, End(r) PROVE runs' \subseteq Run
BY DEF TypeOK, End

LEMMA FaultType == ASSUME TypeOK, Fault PROVE faults' \in 0 .. MaxFaults
BY BoundsAreNat DEF TypeOK, Fault

LEMMA ClaimRowsType ==
    ASSUME TypeOK, NEW S \in SUBSET Images, ClaimRows(S)
    PROVE  /\ status' \in [Images -> Statuses]
           /\ attempts' \in [Images -> Nat]
           /\ due' \subseteq Images /\ stale' \subseteq Images
           /\ similarTo' \in [Images -> Images \cup {None}]
           /\ requeues' \in [Images -> Nat]
BY DEF TypeOK, ClaimRows, Statuses

\* The verdict is a status, and the match a row of the table or nothing.
LEMMA DecideType ==
    ASSUME TypeOK, NEW i \in Images, Decide(i)
    PROVE  /\ status' \in [Images -> Statuses]
           /\ similarTo' \in [Images -> Images \cup {None}]
           /\ attempts' \in [Images -> Nat] /\ requeues' \in [Images -> Nat]
           /\ due' \subseteq Images /\ stale' \subseteq Images
           /\ faults' \in 0 .. MaxFaults
<1>1. PICK match \in MatchOf(i) :
        /\ status' = [status EXCEPT ![i] = Verdict(i, match)]
        /\ similarTo' = [similarTo EXCEPT ![i] = match]
    BY DEF Decide
<1>2. match \in Images \cup {None}
    <2>1. Matches(i) \subseteq Images
        BY SimilarIsSymmetric DEF Matches
    <2> QED BY <2>1 DEF MatchOf
<1>3. Verdict(i, match) \in Statuses
    BY DEF Verdict, Statuses
<1> QED BY <1>1, <1>2, <1>3 DEF TypeOK, Decide

LEMMA TypeInit == Init => TypeOK
BY BoundsAreNat DEF Init, TypeOK, Statuses

LEMMA TypeStep == TypeOK /\ [Next]_vars => TypeOK'
<1> SUFFICES ASSUME TypeOK, [Next]_vars PROVE TypeOK'
    OBVIOUS
<1>1. ASSUME NEW i \in Images, Upload(i) PROVE TypeOK'
    BY <1>1 DEF Upload, TypeOK, Statuses
<1>2. ASSUME NEW i \in Images, Delete(i) PROVE TypeOK'
    BY <1>2 DEF Delete, TypeOK, Statuses
<1>3. ASSUME NEW i \in Images, BackoffElapses(i) PROVE TypeOK'
    BY <1>3 DEF BackoffElapses, TypeOK
<1>4. ASSUME NEW i \in Images, LeaseExpires(i) \/ LeaseOutrun(i) PROVE TypeOK'
    BY <1>4, FaultType DEF LeaseExpires, LeaseOutrun, LeaseEnds, TypeOK
<1>5. ASSUME NEW w \in Workers, Claim(w) PROVE TypeOK'
    <2>1. PICK S \in SUBSET Images :
            /\ ClaimRows(S)
            /\ runs' = runs \cup {[worker |-> w, img |-> i, attempt |-> attempts[i] + 1,
                                   pc |-> "process"] : i \in S}
            /\ UNCHANGED faults
        BY <1>5 DEF Claim
    <2>2. runs' \subseteq Run
        BY <2>1 DEF TypeOK, Run
    <2> QED BY <2>1, <2>2, ClaimRowsType DEF TypeOK
<1>6. ASSUME NEW w \in Workers, ClaimLost(w) PROVE TypeOK'
    <2>1. /\ Fault /\ UNCHANGED runs
          /\ \E S \in SUBSET Images : ClaimRows(S)
        BY <1>6 DEF ClaimLost
    <2> QED BY <2>1, ClaimRowsType, FaultType DEF TypeOK
<1>7. ASSUME NEW w \in Workers, Crash(w) PROVE TypeOK'
    BY <1>7, FaultType DEF Crash, TypeOK
<1>8. ASSUME NEW r \in runs, Processed(r) \/ ProcessThrew(r) PROVE TypeOK'
    BY <1>8, GotoType DEF Processed, ProcessThrew, RowsSame, TypeOK
<1>9. ASSUME NEW r \in runs, Complete(r) PROVE TypeOK'
    <2>0. r.img \in Images
        BY DEF TypeOK, Run
    <2>1. CASE Decide(r.img) /\ End(r)
        BY <2>0, <2>1, DecideType, EndType DEF TypeOK
    <2>2. CASE Goto(r, "discard") /\ RowsSame
        BY <2>2, GotoType DEF TypeOK, RowsSame
    <2> QED BY <1>9, <2>1, <2>2 DEF Complete
<1>10. ASSUME NEW r \in runs, CompleteThrew(r) PROVE TypeOK'
    <2>0. r.img \in Images /\ Goto(r, "fail")
        BY <1>10 DEF TypeOK, Run, CompleteThrew
    <2>1. CASE Decide(r.img)
        BY <2>0, <2>1, DecideType, GotoType DEF TypeOK
    <2>2. CASE RowsSame
        BY <2>0, <2>2, GotoType DEF TypeOK, RowsSame
    <2> QED BY <1>10, <2>1, <2>2 DEF CompleteThrew
<1>11. ASSUME NEW r \in runs, Discarded(r) \/ DiscardThrew(r) PROVE TypeOK'
    BY <1>11, GotoType, EndType DEF Discarded, DiscardThrew, RowsSame, TypeOK
<1>12. ASSUME NEW r \in runs, Fail(r) PROVE TypeOK'
    <2>1. runs' \subseteq Run /\ r.img \in Images
        BY <1>12, EndType DEF Fail, TypeOK, Run
    <2> QED BY <1>12, <2>1 DEF Fail, TypeOK, Statuses
<1>13. ASSUME NEW r \in runs, FailThrew(r) PROVE TypeOK'
    BY <1>13, EndType, FaultType DEF FailThrew, TypeOK
<1>14. ASSUME RequeueStale PROVE TypeOK'
    BY <1>14 DEF RequeueStale, Requeued, TypeOK, Statuses
<1>15. ASSUME UNCHANGED vars PROVE TypeOK'
    BY <1>15 DEF vars, TypeOK
<1> QED
    BY <1>1, <1>2, <1>3, <1>4, <1>5, <1>6, <1>7, <1>8, <1>9, <1>10, <1>11,
       <1>12, <1>13, <1>14, <1>15 DEF Next, RunStep

\* Every reachable state of the queue is well typed, the fault bound included.
THEOREM TypeCorrect == Spec => []TypeOK
BY TypeInit, TypeStep, PTL DEF Spec

-----------------------------------------------------------------------------
(* How the runs of an image change. *)

LEMMA GotoRuns ==
    ASSUME TypeOK, RunsAreClaims, NEW r \in runs,
           NEW pc \in {"process", "complete", "discard", "fail"}, Goto(r, pc),
           NEW i \in Images
    PROVE  /\ IsFiniteSet(RunsOf(i)')
           /\ Cardinality(RunsOf(i)') <= Cardinality(RunsOf(i))
<1> DEFINE s == [r EXCEPT !.pc = pc]
<1>1. r.img = s.img /\ runs' = (runs \ {r}) \cup {s}
    BY DEF Goto, TypeOK, Run
<1>2. IsFiniteSet(RunsOf(i)) /\ Cardinality(RunsOf(i)) \in Nat
    BY FS_CardinalityType DEF RunsAreClaims
<1>3. CASE r.img # i
    <2>1. RunsOf(i)' = RunsOf(i)
        BY <1>1, <1>3 DEF RunsOf
    <2> QED BY <1>2, <2>1
<1>4. CASE r.img = i
    <2>1. r \in RunsOf(i) /\ RunsOf(i)' = (RunsOf(i) \ {r}) \cup {s}
        BY <1>1, <1>4 DEF RunsOf
    <2>2. /\ IsFiniteSet(RunsOf(i) \ {r})
          /\ Cardinality(RunsOf(i) \ {r}) = Cardinality(RunsOf(i)) - 1
        BY <1>2, <2>1, FS_RemoveElement
    <2>3. /\ IsFiniteSet((RunsOf(i) \ {r}) \cup {s})
          /\ \/ Cardinality((RunsOf(i) \ {r}) \cup {s}) = Cardinality(RunsOf(i) \ {r})
             \/ Cardinality((RunsOf(i) \ {r}) \cup {s}) = Cardinality(RunsOf(i) \ {r}) + 1
        BY <2>2, FS_AddElement
    <2> QED BY <1>2, <2>1, <2>2, <2>3
<1> QED BY <1>3, <1>4

LEMMA EndRuns ==
    ASSUME TypeOK, RunsAreClaims, NEW r \in runs, End(r), NEW i \in Images
    PROVE  /\ IsFiniteSet(RunsOf(i)')
           /\ Cardinality(RunsOf(i)') = Cardinality(RunsOf(i)) - (IF r.img = i THEN 1 ELSE 0)
<1>1. IsFiniteSet(RunsOf(i)) /\ Cardinality(RunsOf(i)) \in Nat
    BY FS_CardinalityType DEF RunsAreClaims
<1>2. CASE r.img # i
    <2>1. RunsOf(i)' = RunsOf(i)
        BY <1>2 DEF RunsOf, End
    <2> QED BY <1>1, <1>2, <2>1
<1>3. CASE r.img = i
    <2>1. r \in RunsOf(i) /\ RunsOf(i)' = RunsOf(i) \ {r}
        BY <1>3 DEF RunsOf, End
    <2>2. /\ IsFiniteSet(RunsOf(i) \ {r})
          /\ Cardinality(RunsOf(i) \ {r}) = Cardinality(RunsOf(i)) - 1
        BY <1>1, <2>1, FS_RemoveElement
    <2> QED BY <1>3, <2>1, <2>2
<1> QED BY <1>2, <1>3

\* A set of runs that only shrinks, as in a crash.
LEMMA FewerRuns ==
    ASSUME RunsAreClaims, runs' \subseteq runs, NEW i \in Images
    PROVE  /\ IsFiniteSet(RunsOf(i)')
           /\ Cardinality(RunsOf(i)') <= Cardinality(RunsOf(i))
<1>1. IsFiniteSet(RunsOf(i)) /\ RunsOf(i)' \subseteq RunsOf(i)
    BY DEF RunsAreClaims, RunsOf
<1> QED BY <1>1, FS_Subset

\* A claim adds one run for each image it takes.
LEMMA ClaimRuns ==
    ASSUME TypeOK, RunsAreClaims, NEW w \in Workers, NEW S \in SUBSET Images,
           runs' = runs \cup {[worker |-> w, img |-> j, attempt |-> attempts[j] + 1,
                               pc |-> "process"] : j \in S},
           NEW i \in Images
    PROVE  /\ IsFiniteSet(RunsOf(i)')
           /\ Cardinality(RunsOf(i)') <= Cardinality(RunsOf(i)) + (IF i \in S THEN 1 ELSE 0)
<1> DEFINE new == [worker |-> w, img |-> i, attempt |-> attempts[i] + 1, pc |-> "process"]
<1>1. IsFiniteSet(RunsOf(i)) /\ Cardinality(RunsOf(i)) \in Nat
    BY FS_CardinalityType DEF RunsAreClaims
<1>2. CASE i \notin S
    <2>1. RunsOf(i)' = RunsOf(i)
        BY <1>2 DEF RunsOf
    <2> QED BY <1>1, <1>2, <2>1
<1>3. CASE i \in S
    <2>1. RunsOf(i)' = RunsOf(i) \cup {new}
        BY <1>3 DEF RunsOf
    <2>2. /\ IsFiniteSet(RunsOf(i) \cup {new})
          /\ \/ Cardinality(RunsOf(i) \cup {new}) = Cardinality(RunsOf(i))
             \/ Cardinality(RunsOf(i) \cup {new}) = Cardinality(RunsOf(i)) + 1
        BY <1>1, FS_AddElement
    <2> QED BY <1>1, <1>3, <2>1, <2>2
<1> QED BY <1>2, <1>3

-----------------------------------------------------------------------------
(* The queue invariant: one lemma per kind of step. *)

QueueParts == RunsAreClaims /\ AttemptsBounded /\ OneRunPerLease /\ RunOwnsRow

\* Time passing, a lease running out: the rows' status and the runs stay.
LEMMA QueueSame ==
    ASSUME QueueInv, TypeOK',
           UNCHANGED <<status, attempts, requeues, runs>>
    PROVE  QueueParts'
<1>1. \A i \in Images : RunsOf(i)' = RunsOf(i)
    BY DEF RunsOf
<1>2. RunsAreClaims'
    BY <1>1 DEF QueueInv, RunsAreClaims
<1>3. OneRunPerLease'
    BY <1>1 DEF QueueInv, OneRunPerLease
<1>4. AttemptsBounded' /\ RunOwnsRow'
    BY DEF QueueInv, AttemptsBounded, RunOwnsRow
<1> QED BY <1>2, <1>3, <1>4 DEF QueueParts

LEMMA QueueUpload ==
    ASSUME QueueInv, TypeOK', NEW i \in Images, Upload(i)
    PROVE  QueueParts'
<1>1. /\ \A j \in Images : RunsOf(j)' = RunsOf(j)
      /\ status[i] = "absent" /\ status'[i] \in {"pending", "rejected"}
      /\ \A j \in Images \ {i} : status'[j] = status[j]
    BY DEF RunsOf, Upload, QueueInv, TypeOK
<1>2. /\ UNCHANGED <<attempts, requeues, runs, faults>>
      /\ attempts[i] = 0 /\ requeues[i] = 0 /\ IsFiniteSet(RunsOf(i))
    BY <1>1 DEF Upload, QueueInv, RunsAreClaims
<1>3. \A r \in runs : r.img \in Images \ {i}
    BY <1>1 DEF QueueInv, RunsAreClaims, TypeOK, Run
<1>4. RunsAreClaims'
    BY <1>1, <1>2, <1>3 DEF QueueInv, RunsAreClaims
<1>5. AttemptsBounded'
    BY <1>1, <1>2, BoundsAreNat DEF QueueInv, AttemptsBounded, TypeOK
<1>6. OneRunPerLease'
    <2>1. Cardinality(RunsOf(i)) = 0
        <3>1. RunsOf(i) = {}
            BY <1>3 DEF RunsOf
        <3> QED BY <3>1, FS_EmptySet
    <2>2. Cardinality(RunsOf(i)') <= requeues'[i] + (IF status'[i] = "pending" THEN 0 ELSE 1)
        BY <1>1, <1>2, <2>1
    <2> QED BY <1>1, <1>2, <2>2 DEF QueueInv, OneRunPerLease
<1>7. RunOwnsRow'
    BY <1>1, <1>2, <1>3 DEF QueueInv, RunOwnsRow
<1> QED BY <1>4, <1>5, <1>6, <1>7 DEF QueueParts

LEMMA QueueDelete ==
    ASSUME QueueInv, TypeOK', NEW i \in Images, Delete(i)
    PROVE  QueueParts'
<1>1. /\ \A j \in Images : RunsOf(j)' = RunsOf(j)
      /\ status[i] # "absent" /\ status'[i] = "deleted"
      /\ \A j \in Images \ {i} : status'[j] = status[j]
      /\ UNCHANGED <<attempts, requeues, runs, faults>>
    BY DEF RunsOf, Delete, QueueInv, TypeOK, NoRow
<1>2. RunsAreClaims'
    BY <1>1 DEF QueueInv, RunsAreClaims, TypeOK, Run
<1>3. AttemptsBounded'
    BY <1>1 DEF QueueInv, AttemptsBounded, TypeOK
<1>4. OneRunPerLease'
    <2>1. Cardinality(RunsOf(i)') <= requeues'[i] + (IF status'[i] = "pending" THEN 0 ELSE 1)
        <3>1. Cardinality(RunsOf(i)) \in Nat
            BY FS_CardinalityType DEF QueueInv, RunsAreClaims
        <3> QED BY <1>1, <3>1 DEF QueueInv, OneRunPerLease, TypeOK
    <2> QED BY <1>1, <2>1 DEF QueueInv, OneRunPerLease
<1>5. RunOwnsRow'
    BY <1>1 DEF QueueInv, RunOwnsRow, TypeOK, Run
<1> QED BY <1>2, <1>3, <1>4, <1>5 DEF QueueParts

\* Claimed rows become "processing" at their next attempt; `new' is the set of
\* the runs that start, empty when the claim's answer is lost.
LEMMA QueueClaimed ==
    ASSUME QueueInv, TypeOK', NEW S \in SUBSET Images, ClaimRows(S), NEW w \in Workers,
           LET new == {[worker |-> w, img |-> j, attempt |-> attempts[j] + 1,
                        pc |-> "process"] : j \in S}
           IN  runs' = runs \cup new \/ runs' = runs
    PROVE  QueueParts'
<1> DEFINE new == {[worker |-> w, img |-> j, attempt |-> attempts[j] + 1,
                    pc |-> "process"] : j \in S}
<1>1. /\ \A i \in S : /\ status[i] = "pending" /\ status'[i] = "processing"
                      /\ attempts'[i] = attempts[i] + 1
      /\ \A i \in Images \ S : status'[i] = status[i] /\ attempts'[i] = attempts[i]
      /\ requeues' = requeues /\ stale' \subseteq stale
    BY DEF ClaimRows, Claimable, QueueInv, TypeOK
<1>2. \A i \in Images :
        /\ IsFiniteSet(RunsOf(i)')
        /\ Cardinality(RunsOf(i)) \in Nat /\ Cardinality(RunsOf(i)') \in Nat
        /\ Cardinality(RunsOf(i)') <= Cardinality(RunsOf(i)) + (IF i \in S THEN 1 ELSE 0)
    <2> SUFFICES ASSUME NEW i \in Images
                 PROVE  /\ IsFiniteSet(RunsOf(i)')
                        /\ Cardinality(RunsOf(i)) \in Nat /\ Cardinality(RunsOf(i)') \in Nat
                        /\ Cardinality(RunsOf(i)') <= Cardinality(RunsOf(i)) + (IF i \in S THEN 1 ELSE 0)
        OBVIOUS
    <2>1. IsFiniteSet(RunsOf(i)) /\ Cardinality(RunsOf(i)) \in Nat
        BY FS_CardinalityType DEF QueueInv, RunsAreClaims
    <2>2. CASE runs' = runs \cup new
        <3>1. /\ IsFiniteSet(RunsOf(i)')
              /\ Cardinality(RunsOf(i)') <= Cardinality(RunsOf(i)) + (IF i \in S THEN 1 ELSE 0)
            BY <2>2, ClaimRuns DEF QueueInv
        <3> QED BY <2>1, <3>1, FS_CardinalityType
    <2>3. CASE runs' = runs
        <3>1. RunsOf(i)' = RunsOf(i)
            BY <2>3 DEF RunsOf
        <3> QED BY <2>1, <3>1
    <2> QED BY <2>2, <2>3
<1>3. /\ \A r \in runs' : r \in runs \/ r \in new
      /\ \A r \in new : /\ r.img \in S /\ r.attempt = attempts'[r.img]
                        /\ r.pc = "process"
      /\ \A r \in runs : r.img \in Images /\ r.attempt \in Nat
    BY <1>1 DEF QueueInv, TypeOK, Run
<1>4. RunsAreClaims'
    <2>1. ASSUME NEW r \in runs'
          PROVE  r.attempt <= attempts'[r.img] /\ status'[r.img] # "absent"
        <3>1. CASE r \in new
            BY <1>1, <1>3, <3>1 DEF TypeOK
        <3>2. CASE r \in runs
            BY <1>1, <1>3, <3>2 DEF QueueInv, RunsAreClaims, TypeOK
        <3> QED BY <1>3, <3>1, <3>2
    <2>2. ASSUME NEW i \in Images, status'[i] = "absent"
          PROVE  attempts'[i] = 0 /\ requeues'[i] = 0
        BY <1>1, <2>2 DEF QueueInv, RunsAreClaims
    <2> QED BY <1>2, <2>1, <2>2 DEF RunsAreClaims
<1>5. AttemptsBounded'
    BY <1>1, BoundsAreNat DEF QueueInv, AttemptsBounded, TypeOK
<1>6. OneRunPerLease'
    BY <1>1, <1>2 DEF QueueInv, OneRunPerLease, TypeOK
<1>7. ASSUME NEW r \in runs, requeues[r.img] = 0 PROVE r.img \notin S
    <2> SUFFICES ASSUME r.img \in S PROVE FALSE
        OBVIOUS
    <2>1. r \in RunsOf(r.img) /\ IsFiniteSet(RunsOf(r.img)) /\ r.img \in Images
        BY <1>3 DEF RunsOf, QueueInv, RunsAreClaims
    <2>2. Cardinality(RunsOf(r.img)) <= 0
        BY <1>1, <1>7, <2>1 DEF QueueInv, OneRunPerLease
    <2>3. Cardinality(RunsOf(r.img)) \in Nat /\ Cardinality(RunsOf(r.img)) # 0
        BY <2>1, FS_EmptySet, FS_CardinalityType
    <2> QED BY <2>2, <2>3
<1>8. RunOwnsRow'
    <2> SUFFICES ASSUME NEW r \in runs', requeues[r.img] = 0
                 PROVE  /\ r.attempt = attempts'[r.img]
                        /\ r.pc \in {"process", "complete"} =>
                               status'[r.img] \in {"processing", "deleted"}
                        /\ r.pc = "discard" => status'[r.img] = "deleted"
        BY <1>1 DEF RunOwnsRow
    <2>1. CASE r \in new
        BY <1>1, <1>3, <2>1
    <2>2. CASE r \in runs
        BY <1>1, <1>3, <1>7, <2>2 DEF QueueInv, RunOwnsRow
    <2> QED BY <1>3, <2>1, <2>2
<1> QED BY <1>4, <1>5, <1>6, <1>8 DEF QueueParts

\* A run moves on in its code while the rows stay.  When it stops being at
\* "process" or "complete" for "discard", the row must have been found settled.
LEMMA QueueGoto ==
    ASSUME QueueInv, TypeOK', NEW r \in runs,
           NEW pc \in {"process", "complete", "discard", "fail"}, Goto(r, pc),
           UNCHANGED <<status, attempts, requeues>>,
           pc \in {"process", "complete"} => r.pc \in {"process", "complete"},
           pc = "discard" => r.pc = "complete" /\ status[r.img] # "processing"
    PROVE  QueueParts'
<1> DEFINE s == [r EXCEPT !.pc = pc]
<1>1. /\ runs' = (runs \ {r}) \cup {s}
      /\ s.img = r.img /\ s.attempt = r.attempt /\ s.pc = pc /\ r.img \in Images
    BY DEF Goto, QueueInv, TypeOK, Run
<1>2. \A i \in Images : /\ IsFiniteSet(RunsOf(i)')
                       /\ Cardinality(RunsOf(i)') <= Cardinality(RunsOf(i))
    BY GotoRuns DEF QueueInv
<1>3. \A i \in Images : Cardinality(RunsOf(i)') \in Nat /\ Cardinality(RunsOf(i)) \in Nat
    BY <1>2, FS_CardinalityType DEF QueueInv, RunsAreClaims
<1>4. RunsAreClaims'
    BY <1>1, <1>2 DEF QueueInv, RunsAreClaims
<1>5. AttemptsBounded'
    BY DEF QueueInv, AttemptsBounded
<1>6. OneRunPerLease'
    BY <1>2, <1>3 DEF QueueInv, OneRunPerLease, TypeOK
<1>7. RunOwnsRow'
    <2> SUFFICES ASSUME NEW q \in runs', requeues[q.img] = 0
                 PROVE  /\ q.attempt = attempts[q.img]
                        /\ q.pc \in {"process", "complete"} =>
                               status[q.img] \in {"processing", "deleted"}
                        /\ q.pc = "discard" => status[q.img] = "deleted"
        BY DEF RunOwnsRow
    <2>1. CASE q = s
        BY <1>1, <2>1 DEF QueueInv, RunOwnsRow
    <2>2. CASE q \in runs
        BY <2>2 DEF QueueInv, RunOwnsRow
    <2> QED BY <1>1, <2>1, <2>2
<1> QED BY <1>4, <1>5, <1>6, <1>7 DEF QueueParts

\* Runs vanish under a fault (a crash, a failure that could not be recorded).
LEMMA QueueRunsLost ==
    ASSUME QueueInv, TypeOK', runs' \subseteq runs,
           UNCHANGED <<status, attempts, requeues>>
    PROVE  QueueParts'
<1>1. \A i \in Images : /\ IsFiniteSet(RunsOf(i)')
                       /\ Cardinality(RunsOf(i)') <= Cardinality(RunsOf(i))
    BY FewerRuns DEF QueueInv
<1>2. \A i \in Images : Cardinality(RunsOf(i)') \in Nat /\ Cardinality(RunsOf(i)) \in Nat
    BY <1>1, FS_CardinalityType DEF QueueInv, RunsAreClaims
<1>3. RunsAreClaims'
    BY <1>1 DEF QueueInv, RunsAreClaims
<1>4. AttemptsBounded' /\ RunOwnsRow'
    BY DEF QueueInv, AttemptsBounded, RunOwnsRow
<1>5. OneRunPerLease'
    BY <1>1, <1>2 DEF QueueInv, OneRunPerLease, TypeOK
<1> QED BY <1>3, <1>4, <1>5 DEF QueueParts

\* A row leaves "processing", settled by complete or by fail, while the run that
\* settles it ends or goes to its catch block.  For a return to "pending" the run
\* must end: that is what keeps the next claim alone with the image.
LEMMA QueueSettled ==
    ASSUME QueueInv, TypeOK', NEW r \in runs,
           status[r.img] = "processing",
           \/ status'[r.img] \in {"accepted", "rejected"} /\ (End(r) \/ Goto(r, "fail"))
           \/ /\ status'[r.img] = (IF attempts[r.img] >= MaxAttempts
                                    THEN "failed" ELSE "pending")
              /\ End(r),
           \A i \in Images \ {r.img} : status'[i] = status[i],
           UNCHANGED <<attempts, requeues>>
    PROVE  QueueParts'
<1> DEFINE s == [r EXCEPT !.pc = "fail"]
<1>1. /\ runs' = runs \ {r} \/ runs' = (runs \ {r}) \cup {s}
      /\ s.img = r.img /\ s.attempt = r.attempt /\ s.pc = "fail"
      /\ r.img \in Images /\ r \in RunsOf(r.img)
    BY DEF Goto, End, QueueInv, TypeOK, Run, RunsOf
<1>2. \A i \in Images : /\ IsFiniteSet(RunsOf(i)')
                       /\ Cardinality(RunsOf(i)) \in Nat
                       /\ Cardinality(RunsOf(i)') \in Nat
                       /\ Cardinality(RunsOf(i)') <= Cardinality(RunsOf(i))
    <2> SUFFICES ASSUME NEW i \in Images
                 PROVE  /\ IsFiniteSet(RunsOf(i)')
                        /\ Cardinality(RunsOf(i)) \in Nat
                        /\ Cardinality(RunsOf(i)') \in Nat
                        /\ Cardinality(RunsOf(i)') <= Cardinality(RunsOf(i))
        OBVIOUS
    <2>1. Cardinality(RunsOf(i)) \in Nat
        BY FS_CardinalityType DEF QueueInv, RunsAreClaims
    <2>2. CASE End(r)
        BY <2>1, <2>2, EndRuns, FS_CardinalityType DEF QueueInv
    <2>3. CASE Goto(r, "fail")
        BY <2>1, <2>3, GotoRuns, FS_CardinalityType DEF QueueInv
    <2> QED BY <2>2, <2>3
<1>3. ASSUME End(r)
      PROVE  Cardinality(RunsOf(r.img)') = Cardinality(RunsOf(r.img)) - 1
    BY <1>1, <1>3, EndRuns DEF QueueInv
<1>4. \A q \in runs' : q = s \/ q \in runs
    BY <1>1
<1>5. \A q \in runs : q.img \in Images
    BY DEF QueueInv, TypeOK, Run
<1>6. RunsAreClaims'
    <2>1. \A q \in runs' : q.attempt <= attempts'[q.img] /\ status'[q.img] # "absent"
        BY <1>1, <1>4, <1>5 DEF QueueInv, RunsAreClaims
    <2>2. \A i \in Images : status'[i] = "absent" => attempts'[i] = 0 /\ requeues'[i] = 0
        BY <1>1 DEF QueueInv, RunsAreClaims
    <2> QED BY <1>2, <2>1, <2>2 DEF RunsAreClaims
<1>7. AttemptsBounded'
    BY <1>1, BoundsAreNat DEF QueueInv, AttemptsBounded, TypeOK
<1>8. OneRunPerLease'
    <2>1. Cardinality(RunsOf(r.img)') <=
              requeues'[r.img] + (IF status'[r.img] = "pending" THEN 0 ELSE 1)
        <3>1. Cardinality(RunsOf(r.img)) <= requeues[r.img] + 1
            BY <1>1 DEF QueueInv, OneRunPerLease
        <3>2. CASE status'[r.img] = "pending"
            <4>1. End(r)
                BY <3>2
            <4> QED BY <1>1, <1>2, <1>3, <3>1, <3>2, <4>1 DEF QueueInv, TypeOK
        <3>3. CASE status'[r.img] # "pending"
            BY <1>1, <1>2, <3>1, <3>3 DEF QueueInv, TypeOK
        <3> QED BY <3>2, <3>3
    <2>2. ASSUME NEW i \in Images \ {r.img}
          PROVE  Cardinality(RunsOf(i)') <=
                     requeues'[i] + (IF status'[i] = "pending" THEN 0 ELSE 1)
        BY <1>2 DEF QueueInv, OneRunPerLease, TypeOK
    <2> QED BY <2>1, <2>2 DEF OneRunPerLease
<1>9. ASSUME NEW q \in runs', requeues[r.img] = 0, q.img = r.img
      PROVE  q = s
    <2> SUFFICES ASSUME q # s PROVE FALSE
        OBVIOUS
    <2>1. q \in RunsOf(r.img) /\ q # r
        BY <1>1, <1>9, <1>4 DEF RunsOf
    <2>2. /\ IsFiniteSet(RunsOf(r.img)) /\ Cardinality(RunsOf(r.img)) \in Nat
          /\ Cardinality(RunsOf(r.img)) <= 1
        BY <1>1, <1>2, <1>9 DEF QueueInv, OneRunPerLease, RunsAreClaims
    <2>3. /\ IsFiniteSet(RunsOf(r.img) \ {r})
          /\ Cardinality(RunsOf(r.img) \ {r}) = Cardinality(RunsOf(r.img)) - 1
        BY <1>1, <2>2, FS_RemoveElement
    <2>4. Cardinality(RunsOf(r.img) \ {r}) \in Nat
        BY <2>3, FS_CardinalityType
    <2>5. RunsOf(r.img) \ {r} # {}
        BY <2>1
    <2>6. Cardinality(RunsOf(r.img) \ {r}) # 0
        BY <2>3, <2>5, FS_EmptySet
    <2> QED BY <2>2, <2>3, <2>4, <2>6
<1>10. RunOwnsRow'
    <2> SUFFICES ASSUME NEW q \in runs', requeues[q.img] = 0
                 PROVE  /\ q.attempt = attempts[q.img]
                        /\ q.pc \in {"process", "complete"} =>
                               status'[q.img] \in {"processing", "deleted"}
                        /\ q.pc = "discard" => status'[q.img] = "deleted"
        BY DEF RunOwnsRow
    <2>1. CASE q.img = r.img
        BY <1>1, <1>9, <2>1 DEF QueueInv, RunOwnsRow
    <2>2. CASE q.img # r.img
        BY <1>1, <1>4, <1>5, <2>2 DEF QueueInv, RunOwnsRow
    <2> QED BY <2>1, <2>2
<1> QED BY <1>6, <1>7, <1>8, <1>10 DEF QueueParts

\* complete settles the row, whether or not its answer arrives.
LEMMA QueueDecided ==
    ASSUME QueueInv, TypeOK', NEW r \in runs, Decide(r.img), End(r) \/ Goto(r, "fail")
    PROVE  QueueParts'
<1>1. /\ status[r.img] = "processing" /\ r.img \in Images
      /\ status'[r.img] \in {"accepted", "rejected"}
      /\ \A i \in Images \ {r.img} : status'[i] = status[i]
      /\ UNCHANGED <<attempts, requeues>>
    BY DEF Decide, Verdict, QueueInv, TypeOK, Run
<1> QED BY <1>1, QueueSettled

\* A run ends without effect on its row.
LEMMA QueueDropped ==
    ASSUME QueueInv, TypeOK', NEW r \in runs, End(r),
           UNCHANGED <<status, attempts, requeues>>
    PROVE  QueueParts'
<1>1. runs' = runs \ {r}
    BY DEF End
<1>2. \A i \in Images : /\ IsFiniteSet(RunsOf(i)')
                       /\ Cardinality(RunsOf(i)') <= Cardinality(RunsOf(i))
    BY <1>1, FewerRuns DEF QueueInv
<1>3. \A i \in Images : Cardinality(RunsOf(i)') \in Nat /\ Cardinality(RunsOf(i)) \in Nat
    BY <1>2, FS_CardinalityType DEF QueueInv, RunsAreClaims
<1>4. RunsAreClaims'
    BY <1>1, <1>2 DEF QueueInv, RunsAreClaims
<1>5. AttemptsBounded' /\ RunOwnsRow'
    BY <1>1 DEF QueueInv, AttemptsBounded, RunOwnsRow
<1>6. OneRunPerLease'
    BY <1>2, <1>3 DEF QueueInv, OneRunPerLease, TypeOK
<1> QED BY <1>4, <1>5, <1>6 DEF QueueParts

LEMMA QueueRequeue ==
    ASSUME QueueInv, TypeOK', RequeueStale
    PROVE  QueueParts'
<1>1. /\ \A i \in Images : RunsOf(i)' = RunsOf(i)
      /\ \A i \in Requeued : /\ i \in Images /\ status[i] = "processing"
                             /\ status'[i] = "pending" /\ requeues'[i] = requeues[i] + 1
      /\ \A i \in Images \ Requeued : status'[i] = status[i] /\ requeues'[i] = requeues[i]
      /\ UNCHANGED <<attempts, runs, faults>>
    BY DEF RequeueStale, Requeued, RunsOf, QueueInv, TypeOK
<1>2. \A r \in runs : r.img \in Images
    BY DEF QueueInv, TypeOK, Run
<1>3. RunsAreClaims'
    BY <1>1, <1>2 DEF QueueInv, RunsAreClaims
<1>4. AttemptsBounded'
    BY <1>1, BoundsAreNat DEF QueueInv, AttemptsBounded, TypeOK
<1>5. OneRunPerLease'
    BY <1>1 DEF QueueInv, OneRunPerLease, TypeOK
<1>6. RunOwnsRow'
    BY <1>1, <1>2 DEF QueueInv, RunOwnsRow, TypeOK
<1> QED BY <1>3, <1>4, <1>5, <1>6 DEF QueueParts

LEMMA QueueInit == Init => QueueInv
<1> SUFFICES ASSUME Init PROVE QueueInv
    OBVIOUS
<1>1. TypeOK
    BY TypeInit
<1>2. \A i \in Images : RunsOf(i) = {}
    BY DEF Init, RunsOf
<1>3. IsFiniteSet({}) /\ Cardinality({}) = 0
    BY FS_EmptySet
<1>4. RunsAreClaims /\ OneRunPerLease
    BY <1>2, <1>3 DEF Init, RunsAreClaims, OneRunPerLease
<1>5. AttemptsBounded
    BY BoundsAreNat DEF Init, AttemptsBounded
<1>6. RunOwnsRow
    BY DEF Init, RunOwnsRow
<1> QED BY <1>1, <1>4, <1>5, <1>6 DEF QueueInv

LEMMA QueueStep == QueueInv /\ [Next]_vars => QueueInv'
<1> SUFFICES ASSUME QueueInv, [Next]_vars PROVE QueueInv'
    OBVIOUS
<1>0. TypeOK /\ TypeOK'
    BY TypeStep DEF QueueInv
<1> SUFFICES QueueParts'
    BY <1>0 DEF QueueInv, QueueParts
<1>1. ASSUME NEW i \in Images, Upload(i) PROVE QueueParts'
    BY <1>0, <1>1, QueueUpload
<1>2. ASSUME NEW i \in Images, Delete(i) PROVE QueueParts'
    BY <1>0, <1>2, QueueDelete
<1>3. ASSUME NEW i \in Images, BackoffElapses(i) PROVE QueueParts'
    BY <1>0, <1>3, QueueSame DEF BackoffElapses
<1>4. ASSUME NEW i \in Images, LeaseExpires(i) PROVE QueueParts'
    BY <1>0, <1>4, QueueSame DEF LeaseExpires, LeaseEnds
<1>5. ASSUME NEW i \in Images, LeaseOutrun(i) PROVE QueueParts'
    BY <1>0, <1>5, QueueSame DEF LeaseOutrun, LeaseEnds
<1>6. ASSUME NEW w \in Workers, Claim(w) PROVE QueueParts'
    BY <1>0, <1>6, QueueClaimed DEF Claim
<1>7. ASSUME NEW w \in Workers, ClaimLost(w) PROVE QueueParts'
    BY <1>0, <1>7, QueueClaimed DEF ClaimLost, Fault
<1>8. ASSUME NEW w \in Workers, Crash(w) PROVE QueueParts'
    BY <1>0, <1>8, QueueRunsLost DEF Crash, Fault
<1>9. ASSUME NEW r \in runs, Processed(r) \/ ProcessThrew(r) PROVE QueueParts'
    BY <1>0, <1>9, QueueGoto DEF Processed, ProcessThrew, RowsSame
<1>10. ASSUME NEW r \in runs, Complete(r) PROVE QueueParts'
    <2>1. CASE Decide(r.img) /\ End(r)
        BY <1>0, <2>1, QueueDecided
    <2>2. CASE status[r.img] # "processing" /\ Goto(r, "discard") /\ RowsSame
        BY <1>0, <1>10, <2>2, QueueGoto DEF Complete, RowsSame
    <2> QED BY <1>10, <2>1, <2>2 DEF Complete
<1>11. ASSUME NEW r \in runs, CompleteThrew(r) PROVE QueueParts'
    <2>1. CASE Decide(r.img) /\ Goto(r, "fail")
        BY <1>0, <2>1, QueueDecided
    <2>2. CASE Goto(r, "fail") /\ RowsSame
        BY <1>0, <2>2, QueueGoto DEF RowsSame
    <2> QED BY <1>11, <2>1, <2>2 DEF CompleteThrew
<1>12. ASSUME NEW r \in runs, Discarded(r) \/ DiscardThrew(r) PROVE QueueParts'
    <2>1. CASE DiscardThrew(r)
        BY <1>0, <2>1, QueueGoto DEF DiscardThrew, RowsSame
    <2>2. CASE Discarded(r)
        BY <1>0, <2>2, QueueDropped DEF Discarded, RowsSame
    <2> QED BY <1>12, <2>1, <2>2
<1>13. ASSUME NEW r \in runs, Fail(r) PROVE QueueParts'
    <2>1. CASE status[r.img] = "processing"
        <3>1. /\ status'[r.img] = (IF attempts[r.img] >= MaxAttempts THEN "failed" ELSE "pending")
              /\ \A i \in Images \ {r.img} : status'[i] = status[i]
              /\ End(r) /\ UNCHANGED <<attempts, requeues>>
            BY <1>0, <1>13, <2>1 DEF Fail, TypeOK, Run
        <3> QED BY <1>0, <2>1, <3>1, QueueSettled
    <2>2. CASE status[r.img] # "processing"
        BY <1>0, <1>13, <2>2, QueueDropped DEF Fail
    <2> QED BY <2>1, <2>2
<1>14. ASSUME NEW r \in runs, FailThrew(r) PROVE QueueParts'
    BY <1>0, <1>14, QueueRunsLost DEF FailThrew, End, Fault
<1>15. ASSUME RequeueStale PROVE QueueParts'
    BY <1>0, <1>15, QueueRequeue
<1>16. ASSUME UNCHANGED vars PROVE QueueParts'
    BY <1>0, <1>16, QueueSame DEF vars
<1> QED
    BY <1>1, <1>2, <1>3, <1>4, <1>5, <1>6, <1>7, <1>8, <1>9, <1>10, <1>11,
       <1>12, <1>13, <1>14, <1>15, <1>16 DEF Next, RunStep

\* Claims, attempts, leases and the fault history of the queue stay consistent.
THEOREM QueueInvariant == Spec => []QueueInv
BY QueueInit, QueueStep, PTL DEF Spec

-----------------------------------------------------------------------------
(* The decisions. *)

Verdicts == {"accepted", "rejected", "deleted"}

\* Steps that move images between queue states, leaving verdicts alone.
LEMMA DecisionSame ==
    ASSUME TypeOK, TypeOK', DecisionInv, similarTo' = similarTo,
           \A i \in Images : status[i] \in Verdicts \/ status'[i] \in Verdicts =>
                               status'[i] = status[i] /\ attempts'[i] = attempts[i]
    PROVE  DecisionInv'
<1>1. NoTwoSimilarAccepted' /\ AcceptedAreGood'
    BY DEF DecisionInv, NoTwoSimilarAccepted, AcceptedAreGood, Verdicts
<1>2. SimilarToAccepted'
    <2> SUFFICES ASSUME NEW i \in Images, similarTo[i] # None
                 PROVE  /\ status'[i] = "rejected"
                        /\ similarTo[i] \in Similar[i]
                        /\ status'[similarTo[i]] = "accepted"
        BY DEF SimilarToAccepted
    <2>1. /\ status[i] = "rejected" /\ similarTo[i] \in Similar[i]
          /\ status[similarTo[i]] = "accepted" /\ similarTo[i] \in Images
        BY DEF DecisionInv, SimilarToAccepted, TypeOK
    <2> QED BY <2>1 DEF Verdicts
<1>3. RejectionJustified'
    <2> SUFFICES ASSUME NEW i \in Images \ (Flawed \cup Unreadable),
                        status'[i] = "rejected", attempts'[i] > 0
                 PROVE  \E j \in Similar[i] :
                            \/ similarTo[i] = j /\ status'[j] = "accepted"
                            \/ status'[j] = "deleted"
        BY DEF RejectionJustified
    <2>1. status[i] = "rejected" /\ attempts[i] > 0
        BY DEF Verdicts
    <2>2. PICK j \in Similar[i] : \/ similarTo[i] = j /\ status[j] = "accepted"
                                 \/ status[j] = "deleted"
        BY <2>1 DEF DecisionInv, RejectionJustified
    <2>3. j \in Images
        BY SimilarIsSymmetric
    <2> QED BY <2>2, <2>3 DEF Verdicts
<1> QED BY <1>1, <1>2, <1>3 DEF DecisionInv

LEMMA DecisionUpload ==
    ASSUME IInv, TypeOK', NEW i \in Images, Upload(i)
    PROVE  DecisionInv'
<1>1. /\ status[i] = "absent" /\ status'[i] \in {"pending", "rejected"}
      /\ \A j \in Images \ {i} : status'[j] = status[j]
      /\ UNCHANGED <<attempts, similarTo>> /\ attempts[i] = 0 /\ TypeOK
    BY DEF Upload, IInv, QueueInv, RunsAreClaims, TypeOK
<1>2. NoTwoSimilarAccepted' /\ AcceptedAreGood'
    BY <1>1 DEF IInv, DecisionInv, NoTwoSimilarAccepted, AcceptedAreGood
<1>3. SimilarToAccepted'
    BY <1>1 DEF IInv, DecisionInv, SimilarToAccepted, TypeOK
<1>4. RejectionJustified'
    BY <1>1, SimilarIsSymmetric DEF IInv, DecisionInv, RejectionJustified
<1> QED BY <1>2, <1>3, <1>4 DEF DecisionInv

\* Deleting a match leaves the rejected image justified by a deleted one.
LEMMA DecisionDelete ==
    ASSUME IInv, TypeOK', NEW i \in Images, Delete(i)
    PROVE  DecisionInv'
<1>1. /\ status'[i] = "deleted" /\ UNCHANGED attempts /\ TypeOK
      /\ \A j \in Images \ {i} : status'[j] = status[j]
      /\ \A j \in Images : similarTo'[j] =
             IF j = i \/ similarTo[j] = i THEN None ELSE similarTo[j]
    BY DEF Delete, IInv, QueueInv, TypeOK
<1>2. NoTwoSimilarAccepted' /\ AcceptedAreGood'
    BY <1>1 DEF IInv, DecisionInv, NoTwoSimilarAccepted, AcceptedAreGood
<1>3. SimilarToAccepted'
    BY <1>1 DEF IInv, DecisionInv, SimilarToAccepted, TypeOK
<1>4. RejectionJustified'
    <2> SUFFICES ASSUME NEW k \in Images \ (Flawed \cup Unreadable),
                        status'[k] = "rejected", attempts[k] > 0
                 PROVE  \E j \in Similar[k] :
                            \/ similarTo'[k] = j /\ status'[j] = "accepted"
                            \/ status'[j] = "deleted"
        BY <1>1 DEF RejectionJustified
    <2>1. k # i /\ status[k] = "rejected"
        BY <1>1
    <2>2. PICK j \in Similar[k] : \/ similarTo[k] = j /\ status[j] = "accepted"
                                 \/ status[j] = "deleted"
        BY <2>1 DEF IInv, DecisionInv, RejectionJustified
    <2>3. j \in Images
        BY SimilarIsSymmetric
    <2> QED BY <1>1, <2>1, <2>2, <2>3
<1> QED BY <1>2, <1>3, <1>4 DEF DecisionInv

\* The decision itself: the scan sees every accepted image, so what it does not
\* find similar may be accepted.
LEMMA DecisionDecide ==
    ASSUME IInv, TypeOK', NEW i \in Images, Decide(i)
    PROVE  DecisionInv'
<1>1. PICK match \in MatchOf(i) :
        /\ status' = [status EXCEPT ![i] = Verdict(i, match)]
        /\ similarTo' = [similarTo EXCEPT ![i] = match]
    BY DEF Decide
<1>2. TypeOK /\ UNCHANGED attempts /\ status[i] = "processing"
    BY DEF Decide, IInv, QueueInv
<1>3. /\ status'[i] = Verdict(i, match) /\ similarTo'[i] = match
      /\ \A j \in Images \ {i} : status'[j] = status[j] /\ similarTo'[j] = similarTo[j]
    BY <1>1, <1>2 DEF TypeOK
<1>4. \/ match = None /\ Matches(i) = {}
      \/ match \in Matches(i) /\ match # None
    BY SimilarIsSymmetric, NoneIsNoImage DEF MatchOf, Matches
<1>5. /\ status'[i] = "accepted" => i \notin Flawed \cup Unreadable /\ Matches(i) = {}
      /\ match # None => /\ status'[i] = "rejected" /\ match \in Similar[i]
                         /\ match \in Images \ {i} /\ status[match] = "accepted"
      /\ match = None /\ i \notin Flawed \cup Unreadable => status'[i] = "accepted"
    BY <1>3, <1>4, SimilarIsSymmetric DEF Verdict, Matches
<1>6. AcceptedAreGood'
    BY <1>3, <1>5 DEF IInv, DecisionInv, AcceptedAreGood
<1>7. NoTwoSimilarAccepted'
    <2> SUFFICES ASSUME NEW j \in Images, NEW k \in Images,
                        status'[j] = "accepted", status'[k] = "accepted", k \in Similar[j]
                 PROVE  FALSE
        BY DEF NoTwoSimilarAccepted
    <2>1. j # k /\ j \in Similar[k]
        BY SimilarIsSymmetric
    <2>2. CASE j = i
        BY <1>3, <1>5, <2>1, <2>2 DEF Matches
    <2>3. CASE k = i
        BY <1>3, <1>5, <2>1, <2>3 DEF Matches
    <2>4. CASE j # i /\ k # i
        BY <1>3, <2>4 DEF IInv, DecisionInv, NoTwoSimilarAccepted
    <2> QED BY <2>2, <2>3, <2>4
<1>8. SimilarToAccepted'
    <2> SUFFICES ASSUME NEW j \in Images, similarTo'[j] # None
                 PROVE  /\ status'[j] = "rejected" /\ similarTo'[j] \in Similar[j]
                        /\ status'[similarTo'[j]] = "accepted"
        BY DEF SimilarToAccepted
    <2>1. CASE j = i
        BY <1>3, <1>5, <2>1
    <2>2. CASE j # i
        <3>1. /\ status[j] = "rejected" /\ similarTo[j] \in Similar[j]
              /\ status[similarTo[j]] = "accepted" /\ similarTo[j] \in Images
            BY <1>2, <1>3, <2>2 DEF IInv, DecisionInv, SimilarToAccepted, TypeOK
        <3> QED BY <1>2, <1>3, <2>2, <3>1
    <2> QED BY <2>1, <2>2
<1>9. RejectionJustified'
    <2> SUFFICES ASSUME NEW k \in Images \ (Flawed \cup Unreadable),
                        status'[k] = "rejected", attempts[k] > 0
                 PROVE  \E j \in Similar[k] :
                            \/ similarTo'[k] = j /\ status'[j] = "accepted"
                            \/ status'[j] = "deleted"
        BY <1>2 DEF RejectionJustified
    <2>1. CASE k = i
        BY <1>3, <1>5, <2>1
    <2>2. CASE k # i
        <3>1. PICK j \in Similar[k] : \/ similarTo[k] = j /\ status[j] = "accepted"
                                     \/ status[j] = "deleted"
            BY <1>3, <2>2 DEF IInv, DecisionInv, RejectionJustified
        <3>2. j \in Images /\ j # i
            BY <1>2, <3>1, SimilarIsSymmetric
        <3> QED BY <1>3, <2>2, <3>1, <3>2
    <2> QED BY <2>1, <2>2
<1> QED BY <1>6, <1>7, <1>8, <1>9 DEF DecisionInv

LEMMA DecisionInit == Init => DecisionInv
BY DEF Init, DecisionInv, NoTwoSimilarAccepted, SimilarToAccepted, RejectionJustified,
       AcceptedAreGood

LEMMA DecisionStep == IInv /\ [Next]_vars => DecisionInv'
<1> SUFFICES ASSUME IInv, [Next]_vars PROVE DecisionInv'
    OBVIOUS
<1>0. TypeOK /\ TypeOK' /\ DecisionInv
    BY TypeStep DEF IInv, QueueInv
<1>1. ASSUME NEW i \in Images, Upload(i) PROVE DecisionInv'
    BY <1>0, <1>1, DecisionUpload
<1>2. ASSUME NEW i \in Images, Delete(i) PROVE DecisionInv'
    BY <1>0, <1>2, DecisionDelete
<1>3. ASSUME UNCHANGED <<status, attempts, similarTo>> PROVE DecisionInv'
    BY <1>0, <1>3, DecisionSame
<1>4. ASSUME NEW S \in SUBSET Images, ClaimRows(S) PROVE DecisionInv'
    <2>1. /\ similarTo' = similarTo
          /\ \A i \in Images : status[i] \in Verdicts \/ status'[i] \in Verdicts =>
                                  status'[i] = status[i] /\ attempts'[i] = attempts[i]
        BY <1>0, <1>4 DEF ClaimRows, Claimable, Verdicts
    <2> QED BY <1>0, <2>1, DecisionSame
<1>5. ASSUME NEW r \in runs, Decide(r.img) PROVE DecisionInv'
    <2>1. r.img \in Images
        BY <1>0 DEF TypeOK, Run
    <2> QED BY <1>0, <1>5, <2>1, DecisionDecide
<1>6. ASSUME NEW r \in runs, Fail(r) PROVE DecisionInv'
    <2>1. /\ similarTo' = similarTo
          /\ \A i \in Images : status[i] \in Verdicts \/ status'[i] \in Verdicts =>
                                  status'[i] = status[i] /\ attempts'[i] = attempts[i]
        BY <1>0, <1>6 DEF Fail, Verdicts, TypeOK
    <2> QED BY <1>0, <2>1, DecisionSame
<1>7. ASSUME RequeueStale PROVE DecisionInv'
    <2>1. /\ similarTo' = similarTo
          /\ \A i \in Images : status[i] \in Verdicts \/ status'[i] \in Verdicts =>
                                  status'[i] = status[i] /\ attempts'[i] = attempts[i]
        BY <1>0, <1>7 DEF RequeueStale, Requeued, Verdicts
    <2> QED BY <1>0, <2>1, DecisionSame
<1>8. ASSUME NEW i \in Images,
             BackoffElapses(i) \/ LeaseExpires(i) \/ LeaseOutrun(i)
      PROVE  DecisionInv'
    BY <1>3, <1>8 DEF BackoffElapses, LeaseExpires, LeaseOutrun, LeaseEnds
<1>9. ASSUME NEW w \in Workers, Claim(w) \/ ClaimLost(w) \/ Crash(w) PROVE DecisionInv'
    BY <1>3, <1>4, <1>9 DEF Claim, ClaimLost, Crash
<1>10. ASSUME NEW r \in runs, RunStep(r) \/ FailThrew(r) PROVE DecisionInv'
    BY <1>3, <1>5, <1>6, <1>10
       DEF RunStep, FailThrew, Processed, ProcessThrew, Complete, CompleteThrew,
           Discarded, DiscardThrew, RowsSame
<1> QED
    BY <1>1, <1>2, <1>3, <1>7, <1>8, <1>9, <1>10 DEF Next, vars

\* The inductive invariant holds in every reachable state.
THEOREM Invariant == Spec => []IInv
<1>1. Init => IInv
    BY QueueInit, DecisionInit DEF IInv
<1>2. IInv /\ [Next]_vars => IInv'
    BY QueueStep, DecisionStep DEF IInv
<1> QED BY <1>1, <1>2, PTL DEF Spec

-----------------------------------------------------------------------------
(* What follows for the properties the runs check. *)

\* Race-free duplicate detection, whatever the number of workers and images.
THEOREM Uniqueness == Spec => []NoTwoSimilarAccepted
<1>1. IInv => NoTwoSimilarAccepted
    BY DEF IInv, DecisionInv
<1> QED BY <1>1, Invariant, PTL

\* A recorded match is an accepted image: similar_to_id never dangles.
THEOREM Justification == Spec => []SimilarToAccepted
<1>1. IInv => SimilarToAccepted
    BY DEF IInv, DecisionInv
<1> QED BY <1>1, Invariant, PTL

\* A sound image is rejected by complete only for a similar one that was accepted.
THEOREM NoGroundlessRejection == Spec => []RejectionJustified
<1>1. IInv => RejectionJustified
    BY DEF IInv, DecisionInv
<1> QED BY <1>1, Invariant, PTL

\* WORKER_MAX_ATTEMPTS is exceeded by at most the number of requeues.
THEOREM BoundedAttempts == Spec => []AttemptsBounded
<1>1. IInv => AttemptsBounded
    BY DEF IInv, QueueInv
<1> QED BY <1>1, Invariant, PTL

\* Without a requeue no two runs of one image coexist, on any workers.
THEOREM Exclusion == Spec => []OneRunPerLease
<1>1. IInv => OneRunPerLease
    BY DEF IInv, QueueInv
<1> QED BY <1>1, Invariant, PTL

\* Without a requeue a run finds its row as it claimed it.
THEOREM RunOwnership == Spec => []RunOwnsRow
<1>1. IInv => RunOwnsRow
    BY DEF IInv, QueueInv
<1> QED BY <1>1, Invariant, PTL

\* Verdicts change by deletion only, whatever late or repeated runs do.
THEOREM FinalVerdicts == Spec => VerdictsAreFinal
<1> DEFINE A == \A i \in Images :
                    status[i] \in Settled => /\ status'[i] \in {status[i], "deleted"}
                                             /\ similarTo'[i] \in {similarTo[i], None}
<1>1. TypeOK /\ [Next]_vars => [A]_vars
    <2> SUFFICES ASSUME TypeOK, Next PROVE A
        BY DEF vars
    <2>1. ASSUME NEW i \in Images, Upload(i) PROVE A
        BY <2>1 DEF Upload, TypeOK, Settled
    <2>2. ASSUME NEW i \in Images, Delete(i) PROVE A
        BY <2>2 DEF Delete, TypeOK, Settled
    <2>3. ASSUME UNCHANGED <<status, similarTo>> PROVE A
        BY <2>3
    <2>4. ASSUME NEW S \in SUBSET Images, ClaimRows(S) PROVE A
        BY <2>4 DEF ClaimRows, Claimable, Settled
    <2>5. ASSUME NEW r \in runs, Decide(r.img) PROVE A
        BY <2>5 DEF Decide, Settled, TypeOK
    <2>6. ASSUME NEW r \in runs, Fail(r) PROVE A
        BY <2>6 DEF Fail, Settled, TypeOK
    <2>7. ASSUME RequeueStale PROVE A
        BY <2>7 DEF RequeueStale, Requeued, Settled
    <2>8. ASSUME NEW i \in Images,
                 BackoffElapses(i) \/ LeaseExpires(i) \/ LeaseOutrun(i) PROVE A
        BY <2>3, <2>8 DEF BackoffElapses, LeaseExpires, LeaseOutrun, LeaseEnds
    <2>9. ASSUME NEW w \in Workers, Claim(w) \/ ClaimLost(w) \/ Crash(w) PROVE A
        BY <2>3, <2>4, <2>9 DEF Claim, ClaimLost, Crash
    <2>10. ASSUME NEW r \in runs, RunStep(r) \/ FailThrew(r) PROVE A
        BY <2>3, <2>5, <2>6, <2>10
           DEF RunStep, FailThrew, Processed, ProcessThrew, Complete, CompleteThrew,
           Discarded, DiscardThrew, RowsSame
    <2> QED BY <2>1, <2>2, <2>7, <2>8, <2>9, <2>10 DEF Next
<1>2. Spec => [][A]_vars
    BY <1>1, TypeCorrect, PTL DEF Spec
<1> QED BY <1>2 DEF VerdictsAreFinal

-----------------------------------------------------------------------------
(* The queue implements ImageLifecycle. *)

\* Steps within the queue are invisible to a client.
LEMMA HiddenStep ==
    ASSUME similarTo' = similarTo,
           \A i \in Images : PhaseOf(status'[i]) = PhaseOf(status[i])
    PROVE  UNCHANGED Lifecycle!lifecycleVars
BY DEF Lifecycle!lifecycleVars

LEMMA LifecycleInitial == Init => Lifecycle!LifecycleInit
BY DEF Init, Lifecycle!LifecycleInit, PhaseOf

\* A decision is Accept, RejectDuplicate or RejectFlawed of the abstract image.
LEMMA DecideImplements ==
    ASSUME TypeOK, SimilarToAccepted, NEW i \in Images, Decide(i)
    PROVE  Lifecycle!LifecycleNext
<1> DEFINE phase == [j \in Images |-> PhaseOf(status[j])]
<1>1. PICK match \in MatchOf(i) :
        /\ status' = [status EXCEPT ![i] = Verdict(i, match)]
        /\ similarTo' = [similarTo EXCEPT ![i] = match]
    BY DEF Decide
<1>2. /\ phase[i] = "queued"
      /\ [j \in Images |-> PhaseOf(status[j])]' = [phase EXCEPT ![i] = Verdict(i, match)]
    BY <1>1 DEF Decide, TypeOK, PhaseOf, Verdict
<1>3. \A j \in Images : PhaseOf(status[j]) = "accepted" <=> status[j] = "accepted"
    BY DEF PhaseOf
<1>4. Similar[i] \subseteq Images
    BY SimilarIsSymmetric
<1>5. Lifecycle!AcceptedLike(i) = {j \in Similar[i] : status[j] = "accepted"}
    BY <1>3, <1>4 DEF Lifecycle!AcceptedLike
<1>6. CASE match # None
    <2>1. match \in Lifecycle!AcceptedLike(i) /\ i \notin Unreadable
        BY <1>5, <1>6 DEF MatchOf, Matches
    <2>2. Verdict(i, match) = "rejected"
        BY <1>6 DEF Verdict
    <2>3. Lifecycle!RejectDuplicate(i)
        BY <1>1, <1>2, <2>1, <2>2 DEF Lifecycle!RejectDuplicate
    <2> QED BY <2>3 DEF Lifecycle!LifecycleNext
<1>7. CASE match = None
    <2>1. Matches(i) = {}
        BY <1>4, <1>7, NoneIsNoImage DEF MatchOf, Matches
    <2>2. similarTo' = similarTo
        BY <1>1, <1>7 DEF Decide, SimilarToAccepted, TypeOK
    <2>3. CASE i \in Flawed \cup Unreadable
        <3>1. Lifecycle!RejectFlawed(i)
            BY <1>2, <1>7, <2>2, <2>3 DEF Lifecycle!RejectFlawed, Verdict
        <3> QED BY <3>1 DEF Lifecycle!LifecycleNext
    <2>4. CASE i \notin Flawed \cup Unreadable
        <3>1. Lifecycle!AcceptedLike(i) = {}
            BY <1>5, <2>1, <2>4 DEF Matches
        <3>2. Lifecycle!Accept(i)
            BY <1>2, <1>7, <2>2, <2>4, <3>1 DEF Lifecycle!Accept, Verdict
        <3> QED BY <3>2 DEF Lifecycle!LifecycleNext
    <2> QED BY <2>3, <2>4
<1> QED BY <1>6, <1>7

LEMMA FailImplements ==
    ASSUME TypeOK, NEW r \in runs, Fail(r)
    PROVE  [Lifecycle!LifecycleNext]_(Lifecycle!lifecycleVars)
<1> DEFINE phase == [j \in Images |-> PhaseOf(status[j])]
<1>0. r.img \in Images
    BY DEF TypeOK, Run
<1>1. CASE status[r.img] = "processing" /\ attempts[r.img] >= MaxAttempts
    <2>1. /\ phase[r.img] = "queued" /\ similarTo' = similarTo
          /\ [j \in Images |-> PhaseOf(status[j])]' = [phase EXCEPT ![r.img] = "failed"]
        BY <1>0, <1>1 DEF Fail, PhaseOf, TypeOK
    <2>2. Lifecycle!GiveUp(r.img)
        BY <2>1 DEF Lifecycle!GiveUp
    <2> QED BY <1>0, <2>2 DEF Lifecycle!LifecycleNext
<1>2. CASE ~(status[r.img] = "processing" /\ attempts[r.img] >= MaxAttempts)
    <2>1. /\ similarTo' = similarTo
          /\ \A i \in Images : PhaseOf(status'[i]) = PhaseOf(status[i])
        BY <1>0, <1>2 DEF Fail, PhaseOf, TypeOK
    <2> QED BY <2>1, HiddenStep
<1> QED BY <1>1, <1>2

LEMMA UploadImplements ==
    ASSUME TypeOK, NEW i \in Images, Upload(i)
    PROVE  Lifecycle!LifecycleNext
<1> DEFINE phase == [j \in Images |-> PhaseOf(status[j])]
<1>1. PICK s \in {"pending", "rejected"} : status' = [status EXCEPT ![i] = s]
    BY DEF Upload
<1>2. /\ phase[i] = "absent" /\ similarTo' = similarTo
      /\ PhaseOf(s) \in {"queued", "rejected"}
      /\ [j \in Images |-> PhaseOf(status[j])]' = [phase EXCEPT ![i] = PhaseOf(s)]
    BY <1>1 DEF Upload, PhaseOf, TypeOK
<1>3. Lifecycle!Submit(i)
    BY <1>2 DEF Lifecycle!Submit
<1> QED BY <1>3 DEF Lifecycle!LifecycleNext

LEMMA DeleteImplements ==
    ASSUME TypeOK, NEW i \in Images, Delete(i)
    PROVE  Lifecycle!LifecycleNext
<1> DEFINE phase == [j \in Images |-> PhaseOf(status[j])]
<1>1. /\ phase[i] \notin {"absent", "deleted"}
      /\ [j \in Images |-> PhaseOf(status[j])]' = [phase EXCEPT ![i] = "deleted"]
    BY DEF Delete, PhaseOf, NoRow, TypeOK
<1>2. Lifecycle!Remove(i)
    BY <1>1 DEF Lifecycle!Remove, Delete
<1> QED BY <1>2 DEF Lifecycle!LifecycleNext

LEMMA LifecycleStep ==
    IInv /\ [Next]_vars => [Lifecycle!LifecycleNext]_(Lifecycle!lifecycleVars)
<1> DEFINE Goal == [Lifecycle!LifecycleNext]_(Lifecycle!lifecycleVars)
<1> SUFFICES ASSUME IInv, [Next]_vars PROVE Goal
    OBVIOUS
<1>0. TypeOK /\ SimilarToAccepted
    BY DEF IInv, QueueInv, DecisionInv
<1>1. ASSUME NEW i \in Images, Upload(i) \/ Delete(i) PROVE Goal
    BY <1>0, <1>1, UploadImplements, DeleteImplements
<1>2. ASSUME UNCHANGED <<status, similarTo>> PROVE Goal
    BY <1>2, HiddenStep
<1>3. ASSUME NEW S \in SUBSET Images, ClaimRows(S) PROVE Goal
    <2>1. /\ similarTo' = similarTo
          /\ \A i \in Images : PhaseOf(status'[i]) = PhaseOf(status[i])
        BY <1>3 DEF ClaimRows, Claimable, PhaseOf
    <2> QED BY <2>1, HiddenStep
<1>4. ASSUME NEW r \in runs, Decide(r.img) PROVE Goal
    <2>1. r.img \in Images
        BY <1>0 DEF TypeOK, Run
    <2> QED BY <1>0, <1>4, <2>1, DecideImplements
<1>5. ASSUME NEW r \in runs, Fail(r) PROVE Goal
    BY <1>0, <1>5, FailImplements
<1>6. ASSUME RequeueStale PROVE Goal
    <2>1. /\ similarTo' = similarTo
          /\ \A i \in Images : PhaseOf(status'[i]) = PhaseOf(status[i])
        BY <1>6 DEF RequeueStale, Requeued, PhaseOf
    <2> QED BY <2>1, HiddenStep
<1>7. ASSUME NEW i \in Images,
             BackoffElapses(i) \/ LeaseExpires(i) \/ LeaseOutrun(i) PROVE Goal
    BY <1>2, <1>7 DEF BackoffElapses, LeaseExpires, LeaseOutrun, LeaseEnds
<1>8. ASSUME NEW w \in Workers, Claim(w) \/ ClaimLost(w) \/ Crash(w) PROVE Goal
    BY <1>2, <1>3, <1>8 DEF Claim, ClaimLost, Crash
<1>9. ASSUME NEW r \in runs, RunStep(r) \/ FailThrew(r) PROVE Goal
    BY <1>2, <1>4, <1>5, <1>9
       DEF RunStep, FailThrew, Processed, ProcessThrew, Complete, CompleteThrew,
           Discarded, DiscardThrew, RowsSame
<1> QED
    BY <1>1, <1>2, <1>6, <1>7, <1>8, <1>9 DEF Next, vars

\* With its retries, leases and faults the queue settles each image once and
\* atomically, as ImageLifecycle says.
THEOREM Refinement == Spec => ImplementsLifecycle
<1>1. Spec => Lifecycle!LifecycleSpec
    BY LifecycleInitial, LifecycleStep, Invariant, PTL DEF Spec, Lifecycle!LifecycleSpec
<1> QED BY <1>1 DEF ImplementsLifecycle


-----------------------------------------------------------------------------
(* What an attempt costs. *)

\* The run that a processing row was claimed for is not on its way to discard its
\* result, so that it cannot end without the row.
DiscardsOthers(r) ==
    r.pc = "discard" /\ r.attempt = attempts[r.img] => status[r.img] # "processing"

PaidInv == OnlyFaultsStrandRows /\ (\A r \in runs : DiscardsOthers(r))

\* An image that no step claims or requeues, and whose run is there as before.
LEMMA PaidKept ==
    ASSUME TypeOK, TypeOK', NEW i \in Images, Paid(i),
           requeues'[i] = requeues[i], faults' = faults \/ Fault,
           status'[i] = "processing" =>
               /\ status[i] = "processing"
               /\ i \in stale' => i \in stale
               /\ HasOwner(i) => HasOwner(i)'
    PROVE  Paid(i)'
<1>1. requeues[i] \in Nat /\ faults \in Nat /\ faults' \in Nat /\ faults' >= faults
    BY BoundsAreNat DEF TypeOK, Fault
<1>2. requeues'[i] <= faults'
    BY <1>1 DEF Paid
<1>3. ASSUME status'[i] = "processing", i \in stale' \/ ~HasOwner(i)'
      PROVE  requeues'[i] < faults'
    <2>1. requeues[i] < faults
        <3>1. i \in stale \/ ~HasOwner(i)
            BY <1>3
        <3> QED BY <1>3, <3>1 DEF Paid
    <2> QED BY <1>1, <2>1
<1> QED BY <1>2, <1>3 DEF Paid

\* A fault pays for whatever else its step does.
LEMMA PaidByFault ==
    ASSUME TypeOK, NEW i \in Images, Paid(i), requeues'[i] = requeues[i], Fault
    PROVE  Paid(i)'
<1>1. requeues[i] \in Nat /\ faults \in Nat /\ faults' = faults + 1
    BY BoundsAreNat DEF TypeOK, Fault
<1> QED BY <1>1 DEF Paid

\* No attempt is given out anew, no row taken, and no run but of a row that is not
\* processing begins to discard.
LEMMA DiscardsKept ==
    ASSUME PaidInv, attempts' = attempts,
           \A i \in Images : status'[i] = "processing" => status[i] = "processing",
           runs' \subseteq Run,
           \A q \in runs' : q.pc = "discard" => q \in runs \/ status[q.img] # "processing"
    PROVE  \A q \in runs' : DiscardsOthers(q)'
<1> SUFFICES ASSUME NEW q \in runs' PROVE DiscardsOthers(q)'
    OBVIOUS
<1>1. q.img \in Images
    BY DEF Run
<1> QED BY <1>1 DEF PaidInv, OnlyFaultsStrandRows, DiscardsOthers

\* The claim's rows get an attempt of their own, and the others are left alone.
LEMMA PaidClaim ==
    ASSUME QueueInv, PaidInv, TypeOK', NEW S \in SUBSET Images, ClaimRows(S), runs \subseteq runs',
           \A q \in runs' : q \in runs \/ q.pc = "process"
    PROVE  /\ \A q \in runs' : DiscardsOthers(q)'
           /\ faults' = faults \/ Fault => \A i \in Images \ S : Paid(i)'
<1>1. TypeOK /\ RunsAreClaims
    BY DEF QueueInv
<1>2. ASSUME NEW q \in runs' PROVE DiscardsOthers(q)'
    <2>1. CASE q \in runs
        <3>1. /\ q.img \in Images /\ q.attempt \in Nat /\ q.attempt <= attempts[q.img]
              /\ attempts[q.img] \in Nat
            BY <1>1, <2>1 DEF TypeOK, Run, RunsAreClaims
        <3> QED BY <2>1, <3>1 DEF PaidInv, OnlyFaultsStrandRows, DiscardsOthers, ClaimRows
    <2> QED BY <2>1 DEF DiscardsOthers
<1>3. ASSUME faults' = faults \/ Fault, NEW i \in Images \ S PROVE Paid(i)'
    <2>1. status'[i] = status[i] /\ attempts'[i] = attempts[i] /\ requeues'[i] = requeues[i]
        BY <1>1 DEF ClaimRows, TypeOK
    <2>2. HasOwner(i) => HasOwner(i)'
        BY <2>1 DEF HasOwner
    <2>3. i \in stale' => i \in stale
        BY DEF ClaimRows
    <2> QED BY <1>1, <1>3, <2>1, <2>2, <2>3, PaidKept DEF PaidInv, OnlyFaultsStrandRows
<1> QED BY <1>2, <1>3

\* A run goes on to pc, and its row stays as it is or leaves the queue.
LEMMA PaidGoto ==
    ASSUME QueueInv, PaidInv, TypeOK', NEW r \in runs, NEW pc, Goto(r, pc),
           pc = "discard" => status[r.img] # "processing",
           RowsSame \/ Decide(r.img)
    PROVE  PaidInv'
<1>1. TypeOK
    BY DEF QueueInv
<1>2. r.img \in Images /\ r \in [worker : Workers, img : Images, attempt : Nat,
                                 pc : {"process", "complete", "discard", "fail"}]
    BY <1>1 DEF TypeOK, Run
<1>3. /\ attempts' = attempts /\ requeues' = requeues /\ faults' = faults
      /\ stale' \subseteq stale
      /\ \A i \in Images : status'[i] = "processing" => status[i] = "processing"
    <2>1. CASE RowsSame
        BY <2>1 DEF RowsSame
    <2>2. CASE Decide(r.img)
        <3>1. status[r.img] = "processing"
            BY <2>2 DEF Decide
        <3>2. \A i \in Images : i # r.img => status'[i] = status[i]
            BY <1>1, <1>2, <2>2 DEF Decide, TypeOK
        <3> QED BY <2>2, <3>1, <3>2 DEF Decide
    <2> QED BY <2>1, <2>2
<1>4. ASSUME NEW i \in Images, HasOwner(i) PROVE HasOwner(i)'
    <2>1. PICK q \in runs : q.img = i /\ q.attempt = attempts[i]
        BY <1>4 DEF HasOwner
    <2>2. \E p \in runs' : p.img = q.img /\ p.attempt = q.attempt
        <3>1. CASE q # r
            BY <3>1 DEF Goto
        <3>2. CASE q = r
            <4> DEFINE p == [r EXCEPT !.pc = pc]
            <4>1. p \in runs' /\ p.img = r.img /\ p.attempt = r.attempt
                BY <1>2 DEF Goto
            <4> QED BY <3>2, <4>1
        <3> QED BY <3>1, <3>2
    <2> QED BY <1>3, <2>1, <2>2 DEF HasOwner
<1>5. \A i \in Images : Paid(i)'
    BY <1>1, <1>3, <1>4, PaidKept DEF PaidInv, OnlyFaultsStrandRows
<1>6. \A q \in runs' : q.pc = "discard" => q \in runs \/ status[q.img] # "processing"
    BY <1>2 DEF Goto
<1>7. \A q \in runs' : DiscardsOthers(q)'
    BY <1>3, <1>6, DiscardsKept DEF TypeOK
<1> QED BY <1>5, <1>7 DEF PaidInv, OnlyFaultsStrandRows

\* A run ends: its row is not processing, or is another's by now, or leaves the queue.
LEMMA PaidEnd ==
    ASSUME QueueInv, PaidInv, TypeOK', NEW r \in runs, End(r),
           attempts' = attempts, requeues' = requeues, faults' = faults, stale' \subseteq stale,
           \A i \in Images : status'[i] = "processing" => status[i] = "processing",
           status'[r.img] = "processing" => r.attempt # attempts[r.img]
    PROVE  PaidInv'
<1>1. TypeOK
    BY DEF QueueInv
<1>2. ASSUME NEW i \in Images, HasOwner(i), status'[i] = "processing" PROVE HasOwner(i)'
    <2>1. PICK q \in runs : q.img = i /\ q.attempt = attempts[i]
        BY <1>2 DEF HasOwner
    <2>2. q # r
        BY <1>2, <2>1
    <2> QED BY <2>1, <2>2 DEF HasOwner, End
<1>3. \A i \in Images : Paid(i)'
    BY <1>1, <1>2, PaidKept DEF PaidInv, OnlyFaultsStrandRows
<1>4. \A q \in runs' : DiscardsOthers(q)'
    BY DiscardsKept DEF TypeOK, End
<1> QED BY <1>3, <1>4 DEF PaidInv, OnlyFaultsStrandRows

LEMMA PaidStep == QueueInv /\ PaidInv /\ [Next]_vars => PaidInv'
<1> SUFFICES ASSUME QueueInv, PaidInv, [Next]_vars PROVE PaidInv'
    OBVIOUS
<1>1. TypeOK /\ TypeOK'
    BY TypeStep DEF QueueInv
<1>2. \A r \in runs : r.img \in Images /\ r.attempt \in Nat
    BY <1>1 DEF TypeOK, Run
<1>3. ASSUME NEW i \in Images, Upload(i) \/ Delete(i) \/ BackoffElapses(i) PROVE PaidInv'
    <2>1. /\ UNCHANGED <<attempts, runs, requeues, faults>> /\ stale' \subseteq stale
          /\ \A j \in Images : status'[j] = "processing" => status[j] = "processing"
        BY <1>1, <1>3 DEF Upload, Delete, BackoffElapses, TypeOK
    <2>2. \A j \in Images : HasOwner(j) => HasOwner(j)'
        BY <2>1 DEF HasOwner
    <2>3. \A j \in Images : Paid(j)'
        BY <1>1, <2>1, <2>2, PaidKept DEF PaidInv, OnlyFaultsStrandRows
    <2>4. \A q \in runs' : DiscardsOthers(q)'
        BY <1>1, <2>1, DiscardsKept DEF TypeOK
    <2> QED BY <2>3, <2>4 DEF PaidInv, OnlyFaultsStrandRows
<1>4. ASSUME NEW i \in Images, LeaseExpires(i) \/ LeaseOutrun(i) PROVE PaidInv'
    <2>1. LeaseEnds(i) /\ requeues' = requeues
        BY <1>4 DEF LeaseExpires, LeaseOutrun, LeaseEnds
    <2>2. \A q \in runs' : DiscardsOthers(q)'
        BY <1>1, <2>1, DiscardsKept DEF TypeOK, LeaseEnds
    <2>3. CASE LeaseOutrun(i)
        <3>1. \A j \in Images : Paid(j)'
            BY <1>1, <2>1, <2>3, PaidByFault DEF PaidInv, OnlyFaultsStrandRows, LeaseOutrun
        <3> QED BY <2>2, <3>1 DEF PaidInv, OnlyFaultsStrandRows
    <2>4. CASE LeaseExpires(i)
        <3>1. ~HasOwner(i) /\ faults' = faults
            BY <2>4 DEF LeaseExpires
        <3>2. \A j \in Images : HasOwner(j) => HasOwner(j)'
            BY <2>1 DEF LeaseEnds, HasOwner
        <3>3. ASSUME NEW j \in Images, j # i PROVE Paid(j)'
            BY <1>1, <2>1, <3>1, <3>2, <3>3, PaidKept DEF PaidInv, OnlyFaultsStrandRows, LeaseEnds
        <3>4. requeues[i] < faults
            BY <2>1, <3>1 DEF PaidInv, OnlyFaultsStrandRows, Paid, LeaseEnds
        <3>5. Paid(i)'
            BY <2>1, <3>1, <3>4 DEF Paid, PaidInv, OnlyFaultsStrandRows
        <3> QED BY <2>2, <3>3, <3>5 DEF PaidInv, OnlyFaultsStrandRows
    <2> QED BY <1>4, <2>3, <2>4
<1>5. ASSUME NEW w \in Workers, Claim(w) PROVE PaidInv'
    <2>1. PICK S \in SUBSET Images :
              /\ ClaimRows(S)
              /\ runs' = runs \cup {[worker |-> w, img |-> i, attempt |-> attempts[i] + 1,
                                     pc |-> "process"] : i \in S}
              /\ faults' = faults
        BY <1>5 DEF Claim
    <2>2. \A q \in runs' : q \in runs \/ q.pc = "process"
        BY <2>1
    <2>3. /\ \A q \in runs' : DiscardsOthers(q)'
          /\ \A i \in Images \ S : Paid(i)'
        BY <1>1, <2>1, <2>2, PaidClaim
    <2>4. ASSUME NEW i \in S PROVE Paid(i)'
        <3>1. [worker |-> w, img |-> i, attempt |-> attempts[i] + 1, pc |-> "process"] \in runs'
            BY <2>1
        <3>2. attempts'[i] = attempts[i] + 1 /\ requeues'[i] = requeues[i] /\ i \notin stale'
            BY <2>1 DEF ClaimRows
        <3>3. HasOwner(i)'
            BY <3>1, <3>2 DEF HasOwner
        <3> QED BY <2>1, <3>2, <3>3 DEF Paid, PaidInv, OnlyFaultsStrandRows
    <2> QED BY <2>3, <2>4 DEF PaidInv, OnlyFaultsStrandRows
<1>6. ASSUME NEW w \in Workers, ClaimLost(w) PROVE PaidInv'
    <2>1. PICK S \in SUBSET Images : ClaimRows(S)
        BY <1>6 DEF ClaimLost
    <2>2. \A q \in runs' : DiscardsOthers(q)'
        BY <1>1, <1>6, <2>1, PaidClaim DEF ClaimLost
    <2>3. \A i \in Images : Paid(i)'
        BY <1>1, <1>6, <2>1, PaidByFault DEF PaidInv, OnlyFaultsStrandRows, ClaimLost, ClaimRows
    <2> QED BY <2>2, <2>3 DEF PaidInv, OnlyFaultsStrandRows
<1>7. ASSUME \/ \E w \in Workers : Crash(w)
             \/ \E r \in runs : FailThrew(r)
      PROVE  PaidInv'
    <2>1. Fault /\ UNCHANGED <<status, attempts, requeues>> /\ runs' \subseteq runs
        BY <1>7 DEF Crash, FailThrew, End
    <2>2. \A i \in Images : Paid(i)'
        BY <1>1, <2>1, PaidByFault DEF PaidInv, OnlyFaultsStrandRows
    <2>3. \A q \in runs' : DiscardsOthers(q)'
        BY <1>1, <2>1, DiscardsKept DEF TypeOK
    <2> QED BY <2>2, <2>3 DEF PaidInv, OnlyFaultsStrandRows
<1>8. ASSUME NEW r \in runs, Processed(r) \/ ProcessThrew(r) \/ DiscardThrew(r) PROVE PaidInv'
    BY <1>1, <1>8, PaidGoto DEF Processed, ProcessThrew, DiscardThrew
<1>9. ASSUME NEW r \in runs, CompleteThrew(r) PROVE PaidInv'
    BY <1>1, <1>9, PaidGoto DEF CompleteThrew
<1>10. ASSUME NEW r \in runs, Complete(r) PROVE PaidInv'
    <2>1. CASE Decide(r.img) /\ End(r)
        <3>1. /\ \A i \in Images : status'[i] = "processing" => status[i] = "processing"
              /\ status'[r.img] # "processing"
            <4>1. PICK match \in MatchOf(r.img) :
                      status' = [status EXCEPT ![r.img] = Verdict(r.img, match)]
                BY <2>1 DEF Decide
            <4>2. Verdict(r.img, match) # "processing"
                BY DEF Verdict
            <4> QED BY <1>1, <1>2, <4>1, <4>2 DEF TypeOK
        <3> QED BY <1>1, <2>1, <3>1, PaidEnd DEF Decide
    <2>2. CASE status[r.img] # "processing" /\ Goto(r, "discard") /\ RowsSame
        BY <1>1, <2>2, PaidGoto
    <2> QED BY <1>10, <2>1, <2>2 DEF Complete
<1>11. ASSUME NEW r \in runs, Discarded(r) PROVE PaidInv'
    <2>1. status[r.img] = "processing" => r.attempt # attempts[r.img]
        BY <1>11 DEF Discarded, PaidInv, OnlyFaultsStrandRows, DiscardsOthers
    <2> QED BY <1>1, <1>11, <2>1, PaidEnd DEF Discarded, RowsSame
<1>12. ASSUME NEW r \in runs, Fail(r) PROVE PaidInv'
    <2>1. /\ \A i \in Images : status'[i] = "processing" => status[i] = "processing"
          /\ status'[r.img] # "processing"
        BY <1>1, <1>2, <1>12 DEF Fail, TypeOK
    <2> QED BY <1>1, <1>12, <2>1, PaidEnd DEF Fail
<1>13. CASE RequeueStale
    <2>1. \A q \in runs' : DiscardsOthers(q)'
        BY <1>1, <1>13, DiscardsKept DEF TypeOK, RequeueStale
    <2>2. ASSUME NEW i \in Images PROVE Paid(i)'
        <3>1. CASE i \in Requeued
            <4>1. requeues[i] < faults /\ requeues[i] \in Nat /\ faults \in Nat
                BY <1>1, <3>1, BoundsAreNat DEF PaidInv, OnlyFaultsStrandRows, Paid, Requeued, TypeOK
            <4>2. requeues'[i] = requeues[i] + 1 /\ status'[i] = "pending" /\ faults' = faults
                BY <1>13, <3>1 DEF RequeueStale
            <4> QED BY <4>1, <4>2 DEF Paid
        <3>2. CASE i \notin Requeued
            <4>1. /\ requeues'[i] = requeues[i] /\ status'[i] = status[i] /\ faults' = faults
                  /\ stale' \subseteq stale /\ UNCHANGED <<attempts, runs>>
                BY <1>13, <3>2 DEF RequeueStale
            <4>2. HasOwner(i) => HasOwner(i)'
                BY <4>1 DEF HasOwner
            <4> QED BY <1>1, <4>1, <4>2, PaidKept DEF PaidInv, OnlyFaultsStrandRows
        <3> QED BY <3>1, <3>2
    <2> QED BY <2>1, <2>2 DEF PaidInv, OnlyFaultsStrandRows
<1>14. CASE UNCHANGED vars
    BY <1>14 DEF vars, PaidInv, OnlyFaultsStrandRows, Paid, DiscardsOthers, HasOwner
<1> QED BY <1>3, <1>4, <1>5, <1>6, <1>7, <1>8, <1>9, <1>10, <1>11, <1>12, <1>13, <1>14
       DEF Next, RunStep

LEMMA PaidInitial == Init => PaidInv
BY DEF Init, PaidInv, OnlyFaultsStrandRows, Paid

LEMMA PaidInvariant == Spec => []PaidInv
<1>1. IInv => QueueInv
    BY DEF IInv
<1> QED BY <1>1, PaidInitial, PaidStep, Invariant, PTL DEF Spec

\* No row loses its run or its lease, and requeueStale returns none to the queue, but for
\* a worker that crashed, a commit that was lost or a lease that was outrun since the
\* image's last requeue.
THEOREM NothingStranded == Spec => []OnlyFaultsStrandRows
<1>1. PaidInv => OnlyFaultsStrandRows
    BY DEF PaidInv
<1> QED BY <1>1, PaidInvariant, PTL

\* So no image goes round for ever: it is claimed at most once more for each fault than
\* WORKER_MAX_ATTEMPTS allows, and exactly as the README has it without one.
ClaimsArePaid == \A i \in Images : attempts[i] <= MaxAttempts + faults

THEOREM ClaimsPaid == Spec => []ClaimsArePaid
<1>1. TypeOK /\ AttemptsBounded /\ OnlyFaultsStrandRows => ClaimsArePaid
    <2> SUFFICES ASSUME TypeOK, AttemptsBounded, OnlyFaultsStrandRows, NEW i \in Images
                 PROVE  attempts[i] <= MaxAttempts + faults
        BY DEF ClaimsArePaid
    <2>1. attempts[i] \in Nat /\ requeues[i] \in Nat /\ faults \in Nat /\ MaxAttempts \in Nat
        BY BoundsAreNat DEF TypeOK
    <2>2. attempts[i] <= MaxAttempts + requeues[i] /\ requeues[i] <= faults
        BY DEF AttemptsBounded, OnlyFaultsStrandRows, Paid
    <2> QED BY <2>1, <2>2
<1> QED BY <1>1, TypeCorrect, BoundedAttempts, NothingStranded, PTL


-----------------------------------------------------------------------------
(* What QueuedSettles needs but for fairness. *)

Queued == {"pending", "processing"}

\* A row's way through one attempt and into the next: claimed, past its lease or failed,
\* waiting for its backoff, due.
Phase(i) ==
    IF status[i] = "processing" THEN (IF i \in stale THEN 3 ELSE 4)
    ELSE IF status[i] = "pending" THEN (IF i \in due THEN 1 ELSE 2)
    ELSE 0

\* An upper bound of the row's changes to come.
Ahead(i) == IF status[i] \in Queued
            THEN 5 * (MaxAttempts + MaxFaults - attempts[i]) + Phase(i) ELSE 0

Row(i) == <<status[i], attempts[i], i \in due, i \in stale>>

\* Whoever changes the row of a queued image, a worker, a late run, the stale-job timer,
\* a user or the clock, brings the image closer to being settled.
RowsGoForward ==
    [][\A i \in Images : status[i] \in Queued => UNCHANGED Row(i) \/ Ahead(i)' < Ahead(i)]_vars

\* A row changes boundedly often; and a row that a worker has taken is either waiting
\* for the stale-job timer, or has a run that will not end without it.
RowsAreAttended ==
    \A i \in Images :
        /\ Ahead(i) \in 0 .. 5 * (MaxAttempts + MaxFaults) + 4
        /\ status[i] = "processing" =>
               \/ i \in stale \/ ~HasOwner(i)
               \/ \E r \in runs : r.img = i /\ r.attempt = attempts[i] /\ r.pc # "discard"

\* A step that changes a row: it is out of the queue, in a lower phase of its attempt,
\* or has been due and is in its next attempt.
Moves(i) ==
    \/ status'[i] \notin Queued
    \/ status'[i] \in Queued /\ attempts'[i] = attempts[i] /\ Phase(i)' < Phase(i)
    \/ status'[i] \in Queued /\ attempts'[i] = attempts[i] + 1 /\ Phase(i) = 1

LEMMA MovesForward ==
    ASSUME TypeOK, ClaimsArePaid, NEW i \in Images, status[i] \in Queued, Moves(i)
    PROVE  Ahead(i)' < Ahead(i)
<1>1. attempts[i] \in Nat /\ MaxAttempts \in Nat /\ MaxFaults \in Nat
      /\ attempts[i] <= MaxAttempts + MaxFaults
    BY BoundsAreNat DEF TypeOK, ClaimsArePaid
<1>2. Phase(i) \in 1 .. 4 /\ Phase(i)' \in 0 .. 4
    BY DEF Phase, Queued
<1> HIDE DEF Phase
<1>3. CASE status'[i] \notin Queued
    BY <1>1, <1>2, <1>3 DEF Ahead
<1>4. CASE status'[i] \in Queued /\ attempts'[i] = attempts[i] /\ Phase(i)' < Phase(i)
    BY <1>1, <1>2, <1>4 DEF Ahead
<1>5. CASE status'[i] \in Queued /\ attempts'[i] = attempts[i] + 1 /\ Phase(i) = 1
    BY <1>1, <1>2, <1>5 DEF Ahead
<1> QED BY <1>3, <1>4, <1>5 DEF Moves

\* A claim takes due rows into their next attempt, and no others.
LEMMA ClaimMoves ==
    ASSUME TypeOK, NEW S \in SUBSET Images, ClaimRows(S), NEW i \in Images
    PROVE  UNCHANGED Row(i) \/ Moves(i)
<1>1. CASE i \in S
    <2>1. status[i] = "pending" /\ i \in due
        BY <1>1 DEF ClaimRows, Claimable
    <2>2. status'[i] = "processing" /\ attempts'[i] = attempts[i] + 1
        BY <1>1 DEF ClaimRows
    <2> QED BY <2>1, <2>2 DEF Moves, Phase, Queued
<1>2. CASE i \notin S
    <2>1. status'[i] = status[i] /\ attempts'[i] = attempts[i] /\ due' = due
          /\ (i \in stale' <=> i \in stale)
        BY <1>2 DEF ClaimRows
    <2> QED BY <2>1 DEF Row
<1> QED BY <1>1, <1>2

\* The verdict takes a row out of the queue, and no other.
LEMMA DecideMoves ==
    ASSUME TypeOK, NEW j \in Images, Decide(j), NEW i \in Images
    PROVE  UNCHANGED Row(i) \/ Moves(i)
<1>1. PICK match \in MatchOf(j) : status' = [status EXCEPT ![j] = Verdict(j, match)]
    BY DEF Decide
<1>2. CASE i = j
    BY <1>1, <1>2 DEF Verdict, Moves, Queued, TypeOK
<1>3. CASE i # j
    <2>1. status'[i] = status[i] /\ attempts' = attempts /\ due' = due
          /\ (i \in stale' <=> i \in stale)
        BY <1>1, <1>3 DEF Decide, TypeOK
    <2> QED BY <2>1 DEF Row
<1> QED BY <1>2, <1>3

\* Every step of the queue leaves a queued row alone or moves it on.
LEMMA StepMoves ==
    ASSUME TypeOK, [Next]_vars, NEW i \in Images, status[i] \in Queued
    PROVE  UNCHANGED Row(i) \/ Moves(i)
<1> DEFINE A == UNCHANGED Row(i) \/ Moves(i)
<1>1. ASSUME UNCHANGED <<status, attempts, due, stale>> PROVE A
    BY <1>1 DEF Row
<1>2. ASSUME NEW j \in Images, Upload(j) \/ Delete(j) \/ BackoffElapses(j)
                               \/ LeaseExpires(j) \/ LeaseOutrun(j) PROVE A
    <2>1. CASE j # i
        <3>1. status'[i] = status[i] /\ attempts' = attempts
              /\ (i \in due' <=> i \in due) /\ (i \in stale' <=> i \in stale)
            BY <1>2, <2>1 DEF Upload, Delete, BackoffElapses, LeaseExpires, LeaseOutrun, LeaseEnds, TypeOK
        <3> QED BY <3>1 DEF Row
    <2>2. CASE j = i /\ Upload(j)
        BY <2>2 DEF Upload, Queued
    <2>3. CASE j = i /\ Delete(j)
        BY <2>3 DEF Delete, Moves, Queued, TypeOK
    <2>4. CASE j = i /\ BackoffElapses(j)
        BY <2>4 DEF BackoffElapses, Moves, Phase, Queued
    <2>5. CASE j = i /\ LeaseEnds(j)
        BY <2>5 DEF LeaseEnds, Moves, Phase, Queued
    <2> QED BY <1>2, <2>1, <2>2, <2>3, <2>4, <2>5 DEF LeaseExpires, LeaseOutrun
<1>3. ASSUME NEW w \in Workers, Claim(w) \/ ClaimLost(w) PROVE A
    BY <1>3, ClaimMoves DEF Claim, ClaimLost
<1>4. ASSUME NEW w \in Workers, Crash(w) PROVE A
    BY <1>1, <1>4 DEF Crash
<1>5. ASSUME NEW r \in runs, RunStep(r) \/ FailThrew(r) PROVE A
    <2>1. r.img \in Images
        BY DEF TypeOK, Run
    <2>2. CASE Decide(r.img)
        BY <2>1, <2>2, DecideMoves
    <2>3. CASE RowsSame
        BY <1>1, <2>3 DEF RowsSame
    <2>4. CASE FailThrew(r)
        BY <1>1, <2>4 DEF FailThrew
    <2>5. CASE Fail(r)
        <3>1. CASE status[r.img] = "processing" /\ r.img = i
            <4>1. /\ status'[i] = "failed" \/ (status'[i] = "pending" /\ i \notin due')
                  /\ attempts' = attempts
                BY <2>5, <3>1 DEF Fail, TypeOK
            <4> QED BY <3>1, <4>1 DEF Moves, Phase, Queued
        <3>2. CASE status[r.img] = "processing" /\ r.img # i
            <4>1. status'[i] = status[i] /\ attempts' = attempts
                  /\ (i \in due' <=> i \in due) /\ (i \in stale' <=> i \in stale)
                BY <2>5, <3>2 DEF Fail, TypeOK
            <4> QED BY <4>1 DEF Row
        <3>3. CASE status[r.img] # "processing"
            BY <1>1, <2>5, <3>3 DEF Fail
        <3> QED BY <3>1, <3>2, <3>3
    <2> QED BY <1>5, <2>2, <2>3, <2>4, <2>5
            DEF RunStep, Processed, ProcessThrew, Complete, CompleteThrew, Discarded, DiscardThrew
<1>6. CASE RequeueStale
    <2>1. CASE i \in Requeued
        <3>1. status[i] = "processing" /\ status'[i] = "pending" /\ attempts' = attempts
            BY <1>6, <2>1 DEF RequeueStale, Requeued
        <3> QED BY <3>1 DEF Moves, Phase, Queued
    <2>2. CASE i \notin Requeued
        <3>1. status'[i] = status[i] /\ attempts' = attempts /\ due' = due
              /\ (i \in stale' <=> i \in stale)
            BY <1>6, <2>2 DEF RequeueStale
        <3> QED BY <3>1 DEF Row
    <2> QED BY <2>1, <2>2
<1>7. CASE UNCHANGED vars
    BY <1>1, <1>7 DEF vars
<1> QED BY <1>2, <1>3, <1>4, <1>5, <1>6, <1>7 DEF Next

\* However workers, late runs, requeues and users interleave, no image goes back on its
\* way from attempt to attempt without a fault to pay for the next one.
THEOREM RowsProgress == Spec => RowsGoForward
<1> DEFINE A == \A i \in Images :
                    status[i] \in Queued => UNCHANGED Row(i) \/ Ahead(i)' < Ahead(i)
<1>1. TypeOK /\ ClaimsArePaid /\ [Next]_vars => [A]_vars
    BY StepMoves, MovesForward
<1> QED BY <1>1, TypeCorrect, ClaimsPaid, PTL DEF Spec, RowsGoForward

\* And no image is left alone on it: a processing row has a run that is still going to
\* decide or to fail it, or is one that the lease gives back.
THEOREM RowsAttended == Spec => []RowsAreAttended
<1>1. TypeOK /\ ClaimsArePaid /\ PaidInv => RowsAreAttended
    <2> SUFFICES ASSUME TypeOK, ClaimsArePaid, PaidInv, NEW i \in Images
                 PROVE  /\ Ahead(i) \in 0 .. 5 * (MaxAttempts + MaxFaults) + 4
                        /\ status[i] = "processing" =>
                               \/ i \in stale \/ ~HasOwner(i)
                               \/ \E r \in runs : r.img = i /\ r.attempt = attempts[i]
                                                  /\ r.pc # "discard"
        BY DEF RowsAreAttended
    <2>1. attempts[i] \in Nat /\ MaxAttempts \in Nat /\ MaxFaults \in Nat
          /\ attempts[i] <= MaxAttempts + MaxFaults
        BY BoundsAreNat DEF TypeOK, ClaimsArePaid
    <2>2. Phase(i) \in 0 .. 4
        BY DEF Phase
    <2>3. Ahead(i) \in 0 .. 5 * (MaxAttempts + MaxFaults) + 4
        <3> HIDE DEF Phase
        <3> QED BY <2>1, <2>2 DEF Ahead
    <2>4. ASSUME status[i] = "processing", HasOwner(i)
          PROVE  \E r \in runs : r.img = i /\ r.attempt = attempts[i] /\ r.pc # "discard"
        BY <2>4 DEF HasOwner, PaidInv, DiscardsOthers
    <2> QED BY <2>3, <2>4
<1> QED BY <1>1, TypeCorrect, ClaimsPaid, PaidInvariant, PTL

=============================================================================
