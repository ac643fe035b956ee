------------------------------ MODULE JobQueue ------------------------------
(***************************************************************************)
(* The images table as a work queue: backend/src/images/imageRepository.ts *)
(* (the statements), driven by the runs of backend/src/queue/jobRunner.ts  *)
(* and by the upload and delete requests of imageService.ts.               *)
(*                                                                         *)
(* Every repository method is one transaction, so one action.  A run is    *)
(* one execution of JobRunner.run: it awaits the pipeline, then complete,  *)
(* and on the way may be outlived by its own lease.  Image ids are fresh   *)
(* UUIDs: a deleted id never comes back.                                   *)
(*                                                                         *)
(* Time is reduced to the two comparisons the statements make: `due' holds *)
(* the images with run_after <= now(), `stale' those whose locked_at is    *)
(* older than WORKER_STALE_AFTER_SECONDS.                                  *)
(***************************************************************************)
EXTENDS Integers, FiniteSets

CONSTANTS
    Images,        \* image ids
    Workers,       \* worker processes
    Concurrency,   \* WORKER_CONCURRENCY
    MaxAttempts,   \* WORKER_MAX_ATTEMPTS
    Flawed,        \* images the pixel rules reject although they decode
    Unreadable,    \* images that do not decode: rejected, and without a hash
    Similar,       \* Similar[i]: images whose hash is within the max distance of i's
    None,          \* no image
    MaxFaults      \* bound: crashes, lost commits and outrun leases in a behaviour

ASSUME NoneIsNoImage == None \notin Images
ASSUME BoundsAreNat == /\ Concurrency \in Nat \ {0}
                       /\ MaxAttempts \in Nat \ {0}
                       /\ MaxFaults \in Nat
ASSUME ContentIsImages == Flawed \subseteq Images /\ Unreadable \subseteq Images
\* The Hamming distance is symmetric; a scan never compares an image with itself.
ASSUME SimilarIsSymmetric ==
    /\ Similar \in [Images -> SUBSET Images]
    /\ \A i, j \in Images : j \in Similar[i] => i \in Similar[j] /\ i # j

VARIABLES
    status,      \* the row's status column, with "absent" and "deleted" for no row
    attempts,    \* the row's attempts column
    due,         \* images with run_after <= now()
    stale,       \* images with locked_at < now() - staleAfterSeconds
    similarTo,   \* the row's similar_to_id column
    runs,        \* the runs in flight, over all workers
    requeues,    \* history: how often requeueStale returned the image to the queue
    faults       \* how many of the MaxFaults faults have happened

vars == <<status, attempts, due, stale, similarTo, runs, requeues, faults>>

Statuses == {"absent", "pending", "processing", "accepted", "rejected",
             "failed", "deleted"}
Settled  == {"accepted", "rejected", "failed", "deleted"}
NoRow    == {"absent", "deleted"}

\* Where a run is: awaiting the pipeline, about to call complete, deleting the
\* derivatives of a result the row did not take, or in the catch block.
Run == [worker : Workers, img : Images, attempt : Nat,
        pc : {"process", "complete", "discard", "fail"}]

RunsOf(i)   == {r \in runs : r.img = i}
InFlight(w) == {r \in runs : r.worker = w}

TypeOK ==
    /\ status \in [Images -> Statuses]
    /\ attempts \in [Images -> Nat]
    /\ due \subseteq Images
    /\ stale \subseteq Images
    /\ similarTo \in [Images -> Images \cup {None}]
    /\ runs \subseteq Run
    /\ requeues \in [Images -> Nat]
    /\ faults \in 0 .. MaxFaults

Init ==
    /\ status = [i \in Images |-> "absent"]
    /\ attempts = [i \in Images |-> 0]
    /\ due = {}
    /\ stale = {}
    /\ similarTo = [i \in Images |-> None]
    /\ runs = {}
    /\ requeues = [i \in Images |-> 0]
    /\ faults = 0

-----------------------------------------------------------------------------
(* The API process. *)

\* upload + insertMany: what the bytes alone decide is rejected at once, the
\* rest is queued with run_after defaulting to now().
Upload(i) ==
    /\ status[i] = "absent"
    /\ \E s \in {"pending", "rejected"} : status' = [status EXCEPT ![i] = s]
    /\ due' = due \cup {i}
    /\ UNCHANGED <<attempts, stale, similarTo, runs, requeues, faults>>

\* Mutant: similar_to_id without ON DELETE SET NULL.
DeleteKeepsMatches(i) ==
    /\ status[i] \notin NoRow
    /\ status' = [status EXCEPT ![i] = "deleted"]
    /\ stale' = stale \ {i}
    /\ UNCHANGED <<attempts, due, similarTo, runs, requeues, faults>>

\* The row goes whatever its status; similar_to_id is ON DELETE SET NULL.
Delete(i) ==
    /\ status[i] \notin NoRow
    /\ status' = [status EXCEPT ![i] = "deleted"]
    /\ similarTo' = [j \in Images |->
                        IF j = i \/ similarTo[j] = i THEN None ELSE similarTo[j]]
    /\ stale' = stale \ {i}
    /\ UNCHANGED <<attempts, due, runs, requeues, faults>>

-----------------------------------------------------------------------------
(* Claiming. *)

\* Mutant: the claim forgets that a processing row is taken.
ClaimableTaken(i) == status[i] \in {"pending", "processing"} /\ i \in due

Claimable(i) == status[i] = "pending" /\ i \in due

\* SKIP LOCKED leaves out rows that other transactions hold, so a claim takes
\* any part of what is due, at most as much as the worker has free slots.
ClaimRows(S) ==
    /\ S # {}
    /\ \A i \in S : Claimable(i)
    /\ status' = [i \in Images |-> IF i \in S THEN "processing" ELSE status[i]]
    /\ attempts' = [i \in Images |-> IF i \in S THEN attempts[i] + 1 ELSE attempts[i]]
    /\ stale' = stale \ S
    /\ UNCHANGED <<due, similarTo, requeues>>

Claim(w) ==
    \E S \in SUBSET Images :
        /\ Cardinality(InFlight(w)) + Cardinality(S) <= Concurrency
        /\ ClaimRows(S)
        /\ runs' = runs \cup {[worker |-> w, img |-> i, attempt |-> attempts[i] + 1,
                               pc |-> "process"] : i \in S}
        /\ UNCHANGED faults

Fault == faults < MaxFaults /\ faults' = faults + 1

\* The claim commits but its answer is lost (connection or process): the rows
\* are "processing" with no run behind them.
ClaimLost(w) ==
    /\ Fault
    /\ \E S \in SUBSET Images :
        /\ Cardinality(InFlight(w)) + Cardinality(S) <= Concurrency
        /\ ClaimRows(S)
    /\ UNCHANGED runs

-----------------------------------------------------------------------------
(* A run. *)

Goto(r, pc) == runs' = (runs \ {r}) \cup {[r EXCEPT !.pc = pc]}
End(r)      == runs' = runs \ {r}

RowsSame == UNCHANGED <<status, attempts, due, stale, similarTo, requeues, faults>>

\* The pipeline returned a result ...
Processed(r) == r.pc = "process" /\ Goto(r, "complete") /\ RowsSame

\* Mutant: an error of the pipeline is swallowed, the run just ends.
ProcessSwallowed(r) == r.pc = "process" /\ End(r) /\ RowsSame

\* ... or threw.
ProcessThrew(r) == r.pc = "process" /\ Goto(r, "fail") /\ RowsSame

\* Mutant: the scan forgets status = 'accepted'.
MatchesAnyRow(i) == IF i \in Unreadable THEN {}
                    ELSE {j \in Similar[i] : status[j] \notin NoRow}

\* findMostSimilarAccepted: an accepted image within the distance, if there is
\* one and the result has a hash at all.
Matches(i) == IF i \in Unreadable THEN {}
              ELSE {j \in Similar[i] : status[j] = "accepted"}
MatchOf(i) == IF Matches(i) = {} THEN {None} ELSE Matches(i)

\* Mutants: the match is recorded but not counted as a reason; a reason code is
\* written where the status belongs.
VerdictIgnoresMatch(i, match) ==
    IF i \in Flawed \cup Unreadable THEN "rejected" ELSE "accepted"
VerdictIsCode(i, match) ==
    IF match # None THEN "TOO_SIMILAR"
    ELSE IF i \in Flawed \cup Unreadable THEN "rejected" ELSE "accepted"

Verdict(i, match) ==
    IF match # None \/ i \in Flawed \cup Unreadable THEN "rejected" ELSE "accepted"

\* Mutant: the update has no "AND status = 'processing'".
DecideUnguarded(i) ==
    /\ \E match \in MatchOf(i) :
        /\ status' = [status EXCEPT ![i] = Verdict(i, match)]
        /\ similarTo' = [similarTo EXCEPT ![i] = match]
    /\ stale' = stale \ {i}
    /\ UNCHANGED <<attempts, due, requeues, faults>>

Decide(i) ==
    /\ status[i] = "processing"
    /\ \E match \in MatchOf(i) :
        /\ status' = [status EXCEPT ![i] = Verdict(i, match)]
        /\ similarTo' = [similarTo EXCEPT ![i] = match]
    /\ stale' = stale \ {i}
    /\ UNCHANGED <<attempts, due, requeues, faults>>

\* Mutant: the update forgets to return the row, so that it looks deleted.
CompleteNoReturning(r) ==
    /\ r.pc = "complete"
    /\ Goto(r, "discard")
    /\ \/ Decide(r.img)
       \/ status[r.img] # "processing" /\ RowsSame

Complete(r) ==
    /\ r.pc = "complete"
    /\ \/ Decide(r.img) /\ End(r)
       \/ status[r.img] # "processing" /\ Goto(r, "discard") /\ RowsSame

\* complete threw: rolled back (a foreign key to a match that has just been
\* deleted, a lost connection), or committed with the answer lost.
CompleteThrew(r) ==
    /\ r.pc = "complete"
    /\ Goto(r, "fail")
    /\ Decide(r.img) \/ RowsSame

\* storage.delete of the unused derivatives; it is inside the try, so an error
\* goes to the catch block like any other.
Discarded(r)    == r.pc = "discard" /\ End(r) /\ RowsSame
DiscardThrew(r) == r.pc = "discard" /\ Goto(r, "fail") /\ RowsSame

\* Mutants: one attempt too many; no "AND status = 'processing'".
FailOffByOne(r) ==
    /\ r.pc = "fail"
    /\ End(r)
    /\ IF status[r.img] = "processing"
       THEN /\ status' = [status EXCEPT ![r.img] =
                            IF attempts[r.img] > MaxAttempts THEN "failed" ELSE "pending"]
            /\ due' = due \ {r.img}
            /\ stale' = stale \ {r.img}
       ELSE UNCHANGED <<status, due, stale>>
    /\ UNCHANGED <<attempts, similarTo, requeues, faults>>
FailUnguarded(r) ==
    /\ r.pc = "fail"
    /\ End(r)
    /\ status' = [status EXCEPT ![r.img] =
                    IF attempts[r.img] >= MaxAttempts THEN "failed" ELSE "pending"]
    /\ due' = due \ {r.img}
    /\ stale' = stale \ {r.img}
    /\ UNCHANGED <<attempts, similarTo, requeues, faults>>

\* repo.fail: retry after a backoff or give up, if the row is still processing.
Fail(r) ==
    /\ r.pc = "fail"
    /\ End(r)
    /\ IF status[r.img] = "processing"
       THEN /\ status' = [status EXCEPT ![r.img] =
                            IF attempts[r.img] >= MaxAttempts THEN "failed" ELSE "pending"]
            /\ due' = due \ {r.img}
            /\ stale' = stale \ {r.img}
       ELSE UNCHANGED <<status, due, stale>>
    /\ UNCHANGED <<attempts, similarTo, requeues, faults>>

\* repo.fail threw as well: it is only logged, and the row stays "processing".
FailThrew(r) ==
    /\ r.pc = "fail"
    /\ Fault
    /\ End(r)
    /\ UNCHANGED <<status, attempts, due, stale, similarTo, requeues>>

Crash(w) ==
    /\ InFlight(w) # {}
    /\ Fault
    /\ runs' = runs \ InFlight(w)
    /\ UNCHANGED <<status, attempts, due, stale, similarTo, requeues>>

-----------------------------------------------------------------------------
(* Time and the stale-job timer. *)

BackoffElapses(i) ==
    /\ status[i] = "pending" /\ i \notin due
    /\ due' = due \cup {i}
    /\ UNCHANGED <<status, attempts, stale, similarTo, runs, requeues, faults>>

HasOwner(i) == \E r \in runs : r.img = i /\ r.attempt = attempts[i]

LeaseEnds(i) ==
    /\ status[i] = "processing" /\ i \notin stale
    /\ stale' = stale \cup {i}
    /\ UNCHANGED <<status, attempts, due, similarTo, runs, requeues>>

\* locked_at grows old because the run that set it is gone ...
LeaseExpires(i) == ~HasOwner(i) /\ LeaseEnds(i) /\ UNCHANGED faults
\* ... or because that run, alive, takes longer than the lease.
LeaseOutrun(i)  == HasOwner(i) /\ LeaseEnds(i) /\ Fault

\* Mutant: rows out of attempts are not worth requeueing.
RequeuedBelowMax ==
    {i \in stale : status[i] = "processing" /\ attempts[i] < MaxAttempts}

Requeued == {i \in stale : status[i] = "processing"}

\* requeueStale: one UPDATE over all stale rows.  Neither attempts nor run_after
\* is touched, and nothing tells a live run that it lost the row.
RequeueStale ==
    /\ Requeued # {}
    /\ status' = [i \in Images |-> IF i \in Requeued THEN "pending" ELSE status[i]]
    /\ requeues' = [i \in Images |-> IF i \in Requeued THEN requeues[i] + 1 ELSE requeues[i]]
    /\ stale' = stale \ Requeued
    /\ UNCHANGED <<attempts, due, similarTo, runs, faults>>

-----------------------------------------------------------------------------
RunStep(r) == \/ Processed(r) \/ ProcessThrew(r)
              \/ Complete(r) \/ CompleteThrew(r)
              \/ Discarded(r) \/ DiscardThrew(r)
              \/ Fail(r)

Next ==
    \/ \E i \in Images : \/ Upload(i) \/ Delete(i) \/ BackoffElapses(i)
                         \/ LeaseExpires(i) \/ LeaseOutrun(i)
    \/ \E w \in Workers : Claim(w) \/ ClaimLost(w) \/ Crash(w)
    \/ \E r \in runs : RunStep(r) \/ FailThrew(r)
    \/ RequeueStale

Spec == Init /\ [][Next]_vars

\* Workers poll, their awaits settle, timers fire; nobody has to upload or to
\* delete, and no fault has to happen.
Fairness ==
    /\ \A w \in Workers : /\ WF_vars(Claim(w))
                          /\ WF_vars(\E r \in InFlight(w) : RunStep(r))
    /\ \A i \in Images : WF_vars(BackoffElapses(i)) /\ WF_vars(LeaseExpires(i))
    /\ WF_vars(RequeueStale)

FairSpec == Spec /\ Fairness

-----------------------------------------------------------------------------
(* Safety. *)

\* No two accepted images are within the similarity distance, however their
\* decisions interleave (README, "Race-free duplicate detection").
NoTwoSimilarAccepted ==
    \A i, j \in Images :
        status[i] = "accepted" /\ status[j] = "accepted" => j \notin Similar[i]

\* A duplicate is never accepted, and what it points to is still an accepted
\* image within the distance, also after deletes (foreign key of the migration).
SimilarToAccepted ==
    \A i \in Images :
        similarTo[i] # None => /\ status[i] = "rejected"
                              /\ similarTo[i] \in Similar[i]
                              /\ status[similarTo[i]] = "accepted"

\* A worker rejects a sound image only for an accepted image it resembles: the
\* row names it, unless a similar image has been deleted since.
RejectionJustified ==
    \A i \in Images \ (Flawed \cup Unreadable) :
        status[i] = "rejected" /\ attempts[i] > 0 =>
            \E j \in Similar[i] : \/ similarTo[i] = j /\ status[j] = "accepted"
                                 \/ status[j] = "deleted"

\* fail gives up at MaxAttempts and not before; only a requeue, which does not
\* look at attempts, can grant an image a further attempt.
AttemptsBounded ==
    \A i \in Images :
        /\ attempts[i] <= MaxAttempts + requeues[i]
        /\ status[i] = "pending" => attempts[i] < MaxAttempts + requeues[i]
        /\ status[i] = "failed" => attempts[i] >= MaxAttempts

\* SKIP LOCKED and the status column give an image to one worker at a time:
\* every run beyond the first is paid for by a requeue, and while the image is
\* waiting to be claimed only such outlived runs exist.
OneRunPerLease ==
    \A i \in Images :
        Cardinality(RunsOf(i)) <= requeues[i] + (IF status[i] = "pending" THEN 0 ELSE 1)

\* Until the image is requeued its run is the one the row was claimed for, finds
\* the row as it left it unless a user deleted it, and discards nothing else.
RunOwnsRow ==
    \A r \in runs :
        requeues[r.img] = 0 =>
            /\ r.attempt = attempts[r.img]
            /\ r.pc \in {"process", "complete"} => status[r.img] \in {"processing", "deleted"}
            /\ r.pc = "discard" => status[r.img] = "deleted"

\* So far there were as many faults as requeues of the image, and one more once its row is
\* processing without its run, or past its lease.
Paid(i) ==
    /\ requeues[i] <= faults
    /\ status[i] = "processing" /\ (i \in stale \/ ~HasOwner(i)) => requeues[i] < faults

\* Errors of the pipeline, of complete and of storage never strand a row: each time an
\* image is requeued, or its row has lost its run or its lease, there was a crash, a lost
\* commit or an outrun lease since the requeue before.
OnlyFaultsStrandRows == \A i \in Images : Paid(i)

\* A settled image changes only by being deleted: late, repeated and stale runs
\* (complete, fail) and requeueStale leave verdict and match alone.
VerdictsAreFinal ==
    [][\A i \in Images :
          status[i] \in Settled => /\ status'[i] \in {status[i], "deleted"}
                                   /\ similarTo'[i] \in {similarTo[i], None}]_vars

\* The jobRunner.ts comment "Deleted by a user while we were working": when
\* complete finds no row to update, the image has been deleted.
DiscardOnlyIfDeleted ==
    \A r \in runs : r.pc = "discard" => status[r.img] = "deleted"

\* README: "After WORKER_MAX_ATTEMPTS attempts, the image is marked failed".
NoAttemptBeyondMax == \A i \in Images : attempts[i] <= MaxAttempts

(* Refinement: the abstract lifecycle, hiding how the queue works. *)

PhaseOf(s) == IF s \in {"pending", "processing"} THEN "queued" ELSE s

Lifecycle == INSTANCE ImageLifecycle
    WITH phase <- [i \in Images |-> PhaseOf(status[i])], duplicateOf <- similarTo

\* With all its retries, late runs and requeues, the queue settles each image
\* once and atomically: it implements ImageLifecycle.
ImplementsLifecycle == Lifecycle!LifecycleSpec

(* Liveness, under FairSpec. *)

\* Every queued image is eventually accepted, rejected, failed or deleted,
\* through crashes, lost commits, backoffs and requeues.
QueuedSettles ==
    \A i \in Images : status[i] \in {"pending", "processing"} ~> status[i] \in Settled

=============================================================================
