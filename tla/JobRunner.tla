------------------------------ MODULE JobRunner ------------------------------
(***************************************************************************)
(* One worker's JobRunner (backend/src/queue/jobRunner.ts): the claim loop *)
(* with its three awaits (claimJobs, Promise.race, sleep), the callbacks   *)
(* that interleave with them (a job settling, a notification, the poll     *)
(* timer, stop), and the LISTEN connection of db/pgListener.ts behind the  *)
(* notifications.  Node runs one callback at a time: an action is the code *)
(* from one await to the next.                                             *)
(*                                                                         *)
(* Jobs are counted.  The due ones are told apart by whether somebody will *)
(* tell this worker: `announced' jobs came with a NOTIFY that is delivered *)
(* while the connection lasts, `silent' ones did not, and are what the     *)
(* poll interval is for.                                                   *)
(***************************************************************************)
EXTENDS Integers, FiniteSetsExt

CONSTANTS
    Concurrency,   \* WORKER_CONCURRENCY
    MaxJobs,       \* bound: jobs that come into the queue
    MaxRetries,    \* bound: jobs that fail and return after a backoff
    MaxDrops       \* bound: times the LISTEN connection is lost

ASSUME RunnerBounds == /\ Concurrency \in Nat \ {0}
                       /\ MaxJobs \in Nat /\ MaxRetries \in Nat /\ MaxDrops \in Nat

VARIABLES
    pc,          \* where the loop is
    running,     \* this.running
    wakePending, \* this.wakePending
    inFlight,    \* this.inFlight.size
    free,        \* the local `free' of the claim under way
    claimed,     \* jobs in the answer of claimJobs, not yet tracked
    announced, silent, backoff,  \* due jobs, and jobs whose run_after is to come
    owed,        \* updates of requeueStale whose pg_notify is still to come
    notes,       \* notifications on their way to the worker
    connected,   \* the LISTEN connection is up
    jobs, retries, drops         \* how much of the bounds is used

loop    == <<pc, running, wakePending, inFlight, free, claimed>>
queue   == <<announced, silent, backoff, owed>>
network == <<notes, connected>>
used    == <<jobs, retries, drops>>
runnerVars == <<loop, queue, network, used>>

RunnerTypeOK ==
    /\ pc \in {"top", "claiming", "claimed", "race", "sleeping", "waking", "done"}
    /\ running \in BOOLEAN /\ wakePending \in BOOLEAN /\ connected \in BOOLEAN
    /\ inFlight \in 0 .. Concurrency
    /\ free \in 0 .. Concurrency
    /\ claimed \in 0 .. Concurrency
    /\ announced \in Nat /\ silent \in Nat /\ backoff \in Nat /\ notes \in Nat
    /\ owed \in 0 .. MaxJobs
    /\ jobs \in 0 .. MaxJobs /\ retries \in 0 .. MaxRetries /\ drops \in 0 .. MaxDrops

RunnerInit ==
    /\ pc = "top" /\ running = TRUE /\ wakePending = FALSE
    /\ inFlight = 0 /\ free = 0 /\ claimed = 0
    /\ announced = 0 /\ silent = 0 /\ backoff = 0 /\ owed = 0
    /\ notes = 0 /\ connected = TRUE
    /\ jobs = 0 /\ retries = 0 /\ drops = 0

-----------------------------------------------------------------------------
(* wake: wakeUp is set from the moment sleep waits until its finally ran.  *)

WakeUpSet == pc \in {"sleeping", "waking"}

\* Mutant: a wake that finds nobody asleep is forgotten.
WakeSleeper ==
    /\ pc' = IF pc = "sleeping" THEN "waking" ELSE pc
    /\ UNCHANGED wakePending

Wake == IF WakeUpSet
        THEN /\ pc' = "waking"
             /\ UNCHANGED wakePending
        ELSE /\ wakePending' = TRUE
             /\ UNCHANGED pc

-----------------------------------------------------------------------------
(* The loop. *)

\* Mutant: the loop asks for as many jobs as it may run at most.
LoopTopGreedy ==
    /\ pc = "top"
    /\ IF ~running THEN pc' = "done" /\ UNCHANGED free
       ELSE pc' = "claiming" /\ free' = Concurrency
    /\ UNCHANGED <<running, wakePending, inFlight, claimed, queue, network, used>>

\* Mutant: the loop does not look at running.
LoopTopEndless ==
    /\ pc = "top"
    /\ IF inFlight < Concurrency
       THEN pc' = "claiming" /\ free' = Concurrency - inFlight
       ELSE pc' = "race" /\ UNCHANGED free
    /\ UNCHANGED <<running, wakePending, inFlight, claimed, queue, network, used>>

\* The while condition, and how much to claim, both before the await.
LoopTop ==
    /\ pc = "top"
    /\ IF ~running THEN pc' = "done" /\ UNCHANGED free
       ELSE IF inFlight < Concurrency
            THEN pc' = "claiming" /\ free' = Concurrency - inFlight
            ELSE pc' = "race" /\ UNCHANGED free
    /\ UNCHANGED <<running, wakePending, inFlight, claimed, queue, network, used>>

Due == announced + silent

\* The claim commits.  It takes what it asked for, unless other transactions hold
\* rows: SKIP LOCKED leaves them, and nobody announces them again when the other
\* one rolls back.
ClaimCommits ==
    /\ pc = "claiming"
    /\ \E n \in 0 .. Min({free, Due}), a \in 0 .. announced :
        /\ n - a \in 0 .. silent
        /\ claimed' = n
        /\ IF n = Min({free, Due})
           THEN announced' = announced - a /\ silent' = silent - (n - a)
           ELSE announced' = 0 /\ silent' = Due - n
    /\ pc' = "claimed" /\ free' = 0
    /\ UNCHANGED <<running, wakePending, inFlight, backoff, owed, network, used>>

\* claimJobs threw: logged, and as if nothing had been there.
ClaimThrew ==
    /\ pc = "claiming"
    /\ pc' = "claimed" /\ claimed' = 0 /\ free' = 0
    /\ announced' = 0 /\ silent' = Due
    /\ UNCHANGED <<running, wakePending, inFlight, backoff, owed, network, used>>

\* The claimed jobs start; then wait for a slot, or sleep unless there was a wake.
LoopTail ==
    /\ pc = "claimed"
    /\ inFlight' = inFlight + claimed /\ claimed' = 0
    /\ IF inFlight + claimed >= Concurrency
       THEN pc' = "race" /\ UNCHANGED wakePending
       ELSE /\ pc' = IF wakePending THEN "top" ELSE "sleeping"
            /\ wakePending' = FALSE
    /\ UNCHANGED <<running, free, queue, network, used>>

\* Mutant: no poll interval.
PollNever == FALSE

PollElapses ==
    /\ pc = "sleeping"
    /\ pc' = "waking"
    /\ UNCHANGED <<running, wakePending, inFlight, free, claimed, queue, network, used>>

\* sleep's finally clears wakeUp and the loop goes on.
Awake ==
    /\ pc = "waking"
    /\ pc' = "top"
    /\ UNCHANGED <<running, wakePending, inFlight, free, claimed, queue, network, used>>

-----------------------------------------------------------------------------
(* Callbacks. *)

\* Mutant: the loop waits for a wake-up, not for a job, when it is saturated.
SlotFreesUnraced ==
    /\ inFlight > 0
    /\ inFlight' = inFlight - 1
    /\ Wake
    /\ UNCHANGED <<running, free, claimed>>

\* track's finally, and the race if the loop is in it.
SlotFrees ==
    /\ inFlight > 0
    /\ inFlight' = inFlight - 1
    /\ IF pc = "race" THEN pc' = "top" /\ wakePending' = TRUE ELSE Wake
    /\ UNCHANGED <<running, free, claimed>>

\* A job settles for good, or its failure puts it back with a backoff.
JobSettles == SlotFrees /\ UNCHANGED <<queue, network, used>>

JobFails ==
    /\ retries < MaxRetries
    /\ SlotFrees
    /\ backoff' = backoff + 1 /\ retries' = retries + 1
    /\ UNCHANGED <<announced, silent, owed, network, jobs, drops>>

\* listener.on('notification').
Notified ==
    /\ notes > 0
    /\ notes' = notes - 1
    /\ Wake
    /\ UNCHANGED <<running, inFlight, free, claimed, queue, connected, used>>

Stop ==
    /\ running
    /\ running' = FALSE
    /\ Wake
    /\ UNCHANGED <<inFlight, free, claimed, queue, network, used>>

\* stop() resolves after loopDone and allSettled(inFlight).
Stopped == ~running /\ pc = "done" /\ inFlight = 0

-----------------------------------------------------------------------------
(* The database and the connection. *)

\* insertMany notifies in the transaction that inserts.
JobArrives ==
    /\ jobs < MaxJobs
    /\ jobs' = jobs + 1
    /\ announced' = announced + 1
    /\ notes' = IF connected THEN notes + 1 ELSE notes
    /\ UNCHANGED <<loop, silent, backoff, owed, connected, retries, drops>>

\* requeueStale, of this worker or another: the update, then, in a transaction of
\* its own and if the process gets that far, the notification.
StaleReturns ==
    /\ jobs < MaxJobs
    /\ jobs' = jobs + 1
    /\ silent' = silent + 1
    /\ owed' = owed + 1
    /\ UNCHANGED <<loop, announced, backoff, network, retries, drops>>

StaleNotified ==
    /\ owed > 0
    /\ owed' = owed - 1
    /\ notes' = IF connected THEN notes + 1 ELSE notes
    /\ UNCHANGED <<loop, announced, silent, backoff, connected, used>>

\* A backoff ends, without a word to anyone.
BackoffEnds ==
    /\ backoff > 0
    /\ backoff' = backoff - 1 /\ silent' = silent + 1
    /\ UNCHANGED <<loop, announced, owed, network, used>>

\* Another worker claims, or a user deletes, a due job.
OtherTakes ==
    /\ \/ announced > 0 /\ announced' = announced - 1 /\ UNCHANGED silent
       \/ silent > 0 /\ silent' = silent - 1 /\ UNCHANGED announced
    /\ UNCHANGED <<loop, backoff, owed, network, used>>

Disconnect ==
    /\ connected /\ drops < MaxDrops
    /\ connected' = FALSE /\ drops' = drops + 1
    /\ notes' = 0
    /\ UNCHANGED <<loop, queue, jobs, retries>>

\* PgListener LISTENs first and emits 'reconnect' after, which wakes the runner.
Reconnect ==
    /\ ~connected
    /\ connected' = TRUE
    /\ Wake
    /\ UNCHANGED <<running, inFlight, free, claimed, queue, notes, used>>

-----------------------------------------------------------------------------
LoopStep == LoopTop \/ ClaimCommits \/ LoopTail \/ Awake

RunnerNext ==
    \/ LoopStep \/ ClaimThrew \/ PollElapses
    \/ JobSettles \/ JobFails \/ Notified \/ Stop
    \/ JobArrives \/ StaleReturns \/ StaleNotified \/ BackoffEnds
    \/ OtherTakes \/ Disconnect \/ Reconnect

\* The event loop runs what is ready, timers fire, jobs settle (sharp, onnx, S3 and
\* pg all return or throw), the listener reconnects with capped delays.  A claim
\* is not for ever the one that throws.
RunnerSpec ==
    /\ RunnerInit /\ [][RunnerNext]_runnerVars
    /\ WF_runnerVars(LoopTop) /\ WF_runnerVars(LoopTail) /\ WF_runnerVars(Awake)
    /\ SF_runnerVars(ClaimCommits /\ claimed' = Min({free, Due}))
    /\ WF_runnerVars(PollElapses) /\ WF_runnerVars(JobSettles \/ JobFails)
    /\ WF_runnerVars(BackoffEnds) /\ WF_runnerVars(Reconnect)

-----------------------------------------------------------------------------
\* JobRunner's bound on concurrency: the slots asked for before the await of
\* claimJobs are still free when the answer comes.
WithinConcurrency == inFlight + free + claimed <= Concurrency

\* Between notifications, freed slots and reconnects no wake-up is lost: the loop
\* is never asleep over an announced job unless the news is still on its way.
NoLostWakeup ==
    pc = "sleeping" /\ announced > 0 /\ running => notes > 0 \/ ~connected

\* After stop no further claim is sent, and when stop resolves nothing claimed is
\* left behind.
StopIsFinal ==
    [][/\ ~running /\ pc' = "claiming" => pc = "claiming"
       /\ Stopped' => claimed' = 0 /\ inFlight' = 0 /\ free' = 0]_runnerVars

\* stop resolves, wherever the loop and its jobs are when it is called.
StopResolves == ~running ~> Stopped

\* Every due job is claimed, also those nobody announces.
DueJobsAreClaimed == Due > 0 ~> Due = 0 \/ ~running

=============================================================================
