--------------------------- MODULE JobRunnerProofs ---------------------------
(* The runner's safety properties, for any concurrency, any number of jobs    *)
(* and any number of lost connections.                                        *)
EXTENDS JobRunner, TLAPS

\* Slots are asked for during a claim only, and its answer is tracked at once.
SlotInv ==
    /\ free > 0 => pc = "claiming"
    /\ claimed > 0 => pc = "claimed"

\* A slot that frees during the claim leaves a wake-up behind: until then the claim
\* asks for every slot there is.
WakeInv ==
    /\ pc = "claiming" => inFlight + free = Concurrency \/ wakePending
    /\ pc = "claimed" /\ announced > 0 /\ running =>
           \/ inFlight + claimed >= Concurrency
           \/ wakePending \/ notes > 0 \/ ~connected

\* RunnerTypeOK in two halves, for provers that do better with one of them.
Flags   == running \in BOOLEAN /\ wakePending \in BOOLEAN /\ connected \in BOOLEAN
Numbers ==
    /\ pc \in {"top", "claiming", "claimed", "race", "sleeping", "waking", "done"}
    /\ inFlight \in Nat /\ free \in Nat /\ claimed \in Nat
    /\ announced \in Nat /\ silent \in Nat /\ backoff \in Nat /\ notes \in Nat
    /\ owed \in Nat /\ owed <= jobs
    /\ jobs \in 0 .. MaxJobs /\ retries \in 0 .. MaxRetries /\ drops \in 0 .. MaxDrops

Waking    == WakeInv /\ NoLostWakeup
RunnerInv == Flags /\ Numbers /\ WithinConcurrency /\ SlotInv /\ Waking

LEMMA MinOfTwo ==
    ASSUME NEW a \in Nat, NEW b \in Nat
    PROVE  /\ Min({a, b}) \in Nat
           /\ Min({a, b}) <= a /\ Min({a, b}) <= b
           /\ Min({a, b}) = a \/ Min({a, b}) = b
<1>1. \E x \in {a, b} : \A y \in {a, b} : x <= y
    OBVIOUS
<1> QED BY <1>1 DEF Min

LEMMA RunnerInitial == RunnerInit => RunnerInv
<1> SUFFICES ASSUME RunnerInit PROVE RunnerInv
    OBVIOUS
<1> USE RunnerBounds DEF RunnerInit
<1>1. Flags
    BY DEF Flags
<1>2. Numbers /\ WithinConcurrency /\ SlotInv
    BY DEF Numbers, WithinConcurrency, SlotInv
<1>3. Waking
    BY DEF Waking, WakeInv, NoLostWakeup
<1> QED BY <1>1, <1>2, <1>3 DEF RunnerInv

LEMMA RunnerStep == RunnerInv /\ [RunnerNext]_runnerVars => RunnerInv'
<1> SUFFICES ASSUME RunnerInv, [RunnerNext]_runnerVars PROVE RunnerInv'
    OBVIOUS
<1> USE RunnerBounds
    DEF RunnerInv, Flags, Numbers, WithinConcurrency, SlotInv, loop, queue, network, used
<1>1. CASE LoopTop
    <2>1. Flags'
        BY <1>1 DEF LoopTop
    <2>2. Numbers' /\ WithinConcurrency' /\ SlotInv'
        BY <1>1 DEF LoopTop
    <2>3. Waking'
        BY <1>1 DEF LoopTop, Waking, WakeInv, NoLostWakeup
    <2> QED BY <2>1, <2>2, <2>3
<1>2. CASE ClaimCommits
    <2> DEFINE most == Min({free, Due})
    <2>1. Due \in Nat /\ most \in Nat /\ most <= free /\ (most = free \/ most = Due)
        BY MinOfTwo DEF Due
    <2>2. PICK n \in 0 .. most, a \in 0 .. announced :
              /\ n - a \in 0 .. silent
              /\ claimed' = n
              /\ IF n = most
                 THEN announced' = announced - a /\ silent' = silent - (n - a)
                 ELSE announced' = 0 /\ silent' = Due - n
        BY <1>2 DEF ClaimCommits
    <2>3. n \in Nat /\ n <= most /\ a \in Nat
        BY <2>1, <2>2
    <2>4. announced' \in Nat /\ silent' \in Nat
        BY <2>1, <2>2, <2>3 DEF Due
    <2>5. announced' > 0 => n = free
        BY <2>1, <2>2, <2>3 DEF Due
    <2>6. Flags' /\ Waking'
        BY <1>2, <2>1, <2>2, <2>3, <2>4, <2>5 DEF ClaimCommits, Waking, WakeInv, NoLostWakeup
    <2>7. Numbers' /\ WithinConcurrency' /\ SlotInv'
        BY <1>2, <2>1, <2>2, <2>3, <2>4 DEF ClaimCommits
    <2> QED BY <2>6, <2>7
<1>3. CASE ClaimThrew
    <2>1. Flags'
        BY <1>3 DEF ClaimThrew, Due
    <2>2. Numbers' /\ WithinConcurrency' /\ SlotInv'
        BY <1>3 DEF ClaimThrew, Due
    <2>3. Waking'
        BY <1>3 DEF ClaimThrew, Due, Waking, WakeInv, NoLostWakeup
    <2> QED BY <2>1, <2>2, <2>3
<1>4. CASE LoopTail
    <2>1. Flags'
        BY <1>4 DEF LoopTail
    <2>2. Numbers' /\ WithinConcurrency' /\ SlotInv'
        BY <1>4 DEF LoopTail
    <2>3. Waking'
        BY <1>4 DEF LoopTail, Waking, WakeInv, NoLostWakeup
    <2> QED BY <2>1, <2>2, <2>3
<1>5. CASE PollElapses
    <2>1. Flags'
        BY <1>5 DEF PollElapses
    <2>2. Numbers' /\ WithinConcurrency' /\ SlotInv'
        BY <1>5 DEF PollElapses
    <2>3. Waking'
        BY <1>5 DEF PollElapses, Waking, WakeInv, NoLostWakeup
    <2> QED BY <2>1, <2>2, <2>3
<1>6. CASE Awake
    <2>1. Flags'
        BY <1>6 DEF Awake
    <2>2. Numbers' /\ WithinConcurrency' /\ SlotInv'
        BY <1>6 DEF Awake
    <2>3. Waking'
        BY <1>6 DEF Awake, Waking, WakeInv, NoLostWakeup
    <2> QED BY <2>1, <2>2, <2>3
<1>7. CASE JobSettles
    <2>1. Flags'
        BY <1>7 DEF JobSettles, SlotFrees, Wake, WakeUpSet
    <2>2. Numbers' /\ WithinConcurrency' /\ SlotInv'
        BY <1>7 DEF JobSettles, SlotFrees, Wake, WakeUpSet
    <2>3. Waking'
        BY <1>7 DEF JobSettles, SlotFrees, Wake, WakeUpSet, Waking, WakeInv, NoLostWakeup
    <2> QED BY <2>1, <2>2, <2>3
<1>8. CASE JobFails
    <2>1. Flags'
        BY <1>8 DEF JobFails, SlotFrees, Wake, WakeUpSet
    <2>2. Numbers' /\ WithinConcurrency' /\ SlotInv'
        BY <1>8 DEF JobFails, SlotFrees, Wake, WakeUpSet
    <2>3. Waking'
        BY <1>8 DEF JobFails, SlotFrees, Wake, WakeUpSet, Waking, WakeInv, NoLostWakeup
    <2> QED BY <2>1, <2>2, <2>3
<1>9. CASE Notified
    <2>1. Flags'
        BY <1>9 DEF Notified, Wake, WakeUpSet
    <2>2. Numbers' /\ WithinConcurrency' /\ SlotInv'
        BY <1>9 DEF Notified, Wake, WakeUpSet
    <2>3. Waking'
        BY <1>9 DEF Notified, Wake, WakeUpSet, Waking, WakeInv, NoLostWakeup
    <2> QED BY <2>1, <2>2, <2>3
<1>10. CASE Stop
    <2>1. Flags'
        BY <1>10 DEF Stop, Wake, WakeUpSet
    <2>2. Numbers' /\ WithinConcurrency' /\ SlotInv'
        BY <1>10 DEF Stop, Wake, WakeUpSet
    <2>3. Waking'
        BY <1>10 DEF Stop, Wake, WakeUpSet, Waking, WakeInv, NoLostWakeup
    <2> QED BY <2>1, <2>2, <2>3
<1>11. CASE JobArrives
    <2>1. Flags'
        BY <1>11 DEF JobArrives
    <2>2. Numbers' /\ WithinConcurrency' /\ SlotInv'
        BY <1>11 DEF JobArrives
    <2>3. Waking'
        BY <1>11 DEF JobArrives, Waking, WakeInv, NoLostWakeup
    <2> QED BY <2>1, <2>2, <2>3
<1>12. CASE StaleReturns
    <2>1. Flags'
        BY <1>12 DEF StaleReturns
    <2>2. Numbers' /\ WithinConcurrency' /\ SlotInv'
        BY <1>12 DEF StaleReturns
    <2>3. Waking'
        BY <1>12 DEF StaleReturns, Waking, WakeInv, NoLostWakeup
    <2> QED BY <2>1, <2>2, <2>3
<1>13. CASE StaleNotified
    <2>1. Flags'
        BY <1>13 DEF StaleNotified
    <2>2. Numbers' /\ WithinConcurrency' /\ SlotInv'
        BY <1>13 DEF StaleNotified
    <2>3. Waking'
        BY <1>13 DEF StaleNotified, Waking, WakeInv, NoLostWakeup
    <2> QED BY <2>1, <2>2, <2>3
<1>14. CASE BackoffEnds
    <2>1. Flags'
        BY <1>14 DEF BackoffEnds
    <2>2. Numbers' /\ WithinConcurrency' /\ SlotInv'
        BY <1>14 DEF BackoffEnds
    <2>3. Waking'
        BY <1>14 DEF BackoffEnds, Waking, WakeInv, NoLostWakeup
    <2> QED BY <2>1, <2>2, <2>3
<1>15. CASE OtherTakes
    <2>1. Flags'
        BY <1>15 DEF OtherTakes
    <2>2. Numbers' /\ WithinConcurrency' /\ SlotInv'
        BY <1>15 DEF OtherTakes
    <2>3. Waking'
        BY <1>15 DEF OtherTakes, Waking, WakeInv, NoLostWakeup
    <2> QED BY <2>1, <2>2, <2>3
<1>16. CASE Disconnect
    <2>1. Flags'
        BY <1>16 DEF Disconnect
    <2>2. Numbers' /\ WithinConcurrency' /\ SlotInv'
        BY <1>16 DEF Disconnect
    <2>3. Waking'
        BY <1>16 DEF Disconnect, Waking, WakeInv, NoLostWakeup
    <2> QED BY <2>1, <2>2, <2>3
<1>17. CASE Reconnect
    <2>1. Flags'
        BY <1>17 DEF Reconnect, Wake, WakeUpSet
    <2>2. Numbers' /\ WithinConcurrency' /\ SlotInv'
        BY <1>17 DEF Reconnect, Wake, WakeUpSet
    <2>3. Waking'
        BY <1>17 DEF Reconnect, Wake, WakeUpSet, Waking, WakeInv, NoLostWakeup
    <2> QED BY <2>1, <2>2, <2>3
<1>18. CASE UNCHANGED runnerVars
    <2>1. Flags'
        BY <1>18 DEF runnerVars
    <2>2. Numbers' /\ WithinConcurrency' /\ SlotInv'
        BY <1>18 DEF runnerVars
    <2>3. Waking'
        BY <1>18 DEF runnerVars, Waking, WakeInv, NoLostWakeup
    <2> QED BY <2>1, <2>2, <2>3
<1> QED
    BY <1>1, <1>2, <1>3, <1>4, <1>5, <1>6, <1>7, <1>8, <1>9, <1>10, <1>11, <1>12, <1>13,
       <1>14, <1>15, <1>16, <1>17, <1>18 DEF RunnerNext, LoopStep

LEMMA RunnerInvariant == RunnerSpec => []RunnerInv
BY RunnerInitial, RunnerStep, PTL DEF RunnerSpec

\* The loop and its callbacks keep to their types, for any bounds.
THEOREM RunnerTypes == RunnerSpec => []RunnerTypeOK
<1>1. RunnerInv => RunnerTypeOK
    <2> SUFFICES ASSUME RunnerInv PROVE RunnerTypeOK
        OBVIOUS
    <2>1. inFlight \in 0 .. Concurrency /\ free \in 0 .. Concurrency
          /\ claimed \in 0 .. Concurrency /\ owed \in 0 .. MaxJobs
        BY RunnerBounds DEF RunnerInv, Numbers, WithinConcurrency
    <2> QED BY <2>1 DEF RunnerInv, Flags, Numbers, RunnerTypeOK
<1> QED BY <1>1, RunnerInvariant, PTL

\* The slots the loop asked for before its await are free when the answer comes,
\* whatever settled meanwhile: never more than WORKER_CONCURRENCY jobs.
THEOREM ConcurrencyBound == RunnerSpec => []WithinConcurrency
<1>1. RunnerInv => WithinConcurrency
    BY DEF RunnerInv
<1> QED BY <1>1, RunnerInvariant, PTL

\* wakePending and the order of the checks lose no notification in any interleaving.
THEOREM WakeupsAreKept == RunnerSpec => []NoLostWakeup
<1>1. RunnerInv => NoLostWakeup
    BY DEF RunnerInv, Waking
<1> QED BY <1>1, RunnerInvariant, PTL

\* stop sends no further claim, and resolves with nothing claimed left behind.
THEOREM StopHolds == RunnerSpec => StopIsFinal
<1> DEFINE A == /\ ~running /\ pc' = "claiming" => pc = "claiming"
                /\ Stopped' => claimed' = 0 /\ inFlight' = 0 /\ free' = 0
<1>1. RunnerInv' => (Stopped' => claimed' = 0 /\ inFlight' = 0 /\ free' = 0)
    BY DEF RunnerInv, Numbers, SlotInv, Stopped
<1>2. RunnerNext => (~running /\ pc' = "claiming" => pc = "claiming")
    BY DEF RunnerNext, LoopStep, LoopTop, ClaimCommits, LoopTail, Awake, ClaimThrew, PollElapses,
           JobSettles, JobFails, Notified, Stop, JobArrives, StaleReturns, StaleNotified,
           BackoffEnds, OtherTakes, Disconnect, Reconnect, SlotFrees, Wake, WakeUpSet,
           loop, queue, network, used
<1>3. RunnerInv /\ [RunnerNext]_runnerVars => [A]_runnerVars
    BY <1>1, <1>2, RunnerStep
<1> QED BY <1>3, RunnerInvariant, PTL DEF RunnerSpec, StopIsFinal


-----------------------------------------------------------------------------
(* After stop: what StopResolves needs but for fairness. *)

\* The steps left until stop resolves: those of the loop, by where it is, and one for
\* each slot that is asked for, claimed or in use.
Ahead ==
    IF pc = "done" THEN 0 ELSE IF pc = "top" THEN 1
    ELSE IF pc \in {"waking", "race"} THEN 2 ELSE IF pc = "claimed" THEN 3 ELSE 4
Left == Ahead + free + claimed + inFlight

\* The loop does not fall asleep after stop, and has a job to wait for in the race.
StopInv ==
    /\ ~running => /\ pc # "sleeping"
                   /\ pc \in {"claiming", "claimed"} => wakePending
    /\ pc = "race" => inFlight > 0

\* The steps of the loop and of its jobs.
StopStep == LoopStep \/ ClaimThrew \/ JobSettles \/ JobFails

\* The guards of the steps of which RunnerSpec assumes fairness, and which need nobody
\* but this process.
StopGuard == pc \in {"top", "claiming", "claimed", "waking"} \/ inFlight > 0

\* stop is final, every step of the loop or a job brings it closer to its end, and
\* nothing else, no notification or reconnect either, takes it away from it.
StopProgress ==
    [][~running => /\ ~running'
                   /\ StopStep => Left' < Left
                   /\ ~StopStep => Left' = Left]_runnerVars

\* Until stop resolves, there is such a step, and at most Concurrency + 4 of them.
StopIsComing == ~running => /\ Left \in 0 .. Concurrency + 4
                            /\ Stopped \/ StopGuard

LEMMA StopInitial == RunnerInit => StopInv
BY DEF RunnerInit, StopInv

LEMMA StopInvStep == RunnerInv /\ StopInv /\ [RunnerNext]_runnerVars => StopInv'
<1> SUFFICES ASSUME RunnerInv, StopInv, [RunnerNext]_runnerVars PROVE StopInv'
    OBVIOUS
<1> USE DEF StopInv, loop, queue, network, used
<1>1. inFlight \in Nat /\ claimed \in Nat /\ Concurrency \in Nat \ {0}
      /\ running \in BOOLEAN /\ wakePending \in BOOLEAN
    BY RunnerBounds DEF RunnerInv, Numbers, Flags
<1>2. CASE LoopTop
    <2>1. (~running => pc' # "sleeping" /\ pc' \notin {"claiming", "claimed"}) /\ running' = running
        BY <1>2 DEF LoopTop
    <2>2. pc' = "race" => inFlight' > 0
        BY <1>1, <1>2 DEF LoopTop
    <2> QED BY <2>1, <2>2
<1>3. CASE ClaimCommits \/ ClaimThrew
    BY <1>3 DEF ClaimCommits, ClaimThrew
<1>4. CASE LoopTail
    <2>1. ~running' => pc' # "sleeping" /\ pc' \notin {"claiming", "claimed"}
        BY <1>4 DEF LoopTail
    <2>2. pc' = "race" => inFlight' > 0
        BY <1>1, <1>4 DEF LoopTail
    <2> QED BY <2>1, <2>2
<1>5. CASE PollElapses \/ Awake
    BY <1>5 DEF PollElapses, Awake
<1>6. CASE JobSettles \/ JobFails
    BY <1>6 DEF JobSettles, JobFails, SlotFrees, Wake, WakeUpSet
<1>7. CASE Notified \/ Stop \/ Reconnect
    BY <1>7 DEF Notified, Stop, Reconnect, Wake, WakeUpSet
<1>8. CASE JobArrives \/ StaleReturns \/ StaleNotified \/ BackoffEnds \/ OtherTakes \/ Disconnect
    BY <1>8 DEF JobArrives, StaleReturns, StaleNotified, BackoffEnds, OtherTakes, Disconnect
<1>9. CASE UNCHANGED runnerVars
    BY <1>9 DEF runnerVars
<1> QED BY <1>2, <1>3, <1>4, <1>5, <1>6, <1>7, <1>8, <1>9 DEF RunnerNext, LoopStep

LEMMA StopInvariant == RunnerSpec => []StopInv
BY StopInitial, StopInvStep, RunnerInvariant, PTL DEF RunnerSpec

\* What StopProgress asks of a step.
LEMMA StopCloser ==
    ASSUME RunnerInv, StopInv, RunnerNext, ~running
    PROVE  /\ ~running'
           /\ StopStep => Left' < Left
           /\ ~StopStep => Left' = Left
<1> USE DEF StopInv, loop, queue, network, used
<1>1. /\ inFlight \in Nat /\ claimed \in Nat /\ free \in Nat /\ inFlight' \in Nat
      /\ pc \in {"top", "claiming", "claimed", "race", "waking", "done"}
    <2>1. Numbers'
        BY RunnerStep DEF RunnerInv
    <2> QED BY <2>1 DEF RunnerInv, Numbers
<1>2. pc \in {"claiming", "claimed"} => wakePending
    OBVIOUS
<1>3. ASSUME LoopTop PROVE ~running' /\ Left' < Left
    BY <1>1, <1>3 DEF LoopTop, Left, Ahead
<1>4. ASSUME ClaimCommits PROVE ~running' /\ Left' < Left
    <2> DEFINE most == Min({free, Due})
    <2>1. most \in Nat /\ most <= free
        BY <1>1, MinOfTwo DEF Due, RunnerInv, Numbers
    <2>2. claimed' \in 0 .. most
        BY <1>4 DEF ClaimCommits
    <2>3. claimed = 0
        BY <1>1, <1>4 DEF ClaimCommits, RunnerInv, SlotInv
    <2> HIDE DEF most
    <2> QED BY <1>1, <1>4, <2>1, <2>2, <2>3 DEF ClaimCommits, Left, Ahead
<1>5. ASSUME ClaimThrew PROVE ~running' /\ Left' < Left
    BY <1>1, <1>5 DEF ClaimThrew, Left, Ahead
<1>6. ASSUME LoopTail PROVE ~running' /\ Left' < Left
    <2>1. pc' \in {"race", "top"} /\ pc = "claimed"
        BY <1>2, <1>6 DEF LoopTail
    <2> QED BY <1>1, <1>6, <2>1 DEF LoopTail, Left, Ahead
<1>7. ASSUME Awake PROVE ~running' /\ Left' < Left
    BY <1>1, <1>7 DEF Awake, Left, Ahead
<1>8. ASSUME JobSettles \/ JobFails PROVE ~running' /\ Left' < Left
    <2>1. SlotFrees
        BY <1>8 DEF JobSettles, JobFails
    <2>2. inFlight > 0 /\ inFlight' = inFlight - 1 /\ UNCHANGED <<running, free, claimed>>
        BY <2>1 DEF SlotFrees
    <2>3. pc' = pc \/ (pc' = "top" /\ pc = "race")
        BY <2>1 DEF SlotFrees, Wake, WakeUpSet
    <2> QED BY <1>1, <2>2, <2>3 DEF Left, Ahead
<1>9. ASSUME PollElapses PROVE FALSE
    BY <1>9 DEF PollElapses
<1>10. ASSUME Notified \/ Stop \/ Reconnect
       PROVE  ~running' /\ UNCHANGED <<pc, inFlight, free, claimed>>
    BY <1>1, <1>10 DEF Notified, Stop, Reconnect, Wake, WakeUpSet
<1>11. ASSUME \/ JobArrives \/ StaleReturns \/ StaleNotified \/ BackoffEnds
              \/ OtherTakes \/ Disconnect
       PROVE  ~running' /\ UNCHANGED <<pc, inFlight, free, claimed>>
    BY <1>11 DEF JobArrives, StaleReturns, StaleNotified, BackoffEnds, OtherTakes, Disconnect
<1>12. UNCHANGED <<pc, inFlight, free, claimed>> => Left' = Left
    BY DEF Left, Ahead
<1>13. StopStep => ~running' /\ Left' < Left
    BY <1>3, <1>4, <1>5, <1>6, <1>7, <1>8 DEF StopStep, LoopStep
<1>14. ~StopStep => ~running' /\ Left' = Left
    BY <1>9, <1>10, <1>11, <1>12 DEF StopStep, RunnerNext
<1> QED BY <1>13, <1>14

\* From the moment stop is called every step of the loop and every settled job brings
\* it closer to its end, and no callback, failed claim or late notification undoes that.
THEOREM StopProgresses == RunnerSpec => StopProgress
<1> DEFINE A == ~running => /\ ~running'
                            /\ StopStep => Left' < Left
                            /\ ~StopStep => Left' = Left
<1>1. RunnerInv /\ StopInv /\ [RunnerNext]_runnerVars => [A]_runnerVars
    BY StopCloser
<1> QED BY <1>1, RunnerInvariant, StopInvariant, PTL DEF RunnerSpec, StopProgress

\* Until stop resolves there is a step to take, without any help from outside, and
\* there are never more than Concurrency + 4 of them to come.
THEOREM StopNeverHangs == RunnerSpec => []StopIsComing
<1>1. RunnerInv /\ StopInv => StopIsComing
    <2> SUFFICES ASSUME RunnerInv, StopInv, ~running
                 PROVE  Left \in 0 .. Concurrency + 4 /\ (Stopped \/ StopGuard)
        BY DEF StopIsComing
    <2>1. /\ inFlight \in Nat /\ claimed \in Nat /\ free \in Nat /\ Concurrency \in Nat
          /\ inFlight + free + claimed <= Concurrency
          /\ pc \in {"top", "claiming", "claimed", "race", "waking", "done"}
        BY RunnerBounds DEF RunnerInv, Numbers, WithinConcurrency, StopInv
    <2>2. Left \in 0 .. Concurrency + 4
        BY <2>1 DEF Left, Ahead
    <2>3. Stopped \/ StopGuard
        BY <2>1 DEF StopInv, Stopped, StopGuard
    <2> QED BY <2>2, <2>3
<1> QED BY <1>1, RunnerInvariant, StopInvariant, PTL

=============================================================================
