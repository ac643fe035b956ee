# A TLA+ model of the image validation service

Users upload photos; workers decode and judge each one; the browser shows, live,
which are queued, accepted or rejected. The code is small, but a PostgreSQL table
serves as the work queue, several workers compete for it, objects live in S3 beside
the rows, and status changes travel to the page over NOTIFY, a relay and an event
stream. The modules here model these protocols and the algorithms that judge a photo,
TLC checks them on small instances, and TLAPS proves most of the safety properties for
every instance.

Paths below are relative to `src/`; `be/` is `backend/src/`, `fe/` is `frontend/src/`.

## 1. Inventory

| Part | State it keeps | Operations | What makes it hard |
|---|---|---|---|
| Image repository (`be/images/imageRepository.ts`, the migration) | the `images` table: status, attempts, run_after, locked_at, similar_to_id, keys | insertMany, delete, claimJobs, requeueStale, complete, fail; reads: findById, list, countByStatus | several workers; a lease that ends under a live worker; the scan for duplicates and the update must be one decision; deletes at any time |
| Job runner, worker process (`be/queue/jobRunner.ts`, `be/worker.ts`) | running, inFlight, wakePending, wakeUp | start, loop, run, wake, sleep, stop, stale timer | three awaits with callbacks in between; lost notifications; every await may throw |
| Image processor (`be/processing/imageProcessor.ts`) | none | process: get, decode, measure, put two derivatives | a failed `Promise.all` leaves puts under way |
| Image service (`be/images/imageService.ts`) | none | upload, delete | rows and objects change in two systems without a transaction |
| Object storage (`be/storage/`) | the objects | put, get, delete, signedUrl | late, failed and partial effects |
| LISTEN client (`be/db/pgListener.ts`) | the current client, stopped, retry delay | start, stop, reconnect | error and end of one client, stop while reconnecting |
| API process (`be/server.ts`, `be/images/eventHub.ts`, routes) | the SSE clients | relay, publish, subscribe; one service call per route | relay awaits a query per event, so events overtake each other |
| Pure algorithms (`be/processing/`: rules, blur, perceptualHash, fileSignature, faceDetector; `fe/lib/validateFile.ts`) | none | one function each | boundaries, and two sniffers that should agree |
| Browser state (`fe/state/uploadsReducer.ts`, `fe/hooks/`, `fe/api/client.ts`) | uploads, images by id, paging; the EventSource | upload queue with three slots, retry, dismiss, refetch, load more, events | answers and events in any order, lost events |
| Rest (configuration, logging, HTTP errors, components, migrations runner, containers) | - | - | no protocol of their own |

How they interact: an upload puts the original, inserts the row and notifies
`image_jobs`. A worker wakes, claims due rows in one statement, processes each in a
*run*, and in `complete` compares the hash with the accepted images and sets the
verdict under an advisory lock. Each change notifies `image_events` with its commit;
the API process queries the row and pushes it to the browsers, whose reducer merges
it with lists and upload answers. A delete removes the row, then the objects.

What must hold, part by part: *queue* - one run per claim, attempts bounded, verdicts
final, every image settles; *decisions* - never two similar accepted images, no
rejection without a reason; *storage* - rows reference what exists, deletes leave
nothing; *runner* - bounded concurrency, no lost wake-up, stop ends; *LISTEN client* -
one listener, no silent gap; *live updates* - the page catches up and never moves
backwards; *upload queue* - three requests at most, every queued file is sent;
*paging* - no row falls between two pages; *analysis* - crops stay in the frame and
cover it, a face counts once, browser and server agree on formats, the stored hash
keeps its distance.

`PROJECT.json` lists every component and every hazard with its line.

## 2. Modules

```
ImageLifecycle            what a client may rely on (abstract)
   ^ implemented by
JobQueue  <-- JobQueueProofs              MCJobQueue
   ^ extended by   ^ extended by
ObjectStorage <-- ObjectStorageProofs     MCObjectStorage
DecisionTxn   <-- DecisionTxnProofs       MCDecisionTxn     implements ImageLifecycle
JobRunner     <-- JobRunnerProofs         (run directly)
PgListener    <-- PgListenerProofs        (run directly)
LiveUpdates   <-- LiveUpdatesProofs       (run directly)
UploadQueue   <-- UploadHookProofs        (run directly)
Pagination    <-- UploadHookProofs        (run directly)
ImageAnalysis <-- ImageAnalysisProofs     MCImageAnalysis
```

### ImageLifecycle
Phases absent, queued, accepted, rejected, failed, deleted and the image a rejected
one duplicates. `Accept` needs that no accepted image is similar, `RejectDuplicate`
names one. No workers, retries or leases.

### JobQueue
The table and the runs. A repository method is one transaction, so one action:

| Code | Action |
|---|---|
| `upload`, `insertMany` | `Upload` (pending, or rejected on sight) |
| `delete` with ON DELETE SET NULL | `Delete` |
| `claimJobs` in `loop` | `Claim(w)`; `ClaimLost(w)` when the commit's answer is lost |
| `run`: `process` returns or throws | `Processed`, `ProcessThrew` |
| `run`: `complete` | `Complete` (verdict, or no row: go and discard), `CompleteThrew` |
| `run`: `storage.delete` | `Discarded`, `DiscardThrew` |
| catch block: `fail` | `Fail`, `FailThrew` |
| `requeueStale` | `RequeueStale` |
| death of a worker | `Crash(w)` |
| time | `BackoffElapses`, `LeaseExpires`, `LeaseOutrun` |

Content is given by constants: `Flawed` images decode but break a rule, `Unreadable`
ones do not decode (and have no hash), `Similar` says which hashes are close. Time is
reduced to the comparisons the SQL makes (`due`, `stale`). `CompleteThrew` covers both
a rollback and a commit whose answer is lost. `SKIP LOCKED` lets a claim take any part
of what is due. `requeues` and `faults` are history and bound.

### DecisionTxn
The same decisions statement by statement under READ COMMITTED: advisory lock, scan,
update, foreign key check, commit; the delete with its SET NULL; row locks, key-share
locks and rollbacks. It justifies that JobQueue takes each as one step: it implements
the same `ImageLifecycle`. The behaviour of the locks is PostgreSQL's, modelled from
how the code uses it (external in the map where no line of the code stands for it).

### ObjectStorage
Extends JobQueue by the bucket; every step is a step of JobQueue or leaves its variables
alone. The upload is refined into `Prepare` (the original is put) and the insert:
`StoreUpload` commits, its answer arriving or not, `InsertFails` rolls back and runs the
catch block, `BatchFails` stands for a put of another file that fails before the insert,
outside the try block. The pipeline is refined (`ReadOriginal`, puts that land or fail on
their own, `PipelineReturns`), delete becomes a row delete and a later `Cleanup`, and
`RemoveKeys` may leave keys behind. `threw`, `lost` and `discarded` are history: the images
of which a run threw, the keys that a removal kept or that were left to nobody, and the
images whose derivatives a run discarded although their row exists.

### JobRunner
One worker's loop between its awaits (`pc`), with the callbacks `Wake` (notification,
freed slot, reconnect, stop), the poll timer and the connection. Jobs are counted, not
named; *announced* ones came with a notification, *silent* ones did not (backoff ended,
requeued, left by SKIP LOCKED, or the claim failed).

### PgListener
The `pg.Client`s that `PgListener` makes, one after the other, and its reconnect loops. A
connection that is lost emits error, end or both, some time later and also when it was
lost during `connect` or LISTEN; `ScheduleReconnect` handles one such event, a member of
`loops` is a call of `scheduleReconnect` in its while loop. `Stop` may come at any time.
JobRunner and LiveUpdates see of all this a connection that is up or down.

### LiveUpdates
Rows, notifications (in order), relay calls (in any order), the stream (in order),
list requests and answers (any order), and what the page shows. The status "refused" is
the row status "rejected" of an image turned down on sight, which no event announces.
An empty list answer changes nothing on the page but its paging, so only answers with
rows are kept. Images are fewer than a page; pages are in Pagination.

### UploadQueue
`useImageUploads` on `state.uploads`. The hazard is React's delay: `uploads` is the state
after all dispatches, `rendered` what the last render saw, and the effect that fills the
slots (`FillSlots`) acts on the latter while clicks and answers change the former.
`started` stands for the refs `started` and `aborts`, which change together. Uploads are
numbered by selection order; `Failed` covers refusals, lost answers and aborted networks.

### Pagination
One section with a "Load more" button: rows that enter and leave it, `list` with its
(created_at, id) cursor, and `loadMore` and `reloadAll` with their answers in any order.
Rows are numbered in the order of the index; a batch shares its `created_at`. `seen` is
the paging of the last render, on which a click acts. `paging.of` remembers, as history,
from which reload the cursor stems.

### ImageAnalysis
The stateless algorithms; a behaviour takes one subject (a file, an axis of an image, a
photo with faces, a pair of small images) and computes the result the code would. Integer
arithmetic stands for the code's: `Math.round(0.4 * n)` is `Round10(4 * n)`, `Math.floor(n
/ 4)` is `n \div 4`. Each result is compared with a definition that does not know how it
was computed. The face network is external: it finds the faces that lie in a crop, up to
a pixel off and with any score; IoU, suppression and the way back to the frame are the
code's. Boxes are a set, in which `nth` keeps the place that the stable sort goes by, and
the greedy loop of `suppressOverlapping` is the one subset whose members are just the
boxes that no member before them overlaps. The hash is the code's loop of shifts
(`HashLoop`); TLC runs it with fewer rows and columns than 8 and 8, so that all images can
be enumerated, the proof for any number; the sign bit is the top bit as it is there.

## 3. Runs

| Run | Instance | Shows |
|---|---|---|
| `queue` | 2 similar images, 2 workers with 1 slot, 2 attempts, 2 faults, fair | `AttemptsBounded`, `OneRunPerLease`, `RunOwnsRow`, `OnlyFaultsStrandRows`, `VerdictsAreFinal`, `QueuedSettles` |
| `decisions` | 3 images i1~i2~i3, i3 flawed, 1 worker with 2 slots, 1 fault | `NoTwoSimilarAccepted`, `SimilarToAccepted`, `RejectionJustified`, `ImplementsLifecycle` |
| `decision_txn` | 2 similar images, 3 connections | `LocksHeld`, `TxnsImplementLifecycle`, `TxnsEnd` and no deadlock |
| `storage` | 1 image, 2 workers, 2 faults | `RowObjectsExist`, `DeleteIsComplete` |
| `job_runner` | 2 slots, 3 jobs, 1 retry, 1 lost connection | `WithinConcurrency`, `NoLostWakeup`, `StopIsFinal`, `StopResolves`, `DueJobsAreClaimed` |
| `pg_listener` | 3 lost or refused connections | `OneListener`, `MissedCatchesUp` |
| `live_updates` | 1 image, 3 notifications, 1 loss | `CaughtUp`, `NeverBackwards`, `DeletionsArrive` |
| `upload_queue` | 3 files, 2 slots, 1 failed upload | `WithinParallel`, `UploadingIsOpen`, `QueuedIsSent` |
| `pagination` | 4 rows in batches of 2, pages of 1, 1 loss, 4 requests | `NothingUnreachable` |
| `image_analysis` | sizes 1 to 60, files around 16 and 64 bytes, 1 or 2 faces, hashes of 4 bits | `UploadChecksAgree`, `QuadrantsFit`, `TilesFit`, `JudgedAlike`, `DistanceIsBits` |
| `discard_comment`, `attempts_readme` | smaller instances of JobQueue | a document or comment and the code disagree (section 6) |

Each module with state has its type invariant checked by one run: `TypeOK` of JobQueue by
`queue`, `LocksHeld` holds that of DecisionTxn, and PgListener's is part of its proof.

**Why the bounds are enough.** Two images are the least that can collide; three in a
chain let a duplicate be decided against either neighbour and against a deleted one.
Two runs of one image need one outrun lease and two slots, in one worker or two; two
faults add a crash on top, or a third run. `MaxAttempts = 2` has a first, a retried and
a last attempt. Objects of different images never share a key, so one image is enough
there; the same holds for the page, where images meet only in a list answer. Three
connections let two decisions and a delete wait for each other in a cycle, if one
exists. The runner has fewer slots than jobs, so that it is saturated, partly busy and
idle. Three notifications are a claim, a verdict and a deletion, or a failed attempt
between two claims. Three lost connections are one in use and two that were being made
to replace it. Three files for two slots make one wait, and one failure lets it overtake
or be overtaken by a retry. With pages of one row of four, a section has several pages
of which two begin inside a batch; four requests are the first load, a reload, and two
clicks on either side of it. The sizes 1 to 60 have every remainder by 4 and by 10 many
times over, and the frames too thin for tiles; `ImageAnalysisProofs` has all sizes.

**Why the fairness is justified.** `FairSpec` of JobQueue: workers poll (`loop` never
ends while running), awaits of a run settle (the libraries' calls return or throw),
timers fire, `requeueStale` runs every minute. Nothing forces an upload, a delete, a
fault or an outrun lease; a branch of a choice (throw or return) is never forced. In
DecisionTxn, waiting statements are granted in the order of PostgreSQL's lock queues,
which is strong fairness of a transaction's next statement. In JobRunner, ready code
runs, timers fire, jobs settle, the listener reconnects, and a claim is not for ever
the one that fails. In PgListener timers fire, events are handled, and a connect or LISTEN
is answered in the end. In UploadQueue React renders and runs its effects, and the browser
settles some open request as long as there is one (the fairness is on "some request", so
that one file may be overtaken any number of times). Safety properties need none of it.

**Faults.** Crashes, lost commits, failed `fail` calls and outrun leases are counted by
`faults`; errors that the code catches (`ProcessThrew`, `CompleteThrew`, `DiscardThrew`)
are free and unbounded.

## 4. What is proved

Every theorem is for any values of the constants that satisfy the modules' assumptions.

| Module | Theorem | States |
|---|---|---|
| `JobQueueProofs` | `TypeCorrect` | `TypeOK` |
| | `QueueInvariant`, `Invariant` | `QueueInv`, `IInv` |
| | `Uniqueness` | `NoTwoSimilarAccepted` |
| | `Justification`, `NoGroundlessRejection` | `SimilarToAccepted`, `RejectionJustified` |
| | `BoundedAttempts` | `AttemptsBounded` |
| | `Exclusion`, `RunOwnership` | `OneRunPerLease`, `RunOwnsRow` |
| | `NothingStranded` | `OnlyFaultsStrandRows` |
| | `FinalVerdicts` | `VerdictsAreFinal` |
| | `Refinement` | `ImplementsLifecycle` |
| | `ClaimsPaid` | `ClaimsArePaid`: an image is claimed at most `MaxAttempts` times plus the faults |
| | `RowsProgress` | `RowsGoForward`: a queued row changes boundedly often (action property) |
| | `RowsAttended` | `RowsAreAttended`: a claimed row is stale, or ownerless, or its run has still to report |
| `ObjectStorageProofs` | `StorageInvariant`, `StorageTypesHold` | `StorageInv`, `StorageTypeOK` |
| | `NothingDangles` | `RowObjectsExist` |
| | `NothingLeftBehind` | `DeleteIsComplete` |
| | `StorageImplementsQueue` | `StorageSpec => Spec`, the bucket hidden |
| | `StorageImplementsLifecycle` | `ImplementsLifecycle` beside the bucket |
| `DecisionTxnProofs` | `TxnInvariant`, `LockDiscipline` | `TxnInv`, `LocksHeld` |
| | `TxnRefinement` | `TxnsImplementLifecycle` |
| | `WaitsAreAcyclic` | `NoWaitCycle`: whoever waits, waits for transactions nearer to their end |
| | `SomeStatementRuns` | `NoDeadlock`: if a transaction is open, one has its next guard |
| `JobRunnerProofs` | `RunnerTypes` | `RunnerTypeOK` |
| | `ConcurrencyBound` | `WithinConcurrency` |
| | `WakeupsAreKept` | `NoLostWakeup` |
| | `StopHolds` | `StopIsFinal` |
| | `StopProgresses` | `StopProgress`: after stop each step of the loop or of a job lowers the steps left, nothing else raises them (action property) |
| | `StopNeverHangs` | `StopIsComing`: they are at most `Concurrency + 4`, and until the end one has its guard |
| `PgListenerProofs` | `ListenerIsUnique` | `OneListener` |
| | `ReconnectNeverForgotten` | `ReconnectIsComing`: after a missed notification, a step towards a reconnect is due |
| `LiveUpdatesProofs` | `LiveTypes` | `LiveTypeOK` |
| | `VerdictsStay` | `NeverBackwards` |
| | `DeletionsReachThePage` | `DeletionsArrive` |
| | `PageCatchesUp` | `CaughtUp` |
| `UploadHookProofs` | `UploadTypesHold`, `PagingTypesHold` | `UploadTypeOK`, `PagingTypeOK` |
| | `ParallelBound`, `RefsAgree` | `WithinParallel`, `UploadingIsOpen` |
| | `NoIdleSlot` | `SlotsAreUsed`: while a file waits and a slot is free, a render or an effect is due |
| | `NothingIsLost` | `NothingUnreachable` |
| `ImageAnalysisProofs` | `QuadrantsAlwaysFit`, `TilesAlwaysFit` | `QuadrantsFit`, `TilesFit` |
| | `ChecksAlwaysAgree` | `UploadChecksAgree` |
| | `DistanceAlwaysBits` | `DistanceIsBits` |
| | `JudgedAlways` | `JudgedAlike` |

Assumptions of JobQueue and what extends it: `None` is no image; the bounds are natural numbers, slots and attempts at
least one; content sets are images; similarity is symmetric and irreflexive (the
Hamming distance is symmetric, the scan has `id <> ?`). DecisionTxn assumes the same of
its images; the other modules only that their bounds are natural numbers, that
`NoClient` is no client, that Pagination's `Null` is neither row nor answer, that
`Verdicts` are statuses a worker can decide, that the upload hook has at least one slot,
that an image, a frame, a face and a hash have a positive size, that the coordinates of a
face are natural numbers, and that the length of a file, the size of its `ftyp`
box, the offsets of its brands and the limits of accepted lengths are natural numbers.

**The inductive invariants.** *JobQueue.* `IInv == QueueInv /\ DecisionInv`, defined beside
the proofs: the listed properties of rows and runs and what each needs of the others. None of the queue's
properties is inductive alone. `OneRunPerLease` counts runs against requeues: a claim
adds a run, so it must know that a pending row has no run beyond the outlived ones,
which is its second half; to keep that, a run must leave when its row becomes pending,
and the only way for a row to become pending without its run leaving is a requeue,
which raises the bound. `RunOwnsRow` needs `OneRunPerLease` (a `Fail` of another run
would take the row away) and `RunsAreClaims` (runs were claimed, so their image is not
absent, and counts are finite). `AttemptsBounded` needs its clause on pending rows for
the next claim. On the decision side `RejectionJustified` has to be carried through
later deletes of the match, `NoTwoSimilarAccepted` uses the symmetry of `Similar`, and
`Refinement` uses `IInv` where a decision must map to `Accept`, `RejectFlawed` or
`RejectDuplicate`.

The proof has one lemma per action for the queue part and one step per action for the
decisions; cardinality facts about the runs of an image are lemmas of their own.

The bounds need to know who pays for a retry, which is `OnlyFaultsStrandRows`: a row that
lost its run, or whose lease ended under it, has had a fault that no earlier requeue of it
has counted. `PaidInv` adds that the run of a processing row never ends by discarding its
result, which writes nothing (`DiscardsOthers`), so that without a fault it ends by settling
the row or returning it. With that `attempts` is bounded by `MaxAttempts` and the faults, and
`Ahead` (attempts still possible, then the phase in one attempt: leased, stale, waiting, due)
is a natural number that every change of a queued row lowers. This is the argument for
`QueuedSettles` without its fairness: finitely many changes, and, by `RowsAreAttended`,
somebody who is to make the next one.

*ObjectStorage.* Hiding the bucket maps each action to one of JobQueue or to a stutter, so
the table's theorems hold beside it. `StorageInv` adds to `IInv` who may remove what: a
cleanup removes keys of a deleted row, or the original of an upload taken for failed
(`CleanupOk`), and of every derivative a run has written either the object or the put is there until the row is
deleted or another run discards its own result beside it (`Written`); the decision that
records the derivatives needs it at its end, however often the image was requeued.
`RunOwnsRow` adds that an image must have been requeued for that. `CareInv` is the
converse: an object that storage is still to give up is in someone's care - the original in
the row's, a cleanup's or the upload's, whatever the runs do; a derivative in the row's, a
cleanup's or a run's, and a put under way belongs to a run that waits for it, as long as no
run of the image has thrown. When the row is gone and nothing is under way, nobody is left
to care, so there is no such object.

*DecisionTxn.* `TxnInv` says what a transaction may rely on between two statements: after
its scan no similar image has been accepted, because whoever wants to holds the advisory
lock (`ScanHolds`); the rows it has written or locked do not change (`OwnsRows`). One
lemma per statement shows that the step of one transaction leaves what the others rely on
(`Undisturbed`); at a commit this is what makes the scan, the update and the foreign key
one decision of ImageLifecycle. `NoWaitCycle` ranks the open transactions by what their
next statement can wait for (`Depth`): the advisory lock waits for the one decision under
way, a statement on a row for its writer and sharers, a foreign key for a delete, the SET
NULL of a delete for the writers of the rows that refer to the deleted one. Only the last
could close a cycle, delete waiting for delete. It cannot, since an image that refers to
another is rejected and one that is referred to is accepted (`NoChains`), so the delete it
waits for clears no references itself; and since a row is written by a transaction about
it, or by a delete that is ready to commit (`WriterReasons`).

*JobRunner.* The slots asked for before the await of `claimJobs` are still free when the
answer comes, since only the loop takes slots (`SlotInv`), and a slot freed meanwhile has
left `wakePending` behind (`WakeInv`). `StopInv` keeps the loop from going to sleep after
stop, and from racing for a job when none runs; `Left` counts where the loop is and which
slots are in use, and each of its steps and each job that settles lowers it.

*PgListener.* `OneListener` is inductive with the types and the fact that events come from
connections that are gone: only the first event of `this.client` starts a loop. That the
first one does is the other half, `SomebodyReconnects`: without a loop and before stop,
`this.client` listens or an event of it is still to be handled. `ClientPerLoss` counts the
clients against the losses, so that the bound on clients is never what keeps a loop waiting.

*LiveUpdates.* `SnapshotsAgree`: all snapshots of an image, wherever they are on their way,
agree on its final status, as the row had it when they were read and never leaves it but
by a delete. Then `upsert`, which never lowers the rank, cannot replace a verdict.
`CaughtUp` speaks of quiet states only. What every step keeps is `Heard` in `CatchUpInv`:
while the page is connected and the API listens, each announced image of a section that
was loaded since the last loss is shown as it is, or something that will tell the page is
under way: a notification, a relay, a stream message, a resync, a refetch that is wanted,
or an answer that has read the row. In a quiet state only the first is left.
`DeletionsArrive` is a property of steps: each of them that takes the event of a deletion
off one queue puts it on the next or takes the image off the page.

*Pagination.* `InReach` says of every cursor that stems from the newest reload (the one in
the state, the one a click acts on, the one of a request, the one of an answer) that no
unseen row lies beyond it, so no order of answers can skip one. Rows that enter are shown
at once on a live page, so the unseen rows only get fewer. `PageIsNewest` is the part
about `list`: a row that does not fit the page is older than its last row.

*UploadQueue.* `WithinParallel` and `UploadingIsOpen` are not inductive, because the effect
counts slots in a render that may be stale. `CountsTheOpen` says in which direction: an
upload that has a request open and is still listed was uploading in the render the effect
closes over, since only the effect starts requests; so counting them there never frees a
slot twice. `RenderedIsCurrent` and `SlotsAreUsed` say that staleness is noticed: without a
dispatch since the render the two lists are equal, so a free slot beside a file that waits
has an effect due, or a render that makes one due.

*ImageAnalysis* has no steps to speak of: its invariants say that a result is what the
code computes, and the rest is about the computation. The crops are arithmetic over one
axis. `ChecksAlwaysAgree` compares the two sniffers brand by brand: what the browser finds
among the first 64 bytes within the box, the server finds too.

`DistanceAlwaysBits` needs that the loop of shifts computes what it should, for any number
of bits. A theorem with an operator as its parameter cannot be used (see below), but one
with a set can: `Inductive` says that a set of naturals with 0 and all successors has them
all, `PrimitiveRecursion` follows from it, and each fact about the loop is the statement
that some set of numbers is all of them (`HashDigits`: bit *i* of the hash is comparison
*i*). `SignedHash` is the two's complement, which changes no bit modulo `Power2[HashBits]`.

`JudgedAlways` follows a face through the fallback of `detect`: `SeenSomewhere`, a quadrant
holds it (from `HalvesOverlap`); `FoundViews`, its boxes come back to their place in the
frame, but for the pixel the network is off; `ViewsOverlap`, any two of them have more
than 30% in common, by a nonlinear estimate; `ApartViews`, boxes of two faces have nothing
in common; so (`KeptFirsts`, `EachOnce`) the greedy suppression keeps one box of each, and
there are as many faces, of the same heights. The condition `SmallFace` is where the
overlap of the quadrants ends; a larger face may be cut by all four.

**Only model-checked:** liveness (`QueuedSettles`, `TxnsEnd`, `StopResolves`,
`DueJobsAreClaimed`, `MissedCatchesUp`, `QueuedIsSent`), since ENABLED and with it fairness
is out of the prover's reach. Of each the part that needs no fairness is proved, namely
that the step they wait for is due and, for two of them, that boundedly many are left:
`RowsAreAttended` and `RowsGoForward` of `QueuedSettles`, `NoWaitCycle` of `TxnsEnd`,
`StopIsComing` and `StopProgress` of `StopResolves`, `NoLostWakeup` of `DueJobsAreClaimed`
(announced jobs), `ReconnectIsComing` of `MissedCatchesUp`, `SlotsAreUsed` of
`QueuedIsSent`. What TLC shows of them is that the fairness assumed makes those steps
happen. The induction theorems of the library take an operator as their parameter, which
the installed provers cannot instantiate; where the proofs need induction over numbers
they use sets, as above.

## 5. Not modelled

- Pixel values: the variance of a tile, the shrinking before the hash, the face network.
  The rules that compare one number with one threshold are in the set `Flawed`. A face
  that a crop cuts, and what the network then sees, are not modelled.
- Decoding is a call into sharp and libheif: it returns, finds the file unreadable, or throws.
- `attempts` is unbounded, and the interval `power(4, attempts)` is not computed.
- A retry after a lost answer stores the photo a second time, as no request carries an
  identity: UploadQueue has the retry, but no server, and no property is about it.
- Liveness of paging: a click may fail any number of times.
- Presigned URLs, `countByStatus`, HTTP parsing, rate limit, error mapping, heartbeat,
  object URLs, notices, the selectors and all rendering: without a state of their own.
- Configuration, logging, the migrations runner, containers and CI.

## 6. Where documents and code disagree

- `imageRepository.ts:174` and `jobRunner.ts:94` say that `complete` finds no row because
  the image was deleted. It also finds none after the lease of a slow run ended and the
  image was requeued; the run then deletes derivatives whose keys the image's next run
  uses (`DiscardOnlyIfDeleted`).
- `README.md:91-92` says an image is failed after `WORKER_MAX_ATTEMPTS` attempts. Only
  `fail` looks at the limit. In the trace the first attempt fails in the ordinary way, the
  last allowed one outruns its lease, `requeueStale` returns the row to the queue and it is
  claimed once more (`NoAttemptBeyondMax`). What does hold are `AttemptsBounded` and
  `ClaimsArePaid`: each such fault buys one more attempt.

Both have a run that violates the quoted claim. The following were found while modelling,
and no run is about them; all but the two on rendering are behaviours of the models:

- `README.md:155` says a delete removes the S3 objects. Derivatives put by a run that then
  threw are in no row and stay, as do the originals of a batch of which one put failed
  outside the try block (`imageService.ts:30`) and keys whose removal S3 refused.
  `DeleteIsComplete` allows those very keys, of that very image, and no other.
- An insert that commits with its answer lost is taken for failed, and the originals of
  rows that exist are removed (`imageService.ts:34`): `RowObjectsExist` allows for the
  original of such an image, and for the derivatives of one whose outlived run discarded
  its result beside the row, which is the first divergence above.
- `README.md:101-102` and `useImageEvents.ts:8-9` rely on a refetch to make up for lost
  events. It does so for updates (`CaughtUp`), not for deletions: a list only adds. They
  arrive while both connections are up (`DeletionsArrive`), and even then a snapshot older
  than the deletion may put the image back.
- A page asked for before a reload may be answered after it, or the reload fails: then the
  cursor is an old one, and rows that entered while the stream was down are out of reach
  until the next reload (the excuse of `NothingUnreachable`).
- `useImageUploads.ts:129` means to send files in the order they were added. It does so for
  selections; within one selection, whose files `files/added` stores in their own order,
  the last goes first.
- An upload dismissed between a render and its effect is sent all the same and occupies no
  slot (the excuse of `WithinParallel`).
- Rendering: `AcceptedSection.tsx:18-19` says that a tile never changes position or key. Its sort key
  goes from the time it was added here to the server's `createdAt`, and its key from the
  image id to the local id if an event shows the image before the upload is answered.
- Rendering: the "processing" section is loaded by pages like the others, but no button asks for its
  second page.
- The two sniffers differ: a brand past the `ftyp` box counts in the browser only, one past
  64 bytes on the server only, and the server wants 16 bytes (`UploadChecksAgree` says
  exactly this).
- `PgListener.stop` during the reconnect delay or a connect ends no client; the loop
  connects once more, and that connection stays open until the process exits.

## 7. Running it

```
tlc -workers 2 -config JobQueue.cfg MCJobQueue      # and the other runs of PROJECT.json
tlapm JobQueueProofs.tla                            # and the other *Proofs modules
```
