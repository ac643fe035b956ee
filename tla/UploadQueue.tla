----------------------------- MODULE UploadQueue -----------------------------
(***************************************************************************)
(* The browser's upload queue (frontend/src/hooks/useImageUploads.ts) on   *)
(* state.uploads of the reducer (frontend/src/state/uploadsReducer.ts).    *)
(*                                                                         *)
(* React renders and runs effects later than the dispatch that causes      *)
(* them: the effect that fills the slots sees the uploads of the last      *)
(* render (`rendered'), while clicks and answers change `uploads'.  It     *)
(* runs after the page has been painted, and always before the next        *)
(* render.  React is modelled from how the hook uses it.                   *)
(***************************************************************************)
EXTENDS Integers, Sequences, SequencesExt, FiniteSets

CONSTANTS
    MaxFiles,     \* bound: files chosen in the session
    MaxParallel,  \* MAX_PARALLEL_UPLOADS
    MaxFaults     \* bound: uploads that end in an error

ASSUME UploadBounds == /\ MaxFiles \in Nat /\ MaxFaults \in Nat
                       /\ MaxParallel \in Nat \ {0}

VARIABLES
    chosen,    \* how many files were chosen; file k is the k-th
    uploads,   \* state.uploads, newest selection first
    rendered,  \* state.uploads of the last render
    dirty,     \* dispatched, not yet rendered
    due,       \* rendered, and the effect has not run yet
    started,   \* the refs `started' and `aborts', which change together
    faults     \* how much of MaxFaults is used

react  == <<rendered, due>>
uploadVars == <<chosen, uploads, react, dirty, started, faults>>

Files    == 1 .. MaxFiles
Upload   == [id : Files,
             phase : {"validating", "invalid", "queued", "uploading", "uploaded", "error"}]

Ids(us) == {us[k].id : k \in DOMAIN us}
In(us, phases) == {us[k].id : k \in {k \in DOMAIN us : us[k].phase \in phases}}

UploadTypeOK ==
    /\ uploads \in Seq(Upload) /\ rendered \in Seq(Upload)
    /\ Cardinality(Ids(uploads)) = Len(uploads)
    /\ Ids(uploads) \subseteq 1 .. chosen /\ started \subseteq 1 .. chosen
    /\ dirty \in BOOLEAN /\ due \in BOOLEAN
    /\ chosen \in 0 .. MaxFiles /\ faults \in 0 .. MaxFaults

UploadInit ==
    /\ chosen = 0 /\ uploads = <<>> /\ rendered = <<>>
    /\ dirty = FALSE /\ due = FALSE
    /\ started = {} /\ faults = 0

-----------------------------------------------------------------------------
(* The reducer. *)

Dispatch(us) == uploads' = us /\ dirty' = TRUE

\* updateUpload, for a set of uploads: no effect on one that was dismissed.
Patched(ids, phase) ==
    [k \in DOMAIN uploads |->
        IF uploads[k].id \in ids THEN [uploads[k] EXCEPT !.phase = phase] ELSE uploads[k]]

\* upload/dismissed, and image/removed once the upload is linked to its image.
Without(f) == RemoveAt(uploads, CHOOSE k \in DOMAIN uploads : uploads[k].id = f)

-----------------------------------------------------------------------------
(* The user. *)

\* Mutant: the local ids number the files of their own selection.
AddFilesByIndex(n) ==
    /\ chosen + n <= MaxFiles
    /\ Dispatch([k \in 1 .. n |-> [id |-> k, phase |-> "validating"]] \o uploads)
    /\ chosen' = chosen + n
    /\ UNCHANGED <<react, started, faults>>

\* files/added puts one selection, in its own order, before the older ones.
AddFiles(n) ==
    /\ chosen + n <= MaxFiles
    /\ Dispatch([k \in 1 .. n |-> [id |-> chosen + k, phase |-> "validating"]] \o uploads)
    /\ chosen' = chosen + n
    /\ UNCHANGED <<react, started, faults>>

\* The tile's cancel button, which only the cards of invalid files and of settled
\* images lack; it aborts the request, if there is one.
Dismiss(f) ==
    /\ f \in (Ids(rendered) \cap Ids(uploads)) \ In(uploads, {"invalid"})
    /\ Dispatch(Without(f))
    /\ started' = started \ {f}
    /\ UNCHANGED <<chosen, react, faults>>

\* Mutant: every tile of an upload that is under way has the button, too.
RetryAny(f) ==
    /\ f \in In(rendered, {"error", "uploading"}) \cap In(uploads, {"error", "uploading"})
    /\ Dispatch(Patched({f}, "queued"))
    /\ UNCHANGED <<chosen, react, started, faults>>

\* Only a failed upload has the button; React renders a click before the next one.
Retry(f) ==
    /\ f \in In(rendered, {"error"}) \cap In(uploads, {"error"})
    /\ Dispatch(Patched({f}, "queued"))
    /\ UNCHANGED <<chosen, react, started, faults>>

-----------------------------------------------------------------------------
(* The page. *)

\* validateFile resolves.
Validated(f) ==
    /\ f \in In(uploads, {"validating"})
    /\ \E phase \in {"queued", "invalid"} : Dispatch(Patched({f}, phase))
    /\ UNCHANGED <<chosen, react, started, faults>>

\* Mutant: the effect depends on how many uploads there are, not on the uploads.
RenderByCount ==
    /\ dirty /\ ~due
    /\ rendered' = uploads
    /\ dirty' = FALSE /\ due' = (Len(uploads) # Len(rendered))
    /\ UNCHANGED <<chosen, uploads, started, faults>>

\* A render with other uploads than the last one's makes the effect due.
Render ==
    /\ dirty /\ ~due
    /\ rendered' = uploads
    /\ dirty' = FALSE /\ due' = TRUE
    /\ UNCHANGED <<chosen, uploads, started, faults>>

Active == Cardinality(In(rendered, {"uploading"}))
Queue  == {k \in DOMAIN rendered : rendered[k].phase = "queued" /\ rendered[k].id \notin started}
Slots  == MaxParallel - Active

\* The oldest of the queue, which are the last, for the free slots.
Picked == {k \in Queue : Cardinality({j \in Queue : j > k}) < Slots}

\* The effect, and startUpload up to its await for each upload it picks.  Nothing
\* tells it of uploads dismissed since the render.
FillSlots ==
    /\ due /\ due' = FALSE
    /\ LET next == {rendered[k].id : k \in Picked} IN
       /\ started' = started \cup next
       /\ uploads' = Patched(next, "uploading")
       /\ dirty' = (dirty \/ next # {})
    /\ UNCHANGED <<chosen, rendered, faults>>

\* upload/progress: a new state.uploads, so a render and the effect again.
Progress(f) ==
    /\ f \in started /\ ~dirty
    /\ dirty' = TRUE
    /\ UNCHANGED <<chosen, uploads, react, started, faults>>

\* The 202 arrives: upload/succeeded links the upload to its image.
Succeeded(f) ==
    /\ f \in started
    /\ Dispatch(Patched({f}, "uploaded"))
    /\ started' = started \ {f}
    /\ UNCHANGED <<chosen, react, faults>>

\* Any other answer, or none: the server may have stored the image, or still may.
Failed(f) ==
    /\ f \in started /\ faults < MaxFaults
    /\ Dispatch(Patched({f}, "error"))
    /\ started' = started \ {f}
    /\ faults' = faults + 1
    /\ UNCHANGED <<chosen, react>>

\* image/removed, for a delete here or elsewhere.
ImageRemoved(f) ==
    /\ f \in In(uploads, {"uploaded"})
    /\ Dispatch(Without(f))
    /\ UNCHANGED <<chosen, react, started, faults>>

-----------------------------------------------------------------------------
UploadNext ==
    \/ \E n \in Files : AddFiles(n)
    \/ \E f \in Files : \/ Dismiss(f) \/ Retry(f) \/ Validated(f)
                        \/ Progress(f) \/ Succeeded(f) \/ Failed(f) \/ ImageRemoved(f)
    \/ Render \/ FillSlots

\* React renders and runs effects; the browser settles every request.  Nobody
\* has to retry, and no fault has to happen.
UploadSpec ==
    /\ UploadInit /\ [][UploadNext]_uploadVars
    /\ WF_uploadVars(Render) /\ WF_uploadVars(FillSlots)
    /\ WF_uploadVars(\E f \in Files : Succeeded(f) \/ Failed(f))

-----------------------------------------------------------------------------
\* MAX_PARALLEL_UPLOADS bounds the open requests although the effect counts them in
\* a state that may be outdated.  Excused are uploads that were dismissed between
\* the render and its effect: they are sent all the same, and nobody counts them.
WithinParallel == Cardinality(started \cap Ids(uploads)) <= MaxParallel

\* The refs and the state agree: an upload shown as uploading has its request open
\* (or it would hold its slot for ever), and only such an upload has one.
UploadingIsOpen == started \cap Ids(uploads) = In(uploads, {"uploading"})

\* No slot is lost to failures, retries, dismissals and late answers: a file that
\* waits is sent, or the user dismisses it.
QueuedIsSent ==
    \A f \in Files : f \in In(uploads, {"queued"}) ~> f \notin In(uploads, {"queued"})

=============================================================================
