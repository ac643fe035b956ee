---------------------------- MODULE ObjectStorage ----------------------------
(***************************************************************************)
(* JobQueue together with the objects of backend/src/storage: what upload, *)
(* the pipeline, the runner and delete put into the bucket and take out of *)
(* it.  Every step is a step of JobQueue or leaves its variables alone.    *)
(*                                                                         *)
(* The pipeline writes the two derivatives in parallel.  When one part of  *)
(* its Promise.all rejects, process throws at once and a put that is still *)
(* under way is on its own: it may land after the run, the row, or both    *)
(* are gone.                                                               *)
(***************************************************************************)
EXTENDS JobQueue

VARIABLES
    objects,   \* the keys that exist in the bucket
    read,      \* runs that have read the original and are in the pixel pipeline
    puts,      \* derivative puts under way
    upload,    \* how far the upload of each image got
    cleanups,  \* storage.delete calls of deletes and failed uploads, not yet done
    threw,     \* history: images of which a run threw or crashed
    lost,      \* history: keys left to no one's care, or kept by a storage.delete
    discarded  \* history: images whose derivatives a run discarded beside their row

runVars     == <<read, puts>>
history     == <<threw, lost, discarded>>
storageVars == <<objects, runVars, upload, cleanups, history>>
allVars == <<vars, storageVars>>

Derived == {"processed", "thumbnail"}
Kinds   == Derived \cup {"original"}

\* storageKeys: one key per kind and image, the same for every attempt.
Key(kind, i) == <<kind, i>>
\* Mutant: the row records a thumbnail key under which nothing is put.
DerivedKeysMisnamed(i) == {Key(kind, i) : kind \in {"processed", "thumb"}}

DerivedKeys(i) == {Key(kind, i) : kind \in Derived}
ObjectsOf(i) == {o \in objects : o[2] = i}

\* The keys in the row: the original unless upload rejected the file on sight,
\* the derivatives once complete has recorded a result that decoded.
RowKeys(i) ==
    (IF status[i] \in NoRow \/ (status[i] = "rejected" /\ attempts[i] = 0)
     THEN {} ELSE {Key("original", i)})
    \cup
    (IF status[i] \in {"accepted", "rejected"} /\ attempts[i] > 0 /\ i \notin Unreadable
     THEN DerivedKeys(i) ELSE {})

RunId(r) == <<r.img, r.attempt>>
PutsOf(r) == {p \in puts : RunId(p) = RunId(r)}

StorageTypeOK ==
    /\ TypeOK
    /\ objects \subseteq {Key(kind, i) : kind \in Kinds, i \in Images}
    /\ read \subseteq {RunId(r) : r \in runs}
    /\ puts \subseteq [img : Images, attempt : Nat, kind : Derived]
    /\ \A c \in cleanups : c.keys \subseteq {Key(kind, c.img) : kind \in Kinds}
    /\ upload \in [Images -> {"none", "put", "stored", "uncertain", "failed"}]
    /\ threw \subseteq Images /\ discarded \subseteq Images
    /\ lost \subseteq {Key(kind, i) : kind \in Kinds, i \in Images}

StorageInit ==
    /\ Init
    /\ objects = {} /\ read = {} /\ puts = {} /\ cleanups = {}
    /\ upload = [i \in Images |-> "none"]
    /\ threw = {} /\ lost = {} /\ discarded = {}

-----------------------------------------------------------------------------
(* Requests. *)

\* prepare: the original is put before its row exists; only pending rows have one.
Prepare(i) ==
    /\ status[i] = "absent" /\ upload[i] = "none"
    /\ upload' = [upload EXCEPT ![i] = "put"]
    /\ objects' = objects \cup {Key("original", i)}
    /\ UNCHANGED <<vars, runVars, cleanups, history>>

\* insertMany commits, and its answer arrives or is lost.
StoreUpload(i) ==
    /\ Upload(i)
    /\ status'[i] = "pending" <=> upload[i] = "put"
    /\ upload[i] # "failed"
    /\ \/ /\ upload' = [upload EXCEPT ![i] = "stored"]
          /\ UNCHANGED cleanups
       \/ /\ upload[i] = "put" /\ upload' = [upload EXCEPT ![i] = "uncertain"]
          /\ cleanups' = cleanups \cup {[img |-> i, keys |-> {Key("original", i)}]}
    /\ UNCHANGED <<objects, runVars, history>>

\* insertMany is rolled back: the catch block removes the originals of the batch.
InsertFails(i) ==
    /\ upload[i] = "put" /\ upload' = [upload EXCEPT ![i] = "failed"]
    /\ cleanups' = cleanups \cup {[img |-> i, keys |-> {Key("original", i)}]}
    /\ UNCHANGED <<vars, objects, runVars, history>>

\* The put of another file fails before the insert, or the process dies: Promise.all
\* rejects outside the try block, and the originals stay.
BatchFails(i) ==
    /\ upload[i] = "put" /\ upload' = [upload EXCEPT ![i] = "failed"]
    /\ lost' = lost \cup {Key("original", i)}
    /\ UNCHANGED <<vars, objects, runVars, cleanups, threw, discarded>>

\* delete: the row first, with the keys it held for the storage.delete after it.
StoreDelete(i) ==
    /\ Delete(i)
    /\ cleanups' = cleanups \cup {[img |-> i, keys |-> RowKeys(i)]}
    /\ UNCHANGED <<objects, runVars, upload, history>>

\* storage.delete: DeleteObjects with Quiet reports no per-key error, LocalStorage
\* may throw half way, the caller may die: some keys may stay.
RemoveKeys(keys) ==
    \E kept \in SUBSET (keys \cap objects) :
        /\ objects' = objects \ (keys \ kept)
        /\ lost' = lost \cup kept

Cleanup(c) ==
    /\ RemoveKeys(c.keys)
    /\ cleanups' = cleanups \ {c}
    /\ UNCHANGED <<vars, runVars, upload, threw, discarded>>

-----------------------------------------------------------------------------
(* The pipeline of a run. *)

\* storage.get of the original, which must still be there; an image that decodes
\* then has both derivatives written.
ReadOriginal(r) ==
    /\ r.pc = "process" /\ RunId(r) \notin read
    /\ Key("original", r.img) \in objects
    /\ read' = read \cup {RunId(r)}
    /\ puts' = IF r.img \in Unreadable THEN puts
               ELSE puts \cup {[img |-> r.img, attempt |-> r.attempt, kind |-> kind] :
                               kind \in Derived}
    /\ UNCHANGED <<vars, objects, upload, cleanups, history>>

PutLands(p) ==
    /\ puts' = puts \ {p}
    /\ objects' = objects \cup {Key(p.kind, p.img)}
    /\ UNCHANGED <<vars, read, upload, cleanups, history>>

Abandons(r) ==
    /\ ProcessThrew(r)
    /\ read' = read \ {RunId(r)}
    /\ threw' = threw \cup {r.img}

\* A failed put rejects the pipeline it belongs to, if that is still waiting.
PutFails(p) ==
    /\ puts' = puts \ {p}
    /\ \/ \E r \in runs : RunId(r) = RunId(p) /\ Abandons(r)
       \/ /\ \A r \in runs : RunId(r) = RunId(p) => r.pc # "process"
          /\ UNCHANGED <<vars, read, threw>>
    /\ UNCHANGED <<objects, upload, cleanups, lost, discarded>>

\* Anything else in the pipeline throws: get, decode, blur, hash, face detection.
PipelineThrew(r) ==
    /\ Abandons(r)
    /\ UNCHANGED <<objects, puts, upload, cleanups, lost, discarded>>

\* Mutant: the result is returned without awaiting writeDerivatives.
PipelineEager(r) ==
    /\ Processed(r) /\ RunId(r) \in read
    /\ read' = read \ {RunId(r)}
    /\ UNCHANGED <<objects, puts, upload, cleanups, history>>

\* Promise.all resolves: both derivatives have landed.
PipelineReturns(r) ==
    /\ Processed(r) /\ RunId(r) \in read /\ PutsOf(r) = {}
    /\ read' = read \ {RunId(r)}
    /\ UNCHANGED <<objects, puts, upload, cleanups, history>>

\* The keys in the result, which is what the runner discards.
ResultKeys(r) == IF r.img \in Unreadable THEN {} ELSE DerivedKeys(r.img)

\* Mutant: nothing is discarded.
KeepResult(r) == Discarded(r) /\ UNCHANGED storageVars

Discards(r) ==
    /\ RemoveKeys(ResultKeys(r))
    /\ discarded' = IF status[r.img] = "deleted" THEN discarded ELSE discarded \cup {r.img}
    /\ UNCHANGED <<runVars, upload, cleanups>>

DiscardResult(r) == Discarded(r) /\ Discards(r) /\ UNCHANGED threw

DiscardResultThrew(r) == DiscardThrew(r) /\ Discards(r) /\ threw' = threw \cup {r.img}

RunCompleteThrew(r) ==
    /\ CompleteThrew(r)
    /\ threw' = threw \cup {r.img}
    /\ UNCHANGED <<objects, runVars, upload, cleanups, lost, discarded>>

\* A worker dies; a put it had sent may still land.
WorkerCrash(w) ==
    /\ Crash(w)
    /\ read' = read \ {RunId(r) : r \in InFlight(w)}
    /\ threw' = threw \cup {r.img : r \in InFlight(w)}
    /\ UNCHANGED <<objects, puts, upload, cleanups, lost, discarded>>

-----------------------------------------------------------------------------
StorageNext ==
    \/ \E i \in Images :
        \/ Prepare(i) \/ StoreUpload(i) \/ InsertFails(i) \/ BatchFails(i) \/ StoreDelete(i)
        \/ (BackoffElapses(i) \/ LeaseExpires(i) \/ LeaseOutrun(i)) /\ UNCHANGED storageVars
    \/ \E c \in cleanups : Cleanup(c)
    \/ \E p \in puts : PutLands(p) \/ PutFails(p)
    \/ \E r \in runs :
        \/ ReadOriginal(r) \/ PipelineReturns(r) \/ PipelineThrew(r)
        \/ DiscardResult(r) \/ DiscardResultThrew(r) \/ RunCompleteThrew(r)
        \/ (Complete(r) \/ Fail(r) \/ FailThrew(r)) /\ UNCHANGED storageVars
    \/ \E w \in Workers :
        \/ WorkerCrash(w)
        \/ (Claim(w) \/ ClaimLost(w)) /\ UNCHANGED storageVars
    \/ RequeueStale /\ UNCHANGED storageVars

StorageSpec == StorageInit /\ [][StorageNext]_allVars

-----------------------------------------------------------------------------
\* What a row references exists: a queued image can be read again by a retry, however
\* often it was requeued, and the files of a settled one can be served.  Excused are the
\* original of an insert that was taken for failed, and the derivatives of an image that
\* a requeue gave two runs of which one discarded them beside the row.
RowObjectsExist ==
    \A i \in Images :
        /\ upload[i] # "uncertain" => RowKeys(i) \ DerivedKeys(i) \subseteq objects
        /\ requeues[i] = 0 \/ i \notin discarded => RowKeys(i) \cap DerivedKeys(i) \subseteq objects

Quiet(i) == /\ RunsOf(i) = {}
            /\ \A p \in puts : p.img # i
            /\ \A c \in cleanups : c.img # i

\* An upload that fails, and a delete at any moment of the processing, leave no object
\* behind once the run it raced with is over: the upload's catch block, delete or the
\* run's discard removes each.  Only the very keys that storage did not remove, or that a
\* batch failing before its insert had put, may stay; and, of an image of which a run
\* threw, its derivatives.
DeleteIsComplete ==
    \A i \in Images :
        status[i] \in NoRow /\ upload[i] # "put" /\ Quiet(i) =>
            ObjectsOf(i) \subseteq lost \cup (IF i \in threw THEN DerivedKeys(i) ELSE {})

=============================================================================
