-------------------------- MODULE ObjectStorageProofs --------------------------
(* What rows refer to exists in the bucket, and what no row refers to is gone  *)
(* in the end, for any number of images, workers, attempts and faults; on top  *)
(* of the invariant of the queue.                                              *)
EXTENDS ObjectStorage, JobQueueProofs

\* A run in the pipeline; its reads and puts belong to it.
Running == {r \in runs : r.pc = "process"}
ReadsRun == read \subseteq {RunId(r) : r \in Running}

\* An upload that has not got its row yet has none; its original waits for the row.
UploadOk(i) ==
    /\ upload[i] \in {"none", "put", "failed"} <=> status[i] = "absent"
    /\ upload[i] = "put" => Key("original", i) \in objects

\* Who may remove what: all keys once the row is deleted, and the original of an
\* upload that is taken for failed.
CleanupOk(c) ==
    /\ c.img \in Images
    /\ \/ status[c.img] = "deleted"
       \/ c.keys = {Key("original", c.img)} /\ upload[c.img] \in {"uncertain", "failed"}

\* What the row lists is there, but for an original that was taken for an orphan and
\* for derivatives that a run discarded beside the row.
RowFiles(i) ==
    /\ upload[i] # "uncertain" => RowKeys(i) \ DerivedKeys(i) \subseteq objects
    /\ i \notin discarded => RowKeys(i) \cap DerivedKeys(i) \subseteq objects

\* While its row has not been deleted nor its files discarded, what a run has written is
\* there: of every derivative the object or the put, and at the end both objects.
Written(r) ==
    r.img \notin discarded /\ status[r.img] # "deleted" /\ r.img \notin Unreadable =>
        /\ r.pc = "complete" => DerivedKeys(r.img) \subseteq objects
        /\ r.pc = "process" /\ RunId(r) \in read =>
              \A kind \in Derived : \/ Key(kind, r.img) \in objects
                                    \/ [img |-> r.img, attempt |-> r.attempt, kind |-> kind] \in puts

StorageInv ==
    /\ IInv /\ StorageTypeOK /\ ReadsRun
    /\ \A i \in Images : UploadOk(i) /\ RowFiles(i)
    /\ \A i \in discarded : requeues[i] # 0
    /\ \A c \in cleanups : CleanupOk(c)
    /\ \A r \in runs : Written(r)

-----------------------------------------------------------------------------
(* What most steps have in common. *)

RowsFrame ==
    /\ discarded \subseteq discarded'
    /\ \A i \in Images : /\ status'[i] = "absent" <=> status[i] = "absent"
                         /\ status[i] = "deleted" => status'[i] = "deleted"
                         /\ requeues'[i] = 0 => requeues[i] = 0

\* Removed are derivatives of deleted images or of those whose files a run discards,
\* and originals of deleted images or of uploads taken for failed.
Harmless ==
    \A i \in Images :
        status[i] # "deleted" =>
            /\ i \notin discarded' => DerivedKeys(i) \cap objects \subseteq objects'
            /\ upload[i] \notin {"uncertain", "failed"} /\ Key("original", i) \in objects
               => Key("original", i) \in objects'

\* A put is over when its object is there, or its run is not waiting for it.
PutsKept ==
    \A p \in puts : p \in puts' \/ Key(p.kind, p.img) \in objects' \/ RunId(p) \notin read'

LEMMA ThreeKeys ==
    /\ \A i : DerivedKeys(i) = {Key("processed", i), Key("thumbnail", i)}
    /\ \A i, j, k, l : Key(k, i) = Key(l, j) => k = l /\ i = j
    /\ Derived = {"processed", "thumbnail"} /\ Kinds = {"processed", "thumbnail", "original"}
BY DEF DerivedKeys, Key, Derived, Kinds

LEMMA WrittenKept ==
    ASSUME StorageInv, RowsFrame, Harmless, PutsKept, NEW r \in runs,
           RunId(r) \in read' => RunId(r) \in read
    PROVE  Written(r)'
<1> DEFINE i == r.img
           P(kind) == [img |-> i, attempt |-> r.attempt, kind |-> kind]
<1>1. i \in Images /\ Written(r)
    BY DEF StorageInv, StorageTypeOK, TypeOK, Run
<1> SUFFICES ASSUME i \notin discarded', status'[i] # "deleted", i \notin Unreadable
             PROVE  /\ r.pc = "complete" => DerivedKeys(i) \subseteq objects'
                    /\ r.pc = "process" /\ RunId(r) \in read' =>
                          \A kind \in Derived : Key(kind, i) \in objects' \/ P(kind) \in puts'
    BY DEF Written
<1>2. i \notin discarded /\ status[i] # "deleted" /\ DerivedKeys(i) \cap objects \subseteq objects'
    BY <1>1 DEF RowsFrame, Harmless
<1>3. ASSUME r.pc = "complete" PROVE DerivedKeys(i) \subseteq objects'
    BY <1>1, <1>2, <1>3 DEF Written
<1>4. ASSUME r.pc = "process", RunId(r) \in read', NEW kind \in Derived
      PROVE  Key(kind, i) \in objects' \/ P(kind) \in puts'
    <2>1. Key(kind, i) \in objects \/ P(kind) \in puts
        BY <1>1, <1>2, <1>4 DEF Written
    <2>2. Key(kind, i) \in DerivedKeys(i)
        BY DEF DerivedKeys
    <2>3. P(kind).kind = kind /\ P(kind).img = i /\ RunId(P(kind)) = RunId(r)
        BY DEF RunId
    <2> HIDE DEF P
    <2>4. ASSUME P(kind) \in puts
          PROVE  P(kind) \in puts' \/ Key(kind, i) \in objects'
        BY <1>4, <2>3, <2>4 DEF PutsKept
    <2> QED BY <1>2, <2>1, <2>2, <2>4
<1> QED BY <1>3, <1>4

\* The objects of a row stay as long as the row lists no more of them.
LEMMA RowFilesKept ==
    ASSUME StorageInv, RowsFrame, Harmless, NEW i \in Images, RowKeys(i)' \subseteq RowKeys(i),
           upload'[i] = upload[i]
    PROVE  RowFiles(i)'
<1>1. UploadOk(i) /\ RowFiles(i)
    BY DEF StorageInv
<1>2. RowKeys(i) \subseteq DerivedKeys(i) \cup {Key("original", i)}
    BY DEF RowKeys
<1>3. CASE status'[i] \in NoRow
    <2>1. RowKeys(i)' = {}
        BY <1>3 DEF RowKeys, NoRow
    <2> QED BY <2>1 DEF RowFiles
<1>4. CASE status'[i] \notin NoRow
    <2>1. status[i] \notin NoRow
        BY <1>4 DEF RowsFrame, NoRow
    <2>2. upload[i] # "failed"
        BY <1>1, <2>1 DEF UploadOk, NoRow
    <2>3. upload'[i] # "uncertain" => RowKeys(i)' \ DerivedKeys(i) \subseteq objects'
        BY <1>1, <1>2, <2>1, <2>2 DEF RowFiles, Harmless, NoRow
    <2>4. i \notin discarded' => RowKeys(i)' \cap DerivedKeys(i) \subseteq objects'
        <3>1. i \notin discarded' => i \notin discarded
            BY DEF RowsFrame
        <3> QED BY <1>1, <2>1, <3>1 DEF RowFiles, Harmless, NoRow
    <2> QED BY <2>3, <2>4 DEF RowFiles, DerivedKeys
<1> QED BY <1>3, <1>4

StorageTypes ==
    /\ objects \subseteq {Key(kind, i) : kind \in Kinds, i \in Images}
    /\ puts \subseteq [img : Images, attempt : Nat, kind : Derived]
    /\ \A c \in cleanups : c.keys \subseteq {Key(kind, c.img) : kind \in Kinds}
    /\ upload \in [Images -> {"none", "put", "stored", "uncertain", "failed"}]
    /\ threw \subseteq Images /\ discarded \subseteq Images
    /\ lost \subseteq {Key(kind, i) : kind \in Kinds, i \in Images}

\* Uploads, cleanups and what rows list are as before; the runs are to be looked at.
LEMMA StepKeepsStorage ==
    ASSUME StorageInv, IInv', StorageTypes', ReadsRun', RowsFrame, Harmless,
           upload' = upload, cleanups' \subseteq cleanups,
           \A i \in Images : RowKeys(i)' \subseteq RowKeys(i) \/ RowFiles(i)',
           \A i \in discarded' : i \in discarded \/ requeues'[i] # 0,
           \A r \in runs' : Written(r)'
    PROVE  StorageInv'
<1>1. StorageTypeOK'
    BY DEF StorageTypes, StorageTypeOK, ReadsRun, Running, IInv, QueueInv
<1>2. \A i \in Images : RowFiles(i)'
    BY RowFilesKept
<1>3. \A i \in Images : UploadOk(i)'
    BY DEF StorageInv, UploadOk, RowsFrame, Harmless
<1>4. \A c \in cleanups' : CleanupOk(c)'
    BY DEF StorageInv, CleanupOk, RowsFrame
<1>5. \A i \in discarded' : requeues'[i] # 0
    BY DEF StorageInv, StorageTypeOK, RowsFrame
<1> QED BY <1>1, <1>2, <1>3, <1>4, <1>5 DEF StorageInv

-----------------------------------------------------------------------------
(* Steps of the queue. *)

LEMMA RowKeysSame ==
    ASSUME NEW i \in Images,
           \/ status'[i] = status[i] /\ attempts'[i] = attempts[i]
           \/ /\ status[i] \in {"pending", "processing"}
              /\ status'[i] \in {"pending", "processing", "failed"}
    PROVE  RowKeys(i)' = RowKeys(i)
BY DEF RowKeys, NoRow

\* Steps that change the rows but decide nothing, and write nothing to the bucket.
LEMMA QueueOnly ==
    ASSUME StorageInv, IInv', UNCHANGED <<objects, puts, upload, cleanups, lost, discarded>>,
           threw' \subseteq Images,
           \A i \in Images : \/ status'[i] = status[i] /\ attempts'[i] = attempts[i]
                             \/ /\ status[i] \in {"pending", "processing"}
                                /\ status'[i] \in {"pending", "processing", "failed"},
           \A i \in Images : requeues'[i] = 0 => requeues[i] = 0,
           \A r \in runs' : \/ r \in runs \/ r.pc \in {"fail", "discard"}
                            \/ r.pc = "process" /\ RunId(r) \notin read,
           read' \subseteq read, ReadsRun'
    PROVE  StorageInv'
<1>1. RowsFrame /\ Harmless /\ PutsKept
    BY DEF RowsFrame, Harmless, PutsKept
<1>2. \A r \in runs' : Written(r)'
    <2> SUFFICES ASSUME NEW r \in runs' PROVE Written(r)'
        OBVIOUS
    <2>1. CASE r \in runs
        BY <1>1, <2>1, WrittenKept
    <2>2. CASE r \notin runs
        BY <2>2 DEF Written
    <2> QED BY <2>1, <2>2
<1>3. StorageTypes'
    BY DEF StorageInv, StorageTypeOK, StorageTypes
<1>4. \A i \in Images : RowKeys(i)' \subseteq RowKeys(i)
    BY RowKeysSame
<1> QED BY <1>1, <1>2, <1>3, <1>4, StepKeepsStorage

\* A decision lists the derivatives, which its run has written.
LEMMA DecidedStep ==
    ASSUME StorageInv, IInv', NEW r \in runs, r.pc = "complete", Decide(r.img),
           UNCHANGED <<objects, read, puts, upload, cleanups, lost, discarded>>, threw' \subseteq Images,
           \A q \in runs' : q \in runs \/ q.pc = "fail", Running \subseteq runs'
    PROVE  StorageInv'
<1> DEFINE i == r.img
<1>1. i \in Images /\ Written(r) /\ status[i] = "processing"
    BY DEF Decide, StorageInv, StorageTypeOK, TypeOK, Run
<1>2. /\ UNCHANGED <<attempts, requeues>>
      /\ \A j \in Images \ {i} : status'[j] = status[j]
      /\ status'[i] \in {"accepted", "rejected"}
    BY <1>1 DEF Decide, Verdict, StorageInv, StorageTypeOK, TypeOK
<1>3. RowsFrame /\ Harmless /\ PutsKept
    BY <1>1, <1>2 DEF RowsFrame, Harmless, PutsKept
<1>4. \A q \in runs' : Written(q)'
    <2>1. \A q \in runs : Written(q)'
        BY <1>3, WrittenKept
    <2>2. \A q \in runs' : q.pc = "fail" => Written(q)'
        BY DEF Written
    <2> QED BY <2>1, <2>2
<1>5. StorageTypes' /\ ReadsRun'
    BY DEF StorageInv, StorageTypeOK, StorageTypes, ReadsRun, Running
<1>6. \A j \in Images \ {i} : RowKeys(j)' = RowKeys(j)
    BY <1>2, RowKeysSame
<1>7. RowFiles(i)'
    <2>1. RowFiles(i) /\ Key("original", i) \in RowKeys(i)
        BY <1>1 DEF StorageInv, RowKeys, NoRow
    <2>2. Key("original", i) \notin DerivedKeys(i)
        BY ThreeKeys
    <2>3. i \notin discarded /\ i \notin Unreadable => DerivedKeys(i) \subseteq objects
        BY <1>1 DEF Written
    <2>4. RowKeys(i)' \subseteq {Key("original", i)}
                              \cup (IF i \notin Unreadable THEN DerivedKeys(i) ELSE {})
        BY DEF RowKeys
    <2>5. upload'[i] # "uncertain" => RowKeys(i)' \ DerivedKeys(i) \subseteq objects'
        BY <2>1, <2>2, <2>4 DEF RowFiles
    <2>6. i \notin discarded' => RowKeys(i)' \cap DerivedKeys(i) \subseteq objects'
        BY <2>2, <2>3, <2>4
    <2> QED BY <2>5, <2>6 DEF RowFiles, DerivedKeys
<1>8. \A j \in discarded' : j \in discarded
    OBVIOUS
<1> QED BY <1>3, <1>4, <1>5, <1>6, <1>7, <1>8, StepKeepsStorage

\* A claim starts a run under an attempt number that no run has used.
LEMMA ClaimStep ==
    ASSUME StorageInv, IInv', NEW w \in Workers, Claim(w) \/ ClaimLost(w),
           UNCHANGED storageVars
    PROVE  StorageInv'
<1> USE DEF storageVars, runVars, history
<1>1. PICK S \in SUBSET Images :
          /\ ClaimRows(S)
          /\ \A r \in runs' : \/ r \in runs
                             \/ /\ r.img \in S /\ r.attempt = attempts[r.img] + 1
                                /\ r.pc = "process"
          /\ runs \subseteq runs'
    BY DEF Claim, ClaimLost
<1>2. /\ \A i \in Images : \/ status'[i] = status[i] /\ attempts'[i] = attempts[i]
                           \/ status[i] = "pending" /\ status'[i] = "processing"
      /\ requeues' = requeues
    BY <1>1 DEF ClaimRows, Claimable
<1>3. ASSUME NEW r \in runs', r \notin runs PROVE r.pc = "process" /\ RunId(r) \notin read
    <2>1. r.img \in Images /\ r.attempt = attempts[r.img] + 1 /\ attempts[r.img] \in Nat
        BY <1>1, <1>3 DEF StorageInv, StorageTypeOK, TypeOK
    <2>2. \A q \in runs : q.img = r.img => q.attempt <= attempts[r.img] /\ q.attempt \in Nat
        BY DEF StorageInv, IInv, QueueInv, RunsAreClaims, TypeOK, Run
    <2>3. \A q \in runs : q.img = r.img => q.attempt # r.attempt
        BY <2>1, <2>2
    <2> QED BY <1>1, <1>3, <2>3 DEF StorageInv, ReadsRun, Running, RunId
<1>4. ReadsRun'
    BY <1>1 DEF StorageInv, ReadsRun, Running
<1>5. threw' \subseteq Images
    BY DEF StorageInv, StorageTypeOK
<1> QED BY <1>1, <1>2, <1>3, <1>4, <1>5, QueueOnly

LEMMA TimeStep ==
    ASSUME StorageInv, IInv', UNCHANGED storageVars,
           RequeueStale \/ \E i \in Images : BackoffElapses(i) \/ LeaseExpires(i) \/ LeaseOutrun(i)
    PROVE  StorageInv'
<1> USE DEF storageVars, runVars, history
<1>1. /\ \A i \in Images : \/ status'[i] = status[i]
                           \/ status[i] = "processing" /\ status'[i] = "pending"
      /\ UNCHANGED <<attempts, runs>>
    BY DEF RequeueStale, Requeued, BackoffElapses, LeaseExpires, LeaseOutrun, LeaseEnds
<1>2. \A i \in Images : requeues'[i] = 0 => requeues[i] = 0
    <2>1. requeues \in [Images -> Nat]
        BY DEF StorageInv, StorageTypeOK, TypeOK
    <2> QED BY <2>1 DEF RequeueStale, BackoffElapses, LeaseExpires, LeaseOutrun, LeaseEnds
<1>3. ReadsRun' /\ threw' \subseteq Images
    BY <1>1 DEF StorageInv, StorageTypeOK, ReadsRun, Running
<1> QED BY <1>1, <1>2, <1>3, QueueOnly

\* The end of a run, after complete or in the catch block.
LEMMA EndStep ==
    ASSUME StorageInv, IInv', NEW r \in runs, Complete(r) \/ Fail(r) \/ FailThrew(r),
           UNCHANGED storageVars
    PROVE  StorageInv'
<1> USE DEF storageVars, runVars, history
<1>1. /\ r.pc # "process" /\ Running \subseteq runs'
      /\ \A q \in runs' : q \in runs \/ q.pc = "discard"
    BY DEF Complete, Fail, FailThrew, Goto, End, Running, StorageInv, StorageTypeOK, TypeOK, Run
<1>2. threw' \subseteq Images /\ ReadsRun' /\ r.img \in Images
    BY <1>1 DEF StorageInv, StorageTypeOK, ReadsRun, Running, TypeOK, Run
<1>3. CASE r.pc = "complete" /\ Decide(r.img) /\ End(r)
    <2>1. \A q \in runs' : q \in runs
        BY <1>3 DEF End
    <2> QED BY <1>1, <1>2, <1>3, <2>1, DecidedStep
<1>4. CASE ~(r.pc = "complete" /\ Decide(r.img) /\ End(r))
    <2>1. /\ UNCHANGED <<attempts, requeues>>
          /\ \A i \in Images : \/ status'[i] = status[i]
                               \/ /\ status[i] = "processing"
                                  /\ status'[i] \in {"failed", "pending"}
        BY <1>2, <1>4 DEF Complete, Fail, FailThrew, RowsSame, StorageInv, StorageTypeOK, TypeOK
    <2> QED BY <1>1, <1>2, <2>1, QueueOnly
<1> QED BY <1>3, <1>4

-----------------------------------------------------------------------------
(* Steps of the pipeline. *)

\* A run that leaves the pipeline takes its reads with it.
LEMMA LeavesPipeline ==
    ASSUME StorageInv, NEW r \in runs, r.pc = "process",
           runs' \subseteq runs \cup {[r EXCEPT !.pc = "complete"], [r EXCEPT !.pc = "fail"]},
           runs \ {r} \subseteq runs', read' = read \ {RunId(r)}
    PROVE  ReadsRun'
BY DEF StorageInv, ReadsRun, Running, RunId

LEMMA AbandonsStep ==
    ASSUME StorageInv, IInv', NEW r \in runs, Abandons(r),
           UNCHANGED <<objects, upload, cleanups, lost, discarded>>, puts' \subseteq puts,
           \A p \in puts \ puts' : RunId(p) = RunId(r)
    PROVE  StorageInv'
<1>1. /\ r.pc = "process" /\ r.img \in Images /\ UNCHANGED <<status, attempts, requeues>>
      /\ read' = read \ {RunId(r)}
      /\ runs' = (runs \ {r}) \cup {[r EXCEPT !.pc = "fail"]}
    BY DEF Abandons, ProcessThrew, Goto, RowsSame, StorageInv, StorageTypeOK, TypeOK, Run
<1>2. RowsFrame /\ Harmless /\ PutsKept
    BY <1>1 DEF RowsFrame, Harmless, PutsKept
<1>3. \A q \in runs' : Written(q)'
    <2>1. \A q \in runs : Written(q)'
        BY <1>1, <1>2, WrittenKept
    <2>2. Written([r EXCEPT !.pc = "fail"])'
        BY <1>1 DEF Written, StorageInv, StorageTypeOK, TypeOK, Run
    <2> QED BY <1>1, <2>1, <2>2
<1>4. StorageTypes'
    BY <1>1 DEF StorageInv, StorageTypeOK, StorageTypes, Abandons
<1>5. ReadsRun'
    BY <1>1, LeavesPipeline
<1>6. \A i \in Images : RowKeys(i)' = RowKeys(i)
    BY <1>1, RowKeysSame
<1> QED BY <1>2, <1>3, <1>4, <1>5, <1>6, StepKeepsStorage

\* Promise.all resolves when both puts have landed.
LEMMA ReturnsStep ==
    ASSUME StorageInv, IInv', NEW r \in runs, PipelineReturns(r) PROVE StorageInv'
<1> DEFINE q == [r EXCEPT !.pc = "complete"]
<1>1. /\ r.pc = "process" /\ r.img \in Images /\ UNCHANGED <<status, attempts, requeues>>
      /\ RunId(r) \in read /\ read' = read \ {RunId(r)} /\ PutsOf(r) = {}
      /\ runs' = (runs \ {r}) \cup {q}
      /\ UNCHANGED <<objects, puts, upload, cleanups, threw, lost, discarded>>
      /\ q.img = r.img /\ q.pc = "complete"
    BY DEF PipelineReturns, Processed, Goto, RowsSame, history, StorageInv, StorageTypeOK, TypeOK, Run
<1> HIDE DEF q
<1>2. RowsFrame /\ Harmless /\ PutsKept
    BY <1>1 DEF RowsFrame, Harmless, PutsKept
<1>3. \A s \in runs : Written(s)'
    BY <1>1, <1>2, WrittenKept
<1>4. Written(q)'
    <2> SUFFICES ASSUME r.img \notin discarded, status[r.img] # "deleted", r.img \notin Unreadable
                 PROVE  DerivedKeys(r.img) \subseteq objects
        BY <1>1 DEF Written
    <2>1. ASSUME NEW kind \in Derived PROVE Key(kind, r.img) \in objects
        <3> DEFINE p == [img |-> r.img, attempt |-> r.attempt, kind |-> kind]
        <3>1. RunId(p) = RunId(r)
            BY DEF RunId
        <3>2. p \notin puts
            BY <1>1, <3>1 DEF PutsOf
        <3> QED BY <1>1, <3>2 DEF StorageInv, Written
    <2> QED BY <2>1 DEF DerivedKeys
<1>5. StorageTypes'
    BY <1>1 DEF StorageInv, StorageTypeOK, StorageTypes
<1>6. ReadsRun'
    BY <1>1, LeavesPipeline DEF q
<1>7. \A i \in Images : RowKeys(i)' = RowKeys(i)
    BY <1>1, RowKeysSame
<1> QED BY <1>1, <1>2, <1>3, <1>4, <1>5, <1>6, <1>7, StepKeepsStorage

\* Steps that leave the queue alone.
LEMMA BucketStep ==
    ASSUME StorageInv, UNCHANGED vars, StorageTypes', ReadsRun', Harmless,
           upload' = upload, cleanups' \subseteq cleanups, discarded' = discarded,
           \A r \in runs : Written(r)'
    PROVE  StorageInv'
<1>1. UNCHANGED <<status, attempts, due, stale, similarTo, runs, requeues, faults>>
    BY DEF vars
<1>2. RowsFrame
    BY <1>1 DEF RowsFrame
<1>3. IInv'
    <2>1. QueueInv'
        BY QueueStep DEF StorageInv, IInv
    <2>2. DecisionInv'
        BY DecisionStep DEF StorageInv
    <2> QED BY <2>1, <2>2 DEF IInv
<1>4. \A i \in Images : RowKeys(i)' = RowKeys(i)
    BY <1>1, RowKeysSame
<1> QED BY <1>1, <1>2, <1>3, <1>4, StepKeepsStorage

LEMMA ReadOriginalStep ==
    ASSUME StorageInv, NEW r \in runs, ReadOriginal(r) PROVE StorageInv'
<1> DEFINE new == {[img |-> r.img, attempt |-> r.attempt, kind |-> kind] : kind \in Derived}
<1>1. /\ r.pc = "process" /\ r.img \in Images /\ r.attempt \in Nat
      /\ read' = read \cup {RunId(r)}
      /\ puts' = IF r.img \in Unreadable THEN puts ELSE puts \cup new
      /\ UNCHANGED <<objects, upload, cleanups, threw, lost, discarded>>
      /\ UNCHANGED vars
    BY DEF ReadOriginal, history, StorageInv, StorageTypeOK, TypeOK, Run
<1>2. UNCHANGED <<status, requeues, runs>>
    BY <1>1 DEF vars
<1>3. RowsFrame /\ Harmless /\ PutsKept
    BY <1>1, <1>2 DEF RowsFrame, Harmless, PutsKept
<1>4. ASSUME NEW q \in runs PROVE Written(q)'
    <2>1. CASE RunId(q) = RunId(r)
        <3>1. q.img = r.img /\ q.attempt = r.attempt
            BY <2>1 DEF RunId
        <3>2. Written(q)
            BY DEF StorageInv
        <3>3. q.img \notin Unreadable => \A kind \in Derived :
                  [img |-> q.img, attempt |-> q.attempt, kind |-> kind] \in puts'
            BY <1>1, <3>1
        <3> QED BY <1>1, <1>2, <3>2, <3>3 DEF Written
    <2>2. CASE RunId(q) # RunId(r)
        BY <1>1, <1>3, <2>2, WrittenKept
    <2> QED BY <2>1, <2>2
<1>5. StorageTypes'
    BY <1>1 DEF StorageInv, StorageTypeOK, StorageTypes
<1>6. ReadsRun'
    BY <1>1, <1>2 DEF StorageInv, ReadsRun, Running
<1> QED BY <1>1, <1>3, <1>4, <1>5, <1>6, BucketStep

LEMMA PutLandsStep ==
    ASSUME StorageInv, NEW p \in puts, PutLands(p) PROVE StorageInv'
<1>1. /\ p.img \in Images /\ p.kind \in Derived
      /\ puts' = puts \ {p} /\ objects' = objects \cup {Key(p.kind, p.img)}
      /\ UNCHANGED <<read, upload, cleanups, threw, lost, discarded>>
      /\ UNCHANGED vars
    BY DEF PutLands, history, StorageInv, StorageTypeOK
<1>2. UNCHANGED <<status, requeues, runs>>
    BY <1>1 DEF vars
<1>3. RowsFrame /\ Harmless /\ PutsKept
    BY <1>1, <1>2 DEF RowsFrame, Harmless, PutsKept
<1>4. \A q \in runs : Written(q)'
    BY <1>1, <1>3, WrittenKept
<1>5. StorageTypes'
    BY <1>1 DEF StorageInv, StorageTypeOK, StorageTypes, Kinds
<1>6. ReadsRun'
    BY <1>1, <1>2 DEF StorageInv, ReadsRun, Running
<1> QED BY <1>1, <1>3, <1>4, <1>5, <1>6, BucketStep

LEMMA PutFailsStep ==
    ASSUME StorageInv, IInv', NEW p \in puts, PutFails(p) PROVE StorageInv'
<1>1. puts' = puts \ {p} /\ UNCHANGED <<objects, upload, cleanups, lost, discarded>>
    BY DEF PutFails
<1>2. ASSUME NEW r \in runs, RunId(r) = RunId(p), Abandons(r) PROVE StorageInv'
    BY <1>1, <1>2, AbandonsStep
<1>3. CASE /\ \A r \in runs : RunId(r) = RunId(p) => r.pc # "process"
           /\ UNCHANGED <<vars, read, threw>>
    <2>1. UNCHANGED <<status, requeues, runs>> /\ RunId(p) \notin read
        BY <1>3 DEF vars, StorageInv, ReadsRun, Running
    <2>2. RowsFrame /\ Harmless /\ PutsKept
        BY <1>1, <1>3, <2>1 DEF RowsFrame, Harmless, PutsKept
    <2>3. \A q \in runs : Written(q)'
        BY <1>3, <2>2, WrittenKept
    <2>4. StorageTypes' /\ ReadsRun'
        BY <1>1, <1>3, <2>1 DEF StorageInv, StorageTypeOK, StorageTypes, ReadsRun, Running
    <2> QED BY <1>1, <1>3, <2>2, <2>3, <2>4, BucketStep
<1> QED BY <1>2, <1>3 DEF PutFails

\* What a run discards is a derivative of a deleted image, or of a requeued one, which
\* is noted.
LEMMA DiscardStep ==
    ASSUME StorageInv, IInv', NEW r \in runs, DiscardResult(r) \/ DiscardResultThrew(r)
    PROVE  StorageInv'
<1> DEFINE i == r.img
<1>1. /\ r.pc = "discard" /\ i \in Images /\ UNCHANGED <<status, attempts, requeues>>
      /\ UNCHANGED <<read, puts, upload, cleanups>>
      /\ Running \subseteq runs' /\ \A q \in runs' : q \in runs \/ q.pc = "fail"
      /\ threw' \subseteq Images
    BY DEF DiscardResult, DiscardResultThrew, Discards, Discarded, DiscardThrew, Goto, End,
           RowsSame, runVars, history, Running, StorageInv, StorageTypeOK, TypeOK, Run
<1>2. /\ objects' \subseteq objects /\ objects \ DerivedKeys(i) \subseteq objects'
      /\ lost' \subseteq lost \cup objects
    BY DEF DiscardResult, DiscardResultThrew, Discards, RemoveKeys, ResultKeys
<1>3. discarded' = IF status[i] = "deleted" THEN discarded ELSE discarded \cup {i}
    BY DEF DiscardResult, DiscardResultThrew, Discards
<1>4. \A j \in discarded' : j \in discarded \/ requeues'[j] # 0
    BY <1>1, <1>3 DEF StorageInv, IInv, QueueInv, RunOwnsRow
<1>5. RowsFrame /\ PutsKept
    BY <1>1, <1>3 DEF RowsFrame, PutsKept
<1>6. Harmless
    <2> SUFFICES ASSUME NEW j \in Images, status[j] # "deleted"
                 PROVE  /\ j \notin discarded' => DerivedKeys(j) \cap objects \subseteq objects'
                        /\ Key("original", j) \in objects => Key("original", j) \in objects'
        BY DEF Harmless
    <2>1. Key("original", j) \notin DerivedKeys(i)
        BY ThreeKeys
    <2>2. j # i => DerivedKeys(j) \cap DerivedKeys(i) = {}
        BY ThreeKeys
    <2> QED BY <1>2, <1>3, <2>1, <2>2
<1>7. \A q \in runs' : Written(q)'
    <2>1. \A q \in runs : Written(q)'
        BY <1>1, <1>5, <1>6, WrittenKept
    <2>2. \A q \in runs' : q.pc = "fail" => Written(q)'
        BY DEF Written
    <2> QED BY <1>1, <2>1, <2>2
<1>8. StorageTypes' /\ ReadsRun'
    BY <1>1, <1>2, <1>3 DEF StorageInv, StorageTypeOK, StorageTypes, ReadsRun, Running
<1>9. \A j \in Images : RowKeys(j)' = RowKeys(j)
    BY <1>1, RowKeysSame
<1> QED BY <1>1, <1>4, <1>5, <1>6, <1>7, <1>8, <1>9, StepKeepsStorage

LEMMA CompleteThrewStep ==
    ASSUME StorageInv, IInv', NEW r \in runs, RunCompleteThrew(r) PROVE StorageInv'
<1>1. /\ r.pc = "complete" /\ r.img \in Images
      /\ UNCHANGED <<objects, read, puts, upload, cleanups, lost, discarded>>
      /\ \A q \in runs' : q \in runs \/ q.pc = "fail"
      /\ Running \subseteq runs' /\ threw' \subseteq Images
    BY DEF RunCompleteThrew, CompleteThrew, Goto, runVars, history, Running, StorageInv, StorageTypeOK,
           TypeOK, Run
<1>2. CASE Decide(r.img)
    BY <1>1, <1>2, DecidedStep
<1>3. CASE RowsSame
    <2>1. ReadsRun'
        BY <1>1 DEF StorageInv, ReadsRun, Running
    <2>2. UNCHANGED <<status, attempts, requeues>>
        BY <1>3 DEF RowsSame
    <2> QED BY <1>1, <2>1, <2>2, QueueOnly
<1> QED BY <1>2, <1>3 DEF RunCompleteThrew, CompleteThrew

LEMMA CrashStep ==
    ASSUME StorageInv, IInv', NEW w \in Workers, WorkerCrash(w) PROVE StorageInv'
<1>1. /\ runs' = runs \ InFlight(w) /\ UNCHANGED <<status, attempts, requeues>>
      /\ read' = read \ {RunId(r) : r \in InFlight(w)}
      /\ UNCHANGED <<objects, puts, upload, cleanups, lost, discarded>>
      /\ threw' \subseteq Images
    BY DEF WorkerCrash, Crash, InFlight, StorageInv, StorageTypeOK, TypeOK, Run
<1>2. ReadsRun'
    BY <1>1 DEF StorageInv, ReadsRun, Running
<1> QED BY <1>1, <1>2, QueueOnly

-----------------------------------------------------------------------------
(* Requests and cleanups. *)

LEMMA CleanupStep ==
    ASSUME StorageInv, NEW c \in cleanups, Cleanup(c) PROVE StorageInv'
<1>1. /\ UNCHANGED vars /\ UNCHANGED <<read, puts, upload, threw, discarded>> /\ cleanups' = cleanups \ {c}
      /\ CleanupOk(c) /\ c.keys \subseteq {Key(kind, c.img) : kind \in Kinds}
    BY DEF Cleanup, runVars, history, StorageInv, StorageTypeOK
<1>2. /\ objects' \subseteq objects /\ objects \ c.keys \subseteq objects'
      /\ lost' \subseteq lost \cup objects
    BY DEF Cleanup, RemoveKeys
<1>3. UNCHANGED <<status, requeues, runs>>
    BY <1>1 DEF vars
<1>4. Harmless
    <2> SUFFICES ASSUME NEW j \in Images, status[j] # "deleted"
                 PROVE  /\ DerivedKeys(j) \cap objects \subseteq objects'
                        /\ upload[j] \notin {"uncertain", "failed"}
                           /\ Key("original", j) \in objects => Key("original", j) \in objects'
        BY DEF Harmless
    <2>1. CASE j # c.img
        <3>1. DerivedKeys(j) \cap c.keys = {} /\ Key("original", j) \notin c.keys
            BY <1>1, <2>1, ThreeKeys
        <3> QED BY <1>2, <3>1
    <2>2. CASE j = c.img
        <3>1. c.keys = {Key("original", j)} /\ upload[j] \in {"uncertain", "failed"}
            BY <1>1, <2>2 DEF CleanupOk
        <3>2. DerivedKeys(j) \cap c.keys = {}
            BY <3>1, ThreeKeys
        <3> QED BY <1>2, <3>1, <3>2
    <2> QED BY <2>1, <2>2
<1>5. RowsFrame /\ PutsKept
    BY <1>1, <1>3 DEF RowsFrame, PutsKept
<1>6. \A q \in runs : Written(q)'
    BY <1>1, <1>4, <1>5, WrittenKept
<1>7. StorageTypes' /\ ReadsRun'
    BY <1>1, <1>2, <1>3 DEF StorageInv, StorageTypeOK, StorageTypes, ReadsRun, Running
<1> QED BY <1>1, <1>4, <1>6, <1>7, BucketStep

\* Steps of one upload, or of one delete: they end with other images as they were.
LEMMA RequestStep ==
    ASSUME StorageInv, IInv', NEW i \in Images,
           objects \subseteq objects', UNCHANGED <<read, puts, runs, discarded>>, StorageTypes',
           \A j \in Images \ {i} : /\ status'[j] = status[j] /\ attempts'[j] = attempts[j]
                                   /\ requeues'[j] = requeues[j] /\ upload'[j] = upload[j],
           requeues'[i] = 0 => requeues[i] = 0, status[i] = "deleted" => status'[i] = "deleted",
           upload[i] \notin {"none", "put"} => upload'[i] = upload[i],
           \A c \in cleanups' : c \in cleanups \/ CleanupOk(c)',
           UploadOk(i)',
           RowFiles(i)'
    PROVE  StorageInv'
<1>1. ReadsRun'
    BY DEF StorageInv, ReadsRun, Running
<1>2. StorageTypeOK'
    BY <1>1 DEF StorageTypes, StorageTypeOK, ReadsRun, Running, IInv, QueueInv
<1>3. \A j \in Images : RowFiles(j)'
    <2>1. \A j \in Images \ {i} : RowKeys(j)' = RowKeys(j)
        BY RowKeysSame
    <2> QED BY <2>1 DEF RowFiles, DerivedKeys, StorageInv
<1>4. \A j \in Images : UploadOk(j)'
    BY DEF StorageInv, UploadOk
<1>5. ASSUME NEW c \in cleanups PROVE CleanupOk(c)'
    <2>1. CleanupOk(c) /\ UploadOk(i)
        BY DEF StorageInv
    <2>2. CASE c.img = i
        BY <2>1, <2>2 DEF CleanupOk, UploadOk
    <2>3. CASE c.img # i
        BY <2>1, <2>3 DEF CleanupOk
    <2> QED BY <2>2, <2>3
<1>6. \A r \in runs' : Written(r)'
    <2> SUFFICES ASSUME NEW r \in runs PROVE Written(r)'
        OBVIOUS
    <2>1. r.img \in Images /\ Written(r)
        BY DEF StorageInv, StorageTypeOK, TypeOK, Run
    <2>2. status'[r.img] # "deleted" => status[r.img] # "deleted"
        BY <2>1
    <2> QED BY <2>1, <2>2 DEF Written
<1>7. \A j \in discarded' : requeues'[j] # 0
    BY DEF StorageInv, StorageTypeOK
<1> QED BY <1>1, <1>2, <1>3, <1>4, <1>5, <1>6, <1>7 DEF StorageInv

LEMMA PrepareStep ==
    ASSUME StorageInv, NEW i \in Images, Prepare(i) \/ InsertFails(i) \/ BatchFails(i)
    PROVE  StorageInv'
<1>1. /\ UNCHANGED vars /\ UNCHANGED <<read, puts, threw, discarded>>
      /\ upload \in [Images -> {"none", "put", "stored", "uncertain", "failed"}]
      /\ upload[i] \in {"none", "put"} /\ status[i] = "absent"
      /\ \/ /\ upload' = [upload EXCEPT ![i] = "put"]
            /\ objects' = objects \cup {Key("original", i)} /\ UNCHANGED <<cleanups, lost>>
         \/ /\ upload' = [upload EXCEPT ![i] = "failed"] /\ objects' = objects
            /\ lost' \subseteq lost \cup {Key("original", i)}
            /\ \A c \in cleanups' : \/ c \in cleanups
                                   \/ c = [img |-> i, keys |-> {Key("original", i)}]
    BY DEF Prepare, InsertFails, BatchFails, runVars, history, StorageInv, StorageTypeOK, UploadOk
<1>2. UNCHANGED <<status, attempts, requeues, runs>>
    BY <1>1 DEF vars
<1>3. IInv'
    BY <1>1, QueueStep, DecisionStep DEF StorageInv, IInv
<1>4. StorageTypes'
    <2>1. objects' \cup lost' \subseteq {Key(kind, j) : kind \in Kinds, j \in Images}
        BY <1>1 DEF StorageInv, StorageTypeOK, Kinds
    <2>2. \A c \in cleanups' : c.keys \subseteq {Key(kind, c.img) : kind \in Kinds}
        BY <1>1 DEF StorageInv, StorageTypeOK, Kinds
    <2> QED BY <1>1, <2>1, <2>2 DEF StorageInv, StorageTypeOK, StorageTypes
<1>5. UploadOk(i)'
    BY <1>1, <1>2 DEF UploadOk
<1>6. \A c \in cleanups' : c \in cleanups \/ CleanupOk(c)'
    BY <1>1, <1>2 DEF CleanupOk
<1>7. RowFiles(i)'
    BY <1>1, <1>2 DEF RowFiles, RowKeys, NoRow
<1> QED BY <1>1, <1>2, <1>3, <1>4, <1>5, <1>6, <1>7, RequestStep

LEMMA StoreUploadStep ==
    ASSUME StorageInv, IInv', NEW i \in Images, StoreUpload(i) PROVE StorageInv'
<1>1. /\ UNCHANGED <<objects, read, puts, threw, lost, discarded, attempts, requeues, runs>>
      /\ upload \in [Images -> {"none", "put", "stored", "uncertain", "failed"}]
      /\ upload[i] \in {"none", "put"} /\ status[i] = "absent" /\ attempts[i] = 0
      /\ \E s \in {"pending", "rejected"} : status' = [status EXCEPT ![i] = s]
      /\ status \in [Images -> Statuses]
      /\ status'[i] = "pending" => upload[i] = "put"
      /\ \E u \in {"stored", "uncertain"} : upload' = [upload EXCEPT ![i] = u]
      /\ \A c \in cleanups' : \/ c \in cleanups
                             \/ /\ c = [img |-> i, keys |-> {Key("original", i)}]
                                /\ upload'[i] = "uncertain"
    <2>1. /\ UNCHANGED <<objects, read, puts, threw, lost, discarded, attempts, requeues, runs>>
          /\ status[i] = "absent"
          /\ \E s \in {"pending", "rejected"} : status' = [status EXCEPT ![i] = s]
          /\ status'[i] = "pending" <=> upload[i] = "put"
        BY DEF StoreUpload, Upload, runVars, history
    <2>2. /\ upload \in [Images -> {"none", "put", "stored", "uncertain", "failed"}]
          /\ attempts[i] = 0 /\ upload[i] \in {"none", "put", "failed"}
          /\ status \in [Images -> Statuses]
        BY <2>1 DEF StorageInv, StorageTypeOK, UploadOk, TypeOK, IInv, QueueInv, RunsAreClaims
    <2>3. /\ upload[i] # "failed"
          /\ \E u \in {"stored", "uncertain"} : upload' = [upload EXCEPT ![i] = u]
          /\ \A c \in cleanups' : \/ c \in cleanups
                                 \/ /\ c = [img |-> i, keys |-> {Key("original", i)}]
                                    /\ upload' = [upload EXCEPT ![i] = "uncertain"]
        BY DEF StoreUpload
    <2>4. upload' = [upload EXCEPT ![i] = "uncertain"] => upload'[i] = "uncertain"
        BY <2>2
    <2> QED BY <2>1, <2>2, <2>3, <2>4
<1>2. /\ status'[i] \in {"pending", "rejected"} /\ upload'[i] \in {"stored", "uncertain"}
      /\ \A j \in Images \ {i} : status'[j] = status[j] /\ upload'[j] = upload[j]
      /\ upload' \in [Images -> {"none", "put", "stored", "uncertain", "failed"}]
    BY <1>1
<1>3. StorageTypes'
    <2>1. \A c \in cleanups' : c.keys \subseteq {Key(kind, c.img) : kind \in Kinds}
        BY <1>1 DEF StorageInv, StorageTypeOK, Kinds
    <2> QED BY <1>1, <1>2, <2>1 DEF StorageInv, StorageTypeOK, StorageTypes
<1>4. UploadOk(i)'
    BY <1>2 DEF UploadOk
<1>5. \A c \in cleanups' : c \in cleanups \/ CleanupOk(c)'
    BY <1>1, <1>2 DEF CleanupOk
<1>6. RowFiles(i)'
    <2>1. RowKeys(i)' \subseteq objects'
        BY <1>1, <1>2 DEF RowKeys, StorageInv, UploadOk
    <2> QED BY <2>1 DEF RowFiles
<1> QED BY <1>1, <1>2, <1>3, <1>4, <1>5, <1>6, RequestStep

LEMMA StoreDeleteStep ==
    ASSUME StorageInv, IInv', NEW i \in Images, StoreDelete(i) PROVE StorageInv'
<1>1. /\ UNCHANGED <<objects, read, puts, upload, threw, lost, discarded, attempts, requeues, runs>>
      /\ status[i] \notin NoRow /\ status'[i] = "deleted"
      /\ \A j \in Images \ {i} : status'[j] = status[j]
      /\ \A c \in cleanups' : c \in cleanups \/ c = [img |-> i, keys |-> RowKeys(i)]
    BY DEF StoreDelete, Delete, runVars, history, StorageInv, StorageTypeOK, TypeOK
<1>2. StorageTypes'
    <2>1. RowKeys(i) \subseteq {Key(kind, i) : kind \in Kinds}
        BY DEF RowKeys, DerivedKeys, Kinds
    <2>2. \A c \in cleanups' : c.keys \subseteq {Key(kind, c.img) : kind \in Kinds}
        BY <1>1, <2>1 DEF StorageInv, StorageTypeOK
    <2> QED BY <1>1, <2>2 DEF StorageInv, StorageTypeOK, StorageTypes
<1>3. UploadOk(i)'
    BY <1>1 DEF UploadOk, StorageInv, NoRow
<1>4. \A c \in cleanups' : c \in cleanups \/ CleanupOk(c)'
    BY <1>1 DEF CleanupOk
<1>5. RowFiles(i)'
    BY <1>1 DEF RowFiles, RowKeys, NoRow
<1> QED BY <1>1, <1>2, <1>3, <1>4, <1>5, RequestStep

-----------------------------------------------------------------------------

LEMMA StorageInitial == StorageInit => StorageInv
<1> SUFFICES ASSUME StorageInit PROVE StorageInv
    OBVIOUS
<1>1. IInv
    BY QueueInit, DecisionInit DEF StorageInit, IInv
<1>2. StorageTypeOK
    BY <1>1 DEF StorageInit, StorageTypeOK, IInv, QueueInv
<1>3. \A i \in Images : RowFiles(i)
    BY DEF StorageInit, Init, RowFiles, RowKeys, NoRow
<1>4. \A i \in Images : UploadOk(i)
    BY DEF StorageInit, Init, UploadOk
<1> QED BY <1>1, <1>2, <1>3, <1>4 DEF StorageInit, Init, StorageInv, ReadsRun

\* Every step is one of the queue.
LEMMA StorageIsQueue == [StorageNext]_allVars => [Next]_vars
<1> SUFFICES ASSUME StorageNext PROVE [Next]_vars
    BY DEF allVars
<1>1. ASSUME NEW p \in puts, PutFails(p) PROVE [Next]_vars
    BY <1>1 DEF PutFails, Abandons, Next, RunStep
<1>2. ASSUME NEW i \in Images,
             Prepare(i) \/ StoreUpload(i) \/ InsertFails(i) \/ BatchFails(i) \/ StoreDelete(i)
             \/ BackoffElapses(i) \/ LeaseExpires(i) \/ LeaseOutrun(i)
      PROVE  [Next]_vars
    BY <1>2 DEF Prepare, StoreUpload, InsertFails, BatchFails, StoreDelete, Next
<1>3. ASSUME NEW r \in runs,
             \/ ReadOriginal(r) \/ PipelineReturns(r) \/ PipelineThrew(r)
             \/ DiscardResult(r) \/ DiscardResultThrew(r) \/ RunCompleteThrew(r)
             \/ Complete(r) \/ Fail(r) \/ FailThrew(r)
      PROVE  [Next]_vars
    BY <1>3 DEF ReadOriginal, PipelineReturns, PipelineThrew, Abandons, DiscardResult,
                DiscardResultThrew, RunCompleteThrew, Next, RunStep
<1>4. ASSUME NEW w \in Workers, WorkerCrash(w) \/ Claim(w) \/ ClaimLost(w) PROVE [Next]_vars
    BY <1>4 DEF WorkerCrash, Next
<1>5. ASSUME NEW c \in cleanups, Cleanup(c) PROVE [Next]_vars
    BY <1>5 DEF Cleanup
<1>6. ASSUME NEW p \in puts, PutLands(p) PROVE [Next]_vars
    BY <1>6 DEF PutLands
<1>7. RequeueStale => Next
    BY DEF Next
<1> QED BY <1>1, <1>2, <1>3, <1>4, <1>5, <1>6, <1>7 DEF StorageNext

LEMMA StorageStep == StorageInv /\ [StorageNext]_allVars => StorageInv'
<1> SUFFICES ASSUME StorageInv, [StorageNext]_allVars PROVE StorageInv'
    OBVIOUS
<1>1. IInv'
    BY StorageIsQueue, QueueStep, DecisionStep DEF StorageInv, IInv
<1>2. CASE UNCHANGED allVars
    <2>1. UNCHANGED <<vars, storageVars>>
        BY <1>2 DEF allVars
    <2>2. Harmless /\ RowsFrame /\ PutsKept
        BY <2>1 DEF vars, storageVars, runVars, history, Harmless, RowsFrame, PutsKept
    <2>3. \A r \in runs : Written(r)'
        BY <2>1, <2>2, WrittenKept DEF vars, storageVars, runVars, history
    <2>4. StorageTypes' /\ ReadsRun'
        BY <2>1 DEF vars, storageVars, runVars, history, StorageInv, StorageTypeOK, StorageTypes,
                    ReadsRun, Running
    <2> QED BY <2>1, <2>2, <2>3, <2>4, BucketStep DEF storageVars, history
<1>3. ASSUME NEW i \in Images,
             \/ Prepare(i) \/ StoreUpload(i) \/ InsertFails(i) \/ BatchFails(i) \/ StoreDelete(i)
             \/ (BackoffElapses(i) \/ LeaseExpires(i) \/ LeaseOutrun(i)) /\ UNCHANGED storageVars
      PROVE  StorageInv'
    BY <1>1, <1>3, PrepareStep, StoreUploadStep, StoreDeleteStep, TimeStep
<1>4. ASSUME NEW c \in cleanups, Cleanup(c) PROVE StorageInv'
    BY <1>4, CleanupStep
<1>5. ASSUME NEW p \in puts, PutLands(p) \/ PutFails(p) PROVE StorageInv'
    BY <1>1, <1>5, PutLandsStep, PutFailsStep
<1>6. ASSUME NEW r \in runs, PipelineThrew(r) PROVE StorageInv'
    BY <1>1, <1>6, AbandonsStep DEF PipelineThrew
<1>7. ASSUME NEW r \in runs,
             \/ ReadOriginal(r) \/ PipelineReturns(r)
             \/ DiscardResult(r) \/ DiscardResultThrew(r) \/ RunCompleteThrew(r)
             \/ (Complete(r) \/ Fail(r) \/ FailThrew(r)) /\ UNCHANGED storageVars
      PROVE  StorageInv'
    BY <1>1, <1>7, ReadOriginalStep, ReturnsStep, DiscardStep, CompleteThrewStep, EndStep
<1>8. ASSUME NEW w \in Workers,
             WorkerCrash(w) \/ ((Claim(w) \/ ClaimLost(w)) /\ UNCHANGED storageVars)
      PROVE  StorageInv'
    BY <1>1, <1>8, CrashStep, ClaimStep
<1>9. CASE RequeueStale /\ UNCHANGED storageVars
    BY <1>1, <1>9, TimeStep
<1> QED BY <1>2, <1>3, <1>4, <1>5, <1>6, <1>7, <1>8, <1>9 DEF StorageNext

THEOREM StorageInvariant == StorageSpec => []StorageInv
BY StorageInitial, StorageStep, PTL DEF StorageSpec

\* The bucket holds only keys of storageKeys, and puts, reads and cleanups name runs
\* and images there are.
THEOREM StorageTypesHold == StorageSpec => []StorageTypeOK
<1>1. StorageInv => StorageTypeOK
    BY DEF StorageInv
<1> QED BY <1>1, StorageInvariant, PTL

\* A row never refers to an object that is gone: retries find the original, clients
\* the derivatives, with any number of workers, retries, crashes and deletes.
THEOREM NothingDangles == StorageSpec => []RowObjectsExist
<1>1. StorageInv => RowObjectsExist
    BY DEF StorageInv, RowFiles, RowObjectsExist
<1> QED BY <1>1, StorageInvariant, PTL

-----------------------------------------------------------------------------
(* No object is left behind. *)

\* Someone will remove the object: the delete of the row that lists it, or a cleanup.
Kept(o, i) == o \in RowKeys(i) \/ \E c \in cleanups : c.img = i /\ o \in c.keys

\* Every object of an image that storage is still to give up is in someone's care: the
\* original in its row's, a cleanup's or the upload's, and, unless a run of the image threw,
\* a derivative in its row's, a cleanup's or a run's; a put under way then belongs to a run
\* that waits for it, and no run gave up.
Tended == objects \ lost

OriginalCared(i) ==
    Key("original", i) \in Tended => upload[i] = "put" \/ Kept(Key("original", i), i)

RunsCare(i) ==
    /\ \A kind \in Derived : Key(kind, i) \in Tended =>
          i \notin Unreadable /\ (Kept(Key(kind, i), i) \/ RunsOf(i) # {})
    /\ \A p \in puts : p.img = i =>
          i \notin Unreadable /\ \E r \in Running : RunId(r) = RunId(p)
    /\ \A r \in RunsOf(i) : r.pc # "fail"

Cared(i) == OriginalCared(i) /\ (i \notin threw => RunsCare(i))

CareInv == (\A i \in Images : Cared(i)) /\ \A r \in runs : r.attempt # 0

\* What a step does about the objects of an image whose runs go on.
RunsGoOn(i) ==
    /\ \A kind \in Derived : Key(kind, i) \in Tended' =>
           Key(kind, i) \in objects \/ (i \notin Unreadable /\ RunsOf(i)' # {})
    /\ \A kind \in Derived : Key(kind, i) \in Tended' /\ i \notin Unreadable /\ RunsOf(i) # {} =>
           RunsOf(i)' # {} \/ Kept(Key(kind, i), i)'
    /\ \A p \in puts' : p.img = i =>
           \/ p \in puts /\ \A r \in Running : RunId(r) = RunId(p) => r \in Running'
           \/ i \notin Unreadable /\ \E r \in Running' : RunId(r) = RunId(p)
    /\ \A r \in RunsOf(i)' : r \in RunsOf(i) \/ r.pc # "fail"

\* What every step does about them.
LEMMA CareFrame ==
    ASSUME CareInv, NEW i \in Images, threw \subseteq threw', lost \subseteq lost',
           upload[i] = "put" => \/ upload'[i] = "put" \/ Kept(Key("original", i), i)'
                                \/ Key("original", i) \in lost',
           \A kind \in Kinds : Key(kind, i) \in Tended' /\ Kept(Key(kind, i), i)
                                  => Kept(Key(kind, i), i)',
           Key("original", i) \in objects' => Key("original", i) \in objects \/ upload'[i] = "put",
           i \notin threw' => RunsGoOn(i)
    PROVE  Cared(i)'
<1>1. Cared(i) /\ "original" \in Kinds /\ Derived \subseteq Kinds
    BY DEF CareInv, Kinds
<1>2. \A o : o \in Tended' /\ o \in objects => o \in Tended
    BY DEF Tended
<1>3. Key("original", i) \in Tended' => upload'[i] = "put" \/ Kept(Key("original", i), i)'
    <2>1. Key("original", i) \in Tended' =>
              Key("original", i) \in objects' /\ Key("original", i) \notin lost'
        BY DEF Tended
    <2> QED BY <1>1, <1>2, <2>1 DEF Cared, OriginalCared
<1>4. ASSUME i \notin threw' PROVE RunsCare(i)'
    <2>1. RunsCare(i) /\ RunsGoOn(i)
        BY <1>1, <1>4 DEF Cared
    <2>2. ASSUME NEW kind \in Derived, Key(kind, i) \in Tended'
          PROVE  i \notin Unreadable /\ (Kept(Key(kind, i), i)' \/ RunsOf(i)' # {})
        <3>1. CASE Key(kind, i) \in objects
            <4>1. i \notin Unreadable /\ (Kept(Key(kind, i), i) \/ RunsOf(i) # {})
                BY <1>2, <2>1, <2>2, <3>1 DEF RunsCare
            <4>2. Kept(Key(kind, i), i) => Kept(Key(kind, i), i)'
                BY <1>1, <2>2
            <4> QED BY <2>1, <2>2, <4>1, <4>2 DEF RunsGoOn
        <3>2. CASE Key(kind, i) \notin objects
            BY <2>1, <2>2, <3>2 DEF RunsGoOn
        <3> QED BY <3>1, <3>2
    <2>3. ASSUME NEW p \in puts', p.img = i
          PROVE  i \notin Unreadable /\ \E r \in Running' : RunId(r) = RunId(p)
        BY <2>1, <2>3 DEF RunsCare, RunsGoOn
    <2>4. \A r \in RunsOf(i)' : r.pc # "fail"
        BY <2>1 DEF RunsCare, RunsGoOn
    <2> QED BY <2>2, <2>3, <2>4 DEF RunsCare, RunId, Key
<1> QED BY <1>3, <1>4 DEF Cared, OriginalCared, Key

\* What a row or a cleanup is to remove, it still is when neither lists less.
LEMMA StillKept ==
    ASSUME NEW i \in Images, RowKeys(i) \subseteq RowKeys(i)', cleanups \subseteq cleanups'
    PROVE  \A kind \in Kinds : Kept(Key(kind, i), i) => Kept(Key(kind, i), i)'
BY DEF Kept, Key

\* Steps that take nothing away from an image, and leave its runs alone.
LEMMA SameCare ==
    ASSUME CareInv, NEW i \in Images, threw \subseteq threw', lost \subseteq lost',
           upload'[i] = upload[i], RowKeys(i) \subseteq RowKeys(i)', cleanups \subseteq cleanups',
           \A kind \in Kinds : Key(kind, i) \in objects' => Key(kind, i) \in objects,
           i \notin threw' => /\ \A p \in puts' : p.img = i => p \in puts
                              /\ RunsOf(i)' = RunsOf(i)
    PROVE  Cared(i)'
<1>1. ASSUME i \notin threw', NEW p \in puts', p.img = i, NEW r \in Running, RunId(r) = RunId(p)
      PROVE  r \in Running'
    <2>1. r \in RunsOf(i) /\ r.pc = "process"
        BY <1>1 DEF Running, RunsOf, RunId
    <2>2. r \in RunsOf(i)'
        BY <1>1, <2>1
    <2> QED BY <2>1, <2>2 DEF Running, RunsOf
<1>2. \A kind \in Kinds : Kept(Key(kind, i), i) => Kept(Key(kind, i), i)'
    BY StillKept
<1>3. "original" \in Kinds /\ Derived \subseteq Kinds
    BY DEF Kinds
<1>4. i \notin threw' => RunsGoOn(i)
    BY <1>1, <1>3 DEF RunsGoOn, Tended
<1> QED BY <1>2, <1>3, <1>4, CareFrame

\* A decision: the row lists the original as before, and what the run has written.
LEMMA DecisionLists ==
    ASSUME StorageInv, CareInv, NEW r \in runs, Decide(r.img)
    PROVE  /\ RowKeys(r.img) \subseteq RowKeys(r.img)'
           /\ r.img \notin Unreadable => DerivedKeys(r.img) \subseteq RowKeys(r.img)'
<1> DEFINE i == r.img
<1>1. i \in Images /\ status \in [Images -> Statuses]
    BY DEF StorageInv, StorageTypeOK, TypeOK, Run
<1>2. attempts[i] > 0
    <2>1. r.attempt <= attempts[i] /\ r.attempt \in Nat /\ r.attempt # 0 /\ attempts[i] \in Nat
        BY <1>1 DEF StorageInv, IInv, QueueInv, RunsAreClaims, CareInv, Run, TypeOK
    <2> QED BY <2>1
<1>3. /\ status[i] = "processing" /\ status'[i] \in {"accepted", "rejected"}
      /\ attempts' = attempts
    BY <1>1 DEF Decide, Verdict
<1> QED BY <1>2, <1>3 DEF RowKeys, NoRow

\* The rest of the queue: claims, time, requeues.
LEMMA QueueCare ==
    ASSUME StorageInv, CareInv, UNCHANGED storageVars,
           \/ RequeueStale
           \/ \E i \in Images : BackoffElapses(i) \/ LeaseExpires(i) \/ LeaseOutrun(i)
           \/ \E w \in Workers : Claim(w) \/ ClaimLost(w)
    PROVE  \A i \in Images : Cared(i)'
<1> USE DEF storageVars, runVars, history
<1>1. /\ runs \subseteq runs' /\ \A r \in runs' : r \in runs \/ r.pc = "process"
      /\ \A i \in Images : \/ status'[i] = status[i] /\ attempts'[i] = attempts[i]
                           \/ /\ status[i] \in {"pending", "processing"}
                              /\ status'[i] \in {"pending", "processing"}
    <2>1. CASE \E w \in Workers : Claim(w) \/ ClaimLost(w)
        BY <2>1 DEF Claim, ClaimLost, ClaimRows, Claimable
    <2>2. CASE ~\E w \in Workers : Claim(w) \/ ClaimLost(w)
        BY <2>2 DEF RequeueStale, Requeued, BackoffElapses, LeaseExpires, LeaseOutrun, LeaseEnds
    <2> QED BY <2>1, <2>2
<1>2. \A i \in Images : RowKeys(i)' = RowKeys(i)
    BY <1>1, RowKeysSame
<1> SUFFICES ASSUME NEW i \in Images PROVE Cared(i)'
    OBVIOUS
<1>3. \A kind \in Kinds : Kept(Key(kind, i), i) => Kept(Key(kind, i), i)'
    BY <1>2 DEF Kept, Key
<1>4. RunsOf(i) \subseteq RunsOf(i)' /\ \A r \in RunsOf(i)' : r \in RunsOf(i) \/ r.pc # "fail"
    BY <1>1 DEF RunsOf
<1>5. Running \subseteq Running'
    BY <1>1 DEF Running
<1>6. RunsGoOn(i)
    BY <1>4, <1>5 DEF RunsGoOn, Tended
<1> QED BY <1>3, <1>6, CareFrame

\* The run of another image changes, or of an image of which a run has thrown.
LEMMA OtherRun ==
    ASSUME StorageInv, CareInv, NEW r \in runs, NEW i \in Images, i # r.img \/ i \in threw',
           threw \subseteq threw', lost \subseteq lost',
           upload' = upload, cleanups' = cleanups, RowKeys(i) \subseteq RowKeys(i)',
           objects' \subseteq objects, puts' \subseteq puts,
           End(r) \/ \E pc \in {"complete", "fail", "discard"} : Goto(r, pc)
    PROVE  Cared(i)'
<1>1. i # r.img => RunsOf(i)' = RunsOf(i)
    <2>1. \A pc : [r EXCEPT !.pc = pc].img = r.img
        BY DEF StorageInv, StorageTypeOK, TypeOK, Run
    <2> QED BY <2>1 DEF RunsOf, End, Goto
<1> QED BY <1>1, SameCare

\* No step of a run makes a row list less.
LEMMA RunLists ==
    ASSUME StorageInv, CareInv, NEW r \in runs, NEW i \in Images,
           \/ Complete(r) \/ CompleteThrew(r) \/ Fail(r) \/ FailThrew(r)
           \/ ProcessThrew(r) \/ Discarded(r) \/ DiscardThrew(r)
    PROVE  RowKeys(i) \subseteq RowKeys(i)'
<1>1. r.img \in Images /\ status \in [Images -> Statuses] /\ attempts \in [Images -> Nat]
    BY DEF StorageInv, StorageTypeOK, TypeOK, Run
<1>2. CASE Decide(r.img)
    <2>1. CASE i = r.img
        BY <1>2, <2>1, DecisionLists
    <2>2. CASE i # r.img
        <3>1. status'[i] = status[i] /\ attempts'[i] = attempts[i]
            BY <1>1, <1>2, <2>2 DEF Decide
        <3> QED BY <3>1, RowKeysSame
    <2> QED BY <2>1, <2>2
<1>3. CASE ~Decide(r.img)
    <2>1. \/ status'[i] = status[i] /\ attempts'[i] = attempts[i]
          \/ /\ status[i] \in {"pending", "processing"}
             /\ status'[i] \in {"pending", "processing", "failed"}
        BY <1>1, <1>3 DEF Complete, CompleteThrew, Fail, FailThrew, ProcessThrew, Discarded,
                          DiscardThrew, RowsSame
    <2> QED BY <2>1, RowKeysSame
<1> QED BY <1>2, <1>3

LEMMA EndCare ==
    ASSUME StorageInv, CareInv, NEW r \in runs, Complete(r) \/ Fail(r) \/ FailThrew(r),
           UNCHANGED storageVars
    PROVE  \A i \in Images : Cared(i)'
<1> USE DEF storageVars, runVars, history
<1> SUFFICES ASSUME NEW i \in Images PROVE Cared(i)'
    OBVIOUS
<1>1. r.img \in Images /\ r \in Run /\ status \in [Images -> Statuses]
    BY DEF StorageInv, StorageTypeOK, TypeOK, Run
<1>2. RowKeys(i) \subseteq RowKeys(i)'
    BY RunLists
<1>3. End(r) \/ \E pc \in {"complete", "fail", "discard"} : Goto(r, pc)
    BY DEF Complete, Fail, FailThrew
<1>4. CASE i # r.img \/ i \in threw'
    BY <1>2, <1>3, <1>4, OtherRun
<1>5. CASE i = r.img /\ i \notin threw'
    <2>1. Complete(r) /\ r.pc = "complete"
        <3>1. r.pc # "fail"
            BY <1>5 DEF CareInv, Cared, RunsCare, RunsOf
        <3> QED BY <3>1 DEF Complete, Fail, FailThrew
    <2>2. Running \subseteq Running' /\ \A q \in RunsOf(i)' : q \in RunsOf(i) \/ q.pc # "fail"
        BY <1>1, <2>1 DEF Complete, Running, RunsOf, Goto, End, Run
    <2>3. i \notin Unreadable => \/ RunsOf(i)' # {}
                                 \/ \A kind \in Derived : Kept(Key(kind, i), i)'
        <3>1. CASE Decide(i)
            <4>1. i \notin Unreadable => DerivedKeys(i) \subseteq RowKeys(i)'
                BY <1>5, <3>1, DecisionLists
            <4> QED BY <4>1 DEF Kept, DerivedKeys, Key
        <3>2. CASE Goto(r, "discard")
            <4> DEFINE s == [r EXCEPT !.pc = "discard"]
            <4>1. s \in runs' /\ s.img = i
                BY <1>1, <1>5, <3>2 DEF Goto, Run
            <4> QED BY <4>1 DEF RunsOf
        <3> QED BY <1>5, <2>1, <3>1, <3>2 DEF Complete
    <2>4. RunsGoOn(i)
        BY <2>2, <2>3 DEF RunsGoOn, Tended
    <2>5. \A kind \in Kinds : Kept(Key(kind, i), i) => Kept(Key(kind, i), i)'
        BY <1>2, StillKept
    <2> QED BY <2>4, <2>5, CareFrame
<1> QED BY <1>4, <1>5

\* Where something throws, no run need tend the derivatives of the image any more.
LEMMA ThrowCare ==
    ASSUME StorageInv, CareInv, NEW r \in runs,
           \/ RunCompleteThrew(r) \/ DiscardResultThrew(r)
           \/ Abandons(r) /\ UNCHANGED <<objects, upload, cleanups, lost, discarded>> /\ puts' \subseteq puts
    PROVE  \A i \in Images : Cared(i)'
<1> SUFFICES ASSUME NEW i \in Images PROVE Cared(i)'
    OBVIOUS
<1>1. threw' = threw \cup {r.img}
    BY DEF RunCompleteThrew, DiscardResultThrew, Abandons
<1>2. /\ lost \subseteq lost' /\ upload' = upload /\ cleanups' = cleanups
      /\ puts' \subseteq puts /\ objects' \subseteq objects
    BY DEF RunCompleteThrew, DiscardResultThrew, Discards, RemoveKeys, runVars
<1>3. CompleteThrew(r) \/ DiscardThrew(r) \/ ProcessThrew(r)
    BY DEF RunCompleteThrew, DiscardResultThrew, Abandons
<1>4. RowKeys(i) \subseteq RowKeys(i)'
    BY <1>3, RunLists
<1>5. \E pc \in {"complete", "fail", "discard"} : Goto(r, pc)
    BY <1>3 DEF CompleteThrew, DiscardThrew, ProcessThrew
<1> QED BY <1>1, <1>2, <1>4, <1>5, OtherRun

LEMMA CrashCare ==
    ASSUME StorageInv, CareInv, NEW w \in Workers, WorkerCrash(w)
    PROVE  \A i \in Images : Cared(i)'
<1> SUFFICES ASSUME NEW i \in Images PROVE Cared(i)'
    OBVIOUS
<1>1. threw' = threw \cup {r.img : r \in InFlight(w)} /\ runs' = runs \ InFlight(w)
    BY DEF WorkerCrash, Crash
<1>2. i \notin threw' => RunsOf(i)' = RunsOf(i)
    BY <1>1 DEF RunsOf, InFlight
<1>3. RowKeys(i)' = RowKeys(i)
    BY RowKeysSame DEF WorkerCrash, Crash
<1>4. UNCHANGED <<lost, upload, cleanups, objects, puts>>
    BY DEF WorkerCrash
<1> QED BY <1>1, <1>2, <1>3, <1>4, SameCare

\* A run discards both objects of its result, and then nobody needs them.
LEMMA DiscardCare ==
    ASSUME StorageInv, CareInv, NEW r \in runs, DiscardResult(r)
    PROVE  \A i \in Images : Cared(i)'
<1> SUFFICES ASSUME NEW i \in Images PROVE Cared(i)'
    OBVIOUS
<1>1. /\ r.pc = "discard" /\ End(r) /\ UNCHANGED <<read, puts, upload, cleanups, threw>>
      /\ lost \subseteq lost' /\ objects' \subseteq objects
    BY DEF DiscardResult, Discards, Discarded, RemoveKeys, runVars
<1>2. RowKeys(i) \subseteq RowKeys(i)'
    BY RunLists DEF DiscardResult
<1>3. CASE i # r.img
    BY <1>1, <1>2, <1>3, OtherRun
<1>4. CASE i = r.img
    <2>1. i \notin Unreadable => \A kind \in Derived : Key(kind, i) \notin Tended'
        <3>1. PICK kept \in SUBSET objects :
                  objects' = objects \ (ResultKeys(r) \ kept) /\ lost' = lost \cup kept
            BY DEF DiscardResult, Discards, RemoveKeys
        <3> QED BY <1>4, <3>1 DEF ResultKeys, DerivedKeys, Tended
    <2>2. Running \subseteq Running' /\ RunsOf(i)' \subseteq RunsOf(i)
        BY <1>1 DEF Running, RunsOf, End
    <2>3. RunsGoOn(i)
        BY <1>1, <2>1, <2>2 DEF RunsGoOn, Tended
    <2>4. \A kind \in Kinds : Kept(Key(kind, i), i) => Kept(Key(kind, i), i)'
        BY <1>1, <1>2, StillKept
    <2> QED BY <1>1, <2>3, <2>4, CareFrame
<1> QED BY <1>3, <1>4

LEMMA PutFailsCare ==
    ASSUME StorageInv, CareInv, NEW p \in puts, PutFails(p)
    PROVE  \A i \in Images : Cared(i)'
<1>1. puts' = puts \ {p} /\ UNCHANGED <<objects, upload, cleanups, lost, discarded>>
    BY DEF PutFails
<1>2. CASE \E r \in runs : Abandons(r)
    BY <1>1, <1>2, ThrowCare
<1>3. CASE UNCHANGED <<vars, read, threw>>
    <2>1. UNCHANGED <<status, attempts, runs>>
        BY <1>3 DEF vars
    <2>2. \A i \in Images : RowKeys(i)' = RowKeys(i) /\ RunsOf(i)' = RunsOf(i)
        BY <2>1, RowKeysSame DEF RunsOf
    <2> QED BY <1>1, <1>3, <2>2, SameCare
<1> QED BY <1>2, <1>3 DEF PutFails

LEMMA PutLandsCare ==
    ASSUME StorageInv, CareInv, NEW p \in puts, PutLands(p)
    PROVE  \A i \in Images : Cared(i)'
<1>1. /\ p.img \in Images /\ p.kind \in Derived
      /\ puts' = puts \ {p} /\ objects' = objects \cup {Key(p.kind, p.img)}
      /\ UNCHANGED <<read, upload, cleanups, threw, lost, status, attempts, runs>>
    BY DEF PutLands, vars, history, StorageInv, StorageTypeOK
<1> SUFFICES ASSUME NEW i \in Images PROVE Cared(i)'
    OBVIOUS
<1>2. RowKeys(i)' = RowKeys(i) /\ RunsOf(i)' = RunsOf(i) /\ Running' = Running
    BY <1>1, RowKeysSame DEF RunsOf, Running
<1>3. \A kind \in Kinds : Kept(Key(kind, i), i) => Kept(Key(kind, i), i)'
    BY <1>1, <1>2 DEF Kept, Key
<1>4. \A kind : Key(kind, i) \in objects' => Key(kind, i) \in objects \/ (kind = p.kind /\ i = p.img)
    BY <1>1, ThreeKeys
<1>5. ASSUME i \notin threw' PROVE RunsGoOn(i)
    <2>1. i = p.img => i \notin Unreadable /\ \E r \in Running : RunId(r) = RunId(p)
        BY <1>1, <1>5 DEF CareInv, Cared, RunsCare
    <2>2. i = p.img => i \notin Unreadable /\ RunsOf(i) # {}
        BY <2>1 DEF RunId, Running, RunsOf
    <2>3. \A kind \in Derived : Key(kind, i) \in Tended' =>
              Key(kind, i) \in objects \/ (i \notin Unreadable /\ RunsOf(i)' # {})
        BY <1>2, <1>4, <2>2 DEF Tended
    <2> QED BY <1>1, <1>2, <2>3 DEF RunsGoOn
<1>6. "original" \notin Derived
    BY DEF Derived
<1> QED BY <1>1, <1>3, <1>4, <1>5, <1>6, CareFrame

LEMMA ReadOriginalCare ==
    ASSUME StorageInv, CareInv, NEW r \in runs, ReadOriginal(r)
    PROVE  \A i \in Images : Cared(i)'
<1>1. /\ r \in Running
      /\ UNCHANGED <<objects, upload, cleanups, threw, lost, status, attempts, runs>>
      /\ \A p \in puts' : p \in puts \/ (r.img \notin Unreadable /\ RunId(p) = RunId(r))
    BY DEF ReadOriginal, vars, history, Running, RunId
<1> SUFFICES ASSUME NEW i \in Images PROVE Cared(i)'
    OBVIOUS
<1>2. RowKeys(i)' = RowKeys(i) /\ RunsOf(i)' = RunsOf(i) /\ Running' = Running
    BY <1>1, RowKeysSame DEF RunsOf, Running
<1>3. \A kind \in Kinds : Kept(Key(kind, i), i) => Kept(Key(kind, i), i)'
    BY <1>1, <1>2 DEF Kept, Key
<1>4. ASSUME NEW p \in puts', p.img = i, p \notin puts
      PROVE  i \notin Unreadable /\ \E q \in Running' : RunId(q) = RunId(p)
    <2>1. r.img \notin Unreadable /\ RunId(p) = RunId(r)
        BY <1>1, <1>4
    <2>2. r.img = i
        BY <2>1, <1>4 DEF RunId
    <2> QED BY <1>1, <1>2, <2>1, <2>2
<1>5. RunsGoOn(i)
    BY <1>1, <1>2, <1>4 DEF RunsGoOn, Tended
<1> QED BY <1>1, <1>3, <1>5, CareFrame

LEMMA ReturnsCare ==
    ASSUME StorageInv, CareInv, NEW r \in runs, PipelineReturns(r)
    PROVE  \A i \in Images : Cared(i)'
<1> DEFINE q == [r EXCEPT !.pc = "complete"]
<1>1. /\ PutsOf(r) = {} /\ runs' = (runs \ {r}) \cup {q} /\ q.img = r.img /\ q.pc = "complete"
      /\ UNCHANGED <<objects, puts, upload, cleanups, threw, lost, status, attempts>>
    BY DEF PipelineReturns, Processed, history, Goto, RowsSame, StorageInv, StorageTypeOK, TypeOK, Run
<1> HIDE DEF q
<1> SUFFICES ASSUME NEW i \in Images PROVE Cared(i)'
    OBVIOUS
<1>2. RowKeys(i)' = RowKeys(i)
    BY <1>1, RowKeysSame
<1>3. \A kind \in Kinds : Kept(Key(kind, i), i) => Kept(Key(kind, i), i)'
    BY <1>1, <1>2 DEF Kept, Key
<1>4. /\ RunsOf(i) # {} => RunsOf(i)' # {}
      /\ \A s \in RunsOf(i)' : s \in RunsOf(i) \/ s.pc # "fail"
    BY <1>1 DEF RunsOf
<1>5. \A p \in puts : \A s \in Running : RunId(s) = RunId(p) => s \in Running'
    BY <1>1 DEF Running, PutsOf
<1>6. RunsGoOn(i)
    BY <1>1, <1>4, <1>5 DEF RunsGoOn, Tended
<1> QED BY <1>1, <1>3, <1>6, CareFrame

LEMMA CleanupCare ==
    ASSUME StorageInv, CareInv, NEW c \in cleanups, Cleanup(c)
    PROVE  \A i \in Images : Cared(i)'
<1>1. /\ UNCHANGED <<puts, upload, threw, status, attempts, runs>> /\ cleanups' = cleanups \ {c}
      /\ objects' \subseteq objects /\ lost \subseteq lost'
    BY DEF Cleanup, RemoveKeys, runVars, vars
<1> SUFFICES ASSUME NEW i \in Images PROVE Cared(i)'
    OBVIOUS
<1>2. RowKeys(i)' = RowKeys(i) /\ RunsOf(i)' = RunsOf(i) /\ Running' = Running
    BY <1>1, RowKeysSame DEF RunsOf, Running
<1>3. ASSUME NEW kind \in Kinds, Key(kind, i) \in Tended', Kept(Key(kind, i), i)
      PROVE  Kept(Key(kind, i), i)'
    <2>1. Key(kind, i) \notin c.keys
        <3>1. PICK kept \in SUBSET objects :
                  objects' = objects \ (c.keys \ kept) /\ lost' = lost \cup kept
            BY DEF Cleanup, RemoveKeys
        <3> QED BY <1>3, <3>1 DEF Tended
    <2> QED BY <1>1, <1>2, <1>3, <2>1 DEF Kept, Key
<1>4. RunsGoOn(i)
    BY <1>1, <1>2 DEF RunsGoOn, Tended
<1> QED BY <1>1, <1>3, <1>4, CareFrame

\* Requests: what loses its row or its upload goes to a cleanup.
LEMMA RequestCare ==
    ASSUME StorageInv, CareInv, NEW i \in Images,
           UNCHANGED <<attempts, runs, puts, threw>>, lost \subseteq lost', cleanups \subseteq cleanups',
           \A j \in Images \ {i} : status'[j] = status[j] /\ upload'[j] = upload[j],
           objects \subseteq objects',
           \A o \in objects' \ objects : o = Key("original", i) /\ upload'[i] = "put",
           upload[i] = "put" => \/ upload'[i] = "put" \/ Kept(Key("original", i), i)'
                                \/ Key("original", i) \in lost',
           \A o \in RowKeys(i) : Kept(o, i)'
    PROVE  \A j \in Images : Cared(j)'
<1> SUFFICES ASSUME NEW j \in Images PROVE Cared(j)'
    OBVIOUS
<1>1. RunsOf(j)' = RunsOf(j) /\ Running' = Running
    BY DEF RunsOf, Running
<1>2. CASE j # i
    <2>1. RowKeys(j)' = RowKeys(j)
        BY <1>2, RowKeysSame
    <2>2. \A kind \in Kinds : Key(kind, j) \in objects' => Key(kind, j) \in objects
        BY <1>2, ThreeKeys
    <2> QED BY <1>1, <1>2, <2>1, <2>2, SameCare
<1>3. CASE j = i
    <2>1. \A kind \in Kinds : Kept(Key(kind, i), i) => Kept(Key(kind, i), i)'
        BY DEF Kept
    <2>2. \A kind \in Derived : Key(kind, i) \in objects' => Key(kind, i) \in objects
        <3>1. "original" \notin Derived
            BY DEF Derived
        <3> QED BY <3>1, ThreeKeys
    <2>3. RunsGoOn(i)
        BY <1>1, <1>3, <2>2 DEF RunsGoOn, Tended
    <2> QED BY <1>1, <1>3, <2>1, <2>3, CareFrame
<1> QED BY <1>2, <1>3

LEMMA PrepareCare ==
    ASSUME StorageInv, CareInv, NEW i \in Images, Prepare(i) \/ InsertFails(i) \/ BatchFails(i)
    PROVE  \A j \in Images : Cared(j)'
<1>1. /\ UNCHANGED <<attempts, runs, puts, threw, status>>
      /\ lost \subseteq lost' /\ cleanups \subseteq cleanups' /\ objects \subseteq objects'
      /\ upload \in [Images -> {"none", "put", "stored", "uncertain", "failed"}]
      /\ status[i] = "absent"
    BY DEF Prepare, InsertFails, BatchFails, vars, runVars, history, StorageInv, StorageTypeOK,
           UploadOk
<1>2. /\ \A j \in Images \ {i} : status'[j] = status[j] /\ upload'[j] = upload[j]
      /\ \A o \in objects' \ objects : o = Key("original", i) /\ upload'[i] = "put"
    BY <1>1 DEF Prepare, InsertFails, BatchFails
<1>3. RowKeys(i) = {}
    BY <1>1 DEF RowKeys, NoRow
<1>4. ASSUME upload[i] = "put", Key("original", i) \notin lost' PROVE Kept(Key("original", i), i)'
    <2>1. [img |-> i, keys |-> {Key("original", i)}] \in cleanups'
        BY <1>4 DEF Prepare, InsertFails, BatchFails
    <2> QED BY <2>1 DEF Kept, Key
<1> QED BY <1>1, <1>2, <1>3, <1>4, RequestCare

LEMMA StoreUploadCare ==
    ASSUME StorageInv, CareInv, NEW i \in Images, StoreUpload(i)
    PROVE  \A j \in Images : Cared(j)'
<1>1. /\ UNCHANGED <<attempts, runs, puts, threw, lost, objects>>
      /\ cleanups \subseteq cleanups' /\ status[i] = "absent"
      /\ \E s \in {"pending", "rejected"} : status' = [status EXCEPT ![i] = s]
      /\ \E u \in {"stored", "uncertain"} : upload' = [upload EXCEPT ![i] = u]
      /\ status'[i] = "pending" <=> upload[i] = "put"
    BY DEF StoreUpload, Upload, runVars, history
<1>2. /\ upload \in [Images -> {"none", "put", "stored", "uncertain", "failed"}]
      /\ status \in [Images -> Statuses]
    BY DEF StorageInv, StorageTypeOK, TypeOK
<1>3. RowKeys(i) = {} /\ \A j \in Images \ {i} : status'[j] = status[j] /\ upload'[j] = upload[j]
    BY <1>1, <1>2 DEF RowKeys, NoRow
<1>4. upload[i] = "put" => Kept(Key("original", i), i)'
    BY <1>1 DEF Kept, RowKeys, NoRow, Key
<1> QED BY <1>1, <1>3, <1>4, RequestCare

LEMMA StoreDeleteCare ==
    ASSUME StorageInv, CareInv, NEW i \in Images, StoreDelete(i)
    PROVE  \A j \in Images : Cared(j)'
<1>1. /\ UNCHANGED <<attempts, runs, puts, threw, lost, objects, upload>>
      /\ cleanups \subseteq cleanups' /\ status[i] \notin NoRow
      /\ [img |-> i, keys |-> RowKeys(i)] \in cleanups'
      /\ \A j \in Images \ {i} : status'[j] = status[j]
    BY DEF StoreDelete, Delete, runVars, history, StorageInv, StorageTypeOK, TypeOK
<1>2. \A o \in RowKeys(i) : Kept(o, i)'
    BY <1>1 DEF Kept
<1> QED BY <1>1, <1>2, RequestCare

-----------------------------------------------------------------------------

\* A claim counts an attempt, so every run has a positive one.
LEMMA AttemptStep ==
    ASSUME StorageInv, \A r \in runs : r.attempt # 0, [Next]_vars
    PROVE  \A r \in runs' : r.attempt # 0
<1>1. attempts \in [Images -> Nat] /\ runs \subseteq Run
    BY DEF StorageInv, StorageTypeOK, TypeOK
<1>2. CASE UNCHANGED vars
    BY <1>2 DEF vars
<1>3. ASSUME NEW i \in Images,
             Upload(i) \/ Delete(i) \/ BackoffElapses(i) \/ LeaseExpires(i) \/ LeaseOutrun(i)
      PROVE  runs' = runs
    BY <1>3 DEF Upload, Delete, BackoffElapses, LeaseExpires, LeaseOutrun, LeaseEnds
<1>4. ASSUME NEW w \in Workers, Claim(w) PROVE \A r \in runs' : r.attempt # 0
    <2>1. PICK S \in SUBSET Images :
             runs' = runs \cup {[worker |-> w, img |-> i, attempt |-> attempts[i] + 1,
                                 pc |-> "process"] : i \in S}
        BY <1>4 DEF Claim
    <2>2. \A i \in S : attempts[i] + 1 # 0
        BY <1>1
    <2> QED BY <2>1, <2>2
<1>5. ASSUME NEW w \in Workers, ClaimLost(w) \/ Crash(w) PROVE runs' \subseteq runs
    BY <1>5 DEF ClaimLost, Crash
<1>6. ASSUME NEW r \in runs, RunStep(r) \/ FailThrew(r) PROVE \A q \in runs' : q.attempt # 0
    <2>1. End(r) \/ \E pc \in {"complete", "fail", "discard"} : Goto(r, pc)
        BY <1>6 DEF RunStep, FailThrew, Processed, ProcessThrew, Complete, CompleteThrew,
                    Discarded, DiscardThrew, Fail
    <2>2. \A pc : [r EXCEPT !.pc = pc].attempt = r.attempt
        BY <1>1 DEF Run
    <2> QED BY <2>1, <2>2 DEF End, Goto
<1>7. CASE RequeueStale
    BY <1>7 DEF RequeueStale
<1> QED BY <1>2, <1>3, <1>4, <1>5, <1>6, <1>7 DEF Next

LEMMA CareInitial == StorageInit => CareInv
BY DEF StorageInit, Init, CareInv, Cared, OriginalCared, RunsCare, Tended, RunsOf

LEMMA CareStep == StorageInv /\ CareInv /\ [StorageNext]_allVars => CareInv'
<1> SUFFICES ASSUME StorageInv, CareInv, [StorageNext]_allVars PROVE CareInv'
    OBVIOUS
<1> SUFFICES \A i \in Images : Cared(i)'
    BY StorageIsQueue, AttemptStep DEF CareInv
<1>1. CASE UNCHANGED allVars
    <2>1. UNCHANGED <<status, attempts, runs, objects, puts, upload, cleanups, threw, lost>>
        BY <1>1 DEF allVars, vars, storageVars, runVars, history
    <2>2. \A i \in Images : RowKeys(i)' = RowKeys(i) /\ RunsOf(i)' = RunsOf(i)
        BY <2>1, RowKeysSame DEF RunsOf
    <2> QED BY <2>1, <2>2, SameCare
<1>2. ASSUME NEW i \in Images,
             Prepare(i) \/ StoreUpload(i) \/ InsertFails(i) \/ BatchFails(i) \/ StoreDelete(i)
      PROVE  \A j \in Images : Cared(j)'
    BY <1>2, PrepareCare, StoreUploadCare, StoreDeleteCare
<1>3. ASSUME NEW c \in cleanups, Cleanup(c) PROVE \A j \in Images : Cared(j)'
    BY <1>3, CleanupCare
<1>4. ASSUME NEW p \in puts, PutLands(p) \/ PutFails(p) PROVE \A j \in Images : Cared(j)'
    BY <1>4, PutLandsCare, PutFailsCare
<1>5. ASSUME NEW r \in runs, PipelineThrew(r) PROVE \A j \in Images : Cared(j)'
    <2>1. Abandons(r) /\ UNCHANGED <<objects, upload, cleanups, lost, discarded>> /\ puts' \subseteq puts
        BY <1>5 DEF PipelineThrew
    <2> QED BY <2>1, ThrowCare
<1>6. ASSUME NEW r \in runs,
             \/ ReadOriginal(r) \/ PipelineReturns(r)
             \/ DiscardResult(r) \/ DiscardResultThrew(r) \/ RunCompleteThrew(r)
             \/ (Complete(r) \/ Fail(r) \/ FailThrew(r)) /\ UNCHANGED storageVars
      PROVE  \A j \in Images : Cared(j)'
    BY <1>6, ReadOriginalCare, ReturnsCare, DiscardCare, ThrowCare, EndCare
<1>7. ASSUME NEW w \in Workers, WorkerCrash(w) PROVE \A j \in Images : Cared(j)'
    BY <1>7, CrashCare
<1>8. ASSUME UNCHANGED storageVars,
             \/ RequeueStale
             \/ \E i \in Images : BackoffElapses(i) \/ LeaseExpires(i) \/ LeaseOutrun(i)
             \/ \E w \in Workers : Claim(w) \/ ClaimLost(w)
      PROVE  \A j \in Images : Cared(j)'
    BY <1>8, QueueCare
<1> QED BY <1>1, <1>2, <1>3, <1>4, <1>5, <1>6, <1>7, <1>8 DEF StorageNext

\* Once an upload has failed or a row is deleted, and the runs, puts and removals it
\* raced with are over, the bucket holds nothing of the image but the very keys that
\* storage kept or a failing batch left and, if one of its runs threw, derivatives; the
\* original in particular is gone however its runs ended.
THEOREM NothingLeftBehind == StorageSpec => []DeleteIsComplete
<1>1. ASSUME StorageInv, CareInv, NEW i \in Images,
             status[i] \in NoRow, upload[i] # "put", Quiet(i), NEW o \in ObjectsOf(i)
      PROVE  o \in lost \cup (IF i \in threw THEN DerivedKeys(i) ELSE {})
    <2>1. PICK kind \in Kinds : o = Key(kind, i) /\ o \in objects
        BY <1>1 DEF ObjectsOf, StorageInv, StorageTypeOK, Key
    <2>2. \A p : ~Kept(p, i)
        BY <1>1 DEF RowKeys, NoRow, Kept, Quiet
    <2>3. CASE kind = "original"
        BY <1>1, <2>1, <2>2, <2>3 DEF CareInv, Cared, OriginalCared, Tended
    <2>4. CASE kind \in Derived
        BY <1>1, <2>1, <2>2, <2>4 DEF CareInv, Cared, RunsCare, Tended, Quiet, DerivedKeys
    <2> QED BY <2>3, <2>4 DEF Kinds
<1>2. StorageInv /\ CareInv => DeleteIsComplete
    BY <1>1 DEF DeleteIsComplete
<1> QED BY <1>2, CareInitial, CareStep, StorageInvariant, PTL DEF StorageSpec

-----------------------------------------------------------------------------
(* The bucket leaves the queue as it was. *)

\* ObjectStorage splits the pipeline of a run in reads and writes and adds the
\* steps of upload and delete that the table does not see; with the bucket hidden,
\* it does nothing that JobQueue does not allow.
THEOREM StorageImplementsQueue == StorageSpec => Spec
<1>1. StorageInit => Init
    BY DEF StorageInit
<1> QED BY <1>1, StorageIsQueue, PTL DEF StorageSpec, Spec

\* So each image is settled once, and atomically, beside the bucket as well.
THEOREM StorageImplementsLifecycle == StorageSpec => ImplementsLifecycle
BY StorageImplementsQueue, Refinement, PTL

===============================================================================
