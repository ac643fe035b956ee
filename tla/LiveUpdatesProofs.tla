-------------------------- MODULE LiveUpdatesProofs --------------------------
(* A verdict on the page is never taken back, for any number of images,       *)
(* events and lost connections.                                               *)
EXTENDS LiveUpdates, TLAPS

Note   == [n : Nat, type : {"updated", "deleted"}, id : Images]
Pushed == [type : {"updated"}, id : Images, status : Statuses]
          \cup [type : {"deleted"}, id : Images, status : {"none"}]
          \cup [type : {"resync"}, id : {"none"}, status : {"none"}]
Reply  == [type : {"created"}, id : Images, status : Statuses]
          \cup [type : {"deleted"}, id : Images, status : {"none"}]

\* What LiveTypeOK leaves open about the messages.
Messages ==
    /\ status \in [Images -> Statuses \cup NoRow]
    /\ shown \in [Images -> Statuses \cup {"none"}]
    /\ notes \in Seq(Note) /\ stream \in Seq(Pushed) /\ answers \subseteq Reply
    /\ relays \subseteq [n : Nat, id : Images, row : Statuses \cup {"unread"}]
    /\ \A l \in lists : /\ DOMAIN l.rows \subseteq Images
                        /\ \A i \in DOMAIN l.rows : l.rows[i] \in Statuses
    /\ events \in Nat

\* Somewhere on its way to the page, or on it, there is a snapshot with this status.
Snapshot(i, s) ==
    \/ \E r \in relays : r.id = i /\ r.row = s
    \/ \E k \in DOMAIN stream : stream[k].type = "updated" /\ stream[k].id = i /\ stream[k].status = s
    \/ \E l \in lists : i \in DOMAIN l.rows /\ l.rows[i] = s
    \/ \E a \in answers : a.type = "created" /\ a.id = i /\ a.status = s
    \/ shown[i] = s

\* A final status in a snapshot is the row's, or was until the row was deleted; hence
\* no two snapshots of an image differ in it.
SnapshotsAgree ==
    \A i \in Images, s \in Final :
        Snapshot(i, s) => /\ status[i] \in {s, "deleted"}
                          /\ \A t \in Final : Snapshot(i, t) => t = s

LiveInv == Messages /\ SnapshotsAgree

\* Steps that take snapshots of rows, hand them on, and settle or delete rows.
Keeps ==
    /\ \A i \in Images, s \in Final : Snapshot(i, s)' => Snapshot(i, s) \/ s = status'[i]
    /\ \A i \in Images : \/ status'[i] \in {status[i], "deleted"}
                         \/ status[i] \notin Final \cup {"deleted"}

LEMMA FinalIsNoOther ==
    /\ Final \cap {"pending", "processing", "absent", "deleted", "none", "unread"} = {}
    /\ Statuses = {"pending", "processing"} \cup Final
BY KnownVerdicts DEF Final, Statuses

LEMMA KeepsAgreement == SnapshotsAgree /\ Keeps => SnapshotsAgree'
<1> SUFFICES ASSUME SnapshotsAgree, Keeps, NEW i \in Images, NEW s \in Final, Snapshot(i, s)'
             PROVE  /\ status'[i] \in {s, "deleted"}
                    /\ \A t \in Final : Snapshot(i, t)' => t = s
    BY DEF SnapshotsAgree
<1>1. \A t \in Final : Snapshot(i, t)' => status'[i] \in {t, "deleted"}
    <2> SUFFICES ASSUME NEW t \in Final, Snapshot(i, t)' PROVE status'[i] \in {t, "deleted"}
        OBVIOUS
    <2>1. CASE t = status'[i]
        BY <2>1
    <2>2. CASE Snapshot(i, t)
        <3>1. status[i] \in {t, "deleted"}
            BY <2>2 DEF SnapshotsAgree
        <3> QED BY <3>1 DEF Keeps
    <2> QED BY <2>1, <2>2 DEF Keeps
<1>2. ASSUME NEW t \in Final, Snapshot(i, t)' PROVE t = s
    <2>1. CASE Snapshot(i, s) /\ Snapshot(i, t)
        BY <2>1 DEF SnapshotsAgree
    <2>2. CASE s = status'[i] \/ t = status'[i]
        BY <1>1, <1>2, <2>2, FinalIsNoOther
    <2> QED BY <1>2, <2>1, <2>2 DEF Keeps
<1> QED BY <1>1, <1>2

LEMMA UpsertPicks ==
    ASSUME Messages, SnapshotsAgree, NEW i \in Images, NEW s \in Statuses, Snapshot(i, s)
    PROVE  /\ Upsert(i, s) \in {s, shown[i]} \ {"none"}
           /\ shown[i] \in Final => Upsert(i, s) = shown[i]
<1>1. Upsert(i, s) \in {s, shown[i]} \ {"none"}
    BY FinalIsNoOther DEF Upsert, Messages
<1>2. ASSUME shown[i] \in Final, Rank(s) >= Rank(shown[i]) PROVE s = shown[i]
    <2>1. Rank(shown[i]) = 2
        BY <1>2, FinalIsNoOther DEF Rank
    <2>2. s \in Final
        BY <1>2, <2>1, FinalIsNoOther DEF Rank
    <2>3. Snapshot(i, shown[i])
        BY DEF Snapshot
    <2> QED BY <1>2, <2>2, <2>3 DEF SnapshotsAgree
<1> QED BY <1>1, <1>2, FinalIsNoOther DEF Upsert

LEMMA LiveInitial == LiveInit => LiveInv
<1> SUFFICES ASSUME LiveInit PROVE LiveInv
    OBVIOUS
<1>1. Messages
    BY DEF LiveInit, Messages, NoRow
<1>2. SnapshotsAgree
    BY FinalIsNoOther DEF LiveInit, SnapshotsAgree, Snapshot
<1> QED BY <1>1, <1>2 DEF LiveInv

-----------------------------------------------------------------------------
(* The rows. *)

LEMMA RowsKeep ==
    ASSUME LiveInv, UNCHANGED <<relays, stream, lists, shown>>,
           \A a \in answers' : a \in answers \/ a.type = "deleted" \/ a.status = status'[a.id],
           \A i \in Images : \/ status'[i] \in {status[i], "deleted"}
                             \/ status[i] \notin Final \cup {"deleted"}
    PROVE  Keeps
BY DEF Keeps, Snapshot

LEMMA NotifyKeepsNotes ==
    ASSUME Messages, NEW type \in {"updated", "deleted"}, NEW i \in Images, Notify(type, i)
    PROVE  notes' \in Seq(Note) /\ events' \in Nat
<1> DEFINE e == [n |-> events, type |-> type, id |-> i]
<1>1. e \in Note
    BY DEF Messages, Note
<1> QED BY <1>1 DEF Notify, Messages

LEMMA UploadStep ==
    ASSUME LiveInv, NEW i \in Images, Upload(i) PROVE Messages' /\ Keeps
<1>1. PICK s \in {"pending", "refused"} :
          /\ Commit(i, s)
          /\ \/ answers' = answers \cup {[type |-> "created", id |-> i, status |-> s]}
             \/ UNCHANGED answers
    BY DEF Upload
<1>2. s \in Statuses /\ status[i] = "absent"
    BY DEF Upload, Statuses, Final
<1>3. Messages'
    BY <1>1, <1>2 DEF Upload, Commit, LiveInv, Messages, Reply, rows, fetches, page
<1>4. status' = [status EXCEPT ![i] = s]
    BY <1>1 DEF Commit
<1>5. status'[i] = s /\ \A j \in Images : j # i => status'[j] = status[j]
    BY <1>4 DEF LiveInv, Messages
<1>6. Keeps
    BY <1>1, <1>2, <1>5, FinalIsNoOther, RowsKeep DEF Upload, fetches, page
<1> QED BY <1>3, <1>6

LEMMA ChangeStep ==
    ASSUME LiveInv, NEW i \in Images, Change(i) \/ Requeue(i) PROVE Messages' /\ Keeps
<1>1. PICK s \in Statuses : status' = [status EXCEPT ![i] = s]
    BY DEF Change, Requeue, Commit, Statuses, Final
<1>2. status[i] \in {"pending", "processing"}
    BY DEF Change, Requeue
<1>3. notes' \in Seq(Note) /\ events' \in Nat
    BY NotifyKeepsNotes DEF Change, Requeue, LiveInv, Messages
<1>4. UNCHANGED <<relays, stream, lists, answers, shown>>
    BY DEF Change, Requeue, fetches, page
<1>5. Messages'
    BY <1>1, <1>3, <1>4 DEF LiveInv, Messages
<1>6. Keeps
    BY <1>1, <1>2, <1>4, FinalIsNoOther, RowsKeep DEF LiveInv, Messages
<1> QED BY <1>5, <1>6

LEMMA DeleteStep ==
    ASSUME LiveInv, NEW i \in Images, Delete(i) PROVE Messages' /\ Keeps
<1>1. status' = [status EXCEPT ![i] = "deleted"]
    BY DEF Delete, Commit
<1>2. notes' \in Seq(Note) /\ events' \in Nat
    BY NotifyKeepsNotes DEF Delete, LiveInv
<1>3. UNCHANGED <<relays, stream, lists, shown>>
    BY DEF Delete, fetches, page
<1>4. answers' \subseteq Reply /\ \A a \in answers' : a \in answers \/ a.type = "deleted"
    BY DEF Delete, LiveInv, Messages, Reply
<1>5. Messages'
    BY <1>1, <1>2, <1>3, <1>4 DEF LiveInv, Messages, NoRow
<1>6. Keeps
    BY <1>1, <1>3, <1>4, RowsKeep DEF LiveInv, Messages
<1> QED BY <1>5, <1>6

-----------------------------------------------------------------------------
(* The API process. *)

\* A message is appended, or dropped when the page is not connected.
LEMMA PublishAppends ==
    ASSUME Messages, NEW m \in Pushed, Publish(m)
    PROVE  /\ stream' \in Seq(Pushed)
           /\ \A k \in DOMAIN stream' : stream'[k] = m \/ (k \in DOMAIN stream /\ stream'[k] = stream[k])
<1>1. CASE conn = "open"
    <2>1. stream' = Append(stream, m) /\ stream \in Seq(Pushed)
        BY <1>1 DEF Publish, Messages
    <2>2. /\ Append(stream, m) \in Seq(Pushed)
          /\ Len(Append(stream, m)) = Len(stream) + 1
          /\ \A k \in 1 .. Len(stream) + 1 :
                Append(stream, m)[k] = IF k \in 1 .. Len(stream) THEN stream[k] ELSE m
        BY <2>1
    <2>3. DOMAIN stream = 1 .. Len(stream) /\ DOMAIN stream' = 1 .. Len(stream')
        BY <2>1, <2>2
    <2> QED BY <2>1, <2>2, <2>3
<1>2. CASE conn # "open"
    BY <1>2 DEF Publish, Messages
<1> QED BY <1>1, <1>2

LEMMA RelayStep ==
    ASSUME LiveInv, Relay PROVE Messages' /\ Keeps
<1> USE DEF LiveInv
<1> DEFINE e == Head(notes)
<1>1. e \in Note /\ notes' \in Seq(Note)
    BY DEF Relay, Messages
<1>2. UNCHANGED <<status, lists, answers, shown, events>>
    BY DEF Relay, fetches, page
<1>3. CASE UNCHANGED <<relays, stream>>
    BY <1>1, <1>2, <1>3 DEF Messages, Keeps, Snapshot
<1>4. CASE /\ Publish(Message("deleted", e.id, "none"))
           /\ UNCHANGED relays
    <2>1. Message("deleted", e.id, "none") \in Pushed
        BY <1>1 DEF Message, Pushed, Note
    <2>2. /\ stream' \in Seq(Pushed)
          /\ \A k \in DOMAIN stream' : \/ stream'[k].type = "deleted"
                                       \/ k \in DOMAIN stream /\ stream'[k] = stream[k]
        BY <1>4, <2>1, PublishAppends DEF Message
    <2>3. Messages'
        BY <1>1, <1>2, <1>4, <2>2 DEF Messages
    <2>4. Keeps
        BY <1>2, <1>4, <2>2 DEF Keeps, Snapshot
    <2> QED BY <2>3, <2>4
<1>5. CASE /\ relays' = relays \cup {[n |-> e.n, id |-> e.id, row |-> "unread"]}
           /\ UNCHANGED stream
    <2>1. Messages'
        BY <1>1, <1>2, <1>5 DEF Messages, Note
    <2>2. Keeps
        BY <1>2, <1>5, FinalIsNoOther DEF Keeps, Snapshot
    <2> QED BY <2>1, <2>2
<1> QED BY <1>3, <1>4, <1>5 DEF Relay

LEMMA RelayReadsStep ==
    ASSUME LiveInv, NEW r \in relays, RelayReads(r) PROVE Messages' /\ Keeps
<1> USE DEF LiveInv
<1>1. UNCHANGED <<status, notes, events, stream, lists, answers, shown>>
    BY DEF RelayReads, rows, fetches, page
<1>2. /\ r.id \in Images
      /\ \A q \in relays' \ relays : /\ q = [r EXCEPT !.row = status[r.id]]
                                    /\ status[r.id] \notin NoRow
    BY DEF RelayReads, Messages
<1>3. Messages'
    BY <1>1, <1>2 DEF Messages
<1>4. Keeps
    BY <1>1, <1>2 DEF Messages, Keeps, Snapshot
<1> QED BY <1>3, <1>4

LEMMA RelayPublishesStep ==
    ASSUME LiveInv, NEW r \in relays, RelayPublishes(r) PROVE Messages' /\ Keeps
<1> USE DEF LiveInv
<1> DEFINE m == Message("updated", r.id, r.row)
<1>1. UNCHANGED <<status, notes, events, lists, answers, shown>> /\ relays' \subseteq relays
    BY DEF RelayPublishes, rows, fetches, page
<1>2. m \in Pushed
    BY DEF RelayPublishes, Messages, Message, Pushed
<1>3. /\ stream' \in Seq(Pushed)
      /\ \A k \in DOMAIN stream' : stream'[k] = m \/ (k \in DOMAIN stream /\ stream'[k] = stream[k])
    BY <1>2, PublishAppends DEF RelayPublishes
<1>4. Messages'
    BY <1>1, <1>3 DEF Messages
<1>5. Keeps
    BY <1>1, <1>3 DEF Keeps, Snapshot, Message
<1> QED BY <1>4, <1>5

\* What is lost, and what goes over the connections beside snapshots.
LEMMA ConnectionStep ==
    ASSUME LiveInv,
           \/ \E r \in relays : RelayThrew(r)
           \/ ListenDrops \/ ListenAgain \/ StreamDrops \/ Open
           \/ \E section \in Sections : ListFails(section)
    PROVE  Messages' /\ Keeps
<1> USE DEF LiveInv
<1> USE DEF rows, fetches, page
<1>1. /\ UNCHANGED <<status, events, answers, shown>>
      /\ relays' \subseteq relays /\ lists' \subseteq lists
      /\ UNCHANGED notes \/ notes' = <<>>
    <2>1. CASE \E r \in relays : RelayThrew(r)
        BY <2>1 DEF RelayThrew
    <2>2. CASE \E section \in Sections : ListFails(section)
        BY <2>2 DEF ListFails
    <2>3. CASE ListenDrops \/ ListenAgain \/ StreamDrops
        BY <2>3 DEF ListenDrops, ListenAgain, StreamDrops
    <2>4. CASE Open
        BY <2>4 DEF Open, Reload
    <2> QED BY <2>1, <2>2, <2>3, <2>4
<1>2. /\ stream' \in Seq(Pushed)
      /\ \A k \in DOMAIN stream' : \/ stream'[k].type = "resync"
                                   \/ k \in DOMAIN stream /\ stream'[k] = stream[k]
    <2>1. CASE ListenAgain
        <3>1. Message("resync", "none", "none") \in Pushed
            BY DEF Message, Pushed
        <3> QED BY <2>1, <3>1, PublishAppends DEF ListenAgain, Message
    <2>2. CASE StreamDrops
        <3>1. stream' = <<>>
            BY <2>2 DEF StreamDrops
        <3> QED BY <3>1
    <2>3. CASE UNCHANGED stream
        BY <2>3 DEF Messages
    <2> QED BY <2>1, <2>2, <2>3 DEF RelayThrew, ListenDrops, Open, ListFails
<1>3. Messages'
    <2>1. <<>> \in Seq(Note)
        OBVIOUS
    <2>2. notes' \in Seq(Note)
        <3> HIDE DEF rows, fetches, page
        <3> QED BY <1>1, <2>1 DEF Messages
    <2> QED BY <1>1, <1>2, <2>2 DEF Messages
<1>4. Keeps
    BY <1>1, <1>2 DEF Keeps, Snapshot
<1> QED BY <1>3, <1>4

-----------------------------------------------------------------------------
(* The page. *)

\* What the page may show of an image after a step: nothing, what it showed, or a
\* snapshot that came first or is as new.
MayShow(i, s) ==
    /\ s \in {shown[i], "none"} \/ (s \in Statuses /\ Snapshot(i, s))
    /\ shown[i] \in Final => s \in {shown[i], "none"}

Shows == \A i \in Images : MayShow(i, shown'[i])

LEMMA ShowsKeeps ==
    ASSUME Messages, Shows, UNCHANGED status, relays' \subseteq relays, lists' \subseteq lists,
           answers' \subseteq answers,
           \A k \in DOMAIN stream' : \E j \in DOMAIN stream : stream'[k] = stream[j]
    PROVE  Keeps
<1>1. ASSUME NEW i \in Images, NEW s \in Final, Snapshot(i, s)' PROVE Snapshot(i, s)
    <2>1. CASE shown'[i] = s
        <3>1. shown[i] = s \/ Snapshot(i, shown'[i])
            BY <2>1, FinalIsNoOther DEF Shows, MayShow
        <3> QED BY <2>1, <3>1 DEF Snapshot
    <2>2. CASE shown'[i] # s
        BY <1>1, <2>2 DEF Snapshot
    <2> QED BY <2>1, <2>2
<1> QED BY <1>1 DEF Keeps

LEMMA ListReadsStep ==
    ASSUME LiveInv, NEW section \in Sections, ListReads(section) PROVE Messages' /\ Keeps
<1> USE DEF LiveInv
<1> DEFINE found == {i \in Images : SectionOf(status[i]) = section}
           new   == [n |-> <<loads, wanted[section]>>, section |-> section,
                     rows |-> [i \in found |-> status[i]]]
<1>1. UNCHANGED <<status, notes, events, relays, stream, answers, shown>>
    BY DEF ListReads, rows, page
<1>2. \A l \in lists' : l \in lists \/ l = new
    BY DEF ListReads
<1>3. \A i \in found : status[i] \in Statuses
    <2> SUFFICES ASSUME NEW i \in found PROVE status[i] \notin NoRow
        BY DEF Messages
    <2>1. section # "none"
        BY FinalIsNoOther, KnownVerdicts DEF Sections, SectionOf, Statuses, Final
    <2> QED BY <2>1 DEF SectionOf, NoRow
<1>4. DOMAIN new.rows = found /\ \A i \in found : new.rows[i] = status[i]
    OBVIOUS
<1> HIDE DEF new
<1>5. Messages'
    BY <1>1, <1>2, <1>3, <1>4 DEF Messages
<1>6. Keeps
    BY <1>1, <1>2, <1>4 DEF Keeps, Snapshot
<1> QED BY <1>5, <1>6

LEMMA ListArrivesStep ==
    ASSUME LiveInv, NEW l \in lists, ListArrives(l) PROVE Messages' /\ Keeps /\ Shows
<1> USE DEF LiveInv
<1>1. /\ UNCHANGED <<status, notes, events, relays, stream, answers>>
      /\ lists' \subseteq lists
    BY DEF ListArrives, rows
<1>2. \A i \in DOMAIN l.rows : i \in Images /\ l.rows[i] \in Statuses /\ Snapshot(i, l.rows[i])
    BY DEF Messages, Snapshot
<1>3. \A i \in Images : shown'[i] = IF i \in DOMAIN l.rows THEN Upsert(i, l.rows[i]) ELSE shown[i]
    BY DEF ListArrives
<1>4. Shows
    <2>1. ASSUME NEW i \in Images, i \in DOMAIN l.rows
          PROVE  MayShow(i, Upsert(i, l.rows[i]))
        BY <1>2, <2>1, UpsertPicks DEF MayShow
    <2>2. \A i \in Images : MayShow(i, shown[i])
        BY DEF MayShow
    <2> QED BY <1>3, <2>1, <2>2 DEF Shows
<1>5. shown' \in [Images -> Statuses \cup {"none"}]
    BY <1>4 DEF ListArrives, Shows, MayShow, Messages
<1>6. Messages'
    BY <1>1, <1>5 DEF Messages
<1>7. Keeps
    BY <1>1, <1>4, ShowsKeeps
<1> QED BY <1>4, <1>6, <1>7

LEMMA OneShows ==
    ASSUME LiveInv, NEW i \in Images, NEW s \in Statuses \cup {"none"},
           shown' = [shown EXCEPT ![i] = s], MayShow(i, s)
    PROVE  Shows /\ shown' \in [Images -> Statuses \cup {"none"}]
<1>1. shown' \in [Images -> Statuses \cup {"none"}]
    BY DEF LiveInv, Messages
<1>2. \A j \in Images : shown'[j] = IF j = i THEN s ELSE shown[j]
    BY DEF LiveInv, Messages
<1>3. \A j \in Images : MayShow(j, shown[j])
    BY DEF MayShow
<1> QED BY <1>1, <1>2, <1>3 DEF Shows

LEMMA MayShowUpsert ==
    ASSUME LiveInv, NEW i \in Images, NEW s \in Statuses, Snapshot(i, s)
    PROVE  /\ Upsert(i, s) \in Statuses \cup {"none"}
           /\ MayShow(i, Upsert(i, s)) /\ MayShow(i, "none")
<1>1. Upsert(i, s) \in {s, shown[i]} \ {"none"}
    BY UpsertPicks DEF LiveInv
<1>2. shown[i] \in Final => Upsert(i, s) = shown[i]
    BY UpsertPicks DEF LiveInv
<1> QED BY <1>1, <1>2 DEF MayShow, LiveInv, Messages

LEMMA DeliverStep ==
    ASSUME LiveInv, Deliver PROVE Messages' /\ Keeps /\ Shows
<1> USE DEF LiveInv
<1> DEFINE m == Head(stream)
<1>1. stream \in Seq(Pushed) /\ stream # <<>> /\ stream' = Tail(stream)
    BY DEF Deliver, Messages
<1>2. /\ m \in Pushed /\ m = stream[1] /\ 1 \in DOMAIN stream
      /\ stream' \in Seq(Pushed)
      /\ \A k \in DOMAIN stream' : k + 1 \in DOMAIN stream /\ stream'[k] = stream[k + 1]
    BY <1>1
<1>3. UNCHANGED <<status, notes, events, relays, lists, answers>>
    BY DEF Deliver, rows, fetches, Reload
<1>4. Shows /\ shown' \in [Images -> Statuses \cup {"none"}]
    <2>1. CASE m.type = "updated" /\ shown' = [shown EXCEPT ![m.id] = Upsert(m.id, m.status)]
        <3>1. m.id \in Images /\ m.status \in Statuses
            BY <1>2, <2>1 DEF Pushed
        <3>2. Snapshot(m.id, m.status)
            BY <1>2, <2>1 DEF Snapshot
        <3> QED BY <2>1, <3>1, <3>2, MayShowUpsert, OneShows
    <2>2. CASE m.type = "deleted" /\ shown' = [shown EXCEPT ![m.id] = "none"]
        <3>1. m.id \in Images
            BY <1>2, <2>2 DEF Pushed
        <3>2. MayShow(m.id, "none")
            BY DEF MayShow
        <3> QED BY <2>2, <3>1, <3>2, OneShows
    <2>3. CASE UNCHANGED shown
        BY <2>3 DEF Shows, MayShow, Messages
    <2> QED BY <2>1, <2>2, <2>3 DEF Deliver, Remove
<1>5. Messages'
    BY <1>2, <1>3, <1>4 DEF Messages
<1>6. Keeps
    BY <1>2, <1>3, <1>4, ShowsKeeps
<1> QED BY <1>4, <1>5, <1>6

LEMMA AnswerStep ==
    ASSUME LiveInv, NEW a \in answers, Answer(a) PROVE Messages' /\ Keeps /\ Shows
<1> USE DEF LiveInv
<1>1. UNCHANGED <<status, notes, events, relays, stream, lists>> /\ answers' \subseteq answers
    BY DEF Answer, rows, fetches
<1>2. a \in Reply
    BY DEF Messages
<1>3. Shows /\ shown' \in [Images -> Statuses \cup {"none"}]
    <2>1. CASE a.type = "created" /\ shown' = [shown EXCEPT ![a.id] = Upsert(a.id, a.status)]
        <3>1. a.id \in Images /\ a.status \in Statuses
            BY <1>2, <2>1 DEF Reply
        <3>2. Snapshot(a.id, a.status)
            BY <2>1 DEF Snapshot
        <3> QED BY <2>1, <3>1, <3>2, MayShowUpsert, OneShows
    <2>2. CASE a.type = "deleted" /\ shown' = [shown EXCEPT ![a.id] = "none"]
        <3>1. a.id \in Images
            BY <1>2, <2>2 DEF Reply
        <3>2. MayShow(a.id, "none")
            BY DEF MayShow
        <3> QED BY <2>2, <3>1, <3>2, OneShows
    <2>3. CASE UNCHANGED shown
        BY <2>3 DEF Shows, MayShow, Messages
    <2> QED BY <2>1, <2>2, <2>3 DEF Answer, Remove
<1>4. Messages'
    BY <1>1, <1>3 DEF Messages
<1>5. Keeps
    BY <1>1, <1>3, ShowsKeeps
<1> QED BY <1>3, <1>4, <1>5

-----------------------------------------------------------------------------

\* Every step keeps the snapshots in agreement and takes no verdict off the page.
LEMMA LiveStep ==
    ASSUME LiveInv, [LiveNext]_liveVars
    PROVE  LiveInv' /\ \A i \in Images : shown[i] \in Final => shown'[i] \in {shown[i], "none"}
<1> DEFINE Stays == UNCHANGED shown
<1>1. Messages' /\ Keeps /\ (Stays \/ Shows)
    <2>1. CASE \E i \in Images : Upload(i)
        BY <2>1, UploadStep DEF Upload, page
    <2>2. CASE \E i \in Images : Change(i) \/ Requeue(i)
        BY <2>2, ChangeStep DEF Change, Requeue, page
    <2>3. CASE \E i \in Images : Delete(i)
        BY <2>3, DeleteStep DEF Delete, page
    <2>4. CASE Relay
        BY <2>4, RelayStep DEF Relay, page
    <2>5. CASE \E r \in relays : RelayReads(r)
        BY <2>5, RelayReadsStep DEF RelayReads, page
    <2>6. CASE \E r \in relays : RelayPublishes(r)
        BY <2>6, RelayPublishesStep DEF RelayPublishes, page
    <2>7. CASE \E s \in Sections : ListReads(s)
        BY <2>7, ListReadsStep DEF ListReads, page
    <2>8. CASE \E l \in lists : ListArrives(l)
        BY <2>8, ListArrivesStep
    <2>9. CASE Deliver
        BY <2>9, DeliverStep
    <2>10. CASE \E a \in answers : Answer(a)
        BY <2>10, AnswerStep
    <2>11. CASE \/ \E r \in relays : RelayThrew(r)
                \/ ListenDrops \/ ListenAgain \/ StreamDrops \/ Open
                \/ \E section \in Sections : ListFails(section)
        BY <2>11, ConnectionStep DEF RelayThrew, ListenDrops, ListenAgain, StreamDrops, Open,
                                     ListFails, page
    <2>12. CASE UNCHANGED liveVars
        BY <2>12 DEF liveVars, rows, fetches, page, LiveInv, Messages, Keeps, Snapshot
    <2> QED BY <2>1, <2>2, <2>3, <2>4, <2>5, <2>6, <2>7, <2>8, <2>9, <2>10, <2>11, <2>12
            DEF LiveNext
<1>2. SnapshotsAgree'
    BY <1>1, KeepsAgreement DEF LiveInv
<1>3. \A i \in Images : shown[i] \in Final => shown'[i] \in {shown[i], "none"}
    BY <1>1 DEF Shows, MayShow
<1> QED BY <1>1, <1>2, <1>3 DEF LiveInv

\* uploadsReducer.ts: no answer, however late, takes an accepted, rejected or failed
\* image on the page back to an earlier status or turns it into another verdict.
THEOREM VerdictsStay == LiveSpec => NeverBackwards
<1>1. LiveInv /\ [LiveNext]_liveVars => LiveInv'
    BY LiveStep
<1>2. LiveInv /\ [LiveNext]_liveVars
      => [\A i \in Images : shown[i] \in Final => shown'[i] \in {shown[i], "none"}]_liveVars
    BY LiveStep
<1> QED BY LiveInitial, <1>1, <1>2, PTL DEF LiveSpec, NeverBackwards

-----------------------------------------------------------------------------

\* The part of LiveTypeOK that is not about messages.
Counters ==
    /\ conn \in {"connecting", "open", "down"} /\ listening \in BOOLEAN
    /\ wanted \in [Sections -> Nat]
    /\ fresh \subseteq Sections
    /\ events \in 0 .. MaxEvents /\ drops \in 0 .. MaxDrops

LEMMA CountersStep ==
    ASSUME Counters, [LiveNext]_liveVars PROVE Counters'
<1> USE LiveBounds DEF Counters, rows, fetches, page
<1>1. CASE \E i \in Images : Upload(i) \/ Change(i) \/ Requeue(i) \/ Delete(i)
    BY <1>1 DEF Upload, Change, Requeue, Delete, Notify
<1>2. CASE \/ Relay \/ \E a \in answers : Answer(a)
           \/ \E l \in lists : ListArrives(l)
           \/ \E r \in relays : RelayReads(r) \/ RelayPublishes(r)
    BY <1>2 DEF Relay, Answer, ListArrives, RelayReads, RelayPublishes
<1>3. CASE \/ StreamDrops \/ ListenDrops \/ ListenAgain
           \/ \E r \in relays : RelayThrew(r)
    <2>1. drops' \in 0 .. MaxDrops
        BY <1>3 DEF StreamDrops, ListenDrops, ListenAgain, RelayThrew, QueryFails, Dropped
    <2>2. listening' \in BOOLEAN /\ conn' \in {"connecting", "open", "down"}
        BY <1>3 DEF StreamDrops, ListenDrops, ListenAgain, RelayThrew
    <2>3. UNCHANGED <<wanted, events>> /\ fresh' \subseteq Sections
        BY <1>3 DEF StreamDrops, ListenDrops, ListenAgain, RelayThrew, QueryFails
    <2> QED BY <2>1, <2>2, <2>3
<1>4. CASE Open \/ Deliver
    BY <1>4 DEF Open, Deliver, Reload
<1>5. CASE \E s \in Sections : ListReads(s) \/ ListFails(s)
    BY <1>5 DEF ListReads, ListFails, QueryFails, Dropped
<1>6. CASE UNCHANGED liveVars
    BY <1>6 DEF liveVars
<1> QED BY <1>1, <1>2, <1>3, <1>4, <1>5, <1>6 DEF LiveNext

\* Every variable keeps its type; in particular the page shows only statuses rows have.
THEOREM LiveTypes == LiveSpec => []LiveTypeOK
<1>1. LiveInit => LiveInv /\ Counters
    BY LiveInitial, LiveBounds DEF LiveInit, Counters
<1>2. LiveInv /\ Counters /\ [LiveNext]_liveVars => LiveInv' /\ Counters'
    BY LiveStep, CountersStep
<1>3. LiveInv /\ Counters => LiveTypeOK
    BY DEF LiveInv, Messages, Counters, LiveTypeOK
<1> QED BY <1>1, <1>2, <1>3, PTL DEF LiveSpec

-----------------------------------------------------------------------------
(* The page catches up. *)

Announced(i) == status[i] \in Statuses \ {"pending", "refused"}

\* A status that puts the page right about an image: any while the image is being
\* processed, as no snapshot is ahead of the row; a final one once it is settled.
AsNew(i, s) == s \in Statuses /\ (status[i] \in Final => s \in Final)

\* The page knows of the image, or something that tells it is on its way.
Informed(i) ==
    \/ AsNew(i, shown[i])
    \/ \E k \in DOMAIN notes : notes[k].type = "updated" /\ notes[k].id = i
    \/ \E r \in relays : r.id = i /\ (r.row = "unread" \/ AsNew(i, r.row))
    \/ \E k \in DOMAIN stream : stream[k].type = "updated" /\ stream[k].id = i
                                /\ AsNew(i, stream[k].status)
    \/ \E k \in DOMAIN stream : stream[k].type = "resync"
    \/ wanted[SectionOf(status[i])] > 0
    \/ \E l \in lists : i \in DOMAIN l.rows /\ AsNew(i, l.rows[i])

\* Whatever connections were lost before.
Heard ==
    conn = "open" /\ listening =>
        \A i \in Images : Announced(i) /\ SectionOf(status[i]) \in fresh => Informed(i)

\* Nothing is told of a deletion before it.
DeletedAreGone ==
    /\ \A k \in DOMAIN notes : notes[k].type = "deleted" => status[notes[k].id] = "deleted"
    /\ \A k \in DOMAIN stream : stream[k].type = "deleted" => status[stream[k].id] = "deleted"
    /\ \A a \in answers : a.type = "deleted" => status[a.id] = "deleted"

FirstOpenIsFirst == conn = "connecting" => fresh = {}

CatchUpInv == LiveInv /\ Counters /\ Heard /\ DeletedAreGone /\ FirstOpenIsFirst

LEMMA AppendHas ==
    ASSUME NEW S, NEW q \in Seq(S), NEW m \in S, NEW p, p = Append(q, m)
    PROVE  /\ \A k \in DOMAIN q : k \in DOMAIN p /\ p[k] = q[k]
           /\ \E k \in DOMAIN p : p[k] = m
           /\ \A k \in DOMAIN p : p[k] = m \/ (k \in DOMAIN q /\ p[k] = q[k])
<1>1. /\ Len(p) = Len(q) + 1 /\ DOMAIN p = 1 .. Len(p) /\ DOMAIN q = 1 .. Len(q)
      /\ \A k \in 1 .. Len(q) : p[k] = q[k]
      /\ p[Len(q) + 1] = m /\ Len(q) \in Nat
    OBVIOUS
<1> QED BY <1>1

LEMMA TailHas ==
    ASSUME NEW S, NEW q \in Seq(S), q # <<>>, NEW p, p = Tail(q)
    PROVE  /\ \A k \in DOMAIN q : q[k] = Head(q) \/ \E j \in DOMAIN p : p[j] = q[k]
           /\ \A j \in DOMAIN p : \E k \in DOMAIN q : p[j] = q[k]
<1>1. /\ Len(p) = Len(q) - 1 /\ DOMAIN p = 1 .. Len(p) /\ DOMAIN q = 1 .. Len(q)
      /\ Len(q) \in Nat \ {0} /\ Head(q) = q[1]
      /\ \A j \in 1 .. Len(p) : p[j] = q[j + 1]
    OBVIOUS
<1>2. ASSUME NEW k \in DOMAIN q, k # 1 PROVE k - 1 \in DOMAIN p /\ p[k - 1] = q[k]
    BY <1>1, <1>2
<1>3. ASSUME NEW j \in DOMAIN p PROVE j + 1 \in DOMAIN q /\ p[j] = q[j + 1]
    BY <1>1, <1>3
<1>4. \A k \in DOMAIN q : q[k] = Head(q) \/ \E j \in DOMAIN p : p[j] = q[k]
    BY <1>1, <1>2
<1>5. \A j \in DOMAIN p : \E k \in DOMAIN q : p[j] = q[k]
    BY <1>3
<1> QED BY <1>4, <1>5

LEMMA UpsertIsAsNew ==
    ASSUME Messages, NEW i \in Images, NEW s \in Statuses, AsNew(i, s) \/ AsNew(i, shown[i])
    PROVE  AsNew(i, Upsert(i, s))
<1>1. shown[i] \in Statuses \cup {"none"} /\ "none" \notin Statuses
    BY FinalIsNoOther DEF Messages
<1>2. Upsert(i, s) \in {s, shown[i]} /\ Upsert(i, s) \in Statuses
    BY <1>1 DEF Upsert
<1>3. ASSUME s \in Final \/ shown[i] \in Final PROVE Upsert(i, s) \in Final
    BY <1>1, <1>3, FinalIsNoOther DEF Upsert, Rank
<1> QED BY <1>2, <1>3 DEF AsNew

LEMMA SectionsOfRows == \A s \in Statuses : SectionOf(s) \in Sections
BY DEF Sections

\* Steps that leave the row of an image alone, and no way to the page shorter.
LEMMA StaysInformed ==
    ASSUME NEW i \in Images, Informed(i), status'[i] = status[i],
           AsNew(i, shown[i]) => AsNew(i, shown'[i]),
           \A k \in DOMAIN notes : k \in DOMAIN notes' /\ notes'[k] = notes[k],
           relays \subseteq relays', lists \subseteq lists',
           \A k \in DOMAIN stream : k \in DOMAIN stream' /\ stream'[k] = stream[k],
           wanted' = wanted
    PROVE  Informed(i)'
BY DEF Informed, AsNew

-----------------------------------------------------------------------------

LEMMA RowsInform ==
    ASSUME CatchUpInv, NEW j \in Images, Upload(j) \/ Change(j) \/ Requeue(j) \/ Delete(j)
    PROVE  Heard'
<1> USE DEF CatchUpInv, LiveInv, rows, fetches, page
<1>1. /\ UNCHANGED <<listening, relays, stream, wanted, lists, conn, shown, fresh>>
      /\ \/ UNCHANGED notes
         \/ \E type \in {"updated", "deleted"} : Notify(type, j)
    BY DEF Upload, Change, Requeue, Delete
<1>2. PICK s : status' = [status EXCEPT ![j] = s]
    BY DEF Upload, Change, Requeue, Delete, Commit
<1>3. status'[j] = s /\ \A i \in Images \ {j} : status'[i] = status[i]
    BY <1>2 DEF Messages
<1>4. \A k \in DOMAIN notes : k \in DOMAIN notes' /\ notes'[k] = notes[k]
    <2>1. ASSUME NEW type \in {"updated", "deleted"}, Notify(type, j)
          PROVE  \A k \in DOMAIN notes : k \in DOMAIN notes' /\ notes'[k] = notes[k]
        <3>1. [n |-> events, type |-> type, id |-> j] \in Note
            BY DEF Messages, Note
        <3> QED BY <2>1, <3>1, AppendHas DEF Notify, Messages
    <2> QED BY <1>1, <2>1
<1> SUFFICES ASSUME conn' = "open", listening', NEW i \in Images, Announced(i)',
                    SectionOf(status'[i]) \in fresh'
             PROVE  Informed(i)'
    BY DEF Heard
<1>5. CASE i # j
    <2>1. Informed(i)
        BY <1>1, <1>3, <1>5 DEF Heard, Announced
    <2> QED BY <1>1, <1>3, <1>4, <1>5, <2>1, StaysInformed
<1>6. CASE i = j
    <2>1. Change(j)
        BY <1>2, <1>3, <1>6, FinalIsNoOther DEF Announced, Upload, Requeue, Delete, Commit, Messages
    <2> DEFINE note == [n |-> events, type |-> "updated", id |-> j]
    <2>2. notes' = Append(notes, note)
        BY <1>1, <2>1 DEF Change, Notify
    <2>3. note \in Note /\ notes \in Seq(Note) /\ note.type = "updated" /\ note.id = j
        BY DEF Messages, Note
    <2> HIDE DEF note, CatchUpInv, LiveInv
    <2>4. \E k \in DOMAIN notes' : notes'[k] = note
        BY <2>2, <2>3, AppendHas
    <2> QED BY <1>6, <2>3, <2>4 DEF Informed
<1> QED BY <1>5, <1>6

\* The relay hands a notification on, as a snapshot that is as new as the row.
LEMMA RelayInforms ==
    ASSUME CatchUpInv, Relay \/ \E r \in relays : RelayReads(r) \/ RelayPublishes(r)
    PROVE  Heard'
<1> USE DEF CatchUpInv, LiveInv, rows, fetches, page
<1>1. UNCHANGED <<status, listening, wanted, lists, conn, shown, fresh>>
    BY DEF Relay, RelayReads, RelayPublishes
<1> SUFFICES ASSUME conn = "open", NEW i \in Images, Announced(i), Informed(i)
             PROVE  Informed(i)'
    BY <1>1 DEF Heard, Announced
<1>2. ASSUME NEW m \in Pushed, Publish(m)
      PROVE  /\ \A k \in DOMAIN stream : k \in DOMAIN stream' /\ stream'[k] = stream[k]
             /\ \E k \in DOMAIN stream' : stream'[k] = m
    BY <1>2, AppendHas DEF Publish, Messages
<1>3. CASE Relay
    <2> DEFINE e == Head(notes)
    <2>1. e \in Note /\ notes' = Tail(notes) /\ notes \in Seq(Note) /\ notes # <<>>
        BY <1>3 DEF Relay, Messages
    <2>2. \A k \in DOMAIN notes : notes[k] = e \/ \E j \in DOMAIN notes' : notes'[j] = notes[k]
        BY <2>1, TailHas
    <2>3. relays \subseteq relays' /\ \A k \in DOMAIN stream : k \in DOMAIN stream' /\ stream'[k] = stream[k]
        <3>1. Message("deleted", e.id, "none") \in Pushed
            BY <2>1 DEF Message, Pushed, Note
        <3> QED BY <1>2, <1>3, <3>1 DEF Relay
    <2>4. e.type = "updated" => [n |-> e.n, id |-> e.id, row |-> "unread"] \in relays'
        BY <1>3 DEF Relay
    <2> HIDE DEF e
    <2>5. CASE \E k \in DOMAIN notes : notes[k].type = "updated" /\ notes[k].id = i
        BY <2>2, <2>4, <2>5 DEF Informed
    <2>6. CASE ~\E k \in DOMAIN notes : notes[k].type = "updated" /\ notes[k].id = i
        BY <1>1, <2>3, <2>6 DEF Informed, AsNew
    <2> QED BY <2>5, <2>6
<1>4. ASSUME NEW r \in relays, RelayReads(r) PROVE Informed(i)'
    <2>1. UNCHANGED <<notes, stream>> /\ r.id \in Images
        BY <1>4 DEF RelayReads, Messages
    <2>2. relays \ {r} \subseteq relays'
        BY <1>4 DEF RelayReads
    <2>3. CASE r.id = i
        <3>1. [r EXCEPT !.row = status[i]] \in relays'
            BY <1>4, <2>3, FinalIsNoOther DEF RelayReads, NoRow, Announced
        <3>2. AsNew(i, status[i])'
            BY <1>1 DEF AsNew, Announced
        <3>3. [r EXCEPT !.row = status[i]].id = i /\ [r EXCEPT !.row = status[i]].row = status[i]
            BY <1>4, <2>3 DEF Messages
        <3> QED BY <1>1, <3>1, <3>2, <3>3 DEF Informed
    <2>4. CASE r.id # i
        BY <1>1, <2>1, <2>2, <2>4 DEF Informed, AsNew
    <2> QED BY <2>3, <2>4
<1>5. ASSUME NEW r \in relays, RelayPublishes(r) PROVE Informed(i)'
    <2> DEFINE m == Message("updated", r.id, r.row)
    <2>1. m \in Pushed
        BY <1>5 DEF RelayPublishes, Messages, Message, Pushed
    <2>2. /\ \A k \in DOMAIN stream : k \in DOMAIN stream' /\ stream'[k] = stream[k]
          /\ \E k \in DOMAIN stream' : stream'[k] = m
        BY <1>2, <1>5, <2>1 DEF RelayPublishes
    <2>3. UNCHANGED notes /\ relays' = relays \ {r} /\ r.row # "unread"
        BY <1>5 DEF RelayPublishes
    <2>4. m.type = "updated" /\ m.id = r.id /\ m.status = r.row
        BY DEF Message
    <2> HIDE DEF m
    <2>5. CASE r.id = i /\ AsNew(i, r.row)
        BY <1>1, <2>2, <2>4, <2>5 DEF Informed, AsNew
    <2>6. CASE ~(r.id = i /\ AsNew(i, r.row))
        BY <1>1, <2>2, <2>3, <2>6 DEF Informed, AsNew
    <2> QED BY <2>5, <2>6
<1> QED BY <1>3, <1>4, <1>5

\* A lost connection makes no promise, and the one that replaces it starts a reload.
LEMMA ConnectionsInform ==
    ASSUME CatchUpInv,
           \/ \E r \in relays : RelayThrew(r)
           \/ ListenDrops \/ ListenAgain \/ StreamDrops \/ Open
           \/ \E section \in Sections : ListFails(section)
    PROVE  Heard'
<1> USE DEF CatchUpInv, LiveInv, rows, fetches, page
<1>1. CASE fresh' = {} \/ conn' # "open" \/ listening' = FALSE
    BY <1>1 DEF Heard
<1>2. CASE ListenAgain
    <2>1. Message("resync", "none", "none") \in Pushed
        BY DEF Message, Pushed
    <2>2. conn = "open" => \E k \in DOMAIN stream' : stream'[k].type = "resync"
        BY <1>2, <2>1, AppendHas DEF ListenAgain, Publish, Messages, Message
    <2> QED BY <1>2, <2>2 DEF ListenAgain, Heard, Informed
<1>3. CASE Open
    <2>1. CASE conn = "down"
        <3>1. \A s \in Sections : wanted'[s] > 0
            BY <1>3, <2>1 DEF Open, Reload, Counters
        <3>2. \A i \in Images : Announced(i)' => Informed(i)'
            BY <3>1, SectionsOfRows DEF Announced, Informed
        <3> QED BY <3>2 DEF Heard
    <2>2. CASE conn # "down"
        BY <1>1, <1>3, <2>2 DEF Open, FirstOpenIsFirst, Counters
    <2> QED BY <2>1, <2>2
<1>4. CASE (\E r \in relays : RelayThrew(r)) \/ \E section \in Sections : ListFails(section)
    BY <1>1, <1>4 DEF RelayThrew, ListFails, QueryFails
<1>5. CASE ListenDrops \/ StreamDrops
    BY <1>1, <1>5 DEF ListenDrops, StreamDrops
<1> QED BY <1>2, <1>3, <1>4, <1>5

LEMMA ListReadsInforms ==
    ASSUME CatchUpInv, NEW section \in Sections, ListReads(section) PROVE Heard'
<1> USE DEF CatchUpInv, LiveInv, rows, fetches, page
<1> DEFINE found == {i \in Images : SectionOf(status[i]) = section}
           new   == [n |-> <<loads, wanted[section]>>, section |-> section,
                     rows |-> [i \in found |-> status[i]]]
<1>1. /\ UNCHANGED <<status, listening, notes, relays, stream, conn, shown>>
      /\ lists \subseteq lists' /\ (found # {} => new \in lists')
      /\ \A s \in Sections \ {section} : wanted'[s] = wanted[s]
      /\ fresh' \subseteq fresh \cup {section}
    BY DEF ListReads, Counters
<1>2. DOMAIN new.rows = found /\ \A i \in found : new.rows[i] = status[i]
    OBVIOUS
<1> HIDE DEF new
<1> SUFFICES ASSUME conn = "open", listening, NEW i \in Images, Announced(i),
                    SectionOf(status[i]) \in fresh'
             PROVE  Informed(i)'
    BY <1>1 DEF Heard, Announced
<1>3. CASE i \in found
    <2>1. AsNew(i, status[i])'
        BY <1>1 DEF AsNew, Announced
    <2> QED BY <1>1, <1>2, <1>3, <2>1 DEF Informed
<1>4. CASE i \notin found
    <2>1. Informed(i) /\ SectionOf(status[i]) \in Sections \ {section}
        BY <1>1, <1>4, SectionsOfRows DEF Heard, Announced
    <2> QED BY <1>1, <2>1 DEF Informed, AsNew
<1> QED BY <1>3, <1>4

LEMMA ListArrivesInforms ==
    ASSUME CatchUpInv, NEW l \in lists, ListArrives(l) PROVE Heard'
<1> USE DEF CatchUpInv, LiveInv, rows, fetches, page
<1>1. /\ UNCHANGED <<status, listening, notes, relays, stream, wanted, conn, fresh>>
      /\ lists' = lists \ {l}
      /\ \A i \in Images : shown'[i] = IF i \in DOMAIN l.rows THEN Upsert(i, l.rows[i])
                                       ELSE shown[i]
    BY DEF ListArrives
<1> SUFFICES ASSUME NEW i \in Images, Informed(i) PROVE Informed(i)'
    BY <1>1 DEF Heard, Announced
<1>2. ASSUME i \in DOMAIN l.rows, AsNew(i, l.rows[i]) \/ AsNew(i, shown[i])
      PROVE  AsNew(i, shown'[i])
    <2>1. l.rows[i] \in Statuses
        BY <1>2 DEF Messages
    <2> QED BY <1>1, <1>2, <2>1, UpsertIsAsNew
<1>3. CASE AsNew(i, shown[i]) \/ (i \in DOMAIN l.rows /\ AsNew(i, l.rows[i]))
    <2>1. AsNew(i, shown'[i])
        BY <1>1, <1>2, <1>3
    <2> QED BY <1>1, <2>1 DEF Informed, AsNew
<1>4. CASE ~(AsNew(i, shown[i]) \/ (i \in DOMAIN l.rows /\ AsNew(i, l.rows[i])))
    BY <1>1, <1>4 DEF Informed, AsNew
<1> QED BY <1>3, <1>4

LEMMA DeliverInforms ==
    ASSUME CatchUpInv, Deliver PROVE Heard'
<1> USE DEF CatchUpInv, LiveInv, rows, fetches, page
<1> DEFINE m == Head(stream)
<1>1. /\ UNCHANGED <<status, listening, notes, relays, lists, conn, fresh>>
      /\ stream \in Seq(Pushed) /\ stream # <<>> /\ stream' = Tail(stream) /\ m \in Pushed
      /\ m = stream[1] /\ 1 \in DOMAIN stream
    BY DEF Deliver, Messages, Reload
<1>2. \A k \in DOMAIN stream : stream[k] = m \/ \E j \in DOMAIN stream' : stream'[j] = stream[k]
    BY <1>1, TailHas
<1>3. \/ /\ m.type = "updated" /\ m.id \in Images /\ m.status \in Statuses
         /\ shown' = [shown EXCEPT ![m.id] = Upsert(m.id, m.status)] /\ UNCHANGED wanted
      \/ /\ m.type = "deleted" /\ m.id \in Images /\ status[m.id] = "deleted"
         /\ shown' = [shown EXCEPT ![m.id] = "none"] /\ UNCHANGED wanted
      \/ /\ m.type = "resync" /\ UNCHANGED shown
         /\ wanted' = [s \in Sections |-> wanted[s] + 1]
    BY <1>1 DEF Deliver, Remove, Reload, Pushed, DeletedAreGone
<1> HIDE DEF m
<1> SUFFICES ASSUME NEW i \in Images, Announced(i), Informed(i) PROVE Informed(i)'
    BY <1>1 DEF Heard, Announced
<1>4. CASE m.type = "resync"
    <2>1. \A s \in Sections : wanted'[s] > 0
        BY <1>3, <1>4 DEF Counters
    <2> QED BY <1>1, <2>1, SectionsOfRows DEF Announced, Informed
<1>5. CASE m.type # "resync"
    <2>1. m.type = "updated" /\ m.id = i => shown'[i] = Upsert(i, m.status) /\ m.status \in Statuses
        BY <1>3, <1>5 DEF Messages
    <2>2. ~(m.type = "updated" /\ m.id = i) => shown'[i] = shown[i]
        BY <1>3, <1>5, FinalIsNoOther DEF Announced, Messages
    <2>3. AsNew(i, shown[i]) \/ (m.type = "updated" /\ m.id = i /\ AsNew(i, m.status))
          => AsNew(i, shown'[i])
        BY <2>1, <2>2, UpsertIsAsNew
    <2>4. CASE AsNew(i, shown[i]) \/ (m.type = "updated" /\ m.id = i /\ AsNew(i, m.status))
        BY <1>1, <2>3, <2>4 DEF Informed, AsNew
    <2>5. CASE ~(AsNew(i, shown[i]) \/ (m.type = "updated" /\ m.id = i /\ AsNew(i, m.status)))
        <3>1. wanted' = wanted
            BY <1>3, <1>5
        <3>2. \A k \in DOMAIN stream :
                  /\ stream[k].type = "updated" /\ stream[k].id = i
                  /\ AsNew(i, stream[k].status)
                  => \E j \in DOMAIN stream' : stream'[j] = stream[k]
            BY <1>2, <2>5
        <3>3. \A k \in DOMAIN stream : stream[k].type = "resync"
                  => \E j \in DOMAIN stream' : stream'[j] = stream[k]
            BY <1>2, <1>5
        <3> HIDE DEF CatchUpInv, LiveInv, rows, fetches, page
        <3>5. CASE \E k \in DOMAIN stream : stream[k].type = "updated" /\ stream[k].id = i
                                            /\ AsNew(i, stream[k].status)
            BY <1>1, <3>2, <3>5 DEF Informed, AsNew
        <3>6. CASE \E k \in DOMAIN stream : stream[k].type = "resync"
            BY <3>3, <3>6 DEF Informed
        <3>7. CASE ~ \E k \in DOMAIN stream :
                       \/ stream[k].type = "updated" /\ stream[k].id = i
                          /\ AsNew(i, stream[k].status)
                       \/ stream[k].type = "resync"
            BY <1>1, <2>5, <3>1, <3>7 DEF Informed, AsNew
        <3> QED BY <3>5, <3>6, <3>7
    <2> QED BY <2>4, <2>5
<1> QED BY <1>4, <1>5

LEMMA AnswerInforms ==
    ASSUME CatchUpInv, NEW a \in answers, Answer(a) PROVE Heard'
<1> USE DEF CatchUpInv, LiveInv, rows, fetches, page
<1>1. UNCHANGED <<status, listening, notes, relays, stream, wanted, lists, conn, fresh>> /\ a \in Reply
    BY DEF Answer, Messages
<1> SUFFICES ASSUME NEW i \in Images, Announced(i), Informed(i) PROVE Informed(i)'
    BY <1>1 DEF Heard, Announced
<1>2. \/ shown'[i] = shown[i]
      \/ a.status \in Statuses /\ shown'[i] = Upsert(i, a.status)
    BY <1>1, FinalIsNoOther DEF Answer, Remove, Reply, Messages, DeletedAreGone, Announced
<1>3. AsNew(i, shown[i]) => AsNew(i, shown'[i])
    BY <1>2, UpsertIsAsNew
<1> QED BY <1>1, <1>3, StaysInformed

-----------------------------------------------------------------------------

LEMMA DeletedStayGone ==
    ASSUME LiveInv, DeletedAreGone, [LiveNext]_liveVars PROVE DeletedAreGone'
<1> USE DEF LiveInv, DeletedAreGone, rows, fetches, page
<1>1. ASSUME NEW j \in Images, Upload(j) \/ Change(j) \/ Requeue(j) \/ Delete(j)
      PROVE  DeletedAreGone'
    <2>1. \A i \in Images : status[i] = "deleted" => status'[i] = "deleted"
        BY <1>1 DEF Upload, Change, Requeue, Delete, Commit, NoRow, Messages
    <2>2. \A k \in DOMAIN notes' :
              \/ k \in DOMAIN notes /\ notes'[k] = notes[k]
              \/ notes'[k].type = "updated"
              \/ notes'[k].id = j /\ Delete(j)
        <3>1. ASSUME NEW type \in {"updated", "deleted"}, Notify(type, j)
              PROVE  \A k \in DOMAIN notes' : \/ k \in DOMAIN notes /\ notes'[k] = notes[k]
                                              \/ notes'[k].type = type /\ notes'[k].id = j
            <4>1. [n |-> events, type |-> type, id |-> j] \in Note
                BY DEF Messages, Note
            <4> QED BY <3>1, <4>1, AppendHas DEF Notify, Messages
        <3> QED BY <1>1, <3>1 DEF Upload, Change, Requeue, Delete
    <2>3. /\ Delete(j) => status'[j] = "deleted"
          /\ UNCHANGED stream
          /\ \A a \in answers' : a \in answers \/ a.type = "created" \/ (a.id = j /\ Delete(j))
        BY <1>1 DEF Upload, Change, Requeue, Delete, Commit, Messages
    <2>4. /\ \A k \in DOMAIN notes : notes[k].id \in Images
          /\ \A k \in DOMAIN stream : stream[k].type = "deleted" => stream[k].id \in Images
          /\ \A a \in answers : a.id \in Images
        <3>1. /\ \A k \in DOMAIN notes : notes[k] \in Note
              /\ \A k \in DOMAIN stream : stream[k] \in Pushed
            BY DEF Messages
        <3> QED BY <3>1 DEF Messages, Note, Pushed, Reply
    <2> QED BY <2>1, <2>2, <2>3, <2>4
<1>2. CASE Relay
    <2> DEFINE e == Head(notes)
    <2>1. /\ e = notes[1] /\ 1 \in DOMAIN notes /\ e \in Note
          /\ notes' = Tail(notes) /\ notes \in Seq(Note) /\ notes # <<>>
        BY <1>2 DEF Relay, Messages
    <2>2. \A k \in DOMAIN notes' : \E j \in DOMAIN notes : notes'[k] = notes[j]
        BY <2>1, TailHas
    <2>3. UNCHANGED <<status, answers>>
        BY <1>2 DEF Relay
    <2>4. CASE UNCHANGED stream
        BY <2>2, <2>3, <2>4
    <2>5. CASE e.type = "deleted" /\ Publish(Message("deleted", e.id, "none"))
        <3>1. Message("deleted", e.id, "none") \in Pushed
            BY <2>1 DEF Message, Pushed, Note
        <3>2. \A k \in DOMAIN stream' : \/ stream'[k] = Message("deleted", e.id, "none")
                                        \/ k \in DOMAIN stream /\ stream'[k] = stream[k]
            BY <2>5, <3>1, PublishAppends
        <3>3. status[e.id] = "deleted"
            BY <2>1, <2>5
        <3>4. Message("deleted", e.id, "none").id = e.id
            BY DEF Message
        <3> QED BY <2>2, <2>3, <3>2, <3>3, <3>4
    <2> QED BY <1>2, <2>4, <2>5 DEF Relay
<1>3. ASSUME NEW r \in relays, RelayPublishes(r) PROVE DeletedAreGone'
    <2> DEFINE m == Message("updated", r.id, r.row)
    <2>1. m \in Pushed /\ m.type = "updated"
        BY <1>3 DEF RelayPublishes, Messages, Message, Pushed
    <2>2. \A k \in DOMAIN stream' : stream'[k] = m \/ (k \in DOMAIN stream /\ stream'[k] = stream[k])
        BY <1>3, <2>1, PublishAppends DEF RelayPublishes
    <2> QED BY <1>3, <2>1, <2>2 DEF RelayPublishes
<1>4. CASE ListenAgain
    <2>1. Message("resync", "none", "none") \in Pushed
        BY DEF Message, Pushed
    <2>2. \A k \in DOMAIN stream' : \/ stream'[k].type = "resync"
                                    \/ k \in DOMAIN stream /\ stream'[k] = stream[k]
        BY <1>4, <2>1, PublishAppends DEF ListenAgain, Message
    <2> QED BY <1>4, <2>2 DEF ListenAgain
<1>5. CASE Deliver
    <2>1. stream \in Seq(Pushed) /\ stream # <<>> /\ stream' = Tail(stream)
        BY <1>5 DEF Deliver, Messages
    <2>2. \A k \in DOMAIN stream' : \E j \in DOMAIN stream : stream'[k] = stream[j]
        BY <2>1, TailHas
    <2> QED BY <1>5, <2>2 DEF Deliver, Reload
<1>6. CASE \/ ListenDrops \/ StreamDrops \/ Open
           \/ \E r \in relays : RelayReads(r) \/ RelayThrew(r)
           \/ \E section \in Sections : ListReads(section) \/ ListFails(section)
           \/ (\E l \in lists : ListArrives(l)) \/ (\E a \in answers : Answer(a))
           \/ UNCHANGED liveVars
    <2>1. /\ UNCHANGED status /\ answers' \subseteq answers
          /\ UNCHANGED notes \/ notes' = <<>>
          /\ UNCHANGED stream \/ stream' = <<>>
        BY <1>6 DEF ListenDrops, StreamDrops, Open, Reload, RelayReads, RelayThrew, ListReads,
                    ListFails, ListArrives, Answer, liveVars
    <2>2. DOMAIN <<>> = {}
        OBVIOUS
    <2> QED BY <2>1, <2>2
<1> QED BY <1>1, <1>2, <1>3, <1>4, <1>5, <1>6 DEF LiveNext

LEMMA FirstOpenStep ==
    ASSUME FirstOpenIsFirst, [LiveNext]_liveVars PROVE FirstOpenIsFirst'
<1> USE DEF FirstOpenIsFirst, rows, fetches, page
<1>1. CASE UNCHANGED conn /\ fresh' \in {fresh, {}}
    BY <1>1
<1>2. CASE StreamDrops \/ Open
    BY <1>2 DEF StreamDrops, Open
<1>3. CASE \E section \in Sections : ListReads(section)
    BY <1>3 DEF ListReads
<1> QED BY <1>1, <1>2, <1>3 DEF LiveNext, liveVars, Upload, Change, Requeue, Delete, Relay, Deliver,
        ListenDrops, ListenAgain, RelayReads, RelayPublishes, RelayThrew, QueryFails, ListFails,
        ListArrives, Answer

LEMMA CatchUpStep == CatchUpInv /\ [LiveNext]_liveVars => CatchUpInv'
<1> SUFFICES ASSUME CatchUpInv, [LiveNext]_liveVars PROVE CatchUpInv'
    OBVIOUS
<1>1. LiveInv' /\ Counters' /\ DeletedAreGone' /\ FirstOpenIsFirst'
    BY LiveStep, CountersStep, DeletedStayGone, FirstOpenStep DEF CatchUpInv
<1>2. Heard'
    <2>1. CASE UNCHANGED liveVars
        BY <2>1 DEF CatchUpInv, Heard, Announced, Informed, AsNew, liveVars, rows, fetches, page
    <2> QED BY <2>1, RowsInform, RelayInforms, ConnectionsInform, ListReadsInforms,
               ListArrivesInforms, DeliverInforms, AnswerInforms DEF LiveNext
<1> QED BY <1>1, <1>2 DEF CatchUpInv

\* When nothing is under way and the page is connected, it shows every announced image
\* in its section, however many connections were lost and whatever overtook what.
THEOREM PageCatchesUp == LiveSpec => []CaughtUp
<1>1. LiveInit => CatchUpInv
    BY LiveInitial, LiveBounds
       DEF LiveInit, CatchUpInv, Counters, Heard, DeletedAreGone, FirstOpenIsFirst
<1>2. ASSUME CatchUpInv, Quiet, Synced, NEW i \in Images, Announced(i)
      PROVE  SectionOf(shown[i]) = SectionOf(status[i])
    <2>1. Informed(i)
        BY <1>2, SectionsOfRows DEF CatchUpInv, Heard, Synced, Announced
    <2>2. wanted[SectionOf(status[i])] = 0
        BY <1>2, SectionsOfRows DEF Quiet, Announced
    <2>3. AsNew(i, shown[i])
        BY <1>2, <2>1, <2>2 DEF Informed, Quiet
    <2>4. ASSUME shown[i] \in Final PROVE shown[i] = status[i]
        BY <1>2, <2>4, FinalIsNoOther DEF CatchUpInv, LiveInv, SnapshotsAgree, Snapshot, Announced
    <2>5. CASE shown[i] \in Final
        BY <2>4, <2>5
    <2>6. CASE shown[i] \notin Final
        <3>1. {shown[i], status[i]} \subseteq {"pending", "processing"}
            BY <1>2, <2>3, <2>6, FinalIsNoOther DEF AsNew, Announced
        <3> QED BY <3>1 DEF SectionOf
    <2> QED BY <2>5, <2>6
<1>3. CatchUpInv => CaughtUp
    BY <1>2 DEF CaughtUp, Announced
<1> QED BY <1>1, CatchUpStep, <1>3, PTL DEF LiveSpec

-----------------------------------------------------------------------------
(* Deletions. *)

\* The page has not lost sight of a deletion: it does not show the image, the row is
\* there, or the event is on its way.
Told(q, i) == \E k \in DOMAIN q : q[k].type = "deleted" /\ q[k].id = i

LEMMA NoGhost ==
    ASSUME NEW i \in Images
    PROVE  /\ ~Ghost(i) <=> shown[i] = "none" \/ status[i] # "deleted" \/ Told(notes, i) \/ Told(stream, i)
           /\ ~Ghost(i)' <=> \/ shown'[i] = "none" \/ status'[i] # "deleted"
                             \/ Told(notes', i) \/ Told(stream', i)
BY DEF Ghost, Told

LEMMA ToldLater ==
    ASSUME NEW S, NEW q \in Seq(S), NEW m \in S, NEW i, Told(q, i)
    PROVE  Told(Append(q, m), i)
BY AppendHas DEF Told

LEMMA ToldByTail ==
    ASSUME NEW S, NEW q \in Seq(S), q # <<>>, NEW p, p = Tail(q), NEW i, Told(q, i)
    PROVE  Told(p, i) \/ (Head(q).type = "deleted" /\ Head(q).id = i)
<1>1. PICK k \in DOMAIN q : q[k].type = "deleted" /\ q[k].id = i
    BY DEF Told
<1>2. q[k] = Head(q) \/ \E j \in DOMAIN p : p[j] = q[k]
    BY TailHas
<1> QED BY <1>1, <1>2 DEF Told

LEMMA DeletionStep ==
    ASSUME LiveInv, [LiveNext]_liveVars, NEW i \in Images,
           listening, listening', conn = "open", conn' = "open", shown[i] # "none", ~Ghost(i)
    PROVE  ~Ghost(i)'
<1> USE DEF LiveInv, rows, fetches, page
<1>1. status[i] # "deleted" \/ Told(notes, i) \/ Told(stream, i)
    BY NoGhost
<1>2. ASSUME NEW j \in Images, Upload(j) \/ Change(j) \/ Requeue(j) PROVE ~Ghost(i)'
    <2>1. UNCHANGED stream /\ (status[i] # "deleted" => status'[i] # "deleted")
        BY <1>2, KnownVerdicts DEF Upload, Change, Requeue, Commit, Messages, NoRow
    <2>2. Told(notes, i) => Told(notes', i)
        <3>1. CASE Change(j)
            <4>1. [n |-> events, type |-> "updated", id |-> j] \in Note
                BY DEF Messages, Note
            <4> QED BY <3>1, <4>1, ToldLater DEF Change, Notify, Messages
        <3> QED BY <1>2, <3>1 DEF Upload, Requeue
    <2> QED BY <1>1, <2>1, <2>2, NoGhost
<1>3. ASSUME NEW j \in Images, Delete(j) PROVE ~Ghost(i)'
    <2> DEFINE m == [n |-> events, type |-> "deleted", id |-> j]
    <2>1. m \in Note /\ notes \in Seq(Note) /\ notes' = Append(notes, m)
        BY <1>3 DEF Delete, Notify, Messages, Note
    <2>2. UNCHANGED stream /\ (Told(notes, i) => Told(notes', i))
        BY <1>3, <2>1, ToldLater DEF Delete
    <2>3. CASE j = i
        <3>1. m.type = "deleted" /\ m.id = i
            BY <2>3
        <3> HIDE DEF m
        <3>2. Told(notes', i)
            BY <2>1, <3>1, AppendHas DEF Told
        <3> QED BY <3>2, NoGhost
    <2>4. CASE j # i
        <3>1. status'[i] = status[i]
            BY <1>3, <2>4 DEF Delete, Commit, Messages
        <3> QED BY <1>1, <2>2, <3>1, NoGhost
    <2> QED BY <2>3, <2>4
<1>4. CASE Relay
    <2> DEFINE e == Head(notes)
    <2>1. /\ e \in Note /\ notes' = Tail(notes) /\ notes \in Seq(Note) /\ notes # <<>>
          /\ UNCHANGED status /\ stream \in Seq(Pushed)
        BY <1>4 DEF Relay, Messages
    <2>2. Told(notes, i) => Told(notes', i) \/ (e.type = "deleted" /\ e.id = i)
        BY <2>1, ToldByTail
    <2>3. CASE e.type = "deleted"
        <3> DEFINE m == Message("deleted", e.id, "none")
        <3>1. stream' = Append(stream, m) /\ m \in Pushed /\ m.type = "deleted" /\ m.id = e.id
            BY <1>4, <2>1, <2>3 DEF Relay, Publish, Message, Pushed, Note
        <3> HIDE DEF e, m
        <3>2. \E k \in DOMAIN stream' : stream'[k] = m
            BY <2>1, <3>1, AppendHas
        <3>3. e.id = i => Told(stream', i)
            BY <3>1, <3>2 DEF Told
        <3>4. Told(stream, i) => Told(stream', i)
            BY <2>1, <3>1, ToldLater
        <3> QED BY <1>1, <2>1, <2>2, <3>3, <3>4, NoGhost
    <2>4. CASE e.type # "deleted"
        <3>1. stream' = stream
            BY <1>4, <2>4 DEF Relay
        <3> QED BY <1>1, <2>1, <2>2, <2>4, <3>1, NoGhost
    <2> QED BY <2>3, <2>4
<1>5. CASE ListenAgain \/ \E r \in relays : RelayPublishes(r)
    <2>1. UNCHANGED <<status, notes>>
        BY <1>5 DEF ListenAgain, RelayPublishes
    <2>2. PICK m \in Pushed : stream' = Append(stream, m)
        BY <1>5 DEF ListenAgain, RelayPublishes, Publish, Message, Pushed, Messages
    <2>3. Told(stream, i) => Told(stream', i)
        BY <2>2, ToldLater DEF Messages
    <2> QED BY <1>1, <2>1, <2>3, NoGhost
<1>6. CASE Deliver
    <2> DEFINE m == Head(stream)
    <2>1. /\ m \in Pushed /\ stream' = Tail(stream) /\ stream \in Seq(Pushed) /\ stream # <<>>
          /\ UNCHANGED <<status, notes>> /\ shown \in [Images -> Statuses \cup {"none"}]
        BY <1>6 DEF Deliver, Messages
    <2>2. CASE m.type = "deleted" /\ m.id = i
        <3>1. shown'[i] = "none"
            BY <1>6, <2>1, <2>2 DEF Deliver, Remove
        <3> QED BY <3>1, NoGhost
    <2>3. CASE ~(m.type = "deleted" /\ m.id = i)
        <3>1. Told(stream, i) => Told(stream', i)
            BY <2>1, <2>3, ToldByTail
        <3> QED BY <1>1, <2>1, <3>1, NoGhost
    <2> QED BY <2>2, <2>3
<1>7. CASE \/ Open \/ StreamDrops \/ ListenDrops
           \/ \E r \in relays : RelayReads(r) \/ RelayThrew(r)
           \/ \E section \in Sections : ListReads(section) \/ ListFails(section)
           \/ (\E l \in lists : ListArrives(l)) \/ (\E a \in answers : Answer(a))
           \/ UNCHANGED liveVars
    <2>1. UNCHANGED <<status, notes, stream>>
        BY <1>7 DEF Open, StreamDrops, ListenDrops, RelayReads, RelayThrew, ListReads, ListFails,
                    ListArrives, Answer, liveVars
    <2> QED BY <1>1, <2>1, NoGhost
<1> QED BY <1>2, <1>3, <1>4, <1>5, <1>6, <1>7 DEF LiveNext

\* While both connections are up, a deleted image leaves the page or the event that
\* removes it is on its way, for any number of images, events and earlier losses.
THEOREM DeletionsReachThePage == LiveSpec => DeletionsArrive
<1>1. LiveInv /\ [LiveNext]_liveVars =>
          [\A i \in Images :
               /\ listening /\ listening' /\ conn = "open" /\ conn' = "open"
               /\ shown[i] # "none" /\ ~Ghost(i)
               => ~Ghost(i)']_liveVars
    BY DeletionStep
<1> QED BY <1>1, LiveInitial, LiveStep, PTL DEF LiveSpec, DeletionsArrive

=============================================================================
