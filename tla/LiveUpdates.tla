----------------------------- MODULE LiveUpdates -----------------------------
(***************************************************************************)
(* How a status change reaches a page: NOTIFY image_events in the          *)
(* transaction of the change (imageRepository.ts), the relay and the hub   *)
(* of the API process (server.ts, eventHub.ts), the event stream           *)
(* (useImageEvents.ts), the fetches of useImageUploads.ts and the reducer  *)
(* that merges all answers (uploadsReducer.ts).                            *)
(*                                                                         *)
(* One page.  The rows change as JobQueue lets them.  Notifications and    *)
(* the stream keep their order and lose all that is under way when the     *)
(* connection drops; the queries of the relay and of the fetches take any  *)
(* time.  There are fewer images than a page of a list holds.              *)
(***************************************************************************)
EXTENDS Integers, Sequences

CONSTANTS
    Images,
    Verdicts,    \* what workers may decide, of "accepted", "rejected", "failed"
    MaxEvents,   \* bound: notifications sent
    MaxDrops     \* bound: lost connections and failed queries

ASSUME KnownVerdicts == Verdicts \subseteq {"accepted", "rejected", "failed"}
ASSUME LiveBounds == MaxEvents \in Nat /\ MaxDrops \in Nat

VARIABLES
    status,      \* the rows
    listening,   \* the LISTEN connection of the API process is up
    notes,       \* notifications on their way to the API process
    relays,      \* relay calls that await findById
    conn,        \* the page's EventSource
    stream,      \* messages on their way to the page
    wanted,      \* list requests of the page, per section, not yet read by the API
    lists,       \* answers to them on their way to the page (those that hold rows)
    answers,     \* answers to uploads and deletes on their way to the page
    shown,       \* state.images of the page, by status
    loads,       \* how often the page has fetched its lists
    events, drops,   \* how much of the bounds is used
    fresh        \* history: sections read, while connected, since a query failed

rows    == <<status, listening, notes, events>>
fetches == <<wanted, lists, loads>>
page    == <<conn, shown>>
liveVars == <<rows, relays, stream, fetches, answers, page, drops, fresh>>

\* "refused" is the status "rejected" of an image that upload turned down on sight.
Final    == Verdicts \cup {"refused"}
Statuses == {"pending", "processing"} \cup Final
NoRow    == {"absent", "deleted"}

\* SECTION_STATUSES, and the sections that can have images at all.
SectionOf(s) == CASE s \in {"pending", "processing"} -> "processing"
                  [] s = "accepted" -> "accepted"
                  [] s \in {"rejected", "failed", "refused"} -> "rejected"
                  [] OTHER -> "none"
Sections == {SectionOf(s) : s \in Statuses}

LiveTypeOK ==
    /\ status \in [Images -> Statuses \cup NoRow]
    /\ shown \in [Images -> Statuses \cup {"none"}]
    /\ relays \subseteq [n : Nat, id : Images, row : Statuses \cup {"unread"}]
    /\ conn \in {"connecting", "open", "down"} /\ listening \in BOOLEAN
    /\ wanted \in [Sections -> Nat]
    /\ fresh \subseteq Sections
    /\ events \in 0 .. MaxEvents /\ drops \in 0 .. MaxDrops

LiveInit ==
    /\ status = [i \in Images |-> "absent"]
    /\ listening = TRUE /\ notes = <<>> /\ events = 0
    /\ relays = {} /\ stream = <<>> /\ answers = {}
    /\ conn = "connecting" /\ shown = [i \in Images |-> "none"]
    /\ wanted = [s \in Sections |-> 1] /\ lists = {} /\ loads = 1
    /\ drops = 0 /\ fresh = {}

-----------------------------------------------------------------------------
(* The rows.  A notification is sent with the commit. *)

Commit(i, s) == status' = [status EXCEPT ![i] = s]

Notify(type, i) ==
    /\ events < MaxEvents
    /\ events' = events + 1
    /\ notes' = IF listening THEN Append(notes, [n |-> events, type |-> type, id |-> i])
                ELSE notes

\* insertMany announces jobs, not images: only the page that uploads, this one or
\* another, learns of it, by the 202.
Upload(i) ==
    /\ status[i] = "absent"
    /\ \E s \in {"pending", "refused"} :
          /\ Commit(i, s)
          /\ \/ answers' = answers \cup {[type |-> "created", id |-> i, status |-> s]}
             \/ UNCHANGED answers
    /\ UNCHANGED <<listening, notes, events, relays, stream, fetches, page, drops, fresh>>

\* claimJobs, complete and fail.
Change(i) ==
    /\ \/ status[i] = "pending" /\ Commit(i, "processing")
       \/ status[i] = "processing" /\ \E s \in Verdicts \cup {"pending"} : Commit(i, s)
    /\ Notify("updated", i)
    /\ UNCHANGED <<listening, relays, stream, fetches, answers, page, drops, fresh>>

\* requeueStale sends no image event.
Requeue(i) ==
    /\ status[i] = "processing" /\ Commit(i, "pending")
    /\ UNCHANGED <<listening, notes, events, relays, stream, fetches, answers, page,
                   drops, fresh>>

\* delete, for this page or for somebody else.
Delete(i) ==
    /\ status[i] \notin NoRow
    /\ Commit(i, "deleted")
    /\ Notify("deleted", i)
    /\ \/ answers' = answers \cup {[type |-> "deleted", id |-> i, status |-> "none"]}
       \/ UNCHANGED answers
    /\ UNCHANGED <<listening, relays, stream, fetches, page, drops, fresh>>

-----------------------------------------------------------------------------
(* The API process. *)

Publish(m) == stream' = IF conn = "open" THEN Append(stream, m) ELSE stream

Message(type, i, s) == [type |-> type, id |-> i, status |-> s]

\* Mutant: every event waits for findById, and of a deletion there is no row left.
RelayWithRow ==
    /\ notes # <<>>
    /\ notes' = Tail(notes)
    /\ relays' = IF conn # "open" THEN relays
                 ELSE relays \cup {[n |-> Head(notes).n, id |-> Head(notes).id, row |-> "unread"]}
    /\ UNCHANGED <<status, listening, events, stream, fetches, answers, page, drops, fresh>>

\* relay: nothing without a client; a deletion at once, an update after findById.
Relay ==
    /\ notes # <<>>
    /\ notes' = Tail(notes)
    /\ LET e == Head(notes) IN
       \/ conn # "open" /\ UNCHANGED <<relays, stream>>
       \/ /\ conn = "open" /\ e.type = "deleted"
          /\ Publish(Message("deleted", e.id, "none"))
          /\ UNCHANGED relays
       \/ /\ conn = "open" /\ e.type = "updated"
          /\ relays' = relays \cup {[n |-> e.n, id |-> e.id, row |-> "unread"]}
          /\ UNCHANGED stream
    /\ UNCHANGED <<status, listening, events, fetches, answers, page, drops, fresh>>

\* Mutant: no "if (row)" after findById.
RelayReadsMissing(r) ==
    /\ r.row = "unread"
    /\ relays' = (relays \ {r}) \cup {[r EXCEPT !.row = status[r.id]]}
    /\ UNCHANGED <<rows, stream, fetches, answers, page, drops, fresh>>

\* findById, at any time after the notification; nothing if the row is gone.
RelayReads(r) ==
    /\ r.row = "unread"
    /\ relays' = (relays \ {r}) \cup
          (IF status[r.id] \in NoRow THEN {} ELSE {[r EXCEPT !.row = status[r.id]]})
    /\ UNCHANGED <<rows, stream, fetches, answers, page, drops, fresh>>

RelayPublishes(r) ==
    /\ r.row # "unread"
    /\ relays' = relays \ {r}
    /\ Publish(Message("updated", r.id, r.row))
    /\ UNCHANGED <<rows, fetches, answers, page, drops, fresh>>

Dropped == drops < MaxDrops /\ drops' = drops + 1

\* A query failed, and nothing makes up for it.
QueryFails == Dropped /\ fresh' = {}

\* findById threw: logged, and the event is gone.
RelayThrew(r) ==
    /\ r.row = "unread"
    /\ relays' = relays \ {r}
    /\ QueryFails
    /\ UNCHANGED <<rows, stream, fetches, answers, page>>

\* A connection is lost with what is under way; the refetch is to make up for it.
ListenDrops ==
    /\ listening /\ listening' = FALSE
    /\ notes' = <<>>
    /\ Dropped
    /\ UNCHANGED <<status, events, relays, stream, fetches, answers, page, fresh>>

\* Mutant: no resync for the browsers.
ListenAgainSilently ==
    /\ ~listening
    /\ listening' = TRUE
    /\ UNCHANGED <<status, notes, events, relays, stream, fetches, answers, page, drops,
                   fresh>>

ListenAgain ==
    /\ ~listening
    /\ listening' = TRUE
    /\ Publish(Message("resync", "none", "none"))
    /\ UNCHANGED <<status, notes, events, relays, fetches, answers, page, drops, fresh>>

-----------------------------------------------------------------------------
(* The page: connections and fetches. *)

StreamDrops ==
    /\ conn = "open" /\ conn' = "down"
    /\ stream' = <<>>
    /\ Dropped
    /\ UNCHANGED <<rows, relays, fetches, answers, shown, fresh>>

\* reloadAll
Reload == /\ wanted' = [s \in Sections |-> wanted[s] + 1]
          /\ loads' = loads + 1
          /\ UNCHANGED lists

\* The first open does not resync, the mount has fetched; every other one does.
Open ==
    /\ conn # "open"
    /\ conn' = "open"
    /\ IF conn = "down" THEN Reload ELSE UNCHANGED fetches
    /\ UNCHANGED <<rows, relays, stream, answers, shown, drops, fresh>>

\* repo.list for a section, at any time after the request.
ListReads(section) ==
    LET found == {i \in Images : SectionOf(status[i]) = section} IN
    /\ wanted[section] > 0
    /\ wanted' = [wanted EXCEPT ![section] = @ - 1]
    /\ lists' = IF found = {} THEN lists
                ELSE lists \cup {[n |-> <<loads, wanted[section]>>, section |-> section,
                                  rows |-> [i \in found |-> status[i]]]}
    /\ fresh' = IF listening /\ conn = "open" THEN fresh \cup {section} ELSE fresh
    /\ UNCHANGED <<rows, loads, relays, stream, answers, page, drops>>

Rank(s) == CASE s = "pending" -> 0 [] s = "processing" -> 1 [] OTHER -> 2

\* Mutant: whatever arrives last is shown.
UpsertLast(i, s) == s

\* upsert, for one image.
Upsert(i, s) == IF shown[i] = "none" \/ Rank(s) >= Rank(shown[i]) THEN s ELSE shown[i]

\* section/loaded: rows are added or updated, none are removed.
ListArrives(l) ==
    /\ lists' = lists \ {l}
    /\ shown' = [i \in Images |-> IF i \in DOMAIN l.rows THEN Upsert(i, l.rows[i])
                                  ELSE shown[i]]
    /\ UNCHANGED <<rows, wanted, loads, relays, stream, answers, conn, drops, fresh>>

\* section/loadFailed, before or after the list was read.
ListFails(section) ==
    /\ \/ /\ wanted[section] > 0
          /\ wanted' = [wanted EXCEPT ![section] = @ - 1]
          /\ UNCHANGED lists
       \/ /\ \E l \in lists : l.section = section /\ lists' = lists \ {l}
          /\ UNCHANGED wanted
    /\ QueryFails
    /\ UNCHANGED <<rows, loads, relays, stream, answers, page>>

-----------------------------------------------------------------------------
(* The page: what arrives. *)

Remove(i) == shown' = [shown EXCEPT ![i] = "none"]

Deliver ==
    /\ stream # <<>>
    /\ stream' = Tail(stream)
    /\ LET m == Head(stream) IN
       \/ /\ m.type = "updated"
          /\ shown' = [shown EXCEPT ![m.id] = Upsert(m.id, m.status)]
          /\ UNCHANGED fetches
       \/ m.type = "deleted" /\ Remove(m.id) /\ UNCHANGED fetches
       \/ m.type = "resync" /\ Reload /\ UNCHANGED shown
    /\ UNCHANGED <<rows, relays, answers, conn, drops, fresh>>

\* upload/succeeded, image/removed after deleteImage, or neither: the answer is lost.
Answer(a) ==
    /\ answers' = answers \ {a}
    /\ \/ a.type = "created" /\ shown' = [shown EXCEPT ![a.id] = Upsert(a.id, a.status)]
       \/ a.type = "deleted" /\ Remove(a.id)
       \/ UNCHANGED shown
    /\ UNCHANGED <<rows, relays, stream, fetches, conn, drops, fresh>>

-----------------------------------------------------------------------------
LiveNext ==
    \/ \E i \in Images : Upload(i) \/ Change(i) \/ Requeue(i) \/ Delete(i)
    \/ Relay \/ Deliver \/ Open \/ StreamDrops \/ ListenDrops \/ ListenAgain
    \/ \E r \in relays : RelayReads(r) \/ RelayPublishes(r) \/ RelayThrew(r)
    \/ \E s \in Sections : ListReads(s) \/ ListFails(s)
    \/ \E l \in lists : ListArrives(l)
    \/ \E a \in answers : Answer(a)

LiveSpec == LiveInit /\ [][LiveNext]_liveVars

-----------------------------------------------------------------------------
Quiet == /\ notes = <<>> /\ relays = {} /\ stream = <<>>
         /\ wanted = [s \in Sections |-> 0] /\ lists = {} /\ answers = {}

Synced == conn = "open" /\ listening /\ fresh = Sections

\* When nothing is under way the page shows every image in its section, in whatever
\* order events, lists and answers came and whichever connection was lost meanwhile.
\* Excused are the first load, which may miss what happens before the stream opens,
\* failed queries, and uploads as such, which are not announced (claims are).
CaughtUp ==
    Quiet /\ Synced =>
        \A i \in Images : status[i] \in Statuses \ {"pending", "refused"} =>
                             SectionOf(shown[i]) = SectionOf(status[i])

\* uploadsReducer.ts: "Never let a stale snapshot move an image backwards from a
\* final status": a verdict on the page stays until the image is removed.
NeverBackwards ==
    [][\A i \in Images : shown[i] \in Final => shown'[i] \in {shown[i], "none"}]_liveVars

\* An image whose row is gone stands on the page, and nothing on its way removes it.
Ghost(i) ==
    /\ shown[i] # "none" /\ status[i] = "deleted"
    /\ \A k \in DOMAIN notes : notes[k].type # "deleted" \/ notes[k].id # i
    /\ \A k \in DOMAIN stream : stream[k].type # "deleted" \/ stream[k].id # i

\* A deletion reaches a page that shows the image, whoever deletes it and whatever else
\* is under way: the event is passed on although its row can no longer be read.  Excused
\* are deletions while a connection is down, which no refetch makes up for, and images
\* that a snapshot older than the deletion puts on the page afterwards.
DeletionsArrive ==
    [][\A i \in Images :
           /\ listening /\ listening' /\ conn = "open" /\ conn' = "open"
           /\ shown[i] # "none" /\ ~Ghost(i)
           => ~Ghost(i)']_liveVars

=============================================================================
