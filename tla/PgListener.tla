------------------------------ MODULE PgListener ------------------------------
(***************************************************************************)
(* The dedicated LISTEN connection, backend/src/db/pgListener.ts, from the *)
(* moment start has resolved (when start throws, the process exits).  The  *)
(* node-postgres client is modelled from how the code uses it: a           *)
(* connection that is lost emits error, end or both, some time later, also *)
(* when it was lost while connect or LISTEN was under way.                 *)
(***************************************************************************)
EXTENDS Naturals, FiniteSets

CONSTANTS
    MaxLosses,  \* bound: connections that are lost or refused
    NoClient

ASSUME ListenerBounds == MaxLosses \in Nat /\ NoClient \notin Nat

VARIABLES
    conn,      \* each pg.Client: not made yet, connecting, connected, listening or gone
    client,    \* this.client
    loops,     \* calls of scheduleReconnect in their loop: whose loss each answers, and
               \* the client it connects, NoClient during its timeout
    emitted,   \* events emitted by clients and not handled yet
    stopped,
    missed,    \* history: a notification was lost and no reconnect emitted since
    losses

listenerVars == <<conn, client, loops, emitted, stopped, missed, losses>>

Clients == 1 .. MaxLosses + 2
Made    == {c \in Clients : conn[c] # "none"}
Open    == {c \in Clients : conn[c] \in {"connecting", "connected", "listening"}}

ListenerInit ==
    /\ conn = [c \in Clients |-> IF c = 1 THEN "listening" ELSE "none"]
    /\ client = 1 /\ loops = {} /\ emitted = {}
    /\ stopped = FALSE /\ missed = FALSE /\ losses = 0

\* A connection goes: its client emits one event or two, and a loop that waits for it
\* gets an error, doubles its timeout and sees whether it is to go on.
Lose(c) ==
    /\ c \in Open /\ losses < MaxLosses
    /\ losses' = losses + 1
    /\ conn' = [conn EXCEPT ![c] = "gone"]
    /\ \E es \in (SUBSET {"error", "end"}) \ {{}} :
           emitted' = emitted \cup {[from |-> c, event |-> e] : e \in es}
    /\ loops' = {IF l.at = c THEN [l EXCEPT !.at = NoClient] ELSE l :
                     l \in {l \in loops : l.at = c => ~stopped}}
    /\ UNCHANGED <<client, stopped, missed>>

\* LISTEN is refused on a connection that stays open: the loop forgets the client.
ListenRefused(l) ==
    /\ l.at # NoClient /\ conn[l.at] = "connected" /\ losses < MaxLosses
    /\ losses' = losses + 1
    /\ loops' = (loops \ {l}) \cup (IF stopped THEN {} ELSE {[l EXCEPT !.at = NoClient]})
    /\ UNCHANGED <<conn, client, emitted, stopped, missed>>

\* Mutant: each event of a lost connection starts a loop.
ScheduleEach(e) ==
    /\ emitted' = emitted \ {e}
    /\ IF stopped
       THEN UNCHANGED <<client, loops>>
       ELSE client' = NoClient /\ loops' = loops \cup {[of |-> e, at |-> NoClient]}
    /\ UNCHANGED <<conn, stopped, missed, losses>>

\* scheduleReconnect up to its loop.
ScheduleReconnect(e) ==
    /\ emitted' = emitted \ {e}
    /\ IF stopped \/ client # e.from
       THEN UNCHANGED <<client, loops>>
       ELSE client' = NoClient /\ loops' = loops \cup {[of |-> e, at |-> NoClient]}
    /\ UNCHANGED <<conn, stopped, missed, losses>>

\* The timeout ends and connect begins; only the loop's head looks at stopped.
Retry(l) ==
    /\ l.at = NoClient
    /\ \E c \in Clients \ Made :
           /\ \A d \in Clients \ Made : c <= d
           /\ conn' = [conn EXCEPT ![c] = "connecting"]
           /\ loops' = (loops \ {l}) \cup {[l EXCEPT !.at = c]}
    /\ UNCHANGED <<client, emitted, stopped, missed, losses>>

Connected(l) ==
    /\ l.at # NoClient /\ conn[l.at] = "connecting"
    /\ conn' = [conn EXCEPT ![l.at] = "connected"]
    /\ UNCHANGED <<client, loops, emitted, stopped, missed, losses>>

\* Mutant: reconnect is emitted for the first try only.
ListenedSilently(l) ==
    /\ l.at # NoClient /\ conn[l.at] = "connected"
    /\ conn' = [conn EXCEPT ![l.at] = "listening"]
    /\ client' = l.at /\ loops' = loops \ {l}
    /\ missed' = (missed /\ losses > 1)
    /\ UNCHANGED <<emitted, stopped, losses>>

\* LISTEN is answered: the client becomes this.client, and reconnect is emitted.
Listened(l) ==
    /\ l.at # NoClient /\ conn[l.at] = "connected"
    /\ conn' = [conn EXCEPT ![l.at] = "listening"]
    /\ client' = l.at /\ loops' = loops \ {l}
    /\ missed' = FALSE
    /\ UNCHANGED <<emitted, stopped, losses>>

\* stop ends this.client, if there is one.
Stop ==
    /\ ~stopped /\ stopped' = TRUE
    /\ IF client = NoClient \/ conn[client] = "gone"
       THEN UNCHANGED <<conn, emitted>>
       ELSE /\ conn' = [conn EXCEPT ![client] = "gone"]
            /\ emitted' = emitted \cup {[from |-> client, event |-> "end"]}
    /\ UNCHANGED <<client, loops, missed, losses>>

\* pg_notify while nobody listens.
NotificationLost ==
    /\ \A c \in Clients : conn[c] # "listening"
    /\ ~missed /\ missed' = TRUE
    /\ UNCHANGED <<conn, client, loops, emitted, stopped, losses>>

ListenerNext ==
    \/ \E c \in Clients : Lose(c)
    \/ \E l \in loops : Retry(l) \/ Connected(l) \/ Listened(l) \/ ListenRefused(l)
    \/ \E e \in emitted : ScheduleReconnect(e)
    \/ Stop \/ NotificationLost

\* Timers fire, events are handled, and Postgres answers in the end.
ListenerSpec ==
    /\ ListenerInit /\ [][ListenerNext]_listenerVars
    /\ WF_listenerVars(\E l \in loops : Retry(l))
    /\ WF_listenerVars(\E l \in loops : Connected(l) \/ Listened(l))
    /\ WF_listenerVars(\E e \in emitted : ScheduleReconnect(e))

-----------------------------------------------------------------------------
\* However many events a loss emits, and of whichever client, one loop reconnects, and
\* never beside a connection in use: notifications arrive once.
OneListener ==
    /\ \A l, m \in loops : l = m
    /\ loops # {} => client = NoClient
    /\ \A c \in Clients : conn[c] = "listening" => client = c

\* Whoever misses a notification hears of a reconnect later, until stop.
MissedCatchesUp == missed ~> (~missed \/ stopped)

=============================================================================
