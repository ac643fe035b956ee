--------------------------- MODULE PgListenerProofs ---------------------------
(* One listener, for any number of lost connections.                          *)
EXTENDS PgListener, TLAPS

Event == [from : Clients, event : {"error", "end"}]

ListenerTypeOK ==
    /\ conn \in [Clients -> {"none", "connecting", "connected", "listening", "gone"}]
    /\ client \in Clients \cup {NoClient}
    /\ loops \subseteq [of : Event, at : Clients \cup {NoClient}]
    /\ emitted \subseteq Event

\* A client emits when its connection is gone; the client in use has been listening.
EventsOfTheGone ==
    \A e \in emitted : conn[e.from] = "gone"

ListenerInv == ListenerTypeOK /\ EventsOfTheGone /\ OneListener

LEMMA NoClientIsNone == NoClient \notin Clients
BY ListenerBounds DEF Clients

LEMMA ListenerInitial == ListenerInit => ListenerInv
BY ListenerBounds
   DEF ListenerInit, ListenerInv, ListenerTypeOK, EventsOfTheGone, OneListener, Clients

LEMMA ListenerStep == ListenerInv /\ [ListenerNext]_listenerVars => ListenerInv'
<1> SUFFICES ASSUME ListenerInv, [ListenerNext]_listenerVars PROVE ListenerInv'
    OBVIOUS
<1> USE NoClientIsNone DEF ListenerInv, ListenerTypeOK, EventsOfTheGone, OneListener
<1>1. ASSUME NEW c \in Clients, Lose(c) PROVE ListenerInv'
    <2>1. PICK es \in (SUBSET {"error", "end"}) \ {{}} :
              emitted' = emitted \cup {[from |-> c, event |-> e] : e \in es}
        BY <1>1 DEF Lose
    <2>2. emitted' \subseteq Event /\ \A e \in emitted' : e \in emitted \/ e.from = c
        BY <2>1 DEF Event
    <2>3. loops' = {IF l.at = c THEN [l EXCEPT !.at = NoClient] ELSE l :
                        l \in {l \in loops : l.at = c => ~stopped}}
        BY <1>1 DEF Lose
    <2>4. /\ loops' \subseteq [of : Event, at : Clients \cup {NoClient}]
          /\ \A l, m \in loops' : l = m
          /\ loops' # {} => loops # {}
        BY <2>3
    <2> QED BY <1>1, <2>2, <2>4 DEF Lose
<1>2. ASSUME NEW l \in loops, Retry(l) PROVE ListenerInv'
    BY <1>2 DEF Retry, Made
<1>3. ASSUME NEW l \in loops, Connected(l) PROVE ListenerInv'
    BY <1>3 DEF Connected
<1>4. ASSUME NEW l \in loops, Listened(l) PROVE ListenerInv'
    BY <1>4 DEF Listened
<1>5. ASSUME NEW l \in loops, ListenRefused(l) PROVE ListenerInv'
    BY <1>5 DEF ListenRefused
<1>6. ASSUME NEW e \in emitted, ScheduleReconnect(e) PROVE ListenerInv'
    BY <1>6 DEF ScheduleReconnect, Event
<1>7. CASE Stop
    BY <1>7 DEF Stop, Event
<1>8. CASE NotificationLost
    BY <1>8 DEF NotificationLost
<1>9. CASE UNCHANGED listenerVars
    BY <1>9 DEF listenerVars
<1> QED BY <1>1, <1>2, <1>3, <1>4, <1>5, <1>6, <1>7, <1>8, <1>9 DEF ListenerNext

\* Whatever fails, and whichever events the failures emit, one loop reconnects, and no
\* connection but the one in use delivers notifications.
THEOREM ListenerIsUnique == ListenerSpec => []OneListener
<1>1. ListenerInv => OneListener
    BY DEF ListenerInv
<1> QED BY <1>1, ListenerInitial, ListenerStep, PTL DEF ListenerSpec

-----------------------------------------------------------------------------
(* Until stop, a listener that has lost its connection is on its way to another *)
(* one: what MissedCatchesUp needs but for fairness.                            *)

WaitsForConnection(l) == l.at # NoClient => conn[l.at] \in {"connecting", "connected"}

\* Without a loop, the client in use listens, or the event that starts the loop is
\* still to be handled.
SomebodyReconnects ==
    /\ \A l \in loops : WaitsForConnection(l)
    /\ ~stopped /\ loops = {} =>
          client # NoClient /\ (conn[client] = "listening" \/ \E e \in emitted : e.from = client)
    /\ client # NoClient => conn[client] \in {"listening", "gone"}
    /\ missed => \A c \in Clients : conn[c] # "listening"

\* A loop waits for its timeout, or the client in use is gone.
BetweenClients ==
    \/ \E l \in loops : l.at = NoClient
    \/ loops = {} /\ ~stopped /\ conn[client] = "gone"

\* Clients are made one after the other, each for a loss of its own.
ClientPerLoss ==
    /\ losses \in 0 .. MaxLosses
    /\ \E m \in 1 .. losses + 1 : Made = 1 .. m /\ (BetweenClients => m <= losses)

ReconnectInv == ListenerInv /\ SomebodyReconnects /\ ClientPerLoss

LEMMA ReconnectInitial == ListenerInit => ReconnectInv
<1> SUFFICES ASSUME ListenerInit PROVE ReconnectInv
    OBVIOUS
<1>1. SomebodyReconnects
    BY ListenerBounds DEF ListenerInit, SomebodyReconnects, WaitsForConnection, Clients
<1>2. Made = 1 .. 1 /\ ~BetweenClients
    BY ListenerBounds DEF ListenerInit, Made, BetweenClients, Clients
<1>3. ClientPerLoss
    <2>1. losses = 0 /\ 1 \in 1 .. losses + 1
        BY DEF ListenerInit
    <2> QED BY <1>2, <2>1, ListenerBounds DEF ClientPerLoss
<1> QED BY <1>1, <1>3, ListenerInitial DEF ReconnectInv

\* A step that neither makes a client nor loses one.
LEMMA SameClients ==
    ASSUME ReconnectInv, losses' = losses, Made' = Made, BetweenClients' => BetweenClients
    PROVE  ClientPerLoss'
BY DEF ReconnectInv, ClientPerLoss

\* A loss pays for the client that comes after it.
LEMMA AnotherLoss ==
    ASSUME ReconnectInv, losses < MaxLosses, losses' = losses + 1, Made' = Made
    PROVE  ClientPerLoss'
<1>1. PICK m \in 1 .. losses + 1 : Made = 1 .. m
    BY DEF ReconnectInv, ClientPerLoss
<1>2. losses' \in 0 .. MaxLosses /\ m \in 1 .. losses' + 1 /\ m <= losses'
    BY <1>1, ListenerBounds DEF ReconnectInv, ClientPerLoss
<1> QED BY <1>1, <1>2 DEF ClientPerLoss

\* The timeout of a loop is followed by a client of its own.
LEMMA ClientLeft ==
    ASSUME ReconnectInv, BetweenClients
    PROVE  \E m \in Nat : /\ m \in 1 .. losses /\ Made = 1 .. m
                          /\ m + 1 \in Clients \ Made
<1>1. PICK m \in 1 .. losses + 1 : Made = 1 .. m /\ m <= losses
    BY DEF ReconnectInv, ClientPerLoss
<1>2. m \in 1 .. losses /\ m + 1 \in Clients \ Made
    BY <1>1, ListenerBounds DEF ReconnectInv, ClientPerLoss, Clients
<1> QED BY <1>1, <1>2

LEMMA LoseKeeps ==
    ASSUME ReconnectInv, NEW c \in Clients, Lose(c) PROVE ReconnectInv'
<1> USE NoClientIsNone DEF ReconnectInv
<1>1. PICK es \in SUBSET {"error", "end"} :
          es # {} /\ emitted' = emitted \cup {[from |-> c, event |-> e] : e \in es}
    <2>1. PICK es \in (SUBSET {"error", "end"}) \ {{}} :
              emitted' = emitted \cup {[from |-> c, event |-> e] : e \in es}
        BY DEF Lose
    <2>2. es \in SUBSET {"error", "end"} /\ es # {}
        BY <2>1, Zenon
    <2> QED BY <2>1, <2>2
<1>2. /\ emitted \subseteq emitted' /\ \E e \in emitted' : e.from = c
      /\ \A d \in Clients : conn'[d] = IF d = c THEN "gone" ELSE conn[d]
      /\ conn[c] \in {"connecting", "connected", "listening"}
    <2>1. PICK e \in es : TRUE
        BY <1>1
    <2>2. [from |-> c, event |-> e] \in emitted'
        BY <1>1, <2>1
    <2>3. [from |-> c, event |-> e].from = c
        OBVIOUS
    <2> QED BY <1>1, <2>2, <2>3 DEF Lose, Open, ListenerInv, ListenerTypeOK
<1>3. loops' = {IF l.at = c THEN [l EXCEPT !.at = NoClient] ELSE l :
                    l \in {l \in loops : l.at = c => ~stopped}}
    BY DEF Lose
<1>4. /\ \A l \in loops' : l.at = NoClient \/ (l.at # c /\ l \in loops)
      /\ ~stopped /\ loops' = {} => loops = {}
      /\ \A l \in loops : l.at \in Clients \cup {NoClient}
    <2>1. \A l \in loops : l.at \in Clients \cup {NoClient} /\ [l EXCEPT !.at = NoClient].at = NoClient
        BY DEF ListenerInv, ListenerTypeOK
    <2>2. \A l \in loops' : l.at = NoClient \/ (l.at # c /\ l \in loops)
        BY <1>3, <2>1
    <2>3. ASSUME ~stopped, NEW l \in loops PROVE loops' # {}
        <3>1. (IF l.at = c THEN [l EXCEPT !.at = NoClient] ELSE l) \in loops'
            BY <1>3, <2>3
        <3> QED BY <3>1
    <2> QED BY <2>1, <2>2, <2>3
<1>5. SomebodyReconnects'
    <2>1. \A l \in loops' : WaitsForConnection(l)'
        BY <1>2, <1>4 DEF SomebodyReconnects, WaitsForConnection
    <2>2. client' = client /\ stopped' = stopped /\ missed' = missed
          /\ client \in Clients \cup {NoClient}
        BY DEF Lose, ListenerInv, ListenerTypeOK
    <2>3. ~stopped /\ loops' = {} =>
              client # NoClient /\ (conn'[client] = "listening" \/ \E e \in emitted' : e.from = client)
        BY <1>2, <1>4, <2>2 DEF SomebodyReconnects
    <2>4. /\ client # NoClient => conn'[client] \in {"listening", "gone"}
          /\ missed => \A d \in Clients : conn'[d] # "listening"
        BY <1>2, <2>2 DEF SomebodyReconnects
    <2> QED BY <2>1, <2>2, <2>3, <2>4 DEF SomebodyReconnects
<1>6. Made' = Made
    BY <1>2 DEF Made
<1>7. ClientPerLoss'
    BY <1>6, AnotherLoss DEF Lose
<1> QED BY <1>5, <1>7, ListenerStep DEF ListenerNext

LEMMA RetryKeeps ==
    ASSUME ReconnectInv, NEW l \in loops, Retry(l) PROVE ReconnectInv'
<1> USE NoClientIsNone DEF ReconnectInv
<1>1. PICK c \in Clients \ Made :
          /\ \A d \in Clients \ Made : c <= d
          /\ conn' = [conn EXCEPT ![c] = "connecting"]
          /\ loops' = (loops \ {l}) \cup {[l EXCEPT !.at = c]}
    BY DEF Retry
<1>2. l.at = NoClient /\ BetweenClients
    BY DEF Retry, BetweenClients
<1>3. PICK m \in Nat : m \in 1 .. losses /\ Made = 1 .. m /\ m + 1 \in Clients \ Made
    BY <1>2, ClientLeft
<1>4. c = m + 1
    BY <1>1, <1>3, ListenerBounds DEF Clients
<1>5. /\ \A d \in Clients : conn'[d] = IF d = c THEN "connecting" ELSE conn[d]
      /\ \A k \in loops' : k.at = c /\ loops' # {}
      /\ conn[c] = "none"
    BY <1>1 DEF ListenerInv, ListenerTypeOK, OneListener, Made
<1>6. SomebodyReconnects'
    <2>1. \A k \in loops' : WaitsForConnection(k)'
        BY <1>1, <1>5 DEF WaitsForConnection
    <2>2. /\ loops' # {} /\ client' = client /\ missed' = missed
          /\ client \in Clients \cup {NoClient}
        BY <1>1 DEF Retry, ListenerInv, ListenerTypeOK
    <2> QED BY <1>5, <2>1, <2>2 DEF SomebodyReconnects
<1>7. ~BetweenClients'
    BY <1>1, <1>5 DEF BetweenClients
<1>8. Made' = Made \cup {c}
    BY <1>5 DEF Made
<1>9. ClientPerLoss'
    <2>1. Made' = 1 .. m + 1 /\ m + 1 \in 1 .. losses + 1 /\ losses' = losses
        BY <1>3, <1>4, <1>8, ListenerBounds DEF Retry, ClientPerLoss
    <2> QED BY <1>7, <2>1 DEF ClientPerLoss
<1> QED BY <1>6, <1>9, ListenerStep DEF ListenerNext

\* The steps of a client that is made already.
LEMMA AnswerKeeps ==
    ASSUME ReconnectInv, NEW l \in loops, Connected(l) \/ Listened(l) PROVE ReconnectInv'
<1> USE NoClientIsNone DEF ReconnectInv
<1>1. l.at \in Clients /\ \A k \in loops : k = l
    BY DEF Connected, Listened, ListenerInv, ListenerTypeOK, OneListener
<1>2. CASE Connected(l)
    <2>1. /\ \A d \in Clients : conn'[d] = IF d = l.at THEN "connected" ELSE conn[d]
          /\ conn[l.at] = "connecting"
          /\ UNCHANGED <<client, loops, emitted, stopped, missed, losses>>
        BY <1>1, <1>2 DEF Connected, ListenerInv, ListenerTypeOK
    <2>2. SomebodyReconnects'
        BY <1>1, <2>1 DEF SomebodyReconnects, WaitsForConnection, ListenerInv, ListenerTypeOK
    <2>3. Made' = Made /\ ~BetweenClients'
        BY <1>1, <2>1 DEF Made, BetweenClients
    <2> QED BY <2>1, <2>2, <2>3, SameClients, ListenerStep, <1>2 DEF ListenerNext
<1>3. CASE Listened(l)
    <2>1. /\ \A d \in Clients : conn'[d] = IF d = l.at THEN "listening" ELSE conn[d]
          /\ conn[l.at] = "connected" /\ loops' = {} /\ client' = l.at /\ ~missed'
          /\ UNCHANGED <<emitted, stopped, losses>>
        BY <1>1, <1>3 DEF Listened, ListenerInv, ListenerTypeOK
    <2>2. SomebodyReconnects'
        BY <1>1, <2>1 DEF SomebodyReconnects
    <2>3. Made' = Made /\ ~BetweenClients'
        BY <1>1, <2>1 DEF Made, BetweenClients
    <2> QED BY <2>1, <2>2, <2>3, SameClients, ListenerStep, <1>3 DEF ListenerNext
<1> QED BY <1>2, <1>3

LEMMA RefusalKeeps ==
    ASSUME ReconnectInv, NEW l \in loops, ListenRefused(l) PROVE ReconnectInv'
<1> USE NoClientIsNone DEF ReconnectInv
<1>1. /\ UNCHANGED <<conn, client, emitted, stopped, missed>>
      /\ loops' = (loops \ {l}) \cup (IF stopped THEN {} ELSE {[l EXCEPT !.at = NoClient]})
    BY DEF ListenRefused
<1>2. SomebodyReconnects'
    <2>1. \A k \in loops' : k \in loops \/ k.at = NoClient
        BY <1>1 DEF ListenerInv, ListenerTypeOK
    <2>2. \A k \in loops' : WaitsForConnection(k)'
        BY <1>1, <2>1 DEF SomebodyReconnects, WaitsForConnection
    <2>3. ~stopped => loops' # {}
        BY <1>1
    <2> QED BY <1>1, <2>2, <2>3 DEF SomebodyReconnects
<1>3. Made' = Made
    BY <1>1 DEF Made
<1> QED BY <1>2, <1>3, AnotherLoss, ListenerStep DEF ListenRefused, ListenerNext

LEMMA ScheduleKeeps ==
    ASSUME ReconnectInv, NEW e \in emitted, ScheduleReconnect(e) PROVE ReconnectInv'
<1> USE NoClientIsNone DEF ReconnectInv
<1>1. /\ UNCHANGED <<conn, stopped, missed, losses>> /\ emitted' = emitted \ {e}
      /\ e.from \in Clients /\ conn[e.from] = "gone"
    BY DEF ScheduleReconnect, ListenerInv, ListenerTypeOK, EventsOfTheGone, Event
<1>2. Made' = Made
    BY <1>1 DEF Made
<1>3. CASE stopped \/ client # e.from
    <2>1. UNCHANGED <<client, loops>>
        BY <1>3 DEF ScheduleReconnect
    <2>2. SomebodyReconnects'
        BY <1>1, <1>3, <2>1 DEF SomebodyReconnects, WaitsForConnection
    <2>3. BetweenClients' => BetweenClients
        BY <1>1, <2>1 DEF BetweenClients
    <2> QED BY <1>1, <1>2, <2>2, <2>3, SameClients, ListenerStep DEF ListenerNext
<1>4. CASE ~stopped /\ client = e.from
    <2>1. loops = {} /\ BetweenClients
        BY <1>1, <1>4 DEF ListenerInv, OneListener, BetweenClients
    <2>2. client' = NoClient /\ loops' = {[of |-> e, at |-> NoClient]}
        BY <1>4, <2>1 DEF ScheduleReconnect
    <2>3. SomebodyReconnects'
        <3>1. /\ \A l \in loops' : WaitsForConnection(l)'
              /\ loops' # {} /\ client' = NoClient
            BY <2>2 DEF WaitsForConnection
        <3>2. missed' => \A c \in Clients : conn'[c] # "listening"
            BY <1>1 DEF SomebodyReconnects
        <3> QED BY <3>1, <3>2 DEF SomebodyReconnects
    <2> QED BY <1>1, <1>2, <2>1, <2>3, SameClients, ListenerStep DEF ListenerNext
<1> QED BY <1>3, <1>4

LEMMA StopKeeps ==
    ASSUME ReconnectInv, Stop PROVE ReconnectInv'
<1> USE NoClientIsNone DEF ReconnectInv
<1>1. /\ stopped' = TRUE /\ UNCHANGED <<client, loops, missed, losses>>
      /\ client \in Clients \cup {NoClient}
      /\ \A d \in Clients : \/ conn'[d] = conn[d]
                            \/ d = client /\ conn[d] # "none" /\ conn'[d] = "gone"
    BY DEF Stop, ListenerInv, ListenerTypeOK, SomebodyReconnects
<1>2. SomebodyReconnects'
    <2>1. \A l \in loops : client = NoClient /\ l.at \in Clients \cup {NoClient}
        BY DEF ListenerInv, ListenerTypeOK, OneListener
    <2>2. \A l \in loops' : WaitsForConnection(l)'
        BY <1>1, <2>1 DEF SomebodyReconnects, WaitsForConnection
    <2> QED BY <1>1, <2>2 DEF SomebodyReconnects
<1>3. Made' = Made
    BY <1>1 DEF Made
<1>4. BetweenClients' => BetweenClients
    BY <1>1 DEF BetweenClients
<1> QED BY <1>1, <1>2, <1>3, <1>4, SameClients, ListenerStep DEF ListenerNext

LEMMA ReconnectStep == ReconnectInv /\ [ListenerNext]_listenerVars => ReconnectInv'
<1> SUFFICES ASSUME ReconnectInv, [ListenerNext]_listenerVars PROVE ReconnectInv'
    OBVIOUS
<1>1. CASE NotificationLost
    <2>1. UNCHANGED <<conn, client, loops, emitted, stopped, losses>> /\ Made' = Made
        BY <1>1 DEF NotificationLost, Made
    <2>2. SomebodyReconnects'
        BY <1>1, <2>1
           DEF NotificationLost, ReconnectInv, SomebodyReconnects, WaitsForConnection
    <2>3. BetweenClients' => BetweenClients
        BY <2>1 DEF BetweenClients
    <2> QED BY <2>1, <2>2, <2>3, SameClients, ListenerStep DEF ReconnectInv
<1>2. CASE UNCHANGED listenerVars
    BY <1>2, ListenerStep
       DEF listenerVars, ReconnectInv, SomebodyReconnects, WaitsForConnection, ClientPerLoss,
           Made, BetweenClients
<1> QED BY <1>1, <1>2, LoseKeeps, RetryKeeps, AnswerKeeps, RefusalKeeps, ScheduleKeeps,
           StopKeeps DEF ListenerNext

\* A notification that is missed is caught up with: until stop, a loop can make its next
\* client, or Postgres has yet to answer one, or the event that starts a loop is on its
\* way.  In particular the code never waits for an event that was handled already.
ReconnectIsComing ==
    missed /\ ~stopped =>
        \/ \E e \in emitted : e.from = client
        \/ \E l \in loops : IF l.at = NoClient THEN Made # Clients
                            ELSE conn[l.at] \in {"connecting", "connected"}

THEOREM ReconnectNeverForgotten == ListenerSpec => []ReconnectIsComing
<1>1. ReconnectInv => ReconnectIsComing
    <2> SUFFICES ASSUME ReconnectInv, missed, ~stopped, \A e \in emitted : e.from # client
                 PROVE  \E l \in loops : IF l.at = NoClient THEN Made # Clients
                                         ELSE conn[l.at] \in {"connecting", "connected"}
        BY DEF ReconnectIsComing
    <2>1. PICK l \in loops : WaitsForConnection(l)
        BY DEF ReconnectInv, SomebodyReconnects, ListenerInv, ListenerTypeOK
    <2>2. ASSUME l.at = NoClient PROVE Made # Clients
        BY <2>2, ClientLeft DEF BetweenClients
    <2> QED BY <2>1, <2>2 DEF WaitsForConnection
<1> QED BY <1>1, ReconnectInitial, ReconnectStep, PTL DEF ListenerSpec


=============================================================================
