--------------------------- MODULE ImageLifecycle ---------------------------
(***************************************************************************)
(* What the service promises about an image, as a client of the HTTP API   *)
(* sees it: it is queued, settles exactly once, in one atomic decision, and *)
(* may be deleted at any time.  Workers, claims, retries, leases and faults *)
(* do not appear: JobQueue implements this module with them.               *)
(***************************************************************************)
EXTENDS Integers

CONSTANTS Images, Flawed, Unreadable, Similar, None

VARIABLES
    phase,      \* what GET /api/images/:id says, "queued" for pending or processing
    duplicateOf \* the accepted image a rejected one was found too similar to

lifecycleVars == <<phase, duplicateOf>>

Phases == {"absent", "queued", "accepted", "rejected", "failed", "deleted"}

LifecycleInit ==
    /\ phase = [i \in Images |-> "absent"]
    /\ duplicateOf = [i \in Images |-> None]

\* An upload is taken for processing, or refused on sight.
Submit(i) ==
    /\ phase[i] = "absent"
    /\ \E p \in {"queued", "rejected"} : phase' = [phase EXCEPT ![i] = p]
    /\ UNCHANGED duplicateOf

AcceptedLike(i) == {j \in Similar[i] : phase[j] = "accepted"}

\* Accepted only while no accepted image is like it.
Accept(i) ==
    /\ phase[i] = "queued"
    /\ i \notin Flawed \cup Unreadable
    /\ AcceptedLike(i) = {}
    /\ phase' = [phase EXCEPT ![i] = "accepted"]
    /\ UNCHANGED duplicateOf

\* Rejected for what it shows, or for the accepted image it is like.
RejectFlawed(i) ==
    /\ phase[i] = "queued"
    /\ i \in Flawed \cup Unreadable
    /\ phase' = [phase EXCEPT ![i] = "rejected"]
    /\ UNCHANGED duplicateOf

RejectDuplicate(i) ==
    /\ phase[i] = "queued"
    /\ i \notin Unreadable
    /\ \E j \in AcceptedLike(i) : duplicateOf' = [duplicateOf EXCEPT ![i] = j]
    /\ phase' = [phase EXCEPT ![i] = "rejected"]

GiveUp(i) ==
    /\ phase[i] = "queued"
    /\ phase' = [phase EXCEPT ![i] = "failed"]
    /\ UNCHANGED duplicateOf

Remove(i) ==
    /\ phase[i] \notin {"absent", "deleted"}
    /\ phase' = [phase EXCEPT ![i] = "deleted"]
    /\ duplicateOf' = [j \in Images |->
                         IF j = i \/ duplicateOf[j] = i THEN None ELSE duplicateOf[j]]

LifecycleNext ==
    \E i \in Images : \/ Submit(i) \/ Accept(i) \/ RejectFlawed(i)
                      \/ RejectDuplicate(i) \/ GiveUp(i) \/ Remove(i)

LifecycleSpec == LifecycleInit /\ [][LifecycleNext]_lifecycleVars

=============================================================================
