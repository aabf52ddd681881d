--------------------------- MODULE WebhookDelivery ---------------------------
(***************************************************************************)
(* What the transactional outbox promises to a tenant, one event at a      *)
(* time, with no rows, leases, workers or clocks: an event that committed  *)
(* with its business change stays owed until the tenant's endpoint has     *)
(* accepted it or the outbox gave up on it, and only an administrator      *)
(* brings an abandoned event back.  WebhookOutbox implements this.         *)
(***************************************************************************)
CONSTANT Event          \* the domain events, each published at most once

VARIABLES phase,        \* where each event is in its life
          received      \* the events whose payload reached the tenant

vars == <<phase, received>>

Phase == {"unpublished", "owed", "abandoned", "delivered", "purged"}

TypeOK == /\ phase \in [Event -> Phase]
          /\ received \subseteq Event

Init == /\ phase = [e \in Event |-> "unpublished"]
        /\ received = {}

(* The row commits with the change it announces. *)
Publish(e) == /\ phase[e] = "unpublished"
              /\ phase' = [phase EXCEPT ![e] = "owed"]
              /\ UNCHANGED received

(* The payload reaches the tenant.  It may do so again as long as the      *)
(* outbox has not learned of it: receivers deduplicate on the event id.    *)
Reach(e) == /\ phase[e] = "owed"
            /\ received' = received \cup {e}
            /\ UNCHANGED phase

(* The outbox learns that the tenant accepted the event. *)
Acknowledge(e) == /\ phase[e] = "owed"
                  /\ e \in received
                  /\ phase' = [phase EXCEPT ![e] = "delivered"]
                  /\ UNCHANGED received

(* The outbox gives up on the event. *)
Abandon(e) == /\ phase[e] = "owed"
              /\ phase' = [phase EXCEPT ![e] = "abandoned"]
              /\ UNCHANGED received

(* An administrator puts abandoned events back. *)
Restore(E) == /\ E \subseteq {e \in Event : phase[e] = "abandoned"}
              /\ phase' = [e \in Event |-> IF e \in E THEN "owed" ELSE phase[e]]
              /\ UNCHANGED received

(* Retention drops delivered events, and no others. *)
Purge(E) == /\ E \subseteq {e \in Event : phase[e] = "delivered"}
            /\ phase' = [e \in Event |-> IF e \in E THEN "purged" ELSE phase[e]]
            /\ UNCHANGED received

Next == \/ \E e \in Event : Publish(e) \/ Reach(e) \/ Acknowledge(e) \/ Abandon(e)
        \/ \E E \in SUBSET Event : Restore(E) \/ Purge(E)

Spec == Init /\ [][Next]_vars

-----------------------------------------------------------------------------
(* An event owed to the tenant does not stay owed for ever. *)
EverySettles == \A e \in Event : phase[e] = "owed" ~> phase[e] # "owed"
=============================================================================
