--------------------------- MODULE MCWebhookOutbox ---------------------------
(* Small instances of WebhookOutbox for TLC. *)
EXTENDS WebhookOutbox

MCEvents == 1..2
MCTenantOf == [e \in Event |-> "acme"]
MCTwoTenants == [e \in Event |-> IF e = 1 THEN "acme" ELSE "globex"]
MCBackoff == [n \in 1..MaxAttempts |-> n - 1]
=============================================================================
