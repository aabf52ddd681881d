---------------------------- MODULE WebhookOutbox ----------------------------
(***************************************************************************)
(* The transactional outbox: the webhook_events table, the workers that    *)
(* drain it (webhooks.job.ts, run by cron every 30 seconds on every        *)
(* replica, without waiting for the previous run), the administrators'     *)
(* resends (webhooks.service.ts) and the retention job.                    *)
(*                                                                         *)
(* Instants are kept as the time left until them, in units of the longest  *)
(* turn a worker may spend on one row: the 5 s HTTP timeout and its        *)
(* database writes.  0 stands for NULL and for every instant in the past,  *)
(* which the code never tells apart.  Tick lets a unit go by.              *)
(***************************************************************************)
EXTENDS Integers, FiniteSets

CONSTANTS
    Event,              \* webhook_events ids, numbered by createdAt
    Worker,             \* runs of processPendingWebhooks that may coexist
    Tenant,
    TenantOf,           \* the tenant an event belongs to
    Batch,              \* CLAIM_BATCH_SIZE
    Lease,              \* CLAIM_LEASE_MINUTES
    MaxAttempts,        \* MAX_ATTEMPTS
    Backoff,            \* delay after the n-th failed attempt: min(2^n, 300) s
    UnconfiguredDelay,  \* one hour
    Retention,          \* WEBHOOK_EVENT_RETENTION_DAYS
    Timely,             \* no row's turn outlasts a unit (a stalled worker's does)
    MaxAborts,          \* bound: worker runs cut short
    MaxResends          \* bound: resends that reset a row

ASSUME OutboxAssumption ==
    /\ Event \subseteq Nat
    /\ IsFiniteSet(Event)
    /\ TenantOf \in [Event -> Tenant]
    /\ Batch \in Nat \ {0}
    /\ Lease \in Nat
    /\ MaxAttempts \in Nat \ {0}
    /\ Backoff \in [1..MaxAttempts -> Nat]
    /\ UnconfiguredDelay \in Nat
    /\ Retention \in Nat
    /\ Timely \in BOOLEAN
    /\ MaxAborts \in Nat
    /\ MaxResends \in Nat

(* The margin the comment on CLAIM_LEASE_MINUTES asks for. *)
ASSUME LeaseAssumption == Lease > Batch

VARIABLES
    stored,         \* the events that have a row
    purged,         \* the events whose row retention deleted
    sentAt,         \* the rows whose sentAt is set
    age,            \* retention: time left before a sent row may be purged
    attempts,
    nextRetryAt,    \* time left, or Dead
    claimedUntil,   \* time left of the lease
    configured,     \* the tenants that have a webhook URL and secret
    received,       \* the events whose payload reached their tenant
    pc,             \* each worker's place in processPendingWebhooks; after a POST,
                    \* the answer it has yet to record
    queue,          \* the claimed rows it has not finished with
    snapshot,       \* the attempts it read with each of them
    reachable,      \* the tenants it read as configured
    slack,          \* units left for the turn in hand
    aborts, resends \* counted against their bounds

rowVars    == <<stored, purged, sentAt, age, attempts, nextRetryAt, claimedUntil>>
workerVars == <<pc, queue, snapshot, reachable, slack>>
vars == <<rowVars, configured, received, workerVars, aborts, resends>>

Dead == -1                      \* DEAD_LETTER_DATE
SendResult == {"sent", "failed", "blocked"}

TypeOK ==
    /\ stored \subseteq Event
    /\ purged \subseteq Event
    /\ sentAt \subseteq Event
    /\ age \in [Event -> Nat]
    /\ attempts \in [Event -> 0..MaxAttempts]
    /\ nextRetryAt \in [Event -> Nat \cup {Dead}]
    /\ claimedUntil \in [Event -> Nat]
    /\ configured \subseteq Tenant
    /\ received \subseteq Event
    /\ pc \in [Worker -> {"idle", "claimed", "turn"} \cup SendResult]
    /\ queue \in [Worker -> SUBSET Event]
    /\ snapshot \in [Worker -> [Event -> 0..MaxAttempts]]
    /\ reachable \in [Worker -> SUBSET Tenant]
    /\ slack \in [Worker -> 0..1]
    /\ aborts \in Nat
    /\ resends \in Nat

Init ==
    /\ stored = {} /\ purged = {} /\ sentAt = {}
    /\ age = [e \in Event |-> 0]
    /\ attempts = [e \in Event |-> 0]
    /\ nextRetryAt = [e \in Event |-> 0]
    /\ claimedUntil = [e \in Event |-> 0]
    /\ configured \in SUBSET Tenant
    /\ received = {}
    /\ pc = [w \in Worker |-> "idle"]
    /\ queue = [w \in Worker |-> {}]
    /\ snapshot = [w \in Worker |-> [e \in Event |-> 0]]
    /\ reachable = [w \in Worker |-> {}]
    /\ slack = [w \in Worker |-> 0]
    /\ aborts = 0 /\ resends = 0

-----------------------------------------------------------------------------
(* Claiming.                                                               *)

\* Mutants of Due: leases ignored, sent rows selected, dead letters selected.
DueThoughLeased == stored \ sentAt
DueThoughSent == {e \in stored : nextRetryAt[e] = 0}
DueThoughDead == {e \in stored \ sentAt : nextRetryAt[e] <= 0}

Due == {e \in stored \ sentAt : nextRetryAt[e] = 0}

(* What ORDER BY "createdAt" LIMIT CLAIM_BATCH_SIZE selects from E. *)
OldestOf(claimed, E) ==
    /\ claimed \subseteq E
    /\ Cardinality(claimed) <= Batch
    /\ Cardinality(claimed) < Batch => claimed = E
    /\ \A c \in claimed, e \in E \ claimed : c < e

(* The row of this turn: the oldest the worker still has. *)
Current(w) == CHOOSE e \in queue[w] : \A d \in queue[w] : e <= d

(* The claim of claimDue, one UPDATE statement: SKIP LOCKED passes over    *)
(* the due rows that some other statement has locked at that moment.       *)
Claim(w, locked) == \E claimed \in SUBSET (Due \ locked) :
    /\ pc[w] = "idle"
    /\ claimed # {}
    /\ OldestOf(claimed, Due \ locked)
    /\ nextRetryAt' = [e \in Event |->
           IF e \in claimed THEN Lease ELSE nextRetryAt[e]]
    /\ claimedUntil' = [e \in Event |->
           IF e \in claimed THEN Lease ELSE claimedUntil[e]]
    /\ pc' = [pc EXCEPT ![w] = "claimed"]
    /\ queue' = [queue EXCEPT ![w] = claimed]
    /\ slack' = [slack EXCEPT ![w] = 1]
    /\ UNCHANGED <<stored, purged, sentAt, age, attempts, configured, received,
                   snapshot, reachable, aborts, resends>>

(* The findMany of claimDue: a second statement, which returns the rows    *)
(* still there, with their tenants, as they are by then.                   *)
Load(w) ==
    /\ pc[w] = "claimed"
    /\ LET found == queue[w] \cap stored
       IN  /\ queue' = [queue EXCEPT ![w] = found]
           /\ pc' = [pc EXCEPT ![w] = IF found = {} THEN "idle" ELSE "turn"]
           /\ snapshot' = [snapshot EXCEPT ![w] =
                  [e \in Event |-> IF e \in found THEN attempts[e] ELSE 0]]
           /\ reachable' = [reachable EXCEPT ![w] = {TenantOf[e] : e \in found} \cap configured]
    /\ UNCHANGED <<rowVars, configured, received, slack, aborts, resends>>

-----------------------------------------------------------------------------
(* One row's turn in the loop of processPendingWebhooks.                   *)

(* update({ where: { id } }) on a row that is gone throws (see Abort).     *)
InHand(w, e) == /\ e = Current(w)
                /\ e \in stored

(* On to the next row; locals that go out of scope take their first value. *)
Advance(w) ==
    LET last == queue[w] = {Current(w)}
    IN  /\ queue' = [queue EXCEPT ![w] = @ \ {Current(w)}]
        /\ pc' = [pc EXCEPT ![w] = IF last THEN "idle" ELSE "turn"]
        /\ snapshot' = [snapshot EXCEPT ![w][Current(w)] = 0]
        /\ reachable' = [reachable EXCEPT ![w] = IF last THEN {} ELSE @]
        /\ slack' = [slack EXCEPT ![w] = IF last THEN 0 ELSE 1]

(* What every update of the loop writes besides its own columns: the       *)
(* lease is released and replaced by the real next state, by row id alone. *)
Reschedule(e, tries, delay) ==
    /\ attempts' = [attempts EXCEPT ![e] = tries]
    /\ nextRetryAt' = [nextRetryAt EXCEPT ![e] = delay]
    /\ claimedUntil' = [claimedUntil EXCEPT ![e] = 0]
    /\ UNCHANGED <<stored, purged, sentAt, age>>

\* Mutant: one attempt too many.
ExhaustedLate(w, e) == snapshot[w][e] > MaxAttempts

Exhausted(w, e) == snapshot[w][e] >= MaxAttempts

DeadLetter(w) == \E e \in queue[w] :
    /\ pc[w] = "turn"
    /\ InHand(w, e)
    /\ Exhausted(w, e)
    /\ Reschedule(e, attempts[e], Dead)
    /\ Advance(w)
    /\ UNCHANGED <<configured, received, aborts, resends>>

\* Mutant: waiting for a configuration is not an attempt.
UnconfiguredForFree(w) == \E e \in queue[w] :
    /\ pc[w] = "turn"
    /\ InHand(w, e)
    /\ ~Exhausted(w, e)
    /\ TenantOf[e] \notin reachable[w]
    /\ Reschedule(e, snapshot[w][e], UnconfiguredDelay)
    /\ Advance(w)
    /\ UNCHANGED <<configured, received, aborts, resends>>

Unconfigured(w) == \E e \in queue[w] :
    /\ pc[w] = "turn"
    /\ InHand(w, e)
    /\ ~Exhausted(w, e)
    /\ TenantOf[e] \notin reachable[w]
    /\ Reschedule(e, snapshot[w][e] + 1, UnconfiguredDelay)
    /\ Advance(w)
    /\ UNCHANGED <<configured, received, aborts, resends>>

(* The POST.  The payload may arrive although its answer is lost, late or  *)
(* an error; a refused target never sees it.                               *)
Send(w, r) == \E e \in queue[w] :
    /\ pc[w] = "turn"
    /\ e = Current(w)
    /\ ~Exhausted(w, e)
    /\ TenantOf[e] \in reachable[w]
    /\ received' \in CASE r = "sent"    -> {received \cup {e}}
                       [] r = "failed"  -> {received, received \cup {e}}
                       [] r = "blocked" -> {received}
    /\ pc' = [pc EXCEPT ![w] = r]
    /\ UNCHANGED <<rowVars, configured, queue, snapshot, reachable, slack, aborts, resends>>

\* Mutant: a refused target counts as delivered.
RecordBlockedAsSent(w) == \E e \in queue[w] :
    /\ pc[w] = "blocked"
    /\ InHand(w, e)
    /\ sentAt' = sentAt \cup {e}
    /\ claimedUntil' = [claimedUntil EXCEPT ![e] = 0]
    /\ UNCHANGED <<stored, purged, age, attempts, nextRetryAt>>
    /\ Advance(w)
    /\ UNCHANGED <<configured, received, aborts, resends>>

RecordBlocked(w) == \E e \in queue[w] :
    /\ pc[w] = "blocked"
    /\ InHand(w, e)
    /\ Reschedule(e, snapshot[w][e] + 1, Dead)
    /\ Advance(w)
    /\ UNCHANGED <<configured, received, aborts, resends>>

RecordFailed(w) == \E e \in queue[w] :
    /\ pc[w] = "failed"
    /\ InHand(w, e)
    /\ Reschedule(e, snapshot[w][e] + 1, Backoff[snapshot[w][e] + 1])
    /\ Advance(w)
    /\ UNCHANGED <<configured, received, aborts, resends>>

RecordSent(w) == \E e \in queue[w] :
    /\ pc[w] = "sent"
    /\ InHand(w, e)
    /\ sentAt' = sentAt \cup {e}
    /\ age' = [age EXCEPT ![e] = Retention]
    /\ claimedUntil' = [claimedUntil EXCEPT ![e] = 0]
    /\ UNCHANGED <<stored, purged, attempts, nextRetryAt>>
    /\ Advance(w)
    /\ UNCHANGED <<configured, received, aborts, resends>>

(* The run ends early: the process dies, a statement fails, or send throws *)
(* (an error other than WebhookUrlError, or in the signature, which is     *)
(* computed outside its try).  Its rows stay claimed until their lease     *)
(* runs out.                                                               *)
Abort(w) ==
    /\ aborts < MaxAborts
    /\ pc[w] # "idle"
    /\ pc' = [pc EXCEPT ![w] = "idle"]
    /\ queue' = [queue EXCEPT ![w] = {}]
    /\ snapshot' = [snapshot EXCEPT ![w] = [e \in Event |-> 0]]
    /\ reachable' = [reachable EXCEPT ![w] = {}]
    /\ slack' = [slack EXCEPT ![w] = 0]
    /\ aborts' = aborts + 1
    /\ UNCHANGED <<rowVars, configured, received, resends>>

Turn(w) == \/ DeadLetter(w)
           \/ Unconfigured(w)
           \/ \E r \in SendResult : Send(w, r)
           \/ RecordBlocked(w)
           \/ RecordFailed(w)
           \/ RecordSent(w)

-----------------------------------------------------------------------------
(* Everyone else.                                                          *)

(* The publisher's insert, seen when its transaction commits: ids are      *)
(* numbered by createdAt, and commits may come in another order.           *)
Publish(e) ==
    /\ e \notin stored \cup purged
    /\ stored' = stored \cup {e}
    /\ UNCHANGED <<purged, sentAt, age, attempts, nextRetryAt, claimedUntil, configured,
                   received, workerVars, aborts, resends>>

\* Mutant: no lease check.
ResendableThoughLeased == stored \ sentAt

(* The rows the updateMany of a resend matches: unsent, and no live lease. *)
Resendable == {e \in stored \ sentAt : claimedUntil[e] = 0}

Reset(E) ==
    /\ E # {}
    /\ resends < MaxResends
    /\ attempts' = [e \in Event |-> IF e \in E THEN 0 ELSE attempts[e]]
    /\ nextRetryAt' = [e \in Event |-> IF e \in E THEN 0 ELSE nextRetryAt[e]]
    /\ resends' = resends + 1
    /\ UNCHANGED <<stored, purged, sentAt, age, claimedUntil, configured, received,
                   workerVars, aborts>>

(* The findOne before the updateMany decides nothing its WHERE does not.   *)
ResendOne(e) == e \in Resendable /\ Reset({e})

ResendAllFailed(t) == Reset({e \in Resendable : TenantOf[e] = t})

\* Mutant: purges by age alone.
PurgeOld(E) ==
    /\ E # {}
    /\ E \subseteq {e \in stored : age[e] = 0}
    /\ stored' = stored \ E
    /\ purged' = purged \cup E
    /\ sentAt' = sentAt \ E
    /\ UNCHANGED <<age, attempts, nextRetryAt, claimedUntil, configured, received,
                   workerVars, aborts, resends>>

(* One statement of purgeDelivered: any of the expired rows, since it has  *)
(* a LIMIT, no ORDER BY, and skips locked rows.                            *)
PurgeDelivered(E) ==
    /\ E # {}
    /\ E \subseteq {e \in stored \cap sentAt : age[e] = 0}
    /\ stored' = stored \ E
    /\ purged' = purged \cup E
    /\ sentAt' = sentAt \ E
    /\ UNCHANGED <<age, attempts, nextRetryAt, claimedUntil, configured, received,
                   workerVars, aborts, resends>>

(* The tenant's URL and secret are set, by its seeding or later in the      *)
(* database, or withdrawn.                                                 *)
Configure(t) ==
    /\ configured' = IF t \in configured THEN configured \ {t} ELSE configured \cup {t}
    /\ UNCHANGED <<rowVars, received, workerVars, aborts, resends>>

Down(n) == IF n > 0 THEN n - 1 ELSE n

Tick ==
    /\ Timely => \A w \in Worker : pc[w] # "idle" => slack[w] > 0
    /\ age' = [e \in Event |-> Down(age[e])]
    /\ nextRetryAt' = [e \in Event |-> Down(nextRetryAt[e])]
    /\ claimedUntil' = [e \in Event |-> Down(claimedUntil[e])]
    /\ slack' = [w \in Worker |-> Down(slack[w])]
    /\ UNCHANGED <<stored, purged, sentAt, attempts, configured, received,
                   pc, queue, snapshot, reachable, aborts, resends>>

Next == \/ \E w \in Worker : \/ \E locked \in SUBSET Due : Claim(w, locked)
                             \/ Load(w)
                             \/ Turn(w)
                             \/ Abort(w)
        \/ \E e \in Event : Publish(e) \/ ResendOne(e)
        \/ \E t \in Tenant : ResendAllFailed(t) \/ Configure(t)
        \/ \E E \in SUBSET Event : PurgeDelivered(E)
        \/ Tick

Spec == Init /\ [][Next]_vars

(* Cron keeps starting runs, a started run goes on, and time passes. *)
Fairness == /\ WF_vars(Tick)
            /\ \A w \in Worker : /\ WF_vars(Claim(w, {}))
                                 /\ WF_vars(Load(w) \/ Turn(w))

FairSpec == Spec /\ Fairness

-----------------------------------------------------------------------------
(* Properties.  Those marked (T) rest on Timely.                           *)

(* (T) No event is in the hands of two runs at once, although runs overlap *)
(* on every replica and aborted ones leave claimed rows behind: what       *)
(* FOR UPDATE SKIP LOCKED, the lease and the resends' lease check are for. *)
Exclusive == \A v, w \in Worker : v # w => queue[v] \cap queue[w] = {}

(* (T) A claimed row stays owed and under a lease that lasts for all the   *)
(* turns its run has ahead of it ("must comfortably exceed a whole batch   *)
(* delivered sequentially").                                               *)
LeaseCoversQueue == \A w \in Worker : \A e \in queue[w] :
    /\ e \in stored \ sentAt
    /\ nextRetryAt[e] = claimedUntil[e]
    /\ claimedUntil[e] >= slack[w] + Cardinality(queue[w])

(* (T) The attempts a run goes by, read once for the whole batch, are      *)
(* those of the row for as long as it holds it.                            *)
SnapshotFresh == \A w \in Worker : pc[w] # "claimed" =>
    \A e \in queue[w] : snapshot[w][e] = attempts[e]

(* Nothing leaves the outbox, or counts as sent, that has not reached its  *)
(* tenant: retention only deletes delivered rows, however late a stalled   *)
(* run writes and whichever runs died before it.                           *)
DeliveredWasReceived == sentAt \cup purged \subseteq received

(* (T) A run only POSTs a row that is still owed: neither recorded as sent *)
(* nor dead-lettered nor purged, whatever happened since it was loaded.    *)
OnlyOwedIsSent == [][\A w \in Worker :
    pc[w] = "turn" /\ pc'[w] \in SendResult =>
        Current(w) \in stored \ sentAt /\ nextRetryAt[Current(w)] # Dead]_vars

(* (T) A dead-lettered row comes back only through a resend ("only a       *)
(* manual resend clears it", webhook.metrics.ts:42).                       *)
OnlyResendRevives == [][\A e \in stored :
    nextRetryAt[e] = Dead /\ nextRetryAt'[e] # Dead => resends' = resends + 1]_vars

(* (T) Retries run out: unless it is cut short, a run is done with a row   *)
(* only when that is sent, dead-lettered or one attempt nearer to          *)
(* MAX_ATTEMPTS, and only a resend gives attempts back, however runs and   *)
(* resends overlap (webhooks.job.ts:153).                                  *)
RetriesRunOut == [][
    /\ \A w \in Worker : \A e \in queue[w] \ queue'[w] :
           \/ aborts' = aborts + 1 \/ e \in sentAt' \/ nextRetryAt'[e] = Dead
           \/ attempts'[e] = attempts[e] + 1
    /\ resends' = resends => \A e \in Event : attempts'[e] >= attempts[e]]_vars

(* The life of each event as its tenant sees it. *)
PhaseOf(e) == CASE e \in purged -> "purged"
                [] e \notin stored \cup purged -> "unpublished"
                [] e \in sentAt -> "delivered"
                [] e \in stored \ sentAt /\ nextRetryAt[e] = Dead -> "abandoned"
                [] OTHER -> "owed"

Delivery == INSTANCE WebhookDelivery WITH phase <- [e \in Event |-> PhaseOf(e)]

(* (T) The outbox implements the promise of WebhookDelivery. *)
ImplementsDelivery == Delivery!Spec

(* (T) No event stays owed for ever: through lost answers, unconfigured    *)
(* tenants and runs cut short, it is delivered or dead-lettered, as long   *)
(* as only finitely many runs are cut short and resends made.              *)
EverySettles == Delivery!EverySettles
=============================================================================
