------------------------------ MODULE Housekeeping ------------------------------
(***************************************************************************)
(* What the replicas do unasked: each seeds the default tenant when it     *)
(* starts (TenantSeedService), and counts the day before every night       *)
(* (AnalyticsJob).  Nothing tells the replicas of each other: they share   *)
(* only the database.                                                      *)
(***************************************************************************)
EXTENDS Naturals, FiniteSets

CONSTANTS
    Replica,
    Tenant,
    Default,            \* the tenant the service seeds
    Counter,            \* articles, comments and likes: what the job counts
    MaxDay,             \* bound: the last day to end
    MaxChanges,         \* bound: changes of what is counted
    MaxFailures         \* bound: processes that end and runs that fail

ASSUME HousekeepingAssumption ==
    /\ Default \in Tenant
    /\ Counter # {}
    /\ MaxDay \in Nat /\ MaxChanges \in Nat /\ MaxFailures \in Nat

VARIABLES
    seeding,            \* SEED_DEFAULT_TENANT
    replica,            \* how far each replica's start has come
    tenants,            \* those in the database
    worded,             \* those that were given the default banned words
    today,
    count,              \* of each tenant and day: what there is to count
    stats,              \* daily_stats
    run,                \* the job's runs: of a replica, for a day
    changes, failures,
    known,              \* the tenants there were when each day ended (ghost)
    manned,             \* the days at whose end a replica was up (ghost)
    troubled,           \* the days a run of which failed (ghost)
    cut                 \* a start ended between the tenant and its words (ghost)

vars == <<seeding, replica, tenants, worded, today, count, stats, run, changes,
          failures, known, manned, troubled, cut>>

atStart == <<seeding, replica, tenants, worded, cut>>
atNight == <<count, stats, run, changes, known, manned, troubled>>

Day == 0..MaxDay
Run == Replica \X Day
Reading == [Counter -> 0..MaxChanges]
NoRow == <<>>
Place(pc, left, at) == [pc |-> pc, left |-> left, at |-> at, got |-> NoRow, moved |-> FALSE]
NoRun == Place("none", {}, Default)

Got == UNION {[cs -> 0..MaxChanges] : cs \in SUBSET Counter}
RunRecord == [pc : {"none", "list", "next", "count", "save"}, left : SUBSET Tenant,
              at : Tenant, got : Got, moved : BOOLEAN]

TypeOK ==
    /\ seeding \in BOOLEAN /\ cut \in BOOLEAN
    /\ replica \in [Replica -> {"down", "find", "create", "words", "up"}]
    /\ tenants \subseteq Tenant /\ worded \subseteq tenants
    /\ today \in 0..MaxDay + 1
    /\ count \in [Tenant \X Day -> Reading]
    /\ stats \in [Tenant \X Day -> Reading \cup {NoRow}]
    /\ run \in [Run -> RunRecord]
    /\ changes \in 0..MaxChanges /\ failures \in 0..MaxFailures
    /\ known \in [Day -> SUBSET Tenant]
    /\ manned \subseteq Day /\ troubled \subseteq Day

(* A deployment has tenants of its own, or none yet. *)
Init ==
    /\ seeding \in BOOLEAN
    /\ replica = [r \in Replica |-> "down"]
    /\ tenants \in SUBSET (Tenant \ {Default})
    /\ worded = {} /\ cut = FALSE
    /\ today = 0
    /\ count = [k \in Tenant \X Day |-> [c \in Counter |-> 0]]
    /\ stats = [k \in Tenant \X Day |-> NoRow]
    /\ run = [k \in Run |-> NoRun]
    /\ changes = 0 /\ failures = 0
    /\ known = [d \in Day |-> {}]
    /\ manned = {} /\ troubled = {}

(* The row of daily_stats, and of what there is to count, a run is at. *)
Row(k) == <<run[k].at, k[2]>>

-----------------------------------------------------------------------------
(* The start of a replica.                                                 *)

(* onModuleInit; a replica serves, and its cron runs, once it is over. *)
Start(r) ==
    /\ replica[r] = "down"
    /\ replica' = [replica EXCEPT ![r] = IF seeding THEN "find" ELSE "up"]
    /\ UNCHANGED <<seeding, tenants, worded, cut, today, failures, atNight>>

FindTenant(r) ==
    /\ replica[r] = "find"
    /\ replica' = [replica EXCEPT ![r] = IF Default \in tenants THEN "up" ELSE "create"]
    /\ UNCHANGED <<seeding, tenants, worded, cut, today, failures, atNight>>

\* Mutant: the words are left to whoever comes next.
CreateTenantOnly(r) ==
    /\ replica[r] = "create"
    /\ IF Default \in tenants
       THEN replica' = [replica EXCEPT ![r] = "down"] /\ UNCHANGED tenants
       ELSE replica' = [replica EXCEPT ![r] = "up"] /\ tenants' = tenants \cup {Default}
    /\ UNCHANGED <<seeding, worded, cut, today, failures, atNight>>

(* A replica that is late (P2002) does not start. *)
CreateTenant(r) ==
    /\ replica[r] = "create"
    /\ IF Default \in tenants
       THEN replica' = [replica EXCEPT ![r] = "down"] /\ UNCHANGED tenants
       ELSE replica' = [replica EXCEPT ![r] = "words"] /\ tenants' = tenants \cup {Default}
    /\ UNCHANGED <<seeding, worded, cut, today, failures, atNight>>

(* seedDefaultBannedWords: one statement that skips duplicates. *)
SeedWords(r) ==
    /\ replica[r] = "words"
    /\ replica' = [replica EXCEPT ![r] = "up"]
    /\ worded' = worded \cup {Default}
    /\ UNCHANGED <<seeding, tenants, cut, today, failures, atNight>>

(* Tenants other than the default one: the development seed upserts one,  *)
(* the others are inserted by hand.                                        *)
AddTenant(t) ==
    /\ t # Default
    /\ tenants' = tenants \cup {t}
    /\ UNCHANGED <<seeding, replica, worded, cut, today, failures, atNight>>

-----------------------------------------------------------------------------
(* The night.                                                              *)

(* Likes and comments come and go, articles are published and taken down,  *)
(* those of a day that has ended too.                                      *)
Change(t, d, c) ==
    /\ t \in tenants /\ changes < MaxChanges
    /\ changes' = changes + 1
    /\ \E n \in 0..MaxChanges \ {count[<<t, d>>][c]} : count' = [count EXCEPT ![<<t, d>>][c] = n]
    /\ run' = [k \in Run |-> IF run[k].pc \in {"count", "save"} /\ Row(k) = <<t, d>>
                             THEN [run[k] EXCEPT !.moved = TRUE] ELSE run[k]]
    /\ UNCHANGED <<atStart, today, failures, stats, known, manned, troubled>>

(* Each replica that is up starts a run, an earlier one's running or not. *)
Midnight ==
    /\ today <= MaxDay
    /\ today' = today + 1
    /\ run' = [k \in Run |-> IF k[2] = today /\ replica[k[1]] = "up"
                             THEN Place("list", {}, Default) ELSE run[k]]
    /\ known' = [known EXCEPT ![today] = tenants]
    /\ manned' = IF \E r \in Replica : replica[r] = "up" THEN manned \cup {today} ELSE manned
    /\ UNCHANGED <<atStart, failures, count, stats, changes, troubled>>

ListTenants(k) ==
    /\ run[k].pc = "list"
    /\ run' = [run EXCEPT ![k] = Place("next", tenants, Default)]
    /\ UNCHANGED <<atStart, today, failures, count, stats, changes, known, manned, troubled>>

(* The next of the tenants listed, in an order the database gives. *)
BeginTenant(k) ==
    /\ run[k].pc = "next"
    /\ \/ /\ run[k].left = {}
          /\ run' = [run EXCEPT ![k] = NoRun]
       \/ \E t \in run[k].left :
             run' = [run EXCEPT ![k] = Place("count", run[k].left, t)]
    /\ UNCHANGED <<atStart, today, failures, count, stats, changes, known, manned, troubled>>

(* The counters are read at once, each by a statement of its own. *)
CountOne(k, c) ==
    /\ run[k].pc = "count" /\ c \notin DOMAIN run[k].got
    /\ LET got == run[k].got  now == DOMAIN got \cup {c} IN
       run' = [run EXCEPT
           ![k].got = [b \in now |-> IF b = c THEN count[Row(k)][c] ELSE got[b]],
           ![k].pc = IF now = Counter THEN "save" ELSE @]
    /\ UNCHANGED <<atStart, today, failures, count, stats, changes, known, manned, troubled>>

Saved(k) ==
    /\ run' = [run EXCEPT ![k] = Place("next", run[k].left \ {run[k].at}, Default)]
    /\ UNCHANGED <<atStart, today, failures, count, changes, known, manned, troubled>>

\* Mutants: the counts are not awaited; a row that is there stays; the job
\* returns when it has saved a row.
SaveUnawaited(k) ==
    /\ run[k].pc \in {"count", "save"}
    /\ stats' = [stats EXCEPT ![Row(k)] = run[k].got]
    /\ Saved(k)

SaveOnce(k) ==
    /\ run[k].pc = "save"
    /\ stats' = [stats EXCEPT ![Row(k)] = IF @ = NoRow THEN run[k].got ELSE @]
    /\ Saved(k)

SaveAndReturn(k) ==
    /\ run[k].pc = "save"
    /\ stats' = [stats EXCEPT ![Row(k)] = run[k].got]
    /\ run' = [run EXCEPT ![k] = NoRun]
    /\ UNCHANGED <<atStart, today, failures, count, changes, known, manned, troubled>>

(* The upsert: of two runs for a day, the later to save prevails. *)
Save(k) ==
    /\ run[k].pc = "save"
    /\ stats' = [stats EXCEPT ![Row(k)] = run[k].got]
    /\ Saved(k)

(* A statement fails: the catch around the loop ends the run. *)
RunFails(k) ==
    /\ run[k].pc # "none" /\ failures < MaxFailures
    /\ failures' = failures + 1
    /\ run' = [run EXCEPT ![k] = NoRun]
    /\ troubled' = troubled \cup {k[2]}
    /\ UNCHANGED <<atStart, today, count, stats, changes, known, manned>>

(* The process ends: it is killed, or its start throws. *)
Die(r) ==
    /\ replica[r] # "down" /\ failures < MaxFailures
    /\ failures' = failures + 1
    /\ replica' = [replica EXCEPT ![r] = "down"]
    /\ cut' = (cut \/ replica[r] = "words")
    /\ run' = [k \in Run |-> IF k[1] = r THEN NoRun ELSE run[k]]
    /\ troubled' = troubled \cup {d \in Day : run[<<r, d>>].pc # "none"}
    /\ UNCHANGED <<seeding, tenants, worded, today, count, stats, changes, known, manned>>

-----------------------------------------------------------------------------
Job(k) == ListTenants(k) \/ BeginTenant(k) \/ (\E c \in Counter : CountOne(k, c)) \/ Save(k)

Next ==
    \/ \E r \in Replica : \/ Start(r) \/ FindTenant(r) \/ CreateTenant(r)
                          \/ SeedWords(r) \/ Die(r)
    \/ \E t \in Tenant : AddTenant(t)
    \/ \E t \in Tenant, d \in Day, c \in Counter : Change(t, d, c)
    \/ Midnight
    \/ \E k \in Run : Job(k) \/ RunFails(k)

Spec == Init /\ [][Next]_vars

(* A run that is under way goes on: nothing in it waits for anyone. *)
Fairness == \A k \in Run : WF_vars(Job(k))

FairSpec == Spec /\ Fairness

-----------------------------------------------------------------------------
(* Properties.                                                             *)

(* "Default banned words seeded for every new tenant"                      *)
(* (banned-words-seed.service.ts:5): the tenant the service creates has    *)
(* them, or is being given them, or never will, because the process that   *)
(* created it ended just then and later starts find the tenant there       *)
(* (tenant-seed.service.ts:42).                                            *)
WordsUnlessCut == Default \in tenants =>
    Default \in worded \/ cut \/ \E r \in Replica : replica[r] = "words"

(* However the runs of the replicas and of the nights overlap, the row a   *)
(* run saves says what there is to count for that tenant, unless that has  *)
(* changed since the run began to count it (analytics.job.ts:33, :54).     *)
SavedIsCounted == [][\A k \in Run : run[k].pc = "save" /\ run'[k].pc = "next" =>
    run[k].moved \/ stats'[<<run[k].at, k[2]>>] = count[Row(k)]]_vars

(* Whichever of a day's runs ends last and wherever the others are: once   *)
(* they have all ended and none has failed, every tenant there was when    *)
(* the day ended has its row (analytics.job.ts:29).                        *)
EndedNightIsCounted == \A d \in manned \ troubled :
    (\A r \in Replica : run[<<r, d>>].pc = "none") => \A t \in known[d] : stats[<<t, d>>] # NoRow

(* If a replica is up when a day ends, every tenant there is gets its row  *)
(* for that day, unless a run for it fails (analytics.job.ts:29): a        *)
(* failure is not made good, and a day that ends with no replica up is     *)
(* never counted.                                                          *)
NightIsCounted == \A d \in Day :
    d \in manned ~> d \in troubled \/ \A t \in known[d] : stats[<<t, d>>] # NoRow
=============================================================================
