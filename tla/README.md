# articuno, verified

articuno is a NestJS service that stores articles, comments, reports and
interactions for several tenants (client sites) in PostgreSQL, moderates them,
and tells each tenant what happened through webhooks. This directory holds
TLA+ models of the parts in which the order of things matters, TLC
configurations that check them on small instances, and TLAPS proofs.

| file | what it is |
|---|---|
| `WebhookDelivery.tla` | the promise of the outbox to a tenant, one event at a time |
| `WebhookOutbox.tla` | the outbox: table, workers, resends, retention, clock |
| `WebhookOutboxProofs.tla` | theorems about it, for every value of the constants |
| `CommentModeration.tla` | comments, their reports, moderators, accounts |
| `CommentModerationProofs.tla` | theorems about it |
| `ArticleLifecycle.tla` | articles, their reports, the lifecycle events |
| `ArticleLifecycleProofs.tla` | theorems about it |
| `Slugs.tla` | free slugs |
| `Catalogue.tla` | articles with translations, slugs, scans and the links of a site |
| `CatalogueProofs.tla` | theorems about it, and that it implements `ArticleLifecycle` |
| `Interactions.tla` | likes and their counter, bookmarks, user rows, account deletion |
| `InteractionsProofs.tla` | theorems about it, for every value of the constants |
| `AdminArticles.tla` | the admin API's article calls: roles, cover images |
| `AdminArticlesProofs.tla` | theorems about it, for every value of the constants |
| `BackOffice.tla` | every endpoint of both APIs that changes a row, and the audit trail |
| `BackOfficeProofs.tla` | theorems about it and about free slugs |
| `Housekeeping.tla` | what replicas do unasked: seeding at start, the nightly count |
| `HousekeepingProofs.tla` | theorems about it |
| `MC*.tla`, `*.cfg` | instances for TLC, one `.cfg` per run of `PROJECT.json` |

Run one with `tlc -config OutboxSafety.cfg MCWebhookOutbox`, and the proofs of a
module with `tlapm`, for instance `tlapm WebhookOutboxProofs.tla`; the eight
modules with proofs are those named `*Proofs.tla`.

## 1. Inventory

Paths are relative to `src/src/modules/` unless they start with `docs/`.

**Webhook outbox** (`webhook/webhooks.job.ts`, `webhooks.service.ts`).
*State:* a `webhook_events` row per event: `attempts`, `nextRetryAt`,
`claimedUntil`, `sentAt`; per run, the claimed rows it read. *Operations:*
`processPendingWebhooks` (claim a batch with `FOR UPDATE SKIP LOCKED` and a
lease, POST each row, record the outcome), `resend`, `resendAllFailed`,
`purgeDelivered`. *Hard:* cron starts a run every 30 s on every replica, so
runs overlap; a run may die or stall anywhere; answers get lost; a resend or
retention may touch a row a run holds. *Correct when:* no two runs hold a row,
nothing undelivered is dropped, only owed events are POSTed, dead letters stay
dead until resent, every event is eventually delivered or dead-lettered.

**Webhook event publisher** (`moderation/webhook-event-publisher.service.ts`).
Inserts the row, in the caller's transaction or in none; decides
`firstPublication` by a conditional update of `publishedAt`. *Hard:* which
status the event is derived from, and whether it commits with the change.
*Correct when:* the tenant's picture follows the database.

**Moderation policy** (`moderation/moderation-policy.service.ts`). Pure: the
transition table, the creation policy, the thresholds. Its answers are about
values read earlier, by its callers.

**Comments** (`comments/comments.service.ts`). *State:* `status`,
`reportCount`. *Operations:* create, update (a moderator's status, or an
author's text), remove, system report. *Hard:* policy and status are read
outside the transaction; webhooks are inserted after it.

**Reports** (`reports/reports.service.ts`). *State:* `status`, and a partial
unique index over open reports. *Operations:* create (counter, threshold),
updateStatus (dismissals restore, resolutions ban). *Hard:* everything
updateStatus decides by is read without a lock. *Correct when:* one open report
per reporter and target; the threshold hides exactly when reached; a hidden
comment always has a decision ahead of it; a ban is final.

**Articles** (`articles/articles.service.ts`) and **article translations**
(`article-translations/article-translations.service.ts`). *State:* `status`,
`publishedAt`, slug, tags, translations. *Operations:* create, update, remove,
the banned-word scan of a translation. *Hard:* as for comments, with a
lifecycle event on every entry into and exit from PUBLISHED.

**Users** (`users/users.service.ts`). `updateStatus`, `upsert`, `deleteUser`
(one transaction over likes, comments, reports, counters). *Hard:* it subtracts
counts read without a lock from counters others change.

**Interactions and bookmarks** (`interactions/`, `bookmarks/`). `toggleLike`,
`likesCount`, bookmarks, views; `prisma.ensureUser`. *Hard:* double clicks,
and account deletion against both. *Correct when:* `likesCount` counts rows.

**Admin API** (`admin/`) and **FileHarbor** (`fileharbor/`, client of an
external image store). Authorises against a status read before the call,
uploads the cover image and deletes the old one, then calls the services. *Hard:*
an upload takes seconds, in which others change the article; the store is in no
transaction. *Correct when:* an author never overrules a moderator; an image that
is deleted is nobody's cover for longer than the call takes.

**Slugs** (`utils/slugify.ts`). Pure: the first free number behind a title.
*Hard:* the slugs it is given are read first and inserted into later, under a
unique index per tenant. *Correct when:* a creation is refused for its slug only
if another took it in between.

**Categories and tags** (`categories/`, `tags/`) and **banned words**
(`banned-words/`). *State:* rows with a unique slug or word. *Operations:*
create, update, remove. *Hard:* the same read and insert.

**Audit log** (`audits/audit-logger.service.ts`, and every controller
that calls it). *State:* entries. *Hard:* the handler reads the row before the
service does, writes the entry after the change, in no transaction, and a
failing insert is swallowed. *Correct when:* the trail tells what the rows are.

**Tenants** (`tenants/tenant-seed.service.ts`). *State:* the tenants. The
default one is created, and given banned words, when a replica starts. *Hard:*
several start at once, and one may end between the two inserts.

**Analytics** (`analytics/analytics.job.ts`). *State:* `daily_stats`, a row per
tenant and day. *Operations:* a nightly run on every replica. *Hard:* runs
overlap, fail midway, and count what changes. *Correct when:* each tenant's day
is counted, and says what there was.

**Authentication**, **health**, **configuration**, **HTML sanitising**,
**reading time**: lookups, start-up, pure functions.

How they interact. Requests call a service directly or through the admin API.
Comments, reports and articles ask the moderation policy, write their rows in a
Prisma interactive transaction at READ COMMITTED, and have the publisher insert
webhook rows, with or without the transaction. The outbox job drains those rows.
Reports write comments and articles; account deletion writes comments and
reports. The controllers log what their services did. There is no message
passing inside the service: everything meets in PostgreSQL rows, so the models
interleave handlers at their SQL statements.

`PROJECT.json` lists every component with its status and every hazard at the
line where it bites.

## 2. The outbox

`WebhookDelivery` is the abstract specification: an event is *unpublished*,
*owed*, *delivered*, *abandoned* or *purged*; it may reach its tenant any number
of times while owed (delivery is at least once), becomes *delivered* only after
it did, returns from *abandoned* only by a resend, and is *purged* only once
delivered.

`WebhookOutbox` is the code. A run `w` of the job is `pc[w]`, the rows it holds
`queue[w]`, and what it read with them: `snapshot[w]` (`attempts`) and
`reachable[w]` (tenants with URL and secret).

| action | code |
|---|---|
| `Claim` | the `UPDATE ... FOR UPDATE SKIP LOCKED LIMIT` of `claimDue`; `locked` are the rows some other statement has locked at that instant |
| `Load` | the `findMany` of `claimDue`, a second statement |
| `DeadLetter`, `Unconfigured` | the two early `continue`s of the loop |
| `Send` | `WebhooksService.send`: delivered, failed or refused, where a payload whose POST failed may have arrived all the same |
| `RecordSent`, `RecordFailed`, `RecordBlocked` | the update by id after it |
| `Abort` | the run ends early: process death, a failing statement, an exception |
| `ResendOne`, `ResendAllFailed`, `PurgeDelivered`, `Configure`, `Publish` | the other writers |
| `Tick` | time |

Time. Instants are kept as the time left until them. The unit is the longest
turn one row may take (the HTTP timeout plus its updates), so the
five-minute lease is `Lease` units and a batch takes at most `Batch`. `slack`
makes a turn end within its unit if `Timely`; with `Timely = FALSE` a run may
stall for ever. `LeaseAssumption == Lease > Batch` is the margin the comment on
`CLAIM_LEASE_MINUTES` asks for: 20 rows of 5 s each against 5 minutes.

The abstract phase of an event is computed from its row (`PhaseOf`), and
`ImplementsDelivery` states the refinement. A claim, a load, a failed attempt or
a tick is a stutter; a POST that arrives is `Reach`; `RecordBlocked` and
`DeadLetter` are `Abandon`.

Fairness (`FairSpec`): time passes, cron starts runs whenever something is due
and not locked, and a started run goes on. This is what `@Cron` on a live
process gives. There is none on `Publish`, resends, configuration or retention, and
`EverySettles` needs no strong fairness: a resend is bounded by `MaxResends`,
runs cut short by `MaxAborts`. An unbounded number of either really does keep an
event owed for ever.

## 3. Comments and reports

`CommentModeration` has one step per unlocked read. `reports.create` increments
the counter first, which holds the comment's row until commit: one step
(`FileReport`). `reports.updateStatus` locks the report, then reads the
comment and counts the open reports without a lock: `BeginReview`,
`ReadComment`, `CountOpen` (dismissals only), `CommitReview`. `comments.create`
reads the account twice (`CheckUser`, `ApplyPolicy`), commits, and inserts its
event afterwards (`EmitCreated`); an edit likewise. `users.deleteUser` counts
the reporter's open reports and subtracts them later. `Crash` ends a handler:
what its transaction did is rolled back and what comes after does not
happen. `told` is the status a tenant that follows the events believes.
The partial unique index is `IndexAdmits`, which also waits for an uncommitted
reopening. When two transactions deadlock, PostgreSQL aborts one; that is a
handler that fails without effect, which leaves the model's state as if it
had not begun.

Not in it: replies, the check that the article is published, listings, and
banned-word matching, whose answer is either.

## 4. Articles

`ArticleLifecycle` follows one status through `articles.update`
(`ReadForUpdate`, `CommitUpdate`), the scan that hides an article after a
translation with a banned word was saved (`ReadForHide`, `CommitHide`),
`reports.create` (`LockArticle` is the `SELECT ... FOR UPDATE`,
`CountReports`, `CommitReport`; an administrator may file a report in any of
`FiledAs`, and only an open one counts itself), and dismissals (`BeginReview` to
`CommitReview`). Writers wait for the lock (`Locked`). `LifecycleEvent` is
`publishArticleLifecycleEvent`; `online` is the set of articles a tenant shows
that goes by `article.published`, `.unpublished` and `.deleted`; `firsts`
counts events that claim a first publication. A call may end anywhere (`Crash`),
also because it is refused.

## 5. Likes, bookmarks and accounts

`Interactions` follows a `click`, one call of `toggleLikeArticle` or of
`bookmarks.toggle`: `FindArticle` (published, or not found), `ensureUser`
(`SelectUser`, `InsertUser` or `InsertConflict` and `RereadUser`), then the row.
A like's transaction deletes first: `DeleteLike` either finds the row, which it
then holds until `CommitUnlike` (`Held`: whoever wants to delete the row or
insert its key waits), or finds none and goes on to `CommitLike`, which after
losing a race is `LikeConflict`. The counter's update and the insert are one step
with the commit, because from the update on the transaction holds the article's
row. A bookmark's delete and create commit separately. `ToggleFails` is a
rollback for any reason, deadlock included.

`users.deleteUser` is `FindUser`, `FindLikes` (the list, read without a lock) and
`CommitDeletion` (the rows, the counters of the listed articles, the account with
everything that cascades). A user row is told from its successor by its number
(`userId`), so a click may work for an account that has gone, or gone and come
back. `SetStatus` and `RemoveArticle` are the articles service, reduced to what
is visible here; `countView` is one atomic increment and left out.

`Drift(a)` is the distance of `likesCount` from the rows. `LikesAreCounted`
(always 0) is what the comment on `deleteUser` wants, and holds while no account
is deleted (section 8); `DriftOnlyByStaleDeletion` says that nothing else ever
moves it.

## 6. Articles in the admin API

`AdminArticles` follows a `call` of one caller: POST and PATCH of
`/admin/articles`, DELETE there, and DELETE in the public API. What the
controller and the service read, they read separately: the status for the role
check (`AskUpdate`; `from` remembers it), the cover to replace
(`ReadExisting`), the status once more for the transition (`ReadForUpdate`), and
`CommitUpdate` writes by id. `RoleOf` is the session's role; the model's
"MODERATOR" stands for every role in `MODERATION_ROLES`.

Images are numbers, in the order of their uploads. `stored` are those FileHarbor
serves; a deletion may fail, which is logged and ignored (`Deletes`). An upload
whose answer is lost is an image no row or call names, and not followed further.
Two variables record history and are read by no action: `lent`, the images that a client
has made a cover by naming their URL (the code admits any of the tenant's own,
`assertOwnCoverImage`), and `abandoned`, images a call had deleted before it
failed. `CallFails` is every early end after the first read.

`DeadCoversAreAccountedFor` says when a cover may be an image that is no longer
served. `AuthorsDoNotModerate` is what the controller's comment promises, and
`AuthorsModerateOnlyBlindly` how much of it holds. The reports and the
translation scan, which also write the status, are in `ArticleLifecycle`; here a
moderator's call stands for them.

## 7. Articles, translations and slugs

`Slugs` has slugs as sequences of numbers: `<<1>>` is `titolo`, `<<1, 2>>` is
`titolo-2`, which is also what the title "Titolo 2" gives. `NextFreeSlug` is
`nextFreeSlug`, `StartingWith` the filter of the queries before it, `ChosenSlugs`
the loop of `articles.create` in which each choice is taken for the next.

`Catalogue` follows a `call` through `articles.create` and
`article-translations.create` (`ReadTaken`, then `InsertArticle` or
`InsertTranslation`, or `Conflict`: P2002), `.update` (`StartUpdate` looks the
row up, `Write` goes by its id), `.remove`, the scan that hides the article after
the translation was committed (`ReadForHide`, `CommitHide`), and an article's
status update and deletion (`ReadSummary` before `CommitDelete`). A text is
reduced to the bit whether it has a banned word. `online` and `links` are what a
site shows that believes the last event it was sent: which articles, and each
under which slugs. `excused` (history, read by no action) names the articles in
which a banned word may stay published: a scan died, or an administrator
published after it.

The module is the composition of the translations with the articles' status
life: `ImplementsLifecycle` maps it to `ArticleLifecycle` without reports. A scan
there comes at any time; here it comes when a text is flagged. Creations,
conflicts and edits are stutters, a refused call is a crash.

## 8. The back office

`BackOffice` has every endpoint of the admin and the public API that changes a
row of its own: comments, reports, articles, translations, accounts, tags,
categories, banned words. A request enters with what its handler reads and
whether it writes an entry (`Enter`, one operator per endpoint), the service
checks (`ChooseTagSlug` to `FindNothing`), writes (`InsertNamed` to `HideArticle`,
all but the last through `Settle`), and the handler logs (`Log`) or the entry is lost
(`LogIsLost`). A row is one status, or its presence, and its slug. `told` is what
the trail says the row is: the last entry that tells a status or a deletion, or
`None` after a change no entry tells and after entries that crossed, until a later
entry tells again. Two more marks are history: a call is `early` if another changed
its row after the handler had read it and before the service wrote, `late` if after.
`Tells` says which entries tell anything of a row's status: not those of a
translation, nor REPORT_CREATED, whose summary names the target and the reason only.

A request changes more rows than its own, and no entry is about those. A new report
may take its target down (`TakenDown`), a comment that the scan hides is reported by
the system (`SystemReported`), a dismissal restores its target and a resolution bans
a comment (`CheckReport` reads the target, `SetReport` writes the `Verdict` by its id,
over what it may have become), an article takes its comments with it and an account
its reports (`RemoveArticle`, `RemoveUser`). Which rows hang together is open:
a report may be about any article or comment, and a deletion cascades to any set of
rows of the kind it cascades to. So is whether a report reaches the threshold and
whether a dismissal is the last one: the exact conditions are in `CommentModeration` and
`ArticleLifecycle`, whatever they are what is said here holds. The scan is one step
(`Catalogue` has its two). `Mixes` fixes what the rows are.

## 9. Start and night

`Housekeeping` starts replicas and ends days. At start a replica looks for the
default tenant, creates it, and gives it its words (`FindTenant`,
`CreateTenant`, `SeedWords`); the one that is late at the unique slug ends. At
`Midnight` cron starts a run on every replica that is up. A run lists the tenants
(`ListTenants`), and for each reads the counters one by one (`CountOne`) and
upserts the row (`Save`). `RunFails` is the `catch` around its loop, `Die` the end of
a process. What is counted may change at any time, for a day that is over too.
`known`, `manned`, `troubled`, `moved` and `cut` are history: the tenants of a
midnight, the nights with a replica up, those with a failed run, a run whose
count was overtaken, a start that ended between tenant and words.

`FairSpec` has weak fairness on a run's own steps (`Job(k)`) and on nothing else.
A run waits for nobody: each of its statements is a read or an upsert by key, and
the process that executes it is up. Replicas need never start and days need
never end.

## 10. Runs

| run | instance | shows |
|---|---|---|
| OutboxSafety | 2 events, 2 runs, batch 2, lease 3, 2 attempts, 1 abort, 1 resend | all safety properties, and the refinement |
| OutboxLiveness | 2 tenants, batch 1, lease 2 | `EverySettles`: an old event of one tenant does not starve another's |
| CommentSerial | 1 comment, 4 reports by 2 users and the system, threshold 2, 1 moderator, 1 crash | hidden comments await review, visible ones are below the threshold, takedowns are told unless a handler dies, bans are final |
| CommentRaces | a moderator, an edit, an account deletion, a changing author | the counter never goes negative; a status leaves the policy's table only by a handler that had read another one |
| CommentStuckHidden | 2 moderators | *violated*: two dismissals leave a comment hidden with no open report |
| ArticleRaces | 2 calls, 2 reports, 1 moderator, threshold 2 | one first publication; the threshold is never missed; site and status part, and a status leaves the policy's table, only through a stale call or review |
| LikesRaces | 1 article, 2 users, 2 clicks, 2 deletions, 2 accounts ever | `likesCount` parts from the rows only through a stale deletion; an answer is the state of the row |
| AdminRaces | 1 article, an author's and a moderator's call, 2 uploads | a dead cover is being replaced, abandoned or lent; an author overrules only blindly |
| AdminOverruled | the same, no uploads | *violated*: an author publishes what a moderator has just hidden |
| CatalogueRaces | 1 article, 3 languages, 2 requests, 2 rows, titles that all give one slug | banned words are online only behind a scan or an excuse; links stay alive; slugs collide only by overlap; the refinement |
| BackOfficeTrail | 2 rows of 7 pairs of kinds, 2 requests | the trail tells the row unless something was unlogged or crossed; entries are right and refusals deserved unless overtaken |
| Housekeeping | 2 replicas, 2 tenants, 2 counters, 1 day, 2 changes, 1 failure | the default tenant has its words; saved rows are counts; `NightIsCounted` |

A violated run states what the repository says of itself; `findings` in
`PROJECT.json` quotes the line. The passing runs beside them say exactly how far the
promise does hold: `HiddenAwaitsReview` with one moderator at a time in
`CommentSerial`, `AuthorsModerateOnlyBlindly` next to `AuthorsDoNotModerate`.

Why the bounds are enough. Two runs and two events are what an overlap,
a partial batch and a batch that outlasts a lease take; the theorems below say
the same for any number. Two attempts have a first failure, a last one and a row
past its limit. One abort, one resend and one crash are counted to keep the
state finite and suffice for every single fault; the safety theorems have
no such bound on what they say (the bounds are constants, of any size). A
moderator with an edit, a deletion and a changing author are the pairs of
overlapping handlers on one comment, and a comment's or article's state depends on
no other's, so one is enough. A threshold of 1 or 2 has a report below, at and
beyond it; `COMMENT_REPORT_THRESHOLD` and `ARTICLE_REPORT_THRESHOLD` are larger and
only compared. `CommentSerial` has no edits, shadow bans or deletions
(`Editor`, `Leaver` empty, `AuthorStatus = {"ACTIVE"}`) because those hide
without a report or remove reports, which the properties there are not about;
`CommentRaces` has them. `ArticleRaces` restricts decisions to RESOLVED and
DISMISSED, since reopening a report applies no threshold; reports are filed as
PENDING, which counts, or RESOLVED, which does not, as REVIEWED and DISMISSED do.

In `LikesRaces` two clicks by
one user, by two users, and against two deletions are every pair of overlapping
calls; with two accounts ever (`MaxAccounts`), one user may be deleted and
come back, or both exist. Clicks and deletions are interchangeable, hence the
symmetry; no liveness is checked there.

`AdminRaces` asks for PUBLISHED and HIDDEN, one status from each side of the
role check; an image, its replacement and a second caller that reads either take
two uploads. That an image deleted early is never *another* article's needs
two articles, which is what the theorem is for.

In `CatalogueRaces` all titles give one slug and administrators rename to the very slug
the next creation would take, so every choice is contested. Three languages let
an article have two translations when a third is created; two rows ever
(`MaxRows`) are an article created with two translations, one and one added by
another request, or one removed and created again (which is why rows have
numbers). DRAFT and PUBLISHED are what administrators ask for; HIDDEN comes
from scans. The symmetry is over articles, languages and requests, which nothing
tells apart; the temporal properties there are action properties and a
refinement without fairness.

`BackOfficeTrail` takes rows of kinds that meet: a report with its comment, its
article or its reporter, a comment with its article, two tags, two categories or two
words that want one slug. Two requests are an overlap; three would add crossed
entries of the kind two have already. `InUse` are the statuses administrators ask
for: of reports the two that decide (DISMISSED, RESOLVED), with PENDING at every
filing. DRAFT, UNDER_REVIEW, REVIEWED, SHADOW_BANNED and PENDING as a decision are
left out for time; the first two still arise from creations and reports.
The run with all twelve passes too, over 11 million states in five and a half minutes.

`Housekeeping` has one night: nights share only rows of different days and the
process, and `MaxDay` of 0 still has the runs of two replicas for the same day.
Two changes are one that a count misses and one it sees half; with one failure a
start or a run ends anywhere.

`CHECK_DEADLOCK FALSE` is in every run but the outbox's: once every comment or
article is deleted, every report decided or the last bounded day over, nothing
need happen. The outbox never stops, and there deadlock is checked.

Other disagreements met while modelling, which have no run of their own. Three are
properties that the modules define; TLC finds them violated by the configuration
named:

- a run that outlived its lease revives a dead letter, where
  `webhook/webhook.metrics.ts:42` has "only a manual resend clears it": its update
  (`webhooks.job.ts:161`) goes by id. `OnlyResendRevives`, `OutboxSafety.cfg` with
  `Timely = FALSE` and `MaxAttempts = 1`;
- a dismissal that read the comment before a ban overwrites the ban
  (`reports.service.ts:491`), where `moderation-policy.service.ts:18` has BANNED
  terminal. `BannedIsTerminal`, `CommentStuckHidden.cfg`;
- an update overtaken by another takes an article down without
  `article.unpublished` (`articles.service.ts:541`), where
  `docs/article-moderation.md:81` has one for every exit. `SiteAgrees`,
  `ArticleRaces.cfg`.

The others were read in the code:

- `comments.create` inserts the event of an auto-hidden comment after its commit,
  with no transaction: a crash in between loses it (`HidingIsTold` without its
  proviso), where the publisher's comment
  (`webhook-event-publisher.service.ts:20-22`) wants it in the transaction;
- a like taken back between a deletion's list and its commit is subtracted twice
  (`LikesAreCounted` fails with one click and one deletion), where
  `users.service.ts:196-198` says that the counters are decremented with the rows;
- the late event of a comment's creation can follow that of its restoration, and a
  moderator's explicit status change emits none, so the last event is not
  always the current status (`comments.service.ts:394`);
- `deleteUser` assumes that `reportCount` includes every open report
  (`users.service.ts:233`), which a report reopened after a dismissal is not;
- a user banned between the two reads of `comments.create` gets a VISIBLE
  comment (B8 of `docs/BACKLOG.md`);
- `updateStatus` strands an article UNDER_REVIEW the way it strands a comment
  HIDDEN (`reports.service.ts:430`), and the translation scan takes an article
  out of BANNED the way a dismissal does a comment;
- a slug that changes, or a translation that is removed or added, while its
  article is published is told to no site: the events carry slugs
  (`webhook-event-publisher.service.ts:203`), but only a status change sends
  them. This is the `Renamed` of `LinksStayAlive`;
- `admin/README.md:116` wants "`AuditLog` su ogni operazione che cambia stato"; what
  a report, a dismissal or a resolution makes of its target, the system's report, what
  a deletion cascades to, a scan that hides an article, a resent webhook and the public
  API's article, tag, category and account calls have none, the entry of a new report
  does not say the status an administrator gave it, and an entry that cannot be
  written is dropped. These are the rows of which `told` is `None`;
- an administrator's edit of a comment that a banned word hides is logged as
  COMMENT_UPDATED (`admin-comments.controller.ts:137` compares with the status
  asked for), the author's as COMMENT_STATUS_CHANGED
  (`comments.controller.ts:125`);
- a public edit that overlaps a moderator's status change logs that change as the
  author's (`comments.controller.ts:124`), the `early` of `EntryIsRight`;
- banned words are "seeded for every new tenant" (`banned-words-seed.service.ts:5`),
  but not for tenants inserted by hand, nor for a default tenant whose creator
  ended before it came to them: later starts find the tenant and skip both
  (`tenant-seed.service.ts:42`), the `cut` of `WordsUnlessCut`;
- a night whose run failed, or at whose end no replica was up, is never counted.

## 11. What is proved

In `WebhookOutboxProofs.tla`, for any sets of events, runs and tenants, any
batch, lease, attempts, backoff and bounds that satisfy `OutboxAssumption`:

| theorem | statement |
|---|---|
| `TypeCorrect` | `Spec => []TypeOK` |
| `NothingIsLost` | `Spec => []DeliveredWasReceived` |
| `RunsAreExclusive` | `[]Exclusive`, if `Timely` |
| `LeasesOutlastQueues`, `SnapshotsStayFresh` | `[]LeaseCoversQueue`, `[]SnapshotFresh`, if `Timely` |
| `SendsAreOwed`, `DeadLettersStay` | `OnlyOwedIsSent`, `OnlyResendRevives`, if `Timely` |
| `RetriesAreBounded` | `RetriesRunOut`, if `Timely` |
| `OutboxImplementsDelivery` | `Spec => ImplementsDelivery`, if `Timely` |

The argument has two layers. `BasicInv` needs nothing of time: the types, that a
run whose POST was answered delivered it (`AnsweredWasReceived`), that a row in
that place still had attempts left when it was read (why `Backoff` is always applied inside
its domain and `attempts` never passes its maximum), that an idle run holds
nothing, and `DeliveredWasReceived`. It is inductive, so it holds of stalled and
dying runs alike. `OwnershipInv` is `Exclusive`, `LeaseCoversQueue` and
`SnapshotFresh` together, and is inductive only as a whole. Two runs do not
share a row because a held row is not due; it is not due because its lease
covers the turns ahead of it, one unit each; the lease keeps covering
them because only the holder writes the row, which is exclusiveness again,
and because a resend passes over leased rows. `LeaseAssumption` enters in
one place, `Claim`: a fresh lease exceeds the batch. The refinement adds
`RowsInv` (a purged row is not stored; a row with no row in the table has never been
written), and maps each action to a step of `WebhookDelivery` or a stutter.
`RetriesAreBounded` is the part of `EverySettles` that needs no fairness: a turn
that is not cut short ends the row or spends one of its attempts, and of all other
steps only a resend gives attempts back, so that a row has at most `MaxAttempts`
turns. It needs `SnapshotFresh`: a run writes back what it read plus one, which is
one more than what the row has only if nobody wrote it meanwhile.

In `InteractionsProofs.tla`, for any articles, clicks and deletions, any finite
set of users and any bound on accounts:

| theorem | statement |
|---|---|
| `Invariance`, `TypeCorrect` | `Spec => []IInv`, which contains `TypeOK` |
| `AnswersAreTheRows` | `Spec => AnswerIsTheRow` |
| `OnlyStaleDeletionsDrift` | `Spec => DriftOnlyByStaleDeletion` |
| `LikesAreCountedWithoutDeletions` | `Spec => []LikesAreCounted`, if `Deletion = {}` |

`DriftOnlyByStaleDeletion` is about one step, but two of the steps need a fact
about the state they start in. `CommitUnlike` subtracts one without looking:
that the row is still there is `HeldIsThere`, which is kept up by every other
writer of likes waiting for the row (`HeldAlone`: no two clicks hold it). And
`CommitDeletion` removes exactly one row of an article it listed correctly,
because `(articleId, userId)` is a key. The counting is `Cardinality` of
finite sets with one element more or less, hence the assumption that `User` is
finite.

In `AdminArticlesProofs.tla`, for any articles, callers, roles and uploads:

| theorem | statement |
|---|---|
| `TypeCorrect` | `Spec => []TypeOK` |
| `DeadCovers` | `Spec => []DeadCoversAreAccountedFor` |
| `OnlyBlindly` | `Spec => AuthorsModerateOnlyBlindly` |

`DeadCovers` rests on a notion of whose an image is. A call's uploaded image is
its own until a client names it (`FreshIsOwn`: no article, call or old image is
the same), so its commit gives the article a cover that is served and nobody
else's (`CoversApart`). A call's old image belongs to no article but the call's
(`OldIsOwn`), so a deletion can only kill the cover of the article the call is
about to change or remove. `CommitKept` is that argument for the two commits,
`OwnKept` and `AccountKept` for every other step. `OnlyBlindly` needs that a
call's requested status and the status it was checked against change only
together (`Permitted`).

In `CommentModerationProofs.tla`, for any comments, reports, reporters, moderators,
threshold and number of crashes:

| theorem | statement |
|---|---|
| `TypeCorrect` | `Spec => []TypeOK` |
| `OneOpen` | `Spec => []OneOpenPerReporter` |
| `OnlyStaleTransitionsAreIllegal` | `Spec => TransitionsAreLegal` |
| `ThresholdHolds` | `Spec => []VisibleIsBelowThreshold`, if `Editor = {}` |
| `HiddenAwaits` | `Spec => []HiddenAwaitsReview`, if `OneAtATime` |
| `BanIsFinal` | `Spec => BannedIsTerminal`, if `OneAtATime` |
| `HidingTold` | `Spec => []HidingIsToldUnlessCrash`, if no edits and only active authors |

`Inv` says what an unfinished handler may rely on: an unwritten draft's comment
does not exist (`DraftsFit`), a filed report has its comment (`ReportsFit`), an
edit's change was legal when it was read (`EditsFit`), a review has its report
and, when it reopens one, the key of the partial index to itself (`ReviewsFit`). The last is why
`OneOpenPerReporter` is inductive: PostgreSQL lets no second report in while a
reopening is uncommitted. `TypeOK` needs `FinitelyMany`, for a counter that is
decremented by the size of a set. `ThresholdHolds` adds that a comment nobody has
written has no count (`CountedRight`).

`OneAtATime` is one moderator, no edits, deletions or changes of account, and
reports filed as they are: the condition of `CommentSerial`, and `CommentStuckHidden`
shows that it cannot be dropped. `OnlyStaleTransitionsAreIllegal` has no such
condition: an edit was checked against the status it read (`EditsFit`), a decision
restores or bans by the one it read, so if that is still the comment's the step is
one of the table's; the threshold, which writes with no check, hides only what
is VISIBLE. Under `OneAtATime` `SerialInv` relates what the review read
to what is there when it writes: a comment hidden since has another open report,
and one it saw hidden has not been banned since (`ReviewsSee`).

In `ArticleLifecycleProofs.tla`, for any articles, reports, callers, moderators:

| theorem | statement |
|---|---|
| `TypeCorrect` | `Spec => []TypeOK` |
| `FirstPublicationIsOne` | `Spec => []OneFirstPublication` |
| `SiteLostOnlyByStaleCalls` | `Spec => AgreesUnlessStale` |
| `OnlyStaleTransitionsAreIllegal` | `Spec => TransitionsAreLegal` |
| `ThresholdHolds` | `Spec => ThresholdIsApplied`, if moderators reopen no report |

The invariant: a call that read PUBLISHED finds the date set when it commits
(`CallsFit`), so its exit is announced; whoever has an article's lock is alone,
and the status it read is the row's until it commits (`LocksFit`). The second is
`SELECT ... FOR UPDATE`, and the threshold is applied because of it: nobody
commits another report on the article between a count and its commit. For the
table `CallsFit` has that a call's change was legal from the status it read, and
`ReviewsFit` that a review which read no article is past reading one, and restores
none.

In `BackOfficeProofs.tla`, for any rows, requests and slugs
(finitely many rows, any mix of kinds):

| theorem | statement |
|---|---|
| `NextFreeSlugIsFree` | `NextFreeSlug(base, taken) \notin taken`, and it is a slug |
| `PrefixFilterHidesNothing` | the same against all slugs, of those that start with the base |
| `TypeCorrect` | `Spec => []TypeOK` |
| `TrailTells` | `Spec => []TrailTellsTheRow` |
| `EntriesAreRight` | `Spec => []EntryIsRight` |
| `RefusalsMeanOverlap` | `Spec => []RefusalMeansOverlap` |

That a number is free is a count: among `Cardinality(taken) + 1` candidates one is
not taken. `Inv` adds to the properties what each request has read and
whether it is still so (`CallsFit`), and that the slugs in use are finitely many
and the present rows' own (`Slugged`). `RefusalsMeanOverlap` is where the slug
theorems come in. For the trail it adds that a request decides on a target only if
that is an article or a comment (`Targets`): a decision never touches the row of its own
entry, so an entry that tells its row tells it right.

In `CatalogueProofs.tla`, for any articles, languages, titles, requests and number of
rows:

| theorem | statement |
|---|---|
| `FlaggedStaysHidden` | `Spec => []FlaggedIsHidden` |
| `CatalogueImplementsLifecycle` | `Spec => ImplementsLifecycle` |
| `LifecycleHolds` | `ArticleLifecycle`'s `AgreesUnlessStale` and `TransitionsAreLegal`, of the mapped variables |
| `SiteAndStatusStayRight` | the same of `Catalogue`'s own `online` and `status`, if `Absent` is no article |
| `LinksStay` | `Spec => LinksStayAlive` |
| `ChosenSlugsAreFree` | `ChosenSlugs(bases, taken)` are slugs of the bases, none taken, no two the same |
| `TypeCorrect` | `Spec => []TypeOK` |
| `ConflictsMeanOverlap` | `Spec => []ConflictMeansOverlap` |

`Inv` is what each request may rely on (`CallsFit`: the article of a creation is still
absent, that of any other request has been created, and one whose status was read as
PUBLISHED has its date), that one request creates an article (`CreatedOnce`), that a
translation has its article (`RowsHaveArticles`, the cascade) and a published article
its date. The date is why a takedown's event is not left out, so that the links it
lists are purged. For the refinement, `PublishedAt`, `Firsts` and `Holdings` give
`ArticleLifecycle`'s variables; creating, reading a status, committing it and
deleting are its steps, a crash of a request that holds no status is none, and the
proof has a lemma for each. Nothing in it depends on which slugs are chosen.

`LifecycleHolds` is what the refinement is good for. `Life` is
`ArticleLifecycleProofs` at the mapped variables, with no reports and no moderators;
its theorems are cited there, and `SameSpec` says that its specification is the one
that `ImplementsLifecycle` names. `SiteAndStatusStayRight` reads the result in
`Catalogue`'s terms: a call that the mapping shows as a stale commit is one of the
requests that holds a status, and lets go of it only by its end (`HeldToTheEnd`,
`StaleAlike`). What an assumption of `ArticleLifecycle` asks is proved, not assumed
(`SameConstants`).

`TypeCorrect` and `ConflictsMeanOverlap` need to know what `ChosenSlugs` returns,
which chooses one slug after the other, each free of those before. `ChosenSlugsAreFree`
is an induction over the list, by the least number for which it fails
(`EveryNumber`); that the recursion defines a function at all is the same induction
(`SomethingChooses`). The choice of a single slug is `BackOfficeProofs`'s, through the
instance `Naming`; it asks that the slugs read be finitely many, which they are
because no two rows have one number (`RowsWell`). `WellInv` is then inductive: a
request that is to write has as many slugs as languages, all free among those it had
read and no two the same (`CallsWell`).

In `HousekeepingProofs.tla`, for any replicas, tenants, counters and bounds:

| theorem | statement |
|---|---|
| `TypeCorrect` | `Spec => []TypeOK` |
| `WordsSeeded` | `Spec => []WordsUnlessCut` |
| `SavesAreCounted` | `Spec => SavedIsCounted` |
| `EndedNightsAreCounted` | `Spec => []EndedNightIsCounted` |
| `NightIsCountedIfRunsEnd` | `NightIsCounted`, if every manned night's runs end |
| `RunsGetShorter` | only the midnight that starts a run gives it steps, its own steps count them down, nothing else adds any, if `Tenant` and `Counter` are finite |

`StartInv` says that a replica at its words has the tenant there, `NightInv` that
what a run has read is what there is, or the run is marked (`CountedNow`). A run
saves once its counters are complete, so the row is the count. `CoverInv` says of
every run that has not ended, of a night without a failure, that each tenant of the
night has its row or is still owed one by that very run (`RunsCover`); for that the
runs of a night start only when it is over, and no tenant is ever removed
(`DaysFit`).

`NightIsCounted` is a liveness property and its fairness is out of the prover's
reach, but that is all that is left of it. `NightIsCountedIfRunsEnd` reduces it
to the runs of a night ending, and `RunsGetShorter` gives the variant: `Steps` is a
number that each step of a run lowers and no step of anyone else raises but the
midnight that starts it. What is not proved is the step from there, by weak fairness
of `Job(k)` and its enabledness, to runs that end. `Counter # {}` is assumed
because a run goes on to `save` with its last counter; the job's list of counters
is fixed (`analytics.job.ts:33`).

Only model-checked: `EverySettles`, and of `NightIsCounted` that last step. Both need
`ENABLED`, which the prover cannot reason about. Every other property of a passing
run is stated by a theorem. The converse does not hold: `SnapshotFresh`, which
`RetriesRunOut` shows the use of, and `EndedNightIsCounted`, which `NightIsCounted`
implies (a night whose runs have ended gets no row any more), are proved and in no
run. Where a theorem has a condition, `Timely`, `OneAtATime`,
`Editor = {}`, no reopening among the `Decision`s, the run that checks the property
has it in its configuration too.

## 12. Not modelled

- The read side: listings and their pages (`OFFSET` over `createdAt`, which ties
  and concurrent inserts shift; the items and their number come from two
  statements), the dashboard of `analytics/analytics.service.ts` (queries with no
  common snapshot), target labels. Nothing is decided by them.
- Pure functions of text: matching of banned words, HTML sanitising, reading time,
  what characters a slug keeps. Their verdicts are inputs of the models.
- Authentication, health, configuration, rate limits: lookups per request and
  start-up, with no state whose order matters. That an author edits only what is
  theirs is one comparison.
- Comment replies and the hierarchy of categories: links that no decision
  modelled here reads.
- HTTP, signatures and the address check of a webhook: reduced to delivered,
  failed, refused.
- The composition of everything. Modules meet pairwise: `Catalogue` with
  `ArticleLifecycle` by refinement; `BackOffice` has the effects of the others as
  choices; account deletion is split between `Interactions` (likes) and
  `CommentModeration` (reports), which share no row. `AdminArticles` has a
  moderator's call where `ArticleLifecycle` has reports.
