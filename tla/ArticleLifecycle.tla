--------------------------- MODULE ArticleLifecycle ---------------------------
(***************************************************************************)
(* Articles: creation, status changes by administrators and by the banned- *)
(* word scan of a translation, reports and their threshold, dismissals,    *)
(* and the lifecycle events the tenant's site follows.                     *)
(*                                                                         *)
(* As in CommentModeration, a transaction is split at every read that it,  *)
(* or its caller, goes by without holding the row's lock.  An event is     *)
(* inserted by the transaction that changes the status.                    *)
(***************************************************************************)
EXTENDS Naturals, FiniteSets

CONSTANTS
    Article,
    Report,             \* the reports that may be filed, each by another user
    Target,             \* the article each is about
    FiledAs,            \* the states they are filed in: an administrator may say
    Caller,             \* concurrent calls of articles.update and of the scan
    Moderator,          \* concurrent calls of reports.updateStatus
    Decision,           \* the states moderators put reports in
    Threshold           \* ARTICLE_REPORT_THRESHOLD

ASSUME ArticleAssumption ==
    /\ Target \in [Report -> Article]
    /\ FiledAs \cup Decision \subseteq {"PENDING", "REVIEWED", "RESOLVED", "DISMISSED"}
    /\ Threshold \in Nat \ {0}

VARIABLES
    status,             \* each article's, or Absent / Deleted
    publishedAt,        \* is it set?
    report,             \* each report's status, or Absent
    filing,             \* the transaction of reports.create, one per report
    call,               \* calls that read a status and write one later
    review,             \* the calls of reports.updateStatus
    online,             \* the articles the last article.published, .unpublished
                        \* or .deleted of the outbox leaves published
    firsts              \* article.published events with firstPublication: true

vars == <<status, publishedAt, report, filing, call, review, online, firsts>>

Absent == "absent"
Deleted == "deleted"
Status == {"DRAFT", "PUBLISHED", "UNDER_REVIEW", "HIDDEN", "BANNED"}
Open == {"PENDING", "REVIEWED"}

NoFiling == [pc |-> "start", seen |-> Absent, as |-> Absent, flag |-> FALSE]
NoCall == [pc |-> "idle", of |-> Absent, seen |-> Absent, to |-> Absent]
NoReview == [pc |-> "idle", of |-> Absent, to |-> Absent, seen |-> Absent, open |-> FALSE]

TypeOK ==
    /\ status \in [Article -> Status \cup {Absent, Deleted}]
    /\ publishedAt \in [Article -> BOOLEAN]
    /\ report \in [Report -> FiledAs \cup Decision \cup {Absent}]
    /\ filing \in [Report -> [pc : {"start", "locked", "counted", "done"},
                              seen : Status \cup {Absent, Deleted},
                              as : FiledAs \cup {Absent}, flag : BOOLEAN]]
    /\ call \in [Caller -> [pc : {"idle", "update", "hide"}, of : Article \cup {Absent},
                            seen : Status \cup {Absent}, to : Status \cup {Absent}]]
    /\ review \in [Moderator -> [pc : {"idle", "updated", "read", "counted"},
                                 of : Report \cup {Absent}, to : Decision \cup {Absent},
                                 seen : Status \cup {Absent, Deleted}, open : BOOLEAN]]
    /\ online \subseteq Article
    /\ firsts \in [Article -> Nat]

Init ==
    /\ status = [a \in Article |-> Absent]
    /\ publishedAt = [a \in Article |-> FALSE]
    /\ report = [r \in Report |-> Absent]
    /\ filing = [r \in Report |-> NoFiling]
    /\ call = [u \in Caller |-> NoCall]
    /\ review = [m \in Moderator |-> NoReview]
    /\ online = {}
    /\ firsts = [a \in Article |-> 0]

Exists(a) == status[a] \in Status

\* Mutant: no FOR UPDATE.
LockedByNobody(a) == FALSE

(* A report's transaction has the article's row FOR UPDATE; the other      *)
(* writers, whose writes and commit are one step, wait for it.             *)
Locked(a) == \E r \in Report : Target[r] = a /\ filing[r].pc \in {"locked", "counted"}

(* The articles' part of VALID_TRANSITIONS. *)
Successors(from) ==
    CASE from = "DRAFT"        -> {"PUBLISHED", "UNDER_REVIEW", "HIDDEN", "BANNED"}
      [] from = "PUBLISHED"    -> {"DRAFT", "UNDER_REVIEW", "HIDDEN", "BANNED"}
      [] from = "UNDER_REVIEW" -> {"PUBLISHED", "DRAFT", "HIDDEN", "BANNED"}
      [] from = "HIDDEN"       -> {"PUBLISHED", "DRAFT", "BANNED"}
      [] from = "BANNED"       -> {}

IsValidModerationTransition(from, to) == from = to \/ to \in Successors(from)

OpenReports(a) == {r \in Report : Target[r] = a /\ report[r] \in Open}

(* With r, filed as `as`, among them. *)
OpenWith(r, as) == OpenReports(Target[r]) \cup {s \in {r} : as \in Open}

-----------------------------------------------------------------------------
\* Mutants: the date is written without its condition; only a takedown unpublishes.
LifecycleAlwaysFirst(a, old, new) ==
    \/ /\ new = "PUBLISHED"
       /\ publishedAt' = [publishedAt EXCEPT ![a] = TRUE]
       /\ online' = online \cup {a}
       /\ firsts' = [firsts EXCEPT ![a] = @ + 1]
    \/ /\ new # "PUBLISHED"
       /\ online' = IF old = "PUBLISHED" /\ publishedAt[a] THEN online \ {a} ELSE online
       /\ UNCHANGED <<publishedAt, firsts>>

LifecycleOnTakedown(a, old, new) ==
    \/ /\ new = "PUBLISHED"
       /\ publishedAt' = [publishedAt EXCEPT ![a] = TRUE]
       /\ online' = online \cup {a}
       /\ firsts' = IF publishedAt[a] THEN firsts ELSE [firsts EXCEPT ![a] = @ + 1]
    \/ /\ new # "PUBLISHED"
       /\ online' = IF old = "PUBLISHED" /\ new \in {"HIDDEN", "BANNED"}
                    THEN online \ {a} ELSE online
       /\ UNCHANGED <<publishedAt, firsts>>

(* publishArticleLifecycleEvent, once the row's new status is written.     *)
LifecycleEvent(a, old, new) ==
    \/ /\ new = "PUBLISHED"
       /\ publishedAt' = [publishedAt EXCEPT ![a] = TRUE]
       /\ online' = online \cup {a}
       /\ firsts' = IF publishedAt[a] THEN firsts ELSE [firsts EXCEPT ![a] = @ + 1]
    \/ /\ new # "PUBLISHED"
       /\ online' = IF old = "PUBLISHED" /\ publishedAt[a] THEN online \ {a} ELSE online
       /\ UNCHANGED <<publishedAt, firsts>>

\* Mutant: the comments' initial status.
CreateVisible(a, requested, bannedWord) ==
    /\ status[a] = Absent
    /\ status' = [status EXCEPT ![a] = "VISIBLE"]
    /\ UNCHANGED <<publishedAt, online, firsts, report, filing, call, review>>

(* articles.create: a banned word hides the article before it is seen. *)
Create(a, requested, bannedWord) ==
    LET autoHidden == bannedWord /\ requested \notin {"HIDDEN", "BANNED"}
        final == IF autoHidden THEN "HIDDEN" ELSE requested
    IN  /\ status[a] = Absent
        /\ status' = [status EXCEPT ![a] = final]
        /\ IF autoHidden THEN LifecycleEvent(a, requested, "HIDDEN")
           ELSE IF final = "PUBLISHED" THEN LifecycleEvent(a, Absent, "PUBLISHED")
           ELSE UNCHANGED <<publishedAt, online, firsts>>
        /\ UNCHANGED <<report, filing, call, review>>

-----------------------------------------------------------------------------
(* articles.update with a status: read and validated outside the           *)
(* transaction that writes it.                                             *)

ReadForUpdate(u, a, to) ==
    /\ call[u].pc = "idle"
    /\ Exists(a)
    /\ IsValidModerationTransition(status[a], to)
    /\ call' = [call EXCEPT ![u] = [pc |-> "update", of |-> a, seen |-> status[a], to |-> to]]
    /\ UNCHANGED <<status, publishedAt, report, filing, review, online, firsts>>

(* No event if the status read was already the requested one. *)
CommitUpdate(u) == LET a == call[u].of IN
    /\ call[u].pc = "update"
    /\ Exists(a) /\ ~Locked(a)
    /\ status' = [status EXCEPT ![a] = call[u].to]
    /\ IF call[u].to # call[u].seen THEN LifecycleEvent(a, call[u].seen, call[u].to)
                                    ELSE UNCHANGED <<publishedAt, online, firsts>>
    /\ call' = [call EXCEPT ![u] = NoCall]
    /\ UNCHANGED <<report, filing, review>>

\* Mutant: the scan takes banned articles too.
ReadForHideAny(u, a) ==
    /\ call[u].pc = "idle"
    /\ Exists(a)
    /\ status[a] # "HIDDEN"
    /\ call' = [call EXCEPT ![u] =
           [pc |-> "hide", of |-> a, seen |-> status[a], to |-> "HIDDEN"]]
    /\ UNCHANGED <<status, publishedAt, report, filing, review, online, firsts>>

(* hideArticleForBannedContent, after a translation with a banned word was *)
(* saved: the same read and write, with HIDDEN.                            *)
ReadForHide(u, a) ==
    /\ call[u].pc = "idle"
    /\ Exists(a)
    /\ status[a] \notin {"HIDDEN", "BANNED"}
    /\ call' = [call EXCEPT ![u] =
           [pc |-> "hide", of |-> a, seen |-> status[a], to |-> "HIDDEN"]]
    /\ UNCHANGED <<status, publishedAt, report, filing, review, online, firsts>>

CommitHide(u) == LET a == call[u].of IN
    /\ call[u].pc = "hide"
    /\ Exists(a) /\ ~Locked(a)
    /\ status' = [status EXCEPT ![a] = "HIDDEN"]
    /\ LifecycleEvent(a, call[u].seen, "HIDDEN")
    /\ call' = [call EXCEPT ![u] = NoCall]
    /\ UNCHANGED <<report, filing, review>>

(* The article is gone (P2025). *)
CallFails(u) ==
    /\ call[u].pc # "idle"
    /\ ~Exists(call[u].of)
    /\ call' = [call EXCEPT ![u] = NoCall]
    /\ UNCHANGED <<status, publishedAt, report, filing, review, online, firsts>>

(* The process ends; its open transaction is rolled back. *)
Crash(u) ==
    /\ call[u].pc # "idle"
    /\ call' = [call EXCEPT ![u] = NoCall]
    /\ UNCHANGED <<status, publishedAt, report, filing, review, online, firsts>>

(* The summary read before the delete only goes into article.deleted. *)
Remove(a) ==
    /\ Exists(a) /\ ~Locked(a)
    /\ status' = [status EXCEPT ![a] = Deleted]
    /\ online' = online \ {a}
    /\ UNCHANGED <<publishedAt, report, filing, call, review, firsts>>

-----------------------------------------------------------------------------
(* reports.create on an article that existed when it was looked up.        *)

LockArticle(r) == LET a == Target[r] IN
    /\ filing[r].pc = "start"
    /\ status[a] # Absent /\ ~Locked(a)
    /\ filing' = [filing EXCEPT ![r] = [NoFiling EXCEPT !.pc = "locked", !.seen = status[a]]]
    /\ UNCHANGED <<status, publishedAt, report, call, review, online, firsts>>

(* The report is inserted, and applyArticleThreshold counts it, if it is   *)
(* open, with those that are committed.                                    *)
CountReports(r, as) ==
    /\ filing[r].pc = "locked"
    /\ filing' = [filing EXCEPT ![r] = [@ EXCEPT !.pc = "counted", !.as = as,
           !.flag = /\ filing[r].seen = "PUBLISHED"
                    /\ Cardinality(OpenWith(r, as)) >= Threshold]]
    /\ UNCHANGED <<status, publishedAt, report, call, review, online, firsts>>

CommitReport(r) ==
    /\ filing[r].pc = "counted"
    /\ report' = [report EXCEPT ![r] = filing[r].as]
    /\ IF filing[r].flag
       THEN /\ status' = [status EXCEPT ![Target[r]] = "UNDER_REVIEW"]
            /\ LifecycleEvent(Target[r], "PUBLISHED", "UNDER_REVIEW")
       ELSE UNCHANGED <<status, publishedAt, online, firsts>>
    /\ filing' = [filing EXCEPT ![r] = [NoFiling EXCEPT !.pc = "done"]]
    /\ UNCHANGED <<call, review>>

-----------------------------------------------------------------------------
(* reports.updateStatus on an article's report: only a dismissal looks at  *)
(* the article, without a lock, and at the reports that are still open.    *)

BeginReview(m, r, to) ==
    /\ review[m].pc = "idle"
    /\ report[r] # Absent
    /\ \A n \in Moderator : review[n].of # r
    /\ review' = [review EXCEPT ![m] = [NoReview EXCEPT !.pc = "updated", !.of = r, !.to = to]]
    /\ UNCHANGED <<status, publishedAt, report, filing, call, online, firsts>>

ReadArticle(m) ==
    /\ review[m].pc = "updated"
    /\ review[m].to = "DISMISSED"
    /\ review' = [review EXCEPT ![m].pc = "read", ![m].seen = status[Target[review[m].of]]]
    /\ UNCHANGED <<status, publishedAt, report, filing, call, online, firsts>>

CountOpen(m) ==
    /\ review[m].pc = "read"
    /\ review' = [review EXCEPT ![m].pc = "counted",
           ![m].open = OpenReports(Target[review[m].of]) \ {review[m].of} # {}]
    /\ UNCHANGED <<status, publishedAt, report, filing, call, online, firsts>>

Restores(m) == review[m].seen = "UNDER_REVIEW" /\ ~review[m].open

CommitReview(m) == LET a == Target[review[m].of] IN
    /\ review[m].pc = IF review[m].to = "DISMISSED" THEN "counted" ELSE "updated"
    /\ report' = [report EXCEPT ![review[m].of] = review[m].to]
    /\ \/ /\ Restores(m)
          /\ Exists(a) /\ ~Locked(a)
          /\ status' = [status EXCEPT ![a] = "PUBLISHED"]
          /\ LifecycleEvent(a, "UNDER_REVIEW", "PUBLISHED")
       \/ /\ ~Restores(m)
          /\ UNCHANGED <<status, publishedAt, online, firsts>>
    /\ review' = [review EXCEPT ![m] = NoReview]
    /\ UNCHANGED <<filing, call>>

(* The article to restore is gone (P2025): all is rolled back. *)
ReviewFails(m) ==
    /\ review[m].pc = "counted"
    /\ Restores(m)
    /\ ~Exists(Target[review[m].of])
    /\ review' = [review EXCEPT ![m] = NoReview]
    /\ UNCHANGED <<status, publishedAt, report, filing, call, online, firsts>>

Next ==
    \/ \E a \in Article : \/ \E s \in Status, b \in BOOLEAN : Create(a, s, b)
                          \/ Remove(a)
    \/ \E u \in Caller : \/ \E a \in Article, to \in Status : ReadForUpdate(u, a, to)
                         \/ \E a \in Article : ReadForHide(u, a)
                         \/ CommitUpdate(u) \/ CommitHide(u) \/ CallFails(u) \/ Crash(u)
    \/ \E r \in Report : \/ LockArticle(r) \/ CommitReport(r)
                         \/ \E as \in FiledAs : CountReports(r, as)
    \/ \E m \in Moderator : \/ \E r \in Report, to \in Decision : BeginReview(m, r, to)
                            \/ ReadArticle(m) \/ CountOpen(m)
                            \/ CommitReview(m) \/ ReviewFails(m)

Spec == Init /\ [][Next]_vars

-----------------------------------------------------------------------------
(* Properties.                                                             *)

(* The commit, in this step, of a call whose status of a is out of date. *)
StaleCommit(a) == \E u \in Caller :
    /\ call[u].of = a /\ call'[u] = NoCall
    /\ call[u].seen # status[a]

Agrees(a) == a \in online <=> status[a] = "PUBLISHED"

(* The tenant's site shows an article exactly while it is PUBLISHED: every *)
(* entry emits article.published, every exit article.unpublished           *)
(* (docs/article-moderation.md:81).                                        *)
SiteAgrees == \A a \in Article : Agrees(a)

(* The one way the site loses an article's status is a call that wrote     *)
(* over a status it had not read: no handler tells the site wrong on its   *)
(* own, and reports and dismissals never do, although they read it early.  *)
AgreesUnlessStale == [][\A a \in Article :
    Agrees(a) => Agrees(a)' \/ StaleCommit(a)]_vars

(* A dismissal restores, in this step, an article whose status it has read *)
(* too early.                                                              *)
StaleReview(a) == \E m \in Moderator :
    /\ review[m].pc = "counted" /\ Target[review[m].of] = a
    /\ review'[m] = NoReview
    /\ review[m].seen # status[a]

(* An article goes from status to status as VALID_TRANSITIONS allows: what *)
(* was legal when it was checked is legal when it is written, and BANNED   *)
(* is terminal (moderation-policy.service.ts:18), unless a call or a       *)
(* dismissal writes by a status that is out of date.  Reports, which take  *)
(* the lock, never do.                                                     *)
TransitionsAreLegal == [][\A a \in Article :
    status[a] \in Status /\ status'[a] \notin {status[a], Deleted} =>
        status'[a] \in Successors(status[a]) \/ StaleCommit(a) \/ StaleReview(a)]_vars

(* The report that brings a published article to the threshold takes it    *)
(* down, however many are filed at once: none is counted short ("otherwise *)
(* two concurrent reports can both count threshold-1",                     *)
(* reports.service.ts:123).  Moderators must not reopen reports meanwhile: *)
(* that applies no threshold.                                              *)
ThresholdIsApplied == [][\A r \in Report :
    report[r] = Absent /\ report'[r] # Absent /\ status'[Target[r]] = "PUBLISHED" =>
        Cardinality({s \in Report : Target[s] = Target[r] /\ report'[s] \in Open}) < Threshold]_vars

(* Concurrent publishes see exactly one first publication                  *)
(* (webhook-event-publisher.service.ts:139), and every published article,  *)
(* by whatever overlap it came to be published, has its date.              *)
OneFirstPublication == \A a \in Article :
    /\ firsts[a] = IF publishedAt[a] THEN 1 ELSE 0
    /\ status[a] = "PUBLISHED" => publishedAt[a]
=============================================================================
