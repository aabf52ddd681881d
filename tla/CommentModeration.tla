-------------------------- MODULE CommentModeration --------------------------
(***************************************************************************)
(* Comments and the reports on them: creation under the moderation policy, *)
(* edits, reports and their threshold, the moderators' decisions.          *)
(*                                                                         *)
(* Handlers interleave at their database statements.  A transaction that   *)
(* holds the lock of every row it goes by from its first read to its       *)
(* commit is one step; one that reads without a lock has a step per read.  *)
(* PostgreSQL runs them at READ COMMITTED: a read sees what is committed   *)
(* when it runs, and a write by id overwrites whatever has become of the   *)
(* row since.                                                              *)
(***************************************************************************)
EXTENDS Naturals, FiniteSets

CONSTANTS
    Comment,
    Report,             \* ids of the reports that may be filed
    Target,             \* the comment each is about
    Reporter,           \* who files each: a user, or System
    System,             \* SYSTEM_REPORTER_ID
    Moderator,          \* concurrent calls of reports.updateStatus
    Editor,             \* concurrent calls of comments.update
    Leaver,             \* reporters whose accounts get deleted
    Threshold,          \* COMMENT_REPORT_THRESHOLD
    AuthorStatus,       \* the states the authors' accounts go through
    FiledAs,            \* the states reports are created in: the public API
                        \* only files PENDING ones, an administrator any
    MaxCrashes          \* bound: handlers that die

ASSUME ModerationAssumption ==
    /\ Target \in [Report -> Comment]
    /\ Threshold \in Nat \ {0}
    /\ AuthorStatus \subseteq {"ACTIVE", "SHADOW_BANNED", "BANNED"}
    /\ "ACTIVE" \in AuthorStatus
    /\ FiledAs \subseteq {"PENDING", "REVIEWED", "RESOLVED", "DISMISSED"}
    /\ MaxCrashes \in Nat

VARIABLES
    comment,        \* each comment's status, or Absent / Deleted
    reportCount,
    report,         \* each report's status, or Absent / Deleted
    author,         \* each comment's author's UserStatus
    draft,          \* comments.create, one call per comment
    edit,           \* the calls of comments.update
    review,         \* the calls of reports.updateStatus
    leave,          \* the calls of users.deleteUser
    told,           \* what the tenant takes each comment for: VISIBLE when created,
                    \* then the newStatus of the last event in the outbox
    crashes

vars == <<comment, reportCount, report, author, draft, edit, review, leave, told, crashes>>

Absent == "absent"
Deleted == "deleted"
Status == {"VISIBLE", "UNDER_REVIEW", "HIDDEN", "BANNED"}
ReportStatus == {"PENDING", "REVIEWED", "RESOLVED", "DISMISSED"}

NoDraft == [pc |-> "start", status |-> "VISIBLE", auto |-> FALSE, system |-> FALSE]
NoEdit == [pc |-> "idle", of |-> Absent, seen |-> Absent, to |-> Absent, hide |-> FALSE]
NoReview == [pc |-> "idle", of |-> Absent, to |-> Absent, seen |-> Absent, open |-> FALSE]
NoLeave == [pc |-> "start", open |-> [c \in Comment |-> 0]]

TypeOK ==
    /\ comment \in [Comment -> Status \cup {Absent, Deleted}]
    /\ reportCount \in [Comment -> Nat]
    /\ report \in [Report -> ReportStatus \cup {Absent, Deleted}]
    /\ author \in [Comment -> AuthorStatus]
    /\ draft \in [Comment -> [pc : {"start", "checked", "decided", "emit", "done"},
                              status : Status, auto : BOOLEAN, system : BOOLEAN]]
    /\ edit \in [Editor -> [pc : {"idle", "read", "emit"}, of : Comment \cup {Absent},
                            seen : Status \cup {Absent}, to : Status \cup {Absent},
                            hide : BOOLEAN]]
    /\ review \in [Moderator -> [pc : {"idle", "updated", "read", "counted"},
                                 of : Report \cup {Absent},
                                 to : ReportStatus \cup {Absent},
                                 seen : Status \cup {Absent, Deleted},
                                 open : BOOLEAN]]
    /\ leave \in [Leaver -> [pc : {"start", "counted", "done"}, open : [Comment -> Nat]]]
    /\ told \in [Comment -> Status]
    /\ crashes \in 0..MaxCrashes

Init ==
    /\ comment = [c \in Comment |-> Absent]
    /\ reportCount = [c \in Comment |-> 0]
    /\ report = [r \in Report |-> Absent]
    /\ author \in [Comment -> AuthorStatus]
    /\ draft = [c \in Comment |-> NoDraft]
    /\ edit = [e \in Editor |-> NoEdit]
    /\ review = [m \in Moderator |-> NoReview]
    /\ leave = [u \in Leaver |-> NoLeave]
    /\ told = [c \in Comment |-> "VISIBLE"]
    /\ crashes = 0

Exists(c) == comment[c] \in Status

-----------------------------------------------------------------------------
(* The moderation policy and the reports' unique index.                    *)

(* The comments' part of VALID_TRANSITIONS. *)
Successors(from) ==
    CASE from = "VISIBLE"      -> {"HIDDEN", "BANNED", "UNDER_REVIEW"}
      [] from = "UNDER_REVIEW" -> {"VISIBLE", "HIDDEN", "BANNED"}
      [] from = "HIDDEN"       -> {"VISIBLE", "BANNED"}
      [] from = "BANNED"       -> {}

\* Mutant: anything can be hidden.
IsValidOrHides(from, to) == from = to \/ to \in Successors(from) \/ to = "HIDDEN"

IsValidModerationTransition(from, to) == from = to \/ to \in Successors(from)

\* Mutants: no system report; no webhook.
PolicyUnreported(status, bannedWord) ==
    [status |-> IF bannedWord THEN "HIDDEN" ELSE "VISIBLE", auto |-> bannedWord, system |-> FALSE]
PolicyUntold(status, bannedWord) ==
    [status |-> IF bannedWord THEN "HIDDEN" ELSE "VISIBLE", auto |-> FALSE, system |-> bannedWord]

(* What applyCreationPolicy makes of the author's state and of banned      *)
(* words in the text.                                                      *)
CreationPolicy(status, bannedWord) ==
    CASE status = "BANNED"        -> [status |-> "VISIBLE", auto |-> TRUE, system |-> FALSE]
      [] status = "SHADOW_BANNED" -> [status |-> "HIDDEN", auto |-> TRUE, system |-> FALSE]
      [] OTHER -> [status |-> IF bannedWord THEN "HIDDEN" ELSE "VISIBLE",
                   auto |-> bannedWord, system |-> bannedWord]

Open == {"PENDING", "REVIEWED"}

OpenReports(c) == {r \in Report : Target[r] = c /\ report[r] \in Open}

SameKey(r, s) == Target[r] = Target[s] /\ Reporter[r] = Reporter[s]

(* An index entry another transaction has written and not yet committed:   *)
(* a transaction that needs the same key waits for it.                     *)
Reopening(s) == \E m \in Moderator : review[m].of = s /\ review[m].to \in Open

\* Mutant: an index over PENDING reports only.
IndexOfPending(r) == \A s \in Report \ {r} : SameKey(r, s) => report[s] # "PENDING"

(* reports_open_reporter_target_key admits r as an open report. *)
IndexAdmits(r) == \A s \in Report \ {r} :
    SameKey(r, s) => report[s] \notin Open /\ ~Reopening(s)

-----------------------------------------------------------------------------
(* comments.create: the author's state is read twice, and the webhook row  *)
(* is written after the transaction, in none.                              *)

CheckUser(c) ==
    /\ draft[c].pc = "start"
    /\ author[c] # "BANNED"
    /\ draft' = [draft EXCEPT ![c].pc = "checked"]
    /\ UNCHANGED <<comment, reportCount, report, author, edit, review, told, leave, crashes>>

ApplyPolicy(c) ==
    /\ draft[c].pc = "checked"
    /\ \E bannedWord \in BOOLEAN :
        LET policy == CreationPolicy(author[c], bannedWord)
        IN  draft' = [draft EXCEPT ![c] = [pc |-> "decided", status |-> policy.status,
                                           auto |-> policy.auto, system |-> policy.system]]
    /\ UNCHANGED <<comment, reportCount, report, author, edit, review, told, leave, crashes>>

(* createSystemReport, which leaves reportCount alone. *)
SystemReport(c, r) == /\ Target[r] = c /\ Reporter[r] = System
                      /\ report[r] = Absent
                      /\ IndexAdmits(r)
                      /\ report' = [report EXCEPT ![r] = "PENDING"]

CommitComment(c) ==
    /\ draft[c].pc = "decided"
    /\ comment' = [comment EXCEPT ![c] = draft[c].status]
    /\ IF draft[c].system THEN \E r \in Report : SystemReport(c, r)
                          ELSE UNCHANGED report
    /\ draft' = [draft EXCEPT ![c].pc = IF draft[c].auto THEN "emit" ELSE "done"]
    /\ UNCHANGED <<reportCount, author, edit, review, told, leave, crashes>>

EmitCreated(c) ==
    /\ draft[c].pc = "emit"
    /\ draft' = [draft EXCEPT ![c].pc = "done"]
    /\ told' = [told EXCEPT ![c] = draft[c].status]
    /\ UNCHANGED <<comment, reportCount, report, author, edit, review, leave, crashes>>

-----------------------------------------------------------------------------
(* comments.update.                                                        *)

(* The status is read, and the decision taken, outside the transaction:    *)
(* a moderator's new status, or an author's text with a banned word.       *)
ReadForUpdate(e, c) ==
    /\ edit[e].pc = "idle"
    /\ Exists(c)
    /\ \/ \E to \in Status :
            /\ IsValidModerationTransition(comment[c], to)
            /\ edit' = [edit EXCEPT ![e] = [pc |-> "read", of |-> c, seen |-> comment[c],
                                            to |-> to, hide |-> FALSE]]
       \/ /\ comment[c] # "HIDDEN"
          /\ IsValidModerationTransition(comment[c], "HIDDEN")
          /\ edit' = [edit EXCEPT ![e] = [pc |-> "read", of |-> c, seen |-> comment[c],
                                          to |-> "HIDDEN", hide |-> TRUE]]
    /\ UNCHANGED <<comment, reportCount, report, author, draft, review, told, leave, crashes>>

CommitUpdate(e) == LET c == edit[e].of IN
    /\ edit[e].pc = "read"
    /\ Exists(c)
    /\ comment' = [comment EXCEPT ![c] = edit[e].to]
    /\ IF edit[e].hide
       THEN /\ \E r \in Report : SystemReport(c, r)
            /\ edit' = [edit EXCEPT ![e] = [NoEdit EXCEPT !.pc = "emit", !.of = c]]
       ELSE /\ edit' = [edit EXCEPT ![e] = NoEdit]
            /\ UNCHANGED report
    /\ UNCHANGED <<reportCount, author, draft, review, told, leave, crashes>>

(* The comment is gone, or a system report on it is still open: P2025 or   *)
(* P2002, and nothing is written.                                          *)
UpdateFails(e) ==
    /\ edit[e].pc = "read"
    /\ \/ ~Exists(edit[e].of)
       \/ /\ edit[e].hide
          /\ \E r \in OpenReports(edit[e].of) : Reporter[r] = System
    /\ edit' = [edit EXCEPT ![e] = NoEdit]
    /\ UNCHANGED <<comment, reportCount, report, author, draft, review, told, leave, crashes>>

EmitUpdated(e) ==
    /\ edit[e].pc = "emit"
    /\ edit' = [edit EXCEPT ![e] = NoEdit]
    /\ told' = [told EXCEPT ![edit[e].of] = "HIDDEN"]
    /\ UNCHANGED <<comment, reportCount, report, author, draft, review, leave, crashes>>

Remove(c) ==
    /\ Exists(c)
    /\ comment' = [comment EXCEPT ![c] = Deleted]
    /\ UNCHANGED <<reportCount, report, author, draft, edit, review, told, leave, crashes>>

-----------------------------------------------------------------------------
(* reports.create on a comment: the counter's increment locks the comment  *)
(* until commit, so that the threshold is applied to the row as it is.     *)

\* Mutant: off by one.
AboveThreshold(n) == n > Threshold
AtThreshold(n) == n >= Threshold

FileReport(r) == LET c == Target[r] IN
    /\ Reporter[r] # System
    /\ report[r] = Absent
    /\ Exists(c)
    /\ \E as \in FiledAs :
        /\ as \in Open => IndexAdmits(r)
        /\ report' = [report EXCEPT ![r] = as]
    /\ reportCount' = [reportCount EXCEPT ![c] = @ + 1]
    /\ IF AtThreshold(reportCount'[c]) /\ comment[c] = "VISIBLE"
       THEN /\ comment' = [comment EXCEPT ![c] = "HIDDEN"]
            /\ told' = [told EXCEPT ![c] = "HIDDEN"]
       ELSE UNCHANGED <<comment, told>>
    /\ UNCHANGED <<author, draft, edit, review, leave, crashes>>

-----------------------------------------------------------------------------
(* reports.updateStatus on a comment's report.  The transaction locks the  *)
(* report by updating it, then reads the comment and counts the open       *)
(* reports without a lock; its writes show when it commits.                *)

BeginReview(m, r, to) ==
    /\ review[m].pc = "idle"
    /\ report[r] \in ReportStatus
    /\ \A n \in Moderator : review[n].of # r
    /\ to \in Open => IndexAdmits(r)
    /\ review' = [review EXCEPT ![m] = [NoReview EXCEPT !.pc = "updated", !.of = r, !.to = to]]
    /\ UNCHANGED <<comment, reportCount, report, author, draft, edit, told, leave, crashes>>

ReadComment(m) == LET c == Target[review[m].of] IN
    /\ review[m].pc = "updated"
    /\ review' = [review EXCEPT ![m].pc = "read", ![m].seen = comment[c]]
    /\ UNCHANGED <<comment, reportCount, report, author, draft, edit, told, leave, crashes>>

CountOpen(m) == LET c == Target[review[m].of] IN
    /\ review[m].pc = "read"
    /\ review[m].to = "DISMISSED"
    /\ review' = [review EXCEPT ![m].pc = "counted",
                                 ![m].open = OpenReports(c) \ {review[m].of} # {}]
    /\ UNCHANGED <<comment, reportCount, report, author, draft, edit, leave, told, crashes>>

(* Only a dismissal counts the reports that are still open. *)
MayCommit(m) == review[m].pc = IF review[m].to = "DISMISSED" THEN "counted" ELSE "read"

\* Mutant: whatever took the comment down.
RestoresAny(m) == review[m].to = "DISMISSED" /\ ~review[m].open

(* Caso A: no open report is left on a hidden comment. *)
Restores(m) == /\ review[m].to = "DISMISSED"
               /\ review[m].seen = "HIDDEN"
               /\ ~review[m].open

(* Caso B: the violation is confirmed. *)
Bans(m) == /\ review[m].to = "RESOLVED"
           /\ review[m].seen \in Status \ {"BANNED"}

CommitReview(m) == LET c == Target[review[m].of] IN
    /\ MayCommit(m)
    /\ Restores(m) \/ Bans(m) => Exists(c)
    /\ report' = [report EXCEPT ![review[m].of] = review[m].to]
    /\ \/ /\ Restores(m)
          /\ comment' = [comment EXCEPT ![c] = "VISIBLE"]
          /\ told' = [told EXCEPT ![c] = "VISIBLE"]
       \/ /\ Bans(m)
          /\ comment' = [comment EXCEPT ![c] = "BANNED"]
          /\ told' = [told EXCEPT ![c] = "BANNED"]
       \/ /\ ~Restores(m) /\ ~Bans(m)
          /\ UNCHANGED <<comment, told>>
    /\ reportCount' = IF Restores(m) THEN [reportCount EXCEPT ![c] = 0] ELSE reportCount
    /\ review' = [review EXCEPT ![m] = NoReview]
    /\ UNCHANGED <<author, draft, edit, leave, crashes>>

(* The comment is gone when its update runs (P2025): all is rolled back. *)
ReviewFails(m) ==
    /\ MayCommit(m)
    /\ Restores(m) \/ Bans(m)
    /\ ~Exists(Target[review[m].of])
    /\ review' = [review EXCEPT ![m] = NoReview]
    /\ UNCHANGED <<comment, reportCount, report, author, draft, edit, told, leave, crashes>>

-----------------------------------------------------------------------------
(* users.deleteUser on a reporter: its open reports are counted without a  *)
(* lock, subtracted from the comments' counters, and deleted by cascade,   *)
(* which waits for whoever is updating one of them.                        *)

CountOwnReports(u) ==
    /\ leave[u].pc = "start"
    /\ leave' = [leave EXCEPT ![u] = [pc |-> "counted", open |->
           [c \in Comment |-> Cardinality({r \in OpenReports(c) : Reporter[r] = u})]]]
    /\ UNCHANGED <<comment, reportCount, report, author, draft, edit, review, told, crashes>>

\* Mutant: the counter may have been reset since.
LeftOf(count, n) == count - n
(* updateMany({ where: reportCount >= n }). *)
Decremented(count, n) == IF count >= n THEN count - n ELSE count

CommitDeletion(u) ==
    /\ leave[u].pc = "counted"
    /\ \A m \in Moderator : review[m].of \in Report => Reporter[review[m].of] # u
    /\ reportCount' = [c \in Comment |->
           IF Exists(c) THEN Decremented(reportCount[c], leave[u].open[c]) ELSE reportCount[c]]
    /\ report' = [r \in Report |->
           IF Reporter[r] = u /\ report[r] # Absent THEN Deleted ELSE report[r]]
    /\ leave' = [leave EXCEPT ![u] = [NoLeave EXCEPT !.pc = "done"]]
    /\ UNCHANGED <<comment, author, draft, edit, review, told, crashes>>

-----------------------------------------------------------------------------
(* users.updateStatus on the author. *)
SetAuthorStatus(c, status) ==
    /\ author[c] # status
    /\ author' = [author EXCEPT ![c] = status]
    /\ UNCHANGED <<comment, reportCount, report, draft, edit, review, told, leave, crashes>>

(* A handler dies; the transaction it is in, if any, is rolled back. *)
Crash ==
    /\ crashes < MaxCrashes
    /\ crashes' = crashes + 1
    /\ \/ \E c \in Comment : /\ draft[c].pc \in {"checked", "decided", "emit"}
                             /\ draft' = [draft EXCEPT ![c] = [NoDraft EXCEPT !.pc = "done"]]
                             /\ UNCHANGED <<edit, review>>
       \/ \E e \in Editor : /\ edit[e].pc # "idle"
                            /\ edit' = [edit EXCEPT ![e] = NoEdit]
                            /\ UNCHANGED <<draft, review>>
       \/ \E m \in Moderator : /\ review[m].pc # "idle"
                               /\ review' = [review EXCEPT ![m] = NoReview]
                               /\ UNCHANGED <<draft, edit>>
    /\ UNCHANGED <<comment, reportCount, report, author, told, leave>>

Next ==
    \/ \E c \in Comment : \/ CheckUser(c) \/ ApplyPolicy(c) \/ CommitComment(c)
                          \/ EmitCreated(c) \/ Remove(c)
                          \/ \E status \in AuthorStatus : SetAuthorStatus(c, status)
    \/ \E e \in Editor : \/ \E c \in Comment : ReadForUpdate(e, c)
                         \/ CommitUpdate(e) \/ UpdateFails(e) \/ EmitUpdated(e)
    \/ \E r \in Report : FileReport(r)
    \/ \E m \in Moderator : \/ \E r \in Report, to \in ReportStatus : BeginReview(m, r, to)
                            \/ ReadComment(m) \/ CountOpen(m)
                            \/ CommitReview(m) \/ ReviewFails(m)
    \/ \E u \in Leaver : CountOwnReports(u) \/ CommitDeletion(u)
    \/ Crash

Spec == Init /\ [][Next]_vars

-----------------------------------------------------------------------------
(* Properties.  What holds depends on who acts at once: each is checked    *)
(* where the code upholds it, and three also where it does not.            *)

Idle(c) == /\ draft[c].pc \in {"start", "done"}
           /\ \A e \in Editor : edit[e].of # c
           /\ \A m \in Moderator : review[m].of \in Report => Target[review[m].of] # c

(* A reporter never has two open reports on one comment, whatever files,   *)
(* closes and reopens them at once.                                        *)
OneOpenPerReporter == \A r, s \in Report :
    r # s /\ SameKey(r, s) => ~(report[r] \in Open /\ report[s] \in Open)

(* BANNED is final (moderation-policy.service.ts:18).                      *)
BannedIsTerminal == [][\A c \in Comment :
    comment[c] = "BANNED" => comment'[c] \in {"BANNED", Deleted}]_vars

(* The commit, in this step, of an edit or a decision that had read        *)
(* another status than the comment has.                                    *)
StaleEdit(c) == \E e \in Editor :
    /\ edit[e].pc = "read" /\ edit[e].of = c /\ edit'[e] # edit[e]
    /\ edit[e].seen # comment[c]
StaleReview(c) == \E m \in Moderator :
    /\ review[m].of \in Report /\ Target[review[m].of] = c
    /\ MayCommit(m) /\ review'[m] = NoReview
    /\ review[m].seen # comment[c]

(* A comment goes from status to status as VALID_TRANSITIONS allows, by    *)
(* the threshold and by decisions as by edits, unless an edit or a         *)
(* decision overlaps another change: no handler takes a comment out of     *)
(* BANNED, or hides what it may not, by the status that is there.          *)
TransitionsAreLegal == [][\A c \in Comment :
    comment[c] \in Status /\ comment'[c] \notin {comment[c], Deleted} =>
        comment'[c] \in Successors(comment[c]) \/ StaleEdit(c) \/ StaleReview(c)]_vars

(* A comment that was hidden waits for a moderator: it is not left hidden  *)
(* with no open report on it, where no decision would bring it back (Caso  *)
(* A, docs/comment-moderation.md:57-60).  Comments hidden with no report,  *)
(* by a shadow ban or an explicit status, and reports that disappear with  *)
(* their reporter's account, are outside its instances.                    *)
HiddenAwaitsReview == \A c \in Comment :
    comment[c] = "HIDDEN" /\ Idle(c) => OpenReports(c) # {}

(* A visible comment has fewer reports than it takes to hide it. *)
VisibleIsBelowThreshold == \A c \in Comment :
    comment[c] = "VISIBLE" => reportCount[c] < Threshold

(* A tenant is not left to show a comment the service took down: the event *)
(* commits with the change (webhook-event-publisher.service.ts:20-22).     *)
HidingIsTold == \A c \in Comment :
    comment[c] \in {"HIDDEN", "BANNED"} /\ Idle(c) => told[c] # "VISIBLE"

(* Only the death of a handler between its commit and its event leaves a   *)
(* tenant showing such a comment: no order of reports, decisions and late  *)
(* events does.                                                            *)
HidingIsToldUnlessCrash == crashes = 0 => HidingIsTold
=============================================================================
