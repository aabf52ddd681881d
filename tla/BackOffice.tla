------------------------------- MODULE BackOffice -------------------------------
(***************************************************************************)
(* The requests of the admin API and of the public one on single rows, and *)
(* the audit trail the admin handlers leave: a handler may read the row,   *)
(* calls a service, which reads it again and writes it by its id, and then *)
(* logs what it did.  No transaction spans these steps.                    *)
(*                                                                         *)
(* A row is its status, or only its presence, and the slug (or the banned  *)
(* word) that is unique among the rows of its kind.  Which rows hang       *)
(* together is left open: a report may be about any article or comment,    *)
(* and any comment may belong to an article, any report to an account.  So *)
(* is what CommentModeration, ArticleLifecycle and Catalogue are about:    *)
(* whether a report is the one that reaches the threshold, a decision the  *)
(* last one on its target, and whether a text has a banned word.           *)
(***************************************************************************)
EXTENDS Slugs

CONSTANTS
    Row,
    Mixes,              \* what the rows may be: functions from Row to Kind
    Base,               \* what slugify makes of the names in use, and the words
    Rename,             \* slugs administrators set by hand
    InUse,              \* bound: the statuses administrators set
    Call                \* concurrent requests

Content == {"comment", "article"}
Named == {"tag", "category", "word"}
Kind == Content \cup Named \cup {"report", "user"}

None == "none"

ASSUME BackOfficeAssumption ==
    /\ IsFiniteSet(Row) /\ None \notin Row
    /\ Mixes \subseteq [Row -> Kind]
    /\ Base \subseteq Slug /\ Rename \subseteq Slug

VARIABLES
    kind,               \* each row's
    state,              \* its status or its presence
    slug,               \* of a present named row, else <<>>
    call,               \* the requests
    told                \* what the row's trail says it is: the last entry that
                        \* tells it, or None when another story may be told (ghost)

vars == <<kind, state, slug, call, told>>

Absent == "absent"
Deleted == "deleted"
Present == "present"

Statuses(k) ==
    CASE k = "comment" -> {"VISIBLE", "UNDER_REVIEW", "HIDDEN", "BANNED"}
      [] k = "article" -> {"DRAFT", "PUBLISHED", "UNDER_REVIEW", "HIDDEN", "BANNED"}
      [] k = "report"  -> {"PENDING", "REVIEWED", "RESOLVED", "DISMISSED"}
      [] k = "user"    -> {"ACTIVE", "BANNED", "SHADOW_BANNED"}
      [] k \in Named   -> {Present}

Status == UNION {Statuses(k) : k \in Kind}
Value == Status \cup {Absent, Deleted}

NoCall == [pc |-> "idle", op |-> None, of |-> None, to |-> None, write |-> None, target |-> None,
           admin |-> FALSE, logs |-> FALSE, before |-> None, over |-> None, after |-> None,
           slugs |-> <<>>, known |-> {}, early |-> FALSE, late |-> FALSE]

CallRecord ==
    [pc : {"idle", "check", "commit", "hide", "log"},
     op : {None, "create", "set", "edit", "translate", "remove"},
     of : Row \cup {None}, to : Value \cup {None}, write : Value \cup {None},
     target : Row \cup {None}, admin : BOOLEAN, logs : BOOLEAN, before : Value \cup {None},
     over : Value \cup {None}, after : Value \cup {None},
     slugs : Seq(Slug), known : SUBSET Slug, early : BOOLEAN, late : BOOLEAN]

TypeOK ==
    /\ kind \in Mixes
    /\ state \in [Row -> Value] /\ told \in [Row -> Value \cup {None}]
    /\ slug \in [Row -> Slug \cup {<<>>}]
    /\ call \in [Call -> CallRecord]

Init ==
    /\ kind \in Mixes
    /\ state = [r \in Row |-> Absent] /\ told = [r \in Row |-> Absent]
    /\ slug = [r \in Row |-> <<>>]
    /\ call = [c \in Call |-> NoCall]

Exists(r) == state[r] \notin {Absent, Deleted}
SlugsOf(k) == {slug[r] : r \in {s \in Row : kind[s] = k /\ Exists(s)}}

(* VALID_TRANSITIONS *)
Successors(from) ==
    CASE from = "DRAFT"        -> {"PUBLISHED", "UNDER_REVIEW", "HIDDEN", "BANNED"}
      [] from = "PUBLISHED"    -> {"DRAFT", "UNDER_REVIEW", "HIDDEN", "BANNED"}
      [] from = "VISIBLE"      -> {"HIDDEN", "BANNED", "UNDER_REVIEW"}
      [] from = "UNDER_REVIEW" -> {"PUBLISHED", "DRAFT", "VISIBLE", "HIDDEN", "BANNED"}
      [] from = "HIDDEN"       -> {"VISIBLE", "PUBLISHED", "DRAFT", "BANNED"}
      [] OTHER                 -> {}

IsValidModerationTransition(from, to) == from = to \/ to \in Successors(from)

-----------------------------------------------------------------------------
(* The handlers: what each asks of its service, whether it reads the row   *)
(* before, for the entry's changesBefore or summary ("was HIDDEN"), and    *)
(* whether it writes an entry.                                             *)

Enter(c, r, k, op, to, slugs, does) ==
    /\ call[c].pc = "idle"
    /\ kind[r] = k
    /\ IF op = "create" THEN state[r] = Absent /\ \A d \in Call : call[d].of # r
                        ELSE state[r] # Absent
    /\ call' = [call EXCEPT ![c] =
           [pc |-> "check", op |-> op, of |-> r, to |-> to, write |-> None, target |-> None,
            admin |-> "admin" \in does, logs |-> "logs" \in does,
            before |-> IF "reads" \in does THEN state[r] ELSE None,
            over |-> None, after |-> None,
            slugs |-> slugs, known |-> {}, early |-> FALSE, late |-> FALSE]]
    /\ UNCHANGED <<kind, state, slug, told>>

Public == {}
Admin == {"admin", "logs"}
Reads == {"reads"}
Logs == {"logs"}        \* comments and reports are logged by the public API too

AdminCommentUpdate(c, r, to) == Enter(c, r, "comment", "set", to, <<>>, Admin \cup Reads)
AdminCommentRemove(c, r) == Enter(c, r, "comment", "remove", None, <<>>, Admin \cup Reads)
CommentCreate(c, r, to) == Enter(c, r, "comment", "create", to, <<>>, Logs)
CommentUpdate(c, r) == Enter(c, r, "comment", "set", None, <<>>, Logs \cup Reads)
CommentRemove(c, r) == Enter(c, r, "comment", "remove", None, <<>>, Logs \cup Reads)

(* An administrator may give the status; the public API's DTO has none. *)
AdminReportCreate(c, r, to) == Enter(c, r, "report", "create", to, <<>>, Admin)
AdminReportUpdateStatus(c, r, to) == Enter(c, r, "report", "set", to, <<>>, Admin \cup Reads)
ReportCreate(c, r) == Enter(c, r, "report", "create", "PENDING", <<>>, Logs)
ReportUpdateStatus(c, r, to) == Enter(c, r, "report", "set", to, <<>>, Logs \cup Reads)

AdminUserUpdateStatus(c, r, to) == Enter(c, r, "user", "set", to, <<>>, Admin \cup Reads)
AdminUserRemove(c, r) == Enter(c, r, "user", "remove", None, <<>>, Admin)
(* ensureUser, which other services call, makes an account likewise. *)
UserSync(c, r) == Enter(c, r, "user", "create", "ACTIVE", <<>>, Public)
UserRemove(c, r) == Enter(c, r, "user", "remove", None, <<>>, Public)

(* The status the article gets; the public API asks for none. *)
AdminArticleCreate(c, r, to) == Enter(c, r, "article", "create", to, <<>>, Admin)
AdminArticleUpdate(c, r, to) == Enter(c, r, "article", "set", to, <<>>, Admin \cup Reads)
AdminArticleRemove(c, r) == Enter(c, r, "article", "remove", None, <<>>, Admin \cup Reads)
ArticleCreate(c, r, to) == Enter(c, r, "article", "create", to, <<>>, Public)
ArticleUpdate(c, r) == Enter(c, r, "article", "set", None, <<>>, Public)
ArticleRemove(c, r) == Enter(c, r, "article", "remove", None, <<>>, Public)

(* Their entries, ARTICLE_UPDATED, tell no status. *)
AdminCreateTranslation(c, r) == Enter(c, r, "article", "translate", None, <<>>, Admin)
AdminUpdateTranslation(c, r) == Enter(c, r, "article", "translate", None, <<>>, Admin)
AdminRemoveTranslation(c, r) == Enter(c, r, "article", "edit", None, <<>>, Admin)

(* Only administrators set a slug, and no new name changes it. *)
AdminTagCreate(c, r, base) == Enter(c, r, "tag", "create", Present, <<base>>, Admin)
AdminTagUpdate(c, r, slugs) == Enter(c, r, "tag", "edit", None, slugs, Admin)
AdminTagRemove(c, r) == Enter(c, r, "tag", "remove", None, <<>>, Admin)
TagCreate(c, r, base) == Enter(c, r, "tag", "create", Present, <<base>>, Public)
TagUpdate(c, r) == Enter(c, r, "tag", "edit", None, <<>>, Public)
TagRemove(c, r) == Enter(c, r, "tag", "remove", None, <<>>, Public)

AdminCategoryCreate(c, r, base) == Enter(c, r, "category", "create", Present, <<base>>, Admin)
AdminCategoryUpdate(c, r, slugs) == Enter(c, r, "category", "edit", None, slugs, Admin)
AdminCategoryRemove(c, r) == Enter(c, r, "category", "remove", None, <<>>, Admin)
CategoryCreate(c, r, base) == Enter(c, r, "category", "create", Present, <<base>>, Public)
CategoryUpdate(c, r) == Enter(c, r, "category", "edit", None, <<>>, Public)
CategoryRemove(c, r) == Enter(c, r, "category", "remove", None, <<>>, Public)

AdminWordCreate(c, r, word) == Enter(c, r, "word", "create", Present, <<word>>, Admin)
AdminWordRemove(c, r) == Enter(c, r, "word", "remove", None, <<>>, Admin)
WordCreate(c, r, word) == Enter(c, r, "word", "create", Present, <<word>>, Public)
WordRemove(c, r) == Enter(c, r, "word", "remove", None, <<>>, Public)

-----------------------------------------------------------------------------
(* The services' reads.                                                    *)

At(c, op, kinds) == call[c].pc = "check" /\ call[c].op = op /\ kind[call[c].of] \in kinds

Check(c, fields) ==
    /\ call' = [call EXCEPT ![c] = [fields EXCEPT !.pc = "commit"]]
    /\ UNCHANGED <<kind, state, slug, told>>

Chosen(c, slugs, candidates) ==
    Check(c, [call[c] EXCEPT !.write = call[c].to, !.known = slugs,
                             !.slugs = <<NextFreeSlug(call[c].slugs[1], candidates)>>])

\* Mutant: slugs are looked for that start with the base and a hyphen.
ChooseTagSlugHyphen(c) ==
    /\ At(c, "create", {"tag"})
    /\ LET slugs == SlugsOf("tag")  base == call[c].slugs[1] IN
       Chosen(c, slugs, StartingWith(slugs, base) \ {base})

(* tags.create *)
ChooseTagSlug(c) ==
    /\ At(c, "create", {"tag"})
    /\ LET slugs == SlugsOf("tag") IN
       Chosen(c, slugs, StartingWith(slugs, call[c].slugs[1]))

(* categories.create *)
ChooseCategorySlug(c) ==
    /\ At(c, "create", {"category"})
    /\ LET slugs == SlugsOf("category") IN
       Chosen(c, slugs, StartingWith(slugs, call[c].slugs[1]))

(* banned-words.create goes on if the word is not there (else 409). *)
FindWord(c) ==
    /\ At(c, "create", {"word"})
    /\ LET words == SlugsOf("word") IN
       /\ call[c].slugs[1] \notin words
       /\ Check(c, [call[c] EXCEPT !.write = call[c].to, !.known = words])

(* The creations whose own checks are modelled elsewhere. *)
CheckCreate(c) ==
    /\ At(c, "create", Kind \ Named)
    /\ Check(c, [call[c] EXCEPT !.write = call[c].to])

(* A comment whose new content has a banned word is hidden, unless the     *)
(* request sets a status.                                                  *)
CheckComment(c) == LET r == call[c].of  to == call[c].to IN
    /\ At(c, "set", {"comment"})
    /\ Exists(r)
    /\ \/ /\ to # None => IsValidModerationTransition(state[r], to)
          /\ Check(c, [call[c] EXCEPT !.write = to])
       \/ /\ to = None
          /\ state[r] # "HIDDEN" /\ IsValidModerationTransition(state[r], "HIDDEN")
          /\ Check(c, [call[c] EXCEPT !.write = "HIDDEN"])

CheckArticle(c) == LET to == call[c].to IN
    /\ At(c, "set", {"article"})
    /\ Exists(call[c].of)
    /\ to # None => IsValidModerationTransition(state[call[c].of], to)
    /\ Check(c, [call[c] EXCEPT !.write = to])

(* Any status may follow any for an account or a report. *)
CheckUser(c) ==
    /\ At(c, "set", {"user"})
    /\ Exists(call[c].of)
    /\ Check(c, [call[c] EXCEPT !.write = call[c].to])

(* The article or the comment t, as it is now, is to be changed by the     *)
(* decision `to` on its report: a dismissal puts back what reports took    *)
(* away, a confirmed violation bans a comment, and no article.             *)
Decides(t, to) ==
    \/ to = "DISMISSED" /\ kind[t] = "article" /\ state[t] = "UNDER_REVIEW"
    \/ to = "DISMISSED" /\ kind[t] = "comment" /\ state[t] = "HIDDEN"
    \/ to = "RESOLVED" /\ kind[t] = "comment" /\ Exists(t) /\ state[t] # "BANNED"

(* The target is read without a lock, in the transaction that writes.  A   *)
(* dismissal may leave it alone: other reports on it are open.             *)
CheckReport(c) == LET x == call[c] IN
    /\ At(c, "set", {"report"})
    /\ Exists(x.of)
    /\ \E t \in {None} \cup {r \in Row : Decides(r, x.to)} :
          Check(c, [x EXCEPT !.write = x.to, !.target = t])

(* findOne: the write goes by the row's id anyway. *)
FindRow(c) ==
    /\ \/ At(c, "edit", Kind) \/ At(c, "translate", Kind)
       \/ At(c, "remove", Content \cup {"user", "word"})
    /\ Exists(call[c].of)
    /\ Check(c, call[c])

(* tags.remove and categories.remove look for nothing. *)
FindNothing(c) ==
    /\ At(c, "remove", {"tag", "category"})
    /\ Check(c, call[c])

-----------------------------------------------------------------------------
(* The services' writes.                                                   *)

(* Another request has changed the row d is at work on. *)
Overtaken(d) == IF call[d].pc \in {"check", "commit"} THEN [call[d] EXCEPT !.early = TRUE]
                ELSE [call[d] EXCEPT !.late = TRUE]

(* The entry to come says what the row is.  The ones of a translation say  *)
(* nothing of the article's status, that of a new report nothing of its    *)
(* own.                                                                    *)
Tells(c) == LET k == kind[call[c].of] IN
    /\ k = "article" => call[c].op \notin {"translate", "edit"}
    /\ k = "report" => call[c].op # "create"

\* Mutant: the handler reads the row when the service is done.
SettleReadingLate(c, new, pc) ==
    LET r == call[c].of  changed == {s \in Row : new[s] # state[s]} IN
    /\ state' = new
    /\ call' = [d \in Call |->
           IF d = c THEN IF pc = "idle" THEN NoCall
                         ELSE [call[c] EXCEPT !.pc = pc, !.over = state[r], !.after = new[r],
                                              !.before = IF @ = None THEN @ ELSE new[r],
                                              !.target = None, !.slugs = <<>>, !.known = {}]
           ELSE IF call[d].of \in changed THEN Overtaken(d) ELSE call[d]]
    /\ told' = [s \in Row |-> IF s \in changed /\ ~(s = r /\ call[c].logs /\ Tells(c))
                             THEN None ELSE told[s]]

(* The rows become `new`, and the request goes on at pc.  A change is in   *)
(* doubt that no entry will tell.                                          *)
Settle(c, new, pc) ==
    LET r == call[c].of  changed == {s \in Row : new[s] # state[s]} IN
    /\ state' = new
    /\ call' = [d \in Call |->
           IF d = c THEN IF pc = "idle" THEN NoCall
                         ELSE [call[c] EXCEPT !.pc = pc, !.over = state[r], !.after = new[r],
                                              !.target = None, !.slugs = <<>>, !.known = {}]
           ELSE IF call[d].of \in changed THEN Overtaken(d) ELSE call[d]]
    /\ told' = [s \in Row |-> IF s \in changed /\ ~(s = r /\ call[c].logs /\ Tells(c))
                             THEN None ELSE told[s]]

Logging(c) == IF call[c].logs THEN "log" ELSE "idle"

(* What a new report leaves the rows as, its own aside: at the threshold a *)
(* published article, locked, goes under review, a visible comment hidden. *)
TakenDown ==
    LET articles == {r \in Row : kind[r] = "article" /\ state[r] = "PUBLISHED"}
        comments == {r \in Row : kind[r] = "comment" /\ state[r] = "VISIBLE"}
    IN  {state} \cup {[state EXCEPT ![t] = "UNDER_REVIEW"] : t \in articles}
                \cup {[state EXCEPT ![t] = "HIDDEN"] : t \in comments}

(* createSystemReport: an open report on the comment hidden for a banned   *)
(* word.                                                                   *)
SystemReported ==
    LET free == {r \in Row : /\ kind[r] = "report" /\ state[r] = Absent
                             /\ \A d \in Call : call[d].of # r}
    IN  {state} \cup {[state EXCEPT ![r] = "PENDING"] : r \in free}

(* What a decision makes of its target. *)
Verdict(t, to) == CASE kind[t] = "article" -> "PUBLISHED"
                    [] to = "DISMISSED"    -> "VISIBLE"
                    [] OTHER               -> "BANNED"

Ready(c, op, kinds) == call[c].pc = "commit" /\ call[c].op = op /\ kind[call[c].of] \in kinds

(* tags.create, categories.create and banned-words.create: P2002 if the    *)
(* slug or the word is there by now.                                       *)
InsertNamed(c) == LET r == call[c].of  s == call[c].slugs[1] IN
    /\ Ready(c, "create", Named)
    /\ s \notin SlugsOf(kind[r])
    /\ Settle(c, [state EXCEPT ![r] = call[c].write], Logging(c))
    /\ slug' = [slug EXCEPT ![r] = s]
    /\ UNCHANGED kind

Insert(c) ==
    /\ Ready(c, "create", {"article", "user"})
    /\ Settle(c, [state EXCEPT ![call[c].of] = call[c].write], Logging(c))
    /\ UNCHANGED <<kind, slug>>

InsertReport(c) ==
    /\ Ready(c, "create", {"report"})
    /\ \E s \in TakenDown : Settle(c, [s EXCEPT ![call[c].of] = call[c].write], Logging(c))
    /\ UNCHANGED <<kind, slug>>

(* A shadow-banned author's comment is hidden too, without a report. *)
InsertComment(c) == LET x == call[c] IN
    /\ Ready(c, "create", {"comment"})
    /\ \E s \in IF x.write = "HIDDEN" THEN SystemReported ELSE {state} :
          Settle(c, [s EXCEPT ![x.of] = x.write], Logging(c))
    /\ UNCHANGED <<kind, slug>>

\* Mutant: a request that asks for no status writes none.
SetStatusAlways(c) == LET x == call[c] IN
    /\ Ready(c, "set", Content)
    /\ Exists(x.of)
    /\ \E s \in IF x.write = x.to THEN {state} ELSE SystemReported :
          Settle(c, [s EXCEPT ![x.of] = x.write], Logging(c))
    /\ UNCHANGED <<kind, slug>>

(* comments.update and articles.update; what the comment's scan has found  *)
(* is reported in the same transaction.                                    *)
SetStatus(c) == LET x == call[c] IN
    /\ Ready(c, "set", Content)
    /\ Exists(x.of)
    /\ \E s \in IF x.write = x.to THEN {state} ELSE SystemReported :
          Settle(c, IF x.write = None THEN s ELSE [s EXCEPT ![x.of] = x.write], Logging(c))
    /\ UNCHANGED <<kind, slug>>

(* reports.updateStatus writes the report and, by its id, the target: over *)
(* whatever it has become since it was read.                               *)
SetReport(c) == LET x == call[c]  t == x.target IN
    /\ Ready(c, "set", {"report"})
    /\ Exists(x.of) /\ (t # None => Exists(t))
    /\ Settle(c, [r \in Row |-> IF r = x.of THEN x.write
                                ELSE IF r = t THEN Verdict(t, x.to) ELSE state[r]], Logging(c))
    /\ UNCHANGED <<kind, slug>>

(* users.updateStatus *)
SetUserStatus(c) == LET r == call[c].of IN
    /\ Ready(c, "set", {"user"})
    /\ Exists(r)
    /\ Settle(c, [state EXCEPT ![r] = call[c].write], Logging(c))
    /\ UNCHANGED <<kind, slug>>

Edit(c) == LET r == call[c].of  slugs == call[c].slugs IN
    /\ Exists(r)
    /\ \A s \in Row \ {r} :
          slugs # <<>> /\ kind[s] = kind[r] /\ Exists(s) => slug[s] # slugs[1]
    /\ slug' = IF slugs = <<>> THEN slug ELSE [slug EXCEPT ![r] = slugs[1]]
    /\ Settle(c, state, Logging(c))
    /\ UNCHANGED kind

UpdateTag(c) == Ready(c, "edit", {"tag"}) /\ Edit(c)
UpdateCategory(c) == Ready(c, "edit", {"category"}) /\ Edit(c)

(* article-translations.remove *)
DropTranslation(c) == Ready(c, "edit", {"article"}) /\ Edit(c)

(* The row goes, and with it what the foreign keys cascade to. *)
Delete(c, cascaded) == LET r == call[c].of IN
    /\ Settle(c, [s \in Row |-> IF s = r \/ s \in cascaded THEN Deleted ELSE state[s]], Logging(c))
    /\ slug' = [slug EXCEPT ![r] = <<>>]
    /\ UNCHANGED kind

There(k) == {r \in Row : kind[r] = k /\ Exists(r)}

(* deleteMany, with a 404 if it counts none *)
RemoveTag(c) == Ready(c, "remove", {"tag"}) /\ Exists(call[c].of) /\ Delete(c, {})
RemoveCategory(c) == Ready(c, "remove", {"category"}) /\ Exists(call[c].of) /\ Delete(c, {})
RemoveComment(c) == Ready(c, "remove", {"comment"}) /\ Exists(call[c].of) /\ Delete(c, {})

(* by id, P2025 if it is gone *)
RemoveWord(c) == Ready(c, "remove", {"word"}) /\ Exists(call[c].of) /\ Delete(c, {})

(* The article's comments go with it. *)
RemoveArticle(c) ==
    /\ Ready(c, "remove", {"article"}) /\ Exists(call[c].of)
    /\ \E comments \in SUBSET There("comment") : Delete(c, comments)

(* deleteMany, whose count nobody looks at: two deletions both succeed.    *)
(* The account's reports go with it; its comments only lose their author.  *)
RemoveUser(c) ==
    /\ Ready(c, "remove", {"user"})
    /\ \E reports \in SUBSET There("report") :
          (reports # {} => Exists(call[c].of)) /\ Delete(c, reports)

(* A translation is saved; if it has a banned word, the same service call  *)
(* hides the article in a transaction of its own.                          *)
CommitTranslation(c) ==
    /\ Ready(c, "translate", {"article"})
    /\ Exists(call[c].of)
    /\ \E pc \in {"hide", Logging(c)} : Settle(c, state, pc)
    /\ UNCHANGED <<kind, slug>>

HideArticle(c) == LET r == call[c].of IN
    /\ call[c].pc = "hide"
    /\ Exists(r)
    /\ LET new == IF state[r] \in {"HIDDEN", "BANNED"} THEN state
                                                   ELSE [state EXCEPT ![r] = "HIDDEN"]
       IN  /\ state' = new
           /\ told' = IF new = state THEN told ELSE [told EXCEPT ![r] = None]
           /\ call' = [d \in Call |->
                  IF d = c THEN IF call[c].logs THEN [call[c] EXCEPT !.pc = "log"] ELSE NoCall
                  ELSE IF call[d].of = r /\ new # state THEN Overtaken(d) ELSE call[d]]
    /\ UNCHANGED <<kind, slug>>

(* 404, 400, 409, P2025, P2003, or the process ends. *)
Refused(c) ==
    /\ call[c].pc \in {"check", "commit"}
    /\ call' = [call EXCEPT ![c] = NoCall]
    /\ UNCHANGED <<kind, state, slug, told>>

-----------------------------------------------------------------------------
\* Mutant: the entry tells what was asked for.
LogAsked(c) == LET r == call[c].of IN
    /\ call[c].pc = "log"
    /\ IF ~Tells(c) \/ call[c].to = None
       THEN UNCHANGED told
       ELSE told' = [told EXCEPT ![r] = IF call[c].late THEN None ELSE call[c].to]
    /\ call' = [call EXCEPT ![c] = NoCall]
    /\ UNCHANGED <<kind, state, slug>>

(* AuditLoggerService.log: the entry tells what the service returned. *)
Log(c) == LET r == call[c].of IN
    /\ call[c].pc = "log"
    /\ IF Tells(c)
       THEN told' = [told EXCEPT ![r] = IF call[c].late THEN None ELSE call[c].after]
       ELSE UNCHANGED told
    /\ call' = [call EXCEPT ![c] = NoCall]
    /\ UNCHANGED <<kind, state, slug>>

(* The change is made but never logged: the insert fails, which is only    *)
(* logged to the console; or what the service does after its write throws; *)
(* or the process ends.                                                    *)
LogIsLost(c) ==
    /\ call[c].pc \in {"hide", "log"}
    /\ told' = IF Tells(c) /\ call[c].over # call[c].after
               THEN [told EXCEPT ![call[c].of] = None] ELSE told
    /\ call' = [call EXCEPT ![c] = NoCall]
    /\ UNCHANGED <<kind, state, slug>>

-----------------------------------------------------------------------------
Slugs1 == {<<>>} \cup {<<s>> : s \in Rename}

OnContent(c, r) ==
    \/ \E to \in (Statuses("comment") \cap InUse) \cup {None} : AdminCommentUpdate(c, r, to)
    \/ \E to \in {"VISIBLE", "HIDDEN"} : CommentCreate(c, r, to)
    \/ AdminCommentRemove(c, r) \/ CommentUpdate(c, r) \/ CommentRemove(c, r)
    \/ \E to \in Statuses("article") \cap InUse : AdminArticleCreate(c, r, to)
    \/ \E to \in (Statuses("article") \cap InUse) \cup {None} : AdminArticleUpdate(c, r, to)
    \/ \E to \in {"DRAFT", "HIDDEN"} : ArticleCreate(c, r, to)
    \/ AdminArticleRemove(c, r) \/ ArticleUpdate(c, r) \/ ArticleRemove(c, r)
    \/ AdminCreateTranslation(c, r) \/ AdminUpdateTranslation(c, r) \/ AdminRemoveTranslation(c, r)

OnPeople(c, r) ==
    \/ \E to \in {"PENDING"} \cup (Statuses("report") \cap InUse) : AdminReportCreate(c, r, to)
    \/ ReportCreate(c, r)
    \/ \E to \in Statuses("report") \cap InUse : AdminReportUpdateStatus(c, r, to) \/ ReportUpdateStatus(c, r, to)
    \/ \E to \in Statuses("user") \cap InUse : AdminUserUpdateStatus(c, r, to)
    \/ AdminUserRemove(c, r) \/ UserSync(c, r) \/ UserRemove(c, r)

OnNamed(c, r) ==
    \/ \E base \in Base : \/ AdminTagCreate(c, r, base) \/ TagCreate(c, r, base)
                          \/ AdminCategoryCreate(c, r, base) \/ CategoryCreate(c, r, base)
                          \/ AdminWordCreate(c, r, base) \/ WordCreate(c, r, base)
    \/ \E s \in Slugs1 : AdminTagUpdate(c, r, s) \/ AdminCategoryUpdate(c, r, s)
    \/ AdminTagRemove(c, r) \/ TagUpdate(c, r) \/ TagRemove(c, r)
    \/ AdminCategoryRemove(c, r) \/ CategoryUpdate(c, r) \/ CategoryRemove(c, r)
    \/ AdminWordRemove(c, r) \/ WordRemove(c, r)

Next == \E c \in Call :
    \/ \E r \in Row : OnContent(c, r) \/ OnPeople(c, r) \/ OnNamed(c, r)
    \/ ChooseTagSlug(c) \/ ChooseCategorySlug(c) \/ FindWord(c) \/ CheckCreate(c)
    \/ CheckComment(c) \/ CheckArticle(c) \/ CheckUser(c) \/ CheckReport(c)
    \/ FindRow(c) \/ FindNothing(c)
    \/ InsertNamed(c) \/ Insert(c) \/ InsertReport(c) \/ InsertComment(c)
    \/ SetStatus(c) \/ SetReport(c) \/ SetUserStatus(c)
    \/ UpdateTag(c) \/ UpdateCategory(c) \/ DropTranslation(c)
    \/ RemoveTag(c) \/ RemoveCategory(c) \/ RemoveWord(c)
    \/ RemoveComment(c) \/ RemoveArticle(c) \/ RemoveUser(c)
    \/ CommitTranslation(c) \/ HideArticle(c) \/ Refused(c) \/ Log(c) \/ LogIsLost(c)

Spec == Init /\ [][Next]_vars

-----------------------------------------------------------------------------
(* Properties.                                                             *)

(* Whoever reads the trail of a row to its last entry that tells a status  *)
(* knows what the row is, whatever the entries' order, unless a change was *)
(* not logged (the public API's, a new report's status, what a report or a *)
(* decision made of its target, the system's report, a cascaded deletion,  *)
(* a scanned translation's, a lost entry) or two entries are in the wrong  *)
(* order, and no later entry has set the trail right ("AuditLog su ogni    *)
(* operazione che cambia stato", modules/admin/README.md:116).             *)
TrailTellsTheRow == \A r \in Row :
    \/ told[r] \in {None, state[r]}
    \/ \E c \in Call : /\ call[c].of = r /\ call[c].pc = "log"
                        /\ Tells(c) /\ call[c].over # call[c].after

(* What the handler makes of the two statuses for the entry's action: the  *)
(* admin API compares the one asked for, the public one what came of it.   *)
StatusChanged(c) == IF call[c].admin THEN call[c].to \notin {None, call[c].before}
                                     ELSE call[c].after # call[c].before

(* An entry names as the status before what the service overwrote or       *)
(* deleted, and one on a comment or an article says that the status        *)
(* changed exactly if it did, unless another request changed the row after *)
(* the handler had read it.  An administrator's edit of a comment that a   *)
(* banned word hides is the exception: it is logged as COMMENT_UPDATED     *)
(* (admin-comments.controller.ts:137).                                     *)
EntryIsRight == \A c \in Call :
    call[c].pc = "log" /\ call[c].before # None =>
        \/ call[c].early
        \/ /\ call[c].before = call[c].over
           /\ call[c].op = "set" /\ kind[call[c].of] \in Content =>
                 \/ StatusChanged(c) <=> call[c].over # call[c].after
                 \/ call[c].admin /\ call[c].to = None /\ call[c].after = "HIDDEN"

(* The unique indices refuse a new tag, category or banned word only if    *)
(* another request took the slug, or added the word, after this one had    *)
(* looked (slugify.ts:23, banned-words.service.ts:30).                     *)
RefusalMeansOverlap == \A c \in Call :
    call[c].pc = "commit" /\ call[c].op = "create" /\ kind[call[c].of] \in Named =>
        call[c].slugs[1] \notin call[c].known
=============================================================================
