------------------------------- MODULE Catalogue -------------------------------
(***************************************************************************)
(* Articles with their translations: the slugs the translations are found  *)
(* under, the scan of their text for banned words, and the links a site    *)
(* that follows the webhook events holds.                                  *)
(*                                                                         *)
(* The handlers read, choose and write without a lock in between; every    *)
(* read a later step goes by is a step of its own.  What checkText answers *)
(* for a text is any: the list of banned words changes while texts are     *)
(* written (BackOffice has it), and goes by the text alone.                *)
(***************************************************************************)
EXTENDS Slugs

CONSTANTS
    Article,
    Lang,
    Title,              \* what slugify makes of the titles in use
    Rename,             \* slugs administrators set by hand
    Asked,              \* statuses administrators ask for
    Call,               \* concurrent requests
    MaxRows             \* bound: translations ever inserted

ASSUME CatalogueAssumption ==
    /\ Title \subseteq Slug /\ Rename \subseteq Slug
    /\ Asked \subseteq {"DRAFT", "PUBLISHED", "UNDER_REVIEW", "HIDDEN", "BANNED"}
    /\ MaxRows \in Nat

VARIABLES
    status,             \* each article's, or Absent / Deleted
    dated,              \* the articles whose publishedAt is set
    rows,               \* each article's translation in each language, or NoRow
    inserted,           \* number of rows so far: the next one's id
    call,               \* the requests
    online,             \* the articles the site shows
    links,              \* the slugs it shows each under
    excused             \* articles flagged text may stay published in (ghost)

vars == <<status, dated, rows, inserted, call, online, links, excused>>

Absent == "absent"
Deleted == "deleted"
Status == {"DRAFT", "PUBLISHED", "UNDER_REVIEW", "HIDDEN", "BANNED"}
NoRow == [id |-> 0, slug |-> <<>>, flagged |-> FALSE]

NoCall == [pc |-> "idle", op |-> Absent, of |-> Absent, seen |-> Absent, to |-> Absent,
           langs |-> <<>>, bases |-> <<>>, slugs |-> <<>>, flagged |-> FALSE,
           retext |-> FALSE, row |-> 0, known |-> {}]

TypeOK ==
    /\ status \in [Article -> Status \cup {Absent, Deleted}]
    /\ dated \subseteq Article /\ online \subseteq Article /\ excused \subseteq Article
    /\ rows \in [Article \X Lang -> [id : 0..MaxRows, slug : Seq(Nat), flagged : BOOLEAN]]
    /\ inserted \in 0..MaxRows
    /\ call \in [Call ->
           [pc : {"idle", "slugs", "write", "scan", "hide", "status", "delete"},
            op : {Absent, "article", "translation", "update", "status", "remove"},
            of : Article \cup {Absent}, seen : Status \cup {Absent}, to : Status \cup {Absent},
            langs : Seq(Lang), bases : Seq(Slug), slugs : Seq(Slug), flagged : BOOLEAN,
            retext : BOOLEAN, row : 0..MaxRows, known : SUBSET Slug]]
    /\ links \in [Article -> SUBSET Slug]

Init ==
    /\ status = [a \in Article |-> Absent]
    /\ dated = {} /\ online = {} /\ excused = {}
    /\ rows = [k \in Article \X Lang |-> NoRow]
    /\ inserted = 0
    /\ call = [c \in Call |-> NoCall]
    /\ links = [a \in Article |-> {}]

Exists(a) == status[a] \in Status
Present == {k \in Article \X Lang : rows[k].id # 0}
AllSlugs == {rows[k].slug : k \in Present}
SlugsIn(table, a) == {table[k].slug : k \in {p \in Article \X Lang : p[1] = a /\ table[p].id # 0}}
SlugsOf(a) == SlugsIn(rows, a)
Flagged(a) == \E k \in Present : k[1] = a /\ rows[k].flagged

Become(c, fields) == call' = [call EXCEPT ![c] = fields]

-----------------------------------------------------------------------------
(* publishArticleLifecycleEvent, once the new status is written: a site    *)
(* has the links article.published lists, and purges those that            *)
(* article.unpublished lists.                                              *)
Announce(a, old, new) ==
    \/ /\ new = "PUBLISHED"
       /\ dated' = dated \cup {a}
       /\ online' = online \cup {a}
       /\ links' = [links EXCEPT ![a] = SlugsIn(rows', a)]
    \/ /\ new # "PUBLISHED"
       /\ IF old = "PUBLISHED" /\ a \in dated
          THEN /\ online' = online \ {a}
               /\ links' = [links EXCEPT ![a] = @ \ SlugsIn(rows', a)]
          ELSE UNCHANGED <<online, links>>
       /\ UNCHANGED dated

-----------------------------------------------------------------------------
(* articles.create: the translations `langs`, with titles that slugify to  *)
(* `bases`, position by position; `flagged` if any text has a banned word.  *)

StartCreateArticle(c, a, to, langs, bases, flagged) ==
    /\ call[c].pc = "idle"
    /\ status[a] = Absent /\ \A d \in Call : call[d].of # a
    /\ Become(c, [NoCall EXCEPT !.pc = "slugs", !.op = "article", !.of = a, !.to = to,
                      !.langs = langs, !.bases = bases, !.flagged = flagged])
    /\ UNCHANGED <<status, dated, rows, inserted, online, links, excused>>

(* article-translations.create *)
StartCreate(c, a, lang, base, flagged) ==
    /\ call[c].pc = "idle"
    /\ Exists(a)
    /\ Become(c, [NoCall EXCEPT !.pc = "slugs", !.op = "translation", !.of = a,
                      !.langs = <<lang>>, !.bases = <<base>>, !.flagged = flagged])
    /\ UNCHANGED <<status, dated, rows, inserted, online, links, excused>>

Taken(bases) == UNION {StartingWith(AllSlugs, bases[i]) : i \in DOMAIN bases}

\* Mutant: each language on its own.
ReadTakenEachAlone(c) ==
    /\ call[c].pc = "slugs"
    /\ LET bases == call[c].bases IN
       Become(c, [call[c] EXCEPT !.pc = "write", !.known = AllSlugs, !.bases = <<>>,
           !.slugs = [i \in DOMAIN bases |-> NextFreeSlug(bases[i], Taken(bases))]])
    /\ UNCHANGED <<status, dated, rows, inserted, online, links, excused>>

(* The slugs that are taken, and the choice of free ones. *)
ReadTaken(c) ==
    /\ call[c].pc = "slugs"
    /\ LET bases == call[c].bases IN
       Become(c, [call[c] EXCEPT !.pc = "write", !.known = AllSlugs, !.bases = <<>>,
           !.slugs = ChosenSlugs(bases, Taken(bases))])
    /\ UNCHANGED <<status, dated, rows, inserted, online, links, excused>>

(* @@unique([articleId, languageCode]), @@unique([tenantId, slug]) *)
Conflicts(c) == LET k == call[c] IN
    \/ \E i \in DOMAIN k.langs : \/ rows[<<k.of, k.langs[i]>>].id # 0
                                 \/ k.slugs[i] \in AllSlugs
    \/ \E i, j \in DOMAIN k.langs : i # j /\ (k.langs[i] = k.langs[j] \/ k.slugs[i] = k.slugs[j])

InsertRows(c) == LET k == call[c] IN
    /\ inserted + Len(k.langs) <= MaxRows
    /\ inserted' = inserted + Len(k.langs)
    /\ rows' = [p \in Article \X Lang |->
           IF p[1] = k.of /\ \E i \in DOMAIN k.langs : k.langs[i] = p[2]
           THEN LET i == CHOOSE j \in DOMAIN k.langs : k.langs[j] = p[2]
                IN  [id |-> inserted + i, slug |-> k.slugs[i], flagged |-> k.flagged]
           ELSE rows[p]]

(* The article is hidden before it is seen if its texts have a banned word. *)
InsertArticle(c) ==
    LET k == call[c]
        autoHidden == k.flagged /\ k.to \notin {"HIDDEN", "BANNED"}
        final == IF autoHidden THEN "HIDDEN" ELSE k.to
    IN  /\ k.pc = "write" /\ k.op = "article"
        /\ ~Conflicts(c)
        /\ InsertRows(c)
        /\ status' = [status EXCEPT ![k.of] = final]
        /\ IF autoHidden THEN Announce(k.of, k.to, "HIDDEN")
           ELSE IF final = "PUBLISHED" THEN Announce(k.of, Absent, "PUBLISHED")
           ELSE UNCHANGED <<dated, online, links>>
        /\ Become(c, NoCall)
        /\ UNCHANGED <<excused>>

(* The row is committed on its own; then the scan hides the article. *)
Scan(c) == Become(c, IF ~call[c].flagged THEN NoCall
                     ELSE [NoCall EXCEPT !.pc = "scan", !.op = call[c].op, !.of = call[c].of])

InsertTranslation(c) ==
    /\ call[c].pc = "write" /\ call[c].op = "translation"
    /\ Exists(call[c].of)
    /\ ~Conflicts(c)
    /\ InsertRows(c)
    /\ Scan(c)
    /\ excused' = IF call[c].flagged THEN excused \ {call[c].of} ELSE excused
    /\ UNCHANGED <<status, dated, online, links>>

(* P2002 *)
Conflict(c) ==
    /\ call[c].pc = "write" /\ call[c].op \in {"article", "translation"}
    /\ Conflicts(c)
    /\ Become(c, NoCall)
    /\ UNCHANGED <<status, dated, rows, inserted, online, links, excused>>

-----------------------------------------------------------------------------
(* article-translations.update: the row is looked up, and written by its   *)
(* id.  The text is replaced or stays (no `retext`), and so does the slug   *)
(* (no `slugs`), which only administrators set and which no title changes. *)

StartUpdate(c, a, lang, retext, flagged, slugs) ==
    /\ call[c].pc = "idle"
    /\ rows[<<a, lang>>].id # 0
    /\ Become(c, [NoCall EXCEPT !.pc = "write", !.op = "update", !.of = a,
                      !.langs = <<lang>>, !.row = rows[<<a, lang>>].id, !.slugs = slugs,
                      !.retext = retext, !.flagged = retext /\ flagged])
    /\ UNCHANGED <<status, dated, rows, inserted, online, links, excused>>

RowIsThere(c) == LET k == call[c] IN rows[<<k.of, k.langs[1]>>].id = k.row

SlugTaken(c) == LET k == call[c] IN
    k.slugs # <<>> /\ \E p \in Present : rows[p].slug = k.slugs[1] /\ rows[p].id # k.row

\* Mutants: the slug follows the title; the new text is not scanned.
WriteRegenerating(c) == LET k == call[c] IN
    /\ k.pc = "write" /\ k.op = "update"
    /\ RowIsThere(c) /\ ~SlugTaken(c)
    /\ rows' = [rows EXCEPT
           ![<<k.of, k.langs[1]>>].slug = IF k.retext THEN Numbered(@, 2) ELSE @,
           ![<<k.of, k.langs[1]>>].flagged = IF k.retext THEN k.flagged ELSE @]
    /\ Scan(c)
    /\ excused' = IF k.flagged THEN excused \ {k.of} ELSE excused
    /\ UNCHANGED <<status, dated, inserted, online, links>>

WriteUnscanned(c) == LET k == call[c] IN
    /\ k.pc = "write" /\ k.op = "update"
    /\ RowIsThere(c) /\ ~SlugTaken(c)
    /\ rows' = [rows EXCEPT
           ![<<k.of, k.langs[1]>>].slug = IF k.slugs = <<>> THEN @ ELSE k.slugs[1],
           ![<<k.of, k.langs[1]>>].flagged = IF k.retext THEN k.flagged ELSE @]
    /\ Become(c, NoCall)
    /\ excused' = IF k.flagged THEN excused \ {k.of} ELSE excused
    /\ UNCHANGED <<status, dated, inserted, online, links>>

Write(c) == LET k == call[c] IN
    /\ k.pc = "write" /\ k.op = "update"
    /\ RowIsThere(c) /\ ~SlugTaken(c)
    /\ rows' = [rows EXCEPT
           ![<<k.of, k.langs[1]>>].slug = IF k.slugs = <<>> THEN @ ELSE k.slugs[1],
           ![<<k.of, k.langs[1]>>].flagged = IF k.retext THEN k.flagged ELSE @]
    /\ Scan(c)
    /\ excused' = IF k.flagged THEN excused \ {k.of} ELSE excused
    /\ UNCHANGED <<status, dated, inserted, online, links>>

(* P2025, or 409 SLUG_TAKEN *)
WriteFails(c) ==
    /\ call[c].pc = "write" /\ call[c].op = "update"
    /\ ~RowIsThere(c) \/ SlugTaken(c)
    /\ Become(c, NoCall)
    /\ UNCHANGED <<status, dated, rows, inserted, online, links, excused>>

(* article-translations.remove: one statement, and no event. *)
RemoveTranslation(a, lang) ==
    /\ rows[<<a, lang>>].id # 0
    /\ rows' = [rows EXCEPT ![<<a, lang>>] = NoRow]
    /\ UNCHANGED <<status, dated, inserted, call, online, links, excused>>

-----------------------------------------------------------------------------
(* hideArticleForBannedContent *)

\* Mutant: the article is taken to be there.
ReadForHideGone(c) == LET a == call[c].of IN
    /\ call[c].pc = "scan"
    /\ Become(c, IF status[a] \in {"HIDDEN", "BANNED"} THEN NoCall
                 ELSE [call[c] EXCEPT !.pc = "hide", !.seen = status[a]])
    /\ UNCHANGED <<status, dated, rows, inserted, online, links, excused>>

ReadForHide(c) == LET a == call[c].of IN
    /\ call[c].pc = "scan"
    /\ Become(c, IF ~Exists(a) \/ status[a] \in {"HIDDEN", "BANNED"} THEN NoCall
                 ELSE [call[c] EXCEPT !.pc = "hide", !.seen = status[a]])
    /\ UNCHANGED <<status, dated, rows, inserted, online, links, excused>>

\* Mutant: a published article stays published, as in reports.create.
CommitHideDraft(c) == LET a == call[c].of IN
    /\ call[c].pc = "hide"
    /\ Exists(a)
    /\ status' = [status EXCEPT ![a] = IF @ = "PUBLISHED" THEN @ ELSE "HIDDEN"]
    /\ UNCHANGED rows
    /\ Announce(a, call[c].seen, "HIDDEN")
    /\ Become(c, NoCall)
    /\ excused' = excused \ {a}
    /\ UNCHANGED <<inserted>>

CommitHide(c) == LET a == call[c].of IN
    /\ call[c].pc = "hide"
    /\ Exists(a)
    /\ status' = [status EXCEPT ![a] = "HIDDEN"]
    /\ UNCHANGED rows
    /\ Announce(a, call[c].seen, "HIDDEN")
    /\ Become(c, NoCall)
    /\ excused' = excused \ {a}
    /\ UNCHANGED <<inserted>>

-----------------------------------------------------------------------------
(* articles.update with a status, and articles.remove.                     *)

Successors(from) ==
    CASE from = "DRAFT"        -> {"PUBLISHED", "UNDER_REVIEW", "HIDDEN", "BANNED"}
      [] from = "PUBLISHED"    -> {"DRAFT", "UNDER_REVIEW", "HIDDEN", "BANNED"}
      [] from = "UNDER_REVIEW" -> {"PUBLISHED", "DRAFT", "HIDDEN", "BANNED"}
      [] from = "HIDDEN"       -> {"PUBLISHED", "DRAFT", "BANNED"}
      [] from = "BANNED"       -> {}

ReadForUpdate(c, a, to) ==
    /\ call[c].pc = "idle"
    /\ Exists(a)
    /\ to = status[a] \/ to \in Successors(status[a])
    /\ Become(c, [NoCall EXCEPT !.pc = "status", !.op = "status", !.of = a,
                                !.seen = status[a], !.to = to])
    /\ UNCHANGED <<status, dated, rows, inserted, online, links, excused>>

(* An administrator who publishes flagged text has the last word on it. *)
CommitUpdate(c) == LET a == call[c].of  to == call[c].to IN
    /\ call[c].pc = "status"
    /\ Exists(a)
    /\ status' = [status EXCEPT ![a] = to]
    /\ UNCHANGED rows
    /\ IF to # call[c].seen THEN Announce(a, call[c].seen, to)
                            ELSE UNCHANGED <<dated, online, links>>
    /\ excused' = IF to = "PUBLISHED" /\ Flagged(a) THEN excused \cup {a} ELSE excused
    /\ Become(c, NoCall)
    /\ UNCHANGED <<inserted>>

(* "Slugs and titles are gone after the delete: read them first." *)
ReadSummary(c, a) ==
    /\ call[c].pc = "idle"
    /\ Exists(a)
    /\ Become(c, [NoCall EXCEPT !.pc = "delete", !.op = "remove", !.of = a,
                                !.known = SlugsOf(a)])
    /\ UNCHANGED <<status, dated, rows, inserted, online, links, excused>>

\* Mutant: the summary is read after the delete.
CommitDeleteUnread(c) == LET a == call[c].of IN
    /\ call[c].pc = "delete"
    /\ Exists(a)
    /\ status' = [status EXCEPT ![a] = Deleted]
    /\ rows' = [p \in Article \X Lang |-> IF p[1] = a THEN NoRow ELSE rows[p]]
    /\ online' = online \ {a}
    /\ links' = [links EXCEPT ![a] = @ \ SlugsIn(rows', a)]
    /\ excused' = excused \ {a}
    /\ Become(c, NoCall)
    /\ UNCHANGED <<dated, inserted>>

(* The translations go with the article; article.deleted lists those read. *)
CommitDelete(c) == LET a == call[c].of IN
    /\ call[c].pc = "delete"
    /\ Exists(a)
    /\ status' = [status EXCEPT ![a] = Deleted]
    /\ rows' = [p \in Article \X Lang |-> IF p[1] = a THEN NoRow ELSE rows[p]]
    /\ online' = online \ {a}
    /\ links' = [links EXCEPT ![a] = @ \ call[c].known]
    /\ excused' = excused \ {a}
    /\ Become(c, NoCall)
    /\ UNCHANGED <<dated, inserted>>

(* The article went meanwhile (P2025, P2003). *)
CallFails(c) ==
    /\ call[c].pc \in {"write", "hide", "status", "delete"} /\ call[c].op # "article"
    /\ ~Exists(call[c].of)
    /\ Become(c, NoCall)
    /\ UNCHANGED <<status, dated, rows, inserted, online, links, excused>>

(* The process ends, and the transactions it had open with it. *)
Crash(c) ==
    /\ call[c].pc # "idle"
    /\ excused' = IF call[c].pc \in {"scan", "hide"} THEN excused \cup {call[c].of} ELSE excused
    /\ Become(c, NoCall)
    /\ UNCHANGED <<status, dated, rows, inserted, online, links>>

-----------------------------------------------------------------------------
Languages == {<<l>> : l \in Lang} \cup {p \in Lang \X Lang : p[1] # p[2]}

Next ==
    \/ \E c \in Call, a \in Article :
          \/ \E to \in Asked \cup {"DRAFT"}, langs \in Languages, flagged \in BOOLEAN :
                \E bases \in [1..Len(langs) -> Title] :
                    StartCreateArticle(c, a, to, langs, bases, flagged)
          \/ \E l \in Lang, t \in Title, flagged \in BOOLEAN : StartCreate(c, a, l, t, flagged)
          \/ \E l \in Lang, retext, flagged \in BOOLEAN, s \in {<<r>> : r \in Rename} \cup {<<>>} :
                StartUpdate(c, a, l, retext, flagged, s)
          \/ \E to \in Asked : ReadForUpdate(c, a, to)
          \/ ReadSummary(c, a)
    \/ \E c \in Call :
          \/ ReadTaken(c) \/ InsertArticle(c) \/ InsertTranslation(c) \/ Conflict(c)
          \/ Write(c) \/ WriteFails(c) \/ ReadForHide(c) \/ CommitHide(c)
          \/ CommitUpdate(c) \/ CommitDelete(c) \/ CallFails(c) \/ Crash(c)
    \/ \E a \in Article, l \in Lang : RemoveTranslation(a, l)

Spec == Init /\ [][Next]_vars

-----------------------------------------------------------------------------
(* Properties.                                                             *)

(* Text found to contain a banned word does not stay published: if it      *)
(* is, the scan that will hide the article is on its way, or it was lost   *)
(* with its process, or an administrator published the article since       *)
(* (article-translations.service.ts:123, :224).                            *)
FlaggedIsHidden == \A a \in Article : status[a] = "PUBLISHED" /\ Flagged(a) =>
    \/ a \in excused
    \/ \E c \in Call : call[c].of = a /\ call[c].pc \in {"scan", "hide"}

(* A creation is refused for its slug only if another request took that    *)
(* slug after this one had looked: the slugs it chose were free, and       *)
(* different from each other, however the tenant's slugs are numbered      *)
(* (slugify.ts:23, "due create concorrenti con lo stesso titolo").         *)
ConflictMeansOverlap == \A c \in Call :
    call[c].pc = "write" /\ call[c].op \in {"article", "translation"} =>
        LET slugs == call[c].slugs IN
        /\ \A i \in DOMAIN slugs : slugs[i] \notin call[c].known
        /\ \A i, j \in DOMAIN slugs : i # j => slugs[i] # slugs[j]

(* The commit, in this step, of a call that had read a status or a summary *)
(* of the article that was out of date.                                    *)
StaleCommit(a) == \E c \in Call :
    /\ call[c].of = a /\ call'[c] = NoCall
    /\ \/ call[c].pc \in {"status", "hide"} /\ call[c].seen # status[a]
       \/ call[c].pc = "delete" /\ call[c].known # SlugsOf(a)

(* A translation is renamed by an administrator, or removed. *)
Renamed(a, s) == \E l \in Lang :
    /\ rows[<<a, l>>].id # 0 /\ rows[<<a, l>>].slug = s
    /\ rows'[<<a, l>>].id = 0 \/ rows'[<<a, l>>].slug # s
    /\ UNCHANGED status
    /\ \A c \in Call : call[c].pc = "write" /\ call'[c] # call[c] => call[c].slugs # <<>>

(* A link the site has leads somewhere: it is a translation's slug and its *)
(* article is published.  Only a rename or a removal of the translation,   *)
(* which no event tells, or a commit by an outdated read leaves it dead:   *)
(* the events list what there is to link or purge                          *)
(* (webhook-event-publisher.service.ts:203).                               *)
Leads(a, s) == s \in links[a] => status[a] = "PUBLISHED" /\ s \in SlugsOf(a)
LinksStayAlive == [][\A a \in Article : \A s \in UNION {links[b] \cup links'[b] : b \in Article} :
    Leads(a, s) => Leads(a, s)' \/ StaleCommit(a) \/ Renamed(a, s)]_vars

(* As ArticleLifecycle has it: a set of dated articles is a flag on each,  *)
(* and a request counts while it holds a status it read.                   *)
PublishedAt(d) == [a \in Article |-> a \in d]
Firsts(d) == [a \in Article |-> IF a \in d THEN 1 ELSE 0]
OutOfIt == [pc |-> "idle", of |-> Absent, seen |-> Absent, to |-> Absent]
Holding(x) ==
    CASE x.pc = "status" -> [pc |-> "update", of |-> x.of, seen |-> x.seen, to |-> x.to]
      [] x.pc = "hide"   -> [pc |-> "hide", of |-> x.of, seen |-> x.seen, to |-> "HIDDEN"]
      [] OTHER           -> OutOfIt
Holdings(calls) == [c \in Call |-> Holding(calls[c])]

(* What ArticleLifecycle promises holds with the translations, the scan    *)
(* and the slugs in full: its scan comes when a text is flagged, and its   *)
(* calls end early when they are refused.                                  *)
Lifecycle == INSTANCE ArticleLifecycle WITH
    Report <- {}, Target <- <<>>, FiledAs <- {}, Caller <- Call,
    Moderator <- {}, Decision <- {}, Threshold <- 1,
    publishedAt <- PublishedAt(dated),
    report <- <<>>, filing <- <<>>, review <- <<>>,
    call <- Holdings(call),
    firsts <- Firsts(dated)

ImplementsLifecycle == Lifecycle!Spec
=============================================================================
