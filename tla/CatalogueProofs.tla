---------------------------- MODULE CatalogueProofs ----------------------------
(***************************************************************************)
(* Proofs about Catalogue, for any articles, languages, titles, requests   *)
(* and number of rows: text with a banned word stays behind a scan, links  *)
(* die only by what no event tells, the slugs chosen for a list of titles  *)
(* are free, and the whole implements ArticleLifecycle, whose theorems     *)
(* hold of it then.                                                        *)
(***************************************************************************)
EXTENDS Catalogue, FiniteSetTheorems, SequenceTheorems, TLAPS

(* Of a request or a row, only that it has its fields: the types come with *)
(* the slugs, at the end.                                                  *)
IsCall(x) == x \in [pc : {x.pc}, op : {x.op}, of : {x.of}, seen : {x.seen}, to : {x.to},
                    langs : {x.langs}, bases : {x.bases}, slugs : {x.slugs},
                    flagged : {x.flagged}, retext : {x.retext}, row : {x.row},
                    known : {x.known}]
IsRow(x) == x \in [id : {x.id}, slug : {x.slug}, flagged : {x.flagged}]

Shapes ==
    /\ status \in [Article -> Status \cup {Absent, Deleted}]
    /\ dated \subseteq Article /\ online \subseteq Article
    /\ rows = [k \in Article \X Lang |-> rows[k]] /\ \A k \in Article \X Lang : IsRow(rows[k])
    /\ call = [c \in Call |-> call[c]] /\ \A c \in Call : IsCall(call[c])
    /\ links = [a \in Article |-> links[a]]

(* What a request may rely on, wherever it has come; st and dt are the     *)
(* articles' statuses and dates.                                           *)
Fits(x, st, dt) ==
    /\ x.pc \in {"idle", "slugs", "write", "scan", "hide", "status", "delete"}
    /\ x.pc # "idle" => x.of \in Article
    /\ x.pc \in {"slugs", "write"} =>
           /\ x.op \in {"article", "translation", "update"}
           /\ x.op = "article" => st[x.of] = Absent /\ x.to \in Status
           /\ x.op # "article" => st[x.of] # Absent
           /\ x.flagged \in BOOLEAN
    /\ x.pc \notin {"slugs", "write"} => x.op # "article"
    /\ x.pc \in {"scan", "hide", "status", "delete"} => st[x.of] # Absent
    /\ x.pc = "status" => /\ x.seen \in Status /\ x.to \in Status
                          /\ x.to = x.seen \/ x.to \in Successors(x.seen)
    /\ x.pc = "hide" => x.seen \in Status \ {"HIDDEN", "BANNED"}
    /\ x.pc \in {"hide", "status"} /\ x.seen = "PUBLISHED" => x.of \in dt

CallsFit == \A c \in Call : Fits(call[c], status, dated)

(* An article that is being created is one request's. *)
CreatedOnce == \A c, d \in Call :
    call[c].op = "article" /\ call[d].pc # "idle" /\ c # d => call[d].of # call[c].of

RowsHaveArticles == \A k \in Article \X Lang : rows[k].id # 0 => Exists(k[1])

PublishedIsDated == \A a \in Article : status[a] = "PUBLISHED" => a \in dated

Inv == Shapes /\ CallsFit /\ CreatedOnce /\ RowsHaveArticles /\ PublishedIsDated

-----------------------------------------------------------------------------
LEMMA Values ==
    /\ Absent \notin Status /\ Deleted \notin Status /\ Absent # Deleted
    /\ Status = {"DRAFT", "PUBLISHED", "UNDER_REVIEW", "HIDDEN", "BANNED"}
    /\ Asked \subseteq Status
    /\ NoRow.id = 0 /\ ~NoRow.flagged /\ NoRow.slug = <<>> /\ IsRow(NoRow)
BY CatalogueAssumption DEF Status, Absent, Deleted, NoRow, IsRow

LEMMA Idle ==
    /\ IsCall(NoCall) /\ NoCall.pc = "idle" /\ NoCall.op = Absent
    /\ \A st, dt : Fits(NoCall, st, dt)
BY DEF NoCall, IsCall, Fits, Absent

LEMMA InitInv == Init => Inv
<1>. SUFFICES ASSUME Init PROVE Inv
  OBVIOUS
<1>1. Shapes
  <2>1. \A k \in Article \X Lang : rows[k] = NoRow
    BY DEF Init
  <2>2. \A c \in Call : call[c] = NoCall
    BY DEF Init
  <2>. QED
    BY <2>1, <2>2, Values, Idle DEF Init, Shapes
<1>2. CallsFit /\ CreatedOnce
  BY Idle DEF Init, CallsFit, CreatedOnce, Absent
<1>3. RowsHaveArticles /\ PublishedIsDated
  BY Values DEF Init, RowsHaveArticles, PublishedIsDated
<1>. QED
  BY <1>1, <1>2, <1>3 DEF Inv

-----------------------------------------------------------------------------
(* A request goes on as y, wherever the others are. *)
LEMMA CallStep ==
    ASSUME Inv, NEW c \in Call, NEW y, Become(c, y), IsCall(y),
           Fits(y, status', dated'),
           \/ y.pc = "idle"
           \/ call[c].pc # "idle" /\ y.of = call[c].of /\ y.op = call[c].op
           \/ y.op # "article" /\ Exists(y.of)
           \/ \A d \in Call : call[d].of # y.of,
           \A a \in Article : status[a] # Absent => status'[a] # Absent,
           \A a \in Article : status'[a] # status[a] /\ status[a] = Absent =>
               call[c].op = "article" /\ call[c].of = a,
           dated \subseteq dated'
    PROVE  /\ CallsFit' /\ CreatedOnce'
           /\ call' = [d \in Call |-> call'[d]] /\ \A d \in Call : IsCall(call'[d])
           /\ call'[c] = y /\ \A d \in Call \ {c} : call'[d] = call[d]
<1>1. call'[c] = y /\ \A d \in Call \ {c} : call'[d] = call[d]
  BY DEF Become, Inv, Shapes
<1>2. /\ call' = [d \in Call |-> call'[d]] /\ \A d \in Call : IsCall(call'[d])
  BY <1>1 DEF Become, Inv, Shapes
<1>3. ASSUME NEW d \in Call \ {c} PROVE Fits(call'[d], status', dated')
  <2>1. Fits(call[d], status, dated) /\ call'[d] = call[d]
    BY <1>1 DEF Inv, CallsFit
  <2>2. call[d].op = "article" => call[d].pc \in {"slugs", "write"} /\ call[d].of \in Article
    BY <2>1 DEF Fits
  <2>3. call[c].op = "article" /\ call[d].pc # "idle" => call[d].of # call[c].of
    BY DEF Inv, CreatedOnce
  <2>4. call[d].pc # "idle" => call[d].of \in Article
    BY <2>1 DEF Fits
  <2>5. call[d].op = "article" /\ call[d].pc \in {"slugs", "write"} =>
            status'[call[d].of] = Absent
    BY <2>1, <2>3, <2>4 DEF Fits
  <2>6. call[d].pc # "idle" /\ status[call[d].of] # Absent => status'[call[d].of] # Absent
    BY <2>4
  <2>. QED
    BY <2>1, <2>4, <2>5, <2>6 DEF Fits
<1>4. CallsFit'
  BY <1>1, <1>3 DEF CallsFit
<1>5. \A d \in Call : /\ call[d].op = "article" => status[call[d].of] = Absent /\ call[d].pc # "idle"
                      /\ y.op = "article" => y.pc # "idle"
  BY DEF Inv, CallsFit, Fits
<1>6. ASSUME NEW d \in Call \ {c}
      PROVE  /\ y.op = "article" /\ call[d].pc # "idle" => call[d].of # y.of
             /\ call[d].op = "article" /\ y.pc # "idle" => y.of # call[d].of
  BY <1>5, Values DEF Inv, CreatedOnce, Exists
<1>7. CreatedOnce'
  BY <1>1, <1>6 DEF CreatedOnce, Inv
<1>. QED
  BY <1>1, <1>2, <1>4, <1>7


(* The steps that change a request only. *)
LEMMA CallOnly ==
    ASSUME Inv, NEW c \in Call, NEW y, Become(c, y), IsCall(y), Fits(y, status, dated),
           \/ y.pc = "idle"
           \/ call[c].pc # "idle" /\ y.of = call[c].of /\ y.op = call[c].op
           \/ y.op # "article" /\ Exists(y.of)
           \/ \A d \in Call : call[d].of # y.of,
           UNCHANGED <<status, dated, rows, online, links>>
    PROVE  Inv'
<1>1. Fits(y, status', dated')
  OBVIOUS
<1>2. /\ CallsFit' /\ CreatedOnce'
      /\ call' = [d \in Call |-> call'[d]] /\ \A d \in Call : IsCall(call'[d])
  BY <1>1, CallStep
<1>3. Shapes' /\ RowsHaveArticles' /\ PublishedIsDated'
  BY <1>2 DEF Inv, Shapes, RowsHaveArticles, PublishedIsDated, Exists
<1>. QED
  BY <1>2, <1>3 DEF Inv

LEMMA StartsKeep ==
    ASSUME Inv, NEW c \in Call, NEW a \in Article
    PROVE  /\ \A langs, bases : \A to \in Asked \cup {"DRAFT"}, flagged \in BOOLEAN :
                  StartCreateArticle(c, a, to, langs, bases, flagged) => Inv'
           /\ \A base : \A lang \in Lang, flagged \in BOOLEAN :
                  StartCreate(c, a, lang, base, flagged) => Inv'
           /\ \A slugs : \A lang \in Lang, retext, flagged \in BOOLEAN :
                  StartUpdate(c, a, lang, retext, flagged, slugs) => Inv'
           /\ \A to \in Asked : ReadForUpdate(c, a, to) => Inv'
           /\ ReadSummary(c, a) => Inv'
<1>1. ASSUME NEW to \in Asked \cup {"DRAFT"}, NEW langs, NEW bases, NEW flagged \in BOOLEAN,
             StartCreateArticle(c, a, to, langs, bases, flagged)
      PROVE  Inv'
  <2>. DEFINE y == [NoCall EXCEPT !.pc = "slugs", !.op = "article", !.of = a, !.to = to,
                      !.langs = langs, !.bases = bases, !.flagged = flagged]
  <2>1. /\ IsCall(y) /\ y.pc = "slugs" /\ y.op = "article" /\ y.of = a /\ y.to = to
        /\ y.flagged = flagged
    BY DEF NoCall, IsCall
  <2>2. /\ Become(c, y) /\ status[a] = Absent /\ \A d \in Call : call[d].of # a
        /\ UNCHANGED <<status, dated, rows, online, links>>
    BY <1>1 DEF StartCreateArticle
  <2>. HIDE DEF y
  <2>3. Fits(y, status, dated)
    BY <2>1, <2>2, Values DEF Fits
  <2>. QED
    BY <2>1, <2>2, <2>3, CallOnly
<1>2. ASSUME NEW lang \in Lang, NEW base, NEW flagged \in BOOLEAN,
             StartCreate(c, a, lang, base, flagged)
      PROVE  Inv'
  <2>. DEFINE y == [NoCall EXCEPT !.pc = "slugs", !.op = "translation", !.of = a,
                      !.langs = <<lang>>, !.bases = <<base>>, !.flagged = flagged]
  <2>1. /\ IsCall(y) /\ y.pc = "slugs" /\ y.op = "translation" /\ y.of = a
        /\ y.flagged = flagged
    BY DEF NoCall, IsCall
  <2>2. /\ Become(c, y) /\ Exists(a)
        /\ UNCHANGED <<status, dated, rows, online, links>>
    BY <1>2 DEF StartCreate
  <2>. HIDE DEF y
  <2>3. Fits(y, status, dated)
    BY <2>1, <2>2, Values DEF Fits, Exists
  <2>. QED
    BY <2>1, <2>2, <2>3, CallOnly
<1>3. ASSUME NEW lang \in Lang, NEW retext \in BOOLEAN, NEW flagged \in BOOLEAN, NEW slugs,
             StartUpdate(c, a, lang, retext, flagged, slugs)
      PROVE  Inv'
  <2>. DEFINE y == [NoCall EXCEPT !.pc = "write", !.op = "update", !.of = a,
                      !.langs = <<lang>>, !.row = rows[<<a, lang>>].id, !.slugs = slugs,
                      !.retext = retext, !.flagged = retext /\ flagged]
  <2>1. /\ IsCall(y) /\ y.pc = "write" /\ y.op = "update" /\ y.of = a
        /\ y.flagged = (retext /\ flagged)
    BY DEF NoCall, IsCall
  <2>2. /\ Become(c, y) /\ rows[<<a, lang>>].id # 0
        /\ UNCHANGED <<status, dated, rows, online, links>>
    BY <1>3 DEF StartUpdate
  <2>3. Exists(a)
    BY <2>2 DEF Inv, RowsHaveArticles
  <2>. HIDE DEF y
  <2>4. Fits(y, status, dated)
    BY <2>1, <2>3, Values DEF Fits, Exists
  <2>. QED
    BY <2>1, <2>2, <2>3, <2>4, CallOnly
<1>4. ASSUME NEW to \in Asked, ReadForUpdate(c, a, to) PROVE Inv'
  <2>. DEFINE y == [NoCall EXCEPT !.pc = "status", !.op = "status", !.of = a,
                                !.seen = status[a], !.to = to]
  <2>1. /\ IsCall(y) /\ y.pc = "status" /\ y.op = "status" /\ y.of = a
        /\ y.seen = status[a] /\ y.to = to
    BY DEF NoCall, IsCall
  <2>2. /\ Become(c, y) /\ Exists(a) /\ (to = status[a] \/ to \in Successors(status[a]))
        /\ UNCHANGED <<status, dated, rows, online, links>>
    BY <1>4 DEF ReadForUpdate
  <2>. HIDE DEF y
  <2>3. Fits(y, status, dated)
    BY <2>1, <2>2, Values DEF Fits, Exists, Inv, PublishedIsDated
  <2>. QED
    BY <2>1, <2>2, <2>3, CallOnly
<1>5. ASSUME ReadSummary(c, a) PROVE Inv'
  <2>. DEFINE y == [NoCall EXCEPT !.pc = "delete", !.op = "remove", !.of = a,
                                !.known = SlugsOf(a)]
  <2>1. IsCall(y) /\ y.pc = "delete" /\ y.op = "remove" /\ y.of = a
    BY DEF NoCall, IsCall
  <2>2. /\ Become(c, y) /\ Exists(a)
        /\ UNCHANGED <<status, dated, rows, online, links>>
    BY <1>5 DEF ReadSummary
  <2>. HIDE DEF y
  <2>3. Fits(y, status, dated)
    BY <2>1, <2>2, Values DEF Fits, Exists
  <2>. QED
    BY <2>1, <2>2, <2>3, CallOnly
<1>. QED
  BY <1>1, <1>2, <1>3, <1>4, <1>5

(* The request ends, and nothing else. *)
LEMMA EndsKeep ==
    ASSUME Inv, NEW c \in Call, Become(c, NoCall),
           UNCHANGED <<status, dated, rows, online, links>>
    PROVE  Inv'
BY Idle, CallOnly

LEMMA WaysToEnd ==
    ASSUME Inv, NEW c \in Call, Conflict(c) \/ WriteFails(c) \/ CallFails(c) \/ Crash(c)
    PROVE  Inv'
BY EndsKeep DEF Conflict, WriteFails, CallFails, Crash

LEMMA ReadsKeep ==
    ASSUME Inv, NEW c \in Call, ReadTaken(c) \/ ReadForHide(c)
    PROVE  Inv'
<1>0. Fits(call[c], status, dated) /\ IsCall(call[c])
  BY DEF Inv, CallsFit, Shapes
<1>1. ASSUME ReadTaken(c) PROVE Inv'
  <2>. DEFINE bases == call[c].bases
              y == [call[c] EXCEPT !.pc = "write", !.known = AllSlugs, !.bases = <<>>,
                        !.slugs = ChosenSlugs(bases, Taken(bases))]
  <2>1. Become(c, y) /\ call[c].pc = "slugs"
        /\ UNCHANGED <<status, dated, rows, online, links>>
    BY <1>1 DEF ReadTaken
  <2>2. /\ IsCall(y) /\ y.pc = "write" /\ y.of = call[c].of /\ y.op = call[c].op
        /\ y.to = call[c].to /\ y.flagged = call[c].flagged
    BY <1>0 DEF IsCall
  <2>. HIDE DEF y
  <2>3. Fits(y, status, dated)
    BY <1>0, <2>1, <2>2 DEF Fits
  <2>. QED
    BY <2>1, <2>2, <2>3, CallOnly
<1>2. ASSUME ReadForHide(c) PROVE Inv'
  <2>. DEFINE a == call[c].of  y == [call[c] EXCEPT !.pc = "hide", !.seen = status[a]]
  <2>1. CASE ~Exists(a) \/ status[a] \in {"HIDDEN", "BANNED"}
    BY <1>2, <2>1, EndsKeep DEF ReadForHide
  <2>2. CASE Exists(a) /\ status[a] \notin {"HIDDEN", "BANNED"}
    <3>1. Become(c, y) /\ call[c].pc = "scan"
          /\ UNCHANGED <<status, dated, rows, online, links>>
      BY <1>2, <2>2 DEF ReadForHide
    <3>2. IsCall(y) /\ y.pc = "hide" /\ y.of = a /\ y.op = call[c].op /\ y.seen = status[a]
      BY <1>0 DEF IsCall
    <3>. HIDE DEF y
    <3>3. Fits(y, status, dated)
      BY <1>0, <2>2, <3>1, <3>2 DEF Fits, Exists, Inv, PublishedIsDated
    <3>. QED
      BY <3>1, <3>2, <3>3, CallOnly
  <2>. QED
    BY <2>1, <2>2
<1>. QED
  BY <1>1, <1>2

-----------------------------------------------------------------------------
(* The steps that write an article's status or a translation. *)

LEMMA Announced ==
    ASSUME Shapes, NEW a \in Article, NEW old, NEW new, Announce(a, old, new)
    PROVE  /\ dated \subseteq dated' /\ dated' \subseteq Article /\ online' \subseteq Article
           /\ links' = [b \in Article |-> links'[b]]
           /\ new = "PUBLISHED" => a \in dated'
BY DEF Announce, Shapes

LEMMA StatusStep ==
    ASSUME Inv, NEW c \in Call, call[c].pc # "idle", Become(c, NoCall),
           NEW new \in Status \cup {Deleted},
           status' = [status EXCEPT ![call[c].of] = new],
           dated \subseteq dated', dated' \subseteq Article, online' \subseteq Article,
           links' = [b \in Article |-> links'[b]],
           new = "PUBLISHED" => call[c].of \in dated',
           rows' = [k \in Article \X Lang |-> rows'[k]],
           \A k \in Article \X Lang : IsRow(rows'[k]),
           \A k \in Article \X Lang : rows'[k].id # 0 =>
               IF k[1] = call[c].of THEN new \in Status ELSE rows[k].id # 0
    PROVE  Inv'
<1>1. Fits(call[c], status, dated) /\ call[c].of \in Article
  BY DEF Inv, CallsFit, Fits
<1>2. status[call[c].of] = Absent => call[c].op = "article"
  BY <1>1 DEF Fits
<1>3. /\ status' \in [Article -> Status \cup {Absent, Deleted}] /\ status'[call[c].of] = new
      /\ \A a \in Article \ {call[c].of} : status'[a] = status[a]
  BY <1>1 DEF Inv, Shapes
<1>4. new # Absent /\ NoCall.pc = "idle" /\ IsCall(NoCall) /\ Fits(NoCall, status', dated')
  BY Values, Idle
<1>5. /\ CallsFit' /\ CreatedOnce'
      /\ call' = [d \in Call |-> call'[d]] /\ \A d \in Call : IsCall(call'[d])
  BY <1>2, <1>3, <1>4, CallStep
<1>6. Shapes'
  BY <1>3, <1>5 DEF Shapes
<1>7. RowsHaveArticles'
  <2>. SUFFICES ASSUME NEW k \in Article \X Lang, rows'[k].id # 0 PROVE status'[k[1]] \in Status
    BY DEF RowsHaveArticles, Exists
  <2>1. k[1] \in Article /\ (k[1] # call[c].of => status[k[1]] \in Status)
    BY DEF Inv, RowsHaveArticles, Exists
  <2>. QED
    BY <1>3, <2>1
<1>8. PublishedIsDated'
  BY <1>3, Values DEF PublishedIsDated, Inv
<1>. QED
  BY <1>5, <1>6, <1>7, <1>8 DEF Inv

LEMMA InsertedRows ==
    ASSUME Inv, NEW c \in Call, InsertRows(c)
    PROVE  /\ rows' = [p \in Article \X Lang |-> rows'[p]]
           /\ \A p \in Article \X Lang : /\ IsRow(rows'[p])
                                         /\ p[1] # call[c].of => rows'[p] = rows[p]
<1>1. \A p \in Article \X Lang : \/ rows'[p] = rows[p]
                                 \/ /\ p[1] = call[c].of
                                    /\ \E i, s, f : rows'[p] = [id |-> i, slug |-> s, flagged |-> f]
  BY DEF InsertRows
<1>2. \A i, s, f : IsRow([id |-> i, slug |-> s, flagged |-> f])
  BY DEF IsRow
<1>3. rows' = [p \in Article \X Lang |-> rows'[p]]
  BY DEF InsertRows
<1>4. \A p \in Article \X Lang : IsRow(rows[p])
  BY DEF Inv, Shapes
<1>. QED
  BY <1>1, <1>2, <1>3, <1>4

LEMMA InsertArticleKeeps ==
    ASSUME Inv, NEW c \in Call, InsertArticle(c) PROVE Inv'
<1>. DEFINE a == call[c].of
            autoHidden == call[c].flagged /\ call[c].to \notin {"HIDDEN", "BANNED"}
            final == IF autoHidden THEN "HIDDEN" ELSE call[c].to
<1>1. call[c].pc = "write" /\ Fits(call[c], status, dated) /\ a \in Article /\ final \in Status
  BY Values DEF InsertArticle, Inv, CallsFit, Fits
<1>2. /\ status' = [status EXCEPT ![a] = final] /\ Become(c, NoCall) /\ InsertRows(c)
      /\ \/ \E old : Announce(a, old, final)
         \/ final # "PUBLISHED" /\ UNCHANGED <<dated, online, links>>
  <2>1. CASE autoHidden
    BY <2>1 DEF InsertArticle
  <2>2. CASE ~autoHidden /\ final = "PUBLISHED"
    BY <2>2 DEF InsertArticle
  <2>3. CASE ~autoHidden /\ final # "PUBLISHED"
    BY <2>3 DEF InsertArticle
  <2>. QED
    BY <2>1, <2>2, <2>3
<1>. HIDE DEF final
<1>3. /\ dated \subseteq dated' /\ dated' \subseteq Article /\ online' \subseteq Article
      /\ links' = [b \in Article |-> links'[b]]
      /\ final = "PUBLISHED" => a \in dated'
  <2>1. ASSUME NEW old, Announce(a, old, final)
        PROVE  /\ dated \subseteq dated' /\ dated' \subseteq Article /\ online' \subseteq Article
               /\ links' = [b \in Article |-> links'[b]]
               /\ final = "PUBLISHED" => a \in dated'
    BY <1>1, <2>1, Announced DEF Inv
  <2>. QED
    BY <1>2, <2>1 DEF Inv, Shapes
<1>4. /\ rows' = [p \in Article \X Lang |-> rows'[p]]
      /\ \A p \in Article \X Lang : IsRow(rows'[p]) /\ (p[1] # a => rows'[p] = rows[p])
  BY <1>2, InsertedRows
<1>5. /\ final \in Status \cup {Deleted} /\ call[c].pc # "idle"
      /\ \A p \in Article \X Lang : IsRow(rows'[p])
      /\ \A p \in Article \X Lang : rows'[p].id # 0 =>
             IF p[1] = a THEN final \in Status ELSE rows[p].id # 0
  BY <1>1, <1>4
<1>6. rows' = [p \in Article \X Lang |-> rows'[p]]
  BY <1>4
<1>. QED
  BY <1>2, <1>3, <1>5, <1>6, StatusStep, Zenon

LEMMA CommitHideKeeps ==
    ASSUME Inv, NEW c \in Call, CommitHide(c) PROVE Inv'
<1>1. call[c].pc = "hide" /\ call[c].of \in Article
  BY DEF CommitHide, Inv, CallsFit, Fits
<1>2. /\ Become(c, NoCall) /\ UNCHANGED rows /\ Exists(call[c].of)
      /\ status' = [status EXCEPT ![call[c].of] = "HIDDEN"]
      /\ Announce(call[c].of, call[c].seen, "HIDDEN")
  BY DEF CommitHide
<1>3. /\ dated \subseteq dated' /\ dated' \subseteq Article /\ online' \subseteq Article
      /\ links' = [b \in Article |-> links'[b]]
  BY <1>1, <1>2, Announced DEF Inv
<1>4. /\ rows' = [p \in Article \X Lang |-> rows'[p]]
      /\ \A p \in Article \X Lang : IsRow(rows'[p]) /\ rows'[p] = rows[p]
      /\ \A p \in Article \X Lang : rows[p].id # 0 => rows'[p].id # 0
  BY <1>2 DEF Inv, Shapes
<1>. QED
  BY <1>1, <1>2, <1>3, <1>4, Values, StatusStep

LEMMA CommitUpdateKeeps ==
    ASSUME Inv, NEW c \in Call, CommitUpdate(c) PROVE Inv'
<1>. DEFINE a == call[c].of  to == call[c].to
<1>1. /\ call[c].pc = "status" /\ a \in Article /\ to \in Status
      /\ call[c].seen = "PUBLISHED" => a \in dated
  BY DEF CommitUpdate, Inv, CallsFit, Fits
<1>2. /\ Become(c, NoCall) /\ UNCHANGED rows
      /\ status' = [status EXCEPT ![a] = to]
      /\ \/ Announce(a, call[c].seen, to)
         \/ to = call[c].seen /\ UNCHANGED <<dated, online, links>>
  BY DEF CommitUpdate
<1>3. /\ dated \subseteq dated' /\ dated' \subseteq Article /\ online' \subseteq Article
      /\ links' = [b \in Article |-> links'[b]]
      /\ to = "PUBLISHED" => a \in dated'
  <2>1. CASE Announce(a, call[c].seen, to)
    BY <1>1, <2>1, Announced DEF Inv
  <2>. QED
    BY <1>1, <1>2, <2>1 DEF Inv, Shapes
<1>4. /\ rows' = [p \in Article \X Lang |-> rows'[p]]
      /\ \A p \in Article \X Lang : IsRow(rows'[p]) /\ rows'[p] = rows[p]
  BY <1>2 DEF Inv, Shapes
<1>. QED
  BY <1>1, <1>2, <1>3, <1>4, StatusStep

LEMMA CommitDeleteKeeps ==
    ASSUME Inv, NEW c \in Call, CommitDelete(c) PROVE Inv'
<1>. DEFINE a == call[c].of
<1>1. call[c].pc = "delete" /\ a \in Article
  BY DEF CommitDelete, Inv, CallsFit, Fits
<1>2. /\ Become(c, NoCall) /\ status' = [status EXCEPT ![a] = Deleted]
      /\ rows' = [p \in Article \X Lang |-> IF p[1] = a THEN NoRow ELSE rows[p]]
      /\ UNCHANGED dated /\ online' = online \ {a}
      /\ links' = [links EXCEPT ![a] = @ \ call[c].known]
  BY DEF CommitDelete
<1>3. /\ rows' = [p \in Article \X Lang |-> rows'[p]]
      /\ \A p \in Article \X Lang : /\ IsRow(rows'[p])
                                    /\ rows'[p].id # 0 => p[1] # a /\ rows[p].id # 0
  BY <1>2, Values DEF Inv, Shapes
<1>4. /\ dated \subseteq dated' /\ dated' \subseteq Article /\ online' \subseteq Article
      /\ links' = [b \in Article |-> links'[b]]
  BY <1>2 DEF Inv, Shapes
<1>. QED
  BY <1>1, <1>2, <1>3, <1>4, Values, StatusStep

(* The steps that write translations and no status. *)
LEMMA RowStep ==
    ASSUME Inv, NEW c \in Call, NEW y, Become(c, y), IsCall(y), Fits(y, status, dated),
           y.pc = "idle" \/ (call[c].pc # "idle" /\ y.of = call[c].of /\ y.op = call[c].op),
           UNCHANGED <<status, dated, online, links>>,
           rows' = [k \in Article \X Lang |-> rows'[k]],
           \A k \in Article \X Lang : IsRow(rows'[k]),
           \A k \in Article \X Lang : rows'[k].id # 0 => rows[k].id # 0 \/ Exists(k[1])
    PROVE  Inv'
<1>1. Fits(y, status', dated')
  OBVIOUS
<1>2. /\ CallsFit' /\ CreatedOnce'
      /\ call' = [d \in Call |-> call'[d]] /\ \A d \in Call : IsCall(call'[d])
  BY <1>1, CallStep
<1>3. Shapes' /\ PublishedIsDated'
  BY <1>2 DEF Inv, Shapes, PublishedIsDated
<1>4. RowsHaveArticles'
  BY DEF Inv, RowsHaveArticles, Exists
<1>. QED
  BY <1>2, <1>3, <1>4 DEF Inv

(* After a translation is written, the request is over or scans. *)
LEMMA Scans ==
    ASSUME Inv, NEW c \in Call, call[c].pc = "write", call[c].op # "article", Scan(c)
    PROVE  \E y : /\ Become(c, y) /\ IsCall(y) /\ Fits(y, status, dated)
                  /\ y.pc = "idle" \/ (y.pc = "scan" /\ y.of = call[c].of /\ y.op = call[c].op)
                  /\ call[c].flagged => y.pc = "scan"
<1>. DEFINE z == [NoCall EXCEPT !.pc = "scan", !.op = call[c].op, !.of = call[c].of]
<1>0. Fits(call[c], status, dated)
  BY DEF Inv, CallsFit
<1>1. CASE ~call[c].flagged
  <2>1. Become(c, NoCall) /\ IsCall(NoCall) /\ Fits(NoCall, status, dated)
        /\ NoCall.pc = "idle"
    BY <1>1, Idle DEF Scan
  <2>. WITNESS NoCall
  <2>. QED
    BY <1>1, <2>1
<1>2. CASE call[c].flagged
  <2>1. Become(c, z)
    BY <1>2 DEF Scan
  <2>2. IsCall(z) /\ z.pc = "scan" /\ z.op = call[c].op /\ z.of = call[c].of
    BY DEF NoCall, IsCall
  <2>. HIDE DEF z
  <2>3. Fits(z, status, dated)
    BY <1>0, <2>2 DEF Fits
  <2>. QED
    BY <2>1, <2>2, <2>3
<1>. QED
  BY <1>1, <1>2

LEMMA InsertTranslationKeeps ==
    ASSUME Inv, NEW c \in Call, InsertTranslation(c) PROVE Inv'
<1>1. /\ call[c].pc = "write" /\ call[c].op # "article" /\ Exists(call[c].of)
      /\ InsertRows(c) /\ Scan(c) /\ UNCHANGED <<status, dated, online, links>>
  BY DEF InsertTranslation
<1>2. PICK y : /\ Become(c, y) /\ IsCall(y) /\ Fits(y, status, dated)
               /\ y.pc = "idle" \/ (y.of = call[c].of /\ y.op = call[c].op)
  BY <1>1, Scans
<1>3. /\ rows' = [p \in Article \X Lang |-> rows'[p]]
      /\ \A p \in Article \X Lang : IsRow(rows'[p]) /\ (p[1] # call[c].of => rows'[p] = rows[p])
  BY <1>1, InsertedRows
<1>. QED
  BY <1>1, <1>2, <1>3, RowStep

LEMMA WrittenRows ==
    ASSUME Inv, NEW c \in Call, Write(c)
    PROVE  /\ rows' = [p \in Article \X Lang |-> rows'[p]]
           /\ \A p \in Article \X Lang :
                  IF p = <<call[c].of, call[c].langs[1]>>
                  THEN /\ IsRow(rows'[p]) /\ rows'[p].id = rows[p].id
                       /\ rows'[p].slug = IF call[c].slugs = <<>> THEN rows[p].slug
                                                                  ELSE call[c].slugs[1]
                       /\ rows'[p].flagged = IF call[c].retext THEN call[c].flagged
                                                               ELSE rows[p].flagged
                  ELSE rows'[p] = rows[p]
<1>. DEFINE q == <<call[c].of, call[c].langs[1]>>
            s == IF call[c].slugs = <<>> THEN rows[q].slug ELSE call[c].slugs[1]
            f == IF call[c].retext THEN call[c].flagged ELSE rows[q].flagged
<1>1. rows' = [rows EXCEPT ![q].slug = s, ![q].flagged = f]
  BY DEF Write
<1>2. /\ rows = [p \in Article \X Lang |-> rows[p]]
      /\ \A p \in Article \X Lang : IsRow(rows[p])
  BY DEF Inv, Shapes
<1>. HIDE DEF s, f
<1>3. /\ rows' = [p \in Article \X Lang |-> rows'[p]]
      /\ \A p \in Article \X Lang :
             rows'[p] = IF p = q THEN [[rows[p] EXCEPT !.slug = s] EXCEPT !.flagged = f]
                                 ELSE rows[p]
  BY <1>1, <1>2
<1>4. ASSUME q \in Article \X Lang
      PROVE  IsRow(rows'[q]) /\ rows'[q].id = rows[q].id /\ rows'[q].slug = s /\ rows'[q].flagged = f
  BY <1>2, <1>3, <1>4 DEF IsRow
<1>. QED
  BY <1>3, <1>4 DEF s, f

LEMMA WriteKeeps ==
    ASSUME Inv, NEW c \in Call, Write(c) PROVE Inv'
<1>1. /\ call[c].pc = "write" /\ call[c].op # "article"
      /\ Scan(c) /\ UNCHANGED <<status, dated, online, links>>
  BY DEF Write
<1>2. PICK y : /\ Become(c, y) /\ IsCall(y) /\ Fits(y, status, dated)
               /\ y.pc = "idle" \/ (y.of = call[c].of /\ y.op = call[c].op)
  BY <1>1, Scans
<1>3. /\ rows' = [p \in Article \X Lang |-> rows'[p]]
      /\ \A p \in Article \X Lang : IsRow(rows'[p]) /\ rows'[p].id = rows[p].id
  BY WrittenRows DEF Inv, Shapes
<1>. QED
  BY <1>1, <1>2, <1>3, RowStep

LEMMA RemoveTranslationKeeps ==
    ASSUME Inv, NEW a \in Article, NEW l \in Lang, RemoveTranslation(a, l) PROVE Inv'
<1>1. /\ rows' = [rows EXCEPT ![<<a, l>>] = NoRow]
      /\ UNCHANGED <<status, dated, call, online, links>>
  BY DEF RemoveTranslation
<1>2. /\ rows' = [p \in Article \X Lang |-> rows'[p]]
      /\ \A p \in Article \X Lang : IsRow(rows'[p]) /\ (rows'[p].id # 0 => rows[p].id # 0)
  BY <1>1, Values DEF Inv, Shapes
<1>3. Shapes' /\ CallsFit' /\ CreatedOnce' /\ PublishedIsDated'
  BY <1>1, <1>2 DEF Inv, Shapes, CallsFit, CreatedOnce, PublishedIsDated
<1>4. RowsHaveArticles'
  BY <1>1, <1>2 DEF Inv, RowsHaveArticles, Exists
<1>. QED
  BY <1>3, <1>4 DEF Inv

LEMMA Invariance == Spec => []Inv
<1>1. Inv /\ [Next]_vars => Inv'
  <2>. SUFFICES ASSUME Inv, [Next]_vars PROVE Inv'
    OBVIOUS
  <2>1. ASSUME NEW c \in Call, NEW a \in Article,
               \/ \E to \in Asked \cup {"DRAFT"}, langs \in Languages, flagged \in BOOLEAN :
                     \E bases \in [1..Len(langs) -> Title] :
                         StartCreateArticle(c, a, to, langs, bases, flagged)
               \/ \E l \in Lang, t \in Title, flagged \in BOOLEAN : StartCreate(c, a, l, t, flagged)
               \/ \E l \in Lang, retext, flagged \in BOOLEAN, s \in {<<r>> : r \in Rename} \cup {<<>>} :
                     StartUpdate(c, a, l, retext, flagged, s)
               \/ \E to \in Asked : ReadForUpdate(c, a, to)
               \/ ReadSummary(c, a)
        PROVE  Inv'
    <3>1. ASSUME NEW to \in Asked \cup {"DRAFT"}, NEW langs \in Languages, NEW flagged \in BOOLEAN,
                 NEW bases \in [1..Len(langs) -> Title],
                 StartCreateArticle(c, a, to, langs, bases, flagged)
          PROVE  Inv'
      BY <3>1, StartsKeep, Zenon
    <3>2. ASSUME NEW l \in Lang, NEW t \in Title, NEW flagged \in BOOLEAN,
                 StartCreate(c, a, l, t, flagged)
          PROVE  Inv'
      BY <3>2, StartsKeep, Zenon
    <3>3. ASSUME NEW l \in Lang, NEW retext \in BOOLEAN, NEW flagged \in BOOLEAN,
                 NEW s \in {<<r>> : r \in Rename} \cup {<<>>},
                 StartUpdate(c, a, l, retext, flagged, s)
          PROVE  Inv'
      BY <3>3, StartsKeep, Zenon
    <3>4. ASSUME NEW to \in Asked, ReadForUpdate(c, a, to) PROVE Inv'
      BY <3>4, StartsKeep
    <3>5. ASSUME ReadSummary(c, a) PROVE Inv'
      BY <3>5, StartsKeep
    <3>. QED
      BY <2>1, <3>1, <3>2, <3>3, <3>4, <3>5, Zenon
  <2>2. ASSUME NEW c \in Call,
               \/ ReadTaken(c) \/ InsertArticle(c) \/ InsertTranslation(c) \/ Conflict(c)
               \/ Write(c) \/ WriteFails(c) \/ ReadForHide(c) \/ CommitHide(c)
               \/ CommitUpdate(c) \/ CommitDelete(c) \/ CallFails(c) \/ Crash(c)
        PROVE  Inv'
    BY <2>2, ReadsKeep, WaysToEnd, InsertArticleKeeps, InsertTranslationKeeps, WriteKeeps,
       CommitHideKeeps, CommitUpdateKeeps, CommitDeleteKeeps
  <2>3. ASSUME NEW a \in Article, NEW l \in Lang, RemoveTranslation(a, l) PROVE Inv'
    BY <2>3, RemoveTranslationKeeps
  <2>4. CASE UNCHANGED vars
    BY <2>4 DEF vars, Inv, Shapes, CallsFit, CreatedOnce, RowsHaveArticles, PublishedIsDated, Exists
  <2>. QED
    BY <2>1, <2>2, <2>3, <2>4, Zenon DEF Next
<1>. QED
  BY <1>1, InitInv, PTL DEF Spec

-----------------------------------------------------------------------------
(* Flagged text. *)

Scanning(a) == \E c \in Call : call[c].of = a /\ call[c].pc \in {"scan", "hide"}

LEMMA BecomeOnly ==
    ASSUME Inv, NEW c \in Call, NEW y, Become(c, y)
    PROVE  call'[c] = y /\ \A d \in Call \ {c} : call'[d] = call[d]
BY DEF Become, Inv, Shapes

(* No article comes to be published, no text to be flagged, and no scan    *)
(* ends.                                                                   *)
LEMMA QuietFlags ==
    ASSUME Inv, FlaggedIsHidden, NEW c \in Call, NEW y, Become(c, y),
           call[c].pc \notin {"scan", "hide"} \/ (y.of = call[c].of /\ y.pc \in {"scan", "hide"}),
           UNCHANGED <<status, rows, excused>>
    PROVE  FlaggedIsHidden'
<1>1. call'[c] = y /\ \A d \in Call \ {c} : call'[d] = call[d]
  BY BecomeOnly
<1>2. \A a \in Article : Scanning(a) => Scanning(a)'
  BY <1>1 DEF Scanning
<1>. QED
  BY <1>2 DEF FlaggedIsHidden, Flagged, Present, Scanning

(* The translations of an article change: those now flagged were, or their *)
(* request scans.                                                          *)
LEMMA RowFlags ==
    ASSUME Inv, FlaggedIsHidden, NEW c \in Call, NEW y, Become(c, y), call[c].pc = "write",
           y.pc \in {"scan", "idle"}, y.pc = "scan" => y.of = call[c].of,
           UNCHANGED status,
           \A k \in Article \X Lang : rows'[k].id # 0 /\ rows'[k].flagged =>
               \/ rows[k].id # 0 /\ rows[k].flagged
               \/ k[1] = call[c].of /\ y.pc = "scan",
           \A a \in Article : a \in excused /\ a \notin excused' => a = call[c].of /\ y.pc = "scan"
    PROVE  FlaggedIsHidden'
<1>1. call'[c] = y /\ \A d \in Call \ {c} : call'[d] = call[d]
  BY BecomeOnly
<1>2. \A a \in Article : Scanning(a) => Scanning(a)'
  BY <1>1 DEF Scanning
<1>3. \A a \in Article : a = call[c].of /\ y.pc = "scan" => Scanning(a)'
  BY <1>1 DEF Scanning
<1>4. \A a \in Article : Flagged(a)' => Flagged(a) \/ (a = call[c].of /\ y.pc = "scan")
  BY DEF Flagged, Present
<1>5. ASSUME NEW a \in Article, status[a] = "PUBLISHED", Flagged(a)'
      PROVE  a \in excused' \/ Scanning(a)'
  <2>1. CASE a = call[c].of /\ y.pc = "scan"
    BY <1>3, <2>1
  <2>2. CASE Flagged(a) /\ ~(a = call[c].of /\ y.pc = "scan")
    <3>1. a \in excused \/ Scanning(a)
      BY <1>5, <2>2 DEF FlaggedIsHidden, Scanning
    <3>. QED
      BY <1>2, <2>2, <3>1
  <2>. QED
    BY <1>4, <1>5, <2>1, <2>2
<1>. QED
  BY <1>5 DEF FlaggedIsHidden, Scanning

(* One article gets a status: it is not PUBLISHED, its text is not         *)
(* flagged, or it is excused.                                              *)
LEMMA StatusFlags ==
    ASSUME Inv, FlaggedIsHidden, NEW c \in Call, Become(c, NoCall), call[c].of \in Article,
           \A a \in Article \ {call[c].of} :
               status'[a] = status[a] /\ (a \in excused => a \in excused'),
           \A k \in Article \X Lang : k[1] # call[c].of => rows'[k] = rows[k],
           \/ status'[call[c].of] # "PUBLISHED"
           \/ \A k \in Article \X Lang : k[1] = call[c].of => rows'[k].id = 0 \/ ~rows'[k].flagged
           \/ call[c].of \in excused'
    PROVE  FlaggedIsHidden'
<1>1. call'[c] = NoCall /\ \A d \in Call \ {c} : call'[d] = call[d]
  BY BecomeOnly
<1>2. \A a \in Article : Flagged(a)' =>
          \E k \in Article \X Lang : k[1] = a /\ rows'[k].id # 0 /\ rows'[k].flagged
  BY DEF Flagged, Present
<1>3. \A k \in Article \X Lang : rows[k].id # 0 /\ rows[k].flagged => Flagged(k[1])
  BY DEF Flagged, Present
<1>4. ASSUME NEW a \in Article, status'[a] = "PUBLISHED", Flagged(a)'
      PROVE  a \in excused' \/ Scanning(a)'
  <2>1. PICK k \in Article \X Lang : k[1] = a /\ rows'[k].id # 0 /\ rows'[k].flagged
    BY <1>2, <1>4
  <2>2. CASE a = call[c].of
    BY <1>4, <2>1, <2>2
  <2>3. CASE a # call[c].of
    <3>1. a \in excused \/ Scanning(a)
      BY <1>3, <1>4, <2>1, <2>3 DEF FlaggedIsHidden, Scanning
    <3>. QED
      BY <1>1, <2>3, <3>1 DEF Scanning
  <2>. QED
    BY <2>2, <2>3
<1>. QED
  BY <1>4 DEF FlaggedIsHidden, Scanning

LEMMA FlagsKeep ==
    ASSUME Inv, FlaggedIsHidden, [Next]_vars PROVE FlaggedIsHidden'
<1>0. /\ \A c \in Call : Fits(call[c], status, dated) /\ IsCall(call[c])
      /\ \A k \in Article \X Lang : rows[k].id # 0 => Exists(k[1])
  BY DEF Inv, CallsFit, Shapes, RowsHaveArticles
<1>1. ASSUME NEW c \in Call, NEW y, Become(c, y), call[c].pc = "idle",
             UNCHANGED <<status, rows, excused>>
      PROVE  FlaggedIsHidden'
  BY <1>1, QuietFlags
<1>2. ASSUME NEW c \in Call, NEW a \in Article, NEW to, NEW langs, NEW bases, NEW flagged,
             \/ StartCreateArticle(c, a, to, langs, bases, flagged)
             \/ StartCreate(c, a, langs, bases, flagged)
             \/ ReadForUpdate(c, a, to) \/ ReadSummary(c, a)
      PROVE  FlaggedIsHidden'
  BY <1>1, <1>2 DEF StartCreateArticle, StartCreate, ReadForUpdate, ReadSummary
<1>3. ASSUME NEW c \in Call, NEW a \in Article, NEW lang, NEW retext, NEW flagged, NEW slugs,
             StartUpdate(c, a, lang, retext, flagged, slugs)
      PROVE  FlaggedIsHidden'
  BY <1>1, <1>3 DEF StartUpdate
<1>4. ASSUME NEW c \in Call, ReadTaken(c) PROVE FlaggedIsHidden'
  BY <1>4, QuietFlags DEF ReadTaken
<1>5. ASSUME NEW c \in Call, Conflict(c) \/ WriteFails(c) PROVE FlaggedIsHidden'
  BY <1>5, QuietFlags DEF Conflict, WriteFails
<1>6. ASSUME NEW c \in Call, InsertArticle(c) PROVE FlaggedIsHidden'
  <2>. DEFINE a == call[c].of
              autoHidden == call[c].flagged /\ call[c].to \notin {"HIDDEN", "BANNED"}
              final == IF autoHidden THEN "HIDDEN" ELSE call[c].to
  <2>1. /\ a \in Article /\ status[a] = Absent /\ call[c].flagged \in BOOLEAN
        /\ Become(c, NoCall) /\ InsertRows(c) /\ UNCHANGED excused
        /\ status' = [status EXCEPT ![a] = final]
    BY <1>0, <1>6 DEF InsertArticle, Fits
  <2>2. status'[a] = final /\ \A b \in Article \ {a} : status'[b] = status[b]
    BY <2>1 DEF Inv, Shapes
  <2>3. \A k \in Article \X Lang : k[1] # a => rows'[k] = rows[k]
    BY <2>1, InsertedRows
  <2>4. \A k \in Article \X Lang : k[1] = a =>
            rows'[k] = rows[k] \/ rows'[k].flagged = call[c].flagged
    BY <2>1 DEF InsertRows
  <2>5. \A k \in Article \X Lang : k[1] = a => rows[k].id = 0
    BY <1>0, <2>1, Values DEF Exists
  <2>6. \/ final # "PUBLISHED"
        \/ \A k \in Article \X Lang : k[1] = a => rows'[k].id = 0 \/ ~rows'[k].flagged
    BY <2>1, <2>4, <2>5
  <2>. HIDE DEF final
  <2>. QED
    BY <2>1, <2>2, <2>3, <2>6, StatusFlags
<1>7. ASSUME NEW c \in Call, InsertTranslation(c) PROVE FlaggedIsHidden'
  <2>1. /\ call[c].pc = "write" /\ call[c].op # "article" /\ UNCHANGED status
        /\ InsertRows(c) /\ Scan(c)
        /\ excused' = IF call[c].flagged THEN excused \ {call[c].of} ELSE excused
    BY <1>7 DEF InsertTranslation
  <2>2. PICK y : /\ Become(c, y)
                 /\ y.pc = "idle" \/ (y.pc = "scan" /\ y.of = call[c].of)
                 /\ call[c].flagged => y.pc = "scan"
    BY <2>1, Scans
  <2>3. \A k \in Article \X Lang :
            \/ rows'[k] = rows[k]
            \/ k[1] = call[c].of /\ rows'[k].flagged = call[c].flagged
    BY <2>1 DEF InsertRows
  <2>. QED
    BY <2>1, <2>2, <2>3, RowFlags
<1>8. ASSUME NEW c \in Call, Write(c) PROVE FlaggedIsHidden'
  <2>1. /\ call[c].pc = "write" /\ call[c].op # "article" /\ UNCHANGED status /\ Scan(c)
        /\ excused' = IF call[c].flagged THEN excused \ {call[c].of} ELSE excused
    BY <1>8 DEF Write
  <2>2. PICK y : /\ Become(c, y)
                 /\ y.pc = "idle" \/ (y.pc = "scan" /\ y.of = call[c].of)
                 /\ call[c].flagged => y.pc = "scan"
    BY <2>1, Scans
  <2>3. \A k \in Article \X Lang :
            \/ rows'[k] = rows[k]
            \/ /\ k[1] = call[c].of /\ rows'[k].id = rows[k].id
               /\ rows'[k].flagged = call[c].flagged \/ rows'[k].flagged = rows[k].flagged
    BY <1>8, WrittenRows
  <2>4. \A k \in Article \X Lang : rows'[k].id # 0 /\ rows'[k].flagged =>
            \/ rows[k].id # 0 /\ rows[k].flagged
            \/ k[1] = call[c].of /\ y.pc = "scan"
    BY <2>2, <2>3
  <2>. QED
    BY <2>1, <2>2, <2>4, RowFlags
<1>9. ASSUME NEW a \in Article, NEW l \in Lang, RemoveTranslation(a, l) PROVE FlaggedIsHidden'
  <2>1. rows' = [rows EXCEPT ![<<a, l>>] = NoRow] /\ UNCHANGED <<status, call, excused>>
    BY <1>9 DEF RemoveTranslation
  <2>2. \A k \in Article \X Lang : rows'[k].id # 0 => rows'[k] = rows[k]
    BY <2>1, Values DEF Inv, Shapes
  <2>3. \A b \in Article : Flagged(b)' => Flagged(b)
    BY <2>2 DEF Flagged, Present
  <2>. QED
    BY <2>1, <2>3 DEF FlaggedIsHidden
<1>10. ASSUME NEW c \in Call, ReadForHide(c) PROVE FlaggedIsHidden'
  <2>. DEFINE a == call[c].of  y == [call[c] EXCEPT !.pc = "hide", !.seen = status[a]]
  <2>1. call[c].pc = "scan" /\ a \in Article /\ UNCHANGED <<status, rows, excused>>
    BY <1>0, <1>10 DEF ReadForHide, Fits
  <2>2. CASE ~Exists(a) \/ status[a] \in {"HIDDEN", "BANNED"}
    <3>1. Become(c, NoCall) /\ status[a] # "PUBLISHED"
      BY <1>10, <2>2, Values DEF ReadForHide, Exists
    <3>. QED
      BY <2>1, <3>1, StatusFlags
  <2>3. CASE Exists(a) /\ status[a] \notin {"HIDDEN", "BANNED"}
    <3>1. Become(c, y)
      BY <1>10, <2>3 DEF ReadForHide
    <3>2. y.pc = "hide" /\ y.of = a
      BY <1>0 DEF IsCall
    <3>. HIDE DEF y
    <3>. QED
      BY <2>1, <3>1, <3>2, QuietFlags
  <2>. QED
    BY <2>2, <2>3
<1>11. ASSUME NEW c \in Call, CommitHide(c) \/ CommitUpdate(c) \/ CommitDelete(c)
       PROVE  FlaggedIsHidden'
  <2>. DEFINE a == call[c].of
  <2>1. a \in Article /\ Become(c, NoCall)
    BY <1>0, <1>11 DEF CommitHide, CommitUpdate, CommitDelete, Fits
  <2>2. \E new : status' = [status EXCEPT ![a] = new]
    BY <1>11 DEF CommitHide, CommitUpdate, CommitDelete
  <2>3. \A b \in Article \ {a} : status'[b] = status[b] /\ (b \in excused => b \in excused')
    BY <1>11, <2>2 DEF CommitHide, CommitUpdate, CommitDelete, Inv, Shapes
  <2>4. \A k \in Article \X Lang : k[1] # a => rows'[k] = rows[k]
    BY <1>11 DEF CommitHide, CommitUpdate, CommitDelete
  <2>5. CASE CommitHide(c) \/ CommitDelete(c)
    <3>1. status'[a] # "PUBLISHED"
      BY <2>1, <2>5 DEF CommitHide, CommitDelete, Deleted, Inv, Shapes
    <3>. QED
      BY <2>1, <2>3, <2>4, <3>1, StatusFlags
  <2>6. CASE CommitUpdate(c)
    <3>1. /\ status'[a] = call[c].to /\ UNCHANGED rows
          /\ excused' = IF call[c].to = "PUBLISHED" /\ Flagged(a) THEN excused \cup {a} ELSE excused
      BY <2>1, <2>6 DEF CommitUpdate, Inv, Shapes
    <3>2. \/ status'[a] # "PUBLISHED" \/ a \in excused'
          \/ \A k \in Article \X Lang : k[1] = a => rows'[k].id = 0 \/ ~rows'[k].flagged
      BY <2>1, <3>1 DEF Flagged, Present
    <3>. QED
      BY <2>1, <2>3, <2>4, <3>2, StatusFlags
  <2>. QED
    BY <1>11, <2>5, <2>6
<1>12. ASSUME NEW c \in Call, CallFails(c) \/ Crash(c) PROVE FlaggedIsHidden'
  <2>1. Become(c, NoCall) /\ UNCHANGED <<status, rows>> /\ call[c].pc # "idle"
        /\ call[c].of \in Article /\ excused \subseteq excused'
    BY <1>0, <1>12 DEF CallFails, Crash, Fits
  <2>2. CASE call[c].pc \in {"scan", "hide"}
    <3>1. status[call[c].of] # "PUBLISHED" \/ call[c].of \in excused'
      BY <1>12, <2>2, Values DEF CallFails, Crash, Exists
    <3>. QED
      BY <2>1, <3>1, StatusFlags
  <2>3. CASE call[c].pc \notin {"scan", "hide"}
    <3>1. UNCHANGED excused
      BY <1>12, <2>3 DEF CallFails, Crash
    <3>. QED
      BY <2>1, <2>3, <3>1, QuietFlags
  <2>. QED
    BY <2>2, <2>3
<1>13. ASSUME UNCHANGED vars PROVE FlaggedIsHidden'
  BY <1>13 DEF vars, FlaggedIsHidden, Flagged, Present
<1>. QED
  BY <1>2, <1>3, <1>4, <1>5, <1>6, <1>7, <1>8, <1>9, <1>10, <1>11, <1>12, <1>13, Zenon DEF Next

(* However creations, edits, scans and status updates overlap, text with a *)
(* banned word is published only in front of a scan, after a crash or by   *)
(* an administrator (article-translations.service.ts:123, :224).           *)
THEOREM FlaggedStaysHidden == Spec => []FlaggedIsHidden
<1>1. Init => FlaggedIsHidden
  BY DEF Init, FlaggedIsHidden, Absent
<1>. QED
  BY <1>1, FlagsKeep, Invariance, PTL DEF Spec

-----------------------------------------------------------------------------
(* Refinement: a creation, a status update, a scan's transaction or a      *)
(* deletion is a step of ArticleLifecycle; everything else is none.        *)

LEMMA PublishedAtIs ==
    ASSUME NEW d
    PROVE  /\ PublishedAt(d) \in [Article -> BOOLEAN]
           /\ \A a \in Article : PublishedAt(d)[a] <=> a \in d
<1>1. PublishedAt(d) \in [Article -> BOOLEAN]
  BY SMT DEF PublishedAt
<1>2. \A a \in Article : PublishedAt(d)[a] <=> a \in d
  BY Zenon DEF PublishedAt
<1>. QED
  BY <1>1, <1>2

LEMMA SameFlags ==
    ASSUME NEW f \in [Article -> BOOLEAN], NEW g \in [Article -> BOOLEAN],
           \A a \in Article : f[a] <=> g[a]
    PROVE  f = g
OBVIOUS

LEMMA FlagSet ==
    ASSUME NEW d, NEW a \in Article
    PROVE  PublishedAt(d \cup {a}) = [PublishedAt(d) EXCEPT ![a] = TRUE]
<1>. DEFINE g == [PublishedAt(d) EXCEPT ![a] = TRUE]
<1>1. g \in [Article -> BOOLEAN]
  BY PublishedAtIs
<1>2. \A x \in Article : g[x] <=> PublishedAt(d)[x] \/ x = a
  BY PublishedAtIs
<1>3. \A x \in Article : PublishedAt(d \cup {a})[x] <=> g[x]
  BY <1>2, PublishedAtIs, Zenon
<1>. HIDE DEF g
<1>4. PublishedAt(d \cup {a}) = g
  BY <1>1, <1>3, PublishedAtIs, SameFlags, Zenon
<1>. QED
  BY <1>4 DEF g

LEMMA CountUp ==
    ASSUME NEW f \in [Article -> Nat], NEW g \in [Article -> Nat], NEW a \in Article,
           g[a] = f[a] + 1, \A x \in Article \ {a} : f[x] = g[x]
    PROVE  g = [f EXCEPT ![a] = @ + 1]
OBVIOUS

LEMMA FirstCounted ==
    ASSUME NEW d, NEW a \in Article
    PROVE  Firsts(d \cup {a}) = IF PublishedAt(d)[a] THEN Firsts(d)
                                ELSE [Firsts(d) EXCEPT ![a] = @ + 1]
<1>1. PublishedAt(d)[a] <=> a \in d
  BY PublishedAtIs
<1>2. CASE a \in d
  <2>1. Firsts(d \cup {a}) = Firsts(d)
    BY <1>2 DEF Firsts
  <2>. QED
    BY <1>1, <1>2, <2>1, Zenon
<1>3. CASE a \notin d
  <2>1. Firsts(d)[a] = 0 /\ Firsts(d \cup {a})[a] = 1
    BY <1>3 DEF Firsts
  <2>2. \A x \in Article \ {a} : Firsts(d)[x] = Firsts(d \cup {a})[x]
    BY DEF Firsts
  <2>3. Firsts(d) \in [Article -> Nat] /\ Firsts(d \cup {a}) \in [Article -> Nat]
    BY DEF Firsts
  <2>4. Firsts(d \cup {a})[a] = Firsts(d)[a] + 1
    BY <2>1
  <2>5. Firsts(d \cup {a}) = [Firsts(d) EXCEPT ![a] = @ + 1]
    BY <2>2, <2>3, <2>4, CountUp
  <2>. QED
    BY <1>1, <1>3, <2>5, Zenon
<1>. QED
  BY <1>2, <1>3

LEMMA EventRefines ==
    ASSUME NEW a \in Article, NEW old, NEW new, Announce(a, old, new)
    PROVE  Lifecycle!LifecycleEvent(a, old, new)
<1>1. CASE new = "PUBLISHED"
  <2>1. dated' = dated \cup {a} /\ online' = online \cup {a}
    BY <1>1 DEF Announce
  <2>2. PublishedAt(dated)' = [PublishedAt(dated) EXCEPT ![a] = TRUE]
    BY <2>1, FlagSet
  <2>3. Firsts(dated)' = IF PublishedAt(dated)[a] THEN Firsts(dated)
                         ELSE [Firsts(dated) EXCEPT ![a] = @ + 1]
    BY <2>1, FirstCounted
  <2>. QED
    BY <1>1, <2>1, <2>2, <2>3, Zenon DEF Lifecycle!LifecycleEvent
<1>2. CASE new # "PUBLISHED"
  <2>1. PublishedAt(dated)[a] <=> a \in dated
    BY PublishedAtIs
  <2>2. dated' = dated
        /\ online' = IF old = "PUBLISHED" /\ a \in dated THEN online \ {a} ELSE online
    BY <1>2 DEF Announce
  <2>3. PublishedAt(dated)' = PublishedAt(dated) /\ Firsts(dated)' = Firsts(dated)
    BY <2>2
  <2>. QED
    BY <1>2, <2>1, <2>2, <2>3, Zenon DEF Lifecycle!LifecycleEvent
<1>. QED
  BY <1>1, <1>2


(* A request keeps its place in ArticleLifecycle, or takes one.            *)
LEMMA HoldingsStep ==
    ASSUME Inv, NEW c \in Call, NEW y, Become(c, y)
    PROVE  /\ Holdings(call)' = [Holdings(call) EXCEPT ![c] = Holding(y)]
           /\ Holdings(call)[c] = Holding(call[c])
           /\ Holding(y) = Holding(call[c]) => Holdings(call)' = Holdings(call)
<1>1. call'[c] = y /\ \A d \in Call \ {c} : call'[d] = call[d]
  BY BecomeOnly
<1>2. \A d \in Call : Holdings(call)[d] = Holding(call[d])
  BY DEF Holdings
<1>3. \A d \in Call : Holdings(call)'[d] = Holding(call'[d])
  BY DEF Holdings
<1>4. /\ Holdings(call) = [d \in Call |-> Holdings(call)[d]]
      /\ Holdings(call)' = [d \in Call |-> Holdings(call)'[d]]
  BY DEF Holdings
<1>5. Holdings(call)' = [Holdings(call) EXCEPT ![c] = Holding(y)]
  BY <1>1, <1>2, <1>3, <1>4
<1>6. Holding(y) = Holding(call[c]) => Holdings(call)' = Holdings(call)
  BY <1>1, <1>2, <1>3, <1>4
<1>. QED
  BY <1>2, <1>5, <1>6

LEMMA HoldingIs ==
    ASSUME NEW x
    PROVE  /\ x.pc = "status" => Holding(x) = [pc |-> "update", of |-> x.of, seen |-> x.seen, to |-> x.to]
           /\ x.pc = "hide" => Holding(x) = [pc |-> "hide", of |-> x.of, seen |-> x.seen, to |-> "HIDDEN"]
           /\ x.pc \notin {"status", "hide"} => Holding(x) = OutOfIt
BY DEF Holding

LEMMA Names ==
    /\ Lifecycle!Absent = Absent /\ Lifecycle!Deleted = Deleted /\ Lifecycle!Status = Status
    /\ Lifecycle!NoCall = OutOfIt /\ Holding(NoCall) = OutOfIt
    /\ \A a : Lifecycle!Exists(a) <=> Exists(a)
    /\ \A a : ~Lifecycle!Locked(a)
<1>1. /\ Lifecycle!Absent = Absent /\ Lifecycle!Deleted = Deleted /\ Lifecycle!Status = Status
      /\ Lifecycle!NoCall = OutOfIt
  BY DEF Lifecycle!Absent, Lifecycle!Deleted, Lifecycle!Status, Lifecycle!NoCall, OutOfIt,
     Absent, Deleted, Status
<1>2. \A a : Lifecycle!Exists(a) <=> Exists(a)
  BY <1>1 DEF Lifecycle!Exists, Exists
<1>3. \A a : ~Lifecycle!Locked(a)
  BY DEF Lifecycle!Locked
<1>4. Holding(NoCall) = OutOfIt
  BY Idle, HoldingIs
<1>. QED
  BY <1>1, <1>2, <1>3, <1>4

LEMMA ValidAlike ==
    ASSUME NEW from \in Status, NEW to, to = from \/ to \in Successors(from)
    PROVE  Lifecycle!IsValidModerationTransition(from, to)
BY DEF Lifecycle!IsValidModerationTransition, Lifecycle!Successors, Successors, Status

LEMMA InitRefines == Init => Lifecycle!Init
<1>. SUFFICES ASSUME Init PROVE Lifecycle!Init
  OBVIOUS
<1>1. Holdings(call) = [c \in Call |-> Lifecycle!NoCall]
  <2>1. \A c \in Call : Holding(call[c]) = Lifecycle!NoCall
    BY Names DEF Init
  <2>. QED
    BY <2>1 DEF Holdings
<1>2. PublishedAt(dated) = [a \in Article |-> FALSE]
  <2>. DEFINE g == [a \in Article |-> FALSE]
  <2>1. g \in [Article -> BOOLEAN] /\ \A a \in Article : ~g[a]
    OBVIOUS
  <2>2. \A a \in Article : ~PublishedAt(dated)[a]
    BY PublishedAtIs DEF Init
  <2>. HIDE DEF g
  <2>3. PublishedAt(dated) = g
    BY <2>1, <2>2, PublishedAtIs, SameFlags
  <2>. QED
    BY <2>3 DEF g
<1>3. Firsts(dated) = [a \in Article |-> 0]
  BY DEF Init, Firsts
<1>4. /\ <<>> = [r \in {} |-> Lifecycle!Absent]
      /\ <<>> = [r \in {} |-> Lifecycle!NoFiling]
      /\ <<>> = [m \in {} |-> Lifecycle!NoReview]
  BY SMT
<1>5. status = [a \in Article |-> Lifecycle!Absent] /\ online = {}
  BY Names DEF Init
<1>. QED
  BY <1>1, <1>2, <1>3, <1>4, <1>5, Zenon DEF Lifecycle!Init


Lower == Lifecycle!Next \/ UNCHANGED Lifecycle!vars

(* The steps that ArticleLifecycle does not see. *)
LEMMA UnseenSteps ==
    ASSUME Inv, NEW c \in Call, NEW y, Become(c, y), Holding(y) = Holding(call[c]),
           UNCHANGED <<status, dated, online>>
    PROVE  Lower
<1>1. Holdings(call)' = Holdings(call)
  BY HoldingsStep
<1>2. PublishedAt(dated)' = PublishedAt(dated) /\ Firsts(dated)' = Firsts(dated)
  OBVIOUS
<1>. QED
  BY <1>1, <1>2, Zenon DEF Lower, Lifecycle!vars

LEMMA StartsRefine ==
    ASSUME Inv, NEW c \in Call, NEW a \in Article
    PROVE  /\ \A to, langs, bases, flagged : StartCreateArticle(c, a, to, langs, bases, flagged) => Lower
           /\ \A lang, base, flagged : StartCreate(c, a, lang, base, flagged) => Lower
           /\ \A lang, retext, flagged, slugs :
                  StartUpdate(c, a, lang, retext, flagged, slugs) => Lower
           /\ \A to \in Asked : ReadForUpdate(c, a, to) => Lower
           /\ ReadSummary(c, a) => Lower
<1>1. ASSUME NEW to, NEW langs, NEW bases, NEW flagged,
             StartCreateArticle(c, a, to, langs, bases, flagged)
      PROVE  Lower
  <2>. DEFINE y == [NoCall EXCEPT !.pc = "slugs", !.op = "article", !.of = a, !.to = to,
                      !.langs = langs, !.bases = bases, !.flagged = flagged]
  <2>1. Become(c, y) /\ call[c].pc = "idle" /\ UNCHANGED <<status, dated, online>>
    BY <1>1 DEF StartCreateArticle
  <2>2. y.pc = "slugs"
    BY DEF NoCall
  <2>. HIDE DEF y
  <2>. QED
    BY <2>1, <2>2, HoldingIs, UnseenSteps
<1>2. ASSUME NEW lang, NEW base, NEW flagged, StartCreate(c, a, lang, base, flagged)
      PROVE  Lower
  <2>. DEFINE y == [NoCall EXCEPT !.pc = "slugs", !.op = "translation", !.of = a,
                      !.langs = <<lang>>, !.bases = <<base>>, !.flagged = flagged]
  <2>1. Become(c, y) /\ call[c].pc = "idle" /\ UNCHANGED <<status, dated, online>>
    BY <1>2 DEF StartCreate
  <2>2. y.pc = "slugs"
    BY DEF NoCall
  <2>. HIDE DEF y
  <2>. QED
    BY <2>1, <2>2, HoldingIs, UnseenSteps
<1>3. ASSUME NEW lang, NEW retext, NEW flagged, NEW slugs,
             StartUpdate(c, a, lang, retext, flagged, slugs)
      PROVE  Lower
  <2>. DEFINE y == [NoCall EXCEPT !.pc = "write", !.op = "update", !.of = a,
                      !.langs = <<lang>>, !.row = rows[<<a, lang>>].id, !.slugs = slugs,
                      !.retext = retext, !.flagged = retext /\ flagged]
  <2>1. Become(c, y) /\ call[c].pc = "idle" /\ UNCHANGED <<status, dated, online>>
    BY <1>3 DEF StartUpdate
  <2>2. y.pc = "write"
    BY DEF NoCall
  <2>. HIDE DEF y
  <2>. QED
    BY <2>1, <2>2, HoldingIs, UnseenSteps
<1>4. ASSUME NEW to \in Asked, ReadForUpdate(c, a, to) PROVE Lower
  <2>. DEFINE y == [NoCall EXCEPT !.pc = "status", !.op = "status", !.of = a,
                                !.seen = status[a], !.to = to]
  <2>1. /\ Become(c, y) /\ call[c].pc = "idle" /\ UNCHANGED <<status, dated, online>>
        /\ Exists(a) /\ (to = status[a] \/ to \in Successors(status[a]))
    BY <1>4 DEF ReadForUpdate
  <2>2. y.pc = "status" /\ y.of = a /\ y.seen = status[a] /\ y.to = to
    BY DEF NoCall
  <2>. HIDE DEF y
  <2>3. /\ Holdings(call)' = [Holdings(call) EXCEPT
               ![c] = [pc |-> "update", of |-> a, seen |-> status[a], to |-> to]]
        /\ Holdings(call)[c] = OutOfIt
    BY <2>1, <2>2, HoldingIs, HoldingsStep
  <2>4. Holdings(call)[c].pc = "idle"
    BY <2>3 DEF OutOfIt
  <2>5. Lifecycle!IsValidModerationTransition(status[a], to)
    BY <2>1, ValidAlike DEF Exists
  <2>6. PublishedAt(dated)' = PublishedAt(dated) /\ Firsts(dated)' = Firsts(dated)
    BY <2>1
  <2>7. Lifecycle!ReadForUpdate(c, a, to)
    BY <2>1, <2>3, <2>4, <2>5, <2>6, Names, Zenon DEF Lifecycle!ReadForUpdate
  <2>8. to \in Lifecycle!Status
    BY Names, Values
  <2>. QED
    BY <2>7, <2>8, Zenon DEF Lower, Lifecycle!Next
<1>5. ASSUME ReadSummary(c, a) PROVE Lower
  <2>. DEFINE y == [NoCall EXCEPT !.pc = "delete", !.op = "remove", !.of = a,
                                !.known = SlugsOf(a)]
  <2>1. Become(c, y) /\ call[c].pc = "idle" /\ UNCHANGED <<status, dated, online>>
    BY <1>5 DEF ReadSummary
  <2>2. y.pc = "delete"
    BY DEF NoCall
  <2>. HIDE DEF y
  <2>. QED
    BY <2>1, <2>2, HoldingIs, UnseenSteps
<1>. QED
  BY <1>1, <1>2, <1>3, <1>4, <1>5

(* Rows and requests are all that these change. *)
LEMMA UnseenCalls ==
    ASSUME Inv, NEW c \in Call,
           ReadTaken(c) \/ InsertTranslation(c) \/ Conflict(c) \/ Write(c) \/ WriteFails(c)
    PROVE  Lower
<1>1. ASSUME ReadTaken(c) PROVE Lower
  <2>. DEFINE bases == call[c].bases
              y == [call[c] EXCEPT !.pc = "write", !.known = AllSlugs, !.bases = <<>>,
                        !.slugs = ChosenSlugs(bases, Taken(bases))]
  <2>1. Become(c, y) /\ call[c].pc = "slugs" /\ UNCHANGED <<status, dated, online>>
    BY <1>1 DEF ReadTaken
  <2>2. y.pc = "write"
    BY DEF Inv, Shapes, IsCall
  <2>. HIDE DEF y
  <2>. QED
    BY <2>1, <2>2, HoldingIs, UnseenSteps
<1>2. ASSUME InsertTranslation(c) \/ Write(c) PROVE Lower
  <2>1. /\ call[c].pc = "write" /\ call[c].op # "article" /\ Scan(c)
        /\ UNCHANGED <<status, dated, online>>
    BY <1>2 DEF InsertTranslation, Write
  <2>2. PICK y : Become(c, y) /\ y.pc \in {"idle", "scan"}
    BY <2>1, Scans
  <2>. QED
    BY <2>1, <2>2, HoldingIs, UnseenSteps
<1>3. ASSUME Conflict(c) \/ WriteFails(c) PROVE Lower
  <2>1. Become(c, NoCall) /\ call[c].pc = "write" /\ UNCHANGED <<status, dated, online>>
    BY <1>3 DEF Conflict, WriteFails
  <2>. QED
    BY <2>1, HoldingIs, Names, UnseenSteps
<1>. QED
  BY <1>1, <1>2, <1>3


LEMMA ReadForHideRefines == ASSUME Inv, NEW c \in Call, ReadForHide(c) PROVE Lower
<1>. DEFINE a == call[c].of  y == [call[c] EXCEPT !.pc = "hide", !.seen = status[a]]
<1>0. call[c].pc = "scan" /\ a \in Article /\ UNCHANGED <<status, dated, online>>
  BY DEF ReadForHide, Inv, CallsFit, Fits
<1>1. CASE ~Exists(a) \/ status[a] \in {"HIDDEN", "BANNED"}
  <2>1. Become(c, NoCall)
    BY <1>1 DEF ReadForHide
  <2>. QED
    BY <1>0, <2>1, HoldingIs, Names, UnseenSteps
<1>2. CASE Exists(a) /\ status[a] \notin {"HIDDEN", "BANNED"}
  <2>1. Become(c, y)
    BY <1>2 DEF ReadForHide
  <2>2. y.pc = "hide" /\ y.of = a /\ y.seen = status[a]
    BY DEF Inv, Shapes, IsCall
  <2>. HIDE DEF y
  <2>3. /\ Holdings(call)' = [Holdings(call) EXCEPT
               ![c] = [pc |-> "hide", of |-> a, seen |-> status[a], to |-> "HIDDEN"]]
        /\ Holdings(call)[c] = OutOfIt
    BY <1>0, <2>1, <2>2, HoldingIs, HoldingsStep
  <2>4. Holdings(call)[c].pc = "idle"
    BY <2>3 DEF OutOfIt
  <2>5. PublishedAt(dated)' = PublishedAt(dated) /\ Firsts(dated)' = Firsts(dated)
    BY <1>0
  <2>6. Lifecycle!ReadForHide(c, a)
    BY <1>0, <1>2, <2>3, <2>4, <2>5, Names, Zenon DEF Lifecycle!ReadForHide
  <2>. QED
    BY <1>0, <2>6, Zenon DEF Lower, Lifecycle!Next
<1>. QED
  BY <1>1, <1>2

LEMMA CommitHideRefines == ASSUME Inv, NEW c \in Call, CommitHide(c) PROVE Lower
<1>. DEFINE a == call[c].of
<1>1. /\ call[c].pc = "hide" /\ Exists(a) /\ Become(c, NoCall)
      /\ status' = [status EXCEPT ![a] = "HIDDEN"] /\ Announce(a, call[c].seen, "HIDDEN")
  BY DEF CommitHide
<1>2. a \in Article
  BY <1>1 DEF Inv, CallsFit, Fits
<1>3. /\ Holdings(call)' = [Holdings(call) EXCEPT ![c] = OutOfIt]
      /\ Holdings(call)[c] =
             [pc |-> "hide", of |-> a, seen |-> call[c].seen, to |-> "HIDDEN"]
  BY <1>1, HoldingIs, HoldingsStep, Names
<1>4. /\ Holdings(call)[c].pc = "hide" /\ Holdings(call)[c].of = a
      /\ Holdings(call)[c].seen = call[c].seen
  BY <1>3
<1>5. Lifecycle!LifecycleEvent(a, call[c].seen, "HIDDEN")
  BY <1>1, <1>2, EventRefines
<1>6. Lifecycle!CommitHide(c)
  BY <1>1, <1>3, <1>4, <1>5, Names, Zenon DEF Lifecycle!CommitHide
<1>. QED
  BY <1>6, Zenon DEF Lower, Lifecycle!Next

LEMMA CommitUpdateRefines == ASSUME Inv, NEW c \in Call, CommitUpdate(c) PROVE Lower
<1>. DEFINE a == call[c].of  from == call[c].seen  to == call[c].to
<1>1. /\ call[c].pc = "status" /\ Exists(a) /\ Become(c, NoCall)
      /\ status' = [status EXCEPT ![a] = to]
      /\ IF to # from THEN Announce(a, from, to) ELSE UNCHANGED <<dated, online, links>>
  BY DEF CommitUpdate
<1>2. a \in Article
  BY <1>1 DEF Inv, CallsFit, Fits
<1>3. /\ Holdings(call)' = [Holdings(call) EXCEPT ![c] = OutOfIt]
      /\ Holdings(call)[c] = [pc |-> "update", of |-> a, seen |-> from, to |-> to]
  BY <1>1, HoldingIs, HoldingsStep, Names
<1>4. /\ Holdings(call)[c].pc = "update" /\ Holdings(call)[c].of = a
      /\ Holdings(call)[c].seen = from /\ Holdings(call)[c].to = to
  BY <1>3
<1>5. to # from => Lifecycle!LifecycleEvent(a, from, to)
  BY <1>1, <1>2, EventRefines
<1>6. to = from => UNCHANGED <<PublishedAt(dated), online, Firsts(dated)>>
  BY <1>1
<1>7. Lifecycle!CommitUpdate(c)
  BY <1>1, <1>3, <1>4, <1>5, <1>6, Names, Zenon DEF Lifecycle!CommitUpdate
<1>. QED
  BY <1>7, Zenon DEF Lower, Lifecycle!Next

LEMMA InsertArticleRefines == ASSUME Inv, NEW c \in Call, InsertArticle(c) PROVE Lower
<1>. DEFINE a == call[c].of  to == call[c].to  flagged == call[c].flagged
            autoHidden == flagged /\ to \notin {"HIDDEN", "BANNED"}
            final == IF autoHidden THEN "HIDDEN" ELSE to
<1>1. /\ call[c].pc = "write" /\ call[c].op = "article" /\ Become(c, NoCall)
      /\ status' = [status EXCEPT ![a] = final]
      /\ IF autoHidden THEN Announce(a, to, "HIDDEN")
         ELSE IF final = "PUBLISHED" THEN Announce(a, Absent, "PUBLISHED")
         ELSE UNCHANGED <<dated, online, links>>
  BY DEF InsertArticle
<1>2. a \in Article /\ status[a] = Absent /\ to \in Status /\ flagged \in BOOLEAN
  BY <1>1 DEF Inv, CallsFit, Fits
<1>3. Holdings(call)' = Holdings(call)
  BY <1>1, HoldingIs, HoldingsStep, Names
<1>4. IF autoHidden THEN Lifecycle!LifecycleEvent(a, to, "HIDDEN")
      ELSE IF final = "PUBLISHED" THEN Lifecycle!LifecycleEvent(a, Absent, "PUBLISHED")
      ELSE UNCHANGED <<PublishedAt(dated), online, Firsts(dated)>>
  <2>1. CASE autoHidden
    BY <1>1, <1>2, <2>1, EventRefines, Zenon
  <2>2. CASE ~autoHidden /\ final = "PUBLISHED"
    BY <1>1, <1>2, <2>2, EventRefines, Zenon
  <2>3. CASE ~autoHidden /\ final # "PUBLISHED"
    BY <1>1, <2>3
  <2>. QED
    BY <2>1, <2>2, <2>3, Zenon
<1>5. Lifecycle!Create(a, to, flagged)
  BY <1>1, <1>2, <1>3, <1>4, Names, Zenon DEF Lifecycle!Create
<1>6. to \in Lifecycle!Status
  BY <1>2, Names
<1>. QED
  BY <1>2, <1>5, <1>6, Zenon DEF Lower, Lifecycle!Next

LEMMA CommitDeleteRefines == ASSUME Inv, NEW c \in Call, CommitDelete(c) PROVE Lower
<1>. DEFINE a == call[c].of
<1>1. /\ call[c].pc = "delete" /\ Exists(a) /\ Become(c, NoCall)
      /\ status' = [status EXCEPT ![a] = Deleted] /\ online' = online \ {a}
      /\ UNCHANGED dated
  BY DEF CommitDelete
<1>2. a \in Article
  BY <1>1 DEF Inv, CallsFit, Fits
<1>3. Holdings(call)' = Holdings(call)
  BY <1>1, HoldingIs, HoldingsStep, Names
<1>4. PublishedAt(dated)' = PublishedAt(dated) /\ Firsts(dated)' = Firsts(dated)
  BY <1>1
<1>5. Lifecycle!Remove(a)
  BY <1>1, <1>3, <1>4, Names, Zenon DEF Lifecycle!Remove
<1>. QED
  BY <1>2, <1>5, Zenon DEF Lower, Lifecycle!Next

LEMMA EndsRefine == ASSUME Inv, NEW c \in Call, CallFails(c) \/ Crash(c) PROVE Lower
<1>1. call[c].pc # "idle" /\ Become(c, NoCall) /\ UNCHANGED <<status, dated, online>>
  BY DEF CallFails, Crash
<1>2. CASE call[c].pc \notin {"status", "hide"}
  BY <1>1, <1>2, HoldingIs, Names, UnseenSteps
<1>3. CASE call[c].pc \in {"status", "hide"}
  <2>1. Holdings(call)' = [Holdings(call) EXCEPT ![c] = OutOfIt]
    BY <1>1, HoldingsStep, Names
  <2>2. Holdings(call)[c].pc # "idle"
    BY <1>1, <1>3, HoldingIs, HoldingsStep
  <2>3. PublishedAt(dated)' = PublishedAt(dated) /\ Firsts(dated)' = Firsts(dated)
    BY <1>1
  <2>4. Lifecycle!Crash(c)
    BY <1>1, <2>1, <2>2, <2>3, Names, Zenon DEF Lifecycle!Crash
  <2>. QED
    BY <2>4, Zenon DEF Lower, Lifecycle!Next
<1>. QED
  BY <1>2, <1>3


LEMMA NextRefines == ASSUME Inv, [Next]_vars PROVE [Lifecycle!Next]_(Lifecycle!vars)
<1>1. ASSUME NEW c \in Call, NEW a \in Article,
             \/ \E to \in Asked \cup {"DRAFT"}, langs \in Languages, flagged \in BOOLEAN :
                   \E bases \in [1..Len(langs) -> Title] :
                       StartCreateArticle(c, a, to, langs, bases, flagged)
             \/ \E l \in Lang, t \in Title, flagged \in BOOLEAN : StartCreate(c, a, l, t, flagged)
             \/ \E l \in Lang, retext, flagged \in BOOLEAN, s \in {<<r>> : r \in Rename} \cup {<<>>} :
                   StartUpdate(c, a, l, retext, flagged, s)
             \/ \E to \in Asked : ReadForUpdate(c, a, to)
             \/ ReadSummary(c, a)
      PROVE  Lower
  BY <1>1, StartsRefine, Zenon
<1>2. ASSUME NEW c \in Call,
             \/ ReadTaken(c) \/ InsertArticle(c) \/ InsertTranslation(c) \/ Conflict(c)
             \/ Write(c) \/ WriteFails(c) \/ ReadForHide(c) \/ CommitHide(c)
             \/ CommitUpdate(c) \/ CommitDelete(c) \/ CallFails(c) \/ Crash(c)
      PROVE  Lower
  BY <1>2, UnseenCalls, InsertArticleRefines, ReadForHideRefines, CommitHideRefines,
     CommitUpdateRefines, CommitDeleteRefines, EndsRefine, Zenon
<1>3. ASSUME UNCHANGED <<status, dated, call, online>> PROVE Lower
  <2>1. /\ PublishedAt(dated)' = PublishedAt(dated) /\ Firsts(dated)' = Firsts(dated)
        /\ Holdings(call)' = Holdings(call)
    BY <1>3
  <2>. QED
    BY <1>3, <2>1, Zenon DEF Lower, Lifecycle!vars
<1>4. ASSUME NEW a \in Article, NEW l \in Lang, RemoveTranslation(a, l) PROVE Lower
  BY <1>3, <1>4 DEF RemoveTranslation
<1>5. ASSUME UNCHANGED vars PROVE Lower
  BY <1>3, <1>5 DEF vars
<1>6. Lower
  BY <1>1, <1>2, <1>4, <1>5, Zenon DEF Next
<1>. QED
  BY <1>6, Zenon DEF Lower

(* Whatever requests on translations and slugs do besides, the articles go *)
(* through the statuses, dates and events ArticleLifecycle lets them go    *)
(* through (articles.service.ts:200, :492).                                *)
THEOREM CatalogueImplementsLifecycle == Spec => ImplementsLifecycle
<1>1. Init => Lifecycle!Init
  BY InitRefines
<1>2. Inv /\ [Next]_vars => [Lifecycle!Next]_(Lifecycle!vars)
  BY NextRefines
<1>. QED
  BY <1>1, <1>2, Invariance, PTL DEF Spec, ImplementsLifecycle, Lifecycle!Spec


-----------------------------------------------------------------------------
(* What the theorems of ArticleLifecycleProofs say here.  Its instance has *)
(* the definitions of Lifecycle under names of its own.                    *)
Life == INSTANCE ArticleLifecycleProofs WITH
    Report <- {}, Target <- <<>>, FiledAs <- {}, Caller <- Call,
    Moderator <- {}, Decision <- {}, Threshold <- 1,
    publishedAt <- PublishedAt(dated),
    report <- <<>>, filing <- <<>>, review <- <<>>,
    call <- Holdings(call),
    firsts <- Firsts(dated)

LEMMA SameConstants ==
    /\ Life!ArticleAssumption
    /\ Life!Absent = Absent /\ Life!Deleted = Deleted /\ Life!Status = Status
    /\ Life!NoCall = OutOfIt
BY DEF Life!ArticleAssumption, Life!Absent, Life!Deleted, Life!Status, Life!NoCall,
       Absent, Deleted, Status, OutOfIt

LEMMA SameOperators ==
    /\ Lifecycle!NoFiling = Life!NoFiling /\ Lifecycle!NoReview = Life!NoReview
    /\ Lifecycle!NoCall = Life!NoCall
    /\ Lifecycle!Absent = Life!Absent /\ Lifecycle!Deleted = Life!Deleted
    /\ Lifecycle!Status = Life!Status
    /\ \A a : Lifecycle!Exists(a) <=> Life!Exists(a)
    /\ \A a : Lifecycle!Locked(a) <=> Life!Locked(a)
    /\ \A s : Lifecycle!Successors(s) = Life!Successors(s)
BY DEF Lifecycle!NoFiling, Life!NoFiling, Lifecycle!NoReview, Life!NoReview,
       Lifecycle!NoCall, Life!NoCall, Lifecycle!Absent, Life!Absent,
       Lifecycle!Deleted, Life!Deleted, Lifecycle!Status, Life!Status,
       Lifecycle!Exists, Life!Exists, Lifecycle!Locked, Life!Locked,
       Lifecycle!Successors, Life!Successors

LEMMA SameInit == Lifecycle!Init => Life!Init
BY SameOperators, Zenon DEF Lifecycle!Init, Life!Init

LEMMA SameNext == Lifecycle!Next => Life!Next
<1>1. \A a, old, new : Lifecycle!LifecycleEvent(a, old, new) => Life!LifecycleEvent(a, old, new)
  BY Zenon DEF Lifecycle!LifecycleEvent, Life!LifecycleEvent
<1>2. \A a, s, b : Lifecycle!Create(a, s, b) => Life!Create(a, s, b)
  BY <1>1, SameOperators, Zenon DEF Lifecycle!Create, Life!Create
<1>3. \A a : Lifecycle!Remove(a) => Life!Remove(a)
  BY SameOperators, Zenon DEF Lifecycle!Remove, Life!Remove
<1>4. \A u, a, to : Lifecycle!ReadForUpdate(u, a, to) => Life!ReadForUpdate(u, a, to)
  BY SameOperators, Zenon DEF Lifecycle!ReadForUpdate, Life!ReadForUpdate,
     Lifecycle!IsValidModerationTransition, Life!IsValidModerationTransition
<1>5. \A u, a : Lifecycle!ReadForHide(u, a) => Life!ReadForHide(u, a)
  BY SameOperators, Zenon DEF Lifecycle!ReadForHide, Life!ReadForHide
<1>6. \A u : Lifecycle!CommitUpdate(u) => Life!CommitUpdate(u)
  BY <1>1, SameOperators, Zenon DEF Lifecycle!CommitUpdate, Life!CommitUpdate
<1>7. \A u : Lifecycle!CommitHide(u) => Life!CommitHide(u)
  BY <1>1, SameOperators, Zenon DEF Lifecycle!CommitHide, Life!CommitHide
<1>8. \A u : /\ Lifecycle!CallFails(u) => Life!CallFails(u)
             /\ Lifecycle!Crash(u) => Life!Crash(u)
  BY SameOperators, Zenon DEF Lifecycle!CallFails, Life!CallFails, Lifecycle!Crash, Life!Crash
<1>. QED
  BY <1>2, <1>3, <1>4, <1>5, <1>6, <1>7, <1>8, SameOperators, Zenon DEF Lifecycle!Next, Life!Next

LEMMA SameSpec == Lifecycle!Spec => Life!Spec
<1>1. Lifecycle!Init => Life!Init
  BY SameInit
<1>2. [Lifecycle!Next]_(Lifecycle!vars) => [Life!Next]_(Life!vars)
  BY SameNext, Zenon DEF Lifecycle!vars, Life!vars
<1>. QED
  BY <1>1, <1>2, PTL DEF Lifecycle!Spec, Life!Spec

(* ArticleLifecycle's properties of the site and of the transitions hold   *)
(* of this specification through its mapping (articles.service.ts:492).    *)
THEOREM LifecycleHolds == Spec => Life!AgreesUnlessStale /\ Life!TransitionsAreLegal
<1>1. Life!Spec => Life!AgreesUnlessStale
  BY SameConstants, Life!SiteLostOnlyByStaleCalls
<1>2. Life!Spec => Life!TransitionsAreLegal
  BY SameConstants, Life!OnlyStaleTransitionsAreIllegal
<1>. QED
  BY <1>1, <1>2, SameSpec, CatalogueImplementsLifecycle, PTL DEF ImplementsLifecycle

(* A request that holds a status it read lets go of it only by its end. *)
LEMMA HeldToTheEnd ==
    ASSUME Inv, [Next]_vars, NEW c \in Call,
           call[c].pc \in {"status", "hide"}, call'[c].pc \notin {"status", "hide"}
    PROVE  call'[c] = NoCall
<1>1. ASSUME NEW d \in Call, NEW y, Become(d, y), d = c => y = NoCall
      PROVE  call'[c] = NoCall
  <2>1. d = c
    BY <1>1, BecomeOnly
  <2>. QED
    BY <1>1, <2>1, BecomeOnly
<1>2. ASSUME UNCHANGED call PROVE call'[c] = NoCall
  BY <1>2
<1>3. ASSUME NEW d \in Call, NEW a \in Article,
             \/ \E to \in Asked \cup {"DRAFT"}, langs \in Languages, flagged \in BOOLEAN :
                   \E bases \in [1..Len(langs) -> Title] :
                       StartCreateArticle(d, a, to, langs, bases, flagged)
             \/ \E l \in Lang, t \in Title, flagged \in BOOLEAN : StartCreate(d, a, l, t, flagged)
             \/ \E l \in Lang, retext, flagged \in BOOLEAN, s \in {<<r>> : r \in Rename} \cup {<<>>} :
                   StartUpdate(d, a, l, retext, flagged, s)
             \/ \E to \in Asked : ReadForUpdate(d, a, to)
             \/ ReadSummary(d, a)
      PROVE  call'[c] = NoCall
  <2>1. call[d].pc = "idle" /\ \E y : Become(d, y)
    BY <1>3, Zenon DEF StartCreateArticle, StartCreate, StartUpdate, ReadForUpdate, ReadSummary
  <2>. QED
    BY <1>1, <2>1
<1>4. ASSUME NEW d \in Call,
             \/ ReadTaken(d) \/ InsertArticle(d) \/ InsertTranslation(d) \/ Conflict(d)
             \/ Write(d) \/ WriteFails(d) \/ ReadForHide(d)
      PROVE  call'[c] = NoCall
  <2>1. call[d].pc \in {"slugs", "write", "scan"} /\ \E y : Become(d, y)
    BY <1>4, Zenon DEF ReadTaken, InsertArticle, InsertTranslation, Conflict, Write, WriteFails,
       ReadForHide, Scan
  <2>. QED
    BY <1>1, <2>1
<1>5. ASSUME NEW d \in Call,
             CommitHide(d) \/ CommitUpdate(d) \/ CommitDelete(d) \/ CallFails(d) \/ Crash(d)
      PROVE  call'[c] = NoCall
  <2>1. Become(d, NoCall)
    BY <1>5 DEF CommitHide, CommitUpdate, CommitDelete, CallFails, Crash
  <2>. QED
    BY <1>1, <2>1
<1>6. ASSUME NEW a \in Article, NEW l \in Lang, RemoveTranslation(a, l) PROVE call'[c] = NoCall
  BY <1>2, <1>6 DEF RemoveTranslation
<1>7. ASSUME UNCHANGED vars PROVE call'[c] = NoCall
  BY <1>2, <1>7 DEF vars
<1>. QED
  BY <1>3, <1>4, <1>5, <1>6, <1>7, Zenon DEF Next

LEMMA StaleAlike ==
    ASSUME Inv, [Next]_vars, Absent \notin Article, NEW a \in Article, Life!StaleCommit(a)
    PROVE  StaleCommit(a)
<1>1. PICK c \in Call : /\ Holdings(call)[c].of = a /\ Holdings(call)'[c] = OutOfIt
                        /\ Holdings(call)[c].seen # status[a]
  BY SameConstants DEF Life!StaleCommit
<1>2. Holdings(call)[c] = Holding(call[c]) /\ Holdings(call)'[c] = Holding(call'[c])
  BY DEF Holdings
<1>3. call[c].pc \in {"status", "hide"}
  <2>1. OutOfIt.of # a
    BY DEF OutOfIt
  <2>. QED
    BY <1>1, <1>2, <2>1, HoldingIs
<1>4. call[c].of = a /\ call[c].seen # status[a]
  BY <1>1, <1>2, <1>3, HoldingIs
<1>5. call'[c].pc \notin {"status", "hide"}
  <2>1. Holding(call'[c]).pc = "idle"
    BY <1>1, <1>2 DEF OutOfIt
  <2>. QED
    BY <2>1, HoldingIs
<1>6. call'[c] = NoCall
  BY <1>3, <1>5, HeldToTheEnd
<1>. QED
  BY <1>3, <1>4, <1>6 DEF StaleCommit

Shown(a) == a \in online <=> status[a] = "PUBLISHED"

(* With translations, scans and slugs in full, the site still shows an     *)
(* article exactly while it is published, and statuses still change as     *)
(* VALID_TRANSITIONS allows, until a request writes by a status it had     *)
(* read too early (moderation-policy.service.ts:18).                       *)
THEOREM SiteAndStatusStayRight ==
    ASSUME Absent \notin Article
    PROVE  Spec => [][\A a \in Article :
               /\ Shown(a) => Shown(a)' \/ StaleCommit(a)
               /\ status[a] \in Status /\ status'[a] \notin {status[a], Deleted} =>
                      status'[a] \in Successors(status[a]) \/ StaleCommit(a)]_vars
<1> DEFINE follows == \A a \in Article : Life!Agrees(a) => Life!Agrees(a)' \/ Life!StaleCommit(a)
           legal == \A a \in Article :
               status[a] \in Life!Status /\ status'[a] \notin {status[a], Life!Deleted} =>
                   status'[a] \in Life!Successors(status[a])
                   \/ Life!StaleCommit(a) \/ Life!StaleReview(a)
           right == \A a \in Article :
               /\ Shown(a) => Shown(a)' \/ StaleCommit(a)
               /\ status[a] \in Status /\ status'[a] \notin {status[a], Deleted} =>
                      status'[a] \in Successors(status[a]) \/ StaleCommit(a)
<1>1. Spec => [][follows]_(Life!vars) /\ [][legal]_(Life!vars)
  BY LifecycleHolds, PTL DEF Life!AgreesUnlessStale, Life!TransitionsAreLegal
<1>2. ASSUME Inv, [Next]_vars, [follows]_(Life!vars), [legal]_(Life!vars) PROVE right
  <2>1. CASE UNCHANGED Life!vars
    BY <2>1 DEF Life!vars, Shown
  <2>2. CASE ~UNCHANGED Life!vars
    <3> SUFFICES ASSUME NEW a \in Article
                 PROVE  /\ Shown(a) => Shown(a)' \/ StaleCommit(a)
                        /\ status[a] \in Status /\ status'[a] \notin {status[a], Deleted} =>
                               status'[a] \in Successors(status[a]) \/ StaleCommit(a)
      OBVIOUS
    <3>1. Shown(a) => Shown(a)' \/ Life!StaleCommit(a)
      BY <1>2, <2>2 DEF Life!Agrees, Shown
    <3>2. ~Life!StaleReview(a)
      BY DEF Life!StaleReview
    <3>3. status[a] \in Status => Life!Successors(status[a]) = Successors(status[a])
      BY DEF Life!Successors, Successors, Status
    <3>4. status[a] \in Status /\ status'[a] \notin {status[a], Deleted} =>
              status'[a] \in Successors(status[a]) \/ Life!StaleCommit(a)
      BY <1>2, <2>2, <3>2, <3>3, SameConstants
    <3>. QED
      BY <1>2, <3>1, <3>4, StaleAlike
  <2>. QED
    BY <2>1, <2>2
<1>3. Inv /\ [Next]_vars /\ [follows]_(Life!vars) /\ [legal]_(Life!vars) => [right]_vars
  BY <1>2
<1>. HIDE DEF follows, legal, right
<1>4. Spec => [][right]_vars
  BY <1>1, <1>3, Invariance, PTL DEF Spec
<1>. QED
  BY <1>4 DEF right

-----------------------------------------------------------------------------
(* Links. *)

LEMMA HasSlug ==
    ASSUME NEW table, NEW a, NEW s
    PROVE  s \in SlugsIn(table, a) <=>
               \E k \in Article \X Lang : k[1] = a /\ table[k].id # 0 /\ table[k].slug = s
BY DEF SlugsIn

(* An article none of whose translations goes.                             *)
LEMMA QuietLinks ==
    ASSUME NEW a, NEW s, Leads(a, s), status'[a] = status[a], links'[a] = links[a],
           \A k \in Article \X Lang : k[1] = a /\ rows[k].id # 0 /\ rows[k].slug = s =>
               rows'[k].id # 0 /\ rows'[k].slug = s
    PROVE  Leads(a, s)'
<1>1. s \in SlugsIn(rows, a) => s \in SlugsIn(rows', a)
  BY HasSlug
<1>. QED
  BY <1>1 DEF Leads, SlugsOf

LEMMA SameRowsLinks ==
    ASSUME NEW a, NEW s, Leads(a, s), status'[a] = status[a], links'[a] = links[a],
           \A k \in Article \X Lang : k[1] = a => rows'[k] = rows[k]
    PROVE  Leads(a, s)'
BY QuietLinks

LEMMA AnnouncedLinks ==
    ASSUME Inv, NEW a \in Article, NEW s, NEW old, NEW new, Leads(a, s),
           Announce(a, old, new), status'[a] = new,
           s \in links[a] => old = status[a] /\ UNCHANGED rows
    PROVE  Leads(a, s)'
<1>1. CASE new = "PUBLISHED"
  <2>1. links'[a] = SlugsIn(rows', a)
    BY <1>1 DEF Announce, Inv, Shapes
  <2>. QED
    BY <1>1, <2>1 DEF Leads, SlugsOf
<1>2. CASE new # "PUBLISHED"
  <2>1. s \in links[a] => /\ old = "PUBLISHED" /\ a \in dated
                          /\ s \in SlugsIn(rows', a)
    BY DEF Leads, SlugsOf, Inv, PublishedIsDated
  <2>2. IF old = "PUBLISHED" /\ a \in dated
        THEN links'[a] = links[a] \ SlugsIn(rows', a)
        ELSE links' = links
    BY <1>2 DEF Announce, Inv, Shapes
  <2>3. s \notin links'[a]
    BY <2>1, <2>2
  <2>. QED
    BY <2>3 DEF Leads
<1>. QED
  BY <1>1, <1>2

Kept(a, s) == Leads(a, s)' \/ StaleCommit(a) \/ Renamed(a, s)

LEMMA InsertArticleLinks ==
    ASSUME Inv, NEW c \in Call, InsertArticle(c), NEW a \in Article, NEW s, Leads(a, s)
    PROVE  Leads(a, s)'
<1>. DEFINE b == call[c].of  to == call[c].to
            autoHidden == call[c].flagged /\ to \notin {"HIDDEN", "BANNED"}
            final == IF autoHidden THEN "HIDDEN" ELSE to
<1>1. /\ call[c].pc = "write" /\ call[c].op = "article" /\ InsertRows(c)
      /\ status' = [status EXCEPT ![b] = final]
      /\ IF autoHidden THEN Announce(b, to, "HIDDEN")
         ELSE IF final = "PUBLISHED" THEN Announce(b, Absent, "PUBLISHED")
         ELSE UNCHANGED <<dated, online, links>>
  BY DEF InsertArticle
<1>2. b \in Article /\ status[b] = Absent
  BY <1>1 DEF Inv, CallsFit, Fits
<1>3. status'[b] = final /\ \A d \in Article \ {b} : status'[d] = status[d]
  BY <1>1, <1>2 DEF Inv, Shapes
<1>4. \A d \in Article \ {b} : links'[d] = links[d]
  BY <1>1, <1>2 DEF Announce, Inv, Shapes
<1>5. CASE a # b
  <2>1. \A k \in Article \X Lang : k[1] = a => rows'[k] = rows[k]
    BY <1>1, <1>5, InsertedRows
  <2>. QED
    BY <1>3, <1>4, <1>5, <2>1, SameRowsLinks
<1>6. CASE a = b
  <2>1. s \notin links[a]
    BY <1>2, <1>6 DEF Leads, Absent
  <2>2. CASE autoHidden
    BY <1>1, <1>3, <1>6, <2>1, <2>2, AnnouncedLinks
  <2>3. CASE ~autoHidden /\ final = "PUBLISHED"
    BY <1>1, <1>3, <1>6, <2>1, <2>3, AnnouncedLinks
  <2>4. CASE ~autoHidden /\ final # "PUBLISHED"
    BY <1>1, <2>1, <2>4 DEF Leads
  <2>. QED
    BY <2>2, <2>3, <2>4, Zenon
<1>. QED
  BY <1>5, <1>6

LEMMA RowLinks ==
    ASSUME Inv, NEW c \in Call, InsertTranslation(c) \/ Write(c), NEW a \in Article, NEW s,
           Leads(a, s)
    PROVE  Kept(a, s)
<1>1. call[c].pc = "write" /\ Scan(c) /\ UNCHANGED <<status, links>>
  BY DEF InsertTranslation, Write
<1>2. CASE InsertTranslation(c)
  <2>1. \A i \in DOMAIN call[c].langs : rows[<<call[c].of, call[c].langs[i]>>].id = 0
    BY <1>2 DEF InsertTranslation, Conflicts
  <2>2. \A k \in Article \X Lang : rows[k].id # 0 =>
            ~(k[1] = call[c].of /\ \E i \in DOMAIN call[c].langs : call[c].langs[i] = k[2])
    BY <2>1
  <2>3. \A k \in Article \X Lang : rows[k].id # 0 => rows'[k] = rows[k]
    BY <1>2, <2>2 DEF InsertTranslation, InsertRows
  <2>. QED
    BY <1>1, <2>3, QuietLinks DEF Kept
<1>3. CASE Write(c)
  <2>. DEFINE q == <<call[c].of, call[c].langs[1]>>
  <2>1. \A k \in Article \X Lang : k # q => rows'[k] = rows[k]
    BY <1>3, WrittenRows
  <2>2. CASE q \in Article \X Lang /\ q[1] = a /\ rows[q].id # 0 /\ rows[q].slug = s
             /\ rows'[q].slug # s
    <3>1. PICK y : Become(c, y)
      BY <1>1 DEF Scan
    <3>2. \A d \in Call : call'[d] # call[d] => d = c
      BY <3>1, BecomeOnly
    <3>3. call[c].slugs # <<>>
      BY <1>3, <2>2, WrittenRows
    <3>4. PICK l \in Lang : q = <<a, l>>
      BY <2>2
    <3>5. /\ rows[<<a, l>>].id # 0 /\ rows[<<a, l>>].slug = s /\ rows'[<<a, l>>].slug # s
      BY <2>2, <3>4
    <3>6. Renamed(a, s)
      BY <1>1, <3>2, <3>3, <3>5 DEF Renamed
    <3>. QED
      BY <3>6 DEF Kept
  <2>3. CASE ~(q \in Article \X Lang /\ q[1] = a /\ rows[q].id # 0 /\ rows[q].slug = s
               /\ rows'[q].slug # s)
    <3>1. q \in Article \X Lang => rows'[q].id = rows[q].id
      BY <1>3, WrittenRows
    <3>2. \A k \in Article \X Lang : k[1] = a /\ rows[k].id # 0 /\ rows[k].slug = s =>
              rows'[k].id # 0 /\ rows'[k].slug = s
      BY <2>1, <2>3, <3>1
    <3>. QED
      BY <1>1, <3>2, QuietLinks DEF Kept
  <2>. QED
    BY <2>2, <2>3
<1>. QED
  BY <1>2, <1>3


LEMMA RemovalLinks ==
    ASSUME Inv, NEW b \in Article, NEW m \in Lang, RemoveTranslation(b, m),
           NEW a \in Article, NEW s, Leads(a, s)
    PROVE  Kept(a, s)
<1>1. /\ rows' = [rows EXCEPT ![<<b, m>>] = NoRow] /\ rows[<<b, m>>].id # 0
      /\ UNCHANGED <<status, call, links>>
  BY DEF RemoveTranslation
<1>2. /\ rows'[<<b, m>>].id = 0
      /\ \A k \in Article \X Lang : k # <<b, m>> => rows'[k] = rows[k]
  BY <1>1, Values DEF Inv, Shapes
<1>3. CASE a = b /\ rows[<<b, m>>].slug = s
  <2>1. Renamed(a, s)
    BY <1>1, <1>2, <1>3 DEF Renamed
  <2>. QED
    BY <2>1 DEF Kept
<1>4. CASE ~(a = b /\ rows[<<b, m>>].slug = s)
  <2>1. \A k \in Article \X Lang : k[1] = a /\ rows[k].id # 0 /\ rows[k].slug = s =>
            k # <<b, m>>
    BY <1>4
  <2>2. \A k \in Article \X Lang : k[1] = a /\ rows[k].id # 0 /\ rows[k].slug = s =>
            rows'[k].id # 0 /\ rows'[k].slug = s
    BY <1>2, <2>1
  <2>. QED
    BY <1>1, <2>2, QuietLinks DEF Kept
<1>. QED
  BY <1>3, <1>4

LEMMA CommitLinks ==
    ASSUME Inv, NEW c \in Call, CommitHide(c) \/ CommitUpdate(c) \/ CommitDelete(c),
           NEW a \in Article, NEW s, Leads(a, s)
    PROVE  Kept(a, s)
<1>. DEFINE b == call[c].of
<1>0. /\ Become(c, NoCall) /\ b \in Article /\ call'[c] = NoCall
      /\ call[c].pc \in {"hide", "status", "delete"}
  <2>1. Become(c, NoCall) /\ call[c].pc \in {"hide", "status", "delete"}
    BY DEF CommitHide, CommitUpdate, CommitDelete
  <2>2. b \in Article
    BY <2>1 DEF Inv, CallsFit, Fits
  <2>3. call'[c] = NoCall
    BY <2>1, BecomeOnly
  <2>. QED
    BY <2>1, <2>2, <2>3
<1>1. CASE a # b
  <2>1. status'[a] = status[a] /\ \A k \in Article \X Lang : k[1] = a => rows'[k] = rows[k]
    BY <1>0, <1>1 DEF CommitHide, CommitUpdate, CommitDelete, Inv, Shapes
  <2>2. CASE CommitDelete(c)
    <3>1. links'[a] = links[a]
      BY <1>0, <1>1, <2>2 DEF CommitDelete, Inv, Shapes
    <3>. QED
      BY <2>1, <3>1, SameRowsLinks DEF Kept
  <2>3. CASE CommitHide(c)
    <3>1. links'[a] = links[a]
      BY <1>0, <1>1, <2>3 DEF CommitHide, Announce, Inv, Shapes
    <3>. QED
      BY <2>1, <3>1, SameRowsLinks DEF Kept
  <2>4. CASE CommitUpdate(c)
    <3>1. links'[a] = links[a]
      BY <1>0, <1>1, <2>4 DEF CommitUpdate, Announce, Inv, Shapes
    <3>. QED
      BY <2>1, <3>1, SameRowsLinks DEF Kept
  <2>. QED
    BY <2>2, <2>3, <2>4
<1>2. CASE a = b /\ CommitHide(c)
  <2>1. CASE call[c].seen # status[a]
    BY <1>0, <1>2, <2>1 DEF Kept, StaleCommit, CommitHide
  <2>2. CASE call[c].seen = status[a]
    <3>1. status'[a] = "HIDDEN" /\ Announce(a, call[c].seen, "HIDDEN") /\ UNCHANGED rows
      BY <1>2 DEF CommitHide, Inv, Shapes
    <3>. QED
      BY <2>2, <3>1, AnnouncedLinks DEF Kept
  <2>. QED
    BY <2>1, <2>2
<1>3. CASE a = b /\ CommitUpdate(c)
  <2>1. CASE call[c].seen # status[a]
    BY <1>0, <1>3, <2>1 DEF Kept, StaleCommit, CommitUpdate
  <2>2. CASE call[c].seen = status[a] /\ call[c].to # call[c].seen
    <3>1. /\ status'[a] = call[c].to /\ UNCHANGED rows
          /\ Announce(a, call[c].seen, call[c].to)
      BY <1>3, <2>2 DEF CommitUpdate, Inv, Shapes
    <3>. QED
      BY <2>2, <3>1, AnnouncedLinks DEF Kept
  <2>3. CASE call[c].seen = status[a] /\ call[c].to = call[c].seen
    <3>1. status'[a] = status[a] /\ UNCHANGED <<rows, links>>
      BY <1>3, <2>3 DEF CommitUpdate, Inv, Shapes
    <3>. QED
      BY <3>1, SameRowsLinks DEF Kept
  <2>. QED
    BY <2>1, <2>2, <2>3
<1>4. CASE a = b /\ CommitDelete(c)
  <2>1. CASE call[c].known # SlugsOf(a)
    BY <1>0, <1>4, <2>1 DEF Kept, StaleCommit, CommitDelete
  <2>2. CASE call[c].known = SlugsOf(a)
    <3>1. links'[a] = links[a] \ SlugsOf(a)
      BY <1>4, <2>2 DEF CommitDelete, Inv, Shapes
    <3>2. s \notin links'[a]
      BY <3>1 DEF Leads
    <3>. QED
      BY <3>2 DEF Kept, Leads
  <2>. QED
    BY <2>1, <2>2
<1>. QED
  BY <1>1, <1>2, <1>3, <1>4

LEMMA LinksKeep == ASSUME Inv, [Next]_vars, NEW a \in Article, NEW s, Leads(a, s) PROVE Kept(a, s)
<1>1. ASSUME UNCHANGED <<status, rows, links>> PROVE Kept(a, s)
  BY <1>1, SameRowsLinks DEF Kept
<1>2. ASSUME NEW c \in Call, NEW b \in Article, NEW to, NEW langs, NEW bases, NEW flagged,
             \/ StartCreateArticle(c, b, to, langs, bases, flagged)
             \/ StartCreate(c, b, langs, bases, flagged)
             \/ ReadForUpdate(c, b, to) \/ ReadSummary(c, b)
      PROVE  Kept(a, s)
  BY <1>1, <1>2 DEF StartCreateArticle, StartCreate, ReadForUpdate, ReadSummary
<1>3. ASSUME NEW c \in Call, NEW b \in Article, NEW lang, NEW retext, NEW flagged, NEW slugs,
             StartUpdate(c, b, lang, retext, flagged, slugs)
      PROVE  Kept(a, s)
  BY <1>1, <1>3 DEF StartUpdate
<1>4. ASSUME NEW c \in Call,
             \/ ReadTaken(c) \/ Conflict(c) \/ WriteFails(c) \/ ReadForHide(c)
             \/ CallFails(c) \/ Crash(c)
      PROVE  Kept(a, s)
  <2>1. UNCHANGED <<status, rows, links>>
    BY <1>4 DEF ReadTaken, Conflict, WriteFails, ReadForHide, CallFails, Crash
  <2>. QED
    BY <1>1, <2>1
<1>5. ASSUME NEW c \in Call, InsertArticle(c) PROVE Kept(a, s)
  BY <1>5, InsertArticleLinks DEF Kept
<1>6. ASSUME NEW c \in Call, InsertTranslation(c) \/ Write(c) PROVE Kept(a, s)
  BY <1>6, RowLinks
<1>7. ASSUME NEW c \in Call, CommitHide(c) \/ CommitUpdate(c) \/ CommitDelete(c)
      PROVE  Kept(a, s)
  BY <1>7, CommitLinks
<1>8. ASSUME NEW b \in Article, NEW l \in Lang, RemoveTranslation(b, l) PROVE Kept(a, s)
  BY <1>8, RemovalLinks
<1>9. ASSUME UNCHANGED vars PROVE Kept(a, s)
  BY <1>1, <1>9 DEF vars
<1>. QED
  BY <1>2, <1>3, <1>4, <1>5, <1>6, <1>7, <1>8, <1>9, Zenon DEF Next

(* A link of the site dies only by a rename or a removal, or a commit by   *)
(* an outdated read: every event lists what there is to link or purge      *)
(* (webhook-event-publisher.service.ts:203).                               *)
THEOREM LinksStay == Spec => LinksStayAlive
<1>1. Inv /\ [Next]_vars => [\A a \in Article : \A s \in UNION {links[b] \cup links'[b] : b \in Article} :
          Leads(a, s) => Leads(a, s)' \/ StaleCommit(a) \/ Renamed(a, s)]_vars
  BY LinksKeep DEF Kept
<1>. QED
  BY <1>1, Invariance, PTL DEF Spec, LinksStayAlive

-----------------------------------------------------------------------------
(* What BackOfficeProofs shows of nextFreeSlug is about slugs alone: here  *)
(* it is taken from an instance without rows or requests.                  *)
Naming == INSTANCE BackOfficeProofs WITH
    Row <- {}, Mixes <- {}, Base <- {}, Rename <- {}, InUse <- {}, Call <- {},
    kind <- <<>>, state <- <<>>, slug <- <<>>, call <- <<>>, told <- <<>>

LEMMA SameNames ==
    /\ Naming!BackOfficeAssumption
    /\ Naming!Slug = Slug
    /\ \A S : Naming!IsFiniteSet(S) <=> IsFiniteSet(S)
    /\ \A base, n : Naming!Numbered(base, n) = Numbered(base, n)
    /\ \A base, taken : Naming!NextFreeSlug(base, taken) = NextFreeSlug(base, taken)
<1>1. \A S : Naming!IsFiniteSet(S) <=> IsFiniteSet(S)
  BY DEF Naming!IsFiniteSet, IsFiniteSet
<1>2. Naming!BackOfficeAssumption
  <2>1. Naming!IsFiniteSet({})
    BY <1>1, FS_EmptySet
  <2>. QED
    BY <2>1 DEF Naming!BackOfficeAssumption
<1>3. Naming!Slug = Slug
  BY DEF Naming!Slug, Slug
<1>4. \A base, n : Naming!Numbered(base, n) = Numbered(base, n)
  BY DEF Naming!Numbered, Numbered
<1>5. \A base, taken : Naming!NextFreeSlug(base, taken) = NextFreeSlug(base, taken)
  BY DEF Naming!NextFreeSlug, NextFreeSlug, Naming!FreeNumbers, FreeNumbers,
         Naming!Numbered, Numbered, Naming!Cardinality, Cardinality
<1>. QED
  BY <1>1, <1>2, <1>3, <1>4, <1>5

LEMMA FreeSlug ==
    ASSUME NEW base \in Slug, NEW taken, IsFiniteSet(taken)
    PROVE  /\ NextFreeSlug(base, taken) \in Slug
           /\ NextFreeSlug(base, taken) \notin taken
           /\ \/ NextFreeSlug(base, taken) = base
              \/ \E n \in Nat : NextFreeSlug(base, taken) = Numbered(base, n)
<1>1. base \in Naming!Slug /\ Naming!IsFiniteSet(taken)
  BY SameNames
<1>2. /\ Naming!NextFreeSlug(base, taken) \in Naming!Slug
      /\ Naming!NextFreeSlug(base, taken) \notin taken
      /\ \/ Naming!NextFreeSlug(base, taken) = base
         \/ \E n \in Nat : Naming!NextFreeSlug(base, taken) = Naming!Numbered(base, n)
  BY <1>1, SameNames, Naming!NextFreeSlugIsFree
<1>. QED
  BY <1>2, SameNames

LEMMA NumberedSlug ==
    ASSUME NEW base \in Slug, NEW n \in Nat
    PROVE  Len(Numbered(base, n)) = Len(base) + 1 /\ SubSeq(Numbered(base, n), 1, Len(base)) = base
<1>1. base \in Naming!Slug
  BY SameNames
<1>2. /\ Len(Naming!Numbered(base, n)) = Len(base) + 1
      /\ SubSeq(Naming!Numbered(base, n), 1, Len(base)) = base
  BY <1>1, SameNames, Naming!NumberedIsSlug
<1>. QED
  BY <1>2, SameNames

(* Induction over the numbers, as a fact about a set of them. *)
LEMMA EveryNumber ==
    ASSUME NEW T \in SUBSET Nat, 0 \in T, \A n \in T : n + 1 \in T
    PROVE  T = Nat
<1>. DEFINE missing == Nat \ T
<1>1. SUFFICES ASSUME missing # {} PROVE FALSE
  OBVIOUS
<1>2. missing \subseteq Nat
  OBVIOUS
<1>3. \E n \in missing : \A m \in missing : n <= m
  <2>. HIDE DEF missing
  <2>. QED
    BY <1>1, <1>2, SameNames, Naming!LeastNumber
<1>4. PICK n \in missing : \A m \in missing : n <= m
  BY <1>3
<1>5. n \in Nat /\ n # 0 /\ n \notin T
  OBVIOUS
<1>6. n - 1 \in Nat /\ ~(n <= n - 1) /\ (n - 1) + 1 = n
  BY <1>5
<1>7. n - 1 \in T
  BY <1>4, <1>6
<1>. QED
  BY <1>5, <1>6, <1>7
-----------------------------------------------------------------------------
(* The recursion of ChosenSlugs: `f` holds what has been chosen after each *)
(* of the first n bases.                                                   *)
Chosen(bases, taken, f, i) ==
    IF i = 0 THEN <<>>
    ELSE Append(f[i - 1], NextFreeSlug(bases[i], taken \cup {f[i - 1][j] : j \in 1..i - 1}))
Chooses(bases, taken, f, n) == f = [i \in 0..n |-> Chosen(bases, taken, f, i)]

LEMMA ChoosesStep ==
    ASSUME NEW bases, NEW taken, NEW n \in Nat, NEW f, Chooses(bases, taken, f, n)
    PROVE  \E g : Chooses(bases, taken, g, n + 1)
<1>. DEFINE last == Chosen(bases, taken, f, n + 1)
            g == [i \in 0..n + 1 |-> IF i = n + 1 THEN last ELSE f[i]]
<1>1. \A i \in 0..n : g[i] = f[i] /\ f[i] = Chosen(bases, taken, f, i)
  BY DEF Chooses
<1>2. \A i \in 0..n : i = 0 \/ (i - 1 \in 0..n /\ g[i - 1] = f[i - 1])
  BY <1>1
<1>3. \A i \in 0..n : g[i] = Chosen(bases, taken, g, i)
  <2>. HIDE DEF g
  <2>. QED
    BY <1>1, <1>2 DEF Chosen
<1>4. g[n] = f[n] /\ (n + 1) - 1 = n /\ n + 1 # 0
  OBVIOUS
<1>5. g[n + 1] = last /\ last = Chosen(bases, taken, g, n + 1)
  <2>1. g[n + 1] = last
    <3>. HIDE DEF last
    <3>. QED
      OBVIOUS
  <2>2. g[(n + 1) - 1] = f[(n + 1) - 1]
    BY <1>4
  <2>. HIDE DEF g
  <2>. QED
    BY <2>1, <2>2, <1>4 DEF Chosen
<1>6. \A i \in 0..n + 1 : g[i] = Chosen(bases, taken, g, i)
  <2>1. \A i \in 0..n + 1 : i \in 0..n \/ i = n + 1
    OBVIOUS
  <2>. HIDE DEF g, last
  <2>. QED
    BY <1>3, <1>5, <2>1
<1>7. g = [i \in 0..n + 1 |-> g[i]]
  OBVIOUS
<1>8. g = [i \in 0..n + 1 |-> Chosen(bases, taken, g, i)]
  <2>. HIDE DEF g
  <2>. QED
    BY <1>6, <1>7
<1>. HIDE DEF g
<1>. QED
  BY <1>8 DEF Chooses

LEMMA SomethingChooses ==
    ASSUME NEW bases, NEW taken, NEW n \in Nat
    PROVE  \E f : Chooses(bases, taken, f, n)
<1>. DEFINE T == {m \in Nat : \E f : Chooses(bases, taken, f, m)}
<1>1. 0 \in T
  <2>. DEFINE f == [i \in 0..0 |-> <<>>]
  <2>1. f = [i \in 0..0 |-> Chosen(bases, taken, f, i)]
    BY DEF Chosen
  <2>. HIDE DEF f
  <2>. QED
    BY <2>1 DEF Chooses
<1>2. ASSUME NEW m \in T PROVE m + 1 \in T
  BY ChoosesStep
<1>3. T \in SUBSET Nat
  OBVIOUS
<1>4. T = Nat
  <2>. HIDE DEF T
  <2>. QED
    BY <1>1, <1>2, <1>3, EveryNumber
<1>. QED
  BY <1>4

LEMMA ChosenSlugsIs ==
    ASSUME NEW bases, NEW taken, Len(bases) \in Nat
    PROVE  \E f : Chooses(bases, taken, f, Len(bases)) /\ ChosenSlugs(bases, taken) = f[Len(bases)]
<1>. DEFINE n == Len(bases)
            pick == CHOOSE f : Chooses(bases, taken, f, n)
<1>1. Chooses(bases, taken, pick, n)
  BY SomethingChooses
<1>2. ChosenSlugs(bases, taken) = pick[n]
  BY DEF ChosenSlugs, Chooses, Chosen
<1>. QED
  BY <1>1, <1>2

(* What a list of slugs for the first n bases is: free, and without        *)
(* repetition.                                                             *)
FreshList(p, bases, taken, n) ==
    /\ p \in Seq(Slug) /\ Len(p) = n
    /\ \A i \in 1..n : /\ p[i] \notin taken
                       /\ p[i] = bases[i] \/ \E m \in Nat : p[i] = Numbered(bases[i], m)
    /\ \A i, j \in 1..n : i # j => p[i] # p[j]

LEMMA ListIsFinite ==
    ASSUME NEW p \in Seq(Slug)
    PROVE  IsFiniteSet({p[j] : j \in 1..Len(p)})
<1>. DEFINE S == {p[j] : j \in 1..Len(p)}
<1>1. Len(p) \in Nat /\ p \in [1..Len(p) -> Slug]
  BY LenProperties
<1>2. p \in [1..Len(p) -> S]
  BY <1>1
<1>3. p \in Seq(S)
  <2>. HIDE DEF S
  <2>. QED
    BY <1>1, <1>2, SeqDef
<1>4. \A s \in S : \E n \in 1..Len(p) : p[n] = s
  OBVIOUS
<1>. HIDE DEF S
<1>. QED
  BY <1>3, <1>4 DEF IsFiniteSet, S

Extended(p, bases, taken, n) ==
    Append(p, NextFreeSlug(bases[n], taken \cup {p[j] : j \in 1..n - 1}))

LEMMA FreshStep ==
    ASSUME NEW bases \in Seq(Slug), NEW taken, IsFiniteSet(taken),
           NEW n \in 1..Len(bases), NEW p, FreshList(p, bases, taken, n - 1)
    PROVE  FreshList(Extended(p, bases, taken, n), bases, taken, n)
<1>. DEFINE mine == {p[j] : j \in 1..n - 1}
            s == NextFreeSlug(bases[n], taken \cup mine)
            q == Append(p, s)
<1>1. p \in Seq(Slug) /\ Len(p) = n - 1 /\ bases[n] \in Slug /\ n \in Nat
  BY ElementOfSeq DEF FreshList
<1>2. IsFiniteSet(taken \cup mine)
  <2>1. IsFiniteSet(mine)
    BY <1>1, ListIsFinite
  <2>. HIDE DEF mine
  <2>. QED
    BY <2>1, FS_Union
<1>3. /\ s \in Slug /\ s \notin taken /\ s \notin mine
      /\ s = bases[n] \/ \E m \in Nat : s = Numbered(bases[n], m)
  <2>. HIDE DEF mine
  <2>. QED
    BY <1>1, <1>2, FreeSlug
<1>4. q \in Seq(Slug) /\ Len(q) = n /\ q[n] = s /\ \A i \in 1..n - 1 : q[i] = p[i]
  <2>. HIDE DEF s
  <2>. QED
    BY <1>1, <1>3, AppendProperties
<1>. HIDE DEF s, q
<1>5. \A i \in 1..n : i \in 1..n - 1 \/ i = n
  BY <1>1
<1>6. ASSUME NEW i \in 1..n
      PROVE  /\ q[i] \notin taken
             /\ q[i] = bases[i] \/ \E m \in Nat : q[i] = Numbered(bases[i], m)
  <2>1. CASE i = n
    BY <1>3, <1>4, <2>1, Zenon
  <2>2. CASE i \in 1..n - 1
    BY <1>4, <2>2, Zenon DEF FreshList
  <2>. QED
    BY <1>5, <2>1, <2>2
<1>7. \A i \in 1..n - 1 : q[i] \in mine
  BY <1>4
<1>8. ASSUME NEW i \in 1..n, NEW j \in 1..n, i # j PROVE q[i] # q[j]
  <2>1. CASE i = n
    <3>1. j \in 1..n - 1 /\ q[i] = s
      BY <1>4, <1>5, <1>8, <2>1
    <3>2. q[j] \in mine
      BY <1>7, <3>1
    <3>. QED
      BY <1>3, <3>1, <3>2
  <2>2. CASE j = n
    <3>1. i \in 1..n - 1 /\ q[j] = s
      BY <1>4, <1>5, <1>8, <2>2
    <3>2. q[i] \in mine
      BY <1>7, <3>1
    <3>. QED
      BY <1>3, <3>1, <3>2
  <2>3. CASE i \in 1..n - 1 /\ j \in 1..n - 1
    BY <1>4, <1>8, <2>3 DEF FreshList
  <2>. QED
    BY <1>5, <2>1, <2>2, <2>3
<1>9. FreshList(q, bases, taken, n)
  BY <1>4, <1>6, <1>8 DEF FreshList
<1>. QED
  BY <1>9, Zenon DEF q, s, mine, Extended

(* The slugs articles.create chooses for the translations of an article    *)
(* (slugify.ts:25, articles.service.ts:253) are free and no two the same,  *)
(* for any number of translations.                                         *)
THEOREM ChosenSlugsAreFree ==
    ASSUME NEW bases \in Seq(Slug), NEW taken, IsFiniteSet(taken)
    PROVE  FreshList(ChosenSlugs(bases, taken), bases, taken, Len(bases))
<1>. DEFINE n == Len(bases)
<1>1. n \in Nat
  BY LenProperties
<1>2. PICK f : Chooses(bases, taken, f, n) /\ ChosenSlugs(bases, taken) = f[n]
  BY <1>1, ChosenSlugsIs
<1>3. \A i \in 0..n : f[i] = Chosen(bases, taken, f, i)
  BY <1>2 DEF Chooses
<1>. DEFINE T == {m \in Nat : m <= n => FreshList(f[m], bases, taken, m)}
<1>4. 0 \in T
  <2>1. f[0] = <<>>
    <3>1. 0 \in 0..n
      BY <1>1
    <3>2. f[0] = Chosen(bases, taken, f, 0)
      BY <1>3, <3>1
    <3>. QED
      BY <3>2 DEF Chosen
  <2>2. FreshList(<<>>, bases, taken, 0)
    <3>1. <<>> \in Seq(Slug) /\ Len(<<>>) = 0
      BY EmptySeq
    <3>. QED
      BY <3>1 DEF FreshList
  <2>. QED
    BY <2>1, <2>2
<1>5. ASSUME NEW m \in T PROVE m + 1 \in T
  <2>1. m \in Nat
    OBVIOUS
  <2>2. SUFFICES ASSUME m + 1 <= n PROVE FreshList(f[m + 1], bases, taken, m + 1)
    BY <2>1
  <2>3. m + 1 \in 1..n /\ m + 1 # 0 /\ (m + 1) - 1 = m /\ m <= n /\ m + 1 \in 0..n
    BY <1>1, <2>1, <2>2
  <2>4. FreshList(f[m], bases, taken, m)
    BY <2>3
  <2>5. f[m + 1] = Append(f[m], NextFreeSlug(bases[m + 1], taken \cup {f[m][j] : j \in 1..m}))
    <3>1. f[m + 1] = Chosen(bases, taken, f, m + 1)
      BY <1>3, <2>3
    <3>. QED
      BY <2>3, <3>1 DEF Chosen
  <2>6. FreshList(f[(m + 1) - 1], bases, taken, (m + 1) - 1)
    BY <2>3, <2>4
  <2>7. FreshList(Extended(f[m], bases, taken, m + 1), bases, taken, m + 1)
    <3>1. FreshList(f[m], bases, taken, (m + 1) - 1) /\ m + 1 \in 1..Len(bases)
      BY <2>3, <2>4
    <3>. HIDE DEF n, T
    <3>. QED
      BY <3>1, FreshStep
  <2>8. f[m + 1] = Extended(f[m], bases, taken, m + 1)
    BY <2>3, <2>5 DEF Extended
  <2>. QED
    BY <2>7, <2>8
<1>6. T = Nat
  <2>1. T \in SUBSET Nat
    OBVIOUS
  <2>. HIDE DEF T
  <2>. QED
    BY <1>4, <1>5, <2>1, EveryNumber
<1>7. n \in T /\ n <= n
  <2>. HIDE DEF T
  <2>. QED
    BY <1>1, <1>6
<1>. QED
  BY <1>2, <1>7

-----------------------------------------------------------------------------
(* Types, and what the requests choose.                                    *)

CallRecord ==
    [pc : {"idle", "slugs", "write", "scan", "hide", "status", "delete"},
     op : {Absent, "article", "translation", "update", "status", "remove"},
     of : Article \cup {Absent}, seen : Status \cup {Absent}, to : Status \cup {Absent},
     langs : Seq(Lang), bases : Seq(Slug), slugs : Seq(Slug), flagged : BOOLEAN,
     retext : BOOLEAN, row : 0..MaxRows, known : SUBSET Slug]

Row == [id : 0..MaxRows, slug : Seq(Nat), flagged : BOOLEAN]

Creates(x) == x.pc = "write" /\ x.op \in {"article", "translation"}

(* A request's lists go together, and what it has chosen is free. *)
Well(x) ==
    /\ x \in CallRecord
    /\ x.pc = "slugs" => Len(x.bases) = Len(x.langs) /\ x.op # "update"
    /\ Creates(x) => /\ Len(x.slugs) = Len(x.langs)
                     /\ \A i \in DOMAIN x.slugs : x.slugs[i] \notin x.known
                     /\ \A i, j \in DOMAIN x.slugs : i # j => x.slugs[i] # x.slugs[j]
    /\ x.pc = "write" /\ x.op = "update" => Len(x.langs) = 1

CallsWell == call = [c \in Call |-> call[c]] /\ \A c \in Call : Well(call[c])

(* No two rows have the same number, whatever has been removed: there are  *)
(* no more of them than numbers.                                           *)
Numbering(table, n) ==
    \A p, q \in Article \X Lang : table[p].id # 0 =>
        /\ table[p].id \in 1..n /\ table[p].slug \in Slug
        /\ p # q => table[q].id # table[p].id

RowsWell(table, n) ==
    /\ n \in 0..MaxRows
    /\ table \in [Article \X Lang -> Row]
    /\ Numbering(table, n)

SiteWell ==
    /\ status \in [Article -> Status \cup {Absent, Deleted}]
    /\ dated \subseteq Article /\ online \subseteq Article /\ excused \subseteq Article
    /\ links \in [Article -> SUBSET Slug]

WellInv == CallsWell /\ RowsWell(rows, inserted) /\ SiteWell

LEMMA WellIsTyped ==
    ASSUME WellInv PROVE TypeOK /\ ConflictMeansOverlap
<1>1. call \in [Call -> CallRecord]
  BY DEF WellInv, CallsWell, Well
<1>2. TypeOK
  BY <1>1 DEF WellInv, RowsWell, SiteWell, TypeOK, CallRecord, Row
<1>3. ConflictMeansOverlap
  BY DEF WellInv, CallsWell, Well, Creates, ConflictMeansOverlap
<1>. QED
  BY <1>2, <1>3

LEMMA NoCallWell == Well(NoCall) /\ NoCall.pc = "idle"
<1>1. <<>> \in Seq(Lang) /\ <<>> \in Seq(Slug)
  BY EmptySeq
<1>. QED
  BY <1>1, CatalogueAssumption DEF Well, Creates, CallRecord, NoCall

LEMMA InitWell == Init => WellInv
<1>. SUFFICES ASSUME Init PROVE WellInv
  OBVIOUS
<1>1. CallsWell
  BY NoCallWell DEF Init, CallsWell
<1>2. NoRow \in Row /\ NoRow.id = 0
  <2>1. <<>> \in Seq(Nat)
    BY EmptySeq
  <2>. QED
    BY <2>1, CatalogueAssumption DEF NoRow, Row
<1>3. RowsWell(rows, inserted)
  BY <1>2, CatalogueAssumption DEF Init, RowsWell, Numbering
<1>4. SiteWell
  BY DEF Init, SiteWell
<1>. QED
  BY <1>1, <1>3, <1>4 DEF WellInv

(* The slugs in use, and those of an article, are slugs and finitely many. *)
LEMMA FinitelyManySlugs ==
    ASSUME NEW table, NEW n, RowsWell(table, n)
    PROVE  /\ IsFiniteSet({table[k].slug : k \in {p \in Article \X Lang : table[p].id # 0}})
           /\ \A k \in Article \X Lang : table[k].id # 0 => table[k].slug \in Slug
<1>. DEFINE P == {p \in Article \X Lang : table[p].id # 0}
            S == {table[k].slug : k \in P}
            used == {i \in 1..n : \E k \in P : table[k].id = i}
            f == [i \in used |-> table[CHOOSE k \in P : table[k].id = i].slug]
<1>1. n \in Nat
  BY CatalogueAssumption DEF RowsWell
<1>2. IsFiniteSet(1..n)
  BY <1>1, FS_Interval
<1>3. IsFiniteSet(used)
  BY <1>2, FS_Subset
<1>4. ASSUME NEW k \in P PROVE table[k].id \in used /\ f[table[k].id] = table[k].slug
  <2>1. k \in Article \X Lang /\ table[k].id \in 1..n /\ table[k].id \in used
    BY DEF RowsWell, Numbering
  <2>2. \A m \in P : table[m].id = table[k].id => m = k
    BY DEF RowsWell, Numbering
  <2>3. (CHOOSE m \in P : table[m].id = table[k].id) = k
    <3>. HIDE DEF P
    <3>. QED
      BY <2>2
  <2>. QED
    BY <2>1, <2>3
<1>5. ASSUME NEW i \in used PROVE f[i] \in S
  <2>1. PICK k \in P : table[k].id = i
    OBVIOUS
  <2>. HIDE DEF f, P
  <2>. QED
    BY <1>4, <2>1
<1>6. f \in Surjection(used, S)
  <2>1. f \in [used -> S]
    BY <1>5
  <2>2. \A s \in S : \E i \in used : f[i] = s
    <3>. HIDE DEF f, used, P
    <3>. QED
      BY <1>4
  <2>. HIDE DEF f, used, S
  <2>. QED
    BY <2>1, <2>2 DEF Surjection
<1>7. IsFiniteSet(S)
  <2>. HIDE DEF f, used, S
  <2>. QED
    BY <1>3, <1>6, FS_Surjection
<1>8. \A k \in Article \X Lang : table[k].id # 0 => table[k].slug \in Slug
  BY DEF RowsWell, Numbering
<1>. QED
  BY <1>7, <1>8

LEMMA ShortLists ==
    /\ \A S : <<>> \in Seq(S)
    /\ \A S : \A e \in S : <<e>> \in Seq(S) /\ Len(<<e>>) = 1
    /\ \A S : \A p \in S \X S : p \in Seq(S) /\ Len(p) = 2
<1>1. ASSUME NEW S, NEW e \in S PROVE <<e>> \in Seq(S) /\ Len(<<e>>) = 1
  OBVIOUS
<1>2. ASSUME NEW S, NEW p \in S \X S PROVE p \in Seq(S) /\ Len(p) = 2
  <2>1. PICK d \in S, e \in S : p = <<d, e>>
    OBVIOUS
  <2>. QED
    BY <2>1
<1>. QED
  BY <1>1, <1>2, EmptySeq

LEMMA WellStep ==
    ASSUME WellInv, NEW c \in Call, NEW y, Become(c, y), Well(y)
    PROVE  CallsWell'
<1>1. call' = [d \in Call |-> call'[d]] /\ \A d \in Call : call'[d] \in {y, call[d]}
  BY DEF Become, WellInv, CallsWell
<1>. QED
  BY <1>1 DEF WellInv, CallsWell

(* The steps that change a request only. *)
LEMMA QuietWell ==
    ASSUME WellInv, NEW c \in Call, NEW y, Become(c, y), Well(y), excused' \subseteq Article,
           UNCHANGED <<status, dated, rows, inserted, online, links>>
    PROVE  WellInv'
<1>1. CallsWell'
  BY WellStep
<1>2. RowsWell(rows, inserted)' /\ SiteWell'
  BY DEF WellInv, RowsWell, Numbering, SiteWell
<1>. QED
  BY <1>1, <1>2 DEF WellInv

LEMMA SlugSets ==
    ASSUME WellInv
    PROVE  /\ IsFiniteSet(AllSlugs) /\ AllSlugs \subseteq Slug
           /\ \A a : SlugsOf(a) \subseteq Slug
BY FinitelyManySlugs DEF WellInv, AllSlugs, Present, SlugsOf, SlugsIn

LEMMA StartsWell ==
    ASSUME WellInv, NEW c \in Call, NEW a \in Article
    PROVE  /\ \A langs \in Languages : \A bases \in [1..Len(langs) -> Title] :
                  \A to \in Asked \cup {"DRAFT"}, flagged \in BOOLEAN :
                      StartCreateArticle(c, a, to, langs, bases, flagged) => WellInv'
           /\ \A lang \in Lang, base \in Title, flagged \in BOOLEAN :
                  StartCreate(c, a, lang, base, flagged) => WellInv'
           /\ \A lang \in Lang, retext \in BOOLEAN, flagged \in BOOLEAN :
                  \A slugs \in {<<r>> : r \in Rename} \cup {<<>>} :
                      StartUpdate(c, a, lang, retext, flagged, slugs) => WellInv'
           /\ \A to \in Asked : ReadForUpdate(c, a, to) => WellInv'
           /\ ReadSummary(c, a) => WellInv'
<1>0. /\ NoCall \in CallRecord /\ NoCall.pc = "idle"
      /\ Title \subseteq Slug /\ Rename \subseteq Slug /\ Asked \cup {"DRAFT"} \subseteq Status
  BY NoCallWell, Values, CatalogueAssumption DEF Well
<1>1. ASSUME NEW to \in Asked \cup {"DRAFT"}, NEW langs \in Languages, NEW flagged \in BOOLEAN,
             NEW bases \in [1..Len(langs) -> Title],
             StartCreateArticle(c, a, to, langs, bases, flagged)
      PROVE  WellInv'
  <2>. DEFINE y == [NoCall EXCEPT !.pc = "slugs", !.op = "article", !.of = a, !.to = to,
                      !.langs = langs, !.bases = bases, !.flagged = flagged]
  <2>1. langs \in Seq(Lang) /\ Len(langs) \in Nat
    <3>1. CASE langs \in {<<l>> : l \in Lang}
      BY <3>1, ShortLists
    <3>2. CASE langs \in {p \in Lang \X Lang : p[1] # p[2]}
      BY <3>2, ShortLists
    <3>. QED
      BY <3>1, <3>2 DEF Languages
  <2>2. bases \in Seq(Slug) /\ Len(bases) = Len(langs)
    <3>1. bases \in [1..Len(langs) -> Slug]
      BY <1>0
    <3>2. bases \in Seq(Slug)
      BY <2>1, <3>1, SeqDef
    <3>3. DOMAIN bases = 1..Len(langs) /\ DOMAIN bases = 1..Len(bases) /\ Len(bases) \in Nat
      BY <3>1, <3>2, LenProperties
    <3>. QED
      BY <2>1, <3>2, <3>3
  <2>3. Well(y)
    <3>1. y \in CallRecord
      BY <1>0, <2>1, <2>2 DEF CallRecord
    <3>2. y.pc = "slugs" /\ y.op = "article" /\ y.langs = langs /\ y.bases = bases
      BY <1>0 DEF CallRecord
    <3>. QED
      BY <2>2, <3>1, <3>2 DEF Well, Creates
  <2>4. Become(c, y) /\ UNCHANGED <<status, dated, rows, inserted, online, links, excused>>
    BY <1>1 DEF StartCreateArticle
  <2>5. excused' \subseteq Article
    BY <2>4 DEF WellInv, SiteWell
  <2>. HIDE DEF y
  <2>. QED
    BY <2>3, <2>4, <2>5, QuietWell
<1>2. ASSUME NEW lang \in Lang, NEW base \in Title, NEW flagged \in BOOLEAN,
             StartCreate(c, a, lang, base, flagged)
      PROVE  WellInv'
  <2>. DEFINE langs == <<lang>>  bases == <<base>>
              y == [NoCall EXCEPT !.pc = "slugs", !.op = "translation", !.of = a,
                      !.langs = langs, !.bases = bases, !.flagged = flagged]
  <2>1. langs \in Seq(Lang) /\ bases \in Seq(Slug) /\ Len(langs) = Len(bases)
    BY <1>0, ShortLists
  <2>2. Well(y)
    <3>. HIDE DEF langs, bases
    <3>1. y \in CallRecord
      BY <1>0, <2>1 DEF CallRecord
    <3>2. y.pc = "slugs" /\ y.op = "translation" /\ y.langs = langs /\ y.bases = bases
      BY <1>0 DEF CallRecord
    <3>. QED
      BY <2>1, <3>1, <3>2 DEF Well, Creates
  <2>3. Become(c, y) /\ UNCHANGED <<status, dated, rows, inserted, online, links, excused>>
    BY <1>2 DEF StartCreate
  <2>4. excused' \subseteq Article
    BY <2>3 DEF WellInv, SiteWell
  <2>. HIDE DEF y
  <2>. QED
    BY <2>2, <2>3, <2>4, QuietWell
<1>3. ASSUME NEW lang \in Lang, NEW retext \in BOOLEAN, NEW flagged \in BOOLEAN,
             NEW slugs \in {<<r>> : r \in Rename} \cup {<<>>},
             StartUpdate(c, a, lang, retext, flagged, slugs)
      PROVE  WellInv'
  <2>. DEFINE langs == <<lang>>  said == retext /\ flagged
              y == [NoCall EXCEPT !.pc = "write", !.op = "update", !.of = a,
                      !.langs = langs, !.row = rows[<<a, lang>>].id, !.slugs = slugs,
                      !.retext = retext, !.flagged = said]
  <2>1. langs \in Seq(Lang) /\ Len(langs) = 1 /\ slugs \in Seq(Slug)
    <3>1. ASSUME NEW r \in Rename, slugs = <<r>> PROVE slugs \in Seq(Slug)
      BY <1>0, <3>1, ShortLists
    <3>. QED
      BY <3>1, ShortLists
  <2>2. rows[<<a, lang>>].id \in 0..MaxRows /\ said \in BOOLEAN
    BY DEF WellInv, RowsWell, Row
  <2>3. Well(y)
    <3>. HIDE DEF langs, said
    <3>1. y \in CallRecord
      BY <1>0, <2>1, <2>2 DEF CallRecord
    <3>2. y.pc = "write" /\ y.op = "update" /\ y.langs = langs
      BY <1>0 DEF CallRecord
    <3>. QED
      BY <2>1, <3>1, <3>2 DEF Well, Creates
  <2>4. Become(c, y) /\ UNCHANGED <<status, dated, rows, inserted, online, links, excused>>
    BY <1>3 DEF StartUpdate
  <2>5. excused' \subseteq Article
    BY <2>4 DEF WellInv, SiteWell
  <2>. HIDE DEF y
  <2>. QED
    BY <2>3, <2>4, <2>5, QuietWell
<1>4. ASSUME NEW to \in Asked, ReadForUpdate(c, a, to) PROVE WellInv'
  <2>. DEFINE y == [NoCall EXCEPT !.pc = "status", !.op = "status", !.of = a,
                                !.seen = status[a], !.to = to]
  <2>1. Exists(a) /\ Become(c, y)
        /\ UNCHANGED <<status, dated, rows, inserted, online, links, excused>>
    BY <1>4 DEF ReadForUpdate
  <2>2. y \in CallRecord /\ y.pc = "status"
    BY <1>0, <2>1 DEF CallRecord, Exists
  <2>3. Well(y)
    BY <2>2 DEF Well, Creates
  <2>4. excused' \subseteq Article
    BY <2>1 DEF WellInv, SiteWell
  <2>. HIDE DEF y
  <2>. QED
    BY <2>1, <2>3, <2>4, QuietWell
<1>5. ASSUME ReadSummary(c, a) PROVE WellInv'
  <2>. DEFINE mine == SlugsOf(a)
              y == [NoCall EXCEPT !.pc = "delete", !.op = "remove", !.of = a, !.known = mine]
  <2>1. Become(c, y) /\ UNCHANGED <<status, dated, rows, inserted, online, links, excused>>
    BY <1>5 DEF ReadSummary
  <2>2. y \in CallRecord /\ y.pc = "delete"
    <3>1. mine \subseteq Slug
      BY SlugSets
    <3>. HIDE DEF mine
    <3>. QED
      BY <1>0, <3>1 DEF CallRecord
  <2>3. Well(y)
    BY <2>2 DEF Well, Creates
  <2>4. excused' \subseteq Article
    BY <2>1 DEF WellInv, SiteWell
  <2>. HIDE DEF y
  <2>. QED
    BY <2>1, <2>3, <2>4, QuietWell
<1>. QED
  BY <1>1, <1>2, <1>3, <1>4, <1>5

(* The creations choose free slugs, though they have looked only at those  *)
(* that start with one of the bases.                                       *)
LEMMA ReadTakenWell ==
    ASSUME WellInv, NEW c \in Call, ReadTaken(c) PROVE WellInv'
<1>. DEFINE x == call[c]
            slugs == ChosenSlugs(x.bases, Taken(x.bases))
            y == [x EXCEPT !.pc = "write", !.known = AllSlugs, !.bases = <<>>, !.slugs = slugs]
<1>1. x.pc = "slugs" /\ Well(x) /\ x \in CallRecord /\ x.bases \in Seq(Slug)
  BY DEF ReadTaken, WellInv, CallsWell, Well, CallRecord
<1>2. DOMAIN x.bases = 1..Len(x.bases) /\ Len(x.bases) \in Nat
  BY <1>1, LenProperties
<1>3. IsFiniteSet(Taken(x.bases))
  <2>1. Taken(x.bases) \subseteq AllSlugs
    BY DEF Taken, StartingWith
  <2>. QED
    BY <2>1, SlugSets, FS_Subset
<1>4. FreshList(slugs, x.bases, Taken(x.bases), Len(x.bases))
  BY <1>1, <1>3, ChosenSlugsAreFree
<1>. HIDE DEF slugs
<1>5. slugs \in Seq(Slug) /\ Len(slugs) = Len(x.bases) /\ DOMAIN slugs = 1..Len(x.bases)
  <2>1. slugs \in Seq(Slug) /\ Len(slugs) = Len(x.bases)
    BY <1>4 DEF FreshList
  <2>. QED
    BY <2>1, LenProperties
<1>6. ASSUME NEW i \in 1..Len(x.bases) PROVE slugs[i] \notin AllSlugs
  <2>1. slugs[i] \notin StartingWith(AllSlugs, x.bases[i])
    BY <1>2, <1>4 DEF FreshList, Taken
  <2>2. Len(x.bases[i]) <= Len(slugs[i]) /\ SubSeq(slugs[i], 1, Len(x.bases[i])) = x.bases[i]
    <3>1. x.bases[i] \in Slug /\ x.bases[i] \in Seq(Nat)
      BY <1>1, ElementOfSeq DEF Slug
    <3>2. Len(x.bases[i]) \in Nat
      BY <3>1, LenProperties
    <3>3. CASE slugs[i] = x.bases[i]
      BY <3>1, <3>2, <3>3, SubSeqFull
    <3>4. ASSUME NEW m \in Nat, slugs[i] = Numbered(x.bases[i], m)
          PROVE  Len(x.bases[i]) <= Len(slugs[i])
                 /\ SubSeq(slugs[i], 1, Len(x.bases[i])) = x.bases[i]
      BY <3>1, <3>2, <3>4, NumberedSlug
    <3>5. slugs[i] = x.bases[i] \/ \E m \in Nat : slugs[i] = Numbered(x.bases[i], m)
      BY <1>4 DEF FreshList
    <3>. QED
      BY <3>3, <3>4, <3>5
  <2>. QED
    BY <2>1, <2>2 DEF StartingWith
<1>7. \A i, j \in 1..Len(x.bases) : i # j => slugs[i] # slugs[j]
  BY <1>4 DEF FreshList
<1>8. Well(y)
  <2>1. <<>> \in Seq(Slug) /\ AllSlugs \subseteq Slug
    BY SlugSets
  <2>2. /\ y \in CallRecord /\ y.pc = "write" /\ y.slugs = slugs /\ y.known = AllSlugs
        /\ y.langs = x.langs /\ y.op = x.op
    BY <1>1, <1>5, <2>1 DEF CallRecord
  <2>3. Len(x.bases) = Len(x.langs) /\ x.op # "update"
    BY <1>1 DEF Well
  <2>. HIDE DEF y, x
  <2>. QED
    BY <1>5, <1>6, <1>7, <2>2, <2>3 DEF Well, Creates
<1>9. Become(c, y) /\ UNCHANGED <<status, dated, rows, inserted, online, links, excused>>
  BY DEF ReadTaken, slugs
<1>10. excused' \subseteq Article
  BY <1>9 DEF WellInv, SiteWell
<1>. HIDE DEF y
<1>. QED
  BY <1>8, <1>9, <1>10, QuietWell

LEMMA AnnouncedWell ==
    ASSUME WellInv, NEW a \in Article, NEW old, NEW new, Announce(a, old, new),
           RowsWell(rows', inserted')
    PROVE  /\ dated' \subseteq Article /\ online' \subseteq Article
           /\ links' \in [Article -> SUBSET Slug]
<1>1. SlugsIn(rows', a) \in SUBSET Slug
  BY DEF SlugsIn, RowsWell, Numbering
<1>. DEFINE S == SlugsIn(rows', a)
<1>. HIDE DEF S
<1>2. CASE links' = [links EXCEPT ![a] = S]
  BY <1>1, <1>2 DEF WellInv, SiteWell, Announce, S
<1>3. CASE links' = [links EXCEPT ![a] = @ \ S]
  BY <1>3 DEF WellInv, SiteWell, Announce
<1>4. CASE UNCHANGED links
  BY <1>4 DEF WellInv, SiteWell, Announce
<1>. QED
  BY <1>2, <1>3, <1>4 DEF Announce, S

(* New rows are numbered on from the old ones. *)
LEMMA InsertedWell ==
    ASSUME Inv, WellInv, NEW c \in Call, Creates(call[c]), InsertRows(c)
    PROVE  RowsWell(rows', inserted')
<1>. DEFINE k == call[c]
            new(p) == p[1] = k.of /\ \E i \in DOMAIN k.langs : k.langs[i] = p[2]
            at(p) == CHOOSE i \in DOMAIN k.langs : k.langs[i] = p[2]
<1>1. /\ k \in CallRecord /\ k.langs \in Seq(Lang) /\ k.slugs \in Seq(Slug)
      /\ Len(k.slugs) = Len(k.langs) /\ k.flagged \in BOOLEAN
  BY DEF WellInv, CallsWell, Well, CallRecord
<1>2. /\ Len(k.langs) \in Nat /\ DOMAIN k.langs = 1..Len(k.langs)
      /\ \A i \in DOMAIN k.langs : k.slugs[i] \in Slug
  BY <1>1, LenProperties, ElementOfSeq
<1>3. /\ inserted \in Nat /\ MaxRows \in Nat /\ inserted' = inserted + Len(k.langs)
      /\ inserted' \in 0..MaxRows /\ inserted <= inserted'
  BY <1>2, CatalogueAssumption DEF InsertRows, WellInv, RowsWell
<1>. HIDE DEF k
<1>4. ASSUME NEW p \in Article \X Lang, new(p)
      PROVE  at(p) \in DOMAIN k.langs /\ k.langs[at(p)] = p[2]
  BY <1>4
<1>. HIDE DEF at
<1>5. ASSUME NEW p \in Article \X Lang
      PROVE  rows'[p] = IF new(p) THEN [id |-> inserted + at(p), slug |-> k.slugs[at(p)],
                                        flagged |-> k.flagged]
                        ELSE rows[p]
  BY DEF InsertRows, k, at
<1>6. rows' = [p \in Article \X Lang |-> rows'[p]]
  BY DEF InsertRows
<1>. HIDE DEF new
<1>7. ASSUME NEW p \in Article \X Lang, new(p)
      PROVE  /\ rows'[p] \in Row /\ rows'[p].slug \in Slug
             /\ rows'[p].id = inserted + at(p) /\ at(p) \in 1..Len(k.langs)
             /\ rows'[p].id \in 1..inserted' /\ rows'[p].id > inserted
  <2>1. at(p) \in 1..Len(k.langs) /\ k.slugs[at(p)] \in Slug /\ k.slugs[at(p)] \in Seq(Nat)
    BY <1>2, <1>4, <1>7 DEF Slug
  <2>2. inserted + at(p) \in 0..MaxRows
    BY <1>2, <1>3, <2>1
  <2>3. rows'[p] \in Row /\ rows'[p].id = inserted + at(p) /\ rows'[p].slug = k.slugs[at(p)]
    <3>. DEFINE row == [id |-> inserted + at(p), slug |-> k.slugs[at(p)], flagged |-> k.flagged]
    <3>1. rows'[p] = row
      BY <1>5, <1>7
    <3>2. row \in Row
      BY <1>1, <2>1, <2>2 DEF Row
    <3>. QED
      BY <3>1, <3>2
  <2>. QED
    BY <1>2, <1>3, <2>1, <2>3
<1>8. ASSUME NEW p \in Article \X Lang, ~new(p)
      PROVE  rows'[p] = rows[p] /\ rows'[p] \in Row
  BY <1>5, <1>8 DEF WellInv, RowsWell
<1>9. ASSUME NEW p \in Article \X Lang, NEW q \in Article \X Lang, rows'[p].id # 0
      PROVE  /\ rows'[p].id \in 1..inserted' /\ rows'[p].slug \in Slug
             /\ p # q => rows'[q].id # rows'[p].id
  <2>1. \A r \in Article \X Lang : rows[r].id # 0 =>
            rows[r].id \in 1..inserted /\ rows[r].id \in 1..inserted' /\ rows[r].slug \in Slug
    BY <1>3 DEF WellInv, RowsWell, Numbering
  <2>2. \A r \in Article \X Lang : rows[r].id \in Nat /\ ~(rows[r].id > inserted)
    <3>1. \A r \in Article \X Lang : rows[r].id \in 0..MaxRows
      BY DEF WellInv, RowsWell, Row
    <3>2. \A r \in Article \X Lang : rows[r].id = 0 \/ rows[r].id \in 1..inserted
      BY <2>1
    <3>. QED
      BY <1>3, <3>1, <3>2
  <2>3. CASE new(p) /\ new(q)
    <3>1. p[2] = k.langs[at(p)] /\ q[2] = k.langs[at(q)] /\ p[1] = q[1]
      BY <1>4, <2>3 DEF new
    <3>2. at(p) = at(q) => p = q
      BY <3>1
    <3>. QED
      BY <1>3, <1>7, <2>3, <3>2
  <2>4. CASE new(p) /\ ~new(q)
    BY <1>7, <1>8, <2>2, <2>4
  <2>5. CASE ~new(p) /\ new(q)
    BY <1>7, <1>8, <1>9, <2>1, <2>2, <2>5
  <2>6. CASE ~new(p) /\ ~new(q)
    BY <1>8, <1>9, <2>1, <2>6 DEF WellInv, RowsWell, Numbering
  <2>. QED
    BY <2>3, <2>4, <2>5, <2>6
<1>10. rows' \in [Article \X Lang -> Row]
  BY <1>6, <1>7, <1>8
<1>. QED
  BY <1>3, <1>9, <1>10 DEF RowsWell, Numbering

LEMMA InsertArticleWell ==
    ASSUME Inv, WellInv, NEW c \in Call, InsertArticle(c) PROVE WellInv'
<1>. DEFINE a == call[c].of
            autoHidden == call[c].flagged /\ call[c].to \notin {"HIDDEN", "BANNED"}
            final == IF autoHidden THEN "HIDDEN" ELSE call[c].to
<1>1. Creates(call[c]) /\ a \in Article /\ final \in Status
  BY Values DEF InsertArticle, Inv, CallsFit, Fits, Creates
<1>2. /\ status' = [status EXCEPT ![a] = final] /\ Become(c, NoCall) /\ InsertRows(c)
      /\ \/ \E old, new : Announce(a, old, new)
         \/ UNCHANGED <<dated, online, links>>
      /\ UNCHANGED excused
  BY DEF InsertArticle
<1>. HIDE DEF final
<1>3. RowsWell(rows', inserted')
  BY <1>1, <1>2, InsertedWell
<1>4. CallsWell'
  BY <1>2, WellStep, NoCallWell
<1>5. /\ dated' \subseteq Article /\ online' \subseteq Article
      /\ links' \in [Article -> SUBSET Slug]
  <2>1. ASSUME UNCHANGED <<dated, online, links>>
        PROVE  /\ dated' \subseteq Article /\ online' \subseteq Article
               /\ links' \in [Article -> SUBSET Slug]
    BY <2>1 DEF WellInv, SiteWell
  <2>. QED
    BY <1>1, <1>2, <1>3, <2>1, AnnouncedWell
<1>6. SiteWell'
  BY <1>1, <1>2, <1>5 DEF WellInv, SiteWell
<1>. QED
  BY <1>3, <1>4, <1>6 DEF WellInv

LEMMA ScanWell ==
    ASSUME WellInv, NEW c \in Call, Scan(c) PROVE CallsWell'
<1>. DEFINE y == [NoCall EXCEPT !.pc = "scan", !.op = call[c].op, !.of = call[c].of]
<1>1. y \in CallRecord /\ y.pc = "scan"
  BY NoCallWell DEF WellInv, CallsWell, Well, CallRecord
<1>2. Well(y)
  <2>. HIDE DEF y
  <2>. QED
    BY <1>1 DEF Well, Creates
<1>3. Become(c, NoCall) \/ Become(c, y)
  BY DEF Scan
<1>. HIDE DEF y
<1>. QED
  BY <1>2, <1>3, NoCallWell, WellStep

LEMMA InsertTranslationWell ==
    ASSUME Inv, WellInv, NEW c \in Call, InsertTranslation(c) PROVE WellInv'
<1>1. Creates(call[c]) /\ InsertRows(c) /\ Scan(c)
  BY DEF InsertTranslation, Creates
<1>2. SiteWell'
  BY DEF InsertTranslation, WellInv, SiteWell
<1>. QED
  BY <1>1, <1>2, InsertedWell, ScanWell DEF WellInv

(* An edit keeps the row's number and gives it a slug. *)
LEMMA WriteWell ==
    ASSUME Inv, WellInv, NEW c \in Call, Write(c) PROVE WellInv'
<1>. DEFINE k == call[c]  q == <<k.of, k.langs[1]>>
<1>1. CallsWell' /\ UNCHANGED inserted
  BY ScanWell DEF Write
<1>2. SiteWell'
  BY DEF Write, WellInv, SiteWell
<1>3. k.retext \in BOOLEAN /\ k.flagged \in BOOLEAN /\ (k.slugs # <<>> => k.slugs[1] \in Slug)
  <2>1. k.slugs \in Seq(Slug) /\ k.retext \in BOOLEAN /\ k.flagged \in BOOLEAN
    BY DEF WellInv, CallsWell, Well, CallRecord
  <2>2. k.slugs # <<>> => Len(k.slugs) \in Nat \ {0}
    BY <2>1, EmptySeq
  <2>3. k.slugs # <<>> => 1 \in 1..Len(k.slugs)
    BY <2>2
  <2>. QED
    BY <2>1, <2>3, ElementOfSeq
<1>4. ASSUME NEW p \in Article \X Lang
      PROVE  /\ rows'[p] \in Row /\ rows'[p].id = rows[p].id
             /\ rows[p].id # 0 => rows'[p].slug \in Slug
  <2>1. rows[p] \in Row /\ (rows[p].id # 0 => rows[p].slug \in Slug)
    BY DEF WellInv, RowsWell, Numbering
  <2>2. CASE p = q
    <3>1. /\ IsRow(rows'[p]) /\ rows'[p].id = rows[p].id
          /\ rows'[p].slug = IF k.slugs = <<>> THEN rows[p].slug ELSE k.slugs[1]
          /\ rows'[p].flagged = IF k.retext THEN k.flagged ELSE rows[p].flagged
      BY <2>2, WrittenRows
    <3>2. rows'[p].slug \in Seq(Nat) /\ (rows[p].id # 0 => rows'[p].slug \in Slug)
      BY <1>3, <2>1, <3>1 DEF Slug, Row
    <3>3. rows'[p].flagged \in BOOLEAN
      BY <1>3, <2>1, <3>1 DEF Row
    <3>. QED
      BY <2>1, <3>1, <3>2, <3>3 DEF IsRow, Row
  <2>3. CASE p # q
    BY <2>1, <2>3, WrittenRows
  <2>. QED
    BY <2>2, <2>3
<1>5. RowsWell(rows', inserted')
  <2>1. rows' = [p \in Article \X Lang |-> rows'[p]]
    BY WrittenRows
  <2>. QED
    BY <1>1, <1>4, <2>1 DEF WellInv, RowsWell, Numbering
<1>. QED
  BY <1>1, <1>2, <1>5 DEF WellInv

LEMMA ReadForHideWell ==
    ASSUME Inv, WellInv, NEW c \in Call, ReadForHide(c) PROVE WellInv'
<1>. DEFINE y == [call[c] EXCEPT !.pc = "hide", !.seen = status[call[c].of]]
<1>1. /\ Become(c, NoCall) \/ (Become(c, y) /\ Exists(call[c].of))
      /\ UNCHANGED <<status, dated, rows, inserted, online, links, excused>>
  <2>1. /\ Become(c, IF ~Exists(call[c].of) \/ status[call[c].of] \in {"HIDDEN", "BANNED"}
                     THEN NoCall ELSE y)
        /\ UNCHANGED <<status, dated, rows, inserted, online, links, excused>>
    BY Zenon DEF ReadForHide
  <2>. HIDE DEF y
  <2>. QED
    BY <2>1
<1>2. ASSUME Exists(call[c].of) PROVE Well(y)
  <2>1. y \in CallRecord /\ y.pc = "hide"
    <3>1. call[c] \in CallRecord /\ status[call[c].of] \in Status
      BY <1>2, Zenon DEF WellInv, CallsWell, Well, Exists
    <3>2. \A x \in CallRecord, s \in Status :
             LET z == [x EXCEPT !.pc = "hide", !.seen = s] IN z \in CallRecord /\ z.pc = "hide"
      BY DEF CallRecord
    <3>. QED
      BY <3>1, <3>2, Zenon
  <2>. HIDE DEF y
  <2>. QED
    BY <2>1 DEF Well, Creates
<1>3. excused' \subseteq Article
  BY <1>1 DEF WellInv, SiteWell
<1>. HIDE DEF y
<1>. QED
  BY <1>1, <1>2, <1>3, NoCallWell, QuietWell

LEMMA CommitsWell ==
    ASSUME Inv, WellInv, NEW c \in Call, CommitHide(c) \/ CommitUpdate(c) PROVE WellInv'
<1>. DEFINE a == call[c].of
<1>1. a \in Article /\ (call[c].pc = "status" => call[c].to \in Status) /\ "HIDDEN" \in Status
  BY Values DEF CommitHide, CommitUpdate, Inv, CallsFit, Fits
<1>2. /\ Become(c, NoCall) /\ UNCHANGED <<rows, inserted>>
      /\ \E s \in Status : status' = [status EXCEPT ![a] = s]
      /\ \/ \E old, new : Announce(a, old, new)
         \/ UNCHANGED <<dated, online, links>>
      /\ excused' \subseteq excused \cup {a}
  BY <1>1 DEF CommitHide, CommitUpdate
<1>3. CallsWell' /\ RowsWell(rows', inserted')
  BY <1>2, WellStep, NoCallWell DEF WellInv
<1>4. /\ dated' \subseteq Article /\ online' \subseteq Article
      /\ links' \in [Article -> SUBSET Slug]
  <2>1. ASSUME UNCHANGED <<dated, online, links>>
        PROVE  /\ dated' \subseteq Article /\ online' \subseteq Article
               /\ links' \in [Article -> SUBSET Slug]
    BY <2>1 DEF WellInv, SiteWell
  <2>. QED
    BY <1>1, <1>2, <1>3, <2>1, AnnouncedWell
<1>5. SiteWell'
  <2>1. PICK s \in Status : status' = [status EXCEPT ![a] = s]
    BY <1>2
  <2>2. status' \in [Article -> Status \cup {Absent, Deleted}]
    BY <1>1, <2>1 DEF WellInv, SiteWell
  <2>3. excused' \subseteq Article
    BY <1>1, <1>2 DEF WellInv, SiteWell
  <2>. QED
    BY <1>4, <2>2, <2>3 DEF SiteWell
<1>. QED
  BY <1>3, <1>5 DEF WellInv

LEMMA NoRowWell == NoRow \in Row /\ NoRow.id = 0
<1>1. <<>> \in Seq(Nat)
  BY EmptySeq
<1>. QED
  BY <1>1, CatalogueAssumption DEF NoRow, Row

(* Rows that go leave the others as they are. *)
LEMMA FewerRowsWell ==
    ASSUME WellInv, rows' = [p \in Article \X Lang |-> rows'[p]],
           \A p \in Article \X Lang : rows'[p] \in {rows[p], NoRow}, UNCHANGED inserted
    PROVE  RowsWell(rows', inserted')
<1>1. \A p \in Article \X Lang : rows'[p] \in Row /\ (rows'[p].id # 0 => rows'[p] = rows[p])
  BY NoRowWell DEF WellInv, RowsWell
<1>2. Numbering(rows', inserted')
  BY <1>1 DEF WellInv, RowsWell, Numbering
<1>. QED
  BY <1>1, <1>2 DEF WellInv, RowsWell

LEMMA RemovalsWell ==
    ASSUME Inv, WellInv
    PROVE  /\ \A c \in Call : CommitDelete(c) => WellInv'
           /\ \A a \in Article, l \in Lang : RemoveTranslation(a, l) => WellInv'
<1>1. ASSUME NEW c \in Call, CommitDelete(c) PROVE WellInv'
  <2>. DEFINE a == call[c].of
  <2>1. CallsWell'
    BY <1>1, NoCallWell, WellStep DEF CommitDelete
  <2>2. RowsWell(rows', inserted')
    <3>1. /\ rows' = [p \in Article \X Lang |-> rows'[p]] /\ UNCHANGED inserted
          /\ \A p \in Article \X Lang : rows'[p] \in {rows[p], NoRow}
      BY <1>1 DEF CommitDelete
    <3>. QED
      BY <3>1, FewerRowsWell
  <2>3. SiteWell'
    BY <1>1 DEF CommitDelete, WellInv, SiteWell
  <2>. QED
    BY <2>1, <2>2, <2>3 DEF WellInv
<1>2. ASSUME NEW a \in Article, NEW l \in Lang, RemoveTranslation(a, l) PROVE WellInv'
  <2>1. CallsWell' /\ SiteWell'
    BY <1>2 DEF RemoveTranslation, WellInv, CallsWell, SiteWell
  <2>2. /\ rows' = [p \in Article \X Lang |-> rows'[p]] /\ UNCHANGED inserted
        /\ \A p \in Article \X Lang : rows'[p] \in {rows[p], NoRow}
    BY <1>2 DEF RemoveTranslation, WellInv, RowsWell
  <2>. QED
    BY <2>1, <2>2, FewerRowsWell DEF WellInv
<1>. QED
  BY <1>1, <1>2

LEMMA EndsWell ==
    ASSUME Inv, WellInv, NEW c \in Call, Conflict(c) \/ WriteFails(c) \/ CallFails(c) \/ Crash(c)
    PROVE  WellInv'
<1>1. Become(c, NoCall) /\ UNCHANGED <<status, dated, rows, inserted, online, links>>
  BY DEF Conflict, WriteFails, CallFails, Crash
<1>2. excused' \subseteq Article
  <2>1. call[c].pc \in {"scan", "hide"} => call[c].of \in Article
    BY DEF Inv, CallsFit, Fits
  <2>. QED
    BY <2>1 DEF Conflict, WriteFails, CallFails, Crash, WellInv, SiteWell
<1>. QED
  BY <1>1, <1>2, NoCallWell, QuietWell

LEMMA NextWell == ASSUME Inv, WellInv, [Next]_vars PROVE WellInv'
<1>1. ASSUME NEW c \in Call, NEW a \in Article,
             \/ \E to \in Asked \cup {"DRAFT"}, langs \in Languages, flagged \in BOOLEAN :
                   \E bases \in [1..Len(langs) -> Title] :
                       StartCreateArticle(c, a, to, langs, bases, flagged)
             \/ \E l \in Lang, t \in Title, flagged \in BOOLEAN : StartCreate(c, a, l, t, flagged)
             \/ \E l \in Lang, retext, flagged \in BOOLEAN, s \in {<<r>> : r \in Rename} \cup {<<>>} :
                   StartUpdate(c, a, l, retext, flagged, s)
             \/ \E to \in Asked : ReadForUpdate(c, a, to)
             \/ ReadSummary(c, a)
      PROVE  WellInv'
  BY <1>1, StartsWell, Zenon
<1>2. ASSUME NEW c \in Call,
             \/ ReadTaken(c) \/ InsertArticle(c) \/ InsertTranslation(c) \/ Conflict(c)
             \/ Write(c) \/ WriteFails(c) \/ ReadForHide(c) \/ CommitHide(c)
             \/ CommitUpdate(c) \/ CommitDelete(c) \/ CallFails(c) \/ Crash(c)
      PROVE  WellInv'
  BY <1>2, ReadTakenWell, InsertArticleWell, InsertTranslationWell, WriteWell, ReadForHideWell,
     CommitsWell, RemovalsWell, EndsWell
<1>3. ASSUME NEW a \in Article, NEW l \in Lang, RemoveTranslation(a, l) PROVE WellInv'
  BY <1>3, RemovalsWell
<1>4. ASSUME UNCHANGED vars PROVE WellInv'
  BY <1>4 DEF vars, WellInv, CallsWell, RowsWell, Numbering, SiteWell
<1>. QED
  BY <1>1, <1>2, <1>3, <1>4, Zenon DEF Next

LEMMA WellInvariance == Spec => []WellInv
<1>1. Inv /\ WellInv /\ [Next]_vars => WellInv'
  BY NextWell
<1>. QED
  BY <1>1, InitWell, Invariance, PTL DEF Spec

(* Catalogue's variables have their types: there are never more rows than  *)
(* have been inserted, and what a request has chosen are slugs             *)
(* (article-translations.service.ts:106, articles.service.ts:246).         *)
THEOREM TypeCorrect == Spec => []TypeOK
<1>1. WellInv => TypeOK
  BY WellIsTyped
<1>. QED
  BY <1>1, WellInvariance, PTL

(* A creation is refused for its slug only if another request took it      *)
(* after this one had looked: what articles.create and                     *)
(* article-translations.create choose was free, in all the languages       *)
(* (slugify.ts:23).                                                        *)
THEOREM ConflictsMeanOverlap == Spec => []ConflictMeansOverlap
<1>1. WellInv => ConflictMeansOverlap
  BY WellIsTyped
<1>. QED
  BY <1>1, WellInvariance, PTL
===============================================================================
