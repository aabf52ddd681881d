------------------------ MODULE CommentModerationProofs ------------------------
(***************************************************************************)
(* Proofs about CommentModeration.  For any comments, reports, users and   *)
(* moderators: types, one open report per reporter and comment, and what   *)
(* can undo a ban.  For one moderator at a time and no explicit status:    *)
(* hidden comments wait for a review, visible ones are below the           *)
(* threshold, a ban is final.                                              *)
(***************************************************************************)
EXTENDS CommentModeration, FiniteSetTheorems, TLAPS

DraftRecord == [pc : {"start", "checked", "decided", "emit", "done"},
                status : Status, auto : BOOLEAN, system : BOOLEAN]
EditRecord == [pc : {"idle", "read", "emit"}, of : Comment \cup {Absent},
               seen : Status \cup {Absent}, to : Status \cup {Absent}, hide : BOOLEAN]
ReviewRecord == [pc : {"idle", "updated", "read", "counted"}, of : Report \cup {Absent},
                 to : ReportStatus \cup {Absent}, seen : Status \cup {Absent, Deleted},
                 open : BOOLEAN]
LeaveRecord == [pc : {"start", "counted", "done"}, open : [Comment -> Nat]]

Unwritten(c) == draft[c].pc \in {"start", "checked", "decided"}

DraftsFit == \A c \in Comment : Unwritten(c) => comment[c] = Absent

ReportsFit == \A r \in Report : report[r] # Absent => comment[Target[r]] # Absent

EditsFit == \A e \in Editor : edit[e].pc # "idle" =>
    /\ edit[e].of \in Comment
    /\ edit[e].pc = "read" => /\ edit[e].seen \in Status /\ edit[e].to \in Status
                              /\ IsValidModerationTransition(edit[e].seen, edit[e].to)

(* A review has its report to itself, and, when it opens it, the key in    *)
(* the partial unique index.                                               *)
ReviewsFit == \A m \in Moderator :
    /\ review[m].pc = "idle" => review[m].to = Absent /\ review[m].of = Absent
    /\ review[m].pc # "idle" =>
           /\ review[m].of \in Report /\ review[m].to \in ReportStatus
           /\ report[review[m].of] \in ReportStatus
           /\ \A n \in Moderator \ {m} : review[n].pc # "idle" => review[n].of # review[m].of
           /\ review[m].to \in Open => IndexAdmits(review[m].of)

FinitelyMany == IsFiniteSet({r \in Report : report[r] # Absent})

Inv ==
    /\ TypeOK /\ DraftsFit /\ ReportsFit /\ EditsFit /\ ReviewsFit /\ FinitelyMany
    /\ OneOpenPerReporter

-----------------------------------------------------------------------------
LEMMA Values ==
    /\ Absent \notin Status /\ Deleted \notin Status /\ Absent # Deleted
    /\ Absent \notin ReportStatus /\ Deleted \notin ReportStatus
    /\ Absent \notin Open /\ Deleted \notin Open /\ Open \subseteq ReportStatus
    /\ {"VISIBLE", "UNDER_REVIEW", "HIDDEN", "BANNED"} = Status
    /\ {"PENDING", "REVIEWED", "RESOLVED", "DISMISSED"} = ReportStatus
    /\ "PENDING" \in Open
    /\ FiledAs \subseteq ReportStatus
    /\ \A r \in Report : Target[r] \in Comment
BY ModerationAssumption DEF Status, ReportStatus, Absent, Deleted, Open

LEMMA Types ==
    TypeOK <=>
        /\ comment \in [Comment -> Status \cup {Absent, Deleted}]
        /\ reportCount \in [Comment -> Nat]
        /\ report \in [Report -> ReportStatus \cup {Absent, Deleted}]
        /\ author \in [Comment -> AuthorStatus]
        /\ draft \in [Comment -> DraftRecord]
        /\ edit \in [Editor -> EditRecord]
        /\ review \in [Moderator -> ReviewRecord]
        /\ leave \in [Leaver -> LeaveRecord]
        /\ told \in [Comment -> Status]
        /\ crashes \in 0..MaxCrashes
BY DEF TypeOK, DraftRecord, EditRecord, ReviewRecord, LeaveRecord

LEMMA Empty ==
    /\ NoDraft \in DraftRecord /\ NoEdit \in EditRecord /\ NoReview \in ReviewRecord
    /\ NoLeave \in LeaveRecord
    /\ NoEdit.pc = "idle" /\ NoReview.pc = "idle" /\ NoReview.to = Absent /\ NoReview.of = Absent
BY Values DEF NoDraft, NoEdit, NoReview, NoLeave, DraftRecord, EditRecord, ReviewRecord, LeaveRecord

-----------------------------------------------------------------------------
(* What keeps each part of the invariant. *)

(* Comments come to exist by their own draft, and never become absent. *)
LEMMA CommentsKeep ==
    ASSUME Inv,
           \A c \in Comment : comment[c] # Absent => comment'[c] # Absent,
           \A c \in Comment : Unwritten(c)' => Unwritten(c) /\ comment'[c] = comment[c],
           \A r \in Report : report'[r] # Absent =>
               report[r] # Absent \/ comment'[Target[r]] # Absent
    PROVE  DraftsFit' /\ ReportsFit'
BY Values DEF Inv, DraftsFit, ReportsFit

LEMMA ReportsUnchanged ==
    ASSUME Inv, UNCHANGED <<report, review>>
    PROVE  ReviewsFit' /\ FinitelyMany' /\ OneOpenPerReporter'
BY DEF Inv, ReviewsFit, IndexAdmits, Reopening, FinitelyMany, OneOpenPerReporter

(* A new report, that the index admits if it is open. *)
LEMMA NewReport ==
    ASSUME Inv, NEW r \in Report, NEW as \in ReportStatus, report[r] = Absent,
           report' = [report EXCEPT ![r] = as], as \in Open => IndexAdmits(r), UNCHANGED review
    PROVE  /\ report' \in [Report -> ReportStatus \cup {Absent, Deleted}]
           /\ report'[r] = as /\ \A s \in Report \ {r} : report'[s] = report[s]
           /\ ReviewsFit' /\ FinitelyMany' /\ OneOpenPerReporter'
<1>1. /\ report' \in [Report -> ReportStatus \cup {Absent, Deleted}]
      /\ report'[r] = as /\ \A s \in Report \ {r} : report'[s] = report[s]
  BY Types DEF Inv
<1>2. ReviewsFit'
  <2>. SUFFICES ASSUME NEW m \in Moderator
                PROVE  /\ review[m].pc = "idle" => review[m].to = Absent /\ review[m].of = Absent
                       /\ review[m].pc # "idle" =>
                             /\ review[m].of \in Report /\ review[m].to \in ReportStatus
                             /\ report'[review[m].of] \in ReportStatus
                             /\ \A n \in Moderator \ {m} :
                                    review[n].pc # "idle" => review[n].of # review[m].of
                             /\ review[m].to \in Open => IndexAdmits(review[m].of)'
    BY DEF ReviewsFit
  <2>1. ASSUME review[m].pc # "idle", review[m].to \in Open PROVE IndexAdmits(review[m].of)'
    <3>. DEFINE q == review[m].of
    <3>1. q \in Report /\ IndexAdmits(q) /\ q # r
      BY <2>1, Values DEF Inv, ReviewsFit
    <3>2. ASSUME NEW s \in Report \ {q}, SameKey(q, s) PROVE report'[s] \notin Open /\ ~Reopening(s)'
      <4>1. report[s] \notin Open /\ ~Reopening(s) /\ ~Reopening(s)'
        BY <3>1, <3>2 DEF IndexAdmits, Reopening
      <4>2. s = r => as \notin Open
        <5>1. s = r /\ as \in Open => SameKey(r, q) /\ ~Reopening(q)
          BY <3>1, <3>2 DEF IndexAdmits, SameKey
        <5>2. Reopening(q)
          BY <2>1 DEF Reopening
        <5>. QED
          BY <5>1, <5>2
      <4>. QED
        BY <1>1, <4>1, <4>2
    <3>. QED
      BY <3>2 DEF IndexAdmits
  <2>. QED
    BY <1>1, <2>1, Values DEF Inv, ReviewsFit
<1>3. FinitelyMany'
  <2>. DEFINE old == {s \in Report : report[s] # Absent}
              new == {s \in Report : report'[s] # Absent}
  <2>1. new \subseteq old \cup {r} /\ IsFiniteSet(old)
    BY <1>1 DEF Inv, FinitelyMany
  <2>. HIDE DEF old, new
  <2>2. IsFiniteSet(new)
    BY <2>1, FS_AddElement, FS_Subset
  <2>. QED
    BY <2>2 DEF new, FinitelyMany
<1>4. OneOpenPerReporter'
  BY <1>1 DEF Inv, OneOpenPerReporter, IndexAdmits, SameKey
<1>. QED
  BY <1>1, <1>2, <1>3, <1>4

-----------------------------------------------------------------------------
(* comments.create *)

LEMMA CreationPolicyIs ==
    ASSUME NEW s \in AuthorStatus, NEW b \in BOOLEAN
    PROVE  /\ CreationPolicy(s, b).status \in {"VISIBLE", "HIDDEN"}
           /\ CreationPolicy(s, b).auto \in BOOLEAN /\ CreationPolicy(s, b).system \in BOOLEAN
           /\ s = "ACTIVE" /\ CreationPolicy(s, b).status = "HIDDEN" => CreationPolicy(s, b).system
BY DEF CreationPolicy

LEMMA DraftStepKeeps ==
    ASSUME Inv, NEW c \in Comment, CheckUser(c) \/ ApplyPolicy(c) \/ EmitCreated(c)
    PROVE  Inv'
<1>0. /\ UNCHANGED <<comment, reportCount, report, author, edit, review, leave, crashes>>
      /\ draft \in [Comment -> DraftRecord] /\ told \in [Comment -> Status]
      /\ author \in [Comment -> AuthorStatus]
  BY Types DEF CheckUser, ApplyPolicy, EmitCreated, Inv
<1>1. /\ draft' \in [Comment -> DraftRecord] /\ told' \in [Comment -> Status]
      /\ \A d \in Comment : Unwritten(d)' => Unwritten(d)
  <2>1. CASE CheckUser(c)
    <3>1. /\ draft[c].pc = "start" /\ UNCHANGED told
          /\ draft' = [draft EXCEPT ![c] = [draft[c] EXCEPT !.pc = "checked"]]
      BY <1>0, <2>1 DEF CheckUser
    <3>2. [draft[c] EXCEPT !.pc = "checked"] \in DraftRecord
      BY <1>0 DEF DraftRecord
    <3>. QED
      BY <1>0, <3>1, <3>2 DEF Unwritten
  <2>2. CASE ApplyPolicy(c)
    <3>1. PICK b \in BOOLEAN :
              draft' = [draft EXCEPT ![c] =
                  [pc |-> "decided", status |-> CreationPolicy(author[c], b).status,
                   auto |-> CreationPolicy(author[c], b).auto,
                   system |-> CreationPolicy(author[c], b).system]]
      BY <2>2 DEF ApplyPolicy
    <3>2. draft[c].pc = "checked" /\ UNCHANGED told
      BY <2>2 DEF ApplyPolicy
    <3>3. /\ CreationPolicy(author[c], b).status \in Status
          /\ CreationPolicy(author[c], b).auto \in BOOLEAN
          /\ CreationPolicy(author[c], b).system \in BOOLEAN
      BY <1>0, CreationPolicyIs, Values
    <3>. QED
      BY <1>0, <3>1, <3>2, <3>3 DEF Unwritten, DraftRecord
  <2>3. CASE EmitCreated(c)
    <3>1. /\ draft[c].pc = "emit" /\ told' = [told EXCEPT ![c] = draft[c].status]
          /\ draft' = [draft EXCEPT ![c] = [draft[c] EXCEPT !.pc = "done"]]
      BY <1>0, <2>3 DEF EmitCreated
    <3>2. [draft[c] EXCEPT !.pc = "done"] \in DraftRecord /\ draft[c].status \in Status
          /\ [draft[c] EXCEPT !.pc = "done"].pc = "done"
      BY <1>0 DEF DraftRecord
    <3>. QED
      BY <1>0, <3>1, <3>2 DEF Unwritten
  <2>. QED
    BY <2>1, <2>2, <2>3
<1>2. TypeOK'
  BY <1>0, <1>1, Types DEF Inv, TypeOK, DraftRecord
<1>3. DraftsFit' /\ ReportsFit'
  BY <1>0, <1>1, CommentsKeep
<1>4. EditsFit'
  BY <1>0 DEF Inv, EditsFit
<1>. QED
  BY <1>0, <1>2, <1>3, <1>4, ReportsUnchanged DEF Inv

(* A system report, or none. *)
LEMMA SystemReportKeeps ==
    ASSUME Inv, NEW c \in Comment, UNCHANGED review,
           UNCHANGED report \/ \E r \in Report : SystemReport(c, r)
    PROVE  /\ report' \in [Report -> ReportStatus \cup {Absent, Deleted}]
           /\ \A r \in Report : report'[r] # Absent => report[r] # Absent \/ Target[r] = c
           /\ ReviewsFit' /\ FinitelyMany' /\ OneOpenPerReporter'
<1>1. CASE UNCHANGED report
  BY <1>1, ReportsUnchanged, Types DEF Inv
<1>2. ASSUME NEW r \in Report, SystemReport(c, r)
      PROVE  /\ report' \in [Report -> ReportStatus \cup {Absent, Deleted}]
             /\ \A s \in Report : report'[s] # Absent => report[s] # Absent \/ Target[s] = c
             /\ ReviewsFit' /\ FinitelyMany' /\ OneOpenPerReporter'
  <2>1. /\ Target[r] = c /\ report[r] = Absent /\ IndexAdmits(r)
        /\ report' = [report EXCEPT ![r] = "PENDING"]
    BY <1>2 DEF SystemReport
  <2>2. /\ report' \in [Report -> ReportStatus \cup {Absent, Deleted}]
        /\ \A s \in Report \ {r} : report'[s] = report[s]
        /\ ReviewsFit' /\ FinitelyMany' /\ OneOpenPerReporter'
    BY <2>1, Values, NewReport
  <2>. QED
    BY <2>1, <2>2
<1>. QED
  BY <1>1, <1>2

LEMMA CommitCommentKeeps ==
    ASSUME Inv, NEW c \in Comment, CommitComment(c) PROVE Inv'
<1>. DEFINE pc == IF draft[c].auto THEN "emit" ELSE "done"
            y == [draft[c] EXCEPT !.pc = pc]
<1>1. /\ draft[c].pc = "decided" /\ comment' = [comment EXCEPT ![c] = draft[c].status]
      /\ UNCHANGED report \/ \E r \in Report : SystemReport(c, r)
      /\ draft' = [draft EXCEPT ![c].pc = pc]
      /\ UNCHANGED <<reportCount, author, edit, review, told, leave, crashes>>
  BY DEF CommitComment
<1>2. /\ draft \in [Comment -> DraftRecord] /\ draft[c].status \in Status
      /\ comment \in [Comment -> Status \cup {Absent, Deleted}]
      /\ pc \in {"emit", "done"}
  BY Types DEF Inv, DraftRecord
<1>. HIDE DEF pc
<1>3. y \in DraftRecord /\ y.pc = pc /\ draft' = [draft EXCEPT ![c] = y]
  BY <1>1, <1>2 DEF DraftRecord
<1>. HIDE DEF y
<1>4. /\ comment' \in [Comment -> Status \cup {Absent, Deleted}]
      /\ draft' \in [Comment -> DraftRecord]
      /\ comment'[c] \in Status
      /\ \A d \in Comment \ {c} : comment'[d] = comment[d] /\ draft'[d] = draft[d]
      /\ ~Unwritten(c)'
  BY <1>1, <1>2, <1>3 DEF Unwritten
<1>5. /\ report' \in [Report -> ReportStatus \cup {Absent, Deleted}]
      /\ \A r \in Report : report'[r] # Absent => report[r] # Absent \/ Target[r] = c
      /\ ReviewsFit' /\ FinitelyMany' /\ OneOpenPerReporter'
  BY <1>1, SystemReportKeeps
<1>6. TypeOK'
  BY <1>1, <1>4, <1>5, Types DEF Inv, TypeOK, DraftRecord
<1>7. DraftsFit' /\ ReportsFit'
  BY <1>4, <1>5, Values, CommentsKeep DEF Unwritten
<1>8. EditsFit'
  BY <1>1 DEF Inv, EditsFit
<1>. QED
  BY <1>5, <1>6, <1>7, <1>8 DEF Inv

-----------------------------------------------------------------------------
(* comments.update and comments.remove *)

LEMMA EditStepKeeps ==
    ASSUME Inv, NEW e \in Editor,
           UpdateFails(e) \/ EmitUpdated(e) \/ \E c \in Comment : ReadForUpdate(e, c)
    PROVE  Inv'
<1>0. /\ UNCHANGED <<comment, reportCount, report, author, draft, review, leave, crashes>>
      /\ edit \in [Editor -> EditRecord] /\ told \in [Comment -> Status]
  BY Types DEF UpdateFails, EmitUpdated, ReadForUpdate, Inv
<1>1. edit' \in [Editor -> EditRecord] /\ EditsFit'
  <2>1. CASE UpdateFails(e) \/ EmitUpdated(e)
    <3>1. edit' = [edit EXCEPT ![e] = NoEdit]
      BY <2>1 DEF UpdateFails, EmitUpdated
    <3>. QED
      BY <1>0, <3>1, Empty DEF Inv, EditsFit
  <2>2. ASSUME NEW c \in Comment, ReadForUpdate(e, c) PROVE edit' \in [Editor -> EditRecord] /\ EditsFit'
    <3>1. PICK to \in Status, hide \in BOOLEAN :
              /\ IsValidModerationTransition(comment[c], to)
              /\ edit' = [edit EXCEPT ![e] = [pc |-> "read", of |-> c, seen |-> comment[c],
                                              to |-> to, hide |-> hide]]
      BY <2>2, Values DEF ReadForUpdate
    <3>2. comment[c] \in Status
      BY <2>2 DEF ReadForUpdate, Exists
    <3>3. [pc |-> "read", of |-> c, seen |-> comment[c], to |-> to, hide |-> hide] \in EditRecord
      BY <3>2 DEF EditRecord
    <3>. QED
      BY <1>0, <3>1, <3>2, <3>3 DEF Inv, EditsFit
  <2>. QED
    BY <2>1, <2>2
<1>2. told' \in [Comment -> Status]
  BY <1>0, Values DEF UpdateFails, EmitUpdated, ReadForUpdate
<1>3. TypeOK'
  BY <1>0, <1>1, <1>2, Types DEF Inv, TypeOK, EditRecord
<1>4. DraftsFit' /\ ReportsFit'
  BY <1>0, CommentsKeep DEF Unwritten
<1>. QED
  BY <1>0, <1>1, <1>3, <1>4, ReportsUnchanged DEF Inv

LEMMA CommitUpdateKeeps ==
    ASSUME Inv, NEW e \in Editor, CommitUpdate(e) PROVE Inv'
<1>. DEFINE c == edit[e].of
            to == edit[e].to
<1>1. /\ edit[e].pc = "read" /\ Exists(c) /\ comment' = [comment EXCEPT ![c] = to]
      /\ UNCHANGED report \/ \E r \in Report : SystemReport(c, r)
      /\ UNCHANGED <<reportCount, author, draft, review, told, leave, crashes>>
      /\ \/ edit' = [edit EXCEPT ![e] = [NoEdit EXCEPT !.pc = "emit", !.of = c]]
         \/ edit' = [edit EXCEPT ![e] = NoEdit]
  BY DEF CommitUpdate
<1>2. /\ c \in Comment /\ to \in Status /\ edit \in [Editor -> EditRecord]
      /\ comment \in [Comment -> Status \cup {Absent, Deleted}]
  BY <1>1, Types DEF Inv, EditsFit
<1>. HIDE DEF c, to
<1>3. /\ comment' \in [Comment -> Status \cup {Absent, Deleted}]
      /\ comment'[c] \in Status /\ comment[c] \in Status
      /\ \A d \in Comment \ {c} : comment'[d] = comment[d]
  BY <1>1, <1>2 DEF Exists
<1>4. edit' \in [Editor -> EditRecord] /\ EditsFit'
  <2>1. /\ [NoEdit EXCEPT !.pc = "emit", !.of = c] \in EditRecord
        /\ [NoEdit EXCEPT !.pc = "emit", !.of = c].pc = "emit"
        /\ [NoEdit EXCEPT !.pc = "emit", !.of = c].of = c
    BY <1>2 DEF NoEdit, EditRecord
  <2>. QED
    BY <1>1, <1>2, <2>1, Empty DEF Inv, EditsFit
<1>5. /\ report' \in [Report -> ReportStatus \cup {Absent, Deleted}]
      /\ \A r \in Report : report'[r] # Absent => report[r] # Absent \/ Target[r] = c
      /\ ReviewsFit' /\ FinitelyMany' /\ OneOpenPerReporter'
  BY <1>1, <1>2, SystemReportKeeps
<1>6. TypeOK'
  BY <1>1, <1>3, <1>4, <1>5, Types DEF Inv, TypeOK, EditRecord
<1>7. DraftsFit' /\ ReportsFit'
  <2>1. ~Unwritten(c)
    BY <1>2, <1>3, Values DEF Inv, DraftsFit
  <2>. QED
    BY <1>1, <1>2, <1>3, <1>5, <2>1, Values, CommentsKeep DEF Unwritten
<1>. QED
  BY <1>4, <1>5, <1>6, <1>7 DEF Inv

LEMMA RemoveKeeps ==
    ASSUME Inv, NEW c \in Comment, Remove(c) PROVE Inv'
<1>1. /\ comment[c] \in Status /\ comment' = [comment EXCEPT ![c] = Deleted]
      /\ UNCHANGED <<reportCount, report, author, draft, edit, review, told, leave, crashes>>
      /\ comment \in [Comment -> Status \cup {Absent, Deleted}]
  BY Types DEF Remove, Exists, Inv
<1>2. /\ comment' \in [Comment -> Status \cup {Absent, Deleted}]
      /\ comment'[c] = Deleted /\ \A d \in Comment \ {c} : comment'[d] = comment[d]
  BY <1>1
<1>3. TypeOK'
  BY <1>1, <1>2 DEF Inv, TypeOK
<1>4. DraftsFit' /\ ReportsFit'
  <2>1. ~Unwritten(c)
    BY <1>1, Values DEF Inv, DraftsFit
  <2>. QED
    BY <1>1, <1>2, <2>1, Values, CommentsKeep DEF Unwritten
<1>5. EditsFit'
  BY <1>1 DEF Inv, EditsFit
<1>. QED
  BY <1>1, <1>3, <1>4, <1>5, ReportsUnchanged DEF Inv

-----------------------------------------------------------------------------
(* reports.create *)

LEMMA FileReportKeeps ==
    ASSUME Inv, NEW r \in Report, FileReport(r) PROVE Inv'
<1>. DEFINE c == Target[r]
<1>1. /\ report[r] = Absent /\ Exists(c)
      /\ reportCount' = [reportCount EXCEPT ![c] = @ + 1]
      /\ \/ /\ comment' = [comment EXCEPT ![c] = "HIDDEN"]
            /\ told' = [told EXCEPT ![c] = "HIDDEN"]
         \/ UNCHANGED <<comment, told>>
      /\ UNCHANGED <<author, draft, edit, review, leave, crashes>>
  BY DEF FileReport
<1>2. PICK as \in FiledAs : /\ as \in Open => IndexAdmits(r)
                            /\ report' = [report EXCEPT ![r] = as]
  BY DEF FileReport
<1>3. /\ c \in Comment /\ as \in ReportStatus /\ comment[c] \in Status
      /\ comment \in [Comment -> Status \cup {Absent, Deleted}]
      /\ told \in [Comment -> Status] /\ reportCount \in [Comment -> Nat]
  BY <1>1, Values, Types DEF Inv, Exists
<1>4. /\ report' \in [Report -> ReportStatus \cup {Absent, Deleted}]
      /\ report'[r] = as /\ \A s \in Report \ {r} : report'[s] = report[s]
      /\ ReviewsFit' /\ FinitelyMany' /\ OneOpenPerReporter'
  BY <1>1, <1>2, <1>3, NewReport
<1>5. /\ comment' \in [Comment -> Status \cup {Absent, Deleted}]
      /\ told' \in [Comment -> Status] /\ reportCount' \in [Comment -> Nat]
      /\ comment'[c] \in Status /\ \A d \in Comment \ {c} : comment'[d] = comment[d]
  BY <1>1, <1>3, Values
<1>6. TypeOK'
  BY <1>1, <1>4, <1>5 DEF Inv, TypeOK
<1>7. DraftsFit' /\ ReportsFit'
  <2>1. ~Unwritten(c)
    BY <1>3, Values DEF Inv, DraftsFit
  <2>. QED
    BY <1>1, <1>3, <1>4, <1>5, <2>1, Values, CommentsKeep DEF Unwritten
<1>8. EditsFit'
  BY <1>1 DEF Inv, EditsFit
<1>. QED
  BY <1>4, <1>6, <1>7, <1>8 DEF Inv

-----------------------------------------------------------------------------
(* reports.updateStatus *)

(* A review that reads, or ends, keeps or gives up what it has. *)
LEMMA ReviewOf ==
    ASSUME Inv, NEW m \in Moderator, NEW y \in ReviewRecord,
           review' = [review EXCEPT ![m] = y], UNCHANGED report,
           \/ y = NoReview
           \/ /\ review[m].pc # "idle" /\ y.pc # "idle"
              /\ y.of = review[m].of /\ y.to = review[m].to
    PROVE  /\ review' \in [Moderator -> ReviewRecord]
           /\ ReviewsFit' /\ FinitelyMany' /\ OneOpenPerReporter'
<1>1. /\ review' \in [Moderator -> ReviewRecord] /\ review'[m] = y
      /\ \A n \in Moderator \ {m} : review'[n] = review[n]
  BY Types DEF Inv
<1>2. \A s : Reopening(s)' => Reopening(s)
  BY <1>1, Empty, Values DEF Reopening
<1>3. \A n \in Moderator : review'[n].pc # "idle" =>
          review[n].pc # "idle" /\ review'[n].of = review[n].of /\ review'[n].to = review[n].to
  BY <1>1, Empty
<1>4. \A n \in Moderator : review'[n].pc = "idle" =>
          review'[n].to = Absent /\ review'[n].of = Absent
  BY <1>1, Empty DEF Inv, ReviewsFit
<1>5. \A q : IndexAdmits(q) => IndexAdmits(q)'
  BY <1>2 DEF IndexAdmits
<1>6. ReviewsFit'
  BY <1>3, <1>4, <1>5 DEF Inv, ReviewsFit
<1>7. FinitelyMany' /\ OneOpenPerReporter'
  BY DEF Inv, FinitelyMany, OneOpenPerReporter
<1>. QED
  BY <1>1, <1>6, <1>7

LEMMA BeginReviewKeeps ==
    ASSUME Inv, NEW m \in Moderator, NEW r \in Report, NEW to \in ReportStatus, BeginReview(m, r, to)
    PROVE  Inv'
<1>. DEFINE y == [NoReview EXCEPT !.pc = "updated", !.of = r, !.to = to]
<1>0. /\ review[m].pc = "idle" /\ report[r] \in ReportStatus
      /\ \A n \in Moderator : review[n].of # r
      /\ to \in Open => IndexAdmits(r)
      /\ review' = [review EXCEPT ![m] = y]
      /\ UNCHANGED <<comment, reportCount, report, author, draft, edit, told, leave, crashes>>
  BY DEF BeginReview
<1>1. y \in ReviewRecord /\ y.pc = "updated" /\ y.of = r /\ y.to = to
  BY DEF NoReview, ReviewRecord
<1>. HIDE DEF y
<1>2. /\ review' \in [Moderator -> ReviewRecord] /\ review'[m] = y
      /\ \A n \in Moderator \ {m} : review'[n] = review[n]
  BY <1>0, <1>1, Types DEF Inv
<1>3. ReviewsFit'
  <2>1. ASSUME NEW n \in Moderator, NEW q \in Report, q = review'[n].of,
               review'[n].pc # "idle", review'[n].to \in Open
        PROVE  IndexAdmits(q)'
    <3>1. IndexAdmits(q) /\ (n # m => q # r /\ q = review[n].of /\ review[n].to \in Open)
      BY <1>0, <1>1, <1>2, <2>1 DEF Inv, ReviewsFit
    <3>2. ASSUME NEW s \in Report \ {q}, SameKey(q, s)
          PROVE  report'[s] \notin Open /\ ~Reopening(s)'
      <4>1. report[s] \notin Open /\ ~Reopening(s)
        BY <3>1, <3>2 DEF IndexAdmits
      <4>2. ~(s = r /\ to \in Open)
        <5>. SUFFICES ASSUME s = r, to \in Open PROVE FALSE
          OBVIOUS
        <5>1. SameKey(r, q) /\ IndexAdmits(r) /\ q # r
          BY <1>0, <3>2 DEF SameKey
        <5>2. ~Reopening(q)
          BY <5>1 DEF IndexAdmits
        <5>. QED
          BY <1>1, <1>2, <2>1, <3>1, <5>1, <5>2 DEF Reopening
      <4>. QED
        BY <1>0, <1>1, <1>2, <4>1, <4>2 DEF Reopening
    <3>. QED
      BY <3>2 DEF IndexAdmits
  <2>2. \A n \in Moderator : review'[n].pc # "idle" =>
            /\ review'[n].of \in Report /\ review'[n].to \in ReportStatus
            /\ report'[review'[n].of] \in ReportStatus
            /\ \A o \in Moderator \ {n} : review'[o].pc # "idle" => review'[o].of # review'[n].of
    BY <1>0, <1>1, <1>2, Values DEF Inv, ReviewsFit
  <2>3. \A n \in Moderator :
            review'[n].pc = "idle" => review'[n].to = Absent /\ review'[n].of = Absent
    BY <1>1, <1>2 DEF Inv, ReviewsFit
  <2>4. ASSUME NEW n \in Moderator, review'[n].pc # "idle", review'[n].to \in Open
        PROVE  \E q \in Report : q = review'[n].of /\ IndexAdmits(q)'
    BY <2>1, <2>2, <2>4
  <2>. QED
    BY <2>2, <2>3, <2>4 DEF ReviewsFit
<1>4. TypeOK'
  BY <1>0, <1>2, Types DEF Inv, TypeOK, ReviewRecord
<1>5. DraftsFit' /\ ReportsFit'
  BY <1>0, CommentsKeep DEF Unwritten
<1>6. EditsFit' /\ FinitelyMany' /\ OneOpenPerReporter'
  BY <1>0 DEF Inv, EditsFit, FinitelyMany, OneOpenPerReporter
<1>. QED
  BY <1>3, <1>4, <1>5, <1>6 DEF Inv

LEMMA ReviewStepKeeps ==
    ASSUME Inv, NEW m \in Moderator, ReadComment(m) \/ CountOpen(m) \/ ReviewFails(m)
    PROVE  Inv'
<1>0. /\ UNCHANGED <<comment, reportCount, report, author, draft, edit, told, leave, crashes>>
      /\ review \in [Moderator -> ReviewRecord]
      /\ comment \in [Comment -> Status \cup {Absent, Deleted}]
  BY Types DEF ReadComment, CountOpen, ReviewFails, Inv
<1>1. \E y \in ReviewRecord :
          /\ review' = [review EXCEPT ![m] = y]
          /\ \/ y = NoReview
             \/ /\ review[m].pc # "idle" /\ y.pc # "idle"
                /\ y.of = review[m].of /\ y.to = review[m].to
  <2>1. CASE ReadComment(m)
    <3>. DEFINE seen == comment[Target[review[m].of]]
                y == [review[m] EXCEPT !.pc = "read", !.seen = seen]
    <3>1. /\ review[m].pc = "updated"
          /\ review' = [review EXCEPT ![m].pc = "read", ![m].seen = seen]
      BY <2>1 DEF ReadComment
    <3>2. seen \in Status \cup {Absent, Deleted}
      BY <1>0, <3>1, Values DEF Inv, ReviewsFit
    <3>. HIDE DEF seen
    <3>3. y \in ReviewRecord /\ y.of = review[m].of /\ y.to = review[m].to /\ y.pc = "read"
      BY <1>0, <3>2 DEF ReviewRecord
    <3>4. review' = [review EXCEPT ![m] = y]
      BY <1>0, <3>1
    <3>. HIDE DEF y
    <3>. QED
      BY <3>1, <3>3, <3>4
  <2>2. CASE CountOpen(m)
    <3>. DEFINE open == OpenReports(Target[review[m].of]) \ {review[m].of} # {}
                y == [review[m] EXCEPT !.pc = "counted", !.open = open]
    <3>1. /\ review[m].pc = "read"
          /\ review' = [review EXCEPT ![m].pc = "counted", ![m].open = open]
      BY <2>2 DEF CountOpen
    <3>2. open \in BOOLEAN
      OBVIOUS
    <3>. HIDE DEF open
    <3>3. y \in ReviewRecord /\ y.of = review[m].of /\ y.to = review[m].to /\ y.pc = "counted"
      BY <1>0, <3>2 DEF ReviewRecord
    <3>4. review' = [review EXCEPT ![m] = y]
      BY <1>0, <3>1
    <3>. HIDE DEF y
    <3>. QED
      BY <3>1, <3>3, <3>4
  <2>3. CASE ReviewFails(m)
    BY <2>3, Empty DEF ReviewFails
  <2>. QED
    BY <2>1, <2>2, <2>3
<1>2. /\ review' \in [Moderator -> ReviewRecord]
      /\ ReviewsFit' /\ FinitelyMany' /\ OneOpenPerReporter'
  BY <1>0, <1>1, ReviewOf
<1>3. TypeOK'
  BY <1>0, <1>2, Types DEF Inv, TypeOK, ReviewRecord
<1>4. DraftsFit' /\ ReportsFit'
  BY <1>0, CommentsKeep DEF Unwritten
<1>5. EditsFit'
  BY <1>0 DEF Inv, EditsFit
<1>. QED
  BY <1>2, <1>3, <1>4, <1>5 DEF Inv

LEMMA CommitReviewKeeps ==
    ASSUME Inv, NEW m \in Moderator, CommitReview(m) PROVE Inv'
<1>. DEFINE q == review[m].of
            c == Target[q]
            to == review[m].to
<1>1. /\ review[m].pc # "idle"
      /\ Restores(m) \/ Bans(m) => Exists(c)
      /\ report' = [report EXCEPT ![q] = to]
      /\ review' = [review EXCEPT ![m] = NoReview]
      /\ UNCHANGED <<author, draft, edit, leave, crashes>>
      /\ reportCount' = IF Restores(m) THEN [reportCount EXCEPT ![c] = 0] ELSE reportCount
      /\ \/ /\ Restores(m)
            /\ comment' = [comment EXCEPT ![c] = "VISIBLE"]
            /\ told' = [told EXCEPT ![c] = "VISIBLE"]
         \/ /\ Bans(m)
            /\ comment' = [comment EXCEPT ![c] = "BANNED"]
            /\ told' = [told EXCEPT ![c] = "BANNED"]
         \/ UNCHANGED <<comment, told>>
  BY DEF CommitReview, MayCommit
<1>2. /\ q \in Report /\ to \in ReportStatus /\ report[q] \in ReportStatus /\ c \in Comment
      /\ review \in [Moderator -> ReviewRecord]
      /\ report \in [Report -> ReportStatus \cup {Absent, Deleted}]
      /\ comment \in [Comment -> Status \cup {Absent, Deleted}]
      /\ told \in [Comment -> Status] /\ reportCount \in [Comment -> Nat]
      /\ to \in Open => IndexAdmits(q)
  BY <1>1, Types, Values DEF Inv, ReviewsFit
<1>. HIDE DEF c, q, to
<1>3. /\ report' \in [Report -> ReportStatus \cup {Absent, Deleted}]
      /\ report'[q] = to /\ \A s \in Report \ {q} : report'[s] = report[s]
      /\ review' \in [Moderator -> ReviewRecord] /\ review'[m] = NoReview
      /\ \A n \in Moderator \ {m} : review'[n] = review[n]
  BY <1>1, <1>2, Empty
<1>4. /\ comment' \in [Comment -> Status \cup {Absent, Deleted}]
      /\ told' \in [Comment -> Status] /\ reportCount' \in [Comment -> Nat]
      /\ UNCHANGED comment \/ (comment[c] \in Status /\ comment'[c] \in Status)
      /\ \A d \in Comment \ {c} : comment'[d] = comment[d]
  BY <1>1, <1>2, Values DEF Exists
<1>5. ReviewsFit'
  <2>1. \A s : Reopening(s)' => Reopening(s)
    BY <1>3, Empty, Values DEF Reopening
  <2>2. ASSUME NEW n \in Moderator \ {m}, review[n].pc # "idle", review[n].to \in Open
        PROVE  IndexAdmits(review[n].of)'
    <3>. DEFINE p == review[n].of
    <3>1. p \in Report /\ p # q /\ IndexAdmits(p)
      BY <1>1, <2>2 DEF Inv, ReviewsFit, q
    <3>2. to \in Open => ~SameKey(p, q)
      <4>1. to \in Open => Reopening(q)
        BY DEF Reopening, to, q
      <4>. QED
        BY <1>2, <3>1, <4>1 DEF IndexAdmits
    <3>. QED
      BY <1>3, <2>1, <3>1, <3>2 DEF IndexAdmits
  <2>. QED
    BY <1>1, <1>2, <1>3, <2>2, Empty DEF Inv, ReviewsFit
<1>6. FinitelyMany'
  <2>1. {r \in Report : report'[r] # Absent} = {r \in Report : report[r] # Absent}
    BY <1>2, <1>3, Values
  <2>. QED
    BY <2>1 DEF Inv, FinitelyMany
<1>7. OneOpenPerReporter'
  <2>. SUFFICES ASSUME NEW r \in Report, NEW s \in Report, r # s, SameKey(r, s),
                       report'[r] \in Open, report'[s] \in Open
                PROVE  FALSE
    BY DEF OneOpenPerReporter, SameKey
  <2>1. CASE r # q /\ s # q
    BY <1>3, <2>1 DEF Inv, OneOpenPerReporter
  <2>2. CASE r = q \/ s = q
    BY <1>2, <1>3, <2>2 DEF IndexAdmits, SameKey
  <2>. QED
    BY <2>1, <2>2
<1>8. TypeOK'
  BY <1>1, <1>3, <1>4, Types DEF Inv, TypeOK, ReviewRecord
<1>9. DraftsFit' /\ ReportsFit'
  <2>1. comment[c] \in Status => ~Unwritten(c)
    BY <1>2, Values DEF Inv, DraftsFit
  <2>2. \A r \in Report : report'[r] # Absent => report[r] # Absent
    BY <1>2, <1>3, Values
  <2>. QED
    BY <1>1, <1>2, <1>4, <2>1, <2>2, Values, CommentsKeep DEF Unwritten
<1>10. EditsFit'
  BY <1>1 DEF Inv, EditsFit
<1>. QED
  BY <1>5, <1>6, <1>7, <1>8, <1>9, <1>10 DEF Inv


-----------------------------------------------------------------------------
(* users.deleteUser, users.updateStatus, and handlers that die *)

LEMMA OwnReportsAreCounted ==
    ASSUME Inv, NEW u, NEW c \in Comment
    PROVE  Cardinality({r \in OpenReports(c) : Reporter[r] = u}) \in Nat
<1>. DEFINE own == {r \in OpenReports(c) : Reporter[r] = u}
            filed == {r \in Report : report[r] # Absent}
<1>1. own \subseteq filed /\ IsFiniteSet(filed)
  BY Values DEF Inv, FinitelyMany, OpenReports
<1>. HIDE DEF own, filed
<1>2. IsFiniteSet(own)
  BY <1>1, FS_Subset
<1>3. Cardinality(own) \in Nat
  BY <1>2, FS_CardinalityType
<1>. QED
  BY <1>3 DEF own

LEMMA CountOwnReportsKeeps ==
    ASSUME Inv, NEW u \in Leaver, CountOwnReports(u) PROVE Inv'
<1>. DEFINE open == [c \in Comment |-> Cardinality({r \in OpenReports(c) : Reporter[r] = u})]
<1>1. /\ leave' = [leave EXCEPT ![u] = [pc |-> "counted", open |-> open]]
      /\ UNCHANGED <<comment, reportCount, report, author, draft, edit, review, told, crashes>>
  BY DEF CountOwnReports
<1>2. open \in [Comment -> Nat]
  BY OwnReportsAreCounted
<1>. HIDE DEF open
<1>3. [pc |-> "counted", open |-> open] \in LeaveRecord
  BY <1>2 DEF LeaveRecord
<1>4. leave' \in [Leaver -> LeaveRecord]
  BY <1>1, <1>3, Types DEF Inv
<1>5. TypeOK'
  BY <1>1, <1>4, Types DEF Inv, TypeOK, LeaveRecord
<1>6. DraftsFit' /\ ReportsFit'
  BY <1>1, CommentsKeep DEF Unwritten
<1>7. EditsFit'
  BY <1>1 DEF Inv, EditsFit
<1>. QED
  BY <1>1, <1>5, <1>6, <1>7, ReportsUnchanged DEF Inv

LEMMA CommitDeletionKeeps ==
    ASSUME Inv, NEW u \in Leaver, CommitDeletion(u) PROVE Inv'
<1>1. /\ \A m \in Moderator : review[m].of \in Report => Reporter[review[m].of] # u
      /\ reportCount' = [c \in Comment |->
             IF Exists(c) THEN Decremented(reportCount[c], leave[u].open[c]) ELSE reportCount[c]]
      /\ report' = [r \in Report |->
             IF Reporter[r] = u /\ report[r] # Absent THEN Deleted ELSE report[r]]
      /\ leave' = [leave EXCEPT ![u] = [NoLeave EXCEPT !.pc = "done"]]
      /\ UNCHANGED <<comment, author, draft, edit, review, told, crashes>>
  BY DEF CommitDeletion
<1>2. /\ reportCount \in [Comment -> Nat] /\ leave \in [Leaver -> LeaveRecord]
      /\ report \in [Report -> ReportStatus \cup {Absent, Deleted}]
  BY Types DEF Inv
<1>3. reportCount' \in [Comment -> Nat]
  <2>1. \A c \in Comment : leave[u].open[c] \in Nat /\ reportCount[c] \in Nat
    BY <1>2 DEF LeaveRecord
  <2>2. \A i, n \in Nat : Decremented(i, n) \in Nat
    BY DEF Decremented
  <2>. QED
    BY <1>1, <2>1, <2>2
<1>4. /\ report' \in [Report -> ReportStatus \cup {Absent, Deleted}]
      /\ \A r \in Report : /\ report'[r] = Absent <=> report[r] = Absent
                           /\ report'[r] \in Open => report[r] \in Open
                           /\ Reporter[r] # u => report'[r] = report[r]
  BY <1>1, <1>2, Values
<1>5. leave' \in [Leaver -> LeaveRecord]
  <2>1. [NoLeave EXCEPT !.pc = "done"] \in LeaveRecord
    BY DEF NoLeave, LeaveRecord
  <2>. QED
    BY <1>1, <1>2, <2>1
<1>6. TypeOK'
  BY <1>1, <1>3, <1>4, <1>5, Types DEF Inv, TypeOK, LeaveRecord
<1>7. DraftsFit' /\ ReportsFit'
  BY <1>1, <1>4, CommentsKeep DEF Unwritten
<1>8. EditsFit'
  BY <1>1 DEF Inv, EditsFit
<1>9. ReviewsFit'
  <2>1. \A q \in Report : IndexAdmits(q) => IndexAdmits(q)'
    BY <1>1, <1>4 DEF IndexAdmits, Reopening
  <2>2. ASSUME NEW m \in Moderator, review[m].pc # "idle"
        PROVE  /\ review[m].of \in Report /\ report'[review[m].of] \in ReportStatus
               /\ review[m].to \in Open => IndexAdmits(review[m].of)'
    <3>1. PICK q \in Report : /\ q = review[m].of /\ report[q] \in ReportStatus
                              /\ review[m].to \in Open => IndexAdmits(q)
      BY <2>2 DEF Inv, ReviewsFit
    <3>2. report'[q] \in ReportStatus /\ (review[m].to \in Open => IndexAdmits(q)')
      BY <1>1, <1>4, <2>1, <3>1
    <3>3. review'[m].of = q
      BY <1>1, <3>1
    <3>. QED
      BY <1>1, <3>1, <3>2, <3>3 DEF IndexAdmits
  <2>. QED
    BY <1>1, <2>2 DEF Inv, ReviewsFit
<1>10. FinitelyMany'
  <2>1. {r \in Report : report'[r] # Absent} = {r \in Report : report[r] # Absent}
    BY <1>4
  <2>. QED
    BY <2>1 DEF Inv, FinitelyMany
<1>11. OneOpenPerReporter'
  BY <1>4 DEF Inv, OneOpenPerReporter
<1>. QED
  BY <1>6, <1>7, <1>8, <1>9, <1>10, <1>11 DEF Inv

LEMMA SetAuthorStatusKeeps ==
    ASSUME Inv, NEW c \in Comment, NEW status \in AuthorStatus, SetAuthorStatus(c, status)
    PROVE  Inv'
<1>1. /\ author' = [author EXCEPT ![c] = status]
      /\ UNCHANGED <<comment, reportCount, report, draft, edit, review, told, leave, crashes>>
  BY DEF SetAuthorStatus
<1>2. author' \in [Comment -> AuthorStatus]
  BY <1>1, Types DEF Inv
<1>3. TypeOK'
  BY <1>1, <1>2, Types DEF Inv, TypeOK
<1>4. DraftsFit' /\ ReportsFit'
  BY <1>1, CommentsKeep DEF Unwritten
<1>5. EditsFit'
  BY <1>1 DEF Inv, EditsFit
<1>. QED
  BY <1>1, <1>3, <1>4, <1>5, ReportsUnchanged DEF Inv

LEMMA CrashKeeps ==
    ASSUME Inv, Crash PROVE Inv'
<1>1. /\ crashes' \in 0..MaxCrashes
      /\ UNCHANGED <<comment, reportCount, report, author, told, leave>>
  BY ModerationAssumption, Types DEF Crash, Inv
<1>2. ASSUME NEW c \in Comment, draft' = [draft EXCEPT ![c] = [NoDraft EXCEPT !.pc = "done"]],
             UNCHANGED <<edit, review>>
      PROVE  Inv'
  <2>1. [NoDraft EXCEPT !.pc = "done"] \in DraftRecord /\ [NoDraft EXCEPT !.pc = "done"].pc = "done"
    BY Values DEF NoDraft, DraftRecord
  <2>2. /\ draft' \in [Comment -> DraftRecord]
        /\ \A d \in Comment : Unwritten(d)' => Unwritten(d)
    BY <1>2, <2>1, Types DEF Inv, Unwritten
  <2>3. TypeOK'
    BY <1>1, <1>2, <2>2, Types DEF Inv, TypeOK, DraftRecord
  <2>4. DraftsFit' /\ ReportsFit'
    BY <1>1, <2>2, CommentsKeep
  <2>5. EditsFit'
    BY <1>2 DEF Inv, EditsFit
  <2>. QED
    BY <1>1, <1>2, <2>3, <2>4, <2>5, ReportsUnchanged DEF Inv
<1>3. ASSUME NEW e \in Editor, edit' = [edit EXCEPT ![e] = NoEdit], UNCHANGED <<draft, review>>
      PROVE  Inv'
  <2>1. edit' \in [Editor -> EditRecord] /\ EditsFit'
    BY <1>3, Empty, Types DEF Inv, EditsFit
  <2>2. TypeOK'
    BY <1>1, <1>3, <2>1, Types DEF Inv, TypeOK, EditRecord
  <2>3. DraftsFit' /\ ReportsFit'
    BY <1>1, <1>3, CommentsKeep DEF Unwritten
  <2>. QED
    BY <1>1, <1>3, <2>1, <2>2, <2>3, ReportsUnchanged DEF Inv
<1>4. ASSUME NEW m \in Moderator, review' = [review EXCEPT ![m] = NoReview], UNCHANGED <<draft, edit>>
      PROVE  Inv'
  <2>1. review' \in [Moderator -> ReviewRecord]
    BY <1>4, Empty, Types DEF Inv
  <2>2. TypeOK'
    BY <1>1, <1>4, <2>1, Types DEF Inv, TypeOK, ReviewRecord
  <2>3. DraftsFit' /\ ReportsFit' /\ EditsFit'
    BY <1>1, <1>4, CommentsKeep DEF Unwritten, Inv, EditsFit
  <2>4. ReviewsFit' /\ FinitelyMany' /\ OneOpenPerReporter'
    BY <1>1, <1>4, ReviewOf, Empty, Types DEF Inv
  <2>. QED
    BY <2>2, <2>3, <2>4 DEF Inv
<1>. QED
  BY <1>2, <1>3, <1>4 DEF Crash


-----------------------------------------------------------------------------
LEMMA InitInv == Init => Inv
<1>. SUFFICES ASSUME Init PROVE Inv
  OBVIOUS
<1>1. TypeOK
  <2>1. crashes \in 0..MaxCrashes
    BY ModerationAssumption DEF Init
  <2>2. \A c \in Comment : "VISIBLE" \in Status
    BY Values
  <2>. QED
    BY <2>1, <2>2, Empty, Types DEF Init
<1>2. DraftsFit /\ ReportsFit /\ EditsFit /\ ReviewsFit /\ OneOpenPerReporter
  BY Empty, Values DEF Init, DraftsFit, ReportsFit, EditsFit, ReviewsFit, OneOpenPerReporter
<1>3. FinitelyMany
  <2>1. {r \in Report : report[r] # Absent} = {}
    BY DEF Init
  <2>. QED
    BY <2>1, FS_EmptySet DEF FinitelyMany
<1>. QED
  BY <1>1, <1>2, <1>3 DEF Inv

LEMMA NextInv == Inv /\ [Next]_vars => Inv'
<1>. SUFFICES ASSUME Inv, [Next]_vars PROVE Inv'
  OBVIOUS
<1>1. CASE UNCHANGED vars
  <2>1. UNCHANGED <<comment, reportCount, report, author, draft, edit, review, leave, told, crashes>>
    BY <1>1 DEF vars
  <2>2. TypeOK' /\ EditsFit'
    BY <2>1 DEF Inv, TypeOK, EditsFit
  <2>3. DraftsFit' /\ ReportsFit'
    BY <2>1, CommentsKeep DEF Unwritten
  <2>. QED
    BY <2>1, <2>2, <2>3, ReportsUnchanged DEF Inv
<1>2. ASSUME NEW c \in Comment,
             \/ CheckUser(c) \/ ApplyPolicy(c) \/ CommitComment(c) \/ EmitCreated(c) \/ Remove(c)
             \/ \E status \in AuthorStatus : SetAuthorStatus(c, status)
      PROVE  Inv'
  BY <1>2, DraftStepKeeps, CommitCommentKeeps, RemoveKeeps, SetAuthorStatusKeeps
<1>3. ASSUME NEW e \in Editor,
             \/ \E c \in Comment : ReadForUpdate(e, c)
             \/ CommitUpdate(e) \/ UpdateFails(e) \/ EmitUpdated(e)
      PROVE  Inv'
  BY <1>3, EditStepKeeps, CommitUpdateKeeps
<1>4. ASSUME NEW r \in Report, FileReport(r) PROVE Inv'
  BY <1>4, FileReportKeeps
<1>5. ASSUME NEW m \in Moderator,
             \/ \E r \in Report, to \in ReportStatus : BeginReview(m, r, to)
             \/ ReadComment(m) \/ CountOpen(m) \/ CommitReview(m) \/ ReviewFails(m)
      PROVE  Inv'
  BY <1>5, BeginReviewKeeps, ReviewStepKeeps, CommitReviewKeeps
<1>6. ASSUME NEW u \in Leaver, CountOwnReports(u) \/ CommitDeletion(u) PROVE Inv'
  BY <1>6, CountOwnReportsKeeps, CommitDeletionKeeps
<1>. QED
  BY <1>1, <1>2, <1>3, <1>4, <1>5, <1>6, CrashKeeps DEF Next

LEMMA Invariance == Spec => []Inv
<1>1. Init => Inv
  BY InitInv
<1>2. Inv /\ [Next]_vars => Inv'
  BY NextInv
<1>. QED
  BY <1>1, <1>2, PTL DEF Spec

(* Every variable stays in its range; a counter a departing reporter's     *)
(* reports are taken from never passes below zero (users.service.ts:236).  *)
THEOREM TypeCorrect == Spec => []TypeOK
<1>1. Inv => TypeOK
  BY DEF Inv
<1>. QED
  BY <1>1, Invariance, PTL

(* However many users file reports and moderators close and reopen them,   *)
(* no reporter has two open reports on a comment (reports.service.ts:94).  *)
THEOREM OneOpen == Spec => []OneOpenPerReporter
<1>1. Inv => OneOpenPerReporter
  BY DEF Inv
<1>. QED
  BY <1>1, Invariance, PTL

-----------------------------------------------------------------------------
(* What a step may do to a comment. *)
LEMMA CommentSteps ==
    ASSUME Inv, [Next]_vars, NEW c \in Comment, comment'[c] # comment[c]
    PROVE  \/ CommitComment(c)
           \/ \E e \in Editor : edit[e].of = c /\ CommitUpdate(e)
           \/ Remove(c)
           \/ \E r \in Report : Target[r] = c /\ FileReport(r)
           \/ \E m \in Moderator : /\ review[m].of \in Report /\ Target[review[m].of] = c
                                   /\ CommitReview(m)
<1>0. comment \in [Comment -> Status \cup {Absent, Deleted}]
  BY Types DEF Inv
<1>1. CASE UNCHANGED vars
  BY <1>1 DEF vars
<1>2. ASSUME NEW d \in Comment,
             \/ CheckUser(d) \/ ApplyPolicy(d) \/ CommitComment(d) \/ EmitCreated(d) \/ Remove(d)
             \/ \E status \in AuthorStatus : SetAuthorStatus(d, status)
      PROVE  d = c /\ (CommitComment(c) \/ Remove(c))
  BY <1>0, <1>2 DEF CheckUser, ApplyPolicy, CommitComment, EmitCreated, Remove, SetAuthorStatus
<1>3. ASSUME NEW e \in Editor,
             \/ \E d \in Comment : ReadForUpdate(e, d)
             \/ CommitUpdate(e) \/ UpdateFails(e) \/ EmitUpdated(e)
      PROVE  edit[e].of = c /\ CommitUpdate(e)
  BY <1>0, <1>3 DEF ReadForUpdate, CommitUpdate, UpdateFails, EmitUpdated
<1>4. ASSUME NEW r \in Report, FileReport(r) PROVE Target[r] = c
  BY <1>0, <1>4 DEF FileReport
<1>5. ASSUME NEW m \in Moderator,
             \/ \E r \in Report, to \in ReportStatus : BeginReview(m, r, to)
             \/ ReadComment(m) \/ CountOpen(m) \/ CommitReview(m) \/ ReviewFails(m)
      PROVE  review[m].of \in Report /\ Target[review[m].of] = c /\ CommitReview(m)
  <2>1. CommitReview(m)
    BY <1>5 DEF BeginReview, ReadComment, CountOpen, ReviewFails
  <2>2. review[m].pc # "idle"
    BY <2>1 DEF CommitReview, MayCommit
  <2>3. review[m].of \in Report
    BY <2>2 DEF Inv, ReviewsFit
  <2>. QED
    BY <1>0, <2>1, <2>3 DEF CommitReview
<1>6. ASSUME NEW u \in Leaver, CountOwnReports(u) \/ CommitDeletion(u) PROVE FALSE
  BY <1>6 DEF CountOwnReports, CommitDeletion
<1>7. ~Crash
  BY DEF Crash
<1>. QED
  BY <1>1, <1>2, <1>3, <1>4, <1>5, <1>6, <1>7 DEF Next

LEMMA LegalStep ==
    ASSUME Inv, [Next]_vars, NEW c \in Comment,
           comment[c] \in Status, comment'[c] \notin {comment[c], Deleted}
    PROVE  comment'[c] \in Successors(comment[c]) \/ StaleEdit(c) \/ StaleReview(c)
<1>0. /\ comment \in [Comment -> Status \cup {Absent, Deleted}] /\ Absent \notin Status
      /\ edit \in [Editor -> EditRecord] /\ review \in [Moderator -> ReviewRecord]
  BY Types, Values DEF Inv
<1>1. ~CommitComment(c)
  BY <1>0 DEF CommitComment, Inv, DraftsFit, Unwritten
<1>2. ~Remove(c)
  BY <1>0 DEF Remove
<1>3. ASSUME NEW r \in Report, Target[r] = c, FileReport(r)
      PROVE  comment'[c] \in Successors(comment[c])
  <2>1. comment[c] = "VISIBLE" /\ comment'[c] = "HIDDEN"
    BY <1>0, <1>3 DEF FileReport
  <2>. QED
    BY <2>1 DEF Successors
<1>4. ASSUME NEW e \in Editor, edit[e].of = c, CommitUpdate(e)
      PROVE  comment'[c] \in Successors(comment[c]) \/ StaleEdit(c)
  <2>1. comment'[c] = edit[e].to /\ edit[e].pc = "read"
    BY <1>0, <1>4 DEF CommitUpdate
  <2>2. IsValidModerationTransition(edit[e].seen, edit[e].to)
    BY <2>1 DEF Inv, EditsFit
  <2>3. edit'[e].pc \in {"idle", "emit"}
    <3>1. CASE edit[e].hide
      <4> DEFINE y == [NoEdit EXCEPT !.pc = "emit", !.of = c]
      <4>1. y.pc = "emit"
        BY DEF NoEdit
      <4>2. edit' = [edit EXCEPT ![e] = y]
        BY <1>4, <3>1 DEF CommitUpdate
      <4>. HIDE DEF y
      <4>. QED
        BY <1>0, <4>1, <4>2
    <3>2. CASE ~edit[e].hide
      <4>1. edit' = [edit EXCEPT ![e] = NoEdit]
        BY <1>4, <3>2 DEF CommitUpdate
      <4>2. NoEdit.pc = "idle"
        BY DEF NoEdit
      <4>. QED
        BY <1>0, <4>1, <4>2
    <3>. QED
      BY <3>1, <3>2
  <2>4. CASE edit[e].seen = comment[c]
    BY <2>1, <2>2, <2>4 DEF IsValidModerationTransition
  <2>5. CASE edit[e].seen # comment[c]
    BY <1>4, <2>1, <2>3, <2>5 DEF StaleEdit
  <2>. QED
    BY <2>4, <2>5
<1>5. ASSUME NEW m \in Moderator, review[m].of \in Report, Target[review[m].of] = c,
             CommitReview(m)
      PROVE  comment'[c] \in Successors(comment[c]) \/ StaleReview(c)
  <2>1. MayCommit(m) /\ review'[m] = NoReview
    BY <1>0, <1>5 DEF CommitReview
  <2>2. \/ comment'[c] = "VISIBLE" /\ review[m].seen = "HIDDEN"
        \/ comment'[c] = "BANNED" /\ review[m].seen \in Status \ {"BANNED"}
    BY <1>0, <1>5 DEF CommitReview, Restores, Bans
  <2>3. CASE review[m].seen = comment[c]
    BY <2>2, <2>3 DEF Status, Successors
  <2>4. CASE review[m].seen # comment[c]
    BY <1>5, <2>1, <2>4 DEF StaleReview
  <2>. QED
    BY <2>3, <2>4
<1>. QED
  BY <1>1, <1>2, <1>3, <1>4, <1>5, CommentSteps

(* No order of edits, reports, decisions and deletions takes a comment     *)
(* where VALID_TRANSITIONS does not (moderation-policy.service.ts:18), out *)
(* of BANNED or elsewhere, but for a handler that had read another status. *)
THEOREM OnlyStaleTransitionsAreIllegal == Spec => TransitionsAreLegal
<1>1. Inv /\ [Next]_vars => [\A c \in Comment :
          comment[c] \in Status /\ comment'[c] \notin {comment[c], Deleted} =>
              comment'[c] \in Successors(comment[c]) \/ StaleEdit(c) \/ StaleReview(c)]_vars
  BY LegalStep
<1>. QED
  BY <1>1, Invariance, PTL DEF Spec, TransitionsAreLegal

-----------------------------------------------------------------------------
(* The threshold, where no moderator or author changes a status by         *)
(* comments.update.                                                        *)

CountedRight == \A c \in Comment :
    /\ comment[c] = Absent => reportCount[c] = 0
    /\ comment[c] = "VISIBLE" => reportCount[c] < Threshold

LEMMA CountsKeep ==
    ASSUME Inv, CountedRight, Editor = {}, [Next]_vars PROVE CountedRight'
<1>0. /\ comment \in [Comment -> Status \cup {Absent, Deleted}]
      /\ reportCount \in [Comment -> Nat] /\ Threshold \in Nat \ {0}
      /\ Absent \notin Status /\ Absent # Deleted
  BY ModerationAssumption, Types, Values DEF Inv
<1>1. ASSUME NEW r \in Report, FileReport(r) PROVE CountedRight'
  <2>1. Target[r] \in Comment /\ comment[Target[r]] \in Status
    BY <1>1, Values DEF FileReport, Exists
  <2>2. /\ reportCount' = [reportCount EXCEPT ![Target[r]] = @ + 1]
        /\ IF AtThreshold(reportCount'[Target[r]]) /\ comment[Target[r]] = "VISIBLE"
           THEN comment' = [comment EXCEPT ![Target[r]] = "HIDDEN"]
           ELSE UNCHANGED comment
    BY <1>1 DEF FileReport
  <2>3. \A c \in Comment \ {Target[r]} : reportCount'[c] = reportCount[c] /\ comment'[c] = comment[c]
    BY <1>0, <2>1, <2>2
  <2>4. comment'[Target[r]] # Absent
    BY <1>0, <2>1, <2>2, Values
  <2>5. comment'[Target[r]] = "VISIBLE" => reportCount'[Target[r]] < Threshold
    <3>1. reportCount'[Target[r]] \in Nat
      BY <1>0, <2>1, <2>2
    <3>2. comment'[Target[r]] = "VISIBLE" => ~AtThreshold(reportCount'[Target[r]])
      BY <1>0, <2>1, <2>2
    <3>. QED
      BY <1>0, <3>1, <3>2 DEF AtThreshold
  <2>. QED
    BY <2>3, <2>4, <2>5 DEF CountedRight
<1>2. ASSUME NEW m \in Moderator, CommitReview(m) PROVE CountedRight'
  <2>. DEFINE c == Target[review[m].of]
  <2>1. review[m].pc # "idle"
    BY <1>2 DEF CommitReview, MayCommit
  <2>2. c \in Comment /\ comment[c] # Absent
    BY <2>1, Values DEF Inv, ReviewsFit, ReportsFit
  <2>3. \/ /\ comment' = [comment EXCEPT ![c] = "VISIBLE"]
           /\ reportCount' = [reportCount EXCEPT ![c] = 0]
        \/ comment' = [comment EXCEPT ![c] = "BANNED"] /\ UNCHANGED reportCount
        \/ UNCHANGED <<comment, reportCount>>
    BY <1>2 DEF CommitReview, Restores, Bans
  <2>. HIDE DEF c
  <2>. QED
    BY <1>0, <2>2, <2>3, Values DEF CountedRight
<1>3. ASSUME NEW c \in Comment, CommitComment(c) \/ Remove(c) PROVE CountedRight'
  <2>1. UNCHANGED reportCount
    BY <1>3 DEF CommitComment, Remove
  <2>2. \A d \in Comment \ {c} : comment'[d] = comment[d]
    BY <1>0, <1>3 DEF CommitComment, Remove
  <2>3. CommitComment(c) => comment[c] = Absent
    BY DEF CommitComment, Inv, DraftsFit, Unwritten
  <2>4. comment'[c] # Absent
    <3>1. draft[c].status \in Status
      BY Types DEF Inv, DraftRecord
    <3>. QED
      BY <1>0, <1>3, <3>1 DEF CommitComment, Remove
  <2>5. Remove(c) => comment'[c] # "VISIBLE"
    BY <1>0 DEF Remove, Deleted
  <2>. QED
    BY <1>0, <1>3, <2>1, <2>2, <2>3, <2>4, <2>5 DEF CountedRight
<1>4. ASSUME NEW u \in Leaver, CommitDeletion(u) PROVE CountedRight'
  <2>1. UNCHANGED comment
    BY <1>4 DEF CommitDeletion
  <2>2. ASSUME NEW c \in Comment
        PROVE  reportCount'[c] \in Nat /\ reportCount'[c] <= reportCount[c]
    <3>1. reportCount[c] \in Nat /\ leave[u].open[c] \in Nat
      BY Types DEF Inv, LeaveRecord
    <3>2. reportCount'[c] = IF Exists(c) THEN Decremented(reportCount[c], leave[u].open[c])
                                         ELSE reportCount[c]
      BY <1>4 DEF CommitDeletion
    <3>. QED
      BY <3>1, <3>2 DEF Decremented
  <2>. QED
    BY <1>0, <2>1, <2>2 DEF CountedRight
<1>5. CASE UNCHANGED <<comment, reportCount>>
  BY <1>5 DEF CountedRight
<1>6. ASSUME NEW c \in Comment,
             \/ CheckUser(c) \/ ApplyPolicy(c) \/ EmitCreated(c)
             \/ \E status \in AuthorStatus : SetAuthorStatus(c, status)
      PROVE  UNCHANGED <<comment, reportCount>>
  BY <1>6 DEF CheckUser, ApplyPolicy, EmitCreated, SetAuthorStatus
<1>7. ASSUME NEW m \in Moderator,
             \/ \E r \in Report, to \in ReportStatus : BeginReview(m, r, to)
             \/ ReadComment(m) \/ CountOpen(m) \/ ReviewFails(m)
      PROVE  UNCHANGED <<comment, reportCount>>
  BY <1>7 DEF BeginReview, ReadComment, CountOpen, ReviewFails
<1>8. ASSUME \/ UNCHANGED vars \/ Crash \/ \E u \in Leaver : CountOwnReports(u)
      PROVE  UNCHANGED <<comment, reportCount>>
  BY <1>8 DEF vars, Crash, CountOwnReports
<1>. QED
  BY <1>1, <1>2, <1>3, <1>4, <1>5, <1>6, <1>7, <1>8 DEF Next

(* However many users report a comment at once, and moderators restore it, *)
(* a visible one has fewer reports than the threshold, if no status is set *)
(* explicitly (reports.service.ts:147).                                    *)
THEOREM ThresholdHolds ==
    ASSUME Editor = {}
    PROVE  Spec => []VisibleIsBelowThreshold
<1>1. Init => CountedRight
  BY ModerationAssumption DEF Init, CountedRight, Absent
<1>2. Inv /\ CountedRight /\ [Next]_vars => CountedRight'
  BY CountsKeep
<1>3. CountedRight => VisibleIsBelowThreshold
  BY DEF CountedRight, VisibleIsBelowThreshold
<1>. QED
  BY <1>1, <1>2, <1>3, Invariance, PTL DEF Spec


-----------------------------------------------------------------------------
(* One moderator at a time, no explicit status, no account that changes or *)
(* disappears: what the dismissal of a report relies on.                   *)

OneAtATime ==
    /\ Editor = {} /\ Leaver = {}
    /\ AuthorStatus = {"ACTIVE"}
    /\ FiledAs \subseteq Open
    /\ \A m, n \in Moderator : m = n

DecidedFit == \A c \in Comment : draft[c].pc = "decided" =>
    draft[c].status # "BANNED" /\ (draft[c].status = "HIDDEN" => draft[c].system)

HiddenIsReported == \A c \in Comment : comment[c] = "HIDDEN" => OpenReports(c) # {}

Others(m, c) == OpenReports(c) \ {review[m].of}

(* A comment hidden since the review read it has another report open; one  *)
(* that was hidden then has not been banned since.                         *)
ReviewsSee == \A m \in Moderator, c \in Comment :
    review[m].pc \in {"read", "counted"} /\ c = Target[review[m].of] =>
        /\ comment[c] = "HIDDEN" /\ review[m].seen # "HIDDEN" => Others(m, c) # {}
        /\ review[m].pc = "counted" /\ review[m].open => Others(m, c) # {}
        /\ review[m].seen = "HIDDEN" => comment[c] # "BANNED"

SerialInv == DecidedFit /\ HiddenIsReported /\ ReviewsSee

(* A step that closes no report, bans nothing, hides a comment only with a *)
(* new open report on it, and takes no review past its first statement.    *)
LEMMA QuietSerial ==
    ASSUME Inv, SerialInv, DecidedFit',
           \A r \in Report : report[r] \in Open => report'[r] \in Open,
           \A c \in Comment : comment'[c] = "HIDDEN" =>
               \/ comment[c] = "HIDDEN"
               \/ \E r \in Report : Target[r] = c /\ report[r] = Absent /\ report'[r] \in Open,
           \A c \in Comment : comment'[c] = "BANNED" => comment[c] = "BANNED",
           \A m \in Moderator : review'[m] = review[m] \/ review'[m].pc \in {"idle", "updated"}
    PROVE  SerialInv'
<1>1. HiddenIsReported'
  BY DEF SerialInv, HiddenIsReported, OpenReports
<1>2. ASSUME NEW m \in Moderator, NEW c \in Comment,
             review'[m].pc \in {"read", "counted"}, c = Target[review'[m].of]
      PROVE  /\ comment'[c] = "HIDDEN" /\ review'[m].seen # "HIDDEN" => Others(m, c)' # {}
             /\ review'[m].pc = "counted" /\ review'[m].open => Others(m, c)' # {}
             /\ review'[m].seen = "HIDDEN" => comment'[c] # "BANNED"
  <2>1. review'[m] = review[m]
    BY <1>2
  <2>2. Others(m, c) \subseteq Others(m, c)'
    BY <2>1 DEF Others, OpenReports
  <2>3. report[review[m].of] # Absent
    BY <1>2, <2>1, Values DEF Inv, ReviewsFit
  <2>4. comment'[c] = "HIDDEN" /\ comment[c] # "HIDDEN" => Others(m, c)' # {}
    BY <2>1, <2>3 DEF Others, OpenReports
  <2>. QED
    BY <1>2, <2>1, <2>2, <2>4 DEF SerialInv, ReviewsSee
<1>3. ReviewsSee'
  BY <1>2 DEF ReviewsSee
<1>. QED
  BY <1>1, <1>3 DEF SerialInv

LEMMA ReportStepsSerial ==
    ASSUME Inv, SerialInv, OneAtATime, NEW r \in Report, FileReport(r) PROVE SerialInv'
<1>1. PICK as \in Open : report' = [report EXCEPT ![r] = as]
  BY DEF FileReport, OneAtATime
<1>2. /\ report[r] = Absent /\ UNCHANGED <<draft, review>>
      /\ \/ UNCHANGED comment
         \/ comment' = [comment EXCEPT ![Target[r]] = "HIDDEN"]
  BY DEF FileReport
<1>3. /\ comment \in [Comment -> Status \cup {Absent, Deleted}]
      /\ report \in [Report -> ReportStatus \cup {Absent, Deleted}]
  BY Types DEF Inv
<1>4. DecidedFit'
  BY <1>2 DEF SerialInv, DecidedFit
<1>5. report'[r] \in Open /\ \A s \in Report \ {r} : report'[s] = report[s]
  BY <1>1, <1>3
<1>6. \A c \in Comment : \/ comment'[c] = comment[c]
                         \/ c = Target[r] /\ comment'[c] = "HIDDEN"
  BY <1>2, <1>3
<1>. QED
  BY <1>2, <1>4, <1>5, <1>6, QuietSerial

LEMMA DraftStepsSerial ==
    ASSUME Inv, SerialInv, OneAtATime, NEW c \in Comment,
           \/ CheckUser(c) \/ ApplyPolicy(c) \/ CommitComment(c) \/ EmitCreated(c) \/ Remove(c)
           \/ \E status \in AuthorStatus : SetAuthorStatus(c, status)
    PROVE  SerialInv'
<1>0. /\ comment \in [Comment -> Status \cup {Absent, Deleted}]
      /\ report \in [Report -> ReportStatus \cup {Absent, Deleted}]
      /\ draft \in [Comment -> DraftRecord]
  BY Types DEF Inv
<1>1. UNCHANGED review
  BY DEF CheckUser, ApplyPolicy, CommitComment, EmitCreated, Remove, SetAuthorStatus
<1>2. CASE CheckUser(c) \/ EmitCreated(c) \/ Remove(c) \/ \E status \in AuthorStatus : SetAuthorStatus(c, status)
  <2>1. /\ UNCHANGED report
        /\ \A d \in Comment : comment'[d] \in {comment[d], Deleted}
        /\ \A d \in Comment : draft'[d].pc = "decided" => draft'[d] = draft[d]
    BY <1>0, <1>2 DEF CheckUser, EmitCreated, Remove, SetAuthorStatus, DraftRecord
  <2>2. DecidedFit'
    BY <2>1 DEF SerialInv, DecidedFit
  <2>. QED
    BY <1>1, <2>1, <2>2, QuietSerial DEF Deleted
<1>3. CASE ApplyPolicy(c)
  <2>1. PICK b \in BOOLEAN :
            draft' = [draft EXCEPT ![c] =
                [pc |-> "decided", status |-> CreationPolicy(author[c], b).status,
                 auto |-> CreationPolicy(author[c], b).auto,
                 system |-> CreationPolicy(author[c], b).system]]
    BY <1>3 DEF ApplyPolicy
  <2>2. author[c] \in AuthorStatus /\ author[c] = "ACTIVE"
    BY Types DEF Inv, OneAtATime
  <2>3. /\ CreationPolicy(author[c], b).status \in {"VISIBLE", "HIDDEN"}
        /\ CreationPolicy(author[c], b).status = "HIDDEN" => CreationPolicy(author[c], b).system
    BY <2>2, CreationPolicyIs
  <2>4. DecidedFit'
    BY <1>0, <2>1, <2>3 DEF SerialInv, DecidedFit
  <2>. QED
    BY <1>1, <1>3, <2>4, QuietSerial DEF ApplyPolicy
<1>4. CASE CommitComment(c)
  <2>1. /\ draft[c].pc = "decided" /\ comment' = [comment EXCEPT ![c] = draft[c].status]
        /\ IF draft[c].system THEN \E r \in Report : SystemReport(c, r) ELSE UNCHANGED report
        /\ draft' = [draft EXCEPT ![c].pc = IF draft[c].auto THEN "emit" ELSE "done"]
    BY <1>4 DEF CommitComment
  <2>2. DecidedFit'
    BY <1>0, <2>1 DEF SerialInv, DecidedFit, DraftRecord
  <2>3. draft[c].status # "BANNED" /\ (draft[c].status = "HIDDEN" => draft[c].system)
    BY <2>1 DEF SerialInv, DecidedFit
  <2>4. /\ \A r \in Report : report[r] \in Open => report'[r] \in Open
        /\ draft[c].system => \E r \in Report : /\ Target[r] = c /\ report[r] = Absent
                                                /\ report'[r] \in Open
    BY <1>0, <2>1, Values DEF SystemReport
  <2>. QED
    BY <1>0, <1>1, <2>1, <2>2, <2>3, <2>4, QuietSerial
<1>. QED
  BY <1>2, <1>3, <1>4

LEMMA CrashSerial == ASSUME Inv, SerialInv, Crash PROVE SerialInv'
<1>0. /\ draft \in [Comment -> DraftRecord] /\ review \in [Moderator -> ReviewRecord]
  BY Types DEF Inv
<1>1. UNCHANGED <<comment, report>>
  BY DEF Crash
<1>2. \A c \in Comment : draft'[c].pc = "decided" => draft'[c] = draft[c]
  BY <1>0 DEF Crash, NoDraft
<1>3. \A m \in Moderator : review'[m] = review[m] \/ review'[m].pc \in {"idle", "updated"}
  BY <1>0, Empty DEF Crash
<1>4. DecidedFit'
  BY <1>2 DEF SerialInv, DecidedFit
<1>. QED
  BY <1>1, <1>3, <1>4, QuietSerial


LEMMA ReviewStepsSerial ==
    ASSUME Inv, SerialInv, OneAtATime, NEW m \in Moderator,
           \/ \E r \in Report, to \in ReportStatus : BeginReview(m, r, to)
           \/ ReadComment(m) \/ CountOpen(m) \/ ReviewFails(m)
    PROVE  SerialInv'
<1>0. /\ review \in [Moderator -> ReviewRecord]
      /\ comment \in [Comment -> Status \cup {Absent, Deleted}]
      /\ UNCHANGED <<comment, report, draft>>
  BY Types DEF Inv, BeginReview, ReadComment, CountOpen, ReviewFails
<1>1. DecidedFit' /\ HiddenIsReported'
  BY <1>0 DEF SerialInv, DecidedFit, HiddenIsReported, OpenReports
<1>2. CASE ReviewFails(m) \/ \E r \in Report, to \in ReportStatus : BeginReview(m, r, to)
  <2>1. \A n \in Moderator : review'[n] = review[n] \/ review'[n].pc \in {"idle", "updated"}
    BY <1>0, <1>2, Empty DEF ReviewFails, BeginReview, NoReview
  <2>. QED
    BY <1>0, <1>1, <2>1, QuietSerial
<1>3. CASE ReadComment(m)
  <2>1. /\ review'[m].of = review[m].of /\ review'[m].pc = "read"
        /\ review'[m].seen = comment[Target[review[m].of]]
    BY <1>0, <1>3 DEF ReadComment, ReviewRecord
  <2>2. \A n \in Moderator : n = m
    BY DEF OneAtATime
  <2>3. ReviewsSee'
    BY <1>0, <2>1, <2>2 DEF ReviewsSee
  <2>. QED
    BY <1>1, <2>3 DEF SerialInv
<1>4. CASE CountOpen(m)
  <2>. DEFINE open == OpenReports(Target[review[m].of]) \ {review[m].of} # {}
  <2>1. /\ review' = [review EXCEPT ![m].pc = "counted", ![m].open = open]
        /\ review[m].pc = "read"
    BY <1>4 DEF CountOpen
  <2>2. /\ review'[m].of = review[m].of /\ review'[m].pc = "counted"
        /\ review'[m].seen = review[m].seen /\ review'[m].open = open
    BY <1>0, <2>1 DEF ReviewRecord
  <2>3. \A n \in Moderator : n = m
    BY DEF OneAtATime
  <2>4. \A c \in Comment : Others(m, c)' = Others(m, c)
    BY <1>0, <2>2 DEF Others, OpenReports
  <2>5. ASSUME NEW c \in Comment, c = Target[review[m].of]
        PROVE  /\ comment[c] = "HIDDEN" /\ review[m].seen # "HIDDEN" => Others(m, c) # {}
               /\ open => Others(m, c) # {}
               /\ review[m].seen = "HIDDEN" => comment[c] # "BANNED"
    BY <2>1, <2>5 DEF SerialInv, ReviewsSee, Others
  <2>. HIDE DEF open
  <2>6. ReviewsSee'
    BY <1>0, <2>2, <2>3, <2>4, <2>5 DEF ReviewsSee
  <2>. QED
    BY <1>1, <2>6 DEF SerialInv
<1>. QED
  BY <1>2, <1>3, <1>4

LEMMA CommitReviewSerial ==
    ASSUME Inv, SerialInv, OneAtATime, NEW m \in Moderator, CommitReview(m) PROVE SerialInv'
<1>. DEFINE of == review[m].of
            c == Target[of]
<1>1. /\ MayCommit(m) /\ report' = [report EXCEPT ![of] = review[m].to]
      /\ \/ Restores(m) /\ comment' = [comment EXCEPT ![c] = "VISIBLE"]
         \/ Bans(m) /\ comment' = [comment EXCEPT ![c] = "BANNED"]
         \/ ~Restores(m) /\ ~Bans(m) /\ UNCHANGED comment
      /\ review' = [review EXCEPT ![m] = NoReview] /\ UNCHANGED draft
  BY DEF CommitReview
<1>2. /\ comment \in [Comment -> Status \cup {Absent, Deleted}]
      /\ report \in [Report -> ReportStatus \cup {Absent, Deleted}]
      /\ review \in [Moderator -> ReviewRecord]
      /\ review[m].pc \in {"read", "counted"}
  BY <1>1, Types DEF Inv, MayCommit
<1>3. of \in Report /\ c \in Comment /\ review[m].to \in ReportStatus
  BY <1>2, Values DEF Inv, ReviewsFit
<1>4. DecidedFit'
  BY <1>1 DEF SerialInv, DecidedFit
<1>5. ReviewsSee'
  <2>1. \A n \in Moderator : review'[n].pc = "idle"
    BY <1>1, <1>2, Empty DEF OneAtATime
  <2>. QED
    BY <2>1 DEF ReviewsSee
<1>6. ASSUME NEW d \in Comment, d # c, comment'[d] = "HIDDEN" PROVE OpenReports(d)' # {}
  <2>1. comment[d] = "HIDDEN"
    BY <1>1, <1>2, <1>6
  <2>2. OpenReports(d) \subseteq OpenReports(d)'
    BY <1>1, <1>2, <1>6 DEF OpenReports
  <2>. QED
    BY <2>1, <2>2 DEF SerialInv, HiddenIsReported
<1>7. ASSUME comment'[c] = "HIDDEN", NEW d \in Comment, d = c PROVE OpenReports(d)' # {}
  <2>1. ~Restores(m) /\ ~Bans(m) /\ comment[c] = "HIDDEN"
    BY <1>1, <1>2, <1>3, <1>7
  <2>2. CASE review[m].to \in Open
    BY <1>1, <1>2, <1>3, <1>7, <2>2 DEF OpenReports
  <2>3. CASE review[m].to \notin Open
    <3>1. Others(m, d) # {}
      <4>1. /\ comment[d] = "HIDDEN" /\ review[m].seen # "HIDDEN" => Others(m, d) # {}
            /\ review[m].pc = "counted" /\ review[m].open => Others(m, d) # {}
        BY <1>2, <1>7 DEF SerialInv, ReviewsSee
      <4>2. CASE review[m].seen # "HIDDEN"
        BY <1>7, <2>1, <4>1, <4>2
      <4>3. CASE review[m].seen = "HIDDEN"
        <5>1. review[m].to = "DISMISSED"
          BY <1>3, <2>1, <2>3, <4>3 DEF Bans, Status, ReportStatus, Open
        <5>2. review[m].open /\ review[m].pc = "counted"
          BY <1>1, <2>1, <4>3, <5>1 DEF Restores, MayCommit
        <5>. QED
          BY <4>1, <5>2
      <4>. QED
        BY <4>2, <4>3
    <3>2. Others(m, d) \subseteq OpenReports(d)'
      BY <1>1, <1>2 DEF Others, OpenReports
    <3>. QED
      BY <3>1, <3>2
  <2>. QED
    BY <2>2, <2>3
<1>8. HiddenIsReported'
  BY <1>6, <1>7 DEF HiddenIsReported
<1>. QED
  BY <1>4, <1>5, <1>8 DEF SerialInv

LEMMA SerialKeeps ==
    ASSUME Inv, SerialInv, OneAtATime, [Next]_vars PROVE SerialInv'
<1>1. CASE UNCHANGED vars
  <2>1. /\ UNCHANGED <<comment, report, draft, review>>
    BY <1>1 DEF vars
  <2>2. DecidedFit'
    BY <2>1 DEF SerialInv, DecidedFit
  <2>. QED
    BY <2>1, <2>2, QuietSerial
<1>2. ASSUME NEW c \in Comment,
             \/ CheckUser(c) \/ ApplyPolicy(c) \/ CommitComment(c) \/ EmitCreated(c) \/ Remove(c)
             \/ \E status \in AuthorStatus : SetAuthorStatus(c, status)
      PROVE  SerialInv'
  BY <1>2, DraftStepsSerial
<1>3. ASSUME NEW r \in Report, FileReport(r) PROVE SerialInv'
  BY <1>3, ReportStepsSerial
<1>4. ASSUME NEW m \in Moderator,
             \/ \E r \in Report, to \in ReportStatus : BeginReview(m, r, to)
             \/ ReadComment(m) \/ CountOpen(m) \/ CommitReview(m) \/ ReviewFails(m)
      PROVE  SerialInv'
  BY <1>4, ReviewStepsSerial, CommitReviewSerial
<1>5. Editor = {} /\ Leaver = {}
  BY DEF OneAtATime
<1>. QED
  BY <1>1, <1>2, <1>3, <1>4, <1>5, CrashSerial DEF Next

LEMMA SerialInvariance == ASSUME OneAtATime PROVE Spec => []SerialInv
<1>1. Init => SerialInv
  BY DEF Init, SerialInv, DecidedFit, HiddenIsReported, ReviewsSee, NoDraft, NoReview, Absent
<1>2. Inv /\ SerialInv /\ [Next]_vars => SerialInv'
  BY SerialKeeps
<1>. QED
  BY <1>1, <1>2, Invariance, PTL DEF Spec

(* However many users report and write while the one moderator decides,    *)
(* and whoever dies midway, no comment is left hidden without an open      *)
(* report on it (docs/comment-moderation.md:57-60).                        *)
THEOREM HiddenAwaits ==
    ASSUME OneAtATime PROVE Spec => []HiddenAwaitsReview
<1>1. SerialInv => HiddenAwaitsReview
  BY DEF SerialInv, HiddenIsReported, HiddenAwaitsReview
<1>. QED
  BY <1>1, SerialInvariance, PTL

(* One moderator at a time never undoes a ban                              *)
(* (moderation-policy.service.ts:18).                                      *)
THEOREM BanIsFinal ==
    ASSUME OneAtATime PROVE Spec => BannedIsTerminal
<1>1. Inv /\ SerialInv /\ [Next]_vars => [\A c \in Comment :
          comment[c] = "BANNED" => comment'[c] \in {"BANNED", Deleted}]_vars
  <2>. SUFFICES ASSUME Inv, SerialInv, [Next]_vars, NEW c \in Comment, comment[c] = "BANNED",
                       comment'[c] \notin {"BANNED", Deleted}
                PROVE  FALSE
    OBVIOUS
  <2>0. comment \in [Comment -> Status \cup {Absent, Deleted}] /\ Absent # "BANNED"
    BY Types DEF Inv, Absent
  <2>1. ~CommitComment(c)
    BY <2>0 DEF CommitComment, Inv, DraftsFit, Unwritten
  <2>2. ~Remove(c)
    BY <2>0 DEF Remove
  <2>3. ASSUME NEW r \in Report, Target[r] = c, FileReport(r) PROVE FALSE
    BY <2>3 DEF FileReport
  <2>4. ASSUME NEW m \in Moderator, Target[review[m].of] = c, CommitReview(m) PROVE FALSE
    <3>1. review[m].seen = "HIDDEN" /\ review[m].pc \in {"read", "counted"}
      BY <2>0, <2>4 DEF CommitReview, MayCommit, Restores
    <3>. QED
      BY <2>4, <3>1 DEF SerialInv, ReviewsSee
  <2>5. Editor = {}
    BY DEF OneAtATime
  <2>. QED
    BY <2>1, <2>2, <2>3, <2>4, <2>5, CommentSteps
<1>. QED
  BY <1>1, SerialInvariance, Invariance, PTL DEF Spec, BannedIsTerminal


-----------------------------------------------------------------------------
(* What the tenant is told, where no status is set explicitly and no       *)
(* author's account changes.                                               *)

ToldFit == \A c \in Comment :
    /\ draft[c].pc = "decided" => /\ draft[c].status \in {"VISIBLE", "HIDDEN"}
                                  /\ draft[c].auto <=> draft[c].status = "HIDDEN"
    /\ draft[c].pc = "emit" => draft[c].status = "HIDDEN"
    /\ crashes = 0 /\ comment[c] \in {"HIDDEN", "BANNED"} /\ draft[c].pc # "emit" =>
           told[c] # "VISIBLE"

LEMMA ActivePolicyIs ==
    ASSUME NEW b \in BOOLEAN
    PROVE  /\ CreationPolicy("ACTIVE", b).status \in {"VISIBLE", "HIDDEN"}
           /\ CreationPolicy("ACTIVE", b).auto \in BOOLEAN
           /\ CreationPolicy("ACTIVE", b).auto <=> CreationPolicy("ACTIVE", b).status = "HIDDEN"
BY DEF CreationPolicy

LEMMA DraftStepsTell ==
    ASSUME Inv, ToldFit, AuthorStatus = {"ACTIVE"}, NEW c \in Comment,
           CheckUser(c) \/ ApplyPolicy(c) \/ CommitComment(c) \/ EmitCreated(c)
    PROVE  ToldFit'
<1>0. /\ draft \in [Comment -> DraftRecord] /\ told \in [Comment -> Status]
      /\ comment \in [Comment -> Status \cup {Absent, Deleted}] /\ author[c] = "ACTIVE"
      /\ UNCHANGED crashes
  BY Types DEF Inv, CheckUser, ApplyPolicy, CommitComment, EmitCreated
<1>1. \A d \in Comment \ {c} :
          draft'[d] = draft[d] /\ told'[d] = told[d] /\ comment'[d] = comment[d]
  BY <1>0 DEF CheckUser, ApplyPolicy, CommitComment, EmitCreated
<1>2. CASE CheckUser(c)
  <2>1. UNCHANGED <<comment, told>> /\ draft[c].pc = "start" /\ draft'[c].pc = "checked"
    BY <1>0, <1>2 DEF CheckUser, DraftRecord
  <2>. QED
    BY <1>0, <1>1, <2>1 DEF ToldFit
<1>3. CASE ApplyPolicy(c)
  <2>1. PICK b \in BOOLEAN :
            draft' = [draft EXCEPT ![c] =
                [pc |-> "decided", status |-> CreationPolicy("ACTIVE", b).status,
                 auto |-> CreationPolicy("ACTIVE", b).auto,
                 system |-> CreationPolicy("ACTIVE", b).system]]
    BY <1>0, <1>3 DEF ApplyPolicy
  <2>2. UNCHANGED <<comment, told>> /\ draft[c].pc = "checked"
    BY <1>3 DEF ApplyPolicy
  <2>3. /\ draft'[c].pc = "decided" /\ draft'[c].status = CreationPolicy("ACTIVE", b).status
        /\ draft'[c].auto = CreationPolicy("ACTIVE", b).auto
    BY <1>0, <2>1
  <2>. QED
    BY <1>0, <1>1, <2>2, <2>3, ActivePolicyIs DEF ToldFit
<1>4. CASE CommitComment(c)
  <2>1. /\ draft[c].pc = "decided" /\ comment'[c] = draft[c].status /\ UNCHANGED told
        /\ draft'[c].status = draft[c].status
        /\ draft'[c].pc = IF draft[c].auto THEN "emit" ELSE "done"
    BY <1>0, <1>4 DEF CommitComment, DraftRecord
  <2>. QED
    BY <1>0, <1>1, <2>1 DEF ToldFit
<1>5. CASE EmitCreated(c)
  <2>1. /\ draft[c].pc = "emit" /\ told'[c] = draft[c].status /\ draft'[c].pc = "done"
    BY <1>0, <1>5 DEF EmitCreated, DraftRecord
  <2>. QED
    BY <1>0, <1>1, <2>1 DEF ToldFit
<1>. QED
  BY <1>2, <1>3, <1>4, <1>5

LEMMA ToldKeeps ==
    ASSUME Inv, ToldFit, AuthorStatus = {"ACTIVE"}, Editor = {}, [Next]_vars PROVE ToldFit'
<1>0. /\ told \in [Comment -> Status]
      /\ comment \in [Comment -> Status \cup {Absent, Deleted}]
      /\ draft \in [Comment -> DraftRecord]
  BY Types DEF Inv
<1>1. ASSUME NEW r \in Report, FileReport(r) PROVE ToldFit'
  <2>1. /\ UNCHANGED <<draft, crashes>>
        /\ \/ /\ comment' = [comment EXCEPT ![Target[r]] = "HIDDEN"]
              /\ told' = [told EXCEPT ![Target[r]] = "HIDDEN"]
           \/ UNCHANGED <<comment, told>>
    BY <1>1 DEF FileReport
  <2>. QED
    BY <1>0, <2>1 DEF ToldFit
<1>2. ASSUME NEW m \in Moderator, CommitReview(m) PROVE ToldFit'
  <2>. DEFINE c == Target[review[m].of]
  <2>1. /\ UNCHANGED <<draft, crashes>>
        /\ \/ /\ comment' = [comment EXCEPT ![c] = "VISIBLE"]
              /\ told' = [told EXCEPT ![c] = "VISIBLE"]
           \/ /\ comment' = [comment EXCEPT ![c] = "BANNED"]
              /\ told' = [told EXCEPT ![c] = "BANNED"]
           \/ UNCHANGED <<comment, told>>
    BY <1>2 DEF CommitReview
  <2>. HIDE DEF c
  <2>. QED
    BY <1>0, <2>1 DEF ToldFit
<1>3. ASSUME NEW c \in Comment, Remove(c) PROVE ToldFit'
  BY <1>0, <1>3 DEF Remove, ToldFit, Deleted
<1>4. CASE UNCHANGED <<comment, draft, told, crashes>>
  BY <1>4 DEF ToldFit
<1>5. CASE Crash
  <2>1. /\ crashes' # 0 /\ UNCHANGED <<comment, told>>
        /\ \A c \in Comment : draft'[c] = draft[c] \/ draft'[c].pc = "done"
    <3>1. crashes \in Nat /\ crashes' = crashes + 1 /\ UNCHANGED <<comment, told>>
      BY ModerationAssumption, Types, <1>5 DEF Inv, Crash
    <3>2. \A c \in Comment : draft'[c] = draft[c] \/ draft'[c].pc = "done"
      BY <1>0, <1>5 DEF Crash, NoDraft
    <3>. QED
      BY <3>1, <3>2
  <2>. QED
    BY <2>1 DEF ToldFit
<1>6. ASSUME NEW m \in Moderator,
             \/ \E r \in Report, to \in ReportStatus : BeginReview(m, r, to)
             \/ ReadComment(m) \/ CountOpen(m) \/ ReviewFails(m)
      PROVE  UNCHANGED <<comment, draft, told, crashes>>
  BY <1>6 DEF BeginReview, ReadComment, CountOpen, ReviewFails
<1>7. ASSUME \/ UNCHANGED vars
             \/ \E u \in Leaver : CountOwnReports(u) \/ CommitDeletion(u)
             \/ \E c \in Comment, status \in AuthorStatus : SetAuthorStatus(c, status)
      PROVE  UNCHANGED <<comment, draft, told, crashes>>
  BY <1>7 DEF vars, CountOwnReports, CommitDeletion, SetAuthorStatus
<1>8. ASSUME NEW c \in Comment,
             CheckUser(c) \/ ApplyPolicy(c) \/ CommitComment(c) \/ EmitCreated(c)
      PROVE  ToldFit'
  BY <1>8, DraftStepsTell
<1>. QED
  BY <1>1, <1>2, <1>3, <1>4, <1>5, <1>6, <1>7, <1>8 DEF Next

(* Unless a handler dies between its commit and its event, no order of     *)
(* reports, decisions and late events leaves the tenant showing a comment  *)
(* the service took down, if no status is set explicitly and no author's   *)
(* account changes (comments.service.ts:185).                              *)
THEOREM HidingTold ==
    ASSUME AuthorStatus = {"ACTIVE"}, Editor = {}
    PROVE  Spec => []HidingIsToldUnlessCrash
<1>1. Init => ToldFit
  BY DEF Init, ToldFit, NoDraft, Absent
<1>2. Inv /\ ToldFit /\ [Next]_vars => ToldFit'
  BY ToldKeeps
<1>3. ToldFit => HidingIsToldUnlessCrash
  BY DEF ToldFit, HidingIsToldUnlessCrash, HidingIsTold, Idle
<1>. QED
  BY <1>1, <1>2, <1>3, Invariance, PTL DEF Spec
===============================================================================
