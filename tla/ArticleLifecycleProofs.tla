------------------------ MODULE ArticleLifecycleProofs ------------------------
(***************************************************************************)
(* Proofs about ArticleLifecycle, for any articles, reports, callers and   *)
(* moderators.  The invariant keeps, of each unfinished request, what it   *)
(* may rely on: a filing holds its article's lock and so knows its status; *)
(* a call only has the status it read, and that its change was legal then. *)
(***************************************************************************)
EXTENDS ArticleLifecycle, FiniteSetTheorems, TLAPS

CallsFit == \A u \in Caller : call[u].pc # "idle" =>
    /\ call[u].of \in Article /\ call[u].seen \in Status /\ call[u].to \in Status
    /\ call[u].seen = "PUBLISHED" => publishedAt[call[u].of]
    /\ call[u].pc = "update" => IsValidModerationTransition(call[u].seen, call[u].to)
    /\ call[u].pc = "hide" => call[u].seen \notin {"HIDDEN", "BANNED"}

ReviewsFit == \A m \in Moderator : review[m].pc # "idle" =>
    /\ review[m].of \in Report /\ review[m].to \in Decision
    /\ report[review[m].of] # Absent
    /\ review[m].pc = "updated" => review[m].seen = Absent

Holds(r) == filing[r].pc \in {"locked", "counted"}

(* The holder of an article's lock knows its status, and is the only one. *)
LocksFit ==
    /\ \A r \in Report : Holds(r) =>
           /\ filing[r].seen = status[Target[r]] /\ filing[r].seen # Absent
           /\ filing[r].pc = "counted" /\ filing[r].flag => filing[r].seen = "PUBLISHED"
           /\ report[r] = Absent
    /\ \A r, s \in Report : Holds(r) /\ Holds(s) /\ Target[r] = Target[s] => r = s

(* Nobody has filed a report before its filing started, and one that is    *)
(* counted has its state.                                                  *)
FilingsFit == \A r \in Report :
    /\ filing[r].pc = "start" => report[r] = Absent
    /\ filing[r].pc = "counted" => filing[r].as \in FiledAs

FinitelyMany == IsFiniteSet({r \in Report : report[r] # Absent})

Inv ==
    /\ TypeOK /\ CallsFit /\ ReviewsFit /\ LocksFit /\ FilingsFit
    /\ FinitelyMany /\ OneFirstPublication

-----------------------------------------------------------------------------
LEMMA Statuses ==
    /\ Absent \notin Status /\ Deleted \notin Status
    /\ {"DRAFT", "PUBLISHED", "UNDER_REVIEW", "HIDDEN", "BANNED"} \subseteq Status
    /\ Absent \notin Open /\ "PENDING" \in Open /\ Absent # Deleted
    /\ \A d \in FiledAs \cup Decision : d # Absent
BY ArticleAssumption DEF Status, Absent, Deleted, Open

(* What an event does to the tenant's view and to the publication date. *)
LEMMA EventEffects ==
    ASSUME TypeOK, NEW a \in Article, NEW old, NEW new, LifecycleEvent(a, old, new)
    PROVE  /\ publishedAt' \in [Article -> BOOLEAN] /\ online' \subseteq Article
           /\ firsts' \in [Article -> Nat]
           /\ \A b \in Article : publishedAt[b] => publishedAt'[b]
           /\ \A b \in Article \ {a} : /\ b \in online' <=> b \in online
                                       /\ publishedAt'[b] = publishedAt[b]
                                       /\ firsts'[b] = firsts[b]
           /\ new = "PUBLISHED" => a \in online' /\ publishedAt'[a]
           /\ new # "PUBLISHED" =>
                  /\ publishedAt'[a] = publishedAt[a] /\ firsts'[a] = firsts[a]
                  /\ a \in online' <=> a \in online /\ ~(old = "PUBLISHED" /\ publishedAt[a])
           /\ firsts[a] = (IF publishedAt[a] THEN 1 ELSE 0) =>
                  firsts'[a] = (IF publishedAt'[a] THEN 1 ELSE 0)
<1>1. CASE new = "PUBLISHED"
  <2>1. /\ publishedAt' = [publishedAt EXCEPT ![a] = TRUE]
        /\ online' = online \cup {a}
        /\ firsts' = IF publishedAt[a] THEN firsts ELSE [firsts EXCEPT ![a] = @ + 1]
    BY <1>1 DEF LifecycleEvent
  <2>2. firsts' \in [Article -> Nat]
    BY <2>1 DEF TypeOK
  <2>. QED
    BY <1>1, <2>1, <2>2 DEF TypeOK
<1>2. CASE new # "PUBLISHED"
  <2>1. /\ online' = IF old = "PUBLISHED" /\ publishedAt[a] THEN online \ {a} ELSE online
        /\ UNCHANGED <<publishedAt, firsts>>
    BY <1>2 DEF LifecycleEvent
  <2>. QED
    BY <1>2, <2>1 DEF TypeOK
<1>. QED
  BY <1>1, <1>2

(* A status is written, with its event or, if the event is left out,       *)
(* without making anything published that has no date.                     *)
LEMMA WriteKeeps ==
    ASSUME Inv, NEW a \in Article, NEW new \in Status \cup {Deleted}, NEW old,
           status' = [status EXCEPT ![a] = new],
           \/ LifecycleEvent(a, old, new)
           \/ /\ UNCHANGED <<publishedAt, firsts>> /\ online' \subseteq Article
              /\ new = "PUBLISHED" => publishedAt[a]
    PROVE  /\ status' \in [Article -> Status \cup {Absent, Deleted}]
           /\ publishedAt' \in [Article -> BOOLEAN] /\ online' \subseteq Article
           /\ firsts' \in [Article -> Nat]
           /\ OneFirstPublication'
           /\ \A b \in Article : publishedAt[b] => publishedAt'[b]
           /\ status'[a] = new /\ \A b \in Article \ {a} : status'[b] = status[b]
<1>1. status' \in [Article -> Status \cup {Absent, Deleted}]
      /\ status'[a] = new /\ \A b \in Article \ {a} : status'[b] = status[b]
  BY DEF Inv, TypeOK
<1>2. CASE LifecycleEvent(a, old, new)
  <2>1. TypeOK
    BY DEF Inv
  <2>2. /\ publishedAt' \in [Article -> BOOLEAN] /\ online' \subseteq Article
        /\ firsts' \in [Article -> Nat]
        /\ \A b \in Article : publishedAt[b] => publishedAt'[b]
        /\ \A b \in Article \ {a} : publishedAt'[b] = publishedAt[b] /\ firsts'[b] = firsts[b]
        /\ new = "PUBLISHED" => publishedAt'[a]
        /\ firsts[a] = (IF publishedAt[a] THEN 1 ELSE 0) =>
               firsts'[a] = (IF publishedAt'[a] THEN 1 ELSE 0)
    BY <1>2, <2>1, EventEffects
  <2>3. OneFirstPublication'
    BY <1>1, <2>2 DEF Inv, OneFirstPublication
  <2>. QED
    BY <1>1, <2>2, <2>3
<1>3. CASE /\ UNCHANGED <<publishedAt, firsts>> /\ online' \subseteq Article
           /\ new = "PUBLISHED" => publishedAt[a]
  <2>1. OneFirstPublication'
    BY <1>1, <1>3 DEF Inv, OneFirstPublication
  <2>. QED
    BY <1>1, <1>3, <2>1 DEF Inv, TypeOK
<1>. QED
  BY <1>2, <1>3

(* Nobody holds the lock of a row that others write. *)
LEMMA UnlockedWrite ==
    ASSUME Inv, NEW a \in Article, status[a] = Absent \/ ~Locked(a),
           \A b \in Article \ {a} : status'[b] = status[b],
           UNCHANGED <<filing, report>>
    PROVE  LocksFit'
<1>1. \A r \in Report : Target[r] \in Article
  BY ArticleAssumption
<1>2. \A r \in Report : Holds(r) => Target[r] # a
  BY DEF Inv, LocksFit, Locked, Holds
<1>. QED
  BY <1>1, <1>2 DEF Inv, LocksFit, Holds

-----------------------------------------------------------------------------
(* The steps. *)

LEMMA CreateKeeps ==
    ASSUME Inv, NEW a \in Article, NEW s \in Status, NEW b \in BOOLEAN, Create(a, s, b)
    PROVE  Inv'
<1>. DEFINE autoHidden == b /\ s \notin {"HIDDEN", "BANNED"}
            final == IF autoHidden THEN "HIDDEN" ELSE s
            old == IF autoHidden THEN s ELSE Absent
<1>1. /\ status[a] = Absent /\ status' = [status EXCEPT ![a] = final]
      /\ UNCHANGED <<report, filing, call, review>>
      /\ \/ LifecycleEvent(a, old, final)
         \/ final # "PUBLISHED" /\ UNCHANGED <<publishedAt, online, firsts>>
  BY DEF Create
<1>2. final \in Status
  BY Statuses
<1>3. online \subseteq Article
  BY DEF Inv, TypeOK
<1>. HIDE DEF final, old
<1>4. /\ status' \in [Article -> Status \cup {Absent, Deleted}]
      /\ publishedAt' \in [Article -> BOOLEAN] /\ online' \subseteq Article
      /\ firsts' \in [Article -> Nat]
      /\ OneFirstPublication'
      /\ \A c \in Article : publishedAt[c] => publishedAt'[c]
      /\ \A c \in Article \ {a} : status'[c] = status[c]
  BY <1>1, <1>2, <1>3, WriteKeeps
<1>5. TypeOK'
  BY <1>1, <1>4 DEF Inv, TypeOK
<1>6. CallsFit' /\ ReviewsFit' /\ FilingsFit' /\ FinitelyMany'
  BY <1>1, <1>4 DEF Inv, CallsFit, ReviewsFit, FilingsFit, FinitelyMany
<1>7. LocksFit'
  BY <1>1, <1>4, UnlockedWrite
<1>. QED
  BY <1>4, <1>5, <1>6, <1>7 DEF Inv

LEMMA RemoveKeeps ==
    ASSUME Inv, NEW a \in Article, Remove(a) PROVE Inv'
<1>1. /\ ~Locked(a) /\ status' = [status EXCEPT ![a] = Deleted] /\ online' = online \ {a}
      /\ UNCHANGED <<publishedAt, report, filing, call, review, firsts>>
  BY DEF Remove
<1>2. online' \subseteq Article /\ Deleted # "PUBLISHED"
  BY <1>1 DEF Inv, TypeOK, Deleted
<1>3. /\ status' \in [Article -> Status \cup {Absent, Deleted}]
      /\ OneFirstPublication'
      /\ \A c \in Article \ {a} : status'[c] = status[c]
  BY <1>1, <1>2, WriteKeeps
<1>4. TypeOK'
  BY <1>1, <1>2, <1>3 DEF Inv, TypeOK
<1>5. CallsFit' /\ ReviewsFit' /\ FilingsFit' /\ FinitelyMany'
  BY <1>1 DEF Inv, CallsFit, ReviewsFit, FilingsFit, FinitelyMany
<1>6. LocksFit'
  BY <1>1, <1>3, UnlockedWrite
<1>. QED
  BY <1>3, <1>4, <1>5, <1>6 DEF Inv

(* A call reads, or ends without writing. *)
LEMMA CallStepKeeps ==
    ASSUME Inv, NEW u \in Caller,
           \/ CallFails(u) \/ Crash(u)
           \/ \E a \in Article : ReadForHide(u, a)
           \/ \E a \in Article, to \in Status : ReadForUpdate(u, a, to)
    PROVE  Inv'
<1>0. UNCHANGED <<status, publishedAt, report, filing, review, online, firsts>>
  BY DEF CallFails, Crash, ReadForHide, ReadForUpdate
<1>1. call' \in [Caller -> [pc : {"idle", "update", "hide"}, of : Article \cup {Absent},
                            seen : Status \cup {Absent}, to : Status \cup {Absent}]]
      /\ CallsFit'
  <2>1. CASE CallFails(u) \/ Crash(u)
    <3>1. call' = [call EXCEPT ![u] = NoCall]
      BY <2>1 DEF CallFails, Crash
    <3>. QED
      BY <1>0, <3>1 DEF Inv, TypeOK, CallsFit, NoCall
  <2>2. ASSUME NEW a \in Article, ReadForHide(u, a) PROVE <1>1!:
    <3>1. /\ call' = [call EXCEPT ![u] =
                 [pc |-> "hide", of |-> a, seen |-> status[a], to |-> "HIDDEN"]]
          /\ status[a] \in Status /\ status[a] \notin {"HIDDEN", "BANNED"}
          /\ "HIDDEN" \in Status
      BY <2>2, Statuses DEF ReadForHide, Exists
    <3>2. status[a] = "PUBLISHED" => publishedAt[a]
      BY DEF Inv, OneFirstPublication
    <3>. QED
      BY <1>0, <3>1, <3>2 DEF Inv, TypeOK, CallsFit
  <2>3. ASSUME NEW a \in Article, NEW to \in Status, ReadForUpdate(u, a, to) PROVE <1>1!:
    <3>1. /\ call' = [call EXCEPT ![u] =
                 [pc |-> "update", of |-> a, seen |-> status[a], to |-> to]]
          /\ status[a] \in Status /\ IsValidModerationTransition(status[a], to)
      BY <2>3 DEF ReadForUpdate, Exists
    <3>2. status[a] = "PUBLISHED" => publishedAt[a]
      BY DEF Inv, OneFirstPublication
    <3>. QED
      BY <1>0, <3>1, <3>2 DEF Inv, TypeOK, CallsFit
  <2>. QED
    BY <2>1, <2>2, <2>3
<1>2. TypeOK'
  BY <1>0, <1>1 DEF Inv, TypeOK
<1>3. ReviewsFit' /\ FilingsFit' /\ FinitelyMany' /\ OneFirstPublication'
  BY <1>0 DEF Inv, ReviewsFit, FilingsFit, FinitelyMany, OneFirstPublication
<1>4. LocksFit'
  BY <1>0 DEF Inv, LocksFit, Holds
<1>. QED
  BY <1>1, <1>2, <1>3, <1>4 DEF Inv

(* A call writes over whatever the status is by now. *)
LEMMA CallCommitKeeps ==
    ASSUME Inv, NEW u \in Caller, CommitUpdate(u) \/ CommitHide(u) PROVE Inv'
<1>. DEFINE a == call[u].of
            new == IF call[u].pc = "hide" THEN "HIDDEN" ELSE call[u].to
            old == call[u].seen
<1>1. /\ call[u].pc # "idle" /\ Exists(a) /\ ~Locked(a)
      /\ status' = [status EXCEPT ![a] = new]
      /\ \/ LifecycleEvent(a, old, new)
         \/ new = old /\ UNCHANGED <<publishedAt, online, firsts>>
      /\ call' = [call EXCEPT ![u] = NoCall]
      /\ UNCHANGED <<report, filing, review>>
  BY DEF CommitUpdate, CommitHide
<1>2. /\ a \in Article /\ new \in Status /\ (old = "PUBLISHED" => publishedAt[a])
      /\ online \subseteq Article
  BY <1>1, Statuses DEF Inv, TypeOK, CallsFit
<1>. HIDE DEF new, old, a
<1>3. /\ status' \in [Article -> Status \cup {Absent, Deleted}]
      /\ publishedAt' \in [Article -> BOOLEAN] /\ online' \subseteq Article
      /\ firsts' \in [Article -> Nat]
      /\ OneFirstPublication'
      /\ \A c \in Article : publishedAt[c] => publishedAt'[c]
      /\ \A c \in Article \ {a} : status'[c] = status[c]
  BY <1>1, <1>2, WriteKeeps
<1>4. call' \in [Caller -> [pc : {"idle", "update", "hide"}, of : Article \cup {Absent},
                            seen : Status \cup {Absent}, to : Status \cup {Absent}]]
      /\ CallsFit'
  BY <1>1, <1>3 DEF Inv, TypeOK, CallsFit, NoCall
<1>5. TypeOK'
  BY <1>1, <1>3, <1>4 DEF Inv, TypeOK
<1>6. ReviewsFit' /\ FilingsFit' /\ FinitelyMany'
  BY <1>1 DEF Inv, ReviewsFit, FilingsFit, FinitelyMany
<1>7. LocksFit'
  BY <1>1, <1>2, <1>3, UnlockedWrite
<1>. QED
  BY <1>3, <1>4, <1>5, <1>6, <1>7 DEF Inv

FilingRecord == [pc : {"start", "locked", "counted", "done"},
                 seen : Status \cup {Absent, Deleted},
                 as : FiledAs \cup {Absent}, flag : BOOLEAN]

LEMMA LockKeeps ==
    ASSUME Inv, NEW r \in Report, LockArticle(r) PROVE Inv'
<1>. DEFINE a == Target[r]
            f == [NoFiling EXCEPT !.pc = "locked", !.seen = status[a]]
<1>1. /\ filing[r].pc = "start" /\ status[a] # Absent /\ ~Locked(a)
      /\ filing' = [filing EXCEPT ![r] = f]
      /\ UNCHANGED <<status, publishedAt, report, call, review, online, firsts>>
  BY DEF LockArticle
<1>2. a \in Article /\ f \in FilingRecord /\ filing \in [Report -> FilingRecord]
      /\ f.pc = "locked" /\ f.seen = status[a]
  BY ArticleAssumption DEF Inv, TypeOK, NoFiling, FilingRecord
<1>. HIDE DEF f
<1>3. filing' \in [Report -> FilingRecord] /\ filing'[r] = f
      /\ \A s \in Report \ {r} : filing'[s] = filing[s]
  BY <1>1, <1>2
<1>4. TypeOK'
  BY <1>1, <1>3 DEF Inv, TypeOK, FilingRecord
<1>5. FilingsFit'
  BY <1>1, <1>2, <1>3 DEF Inv, FilingsFit
<1>6. CallsFit' /\ ReviewsFit' /\ FinitelyMany' /\ OneFirstPublication'
  BY <1>1 DEF Inv, CallsFit, ReviewsFit, FinitelyMany, OneFirstPublication
<1>7. LocksFit'
  <2>1. \A s \in Report : Holds(s) => Target[s] # a
    BY <1>1 DEF Locked, Holds
  <2>2. report[r] = Absent
    BY <1>1 DEF Inv, FilingsFit
  <2>. QED
    BY <1>1, <1>2, <1>3, <2>1, <2>2 DEF Inv, LocksFit, Holds
<1>. QED
  BY <1>4, <1>5, <1>6, <1>7 DEF Inv

LEMMA CountKeeps ==
    ASSUME Inv, NEW r \in Report, NEW as \in FiledAs, CountReports(r, as) PROVE Inv'
<1>. DEFINE flag == /\ filing[r].seen = "PUBLISHED"
                    /\ Cardinality(OpenWith(r, as)) >= Threshold
            f == [filing[r] EXCEPT !.pc = "counted", !.as = as, !.flag = flag]
<1>1. /\ filing[r].pc = "locked"
      /\ filing' = [filing EXCEPT ![r] = f]
      /\ UNCHANGED <<status, publishedAt, report, call, review, online, firsts>>
  BY DEF CountReports
<1>2. filing \in [Report -> FilingRecord] /\ flag \in BOOLEAN
      /\ (flag => filing[r].seen = "PUBLISHED")
  BY DEF Inv, TypeOK, FilingRecord
<1>. HIDE DEF flag
<1>3. /\ filing' \in [Report -> FilingRecord]
      /\ filing'[r].pc = "counted" /\ filing'[r].as = as
      /\ filing'[r].flag = flag /\ filing'[r].seen = filing[r].seen
      /\ \A s \in Report \ {r} : filing'[s] = filing[s]
  <2>1. f \in FilingRecord /\ f.pc = "counted" /\ f.as = as /\ f.flag = flag
        /\ f.seen = filing[r].seen
    BY <1>2 DEF FilingRecord
  <2>. HIDE DEF f
  <2>. QED
    BY <1>1, <1>2, <2>1
<1>. HIDE DEF f
<1>4. TypeOK'
  BY <1>1, <1>3 DEF Inv, TypeOK, FilingRecord
<1>5. FilingsFit'
  BY <1>1, <1>2, <1>3 DEF Inv, FilingsFit
<1>6. CallsFit' /\ ReviewsFit' /\ FinitelyMany' /\ OneFirstPublication'
  BY <1>1 DEF Inv, CallsFit, ReviewsFit, FinitelyMany, OneFirstPublication
<1>7. LocksFit'
  BY <1>1, <1>2, <1>3 DEF Inv, LocksFit, Holds
<1>. QED
  BY <1>4, <1>5, <1>6, <1>7 DEF Inv

(* The lock is given up with the commit: no other filing has it. *)
LEMMA CommitReportKeeps ==
    ASSUME Inv, NEW r \in Report, CommitReport(r) PROVE Inv'
<1>. DEFINE a == Target[r]
            done == [NoFiling EXCEPT !.pc = "done"]
<1>1. /\ filing[r].pc = "counted"
      /\ report' = [report EXCEPT ![r] = filing[r].as]
      /\ filing' = [filing EXCEPT ![r] = done]
      /\ UNCHANGED <<call, review>>
  BY DEF CommitReport
<1>2. /\ a \in Article /\ filing \in [Report -> FilingRecord]
      /\ report \in [Report -> FiledAs \cup Decision \cup {Absent}]
      /\ status \in [Article -> Status \cup {Absent, Deleted}]
      /\ online \subseteq Article
      /\ filing[r].as \in FiledAs
  BY <1>1, ArticleAssumption DEF Inv, TypeOK, FilingsFit, FilingRecord
<1>3. done \in FilingRecord /\ done.pc = "done"
  BY DEF NoFiling, FilingRecord
<1>4. /\ filing' \in [Report -> FilingRecord] /\ filing'[r].pc = "done"
      /\ \A s \in Report \ {r} : filing'[s] = filing[s]
      /\ report' \in [Report -> FiledAs \cup Decision \cup {Absent}]
      /\ report'[r] # Absent /\ \A s \in Report \ {r} : report'[s] = report[s]
  BY <1>1, <1>2, <1>3, Statuses
<1>5. /\ status' \in [Article -> Status \cup {Absent, Deleted}]
      /\ publishedAt' \in [Article -> BOOLEAN] /\ online' \subseteq Article
      /\ firsts' \in [Article -> Nat]
      /\ OneFirstPublication'
      /\ \A c \in Article : publishedAt[c] => publishedAt'[c]
      /\ \A c \in Article \ {a} : status'[c] = status[c]
  <2>1. CASE filing[r].flag
    <3>1. /\ status' = [status EXCEPT ![a] = "UNDER_REVIEW"]
          /\ LifecycleEvent(a, "PUBLISHED", "UNDER_REVIEW")
      BY <2>1 DEF CommitReport
    <3>. QED
      BY <1>2, <3>1, Statuses, WriteKeeps
  <2>2. CASE ~filing[r].flag
    BY <1>2, <2>2 DEF CommitReport, Inv, TypeOK, OneFirstPublication
  <2>. QED
    BY <2>1, <2>2
<1>6. TypeOK'
  BY <1>1, <1>4, <1>5 DEF Inv, TypeOK, FilingRecord
<1>7. CallsFit'
  BY <1>1, <1>5 DEF Inv, CallsFit
<1>8. ReviewsFit'
  BY <1>1, <1>4, Statuses DEF Inv, ReviewsFit, Absent
<1>9. FilingsFit'
  BY <1>4 DEF Inv, FilingsFit
<1>10. FinitelyMany'
  <2>. DEFINE old == {s \in Report : report[s] # Absent}
              new == {s \in Report : report'[s] # Absent}
  <2>1. new \subseteq old \cup {r}
    BY <1>4
  <2>2. IsFiniteSet(old)
    BY DEF Inv, FinitelyMany
  <2>. HIDE DEF old, new
  <2>3. IsFiniteSet(old \cup {r})
    BY <2>2, FS_AddElement
  <2>4. IsFiniteSet(new)
    BY <2>1, <2>3, FS_Subset
  <2>. QED
    BY <2>4 DEF new, FinitelyMany
<1>11. LocksFit'
  <2>1. \A s \in Report : Target[s] \in Article
    BY ArticleAssumption
  <2>2. \A s \in Report \ {r} : Holds(s) => Target[s] # a
    BY <1>1 DEF Inv, LocksFit, Holds
  <2>. QED
    BY <1>1, <1>4, <1>5, <2>1, <2>2 DEF Inv, LocksFit, Holds
<1>. QED
  BY <1>5, <1>6, <1>7, <1>8, <1>9, <1>10, <1>11 DEF Inv

ReviewRecord == [pc : {"idle", "updated", "read", "counted"},
                 of : Report \cup {Absent}, to : Decision \cup {Absent},
                 seen : Status \cup {Absent, Deleted}, open : BOOLEAN]

(* A review reads, or ends without writing. *)
LEMMA ReviewStepKeeps ==
    ASSUME Inv, NEW m \in Moderator,
           \/ ReadArticle(m) \/ CountOpen(m) \/ ReviewFails(m)
           \/ \E r \in Report, to \in Decision : BeginReview(m, r, to)
    PROVE  Inv'
<1>0. UNCHANGED <<status, publishedAt, report, filing, call, online, firsts>>
  BY DEF ReadArticle, CountOpen, ReviewFails, BeginReview
<1>1. review \in [Moderator -> ReviewRecord] /\ NoReview \in ReviewRecord /\ NoReview.pc = "idle"
      /\ status \in [Article -> Status \cup {Absent, Deleted}]
  BY DEF Inv, TypeOK, ReviewRecord, NoReview
<1>2. \E y \in ReviewRecord :
          /\ review' = [review EXCEPT ![m] = y]
          /\ y.pc # "idle" => y.of \in Report /\ y.to \in Decision /\ report[y.of] # Absent
          /\ y.pc = "updated" => y.seen = Absent
  <2>1. CASE ReadArticle(m)
    <3>. DEFINE seen == status[Target[review[m].of]]
                y == [review[m] EXCEPT !.pc = "read", !.seen = seen]
    <3>1. /\ review[m].pc # "idle"
          /\ review' = [review EXCEPT ![m].pc = "read", ![m].seen = seen]
      BY <2>1 DEF ReadArticle
    <3>2. /\ review[m].of \in Report /\ review[m].to \in Decision
          /\ report[review[m].of] # Absent
      BY <3>1 DEF Inv, ReviewsFit
    <3>3. seen \in Status \cup {Absent, Deleted}
      BY <1>1, <3>2, ArticleAssumption
    <3>. HIDE DEF seen
    <3>4. y \in ReviewRecord /\ y.of = review[m].of /\ y.to = review[m].to /\ y.pc = "read"
      BY <1>1, <3>3 DEF ReviewRecord
    <3>5. review' = [review EXCEPT ![m] = y]
      BY <1>1, <3>1
    <3>. HIDE DEF y
    <3>. QED
      BY <3>2, <3>4, <3>5
  <2>2. CASE CountOpen(m)
    <3>. DEFINE open == OpenReports(Target[review[m].of]) \ {review[m].of} # {}
                y == [review[m] EXCEPT !.pc = "counted", !.open = open]
    <3>1. /\ review[m].pc # "idle"
          /\ review' = [review EXCEPT ![m].pc = "counted", ![m].open = open]
      BY <2>2 DEF CountOpen
    <3>2. /\ review[m].of \in Report /\ review[m].to \in Decision
          /\ report[review[m].of] # Absent
      BY <3>1 DEF Inv, ReviewsFit
    <3>3. open \in BOOLEAN
      OBVIOUS
    <3>. HIDE DEF open
    <3>4. y \in ReviewRecord /\ y.of = review[m].of /\ y.to = review[m].to /\ y.pc = "counted"
      BY <1>1, <3>3 DEF ReviewRecord
    <3>5. review' = [review EXCEPT ![m] = y]
      BY <1>1, <3>1
    <3>. HIDE DEF y
    <3>. QED
      BY <3>2, <3>4, <3>5
  <2>3. CASE ReviewFails(m)
    BY <1>1, <2>3 DEF ReviewFails
  <2>4. ASSUME NEW r \in Report, NEW to \in Decision, BeginReview(m, r, to) PROVE <1>2!:
    <3>. DEFINE y == [NoReview EXCEPT !.pc = "updated", !.of = r, !.to = to]
    <3>1. y \in ReviewRecord /\ y.of = r /\ y.to = to /\ y.seen = Absent
      BY DEF NoReview, ReviewRecord
    <3>2. report[r] # Absent /\ review' = [review EXCEPT ![m] = y]
      BY <2>4 DEF BeginReview
    <3>. HIDE DEF y
    <3>. QED
      BY <3>1, <3>2
  <2>. QED
    BY <2>1, <2>2, <2>3, <2>4
<1>3. PICK y \in ReviewRecord :
          /\ review' = [review EXCEPT ![m] = y]
          /\ y.pc # "idle" => y.of \in Report /\ y.to \in Decision /\ report[y.of] # Absent
          /\ y.pc = "updated" => y.seen = Absent
  BY <1>2
<1>4. review' \in [Moderator -> ReviewRecord]
  BY <1>1, <1>3
<1>5. ReviewsFit'
  BY <1>0, <1>1, <1>3 DEF Inv, ReviewsFit
<1>6. TypeOK'
  BY <1>0, <1>4 DEF Inv, TypeOK, ReviewRecord
<1>7. CallsFit' /\ FilingsFit' /\ FinitelyMany' /\ OneFirstPublication'
  BY <1>0 DEF Inv, CallsFit, FilingsFit, FinitelyMany, OneFirstPublication
<1>8. LocksFit'
  BY <1>0 DEF Inv, LocksFit, Holds
<1>. QED
  BY <1>5, <1>6, <1>7, <1>8 DEF Inv

(* A decision, with the restoration that a dismissal may bring.            *)
LEMMA CommitReviewKeeps ==
    ASSUME Inv, NEW m \in Moderator, CommitReview(m) PROVE Inv'
<1>. DEFINE q == review[m].of
            a == Target[q]
            to == review[m].to
<1>1. /\ review[m].pc # "idle"
      /\ report' = [report EXCEPT ![q] = to]
      /\ review' = [review EXCEPT ![m] = NoReview]
      /\ UNCHANGED <<filing, call>>
  BY DEF CommitReview
<1>2. /\ q \in Report /\ to \in Decision /\ report[q] # Absent
      /\ review \in [Moderator -> ReviewRecord] /\ NoReview \in ReviewRecord
      /\ NoReview.pc = "idle"
      /\ report \in [Report -> FiledAs \cup Decision \cup {Absent}]
      /\ online \subseteq Article
  BY <1>1 DEF Inv, TypeOK, ReviewsFit, ReviewRecord, NoReview
<1>3. a \in Article /\ to # Absent
  BY <1>2, Statuses, ArticleAssumption
<1>. HIDE DEF a, q, to
<1>4. /\ report' \in [Report -> FiledAs \cup Decision \cup {Absent}]
      /\ \A s \in Report : report'[s] # Absent <=> report[s] # Absent
      /\ review' \in [Moderator -> ReviewRecord]
  BY <1>1, <1>2, <1>3
<1>5. /\ status' \in [Article -> Status \cup {Absent, Deleted}]
      /\ publishedAt' \in [Article -> BOOLEAN] /\ online' \subseteq Article
      /\ firsts' \in [Article -> Nat]
      /\ OneFirstPublication'
      /\ \A c \in Article : publishedAt[c] => publishedAt'[c]
      /\ \/ UNCHANGED status
         \/ ~Locked(a) /\ \A c \in Article \ {a} : status'[c] = status[c]
  <2>1. CASE Restores(m)
    <3>1. /\ ~Locked(a) /\ status' = [status EXCEPT ![a] = "PUBLISHED"]
          /\ LifecycleEvent(a, "UNDER_REVIEW", "PUBLISHED")
      BY <2>1 DEF CommitReview, a, q
    <3>. QED
      BY <1>2, <1>3, <3>1, Statuses, WriteKeeps
  <2>2. CASE ~Restores(m)
    BY <2>2 DEF CommitReview, Inv, TypeOK, OneFirstPublication
  <2>. QED
    BY <2>1, <2>2
<1>6. TypeOK'
  BY <1>1, <1>4, <1>5 DEF Inv, TypeOK, ReviewRecord
<1>7. CallsFit'
  BY <1>1, <1>5 DEF Inv, CallsFit
<1>8. ReviewsFit'
  BY <1>1, <1>2, <1>4 DEF Inv, ReviewsFit
<1>9. FilingsFit'
  BY <1>1, <1>4 DEF Inv, FilingsFit
<1>10. FinitelyMany'
  <2>1. {s \in Report : report'[s] # Absent} = {s \in Report : report[s] # Absent}
    BY <1>4
  <2>. QED
    BY <2>1 DEF Inv, FinitelyMany
<1>11. LocksFit'
  <2>1. \A r \in Report : Target[r] \in Article
    BY ArticleAssumption
  <2>2. \A r \in Report : Holds(r) => status'[Target[r]] = status[Target[r]]
    BY <1>5, <2>1 DEF Locked, Holds
  <2>. QED
    BY <1>1, <1>4, <2>2 DEF Inv, LocksFit, Holds
<1>. QED
  BY <1>5, <1>6, <1>7, <1>8, <1>9, <1>10, <1>11 DEF Inv

-----------------------------------------------------------------------------
LEMMA InitInv == Init => Inv
<1>. SUFFICES ASSUME Init PROVE Inv
  OBVIOUS
<1>1. TypeOK
  BY DEF Init, TypeOK, NoFiling, NoCall, NoReview
<1>2. CallsFit /\ ReviewsFit /\ LocksFit /\ FilingsFit
  BY DEF Init, CallsFit, ReviewsFit, LocksFit, FilingsFit, Holds, NoFiling, NoCall, NoReview
<1>3. FinitelyMany
  <2>1. {r \in Report : report[r] # Absent} = {}
    BY DEF Init
  <2>. QED
    BY <2>1, FS_EmptySet DEF FinitelyMany
<1>4. OneFirstPublication
  BY DEF Init, OneFirstPublication, Absent
<1>. QED
  BY <1>1, <1>2, <1>3, <1>4 DEF Inv

LEMMA NextInv == Inv /\ [Next]_vars => Inv'
<1>. SUFFICES ASSUME Inv, [Next]_vars PROVE Inv'
  OBVIOUS
<1>1. CASE UNCHANGED vars
  BY <1>1 DEF Inv, vars, TypeOK, CallsFit, ReviewsFit, LocksFit, Holds, FilingsFit,
              FinitelyMany, OneFirstPublication
<1>2. ASSUME NEW a \in Article, \/ \E s \in Status, b \in BOOLEAN : Create(a, s, b)
                                \/ Remove(a)
      PROVE  Inv'
  BY <1>2, CreateKeeps, RemoveKeeps
<1>3. ASSUME NEW u \in Caller,
             \/ \E a \in Article, to \in Status : ReadForUpdate(u, a, to)
             \/ \E a \in Article : ReadForHide(u, a)
             \/ CommitUpdate(u) \/ CommitHide(u) \/ CallFails(u) \/ Crash(u)
      PROVE  Inv'
  BY <1>3, CallStepKeeps, CallCommitKeeps
<1>4. ASSUME NEW r \in Report, LockArticle(r) \/ CommitReport(r) \/ \E as \in FiledAs : CountReports(r, as)
      PROVE  Inv'
  BY <1>4, LockKeeps, CountKeeps, CommitReportKeeps
<1>5. ASSUME NEW m \in Moderator,
             \/ \E r \in Report, to \in Decision : BeginReview(m, r, to)
             \/ ReadArticle(m) \/ CountOpen(m) \/ CommitReview(m) \/ ReviewFails(m)
      PROVE  Inv'
  BY <1>5, ReviewStepKeeps, CommitReviewKeeps
<1>. QED
  BY <1>1, <1>2, <1>3, <1>4, <1>5 DEF Next

LEMMA Invariance == Spec => []Inv
<1>. QED
  BY InitInv, NextInv, PTL DEF Spec

(* Articles keep the statuses of their enum, and requests the statuses     *)
(* they read (articles.service.ts:541).                                    *)
THEOREM TypeCorrect == Spec => []TypeOK
<1>1. Inv => TypeOK
  BY DEF Inv
<1>. QED
  BY <1>1, Invariance, PTL

(* However many publish at once, one sees the first publication            *)
(* (webhook-event-publisher.service.ts:139), and what is published has its *)
(* date.                                                                   *)
THEOREM FirstPublicationIsOne == Spec => []OneFirstPublication
<1>1. Inv => OneFirstPublication
  BY DEF Inv
<1>. QED
  BY <1>1, Invariance, PTL

-----------------------------------------------------------------------------
(* What the writers do to a row, for the action properties: only these     *)
(* actions change a status or what the site shows.                         *)

QuietStep == UNCHANGED <<status, online>>

LEMMA QuietSteps ==
    ASSUME [Next]_vars,
           ~ \E a \in Article : \/ \E s \in Status, b \in BOOLEAN : Create(a, s, b)
                                \/ Remove(a),
           ~ \E u \in Caller : CommitUpdate(u) \/ CommitHide(u),
           ~ \E r \in Report : CommitReport(r),
           ~ \E m \in Moderator : CommitReview(m)
    PROVE  QuietStep /\ UNCHANGED report
<1>1. CASE UNCHANGED vars
  BY <1>1 DEF vars, QuietStep
<1>2. ASSUME NEW u \in Caller,
             \/ \E a \in Article, to \in Status : ReadForUpdate(u, a, to)
             \/ \E a \in Article : ReadForHide(u, a)
             \/ CallFails(u) \/ Crash(u)
      PROVE  QuietStep /\ UNCHANGED report
  BY <1>2 DEF ReadForUpdate, ReadForHide, CallFails, Crash, QuietStep
<1>3. ASSUME NEW r \in Report, LockArticle(r) \/ \E as \in FiledAs : CountReports(r, as)
      PROVE  QuietStep /\ UNCHANGED report
  BY <1>3 DEF LockArticle, CountReports, QuietStep
<1>4. ASSUME NEW m \in Moderator,
             \/ \E r \in Report, to \in Decision : BeginReview(m, r, to)
             \/ ReadArticle(m) \/ CountOpen(m) \/ ReviewFails(m)
      PROVE  QuietStep /\ UNCHANGED report
  BY <1>4 DEF BeginReview, ReadArticle, CountOpen, ReviewFails, QuietStep
<1>. QED
  BY <1>1, <1>2, <1>3, <1>4 DEF Next

(* A row that is not the one written is as it was. *)
LEMMA OtherRows ==
    ASSUME TypeOK, NEW a \in Article, NEW b \in Article \ {a}, NEW old, NEW new,
           status' = [status EXCEPT ![a] = new],
           LifecycleEvent(a, old, new) \/ UNCHANGED online
    PROVE  status'[b] = status[b] /\ (b \in online' <=> b \in online)
BY EventEffects DEF TypeOK

LEMMA WrittenRow ==
    ASSUME Inv, NEW a \in Article, NEW old, NEW new, Agrees(a),
           status' = [status EXCEPT ![a] = new],
           \/ LifecycleEvent(a, old, new) /\ (old = "PUBLISHED" <=> status[a] = "PUBLISHED")
           \/ UNCHANGED online /\ (new = "PUBLISHED" <=> status[a] = "PUBLISHED")
    PROVE  Agrees(a)'
<1>1. status'[a] = new
  BY DEF Inv, TypeOK
<1>2. TypeOK /\ (status[a] = "PUBLISHED" => publishedAt[a])
  BY DEF Inv, OneFirstPublication
<1>3. CASE LifecycleEvent(a, old, new) /\ (old = "PUBLISHED" <=> status[a] = "PUBLISHED")
  <2>1. /\ new = "PUBLISHED" => a \in online'
        /\ new # "PUBLISHED" =>
               (a \in online' <=> a \in online /\ ~(old = "PUBLISHED" /\ publishedAt[a]))
    BY <1>2, <1>3, EventEffects
  <2>. QED
    BY <1>1, <1>2, <1>3, <2>1 DEF Agrees
<1>4. CASE UNCHANGED online /\ (new = "PUBLISHED" <=> status[a] = "PUBLISHED")
  BY <1>1, <1>4 DEF Agrees
<1>. QED
  BY <1>3, <1>4

LEMMA AgreesStep ==
    ASSUME Inv, [Next]_vars, NEW a \in Article, Agrees(a)
    PROVE  Agrees(a)' \/ StaleCommit(a)
<1>0. TypeOK /\ \A r \in Report : Target[r] \in Article
  BY ArticleAssumption DEF Inv
<1>1. ASSUME NEW c \in Article, NEW s \in Status, NEW b \in BOOLEAN, Create(c, s, b)
      PROVE  Agrees(a)'
  <2>. DEFINE autoHidden == b /\ s \notin {"HIDDEN", "BANNED"}
              final == IF autoHidden THEN "HIDDEN" ELSE s
              old == IF autoHidden THEN s ELSE Absent
  <2>1. /\ status[c] = Absent /\ status' = [status EXCEPT ![c] = final]
        /\ \/ LifecycleEvent(c, old, final)
           \/ final # "PUBLISHED" /\ UNCHANGED online
        /\ autoHidden => final = "HIDDEN"
        /\ ~autoHidden => old = Absent
    BY <1>1 DEF Create
  <2>. HIDE DEF final, old
  <2>2. CASE c # a
    BY <1>0, <2>1, <2>2, OtherRows DEF Agrees
  <2>3. CASE c = a
    <3>1. a \notin online /\ status[a] # "PUBLISHED" /\ Absent # "PUBLISHED"
      BY <2>1, <2>3 DEF Agrees, Absent
    <3>2. CASE LifecycleEvent(a, old, final)
      <4>1. /\ final = "PUBLISHED" => a \in online'
            /\ final # "PUBLISHED" => (a \in online' => a \in online)
        BY <1>0, <3>2, EventEffects
      <4>2. status'[a] = final
        BY <1>0, <2>1, <2>3 DEF TypeOK
      <4>. QED
        BY <3>1, <4>1, <4>2 DEF Agrees
    <3>3. CASE final # "PUBLISHED" /\ UNCHANGED online
      BY <2>1, <2>3, <3>1, <3>3, WrittenRow
    <3>. QED
      BY <2>1, <2>3, <3>2, <3>3
  <2>. QED
    BY <2>2, <2>3
<1>2. ASSUME NEW c \in Article, Remove(c) PROVE Agrees(a)'
  BY <1>0, <1>2 DEF Remove, Agrees, TypeOK, Deleted
<1>3. ASSUME NEW u \in Caller, CommitUpdate(u) \/ CommitHide(u) PROVE Agrees(a)' \/ StaleCommit(a)
  <2>. DEFINE c == call[u].of
              new == IF call[u].pc = "hide" THEN "HIDDEN" ELSE call[u].to
              old == call[u].seen
  <2>1. /\ call[u].pc # "idle"
        /\ status' = [status EXCEPT ![c] = new]
        /\ \/ LifecycleEvent(c, old, new)
           \/ new = old /\ UNCHANGED online
        /\ call' = [call EXCEPT ![u] = NoCall]
    BY <1>3 DEF CommitUpdate, CommitHide
  <2>2. c \in Article
    BY <2>1 DEF Inv, CallsFit
  <2>3. call'[u] = NoCall
    BY <1>0, <2>1 DEF TypeOK
  <2>4. CASE c # a
    <3>. HIDE DEF c, new, old
    <3>. QED
      BY <1>0, <2>1, <2>2, <2>4, OtherRows DEF Agrees
  <2>5. CASE c = a /\ old # status[a]
    BY <2>3, <2>5 DEF StaleCommit
  <2>6. CASE c = a /\ old = status[a]
    <3>. HIDE DEF c, new, old
    <3>. QED
      BY <2>1, <2>6, WrittenRow
  <2>. QED
    BY <2>4, <2>5, <2>6
<1>4. ASSUME NEW r \in Report, CommitReport(r) PROVE Agrees(a)'
  <2>1. CASE filing[r].flag
    <3>1. /\ status' = [status EXCEPT ![Target[r]] = "UNDER_REVIEW"]
          /\ LifecycleEvent(Target[r], "PUBLISHED", "UNDER_REVIEW")
          /\ status[Target[r]] = "PUBLISHED"
      BY <1>4, <2>1 DEF CommitReport, Inv, LocksFit, Holds
    <3>. QED
      BY <1>0, <3>1, OtherRows, WrittenRow DEF Agrees
  <2>2. CASE ~filing[r].flag
    BY <1>4, <2>2 DEF CommitReport, Agrees
  <2>. QED
    BY <2>1, <2>2
<1>5. ASSUME NEW m \in Moderator, CommitReview(m) PROVE Agrees(a)'
  <2>. DEFINE c == Target[review[m].of]
  <2>1. c \in Article
    BY <1>0, <1>5 DEF CommitReview, Inv, ReviewsFit
  <2>2. CASE Restores(m)
    <3>1. /\ status' = [status EXCEPT ![c] = "PUBLISHED"]
          /\ LifecycleEvent(c, "UNDER_REVIEW", "PUBLISHED")
      BY <1>5, <2>2 DEF CommitReview
    <3>. HIDE DEF c
    <3>2. c \in online' /\ status'[c] = "PUBLISHED"
      BY <1>0, <2>1, <3>1, EventEffects DEF TypeOK
    <3>. QED
      BY <1>0, <2>1, <3>1, <3>2, OtherRows DEF Agrees
  <2>3. CASE ~Restores(m)
    BY <1>5, <2>3 DEF CommitReview, Agrees
  <2>. QED
    BY <2>2, <2>3
<1>6. CASE QuietStep
  BY <1>6 DEF QuietStep, Agrees
<1>. QED
  BY <1>1, <1>2, <1>3, <1>4, <1>5, <1>6, QuietSteps

(* The site and the row agree on what is published until a call writes     *)
(* over a status that it had not read (articles.service.ts:541).           *)
THEOREM SiteLostOnlyByStaleCalls == Spec => AgreesUnlessStale
<1>1. Inv /\ [Next]_vars => [\A a \in Article : Agrees(a) => Agrees(a)' \/ StaleCommit(a)]_vars
  BY AgreesStep
<1>. QED
  BY <1>1, Invariance, PTL DEF Spec, AgreesUnlessStale

-----------------------------------------------------------------------------
LEMMA LegalStep ==
    ASSUME Inv, [Next]_vars, NEW a \in Article,
           status[a] \in Status, status'[a] \notin {status[a], Deleted}
    PROVE  status'[a] \in Successors(status[a]) \/ StaleCommit(a) \/ StaleReview(a)
<1>0. TypeOK /\ \A r \in Report : Target[r] \in Article
  BY ArticleAssumption DEF Inv
<1>1. ASSUME NEW b \in Article, \/ \E s \in Status, w \in BOOLEAN : Create(b, s, w)
                                \/ Remove(b)
      PROVE  FALSE
  <2>1. CASE Remove(b)
    BY <1>0, <2>1 DEF Remove, TypeOK
  <2>2. ASSUME NEW s \in Status, NEW w \in BOOLEAN, Create(b, s, w) PROVE FALSE
    <3>1. status[b] = Absent /\ b # a
      BY <2>2, Statuses DEF Create
    <3>2. \E t : status' = [status EXCEPT ![b] = t]
      BY <2>2 DEF Create
    <3>. QED
      BY <1>0, <3>1, <3>2 DEF TypeOK
  <2>. QED
    BY <1>1, <2>1, <2>2
<1>2. ASSUME NEW u \in Caller, CommitUpdate(u) \/ CommitHide(u)
      PROVE  status'[a] \in Successors(status[a]) \/ StaleCommit(a)
  <2>1. /\ call[u].pc \in {"update", "hide"} /\ call'[u] = NoCall
        /\ status' = [status EXCEPT ![call[u].of] =
                          IF call[u].pc = "hide" THEN "HIDDEN" ELSE call[u].to]
    BY <1>0, <1>2 DEF CommitUpdate, CommitHide, TypeOK
  <2>2. call[u].of = a
    BY <1>0, <2>1 DEF TypeOK
  <2>3. status'[a] = IF call[u].pc = "hide" THEN "HIDDEN" ELSE call[u].to
    BY <1>0, <2>1, <2>2 DEF TypeOK
  <2>4. SUFFICES ASSUME call[u].seen = status[a] PROVE status'[a] \in Successors(status[a])
    BY <2>1, <2>2 DEF StaleCommit
  <2>5. CASE call[u].pc = "hide"
    <3>1. status[a] \in Status \ {"HIDDEN", "BANNED"} /\ status'[a] = "HIDDEN"
      BY <2>3, <2>4, <2>5 DEF Inv, CallsFit
    <3>. QED
      BY <3>1 DEF Status, Successors
  <2>6. CASE call[u].pc = "update"
    BY <2>3, <2>4, <2>6 DEF Inv, CallsFit, IsValidModerationTransition
  <2>. QED
    BY <2>1, <2>5, <2>6
<1>3. ASSUME NEW r \in Report, CommitReport(r) PROVE status'[a] \in Successors(status[a])
  <2>1. filing[r].flag => status[Target[r]] = "PUBLISHED"
    BY <1>3 DEF CommitReport, Inv, LocksFit, Holds
  <2>2. status[a] = "PUBLISHED" /\ status'[a] = "UNDER_REVIEW"
    BY <1>0, <1>3, <2>1 DEF CommitReport, TypeOK
  <2>. QED
    BY <2>2 DEF Successors
<1>4. ASSUME NEW m \in Moderator, CommitReview(m)
      PROVE  status'[a] \in Successors(status[a]) \/ StaleReview(a)
  <2>1. review'[m] = NoReview /\ review[m].pc \in {"counted", "updated"}
    BY <1>0, <1>4 DEF CommitReview, TypeOK
  <2>2. /\ Restores(m)
        /\ status' = [status EXCEPT ![Target[review[m].of]] = "PUBLISHED"]
    BY <1>4 DEF CommitReview
  <2>3. Target[review[m].of] = a /\ status'[a] = "PUBLISHED" /\ review[m].seen = "UNDER_REVIEW"
    BY <1>0, <2>2 DEF Restores, TypeOK
  <2>4. review[m].pc = "counted"
    BY <2>1, <2>3, Statuses DEF Inv, ReviewsFit
  <2>5. CASE status[a] = "UNDER_REVIEW"
    BY <2>3, <2>5 DEF Successors
  <2>6. CASE status[a] # "UNDER_REVIEW"
    BY <2>1, <2>3, <2>4, <2>6 DEF StaleReview
  <2>. QED
    BY <2>5, <2>6
<1>5. ~QuietStep
  BY DEF QuietStep
<1>. QED
  BY <1>1, <1>2, <1>3, <1>4, <1>5, QuietSteps

(* An article's status changes as VALID_TRANSITIONS allows, and BANNED is  *)
(* terminal, but for calls and dismissals that had read another status     *)
(* (moderation-policy.service.ts:18).                                      *)
THEOREM OnlyStaleTransitionsAreIllegal == Spec => TransitionsAreLegal
<1>1. Inv /\ [Next]_vars => [\A a \in Article :
          status[a] \in Status /\ status'[a] \notin {status[a], Deleted} =>
              status'[a] \in Successors(status[a]) \/ StaleCommit(a) \/ StaleReview(a)]_vars
  BY LegalStep
<1>. QED
  BY <1>1, Invariance, PTL DEF Spec, TransitionsAreLegal

-----------------------------------------------------------------------------
(* The threshold.  What a filing counted under the lock stays an upper     *)
(* bound, as only filings with the lock add open reports, if moderators    *)
(* reopen none.                                                            *)

CountedRight == \A r \in Report :
    filing[r].pc = "counted" /\ ~filing[r].flag /\ filing[r].seen = "PUBLISHED" =>
        Cardinality(OpenWith(r, filing[r].as)) < Threshold

LEMMA FiniteOpen ==
    ASSUME Inv, NEW r, NEW as
    PROVE  IsFiniteSet(OpenWith(r, as)) /\ Cardinality(OpenWith(r, as)) \in Nat
<1>1. OpenReports(Target[r]) \subseteq {s \in Report : report[s] # Absent}
  BY Statuses DEF OpenReports
<1>2. IsFiniteSet(OpenReports(Target[r]))
  BY <1>1, FS_Subset DEF Inv, FinitelyMany
<1>3. IsFiniteSet({s \in {r} : as \in Open})
  <2>1. IsFiniteSet({r})
    BY FS_Singleton
  <2>. QED
    BY <2>1, FS_Subset
<1>4. IsFiniteSet(OpenWith(r, as))
  BY <1>2, <1>3, FS_Union DEF OpenWith
<1>. QED
  BY <1>4, FS_CardinalityType

(* Fewer open reports, and the same or fewer filings that have counted. *)
LEMMA FewerOpen ==
    ASSUME Inv, CountedRight,
           \A r \in Report : filing'[r].pc = "counted" =>
               /\ filing[r] = filing'[r]
               /\ OpenReports(Target[r])' \subseteq OpenReports(Target[r])
    PROVE  CountedRight'
<1>. SUFFICES ASSUME NEW r \in Report, filing'[r].pc = "counted", ~filing'[r].flag,
                     filing'[r].seen = "PUBLISHED"
              PROVE  Cardinality(OpenWith(r, filing[r].as)') < Threshold
  BY DEF CountedRight
<1>. DEFINE old == OpenWith(r, filing[r].as)
            new == OpenWith(r, filing[r].as)'
<1>1. Cardinality(old) < Threshold /\ new \subseteq old
  BY DEF CountedRight, OpenWith
<1>2. IsFiniteSet(old) /\ Cardinality(old) \in Nat
  BY FiniteOpen
<1>. HIDE DEF old, new
<1>3. IsFiniteSet(new) /\ Cardinality(new) <= Cardinality(old) /\ Cardinality(new) \in Nat
  BY <1>1, <1>2, FS_Subset, FS_CardinalityType
<1>4. Cardinality(new) < Threshold
  BY <1>1, <1>2, <1>3, ArticleAssumption
<1>. QED
  BY <1>4 DEF new

LEMMA CountedStep ==
    ASSUME Decision \cap Open = {}, Inv, CountedRight, [Next]_vars
    PROVE  CountedRight'
<1>0. TypeOK
  BY DEF Inv
<1>1. CASE UNCHANGED <<filing, report>>
  BY <1>1, FewerOpen DEF OpenReports
<1>2. ASSUME NEW r \in Report, LockArticle(r) PROVE CountedRight'
  <2>1. /\ UNCHANGED report
        /\ filing'[r].pc = "locked" /\ \A s \in Report \ {r} : filing'[s] = filing[s]
    BY <1>0, <1>2 DEF LockArticle, TypeOK
  <2>. QED
    BY <2>1, FewerOpen DEF OpenReports
<1>3. ASSUME NEW r \in Report, NEW as \in FiledAs, CountReports(r, as) PROVE CountedRight'
  <2>. DEFINE n == Cardinality(OpenWith(r, as))
              flag == filing[r].seen = "PUBLISHED" /\ n >= Threshold
              f == [filing[r] EXCEPT !.pc = "counted", !.as = as, !.flag = flag]
  <2>1. filing' = [filing EXCEPT ![r] = f] /\ UNCHANGED report
    BY <1>3 DEF CountReports
  <2>2. n \in Nat /\ Threshold \in Nat
    BY FiniteOpen, ArticleAssumption
  <2>3. filing'[r].seen = filing[r].seen /\ filing'[r].flag = flag /\ filing'[r].as = as
        /\ \A s \in Report \ {r} : filing'[s] = filing[s]
    <3>. HIDE DEF flag
    <3>1. f.seen = filing[r].seen /\ f.flag = flag /\ f.as = as
      BY <1>0 DEF TypeOK
    <3>. HIDE DEF f
    <3>. QED
      BY <1>0, <2>1, <3>1 DEF TypeOK
  <2>4. \A s \in Report : OpenReports(Target[s])' = OpenReports(Target[s])
    BY <2>1 DEF OpenReports
  <2>5. filing[r].seen = "PUBLISHED" /\ ~flag => n < Threshold
    <3>. HIDE DEF n
    <3>. QED
      BY <2>2
  <2>. HIDE DEF flag
  <2>. QED
    BY <2>3, <2>4, <2>5 DEF CountedRight, OpenWith
<1>4. ASSUME NEW r \in Report, CommitReport(r) PROVE CountedRight'
  <2>1. /\ filing'[r].pc = "done" /\ \A s \in Report \ {r} : filing'[s] = filing[s]
        /\ \A s \in Report \ {r} : report'[s] = report[s]
        /\ Holds(r)
    BY <1>0, <1>4 DEF CommitReport, NoFiling, TypeOK, Holds
  <2>2. \A s \in Report \ {r} : filing'[s].pc = "counted" => Target[s] # Target[r]
    BY <2>1 DEF Inv, LocksFit, Holds
  <2>3. \A s \in Report \ {r} : filing'[s].pc = "counted" =>
            OpenReports(Target[s])' \subseteq OpenReports(Target[s])
    BY <2>1, <2>2 DEF OpenReports
  <2>. QED
    BY <2>1, <2>3, FewerOpen
<1>5. ASSUME NEW m \in Moderator, CommitReview(m) PROVE CountedRight'
  <2>. DEFINE q == review[m].of
  <2>1. /\ UNCHANGED filing /\ review[m].to \in Decision
        /\ report' = [report EXCEPT ![q] = review[m].to]
    BY <1>5 DEF CommitReview, Inv, ReviewsFit
  <2>2. \A s \in Report : report'[s] \in Open => report[s] \in Open
    BY <1>0, <2>1 DEF TypeOK
  <2>3. \A s \in Report : OpenReports(Target[s])' \subseteq OpenReports(Target[s])
    BY <2>2 DEF OpenReports
  <2>. QED
    BY <2>1, <2>3, FewerOpen
<1>6. ASSUME \/ \E a \in Article : \/ \E s \in Status, b \in BOOLEAN : Create(a, s, b)
                                   \/ Remove(a)
             \/ \E u \in Caller : CommitUpdate(u) \/ CommitHide(u)
                                  \/ CallFails(u) \/ Crash(u)
             \/ \E u \in Caller, a \in Article :
                    ReadForHide(u, a) \/ \E to \in Status : ReadForUpdate(u, a, to)
             \/ \E m \in Moderator : ReadArticle(m) \/ CountOpen(m) \/ ReviewFails(m)
             \/ \E m \in Moderator, r \in Report, to \in Decision : BeginReview(m, r, to)
             \/ UNCHANGED vars
      PROVE  UNCHANGED <<filing, report>>
  BY <1>6 DEF Create, Remove, CommitUpdate, CommitHide, CallFails, Crash, ReadForHide,
              ReadForUpdate, ReadArticle, CountOpen, ReviewFails, BeginReview, vars
<1>. QED
  BY <1>1, <1>2, <1>3, <1>4, <1>5, <1>6 DEF Next

LEMMA ThresholdStep ==
    ASSUME Inv, CountedRight, [Next]_vars, NEW r \in Report,
           report[r] = Absent, report'[r] # Absent, status'[Target[r]] = "PUBLISHED"
    PROVE  Cardinality({s \in Report : Target[s] = Target[r] /\ report'[s] \in Open}) < Threshold
<1>0. TypeOK /\ Target[r] \in Article
  BY ArticleAssumption DEF Inv
<1>1. CommitReport(r)
  <2>1. ASSUME NEW q \in Report, CommitReport(q) PROVE q = r
    BY <1>0, <2>1 DEF CommitReport, TypeOK
  <2>2. ASSUME NEW m \in Moderator, CommitReview(m) PROVE FALSE
    <3>1. review[m].of # r
      BY <2>2 DEF CommitReview, Inv, ReviewsFit
    <3>. QED
      BY <1>0, <2>2, <3>1 DEF CommitReview, TypeOK
  <2>3. ASSUME NEW a \in Article, \/ \E s \in Status, b \in BOOLEAN : Create(a, s, b)
                                  \/ Remove(a)
        PROVE  UNCHANGED report
    BY <2>3 DEF Create, Remove
  <2>4. ASSUME NEW u \in Caller, CommitUpdate(u) \/ CommitHide(u) PROVE UNCHANGED report
    BY <2>4 DEF CommitUpdate, CommitHide
  <2>. QED
    BY <2>1, <2>2, <2>3, <2>4, QuietSteps
<1>. DEFINE new == {s \in Report : Target[s] = Target[r] /\ report'[s] \in Open}
<1>2. new = OpenWith(r, filing[r].as)
  <2>1. report[r] \notin Open
    BY Statuses
  <2>2. report'[r] = filing[r].as /\ \A s \in Report \ {r} : report'[s] = report[s]
    BY <1>0, <1>1 DEF CommitReport, TypeOK
  <2>. QED
    BY <2>1, <2>2 DEF OpenWith, OpenReports
<1>3. filing[r].pc = "counted" /\ ~filing[r].flag /\ status'[Target[r]] = status[Target[r]]
  BY <1>0, <1>1 DEF CommitReport, TypeOK
<1>4. filing[r].seen = "PUBLISHED"
  BY <1>3 DEF Inv, LocksFit, Holds
<1>. QED
  BY <1>2, <1>3, <1>4 DEF CountedRight

(* No report that reaches the threshold is counted short, however many are *)
(* filed at once, if moderators reopen none (reports.service.ts:123).      *)
THEOREM ThresholdHolds ==
    ASSUME Decision \cap Open = {}
    PROVE  Spec => ThresholdIsApplied
<1>1. Init => CountedRight
  BY DEF Init, CountedRight, NoFiling
<1>2. Inv /\ CountedRight /\ [Next]_vars => CountedRight'
  BY CountedStep
<1>3. Inv /\ CountedRight /\ [Next]_vars => [\A r \in Report :
          report[r] = Absent /\ report'[r] # Absent /\ status'[Target[r]] = "PUBLISHED" =>
              Cardinality({s \in Report : Target[s] = Target[r] /\ report'[s] \in Open})
                  < Threshold]_vars
  BY ThresholdStep
<1>. QED
  BY <1>1, <1>2, <1>3, Invariance, PTL DEF Spec, ThresholdIsApplied
===============================================================================
