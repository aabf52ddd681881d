------------------------- MODULE AdminArticlesProofs -------------------------
(***************************************************************************)
(* Theorems about AdminArticles, for any articles, callers and uploads.    *)
(***************************************************************************)
EXTENDS AdminArticles, TLAPS

(* A call past its question, or with an old image, is about an article. *)
HasArticle == \A k \in Caller :
    call[k].pc \notin {"idle", "uploading", "ready"} \/ call[k].old # 0 =>
        call[k].of \in Article

(* The role check still holds of the status it was made against. *)
Permitted == \A k \in Caller : CanSetArticleStatus(RoleOf[k], call[k].to, call[k].from)

(* An uploaded image that is not in the database yet. *)
Fresh(k) == call[k].change = "file" /\ call[k].image # 0

(* Until a client names it, a fresh image is served, and nobody else has   *)
(* it: no article, no other call, and nobody as an old image.              *)
FreshIsOwn == \A k \in Caller :
    Fresh(k) /\ call[k].image \notin lent =>
        /\ call[k].image \in stored
        /\ \A a \in Article : cover[a] # call[k].image
        /\ \A j \in Caller : call[j].old # call[k].image
        /\ \A j \in Caller : j # k /\ Fresh(j) => call[j].image # call[k].image

(* Nor does an old image belong to another article than the call's. *)
OldIsOwn == \A k \in Caller :
    call[k].old # 0 /\ call[k].old \notin lent =>
        \A a \in Article : a # call[k].of => cover[a] # call[k].old

CoversApart == \A a, b \in Article :
    a # b /\ cover[a] = cover[b] /\ cover[a] # 0 => cover[a] \in lent

(* Only an upload replaces an image. *)
OnlyFilesReplace == \A k \in Caller : call[k].change # "file" =>
    /\ call[k].pc \notin {"existing", "uploading", "replacing"}
    /\ call[k].pc \in {"ready", "checked"} => call[k].old = 0

(* What is cleaned up after is gone for good. *)
CleanedIsGone == \A k \in Caller : call[k].pc = "cleaning" => status[call[k].of] = Deleted

ImagesInv == FreshIsOwn /\ OldIsOwn /\ CoversApart /\ OnlyFilesReplace /\ CleanedIsGone

IInv == TypeOK /\ HasArticle /\ Permitted /\ ImagesInv /\ DeadCoversAreAccountedFor

-----------------------------------------------------------------------------
(* Only k's call changes, to this.                                         *)
Becomes(k, pc, of, to, from, change, image, old) ==
    /\ \A j \in Caller : j # k => call'[j] = call[j]
    /\ call'[k].pc = pc /\ call'[k].of = of /\ call'[k].to = to /\ call'[k].from = from
    /\ call'[k].change = change /\ call'[k].image = image /\ call'[k].old = old

(* What each kind of assignment to call[k] makes of it. *)
LEMMA GoesBecomes ==
    ASSUME TypeOK, NEW k \in Caller, NEW pc, Goes(k, pc)
    PROVE  Becomes(k, pc, call[k].of, call[k].to, call[k].from,
                   call[k].change, call[k].image, call[k].old)
BY DEF TypeOK, CallState, Goes, Becomes

LEMMA EndsBecomes ==
    ASSUME TypeOK, NEW k \in Caller, Ends(k)
    PROVE  Becomes(k, "idle", NoArticle, NoStatus, Absent, "keep", 0, 0)
BY DEF TypeOK, Ends, Idle, Becomes

LEMMA OldBecomes ==
    ASSUME TypeOK, NEW k \in Caller, NEW pc, NEW old,
           call' = [call EXCEPT ![k].pc = pc, ![k].old = old]
    PROVE  Becomes(k, pc, call[k].of, call[k].to, call[k].from,
                   call[k].change, call[k].image, old)
BY DEF TypeOK, CallState, Becomes

LEMMA ImageBecomes ==
    ASSUME TypeOK, NEW k \in Caller, NEW pc, NEW image,
           call' = [call EXCEPT ![k].pc = pc, ![k].image = image]
    PROVE  Becomes(k, pc, call[k].of, call[k].to, call[k].from,
                   call[k].change, image, call[k].old)
BY DEF TypeOK, CallState, Becomes

LEMMA IdleType == TypeOK => Idle \in CallState
BY DEF Idle, CallState, CoverChange, TypeOK

(* Ending a call, or moving its place, keeps the type of the calls. *)
LEMMA CallEnds ==
    ASSUME TypeOK, NEW k \in Caller, Ends(k)
    PROVE  call' \in [Caller -> CallState]
BY IdleType DEF Ends, TypeOK

LEMMA CallLearns ==
    ASSUME TypeOK, NEW k \in Caller, NEW old \in 0..uploads,
           NEW pc \in {"uploading", "found"},
           call' = [call EXCEPT ![k].pc = pc, ![k].old = old]
    PROVE  call' \in [Caller -> CallState]
<1>1. [[call[k] EXCEPT !.pc = pc] EXCEPT !.old = old] \in CallState
  BY DEF TypeOK, CallState
<1>2. call' = [call EXCEPT ![k] = [[call[k] EXCEPT !.pc = pc] EXCEPT !.old = old]]
  OBVIOUS
<1> QED BY <1>1, <1>2 DEF TypeOK

LEMMA ImageOrNone ==
    ASSUME TypeOK, NEW n \in 0..uploads, NEW S
    PROVE  {n} \ (S \cup {0}) \subseteq Image /\ {n} \ {0} \subseteq Image
<1>1. n = 0 \/ n \in Image
  BY DEF TypeOK, Image
<1> QED BY <1>1

LEMMA NextType == TypeOK /\ HasArticle /\ [Next]_vars => TypeOK'
<1> SUFFICES ASSUME TypeOK, HasArticle, [Next]_vars PROVE TypeOK'
  OBVIOUS
<1> USE AdminAssumption DEF TypeOK, Image
<1>1. ASSUME NEW k \in Caller, NEW to \in Requested \cup {NoStatus}, NEW change \in CoverChange,
             NEW image \in 0..uploads, AskCreate(k, to, change, image)
      PROVE  TypeOK'
  <2>1. [Idle EXCEPT !.pc = IF change = "file" THEN "uploading" ELSE "ready",
                     !.to = to, !.change = change, !.image = image] \in CallState
    <3> DEFINE pc == IF change = "file" THEN "uploading" ELSE "ready"
    <3>1. [Idle EXCEPT !.pc = pc] \in CallState
      BY IdleType DEF CallState
    <3>2. [[Idle EXCEPT !.pc = pc] EXCEPT !.to = to] \in CallState
      BY <3>1 DEF CallState
    <3>3. [[[Idle EXCEPT !.pc = pc] EXCEPT !.to = to] EXCEPT !.change = change] \in CallState
      BY <3>2 DEF CallState
    <3> QED BY <3>3 DEF CallState
  <2> QED BY <1>1, <2>1 DEF AskCreate, CallState
<1>2. ASSUME NEW k \in Caller, NEW to \in Requested \cup {NoStatus}, NEW change \in CoverChange,
             NEW image \in 0..uploads, NEW a \in Article, AskUpdate(k, a, to, change, image)
      PROVE  TypeOK'
  <2>1. [pc |-> IF change = "file" THEN "existing" ELSE "ready",
         of |-> a, to |-> to, from |-> IF to = NoStatus THEN Absent ELSE status[a],
         change |-> change, image |-> image, old |-> 0] \in CallState
    BY DEF CallState
  <2> QED BY <1>2, <2>1 DEF AskUpdate, CallState
<1>3. ASSUME NEW k \in Caller, ReadExisting(k) PROVE TypeOK'
  <2>1. cover[call[k].of] \in 0..uploads
    BY <1>3 DEF ReadExisting, HasArticle
  <2>2. call' \in [Caller -> CallState]
    BY <1>3, <2>1, CallLearns DEF ReadExisting
  <2> QED BY <1>3, <2>2 DEF ReadExisting, CallState
<1>4. ASSUME NEW k \in Caller, UploadImage(k) PROVE TypeOK'
  <2>1. uploads + 1 \in 0..MaxImages /\ 0..uploads \subseteq 0..(uploads + 1)
    BY <1>4 DEF UploadImage
  <2> DEFINE pc == IF call[k].old = 0 THEN "ready" ELSE "replacing"
             c == [[call[k] EXCEPT !.pc = pc] EXCEPT !.image = uploads + 1]
  <2>2. \A j \in Caller : call[j] \in CallState'
    BY <1>4, <2>1 DEF UploadImage, CallState
  <2>3. c \in CallState'
    BY <1>4, <2>1, <2>2 DEF UploadImage, CallState
  <2>4. call' = [call EXCEPT ![k] = c]
    BY <1>4 DEF UploadImage
  <2>5. call' \in [Caller -> CallState']
    BY <2>2, <2>3, <2>4
  <2>6. stored' \subseteq Image' /\ lent' \subseteq Image' /\ abandoned' \subseteq Image'
    BY <1>4, <2>1 DEF UploadImage
  <2>7. cover' \in [Article -> 0..uploads']
    BY <1>4, <2>1 DEF UploadImage
  <2> QED BY <1>4, <2>1, <2>5, <2>6, <2>7 DEF UploadImage
<1>5. ASSUME NEW k \in Caller, DeleteOld(k) PROVE TypeOK'
  BY <1>5 DEF DeleteOld, Deletes, Goes, CallState
<1>6. ASSUME NEW k \in Caller, NEW a \in Article, NEW bannedWord \in BOOLEAN,
             CommitCreate(k, a, bannedWord)
      PROVE  TypeOK'
  <2>1. call' \in [Caller -> CallState]
    BY <1>6, CallEnds DEF CommitCreate
  <2>2. call[k].image \in 0..uploads /\ call[k].to \in Status \cup {NoStatus}
    BY DEF CallState, Status
  <2>3. status' \in [Article -> Status \cup {Absent, Deleted}]
    BY <1>6, <2>2 DEF CommitCreate, Status
  <2>4. cover' \in [Article -> 0..uploads]
    BY <1>6, <2>2 DEF CommitCreate, NewCover
  <2>5. lent' \subseteq Image
    BY <1>6, <2>2, ImageOrNone DEF CommitCreate, Lend
  <2> QED BY <1>6, <2>1, <2>3, <2>4, <2>5 DEF CommitCreate, CallState
<1>7. ASSUME NEW k \in Caller, ReadForUpdate(k) PROVE TypeOK'
  BY <1>7 DEF ReadForUpdate, Goes, CallState
<1>8. ASSUME NEW k \in Caller, CommitUpdate(k) PROVE TypeOK'
  <2>1. call' \in [Caller -> CallState]
    BY <1>8, CallEnds DEF CommitUpdate
  <2>2. call[k].image \in 0..uploads /\ call[k].to \in Status \cup {NoStatus}
    BY DEF CallState, Status
  <2>3. status' \in [Article -> Status \cup {Absent, Deleted}]
    BY <1>8, <2>2 DEF CommitUpdate, HasArticle
  <2>4. cover' \in [Article -> 0..uploads]
    BY <1>8, <2>2 DEF CommitUpdate, NewCover, HasArticle
  <2>5. lent' \subseteq Image
    BY <1>8, <2>2, ImageOrNone DEF CommitUpdate, Lend
  <2> QED BY <1>8, <2>1, <2>3, <2>4, <2>5 DEF CommitUpdate, CallState
<1>9. ASSUME NEW k \in Caller, NEW a \in Article, AskRemove(k, a) \/ FindForPublicRemove(k, a)
      PROVE  TypeOK'
  <2>1. \A pc \in {"finding", "unlinking", "found"} :
           [Idle EXCEPT !.pc = pc, !.of = a, !.old = cover[a]] \in CallState
    <3> TAKE pc \in {"finding", "unlinking", "found"}
    <3>1. [Idle EXCEPT !.pc = pc] \in CallState
      BY IdleType DEF CallState
    <3>2. [[Idle EXCEPT !.pc = pc] EXCEPT !.of = a] \in CallState
      BY <3>1 DEF CallState
    <3> QED BY <3>2 DEF CallState
  <2>2. call' \in [Caller -> CallState]
    BY <1>9, <2>1 DEF AskRemove, FindForPublicRemove
  <2> QED BY <1>9, <2>2 DEF AskRemove, FindForPublicRemove, CallState
<1>10. ASSUME NEW k \in Caller, Unlink(k) PROVE TypeOK'
  BY <1>10 DEF Unlink, Deletes, Goes, CallState
<1>11. ASSUME NEW k \in Caller, FindForRemove(k) PROVE TypeOK'
  <2>1. cover[call[k].of] \in 0..uploads
    BY <1>11 DEF FindForRemove, HasArticle
  <2>2. call' \in [Caller -> CallState]
    BY <1>11, <2>1, CallLearns DEF FindForRemove
  <2> QED BY <1>11, <2>2 DEF FindForRemove, CallState
<1>12. ASSUME NEW k \in Caller, CommitRemove(k) PROVE TypeOK'
  BY <1>12 DEF CommitRemove, HasArticle, Goes, CallState
<1>13. ASSUME NEW k \in Caller, CleanUp(k) \/ CallFails(k) PROVE TypeOK'
  <2>1. call' \in [Caller -> CallState]
    BY <1>13, CallEnds DEF CleanUp, CallFails
  <2>2. call[k].old \in 0..uploads
    BY DEF CallState
  <2>3. stored' \subseteq Image /\ abandoned' \subseteq Image
    BY <1>13, <2>2, ImageOrNone DEF CleanUp, CallFails, Deletes
  <2> QED BY <1>13, <2>1, <2>3 DEF CleanUp, CallFails, CallState
<1>14. CASE UNCHANGED vars
  BY <1>14 DEF vars, CallState
<1> QED BY <1>1, <1>2, <1>3, <1>4, <1>5, <1>6, <1>7, <1>8, <1>9, <1>10, <1>11, <1>12, <1>13, <1>14 DEF Next

-----------------------------------------------------------------------------
(* What the questions make of a call. *)
LEMMA AskCreateBecomes ==
    ASSUME TypeOK, NEW k \in Caller, NEW to, NEW change, NEW image, AskCreate(k, to, change, image)
    PROVE  Becomes(k, IF change = "file" THEN "uploading" ELSE "ready", NoArticle,
                   to, Absent, change, image, 0)
BY DEF TypeOK, AskCreate, Idle, Becomes

LEMMA AskUpdateBecomes ==
    ASSUME TypeOK, NEW k \in Caller, NEW a, NEW to, NEW change, NEW image,
           AskUpdate(k, a, to, change, image)
    PROVE  Becomes(k, IF change = "file" THEN "existing" ELSE "ready", a,
                   to, IF to = NoStatus THEN Absent ELSE status[a], change, image, 0)
BY DEF TypeOK, AskUpdate, Becomes

LEMMA AskRemoveBecomes ==
    ASSUME TypeOK, NEW k \in Caller, NEW a, AskRemove(k, a)
    PROVE  Becomes(k, IF cover[a] = 0 THEN "finding" ELSE "unlinking", a,
                   NoStatus, Absent, "keep", 0, cover[a])
BY DEF TypeOK, AskRemove, Idle, Becomes

LEMMA FindForPublicRemoveBecomes ==
    ASSUME TypeOK, NEW k \in Caller, NEW a, FindForPublicRemove(k, a)
    PROVE  Becomes(k, "found", a, NoStatus, Absent, "keep", 0, cover[a])
BY DEF TypeOK, FindForPublicRemove, Idle, Becomes

-----------------------------------------------------------------------------
(* The role check outlives every step: what was asked for and what it was  *)
(* checked against only change together.                                   *)
LEMMA RoleKept ==
    ASSUME HasArticle, Permitted,
           NEW k \in Caller, NEW pc, NEW of, NEW to, NEW from, NEW change, NEW image, NEW old,
           Becomes(k, pc, of, to, from, change, image, old),
           (pc \in {"idle", "uploading", "ready"} /\ old = 0) \/ of \in Article,
           CanSetArticleStatus(RoleOf[k], to, from)
    PROVE  HasArticle' /\ Permitted'
BY DEF HasArticle, Permitted, Becomes

LEMMA NextRole == TypeOK /\ HasArticle /\ Permitted /\ [Next]_vars => HasArticle' /\ Permitted'
<1> SUFFICES ASSUME TypeOK, HasArticle, Permitted, [Next]_vars
             PROVE  HasArticle' /\ Permitted'
  OBVIOUS
<1>0. /\ \A k \in Caller : CanSetArticleStatus(RoleOf[k], call[k].to, call[k].from)
      /\ \A k \in Caller : \A from : CanSetArticleStatus(RoleOf[k], NoStatus, from)
  BY DEF Permitted, CanSetArticleStatus
<1>1. ASSUME NEW k \in Caller, NEW to \in Requested \cup {NoStatus}, NEW change \in CoverChange,
             NEW image \in 0..uploads, AskCreate(k, to, change, image)
      PROVE  HasArticle' /\ Permitted'
  <2>1. CanSetArticleStatus(RoleOf[k], to, Absent)
    BY <1>1 DEF AskCreate, CanSetArticleStatus, ModerationStatus, NoStatus, Absent
  <2> QED BY <1>1, <2>1, AskCreateBecomes, RoleKept
<1>2. ASSUME NEW k \in Caller, NEW to \in Requested \cup {NoStatus}, NEW change \in CoverChange,
             NEW image \in 0..uploads, NEW a \in Article, AskUpdate(k, a, to, change, image)
      PROVE  HasArticle' /\ Permitted'
  <2>1. CanSetArticleStatus(RoleOf[k], to, IF to = NoStatus THEN Absent ELSE status[a])
    BY <1>0, <1>2 DEF AskUpdate
  <2> QED BY <1>2, <2>1, AskUpdateBecomes, RoleKept
<1>3. ASSUME NEW k \in Caller, NEW a \in Article, AskRemove(k, a) \/ FindForPublicRemove(k, a)
      PROVE  HasArticle' /\ Permitted'
  BY <1>0, <1>3, AskRemoveBecomes, FindForPublicRemoveBecomes, RoleKept
<1>4. ASSUME NEW k \in Caller, ReadExisting(k) \/ FindForRemove(k) PROVE HasArticle' /\ Permitted'
  <2>1. call[k].of \in Article
    BY <1>4 DEF ReadExisting, FindForRemove, HasArticle
  <2> QED BY <1>0, <1>4, <2>1, OldBecomes, RoleKept DEF ReadExisting, FindForRemove
<1>5. ASSUME NEW k \in Caller, UploadImage(k) PROVE HasArticle' /\ Permitted'
  <2>1. call[k].old = 0 \/ call[k].of \in Article
    BY DEF HasArticle
  <2> QED BY <1>0, <1>5, <2>1, ImageBecomes, RoleKept DEF UploadImage
<1>6. ASSUME NEW k \in Caller,
             DeleteOld(k) \/ ReadForUpdate(k) \/ Unlink(k) \/ CommitRemove(k)
      PROVE  HasArticle' /\ Permitted'
  <2>1. call[k].of \in Article
    BY <1>6 DEF DeleteOld, ReadForUpdate, Unlink, CommitRemove, HasArticle, TypeOK, CallState
  <2> QED BY <1>0, <1>6, <2>1, GoesBecomes, RoleKept
           DEF DeleteOld, ReadForUpdate, Unlink, CommitRemove
<1>7. ASSUME NEW k \in Caller, Ends(k) PROVE HasArticle' /\ Permitted'
  BY <1>0, <1>7, EndsBecomes, RoleKept
<1>8. CASE UNCHANGED vars
  BY <1>8 DEF vars, HasArticle, Permitted
<1> QED BY <1>1, <1>2, <1>3, <1>4, <1>5, <1>6, <1>7, <1>8
        DEF Next, CommitCreate, CommitUpdate, CleanUp, CallFails

-----------------------------------------------------------------------------
(* A step of a call that puts no image on an article and uploads none      *)
(* keeps the images apart: what it deletes is its old image, and what it   *)
(* takes for its old image is a cover.                                     *)
LEMMA OwnKept ==
    ASSUME TypeOK, FreshIsOwn, OldIsOwn, CoversApart, lent' = lent,
           NEW k \in Caller, NEW pc, NEW of, NEW to, NEW from, NEW change, NEW image, NEW old,
           Becomes(k, pc, of, to, from, change, image, old),
           stored \ {call[k].old} \subseteq stored',
           \A a \in Article : cover'[a] \in {cover[a], 0},
           image = 0 \/ change # "file" \/ (image = call[k].image /\ change = call[k].change),
           \/ old = 0
           \/ old = call[k].old /\ of = call[k].of
           \/ of \in Article /\ old = cover[of]
    PROVE  FreshIsOwn' /\ OldIsOwn' /\ CoversApart'
<1>1. FreshIsOwn'
  <2> SUFFICES ASSUME NEW j \in Caller, Fresh(j)', (call[j].image)' \notin lent'
               PROVE  /\ (call[j].image)' \in stored'
                      /\ \A a \in Article : cover'[a] # (call[j].image)'
                      /\ \A i \in Caller : (call[i].old)' # (call[j].image)'
                      /\ \A i \in Caller : i # j /\ Fresh(i)' => (call[i].image)' # (call[j].image)'
    BY DEF FreshIsOwn
  <2>1. \A i \in Caller : Fresh(i)' => Fresh(i) /\ (call[i].image)' = call[i].image
    BY DEF Fresh, Becomes
  <2>2. /\ call[j].image \in stored /\ call[j].image # 0
        /\ \A a \in Article : cover[a] # call[j].image
        /\ \A i \in Caller : call[i].old # call[j].image
        /\ \A i \in Caller : i # j /\ Fresh(i) => call[i].image # call[j].image
    BY <2>1 DEF FreshIsOwn, Fresh
  <2>3. \A i \in Caller : (call[i].old)' # call[j].image
    BY <2>2 DEF Becomes
  <2> QED BY <2>1, <2>2, <2>3
<1>2. OldIsOwn'
  <2> SUFFICES ASSUME NEW j \in Caller, (call[j].old)' # 0, (call[j].old)' \notin lent',
                      NEW a \in Article, a # (call[j].of)', cover'[a] = (call[j].old)'
               PROVE  FALSE
    BY DEF OldIsOwn
  <2>1. cover[a] = (call[j].old)'
    OBVIOUS
  <2>2. CASE j # k
    BY <2>1, <2>2 DEF OldIsOwn, Becomes
  <2>3. CASE j = k
    BY <2>1, <2>3 DEF OldIsOwn, CoversApart, Becomes
  <2> QED BY <2>2, <2>3
<1>3. CoversApart'
  BY DEF CoversApart
<1> QED BY <1>1, <1>2, <1>3

(* Such a step leaves no cover dead unaccounted for if the articles that   *)
(* have k's old image are not.                                             *)
LEMMA AccountKept ==
    ASSUME OldIsOwn, DeadCoversAreAccountedFor, lent' = lent, abandoned \subseteq abandoned',
           NEW k \in Caller, NEW pc, NEW of, NEW to, NEW from, NEW change, NEW image, NEW old,
           Becomes(k, pc, of, to, from, change, image, old),
           stored \ {call[k].old} \subseteq stored',
           \A a \in Article :
               Exists(a)' /\ cover'[a] # 0 => Exists(a) /\ cover'[a] = cover[a],
           \A a \in Article :
               Exists(a)' /\ cover'[a] # 0 /\ a = call[k].of /\ cover[a] = call[k].old
                          /\ cover[a] \notin stored' =>
                   \/ cover[a] \in abandoned'
                   \/ Replaces(k, a)'
    PROVE  DeadCoversAreAccountedFor'
<1> SUFFICES ASSUME NEW a \in Article, Exists(a)', cover'[a] # 0, cover'[a] \notin stored',
                    cover'[a] \notin abandoned' \cup lent'
             PROVE  \E j \in Caller : Replaces(j, a)'
  BY DEF DeadCoversAreAccountedFor
<1>1. Exists(a) /\ cover'[a] = cover[a]
  OBVIOUS
<1>2. CASE cover[a] = call[k].old
  BY <1>1, <1>2 DEF OldIsOwn
<1>3. CASE cover[a] # call[k].old
  <2>1. PICK j \in Caller : Replaces(j, a)
    BY <1>1, <1>3 DEF DeadCoversAreAccountedFor
  <2>2. j # k
    BY <1>3, <2>1 DEF Replaces
  <2> QED BY <1>1, <2>1, <2>2 DEF Replaces, Becomes
<1> QED BY <1>2, <1>3

(* A commit gives its article the call's image: an uploaded one is served  *)
(* and nobody else's, and any other is lent.                               *)
LEMMA CommitKept ==
    ASSUME TypeOK, HasArticle, ImagesInv, DeadCoversAreAccountedFor,
           NEW k \in Caller, NEW a \in Article, NEW current \in {0, cover[a]},
           call[k].pc \in {"ready", "checked"}, call[k].of \in {a, NoArticle},
           cover' = [cover EXCEPT ![a] = NewCover(k, current)],
           current # 0 => Exists(a),
           status[a] # Deleted, \A b \in Article : b # a => status'[b] = status[b],
           Lend(k), Ends(k), stored' = stored, abandoned' = abandoned
    PROVE  ImagesInv' /\ DeadCoversAreAccountedFor'
<1> USE DEF ImagesInv
<1>1. Becomes(k, "idle", NoArticle, NoStatus, Absent, "keep", 0, 0)
  BY EndsBecomes
<1>2. /\ \A b \in Article : b # a => cover'[b] = cover[b]
      /\ cover'[a] = NewCover(k, current)
      /\ call[k].change \in CoverChange
  BY DEF TypeOK, CallState
<1>3. lent \subseteq lent'
  BY DEF Lend
<1>4. \/ cover'[a] \in {0, cover[a]}
      \/ cover'[a] \in lent'
      \/ Fresh(k) /\ cover'[a] = call[k].image
  BY <1>2 DEF NewCover, Lend, Fresh, CoverChange
<1>5. \A j \in Caller : j # k => call'[j] = call[j]
  BY <1>1 DEF Becomes
<1>6. ~Fresh(k)' /\ (call[k].old)' = 0 /\ (call[k].pc)' = "idle"
  BY <1>1 DEF Becomes, Fresh
<1>7. FreshIsOwn'
  <2> SUFFICES ASSUME NEW j \in Caller, Fresh(j)', (call[j].image)' \notin lent'
               PROVE  /\ (call[j].image)' \in stored'
                      /\ \A b \in Article : cover'[b] # (call[j].image)'
                      /\ \A i \in Caller : (call[i].old)' # (call[j].image)'
                      /\ \A i \in Caller : i # j /\ Fresh(i)' => (call[i].image)' # (call[j].image)'
    BY DEF FreshIsOwn
  <2>1. j # k /\ call'[j] = call[j] /\ Fresh(j) /\ call[j].image \notin lent
    BY <1>3, <1>5, <1>6 DEF Fresh
  <2>2. /\ call[j].image \in stored /\ call[j].image # 0
        /\ \A b \in Article : cover[b] # call[j].image
        /\ \A i \in Caller : call[i].old # call[j].image
        /\ \A i \in Caller : i # j /\ Fresh(i) => call[i].image # call[j].image
    BY <2>1 DEF FreshIsOwn, Fresh
  <2>3. cover'[a] # call[j].image
    BY <1>4, <2>1, <2>2
  <2>4. \A i \in Caller : (call[i].old)' # call[j].image
    BY <1>5, <1>6, <2>2
  <2>5. \A i \in Caller : i # j /\ Fresh(i)' => (call[i].image)' # call[j].image
    BY <1>5, <1>6, <2>2 DEF Fresh
  <2> QED BY <1>2, <2>1, <2>2, <2>3, <2>4, <2>5
<1>8. OldIsOwn'
  <2> SUFFICES ASSUME NEW j \in Caller, (call[j].old)' # 0, (call[j].old)' \notin lent',
                      NEW b \in Article, b # (call[j].of)', cover'[b] = (call[j].old)'
               PROVE  FALSE
    BY DEF OldIsOwn
  <2>1. call'[j] = call[j] /\ call[j].old \notin lent /\ cover[b] # call[j].old
    BY <1>3, <1>5, <1>6 DEF OldIsOwn
  <2>2. b = a /\ Fresh(k) /\ call[j].old = call[k].image /\ call[k].image \notin lent
    BY <1>2, <1>3, <1>4, <2>1
  <2> QED BY <2>2 DEF FreshIsOwn
<1>9. CoversApart'
  <2>1. \A b \in Article : b # a /\ cover'[b] = cover'[a] /\ cover'[a] # 0 => cover'[a] \in lent'
    BY <1>2, <1>3, <1>4 DEF CoversApart, FreshIsOwn
  <2> QED BY <1>2, <1>3, <2>1 DEF CoversApart
<1>10. OnlyFilesReplace' /\ CleanedIsGone'
  <2>1. \A j \in Caller : call[j].pc = "cleaning" => call[j].of \in Article /\ call[j].of # a
    BY DEF HasArticle, CleanedIsGone
  <2> QED BY <1>5, <1>6, <2>1 DEF OnlyFilesReplace, CleanedIsGone
<1>11. DeadCoversAreAccountedFor'
  <2> SUFFICES ASSUME NEW b \in Article, Exists(b)', cover'[b] # 0, cover'[b] \notin stored',
                      cover'[b] \notin abandoned' \cup lent'
               PROVE  \E j \in Caller : Replaces(j, b)'
    BY DEF DeadCoversAreAccountedFor
  <2>1. Exists(b) /\ cover'[b] = cover[b]
    BY <1>2, <1>3, <1>4 DEF FreshIsOwn, Exists, NewCover, Lend, Fresh, CoverChange
  <2>2. PICK j \in Caller : Replaces(j, b)
    BY <1>3, <2>1 DEF DeadCoversAreAccountedFor
  <2>3. j # k
    <3> SUFFICES ASSUME Replaces(k, b) PROVE FALSE
      BY <2>2
    <3>1. b = a /\ call[k].old = cover[a] /\ cover[a] # 0
      BY <2>1, AdminAssumption DEF Replaces
    <3>2. Fresh(k) /\ call[k].image = cover[a]
      BY <1>2, <2>1, <3>1 DEF OnlyFilesReplace, NewCover, Fresh
    <3> QED BY <1>3, <2>1, <3>1, <3>2 DEF FreshIsOwn
  <2> QED BY <1>5, <2>1, <2>2, <2>3 DEF Replaces
<1> QED BY <1>7, <1>8, <1>9, <1>10, <1>11

LEMMA NextImages ==
    TypeOK /\ HasArticle /\ ImagesInv /\ DeadCoversAreAccountedFor /\ [Next]_vars =>
        ImagesInv' /\ DeadCoversAreAccountedFor'
<1> SUFFICES ASSUME TypeOK, HasArticle, ImagesInv, DeadCoversAreAccountedFor, [Next]_vars
             PROVE  ImagesInv' /\ DeadCoversAreAccountedFor'
  OBVIOUS
<1> USE DEF ImagesInv
<1>1. ASSUME NEW k \in Caller, NEW to \in Requested \cup {NoStatus}, NEW change \in CoverChange,
             NEW image \in 0..uploads, AskCreate(k, to, change, image)
      PROVE  ImagesInv' /\ DeadCoversAreAccountedFor'
  <2> DEFINE pc == IF change = "file" THEN "uploading" ELSE "ready"
  <2>1. Becomes(k, pc, NoArticle, to, Absent, change, image, 0)
    BY <1>1, AskCreateBecomes
  <2>2. image = 0 \/ change # "file"
    BY <1>1 DEF AskCreate, Named
  <2>3. UNCHANGED <<status, cover, stored, lent, abandoned>> /\ call[k].pc = "idle"
    BY <1>1 DEF AskCreate
  <2> HIDE DEF pc
  <2>4. FreshIsOwn' /\ OldIsOwn' /\ CoversApart'
    BY <2>1, <2>2, <2>3, OwnKept
  <2>5. OnlyFilesReplace' /\ CleanedIsGone'
    BY <2>1, <2>3 DEF OnlyFilesReplace, CleanedIsGone, Becomes, pc
  <2>6. DeadCoversAreAccountedFor'
    BY <2>1, <2>3 DEF DeadCoversAreAccountedFor, Exists, Replaces, Becomes
  <2> QED BY <2>4, <2>5, <2>6
<1>2. ASSUME NEW k \in Caller, NEW to \in Requested \cup {NoStatus}, NEW change \in CoverChange,
             NEW image \in 0..uploads, NEW a \in Article, AskUpdate(k, a, to, change, image)
      PROVE  ImagesInv' /\ DeadCoversAreAccountedFor'
  <2> DEFINE pc == IF change = "file" THEN "existing" ELSE "ready"
             from == IF to = NoStatus THEN Absent ELSE status[a]
  <2>1. Becomes(k, pc, a, to, from, change, image, 0)
    BY <1>2, AskUpdateBecomes
  <2>2. image = 0 \/ change # "file"
    BY <1>2 DEF AskUpdate, Named
  <2>3. UNCHANGED <<status, cover, stored, lent, abandoned>> /\ call[k].pc = "idle"
    BY <1>2 DEF AskUpdate
  <2> HIDE DEF pc, from
  <2>4. FreshIsOwn' /\ OldIsOwn' /\ CoversApart'
    BY <2>1, <2>2, <2>3, OwnKept
  <2>5. OnlyFilesReplace' /\ CleanedIsGone'
    BY <2>1, <2>3 DEF OnlyFilesReplace, CleanedIsGone, Becomes, pc
  <2>6. DeadCoversAreAccountedFor'
    BY <2>1, <2>3 DEF DeadCoversAreAccountedFor, Exists, Replaces, Becomes
  <2> QED BY <2>4, <2>5, <2>6
<1>3. ASSUME NEW k \in Caller, NEW a \in Article, AskRemove(k, a) \/ FindForPublicRemove(k, a)
      PROVE  ImagesInv' /\ DeadCoversAreAccountedFor'
  <2>1. PICK pc \in {"finding", "unlinking", "found"} :
           Becomes(k, pc, a, NoStatus, Absent, "keep", 0, cover[a])
    BY <1>3, AskRemoveBecomes, FindForPublicRemoveBecomes
  <2>2. UNCHANGED <<status, cover, stored, lent, abandoned>> /\ call[k].pc = "idle"
    BY <1>3 DEF AskRemove, FindForPublicRemove
  <2>3. FreshIsOwn' /\ OldIsOwn' /\ CoversApart'
    BY <2>1, <2>2, OwnKept
  <2>4. OnlyFilesReplace' /\ CleanedIsGone'
    BY <2>1, <2>2 DEF OnlyFilesReplace, CleanedIsGone, Becomes
  <2>5. DeadCoversAreAccountedFor'
    BY <2>1, <2>2 DEF DeadCoversAreAccountedFor, Exists, Replaces, Becomes
  <2> QED BY <2>3, <2>4, <2>5
<1>4. ASSUME NEW k \in Caller, ReadExisting(k) \/ FindForRemove(k)
      PROVE  ImagesInv' /\ DeadCoversAreAccountedFor'
  <2>1. call[k].of \in Article
    BY <1>4 DEF ReadExisting, FindForRemove, HasArticle
  <2>2. PICK pc \in {"uploading", "found"} :
           /\ Becomes(k, pc, call[k].of, call[k].to, call[k].from,
                      call[k].change, call[k].image, cover[call[k].of])
           /\ pc = "uploading" => call[k].pc = "existing"
    BY <1>4, OldBecomes DEF ReadExisting, FindForRemove
  <2>3. UNCHANGED <<status, cover, stored, lent, abandoned>>
    BY <1>4 DEF ReadExisting, FindForRemove
  <2>4. FreshIsOwn' /\ OldIsOwn' /\ CoversApart'
    BY <2>1, <2>2, <2>3, OwnKept
  <2>5. OnlyFilesReplace' /\ CleanedIsGone'
    BY <2>2, <2>3 DEF OnlyFilesReplace, CleanedIsGone, Becomes
  <2>6. DeadCoversAreAccountedFor'
    BY <2>2, <2>3 DEF DeadCoversAreAccountedFor, Exists, Replaces, Becomes
  <2> QED BY <2>4, <2>5, <2>6
<1>5. ASSUME NEW k \in Caller, UploadImage(k) PROVE ImagesInv' /\ DeadCoversAreAccountedFor'
  <2>1. PICK pc \in {"ready", "replacing"} :
           /\ Becomes(k, pc, call[k].of, call[k].to, call[k].from,
                      call[k].change, uploads + 1, call[k].old)
           /\ pc = "ready" => call[k].old = 0
    BY <1>5, ImageBecomes DEF UploadImage
  <2>2. /\ UNCHANGED <<status, cover, lent, abandoned>>
        /\ stored' = stored \cup {uploads + 1}
        /\ call[k].pc = "uploading"
    BY <1>5 DEF UploadImage
  <2>3. /\ uploads + 1 # 0
        /\ \A n \in 0..uploads : n # uploads + 1
    BY DEF TypeOK
  <2>4. /\ \A a \in Article : cover[a] # uploads + 1
        /\ \A j \in Caller : call[j].old # uploads + 1 /\ call[j].image # uploads + 1
    BY <2>3 DEF TypeOK, CallState
  <2>5. FreshIsOwn'
    <3> SUFFICES ASSUME NEW j \in Caller, Fresh(j)', (call[j].image)' \notin lent'
                 PROVE  /\ (call[j].image)' \in stored'
                        /\ \A a \in Article : cover'[a] # (call[j].image)'
                        /\ \A i \in Caller : (call[i].old)' # (call[j].image)'
                        /\ \A i \in Caller :
                              i # j /\ Fresh(i)' => (call[i].image)' # (call[j].image)'
      BY DEF FreshIsOwn
    <3>1. CASE j = k
      BY <2>1, <2>2, <2>4, <3>1 DEF Becomes
    <3>2. CASE j # k
      <4>1. call'[j] = call[j] /\ Fresh(j) /\ call[j].image \notin lent
        BY <2>1, <2>2, <3>2 DEF Becomes, Fresh
      <4>2. \A i \in Caller : (call[i].old)' = call[i].old
        BY <2>1 DEF Becomes
      <4>3. \A i \in Caller : i # j /\ Fresh(i)' => (call[i].image)' # call[j].image
        BY <2>1, <2>4, <4>1 DEF FreshIsOwn, Fresh, Becomes
      <4> QED BY <2>2, <4>1, <4>2, <4>3 DEF FreshIsOwn
    <3> QED BY <3>1, <3>2
  <2>6. OldIsOwn' /\ CoversApart'
    BY <2>1, <2>2 DEF OldIsOwn, CoversApart, Becomes
  <2>7. OnlyFilesReplace' /\ CleanedIsGone'
    BY <2>1, <2>2 DEF OnlyFilesReplace, CleanedIsGone, Becomes
  <2>8. DeadCoversAreAccountedFor'
    BY <2>1, <2>2 DEF DeadCoversAreAccountedFor, Exists, Replaces, Becomes
  <2> QED BY <2>5, <2>6, <2>7, <2>8
<1>6. ASSUME NEW k \in Caller, DeleteOld(k) \/ ReadForUpdate(k) \/ Unlink(k)
      PROVE  ImagesInv' /\ DeadCoversAreAccountedFor'
  <2>1. PICK pc \in {"ready", "checked", "finding"} :
           /\ Becomes(k, pc, call[k].of, call[k].to, call[k].from,
                      call[k].change, call[k].image, call[k].old)
           /\ pc = "ready" => call[k].pc = "replacing"
           /\ pc = "checked" => call[k].pc = "ready"
    BY <1>6, GoesBecomes DEF DeleteOld, ReadForUpdate, Unlink
  <2>2. UNCHANGED <<status, cover, lent, abandoned>> /\ stored \ {call[k].old} \subseteq stored'
    BY <1>6 DEF DeleteOld, ReadForUpdate, Unlink, Deletes
  <2>3. FreshIsOwn' /\ OldIsOwn' /\ CoversApart'
    BY <2>1, <2>2, OwnKept
  <2>4. OnlyFilesReplace'
    BY <2>1 DEF OnlyFilesReplace, Becomes
  <2>5. CleanedIsGone'
    BY <2>1, <2>2 DEF CleanedIsGone, Becomes
  <2>6. DeadCoversAreAccountedFor'
    <3>1. \A a \in Article : a = call[k].of /\ cover[a] = call[k].old => Replaces(k, a)'
      BY <2>1, <2>2 DEF Replaces, Becomes
    <3> QED BY <2>1, <2>2, <3>1, AccountKept DEF Exists
  <2> QED BY <2>3, <2>4, <2>5, <2>6
<1>7. ASSUME NEW k \in Caller, CommitRemove(k) PROVE ImagesInv' /\ DeadCoversAreAccountedFor'
  <2>1. Becomes(k, "cleaning", call[k].of, call[k].to, call[k].from,
                call[k].change, call[k].image, call[k].old)
    BY <1>7, GoesBecomes DEF CommitRemove
  <2> DEFINE a == call[k].of
  <2>2. a \in Article
    BY <1>7 DEF CommitRemove, HasArticle
  <2>3. /\ UNCHANGED <<stored, lent, abandoned>>
        /\ status'[a] = Deleted /\ cover'[a] = 0
        /\ \A b \in Article : b # a => status'[b] = status[b] /\ cover'[b] = cover[b]
    BY <1>7, <2>2 DEF CommitRemove, TypeOK
  <2>4. FreshIsOwn' /\ OldIsOwn' /\ CoversApart'
    BY <2>1, <2>3, OwnKept
  <2>5. OnlyFilesReplace'
    BY <2>1 DEF OnlyFilesReplace, Becomes
  <2>6. CleanedIsGone'
    <3>1. \A j \in Caller : call[j].pc = "cleaning" => call[j].of \in Article
      BY DEF HasArticle
    <3> QED BY <2>1, <2>3, <3>1 DEF CleanedIsGone, Becomes
  <2>7. DeadCoversAreAccountedFor'
    BY <2>1, <2>3, AccountKept DEF Exists
  <2> QED BY <2>4, <2>5, <2>6, <2>7
<1>8. ASSUME NEW k \in Caller, CleanUp(k) \/ CallFails(k)
      PROVE  ImagesInv' /\ DeadCoversAreAccountedFor'
  <2>1. Becomes(k, "idle", NoArticle, NoStatus, Absent, "keep", 0, 0)
    BY <1>8, EndsBecomes DEF CleanUp, CallFails
  <2>2. /\ UNCHANGED <<status, cover, lent>>
        /\ stored \ {call[k].old} \subseteq stored' /\ abandoned \subseteq abandoned'
    BY <1>8 DEF CleanUp, CallFails, Deletes
  <2>3. FreshIsOwn' /\ OldIsOwn' /\ CoversApart'
    BY <2>1, <2>2, OwnKept
  <2>4. OnlyFilesReplace' /\ CleanedIsGone'
    BY <2>1, <2>2 DEF OnlyFilesReplace, CleanedIsGone, Becomes
  <2>5. ASSUME NEW a \in Article, Exists(a)', cover'[a] # 0, a = call[k].of,
               cover[a] = call[k].old, cover[a] \notin stored'
        PROVE  cover[a] \in abandoned'
    <3>1. ~CleanUp(k)
      BY <2>2, <2>5 DEF CleanUp, CleanedIsGone, Exists, Status, Deleted
    <3> QED BY <1>8, <2>2, <2>5, <3>1 DEF CallFails
  <2>6. DeadCoversAreAccountedFor'
    BY <2>1, <2>2, <2>5, AccountKept DEF Exists
  <2> QED BY <2>3, <2>4, <2>6
<1>9. ASSUME NEW k \in Caller, NEW a \in Article, NEW bannedWord \in BOOLEAN,
             CommitCreate(k, a, bannedWord)
      PROVE  ImagesInv' /\ DeadCoversAreAccountedFor'
  <2>1. /\ status[a] = Absent /\ status[a] # Deleted
        /\ \A b \in Article : b # a => status'[b] = status[b]
    BY <1>9 DEF CommitCreate, TypeOK, Absent, Deleted
  <2> QED BY <1>9, <2>1, CommitKept DEF CommitCreate
<1>10. ASSUME NEW k \in Caller, CommitUpdate(k)
       PROVE  ImagesInv' /\ DeadCoversAreAccountedFor'
  <2> DEFINE a == call[k].of
  <2>1. a \in Article
    BY <1>10 DEF CommitUpdate, HasArticle
  <2>2. /\ status[a] # Deleted
        /\ \A b \in Article : b # a => status'[b] = status[b]
    BY <1>10 DEF CommitUpdate, TypeOK, Exists, Status, Deleted
  <2>3. cover' = [cover EXCEPT ![a] = NewCover(k, cover[a])]
    BY <1>10 DEF CommitUpdate
  <2> QED BY <1>10, <2>1, <2>2, <2>3, CommitKept DEF CommitUpdate
<1>11. CASE UNCHANGED vars
  BY <1>11 DEF vars, FreshIsOwn, Fresh, OldIsOwn, CoversApart, OnlyFilesReplace, CleanedIsGone,
     DeadCoversAreAccountedFor, Exists, Replaces
<1> QED BY <1>1, <1>2, <1>3, <1>4, <1>5, <1>6, <1>7, <1>8, <1>9, <1>10, <1>11 DEF Next

-----------------------------------------------------------------------------
LEMMA Inductive == Spec => []IInv
<1>1. Init => IInv
  <2> SUFFICES ASSUME Init PROVE IInv
    OBVIOUS
  <2>1. Idle \in CallState
    BY DEF Init, Idle, CallState, CoverChange
  <2>2. TypeOK
    BY <2>1, AdminAssumption DEF Init, TypeOK, Image
  <2>3. /\ \A k \in Caller : /\ call[k].pc = "idle" /\ call[k].to = NoStatus
                            /\ call[k].image = 0 /\ call[k].old = 0
        /\ \A a \in Article : cover[a] = 0
    BY DEF Init, Idle
  <2>4. HasArticle /\ Permitted
    BY <2>3 DEF HasArticle, Permitted, CanSetArticleStatus
  <2>5. ImagesInv
    BY <2>3 DEF ImagesInv, FreshIsOwn, Fresh, OldIsOwn, CoversApart, OnlyFilesReplace, CleanedIsGone
  <2>6. DeadCoversAreAccountedFor
    BY <2>3 DEF DeadCoversAreAccountedFor
  <2> QED BY <2>2, <2>4, <2>5, <2>6 DEF IInv
<1>2. IInv /\ [Next]_vars => IInv'
  BY NextType, NextRole, NextImages DEF IInv
<1> QED BY <1>1, <1>2, PTL DEF Spec

(* Every variable has its type. *)
THEOREM TypeCorrect == Spec => []TypeOK
<1>1. IInv => TypeOK
  BY DEF IInv
<1> QED BY <1>1, Inductive, PTL

(* A cover FileHarbor no longer serves is being replaced, was left by a    *)
(* call that failed, or was named by a client: deletion before the         *)
(* database is told hurts nobody else's cover.                             *)
THEOREM DeadCovers == Spec => []DeadCoversAreAccountedFor
<1>1. IInv => DeadCoversAreAccountedFor
  BY DEF IInv
<1> QED BY <1>1, Inductive, PTL

(* An author changes what a moderator set only over a status the role      *)
(* check did not see.                                                      *)
THEOREM OnlyBlindly == Spec => AuthorsModerateOnlyBlindly
<1>1. ASSUME IInv, [Next]_vars, NEW k \in Caller, NEW a \in Article, Overrules(k, a)
      PROVE  status[a] # call[k].from
  <2> USE DEF IInv
  <2>1. PICK j \in Caller : (Ends(j) \/ Goes(j, "cleaning"))
                          /\ \/ \E b \in Article, bannedWord \in BOOLEAN : CommitCreate(j, b, bannedWord)
                             \/ CommitUpdate(j) \/ CommitRemove(j)
    <3>1. status' # status
      BY <1>1 DEF Overrules
    <3>2. ASSUME NEW j \in Caller
          PROVE  /\ ReadExisting(j) \/ UploadImage(j) \/ DeleteOld(j) \/ ReadForUpdate(j)
                    \/ Unlink(j) \/ FindForRemove(j) \/ CleanUp(j) \/ CallFails(j)
                    => UNCHANGED status
                 /\ \A to, change, image : AskCreate(j, to, change, image) => UNCHANGED status
                 /\ \A b, to, change, image :
                       AskUpdate(j, b, to, change, image) => UNCHANGED status
                 /\ \A b : AskRemove(j, b) \/ FindForPublicRemove(j, b) => UNCHANGED status
      <4>1. \A to, change, image : AskCreate(j, to, change, image) => UNCHANGED status
        BY DEF AskCreate
      <4>2. \A b, to, change, image : AskUpdate(j, b, to, change, image) => UNCHANGED status
        BY DEF AskUpdate
      <4>3. \A b : AskRemove(j, b) \/ FindForPublicRemove(j, b) => UNCHANGED status
        BY DEF AskRemove, FindForPublicRemove
      <4> QED BY <4>1, <4>2, <4>3 DEF ReadExisting, UploadImage, DeleteOld, ReadForUpdate, Unlink,
                 FindForRemove, CleanUp, CallFails
    <3>3. Next
      BY <1>1, <3>1 DEF vars
    <3>4. PICK j \in Caller :
             \/ \E b \in Article, bannedWord \in BOOLEAN : CommitCreate(j, b, bannedWord)
             \/ CommitUpdate(j) \/ CommitRemove(j)
      BY <3>1, <3>2, <3>3 DEF Next
    <3>5. Ends(j) \/ Goes(j, "cleaning")
      BY <3>4 DEF CommitCreate, CommitUpdate, CommitRemove
    <3> QED BY <3>4, <3>5
  <2>2. CommitUpdate(k)
    <3>1. j = k
      BY <1>1, <2>1, EndsBecomes, GoesBecomes DEF Becomes, Overrules
    <3> QED BY <1>1, <2>1, <3>1 DEF Overrules, CommitCreate, CommitRemove
  <2>3. call[k].to # NoStatus /\ status'[a] = call[k].to
    BY <1>1, <2>2 DEF CommitUpdate, Overrules, TypeOK
  <2> QED BY <1>1, <2>3 DEF Overrules, Permitted, CanSetArticleStatus
<1>2. IInv /\ [Next]_vars =>
        [\A k \in Caller, a \in Article : Overrules(k, a) => status[a] # call[k].from]_vars
  BY <1>1
<1> QED BY <1>2, Inductive, PTL DEF Spec, AuthorsModerateOnlyBlindly
=============================================================================
