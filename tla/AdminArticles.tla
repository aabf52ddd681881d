---------------------------- MODULE AdminArticles ----------------------------
(***************************************************************************)
(* /admin/articles: who may set which status, and the cover image, which   *)
(* lives in FileHarbor and not in the database.                            *)
(*                                                                         *)
(* A call reads the article for its role check, reads it again for its     *)
(* cover, uploads, deletes the old image, and only then calls the articles *)
(* service, which reads the article once more and writes by id.  Images    *)
(* are numbered in the order of their uploads; 0 is no image.              *)
(***************************************************************************)
EXTENDS Naturals

CONSTANTS
    Article,
    Caller,         \* concurrent calls
    RoleOf,         \* the role of each caller's session
    Requested,      \* the statuses callers ask for
    MaxImages       \* bound: uploads

NoArticle == "none"

ASSUME AdminAssumption ==
    /\ NoArticle \notin Article
    /\ RoleOf \in [Caller -> {"AUTHOR", "MODERATOR"}]
    /\ Requested \subseteq {"DRAFT", "PUBLISHED", "UNDER_REVIEW", "HIDDEN", "BANNED"}
    /\ MaxImages \in Nat

VARIABLES
    status,         \* each article's, or Absent / Deleted
    cover,          \* articles.coverImage
    uploads,        \* images FileHarbor has handed out so far
    stored,         \* the images it still serves
    call,
    lent,           \* images a client has made a cover by their URL
    abandoned       \* old images deleted by a call that did not replace them

vars == <<status, cover, uploads, stored, call, lent, abandoned>>

Absent == "absent"
Deleted == "deleted"
Status == {"DRAFT", "PUBLISHED", "UNDER_REVIEW", "HIDDEN", "BANNED"}
ModerationStatus == {"UNDER_REVIEW", "HIDDEN", "BANNED"}

NoStatus == "none"

(* What becomes of the cover: it stays, it is the file's, it is cleared or *)
(* set to a URL.                                                           *)
CoverChange == {"keep", "file", "set"}

Idle == [pc |-> "idle", of |-> NoArticle, to |-> NoStatus, from |-> Absent,
         change |-> "keep", image |-> 0, old |-> 0]

Image == 1..uploads

CallState == [pc : {"idle", "existing", "uploading", "replacing", "ready", "checked",
                    "unlinking", "finding", "found", "cleaning"},
              of : Article \cup {NoArticle}, to : Requested \cup {NoStatus},
              from : Status \cup {Absent, Deleted}, change : CoverChange,
              image : 0..uploads, old : 0..uploads]

TypeOK ==
    /\ status \in [Article -> Status \cup {Absent, Deleted}]
    /\ cover \in [Article -> 0..uploads]
    /\ uploads \in 0..MaxImages
    /\ stored \subseteq Image
    /\ call \in [Caller -> CallState]
    /\ lent \subseteq Image
    /\ abandoned \subseteq Image

Init ==
    /\ status = [a \in Article |-> Absent]
    /\ cover = [a \in Article |-> 0]
    /\ uploads = 0
    /\ stored = {} /\ lent = {} /\ abandoned = {}
    /\ call = [k \in Caller |-> Idle]

Exists(a) == status[a] \in Status

(* The articles' part of VALID_TRANSITIONS. *)
Successors(from) ==
    CASE from = "DRAFT"        -> {"PUBLISHED", "UNDER_REVIEW", "HIDDEN", "BANNED"}
      [] from = "PUBLISHED"    -> {"DRAFT", "UNDER_REVIEW", "HIDDEN", "BANNED"}
      [] from = "UNDER_REVIEW" -> {"PUBLISHED", "DRAFT", "HIDDEN", "BANNED"}
      [] from = "HIDDEN"       -> {"PUBLISHED", "DRAFT", "BANNED"}
      [] from = "BANNED"       -> {}

IsValidModerationTransition(from, to) == from = to \/ to \in Successors(from)

\* Mutant: only the new status is looked at.
CanHide(role, to, from) ==
    to \in {NoStatus, from} \/ to \notin ModerationStatus \/ role = "MODERATOR"

(* canSetArticleStatus; an article that is not there has no status. *)
CanSetArticleStatus(role, to, from) ==
    \/ to \in {NoStatus, from}
    \/ {to, from} \cap ModerationStatus = {}
    \/ role = "MODERATOR"

Ends(k) == call' = [call EXCEPT ![k] = Idle]
Goes(k, pc) == call' = [call EXCEPT ![k].pc = pc]

(* The images a call may name by URL (assertOwnCoverImage: FileHarbor's    *)
(* own), or none.                                                          *)
Named(change, image) == IF change = "set" THEN image \in 0..uploads ELSE image = 0

-----------------------------------------------------------------------------
(* POST and PATCH, up to the call of the articles service.                 *)

AskCreate(k, to, change, image) ==
    /\ call[k].pc = "idle"
    /\ Named(change, image)
    /\ CanSetArticleStatus(RoleOf[k], to, NoStatus)
    /\ call' = [call EXCEPT ![k] =
           [Idle EXCEPT !.pc = IF change = "file" THEN "uploading" ELSE "ready",
                        !.to = to, !.change = change, !.image = image]]
    /\ UNCHANGED <<status, cover, uploads, stored, lent, abandoned>>

AskUpdate(k, a, to, change, image) ==
    /\ call[k].pc = "idle"
    /\ status[a] # Absent
    /\ Named(change, image)
    /\ CanSetArticleStatus(RoleOf[k], to, status[a])
    /\ call' = [call EXCEPT ![k] =
           [pc |-> IF change = "file" THEN "existing" ELSE "ready",
            of |-> a, to |-> to, from |-> IF to = NoStatus THEN Absent ELSE status[a],
            change |-> change, image |-> image, old |-> 0]]
    /\ UNCHANGED <<status, cover, uploads, stored, lent, abandoned>>

ReadExisting(k) ==
    /\ call[k].pc = "existing"
    /\ call' = [call EXCEPT ![k].pc = "uploading", ![k].old = cover[call[k].of]]
    /\ UNCHANGED <<status, cover, uploads, stored, lent, abandoned>>

\* Mutant: the answer's URL is not checked.
UploadUnchecked(k) ==
    /\ call[k].pc = "uploading"
    /\ uploads < MaxImages
    /\ call' = [call EXCEPT ![k].pc = IF call[k].old = 0 THEN "ready" ELSE "replacing",
                            ![k].image = uploads + 1]
    /\ UNCHANGED <<status, cover, uploads, stored, lent, abandoned>>

(* uploadImage.  An image whose URL is lost, as when this call fails after *)
(* FileHarbor has stored it, is of no further account.                     *)
UploadImage(k) ==
    /\ call[k].pc = "uploading"
    /\ uploads < MaxImages
    /\ uploads' = uploads + 1
    /\ stored' = stored \cup {uploads + 1}
    /\ call' = [call EXCEPT ![k].pc = IF call[k].old = 0 THEN "ready" ELSE "replacing",
                            ![k].image = uploads + 1]
    /\ UNCHANGED <<status, cover, lent, abandoned>>

(* deleteImageSafely: a failed deletion is logged, and the call goes on.   *)
Deletes(image) == stored' \in {stored, stored \ {image}}

\* Mutant: the images are mixed up.
DeleteUploaded(k) ==
    /\ call[k].pc = "replacing"
    /\ Deletes(call[k].image)
    /\ Goes(k, "ready")
    /\ UNCHANGED <<status, cover, uploads, lent, abandoned>>

DeleteOld(k) ==
    /\ call[k].pc = "replacing"
    /\ Deletes(call[k].old)
    /\ Goes(k, "ready")
    /\ UNCHANGED <<status, cover, uploads, lent, abandoned>>

-----------------------------------------------------------------------------
(* articlesService.create and update.                                      *)

NewCover(k, current) == IF call[k].change = "keep" THEN current ELSE call[k].image

Lend(k) == lent' = IF call[k].change = "set" THEN lent \cup ({call[k].image} \ {0}) ELSE lent

(* A banned word hides what is not hidden yet. *)
CommitCreate(k, a, bannedWord) ==
    LET requested == IF call[k].to = NoStatus THEN "DRAFT" ELSE call[k].to IN
    /\ call[k].pc = "ready" /\ call[k].of = NoArticle
    /\ status[a] = Absent
    /\ status' = [status EXCEPT ![a] =
           IF bannedWord /\ requested # "BANNED" THEN "HIDDEN" ELSE requested]
    /\ cover' = [cover EXCEPT ![a] = NewCover(k, 0)]
    /\ Lend(k)
    /\ Ends(k)
    /\ UNCHANGED <<uploads, stored, abandoned>>

ReadForUpdate(k) == LET a == call[k].of IN
    /\ call[k].pc = "ready" /\ a # NoArticle
    /\ Exists(a)
    /\ call[k].to # NoStatus => IsValidModerationTransition(status[a], call[k].to)
    /\ Goes(k, "checked")
    /\ UNCHANGED <<status, cover, uploads, stored, lent, abandoned>>

CommitUpdate(k) == LET a == call[k].of IN
    /\ call[k].pc = "checked"
    /\ Exists(a)
    /\ status' = [status EXCEPT ![a] = IF call[k].to = NoStatus THEN @ ELSE call[k].to]
    /\ cover' = [cover EXCEPT ![a] = NewCover(k, @)]
    /\ Lend(k)
    /\ Ends(k)
    /\ UNCHANGED <<uploads, stored, abandoned>>

-----------------------------------------------------------------------------
(* DELETE: the controller deletes the image, then has the articles service *)
(* remove the article, which deletes the cover it finds once more.  The    *)
(* public API calls the service directly.                                  *)

AskRemove(k, a) ==
    /\ call[k].pc = "idle"
    /\ RoleOf[k] = "MODERATOR"
    /\ Exists(a)
    /\ call' = [call EXCEPT ![k] =
           [Idle EXCEPT !.pc = IF cover[a] = 0 THEN "finding" ELSE "unlinking",
                        !.of = a, !.old = cover[a]]]
    /\ UNCHANGED <<status, cover, uploads, stored, lent, abandoned>>

Unlink(k) ==
    /\ call[k].pc = "unlinking"
    /\ Deletes(call[k].old)
    /\ Goes(k, "finding")
    /\ UNCHANGED <<status, cover, uploads, lent, abandoned>>

FindForRemove(k) == LET a == call[k].of IN
    /\ call[k].pc = "finding"
    /\ Exists(a)
    /\ call' = [call EXCEPT ![k].pc = "found", ![k].old = cover[a]]
    /\ UNCHANGED <<status, cover, uploads, stored, lent, abandoned>>

FindForPublicRemove(k, a) ==
    /\ call[k].pc = "idle"
    /\ Exists(a)
    /\ call' = [call EXCEPT ![k] = [Idle EXCEPT !.pc = "found", !.of = a, !.old = cover[a]]]
    /\ UNCHANGED <<status, cover, uploads, stored, lent, abandoned>>

CommitRemove(k) == LET a == call[k].of IN
    /\ call[k].pc = "found"
    /\ Exists(a)
    /\ status' = [status EXCEPT ![a] = Deleted]
    /\ cover' = [cover EXCEPT ![a] = 0]
    /\ Goes(k, "cleaning")
    /\ UNCHANGED <<uploads, stored, lent, abandoned>>

CleanUp(k) ==
    /\ call[k].pc = "cleaning"
    /\ Deletes(call[k].old)
    /\ Ends(k)
    /\ UNCHANGED <<status, cover, uploads, lent, abandoned>>

-----------------------------------------------------------------------------
(* The call ends early: the upload or a lookup fails, the article is gone, *)
(* the transition is not valid, the transaction is rolled back, or the     *)
(* process dies.                                                           *)
CallFails(k) ==
    /\ call[k].pc # "idle"
    /\ abandoned' = abandoned \cup ({call[k].old} \ (stored \cup {0}))
    /\ Ends(k)
    /\ UNCHANGED <<status, cover, uploads, stored, lent>>

Next ==
    \E k \in Caller :
        \/ \E to \in Requested \cup {NoStatus}, change \in CoverChange,
              image \in 0..uploads :
               \/ AskCreate(k, to, change, image)
               \/ \E a \in Article : AskUpdate(k, a, to, change, image)
        \/ ReadExisting(k) \/ UploadImage(k) \/ DeleteOld(k)
        \/ \E a \in Article, bannedWord \in BOOLEAN : CommitCreate(k, a, bannedWord)
        \/ ReadForUpdate(k) \/ CommitUpdate(k)
        \/ \E a \in Article : AskRemove(k, a) \/ FindForPublicRemove(k, a)
        \/ Unlink(k) \/ FindForRemove(k) \/ CommitRemove(k) \/ CleanUp(k)
        \/ CallFails(k)

Spec == Init /\ [][Next]_vars

-----------------------------------------------------------------------------
(* Properties.                                                             *)

(* An author's update, in this step, takes a into or out of a moderation   *)
(* status.                                                                 *)
Overrules(k, a) ==
    /\ call[k].pc = "checked" /\ call'[k].pc = "idle"
    /\ RoleOf[k] = "AUTHOR" /\ call[k].of = a
    /\ status'[a] # status[a]
    /\ {status[a], status'[a]} \cap ModerationStatus # {}

(* "An AUTHOR cannot hide an article, nor republish one a moderator hid"   *)
(* (admin-articles.controller.ts:86-90).                                   *)
AuthorsDoNotModerate == [][\A k \in Caller, a \in Article : ~Overrules(k, a)]_vars

(* How far that holds: an author overrules a moderator only in a call that *)
(* was let through for another status than the one it overwrites, however  *)
(* long its upload took and whatever happened meanwhile.                   *)
AuthorsModerateOnlyBlindly == [][\A k \in Caller, a \in Article :
    Overrules(k, a) => status[a] # call[k].from]_vars

(* The call has deleted, or let go of, a's old image, and is about to      *)
(* replace it or to remove a.                                              *)
Replaces(k, a) ==
    /\ call[k].pc \in {"ready", "checked", "finding", "found"}
    /\ call[k].of = a
    /\ call[k].old = cover[a]

(* Deleting an image before the database stops naming it (fileharbor       *)
(* .service.ts:130, admin-articles.controller.ts:536) breaks no other      *)
(* article's cover, nor one set meanwhile: a cover that is no longer       *)
(* served is being replaced, or was left by a call that failed, or was     *)
(* named by a client.                                                      *)
DeadCoversAreAccountedFor == \A a \in Article :
    Exists(a) /\ cover[a] # 0 /\ cover[a] \notin stored =>
        cover[a] \in abandoned \cup lent \/ \E k \in Caller : Replaces(k, a)
=============================================================================
