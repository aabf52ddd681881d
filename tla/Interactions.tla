----------------------------- MODULE Interactions -----------------------------
(***************************************************************************)
(* Likes and bookmarks: the toggles of users who may click twice, the      *)
(* counter articles.likesCount, user rows created on a user's first        *)
(* request, and account deletion, which takes the user's likes back.       *)
(*                                                                         *)
(* As in CommentModeration, calls interleave at their database statements, *)
(* and a step ends where a transaction has to wait or reads what it does   *)
(* not lock.  countView, one atomic increment, is left out.                *)
(***************************************************************************)
EXTENDS Integers, FiniteSets

CONSTANTS
    Article,
    User,           \* external ids
    Click,          \* concurrent calls of toggleLikeArticle and bookmarks.toggle
    Deletion,       \* concurrent calls of users.deleteUser
    MaxAccounts     \* bound: user rows created

ASSUME InteractionsAssumption ==
    /\ IsFiniteSet(User)
    /\ MaxAccounts \in Nat \ {0}

VARIABLES
    status,         \* each article's: PUBLISHED, another one, or Deleted
    likesCount,
    likes,          \* the rows of likes, <<article, user>>
    bookmarks,
    userId,         \* the id of each user's row, 0 if there is none
    accounts,       \* the user rows created so far, numbered from 1
    click,
    deletion

articleVars == <<status, likesCount>>
userVars == <<userId, accounts>>
vars == <<articleVars, likes, bookmarks, userVars, click, deletion>>

Deleted == "deleted"
Status == {"PUBLISHED", "HIDDEN", Deleted}
Answer == {"none", "on", "off"}     \* none: not yet, or an error
NoCall == "nobody"

IdleClick == [pc |-> "idle", table |-> "likes", article |-> NoCall, user |-> NoCall,
              id |-> 0, answer |-> "none"]
IdleDeletion == [pc |-> "idle", user |-> NoCall, id |-> 0, list |-> {}]

ClickRecord == [pc : {"idle", "select", "insert", "conflict", "ready", "removing", "adding"},
                table : {"likes", "bookmarks"}, article : Article \cup {NoCall},
                user : User \cup {NoCall}, id : 0..MaxAccounts, answer : Answer]
(* A call that works on its row has found or made a user. *)
ClickState == {c \in ClickRecord : c.pc \in {"ready", "removing", "adding"} => c.id # 0}
DeletionState == [pc : {"idle", "started", "listed"}, user : User \cup {NoCall},
                  id : 0..MaxAccounts, list : SUBSET Article]

TypeOK ==
    /\ status \in [Article -> Status]
    /\ likesCount \in [Article -> Int]
    /\ likes \subseteq Article \X User
    /\ bookmarks \subseteq Article \X User
    /\ userId \in [User -> 0..MaxAccounts]
    /\ accounts \in 0..MaxAccounts
    /\ click \in [Click -> ClickState]
    /\ deletion \in [Deletion -> DeletionState]

Init ==
    /\ status \in [Article -> {"PUBLISHED", "HIDDEN"}]
    /\ likesCount = [a \in Article |-> 0]
    /\ likes = {} /\ bookmarks = {}
    /\ userId = [u \in User |-> 0]
    /\ accounts = 0
    /\ click = [k \in Click |-> IdleClick]
    /\ deletion = [d \in Deletion |-> IdleDeletion]

Exists(a) == status[a] # Deleted

(* The row a call toggles. *)
Row(k) == <<click[k].article, click[k].user>>

(* The row is a like some transaction has deleted and not yet committed:   *)
(* whoever wants to delete it, or to insert its key again, waits.          *)
Held(row) == \E k \in Click : click[k].pc = "removing" /\ Row(k) = row

(* The call is over. *)
Ends(k, answer) == click' = [click EXCEPT ![k] = [IdleClick EXCEPT !.answer = answer]]

-----------------------------------------------------------------------------
(* What both toggles begin with: the article is published, and its user    *)
(* has a row (ensureUser, a SELECT and then an INSERT).                    *)

FindArticle(k, table, a, u) ==
    /\ click[k].pc = "idle"
    /\ status[a] = "PUBLISHED"
    /\ click' = [click EXCEPT ![k] =
           [pc |-> "select", table |-> table, article |-> a, user |-> u,
            id |-> 0, answer |-> "none"]]
    /\ UNCHANGED <<articleVars, likes, bookmarks, userVars, deletion>>

SelectUser(k) == LET id == userId[click[k].user] IN
    /\ click[k].pc = "select"
    /\ click' = [click EXCEPT ![k].pc = IF id = 0 THEN "insert" ELSE "ready", ![k].id = id]
    /\ UNCHANGED <<articleVars, likes, bookmarks, userVars, deletion>>

InsertUser(k) == LET u == click[k].user IN
    /\ click[k].pc = "insert"
    /\ userId[u] = 0
    /\ accounts < MaxAccounts
    /\ accounts' = accounts + 1
    /\ userId' = [userId EXCEPT ![u] = accounts + 1]
    /\ click' = [click EXCEPT ![k].pc = "ready", ![k].id = accounts + 1]
    /\ UNCHANGED <<articleVars, likes, bookmarks, deletion>>

(* P2002: another call has inserted the row. *)
InsertConflict(k) ==
    /\ click[k].pc = "insert"
    /\ userId[click[k].user] # 0
    /\ click' = [click EXCEPT ![k].pc = "conflict"]
    /\ UNCHANGED <<articleVars, likes, bookmarks, userVars, deletion>>

\* Mutant: findUnique, which does not throw.
RereadOrNothing(k) == LET id == userId[click[k].user] IN
    /\ click[k].pc = "conflict"
    /\ click' = [click EXCEPT ![k].pc = "ready", ![k].id = id]
    /\ UNCHANGED <<articleVars, likes, bookmarks, userVars, deletion>>

(* findUniqueOrThrow. *)
RereadUser(k) == LET id == userId[click[k].user] IN
    /\ click[k].pc = "conflict"
    /\ \/ /\ id # 0
          /\ click' = [click EXCEPT ![k].pc = "ready", ![k].id = id]
       \/ /\ id = 0
          /\ Ends(k, "none")
    /\ UNCHANGED <<articleVars, likes, bookmarks, userVars, deletion>>

(* The user row the call works for is still there. *)
UserLives(k) == userId[click[k].user] = click[k].id

-----------------------------------------------------------------------------
(* toggleLikeArticle: delete-first, in one transaction with the counter.   *)

DeleteLike(k) ==
    /\ click[k].pc = "ready" /\ click[k].table = "likes"
    /\ ~Held(Row(k))
    /\ click' = [click EXCEPT ![k].pc =
           IF Row(k) \in likes /\ UserLives(k) THEN "removing" ELSE "adding"]
    /\ UNCHANGED <<articleVars, likes, bookmarks, userVars, deletion>>

CommitUnlike(k) ==
    /\ click[k].pc = "removing"
    /\ likes' = likes \ {Row(k)}
    /\ likesCount' = [likesCount EXCEPT ![click[k].article] = @ - 1]
    /\ Ends(k, "off")
    /\ UNCHANGED <<status, bookmarks, userVars, deletion>>

(* The foreign keys of a new like or bookmark hold. *)
MayAdd(k) == Exists(click[k].article) /\ UserLives(k)

CommitLike(k) ==
    /\ click[k].pc = "adding" /\ click[k].table = "likes"
    /\ MayAdd(k)
    /\ Row(k) \notin likes
    /\ likes' = likes \cup {Row(k)}
    /\ likesCount' = [likesCount EXCEPT ![click[k].article] = @ + 1]
    /\ Ends(k, "on")
    /\ UNCHANGED <<status, bookmarks, userVars, deletion>>

\* Mutants: the increment is not in the transaction; the answer is the deletion's.
ConflictKeepsIncrement(k) ==
    /\ click[k].pc = "adding" /\ click[k].table = "likes"
    /\ MayAdd(k)
    /\ Row(k) \in likes /\ ~Held(Row(k))
    /\ likesCount' = [likesCount EXCEPT ![click[k].article] = @ + 1]
    /\ Ends(k, "on")
    /\ UNCHANGED <<status, likes, bookmarks, userVars, deletion>>

ConflictAnswersOff(k) ==
    /\ click[k].pc = "adding" /\ click[k].table = "likes"
    /\ MayAdd(k)
    /\ Row(k) \in likes /\ ~Held(Row(k))
    /\ Ends(k, "off")
    /\ UNCHANGED <<articleVars, likes, bookmarks, userVars, deletion>>

(* P2002: a concurrent click has liked; the increment is rolled back. *)
LikeConflict(k) ==
    /\ click[k].pc = "adding" /\ click[k].table = "likes"
    /\ MayAdd(k)
    /\ Row(k) \in likes /\ ~Held(Row(k))
    /\ Ends(k, "on")
    /\ UNCHANGED <<articleVars, likes, bookmarks, userVars, deletion>>

-----------------------------------------------------------------------------
(* bookmarks.toggle: the same, as two statements that each commit.         *)

DeleteBookmark(k) ==
    /\ click[k].pc = "ready" /\ click[k].table = "bookmarks"
    /\ \/ /\ Row(k) \in bookmarks /\ UserLives(k)
          /\ bookmarks' = bookmarks \ {Row(k)}
          /\ Ends(k, "off")
       \/ /\ ~(Row(k) \in bookmarks /\ UserLives(k))
          /\ click' = [click EXCEPT ![k].pc = "adding"]
          /\ UNCHANGED bookmarks
    /\ UNCHANGED <<articleVars, likes, userVars, deletion>>

(* On P2002 the row is there already. *)
CreateBookmark(k) ==
    /\ click[k].pc = "adding" /\ click[k].table = "bookmarks"
    /\ MayAdd(k)
    /\ bookmarks' = bookmarks \cup {Row(k)}
    /\ Ends(k, "on")
    /\ UNCHANGED <<articleVars, likes, userVars, deletion>>

(* The transaction is rolled back, or the second statement not run: the    *)
(* article or the user is gone, two transactions wait for each other (a    *)
(* click that holds the article for the key of a like, another that        *)
(* deleted that like for the article), or the process dies.                *)
ToggleFails(k) ==
    /\ click[k].pc \in {"removing", "adding"}
    /\ Ends(k, "none")
    /\ UNCHANGED <<articleVars, likes, bookmarks, userVars, deletion>>

-----------------------------------------------------------------------------
(* users.deleteUser: the likes are listed without a lock, deleted by that  *)
(* list, and the counters decremented by it; the user's row takes with it  *)
(* whatever has been added meanwhile.                                      *)

FindUser(d, u) ==
    /\ deletion[d].pc = "idle"
    /\ userId[u] # 0
    /\ deletion' = [deletion EXCEPT ![d] =
           [pc |-> "started", user |-> u, id |-> userId[u], list |-> {}]]
    /\ UNCHANGED <<articleVars, likes, bookmarks, userVars, click>>

(* The user's rows, if the row found is still the user's. *)
Own(d, table) == {row \in table : row[2] = deletion[d].user
                                  /\ userId[deletion[d].user] = deletion[d].id}

FindLikes(d) ==
    /\ deletion[d].pc = "started"
    /\ deletion' = [deletion EXCEPT ![d].pc = "listed",
                                    ![d].list = {row[1] : row \in Own(d, likes)}]
    /\ UNCHANGED <<articleVars, likes, bookmarks, userVars, click>>

CommitDeletion(d) == LET u == deletion[d].user IN
    /\ deletion[d].pc = "listed"
    /\ \A row \in Own(d, likes) : ~Held(row)
    /\ likes' = likes \ Own(d, likes)
    /\ bookmarks' = bookmarks \ Own(d, bookmarks)
    /\ likesCount' = [a \in Article |->
           IF a \in deletion[d].list /\ Exists(a) THEN likesCount[a] - 1 ELSE likesCount[a]]
    /\ userId' = [userId EXCEPT ![u] = IF @ = deletion[d].id THEN 0 ELSE @]
    /\ deletion' = [deletion EXCEPT ![d] = IdleDeletion]
    /\ UNCHANGED <<status, accounts, click>>

(* Rolled back: the user has written a comment since (P2003), a statement  *)
(* fails, or the process dies.                                             *)
DeletionFails(d) ==
    /\ deletion[d].pc # "idle"
    /\ deletion' = [deletion EXCEPT ![d] = IdleDeletion]
    /\ UNCHANGED <<articleVars, likes, bookmarks, userVars, click>>

-----------------------------------------------------------------------------
(* Articles are published and taken down, and deleted with their rows. *)

SetStatus(a, s) ==
    /\ Exists(a)
    /\ s # status[a]
    /\ status' = [status EXCEPT ![a] = s]
    /\ UNCHANGED <<likesCount, likes, bookmarks, userVars, click, deletion>>

RemoveArticle(a) ==
    /\ Exists(a)
    /\ \A row \in likes : row[1] = a => ~Held(row)
    /\ status' = [status EXCEPT ![a] = Deleted]
    /\ likes' = {row \in likes : row[1] # a}
    /\ bookmarks' = {row \in bookmarks : row[1] # a}
    /\ UNCHANGED <<likesCount, userVars, click, deletion>>

Next ==
    \/ \E k \in Click :
        \/ \E table \in {"likes", "bookmarks"}, a \in Article, u \in User :
               FindArticle(k, table, a, u)
        \/ SelectUser(k) \/ InsertUser(k) \/ InsertConflict(k) \/ RereadUser(k)
        \/ DeleteLike(k) \/ CommitUnlike(k) \/ CommitLike(k) \/ LikeConflict(k)
        \/ DeleteBookmark(k) \/ CreateBookmark(k) \/ ToggleFails(k)
    \/ \E d \in Deletion : \/ \E u \in User : FindUser(d, u)
                           \/ FindLikes(d) \/ CommitDeletion(d) \/ DeletionFails(d)
    \/ \E a \in Article : \/ \E s \in {"PUBLISHED", "HIDDEN"} : SetStatus(a, s)
                          \/ RemoveArticle(a)

Spec == Init /\ [][Next]_vars

-----------------------------------------------------------------------------
(* Properties.                                                             *)

LikersOf(a) == {u \in User : <<a, u>> \in likes}

(* How far likesCount is from the rows it counts. *)
Drift(a) == likesCount[a] - Cardinality(LikersOf(a))

(* likesCount is the number of likes: a deletion decrements the counters   *)
(* its likes fed (users.service.ts:195-199).                               *)
LikesAreCounted == \A a \in Article : Exists(a) => Drift(a) = 0

(* The commit, in this step, of a deletion whose list is wrong about a:    *)
(* its user has liked or unliked a since, or another deletion was faster.  *)
StaleDeletion(a) == \E d \in Deletion :
    /\ deletion[d].pc = "listed" /\ deletion'[d].pc = "idle"
    /\ (a \in deletion[d].list) # (\E row \in Own(d, likes) : row[1] = a)

(* Nothing else moves the counter away from the rows: however many clicks  *)
(* come at once, fail or overlap an article's removal, and however         *)
(* accounts come and go, only a deletion with a stale list does.           *)
DriftOnlyByStaleDeletion == [][\A a \in Article :
    Exists(a) /\ Exists(a)' => Drift(a)' = Drift(a) \/ StaleDeletion(a)]_vars

(* A toggle's answer is the state it leaves the row in, also for the click *)
(* that lost the race for the insert ("the like exists either way, so      *)
(* report liked", interactions.service.ts:53).                             *)
AnswerIsTheRow == [][\A k \in Click :
    click[k].pc # "idle" /\ click'[k].pc = "idle" /\ click'[k].answer # "none" =>
        LET rows == IF click[k].table = "likes" THEN likes' ELSE bookmarks'
        IN  click'[k].answer = "on" <=> Row(k) \in rows]_vars
=============================================================================
