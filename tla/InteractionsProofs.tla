-------------------------- MODULE InteractionsProofs --------------------------
(***************************************************************************)
(* Theorems about Interactions, for any number of articles, users, clicks  *)
(* and deletions.                                                          *)
(***************************************************************************)
EXTENDS Interactions, FiniteSetTheorems, TLAPS

(* A call in progress toggles a row of some article and user. *)
BusyHasRow == \A k \in Click : click[k].pc # "idle" => Row(k) \in Article \X User

(* A like being removed is there until the transaction that deleted it     *)
(* commits, and no other click has deleted it too: what the row lock is    *)
(* for, and what makes the decrement right.                                *)
HeldIsThere == \A k \in Click : click[k].pc = "removing" => Row(k) \in likes
HeldAlone == \A j, k \in Click :
    click[j].pc = "removing" /\ click[k].pc = "removing" /\ Row(j) = Row(k) => j = k

IInv == TypeOK /\ BusyHasRow /\ HeldIsThere /\ HeldAlone

-----------------------------------------------------------------------------
(* The likers of an article, and what adding or removing rows does to      *)
(* their number.                                                           *)
Likers(rows, a) == {u \in User : <<a, u>> \in rows}

LEMMA LikersAreFinite ==
    ASSUME NEW rows, NEW a
    PROVE  IsFiniteSet(Likers(rows, a)) /\ Cardinality(Likers(rows, a)) \in Nat
<1>1. Likers(rows, a) \in SUBSET User
  BY DEF Likers
<1>2. IsFiniteSet(Likers(rows, a))
  BY <1>1, FS_Subset, InteractionsAssumption
<1> QED BY <1>2, FS_CardinalityType

(* One more liker of b, and of no other article. *)
LEMMA AddLiker ==
    ASSUME NEW rows, NEW a, NEW b, NEW u \in User, <<b, u>> \notin rows
    PROVE  Cardinality(Likers(rows \cup {<<b, u>>}, a)) =
               Cardinality(Likers(rows, a)) + (IF a = b THEN 1 ELSE 0)
<1>0. IsFiniteSet(Likers(rows, a)) /\ Cardinality(Likers(rows, a)) \in Nat
  BY LikersAreFinite
<1>1. CASE a = b
  <2>1. Likers(rows \cup {<<b, u>>}, a) = Likers(rows, a) \cup {u}
    BY <1>1 DEF Likers
  <2>2. u \notin Likers(rows, a)
    BY <1>1 DEF Likers
  <2> QED BY <1>0, <1>1, <2>1, <2>2, FS_AddElement
<1>2. CASE a # b
  <2>1. Likers(rows \cup {<<b, u>>}, a) = Likers(rows, a)
    BY <1>2 DEF Likers
  <2> QED BY <1>0, <1>2, <2>1
<1> QED BY <1>1, <1>2

(* One liker of b less. *)
LEMMA RemoveLiker ==
    ASSUME NEW rows, NEW a, NEW b, NEW u \in User, <<b, u>> \in rows
    PROVE  Cardinality(Likers(rows \ {<<b, u>>}, a)) =
               Cardinality(Likers(rows, a)) - (IF a = b THEN 1 ELSE 0)
<1>0. IsFiniteSet(Likers(rows, a)) /\ Cardinality(Likers(rows, a)) \in Nat
  BY LikersAreFinite
<1>1. CASE a = b
  <2>1. Likers(rows \ {<<b, u>>}, a) = Likers(rows, a) \ {u}
    BY <1>1 DEF Likers
  <2>2. u \in Likers(rows, a)
    BY <1>1 DEF Likers
  <2> QED BY <1>0, <1>1, <2>1, <2>2, FS_RemoveElement
<1>2. CASE a # b
  <2>1. Likers(rows \ {<<b, u>>}, a) = Likers(rows, a)
    BY <1>2 DEF Likers
  <2> QED BY <1>0, <1>2, <2>1
<1> QED BY <1>1, <1>2

-----------------------------------------------------------------------------
(* The invariant holds at first. *)
LEMMA InitInv == Init => IInv
BY InteractionsAssumption
   DEF Init, IInv, TypeOK, ClickState, ClickRecord, DeletionState, Status, Answer, Deleted, IdleClick, IdleDeletion, NoCall,
       BusyHasRow, HeldIsThere, HeldAlone

(* A call that moves to another of its states keeps the calls' type, if it *)
(* knows its user where it has to.                                         *)
Working == {"ready", "removing", "adding"}
ClickPc == {"idle", "select", "insert", "conflict"} \cup Working

LEMMA ClickMoves ==
    ASSUME click \in [Click -> ClickState], NEW k \in Click, NEW pc \in ClickPc,
           pc \in Working => click[k].id # 0
    PROVE  [click EXCEPT ![k].pc = pc] \in [Click -> ClickState]
<1>1. [click[k] EXCEPT !.pc = pc] \in ClickState
  BY DEF ClickState, ClickRecord, ClickPc, Working
<1> QED BY <1>1

LEMMA ClickLearns ==
    ASSUME click \in [Click -> ClickState], NEW k \in Click, NEW pc \in ClickPc,
           NEW id \in 0..MaxAccounts, pc \in Working => id # 0
    PROVE  [click EXCEPT ![k].pc = pc, ![k].id = id] \in [Click -> ClickState]
<1>1. click[k] \in ClickRecord
  BY DEF ClickState
<1>2. [[click[k] EXCEPT !.pc = pc] EXCEPT !.id = id] \in ClickRecord
  BY <1>1 DEF ClickRecord, ClickPc, Working
<1>3. /\ [[click[k] EXCEPT !.pc = pc] EXCEPT !.id = id].pc = pc
      /\ [[click[k] EXCEPT !.pc = pc] EXCEPT !.id = id].id = id
  BY <1>1 DEF ClickRecord
<1>4. [[click[k] EXCEPT !.pc = pc] EXCEPT !.id = id] \in ClickState
  BY <1>2, <1>3 DEF ClickState, Working
<1> QED BY <1>4

(* So does ending it. *)
LEMMA ClickEnds ==
    ASSUME click \in [Click -> ClickState], NEW k \in Click, NEW answer \in Answer,
           Ends(k, answer)
    PROVE  click' \in [Click -> ClickState]
<1>1. [IdleClick EXCEPT !.answer = answer] \in ClickState
  BY InteractionsAssumption DEF IdleClick, ClickState, ClickRecord, Answer
<1> QED BY <1>1 DEF Ends

(* Every step keeps the types. *)
LEMMA NextType == TypeOK /\ BusyHasRow /\ [Next]_vars => TypeOK'
<1> SUFFICES ASSUME TypeOK, BusyHasRow, [Next]_vars PROVE TypeOK'
  OBVIOUS
<1> USE InteractionsAssumption DEF TypeOK
<1>1. ASSUME NEW k \in Click, NEW table \in {"likes", "bookmarks"}, NEW a \in Article,
             NEW u \in User, FindArticle(k, table, a, u)
      PROVE  TypeOK'
  <2>1. [pc |-> "select", table |-> table, article |-> a, user |-> u, id |-> 0,
         answer |-> "none"] \in ClickState
    BY DEF ClickState, ClickRecord, Answer
  <2> QED BY <1>1, <2>1 DEF FindArticle, articleVars, userVars
<1>2. ASSUME NEW k \in Click,
             \/ SelectUser(k) \/ InsertUser(k) \/ InsertConflict(k) \/ RereadUser(k)
             \/ DeleteLike(k)
      PROVE  TypeOK'
  <2>0. click[k].pc # "idle"
    BY <1>2 DEF SelectUser, InsertUser, InsertConflict, RereadUser, DeleteLike
  <2>1. click[k].user \in User
    BY <2>0 DEF BusyHasRow, Row
  <2>2. userId[click[k].user] \in 0..MaxAccounts
    BY <2>1
  <2>9. click[k].pc = "ready" => click[k].id # 0
    BY DEF ClickState
  <2>3. CASE SelectUser(k)
    <3>1. click' \in [Click -> ClickState]
      BY <2>2, <2>3, ClickLearns DEF SelectUser, ClickPc, Working
    <3> QED BY <2>3, <3>1 DEF SelectUser, articleVars, userVars
  <2>4. CASE InsertUser(k)
    <3>1. accounts + 1 \in 0..MaxAccounts /\ accounts + 1 # 0
      BY <2>4 DEF InsertUser
    <3>2. click' \in [Click -> ClickState]
      BY <2>4, <3>1, ClickLearns DEF InsertUser, ClickPc, Working
    <3> QED BY <2>1, <2>4, <3>1, <3>2 DEF InsertUser, articleVars
  <2>5. CASE InsertConflict(k)
    <3>1. click' \in [Click -> ClickState]
      BY <2>5, ClickMoves DEF InsertConflict, ClickPc, Working
    <3> QED BY <2>5, <3>1 DEF InsertConflict, articleVars, userVars
  <2>6. CASE RereadUser(k)
    <3>0. Ends(k, "none") => click' \in [Click -> ClickState]
      BY ClickEnds DEF Answer
    <3>1. click' \in [Click -> ClickState]
      <4>1. CASE userId[click[k].user] = 0
        BY <2>6, <3>0, <4>1 DEF RereadUser
      <4>2. CASE userId[click[k].user] # 0
        <5>1. click' = [click EXCEPT ![k].pc = "ready", ![k].id = userId[click[k].user]]
          BY <2>6, <4>2 DEF RereadUser
        <5> QED BY <2>2, <4>2, <5>1, ClickLearns DEF ClickPc, Working
      <4> QED BY <4>1, <4>2
    <3> QED BY <2>6, <3>1 DEF RereadUser, articleVars, userVars
  <2>7. CASE DeleteLike(k)
    <3>1. click' \in [Click -> ClickState]
      BY <2>7, <2>9, ClickMoves DEF DeleteLike, ClickPc, Working
    <3> QED BY <2>7, <3>1 DEF DeleteLike, articleVars, userVars
  <2> QED BY <1>2, <2>3, <2>4, <2>5, <2>6, <2>7
<1>3. ASSUME NEW k \in Click,
             \/ CommitUnlike(k) \/ CommitLike(k) \/ LikeConflict(k)
             \/ DeleteBookmark(k) \/ CreateBookmark(k) \/ ToggleFails(k)
      PROVE  TypeOK'
  <2>0. click[k].pc # "idle"
    BY <1>3 DEF CommitUnlike, CommitLike, LikeConflict, DeleteBookmark, CreateBookmark, ToggleFails
  <2>1. Row(k) \in Article \X User
    BY <2>0 DEF BusyHasRow
  <2>2. \A answer \in Answer : Ends(k, answer) => click' \in [Click -> ClickState]
    BY ClickEnds
  <2>3. click[k].pc = "ready" => [click EXCEPT ![k].pc = "adding"] \in [Click -> ClickState]
    <3>1. click[k].pc = "ready" => click[k].id # 0
      BY DEF ClickState
    <3> QED BY <3>1, ClickMoves DEF ClickPc, Working
  <2>4. CASE CommitUnlike(k)
    <3>1. click' \in [Click -> ClickState]
      BY <2>2, <2>4 DEF CommitUnlike, Answer
    <3>2. likesCount' \in [Article -> Int]
      BY <2>1, <2>4 DEF CommitUnlike, Row
    <3> QED BY <2>4, <3>1, <3>2 DEF CommitUnlike, userVars
  <2>5. CASE CommitLike(k)
    <3>1. click' \in [Click -> ClickState]
      BY <2>2, <2>5 DEF CommitLike, Answer
    <3>2. likesCount' \in [Article -> Int]
      BY <2>1, <2>5 DEF CommitLike, Row
    <3> QED BY <2>1, <2>5, <3>1, <3>2 DEF CommitLike, userVars
  <2>6. CASE LikeConflict(k) \/ ToggleFails(k)
    BY <2>2, <2>6 DEF LikeConflict, ToggleFails, articleVars, userVars, Answer
  <2>7. CASE DeleteBookmark(k)
    BY <2>2, <2>3, <2>7 DEF DeleteBookmark, articleVars, userVars, Answer
  <2>8. CASE CreateBookmark(k)
    BY <2>1, <2>2, <2>8 DEF CreateBookmark, articleVars, userVars, Answer
  <2> QED BY <1>3, <2>4, <2>5, <2>6, <2>7, <2>8
<1>4. ASSUME NEW d \in Deletion, NEW u \in User, FindUser(d, u) PROVE TypeOK'
  <2>1. [pc |-> "started", user |-> u, id |-> userId[u], list |-> {}] \in DeletionState
    BY DEF DeletionState
  <2> QED BY <1>4, <2>1 DEF FindUser, articleVars, userVars
<1>5. ASSUME NEW d \in Deletion, FindLikes(d) PROVE TypeOK'
  <2>1. {row[1] : row \in Own(d, likes)} \in SUBSET Article
    BY DEF Own
  <2>2. [[deletion[d] EXCEPT !.pc = "listed"] EXCEPT !.list = {row[1] : row \in Own(d, likes)}]
            \in DeletionState
    BY <2>1 DEF DeletionState
  <2>3. deletion' = [deletion EXCEPT ![d] = [[deletion[d] EXCEPT !.pc = "listed"]
                                                EXCEPT !.list = {row[1] : row \in Own(d, likes)}]]
    BY <1>5 DEF FindLikes
  <2> QED BY <1>5, <2>2, <2>3 DEF FindLikes, articleVars, userVars
<1>6. ASSUME NEW d \in Deletion, CommitDeletion(d) \/ DeletionFails(d) PROVE TypeOK'
  <2>1. IdleDeletion \in DeletionState
    BY DEF IdleDeletion, DeletionState
  <2>2. CASE CommitDeletion(d)
    <3>1. likesCount' \in [Article -> Int]
      BY <2>2 DEF CommitDeletion
    <3>2. userId' \in [User -> 0..MaxAccounts]
      <4>1. CASE userId[deletion[d].user] = deletion[d].id
        <5>1. userId' = [userId EXCEPT ![deletion[d].user] = 0]
          BY <2>2, <4>1 DEF CommitDeletion
        <5>2. 0 \in 0..MaxAccounts
          OBVIOUS
        <5> QED BY <5>1, <5>2
      <4>2. CASE userId[deletion[d].user] # deletion[d].id
        <5>1. userId' = [userId EXCEPT ![deletion[d].user] = userId[deletion[d].user]]
          BY <2>2, <4>2 DEF CommitDeletion
        <5>2. CASE deletion[d].user \in User
          BY <5>1, <5>2
        <5>3. CASE deletion[d].user \notin User
          BY <5>1, <5>3
        <5> QED BY <5>2, <5>3
      <4> QED BY <4>1, <4>2
    <3>3. deletion' \in [Deletion -> DeletionState]
      BY <2>1, <2>2 DEF CommitDeletion
    <3> QED BY <2>2, <3>1, <3>2, <3>3 DEF CommitDeletion
  <2>3. CASE DeletionFails(d)
    BY <2>1, <2>3 DEF DeletionFails, articleVars, userVars
  <2> QED BY <1>6, <2>2, <2>3
<1>7. ASSUME NEW a \in Article, NEW s \in {"PUBLISHED", "HIDDEN"}, SetStatus(a, s) PROVE TypeOK'
  BY <1>7 DEF SetStatus, userVars, Status
<1>8. ASSUME NEW a \in Article, RemoveArticle(a) PROVE TypeOK'
  BY <1>8 DEF RemoveArticle, userVars, Status
<1>9. ASSUME UNCHANGED vars PROVE TypeOK'
  BY <1>9 DEF vars, articleVars, userVars
<1> QED BY <1>1, <1>2, <1>3, <1>4, <1>5, <1>6, <1>7, <1>8, <1>9 DEF Next

-----------------------------------------------------------------------------
(* Calls keep their rows, and a deleted like stays its transaction's until *)
(* it commits.                                                             *)
OthersUntouched(k) == \A j \in Click \ {k} : click'[j] = click[j]

LEMMA NextHeld == IInv /\ TypeOK' /\ [Next]_vars => BusyHasRow' /\ HeldIsThere' /\ HeldAlone'
<1> SUFFICES ASSUME IInv, TypeOK', [Next]_vars PROVE BusyHasRow' /\ HeldIsThere' /\ HeldAlone'
  OBVIOUS
<1> USE DEF IInv, Row
<1>1. ASSUME NEW k \in Click, NEW a \in Article, NEW u \in User, OthersUntouched(k),
             click'[k].pc \in {"idle", "select", "insert", "conflict", "ready", "adding"},
             click'[k].pc # "idle" => /\ click'[k].article \in Article
                                      /\ click'[k].user \in User,
             \A j \in Click : click[j].pc = "removing" /\ j # k => Row(j) \in likes'
      PROVE  BusyHasRow' /\ HeldIsThere' /\ HeldAlone'
  BY <1>1 DEF OthersUntouched, BusyHasRow, HeldIsThere, HeldAlone
<1>2. ASSUME likes \subseteq likes', click' = click
      PROVE  BusyHasRow' /\ HeldIsThere' /\ HeldAlone'
  BY <1>2 DEF BusyHasRow, HeldIsThere, HeldAlone
<1>3. ASSUME NEW k \in Click, NEW table \in {"likes", "bookmarks"}, NEW a \in Article,
             NEW u \in User, FindArticle(k, table, a, u)
      PROVE  BusyHasRow' /\ HeldIsThere' /\ HeldAlone'
  BY <1>1, <1>3 DEF FindArticle, OthersUntouched, TypeOK, HeldIsThere
<1>4. ASSUME NEW k \in Click, SelectUser(k) \/ InsertUser(k) \/ InsertConflict(k)
      PROVE  BusyHasRow' /\ HeldIsThere' /\ HeldAlone'
  <2>1. /\ OthersUntouched(k)
        /\ click'[k].pc \in {"insert", "ready", "conflict"}
        /\ click'[k].article = click[k].article
        /\ click'[k].user = click[k].user
        /\ click[k].pc # "idle"
        /\ likes' = likes
    BY <1>4 DEF SelectUser, InsertUser, InsertConflict, OthersUntouched, TypeOK, ClickState, ClickRecord
  <2>2. click[k].article \in Article /\ click[k].user \in User
    BY <2>1 DEF BusyHasRow
  <2> QED BY <1>1, <2>1, <2>2 DEF HeldIsThere
<1>5. ASSUME NEW k \in Click, RereadUser(k)
      PROVE  BusyHasRow' /\ HeldIsThere' /\ HeldAlone'
  <2>0. click[k].article \in Article /\ click[k].user \in User /\ likes' = likes
    BY <1>5 DEF RereadUser, BusyHasRow
  <2>1. CASE Ends(k, "none")
    BY <1>1, <2>0, <2>1 DEF Ends, IdleClick, OthersUntouched, TypeOK, HeldIsThere
  <2>2. CASE click' = [click EXCEPT ![k].pc = "ready", ![k].id = userId[click[k].user]]
    <3>1. /\ OthersUntouched(k)
          /\ click'[k].pc = "ready"
          /\ click'[k].article = click[k].article
          /\ click'[k].user = click[k].user
      BY <2>2 DEF OthersUntouched, TypeOK, ClickState, ClickRecord
    <3> QED BY <1>1, <2>0, <3>1 DEF HeldIsThere
  <2> QED BY <1>5, <2>1, <2>2 DEF RereadUser
<1>6. ASSUME NEW k \in Click, DeleteLike(k)
      PROVE  BusyHasRow' /\ HeldIsThere' /\ HeldAlone'
  <2>0. click[k].article \in Article /\ click[k].user \in User /\ likes' = likes
    BY <1>6 DEF DeleteLike, BusyHasRow
  <2>1. /\ OthersUntouched(k)
        /\ click'[k].pc = IF Row(k) \in likes /\ UserLives(k) THEN "removing" ELSE "adding"
        /\ click'[k].article = click[k].article
        /\ click'[k].user = click[k].user
    BY <1>6 DEF DeleteLike, OthersUntouched, TypeOK, ClickState, ClickRecord
  <2>2. CASE ~(Row(k) \in likes /\ UserLives(k))
    BY <1>1, <2>0, <2>1, <2>2 DEF HeldIsThere
  <2>3. CASE Row(k) \in likes /\ UserLives(k)
    <3>1. \A j \in Click : click[j].pc = "removing" => Row(j) # Row(k)
      BY <1>6 DEF DeleteLike, Held
    <3> QED BY <2>0, <2>1, <2>3, <3>1 DEF OthersUntouched, BusyHasRow, HeldIsThere, HeldAlone
  <2> QED BY <2>2, <2>3
<1>7. ASSUME NEW k \in Click, CommitUnlike(k)
      PROVE  BusyHasRow' /\ HeldIsThere' /\ HeldAlone'
  <2>0. click[k].article \in Article /\ click[k].user \in User
    BY <1>7 DEF CommitUnlike, BusyHasRow
  <2>1. OthersUntouched(k) /\ click'[k].pc = "idle"
    BY <1>7 DEF CommitUnlike, Ends, IdleClick, OthersUntouched, TypeOK
  <2>2. \A j \in Click : click[j].pc = "removing" /\ j # k => Row(j) \in likes'
    BY <1>7 DEF CommitUnlike, HeldIsThere, HeldAlone
  <2> QED BY <1>1, <2>0, <2>1, <2>2
<1>8. ASSUME NEW k \in Click,
             \/ CommitLike(k) \/ LikeConflict(k) \/ CreateBookmark(k) \/ ToggleFails(k)
      PROVE  BusyHasRow' /\ HeldIsThere' /\ HeldAlone'
  <2>0. click[k].article \in Article /\ click[k].user \in User
    BY <1>8 DEF CommitLike, LikeConflict, CreateBookmark, ToggleFails, BusyHasRow
  <2>1. OthersUntouched(k) /\ click'[k].pc = "idle"
    BY <1>8 DEF CommitLike, LikeConflict, CreateBookmark, ToggleFails, Ends, IdleClick,
                OthersUntouched, TypeOK
  <2>2. likes \subseteq likes'
    BY <1>8 DEF CommitLike, LikeConflict, CreateBookmark, ToggleFails
  <2> QED BY <1>1, <2>0, <2>1, <2>2 DEF HeldIsThere
<1>9. ASSUME NEW k \in Click, DeleteBookmark(k)
      PROVE  BusyHasRow' /\ HeldIsThere' /\ HeldAlone'
  <2>0. click[k].article \in Article /\ click[k].user \in User /\ likes' = likes
    BY <1>9 DEF DeleteBookmark, BusyHasRow
  <2>1. CASE Ends(k, "off")
    BY <1>1, <2>0, <2>1 DEF Ends, IdleClick, OthersUntouched, TypeOK, HeldIsThere
  <2>2. CASE click' = [click EXCEPT ![k].pc = "adding"]
    <3>1. /\ OthersUntouched(k)
          /\ click'[k].pc = "adding"
          /\ click'[k].article = click[k].article
          /\ click'[k].user = click[k].user
      BY <2>2 DEF OthersUntouched, TypeOK, ClickState, ClickRecord
    <3> QED BY <1>1, <2>0, <3>1 DEF HeldIsThere
  <2> QED BY <1>9, <2>1, <2>2 DEF DeleteBookmark
<1>10. ASSUME NEW d \in Deletion, CommitDeletion(d)
       PROVE  BusyHasRow' /\ HeldIsThere' /\ HeldAlone'
  <2>1. click' = click
    BY <1>10 DEF CommitDeletion
  <2>2. \A j \in Click : click[j].pc = "removing" => Row(j) \in likes'
    BY <1>10 DEF CommitDeletion, HeldIsThere, Held
  <2> QED BY <2>1, <2>2 DEF BusyHasRow, HeldIsThere, HeldAlone
<1>11. ASSUME NEW a \in Article, RemoveArticle(a)
       PROVE  BusyHasRow' /\ HeldIsThere' /\ HeldAlone'
  <2>1. click' = click
    BY <1>11 DEF RemoveArticle
  <2>2. \A j \in Click : click[j].pc = "removing" => Row(j) \in likes'
    BY <1>11 DEF RemoveArticle, HeldIsThere, Held
  <2> QED BY <2>1, <2>2 DEF BusyHasRow, HeldIsThere, HeldAlone
<1>12. ASSUME NEW d \in Deletion,
              \/ \E u \in User : FindUser(d, u)
              \/ FindLikes(d) \/ DeletionFails(d)
       PROVE  BusyHasRow' /\ HeldIsThere' /\ HeldAlone'
  BY <1>2, <1>12 DEF FindUser, FindLikes, DeletionFails
<1>13. ASSUME NEW a \in Article, NEW s \in {"PUBLISHED", "HIDDEN"}, SetStatus(a, s)
       PROVE  BusyHasRow' /\ HeldIsThere' /\ HeldAlone'
  BY <1>2, <1>13 DEF SetStatus
<1>14. ASSUME UNCHANGED vars PROVE BusyHasRow' /\ HeldIsThere' /\ HeldAlone'
  BY <1>2, <1>14 DEF vars
<1> QED
  BY <1>3, <1>4, <1>5, <1>6, <1>7, <1>8, <1>9, <1>10, <1>11, <1>12, <1>13, <1>14 DEF Next

(* Calls keep their rows and locks their owners, whatever happens. *)
THEOREM Invariance == Spec => []IInv
<1>1. Init => IInv
  BY InitInv
<1>2. IInv /\ [Next]_vars => IInv'
  BY NextType, NextHeld DEF IInv
<1> QED BY <1>1, <1>2, PTL DEF Spec

(* A call that works on its row has found or made its user, also where the *)
(* row it collided with is gone again (findUniqueOrThrow in               *)
(* ensureUser, prisma.service.ts:44).                                      *)
THEOREM TypeCorrect == Spec => []TypeOK
<1>1. IInv => TypeOK
  BY DEF IInv
<1> QED BY <1>1, Invariance, PTL

-----------------------------------------------------------------------------
(* The counter and the rows.                                               *)
CountMoves(a) == likesCount'[a] - Cardinality(Likers(likes', a)) =
                     likesCount[a] - Cardinality(Likers(likes, a))

(* A drift is told by the rows in question. *)
LEMMA DriftIsLikers == \A a : LikersOf(a) = Likers(likes, a) /\ LikersOf(a)' = Likers(likes', a)
BY DEF LikersOf, Likers

(* Only the commit of a deletion with a stale list moves a counter away    *)
(* from the rows it counts.                                                *)
LEMMA StepDrift ==
    ASSUME IInv, [Next]_vars, NEW a \in Article, Exists(a), Exists(a)'
    PROVE  CountMoves(a) \/ StaleDeletion(a)
<1> DEFINE n == Cardinality(Likers(likes, a))
<1>0. n \in Nat /\ likesCount[a] \in Int /\ Cardinality(Likers(likes', a)) \in Nat
  BY LikersAreFinite DEF IInv, TypeOK
<1>1. ASSUME likes' = likes, likesCount' = likesCount PROVE CountMoves(a)
  BY <1>1 DEF CountMoves
<1>2. ASSUME NEW k \in Click, CommitUnlike(k) PROVE CountMoves(a)
  <2>1. click[k].article \in Article /\ click[k].user \in User /\ Row(k) \in likes
    BY <1>2 DEF CommitUnlike, IInv, BusyHasRow, HeldIsThere, Row
  <2>2. Cardinality(Likers(likes', a)) = n - (IF a = click[k].article THEN 1 ELSE 0)
    BY <1>2, <2>1, RemoveLiker DEF CommitUnlike, Row
  <2>3. likesCount'[a] = likesCount[a] - (IF a = click[k].article THEN 1 ELSE 0)
    BY <1>0, <1>2, <2>1 DEF CommitUnlike, IInv, TypeOK
  <2> QED BY <1>0, <2>2, <2>3 DEF CountMoves
<1>3. ASSUME NEW k \in Click, CommitLike(k) PROVE CountMoves(a)
  <2>1. click[k].article \in Article /\ click[k].user \in User /\ Row(k) \notin likes
    BY <1>3 DEF CommitLike, IInv, BusyHasRow, Row
  <2>2. Cardinality(Likers(likes', a)) = n + (IF a = click[k].article THEN 1 ELSE 0)
    BY <1>3, <2>1, AddLiker DEF CommitLike, Row
  <2>3. likesCount'[a] = likesCount[a] + (IF a = click[k].article THEN 1 ELSE 0)
    BY <1>0, <1>3, <2>1 DEF CommitLike, IInv, TypeOK
  <2> QED BY <1>0, <2>2, <2>3 DEF CountMoves
<1>4. ASSUME NEW d \in Deletion, CommitDeletion(d), ~StaleDeletion(a) PROVE CountMoves(a)
  <2> DEFINE u == deletion[d].user
             owns == \E row \in Own(d, likes) : row[1] = a
  <2>1. (a \in deletion[d].list) = owns
    BY <1>4 DEF StaleDeletion, CommitDeletion, IdleDeletion, IInv, TypeOK
  <2>2. likesCount'[a] = likesCount[a] - (IF a \in deletion[d].list THEN 1 ELSE 0)
    BY <1>0, <1>4 DEF CommitDeletion
  <2>3. CASE owns
    <3>1. PICK row \in Own(d, likes) : row[1] = a
      BY <2>3
    <3>2. u \in User /\ <<a, u>> \in Own(d, likes)
      BY <3>1 DEF Own, IInv, TypeOK
    <3>3. Likers(likes', a) = Likers(likes \ {<<a, u>>}, a)
      BY <1>4, <3>2 DEF CommitDeletion, Own, Likers
    <3>4. <<a, u>> \in likes
      BY <3>2 DEF Own
    <3>5. Cardinality(Likers(likes', a)) = n - 1
      BY <3>2, <3>3, <3>4, RemoveLiker
    <3>6. a \in deletion[d].list
      BY <2>1, <2>3, Zenon
    <3> HIDE DEF owns
    <3> QED BY <1>0, <2>2, <3>5, <3>6 DEF CountMoves
  <2>4. CASE ~owns
    <3>1. Likers(likes', a) = Likers(likes, a)
      BY <1>4, <2>4 DEF CommitDeletion, Likers, Own
    <3>2. a \notin deletion[d].list
      BY <2>1, <2>4, Zenon
    <3> HIDE DEF owns
    <3> QED BY <1>0, <2>2, <3>1, <3>2 DEF CountMoves
  <2> QED BY <2>3, <2>4
<1>5. ASSUME NEW b \in Article, RemoveArticle(b) PROVE CountMoves(a)
  <2>1. a # b
    BY <1>5 DEF RemoveArticle, Exists, Deleted, IInv, TypeOK
  <2>2. Likers(likes', a) = Likers(likes, a)
    BY <1>5, <2>1 DEF RemoveArticle, Likers
  <2> QED BY <1>5, <2>2 DEF RemoveArticle, CountMoves
<1>6. ASSUME NEW k \in Click,
             \/ \E table \in {"likes", "bookmarks"}, b \in Article, u \in User :
                    FindArticle(k, table, b, u)
             \/ SelectUser(k) \/ InsertUser(k) \/ InsertConflict(k) \/ RereadUser(k)
             \/ DeleteLike(k) \/ LikeConflict(k) \/ DeleteBookmark(k) \/ CreateBookmark(k)
             \/ ToggleFails(k)
      PROVE  CountMoves(a)
  BY <1>1, <1>6 DEF FindArticle, SelectUser, InsertUser, InsertConflict, RereadUser, DeleteLike,
     LikeConflict, DeleteBookmark, CreateBookmark, ToggleFails, articleVars
<1>7. ASSUME \/ \E d \in Deletion : \/ \E u \in User : FindUser(d, u)
                                    \/ FindLikes(d) \/ DeletionFails(d)
             \/ \E b \in Article, s \in {"PUBLISHED", "HIDDEN"} : SetStatus(b, s)
      PROVE  CountMoves(a)
  BY <1>1, <1>7 DEF FindUser, FindLikes, DeletionFails, SetStatus, articleVars
<1>8. ASSUME UNCHANGED vars PROVE CountMoves(a)
  BY <1>1, <1>8 DEF vars, articleVars
<1> QED BY <1>2, <1>3, <1>4, <1>5, <1>6, <1>7, <1>8 DEF Next

(* However many clicks come at once, fail or overlap an article's removal, *)
(* only a deletion with a stale list moves likesCount away from the rows.  *)
THEOREM OnlyStaleDeletionsDrift == Spec => DriftOnlyByStaleDeletion
<1> DEFINE Kept == \A a \in Article :
               Exists(a) /\ Exists(a)' => Drift(a)' = Drift(a) \/ StaleDeletion(a)
<1>1. ASSUME IInv, [Next]_vars PROVE Kept
  <2> SUFFICES ASSUME NEW a \in Article, Exists(a), Exists(a)'
               PROVE  Drift(a)' = Drift(a) \/ StaleDeletion(a)
    OBVIOUS
  <2>1. CountMoves(a) => Drift(a)' = Drift(a)
    BY DriftIsLikers DEF CountMoves, Drift
  <2> QED BY <1>1, <2>1, StepDrift
<1>2. IInv /\ [Next]_vars => [Kept]_vars
  BY <1>1
<1> QED BY <1>2, Invariance, PTL DEF DriftOnlyByStaleDeletion, Spec

(* Where no account is deleted, likesCount is the number of likes.         *)
THEOREM LikesAreCountedWithoutDeletions ==
    ASSUME Deletion = {}
    PROVE  Spec => []LikesAreCounted
<1>1. Init => LikesAreCounted
  <2> SUFFICES ASSUME Init, NEW a \in Article PROVE Drift(a) = 0
    BY DEF LikesAreCounted
  <2>1. LikersOf(a) = {}
    BY DEF LikersOf, Init
  <2> QED BY <2>1, FS_EmptySet DEF Drift, Init
<1>2. IInv /\ LikesAreCounted /\ [Next]_vars => LikesAreCounted'
  <2> SUFFICES ASSUME IInv, LikesAreCounted, [Next]_vars, NEW a \in Article, Exists(a)'
               PROVE  Drift(a)' = 0
    BY DEF LikesAreCounted
  <2>1. Exists(a)
    BY DEF Next, Exists, IInv, TypeOK, FindArticle, SelectUser, InsertUser, InsertConflict,
       RereadUser, DeleteLike, CommitUnlike, CommitLike, LikeConflict, DeleteBookmark,
       CreateBookmark, ToggleFails, SetStatus, RemoveArticle, vars, articleVars
  <2>2. ~StaleDeletion(a)
    BY DEF StaleDeletion
  <2>3. CountMoves(a)
    BY <2>1, <2>2, StepDrift
  <2> QED BY <2>1, <2>3, DriftIsLikers DEF CountMoves, Drift, LikesAreCounted
<1> QED BY <1>1, <1>2, Invariance, PTL DEF Spec


-----------------------------------------------------------------------------
(* The answers. *)

(* Only a like is deleted in a transaction that goes on. *)
RemovesLikes == \A k \in Click : click[k].pc = "removing" => click[k].table = "likes"

LEMMA RemovesLikesKeeps == IInv /\ RemovesLikes /\ [Next]_vars => RemovesLikes'
<1> SUFFICES ASSUME IInv, RemovesLikes, [Next]_vars, NEW j \in Click, click'[j].pc = "removing"
             PROVE  click'[j].table = "likes"
  BY DEF RemovesLikes
<1>0. click \in [Click -> ClickState]
  BY DEF IInv, TypeOK
<1>1. CASE click'[j] = click[j]
  BY <1>1 DEF RemovesLikes
<1>2. ASSUME NEW k \in Click, DeleteLike(k) PROVE click'[j] = click[j] \/ click'[j].table = "likes"
  BY <1>0, <1>2 DEF DeleteLike, ClickState, ClickRecord
<1>3. ASSUME NEW k \in Click,
             \/ \E table \in {"likes", "bookmarks"}, a \in Article, u \in User :
                    FindArticle(k, table, a, u)
             \/ SelectUser(k) \/ InsertUser(k) \/ InsertConflict(k) \/ RereadUser(k)
             \/ CommitUnlike(k) \/ CommitLike(k) \/ LikeConflict(k)
             \/ DeleteBookmark(k) \/ CreateBookmark(k) \/ ToggleFails(k)
      PROVE  click'[j] = click[j]
  BY <1>0, <1>3 DEF FindArticle, SelectUser, InsertUser, InsertConflict, RereadUser, CommitUnlike,
     CommitLike, LikeConflict, DeleteBookmark, CreateBookmark, ToggleFails, Ends, IdleClick,
     ClickState, ClickRecord
<1>4. ASSUME \/ \E d \in Deletion : \/ \E u \in User : FindUser(d, u)
                                    \/ FindLikes(d) \/ CommitDeletion(d) \/ DeletionFails(d)
             \/ \E b \in Article : \/ \E s \in {"PUBLISHED", "HIDDEN"} : SetStatus(b, s)
                                   \/ RemoveArticle(b)
             \/ UNCHANGED vars
      PROVE  UNCHANGED click
  BY <1>4 DEF FindUser, FindLikes, CommitDeletion, DeletionFails, SetStatus, RemoveArticle, vars
<1> QED BY <1>1, <1>2, <1>3, <1>4 DEF Next

LEMMA StepAnswers ==
    ASSUME IInv, RemovesLikes, [Next]_vars, NEW k \in Click,
           click[k].pc # "idle", click'[k].pc = "idle", click'[k].answer # "none"
    PROVE  click'[k].answer = "on" <=>
               Row(k) \in (IF click[k].table = "likes" THEN likes' ELSE bookmarks')
<1>0. click \in [Click -> ClickState]
  BY DEF IInv, TypeOK
<1>1. ASSUME NEW j \in Click, NEW answer, Ends(j, answer)
      PROVE  click'[k] = click[k] \/ (j = k /\ click'[k].answer = answer)
  BY <1>0, <1>1 DEF Ends, IdleClick
<1>2. ASSUME NEW j \in Click, CommitUnlike(j)
      PROVE  j = k /\ click'[k].answer = "off" /\ Row(k) \notin likes' /\ click[k].table = "likes"
  BY <1>1, <1>2 DEF CommitUnlike, RemovesLikes
<1>3. ASSUME NEW j \in Click, CommitLike(j) \/ LikeConflict(j)
      PROVE  click'[k].answer = "on" /\ Row(k) \in likes' /\ click[k].table = "likes"
  BY <1>1, <1>3 DEF CommitLike, LikeConflict
<1>4. ASSUME NEW j \in Click, CreateBookmark(j)
      PROVE  click'[k].answer = "on" /\ Row(k) \in bookmarks' /\ click[k].table = "bookmarks"
  BY <1>1, <1>4 DEF CreateBookmark
<1>5. ASSUME NEW j \in Click, DeleteBookmark(j)
      PROVE  click'[k].answer = "off" /\ Row(k) \notin bookmarks' /\ click[k].table = "bookmarks"
  <2>1. CASE Ends(j, "off") /\ bookmarks' = bookmarks \ {Row(j)}
    BY <1>1, <1>5, <2>1 DEF DeleteBookmark
  <2>2. CASE click' = [click EXCEPT ![j].pc = "adding"]
    BY <1>0, <2>2 DEF ClickState, ClickRecord
  <2> QED BY <1>5, <2>1, <2>2 DEF DeleteBookmark
<1>6. ASSUME NEW j \in Click,
             \/ \E table \in {"likes", "bookmarks"}, a \in Article, u \in User :
                    FindArticle(j, table, a, u)
             \/ SelectUser(j) \/ InsertUser(j) \/ InsertConflict(j) \/ DeleteLike(j)
      PROVE  FALSE
  BY <1>0, <1>6 DEF FindArticle, SelectUser, InsertUser, InsertConflict, DeleteLike, ClickState,
     ClickRecord
<1>7. ASSUME NEW j \in Click, RereadUser(j) \/ ToggleFails(j) PROVE FALSE
  <2>1. CASE Ends(j, "none")
    BY <1>1, <2>1
  <2>2. CASE click' = [click EXCEPT ![j].pc = "ready", ![j].id = userId[click[j].user]]
    BY <1>0, <2>2 DEF ClickState, ClickRecord
  <2> QED BY <1>7, <2>1, <2>2 DEF RereadUser, ToggleFails
<1>8. ASSUME \/ \E d \in Deletion : \/ \E u \in User : FindUser(d, u)
                                    \/ FindLikes(d) \/ CommitDeletion(d) \/ DeletionFails(d)
             \/ \E b \in Article : \/ \E s \in {"PUBLISHED", "HIDDEN"} : SetStatus(b, s)
                                   \/ RemoveArticle(b)
             \/ UNCHANGED vars
      PROVE  FALSE
  BY <1>8 DEF FindUser, FindLikes, CommitDeletion, DeletionFails, SetStatus, RemoveArticle, vars
<1> QED BY <1>2, <1>3, <1>4, <1>5, <1>6, <1>7, <1>8 DEF Next

(* Whoever loses the race for an insert, and whatever else happens, a      *)
(* toggle answers with the state it leaves the row in                      *)
(* (interactions.service.ts:53).                                           *)
THEOREM AnswersAreTheRows == Spec => AnswerIsTheRow
<1>1. Init => RemovesLikes
  BY DEF Init, RemovesLikes, IdleClick
<1>2. IInv /\ RemovesLikes /\ [Next]_vars => RemovesLikes'
  BY RemovesLikesKeeps
<1>3. IInv /\ RemovesLikes /\ [Next]_vars => [\A k \in Click :
          click[k].pc # "idle" /\ click'[k].pc = "idle" /\ click'[k].answer # "none" =>
              LET rows == IF click[k].table = "likes" THEN likes' ELSE bookmarks'
              IN  click'[k].answer = "on" <=> Row(k) \in rows]_vars
  BY StepAnswers
<1> QED BY <1>1, <1>2, <1>3, Invariance, PTL DEF AnswerIsTheRow, Spec
===============================================================================
