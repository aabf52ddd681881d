---------------------------- MODULE BackOfficeProofs ----------------------------
(***************************************************************************)
(* Proofs about BackOffice, for any finite set of rows of any kinds and any *)
(* number of requests.  The inductive invariant says, of each request,     *)
(* what it may rely on at its place in the handler; every endpoint enters  *)
(* through Enter, and every write that changes a status goes through       *)
(* Settle, so that the proof is one lemma for each of these two and one    *)
(* for each service step.  What nextFreeSlug promises comes first.         *)
(***************************************************************************)
EXTENDS BackOffice, FiniteSetTheorems, SequenceTheorems, TLAPS

(* nextFreeSlug, for any slugs: the slug is one, it is free, and looking   *)
(* only at the rows that start with the base hides none that it could      *)
(* collide with.                                                           *)

LEMMA NumberedIsSlug ==
    ASSUME NEW base \in Slug, NEW n \in Nat
    PROVE  /\ Numbered(base, n) \in Slug
           /\ Len(Numbered(base, n)) = Len(base) + 1
           /\ SubSeq(Numbered(base, n), 1, Len(base)) = base
<1>1. base \in Seq(Nat) /\ base # <<>>
  BY DEF Slug
<1>2. /\ Append(base, n) \in Seq(Nat) /\ Append(base, n) # <<>>
      /\ Len(Append(base, n)) = Len(base) + 1
      /\ \A i \in 1..Len(base) : Append(base, n)[i] = base[i]
  BY <1>1, AppendProperties
<1>3. Len(base) \in Nat \ {0}
  BY <1>1, EmptySeq
<1>4. \A i \in 1..Len(base) : Append(base, n)[i] \in Nat
  BY <1>1, <1>2, ElementOfSeq
<1>5. /\ SubSeq(Append(base, n), 1, Len(base)) \in Seq(Nat)
      /\ Len(SubSeq(Append(base, n), 1, Len(base))) = Len(base)
      /\ \A i \in 1..Len(base) : SubSeq(Append(base, n), 1, Len(base))[i] = Append(base, n)[i]
  <2>. DEFINE len == Len(base)  s == Append(base, n)
  <2>1. /\ SubSeq(s, 1, len) \in Seq(Nat)
        /\ Len(SubSeq(s, 1, len)) = IF 1 <= len THEN len - 1 + 1 ELSE 0
        /\ \A i \in 1..len - 1 + 1 : SubSeq(s, 1, len)[i] = s[1 + i - 1]
    <3>1. len \in Int /\ 1 \in Int
      BY <1>3
    <3>. HIDE DEF len, s
    <3>2. \A i \in 1..len : s[i] \in Nat
      BY <1>4 DEF len, s
    <3>. QED
      BY <3>1, <3>2, SubSeqProperties
  <2>2. len \in Nat \ {0}
    BY <1>3
  <2>. HIDE DEF len, s
  <2>3. len - 1 + 1 = len /\ \A i \in 1..len : 1 + i - 1 = i
    BY <2>2
  <2>. QED
    BY <2>1, <2>2, <2>3 DEF len, s
<1>6. SubSeq(Append(base, n), 1, Len(base)) = base
  BY <1>1, <1>2, <1>5, SeqEqual
<1>. QED
  BY <1>1, <1>2, <1>6 DEF Numbered, Slug

(* Different numbers make different slugs. *)
LEMMA NumbersDiffer ==
    ASSUME NEW base \in Slug, NEW m \in Nat, NEW n \in Nat, Numbered(base, m) = Numbered(base, n)
    PROVE  m = n
BY AppendInjective DEF Numbered, Slug

(* Among as many numbers as there are slugs and one more, one is free: the *)
(* slugs cannot take them all.                                             *)
LEMMA SomeNumberIsFree ==
    ASSUME NEW base \in Slug, NEW taken, IsFiniteSet(taken)
    PROVE  FreeNumbers(base, taken) # {}
<1>. DEFINE numbers == 2..Cardinality(taken) + 2
            f == [n \in numbers |-> Numbered(base, n)]
<1>1. Cardinality(taken) \in Nat
  BY FS_CardinalityType
<1>2. IsFiniteSet(numbers) /\ Cardinality(numbers) = Cardinality(taken) + 1
  <2>1. 2 \in Int /\ Cardinality(taken) + 2 \in Int /\ ~(2 > Cardinality(taken) + 2)
    BY <1>1
  <2>2. Cardinality(numbers) = Cardinality(taken) + 1 /\ IsFiniteSet(numbers)
    <3>. DEFINE top == Cardinality(taken) + 2
    <3>1. 2 \in Int /\ top \in Int /\ ~(2 > top)
      BY <2>1
    <3>. HIDE DEF top
    <3>2. IsFiniteSet(2..top) /\ Cardinality(2..top) = top - 2 + 1
      BY <3>1, FS_Interval
    <3>3. numbers = 2..top /\ top - 2 + 1 = Cardinality(taken) + 1
      BY <1>1 DEF top
    <3>. HIDE DEF numbers
    <3>. QED
      BY <3>2, <3>3
  <2>. QED
    BY <1>1, <2>2
<1>3. SUFFICES ASSUME FreeNumbers(base, taken) = {} PROVE FALSE
  OBVIOUS
<1>4. \A n \in numbers : Numbered(base, n) \in taken
  BY <1>3 DEF FreeNumbers
<1>5. f \in [numbers -> taken]
  BY <1>4
<1>6. Cardinality(taken) < Cardinality(numbers)
  BY <1>1, <1>2
<1>7. \E m, n \in numbers : m # n /\ f[m] = f[n]
  <2>. HIDE DEF f, numbers
  <2>. QED
    BY <1>2, <1>5, <1>6, FS_PigeonHole
<1>8. PICK m \in numbers, n \in numbers : m # n /\ Numbered(base, m) = Numbered(base, n)
  BY <1>7
<1>9. m \in Nat /\ n \in Nat
  BY <1>1
<1>. QED
  BY <1>8, <1>9, NumbersDiffer

(* A set of numbers has a least one: of the sets of its smaller members,   *)
(* that of some member contains no other.                                  *)
LEMMA LeastNumber ==
    ASSUME NEW T, T \subseteq Nat, T # {}
    PROVE  \E n \in T : \A m \in T : n <= m
<1>. DEFINE below(n) == {m \in T : m < n}
            belows == {below(n) : n \in T}
<1>1. belows \subseteq FiniteSubsetsOf(Nat)
  <2>1. ASSUME NEW n \in T PROVE below(n) \in FiniteSubsetsOf(Nat)
    <3>0. n \in Nat /\ \A m \in below(n) : m \in Nat /\ m < n
      OBVIOUS
    <3>1. below(n) \in SUBSET Nat /\ n \in Nat /\ \A m \in below(n) : m <= n
      <4>. HIDE DEF below
      <4>. QED
        BY <3>0
    <3>2. IsFiniteSet(below(n))
      <4>. HIDE DEF below
      <4>. QED
        BY <3>1, FS_BoundedSetOfNaturals
    <3>. QED
      BY <3>1, <3>2 DEF FiniteSubsetsOf
  <2>. QED
    BY <2>1
<1>2. belows # {}
  OBVIOUS
<1>3. PICK b \in belows : \A a \in belows : <<a, b>> \notin StrictSubsetOrdering(Nat)
  <2>. HIDE DEF belows
  <2>. QED
    BY <1>1, <1>2, WFMin, FS_StrictSubsetOrderingWellFounded
<1>4. PICK n \in T : b = below(n)
  OBVIOUS
<1>5. ASSUME NEW m \in T, m < n PROVE FALSE
  <2>1. below(m) \in belows /\ below(m) \in SUBSET Nat /\ b \in SUBSET Nat
    BY <1>4
  <2>2. m \in Nat /\ n \in Nat /\ \A k \in T : k \in Nat /\ (k < m => k < n)
    BY <1>5
  <2>3. b = {k \in T : k < n} /\ below(m) = {k \in T : k < m} /\ ~(m < m)
    BY <1>4, <2>2
  <2>4. below(m) \subseteq b /\ m \in b /\ m \notin below(m)
    <3>. HIDE DEF below
    <3>. QED
      BY <1>5, <2>2, <2>3
  <2>5. <<below(m), b>> \in StrictSubsetOrdering(Nat)
    BY <2>1, <2>4 DEF StrictSubsetOrdering
  <2>. QED
    BY <1>3, <2>1, <2>5
<1>6. \A m \in T : n <= m
  BY <1>5
<1>. QED
  BY <1>6

(* nextFreeSlug returns a slug that nobody has (slugify.ts:25), however    *)
(* many there are and whatever numbers they end in.                        *)
THEOREM NextFreeSlugIsFree ==
    ASSUME NEW base \in Slug, NEW taken, IsFiniteSet(taken)
    PROVE  /\ NextFreeSlug(base, taken) \in Slug
           /\ NextFreeSlug(base, taken) \notin taken
           /\ \/ NextFreeSlug(base, taken) = base
              \/ \E n \in Nat : NextFreeSlug(base, taken) = Numbered(base, n)
<1>1. CASE base \notin taken
  BY <1>1 DEF NextFreeSlug
<1>2. CASE base \in taken
  <2>. DEFINE free == FreeNumbers(base, taken)
              least == CHOOSE n \in free : \A m \in free : n <= m
  <2>1. free # {} /\ free \subseteq Nat
    <3>1. Cardinality(taken) \in Nat
      BY FS_CardinalityType
    <3>. QED
      BY <3>1, SomeNumberIsFree DEF FreeNumbers
  <2>2. \E n \in free : \A m \in free : n <= m
    <3>. HIDE DEF free
    <3>. QED
      BY <2>1, LeastNumber
  <2>3. least \in free
    <3>. HIDE DEF free
    <3>. QED
      BY <2>2
  <2>4. least \in Nat /\ Numbered(base, least) \notin taken
    BY <2>1, <2>3 DEF FreeNumbers
  <2>5. NextFreeSlug(base, taken) = Numbered(base, least)
    BY <1>2 DEF NextFreeSlug
  <2>. HIDE DEF least
  <2>. QED
    BY <2>4, <2>5, NumberedIsSlug
<1>. QED
  BY <1>1, <1>2

(* The creations look only at the slugs that start with the base           *)
(* (tags.service.ts:27): the one chosen is free among all of them.         *)
THEOREM PrefixFilterHidesNothing ==
    ASSUME NEW base \in Slug, NEW slugs, IsFiniteSet(slugs)
    PROVE  /\ NextFreeSlug(base, StartingWith(slugs, base)) \in Slug
           /\ NextFreeSlug(base, StartingWith(slugs, base)) \notin slugs
<1>. DEFINE near == StartingWith(slugs, base)
            free == NextFreeSlug(base, near)
<1>1. near \subseteq slugs /\ IsFiniteSet(near)
  BY FS_Subset DEF StartingWith
<1>2. /\ free \in Slug /\ free \notin near
      /\ free = base \/ \E n \in Nat : free = Numbered(base, n)
  <2>. HIDE DEF near
  <2>. QED
    BY <1>1, NextFreeSlugIsFree
<1>3. base \in Seq(Nat) /\ Len(base) \in Nat
  BY LenProperties DEF Slug
<1>4. Len(base) <= Len(free) /\ SubSeq(free, 1, Len(base)) = base
  <2>1. CASE free = base
    BY <1>3, <2>1, SubSeqFull
  <2>2. ASSUME NEW n \in Nat, free = Numbered(base, n)
        PROVE  Len(base) <= Len(free) /\ SubSeq(free, 1, Len(base)) = base
    <3>1. Len(Numbered(base, n)) = Len(base) + 1 /\ SubSeq(Numbered(base, n), 1, Len(base)) = base
      BY <2>2, NumberedIsSlug
    <3>2. Len(free) = Len(base) + 1 /\ SubSeq(free, 1, Len(base)) = base
      <4>. HIDE DEF free
      <4>. QED
        BY <2>2, <3>1
    <3>. HIDE DEF free
    <3>. QED
      BY <1>3, <3>2
  <2>. QED
    BY <1>2, <2>1, <2>2
<1>5. free \notin slugs
  BY <1>2, <1>4 DEF StartingWith
<1>. QED
  BY <1>2, <1>5

-----------------------------------------------------------------------------

(* What a handler asked of its service: x is the request, k the kind of    *)
(* its row, and now what the row is.                                       *)
Asked(x, k, now) ==
    /\ x.pc = "check" => x.target = None
    /\ x.op = "create" => x.to \in Value /\ (k \in Named => x.slugs # <<>>)
    /\ x.op = "set" /\ k \in {"user", "report"} => x.to \in Value
    /\ x.op = "translate" => x.before = None
    /\ x.before # None => x.early \/ x.before = now

(* What the service found, or chose, before it writes. *)
Checked(x, k) ==
    /\ x.op = "create" => x.write \in Value /\ (k \in Named => x.slugs[1] \notin x.known)
    /\ x.op = "set" /\ k \in {"user", "report"} => x.write \in Value
    /\ x.op = "set" /\ k \in Content => x.write = x.to \/ (x.to = None /\ x.write = "HIDDEN")

SaysChanged(x) == IF x.admin THEN x.to \notin {None, x.before} ELSE x.after # x.before

EntryFits(x, k) == x.before # None =>
    \/ x.early
    \/ /\ x.before = x.over
       /\ x.op = "set" /\ k \in Content =>
             \/ SaysChanged(x) <=> x.over # x.after
             \/ x.admin /\ x.to = None /\ x.after = "HIDDEN"

TellsStatus(x, k) ==
    /\ k = "article" => x.op \notin {"translate", "edit"}
    /\ k = "report" => x.op # "create"

(* What is about to be logged. *)
Written(x, k, now) ==
    /\ EntryFits(x, k)
    /\ TellsStatus(x, k) => x.late \/ x.after = now

Fit(x, k, now) ==
    /\ x.pc # "idle" => x.of \in Row
    /\ x.pc \in {"check", "commit"} => Asked(x, k, now)
    /\ x.pc = "commit" => Checked(x, k)
    /\ x.pc = "hide" => x.op = "translate" /\ k = "article" /\ x.before = None
    /\ x.pc = "log" => Written(x, k, now)
    /\ x.pc \in {"hide", "log"} => x.after \in Value

CallsFit == \A c \in Call : Fit(call[c], kind[call[c].of], state[call[c].of])

(* Named rows that are there have a slug. *)
Slugged == \A r \in Row : Exists(r) /\ kind[r] \in Named => slug[r] # <<>>

(* What a decision is about to change is an article or a comment. *)
Targets == \A c \in Call : call[c].target # None =>
    call[c].target \in Row /\ kind[call[c].target] \in Content

(* An entry is to come that tells the change of the row. *)
ToTell(c, r) == /\ call[c].of = r /\ call[c].pc = "log"
                /\ Tells(c) /\ call[c].over # call[c].after

Inv == TypeOK /\ CallsFit /\ Slugged /\ Targets /\ TrailTellsTheRow

-----------------------------------------------------------------------------
(* Values and records. *)

LEMMA KnownValues ==
    /\ \A k \in Kind : Statuses(k) \subseteq Value
    /\ Absent \in Value /\ Deleted \in Value
<1>1. \A k \in Kind : Statuses(k) \subseteq Status
  <2>. DEFINE all == {Statuses(k) : k \in Kind}
  <2>1. \A k \in Kind : Statuses(k) \in all
    OBVIOUS
  <2>2. Status = UNION all
    BY DEF Status
  <2>. HIDE DEF all
  <2>. QED
    BY <2>1, <2>2
<1>. QED
  BY <1>1 DEF Value

LEMMA StatusesOf ==
    /\ Statuses("comment") = {"VISIBLE", "UNDER_REVIEW", "HIDDEN", "BANNED"}
    /\ Statuses("article") = {"DRAFT", "PUBLISHED", "UNDER_REVIEW", "HIDDEN", "BANNED"}
    /\ Statuses("report") = {"PENDING", "REVIEWED", "RESOLVED", "DISMISSED"}
    /\ Statuses("user") = {"ACTIVE", "BANNED", "SHADOW_BANNED"}
    /\ \A k \in Named : Statuses(k) = {Present}
BY DEF Statuses, Named

LEMMA Kinds ==
    /\ {"comment", "article", "tag", "category", "word", "report", "user"} = Kind
    /\ Content \cap Named = {} /\ "report" \notin Named \cup Content /\ "user" \notin Named \cup Content
    /\ "comment" \in Content /\ "article" \in Content
    /\ "tag" \in Named /\ "category" \in Named /\ "word" \in Named
BY DEF Kind, Content, Named

(* The statuses a handler may ask for are values, and none is None. *)
LEMMA UsedValues ==
    /\ {"VISIBLE", "UNDER_REVIEW", "HIDDEN", "BANNED", "DRAFT", "PUBLISHED"} \subseteq Value
    /\ {"PENDING", "REVIEWED", "RESOLVED", "DISMISSED"} \subseteq Value
    /\ {"ACTIVE", "BANNED", "SHADOW_BANNED"} \subseteq Value
    /\ Present \in Value
<1>1. \A k \in Kind : Statuses(k) \subseteq Value
  BY KnownValues
<1>. QED
  BY <1>1, StatusesOf, Kinds

LEMMA NoCallIs == NoCall \in CallRecord /\ NoCall.pc = "idle" /\ NoCall.target = None
BY EmptySeq DEF NoCall, CallRecord

(* The record a request has when its service has written. *)
AfterWrite(x, pc, over, after) ==
    [x EXCEPT !.pc = pc, !.over = over, !.after = after, !.target = None,
              !.slugs = <<>>, !.known = {}]

LEMMA SettledRecord ==
    ASSUME NEW x \in CallRecord, NEW over \in Value, NEW after \in Value,
           NEW pc, pc \in {"hide", "log"}
    PROVE  LET y == AfterWrite(x, pc, over, after) IN
           /\ y \in CallRecord /\ y.pc = pc /\ y.over = over /\ y.after = after
           /\ y.op = x.op /\ y.of = x.of /\ y.to = x.to /\ y.admin = x.admin /\ y.target = None
           /\ y.before = x.before /\ y.early = x.early /\ y.late = x.late
<1>. DEFINE y == AfterWrite(x, pc, over, after)
<1>1. /\ y.pc = pc /\ y.over = over /\ y.after = after
      /\ y.op = x.op /\ y.of = x.of /\ y.to = x.to /\ y.admin = x.admin /\ y.target = None
      /\ y.before = x.before /\ y.early = x.early /\ y.late = x.late
  BY DEF CallRecord, AfterWrite
<1>2. PICK empty \in Seq(Slug), none \in SUBSET Slug, no \in Row \cup {None} :
          empty = <<>> /\ none = {} /\ no = None
  BY EmptySeq
<1>3. y = [x EXCEPT !.pc = pc, !.over = over, !.after = after, !.target = no,
                    !.slugs = empty, !.known = none]
  BY <1>2 DEF AfterWrite
<1>4. y \in CallRecord
  BY <1>3, ZenonT(60) DEF CallRecord
<1>. QED
  BY <1>1, <1>4

(* Another request's change of the row, whatever the row becomes, leaves a *)
(* request with what it may rely on.                                       *)
LEMMA OvertakenFits ==
    ASSUME NEW x \in CallRecord, NEW k, NEW was, NEW now, Fit(x, k, was), NEW y,
           y = IF x.pc \in {"check", "commit"} THEN [x EXCEPT !.early = TRUE]
                                              ELSE [x EXCEPT !.late = TRUE]
    PROVE  /\ y \in CallRecord /\ Fit(y, k, now)
           /\ y.pc = x.pc /\ y.of = x.of /\ y.op = x.op /\ y.target = x.target
           /\ y.over = x.over /\ y.after = x.after
<1>1. CASE x.pc \in {"check", "commit"}
  <2>1. /\ y \in CallRecord /\ y.early
        /\ y.pc = x.pc /\ y.op = x.op /\ y.of = x.of /\ y.to = x.to /\ y.write = x.write
        /\ y.before = x.before /\ y.slugs = x.slugs /\ y.known = x.known
        /\ y.target = x.target /\ y.over = x.over /\ y.after = x.after
    BY <1>1 DEF CallRecord
  <2>. QED
    BY <1>1, <2>1 DEF Fit, Asked, Checked
<1>2. CASE x.pc \notin {"check", "commit"}
  <2>1. /\ y \in CallRecord /\ y.late
        /\ y.pc = x.pc /\ y.op = x.op /\ y.of = x.of /\ y.to = x.to /\ y.admin = x.admin
        /\ y.before = x.before /\ y.over = x.over /\ y.after = x.after /\ y.early = x.early
        /\ y.target = x.target
    BY <1>2 DEF CallRecord
  <2>. QED
    BY <1>2, <2>1 DEF Fit, Written, EntryFits, SaysChanged
<1>. QED
  BY <1>1, <1>2

LEMMA IdleFits ==
    ASSUME NEW x, x.pc = "idle", NEW k, NEW now PROVE Fit(x, k, now)
BY DEF Fit

-----------------------------------------------------------------------------
(* A step of one request that changes nothing else. *)
LEMMA OneRequest ==
    ASSUME Inv, NEW c \in Call, NEW y \in CallRecord,
           call' = [call EXCEPT ![c] = y], UNCHANGED <<kind, state, slug, told>>,
           Fit(y, kind[y.of], state[y.of]), call[c].pc # "log",
           y.target # None => y.target \in Row /\ kind[y.target] \in Content
    PROVE  Inv'
<1>1. /\ call'[c] = y
      /\ \A d \in Call \ {c} : call'[d] = call[d]
      /\ call' \in [Call -> CallRecord]
  BY DEF Inv, TypeOK
<1>2. TypeOK'
  BY <1>1 DEF Inv, TypeOK
<1>3. CallsFit'
  BY <1>1 DEF Inv, CallsFit
<1>4. Slugged'
  BY DEF Inv, Slugged, Exists
<1>5. TrailTellsTheRow'
  <2>. SUFFICES ASSUME NEW r \in Row, told[r] \notin {None, state[r]}
                PROVE  \E d \in Call : ToTell(d, r)'
    BY DEF TrailTellsTheRow, ToTell
  <2>1. PICK d \in Call : ToTell(d, r)
    BY DEF Inv, TrailTellsTheRow, ToTell
  <2>. QED
    BY <1>1, <2>1 DEF ToTell, Tells
<1>6. Targets'
  BY <1>1 DEF Inv, Targets
<1>. QED
  BY <1>2, <1>3, <1>4, <1>5, <1>6 DEF Inv

(* A request comes in. *)
LEMMA EnterKeeps ==
    ASSUME Inv, NEW c \in Call, NEW r \in Row, NEW k,
           NEW op \in {"create", "set", "edit", "translate", "remove"},
           NEW to \in Value \cup {None}, NEW slugs \in Seq(Slug), NEW does,
           Enter(c, r, k, op, to, slugs, does),
           op = "create" => to \in Value /\ (k \in Named => slugs # <<>>),
           op = "set" /\ k \in {"user", "report"} => to \in Value,
           op = "translate" => "reads" \notin does
    PROVE  Inv'
<1>. DEFINE before == IF "reads" \in does THEN state[r] ELSE None
            y == [pc |-> "check", op |-> op, of |-> r, to |-> to, write |-> None,
                  target |-> None, admin |-> "admin" \in does, logs |-> "logs" \in does,
                  before |-> before, over |-> None, after |-> None,
                  slugs |-> slugs, known |-> {}, early |-> FALSE, late |-> FALSE]
<1>1. before \in Value \cup {None} /\ (before = None \/ before = state[r])
  BY DEF Inv, TypeOK
<1>2. op = "translate" => before = None
  OBVIOUS
<1>3. call' = [call EXCEPT ![c] = y] /\ UNCHANGED <<kind, state, slug, told>>
      /\ call[c].pc = "idle" /\ kind[r] = k
  BY DEF Enter
<1>. HIDE DEF before
<1>4. y \in CallRecord
  BY <1>1 DEF CallRecord
<1>5. Fit(y, k, state[r])
  <2>1. Asked(y, k, state[r])
    BY <1>1, <1>2 DEF Asked
  <2>. QED
    BY <2>1 DEF Fit
<1>6. y.of = r /\ y.target = None
  OBVIOUS
<1>. HIDE DEF y
<1>. QED
  BY <1>3, <1>4, <1>5, <1>6, OneRequest

(* The service has read what it needs. *)
LEMMA CheckKeeps ==
    ASSUME Inv, NEW c \in Call, call[c].pc = "check", NEW y \in CallRecord,
           call' = [call EXCEPT ![c] = y], UNCHANGED <<kind, state, slug, told>>,
           y.pc = "commit", y.op = call[c].op, y.of = call[c].of, y.to = call[c].to,
           y.before = call[c].before, y.early = call[c].early,
           y.op = "create" /\ kind[y.of] \in Named => y.slugs # <<>>,
           Checked(y, kind[y.of]),
           y.target = call[c].target \/ (y.target \in Row /\ kind[y.target] \in Content)
    PROVE  Inv'
<1>1. Fit(call[c], kind[y.of], state[y.of])
  BY DEF Inv, CallsFit
<1>2. Fit(y, kind[y.of], state[y.of])
  BY <1>1 DEF Fit, Asked
<1>3. y.target # None => y.target \in Row /\ kind[y.target] \in Content
  BY DEF Inv, Targets
<1>. QED
  BY <1>2, <1>3, OneRequest

LEMMA RefusedKeeps ==
    ASSUME Inv, NEW c \in Call, Refused(c) PROVE Inv'
<1>1. call' = [call EXCEPT ![c] = NoCall] /\ UNCHANGED <<kind, state, slug, told>>
      /\ call[c].pc # "log"
  BY DEF Refused
<1>2. NoCall \in CallRecord /\ NoCall.pc = "idle" /\ NoCall.target = None
  BY NoCallIs
<1>3. Fit(NoCall, kind[NoCall.of], state[NoCall.of])
  BY <1>2, IdleFits
<1>. QED
  BY <1>1, <1>2, <1>3, OneRequest

(* The request that wrote: what it will log fits what it did. *)
LEMMA WriterFits ==
    ASSUME NEW x \in CallRecord, NEW k, NEW over \in Value, NEW after \in Value,
           NEW pc, pc \in {"hide", "log"}, x.pc = "commit", Fit(x, k, over),
           pc = "hide" => x.op = "translate" /\ k = "article",
           x.op = "set" /\ k \in Content => after = IF x.write = None THEN over ELSE x.write
    PROVE  LET y == AfterWrite(x, pc, over, after) IN
           /\ y \in CallRecord /\ Fit(y, k, after) /\ y.pc = pc /\ y.of = x.of /\ y.op = x.op
           /\ y.target = None /\ y.over = over /\ y.after = after
<1>. DEFINE y == AfterWrite(x, pc, over, after)
<1>1. /\ y \in CallRecord /\ y.pc = pc /\ y.over = over /\ y.after = after /\ y.target = None
      /\ y.op = x.op /\ y.of = x.of /\ y.to = x.to /\ y.admin = x.admin
      /\ y.before = x.before /\ y.early = x.early /\ y.late = x.late
  BY SettledRecord
<1>. HIDE DEF y
<1>2. Asked(x, k, over) /\ Checked(x, k) /\ x.of \in Row
  BY DEF Fit
<1>3. EntryFits(y, k)
  <2>. SUFFICES ASSUME y.before # None, ~y.early
                PROVE  /\ y.before = y.over
                       /\ y.op = "set" /\ k \in Content =>
                             \/ SaysChanged(y) <=> y.over # y.after
                             \/ y.admin /\ y.to = None /\ y.after = "HIDDEN"
    BY DEF EntryFits
  <2>1. y.before = y.over
    BY <1>1, <1>2 DEF Asked
  <2>2. ASSUME y.op = "set", k \in Content
        PROVE  \/ SaysChanged(y) <=> y.over # y.after
               \/ y.admin /\ y.to = None /\ y.after = "HIDDEN"
    <3>1. x.write = x.to \/ (x.to = None /\ x.write = "HIDDEN")
      BY <1>1, <1>2, <2>2 DEF Checked
    <3>2. y.after = IF x.write = None THEN y.over ELSE x.write
      BY <1>1, <2>2
    <3>3. CASE ~y.admin
      BY <2>1, <3>3 DEF SaysChanged
    <3>4. CASE y.admin /\ x.write = x.to
      BY <1>1, <2>1, <3>2, <3>4 DEF SaysChanged
    <3>5. CASE y.admin /\ x.to = None /\ x.write = "HIDDEN"
      BY <1>1, <3>2, <3>5 DEF None
    <3>. QED
      BY <3>1, <3>3, <3>4, <3>5, <1>1 DEF CallRecord
  <2>. QED
    BY <2>1, <2>2
<1>4. Fit(y, k, after)
  <2>1. pc = "log" => Written(y, k, after)
    BY <1>1, <1>3 DEF Written
  <2>2. pc = "hide" => y.op = "translate" /\ k = "article" /\ y.before = None
    BY <1>1, <1>2 DEF Asked
  <2>. QED
    BY <1>1, <1>2, <2>1, <2>2 DEF Fit
<1>. QED
  BY <1>1, <1>4 DEF y

(* A service's write: the requests stay fit, and the trail tells of every  *)
(* row unless an entry is to come or the row is in doubt.                  *)
LEMMA SettleKeeps ==
    ASSUME Inv, NEW c \in Call, NEW new \in [Row -> Value], NEW pc \in {"idle", "hide", "log"},
           Settle(c, new, pc), UNCHANGED kind, call[c].pc = "commit",
           pc = "idle" => ~call[c].logs,
           pc = "hide" => call[c].op = "translate" /\ kind[call[c].of] = "article",
           new[call[c].of] # state[call[c].of] => pc # "hide",
           call[c].op = "set" /\ kind[call[c].of] \in Content =>
               new[call[c].of] = IF call[c].write = None THEN state[call[c].of] ELSE call[c].write
    PROVE  /\ state' = new /\ CallsFit' /\ Targets' /\ TrailTellsTheRow'
           /\ call' \in [Call -> CallRecord] /\ told' \in [Row -> Value \cup {None}]
<1>. DEFINE r == call[c].of
            x == call[c]
            y == AfterWrite(x, pc, state[r], new[r])
            changed == {s \in Row : new[s] # state[s]}
<1>0. /\ x \in CallRecord /\ Fit(x, kind[r], state[r]) /\ r \in Row
      /\ state \in [Row -> Value] /\ call \in [Call -> CallRecord]
  BY DEF Inv, TypeOK, CallsFit, Fit
<1>1. /\ state' = new /\ kind' = kind
      /\ told' = [s \in Row |-> IF s \in changed /\ ~(s = r /\ call[c].logs /\ Tells(c))
                               THEN None ELSE told[s]]
      /\ DOMAIN call' = Call /\ call' = [d \in Call |-> call'[d]]
      /\ call'[c] = IF pc = "idle" THEN NoCall ELSE y
      /\ \A d \in Call \ {c} : call'[d] = IF call[d].of \in changed THEN Overtaken(d) ELSE call[d]
  BY DEF Settle, AfterWrite
<1>2. state[r] \in Value /\ new[r] \in Value
  BY <1>0
<1>3. pc # "idle" =>
          /\ y \in CallRecord /\ Fit(y, kind[r], new[r]) /\ y.pc = pc /\ y.of = r /\ y.op = x.op
          /\ y.target = None /\ y.over = state[r] /\ y.after = new[r]
  <2>. SUFFICES ASSUME pc # "idle"
                PROVE  /\ y \in CallRecord /\ Fit(y, kind[r], new[r])
                       /\ y.pc = pc /\ y.of = r /\ y.op = x.op
                       /\ y.target = None /\ y.over = state[r] /\ y.after = new[r]
    OBVIOUS
  <2>1. pc \in {"hide", "log"} /\ x.pc = "commit"
    OBVIOUS
  <2>2. x.op = "set" /\ kind[r] \in Content =>
            new[r] = IF x.write = None THEN state[r] ELSE x.write
    OBVIOUS
  <2>3. pc = "hide" => x.op = "translate" /\ kind[r] = "article"
    OBVIOUS
  <2>4. x.of = r
    OBVIOUS
  <2>. HIDE DEF x, r
  <2>. QED
    BY <1>0, <1>2, <2>1, <2>2, <2>3, <2>4, WriterFits
<1>. HIDE DEF y
<1>4. ASSUME NEW d \in Call
      PROVE  /\ call'[d] \in CallRecord /\ Fit(call'[d], kind'[call'[d].of], state'[call'[d].of])
             /\ call'[d].target \in {None, call[d].target}
  <2>1. CASE d = c /\ pc = "idle"
    BY <1>1, <2>1, NoCallIs, IdleFits
  <2>2. CASE d = c /\ pc # "idle"
    BY <1>1, <1>3, <2>2
  <2>3. CASE d # c /\ call[d].of \in changed
    <3>1. call[d] \in CallRecord /\ Fit(call[d], kind[call[d].of], state[call[d].of])
      BY <1>0 DEF Inv, CallsFit
    <3>2. call'[d] = IF call[d].pc \in {"check", "commit"} THEN [call[d] EXCEPT !.early = TRUE]
                                                           ELSE [call[d] EXCEPT !.late = TRUE]
      BY <1>1, <2>3 DEF Overtaken
    <3>3. /\ call'[d] \in CallRecord /\ Fit(call'[d], kind[call[d].of], new[call[d].of])
          /\ call'[d].of = call[d].of /\ call'[d].target = call[d].target
      BY <3>1, <3>2, OvertakenFits
    <3>. QED
      BY <1>1, <3>3
  <2>4. CASE d # c /\ call[d].of \notin changed
    <3>1. call'[d] = call[d] /\ call[d] \in CallRecord
          /\ Fit(call[d], kind[call[d].of], state[call[d].of])
      BY <1>0, <1>1, <2>4 DEF Inv, CallsFit
    <3>2. CASE call[d].pc = "idle"
      BY <3>1, <3>2, IdleFits
    <3>3. CASE call[d].of \in Row
      BY <1>1, <2>4, <3>1, <3>3
    <3>. QED
      BY <3>1, <3>2, <3>3 DEF Fit
  <2>. QED
    BY <2>1, <2>2, <2>3, <2>4
<1>5. call' \in [Call -> CallRecord]
  <2>1. \A d \in Call : call'[d] \in CallRecord
    BY <1>4
  <2>. QED
    BY <1>1, <2>1
<1>6. CallsFit'
  BY <1>4 DEF CallsFit
<1>7. told' \in [Row -> Value \cup {None}]
  BY <1>1 DEF Inv, TypeOK
<1>8. Targets'
  BY <1>1, <1>4 DEF Inv, Targets
<1>9. TrailTellsTheRow'
  <2>. SUFFICES ASSUME NEW s \in Row, told'[s] \notin {None, new[s]}
                PROVE  \E d \in Call : ToTell(d, s)'
    BY <1>1 DEF TrailTellsTheRow, ToTell
  <2>1. CASE s \in changed
    <3>1. s = r /\ call[c].logs /\ Tells(c)
      BY <1>1, <2>1
    <3>2. pc = "log" /\ new[r] # state[r]
      BY <2>1, <3>1
    <3>3. call'[c].of = s /\ call'[c].pc = "log" /\ Tells(c)' /\ call'[c].over # call'[c].after
      BY <1>1, <1>3, <3>1, <3>2 DEF Tells
    <3>. QED
      BY <3>3 DEF ToTell
  <2>2. CASE s \notin changed
    <3>1. PICK d \in Call : ToTell(d, s)
      BY <1>1, <2>2 DEF Inv, TrailTellsTheRow, ToTell
    <3>2. d # c /\ call'[d] = call[d]
      BY <1>1, <2>2, <3>1 DEF ToTell
    <3>. QED
      BY <1>1, <3>1, <3>2 DEF ToTell, Tells
  <2>. QED
    BY <2>1, <2>2
<1>. QED
  BY <1>1, <1>5, <1>6, <1>7, <1>8, <1>9

-----------------------------------------------------------------------------
(* The services' reads. *)

LEMMA KnownSlugs ==
    ASSUME Inv, NEW k \in Named
    PROVE  SlugsOf(k) \subseteq Slug /\ IsFiniteSet(SlugsOf(k))
<1>. DEFINE rows == {r \in Row : kind[r] = k /\ Exists(r)}
<1>1. IsFiniteSet(rows) /\ rows \subseteq Row
  BY BackOfficeAssumption, FS_Subset
<1>2. SlugsOf(k) = {slug[r] : r \in rows}
  BY DEF SlugsOf
<1>3. \A r \in rows : slug[r] \in Slug
  BY DEF Inv, TypeOK, Slugged
<1>4. IsFiniteSet({slug[r] : r \in rows})
  <2>. DEFINE f == [r \in rows |-> slug[r]]
              image == {slug[r] : r \in rows}
  <2>1. f \in Surjection(rows, image)
    <3>. HIDE DEF rows
    <3>. QED
      BY DEF Surjection
  <2>. HIDE DEF rows, f, image
  <2>2. IsFiniteSet(image)
    BY <1>1, <2>1, FS_Surjection
  <2>. QED
    BY <2>2 DEF image
<1>. HIDE DEF rows
<1>. QED
  BY <1>2, <1>3, <1>4

(* The row and the record of a request that is being checked. *)
LEMMA AtCheck ==
    ASSUME Inv, NEW c \in Call, call[c].pc = "check"
    PROVE  /\ call[c] \in CallRecord /\ call[c].of \in Row
           /\ Asked(call[c], kind[call[c].of], state[call[c].of])
BY DEF Inv, TypeOK, CallsFit, Fit

LEMMA ChosenKeeps ==
    ASSUME Inv, NEW c \in Call, call[c].pc = "check", NEW k \in Named,
           kind[call[c].of] = k, call[c].op = "create",
           Chosen(c, SlugsOf(k), StartingWith(SlugsOf(k), call[c].slugs[1]))
    PROVE  Inv'
<1>. DEFINE x == call[c]
            base == x.slugs[1]
<1>1. x \in CallRecord /\ Asked(x, k, state[x.of])
  BY AtCheck
<1>2. x.to \in Value /\ x.slugs \in Seq(Slug) /\ x.slugs # <<>>
  BY <1>1 DEF Asked, CallRecord
<1>3. base \in Slug
  <2>1. 1 \in 1..Len(x.slugs)
    <3>. HIDE DEF x
    <3>1. Len(x.slugs) \in Nat /\ Len(x.slugs) # 0
      BY <1>2, EmptySeq, LenProperties
    <3>. QED
      BY <3>1
  <2>. QED
    BY <1>2, <2>1, ElementOfSeq
<1>4. SlugsOf(k) \subseteq Slug /\ IsFiniteSet(SlugsOf(k))
  BY KnownSlugs
<1>5. PICK free \in Slug : /\ free = NextFreeSlug(base, StartingWith(SlugsOf(k), base))
                           /\ free \notin SlugsOf(k)
  <2>. HIDE DEF base
  <2>. QED
    BY <1>3, <1>4, PrefixFilterHidesNothing
<1>6. PICK to \in Value, known \in SUBSET Slug, slugs \in Seq(Slug) :
          to = x.to /\ known = SlugsOf(k) /\ slugs = <<free>>
  <2>1. x.to \in Value /\ SlugsOf(k) \in SUBSET Slug /\ <<free>> \in Seq(Slug)
    BY <1>2, <1>4
  <2>. HIDE DEF x
  <2>. QED
    BY <2>1, Zenon
<1>. DEFINE y == [[x EXCEPT !.write = to, !.known = known, !.slugs = slugs] EXCEPT !.pc = "commit"]
<1>7. call' = [call EXCEPT ![c] = y] /\ UNCHANGED <<kind, state, slug, told>>
  BY <1>5, <1>6 DEF Chosen, Check
<1>8. /\ y \in CallRecord /\ y.pc = "commit" /\ y.op = x.op /\ y.of = x.of /\ y.to = x.to
      /\ y.before = x.before /\ y.early = x.early /\ y.target = x.target
      /\ y.write = to /\ y.slugs = slugs /\ y.known = known
  <2>. HIDE DEF x
  <2>. QED
    BY <1>1 DEF CallRecord
<1>9. y.slugs # <<>> /\ y.slugs[1] \notin y.known
  BY <1>5, <1>6, <1>8
<1>10. Checked(y, kind[y.of])
  BY <1>6, <1>8, <1>9 DEF Checked
<1>. HIDE DEF y
<1>. QED
  BY <1>7, <1>8, <1>9, <1>10, CheckKeeps

LEMMA ChooseKeeps ==
    ASSUME Inv, NEW c \in Call, ChooseTagSlug(c) \/ ChooseCategorySlug(c) PROVE Inv'
<1>1. CASE ChooseTagSlug(c)
  <2>1. /\ call[c].pc = "check" /\ kind[call[c].of] = "tag" /\ call[c].op = "create"
        /\ Chosen(c, SlugsOf("tag"), StartingWith(SlugsOf("tag"), call[c].slugs[1]))
    BY <1>1 DEF ChooseTagSlug, At
  <2>. QED
    BY <2>1, ChosenKeeps, Kinds
<1>2. CASE ChooseCategorySlug(c)
  <2>1. /\ call[c].pc = "check" /\ kind[call[c].of] = "category" /\ call[c].op = "create"
        /\ Chosen(c, SlugsOf("category"), StartingWith(SlugsOf("category"), call[c].slugs[1]))
    BY <1>2 DEF ChooseCategorySlug, At
  <2>. QED
    BY <2>1, ChosenKeeps, Kinds
<1>. QED
  BY <1>1, <1>2

LEMMA FindWordKeeps ==
    ASSUME Inv, NEW c \in Call, FindWord(c) PROVE Inv'
<1>. DEFINE x == call[c]
<1>0. /\ x.pc = "check" /\ kind[x.of] = "word" /\ x.op = "create"
      /\ x.slugs[1] \notin SlugsOf("word")
      /\ Check(c, [x EXCEPT !.write = x.to, !.known = SlugsOf("word")])
  BY DEF FindWord, At
<1>1. x \in CallRecord /\ Asked(x, "word", state[x.of])
  BY <1>0, AtCheck
<1>2. x.to \in Value /\ x.slugs # <<>>
  BY <1>0, <1>1, Kinds DEF Asked
<1>3. SlugsOf("word") \in SUBSET Slug
  BY KnownSlugs, Kinds
<1>4. PICK to \in Value, known \in SUBSET Slug : to = x.to /\ known = SlugsOf("word")
  BY <1>2, <1>3
<1>. DEFINE y == [[x EXCEPT !.write = to, !.known = known] EXCEPT !.pc = "commit"]
<1>5. call' = [call EXCEPT ![c] = y] /\ UNCHANGED <<kind, state, slug, told>>
  BY <1>0, <1>4 DEF Check
<1>6. /\ y \in CallRecord /\ y.pc = "commit" /\ y.op = x.op /\ y.of = x.of /\ y.to = x.to
      /\ y.before = x.before /\ y.early = x.early /\ y.target = x.target
      /\ y.write = to /\ y.slugs = x.slugs /\ y.known = known
  <2>. HIDE DEF x
  <2>. QED
    BY <1>1 DEF CallRecord
<1>7. Checked(y, kind[y.of]) /\ y.slugs # <<>>
  BY <1>0, <1>2, <1>4, <1>6 DEF Checked
<1>. HIDE DEF y
<1>. QED
  BY <1>0, <1>5, <1>6, <1>7, CheckKeeps

(* The checks that settle only which status will be written. *)
LEMMA WriteChosen ==
    ASSUME Inv, NEW c \in Call, call[c].pc = "check", NEW write \in Value \cup {None},
           NEW target \in Row \cup {None},
           target = call[c].target \/ (target \in Row /\ kind[target] \in Content),
           Check(c, [call[c] EXCEPT !.write = write, !.target = target]),
           call[c].op = "create" => write \in Value /\ kind[call[c].of] \notin Named,
           call[c].op = "set" /\ kind[call[c].of] \in {"user", "report"} => write \in Value,
           call[c].op = "set" /\ kind[call[c].of] \in Content =>
               write = call[c].to \/ (call[c].to = None /\ write = "HIDDEN")
    PROVE  Inv'
<1>. DEFINE x == call[c]
            y == [[x EXCEPT !.write = write, !.target = target] EXCEPT !.pc = "commit"]
<1>1. x \in CallRecord
  BY AtCheck
<1>2. call' = [call EXCEPT ![c] = y] /\ UNCHANGED <<kind, state, slug, told>>
  BY DEF Check
<1>3. /\ y \in CallRecord /\ y.pc = "commit" /\ y.op = x.op /\ y.of = x.of /\ y.to = x.to
      /\ y.before = x.before /\ y.early = x.early /\ y.write = write /\ y.target = target
  <2>. HIDE DEF x
  <2>. QED
    BY <1>1, ZenonT(60) DEF CallRecord
<1>4. Checked(y, kind[y.of]) /\ (y.op = "create" => kind[y.of] \notin Named)
  BY <1>3 DEF Checked
<1>. HIDE DEF y
<1>. QED
  BY <1>2, <1>3, <1>4, CheckKeeps

(* The same, where no target is looked for. *)
LEMMA OnlyWriteChosen ==
    ASSUME Inv, NEW c \in Call, call[c].pc = "check", NEW write \in Value \cup {None},
           Check(c, [call[c] EXCEPT !.write = write]),
           call[c].op = "create" => write \in Value /\ kind[call[c].of] \notin Named,
           call[c].op = "set" /\ kind[call[c].of] \in {"user", "report"} => write \in Value,
           call[c].op = "set" /\ kind[call[c].of] \in Content =>
               write = call[c].to \/ (call[c].to = None /\ write = "HIDDEN")
    PROVE  Inv'
<1>. DEFINE x == call[c]
<1>1. x \in CallRecord
  BY AtCheck
<1>2. x.target \in Row \cup {None}
  BY <1>1 DEF CallRecord
<1>3. [x EXCEPT !.write = write] = [x EXCEPT !.write = write, !.target = x.target]
  <2>. HIDE DEF x
  <2>. QED
    BY <1>1 DEF CallRecord
<1>4. PICK target \in Row \cup {None} : target = x.target
  BY <1>2
<1>5. Check(c, [x EXCEPT !.write = write, !.target = target])
  BY <1>3, <1>4
<1>. QED
  BY <1>4, <1>5, WriteChosen

LEMMA StatusCheckKeeps ==
    ASSUME Inv, NEW c \in Call,
           CheckCreate(c) \/ CheckComment(c) \/ CheckArticle(c) \/ CheckUser(c) \/ CheckReport(c)
    PROVE  Inv'
<1>. DEFINE x == call[c]
<1>1. /\ x.pc = "check" /\ x \in CallRecord /\ Asked(x, kind[x.of], state[x.of])
      /\ x.to \in Value \cup {None} /\ x.target \in Row \cup {None}
  <2>1. x.pc = "check"
    BY DEF CheckCreate, CheckComment, CheckArticle, CheckUser, CheckReport, At
  <2>. QED
    BY <2>1, AtCheck DEF CallRecord
<1>2. CASE CheckCreate(c)
  <2>1. /\ x.op = "create" /\ kind[x.of] \notin Named
        /\ Check(c, [x EXCEPT !.write = x.to])
    BY <1>2 DEF CheckCreate, At
  <2>2. x.to \in Value
    BY <1>1, <2>1 DEF Asked
  <2>. QED
    BY <1>1, <2>1, <2>2, OnlyWriteChosen
<1>3. CASE CheckComment(c)
  <2>1. x.op = "set" /\ kind[x.of] = "comment"
    BY <1>3 DEF CheckComment, At
  <2>2. CASE Check(c, [x EXCEPT !.write = x.to])
    BY <1>1, <2>1, <2>2, OnlyWriteChosen
  <2>3. CASE x.to = None /\ Check(c, [x EXCEPT !.write = "HIDDEN"])
    <3>1. "HIDDEN" \in Value
      BY UsedValues
    <3>. QED
      BY <1>1, <2>1, <2>3, <3>1, OnlyWriteChosen
  <2>. QED
    BY <1>3, <2>2, <2>3 DEF CheckComment
<1>4. CASE CheckArticle(c)
  <2>1. /\ x.op = "set" /\ kind[x.of] = "article"
        /\ Check(c, [x EXCEPT !.write = x.to])
    BY <1>4 DEF CheckArticle, At
  <2>. QED
    BY <1>1, <2>1, OnlyWriteChosen
<1>5. CASE CheckUser(c)
  <2>1. /\ x.op = "set" /\ kind[x.of] = "user" /\ "user" \notin Content
        /\ Check(c, [x EXCEPT !.write = x.to])
    BY <1>5, Kinds DEF CheckUser, At
  <2>2. x.to \in Value
    BY <1>1, <2>1 DEF Asked
  <2>. QED
    BY <1>1, <2>1, <2>2, OnlyWriteChosen
<1>6. CASE CheckReport(c)
  <2>1. x.op = "set" /\ kind[x.of] = "report" /\ "report" \notin Content /\ x.to \in Value
    BY <1>1, <1>6, Kinds DEF CheckReport, At, Asked
  <2>2. PICK t \in {None} \cup {r \in Row : Decides(r, x.to)} :
            Check(c, [x EXCEPT !.write = x.to, !.target = t])
    BY <1>6 DEF CheckReport
  <2>3. CASE t \in Row /\ Decides(t, x.to)
    <3>1. kind[t] \in Content
      BY <2>3, Kinds DEF Decides
    <3>. QED
      BY <1>1, <2>1, <2>2, <2>3, <3>1, WriteChosen
  <2>4. CASE t = None
    <3>1. x.target = None
      BY <1>1, <2>1 DEF Asked
    <3>. QED
      BY <1>1, <2>1, <2>2, <2>4, <3>1, WriteChosen
  <2>. QED
    BY <2>3, <2>4
<1>. QED
  BY <1>2, <1>3, <1>4, <1>5, <1>6

LEMMA FindKeeps ==
    ASSUME Inv, NEW c \in Call, FindRow(c) \/ FindNothing(c) PROVE Inv'
<1>. DEFINE x == call[c]
            y == [x EXCEPT !.pc = "commit"]
<1>1. x.pc = "check" /\ x.op \notin {"create", "set"} /\ Check(c, x)
  BY DEF FindRow, FindNothing, At
<1>2. x \in CallRecord
  BY <1>1, AtCheck
<1>3. call' = [call EXCEPT ![c] = y] /\ UNCHANGED <<kind, state, slug, told>>
  BY <1>1 DEF Check
<1>4. /\ y \in CallRecord /\ y.pc = "commit" /\ y.op = x.op /\ y.of = x.of /\ y.to = x.to
      /\ y.before = x.before /\ y.early = x.early /\ y.target = x.target
  <2>. HIDE DEF x
  <2>. QED
    BY <1>2 DEF CallRecord
<1>5. Checked(y, kind[y.of])
  BY <1>1, <1>4 DEF Checked
<1>. HIDE DEF y
<1>. QED
  BY <1>1, <1>3, <1>4, <1>5, CheckKeeps

-----------------------------------------------------------------------------
(* The services' writes. *)

(* The row and the record of a request that is ready to write. *)
LEMMA AtCommit ==
    ASSUME Inv, NEW c \in Call, call[c].pc = "commit"
    PROVE  /\ call[c] \in CallRecord /\ call[c].of \in Row
           /\ Asked(call[c], kind[call[c].of], state[call[c].of])
           /\ Checked(call[c], kind[call[c].of])
           /\ call[c].target # None =>
                  call[c].target \in Row /\ kind[call[c].target] \in Content
           /\ state \in [Row -> Value] /\ slug \in [Row -> Slug \cup {<<>>}]
           /\ Logging(c) \in {"idle", "log"} /\ (Logging(c) = "idle" => ~call[c].logs)
BY DEF Inv, TypeOK, CallsFit, Fit, Targets, Logging

LEMMA InsertNamedKeeps ==
    ASSUME Inv, NEW c \in Call, InsertNamed(c) PROVE Inv'
<1>. DEFINE r == call[c].of
            s == call[c].slugs[1]
            new == [state EXCEPT ![r] = call[c].write]
<1>1. /\ call[c].pc = "commit" /\ call[c].op = "create" /\ kind[r] \in Named
      /\ Settle(c, new, Logging(c)) /\ UNCHANGED kind
      /\ slug' = [slug EXCEPT ![r] = s]
  BY DEF InsertNamed, Ready
<1>2. /\ call[c] \in CallRecord /\ r \in Row /\ state \in [Row -> Value]
      /\ call[c].write \in Value /\ call[c].slugs # <<>> /\ call[c].slugs \in Seq(Slug)
      /\ slug \in [Row -> Slug \cup {<<>>}]
      /\ Logging(c) \in {"idle", "log"} /\ (Logging(c) = "idle" => ~call[c].logs)
  BY <1>1, AtCommit DEF Asked, Checked, CallRecord
<1>3. new \in [Row -> Value]
  BY <1>2
<1>4. s \in Slug
  <2>1. 1 \in 1..Len(call[c].slugs)
    <3>1. Len(call[c].slugs) \in Nat /\ Len(call[c].slugs) # 0
      BY <1>2, EmptySeq, LenProperties
    <3>. QED
      BY <3>1
  <2>. QED
    BY <1>2, <2>1, ElementOfSeq
<1>6. /\ state' = new /\ CallsFit' /\ Targets' /\ TrailTellsTheRow'
      /\ call' \in [Call -> CallRecord] /\ told' \in [Row -> Value \cup {None}]
  <2>. HIDE DEF new
  <2>. QED
    BY <1>1, <1>2, <1>3, SettleKeeps
<1>7. slug' \in [Row -> Slug \cup {<<>>}] /\ slug'[r] # <<>>
  BY <1>1, <1>2, <1>4 DEF Slug
<1>8. Slugged'
  BY <1>1, <1>2, <1>6, <1>7 DEF Inv, Slugged, Exists
<1>9. TypeOK'
  BY <1>1, <1>3, <1>6, <1>7 DEF Inv, TypeOK
<1>. QED
  BY <1>6, <1>8, <1>9 DEF Inv

(* A write that leaves every slug and every row's presence as they are, or *)
(* only makes rows present that have no slug.                              *)
LEMMA StatusWriteKeeps ==
    ASSUME Inv, NEW c \in Call, NEW new \in [Row -> Value], NEW pc \in {"idle", "hide", "log"},
           Settle(c, new, pc), UNCHANGED <<kind, slug>>, call[c].pc = "commit",
           pc = "idle" => ~call[c].logs,
           pc = "hide" => call[c].op = "translate" /\ kind[call[c].of] = "article",
           new[call[c].of] # state[call[c].of] => pc # "hide",
           call[c].op = "set" /\ kind[call[c].of] \in Content =>
               new[call[c].of] = IF call[c].write = None THEN state[call[c].of] ELSE call[c].write,
           \A r \in Row : kind[r] \in Named => new[r] = state[r]
    PROVE  Inv'
<1>1. /\ state' = new /\ CallsFit' /\ Targets' /\ TrailTellsTheRow'
      /\ call' \in [Call -> CallRecord] /\ told' \in [Row -> Value \cup {None}]
  BY SettleKeeps
<1>2. TypeOK'
  BY <1>1 DEF Inv, TypeOK
<1>3. Slugged'
  BY <1>1 DEF Inv, Slugged, Exists
<1>. QED
  BY <1>1, <1>2, <1>3 DEF Inv

(* What a report, or the system's report, does to other rows is not done   *)
(* to a named row.                                                         *)
LEMMA OtherRows ==
    ASSUME Inv, NEW s, s \in TakenDown \cup SystemReported
    PROVE  s \in [Row -> Value] /\ \A r \in Row : kind[r] \in Named => s[r] = state[r]
<1>1. state \in [Row -> Value]
  BY DEF Inv, TypeOK
<1>2. \/ s = state
      \/ \E t \in Row, v \in Value : kind[t] \notin Named /\ s = [state EXCEPT ![t] = v]
  BY UsedValues, Kinds DEF TakenDown, SystemReported
<1>. QED
  BY <1>1, <1>2

(* The row of a comment that is written is no report's. *)
LEMMA OwnRow ==
    ASSUME Inv, NEW s \in SystemReported, NEW r \in Row, kind[r] \in Content
    PROVE  s[r] = state[r]
<1>1. state \in [Row -> Value] /\ kind[r] # "report"
  BY Kinds DEF Inv, TypeOK
<1>. QED
  BY <1>1 DEF SystemReported

LEMMA InsertKeeps ==
    ASSUME Inv, NEW c \in Call, Insert(c) \/ InsertReport(c) \/ InsertComment(c) PROVE Inv'
<1>. DEFINE r == call[c].of
<1>1. /\ call[c].pc = "commit" /\ call[c].op = "create" /\ kind[r] \notin Named
      /\ UNCHANGED <<kind, slug>>
  BY Kinds DEF Insert, InsertReport, InsertComment, Ready
<1>2. PICK s \in TakenDown \cup SystemReported :
          Settle(c, [s EXCEPT ![r] = call[c].write], Logging(c))
  <2>1. state \in TakenDown
    BY DEF TakenDown
  <2>. QED
    BY <2>1 DEF Insert, InsertReport, InsertComment
<1>. DEFINE new == [s EXCEPT ![r] = call[c].write]
<1>3. /\ r \in Row /\ call[c].write \in Value
      /\ Logging(c) \in {"idle", "log"} /\ (Logging(c) = "idle" => ~call[c].logs)
  BY <1>1, AtCommit DEF Checked
<1>4. s \in [Row -> Value] /\ \A q \in Row : kind[q] \in Named => s[q] = state[q]
  BY OtherRows
<1>5. new \in [Row -> Value] /\ \A q \in Row : kind[q] \in Named => new[q] = state[q]
  BY <1>1, <1>3, <1>4
<1>. HIDE DEF new
<1>. QED
  BY <1>1, <1>2, <1>3, <1>5, StatusWriteKeeps DEF new

LEMMA SetStatusKeeps ==
    ASSUME Inv, NEW c \in Call, SetStatus(c) PROVE Inv'
<1>. DEFINE r == call[c].of
            write == call[c].write
<1>1. /\ call[c].pc = "commit" /\ call[c].op = "set" /\ kind[r] \notin Named
      /\ kind[r] \in Content /\ UNCHANGED <<kind, slug>>
  BY Kinds DEF SetStatus, Ready
<1>2. PICK s \in SystemReported :
          Settle(c, IF write = None THEN s ELSE [s EXCEPT ![r] = write], Logging(c))
  <2>1. state \in SystemReported
    BY DEF SystemReported
  <2>. QED
    BY <2>1 DEF SetStatus
<1>. DEFINE new == IF write = None THEN s ELSE [s EXCEPT ![r] = write]
<1>3. /\ call[c] \in CallRecord /\ r \in Row
      /\ Logging(c) \in {"idle", "log"} /\ (Logging(c) = "idle" => ~call[c].logs)
  BY <1>1, AtCommit
<1>4. write = None \/ write \in Value
  BY <1>3 DEF CallRecord
<1>5. /\ s \in [Row -> Value] /\ s[r] = state[r]
      /\ \A q \in Row : kind[q] \in Named => s[q] = state[q]
  BY <1>1, <1>3, OtherRows, OwnRow
<1>6. new \in [Row -> Value] /\ \A q \in Row : kind[q] \in Named => new[q] = state[q]
  BY <1>1, <1>3, <1>4, <1>5
<1>7. new[r] = IF write = None THEN state[r] ELSE write
  BY <1>3, <1>5
<1>8. Settle(c, new, Logging(c))
  BY <1>2
<1>. HIDE DEF new
<1>. QED
  BY <1>1, <1>3, <1>6, <1>7, <1>8, StatusWriteKeeps

LEMMA SetReportKeeps ==
    ASSUME Inv, NEW c \in Call, SetReport(c) PROVE Inv'
<1>. DEFINE x == call[c]
            new == [r \in Row |-> IF r = x.of THEN x.write
                                  ELSE IF r = x.target THEN Verdict(x.target, x.to) ELSE state[r]]
<1>1. /\ x.pc = "commit" /\ x.op = "set" /\ kind[x.of] = "report"
      /\ kind[x.of] \notin Named \cup Content
      /\ Settle(c, new, Logging(c)) /\ UNCHANGED <<kind, slug>>
  BY Kinds DEF SetReport, Ready
<1>2. /\ x.of \in Row /\ state \in [Row -> Value] /\ x.write \in Value
      /\ x.target # None => kind[x.target] \in Content
      /\ Logging(c) \in {"idle", "log"} /\ (Logging(c) = "idle" => ~x.logs)
  BY <1>1, AtCommit DEF Checked
<1>3. Verdict(x.target, x.to) \in Value
  BY UsedValues DEF Verdict
<1>4. new \in [Row -> Value]
  BY <1>2, <1>3
<1>5. \A q \in Row : kind[q] \in Named => new[q] = state[q]
  <2>1. None \notin Row
    BY BackOfficeAssumption DEF None
  <2>. QED
    BY <1>1, <1>2, <2>1, Kinds
<1>. HIDE DEF new
<1>. QED
  BY <1>1, <1>2, <1>4, <1>5, StatusWriteKeeps

LEMMA SetUserStatusKeeps ==
    ASSUME Inv, NEW c \in Call, SetUserStatus(c) PROVE Inv'
<1>. DEFINE r == call[c].of
            new == [state EXCEPT ![r] = call[c].write]
<1>1. /\ call[c].pc = "commit" /\ call[c].op = "set" /\ kind[r] = "user"
      /\ Settle(c, new, Logging(c)) /\ UNCHANGED <<kind, slug>>
      /\ kind[r] \notin Named \cup Content
  BY Kinds DEF SetUserStatus, Ready
<1>2. /\ r \in Row /\ call[c].write \in Value /\ state \in [Row -> Value]
      /\ Logging(c) \in {"idle", "log"} /\ (Logging(c) = "idle" => ~call[c].logs)
  BY <1>1, AtCommit DEF Checked
<1>3. new \in [Row -> Value] /\ \A q \in Row : kind[q] \in Named => new[q] = state[q]
  BY <1>1, <1>2
<1>. HIDE DEF new
<1>. QED
  BY <1>1, <1>2, <1>3, StatusWriteKeeps

LEMMA CommitTranslationKeeps ==
    ASSUME Inv, NEW c \in Call, CommitTranslation(c) PROVE Inv'
<1>1. /\ call[c].pc = "commit" /\ call[c].op = "translate" /\ kind[call[c].of] = "article"
      /\ UNCHANGED <<kind, slug>>
  BY DEF CommitTranslation, Ready
<1>2. PICK pc \in {"hide", Logging(c)} : Settle(c, state, pc)
  BY DEF CommitTranslation
<1>3. state \in [Row -> Value] /\ pc \in {"idle", "hide", "log"} /\ (pc = "idle" => ~call[c].logs)
  BY <1>1, AtCommit
<1>. QED
  BY <1>1, <1>2, <1>3, StatusWriteKeeps

LEMMA EditKeeps ==
    ASSUME Inv, NEW c \in Call, call[c].pc = "commit", call[c].op = "edit", Edit(c) PROVE Inv'
<1>. DEFINE r == call[c].of
            slugs == call[c].slugs
<1>1. /\ Settle(c, state, Logging(c)) /\ UNCHANGED kind
      /\ slug' = IF slugs = <<>> THEN slug ELSE [slug EXCEPT ![r] = slugs[1]]
  BY DEF Edit
<1>2. /\ call[c] \in CallRecord /\ r \in Row /\ slugs \in Seq(Slug)
      /\ state \in [Row -> Value] /\ slug \in [Row -> Slug \cup {<<>>}]
      /\ Logging(c) \in {"idle", "log"} /\ (Logging(c) = "idle" => ~call[c].logs)
  BY AtCommit DEF CallRecord
<1>3. /\ state' = state /\ CallsFit' /\ Targets' /\ TrailTellsTheRow'
      /\ call' \in [Call -> CallRecord] /\ told' \in [Row -> Value \cup {None}]
  BY <1>1, <1>2, SettleKeeps
<1>4. slugs # <<>> => slugs[1] \in Slug
  <2>. SUFFICES ASSUME slugs # <<>> PROVE slugs[1] \in Slug
    OBVIOUS
  <2>. HIDE DEF slugs
  <2>1. 1 \in 1..Len(slugs)
    <3>1. Len(slugs) \in Nat /\ Len(slugs) # 0
      BY <1>2, EmptySeq, LenProperties
    <3>. QED
      BY <3>1
  <2>. QED
    BY <1>2, <2>1, ElementOfSeq
<1>5. /\ slug' \in [Row -> Slug \cup {<<>>}]
      /\ \A q \in Row : slug[q] # <<>> => slug'[q] # <<>>
  <2>1. CASE slugs = <<>>
    BY <1>1, <1>2, <2>1
  <2>2. CASE slugs # <<>>
    <3>1. slugs[1] \in Slug /\ slugs[1] # <<>>
      BY <1>4, <2>2 DEF Slug
    <3>. QED
      BY <1>1, <1>2, <2>2, <3>1
  <2>. QED
    BY <2>1, <2>2
<1>6. TypeOK'
  BY <1>1, <1>2, <1>3, <1>5 DEF Inv, TypeOK
<1>7. Slugged'
  BY <1>1, <1>3, <1>5 DEF Inv, Slugged, Exists
<1>. QED
  BY <1>3, <1>6, <1>7 DEF Inv

LEMMA DeleteKeeps ==
    ASSUME Inv, NEW c \in Call, call[c].pc = "commit", call[c].op = "remove",
           NEW cascaded, Delete(c, cascaded)
    PROVE  Inv'
<1>. DEFINE r == call[c].of
            new == [s \in Row |-> IF s = r \/ s \in cascaded THEN Deleted ELSE state[s]]
<1>1. /\ Settle(c, new, Logging(c)) /\ UNCHANGED kind
      /\ slug' = [slug EXCEPT ![r] = <<>>]
  BY DEF Delete
<1>2. /\ r \in Row /\ state \in [Row -> Value] /\ slug \in [Row -> Slug \cup {<<>>}]
      /\ Logging(c) \in {"idle", "log"} /\ (Logging(c) = "idle" => ~call[c].logs)
  BY AtCommit
<1>3. new \in [Row -> Value]
  BY <1>2, KnownValues
<1>5. /\ state' = new /\ CallsFit' /\ Targets' /\ TrailTellsTheRow'
      /\ call' \in [Call -> CallRecord] /\ told' \in [Row -> Value \cup {None}]
  <2>. HIDE DEF new
  <2>. QED
    BY <1>1, <1>2, <1>3, SettleKeeps
<1>6. TypeOK'
  BY <1>1, <1>2, <1>3, <1>5 DEF Inv, TypeOK
<1>7. Slugged'
  BY <1>1, <1>2, <1>5 DEF Inv, Slugged, Exists
<1>. QED
  BY <1>5, <1>6, <1>7 DEF Inv

(* The article is hidden by the scan of a translation: in doubt until an   *)
(* entry tells its status again.                                           *)
LEMMA HideArticleKeeps ==
    ASSUME Inv, NEW c \in Call, HideArticle(c) PROVE Inv'
<1>. DEFINE r == call[c].of
            x == call[c]
            new == IF state[r] \in {"HIDDEN", "BANNED"} THEN state ELSE [state EXCEPT ![r] = "HIDDEN"]
<1>1. /\ x \in CallRecord /\ r \in Row /\ x.op = "translate" /\ kind[r] = "article"
      /\ x.before = None /\ x.pc = "hide" /\ x.after \in Value
      /\ state \in [Row -> Value] /\ call \in [Call -> CallRecord]
  BY DEF HideArticle, Inv, TypeOK, CallsFit, Fit
<1>2. /\ state' = new /\ UNCHANGED <<kind, slug>>
      /\ told' = IF new = state THEN told ELSE [told EXCEPT ![r] = None]
      /\ call' = [d \in Call |->
                     IF d = c THEN IF x.logs THEN [x EXCEPT !.pc = "log"] ELSE NoCall
                     ELSE IF call[d].of = r /\ new # state THEN Overtaken(d) ELSE call[d]]
  BY DEF HideArticle
<1>3. new \in [Row -> Value] /\ \A q \in Row \ {r} : new[q] = state[q]
  BY <1>1, UsedValues
<1>. HIDE DEF new
<1>4. ASSUME NEW d \in Call
      PROVE  /\ call'[d] \in CallRecord /\ Fit(call'[d], kind'[call'[d].of], state'[call'[d].of])
             /\ call'[d].target \in {None, call[d].target}
  <2>0. call[d] \in CallRecord /\ Fit(call[d], kind[call[d].of], state[call[d].of])
    BY <1>1 DEF Inv, CallsFit
  <2>1. CASE d = c /\ x.logs
    <3>. DEFINE y == [x EXCEPT !.pc = "log"]
    <3>1. call'[d] = y
      BY <1>2, <2>1
    <3>2. y \in CallRecord /\ y.pc = "log" /\ y.op = x.op /\ y.of = r /\ y.before = None
          /\ y.after \in Value /\ y.target = call[c].target
      <4>. HIDE DEF x
      <4>1. y \in CallRecord /\ y.pc = "log" /\ y.op = x.op /\ y.of = x.of /\ y.before = x.before
             /\ y.after = x.after /\ y.target = x.target
        BY <1>1, ZenonT(30) DEF CallRecord
      <4>. QED
        BY <1>1, <4>1 DEF x
    <3>. HIDE DEF y
    <3>3. Fit(y, kind[r], new[r])
      BY <1>1, <3>2 DEF Fit, Written, EntryFits, TellsStatus
    <3>. QED
      BY <1>2, <2>1, <3>1, <3>2, <3>3
  <2>2. CASE d = c /\ ~x.logs
    BY <1>2, <2>2, NoCallIs, IdleFits
  <2>3. CASE d # c /\ call[d].of = r /\ new # state
    <3>1. call'[d] = IF call[d].pc \in {"check", "commit"} THEN [call[d] EXCEPT !.early = TRUE]
                                                           ELSE [call[d] EXCEPT !.late = TRUE]
      BY <1>2, <2>3 DEF Overtaken
    <3>2. /\ call'[d] \in CallRecord /\ Fit(call'[d], kind[call[d].of], new[call[d].of])
          /\ call'[d].of = call[d].of /\ call'[d].target = call[d].target
      BY <2>0, <3>1, OvertakenFits
    <3>. QED
      BY <1>2, <3>2
  <2>4. CASE d # c /\ ~(call[d].of = r /\ new # state)
    <3>1. call'[d] = call[d]
      BY <1>2, <2>4
    <3>2. CASE call[d].pc = "idle"
      BY <2>0, <3>1, <3>2, IdleFits
    <3>3. CASE call[d].of \in Row
      BY <1>2, <1>3, <2>0, <2>4, <3>1, <3>3
    <3>. QED
      BY <2>0, <3>2, <3>3 DEF Fit
  <2>. QED
    BY <2>1, <2>2, <2>3, <2>4
<1>5. CallsFit' /\ call' \in [Call -> CallRecord]
  <2>1. \A d \in Call : call'[d] \in CallRecord
    BY <1>4
  <2>2. call' = [d \in Call |-> call'[d]]
    BY <1>2
  <2>. QED
    BY <1>4, <2>1, <2>2 DEF CallsFit
<1>6. TypeOK'
  BY <1>1, <1>2, <1>3, <1>5 DEF Inv, TypeOK
<1>7. Slugged'
  BY <1>1, <1>2, <1>3, Kinds DEF Inv, Slugged, Exists
<1>8. Targets'
  BY <1>2, <1>4 DEF Inv, Targets
<1>9. TrailTellsTheRow'
  <2>. SUFFICES ASSUME NEW s \in Row, told'[s] \notin {None, new[s]}
                PROVE  \E d \in Call : ToTell(d, s)'
    BY <1>2 DEF TrailTellsTheRow, ToTell
  <2>1. new[s] = state[s] /\ told'[s] = told[s] /\ (s = r => new = state)
    BY <1>1, <1>2, <1>3 DEF Inv, TypeOK
  <2>2. PICK d \in Call : ToTell(d, s)
    BY <2>1 DEF Inv, TrailTellsTheRow, ToTell
  <2>3. d # c /\ call'[d] = call[d]
    BY <1>1, <1>2, <2>1, <2>2 DEF ToTell
  <2>. QED
    BY <1>2, <2>2, <2>3 DEF ToTell, Tells
<1>. QED
  BY <1>5, <1>6, <1>7, <1>8, <1>9 DEF Inv

-----------------------------------------------------------------------------
(* The entry is written, or is not. *)

LEMMA LogKeeps ==
    ASSUME Inv, NEW c \in Call, Log(c) \/ LogIsLost(c) PROVE Inv'
<1>. DEFINE r == call[c].of
<1>1. /\ call' = [call EXCEPT ![c] = NoCall] /\ UNCHANGED <<kind, state, slug>>
      /\ call[c].pc \in {"hide", "log"}
  BY DEF Log, LogIsLost
<1>2. /\ call[c] \in CallRecord /\ r \in Row /\ Fit(call[c], kind[r], state[r])
      /\ told \in [Row -> Value \cup {None}] /\ state \in [Row -> Value]
      /\ call \in [Call -> CallRecord]
  BY <1>1 DEF Inv, TypeOK, CallsFit, Fit
<1>3. /\ call'[c] = NoCall /\ call' \in [Call -> CallRecord]
      /\ \A d \in Call \ {c} : call'[d] = call[d]
  BY <1>1, <1>2, NoCallIs
<1>4. CallsFit'
  BY <1>1, <1>3, NoCallIs, IdleFits DEF Inv, CallsFit
<1>5. Slugged'
  BY <1>1 DEF Inv, Slugged, Exists
<1>6. /\ told' \in [Row -> Value \cup {None}]
      /\ \A s \in Row \ {r} : told'[s] = told[s]
      /\ told'[r] \in {None, state[r]} \/ (told' = told /\ ~ToTell(c, r))
  <2>1. CASE LogIsLost(c)
    <3>1. told' = IF Tells(c) /\ call[c].over # call[c].after THEN [told EXCEPT ![r] = None] ELSE told
      BY <2>1 DEF LogIsLost
    <3>. QED
      BY <1>2, <3>1 DEF ToTell
  <2>2. CASE Log(c) /\ ~Tells(c)
    BY <1>2, <2>2 DEF Log, ToTell
  <2>3. CASE Log(c) /\ Tells(c)
    <3>1. /\ told' = [told EXCEPT ![r] = IF call[c].late THEN None ELSE call[c].after]
          /\ call[c].pc = "log"
      BY <2>3 DEF Log
    <3>2. call[c].late \/ call[c].after = state[r]
      BY <1>2, <2>3, <3>1 DEF Fit, Written, Tells, TellsStatus
    <3>. QED
      BY <1>2, <3>1, <3>2
  <2>. QED
    BY <2>1, <2>2, <2>3
<1>7. TypeOK'
  BY <1>1, <1>3, <1>6 DEF Inv, TypeOK
<1>8. Targets'
  BY <1>1, <1>3, NoCallIs DEF Inv, Targets
<1>9. TrailTellsTheRow'
  <2>. SUFFICES ASSUME NEW s \in Row, told'[s] \notin {None, state[s]}
                PROVE  \E d \in Call : ToTell(d, s)'
    BY <1>1 DEF TrailTellsTheRow, ToTell
  <2>1. told[s] \notin {None, state[s]} /\ (s = r => ~ToTell(c, r))
    BY <1>6
  <2>2. PICK d \in Call : ToTell(d, s)
    BY <2>1 DEF Inv, TrailTellsTheRow, ToTell
  <2>3. d # c
    BY <2>1, <2>2 DEF ToTell
  <2>. QED
    BY <1>1, <1>3, <2>2, <2>3 DEF ToTell, Tells
<1>. QED
  BY <1>4, <1>5, <1>7, <1>8, <1>9 DEF Inv

-----------------------------------------------------------------------------
(* The handlers. *)

LEMMA ContentRequests ==
    ASSUME Inv, NEW c \in Call, NEW r \in Row, OnContent(c, r) PROVE Inv'
<1>. USE EnterKeeps, EmptySeq
<1>0. /\ \A to \in Statuses("comment") \cup Statuses("article") : to \in Value
      /\ {"VISIBLE", "HIDDEN", "DRAFT"} \subseteq Value
      /\ "reads" \notin Admin
      /\ "comment" \notin {"user", "report"} /\ "article" \notin {"user", "report"}
  BY StatusesOf, UsedValues DEF Admin
<1>1. ASSUME NEW to \in (Statuses("comment") \cap InUse) \cup {None}, AdminCommentUpdate(c, r, to)
      PROVE  Inv'
  BY <1>0, <1>1 DEF AdminCommentUpdate
<1>2. ASSUME NEW to \in {"VISIBLE", "HIDDEN"}, CommentCreate(c, r, to) PROVE Inv'
  BY <1>0, <1>2, Kinds DEF CommentCreate
<1>3. CASE AdminCommentRemove(c, r)
  BY <1>3 DEF AdminCommentRemove
<1>4. CASE CommentUpdate(c, r)
  BY <1>0, <1>4 DEF CommentUpdate
<1>5. CASE CommentRemove(c, r)
  BY <1>5 DEF CommentRemove
<1>6. ASSUME NEW to \in Statuses("article") \cap InUse, AdminArticleCreate(c, r, to) PROVE Inv'
  BY <1>0, <1>6, Kinds DEF AdminArticleCreate
<1>7. ASSUME NEW to \in (Statuses("article") \cap InUse) \cup {None}, AdminArticleUpdate(c, r, to)
      PROVE  Inv'
  BY <1>0, <1>7 DEF AdminArticleUpdate
<1>8. ASSUME NEW to \in {"DRAFT", "HIDDEN"}, ArticleCreate(c, r, to) PROVE Inv'
  BY <1>0, <1>8, Kinds DEF ArticleCreate
<1>9. CASE AdminArticleRemove(c, r)
  BY <1>9 DEF AdminArticleRemove
<1>10. CASE ArticleUpdate(c, r)
  BY <1>0, <1>10 DEF ArticleUpdate
<1>11. CASE ArticleRemove(c, r)
  BY <1>11 DEF ArticleRemove
<1>12. CASE AdminCreateTranslation(c, r)
  BY <1>0, <1>12 DEF AdminCreateTranslation
<1>13. CASE AdminUpdateTranslation(c, r)
  BY <1>0, <1>13 DEF AdminUpdateTranslation
<1>14. CASE AdminRemoveTranslation(c, r)
  BY <1>14 DEF AdminRemoveTranslation
<1>. QED
  BY <1>1, <1>2, <1>3, <1>4, <1>5, <1>6, <1>7, <1>8, <1>9, <1>10, <1>11, <1>12, <1>13, <1>14
  DEF OnContent

LEMMA PeopleRequests ==
    ASSUME Inv, NEW c \in Call, NEW r \in Row, OnPeople(c, r) PROVE Inv'
<1>. USE EnterKeeps, EmptySeq
<1>0. /\ \A to \in Statuses("report") \cup Statuses("user") : to \in Value
      /\ "PENDING" \in Value /\ "ACTIVE" \in Value
      /\ "report" \notin Content \cup Named /\ "user" \notin Content \cup Named
  BY StatusesOf, UsedValues, Kinds
<1>1. ASSUME NEW to \in {"PENDING"} \cup (Statuses("report") \cap InUse), AdminReportCreate(c, r, to)
      PROVE  Inv'
  BY <1>0, <1>1 DEF AdminReportCreate
<1>2. CASE ReportCreate(c, r)
  BY <1>0, <1>2 DEF ReportCreate
<1>3. ASSUME NEW to \in Statuses("report") \cap InUse, AdminReportUpdateStatus(c, r, to) PROVE Inv'
  BY <1>0, <1>3 DEF AdminReportUpdateStatus
<1>4. ASSUME NEW to \in Statuses("report") \cap InUse, ReportUpdateStatus(c, r, to) PROVE Inv'
  BY <1>0, <1>4 DEF ReportUpdateStatus
<1>5. ASSUME NEW to \in Statuses("user") \cap InUse, AdminUserUpdateStatus(c, r, to) PROVE Inv'
  BY <1>0, <1>5 DEF AdminUserUpdateStatus
<1>6. CASE AdminUserRemove(c, r)
  BY <1>6 DEF AdminUserRemove
<1>7. CASE UserSync(c, r)
  BY <1>0, <1>7 DEF UserSync
<1>8. CASE UserRemove(c, r)
  BY <1>8 DEF UserRemove
<1>. QED
  BY <1>1, <1>2, <1>3, <1>4, <1>5, <1>6, <1>7, <1>8 DEF OnPeople

LEMMA NamedRequests ==
    ASSUME Inv, NEW c \in Call, NEW r \in Row, OnNamed(c, r) PROVE Inv'
<1>. USE EnterKeeps, EmptySeq
<1>0. Present \in Value
  BY UsedValues
<1>1. ASSUME NEW base \in Base,
             \/ AdminTagCreate(c, r, base) \/ TagCreate(c, r, base)
             \/ AdminCategoryCreate(c, r, base) \/ CategoryCreate(c, r, base)
             \/ AdminWordCreate(c, r, base) \/ WordCreate(c, r, base)
      PROVE  Inv'
  <2>1. PICK slugs \in Seq(Slug) : slugs = <<base>> /\ slugs # <<>>
    <3>1. <<base>> \in Seq(Slug) /\ <<base>> # <<>>
      BY BackOfficeAssumption
    <3>. QED
      BY <3>1
  <2>2. CASE AdminTagCreate(c, r, base)
    BY <1>0, <2>1, <2>2 DEF AdminTagCreate
  <2>3. CASE TagCreate(c, r, base)
    BY <1>0, <2>1, <2>3 DEF TagCreate
  <2>4. CASE AdminCategoryCreate(c, r, base)
    BY <1>0, <2>1, <2>4 DEF AdminCategoryCreate
  <2>5. CASE CategoryCreate(c, r, base)
    BY <1>0, <2>1, <2>5 DEF CategoryCreate
  <2>6. CASE AdminWordCreate(c, r, base)
    BY <1>0, <2>1, <2>6 DEF AdminWordCreate
  <2>7. CASE WordCreate(c, r, base)
    BY <1>0, <2>1, <2>7 DEF WordCreate
  <2>. QED
    BY <1>1, <2>2, <2>3, <2>4, <2>5, <2>6, <2>7
<1>2. ASSUME NEW slugs \in Slugs1, AdminTagUpdate(c, r, slugs) \/ AdminCategoryUpdate(c, r, slugs)
      PROVE  Inv'
  <2>1. slugs \in Seq(Slug)
    <3>1. \A s \in Rename : <<s>> \in Seq(Slug)
      BY BackOfficeAssumption
    <3>. QED
      BY <3>1 DEF Slugs1
  <2>. QED
    BY <1>2, <2>1 DEF AdminTagUpdate, AdminCategoryUpdate
<1>3. CASE AdminTagRemove(c, r) \/ TagUpdate(c, r) \/ TagRemove(c, r)
  BY <1>3 DEF AdminTagRemove, TagUpdate, TagRemove
<1>4. CASE AdminCategoryRemove(c, r) \/ CategoryUpdate(c, r) \/ CategoryRemove(c, r)
  BY <1>4 DEF AdminCategoryRemove, CategoryUpdate, CategoryRemove
<1>5. CASE AdminWordRemove(c, r) \/ WordRemove(c, r)
  BY <1>5 DEF AdminWordRemove, WordRemove
<1>. QED
  BY <1>1, <1>2, <1>3, <1>4, <1>5 DEF OnNamed

-----------------------------------------------------------------------------
LEMMA InitInv == Init => Inv
<1>. SUFFICES ASSUME Init PROVE Inv
  OBVIOUS
<1>1. TypeOK
  BY KnownValues, NoCallIs DEF Init, TypeOK
<1>2. CallsFit
  BY NoCallIs, IdleFits DEF Init, CallsFit
<1>3. Slugged
  BY DEF Init, Slugged, Exists
<1>4. TrailTellsTheRow
  BY DEF Init, TrailTellsTheRow
<1>5. Targets
  BY NoCallIs DEF Init, Targets
<1>. QED
  BY <1>1, <1>2, <1>3, <1>4, <1>5 DEF Inv

LEMMA NextInv == Inv /\ [Next]_vars => Inv'
<1>. SUFFICES ASSUME Inv, [Next]_vars PROVE Inv'
  OBVIOUS
<1>1. CASE UNCHANGED vars
  <2>1. TypeOK' /\ CallsFit' /\ Slugged'
    BY <1>1 DEF Inv, vars, TypeOK, CallsFit, Slugged, Exists
  <2>2. TrailTellsTheRow' /\ Targets'
    BY <1>1 DEF Inv, vars, TrailTellsTheRow, Targets, Tells
  <2>. QED
    BY <2>1, <2>2 DEF Inv
<1>2. ASSUME NEW c \in Call, NEW r \in Row, OnContent(c, r) \/ OnPeople(c, r) \/ OnNamed(c, r)
      PROVE  Inv'
  BY <1>2, ContentRequests, PeopleRequests, NamedRequests
<1>3. ASSUME NEW c \in Call,
             \/ ChooseTagSlug(c) \/ ChooseCategorySlug(c) \/ FindWord(c) \/ CheckCreate(c)
             \/ CheckComment(c) \/ CheckArticle(c) \/ CheckUser(c) \/ CheckReport(c)
             \/ FindRow(c) \/ FindNothing(c) \/ Refused(c)
      PROVE  Inv'
  BY <1>3, ChooseKeeps, FindWordKeeps, StatusCheckKeeps, FindKeeps, RefusedKeeps
<1>4. ASSUME NEW c \in Call,
             \/ InsertNamed(c) \/ Insert(c) \/ InsertReport(c) \/ InsertComment(c)
             \/ SetStatus(c) \/ SetReport(c) \/ SetUserStatus(c)
             \/ CommitTranslation(c) \/ HideArticle(c) \/ Log(c) \/ LogIsLost(c)
      PROVE  Inv'
  BY <1>4, InsertNamedKeeps, InsertKeeps, SetStatusKeeps, SetReportKeeps, SetUserStatusKeeps,
     CommitTranslationKeeps, HideArticleKeeps, LogKeeps
<1>5. ASSUME NEW c \in Call, UpdateTag(c) \/ UpdateCategory(c) \/ DropTranslation(c) PROVE Inv'
  BY <1>5, EditKeeps DEF UpdateTag, UpdateCategory, DropTranslation, Ready
<1>6. ASSUME NEW c \in Call,
             \/ RemoveTag(c) \/ RemoveCategory(c) \/ RemoveWord(c)
             \/ RemoveComment(c) \/ RemoveArticle(c) \/ RemoveUser(c)
      PROVE  Inv'
  BY <1>6, DeleteKeeps
  DEF RemoveTag, RemoveCategory, RemoveWord, RemoveComment, RemoveArticle, RemoveUser, Ready
<1>. QED
  BY <1>1, <1>2, <1>3, <1>4, <1>5, <1>6 DEF Next

LEMMA Invariance == Spec => []Inv
<1>. QED
  BY InitInv, NextInv, PTL DEF Spec

(* Each request's record, each row's status and slug stay what the code    *)
(* can make of them: no status outside the row's enums is ever written.    *)
THEOREM TypeCorrect == Spec => []TypeOK
<1>1. Inv => TypeOK
  BY DEF Inv
<1>. QED
  BY <1>1, Invariance, PTL

(* The trail tells what a row is, except for what is never logged (what a  *)
(* threshold or a decision makes of its target and a cascade of its rows   *)
(* included) and for entries that crossed (audit-logger.service.ts:44),    *)
(* for any number of requests.                                             *)
THEOREM TrailTells == Spec => []TrailTellsTheRow
<1>1. Inv => TrailTellsTheRow
  BY DEF Inv
<1>. QED
  BY <1>1, Invariance, PTL

(* The status before and the action of an entry are right unless another   *)
(* request, or the decision on a report, came between the handler's read   *)
(* and the service's write (admin-comments.controller.ts:126).             *)
THEOREM EntriesAreRight == Spec => []EntryIsRight
<1>1. Inv => EntryIsRight
  <2>. SUFFICES ASSUME Inv, NEW c \in Call, call[c].pc = "log", call[c].before # None
                PROVE  \/ call[c].early
                       \/ /\ call[c].before = call[c].over
                          /\ call[c].op = "set" /\ kind[call[c].of] \in Content =>
                                \/ StatusChanged(c) <=> call[c].over # call[c].after
                                \/ call[c].admin /\ call[c].to = None /\ call[c].after = "HIDDEN"
    BY DEF EntryIsRight
  <2>1. EntryFits(call[c], kind[call[c].of])
    BY DEF Inv, CallsFit, Fit, Written
  <2>. QED
    BY <2>1 DEF EntryFits, SaysChanged, StatusChanged
<1>. QED
  BY <1>1, Invariance, PTL

(* A creation that was not overtaken finds its slug or its word free when  *)
(* it inserts it (P2002 only after an overlap).                            *)
THEOREM RefusalsMeanOverlap == Spec => []RefusalMeansOverlap
<1>1. Inv => RefusalMeansOverlap
  <2>. SUFFICES ASSUME Inv, NEW c \in Call, call[c].pc = "commit", call[c].op = "create",
                       kind[call[c].of] \in Named
                PROVE  call[c].slugs[1] \notin call[c].known
    BY DEF RefusalMeansOverlap
  <2>1. Checked(call[c], kind[call[c].of])
    BY DEF Inv, CallsFit, Fit
  <2>. QED
    BY <2>1 DEF Checked
<1>. QED
  BY <1>1, Invariance, PTL
=============================================================================
