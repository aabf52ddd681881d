--------------------------- MODULE HousekeepingProofs ---------------------------
(***************************************************************************)
(* Proofs about Housekeeping, for any replicas, tenants, counters and days. *)
(* Of the liveness property NightIsCounted, TLC alone has that runs which  *)
(* have ever fewer steps left, and go on, end: that takes fairness.        *)
(***************************************************************************)
EXTENDS Housekeeping, FiniteSetTheorems, TLAPS

(* The tenant is there while its words are being inserted. *)
WordsHaveTenant == \A r \in Replica : replica[r] = "words" => Default \in tenants

(* What a run has counted is what there is to count, unless that moved. *)
CountedNow == \A k \in Run :
    /\ run[k].pc \in {"count", "save"} /\ ~run[k].moved =>
          \A c \in DOMAIN run[k].got : run[k].got[c] = count[<<run[k].at, k[2]>>][c]
    /\ run[k].pc = "save" => DOMAIN run[k].got = Counter

(* The two halves of the state, which share only tenants. *)
StartInv ==
    /\ seeding \in BOOLEAN /\ cut \in BOOLEAN
    /\ replica \in [Replica -> {"down", "find", "create", "words", "up"}]
    /\ tenants \subseteq Tenant /\ worded \subseteq tenants
    /\ WordsHaveTenant /\ WordsUnlessCut

Tally ==
    /\ today \in 0..MaxDay + 1
    /\ count \in [Tenant \X Day -> Reading]
    /\ stats \in [Tenant \X Day -> Reading \cup {NoRow}]
    /\ changes \in 0..MaxChanges /\ failures \in 0..MaxFailures
    /\ known \in [Day -> SUBSET Tenant]
    /\ manned \subseteq Day /\ troubled \subseteq Day

NightInv == Tally /\ run \in [Run -> RunRecord] /\ CountedNow

LEMMA NoRowTypes == NoRow \in Got /\ DOMAIN NoRow = {}
<1>1. <<>> = [c \in {} |-> 0]
  BY SMT
<1>2. [c \in {} |-> 0] \in [{} -> 0..MaxChanges]
  BY SMT
<1>. QED
  BY <1>1, <1>2, SMT DEF NoRow, Got

LEMMA NoRunTypes == NoRun \in RunRecord
BY NoRowTypes, HousekeepingAssumption DEF NoRun, Place, RunRecord

LEMMA InitInv == Init => StartInv /\ NightInv
<1>. SUFFICES ASSUME Init PROVE StartInv /\ NightInv
  OBVIOUS
<1>1. count \in [Tenant \X Day -> Reading]
  BY HousekeepingAssumption DEF Init, Reading
<1>2. run \in [Run -> RunRecord] /\ CountedNow
  BY NoRunTypes DEF Init, CountedNow, NoRun, Place
<1>3. today \in 0..MaxDay + 1 /\ changes \in 0..MaxChanges /\ failures \in 0..MaxFailures
  BY HousekeepingAssumption DEF Init
<1>4. stats \in [Tenant \X Day -> Reading \cup {NoRow}]
  BY DEF Init
<1>5. Tally
  BY <1>1, <1>3, <1>4 DEF Init, Tally
<1>6. StartInv
  BY DEF Init, StartInv, WordsHaveTenant, WordsUnlessCut
<1>. QED
  BY <1>2, <1>5, <1>6 DEF NightInv

-----------------------------------------------------------------------------
(* The start. *)

LEMMA StartKeeps ==
    ASSUME StartInv, NEW r \in Replica,
           Start(r) \/ FindTenant(r) \/ CreateTenant(r) \/ SeedWords(r)
    PROVE  StartInv'
<1>1. CASE Start(r)
  BY <1>1 DEF Start, StartInv, WordsHaveTenant, WordsUnlessCut
<1>2. CASE FindTenant(r)
  BY <1>2 DEF FindTenant, StartInv, WordsHaveTenant, WordsUnlessCut
<1>3. CASE CreateTenant(r)
  <2>1. CASE Default \in tenants
    BY <1>3, <2>1 DEF CreateTenant, StartInv, WordsHaveTenant, WordsUnlessCut
  <2>2. CASE Default \notin tenants
    <3>1. replica' = [replica EXCEPT ![r] = "words"] /\ tenants' = tenants \cup {Default}
      BY <1>3, <2>2 DEF CreateTenant
    <3>2. UNCHANGED <<seeding, worded, cut>>
      BY <1>3 DEF CreateTenant
    <3>. QED
      BY <3>1, <3>2, HousekeepingAssumption DEF StartInv, WordsHaveTenant, WordsUnlessCut
  <2>. QED
    BY <2>1, <2>2
<1>4. CASE SeedWords(r)
  BY <1>4, HousekeepingAssumption DEF SeedWords, StartInv, WordsHaveTenant, WordsUnlessCut
<1>. QED
  BY <1>1, <1>2, <1>3, <1>4

LEMMA AddTenantKeeps ==
    ASSUME StartInv, NEW t \in Tenant, AddTenant(t)
    PROVE  StartInv'
BY DEF AddTenant, StartInv, WordsHaveTenant, WordsUnlessCut

LEMMA DieKeepsStart ==
    ASSUME StartInv, NEW r \in Replica, Die(r)
    PROVE  StartInv'
<1>1. replica' = [replica EXCEPT ![r] = "down"] /\ cut' = (cut \/ replica[r] = "words")
  BY DEF Die
<1>2. UNCHANGED <<seeding, tenants, worded>>
  BY DEF Die
<1>. QED
  BY <1>1, <1>2 DEF StartInv, WordsHaveTenant, WordsUnlessCut

LEMMA StutterKeepsStart ==
    ASSUME StartInv, UNCHANGED atStart
    PROVE  StartInv'
BY DEF atStart, StartInv, WordsHaveTenant, WordsUnlessCut

-----------------------------------------------------------------------------
(* The night. *)

LEMMA SameTally ==
    ASSUME Tally, UNCHANGED <<today, count, stats, changes, failures, known, manned, troubled>>
    PROVE  Tally'
BY DEF Tally

LEMMA RunKey == ASSUME NEW k \in Run PROVE k[1] \in Replica /\ k[2] \in Day
BY DEF Run

(* A run is given another record; the others keep theirs. *)
LEMMA GivenRecord ==
    ASSUME run \in [Run -> RunRecord], CountedNow, NEW k \in Run, NEW rec \in RunRecord,
           run' = [run EXCEPT ![k] = rec], count' = count,
           rec.pc \in {"count", "save"} /\ ~rec.moved =>
               \A c \in DOMAIN rec.got : rec.got[c] = count[<<rec.at, k[2]>>][c],
           rec.pc = "save" => DOMAIN rec.got = Counter
    PROVE  run' \in [Run -> RunRecord] /\ CountedNow'
<1>1. run' \in [Run -> RunRecord]
  OBVIOUS
<1>2. \A j \in Run : run'[j] = IF j = k THEN rec ELSE run[j]
  OBVIOUS
<1>3. ASSUME NEW j \in Run
      PROVE  /\ run'[j].pc \in {"count", "save"} /\ ~run'[j].moved =>
                    \A c \in DOMAIN run'[j].got : run'[j].got[c] = count'[<<run'[j].at, j[2]>>][c]
             /\ run'[j].pc = "save" => DOMAIN run'[j].got = Counter
  <2>1. CASE j = k
    BY <1>2, <2>1
  <2>2. CASE j # k
    BY <1>2, <2>2 DEF CountedNow
  <2>. QED
    BY <2>1, <2>2
<1>. QED
  BY <1>1, <1>3 DEF CountedNow

LEMMA RunEnds ==
    ASSUME run \in [Run -> RunRecord], CountedNow, NEW k \in Run,
           run' = [run EXCEPT ![k] = NoRun], count' = count
    PROVE  run' \in [Run -> RunRecord] /\ CountedNow'
<1>1. NoRun.pc = "none"
  BY DEF NoRun, Place
<1>. QED
  BY <1>1, NoRunTypes, GivenRecord

(* A run at a place in the loop where it has counted nothing. *)
LEMMA PlaceTypes ==
    ASSUME NEW pc \in {"list", "next", "count"}, NEW left \in SUBSET Tenant, NEW at \in Tenant
    PROVE  /\ Place(pc, left, at) \in RunRecord
           /\ Place(pc, left, at).pc = pc /\ DOMAIN Place(pc, left, at).got = {}
BY NoRowTypes DEF Place, RunRecord

LEMMA RunMoves ==
    ASSUME run \in [Run -> RunRecord], CountedNow, NEW k \in Run, count' = count,
           NEW pc \in {"list", "next", "count"}, NEW left \in SUBSET Tenant, NEW at \in Tenant,
           run' = [run EXCEPT ![k] = Place(pc, left, at)]
    PROVE  run' \in [Run -> RunRecord] /\ CountedNow'
<1>. DEFINE rec == Place(pc, left, at)
<1>1. rec \in RunRecord /\ rec.pc = pc /\ DOMAIN rec.got = {}
  BY PlaceTypes
<1>2. rec.pc # "save" /\ \A c \in DOMAIN rec.got : rec.got[c] = count[<<rec.at, k[2]>>][c]
  BY <1>1
<1>3. run' = [run EXCEPT ![k] = rec]
  OBVIOUS
<1>. HIDE DEF rec
<1>. QED
  BY <1>1, <1>2, <1>3, GivenRecord

LEMMA ListTenantsKeeps ==
    ASSUME StartInv, NightInv, NEW k \in Run, ListTenants(k)
    PROVE  NightInv'
<1>1. tenants \in SUBSET Tenant /\ Default \in Tenant
  BY HousekeepingAssumption DEF StartInv
<1>2. run' = [run EXCEPT ![k] = Place("next", tenants, Default)] /\ count' = count
  BY DEF ListTenants
<1>3. run \in [Run -> RunRecord] /\ CountedNow
  BY DEF NightInv
<1>4. run' \in [Run -> RunRecord] /\ CountedNow'
  BY <1>1, <1>2, <1>3, RunMoves
<1>5. Tally'
  BY SameTally DEF ListTenants, NightInv
<1>. QED
  BY <1>4, <1>5 DEF NightInv

LEMMA BeginTenantKeeps ==
    ASSUME NightInv, NEW k \in Run, BeginTenant(k)
    PROVE  NightInv'
<1>1. Tally'
  BY SameTally DEF BeginTenant, NightInv
<1>2. run \in [Run -> RunRecord] /\ CountedNow /\ count' = count
  BY DEF NightInv, BeginTenant
<1>3. run[k].left \in SUBSET Tenant
  BY <1>2 DEF RunRecord
<1>4. CASE run' = [run EXCEPT ![k] = NoRun]
  BY <1>1, <1>2, <1>4, RunEnds DEF NightInv
<1>5. CASE \E t \in run[k].left :
             run' = [run EXCEPT ![k] = Place("count", run[k].left, t)]
  <2>1. PICK t \in run[k].left :
             run' = [run EXCEPT ![k] = Place("count", run[k].left, t)]
    BY <1>5
  <2>2. run' \in [Run -> RunRecord] /\ CountedNow'
    BY <1>2, <1>3, <2>1, RunMoves
  <2>. QED
    BY <1>1, <2>2 DEF NightInv
<1>. QED
  BY <1>4, <1>5 DEF BeginTenant

LEMMA CountOneKeeps ==
    ASSUME NightInv, NEW k \in Run, NEW c \in Counter, CountOne(k, c)
    PROVE  NightInv'
<1>. DEFINE old == run[k]
            now == DOMAIN old.got \cup {c}
            got == [b \in now |-> IF b = c THEN count[<<old.at, k[2]>>][c] ELSE old.got[b]]
            pc == IF now = Counter THEN "save" ELSE "count"
            rec == [old EXCEPT !.got = got, !.pc = pc]
<1>1. run \in [Run -> RunRecord] /\ CountedNow /\ count' = count /\ old.pc = "count"
  BY DEF NightInv, CountOne
<1>2. old \in RunRecord
  BY <1>1
<1>3. run' = [run EXCEPT ![k] = rec]
  BY <1>1 DEF CountOne, Row
<1>4. PICK cs \in SUBSET Counter : old.got \in [cs -> 0..MaxChanges]
  BY <1>2 DEF RunRecord, Got
<1>5. old.at \in Tenant /\ count[<<old.at, k[2]>>][c] \in 0..MaxChanges
  <2>1. old.at \in Tenant /\ k[2] \in Day
    BY <1>2, RunKey DEF RunRecord
  <2>2. count[<<old.at, k[2]>>] \in Reading
    BY <2>1 DEF NightInv, Tally
  <2>. QED
    BY <2>1, <2>2 DEF Reading
<1>6. now \in SUBSET Counter /\ got \in [now -> 0..MaxChanges]
  BY <1>4, <1>5
<1>7. got \in Got
  BY <1>6 DEF Got
<1>8. [old EXCEPT !.got = got] \in RunRecord
  BY <1>2, <1>7 DEF RunRecord
<1>9. rec = [[old EXCEPT !.got = got] EXCEPT !.pc = pc]
  BY <1>2 DEF RunRecord
<1>10. rec \in RunRecord
  <2>. HIDE DEF got, now
  <2>1. pc \in {"none", "list", "next", "count", "save"}
    OBVIOUS
  <2>. QED
    BY <1>8, <1>9, <2>1 DEF RunRecord
<1>11. rec.at = old.at /\ rec.got = got /\ rec.moved = old.moved /\ rec.pc = pc
  BY <1>2 DEF RunRecord
<1>12. rec.pc = "save" => DOMAIN rec.got = Counter
  BY <1>11
<1>13. ~rec.moved => \A b \in DOMAIN rec.got : rec.got[b] = count[<<rec.at, k[2]>>][b]
  <2>1. ~old.moved => \A b \in DOMAIN old.got : old.got[b] = count[<<old.at, k[2]>>][b]
    BY <1>1 DEF CountedNow
  <2>2. \A b \in now : got[b] = IF b = c THEN count[<<old.at, k[2]>>][c] ELSE old.got[b]
    OBVIOUS
  <2>3. DOMAIN got = now
    OBVIOUS
  <2>. QED
    BY <1>11, <2>1, <2>2, <2>3
<1>14. run' \in [Run -> RunRecord] /\ CountedNow'
  <2>. HIDE DEF rec
  <2>. QED
    BY <1>1, <1>3, <1>10, <1>12, <1>13, GivenRecord
<1>15. Tally'
  BY SameTally DEF CountOne, NightInv
<1>. QED
  BY <1>14, <1>15 DEF NightInv

(* Whose counters have changed is known to have moved; the others' stand. *)
LEMMA ChangeKeeps ==
    ASSUME NightInv, NEW t \in Tenant, NEW d \in Day, NEW c \in Counter, Change(t, d, c)
    PROVE  NightInv'
<1>1. PICK n \in 0..MaxChanges : count' = [count EXCEPT ![<<t, d>>][c] = n]
  BY DEF Change
<1>2. count' \in [Tenant \X Day -> Reading] /\ \A u \in Tenant \X Day : u # <<t, d>> => count'[u] = count[u]
  <2>1. count[<<t, d>>] \in Reading /\ [count[<<t, d>>] EXCEPT ![c] = n] \in Reading
    BY <1>1 DEF NightInv, Tally, Reading
  <2>2. count' = [count EXCEPT ![<<t, d>>] = [count[<<t, d>>] EXCEPT ![c] = n]]
    BY <1>1
  <2>. QED
    BY <2>1, <2>2 DEF NightInv, Tally
<1>3. changes' \in 0..MaxChanges
  BY HousekeepingAssumption DEF Change, NightInv, Tally
<1>4. Tally'
  BY <1>2, <1>3 DEF Change, NightInv, Tally
<1>5. run \in [Run -> RunRecord] /\ CountedNow
  BY DEF NightInv
<1>6. run' = [k \in Run |-> IF run[k].pc \in {"count", "save"} /\ <<run[k].at, k[2]>> = <<t, d>>
                            THEN [run[k] EXCEPT !.moved = TRUE] ELSE run[k]]
  BY DEF Change, Row
<1>7. ASSUME NEW k \in Run
      PROVE  /\ run'[k] \in RunRecord
             /\ run'[k].pc \in {"count", "save"} /\ ~run'[k].moved =>
                    \A b \in DOMAIN run'[k].got : run'[k].got[b] = count'[<<run'[k].at, k[2]>>][b]
             /\ run'[k].pc = "save" => DOMAIN run'[k].got = Counter
  <2>1. run[k] \in RunRecord
    BY <1>5
  <2>2. CASE run[k].pc \in {"count", "save"} /\ <<run[k].at, k[2]>> = <<t, d>>
    <3>1. run'[k] = [run[k] EXCEPT !.moved = TRUE]
      BY <1>6, <2>2
    <3>2. /\ run'[k] \in RunRecord /\ run'[k].moved
          /\ run'[k].pc = run[k].pc /\ run'[k].got = run[k].got
      BY <2>1, <3>1 DEF RunRecord
    <3>. QED
      BY <1>5, <3>2 DEF CountedNow
  <2>3. CASE ~(run[k].pc \in {"count", "save"} /\ <<run[k].at, k[2]>> = <<t, d>>)
    <3>1. run'[k] = run[k]
      BY <1>6, <2>3
    <3>2. run[k].pc \in {"count", "save"} => count'[<<run[k].at, k[2]>>] = count[<<run[k].at, k[2]>>]
      BY <1>2, <2>1, <2>3, RunKey DEF RunRecord
    <3>. QED
      BY <1>5, <2>1, <3>1, <3>2 DEF CountedNow
  <2>. QED
    BY <2>2, <2>3
<1>8. run' \in [Run -> RunRecord]
  BY <1>6, <1>7
<1>. QED
  BY <1>4, <1>7, <1>8 DEF NightInv, CountedNow

LEMMA MidnightKeeps ==
    ASSUME StartInv, NightInv, Midnight
    PROVE  NightInv'
<1>1. today \in Day /\ today' \in 0..MaxDay + 1
  BY HousekeepingAssumption DEF Midnight, NightInv, Tally, Day
<1>2. known' \in [Day -> SUBSET Tenant]
  BY <1>1 DEF Midnight, NightInv, Tally, StartInv
<1>3. manned' \subseteq Day
  BY <1>1 DEF Midnight, NightInv, Tally
<1>4. Tally'
  BY <1>1, <1>2, <1>3 DEF Midnight, NightInv, Tally
<1>5. Place("list", {}, Default) \in RunRecord /\ Place("list", {}, Default).pc = "list"
  BY PlaceTypes, HousekeepingAssumption
<1>6. run \in [Run -> RunRecord] /\ CountedNow
  BY DEF NightInv
<1>7. count' = count /\ run' = [k \in Run |-> IF k[2] = today /\ replica[k[1]] = "up"
                             THEN Place("list", {}, Default) ELSE run[k]]
  BY DEF Midnight
<1>8. run' \in [Run -> RunRecord]
  BY <1>5, <1>6, <1>7
<1>9. CountedNow'
  BY <1>5, <1>6, <1>7 DEF CountedNow
<1>. QED
  BY <1>4, <1>8, <1>9 DEF NightInv

(* What is saved is a whole reading. *)
LEMMA SavedIsWhole ==
    ASSUME NightInv, NEW k \in Run, run[k].pc = "save"
    PROVE  /\ run[k].got \in Reading /\ run[k].at \in Tenant
           /\ ~run[k].moved => run[k].got = count[<<run[k].at, k[2]>>]
<1>1. run[k] \in RunRecord
  BY DEF NightInv
<1>2. DOMAIN run[k].got = Counter
  BY DEF NightInv, CountedNow
<1>3. PICK cs \in SUBSET Counter : run[k].got \in [cs -> 0..MaxChanges]
  BY <1>1 DEF RunRecord, Got
<1>4. run[k].got \in Reading
  BY <1>2, <1>3 DEF Reading
<1>5. run[k].at \in Tenant
  BY <1>1 DEF RunRecord
<1>6. count[<<run[k].at, k[2]>>] \in Reading
  BY <1>5, RunKey DEF NightInv, Tally
<1>7. ~run[k].moved => \A c \in Counter : run[k].got[c] = count[<<run[k].at, k[2]>>][c]
  BY <1>2 DEF NightInv, CountedNow
<1>. QED
  BY <1>4, <1>5, <1>6, <1>7 DEF Reading

LEMMA SaveKeeps ==
    ASSUME NightInv, NEW k \in Run, Save(k)
    PROVE  NightInv'
<1>1. run[k].pc = "save" /\ run[k].got \in Reading /\ run[k].at \in Tenant
  BY SavedIsWhole DEF Save
<1>2. k[2] \in Day
  BY RunKey
<1>3. stats' = [stats EXCEPT ![<<run[k].at, k[2]>>] = run[k].got]
  BY DEF Save, Row
<1>4. stats' \in [Tenant \X Day -> Reading \cup {NoRow}]
  BY <1>1, <1>2, <1>3 DEF NightInv, Tally
<1>5. UNCHANGED <<today, count, changes, failures, known, manned, troubled>>
  BY DEF Save, Saved
<1>6. Tally'
  BY <1>4, <1>5 DEF NightInv, Tally
<1>7. run' = [run EXCEPT ![k] = Place("next", run[k].left \ {run[k].at}, Default)]
  BY DEF Save, Saved
<1>8. run \in [Run -> RunRecord] /\ CountedNow
  BY DEF NightInv
<1>9. run[k].left \ {run[k].at} \in SUBSET Tenant
  BY <1>8 DEF RunRecord
<1>10. run' \in [Run -> RunRecord] /\ CountedNow'
  BY <1>5, <1>7, <1>8, <1>9, RunMoves, HousekeepingAssumption
<1>. QED
  BY <1>6, <1>10 DEF NightInv

LEMMA RunFailsKeeps ==
    ASSUME NightInv, NEW k \in Run, RunFails(k)
    PROVE  NightInv'
<1>1. failures' \in 0..MaxFailures
  BY HousekeepingAssumption DEF RunFails, NightInv, Tally
<1>2. troubled' \subseteq Day
  BY RunKey DEF RunFails, NightInv, Tally
<1>3. Tally'
  BY <1>1, <1>2 DEF RunFails, NightInv, Tally
<1>4. run' \in [Run -> RunRecord] /\ CountedNow'
  BY RunEnds DEF RunFails, NightInv
<1>. QED
  BY <1>3, <1>4 DEF NightInv

LEMMA DieKeepsNight ==
    ASSUME NightInv, NEW r \in Replica, Die(r)
    PROVE  NightInv'
<1>1. failures' \in 0..MaxFailures
  BY HousekeepingAssumption DEF Die, NightInv, Tally
<1>2. troubled' \subseteq Day
  BY DEF Die, NightInv, Tally
<1>3. Tally'
  BY <1>1, <1>2 DEF Die, NightInv, Tally
<1>4. NoRun \in RunRecord /\ NoRun.pc = "none"
  BY NoRunTypes DEF NoRun, Place
<1>5. count' = count /\ run' = [k \in Run |-> IF k[1] = r THEN NoRun ELSE run[k]]
  BY DEF Die
<1>6. run' \in [Run -> RunRecord]
  BY <1>4, <1>5 DEF NightInv
<1>7. CountedNow'
  BY <1>4, <1>5 DEF NightInv, CountedNow
<1>. QED
  BY <1>3, <1>6, <1>7 DEF NightInv

(* The start of a replica leaves the night alone. *)
LEMMA StutterKeepsNight ==
    ASSUME NightInv, UNCHANGED <<today, failures, atNight>>
    PROVE  NightInv'
<1>1. Tally'
  BY SameTally DEF NightInv, atNight
<1>2. run' = run /\ count' = count
  BY DEF atNight
<1>. QED
  BY <1>1, <1>2 DEF NightInv, CountedNow

-----------------------------------------------------------------------------
(* The theorems. *)

LEMMA NextKeeps ==
    ASSUME StartInv, NightInv, [Next]_vars
    PROVE  StartInv' /\ NightInv'
<1>1. ASSUME NEW r \in Replica, Start(r) \/ FindTenant(r) \/ CreateTenant(r) \/ SeedWords(r)
      PROVE  StartInv' /\ NightInv'
  <2>1. UNCHANGED <<today, failures, atNight>>
    BY <1>1 DEF Start, FindTenant, CreateTenant, SeedWords
  <2>. QED
    BY <1>1, <2>1, StartKeeps, StutterKeepsNight
<1>2. ASSUME NEW r \in Replica, Die(r)
      PROVE  StartInv' /\ NightInv'
  BY <1>2, DieKeepsStart, DieKeepsNight
<1>3. ASSUME NEW t \in Tenant, AddTenant(t)
      PROVE  StartInv' /\ NightInv'
  <2>1. UNCHANGED <<today, failures, atNight>>
    BY <1>3 DEF AddTenant
  <2>. QED
    BY <1>3, <2>1, AddTenantKeeps, StutterKeepsNight
<1>4. ASSUME NEW t \in Tenant, NEW d \in Day, NEW c \in Counter, Change(t, d, c)
      PROVE  StartInv' /\ NightInv'
  <2>1. UNCHANGED atStart
    BY <1>4 DEF Change
  <2>. QED
    BY <1>4, <2>1, StutterKeepsStart, ChangeKeeps
<1>5. CASE Midnight
  <2>1. UNCHANGED atStart
    BY <1>5 DEF Midnight
  <2>. QED
    BY <1>5, <2>1, StutterKeepsStart, MidnightKeeps
<1>6. ASSUME NEW k \in Run, Job(k) \/ RunFails(k)
      PROVE  StartInv' /\ NightInv'
  <2>1. UNCHANGED atStart
    BY <1>6 DEF Job, ListTenants, BeginTenant, CountOne, Save, Saved, RunFails
  <2>2. NightInv'
    BY <1>6, ListTenantsKeeps, BeginTenantKeeps, CountOneKeeps, SaveKeeps, RunFailsKeeps DEF Job
  <2>. QED
    BY <2>1, <2>2, StutterKeepsStart
<1>7. CASE UNCHANGED vars
  <2>1. UNCHANGED atStart /\ UNCHANGED <<today, failures, atNight>>
    BY <1>7 DEF vars, atStart, atNight
  <2>. QED
    BY <2>1, StutterKeepsStart, StutterKeepsNight
<1>. QED
  BY <1>1, <1>2, <1>3, <1>4, <1>5, <1>6, <1>7 DEF Next

LEMMA Invariance == Spec => [](StartInv /\ NightInv)
<1>1. Init => StartInv /\ NightInv
  BY InitInv
<1>2. (StartInv /\ NightInv) /\ [Next]_vars => (StartInv /\ NightInv)'
  BY NextKeeps
<1>. QED
  BY <1>1, <1>2, PTL DEF Spec

(* The variables keep their types, for any replicas and tenants. *)
THEOREM TypeCorrect == Spec => []TypeOK
<1>1. StartInv /\ NightInv => TypeOK
  BY DEF StartInv, NightInv, Tally, TypeOK
<1>. QED
  BY <1>1, Invariance, PTL

(* However many replicas start at once, the tenant they create has its     *)
(* words unless a start ended between the two (tenant-seed.service.ts:42). *)
THEOREM WordsSeeded == Spec => []WordsUnlessCut
<1>1. StartInv => WordsUnlessCut
  BY DEF StartInv
<1>. QED
  BY <1>1, Invariance, PTL

(* Only its own saving takes a run from its reading to the next tenant. *)
LEMMA OnlySaveMovesOn ==
    ASSUME NightInv, Next, NEW k \in Run, run[k].pc = "save", run'[k].pc = "next"
    PROVE  Save(k)
<1>1. run \in [Run -> RunRecord] /\ NoRun.pc = "none" /\ Place("list", {}, Default).pc = "list"
  BY DEF NightInv, NoRun, Place
<1>2. ASSUME run' = run PROVE FALSE
  BY <1>2
<1>3. ASSUME NEW r \in Replica, Start(r) \/ FindTenant(r) \/ CreateTenant(r) \/ SeedWords(r)
      PROVE  FALSE
  BY <1>2, <1>3 DEF Start, FindTenant, CreateTenant, SeedWords, atNight
<1>4. ASSUME NEW r \in Replica, Die(r) PROVE FALSE
  <2>1. run'[k] = IF k[1] = r THEN NoRun ELSE run[k]
    BY <1>4 DEF Die
  <2>. QED
    BY <1>1, <2>1
<1>5. ASSUME NEW t \in Tenant, AddTenant(t) PROVE FALSE
  BY <1>2, <1>5 DEF AddTenant, atNight
<1>6. ASSUME NEW t \in Tenant, NEW d \in Day, NEW c \in Counter, Change(t, d, c) PROVE FALSE
  <2>1. run'[k] = [run[k] EXCEPT !.moved = TRUE] \/ run'[k] = run[k]
    BY <1>6 DEF Change
  <2>2. run[k] \in RunRecord
    BY <1>1
  <2>. QED
    BY <2>1, <2>2 DEF RunRecord
<1>7. CASE Midnight
  <2>1. run'[k] = Place("list", {}, Default) \/ run'[k] = run[k]
    BY <1>7 DEF Midnight
  <2>. QED
    BY <1>1, <2>1
<1>8. ASSUME NEW j \in Run, j # k, Job(j) \/ RunFails(j) PROVE FALSE
  <2>1. run'[k] = run[k]
    BY <1>1, <1>8 DEF Job, ListTenants, BeginTenant, CountOne, Save, Saved, RunFails
  <2>. QED
    BY <2>1
<1>9. CASE Job(k)
  BY <1>9 DEF Job, ListTenants, BeginTenant, CountOne
<1>10. CASE RunFails(k)
  <2>1. run'[k] = NoRun
    BY <1>1, <1>10 DEF RunFails
  <2>. QED
    BY <1>1, <2>1
<1>. QED
  BY <1>3, <1>4, <1>5, <1>6, <1>7, <1>8, <1>9, <1>10 DEF Next

(* A run that saves a row saves what there is to count, unless that moved  *)
(* while it counted (analytics.job.ts:33, :54).                            *)
THEOREM SavesAreCounted == Spec => SavedIsCounted
<1>1. ASSUME NightInv, Next, NEW k \in Run, run[k].pc = "save", run'[k].pc = "next"
      PROVE  run[k].moved \/ stats'[<<run[k].at, k[2]>>] = count[<<run[k].at, k[2]>>]
  <2>1. Save(k)
    BY <1>1, OnlySaveMovesOn
  <2>2. stats' = [stats EXCEPT ![<<run[k].at, k[2]>>] = run[k].got]
    BY <2>1 DEF Save, Row
  <2>3. run[k].at \in Tenant /\ k[2] \in Day /\ (~run[k].moved => run[k].got = count[<<run[k].at, k[2]>>])
    BY <1>1, SavedIsWhole, RunKey
  <2>4. stats'[<<run[k].at, k[2]>>] = run[k].got
    BY <1>1, <2>2, <2>3 DEF NightInv, Tally
  <2>. QED
    BY <2>3, <2>4
<1>2. NightInv /\ [Next]_vars => [\A k \in Run : run[k].pc = "save" /\ run'[k].pc = "next" =>
          run[k].moved \/ stats'[<<run[k].at, k[2]>>] = count[<<run[k].at, k[2]>>]]_vars
  BY <1>1
<1>. QED
  BY <1>2, Invariance, PTL DEF Spec, SavedIsCounted, Row

-----------------------------------------------------------------------------
(* The night is counted in the end: a run that is under way has its day's  *)
(* tenants ahead of it, but for those that have their row.                 *)
Owes(x, t) == x.pc = "list" \/ t \in x.left

(* Days end one after the other, and their runs start then. *)
DaysFit ==
    /\ \A k \in Run : run[k].pc # "none" => k[2] < today
    /\ \A d \in manned : d < today
    /\ \A d \in Day : d < today => known[d] \subseteq tenants

RunsCover == \A k \in Run : run[k].pc # "none" /\ k[2] \in manned \ troubled =>
    \A t \in known[k[2]] : stats[<<t, k[2]>>] # NoRow \/ Owes(run[k], t)

CoverInv == DaysFit /\ RunsCover /\ EndedNightIsCounted

LEMMA InitCover == Init => CoverInv
<1>1. NoRun.pc = "none"
  BY DEF NoRun, Place
<1>. QED
  BY <1>1, HousekeepingAssumption DEF Init, CoverInv, DaysFit, RunsCover, EndedNightIsCounted, Day

(* A run that is under way goes on or ends; what it leaves has its row.    *)
LEMMA RunStepCovers ==
    ASSUME NightInv, CoverInv, NEW k \in Run, NEW rec, run' = [run EXCEPT ![k] = rec],
           UNCHANGED <<today, tenants, known, manned, troubled>>, run[k].pc # "none",
           \A p \in Tenant \X Day : stats[p] # NoRow => stats'[p] # NoRow,
           \A t \in known[k[2]] :
               stats[<<t, k[2]>>] # NoRow \/ Owes(run[k], t) =>
                   stats'[<<t, k[2]>>] # NoRow \/ (Owes(rec, t) /\ rec.pc # "none")
    PROVE  CoverInv'
<1>1. run'[k] = rec /\ \A j \in Run \ {k} : run'[j] = run[j]
  BY DEF NightInv
<1>2. \A d \in Day : known[d] \subseteq Tenant
  BY DEF NightInv, Tally
<1>3. DaysFit'
  BY <1>1 DEF CoverInv, DaysFit
<1>4. ASSUME NEW j \in Run, run'[j].pc # "none", j[2] \in manned \ troubled,
             NEW t \in known[j[2]]
      PROVE  stats'[<<t, j[2]>>] # NoRow \/ Owes(run'[j], t)
  <2>1. CASE j = k
    BY <1>1, <1>4, <2>1 DEF CoverInv, RunsCover
  <2>2. CASE j # k
    <3>1. <<t, j[2]>> \in Tenant \X Day
      BY <1>2, <1>4, RunKey
    <3>2. run'[j] = run[j]
      BY <1>1, <2>2
    <3>. QED
      BY <1>4, <3>1, <3>2 DEF CoverInv, RunsCover
  <2>. QED
    BY <2>1, <2>2
<1>5. ASSUME NEW d \in manned \ troubled, \A r \in Replica : run'[<<r, d>>].pc = "none",
             NEW t \in known[d]
      PROVE  stats'[<<t, d>>] # NoRow
  <2>1. d \in Day /\ <<t, d>> \in Tenant \X Day
    BY <1>2 DEF NightInv, Tally
  <2>2. CASE d = k[2]
    <3>1. k = <<k[1], d>> /\ k[1] \in Replica
      BY <2>2 DEF Run
    <3>2. run'[k].pc = "none"
      BY <1>5, <3>1
    <3>3. stats[<<t, d>>] # NoRow \/ Owes(run[k], t)
      BY <1>5, <2>2 DEF CoverInv, RunsCover
    <3>. QED
      BY <1>1, <1>5, <2>2, <3>2, <3>3
  <2>3. CASE d # k[2]
    <3>1. \A r \in Replica : run'[<<r, d>>] = run[<<r, d>>]
      BY <1>1, <2>1, <2>3 DEF Run
    <3>2. stats[<<t, d>>] # NoRow
      BY <1>5, <3>1 DEF CoverInv, EndedNightIsCounted
    <3>. QED
      BY <2>1, <3>2
  <2>. QED
    BY <2>2, <2>3
<1>. QED
  BY <1>3, <1>4, <1>5 DEF CoverInv, RunsCover, EndedNightIsCounted

LEMMA JobCovers ==
    ASSUME StartInv, NightInv, CoverInv, NEW k \in Run, Job(k)
    PROVE  CoverInv'
<1>0. run \in [Run -> RunRecord] /\ run[k].pc # "none"
  BY DEF NightInv, Job, ListTenants, BeginTenant, CountOne, Save
<1>1. /\ UNCHANGED <<today, tenants, known, manned, troubled>>
      /\ k[2] \in Day /\ known[k[2]] \subseteq tenants
  BY <1>0, RunKey DEF Job, ListTenants, BeginTenant, CountOne, Save, Saved, atStart, CoverInv, DaysFit
<1>2. CASE ListTenants(k)
  <2> DEFINE rec == Place("next", tenants, Default)
  <2>1. run' = [run EXCEPT ![k] = rec] /\ UNCHANGED stats
    BY <1>2 DEF ListTenants
  <2>2. rec.pc # "none" /\ \A t \in known[k[2]] : Owes(rec, t)
    BY <1>1 DEF Place, Owes
  <2>. HIDE DEF rec
  <2>. QED
    BY <1>0, <1>1, <2>1, <2>2, RunStepCovers
<1>3. CASE BeginTenant(k)
  <2>1. run[k].pc = "next" /\ UNCHANGED stats
    BY <1>3 DEF BeginTenant
  <2>2. CASE run[k].left = {} /\ run' = [run EXCEPT ![k] = NoRun]
    <3>1. \A t : ~Owes(run[k], t)
      BY <2>1, <2>2 DEF Owes
    <3>2. \A t \in known[k[2]] : stats[<<t, k[2]>>] # NoRow \/ Owes(run[k], t) =>
              stats'[<<t, k[2]>>] # NoRow \/ (Owes(NoRun, t) /\ NoRun.pc # "none")
      BY <2>1, <3>1
    <3>. QED
      BY <1>0, <1>1, <2>1, <2>2, <3>2, RunStepCovers
  <2>3. ASSUME NEW u \in run[k].left, run' = [run EXCEPT ![k] = Place("count", run[k].left, u)]
        PROVE  CoverInv'
    <3> DEFINE rec == Place("count", run[k].left, u)
    <3>1. rec.pc = "count" /\ rec.left = run[k].left
      BY DEF Place
    <3>2. run' = [run EXCEPT ![k] = rec]
      BY <2>3
    <3>. HIDE DEF rec
    <3>3. \A t : Owes(run[k], t) => Owes(rec, t) /\ rec.pc # "none"
      BY <2>1, <3>1 DEF Owes
    <3>4. \A t \in known[k[2]] : stats[<<t, k[2]>>] # NoRow \/ Owes(run[k], t) =>
              stats'[<<t, k[2]>>] # NoRow \/ (Owes(rec, t) /\ rec.pc # "none")
      BY <2>1, <3>3
    <3>. QED
      BY <1>0, <1>1, <2>1, <3>2, <3>4, RunStepCovers
  <2>. QED
    BY <1>3, <2>2, <2>3 DEF BeginTenant
<1>4. ASSUME NEW c \in Counter, CountOne(k, c) PROVE CoverInv'
  <2> DEFINE now == DOMAIN run[k].got \cup {c}
             got == [b \in now |-> IF b = c THEN count[Row(k)][c] ELSE run[k].got[b]]
             pc == IF now = Counter THEN "save" ELSE "count"
             rec == [run[k] EXCEPT !.got = got, !.pc = pc]
  <2>1. run[k].pc = "count" /\ UNCHANGED stats /\ run' = [run EXCEPT ![k] = rec]
    BY <1>0, <1>4 DEF CountOne
  <2>2. rec.pc = pc /\ rec.left = run[k].left
    BY <1>0 DEF RunRecord
  <2>. HIDE DEF rec
  <2>3. rec.pc # "none" /\ rec.pc # "list"
    BY <2>2
  <2>4. \A t : Owes(run[k], t) => Owes(rec, t)
    BY <2>1, <2>2 DEF Owes
  <2>. QED
    BY <1>0, <1>1, <2>1, <2>3, <2>4, RunStepCovers
<1>5. CASE Save(k)
  <2> DEFINE rec == Place("next", run[k].left \ {run[k].at}, Default)
  <2>1. /\ run[k].pc = "save" /\ run' = [run EXCEPT ![k] = rec]
        /\ stats' = [stats EXCEPT ![<<run[k].at, k[2]>>] = run[k].got]
    BY <1>5 DEF Save, Saved, Row
  <2>2. run[k].at \in Tenant /\ run[k].got # NoRow
    <3>1. run[k].got \in Reading /\ run[k].at \in Tenant
      BY <2>1, SavedIsWhole
    <3>2. DOMAIN run[k].got # {}
      BY <3>1, HousekeepingAssumption DEF Reading
    <3>. QED
      BY <3>1, <3>2, NoRowTypes
  <2>3. \A p \in Tenant \X Day : stats'[p] = IF p = <<run[k].at, k[2]>> THEN run[k].got ELSE stats[p]
    BY <2>1, <2>2, <1>1 DEF NightInv, Tally
  <2>4. \A p \in Tenant \X Day : stats[p] # NoRow => stats'[p] # NoRow
    BY <2>2, <2>3
  <2>5. rec.pc = "next" /\ rec.left = run[k].left \ {run[k].at}
    BY DEF Place
  <2>. HIDE DEF rec
  <2>6. ASSUME NEW t \in known[k[2]], stats[<<t, k[2]>>] # NoRow \/ Owes(run[k], t)
        PROVE  stats'[<<t, k[2]>>] # NoRow \/ Owes(rec, t)
    <3>1. <<t, k[2]>> \in Tenant \X Day
      BY <1>1 DEF StartInv
    <3>2. CASE t = run[k].at
      BY <2>2, <2>3, <3>1, <3>2
    <3>3. CASE t # run[k].at
      BY <2>1, <2>4, <2>5, <2>6, <3>1, <3>3 DEF Owes
    <3>. QED
      BY <3>2, <3>3
  <2>. QED
    BY <1>0, <1>1, <2>1, <2>4, <2>5, <2>6, RunStepCovers
<1>. QED
  BY <1>2, <1>3, <1>4, <1>5 DEF Job

(* A day a run of which fails is not one of those the promise is about.    *)
LEMMA FailureCovers ==
    ASSUME NightInv, CoverInv, UNCHANGED <<today, known, manned, stats>>,
           tenants \subseteq tenants', troubled \subseteq troubled',
           \A k \in Run : \/ run'[k] = run[k]
                          \/ run'[k] = NoRun /\ (run[k].pc # "none" => k[2] \in troubled')
    PROVE  CoverInv'
<1>1. NoRun.pc = "none"
  BY DEF NoRun, Place
<1>2. DaysFit'
  BY <1>1 DEF CoverInv, DaysFit
<1>3. RunsCover'
  BY <1>1 DEF CoverInv, RunsCover
<1>4. ASSUME NEW d \in manned \ troubled', \A r \in Replica : run'[<<r, d>>].pc = "none"
      PROVE  \A t \in known[d] : stats[<<t, d>>] # NoRow
  <2>1. \A r \in Replica : <<r, d>> \in Run /\ <<r, d>>[2] = d
    BY DEF NightInv, Tally, Run
  <2>2. \A r \in Replica : run[<<r, d>>].pc = "none"
    BY <1>1, <1>4, <2>1
  <2>. QED
    BY <1>4, <2>2 DEF CoverInv, EndedNightIsCounted
<1>. QED
  BY <1>2, <1>3, <1>4 DEF CoverInv, EndedNightIsCounted

LEMMA MidnightCovers ==
    ASSUME StartInv, NightInv, CoverInv, Midnight
    PROVE  CoverInv'
<1>1. today \in Day /\ today' = today + 1 /\ today \in Nat
  BY HousekeepingAssumption DEF Midnight, NightInv, Tally, Day
<1>2. run' = [k \in Run |-> IF k[2] = today /\ replica[k[1]] = "up"
                             THEN Place("list", {}, Default) ELSE run[k]]
  BY DEF Midnight
<1>3. /\ known' = [known EXCEPT ![today] = tenants] /\ known \in [Day -> SUBSET Tenant]
      /\ manned' = IF \E r \in Replica : replica[r] = "up" THEN manned \cup {today} ELSE manned
      /\ UNCHANGED <<tenants, stats, troubled>>
  BY DEF Midnight, NightInv, Tally, atStart
<1>4. Place("list", {}, Default).pc = "list"
  BY DEF Place
<1>5. manned \subseteq Day /\ Day \subseteq Nat
  BY DEF NightInv, Tally, Day
<1>6. DaysFit'
  <2>1. \A k \in Run : k[2] \in Nat
    BY RunKey, <1>5
  <2>2. \A k \in Run : run'[k].pc # "none" => k[2] < today'
    BY <1>1, <1>2, <2>1 DEF CoverInv, DaysFit
  <2>3. \A d \in manned' : d < today'
    BY <1>1, <1>3, <1>5 DEF CoverInv, DaysFit
  <2>4. \A d \in Day : d < today' => known'[d] \subseteq tenants'
    BY <1>1, <1>3, <1>5 DEF CoverInv, DaysFit
  <2>. QED
    BY <2>2, <2>3, <2>4 DEF DaysFit
<1>7. ASSUME NEW k \in Run, run'[k].pc # "none", k[2] \in manned' \ troubled', NEW t \in known'[k[2]]
      PROVE  stats'[<<t, k[2]>>] # NoRow \/ Owes(run'[k], t)
  <2>1. CASE k[2] = today
    <3>1. run[k].pc = "none"
      BY <1>1, <2>1 DEF CoverInv, DaysFit
    <3>. QED
      BY <1>2, <1>4, <1>7, <3>1 DEF Owes
  <2>2. CASE k[2] # today
    BY <1>2, <1>3, <1>7, <2>2 DEF CoverInv, RunsCover
  <2>. QED
    BY <2>1, <2>2
<1>8. ASSUME NEW d \in manned' \ troubled', \A r \in Replica : run'[<<r, d>>].pc = "none",
             NEW t \in known'[d]
      PROVE  stats'[<<t, d>>] # NoRow
  <2>1. d \in Day /\ \A r \in Replica : <<r, d>> \in Run /\ <<r, d>>[2] = d /\ <<r, d>>[1] = r
    BY <1>1, <1>3, <1>5, <1>8 DEF Run
  <2>2. CASE d = today
    <3>1. ASSUME NEW r \in Replica, replica[r] = "up" PROVE FALSE
      <4>1. run'[<<r, d>>] = Place("list", {}, Default)
        BY <1>2, <2>1, <2>2, <3>1
      <4>. QED
        BY <1>4, <1>8, <4>1
    <3>2. today \in manned
      BY <1>3, <1>8, <2>2, <3>1
    <3>. QED
      BY <1>1, <3>2 DEF CoverInv, DaysFit
  <2>3. CASE d # today
    <3>1. \A r \in Replica : run'[<<r, d>>] = run[<<r, d>>]
      BY <1>2, <2>1, <2>3
    <3>. QED
      BY <1>3, <1>8, <2>3, <3>1 DEF CoverInv, EndedNightIsCounted
  <2>. QED
    BY <2>2, <2>3
<1>. QED
  BY <1>6, <1>7, <1>8 DEF CoverInv, RunsCover, EndedNightIsCounted

(* What is counted changes: the runs are where they were. *)
LEMMA ChangeCovers ==
    ASSUME NightInv, CoverInv, UNCHANGED <<today, tenants, known, manned, troubled, stats>>,
           \A k \in Run : run'[k].pc = run[k].pc /\ run'[k].left = run[k].left
    PROVE  CoverInv'
<1>1. DaysFit'
  BY DEF CoverInv, DaysFit
<1>2. RunsCover'
  BY DEF CoverInv, RunsCover, Owes
<1>3. EndedNightIsCounted'
  BY DEF CoverInv, EndedNightIsCounted, NightInv, Tally, Run
<1>. QED
  BY <1>1, <1>2, <1>3 DEF CoverInv

LEMMA NextCovers ==
    ASSUME StartInv, NightInv, CoverInv, [Next]_vars
    PROVE  CoverInv'
<1>0. run \in [Run -> RunRecord]
  BY DEF NightInv
<1>1. ASSUME NEW r \in Replica, Start(r) \/ FindTenant(r) \/ CreateTenant(r) \/ SeedWords(r)
      PROVE  CoverInv'
  <2>1. UNCHANGED <<today, known, manned, troubled, stats, run>> /\ tenants \subseteq tenants'
    BY <1>1 DEF Start, FindTenant, CreateTenant, SeedWords, atNight
  <2>2. troubled \subseteq troubled' /\ \A k \in Run : run'[k] = run[k]
    BY <2>1
  <2>. QED
    BY <2>1, <2>2, FailureCovers
<1>2. ASSUME NEW r \in Replica, Die(r) PROVE CoverInv'
  <2>1. /\ UNCHANGED <<today, known, manned, stats, tenants>>
        /\ run' = [k \in Run |-> IF k[1] = r THEN NoRun ELSE run[k]]
        /\ troubled' = troubled \cup {d \in Day : run[<<r, d>>].pc # "none"}
    BY <1>2 DEF Die
  <2>2. \A k \in Run : \/ run'[k] = run[k]
                       \/ run'[k] = NoRun /\ (run[k].pc # "none" => k[2] \in troubled')
    BY <2>1 DEF Run
  <2>3. tenants \subseteq tenants' /\ troubled \subseteq troubled'
    BY <2>1
  <2>. QED
    BY <2>1, <2>2, <2>3, FailureCovers
<1>3. ASSUME NEW t \in Tenant, AddTenant(t) PROVE CoverInv'
  <2>1. UNCHANGED <<today, known, manned, troubled, stats, run>> /\ tenants \subseteq tenants'
    BY <1>3 DEF AddTenant, atNight
  <2>2. troubled \subseteq troubled' /\ \A k \in Run : run'[k] = run[k]
    BY <2>1
  <2>. QED
    BY <2>1, <2>2, FailureCovers
<1>4. ASSUME NEW t \in Tenant, NEW d \in Day, NEW c \in Counter, Change(t, d, c) PROVE CoverInv'
  <2>1. /\ UNCHANGED <<today, tenants, known, manned, troubled, stats>>
        /\ run' = [k \in Run |-> IF run[k].pc \in {"count", "save"} /\ Row(k) = <<t, d>>
                                 THEN [run[k] EXCEPT !.moved = TRUE] ELSE run[k]]
    BY <1>4 DEF Change, atStart
  <2>2. \A k \in Run : run'[k].pc = run[k].pc /\ run'[k].left = run[k].left
    <3>1. \A x \in RunRecord : LET y == [x EXCEPT !.moved = TRUE] IN y.pc = x.pc /\ y.left = x.left
      BY DEF RunRecord
    <3>. QED
      BY <1>0, <2>1, <3>1
  <2>. QED
    BY <2>1, <2>2, ChangeCovers
<1>5. CASE Midnight
  BY <1>5, MidnightCovers
<1>6. ASSUME NEW k \in Run, Job(k) PROVE CoverInv'
  BY <1>6, JobCovers
<1>7. ASSUME NEW k \in Run, RunFails(k) PROVE CoverInv'
  <2>1. /\ UNCHANGED <<today, known, manned, stats, tenants>>
        /\ run' = [run EXCEPT ![k] = NoRun] /\ troubled' = troubled \cup {k[2]}
    BY <1>7 DEF RunFails, atStart
  <2>2. \A j \in Run : \/ run'[j] = run[j]
                       \/ run'[j] = NoRun /\ (run[j].pc # "none" => j[2] \in troubled')
    BY <1>0, <2>1
  <2>3. tenants \subseteq tenants' /\ troubled \subseteq troubled'
    BY <2>1
  <2>. QED
    BY <2>1, <2>2, <2>3, FailureCovers
<1>8. CASE UNCHANGED vars
  <2>1. UNCHANGED <<today, tenants, known, manned, troubled, stats, run>>
    BY <1>8 DEF vars
  <2>. QED
    BY <2>1, ChangeCovers
<1>. QED
  BY <1>1, <1>2, <1>3, <1>4, <1>5, <1>6, <1>7, <1>8, Zenon DEF Next

LEMMA Covered == Spec => [](StartInv /\ NightInv /\ CoverInv)
<1>1. Init => StartInv /\ NightInv /\ CoverInv
  BY InitInv, InitCover
<1>2. (StartInv /\ NightInv /\ CoverInv) /\ [Next]_vars => (StartInv /\ NightInv /\ CoverInv)'
  BY NextKeeps, NextCovers
<1>. QED
  BY <1>1, <1>2, PTL DEF Spec

(* Once a day's runs have all ended and none has failed, every tenant      *)
(* there was has its row, however the replicas' runs and the nights        *)
(* overlapped (analytics.job.ts:29).                                       *)
THEOREM EndedNightsAreCounted == Spec => []EndedNightIsCounted
<1>1. CoverInv => EndedNightIsCounted
  BY DEF CoverInv
<1>. QED
  BY <1>1, Covered, PTL

LEMMA RunsEndThenCounted ==
    ASSUME NEW d \in Day
    PROVE  Spec => (  (d \in manned ~> \A r \in Replica : run[<<r, d>>].pc = "none")
                   => (d \in manned ~> d \in troubled \/ \A t \in known[d] : stats[<<t, d>>] # NoRow))
<1> DEFINE M == d \in manned
           E == \A r \in Replica : run[<<r, d>>].pc = "none"
           C == d \in troubled \/ \A t \in known[d] : stats[<<t, d>>] # NoRow
<1>1. CoverInv /\ M /\ E => C
  BY DEF CoverInv, EndedNightIsCounted
<1>2. [Next]_vars /\ M => M'
  <2>. SUFFICES ASSUME Next, M PROVE M'
    BY DEF vars
  <2>1. manned' = manned \/ Midnight
    BY Zenon DEF Next, Start, FindTenant, CreateTenant, SeedWords, Die, AddTenant, Change, Job, ListTenants,
       BeginTenant, CountOne, Save, Saved, RunFails, atNight
  <2>. QED
    BY <2>1 DEF Midnight
<1>. HIDE DEF M, E, C
<1>3. Spec => ((M ~> E) => (M ~> C))
  BY <1>1, <1>2, Covered, PTL DEF Spec
<1>. QED
  BY <1>3 DEF M, E, C

(* So all that NightIsCounted asks of the scheduling is that the runs of a *)
(* day end: no row is missing then (analytics.job.ts:29).                  *)
THEOREM NightIsCountedIfRunsEnd ==
    Spec => (   (\A d \in Day : d \in manned ~> \A r \in Replica : run[<<r, d>>].pc = "none")
             => NightIsCounted)
BY RunsEndThenCounted, Zenon DEF NightIsCounted

-----------------------------------------------------------------------------
(* And the runs of a day do end if they go on: a run has this many steps   *)
(* left at most, as only its own steps count them down.                    *)
Turn == Cardinality(Counter) + 2
Steps(x) ==
    CASE x.pc = "none"  -> 0
      [] x.pc = "list"  -> Turn * Cardinality(Tenant) + 2
      [] x.pc = "next"  -> Turn * Cardinality(x.left) + 1
      [] x.pc = "count" -> Turn * Cardinality(x.left \ {x.at}) + 2 + Cardinality(Counter \ DOMAIN x.got)
      [] x.pc = "save"  -> Turn * Cardinality(x.left \ {x.at}) + 2

LEMMA Products ==
    ASSUME NEW w \in Nat, NEW m \in Nat
    PROVE  w * m \in Nat /\ w * (m + 1) = w * m + w /\ \A n \in 0..m : w * n <= w * m
<1>1. w * m \in Nat /\ w * (m + 1) = w * m + w
  OBVIOUS
<1>2. ASSUME NEW n \in 0..m PROVE w * n <= w * m
  BY <1>2
<1>. QED
  BY <1>1, <1>2

LEMMA StepsAreNumbers ==
    ASSUME IsFiniteSet(Tenant), IsFiniteSet(Counter), NEW x \in RunRecord
    PROVE  /\ Steps(x) \in Nat /\ Turn \in Nat /\ Cardinality(Counter) \in Nat
           /\ IsFiniteSet(x.left) /\ Cardinality(x.left) \in 0..Cardinality(Tenant)
           /\ Cardinality(x.left \ {x.at}) \in Nat
           /\ Cardinality(Counter \ DOMAIN x.got) \in 0..Cardinality(Counter)
<1>1. Cardinality(Counter) \in Nat /\ Turn \in Nat /\ Cardinality(Tenant) \in Nat
  BY FS_CardinalityType DEF Turn
<1>2. /\ IsFiniteSet(x.left) /\ Cardinality(x.left) \in Nat
      /\ Cardinality(x.left) <= Cardinality(Tenant)
  BY FS_Subset, FS_CardinalityType DEF RunRecord
<1>3. Cardinality(x.left \ {x.at}) \in Nat
  BY <1>2, FS_Subset, FS_CardinalityType
<1>4. /\ Cardinality(Counter \ DOMAIN x.got) \in Nat
      /\ Cardinality(Counter \ DOMAIN x.got) <= Cardinality(Counter)
  BY FS_Subset, FS_CardinalityType
<1>5. Steps(x) \in Nat
  <2>1. /\ Turn * Cardinality(Tenant) \in Nat /\ Turn * Cardinality(x.left) \in Nat
        /\ Turn * Cardinality(x.left \ {x.at}) \in Nat
    BY <1>1, <1>2, <1>3, Products
  <2>2. x.pc \in {"none", "list", "next", "count", "save"}
    BY DEF RunRecord
  <2>. HIDE DEF Turn
  <2>. QED
    BY <1>4, <2>1, <2>2 DEF Steps
<1>. QED
  BY <1>1, <1>2, <1>3, <1>4, <1>5

LEMMA JobIsShorter ==
    ASSUME IsFiniteSet(Tenant), IsFiniteSet(Counter), StartInv, NightInv, NEW k \in Run, Job(k)
    PROVE  run'[k] \in RunRecord /\ Steps(run'[k]) < Steps(run[k])
<1>. DEFINE x == run[k]
<1>0. /\ run \in [Run -> RunRecord] /\ x \in RunRecord
      /\ Turn \in Nat /\ Cardinality(Counter) \in Nat /\ Turn = Cardinality(Counter) + 2
  BY StepsAreNumbers DEF NightInv, Turn
<1>1. run'[k] \in RunRecord
  BY <1>0, ListTenantsKeeps, BeginTenantKeeps, CountOneKeeps, SaveKeeps DEF Job, NightInv
<1>. DEFINE y == run'[k]
<1>2. /\ Steps(y) \in Nat /\ Cardinality(y.left) \in 0..Cardinality(Tenant)
      /\ Cardinality(y.left \ {y.at}) \in Nat
      /\ Steps(x) \in Nat /\ IsFiniteSet(x.left) /\ Cardinality(x.left) \in Nat
      /\ Cardinality(x.left \ {x.at}) \in Nat /\ Cardinality(Tenant) \in Nat
      /\ Cardinality(Counter \ DOMAIN x.got) \in 0..Cardinality(Counter)
      /\ Cardinality(Counter \ DOMAIN y.got) \in 0..Cardinality(Counter)
  BY <1>0, <1>1, StepsAreNumbers, FS_CardinalityType
<1>3. CASE ListTenants(k)
  <2>1. x.pc = "list" /\ y = Place("next", tenants, Default)
    BY <1>0, <1>3 DEF ListTenants
  <2>2. Steps(x) = Turn * Cardinality(Tenant) + 2 /\ Steps(y) = Turn * Cardinality(y.left) + 1
    BY <2>1 DEF Steps, Place
  <2>3. /\ Turn * Cardinality(y.left) <= Turn * Cardinality(Tenant)
        /\ Turn * Cardinality(y.left) \in Nat /\ Turn * Cardinality(Tenant) \in Nat
    BY <1>0, <1>2, Products
  <2>. QED
    BY <1>1, <2>2, <2>3
<1>4. CASE BeginTenant(k)
  <2>1. x.pc = "next" /\ Steps(x) = Turn * Cardinality(x.left) + 1
    BY <1>4 DEF BeginTenant, Steps
  <2>2. Turn * Cardinality(x.left) \in Nat
    BY <1>0, <1>2, Products
  <2>3. CASE y = NoRun
    BY <1>1, <2>1, <2>2, <2>3 DEF Steps, NoRun, Place
  <2>4. ASSUME NEW t \in x.left, y = Place("count", x.left, t)
        PROVE  Steps(y) < Steps(x)
    <3>1. y.pc = "count" /\ y.left = x.left /\ y.at = t
      BY <2>4 DEF Place
    <3>2. Steps(y) = Turn * Cardinality(x.left \ {t}) + 2 + Cardinality(Counter \ DOMAIN y.got)
      BY <3>1 DEF Steps
    <3>3. Cardinality(x.left) = Cardinality(x.left \ {t}) + 1 /\ Cardinality(x.left \ {t}) \in Nat
      <4>1. IsFiniteSet(x.left \ {t}) /\ Cardinality(x.left \ {t}) = Cardinality(x.left) - 1
        BY <1>2, <2>4, FS_RemoveElement
      <4>2. Cardinality(x.left \ {t}) \in Nat
        BY <4>1, FS_CardinalityType
      <4>. QED
        BY <1>2, <4>1, <4>2
    <3>4. /\ Turn * Cardinality(x.left) = Turn * Cardinality(x.left \ {t}) + Turn
          /\ Turn * Cardinality(x.left \ {t}) \in Nat
      BY <1>0, <3>3, Products
    <3>. QED
      BY <1>0, <1>2, <2>1, <3>2, <3>4
  <2>. QED
    BY <1>0, <1>1, <1>4, <2>3, <2>4 DEF BeginTenant
<1>5. ASSUME NEW c \in Counter, CountOne(k, c) PROVE Steps(y) < Steps(x)
  <2> DEFINE now == DOMAIN x.got \cup {c}
             got == [b \in now |-> IF b = c THEN count[Row(k)][c] ELSE x.got[b]]
             pc == IF now = Counter THEN "save" ELSE "count"
             rec == [x EXCEPT !.got = got, !.pc = pc]
  <2>1. x.pc = "count" /\ c \notin DOMAIN x.got /\ y = rec
    BY <1>0, <1>5 DEF CountOne
  <2>2. rec.pc = pc /\ rec.left = x.left /\ rec.at = x.at /\ rec.got = got
    BY <1>0 DEF RunRecord
  <2>3. DOMAIN y.got = DOMAIN x.got \cup {c} /\ y.pc \in {"save", "count"}
    BY <2>1, <2>2
  <2>4. y.left = x.left /\ y.at = x.at
    BY <2>1, <2>2
  <2>. HIDE DEF rec
  <2>5. Cardinality(Counter \ DOMAIN y.got) = Cardinality(Counter \ DOMAIN x.got) - 1
    <3>1. Counter \ DOMAIN y.got = (Counter \ DOMAIN x.got) \ {c} /\ c \in Counter \ DOMAIN x.got
      BY <2>1, <2>3
    <3>2. IsFiniteSet(Counter \ DOMAIN x.got)
      BY FS_Subset
    <3>3. \A S : IsFiniteSet(S) /\ c \in S => Cardinality(S \ {c}) = Cardinality(S) - 1
      BY FS_RemoveElement
    <3>. QED
      BY <3>1, <3>2, <3>3, Zenon
  <2>6. Steps(x) = Turn * Cardinality(x.left \ {x.at}) + 2 + Cardinality(Counter \ DOMAIN x.got)
    BY <2>1 DEF Steps
  <2>7. \/ Steps(y) = Turn * Cardinality(x.left \ {x.at}) + 2
        \/ Steps(y) = Turn * Cardinality(x.left \ {x.at}) + 2 + Cardinality(Counter \ DOMAIN y.got)
    BY <2>3, <2>4 DEF Steps
  <2>8. Turn * Cardinality(x.left \ {x.at}) \in Nat
    BY <1>0, <1>2, Products
  <2>. QED
    BY <1>2, <2>5, <2>6, <2>7, <2>8
<1>6. CASE Save(k)
  <2>1. x.pc = "save" /\ y = Place("next", x.left \ {x.at}, Default)
    BY <1>0, <1>6 DEF Save, Saved
  <2>2. /\ Steps(x) = Turn * Cardinality(x.left \ {x.at}) + 2
        /\ Steps(y) = Turn * Cardinality(x.left \ {x.at}) + 1
    BY <2>1 DEF Steps, Place
  <2>3. Turn * Cardinality(x.left \ {x.at}) \in Nat
    BY <1>0, <1>2, Products
  <2>. QED
    BY <1>1, <2>2, <2>3
<1>. QED
  BY <1>1, <1>3, <1>4, <1>5, <1>6 DEF Job

(* Only the midnight that starts a run gives it steps: its own count them  *)
(* down, and whoever else acts, replicas that start or die, counters that  *)
(* change and later nights, leaves it no more than it had                  *)
(* (analytics.job.ts:29).                                                  *)
THEOREM RunsGetShorter ==
    ASSUME IsFiniteSet(Tenant), IsFiniteSet(Counter)
    PROVE  Spec => [][\A k \in Run : today' = today \/ k[2] # today =>
               /\ Steps(run[k]) \in Nat /\ Steps(run'[k]) <= Steps(run[k])
               /\ Job(k) => Steps(run'[k]) < Steps(run[k])]_vars
<1> DEFINE shorter == \A k \in Run : today' = today \/ k[2] # today =>
               /\ Steps(run[k]) \in Nat /\ Steps(run'[k]) <= Steps(run[k])
               /\ Job(k) => Steps(run'[k]) < Steps(run[k])
<1>1. ASSUME StartInv, NightInv, Next, NEW k \in Run, today' = today \/ k[2] # today
      PROVE  /\ Steps(run[k]) \in Nat /\ Steps(run'[k]) <= Steps(run[k])
             /\ Job(k) => Steps(run'[k]) < Steps(run[k])
  <2>0. run \in [Run -> RunRecord] /\ Steps(run[k]) \in Nat /\ Steps(NoRun) = 0
    BY <1>1, StepsAreNumbers DEF NightInv, Steps, NoRun, Place
  <2>1. CASE Job(k)
    <3>1. run'[k] \in RunRecord /\ Steps(run'[k]) < Steps(run[k])
      BY <1>1, <2>1, JobIsShorter
    <3>2. Steps(run'[k]) \in Nat
      BY <3>1, StepsAreNumbers
    <3>. QED
      BY <2>0, <3>1, <3>2
  <2>2. CASE run'[k] = run[k] /\ ~Job(k)
    BY <2>0, <2>2
  <2>3. CASE run'[k] = NoRun /\ ~Job(k)
    BY <2>0, <2>3
  <2>4. ASSUME NEW t \in Tenant, NEW d \in Day, NEW c \in Counter, Change(t, d, c), ~Job(k)
        PROVE  Steps(run'[k]) = Steps(run[k])
    <3>1. run'[k] = run[k] \/ run'[k] = [run[k] EXCEPT !.moved = TRUE]
      BY <2>4 DEF Change
    <3>2. \A x \in RunRecord : LET y == [x EXCEPT !.moved = TRUE]
              IN  y.pc = x.pc /\ y.left = x.left /\ y.at = x.at /\ y.got = x.got
      BY DEF RunRecord
    <3>. QED
      BY <2>0, <3>1, <3>2 DEF Steps
  <2>5. ASSUME NEW j \in Run, j # k, Job(j) \/ RunFails(j) PROVE run'[k] = run[k]
    BY <2>0, <2>5 DEF Job, ListTenants, BeginTenant, CountOne, Save, Saved, RunFails
  <2>6. RunFails(k) => run'[k] = NoRun
    BY <2>0 DEF RunFails
  <2>7. ASSUME NEW r \in Replica, Die(r) PROVE run'[k] = NoRun \/ run'[k] = run[k]
    BY <2>7 DEF Die
  <2>8. ASSUME NEW r \in Replica, Start(r) \/ FindTenant(r) \/ CreateTenant(r) \/ SeedWords(r)
        PROVE  run'[k] = run[k]
    BY <2>8 DEF Start, FindTenant, CreateTenant, SeedWords, atNight
  <2>9. ASSUME NEW t \in Tenant, AddTenant(t) PROVE run'[k] = run[k]
    BY <2>9 DEF AddTenant, atNight
  <2>10. Midnight => run'[k] = run[k]
    BY <1>1, HousekeepingAssumption DEF Midnight, NightInv, Tally
  <2>. QED
    BY <1>1, <2>0, <2>1, <2>2, <2>3, <2>4, <2>5, <2>6, <2>7, <2>8, <2>9, <2>10 DEF Next
<1>2. StartInv /\ NightInv /\ [Next]_vars => [shorter]_vars
  BY <1>1
<1>. HIDE DEF shorter
<1>3. Spec => [][shorter]_vars
  BY <1>2, Invariance, PTL DEF Spec
<1>. QED
  BY <1>3 DEF shorter
=============================================================================
