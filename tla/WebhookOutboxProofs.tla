------------------------- MODULE WebhookOutboxProofs -------------------------
(***************************************************************************)
(* Theorems about WebhookOutbox, for every number of events, workers and   *)
(* tenants and every value of the parameters.                              *)
(***************************************************************************)
EXTENDS WebhookOutbox, FiniteSetTheorems, TLAPS

(* The updates that end a row's turn without a delivery differ only in     *)
(* what they write.                                                        *)
Retire(w) == \E e \in queue[w], tries \in 0..MaxAttempts, delay \in Nat \cup {Dead} :
    /\ pc[w] \notin {"idle", "claimed"}
    /\ InHand(w, e)
    /\ Reschedule(e, tries, delay)
    /\ Advance(w)
    /\ UNCHANGED <<configured, received, aborts, resends>>

(* A row whose POST is being recorded had attempts left when it was read,  *)
(* so that counting one more stays within MAX_ATTEMPTS.                    *)
PostedHadAttempts == \A w \in Worker : pc[w] \in SendResult =>
    ~Exhausted(w, Current(w))

(* The tenant has the payload of a row about to be recorded as sent. *)
AnsweredWasReceived == \A w \in Worker : pc[w] = "sent" => Current(w) \in received

(* A run with nothing left to do is over. *)
IdleIsEmpty == \A w \in Worker : (pc[w] = "idle") <=> (queue[w] = {})

(* What holds whether or not runs stall. *)
BasicInv == /\ TypeOK
            /\ IdleIsEmpty
            /\ PostedHadAttempts
            /\ AnsweredWasReceived
            /\ DeliveredWasReceived

-----------------------------------------------------------------------------
(* The row of a turn is an event of the queue it was chosen from.          *)
LEMMA CurrentInQueue ==
    ASSUME TypeOK, NEW w \in Worker, NEW e \in queue[w], e = Current(w)
    PROVE  e \in Event /\ Current(w) \in queue[w]
BY DEF TypeOK

(* The four turns that end with a rescheduled row, in one form.            *)
LEMMA RetireCases ==
    ASSUME BasicInv, NEW w \in Worker,
           DeadLetter(w) \/ Unconfigured(w) \/ RecordBlocked(w) \/ RecordFailed(w)
    PROVE  Retire(w)
<1> USE OutboxAssumption DEF BasicInv, TypeOK, Dead
<1>1. CASE DeadLetter(w)
  BY <1>1 DEF DeadLetter, Retire
<1>2. CASE Unconfigured(w)
  <2>1. PICK e \in queue[w] : Unconfigured(w)!(e)
    BY <1>2 DEF Unconfigured
  <2>2. snapshot[w][e] + 1 \in 0..MaxAttempts
    BY <2>1 DEF Exhausted
  <2> QED BY <2>1, <2>2 DEF Retire
<1>3. CASE RecordBlocked(w)
  <2>1. PICK e \in queue[w] : RecordBlocked(w)!(e)
    BY <1>3 DEF RecordBlocked
  <2>2. snapshot[w][e] + 1 \in 0..MaxAttempts
    BY <2>1 DEF Exhausted, PostedHadAttempts, InHand, SendResult
  <2> QED BY <2>1, <2>2 DEF Retire
<1>4. CASE RecordFailed(w)
  <2>1. PICK e \in queue[w] : RecordFailed(w)!(e)
    BY <1>4 DEF RecordFailed
  <2>2. snapshot[w][e] + 1 \in 1..MaxAttempts
    BY <2>1 DEF Exhausted, PostedHadAttempts, InHand, SendResult
  <2>3. Backoff[snapshot[w][e] + 1] \in Nat
    BY <2>2
  <2> QED BY <2>1, <2>2, <2>3 DEF Retire
<1> QED BY <1>1, <1>2, <1>3, <1>4

(* A run whose locals are untouched still has what it had, if the tenants   *)
(* lost nothing they had received.                                          *)
OwnUnchanged(v) == /\ pc'[v] = pc[v]
                   /\ queue'[v] = queue[v]
                   /\ snapshot'[v] = snapshot[v]

(* A run that keeps its locals keeps what is known of its POST.            *)
LEMMA PostedKept ==
    ASSUME BasicInv, received \subseteq received',
           \A v \in Worker : OwnUnchanged(v) \/ pc'[v] \notin SendResult
    PROVE  PostedHadAttempts' /\ AnsweredWasReceived'
<1> SUFFICES ASSUME NEW v \in Worker, pc'[v] \in SendResult
             PROVE  /\ ~Exhausted(v, Current(v))'
                    /\ pc'[v] = "sent" => Current(v)' \in received'
  BY DEF PostedHadAttempts, AnsweredWasReceived, SendResult
<1>1. OwnUnchanged(v)
  OBVIOUS
<1>2. Current(v)' = Current(v)
  BY <1>1 DEF OwnUnchanged, Current
<1> QED
  BY <1>1, <1>2 DEF OwnUnchanged, BasicInv, PostedHadAttempts, AnsweredWasReceived, Exhausted

(* The basic invariant holds when the service starts.                      *)
LEMMA InitBasic == Init => BasicInv
BY OutboxAssumption
   DEF Init, BasicInv, TypeOK, IdleIsEmpty, PostedHadAttempts, AnsweredWasReceived,
       DeliveredWasReceived, SendResult, Dead

(* A claim only moves columns within their types.                          *)
LEMMA ClaimBasic ==
    ASSUME BasicInv, NEW w \in Worker, NEW locked \in SUBSET Due, Claim(w, locked)
    PROVE  BasicInv'
<1> USE OutboxAssumption, LeaseAssumption DEF BasicInv, SendResult
<1>1. PICK claimed \in SUBSET (Due \ locked) : Claim(w, locked)!(claimed)
  BY DEF Claim
<1>2. claimed \subseteq Event
  BY <1>1 DEF Due, TypeOK
<1>3. TypeOK'
  BY <1>1, <1>2 DEF TypeOK
<1>4. IdleIsEmpty'
  BY <1>1 DEF IdleIsEmpty, TypeOK
<1>5. PostedHadAttempts' /\ AnsweredWasReceived'
  <2>1. \A v \in Worker : OwnUnchanged(v) \/ pc'[v] \notin SendResult
    BY <1>1 DEF OwnUnchanged, TypeOK
  <2> QED BY <1>1, <2>1, PostedKept
<1>6. DeliveredWasReceived'
  BY <1>1 DEF DeliveredWasReceived
<1> QED BY <1>3, <1>4, <1>5, <1>6

(* What a run reads of its rows has the types of their columns.            *)
LEMMA LoadBasic ==
    ASSUME BasicInv, NEW w \in Worker, Load(w)
    PROVE  BasicInv'
<1> USE OutboxAssumption DEF BasicInv, SendResult, Load, rowVars
<1>1. TypeOK'
  <2>1. snapshot' \in [Worker -> [Event -> 0..MaxAttempts]]
    BY SMTT(30) DEF TypeOK
  <2>2. queue' \in [Worker -> SUBSET Event] /\ reachable' \in [Worker -> SUBSET Tenant]
    BY DEF TypeOK
  <2> QED BY <2>1, <2>2 DEF TypeOK
<1>2. IdleIsEmpty'
  BY DEF IdleIsEmpty, TypeOK
<1>3. PostedHadAttempts' /\ AnsweredWasReceived'
  <2>1. \A v \in Worker : OwnUnchanged(v) \/ pc'[v] \notin SendResult
    BY DEF OwnUnchanged, TypeOK
  <2> QED BY <2>1, PostedKept
<1>4. DeliveredWasReceived'
  BY DEF DeliveredWasReceived
<1> QED BY <1>1, <1>2, <1>3, <1>4

AdvancedTypes ==
    /\ pc \in [Worker -> {"idle", "claimed", "turn"} \cup SendResult]
    /\ queue \in [Worker -> SUBSET Event]
    /\ snapshot \in [Worker -> [Event -> 0..MaxAttempts]]
    /\ reachable \in [Worker -> SUBSET Tenant]
    /\ slack \in [Worker -> 0..1]

(* Going on to the next row keeps the facts about every run.               *)
LEMMA AdvanceBasic ==
    ASSUME BasicInv, NEW w \in Worker, Advance(w), queue[w] # {},
           UNCHANGED received
    PROVE  /\ AdvancedTypes'
           /\ IdleIsEmpty'
           /\ PostedHadAttempts'
           /\ AnsweredWasReceived'
<1> USE DEF BasicInv, SendResult, Advance, TypeOK
<1>1. IdleIsEmpty'
  BY DEF IdleIsEmpty
<1>2. PostedHadAttempts' /\ AnsweredWasReceived'
  <2>1. \A v \in Worker : OwnUnchanged(v) \/ pc'[v] \notin SendResult
    BY DEF OwnUnchanged
  <2> QED BY <2>1, PostedKept
<1>3. AdvancedTypes'
  <2>1. snapshot' \in [Worker -> [Event -> 0..MaxAttempts]]
    <3> DEFINE mine == [snapshot[w] EXCEPT ![Current(w)] = 0]
    <3>1. mine \in [Event -> 0..MaxAttempts]
      <4>1. 0 \in 0..MaxAttempts
        BY OutboxAssumption
      <4>2. snapshot[w] \in [Event -> 0..MaxAttempts]
        OBVIOUS
      <4> QED BY ONLY <4>1, <4>2
    <3>2. snapshot' = [snapshot EXCEPT ![w] = mine]
      OBVIOUS
    <3> HIDE DEF mine
    <3> QED BY <3>1, <3>2
  <2> QED BY <2>1 DEF AdvancedTypes
<1> QED BY <1>1, <1>2, <1>3

(* A rescheduled row loses nothing: it stays unsent.                       *)
LEMMA RetireBasic ==
    ASSUME BasicInv, NEW w \in Worker, Retire(w)
    PROVE  BasicInv'
<1> USE OutboxAssumption DEF BasicInv, SendResult
<1>1. PICK e \in queue[w], tries \in 0..MaxAttempts, delay \in Nat \cup {Dead} :
        Retire(w)!(e, tries, delay)
  BY DEF Retire
<1>2. AdvancedTypes' /\ IdleIsEmpty' /\ PostedHadAttempts' /\ AnsweredWasReceived'
  BY <1>1, AdvanceBasic
<1>3. TypeOK'
  BY <1>1, <1>2 DEF TypeOK, Reschedule, AdvancedTypes, Dead
<1>4. DeliveredWasReceived'
  BY <1>1 DEF DeliveredWasReceived, Reschedule
<1> QED BY <1>2, <1>3, <1>4

(* An answer taken for a success means that the payload arrived.           *)
LEMMA SendBasic ==
    ASSUME BasicInv, NEW w \in Worker, NEW r \in SendResult, Send(w, r)
    PROVE  BasicInv'
<1> USE DEF BasicInv, SendResult, rowVars
<1>1. PICK e \in queue[w] : Send(w, r)!(e)
  BY DEF Send
<1>2. /\ received \subseteq received'
      /\ received' \subseteq received \cup {e}
      /\ r = "sent" => e \in received'
  BY <1>1
<1>3. TypeOK'
  BY <1>1, <1>2 DEF TypeOK
<1>4. IdleIsEmpty'
  BY <1>1 DEF IdleIsEmpty, TypeOK
<1>5. PostedHadAttempts' /\ AnsweredWasReceived'
  BY <1>1, <1>2 DEF PostedHadAttempts, AnsweredWasReceived, Exhausted, Current, TypeOK
<1>6. DeliveredWasReceived'
  BY <1>1, <1>2 DEF DeliveredWasReceived
<1> QED BY <1>3, <1>4, <1>5, <1>6

(* A row is recorded as sent only after its payload arrived.               *)
LEMMA RecordSentBasic ==
    ASSUME BasicInv, NEW w \in Worker, RecordSent(w)
    PROVE  BasicInv'
<1> USE OutboxAssumption DEF BasicInv, SendResult
<1>1. PICK e \in queue[w] : RecordSent(w)!(e)
  BY DEF RecordSent
<1>2. e \in received
  BY <1>1 DEF InHand, AnsweredWasReceived
<1>3. AdvancedTypes' /\ IdleIsEmpty' /\ PostedHadAttempts' /\ AnsweredWasReceived'
  BY <1>1, AdvanceBasic
<1>4. TypeOK'
  BY <1>1, <1>3 DEF TypeOK, AdvancedTypes
<1>5. DeliveredWasReceived'
  BY <1>1, <1>2 DEF DeliveredWasReceived
<1> QED BY <1>3, <1>4, <1>5

(* A run cut short leaves the rows as they are.                            *)
LEMMA AbortBasic ==
    ASSUME BasicInv, NEW w \in Worker, Abort(w)
    PROVE  BasicInv'
<1> USE OutboxAssumption DEF BasicInv, SendResult, Abort, rowVars
<1>1. TypeOK'
  BY DEF TypeOK
<1>2. IdleIsEmpty'
  BY DEF IdleIsEmpty, TypeOK
<1>3. PostedHadAttempts' /\ AnsweredWasReceived'
  <2>1. \A v \in Worker : OwnUnchanged(v) \/ pc'[v] \notin SendResult
    BY DEF OwnUnchanged, TypeOK
  <2> QED BY <2>1, PostedKept
<1>4. DeliveredWasReceived'
  BY DEF DeliveredWasReceived
<1> QED BY <1>1, <1>2, <1>3, <1>4

(* Steps of others leave the runs where they are. *)
LEMMA OthersBasic ==
    ASSUME BasicInv, UNCHANGED <<pc, queue, snapshot, received>>, TypeOK',
           sentAt' \cup purged' = sentAt \cup purged
    PROVE  BasicInv'
BY DEF BasicInv, IdleIsEmpty, PostedHadAttempts, AnsweredWasReceived,
       DeliveredWasReceived, Exhausted, Current

(* A resend keeps the types, and marks nothing as sent.                    *)
LEMMA ResetBasic ==
    ASSUME BasicInv, NEW E \in SUBSET Event, Reset(E)
    PROVE  BasicInv'
<1>1. TypeOK'
  BY OutboxAssumption DEF BasicInv, TypeOK, Reset, workerVars
<1> QED BY <1>1, OthersBasic DEF Reset, workerVars

(* Time passing keeps the types, and marks nothing as sent.                *)
LEMMA TickBasic ==
    ASSUME BasicInv, Tick
    PROVE  BasicInv'
<1>1. TypeOK'
  BY DEF BasicInv, TypeOK, Tick, Down, Dead
<1> QED BY <1>1, OthersBasic DEF Tick

(* Type correctness, and that nothing is lost: inductive without any       *)
(* assumption on how long a turn takes.                                    *)
LEMMA NextBasic == BasicInv /\ [Next]_vars => BasicInv'
<1> SUFFICES ASSUME BasicInv, [Next]_vars PROVE BasicInv'
  OBVIOUS
<1>1. ASSUME NEW w \in Worker, NEW locked \in SUBSET Due, Claim(w, locked) PROVE BasicInv'
  BY <1>1, ClaimBasic
<1>2. ASSUME NEW w \in Worker, Load(w) PROVE BasicInv'
  BY <1>2, LoadBasic
<1>3. ASSUME NEW w \in Worker, Turn(w) PROVE BasicInv'
  BY <1>3, RetireCases, RetireBasic, SendBasic, RecordSentBasic DEF Turn
<1>4. ASSUME NEW w \in Worker, Abort(w) PROVE BasicInv'
  BY <1>4, AbortBasic
<1>5. ASSUME NEW e \in Event, Publish(e) PROVE BasicInv'
  <2>1. TypeOK'
    BY <1>5 DEF Publish, BasicInv, TypeOK, workerVars
  <2> QED BY <1>5, <2>1, OthersBasic DEF Publish, workerVars
<1>6. ASSUME NEW e \in Event, ResendOne(e) PROVE BasicInv'
  BY <1>6, ResetBasic DEF ResendOne
<1>7. ASSUME NEW t \in Tenant, ResendAllFailed(t) PROVE BasicInv'
  <2>1. {e \in Resendable : TenantOf[e] = t} \in SUBSET Event
    BY DEF Resendable, BasicInv, TypeOK
  <2> QED BY <1>7, <2>1, ResetBasic DEF ResendAllFailed
<1>8. ASSUME NEW t \in Tenant, Configure(t) PROVE BasicInv'
  <2>1. TypeOK'
    BY <1>8 DEF Configure, BasicInv, TypeOK, rowVars, workerVars
  <2> QED BY <1>8, <2>1, OthersBasic DEF Configure, rowVars, workerVars
<1>9. ASSUME NEW E \in SUBSET Event, PurgeDelivered(E) PROVE BasicInv'
  <2>1. TypeOK'
    BY <1>9 DEF PurgeDelivered, BasicInv, TypeOK, workerVars
  <2> QED BY <1>9, <2>1, OthersBasic DEF PurgeDelivered, workerVars
<1>10. CASE Tick
  BY <1>10, TickBasic
<1>11. CASE UNCHANGED vars
  <2>1. TypeOK'
    BY <1>11 DEF BasicInv, TypeOK, vars, rowVars, workerVars
  <2> QED BY <1>11, <2>1, OthersBasic DEF vars, rowVars, workerVars
<1> QED BY <1>1, <1>2, <1>3, <1>4, <1>5, <1>6, <1>7, <1>8, <1>9, <1>10, <1>11 DEF Next

(* The basic invariant holds in every reachable state.                     *)
THEOREM BasicInvariant == Spec => []BasicInv
BY InitBasic, NextBasic, PTL DEF Spec

(* The columns, and the locals of every run, keep their types: attempts    *)
(* never passes MAX_ATTEMPTS, however late a run writes.                   *)
THEOREM TypeCorrect == Spec => []TypeOK
BY BasicInvariant, PTL DEF BasicInv

(* No event counts as sent, or is deleted by the retention job, that its   *)
(* tenant has not received: with stalled and aborted runs too.             *)
THEOREM NothingIsLost == Spec => []DeliveredWasReceived
BY BasicInvariant, PTL DEF BasicInv

-----------------------------------------------------------------------------
(***************************************************************************)
(* Ownership.  Exclusive alone is not inductive: that a claim cannot take  *)
(* a row some run still holds rests on the row's lease outlasting the run, *)
(* which LeaseCoversQueue bounds by the turns the run has left.            *)
(***************************************************************************)
OwnershipInv == Exclusive /\ LeaseCoversQueue /\ SnapshotFresh

(* A row in the hands of a run is neither due nor open to a resend.        *)
LEMMA OwnedIsLeased ==
    ASSUME BasicInv, LeaseCoversQueue, NEW w \in Worker, NEW e \in queue[w]
    PROVE  /\ e \in stored \ sentAt
           /\ claimedUntil[e] \in Nat \ {0}
           /\ nextRetryAt[e] = claimedUntil[e]
           /\ e \notin Due
           /\ e \notin Resendable
           /\ IsFiniteSet(queue[w])
           /\ Cardinality(queue[w]) \in Nat \ {0}
<1>1. IsFiniteSet(queue[w])
  BY FS_Subset, OutboxAssumption DEF BasicInv, TypeOK
<1>2. Cardinality(queue[w]) \in Nat \ {0}
  BY <1>1, FS_EmptySet, FS_CardinalityType
<1>3. e \in Event /\ slack[w] \in 0..1 /\ claimedUntil[e] \in Nat
  BY DEF BasicInv, TypeOK
<1>4. claimedUntil[e] >= slack[w] + Cardinality(queue[w])
  BY DEF LeaseCoversQueue
<1>5. claimedUntil[e] \in Nat \ {0}
  BY <1>2, <1>3, <1>4
<1> QED BY <1>1, <1>2, <1>5 DEF LeaseCoversQueue, Due, Resendable

(* No run holds a row when the service starts.                             *)
LEMMA InitOwnership == Init => OwnershipInv
BY DEF Init, OwnershipInv, Exclusive, LeaseCoversQueue, SnapshotFresh

(* A step that leaves the runs and the columns of their rows alone. *)
RowKept(e) == /\ e \in stored' \ sentAt'
              /\ attempts'[e] = attempts[e]
              /\ nextRetryAt'[e] = nextRetryAt[e]
              /\ claimedUntil'[e] = claimedUntil[e]

(* A step that touches no run and no held row keeps the ownership.         *)
LEMMA KeptOwnership ==
    ASSUME OwnershipInv, UNCHANGED <<queue, slack, snapshot>>,
           \A w \in Worker : pc'[w] = "claimed" <=> pc[w] = "claimed",
           \A w \in Worker : \A e \in queue[w] : RowKept(e)
    PROVE  OwnershipInv'
BY DEF OwnershipInv, Exclusive, LeaseCoversQueue, SnapshotFresh, RowKept

(* A claim takes rows nobody holds, under a lease that covers them.        *)
LEMMA ClaimOwnership ==
    ASSUME BasicInv, OwnershipInv, NEW w \in Worker, NEW locked \in SUBSET Due,
           Claim(w, locked)
    PROVE  OwnershipInv'
<1>1. PICK claimed \in SUBSET (Due \ locked) : Claim(w, locked)!(claimed)
  BY DEF Claim
<1>2. \A v \in Worker : queue[v] \cap claimed = {}
  BY <1>1, OwnedIsLeased DEF OwnershipInv
<1>3. claimed \subseteq Event /\ claimed \subseteq stored \ sentAt
  BY <1>1 DEF Due, BasicInv, TypeOK
<1>4. Cardinality(claimed) \in Nat /\ Cardinality(claimed) <= Batch
  BY <1>1, <1>3, FS_Subset, FS_CardinalityType, OutboxAssumption DEF OldestOf
<1>5. /\ queue' = [queue EXCEPT ![w] = claimed]
      /\ slack' = [slack EXCEPT ![w] = 1]
      /\ pc' = [pc EXCEPT ![w] = "claimed"]
      /\ UNCHANGED <<stored, sentAt, attempts, snapshot>>
      /\ \A e \in Event : /\ e \in claimed =>
                                nextRetryAt'[e] = Lease /\ claimedUntil'[e] = Lease
                          /\ e \notin claimed =>
                                /\ nextRetryAt'[e] = nextRetryAt[e]
                                /\ claimedUntil'[e] = claimedUntil[e]
  BY <1>1
<1>6. /\ queue'[w] = claimed /\ slack'[w] = 1 /\ pc'[w] = "claimed"
      /\ \A v \in Worker \ {w} :
            queue'[v] = queue[v] /\ slack'[v] = slack[v] /\ pc'[v] = pc[v]
  BY <1>5 DEF BasicInv, TypeOK
<1>7. Exclusive'
  BY <1>2, <1>6 DEF Exclusive, OwnershipInv
<1>8. LeaseCoversQueue'
  <2> SUFFICES ASSUME NEW v \in Worker, NEW e \in queue'[v]
               PROVE  /\ e \in stored' \ sentAt'
                      /\ nextRetryAt'[e] = claimedUntil'[e]
                      /\ claimedUntil'[e] >= slack'[v] + Cardinality(queue'[v])
    BY DEF LeaseCoversQueue
  <2>1. CASE v = w
    <3>1. Lease >= 1 + Cardinality(claimed)
      BY <1>4, OutboxAssumption, LeaseAssumption
    <3> QED BY <2>1, <1>3, <1>5, <1>6, <3>1
  <2>2. CASE v # w
    <3>1. queue'[v] = queue[v] /\ slack'[v] = slack[v] /\ e \in Event /\ e \notin claimed
      BY <2>2, <1>2, <1>6 DEF BasicInv, TypeOK
    <3> QED BY <3>1, <1>5 DEF OwnershipInv, LeaseCoversQueue
  <2> QED BY <2>1, <2>2
<1>9. SnapshotFresh'
  BY <1>5, <1>6 DEF SnapshotFresh, OwnershipInv
<1> QED BY <1>7, <1>8, <1>9 DEF OwnershipInv

(* A run that loads its rows reads their current attempts.                 *)
LEMMA LoadOwnership ==
    ASSUME BasicInv, OwnershipInv, NEW w \in Worker, Load(w)
    PROVE  OwnershipInv'
<1>1. queue[w] \cap stored = queue[w]
  BY DEF OwnershipInv, LeaseCoversQueue
<1>2. queue' = queue
  BY <1>1 DEF Load, BasicInv, TypeOK
<1>3. UNCHANGED <<rowVars, slack>>
  BY DEF Load
<1>4. Exclusive' /\ LeaseCoversQueue'
  BY <1>2, <1>3 DEF OwnershipInv, Exclusive, LeaseCoversQueue, rowVars
<1>5. SnapshotFresh'
  <2> SUFFICES ASSUME NEW v \in Worker, pc'[v] # "claimed", NEW e \in queue[v]
               PROVE  snapshot'[v][e] = attempts[e]
    BY <1>2, <1>3 DEF SnapshotFresh, rowVars
  <2>1. e \in Event
    BY DEF BasicInv, TypeOK
  <2>2. CASE v = w
    BY <1>1, <2>1, <2>2 DEF Load, BasicInv, TypeOK
  <2>3. CASE v # w
    BY <2>3 DEF Load, BasicInv, TypeOK, OwnershipInv, SnapshotFresh
  <2> QED BY <2>2, <2>3
<1> QED BY <1>4, <1>5 DEF OwnershipInv

(* A run finishes with its row e, and writes to no other. *)
LEMMA AdvanceOwnership ==
    ASSUME BasicInv, OwnershipInv, NEW w \in Worker, NEW e \in queue[w], e = Current(w),
           pc[w] # "claimed", Advance(w),
           \A d \in stored \ (sentAt \cup {e}) : RowKept(d)
    PROVE  OwnershipInv'
<1>1. /\ queue'[w] = queue[w] \ {e}
      /\ slack'[w] \in 0..1
      /\ \A d \in Event : d # e => snapshot'[w][d] = snapshot[w][d]
      /\ \A v \in Worker \ {w} : /\ queue'[v] = queue[v] /\ slack'[v] = slack[v]
                                 /\ pc'[v] = pc[v] /\ snapshot'[v] = snapshot[v]
  BY DEF Advance, BasicInv, TypeOK
<1>2. \A v \in Worker : \A d \in queue'[v] : d \in queue[v] /\ d # e /\ d \in Event /\ RowKept(d)
  <2> SUFFICES ASSUME NEW v \in Worker, NEW d \in queue'[v]
               PROVE  d \in queue[v] /\ d # e /\ d \in Event /\ RowKept(d)
    OBVIOUS
  <2>1. d \in queue[v] /\ d # e
    BY <1>1 DEF OwnershipInv, Exclusive
  <2>2. d \in stored \ sentAt
    BY <2>1, OwnedIsLeased DEF OwnershipInv
  <2> QED BY <2>1, <2>2 DEF BasicInv, TypeOK
<1>3. Exclusive'
  BY <1>1 DEF OwnershipInv, Exclusive
<1>4. LeaseCoversQueue'
  <2> SUFFICES ASSUME NEW v \in Worker, NEW d \in queue'[v]
               PROVE  /\ d \in stored' \ sentAt'
                      /\ nextRetryAt'[d] = claimedUntil'[d]
                      /\ claimedUntil'[d] >= slack'[v] + Cardinality(queue'[v])
    BY DEF LeaseCoversQueue
  <2>1. d \in queue[v] /\ RowKept(d)
    BY <1>2
  <2>2. /\ nextRetryAt[d] = claimedUntil[d]
        /\ claimedUntil[d] >= slack[v] + Cardinality(queue[v])
    BY <2>1 DEF OwnershipInv, LeaseCoversQueue
  <2>3. CASE v = w
    <3>1. Cardinality(queue'[w]) = Cardinality(queue[w]) - 1
      BY <1>1, OwnedIsLeased, FS_RemoveElement DEF OwnershipInv
    <3>2. /\ Cardinality(queue[w]) \in Nat /\ slack[w] \in 0..1
          /\ claimedUntil[d] \in Nat
      BY <2>1, <1>2, OwnedIsLeased DEF OwnershipInv, BasicInv, TypeOK
    <3> QED BY <2>1, <2>2, <2>3, <1>1, <3>1, <3>2 DEF RowKept
  <2>4. CASE v # w
    BY <2>1, <2>2, <2>4, <1>1 DEF RowKept
  <2> QED BY <2>3, <2>4
<1>5. SnapshotFresh'
  <2> SUFFICES ASSUME NEW v \in Worker, pc'[v] # "claimed", NEW d \in queue'[v]
               PROVE  snapshot'[v][d] = attempts'[d]
    BY DEF SnapshotFresh
  <2>1. snapshot'[v][d] = snapshot[v][d] /\ pc[v] # "claimed"
    BY <1>1, <1>2
  <2> QED BY <2>1, <1>2 DEF OwnershipInv, SnapshotFresh, RowKept
<1> QED BY <1>3, <1>4, <1>5 DEF OwnershipInv

(* A run that reschedules its row keeps the ownership of the others.       *)
LEMMA RetireOwnership ==
    ASSUME BasicInv, OwnershipInv, NEW w \in Worker, Retire(w)
    PROVE  OwnershipInv'
<1>1. PICK e \in queue[w], tries \in 0..MaxAttempts, delay \in Nat \cup {Dead} :
        Retire(w)!(e, tries, delay)
  BY DEF Retire
<1>2. \A d \in stored \ (sentAt \cup {e}) : RowKept(d)
  BY <1>1 DEF RowKept, Reschedule, BasicInv, TypeOK
<1> QED BY <1>1, <1>2, AdvanceOwnership DEF InHand

(* A run that records a delivery keeps the ownership of the others.        *)
LEMMA RecordSentOwnership ==
    ASSUME BasicInv, OwnershipInv, NEW w \in Worker, RecordSent(w)
    PROVE  OwnershipInv'
<1>1. PICK e \in queue[w] : RecordSent(w)!(e)
  BY DEF RecordSent
<1>2. \A d \in stored \ (sentAt \cup {e}) : RowKept(d)
  BY <1>1 DEF RowKept, BasicInv, TypeOK
<1> QED BY <1>1, <1>2, AdvanceOwnership DEF InHand

(* A POST changes nobody's ownership.                                      *)
LEMMA SendOwnership ==
    ASSUME BasicInv, OwnershipInv, NEW w \in Worker, NEW r \in SendResult, Send(w, r)
    PROVE  OwnershipInv'
<1>1. \A v \in Worker : pc'[v] = "claimed" <=> pc[v] = "claimed"
  BY DEF Send, SendResult, BasicInv, TypeOK
<1>2. \A v \in Worker : \A e \in queue[v] : RowKept(e)
  BY OwnedIsLeased DEF Send, RowKept, rowVars, OwnershipInv
<1> QED BY <1>1, <1>2, KeptOwnership DEF Send

(* A run cut short gives up its rows.                                      *)
LEMMA AbortOwnership ==
    ASSUME BasicInv, OwnershipInv, NEW w \in Worker, Abort(w)
    PROVE  OwnershipInv'
<1>1. \A v \in Worker : \/ queue'[v] = {}
                        \/ /\ queue'[v] = queue[v] /\ slack'[v] = slack[v]
                           /\ pc'[v] = pc[v] /\ snapshot'[v] = snapshot[v]
  BY DEF Abort, BasicInv, TypeOK
<1>2. UNCHANGED rowVars
  BY DEF Abort
<1> QED
  BY <1>1, <1>2 DEF OwnershipInv, Exclusive, LeaseCoversQueue, SnapshotFresh, rowVars

(* A resend passes over the rows under a live lease. *)
LEMMA ResetOwnership ==
    ASSUME BasicInv, OwnershipInv, NEW E \in SUBSET Resendable, Reset(E)
    PROVE  OwnershipInv'
<1>1. \A v \in Worker : \A e \in queue[v] : e \in Event /\ e \in stored \ sentAt /\ e \notin E
  BY OwnedIsLeased DEF OwnershipInv, BasicInv, TypeOK
<1>2. \A v \in Worker : \A e \in queue[v] : RowKept(e)
  BY <1>1 DEF Reset, RowKept
<1> QED BY <1>2, KeptOwnership DEF Reset, workerVars

(* The lease and the turn in hand run down together. *)
LEMMA TickOwnership ==
    ASSUME BasicInv, OwnershipInv, Timely, Tick
    PROVE  OwnershipInv'
<1>1. UNCHANGED <<stored, sentAt, attempts, pc, queue, snapshot>>
  BY DEF Tick
<1>2. Exclusive' /\ SnapshotFresh'
  BY <1>1 DEF OwnershipInv, Exclusive, SnapshotFresh
<1>3. LeaseCoversQueue'
  <2> SUFFICES ASSUME NEW v \in Worker, NEW e \in queue[v]
               PROVE  /\ e \in stored \ sentAt
                      /\ nextRetryAt'[e] = claimedUntil'[e]
                      /\ claimedUntil'[e] >= slack'[v] + Cardinality(queue[v])
    BY <1>1 DEF LeaseCoversQueue
  <2>1. /\ e \in stored \ sentAt
        /\ nextRetryAt[e] = claimedUntil[e]
        /\ claimedUntil[e] \in Nat \ {0}
        /\ Cardinality(queue[v]) \in Nat
    BY OwnedIsLeased DEF OwnershipInv
  <2>2. claimedUntil[e] >= slack[v] + Cardinality(queue[v])
    BY DEF OwnershipInv, LeaseCoversQueue
  <2>3. slack[v] = 1
    BY DEF Tick, BasicInv, IdleIsEmpty, TypeOK
  <2>4. /\ claimedUntil'[e] = claimedUntil[e] - 1
        /\ nextRetryAt'[e] = nextRetryAt[e] - 1
        /\ slack'[v] = 0
    BY <2>1, <2>3 DEF Tick, Down, BasicInv, TypeOK
  <2> QED BY <2>1, <2>2, <2>3, <2>4
<1> QED BY <1>2, <1>3 DEF OwnershipInv

(* The ownership invariant is inductive while turns are timely.            *)
LEMMA NextOwnership ==
    Timely /\ BasicInv /\ OwnershipInv /\ [Next]_vars => OwnershipInv'
<1> SUFFICES ASSUME Timely, BasicInv, OwnershipInv, [Next]_vars PROVE OwnershipInv'
  OBVIOUS
<1>0. \A v \in Worker : \A e \in queue[v] : e \in stored \ sentAt /\ e \in Event
  BY OwnedIsLeased DEF OwnershipInv, BasicInv, TypeOK
<1>1. ASSUME NEW w \in Worker, NEW locked \in SUBSET Due, Claim(w, locked) PROVE OwnershipInv'
  BY <1>1, ClaimOwnership
<1>2. ASSUME NEW w \in Worker, Load(w) PROVE OwnershipInv'
  BY <1>2, LoadOwnership
<1>3. ASSUME NEW w \in Worker, Turn(w) PROVE OwnershipInv'
  BY <1>3, RetireCases, RetireOwnership, SendOwnership, RecordSentOwnership DEF Turn
<1>4. ASSUME NEW w \in Worker, Abort(w) PROVE OwnershipInv'
  BY <1>4, AbortOwnership
<1>5. ASSUME NEW e \in Event, Publish(e) PROVE OwnershipInv'
  <2>1. \A v \in Worker : \A d \in queue[v] : RowKept(d)
    BY <1>0, <1>5 DEF Publish, RowKept
  <2> QED BY <1>5, <2>1, KeptOwnership DEF Publish, workerVars
<1>6. ASSUME NEW e \in Event, ResendOne(e) PROVE OwnershipInv'
  BY <1>6, ResetOwnership DEF ResendOne
<1>7. ASSUME NEW t \in Tenant, ResendAllFailed(t) PROVE OwnershipInv'
  BY <1>7, ResetOwnership DEF ResendAllFailed
<1>8. ASSUME NEW t \in Tenant, Configure(t) PROVE OwnershipInv'
  <2>1. \A v \in Worker : \A d \in queue[v] : RowKept(d)
    BY <1>0, <1>8 DEF Configure, RowKept, rowVars
  <2> QED BY <1>8, <2>1, KeptOwnership DEF Configure, workerVars
<1>9. ASSUME NEW E \in SUBSET Event, PurgeDelivered(E) PROVE OwnershipInv'
  <2>1. \A v \in Worker : \A d \in queue[v] : RowKept(d)
    BY <1>0, <1>9 DEF PurgeDelivered, RowKept
  <2> QED BY <1>9, <2>1, KeptOwnership DEF PurgeDelivered, workerVars
<1>10. CASE Tick
  BY <1>10, TickOwnership
<1>11. CASE UNCHANGED vars
  <2>1. \A v \in Worker : \A d \in queue[v] : RowKept(d)
    BY <1>0, <1>11 DEF RowKept, vars, rowVars
  <2> QED BY <1>11, <2>1, KeptOwnership DEF vars, workerVars
<1> QED BY <1>1, <1>2, <1>3, <1>4, <1>5, <1>6, <1>7, <1>8, <1>9, <1>10, <1>11 DEF Next

(* While turns are timely, the ownership invariant always holds.           *)
THEOREM OwnershipInvariant == Timely /\ Spec => [](BasicInv /\ OwnershipInv)
<1>1. Init => BasicInv /\ OwnershipInv
  BY InitBasic, InitOwnership
<1>2. Timely /\ BasicInv /\ OwnershipInv /\ [Next]_vars => (BasicInv /\ OwnershipInv)'
  BY NextBasic, NextOwnership
<1>3. CASE Timely
  BY <1>1, <1>2, <1>3, PTL DEF Spec
<1>4. CASE ~Timely
  BY <1>4
<1> QED BY <1>3, <1>4

(* While every turn keeps to its time, no event is ever in the hands of    *)
(* two runs, whatever the batch size, the number of replicas and the       *)
(* backoff, as long as the lease outlasts a batch.                         *)
THEOREM RunsAreExclusive == Timely /\ Spec => []Exclusive
BY OwnershipInvariant, PTL DEF OwnershipInv

(* A claimed row stays unsent and under a lease that outlasts the turns    *)
(* its run has ahead of it.                                                *)
THEOREM LeasesOutlastQueues == Timely /\ Spec => []LeaseCoversQueue
BY OwnershipInvariant, PTL DEF OwnershipInv

(* The attempts a run decides by are the attempts of its rows. *)
THEOREM SnapshotsStayFresh == Timely /\ Spec => []SnapshotFresh
BY OwnershipInvariant, PTL DEF OwnershipInv

(* Only a POST takes a run from its turn to an answer. *)
LEMMA PostingIsSend ==
    ASSUME BasicInv, NEW w \in Worker, [Next]_vars, pc[w] = "turn", pc'[w] \in SendResult
    PROVE  Current(w) \in queue[w]
<1> USE DEF SendResult
<1> SUFFICES ASSUME Current(w) \notin queue[w] PROVE FALSE
  OBVIOUS
<1>1. ASSUME NEW v \in Worker, NEW locked \in SUBSET Due, Claim(v, locked) PROVE FALSE
  BY <1>1 DEF Claim, BasicInv, TypeOK
<1>2. ASSUME NEW v \in Worker, Load(v) PROVE FALSE
  BY <1>2 DEF Load, BasicInv, TypeOK
<1>3. ASSUME NEW v \in Worker, Turn(v) PROVE FALSE
  <2>1. ASSUME Advance(v) PROVE FALSE
    BY <2>1 DEF Advance, BasicInv, TypeOK
  <2>2. ASSUME NEW r \in SendResult, Send(v, r) PROVE FALSE
    BY <2>2 DEF Send, BasicInv, TypeOK
  <2> QED
    BY <1>3, <2>1, <2>2
       DEF Turn, DeadLetter, Unconfigured, RecordBlocked, RecordFailed, RecordSent
<1>4. ASSUME NEW v \in Worker, Abort(v) PROVE FALSE
  BY <1>4 DEF Abort, BasicInv, TypeOK
<1>5. ASSUME UNCHANGED pc PROVE FALSE
  BY <1>5
<1> QED
  BY <1>1, <1>2, <1>3, <1>4, <1>5
     DEF Next, Publish, ResendOne, ResendAllFailed, Reset, Configure, PurgeDelivered, Tick,
         vars, workerVars

(* A run only POSTs events that are still owed: not delivered, purged or   *)
(* dead-lettered since it read them.                                       *)
THEOREM SendsAreOwed == Timely /\ Spec => OnlyOwedIsSent
<1>1. ASSUME BasicInv, OwnershipInv, NEW w \in Worker, [Next]_vars,
             pc[w] = "turn", pc'[w] \in SendResult
      PROVE  Current(w) \in stored \ sentAt /\ nextRetryAt[Current(w)] # Dead
  <2>1. Current(w) \in queue[w]
    BY <1>1, PostingIsSend
  <2> QED BY <2>1, <1>1, OwnedIsLeased DEF OwnershipInv, Dead
<1>2. BasicInv /\ OwnershipInv /\ [Next]_vars =>
        [\A w \in Worker : pc[w] = "turn" /\ pc'[w] \in SendResult =>
            Current(w) \in stored \ sentAt /\ nextRetryAt[Current(w)] # Dead]_vars
  BY <1>1
<1>3. Timely /\ Spec => [](BasicInv /\ OwnershipInv)
  BY OwnershipInvariant
<1> QED BY <1>2, <1>3, PTL DEF OnlyOwedIsSent, Spec

-----------------------------------------------------------------------------
(***************************************************************************)
(* Refinement: every step of the outbox is a step of WebhookDelivery, or   *)
(* leaves the tenant's view of the events as it was.                       *)
(***************************************************************************)
(* A row that does not exist yet carries no trace of an earlier life. *)
RowsInv == /\ sentAt \subseteq stored
           /\ stored \cap purged = {}
           /\ \A e \in Event \ (stored \cup purged) : nextRetryAt[e] # Dead

RefInv == BasicInv /\ OwnershipInv /\ RowsInv

phases == [e \in Event |-> PhaseOf(e)]

(* The rows' invariant holds when there are none.                          *)
LEMMA InitRows == Init => RowsInv
BY DEF Init, RowsInv, Dead

(* Time does not revive a dead-lettered row.                               *)
LEMMA TickDead ==
    ASSUME BasicInv, Tick, NEW e \in Event
    PROVE  nextRetryAt'[e] = Dead <=> nextRetryAt[e] = Dead
<1>1. nextRetryAt[e] \in Nat \cup {Dead} /\ nextRetryAt'[e] = Down(nextRetryAt[e])
  BY DEF Tick, BasicInv, TypeOK
<1> QED BY <1>1 DEF Down, Dead

(* Every step keeps the rows' invariant.                                   *)
LEMMA NextRows == RefInv /\ [Next]_vars => RowsInv'
<1> SUFFICES ASSUME RefInv, [Next]_vars PROVE RowsInv'
  OBVIOUS
<1> USE DEF RefInv, BasicInv, TypeOK, RowsInv
<1>1. ASSUME NEW w \in Worker, NEW locked \in SUBSET Due, Claim(w, locked) PROVE RowsInv'
  BY <1>1, OutboxAssumption DEF Claim, Due, Dead
<1>2. ASSUME NEW w \in Worker, Retire(w) PROVE RowsInv'
  BY <1>2 DEF Retire, InHand, Reschedule
<1>3. ASSUME NEW w \in Worker, RecordSent(w) PROVE RowsInv'
  BY <1>3 DEF RecordSent, InHand
<1>4. ASSUME UNCHANGED rowVars PROVE RowsInv'
  BY <1>4 DEF rowVars
<1>5. ASSUME NEW w \in Worker, Turn(w) PROVE RowsInv'
  BY <1>2, <1>3, <1>4, <1>5, RetireCases DEF Turn, Send
<1>6. ASSUME NEW e \in Event, Publish(e) PROVE RowsInv'
  BY <1>6 DEF Publish
<1>7. ASSUME NEW E \in SUBSET Resendable, Reset(E) PROVE RowsInv'
  BY <1>7 DEF Reset, Resendable, Dead
<1>8. ASSUME NEW E \in SUBSET Event, PurgeDelivered(E) PROVE RowsInv'
  BY <1>8 DEF PurgeDelivered
<1>9. ASSUME Tick PROVE RowsInv'
  BY <1>9, TickDead DEF Tick
<1> QED
  BY <1>1, <1>4, <1>5, <1>6, <1>7, <1>8, <1>9
     DEF Next, Load, Abort, ResendOne, ResendAllFailed, Configure, vars

(* A step that changes no event's phase and no reception stutters. *)
LEMMA PhasesKept ==
    ASSUME \A e \in Event : PhaseOf(e)' = PhaseOf(e), UNCHANGED received
    PROVE  UNCHANGED <<phases, received>>
BY DEF phases

(* A row in the hands of a run is owed.                                    *)
LEMMA OwedInHand ==
    ASSUME RefInv, NEW w \in Worker, NEW e \in queue[w]
    PROVE  e \in Event /\ PhaseOf(e) = "owed"
<1>1. e \in stored \ sentAt /\ nextRetryAt[e] # Dead /\ e \in Event
  BY OwnedIsLeased DEF RefInv, OwnershipInv, BasicInv, TypeOK, Dead
<1> QED BY <1>1 DEF PhaseOf, RefInv, RowsInv

(* A claim is invisible to the tenant.                                     *)
LEMMA ClaimRefines ==
    ASSUME RefInv, NEW w \in Worker, NEW locked \in SUBSET Due, Claim(w, locked)
    PROVE  UNCHANGED <<phases, received>>
<1>1. UNCHANGED <<stored, purged, sentAt, received>>
  BY DEF Claim
<1>2. \A e \in Event : nextRetryAt'[e] = Dead <=> nextRetryAt[e] = Dead
  BY OutboxAssumption DEF Claim, Due, Dead
<1>3. \A e \in Event : PhaseOf(e)' = PhaseOf(e)
  BY <1>1, <1>2 DEF PhaseOf
<1> QED BY <1>1, <1>3, PhasesKept

(* A rescheduled row is abandoned, or stays owed.                          *)
LEMMA RetireRefines ==
    ASSUME RefInv, NEW w \in Worker, Retire(w)
    PROVE  \/ UNCHANGED <<phases, received>>
           \/ \E e \in Event : Delivery!Abandon(e)
<1>1. PICK e \in queue[w], tries \in 0..MaxAttempts, delay \in Nat \cup {Dead} :
        Retire(w)!(e, tries, delay)
  BY DEF Retire
<1>2. e \in Event /\ PhaseOf(e) = "owed" /\ e \in stored \ sentAt
  BY OwedInHand, OwnedIsLeased DEF RefInv, OwnershipInv
<1>3. UNCHANGED <<stored, purged, sentAt, received>>
  BY <1>1 DEF Reschedule
<1>4. nextRetryAt' = [nextRetryAt EXCEPT ![e] = delay] /\ nextRetryAt \in [Event -> Nat \cup {Dead}]
  BY <1>1 DEF Reschedule, RefInv, BasicInv, TypeOK
<1>5. \A d \in Event : d # e => PhaseOf(d)' = PhaseOf(d)
  BY <1>3, <1>4 DEF PhaseOf
<1>6. CASE delay = Dead
  <2>1. PhaseOf(e)' = "abandoned"
    BY <1>2, <1>3, <1>4, <1>6 DEF PhaseOf, RefInv, RowsInv
  <2>2. phases' = [phases EXCEPT ![e] = "abandoned"]
    BY <1>5, <2>1 DEF phases
  <2> QED BY <1>2, <1>3, <2>2 DEF Delivery!Abandon, phases
<1>7. CASE delay # Dead
  <2>1. PhaseOf(e)' = "owed"
    BY <1>2, <1>3, <1>4, <1>7 DEF PhaseOf, RefInv, RowsInv
  <2> QED BY <1>2, <1>3, <1>5, <2>1, PhasesKept
<1> QED BY <1>6, <1>7

(* A POST is a Reach, or invisible.                                        *)
LEMMA SendRefines ==
    ASSUME RefInv, NEW w \in Worker, NEW r \in SendResult, Send(w, r)
    PROVE  \/ UNCHANGED <<phases, received>>
           \/ \E e \in Event : Delivery!Reach(e)
<1>1. PICK e \in queue[w] : Send(w, r)!(e)
  BY DEF Send
<1>2. e \in Event /\ PhaseOf(e) = "owed"
  BY OwedInHand
<1>3. phases' = phases
  BY <1>1 DEF phases, PhaseOf, rowVars
<1>4. received' = received \/ received' = received \cup {e}
  BY <1>1 DEF SendResult
<1> QED BY <1>2, <1>3, <1>4 DEF Delivery!Reach, phases

(* Recording a success acknowledges the event.                             *)
LEMMA RecordSentRefines ==
    ASSUME RefInv, NEW w \in Worker, RecordSent(w)
    PROVE  \E e \in Event : Delivery!Acknowledge(e)
<1>1. PICK e \in queue[w] : RecordSent(w)!(e)
  BY DEF RecordSent
<1>2. e \in Event /\ PhaseOf(e) = "owed" /\ e \in stored \ sentAt
  BY OwedInHand, OwnedIsLeased DEF RefInv, OwnershipInv
<1>3. e \in received
  BY <1>1 DEF InHand, RefInv, BasicInv, AnsweredWasReceived
<1>4. UNCHANGED <<stored, purged, nextRetryAt, received>> /\ sentAt' = sentAt \cup {e}
  BY <1>1
<1>5. \A d \in Event : d # e => PhaseOf(d)' = PhaseOf(d)
  BY <1>4 DEF PhaseOf
<1>6. PhaseOf(e)' = "delivered"
  BY <1>2, <1>4 DEF PhaseOf, RefInv, RowsInv
<1>7. phases' = [phases EXCEPT ![e] = "delivered"]
  BY <1>5, <1>6 DEF phases
<1> QED BY <1>2, <1>3, <1>4, <1>7 DEF Delivery!Acknowledge, phases

(* A committed insert publishes the event.                                 *)
LEMMA PublishRefines ==
    ASSUME RefInv, NEW e \in Event, Publish(e)
    PROVE  Delivery!Publish(e)
<1>1. UNCHANGED <<purged, sentAt, nextRetryAt, received>> /\ stored' = stored \cup {e}
  BY DEF Publish
<1>2. \A d \in Event : d # e => PhaseOf(d)' = PhaseOf(d)
  BY <1>1 DEF PhaseOf
<1>3. PhaseOf(e) = "unpublished" /\ PhaseOf(e)' = "owed"
  BY <1>1 DEF PhaseOf, Publish, RefInv, RowsInv
<1>4. phases' = [phases EXCEPT ![e] = "owed"]
  BY <1>2, <1>3 DEF phases
<1> QED BY <1>1, <1>3, <1>4 DEF Delivery!Publish, phases

(* A resend restores abandoned events, and changes no other phase.         *)
LEMMA ResetRefines ==
    ASSUME RefInv, NEW E \in SUBSET Resendable, Reset(E)
    PROVE  \E A \in SUBSET Event : Delivery!Restore(A)
<1> DEFINE A == {e \in E : nextRetryAt[e] = Dead}
<1>1. A \in SUBSET Event /\ E \subseteq stored \ sentAt
  BY DEF Resendable, RefInv, BasicInv, TypeOK
<1>2. UNCHANGED <<stored, purged, sentAt, received>>
  BY DEF Reset
<1>3. \A e \in Event : nextRetryAt'[e] = IF e \in E THEN 0 ELSE nextRetryAt[e]
  BY DEF Reset
<1>4. \A e \in A : PhaseOf(e) = "abandoned" /\ PhaseOf(e)' = "owed"
  BY <1>1, <1>2, <1>3 DEF PhaseOf, RefInv, RowsInv, Dead
<1>5. \A e \in Event \ A : PhaseOf(e)' = PhaseOf(e)
  BY <1>1, <1>2, <1>3 DEF PhaseOf, Dead
<1>6. phases' = [e \in Event |-> IF e \in A THEN "owed" ELSE phases[e]]
  BY <1>4, <1>5 DEF phases
<1>7. Delivery!Restore(A)
  BY <1>1, <1>2, <1>4, <1>6 DEF Delivery!Restore, phases
<1> QED BY <1>1, <1>7

(* The retention job purges delivered events only.                         *)
LEMMA PurgeRefines ==
    ASSUME RefInv, NEW E \in SUBSET Event, PurgeDelivered(E)
    PROVE  Delivery!Purge(E)
<1>1. /\ UNCHANGED <<nextRetryAt, received>>
      /\ stored' = stored \ E /\ purged' = purged \cup E /\ sentAt' = sentAt \ E
      /\ E \subseteq stored \cap sentAt
  BY DEF PurgeDelivered
<1>2. \A e \in E : PhaseOf(e) = "delivered" /\ PhaseOf(e)' = "purged"
  BY <1>1 DEF PhaseOf, RefInv, RowsInv
<1>3. \A e \in Event \ E : PhaseOf(e)' = PhaseOf(e)
  BY <1>1 DEF PhaseOf
<1>4. phases' = [e \in Event |-> IF e \in E THEN "purged" ELSE phases[e]]
  BY <1>2, <1>3 DEF phases
<1> QED BY <1>1, <1>2, <1>4 DEF Delivery!Purge, phases

(* Time passing is invisible to the tenant.                                *)
LEMMA TickRefines ==
    ASSUME RefInv, Tick
    PROVE  UNCHANGED <<phases, received>>
<1>1. \A e \in Event : PhaseOf(e)' = PhaseOf(e)
  BY TickDead DEF PhaseOf, Tick, RefInv
<1> QED BY <1>1, PhasesKept DEF Tick

(* Every step of the outbox is a step of WebhookDelivery, or a stutter.    *)
LEMMA NextRefines == RefInv /\ [Next]_vars => [Delivery!Next]_<<phases, received>>
<1> SUFFICES ASSUME RefInv, [Next]_vars
             PROVE  Delivery!Next \/ UNCHANGED <<phases, received>>
  OBVIOUS
<1> DEFINE Goal == Delivery!Next \/ UNCHANGED <<phases, received>>
<1>1. ASSUME NEW w \in Worker, NEW locked \in SUBSET Due, Claim(w, locked) PROVE Goal
  BY <1>1, ClaimRefines
<1>2. ASSUME NEW w \in Worker, Turn(w) PROVE Goal
  BY <1>2, RetireCases, RetireRefines, SendRefines, RecordSentRefines
     DEF Turn, Delivery!Next, RefInv
<1>3. ASSUME UNCHANGED <<rowVars, received>> PROVE Goal
  BY <1>3 DEF rowVars, phases, PhaseOf
<1>4. ASSUME NEW e \in Event, Publish(e) PROVE Goal
  BY <1>4, PublishRefines DEF Delivery!Next
<1>5. ASSUME NEW E \in SUBSET Resendable, Reset(E) PROVE Goal
  BY <1>5, ResetRefines DEF Delivery!Next
<1>6. ASSUME NEW E \in SUBSET Event, PurgeDelivered(E) PROVE Goal
  BY <1>6, PurgeRefines DEF Delivery!Next
<1>7. ASSUME Tick PROVE Goal
  BY <1>7, TickRefines
<1> QED
  BY <1>1, <1>2, <1>3, <1>4, <1>5, <1>6, <1>7
     DEF Next, Load, Abort, ResendOne, ResendAllFailed, Configure, vars

(* The empty outbox is the initial state of WebhookDelivery.               *)
LEMMA InitRefines == Init => Delivery!Init
BY DEF Init, Delivery!Init, PhaseOf

(* While turns are timely, what the refinement rests on always holds.      *)
THEOREM RefinementInvariant == Timely /\ Spec => []RefInv
<1>1. Init => RefInv
  BY InitBasic, InitOwnership, InitRows DEF RefInv
<1>2. Timely /\ RefInv /\ [Next]_vars => RefInv'
  BY NextBasic, NextOwnership, NextRows DEF RefInv
<1>3. CASE Timely
  BY <1>1, <1>2, <1>3, PTL DEF Spec
<1>4. CASE ~Timely
  BY <1>4
<1> QED BY <1>3, <1>4

(* The outbox implements WebhookDelivery: for every number of workers,     *)
(* whatever the aborts, resends and lost answers, an event stays owed      *)
(* until its tenant has it or it is dead-lettered, only a resend brings a  *)
(* dead-lettered one back, and only delivered ones are purged.             *)
THEOREM OutboxImplementsDelivery == Timely /\ Spec => ImplementsDelivery
<1>1. Init => Delivery!Init
  BY InitRefines
<1>2. RefInv /\ [Next]_vars => [Delivery!Next]_(Delivery!vars)
  BY NextRefines DEF Delivery!vars, phases
<1>3. Timely /\ Spec => []RefInv
  BY RefinementInvariant
<1> QED BY <1>1, <1>2, <1>3, PTL DEF Spec, ImplementsDelivery, Delivery!Spec

(* A dead-lettered row comes back only through a resend. *)
THEOREM DeadLettersStay == Timely /\ Spec => OnlyResendRevives
<1> DEFINE Kept == \A e \in stored :
               nextRetryAt[e] = Dead /\ nextRetryAt'[e] # Dead => resends' = resends + 1
<1>1. ASSUME RefInv, [Next]_vars PROVE Kept
  <2> SUFFICES ASSUME NEW e \in stored, nextRetryAt[e] = Dead, nextRetryAt'[e] # Dead
               PROVE  resends' = resends + 1
    OBVIOUS
  <2>0. e \in Event /\ e \notin Due
    BY <1>1 DEF RefInv, BasicInv, TypeOK, Due, Dead
  <2>1. ASSUME NEW w \in Worker, NEW locked \in SUBSET Due, Claim(w, locked) PROVE FALSE
    BY <2>0, <2>1 DEF Claim
  <2>2. ASSUME NEW w \in Worker, Retire(w) PROVE FALSE
    <3>1. PICK d \in queue[w], tries \in 0..MaxAttempts, delay \in Nat \cup {Dead} :
            Retire(w)!(d, tries, delay)
      BY <2>2 DEF Retire
    <3>2. nextRetryAt[d] # Dead
      BY <1>1, OwnedIsLeased DEF OwnershipInv, RefInv, Dead
    <3>3. nextRetryAt' = [nextRetryAt EXCEPT ![d] = delay] /\ nextRetryAt \in [Event -> Nat \cup {Dead}]
      BY <1>1, <3>1 DEF Reschedule, RefInv, BasicInv, TypeOK
    <3> QED BY <2>0, <3>2, <3>3
  <2>3. ASSUME UNCHANGED nextRetryAt PROVE FALSE
    BY <2>3
  <2>4. ASSUME NEW w \in Worker, Turn(w) PROVE FALSE
    BY <1>1, <2>2, <2>3, <2>4, RetireCases DEF RefInv, Turn, Send, RecordSent, rowVars
  <2>5. ASSUME Tick PROVE FALSE
    BY <1>1, <2>0, <2>5, TickDead DEF RefInv
  <2> QED
    BY <1>1, <2>1, <2>3, <2>4, <2>5
       DEF Next, Load, Abort, ResendOne, ResendAllFailed, Reset, Configure, Publish,
           PurgeDelivered, vars, rowVars
<1>2. RefInv /\ [Next]_vars => [Kept]_vars
  BY <1>1
<1>3. Timely /\ Spec => []RefInv
  BY RefinementInvariant
<1> QED BY <1>2, <1>3, PTL DEF OnlyResendRevives, Spec

-----------------------------------------------------------------------------
(* Retries run out. *)

(* What a step does to the rows a run is done with, and to the attempts.   *)
Counts ==
    /\ \A w \in Worker : \A e \in queue[w] \ queue'[w] :
           \/ aborts' = aborts + 1 \/ e \in sentAt' \/ nextRetryAt'[e] = Dead
           \/ attempts'[e] = attempts[e] + 1
    /\ resends' = resends => \A e \in Event : attempts'[e] >= attempts[e]

LEMMA AttemptsKept ==
    ASSUME BasicInv, UNCHANGED attempts
    PROVE  \A e \in Event : attempts'[e] >= attempts[e]
BY OutboxAssumption DEF BasicInv, TypeOK

(* A turn ends with the row sent or dead-lettered, or with one attempt     *)
(* more: those the run had read are the row's.                             *)
LEMMA TurnCounts ==
    ASSUME BasicInv, OwnershipInv, NEW w \in Worker, Turn(w)
    PROVE  Counts
<1>1. ASSUME NEW e \in queue[w], e = Current(w), Advance(w), pc[w] # "claimed", UNCHANGED resends,
             \/ e \in sentAt' /\ UNCHANGED attempts
             \/ Reschedule(e, attempts[e], Dead)
             \/ \E delay : Reschedule(e, snapshot[w][e] + 1, delay)
      PROVE  Counts
  <2>1. e \in Event /\ snapshot[w][e] = attempts[e] /\ attempts[e] \in Nat
    BY <1>1, OutboxAssumption DEF OwnershipInv, SnapshotFresh, BasicInv, TypeOK
  <2>2. \A v \in Worker : queue[v] \ queue'[v] \subseteq {e}
    BY <1>1 DEF Advance, BasicInv, TypeOK
  <2>3. CASE e \in sentAt' /\ UNCHANGED attempts
    BY <2>2, <2>3, AttemptsKept DEF Counts
  <2>4. CASE Reschedule(e, attempts[e], Dead)
    <3>1. nextRetryAt'[e] = Dead
      BY <2>1, <2>4 DEF Reschedule, BasicInv, TypeOK
    <3>2. UNCHANGED attempts
      BY <2>1, <2>4 DEF Reschedule, BasicInv, TypeOK
    <3>. QED
      BY <2>2, <3>1, <3>2, AttemptsKept DEF Counts
  <2>5. ASSUME NEW delay, Reschedule(e, snapshot[w][e] + 1, delay) PROVE Counts
    <3>1. attempts' = [attempts EXCEPT ![e] = attempts[e] + 1]
      BY <2>1, <2>5 DEF Reschedule
    <3>2. attempts'[e] = attempts[e] + 1 /\ \A d \in Event : attempts'[d] >= attempts[d]
      BY <2>1, <3>1, OutboxAssumption DEF BasicInv, TypeOK
    <3>. QED
      BY <2>2, <3>2 DEF Counts
  <2>. QED
    BY <1>1, <2>3, <2>4, <2>5
<1>2. ASSUME NEW r \in SendResult, Send(w, r) PROVE Counts
  BY <1>2, AttemptsKept DEF Send, rowVars, Counts
<1>3. CASE DeadLetter(w)
  BY <1>1, <1>3 DEF DeadLetter, InHand
<1>4. CASE Unconfigured(w)
  BY <1>1, <1>4 DEF Unconfigured, InHand
<1>5. CASE RecordBlocked(w)
  BY <1>1, <1>5 DEF RecordBlocked, InHand
<1>6. CASE RecordFailed(w)
  BY <1>1, <1>6 DEF RecordFailed, InHand
<1>7. CASE RecordSent(w)
  BY <1>1, <1>7 DEF RecordSent, InHand
<1>. QED
  BY <1>2, <1>3, <1>4, <1>5, <1>6, <1>7 DEF Turn

LEMMA EveryStepCounts ==
    ASSUME BasicInv, OwnershipInv, [Next]_vars
    PROVE  Counts
<1>1. ASSUME NEW w \in Worker, NEW locked \in SUBSET Due, Claim(w, locked) PROVE Counts
  <2>1. queue[w] = {} /\ UNCHANGED attempts /\ \A v \in Worker \ {w} : queue'[v] = queue[v]
    BY <1>1 DEF Claim, BasicInv, IdleIsEmpty, TypeOK
  <2>. QED
    BY <2>1, AttemptsKept DEF Counts
<1>2. ASSUME NEW w \in Worker, Load(w) PROVE Counts
  <2>1. queue[w] \subseteq stored
    BY OwnedIsLeased DEF OwnershipInv
  <2>2. queue'[w] = queue[w] /\ \A v \in Worker \ {w} : queue'[v] = queue[v]
    BY <1>2, <2>1 DEF Load, BasicInv, TypeOK
  <2>. QED
    BY <1>2, <2>2, AttemptsKept DEF Load, rowVars, Counts
<1>3. ASSUME NEW w \in Worker, Turn(w) PROVE Counts
  BY <1>3, TurnCounts
<1>4. ASSUME NEW w \in Worker, Abort(w) PROVE Counts
  BY <1>4, AttemptsKept DEF Abort, rowVars, Counts
<1>5. ASSUME NEW E, Reset(E) PROVE Counts
  BY <1>5 DEF Reset, workerVars, Counts, BasicInv, TypeOK
<1>6. ASSUME UNCHANGED <<queue, attempts>> PROVE Counts
  BY <1>6, AttemptsKept DEF Counts
<1>. QED
  BY <1>1, <1>2, <1>3, <1>4, <1>5, <1>6
     DEF Next, ResendOne, ResendAllFailed, Publish, PurgeDelivered, Configure, Tick,
         vars, rowVars, workerVars

(* Each turn of a timely run that is not cut short settles its row or uses *)
(* up one of its attempts, and nothing but a resend gives any back, so     *)
(* that MAX_ATTEMPTS bounds the turns a row can have (webhooks.job.ts:153). *)
THEOREM RetriesAreBounded == Timely /\ Spec => RetriesRunOut
<1>1. BasicInv /\ OwnershipInv /\ [Next]_vars => [Counts]_vars
  BY EveryStepCounts
<1>2. Timely /\ Spec => [](BasicInv /\ OwnershipInv)
  BY OwnershipInvariant
<1>. QED
  BY <1>1, <1>2, PTL DEF RetriesRunOut, Spec, Counts
=============================================================================
