------------------------- MODULE LockManagerProofs -------------------------
(***************************************************************************)
(* Proofs about LockManager, for any set of managers and partitions, any   *)
(* timeouts, any difference of their clocks and any bound of time.         *)
(***************************************************************************)
EXTENDS LockManager, TLAPS

(***************************************************************************)
(* Types                                                                   *)
(***************************************************************************)

\* The lock a manager writes is a well-formed lock object.
LEMMA LockOfType == ASSUME TypeOK, NEW m \in Managers PROVE LockOf(m) \in Lock
  BY TimeoutAssumption DEF TypeOK, LockOf, Lock

\* Every manager reads a number from its clock.
LEMMA NowType == ASSUME TypeOK, NEW m \in Managers PROVE Now(m) \in Int
  BY AheadAssumption, MaxClockAssumption DEF TypeOK, Now

LEMMA TypeInit == Init => TypeOK
  BY MaxClockAssumption, AheadAssumption DEF Init, TypeOK

LEMMA TypeStep == TypeOK /\ [Next]_vars => TypeOK'
<1> SUFFICES ASSUME TypeOK, [Next]_vars PROVE TypeOK'
  OBVIOUS
<1> USE DEF TypeOK, GoTo, Raise, Acquiring, Releasing, Holding
<1>1. CASE Tick
  BY <1>1, MaxClockAssumption DEF Tick
<1>2. ASSUME NEW m \in Managers, NEW p \in Partitions, StartAcquire(m, p)
      PROVE  TypeOK'
  BY <1>2, NowType DEF StartAcquire
<1>3. ASSUME NEW m \in Managers, AcquireStep(m) PROVE TypeOK'
  <2>1. CASE CleanupGet(m)
    BY <2>1 DEF CleanupGet
  <2>2. CASE CleanupDelete(m)
    BY <2>2 DEF CleanupDelete
  <2>3. CASE GetRefused(m)
    BY <2>3 DEF GetRefused
  <2>4. CASE GetFree(m)
    BY <2>4 DEF GetFree
  <2>5. CASE Put(m)
    BY <2>5, LockOfType DEF Put
  <2> QED BY <1>3, <2>1, <2>2, <2>3, <2>4, <2>5 DEF AcquireStep
<1>4. ASSUME NEW m \in Managers, StartRelease(m) PROVE TypeOK'
  BY <1>4 DEF StartRelease
<1>5. ASSUME NEW m \in Managers, ReleaseStep(m) PROVE TypeOK'
  <2>1. CASE ReleaseGet(m)
    BY <2>1 DEF ReleaseGet
  <2>2. CASE ReleaseDelete(m)
    BY <2>2 DEF ReleaseDelete
  <2> QED BY <1>5, <2>1, <2>2 DEF ReleaseStep
<1>6. ASSUME NEW m \in Managers, Fault(m) PROVE TypeOK'
  <2>1. CASE DeleteRefused(m)
    BY <2>1 DEF DeleteRefused
  <2>2. CASE CallFails(m)
    BY <2>2 DEF CallFails
  <2>3. CASE AnswerLost(m)
    BY <2>3, LockOfType DEF AnswerLost
  <2> QED BY <1>6, <2>1, <2>2, <2>3 DEF Fault
<1>7. CASE UNCHANGED vars
  BY <1>7 DEF vars
<1> QED BY <1>1, <1>2, <1>3, <1>4, <1>5, <1>6, <1>7 DEF Next

\* Every reachable state is well typed: whatever the store answers or loses,
\* lock objects, calls in progress and times keep their form.
THEOREM TypeCorrect == Spec => []TypeOK
  BY TypeInit, TypeStep, PTL DEF Spec

(***************************************************************************)
(* The lease                                                               *)
(***************************************************************************)

LEMMA RefPastInit == Init => RefPast
  BY AheadAssumption DEF Init, RefPast, Now

LEMMA RefPastStep == TypeOK /\ RefPast /\ [Next]_vars => RefPast'
<1> SUFFICES ASSUME TypeOK, RefPast, [Next]_vars PROVE RefPast'
  OBVIOUS
<1> USE DEF Now
<1>1. clock \in Int /\ \A m \in Managers : ref[m] \in Int /\ Ahead[m] \in Int
  BY AheadAssumption DEF TypeOK
<1>2. CASE Tick
  BY <1>1, <1>2 DEF Tick, RefPast
<1>3. ASSUME NEW m \in Managers, NEW p \in Partitions, StartAcquire(m, p)
      PROVE  RefPast'
  BY <1>1, <1>3 DEF StartAcquire, RefPast, TypeOK
<1>4. ASSUME NEW m \in Managers,
             AcquireStep(m) \/ StartRelease(m) \/ ReleaseStep(m) \/ Fault(m)
      PROVE  UNCHANGED <<clock, ref>>
  BY <1>4 DEF AcquireStep, ReleaseStep, Fault, CleanupGet, CleanupDelete,
       GetRefused, GetFree, Put, StartRelease, ReleaseGet, ReleaseDelete,
       DeleteRefused, CallFails, AnswerLost
<1>5. CASE UNCHANGED vars
  BY <1>5 DEF vars, RefPast
<1> QED BY <1>2, <1>3, <1>4, <1>5 DEF Next, RefPast

\* A lease in force is stale to nobody who could be asking now.
LEMMA InForceNotStale ==
  ASSUME TypeOK, RefPast, NEW m \in Managers, NEW k \in Managers, InForce(m)
  PROVE  ~IsStale(k, LockOf(m))
<1>1. ref[m] \in Int /\ ref[k] \in Int /\ Now(k) \in Int
      /\ Timeout[m] \in Int /\ Timeout[k] \in Int
  BY TimeoutAssumption, NowType DEF TypeOK
<1>2. ref[k] <= Now(k)
  BY DEF RefPast
<1> QED BY <1>1, <1>2 DEF InForce, IsStale, LockOf

\* A GET that sees the lock of another manager in force decides nothing.
LEMMA InForceRefuses ==
  ASSUME TypeOK, RefPast, NEW m \in Managers, NEW k \in Managers, k # m,
         InForce(m), part[k] = part[m], lock[part[m]] = LockOf(m)
  PROVE  ~IsStale(k, lock[part[k]]) /\ Refuses(k)
<1>1. LockOf(m) # NoLock
  BY LockOfType, NoLockAssumption DEF Lock
<1> QED BY <1>1, InForceNotStale DEF Refuses, Held, LockOf

\* What the steps of a manager k may do to the others, besides its own state.
LEMMA StepOfOne ==
  ASSUME TypeOK, NEW k \in Managers,
         \/ \E p \in Partitions : StartAcquire(k, p)
         \/ AcquireStep(k) \/ StartRelease(k) \/ ReleaseStep(k) \/ Fault(k)
  PROVE  /\ clock' = clock
         /\ \A m \in Managers \ {k} : /\ pc'[m] = pc[m]
                                      /\ part'[m] = part[m]
                                      /\ ref'[m] = ref[m]
                                      /\ m \in contested' <=> m \in contested
  BY DEF TypeOK, AcquireStep, ReleaseStep, Fault, StartAcquire, CleanupGet,
     CleanupDelete, GetRefused, GetFree, Put, StartRelease, ReleaseGet,
     ReleaseDelete, DeleteRefused, CallFails, AnswerLost, GoTo, Raise

\* k's step leaves the lease of every other manager m alone.
LEMMA LeaseOfOthers ==
  ASSUME TypeOK, RefPast, NEW k \in Managers, NEW m \in Managers \ {k},
         \/ \E p \in Partitions : StartAcquire(k, p)
         \/ AcquireStep(k) \/ StartRelease(k) \/ ReleaseStep(k) \/ Fault(k),
         InForce(m), lock[part[m]] = LockOf(m), Contenders(m) = {}
  PROVE  lock'[part[m]] = LockOf(m) /\ Contenders(m)' = {}
<1> USE DEF GoTo, Raise, Deciding
<1>1. part[k] = part[m] => pc[k] \notin Deciding
  BY DEF Contenders
<1>2. part[k] = part[m] => ~IsStale(k, lock[part[k]]) /\ Refuses(k)
  BY InForceRefuses
<1>3. lock'[part[m]] = lock[part[m]] /\ (part'[k] = part[m] => pc'[k] \notin Deciding)
  <2> USE <1>1, <1>2 DEF TypeOK
  <2>1. ASSUME NEW p \in Partitions, StartAcquire(k, p) PROVE <1>3
    BY <2>1 DEF StartAcquire
  <2>2. CASE CleanupGet(k)
    BY <2>2 DEF CleanupGet
  <2>3. CASE CleanupDelete(k)
    BY <2>3 DEF CleanupDelete
  <2>4. CASE GetRefused(k)
    BY <2>4 DEF GetRefused
  <2>5. CASE GetFree(k)
    BY <2>5 DEF GetFree
  <2>6. CASE Put(k)
    BY <2>6 DEF Put
  <2>7. CASE StartRelease(k)
    BY <2>7 DEF StartRelease
  <2>8. CASE ReleaseGet(k)
    BY <2>8 DEF ReleaseGet, LockOf
  <2>9. CASE ReleaseDelete(k)
    BY <2>9 DEF ReleaseDelete
  <2>10. CASE Fault(k)
    BY <2>10 DEF Fault, DeleteRefused, CallFails, AnswerLost
  <2> QED BY <2>1, <2>2, <2>3, <2>4, <2>5, <2>6, <2>7, <2>8, <2>9, <2>10
          DEF AcquireStep, ReleaseStep
<1>4. \A n \in Managers \ {m} : part'[n] = part[m] => pc'[n] \notin Deciding
  BY <1>3, StepOfOne DEF Contenders
<1>5. part'[m] = part[m]
  BY StepOfOne
<1> QED BY <1>3, <1>4, <1>5 DEF Contenders

\* Keeping a lease: the holder k itself moves on.
LEMMA LeaseOfOwn ==
  ASSUME TypeOK, LeaseInForce, NEW k \in Managers,
         \/ \E p \in Partitions : StartAcquire(k, p)
         \/ AcquireStep(k) \/ StartRelease(k) \/ ReleaseStep(k) \/ Fault(k),
         pc'[k] \in Holding, InForce(k)', k \notin contested'
  PROVE  lock'[part'[k]] = LockOf(k)' /\ Contenders(k)' = {}
<1> USE DEF GoTo, Raise, Holding, Releasing
<1>1. \A n \in Managers \ {k} : pc'[n] = pc[n] /\ part'[n] = part[n]
  BY StepOfOne
<1>2. CASE Put(k)
  <2>1. Contenders(k) = {} /\ part' = part /\ ref' = ref
    BY <1>2 DEF Put, TypeOK
  <2>2. Contenders(k)' = Contenders(k)
    BY <1>1, <2>1 DEF Contenders
  <2>3. lock'[part[k]] = LockOf(k)
    BY <1>2 DEF Put, TypeOK
  <2> QED BY <2>1, <2>2, <2>3 DEF LockOf
<1>3. CASE StartRelease(k) \/ ReleaseGet(k)
  <2>1. /\ pc[k] \in Holding
        /\ UNCHANGED <<lock, clock, part, ref, contested>>
    BY <1>3 DEF StartRelease, ReleaseGet
  <2>2. InForce(k)
    BY <2>1 DEF InForce, Now
  <2>3. lock[part[k]] = LockOf(k) /\ Contenders(k) = {}
    BY <2>1, <2>2 DEF LeaseInForce
  <2>4. Contenders(k)' = Contenders(k)
    BY <1>1, <2>1 DEF Contenders
  <2> QED BY <2>1, <2>3, <2>4 DEF LockOf
<1>4. Put(k) \/ StartRelease(k) \/ ReleaseGet(k)
  BY DEF AcquireStep, ReleaseStep, Fault, StartAcquire, CleanupGet,
     CleanupDelete, GetRefused, GetFree, ReleaseDelete, DeleteRefused,
     CallFails, AnswerLost, TypeOK
<1> QED BY <1>2, <1>3, <1>4

LEMMA LeaseInit == Init => LeaseInForce
  BY DEF Init, LeaseInForce, Holding, Releasing

LEMMA LeaseStep == TypeOK /\ RefPast /\ LeaseInForce /\ [Next]_vars => LeaseInForce'
<1> SUFFICES ASSUME TypeOK, RefPast, LeaseInForce, [Next]_vars,
                    NEW m \in Managers,
                    pc'[m] \in Holding, InForce(m)', m \notin contested'
             PROVE  lock'[part'[m]] = LockOf(m)' /\ Contenders(m)' = {}
  BY DEF LeaseInForce
<1>1. CASE Tick \/ UNCHANGED vars
  <2>1. UNCHANGED <<lock, pc, part, ref, contested>> /\ clock' \in Int /\ clock <= clock'
    BY <1>1 DEF Tick, vars, TypeOK
  <2>2. InForce(m)
    <3>1. /\ clock \in Int /\ ref[m] \in Int
          /\ \A n \in Managers : Timeout[n] \in Int /\ Ahead[n] \in Int
      BY TimeoutAssumption, AheadAssumption DEF TypeOK
    <3>2. \A n \in Managers : /\ clock' + Ahead[n] < ref[m] + Timeout[m]
                              /\ clock' + Ahead[n] <= ref[m] + Timeout[n]
      BY <2>1 DEF InForce, Now
    <3> QED BY <2>1, <3>1, <3>2 DEF InForce, Now
  <2>3. lock[part[m]] = LockOf(m) /\ Contenders(m) = {}
    BY <2>1, <2>2 DEF LeaseInForce
  <2> QED BY <2>1, <2>3 DEF LockOf, Contenders
<1>2. ASSUME NEW k \in Managers,
             \/ \E p \in Partitions : StartAcquire(k, p)
             \/ AcquireStep(k) \/ StartRelease(k) \/ ReleaseStep(k) \/ Fault(k)
      PROVE  lock'[part'[m]] = LockOf(m)' /\ Contenders(m)' = {}
  <2>1. CASE k = m
    BY <1>2, <2>1, LeaseOfOwn
  <2>2. CASE k # m
    <3>1. /\ clock' = clock /\ pc'[m] = pc[m] /\ part'[m] = part[m]
          /\ ref'[m] = ref[m] /\ m \notin contested
      BY <1>2, <2>2, StepOfOne
    <3>2. InForce(m)
      BY <3>1 DEF InForce, Now
    <3>3. lock[part[m]] = LockOf(m) /\ Contenders(m) = {}
      BY <3>1, <3>2 DEF LeaseInForce
    <3>4. lock'[part[m]] = LockOf(m) /\ Contenders(m)' = {}
      BY <1>2, <2>2, <3>2, <3>3, LeaseOfOthers
    <3> QED BY <3>1, <3>4 DEF LockOf
  <2> QED BY <2>1, <2>2
<1> QED BY <1>1, <1>2 DEF Next

IInv == TypeOK /\ RefPast /\ LeaseInForce

\* The inductive invariant: besides the types, no acquire works with a future
\* time, and a lease in force is in the bucket with nothing pending against it.
LEMMA IInvInvariant == Spec => []IInv
<1>1. Init => IInv
  BY TypeInit, RefPastInit, LeaseInit DEF IInv
<1>2. IInv /\ [Next]_vars => IInv'
  BY TypeStep, RefPastStep, LeaseStep DEF IInv
<1> QED BY <1>1, <1>2, PTL DEF Spec

\* While a lock that was written without contention is in force, the bucket
\* holds it and nobody else has a write or a delete of it pending.
THEOREM LeaseInForceHolds == Spec => []LeaseInForce
<1>1. IInv => LeaseInForce
  BY DEF IInv
<1> QED BY <1>1, IInvInvariant, PTL

\* Two workers are on one partition at once only if one of them has outlived
\* its lease or got its lock in a race of unconditional writes.
THEOREM LeaseExclusionHolds == Spec => []LeaseExclusion
<1>1. IInv => LeaseExclusion
  <2> SUFFICES ASSUME IInv, NEW m \in Managers, NEW n \in Managers,
                      pc[m] = "held", pc[n] = "held", part[m] = part[n],
                      InForce(m), InForce(n), m \notin contested, n \notin contested
               PROVE  m = n
    BY DEF LeaseExclusion, InCriticalSection
  <2>1. lock[part[m]] = LockOf(m) /\ lock[part[n]] = LockOf(n)
    BY DEF IInv, LeaseInForce, Holding
  <2> QED BY <2>1 DEF LockOf
<1> QED BY <1>1, IInvInvariant, PTL

\* Only its holder takes a lock in force away: neither the cleanup of stale
\* locks nor another holder's late release removes or replaces it.
THEOREM UncontestedNeverStolenHolds == Spec => UncontestedNeverStolen
<1> DEFINE Kept ==
      \A m \in Managers :
          (/\ pc[m] \in Holding /\ InForce(m) /\ m \notin contested
           /\ lock'[part[m]] # lock[part[m]])
          => pc[m] = "release_delete" /\ pc'[m] # pc[m]
<1>1. IInv /\ [Next]_vars => [Kept]_vars
  <2> SUFFICES ASSUME IInv, [Next]_vars, NEW m \in Managers,
                      pc[m] \in Holding, InForce(m), m \notin contested,
                      lock'[part[m]] # lock[part[m]]
               PROVE  pc[m] = "release_delete" /\ pc'[m] # pc[m]
    OBVIOUS
  <2>1. lock[part[m]] = LockOf(m) /\ Contenders(m) = {}
    BY DEF IInv, LeaseInForce
  <2>2. ~(Tick \/ UNCHANGED vars)
    BY DEF Tick, vars
  <2>3. PICK k \in Managers :
             \/ \E p \in Partitions : StartAcquire(k, p)
             \/ AcquireStep(k) \/ StartRelease(k) \/ ReleaseStep(k) \/ Fault(k)
    BY <2>2 DEF Next
  <2>4. k = m
    BY <2>1, <2>3, LeaseOfOthers DEF IInv
  <2>5. ReleaseDelete(m) \/ AnswerLost(m)
    BY <2>3, <2>4 DEF AcquireStep, ReleaseStep, Fault, StartAcquire, CleanupGet,
       CleanupDelete, GetRefused, GetFree, Put, StartRelease, ReleaseGet,
       DeleteRefused, CallFails, Holding, Releasing
  <2> QED BY <2>5 DEF ReleaseDelete, AnswerLost, Deciding, Holding, Releasing,
          GoTo, Raise, IInv, TypeOK
<1> QED BY <1>1, IInvInvariant, PTL DEF Spec, UncontestedNeverStolen

(***************************************************************************)
(* What fairness is left to do for OrphanFreed                             *)
(***************************************************************************)

\* A lock in the bucket is dated by a reading that its owner's clock has passed,
\* and lasts as long as the owner's timeout says.
Dated ==
    \A p \in Partitions : Held(p) =>
        LET l == lock[p]
        IN  /\ l.acquired_at <= Now(l.owner_id)
            /\ l.expires_at = l.acquired_at + Timeout[l.owner_id]

LEMMA DatedStep == TypeOK /\ RefPast /\ Dated /\ [Next]_vars => Dated'
<1> SUFFICES ASSUME TypeOK, RefPast, Dated, [Next]_vars, NEW p \in Partitions, Held(p)'
             PROVE  /\ lock'[p].acquired_at <= Now(lock[p].owner_id)'
                    /\ lock'[p].expires_at = lock'[p].acquired_at + Timeout[lock'[p].owner_id]
  BY DEF Dated
<1>1. /\ clock \in Int /\ clock' \in Int /\ clock <= clock'
      /\ \A m \in Managers : ref[m] \in Int /\ Ahead[m] \in Int
  <2>1. TypeOK'
    BY TypeStep
  <2>2. clock' = clock \/ clock' = clock + 1
    BY DEF Next, Tick, AcquireStep, ReleaseStep, Fault, StartAcquire, CleanupGet, CleanupDelete,
       GetRefused, GetFree, Put, StartRelease, ReleaseGet, ReleaseDelete, DeleteRefused,
       CallFails, AnswerLost, vars
  <2> QED BY <2>1, <2>2, AheadAssumption, MaxClockAssumption DEF TypeOK
<1>2. CASE lock'[p] = lock[p]
  <2>1. Held(p) /\ lock[p] \in Lock
    BY <1>2 DEF Held, TypeOK
  <2>2. lock[p].owner_id \in Managers /\ lock[p].acquired_at \in Int
    BY <2>1 DEF Lock
  <2> QED BY <1>1, <1>2, <2>1, <2>2 DEF Dated, Now
<1>3. ASSUME NEW k \in Managers, lock'[p] = LockOf(k), clock' = clock
      PROVE  /\ lock'[p].acquired_at <= Now(lock[p].owner_id)'
             /\ lock'[p].expires_at = lock'[p].acquired_at + Timeout[lock'[p].owner_id]
  BY <1>1, <1>3 DEF LockOf, RefPast, Now
<1>4. lock'[p] = lock[p] \/ \E k \in Managers : lock'[p] = LockOf(k) /\ clock' = clock
  BY DEF Held, TypeOK, Next, Tick, AcquireStep, ReleaseStep, Fault, StartAcquire, CleanupGet,
     CleanupDelete, GetRefused, GetFree, Put, StartRelease, ReleaseGet, ReleaseDelete,
     DeleteRefused, CallFails, AnswerLost, vars
<1> QED BY <1>2, <1>3, <1>4

\* The owner of the lock on p, m, makes no call any more.
Orphaned(p, m) == Held(p) /\ lock[p].owner_id = m /\ pc[m] = "ended"

\* An orphaned lock is not renewed, expires within its owner's timeout from now,
\* and refuses only managers whose acquire began before it expired and no more
\* than their own timeout after it was taken.
OrphanWearsOff ==
    [][\A p \in Partitions, m \in Managers : Orphaned(p, m) =>
          /\ Orphaned(p, m)' => lock'[p] = lock[p]
          /\ lock[p].expires_at <= Now(m) + Timeout[m]
          /\ \A k \in Managers : GetRefused(k) /\ part[k] = p =>
                /\ ref[k] < lock[p].acquired_at + Timeout[m]
                /\ ref[k] <= lock[p].acquired_at + Timeout[k]]_vars

\* So nothing but time and another acquire is needed to free a partition whose
\* worker died: that they come is fairness.
THEOREM OrphanWearsOffHolds == Spec => OrphanWearsOff
<1>1. ASSUME TypeOK, Dated, Next, NEW p \in Partitions, NEW m \in Managers, Orphaned(p, m)
      PROVE  /\ Orphaned(p, m)' => lock'[p] = lock[p]
             /\ lock[p].expires_at <= Now(m) + Timeout[m]
             /\ \A k \in Managers : GetRefused(k) /\ part[k] = p =>
                   /\ ref[k] < lock[p].acquired_at + Timeout[m]
                   /\ ref[k] <= lock[p].acquired_at + Timeout[k]
  <2>1. /\ lock[p].acquired_at \in Int /\ lock[p].acquired_at <= Now(m) /\ Now(m) \in Int
        /\ lock[p].expires_at = lock[p].acquired_at + Timeout[m]
    BY <1>1, NowType DEF Orphaned, Held, Dated, TypeOK, Lock
  <2>2. \A k \in Managers : Timeout[k] \in Int /\ ref[k] \in Int
    BY <1>1, TimeoutAssumption DEF TypeOK
  <2>3. ASSUME Orphaned(p, m)' PROVE lock'[p] = lock[p]
    <3>1. \A k \in Managers : lock'[p] = LockOf(k) => lock[p].owner_id = m /\ k = m
      BY <1>1, <2>3 DEF Orphaned, LockOf
    <3>2. ~Put(m) /\ ~AnswerLost(m)
      BY <1>1 DEF Orphaned, Put, AnswerLost, Deciding
    <3>3. lock'[p] # NoLock
      BY <2>3 DEF Orphaned, Held
    <3>4. \A k \in Managers :
             AnswerLost(k) => lock'[p] = lock[p] \/ lock'[p] = NoLock \/ lock'[p] = LockOf(k)
      BY <1>1 DEF AnswerLost, TypeOK
    <3>5. \A k \in Managers : Put(k) => lock'[p] = lock[p] \/ lock'[p] = LockOf(k)
      BY <1>1 DEF Put, TypeOK
    <3>6. \A k \in Managers :
             CleanupDelete(k) \/ ReleaseDelete(k) => lock'[p] = lock[p] \/ lock'[p] = NoLock
      BY <1>1 DEF CleanupDelete, ReleaseDelete, TypeOK
    <3>7. lock' = lock \/ \E k \in Managers :
             Put(k) \/ AnswerLost(k) \/ CleanupDelete(k) \/ ReleaseDelete(k)
      BY <1>1 DEF Next, Tick, AcquireStep, ReleaseStep, Fault, StartAcquire, CleanupGet,
         GetRefused, GetFree, StartRelease, ReleaseGet, DeleteRefused, CallFails
    <3> QED BY <3>1, <3>2, <3>3, <3>4, <3>5, <3>6, <3>7
  <2>4. ASSUME NEW k \in Managers, GetRefused(k), part[k] = p
        PROVE  ref[k] < lock[p].acquired_at + Timeout[m] /\ ref[k] <= lock[p].acquired_at + Timeout[k]
    BY <2>1, <2>2, <2>4 DEF GetRefused, Refuses, IsStale
  <2>5. lock[p].expires_at <= Now(m) + Timeout[m]
    BY <2>1, <2>2
  <2> QED BY <2>3, <2>4, <2>5
<1>2. ASSUME TypeOK, Dated, [Next]_vars
      PROVE  [\A p \in Partitions, m \in Managers : Orphaned(p, m) =>
                 /\ Orphaned(p, m)' => lock'[p] = lock[p]
                 /\ lock[p].expires_at <= Now(m) + Timeout[m]
                 /\ \A k \in Managers : GetRefused(k) /\ part[k] = p =>
                       /\ ref[k] < lock[p].acquired_at + Timeout[m]
                       /\ ref[k] <= lock[p].acquired_at + Timeout[k]]_vars
  BY <1>1, <1>2
<1>3. Init => Dated
  BY DEF Init, Dated, Held
<1>4. IInv /\ Dated /\ [Next]_vars => Dated'
  BY DatedStep DEF IInv
<1>5. IInv => TypeOK
  BY DEF IInv
<1> QED BY <1>2, <1>3, <1>4, <1>5, IInvInvariant, PTL DEF Spec, OrphanWearsOff
=============================================================================
