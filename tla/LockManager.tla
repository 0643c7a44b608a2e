---------------------------- MODULE LockManager ----------------------------
(***************************************************************************)
(* The S3 partition lock of src/src/compactor/lock_manager.py.             *)
(*                                                                         *)
(* A lock is one object per partition. The manager uses only plain GET,    *)
(* PUT and DELETE, so every one of those calls is an action of its own and *)
(* other managers run between any two of them. A manager is one            *)
(* LockManager instance: it has an owner_id of its own and, as its caller  *)
(* run_compaction_cycle does, it is not used again once a call has raised. *)
(*                                                                         *)
(* The managers run on several hosts, whose clocks differ: Ahead[m] is how *)
(* far m's clock is ahead of the store's, negative if it is behind. A      *)
(* manager reads its clock once per acquire (`reference` in the code).     *)
(***************************************************************************)
EXTENDS Integers, FiniteSets

CONSTANTS
    Managers,    \* LockManager instances, one per compaction run
    Partitions,  \* partition ids
    Timeout,     \* lock_timeout_seconds of each manager's configuration
    Ahead,       \* clock of each manager's host, relative to the store's
    MaxClock,    \* bound of the model: the clock stops here
    NoLock       \* what a GET of an absent lock object returns

ASSUME TimeoutAssumption == Timeout \in [Managers -> Nat \ {0}]
ASSUME AheadAssumption == Ahead \in [Managers -> Int]
ASSUME MaxClockAssumption == MaxClock \in Nat

\* The lock object. Every lease has some length.
Lock == {l \in [owner_id : Managers, acquired_at : Int, expires_at : Int] :
            l.acquired_at < l.expires_at}

ASSUME NoLockAssumption == NoLock \notin Lock

VARIABLES
    lock,       \* lock[p]: the lock object of partition p in the bucket
    clock,      \* the time, by the store's clock
    pc,         \* pc[m]: the storage call manager m makes next
    part,       \* part[m]: the partition m's call is about
    ref,        \* ref[m]: the time of m's latest acquire, by m's clock
    contested   \* ghost: managers that wrote their lock while another manager
                \* was about to write or delete the same object

vars == <<lock, clock, pc, part, ref, contested>>

\* Calls decided on an earlier GET that will now change the object blindly.
Deciding == {"cleanup_delete", "put", "release_delete"}
Acquiring == {"cleanup_get", "cleanup_delete", "get", "put"}
Releasing == {"release_get", "release_delete"}
\* From the return of acquire() = True to the return of release().
Holding == {"held"} \cup Releasing

TypeOK ==
    /\ lock \in [Partitions -> Lock \cup {NoLock}]
    /\ clock \in 0..MaxClock
    /\ pc \in [Managers -> {"idle", "ended"} \cup Acquiring \cup Holding]
    /\ part \in [Managers -> Partitions]
    /\ ref \in [Managers -> Int]
    /\ contested \in SUBSET Managers

-----------------------------------------------------------------------------

\* Wrong: the timeout is subtracted.
WrongLockOf(m) == [owner_id    |-> m,
                   acquired_at |-> ref[m],
                   expires_at  |-> ref[m] - Timeout[m]]

\* The lock m writes: its times come from the start of the acquire, not from
\* the moment of the PUT.
LockOf(m) == [owner_id    |-> m,
              acquired_at |-> ref[m],
              expires_at  |-> ref[m] + Timeout[m]]

\* Wrong: one tick too early by the reader's timeout.
WrongIsStaleEarly(m, l) ==
    \/ ref[m] >= l.expires_at
    \/ ref[m] - l.acquired_at >= Timeout[m]

\* Wrong: the expiry that the writer chose is ignored.
WrongIsStaleByAge(m, l) == ref[m] - l.acquired_at > Timeout[m]

\* The reader's own timeout counts as well as the expiry the writer chose.
IsStale(m, l) ==
    \/ ref[m] >= l.expires_at
    \/ ref[m] - l.acquired_at > Timeout[m]

Held(p) == lock[p] # NoLock

Now(m) == clock + Ahead[m]

GoTo(m, call) == pc' = [pc EXCEPT ![m] = call]

\* An exception leaves the manager: no further call is made with it.
Raise(m) == GoTo(m, "ended")

Init ==
    /\ lock = [p \in Partitions |-> NoLock]
    /\ clock = 0
    /\ pc = [m \in Managers |-> "idle"]
    /\ part \in [Managers -> Partitions]
    /\ ref = Ahead
    /\ contested = {}

-----------------------------------------------------------------------------
(* acquire(partition_id)                                                   *)

StartAcquire(m, p) ==
    /\ pc[m] = "idle"
    /\ GoTo(m, "cleanup_get")
    /\ part' = [part EXCEPT ![m] = p]
    /\ ref' = [ref EXCEPT ![m] = Now(m)]
    /\ UNCHANGED <<lock, clock, contested>>

\* cleanup_stale_lock: GET, then DELETE if what it read is stale.
CleanupGet(m) ==
    /\ pc[m] = "cleanup_get"
    /\ IF Held(part[m]) /\ IsStale(m, lock[part[m]])
       THEN GoTo(m, "cleanup_delete")
       ELSE GoTo(m, "get")
    /\ UNCHANGED <<lock, clock, part, ref, contested>>

CleanupDelete(m) ==
    /\ pc[m] = "cleanup_delete"
    /\ lock' = [lock EXCEPT ![part[m]] = NoLock]
    /\ GoTo(m, "get")
    /\ UNCHANGED <<clock, part, ref, contested>>

\* Wrong: the owner test is turned around.
WrongRefuses(m) ==
    /\ Held(part[m])
    /\ ~IsStale(m, lock[part[m]])
    /\ lock[part[m]].owner_id = m

\* The second GET finds a live lock of another owner: acquire returns False.
Refuses(m) ==
    /\ Held(part[m])
    /\ ~IsStale(m, lock[part[m]])
    /\ lock[part[m]].owner_id # m

GetRefused(m) ==
    /\ pc[m] = "get"
    /\ Refuses(m)
    /\ GoTo(m, "idle")
    /\ UNCHANGED <<lock, clock, part, ref, contested>>

GetFree(m) ==
    /\ pc[m] = "get"
    /\ ~Refuses(m)
    /\ GoTo(m, "put")
    /\ UNCHANGED <<lock, clock, part, ref, contested>>

Contenders(m) ==
    {n \in Managers \ {m} : part[n] = part[m] /\ pc[n] \in Deciding}

\* The PUT is unconditional: it replaces whatever is there by now.
Put(m) ==
    /\ pc[m] = "put"
    /\ lock' = [lock EXCEPT ![part[m]] = LockOf(m)]
    /\ GoTo(m, "held")
    /\ contested' = IF Contenders(m) = {} THEN contested \ {m}
                                          ELSE contested \cup {m}
    /\ UNCHANGED <<clock, part, ref>>

-----------------------------------------------------------------------------
(* release(partition_id): GET, then DELETE if the lock is still one's own. *)

StartRelease(m) ==
    /\ pc[m] = "held"
    /\ GoTo(m, "release_get")
    /\ UNCHANGED <<lock, clock, part, ref, contested>>

\* Wrong: whatever lock is there now is taken for one's own.
WrongReleaseGet(m) ==
    /\ pc[m] = "release_get"
    /\ IF Held(part[m]) THEN GoTo(m, "release_delete") ELSE GoTo(m, "idle")
    /\ UNCHANGED <<lock, clock, part, ref, contested>>

ReleaseGet(m) ==
    /\ pc[m] = "release_get"
    /\ IF Held(part[m]) /\ lock[part[m]].owner_id = m
       THEN GoTo(m, "release_delete")
       ELSE GoTo(m, "idle")
    /\ UNCHANGED <<lock, clock, part, ref, contested>>

ReleaseDelete(m) ==
    /\ pc[m] = "release_delete"
    /\ lock' = [lock EXCEPT ![part[m]] = NoLock]
    /\ GoTo(m, "idle")
    /\ UNCHANGED <<clock, part, ref, contested>>

-----------------------------------------------------------------------------
(* Failures                                                                *)

\* _delete_lock swallows the store's error response (a ClientError): the
\* manager goes on as if the object were gone.
DeleteRefused(m) ==
    /\ \/ pc[m] = "cleanup_delete" /\ GoTo(m, "get")
       \/ pc[m] = "release_delete" /\ GoTo(m, "idle")
    /\ UNCHANGED <<lock, clock, part, ref, contested>>

\* Any call may raise; nothing was changed in the bucket. The process dying
\* while it holds or waits for a lock is the same to the others.
CallFails(m) ==
    /\ pc[m] \notin {"idle", "ended"}
    /\ Raise(m)
    /\ UNCHANGED <<lock, clock, part, ref, contested>>

\* The PUT or DELETE took effect but its answer is lost, so the call raises.
\* After such a PUT the lock stands and nobody will release it.
AnswerLost(m) ==
    /\ pc[m] \in Deciding
    /\ lock' = [lock EXCEPT ![part[m]] =
                    IF pc[m] = "put" THEN LockOf(m) ELSE NoLock]
    /\ Raise(m)
    /\ UNCHANGED <<clock, part, ref, contested>>

Tick ==
    /\ clock < MaxClock
    /\ clock' = clock + 1
    /\ UNCHANGED <<lock, pc, part, ref, contested>>

-----------------------------------------------------------------------------

AcquireStep(m) ==
    CleanupGet(m) \/ CleanupDelete(m) \/ GetRefused(m) \/ GetFree(m) \/ Put(m)

ReleaseStep(m) == ReleaseGet(m) \/ ReleaseDelete(m)

Fault(m) == DeleteRefused(m) \/ CallFails(m) \/ AnswerLost(m)

Next ==
    \/ Tick
    \/ \E m \in Managers :
          \/ \E p \in Partitions : StartAcquire(m, p)
          \/ AcquireStep(m)
          \/ StartRelease(m)
          \/ ReleaseStep(m)
          \/ Fault(m)

Spec == Init /\ [][Next]_vars

\* Time passes, a call in progress is carried on, the work under the lock
\* ends, and a scheduler keeps starting acquires of every partition: the
\* daemon's loop and cron's --once do.
Fairness ==
    /\ WF_vars(Tick)
    /\ \A m \in Managers :
          /\ WF_vars(AcquireStep(m))
          /\ WF_vars(StartRelease(m))
          /\ WF_vars(ReleaseStep(m))
          /\ \A p \in Partitions : SF_vars(StartAcquire(m, p))

FairSpec == Spec /\ Fairness

-----------------------------------------------------------------------------
(* Properties                                                              *)

\* m's lease is in force: no manager, whatever its own clock and timeout,
\* would take m's lock for stale at the present time.
InForce(m) ==
    \A n \in Managers : /\ Now(n) < ref[m] + Timeout[m]
                        /\ Now(n) <= ref[m] + Timeout[n]

InCriticalSection(m) == pc[m] = "held"

\* What docs/ARCHITECTURE.md says of the lock: two workers never work on the
\* same partition. acquire() does not deliver it.
MutualExclusion ==
    \A m, n \in Managers :
        InCriticalSection(m) /\ InCriticalSection(n) /\ part[m] = part[n]
            => m = n

\* What acquire() does deliver: of two workers on one partition at least one
\* has outlived its lease or wrote its lock while another write or delete of
\* that lock was already under way. It rests on the two GETs of acquire, the
\* staleness test and the owner test of release together.
LeaseExclusion ==
    \A m, n \in Managers :
        (/\ InCriticalSection(m) /\ InCriticalSection(n) /\ part[m] = part[n]
         /\ InForce(m) /\ InForce(n)
         /\ m \notin contested /\ n \notin contested)
        => m = n

\* The state behind both properties: while a lock written without contention
\* is in force the bucket holds it and no other manager has a write or delete
\* of it pending, however old the GET that manager's decision came from.
LeaseInForce ==
    \A m \in Managers :
        pc[m] \in Holding /\ InForce(m) /\ m \notin contested
            => lock[part[m]] = LockOf(m) /\ Contenders(m) = {}

\* No acquire works with a time that is still to come on its host.
RefPast == \A m \in Managers : ref[m] <= Now(m)

\* A lock in force that was written without contention is in the bucket for
\* as long as its holder has not started to delete it, and only the holder
\* removes or replaces it: cleanup of stale locks and late releases of
\* earlier holders never hit it.
UncontestedNeverStolen ==
    [][\A m \in Managers :
          (/\ pc[m] \in Holding /\ InForce(m) /\ m \notin contested
           /\ lock'[part[m]] # lock[part[m]])
          => pc[m] = "release_delete" /\ pc'[m] # pc[m]]_vars

\* A lock whose owner died, or whose PUT was answered too late, does not block
\* its partition for good: once it has expired the next acquire gets past it,
\* even if deleting it fails. (Locks that expire, by somebody's clock, after
\* the model's last instant are left out, and so is the case that every
\* manager has failed.)
OrphanFreed ==
    \A p \in Partitions, m \in Managers :
        (/\ Held(p) /\ lock[p].owner_id = m /\ pc[m] = "ended"
         /\ \A n \in Managers : lock[p].expires_at <= MaxClock + Ahead[n])
        ~> (\/ ~Held(p)
            \/ Held(p) /\ lock[p].owner_id # m
            \/ \A n \in Managers : pc[n] = "ended")
=============================================================================
