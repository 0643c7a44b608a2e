------------------------------- MODULE Daemon -------------------------------
(***************************************************************************)
(* main and run_daemon of src/src/compactor/compaction_daemon.py: which    *)
(* mode runs, the loop of compaction cycles, and what its lock on one      *)
(* partition means for the cycles after a kill. A cycle itself is          *)
(* CompactionRun's; here it may try the lock, and it ends by a return or by *)
(* an exception. Times are counted down, or up to Interval, so that time   *)
(* has no end in the model.                                                *)
(***************************************************************************)
EXTENDS Integers

CONSTANTS
    Interval,      \* compaction_interval_seconds
    LockTimeout    \* lock_timeout_seconds

ASSUME DaemonAssumption ==
    /\ Interval \in Nat \ {0}
    /\ LockTimeout \in Nat

VARIABLES
    args,        \* the command line
    _running,    \* the flag the signal handler clears
    at,          \* where the process is
    sinceStart,  \* time since the last cycle began, at most Interval
    sleepLeft,   \* rest of time.sleep
    tried,       \* the cycle asked for the partition's lock
    held,        \* and has it
    lease,       \* time until the lock object expires, whoever wrote it
    blocked      \* cycles of this process in a row that found it locked

lock == <<tried, held, lease, blocked>>
vars == <<args, _running, at, sinceStart, sleepLeft, lock>>

Places == {"main", "while", "cycle", "decide", "sleep", "down", "exited"}

TypeOK ==
    /\ args \in [mode : {"none", "once", "daemon"}, partition : BOOLEAN]
    /\ _running \in BOOLEAN /\ tried \in BOOLEAN /\ held \in BOOLEAN
    /\ at \in Places
    /\ sinceStart \in 0..Interval /\ sleepLeft \in 0..Interval
    /\ lease \in 0..LockTimeout /\ blocked \in Nat

Init ==
    /\ args \in [mode : {"none", "once", "daemon"}, partition : BOOLEAN]
    /\ _running = TRUE
    /\ at = "main"
    /\ sinceStart = Interval /\ sleepLeft = 0
    /\ tried = FALSE /\ held = FALSE /\ lease = 0 /\ blocked = 0

\* One cycle and exit: a partition is enough to ask for it, even next to
\* --daemon. The signal handler is then never installed.
Once == args.mode = "once" \/ args.partition

BeginCycle ==
    /\ at' = "cycle"
    /\ sinceStart' = 0
    /\ tried' = FALSE
    /\ UNCHANGED <<args, _running, sleepLeft, held, lease, blocked>>

main ==
    /\ at = "main"
    /\ \/ Once /\ BeginCycle
       \/ ~Once /\ at' = "while" /\ UNCHANGED <<args, _running, sinceStart, sleepLeft, lock>>

\* Wrong: while True.
WrongWhile ==
    /\ at = "while"
    /\ BeginCycle

While ==
    /\ at = "while"
    /\ \/ _running /\ BeginCycle
       \/ /\ ~_running
          /\ at' = "exited"
          /\ UNCHANGED <<args, _running, sinceStart, sleepLeft, lock>>

\* Wrong: the lock is written before the old one is looked at.
WrongTryLock ==
    /\ at = "cycle" /\ ~tried
    /\ tried' = TRUE
    /\ lease' = LockTimeout
    /\ \/ lease = 0 /\ held' = TRUE /\ blocked' = 0
       \/ lease > 0 /\ blocked' = (IF blocked < LockTimeout + 2 THEN blocked + 1 ELSE blocked)
                   /\ UNCHANGED held
    /\ UNCHANGED <<args, _running, at, sinceStart, sleepLeft>>

\* LockManager.acquire on one partition: refused while the object found is not expired.
TryLock ==
    /\ at = "cycle" /\ ~tried
    /\ tried' = TRUE
    /\ \/ lease = 0 /\ held' = TRUE /\ lease' = LockTimeout /\ blocked' = 0
       \/ lease > 0 /\ blocked' = blocked + 1 /\ UNCHANGED <<held, lease>>
    /\ UNCHANGED <<args, _running, at, sinceStart, sleepLeft>>

\* An exception is caught in the loop and ends the process in --once; either
\* way the finally clause gives the lock back, unless the store fails then.
EndCycle ==
    /\ at = "cycle"
    /\ at' = IF Once THEN "exited" ELSE "decide"
    /\ held' = FALSE
    /\ lease' \in IF held THEN {0, lease} ELSE {lease}
    /\ UNCHANGED <<args, _running, sinceStart, sleepLeft, tried, blocked>>

\* Wrong: what the cycle took is not deducted, but what is left is slept off.
WrongSleep ==
    /\ at = "decide"
    /\ IF _running /\ sinceStart > 0
       THEN at' = "sleep" /\ sleepLeft' = sinceStart
       ELSE at' = "while" /\ UNCHANGED sleepLeft
    /\ UNCHANGED <<args, _running, sinceStart, lock>>

\* Wrong: what the cycle took is added.
WrongSleepAdds ==
    /\ at = "decide"
    /\ IF _running /\ sinceStart < Interval
       THEN at' = "sleep" /\ sleepLeft' = Interval + sinceStart
       ELSE at' = "while" /\ UNCHANGED sleepLeft
    /\ UNCHANGED <<args, _running, sinceStart, lock>>

\* sleep_for = max(0, interval - elapsed)
Sleep ==
    /\ at = "decide"
    /\ IF _running /\ sinceStart < Interval
       THEN at' = "sleep" /\ sleepLeft' = Interval - sinceStart
       ELSE at' = "while" /\ UNCHANGED sleepLeft
    /\ UNCHANGED <<args, _running, sinceStart, lock>>

\* time.sleep is resumed after a signal handler returned.
Wake ==
    /\ at = "sleep" /\ sleepLeft = 0
    /\ at' = "while"
    /\ UNCHANGED <<args, _running, sinceStart, sleepLeft, lock>>

_handle_signal ==
    /\ at \in {"while", "cycle", "decide", "sleep"} /\ ~Once
    /\ _running' = FALSE
    /\ UNCHANGED <<args, at, sinceStart, sleepLeft, lock>>

-----------------------------------------------------------------------------
(* The environment                                                         *)

\* Between two statements of the loop no time passes.
Tick ==
    /\ at \in {"cycle", "sleep", "down"}
    /\ sinceStart' = IF sinceStart < Interval THEN sinceStart + 1 ELSE Interval
    /\ sleepLeft' = IF sleepLeft > 0 THEN sleepLeft - 1 ELSE 0
    /\ lease' = IF lease > 0 THEN lease - 1 ELSE 0
    /\ UNCHANGED <<args, _running, at, tried, held, blocked>>

\* The process dies anywhere; its lock object stays. A container that was asked
\* to stop is not restarted (restart: unless-stopped), nor is a --once run.
Kill ==
    /\ at \notin {"down", "exited"}
    /\ at' = IF _running /\ ~Once THEN "down" ELSE "exited"
    /\ held' = FALSE /\ sleepLeft' = 0 /\ blocked' = 0
    /\ UNCHANGED <<args, _running, sinceStart, tried, lease>>

Restart ==
    /\ at = "down"
    /\ at' = "main"
    /\ sinceStart' = Interval
    /\ UNCHANGED <<args, _running, sleepLeft, lock>>

Next ==
    \/ main \/ While \/ TryLock \/ EndCycle \/ Sleep \/ Wake
    \/ _handle_signal \/ Tick \/ Kill \/ Restart

\* Statements are executed, every cycle ends, time goes on, and Docker restarts
\* the container. A cycle may fail before its lock, but not each and every one.
Fairness ==
    /\ WF_vars(main \/ While \/ EndCycle \/ Sleep \/ Wake)
    /\ WF_vars(Tick)
    /\ WF_vars(Restart)
    /\ SF_vars(TryLock)

Spec == Init /\ [][Next]_vars /\ Fairness

-----------------------------------------------------------------------------
(* Properties                                                              *)

\* However long cycles take and whatever they raise, one process begins them at
\* least Interval apart. (A restarted process begins one at once.)
CyclesSpaced ==
    [][at = "while" /\ at' = "cycle" => sinceStart = Interval]_vars

\* A kill, or a release that failed, leaves a lock behind. It costs the partition
\* at most one cycle for each interval, begun or complete, of the lock's lease,
\* however early or late in a cycle the lock is asked for.
BlockedByDeadLock == blocked > 0 => (blocked - 1) * Interval < LockTimeout

\* The daemon goes on compacting, through exceptions and kills, unless it is
\* asked to stop or killed for ever: no lock is lost for good.
LockComesBack ==
    ~Once => []<>held \/ <>(~_running) \/ []<>(at = "down")

\* An asked daemon stops, wherever the signal met it.
StopsWhenAsked == ~_running ~> at = "exited"
=============================================================================
