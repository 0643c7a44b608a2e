---------------------------- MODULE DaemonProofs ----------------------------
(***************************************************************************)
(* The daemon's loop for every interval and every lock timeout.            *)
(***************************************************************************)
EXTENDS Daemon, TLAPS

\* Between two cycles the time that has passed and the sleep that is left make
\* up the interval, unless a signal cut the loop short.
Paced ==
    /\ at = "main" => sinceStart = Interval
    /\ at = "while" /\ _running => sinceStart = Interval
    /\ at = "sleep" => sinceStart + sleepLeft >= Interval

\* What is left of a dead lock's lease after the cycles it has blocked. Each
\* cycle in a row costs it an interval; the present one, what has passed of it.
Worn ==
    /\ at \in {"main", "down"} => blocked = 0
    /\ lease > 0 =>
          /\ tried /\ blocked > 0 => lease + (blocked - 1) * Interval + sinceStart <= LockTimeout
          /\ ~tried /\ (at = "cycle" \/ blocked > 0) =>
                lease + blocked * Interval + sinceStart <= LockTimeout
    /\ BlockedByDeadLock

\* The two halves of TypeOK: no step computes a flag, or a number from a flag.
Flags ==
    /\ args \in [mode : {"none", "once", "daemon"}, partition : BOOLEAN]
    /\ _running \in BOOLEAN /\ tried \in BOOLEAN /\ held \in BOOLEAN

Numbers ==
    /\ at \in Places
    /\ sinceStart \in 0..Interval /\ sleepLeft \in 0..Interval
    /\ lease \in 0..LockTimeout /\ blocked \in Nat

LEMMA Halves == TypeOK <=> Flags /\ Numbers
  BY Zenon DEF TypeOK, Flags, Numbers

LEMMA DaemonInit == Init => TypeOK /\ Paced /\ Worn
<1> SUFFICES ASSUME Init PROVE TypeOK /\ Paced /\ Worn
  OBVIOUS
<1>1. Flags
  BY Zenon DEF Init, Flags
<1>2. Numbers /\ Paced /\ Worn
  BY DaemonAssumption DEF Init, Numbers, Places, Paced, Worn, BlockedByDeadLock
<1> QED BY <1>1, <1>2, Halves

LEMMA FlagsStep == Flags /\ [Next]_vars => Flags'
<1> SUFFICES ASSUME Flags, [Next]_vars PROVE Flags'
  OBVIOUS
<1>1. UNCHANGED args
  BY Zenon DEF Next, main, While, BeginCycle, TryLock, EndCycle, Sleep, Wake,
         _handle_signal, Tick, Kill, Restart, vars
<1>2. _running' \in {_running, FALSE}
  BY Zenon DEF Next, main, While, BeginCycle, TryLock, EndCycle, Sleep, Wake,
         _handle_signal, Tick, Kill, Restart, vars
<1>3. tried' \in {tried, TRUE, FALSE} /\ held' \in {held, TRUE, FALSE}
  BY Zenon DEF Next, main, While, BeginCycle, TryLock, EndCycle, Sleep, Wake,
         _handle_signal, Tick, Kill, Restart, vars, lock
<1> QED BY <1>1, <1>2, <1>3 DEF Flags

LEMMA NumbersStep == Numbers /\ [Next]_vars => Numbers'
<1> SUFFICES ASSUME Numbers, [Next]_vars PROVE Numbers'
  OBVIOUS
<1> USE DaemonAssumption DEF Numbers, Places, lock
<1>1. CASE main \/ While
  BY <1>1 DEF main, While, BeginCycle
<1>2. CASE TryLock
  BY <1>2 DEF TryLock
<1>3. CASE EndCycle
  BY <1>3 DEF EndCycle
<1>4. CASE Sleep \/ Wake \/ _handle_signal
  BY <1>4 DEF Sleep, Wake, _handle_signal
<1>5. CASE Tick
  BY <1>5 DEF Tick
<1>6. CASE Kill \/ Restart
  BY <1>6 DEF Kill, Restart
<1>7. CASE UNCHANGED vars
  BY <1>7 DEF vars
<1> QED BY <1>1, <1>2, <1>3, <1>4, <1>5, <1>6, <1>7 DEF Next

LEMMA TypeStep == TypeOK /\ [Next]_vars => TypeOK'
  BY FlagsStep, NumbersStep, Halves, PTL

\* The daemon's state is well typed.
THEOREM TypeCorrect == Spec => []TypeOK
  BY DaemonInit, TypeStep, PTL DEF Spec

LEMMA PacedStep == TypeOK /\ Paced /\ [Next]_vars => Paced'
<1> SUFFICES ASSUME TypeOK, Paced, [Next]_vars PROVE Paced'
  OBVIOUS
<1> USE DaemonAssumption DEF TypeOK, Paced, lock
<1>1. CASE main \/ While \/ TryLock \/ EndCycle
  BY <1>1 DEF main, While, BeginCycle, TryLock, EndCycle
<1>2. CASE Sleep \/ Wake
  BY <1>2 DEF Sleep, Wake
<1>3. CASE _handle_signal \/ Tick
  BY <1>3 DEF _handle_signal, Tick
<1>4. CASE Kill \/ Restart
  BY <1>4 DEF Kill, Restart
<1>5. CASE UNCHANGED vars
  BY <1>5 DEF vars
<1> QED BY <1>1, <1>2, <1>3, <1>4, <1>5 DEF Next

\* Whatever a cycle takes and raises, one process begins cycles an interval apart.
THEOREM CyclesSpacedHolds == Spec => CyclesSpaced
<1>1. TypeOK /\ Paced /\ [Next]_vars => [at = "while" /\ at' = "cycle" => sinceStart = Interval]_vars
  BY DEF Paced, Next, main, While, BeginCycle, TryLock, EndCycle, Sleep, Wake,
         _handle_signal, Tick, Kill, Restart
<1> QED BY <1>1, DaemonInit, TypeStep, PacedStep, PTL DEF Spec, CyclesSpaced

LEMMA WornStep == TypeOK /\ Paced /\ Worn /\ [Next]_vars => Worn'
<1> SUFFICES ASSUME TypeOK, Paced, Worn, [Next]_vars PROVE Worn'
  OBVIOUS
<1> USE DaemonAssumption DEF TypeOK, Worn, BlockedByDeadLock, lock
\* A new cycle: the one before it has used up its interval.
<1>1. CASE main
  BY <1>1 DEF main, BeginCycle
<1>2. CASE While
  BY <1>2 DEF While, BeginCycle, Paced
\* Another cycle blocked, at its price.
<1>3. CASE TryLock
  BY <1>3 DEF TryLock
<1>4. CASE EndCycle
  <2>1. at' \in {"exited", "decide"} /\ UNCHANGED <<sinceStart, tried, blocked>>
    BY <1>4, Zenon DEF EndCycle
  <2>2. lease' \in {0, lease}
    BY <1>4, Zenon DEF EndCycle
  <2>3. CASE lease' = 0
    BY <2>1, <2>3
  <2>4. CASE lease' = lease
    BY <2>1, <2>4
  <2> QED BY <2>2, <2>3, <2>4
<1>5. CASE Sleep \/ Wake \/ _handle_signal
  BY <1>5 DEF Sleep, Wake, _handle_signal
\* The lease and the interval run at one pace.
<1>6. CASE Tick
  BY <1>6 DEF Tick
<1>7. CASE Kill
  <2>1. at' \in {"exited", "down"} /\ blocked' = 0
    BY <1>7, Zenon DEF Kill
  <2> QED BY <2>1
<1>8. CASE Restart
  BY <1>8 DEF Restart
<1>9. CASE UNCHANGED vars
  BY <1>9 DEF vars
<1> QED BY <1>1, <1>2, <1>3, <1>4, <1>5, <1>6, <1>7, <1>8, <1>9 DEF Next

\* A lock left behind blocks at most one cycle for each interval of its lease.
THEOREM BlockedByDeadLockHolds == Spec => []BlockedByDeadLock
<1>1. Worn => BlockedByDeadLock
  BY DEF Worn
<1> QED BY <1>1, DaemonInit, TypeStep, PacedStep, WornStep, PTL DEF Spec

(***************************************************************************)
(* What fairness is left to do for StopsWhenAsked                          *)
(***************************************************************************)

\* The flag is cleared only in a process that runs the loop, and by then the
\* container is not restarted any more.
AskedInLoop == ~_running => ~Once /\ at \notin {"main", "down"}

\* The longest way out for a process that was asked to stop: its statements, and
\* the time that time.sleep still takes.
WayOut ==
    CASE at = "cycle"  -> IF tried THEN 3 ELSE 4
      [] at = "decide" -> 2
      [] at = "sleep"  -> 2 + sleepLeft
      [] at = "while"  -> 1
      [] OTHER         -> 0

\* Nothing lengthens the way out, not even another signal; every statement and
\* every moment of a sleep shortens it, and what is asked stays asked.
OutOnly ==
    [][~_running =>
          /\ ~_running'
          /\ at' = "cycle" => at = "cycle"
          /\ WayOut' <= WayOut
          /\ ~(Tick \/ _handle_signal) => WayOut' < WayOut
          /\ at = "sleep" /\ sleepLeft > 0 /\ Tick => WayOut' < WayOut]_vars

LEMMA AskedStep == AskedInLoop /\ [Next]_vars => AskedInLoop'
<1> SUFFICES ASSUME AskedInLoop, [Next]_vars PROVE AskedInLoop'
  OBVIOUS
<1> USE DEF AskedInLoop, Once
<1>1. CASE main \/ While \/ TryLock \/ EndCycle
  BY <1>1, Zenon DEF main, While, BeginCycle, TryLock, EndCycle
<1>2. CASE Sleep \/ Wake \/ _handle_signal \/ Tick
  BY <1>2 DEF Sleep, Wake, _handle_signal, Tick
<1>3. CASE Kill \/ Restart
  BY <1>3 DEF Kill, Restart
<1>4. CASE UNCHANGED vars
  BY <1>4 DEF vars
<1> QED BY <1>1, <1>2, <1>3, <1>4 DEF Next

\* An asked daemon has at most four statements and one sleep ahead of it, and
\* begins no cycle. That it takes the steps is fairness.
THEOREM WayOutIsShort == Spec => [](WayOut \in 0..(Interval + 4)) /\ OutOnly
<1>1. TypeOK => WayOut \in 0..(Interval + 4)
  BY DaemonAssumption DEF TypeOK, Places, WayOut
<1>2. ASSUME TypeOK, AskedInLoop, Next, ~_running
      PROVE  /\ ~_running'
             /\ at' = "cycle" => at = "cycle"
             /\ WayOut' <= WayOut
             /\ ~(Tick \/ _handle_signal) => WayOut' < WayOut
             /\ at = "sleep" /\ sleepLeft > 0 /\ Tick => WayOut' < WayOut
  <2> USE <1>2 DEF TypeOK, AskedInLoop, WayOut, Places
  <2>1. CASE main \/ Restart
    BY <2>1 DEF main, Restart
  <2>2. CASE While
    BY <2>2 DEF While
  <2>3. CASE TryLock
    BY <2>3 DEF TryLock
  <2>4. CASE EndCycle
    BY <2>4 DEF EndCycle
  <2>5. CASE Sleep \/ Wake
    BY <2>5 DEF Sleep, Wake
  <2>6. CASE _handle_signal
    BY <2>6 DEF _handle_signal, lock, Tick
  <2>7. CASE Tick
    BY <2>7 DEF Tick
  <2>8. CASE Kill
    BY <2>8 DEF Kill
  <2> QED BY <2>1, <2>2, <2>3, <2>4, <2>5, <2>6, <2>7, <2>8 DEF Next
<1>3. Init => AskedInLoop
  BY DEF Init, AskedInLoop
<1>4. ASSUME TypeOK, AskedInLoop, [Next]_vars
      PROVE  [~_running =>
                /\ ~_running'
                /\ at' = "cycle" => at = "cycle"
                /\ WayOut' <= WayOut
                /\ ~(Tick \/ _handle_signal) => WayOut' < WayOut
                /\ at = "sleep" /\ sleepLeft > 0 /\ Tick => WayOut' < WayOut]_vars
  BY <1>2, <1>4
<1> QED BY <1>1, <1>3, <1>4, DaemonInit, TypeStep, AskedStep, PTL DEF Spec, OutOnly
=============================================================================
