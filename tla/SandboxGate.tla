----------------------------- MODULE SandboxGate -----------------------------
(***************************************************************************)
(* The gate of execute_sandboxed_query, for one connection: a permit, the  *)
(* two rate limits, the circuit breaker, and the report to it.             *)
(*                                                                         *)
(* Each check reads the time, then waits for a lock and acts on what it    *)
(* read.  Time is counted in ticks; the code does not bound the wait for a *)
(* lock, and here it is at most MaxWait ticks, whatever that is.           *)
(***************************************************************************)
EXTENDS Integers, Sequences, FiniteSets

CONSTANTS
  Executions,     \* calls of execute_sandboxed_query on the connection
  Fingerprints,   \* of their statements
  None,
  Slots,          \* SANDBOX_MAX_CONCURRENCY
  PerMinute, Minute, PerSecond, Second,   \* the limits and their windows
  Threshold,      \* SANDBOX_BREAKER_FAILURE_THRESHOLD
  FailureWindow,  \* SANDBOX_BREAKER_FAILURE_WINDOW
  OpenFor,        \* SANDBOX_BREAKER_OPEN_DURATION
  MaxWait,        \* bound: ticks that a lock is waited for
  MaxTime         \* bound: ticks

Natural == Nat \ {0}

ASSUME GateConstants ==
  /\ None \notin Executions \cup Fingerprints \cup Nat
  /\ {Slots, PerMinute, Minute, PerSecond, Second} \subseteq Natural
  /\ {Threshold, FailureWindow, OpenFor} \subseteq Natural
  /\ {MaxTime, MaxWait} \subseteq Nat

VARIABLES
  clock,
  pc,       \* the check each execution has reached
  now,      \* the time its check has read
  minute,   \* per_minute: when each execution was counted, or None
  second,   \* per_second, likewise
  breaker,  \* the connection's BreakerEntry; an entry of zeros is none
  probe,    \* history: the execution whose report is the probe's
  passed,   \* history: when each execution passed the limits, or None
  recent    \* history: the last failures reported since a success

limits == <<minute, second, passed>>
breakers == <<breaker, probe, recent>>
vars == <<clock, pc, now, limits, breakers>>

Instant == 0 .. MaxTime
Reading == {"minute", "second", "breaker", "failing"}  \* a time was read for the lock
Admitted == {"running", "failing", "succeeding"}       \* past the breaker
Holding == Reading \cup Admitted                       \* an execution permit

BreakerEntry ==
  [failures : Nat, identical : Nat, print : Fingerprints \cup {None},
   last : Instant \cup {None}, until : Nat \cup {None}, probing : BOOLEAN]

NoEntry == [failures |-> 0, identical |-> 0, print |-> None, last |-> None,
            until |-> None, probing |-> FALSE]

TypeOK ==
  /\ clock \in Instant
  /\ pc \in [Executions -> {"new", "done"} \cup Holding]
  /\ now \in [Executions -> Instant]
  /\ minute \in [Executions -> Instant \cup {None}]
  /\ second \in [Executions -> Instant \cup {None}]
  /\ breaker \in BreakerEntry
  /\ probe \in Executions \cup {None}
  /\ passed \in [Executions -> Instant \cup {None}]
  /\ recent \in Seq(Instant)
  /\ breaker.probing => breaker.until # None

Init ==
  /\ clock = 0
  /\ pc = [e \in Executions |-> "new"]
  /\ now = [e \in Executions |-> 0]
  /\ minute = [e \in Executions |-> None]
  /\ second = [e \in Executions |-> None]
  /\ breaker = NoEntry
  /\ probe = None
  /\ passed = [e \in Executions |-> None]
  /\ recent = <<>>

Goto(e, check) == pc' = [pc EXCEPT ![e] = check]
ReadsTime(e) == now' = [now EXCEPT ![e] = clock]
ForgetsTime(e) == now' = [now EXCEPT ![e] = 0]

\* Instant::duration_since saturates.
Since(t, u) == IF t >= u THEN t - u ELSE 0

-----------------------------------------------------------------------------
\* A permit is free. The first check reads the time without an await in between.
AcquireSlot(e) ==
  /\ pc[e] = "new"
  /\ Cardinality({f \in Executions : pc[f] \in Holding}) < Slots
  /\ Goto(e, "minute")
  /\ ReadsTime(e)
  /\ UNCHANGED <<clock, limits, breakers>>

(***************************************************************************)
(* SlidingWindowRateLimiter::check, twice.                                 *)
(***************************************************************************)
Retained(attempts, t, window) ==
  [e \in Executions |->
     IF attempts[e] # None /\ Since(t, attempts[e]) < window THEN attempts[e] ELSE None]

Count(attempts) == Cardinality({e \in Executions : attempts[e] # None})

\* An attempt the minute has no room for returns its permit.
MinuteDenies(e) ==
  /\ pc[e] = "minute"
  /\ minute' = Retained(minute, now[e], Minute)
  /\ Count(minute') >= PerMinute
  /\ Goto(e, "done")
  /\ ForgetsTime(e)
  /\ UNCHANGED <<clock, second, passed, breakers>>

\* One it has room for is counted, and the second's check reads the time.
MinuteCounts(e) ==
  /\ pc[e] = "minute"
  /\ LET kept == Retained(minute, now[e], Minute) IN
       /\ Count(kept) < PerMinute
       /\ minute' = [kept EXCEPT ![e] = now[e]]
  /\ Goto(e, "second")
  /\ ReadsTime(e)
  /\ UNCHANGED <<clock, second, passed, breakers>>

SecondDenies(e) ==
  /\ pc[e] = "second"
  /\ second' = Retained(second, now[e], Second)
  /\ Count(second') >= PerSecond
  /\ Goto(e, "done")
  /\ ForgetsTime(e)
  /\ UNCHANGED <<clock, minute, passed, breakers>>

\* Mutant of SecondCounts: an off-by-one.
SecondCountsOneMore(e) ==
  /\ pc[e] = "second"
  /\ LET kept == Retained(second, now[e], Second) IN
       /\ Count(kept) <= PerSecond
       /\ second' = [kept EXCEPT ![e] = now[e]]
  /\ passed' = [passed EXCEPT ![e] = clock]
  /\ Goto(e, "breaker")
  /\ ReadsTime(e)
  /\ UNCHANGED <<clock, minute, breakers>>

SecondCounts(e) ==
  /\ pc[e] = "second"
  /\ LET kept == Retained(second, now[e], Second) IN
       /\ Count(kept) < PerSecond
       /\ second' = [kept EXCEPT ![e] = now[e]]
  /\ passed' = [passed EXCEPT ![e] = clock]
  /\ Goto(e, "breaker")
  /\ ReadsTime(e)
  /\ UNCHANGED <<clock, minute, breakers>>

(***************************************************************************)
(* check_breaker.                                                          *)
(***************************************************************************)
BreakerCloses(e) ==
  /\ pc[e] = "breaker"
  /\ breaker.until # None
  /\ now[e] < breaker.until \/ breaker.probing
  /\ Goto(e, "done")
  /\ ForgetsTime(e)
  /\ UNCHANGED <<clock, limits, breakers>>

BreakerAdmits(e) ==
  /\ pc[e] = "breaker"
  /\ breaker.until = None
  /\ Goto(e, "running")
  /\ ForgetsTime(e)
  /\ UNCHANGED <<clock, limits, breakers>>

\* Mutant of BreakerProbes: a second execution passes while the probe is out.
BreakerProbesAgain(e) ==
  /\ pc[e] = "breaker"
  /\ breaker.until # None
  /\ now[e] >= breaker.until
  /\ breaker' = [breaker EXCEPT !.probing = TRUE]
  /\ probe' = e
  /\ Goto(e, "running")
  /\ ForgetsTime(e)
  /\ UNCHANGED <<clock, limits, recent>>

BreakerProbes(e) ==
  /\ pc[e] = "breaker"
  /\ breaker.until # None
  /\ now[e] >= breaker.until
  /\ ~breaker.probing
  /\ breaker' = [breaker EXCEPT !.probing = TRUE]
  /\ probe' = e
  /\ Goto(e, "running")
  /\ ForgetsTime(e)
  /\ UNCHANGED <<clock, limits, recent>>

(***************************************************************************)
(* The statements run, or a guard refuses them, and the outcome is         *)
(* reported: record_failure reads the time first.                          *)
(***************************************************************************)
Fails(e) ==
  /\ pc[e] = "running"
  /\ Goto(e, "failing")
  /\ ReadsTime(e)
  /\ UNCHANGED <<clock, limits, breakers>>

Succeeds(e) ==
  /\ pc[e] = "running"
  /\ Goto(e, "succeeding")
  /\ UNCHANGED <<clock, now, limits, breakers>>

\* The counters of the breaker after a failure of statement f at time t.
Counted(f, t) ==
  LET over == breaker.last # None /\ Since(t, breaker.last) >= FailureWindow
      identical == IF over THEN 0 ELSE breaker.identical
  IN [breaker EXCEPT
        !.failures = IF over THEN 0 ELSE @,
        !.identical = IF breaker.print = f THEN identical + 1 ELSE 1,
        !.print = f,
        !.last = t]

Opened(entry, t) == [entry EXCEPT !.until = t + OpenFor, !.probing = FALSE]

\* Mutant of Reported: the limit is exceeded rather than reached.
ReportedLate(f, t) ==
  LET counted == Counted(f, t)
      more == [counted EXCEPT !.failures = @ + 1]
  IN CASE counted.probing -> Opened(counted, t)
       [] more.failures > Threshold \/ more.identical > Threshold -> Opened(more, t)
       [] OTHER -> more

\* Any failure is taken for the probe's while one is out.
Reported(f, t) ==
  LET counted == Counted(f, t)
      more == [counted EXCEPT !.failures = @ + 1]
  IN CASE counted.probing -> Opened(counted, t)
       [] more.failures >= Threshold \/ more.identical >= Threshold -> Opened(more, t)
       [] OTHER -> more

\* The last Threshold elements.
Latest(s) == IF Len(s) > Threshold THEN Tail(s) ELSE s

\* Mutant of RecordFailure: a failed probe is not taken back.
RecordFailureKeepsFlag(e) ==
  /\ pc[e] = "failing"
  /\ \E f \in Fingerprints :
       breaker' = [Reported(f, now[e]) EXCEPT !.probing = breaker.probing]
  /\ recent' = Latest(Append(recent, now[e]))
  /\ UNCHANGED probe
  /\ Goto(e, "done")
  /\ ForgetsTime(e)
  /\ UNCHANGED <<clock, limits>>

\* The report, then the permit returns.
RecordFailure(e) ==
  /\ pc[e] = "failing"
  /\ \E f \in Fingerprints : breaker' = Reported(f, now[e])
  /\ probe' = None
  /\ recent' = Latest(Append(recent, now[e]))
  /\ Goto(e, "done")
  /\ ForgetsTime(e)
  /\ UNCHANGED <<clock, limits>>

RecordSuccess(e) ==
  /\ pc[e] = "succeeding"
  /\ breaker' = NoEntry
  /\ probe' = None
  /\ recent' = <<>>
  /\ Goto(e, "done")
  /\ UNCHANGED <<clock, now, limits>>

-----------------------------------------------------------------------------
\* Time passes, but no more than MaxWait ticks while a lock is waited for.
Tick ==
  /\ clock < MaxTime
  /\ \A e \in Executions : pc[e] \in Reading => clock < now[e] + MaxWait
  /\ clock' = clock + 1
  /\ UNCHANGED <<pc, now, limits, breakers>>

Execute(e) ==
  \/ AcquireSlot(e)
  \/ MinuteDenies(e) \/ MinuteCounts(e) \/ SecondDenies(e) \/ SecondCounts(e)
  \/ BreakerCloses(e) \/ BreakerAdmits(e) \/ BreakerProbes(e)
  \/ Fails(e) \/ Succeeds(e) \/ RecordFailure(e) \/ RecordSuccess(e)

\* Every execution has reported or was denied, and time is up.
Terminated ==
  /\ \A e \in Executions : pc[e] = "done"
  /\ clock = MaxTime
  /\ UNCHANGED vars

Next == Tick \/ Terminated \/ \E e \in Executions : Execute(e)

Spec == Init /\ [][Next]_vars

-----------------------------------------------------------------------------
(***************************************************************************)
(* Properties.                                                             *)
(***************************************************************************)

Phase ==
  IF breaker.until = None THEN "closed" ELSE IF breaker.probing THEN "probing" ELSE "open"

Breaker == INSTANCE CircuitBreaker WITH
  phase <- Phase,
  until <- IF breaker.until = None THEN 0 ELSE breaker.until,
  running <- {e \in Executions : pc[e] \in Admitted},
  Nobody <- None,
  Slack <- MaxWait

\* The gate is the circuit breaker of the abstract specification, although it reads
\* the time before its lock and reports arrive in any order.
ImplementsBreaker == Breaker!Spec

\* A half-open breaker waits for an execution that will report. A late failure may
\* have been taken for the probe's; then another probe is due, and the flag never
\* stays behind.
ProbeIsOut == breaker.probing => probe # None /\ pc[probe] \in Admitted

\* The largest distance of two elements of s is less than w.
Within(s, w) == \A i, j \in 1 .. Len(s) : Since(s[i], s[j]) < w

\* Threshold failures in a row within the failure window have opened the breaker.
FailuresTrip ==
  Len(recent) = Threshold /\ Within(recent, FailureWindow) => breaker.until # None

\* The executions that passed the limits in the w ticks up to t.
PassedIn(t, w) ==
  {e \in Executions : passed[e] # None /\ passed[e] <= t /\ passed[e] > t - w}

\* The limits hold for windows that are shorter by the waits for their locks: one for
\* the second, and two for the minute, whose limit is checked first.  An execution
\* that waits longer may slip into a window that is full.
DriverCallsBounded ==
  \A t \in Instant :
    /\ Cardinality(PassedIn(t, Second - MaxWait)) <= PerSecond
    /\ Cardinality(PassedIn(t, Minute - 2 * MaxWait)) <= PerMinute

\* Who is told that the executions per minute are exceeded (utils/rate_limiter.rs:49)
\* is told the truth: violated, the attempts that the second denied are counted.
MinuteDenialIsTrue ==
  [][\A e \in Executions :
       MinuteDenies(e) =>
         Cardinality({f \in Executions : passed[f] # None}) >= PerMinute]_vars
=============================================================================
