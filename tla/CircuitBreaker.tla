---------------------------- MODULE CircuitBreaker ----------------------------
(***************************************************************************)
(* What the circuit breaker of a connection promises, as one step per      *)
(* decision.  Closed, it admits executions; open, none until its time is   *)
(* over, and then a single probe; while the probe is out, none.  Any       *)
(* success closes it, also of an execution admitted before it opened.      *)
(* SandboxGate shows that execute_sandboxed_query keeps this promise.      *)
(***************************************************************************)
EXTENDS Integers

CONSTANTS
  Executions,  \* calls of execute_sandboxed_query on the connection
  Nobody,      \* no probe
  OpenFor,     \* how long the breaker stays open
  Slack        \* how much earlier than that it may admit the probe

VARIABLES
  clock,
  phase,    \* "closed", "open" or "probing"
  until,    \* when an open breaker may admit its probe
  probe,    \* the execution that is the probe
  running   \* the executions admitted that have not reported

vars == <<clock, phase, until, probe, running>>

Init ==
  /\ clock = 0
  /\ phase = "closed"
  /\ until = 0
  /\ probe = Nobody
  /\ running = {}

Admit(e) ==
  /\ phase = "closed"
  /\ e \notin running
  /\ running' = running \cup {e}
  /\ UNCHANGED <<clock, phase, until, probe>>

AdmitProbe(e) ==
  /\ phase = "open"
  /\ clock >= until
  /\ e \notin running
  /\ running' = running \cup {e}
  /\ phase' = "probing"
  /\ probe' = e
  /\ UNCHANGED <<clock, until>>

\* A failure that does not open the breaker, which cannot be while a probe is out.
Fail(e) ==
  /\ phase # "probing"
  /\ e \in running
  /\ running' = running \ {e}
  /\ UNCHANGED <<clock, phase, until, probe>>

FailAndOpen(e) ==
  /\ e \in running
  /\ running' = running \ {e}
  /\ phase' = "open"
  /\ until' \in (clock + OpenFor - Slack) .. (clock + OpenFor)
  /\ probe' = Nobody
  /\ UNCHANGED clock

Succeed(e) ==
  /\ e \in running
  /\ running' = running \ {e}
  /\ phase' = "closed"
  /\ until' = 0
  /\ probe' = Nobody
  /\ UNCHANGED clock

Tick ==
  /\ clock' = clock + 1
  /\ UNCHANGED <<phase, until, probe, running>>

Next ==
  \/ \E e \in Executions :
       Admit(e) \/ AdmitProbe(e) \/ Fail(e) \/ FailAndOpen(e) \/ Succeed(e)
  \/ Tick

Spec == Init /\ [][Next]_vars
=============================================================================
