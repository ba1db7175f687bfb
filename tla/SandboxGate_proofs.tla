-------------------------- MODULE SandboxGate_proofs --------------------------
(***************************************************************************)
(* Proofs about SandboxGate, for any executions, fingerprints, limits and  *)
(* durations: the gate implements CircuitBreaker, a half-open breaker      *)
(* always has its probe out, failures in a row open the breaker, and the   *)
(* sliding windows bound the calls of the driver.                          *)
(***************************************************************************)
EXTENDS SandboxGate, SequenceTheorems, FiniteSetTheorems, TLAPS

\* A time that was read for a lock is at most MaxWait ticks old.
ReadingsAreFresh ==
  \A e \in Executions : pc[e] \in Reading => now[e] <= clock /\ clock <= now[e] + MaxWait

\* The flag and the history agree.
FlagIsTheProbes == ~breaker.probing => probe = None

Inv ==
  /\ TypeOK
  /\ ReadingsAreFresh
  /\ FlagIsTheProbes
  /\ ProbeIsOut

-----------------------------------------------------------------------------
\* Facts about the constants.
LEMMA Constants ==
  /\ None \notin Executions /\ None \notin Nat
  /\ OpenFor \in Nat /\ Threshold \in Nat /\ MaxWait \in Nat
  BY GateConstants DEF Natural

\* A step of one execution: the others stay where they are.
LEMMA Steps ==
  ASSUME TypeOK, NEW e \in Executions, NEW check \in {"done"} \cup Holding, Goto(e, check)
  PROVE  /\ \A f \in Executions : pc'[f] = IF f = e THEN check ELSE pc[f]
         /\ pc' \in [Executions -> {"new", "done"} \cup Holding]
  BY DEF Goto, TypeOK

LEMMA Reads ==
  ASSUME TypeOK, NEW e \in Executions, ReadsTime(e)
  PROVE  /\ \A f \in Executions : now'[f] = IF f = e THEN clock ELSE now[f]
         /\ now' \in [Executions -> Instant]
  BY DEF ReadsTime, TypeOK

LEMMA Forgets ==
  ASSUME TypeOK, NEW e \in Executions, ForgetsTime(e)
  PROVE  /\ \A f \in Executions : now'[f] = IF f = e THEN 0 ELSE now[f]
         /\ now' \in [Executions -> Instant]
  BY GateConstants DEF ForgetsTime, TypeOK, Instant

LEMMA Retains ==
  ASSUME NEW attempts \in [Executions -> Instant \cup {None}], NEW t, NEW w
  PROVE  Retained(attempts, t, w) \in [Executions -> Instant \cup {None}]
  BY DEF Retained

\* What a failure makes of the breaker: it is a breaker, open after a failed probe
\* and never closed by it.
LEMMA Reports ==
  ASSUME TypeOK, NEW f \in Fingerprints, NEW t \in Instant
  PROVE  /\ Reported(f, t) \in BreakerEntry
         /\ Reported(f, t).probing = FALSE
         /\ Reported(f, t).until \in {breaker.until, t + OpenFor}
         /\ breaker.probing => Reported(f, t).until = t + OpenFor
  <1> DEFINE counted == Counted(f, t)
             more == [counted EXCEPT !.failures = @ + 1]
  <1>1. /\ breaker \in BreakerEntry
        /\ t + OpenFor \in Nat
    BY Constants DEF TypeOK, Instant
  <1>2. /\ counted \in BreakerEntry
        /\ counted.probing = breaker.probing
        /\ counted.until = breaker.until
    <2> DEFINE over == breaker.last # None /\ Since(t, breaker.last) >= FailureWindow
               failures == IF over THEN 0 ELSE breaker.failures
               before == IF over THEN 0 ELSE breaker.identical
               identical == IF breaker.print = f THEN before + 1 ELSE 1
    <2>1. failures \in Nat /\ before \in Nat
      BY <1>1 DEF BreakerEntry
    <2>2. identical \in Nat
      BY <2>1
    <2>3. counted = [breaker EXCEPT !.failures = failures, !.identical = identical,
                                    !.print = f, !.last = t]
      BY DEF Counted
    <2> HIDE DEF failures, identical
    <2> QED
      BY <1>1, <2>1, <2>2, <2>3 DEF BreakerEntry
  <1> HIDE DEF counted
  <1>3. /\ more \in BreakerEntry
        /\ more.probing = breaker.probing
        /\ more.until = breaker.until
    BY <1>2 DEF BreakerEntry
  <1>4. ASSUME NEW entry \in BreakerEntry
        PROVE  /\ Opened(entry, t) \in BreakerEntry
               /\ Opened(entry, t).probing = FALSE
               /\ Opened(entry, t).until = t + OpenFor
    BY <1>1 DEF Opened, BreakerEntry
  <1> HIDE DEF more
  <1>5. Reported(f, t) =
          CASE counted.probing -> Opened(counted, t)
            [] more.failures >= Threshold \/ more.identical >= Threshold -> Opened(more, t)
            [] OTHER -> more
    BY DEF Reported, counted, more
  <1>6. CASE breaker.probing
    <2>1. Reported(f, t) = Opened(counted, t) \/ Reported(f, t) = Opened(more, t)
      BY <1>2, <1>5, <1>6
    <2> QED
      BY <1>2, <1>3, <1>4, <2>1
  <1>7. CASE ~breaker.probing
    <2>1. breaker.probing = FALSE
      BY <1>1, <1>7 DEF BreakerEntry
    <2>2. Reported(f, t) = Opened(more, t) \/ Reported(f, t) = more
      BY <1>2, <1>5, <1>7
    <2> QED
      BY <1>3, <1>4, <1>7, <2>1, <2>2
  <1> QED
    BY <1>6, <1>7

LEMMA Appends ==
  ASSUME TypeOK, NEW t \in Instant
  PROVE  Latest(Append(recent, t)) \in Seq(Instant)
  <1>1. Append(recent, t) \in Seq(Instant) /\ Append(recent, t) # <<>>
    BY AppendProperties DEF TypeOK
  <1>2. Tail(Append(recent, t)) \in Seq(Instant)
    BY <1>1, HeadTailProperties
  <1> QED
    BY <1>1, <1>2 DEF Latest

LEMMA Initially == Init => Inv
  <1> SUFFICES ASSUME Init PROVE Inv
    OBVIOUS
  <1> USE GateConstants DEF Init
  <1>1. NoEntry \in BreakerEntry /\ NoEntry.probing = FALSE
    BY DEF NoEntry, BreakerEntry
  <1>2. TypeOK
    BY <1>1 DEF TypeOK, Instant
  <1>3. ReadingsAreFresh /\ FlagIsTheProbes /\ ProbeIsOut
    BY <1>1 DEF ReadingsAreFresh, Reading, FlagIsTheProbes, ProbeIsOut
  <1> QED
    BY <1>2, <1>3 DEF Inv

LEMMA TypesKept ==
  ASSUME TypeOK, [Next]_vars
  PROVE  TypeOK'
  <1>1. ASSUME NEW e \in Executions, AcquireSlot(e) PROVE TypeOK'
    BY <1>1, Steps, Reads
      DEF AcquireSlot, TypeOK, Holding, Reading, limits, breakers
  <1>2. ASSUME NEW e \in Executions, MinuteDenies(e) PROVE TypeOK'
    BY <1>2, Steps, Forgets, Retains
      DEF MinuteDenies, TypeOK, Holding, limits, breakers
  <1>3. ASSUME NEW e \in Executions, MinuteCounts(e) PROVE TypeOK'
    BY <1>3, Steps, Reads, Retains
      DEF MinuteCounts, TypeOK, Holding, Reading, limits, breakers
  <1>4. ASSUME NEW e \in Executions, SecondDenies(e) PROVE TypeOK'
    BY <1>4, Steps, Forgets, Retains
      DEF SecondDenies, TypeOK, Holding, limits, breakers
  <1>5. ASSUME NEW e \in Executions, SecondCounts(e) PROVE TypeOK'
    BY <1>5, Steps, Reads, Retains
      DEF SecondCounts, TypeOK, Holding, Reading, limits, breakers
  <1>6. ASSUME NEW e \in Executions, BreakerCloses(e) PROVE TypeOK'
    BY <1>6, Steps, Forgets
      DEF BreakerCloses, TypeOK, Holding, limits, breakers
  <1>7. ASSUME NEW e \in Executions, BreakerAdmits(e) PROVE TypeOK'
    BY <1>7, Steps, Forgets
      DEF BreakerAdmits, TypeOK, Holding, Admitted, limits, breakers
  <1>8. ASSUME NEW e \in Executions, BreakerProbes(e) PROVE TypeOK'
    BY <1>8, Steps, Forgets
      DEF BreakerProbes, TypeOK, Holding, Admitted, BreakerEntry, limits, breakers
  <1>9. ASSUME NEW e \in Executions, Fails(e) PROVE TypeOK'
    BY <1>9, Steps, Reads
      DEF Fails, TypeOK, Holding, Reading, Admitted, limits, breakers
  <1>10. ASSUME NEW e \in Executions, Succeeds(e) PROVE TypeOK'
    BY <1>10, Steps
      DEF Succeeds, TypeOK, Holding, Admitted, limits, breakers
  <1>11. ASSUME NEW e \in Executions, RecordFailure(e) PROVE TypeOK'
    <2>1. now[e] \in Instant /\ Latest(Append(recent, now[e])) \in Seq(Instant)
      BY Appends DEF TypeOK
    <2>2. breaker' \in BreakerEntry /\ breaker'.probing = FALSE
      BY <1>11, <2>1, Reports DEF RecordFailure
    <2> QED
      BY <1>11, <2>1, <2>2, Steps, Forgets DEF RecordFailure, TypeOK, Holding, limits
  <1>12. ASSUME NEW e \in Executions, RecordSuccess(e) PROVE TypeOK'
    BY <1>12, Steps, GateConstants
      DEF RecordSuccess, TypeOK, Holding, NoEntry, BreakerEntry, limits, breakers
  <1>13. ASSUME Tick PROVE TypeOK'
    BY <1>13, GateConstants DEF Tick, TypeOK, Instant, limits, breakers
  <1>14. ASSUME UNCHANGED vars PROVE TypeOK'
    BY <1>14 DEF vars, TypeOK, limits, breakers
  <1> QED
    BY <1>1, <1>2, <1>3, <1>4, <1>5, <1>6, <1>7, <1>8, <1>9, <1>10, <1>11, <1>12, <1>13, <1>14
      DEF Next, Execute, Terminated

LEMMA ReadingsStayFresh ==
  ASSUME TypeOK, ReadingsAreFresh, [Next]_vars
  PROVE  ReadingsAreFresh'
  <1>1. ASSUME NEW e \in Executions, AcquireSlot(e) PROVE ReadingsAreFresh'
    <2>1. \A f \in Executions : pc'[f] = IF f = e THEN "minute" ELSE pc[f]
      BY <1>1, Steps DEF AcquireSlot, Holding, Reading, Admitted
    <2>2. clock' = clock /\ \A f \in Executions : now'[f] = IF f = e THEN clock ELSE now[f]
      BY <1>1, Reads DEF AcquireSlot
    <2> QED
      BY <2>1, <2>2, Constants DEF ReadingsAreFresh, Reading, TypeOK, Instant
  <1>2. ASSUME NEW e \in Executions, MinuteDenies(e) PROVE ReadingsAreFresh'
    <2>1. \A f \in Executions : pc'[f] = IF f = e THEN "done" ELSE pc[f]
      BY <1>2, Steps DEF MinuteDenies, Holding, Reading, Admitted
    <2>2. clock' = clock /\ \A f \in Executions : now'[f] = IF f = e THEN 0 ELSE now[f]
      BY <1>2, Forgets DEF MinuteDenies
    <2> QED
      BY <2>1, <2>2, Constants DEF ReadingsAreFresh, Reading, TypeOK, Instant
  <1>3. ASSUME NEW e \in Executions, MinuteCounts(e) PROVE ReadingsAreFresh'
    <2>1. \A f \in Executions : pc'[f] = IF f = e THEN "second" ELSE pc[f]
      BY <1>3, Steps DEF MinuteCounts, Holding, Reading, Admitted
    <2>2. clock' = clock /\ \A f \in Executions : now'[f] = IF f = e THEN clock ELSE now[f]
      BY <1>3, Reads DEF MinuteCounts
    <2> QED
      BY <2>1, <2>2, Constants DEF ReadingsAreFresh, Reading, TypeOK, Instant
  <1>4. ASSUME NEW e \in Executions, SecondDenies(e) PROVE ReadingsAreFresh'
    <2>1. \A f \in Executions : pc'[f] = IF f = e THEN "done" ELSE pc[f]
      BY <1>4, Steps DEF SecondDenies, Holding, Reading, Admitted
    <2>2. clock' = clock /\ \A f \in Executions : now'[f] = IF f = e THEN 0 ELSE now[f]
      BY <1>4, Forgets DEF SecondDenies
    <2> QED
      BY <2>1, <2>2, Constants DEF ReadingsAreFresh, Reading, TypeOK, Instant
  <1>5. ASSUME NEW e \in Executions, SecondCounts(e) PROVE ReadingsAreFresh'
    <2>1. \A f \in Executions : pc'[f] = IF f = e THEN "breaker" ELSE pc[f]
      BY <1>5, Steps DEF SecondCounts, Holding, Reading, Admitted
    <2>2. clock' = clock /\ \A f \in Executions : now'[f] = IF f = e THEN clock ELSE now[f]
      BY <1>5, Reads DEF SecondCounts
    <2> QED
      BY <2>1, <2>2, Constants DEF ReadingsAreFresh, Reading, TypeOK, Instant
  <1>6. ASSUME NEW e \in Executions, BreakerCloses(e) PROVE ReadingsAreFresh'
    <2>1. \A f \in Executions : pc'[f] = IF f = e THEN "done" ELSE pc[f]
      BY <1>6, Steps DEF BreakerCloses, Holding, Reading, Admitted
    <2>2. clock' = clock /\ \A f \in Executions : now'[f] = IF f = e THEN 0 ELSE now[f]
      BY <1>6, Forgets DEF BreakerCloses
    <2> QED
      BY <2>1, <2>2, Constants DEF ReadingsAreFresh, Reading, TypeOK, Instant
  <1>7. ASSUME NEW e \in Executions, BreakerAdmits(e) PROVE ReadingsAreFresh'
    <2>1. \A f \in Executions : pc'[f] = IF f = e THEN "running" ELSE pc[f]
      BY <1>7, Steps DEF BreakerAdmits, Holding, Reading, Admitted
    <2>2. clock' = clock /\ \A f \in Executions : now'[f] = IF f = e THEN 0 ELSE now[f]
      BY <1>7, Forgets DEF BreakerAdmits
    <2> QED
      BY <2>1, <2>2, Constants DEF ReadingsAreFresh, Reading, TypeOK, Instant
  <1>8. ASSUME NEW e \in Executions, BreakerProbes(e) PROVE ReadingsAreFresh'
    <2>1. \A f \in Executions : pc'[f] = IF f = e THEN "running" ELSE pc[f]
      BY <1>8, Steps DEF BreakerProbes, Holding, Reading, Admitted
    <2>2. clock' = clock /\ \A f \in Executions : now'[f] = IF f = e THEN 0 ELSE now[f]
      BY <1>8, Forgets DEF BreakerProbes
    <2> QED
      BY <2>1, <2>2, Constants DEF ReadingsAreFresh, Reading, TypeOK, Instant
  <1>9. ASSUME NEW e \in Executions, Fails(e) PROVE ReadingsAreFresh'
    <2>1. \A f \in Executions : pc'[f] = IF f = e THEN "failing" ELSE pc[f]
      BY <1>9, Steps DEF Fails, Holding, Reading, Admitted
    <2>2. clock' = clock /\ \A f \in Executions : now'[f] = IF f = e THEN clock ELSE now[f]
      BY <1>9, Reads DEF Fails
    <2> QED
      BY <2>1, <2>2, Constants DEF ReadingsAreFresh, Reading, TypeOK, Instant
  <1>10. ASSUME NEW e \in Executions, Succeeds(e) PROVE ReadingsAreFresh'
    <2>1. \A f \in Executions : pc'[f] = IF f = e THEN "succeeding" ELSE pc[f]
      BY <1>10, Steps DEF Succeeds, Holding, Reading, Admitted
    <2>2. clock' = clock /\ \A f \in Executions : now'[f] = now[f]
      BY <1>10 DEF Succeeds
    <2> QED
      BY <2>1, <2>2, Constants DEF ReadingsAreFresh, Reading, TypeOK, Instant
  <1>11. ASSUME NEW e \in Executions, RecordFailure(e) PROVE ReadingsAreFresh'
    <2>1. \A f \in Executions : pc'[f] = IF f = e THEN "done" ELSE pc[f]
      BY <1>11, Steps DEF RecordFailure, Holding, Reading, Admitted
    <2>2. clock' = clock /\ \A f \in Executions : now'[f] = IF f = e THEN 0 ELSE now[f]
      BY <1>11, Forgets DEF RecordFailure
    <2> QED
      BY <2>1, <2>2, Constants DEF ReadingsAreFresh, Reading, TypeOK, Instant
  <1>12. ASSUME NEW e \in Executions, RecordSuccess(e) PROVE ReadingsAreFresh'
    <2>1. \A f \in Executions : pc'[f] = IF f = e THEN "done" ELSE pc[f]
      BY <1>12, Steps DEF RecordSuccess, Holding, Reading, Admitted
    <2>2. clock' = clock /\ \A f \in Executions : now'[f] = now[f]
      BY <1>12 DEF RecordSuccess
    <2> QED
      BY <2>1, <2>2, Constants DEF ReadingsAreFresh, Reading, TypeOK, Instant
  <1>13. ASSUME Tick PROVE ReadingsAreFresh'
    <2>1. /\ clock' = clock + 1 /\ UNCHANGED <<pc, now>> /\ clock \in Nat
          /\ \A e \in Executions : now[e] \in Nat
          /\ \A e \in Executions : pc[e] \in Reading => clock < now[e] + MaxWait
      BY <1>13 DEF Tick, TypeOK, Instant
    <2> QED
      BY <2>1, Constants DEF ReadingsAreFresh
  <1>14. ASSUME UNCHANGED vars PROVE ReadingsAreFresh'
    BY <1>14 DEF vars, ReadingsAreFresh
  <1> QED
    BY <1>1, <1>2, <1>3, <1>4, <1>5, <1>6, <1>7, <1>8, <1>9, <1>10, <1>11, <1>12, <1>13, <1>14
      DEF Next, Execute, Terminated

-----------------------------------------------------------------------------
(***************************************************************************)
(* The breaker's part of a step, and the step of CircuitBreaker it is.     *)
(***************************************************************************)
Out == {e \in Executions : pc[e] \in Admitted}
Until == IF breaker.until = None THEN 0 ELSE breaker.until

\* Nobody is admitted and nobody reports.
LEMMA Stutters ==
  ASSUME Inv, UNCHANGED <<clock, breaker, probe>>,
         \A f \in Executions : pc'[f] \in Admitted <=> pc[f] \in Admitted
  PROVE  /\ FlagIsTheProbes' /\ ProbeIsOut'
         /\ UNCHANGED Breaker!vars
  <1>1. FlagIsTheProbes' /\ ProbeIsOut'
    BY DEF Inv, FlagIsTheProbes, ProbeIsOut, TypeOK
  <1>2. Out' = Out /\ Phase' = Phase /\ Until' = Until
    BY DEF Out, Phase, Until
  <1> QED
    BY <1>1, <1>2 DEF Out, Until, Breaker!vars

\* An execution is admitted, and the breaker is not told.
LEMMA Admits ==
  ASSUME Inv, NEW e \in Executions, BreakerAdmits(e)
  PROVE  /\ FlagIsTheProbes' /\ ProbeIsOut'
         /\ Breaker!Admit(e)
  <1>1. /\ \A f \in Executions : pc'[f] = IF f = e THEN "running" ELSE pc[f]
        /\ UNCHANGED <<clock, breaker, probe>>
        /\ breaker.until = None /\ pc[e] = "breaker"
    BY Steps DEF BreakerAdmits, Inv, Holding, Admitted, breakers
  <1>2. FlagIsTheProbes' /\ ProbeIsOut'
    BY <1>1 DEF Inv, FlagIsTheProbes, ProbeIsOut, TypeOK, Admitted
  <1>3. Out' = Out \cup {e} /\ e \notin Out
    BY <1>1 DEF Out, Admitted
  <1>4. Phase = "closed" /\ UNCHANGED <<Phase, Until>>
    BY <1>1 DEF Phase, Until
  <1> QED
    BY <1>1, <1>2, <1>3, <1>4 DEF Out, Until, Breaker!Admit

LEMMA Probes ==
  ASSUME Inv, NEW e \in Executions, BreakerProbes(e)
  PROVE  /\ FlagIsTheProbes' /\ ProbeIsOut'
         /\ Breaker!AdmitProbe(e)
  <1>1. /\ \A f \in Executions : pc'[f] = IF f = e THEN "running" ELSE pc[f]
        /\ clock' = clock /\ probe' = e
        /\ breaker.until # None /\ ~breaker.probing /\ now[e] >= breaker.until
        /\ pc[e] = "breaker"
    BY Steps DEF BreakerProbes, Inv, Holding, Admitted
  <1>2. /\ breaker'.probing = TRUE
        /\ breaker'.until = breaker.until
        /\ breaker.until \in Nat
    BY <1>1 DEF BreakerProbes, Inv, TypeOK, BreakerEntry
  <1>3. FlagIsTheProbes' /\ ProbeIsOut'
    BY <1>1, <1>2, Constants DEF FlagIsTheProbes, ProbeIsOut, Admitted
  <1>4. Out' = Out \cup {e} /\ e \notin Out
    BY <1>1 DEF Out, Admitted
  <1>5. Phase = "open" /\ Phase' = "probing" /\ Until' = Until /\ Until = breaker.until
    BY <1>1, <1>2 DEF Phase, Until
  <1>6. clock >= breaker.until
    BY <1>1, <1>2 DEF Inv, ReadingsAreFresh, Reading, TypeOK, Instant
  <1> QED
    BY <1>1, <1>3, <1>4, <1>5, <1>6 DEF Out, Until, Breaker!AdmitProbe

\* A failure opens the breaker, again or for the first time, or is only counted.
LEMMA ReportsFailure ==
  ASSUME Inv, NEW e \in Executions, RecordFailure(e)
  PROVE  /\ FlagIsTheProbes' /\ ProbeIsOut'
         /\ Breaker!Fail(e) \/ Breaker!FailAndOpen(e)
  <1>1. /\ \A f \in Executions : pc'[f] = IF f = e THEN "done" ELSE pc[f]
        /\ clock' = clock /\ probe' = None
        /\ pc[e] = "failing"
    BY Steps DEF RecordFailure, Inv, Holding, Admitted
  <1>2. now[e] \in Instant /\ now[e] <= clock /\ clock <= now[e] + MaxWait /\ clock \in Nat
    BY <1>1 DEF Inv, ReadingsAreFresh, Reading, TypeOK, Instant
  <1>3. /\ breaker'.probing = FALSE
        /\ breaker'.until \in {breaker.until, now[e] + OpenFor}
        /\ breaker.probing => breaker'.until = now[e] + OpenFor
    BY <1>2, Reports DEF RecordFailure, Inv
  <1>4. FlagIsTheProbes' /\ ProbeIsOut'
    BY <1>1, <1>3 DEF FlagIsTheProbes, ProbeIsOut
  <1>5. Out' = Out \ {e} /\ e \in Out
    BY <1>1 DEF Out, Admitted
  <1>6. CASE breaker'.until = now[e] + OpenFor
    <2>1. now[e] + OpenFor \in Nat
      BY <1>2, Constants DEF Instant
    <2>2. Phase' = "open" /\ Until' = now[e] + OpenFor
      BY <1>3, <1>6, <2>1, Constants DEF Phase, Until
    <2>3. Until' \in (clock + OpenFor - MaxWait) .. (clock + OpenFor)
      BY <1>2, <2>1, <2>2, Constants DEF Instant
    <2> QED
      BY <1>1, <1>4, <1>5, <2>2, <2>3 DEF Out, Until, Breaker!FailAndOpen
  <1>7. CASE breaker'.until # now[e] + OpenFor
    <2>1. breaker'.until = breaker.until /\ ~breaker.probing
      BY <1>3, <1>7
    <2>2. Phase # "probing" /\ UNCHANGED <<Phase, Until>>
      BY <1>3, <2>1 DEF Phase, Until
    <2>3. UNCHANGED probe
      BY <1>1, <2>1 DEF Inv, FlagIsTheProbes
    <2> QED
      BY <1>1, <1>4, <1>5, <2>2, <2>3 DEF Out, Until, Breaker!Fail
  <1> QED
    BY <1>6, <1>7

LEMMA ReportsSuccess ==
  ASSUME Inv, NEW e \in Executions, RecordSuccess(e)
  PROVE  /\ FlagIsTheProbes' /\ ProbeIsOut'
         /\ Breaker!Succeed(e)
  <1>1. /\ \A f \in Executions : pc'[f] = IF f = e THEN "done" ELSE pc[f]
        /\ clock' = clock /\ probe' = None
        /\ breaker'.probing = FALSE /\ breaker'.until = None
        /\ pc[e] = "succeeding"
    BY Steps DEF RecordSuccess, NoEntry, Inv, Holding, Admitted
  <1>2. FlagIsTheProbes' /\ ProbeIsOut'
    BY <1>1 DEF FlagIsTheProbes, ProbeIsOut
  <1>3. Out' = Out \ {e} /\ e \in Out
    BY <1>1 DEF Out, Admitted
  <1>4. Phase' = "closed" /\ Until' = 0
    BY <1>1 DEF Phase, Until
  <1> QED
    BY <1>1, <1>2, <1>3, <1>4 DEF Out, Until, Breaker!Succeed

-----------------------------------------------------------------------------
\* A step of the gate is a step of the breaker or none.
LEMMA Kept ==
  ASSUME Inv, [Next]_vars
  PROVE  Inv' /\ [Breaker!Next]_(Breaker!vars)
  <1> DEFINE Goal == FlagIsTheProbes' /\ ProbeIsOut' /\ [Breaker!Next]_(Breaker!vars)
  <1>1. ASSUME NEW e \in Executions, AcquireSlot(e) PROVE Goal
    <2>1. \A f \in Executions : pc'[f] = IF f = e THEN "minute" ELSE pc[f]
      BY <1>1, Steps DEF Inv, AcquireSlot, Holding, Reading, Admitted
    <2> QED
      BY <1>1, <2>1, Stutters DEF AcquireSlot, Admitted, breakers
  <1>2. ASSUME NEW e \in Executions, MinuteDenies(e) PROVE Goal
    <2>1. \A f \in Executions : pc'[f] = IF f = e THEN "done" ELSE pc[f]
      BY <1>2, Steps DEF Inv, MinuteDenies, Holding, Reading, Admitted
    <2> QED
      BY <1>2, <2>1, Stutters DEF MinuteDenies, Admitted, breakers
  <1>3. ASSUME NEW e \in Executions, MinuteCounts(e) PROVE Goal
    <2>1. \A f \in Executions : pc'[f] = IF f = e THEN "second" ELSE pc[f]
      BY <1>3, Steps DEF Inv, MinuteCounts, Holding, Reading, Admitted
    <2> QED
      BY <1>3, <2>1, Stutters DEF MinuteCounts, Admitted, breakers
  <1>4. ASSUME NEW e \in Executions, SecondDenies(e) PROVE Goal
    <2>1. \A f \in Executions : pc'[f] = IF f = e THEN "done" ELSE pc[f]
      BY <1>4, Steps DEF Inv, SecondDenies, Holding, Reading, Admitted
    <2> QED
      BY <1>4, <2>1, Stutters DEF SecondDenies, Admitted, breakers
  <1>5. ASSUME NEW e \in Executions, SecondCounts(e) PROVE Goal
    <2>1. \A f \in Executions : pc'[f] = IF f = e THEN "breaker" ELSE pc[f]
      BY <1>5, Steps DEF Inv, SecondCounts, Holding, Reading, Admitted
    <2> QED
      BY <1>5, <2>1, Stutters DEF SecondCounts, Admitted, breakers
  <1>6. ASSUME NEW e \in Executions, BreakerCloses(e) PROVE Goal
    <2>1. \A f \in Executions : pc'[f] = IF f = e THEN "done" ELSE pc[f]
      BY <1>6, Steps DEF Inv, BreakerCloses, Holding, Reading, Admitted
    <2> QED
      BY <1>6, <2>1, Stutters DEF BreakerCloses, Admitted, breakers
  <1>7. ASSUME NEW e \in Executions, BreakerAdmits(e) PROVE Goal
    BY <1>7, Admits DEF Breaker!Next
  <1>8. ASSUME NEW e \in Executions, BreakerProbes(e) PROVE Goal
    BY <1>8, Probes DEF Breaker!Next
  <1>9. ASSUME NEW e \in Executions, Fails(e) PROVE Goal
    <2>1. \A f \in Executions : pc'[f] = IF f = e THEN "failing" ELSE pc[f]
      BY <1>9, Steps DEF Inv, Fails, Holding, Reading, Admitted
    <2> QED
      BY <1>9, <2>1, Stutters DEF Fails, Admitted, breakers
  <1>10. ASSUME NEW e \in Executions, Succeeds(e) PROVE Goal
    <2>1. \A f \in Executions : pc'[f] = IF f = e THEN "succeeding" ELSE pc[f]
      BY <1>10, Steps DEF Inv, Succeeds, Holding, Reading, Admitted
    <2> QED
      BY <1>10, <2>1, Stutters DEF Succeeds, Admitted, breakers
  <1>11. ASSUME NEW e \in Executions, RecordFailure(e) PROVE Goal
    BY <1>11, ReportsFailure DEF Breaker!Next
  <1>12. ASSUME NEW e \in Executions, RecordSuccess(e) PROVE Goal
    BY <1>12, ReportsSuccess DEF Breaker!Next
  <1>13. ASSUME Tick PROVE Goal
    <2>1. clock' = clock + 1 /\ UNCHANGED <<pc, breaker, probe>>
      BY <1>13 DEF Tick, breakers
    <2>2. FlagIsTheProbes' /\ ProbeIsOut'
      BY <2>1 DEF Inv, FlagIsTheProbes, ProbeIsOut
    <2>3. UNCHANGED <<Out, Phase, Until>>
      BY <2>1 DEF Out, Phase, Until
    <2>4. Breaker!Tick
      BY <2>1, <2>3 DEF Out, Until, Breaker!Tick
    <2> QED
      BY <2>2, <2>4 DEF Breaker!Next
  <1>14. ASSUME UNCHANGED vars PROVE Goal
    BY <1>14, Stutters DEF vars, breakers
  <1>15. Goal
    BY <1>1, <1>2, <1>3, <1>4, <1>5, <1>6, <1>7, <1>8, <1>9, <1>10, <1>11, <1>12, <1>13, <1>14
      DEF Next, Execute, Terminated
  <1> QED
    BY <1>15, TypesKept, ReadingsStayFresh DEF Inv

THEOREM Invariant == Spec => []Inv
  <1>1. Inv /\ [Next]_vars => Inv'
    BY Kept
  <1> QED
    BY Initially, <1>1, PTL DEF Spec

\* Times, counters, limits and the breaker keep their types, for any number of
\* executions.
THEOREM TypeCorrect == Spec => []TypeOK
  <1>1. Inv => TypeOK
    BY DEF Inv
  <1> QED
    BY Invariant, <1>1, PTL

\* A half-open breaker never waits for a report that was given.
THEOREM ProbeStaysOut == Spec => []ProbeIsOut
  <1>1. Inv => ProbeIsOut
    BY DEF Inv
  <1> QED
    BY Invariant, <1>1, PTL

\* The gate is the circuit breaker: it maps to the initial state, and every step to
\* a step or a stutter.
THEOREM GateIsBreaker == Spec => ImplementsBreaker
  <1>1. Init => Breaker!Init
    <2> SUFFICES ASSUME Init PROVE Breaker!Init
      OBVIOUS
    <2>1. Out = {} /\ Phase = "closed" /\ Until = 0
      BY DEF Init, Out, Phase, Until, NoEntry, Admitted
    <2> QED
      BY <2>1 DEF Init, Out, Until, Breaker!Init
  <1>2. Inv /\ [Next]_vars => [Breaker!Next]_(Breaker!vars)
    BY Kept
  <1> QED
    BY Invariant, <1>1, <1>2, PTL DEF Spec, ImplementsBreaker, Breaker!Spec

-----------------------------------------------------------------------------
(***************************************************************************)
(* Failures in a row.                                                      *)
(***************************************************************************)

\* While the breaker is closed its counter is short of the threshold, its last
\* failure is the last one reported, and the counter is what is left of the failures
\* since a pause as long as the window: the failure before those it counts is at
\* least a window older.
FailuresAreCounted ==
  /\ Len(recent) <= Threshold
  /\ breaker.until = None =>
       /\ breaker.failures < Threshold
       /\ breaker.failures <= Len(recent)
       /\ Len(recent) = 0 => breaker.last = None
       /\ Len(recent) > 0 => breaker.last = recent[Len(recent)] /\ breaker.failures > 0
       /\ breaker.failures < Len(recent) =>
            Since(recent[Len(recent) - breaker.failures + 1],
                  recent[Len(recent) - breaker.failures]) >= FailureWindow

\* A failure that leaves the breaker closed found it closed, and is counted: after a
\* pause of a window the count starts again.
LEMMA ReportsClosed ==
  ASSUME TypeOK, NEW f \in Fingerprints, NEW t \in Instant, Reported(f, t).until = None
  PROVE  /\ breaker.until = None
         /\ Reported(f, t).last = t
         /\ Reported(f, t).failures < Threshold
         /\ Reported(f, t).failures =
              IF breaker.last # None /\ Since(t, breaker.last) >= FailureWindow
              THEN 1 ELSE breaker.failures + 1
  <1> DEFINE over == breaker.last # None /\ Since(t, breaker.last) >= FailureWindow
             failures == IF over THEN 0 ELSE breaker.failures
             identical == IF over THEN 0 ELSE breaker.identical
             same == IF breaker.print = f THEN identical + 1 ELSE 1
             counted == Counted(f, t)
             more == [counted EXCEPT !.failures = @ + 1]
  <1>1. /\ breaker \in BreakerEntry
        /\ t + OpenFor \in Nat /\ Threshold \in Nat
        /\ None \notin Nat
    BY Constants DEF TypeOK, Instant
  <1>2. counted = [breaker EXCEPT !.failures = failures, !.identical = same,
                                  !.print = f, !.last = t]
    BY DEF Counted
  <1>3. failures \in Nat
    BY <1>1 DEF BreakerEntry
  <1> HIDE DEF failures, same
  <1>4. /\ counted.probing = breaker.probing
        /\ counted.until = breaker.until
        /\ counted.last = t
        /\ counted.failures = failures
        /\ DOMAIN counted = DOMAIN breaker
    BY <1>1, <1>2 DEF BreakerEntry
  <1> HIDE DEF counted
  <1>5. /\ more.until = breaker.until
        /\ more.last = t
        /\ more.failures = failures + 1
    BY <1>1, <1>4 DEF BreakerEntry
  <1>6. DOMAIN more = DOMAIN breaker /\ DOMAIN counted = DOMAIN breaker
    BY <1>4
  <1> HIDE DEF more
  <1>7. Opened(counted, t).until = t + OpenFor /\ Opened(more, t).until = t + OpenFor
    BY <1>1, <1>6 DEF Opened, BreakerEntry
  <1>8. Reported(f, t) =
          CASE counted.probing -> Opened(counted, t)
            [] more.failures >= Threshold \/ more.identical >= Threshold -> Opened(more, t)
            [] OTHER -> more
    BY DEF Reported, counted, more
  <1>9. Reported(f, t) # Opened(counted, t) /\ Reported(f, t) # Opened(more, t)
    BY <1>1, <1>7
  <1>10. Reported(f, t) = more /\ ~(more.failures >= Threshold)
    BY <1>8, <1>9
  <1>11. more.failures < Threshold
    BY <1>1, <1>3, <1>5, <1>10
  <1> QED
    BY <1>5, <1>10, <1>11 DEF failures

\* A failure at t is appended, and counted or breaks the row.
LEMMA CountsFailure ==
  ASSUME TypeOK, FailuresAreCounted, NEW f \in Fingerprints, NEW t \in Instant,
         breaker' = Reported(f, t), recent' = Latest(Append(recent, t))
  PROVE  FailuresAreCounted'
  <1> DEFINE n == Len(recent)
             s == Append(recent, t)
             k == breaker.failures
  <1>1. /\ recent \in Seq(Instant) /\ n \in Nat /\ n <= Threshold
        /\ Threshold \in Nat /\ Threshold > 0
        /\ k \in Nat
    BY GateConstants DEF TypeOK, BreakerEntry, Natural, FailuresAreCounted
  <1>2. /\ s \in Seq(Instant) /\ Len(s) = n + 1 /\ s[n + 1] = t
        /\ \A i \in 1 .. n : s[i] = recent[i]
    BY <1>1, AppendProperties
  <1>3. s # <<>>
    BY <1>1, <1>2
  <1>4. CASE n < Threshold
    <2>1. recent' = s
      BY <1>1, <1>2, <1>4 DEF Latest
    <2>2. Len(recent') = n + 1 /\ n + 1 <= Threshold /\ recent'[n + 1] = t
      BY <1>1, <1>2, <1>4, <2>1
    <2>3. SUFFICES ASSUME breaker'.until = None
                   PROVE  /\ breaker'.failures < Threshold
                          /\ breaker'.failures <= n + 1
                          /\ breaker'.last = t /\ breaker'.failures > 0
                          /\ breaker'.failures < n + 1 =>
                               Since(recent'[(n + 1) - breaker'.failures + 1],
                                     recent'[(n + 1) - breaker'.failures]) >= FailureWindow
      BY <1>1, <2>2 DEF FailuresAreCounted
    <2>4. /\ breaker.until = None
          /\ breaker'.last = t /\ breaker'.failures < Threshold
          /\ breaker'.failures =
               IF breaker.last # None /\ Since(t, breaker.last) >= FailureWindow
               THEN 1 ELSE k + 1
      BY <2>3, ReportsClosed
    <2>5. /\ k <= n
          /\ n = 0 => breaker.last = None
          /\ n > 0 => breaker.last = recent[n] /\ k > 0
          /\ k < n => Since(recent[n - k + 1], recent[n - k]) >= FailureWindow
      BY <2>4 DEF FailuresAreCounted
    <2>6. CASE breaker'.failures = 1 /\ n > 0
               /\ breaker.last # None /\ Since(t, breaker.last) >= FailureWindow
      <3>1. /\ recent'[(n + 1) - 1 + 1] = t
            /\ recent'[(n + 1) - 1] = recent[n]
        BY <1>1, <1>2, <2>1, <2>6
      <3> QED
        BY <1>1, <2>4, <2>5, <2>6, <3>1
    <2>7. CASE breaker'.failures = k + 1
      <3>1. CASE k < n
        <4>1. /\ (n + 1) - (k + 1) + 1 = n - k + 1 /\ n - k + 1 \in 1 .. n
              /\ (n + 1) - (k + 1) = n - k /\ n - k \in 1 .. n
          BY <1>1, <2>5, <3>1
        <4>2. /\ recent'[(n + 1) - (k + 1) + 1] = recent[n - k + 1]
              /\ recent'[(n + 1) - (k + 1)] = recent[n - k]
          BY <1>2, <2>1, <4>1
        <4> QED
          BY <1>1, <2>4, <2>5, <2>7, <3>1, <4>2
      <3>2. CASE k = n
        <4>1. breaker'.failures = n + 1 /\ n + 1 > 0
          BY <1>1, <2>7, <3>2
        <4> QED
          BY <1>1, <2>4, <4>1
      <3>3. k < n \/ k = n
        BY <1>1, <2>5
      <3> QED
        BY <3>1, <3>2, <3>3
    <2> QED
      BY <1>1, <2>4, <2>5, <2>6, <2>7
  <1>5. CASE n = Threshold
    <2>1. recent' = Tail(s)
      BY <1>1, <1>2, <1>5 DEF Latest
    <2>2. /\ Len(recent') = n
          /\ \A i \in 1 .. n : recent'[i] = s[i + 1]
      BY <1>1, <1>2, <1>3, <2>1, HeadTailProperties
    <2>3. /\ recent'[n] = t
          /\ \A i \in 1 .. n - 1 : recent'[i] = recent[i + 1]
      BY <1>1, <1>2, <1>5, <2>2
    <2>4. SUFFICES ASSUME breaker'.until = None
                   PROVE  /\ breaker'.failures < Threshold
                          /\ breaker'.failures <= n
                          /\ breaker'.last = t /\ breaker'.failures > 0
                          /\ breaker'.failures < n =>
                               Since(recent'[n - breaker'.failures + 1],
                                     recent'[n - breaker'.failures]) >= FailureWindow
      BY <1>1, <1>5, <2>2, <2>3 DEF FailuresAreCounted
    <2>5. /\ breaker.until = None
          /\ breaker'.last = t /\ breaker'.failures < Threshold
          /\ breaker'.failures =
               IF breaker.last # None /\ Since(t, breaker.last) >= FailureWindow
               THEN 1 ELSE k + 1
      BY <2>4, ReportsClosed
    <2>6. /\ k < n
          /\ breaker.last = recent[n] /\ k > 0
          /\ Since(recent[n - k + 1], recent[n - k]) >= FailureWindow
      BY <1>1, <1>5, <2>5 DEF FailuresAreCounted
    <2>7. CASE breaker'.failures = 1 /\ Since(t, breaker.last) >= FailureWindow
      <3>1. n > 1
        BY <1>1, <1>5, <2>5, <2>7
      <3>2. recent'[n - 1 + 1] = t /\ recent'[n - 1] = recent[n]
        BY <1>1, <2>3, <3>1
      <3> QED
        BY <1>1, <1>5, <2>5, <2>6, <2>7, <3>2
    <2>8. CASE breaker'.failures = k + 1
      <3>1. k + 1 < n
        BY <1>5, <2>5, <2>8
      <3>2. /\ n - (k + 1) + 1 \in 1 .. n - 1 /\ n - (k + 1) + 1 + 1 = n - k + 1
            /\ n - (k + 1) \in 1 .. n - 1 /\ n - (k + 1) + 1 = n - k
        BY <1>1, <2>6, <3>1
      <3>3. /\ recent'[n - (k + 1) + 1] = recent[n - k + 1]
            /\ recent'[n - (k + 1)] = recent[n - k]
        BY <2>3, <3>2
      <3> QED
        BY <1>1, <1>5, <2>5, <2>6, <2>8, <3>1, <3>3
    <2> QED
      BY <2>5, <2>7, <2>8
  <1> QED
    BY <1>1, <1>4, <1>5

LEMMA FailuresStayCounted ==
  ASSUME TypeOK, FailuresAreCounted, [Next]_vars
  PROVE  FailuresAreCounted'
  <1>1. ASSUME UNCHANGED breakers PROVE FailuresAreCounted'
    BY <1>1 DEF breakers, FailuresAreCounted
  <1>2. ASSUME NEW e \in Executions, BreakerProbes(e) PROVE FailuresAreCounted'
    <2>1. /\ breaker.until # None /\ breaker'.until = breaker.until
          /\ recent' = recent
      BY <1>2 DEF BreakerProbes, TypeOK, BreakerEntry
    <2> QED
      BY <2>1 DEF FailuresAreCounted
  <1>3. ASSUME NEW e \in Executions, RecordFailure(e) PROVE FailuresAreCounted'
    <2>1. now[e] \in Instant
      BY DEF TypeOK
    <2>2. PICK f \in Fingerprints : breaker' = Reported(f, now[e])
      BY <1>3 DEF RecordFailure
    <2> QED
      BY <1>3, <2>1, <2>2, CountsFailure DEF RecordFailure
  <1>4. ASSUME NEW e \in Executions, RecordSuccess(e) PROVE FailuresAreCounted'
    <2>1. /\ breaker'.until = None /\ breaker'.failures = 0 /\ breaker'.last = None
          /\ recent' = <<>>
      BY <1>4 DEF RecordSuccess, NoEntry
    <2>2. Threshold \in Nat /\ Threshold > 0
      BY GateConstants DEF Natural
    <2> QED
      BY <2>1, <2>2 DEF FailuresAreCounted
  <1> QED
    BY <1>1, <1>2, <1>3, <1>4
      DEF Next, Tick, Terminated, vars, Execute, AcquireSlot, MinuteDenies, MinuteCounts,
          SecondDenies, SecondCounts, BreakerCloses, BreakerAdmits, Fails, Succeeds

\* No threshold of failures in a row, all of them within the failure window, leaves
\* the breaker closed, whatever was reported in which order before.
THEOREM FailuresAlwaysTrip == Spec => []FailuresTrip
  <1>1. Init => FailuresAreCounted
    <2> SUFFICES ASSUME Init PROVE FailuresAreCounted
      OBVIOUS
    <2>1. Threshold \in Nat /\ Threshold > 0
      BY GateConstants DEF Natural
    <2> QED
      BY <2>1 DEF Init, NoEntry, FailuresAreCounted
  <1>2. TypeOK /\ FailuresAreCounted /\ [Next]_vars => FailuresAreCounted'
    BY FailuresStayCounted
  <1>3. TypeOK /\ FailuresAreCounted => FailuresTrip
    <2> SUFFICES ASSUME TypeOK, FailuresAreCounted, Len(recent) = Threshold,
                        Within(recent, FailureWindow), breaker.until = None
                 PROVE  FALSE
      BY DEF FailuresTrip
    <2> DEFINE n == Len(recent)
               k == breaker.failures
    <2>1. n \in Nat /\ k \in Nat /\ FailureWindow \in Nat
      BY GateConstants DEF TypeOK, BreakerEntry, Natural
    <2>2. k < n /\ k > 0
      BY <2>1, GateConstants DEF FailuresAreCounted, Natural
    <2>3. Since(recent[n - k + 1], recent[n - k]) >= FailureWindow
      BY <2>2 DEF FailuresAreCounted
    <2>4. n - k + 1 \in 1 .. n /\ n - k \in 1 .. n
      BY <2>1, <2>2
    <2>5. Since(recent[n - k + 1], recent[n - k]) < FailureWindow
      BY <2>4 DEF Within
    <2>6. \A i \in 1 .. n : recent[i] \in Instant
      BY DEF TypeOK
    <2>7. Since(recent[n - k + 1], recent[n - k]) \in Int
      BY <2>4, <2>6 DEF Since, Instant
    <2> QED
      BY <2>1, <2>3, <2>5, <2>7
  <1> QED
    BY <1>1, <1>2, <1>3, TypeCorrect, PTL DEF Spec

-----------------------------------------------------------------------------
(***************************************************************************)
(* The two rate limits.                                                    *)
(***************************************************************************)
Started == {e \in Executions : pc[e] # "new"}

\* Nothing is counted of an execution that holds no permit, and none passed the
\* limits before the second's check.
NotYet(e) ==
  /\ pc[e] = "new" => minute[e] = None /\ second[e] = None
  /\ pc[e] \in {"new", "minute", "second"} => passed[e] = None

\* The second's limit has counted an execution that passed at most a wait before it
\* did, and keeps it for all but that wait of its window.
SecondKeeps(e) ==
  passed[e] # None =>
    /\ passed[e] <= clock
    /\ second[e] # None => passed[e] - MaxWait <= second[e]
    /\ second[e] = None => passed[e] + Second - MaxWait <= clock

\* The minute's limit has counted an execution at most a wait before it went on to
\* the second's, two before it passed, and keeps it for the rest of its window.
MinuteKeeps(e) ==
  /\ pc[e] = "second" =>
       /\ minute[e] # None => now[e] - MaxWait <= minute[e]
       /\ minute[e] = None => now[e] + Minute - MaxWait <= clock
  /\ passed[e] # None =>
       /\ minute[e] # None => passed[e] - 2 * MaxWait <= minute[e]
       /\ minute[e] = None => passed[e] + Minute - 2 * MaxWait <= clock

\* The executions that passed in the minute up to t, or were counted for it and may
\* still pass.
Claimed(t) ==
  {e \in Executions :
     \/ passed[e] # None /\ passed[e] <= t /\ passed[e] > t - (Minute - 2 * MaxWait)
     \/ pc[e] = "second" /\ now[e] <= t /\ now[e] > t - (Minute - MaxWait)}

Remembered(e) == NotYet(e) /\ SecondKeeps(e) /\ MinuteKeeps(e)

LimitsHold ==
  /\ IsFiniteSet(Started)
  /\ \A e \in Executions : Remembered(e)
  /\ \A t \in Instant : Cardinality(PassedIn(t, Second - MaxWait)) <= PerSecond
  /\ \A t \in Instant : Cardinality(Claimed(t)) <= PerMinute

\* Sets of executions: a part of a set is no larger, and one more element is one more.
LEMMA NoMore ==
  ASSUME NEW S, IsFiniteSet(S), NEW T \in SUBSET S, NEW k \in Nat, Cardinality(S) <= k
  PROVE  Cardinality(T) <= k
  BY FS_Subset, FS_CardinalityType

LEMMA OneMore ==
  ASSUME NEW S, IsFiniteSet(S), NEW T \in SUBSET S, NEW x, NEW k \in Nat, Cardinality(S) < k
  PROVE  Cardinality(T \cup {x}) <= k
  <1>1. IsFiniteSet(T) /\ Cardinality(T) <= Cardinality(S)
    BY FS_Subset
  <1>2. Cardinality(T) \in Nat /\ Cardinality(S) \in Nat
    BY <1>1, FS_CardinalityType
  <1>3. Cardinality(T \cup {x}) \in {Cardinality(T), Cardinality(T) + 1}
    BY <1>1, FS_AddElement
  <1> QED
    BY <1>1, <1>2, <1>3

\* What a limit forgets is a window old.
LEMMA Forgotten ==
  ASSUME NEW attempts \in [Executions -> Instant \cup {None}], NEW t \in Instant,
         NEW w \in Natural, NEW f \in Executions
  PROVE  LET kept == Retained(attempts, t, w) IN
           /\ kept[f] = attempts[f] \/ kept[f] = None
           /\ attempts[f] # None =>
                /\ attempts[f] \in Nat
                /\ kept[f] = None => attempts[f] + w <= t
                /\ t < attempts[f] + w => kept[f] # None
  <1>1. CASE attempts[f] = None
    BY <1>1 DEF Retained
  <1>2. CASE attempts[f] # None
    <2>1. attempts[f] \in Nat /\ t \in Nat /\ w \in Nat /\ w > 0
      BY <1>2 DEF Instant, Natural
    <2>2. Since(t, attempts[f]) < w <=> t < attempts[f] + w
      BY <2>1 DEF Since
    <2>3. Retained(attempts, t, w)[f] =
            IF t < attempts[f] + w THEN attempts[f] ELSE None
      BY <1>2, <2>2 DEF Retained
    <2> QED
      BY <1>2, <2>1, <2>3
  <1> QED
    BY <1>1, <1>2

\* Times are numbers where they are there.
LEMMA Times ==
  ASSUME TypeOK, NEW e \in Executions
  PROVE  /\ clock \in Nat /\ now[e] \in Nat /\ now[e] \in Instant
         /\ passed[e] # None => passed[e] \in Nat
         /\ minute[e] # None => minute[e] \in Nat
         /\ second[e] # None => second[e] \in Nat
         /\ {Minute, Second, PerMinute, PerSecond, MaxWait} \subseteq Nat
         /\ {Minute, Second} \subseteq Natural
  BY GateConstants DEF TypeOK, Instant, Natural

\* The sets the limits are about hold executions that have started.
LEMMA CountedStarted ==
  ASSUME TypeOK, LimitsHold
  PROVE  /\ \A t : Claimed(t) \in SUBSET Started
         /\ \A t, w : PassedIn(t, w) \in SUBSET Started
         /\ \A t, w : {f \in Executions : Retained(minute, t, w)[f] # None} \in SUBSET Started
         /\ \A t, w : {f \in Executions : Retained(second, t, w)[f] # None} \in SUBSET Started
  <1>1. \A f \in Executions : f \notin Started =>
          pc[f] = "new" /\ passed[f] = None /\ minute[f] = None /\ second[f] = None
    BY DEF Started, LimitsHold, Remembered, NotYet
  <1>2. \A t : Claimed(t) \in SUBSET Started
    BY <1>1 DEF Claimed
  <1>3. \A t, w : PassedIn(t, w) \in SUBSET Started
    BY <1>1 DEF PassedIn
  <1>4. ASSUME NEW t, NEW w, NEW f \in Executions, f \notin Started
        PROVE  Retained(minute, t, w)[f] = None /\ Retained(second, t, w)[f] = None
    BY <1>1, <1>4 DEF Retained
  <1> QED
    BY <1>2, <1>3, <1>4

LEMMA StartedStaysFinite ==
  ASSUME LimitsHold, NEW e \in Executions,
         \A f \in Executions : f # e => pc'[f] = pc[f]
  PROVE  IsFiniteSet(Started')
  <1>1. Started' \in SUBSET (Started \cup {e})
    BY DEF Started
  <1>2. IsFiniteSet(Started \cup {e})
    BY FS_AddElement DEF LimitsHold
  <1> QED
    BY <1>1, <1>2, FS_Subset

\* A step that counts nobody and lets nobody pass: time may go on.
LEMMA SameLimits ==
  ASSUME TypeOK, LimitsHold, UNCHANGED limits, clock' \in Nat, clock' >= clock,
         IsFiniteSet(Started'),
         \A f \in Executions :
           /\ pc'[f] \in {"new", "second"} => pc'[f] = pc[f] /\ now'[f] = now[f]
           /\ pc'[f] = "minute" => pc[f] \in {"new", "minute"}
  PROVE  LimitsHold'
  <1>1. UNCHANGED <<minute, second, passed>>
    BY DEF limits
  <1>2. ASSUME NEW f \in Executions PROVE Remembered(f)'
    <2>1. Remembered(f)
      BY DEF LimitsHold
    <2>2. NotYet(f)'
      BY <1>1, <2>1 DEF Remembered, NotYet
    <2>3. SecondKeeps(f)'
      BY <1>1, <2>1, Times DEF Remembered, SecondKeeps
    <2>4. MinuteKeeps(f)'
      BY <1>1, <2>1, Times DEF Remembered, MinuteKeeps
    <2> QED
      BY <2>2, <2>3, <2>4 DEF Remembered
  <1>3. ASSUME NEW t \in Instant PROVE Cardinality(PassedIn(t, Second - MaxWait))' <= PerSecond
    BY <1>1 DEF PassedIn, LimitsHold
  <1>4. ASSUME NEW t \in Instant PROVE Cardinality(Claimed(t)') <= PerMinute
    <2>1. Claimed(t)' \in SUBSET Claimed(t)
      BY <1>1 DEF Claimed
    <2>2. IsFiniteSet(Claimed(t))
      BY CountedStarted, FS_Subset DEF LimitsHold
    <2> QED
      BY <2>1, <2>2, NoMore, Times, GateConstants DEF LimitsHold, Natural
  <1> QED
    BY <1>2, <1>3, <1>4 DEF LimitsHold

LEMMA MinuteDeniesHolds ==
  ASSUME TypeOK, ReadingsAreFresh, LimitsHold, NEW e \in Executions, MinuteDenies(e)
  PROVE  LimitsHold'
  <1>1. /\ \A f \in Executions : pc'[f] = IF f = e THEN "done" ELSE pc[f]
        /\ \A f \in Executions : f # e => now'[f] = now[f]
        /\ minute' = Retained(minute, now[e], Minute)
        /\ UNCHANGED <<clock, second, passed>>
        /\ pc[e] = "minute"
    BY Steps, Forgets DEF MinuteDenies, Holding, Reading, Admitted
  <1>2. clock \in Nat /\ now[e] \in Instant /\ now[e] <= clock /\ Minute \in Natural
    BY <1>1, Times DEF ReadingsAreFresh, Reading
  <1>3. ASSUME NEW f \in Executions PROVE Remembered(f)'
    <2>1. Remembered(f) /\ now[f] \in Nat /\ now[e] \in Nat /\ Minute \in Nat
      BY Times DEF LimitsHold
    <2>2. NotYet(f)'
      BY <1>1, <2>1, Forgotten, <1>2 DEF Remembered, NotYet, TypeOK
    <2>3. SecondKeeps(f)'
      BY <1>1, <2>1 DEF Remembered, SecondKeeps
    <2>4. /\ minute'[f] = minute[f] \/ minute'[f] = None
          /\ minute[f] # None =>
               /\ minute[f] \in Nat
               /\ minute'[f] = None => minute[f] + Minute <= now[e]
      BY <1>1, <1>2, Forgotten DEF TypeOK
    <2>5. MinuteKeeps(f)'
      BY <1>1, <1>2, <2>1, <2>4, Times DEF Remembered, MinuteKeeps
    <2> QED
      BY <2>2, <2>3, <2>5 DEF Remembered
  <1>4. ASSUME NEW t \in Instant PROVE Cardinality(PassedIn(t, Second - MaxWait))' <= PerSecond
    BY <1>1 DEF PassedIn, LimitsHold
  <1>5. ASSUME NEW t \in Instant PROVE Cardinality(Claimed(t)') <= PerMinute
    <2>1. Claimed(t)' \in SUBSET Claimed(t)
      BY <1>1 DEF Claimed
    <2>2. IsFiniteSet(Claimed(t))
      BY CountedStarted, FS_Subset DEF LimitsHold
    <2> QED
      BY <2>1, <2>2, NoMore, GateConstants DEF LimitsHold, Natural
  <1>6. IsFiniteSet(Started')
    BY <1>1, StartedStaysFinite
  <1> QED
    BY <1>3, <1>4, <1>5, <1>6 DEF LimitsHold

LEMMA SecondDeniesHolds ==
  ASSUME TypeOK, ReadingsAreFresh, LimitsHold, NEW e \in Executions, SecondDenies(e)
  PROVE  LimitsHold'
  <1>1. /\ \A f \in Executions : pc'[f] = IF f = e THEN "done" ELSE pc[f]
        /\ \A f \in Executions : f # e => now'[f] = now[f]
        /\ second' = Retained(second, now[e], Second)
        /\ UNCHANGED <<clock, minute, passed>>
        /\ pc[e] = "second"
    BY Steps, Forgets DEF SecondDenies, Holding, Reading, Admitted
  <1>2. clock \in Nat /\ now[e] \in Instant /\ now[e] <= clock /\ Second \in Natural
    BY <1>1, Times DEF ReadingsAreFresh, Reading
  <1>3. ASSUME NEW f \in Executions PROVE Remembered(f)'
    <2>1. Remembered(f) /\ now[f] \in Nat /\ now[e] \in Nat /\ Second \in Nat
      BY Times DEF LimitsHold
    <2>2. NotYet(f)'
      BY <1>1, <2>1, Forgotten, <1>2 DEF Remembered, NotYet, TypeOK
    <2>3. MinuteKeeps(f)'
      BY <1>1, <2>1 DEF Remembered, MinuteKeeps
    <2>4. /\ second'[f] = second[f] \/ second'[f] = None
          /\ second[f] # None =>
               /\ second[f] \in Nat
               /\ second'[f] = None => second[f] + Second <= now[e]
      BY <1>1, <1>2, Forgotten DEF TypeOK
    <2>5. SecondKeeps(f)'
      BY <1>1, <1>2, <2>1, <2>4, Times DEF Remembered, SecondKeeps
    <2> QED
      BY <2>2, <2>3, <2>5 DEF Remembered
  <1>4. ASSUME NEW t \in Instant PROVE Cardinality(PassedIn(t, Second - MaxWait))' <= PerSecond
    BY <1>1 DEF PassedIn, LimitsHold
  <1>5. ASSUME NEW t \in Instant PROVE Cardinality(Claimed(t)') <= PerMinute
    <2>1. Claimed(t)' \in SUBSET Claimed(t)
      BY <1>1 DEF Claimed
    <2>2. IsFiniteSet(Claimed(t))
      BY CountedStarted, FS_Subset DEF LimitsHold
    <2> QED
      BY <2>1, <2>2, NoMore, GateConstants DEF LimitsHold, Natural
  <1>6. IsFiniteSet(Started')
    BY <1>1, StartedStaysFinite
  <1> QED
    BY <1>3, <1>4, <1>5, <1>6 DEF LimitsHold

LEMMA MinuteCountsHolds ==
  ASSUME TypeOK, ReadingsAreFresh, LimitsHold, NEW e \in Executions, MinuteCounts(e)
  PROVE  LimitsHold'
  <1> DEFINE kept == Retained(minute, now[e], Minute)
             K == {f \in Executions : kept[f] # None}
  <1>1. /\ \A f \in Executions : pc'[f] = IF f = e THEN "second" ELSE pc[f]
        /\ \A f \in Executions : now'[f] = IF f = e THEN clock ELSE now[f]
        /\ \A f \in Executions : minute'[f] = IF f = e THEN now[e] ELSE kept[f]
        /\ Cardinality(K) < PerMinute
        /\ UNCHANGED <<clock, second, passed>>
        /\ pc[e] = "minute"
    <2>1. kept \in [Executions -> Instant \cup {None}]
      BY Retains DEF TypeOK
    <2> QED
      BY <2>1, Steps, Reads DEF MinuteCounts, Count, Holding, Reading, Admitted
  <1>2. /\ clock \in Nat /\ now[e] \in Instant /\ Minute \in Natural
        /\ now[e] <= clock /\ clock <= now[e] + MaxWait
        /\ now[e] \in Nat /\ Minute \in Nat /\ Minute > 0 /\ PerMinute \in Nat /\ MaxWait \in Nat
        /\ passed[e] = None
    BY <1>1, Times DEF ReadingsAreFresh, Reading, Natural, LimitsHold, Remembered, NotYet
  <1>3. ASSUME NEW f \in Executions
        PROVE  /\ kept[f] = minute[f] \/ kept[f] = None
               /\ minute[f] # None =>
                    /\ minute[f] \in Nat
                    /\ kept[f] = None => minute[f] + Minute <= now[e]
                    /\ now[e] < minute[f] + Minute => kept[f] # None
    BY <1>2, Forgotten DEF TypeOK
  <1>4. ASSUME NEW f \in Executions PROVE Remembered(f)'
    <2>1. Remembered(f) /\ now[f] \in Nat
      BY Times DEF LimitsHold
    <2>2. NotYet(f)'
      BY <1>1, <1>3, <2>1 DEF Remembered, NotYet
    <2>3. SecondKeeps(f)'
      BY <1>1, <2>1 DEF Remembered, SecondKeeps
    <2>4. MinuteKeeps(f)'
      <3>1. CASE f = e
        <4>1. now[e] # None
          BY <1>2, Constants
        <4> QED
          BY <1>1, <1>2, <3>1, <4>1 DEF MinuteKeeps
      <3>2. CASE f # e
        BY <1>1, <1>2, <1>3, <2>1, <3>2, Times DEF Remembered, MinuteKeeps
      <3> QED
        BY <3>1, <3>2
    <2> QED
      BY <2>2, <2>3, <2>4 DEF Remembered
  <1>5. ASSUME NEW t \in Instant PROVE Cardinality(PassedIn(t, Second - MaxWait))' <= PerSecond
    BY <1>1 DEF PassedIn, LimitsHold
  <1>6. ASSUME NEW t \in Instant PROVE Cardinality(Claimed(t)') <= PerMinute
    <2>1. t \in Nat
      BY DEF Instant
    <2>2. CASE clock <= t /\ clock > t - (Minute - MaxWait)
      <3>1. ASSUME NEW f \in Claimed(t) PROVE kept[f] # None
        <4>1. f \in Executions /\ Remembered(f) /\ now[f] \in Nat
          BY <3>1, Times DEF Claimed, LimitsHold
        <4>2. CASE passed[f] # None /\ passed[f] > t - (Minute - 2 * MaxWait)
          <5>1. passed[f] \in Nat /\ passed[f] + Minute - 2 * MaxWait > clock
            BY <1>2, <2>1, <2>2, <4>1, <4>2, Times
          <5>2. minute[f] # None /\ passed[f] - 2 * MaxWait <= minute[f]
            BY <1>2, <4>1, <4>2, <5>1 DEF Remembered, MinuteKeeps
          <5> QED
            BY <1>2, <1>3, <4>1, <5>1, <5>2
        <4>3. CASE pc[f] = "second" /\ now[f] > t - (Minute - MaxWait)
          <5>1. now[f] + Minute - MaxWait > clock
            BY <1>2, <2>1, <2>2, <4>1, <4>3
          <5>2. minute[f] # None /\ now[f] - MaxWait <= minute[f]
            BY <1>2, <4>1, <4>3, <5>1 DEF Remembered, MinuteKeeps
          <5> QED
            BY <1>2, <1>3, <4>1, <5>1, <5>2
        <4> QED
          BY <4>2, <4>3 DEF Claimed
      <3>2. Claimed(t) \in SUBSET K
        BY <3>1 DEF Claimed
      <3>3. Claimed(t)' \in SUBSET (Claimed(t) \cup {e})
        BY <1>1 DEF Claimed
      <3>4. IsFiniteSet(K) /\ IsFiniteSet(Claimed(t) \cup {e})
        BY CountedStarted, FS_Subset, FS_AddElement DEF LimitsHold
      <3>5. Cardinality(Claimed(t) \cup {e}) <= PerMinute
        BY <1>1, <1>2, <3>2, <3>4, OneMore
      <3> QED
        BY <1>2, <3>3, <3>4, <3>5, NoMore
    <2>3. CASE ~(clock <= t /\ clock > t - (Minute - MaxWait))
      <3>1. Claimed(t)' \in SUBSET Claimed(t)
        BY <1>1, <1>2, <2>3 DEF Claimed
      <3>2. IsFiniteSet(Claimed(t))
        BY CountedStarted, FS_Subset DEF LimitsHold
      <3> QED
        BY <1>2, <3>1, <3>2, NoMore DEF LimitsHold
    <2> QED
      BY <2>2, <2>3
  <1>7. IsFiniteSet(Started')
    BY <1>1, StartedStaysFinite
  <1> QED
    BY <1>4, <1>5, <1>6, <1>7 DEF LimitsHold

LEMMA SecondCountsHolds ==
  ASSUME TypeOK, ReadingsAreFresh, LimitsHold, NEW e \in Executions, SecondCounts(e)
  PROVE  LimitsHold'
  <1> DEFINE kept == Retained(second, now[e], Second)
             K == {f \in Executions : kept[f] # None}
  <1>1. /\ \A f \in Executions : pc'[f] = IF f = e THEN "breaker" ELSE pc[f]
        /\ \A f \in Executions : f # e => now'[f] = now[f]
        /\ \A f \in Executions : second'[f] = IF f = e THEN now[e] ELSE kept[f]
        /\ \A f \in Executions : passed'[f] = IF f = e THEN clock ELSE passed[f]
        /\ Cardinality(K) < PerSecond
        /\ UNCHANGED <<clock, minute>>
        /\ pc[e] = "second"
    <2>1. kept \in [Executions -> Instant \cup {None}]
      BY Retains DEF TypeOK
    <2>2. passed' = [passed EXCEPT ![e] = clock] /\ passed \in [Executions -> Instant \cup {None}]
      BY DEF SecondCounts, TypeOK
    <2> QED
      BY <2>1, <2>2, Steps, Reads DEF SecondCounts, Count, Holding, Reading, Admitted
  <1>2. /\ clock \in Nat /\ now[e] \in Instant /\ Second \in Natural
        /\ now[e] <= clock /\ clock <= now[e] + MaxWait
        /\ now[e] \in Nat /\ {Second, Minute, PerSecond, PerMinute, MaxWait} \subseteq Nat
        /\ passed[e] = None
        /\ now[e] # None /\ clock # None
    BY <1>1, Times, Constants DEF ReadingsAreFresh, Reading, LimitsHold, Remembered, NotYet
  <1>3. ASSUME NEW f \in Executions
        PROVE  /\ kept[f] = second[f] \/ kept[f] = None
               /\ second[f] # None =>
                    /\ second[f] \in Nat
                    /\ kept[f] = None => second[f] + Second <= now[e]
                    /\ now[e] < second[f] + Second => kept[f] # None
    BY <1>2, Forgotten DEF TypeOK
  <1>4. ASSUME NEW f \in Executions PROVE Remembered(f)'
    <2>1. Remembered(f) /\ now[f] \in Nat
      BY Times DEF LimitsHold
    <2>2. CASE f = e
      <3>1. NotYet(f)'
        BY <1>1, <2>2 DEF NotYet
      <3>2. SecondKeeps(f)'
        BY <1>1, <1>2, <2>2 DEF SecondKeeps
      <3>3. MinuteKeeps(f)'
        BY <1>1, <1>2, <2>1, <2>2, Times DEF Remembered, MinuteKeeps
      <3> QED
        BY <3>1, <3>2, <3>3 DEF Remembered
    <2>3. CASE f # e
      <3>1. NotYet(f)'
        BY <1>1, <1>3, <2>1, <2>3 DEF Remembered, NotYet
      <3>2. SecondKeeps(f)'
        BY <1>1, <1>2, <1>3, <2>1, <2>3, Times DEF Remembered, SecondKeeps
      <3>3. MinuteKeeps(f)'
        BY <1>1, <2>1, <2>3 DEF Remembered, MinuteKeeps
      <3> QED
        BY <3>1, <3>2, <3>3 DEF Remembered
    <2> QED
      BY <2>2, <2>3
  <1>5. ASSUME NEW t \in Instant PROVE Cardinality(PassedIn(t, Second - MaxWait)') <= PerSecond
    <2> DEFINE P == PassedIn(t, Second - MaxWait)
    <2>1. t \in Nat
      BY DEF Instant
    <2>2. IsFiniteSet(P) /\ IsFiniteSet(K) /\ IsFiniteSet(P \cup {e})
      BY CountedStarted, FS_Subset, FS_AddElement DEF LimitsHold
    <2>3. CASE clock <= t /\ clock > t - (Second - MaxWait)
      <3>1. ASSUME NEW f \in P PROVE kept[f] # None
        <4>1. f \in Executions /\ Remembered(f) /\ passed[f] # None /\ passed[f] > t - (Second - MaxWait)
          BY <3>1 DEF PassedIn, LimitsHold
        <4>2. passed[f] \in Nat /\ passed[f] + Second - MaxWait > clock
          BY <1>2, <2>1, <2>3, <4>1, Times
        <4>3. second[f] # None /\ passed[f] - MaxWait <= second[f]
          BY <1>2, <4>1, <4>2 DEF Remembered, SecondKeeps
        <4> QED
          BY <1>2, <1>3, <4>1, <4>2, <4>3
      <3>2. P \in SUBSET K
        BY <3>1 DEF PassedIn
      <3>3. P' \in SUBSET (P \cup {e})
        BY <1>1 DEF PassedIn
      <3>4. Cardinality(P \cup {e}) <= PerSecond
        BY <1>1, <1>2, <2>2, <3>2, OneMore
      <3> QED
        BY <1>2, <2>2, <3>3, <3>4, NoMore
    <2>4. CASE ~(clock <= t /\ clock > t - (Second - MaxWait))
      <3>1. P' \in SUBSET P
        BY <1>1, <2>4 DEF PassedIn
      <3> QED
        BY <1>2, <2>2, <3>1, NoMore DEF LimitsHold
    <2> QED
      BY <2>3, <2>4
  <1>6. ASSUME NEW t \in Instant PROVE Cardinality(Claimed(t)') <= PerMinute
    <2>1. t \in Nat
      BY DEF Instant
    <2>2. Claimed(t)' \in SUBSET Claimed(t)
      BY <1>1, <1>2, <2>1 DEF Claimed
    <2>3. IsFiniteSet(Claimed(t))
      BY CountedStarted, FS_Subset DEF LimitsHold
    <2> QED
      BY <1>2, <2>2, <2>3, NoMore DEF LimitsHold
  <1>7. IsFiniteSet(Started')
    BY <1>1, StartedStaysFinite
  <1> QED
    BY <1>4, <1>5, <1>6, <1>7 DEF LimitsHold

LEMMA LimitsStay ==
  ASSUME TypeOK, ReadingsAreFresh, LimitsHold, [Next]_vars
  PROVE  LimitsHold'
  <1>0. clock \in Nat /\ IsFiniteSet(Started)
    BY DEF TypeOK, Instant, LimitsHold
  <1>1. ASSUME NEW e \in Executions,
               BreakerCloses(e) \/ BreakerAdmits(e) \/ BreakerProbes(e) \/ Fails(e)
               \/ Succeeds(e) \/ RecordFailure(e) \/ RecordSuccess(e)
        PROVE  LimitsHold'
    <2>1. /\ UNCHANGED <<clock, limits>>
          /\ \E check \in {"running", "failing", "succeeding", "done"} : Goto(e, check)
          /\ ReadsTime(e) \/ ForgetsTime(e) \/ UNCHANGED now
      BY <1>1 DEF BreakerCloses, BreakerAdmits, BreakerProbes, Fails, Succeeds,
                  RecordFailure, RecordSuccess
    <2>2. \A f \in Executions : f # e => pc'[f] = pc[f] /\ now'[f] = now[f]
      BY <2>1 DEF Goto, ReadsTime, ForgetsTime, TypeOK
    <2>3. pc'[e] \in {"running", "failing", "succeeding", "done"}
      BY <2>1 DEF Goto, TypeOK
    <2>4. IsFiniteSet(Started')
      BY <2>2, StartedStaysFinite
    <2> QED
      BY <1>0, <2>1, <2>2, <2>3, <2>4, SameLimits
  <1>2. ASSUME NEW e \in Executions, AcquireSlot(e) PROVE LimitsHold'
    <2>1. /\ UNCHANGED <<clock, limits>>
          /\ pc[e] = "new"
          /\ \A f \in Executions : pc'[f] = IF f = e THEN "minute" ELSE pc[f]
          /\ \A f \in Executions : f # e => now'[f] = now[f]
      BY <1>2, Steps, Reads DEF AcquireSlot, Holding, Reading, Admitted
    <2>2. IsFiniteSet(Started')
      BY <2>1, StartedStaysFinite
    <2> QED
      BY <1>0, <2>1, <2>2, SameLimits
  <1>3. ASSUME Tick PROVE LimitsHold'
    <2>1. UNCHANGED <<pc, now, limits>> /\ clock' = clock + 1
      BY <1>3 DEF Tick
    <2>2. Started' = Started
      BY <2>1 DEF Started
    <2> QED
      BY <1>0, <2>1, <2>2, SameLimits
  <1>4. ASSUME UNCHANGED vars PROVE LimitsHold'
    <2>1. UNCHANGED <<clock, pc, now, limits>>
      BY <1>4 DEF vars
    <2>2. Started' = Started
      BY <2>1 DEF Started
    <2> QED
      BY <1>0, <2>1, <2>2, SameLimits
  <1> QED
    BY <1>1, <1>2, <1>3, <1>4, MinuteDeniesHolds, MinuteCountsHolds, SecondDeniesHolds,
       SecondCountsHolds
      DEF Next, Execute, Terminated

\* However long the locks of the limits are waited for: in no window shorter than the
\* second by that wait, and in none shorter than the minute by two of them, more
\* executions pass the limits than they say, although each attempt reads the time
\* before it waits.  Nothing is said of the full second and the full minute, unless the
\* wait is 0.
THEOREM DriverCallsStayBounded == Spec => []DriverCallsBounded
  <1>1. Init => LimitsHold
    <2> SUFFICES ASSUME Init PROVE LimitsHold
      OBVIOUS
    <2>1. Started = {} /\ \A t : Claimed(t) = {} /\ \A w : PassedIn(t, w) = {}
      BY DEF Init, Started, Claimed, PassedIn
    <2>2. \A e \in Executions : Remembered(e)
      BY DEF Init, Remembered, NotYet, SecondKeeps, MinuteKeeps
    <2>3. PerMinute \in Nat /\ PerSecond \in Nat /\ PerMinute >= 0 /\ PerSecond >= 0
      BY GateConstants DEF Natural
    <2> QED
      BY <2>1, <2>2, <2>3, FS_EmptySet DEF LimitsHold
  <1>2. Inv /\ LimitsHold /\ [Next]_vars => LimitsHold'
    BY LimitsStay DEF Inv
  <1>3. Inv /\ LimitsHold => DriverCallsBounded
    <2> SUFFICES ASSUME Inv, LimitsHold, NEW t \in Instant
                 PROVE  /\ Cardinality(PassedIn(t, Second - MaxWait)) <= PerSecond
                        /\ Cardinality(PassedIn(t, Minute - 2 * MaxWait)) <= PerMinute
      BY DEF DriverCallsBounded
    <2>1. IsFiniteSet(Claimed(t)) /\ PerMinute \in Nat
      BY CountedStarted, FS_Subset, GateConstants DEF Inv, LimitsHold, Natural
    <2>2. PassedIn(t, Minute - 2 * MaxWait) \in SUBSET Claimed(t)
      BY DEF PassedIn, Claimed
    <2> QED
      BY <2>1, <2>2, NoMore DEF LimitsHold
  <1> QED
    BY Invariant, <1>1, <1>2, <1>3, PTL DEF Spec
=============================================================================
