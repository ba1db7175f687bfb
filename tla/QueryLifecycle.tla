--------------------------- MODULE QueryLifecycle ---------------------------
(***************************************************************************)
(* The life of a query request in the TableR backend: the commands         *)
(* execute_query, execute_query_progressive and cancel_query, the two      *)
(* registries they share (QueryCancellationState, one token per request,   *)
(* and the driver's QueryCancelRegistry, one slot per request), the pool   *)
(* of a MySQL or PostgreSQL driver and the statements on the server.       *)
(*                                                                         *)
(* A step of the model is the code between two awaits of one command: that *)
(* is where Tokio may run another command, and where `select!` may drop    *)
(* the execution future.                                                   *)
(***************************************************************************)
EXTENDS Integers, FiniteSets

CONSTANTS
  Requests,        \* the request ids the front end makes (crypto.randomUUID)
  Cancellable,     \* those the model may send a cancel_query for, one each
  Conns,           \* the connections of the driver's pool
  NoRequest, NoConn,
  MaxStatements,   \* statements of the longest batch the model submits
  Batches          \* row batches of a progressive result

ASSUME QueryConstants ==
  /\ Cancellable \subseteq Requests
  /\ NoRequest \notin Requests
  /\ NoConn \notin Conns
  /\ MaxStatements \in Nat \ {0}
  /\ Batches \in Nat

VARIABLES
  stage,      \* where the command of each request is
  path,       \* the command serving it
  attempt,    \* 1, or 2 for the legacy command run after a progressive failure
  total,      \* statements of the submitted text
  left,       \* statements not sent to the server yet
  result,     \* what the command returns
  emitted,    \* row batches emitted by the progressive command
  truncated,  \* QueryResult.truncated
  capped,     \* the flag of the result the driver builds: the row cap was hit
  active,     \* QueryCancellationState: the attempt whose token is registered, or 0
  fired,      \* the attempts whose CancellationToken is cancelled
  slots,      \* the driver's QueryCancelRegistry
  conn,       \* the pool connection the execution future holds
  pool,       \* state of each pool connection
  server,     \* the request whose statement is under way on each connection
  arrived,    \* the connections whose statement has reached the server
  reply,      \* the server's answer the execution future has not read yet
  polled,     \* the requests whose execution took a step after its token fired
  cancel,     \* the cancel_query command of each request
  early,      \* history: requests whose cancel came before their backend id was known
  missed      \* history: requests whose kill came before their statement arrived

commandVars == <<path, attempt, total>>
deliveryVars == <<emitted, truncated, capped>>
tokenVars == <<active, fired>>
cancelVars == <<cancel, early, missed>>
driverVars == <<slots, conn, pool, server, arrived, reply, polled>>
vars == <<stage, commandVars, left, result, deliveryVars, tokenVars, driverVars,
          cancelVars>>

Stages == {"idle", "submitted", "waiting", "begun", "running", "emitting",
           "finishing", "returned", "done"}
Executing == {"waiting", "begun", "running"}  \* inside `select!`
InScope == {"begun", "running"}               \* a CancelScopeGuard is alive
InFlight == Executing \cup {"emitting", "finishing"}
Results == {"none", "ok", "cancelled", "timeout", "error", "refused"}
Replies == {"none", "rows", "capped", "error", "killed"}
Killing == {"killing", "sent", "landed"}      \* a backend id was found
OnItsWay == {"sent", "landed"}                \* its KILL holds a connection

Slot(open, backend, cancelled) ==
  [open |-> open, backend |-> backend, cancelled |-> cancelled]
NoSlot == Slot(FALSE, NoConn, FALSE)
\* A cancel_query: the connection it has to kill, the one that carries its KILL,
\* its answer server_confirmed, and the attempt it was sent for.
CancelState(pc, target, via, confirmed, n) ==
  [pc |-> pc, target |-> target, via |-> via, confirmed |-> confirmed, attempt |-> n]
NoCancel == CancelState("none", NoConn, NoConn, FALSE, 0)

TypeOK ==
  /\ stage \in [Requests -> Stages]
  /\ path \in [Requests -> {"legacy", "progressive"}]
  /\ attempt \in [Requests -> 0..2]
  /\ total \in [Requests -> 0..MaxStatements]
  /\ left \in [Requests -> 0..MaxStatements]
  /\ result \in [Requests -> Results]
  /\ emitted \in [Requests -> 0..Batches]
  /\ truncated \in [Requests -> BOOLEAN]
  /\ capped \in [Requests -> BOOLEAN]
  /\ active \in [Requests -> 0..2]
  /\ fired \in [Requests -> SUBSET (0..2)]
  /\ slots \in [Requests -> [open : BOOLEAN, backend : Conns \cup {NoConn},
                             cancelled : BOOLEAN]]
  /\ conn \in [Requests -> Conns \cup {NoConn}]
  /\ pool \in [Conns -> {"free", "busy", "draining"}]
  /\ server \in [Conns -> Requests \cup {NoRequest}]
  /\ arrived \subseteq Conns
  /\ reply \in [Requests -> Replies]
  /\ polled \subseteq Requests
  /\ cancel \in [Requests ->
       [pc : {"none", "signalled", "answered", "failed"} \cup Killing,
        target : Conns \cup {NoConn}, via : Conns \cup {NoConn}, confirmed : BOOLEAN,
        attempt : 0..2]]
  /\ early \subseteq Requests
  /\ missed \subseteq Requests

Init ==
  /\ stage = [r \in Requests |-> "idle"]
  /\ path = [r \in Requests |-> "legacy"]
  /\ attempt = [r \in Requests |-> 0]
  /\ total = [r \in Requests |-> 0]
  /\ left = [r \in Requests |-> 0]
  /\ result = [r \in Requests |-> "none"]
  /\ emitted = [r \in Requests |-> 0]
  /\ truncated = [r \in Requests |-> FALSE]
  /\ capped = [r \in Requests |-> FALSE]
  /\ active = [r \in Requests |-> 0]
  /\ fired = [r \in Requests |-> {}]
  /\ slots = [r \in Requests |-> NoSlot]
  /\ conn = [r \in Requests |-> NoConn]
  /\ pool = [c \in Conns |-> "free"]
  /\ server = [c \in Conns |-> NoRequest]
  /\ arrived = {}
  /\ reply = [r \in Requests |-> "none"]
  /\ polled = {}
  /\ cancel = [r \in Requests |-> NoCancel]
  /\ early = {}
  /\ missed = {}

Enter(r, s) == stage' = [stage EXCEPT ![r] = s]
Return(r, v) == result' = [result EXCEPT ![r] = v]

-----------------------------------------------------------------------------
(***************************************************************************)
(* The front end: queryStore.executeQuery.                                 *)
(***************************************************************************)

\* executeQuery invokes a command. Only a single statement is eligible for the
\* progressive one (isProgressiveEligible).
Submit(r) ==
  /\ stage[r] = "idle"
  /\ \E p \in {"legacy", "progressive"}, n \in 1..MaxStatements :
       /\ p = "progressive" => n = 1
       /\ path' = [path EXCEPT ![r] = p]
       /\ total' = [total EXCEPT ![r] = n]
       /\ left' = [left EXCEPT ![r] = n]
  /\ attempt' = [attempt EXCEPT ![r] = 1]
  /\ Enter(r, "submitted")
  /\ UNCHANGED <<result, deliveryVars, tokenVars, driverVars, cancelVars>>

\* A progressive attempt that failed as a transport or unsupported error is run
\* again, under the same request id, by execute_query. The messages of a
\* cancelled or timed out attempt match PROGRESSIVE_FALLBACK_DENY.
Fallback(r) ==
  /\ stage[r] = "returned"
  /\ path[r] = "progressive"
  /\ result[r] \in {"error", "refused"}
  /\ path' = [path EXCEPT ![r] = "legacy"]
  /\ attempt' = [attempt EXCEPT ![r] = 2]
  /\ left' = [left EXCEPT ![r] = total[r]]
  /\ Return(r, "none")
  /\ Enter(r, "submitted")
  /\ UNCHANGED <<total, deliveryVars, tokenVars, driverVars, cancelVars>>

\* executeQuery settles and clears activeQueryRequestId. The locals of the command
\* are gone.
Settle(r) ==
  /\ stage[r] = "returned"
  /\ Enter(r, "done")
  /\ Return(r, "none")
  /\ path' = [path EXCEPT ![r] = "legacy"]
  /\ left' = [left EXCEPT ![r] = 0]
  /\ fired' = [fired EXCEPT ![r] = {}]
  /\ emitted' = [emitted EXCEPT ![r] = 0]
  /\ truncated' = [truncated EXCEPT ![r] = FALSE]
  /\ capped' = [capped EXCEPT ![r] = FALSE]
  /\ UNCHANGED <<attempt, total, active, driverVars, cancelVars>>

-----------------------------------------------------------------------------
(***************************************************************************)
(* execute_query and execute_query_progressive.                            *)
(***************************************************************************)

\* The read-only pin, Safe Mode, the capability gate or get_driver refuses
\* before the token is registered.
Refuse(r) ==
  /\ stage[r] = "submitted"
  /\ Return(r, "refused")
  /\ Enter(r, "returned")
  /\ UNCHANGED <<commandVars, left, deliveryVars, tokenVars, driverVars,
                 cancelVars>>

\* Mutant of Register: an entry already there is kept.
RegisterKeepsEntry(r) ==
  /\ stage[r] = "submitted"
  /\ active' = [active EXCEPT ![r] = IF @ = 0 THEN attempt[r] ELSE @]
  /\ Enter(r, "waiting")
  /\ UNCHANGED <<commandVars, left, result, deliveryVars, fired, driverVars,
                 cancelVars>>

\* QueryCancellationState::register replaces the id's token and cancels the
\* one it replaced.
Register(r) ==
  /\ stage[r] = "submitted"
  /\ active' = [active EXCEPT ![r] = attempt[r]]
  /\ fired' = [fired EXCEPT ![r] = IF active[r] = 0 THEN @ ELSE @ \cup {active[r]}]
  /\ Enter(r, "waiting")
  /\ UNCHANGED <<commandVars, left, result, deliveryVars, driverVars, cancelVars>>

\* `select!` polls the execution and the token whenever it is woken, in random
\* order: once the token fired, the execution takes at most one more step.
MayPoll(r) == r \notin polled
Poll(r) == polled' = IF attempt[r] \in fired[r] THEN polled \cup {r} ELSE polled

\* pool.acquire, then CancelScopeGuard::begin, which keeps a slot already there.
Acquire(r, c) ==
  /\ stage[r] = "waiting"
  /\ MayPoll(r)
  /\ pool[c] = "free"
  /\ pool' = [pool EXCEPT ![c] = "busy"]
  /\ conn' = [conn EXCEPT ![r] = c]
  /\ slots' = [slots EXCEPT ![r] = IF slots[r].open THEN slots[r]
                                   ELSE Slot(TRUE, NoConn, FALSE)]
  /\ Enter(r, "begun")
  /\ Poll(r)
  /\ UNCHANGED <<commandVars, left, result, deliveryVars, tokenVars, server, arrived,
                 reply, cancelVars>>

\* Mutant of LeaveDriver: no guard removes the slot.
LeaveDriverKeepsSlot(r) ==
  /\ conn' = [conn EXCEPT ![r] = NoConn]
  /\ reply' = [reply EXCEPT ![r] = "none"]
  /\ polled' = polled \ {r}
  /\ pool' = [c \in Conns |-> IF c # conn[r] THEN pool[c]
                              ELSE IF server[c] = r THEN "draining" ELSE "free"]
  /\ UNCHANGED slots

\* Mutant of LeaveDriver: the connection is free though its statement still runs.
LeaveDriverFreesConnection(r) ==
  /\ slots' = [slots EXCEPT ![r] = NoSlot]
  /\ conn' = [conn EXCEPT ![r] = NoConn]
  /\ reply' = [reply EXCEPT ![r] = "none"]
  /\ polled' = polled \ {r}
  /\ pool' = [c \in Conns |-> IF c = conn[r] THEN "free" ELSE pool[c]]

\* What dropping or finishing the execution future does: the scope guard removes
\* the slot, and the pool takes the connection back, once a statement abandoned
\* on it has ended (sqlx pings a connection returned in the middle of a reply).
LeaveDriver(r) ==
  /\ slots' = [slots EXCEPT ![r] = NoSlot]
  /\ conn' = [conn EXCEPT ![r] = NoConn]
  /\ reply' = [reply EXCEPT ![r] = "none"]
  /\ polled' = polled \ {r}
  /\ pool' = [c \in Conns |-> IF c # conn[r] THEN pool[c]
                              ELSE IF server[c] = r THEN "draining" ELSE "free"]

\* The execution future returned an error. execute_query then finishes its
\* token; the progressive command leaves through `?` without doing so.
ExecutionFails(r, v) ==
  /\ Return(r, v)
  /\ Enter(r, IF path[r] = "progressive" THEN "returned" ELSE "finishing")

\* No connection within the pool's acquire_timeout, or the backend id query fails.
SetupFails(r) ==
  /\ stage[r] \in {"waiting", "begun"}
  /\ MayPoll(r)
  /\ LeaveDriver(r)
  /\ ExecutionFails(r, "error")
  /\ UNCHANGED <<commandVars, left, deliveryVars, tokenVars, server, arrived,
                 cancelVars>>

\* Mutant of RegisterBackend: the answer of register_backend is ignored.
RegisterBackendIgnoresCancel(r) ==
  /\ stage[r] = "begun"
  /\ MayPoll(r)
  /\ slots' = [slots EXCEPT ![r] = Slot(TRUE, conn[r], slots[r].cancelled)]
  /\ server' = [server EXCEPT ![conn[r]] = r]
  /\ left' = [left EXCEPT ![r] = @ - 1]
  /\ Enter(r, "running")
  /\ Poll(r)
  /\ UNCHANGED <<commandVars, deliveryVars, tokenVars, cancelVars, conn, reply,
                 arrived, pool, result>>

\* register_backend records the connection's backend id. It reports a cancel
\* that was requested before, and then no statement is sent. Otherwise the first
\* statement is written to the connection and the server has still to receive it.
RegisterBackend(r) ==
  /\ stage[r] = "begun"
  /\ MayPoll(r)
  /\ IF slots[r].cancelled
     THEN /\ LeaveDriver(r)
          /\ ExecutionFails(r, "cancelled")
          /\ UNCHANGED <<server, left>>
     ELSE /\ slots' = [slots EXCEPT ![r] = Slot(TRUE, conn[r], slots[r].cancelled)]
          /\ server' = [server EXCEPT ![conn[r]] = r]
          /\ left' = [left EXCEPT ![r] = @ - 1]
          /\ Enter(r, "running")
          /\ Poll(r)
          /\ UNCHANGED <<conn, reply, pool, result>>
  /\ UNCHANGED <<commandVars, deliveryVars, tokenVars, arrived, cancelVars>>

\* The result the driver has so far: the last statement that returned rows decides
\* whether it is capped, a statement without rows leaves it alone.
ResultSoFar(r) ==
  \E noRows \in BOOLEAN :
    capped' = [capped EXCEPT ![r] = reply[r] = "capped" \/ (noRows /\ capped[r])]

\* execute_query_on_conn sends the next statement of the batch. The connection is
\* read to the end of the reply before, also after a capped one.
NextStatement(r) ==
  /\ stage[r] = "running"
  /\ MayPoll(r)
  /\ reply[r] \in {"rows", "capped"}
  /\ server[conn[r]] = NoRequest
  /\ left[r] > 0
  /\ Poll(r)
  /\ ResultSoFar(r)
  /\ server' = [server EXCEPT ![conn[r]] = r]
  /\ left' = [left EXCEPT ![r] = @ - 1]
  /\ reply' = [reply EXCEPT ![r] = "none"]
  /\ UNCHANGED <<stage, commandVars, result, emitted, truncated, tokenVars, slots,
                 conn, arrived, pool, cancelVars>>

\* The driver returns its result, marked if it was capped. A capped reply may still
\* be streaming on the connection that is given back.
Succeed(r) ==
  /\ stage[r] = "running"
  /\ MayPoll(r)
  /\ reply[r] \in {"rows", "capped"}
  /\ left[r] = 0
  /\ LeaveDriver(r)
  /\ ResultSoFar(r)
  /\ truncated' = [truncated EXCEPT ![r] = capped'[r]]
  /\ Return(r, "ok")
  /\ Enter(r, IF path[r] = "progressive" THEN "emitting" ELSE "finishing")
  /\ UNCHANGED <<commandVars, left, emitted, tokenVars, server, arrived, cancelVars>>

\* The text of a killed statement's error allows no fallback, so it counts as
\* cancelled.
Fail(r) ==
  /\ stage[r] = "running"
  /\ MayPoll(r)
  /\ reply[r] \in {"error", "killed"}
  /\ LeaveDriver(r)
  /\ ExecutionFails(r, IF reply[r] = "killed" THEN "cancelled" ELSE "error")
  /\ UNCHANGED <<commandVars, left, deliveryVars, tokenVars, server, arrived,
                 cancelVars>>

\* The branches of `select!` that drop the execution future: the token of this
\* attempt, and the timeout around the future.
Abandon(r, v) ==
  /\ stage[r] \in Executing
  /\ LeaveDriver(r)
  /\ Return(r, v)
  /\ Enter(r, "finishing")
  /\ UNCHANGED <<commandVars, left, deliveryVars, tokenVars, server, arrived,
                 cancelVars>>

\* Mutant of TimesOut: `timeout` only around the statement, not around acquire.
TimesOutRunningOnly(r) == stage[r] = "running" /\ MayPoll(r) /\ Abandon(r, "timeout")

TokenWins(r) == attempt[r] \in fired[r] /\ Abandon(r, "cancelled")
TimesOut(r) == MayPoll(r) /\ Abandon(r, "timeout")

\* Mutant of Emit: the loop breaks without marking the result.
EmitBreaksSilently(r) ==
  /\ stage[r] = "emitting"
  /\ emitted[r] < Batches
  /\ IF attempt[r] \in fired[r]
     THEN Enter(r, "finishing") /\ UNCHANGED emitted
     ELSE emitted' = [emitted EXCEPT ![r] = @ + 1] /\ UNCHANGED stage
  /\ UNCHANGED <<truncated, capped, commandVars, left, result, tokenVars, driverVars,
                 cancelVars>>

\* One turn of the emission loop: a cancelled token truncates the result.
Emit(r) ==
  /\ stage[r] = "emitting"
  /\ emitted[r] < Batches
  /\ IF attempt[r] \in fired[r]
     THEN /\ truncated' = [truncated EXCEPT ![r] = TRUE]
          /\ Enter(r, "finishing")
          /\ UNCHANGED emitted
     ELSE /\ emitted' = [emitted EXCEPT ![r] = @ + 1]
          /\ UNCHANGED <<truncated, stage>>
  /\ UNCHANGED <<capped, commandVars, left, result, tokenVars, driverVars, cancelVars>>

EmissionEnds(r) ==
  /\ stage[r] = "emitting"
  /\ emitted[r] = Batches
  /\ Enter(r, "finishing")
  /\ UNCHANGED <<commandVars, left, result, deliveryVars, tokenVars, driverVars,
                 cancelVars>>

\* QueryCancellationState::finish, then the command returns.
Finish(r) ==
  /\ stage[r] = "finishing"
  /\ active' = [active EXCEPT ![r] = 0]
  /\ Enter(r, "returned")
  /\ UNCHANGED <<commandVars, left, result, deliveryVars, fired, driverVars,
                 cancelVars>>

-----------------------------------------------------------------------------
(***************************************************************************)
(* The server, external to the repository.                                 *)
(***************************************************************************)

\* The server receives the statement written to c.
StatementArrives(c) ==
  /\ server[c] # NoRequest
  /\ arrived' = arrived \cup {c}
  /\ c \notin arrived
  /\ UNCHANGED <<stage, commandVars, left, result, deliveryVars, tokenVars, slots,
                 conn, pool, server, reply, polled, cancelVars>>

\* fetch_rows_capped reads a row beyond MAX_QUERY_RESULT_ROWS and returns what it has,
\* while the server goes on sending.
RowsCapped(c) ==
  /\ c \in arrived
  /\ pool[c] = "busy"
  /\ reply[server[c]] = "none"
  /\ reply' = [reply EXCEPT ![server[c]] = "capped"]
  /\ UNCHANGED <<stage, commandVars, left, result, deliveryVars, tokenVars, slots,
                 conn, pool, server, arrived, polled, cancelVars>>

\* Nobody reads how a capped reply ends, except a next statement on its connection.
Answer(r, v) ==
  IF reply[r] = "capped" /\ (v = "rows" \/ left[r] = 0) THEN "capped" ELSE v

\* The statement on c ends. Its reply reaches the future that holds c; when that
\* future was dropped, the pool takes c back.
StatementEnds(c, v) ==
  /\ server' = [server EXCEPT ![c] = NoRequest]
  /\ arrived' = arrived \ {c}
  /\ IF pool[c] = "draining"
     THEN /\ pool' = [pool EXCEPT ![c] = "free"]
          /\ UNCHANGED reply
     ELSE /\ reply' = [reply EXCEPT ![server[c]] = Answer(server[c], v)]
          /\ UNCHANGED pool

ServerReplies(c) ==
  /\ c \in arrived
  /\ \E v \in {"rows", "error"} : StatementEnds(c, v)
  /\ UNCHANGED <<stage, commandVars, left, result, deliveryVars, tokenVars, slots,
                 conn, polled, cancelVars>>

-----------------------------------------------------------------------------
(***************************************************************************)
(* cancel_query. queryStore.cancelQuery sends it for the request it holds  *)
(* as active. The model sends at most one for each request.                *)
(***************************************************************************)

\* QueryCancellationState::cancel: fire the registered token, if there is one.
CancelSignal(r) ==
  /\ r \in Cancellable
  /\ stage[r] \notin {"idle", "done"}
  /\ cancel[r].pc = "none"
  /\ fired' = [fired EXCEPT ![r] = IF active[r] = 0 THEN @ ELSE @ \cup {active[r]}]
  /\ cancel' = [cancel EXCEPT ![r] =
                  CancelState("signalled", NoConn, NoConn, FALSE, attempt[r])]
  /\ early' = IF stage[r] \in {"submitted", "waiting", "begun"}
              THEN early \cup {r} ELSE early
  /\ UNCHANGED <<stage, commandVars, left, result, deliveryVars, active, driverVars,
                 missed>>

\* The driver looks the slot up and marks it (QueryCancelRegistry::request_cancel):
\* a known backend id has to be killed, NotRunning and Pending answer at once, and
\* only Pending confirms.
CancelLookup(r) ==
  /\ cancel[r].pc = "signalled"
  /\ IF slots[r].open
     THEN slots' = [slots EXCEPT ![r] = Slot(TRUE, slots[r].backend, TRUE)]
     ELSE UNCHANGED slots
  /\ cancel' = [cancel EXCEPT ![r] =
                  IF slots[r].backend # NoConn
                  THEN CancelState("killing", slots[r].backend, NoConn, FALSE, attempt[r])
                  ELSE CancelState("answered", NoConn, NoConn, slots[r].open, attempt[r])]
  /\ UNCHANGED <<stage, commandVars, left, result, deliveryVars, tokenVars, conn, pool,
                 server, arrived, reply, polled, early, missed>>

\* KILL QUERY or pg_cancel_backend goes out on another connection of the pool, once
\* one is free.
CancelKill(r, d) ==
  /\ cancel[r].pc = "killing"
  /\ pool[d] = "free"
  /\ pool' = [pool EXCEPT ![d] = "busy"]
  /\ cancel' = [cancel EXCEPT ![r].pc = "sent", ![r].via = d]
  /\ UNCHANGED <<stage, commandVars, left, result, deliveryVars, tokenVars, slots, conn,
                 server, arrived, reply, polled, early, missed>>

\* The server runs the kill: it stops whatever the target connection runs, and does
\* nothing to an idle one, also when a statement is on its way to it.
KillLands(r) ==
  LET target == cancel[r].target
  IN  /\ cancel[r].pc = "sent"
      /\ cancel' = [cancel EXCEPT ![r].pc = "landed"]
      /\ IF target \in arrived
         THEN StatementEnds(target, "killed") /\ UNCHANGED missed
         ELSE /\ missed' = IF server[target] = r THEN missed \cup {r} ELSE missed
              /\ UNCHANGED <<server, arrived, pool, reply>>
      /\ UNCHANGED <<stage, commandVars, left, result, deliveryVars, tokenVars, slots,
                     conn, polled, early>>

\* The connection that carried the KILL is free again, and cancel_query answers.
KillReturns(r, pc, confirmed) ==
  /\ pool' = [pool EXCEPT ![cancel[r].via] = "free"]
  /\ cancel' = [cancel EXCEPT ![r] =
                  CancelState(pc, NoConn, NoConn, confirmed, cancel[r].attempt)]
  /\ UNCHANGED <<stage, commandVars, left, result, deliveryVars, tokenVars, slots, conn,
                 server, arrived, reply, polled, early, missed>>

\* The KILL is awaited without a timeout: only its reply, or an error of its
\* connection, ends the wait.
KillAnswers(r) == cancel[r].pc = "landed" /\ KillReturns(r, "answered", TRUE)
KillFails(r) == cancel[r].pc \in OnItsWay /\ KillReturns(r, "failed", FALSE)

\* The cancel_query of r answers with an error.
CancelError(r) ==
  /\ cancel' = [cancel EXCEPT ![r] =
                  CancelState("failed", NoConn, NoConn, FALSE, cancel[r].attempt)]
  /\ UNCHANGED <<stage, commandVars, left, result, deliveryVars, tokenVars, driverVars,
                 early, missed>>

\* Mutant of CancelFails: no acquire_timeout on the second connection.
CancelFailsBeforeKill(r) == cancel[r].pc = "signalled" /\ CancelError(r)

\* The driver is gone, or no second connection came within acquire_timeout. Once it
\* has one, only the server ends the wait.
CancelFails(r) == cancel[r].pc \in {"signalled", "killing"} /\ CancelError(r)

-----------------------------------------------------------------------------
FrontEnd(r) == Submit(r) \/ Fallback(r) \/ Settle(r)

\* The steps a command takes by itself, without the server or a timer.
Command(r) ==
  \/ Refuse(r) \/ Register(r) \/ RegisterBackend(r)
  \/ NextStatement(r) \/ Succeed(r) \/ Fail(r)
  \/ Emit(r) \/ EmissionEnds(r) \/ Finish(r)
  \/ \E c \in Conns : Acquire(r, c)

CancelSteps(r) ==
  CancelLookup(r) \/ CancelFails(r) \/ \E d \in Conns : CancelKill(r, d)

KillReply(r) == KillAnswers(r) \/ KillFails(r)

CancelCommand(r) == CancelSignal(r) \/ CancelSteps(r) \/ KillLands(r) \/ KillReply(r)

ServerSteps(c) == StatementArrives(c) \/ RowsCapped(c) \/ ServerReplies(c)

AllSettled ==
  \A r \in Requests : stage[r] = "done" /\ cancel[r].pc \in {"none", "answered", "failed"}

\* Every request is settled, and the server has nothing left to do.
Terminated ==
  /\ AllSettled
  /\ \A c \in Conns : server[c] = NoRequest
  /\ UNCHANGED vars

Next ==
  \/ \E r \in Requests :
       \/ FrontEnd(r) \/ Command(r) \/ SetupFails(r) \/ TokenWins(r) \/ TimesOut(r)
       \/ CancelCommand(r)
  \/ \E c \in Conns : ServerSteps(c)
  \/ Terminated

Spec == Init /\ [][Next]_vars

\* Tokio runs a ready command, `select!` polls a fired token, the front end reads
\* an answer. Nothing is assumed of the server, nor of the user.
Fairness ==
  \A r \in Requests :
    /\ WF_vars(Command(r))
    /\ WF_vars(TokenWins(r))
    /\ WF_vars(Fallback(r) \/ Settle(r))
    /\ WF_vars(CancelSteps(r))

FairSpec == Spec /\ Fairness

\* The timeout of a command fires.
TimersFire == \A r \in Requests : WF_vars(TimesOut(r))

\* The server answers a KILL, or its connection breaks.
KillsAnswer ==
  \A r \in Requests : WF_vars(KillLands(r)) /\ WF_vars(KillReply(r))

-----------------------------------------------------------------------------
(***************************************************************************)
(* Properties.                                                             *)
(***************************************************************************)

\* The driver's registry has a slot for exactly the requests whose scope guard
\* is alive, and knows the backend id of exactly those that may have a statement
\* on the server: no exit of the execution future, by reply, error, cancel or
\* timeout, leaves one behind (QUERY_LIFECYCLE.md, Cancel, step 5).
SlotsFollowScopes ==
  \A r \in Requests :
    /\ slots[r].open <=> stage[r] \in InScope
    /\ slots[r].backend = (IF stage[r] = "running" THEN conn[r] ELSE NoConn)

\* The connection c is held by a command, or by the KILL of a cancel_query.
Held(c) == \E r \in Requests : conn[r] = c \/ cancel[r].via = c

\* Dropping a future in the middle of a statement never hands its connection to
\* another request, nor loses it: a busy connection has exactly one holder, a
\* free one runs nothing, and a statement runs for the holder of its connection
\* or on one the pool is still waiting for.
ConnectionsAccounted ==
  /\ \A c \in Conns :
       /\ pool[c] = "busy" <=> Held(c)
       /\ pool[c] = "free" => server[c] = NoRequest
       /\ pool[c] = "draining" => server[c] # NoRequest
       /\ pool[c] = "busy" /\ server[c] # NoRequest => conn[server[c]] = c
  /\ \A r, q \in Requests :
       /\ conn[r] = conn[q] /\ conn[r] # NoConn => r = q
       /\ cancel[r].via = cancel[q].via /\ cancel[r].via # NoConn => r = q
       /\ conn[r] = cancel[q].via => conn[r] = NoConn

\* While a command is in flight its own token is the one registered under its
\* id, also when an earlier attempt under that id left a token behind: a cancel
\* that arrives then is never lost.
InFlightIsCancellable ==
  \A r \in Requests : stage[r] \in InFlight => active[r] = attempt[r]

\* No statement of a request is under way once cancel_query has answered
\* server_confirmed for that attempt.
ConfirmedMeansStopped(r) ==
  /\ cancel[r].pc = "answered"
  /\ cancel[r].confirmed
  /\ cancel[r].attempt = attempt[r]
  => \A c \in Conns : server[c] # r

\* It holds of a text of one statement, whichever of token, lookup, kill, reply and
\* timeout came first, unless the kill overtook the statement between its backend
\* id's registration and its arrival.
ConfirmedStopsOne ==
  \A r \in Requests : total[r] = 1 /\ r \notin missed => ConfirmedMeansStopped(r)

\* And of every text of one statement, as the answer claims
\* (commands/query/mod.rs:203): violated, a kill that finds its target idle is
\* confirmed, and the statement on its way to it runs.
ConfirmedStopsAnyOne == \A r \in Requests : total[r] = 1 => ConfirmedMeansStopped(r)

\* And of a batch whose kill found a statement or none on its way: violated, the
\* driver may send the next statement of the batch after the kill.
ConfirmedStopsBatch == \A r \in Requests : r \notin missed => ConfirmedMeansStopped(r)

\* A progressive result is marked truncated exactly when rows are missing: the driver
\* stopped at its row cap, or the loop before its last row batch. Neither mark is
\* lost to the other, wherever the token fires.
TruncationIsTold ==
  \A r \in Requests :
    path[r] = "progressive" /\ result[r] = "ok" /\ stage[r] # "emitting"
      => (truncated[r] <=> capped[r] \/ emitted[r] < Batches)

\* A cancel that ended the command and answered without an error leaves no
\* statement of that attempt on the server (QUERY_LIFECYCLE.md, Cancel, steps 1 to
\* 3): violated, the token may drop the scope guard before the lookup.
CancelReachesServer ==
  \A r \in Requests :
    /\ cancel[r].pc = "answered" /\ cancel[r].attempt = attempt[r]
    /\ result[r] = "cancelled" /\ total[r] = 1
    => \A c \in Conns : server[c] # r

\* A cancel that arrives before the backend id is registered keeps the user's SQL
\* from starting (QUERY_LIFECYCLE.md, Cancel, step 4): violated before the token
\* and the slot exist.
EarlyCancelAborts ==
  \A r \in Requests :
    cancel[r].pc = "answered" /\ r \in early
      => \A c \in Conns : server[c] # r

\* A registered token belongs to a command in flight (commands/query/mod.rs:344):
\* violated by a progressive command that fails.
TokensEndWithCommands == \A r \in Requests : active[r] # 0 => stage[r] \in InFlight

\* Every request is answered, though the server may never reply and every
\* connection may be stuck: its timer fires, wherever it waits.
EveryRequestSettles ==
  TimersFire => \A r \in Requests : stage[r] = "submitted" ~> stage[r] = "done"

\* Every cancel_query is answered, though it needs a second connection of the
\* pool its own request may have exhausted. Of the server it needs one thing: that
\* it answers the KILL, which is awaited without a timeout.
EveryCancelAnswers ==
  KillsAnswer => \A r \in Requests :
    cancel[r].pc = "signalled" ~> cancel[r].pc \in {"answered", "failed"}

\* Every cancel_query is answered, whatever the server does: violated by a KILL that
\* is never answered.
CancelAnswersAnyway ==
  \A r \in Requests : cancel[r].pc = "signalled" ~> cancel[r].pc \in {"answered", "failed"}
=============================================================================
