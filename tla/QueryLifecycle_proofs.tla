----------------------- MODULE QueryLifecycle_proofs -----------------------
(***************************************************************************)
(* Proofs about QueryLifecycle, for any requests, pool and batch sizes.    *)
(***************************************************************************)
EXTENDS QueryLifecycle, TLAPS

\* Statements are left to send until the command sends the first one.
StatementsLeft ==
  \A r \in Requests :
    /\ stage[r] # "idle" => total[r] > 0
    /\ stage[r] \in {"submitted", "waiting", "begun"} => left[r] = total[r]

\* TypeOK in three parts, as steps disturb them.
CommandTypes ==
  /\ stage \in [Requests -> Stages]
  /\ path \in [Requests -> {"legacy", "progressive"}]
  /\ attempt \in [Requests -> 0..2]
  /\ total \in [Requests -> 0..MaxStatements]
  /\ left \in [Requests -> 0..MaxStatements]
  /\ result \in [Requests -> Results]
  /\ emitted \in [Requests -> 0..Batches]
  /\ truncated \in [Requests -> BOOLEAN]
  /\ capped \in [Requests -> BOOLEAN]
  /\ active \in [Requests -> 0..2]
  /\ fired \in [Requests -> SUBSET (0..2)]

DriverTypes ==
  /\ slots \in [Requests -> [open : BOOLEAN, backend : Conns \cup {NoConn},
                             cancelled : BOOLEAN]]
  /\ conn \in [Requests -> Conns \cup {NoConn}]
  /\ pool \in [Conns -> {"free", "busy", "draining"}]
  /\ server \in [Conns -> Requests \cup {NoRequest}]
  /\ arrived \subseteq Conns
  /\ reply \in [Requests -> Replies]
  /\ polled \subseteq Requests

CancelTypes ==
  /\ cancel \in [Requests ->
       [pc : {"none", "signalled", "answered", "failed"} \cup Killing,
        target : Conns \cup {NoConn}, via : Conns \cup {NoConn}, confirmed : BOOLEAN,
        attempt : 0..2]]
  /\ early \subseteq Requests
  /\ missed \subseteq Requests

\* A kill has a target, and a connection that carries it as long as it is on its way.
KillTargets ==
  \A r \in Requests :
    /\ cancel[r].pc \in Killing => cancel[r].target # NoConn
    /\ cancel[r].via # NoConn <=> cancel[r].pc \in OnItsWay

\* What arrived at the server has not ended.
ArrivedRun == \A c \in arrived : server[c] # NoRequest

TypeInv == TypeOK /\ StatementsLeft /\ KillTargets /\ ArrivedRun

LEMMA TypesAreTypeOK ==
  /\ TypeOK <=> CommandTypes /\ DriverTypes /\ CancelTypes
  /\ TypeOK' <=> CommandTypes' /\ DriverTypes' /\ CancelTypes'
  BY DEF TypeOK, CommandTypes, DriverTypes, CancelTypes

LEMMA UnchangedDriver ==
  ASSUME DriverTypes, ArrivedRun, UNCHANGED driverVars
  PROVE  DriverTypes' /\ ArrivedRun'
  BY DEF DriverTypes, ArrivedRun, driverVars

LEMMA UnchangedCancel ==
  ASSUME CancelTypes, KillTargets, UNCHANGED cancelVars
  PROVE  CancelTypes' /\ KillTargets'
  BY DEF CancelTypes, KillTargets, cancelVars

LEMMA UnchangedCommand ==
  ASSUME CommandTypes, StatementsLeft,
         UNCHANGED <<stage, commandVars, left, result, deliveryVars, tokenVars>>
  PROVE  CommandTypes' /\ StatementsLeft'
  BY DEF CommandTypes, StatementsLeft, commandVars, deliveryVars, tokenVars

LEMMA SlotUpdateType ==
  ASSUME DriverTypes, NEW r \in Requests, NEW o \in BOOLEAN,
         NEW b \in Conns \cup {NoConn}, NEW k \in BOOLEAN,
         slots' = [slots EXCEPT ![r] = Slot(o, b, k)],
         (conn' \in [Requests -> Conns \cup {NoConn}]),
         (pool' \in [Conns -> {"free", "busy", "draining"}]),
         (server' \in [Conns -> Requests \cup {NoRequest}]),
         arrived' \subseteq Conns,
         (reply' \in [Requests -> Replies]),
         polled' \subseteq Requests
  PROVE  DriverTypes'
  <1>1. Slot(o, b, k) \in [open : BOOLEAN, backend : Conns \cup {NoConn},
                          cancelled : BOOLEAN]
    BY DEF Slot
  <1>2. QED
    BY <1>1 DEF DriverTypes

LEMMA LeaveDriverType ==
  ASSUME DriverTypes, ArrivedRun, NEW r \in Requests, LeaveDriver(r),
         UNCHANGED <<server, arrived>>
  PROVE  DriverTypes' /\ ArrivedRun'
  BY DEF DriverTypes, ArrivedRun, LeaveDriver, NoSlot, Slot, Replies

\* The connection that carried a KILL becomes free.
LEMMA PoolUpdateType ==
  ASSUME DriverTypes, ArrivedRun, NEW d, NEW v \in {"free", "busy"},
         pool' = [pool EXCEPT ![d] = v],
         UNCHANGED <<slots, conn, server, arrived, reply, polled>>
  PROVE  DriverTypes' /\ ArrivedRun'
  BY DEF DriverTypes, ArrivedRun

LEMMA StatementEndsType ==
  ASSUME DriverTypes, ArrivedRun, NEW c \in Conns, server[c] # NoRequest,
         NEW v \in {"rows", "error", "killed"}, StatementEnds(c, v),
         UNCHANGED <<slots, conn, polled>>
  PROVE  DriverTypes' /\ ArrivedRun'
  <1> USE DEF Answer, Replies, ArrivedRun
  <1>1. server[c] \in Requests
    BY DEF DriverTypes
  <1>2. CASE pool[c] = "draining"
    BY <1>1, <1>2 DEF DriverTypes, StatementEnds
  <1>3. CASE pool[c] # "draining"
    BY <1>1, <1>3 DEF DriverTypes, StatementEnds
  <1>4. QED
    BY <1>2, <1>3

\* The command ends its execution: it keeps its types.
LEMMA LeavingType ==
  ASSUME CommandTypes, StatementsLeft, NEW r \in Requests, stage[r] # "idle",
         NEW s \in {"emitting", "finishing", "returned"}, Enter(r, s),
         NEW v \in Results, Return(r, v),
         (truncated' \in [Requests -> BOOLEAN]), (capped' \in [Requests -> BOOLEAN]),
         UNCHANGED <<commandVars, left, emitted, tokenVars>>
  PROVE  CommandTypes' /\ StatementsLeft'
  BY DEF CommandTypes, StatementsLeft, Enter, Return, commandVars, tokenVars, Stages,
     Results

LEMMA LeavingUnmarkedType ==
  ASSUME CommandTypes, StatementsLeft, NEW r \in Requests, stage[r] # "idle",
         NEW s \in {"emitting", "finishing", "returned"}, Enter(r, s),
         NEW v \in Results, Return(r, v),
         UNCHANGED <<commandVars, left, deliveryVars, tokenVars>>
  PROVE  CommandTypes' /\ StatementsLeft'
  BY LeavingType DEF CommandTypes, deliveryVars

LEMMA ResultSoFarType ==
  ASSUME CommandTypes, NEW r \in Requests, ResultSoFar(r)
  PROVE  /\ capped' \in [Requests -> BOOLEAN]
         /\ \A q \in Requests \ {r} : capped'[q] = capped[q]
  <1>1. PICK b \in BOOLEAN : capped' = [capped EXCEPT ![r] = b]
    BY Zenon DEF ResultSoFar
  <1>2. QED
    BY <1>1 DEF CommandTypes

LEMMA ExecutionFailsType ==
  ASSUME CommandTypes, StatementsLeft, NEW r \in Requests, stage[r] # "idle",
         NEW v \in Results, ExecutionFails(r, v),
         UNCHANGED <<commandVars, left, deliveryVars, tokenVars>>
  PROVE  CommandTypes' /\ StatementsLeft'
  <1> DEFINE s == IF path[r] = "progressive" THEN "returned" ELSE "finishing"
  <1>1. s \in {"emitting", "finishing", "returned"}
    OBVIOUS
  <1>2. Enter(r, s) /\ Return(r, v)
    BY DEF ExecutionFails
  <1>3. QED
    BY <1>1, <1>2, LeavingUnmarkedType

LEMMA FrontEndType ==
  ASSUME TypeInv, NEW r \in Requests, FrontEnd(r)
  PROVE  TypeInv'
  <1> USE QueryConstants DEF commandVars, deliveryVars, tokenVars, Enter, Return, Stages,
        Results
  <1>0. /\ CommandTypes /\ DriverTypes /\ CancelTypes /\ StatementsLeft
        /\ KillTargets /\ ArrivedRun
    BY TypesAreTypeOK DEF TypeInv
  <1>1. CommandTypes' /\ StatementsLeft'
    <2>1. CASE Submit(r)
      BY <1>0, <2>1 DEF Submit, CommandTypes, StatementsLeft
    <2>2. CASE Fallback(r)
      BY <1>0, <2>2 DEF Fallback, CommandTypes, StatementsLeft
    <2>3. CASE Settle(r)
      BY <1>0, <2>3 DEF Settle, CommandTypes, StatementsLeft
    <2>4. QED
      BY <2>1, <2>2, <2>3 DEF FrontEnd
  <1>2. DriverTypes' /\ ArrivedRun' /\ CancelTypes' /\ KillTargets'
    <2>1. UNCHANGED driverVars /\ UNCHANGED cancelVars
      BY DEF FrontEnd, Submit, Fallback, Settle, driverVars, cancelVars
    <2>2. QED
      BY <1>0, <2>1, UnchangedDriver, UnchangedCancel
  <1>3. QED
    BY <1>1, <1>2, TypesAreTypeOK DEF TypeInv

LEMMA CommandType ==
  ASSUME TypeInv, NEW r \in Requests, Command(r)
  PROVE  TypeInv'
  <1> USE QueryConstants DEF commandVars, deliveryVars, tokenVars, Enter, Return, Stages,
        Results
  <1>0. /\ CommandTypes /\ DriverTypes /\ CancelTypes /\ StatementsLeft
        /\ KillTargets /\ ArrivedRun
    BY TypesAreTypeOK DEF TypeInv
  <1>1. ASSUME Refuse(r) \/ Register(r) \/ EmissionEnds(r) \/ Finish(r) \/ Emit(r)
        PROVE  CommandTypes' /\ StatementsLeft' /\ DriverTypes' /\ ArrivedRun'
    <2>1. UNCHANGED driverVars
      BY <1>1 DEF Refuse, Register, EmissionEnds, Finish, Emit, driverVars
    <2>2. CommandTypes' /\ StatementsLeft'
      <3>1. CASE Refuse(r)
        BY <1>0, <3>1 DEF Refuse, CommandTypes, StatementsLeft
      <3>2. CASE Register(r)
        BY <1>0, <3>2 DEF Register, CommandTypes, StatementsLeft
      <3>3. CASE EmissionEnds(r)
        BY <1>0, <3>3 DEF EmissionEnds, CommandTypes, StatementsLeft
      <3>4. CASE Finish(r)
        BY <1>0, <3>4 DEF Finish, CommandTypes, StatementsLeft
      <3>5. CASE Emit(r)
        <4>1. CASE attempt[r] \in fired[r]
          BY <1>0, <3>5, <4>1 DEF Emit, CommandTypes, StatementsLeft
        <4>2. CASE attempt[r] \notin fired[r]
          BY <1>0, <3>5, <4>2 DEF Emit, CommandTypes, StatementsLeft
        <4>3. QED
          BY <4>1, <4>2
      <3>6. QED
        BY <1>1, <3>1, <3>2, <3>3, <3>4, <3>5
    <2>3. QED
      BY <1>0, <2>1, <2>2, UnchangedDriver
  <1>2. ASSUME NEW c \in Conns, Acquire(r, c)
        PROVE  CommandTypes' /\ StatementsLeft' /\ DriverTypes' /\ ArrivedRun'
    <2>1. CommandTypes' /\ StatementsLeft'
      BY <1>0, <1>2 DEF Acquire, CommandTypes, StatementsLeft
    <2>2. DriverTypes' /\ ArrivedRun'
      BY <1>0, <1>2 DEF Acquire, DriverTypes, ArrivedRun, Poll, Slot
    <2>3. QED
      BY <2>1, <2>2
  <1>3. ASSUME RegisterBackend(r)
        PROVE  CommandTypes' /\ StatementsLeft' /\ DriverTypes' /\ ArrivedRun'
    <2>1. CASE slots[r].cancelled
      BY <1>0, <1>3, <2>1, LeaveDriverType, ExecutionFailsType DEF RegisterBackend
    <2>2. CASE ~slots[r].cancelled
      <3>1. CommandTypes' /\ StatementsLeft'
        BY <1>0, <1>3, <2>2 DEF RegisterBackend, CommandTypes, StatementsLeft
      <3>2. DriverTypes' /\ ArrivedRun'
        <4>1. conn[r] \in Conns \cup {NoConn} /\ slots[r].cancelled \in BOOLEAN
          BY <1>0 DEF DriverTypes
        <4>2. server' = [server EXCEPT ![conn[r]] = r] /\ polled' \subseteq Requests
              /\ UNCHANGED <<conn, pool, arrived, reply>>
          BY <1>0, <1>3, <2>2 DEF RegisterBackend, DriverTypes, Poll
        <4>3. slots' = [slots EXCEPT ![r] = Slot(TRUE, conn[r], slots[r].cancelled)]
          BY <1>3, <2>2 DEF RegisterBackend
        <4>4. /\ server' \in [Conns -> Requests \cup {NoRequest}]
              /\ conn' \in [Requests -> Conns \cup {NoConn}]
              /\ pool' \in [Conns -> {"free", "busy", "draining"}]
              /\ arrived' \subseteq Conns
              /\ reply' \in [Requests -> Replies]
          BY <1>0, <4>2 DEF DriverTypes
        <4>5. DriverTypes'
          BY <1>0, <4>1, <4>2, <4>3, <4>4, SlotUpdateType
        <4>6. ArrivedRun'
          BY <1>0, <4>2 DEF ArrivedRun, DriverTypes
        <4>7. QED
          BY <4>5, <4>6
      <3>3. QED
        BY <3>1, <3>2
    <2>3. QED
      BY <2>1, <2>2
  <1>4. ASSUME NextStatement(r)
        PROVE  CommandTypes' /\ StatementsLeft' /\ DriverTypes' /\ ArrivedRun'
    <2>1. CommandTypes' /\ StatementsLeft'
      <3>1. capped' \in [Requests -> BOOLEAN]
        BY <1>0, <1>4, ResultSoFarType DEF NextStatement
      <3>2. /\ stage[r] = "running" /\ left[r] > 0
            /\ left' = [left EXCEPT ![r] = left[r] - 1]
            /\ UNCHANGED <<stage, commandVars, result, emitted, truncated, tokenVars>>
        BY <1>4 DEF NextStatement
      <3>3. left' \in [Requests -> 0..MaxStatements]
        BY <1>0, <3>2 DEF CommandTypes
      <3>4. CommandTypes'
        BY <1>0, <3>1, <3>2, <3>3 DEF CommandTypes
      <3>5. QED
        BY <1>0, <3>2, <3>4 DEF CommandTypes, StatementsLeft
    <2>2. DriverTypes' /\ ArrivedRun'
      BY <1>0, <1>4 DEF NextStatement, DriverTypes, ArrivedRun, Poll, Replies
    <2>3. QED
      BY <2>1, <2>2
  <1>5. ASSUME Succeed(r)
        PROVE  CommandTypes' /\ StatementsLeft' /\ DriverTypes' /\ ArrivedRun'
    <2>1. capped' \in [Requests -> BOOLEAN]
      BY <1>0, <1>5, ResultSoFarType DEF Succeed
    <2>2. truncated' \in [Requests -> BOOLEAN]
      BY <1>0, <1>5, <2>1 DEF Succeed, CommandTypes
    <2>3. DriverTypes' /\ ArrivedRun'
      BY <1>0, <1>5, LeaveDriverType DEF Succeed
    <2>4. PICK s \in {"emitting", "finishing"} : Enter(r, s)
      BY <1>5 DEF Succeed
    <2>5. stage[r] # "idle" /\ Return(r, "ok")
          /\ UNCHANGED <<commandVars, left, emitted, tokenVars>>
      BY <1>5 DEF Succeed
    <2>6. QED
      BY <1>0, <2>1, <2>2, <2>3, <2>4, <2>5, LeavingType DEF Results
  <1>6. ASSUME Fail(r)
        PROVE  CommandTypes' /\ StatementsLeft' /\ DriverTypes' /\ ArrivedRun'
    BY <1>0, <1>6, LeaveDriverType, ExecutionFailsType DEF Fail
  <1>7. CommandTypes' /\ StatementsLeft' /\ DriverTypes' /\ ArrivedRun'
    BY <1>1, <1>2, <1>3, <1>4, <1>5, <1>6 DEF Command
  <1>8. UNCHANGED cancelVars
    BY DEF Command, Refuse, Register, RegisterBackend, NextStatement, Succeed, Fail, Emit,
       EmissionEnds, Finish, Acquire, cancelVars
  <1>9. QED
    BY <1>0, <1>7, <1>8, UnchangedCancel, TypesAreTypeOK DEF TypeInv

LEMMA InterruptType ==
  ASSUME TypeInv, NEW r \in Requests, SetupFails(r) \/ TokenWins(r) \/ TimesOut(r)
  PROVE  TypeInv'
  <1> USE DEF Executing, Results
  <1>0. /\ CommandTypes /\ DriverTypes /\ CancelTypes /\ StatementsLeft
        /\ KillTargets /\ ArrivedRun
    BY TypesAreTypeOK DEF TypeInv
  <1>1. CASE SetupFails(r)
    <2>1. DriverTypes' /\ ArrivedRun' /\ CommandTypes' /\ StatementsLeft'
      BY <1>0, <1>1, LeaveDriverType, ExecutionFailsType DEF SetupFails
    <2>2. UNCHANGED cancelVars
      BY <1>1 DEF SetupFails, cancelVars
    <2>3. QED
      BY <1>0, <2>1, <2>2, UnchangedCancel, TypesAreTypeOK DEF TypeInv
  <1>2. ASSUME NEW v \in {"cancelled", "timeout"}, Abandon(r, v)
        PROVE  TypeInv'
    <2>1. DriverTypes' /\ ArrivedRun' /\ CommandTypes' /\ StatementsLeft'
      BY <1>0, <1>2, LeaveDriverType, LeavingUnmarkedType DEF Abandon
    <2>2. UNCHANGED cancelVars
      BY <1>2 DEF Abandon, cancelVars
    <2>3. QED
      BY <1>0, <2>1, <2>2, UnchangedCancel, TypesAreTypeOK DEF TypeInv
  <1>3. QED
    BY <1>1, <1>2 DEF TokenWins, TimesOut

LEMMA CancelType ==
  ASSUME TypeInv, NEW r \in Requests, CancelCommand(r)
  PROVE  TypeInv'
  <1> USE DEF deliveryVars, commandVars, tokenVars, CancelState, Killing, OnItsWay
  <1>0. /\ CommandTypes /\ DriverTypes /\ CancelTypes /\ StatementsLeft
        /\ KillTargets /\ ArrivedRun
    BY TypesAreTypeOK DEF TypeInv
  <1>1. CommandTypes' /\ StatementsLeft'
    <2>1. CASE CancelSignal(r)
      BY <1>0, <2>1 DEF CancelSignal, CommandTypes, StatementsLeft
    <2>2. CASE CancelSteps(r) \/ KillLands(r) \/ KillReply(r)
      BY <1>0, <2>2, UnchangedCommand DEF CancelSteps, CancelLookup, CancelKill, CancelFails,
         CancelError, KillLands, KillReply, KillAnswers, KillFails, KillReturns
    <2>3. QED
      BY <2>1, <2>2 DEF CancelCommand
  <1>2. CancelTypes' /\ KillTargets'
    <2>1. CASE CancelSignal(r)
      BY <1>0, <2>1 DEF CancelSignal, CancelTypes, CommandTypes, KillTargets
    <2>2. CASE CancelLookup(r)
      BY <1>0, <2>2 DEF CancelLookup, CancelTypes, CommandTypes, DriverTypes, KillTargets
    <2>3. ASSUME NEW d \in Conns, CancelKill(r, d)
          PROVE  CancelTypes' /\ KillTargets'
      BY <1>0, <2>3, QueryConstants DEF CancelKill, CancelTypes, KillTargets
    <2>4. CASE CancelFails(r)
      BY <1>0, <2>4 DEF CancelFails, CancelError, CancelTypes, KillTargets
    <2>5. CASE KillLands(r)
      <3>1. UNCHANGED early /\ missed' \subseteq Requests
        BY <1>0, <2>5 DEF KillLands, CancelTypes
      <3>2. /\ cancel[r].pc = "sent"
            /\ cancel' = [cancel EXCEPT ![r].pc = "landed"]
        BY <2>5 DEF KillLands
      <3>3. CancelTypes'
        BY <1>0, <3>1, <3>2 DEF CancelTypes
      <3>4. KillTargets'
        <4>1. ASSUME NEW q \in Requests, q # r
              PROVE  cancel'[q] = cancel[q]
          BY <1>0, <3>2, <4>1 DEF CancelTypes
        <4>2. /\ cancel'[r].pc = "landed" /\ cancel'[r].target = cancel[r].target
              /\ cancel'[r].via = cancel[r].via
          BY <1>0, <3>2 DEF CancelTypes
        <4>3. QED
          BY <1>0, <3>2, <4>1, <4>2 DEF KillTargets
      <3>5. QED
        BY <3>3, <3>4
    <2>6. CASE KillReply(r)
      <3>1. PICK pc \in {"answered", "failed"}, b \in BOOLEAN :
              cancel' = [cancel EXCEPT ![r] =
                           CancelState(pc, NoConn, NoConn, b, cancel[r].attempt)]
        BY <2>6 DEF KillReply, KillAnswers, KillFails, KillReturns
      <3>2. UNCHANGED <<early, missed>>
        BY <2>6 DEF KillReply, KillAnswers, KillFails, KillReturns
      <3>3. CancelTypes'
        BY <1>0, <3>1, <3>2 DEF CancelTypes
      <3>4. KillTargets'
        BY <1>0, <3>1 DEF KillTargets, CancelTypes
      <3>5. QED
        BY <3>3, <3>4
    <2>7. QED
      BY <2>1, <2>2, <2>3, <2>4, <2>5, <2>6 DEF CancelCommand, CancelSteps
  <1>3. DriverTypes' /\ ArrivedRun'
    <2>1. CASE CancelSignal(r) \/ CancelFails(r)
      BY <1>0, <2>1, UnchangedDriver DEF CancelSignal, CancelFails, CancelError, driverVars
    <2>2. CASE CancelLookup(r)
      <3>1. UNCHANGED <<conn, pool, server, arrived, reply, polled>>
        BY <2>2 DEF CancelLookup
      <3>2. ArrivedRun'
        BY <1>0, <3>1 DEF ArrivedRun
      <3>3. CASE slots[r].open
        <4>1. slots[r].backend \in Conns \cup {NoConn}
          BY <1>0 DEF DriverTypes
        <4>2. slots' = [slots EXCEPT ![r] = Slot(TRUE, slots[r].backend, TRUE)]
          BY <2>2, <3>3 DEF CancelLookup
        <4>3. /\ server' \in [Conns -> Requests \cup {NoRequest}]
              /\ conn' \in [Requests -> Conns \cup {NoConn}]
              /\ pool' \in [Conns -> {"free", "busy", "draining"}]
              /\ arrived' \subseteq Conns
              /\ reply' \in [Requests -> Replies]
              /\ polled' \subseteq Requests
          BY <1>0, <3>1 DEF DriverTypes
        <4>4. QED
          BY <1>0, <3>2, <4>1, <4>2, <4>3, SlotUpdateType
      <3>4. CASE ~slots[r].open
        BY <1>0, <2>2, <3>1, <3>2, <3>4 DEF CancelLookup, DriverTypes
      <3>5. QED
        BY <3>3, <3>4
    <2>3. ASSUME NEW d \in Conns, CancelKill(r, d)
          PROVE  DriverTypes' /\ ArrivedRun'
      BY <1>0, <2>3, PoolUpdateType DEF CancelKill
    <2>4. CASE KillReply(r)
      BY <1>0, <2>4, PoolUpdateType DEF KillReply, KillAnswers, KillFails, KillReturns
    <2>5. CASE KillLands(r) /\ cancel[r].target \in arrived
      <3>1. /\ cancel[r].target \in Conns /\ server[cancel[r].target] # NoRequest
            /\ StatementEnds(cancel[r].target, "killed")
            /\ UNCHANGED <<slots, conn, polled>>
        BY <1>0, <2>5 DEF KillLands, DriverTypes, ArrivedRun
      <3>2. QED
        BY <1>0, <3>1, StatementEndsType
    <2>6. CASE KillLands(r) /\ cancel[r].target \notin arrived
      <3>1. UNCHANGED driverVars
        BY <2>6 DEF KillLands, driverVars
      <3>2. QED
        BY <1>0, <3>1, UnchangedDriver
    <2>7. QED
      BY <2>1, <2>2, <2>3, <2>4, <2>5, <2>6 DEF CancelCommand, CancelSteps
  <1>4. QED
    BY <1>1, <1>2, <1>3, TypesAreTypeOK DEF TypeInv

LEMMA ServerType ==
  ASSUME TypeInv, NEW c \in Conns, ServerSteps(c)
  PROVE  TypeInv'
  <1>0. /\ CommandTypes /\ DriverTypes /\ CancelTypes /\ StatementsLeft
        /\ KillTargets /\ ArrivedRun
    BY TypesAreTypeOK DEF TypeInv
  <1>1. DriverTypes' /\ ArrivedRun'
    <2>1. CASE StatementArrives(c)
      BY <1>0, <2>1 DEF StatementArrives, DriverTypes, ArrivedRun
    <2>2. CASE RowsCapped(c)
      BY <1>0, <2>2 DEF RowsCapped, DriverTypes, ArrivedRun, Replies
    <2>3. CASE ServerReplies(c)
      <3>1. PICK v \in {"rows", "error"} : StatementEnds(c, v)
        BY <2>3 DEF ServerReplies
      <3>2. server[c] # NoRequest /\ UNCHANGED <<slots, conn, polled>>
        BY <1>0, <2>3 DEF ServerReplies, ArrivedRun
      <3>3. QED
        BY <1>0, <3>1, <3>2, StatementEndsType
    <2>4. QED
      BY <2>1, <2>2, <2>3 DEF ServerSteps
  <1>2. /\ UNCHANGED <<stage, commandVars, left, result, deliveryVars, tokenVars>>
        /\ UNCHANGED cancelVars
    BY DEF ServerSteps, StatementArrives, RowsCapped, ServerReplies, commandVars,
       deliveryVars, tokenVars, cancelVars
  <1>3. QED
    BY <1>0, <1>1, <1>2, UnchangedCommand, UnchangedCancel, TypesAreTypeOK DEF TypeInv

LEMMA InitTypeInv == Init => TypeInv
  <1>1. ASSUME Init PROVE CommandTypes /\ StatementsLeft
    BY <1>1, QueryConstants DEF Init, CommandTypes, StatementsLeft, Stages, Results
  <1>2. ASSUME Init PROVE DriverTypes /\ ArrivedRun
    BY <1>2 DEF Init, DriverTypes, ArrivedRun, NoSlot, Slot, Replies
  <1>3. ASSUME Init PROVE CancelTypes /\ KillTargets
    BY <1>3 DEF Init, CancelTypes, KillTargets, NoCancel, CancelState, Killing, OnItsWay
  <1>4. QED
    BY <1>1, <1>2, <1>3, TypesAreTypeOK DEF TypeInv

LEMMA NextTypeInv == TypeInv /\ [Next]_vars => TypeInv'
  <1> SUFFICES ASSUME TypeInv, [Next]_vars PROVE TypeInv'
    OBVIOUS
  <1>1. ASSUME NEW r \in Requests,
               FrontEnd(r) \/ Command(r) \/ SetupFails(r) \/ TokenWins(r) \/ TimesOut(r)
               \/ CancelCommand(r)
        PROVE  TypeInv'
    BY <1>1, FrontEndType, CommandType, InterruptType, CancelType
  <1>2. ASSUME NEW c \in Conns, ServerSteps(c)
        PROVE  TypeInv'
    BY <1>2, ServerType
  <1>3. CASE UNCHANGED vars
    <2>1. /\ CommandTypes /\ DriverTypes /\ CancelTypes /\ StatementsLeft
          /\ KillTargets /\ ArrivedRun
      BY TypesAreTypeOK DEF TypeInv
    <2>2. CommandTypes' /\ StatementsLeft'
      BY <1>3, <2>1, UnchangedCommand DEF vars
    <2>3. DriverTypes' /\ ArrivedRun' /\ CancelTypes' /\ KillTargets'
      BY <1>3, <2>1, UnchangedDriver, UnchangedCancel DEF vars
    <2>4. QED
      BY <2>2, <2>3, TypesAreTypeOK DEF TypeInv
  <1>4. QED
    BY <1>1, <1>2, <1>3 DEF Next, Terminated

\* The statements and the kill targets are also what the type of `left` and of the
\* connection a kill hits rest on.
THEOREM TypesHold == Spec => []TypeInv
  <1>1. QED
    BY InitTypeInv, NextTypeInv, PTL DEF Spec

\* Every variable keeps its type: the count of statements left never goes below
\* zero, and a kill only ever hits a connection of the pool.
THEOREM TypeCorrect == Spec => []TypeOK
  <1>1. TypeInv => TypeOK
    BY DEF TypeInv
  <1>2. QED
    BY <1>1, TypesHold, PTL

-----------------------------------------------------------------------------
(***************************************************************************)
(* The token registered for a command in flight.                           *)
(***************************************************************************)

LEMMA InFlightStep ==
  ASSUME TypeOK, InFlightIsCancellable, [Next]_vars
  PROVE  InFlightIsCancellable'
  <1> USE DEF InFlightIsCancellable, InFlight, Executing, Enter, TypeOK
  <1>1. ASSUME NEW r \in Requests, FrontEnd(r)
        PROVE  InFlightIsCancellable'
    <2>1. /\ \E s \in {"submitted", "done"} : stage' = [stage EXCEPT ![r] = s]
          /\ UNCHANGED active
          /\ attempt' = attempt \/ \E n \in 1..2 : attempt' = [attempt EXCEPT ![r] = n]
      <3>1. CASE Submit(r)
        BY <3>1 DEF Submit, tokenVars
      <3>2. CASE Fallback(r)
        BY <3>2 DEF Fallback, tokenVars
      <3>3. CASE Settle(r)
        BY <3>3 DEF Settle
      <3>4. QED
        BY <1>1, <3>1, <3>2, <3>3 DEF FrontEnd
    <2>2. QED
      BY <2>1
  <1>2. ASSUME NEW r \in Requests, Command(r)
        PROVE  InFlightIsCancellable'
    <2>1. CASE Refuse(r) \/ Register(r) \/ Finish(r) \/ EmissionEnds(r)
      BY <2>1 DEF Refuse, Register, Finish, EmissionEnds, commandVars, tokenVars
    <2>2. CASE Emit(r)
      <3>1. UNCHANGED <<active, attempt>>
            /\ (UNCHANGED stage \/ stage' = [stage EXCEPT ![r] = "finishing"])
            /\ stage[r] = "emitting"
        BY <2>2 DEF Emit, commandVars, tokenVars
      <3>2. QED
        BY <3>1
    <2>3. CASE RegisterBackend(r) \/ NextStatement(r) \/ Succeed(r) \/ Fail(r)
               \/ \E c \in Conns : Acquire(r, c)
      <3>1. UNCHANGED <<active, attempt>> /\ stage[r] \in {"waiting", "begun", "running"}
        BY <2>3 DEF RegisterBackend, NextStatement, Succeed, Fail, Acquire, commandVars,
           tokenVars
      <3>2. UNCHANGED stage \/ \E s \in Stages : stage' = [stage EXCEPT ![r] = s]
        BY <2>3 DEF RegisterBackend, NextStatement, Succeed, Fail, Acquire, ExecutionFails,
           Stages
      <3>3. QED
        BY <3>1, <3>2
    <2>4. QED
      BY <1>2, <2>1, <2>2, <2>3 DEF Command
  <1>3. ASSUME NEW r \in Requests, SetupFails(r) \/ TokenWins(r) \/ TimesOut(r)
        PROVE  InFlightIsCancellable'
    <2>1. UNCHANGED <<active, attempt>> /\ stage[r] \in {"waiting", "begun", "running"}
      BY <1>3 DEF SetupFails, TokenWins, TimesOut, Abandon, commandVars, tokenVars
    <2>2. \E s \in Stages : stage' = [stage EXCEPT ![r] = s]
      BY <1>3 DEF SetupFails, TokenWins, TimesOut, Abandon, ExecutionFails, Stages
    <2>3. QED
      BY <2>1, <2>2
  <1>4. ASSUME UNCHANGED <<stage, active, attempt>>
        PROVE  InFlightIsCancellable'
    BY <1>4
  <1>5. ASSUME NEW r \in Requests, CancelCommand(r)
        PROVE  UNCHANGED <<stage, active, attempt>>
    BY <1>5 DEF CancelCommand, CancelSteps, CancelSignal, CancelLookup, CancelKill,
       CancelFails, CancelError, KillLands, KillReply, KillAnswers, KillFails, KillReturns,
       commandVars, tokenVars
  <1>6. ASSUME NEW c \in Conns, ServerSteps(c)
        PROVE  UNCHANGED <<stage, active, attempt>>
    BY <1>6 DEF ServerSteps, StatementArrives, RowsCapped, ServerReplies, commandVars,
       tokenVars
  <1>7. CASE UNCHANGED vars
    BY <1>7 DEF vars, commandVars, tokenVars
  <1>8. QED
    BY <1>1, <1>2, <1>3, <1>4, <1>5, <1>6, <1>7 DEF Next, Terminated

\* A cancel that arrives while a command is in flight always finds the token that
\* the command selects on, whatever an earlier attempt left under its id.
THEOREM InFlightCancellable == Spec => []InFlightIsCancellable
  <1>1. Init => InFlightIsCancellable
    BY DEF Init, InFlightIsCancellable, InFlight, Executing
  <1>2. TypeOK /\ InFlightIsCancellable /\ [Next]_vars => InFlightIsCancellable'
    BY InFlightStep
  <1>3. QED
    BY <1>1, <1>2, TypeCorrect, PTL DEF Spec

-----------------------------------------------------------------------------
(***************************************************************************)
(* The registry's slots and the pool's connections.                        *)
(***************************************************************************)

\* A request holds a connection exactly while its scope guard is alive.
HoldersInScope == \A r \in Requests : conn[r] # NoConn <=> stage[r] \in InScope

PoolInv == SlotsFollowScopes /\ ConnectionsAccounted /\ HoldersInScope

LEMMA SamePool ==
  ASSUME PoolInv, UNCHANGED <<slots, conn, pool, server>>,
         \A q \in Requests : cancel'[q].via = cancel[q].via,
         \A q \in Requests : stage[q] \in InScope <=> stage'[q] \in InScope,
         \A q \in Requests : stage[q] = "running" <=> stage'[q] = "running"
  PROVE  PoolInv'
  <1>1. SlotsFollowScopes'
    BY DEF PoolInv, SlotsFollowScopes
  <1>2. ConnectionsAccounted'
    BY DEF PoolInv, ConnectionsAccounted, Held
  <1>3. HoldersInScope'
    BY DEF PoolInv, HoldersInScope
  <1>4. QED
    BY <1>1, <1>2, <1>3 DEF PoolInv

LEMMA LeavePool ==
  ASSUME TypeOK, PoolInv, NEW r \in Requests, LeaveDriver(r), UNCHANGED <<server, cancel>>,
         NEW s \in {"emitting", "finishing", "returned"}, Enter(r, s)
  PROVE  PoolInv'
  <1> USE DEF TypeOK, PoolInv, LeaveDriver, Enter, InScope
  <1>1. SlotsFollowScopes'
    BY DEF SlotsFollowScopes, NoSlot, Slot
  <1>2. HoldersInScope'
    BY DEF HoldersInScope
  <1>3. ConnectionsAccounted'
    <2>1. /\ conn' = [conn EXCEPT ![r] = NoConn]
          /\ pool' = [c \in Conns |-> IF c # conn[r] THEN pool[c]
                                      ELSE IF server[c] = r THEN "draining" ELSE "free"]
          /\ UNCHANGED <<server, cancel>>
      OBVIOUS
    <2>2. conn[r] \in Conns => pool[conn[r]] = "busy"
      BY DEF ConnectionsAccounted, Held
    <2>3. conn[r] \in Conns /\ server[conn[r]] # NoRequest => server[conn[r]] = r
      <3> SUFFICES ASSUME conn[r] \in Conns, server[conn[r]] # NoRequest
                   PROVE  server[conn[r]] = r
        OBVIOUS
      <3>1. server[conn[r]] \in Requests
        OBVIOUS
      <3>2. conn[server[conn[r]]] = conn[r] /\ conn[r] # NoConn
        BY <2>2, <3>1, QueryConstants DEF ConnectionsAccounted
      <3>3. QED
        BY <3>1, <3>2 DEF ConnectionsAccounted
    <2>4. ASSUME NEW c \in Conns
          PROVE  /\ (pool'[c] = "busy" <=> Held(c)')
                 /\ pool'[c] = "free" => server[c] = NoRequest
                 /\ pool'[c] = "draining" => server[c] # NoRequest
                 /\ pool'[c] = "busy" /\ server[c] # NoRequest => conn'[server[c]] = c
      <3>1. CASE c = conn[r]
        <4>1. c # NoConn /\ r \in Requests
          BY QueryConstants
        <4>2. \A q \in Requests : conn'[q] # c /\ cancel'[q].via # c
          BY <2>1, <3>1, <4>1 DEF ConnectionsAccounted
        <4>3. QED
          BY <2>1, <2>3, <3>1, <4>1, <4>2, QueryConstants DEF Held
      <3>2. CASE c # conn[r]
        <4>1. pool'[c] = pool[c] /\ \A q \in Requests : conn'[q] = c <=> conn[q] = c
          BY <2>1, <3>2, QueryConstants
        <4>2. server[c] \in Requests \cup {NoRequest}
          OBVIOUS
        <4>3. Held(c)' <=> Held(c)
          BY <2>1, <4>1 DEF Held
        <4>4. QED
          BY <4>1, <4>2, <4>3 DEF ConnectionsAccounted
      <3>3. QED
        BY <3>1, <3>2
    <2>5. ASSUME NEW q \in Requests, NEW t \in Requests
          PROVE  /\ conn'[q] = conn'[t] /\ conn'[q] # NoConn => q = t
                 /\ cancel'[q].via = cancel'[t].via /\ cancel'[q].via # NoConn => q = t
                 /\ conn'[q] = cancel'[t].via => conn'[q] = NoConn
      BY <2>1 DEF ConnectionsAccounted
    <2>6. QED
      BY <2>1, <2>4, <2>5 DEF ConnectionsAccounted
  <1>4. QED
    BY <1>1, <1>2, <1>3

LEMMA StatementEndsPool ==
  ASSUME TypeOK, PoolInv, NEW c \in Conns, server[c] # NoRequest,
         NEW v, StatementEnds(c, v), UNCHANGED <<stage, slots, conn>>,
         \A q \in Requests : cancel'[q].via = cancel[q].via
  PROVE  PoolInv'
  <1>1. SlotsFollowScopes' /\ HoldersInScope'
    BY DEF PoolInv, SlotsFollowScopes, HoldersInScope
  <1>2. ConnectionsAccounted'
    <2>1. \A d \in Conns : Held(d)' <=> Held(d)
      BY DEF Held
    <2>2. QED
      BY <2>1 DEF TypeOK, PoolInv, StatementEnds, ConnectionsAccounted
  <1>3. QED
    BY <1>1, <1>2 DEF PoolInv

\* A statement is sent on the connection its request holds.
LEMMA SendPool ==
  ASSUME TypeOK, PoolInv, NEW r \in Requests, stage[r] \in InScope,
         server' = [server EXCEPT ![conn[r]] = r], UNCHANGED <<conn, pool, cancel>>
  PROVE  ConnectionsAccounted'
  <1>1. conn[r] \in Conns /\ pool[conn[r]] = "busy"
    BY DEF TypeOK, PoolInv, HoldersInScope, ConnectionsAccounted, Held
  <1>2. \A d \in Conns : Held(d)' <=> Held(d)
    BY DEF Held
  <1>3. QED
    BY <1>1, <1>2, QueryConstants DEF TypeOK, PoolInv, ConnectionsAccounted

\* A free connection is handed to one more holder, a request or a KILL.
LEMMA AcquirePool ==
  ASSUME TypeOK, KillTargets, PoolInv, NEW r \in Requests, NEW c \in Conns, pool[c] = "free",
         pool' = [pool EXCEPT ![c] = "busy"], UNCHANGED server,
         \/ conn[r] = NoConn /\ conn' = [conn EXCEPT ![r] = c] /\ UNCHANGED cancel
         \/ cancel[r].via = NoConn /\ UNCHANGED conn
            /\ cancel'[r].via = c /\ \A q \in Requests \ {r} : cancel'[q] = cancel[q]
  PROVE  ConnectionsAccounted'
  <1> USE DEF ConnectionsAccounted
  <1>0. ConnectionsAccounted /\ NoConn # c /\ conn \in [Requests -> Conns \cup {NoConn}]
    BY QueryConstants DEF PoolInv, TypeOK
  <1>1. server[c] = NoRequest /\ \A q \in Requests : conn[q] # c /\ cancel[q].via # c
    BY <1>0 DEF Held
  <1>2. ASSUME NEW d \in Conns
        PROVE  /\ (pool'[d] = "busy" <=> Held(d)')
               /\ pool'[d] = "free" => server[d] = NoRequest
               /\ pool'[d] = "draining" => server[d] # NoRequest
               /\ pool'[d] = "busy" /\ server[d] # NoRequest => conn'[server[d]] = d
    <2>1. CASE d = c
      <3>1. pool'[c] = "busy"
        BY DEF TypeOK
      <3>2. Held(c)'
        BY <1>0 DEF Held
      <3>3. QED
        BY <1>1, <2>1, <3>1, <3>2
    <2>2. CASE d # c
      <3>1. pool'[d] = pool[d] /\ d # NoConn
        BY <2>2, QueryConstants DEF TypeOK
      <3>2. \A q \in Requests : (conn'[q] = d <=> conn[q] = d)
                              /\ (cancel'[q].via = d <=> cancel[q].via = d)
        BY <1>0, <2>2, <3>1
      <3>3. Held(d)' <=> Held(d)
        BY <3>2 DEF Held
      <3>4. server[d] \in Requests \cup {NoRequest}
        BY DEF TypeOK
      <3>5. QED
        BY <1>0, <3>1, <3>2, <3>3, <3>4
    <2>3. QED
      BY <2>1, <2>2
  <1>3. ASSUME NEW q \in Requests, NEW t \in Requests
        PROVE  /\ conn'[q] = conn'[t] /\ conn'[q] # NoConn => q = t
               /\ cancel'[q].via = cancel'[t].via /\ cancel'[q].via # NoConn => q = t
               /\ conn'[q] = cancel'[t].via => conn'[q] = NoConn
    <2>1. CASE conn[r] = NoConn /\ conn' = [conn EXCEPT ![r] = c] /\ UNCHANGED cancel
      BY <1>0, <1>1, <2>1
    <2>2. CASE /\ cancel[r].via = NoConn /\ UNCHANGED conn
               /\ cancel'[r].via = c /\ \A u \in Requests \ {r} : cancel'[u] = cancel[u]
      BY <1>0, <1>1, <2>2
    <2>3. QED
      BY <2>1, <2>2
  <1>4. QED
    BY <1>2, <1>3

LEMMA CommandPool ==
  ASSUME TypeOK, KillTargets, PoolInv, NEW r \in Requests, Command(r)
  PROVE  PoolInv'
  <1>1. CASE Refuse(r) \/ Register(r) \/ Finish(r) \/ EmissionEnds(r)
    BY <1>1, SamePool DEF Refuse, Register, Finish, EmissionEnds, driverVars, cancelVars, Enter, InScope,
       TypeOK
  <1>2. CASE Emit(r)
    BY <1>2, SamePool DEF Emit, driverVars, cancelVars, Enter, InScope, TypeOK
  <1>3. ASSUME NEW c \in Conns, Acquire(r, c)
        PROVE  PoolInv'
    <2>1. conn[r] = NoConn /\ ~slots[r].open
      BY <1>3 DEF Acquire, PoolInv, HoldersInScope, SlotsFollowScopes, InScope
    <2>2. /\ pool[c] = "free" /\ pool' = [pool EXCEPT ![c] = "busy"]
          /\ conn' = [conn EXCEPT ![r] = c]
          /\ slots' = [slots EXCEPT ![r] = Slot(TRUE, NoConn, FALSE)]
          /\ stage' = [stage EXCEPT ![r] = "begun"]
          /\ UNCHANGED <<server, cancel>>
      BY <1>3, <2>1 DEF Acquire, Enter, cancelVars
    <2>3. SlotsFollowScopes'
      BY <2>2 DEF TypeOK, PoolInv, SlotsFollowScopes, Slot, InScope
    <2>4. HoldersInScope'
      BY <2>2, QueryConstants DEF TypeOK, PoolInv, HoldersInScope, InScope
    <2>5. ConnectionsAccounted'
      BY <2>1, <2>2, AcquirePool
    <2>6. QED
      BY <2>3, <2>4, <2>5 DEF PoolInv
  <1>4. CASE RegisterBackend(r) /\ slots[r].cancelled
    BY <1>4, LeavePool DEF RegisterBackend, ExecutionFails, cancelVars
  <1>5. CASE RegisterBackend(r) /\ ~slots[r].cancelled
    <2>1. /\ slots' = [slots EXCEPT ![r] = Slot(TRUE, conn[r], slots[r].cancelled)]
          /\ server' = [server EXCEPT ![conn[r]] = r]
          /\ stage' = [stage EXCEPT ![r] = "running"]
          /\ stage[r] = "begun"
          /\ UNCHANGED <<conn, pool, cancel>>
      BY <1>5 DEF RegisterBackend, Enter, cancelVars
    <2>2. SlotsFollowScopes'
      BY <2>1 DEF TypeOK, PoolInv, SlotsFollowScopes, Slot, InScope
    <2>3. HoldersInScope'
      BY <2>1 DEF TypeOK, PoolInv, HoldersInScope, InScope
    <2>4. ConnectionsAccounted'
      BY <2>1, SendPool DEF InScope
    <2>5. QED
      BY <2>2, <2>3, <2>4 DEF PoolInv
  <1>6. CASE NextStatement(r)
    <2>1. ConnectionsAccounted'
      BY <1>6, SendPool DEF NextStatement, InScope, cancelVars
    <2>2. SlotsFollowScopes' /\ HoldersInScope'
      BY <1>6 DEF NextStatement, PoolInv, SlotsFollowScopes, HoldersInScope
    <2>3. QED
      BY <2>1, <2>2 DEF PoolInv
  <1>7. CASE Succeed(r)
    BY <1>7, LeavePool DEF Succeed, cancelVars
  <1>8. CASE Fail(r)
    BY <1>8, LeavePool DEF Fail, ExecutionFails, cancelVars
  <1>9. QED
    BY <1>1, <1>2, <1>3, <1>4, <1>5, <1>6, <1>7, <1>8 DEF Command

\* The KILL of r answered or failed: its connection is free again.
LEMMA KillReturnsPool ==
  ASSUME TypeInv, PoolInv, NEW r \in Requests, KillReply(r)
  PROVE  PoolInv'
  <1> USE DEF TypeInv
  <1>0. PICK d \in Conns : cancel[r].via = d
    BY DEF KillReply, KillAnswers, KillFails, OnItsWay, TypeOK, KillTargets
  <1>1. /\ pool' = [pool EXCEPT ![d] = "free"] /\ cancel'[r].via = NoConn
        /\ \A q \in Requests \ {r} : cancel'[q] = cancel[q]
        /\ UNCHANGED <<stage, slots, conn, server>>
    BY <1>0 DEF KillReply, KillAnswers, KillFails, KillReturns, CancelState, TypeOK
  <1>2. SlotsFollowScopes' /\ HoldersInScope'
    BY <1>1 DEF PoolInv, SlotsFollowScopes, HoldersInScope
  <1>3. ConnectionsAccounted'
    <2> USE DEF ConnectionsAccounted
    <2>0. ConnectionsAccounted /\ d # NoConn /\ conn \in [Requests -> Conns \cup {NoConn}]
      BY QueryConstants DEF PoolInv, TypeOK
    <2>1. /\ \A q \in Requests : conn[q] # d
          /\ \A q \in Requests \ {r} : cancel[q].via # d
      BY <1>0, <2>0
    <2>2. server[d] = NoRequest
      BY <1>0, <2>0, <2>1 DEF Held, TypeOK
    <2>3. ASSUME NEW c \in Conns
          PROVE  /\ (pool'[c] = "busy" <=> Held(c)')
                 /\ pool'[c] = "free" => server[c] = NoRequest
                 /\ pool'[c] = "draining" => server[c] # NoRequest
                 /\ pool'[c] = "busy" /\ server[c] # NoRequest => conn[server[c]] = c
      <3>1. CASE c = d
        <4>1. pool'[d] = "free"
          BY <1>1 DEF TypeOK
        <4>2. ~Held(d)'
          BY <1>1, <2>0, <2>1 DEF Held
        <4>3. QED
          BY <2>2, <3>1, <4>1, <4>2
      <3>2. CASE c # d
        <4>1. pool'[c] = pool[c] /\ c # NoConn
          BY <1>1, <3>2, QueryConstants DEF TypeOK
        <4>2. Held(c)' <=> Held(c)
          BY <1>0, <1>1, <3>2, <4>1 DEF Held
        <4>3. QED
          BY <2>0, <4>1, <4>2
      <3>3. QED
        BY <3>1, <3>2
    <2>4. ASSUME NEW q \in Requests, NEW t \in Requests
          PROVE  /\ conn[q] = conn[t] /\ conn[q] # NoConn => q = t
                 /\ cancel'[q].via = cancel'[t].via /\ cancel'[q].via # NoConn => q = t
                 /\ conn[q] = cancel'[t].via => conn[q] = NoConn
      BY <1>1, <2>0
    <2>5. QED
      BY <1>1, <2>3, <2>4
  <1>4. QED
    BY <1>2, <1>3 DEF PoolInv

LEMMA CancelPool ==
  ASSUME TypeInv, PoolInv, NEW r \in Requests, CancelCommand(r)
  PROVE  PoolInv'
  <1> USE DEF Killing, OnItsWay
  <1>0. /\ cancel \in [Requests -> [pc : {"none", "signalled", "answered", "failed"} \cup Killing,
           target : Conns \cup {NoConn}, via : Conns \cup {NoConn}, confirmed : BOOLEAN,
           attempt : 0..2]]
        /\ cancel[r].pc \notin OnItsWay => cancel[r].via = NoConn
    BY DEF TypeInv, TypeOK, KillTargets
  <1>1. CASE CancelSignal(r) \/ CancelFails(r)
    <2>1. UNCHANGED <<stage, slots, conn, pool, server>>
      BY <1>1 DEF CancelSignal, CancelFails, CancelError, driverVars
    <2>2. \A q \in Requests : cancel'[q].via = cancel[q].via
      BY <1>0, <1>1 DEF CancelSignal, CancelFails, CancelError, CancelState
    <2>3. QED
      BY <2>1, <2>2, SamePool
  <1>2. CASE CancelLookup(r)
    <2>1. UNCHANGED <<stage, conn, pool, server>>
      BY <1>2 DEF CancelLookup
    <2>2. \A q \in Requests : cancel'[q].via = cancel[q].via
      BY <1>0, <1>2 DEF CancelLookup, CancelState
    <2>3. CASE slots[r].open
      <3>1. slots' = [slots EXCEPT ![r] = Slot(TRUE, slots[r].backend, TRUE)]
        BY <1>2, <2>3 DEF CancelLookup
      <3>2. SlotsFollowScopes'
        BY <2>1, <2>3, <3>1 DEF TypeInv, TypeOK, PoolInv, SlotsFollowScopes, Slot
      <3>3. ConnectionsAccounted'
        BY <2>1, <2>2 DEF PoolInv, ConnectionsAccounted, Held
      <3>4. QED
        BY <2>1, <3>2, <3>3 DEF PoolInv, HoldersInScope
    <2>4. CASE ~slots[r].open
      BY <1>2, <2>1, <2>2, <2>4, SamePool DEF CancelLookup
    <2>5. QED
      BY <2>3, <2>4
  <1>3. ASSUME NEW d \in Conns, CancelKill(r, d)
        PROVE  PoolInv'
    <2>1. /\ pool[d] = "free" /\ pool' = [pool EXCEPT ![d] = "busy"]
          /\ cancel[r].via = NoConn /\ cancel'[r].via = d
          /\ \A q \in Requests \ {r} : cancel'[q] = cancel[q]
          /\ UNCHANGED <<stage, slots, conn, server>>
      BY <1>0, <1>3 DEF CancelKill
    <2>2. SlotsFollowScopes' /\ HoldersInScope'
      BY <2>1 DEF PoolInv, SlotsFollowScopes, HoldersInScope
    <2>3. ConnectionsAccounted'
      BY <2>1, AcquirePool DEF TypeInv
    <2>4. QED
      BY <2>2, <2>3 DEF PoolInv
  <1>4. CASE KillLands(r)
    <2>1. \A q \in Requests : cancel'[q].via = cancel[q].via
      BY <1>0, <1>4 DEF KillLands
    <2>2. CASE cancel[r].target \in arrived
      <3>1. /\ cancel[r].target \in Conns /\ server[cancel[r].target] # NoRequest
            /\ StatementEnds(cancel[r].target, "killed")
            /\ UNCHANGED <<stage, slots, conn>>
        BY <1>4, <2>2 DEF KillLands, TypeInv, TypeOK, ArrivedRun
      <3>2. QED
        BY <2>1, <3>1, StatementEndsPool DEF TypeInv
    <2>3. CASE cancel[r].target \notin arrived
      BY <1>4, <2>1, <2>3, SamePool DEF KillLands
    <2>4. QED
      BY <2>2, <2>3
  <1>5. CASE KillReply(r)
    BY <1>5, KillReturnsPool
  <1>6. QED
    BY <1>1, <1>2, <1>3, <1>4, <1>5 DEF CancelCommand, CancelSteps

LEMMA ServerPool ==
  ASSUME TypeInv, PoolInv, NEW c \in Conns, ServerSteps(c)
  PROVE  PoolInv'
  <1>1. CASE StatementArrives(c) \/ RowsCapped(c)
    BY <1>1, SamePool DEF StatementArrives, RowsCapped, cancelVars
  <1>2. CASE ServerReplies(c)
    <2>1. PICK v \in {"rows", "error"} : StatementEnds(c, v)
      BY <1>2 DEF ServerReplies
    <2>2. server[c] # NoRequest /\ UNCHANGED <<stage, slots, conn, cancel>>
      BY <1>2 DEF ServerReplies, TypeInv, ArrivedRun, cancelVars
    <2>3. QED
      BY <2>1, <2>2, StatementEndsPool DEF TypeInv
  <1>3. QED
    BY <1>1, <1>2 DEF ServerSteps

LEMMA NextPool == TypeInv /\ PoolInv /\ [Next]_vars => PoolInv'
  <1> SUFFICES ASSUME TypeInv, PoolInv, [Next]_vars PROVE PoolInv'
    OBVIOUS
  <1> USE DEF TypeInv
  <1>1. ASSUME NEW r \in Requests, FrontEnd(r)
        PROVE  PoolInv'
    <2>1. UNCHANGED <<driverVars, cancel>> /\ stage[r] \notin InScope
          /\ \E s \in {"submitted", "done"} : Enter(r, s)
      <3>1. CASE Submit(r)
        BY <3>1 DEF Submit, InScope, cancelVars
      <3>2. CASE Fallback(r)
        BY <3>2 DEF Fallback, InScope, cancelVars
      <3>3. CASE Settle(r)
        BY <3>3 DEF Settle, InScope, cancelVars
      <3>4. QED
        BY <1>1, <3>1, <3>2, <3>3 DEF FrontEnd
    <2>2. QED
      BY <2>1, SamePool DEF driverVars, Enter, InScope, TypeOK
  <1>2. ASSUME NEW r \in Requests, Command(r)
        PROVE  PoolInv'
    BY <1>2, CommandPool
  <1>3. ASSUME NEW r \in Requests, SetupFails(r) \/ TokenWins(r) \/ TimesOut(r)
        PROVE  PoolInv'
    BY <1>3, LeavePool DEF SetupFails, TokenWins, TimesOut, Abandon, ExecutionFails,
       cancelVars
  <1>4. ASSUME NEW r \in Requests, CancelCommand(r)
        PROVE  PoolInv'
    BY <1>4, CancelPool
  <1>5. ASSUME NEW c \in Conns, ServerSteps(c)
        PROVE  PoolInv'
    BY <1>5, ServerPool
  <1>6. CASE UNCHANGED vars
    BY <1>6, SamePool DEF vars, driverVars, cancelVars
  <1>7. QED
    BY <1>1, <1>2, <1>3, <1>4, <1>5, <1>6 DEF Next, Terminated

LEMMA InitPool == Init => PoolInv
  <1> SUFFICES ASSUME Init PROVE PoolInv
    OBVIOUS
  <1>1. SlotsFollowScopes
    BY DEF Init, SlotsFollowScopes, NoSlot, Slot, InScope
  <1>2. ConnectionsAccounted /\ HoldersInScope
    BY QueryConstants DEF Init, ConnectionsAccounted, HoldersInScope, InScope, Held, NoCancel,
       CancelState
  <1>3. QED
    BY <1>1, <1>2 DEF PoolInv

LEMMA PoolHolds == Spec => []PoolInv
  BY InitPool, NextPool, TypesHold, PTL DEF Spec

\* Every exit of the execution future, by reply, error, cancel or timeout, takes its
\* slot out of the driver's registry, for any number of requests and connections.
THEOREM SlotsFollow == Spec => []SlotsFollowScopes
  <1>1. PoolInv => SlotsFollowScopes
    BY DEF PoolInv
  <1>2. QED
    BY <1>1, PoolHolds, PTL

\* No connection is handed out while a statement abandoned on it runs, and none is
\* lost to the pool.
THEOREM ConnectionsStayAccounted == Spec => []ConnectionsAccounted
  <1>1. PoolInv => ConnectionsAccounted
    BY DEF PoolInv
  <1>2. QED
    BY <1>1, PoolHolds, PTL

-----------------------------------------------------------------------------
(***************************************************************************)
(* A confirmed cancel: the invariant that makes ConfirmedStopsOne hold.    *)
(***************************************************************************)

NoStatement(r) == \A c \in Conns : server[c] # r

\* Where a statement of r can run, and when its reply is unread.
StatementInv(r) ==
  /\ stage[r] \in {"idle", "submitted", "waiting", "begun"} => NoStatement(r)
  /\ stage[r] = "running" => \A c \in Conns : server[c] = r => c = conn[r]
  /\ reply[r] # "none" => stage[r] = "running"
  /\ reply[r] \in {"rows", "error", "killed"} => NoStatement(r)
  /\ result[r] \in {"error", "refused"} => NoStatement(r)
  /\ stage[r] \in {"idle", "submitted", "waiting", "begun", "running"} => result[r] = "none"
  /\ total[r] = 1 /\ stage[r] = "running" => left[r] = 0

\* The cancel of r acts on the attempt that runs, and its text has one statement.
CancelsThisAttempt(r) == total[r] = 1 /\ cancel[r].attempt = attempt[r]

CancelInv(r) ==
  /\ stage[r] = "idle" => cancel[r].pc = "none" /\ attempt[r] = 0
  /\ cancel[r].attempt <= attempt[r]
  /\ path[r] = "progressive" => attempt[r] <= 1
  /\ CancelsThisAttempt(r) /\ cancel[r].pc \in {"killing", "sent"} =>
       /\ stage[r] \notin {"idle", "submitted", "waiting", "begun"}
       /\ \A c \in Conns : server[c] = r => c = cancel[r].target
  /\ CancelsThisAttempt(r) /\ r \notin missed /\ cancel[r].pc = "landed" =>
       /\ stage[r] \notin {"idle", "submitted", "waiting", "begun"}
       /\ NoStatement(r)
  /\ CancelsThisAttempt(r) /\ r \notin missed
     /\ cancel[r].pc = "answered" /\ cancel[r].confirmed =>
       /\ NoStatement(r)
       /\ stage[r] \notin {"idle", "submitted", "waiting"}
       /\ stage[r] = "begun" => slots[r].cancelled

ConfirmInv == \A r \in Requests : StatementInv(r) /\ CancelInv(r)

\* A step of another request leaves r alone.
SameCommand(r) ==
  /\ stage'[r] = stage[r] /\ path'[r] = path[r] /\ attempt'[r] = attempt[r]
  /\ total'[r] = total[r] /\ left'[r] = left[r] /\ result'[r] = result[r]

SameDriver(r) ==
  /\ slots'[r] = slots[r] /\ conn'[r] = conn[r] /\ reply'[r] = reply[r]
  /\ \A c \in Conns : server'[c] = r => server[c] = r

\* A step of another request leaves the cancel of r alone.
SameCancel(r) == cancel'[r] = cancel[r] /\ (r \in missed' <=> r \in missed)

LEMMA SameRequest ==
  ASSUME NEW r \in Requests, StatementInv(r), CancelInv(r), SameCommand(r), SameDriver(r),
         SameCancel(r)
  PROVE  StatementInv(r)' /\ CancelInv(r)'
  BY DEF StatementInv, CancelInv, SameCommand, SameDriver, SameCancel, CancelsThisAttempt,
     NoStatement

LEMMA OthersFrontEnd ==
  ASSUME TypeOK, NEW r \in Requests, NEW q \in Requests \ {r}, FrontEnd(r)
  PROVE  SameCommand(q) /\ SameDriver(q) /\ SameCancel(q)
  <1> USE DEF SameCancel, SameCommand, SameDriver, Enter, Return, TypeOK, commandVars, driverVars, cancelVars
  <1>1. CASE Submit(r)
    BY <1>1 DEF Submit
  <1>2. CASE Fallback(r)
    BY <1>2 DEF Fallback
  <1>3. CASE Settle(r)
    BY <1>3 DEF Settle
  <1>4. QED
    BY <1>1, <1>2, <1>3 DEF FrontEnd

LEMMA OthersLeave ==
  ASSUME TypeOK, NEW r \in Requests, NEW q \in Requests \ {r}, LeaveDriver(r),
         NEW s, Enter(r, s), NEW v, Return(r, v), UNCHANGED <<commandVars, left, server>>
  PROVE  SameCommand(q) /\ SameDriver(q)
  BY DEF SameCommand, SameDriver, Enter, Return, TypeOK, commandVars, LeaveDriver

LEMMA OthersCommand ==
  ASSUME TypeOK, NEW r \in Requests, NEW q \in Requests \ {r},
         Command(r) \/ SetupFails(r) \/ TokenWins(r) \/ TimesOut(r)
  PROVE  SameCommand(q) /\ SameDriver(q) /\ SameCancel(q)
  <1> USE DEF SameCancel
  <1>1. CASE Refuse(r) \/ Register(r) \/ Finish(r) \/ EmissionEnds(r) \/ Emit(r)
    BY <1>1 DEF Refuse, Register, Finish, EmissionEnds, Emit, SameCommand, SameDriver,
       Enter, Return, TypeOK, commandVars, driverVars, cancelVars
  <1>2. ASSUME NEW c \in Conns, Acquire(r, c)
        PROVE  SameCommand(q) /\ SameDriver(q) /\ SameCancel(q)
    BY <1>2 DEF Acquire, SameCommand, SameDriver, Enter, TypeOK, commandVars, cancelVars
  <1>3. CASE RegisterBackend(r) /\ slots[r].cancelled
    BY <1>3, OthersLeave DEF RegisterBackend, ExecutionFails, cancelVars
  <1>4. CASE RegisterBackend(r) /\ ~slots[r].cancelled
    BY <1>4 DEF RegisterBackend, SameCommand, SameDriver, Enter, TypeOK, commandVars,
       cancelVars
  <1>5. CASE NextStatement(r)
    BY <1>5 DEF NextStatement, SameCommand, SameDriver, TypeOK, commandVars, cancelVars
  <1>6. CASE Succeed(r) \/ Fail(r) \/ SetupFails(r)
    BY <1>6, OthersLeave DEF Succeed, Fail, SetupFails, ExecutionFails, cancelVars
  <1>7. CASE TokenWins(r) \/ TimesOut(r)
    BY <1>7, OthersLeave DEF TokenWins, TimesOut, Abandon, cancelVars
  <1>8. QED
    BY <1>1, <1>2, <1>3, <1>4, <1>5, <1>6, <1>7 DEF Command

LEMMA OthersCancel ==
  ASSUME TypeOK, NEW r \in Requests, NEW q \in Requests \ {r}, CancelCommand(r)
  PROVE  SameCancel(q)
  BY DEF SameCancel, CancelCommand, CancelSteps, CancelSignal, CancelLookup, CancelKill,
     CancelFails, CancelError, KillLands, KillReply, KillAnswers, KillFails, KillReturns, TypeOK

\* A statement that ends leaves everyone's invariant alone: the reply goes to the
\* request that runs it, and that has no other statement.
LEMMA StatementEndsOwn ==
  ASSUME TypeOK, PoolInv, NEW r \in Requests, StatementInv(r), NEW c \in Conns,
         server[c] # NoRequest, NEW v, StatementEnds(c, v),
         UNCHANGED <<stage, commandVars, left, result, slots, conn>>
  PROVE  StatementInv(r)'
  <1>1. /\ \A d \in Conns \ {c} : server'[d] = server[d]
        /\ server'[c] = NoRequest
        /\ NoStatement(r) => NoStatement(r)'
    BY QueryConstants DEF StatementEnds, TypeOK, NoStatement
  <1>2. \A d \in Conns : server'[d] = r => server[d] = r
    BY <1>1, QueryConstants
  <1>3. CASE reply'[r] = reply[r]
    BY <1>1, <1>2, <1>3 DEF StatementInv, commandVars
  <1>4. CASE reply'[r] # reply[r]
    <2>1. server[c] = r /\ pool[c] # "draining"
      BY <1>4 DEF StatementEnds, TypeOK
    <2>2. conn[r] = c
      BY <2>1 DEF TypeOK, PoolInv, ConnectionsAccounted
    <2>3. stage[r] = "running"
      BY <2>1, <2>2, QueryConstants DEF PoolInv, HoldersInScope, InScope, StatementInv,
         NoStatement
    <2>4. NoStatement(r)'
      BY <1>1, <1>2, <2>1, <2>2, <2>3, QueryConstants DEF StatementInv, NoStatement
    <2>5. QED
      BY <1>2, <2>3, <2>4 DEF StatementInv, commandVars
  <1>5. QED
    BY <1>3, <1>4

LEMMA StatementEndsOthers ==
  ASSUME TypeOK, NEW r \in Requests, CancelInv(r), NEW c \in Conns,
         server[c] # NoRequest, NEW v, StatementEnds(c, v),
         UNCHANGED <<stage, commandVars, slots>>, SameCancel(r)
  PROVE  CancelInv(r)'
  <1>1. \A d \in Conns : server'[d] = r => server[d] = r
    BY QueryConstants DEF StatementEnds, TypeOK
  <1>2. QED
    BY <1>1 DEF CancelInv, CancelsThisAttempt, NoStatement, SameCancel, commandVars

LEMMA OwnFrontEnd ==
  ASSUME TypeInv, NEW r \in Requests, StatementInv(r), CancelInv(r), FrontEnd(r)
  PROVE  StatementInv(r)' /\ CancelInv(r)'
  <1> USE DEF StatementInv, CancelInv, CancelsThisAttempt, NoStatement
  <1>1. CASE Submit(r)
    <2>1. PICK p \in {"legacy", "progressive"}, n \in 1..MaxStatements :
            /\ path' = [path EXCEPT ![r] = p] /\ total' = [total EXCEPT ![r] = n]
            /\ left' = [left EXCEPT ![r] = n]
      BY <1>1 DEF Submit
    <2>2. /\ stage[r] = "idle" /\ attempt'[r] = 1 /\ stage'[r] = "submitted"
          /\ UNCHANGED <<result, slots, conn, server, reply, cancel, missed>>
      BY <1>1 DEF Submit, TypeInv, TypeOK, Enter, driverVars, cancelVars
    <2>3. cancel[r].attempt \in 0..2 /\ attempt[r] \in 0..2
      BY DEF TypeInv, TypeOK
    <2>4. StatementInv(r)'
      BY <2>2
    <2>5. CancelInv(r)'
      BY <2>1, <2>2, <2>3
    <2>6. QED
      BY <2>4, <2>5
  <1>2. CASE Fallback(r)
    <2>1. /\ stage[r] = "returned" /\ path[r] = "progressive"
          /\ result[r] \in {"error", "refused"}
          /\ attempt'[r] = 2 /\ stage'[r] = "submitted" /\ path'[r] = "legacy"
          /\ result'[r] = "none" /\ UNCHANGED <<total, slots, conn, server, reply, cancel, missed>>
      BY <1>2 DEF Fallback, TypeInv, TypeOK, Enter, Return, driverVars, cancelVars
    <2>2. cancel[r].attempt \in 0..2 /\ attempt[r] \in 0..2
      BY DEF TypeInv, TypeOK
    <2>3. StatementInv(r)'
      BY <2>1
    <2>4. CancelInv(r)'
      BY <2>1, <2>2
    <2>5. QED
      BY <2>3, <2>4
  <1>3. CASE Settle(r)
    <2>1. /\ stage[r] = "returned" /\ stage'[r] = "done" /\ path'[r] = "legacy"
          /\ result'[r] = "none"
          /\ UNCHANGED <<attempt, total, slots, conn, server, reply, cancel, missed>>
      BY <1>3 DEF Settle, TypeInv, TypeOK, Enter, Return, driverVars, cancelVars
    <2>2. StatementInv(r)'
      BY <2>1
    <2>3. CancelInv(r)'
      BY <2>1
    <2>4. QED
      BY <2>2, <2>3
  <1>4. QED
    BY <1>1, <1>2, <1>3 DEF FrontEnd

\* The execution future of r ends.
LEMMA OwnLeave ==
  ASSUME TypeInv, NEW r \in Requests, StatementInv(r), CancelInv(r), LeaveDriver(r),
         stage[r] \in Executing, NEW s \in {"emitting", "finishing", "returned"}, Enter(r, s),
         NEW v \in {"ok", "cancelled", "timeout", "error"}, Return(r, v),
         v = "error" => NoStatement(r),
         UNCHANGED <<commandVars, left, server, cancel, missed>>
  PROVE  StatementInv(r)' /\ CancelInv(r)'
  <1>1. /\ stage'[r] = s /\ result'[r] = v /\ reply'[r] = "none"
        /\ UNCHANGED <<path, attempt, total, left, server, cancel, missed>>
    BY DEF TypeInv, TypeOK, LeaveDriver, Enter, Return, commandVars
  <1>2. StatementInv(r)'
    BY <1>1 DEF StatementInv, NoStatement
  <1>3. CancelInv(r)'
    BY <1>1 DEF CancelInv, NoStatement, CancelsThisAttempt
  <1>4. QED
    BY <1>2, <1>3

LEMMA OwnCommand ==
  ASSUME TypeInv, PoolInv, NEW r \in Requests, StatementInv(r), CancelInv(r),
         Command(r) \/ SetupFails(r) \/ TokenWins(r) \/ TimesOut(r)
  PROVE  StatementInv(r)' /\ CancelInv(r)'
  <1> USE DEF Executing
  <1>1. ASSUME stage[r] \in {"submitted", "emitting", "finishing"},
               NEW s \in {"waiting", "emitting", "finishing", "returned"}, stage'[r] = s,
               stage[r] # "submitted" => s # "waiting", s = "emitting" => stage[r] = "emitting",
               stage[r] # "submitted" => result'[r] = result[r],
               s = "waiting" => result'[r] = result[r],
               UNCHANGED <<path, attempt, total, left, slots, conn, server, reply, cancel, missed>>
        PROVE  StatementInv(r)' /\ CancelInv(r)'
    <2>1. StatementInv(r)'
      BY <1>1 DEF StatementInv, NoStatement
    <2>2. CancelInv(r)'
      BY <1>1 DEF CancelInv, NoStatement, CancelsThisAttempt
    <2>3. QED
      BY <2>1, <2>2
  <1>2. CASE Refuse(r) \/ Register(r) \/ Finish(r) \/ EmissionEnds(r)
    BY <1>1, <1>2 DEF Refuse, Register, Finish, EmissionEnds, Enter, Return, commandVars,
       driverVars, cancelVars, TypeInv, TypeOK
  <1>3. CASE Emit(r)
    BY <1>1, <1>3 DEF Emit, Enter, commandVars, driverVars, cancelVars, TypeInv, TypeOK
  <1>4. ASSUME NEW c \in Conns, Acquire(r, c)
        PROVE  StatementInv(r)' /\ CancelInv(r)'
    <2>1. /\ stage[r] = "waiting" /\ stage'[r] = "begun"
          /\ UNCHANGED <<path, attempt, total, left, result, server, reply, cancel, missed>>
      BY <1>4 DEF Acquire, Enter, commandVars, cancelVars, TypeInv, TypeOK
    <2>2. StatementInv(r)'
      BY <2>1 DEF StatementInv, NoStatement
    <2>3. CancelInv(r)'
      BY <2>1 DEF CancelInv, NoStatement, CancelsThisAttempt
    <2>4. QED
      BY <2>2, <2>3
  <1>5. CASE RegisterBackend(r) /\ slots[r].cancelled
    BY <1>5, OwnLeave DEF RegisterBackend, ExecutionFails, cancelVars, StatementInv
  <1>6. CASE RegisterBackend(r) /\ ~slots[r].cancelled
    <2>1. /\ stage[r] = "begun" /\ stage'[r] = "running" /\ left'[r] = left[r] - 1
          /\ server' = [server EXCEPT ![conn[r]] = r]
          /\ UNCHANGED <<path, attempt, total, result, conn, reply, cancel, missed>>
      BY <1>6 DEF RegisterBackend, Enter, commandVars, cancelVars, TypeInv, TypeOK
    <2>2. left[r] = total[r]
      BY <2>1 DEF TypeInv, StatementsLeft
    <2>3. StatementInv(r)'
      BY <2>1, <2>2 DEF StatementInv, NoStatement, TypeInv, TypeOK
    <2>4. CancelInv(r)'
      BY <1>6, <2>1 DEF CancelInv, NoStatement, CancelsThisAttempt
    <2>5. QED
      BY <2>3, <2>4
  <1>7. CASE NextStatement(r)
    <2>1. /\ stage[r] = "running" /\ stage'[r] = "running" /\ left[r] > 0
          /\ server' = [server EXCEPT ![conn[r]] = r] /\ reply'[r] = "none"
          /\ UNCHANGED <<path, attempt, total, result, conn, cancel, missed>>
      BY <1>7 DEF NextStatement, commandVars, cancelVars, TypeInv, TypeOK
    <2>2. total[r] # 1
      BY <2>1 DEF StatementInv
    <2>3. StatementInv(r)'
      BY <2>1, <2>2 DEF StatementInv, NoStatement, TypeInv, TypeOK
    <2>4. CancelInv(r)'
      BY <2>1, <2>2 DEF CancelInv, CancelsThisAttempt
    <2>5. QED
      BY <2>3, <2>4
  <1>8. CASE Succeed(r)
    BY <1>8, OwnLeave DEF Succeed, cancelVars, StatementInv
  <1>9. CASE Fail(r)
    BY <1>9, OwnLeave DEF Fail, ExecutionFails, cancelVars, StatementInv
  <1>10. CASE SetupFails(r)
    BY <1>10, OwnLeave DEF SetupFails, ExecutionFails, cancelVars, StatementInv
  <1>11. CASE TokenWins(r) \/ TimesOut(r)
    BY <1>11, OwnLeave DEF TokenWins, TimesOut, Abandon, cancelVars
  <1>12. QED
    BY <1>2, <1>3, <1>4, <1>5, <1>6, <1>7, <1>8, <1>9, <1>10, <1>11 DEF Command

LEMMA OwnCancel ==
  ASSUME TypeInv, PoolInv, ConfirmInv, NEW r \in Requests, CancelCommand(r)
  PROVE  StatementInv(r)' /\ CancelInv(r)'
  <1> USE DEF CancelsThisAttempt, NoStatement
  <1>0. StatementInv(r) /\ CancelInv(r)
    BY DEF ConfirmInv
  <1>1. ASSUME UNCHANGED <<stage, path, attempt, total, left, result, conn, server, reply>>
        PROVE  StatementInv(r)'
    BY <1>0, <1>1 DEF StatementInv
  <1>2. CASE CancelSignal(r)
    <2>1. /\ stage[r] # "idle" /\ cancel'[r].pc = "signalled"
          /\ cancel'[r].attempt = attempt[r]
          /\ UNCHANGED <<stage, path, attempt, total, left, result, conn, server, reply>>
      BY <1>2 DEF CancelSignal, CancelState, TypeInv, TypeOK, commandVars, driverVars
    <2>2. attempt[r] \in 0..2
      BY DEF TypeInv, TypeOK
    <2>3. CancelInv(r)'
      BY <1>0, <2>1, <2>2 DEF CancelInv
    <2>4. QED
      BY <1>1, <2>1, <2>3
  <1>3. CASE CancelLookup(r)
    <2>1. UNCHANGED <<stage, path, attempt, total, left, result, conn, server, reply>>
      BY <1>3 DEF CancelLookup, commandVars
    <2>2. /\ stage[r] # "idle"
          /\ attempt[r] \in 0..2
      BY <1>0, <1>3 DEF CancelLookup, CancelInv, TypeInv, TypeOK
    <2>3. CASE slots[r].backend # NoConn
      <3>1. stage[r] = "running" /\ slots[r].backend = conn[r]
        BY <2>3 DEF PoolInv, SlotsFollowScopes
      <3>2. cancel'[r].pc = "killing" /\ cancel'[r].target = conn[r]
            /\ cancel'[r].attempt = attempt[r]
        BY <1>3, <2>3, <3>1 DEF CancelLookup, CancelState, TypeInv, TypeOK
      <3>3. CancelInv(r)'
        BY <1>0, <2>1, <2>2, <3>1, <3>2 DEF CancelInv, StatementInv
      <3>4. QED
        BY <1>1, <2>1, <3>3
    <2>4. CASE slots[r].backend = NoConn /\ slots[r].open
      <3>1. stage[r] = "begun"
        BY <2>4 DEF PoolInv, SlotsFollowScopes, HoldersInScope, InScope
      <3>2. cancel'[r].pc = "answered" /\ cancel'[r].attempt = attempt[r]
            /\ slots'[r].cancelled
        BY <1>3, <2>4 DEF CancelLookup, CancelState, Slot, TypeInv, TypeOK
      <3>3. CancelInv(r)'
        BY <1>0, <2>1, <2>2, <3>1, <3>2 DEF CancelInv, StatementInv
      <3>4. QED
        BY <1>1, <2>1, <3>3
    <2>5. CASE slots[r].backend = NoConn /\ ~slots[r].open
      <3>1. cancel' = [cancel EXCEPT ![r] =
                         CancelState("answered", NoConn, NoConn, slots[r].open, attempt[r])]
        BY <1>3, <2>5 DEF CancelLookup
      <3>2. cancel'[r].pc = "answered" /\ ~cancel'[r].confirmed
            /\ cancel'[r].attempt = attempt[r]
        BY <2>5, <3>1 DEF CancelState, TypeInv, TypeOK
      <3>3. CancelInv(r)'
        BY <1>0, <2>1, <2>2, <3>2 DEF CancelInv
      <3>4. QED
        BY <1>1, <2>1, <3>3
    <2>6. QED
      BY <2>3, <2>4, <2>5
  <1>4. ASSUME NEW d \in Conns, CancelKill(r, d)
        PROVE  StatementInv(r)' /\ CancelInv(r)'
    <2>1. /\ cancel[r].pc = "killing" /\ cancel'[r].pc = "sent"
          /\ cancel'[r].attempt = cancel[r].attempt /\ cancel'[r].target = cancel[r].target
          /\ UNCHANGED <<stage, path, attempt, total, left, result, slots, conn, server, reply>>
      BY <1>4 DEF CancelKill, TypeInv, TypeOK, commandVars
    <2>2. CancelInv(r)'
      BY <1>0, <2>1 DEF CancelInv
    <2>3. QED
      BY <1>1, <2>1, <2>2
  <1>5. CASE KillLands(r)
    <2>1. /\ cancel[r].pc = "sent" /\ cancel'[r].pc = "landed"
          /\ cancel'[r].attempt = cancel[r].attempt
          /\ cancel[r].target \in Conns
          /\ UNCHANGED <<stage, path, attempt, total, left, result, slots, conn>>
      BY <1>5 DEF KillLands, TypeInv, TypeOK, KillTargets, Killing, commandVars
    <2>2. CASE cancel[r].target \notin arrived
      <3>1. /\ UNCHANGED <<server, reply>>
            /\ server[cancel[r].target] = r => r \in missed'
            /\ missed \subseteq missed'
        BY <1>5, <2>2 DEF KillLands
      <3>2. StatementInv(r)'
        BY <1>1, <2>1, <3>1
      <3>3. CancelInv(r)'
        BY <1>0, <2>1, <3>1 DEF CancelInv
      <3>4. QED
        BY <3>2, <3>3
    <2>3. CASE cancel[r].target \in arrived
      <3>1. PICK c \in Conns : c = cancel[r].target
        BY <2>1
      <3>2. /\ StatementEnds(c, "killed") /\ server[c] # NoRequest
            /\ UNCHANGED <<commandVars, missed>>
        BY <1>5, <2>3, <3>1 DEF KillLands, TypeInv, ArrivedRun
      <3>3. \A d \in Conns : server'[d] = r => server[d] = r /\ d # c
        BY <3>2, QueryConstants DEF StatementEnds, TypeInv, TypeOK
      <3>4. StatementInv(r)'
        BY <1>0, <2>1, <3>2, StatementEndsOwn DEF TypeInv
      <3>5. CancelInv(r)'
        BY <1>0, <2>1, <3>1, <3>2, <3>3 DEF CancelInv
      <3>6. QED
        BY <3>4, <3>5
    <2>4. QED
      BY <2>2, <2>3
  <1>6. CASE KillReply(r)
    <2>1. /\ cancel'[r].attempt = cancel[r].attempt
          /\ \/ cancel[r].pc = "landed" /\ cancel'[r].pc = "answered"
             \/ cancel[r].pc \in OnItsWay /\ cancel'[r].pc = "failed"
          /\ UNCHANGED <<stage, path, attempt, total, left, result, slots, conn, server, reply,
                         missed>>
      BY <1>6 DEF KillReply, KillAnswers, KillFails, KillReturns, CancelState, TypeInv, TypeOK,
         commandVars
    <2>2. CancelInv(r)'
      BY <1>0, <2>1 DEF CancelInv, OnItsWay
    <2>3. QED
      BY <1>1, <2>1, <2>2
  <1>7. CASE CancelFails(r)
    <2>1. /\ cancel[r].pc # "none" /\ cancel'[r].pc = "failed"
          /\ cancel'[r].attempt = cancel[r].attempt
          /\ UNCHANGED <<stage, path, attempt, total, left, result, conn, server, reply>>
      BY <1>7 DEF CancelFails, CancelError, CancelState, TypeInv, TypeOK, commandVars,
         driverVars
    <2>2. CancelInv(r)'
      BY <1>0, <2>1 DEF CancelInv
    <2>3. QED
      BY <1>1, <2>1, <2>2
  <1>8. QED
    BY <1>2, <1>3, <1>4, <1>5, <1>6, <1>7 DEF CancelCommand, CancelSteps

\* The steps of the server on a connection.
LEMMA ServerConfirm ==
  ASSUME TypeInv, PoolInv, ConfirmInv, NEW q \in Requests, NEW c \in Conns, ServerSteps(c)
  PROVE  StatementInv(q)' /\ CancelInv(q)'
  <1>0. TypeOK /\ StatementInv(q) /\ CancelInv(q)
    BY DEF TypeInv, ConfirmInv
  <1>1. SameCommand(q) /\ SameCancel(q)
    BY DEF ServerSteps, StatementArrives, RowsCapped, ServerReplies, cancelVars, commandVars,
       SameCommand, SameCancel
  <1>2. CASE StatementArrives(c)
    <2>1. SameDriver(q)
      BY <1>2 DEF StatementArrives, SameDriver
    <2>2. QED
      BY <1>0, <1>1, <2>1, SameRequest
  <1>3. CASE RowsCapped(c)
    <2>1. UNCHANGED <<stage, path, attempt, total, left, result, slots, conn, server, cancel>>
          /\ reply' = [reply EXCEPT ![server[c]] = "capped"]
          /\ pool[c] = "busy" /\ server[c] # NoRequest
      BY <1>3 DEF RowsCapped, commandVars, cancelVars, TypeInv, ArrivedRun
    <2>2. CASE server[c] # q
      <3>1. reply'[q] = reply[q]
        BY <1>0, <2>1, <2>2 DEF TypeOK
      <3>2. SameDriver(q)
        BY <2>1, <3>1 DEF SameDriver
      <3>3. QED
        BY <1>0, <1>1, <3>2, SameRequest
    <2>3. CASE server[c] = q
      <3>1. conn[q] = c /\ reply'[q] = "capped"
        BY <1>0, <2>1, <2>3 DEF TypeOK, PoolInv, ConnectionsAccounted
      <3>2. stage[q] = "running"
        BY <1>0, <2>3, <3>1, QueryConstants DEF PoolInv, HoldersInScope, InScope, StatementInv,
           NoStatement
      <3>3. StatementInv(q)'
        BY <1>0, <2>1, <3>1, <3>2 DEF StatementInv, NoStatement
      <3>4. CancelInv(q)'
        BY <1>0, <1>1, <2>1 DEF CancelInv, CancelsThisAttempt, NoStatement, SameCancel
      <3>5. QED
        BY <3>3, <3>4
    <2>4. QED
      BY <2>2, <2>3
  <1>4. CASE ServerReplies(c)
    <2>1. PICK v \in {"rows", "error"} : StatementEnds(c, v)
      BY <1>4 DEF ServerReplies
    <2>2. server[c] # NoRequest /\ UNCHANGED <<stage, commandVars, left, result, slots, conn>>
      BY <1>4 DEF ServerReplies, TypeInv, ArrivedRun
    <2>3. QED
      BY <1>0, <1>1, <2>1, <2>2, StatementEndsOwn, StatementEndsOthers
  <1>5. QED
    BY <1>2, <1>3, <1>4 DEF ServerSteps

LEMMA NextConfirm == TypeInv /\ PoolInv /\ ConfirmInv /\ [Next]_vars => ConfirmInv'
  <1> SUFFICES ASSUME TypeInv, PoolInv, ConfirmInv, [Next]_vars, NEW q \in Requests
               PROVE  StatementInv(q)' /\ CancelInv(q)'
    BY DEF ConfirmInv
  <1>0. TypeOK /\ StatementInv(q) /\ CancelInv(q)
    BY DEF TypeInv, ConfirmInv
  <1>1. ASSUME NEW r \in Requests, FrontEnd(r)
        PROVE  StatementInv(q)' /\ CancelInv(q)'
    BY <1>0, <1>1, OwnFrontEnd, OthersFrontEnd, SameRequest
  <1>2. ASSUME NEW r \in Requests, Command(r) \/ SetupFails(r) \/ TokenWins(r) \/ TimesOut(r)
        PROVE  StatementInv(q)' /\ CancelInv(q)'
    <2>1. CASE r = q
      BY <1>0, <1>2, <2>1, OwnCommand
    <2>2. CASE r # q
      BY <1>0, <1>2, <2>2, OthersCommand, SameRequest
    <2>3. QED
      BY <2>1, <2>2
  <1>3. ASSUME NEW c \in Conns, ServerSteps(c)
        PROVE  StatementInv(q)' /\ CancelInv(q)'
    BY <1>3, ServerConfirm
  <1>4. ASSUME NEW r \in Requests, CancelCommand(r)
        PROVE  StatementInv(q)' /\ CancelInv(q)'
    <2>1. CASE r = q
      BY <1>4, <2>1, OwnCancel
    <2>2. CASE r # q
      <3>1. SameCancel(q)
        BY <1>0, <1>4, <2>2, OthersCancel
      <3>2. CASE KillLands(r) /\ cancel[r].target \in arrived
        <4>1. PICK c \in Conns : c = cancel[r].target
          BY <3>2 DEF TypeInv, TypeOK
        <4>2. /\ StatementEnds(c, "killed") /\ server[c] # NoRequest
              /\ UNCHANGED <<stage, commandVars, left, result, slots, conn>>
          BY <3>2, <4>1 DEF KillLands, TypeInv, ArrivedRun
        <4>3. QED
          BY <1>0, <3>1, <4>2, StatementEndsOwn, StatementEndsOthers
      <3>3. CASE ~(KillLands(r) /\ cancel[r].target \in arrived)
        <4>1. SameDriver(q)
          <5>1. UNCHANGED <<conn, server, reply>> /\ slots'[q] = slots[q]
            BY <1>0, <1>4, <2>2, <3>3 DEF CancelCommand, CancelSteps, CancelSignal,
               CancelLookup, CancelKill, CancelFails, CancelError, KillLands, KillReply,
               KillAnswers, KillFails, KillReturns, driverVars, TypeOK
          <5>2. QED
            BY <5>1 DEF SameDriver
        <4>2. SameCommand(q)
          BY <1>4 DEF CancelCommand, CancelSteps, CancelSignal, CancelLookup, CancelKill,
             CancelFails, CancelError, KillLands, KillReply, KillAnswers, KillFails,
             KillReturns, commandVars, SameCommand
        <4>3. QED
          BY <1>0, <3>1, <4>1, <4>2, SameRequest
      <3>4. QED
        BY <3>2, <3>3
    <2>3. QED
      BY <2>1, <2>2
  <1>5. CASE UNCHANGED vars
    <2>1. SameCommand(q) /\ SameDriver(q) /\ SameCancel(q)
      BY <1>5 DEF vars, commandVars, driverVars, cancelVars, SameCommand, SameDriver,
         SameCancel
    <2>2. QED
      BY <1>0, <2>1, SameRequest
  <1>6. QED
    BY <1>1, <1>2, <1>3, <1>4, <1>5 DEF Next, Terminated

LEMMA InitConfirm == Init => ConfirmInv
  BY QueryConstants DEF Init, ConfirmInv, StatementInv, CancelInv, CancelsThisAttempt,
     NoStatement, NoCancel, CancelState

\* What the answer server_confirmed says is true of a text of one statement, for any
\* number of requests and connections: whichever of token, timeout, reply, lookup and
\* kill came first, no statement of that attempt is under way any more, unless the kill
\* overtook it between its backend id's registration and its arrival.
THEOREM ConfirmedStops == Spec => []ConfirmedStopsOne
  <1>1. ConfirmInv => ConfirmedStopsOne
    BY DEF ConfirmInv, CancelInv, CancelsThisAttempt, NoStatement, ConfirmedStopsOne,
       ConfirmedMeansStopped
  <1>2. QED
    BY <1>1, InitConfirm, NextConfirm, TypesHold, PoolHolds, PTL DEF Spec

-----------------------------------------------------------------------------
(***************************************************************************)
(* What a progressive command has delivered.                               *)
(***************************************************************************)

\* Nothing is delivered before the statement succeeds, the emission loop runs on a
\* result marked as the driver marked it, and what left the loop is marked exactly when
\* it is capped or short. An attempt run again starts from nothing.
DeliveryInv(r) ==
  /\ stage[r] \in {"idle", "submitted", "waiting", "begun", "running", "done"} =>
       result[r] = "none"
  /\ result[r] # "ok" => emitted[r] = 0 /\ ~truncated[r]
  /\ stage[r] = "emitting" =>
       path[r] = "progressive" /\ result[r] = "ok" /\ truncated[r] = capped[r]
  /\ path[r] = "progressive" /\ result[r] = "ok" /\ stage[r] # "emitting" =>
       (truncated[r] <=> capped[r] \/ emitted[r] < Batches)

SameDelivery(r) ==
  /\ stage'[r] = stage[r] /\ path'[r] = path[r] /\ result'[r] = result[r]
  /\ emitted'[r] = emitted[r] /\ truncated'[r] = truncated[r]
  /\ stage[r] = "running" \/ capped'[r] = capped[r]

LEMMA SameDelivered ==
  ASSUME NEW r \in Requests, DeliveryInv(r), SameDelivery(r)
  PROVE  DeliveryInv(r)'
  BY DEF DeliveryInv, SameDelivery

\* The execution of r ends, and the loop has not run.
LEMMA DeliversNothingYet ==
  ASSUME TypeOK, NEW r \in Requests, DeliveryInv(r), stage[r] \in Executing,
         NEW s \in {"emitting", "finishing", "returned"}, Enter(r, s),
         NEW v \in {"cancelled", "timeout", "error"}, Return(r, v),
         UNCHANGED <<commandVars, deliveryVars>>, s # "emitting"
  PROVE  DeliveryInv(r)'
  <1>1. /\ stage'[r] = s /\ result'[r] = v
        /\ UNCHANGED <<path, emitted, truncated>>
        /\ emitted[r] = 0 /\ ~truncated[r]
    BY DEF TypeOK, Enter, Return, commandVars, deliveryVars, DeliveryInv, Executing
  <1>2. QED
    BY <1>1 DEF DeliveryInv

LEMMA OwnDelivery ==
  ASSUME TypeOK, NEW r \in Requests, DeliveryInv(r),
         FrontEnd(r) \/ Command(r) \/ SetupFails(r) \/ TokenWins(r) \/ TimesOut(r)
  PROVE  DeliveryInv(r)'
  <1> USE DEF Enter, Return, TypeOK, commandVars, deliveryVars
  <1>1. CASE Submit(r)
    <2>1. /\ stage[r] = "idle" /\ stage'[r] = "submitted"
          /\ UNCHANGED <<result, emitted, truncated>>
      BY <1>1 DEF Submit
    <2>2. QED
      BY <2>1 DEF DeliveryInv
  <1>2. CASE Fallback(r)
    <2>1. /\ result[r] # "ok" /\ result'[r] = "none" /\ stage'[r] = "submitted"
          /\ UNCHANGED <<emitted, truncated>>
      BY <1>2 DEF Fallback
    <2>2. QED
      BY <2>1 DEF DeliveryInv
  <1>3. CASE Settle(r)
    <2>1. /\ result'[r] = "none" /\ stage'[r] = "done"
          /\ emitted'[r] = 0 /\ truncated'[r] = FALSE
      BY <1>3 DEF Settle
    <2>2. QED
      BY <2>1 DEF DeliveryInv
  <1>4. CASE Refuse(r)
    <2>1. /\ stage[r] = "submitted" /\ result'[r] = "refused" /\ stage'[r] = "returned"
          /\ UNCHANGED <<emitted, truncated>>
      BY <1>4 DEF Refuse
    <2>2. QED
      BY <2>1 DEF DeliveryInv
  <1>5. ASSUME stage[r] \in {"submitted", "waiting", "begun"}, result'[r] = result[r],
               stage'[r] \in {"waiting", "begun", "running"},
               UNCHANGED <<emitted, truncated>>
        PROVE  DeliveryInv(r)'
    BY <1>5 DEF DeliveryInv
  <1>6. CASE Register(r) \/ \E c \in Conns : Acquire(r, c)
    BY <1>5, <1>6 DEF Register, Acquire
  <1>7. CASE RegisterBackend(r) /\ ~slots[r].cancelled
    BY <1>5, <1>7 DEF RegisterBackend
  <1>8. CASE NextStatement(r)
    <2>1. stage[r] = "running" /\ UNCHANGED <<stage, path, result, emitted, truncated>>
      BY <1>8 DEF NextStatement
    <2>2. QED
      BY <2>1, SameDelivered DEF SameDelivery
  <1>9. CASE Emit(r)
    <2>1. /\ stage[r] = "emitting" /\ emitted[r] < Batches
          /\ UNCHANGED <<path, result, capped>>
      BY <1>9 DEF Emit
    <2>2. CASE attempt[r] \in fired[r]
      <3>1. truncated'[r] = TRUE /\ stage'[r] = "finishing" /\ emitted'[r] = emitted[r]
        BY <1>9, <2>2 DEF Emit
      <3>2. QED
        BY <2>1, <3>1 DEF DeliveryInv
    <2>3. CASE attempt[r] \notin fired[r]
      <3>1. UNCHANGED <<stage, truncated>>
        BY <1>9, <2>3 DEF Emit
      <3>2. QED
        BY <2>1, <3>1 DEF DeliveryInv
    <2>4. QED
      BY <2>2, <2>3
  <1>10. CASE EmissionEnds(r)
    <2>1. /\ stage[r] = "emitting" /\ emitted[r] = Batches /\ stage'[r] = "finishing"
          /\ UNCHANGED <<path, result, emitted, truncated, capped>>
      BY <1>10 DEF EmissionEnds
    <2>2. ~(emitted[r] < Batches)
      BY <2>1, QueryConstants
    <2>3. QED
      BY <2>1, <2>2 DEF DeliveryInv
  <1>11. CASE Finish(r)
    <2>1. /\ stage[r] = "finishing" /\ stage'[r] = "returned"
          /\ UNCHANGED <<path, result, emitted, truncated, capped>>
      BY <1>11 DEF Finish
    <2>2. QED
      BY <2>1 DEF DeliveryInv
  <1>12. CASE SetupFails(r) \/ Fail(r) \/ (RegisterBackend(r) /\ slots[r].cancelled)
    BY <1>12, DeliversNothingYet DEF SetupFails, Fail, RegisterBackend, ExecutionFails,
       Executing
  <1>13. CASE TokenWins(r) \/ TimesOut(r)
    BY <1>13, DeliversNothingYet DEF TokenWins, TimesOut, Abandon
  <1>14. CASE Succeed(r)
    <2>1. /\ stage[r] = "running" /\ result'[r] = "ok"
          /\ stage'[r] = (IF path[r] = "progressive" THEN "emitting" ELSE "finishing")
          /\ truncated'[r] = capped'[r] /\ UNCHANGED <<path, emitted>>
      BY <1>14 DEF Succeed
    <2>2. QED
      BY <2>1 DEF DeliveryInv
  <1>15. QED
    BY <1>1, <1>2, <1>3, <1>4, <1>6, <1>7, <1>8, <1>9, <1>10, <1>11, <1>12, <1>13, <1>14
       DEF FrontEnd, Command

\* A step of another request, of the server or of a cancel delivers nothing.
LEMMA OthersDelivery ==
  ASSUME TypeOK, NEW r \in Requests, NEW q \in Requests \ {r},
         FrontEnd(r) \/ Command(r) \/ SetupFails(r) \/ TokenWins(r) \/ TimesOut(r)
  PROVE  SameDelivery(q)
  <1>1. /\ stage'[q] = stage[q] /\ path'[q] = path[q] /\ result'[q] = result[q]
    BY OthersFrontEnd, OthersCommand DEF SameCommand
  <1>2. /\ emitted'[q] = emitted[q] /\ truncated'[q] = truncated[q]
        /\ capped'[q] = capped[q]
    <2>1. CASE Settle(r) \/ Emit(r)
      BY <2>1 DEF Settle, Emit, TypeOK
    <2>2. CASE NextStatement(r) \/ Succeed(r)
      <3>1. capped'[q] = capped[q]
        BY <2>2, ResultSoFarType, TypesAreTypeOK DEF NextStatement, Succeed
      <3>2. emitted'[q] = emitted[q] /\ truncated'[q] = truncated[q]
        BY <2>2 DEF NextStatement, Succeed, TypeOK
      <3>3. QED
        BY <3>1, <3>2
    <2>3. CASE ~(Settle(r) \/ Emit(r) \/ NextStatement(r) \/ Succeed(r))
      BY <2>3 DEF FrontEnd, Command, SetupFails, TokenWins, TimesOut, Abandon, Submit,
         Fallback, Refuse, Register, Acquire, RegisterBackend, Fail, EmissionEnds, Finish,
         deliveryVars
    <2>4. QED
      BY <2>1, <2>2, <2>3
  <1>3. QED
    BY <1>1, <1>2 DEF SameDelivery

LEMMA NextDelivery ==
  ASSUME TypeOK, \A r \in Requests : DeliveryInv(r), [Next]_vars, NEW q \in Requests
  PROVE  DeliveryInv(q)'
  <1>1. ASSUME NEW r \in Requests,
               FrontEnd(r) \/ Command(r) \/ SetupFails(r) \/ TokenWins(r) \/ TimesOut(r)
        PROVE  DeliveryInv(q)'
    <2>1. CASE r = q
      BY <1>1, <2>1, OwnDelivery
    <2>2. CASE r # q
      BY <1>1, <2>2, OthersDelivery, SameDelivered
    <2>3. QED
      BY <2>1, <2>2
  <1>2. ASSUME UNCHANGED <<stage, path, result, emitted, truncated, capped>>
        PROVE  DeliveryInv(q)'
    BY <1>2, SameDelivered DEF SameDelivery
  <1>3. ASSUME NEW r \in Requests, CancelCommand(r)
        PROVE  UNCHANGED <<stage, path, result, emitted, truncated, capped>>
    BY <1>3 DEF CancelCommand, CancelSteps, CancelSignal, CancelLookup, CancelKill,
       CancelFails, CancelError, KillLands, KillReply, KillAnswers, KillFails, KillReturns,
       commandVars, deliveryVars
  <1>4. ASSUME NEW c \in Conns, ServerSteps(c)
        PROVE  UNCHANGED <<stage, path, result, emitted, truncated, capped>>
    BY <1>4 DEF ServerSteps, StatementArrives, RowsCapped, ServerReplies, commandVars,
       deliveryVars
  <1>5. CASE UNCHANGED vars
    BY <1>2, <1>5 DEF vars, commandVars, deliveryVars
  <1>6. QED
    BY <1>1, <1>2, <1>3, <1>4, <1>5 DEF Next, Terminated

\* A progressive result that came back is marked truncated exactly when the driver hit
\* its row cap or batches are missing, for any number of batches and wherever in the loop
\* a token fires.
THEOREM TruncationAlwaysTold == Spec => []TruncationIsTold
  <1>1. Init => \A r \in Requests : DeliveryInv(r)
    BY DEF Init, DeliveryInv
  <1>2. TypeOK /\ (\A r \in Requests : DeliveryInv(r)) /\ [Next]_vars
          => (\A r \in Requests : DeliveryInv(r))'
    BY NextDelivery
  <1>3. (\A r \in Requests : DeliveryInv(r)) => TruncationIsTold
    <2>1. ASSUME NEW r \in Requests, DeliveryInv(r), path[r] = "progressive",
                 result[r] = "ok", stage[r] # "emitting"
          PROVE  truncated[r] <=> capped[r] \/ emitted[r] < Batches
      BY <2>1 DEF DeliveryInv
    <2>2. QED
      BY <2>1 DEF TruncationIsTold
  <1>4. QED
    BY <1>1, <1>2, <1>3, TypeCorrect, PTL DEF Spec
=============================================================================
