------------------------------ MODULE CsvImport ------------------------------
(***************************************************************************)
(* The import of a CSV file in one transaction: the command and the thread *)
(* that parses the file (src-tauri/src/commands/table.rs), the driver that *)
(* inserts what the thread sends (insert_table_row_stream_atomically of    *)
(* the drivers), and, for a native driver, the sidecar process between     *)
(* them (database/sidecar/client.rs and server.rs).  All of them share a   *)
(* flag that cancel_csv_import sets and that each looks at in places of    *)
(* its own.                                                                *)
(*                                                                         *)
(* One import.  A step is what a task or the thread does between two       *)
(* awaits or waits.  A row is good or bad, that is, it does not parse; a   *)
(* frame on the pipe to the sidecar is a control frame or one row of a     *)
(* chunk.  The file system and the database server are external, and may   *)
(* refuse or not answer.                                                   *)
(***************************************************************************)
EXTENDS Naturals, Sequences

CONSTANTS
  Rows,       \* the records of the file
  Capacity,   \* of the channel between the thread and the driver
  BatchRows,  \* STREAM_BATCH_ROWS
  StreamCapacity \* STREAM_CHANNEL_CAPACITY

ASSUME CapacitiesAssumption == {Rows, Capacity, BatchRows, StreamCapacity} \subseteq Nat \ {0}

Row == {"row", "bad"}

VARIABLES
  via,      \* the driver is compiled in, "direct", or a "sidecar"
  held,     \* and works on a connection of a "pool", in a "thread", or on the "session"
  bad,      \* the record that does not parse, 0 if all do
  flag,     \* the AtomicBool that cancel_csv_import sets
  parser, read, verdict, \* the thread, the records read, and its result
  channel, heard, \* rows on their way, and whether the receiver exists
  cmd, outcome, told, \* the command, import_result, and what the grid tells the user
  tx, inserted, \* the transaction and the rows in it
  pump, batch, wire, \* stream_import, its batch, and the pipe to the process
  stream, streaming, abort, \* in the process: rows, their sender, the flag
  reply, alive, eof, \* the answer for the host, the process, the reader's end
  cut,      \* history: the end of the rows was a thread that had given up
  late,     \* history: the timeout came when the rows had ended
  unheard   \* history: a COMMIT took effect and its answer was lost

parsing == <<parser, read, verdict>>
command == <<cmd, outcome, told>>
driver == <<tx, inserted>>
host == <<pump, batch>>
process == <<wire, stream, streaming, abort, reply, alive, eof>>
import == <<via, held, bad, flag, parsing, channel, heard, command, driver, host, process, cut, late, unheard>>

\* Every variable has its type; the channels stay within their capacity.
ImportTypeOK ==
  /\ via \in {"direct", "sidecar"} /\ held \in {"pool", "thread", "session"}
  /\ bad \in 0 .. Rows /\ flag \in BOOLEAN
  /\ parser \in {"reading", "sending", "done"} /\ read \in 0 .. Rows
  /\ verdict \in {"none", "ok", "cancelled", "failed"}
  /\ channel \in Seq(Row) /\ Len(channel) <= Capacity /\ heard \in BOOLEAN
  /\ cmd \in {"counting", "importing", "joining", "verifying", "done"}
  /\ outcome \in {"none", "ok", "failed", "cancelled", "timeout"}
  /\ told \in {"nothing", "success", "rolled_back"}
  /\ tx \in {"none", "beginning", "open", "committing", "committed", "ended", "left"} /\ inserted \in 0 .. Rows
  /\ pump \in {"idle", "looking", "receiving", "waiting"}
  /\ batch \in Seq(Row) /\ Len(batch) < BatchRows
  /\ wire \in Seq(Row \cup {"open", "end", "cancel"})
  /\ stream \in Seq(Row) /\ Len(stream) <= StreamCapacity
  /\ {streaming, abort, alive, eof, cut, late, unheard} \subseteq BOOLEAN
  /\ reply \in {"none", "ok", "failed", "cancelled"}

\* The command has registered its flag and spawned the thread; it counts the rows
\* of the table first.
ImportInit ==
  /\ via \in {"direct", "sidecar"} /\ bad \in 0 .. Rows /\ flag = FALSE
  /\ held \in IF via = "direct" THEN {"pool", "thread", "session"} ELSE {"pool"}
  /\ parser = "reading" /\ read = 0 /\ verdict = "none"
  /\ channel = <<>> /\ heard = TRUE
  /\ cmd = "counting" /\ outcome = "none" /\ told = "nothing"
  /\ tx = "none" /\ inserted = 0
  /\ pump = "idle" /\ batch = <<>> /\ wire = <<>>
  /\ stream = <<>> /\ streaming = FALSE /\ abort = FALSE
  /\ reply = "none" /\ alive = TRUE /\ eof = FALSE
  /\ cut = FALSE /\ late = FALSE /\ unheard = FALSE

(***************************************************************************)
(* stream_csv_rows                                                         *)
(***************************************************************************)
Stops(v) == parser' = "done" /\ verdict' = v

\* Mutant of the next definition: the bad row is reported, and the thread is done.
ReportQuietly == Stops("ok")

\* The bad row is reported beside the file, and sent; or the report cannot be
\* written.
Report == Stops("failed") \/ (parser' = "sending" /\ UNCHANGED verdict)

\* The file cannot be opened; or the flag is looked at before each record, and not at
\* the end of the file.
Parse ==
  /\ parser = "reading"
  /\ \/ read = 0 /\ Stops("failed") /\ UNCHANGED read
     \/ read = Rows /\ Stops("ok") /\ UNCHANGED read
     \/ read < Rows /\ flag /\ Stops("cancelled") /\ UNCHANGED read
     \/ /\ read < Rows /\ ~flag
        /\ read' = read + 1
        /\ IF read' = bad THEN Report ELSE parser' = "sending" /\ UNCHANGED verdict
  /\ UNCHANGED <<via, held, bad, flag, channel, heard, command, driver, host, process, cut, late, unheard>>

\* Mutant of the next definition: the channel has no bound.
AnyRoom == TRUE

Room == Len(channel) < Capacity

\* blocking_send: nobody may receive any more.
SendRow ==
  /\ parser = "sending"
  /\ \/ /\ heard /\ Room
        /\ channel' = Append(channel, IF read = bad THEN "bad" ELSE "row")
        /\ IF read = bad THEN Stops("ok") ELSE parser' = "reading" /\ UNCHANGED verdict
     \/ ~heard /\ Stops("ok") /\ UNCHANGED channel
  /\ UNCHANGED <<via, held, bad, flag, read, heard, command, driver, host, process, cut, late, unheard>>

(***************************************************************************)
(* import_csv_file_atomically                                              *)
(***************************************************************************)
\* cancel_csv_import finds the flag until the thread has been joined.
Cancel ==
  /\ cmd \in {"counting", "importing", "joining"} /\ ~flag /\ flag' = TRUE
  /\ UNCHANGED <<via, held, bad, parsing, channel, heard, command, driver, host, process, cut, late, unheard>>

Gone == heard' = FALSE /\ channel' = <<>>

\* The driver's future ends and takes the receiver with it.
Receives(o) == outcome' = o /\ cmd' = "joining" /\ Gone

\* The count is there, or failed.  A request to a sidecar that is gone fails, or
\* is lost on the way.
StartImport ==
  /\ cmd = "counting"
  /\ \/ /\ cmd' = "importing"
        /\ IF via = "direct" THEN tx' = "beginning" /\ UNCHANGED <<pump, wire>>
           ELSE /\ pump' = "looking" /\ wire' = IF alive THEN <<"open">> ELSE <<>>
                /\ UNCHANGED tx
        /\ UNCHANGED <<outcome, channel, heard>>
     \/ via = "sidecar" /\ ~alive /\ Receives("failed") /\ UNCHANGED <<tx, pump, wire>>
  /\ UNCHANGED <<via, held, bad, flag, parsing, told, inserted, batch, stream, streaming, abort, reply, alive, eof, cut, late, unheard>>

\* The rows have ended for the driver, or for the sidecar.
RowsEnded ==
  \/ tx \in {"committing", "committed"}
  \/ via = "sidecar" /\ tx \in {"beginning", "open"} /\ ~streaming
  \/ \E i \in 1 .. Len(wire) : wire[i] = "end"

\* Mutant of the next definition: the receiver outlives the driver's future.
KeepsReceiver == UNCHANGED <<heard, channel>>

DropsReceiver == Gone

\* What dropping the driver's future makes of its transaction.  A connection of a pool
\* rolls it back, unless the server has the COMMIT.  A thread goes on with it.  On the
\* session, which BEGIN TRANSACTION reached or did not, it is left open.  A sidecar is
\* told nothing.
Abandoned ==
  CASE held = "session" /\ tx = "beginning"  -> {"ended", "left"}
    [] held = "session" /\ tx = "open"       -> {"left"}
    [] held = "session" /\ tx = "committing" -> {"committing", "left"}
    [] via = "direct" /\ held = "pool" /\ tx \in {"beginning", "open"} -> {"ended"}
    [] OTHER -> {tx}

\* A thread has taken all rows, and looks at the flag no more.
TookAll == held = "thread" /\ channel = <<>> /\ parser # "sending" /\ read = Rows

\* CSV_FILE_IMPORT_TIMEOUT drops the driver's future, with the receiver but for a thread
\* that has it.
Timeout ==
  /\ cmd = "importing" /\ cmd' = "joining" /\ outcome' = "timeout" /\ flag' = TRUE
  /\ IF held = "thread" THEN UNCHANGED <<heard, channel>> ELSE DropsReceiver
  /\ pump' = "idle" /\ batch' = <<>>
  /\ tx' \in Abandoned
  /\ late' = (RowsEnded \/ TookAll)
  /\ UNCHANGED <<via, held, bad, parsing, told, inserted, process, cut, unheard>>

\* The thread is joined, and the flag forgotten.  Of any error the grid says that the
\* import was rolled back; after a success the rows are counted.
Join ==
  /\ cmd = "joining" /\ parser = "done"
  /\ IF verdict = "ok" /\ outcome = "ok" THEN cmd' = "verifying" /\ UNCHANGED told
     ELSE cmd' = "done" /\ told' = "rolled_back"
  /\ UNCHANGED <<via, held, bad, flag, parsing, channel, heard, outcome, driver, host, process, cut, late, unheard>>

\* The count is there, or failed, which is a warning.  It has no timeout.
Verify ==
  /\ cmd = "verifying" /\ cmd' = "done" /\ told' = "success"
  /\ UNCHANGED <<via, held, bad, flag, parsing, channel, heard, outcome, driver, host, process, cut, late, unheard>>

(***************************************************************************)
(* insert_table_row_stream_atomically of a driver                          *)
(***************************************************************************)
\* In the process of a sidecar the rows come from its own channel.
Queue == IF via = "direct" THEN channel ELSE stream
Cancelled == IF via = "direct" THEN flag ELSE abort

\* Mutant of the next definition: the command keeps a sender.
NeverClosed == via = "sidecar" /\ ~streaming

Closed == IF via = "direct" THEN parser = "done" ELSE ~streaming

\* The driver returns o to the command, if that still waits, or in the sidecar to the
\* process, which answers.
Returns(o) ==
  IF via = "direct"
  THEN /\ IF cmd = "importing" THEN Receives(o) ELSE Gone /\ UNCHANGED <<outcome, cmd>>
       /\ UNCHANGED <<stream, streaming, reply>>
  ELSE reply' = o /\ streaming' = FALSE /\ stream' = <<>> /\ UNCHANGED <<outcome, cmd, heard, channel>>

\* It gives up: the transaction is dropped, or rolled back.
Fails(o) == tx' = "ended" /\ UNCHANGED inserted /\ Returns(o)

\* The transaction is opened, or no connection is to be had.
Begin ==
  /\ tx = "beginning"
  /\ \/ /\ tx' = "open"
        /\ UNCHANGED <<inserted, outcome, cmd, heard, channel, stream, streaming, reply>>
     \/ Fails("failed")
  /\ UNCHANGED <<via, held, bad, flag, parsing, told, host, wire, abort, alive, eof, cut, late, unheard>>

Took ==
  IF via = "direct" THEN channel' = Tail(channel) /\ UNCHANGED stream
  ELSE stream' = Tail(stream) /\ UNCHANGED channel

Inserts ==
  /\ tx' = tx /\ inserted' = inserted + 1 /\ Took
  /\ UNCHANGED <<outcome, cmd, heard, streaming, reply>>

Skips ==
  /\ UNCHANGED driver /\ Took
  /\ UNCHANGED <<outcome, cmd, heard, streaming, reply>>

\* Mutant of the next definition: a row that did not parse is left out.
TakeGood ==
  IF Cancelled THEN Fails("cancelled")
  ELSE IF Head(Queue) = "bad" THEN Skips
  ELSE Inserts \/ Fails("failed")

\* A row is received: the flag is looked at, then the row is inserted, or not.
Take ==
  IF Cancelled THEN Fails("cancelled")
  ELSE IF Head(Queue) = "bad" THEN Fails("failed")
  ELSE Inserts \/ Fails("failed")

TakeRow ==
  /\ tx = "open" /\ Queue # <<>>
  /\ Take
  /\ UNCHANGED <<via, held, bad, flag, parsing, told, host, wire, abort, alive, eof, cut, late, unheard>>

\* The channel is closed: what came is committed, whoever closed it.
EndOfRows ==
  /\ tx = "open" /\ Queue = <<>> /\ Closed
  /\ IF inserted = 0 THEN Fails("failed")
     ELSE /\ tx' = "committing"
          /\ UNCHANGED <<inserted, outcome, cmd, heard, channel, stream, streaming, reply>>
  /\ cut' = (cut \/ (via = "direct" /\ verdict # "ok"))
  /\ UNCHANGED <<via, held, bad, flag, parsing, told, host, wire, abort, alive, eof, late, unheard>>

\* Nobody has the answer that the transaction is committed.
NotHeard == tx' = "committed" /\ outcome' # "ok" /\ reply' # "ok"

\* The server commits, refuses, or commits and is not heard; nor is it heard when
\* the command has given up.
Commit ==
  /\ tx = "committing"
  /\ tx' \in {"committed", "ended"} /\ UNCHANGED inserted
  /\ (tx' = "committed" /\ Returns("ok")) \/ Returns("failed")
  /\ unheard' = (unheard \/ NotHeard)
  /\ UNCHANGED <<via, held, bad, flag, parsing, told, host, wire, abort, alive, eof, cut, late>>

(***************************************************************************)
(* stream_import in the host                                               *)
(***************************************************************************)
\* Mutant of the next definition: the stream is ended after the cancel.
EndsToo == <<"cancel", "end">>

OnCancel == <<"cancel">>

\* A process that is gone reads nothing.
Writes(frames) == wire' = IF alive THEN wire \o frames ELSE wire

\* The flag is looked at before each row is waited for.
Look ==
  /\ pump = "looking"
  /\ IF flag THEN pump' = "waiting" /\ batch' = <<>> /\ Writes(OnCancel)
     ELSE pump' = "receiving" /\ UNCHANGED <<batch, wire>>
  /\ UNCHANGED <<via, held, bad, flag, parsing, channel, heard, command, driver, stream, streaming, abort, reply, alive, eof, cut, late, unheard>>

\* A row goes to the batch, and a full batch to the process, or its pipe is broken.
PumpRow ==
  /\ pump = "receiving" /\ channel # <<>>
  /\ LET rows == Append(batch, Head(channel))
         full == Len(rows) = BatchRows
     IN \/ /\ pump' = "looking" /\ channel' = Tail(channel)
           /\ batch' = IF full THEN <<>> ELSE rows
           /\ IF full THEN Writes(rows) ELSE UNCHANGED wire
           /\ UNCHANGED <<outcome, cmd, heard>>
        \/ /\ full /\ ~alive /\ Receives("failed")
           /\ pump' = "idle" /\ batch' = <<>> /\ UNCHANGED wire
  /\ UNCHANGED <<via, held, bad, flag, parsing, told, driver, stream, streaming, abort, reply, alive, eof, cut, late, unheard>>

\* The thread has dropped its sender.
PumpEnd ==
  /\ pump = "receiving" /\ channel = <<>> /\ parser = "done"
  /\ pump' = "waiting" /\ batch' = <<>> /\ Writes(Append(batch, "end"))
  /\ cut' = (cut \/ verdict # "ok")
  /\ UNCHANGED <<via, held, bad, flag, parsing, channel, heard, command, driver, stream, streaming, abort, reply, alive, eof, late, unheard>>

PumpReply ==
  /\ pump = "waiting" /\ reply # "none"
  /\ pump' = "idle" /\ Receives(reply)
  /\ UNCHANGED <<via, held, bad, flag, parsing, told, driver, batch, process, cut, late, unheard>>

(***************************************************************************)
(* serve in the process                                                    *)
(***************************************************************************)
\* The next frame; the loop waits for room for a row, unless its import is over.
ServerReads ==
  /\ wire # <<>> /\ wire' = Tail(wire)
  /\ LET frame == Head(wire) IN
       CASE frame = "open"   -> tx' = "beginning" /\ streaming' = TRUE /\ UNCHANGED <<stream, abort>>
         [] frame = "cancel" -> abort' = TRUE /\ UNCHANGED <<tx, stream, streaming>>
         [] frame = "end"    -> streaming' = FALSE /\ UNCHANGED <<tx, stream, abort>>
         [] frame \in Row    -> /\ IF ~streaming THEN UNCHANGED stream
                                   ELSE Len(stream) < StreamCapacity /\ stream' = Append(stream, frame)
                                /\ UNCHANGED <<tx, streaming, abort>>
  /\ UNCHANGED <<via, held, bad, flag, parsing, channel, heard, command, inserted, host, reply, alive, eof, cut, late, unheard>>

\* The process dies; its answer may still be in the pipe.
Dies ==
  /\ via = "sidecar" /\ alive /\ alive' = FALSE
  /\ wire' = <<>> /\ stream' = <<>> /\ streaming' = FALSE
  /\ tx' \in CASE tx \in {"beginning", "open"} -> {"ended"} [] tx = "committing" -> {"ended", "committed"}
               [] tx \in {"none", "committed", "ended"} -> {tx}
  /\ reply' \in {reply, "none"}
  /\ UNCHANGED <<via, held, bad, flag, parsing, channel, heard, command, inserted, host, abort, eof, cut, late>>
  /\ unheard' = (unheard \/ NotHeard)

\* reader_loop ends, and with it every request that is registered by then.
Eof ==
  /\ ~alive /\ ~eof /\ eof' = TRUE
  /\ reply' = IF pump # "idle" /\ reply = "none" THEN "failed" ELSE reply
  /\ UNCHANGED <<via, held, bad, flag, parsing, channel, heard, command, driver, host, wire, stream, streaming, abort, alive, cut, late, unheard>>

Terminated == cmd = "done" /\ UNCHANGED import

Thread == Parse \/ SendRow
Engine == Begin \/ TakeRow \/ EndOfRows \/ Commit
Pump == Look \/ PumpRow \/ PumpEnd \/ PumpReply
ImportNext ==
  \/ Thread \/ Cancel \/ StartImport \/ Timeout \/ Join \/ Verify
  \/ Begin \/ TakeRow \/ EndOfRows \/ Commit
  \/ Look \/ PumpRow \/ PumpEnd \/ PumpReply
  \/ ServerReads \/ Dies \/ Eof \/ Terminated

ImportSpec == ImportInit /\ [][ImportNext]_import

\* The thread reads its file, and tasks that are ready run, in the host and in a
\* process that is alive.  Nothing is assumed of the server or the timer, and the
\* process may die.
Fairness == WF_import(Thread) /\ WF_import(Join) /\ WF_import(Pump) /\ WF_import(ServerReads) /\ WF_import(Eof)
FairImport == ImportSpec /\ Fairness

TimerFires == WF_import(Timeout)
ThreadRuns == WF_import(held = "thread" /\ Engine)
ServerAnswers == WF_import(Engine) /\ WF_import(Verify)
-----------------------------------------------------------------------------
(***************************************************************************)
(* Properties                                                              *)
(***************************************************************************)
\* Cancels, bad rows, refusals, a dying process and the timeout at any moment: what
\* is committed is the whole file.  The exception is a thread that gave up, at a
\* cancel or at a report it could not write, after the driver had looked at the
\* flag for the last time: the driver takes the closed channel for the end.
ImportIsAtomic == tx = "committed" => (inserted = Rows /\ bad = 0) \/ cut

\* Success is told of the whole file only: no row is left out by a bad one, by a
\* cancel or on the way through the sidecar.
SuccessIsWhole == told = "success" => tx = "committed" /\ inserted = Rows /\ bad = 0

\* "CSV import was rolled back" is told when nothing was committed, nor will be.  The
\* exceptions are the one of ImportIsAtomic, a timeout that comes when the rows have
\* ended, a COMMIT whose answer was lost, and the transaction that a timeout leaves open
\* on the session, where later statements decide what becomes of it.
RolledBackIsNothing ==
  told = "rolled_back" /\ tx \in {"committed", "left"} =>
    cut \/ late \/ unheard \/ (tx = "left" /\ held = "session" /\ outcome = "timeout")

\* What the grid says with no exception, and what driver.rs asks of every driver:
\* a cancelled import, or one whose channel closes before its end, is rolled back.
\* It is violated.
CancelledIsNothing == told = "rolled_back" => tx \notin {"committed", "left"}

\* The import ends by its timer at the latest, although the thread may be blocked in
\* the channel and the server or the sidecar may never answer.  A driver in a thread
\* keeps the receiver, so that it has to get on with its rows; and after a success
\* the count is still to come.
ImportReturns == TimerFires /\ ThreadRuns => (cmd = "importing" ~> cmd \in {"verifying", "done"})

\* The same to the end of the command.  It is violated: nothing bounds the count.
CommandReturns == TimerFires /\ ThreadRuns => (cmd = "importing" ~> cmd = "done")

\* A cancel ends an import of a compiled driver without the timer, wherever
\* the thread and the driver are: only answers of the server are assumed.
CancelEnds == ServerAnswers => (via = "direct" /\ flag /\ cmd = "importing" ~> cmd = "done")

\* The same of a sidecar.  It is violated: the process keeps the sender of the rows and the
\* driver looks at the flag when a row comes, but after a cancel none comes.
CancelEndsSidecar ==
  ServerAnswers => (via = "sidecar" /\ flag /\ cmd = "importing" ~> cmd = "done")
=============================================================================
