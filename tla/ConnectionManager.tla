-------------------------- MODULE ConnectionManager --------------------------
(***************************************************************************)
(* DatabaseManager's tables for one connection id, under the commands that *)
(* open, close and use it: connect_database (and connect_saved_connection), *)
(* disconnect_database, cancel_connection_attempt, and any write command.  *)
(*                                                                         *)
(* Each table has a lock of its own, so connect and disconnect go through  *)
(* them one await at a time; a cancelled or timed out command is dropped   *)
(* at whatever await it has reached.                                       *)
(***************************************************************************)
EXTENDS FiniteSets

CONSTANTS
  Attempts,   \* connect commands on the id; each opens a session of its own
  Closes,     \* disconnect commands on the id
  Writes,     \* write commands on the id
  Configs,    \* the profiles an attempt may open
  None

ASSUME ConnectionConstants ==
  /\ None \notin Attempts \cup Closes
  /\ Attempts \cap Closes = {}
  /\ Configs \subseteq [read_only : BOOLEAN, ssh : BOOLEAN, timeout : BOOLEAN]

VARIABLES
  config,     \* the profile of each attempt
  pc,         \* the await each connect or disconnect command has reached
  outcome,    \* what the command answered
  driver,     \* connections[id]: the session published, or None
  type,       \* connection_types[id]: the attempt whose type it is
  override,   \* connection_query_timeouts[id]
  pinned,     \* id \in read_only_connections
  tunnel,     \* ssh_tunnels[id]: the attempt that opened it
  live,       \* the tunnels open in SshTunnelManager
  leaked,     \* history: open tunnels whose handle was dropped
  held,       \* the driver a command took out of the map
  closed,     \* the sessions whose driver was told to disconnect
  touched,    \* history: the command that changed a table last
  overlapped, \* history: a command started while another was in flight
  write,      \* the await each write command has reached
  target      \* the driver a write command runs on

tableVars == <<driver, type, override, pinned, tunnel>>
tunnelVars == <<live, leaked>>
writeVars == <<write, target>>
history == <<touched, overlapped>>
vars == <<config, pc, outcome, tableVars, tunnelVars, held, closed, history, writeVars>>

Commands == Attempts \cup Closes
Sessions == Attempts \cup {None}

\* The awaits of DatabaseManager::connect that hold a PendingTunnel, and the rest.
Pending == {"open", "publish", "type", "override", "pin"}
Connecting == Pending \cup {"tunnel", "replace"}
Disconnecting == {"remove", "untype", "unoverride", "unpin", "untunnel"}

TypeOK ==
  /\ config \in [Attempts -> Configs]
  /\ pc \in [Commands -> {"new", "save", "done"} \cup Connecting \cup Disconnecting]
  /\ outcome \in [Commands -> {"none", "ok", "error", "interrupted", "rolled_back"}]
  /\ driver \in Sessions
  /\ type \in Sessions
  /\ override \in Sessions
  /\ pinned \in BOOLEAN
  /\ tunnel \in Sessions
  /\ live \subseteq Attempts
  /\ leaked \subseteq live
  /\ held \in [Commands -> Sessions]
  /\ closed \subseteq Attempts
  /\ touched \in Commands \cup {None}
  /\ overlapped \in BOOLEAN
  /\ write \in [Writes -> {"new", "recheck", "checked", "typed", "running", "done"}]
  /\ target \in [Writes -> Sessions]
  /\ \A w \in Writes : write[w] = "running" <=> target[w] # None

Init ==
  /\ config \in [Attempts -> Configs]
  /\ pc = [o \in Commands |-> "new"]
  /\ outcome = [o \in Commands |-> "none"]
  /\ driver = None /\ type = None /\ override = None /\ pinned = FALSE /\ tunnel = None
  /\ live = {} /\ leaked = {}
  /\ held = [o \in Commands |-> None]
  /\ closed = {}
  /\ touched = None /\ overlapped = FALSE
  /\ write = [w \in Writes |-> "new"]
  /\ target = [w \in Writes |-> None]

Goto(o, await) == pc' = [pc EXCEPT ![o] = await]
Ends(o, answer) == Goto(o, "done") /\ outcome' = [outcome EXCEPT ![o] = answer]
Touches(o) == touched' = o /\ UNCHANGED overlapped

InFlight(o) == pc[o] \notin {"new", "done"}

\* A command starts.
Begins ==
  /\ overlapped' = (overlapped \/ \E o \in Commands : InFlight(o))
  /\ UNCHANGED touched

-----------------------------------------------------------------------------
(***************************************************************************)
(* connect_database.                                                       *)
(***************************************************************************)

\* The command is accepted, its token registered, and connect opens the tunnel.
StartConnect(a) ==
  /\ pc[a] = "new"
  /\ Begins
  /\ live' = IF config[a].ssh THEN live \cup {a} ELSE live
  /\ Goto(a, "open")
  /\ UNCHANGED <<config, outcome, tableVars, leaked, held, closed, writeVars>>

\* connect_tunnel succeeds and forward_port does not: `?` returns before a
\* PendingTunnel owns the handle.
ForwardFails(a) ==
  /\ pc[a] = "new"
  /\ Begins
  /\ config[a].ssh
  /\ live' = live \cup {a}
  /\ leaked' = leaked \cup {a}
  /\ Ends(a, "error")
  /\ UNCHANGED <<config, tableVars, held, closed, writeVars>>

\* The driver does not connect: PendingTunnel is dropped.
OpenFails(a) ==
  /\ pc[a] = "open"
  /\ live' = live \ {a}
  /\ Ends(a, "error")
  /\ UNCHANGED <<config, tableVars, leaked, held, closed, history, writeVars>>

Opened(a) ==
  /\ pc[a] = "open"
  /\ Goto(a, "publish")
  /\ UNCHANGED <<config, outcome, tableVars, tunnelVars, held, closed, history,
                 writeVars>>

Publish(a) ==
  /\ pc[a] = "publish"
  /\ driver' = a
  /\ held' = [held EXCEPT ![a] = driver]
  /\ Touches(a)
  /\ Goto(a, "type")
  /\ UNCHANGED <<config, outcome, type, override, pinned, tunnel, tunnelVars, closed,
                 writeVars>>

SetType(a) ==
  /\ pc[a] = "type"
  /\ type' = a
  /\ Touches(a)
  /\ Goto(a, "override")
  /\ UNCHANGED <<config, outcome, driver, override, pinned, tunnel, tunnelVars, held,
                 closed, writeVars>>

SetOverride(a) ==
  /\ pc[a] = "override"
  /\ override' = IF config[a].timeout THEN a ELSE None
  /\ Touches(a)
  /\ Goto(a, "pin")
  /\ UNCHANGED <<config, outcome, driver, type, pinned, tunnel, tunnelVars, held,
                 closed, writeVars>>

\* Mutant of SetPin: reconnecting with the pin cleared leaves the old entry.
SetPinKeepsStale(a) ==
  /\ pc[a] = "pin"
  /\ pinned' = (pinned \/ config[a].read_only)
  /\ Touches(a)
  /\ Goto(a, "tunnel")
  /\ UNCHANGED <<config, outcome, driver, type, override, tunnel, tunnelVars, held,
                 closed, writeVars>>

\* The pin is set or cleared. PendingTunnel::commit follows without an await.
SetPin(a) ==
  /\ pc[a] = "pin"
  /\ pinned' = config[a].read_only
  /\ Touches(a)
  /\ Goto(a, "tunnel")
  /\ UNCHANGED <<config, outcome, driver, type, override, tunnel, tunnelVars, held,
                 closed, writeVars>>

\* Mutant of SetTunnel: the tunnel it replaces stays open.
SetTunnelKeepsOld(a) ==
  /\ pc[a] = "tunnel"
  /\ tunnel' = IF config[a].ssh THEN a ELSE None
  /\ closed' = closed \cup ({held[a]} \ {None})
  /\ Touches(a)
  /\ Goto(a, IF held[a] = None THEN "save" ELSE "replace")
  /\ UNCHANGED <<config, outcome, driver, type, override, pinned, tunnelVars, held,
                 writeVars>>

\* The tunnel of the id, or the absence of one, replaces the one before, and the
\* driver that connect replaced is told to disconnect.
SetTunnel(a) ==
  /\ pc[a] = "tunnel"
  /\ tunnel' = IF config[a].ssh THEN a ELSE None
  /\ live' = live \ {tunnel}
  /\ closed' = closed \cup ({held[a]} \ {None})
  /\ Touches(a)
  /\ Goto(a, IF held[a] = None THEN "save" ELSE "replace")
  /\ UNCHANGED <<config, outcome, driver, type, override, pinned, leaked, held, writeVars>>

Replaced(a) ==
  /\ pc[a] = "replace"
  /\ Goto(a, "save")
  /\ UNCHANGED <<config, outcome, tableVars, tunnelVars, held, closed, history,
                 writeVars>>

\* The token or the 45 s timeout drops connect. A PendingTunnel closes its tunnel;
\* a committed handle that is not in ssh_tunnels yet is forgotten.
InterruptConnect(a) ==
  /\ pc[a] \in Connecting
  /\ live' = IF pc[a] \in Pending THEN live \ {a} ELSE live
  /\ leaked' = IF pc[a] = "tunnel" /\ config[a].ssh THEN leaked \cup {a} ELSE leaked
  /\ held' = [held EXCEPT ![a] = None]
  /\ Ends(a, "interrupted")
  /\ UNCHANGED <<config, tableVars, closed, history, writeVars>>

\* The profile is saved (connect_saved_connection has nothing to save).
Saved(a) ==
  /\ pc[a] = "save"
  /\ held' = [held EXCEPT ![a] = None]
  /\ Ends(a, "ok")
  /\ UNCHANGED <<config, tableVars, tunnelVars, closed, history, writeVars>>

\* It is not: the command disconnects the id.
SaveFails(a) ==
  /\ pc[a] = "save"
  /\ held' = [held EXCEPT ![a] = None]
  /\ Goto(a, "remove")
  /\ UNCHANGED <<config, outcome, tableVars, tunnelVars, closed, history, writeVars>>

-----------------------------------------------------------------------------
(***************************************************************************)
(* DatabaseManager::disconnect, for disconnect_database and the rollback.  *)
(***************************************************************************)

StartDisconnect(d) ==
  /\ pc[d] = "new"
  /\ Begins
  /\ Goto(d, "remove")
  /\ UNCHANGED <<config, outcome, tableVars, tunnelVars, held, closed,
                 writeVars>>

\* Mutant of Remove: the driver is looked up and stays in the map.
RemoveLooksUp(o) ==
  /\ pc[o] = "remove"
  /\ held' = [held EXCEPT ![o] = driver]
  /\ Touches(o)
  /\ Goto(o, "untype")
  /\ UNCHANGED <<config, outcome, tableVars, tunnelVars, closed, writeVars>>

Remove(o) ==
  /\ pc[o] = "remove"
  /\ driver' = None
  /\ held' = [held EXCEPT ![o] = driver]
  /\ Touches(o)
  /\ Goto(o, "untype")
  /\ UNCHANGED <<config, outcome, type, override, pinned, tunnel, tunnelVars, closed,
                 writeVars>>

RemoveType(o) ==
  /\ pc[o] = "untype"
  /\ type' = None
  /\ Touches(o)
  /\ Goto(o, "unoverride")
  /\ UNCHANGED <<config, outcome, driver, override, pinned, tunnel, tunnelVars, held,
                 closed, writeVars>>

RemoveOverride(o) ==
  /\ pc[o] = "unoverride"
  /\ override' = None
  /\ Touches(o)
  /\ Goto(o, "unpin")
  /\ UNCHANGED <<config, outcome, driver, type, pinned, tunnel, tunnelVars, held, closed,
                 writeVars>>

\* The pin goes, and the driver taken out is told to disconnect.
RemovePin(o) ==
  /\ pc[o] = "unpin"
  /\ pinned' = FALSE
  /\ closed' = closed \cup ({held[o]} \ {None})
  /\ Touches(o)
  /\ Goto(o, "untunnel")
  /\ UNCHANGED <<config, outcome, driver, type, override, tunnel, tunnelVars, held,
                 writeVars>>

DisconnectAnswer(o) == IF o \in Attempts THEN "rolled_back" ELSE "ok"

\* The driver has disconnected, well or not: the tunnel goes last.
RemoveTunnel(o) ==
  /\ pc[o] = "untunnel"
  /\ tunnel' = None
  /\ live' = live \ {tunnel}
  /\ held' = [held EXCEPT ![o] = None]
  /\ Touches(o)
  /\ Ends(o, DisconnectAnswer(o))
  /\ UNCHANGED <<config, driver, type, override, pinned, leaked, closed, writeVars>>

\* DISCONNECT_TIMEOUT drops disconnect.
InterruptDisconnect(o) ==
  /\ pc[o] \in Disconnecting
  /\ held' = [held EXCEPT ![o] = None]
  /\ Ends(o, "interrupted")
  /\ UNCHANGED <<config, tableVars, tunnelVars, closed, history, writeVars>>

-----------------------------------------------------------------------------
(***************************************************************************)
(* A write command: the read-only pin first, the driver last.              *)
(***************************************************************************)

Advance(w, await) ==
  /\ write' = [write EXCEPT ![w] = await]
  /\ UNCHANGED <<config, pc, outcome, tableVars, tunnelVars, held, closed, history>>

\* is_read_only, and, when it says so, assert_write_allowed, which reads it again
\* (assert_connection_writable_sql; the table commands only make the second call).
CheckPin(w) ==
  /\ write[w] = "new"
  /\ Advance(w, IF pinned THEN "recheck" ELSE "checked")
  /\ UNCHANGED target

RecheckPin(w) ==
  /\ write[w] = "recheck"
  /\ Advance(w, IF pinned THEN "done" ELSE "checked")
  /\ UNCHANGED target

\* require_capability needs the type of the connection.
CheckCapability(w) ==
  /\ write[w] = "checked"
  /\ Advance(w, IF type = None THEN "done" ELSE "typed")
  /\ UNCHANGED target

GetDriver(w) ==
  /\ write[w] = "typed"
  /\ Advance(w, IF driver = None THEN "done" ELSE "running")
  /\ target' = [target EXCEPT ![w] = driver]

EndWrite(w) ==
  /\ write[w] = "running"
  /\ Advance(w, "done")
  /\ target' = [target EXCEPT ![w] = None]

-----------------------------------------------------------------------------
Connect(a) ==
  \/ StartConnect(a) \/ ForwardFails(a) \/ OpenFails(a) \/ Opened(a) \/ Publish(a)
  \/ SetType(a) \/ SetOverride(a) \/ SetPin(a) \/ SetTunnel(a) \/ Replaced(a)
  \/ InterruptConnect(a) \/ Saved(a) \/ SaveFails(a)

Disconnect(o) ==
  \/ Remove(o) \/ RemoveType(o) \/ RemoveOverride(o) \/ RemovePin(o) \/ RemoveTunnel(o)
  \/ InterruptDisconnect(o)

Write(w) ==
  CheckPin(w) \/ RecheckPin(w) \/ CheckCapability(w) \/ GetDriver(w) \/ EndWrite(w)

\* Every command has answered.
Terminated ==
  /\ \A o \in Commands : pc[o] = "done"
  /\ \A w \in Writes : write[w] = "done"
  /\ UNCHANGED vars

Next ==
  \/ \E a \in Attempts : Connect(a)
  \/ \E d \in Closes : StartDisconnect(d)
  \/ \E o \in Commands : Disconnect(o)
  \/ \E w \in Writes : Write(w)
  \/ Terminated

Spec == Init /\ [][Next]_vars

-----------------------------------------------------------------------------
(***************************************************************************)
(* Properties.                                                             *)
(***************************************************************************)

\* The driver a command can get from the map was never told to disconnect: a
\* connect that replaces it and a disconnect that removes it take it out before,
\* however they overlap and wherever they are dropped.
PublishedIsOpen == driver # None => driver \notin closed

\* An open tunnel is the one the table knows or that of a connect in flight. Only
\* the two leaks named above leave another.
TunnelsOwned ==
  \A a \in live \ leaked : tunnel = a \/ pc[a] \in Pending \cup {"tunnel"}

\* The tables describe session a.
Describes(a) ==
  /\ driver = a /\ type = a
  /\ override = (IF config[a].timeout THEN a ELSE None)
  /\ pinned = config[a].read_only
  /\ tunnel = (IF config[a].ssh THEN a ELSE None)

Empty == driver = None /\ type = None /\ override = None /\ ~pinned /\ tunnel = None

\* When nothing is in flight and the command that changed the tables last was not
\* interrupted, the tables describe its session, or are empty after a disconnect or
\* a rollback, whatever an interrupted command before it left in them. It holds of
\* commands that do not overlap.
LastCommandDescribed ==
  ~overlapped /\ touched # None /\ (\A o \in Commands : ~InFlight(o)) =>
    CASE outcome[touched] = "ok" /\ touched \in Attempts -> Describes(touched)
      [] outcome[touched] = "interrupted" -> TRUE
      [] OTHER -> Empty

\* Every write command rejects mutations of a session opened read-only before any
\* statement reaches the driver (database/manager.rs:61): violated, the pin is
\* read before the driver is, and set after it.
PinRejectsWrites ==
  \A w \in Writes : write[w] = "running" => ~config[target[w]].read_only

\* Cancel aborts the backend attempt (stores/connectionStore.ts:155): violated, connect may
\* be dropped after it published the driver.
CancelledIsNotPublished ==
  \A a \in Attempts : outcome[a] = "interrupted" => driver # a

\* The rollback of an attempt whose profile was not saved takes its own live
\* connection back (commands/connection.rs:62): violated, it disconnects whatever
\* the id has become.
RollbackSparesOthers ==
  \A a \in Attempts : pc[a] = "untype" => held[a] \in {a, None}
=============================================================================
