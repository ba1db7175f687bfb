---------------------- MODULE ConnectionManager_proofs ----------------------
(***************************************************************************)
(* Proofs about ConnectionManager, for any number of connects, disconnects *)
(* and writes on the id and any profiles.                                  *)
(*                                                                         *)
(* The invariant comes in three parts, each inductive with those before    *)
(* it: who owns a tunnel, where a driver is, and, as long as no two        *)
(* commands have overlapped, how far the command in flight has got with    *)
(* the tables.                                                             *)
(***************************************************************************)
EXTENDS ConnectionManager, TLAPS

-----------------------------------------------------------------------------
\* Only a profile with a tunnel has one open.
TunnelsAreAskedFor == \A a \in live : config[a].ssh

\* The tunnel of an attempt is open, and not in the table, until connect stores it.
TunnelsAwaitTheTable ==
  \A a \in Attempts :
    /\ pc[a] \in Pending \cup {"tunnel"} /\ config[a].ssh => a \in live
    /\ pc[a] \in Pending \cup {"new", "tunnel"} => tunnel # a

\* A forgotten tunnel is that of an attempt that ended before it stored it.
LeaksAreOver == \A a \in leaked : pc[a] = "done" /\ tunnel # a

Ownership ==
  /\ TunnelsAreAskedFor
  /\ TunnelsAwaitTheTable
  /\ LeaksAreOver
  /\ TunnelsOwned

Tunnels == TypeOK /\ Ownership

\* Nobody knows a session before it is published.
UnpublishedIsUnknown ==
  \A a \in Attempts :
    pc[a] \in {"new", "open", "publish"} =>
      /\ driver # a
      /\ a \notin closed
      /\ \A o \in Commands : held[o] # a

\* What a command holds has left the map.
HeldIsOut == \A o \in Commands : held[o] # None => held[o] # driver

Drivers ==
  /\ UnpublishedIsUnknown
  /\ HeldIsOut
  /\ PublishedIsOpen

\* A connect that has not published, and a command that has not begun, touched nothing.
NewTouchesNothing ==
  /\ \A o \in Commands : pc[o] = "new" => touched # o
  /\ \A a \in Attempts : pc[a] \in {"open", "publish"} => touched # a

\* At most one command is in flight.
OneInFlight == \A o, p \in Commands : InFlight(o) /\ InFlight(p) => o = p

\* How far a connect has got with the tables, and a disconnect.
Filled(a) ==
  /\ pc[a] \in {"type", "override", "pin", "tunnel", "replace", "save"} =>
       touched = a /\ driver = a
  /\ pc[a] \in {"override", "pin", "tunnel", "replace", "save"} => type = a
  /\ pc[a] \in {"pin", "tunnel", "replace", "save"} =>
       override = IF config[a].timeout THEN a ELSE None
  /\ pc[a] \in {"tunnel", "replace", "save"} => pinned = config[a].read_only
  /\ pc[a] \in {"replace", "save"} => tunnel = IF config[a].ssh THEN a ELSE None

Emptied(o) ==
  /\ pc[o] \in {"untype", "unoverride", "unpin", "untunnel"} => touched = o /\ driver = None
  /\ pc[o] \in {"unoverride", "unpin", "untunnel"} => type = None
  /\ pc[o] \in {"unpin", "untunnel"} => override = None
  /\ pc[o] = "untunnel" => ~pinned

\* The tables as the command that changed them last has left them.
Left ==
  touched # None /\ pc[touched] = "done" =>
    CASE outcome[touched] = "ok" /\ touched \in Attempts -> Describes(touched)
      [] outcome[touched] = "interrupted" -> TRUE
      [] OTHER -> Empty

InOrder ==
  /\ OneInFlight
  /\ \A a \in Attempts : Filled(a)
  /\ \A o \in Commands : Emptied(o)
  /\ Left

Tables == NewTouchesNothing /\ (~overlapped => InOrder)

-----------------------------------------------------------------------------
\* What an await does to the others: nothing.
LEMMA Moves ==
  ASSUME TypeOK, NEW o \in Commands, NEW await, Goto(o, await)
  PROVE  \A p \in Commands : pc'[p] = IF p = o THEN await ELSE pc[p]
  BY DEF Goto, TypeOK

LEMMA Names ==
  /\ None \notin Commands
  /\ Attempts \subseteq Commands
  /\ Closes \subseteq Commands
  BY ConnectionConstants DEF Commands

LEMMA Profiles ==
  ASSUME TypeOK, NEW a \in Attempts
  PROVE  config[a].ssh \in BOOLEAN /\ config[a].read_only \in BOOLEAN
  BY ConnectionConstants DEF TypeOK

LEMMA TunnelsStart == Init => Tunnels
  <1> SUFFICES ASSUME Init PROVE Tunnels
    OBVIOUS
  <1> USE Names DEF Init
  <1>1. TypeOK
    BY DEF TypeOK, Sessions
  <1>2. TunnelsAreAskedFor /\ LeaksAreOver /\ TunnelsOwned
    BY DEF TunnelsAreAskedFor, LeaksAreOver, TunnelsOwned
  <1>3. TunnelsAwaitTheTable
    BY DEF TunnelsAwaitTheTable, Pending
  <1> QED
    BY <1>1, <1>2, <1>3 DEF Tunnels, Ownership

\* Every step keeps the types. What is open and not forgotten is needed where a
\* tunnel closes.
LEMMA TypesKept ==
  ASSUME Tunnels, [Next]_vars
  PROVE  TypeOK'
  <1> USE Names DEF Tunnels, Ownership, TypeOK, Sessions
  <1>1. ASSUME NEW a \in Attempts, StartConnect(a) PROVE TypeOK'
    BY <1>1 DEF StartConnect, Begins, Goto, Connecting, Disconnecting, Pending, tableVars,
      tunnelVars, history, writeVars
  <1>2. ASSUME NEW a \in Attempts, ForwardFails(a) PROVE TypeOK'
    BY <1>2 DEF ForwardFails, Begins, Goto, Ends, Connecting, Disconnecting, Pending,
      tableVars, tunnelVars, history, writeVars
  <1>3. ASSUME NEW a \in Attempts, OpenFails(a) PROVE TypeOK'
    BY <1>3 DEF OpenFails, Goto, Ends, Connecting, Disconnecting, Pending, LeaksAreOver,
      tableVars, tunnelVars, history, writeVars
  <1>4. ASSUME NEW a \in Attempts, Opened(a) PROVE TypeOK'
    BY <1>4 DEF Opened, Goto, Connecting, Disconnecting, Pending, tableVars, tunnelVars,
      history, writeVars
  <1>5. ASSUME NEW a \in Attempts, Publish(a) PROVE TypeOK'
    BY <1>5 DEF Publish, Goto, Touches, Connecting, Disconnecting, Pending, tableVars,
      tunnelVars, history, writeVars
  <1>6. ASSUME NEW a \in Attempts, SetType(a) PROVE TypeOK'
    BY <1>6 DEF SetType, Goto, Touches, Connecting, Disconnecting, Pending, tableVars,
      tunnelVars, history, writeVars
  <1>7. ASSUME NEW a \in Attempts, SetOverride(a) PROVE TypeOK'
    BY <1>7 DEF SetOverride, Goto, Touches, Connecting, Disconnecting, Pending, tableVars,
      tunnelVars, history, writeVars
  <1>8. ASSUME NEW a \in Attempts, SetPin(a) PROVE TypeOK'
    BY <1>8, Profiles DEF SetPin, Goto, Touches, Connecting, Disconnecting, Pending, tableVars,
      tunnelVars, history, writeVars
  <1>9. ASSUME NEW a \in Attempts, SetTunnel(a) PROVE TypeOK'
    BY <1>9 DEF SetTunnel, Goto, Touches, Connecting, Disconnecting, Pending, LeaksAreOver,
      tableVars, tunnelVars, history, writeVars
  <1>10. ASSUME NEW a \in Attempts, Replaced(a) PROVE TypeOK'
    BY <1>10 DEF Replaced, Goto, Connecting, Disconnecting, Pending, tableVars, tunnelVars,
      history, writeVars
  <1>11. ASSUME NEW a \in Attempts, InterruptConnect(a) PROVE TypeOK'
    BY <1>11 DEF InterruptConnect, Goto, Ends, Connecting, Disconnecting, Pending,
      LeaksAreOver, TunnelsAwaitTheTable, tableVars, tunnelVars, history, writeVars
  <1>12. ASSUME NEW a \in Attempts, Saved(a) PROVE TypeOK'
    BY <1>12 DEF Saved, Goto, Ends, Connecting, Disconnecting, Pending, tableVars,
      tunnelVars, history, writeVars
  <1>13. ASSUME NEW a \in Attempts, SaveFails(a) PROVE TypeOK'
    BY <1>13 DEF SaveFails, Goto, Connecting, Disconnecting, Pending, tableVars, tunnelVars,
      history, writeVars
  <1>14. ASSUME NEW d \in Closes, StartDisconnect(d) PROVE TypeOK'
    BY <1>14 DEF StartDisconnect, Begins, Goto, Connecting, Disconnecting, Pending,
      tableVars, tunnelVars, history, writeVars
  <1>15. ASSUME NEW o \in Commands, Remove(o) PROVE TypeOK'
    BY <1>15 DEF Remove, Goto, Touches, Connecting, Disconnecting, Pending, tableVars,
      tunnelVars, history, writeVars
  <1>16. ASSUME NEW o \in Commands, RemoveType(o) PROVE TypeOK'
    BY <1>16 DEF RemoveType, Goto, Touches, Connecting, Disconnecting, Pending, tableVars,
      tunnelVars, history, writeVars
  <1>17. ASSUME NEW o \in Commands, RemoveOverride(o) PROVE TypeOK'
    BY <1>17 DEF RemoveOverride, Goto, Touches, Connecting, Disconnecting, Pending,
      tableVars, tunnelVars, history, writeVars
  <1>18. ASSUME NEW o \in Commands, RemovePin(o) PROVE TypeOK'
    BY <1>18 DEF RemovePin, Goto, Touches, Connecting, Disconnecting, Pending, tableVars,
      tunnelVars, history, writeVars
  <1>19. ASSUME NEW o \in Commands, RemoveTunnel(o) PROVE TypeOK'
    BY <1>19 DEF RemoveTunnel, Goto, Ends, Touches, DisconnectAnswer, Connecting,
      Disconnecting, Pending, LeaksAreOver, tableVars, tunnelVars, history, writeVars
  <1>20. ASSUME NEW o \in Commands, InterruptDisconnect(o) PROVE TypeOK'
    BY <1>20 DEF InterruptDisconnect, Goto, Ends, Connecting, Disconnecting, Pending,
      tableVars, tunnelVars, history, writeVars
  <1>21. ASSUME NEW w \in Writes, CheckPin(w) PROVE TypeOK'
    BY <1>21 DEF CheckPin, Advance, tableVars, tunnelVars, history, writeVars
  <1>22. ASSUME NEW w \in Writes, RecheckPin(w) PROVE TypeOK'
    BY <1>22 DEF RecheckPin, Advance, tableVars, tunnelVars, history, writeVars
  <1>23. ASSUME NEW w \in Writes, CheckCapability(w) PROVE TypeOK'
    BY <1>23 DEF CheckCapability, Advance, tableVars, tunnelVars, history, writeVars
  <1>24. ASSUME NEW w \in Writes, GetDriver(w) PROVE TypeOK'
    BY <1>24 DEF GetDriver, Advance, tableVars, tunnelVars, history, writeVars
  <1>25. ASSUME NEW w \in Writes, EndWrite(w) PROVE TypeOK'
    BY <1>25 DEF EndWrite, Advance, tableVars, tunnelVars, history, writeVars
  <1>26. CASE UNCHANGED vars
    BY <1>26 DEF vars, tableVars, tunnelVars, history, writeVars
  <1>27. ASSUME NEW a \in Attempts, Connect(a) PROVE TypeOK'
    BY <1>27, <1>1, <1>2, <1>3, <1>4, <1>5, <1>6, <1>7, <1>8, <1>9, <1>10, <1>11,
      <1>12, <1>13
      DEF Connect
  <1>28. ASSUME NEW o \in Commands, Disconnect(o) PROVE TypeOK'
    BY <1>28, <1>15, <1>16, <1>17, <1>18, <1>19, <1>20
      DEF Disconnect
  <1>29. ASSUME NEW w \in Writes, Write(w) PROVE TypeOK'
    BY <1>29, <1>21, <1>22, <1>23, <1>24, <1>25
      DEF Write
  <1> QED
    BY <1>14, <1>26, <1>27, <1>28, <1>29 DEF Next, Terminated

-----------------------------------------------------------------------------
\* A command that has stored its tunnel, or has none, moves on or ends.
LEMMA TunnelsFrame ==
  ASSUME Tunnels, NEW o \in Commands, NEW await,
         pc[o] \notin Pending \cup {"done", "tunnel"},
         await \notin Pending \cup {"new", "tunnel"},
         Goto(o, await),
         UNCHANGED <<config, tunnel, tunnelVars>>
  PROVE  Ownership'
  <1>1. \A p \in Commands : pc'[p] = IF p = o THEN await ELSE pc[p]
    BY Moves DEF Tunnels
  <1> USE <1>1, Names DEF Tunnels, Ownership, tunnelVars
  <1>2. TunnelsAreAskedFor'
    BY DEF TunnelsAreAskedFor
  <1>3. TunnelsAwaitTheTable'
    BY DEF TunnelsAwaitTheTable
  <1>4. LeaksAreOver'
    BY DEF LeaksAreOver, TypeOK
  <1>5. TunnelsOwned'
    BY DEF TunnelsOwned, TypeOK
  <1> QED
    BY <1>2, <1>3, <1>4, <1>5 DEF Ownership

\* A connect moves on, and its tunnel waits for the table still.
LEMMA TunnelsWait ==
  ASSUME Tunnels, NEW a \in Attempts, NEW await,
         pc[a] \in Pending,
         await \in Pending \cup {"tunnel"},
         Goto(a, await),
         UNCHANGED <<config, tunnel, tunnelVars>>
  PROVE  Ownership'
  <1>1. \A p \in Commands : pc'[p] = IF p = a THEN await ELSE pc[p]
    BY Moves, Names DEF Tunnels
  <1> USE <1>1, Names DEF Tunnels, Ownership, tunnelVars
  <1>2. TunnelsAreAskedFor'
    BY DEF TunnelsAreAskedFor
  <1>3. TunnelsAwaitTheTable'
    BY DEF TunnelsAwaitTheTable
  <1>4. LeaksAreOver'
    BY DEF LeaksAreOver, TypeOK, Pending
  <1>5. TunnelsOwned'
    BY DEF TunnelsOwned, TypeOK
  <1> QED
    BY <1>2, <1>3, <1>4, <1>5 DEF Ownership

LEMMA TunnelsKept ==
  ASSUME Tunnels, [Next]_vars
  PROVE  Tunnels'
  <1>1. TypeOK'
    BY TypesKept
  <1>2. ASSUME NEW a \in Attempts, StartConnect(a) PROVE Ownership'
    <2>1. \A p \in Commands : pc'[p] = IF p = a THEN "open" ELSE pc[p]
      BY <1>2, Moves, Names DEF Tunnels, StartConnect
    <2> USE <1>2, <2>1, Names, Profiles
      DEF Tunnels, Ownership, StartConnect, tableVars, tunnelVars
    <2>2. TunnelsAreAskedFor'
      BY DEF TunnelsAreAskedFor, TypeOK
    <2>3. TunnelsAwaitTheTable'
      BY DEF TunnelsAwaitTheTable, Pending, Connecting, Disconnecting
    <2>4. LeaksAreOver'
      BY DEF LeaksAreOver, TunnelsAwaitTheTable, TypeOK, Pending, Connecting, Disconnecting
    <2>5. TunnelsOwned'
      BY DEF TunnelsOwned, TunnelsAreAskedFor, TypeOK, Pending, Connecting, Disconnecting
    <2> QED
      BY <2>2, <2>3, <2>4, <2>5
  <1>3. ASSUME NEW a \in Attempts, ForwardFails(a) PROVE Ownership'
    <2>1. \A p \in Commands : pc'[p] = IF p = a THEN "done" ELSE pc[p]
      BY <1>3, Moves, Names DEF Tunnels, ForwardFails, Ends
    <2> USE <1>3, <2>1, Names, Profiles
      DEF Tunnels, Ownership, ForwardFails, tableVars, tunnelVars
    <2>2. TunnelsAreAskedFor'
      BY DEF TunnelsAreAskedFor, TypeOK
    <2>3. TunnelsAwaitTheTable'
      BY DEF TunnelsAwaitTheTable, Pending, Connecting, Disconnecting
    <2>4. LeaksAreOver'
      BY DEF LeaksAreOver, TunnelsAwaitTheTable, TypeOK, Pending, Connecting, Disconnecting
    <2>5. TunnelsOwned'
      BY DEF TunnelsOwned, TunnelsAreAskedFor, TypeOK, Pending, Connecting, Disconnecting
    <2> QED
      BY <2>2, <2>3, <2>4, <2>5
  <1>4. ASSUME NEW a \in Attempts, OpenFails(a) PROVE Ownership'
    <2>1. \A p \in Commands : pc'[p] = IF p = a THEN "done" ELSE pc[p]
      BY <1>4, Moves, Names DEF Tunnels, OpenFails, Ends
    <2> USE <1>4, <2>1, Names, Profiles DEF Tunnels, Ownership, OpenFails, tableVars, tunnelVars
    <2>2. TunnelsAreAskedFor'
      BY DEF TunnelsAreAskedFor, TypeOK
    <2>3. TunnelsAwaitTheTable'
      BY DEF TunnelsAwaitTheTable, Pending, Connecting, Disconnecting
    <2>4. LeaksAreOver'
      BY DEF LeaksAreOver, TunnelsAwaitTheTable, TypeOK, Pending, Connecting, Disconnecting
    <2>5. TunnelsOwned'
      BY DEF TunnelsOwned, TunnelsAreAskedFor, TypeOK, Pending, Connecting, Disconnecting
    <2> QED
      BY <2>2, <2>3, <2>4, <2>5
  <1>5. ASSUME NEW a \in Attempts, Opened(a) PROVE Ownership'
    BY <1>5, TunnelsWait DEF Opened, Pending, tableVars
  <1>6. ASSUME NEW a \in Attempts, Publish(a) PROVE Ownership'
    BY <1>6, TunnelsWait DEF Publish, Pending, tableVars
  <1>7. ASSUME NEW a \in Attempts, SetType(a) PROVE Ownership'
    BY <1>7, TunnelsWait DEF SetType, Pending, tableVars
  <1>8. ASSUME NEW a \in Attempts, SetOverride(a) PROVE Ownership'
    BY <1>8, TunnelsWait DEF SetOverride, Pending, tableVars
  <1>9. ASSUME NEW a \in Attempts, SetPin(a) PROVE Ownership'
    BY <1>9, TunnelsWait DEF SetPin, Pending, tableVars
  <1>10. ASSUME NEW a \in Attempts, SetTunnel(a) PROVE Ownership'
    <2>1. \A p \in Commands :
            pc'[p] = IF p # a THEN pc[p] ELSE IF held[a] = None THEN "save" ELSE "replace"
      BY <1>10, Moves, Names DEF Tunnels, SetTunnel
    <2> USE <1>10, <2>1, Names, Profiles DEF Tunnels, Ownership, SetTunnel, tableVars, tunnelVars
    <2>2. TunnelsAreAskedFor'
      BY DEF TunnelsAreAskedFor, TypeOK
    <2>3. TunnelsAwaitTheTable'
      BY DEF TunnelsAwaitTheTable, Pending, Connecting, Disconnecting
    <2>4. LeaksAreOver'
      BY DEF LeaksAreOver, TunnelsAwaitTheTable, TypeOK, Pending, Connecting, Disconnecting
    <2>5. TunnelsOwned'
      BY DEF TunnelsOwned, TunnelsAreAskedFor, TypeOK, Pending, Connecting, Disconnecting
    <2> QED
      BY <2>2, <2>3, <2>4, <2>5
  <1>11. ASSUME NEW a \in Attempts, Replaced(a) PROVE Ownership'
    BY <1>11, TunnelsFrame, Names DEF Replaced, Pending, Disconnecting, tableVars
  <1>12. ASSUME NEW a \in Attempts, InterruptConnect(a) PROVE Ownership'
    <2>1. \A p \in Commands : pc'[p] = IF p = a THEN "done" ELSE pc[p]
      BY <1>12, Moves, Names DEF Tunnels, InterruptConnect, Ends
    <2> USE <1>12, <2>1, Names, Profiles
      DEF Tunnels, Ownership, InterruptConnect, tableVars, tunnelVars
    <2>2. TunnelsAreAskedFor'
      BY DEF TunnelsAreAskedFor, TypeOK
    <2>3. TunnelsAwaitTheTable'
      BY DEF TunnelsAwaitTheTable, Pending, Connecting, Disconnecting
    <2>4. LeaksAreOver'
      BY DEF LeaksAreOver, TunnelsAwaitTheTable, TypeOK, Pending, Connecting, Disconnecting
    <2>5. TunnelsOwned'
      BY DEF TunnelsOwned, TunnelsAreAskedFor, TypeOK, Pending, Connecting, Disconnecting
    <2> QED
      BY <2>2, <2>3, <2>4, <2>5
  <1>13. ASSUME NEW a \in Attempts, Saved(a) PROVE Ownership'
    BY <1>13, TunnelsFrame, Names DEF Saved, Ends, Pending, Disconnecting, tableVars
  <1>14. ASSUME NEW a \in Attempts, SaveFails(a) PROVE Ownership'
    BY <1>14, TunnelsFrame, Names DEF SaveFails, Pending, Disconnecting, tableVars
  <1>15. ASSUME NEW d \in Closes, StartDisconnect(d) PROVE Ownership'
    BY <1>15, TunnelsFrame, Names DEF StartDisconnect, Pending, Disconnecting, tableVars
  <1>16. ASSUME NEW o \in Commands, Remove(o) PROVE Ownership'
    BY <1>16, TunnelsFrame, Names DEF Remove, Pending, Disconnecting, tableVars
  <1>17. ASSUME NEW o \in Commands, RemoveType(o) PROVE Ownership'
    BY <1>17, TunnelsFrame, Names DEF RemoveType, Pending, Disconnecting, tableVars
  <1>18. ASSUME NEW o \in Commands, RemoveOverride(o) PROVE Ownership'
    BY <1>18, TunnelsFrame, Names DEF RemoveOverride, Pending, Disconnecting, tableVars
  <1>19. ASSUME NEW o \in Commands, RemovePin(o) PROVE Ownership'
    BY <1>19, TunnelsFrame, Names DEF RemovePin, Pending, Disconnecting, tableVars
  <1>20. ASSUME NEW o \in Commands, RemoveTunnel(o) PROVE Ownership'
    <2>1. \A p \in Commands : pc'[p] = IF p = o THEN "done" ELSE pc[p]
      BY <1>20, Moves, Names DEF Tunnels, RemoveTunnel, Ends
    <2> USE <1>20, <2>1, Names, Profiles
      DEF Tunnels, Ownership, RemoveTunnel, tableVars, tunnelVars
    <2>2. TunnelsAreAskedFor'
      BY DEF TunnelsAreAskedFor, TypeOK
    <2>3. TunnelsAwaitTheTable'
      BY DEF TunnelsAwaitTheTable, Pending, Connecting, Disconnecting
    <2>4. LeaksAreOver'
      BY DEF LeaksAreOver, TunnelsAwaitTheTable, TypeOK, Pending, Connecting, Disconnecting
    <2>5. TunnelsOwned'
      BY DEF TunnelsOwned, TunnelsAreAskedFor, TypeOK, Pending, Connecting, Disconnecting
    <2> QED
      BY <2>2, <2>3, <2>4, <2>5
  <1>21. ASSUME NEW o \in Commands, InterruptDisconnect(o) PROVE Ownership'
    BY <1>21, TunnelsFrame, Names DEF InterruptDisconnect, Ends, Pending, Disconnecting, tableVars
  <1>22. ASSUME NEW w \in Writes, CheckPin(w) PROVE Ownership'
    BY <1>22 DEF CheckPin, Advance, Tunnels, Ownership, TunnelsAreAskedFor, TunnelsAwaitTheTable,
      LeaksAreOver, TunnelsOwned, tableVars, tunnelVars
  <1>23. ASSUME NEW w \in Writes, RecheckPin(w) PROVE Ownership'
    BY <1>23
      DEF RecheckPin, Advance, Tunnels, Ownership, TunnelsAreAskedFor,
        TunnelsAwaitTheTable,
      LeaksAreOver, TunnelsOwned, tableVars, tunnelVars
  <1>24. ASSUME NEW w \in Writes, CheckCapability(w) PROVE Ownership'
    BY <1>24
      DEF CheckCapability, Advance, Tunnels, Ownership, TunnelsAreAskedFor,
        TunnelsAwaitTheTable,
      LeaksAreOver, TunnelsOwned, tableVars, tunnelVars
  <1>25. ASSUME NEW w \in Writes, GetDriver(w) PROVE Ownership'
    BY <1>25 DEF GetDriver, Advance, Tunnels, Ownership, TunnelsAreAskedFor, TunnelsAwaitTheTable,
      LeaksAreOver, TunnelsOwned, tableVars, tunnelVars
  <1>26. ASSUME NEW w \in Writes, EndWrite(w) PROVE Ownership'
    BY <1>26 DEF EndWrite, Advance, Tunnels, Ownership, TunnelsAreAskedFor, TunnelsAwaitTheTable,
      LeaksAreOver, TunnelsOwned, tableVars, tunnelVars
  <1>27. ASSUME UNCHANGED vars PROVE Ownership'
    <2>1. TunnelsAreAskedFor'
      BY <1>27 DEF vars, tableVars, tunnelVars, Tunnels, Ownership, TunnelsAreAskedFor
    <2>2. TunnelsAwaitTheTable'
      BY <1>27 DEF vars, tableVars, tunnelVars, Tunnels, Ownership, TunnelsAwaitTheTable
    <2>3. LeaksAreOver'
      BY <1>27 DEF vars, tableVars, tunnelVars, Tunnels, Ownership, LeaksAreOver
    <2>4. TunnelsOwned'
      BY <1>27 DEF vars, tableVars, tunnelVars, Tunnels, Ownership, TunnelsOwned
    <2> QED
      BY <2>1, <2>2, <2>3, <2>4 DEF Ownership
  <1>28. ASSUME NEW a \in Attempts, Connect(a) PROVE Ownership'
    BY <1>28, <1>2, <1>3, <1>4, <1>5, <1>6, <1>7, <1>8, <1>9, <1>10, <1>11, <1>12,
      <1>13, <1>14
      DEF Connect
  <1>29. ASSUME NEW o \in Commands, Disconnect(o) PROVE Ownership'
    BY <1>29, <1>16, <1>17, <1>18, <1>19, <1>20, <1>21
      DEF Disconnect
  <1>30. ASSUME NEW w \in Writes, Write(w) PROVE Ownership'
    BY <1>30, <1>22, <1>23, <1>24, <1>25, <1>26
      DEF Write
  <1>0. Ownership'
    BY <1>15, <1>27, <1>28, <1>29, <1>30 DEF Next, Terminated
  <1> QED
    BY <1>0, <1>1 DEF Tunnels

-----------------------------------------------------------------------------
LEMMA DriversStart == Init => Drivers
  BY Names DEF Init, Drivers, UnpublishedIsUnknown, HeldIsOut, PublishedIsOpen

\* A command moves on without the map; it may let go of the driver it holds.
LEMMA DriversFrame ==
  ASSUME TypeOK, Drivers, NEW o \in Commands, NEW await,
         Goto(o, await),
         await \in {"new", "open", "publish"} => pc[o] \in {"new", "open", "publish"},
         UNCHANGED <<driver, closed>>,
         held' \in {held, [held EXCEPT ![o] = None]}
  PROVE  Drivers'
  <1>1. \A p \in Commands : pc'[p] = IF p = o THEN await ELSE pc[p]
    BY Moves
  <1>2. \A p \in Commands : held'[p] \in {held[p], None}
    BY DEF TypeOK
  <1> USE <1>1, <1>2, Names DEF Drivers
  <1>3. UnpublishedIsUnknown'
    BY DEF UnpublishedIsUnknown
  <1>4. HeldIsOut'
    BY DEF HeldIsOut
  <1>5. PublishedIsOpen'
    BY DEF PublishedIsOpen
  <1> QED
    BY <1>3, <1>4, <1>5

LEMMA DriversKept ==
  ASSUME TypeOK, Drivers, [Next]_vars
  PROVE  Drivers'
  <1>1. ASSUME NEW a \in Attempts, StartConnect(a) PROVE Drivers'
    BY <1>1, DriversFrame, Names DEF StartConnect, tableVars
  <1>2. ASSUME NEW a \in Attempts, ForwardFails(a) PROVE Drivers'
    BY <1>2, DriversFrame, Names DEF ForwardFails, Ends, tableVars
  <1>3. ASSUME NEW a \in Attempts, OpenFails(a) PROVE Drivers'
    BY <1>3, DriversFrame, Names DEF OpenFails, Ends, tableVars
  <1>4. ASSUME NEW a \in Attempts, Opened(a) PROVE Drivers'
    BY <1>4, DriversFrame, Names DEF Opened, tableVars
  <1>5. ASSUME NEW a \in Attempts, Publish(a) PROVE Drivers'
    <2>1. \A p \in Commands : pc'[p] = IF p = a THEN "type" ELSE pc[p]
      BY <1>5, Moves, Names DEF Publish
    <2>2. \A p \in Commands : held'[p] = IF p = a THEN driver ELSE held[p]
      BY <1>5 DEF Publish, TypeOK
    <2> USE <1>5, <2>1, <2>2, Names DEF Publish, Drivers
    <2>3. UnpublishedIsUnknown'
      BY DEF UnpublishedIsUnknown, TypeOK, Sessions
    <2>4. HeldIsOut'
      BY DEF HeldIsOut, UnpublishedIsUnknown
    <2>5. PublishedIsOpen'
      BY DEF PublishedIsOpen, HeldIsOut, UnpublishedIsUnknown
    <2> QED
      BY <2>3, <2>4, <2>5
  <1>6. ASSUME NEW a \in Attempts, SetType(a) PROVE Drivers'
    BY <1>6, DriversFrame, Names DEF SetType, tableVars
  <1>7. ASSUME NEW a \in Attempts, SetOverride(a) PROVE Drivers'
    BY <1>7, DriversFrame, Names DEF SetOverride, tableVars
  <1>8. ASSUME NEW a \in Attempts, SetPin(a) PROVE Drivers'
    BY <1>8, DriversFrame, Names DEF SetPin, tableVars
  <1>9. ASSUME NEW a \in Attempts, SetTunnel(a) PROVE Drivers'
    <2>1. \A p \in Commands :
            pc'[p] = IF p # a THEN pc[p] ELSE IF held[a] = None THEN "save" ELSE "replace"
      BY <1>9, Moves, Names DEF SetTunnel
    <2> USE <1>9, <2>1, Names DEF SetTunnel, Drivers, tableVars
    <2>3. UnpublishedIsUnknown'
      BY DEF UnpublishedIsUnknown, TypeOK, Sessions
    <2>4. HeldIsOut'
      BY DEF HeldIsOut, UnpublishedIsUnknown
    <2>5. PublishedIsOpen'
      BY DEF PublishedIsOpen, HeldIsOut, UnpublishedIsUnknown
    <2> QED
      BY <2>3, <2>4, <2>5
  <1>10. ASSUME NEW a \in Attempts, Replaced(a) PROVE Drivers'
    BY <1>10, DriversFrame, Names DEF Replaced, tableVars
  <1>11. ASSUME NEW a \in Attempts, InterruptConnect(a) PROVE Drivers'
    BY <1>11, DriversFrame, Names DEF InterruptConnect, Ends, tableVars
  <1>12. ASSUME NEW a \in Attempts, Saved(a) PROVE Drivers'
    BY <1>12, DriversFrame, Names DEF Saved, Ends, tableVars
  <1>13. ASSUME NEW a \in Attempts, SaveFails(a) PROVE Drivers'
    BY <1>13, DriversFrame, Names DEF SaveFails, tableVars
  <1>14. ASSUME NEW d \in Closes, StartDisconnect(d) PROVE Drivers'
    BY <1>14, DriversFrame, Names DEF StartDisconnect, tableVars
  <1>15. ASSUME NEW o \in Commands, Remove(o) PROVE Drivers'
    <2>1. \A p \in Commands : pc'[p] = IF p = o THEN "untype" ELSE pc[p]
      BY <1>15, Moves, Names DEF Remove
    <2>2. \A p \in Commands : held'[p] = IF p = o THEN driver ELSE held[p]
      BY <1>15 DEF Remove, TypeOK
    <2> USE <1>15, <2>1, <2>2, Names DEF Remove, Drivers
    <2>3. UnpublishedIsUnknown'
      BY DEF UnpublishedIsUnknown, TypeOK, Sessions
    <2>4. HeldIsOut'
      BY DEF HeldIsOut, UnpublishedIsUnknown
    <2>5. PublishedIsOpen'
      BY DEF PublishedIsOpen, HeldIsOut, UnpublishedIsUnknown
    <2> QED
      BY <2>3, <2>4, <2>5
  <1>16. ASSUME NEW o \in Commands, RemoveType(o) PROVE Drivers'
    BY <1>16, DriversFrame, Names DEF RemoveType, tableVars
  <1>17. ASSUME NEW o \in Commands, RemoveOverride(o) PROVE Drivers'
    BY <1>17, DriversFrame, Names DEF RemoveOverride, tableVars
  <1>18. ASSUME NEW o \in Commands, RemovePin(o) PROVE Drivers'
    <2>1. \A p \in Commands : pc'[p] = IF p = o THEN "untunnel" ELSE pc[p]
      BY <1>18, Moves, Names DEF RemovePin
    <2> USE <1>18, <2>1, Names DEF RemovePin, Drivers, tableVars
    <2>3. UnpublishedIsUnknown'
      BY DEF UnpublishedIsUnknown, TypeOK, Sessions
    <2>4. HeldIsOut'
      BY DEF HeldIsOut, UnpublishedIsUnknown
    <2>5. PublishedIsOpen'
      BY DEF PublishedIsOpen, HeldIsOut, UnpublishedIsUnknown
    <2> QED
      BY <2>3, <2>4, <2>5
  <1>19. ASSUME NEW o \in Commands, RemoveTunnel(o) PROVE Drivers'
    BY <1>19, DriversFrame, Names DEF RemoveTunnel, Ends, tableVars
  <1>20. ASSUME NEW o \in Commands, InterruptDisconnect(o) PROVE Drivers'
    BY <1>20, DriversFrame, Names DEF InterruptDisconnect, Ends, tableVars
  <1>21. ASSUME NEW w \in Writes, CheckPin(w) PROVE Drivers'
    BY <1>21
      DEF CheckPin, Advance, Drivers, UnpublishedIsUnknown, HeldIsOut, PublishedIsOpen,
        tableVars
  <1>22. ASSUME NEW w \in Writes, RecheckPin(w) PROVE Drivers'
    BY <1>22
      DEF RecheckPin, Advance, Drivers, UnpublishedIsUnknown, HeldIsOut, PublishedIsOpen,
        tableVars
  <1>23. ASSUME NEW w \in Writes, CheckCapability(w) PROVE Drivers'
    BY <1>23
      DEF CheckCapability, Advance, Drivers, UnpublishedIsUnknown, HeldIsOut,
        PublishedIsOpen, tableVars
  <1>24. ASSUME NEW w \in Writes, GetDriver(w) PROVE Drivers'
    BY <1>24
      DEF GetDriver, Advance, Drivers, UnpublishedIsUnknown, HeldIsOut, PublishedIsOpen,
        tableVars
  <1>25. ASSUME NEW w \in Writes, EndWrite(w) PROVE Drivers'
    BY <1>25
      DEF EndWrite, Advance, Drivers, UnpublishedIsUnknown, HeldIsOut, PublishedIsOpen,
        tableVars
  <1>26. ASSUME UNCHANGED vars PROVE Drivers'
    BY <1>26 DEF vars, tableVars, Drivers, UnpublishedIsUnknown, HeldIsOut, PublishedIsOpen
  <1>27. ASSUME NEW a \in Attempts, Connect(a) PROVE Drivers'
    BY <1>27, <1>1, <1>2, <1>3, <1>4, <1>5, <1>6, <1>7, <1>8, <1>9, <1>10, <1>11,
      <1>12, <1>13
      DEF Connect
  <1>28. ASSUME NEW o \in Commands, Disconnect(o) PROVE Drivers'
    BY <1>28, <1>15, <1>16, <1>17, <1>18, <1>19, <1>20
      DEF Disconnect
  <1>29. ASSUME NEW w \in Writes, Write(w) PROVE Drivers'
    BY <1>29, <1>21, <1>22, <1>23, <1>24, <1>25
      DEF Write
  <1> QED
    BY <1>14, <1>26, <1>27, <1>28, <1>29 DEF Next, Terminated

-----------------------------------------------------------------------------
LEMMA TablesStart == Init => Tables
  <1> SUFFICES ASSUME Init PROVE Tables
    OBVIOUS
  <1>1. NewTouchesNothing
    BY Names DEF Init, NewTouchesNothing
  <1>2. OneInFlight /\ Left
    BY DEF Init, OneInFlight, InFlight, Left
  <1>3. /\ \A a \in Attempts : Filled(a)
        /\ \A o \in Commands : Emptied(o)
    BY Names DEF Init, Filled, Emptied
  <1> QED
    BY <1>1, <1>2, <1>3 DEF Tables, InOrder

\* A write command reads the tables.
LEMMA WritesKeepTables ==
  ASSUME Tables, UNCHANGED <<config, pc, outcome, tableVars, history>>
  PROVE  Tables'
  <1> USE DEF tableVars, history
  <1>1. NewTouchesNothing' = NewTouchesNothing
    BY DEF NewTouchesNothing
  <1>2. OneInFlight' = OneInFlight
    BY DEF OneInFlight, InFlight
  <1>3. /\ \A a \in Attempts : Filled(a)' = Filled(a)
        /\ \A o \in Commands : Emptied(o)' = Emptied(o)
    BY DEF Filled, Emptied
  <1>4. Left' = Left
    BY DEF Left, Describes, Empty
  <1> QED
    BY <1>1, <1>2, <1>3, <1>4 DEF Tables, InOrder

LEMMA TablesKept ==
  ASSUME TypeOK, Tables, [Next]_vars
  PROVE  Tables'
  <1>1. ASSUME NEW a \in Attempts, StartConnect(a) PROVE Tables'
    <2>1. \A p \in Commands : pc'[p] = IF p = a THEN "open" ELSE pc[p]
      BY <1>1, Moves, Names DEF StartConnect
    <2> USE <1>1, <2>1, Names DEF StartConnect, Begins, tableVars, history
    <2>3. NewTouchesNothing'
      BY DEF Tables, NewTouchesNothing, TypeOK, Pending, Connecting, Disconnecting
    <2>4. ASSUME ~overlapped' PROVE InOrder'
      <3>1. ~overlapped /\ InOrder
        BY <2>4 DEF Tables
      <3>2. /\ \A p \in Commands : pc[p] \in {"new", "done"}
            /\ OneInFlight'
        BY <2>4 DEF InFlight, OneInFlight
      <3>3. ASSUME NEW b \in Attempts PROVE Filled(b)'
        BY <3>1, <3>2, <3>3 DEF InOrder, Filled, Disconnecting
      <3>4. ASSUME NEW p \in Commands PROVE Emptied(p)'
        BY <3>1, <3>2, <3>4 DEF InOrder, Emptied, Connecting, Pending
      <3>5. Left'
        BY <3>1, <3>2
        DEF InOrder, Filled, Emptied, Left, Describes, Empty, Tables, NewTouchesNothing,
          DisconnectAnswer, TypeOK
      <3> QED
        BY <3>2, <3>3, <3>4, <3>5 DEF InOrder
    <2> QED
      BY <2>3, <2>4 DEF Tables
  <1>2. ASSUME NEW a \in Attempts, ForwardFails(a) PROVE Tables'
    <2>1. \A p \in Commands : pc'[p] = IF p = a THEN "done" ELSE pc[p]
      BY <1>2, Moves, Names DEF ForwardFails, Ends
    <2>2. \A p \in Commands : outcome'[p] = IF p = a THEN "error" ELSE outcome[p]
      BY <1>2, Names DEF ForwardFails, Ends, TypeOK
    <2> USE <1>2, <2>1, <2>2, Names DEF ForwardFails, Begins, tableVars, history
    <2>3. NewTouchesNothing'
      BY DEF Tables, NewTouchesNothing, TypeOK, Pending, Connecting, Disconnecting
    <2>4. ASSUME ~overlapped' PROVE InOrder'
      <3>1. ~overlapped /\ InOrder
        BY <2>4 DEF Tables
      <3>2. /\ \A p \in Commands : pc[p] \in {"new", "done"}
            /\ OneInFlight'
        BY <2>4 DEF InFlight, OneInFlight
      <3>3. ASSUME NEW b \in Attempts PROVE Filled(b)'
        BY <3>1, <3>2, <3>3 DEF InOrder, Filled, Disconnecting
      <3>4. ASSUME NEW p \in Commands PROVE Emptied(p)'
        BY <3>1, <3>2, <3>4 DEF InOrder, Emptied, Connecting, Pending
      <3>5. Left'
        BY <3>1, <3>2
        DEF InOrder, Filled, Emptied, Left, Describes, Empty, Tables, NewTouchesNothing,
          DisconnectAnswer, TypeOK
      <3> QED
        BY <3>2, <3>3, <3>4, <3>5 DEF InOrder
    <2> QED
      BY <2>3, <2>4 DEF Tables
  <1>3. ASSUME NEW a \in Attempts, OpenFails(a) PROVE Tables'
    <2>1. \A p \in Commands : pc'[p] = IF p = a THEN "done" ELSE pc[p]
      BY <1>3, Moves, Names DEF OpenFails, Ends
    <2>2. \A p \in Commands : outcome'[p] = IF p = a THEN "error" ELSE outcome[p]
      BY <1>3, Names DEF OpenFails, Ends, TypeOK
    <2> USE <1>3, <2>1, <2>2, Names DEF OpenFails, tableVars, history
    <2>3. NewTouchesNothing'
      BY DEF Tables, NewTouchesNothing, TypeOK, Pending, Connecting, Disconnecting
    <2>4. ASSUME ~overlapped' PROVE InOrder'
      <3>1. ~overlapped /\ InOrder
        BY <2>4 DEF Tables
      <3>2. /\ \A p \in Commands : p # a => pc[p] \in {"new", "done"}
            /\ OneInFlight'
        BY <3>1 DEF InOrder, OneInFlight, InFlight, Pending, Connecting, Disconnecting
      <3>3. ASSUME NEW b \in Attempts PROVE Filled(b)'
        BY <3>1, <3>2, <3>3 DEF InOrder, Filled, Disconnecting
      <3>4. ASSUME NEW p \in Commands PROVE Emptied(p)'
        BY <3>1, <3>2, <3>4 DEF InOrder, Emptied, Connecting, Pending
      <3>5. Left'
        BY <3>1, <3>2
        DEF InOrder, Filled, Emptied, Left, Describes, Empty, Tables, NewTouchesNothing,
          DisconnectAnswer, TypeOK
      <3> QED
        BY <3>2, <3>3, <3>4, <3>5 DEF InOrder
    <2> QED
      BY <2>3, <2>4 DEF Tables
  <1>4. ASSUME NEW a \in Attempts, Opened(a) PROVE Tables'
    <2>1. \A p \in Commands : pc'[p] = IF p = a THEN "publish" ELSE pc[p]
      BY <1>4, Moves, Names DEF Opened
    <2> USE <1>4, <2>1, Names DEF Opened, tableVars, history
    <2>3. NewTouchesNothing'
      BY DEF Tables, NewTouchesNothing, TypeOK, Pending, Connecting, Disconnecting
    <2>4. ASSUME ~overlapped' PROVE InOrder'
      <3>1. ~overlapped /\ InOrder
        BY <2>4 DEF Tables
      <3>2. /\ \A p \in Commands : p # a => pc[p] \in {"new", "done"}
            /\ OneInFlight'
        BY <3>1 DEF InOrder, OneInFlight, InFlight, Pending, Connecting, Disconnecting
      <3>3. ASSUME NEW b \in Attempts PROVE Filled(b)'
        BY <3>1, <3>2, <3>3 DEF InOrder, Filled, Disconnecting
      <3>4. ASSUME NEW p \in Commands PROVE Emptied(p)'
        BY <3>1, <3>2, <3>4 DEF InOrder, Emptied, Connecting, Pending
      <3>5. Left'
        BY <3>1, <3>2
        DEF InOrder, Filled, Emptied, Left, Describes, Empty, Tables, NewTouchesNothing,
          DisconnectAnswer, TypeOK
      <3> QED
        BY <3>2, <3>3, <3>4, <3>5 DEF InOrder
    <2> QED
      BY <2>3, <2>4 DEF Tables
  <1>5. ASSUME NEW a \in Attempts, Publish(a) PROVE Tables'
    <2>1. \A p \in Commands : pc'[p] = IF p = a THEN "type" ELSE pc[p]
      BY <1>5, Moves, Names DEF Publish
    <2> USE <1>5, <2>1, Names DEF Publish, Touches, tableVars, history
    <2>3. NewTouchesNothing'
      BY DEF Tables, NewTouchesNothing, TypeOK, Pending, Connecting, Disconnecting
    <2>4. ASSUME ~overlapped' PROVE InOrder'
      <3>1. ~overlapped /\ InOrder
        BY <2>4 DEF Tables
      <3>2. /\ \A p \in Commands : p # a => pc[p] \in {"new", "done"}
            /\ OneInFlight'
        BY <3>1 DEF InOrder, OneInFlight, InFlight, Pending, Connecting, Disconnecting
      <3>3. ASSUME NEW b \in Attempts PROVE Filled(b)'
        BY <3>1, <3>2, <3>3 DEF InOrder, Filled, Disconnecting
      <3>4. ASSUME NEW p \in Commands PROVE Emptied(p)'
        BY <3>1, <3>2, <3>4 DEF InOrder, Emptied, Connecting, Pending
      <3>5. Left'
        BY <3>1, <3>2
        DEF InOrder, Filled, Emptied, Left, Describes, Empty, Tables, NewTouchesNothing,
          DisconnectAnswer, TypeOK
      <3> QED
        BY <3>2, <3>3, <3>4, <3>5 DEF InOrder
    <2> QED
      BY <2>3, <2>4 DEF Tables
  <1>6. ASSUME NEW a \in Attempts, SetType(a) PROVE Tables'
    <2>1. \A p \in Commands : pc'[p] = IF p = a THEN "override" ELSE pc[p]
      BY <1>6, Moves, Names DEF SetType
    <2> USE <1>6, <2>1, Names DEF SetType, Touches, tableVars, history
    <2>3. NewTouchesNothing'
      BY DEF Tables, NewTouchesNothing, TypeOK, Pending, Connecting, Disconnecting
    <2>4. ASSUME ~overlapped' PROVE InOrder'
      <3>1. ~overlapped /\ InOrder
        BY <2>4 DEF Tables
      <3>2. /\ \A p \in Commands : p # a => pc[p] \in {"new", "done"}
            /\ OneInFlight'
        BY <3>1 DEF InOrder, OneInFlight, InFlight, Pending, Connecting, Disconnecting
      <3>3. ASSUME NEW b \in Attempts PROVE Filled(b)'
        BY <3>1, <3>2, <3>3 DEF InOrder, Filled, Disconnecting
      <3>4. ASSUME NEW p \in Commands PROVE Emptied(p)'
        BY <3>1, <3>2, <3>4 DEF InOrder, Emptied, Connecting, Pending
      <3>5. Left'
        BY <3>1, <3>2
        DEF InOrder, Filled, Emptied, Left, Describes, Empty, Tables, NewTouchesNothing,
          DisconnectAnswer, TypeOK
      <3> QED
        BY <3>2, <3>3, <3>4, <3>5 DEF InOrder
    <2> QED
      BY <2>3, <2>4 DEF Tables
  <1>7. ASSUME NEW a \in Attempts, SetOverride(a) PROVE Tables'
    <2>1. \A p \in Commands : pc'[p] = IF p = a THEN "pin" ELSE pc[p]
      BY <1>7, Moves, Names DEF SetOverride
    <2> USE <1>7, <2>1, Names DEF SetOverride, Touches, tableVars, history
    <2>3. NewTouchesNothing'
      BY DEF Tables, NewTouchesNothing, TypeOK, Pending, Connecting, Disconnecting
    <2>4. ASSUME ~overlapped' PROVE InOrder'
      <3>1. ~overlapped /\ InOrder
        BY <2>4 DEF Tables
      <3>2. /\ \A p \in Commands : p # a => pc[p] \in {"new", "done"}
            /\ OneInFlight'
        BY <3>1 DEF InOrder, OneInFlight, InFlight, Pending, Connecting, Disconnecting
      <3>3. ASSUME NEW b \in Attempts PROVE Filled(b)'
        BY <3>1, <3>2, <3>3 DEF InOrder, Filled, Disconnecting
      <3>4. ASSUME NEW p \in Commands PROVE Emptied(p)'
        BY <3>1, <3>2, <3>4 DEF InOrder, Emptied, Connecting, Pending
      <3>5. Left'
        BY <3>1, <3>2
        DEF InOrder, Filled, Emptied, Left, Describes, Empty, Tables, NewTouchesNothing,
          DisconnectAnswer, TypeOK
      <3> QED
        BY <3>2, <3>3, <3>4, <3>5 DEF InOrder
    <2> QED
      BY <2>3, <2>4 DEF Tables
  <1>8. ASSUME NEW a \in Attempts, SetPin(a) PROVE Tables'
    <2>1. \A p \in Commands : pc'[p] = IF p = a THEN "tunnel" ELSE pc[p]
      BY <1>8, Moves, Names DEF SetPin
    <2> USE <1>8, <2>1, Names DEF SetPin, Touches, tableVars, history
    <2>3. NewTouchesNothing'
      BY DEF Tables, NewTouchesNothing, TypeOK, Pending, Connecting, Disconnecting
    <2>4. ASSUME ~overlapped' PROVE InOrder'
      <3>1. ~overlapped /\ InOrder
        BY <2>4 DEF Tables
      <3>2. /\ \A p \in Commands : p # a => pc[p] \in {"new", "done"}
            /\ OneInFlight'
        BY <3>1 DEF InOrder, OneInFlight, InFlight, Pending, Connecting, Disconnecting
      <3>3. ASSUME NEW b \in Attempts PROVE Filled(b)'
        BY <3>1, <3>2, <3>3 DEF InOrder, Filled, Disconnecting
      <3>4. ASSUME NEW p \in Commands PROVE Emptied(p)'
        BY <3>1, <3>2, <3>4 DEF InOrder, Emptied, Connecting, Pending
      <3>5. Left'
        BY <3>1, <3>2
        DEF InOrder, Filled, Emptied, Left, Describes, Empty, Tables, NewTouchesNothing,
          DisconnectAnswer, TypeOK
      <3> QED
        BY <3>2, <3>3, <3>4, <3>5 DEF InOrder
    <2> QED
      BY <2>3, <2>4 DEF Tables
  <1>9. ASSUME NEW a \in Attempts, SetTunnel(a) PROVE Tables'
    <2>1. \A p \in Commands :
            pc'[p] = IF p # a THEN pc[p] ELSE IF held[a] = None THEN "save" ELSE "replace"
      BY <1>9, Moves, Names DEF SetTunnel
    <2> USE <1>9, <2>1, Names DEF SetTunnel, Touches, tableVars, history
    <2>3. NewTouchesNothing'
      BY DEF Tables, NewTouchesNothing, TypeOK, Pending, Connecting, Disconnecting
    <2>4. ASSUME ~overlapped' PROVE InOrder'
      <3>1. ~overlapped /\ InOrder
        BY <2>4 DEF Tables
      <3>2. /\ \A p \in Commands : p # a => pc[p] \in {"new", "done"}
            /\ OneInFlight'
        BY <3>1 DEF InOrder, OneInFlight, InFlight, Pending, Connecting, Disconnecting
      <3>3. ASSUME NEW b \in Attempts PROVE Filled(b)'
        BY <3>1, <3>2, <3>3 DEF InOrder, Filled, Disconnecting
      <3>4. ASSUME NEW p \in Commands PROVE Emptied(p)'
        BY <3>1, <3>2, <3>4 DEF InOrder, Emptied, Connecting, Pending
      <3>5. Left'
        BY <3>1, <3>2
        DEF InOrder, Filled, Emptied, Left, Describes, Empty, Tables, NewTouchesNothing,
          DisconnectAnswer, TypeOK
      <3> QED
        BY <3>2, <3>3, <3>4, <3>5 DEF InOrder
    <2> QED
      BY <2>3, <2>4 DEF Tables
  <1>10. ASSUME NEW a \in Attempts, Replaced(a) PROVE Tables'
    <2>1. \A p \in Commands : pc'[p] = IF p = a THEN "save" ELSE pc[p]
      BY <1>10, Moves, Names DEF Replaced
    <2> USE <1>10, <2>1, Names DEF Replaced, tableVars, history
    <2>3. NewTouchesNothing'
      BY DEF Tables, NewTouchesNothing, TypeOK, Pending, Connecting, Disconnecting
    <2>4. ASSUME ~overlapped' PROVE InOrder'
      <3>1. ~overlapped /\ InOrder
        BY <2>4 DEF Tables
      <3>2. /\ \A p \in Commands : p # a => pc[p] \in {"new", "done"}
            /\ OneInFlight'
        BY <3>1 DEF InOrder, OneInFlight, InFlight, Pending, Connecting, Disconnecting
      <3>3. ASSUME NEW b \in Attempts PROVE Filled(b)'
        BY <3>1, <3>2, <3>3 DEF InOrder, Filled, Disconnecting
      <3>4. ASSUME NEW p \in Commands PROVE Emptied(p)'
        BY <3>1, <3>2, <3>4 DEF InOrder, Emptied, Connecting, Pending
      <3>5. Left'
        BY <3>1, <3>2
        DEF InOrder, Filled, Emptied, Left, Describes, Empty, Tables, NewTouchesNothing,
          DisconnectAnswer, TypeOK
      <3> QED
        BY <3>2, <3>3, <3>4, <3>5 DEF InOrder
    <2> QED
      BY <2>3, <2>4 DEF Tables
  <1>11. ASSUME NEW a \in Attempts, InterruptConnect(a) PROVE Tables'
    <2>1. \A p \in Commands : pc'[p] = IF p = a THEN "done" ELSE pc[p]
      BY <1>11, Moves, Names DEF InterruptConnect, Ends
    <2>2. \A p \in Commands : outcome'[p] = IF p = a THEN "interrupted" ELSE outcome[p]
      BY <1>11, Names DEF InterruptConnect, Ends, TypeOK
    <2> USE <1>11, <2>1, <2>2, Names DEF InterruptConnect, tableVars, history
    <2>3. NewTouchesNothing'
      BY DEF Tables, NewTouchesNothing, TypeOK, Pending, Connecting, Disconnecting
    <2>4. ASSUME ~overlapped' PROVE InOrder'
      <3>1. ~overlapped /\ InOrder
        BY <2>4 DEF Tables
      <3>2. /\ \A p \in Commands : p # a => pc[p] \in {"new", "done"}
            /\ OneInFlight'
        BY <3>1 DEF InOrder, OneInFlight, InFlight, Pending, Connecting, Disconnecting
      <3>3. ASSUME NEW b \in Attempts PROVE Filled(b)'
        BY <3>1, <3>2, <3>3 DEF InOrder, Filled, Disconnecting
      <3>4. ASSUME NEW p \in Commands PROVE Emptied(p)'
        BY <3>1, <3>2, <3>4 DEF InOrder, Emptied, Connecting, Pending
      <3>5. Left'
        BY <3>1, <3>2
        DEF InOrder, Filled, Emptied, Left, Describes, Empty, Tables, NewTouchesNothing,
          DisconnectAnswer, TypeOK
      <3> QED
        BY <3>2, <3>3, <3>4, <3>5 DEF InOrder
    <2> QED
      BY <2>3, <2>4 DEF Tables
  <1>12. ASSUME NEW a \in Attempts, Saved(a) PROVE Tables'
    <2>1. \A p \in Commands : pc'[p] = IF p = a THEN "done" ELSE pc[p]
      BY <1>12, Moves, Names DEF Saved, Ends
    <2>2. \A p \in Commands : outcome'[p] = IF p = a THEN "ok" ELSE outcome[p]
      BY <1>12, Names DEF Saved, Ends, TypeOK
    <2> USE <1>12, <2>1, <2>2, Names DEF Saved, tableVars, history
    <2>3. NewTouchesNothing'
      BY DEF Tables, NewTouchesNothing, TypeOK, Pending, Connecting, Disconnecting
    <2>4. ASSUME ~overlapped' PROVE InOrder'
      <3>1. ~overlapped /\ InOrder
        BY <2>4 DEF Tables
      <3>2. /\ \A p \in Commands : p # a => pc[p] \in {"new", "done"}
            /\ OneInFlight'
        BY <3>1 DEF InOrder, OneInFlight, InFlight, Pending, Connecting, Disconnecting
      <3>3. ASSUME NEW b \in Attempts PROVE Filled(b)'
        BY <3>1, <3>2, <3>3 DEF InOrder, Filled, Disconnecting
      <3>4. ASSUME NEW p \in Commands PROVE Emptied(p)'
        BY <3>1, <3>2, <3>4 DEF InOrder, Emptied, Connecting, Pending
      <3>5. Left'
        BY <3>1, <3>2
        DEF InOrder, Filled, Emptied, Left, Describes, Empty, Tables, NewTouchesNothing,
          DisconnectAnswer, TypeOK
      <3> QED
        BY <3>2, <3>3, <3>4, <3>5 DEF InOrder
    <2> QED
      BY <2>3, <2>4 DEF Tables
  <1>13. ASSUME NEW a \in Attempts, SaveFails(a) PROVE Tables'
    <2>1. \A p \in Commands : pc'[p] = IF p = a THEN "remove" ELSE pc[p]
      BY <1>13, Moves, Names DEF SaveFails
    <2> USE <1>13, <2>1, Names DEF SaveFails, tableVars, history
    <2>3. NewTouchesNothing'
      BY DEF Tables, NewTouchesNothing, TypeOK, Pending, Connecting, Disconnecting
    <2>4. ASSUME ~overlapped' PROVE InOrder'
      <3>1. ~overlapped /\ InOrder
        BY <2>4 DEF Tables
      <3>2. /\ \A p \in Commands : p # a => pc[p] \in {"new", "done"}
            /\ OneInFlight'
        BY <3>1 DEF InOrder, OneInFlight, InFlight, Pending, Connecting, Disconnecting
      <3>3. ASSUME NEW b \in Attempts PROVE Filled(b)'
        BY <3>1, <3>2, <3>3 DEF InOrder, Filled, Disconnecting
      <3>4. ASSUME NEW p \in Commands PROVE Emptied(p)'
        BY <3>1, <3>2, <3>4 DEF InOrder, Emptied, Connecting, Pending
      <3>5. Left'
        BY <3>1, <3>2
        DEF InOrder, Filled, Emptied, Left, Describes, Empty, Tables, NewTouchesNothing,
          DisconnectAnswer, TypeOK
      <3> QED
        BY <3>2, <3>3, <3>4, <3>5 DEF InOrder
    <2> QED
      BY <2>3, <2>4 DEF Tables
  <1>14. ASSUME NEW d \in Closes, StartDisconnect(d) PROVE Tables'
    <2>1. \A p \in Commands : pc'[p] = IF p = d THEN "remove" ELSE pc[p]
      BY <1>14, Moves, Names DEF StartDisconnect
    <2> USE <1>14, <2>1, Names DEF StartDisconnect, Begins, tableVars, history
    <2>3. NewTouchesNothing'
      BY DEF Tables, NewTouchesNothing, TypeOK, Pending, Connecting, Disconnecting
    <2>4. ASSUME ~overlapped' PROVE InOrder'
      <3>1. ~overlapped /\ InOrder
        BY <2>4 DEF Tables
      <3>2. /\ \A p \in Commands : pc[p] \in {"new", "done"}
            /\ OneInFlight'
        BY <2>4 DEF InFlight, OneInFlight
      <3>3. ASSUME NEW b \in Attempts PROVE Filled(b)'
        BY <3>1, <3>2, <3>3 DEF InOrder, Filled, Disconnecting
      <3>4. ASSUME NEW p \in Commands PROVE Emptied(p)'
        BY <3>1, <3>2, <3>4 DEF InOrder, Emptied, Connecting, Pending
      <3>5. Left'
        BY <3>1, <3>2
        DEF InOrder, Filled, Emptied, Left, Describes, Empty, Tables, NewTouchesNothing,
          DisconnectAnswer, TypeOK
      <3> QED
        BY <3>2, <3>3, <3>4, <3>5 DEF InOrder
    <2> QED
      BY <2>3, <2>4 DEF Tables
  <1>15. ASSUME NEW o \in Commands, Remove(o) PROVE Tables'
    <2>1. \A p \in Commands : pc'[p] = IF p = o THEN "untype" ELSE pc[p]
      BY <1>15, Moves, Names DEF Remove
    <2> USE <1>15, <2>1, Names DEF Remove, Touches, tableVars, history
    <2>3. NewTouchesNothing'
      BY DEF Tables, NewTouchesNothing, TypeOK, Pending, Connecting, Disconnecting
    <2>4. ASSUME ~overlapped' PROVE InOrder'
      <3>1. ~overlapped /\ InOrder
        BY <2>4 DEF Tables
      <3>2. /\ \A p \in Commands : p # o => pc[p] \in {"new", "done"}
            /\ OneInFlight'
        BY <3>1 DEF InOrder, OneInFlight, InFlight, Pending, Connecting, Disconnecting
      <3>3. ASSUME NEW b \in Attempts PROVE Filled(b)'
        BY <3>1, <3>2, <3>3 DEF InOrder, Filled, Disconnecting
      <3>4. ASSUME NEW p \in Commands PROVE Emptied(p)'
        BY <3>1, <3>2, <3>4 DEF InOrder, Emptied, Connecting, Pending
      <3>5. Left'
        BY <3>1, <3>2
        DEF InOrder, Filled, Emptied, Left, Describes, Empty, Tables, NewTouchesNothing,
          DisconnectAnswer, TypeOK
      <3> QED
        BY <3>2, <3>3, <3>4, <3>5 DEF InOrder
    <2> QED
      BY <2>3, <2>4 DEF Tables
  <1>16. ASSUME NEW o \in Commands, RemoveType(o) PROVE Tables'
    <2>1. \A p \in Commands : pc'[p] = IF p = o THEN "unoverride" ELSE pc[p]
      BY <1>16, Moves, Names DEF RemoveType
    <2> USE <1>16, <2>1, Names DEF RemoveType, Touches, tableVars, history
    <2>3. NewTouchesNothing'
      BY DEF Tables, NewTouchesNothing, TypeOK, Pending, Connecting, Disconnecting
    <2>4. ASSUME ~overlapped' PROVE InOrder'
      <3>1. ~overlapped /\ InOrder
        BY <2>4 DEF Tables
      <3>2. /\ \A p \in Commands : p # o => pc[p] \in {"new", "done"}
            /\ OneInFlight'
        BY <3>1 DEF InOrder, OneInFlight, InFlight, Pending, Connecting, Disconnecting
      <3>3. ASSUME NEW b \in Attempts PROVE Filled(b)'
        BY <3>1, <3>2, <3>3 DEF InOrder, Filled, Disconnecting
      <3>4. ASSUME NEW p \in Commands PROVE Emptied(p)'
        BY <3>1, <3>2, <3>4 DEF InOrder, Emptied, Connecting, Pending
      <3>5. Left'
        BY <3>1, <3>2
        DEF InOrder, Filled, Emptied, Left, Describes, Empty, Tables, NewTouchesNothing,
          DisconnectAnswer, TypeOK
      <3> QED
        BY <3>2, <3>3, <3>4, <3>5 DEF InOrder
    <2> QED
      BY <2>3, <2>4 DEF Tables
  <1>17. ASSUME NEW o \in Commands, RemoveOverride(o) PROVE Tables'
    <2>1. \A p \in Commands : pc'[p] = IF p = o THEN "unpin" ELSE pc[p]
      BY <1>17, Moves, Names DEF RemoveOverride
    <2> USE <1>17, <2>1, Names DEF RemoveOverride, Touches, tableVars, history
    <2>3. NewTouchesNothing'
      BY DEF Tables, NewTouchesNothing, TypeOK, Pending, Connecting, Disconnecting
    <2>4. ASSUME ~overlapped' PROVE InOrder'
      <3>1. ~overlapped /\ InOrder
        BY <2>4 DEF Tables
      <3>2. /\ \A p \in Commands : p # o => pc[p] \in {"new", "done"}
            /\ OneInFlight'
        BY <3>1 DEF InOrder, OneInFlight, InFlight, Pending, Connecting, Disconnecting
      <3>3. ASSUME NEW b \in Attempts PROVE Filled(b)'
        BY <3>1, <3>2, <3>3 DEF InOrder, Filled, Disconnecting
      <3>4. ASSUME NEW p \in Commands PROVE Emptied(p)'
        BY <3>1, <3>2, <3>4 DEF InOrder, Emptied, Connecting, Pending
      <3>5. Left'
        BY <3>1, <3>2
        DEF InOrder, Filled, Emptied, Left, Describes, Empty, Tables, NewTouchesNothing,
          DisconnectAnswer, TypeOK
      <3> QED
        BY <3>2, <3>3, <3>4, <3>5 DEF InOrder
    <2> QED
      BY <2>3, <2>4 DEF Tables
  <1>18. ASSUME NEW o \in Commands, RemovePin(o) PROVE Tables'
    <2>1. \A p \in Commands : pc'[p] = IF p = o THEN "untunnel" ELSE pc[p]
      BY <1>18, Moves, Names DEF RemovePin
    <2> USE <1>18, <2>1, Names DEF RemovePin, Touches, tableVars, history
    <2>3. NewTouchesNothing'
      BY DEF Tables, NewTouchesNothing, TypeOK, Pending, Connecting, Disconnecting
    <2>4. ASSUME ~overlapped' PROVE InOrder'
      <3>1. ~overlapped /\ InOrder
        BY <2>4 DEF Tables
      <3>2. /\ \A p \in Commands : p # o => pc[p] \in {"new", "done"}
            /\ OneInFlight'
        BY <3>1 DEF InOrder, OneInFlight, InFlight, Pending, Connecting, Disconnecting
      <3>3. ASSUME NEW b \in Attempts PROVE Filled(b)'
        BY <3>1, <3>2, <3>3 DEF InOrder, Filled, Disconnecting
      <3>4. ASSUME NEW p \in Commands PROVE Emptied(p)'
        BY <3>1, <3>2, <3>4 DEF InOrder, Emptied, Connecting, Pending
      <3>5. Left'
        BY <3>1, <3>2
        DEF InOrder, Filled, Emptied, Left, Describes, Empty, Tables, NewTouchesNothing,
          DisconnectAnswer, TypeOK
      <3> QED
        BY <3>2, <3>3, <3>4, <3>5 DEF InOrder
    <2> QED
      BY <2>3, <2>4 DEF Tables
  <1>19. ASSUME NEW o \in Commands, RemoveTunnel(o) PROVE Tables'
    <2>1. \A p \in Commands : pc'[p] = IF p = o THEN "done" ELSE pc[p]
      BY <1>19, Moves, Names DEF RemoveTunnel, Ends
    <2>2. \A p \in Commands : outcome'[p] = IF p = o THEN DisconnectAnswer(o) ELSE outcome[p]
      BY <1>19, Names DEF RemoveTunnel, Ends, TypeOK
    <2> USE <1>19, <2>1, <2>2, Names DEF RemoveTunnel, Touches, tableVars, history
    <2>3. NewTouchesNothing'
      BY DEF Tables, NewTouchesNothing, TypeOK, Pending, Connecting, Disconnecting
    <2>4. ASSUME ~overlapped' PROVE InOrder'
      <3>1. ~overlapped /\ InOrder
        BY <2>4 DEF Tables
      <3>2. /\ \A p \in Commands : p # o => pc[p] \in {"new", "done"}
            /\ OneInFlight'
        BY <3>1 DEF InOrder, OneInFlight, InFlight, Pending, Connecting, Disconnecting
      <3>3. ASSUME NEW b \in Attempts PROVE Filled(b)'
        BY <3>1, <3>2, <3>3 DEF InOrder, Filled, Disconnecting
      <3>4. ASSUME NEW p \in Commands PROVE Emptied(p)'
        BY <3>1, <3>2, <3>4 DEF InOrder, Emptied, Connecting, Pending
      <3>5. Left'
        BY <3>1, <3>2
        DEF InOrder, Filled, Emptied, Left, Describes, Empty, Tables, NewTouchesNothing,
          DisconnectAnswer, TypeOK
      <3> QED
        BY <3>2, <3>3, <3>4, <3>5 DEF InOrder
    <2> QED
      BY <2>3, <2>4 DEF Tables
  <1>20. ASSUME NEW o \in Commands, InterruptDisconnect(o) PROVE Tables'
    <2>1. \A p \in Commands : pc'[p] = IF p = o THEN "done" ELSE pc[p]
      BY <1>20, Moves, Names DEF InterruptDisconnect, Ends
    <2>2. \A p \in Commands : outcome'[p] = IF p = o THEN "interrupted" ELSE outcome[p]
      BY <1>20, Names DEF InterruptDisconnect, Ends, TypeOK
    <2> USE <1>20, <2>1, <2>2, Names DEF InterruptDisconnect, tableVars, history
    <2>3. NewTouchesNothing'
      BY DEF Tables, NewTouchesNothing, TypeOK, Pending, Connecting, Disconnecting
    <2>4. ASSUME ~overlapped' PROVE InOrder'
      <3>1. ~overlapped /\ InOrder
        BY <2>4 DEF Tables
      <3>2. /\ \A p \in Commands : p # o => pc[p] \in {"new", "done"}
            /\ OneInFlight'
        BY <3>1 DEF InOrder, OneInFlight, InFlight, Pending, Connecting, Disconnecting
      <3>3. ASSUME NEW b \in Attempts PROVE Filled(b)'
        BY <3>1, <3>2, <3>3 DEF InOrder, Filled, Disconnecting
      <3>4. ASSUME NEW p \in Commands PROVE Emptied(p)'
        BY <3>1, <3>2, <3>4 DEF InOrder, Emptied, Connecting, Pending
      <3>5. Left'
        BY <3>1, <3>2
        DEF InOrder, Filled, Emptied, Left, Describes, Empty, Tables, NewTouchesNothing,
          DisconnectAnswer, TypeOK
      <3> QED
        BY <3>2, <3>3, <3>4, <3>5 DEF InOrder
    <2> QED
      BY <2>3, <2>4 DEF Tables
  <1>21. ASSUME NEW w \in Writes, CheckPin(w) PROVE Tables'
    BY <1>21, WritesKeepTables DEF CheckPin, Advance
  <1>22. ASSUME NEW w \in Writes, RecheckPin(w) PROVE Tables'
    BY <1>22, WritesKeepTables DEF RecheckPin, Advance
  <1>23. ASSUME NEW w \in Writes, CheckCapability(w) PROVE Tables'
    BY <1>23, WritesKeepTables DEF CheckCapability, Advance
  <1>24. ASSUME NEW w \in Writes, GetDriver(w) PROVE Tables'
    BY <1>24, WritesKeepTables DEF GetDriver, Advance
  <1>25. ASSUME NEW w \in Writes, EndWrite(w) PROVE Tables'
    BY <1>25, WritesKeepTables DEF EndWrite, Advance
  <1>26. ASSUME UNCHANGED vars PROVE Tables'
    BY <1>26, WritesKeepTables DEF vars
  <1>27. ASSUME NEW a \in Attempts, Connect(a) PROVE Tables'
    BY <1>27, <1>1, <1>2, <1>3, <1>4, <1>5, <1>6, <1>7, <1>8, <1>9, <1>10, <1>11,
      <1>12, <1>13
      DEF Connect
  <1>28. ASSUME NEW o \in Commands, Disconnect(o) PROVE Tables'
    BY <1>28, <1>15, <1>16, <1>17, <1>18, <1>19, <1>20
      DEF Disconnect
  <1>29. ASSUME NEW w \in Writes, Write(w) PROVE Tables'
    BY <1>29, <1>21, <1>22, <1>23, <1>24, <1>25
      DEF Write
  <1> QED
    BY <1>14, <1>26, <1>27, <1>28, <1>29 DEF Next, Terminated

-----------------------------------------------------------------------------
(***************************************************************************)
(* The theorems.                                                           *)
(***************************************************************************)
THEOREM Invariant == Spec => [](Tunnels /\ Drivers /\ Tables)
  <1>1. Init => Tunnels /\ Drivers /\ Tables
    BY TunnelsStart, DriversStart, TablesStart
  <1>2. Tunnels /\ Drivers /\ Tables /\ [Next]_vars => (Tunnels /\ Drivers /\ Tables)'
    BY TunnelsKept, DriversKept, TablesKept DEF Tunnels
  <1> QED
    BY <1>1, <1>2, PTL DEF Spec

\* The tables, the tunnels and the commands keep their types, and a write command
\* runs on a driver it has found.
THEOREM TypeCorrect == Spec => []TypeOK
  <1>1. Tunnels => TypeOK
    BY DEF Tunnels
  <1> QED
    BY Invariant, <1>1, PTL

\* However connects, reconnects, disconnects and rollbacks of an id overlap and
\* wherever they are dropped, a lookup finds a driver nobody has told to disconnect.
THEOREM LookupsFindOpenDrivers == Spec => []PublishedIsOpen
  <1>1. Drivers => PublishedIsOpen
    BY DEF Drivers
  <1> QED
    BY Invariant, <1>1, PTL

\* An open tunnel is in the table or awaits it, but for the two leaks.
THEOREM TunnelsStayOwned == Spec => []TunnelsOwned
  <1>1. Tunnels => TunnelsOwned
    BY DEF Tunnels, Ownership
  <1> QED
    BY Invariant, <1>1, PTL

\* Commands that do not overlap leave tables that describe the last one, also after
\* interrupted commands left a part of theirs.
THEOREM LastCommandIsDescribed == Spec => []LastCommandDescribed
  <1>1. TypeOK /\ Tables => LastCommandDescribed
    <2> SUFFICES ASSUME TypeOK, Tables, ~overlapped, touched # None,
                        \A o \in Commands : ~InFlight(o)
                 PROVE  CASE outcome[touched] = "ok" /\ touched \in Attempts -> Describes(touched)
                          [] outcome[touched] = "interrupted" -> TRUE
                          [] OTHER -> Empty
      BY DEF LastCommandDescribed
    <2>1. touched \in Commands /\ pc[touched] \in {"new", "done"}
      BY DEF TypeOK, InFlight
    <2>2. pc[touched] = "done"
      BY <2>1 DEF Tables, NewTouchesNothing
    <2> QED
      BY <2>2 DEF Tables, InOrder, Left
  <1>2. Tunnels => TypeOK
    BY DEF Tunnels
  <1> QED
    BY Invariant, <1>1, <1>2, PTL

=============================================================================
