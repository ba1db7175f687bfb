------------------------------ MODULE SafeMode ------------------------------
(***************************************************************************)
(* Safe Mode: the settings and their suspension by a full-access grant of  *)
(* the AI panel (src/src/stores/safeModeStore.ts), the guard every         *)
(* statement passes with its dialog (src/src/utils/safe-mode-query-guard.ts, *)
(* components/SafeMode/SafeModeConfirmDialog.tsx), and the copy of the     *)
(* policy that the back end checks again before it executes                *)
(* (src-tauri/src/commands/safe_mode.rs, utils/safe_mode.rs).              *)
(*                                                                         *)
(* One connection.  A step is a run of the event loop between two awaits;  *)
(* the set_safe_mode_policy commands are fire-and-forget and are applied   *)
(* in any order.  A statement is the class its parsers put it in.          *)
(***************************************************************************)
EXTENDS Naturals, FiniteSets

CONSTANTS
  Picks,          \* the levels the user picks from, of 0 .. 5
  OverrideLevels, \* the levels the user overrides the connection's with
  Statements,     \* the classes of the statements that are run
  Origins,        \* who starts them, of Callers
  Workspaces,     \* workspaces of the AI panel
  Runs,           \* statements on their way through the guard
  None, Stale,    \* no request, and one that was given up
  MaxPushes       \* bound: policy commands in flight

ASSUME LevelsAssumption ==
  /\ Picks \subseteq 0 .. 5 /\ OverrideLevels \subseteq 0 .. 5
  /\ None \notin 0 .. 5 /\ {None, Stale} \cap Runs = {}
ASSUME BoundAssumption == MaxPushes \in Nat

Levels == 0 .. 5

\* SELECT, INSERT, UPDATE or DELETE, ALTER, DROP or TRUNCATE or CREATE TABLE, a
\* read that reaches the file system, and what the parser does not know.
Classes == {"read", "insert", "update", "alter", "drop", "file", "unknown"}
ASSUME StatementsAssumption == Statements \subseteq Classes

\* The Run button; the Run button of a tab with a standing approval; a script or a
\* parameterized query of such a tab, and what the user reviewed; and a tool of the
\* agent.
Callers == {"user", "granted", "reviewed", "agent"}
ASSUME OriginsAssumption == Origins \subseteq Callers

Settings == [global : Levels, override : Levels \cup {None}, production : BOOLEAN]

VARIABLES
  settings,   \* SafeModeSettings, in the store and in localStorage
  suspended,  \* localStorage: the level a grant suspended
  full,       \* the workspaces with full access, in localStorage too
  consent,    \* the second dialog of the grant is open
  policy,     \* the back end's copy, as the level it gives the connection
  pushes,     \* set_safe_mode_policy commands under way, likewise
  state, stmt, caller, level, approved,  \* per run; level is what the guard read
  dialog,     \* the one request the confirmation dialog shows
  chosen,     \* history: the level the user chose last
  answered,   \* history: the runs whose own request the user approved
  unapproved  \* history: a statement that needs an approval ran without its own

grant == <<suspended, full, consent, chosen>>
back == <<policy, pushes>>
run == <<state, stmt, caller, level, approved, dialog, answered, unapproved>>
vars == <<settings, grant, back, run>>

TypeOK ==
  /\ settings \in Settings
  /\ suspended \in (Levels \ {0}) \cup {None}
  /\ full \subseteq Workspaces
  /\ consent \in BOOLEAN
  /\ policy \in Levels
  /\ pushes \subseteq Levels
  /\ state \in [Runs -> {"idle", "classifying", "asking", "sent"}]
  /\ stmt \in [Runs -> Statements \cup {None}]
  /\ caller \in [Runs -> Callers]
  /\ level \in [Runs -> Levels]
  /\ approved \in [Runs -> BOOLEAN]
  /\ dialog \in Runs \cup {None, Stale}
  /\ chosen \in Levels
  /\ answered \subseteq Runs
  /\ unapproved \in BOOLEAN

Default == [global |-> 1, override |-> None, production |-> FALSE]

Init ==
  /\ settings = Default /\ policy = Default.global /\ pushes = {Default.global}
  /\ suspended = None /\ full = {} /\ consent = FALSE /\ chosen = Default.global
  /\ state = [r \in Runs |-> "idle"] /\ stmt = [r \in Runs |-> None]
  /\ caller = [r \in Runs |-> "user"] /\ level = [r \in Runs |-> 0]
  /\ approved = [r \in Runs |-> FALSE] /\ dialog = None /\ answered = {}
  /\ unapproved = FALSE

(***************************************************************************)
(* Levels                                                                  *)
(***************************************************************************)
\* getEffectiveLevel and effective_level.
EffectiveLevel(s) ==
  IF s.override # None THEN s.override ELSE IF s.production THEN 4 ELSE s.global

\* isBlockedAtLevel and is_blocked_at_level, and what cannot be classified.
IsBlocked(l, s) ==
  \/ l > 0 /\ s = "unknown"
  \/ l = 1 /\ s \notin {"read", "file"}
  \/ l = 2 /\ s \notin {"read", "file", "insert"}
  \/ l = 3 /\ s \in {"alter", "drop"}
  \/ l >= 4 /\ s = "drop"

RequiresConfirmation(l, s) ==
  \/ l = 5
  \/ l >= 3 /\ s \in {"insert", "update"}
  \/ l >= 4 /\ s = "alter"

UserInitiated(c) == c \in {"user", "granted"}
PreApproved(l, c) == c \in {"granted", "reviewed"} /\ l <= 3

\* assertQueryAllowed: what becomes of a statement the guard read level l for.
Verdict(l, s, c) ==
  CASE IsBlocked(l, s) /\ PreApproved(l, c)           -> "approve"
    [] IsBlocked(l, s) /\ ~PreApproved(l, c)          -> IF UserInitiated(c) /\ l <= 3 THEN "ask" ELSE "refuse"
    [] ~IsBlocked(l, s) /\ s = "file"                 -> IF UserInitiated(c) THEN "ask" ELSE "refuse"
    [] ~IsBlocked(l, s) /\ s # "file"                 ->
         IF RequiresConfirmation(l, s) /\ ~PreApproved(l, c) THEN "ask" ELSE "pass"

\* assert_sql_allowed_at_level_with_approval
BackendAllows(l, s, human) == l = 0 \/ (human /\ l <= 3) \/ ~IsBlocked(l, s)

(***************************************************************************)
(* The settings                                                            *)
(***************************************************************************)
\* saveSettings: localStorage, and a command that nobody waits for.
SaveSettings(s) ==
  /\ settings' = s /\ policy' = policy
  /\ pushes' = pushes \cup {EffectiveLevel(s)} /\ Cardinality(pushes') <= MaxPushes

\* Mutant of the next definition: a level picked by hand leaves the stash.
SetGlobalLevelOnly(l) ==
  /\ SaveSettings([settings EXCEPT !.global = l])
  /\ chosen' = l
  /\ UNCHANGED <<suspended, full, consent, run>>

SetGlobalLevel(l) ==
  /\ SaveSettings([settings EXCEPT !.global = l])
  /\ suspended' = None /\ chosen' = l
  /\ UNCHANGED <<full, consent, run>>

SetConnectionOverride(l) ==
  SaveSettings([settings EXCEPT !.override = l]) /\ UNCHANGED <<grant, run>>

RemoveConnectionOverride ==
  /\ settings.override # None
  /\ SaveSettings([settings EXCEPT !.override = None]) /\ UNCHANGED <<grant, run>>

SetConnectionEnvironment ==
  SaveSettings([settings EXCEPT !.production = ~@]) /\ UNCHANGED <<grant, run>>

\* The first consent to full access: a second one when Safe Mode is on.
ConfirmFullAccess(w) ==
  /\ ~consent /\ w \notin full
  /\ IF settings.global >= 1 THEN consent' = TRUE /\ full' = full
     ELSE consent' = FALSE /\ full' = full \cup {w}
  /\ UNCHANGED <<settings, suspended, chosen, back, run>>

\* The second consent: suspendSafeModeForFullAccess, then the grant, to the
\* workspace that is current by now.
ConfirmSuspension(w) ==
  /\ consent /\ consent' = FALSE
  /\ full' = full \cup {w}
  /\ IF settings.global = 0 THEN UNCHANGED <<settings, suspended, back>>
     ELSE /\ suspended' = settings.global
          /\ SaveSettings([settings EXCEPT !.global = 0])
  /\ UNCHANGED <<chosen, run>>

DeclineSuspension ==
  /\ consent /\ consent' = FALSE
  /\ UNCHANGED <<settings, suspended, full, chosen, back, run>>

\* resumeSafeModeFromFullAccess
Resume ==
  /\ suspended' = None
  /\ IF suspended = None \/ settings.global # 0 THEN UNCHANGED <<settings, back>>
     ELSE SaveSettings([settings EXCEPT !.global = suspended])

\* selectAgentAutonomy away from full.
DropFullAccess(w) ==
  /\ w \in full /\ full' = full \ {w}
  /\ Resume
  /\ UNCHANGED <<consent, chosen, run>>

\* The program is started again: loadSettings ends a suspension, the back end
\* has its default policy, and useAppBoot sends it the settings.
Restart ==
  /\ settings' = IF suspended # None /\ settings.global = 0
                 THEN [settings EXCEPT !.global = suspended] ELSE settings
  /\ suspended' = None /\ consent' = FALSE
  /\ policy' = Default.global /\ pushes' = {EffectiveLevel(settings')}
  /\ state' = [r \in Runs |-> "idle"] /\ stmt' = [r \in Runs |-> None]
  /\ caller' = [r \in Runs |-> "user"] /\ level' = [r \in Runs |-> 0]
  /\ approved' = [r \in Runs |-> FALSE] /\ dialog' = None /\ answered' = {}
  /\ unapproved' = unapproved
  /\ UNCHANGED <<full, chosen>>

\* set_policy; a command that fails is only logged.
Deliver(l) ==
  /\ pushes' = pushes \ {l}
  /\ policy' = l \/ policy' = policy
  /\ UNCHANGED <<settings, grant, run>>

(***************************************************************************)
(* The guard, the dialog and the back end                                  *)
(***************************************************************************)
\* The runs R end, executed or refused.
End(R) ==
  /\ state' = [r \in Runs |-> IF r \in R THEN "idle" ELSE state[r]]
  /\ stmt' = [r \in Runs |-> IF r \in R THEN None ELSE stmt[r]]
  /\ caller' = [r \in Runs |-> IF r \in R THEN "user" ELSE caller[r]]
  /\ level' = [r \in Runs |-> IF r \in R THEN 0 ELSE level[r]]
  /\ approved' = [r \in Runs |-> r \notin R /\ approved[r]]
  /\ answered' = answered \ R

\* The level is read, then the classification is awaited.
Guard(r, s, c) ==
  /\ state[r] = "idle"
  /\ state' = [state EXCEPT ![r] = "classifying"]
  /\ stmt' = [stmt EXCEPT ![r] = s]
  /\ caller' = [caller EXCEPT ![r] = c]
  /\ level' = [level EXCEPT ![r] = EffectiveLevel(settings)]
  /\ UNCHANGED <<settings, grant, back, approved, dialog, answered, unapproved>>

\* The classification is there.  A request for confirmation replaces the one the
\* dialog shows.
Classified(r) ==
  /\ state[r] = "classifying"
  /\ LET verdict == Verdict(level[r], stmt[r], caller[r]) IN
     /\ dialog' = IF verdict = "ask" THEN r ELSE dialog
     /\ IF verdict = "refuse" THEN End({r})
        ELSE /\ state' = [state EXCEPT ![r] = IF verdict = "ask" THEN "asking" ELSE "sent"]
             /\ approved' = [approved EXCEPT ![r] = verdict = "approve"]
             /\ UNCHANGED <<stmt, caller, level, answered>>
  /\ UNCHANGED <<settings, grant, back, unapproved>>

\* Mutant of the next definition: the id of a response is not looked at.
HearsAny(r) == {x \in Runs : state[x] = "asking"}

\* The requests that a response to r resolves: the listener compares the id.
Hears(r) == {x \in Runs : state[x] = "asking"} \cap {r}

\* The user approves the request that is shown, which may have been given up.
Approve(r) ==
  /\ dialog = r /\ dialog' = None
  /\ state' = [x \in Runs |-> IF x \in Hears(r) THEN "sent" ELSE state[x]]
  /\ approved' = [x \in Runs |-> approved[x] \/ x \in Hears(r)]
  /\ answered' = IF state[r] = "asking" THEN answered \cup {r} ELSE answered
  /\ UNCHANGED <<settings, grant, back, stmt, caller, level, unapproved>>

Decline(r) ==
  /\ dialog = r /\ dialog' = None
  /\ End(Hears(r))
  /\ UNCHANGED <<settings, grant, back, unapproved>>

\* CONFIRMATION_TIMEOUT_MS: the request counts as declined, the dialog stays.
Timeout(r) ==
  /\ state[r] = "asking"
  /\ End({r})
  /\ dialog' = IF dialog = r THEN Stale ELSE dialog
  /\ UNCHANGED <<settings, grant, back, unapproved>>

\* The user closes the dialog of a request that was given up: nobody listens for
\* its id.
CloseStale ==
  /\ dialog = Stale /\ dialog' = None
  /\ UNCHANGED <<settings, grant, back, state, stmt, caller, level, approved, answered, unapproved>>

NeedsApproval(l, s) == IsBlocked(l, s) \/ RequiresConfirmation(l, s) \/ s = "file"

\* The back end checks with its own copy of the policy and executes, or refuses.
Execute(r) ==
  /\ state[r] = "sent"
  /\ unapproved' = (unapproved \/ (/\ BackendAllows(policy, stmt[r], approved[r])
                                   /\ NeedsApproval(level[r], stmt[r])
                                   /\ r \notin answered /\ ~PreApproved(level[r], caller[r])))
  /\ End({r})
  /\ UNCHANGED <<settings, grant, back, dialog>>

Next ==
  \/ \E l \in Picks : SetGlobalLevel(l)
  \/ \E l \in OverrideLevels : SetConnectionOverride(l)
  \/ RemoveConnectionOverride \/ SetConnectionEnvironment
  \/ \E w \in Workspaces : ConfirmFullAccess(w) \/ ConfirmSuspension(w) \/ DropFullAccess(w)
  \/ DeclineSuspension \/ Restart
  \/ \E l \in pushes : Deliver(l)
  \/ \E r \in Runs, s \in Statements, c \in Origins : Guard(r, s, c)
  \/ \E r \in Runs : \/ Classified(r) \/ Approve(r) \/ Decline(r) \/ Timeout(r)
                     \/ Execute(r)
  \/ CloseStale

Spec == Init /\ [][Next]_vars
-----------------------------------------------------------------------------
(***************************************************************************)
(* Properties                                                              *)
(***************************************************************************)
\* Requests stack up, time out and are answered late in the one dialog, while the
\* settings and their copy change: a statement that the level its guard read
\* blocks, or wants confirmed, runs only after an answer to its own request, or on
\* an approval given before where the level admits one.
ExecutedWasApproved == ~unapproved

\* Grants in several workspaces, changes by hand and restarts in any order: the
\* level is the one the user chose last, or it is suspended, the chosen one is
\* kept for the return and some workspace has full access.
SuspensionIsGranted ==
  \/ settings.global = chosen /\ suspended = None
  \/ settings.global = 0 /\ suspended = chosen /\ full # {}
=============================================================================
