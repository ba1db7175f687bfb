--------------------------- MODULE SafeMode_proofs ---------------------------
(***************************************************************************)
(* Proofs about SafeMode, for any number of workspaces and statements on   *)
(* their way and every choice of levels.                                   *)
(***************************************************************************)
EXTENDS SafeMode, TLAPS

\* What was sent to the back end needs no approval, has it from its own request, or
\* brought it.
SentInv ==
  \A r \in Runs : state[r] = "sent" =>
    \/ ~NeedsApproval(level[r], stmt[r])
    \/ r \in answered
    \/ PreApproved(level[r], caller[r])

Inv == TypeOK /\ SuspensionIsGranted /\ SentInv /\ ExecutedWasApproved

-----------------------------------------------------------------------------
(***************************************************************************)
(* Operators                                                               *)
(***************************************************************************)
LEMMA LevelsExcludeNone == None \notin Levels
  BY LevelsAssumption DEF Levels

LEMMA EffectiveIsLevel ==
  ASSUME NEW s \in Settings
  PROVE  EffectiveLevel(s) \in Levels
  <1>1. s.global \in Levels /\ s.override \in Levels \cup {None} /\ 4 \in Levels
    BY DEF Settings, Levels
  <1> QED
    BY <1>1 DEF EffectiveLevel

\* SaveSettings leaves a level in flight.
LEMMA SaveTyped ==
  ASSUME NEW s \in Settings, SaveSettings(s), TypeOK
  PROVE  settings' = s /\ policy' = policy /\ pushes' \subseteq Levels
  BY EffectiveIsLevel DEF SaveSettings, TypeOK

\* The settings that an operation saves.
LEMMA SettingsKept ==
  ASSUME TypeOK
  PROVE  /\ \A l \in Levels : /\ [settings EXCEPT !.global = l] \in Settings
                              /\ [settings EXCEPT !.global = l].global = l
         /\ \A l \in Levels \cup {None} :
              /\ [settings EXCEPT !.override = l] \in Settings
              /\ [settings EXCEPT !.override = l].global = settings.global
         /\ /\ [settings EXCEPT !.production = ~@] \in Settings
            /\ [settings EXCEPT !.production = ~@].global = settings.global
  <1>1. settings \in Settings
    BY DEF TypeOK
  <1> QED
    BY <1>1 DEF Settings

LEMMA PicksAreLevels == Picks \subseteq Levels /\ OverrideLevels \subseteq Levels
  BY LevelsAssumption DEF Levels

\* A statement passes or is approved only as NeedsApproval and PreApproved allow.
LEMMA VerdictIs ==
  ASSUME NEW l \in Levels, NEW s, NEW c
  PROVE  /\ Verdict(l, s, c) \in {"approve", "ask", "refuse", "pass"}
         /\ Verdict(l, s, c) = "approve" => PreApproved(l, c)
         /\ Verdict(l, s, c) = "pass" => ~NeedsApproval(l, s) \/ PreApproved(l, c)
  <1>1. CASE IsBlocked(l, s) /\ PreApproved(l, c)
    <2>1. Verdict(l, s, c) = "approve"
      BY <1>1 DEF Verdict
    <2> QED
      BY <1>1, <2>1
  <1>2. CASE IsBlocked(l, s) /\ ~PreApproved(l, c)
    <2>1. Verdict(l, s, c) = IF UserInitiated(c) /\ l <= 3 THEN "ask" ELSE "refuse"
      BY <1>2 DEF Verdict
    <2> QED
      BY <2>1
  <1>3. CASE ~IsBlocked(l, s) /\ s = "file"
    <2>1. Verdict(l, s, c) = IF UserInitiated(c) THEN "ask" ELSE "refuse"
      BY <1>3 DEF Verdict
    <2> QED
      BY <2>1
  <1>4. CASE ~IsBlocked(l, s) /\ s # "file"
    <2>1. Verdict(l, s, c) = IF RequiresConfirmation(l, s) /\ ~PreApproved(l, c) THEN "ask" ELSE "pass"
      BY <1>4 DEF Verdict
    <2> QED
      BY <1>4, <2>1 DEF NeedsApproval
  <1> QED
    BY <1>1, <1>2, <1>3, <1>4

\* Next, in three groups: what touches the settings and grants, and what touches
\* the statements, and the restart that touches both.
LEMMA NextSplit ==
  ASSUME Next
  PROVE  \/ Restart
         \/ \E l \in Picks : SetGlobalLevel(l)
         \/ \E l \in OverrideLevels : SetConnectionOverride(l)
         \/ RemoveConnectionOverride \/ SetConnectionEnvironment
         \/ \E w \in Workspaces : ConfirmFullAccess(w) \/ ConfirmSuspension(w) \/ DropFullAccess(w)
         \/ DeclineSuspension
         \/ \E l \in pushes : Deliver(l)
         \/ \E r \in Runs, s \in Statements, c \in Origins : Guard(r, s, c)
         \/ \E r \in Runs : Classified(r) \/ Approve(r) \/ Decline(r) \/ Timeout(r) \/ Execute(r)
         \/ CloseStale
  BY DEF Next

-----------------------------------------------------------------------------
(***************************************************************************)
(* Settings, grants and the policy                                         *)
(***************************************************************************)
SettingsTyped ==
  /\ settings \in Settings /\ suspended \in (Levels \ {0}) \cup {None}
  /\ full \subseteq Workspaces /\ consent \in BOOLEAN
  /\ policy \in Levels /\ pushes \subseteq Levels /\ chosen \in Levels

RunsTyped ==
  /\ state \in [Runs -> {"idle", "classifying", "asking", "sent"}]
  /\ stmt \in [Runs -> Statements \cup {None}] /\ caller \in [Runs -> Callers]
  /\ level \in [Runs -> Levels] /\ approved \in [Runs -> BOOLEAN]
  /\ dialog \in Runs \cup {None, Stale} /\ answered \subseteq Runs

LEMMA TypesSplit == TypeOK <=> SettingsTyped /\ RunsTyped /\ unapproved \in BOOLEAN
  BY DEF TypeOK, SettingsTyped, RunsTyped

SettingsInv == SettingsTyped /\ SuspensionIsGranted

\* A step that leaves the settings and the grant alone.
LEMMA SettingsAside ==
  ASSUME SettingsInv, UNCHANGED <<settings, grant, policy, pushes>>
  PROVE  SettingsInv'
  BY DEF SettingsInv, SettingsTyped, SuspensionIsGranted, grant

LEMMA SettingsStep ==
  ASSUME TypeOK, SuspensionIsGranted, Next
  PROVE  SettingsInv'
  <1>t. SettingsInv
    BY TypesSplit DEF SettingsInv
  <1>n. None \notin Levels /\ 0 \in Levels
    BY LevelsExcludeNone DEF Levels
  <1>s. settings.global \in Levels
    BY DEF TypeOK, Settings
  <1>1. ASSUME Restart PROVE SettingsInv'
    <2>1. settings' \in Settings
      BY <1>1, SettingsKept DEF Restart, TypeOK
    <2>2. settings'.global = chosen
      BY <1>1, <1>n, SettingsKept DEF Restart, SuspensionIsGranted, TypeOK
    <2>3. pushes' \subseteq Levels /\ policy' \in Levels
      <3>1. Default.global \in Levels
        BY DEF Default, Levels
      <3> QED
        BY <1>1, <2>1, <3>1, EffectiveIsLevel DEF Restart
    <2>4. suspended' = None /\ consent' = FALSE /\ UNCHANGED <<full, chosen>>
      BY <1>1 DEF Restart
    <2> QED
      BY <1>t, <2>1, <2>2, <2>3, <2>4 DEF SettingsInv, SettingsTyped, SuspensionIsGranted
  <1>2. ASSUME NEW l \in Picks, SetGlobalLevel(l) PROVE SettingsInv'
    <2>1. l \in Levels
      BY PicksAreLevels
    <2>2. settings' \in Settings /\ settings'.global = l /\ policy' = policy /\ pushes' \subseteq Levels
      BY <1>2, <2>1, SettingsKept, SaveTyped DEF SetGlobalLevel
    <2>3. suspended' = None /\ chosen' = l /\ UNCHANGED <<full, consent>>
      BY <1>2 DEF SetGlobalLevel
    <2> QED
      BY <1>t, <2>1, <2>2, <2>3 DEF SettingsInv, SettingsTyped, SuspensionIsGranted
  <1>3. ASSUME \/ \E l \in OverrideLevels : SetConnectionOverride(l)
               \/ RemoveConnectionOverride \/ SetConnectionEnvironment
        PROVE  SettingsInv'
    <2>1. \E s \in Settings : s.global = settings.global /\ SaveSettings(s)
      BY <1>3, PicksAreLevels, SettingsKept
         DEF SetConnectionOverride, RemoveConnectionOverride, SetConnectionEnvironment
    <2>2. /\ settings' \in Settings /\ settings'.global = settings.global
          /\ policy' = policy /\ pushes' \subseteq Levels
      BY <2>1, SaveTyped
    <2>3. UNCHANGED grant
      BY <1>3 DEF SetConnectionOverride, RemoveConnectionOverride, SetConnectionEnvironment
    <2> QED
      BY <1>t, <2>2, <2>3 DEF SettingsInv, SettingsTyped, SuspensionIsGranted, grant
  <1>4. ASSUME NEW w \in Workspaces, ConfirmFullAccess(w) PROVE SettingsInv'
    <2>1. UNCHANGED <<settings, suspended, chosen, policy, pushes>>
      BY <1>4 DEF ConfirmFullAccess, back
    <2>2. full \subseteq full' /\ full' \subseteq Workspaces /\ consent' \in BOOLEAN
      BY <1>4, <1>t DEF ConfirmFullAccess, SettingsInv, SettingsTyped
    <2> QED
      BY <1>t, <2>1, <2>2 DEF SettingsInv, SettingsTyped, SuspensionIsGranted
  <1>5. ASSUME NEW w \in Workspaces, ConfirmSuspension(w) PROVE SettingsInv'
    <2>1. /\ full' = full \cup {w} /\ full' \subseteq Workspaces /\ consent' = FALSE
          /\ chosen' = chosen
      BY <1>5, <1>t DEF ConfirmSuspension, SettingsInv, SettingsTyped
    <2>2. CASE settings.global = 0
      <3>1. UNCHANGED <<settings, suspended, policy, pushes>>
        BY <1>5, <2>2 DEF ConfirmSuspension, back
      <3> QED
        BY <1>t, <2>1, <3>1 DEF SettingsInv, SettingsTyped, SuspensionIsGranted
    <2>3. CASE settings.global # 0
      <3>1. suspended' = settings.global /\ SaveSettings([settings EXCEPT !.global = 0])
        BY <1>5, <2>3 DEF ConfirmSuspension
      <3>2. settings' \in Settings /\ settings'.global = 0 /\ policy' = policy /\ pushes' \subseteq Levels
        BY <1>n, <3>1, SettingsKept, SaveTyped
      <3>3. settings.global = chosen
        BY <2>3 DEF SuspensionIsGranted
      <3> QED
        BY <1>t, <1>s, <2>1, <2>3, <3>1, <3>2, <3>3 DEF SettingsInv, SettingsTyped, SuspensionIsGranted
    <2> QED
      BY <2>2, <2>3
  <1>6. ASSUME NEW w \in Workspaces, DropFullAccess(w) PROVE SettingsInv'
    <2>1. /\ suspended' = None /\ UNCHANGED <<consent, chosen>>
          /\ full' \subseteq Workspaces /\ Resume
      BY <1>6, <1>t DEF DropFullAccess, Resume, SettingsInv, SettingsTyped
    <2>2. CASE suspended = None \/ settings.global # 0
      <3>1. UNCHANGED <<settings, policy, pushes>>
        BY <2>1, <2>2 DEF Resume, back
      <3>2. settings.global = chosen
        BY <1>n, <1>t, <2>2 DEF SuspensionIsGranted, SettingsInv, SettingsTyped
      <3> QED
        BY <1>t, <2>1, <3>1, <3>2 DEF SettingsInv, SettingsTyped, SuspensionIsGranted
    <2>3. CASE suspended # None /\ settings.global = 0
      <3>1. SaveSettings([settings EXCEPT !.global = suspended]) /\ suspended \in Levels
        BY <1>t, <2>1, <2>3 DEF Resume, SettingsInv, SettingsTyped
      <3>2. settings' \in Settings /\ settings'.global = suspended /\ policy' = policy /\ pushes' \subseteq Levels
        BY <3>1, SettingsKept, SaveTyped
      <3>3. suspended = chosen
        BY <2>3 DEF SuspensionIsGranted
      <3> QED
        BY <1>t, <2>1, <3>2, <3>3 DEF SettingsInv, SettingsTyped, SuspensionIsGranted
    <2> QED
      BY <2>2, <2>3
  <1>7. ASSUME DeclineSuspension PROVE SettingsInv'
    BY <1>7, <1>t DEF DeclineSuspension, back, SettingsInv, SettingsTyped, SuspensionIsGranted
  <1>8. ASSUME NEW l \in pushes, Deliver(l) PROVE SettingsInv'
    BY <1>8, <1>t DEF Deliver, grant, SettingsInv, SettingsTyped, SuspensionIsGranted
  <1>9. ASSUME \/ \E r \in Runs, s \in Statements, c \in Origins : Guard(r, s, c)
               \/ \E r \in Runs : Classified(r) \/ Approve(r) \/ Decline(r) \/ Timeout(r) \/ Execute(r)
               \/ CloseStale
        PROVE  SettingsInv'
    BY <1>9, <1>t, SettingsAside
       DEF Guard, Classified, Approve, Decline, Timeout, Execute, CloseStale, back
  <1> QED
    BY NextSplit, <1>1, <1>2, <1>3, <1>4, <1>5, <1>6, <1>7, <1>8, <1>9

-----------------------------------------------------------------------------
(***************************************************************************)
(* Statements on their way                                                 *)
(***************************************************************************)
RunsInv == RunsTyped /\ SentInv /\ unapproved = FALSE

\* The runs that end are idle, the others go on.
LEMMA EndPoint ==
  ASSUME RunsTyped, SentInv, NEW R \in SUBSET Runs, End(R), dialog' \in Runs \cup {None, Stale}
  PROVE  RunsTyped' /\ SentInv'
  <1>1. {"user"} \subseteq Callers /\ 0 \in Levels
    BY DEF Callers, Levels
  <1>2. RunsTyped'
    BY <1>1 DEF RunsTyped, End
  <1>3. ASSUME NEW r \in Runs, state'[r] = "sent"
        PROVE  /\ r \notin R /\ state[r] = "sent" /\ level'[r] = level[r] /\ stmt'[r] = stmt[r]
               /\ caller'[r] = caller[r] /\ (r \in answered => r \in answered')
    BY <1>3 DEF RunsTyped, End
  <1>4. SentInv'
    BY <1>3 DEF SentInv
  <1> QED
    BY <1>2, <1>4

LEMMA RunsStep ==
  ASSUME Inv, Next
  PROVE  RunsInv'
  <1>t. RunsTyped /\ SentInv /\ unapproved = FALSE /\ settings \in Settings
    BY TypesSplit DEF Inv, ExecutedWasApproved, TypeOK
  <1>l. 0 \in Levels /\ "user" \in Callers
    BY DEF Levels, Callers
  <1>1. ASSUME Restart PROVE RunsInv'
    <2>1. RunsTyped'
      BY <1>1, <1>l DEF Restart, RunsTyped
    <2>2. \A r \in Runs : state'[r] = "idle"
      BY <1>1 DEF Restart
    <2> QED
      BY <1>1, <1>t, <2>1, <2>2 DEF Restart, RunsInv, SentInv
  <1>2. ASSUME UNCHANGED run PROVE RunsInv'
    BY <1>2, <1>t DEF run, RunsInv, RunsTyped, SentInv
  <1>3. ASSUME NEW r \in Runs, NEW s \in Statements, NEW c \in Origins, Guard(r, s, c)
        PROVE  RunsInv'
    <2>1. EffectiveLevel(settings) \in Levels /\ c \in Callers
      BY <1>t, EffectiveIsLevel, OriginsAssumption
    <2>2. RunsTyped'
      BY <1>3, <1>t, <2>1 DEF Guard, RunsTyped
    <2>3. ASSUME NEW x \in Runs, state'[x] = "sent"
          PROVE  /\ state[x] = "sent" /\ level'[x] = level[x] /\ stmt'[x] = stmt[x]
                 /\ caller'[x] = caller[x] /\ answered' = answered
      BY <1>3, <1>t, <2>3 DEF Guard, RunsTyped
    <2>4. SentInv'
      BY <1>t, <2>3 DEF SentInv
    <2> QED
      BY <1>3, <1>t, <2>2, <2>4 DEF Guard, RunsInv
  <1>4. ASSUME NEW r \in Runs, Classified(r) PROVE RunsInv'
    <2> DEFINE verdict == Verdict(level[r], stmt[r], caller[r])
    <2>1. /\ level[r] \in Levels
          /\ verdict \in {"approve", "ask", "refuse", "pass"}
          /\ verdict = "approve" => PreApproved(level[r], caller[r])
          /\ verdict = "pass" => ~NeedsApproval(level[r], stmt[r]) \/ PreApproved(level[r], caller[r])
      <3>1. level[r] \in Levels
        BY <1>t DEF RunsTyped
      <3> QED
        BY <3>1, VerdictIs
    <2>2. /\ dialog' = IF verdict = "ask" THEN r ELSE dialog
          /\ IF verdict = "refuse" THEN End({r})
             ELSE /\ state' = [state EXCEPT ![r] = IF verdict = "ask" THEN "asking" ELSE "sent"]
                  /\ approved' = [approved EXCEPT ![r] = verdict = "approve"]
                  /\ UNCHANGED <<stmt, caller, level, answered>>
          /\ unapproved' = unapproved
      BY <1>4 DEF Classified
    <2> HIDE DEF verdict
    <2>3. dialog' \in Runs \cup {None, Stale}
      BY <1>t, <2>2 DEF RunsTyped
    <2>4. CASE verdict = "refuse"
      BY <1>t, <2>2, <2>3, <2>4, EndPoint DEF RunsInv
    <2>5. CASE verdict # "refuse"
      <3>1. /\ state' = [state EXCEPT ![r] = IF verdict = "ask" THEN "asking" ELSE "sent"]
            /\ approved' = [approved EXCEPT ![r] = verdict = "approve"]
            /\ UNCHANGED <<stmt, caller, level, answered>>
        BY <2>2, <2>5
      <3>2. state' \in [Runs -> {"idle", "classifying", "asking", "sent"}]
        BY <1>t, <3>1 DEF RunsTyped
      <3>3. approved' \in [Runs -> BOOLEAN]
        BY <1>t, <3>1, Zenon DEF RunsTyped
      <3>4. RunsTyped'
        BY <1>t, <2>3, <3>1, <3>2, <3>3 DEF RunsTyped
      <3>5. ASSUME NEW x \in Runs, state'[x] = "sent", x # r PROVE state[x] = "sent"
        BY <1>t, <3>1, <3>5 DEF RunsTyped
      <3>6. state'[r] = "sent" => verdict \in {"approve", "pass"}
        BY <1>t, <2>1, <2>5, <3>1 DEF RunsTyped
      <3>7. SentInv'
        BY <1>t, <2>1, <3>1, <3>5, <3>6 DEF SentInv
      <3> QED
        BY <1>t, <2>2, <3>4, <3>7 DEF RunsInv
    <2> QED
      BY <2>4, <2>5
  <1>5. ASSUME NEW r \in Runs, Approve(r) PROVE RunsInv'
    <2>1. /\ state' = [x \in Runs |-> IF x \in Hears(r) THEN "sent" ELSE state[x]]
          /\ answered' = IF state[r] = "asking" THEN answered \cup {r} ELSE answered
          /\ UNCHANGED <<stmt, caller, level, unapproved>> /\ dialog' = None
      BY <1>5 DEF Approve
    <2>2. state' \in [Runs -> {"idle", "classifying", "asking", "sent"}]
      BY <1>t, <2>1 DEF RunsTyped
    <2>3. approved' \in [Runs -> BOOLEAN]
      <3>1. approved' = [x \in Runs |-> approved[x] \/ x \in Hears(r)]
        BY <1>5 DEF Approve
      <3>2. \A x \in Runs : (approved[x] \/ x \in Hears(r)) \in BOOLEAN
        OBVIOUS
      <3> QED
        BY <3>1, <3>2, Zenon
    <2>4. answered' \subseteq Runs
      BY <1>t, <2>1 DEF RunsTyped
    <2>5. RunsTyped'
      BY <1>t, <2>1, <2>2, <2>3, <2>4 DEF RunsTyped
    <2>6. ASSUME NEW x \in Runs, state'[x] = "sent"
          PROVE  state[x] = "sent" \/ x \in answered'
      BY <2>1, <2>6 DEF Hears
    <2>7. SentInv'
      BY <1>t, <2>1, <2>6 DEF SentInv
    <2> QED
      BY <1>t, <2>1, <2>5, <2>7 DEF RunsInv
  <1>6. ASSUME NEW r \in Runs, Decline(r) PROVE RunsInv'
    <2>1. Hears(r) \in SUBSET Runs
      BY DEF Hears
    <2>2. End(Hears(r)) /\ dialog' = None /\ unapproved' = unapproved
      BY <1>6 DEF Decline
    <2> QED
      BY <1>t, <2>1, <2>2, EndPoint DEF RunsInv
  <1>7. ASSUME NEW r \in Runs, Timeout(r) PROVE RunsInv'
    <2>1. End({r}) /\ dialog' \in Runs \cup {None, Stale} /\ unapproved' = unapproved
      BY <1>7, <1>t DEF Timeout, RunsTyped
    <2> QED
      BY <1>t, <2>1, EndPoint DEF RunsInv
  <1>8. ASSUME NEW r \in Runs, Execute(r) PROVE RunsInv'
    <2>1. /\ ~NeedsApproval(level[r], stmt[r]) \/ r \in answered
             \/ PreApproved(level[r], caller[r])
      BY <1>8, <1>t DEF Execute, SentInv
    <2>2. unapproved' = FALSE
      BY <1>8, <1>t, <2>1, Zenon DEF Execute
    <2>3. End({r}) /\ dialog' \in Runs \cup {None, Stale}
      BY <1>8, <1>t DEF Execute, RunsTyped
    <2> QED
      BY <1>t, <2>2, <2>3, EndPoint DEF RunsInv
  <1>9. ASSUME CloseStale PROVE RunsInv'
    BY <1>9, <1>t DEF CloseStale, RunsInv, RunsTyped, SentInv
  <1>10. ASSUME \/ \E l \in Picks : SetGlobalLevel(l)
                \/ \E l \in OverrideLevels : SetConnectionOverride(l)
                \/ RemoveConnectionOverride \/ SetConnectionEnvironment
                \/ \E w \in Workspaces : ConfirmFullAccess(w) \/ ConfirmSuspension(w) \/ DropFullAccess(w)
                \/ DeclineSuspension
                \/ \E l \in pushes : Deliver(l)
         PROVE  UNCHANGED run
    BY <1>10 DEF SetGlobalLevel, SetConnectionOverride, RemoveConnectionOverride,
                 SetConnectionEnvironment, ConfirmFullAccess, ConfirmSuspension, DropFullAccess,
                 DeclineSuspension, Deliver
  <1> QED
    BY NextSplit, <1>1, <1>2, <1>3, <1>4, <1>5, <1>6, <1>7, <1>8, <1>9, <1>10

-----------------------------------------------------------------------------
(***************************************************************************)
(* The theorems                                                            *)
(***************************************************************************)
LEMMA InitInv ==
  ASSUME Init
  PROVE  Inv
  <1>1. /\ Default \in Settings /\ Default.global = 1 /\ 1 \in Levels /\ 0 \in Levels
        /\ "user" \in Callers
    BY DEF Default, Settings, Levels, Callers
  <1>2. SettingsTyped
    BY <1>1 DEF Init, SettingsTyped
  <1>3. RunsTyped
    BY <1>1 DEF Init, RunsTyped
  <1>4. unapproved = FALSE
    BY DEF Init
  <1>5. SuspensionIsGranted
    BY DEF Init, SuspensionIsGranted
  <1>6. SentInv
    BY DEF Init, SentInv
  <1> QED
    BY <1>2, <1>3, <1>4, <1>5, <1>6, TypesSplit DEF Inv, ExecutedWasApproved

LEMMA NextInv ==
  ASSUME Inv, [Next]_vars
  PROVE  Inv'
  <1>1. CASE Next
    <2>1. SettingsInv' /\ RunsInv'
      BY <1>1, SettingsStep, RunsStep DEF Inv
    <2>2. TypeOK'
      BY <2>1 DEF SettingsInv, RunsInv, SettingsTyped, RunsTyped, TypeOK
    <2> QED
      BY <2>1, <2>2 DEF Inv, SettingsInv, RunsInv, ExecutedWasApproved
  <1>2. CASE UNCHANGED vars
    BY <1>2 DEF vars, grant, back, run, Inv, TypeOK, SuspensionIsGranted, SentInv,
                ExecutedWasApproved
  <1> QED
    BY <1>1, <1>2

\* The invariant of safeModeStore.ts, the guard and the dialog.
THEOREM Invariance == Spec => []Inv
  <1>1. Init => Inv
    BY InitInv
  <1>2. Inv /\ [Next]_vars => Inv'
    BY NextInv
  <1> QED
    BY <1>1, <1>2, PTL DEF Spec

\* Settings, requests and statements keep their types.
THEOREM TypeCorrect == Spec => []TypeOK
  <1>1. Inv => TypeOK
    BY DEF Inv
  <1> QED
    BY <1>1, Invariance, PTL

\* For any number of statements that wait in the one dialog: what assertQueryAllowed
\* wants approved is executed only after an answer to its own request.
THEOREM ApprovalIsOwn == Spec => []ExecutedWasApproved
  <1>1. Inv => ExecutedWasApproved
    BY DEF Inv
  <1> QED
    BY <1>1, Invariance, PTL

\* For any number of workspaces and levels: resumeSafeModeFromFullAccess and a
\* restart bring back the level the user chose last.
THEOREM SuspensionReturns == Spec => []SuspensionIsGranted
  <1>1. Inv => SuspensionIsGranted
    BY DEF Inv
  <1> QED
    BY <1>1, Invariance, PTL
=============================================================================
