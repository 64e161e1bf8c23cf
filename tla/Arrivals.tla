------------------------------ MODULE Arrivals ------------------------------
(***************************************************************************)
(* What the window says of a record that a highlight rule was watching     *)
(* for, when it arrives in a log nobody is reading: a mark on the log's    *)
(* tab, or a message from the tray, no more often than an interval allows  *)
(* (handleAlerts() and around it in MainWindow.cpp, AlertPolicy.cpp).      *)
(* A log's interval is `quiet' while it runs; the clock is abstracted to   *)
(* the moment it ends.                                                     *)
(***************************************************************************)
EXTENDS FiniteSets, FiniteSetsExt

CONSTANTS
  Watched,    \* logs
  EditorPage, \* model value: the page of a config file
  NoLog       \* model value

VARIABLES
  service,    \* the desktop shows tray messages
  tray,       \* m_tray: the icon is there, and the pump with it
  atHand,     \* logs that are open
  facing,     \* the page in front
  bindsTo,    \* the log the panes hold, activeContext()
  windowUp,   \* isActiveWindow()
  ruleActs,   \* what each log's rules ask for: "tab", "notify"
  unseen,     \* ctx->unseenMatch: the mark on its tab
  pending,    \* ctx->alerts holds matches it has suppressed
  quiet,      \* a message was shown less than an interval ago
  lastNotified,
  owed        \* history: "owed" when news came that was neither read nor told,
              \* "slipped" when it came, or its mark went, behind an editor page
alertVars == <<service, tray, atHand, facing, bindsTo, windowUp, ruleActs, unseen,
               pending, quiet, lastNotified, owed>>

Acts == SUBSET {"tab", "notify"}

ReallyRead(l) == facing = l /\ windowUp

IsBeingRead_(l, b, w) == l = b
IsBeingRead(l, b, w) == l = b /\ w

TrayPresence(open, acts) == service /\ \E l \in open : "notify" \in acts[l]

ArrivalsInit(svc) ==
  /\ service = svc /\ tray = FALSE /\ atHand = {} /\ facing = NoLog /\ bindsTo = NoLog
  /\ windowUp = TRUE /\ ruleActs = [l \in Watched |-> {}]
  /\ unseen = [l \in Watched |-> FALSE] /\ pending = [l \in Watched |-> FALSE]
  /\ quiet = [l \in Watched |-> FALSE] /\ lastNotified = NoLog
  /\ owed = [l \in Watched |-> "no"]

\* A page comes to the front, or the window does: the bound log's mark goes
\* when it counts as read (setActiveView(), changeEvent(), clearUnseenMatch()).
\* `looks' is FALSE where the code does not ask.
Faced(page, w, looks) ==
  LET b == IF page = EditorPage THEN bindsTo ELSE page
  IN /\ facing' = page /\ windowUp' = w /\ bindsTo' = b
     /\ unseen' = [l \in Watched |->
          unseen[l] /\ ~(looks /\ IsBeingRead(l, b, w))]
     /\ owed' = [l \in Watched |->
          IF page = l /\ w THEN "no"
          ELSE IF owed[l] = "owed" /\ page = EditorPage /\ b = l /\ ~unseen'[l] THEN "slipped"
          ELSE owed[l]]

----------------------------------------------------------------------------
(* The reader: opens and closes logs, changes rules, looks elsewhere.      *)

\* A log brings the rules its record holds.  When it is the session that
\* reopens it, the window asks whether one of them wants the tray; when it is
\* the reader, nobody does.
OpenWatched(l, acts, restored) ==
  /\ l \notin atHand /\ (restored => atHand = {} /\ facing = NoLog)
  /\ atHand' = atHand \cup {l}
  /\ ruleActs' = [ruleActs EXCEPT ![l] = acts]
  /\ Faced(l, windowUp, TRUE)
  /\ tray' = IF restored THEN TrayPresence(atHand', ruleActs') ELSE tray
  /\ UNCHANGED <<service, pending, quiet, lastNotified>>

\* onViewDestroyed(), after the bar has raised another page if it was in front.
CloseWatched(l, page) ==
  /\ l \in atHand /\ page \in (atHand \ {l}) \cup {EditorPage, NoLog}
  /\ (facing # l => page = facing) /\ (page = NoLog => atHand = {l})
  /\ atHand' = atHand \ {l}
  /\ ruleActs' = [ruleActs EXCEPT ![l] = {}]
  /\ pending' = [pending EXCEPT ![l] = FALSE] /\ quiet' = [quiet EXCEPT ![l] = FALSE]
  /\ tray' = TrayPresence(atHand', ruleActs')
  /\ lastNotified' = IF tray' /\ lastNotified # l THEN lastNotified ELSE NoLog
  /\ facing' = page
  /\ bindsTo' = IF page \in atHand THEN page ELSE IF bindsTo = l THEN NoLog ELSE bindsTo
  /\ unseen' = [m \in Watched |-> unseen[m] /\ m # l /\
                   ~(page = m /\ page # facing /\ IsBeingRead(m, bindsTo', windowUp))]
  /\ owed' = [m \in Watched |-> IF m = l \/ (m = page /\ windowUp) THEN "no" ELSE owed[m]]
  /\ UNCHANGED <<service, windowUp>>

\* The Highlighters pane edits the bound log's rules.  What was held back for
\* a rule that no longer asks for a message is no longer owed.
EditRules(acts) ==
  /\ bindsTo # NoLog /\ ruleActs[bindsTo] # acts
  /\ ruleActs' = [ruleActs EXCEPT ![bindsTo] = acts]
  /\ tray' = TrayPresence(atHand, ruleActs')
  /\ lastNotified' = IF tray' THEN lastNotified ELSE NoLog
  /\ owed' = [owed EXCEPT ![bindsTo] =
                IF "notify" \notin acts /\ ~unseen[bindsTo] THEN "no" ELSE @]
  /\ UNCHANGED <<service, atHand, facing, bindsTo, windowUp, unseen, pending, quiet>>

\* setActiveView() returns early for the view that is active already, so
\* coming back to it from an editor page asks nothing; the page in front of a
\* window that is not active changes only by a click on a message.
TurnTo(page) ==
  /\ windowUp /\ page \in atHand \cup {EditorPage} /\ page # facing
  /\ Faced(page, TRUE, page # EditorPage /\ page # bindsTo)
  /\ UNCHANGED <<service, tray, atHand, ruleActs, pending, quiet, lastNotified>>

SwitchWindow ==
  /\ Faced(facing, ~windowUp, ~windowUp)
  /\ UNCHANGED <<service, tray, atHand, ruleActs, pending, quiet, lastNotified>>

\* messageClicked: the desktop may refuse to raise the window.
ClickMessage(w) ==
  /\ tray /\ lastNotified # NoLog /\ w \in {windowUp, TRUE}
  /\ Faced(lastNotified, w, lastNotified # bindsTo \/ w # windowUp)
  /\ UNCHANGED <<service, tray, atHand, ruleActs, pending, quiet, lastNotified>>

----------------------------------------------------------------------------
(* The logs.                                                               *)

\* handleAlerts(): one batch that matches some of the log's rules.
MarkedAs_(l, acts) == "tab" \in acts
MarkedAs(l, acts) == "tab" \in acts \/ ("notify" \in acts /\ ~tray)

Arrive(l, acts) ==
  /\ l \in atHand /\ acts # {} /\ acts \subseteq ruleActs[l]
  /\ IF IsBeingRead(l, bindsTo, windowUp)
       THEN /\ owed' = [owed EXCEPT ![l] = IF ReallyRead(l) THEN @ ELSE "slipped"]
            /\ UNCHANGED <<unseen, pending, quiet, lastNotified>>
       ELSE LET rings == "notify" \in acts /\ tray
                shows == rings /\ ~quiet[l]
            IN /\ unseen' = [unseen EXCEPT ![l] = @ \/ MarkedAs(l, acts)]
               /\ pending' = [pending EXCEPT ![l] = (@ \/ rings) /\ ~shows]
               /\ quiet' = [quiet EXCEPT ![l] = @ \/ shows]
               /\ lastNotified' = IF shows THEN l ELSE lastNotified
               /\ owed' = [owed EXCEPT ![l] =
                             IF shows THEN "no" ELSE "owed"]
  /\ UNCHANGED <<service, tray, atHand, facing, bindsTo, windowUp, ruleActs>>

\* The pump: every log that holds something back and is not being read.
Pump ==
  /\ tray
  /\ LET shows == {l \in atHand : pending[l] /\ ~IsBeingRead(l, bindsTo, windowUp) /\ ~quiet[l]}
     IN /\ shows # {}
        /\ pending' = [l \in Watched |-> pending[l] /\ l \notin shows]
        /\ quiet' = [l \in Watched |-> quiet[l] \/ l \in shows]
        /\ lastNotified' \in shows
        /\ owed' = [l \in Watched |-> IF l \in shows /\ owed[l] = "owed" THEN "no" ELSE owed[l]]
  /\ UNCHANGED <<service, tray, atHand, facing, bindsTo, windowUp, ruleActs, unseen>>

IntervalEnds(l) ==
  /\ quiet[l] /\ quiet' = [quiet EXCEPT ![l] = FALSE]
  /\ UNCHANGED <<service, tray, atHand, facing, bindsTo, windowUp, ruleActs, unseen,
                 pending, lastNotified, owed>>

\* A rotation replaces every record: what was owed of them is no more.
Rescan(l) ==
  /\ l \in atHand /\ (pending[l] \/ quiet[l])
  /\ pending' = [pending EXCEPT ![l] = FALSE] /\ quiet' = [quiet EXCEPT ![l] = FALSE]
  /\ owed' = [owed EXCEPT ![l] = IF unseen[l] THEN @ ELSE "no"]
  /\ UNCHANGED <<service, tray, atHand, facing, bindsTo, windowUp, ruleActs, unseen, lastNotified>>

ArrivalsNext ==
  \/ \E l \in Watched, acts \in Acts :
       Arrive(l, acts) \/ \E restored \in BOOLEAN : OpenWatched(l, acts, restored)
  \/ \E l \in Watched, page \in Watched \cup {EditorPage, NoLog} : CloseWatched(l, page)
  \/ \E acts \in Acts : EditRules(acts)
  \/ \E page \in Watched \cup {EditorPage} : TurnTo(page)
  \/ \E w \in BOOLEAN : ClickMessage(w)
  \/ \E l \in Watched : IntervalEnds(l) \/ Rescan(l)
  \/ SwitchWindow \/ Pump

----------------------------------------------------------------------------
(* Properties                                                              *)

AlertTypeOK ==
  /\ facing \in atHand \cup {EditorPage, NoLog} /\ bindsTo \in atHand \cup {NoLog}
  /\ lastNotified \in atHand \cup {NoLog}
  /\ \A l \in Watched \ atHand : ~pending[l] /\ ~unseen[l]

\* News that came to a log while it was not being read, and that no message
\* has told, is marked on its tab or held back for the tray to tell, until the
\* reader turns to it: a desktop without tray messages, a rule that asks for
\* nothing else, the interval and a click the desktop answers without raising
\* the window lose none of it (handleAlerts(): `dropping the event entirely
\* would be the one outcome the user cannot tell from a broken rule').
NewsIsTold ==
  \A l \in Watched : owed[l] = "owed" => unseen[l] \/ (pending[l] /\ tray)

\* Nor does an editor page in front of the log hide it (isBeingRead(): `the
\* right tab AND the window in front').
EditorHidesNoNews == \A l \in Watched : owed[l] # "slipped"

\* While an open log's rules ask for messages and the desktop shows them, the
\* icon is there (updateTrayPresence()).
TrayIsThere == tray = TrayPresence(atHand, ruleActs)

\* A message tells of records not read yet: nothing is held back of a log the
\* reader is at (AlertPolicy.h: `matches a record that arrives while the log is
\* not being looked at').
NothingHeldOfARead == [][Pump => \A l \in Watched : (pending[l] /\ ~pending'[l]) => owed[l] # "no"]_alertVars

ArrivalsSpec == (\E svc \in BOOLEAN : ArrivalsInit(svc)) /\ [][ArrivalsNext]_alertVars
=============================================================================
