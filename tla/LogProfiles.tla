----------------------------- MODULE LogProfiles -----------------------------
(* Which settings a log is read with.  A tree of defaults and file patterns    *)
(* says what a log inherits; a log may have an entry of its own; an open tab   *)
(* reads with the settings it was given and writes them back through one       *)
(* funnel (MainWindow::persistFileSettings).  The Preferences dialog edits a   *)
(* copy of the tree and one log's row, and MainWindow::commitPreferences       *)
(* stores both when it is accepted.                                            *)
(*                                                                             *)
(* A profile is a format and the rest (wrap mode, config file, restart script, *)
(* preset): the two reach a log by different ways.                             *)
EXTENDS Naturals, Sequences, SequencesExt

CONSTANTS
    Logs,         \* the logs the user reads
    Formats,      \* how the bytes of a log may be read,
    Rests,        \* and the rest a node may say
    StoredTrees,  \* the trees the program may find stored when it starts
    PatternIds,   \* the identities of file patterns
    Coverings,    \* the sets of logs a pattern's text may match
    MaxShowings,  \* bounds: how often the dialog is shown,
    MaxGestures,  \* and how many edits are made in one showing of it
    NoProfile,    \* no entry of its own, no dialog, no tab
    Root, File    \* the two nodes of the tree that are not patterns

VARIABLES
    tree,    \* the defaults and the patterns, in order
    own,     \* each log's stored entry, or NoProfile
    tab,     \* each log's open tab, or NoProfile
    front,   \* the log in front, or NoProfile
    dialog,  \* the Preferences dialog, or NoProfile
    asked,   \* the logs somebody has given settings of their own
    shown    \* how often the dialog has been shown

profileVars == <<tree, own, tab, front, dialog, asked, shown>>

Profiles == [format : Formats, rest : Rests]
Trees == [defaults : Profiles,
          patterns : Seq([id : PatternIds, covers : SUBSET Logs,
                          profile : Profiles])]
Nodes == PatternIds \cup {Root, File}
\* An open tab: the format its bytes are read with, the profile of its record, and
\* whether the format waits for bytes and is owed a question when they come.
Tabs  == [format : Formats, base : Profiles \cup {NoProfile},
          settled : BOOLEAN, owed : BOOLEAN]

\* The dialog: why it is shown and for which log, the tree it edits, the log's
\* row and whether it takes what it inherits, the node whose settings are shown,
\* what "Apply" asked for and of which node, and whether the row was given.
Dialogs == [why : {"preferences", "open", "resume"}, log : Logs \cup {NoProfile},
            tree : Trees, row : Profiles, follows : BOOLEAN, node : Nodes,
            apply : Profiles \cup {NoProfile}, applyNode : Nodes,
            touched : BOOLEAN, gestures : Nat]

ASSUME ProfileAssumption ==
    /\ MaxShowings \in Nat /\ MaxGestures \in Nat
    /\ StoredTrees \subseteq Trees /\ Coverings \subseteq SUBSET Logs
    /\ NoProfile \notin Logs \cup Profiles /\ NoProfile \notin Tabs

ProfileTypeOK ==
    /\ tree \in Trees
    /\ own \in [Logs -> Profiles \cup {NoProfile}]
    /\ tab \in [Logs -> Tabs \cup {NoProfile}]
    /\ front \in Logs \cup {NoProfile} /\ (front # NoProfile => tab[front] # NoProfile)
    /\ dialog # NoProfile => dialog \in Dialogs
    /\ shown \in 0..MaxShowings /\ asked \subseteq Logs

-----------------------------------------------------------------------------
(* Resolution. *)

MatchingPattern(t, l) == SelectInSeq(t.patterns, LAMBDA n : l \in n.covers)
Inherited(t, l) == LET i == MatchingPattern(t, l)
                   IN  IF i = 0 THEN t.defaults ELSE t.patterns[i].profile
IndexOf(t, id)  == SelectInSeq(t.patterns, LAMBDA n : n.id = id)

Or(p, q) == IF p = NoProfile THEN q ELSE p

\* What the stores say of a log, whether or not it is open.
Stored(os, t, l) == Or(os[l], Inherited(t, l))

\* What a tab is reading: its own format, over the rest its record or the tree supplies.
Live(e, t, l) == [Or(e.base, Inherited(t, l)) EXCEPT !.format = e.format]

\* An open log is answered from its tab.
ResolvedProfile(l) ==
    IF tab[l] # NoProfile THEN Live(tab[l], tree, l) ELSE Stored(own, tree, l)

\* An entry exists only while it says something the log would not inherit.
Reduced(p, t, l) == IF p = Inherited(t, l) THEN NoProfile ELSE p

\* The funnel: the tab writes back what it reads, if that changes its record or another
\* part of the record (filters, rules, the run) has moved.  The gate compares with
\* the record in the tab, not with the store.
Persisted(os, tabs, t, l, moved) ==
    LET next == Live(tabs[l], t, l)
    IN  IF next = tabs[l].base /\ ~moved THEN [own |-> os, tab |-> tabs]
        ELSE [own |-> [os EXCEPT ![l] = Reduced(next, t, l)],
              tab |-> [tabs EXCEPT ![l].base = next]]

-----------------------------------------------------------------------------
ProfileInit ==
    /\ tree \in StoredTrees
    /\ own = [l \in Logs |-> NoProfile]
    /\ tab = [l \in Logs |-> NoProfile]
    /\ front = NoProfile /\ dialog = NoProfile
    /\ asked = {} /\ shown = 0

Quiet == dialog = NoProfile
MayShow == Quiet /\ shown < MaxShowings

OpenTab(os, l, p, settled) ==
    [format |-> p.format, base |-> os[l], settled |-> settled, owed |-> ~settled]

\* A log is opened and its bytes fit its settings, which are remembered, or it
\* has no bytes yet and its format waits for them.
OpenWithSettings(l, settled) ==
    /\ Quiet /\ tab[l] = NoProfile
    /\ LET tabs == [tab EXCEPT ![l] = OpenTab(own, l, ResolvedProfile(l), settled)]
       IN  \/ /\ settled
              /\ \E moved \in BOOLEAN : LET r == Persisted(own, tabs, tree, l, moved)
                                        IN  own' = r.own /\ tab' = r.tab
           \/ ~settled /\ own' = own /\ tab' = tabs
    /\ front' = l
    /\ UNCHANGED <<tree, dialog, asked, shown>>

CloseTab(l) ==
    /\ Quiet /\ tab[l] # NoProfile
    /\ tab' = [tab EXCEPT ![l] = NoProfile]
    /\ front' \in IF front # l THEN {front}
                  ELSE LET left == {x \in Logs \ {l} : tab[x] # NoProfile}
                       IN  IF left = {} THEN {NoProfile} ELSE left
    /\ UNCHANGED <<tree, own, dialog, asked, shown>>

\* Anything a log remembers has moved: a filter, a rule, a run, another tab.
PersistFileSettings(l) ==
    /\ Quiet /\ tab[l] # NoProfile
    /\ LET r == Persisted(own, tab, tree, l, TRUE)
       IN  own' = r.own /\ tab' = r.tab
    /\ UNCHANGED <<tree, front, dialog, asked, shown>>

BringForward(l) ==
    /\ Quiet /\ front # l /\ tab[l] # NoProfile
    /\ front' = l
    /\ \E moved \in BOOLEAN : LET r == Persisted(own, tab, tree, front, moved)
                              IN  own' = r.own /\ tab' = r.tab
    /\ UNCHANGED <<tree, dialog, asked, shown>>

\* The format of an open log becomes f.
AppliedTo(os, tabs, t, l, f, moved) ==
    Persisted(os, [tabs EXCEPT ![l].format = f], t, l, moved)

\* A format chosen outside the dialog: the timestamp menu.
ApplySettings(f) ==
    /\ Quiet /\ front # NoProfile /\ f # tab[front].format
    /\ \E moved \in BOOLEAN : LET r == AppliedTo(own, tab, tree, front, f, moved)
                              IN  own' = r.own /\ tab' = r.tab
    /\ asked' = asked \cup {front}
    /\ UNCHANGED <<tree, front, dialog, shown>>

\* The rest of p is put into the record of l's tab, and the record persisted.
WithRest(os, tabs, t, l, x, moved) ==
    Persisted(os, [tabs EXCEPT ![l].base = [Live(tabs[l], t, l) EXCEPT !.rest = x]],
              t, l, moved)

\* The wrap mode is set from its menu, or a config file named because none was.
ChooseRest(x) ==
    /\ Quiet /\ front # NoProfile /\ x # ResolvedProfile(front).rest
    /\ \E moved \in BOOLEAN : LET r == WithRest(own, tab, tree, front, x, moved)
                              IN  own' = r.own /\ tab' = r.tab
    /\ asked' = asked \cup {front}
    /\ UNCHANGED <<tree, front, dialog, shown>>

-----------------------------------------------------------------------------
(* The dialog.  Leaving a node commits its editor; so an edit is committed     *)
(* here as it is made, and the log's row is brought in step with its parent    *)
(* only when a node is loaded and when the dialog is accepted.                 *)

WithRow(d, l, p) ==
    [d EXCEPT !.row = p, !.follows = (p = Inherited(d.tree, l))]

SyncFileRowToParent(d) ==
    IF d.log = NoProfile THEN d
    ELSE LET p == Inherited(d.tree, d.log)
         IN  IF d.follows THEN [d EXCEPT !.row = p]
             ELSE [d EXCEPT !.follows = (d.row = p)]

LoadNode(d, node) == [SyncFileRowToParent(d) EXCEPT !.node = node]

Shown(why, l, row) ==
    LET d == [why |-> why, log |-> l, tree |-> tree, row |-> row,
              follows |-> FALSE, node |-> Root, apply |-> NoProfile,
              applyNode |-> Root, touched |-> FALSE, gestures |-> 0]
    IN  IF l = NoProfile THEN LoadNode(d, Root) ELSE LoadNode(WithRow(d, l, row), File)

ShowPreferences ==
    /\ MayShow /\ shown' = shown + 1
    /\ dialog' = IF front = NoProfile THEN Shown("preferences", NoProfile, tree.defaults)
                 ELSE Shown("preferences", front, Or(own[front], ResolvedProfile(front)))
    /\ UNCHANGED <<tree, own, tab, front, asked>>

\* The row of a log whose format does not fit is seeded with the detected format f; an
\* entry the log already has wins over the seed.
Offered(why, l, f) == Shown(why, l, Or(own[l], [ResolvedProfile(l) EXCEPT !.format = f]))

\* An open whose bytes do not fit shows the dialog first.
OfferFormat(l, f) ==
    /\ MayShow /\ shown' = shown + 1 /\ tab[l] = NoProfile
    /\ dialog' = Offered("open", l, f)
    /\ UNCHANGED <<tree, own, tab, front, asked>>

\* A log that opened with no bytes has them now.  If it is owed a dialog, is in
\* front and does not fit, it asks; if it fits its settings are remembered.
ResumeOrSettle(l, fits, f) ==
    /\ Quiet /\ tab[l] # NoProfile /\ ~tab[l].settled
    /\ LET tabs == [tab EXCEPT ![l] = [@ EXCEPT !.settled = TRUE, !.owed = FALSE]]
           asks == ~fits /\ tab[l].owed /\ front = l
       IN  /\ \/ /\ fits
                 /\ \E moved \in BOOLEAN : LET r == Persisted(own, tabs, tree, l, moved)
                                           IN  own' = r.own /\ tab' = r.tab
              \/ ~fits /\ own' = own /\ tab' = tabs
           /\ asks => MayShow
           /\ dialog' = IF asks THEN Offered("resume", l, f) ELSE dialog
           /\ shown' = IF asks THEN shown + 1 ELSE shown
    /\ UNCHANGED <<tree, front, asked>>

Gesture == dialog # NoProfile /\ dialog.gestures < MaxGestures
Made(d) == /\ dialog' = [d EXCEPT !.gestures = @ + 1]
           /\ UNCHANGED <<tree, own, tab, front, asked, shown>>

SelectNode(node) ==
    /\ Gesture /\ node # dialog.node
    /\ \/ node = Root
       \/ node = File /\ dialog.log # NoProfile
       \/ node \in PatternIds /\ IndexOf(dialog.tree, node) # 0
    /\ Made(LoadNode(dialog, node))

\* The loaded node's profile is edited, and a pattern's text.
EditNode(p, covers) ==
    /\ Gesture
    /\ LET i == IndexOf(dialog.tree, dialog.node)
       IN  Made(IF dialog.node = Root THEN [dialog EXCEPT !.tree.defaults = p]
                ELSE IF dialog.node = File
                THEN [WithRow(dialog, dialog.log, p) EXCEPT !.touched = TRUE]
                ELSE [dialog EXCEPT !.tree.patterns[i] =
                          [@ EXCEPT !.profile = p, !.covers = covers]])

AddPattern(id) ==
    /\ Gesture /\ IndexOf(dialog.tree, id) = 0
    /\ LET p == IF dialog.node = File THEN dialog.row ELSE dialog.tree.defaults
           n == [id |-> id, covers |-> {}, profile |-> p]
       IN  Made(LoadNode([dialog EXCEPT !.tree.patterns = Append(@, n)], id))

DeleteNode ==
    /\ Gesture /\ dialog.node # Root
    /\ Made(IF dialog.node = File
            THEN LoadNode(WithRow(dialog, dialog.log,
                              Inherited(dialog.tree, dialog.log)), File)
            ELSE LoadNode([dialog EXCEPT !.tree.patterns =
                          RemoveAt(@, IndexOf(dialog.tree, dialog.node))], Root))

MovePatternUp ==
    /\ Gesture /\ IndexOf(dialog.tree, dialog.node) > 1
    /\ LET i == IndexOf(dialog.tree, dialog.node)
       IN  Made(LoadNode([dialog EXCEPT !.tree.patterns =
                         [@ EXCEPT ![i] = dialog.tree.patterns[i - 1],
                                   ![i - 1] = dialog.tree.patterns[i]]],
                     dialog.node))

UseSettingsFor(id) ==
    /\ Gesture /\ dialog.log # NoProfile /\ IndexOf(dialog.tree, id) # 0
    /\ LET p == dialog.tree.patterns[IndexOf(dialog.tree, id)].profile
       IN  Made(LoadNode([WithRow(dialog, dialog.log, p) EXCEPT !.touched = TRUE],
                     File))

PromoteToParent ==
    /\ Gesture
    /\ LET i == IndexOf(dialog.tree, dialog.node)
           m == MatchingPattern(dialog.tree, dialog.log)
       IN  \/ /\ i # 0
              /\ Made(LoadNode([dialog EXCEPT !.tree.defaults =
                                dialog.tree.patterns[i].profile], dialog.node))
           \/ /\ dialog.node = File /\ m # 0
              /\ Made(LoadNode([dialog EXCEPT !.tree.patterns[m].profile = dialog.row],
                           dialog.tree.patterns[m].id))

ProfileOf(d, node) ==
    IF node = Root THEN d.tree.defaults
    ELSE IF node = File THEN d.row
    ELSE LET i == IndexOf(d.tree, node)
         IN  IF i = 0 THEN d.apply ELSE d.tree.patterns[i].profile

\* "Apply to current file": asks for the loaded node, or takes the request back.
ApplyToCurrent ==
    /\ Gesture /\ dialog.why = "preferences" /\ dialog.log # NoProfile
    /\ Made(IF dialog.apply # NoProfile /\ dialog.applyNode = dialog.node
            THEN [dialog EXCEPT !.apply = NoProfile, !.applyNode = Root]
            ELSE [dialog EXCEPT !.apply = ProfileOf(dialog, dialog.node),
                                !.applyNode = dialog.node])

Reject ==
    /\ dialog # NoProfile
    /\ dialog' = NoProfile
    /\ UNCHANGED <<tree, own, tab, front, asked, shown>>

-----------------------------------------------------------------------------
(* Accepting. *)

\* What the dialog says on its way out.
Final(d) ==
    LET s == SyncFileRowToParent(d)
    IN  IF s.apply = NoProfile THEN s
        ELSE [s EXCEPT !.apply = ProfileOf(s, s.applyNode)]

\* A sweep that drops what equals the defaults, whatever pattern covers the log.
PrunedAgainstDefaults(os, t) ==
    IF t = tree THEN os
    ELSE [l \in Logs |-> IF os[l] = t.defaults THEN NoProfile ELSE os[l]]

\* The sweep: when the tree moved, entries that fell into line are dropped.
Pruned(os, t) ==
    IF t = tree THEN os
    ELSE [l \in Logs |-> IF os[l] = NoProfile THEN NoProfile
                         ELSE Reduced(os[l], t, l)]

\* The tree is stored, the pool swept, and the log's own row stored last.
Committed(d) ==
    LET fileProfile == Reduced(d.row, d.tree, d.log)
        swept       == Pruned(own, d.tree)
    IN  IF d.log = NoProfile THEN [own |-> swept, tab |-> tab]
        ELSE [own |-> [swept EXCEPT ![d.log] = fileProfile],
              tab |-> IF tab[d.log] = NoProfile THEN tab
                      ELSE [tab EXCEPT ![d.log].base = fileProfile]]

\* An "Apply" that leaves out a setting it has no line for: the rest stays as it was.
AppliedFormatOnly(c, t, l, p, moved) == AppliedTo(c.own, c.tab, t, l, p.format, moved)

\* "Apply": the rest goes into the tab's record first, so that the funnel's gate finds
\* nothing to write; then the log is read with the format, which is stored if it differs.
AppliedProfile(c, t, l, p, moved) ==
    LET r == WithRest(c.own, c.tab, t, l, p.rest, moved)
    IN  AppliedTo(r.own, r.tab, t, l, p.format, FALSE)

AcceptPreferences ==
    /\ dialog # NoProfile /\ dialog.why = "preferences"
    /\ \E moved \in BOOLEAN :
       LET d == Final(dialog)
           c == Committed(d)
           l == d.log
           wanted == IF d.apply # NoProfile THEN d.apply ELSE Stored(c.own, d.tree, l)
           r == IF l = NoProfile THEN c
                ELSE IF d.apply = NoProfile /\ wanted = Live(c.tab[l], d.tree, l) THEN c
                ELSE AppliedProfile(c, d.tree, l, wanted, moved)
       IN  /\ own' = r.own /\ tab' = r.tab /\ tree' = d.tree
           /\ asked' = IF l # NoProfile /\ (d.touched \/ d.apply # NoProfile)
                       THEN asked \cup {l} ELSE asked
    /\ dialog' = NoProfile
    /\ UNCHANGED <<front, shown>>

\* The answer to an open that did not fit: the log opens with what the stores
\* now say of it.
AcceptOpen ==
    /\ dialog # NoProfile /\ dialog.why = "open"
    /\ LET d == Final(dialog)
           c == Committed(d)
           l == d.log
           p == Stored(c.own, d.tree, l)
           tabs == [c.tab EXCEPT ![l] = OpenTab(c.own, l, p, TRUE)]
       IN  /\ \E moved \in BOOLEAN : LET r == Persisted(c.own, tabs, d.tree, l, moved)
                                     IN  own' = r.own /\ tab' = r.tab
           /\ tree' = d.tree
           /\ front' = l /\ asked' = asked \cup {l}
    /\ dialog' = NoProfile
    /\ UNCHANGED shown

\* The answer to the deferred question: the log is open, so its settings are
\* resolved from its tab, and the format of its tab is applied to it.
AcceptResume ==
    /\ dialog # NoProfile /\ dialog.why = "resume"
    /\ LET d == Final(dialog)
           c == Committed(d)
       IN  /\ \E moved \in BOOLEAN :
                  LET r == AppliedTo(c.own, c.tab, d.tree, d.log, tab[d.log].format, moved)
                  IN  own' = r.own /\ tab' = r.tab
           /\ tree' = d.tree
           /\ asked' = asked \cup {d.log}
    /\ dialog' = NoProfile
    /\ UNCHANGED <<front, shown>>

ProfileNext ==
    \/ ShowPreferences \/ DeleteNode \/ MovePatternUp \/ PromoteToParent
    \/ ApplyToCurrent \/ Reject \/ AcceptPreferences \/ AcceptOpen \/ AcceptResume
    \/ \E l \in Logs :
        \/ CloseTab(l) \/ PersistFileSettings(l) \/ BringForward(l)
        \/ \E settled \in BOOLEAN : OpenWithSettings(l, settled)
        \/ \E f \in Formats : \/ OfferFormat(l, f)
                              \/ \E fits \in BOOLEAN : ResumeOrSettle(l, fits, f)
    \/ \E f \in Formats : ApplySettings(f)
    \/ \E x \in Rests : ChooseRest(x)
    \/ \E p \in Profiles, covers \in Coverings : EditNode(p, covers)
    \/ \E n \in Nodes : SelectNode(n)
    \/ \E id \in PatternIds : AddPattern(id) \/ UseSettingsFor(id)

ProfileSpec == ProfileInit /\ [][ProfileNext]_profileVars

-----------------------------------------------------------------------------
Accepted(why) == dialog # NoProfile /\ dialog.why = why /\ dialog' = NoProfile
                 /\ <<tree, own, tab, front, asked>>'
                    # <<tree, own, tab, front, asked>>

(* Preferences accepted, and the question of an open answered: the log is read *)
(* with exactly what its row showed, or with the node whose settings were      *)
(* asked for; and where nothing was asked for, what is stored says the row     *)
(* too, so the log opens with it the next time                                 *)
(* (MainWindow::showPreferences: OK alone applies).                            *)
AnswerIsRead ==
    [][\A l \in Logs :
         (Accepted("preferences") \/ Accepted("open")) /\ dialog.log = l =>
           LET d == Final(dialog)
           IN  /\ ResolvedProfile(l)' = Or(d.apply, d.row)
               /\ d.apply = NoProfile => Stored(own, tree, l)' = d.row]_profileVars

(* "Apply" reads the log with another entry "without committing that log to    *)
(* them" (SPEC.md): what is stored of the log still says its row.              *)
ApplyCommitsNothing ==
    [][\A l \in Logs :
         Accepted("preferences") /\ dialog.log = l /\ dialog.apply # NoProfile =>
           Stored(own, tree, l)' = Final(dialog).row]_profileVars

(* A wrap mode chosen for a log, and a config file named for it, are           *)
(* "remembered for this log, so it opens the same way next time" (setWrap).    *)
GestureIsRemembered ==
    [][\A x \in Rests, l \in Logs :
         ChooseRest(x) /\ front = l => Stored(own, tree, l)'.rest = x]_profileVars

(* The same of the question a log asks when its bytes arrive later             *)
(* (openWithSettings: the prompt this open could not raise, deferred to the    *)
(* first resume that has bytes).                                               *)
DeferredAnswerIsRead ==
    [][\A l \in Logs : Accepted("resume") /\ dialog.log = l =>
         ResolvedProfile(l)' = Final(dialog).row]_profileVars

(* A log that was given settings of its own is never moved by an edit of the   *)
(* tree: it keeps resolving to them, with its entry or without                 *)
(* (LogFileStore::pruneAgainst).                                               *)
SweepKeepsMeaning ==
    [][\A l \in Logs :
         (/\ dialog # NoProfile /\ l # dialog.log /\ tree' # tree
          /\ own[l] # NoProfile)
         => Or(own'[l], Inherited(tree', l)) = own[l]]_profileVars

(* A log gets an entry of its own only when somebody asks for it (SPEC.md).     *)
OnlyAskedEntries == \A l \in Logs : own[l] # NoProfile => l \in asked
=============================================================================
