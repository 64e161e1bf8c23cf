----------------------------- MODULE FilterBench -----------------------------
(* The one Filters pane of a window and the logs it is bound to in turn: the   *)
(* tabs, the state the pane shows, what each open log keeps of it (its stash,  *)
(* its record, the filters of its document, its undo history), the record on   *)
(* disk, and the edit the pane defers when a pass is slow (FilterPane,         *)
(* FilterUndoStack, MainWindow's setActiveView, persistFileSettings and the    *)
(* handlers that open, close and re-bind logs).                                *)
(*                                                                             *)
(* A filter state is a value.  A tab is a view of a log, <<log, number>>, or   *)
(* the page of a config editor, which leaves the bound log where it was.       *)
EXTENDS Naturals, Sequences, FiniteSets, SequencesExt

CONSTANTS FLogs,       \* the logs that may be opened
          States,      \* the states of the pane
          Unfiltered,  \* the pane's defaults
          ViewsPerLog, \* bound: views of one log
          MaxDepth,    \* FilterUndoStack::kMaxDepth
          MaxActs,     \* bound: what the reader does
          NoLog, NoView, Editor

ASSUME BenchAssumption ==
    /\ Unfiltered \in States /\ NoLog \notin FLogs
    /\ NoView # Editor /\ {NoView, Editor} \cap (FLogs \X Nat) = {}
    /\ {ViewsPerLog, MaxDepth} \subseteq Nat \ {0} /\ MaxActs \in Nat

VARIABLES tabs,     \* the pages of the well
          front,    \* the page in front
          active,   \* m_activeView
          ctx,      \* of each log, what its context holds; of a closed one, nothing of use
          pane,     \* m_document, the controls, m_applyTimer, and whether a pass is slow
          disk,     \* the log's record
          turn,     \* where setActiveView stands: the handlers of one gesture
          wish,     \* history: what the reader last asked of the log
          astray,   \* history: logs whose pane was left bound to nothing, or whose edit was dropped
          acts      \* bound

benchVars == <<tabs, front, active, ctx, pane, disk, turn, wish, astray, acts>>

Quiet     == "none"
Views(l)  == {v \in tabs : v # Editor /\ v[1] = l}
IsOpen(l) == Views(l) # {}
LogOf(v)  == IF v \in {NoView, Editor} THEN NoLog ELSE v[1]
ActiveLog == LogOf(active)
Fresh(s)  == [stash |-> s, file |-> s, doc |-> Unfiltered, shown |-> Unfiltered,
              undo |-> <<>>, redo |-> <<>>, base |-> Unfiltered, have |-> FALSE, cont |-> FALSE]
-----------------------------------------------------------------------------
(* The undo history of one context c.                                        *)

Pushed(s, x) == LET t == Append(s, x) IN IF Len(t) > MaxDepth THEN Tail(t) ELSE t

Record(c, s, continuous) ==
    LET merge == continuous /\ c.cont /\ c.undo # <<>>
    IN IF ~c.have THEN [c EXCEPT !.base = s, !.have = TRUE, !.cont = continuous]
       ELSE IF s = c.base THEN c
       ELSE [c EXCEPT !.undo = IF merge THEN @ ELSE Pushed(@, c.base), !.redo = <<>>,
                      !.base = s, !.cont = continuous]

Settle(c, s) == [c EXCEPT !.base = s, !.have = TRUE, !.cont = FALSE]

Undone(c) == [c EXCEPT !.redo = Append(@, c.base), !.undo = Front(@), !.base = Last(c.undo),
                       !.cont = FALSE]
Redone(c) == [c EXCEPT !.undo = Append(@, c.base), !.redo = Front(@), !.base = Last(c.redo),
                       !.cont = FALSE]
-----------------------------------------------------------------------------
(* What one function leaves of the window: w is [ctx, pane, disk].           *)

(* persistFileSettings: the pane's state for the active log, the stash for any
   other, and nothing written when it says what it said. *)
Persist(w, l, on) ==
    LET s == IF l = on THEN w.pane.state ELSE w.ctx[l].stash
    IN IF l = NoLog \/ s = w.ctx[l].file THEN w
       ELSE [w EXCEPT !.ctx[l].file = s, !.disk[l] = s]

(* FilterPane::applyToDocument. *)
ApplyToDocument(w) ==
    IF w.pane.log = NoLog THEN w ELSE [w EXCEPT !.ctx[w.pane.log].doc = w.pane.state]

ApplyFiltersFor(w, l) == IF l = NoLog THEN w ELSE [w EXCEPT !.ctx[l].shown = w.ctx[l].doc]

(* FilterPane::applyNow and, inside it, MainWindow::applyActiveFilters for the
   active log `on`; `rebind` is m_filterRebind. *)
ApplyNow(w, on, rebind, continuous, slow) ==
    LET a == ApplyToDocument([w EXCEPT !.pane.pending = FALSE])
        p == Persist(ApplyFiltersFor(a, on), on, on)
        r == IF on = NoLog \/ rebind THEN p
             ELSE [p EXCEPT !.ctx[on] = Record(@, p.pane.state, continuous)]
    IN [r EXCEPT !.pane.slow = slow]

RestoreState(w, s, on, rebind) == ApplyNow([w EXCEPT !.pane.state = s], on, rebind, FALSE, FALSE)

StashPaneState(w, l, on) ==
    IF l = NoLog THEN w ELSE Persist([w EXCEPT !.ctx[l].stash = w.pane.state], l, on)

(* FilterPane::setDocument: a deferred edit lands on the log it was made on. *)
SetDocument(w, l, on, rebind) ==
    LET f == IF w.pane.pending THEN ApplyNow(w, on, rebind, FALSE, FALSE) ELSE w
    IN ApplyToDocument([f EXCEPT !.pane.log = l, !.pane.slow = FALSE])

(* FilterPane::documentClosing: it is dropped with the log. *)
DocumentClosing(w, l) ==
    IF w.pane.log # l THEN w ELSE [w EXCEPT !.pane.log = NoLog, !.pane.pending = FALSE]

World == [ctx |-> ctx, pane |-> pane, disk |-> disk]
Become(w) == ctx' = w.ctx /\ pane' = w.pane /\ disk' = w.disk
-----------------------------------------------------------------------------
BenchInit ==
    /\ tabs = {} /\ front = NoView /\ active = NoView
    /\ ctx = [l \in FLogs |-> Fresh(Unfiltered)]
    /\ pane = [log |-> NoLog, state |-> Unfiltered, pending |-> FALSE, slow |-> FALSE]
    /\ disk = [l \in FLogs |-> Unfiltered] /\ wish = disk
    /\ turn = Quiet /\ astray = {} /\ acts = 0

Act == turn = Quiet /\ acts < MaxActs /\ acts' = acts + 1
-----------------------------------------------------------------------------
(* setActiveView: m_activeView moves first; when the log changes, the pane of   *)
(* the outgoing one is stashed, the pane is bound to the incoming one, and its  *)
(* state is put back.  A crash may come between the three.                      *)

(* Mutant: the outgoing log is not stashed. *)
NotStashed(w, view) ==
    /\ active' = view
    /\ IF LogOf(view) = ActiveLog THEN Become(w) /\ turn' = Quiet
       ELSE Become(w) /\ turn' = "bind"

(* The stash, in the world w. *)
SetActiveView(w, view) ==
    /\ active' = view
    /\ IF LogOf(view) = ActiveLog THEN Become(w) /\ turn' = Quiet
       ELSE /\ Become(StashPaneState(w, ActiveLog, LogOf(view)))
            /\ turn' = "bind"

Bind == /\ turn = "bind"
        /\ Become(SetDocument(World, ActiveLog, ActiveLog, TRUE))
        /\ turn' = IF ActiveLog = NoLog THEN Quiet ELSE "hydrate"
        /\ UNCHANGED <<tabs, front, active, wish, astray, acts>>

Hydrate ==
    /\ turn = "hydrate"
    /\ LET w == RestoreState(World, ctx[ActiveLog].stash, ActiveLog, TRUE)
       IN Become([w EXCEPT !.ctx[ActiveLog] = Settle(@, w.pane.state)])
    /\ turn' = Quiet
    /\ UNCHANGED <<tabs, front, active, wish, astray, acts>>
-----------------------------------------------------------------------------
(* The tabs.                                                                 *)

Open(l) ==
    /\ Act /\ ~IsOpen(l)
    /\ tabs' = tabs \cup {<<l, 1>>} /\ front' = <<l, 1>>
    /\ SetActiveView([World EXCEPT !.ctx[l] = Fresh(disk[l])], <<l, 1>>)
    /\ wish' = [wish EXCEPT ![l] = IF l \in astray THEN disk[l] ELSE @]
    /\ astray' = astray \ {l}

(* A second view of the log in front. *)
NewView(i) ==
    /\ Act /\ ActiveLog # NoLog /\ i \in 1..ViewsPerLog
    /\ LET v == <<ActiveLog, i>>
       IN v \notin tabs /\ tabs' = tabs \cup {v} /\ front' = v /\ SetActiveView(World, v)
    /\ UNCHANGED <<wish, astray>>

OpenEditor == /\ Act /\ ActiveLog # NoLog /\ Editor \notin tabs
              /\ tabs' = tabs \cup {Editor} /\ front' = Editor
              /\ UNCHANGED <<active, ctx, pane, disk, turn, wish, astray>>

(* The page comes to the front: of an editor, the bound log stays. *)
Raise(w, page) == /\ front' = page
                  /\ IF page = Editor
                     THEN Become(w) /\ UNCHANGED active /\ turn' = Quiet
                     ELSE SetActiveView(w, page)

Click(page) == /\ Act /\ page \in tabs /\ page # front
               /\ Raise(World, page) /\ UNCHANGED <<tabs, wish, astray>>

CloseEditor(next) ==
    /\ Act /\ Editor \in tabs /\ tabs' = tabs \ {Editor}
    /\ IF front = Editor
       THEN (IF tabs' = {} THEN next = NoView ELSE next \in tabs') /\ Raise(World, next)
       ELSE next = front /\ Raise(World, next)
    /\ UNCHANGED <<wish, astray>>

(* What the end of a view leaves: of its log, when it was the last, nothing. *)
OnViewDestroyed(w, l) == IF \E u \in tabs' : LogOf(u) = l THEN w ELSE DocumentClosing(w, l)

(* A view is closed.  Another page comes to the front while the view is still
   whole, and then it goes, and its log with the last of its views. *)
CloseView(v, next) ==
    /\ Act /\ v \in tabs /\ v # Editor /\ tabs' = tabs \ {v}
    /\ IF front # v THEN next = front ELSE IF tabs' = {} THEN next = NoView ELSE next \in tabs'
    /\ LET l == LogOf(v)
       IN IF next = Editor /\ active = v
          THEN (* the editor leaves m_activeView on the view, which then dies *)
               /\ active' = NoView /\ front' = next /\ turn' = Quiet
               /\ Become(OnViewDestroyed(World, l))
               /\ astray' = IF pane'.log = NoLog /\ ~pane.pending THEN astray ELSE astray \cup {l}
          ELSE /\ front' = next
               /\ IF next = Editor THEN Become(World) /\ UNCHANGED <<active, turn>>
                  ELSE SetActiveView(World, next)
               /\ UNCHANGED astray
    /\ UNCHANGED wish

(* Everything at once: nothing is raised on the way, and a deferred edit is
   dropped with its log. *)
CloseAll ==
    /\ Act /\ tabs # {}
    /\ tabs' = {} /\ front' = NoView /\ active' = NoView /\ turn' = Quiet
    /\ Become([World EXCEPT !.pane.log = NoLog, !.pane.pending = FALSE, !.pane.slow = FALSE])
    /\ astray' = IF pane.pending THEN astray \cup {pane.log} ELSE astray
    /\ UNCHANGED wish

(* A quit saves the session first, which stashes and persists. *)
Persisted(w, ls) == [w EXCEPT !.ctx = [l \in FLogs |-> IF l \in ls THEN [w.ctx[l] EXCEPT !.file = w.ctx[l].stash]
                                                       ELSE w.ctx[l]],
                              !.disk = [l \in FLogs |-> IF l \in ls THEN w.ctx[l].stash ELSE w.disk[l]]]
Quit ==
    /\ Act /\ tabs # {}
    /\ LET w == StashPaneState(World, ActiveLog, ActiveLog)
       IN Become([Persisted(w, {l \in FLogs : IsOpen(l)}) EXCEPT
                     !.pane = [log |-> NoLog, state |-> Unfiltered, pending |-> FALSE, slow |-> FALSE]])
    /\ tabs' = {} /\ front' = NoView /\ active' = NoView /\ turn' = Quiet
    /\ UNCHANGED <<wish, astray>>

(* The process dies: the records are what is left, and a deferred edit is lost. *)
Crash ==
    /\ acts < MaxActs /\ acts' = acts + 1 /\ tabs # {}
    /\ tabs' = {} /\ front' = NoView /\ active' = NoView /\ turn' = Quiet
    /\ pane' = [log |-> NoLog, state |-> Unfiltered, pending |-> FALSE, slow |-> FALSE]
    /\ astray' = (IF pane.pending THEN {pane.log} ELSE {})
                   \cup (IF turn = Quiet THEN astray ELSE astray \cup {ActiveLog})
    /\ UNCHANGED <<ctx, disk, wish>>
-----------------------------------------------------------------------------
(* Editing.                                                                  *)

(* One change of a control: applied at once, or deferred when the last pass was
   slow.  `continuous` is typing, or holding a spinner. *)
Edit(s, continuous, slow) ==
    /\ Act /\ pane.log # NoLog /\ s # pane.state
    /\ LET w == [World EXCEPT !.pane.state = s]
       IN Become(IF pane.slow THEN [w EXCEPT !.pane.pending = TRUE]
                 ELSE ApplyNow(w, ActiveLog, FALSE, continuous, slow))
    /\ wish' = [wish EXCEPT ![pane.log] = s]
    /\ UNCHANGED <<tabs, front, active, turn, astray>>

Debounce(continuous, slow) ==
    /\ turn = Quiet /\ pane.pending
    /\ Become(ApplyNow(World, ActiveLog, FALSE, continuous, slow))
    /\ UNCHANGED <<tabs, front, active, turn, wish, astray, acts>>

(* The focus moves: a run of typing ends. *)
BreakRun == /\ turn = Quiet /\ ActiveLog # NoLog /\ ctx[ActiveLog].cont
            /\ ctx' = [ctx EXCEPT ![ActiveLog].cont = FALSE]
            /\ UNCHANGED <<tabs, front, active, pane, disk, turn, wish, astray, acts>>

(* Mutant: the restore of an undo is recorded as an edit. *)
HistoryRecorded(back) ==
    LET l == ActiveLog
        c == IF back THEN Undone(ctx[l]) ELSE Redone(ctx[l])
    IN RestoreState([World EXCEPT !.ctx[l] = ctx[l]], c.base, l, FALSE)

(* What Escape and Shift+Escape leave. *)
History(back) ==
    LET l == ActiveLog
        c == IF back THEN Undone(ctx[l]) ELSE Redone(ctx[l])
        w == RestoreState([World EXCEPT !.ctx[l] = c], c.base, l, TRUE)
    IN [w EXCEPT !.ctx[l] = [Settle(@, w.pane.state) EXCEPT !.stash = w.pane.state]]

Walk(back) ==
    /\ Act /\ front # Editor /\ ActiveLog # NoLog
    /\ IF back THEN ctx[ActiveLog].undo # <<>> ELSE ctx[ActiveLog].redo # <<>>
    /\ Become(History(back))
    /\ wish' = [wish EXCEPT ![ActiveLog] = pane'.state]
    /\ UNCHANGED <<tabs, front, active, turn, astray>>
-----------------------------------------------------------------------------
(* What the log's own life does to its filters.                              *)

(* Names turned up in a scan or a tick: the lists of the pane are refreshed. *)
Discovered ==
    /\ turn = Quiet /\ ActiveLog # NoLog /\ pane.pending
    /\ Become(ApplyToDocument(World))
    /\ UNCHANGED <<tabs, front, active, turn, wish, astray, acts>>

(* A scan ended: the view is made anew where anything restricts it. *)
Scanned(l) ==
    /\ Act /\ IsOpen(l)
    /\ LET w == IF l = ActiveLog THEN ApplyToDocument(World) ELSE World
       IN Become(IF w.ctx[l].doc = Unfiltered THEN w ELSE ApplyFiltersFor(w, l))
    /\ UNCHANGED <<tabs, front, active, turn, wish, astray>>

(* The log is given another format: the pane is bound to it anew. *)
Reformatted(continuous) ==
    /\ Act /\ ActiveLog # NoLog
    /\ LET l == ActiveLog
           s == SetDocument(StashPaneState(World, l, l), l, l, FALSE)
       IN Become(ApplyNow([s EXCEPT !.pane.state = s.ctx[l].stash], l, FALSE, continuous, FALSE))
    /\ UNCHANGED <<tabs, front, active, turn, wish, astray>>
-----------------------------------------------------------------------------
BenchNext ==
    \/ Bind \/ Hydrate \/ OpenEditor \/ CloseAll \/ Quit \/ Crash \/ BreakRun \/ Discovered
    \/ \E l \in FLogs : Open(l) \/ Scanned(l)
    \/ \E i \in 2..ViewsPerLog : NewView(i)
    \/ \E p \in tabs : Click(p)
    \/ \E n \in tabs \cup {NoView} : CloseEditor(n) \/ \E v \in tabs : CloseView(v, n)
    \/ \E s \in States, b, c \in BOOLEAN : Edit(s, b, c)
    \/ \E b, c \in BOOLEAN : Debounce(b, c)
    \/ \E b \in BOOLEAN : Walk(b) \/ Reformatted(b)

BenchSpec == BenchInit /\ [][BenchNext]_benchVars
-----------------------------------------------------------------------------
(* Of the log the pane is bound to, the controls, once no edit is waiting, are *)
(* what its document filters by, what its rows were made with, what its record *)
(* and its history say, and what the reader last asked; of another open log,   *)
(* its stash and its record are; of a closed one, its record is.               *)
EachLogKeepsItsFilters ==
    turn = Quiet =>
      \A l \in FLogs \ astray :
        IF ~IsOpen(l) THEN disk[l] = wish[l]
        ELSE IF l # ActiveLog THEN {ctx[l].stash, ctx[l].file, disk[l]} = {wish[l]}
        ELSE /\ pane.log = l /\ pane.state = wish[l]
             /\ ~pane.pending => {ctx[l].doc, ctx[l].shown, ctx[l].file, ctx[l].base, disk[l]}
                                   = {wish[l]}

(* The line of states a log's history stands on, with the present among them.  *)
Line(c) == c.undo \o <<c.base>> \o Reverse(c.redo)

(* Escape and Shift+Escape move along what the reader did to that log, and     *)
(* leave it as it was; nothing but a change of his that the history has not    *)
(* yet seen alters it: not a tab switch, a scan, another format or the restore *)
(* itself (FilterUndoStack.h: settle, m_filterRebind).                         *)
HistoryIsTheReaders ==
    [][\A l \in FLogs \ astray : IsOpen(l) /\ ctx[l].have /\ Line(ctx'[l]) # Line(ctx[l])
          => ctx[l].base # wish'[l] /\ ~\E b \in BOOLEAN : Walk(b)]_benchVars

(* By hand: no log is excepted (SPEC.md: "the filters themselves are          *)
(* remembered").                                                              *)
EveryLogIsRemembered == turn = "none" => \A l \in FLogs : IsOpen(l) \/ disk[l] = wish[l]

(* By hand: what Escape takes back is the last thing the reader did.          *)
EscapeTakesBackTheLast == [][Walk(TRUE) => pane.state = ctx[ActiveLog].base]_benchVars

(* By hand: a log's record holds a state of that log whenever the process     *)
(* dies (MainWindow.cpp, persistFileSettings: "the pane only where it is this *)
(* log's").                                                                   *)
RecordIsOfItsLog == \A l \in FLogs : turn # "none" => disk[l] = wish[l]
=============================================================================
