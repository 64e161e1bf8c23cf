----------------------------- MODULE WindowTabs -----------------------------
(***************************************************************************)
(* The tab bar of a window, the log its panes are bound to, its pane       *)
(* layout, and the session that carries all three over a quit.             *)
(* Two kinds of page share the bar: views of logs, several of one log if   *)
(* the reader likes, and editors of config files.  An editor in front      *)
(* leaves the panes bound to the log that was in front before it.          *)
(* (MainWindow.cpp, SessionStore.cpp; the pages themselves are modelled    *)
(* elsewhere, a page's columns or chosen syntax is here one `look'.)       *)
(***************************************************************************)
EXTENDS Integers, Sequences, FiniteSets, SequencesExt

CONSTANTS
  Files,       \* addresses of logs
  Configs,     \* addresses of config files
  Tabs,        \* bound: pages at a time, the numbers 1 .. n
  Docks,       \* the side panes
  Absence,     \* model value: no page, no log, no session
  Newer,       \* model value: a session a later build stored
  MaxLaunches, \* bound: times the program is started
  MaxGestures  \* bound: what the reader does, over all of them

VARIABLES
  bar,      \* the tab bar: a sequence of page numbers
  page,     \* what each page is: [log, cfg, look]
  made,     \* m_views: the views, in the order they were made
  opened,   \* m_contexts: the open logs, in the order they were opened
  front,    \* the page in front
  active,   \* m_activeView
  bound,    \* the log the panes hold
  pinned,   \* logs whose records the store may not evict
  visible,  \* panes on screen
  hidden,   \* m_panesHidden: Tab took them all away
  before,   \* m_panesPreHideState
  stored,   \* the session on disk
  launches, gestures, \* how often the program was started, and used
  up,       \* the program runs
  arranged, \* history: the panes the reader asked for, Tab apart
  left      \* history: the window as it was quit, until the first gesture after
tabVars == <<bar, page, made, opened, front, active, bound, pinned, visible,
             hidden, before, stored, launches, gestures, up, arranged, left>>
wells == <<bar, page, made, opened, front, active, bound, pinned>>
panes == <<visible, hidden, before, arranged>>

IsView(p)   == page[p].log # Absence
View(f, l)  == [log |-> f, cfg |-> Absence, look |-> l]
Editor(e, l) == [log |-> Absence, cfg |-> e, look |-> l]
NoPage      == [log |-> Absence, cfg |-> Absence, look |-> 0]
TabPages    == [log : Files \cup {Absence}, cfg : Configs \cup {Absence}, look : {0, 1}]
\* A session as it is on disk.
Sessions    == [docs : Seq(Files), views : Seq([doc : Nat, look : {0, 1}]),
                editors : Seq([cfg : Configs, at : Nat, look : {0, 1}]),
                activeView : Nat, activeTab : Nat, layout : SUBSET Docks]

ASSUME TabsAssumption ==
  /\ IsFiniteSet(Tabs) /\ Tabs = 1 .. Cardinality(Tabs)
  /\ Absence \notin Files \cup Configs \cup Tabs \cup Sessions
  /\ Newer \notin Sessions \cup {Absence}

Free        == {t \in Tabs : t \notin ToSet(bar)}
NextFree    == CHOOSE t \in Free : \A u \in Free : t <= u
PlaceOf(s, x) == CHOOSE i \in DOMAIN s : s[i] = x
FirstView(f) == made[CHOOSE i \in DOMAIN made :
                       /\ page[made[i]].log = f
                       /\ \A j \in DOMAIN made : page[made[j]].log = f => i <= j]

(* The members of a set of numbers, in ascending order; joined to the empty
   sequence, which has TLC compute it once and not at every use. *)
Ascending(S) ==
  [k \in 1 .. Cardinality(S) |-> CHOOSE x \in S : Cardinality({y \in S : y <= x}) = k] \o <<>>
\* What a sequence has at these places, in its order.
Those(s, S) == LET at == Ascending(S) IN [k \in DOMAIN at |-> s[at[k]]]

InTabOrder_(b, p) == made
InTabOrder(b, p) == Those(b, {i \in DOMAIN b : p[b[i]].log # Absence})

LayoutAsSeen == visible
PersistableLayout == IF hidden THEN before ELSE visible

\* What saveSession() writes: logs, views in the order of the bar with the
\* index of their log, editors with their place on the bar, two indices.
Saved ==
  LET views == InTabOrder(bar, page)
      edits == Those(bar, {i \in DOMAIN bar : page[bar[i]].cfg # Absence})
  IN [ docs    |-> opened,
       views   |-> [i \in DOMAIN views |->
                     [doc |-> PlaceOf(opened, page[views[i]].log), look |-> page[views[i]].look]],
       editors |-> [i \in DOMAIN edits |->
                     [cfg |-> page[edits[i]].cfg, at |-> PlaceOf(bar, edits[i]) - 1,
                      look |-> page[edits[i]].look]],
       activeView |-> IF active \in ToSet(views) THEN PlaceOf(views, active) - 1 ELSE 0,
       activeTab  |-> IF front \in ToSet(bar) THEN PlaceOf(bar, front) - 1 ELSE 0,
       layout  |-> PersistableLayout ]

\* The window as the reader sees it, compared before a quit and after a launch.
Sight == [ pages |-> [i \in DOMAIN bar |-> page[bar[i]]],
           front |-> IF front = Absence THEN NoPage ELSE page[front],
           bound |-> bound, panes |-> arranged ]

TabInit ==
  /\ bar = <<>> /\ page = [t \in Tabs |-> NoPage] /\ made = <<>> /\ opened = <<>>
  /\ front = Absence /\ active = Absence /\ bound = Absence /\ pinned = {}
  /\ visible = Docks /\ hidden = FALSE /\ before = {}
  /\ stored = Absence /\ launches = 1 /\ gestures = 0 /\ up = TRUE
  /\ arranged = Docks /\ left = Absence

Gesture ==
  /\ up /\ gestures < MaxGestures /\ gestures' = gestures + 1
  /\ left' = Absence /\ UNCHANGED <<stored, launches, up>>

\* onCurrentTabChanged(): a view in front becomes the active one and binds the
\* panes to its log; an editor in front leaves both.
Raised(p, pg) ==
  /\ front' = p
  /\ IF p # Absence /\ pg[p].log # Absence
       THEN active' = p /\ bound' = pg[p].log
       ELSE UNCHANGED <<active, bound>>

----------------------------------------------------------------------------
(* Opening.  A log that is open is raised, an editor too.                  *)

OpenLog(f) ==
  /\ Gesture /\ UNCHANGED panes
  /\ IF f \in ToSet(opened)
       THEN /\ Raised(FirstView(f), page)
            /\ UNCHANGED <<bar, page, made, opened, pinned>>
       ELSE /\ Free # {}
            /\ opened' = Append(opened, f)
            /\ pinned' = ToSet(opened')
            /\ page' = [page EXCEPT ![NextFree] = View(f, 0)]
            /\ bar' = Append(bar, NextFree) /\ made' = Append(made, NextFree)
            /\ Raised(NextFree, page')

\* A second view starts as a copy of the one it is made from.
NewView ==
  /\ Gesture /\ Free # {} /\ front # Absence /\ front = active
  /\ page' = [page EXCEPT ![NextFree] = page[active]]
  /\ bar' = Append(bar, NextFree) /\ made' = Append(made, NextFree)
  /\ Raised(NextFree, page')
  /\ UNCHANGED <<opened, pinned, panes>>

OpenConfig(e) ==
  /\ Gesture
  /\ IF \E t \in ToSet(bar) : page[t].cfg = e
       THEN /\ Raised(CHOOSE t \in ToSet(bar) : page[t].cfg = e, page)
            /\ UNCHANGED <<bar, page>>
       ELSE /\ Free # {}
            /\ page' = [page EXCEPT ![NextFree] = Editor(e, 0)]
            /\ bar' = Append(bar, NextFree)
            /\ Raised(NextFree, page')
  /\ UNCHANGED <<made, opened, pinned, panes>>

Raise(t) ==
  /\ Gesture /\ t \in ToSet(bar) /\ t # front
  /\ Raised(t, page)
  /\ UNCHANGED <<bar, page, made, opened, pinned, panes>>

MoveTab(i, j) ==
  /\ Gesture /\ {i, j} \subseteq DOMAIN bar /\ i # j
  /\ bar' = InsertAt(RemoveAt(bar, i), j, bar[i])
  /\ UNCHANGED <<page, made, opened, front, active, bound, pinned, panes>>

Relook(t) ==
  /\ Gesture /\ t \in ToSet(bar) /\ page[t].look = 0
  /\ page' = [page EXCEPT ![t].look = 1]
  /\ UNCHANGED <<bar, made, opened, front, active, bound, pinned, panes>>

----------------------------------------------------------------------------
(* Closing.                                                                *)

\* The page leaves the bar first, which raises the one to its right (to its
\* left at the end); then the page is deleted, and with a log's last view the
\* log.  documentsUnbound() runs only when no view at all is left.
CloseAt(i) ==
  /\ Gesture /\ i \in DOMAIN bar /\ UNCHANGED panes
  /\ LET t    == bar[i]
         rest == RemoveAt(bar, i)
         next == IF t # front THEN front
                 ELSE IF rest = <<>> THEN Absence
                 ELSE rest[IF i <= Len(rest) THEN i ELSE Len(rest)]
         act  == IF next # Absence /\ IsView(next) THEN next ELSE active
         logs == {page[rest[k]].log : k \in DOMAIN rest}
     IN /\ bar' = rest /\ front' = next
        /\ page' = [page EXCEPT ![t] = NoPage]
        /\ made' = Those(made, {k \in DOMAIN made : made[k] # t})
        /\ opened' = Those(opened, {k \in DOMAIN opened : opened[k] \in logs})
        /\ active' = IF act = t THEN Absence ELSE act
        /\ bound' = IF IsView(t) /\ made' = <<>> THEN Absence
                    ELSE IF next # Absence /\ IsView(next) THEN page[next].log ELSE bound
        /\ pinned' = IF IsView(t) THEN ToSet(opened') ELSE pinned

\* File > Close All takes the whole set down without relabelTabs().
CloseAll ==
  /\ Gesture /\ bar # <<>>
  /\ bar' = <<>> /\ page' = [t \in Tabs |-> NoPage] /\ made' = <<>> /\ opened' = <<>>
  /\ front' = Absence /\ active' = Absence /\ bound' = Absence
  /\ UNCHANGED <<pinned, panes>>

----------------------------------------------------------------------------
(* Panes: Tab takes them all away and brings them back; asking for one     *)
(* while they are away ends that, and leaves the others away.              *)

TabHides ==
  /\ Gesture /\ ~hidden /\ visible # {}
  /\ before' = visible /\ hidden' = TRUE /\ visible' = {}
  /\ UNCHANGED <<wells, arranged>>

TabShows ==
  /\ Gesture /\ hidden
  /\ visible' = before /\ hidden' = FALSE /\ before' = {}
  /\ UNCHANGED <<wells, arranged>>

AskForPane(d) ==
  /\ Gesture /\ d \notin visible
  /\ visible' = visible \cup {d}
  /\ hidden' = FALSE /\ before' = {}
  /\ arranged' = visible'
  /\ UNCHANGED wells

ClosePane(d) ==
  /\ Gesture /\ d \in visible
  /\ visible' = visible \ {d} /\ arranged' = visible'
  /\ UNCHANGED <<wells, hidden, before>>

----------------------------------------------------------------------------
(* Quits and launches.                                                     *)

\* The panes hold a log no view of which is the active one: its page was
\* closed from under an editor page (see PanesHoldAnOpenLog).
Adrift == active = Absence /\ bound # Absence

EmptyWindow ==
  /\ bar' = <<>> /\ page' = [t \in Tabs |-> NoPage] /\ made' = <<>> /\ opened' = <<>>
  /\ front' = Absence /\ active' = Absence /\ bound' = Absence /\ pinned' = {}
Gone == EmptyWindow /\ visible' = {} /\ hidden' = FALSE /\ before' = {} /\ arranged' = {}

\* SessionStore::load() and save(): a later build's session is neither read nor
\* written over.
Loadable == stored \notin {Absence, Newer}
SavedOver == IF stored = Newer THEN stored ELSE Saved

Quit ==
  /\ up /\ up' = FALSE /\ Gone
  /\ stored' = SavedOver
  /\ left' = IF stored = Newer \/ Adrift THEN Absence ELSE Sight
  /\ UNCHANGED <<launches, gestures>>

Crash ==
  /\ up /\ up' = FALSE /\ left' = Absence /\ Gone
  /\ UNCHANGED <<launches, gestures, stored>>

LaterBuildRuns ==
  /\ ~up /\ stored # Newer /\ stored' = Newer /\ left' = Absence
  /\ UNCHANGED <<wells, panes, launches, gestures, up>>

\* The bar when k editors are back: each is put at its place, or at the end of
\* a bar that is too short for it.
PutBack(b, e) == InsertAt(b, 1 + (IF e.at < Len(b) THEN e.at ELSE Len(b)), Editor(e.cfg, e.look))
WithEditors(views, edits) ==
  LET back[k \in 0 .. Len(edits)] == IF k = 0 THEN views ELSE PutBack(back[k - 1], edits[k])
  IN  back

\* restoreSession(): the views in the saved order, each log prepared once and
\* a refused one skipped; then the editors, in ascending place, inserted at
\* that place; then the saved view, and last the saved tab.
Restored(s, refused) ==
  LET keep   == Ascending({i \in DOMAIN s.views : s.docs[s.views[i].doc] \notin refused})
      views  == [k \in DOMAIN keep |->
                  View(s.docs[s.views[keep[k]].doc], s.views[keep[k]].look)]
      edits  == Those(s.editors, {i \in DOMAIN s.editors : s.editors[i].cfg \notin refused})
      first  == {k \in DOMAIN views : \A j \in 1 .. (k - 1) : views[j].log # views[k].log}
  IN [ pages |-> WithEditors(views, edits)[Len(edits)],
       views |-> views,
       open  |-> Those([k \in DOMAIN views |-> views[k].log], first),
       raise |-> IF (s.activeView + 1) \in ToSet(keep)
                   THEN PlaceOf(keep, s.activeView + 1) ELSE 1 ]

Launch(full, refused) ==
  /\ ~up /\ launches < MaxLaunches
  /\ up' = TRUE /\ launches' = launches + 1
  /\ UNCHANGED <<stored, gestures>>
  /\ hidden' = FALSE /\ before' = {}
  /\ visible' = IF Loadable THEN stored.layout ELSE Docks
  /\ arranged' = IF left = Absence THEN visible' ELSE left.panes
  /\ IF full /\ Loadable
       THEN LET r  == Restored(stored, refused)
                n  == Len(r.pages)
                nv == Len(r.views)
                \* the bar numbers its pages from the left; the views are those
                \* of it that are of a log, made from the left too
                views == Ascending({i \in 1 .. n : r.pages[i].log # Absence})
                shown == IF nv > 0 THEN views[r.raise] ELSE IF n > 0 THEN 1 ELSE Absence
                last  == IF stored.activeTab < n THEN stored.activeTab + 1 ELSE shown
                act   == IF nv = 0 THEN Absence
                         ELSE IF r.pages[last].log # Absence THEN last ELSE shown
            IN /\ bar' = [i \in 1 .. n |-> i]
               /\ page' = [t \in Tabs |-> IF t <= n THEN r.pages[t] ELSE NoPage]
               /\ made' = views
               /\ opened' = r.open
               /\ front' = last /\ active' = act
               /\ bound' = IF act = Absence THEN Absence ELSE r.pages[act].log
               /\ pinned' = ToSet(r.open)
               /\ left' = IF left = Absence \/ refused # {} THEN Absence ELSE left
       ELSE EmptyWindow /\ left' = Absence

TabNext ==
  \/ \E f \in Files : OpenLog(f)
  \/ \E e \in Configs : OpenConfig(e)
  \/ NewView \/ CloseAll \/ TabHides \/ TabShows \/ Quit \/ Crash \/ LaterBuildRuns
  \/ \E t \in Tabs : Raise(t) \/ Relook(t)
  \/ \E i, j \in Tabs : MoveTab(i, j)
  \/ \E i \in Tabs : CloseAt(i)
  \/ \E d \in Docks : AskForPane(d) \/ ClosePane(d)
  \/ \E full \in BOOLEAN, refused \in SUBSET (Files \cup Configs) : Launch(full, refused)

TabSpec == TabInit /\ [][TabNext]_tabVars

----------------------------------------------------------------------------
(* Properties                                                              *)

TabTypeOK ==
  /\ bar \in Seq(Tabs) /\ IsInjective(bar) /\ ToSet(made) \subseteq ToSet(bar)
  /\ front \in ToSet(bar) \cup {Absence} /\ active \in ToSet(made) \cup {Absence}
  /\ ToSet(opened) \subseteq Files /\ visible \subseteq Docks

\* After a quit and an ordinary launch that nothing refuses, the window is the
\* one that was left: the same pages in the same order with the same look, the
\* same page in front, the panes bound to the same log, and the panes the
\* reader had arranged, whether or not Tab had taken them off the screen
\* (saveSession(), restoreSession(), persistableWindowState()).
WindowComesBack ==
  (up /\ left # Absence) => Sight = left /\ visible = arranged

\* The panes hold a log that is open, or none: what they hold is a pointer
\* into it (onViewDestroyed()).
PanesHoldAnOpenLog == bound \in ToSet(opened) \cup {Absence}

\* The pool keeps from eviction the logs that are open, and no others
\* (relabelTabs(): `this is where the pool is told').
PinnedAreTheOpen == pinned = ToSet(opened)

\* A launch that some log or config file refuses still brings the others back
\* in their order, and in front the page that was (restoreSession(): `so
\* resolve it here, against the views actually created', `reproduces the
\* interleaving exactly').
SurvivorsKeepTheirPlace ==
  [][\A full \in {TRUE}, refused \in SUBSET (Files \cup Configs) :
       (Launch(full, refused) /\ left # Absence) =>
         LET Stays(p) == p.log \notin refused /\ p.cfg \notin refused
         IN /\ [i \in DOMAIN bar' |-> page'[bar'[i]]] = SelectSeq(left.pages, Stays)
            /\ (Stays(left.front) /\ left.front # NoPage)
                 => (front' # Absence /\ page'[front'] = left.front)]_tabVars
=============================================================================
