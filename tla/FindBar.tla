------------------------------ MODULE FindBar ------------------------------
(***************************************************************************)
(* The Find bar of a log's page and of a config editor's, side by side in  *)
(* one window: typing into it, the search it owes while a burst of typing  *)
(* lasts, the steps from match to match, and what is said and marked       *)
(* (FindBar.cpp, runFind() in MainWindow.cpp and ConfigView.cpp, Find in   *)
(* Filter.cpp).  A row, or a place in a text, is a number; a query is the  *)
(* set of places it matches, and the wording of a report is its numbers.   *)
(***************************************************************************)
EXTENDS Integers, FiniteSets, FiniteSetsExt

CONSTANTS
  Queries,   \* queries, without the empty one and without the bad regex
  HitsOf,    \* [Queries -> SUBSET (1 .. Places)]
  Places,    \* the rows of the log, the places of the text
  TallyRows, \* kFindTallyRows: rows counted for a report
  NoText,    \* model value: the empty query
  BadRegex   \* model value

VARIABLES
  inFront,  \* the page in front: "log" or "text"
  onScreen, \* pages whose bar is on screen
  query,    \* what is in each bar's box
  owes,     \* bars whose timer runs, searchPending()
  slow,     \* bars whose last search took longer than the threshold
  said,     \* each bar's report: [of, word, index, total]
  red,      \* m_queryFailed
  marks,    \* the query marked in the log's table, NoText when none
  caret,    \* the current row, the match selected in the text; 0 for none
  edited    \* history: bars whose box changed since a search took it
findVars == <<inFront, onScreen, query, owes, slow, said, red, marks, caret, edited>>

Pages == {"log", "text"}
Hits(q) == IF q \in Queries THEN HitsOf[q] ELSE {}

Say(q, w) == [of |-> q, word |-> w, index |-> 0, total |-> 0]
Silence == Say(NoText, "")

FindInit ==
  /\ inFront = "log" /\ onScreen = {} /\ query = [p \in Pages |-> NoText]
  /\ owes = {} /\ slow = {} /\ said = [p \in Pages |-> Silence] /\ red = {}
  /\ marks = NoText /\ caret = [p \in Pages |-> 0] /\ edited = {}

----------------------------------------------------------------------------
(* A step of a search.                                                     *)

\* The nearest hit the walk meets: one step past the current row, and once
\* round.  Find::search().
Ahead(hits, i)  == {h \in hits : h > i}
Behind(hits, i) == {h \in hits : h < i}
LogStep(hits, at, forward, fromStart) ==
  LET i == IF fromStart \/ at = 0 THEN (IF forward THEN 0 ELSE Places + 1) ELSE at
  IN IF forward THEN (IF Ahead(hits, i) # {} THEN Min(Ahead(hits, i)) ELSE Min(hits))
                ELSE (IF Behind(hits, i) # {} THEN Max(Behind(hits, i)) ELSE Max(hits))

\* The text's search starts at the caret, which stands after the match.
TextStep(hits, at, forward, fromStart) ==
  IF forward THEN LogStep(hits, at, TRUE, fromStart)
  ELSE LogStep(hits, IF at = 0 THEN 1 ELSE at + 1, FALSE, fromStart)

\* Find::tally(): a floor where counting stopped before the end.  The text's
\* bar counts every place.
Report(p, q, hit) ==
  LET last == IF p = "log" THEN TallyRows ELSE Places
      seen == {h \in Hits(q) : h <= last}
  IN [Say(q, "match") EXCEPT
        !.index = IF hit \in seen THEN Cardinality({h \in seen : h <= hit}) ELSE 0,
        !.total = Cardinality(seen)]

CancelNothing(p) == UNCHANGED owes
CancelPendingSearch(p) == owes' = owes \ {p}

\* runFind(): in the page in front, whose bar it brings on screen.
RunFind(p, forward, fromStart, q) ==
  LET hits == Hits(q)
      hit  == IF p = "log" THEN LogStep(hits, caret[p], forward, fromStart)
                           ELSE TextStep(hits, caret[p], forward, fromStart)
  IN /\ onScreen' = onScreen \cup {p}
     /\ edited' = edited \ {p}
     /\ red' = IF q = NoText \/ hits # {} THEN red \ {p} ELSE red \cup {p}
     /\ said' = [said EXCEPT ![p] =
                  CASE q = NoText -> IF fromStart THEN Silence ELSE Say(q, "no search text")
                    [] q = BadRegex -> Say(q, "bad regex")
                    [] q \in Queries /\ hits = {} -> Say(q, "0 of 0")
                    [] OTHER -> Report(p, q, hit)]
     /\ caret' = IF hits = {} THEN caret ELSE [caret EXCEPT ![p] = hit]
     /\ marks' = IF p = "text" THEN marks ELSE IF hits = {} THEN NoText ELSE q

\* emitSearch(): through the bar, which measures it.
EmitSearch(p, forward, fromStart, q) ==
  /\ owes' = owes \ {p}
  /\ RunFind(p, forward, fromStart, q)
  /\ slow' \in {slow \cup {p}, slow \ {p}}

----------------------------------------------------------------------------
(* What the reader does.                                                   *)

\* scheduleSearch(): at once, or when the burst is over.
Type(q) ==
  LET p == inFront
  IN /\ p \in onScreen /\ q # query[p]
     /\ query' = [query EXCEPT ![p] = q]
     /\ IF p \in slow
          THEN /\ owes' = owes \cup {p} /\ edited' = edited \cup {p}
               /\ UNCHANGED <<onScreen, slow, said, red, marks, caret>>
          ELSE EmitSearch(p, TRUE, TRUE, q)
     /\ UNCHANGED inFront

BurstEnds(p) ==
  /\ p \in owes
  /\ EmitSearch(p, TRUE, TRUE, query[p])
  /\ UNCHANGED <<inFront, query>>

\* Enter, Shift+Enter, the arrows; an option's tick starts from the top.
PressInBar(forward, fromStart) ==
  /\ inFront \in onScreen /\ (fromStart => forward)
  /\ EmitSearch(inFront, forward, fromStart, query[inFront])
  /\ UNCHANGED <<inFront, query>>

\* F3 and Shift+F3 reach the page without its bar.
PressF3(forward) ==
  /\ CancelPendingSearch(inFront)
  /\ RunFind(inFront, forward, FALSE, query[inFront])
  /\ UNCHANGED <<inFront, query, slow>>

\* Ctrl+F: the box, to type in.
Activate ==
  /\ owes' = owes \ {inFront}
  /\ said' = [said EXCEPT ![inFront] = Silence]
  /\ red' = red \ {inFront}
  /\ onScreen' = onScreen \cup {inFront}
  /\ UNCHANGED <<inFront, query, slow, marks, caret, edited>>

\* Escape or the cross.  A bar that goes off the screen owes nothing.
KeepOwing(p) == UNCHANGED owes
HideEvent(p) == owes' = owes \ {p}

CloseBar ==
  /\ inFront \in onScreen
  /\ HideEvent(inFront)
  /\ onScreen' = onScreen \ {inFront}
  /\ marks' = IF inFront = "log" THEN NoText ELSE marks
  /\ UNCHANGED <<inFront, query, slow, said, red, caret, edited>>

\* A tab switch hides the page, its bar with it; the bar is there on return.
SwitchPage ==
  /\ HideEvent(inFront)
  /\ inFront' = CHOOSE p \in Pages : p # inFront
  /\ UNCHANGED <<onScreen, query, slow, said, red, marks, caret, edited>>

\* The Highlight button: a rule of what is in the box.
HighlightFind ==
  /\ inFront = "log" /\ "log" \in onScreen
  /\ said' = [said EXCEPT !["log"] =
               Say(query["log"], CASE query["log"] = NoText -> "no search text"
                                   [] query["log"] = BadRegex -> "bad regex"
                                   [] OTHER -> "highlight rule added")]
  /\ UNCHANGED <<inFront, onScreen, query, owes, slow, red, marks, caret, edited>>

FindNext ==
  \/ \E q \in Queries \cup {NoText, BadRegex} : Type(q)
  \/ \E p \in Pages : BurstEnds(p)
  \/ \E forward, fromStart \in BOOLEAN : PressInBar(forward, fromStart)
  \/ \E forward \in BOOLEAN : PressF3(forward)
  \/ Activate \/ CloseBar \/ SwitchPage \/ HighlightFind

FindSpec == FindInit /\ [][FindNext]_findVars

----------------------------------------------------------------------------
(* Properties                                                              *)

FindTypeOK ==
  /\ onScreen \subseteq Pages /\ owes \subseteq Pages /\ red \subseteq Pages
  /\ marks \in Queries \cup {NoText} /\ caret \in [Pages -> 0 .. Places]

\* A search is owed only to text no search has taken since it was typed, in
\* the page in front, with its bar on the screen.  One that fires later would
\* search the page the reader had turned to, report where nobody sees it, or
\* throw a reader who has stepped on with F3 back to the first match; and rows
\* are marked only while the bar that asked for it is there (hideEvent(),
\* runFind(): `an uncancelled edit would fire 150 ms later').
PendingIsOwed ==
  /\ \A p \in owes : p = inFront /\ p \in onScreen /\ p \in edited
  /\ marks # NoText => "log" \in onScreen

\* A report on the screen is of the query beside it, or the search of that is
\* on its way (activate(): `a stale "3 of 47" over a fresh empty box is a lie').
ReportIsOfTheQuery ==
  \A p \in onScreen :
    (p = inFront /\ said[p] # Silence) => said[p].of = query[p] \/ p \in owes

\* Find Next and Find Previous move on when there is another match
\* (runFind(): `the search wraps').
StepsMoveOn ==
  [][\A forward \in BOOLEAN :
       (PressF3(forward) /\ Cardinality(Hits(query[inFront])) > 1 /\ caret[inFront] # 0)
         => caret'[inFront] # caret[inFront]]_findVars
=============================================================================
