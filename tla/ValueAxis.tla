------------------------------ MODULE ValueAxis ------------------------------
(* The subsystem axis of the Filters pane (ui/AxisEditor.cpp, FilterPane.cpp):  *)
(* a list of names with ticks, filled by scans that have not ended, emptied by  *)
(* rotations, read back into the criteria a log is filtered by and remembered   *)
(* with.  One editor serves every log.                                          *)
(*                                                                              *)
(* What a name is, and how rows are sorted and drawn, is left out; of the other *)
(* axes nothing is modelled.                                                    *)
EXTENDS Integers, Sequences, FiniteSets, SequencesExt

CONSTANTS Values,     \* names of subsystems
          AxisLogs,   \* logs the pane is bound to in turn
          MaxStrokes, \* edits by the reader
          MaxTurns,   \* rotations, changes of log, restarts
          NoMemo

VARIABLES
    table,     \* the intern table of each log's index: an id is a position
    resolved,  \* Document::filters(), this axis of it: [on, ids]
    drawn,     \* the names whose records the view of a log shows
    kept,      \* what the pane said when it last left a log: a criteria
    filed,     \* the log's record on disk
    axis,      \* the editor
    said,      \* for the properties: what the reader was shown or said of each name
    rest,      \* for the properties: and of the names that have not turned up
    muddled,   \* for the properties: names the known defects have reached
    strokes, turns

ASSUME AxisAssumption ==
    NoMemo \notin [on : BOOLEAN, names : SUBSET Values, all : BOOLEAN, restricts : BOOLEAN]

axisVars == <<table, resolved, drawn, kept, filed, axis, said, rest, muddled, strokes, turns>>

(* MatchCriteria, this axis: enabled, the ticked names, whether they cover all
   that was listed, and whether "Others" is unticked. *)
Unstated == [on |-> TRUE, names |-> {}, all |-> TRUE, restricts |-> FALSE]

(* What setDocument(), clearAll() begin with. *)
Blank == [listed |-> {}, ticked |-> {}, on |-> TRUE, others |-> TRUE, manual |-> {},
          seen |-> [n \in Values |-> "no"], memo |-> NoMemo]
-----------------------------------------------------------------------------
(* The list.                                                                 *)

(* settleLoaded: a listed name the memo does not hold ends it. *)
Settled(memo, listed) == IF memo = NoMemo \/ listed \subseteq memo.names THEN memo ELSE NoMemo

(* Mutant: a name that was shown once comes back unticked. *)
KnownStaysOff(e, names, checked, rule) ==
    LET Fresh(n) == e.seen[n] = "no"
        On(n) == CASE rule = "Discover" -> n \in checked \/ (Fresh(n) /\ (e.others \/ n \in e.manual))
                   [] rule = "CoverAll" -> TRUE
                   [] OTHER -> n \in checked
        on == {n \in names : On(n)}
    IN [e EXCEPT !.listed = names, !.ticked = on, !.memo = Settled(@, names),
                 !.seen = [n \in Values |-> IF n \notin names THEN @[n]
                                            ELSE IF n \in on THEN "ticked"
                                            ELSE IF rule = "Unstated" THEN "no" ELSE "unticked"]]

(* populateList and settleLoaded, with names the list is to hold. *)
Populated(e, names, checked, rule) ==
    LET Fresh(n) == e.seen[n] = "no"
        Found(n) == \/ n \in checked
                    \/ Fresh(n) /\ (e.others \/ n \in e.manual)
                    \/ ~Fresh(n) /\ n \notin e.listed /\ e.seen[n] = "ticked"
        on == CASE rule = "Discover" -> {n \in names : Found(n)}
                [] rule = "CoverAll" -> names
                [] OTHER             -> names \cap checked
    IN [e EXCEPT !.listed = names, !.ticked = on, !.memo = Settled(@, names),
                 !.seen = [n \in Values |-> IF n \notin names THEN @[n]
                                            ELSE IF n \in on THEN "ticked"
                                            ELSE IF rule = "Unstated" THEN "no" ELSE "unticked"]]

Repopulated(e, tab, checked, rule) == Populated(e, ToSet(tab) \cup e.manual, checked, rule)

(* Mutant: a name found while a selection is still being reproduced is a
   discovery. *)
AlwaysDiscover(e, tab) == Repopulated(e, tab, e.ticked, "Discover")

(* refreshDiscoveredLists *)
Refreshed(e, tab) ==
    IF e.memo # NoMemo THEN Repopulated(e, tab, e.memo.names, "Load")
    ELSE Repopulated(e, tab, e.ticked, "Discover")

(* setDocument: everything known of the file before goes, the tick of the axis
   itself stays until the state of the new one is put back. *)
BoundTo(e, tab) ==
    Refreshed([e EXCEPT !.manual = {}, !.others = TRUE, !.memo = NoMemo,
                        !.seen = [n \in Values |-> "no"]], tab)
-----------------------------------------------------------------------------
(* Criteria out and in.                                                      *)

CoversAll(e) == e.ticked = e.listed \/ (~e.on /\ e.ticked = {})

(* Mutant: the widgets are read while a memo is armed. *)
CriteriaOfTicks(e) == [on |-> e.on, names |-> e.ticked, all |-> CoversAll(e), restricts |-> ~e.others]

(* criteria, readValueAxis *)
Criteria(e) ==
    IF e.memo # NoMemo THEN [e.memo EXCEPT !.on = e.on]
    ELSE [on |-> e.on, names |-> e.ticked, all |-> CoversAll(e), restricts |-> ~e.others]

Narrows(c) == ~c.all \/ c.restricts

(* setCriteria *)
Loaded(e, tab, c) ==
    LET rule == IF Narrows(c) THEN "Load" ELSE IF c.on THEN "CoverAll" ELSE "Unstated"
    IN Repopulated([e EXCEPT !.on = c.on, !.manual = c.names, !.others = ~c.restricts,
                             !.memo = IF Narrows(c) THEN c ELSE NoMemo],
                   tab, c.names, rule)

(* MatchCriteria::resolve under NoOpAxes::Collapse *)
Resolve(c, tab) == [on |-> c.on /\ ~c.all, ids |-> {i \in DOMAIN tab : tab[i] \in c.names}]

Passing(filter, tab) == {tab[i] : i \in {j \in DOMAIN tab : filter.on => j \in filter.ids}}

(* filterStateSaysNothing, LogFileSettings::reduce: what the record keeps. *)
Reduced(c) == IF c.on /\ ~c.all THEN c ELSE Unstated
-----------------------------------------------------------------------------
AxisInit ==
    /\ table = [l \in AxisLogs |-> <<>>]
    /\ resolved = [l \in AxisLogs |-> [on |-> FALSE, ids |-> {}]]
    /\ drawn = [l \in AxisLogs |-> {}]
    /\ kept = [l \in AxisLogs |-> Unstated] /\ filed = kept
    /\ \E l \in AxisLogs : axis = [log |-> l, e |-> Blank]
    /\ said = [l \in AxisLogs |-> [n \in Values |-> "unseen"]]
    /\ rest = [l \in AxisLogs |-> TRUE]
    /\ muddled = [l \in AxisLogs |-> {}]
    /\ strokes = 0 /\ turns = 0

(* The names a list takes in are answered as the rest, or, while a selection is
   being reproduced, as that selection says, which did not name them. *)
Heard(l, saying, listed, armed) ==
    [n \in Values |-> IF n \notin listed \/ saying[n] # "unseen" THEN saying[n]
                      ELSE IF rest[l] /\ ~armed THEN "shown" ELSE "hidden"]

(* What a selection still being reproduced leaves out and the batch that ended it
   did not bring: those come back ticked. *)
LeftOut(e, f, l) == IF e.memo # NoMemo /\ f.memo = NoMemo
                    THEN {n \in Values \ f.listed : said[l][n] = "hidden"} ELSE {}

(* FilterPane::applyToDocument *)
Apply(l, e, tab) == resolved' = [resolved EXCEPT ![l] = Resolve(Criteria(e), tab)]

(* FilterPane::applyNow, which re-filters the view and files the record. *)
ApplyNow_(l, e, tab) ==
    /\ Apply(l, e, tab)
    /\ drawn' = [drawn EXCEPT ![l] = Passing(resolved'[l], tab)]
    /\ filed' = [filed EXCEPT ![l] = Reduced(Criteria(e))]

(* The tick of the log: rows first, by the ids there are; then the lists of the
   pane, if it is bound to the log. *)
Learn(l, tab) ==
    /\ table' = [table EXCEPT ![l] = tab]
    /\ IF axis.log # l THEN UNCHANGED <<axis, resolved, said, muddled>>
       ELSE LET e == axis.e
                f == Refreshed(e, tab)
            IN /\ axis' = [axis EXCEPT !.e = f]
               /\ Apply(l, f, tab)
               /\ said' = [said EXCEPT ![l] = Heard(l, @, f.listed, e.memo # NoMemo)]
               /\ muddled' = [muddled EXCEPT ![l] = @ \cup LeftOut(e, f, l)
                                 \cup {n \in e.listed \ f.listed : (e.seen[n] = "ticked") # (n \in e.ticked)}]
    /\ UNCHANGED <<kept, filed, rest>>

(* The `ingested` handler: a record of a name that was not there yet. *)
Discover(l, n) ==
    /\ n \notin ToSet(table[l])
    /\ LET tab == Append(table[l], n)
       IN /\ drawn' = [drawn EXCEPT ![l] = @ \cup (Passing(resolved[l], tab) \cap {n})]
          /\ Learn(l, tab)
    /\ UNCHANGED <<strokes, turns>>

(* doRescan after a rotation: another file, with some names or none yet. *)
Rotate(l, tab) ==
    /\ turns < MaxTurns /\ turns' = turns + 1 /\ table[l] # <<>>
    /\ drawn' = [drawn EXCEPT ![l] = Passing(resolved[l], tab)]
    /\ Learn(l, tab) /\ UNCHANGED strokes
-----------------------------------------------------------------------------
(* What the reader does with the list.  f is the editor after it; `saying` what *)
(* was meant, which ends a selection still being reproduced, and with it what   *)
(* that left out and no list has shown.                                         *)

Stroke(f, saying, others, lost) ==
    LET l == axis.log
    IN /\ strokes < MaxStrokes /\ strokes' = strokes + 1
       /\ axis' = [axis EXCEPT !.e = f]
       /\ ApplyNow_(l, f, table[l])
       /\ said' = [said EXCEPT ![l] =
                     [n \in Values |-> IF axis.e.memo # NoMemo /\ f.memo = NoMemo /\ n \notin f.listed
                                       THEN "unseen" ELSE saying[n]]]
       /\ rest' = [rest EXCEPT ![l] = others]
       /\ muddled' = [muddled EXCEPT ![l] = lost]
       /\ UNCHANGED <<table, kept, turns>>

Mine == said[axis.log]

(* A claim about the whole axis is one about the names a rotation took off it. *)
Claimed(n, on) == IF Mine[n] = "unseen" THEN "unseen" ELSE IF on THEN "shown" ELSE "hidden"
Astray == muddled[axis.log]

(* The handler of itemChanged, for rows that change: the tick, what is remembered
   of the name, and the memo. *)
Ticked(e, names, on) ==
    [e EXCEPT !.ticked = IF on THEN @ \cup names ELSE @ \ names, !.memo = NoMemo,
              !.seen = [n \in Values |-> IF n \notin names THEN @[n]
                                         ELSE IF on THEN "ticked" ELSE "unticked"]]

(* Unlisted names that a claim about the whole axis does not reach. *)
Unreached(e, on) == {n \in Values \ e.listed : e.seen[n] = IF on THEN "unticked" ELSE "ticked"}

Toggle(n) ==
    LET e == axis.e
        on == n \notin e.ticked
    IN /\ n \in e.listed
       /\ Stroke(Ticked(e, {n}, on), [Mine EXCEPT ![n] = IF on THEN "shown" ELSE "hidden"],
                 rest[axis.log], Astray \ {n})

ToggleOthers ==
    LET e == axis.e
    IN Stroke([e EXCEPT !.others = ~@, !.memo = NoMemo], Mine, ~rest[axis.log], Astray)

ToggleAxis == Stroke([axis.e EXCEPT !.on = ~@], Mine, rest[axis.log], Astray)

(* The All and None buttons, over the rows the narrowing text leaves. *)
SetAll(visible, on) ==
    LET e == axis.e
        moved == IF on THEN visible \ e.ticked ELSE visible \cap e.ticked
    IN /\ visible \subseteq e.listed /\ (moved # {} \/ e.others # on)
       /\ Stroke([Ticked(e, moved, on) EXCEPT !.others = on],
                 [n \in Values |-> IF n \in visible THEN (IF on THEN "shown" ELSE "hidden")
                                   ELSE IF n \in e.listed THEN Mine[n] ELSE Claimed(n, on)],
                 on, (Astray \ visible) \cup Unreached(e, on))

Invert(visible) ==
    LET e == axis.e
        f == Ticked(Ticked(e, visible \ e.ticked, TRUE), visible \cap e.ticked, FALSE)
    IN /\ visible \subseteq e.listed
       /\ Stroke([f EXCEPT !.others = ~@],
                 [n \in Values |-> IF n \notin visible THEN Mine[n]
                                   ELSE IF n \in e.ticked THEN "hidden" ELSE "shown"],
                 ~rest[axis.log], Astray)

(* addTyped *)
AddTyped(n) ==
    LET e == axis.e
        f == Refreshed([e EXCEPT !.manual = @ \cup {n}, !.memo = NoMemo], table[axis.log])
    IN /\ n \notin e.listed
       /\ Stroke(f, [Mine EXCEPT ![n] = "shown"], rest[axis.log],
                 IF e.seen[n] = "unticked" THEN Astray \cup {n} ELSE Astray \ {n})

(* What the record menu may name: the record's own subsystem, which the table has. *)
EnsureListed(e, n) == IF n \in e.listed THEN e ELSE Refreshed(e, table[axis.log])

(* showOnlyValue, checkOnly.  Neither the memory of the names nor the memo hears
   of it. *)
ShowOnly(n) ==
    LET e == EnsureListed(axis.e, n)
    IN /\ n \in ToSet(table[axis.log])
       /\ Stroke([e EXCEPT !.ticked = {n}, !.on = TRUE, !.others = FALSE],
                 [m \in Values |-> IF m = n THEN "shown" ELSE IF m \in e.listed THEN "hidden" ELSE Claimed(m, FALSE)],
                 FALSE, IF e.memo # NoMemo THEN Values ELSE (Astray \ e.listed) \cup Unreached(e, FALSE))

(* Ctrl on the "Others" row. *)
ShowOthersOnly ==
    LET e == axis.e
    IN Stroke([e EXCEPT !.ticked = {}, !.on = TRUE, !.others = TRUE],
              [m \in Values |-> IF m \in e.listed THEN "hidden" ELSE Claimed(m, TRUE)],
              TRUE, IF e.memo # NoMemo THEN Values ELSE (Astray \ e.listed) \cup Unreached(e, TRUE))

(* hideValue *)
Hide(n) ==
    LET e == EnsureListed(axis.e, n)
    IN /\ n \in ToSet(table[axis.log])
       /\ Stroke([e EXCEPT !.ticked = @ \ {n}, !.on = TRUE], [Mine EXCEPT ![n] = "hidden"],
                 rest[axis.log], IF e.memo # NoMemo THEN Values ELSE Astray \ {n})

(* clearAll *)
ClearAll ==
    LET f == Repopulated([Blank EXCEPT !.listed = axis.e.listed], table[axis.log], {}, "Discover")
    IN Stroke(f, [n \in Values |-> IF n \in f.listed THEN "shown" ELSE "unseen"], TRUE, {})
-----------------------------------------------------------------------------
(* Another log, and another day.                                             *)

(* setDocument, and the pane's restoreState: the state is loaded, the lists are
   refreshed, and the filter applied. *)
Hydrated(e, tab, c) == Refreshed(Loaded(BoundTo(e, tab), tab, c), tab)

(* Once a log is left, a name is remembered by being listed or not at all, except
   by a selection that was still being reproduced; and an axis that is off with
   nothing ticked has said nothing. *)
Remembered(l, e) == [n \in Values |->
    IF e.memo # NoMemo \/ (n \in e.listed /\ (Narrows(Criteria(e)) \/ n \in e.ticked))
    THEN said[l][n] ELSE "unseen"]

(* setActiveView: the pane goes from one log to the other.  The rest of the log
   that is left is what is kept of it: the two differ only where a selection
   being reproduced did not hear of an edit, and all of that log is muddled. *)
Switch(m) ==
    LET l == axis.log
        e == axis.e
        f == Hydrated(e, table[m], kept[m])
        out == Remembered(l, e)
    IN /\ turns < MaxTurns /\ turns' = turns + 1 /\ m # l
       /\ kept' = [kept EXCEPT ![l] = Criteria(e)]
       /\ axis' = [log |-> m, e |-> f]
       /\ resolved' = [resolved EXCEPT ![m] = Resolve(Criteria(f), table[m])]
       /\ drawn' = [drawn EXCEPT ![m] = Passing(resolved'[m], table[m])]
       /\ filed' = [filed EXCEPT ![l] = Reduced(Criteria(e)), ![m] = Reduced(Criteria(f))]
       /\ said' = [said EXCEPT ![l] = out, ![m] = Heard(m, @, f.listed, Narrows(kept[m]))]
       /\ muddled' = [muddled EXCEPT ![m] = @ \cup
                        (IF Narrows(kept[m]) /\ f.memo = NoMemo
                         THEN {n \in Values \ f.listed : said[m][n] = "hidden"} ELSE {})]
       /\ rest' = [rest EXCEPT ![l] = ~Criteria(e).restricts]
       /\ UNCHANGED <<table, strokes>>

(* The program ends, by a quit that files what the pane says or by a crash that
   does not, and opens the log again, which is then scanned. *)
Restart(crash) ==
    LET l == axis.log
        e == axis.e
        c == IF crash THEN filed[l] ELSE Reduced(Criteria(e))
        f == Hydrated(Blank, <<>>, c)
    IN /\ turns < MaxTurns /\ turns' = turns + 1
       /\ table' = [table EXCEPT ![l] = <<>>]
       /\ filed' = [filed EXCEPT ![l] = c]
       /\ axis' = [log |-> l, e |-> f]
       /\ resolved' = [resolved EXCEPT ![l] = Resolve(Criteria(f), <<>>)]
       /\ drawn' = [drawn EXCEPT ![l] = {}]
       /\ rest' = [rest EXCEPT ![l] = ~c.restricts]
       /\ said' = [said EXCEPT ![l] =
                     [n \in Values |-> IF n \in f.listed THEN "shown"
                                       ELSE IF Narrows(c) \/ (e.on /\ @[n] = "hidden") THEN Remembered(l, e)[n]
                                       ELSE "unseen"]]
       /\ muddled' = [muddled EXCEPT ![l] =
                        IF ~Narrows(c) /\ ~rest[l] THEN Values
                        ELSE @ \cup {n \in e.listed : /\ crash
                                                     /\ (n \in e.ticked) # (~Narrows(c) \/ n \in c.names)}]
       /\ UNCHANGED <<kept, strokes>>

AxisNext ==
    \/ \E l \in AxisLogs, n \in Values : Discover(l, n)
    \/ \E l \in AxisLogs, n \in Values : Rotate(l, <<n>>)
    \/ \E l \in AxisLogs : Rotate(l, <<>>)
    \/ \E n \in Values : Toggle(n) \/ AddTyped(n) \/ ShowOnly(n) \/ Hide(n)
    \/ \E v \in SUBSET Values : Invert(v) \/ \E b \in BOOLEAN : SetAll(v, b)
    \/ ToggleOthers \/ ToggleAxis \/ ShowOthersOnly \/ ClearAll
    \/ \E m \in AxisLogs : Switch(m)
    \/ \E b \in BOOLEAN : Restart(b)

AxisSpec == AxisInit /\ [][AxisNext]_axisVars
-----------------------------------------------------------------------------
(* Properties.                                                               *)

AxisLog == axis.log
Sound == Values \ muddled[AxisLog]

\* populateList(), refreshDiscoveredLists(), setCriteria(): a subsystem of the bound
\* log is listed as soon as it turned up, ticked exactly if the reader was shown it
\* or said so, however often the file was rotated, the pane bound to another log or
\* the program restarted since; and the log is filtered by just that.
NamesAreAsSaid ==
    LET e == axis.e
        tab == table[AxisLog]
    IN /\ ToSet(tab) \subseteq e.listed
       /\ \A n \in ToSet(tab) \cap Sound :
            /\ n \in e.ticked <=> said[AxisLog][n] = "shown"
            /\ n \in Passing(resolved[AxisLog], tab) <=> (~e.on \/ said[AxisLog][n] = "shown")

\* AxisEditor.cpp, the record menu "passes through" the handler of a tick; a claim
\* of All and None is about the axis; a restored session must not widen.
SaidOfEveryName ==
    LET e == axis.e
    IN \A n \in ToSet(table[AxisLog]) :
         n \in Passing(resolved[AxisLog], table[AxisLog]) <=> (~e.on \/ said[AxisLog][n] = "shown")

\* A record is shown exactly if its log's filter lets it pass.
RowsAreFiltered == \A l \in AxisLogs : drawn[l] = Passing(resolved[l], table[l])
=============================================================================
