---------------------------- MODULE ReadingPlace ----------------------------
(* The reader's place in a view of a live log: what is selected, what is at    *)
(* the top of the window, whether the view follows the tail, and what becomes  *)
(* of the three when the rows change under them (LogView, LogModel, and the    *)
(* model signals of LiveController::ingestAppended and of the window's filter, *)
(* run and reload handlers).                                                   *)
(*                                                                             *)
(* A view row names a record of the log by its ordinal; a filter and a run     *)
(* leave some of the records without a row.  Lines are display lines, counted  *)
(* from 0 as the scroll bar does; rows and ordinals are counted from 1, and 0  *)
(* is no row and no record.                                                    *)
EXTENDS Naturals, Sequences, FiniteSets, SequencesExt

CONSTANTS Kinds,        \* what tells records apart
          FirstLogs,    \* the logs a behaviour may begin with
          MaxRecords,   \* bound: the records a log may grow to
          MaxHeight,    \* bound: the lines the last record may grow to
          Pages,        \* heights of the window, in lines
          Wraps,        \* wrap modes: "off", "selected"
          Extra,        \* lines the current record gains when it is wrapped
          Threshold,    \* m_copyProgressThreshold
          Chunk,        \* kCopyChunk
          MaxGestures,  \* bound: what the reader does
          MaxReplaced   \* bound: reloads of the log

ASSUME ReadingAssumption ==
    /\ Kinds \subseteq [h : Nat \ {0}, shown : BOOLEAN, mark : BOOLEAN]
    /\ \A l \in FirstLogs : l \in Seq(Kinds) /\ Len(l) <= MaxRecords
    /\ Pages \subseteq Nat \ {0} /\ Pages # {} /\ IsFiniteSet(Pages) /\ Chunk \in Nat \ {0}
    /\ Wraps \subseteq {"off", "selected"} /\ Wraps # {}
    /\ {MaxRecords, MaxHeight, Extra, Threshold, MaxGestures, MaxReplaced} \subseteq Nat

VARIABLES recs,      \* the records of the log
          narrow,    \* the filter hides the records that are not shown
          run,       \* "all", or "last": the newest run
          view,      \* the view, one record
          copy,      \* a copy that shows its progress, or Idle
          clip,      \* the clipboard, and what was selected when it was filled
          chosen,    \* history: the record the reader picked, until the rows are replaced
          slipped,   \* history: a tick gave it a row, or took its row, under the filter
          replaced,  \* bound
          gestures   \* bound

readingVars == <<recs, narrow, run, view, copy, clip, chosen, slipped, replaced, gestures>>

Lower(a, b)  == IF a < b THEN a ELSE b
Higher(a, b) == IF a < b THEN b ELSE a
Up(a, b)     == IF a < b THEN 0 ELSE a - b

(* The numbers of S, smallest first. *)
InOrder(S) == [k \in 1..Cardinality(S) |-> CHOOSE i \in S : Cardinality({j \in S : j <= i}) = k]

Idle == [busy |-> FALSE, rows |-> <<>>, got |-> <<>>, picked |-> <<>>, void |-> FALSE]
-----------------------------------------------------------------------------
(* The rows of the model.                                                    *)

RunFrom(rs, r) ==
    LET marks == {i \in 1..Len(rs) : rs[i].mark}
    IN IF r = "all" \/ marks = {} THEN 1 ELSE CHOOSE i \in marks : \A j \in marks : j <= i

(* The ordinals of the visible records of rs that begin at `from` or later. *)
RowsFrom(rs, f, from) == InOrder({i \in 1..Len(rs) : i >= from /\ (f => rs[i].shown)})

(* A row is the ordinal of its record and the record's own height. *)
Space(rs, ordinals) == [k \in 1..Len(ordinals) |-> [src |-> ordinals[k], h |-> rs[ordinals[k]].h]]
SpaceOf(rs, f, r) == Space(rs, RowsFrom(rs, f, RunFrom(rs, r)))
Rows == SpaceOf(recs, narrow, run)

RowOf(rows, src) == IF \E k \in 1..Len(rows) : rows[k].src = src
                    THEN CHOOSE k \in 1..Len(rows) : rows[k].src = src ELSE 0
RowAtOrAfter(rows, src) == Cardinality({k \in 1..Len(rows) : rows[k].src < src}) + 1
SourceOf(rows, k) == IF k \in 1..Len(rows) THEN rows[k].src ELSE 0
-----------------------------------------------------------------------------
(* Lines: the current record takes its wrapped height when it is wrapped.    *)

HeightOf(v, rows, k) == rows[k].h + (IF v.wrap = "selected" /\ v.cur = k THEN Extra ELSE 0)

(* The lines before row k are counted, each by its row and its place in it. *)
LineOf(v, rows, k) ==
    Cardinality(UNION {{j} \X (1..HeightOf(v, rows, j)) : j \in 1..(k - 1)})
TotalLines(v, rows) == LineOf(v, rows, Len(rows) + 1)
RecordAt(v, rows, line) ==
    LET below == {k \in 1..Len(rows) : line < LineOf(v, rows, k + 1)}
    IN IF below = {} THEN Len(rows) ELSE CHOOSE k \in below : \A j \in below : k <= j

MaxTop(v, rows) == Up(TotalLines(v, rows), v.page)
OnScreen(v, rows, k) == /\ LineOf(v, rows, k + 1) > v.top
                        /\ LineOf(v, rows, k) < v.top + v.page
-----------------------------------------------------------------------------
(* The scroll bar.  `held` is set while a move is the view's own, inside      *)
(* scrollToEnd(), a zoom or a filter re-apply: any other move of the bar,     *)
(* the clamp of a shrunken range included, re-derives the follow state.       *)

(* Mutant: the guard of the filter bracket is missing. *)
MovedUnguarded(v, rows, to, held) ==
    IF to = v.top THEN v ELSE [v EXCEPT !.top = to, !.follow = to >= MaxTop(v, rows)]

Moved(v, rows, to, held) ==
    IF to = v.top THEN v
    ELSE [v EXCEPT !.top = to, !.follow = IF held THEN @ ELSE to >= MaxTop(v, rows)]

SetValue(v, rows, line, held) == Moved(v, rows, Lower(line, MaxTop(v, rows)), held)
UpdateScrollBars(v, rows, held) == SetValue(v, rows, v.top, held)
ScrollToEnd(v, rows) == SetValue(v, rows, MaxTop(v, rows), TRUE)
FollowTail(v, rows) == ScrollToEnd([v EXCEPT !.follow = TRUE], rows)

EnsureRecordVisible(v, rows, k) ==
    IF LineOf(v, rows, k) < v.top THEN SetValue(v, rows, LineOf(v, rows, k), FALSE)
    ELSE IF LineOf(v, rows, k + 1) > v.top + v.page
    THEN SetValue(v, rows, Up(LineOf(v, rows, k + 1), v.page), FALSE)
    ELSE v
-----------------------------------------------------------------------------
(* Selecting.                                                                *)

Bound(rows, k) == Higher(1, Lower(k, Len(rows)))

(* An end that has no row any more leaves nothing selected. *)
SelectRange(rows, anchor, k) ==
    IF Higher(anchor, k) > Len(rows) THEN {} ELSE Lower(anchor, k)..Higher(anchor, k)

SelectRecordSilently(v, rows, k) ==
    IF rows = <<>> THEN v
    ELSE LET b == Bound(rows, k) IN [v EXCEPT !.cur = b, !.anchor = b, !.sel = {b}]

SetCurrentRecord(v, rows, k, extend) ==
    IF rows = <<>> THEN v
    ELSE LET b == Bound(rows, k)
             w == [v EXCEPT !.sticky = 0]
             s == IF extend /\ v.anchor > 0
                  THEN [w EXCEPT !.cur = b, !.sel = SelectRange(rows, v.anchor, b)]
                  ELSE SelectRecordSilently(w, rows, b)
         IN EnsureRecordVisible(UpdateScrollBars(s, rows, FALSE), rows, b)

ToggleRecord(v, rows, k) ==
    LET s == [v EXCEPT !.sticky = 0, !.cur = k, !.anchor = k,
                       !.sel = IF k \in @ THEN @ \ {k} ELSE @ \cup {k}]
    IN EnsureRecordVisible(UpdateScrollBars(s, rows, FALSE), rows, k)

SelectAllRecords(v, rows) ==
    UpdateScrollBars([v EXCEPT !.sticky = 0, !.sel = 1..Len(rows), !.anchor = 1,
                               !.cur = IF @ = 0 THEN 1 ELSE @], rows, FALSE)

(* The rows a copy takes: the selection, or the current record alone. *)
CopiedRows(v, rows) ==
    LET picked == v.sel \cap 1..Len(rows)
    IN InOrder(IF picked = {} THEN {v.cur} \cap 1..Len(rows) ELSE picked)
-----------------------------------------------------------------------------
(* What the model tells the view.                                            *)

(* Rows were inserted at the tail, or its last record changed in place. *)
HandleRows(v, rows) ==
    LET u == UpdateScrollBars(v, rows, FALSE) IN IF u.follow THEN ScrollToEnd(u, rows) ELSE u

(* Rows were removed at the tail: the selection model drops them. *)
HandleRowsRemoved(v, rows) == HandleRows([v EXCEPT !.sel = @ \cap 1..Len(rows)], rows)

(* Mutant: the reset a filter edit makes forgets the hidden record too. *)
ResetForgets(v, rows, held) ==
    UpdateScrollBars([v EXCEPT !.sticky = 0, !.drag = FALSE,
                               !.cur = 0, !.anchor = 0, !.sel = {}], rows, held)

HandleModelReset(v, rows, held) ==
    UpdateScrollBars([v EXCEPT !.sticky = IF held THEN @ ELSE 0, !.drag = FALSE,
                               !.cur = 0, !.anchor = 0, !.sel = {}], rows, held)

FilterAnchor(v, rows) ==
    LET t == IF rows = <<>> THEN 0 ELSE RecordAt(v, rows, v.top)
        c == v.cur \in 1..Len(rows)
    IN [topSource |-> SourceOf(rows, t), topOffset |-> IF t = 0 THEN 0 ELSE Up(v.top, LineOf(v, rows, t)),
        currentSource |-> SourceOf(rows, v.cur), on |-> c /\ OnScreen(v, rows, v.cur),
        above |-> IF c THEN Up(v.top, LineOf(v, rows, v.cur)) ELSE 0,
        below |-> IF c THEN Up(LineOf(v, rows, v.cur), v.top) ELSE 0]

(* The line that puts the reader back: the current record where it was on the
   screen, else the first survivor at or after what was at the top. *)
Target(v, rows, a, k) ==
    LET t == RowAtOrAfter(rows, a.topSource)
    IN IF rows = <<>> THEN 0
       ELSE IF k > 0 /\ a.on THEN Up(LineOf(v, rows, k) + a.above, a.below)
       ELSE IF a.topSource = 0 THEN 0
       ELSE IF t > Len(rows) THEN MaxTop(v, rows)
       ELSE LineOf(v, rows, t) + (IF rows[t].src = a.topSource THEN a.topOffset ELSE 0)

(* Mutant: the target is computed before the selection is put back. *)
EndFilterUpdateEarly(v, rows, a, following) ==
    LET wanted == IF a.currentSource > 0 THEN a.currentSource ELSE v.sticky
        k == IF wanted > 0 THEN RowOf(rows, wanted) ELSE 0
        s == IF k > 0 THEN [SelectRecordSilently(v, rows, k) EXCEPT !.sticky = 0]
             ELSE [v EXCEPT !.sticky = wanted]
        u == UpdateScrollBars(s, rows, TRUE)
        w == IF following THEN ScrollToEnd(u, rows)
             ELSE SetValue(u, rows, Target(v, rows, a, k), TRUE)
    IN [w EXCEPT !.follow = following]

EndFilterUpdate(v, rows, a, following) ==
    LET wanted == IF a.currentSource > 0 THEN a.currentSource ELSE v.sticky
        k == IF wanted > 0 THEN RowOf(rows, wanted) ELSE 0
        s == IF k > 0 THEN [SelectRecordSilently(v, rows, k) EXCEPT !.sticky = 0]
             ELSE [v EXCEPT !.sticky = wanted]
        u == UpdateScrollBars(s, rows, TRUE)
        w == IF following THEN ScrollToEnd(u, rows)
             ELSE SetValue(u, rows, Target(u, rows, a, k), TRUE)
    IN [w EXCEPT !.follow = following]
-----------------------------------------------------------------------------
Tallest == CHOOSE p \in Pages : \A q \in Pages : q <= p

ReadingInit ==
    /\ recs \in FirstLogs /\ narrow = FALSE /\ run = "all"
    /\ \E w \in Wraps :
          view = FollowTail([cur |-> 0, anchor |-> 0, sel |-> {}, top |-> 0, follow |-> TRUE,
                             sticky |-> 0, drag |-> FALSE, wrap |-> w, page |-> Tallest],
                            SpaceOf(recs, FALSE, "all"))
    /\ copy = Idle /\ clip = [got |-> <<>>, picked |-> <<>>, plain |-> TRUE]
    /\ chosen = 0 /\ slipped = FALSE /\ replaced = 0 /\ gestures = 0
-----------------------------------------------------------------------------
(* The reader.  A copy that shows its progress is application-modal.         *)

Gesture == ~copy.busy /\ gestures < MaxGestures /\ gestures' = gestures + 1
Rest    == UNCHANGED <<recs, narrow, run, copy, clip, replaced>>

Picks(v) == view' = v /\ chosen' = SourceOf(Rows, v.cur) /\ slipped' = FALSE /\ Rest
Stays    == Rest /\ UNCHANGED <<chosen, slipped>>

Under(v, y) == RecordAt(v, Rows, v.top + y)

(* A press on line y of the window: below the last record it picks that one. *)
Press(y, how) ==
    /\ Gesture /\ Rows # <<>> /\ y < view.page
    /\ LET k == Under(view, y)
       IN Picks(IF how = "ctrl" THEN ToggleRecord(view, Rows, k)
                ELSE [SetCurrentRecord(view, Rows, k, how = "shift") EXCEPT !.drag = TRUE])

(* The pointer, still down, is over line y of the window. *)
ExtendDragTo(v, y) ==
    IF Under(v, y) = v.cur THEN v ELSE SetCurrentRecord(v, Rows, Under(v, y), TRUE)

Drag(y) == /\ Gesture /\ view.drag /\ Rows # <<>> /\ y < view.page
           /\ Picks(ExtendDragTo(view, y))

(* The pointer is past an edge: the timer scrolls by a line, and the drag
   extends to the record at that edge. *)
AutoScroll(down) ==
    /\ Gesture /\ view.drag /\ Rows # <<>>
    /\ LET s == SetValue(view, Rows, IF down THEN view.top + 1 ELSE Up(view.top, 1), FALSE)
       IN Picks(ExtendDragTo(s, IF down THEN s.page - 1 ELSE 0))

Release == /\ view.drag /\ view' = [view EXCEPT !.drag = FALSE]
           /\ Stays /\ UNCHANGED gestures

KeyTarget(key) ==
    LET cur == IF view.cur = 0 THEN RecordAt(view, Rows, view.top) ELSE view.cur
        at  == IF cur > Len(Rows) THEN TotalLines(view, Rows) ELSE LineOf(view, Rows, cur)
    IN CASE key = "up"       -> Up(cur, 1)
         [] key = "down"     -> cur + 1
         [] key = "home"     -> 1
         [] key = "end"      -> Len(Rows)
         [] key = "pageup"   -> RecordAt(view, Rows, Up(at, view.page))
         [] key = "pagedown" -> RecordAt(view, Rows, at + view.page)

Key(key, shift) == /\ Gesture /\ Rows # <<>>
                   /\ Picks(SetCurrentRecord(view, Rows, KeyTarget(key), shift))

SelectAll == Gesture /\ Rows # <<>> /\ Picks(SelectAllRecords(view, Rows))

Scroll(line) == /\ Gesture /\ line \in 0..MaxTop(view, Rows)
                /\ view' = SetValue(view, Rows, line, FALSE)
                /\ Stays

Follow == /\ Gesture /\ ~view.follow /\ view' = FollowTail(view, Rows)
          /\ Stays

Resize(p) ==
    /\ Gesture /\ p # view.page
    /\ view' = UpdateScrollBars([view EXCEPT !.page = p], Rows, FALSE)
    /\ Stays

SetWrapMode(w) ==
    /\ Gesture /\ w # view.wrap
    /\ view' = UpdateScrollBars([view EXCEPT !.wrap = w], Rows, FALSE)
    /\ Stays

(* Another font: fewer or more lines in the window, and the same record and
   line at its top. *)
Zoom(p) ==
    /\ Gesture /\ p # view.page
    /\ LET u == UpdateScrollBars([view EXCEPT !.page = p], Rows, TRUE)
           t == IF Rows = <<>> THEN 0 ELSE RecordAt(view, Rows, view.top)
           into == IF t = 0 THEN 0 ELSE Up(view.top, LineOf(view, Rows, t))
           line == LineOf(u, Rows, t) + Lower(into, HeightOf(u, Rows, t) - 1)
       IN view' = IF u.follow THEN ScrollToEnd(u, Rows)
                  ELSE IF t = 0 THEN u ELSE SetValue(u, Rows, line, TRUE)
    /\ Stays
-----------------------------------------------------------------------------
(* The window: a filter edit keeps the reader's place; the pick of a run and   *)
(* a reload replace the rows.                                                  *)

(* The pane's edits arrive debounced: also while a copy is showing progress. *)
ApplyFilter ==
    /\ copy.busy \/ gestures < MaxGestures
    /\ gestures' = IF copy.busy THEN gestures ELSE gestures + 1
    /\ narrow' = ~narrow
    /\ LET rows == SpaceOf(recs, ~narrow, run)
       IN view' = EndFilterUpdate(HandleModelReset(view, rows, TRUE), rows,
                                  FilterAnchor(view, Rows), view.follow)
    /\ copy' = [copy EXCEPT !.void = @ \/ copy.busy]
    /\ slipped' = (slipped /\ view.sticky # chosen)
    /\ UNCHANGED <<recs, run, clip, chosen, replaced>>

(* The pick opens at the end of what it shows, and follows: "all" and the
   newest run are still being written. *)
SelectRun ==
    /\ Gesture /\ run' = (IF run = "all" THEN "last" ELSE "all")
    /\ LET rows == SpaceOf(recs, narrow, run')
           v == SetCurrentRecord(HandleModelReset(view, rows, FALSE), rows, Len(rows), FALSE)
       IN /\ view' = FollowTail(v, rows)
          /\ chosen' = SourceOf(rows, view'.cur) /\ slipped' = FALSE
    /\ UNCHANGED <<recs, narrow, copy, clip, replaced>>

(* The log was replaced: the rows are those of the new one. *)
Rescan(new) ==
    /\ replaced < MaxReplaced /\ replaced' = replaced + 1
    /\ recs' = new
    /\ LET rows == SpaceOf(new, narrow, run)
           v == HandleModelReset(view, rows, FALSE)
       IN view' = IF v.follow THEN FollowTail(v, rows) ELSE v
    /\ copy' = [copy EXCEPT !.void = @ \/ copy.busy]
    /\ chosen' = 0 /\ slipped' = FALSE
    /\ UNCHANGED <<narrow, run, clip, gestures>>
-----------------------------------------------------------------------------
(* The watch tick: the last record is re-read, and perhaps changed; others     *)
(* follow it.                                                                  *)

Grown(last, new) == [k \in 1..(Len(recs) + Len(new)) |->
                       IF k < Len(recs) THEN recs[k]
                       ELSE IF k = Len(recs) THEN last ELSE new[k - Len(recs)]]

(* The unfiltered view: rows are appended, and the tail row is told to have
   changed. *)
IngestedPlain(rs, changed, new) ==
    LET all == SpaceOf(rs, FALSE, "all")
        v == IF new = <<>> THEN view ELSE HandleRows(view, all)
    IN IF changed THEN HandleRows(v, all) ELSE v

(* The filtered view: the row of a changed tail is taken out, and what passes
   of it and of the new records is appended. *)
IngestedFiltered(rs, changed, from) ==
    LET base == Len(recs)
        rows == Space(rs, RowsFrom(rs, narrow, from))
        pop  == changed /\ Rows # <<>> /\ Rows[Len(Rows)].src = base
        left == {Rows[k].src : k \in 1..Len(Rows)} \ (IF pop THEN {base} ELSE {})
        kept == Space(rs, InOrder(left))
        v == IF pop THEN HandleRowsRemoved(view, kept) ELSE view
    IN IF Len(rows) > Len(kept) THEN HandleRows(v, rows) ELSE v

(* A new run began: the view that shows the newest one moves on to it. *)
RunMoved(v, rs) ==
    LET rows == SpaceOf(rs, narrow, "last")
        u == HandleModelReset(v, rows, FALSE)
    IN IF u.follow THEN FollowTail(u, rows) ELSE u

Ingest(last, new) ==
    /\ recs # <<>> /\ (last # recs[Len(recs)] \/ new # <<>>)
    /\ Len(recs) + Len(new) <= MaxRecords
    /\ LET base == Len(recs)
           changed == last # recs[base]
           rs == Grown(last, new)
           from == RunFrom(recs, run)
           moved == run = "last" /\ RunFrom(rs, run) # from
           filtered == narrow \/ (run = "last" /\ \E i \in 1..base : recs[i].mark)
           old == IF moved THEN RunFrom(rs, run) ELSE Len(rs) + 1
           v == IF ~filtered THEN IngestedPlain(rs, changed, new)
                ELSE IngestedFiltered(SubSeq(rs, 1, old - 1), changed, from)
       IN /\ recs' = rs
          /\ view' = IF moved THEN RunMoved(v, rs) ELSE v
          /\ copy' = [copy EXCEPT !.void = @ \/ (moved /\ copy.busy)]
          /\ chosen' = IF moved THEN 0 ELSE chosen
          /\ slipped' = (/\ ~moved
                         /\ \/ slipped
                            \/ narrow /\ chosen = base /\ last.shown # recs[base].shown)
    /\ UNCHANGED <<narrow, run, clip, replaced, gestures>>
-----------------------------------------------------------------------------
(* Copying the selection: at once, or in chunks between which events run.    *)

Copied(rows) == [k \in 1..Len(rows) |-> <<replaced, Rows[rows[k]].src>>]

(* The rows of a selection that are still there: rows leave at the tail, and it
   is in order. *)
Present(rows) == SubSeq(rows, 1, Cardinality({i \in 1..Len(rows) : rows[i] <= Len(Rows)}))

CopyStart ==
    /\ Gesture
    /\ LET rows == CopiedRows(view, Rows)
       IN /\ rows # <<>>
          /\ IF Len(rows) <= Threshold
             THEN /\ clip' = [got |-> Copied(rows), picked |-> Copied(rows), plain |-> ~narrow]
                  /\ copy' = Idle
             ELSE /\ copy' = [busy |-> TRUE, rows |-> rows, got |-> <<>>,
                              picked |-> Copied(rows), void |-> FALSE]
                  /\ UNCHANGED clip
    /\ UNCHANGED <<recs, narrow, run, view, chosen, slipped, replaced>>

CopyChunk ==
    /\ copy.busy /\ ~copy.void /\ copy.rows # <<>>
    /\ LET n == Lower(Chunk, Len(copy.rows))
       IN copy' = [copy EXCEPT !.rows = SubSeq(@, n + 1, Len(@)),
                               !.got = @ \o Copied(Present(SubSeq(copy.rows, 1, n)))]
    /\ UNCHANGED <<recs, narrow, run, view, clip, chosen, slipped, replaced, gestures>>

(* Mutant: a reset under the walk does not abandon it. *)
CopyEndAnyway ==
    /\ copy.busy /\ (copy.rows = <<>> \/ copy.void)
    /\ clip' = [got |-> copy.got, picked |-> copy.picked, plain |-> ~narrow]
    /\ copy' = Idle
    /\ UNCHANGED <<recs, narrow, run, view, chosen, slipped, replaced, gestures>>

CopyEnd ==
    /\ copy.busy /\ (copy.rows = <<>> \/ copy.void)
    /\ clip' = IF copy.void THEN clip
               ELSE [got |-> copy.got, picked |-> copy.picked, plain |-> ~narrow]
    /\ copy' = Idle
    /\ UNCHANGED <<recs, narrow, run, view, chosen, slipped, replaced, gestures>>

CopyCancel ==
    /\ copy.busy /\ copy' = Idle
    /\ UNCHANGED <<recs, narrow, run, view, clip, chosen, slipped, replaced, gestures>>
-----------------------------------------------------------------------------
Taller(r)  == [r EXCEPT !.h = @ + 1]
Flipped(r) == [r EXCEPT !.shown = ~@]

ReadingNext ==
    \/ \E y \in 0..Tallest, how \in {"plain", "shift", "ctrl"} : Press(y, how)
    \/ \E y \in 0..Tallest : Drag(y)
    \/ \E down \in BOOLEAN : AutoScroll(down)
    \/ Release
    \/ \E key \in {"up", "down", "home", "end", "pageup", "pagedown"}, shift \in BOOLEAN :
          Key(key, shift)
    \/ SelectAll \/ Follow \/ ApplyFilter \/ SelectRun
    \/ \E line \in 0..TotalLines(view, Rows) : Scroll(line)
    \/ \E p \in Pages : Resize(p) \/ Zoom(p)
    \/ \E w \in Wraps : SetWrapMode(w)
    \/ \E new \in FirstLogs : Rescan(new)
    \/ \E new \in {<<>>} \cup {<<k>> : k \in Kinds} :
          recs # <<>> /\ \E last \in {recs[Len(recs)], Taller(recs[Len(recs)]),
                                      Flipped(recs[Len(recs)])} :
                last.h <= MaxHeight /\ Ingest(last, new)
    \/ CopyStart \/ CopyChunk \/ CopyEnd \/ CopyCancel

ReadingSpec == ReadingInit /\ [][ReadingNext]_readingVars
-----------------------------------------------------------------------------
ReadingTypeOK ==
    /\ Len(recs) <= MaxRecords
    /\ view.top \in 0..MaxTop(view, Rows)
    /\ view.sel \subseteq 1..Len(Rows)

(* The record the reader picked stays the one that is current until the log is *)
(* replaced or the view moves on to another run: under its row wherever that    *)
(* moves, and remembered, with nothing current in its place, while a filter     *)
(* hides it (setCurrentRecord, beginFilterUpdate and endFilterUpdate,           *)
(* handleModelReset, ingestAppended).  Not so for a last record that slipped:   *)
(* one whose growing made it pass the filter, or fail it, under the reader.     *)
(* That it came in time is made good by the next filter edit; that it went is   *)
(* not (NoNeighbourIsPicked).                                                   *)
ChosenIsKept ==
    chosen > 0 /\ ~slipped =>
        LET k == RowOf(Rows, chosen)
        IN IF k > 0 THEN view.cur = k
           ELSE view.sticky = chosen /\ view.cur = 0 /\ view.sel = {}

(* What endFilterUpdate's comment says of a record that is hidden, of every     *)
(* way a record loses its row: the current record never becomes one that the    *)
(* reader did not pick.  handleRowsRemoved leaves the row number as it was, and *)
(* the next record that passes takes that row.                                  *)
NoNeighbourIsPicked ==
    chosen > 0 /\ view.cur \in 1..Len(Rows) => SourceOf(Rows, view.cur) = chosen

(* What a filter edit leaves of the reader's place: a view that follows is at  *)
(* the end of the new rows and goes on following, a detached one stays         *)
(* detached; the current record, when it was on the screen and survives, is    *)
(* at the height of the window it was at, as far as the scroll range allows;   *)
(* else nothing above the old top comes back into view.                        *)
PlaceIsKept ==
    [][narrow' # narrow =>
         LET old == view.top
             at  == SourceOf(Rows, view.cur)
             k   == RowOf(Rows', at)
             now == LineOf(view', Rows', k)
             was == LineOf(view, Rows, view.cur)
             end == MaxTop(view', Rows')
         IN /\ view'.follow = view.follow
            /\ view.follow => view'.top = end
            /\ (/\ ~view.follow /\ at > 0 /\ k > 0
                /\ OnScreen(view, Rows, view.cur))
                 => view'.top = Lower(end, Up(now + old, was))
            /\ (/\ ~view.follow /\ Rows # <<>> /\ Rows' # <<>>
                /\ ~(view.cur \in 1..Len(Rows) /\ OnScreen(view, Rows, view.cur)))
                 => \/ view'.top = end
                    \/ Rows'[RecordAt(view', Rows', view'.top)].src
                         >= Rows[RecordAt(view, Rows, old)].src]_readingVars

(* What is pasted is what was selected when the copy was asked for, every      *)
(* record of it and of one log, unless a filter is on (walkSelection).         *)
CopyIsTheSelection == clip.plain => clip.got = clip.picked

(* What walkSelection's comment promises of every view: a row that has gone    *)
(* is skipped, and no row becomes another record without a reset.              *)
NoCopyMixesRecords == {clip.got[i] : i \in 1..Len(clip.got)}
                        \subseteq {clip.picked[i] : i \in 1..Len(clip.picked)}

(* SPEC 3: a reader who scrolled back stays detached until he goes to the end  *)
(* himself, whatever the log does.                                             *)
DetachedStays ==
    [][gestures' = gestures /\ ~view.follow => ~view'.follow]_readingVars

(* A view that follows shows the newest record: only the reader's own          *)
(* scrolling leaves the end of the log.                                        *)
FollowingIsAtTheEnd == view.follow => view.top = MaxTop(view, Rows)
=============================================================================
