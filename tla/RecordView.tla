------------------------------ MODULE RecordView ------------------------------
(* What the reader of a live log is shown: the record index the scan builds,   *)
(* the runs it is split into, the filtered view with its context rows, the     *)
(* digest and the counts of the Runs pane, all of them kept up to date in      *)
(* place while the log grows (Indexer, RecordIndex, FilteredIndex,             *)
(* ContextEmitter, Document, LiveController::ingestAppended).                  *)
(*                                                                             *)
(* A line is what the parts that read it tell apart: it starts a record or     *)
(* continues one, it carries the run-start text, it carries the text the       *)
(* filter and the rules look for, its level is below the filter's minimum.     *)
(* The last line of the log may be unterminated: a prefix of what it will be.  *)
(* The document is one value, and its methods are operators on that value.     *)
EXTENDS Integers, Sequences, FiniteSets, SequencesExt

CONSTANTS Lines,       \* the kinds of lines a log may hold
          MaxLines,    \* bound: the lines of the log, two fewer once it was replaced
          Before,      \* m_contextBefore
          After,       \* m_contextAfter
          Filters,     \* the settings of the filter pane that are tried
          Rules,       \* the digest rules: "hit" matches the text, "miss" its absence
          BlockSize,   \* RecordIndex::kBlockSize
          LineCap,     \* RecordIndex::kDisplayLineCap
          Lookback,    \* Document::kDigestLookback
          MaxRotations \* bound: replacements of the file

ASSUME RecordViewAssumption ==
  /\ Lines \subseteq [start : BOOLEAN, mark : BOOLEAN, hit : BOOLEAN, low : BOOLEAN]
  /\ Filters \subseteq [text : BOOLEAN, negate : BOOLEAN, level : BOOLEAN]
  /\ Rules \subseteq {"hit", "miss"}
  /\ {MaxLines, BlockSize, LineCap, Lookback} \subseteq Nat \ {0}
  /\ {Before, After, MaxRotations} \subseteq Nat

VARIABLES file,      \* the log's lines, the last one perhaps a prefix
          shut,      \* the last line is terminated
          stage,     \* "scanning": the worker has the document; "live": watched
          doc,       \* the document
          grown,     \* history: records that grew after they were indexed
          strayed,   \* history: a run was picked since the digest was last built
          rotations  \* bound

viewVars == <<file, shut, stage, doc, grown, strayed, rotations>>

Smaller(a, b) == IF a < b THEN a ELSE b
Larger(a, b)  == IF a < b THEN b ELSE a
Last0(S) == IF S = {} THEN 0 ELSE CHOOSE x \in S : \A y \in S : y <= x

(* The members of a set of numbers, in ascending order; joined to the empty
   sequence, which has TLC compute it once and not at every use. *)
InOrder(S) ==
  [k \in 1..Cardinality(S) |-> CHOOSE x \in S : Cardinality({y \in S : y <= x}) = k]
    \o <<>>
-----------------------------------------------------------------------------
(* The index.                                                                *)

(* The records a forward scan finds in lines from..Len(lines). A line opens a
   record when it starts one, and also while no parsed record is open. *)
Scan(lines, closed, from) ==
  LET opens == {i \in from..Len(lines) :
                  lines[i].start \/ ~ \E j \in from..(i - 1) : lines[j].start}
      at == InOrder(opens)
      next(k) == IF k = Len(at) THEN Len(lines) + 1 ELSE at[k + 1]
  IN [k \in 1..Len(at) |->
        [from |-> at[k], len |-> next(k) - at[k], parsed |-> lines[at[k]].start,
         ok |-> lines[at[k]].start /\ ~lines[at[k]].low,
         shut |-> k < Len(at) \/ closed]]

Height(r) == Smaller(r.len, LineCap)
\* The lines of the first records, as many as there are of them.
HeightsUpTo(recs) ==
  LET lines[n \in 0..Len(recs)] == IF n = 0 THEN 0 ELSE lines[n - 1] + Height(recs[n])
  IN  lines
Heights(recs) == HeightsUpTo(recs)[Len(recs)]

Blocks(n) == (n + BlockSize - 1) \div BlockSize

(* One entry for every block, the lines before it, and the total. *)
RebuiltSums(recs) ==
  [b \in 1..(Blocks(Len(recs)) + 1) |->
     Heights(SubSeq(recs, 1, Smaller((b - 1) * BlockSize, Len(recs))))]

(* Keeps the entries up to the block that holds record `valid` and computes
   the rest from there. *)
ExtendedSums(sums, recs, valid) ==
  LET kept == Smaller(valid, Len(recs)) \div BlockSize
      acc  == IF kept < Len(sums) THEN sums[kept + 1] ELSE 0
  IN IF sums = <<>> THEN RebuiltSums(recs)
     ELSE [b \in 1..(Larger(Blocks(Len(recs)), kept) + 1) |->
             IF b <= kept THEN sums[b]
             ELSE acc + Heights(SubSeq(recs, kept * BlockSize + 1,
                                       Smaller((b - 1) * BlockSize, Len(recs))))]
-----------------------------------------------------------------------------
(* What the document answers about its record i.                             *)

HasHit(d, i) == \E k \in d.records[i].from..(d.records[i].from + d.records[i].len - 1) :
                  d.seen[k].hit
IsMarker(d, i) == d.seen[d.records[i].from].mark
RuleMatches(d, q, i) == IF q = "hit" THEN HasHit(d, i) ELSE ~HasHit(d, i)

InRunBound(d, i) == d.bound.on => /\ d.records[i].from >= d.bound.from
                                  /\ d.records[i].from < d.bound.to
InContextStream(d, i) == InRunBound(d, i) /\ (d.filter.level => d.records[i].ok)
MatchesTextAxis(d, i) == d.filter.text => HasHit(d, i) # d.filter.negate
AcceptsInView(d, i) == InContextStream(d, i) /\ MatchesTextAxis(d, i)

Restricts(d) == d.bound.on \/ d.filter.text \/ d.filter.level
-----------------------------------------------------------------------------
(* The filtered view.                                                        *)

Identity == [active |-> FALSE, rows |-> <<>>, copy |-> <<>>, sums |-> <<>>]

(* One row of emitWithContext(): st is what it carries from row to row. *)
EmitRow(d, st, r) ==
  LET wanted == {q \in (st.emitted + 1)..(r - 1) : InContextStream(d, q)}
      lead   == {q \in wanted :
                   Cardinality({p \in wanted : p >= q}) <= Before}
      leading == [k \in 1..Cardinality(lead) |->
                    [row |-> InOrder(lead)[k], context |-> TRUE]]
  IN IF ~InContextStream(d, r) THEN st
     ELSE IF MatchesTextAxis(d, r)
     THEN [out |-> st.out \o leading \o <<[row |-> r, context |-> FALSE]>>,
           emitted |-> r, match |-> r, since |-> 0]
     ELSE IF st.match > 0 /\ st.since < After
     THEN [st EXCEPT !.out = Append(@, [row |-> r, context |-> TRUE]),
                     !.emitted = r, !.since = @ + 1]
     ELSE st

\* The rows from `first` on, one after another.
Emission(d, first, st) ==
  LET upto[r \in (first - 1)..Len(d.records)] ==
        IF r = first - 1 THEN st ELSE EmitRow(d, upto[r - 1], r)
  IN  upto
EmitWithContext(d, first, st) == Emission(d, first, st)[Len(d.records)]

CopyOf(d, rows) == [k \in 1..Len(rows) |-> d.records[rows[k].row]]

ApplyFilters(d) ==
  LET rows == EmitWithContext(d, 1, [out |-> <<>>, emitted |-> 0, match |-> 0,
                                     since |-> 0]).out
  IN [d EXCEPT !.view = IF ~Restricts(d) THEN Identity
                        ELSE [active |-> TRUE, rows |-> rows, copy |-> CopyOf(d, rows),
                              sums |-> RebuiltSums(CopyOf(d, rows))]]

(* The record `before` in-stream records above i, or the first record. *)
ContextWindowStart(d, i, before) ==
  LET above == {q \in 1..(i - 1) : InContextStream(d, q)}
  IN IF before = 0 THEN i
     ELSE IF Cardinality(above) < before THEN 1
     ELSE CHOOSE q \in above : Cardinality({p \in above : p >= q}) = before

LastMatchSource(v) ==
  Last0({v.rows[k].row : k \in {j \in 1..Len(v.rows) : ~v.rows[j].context}})

(* Mutant: the scan resumes at the provisional record whatever it pulled in. *)
ResumeAtProvisional(d, base, changed) == IF changed THEN base ELSE base + 1

(* The row the incremental emission resumes from: the provisional record when
   it changed, and the whole of its leading window when it became a match or
   stopped being one. *)
ResumeRow(d, base, changed) ==
  IF ~changed THEN base + 1
  ELSE IF Before > 0 /\ (LastMatchSource(d.view) = base) # AcceptsInView(d, base)
       THEN ContextWindowStart(d, base, Before)
       ELSE base

(* The filtered branch of ingestAppended(): rows from the resume point on are
   withdrawn, and the same emitter runs over them with the state read back off
   the rows that stay. *)
ExtendedView(d, base, changed) ==
  LET first == IF base = 0 THEN 1 ELSE ResumeRow(d, base, changed)
      keep  == Cardinality({k \in 1..Len(d.view.rows) : d.view.rows[k].row < first})
      rows  == SubSeq(d.view.rows, 1, keep)
      copy  == SubSeq(d.view.copy, 1, keep)
      sums  == IF keep < Len(d.view.rows) THEN ExtendedSums(d.view.sums, copy, keep)
               ELSE d.view.sums
      last  == LastMatchSource([d.view EXCEPT !.rows = rows])
      st    == [out |-> rows,
                emitted |-> IF keep = 0 THEN 0 ELSE rows[keep].row, match |-> last,
                since |-> IF last = 0 THEN 0
                          ELSE Cardinality({k \in 1..keep : rows[k].row > last})]
      new   == EmitWithContext(d, first, st).out
      added == CopyOf(d, SubSeq(new, keep + 1, Len(new)))
  IN [active |-> TRUE, rows |-> new, copy |-> copy \o added,
      sums |-> IF added = <<>> THEN sums ELSE ExtendedSums(sums, copy \o added, keep)]

ExtendView(d, base, changed) == [d EXCEPT !.view = ExtendedView(d, base, changed)]
-----------------------------------------------------------------------------
(* The runs.                                                                 *)

Unbounded == [on |-> FALSE, from |-> 0, to |-> 0]

RecomputeViewBounds(d) ==
  [d EXCEPT !.bound =
     IF d.selected = 0 \/ d.selected > Len(d.runs) THEN Unbounded
     ELSE [on |-> TRUE, from |-> d.runs[d.selected].from,
           to |-> IF d.selected < Len(d.runs) THEN d.runs[d.selected + 1].from
                  ELSE MaxLines + 1]]

Run(d, i, preamble) == [row |-> i, from |-> d.records[i].from, preamble |-> preamble]

(* The runs that the markers among records from..n begin, after those of `old`. *)
WithRuns(d, old, first) ==
  LET at == InOrder({i \in first..Len(d.records) : IsMarker(d, i)})
      begun == [k \in 1..Len(at) |-> Run(d, at[k], FALSE)]
  IN IF at = <<>> THEN old
     ELSE IF old = <<>> /\ at[1] > 1 THEN <<Run(d, 1, TRUE)>> \o begun
     ELSE old \o begun

DetectRuns(d) ==
  LET runs == WithRuns(d, <<>>, 1)
  IN RecomputeViewBounds(
       [d EXCEPT !.runs = runs, !.memo = [scanned |-> 0, count |-> 0],
                 !.selected = IF d.follow \/ @ > Len(runs) THEN Len(runs) ELSE @])

(* Mutant: the provisional record is looked at again on every append. *)
UpdateRunsFromProvisional(d, oldCount) ==
  RecomputeViewBounds([d EXCEPT !.runs = WithRuns(d, @, Larger(oldCount, 1))])

UpdateRunsAfterAppend(d, oldCount) ==
  LET runs == WithRuns(d, d.runs, oldCount + 1)
  IN IF runs = d.runs THEN d ELSE RecomputeViewBounds([d EXCEPT !.runs = runs])

SelectLastRun(d) ==
  RecomputeViewBounds([d EXCEPT !.follow = TRUE, !.selected = Len(d.runs)])

SelectRun(d, k) ==
  RecomputeViewBounds([d EXCEPT !.selected = k,
                                !.follow = k > 0 /\ k = Len(d.runs)])

(* fileStats(): the fold over the levels, resumed where the last one stopped. *)
FoldStats(d) ==
  LET from == IF d.memo.scanned > Len(d.records) THEN 0 ELSE d.memo.scanned
      base == IF d.memo.scanned > Len(d.records) THEN 0 ELSE d.memo.count
  IN [d EXCEPT !.memo = [scanned |-> Len(d.records),
                         count |-> base + Cardinality({i \in (from + 1)..Len(d.records) :
                                                         d.records[i].ok})]]
-----------------------------------------------------------------------------
(* The digest.                                                               *)

(* The newest record at or before n that q matches, among the last Lookback
   ones inside the selected run; 0 when there is none. *)
NewestMatch(d, q, n) ==
  LET inBound == {i \in 1..n : InRunBound(d, i)}
  IN Last0({i \in inBound : /\ Cardinality({j \in inBound : j >= i}) <= Lookback
                            /\ RuleMatches(d, q, i)})

PublishDigest(d, force) ==
  LET rows == {d.last[q] : q \in Rules} \ {0}
  IN IF ~force /\ rows = {x.row : x \in d.digest} THEN d
     ELSE [d EXCEPT !.digest = {[row |-> i, copy |-> d.records[i]] : i \in rows}]

RebuildDigest(d) ==
  PublishDigest([d EXCEPT !.last = [q \in Rules |-> NewestMatch(d, q, Len(d.records))]],
                FALSE)

(* Mutant: only the new records are looked at. *)
UpdateDigestForwardOnly(d, oldCount, changed, base) ==
  LET new(q) == Last0({i \in (oldCount + 1)..Len(d.records) :
                         InRunBound(d, i) /\ RuleMatches(d, q, i)})
  IN PublishDigest([d EXCEPT !.last = [q \in Rules |-> IF new(q) > 0 THEN new(q)
                                                       ELSE @[q]]], FALSE)

(* The provisional record may have stopped matching a rule whose newest match
   it was; every new record inside the run may take a rule over. *)
UpdateDigestAfterAppend(d, oldCount, changed, base) ==
  LET held(q)  == changed /\ base > 0 /\ d.last[q] = base
      stays(q) == InRunBound(d, base) /\ RuleMatches(d, q, base)
      re(q)    == IF held(q) /\ ~stays(q) THEN NewestMatch(d, q, base - 1) ELSE d.last[q]
      new(q)   == Last0({i \in (oldCount + 1)..Len(d.records) :
                           InRunBound(d, i) /\ RuleMatches(d, q, i)})
      last     == [q \in Rules |-> IF new(q) > 0 THEN new(q) ELSE re(q)]
      stale    == \E q \in Rules : held(q) /\ stays(q)
  IN IF last = d.last /\ ~stale THEN d
     ELSE PublishDigest([d EXCEPT !.last = last], stale)
-----------------------------------------------------------------------------
(* The whole of a scan and of a tick.                                        *)

NoDigest == [q \in Rules |-> 0]

Cleared(d) == [d EXCEPT !.view = Identity, !.last = NoDigest, !.digest = {},
                        !.runs = <<>>, !.selected = 0, !.bound = Unbounded,
                        !.memo = [scanned |-> 0, count |-> 0],
                        !.records = <<>>, !.sums = <<0>>, !.seen = <<>>]

Indexed(d, lines, closed) ==
  LET recs == Scan(lines, closed, 1)
  IN [d EXCEPT !.seen = lines, !.records = recs, !.sums = RebuiltSums(recs)]

(* A document on which indexing has finished: the runs, the selection, the
   filters, the digest. *)
Presented(d) ==
  LET chosen == SelectLastRun(DetectRuns(d))
  IN FoldStats(RebuildDigest(IF Restricts(chosen) THEN ApplyFilters(chosen) ELSE chosen))

(* The tail is read again from the last record on. *)
TailStart(d) == IF d.records = <<>> THEN 1 ELSE d.records[Len(d.records)].from

(* The last record is not what it was, in its length at least. *)
ProvisionalChanged(d, lines, closed) ==
  LET from == TailStart(d)
  IN /\ d.records # <<>>
     /\ \/ Scan(lines, closed, from)[1] # d.records[Len(d.records)]
        \/ SubSeq(lines, from, Len(d.seen)) # SubSeq(d.seen, from, Len(d.seen))

IngestAppended(d, lines, closed) ==
  LET oldCount == Len(d.records)
      base     == oldCount
      tail     == Scan(lines, closed, TailStart(d))
      changed  == ProvisionalChanged(d, lines, closed)
      recs     == SubSeq(d.records, 1, oldCount - 1) \o tail
      stored   == [d EXCEPT !.seen = lines, !.records = recs,
                     !.sums = IF ~changed /\ Len(recs) = oldCount THEN @
                              ELSE ExtendedSums(@, recs, IF changed THEN base - 1
                                                         ELSE oldCount)]
      split    == UpdateRunsAfterAppend(stored, oldCount)
      shown    == IF d.view.active THEN ExtendView(split, base, changed) ELSE split
  IN UpdateDigestAfterAppend(shown, oldCount, changed, base)

(* MainWindow's handler of ingested(): a selection that follows the last run
   moves to it, and the view and the digest are built again. *)
FollowLastRunIfMoved(d) ==
  IF ~d.follow \/ d.selected = Len(d.runs) THEN d
  ELSE RebuildDigest(ApplyFilters(
         RecomputeViewBounds([d EXCEPT !.selected = Len(d.runs)])))
-----------------------------------------------------------------------------
(* The application that writes the log.                                      *)

(* What a prefix of line l may look like to the parts that read it. A level is
   read of a line that starts a record, and stands once it is. *)
Glimpses(l) == {p \in Lines : /\ p.start => (l.start /\ p.low = l.low)
                              /\ p.mark => l.mark
                              /\ p.hit => l.hit}

WriteLine(l, whole) ==
  /\ shut /\ Len(file) + 2 * rotations < MaxLines
  /\ file' = Append(file, l) /\ shut' = whole
  /\ UNCHANGED <<stage, doc, grown, strayed, rotations>>

FinishLine(l) ==
  /\ ~shut /\ file[Len(file)] \in Glimpses(l)
  /\ file' = [file EXCEPT ![Len(file)] = l] /\ shut' = TRUE
  /\ UNCHANGED <<stage, doc, grown, strayed, rotations>>

(* The last record, when it was indexed with its line still being written. *)
Half(d) == {i \in 1..Len(d.records) : ~d.records[i].shut}

(* The worker's scan is handed to the model whole, and the owner settles what
   the reader sees. The scan ends at the size the source had when it began. *)
FinishScan ==
  /\ stage = "scanning"
  /\ stage' = "live"
  /\ \/ \E n \in 0..Len(file) :
          doc' = Presented(Indexed(Cleared(doc), SubSeq(file, 1, n),
                                   n < Len(file) \/ shut))
     \/ \E n \in 1..Len(file) : \E p \in Glimpses(file[n]) :
          doc' = Presented(Indexed(Cleared(doc), Append(SubSeq(file, 1, n - 1), p),
                                   FALSE))
  /\ grown' = {}
  /\ UNCHANGED <<file, shut, strayed, rotations>>

(* A watch tick on a log that has grown. *)
Tick ==
  /\ stage = "live"
  /\ file # doc.seen \/ (shut /\ Half(doc) # {})
  /\ doc' = FoldStats(FollowLastRunIfMoved(IngestAppended(doc, file, shut)))
  /\ grown' = grown \cup (IF ProvisionalChanged(doc, file, shut)
                         THEN {Len(doc.records)} ELSE {})
  /\ strayed' = (strayed /\ doc'.selected = doc.selected)
  /\ UNCHANGED <<file, shut, stage, rotations>>

(* The file is replaced and the tick that sees it reads it from the top. *)
Rotate(l) ==
  /\ stage = "live" /\ rotations < MaxRotations
  /\ rotations' = rotations + 1
  /\ file' = <<l>> /\ shut' = TRUE
  /\ LET read   == SelectLastRun(DetectRuns(Indexed(Cleared(doc), <<l>>, TRUE)))
         digest == RebuildDigest(read)
     IN doc' = FoldStats(IF Restricts(digest) THEN ApplyFilters(digest) ELSE digest)
  /\ grown' = {} /\ strayed' = FALSE
  /\ UNCHANGED stage

(* The reader changes the filter, or picks a run in the Runs pane (0: all). *)
ChangeFilter(f) ==
  /\ stage = "live" /\ f # doc.filter
  /\ doc' = ApplyFilters([doc EXCEPT !.filter = f])
  /\ UNCHANGED <<file, shut, stage, grown, strayed, rotations>>

PickRun(k) ==
  /\ stage = "live"
  /\ k \in 0..Len(doc.runs)
  /\ doc' = ApplyFilters(SelectRun(doc, k))
  /\ strayed' = (strayed \/ doc'.bound # doc.bound)
  /\ UNCHANGED <<file, shut, stage, grown, rotations>>

EmptyDoc(f) ==
  [seen |-> <<>>, records |-> <<>>, sums |-> <<0>>, runs |-> <<>>, selected |-> 0,
   follow |-> TRUE, bound |-> Unbounded, filter |-> f, view |-> Identity,
   last |-> NoDigest, digest |-> {}, memo |-> [scanned |-> 0, count |-> 0]]

ViewInit ==
  /\ file = <<>> /\ shut = TRUE /\ stage = "scanning"
  /\ doc \in {EmptyDoc(f) : f \in Filters}
  /\ grown = {} /\ strayed = FALSE /\ rotations = 0

ViewNext ==
  \/ \E l \in Lines, whole \in BOOLEAN : WriteLine(l, whole)
  \/ \E l \in Lines : FinishLine(l) \/ Rotate(l)
  \/ FinishScan \/ Tick
  \/ \E f \in Filters : ChangeFilter(f)
  \/ \E k \in 0..MaxLines : PickRun(k)

ViewSpec == ViewInit /\ [][ViewNext]_viewVars
-----------------------------------------------------------------------------
(* Properties.                                                               *)

RecordViewTypeOK ==
  /\ file \in Seq(Lines) /\ Len(file) <= MaxLines /\ shut \in BOOLEAN
  /\ stage \in {"scanning", "live"} /\ strayed \in BOOLEAN
  /\ grown \subseteq 1..MaxLines /\ rotations \in 0..MaxRotations
  /\ doc.filter \in Filters /\ doc.selected \in 0..Len(doc.runs)
  /\ doc.follow \in BOOLEAN

(* What a one-shot search would show: the matches, and the records within
   Before and After of one, counted over the records the other filters admit. *)
Between(a, b) == Cardinality({i \in a..b : InContextStream(doc, i)})
Shown(i) ==
  \/ AcceptsInView(doc, i)
  \/ /\ InContextStream(doc, i)
     /\ \E m \in 1..Len(doc.records) :
          /\ AcceptsInView(doc, m)
          /\ \/ m > i /\ Between(i, m - 1) <= Before
             \/ m < i /\ Between(m + 1, i) <= After
WantedRows ==
  LET at == InOrder({i \in 1..Len(doc.records) : Shown(i)})
  IN [k \in 1..Len(at) |-> [row |-> at[k], context |-> ~AcceptsInView(doc, at[k])]]

(* The view extended in place tick by tick is the one a search from scratch
   gives: the same rows, the same ones marked as context, no record at the
   height it used to have, and the line sums the scrollbar runs on exact. *)
ViewIsExact ==
  stage = "live" =>
    /\ doc.records = Scan(doc.seen, doc.records = <<>> \/ Half(doc) = {}, 1)
    /\ doc.sums = RebuiltSums(doc.records)
    /\ IF Restricts(doc)
       THEN doc.view = [active |-> TRUE, rows |-> WantedRows,
                        copy |-> CopyOf(doc, WantedRows),
                        sums |-> RebuiltSums(CopyOf(doc, WantedRows))]
       ELSE doc.view = Identity

Listed == {doc.runs[k].row : k \in 1..Len(doc.runs)}

(* The Runs pane tells the truth: the runs are the markers in order, each once,
   after a preamble when the first of them is not at the top; only a record
   that grew after it was indexed may be missing from the list or from the
   count of errors; and the view is bounded by the run selected. *)
RunsAreListed ==
  stage = "live" =>
    /\ \A k \in 1..(Len(doc.runs) - 1) : doc.runs[k].row < doc.runs[k + 1].row
    /\ \A k \in 1..Len(doc.runs) : IF doc.runs[k].preamble THEN k = 1 /\ doc.runs[k].row = 1
                                   ELSE IsMarker(doc, doc.runs[k].row)
    /\ \A i \in 1..Len(doc.records) : IsMarker(doc, i) => i \in Listed \cup grown
    /\ doc.runs # <<>> => 1 \in Listed
    /\ doc.follow => doc.selected = Len(doc.runs)
    /\ doc.bound = RecomputeViewBounds(doc).bound
    /\ LET errors == {i \in 1..Len(doc.records) : doc.records[i].ok}
       IN doc.memo.count \in Cardinality(errors \ grown)..Cardinality(errors)

(* The digest never lists a record that no longer matches its rule nor one at
   a height it used to have, and misses a newer match only where the record
   grew after it was indexed or another run was picked. *)
DigestHolds ==
  stage = "live" =>
    /\ {x.row : x \in doc.digest} = {doc.last[q] : q \in Rules} \ {0}
    /\ \A x \in doc.digest : x.copy = doc.records[x.row]
    /\ \A q \in Rules :
         /\ doc.last[q] > 0 => RuleMatches(doc, q, doc.last[q])
         /\ ~strayed => /\ doc.last[q] > 0 => InRunBound(doc, doc.last[q])
                        /\ NewestMatch(doc, q, Len(doc.records))
                             \in grown \cup (0..doc.last[q])

(* Document.h:361: every run-start marker among the records is a run. *)
EveryRunIsListed ==
  stage = "live" => \A i \in 1..Len(doc.records) : IsMarker(doc, i) => i \in Listed

(* SPEC.md:616: the digest never reaches outside the selected run. *)
DigestStaysInRun ==
  stage = "live" => \A x \in doc.digest : InRunBound(doc, x.row)

(* SPEC.md:611: the digest shows the last record each rule matched. *)
DigestIsNewest ==
  stage = "live" /\ ~strayed =>
    \A q \in Rules : NewestMatch(doc, q, Len(doc.records)) <= doc.last[q]

(* Document.h:436: the counts are those of the records the log holds. *)
CountsAreExact ==
  stage = "live" =>
    doc.memo.count = Cardinality({i \in 1..Len(doc.records) : doc.records[i].ok})
=============================================================================
