------------------------------ MODULE RuleList ------------------------------
(* The highlight rules of logs and the moments they are limited to              *)
(* (ui/HighlighterPane.cpp, the time axis of ui/AxisEditor.cpp, PresetPane.cpp). *)
(* A bound is a moment; what a rule, a preset and a record hold are the digits   *)
(* of a clock, read in whatever zone the log is displayed in.  One pane serves   *)
(* every log and one editor every rule.                                          *)
(*                                                                               *)
(* A zone is its offset, the same all year; the axes other than the time range   *)
(* are left out.                                                                 *)
EXTENDS Integers, Sequences, FiniteSets, SequencesExt

CONSTANTS RLogs,
          RZones,     \* display zones, as offsets
          Moments,    \* moments a reader may type
          Bases,      \* where the seconds of a run are counted from
          MaxRules,
          MaxEdits,   \* edits of rules by the reader
          MaxEvents,  \* changes of log, zone, run and format; scans, restarts
          Looks,      \* what the controls of a row say: enabled, actions, colours
          Absent

ASSUME RuleAssumption ==
    /\ RZones \cup Moments \cup Bases \subseteq Int /\ 0 \in Bases /\ Absent \notin Int
    /\ \E z \in RZones : \A y \in RZones : z <= y
    /\ \E z \in RZones : \A y \in RZones : z >= y
    /\ \E a, b \in Moments : a # b
    /\ Looks # {}
    /\ {MaxRules, MaxEdits, MaxEvents} \subseteq Nat

VARIABLES
    doc,     \* of each log: zone, mode, base, whether its format is known, its
             \* records are, and the zone it really has; and its rules
    hp,      \* the pane: log, m_rules, m_boundZone, the current row
    te,      \* the time axis of its editor
    preset,  \* the preset of the store, and whether the list still names one
    asked,   \* "Copy from another log": what was read before the dialog
    meant,   \* for the properties: the rules of each log, in moments
    misled,  \* for the properties: logs the known defects have reached
    edits, events

ruleVars == <<doc, hp, te, preset, asked, meant, misled, edits, events>>

Sides == {"from", "to"}
NoBounds == [from |-> Absent, to |-> Absent]
EmptyRule(look) == [on |-> FALSE, at |-> NoBounds, look |-> look]

(* What digits name in a zone, and back. *)
Shift(at, by) == [s \in Sides |-> IF at[s] = Absent THEN Absent ELSE at[s] + by]
Moment(at, zone) == Shift(at, -zone)

Meaning(r, zone) == [r EXCEPT !.at = IF r.on THEN Moment(@, zone) ELSE NoBounds]
Meanings(rules, zone) == [i \in DOMAIN rules |-> Meaning(rules[i], zone)]

(* Mutant: the rule on screen alone. *)
ReexpressedCurrent(rules, from, to) ==
    [i \in DOMAIN rules |-> IF i = 1 THEN [rules[i] EXCEPT !.at = Shift(@, to - from)] ELSE rules[i]]
-----------------------------------------------------------------------------
(* The time axis of the editor: `clock` are the date editors, `secs` the pair    *)
(* that counts from `base`; which of the two is on screen is `mode`.             *)

(* reexpressBound, over both bounds of every rule. *)
Reexpressed(rules, from, to) ==
    [i \in DOMAIN rules |-> [rules[i] EXCEPT !.at = Shift(@, to - from)]]

(* setBoundInstant *)
WithMoments(e, at) ==
    [e EXCEPT !.clock = [s \in Sides |-> at[s] + e.zone], !.secs = [s \in Sides |-> at[s] - e.base]]

(* boundInstant *)
Bounded(e) == IF e.mode = "run" THEN [s \in Sides |-> e.secs[s] + e.base] ELSE Moment(e.clock, e.zone)

InTermsOf(e, d) == [e EXCEPT !.zone = d.zone, !.mode = d.mode, !.base = d.base]

(* refreshObservedSpan *)
Seeded(e, d) ==
    IF e.mine \/ ~e.can \/ d.span = Absent THEN e ELSE WithMoments(InTermsOf(e, d), d.span)

(* setDocument *)
EditorBound(e, d) == Seeded(InTermsOf([e EXCEPT !.mine = FALSE, !.can = d.known], d), d)

(* setCriteria: an absent bound leaves the editors as they are. *)
EditorLoaded(e, r) ==
    [e EXCEPT !.on = r.on, !.mine = r.on,
              !.clock = [s \in Sides |-> IF r.at[s] = Absent THEN @[s] ELSE r.at[s]],
              !.secs = [s \in Sides |-> IF r.at[s] = Absent THEN @[s]
                                        ELSE r.at[s] - e.zone - e.base]]

(* criteria, which is read back into a rule. *)
RuleOf(e, r) == [r EXCEPT !.on = e.on, !.at = e.clock]

(* AxisEditor::refreshTimeBounds *)
EditorRefreshed(e, d) ==
    IF <<e.zone, e.mode, e.base>> = <<d.zone, d.mode, d.base>> THEN e
    ELSE WithMoments(InTermsOf(e, d), Bounded(e))
-----------------------------------------------------------------------------
(* The pane.                                                                  *)

(* loadEditorFor *)
LoadedFor(e, rules, row) == IF row \in DOMAIN rules THEN EditorLoaded(e, rules[row]) ELSE e

(* reloadRuleTable and what its callers do with the current row. *)
Reload(rules, row, e) ==
    /\ hp' = [hp EXCEPT !.rules = rules, !.row = row]
    /\ te' = LoadedFor(IF rules # <<>> THEN EditorLoaded(e, rules[1]) ELSE e, rules, row)

(* commit, syncToDocument *)
Commit(rules) == doc' = [doc EXCEPT ![hp.log].rules = rules]

(* Mutant: the rebind is taken for an edit of the rules that are still those of
   the log before. *)
RebindEmits(l, d) ==
    LET e == EditorBound(te, d)
    IN /\ hp' = [log |-> l, rules |-> hp.rules, zone |-> d.zone, row |-> hp.row]
       /\ te' = LoadedFor(e, hp.rules, hp.row)

(* HighlighterPane::setDocument *)
PaneBound(l, d) ==
    LET e == EditorBound(te, d)
        row == IF d.rules = <<>> THEN 0 ELSE 1
    IN /\ hp' = [log |-> l, rules |-> d.rules, zone |-> d.zone, row |-> row]
       /\ te' = LoadedFor(e, d.rules, row)

(* HighlighterPane::refreshTimeBounds, for a log whose terms are now those of d. *)
Refreshed_(d) ==
    LET rules == IF hp.zone = d.zone THEN hp.rules ELSE Reexpressed(hp.rules, hp.zone, d.zone)
    IN /\ hp' = [hp EXCEPT !.rules = rules, !.zone = d.zone]
       /\ te' = EditorRefreshed(te, d)
       /\ doc' = [doc EXCEPT ![hp.log] = [d EXCEPT !.rules = IF rules = hp.rules THEN @ ELSE rules]]

(* HighlighterPane::refreshDiscoveredLists *)
Discovered_(l) == te' = IF l = hp.log THEN LoadedFor(te, hp.rules, hp.row) ELSE te
-----------------------------------------------------------------------------
(* A log that is not there when it is opened is displayed in a guess of its zone,
   over the rules its record holds. *)
LogOf_(known, rules, span) ==
    LET true == CHOOSE z \in RZones : \A y \in RZones : z >= y
        guess == CHOOSE z \in RZones : \A y \in RZones : z <= y
    IN [zone |-> IF known THEN true ELSE guess, mode |-> "wall", base |-> 0, known |-> known,
        span |-> IF known THEN span ELSE Absent, own |-> true, rules |-> rules]

Wide == CHOOSE at \in [Sides -> Moments] : at["from"] # at["to"]

RuleInit ==
    /\ \E l \in RLogs : \E k \in [RLogs -> BOOLEAN] :
         LET z == CHOOSE y \in RZones : \A x \in RZones : y >= x
             stored == <<[on |-> TRUE, at |-> Shift(Wide, z), look |-> CHOOSE any \in Looks : TRUE]>>
         IN /\ doc = [m \in RLogs |-> LogOf_(k[m], IF m = l THEN stored ELSE <<>>, Absent)]
            /\ meant = [m \in RLogs |-> Meanings(doc[m].rules, z)]
    /\ \E l \in RLogs :
         LET d == doc[l]
             blank == [clock |-> [s \in Sides |-> 0], secs |-> [s \in Sides |-> 0], on |-> FALSE,
                       mine |-> FALSE, can |-> d.known, zone |-> d.zone, mode |-> d.mode, base |-> 0]
             row == IF d.rules = <<>> THEN 0 ELSE 1
         IN /\ hp = [log |-> l, rules |-> d.rules, zone |-> d.zone, row |-> row]
            /\ te = LoadedFor(blank, d.rules, row)
    /\ preset = [rules |-> Absent, listed |-> FALSE]
    /\ asked = Absent
    /\ misled = {} /\ edits = 0 /\ events = 0

Here == doc[hp.log]

(* The zone the digits of the bound log are meant in: until its format is known,
   the one it will turn out to have. *)
Told == IF Here.known THEN Here.zone ELSE Here.own
Selected == hp.row \in DOMAIN hp.rules
-----------------------------------------------------------------------------
(* What the reader does with the rules; none of it while the dialog is open.     *)

Edit_(rules, row, e, meaning) ==
    /\ asked = Absent
    /\ edits < MaxEdits /\ edits' = edits + 1
    /\ Commit(rules)
    /\ Reload(rules, row, e)
    /\ meant' = [meant EXCEPT ![hp.log] = meaning]
    /\ UNCHANGED <<preset, asked, events>>

(* nextFreeBackground *)
FreeLook == LET free == Looks \ {r.look : r \in ToSet(hp.rules)}
            IN CHOOSE k \in (IF free = {} THEN Looks ELSE free) : TRUE

(* The New button: a copy of the rule on screen, or an inert one.  addRule, from
   the record menu, is the latter whatever is selected. *)
NewRule(copied) ==
    LET r == IF copied /\ Selected THEN hp.rules[hp.row] ELSE EmptyRule(FreeLook)
    IN /\ Len(hp.rules) < MaxRules
       /\ Edit_(Append(hp.rules, r), Len(hp.rules) + 1, te, Append(meant[hp.log], IF copied /\ Selected THEN meant[hp.log][hp.row] ELSE Meaning(r, Told)))
       /\ UNCHANGED misled

RemoveRule ==
    LET left == RemoveAt(hp.rules, hp.row)
    IN /\ Selected
       /\ Edit_(left, IF hp.row > Len(left) THEN Len(left) ELSE hp.row, te, RemoveAt(meant[hp.log], hp.row))
       /\ UNCHANGED misled

Clear == /\ hp.rules # <<>>
         /\ Edit_(<<>>, 0, te, <<>>)
         /\ UNCHANGED misled

Swapped(s, i, j) == [s EXCEPT ![i] = s[j], ![j] = s[i]]

MoveRule(to) ==
    /\ Selected /\ to \in DOMAIN hp.rules /\ to # hp.row
    /\ Edit_(Swapped(hp.rules, hp.row, to), to, te, Swapped(meant[hp.log], hp.row, to))
    /\ UNCHANGED misled

(* The controls of a row, of the current one or not: its tick, its colours, its
   actions. *)
TickRow(row, look) ==
    /\ row \in DOMAIN hp.rules /\ hp.rules[row].look # look
    /\ asked = Absent /\ edits < MaxEdits /\ edits' = edits + 1
    /\ hp' = [hp EXCEPT !.rules[row].look = look]
    /\ Commit(hp'.rules)
    /\ meant' = [meant EXCEPT ![hp.log][row].look = look]
    /\ UNCHANGED <<te, preset, asked, misled, events>>

(* currentCellChanged *)
SelectRule(row) ==
    /\ asked = Absent /\ row \in DOMAIN hp.rules \ {hp.row}
    /\ hp' = [hp EXCEPT !.row = row]
    /\ te' = EditorLoaded(te, hp.rules[row])
    /\ UNCHANGED <<doc, preset, asked, meant, misled, edits, events>>

(* AxisEditor::changed: the whole criteria is read back into the rule on screen. *)
Changed(e, meaning) ==
    LET rules == [hp.rules EXCEPT ![hp.row] = RuleOf(e, @)]
    IN /\ asked = Absent /\ Selected
       /\ edits < MaxEdits /\ edits' = edits + 1
       /\ te' = e
       /\ hp' = [hp EXCEPT !.rules = rules]
       /\ Commit(rules)
       /\ meant' = [meant EXCEPT ![hp.log][hp.row] = meaning]
       /\ UNCHANGED <<preset, asked, events>>

(* Any other axis of the rule. *)
EditOther == Changed(te, meant[hp.log][hp.row]) /\ UNCHANGED misled

(* The reader types a moment as the timestamp column spells it. *)
TypeBound(side, t) ==
    LET e == IF te.mode = "run"
             THEN LET x == t - Here.base
                  IN [te EXCEPT !.secs[side] = x, !.clock[side] = te.base + x + te.zone, !.mine = TRUE]
             ELSE [te EXCEPT !.clock[side] = t + Here.zone, !.mine = TRUE]
    IN /\ te.can /\ te.on
       /\ Changed(e, [meant[hp.log][hp.row] EXCEPT !.at[side] = t]) /\ UNCHANGED misled

(* The title of the axis: on the way on the editors are seeded, if no bound is
   the reader's and there are records.  Where they are not, the two spellings of
   what is left in the editors need not agree. *)
TickTime ==
    LET e == [(IF te.on THEN te ELSE Seeded(te, Here)) EXCEPT !.on = ~@]
    IN /\ te.can
       /\ Changed(e, Meaning(RuleOf(e, hp.rules[hp.row]), Told))
       /\ misled' = IF e.on /\ Bounded(e) # Moment(e.clock, e.zone) THEN misled \cup {hp.log} ELSE misled
-----------------------------------------------------------------------------
(* Presets and copies.                                                        *)

SavePreset ==
    /\ asked = Absent /\ edits < MaxEdits /\ edits' = edits + 1
    /\ preset' = [rules |-> hp.rules, listed |-> TRUE]
    /\ UNCHANGED <<doc, hp, te, asked, meant, misled, events>>

(* Another window deletes or renames it; the list of this one still names it. *)
PresetGone ==
    /\ preset.rules # Absent /\ events < MaxEvents /\ events' = events + 1
    /\ preset' = [preset EXCEPT !.rules = Absent]
    /\ UNCHANGED <<doc, hp, te, asked, meant, misled, edits>>

(* applyPreset, restoreState: a preset holds digits, and means them in the zone
   of the log it is applied to. *)
ApplyPreset ==
    LET gone == preset.rules = Absent
        rules == IF gone THEN <<>> ELSE preset.rules
    IN /\ preset.listed
       /\ Edit_(rules, IF rules = <<>> THEN 0 ELSE 1, te,
                IF gone THEN meant[hp.log] ELSE Meanings(rules, Told))
       /\ misled' = IF gone THEN misled \cup {hp.log} ELSE misled

(* copyHighlightersFromAnotherLog: rules and zone are read before the dialog. *)
AskCopy(l) ==
    /\ asked = Absent /\ l # hp.log
    /\ edits < MaxEdits /\ edits' = edits + 1
    /\ asked' = [log |-> l, rules |-> doc[l].rules, zone |-> doc[l].zone, meant |-> meant[l],
                 sure |-> doc[l].known /\ l \notin misled]
    /\ UNCHANGED <<doc, hp, te, preset, meant, misled, events>>

(* adoptRules *)
Adopt ==
    LET rules == IF asked.zone = hp.zone THEN asked.rules ELSE Reexpressed(asked.rules, asked.zone, hp.zone)
    IN /\ asked # Absent
       /\ asked' = Absent
       /\ Commit(rules)
       /\ Reload(rules, IF rules = <<>> THEN 0 ELSE 1, te)
       /\ meant' = [meant EXCEPT ![hp.log] = asked.meant]
       /\ misled' = IF asked.sure /\ Here.known THEN misled ELSE misled \cup {hp.log}
       /\ UNCHANGED <<preset, edits, events>>

DeclineCopy == /\ asked # Absent /\ asked' = Absent
               /\ UNCHANGED <<doc, hp, te, preset, meant, misled, edits, events>>
-----------------------------------------------------------------------------
(* What happens to the logs.                                                  *)

Event == events < MaxEvents /\ events' = events + 1
Quiet_ == asked = Absent

(* activeDocumentChanged *)
SwitchLog(l) ==
    /\ Event /\ Quiet_ /\ l # hp.log
    /\ PaneBound(l, doc[l])
    /\ doc' = [doc EXCEPT ![l].rules = hp'.rules]
    /\ UNCHANGED <<preset, asked, meant, misled, edits>>

(* applySettings: another display zone, or seconds instead of a clock. *)
Display(zone, mode) ==
    LET d == [Here EXCEPT !.zone = zone, !.mode = mode]
    IN /\ Event /\ Quiet_ /\ d # Here /\ Here.known
       /\ Refreshed_(d)
       /\ UNCHANGED <<preset, asked, meant, misled, edits>>

(* onRunSelected, followLastRunIfMoved *)
RunMoved_(base) ==
    /\ Event /\ base # Here.base /\ Here.span # Absent /\ Here.mode = "run"
    /\ Refreshed_([Here EXCEPT !.base = base])
    /\ UNCHANGED <<preset, asked, meant, misled, edits>>

(* rebuildDocument with another pattern, and whatever else the dialog changed:
   the pane is bound again, and nothing moves the digits. *)
Reformat(zone, mode) ==
    LET d == [Here EXCEPT !.zone = zone, !.mode = mode, !.base = 0, !.span = Absent]
    IN /\ Event /\ Quiet_ /\ Here.known
       /\ doc' = [doc EXCEPT ![hp.log] = d]
       /\ PaneBound(hp.log, d)
       /\ misled' = IF zone = Here.zone THEN misled ELSE misled \cup {hp.log}
       /\ UNCHANGED <<preset, asked, meant, edits>>

(* The scan ends, or a rotation is read: the records are there, and the run the
   seconds are counted from. *)
Scanned_(l, span, base) ==
    /\ Event /\ doc[l].known /\ (doc[l].mode # "run" => base = 0)
    /\ doc' = [doc EXCEPT ![l].span = span, ![l].base = base]
    /\ Discovered_(l)
    /\ misled' = IF l = hp.log /\ base # doc[l].base THEN misled \cup {l} ELSE misled
    /\ UNCHANGED <<hp, preset, asked, meant, edits>>

(* resumeOrSettleDocument: the log is there, its format and zone are settled, and
   the lists of the pane are refreshed. *)
Resume(l) ==
    /\ Event /\ ~doc[l].known
    /\ doc' = [doc EXCEPT ![l].known = TRUE, ![l].zone = doc[l].own]
    /\ Discovered_(l)
    /\ misled' = IF l = hp.log THEN misled \cup {l} ELSE misled
    /\ UNCHANGED <<hp, preset, asked, meant, edits>>

(* The program ends and opens its logs again; `here` says whether the log in
   front is there. *)
Relaunch(here) ==
    LET d == [Here EXCEPT !.known = here /\ @, !.span = Absent, !.base = 0,
                          !.zone = IF here /\ Here.known THEN @ ELSE CHOOSE z \in RZones : \A y \in RZones : z <= y,
                          !.own = IF Here.known THEN Here.zone ELSE @]
    IN /\ Event /\ Quiet_
       /\ doc' = [doc EXCEPT ![hp.log] = d]
       /\ PaneBound(hp.log, d)
       /\ UNCHANGED <<preset, asked, meant, misled, edits>>

RuleNext ==
    \/ \E b \in BOOLEAN : NewRule(b) \/ Relaunch(b)
    \/ RemoveRule \/ Clear
    \/ \E i \in 1..MaxRules : MoveRule(i) \/ SelectRule(i) \/ \E k \in Looks : TickRow(i, k)
    \/ EditOther \/ TickTime
    \/ \E s \in Sides, t \in Moments : TypeBound(s, t)
    \/ SavePreset \/ PresetGone \/ ApplyPreset
    \/ \E l \in RLogs : AskCopy(l) \/ SwitchLog(l) \/ Resume(l)
    \/ Adopt \/ DeclineCopy
    \/ \E z \in RZones, m \in {"wall", "run"} : Display(z, m) \/ Reformat(z, m)
    \/ \E b \in Bases : RunMoved_(b)
    \/ \E l \in RLogs, b \in Bases : Scanned_(l, Wide, b)

RuleSpec == RuleInit /\ [][RuleNext]_ruleVars
-----------------------------------------------------------------------------
(* Properties.                                                                *)

KeepsItsMoments(l) == doc[l].known => Meanings(doc[l].rules, doc[l].zone) = meant[l]

ShowsTheRule ==
    /\ hp.rules = Here.rules
    /\ (Selected /\ Here.known /\ hp.rules[hp.row].on)
         => /\ te.on
            /\ \A s \in Sides : meant[hp.log][hp.row].at[s] # Absent =>
                 meant[hp.log][hp.row].at[s] = IF Here.mode = "run" THEN te.secs[s] + Here.base
                                                                    ELSE te.clock[s] - Here.zone

\* refreshTimeBounds(), adoptRules(), setDocument(): every bound of every rule of every
\* log goes on naming the moment the reader gave it, whatever zone, run or log the pane
\* is moved to and whichever rule is on screen; and the editor shows that moment.
BoundsKeepTheirMoment ==
    /\ \A l \in RLogs \ misled : KeepsItsMoments(l)
    /\ hp.log \notin misled => ShowsTheRule

\* HighlighterPane.cpp 1396: "a bound survives a zone change intact whether or not its
\* rule is the one on screen"; AxisEditor.h: the seconds are those of the column.
EveryBoundKeepsItsMoment == (\A l \in RLogs : KeepsItsMoments(l)) /\ ShowsTheRule
=============================================================================
