------------------------------- MODULE MCDesk -------------------------------
(* The reader of one log, with its rows, its filter and its copies; or the     *)
(* Filters pane of a window that shows two logs in turn; or one list of names  *)
(* in that pane; or the rules of two logs in the Highlighters pane.  A          *)
(* behaviour is of one part.                                                   *)
EXTENDS ReadingPlace, FilterBench, ValueAxis, RuleList

CONSTANTS l1, l2, s0, s1, s2

VARIABLE part

Lines(h, s, m) == [h |-> h, shown |-> s, mark |-> m]

FourKinds == {Lines(1, TRUE, FALSE), Lines(2, TRUE, FALSE), Lines(1, FALSE, FALSE),
              Lines(1, TRUE, TRUE)}
OneStart  == {<<Lines(1, FALSE, FALSE), Lines(2, TRUE, FALSE), Lines(1, TRUE, FALSE)>>}

RulesAtRest == hp.log = l1 /\ doc[l1].known /\ doc[l2].known /\ hp.rules = <<>>

deskVars == <<part, readingVars, benchVars, axisVars, ruleVars>>

DeskInit == /\ ReadingInit /\ BenchInit /\ AxisInit /\ RuleInit
            /\ part \in {"reading", "bench", "axis", "rules"}
            /\ part # "reading" => view.wrap = "off"
            /\ part # "axis" => axis.log = l1
            /\ part # "rules" => RulesAtRest

DeskNext ==
    \/ part = "reading" /\ ReadingNext /\ UNCHANGED <<part, benchVars, axisVars, ruleVars>>
    \/ part = "bench" /\ BenchNext /\ UNCHANGED <<part, readingVars, axisVars, ruleVars>>
    \/ part = "axis" /\ AxisNext /\ UNCHANGED <<part, readingVars, benchVars, ruleVars>>
    \/ part = "rules" /\ RuleNext /\ UNCHANGED <<part, readingVars, benchVars, axisVars>>

DeskSpec == DeskInit /\ [][DeskNext]_deskVars
=============================================================================
