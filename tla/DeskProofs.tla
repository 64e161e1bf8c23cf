----------------------------- MODULE DeskProofs -----------------------------
(***************************************************************************)
(* What a log and the panes beside it keep for the reader, for any logs,   *)
(* zones, rules, filters and depth of history: a bound of a rule goes on   *)
(* naming the moment it was given; every log keeps the filters last asked  *)
(* of it, and its history of them is moved by its reader alone; the record *)
(* he picked stays picked, a filter edit keeps his place, a copy is of     *)
(* what he selected, and a name in the list of a pane is ticked as he was  *)
(* shown it or said.                                                       *)
(***************************************************************************)
EXTENDS RuleList, FilterBench, ReadingPlace, ValueAxis, SequenceTheorems, FiniteSetTheorems, TLAPS
-----------------------------------------------------------------------------
(* The rules of the logs and their bounds                                  *)

Digits == Int \cup {Absent}
Clocks == [Sides -> Int]
RuleSet == {r \in [on : BOOLEAN, at : [Sides -> Digits], look : Looks] : r.on => r.at \in Clocks}
Editors == [clock : Clocks, secs : Clocks, on : BOOLEAN, mine : BOOLEAN, can : BOOLEAN,
            zone : Int, mode : {"wall", "run"}, base : Int]
LogStates == [zone : Int, mode : {"wall", "run"}, base : Int, known : BOOLEAN,
              span : Clocks \cup {Absent}, own : Int, rules : Seq(RuleSet)]

\* The zone the digits of a log are meant in.
TellZone(d) == IF d.known THEN d.zone ELSE d.own

RuleTypes ==
  /\ doc \in [RLogs -> LogStates]
  /\ hp \in [log : RLogs, rules : Seq(RuleSet), zone : Int, row : Nat]
  /\ te \in Editors
  /\ preset.rules = Absent \/ preset.rules \in Seq(RuleSet)
  /\ asked # Absent => /\ asked.rules \in Seq(RuleSet) /\ asked.zone \in Int
                       /\ asked.sure \in BOOLEAN
  /\ meant = [l \in RLogs |-> meant[l]]
  /\ misled \subseteq RLogs

\* The editor shows the rule in its row, in either spelling that is on the screen.
Shown(e, rules, row) ==
  row \in DOMAIN rules =>
    /\ e.on = rules[row].on
    /\ e.on => /\ e.clock = rules[row].at
               /\ e.mode = "run" => \A s \in Sides : e.secs[s] + e.base = e.clock[s] - e.zone

Terms(e, d) == e.zone = d.zone /\ e.mode = d.mode /\ e.base = d.base /\ e.can = d.known

RuleInv ==
  /\ RuleTypes
  /\ hp.rules = doc[hp.log].rules
  /\ \A l \in RLogs \ misled : meant[l] = Meanings(doc[l].rules, TellZone(doc[l]))
  /\ hp.log \notin misled => /\ hp.zone = doc[hp.log].zone
                             /\ Terms(te, doc[hp.log]) /\ Shown(te, hp.rules, hp.row)
  /\ asked # Absent /\ asked.sure => asked.meant = Meanings(asked.rules, asked.zone)
-----------------------------------------------------------------------------
LEMMA ShiftType ==
  ASSUME NEW at \in [Sides -> Digits], NEW by \in Int
  PROVE  /\ Shift(at, by) \in [Sides -> Digits]
         /\ at \in Clocks => Shift(at, by) \in Clocks
         /\ at \in Clocks => \A s \in Sides : Shift(at, by)[s] = at[s] + by
BY RuleAssumption DEF Shift, Digits, Clocks

LEMMA ShiftTwice ==
  ASSUME NEW at \in [Sides -> Digits], NEW a \in Int, NEW b \in Int
  PROVE  Shift(Shift(at, a), b) = Shift(at, a + b)
<1>1. \A s \in Sides : Shift(Shift(at, a), b)[s] = Shift(at, a + b)[s]
  BY RuleAssumption DEF Shift, Digits
<1> QED BY <1>1 DEF Shift

LEMMA WithMomentsIs ==
  ASSUME NEW e \in Editors, NEW at \in Clocks
  PROVE  LET w == WithMoments(e, at)
         IN /\ w \in Editors
            /\ w.on = e.on /\ w.mine = e.mine /\ w.can = e.can
            /\ w.zone = e.zone /\ w.mode = e.mode /\ w.base = e.base
            /\ \A s \in Sides : w.clock[s] = at[s] + e.zone /\ w.secs[s] = at[s] - e.base
<1>1. [s \in Sides |-> at[s] + e.zone] \in Clocks /\ [s \in Sides |-> at[s] - e.base] \in Clocks
  BY DEF Clocks, Editors
<1> QED BY <1>1 DEF WithMoments, Editors

LEMMA InTermsIs ==
  ASSUME NEW e \in Editors, NEW d \in LogStates
  PROVE  LET w == InTermsOf(e, d)
         IN /\ w \in Editors
            /\ w.on = e.on /\ w.mine = e.mine /\ w.can = e.can
            /\ w.zone = d.zone /\ w.mode = d.mode /\ w.base = d.base
            /\ w.clock = e.clock /\ w.secs = e.secs
BY DEF InTermsOf, Editors, LogStates

LEMMA BoundedType == ASSUME NEW e \in Editors PROVE Bounded(e) \in Clocks
<1>1. Moment(e.clock, e.zone) \in Clocks
  <2>1. e.clock \in Clocks /\ e.clock \in [Sides -> Digits] /\ -e.zone \in Int
    BY DEF Editors, Clocks, Digits
  <2> QED BY <2>1, ShiftType DEF Moment
<1>2. [s \in Sides |-> e.secs[s] + e.base] \in Clocks BY DEF Editors, Clocks
<1> QED BY <1>1, <1>2 DEF Bounded

LEMMA SeededIs ==
  ASSUME NEW e \in Editors, NEW d \in LogStates
  PROVE  LET w == Seeded(e, d)
         IN /\ w \in Editors /\ w.on = e.on /\ w.can = e.can
            /\ w = e \/ (w.zone = d.zone /\ w.mode = d.mode /\ w.base = d.base)
<1>1. CASE e.mine \/ ~e.can \/ d.span = Absent BY <1>1 DEF Seeded
<1>2. CASE ~(e.mine \/ ~e.can \/ d.span = Absent)
  <2>1. d.span \in Clocks BY <1>2 DEF LogStates
  <2>2. Seeded(e, d) = WithMoments(InTermsOf(e, d), d.span) BY <1>2 DEF Seeded
  <2> QED BY <2>1, <2>2, InTermsIs, WithMomentsIs
<1> QED BY <1>1, <1>2

LEMMA EditorBoundIs ==
  ASSUME NEW e \in Editors, NEW d \in LogStates
  PROVE  EditorBound(e, d) \in Editors /\ Terms(EditorBound(e, d), d)
<1> DEFINE u == [e EXCEPT !.mine = FALSE, !.can = d.known]
<1>1. u \in Editors /\ u.can = d.known BY DEF Editors, LogStates
<1>2. EditorBound(e, d) = Seeded(InTermsOf(u, d), d) BY DEF EditorBound
<1> HIDE DEF u
<1> QED BY <1>1, <1>2, InTermsIs, SeededIs DEF Terms

\* What it is to load a rule: the terms of the editor stay, and it shows the rule.
LEMMA LoadedIs ==
  ASSUME NEW e \in Editors, NEW r \in RuleSet
  PROVE  LET w == EditorLoaded(e, r)
         IN /\ w \in Editors /\ w.can = e.can
            /\ w.zone = e.zone /\ w.mode = e.mode /\ w.base = e.base
            /\ w.on = r.on
            /\ w.on => /\ w.clock = r.at
                       /\ \A s \in Sides : w.secs[s] + w.base = w.clock[s] - w.zone
<1> DEFINE c == [s \in Sides |-> IF r.at[s] = Absent THEN e.clock[s] ELSE r.at[s]]
           x == [s \in Sides |-> IF r.at[s] = Absent THEN e.secs[s] ELSE r.at[s] - e.zone - e.base]
<1>1. c \in Clocks BY DEF RuleSet, Clocks, Digits, Editors
<1>2. x \in Clocks BY DEF RuleSet, Clocks, Digits, Editors
<1>3. r.on \in BOOLEAN BY DEF RuleSet
<1>4. EditorLoaded(e, r) = [e EXCEPT !.on = r.on, !.mine = r.on, !.clock = c, !.secs = x]
  BY DEF EditorLoaded, Editors
<1>5. r.on => c = r.at /\ \A s \in Sides : x[s] = r.at[s] - e.zone - e.base
  BY RuleAssumption DEF RuleSet, Clocks
<1>6. e.zone \in Int /\ e.base \in Int BY DEF Editors
<1> HIDE DEF c, x
<1>7. LET w == EditorLoaded(e, r)
      IN /\ w \in Editors /\ w.can = e.can /\ w.zone = e.zone /\ w.mode = e.mode
         /\ w.base = e.base /\ w.on = r.on /\ w.clock = c /\ w.secs = x
  BY <1>1, <1>2, <1>3, <1>4 DEF Editors
<1>8. r.on => \A s \in Sides : x[s] + e.base = c[s] - e.zone
  BY <1>1, <1>5, <1>6 DEF Clocks
<1> QED BY <1>5, <1>7, <1>8

LEMMA LoadedForIs ==
  ASSUME NEW e \in Editors, NEW rules \in Seq(RuleSet), NEW row \in Nat
  PROVE  LET w == LoadedFor(e, rules, row)
         IN /\ w \in Editors /\ w.can = e.can
            /\ w.zone = e.zone /\ w.mode = e.mode /\ w.base = e.base
            /\ Shown(w, rules, row)
<1>1. CASE row \in DOMAIN rules
  <2>1. rules[row] \in RuleSet BY <1>1
  <2> QED BY <1>1, <2>1, LoadedIs DEF LoadedFor, Shown
<1>2. CASE row \notin DOMAIN rules BY <1>2 DEF LoadedFor, Shown
<1> QED BY <1>1, <1>2
-----------------------------------------------------------------------------
LEMMA ReexpressedType ==
  ASSUME NEW rules \in Seq(RuleSet), NEW a \in Int, NEW b \in Int
  PROVE  /\ Reexpressed(rules, a, b) \in Seq(RuleSet)
         /\ DOMAIN Reexpressed(rules, a, b) = DOMAIN rules
         /\ \A i \in DOMAIN rules :
              Reexpressed(rules, a, b)[i] = [rules[i] EXCEPT !.at = Shift(rules[i].at, b - a)]
<1>1. \A r \in RuleSet : [r EXCEPT !.at = Shift(r.at, b - a)] \in RuleSet
  <2> SUFFICES ASSUME NEW r \in RuleSet PROVE [r EXCEPT !.at = Shift(r.at, b - a)] \in RuleSet
    OBVIOUS
  <2>1. r.at \in [Sides -> Digits] BY DEF RuleSet
  <2>2. Shift(r.at, b - a) \in [Sides -> Digits] /\ (r.on => Shift(r.at, b - a) \in Clocks)
    BY <2>1, ShiftType DEF RuleSet
  <2> QED BY <2>2 DEF RuleSet
<1>2. DOMAIN rules = 1..Len(rules) /\ Len(rules) \in Nat /\ \A i \in DOMAIN rules : rules[i] \in RuleSet
  OBVIOUS
<1>3. Reexpressed(rules, a, b) = [i \in 1..Len(rules) |-> [rules[i] EXCEPT !.at = Shift(rules[i].at, b - a)]]
  BY <1>2 DEF Reexpressed
<1> QED BY <1>1, <1>2, <1>3

LEMMA MeaningType ==
  ASSUME NEW r \in RuleSet, NEW z \in Int
  PROVE  Meaning(r, z) \in RuleSet
<1>1. r.at \in [Sides -> Digits] /\ -z \in Int BY DEF RuleSet
<1>2. r.on => Moment(r.at, z) \in Clocks /\ Moment(r.at, z) \in [Sides -> Digits]
  BY <1>1, ShiftType DEF Moment, RuleSet
<1>3. NoBounds \in [Sides -> Digits] BY DEF NoBounds, Sides, Digits
<1> QED BY <1>2, <1>3 DEF Meaning, RuleSet

LEMMA MeaningsType ==
  ASSUME NEW rules \in Seq(RuleSet), NEW z \in Int
  PROVE  /\ Meanings(rules, z) \in Seq(RuleSet)
         /\ Len(Meanings(rules, z)) = Len(rules)
         /\ DOMAIN Meanings(rules, z) = DOMAIN rules
         /\ \A i \in DOMAIN rules : Meanings(rules, z)[i] = Meaning(rules[i], z)
<1>1. DOMAIN rules = 1..Len(rules) /\ Len(rules) \in Nat /\ \A i \in DOMAIN rules : rules[i] \in RuleSet
  OBVIOUS
<1>2. Meanings(rules, z) = [i \in 1..Len(rules) |-> Meaning(rules[i], z)]
  BY <1>1 DEF Meanings
<1> QED BY <1>1, <1>2, MeaningType

\* Two sequences of rules that agree row by row are one.
LEMMA SameRules ==
  ASSUME NEW x \in Seq(RuleSet), NEW y \in Seq(RuleSet), Len(x) = Len(y),
         \A i \in 1..Len(x) : x[i] = y[i]
  PROVE  x = y
BY SeqEqual

LEMMA MeaningReexpressed ==
  ASSUME NEW rules \in Seq(RuleSet), NEW a \in Int, NEW b \in Int
  PROVE  Meanings(Reexpressed(rules, a, b), b) = Meanings(rules, a)
<1> DEFINE R == Reexpressed(rules, a, b)
<1>1. R \in Seq(RuleSet) /\ DOMAIN R = DOMAIN rules BY ReexpressedType
<1>2. ASSUME NEW i \in DOMAIN rules PROVE Meaning(R[i], b) = Meaning(rules[i], a)
  <2>1. rules[i] \in RuleSet /\ rules[i].at \in [Sides -> Digits] BY DEF RuleSet
  <2>2. R[i] = [rules[i] EXCEPT !.at = Shift(rules[i].at, b - a)] BY ReexpressedType
  <2>3. Shift(Shift(rules[i].at, b - a), -b) = Shift(rules[i].at, (b - a) + (-b))
    BY <2>1, ShiftTwice, b - a \in Int, -b \in Int
  <2>4. (b - a) + (-b) = -a OBVIOUS
  <2>5. Moment(Shift(rules[i].at, b - a), b) = Moment(rules[i].at, a)
    BY <2>3, <2>4 DEF Moment
  <2> QED BY <2>1, <2>2, <2>5 DEF Meaning, RuleSet
<1>3. Meanings(R, b) = [i \in DOMAIN rules |-> Meaning(R[i], b)] BY <1>1 DEF Meanings
<1>4. Meanings(rules, a) = [i \in DOMAIN rules |-> Meaning(rules[i], a)] BY DEF Meanings
<1> HIDE DEF R
<1>5. Meanings(R, b) = Meanings(rules, a) BY <1>2, <1>3, <1>4
<1> QED BY <1>5 DEF R

LEMMA RemovedAt ==
  ASSUME NEW s \in Seq(RuleSet), NEW i \in DOMAIN s
  PROVE  /\ RemoveAt(s, i) \in Seq(RuleSet) /\ Len(RemoveAt(s, i)) = Len(s) - 1
         /\ \A j \in 1..(Len(s) - 1) : RemoveAt(s, i)[j] = IF j < i THEN s[j] ELSE s[j + 1]
<1> DEFINE a == SubSeq(s, 1, i - 1)
           b == SubSeq(s, i + 1, Len(s))
<1>1. i \in 1..Len(s) /\ Len(s) \in Nat /\ i \in Nat OBVIOUS
<1>2. a \in Seq(RuleSet) /\ Len(a) = i - 1 /\ \A j \in 1..(i - 1) : a[j] = s[j] BY <1>1
<1>3. b \in Seq(RuleSet) /\ Len(b) = Len(s) - i /\ \A j \in 1..(Len(s) - i) : b[j] = s[i + j]
  BY <1>1
<1>4. RemoveAt(s, i) = a \o b BY DEF RemoveAt
<1> HIDE DEF a, b
<1>5. (a \o b) \in Seq(RuleSet) /\ Len(a \o b) = Len(a) + Len(b)
      /\ \A j \in 1..(Len(a) + Len(b)) : (a \o b)[j] = IF j <= Len(a) THEN a[j] ELSE b[j - Len(a)]
  BY <1>2, <1>3, ConcatProperties
<1>6. ASSUME NEW j \in 1..(Len(s) - 1) PROVE (a \o b)[j] = IF j < i THEN s[j] ELSE s[j + 1]
  <2>1. CASE j < i BY <1>1, <1>2, <1>3, <1>5, <2>1
  <2>2. CASE ~(j < i)
    <3>1. j - (i - 1) \in 1..(Len(s) - i) /\ i + (j - (i - 1)) = j + 1
          /\ j \in 1..((i - 1) + (Len(s) - i)) /\ ~(j <= i - 1)
      BY <1>1, <2>2
    <3>2. (a \o b)[j] = b[j - (i - 1)] BY <1>2, <1>3, <1>5, <3>1
    <3>3. b[j - (i - 1)] = s[i + (j - (i - 1))] BY <1>3, <3>1
    <3> QED BY <2>2, <3>1, <3>2, <3>3
  <2> QED BY <2>1, <2>2
<1> QED BY SMTT(60), <1>1, <1>2, <1>3, <1>4, <1>5, <1>6

\* The meanings follow the rows: one added, taken out, moved, changed.
LEMMA MeaningsFollow ==
  ASSUME NEW rules \in Seq(RuleSet), NEW z \in Int
  PROVE  /\ \A r \in RuleSet : Meanings(Append(rules, r), z) = Append(Meanings(rules, z), Meaning(r, z))
         /\ \A i \in DOMAIN rules : Meanings(RemoveAt(rules, i), z) = RemoveAt(Meanings(rules, z), i)
         /\ \A i, j \in DOMAIN rules : Meanings(Swapped(rules, i, j), z) = Swapped(Meanings(rules, z), i, j)
         /\ \A i \in DOMAIN rules, r \in RuleSet :
              Meanings([rules EXCEPT ![i] = r], z) = [Meanings(rules, z) EXCEPT ![i] = Meaning(r, z)]
<1> DEFINE M == Meanings(rules, z)
<1>1. M \in Seq(RuleSet) /\ Len(M) = Len(rules) /\ DOMAIN M = DOMAIN rules
      /\ \A i \in DOMAIN rules : M[i] = Meaning(rules[i], z)
  BY MeaningsType
<1> HIDE DEF M
<1>2. ASSUME NEW r \in RuleSet PROVE Meanings(Append(rules, r), z) = Append(M, Meaning(r, z))
  <2>1. Append(rules, r) \in Seq(RuleSet) /\ Append(M, Meaning(r, z)) \in Seq(RuleSet)
    BY <1>1, MeaningType
  <2>2. \A i \in 1..Len(Append(rules, r)) :
           Meaning(Append(rules, r)[i], z) = Append(M, Meaning(r, z))[i]
    BY <1>1
  <2>3. DOMAIN Append(rules, r) = 1..Len(Append(rules, r))
        /\ Len(Append(rules, r)) = Len(Append(M, Meaning(r, z)))
    BY <1>1
  <2>4. /\ Meanings(Append(rules, r), z) \in Seq(RuleSet)
        /\ Len(Meanings(Append(rules, r), z)) = Len(Append(M, Meaning(r, z)))
        /\ \A i \in 1..Len(Append(rules, r)) :
             Meanings(Append(rules, r), z)[i] = Append(M, Meaning(r, z))[i]
    BY <2>1, <2>2, <2>3, MeaningsType
  <2> QED BY <2>1, <2>3, <2>4, SameRules
<1>3. ASSUME NEW i \in DOMAIN rules PROVE Meanings(RemoveAt(rules, i), z) = RemoveAt(M, i)
  <2>1. RemoveAt(rules, i) \in Seq(RuleSet) /\ RemoveAt(M, i) \in Seq(RuleSet)
        /\ Len(RemoveAt(rules, i)) = Len(RemoveAt(M, i))
    BY <1>1, RemovedAt
  <2>2. ASSUME NEW j \in 1..Len(RemoveAt(rules, i))
        PROVE  Meaning(RemoveAt(rules, i)[j], z) = RemoveAt(M, i)[j]
    <3>1. j \in 1..(Len(rules) - 1) /\ j \in DOMAIN rules /\ j + 1 \in DOMAIN rules
      BY RemovedAt
    <3>2. RemoveAt(rules, i)[j] = IF j < i THEN rules[j] ELSE rules[j + 1]
      BY <3>1, RemovedAt
    <3>3. RemoveAt(M, i)[j] = IF j < i THEN M[j] ELSE M[j + 1] BY <1>1, <3>1, RemovedAt
    <3> QED BY <1>1, <3>1, <3>2, <3>3
  <2>3. DOMAIN RemoveAt(rules, i) = 1..Len(RemoveAt(rules, i)) BY <2>1
  <2>4. /\ Meanings(RemoveAt(rules, i), z) \in Seq(RuleSet)
        /\ Len(Meanings(RemoveAt(rules, i), z)) = Len(RemoveAt(M, i))
        /\ \A j \in 1..Len(RemoveAt(rules, i)) :
             Meanings(RemoveAt(rules, i), z)[j] = RemoveAt(M, i)[j]
    BY <2>1, <2>2, <2>3, MeaningsType
  <2> QED BY <2>1, <2>4, SameRules
<1>4. ASSUME NEW i \in DOMAIN rules, NEW j \in DOMAIN rules
      PROVE  Meanings(Swapped(rules, i, j), z) = Swapped(M, i, j)
  BY <1>1 DEF Meanings, Swapped
<1>5. ASSUME NEW i \in DOMAIN rules, NEW r \in RuleSet
      PROVE  Meanings([rules EXCEPT ![i] = r], z) = [M EXCEPT ![i] = Meaning(r, z)]
  BY <1>1 DEF Meanings
<1> QED BY <1>2, <1>3, <1>4, <1>5 DEF M

\* Other terms: the editor goes on showing the rule, which is reexpressed.
LEMMA RefreshedShows ==
  ASSUME NEW e \in Editors, NEW d \in LogStates, NEW rules \in Seq(RuleSet), NEW row \in Nat
  PROVE  LET w == EditorRefreshed(e, d)
             new == IF e.zone = d.zone THEN rules ELSE Reexpressed(rules, e.zone, d.zone)
         IN /\ w \in Editors /\ w.can = e.can
            /\ w.zone = d.zone /\ w.mode = d.mode /\ w.base = d.base
            /\ Shown(e, rules, row) => Shown(w, new, row)
<1> DEFINE w == EditorRefreshed(e, d)
           new == IF e.zone = d.zone THEN rules ELSE Reexpressed(rules, e.zone, d.zone)
<1>1. CASE <<e.zone, e.mode, e.base>> = <<d.zone, d.mode, d.base>>
  BY <1>1 DEF EditorRefreshed
<1>2. CASE <<e.zone, e.mode, e.base>> # <<d.zone, d.mode, d.base>>
  <2>1. w = WithMoments(InTermsOf(e, d), Bounded(e)) BY <1>2 DEF EditorRefreshed
  <2>2. Bounded(e) \in Clocks BY BoundedType
  <2>3. /\ w \in Editors /\ w.can = e.can /\ w.on = e.on
        /\ w.zone = d.zone /\ w.mode = d.mode /\ w.base = d.base
        /\ \A s \in Sides : w.clock[s] = Bounded(e)[s] + d.zone /\ w.secs[s] = Bounded(e)[s] - d.base
    BY <2>1, <2>2, WithMomentsIs, InTermsIs
  <2>4. ASSUME Shown(e, rules, row), row \in DOMAIN rules
        PROVE  Shown(w, new, row)
    <3>1. rules[row] \in RuleSet /\ e.on = rules[row].on /\ e.zone \in Int /\ d.zone \in Int
          /\ d.base \in Int
      BY <2>4 DEF Shown, Editors, LogStates
    <3>2. row \in DOMAIN new /\ new[row].on = rules[row].on
          /\ (rules[row].on => \A s \in Sides : new[row].at[s] = rules[row].at[s] + (d.zone - e.zone))
          /\ (rules[row].on => new[row].at \in Clocks)
      <4>1. CASE e.zone = d.zone BY <2>4, <3>1, <4>1 DEF RuleSet, Clocks
      <4>2. CASE e.zone # d.zone
        <5>1. new \in Seq(RuleSet) /\ DOMAIN new = DOMAIN rules
              /\ new[row] = [rules[row] EXCEPT !.at = Shift(rules[row].at, d.zone - e.zone)]
          <6>1. new = Reexpressed(rules, e.zone, d.zone) BY <4>2
          <6>2. \A a, b \in Int :
                  /\ Reexpressed(rules, a, b) \in Seq(RuleSet)
                  /\ DOMAIN Reexpressed(rules, a, b) = DOMAIN rules
                  /\ \A i \in DOMAIN rules :
                       Reexpressed(rules, a, b)[i] = [rules[i] EXCEPT !.at = Shift(rules[i].at, b - a)]
            BY ReexpressedType, Zenon
          <6>3. e.zone \in Int /\ d.zone \in Int /\ row \in DOMAIN rules BY <2>4, <3>1
          <6> HIDE DEF new
          <6> QED BY <6>1, <6>2, <6>3, Zenon
        <5>2. rules[row].at \in [Sides -> Digits] /\ d.zone - e.zone \in Int
          BY <3>1 DEF RuleSet
        <5> QED BY <2>4, <3>1, <5>1, <5>2, ShiftType DEF RuleSet
      <4> QED BY <4>1, <4>2
    <3>3. SUFFICES ASSUME e.on
                   PROVE  /\ w.clock = new[row].at
                          /\ \A s \in Sides : w.secs[s] + w.base = w.clock[s] - w.zone
      BY <2>3, <3>1, <3>2 DEF Shown
    <3>4. e.clock = rules[row].at /\ e.clock \in Clocks /\ e.secs \in Clocks /\ e.base \in Int
      BY <2>4, <3>3 DEF Shown, Editors
    <3>5. ASSUME NEW s \in Sides PROVE Bounded(e)[s] = e.clock[s] - e.zone
      <4>1. CASE e.mode = "run" BY <2>4, <3>3, <3>4, <4>1 DEF Shown, Bounded
      <4>2. CASE e.mode # "run"
        <5>1. e.clock \in [Sides -> Digits] /\ -e.zone \in Int
          BY <3>1, <3>4 DEF Clocks, Digits
        <5>2. Shift(e.clock, -e.zone)[s] = e.clock[s] + (-e.zone) BY <3>4, <5>1, ShiftType
        <5> QED BY <3>1, <3>4, <4>2, <5>2 DEF Bounded, Moment, Clocks
      <4> QED BY <4>1, <4>2
    <3>6. \A s \in Sides : w.clock[s] = new[row].at[s]
      BY <2>3, <3>1, <3>2, <3>3, <3>4, <3>5 DEF Clocks
    <3>7. w.clock \in Clocks /\ new[row].at \in Clocks
      BY <2>3, <3>1, <3>2, <3>3 DEF Editors
    <3>8. w.clock = new[row].at BY <3>6, <3>7 DEF Clocks
    <3> QED BY <2>2, <2>3, <3>1, <3>8 DEF Clocks
  <2>5. DOMAIN new = DOMAIN rules BY ReexpressedType DEF Editors, LogStates
  <2> HIDE DEF w, new
  <2>6. Shown(e, rules, row) => Shown(w, new, row) BY <2>4, <2>5 DEF Shown
  <2> QED BY <2>3, <2>6 DEF w, new
<1> QED BY <1>1, <1>2
-----------------------------------------------------------------------------
(* The steps.                                                              *)

\* What stays as it is.
LEMMA NothingChanges ==
  ASSUME RuleInv, UNCHANGED <<doc, hp, te, asked, meant>>,
         misled \subseteq misled', misled' \subseteq RLogs,
         preset'.rules = Absent \/ preset'.rules \in Seq(RuleSet)
  PROVE  RuleInv'
BY DEF RuleInv, RuleTypes, Shown, Terms, TellZone

\* The rules of the bound log are replaced, by the reader: the table is filled again.
LEMMA EditedKeeps ==
  ASSUME RuleInv, NEW rules \in Seq(RuleSet), NEW row \in Nat, NEW meaning,
         Commit(rules), Reload(rules, row, te), meant' = [meant EXCEPT ![hp.log] = meaning],
         preset' = preset, misled \subseteq misled', misled' \subseteq RLogs,
         asked' = asked \/ asked' = Absent,
         hp.log \notin misled' => meaning = Meanings(rules, Told)
  PROVE  RuleInv'
<1>1. hp.log \in RLogs /\ doc[hp.log] \in LogStates BY DEF RuleInv, RuleTypes
<1>2. doc' \in [RLogs -> LogStates]
      /\ \A l \in RLogs : l # hp.log => doc'[l] = doc[l]
  BY <1>1 DEF Commit, RuleInv, RuleTypes, LogStates
<1>3. /\ doc'[hp.log].rules = rules /\ doc'[hp.log].zone = doc[hp.log].zone
      /\ doc'[hp.log].mode = doc[hp.log].mode /\ doc'[hp.log].base = doc[hp.log].base
      /\ doc'[hp.log].known = doc[hp.log].known /\ doc'[hp.log].own = doc[hp.log].own
  BY <1>1 DEF Commit, RuleInv, RuleTypes, LogStates
<1>4. hp' \in [log : RLogs, rules : Seq(RuleSet), zone : Int, row : Nat]
      /\ hp'.log = hp.log /\ hp'.rules = rules /\ hp'.row = row /\ hp'.zone = hp.zone
  BY DEF Reload, RuleInv, RuleTypes
<1> DEFINE first == IF rules # <<>> THEN EditorLoaded(te, rules[1]) ELSE te
<1>5. first \in Editors /\ first.can = te.can /\ first.zone = te.zone /\ first.mode = te.mode
      /\ first.base = te.base
  <2>1. CASE rules = <<>> BY <2>1 DEF RuleInv, RuleTypes
  <2>2. CASE rules # <<>>
    <3>1. rules[1] \in RuleSet BY <2>2
    <3> QED BY <2>2, <3>1, LoadedIs DEF RuleInv, RuleTypes
  <2> QED BY <2>1, <2>2
<1>6. te' = LoadedFor(first, rules, row) BY DEF Reload
<1> HIDE DEF first
<1>7. te' \in Editors /\ te'.can = te.can /\ te'.zone = te.zone /\ te'.mode = te.mode
      /\ te'.base = te.base /\ Shown(te', rules, row)
  BY <1>5, <1>6, LoadedForIs
<1>8. meant' = [l \in RLogs |-> meant'[l]] /\ meant'[hp.log] = meaning
      /\ \A l \in RLogs : l # hp.log => meant'[l] = meant[l]
  BY <1>1 DEF RuleInv, RuleTypes
<1>9. RuleTypes' BY <1>2, <1>4, <1>7, <1>8 DEF RuleInv, RuleTypes
<1>10. ASSUME NEW l \in RLogs \ misled' PROVE meant'[l] = Meanings(doc'[l].rules, TellZone(doc'[l]))
  <2>1. CASE l = hp.log BY <1>3, <1>8, <2>1 DEF Told, Here, TellZone
  <2>2. CASE l # hp.log BY <1>2, <1>8, <2>2 DEF RuleInv
  <2> QED BY <2>1, <2>2
<1>11. hp'.log \notin misled' => /\ hp'.zone = doc'[hp'.log].zone
                                 /\ Terms(te', doc'[hp'.log]) /\ Shown(te', hp'.rules, hp'.row)
  BY <1>3, <1>4, <1>7 DEF RuleInv, Terms
<1>12. asked' # Absent /\ asked'.sure => asked'.meant = Meanings(asked'.rules, asked'.zone)
  BY DEF RuleInv
<1> QED BY <1>3, <1>4, <1>9, <1>10, <1>11, <1>12 DEF RuleInv

\* The pane is bound to a log, whose terms may be new.
LEMMA BoundKeeps ==
  ASSUME RuleInv, NEW l \in RLogs, NEW d \in LogStates, PaneBound(l, d),
         doc' \in [RLogs -> LogStates], doc'[l] = d,
         \A m \in RLogs : m # l => doc'[m] = doc[m],
         misled \subseteq misled', misled' \subseteq RLogs,
         l \notin misled' => meant[l] = Meanings(d.rules, TellZone(d)),
         UNCHANGED <<preset, asked, meant>>
  PROVE  RuleInv'
<1> DEFINE row == IF d.rules = <<>> THEN 0 ELSE 1
           e == EditorBound(te, d)
<1>1. d.rules \in Seq(RuleSet) /\ d.zone \in Int /\ row \in Nat BY DEF LogStates
<1>2. hp' = [log |-> l, rules |-> d.rules, zone |-> d.zone, row |-> row]
      /\ te' = LoadedFor(e, d.rules, row)
  BY DEF PaneBound
<1>3. e \in Editors /\ Terms(e, d) BY EditorBoundIs DEF RuleInv, RuleTypes
<1> HIDE DEF row, e
<1>4. te' \in Editors /\ Terms(te', d) /\ Shown(te', d.rules, row)
  BY <1>1, <1>2, <1>3, LoadedForIs DEF Terms
<1>5. RuleTypes' BY <1>1, <1>2, <1>4 DEF RuleInv, RuleTypes
<1>6. \A m \in RLogs \ misled' : meant'[m] = Meanings(doc'[m].rules, TellZone(doc'[m]))
  BY DEF RuleInv
<1> QED BY <1>2, <1>4, <1>5, <1>6 DEF RuleInv

\* The terms of the bound log are new, and its rules are reexpressed in them.
LEMMA RefreshKeeps ==
  ASSUME RuleInv, NEW d \in LogStates, Refreshed_(d), d.rules = doc[hp.log].rules,
         d.known = doc[hp.log].known,
         d.known \/ (d.zone = doc[hp.log].zone /\ d.own = doc[hp.log].own),
         UNCHANGED <<preset, asked, meant, misled>>
  PROVE  RuleInv'
<1> DEFINE rules == IF hp.zone = d.zone THEN hp.rules ELSE Reexpressed(hp.rules, hp.zone, d.zone)
<1>1. hp.log \in RLogs /\ hp.zone \in Int /\ d.zone \in Int /\ hp.rules \in Seq(RuleSet)
      /\ hp.row \in Nat /\ te \in Editors /\ doc[hp.log] \in LogStates
  BY DEF RuleInv, RuleTypes, LogStates
<1>2. rules \in Seq(RuleSet) BY <1>1, ReexpressedType
<1>3. /\ hp' = [hp EXCEPT !.rules = rules, !.zone = d.zone]
      /\ te' = EditorRefreshed(te, d)
      /\ doc' = [doc EXCEPT ![hp.log] = [d EXCEPT !.rules = IF rules = hp.rules THEN @ ELSE rules]]
  BY DEF Refreshed_
<1>4. hp.zone = doc[hp.log].zone => Meanings(rules, d.zone) = Meanings(hp.rules, hp.zone)
  BY <1>1, MeaningReexpressed
<1>5. hp.zone = d.zone => rules = hp.rules OBVIOUS
<1>6. te.zone = hp.zone =>
        rules = IF te.zone = d.zone THEN hp.rules ELSE Reexpressed(hp.rules, te.zone, d.zone)
  OBVIOUS
<1> HIDE DEF rules
<1>7. [d EXCEPT !.rules = IF rules = hp.rules THEN @ ELSE rules] = [d EXCEPT !.rules = rules]
  BY DEF RuleInv, LogStates
<1>8. /\ doc' \in [RLogs -> LogStates] /\ \A l \in RLogs : l # hp.log => doc'[l] = doc[l]
      /\ doc'[hp.log] = [d EXCEPT !.rules = rules]
  <2>1. [d EXCEPT !.rules = rules] \in LogStates BY <1>2 DEF LogStates
  <2> QED BY <1>1, <1>3, <1>7, <2>1 DEF RuleInv, RuleTypes
<1>9. hp' \in [log : RLogs, rules : Seq(RuleSet), zone : Int, row : Nat]
      /\ hp'.log = hp.log /\ hp'.rules = rules /\ hp'.row = hp.row /\ hp'.zone = d.zone
  BY <1>1, <1>2, <1>3 DEF RuleInv, RuleTypes
<1>10. /\ te' \in Editors /\ te'.can = te.can
       /\ te'.zone = d.zone /\ te'.mode = d.mode /\ te'.base = d.base
       /\ te.zone = hp.zone /\ Shown(te, hp.rules, hp.row) => Shown(te', rules, hp.row)
  BY <1>1, <1>3, <1>6, RefreshedShows
<1>11. /\ doc'[hp.log].rules = rules /\ doc'[hp.log].zone = d.zone /\ doc'[hp.log].mode = d.mode
       /\ doc'[hp.log].base = d.base /\ doc'[hp.log].known = d.known /\ doc'[hp.log].own = d.own
  BY <1>8 DEF LogStates
<1>12. ASSUME NEW l \in RLogs \ misled' PROVE meant'[l] = Meanings(doc'[l].rules, TellZone(doc'[l]))
  <2>1. CASE l # hp.log BY <1>8, <2>1 DEF RuleInv
  <2>2. CASE l = hp.log
    <3>1. meant[l] = Meanings(hp.rules, TellZone(doc[hp.log])) /\ hp.zone = doc[hp.log].zone
      BY <2>2 DEF RuleInv
    <3>2. CASE d.known BY <1>4, <1>11, <2>2, <3>1, <3>2 DEF TellZone
    <3>3. CASE ~d.known BY <1>5, <1>11, <2>2, <3>1, <3>3 DEF TellZone
    <3> QED BY <3>2, <3>3
  <2> QED BY <2>1, <2>2
<1>13. hp'.log \notin misled' => /\ hp'.zone = doc'[hp'.log].zone
                                 /\ Terms(te', doc'[hp'.log]) /\ Shown(te', hp'.rules, hp'.row)
  BY <1>9, <1>10, <1>11 DEF RuleInv, Terms
<1>14. RuleTypes' BY <1>8, <1>9, <1>10 DEF RuleInv, RuleTypes
<1> QED BY <1>9, <1>11, <1>12, <1>13, <1>14 DEF RuleInv
\* What is known of the bound log.
LEMMA AtHand ==
  ASSUME RuleInv
  PROVE  /\ hp.log \in RLogs /\ Here \in LogStates /\ te \in Editors /\ Told \in Int
         /\ hp.rules \in Seq(RuleSet) /\ hp.rules = Here.rules /\ hp.row \in Nat
         /\ hp.zone \in Int /\ misled \subseteq RLogs
         /\ \A i \in DOMAIN hp.rules : hp.rules[i] \in RuleSet
         /\ hp.log \notin misled => /\ meant[hp.log] = Meanings(hp.rules, Told)
                                    /\ hp.zone = Here.zone
                                    /\ Terms(te, Here) /\ Shown(te, hp.rules, hp.row)
<1>1. hp.log \in RLogs /\ Here \in LogStates /\ te \in Editors /\ hp.row \in Nat
      /\ hp.rules \in Seq(RuleSet) /\ hp.zone \in Int /\ misled \subseteq RLogs
  BY DEF RuleInv, RuleTypes, Here
<1>2. Told \in Int /\ Told = TellZone(Here) BY <1>1 DEF Told, TellZone, LogStates
<1>3. \A i \in DOMAIN hp.rules : hp.rules[i] \in RuleSet BY <1>1
<1> QED BY <1>1, <1>2, <1>3 DEF RuleInv, Here

\* The editor is read back into the rule on the screen.
LEMMA ChangedKeeps ==
  ASSUME RuleInv, NEW e \in Editors, NEW meaning, Changed(e, meaning),
         misled \subseteq misled', misled' \subseteq RLogs,
         hp.log \notin misled' =>
           /\ Terms(e, Here) /\ meaning = Meaning(RuleOf(e, hp.rules[hp.row]), Told)
           /\ e.on /\ e.mode = "run" => \A s \in Sides : e.secs[s] + e.base = e.clock[s] - e.zone
  PROVE  RuleInv'
<1> DEFINE r == RuleOf(e, hp.rules[hp.row])
           rules == [hp.rules EXCEPT ![hp.row] = r]
<1>1. /\ hp.row \in DOMAIN hp.rules /\ te' = e /\ hp' = [hp EXCEPT !.rules = rules]
      /\ Commit(rules) /\ meant' = [meant EXCEPT ![hp.log][hp.row] = meaning]
      /\ UNCHANGED <<preset, asked>>
  BY DEF Changed, Selected
<1>2. r \in RuleSet /\ r.on = e.on /\ r.at = e.clock
  <2>1. hp.rules[hp.row] \in RuleSet BY <1>1, AtHand
  <2> QED BY <2>1 DEF RuleOf, RuleSet, Editors, Clocks, Digits
<1> HIDE DEF r
<1>3. rules \in Seq(RuleSet) /\ DOMAIN rules = DOMAIN hp.rules /\ rules[hp.row] = r
  BY <1>1, <1>2, AtHand
<1>4. hp.log \notin misled' => meant'[hp.log] = Meanings(rules, Told)
  <2> SUFFICES ASSUME hp.log \notin misled' PROVE meant'[hp.log] = Meanings(rules, Told)
    OBVIOUS
  <2>1. meant[hp.log] = Meanings(hp.rules, Told) /\ meaning = Meaning(r, Told)
    BY AtHand DEF r
  <2>2. meant'[hp.log] = [meant[hp.log] EXCEPT ![hp.row] = meaning]
    BY <1>1, AtHand DEF RuleInv, RuleTypes
  <2>3. Meanings(rules, Told) = [Meanings(hp.rules, Told) EXCEPT ![hp.row] = Meaning(r, Told)]
    <3>1. \A z \in Int : \A i \in DOMAIN hp.rules, x \in RuleSet :
            Meanings([hp.rules EXCEPT ![i] = x], z) = [Meanings(hp.rules, z) EXCEPT ![i] = Meaning(x, z)]
      BY AtHand, MeaningsFollow, Zenon
    <3> QED BY <1>1, <1>2, <3>1, AtHand, Zenon
  <2> QED BY <2>1, <2>2, <2>3
<1> HIDE DEF rules
<1>5. doc' \in [RLogs -> LogStates] /\ \A l \in RLogs : l # hp.log => doc'[l] = doc[l]
  <2>1. [doc[hp.log] EXCEPT !.rules = rules] \in LogStates
    BY <1>3, AtHand DEF Here, LogStates
  <2> QED BY <1>1, <2>1, AtHand DEF Commit, RuleInv, RuleTypes
<1>6. /\ doc'[hp.log].rules = rules /\ doc'[hp.log].zone = Here.zone
      /\ doc'[hp.log].mode = Here.mode /\ doc'[hp.log].base = Here.base
      /\ doc'[hp.log].known = Here.known /\ doc'[hp.log].own = Here.own
  BY <1>1, AtHand DEF Commit, RuleInv, RuleTypes, LogStates, Here
<1>7. hp' \in [log : RLogs, rules : Seq(RuleSet), zone : Int, row : Nat]
      /\ hp'.log = hp.log /\ hp'.rules = rules /\ hp'.row = hp.row /\ hp'.zone = hp.zone
  BY <1>1, <1>3 DEF RuleInv, RuleTypes
<1>8. meant' = [l \in RLogs |-> meant'[l]] /\ \A l \in RLogs : l # hp.log => meant'[l] = meant[l]
  BY <1>1, AtHand DEF RuleInv, RuleTypes
<1>9. RuleTypes' BY <1>1, <1>5, <1>7, <1>8 DEF RuleInv, RuleTypes
<1>10. ASSUME NEW l \in RLogs \ misled' PROVE meant'[l] = Meanings(doc'[l].rules, TellZone(doc'[l]))
  <2>1. CASE l = hp.log BY <1>4, <1>6, <2>1 DEF Told, TellZone
  <2>2. CASE l # hp.log BY <1>5, <1>8, <2>2 DEF RuleInv
  <2> QED BY <2>1, <2>2
<1>11. hp'.log \notin misled' => /\ hp'.zone = doc'[hp'.log].zone
                                 /\ Terms(te', doc'[hp'.log]) /\ Shown(te', hp'.rules, hp'.row)
  BY <1>1, <1>2, <1>3, <1>6, <1>7, AtHand DEF Terms, Shown
<1> QED BY <1>1, <1>6, <1>7, <1>9, <1>10, <1>11 DEF RuleInv

LEMMA NewRuleKeeps == ASSUME RuleInv, NEW copied \in BOOLEAN, NewRule(copied) PROVE RuleInv'
<1> DEFINE r == IF copied /\ Selected THEN hp.rules[hp.row] ELSE EmptyRule(FreeLook)
           m == IF copied /\ Selected THEN meant[hp.log][hp.row] ELSE Meaning(r, Told)
<1>1. r \in RuleSet
  <2>1. FreeLook \in Looks
    <3> DEFINE free == Looks \ {x.look : x \in ToSet(hp.rules)}
    <3>1. (IF free = {} THEN Looks ELSE free) # {} /\ (IF free = {} THEN Looks ELSE free) \subseteq Looks
      BY RuleAssumption
    <3> HIDE DEF free
    <3> QED BY <3>1 DEF FreeLook, free
  <2>2. EmptyRule(FreeLook) \in RuleSet
    BY <2>1 DEF EmptyRule, NoBounds, RuleSet, Sides, Digits
  <2> QED BY <2>2, AtHand DEF Selected
<1>2. hp.log \notin misled => meant[hp.log] = Meanings(hp.rules, Told) /\ m = Meaning(r, Told)
  BY AtHand, MeaningsType DEF Selected
<1>3. /\ Edit_(Append(hp.rules, r), Len(hp.rules) + 1, te, Append(meant[hp.log], m))
      /\ misled' = misled
  BY DEF NewRule
<1> HIDE DEF r, m
<1>4. Append(hp.rules, r) \in Seq(RuleSet) /\ Len(hp.rules) + 1 \in Nat BY <1>1, AtHand
<1>5. hp.log \notin misled => Append(meant[hp.log], m) = Meanings(Append(hp.rules, r), Told)
  BY <1>1, <1>2, AtHand, MeaningsFollow
<1> QED BY <1>3, <1>4, <1>5, AtHand, EditedKeeps DEF Edit_

LEMMA RemoveRuleKeeps == ASSUME RuleInv, RemoveRule PROVE RuleInv'
<1> DEFINE left == RemoveAt(hp.rules, hp.row)
           row == IF hp.row > Len(left) THEN Len(left) ELSE hp.row
<1>1. /\ hp.row \in DOMAIN hp.rules /\ misled' = misled
      /\ Edit_(left, row, te, RemoveAt(meant[hp.log], hp.row))
  BY DEF RemoveRule, Selected
<1>2. left \in Seq(RuleSet) /\ row \in Nat
  <2>1. left \in Seq(RuleSet) BY <1>1, AtHand, RemovedAt
  <2> QED BY <2>1, AtHand
<1>3. hp.log \notin misled => RemoveAt(meant[hp.log], hp.row) = Meanings(left, Told)
  BY <1>1, AtHand, MeaningsFollow
<1> HIDE DEF left, row
<1> QED BY <1>1, <1>2, <1>3, AtHand, EditedKeeps DEF Edit_

LEMMA ClearKeeps == ASSUME RuleInv, Clear PROVE RuleInv'
<1>1. <<>> \in Seq(RuleSet) /\ Meanings(<<>>, Told) = <<>> BY DEF Meanings
<1> QED BY <1>1, AtHand, EditedKeeps DEF Clear, Edit_

LEMMA MoveRuleKeeps == ASSUME RuleInv, NEW i \in 1..MaxRules, MoveRule(i) PROVE RuleInv'
<1>1. /\ hp.row \in DOMAIN hp.rules /\ i \in DOMAIN hp.rules /\ misled' = misled
      /\ Edit_(Swapped(hp.rules, hp.row, i), i, te, Swapped(meant[hp.log], hp.row, i))
  BY DEF MoveRule, Selected
<1>2. Swapped(hp.rules, hp.row, i) \in Seq(RuleSet) /\ i \in Nat
  BY <1>1, AtHand DEF Swapped
<1>3. hp.log \notin misled => Swapped(meant[hp.log], hp.row, i)
                                = Meanings(Swapped(hp.rules, hp.row, i), Told)
  BY <1>1, AtHand, MeaningsFollow
<1> QED BY <1>1, <1>2, <1>3, AtHand, EditedKeeps DEF Edit_

LEMMA SelectRuleKeeps == ASSUME RuleInv, NEW i \in 1..MaxRules, SelectRule(i) PROVE RuleInv'
<1>1. i \in DOMAIN hp.rules /\ hp' = [hp EXCEPT !.row = i] /\ te' = EditorLoaded(te, hp.rules[i])
      /\ UNCHANGED <<doc, preset, asked, meant, misled>>
  BY DEF SelectRule
<1>2. hp.rules[i] \in RuleSet /\ te \in Editors /\ i \in Nat BY <1>1, AtHand
<1>3. /\ te' \in Editors /\ te'.can = te.can /\ te'.zone = te.zone /\ te'.mode = te.mode
      /\ te'.base = te.base /\ Shown(te', hp.rules, i)
  BY <1>1, <1>2, LoadedIs DEF Shown
<1>4. hp' \in [log : RLogs, rules : Seq(RuleSet), zone : Int, row : Nat]
      /\ hp'.log = hp.log /\ hp'.rules = hp.rules /\ hp'.row = i /\ hp'.zone = hp.zone
  BY <1>1, <1>2 DEF RuleInv, RuleTypes
<1> QED BY <1>1, <1>3, <1>4 DEF RuleInv, RuleTypes, Terms
LEMMA TickRowKeeps ==
  ASSUME RuleInv, NEW i \in 1..MaxRules, NEW look \in Looks, TickRow(i, look) PROVE RuleInv'
<1> DEFINE r == [hp.rules[i] EXCEPT !.look = look]
           rules == [hp.rules EXCEPT ![i] = r]
<1>1. /\ i \in DOMAIN hp.rules /\ hp' = [hp EXCEPT !.rules[i].look = look] /\ Commit(hp'.rules)
      /\ meant' = [meant EXCEPT ![hp.log][i].look = look]
      /\ UNCHANGED <<te, preset, asked, misled>>
  BY DEF TickRow
<1>2. r \in RuleSet /\ r.on = hp.rules[i].on /\ r.at = hp.rules[i].at
  <2>1. hp.rules[i] \in RuleSet BY <1>1, AtHand
  <2> QED BY <2>1 DEF RuleSet
<1>3. rules \in Seq(RuleSet) /\ DOMAIN rules = DOMAIN hp.rules
      /\ \A j \in DOMAIN rules : rules[j].on = hp.rules[j].on /\ rules[j].at = hp.rules[j].at
  BY <1>1, <1>2, AtHand
<1>4. hp' \in [log : RLogs, rules : Seq(RuleSet), zone : Int, row : Nat]
      /\ hp'.log = hp.log /\ hp'.rules = rules /\ hp'.row = hp.row /\ hp'.zone = hp.zone
  BY <1>1, <1>3 DEF RuleInv, RuleTypes
<1>5. hp.log \notin misled => meant'[hp.log] = Meanings(rules, Told)
  <2> SUFFICES ASSUME hp.log \notin misled PROVE meant'[hp.log] = Meanings(rules, Told)
    OBVIOUS
  <2>1. Meaning(r, Told) = [Meaning(hp.rules[i], Told) EXCEPT !.look = look]
    <3>1. hp.rules[i] \in RuleSet BY <1>1, AtHand
    <3> QED BY <3>1 DEF Meaning, RuleSet
  <2>2. meant[hp.log] = Meanings(hp.rules, Told) BY AtHand
  <2>3. meant'[hp.log] = [meant[hp.log] EXCEPT ![i].look = look]
    BY <1>1, AtHand DEF RuleInv, RuleTypes
  <2>4. meant'[hp.log] = [Meanings(hp.rules, Told) EXCEPT ![i] = Meaning(r, Told)]
    <3> DEFINE M == Meanings(hp.rules, Told)
    <3>1. M[i] = Meaning(hp.rules[i], Told) BY <1>1, AtHand, MeaningsType
    <3>2. meant'[hp.log] = [M EXCEPT ![i] = [M[i] EXCEPT !.look = look]] BY <2>2, <2>3
    <3> HIDE DEF M
    <3>3. meant'[hp.log] = [M EXCEPT ![i] = Meaning(r, Told)] BY <2>1, <3>1, <3>2
    <3> QED BY <3>3 DEF M
  <2>5. \A z \in Int : \A j \in DOMAIN hp.rules, x \in RuleSet :
          Meanings([hp.rules EXCEPT ![j] = x], z) = [Meanings(hp.rules, z) EXCEPT ![j] = Meaning(x, z)]
    BY AtHand, MeaningsFollow, Zenon
  <2>6. Meanings(rules, Told) = [Meanings(hp.rules, Told) EXCEPT ![i] = Meaning(r, Told)]
    BY <1>1, <1>2, <2>5, AtHand, Zenon
  <2> QED BY <2>4, <2>6
<1> HIDE DEF r, rules
<1>6. doc' \in [RLogs -> LogStates] /\ \A l \in RLogs : l # hp.log => doc'[l] = doc[l]
  <2>1. [doc[hp.log] EXCEPT !.rules = rules] \in LogStates
    BY <1>3, AtHand DEF Here, LogStates
  <2> QED BY <1>1, <1>4, <2>1, AtHand DEF Commit, RuleInv, RuleTypes
<1>7. /\ doc'[hp.log].rules = rules /\ doc'[hp.log].zone = Here.zone
      /\ doc'[hp.log].mode = Here.mode /\ doc'[hp.log].base = Here.base
      /\ doc'[hp.log].known = Here.known /\ doc'[hp.log].own = Here.own
  BY <1>1, <1>4, AtHand DEF Commit, RuleInv, RuleTypes, LogStates, Here
<1>8. meant' = [l \in RLogs |-> meant'[l]] /\ \A l \in RLogs : l # hp.log => meant'[l] = meant[l]
  BY <1>1, AtHand DEF RuleInv, RuleTypes
<1>9. RuleTypes' BY <1>1, <1>4, <1>6, <1>8 DEF RuleInv, RuleTypes
<1>10. ASSUME NEW l \in RLogs \ misled' PROVE meant'[l] = Meanings(doc'[l].rules, TellZone(doc'[l]))
  <2>1. CASE l = hp.log BY <1>1, <1>5, <1>7, <2>1 DEF Told, TellZone
  <2>2. CASE l # hp.log BY <1>1, <1>6, <1>8, <2>2 DEF RuleInv
  <2> QED BY <2>1, <2>2
<1>11. hp'.log \notin misled' => /\ hp'.zone = doc'[hp'.log].zone
                                 /\ Terms(te', doc'[hp'.log]) /\ Shown(te', hp'.rules, hp'.row)
  BY <1>1, <1>3, <1>4, <1>7, AtHand DEF Terms, Shown
<1> QED BY <1>1, <1>4, <1>7, <1>9, <1>10, <1>11 DEF RuleInv

LEMMA EditOtherKeeps == ASSUME RuleInv, EditOther PROVE RuleInv'
<1>1. Changed(te, meant[hp.log][hp.row]) /\ misled' = misled /\ hp.row \in DOMAIN hp.rules
  BY DEF EditOther, Changed, Selected
<1>2. hp.log \notin misled =>
        meant[hp.log][hp.row] = Meaning(RuleOf(te, hp.rules[hp.row]), Told)
  <2> SUFFICES ASSUME hp.log \notin misled
               PROVE  meant[hp.log][hp.row] = Meaning(RuleOf(te, hp.rules[hp.row]), Told)
    OBVIOUS
  <2>1. meant[hp.log][hp.row] = Meaning(hp.rules[hp.row], Told)
    BY <1>1, AtHand, MeaningsType
  <2>2. hp.rules[hp.row] \in RuleSet /\ te.on = hp.rules[hp.row].on
        /\ (te.on => te.clock = hp.rules[hp.row].at)
    BY <1>1, AtHand DEF Shown
  <2> QED BY <2>1, <2>2 DEF Meaning, RuleOf, RuleSet
<1> QED BY <1>1, <1>2, AtHand, ChangedKeeps DEF Shown

LEMMA TypeBoundKeeps ==
  ASSUME RuleInv, NEW side \in Sides, NEW t \in Moments, TypeBound(side, t) PROVE RuleInv'
<1> DEFINE x == t - Here.base
           e == IF te.mode = "run"
                THEN [te EXCEPT !.secs[side] = x, !.clock[side] = te.base + x + te.zone, !.mine = TRUE]
                ELSE [te EXCEPT !.clock[side] = t + Here.zone, !.mine = TRUE]
           meaning == [meant[hp.log][hp.row] EXCEPT !.at[side] = t]
<1>1. te.can /\ te.on /\ Changed(e, meaning) /\ misled' = misled /\ hp.row \in DOMAIN hp.rules
  BY DEF TypeBound, Changed, Selected
<1>2. t \in Int /\ te \in Editors /\ Here.base \in Int /\ Here.zone \in Int /\ te.base \in Int
      /\ te.zone \in Int /\ te.clock \in Clocks /\ te.secs \in Clocks
  BY RuleAssumption, AtHand DEF LogStates, Editors
<1>3. e \in Editors /\ e.on = te.on /\ e.zone = te.zone /\ e.mode = te.mode /\ e.base = te.base
      /\ e.can = te.can
  <2>1. [te.secs EXCEPT ![side] = x] \in Clocks
        /\ [te.clock EXCEPT ![side] = te.base + x + te.zone] \in Clocks
        /\ [te.clock EXCEPT ![side] = t + Here.zone] \in Clocks
    BY <1>2 DEF Clocks
  <2>2. CASE te.mode = "run" BY <1>2, <2>1, <2>2 DEF Editors
  <2>3. CASE te.mode # "run" BY <1>2, <2>1, <2>3 DEF Editors
  <2> QED BY <2>2, <2>3
<1>4. ASSUME hp.log \notin misled
      PROVE  /\ \A s \in Sides : e.clock[s] = IF s = side THEN t + Here.zone ELSE te.clock[s]
             /\ e.mode = "run" => \A s \in Sides : e.secs[s] + e.base = e.clock[s] - e.zone
  <2>1. Terms(te, Here) /\ Shown(te, hp.rules, hp.row) BY <1>4, AtHand
  <2>2. CASE te.mode = "run" BY <1>1, <1>2, <2>1, <2>2 DEF Terms, Shown, Editors, Clocks
  <2>3. CASE te.mode # "run" BY <1>1, <1>2, <2>1, <2>3 DEF Terms, Shown, Editors, Clocks
  <2> QED BY <2>2, <2>3
<1> HIDE DEF e
<1>5. ASSUME hp.log \notin misled PROVE meaning = Meaning(RuleOf(e, hp.rules[hp.row]), Told)
  <2>1. Told = Here.zone /\ te.clock = hp.rules[hp.row].at /\ hp.rules[hp.row].on
        /\ hp.rules[hp.row] \in RuleSet
    BY <1>1, <1>5, AtHand DEF Told, Terms, Shown
  <2>2. meant[hp.log][hp.row] = Meaning(hp.rules[hp.row], Told)
    BY <1>1, <1>5, AtHand, MeaningsType
  <2>3. e.clock \in Clocks /\ te.clock \in [Sides -> Digits] /\ e.clock \in [Sides -> Digits]
        /\ -Told \in Int
    BY <1>2, <1>3, <2>1 DEF Editors, Clocks, Digits
  <2>4. /\ Shift(te.clock, -Told) \in Clocks /\ Shift(e.clock, -Told) \in Clocks
        /\ \A s \in Sides : Shift(te.clock, -Told)[s] = te.clock[s] + (-Told)
        /\ \A s \in Sides : Shift(e.clock, -Told)[s] = e.clock[s] + (-Told)
    BY <1>2, <2>3, ShiftType
  <2>5. \A s \in Sides : Shift(e.clock, -Told)[s] = IF s = side THEN t ELSE Shift(te.clock, -Told)[s]
    BY <1>2, <1>4, <1>5, <2>1, <2>4
  <2>6. Shift(e.clock, -Told) = [Shift(te.clock, -Told) EXCEPT ![side] = t]
    BY <1>2, <2>4, <2>5 DEF Clocks
  <2>7. Meaning(hp.rules[hp.row], Told) = [hp.rules[hp.row] EXCEPT !.at = Shift(te.clock, -Told)]
    BY <2>1 DEF Meaning, Moment, RuleSet
  <2>8. Meaning(RuleOf(e, hp.rules[hp.row]), Told)
          = [hp.rules[hp.row] EXCEPT !.at = Shift(e.clock, -Told)]
    BY <1>1, <1>3, <2>1 DEF Meaning, Moment, RuleOf, RuleSet
  <2>9. meant[hp.log][hp.row].at = Shift(te.clock, -Told) BY <2>1, <2>2, <2>7 DEF RuleSet
  <2>10. meaning = [meant[hp.log][hp.row] EXCEPT !.at = Shift(e.clock, -Told)]
    BY <2>6, <2>9
  <2> QED BY <2>1, <2>2, <2>7, <2>8, <2>10 DEF RuleSet
<1> QED BY <1>1, <1>3, <1>4, <1>5, AtHand, ChangedKeeps DEF Terms

LEMMA TickTimeKeeps == ASSUME RuleInv, TickTime PROVE RuleInv'
<1> DEFINE s == IF te.on THEN te ELSE Seeded(te, Here)
           e == [s EXCEPT !.on = ~s.on]
<1>1. /\ te.can /\ Changed(e, Meaning(RuleOf(e, hp.rules[hp.row]), Told))
      /\ misled' = IF e.on /\ Bounded(e) # Moment(e.clock, e.zone) THEN misled \cup {hp.log} ELSE misled
  BY DEF TickTime
<1>2. s \in Editors /\ s.can = te.can
      /\ (s = te \/ (s.zone = Here.zone /\ s.mode = Here.mode /\ s.base = Here.base))
  BY AtHand, SeededIs
<1> HIDE DEF s
<1>3. e \in Editors /\ e.can = te.can
      /\ (hp.log \notin misled => Terms(e, Here))
  BY <1>2, AtHand DEF Editors, Terms
<1> HIDE DEF e
<1>4. ASSUME hp.log \notin misled', e.on, e.mode = "run", NEW x \in Sides
      PROVE  e.secs[x] + e.base = e.clock[x] - e.zone
  <2>1. Bounded(e) = Moment(e.clock, e.zone) BY <1>1, <1>4
  <2>2. Bounded(e)[x] = e.secs[x] + e.base BY <1>4 DEF Bounded
  <2>3. e.clock \in Clocks /\ e.clock \in [Sides -> Digits] /\ e.zone \in Int /\ -e.zone \in Int
    BY <1>3 DEF Editors, Clocks, Digits
  <2>4. Moment(e.clock, e.zone)[x] = e.clock[x] + (-e.zone) BY <2>3, ShiftType DEF Moment
  <2> QED BY <2>1, <2>2, <2>3, <2>4 DEF Clocks
<1>5. misled \subseteq misled' /\ misled' \subseteq RLogs BY <1>1, AtHand
<1> QED BY <1>1, <1>3, <1>4, <1>5, ChangedKeeps
LEMMA PresetKeeps == ASSUME RuleInv, SavePreset \/ PresetGone PROVE RuleInv'
<1>1. preset'.rules = Absent \/ preset'.rules \in Seq(RuleSet)
  <2>1. CASE SavePreset BY <2>1, AtHand DEF SavePreset
  <2>2. CASE PresetGone BY <2>2 DEF PresetGone
  <2> QED BY <2>1, <2>2
<1>2. UNCHANGED <<doc, hp, te, asked, meant>> /\ misled' = misled
  BY DEF SavePreset, PresetGone
<1> QED BY <1>1, <1>2, AtHand, NothingChanges

LEMMA ApplyPresetKeeps == ASSUME RuleInv, ApplyPreset PROVE RuleInv'
<1> DEFINE gone == preset.rules = Absent
           rules == IF gone THEN <<>> ELSE preset.rules
           row == IF rules = <<>> THEN 0 ELSE 1
           meaning == IF gone THEN meant[hp.log] ELSE Meanings(rules, Told)
<1>1. Edit_(rules, row, te, meaning)
      /\ misled' = IF gone THEN misled \cup {hp.log} ELSE misled
  BY DEF ApplyPreset
<1>2. rules \in Seq(RuleSet) /\ row \in Nat
  <2>1. <<>> \in Seq(RuleSet) OBVIOUS
  <2> QED BY <2>1 DEF RuleInv, RuleTypes
<1>3. hp.log \notin misled' => meaning = Meanings(rules, Told) BY <1>1
<1>4. misled \subseteq misled' /\ misled' \subseteq RLogs BY <1>1, AtHand
<1> HIDE DEF gone, rules, row, meaning
<1> QED BY <1>1, <1>2, <1>3, <1>4, EditedKeeps DEF Edit_

\* What is asked of another log is read with the zone its digits are in.
LEMMA AskCopyKeeps == ASSUME RuleInv, NEW l \in RLogs, AskCopy(l) PROVE RuleInv'
<1>1. /\ asked' = [log |-> l, rules |-> doc[l].rules, zone |-> doc[l].zone, meant |-> meant[l],
                   sure |-> doc[l].known /\ l \notin misled]
      /\ UNCHANGED <<doc, hp, te, preset, meant, misled>>
  BY DEF AskCopy
<1>2. doc[l].rules \in Seq(RuleSet) /\ doc[l].zone \in Int /\ doc[l].known \in BOOLEAN
  BY DEF RuleInv, RuleTypes, LogStates
<1>3. asked'.rules = doc[l].rules /\ asked'.zone = doc[l].zone /\ asked'.meant = meant[l]
      /\ asked'.sure \in BOOLEAN /\ (asked'.sure <=> doc[l].known /\ l \notin misled)
  BY <1>1, <1>2
<1>4. asked'.sure => asked'.meant = Meanings(asked'.rules, asked'.zone)
  BY <1>3 DEF RuleInv, TellZone
<1>5. RuleTypes' BY <1>1, <1>2, <1>3 DEF RuleInv, RuleTypes
<1> QED BY <1>1, <1>4, <1>5 DEF RuleInv, Terms, Shown, TellZone

LEMMA AdoptKeeps == ASSUME RuleInv, Adopt PROVE RuleInv'
<1> DEFINE rules == IF asked.zone = hp.zone THEN asked.rules
                    ELSE Reexpressed(asked.rules, asked.zone, hp.zone)
           row == IF rules = <<>> THEN 0 ELSE 1
<1>1. /\ asked # Absent /\ asked' = Absent /\ Commit(rules) /\ Reload(rules, row, te)
      /\ meant' = [meant EXCEPT ![hp.log] = asked.meant] /\ preset' = preset
      /\ misled' = IF asked.sure /\ Here.known THEN misled ELSE misled \cup {hp.log}
  BY DEF Adopt
<1>2. asked.rules \in Seq(RuleSet) /\ asked.zone \in Int /\ hp.zone \in Int
  BY <1>1, AtHand DEF RuleInv, RuleTypes
<1>3. rules \in Seq(RuleSet) /\ row \in Nat BY <1>2, ReexpressedType
<1>4. Meanings(rules, hp.zone) = Meanings(asked.rules, asked.zone)
  BY <1>2, MeaningReexpressed
<1> HIDE DEF rules, row
<1>5. hp.log \notin misled' => asked.meant = Meanings(rules, Told)
  <2> SUFFICES ASSUME hp.log \notin misled' PROVE asked.meant = Meanings(rules, Told)
    OBVIOUS
  <2>1. asked.sure /\ Here.known /\ hp.log \notin misled BY <1>1
  <2>2. hp.zone = Told BY <2>1, AtHand DEF Told
  <2> QED BY <1>1, <1>4, <2>1, <2>2 DEF RuleInv
<1>6. misled \subseteq misled' /\ misled' \subseteq RLogs BY <1>1, AtHand
<1> QED BY <1>1, <1>3, <1>5, <1>6, EditedKeeps

LEMMA DeclineKeeps == ASSUME RuleInv, DeclineCopy PROVE RuleInv'
BY DEF DeclineCopy, RuleInv, RuleTypes, Terms, Shown, TellZone

LEMMA SwitchLogKeeps == ASSUME RuleInv, NEW l \in RLogs, SwitchLog(l) PROVE RuleInv'
<1>1. PaneBound(l, doc[l]) /\ doc' = [doc EXCEPT ![l].rules = hp'.rules]
      /\ UNCHANGED <<preset, asked, meant, misled>>
  BY DEF SwitchLog
<1>2. hp'.rules = doc[l].rules /\ doc[l] \in LogStates
  BY <1>1 DEF PaneBound, RuleInv, RuleTypes
<1>3. [doc[l] EXCEPT !.rules = hp'.rules] = doc[l] BY <1>2 DEF LogStates
<1>4. doc' = doc BY <1>1, <1>3 DEF RuleInv, RuleTypes
<1>5. l \notin misled => meant[l] = Meanings(doc[l].rules, TellZone(doc[l]))
  BY DEF RuleInv
<1>6. doc \in [RLogs -> LogStates] /\ misled \subseteq RLogs BY DEF RuleInv, RuleTypes
<1> QED BY <1>1, <1>2, <1>4, <1>5, <1>6, BoundKeeps

LEMMA DisplayKeeps ==
  ASSUME RuleInv, NEW zone \in RZones, NEW mode \in {"wall", "run"}, Display(zone, mode) PROVE RuleInv'
<1> DEFINE d == [Here EXCEPT !.zone = zone, !.mode = mode]
<1>1. Here.known /\ Refreshed_(d) /\ UNCHANGED <<preset, asked, meant, misled>>
  BY DEF Display
<1>2. d \in LogStates /\ d.rules = Here.rules /\ d.known = Here.known
  BY RuleAssumption, AtHand DEF LogStates
<1> HIDE DEF d
<1> QED BY <1>1, <1>2, RefreshKeeps DEF Here

LEMMA RunMovedKeeps == ASSUME RuleInv, NEW base \in Bases, RunMoved_(base) PROVE RuleInv'
<1> DEFINE d == [Here EXCEPT !.base = base]
<1>1. Refreshed_(d) /\ UNCHANGED <<preset, asked, meant, misled>> BY DEF RunMoved_
<1>2. d \in LogStates /\ d.rules = Here.rules /\ d.known = Here.known /\ d.zone = Here.zone
      /\ d.own = Here.own
  BY RuleAssumption, AtHand DEF LogStates
<1> HIDE DEF d
<1> QED BY <1>1, <1>2, RefreshKeeps DEF Here

LEMMA ReformatKeeps ==
  ASSUME RuleInv, NEW zone \in RZones, NEW mode \in {"wall", "run"}, Reformat(zone, mode) PROVE RuleInv'
<1> DEFINE d == [Here EXCEPT !.zone = zone, !.mode = mode, !.base = 0, !.span = Absent]
<1>1. /\ Here.known /\ doc' = [doc EXCEPT ![hp.log] = d] /\ PaneBound(hp.log, d)
      /\ misled' = IF zone = Here.zone THEN misled ELSE misled \cup {hp.log}
      /\ UNCHANGED <<preset, asked, meant>>
  BY DEF Reformat
<1>2. d \in LogStates /\ d.rules = Here.rules /\ d.known = Here.known /\ d.zone = zone
  BY RuleAssumption, AtHand DEF LogStates
<1> HIDE DEF d
<1>3. hp.log \notin misled' => meant[hp.log] = Meanings(d.rules, TellZone(d))
  BY <1>1, <1>2, AtHand DEF TellZone, Told
<1>4. doc' \in [RLogs -> LogStates] /\ doc'[hp.log] = d
      /\ \A m \in RLogs : m # hp.log => doc'[m] = doc[m]
  BY <1>1, <1>2, AtHand DEF RuleInv, RuleTypes
<1>5. misled \subseteq misled' /\ misled' \subseteq RLogs BY <1>1, AtHand
<1> QED BY <1>1, <1>2, <1>3, <1>4, <1>5, AtHand, BoundKeeps

LEMMA RelaunchKeeps == ASSUME RuleInv, NEW here \in BOOLEAN, Relaunch(here) PROVE RuleInv'
<1> DEFINE guess == CHOOSE z \in RZones : \A y \in RZones : z <= y
           known == here /\ Here.known
           zone == IF here /\ Here.known THEN Here.zone ELSE guess
           own == IF Here.known THEN Here.zone ELSE Here.own
           d == [Here EXCEPT !.known = here /\ @, !.span = Absent, !.base = 0,
                             !.zone = IF here /\ Here.known THEN @ ELSE guess,
                             !.own = IF Here.known THEN Here.zone ELSE @]
<1>1. /\ doc' = [doc EXCEPT ![hp.log] = d] /\ PaneBound(hp.log, d)
      /\ UNCHANGED <<preset, asked, meant, misled>>
  BY DEF Relaunch
<1>2. guess \in Int BY RuleAssumption
<1>3. Here.known \in BOOLEAN /\ Here.zone \in Int /\ Here.own \in Int
  BY AtHand DEF LogStates
<1> HIDE DEF guess
<1>4. d = [Here EXCEPT !.known = known, !.span = Absent, !.base = 0, !.zone = zone, !.own = own]
  BY AtHand DEF LogStates
<1>5. known \in BOOLEAN /\ zone \in Int /\ own \in Int BY <1>2, <1>3
<1> HIDE DEF d
<1>6. d \in LogStates /\ d.rules = Here.rules /\ d.known = known /\ d.zone = zone /\ d.own = own
  <2>1. Here \in LogStates BY AtHand
  <2> HIDE DEF known, zone, own
  <2>2. d = [zone |-> zone, mode |-> Here.mode, base |-> 0, known |-> known, span |-> Absent,
             own |-> own, rules |-> Here.rules]
    BY <1>4, <2>1 DEF LogStates
  <2>3. Here.mode \in {"wall", "run"} /\ Here.rules \in Seq(RuleSet) BY <2>1 DEF LogStates
  <2> QED BY <1>5, <2>2, <2>3 DEF LogStates
<1>7. TellZone(d) = Told BY <1>3, <1>6 DEF TellZone, Told
<1>8. hp.log \notin misled' => meant[hp.log] = Meanings(d.rules, TellZone(d))
  BY <1>1, <1>6, <1>7, AtHand
<1>9. doc' \in [RLogs -> LogStates] /\ doc'[hp.log] = d
      /\ \A m \in RLogs : m # hp.log => doc'[m] = doc[m]
  BY <1>1, <1>6, AtHand DEF RuleInv, RuleTypes
<1> QED BY <1>1, <1>6, <1>8, <1>9, AtHand, BoundKeeps

\* The lists of the pane are filled again: its editor shows the rule anew.
LEMMA DiscoveredIs ==
  ASSUME RuleInv, NEW l \in RLogs, Discovered_(l)
  PROVE  /\ te' \in Editors /\ te'.can = te.can /\ te'.zone = te.zone /\ te'.mode = te.mode
         /\ te'.base = te.base
         /\ l = hp.log => Shown(te', hp.rules, hp.row)
         /\ l # hp.log => te' = te
<1>1. CASE l = hp.log BY <1>1, AtHand, LoadedForIs DEF Discovered_
<1>2. CASE l # hp.log BY <1>2, AtHand DEF Discovered_
<1> QED BY <1>1, <1>2

LEMMA WideIs == Wide \in Clocks
<1>1. PICK a, b \in Moments : a # b BY RuleAssumption
<1> DEFINE at == [s \in Sides |-> IF s = "from" THEN a ELSE b]
<1>2. at \in [Sides -> Moments] /\ at["from"] # at["to"] BY <1>1 DEF Sides
<1>3. Wide \in [Sides -> Moments] BY <1>2 DEF Wide
<1> QED BY <1>3, RuleAssumption DEF Clocks

LEMMA ScannedKeeps ==
  ASSUME RuleInv, NEW l \in RLogs, NEW base \in Bases, Scanned_(l, Wide, base) PROVE RuleInv'
<1>1. /\ doc' = [doc EXCEPT ![l].span = Wide, ![l].base = base] /\ Discovered_(l)
      /\ misled' = IF l = hp.log /\ base # doc[l].base THEN misled \cup {l} ELSE misled
      /\ UNCHANGED <<hp, preset, asked, meant>>
  BY DEF Scanned_
<1> DEFINE d == [doc[l] EXCEPT !.span = Wide, !.base = base]
<1>2. d \in LogStates /\ d.rules = doc[l].rules /\ d.known = doc[l].known /\ d.zone = doc[l].zone
      /\ d.own = doc[l].own /\ d.mode = doc[l].mode /\ d.base = base
  <2>1. doc[l] \in LogStates /\ base \in Int BY RuleAssumption DEF RuleInv, RuleTypes
  <2>2. Wide \in Clocks BY WideIs
  <2> QED BY <2>1, <2>2 DEF LogStates
<1>3. doc' \in [RLogs -> LogStates] /\ doc'[l] = d /\ \A m \in RLogs : m # l => doc'[m] = doc[m]
  <2>1. doc' = [doc EXCEPT ![l] = d] BY <1>1 DEF RuleInv, RuleTypes
  <2> QED BY <1>2, <2>1 DEF RuleInv, RuleTypes
<1> HIDE DEF d
<1>4. misled \subseteq misled' /\ misled' \subseteq RLogs /\ (hp.log \notin misled' /\ l = hp.log => base = doc[l].base)
  BY <1>1, AtHand
<1>5. RuleTypes' BY <1>1, <1>3, <1>4, DiscoveredIs DEF RuleInv, RuleTypes
<1>6. \A m \in RLogs : /\ doc'[m].rules = doc[m].rules /\ TellZone(doc'[m]) = TellZone(doc[m])
                       /\ doc'[m].zone = doc[m].zone /\ doc'[m].mode = doc[m].mode
                       /\ doc'[m].known = doc[m].known
  BY <1>2, <1>3 DEF TellZone
<1>7. hp.log \notin misled' => /\ hp.zone = doc'[hp.log].zone
                               /\ Terms(te', doc'[hp.log]) /\ Shown(te', hp.rules, hp.row)
  BY <1>1, <1>2, <1>3, <1>4, <1>6, AtHand, DiscoveredIs DEF Terms, Here
<1> QED BY <1>1, <1>4, <1>5, <1>6, <1>7, AtHand DEF RuleInv

LEMMA ResumeKeeps == ASSUME RuleInv, NEW l \in RLogs, Resume(l) PROVE RuleInv'
<1>1. /\ ~doc[l].known /\ doc' = [doc EXCEPT ![l].known = TRUE, ![l].zone = doc[l].own] /\ Discovered_(l)
      /\ misled' = IF l = hp.log THEN misled \cup {l} ELSE misled
      /\ UNCHANGED <<hp, preset, asked, meant>>
  BY DEF Resume
<1> DEFINE d == [doc[l] EXCEPT !.known = TRUE, !.zone = doc[l].own]
<1>2. d \in LogStates /\ d.rules = doc[l].rules /\ d.known = TRUE /\ d.zone = doc[l].own
  <2>1. doc[l] \in LogStates BY DEF RuleInv, RuleTypes
  <2>2. ASSUME NEW x \in LogStates, NEW z \in Int
        PROVE  [x EXCEPT !.known = TRUE, !.zone = z] \in LogStates
    BY DEF LogStates
  <2>3. ASSUME NEW x \in LogStates, NEW z \in Int
        PROVE  /\ [x EXCEPT !.known = TRUE, !.zone = z].rules = x.rules
               /\ [x EXCEPT !.known = TRUE, !.zone = z].known = TRUE
               /\ [x EXCEPT !.known = TRUE, !.zone = z].zone = z
    BY DEF LogStates
  <2>4. doc[l].own \in Int BY <2>1 DEF LogStates
  <2> QED BY <2>1, <2>2, <2>3, <2>4, Zenon
<1>3. doc' \in [RLogs -> LogStates] /\ doc'[l] = d /\ \A m \in RLogs : m # l => doc'[m] = doc[m]
  <2>1. doc' = [doc EXCEPT ![l] = d] BY <1>1 DEF RuleInv, RuleTypes
  <2> QED BY <1>2, <2>1 DEF RuleInv, RuleTypes
<1> HIDE DEF d
<1>4. misled \subseteq misled' /\ misled' \subseteq RLogs /\ (hp.log \notin misled' => l # hp.log)
  BY <1>1, AtHand
<1>5. RuleTypes' BY <1>1, <1>3, <1>4, DiscoveredIs DEF RuleInv, RuleTypes
<1>6. \A m \in RLogs : doc'[m].rules = doc[m].rules /\ TellZone(doc'[m]) = TellZone(doc[m])
  BY <1>1, <1>2, <1>3 DEF TellZone
<1>7. hp.log \notin misled' => /\ hp.zone = doc'[hp.log].zone
                               /\ Terms(te', doc'[hp.log]) /\ Shown(te', hp.rules, hp.row)
  BY <1>1, <1>3, <1>4, AtHand, DiscoveredIs DEF Terms, Here
<1> QED BY <1>1, <1>4, <1>5, <1>6, <1>7, AtHand DEF RuleInv

LEMMA RuleStep == RuleInv /\ [RuleNext]_ruleVars => RuleInv'
<1> SUFFICES ASSUME RuleInv, [RuleNext]_ruleVars PROVE RuleInv' OBVIOUS
<1>1. CASE UNCHANGED ruleVars
  BY <1>1, AtHand, NothingChanges DEF ruleVars, RuleInv, RuleTypes
<1>2. CASE RuleNext
  BY <1>2, NewRuleKeeps, RemoveRuleKeeps, ClearKeeps, MoveRuleKeeps, SelectRuleKeeps, TickRowKeeps,
     EditOtherKeeps, TickTimeKeeps, TypeBoundKeeps, PresetKeeps, ApplyPresetKeeps, AskCopyKeeps,
     AdoptKeeps, DeclineKeeps, SwitchLogKeeps, DisplayKeeps, RunMovedKeeps, ReformatKeeps,
     RelaunchKeeps, ScannedKeeps, ResumeKeeps DEF RuleNext
<1> QED BY <1>1, <1>2

LEMMA RuleStarts == RuleInit => RuleInv
<1> SUFFICES ASSUME RuleInit PROVE RuleInv OBVIOUS
<1> DEFINE top == CHOOSE y \in RZones : \A x \in RZones : y >= x
           low == CHOOSE y \in RZones : \A x \in RZones : y <= x
<1>1. top \in Int /\ low \in Int BY RuleAssumption
<1>2. PICK l \in RLogs : \E k \in [RLogs -> BOOLEAN] :
         LET stored == <<[on |-> TRUE, at |-> Shift(Wide, top), look |-> CHOOSE any \in Looks : TRUE]>>
         IN /\ doc = [m \in RLogs |-> LogOf_(k[m], IF m = l THEN stored ELSE <<>>, Absent)]
            /\ meant = [m \in RLogs |-> Meanings(doc[m].rules, top)]
  BY DEF RuleInit
<1> DEFINE stored == <<[on |-> TRUE, at |-> Shift(Wide, top), look |-> CHOOSE any \in Looks : TRUE]>>
<1>3. PICK k \in [RLogs -> BOOLEAN] :
         /\ doc = [m \in RLogs |-> LogOf_(k[m], IF m = l THEN stored ELSE <<>>, Absent)]
         /\ meant = [m \in RLogs |-> Meanings(doc[m].rules, top)]
  BY <1>2
<1>4. stored \in Seq(RuleSet)
  <2>1. Wide \in Clocks /\ Wide \in [Sides -> Digits] BY WideIs DEF Clocks, Digits
  <2>2. Shift(Wide, top) \in Clocks /\ Shift(Wide, top) \in [Sides -> Digits]
    BY <1>1, <2>1, ShiftType
  <2>3. (CHOOSE any \in Looks : TRUE) \in Looks BY RuleAssumption
  <2>4. [on |-> TRUE, at |-> Shift(Wide, top), look |-> CHOOSE any \in Looks : TRUE] \in RuleSet
    BY <2>2, <2>3 DEF RuleSet
  <2> QED BY <2>4
<1> HIDE DEF stored
<1>5. ASSUME NEW known \in BOOLEAN, NEW rules \in Seq(RuleSet)
      PROVE  LET d == LogOf_(known, rules, Absent)
             IN d \in LogStates /\ d.rules = rules /\ TellZone(d) = top
  <2>1. LogOf_(known, rules, Absent) =
          [zone |-> IF known THEN top ELSE low, mode |-> "wall", base |-> 0, known |-> known,
           span |-> Absent, own |-> top, rules |-> rules]
    BY Zenon DEF LogOf_
  <2> HIDE DEF top, low
  <2> QED BY <1>1, <2>1 DEF LogStates, TellZone
<1>6. /\ doc \in [RLogs -> LogStates] /\ meant = [m \in RLogs |-> meant[m]]
      /\ \A m \in RLogs : meant[m] = Meanings(doc[m].rules, TellZone(doc[m]))
  <2>1. ASSUME NEW m \in RLogs PROVE doc[m] \in LogStates /\ TellZone(doc[m]) = top
    <3>1. (IF m = l THEN stored ELSE <<>>) \in Seq(RuleSet) /\ k[m] \in BOOLEAN BY <1>4
    <3> QED BY <1>3, <1>5, <3>1
  <2> HIDE DEF top
  <2> QED BY <1>3, <2>1
<1>7. PICK h \in RLogs :
        LET d == doc[h]
            blank == [clock |-> [s \in Sides |-> 0], secs |-> [s \in Sides |-> 0], on |-> FALSE,
                      mine |-> FALSE, can |-> d.known, zone |-> d.zone, mode |-> d.mode, base |-> 0]
            row == IF d.rules = <<>> THEN 0 ELSE 1
        IN /\ hp = [log |-> h, rules |-> d.rules, zone |-> d.zone, row |-> row]
           /\ te = LoadedFor(blank, d.rules, row)
  BY DEF RuleInit
<1> DEFINE d == doc[h]
           blank == [clock |-> [s \in Sides |-> 0], secs |-> [s \in Sides |-> 0], on |-> FALSE,
                     mine |-> FALSE, can |-> d.known, zone |-> d.zone, mode |-> d.mode, base |-> 0]
           row == IF d.rules = <<>> THEN 0 ELSE 1
<1>8. hp = [log |-> h, rules |-> d.rules, zone |-> d.zone, row |-> row]
      /\ te = LoadedFor(blank, d.rules, row)
  BY <1>7
<1>9. d \in LogStates /\ d.rules \in Seq(RuleSet) /\ d.zone \in Int /\ d.known \in BOOLEAN
      /\ d.mode \in {"wall", "run"} /\ row \in Nat
  BY <1>6 DEF LogStates
<1>10. d.base = 0
  <2>1. \A known, rules : LogOf_(known, rules, Absent).base = 0 BY DEF LogOf_
  <2> QED BY <1>3, <2>1
<1>11. blank \in Editors /\ Terms(blank, d)
  <2>1. [s \in Sides |-> 0] \in Clocks BY DEF Clocks
  <2> QED BY <1>9, <1>10, <2>1 DEF Editors, Terms
<1> HIDE DEF blank, row
<1>12. te \in Editors /\ Terms(te, d) /\ Shown(te, d.rules, row)
  BY <1>8, <1>9, <1>11, LoadedForIs DEF Terms
<1>13. asked = Absent /\ misled = {} /\ preset.rules = Absent BY DEF RuleInit
<1>14. hp.log = h /\ hp.rules = d.rules /\ hp.zone = d.zone /\ hp.row = row
       /\ hp \in [log : RLogs, rules : Seq(RuleSet), zone : Int, row : Nat]
  BY <1>8, <1>9
<1> QED BY <1>6, <1>12, <1>13, <1>14 DEF RuleInv, RuleTypes

\* refreshTimeBounds(), adoptRules(), setDocument(): for any zones, runs and rules, and any
\* order of edits, copies, presets and changes of log, every bound of every rule of a log
\* the known defects have not reached goes on naming the moment it was given, and the
\* editor shows that moment.
THEOREM BoundsStay == RuleSpec => []BoundsKeepTheirMoment
<1>1. RuleInv => BoundsKeepTheirMoment
  <2> SUFFICES ASSUME RuleInv PROVE BoundsKeepTheirMoment OBVIOUS
  <2>1. \A l \in RLogs \ misled : KeepsItsMoments(l)
    BY DEF RuleInv, KeepsItsMoments, TellZone
  <2>2. ASSUME hp.log \notin misled PROVE ShowsTheRule
    <3>1. hp.rules = Here.rules BY AtHand
    <3>2. ASSUME Selected, Here.known, hp.rules[hp.row].on, NEW s \in Sides
          PROVE  /\ te.on
                 /\ meant[hp.log][hp.row].at[s] = IF Here.mode = "run" THEN te.secs[s] + Here.base
                                                  ELSE te.clock[s] - Here.zone
      <4> DEFINE r == hp.rules[hp.row]
      <4>1. Terms(te, Here) /\ Shown(te, hp.rules, hp.row) /\ Told = Here.zone /\ Here.zone \in Int
        BY <2>2, <3>2, AtHand DEF Told, LogStates
      <4>2. r \in RuleSet /\ r.at \in Clocks /\ te.on /\ te.clock = r.at
            /\ (te.mode = "run" => te.secs[s] + te.base = te.clock[s] - te.zone)
        BY <3>2, <4>1, AtHand DEF Selected, Shown, RuleSet
      <4>3. meant[hp.log][hp.row] = Meaning(r, Here.zone)
        BY <2>2, <3>2, <4>1, AtHand, MeaningsType DEF Selected
      <4>4. Meaning(r, Here.zone).at = Shift(r.at, -Here.zone)
        BY <3>2, <4>2 DEF Meaning, Moment, RuleSet
      <4>5. Shift(r.at, -Here.zone)[s] = r.at[s] + (-Here.zone)
        BY <4>1, <4>2, ShiftType DEF RuleSet
      <4>6. r.at[s] \in Int BY <4>2 DEF Clocks
      <4> HIDE DEF r
      <4> QED BY <4>1, <4>2, <4>3, <4>4, <4>5, <4>6 DEF Terms
    <3>3. "from" \in Sides BY DEF Sides
    <3> QED BY <3>1, <3>2, <3>3 DEF ShowsTheRule
  <2> QED BY <2>1, <2>2 DEF BoundsKeepTheirMoment
<1> QED BY <1>1, RuleStarts, RuleStep, PTL DEF RuleSpec

-----------------------------------------------------------------------------
(* The one Filters pane and the logs it is bound to in turn                *)
Contexts == [stash : States, file : States, doc : States, shown : States, undo : Seq(States),
             redo : Seq(States), base : States, have : BOOLEAN, cont : BOOLEAN]
Panes == [log : FLogs \cup {NoLog}, state : States, pending : BOOLEAN, slow : BOOLEAN]
Worlds == [ctx : [FLogs -> Contexts], pane : Panes, disk : [FLogs -> States]]

\* What a log's context says is on disk is.
FilesAgree(w) == \A l \in FLogs : w.ctx[l].file = w.disk[l]

BenchTypes ==
  /\ ctx \in [FLogs -> Contexts] /\ pane \in Panes /\ disk \in [FLogs -> States]
  /\ wish \in [FLogs -> States] /\ \A l \in FLogs : ctx[l].file = disk[l]
  /\ tabs \subseteq {Editor} \cup (FLogs \X Nat)
  /\ turn \in {Quiet, "bind", "hydrate"}

\* The page in front, and the view the window takes for the active one.
Places ==
  /\ active \in (tabs \ {Editor}) \cup {NoView}
  /\ front \in tabs \cup {NoView} /\ (front = NoView => tabs = {})
  /\ front \notin {NoView, Editor} => active = front

\* Of a log that is not the active one.
KeptElsewhere ==
  \A l \in FLogs \ astray : l # ActiveLog =>
    disk[l] = wish[l] /\ (IsOpen(l) => ctx[l].stash = wish[l])

\* Between two gestures the pane is the active log's, or one of a log that is given up.
AtRest ==
  turn = Quiet =>
    /\ ActiveLog = NoLog => pane.log \in {NoLog} \cup astray
    /\ ActiveLog # NoLog => pane.log = ActiveLog
    /\ ActiveLog \in FLogs \ astray =>
         /\ pane.state = wish[ActiveLog]
         /\ ~pane.pending => {ctx[ActiveLog].doc, ctx[ActiveLog].shown, ctx[ActiveLog].base,
                              disk[ActiveLog]} = {wish[ActiveLog]}

\* Within one, what the pane is about to show is what the stash holds.
OnTheWay ==
  turn # Quiet =>
    /\ ActiveLog \in FLogs \ astray => ctx[ActiveLog].stash = wish[ActiveLog]
    /\ turn = "hydrate" => ActiveLog # NoLog /\ pane.log = ActiveLog

\* What every step keeps.  In the middle of a gesture the pane shows one log and is bound to
\* another, so what the property says of a log at rest is not enough: AtRest and OnTheWay
\* say where the state is that the pane owes.
BenchInv == BenchTypes /\ Places /\ KeptElsewhere /\ AtRest /\ OnTheWay

\* Two contexts with the same history.
SameLine(c, d) == c.undo = d.undo /\ c.redo = d.redo /\ c.base = d.base

-----------------------------------------------------------------------------
\* What a save of the settings of l leaves: its record, and nothing of any other log.
LEMMA PersistIs ==
  ASSUME NEW w \in Worlds, NEW l \in FLogs \cup {NoLog}, NEW on
  PROVE  LET p == Persist(w, l, on)
         IN /\ p \in Worlds /\ p.pane = w.pane
            /\ \A k \in FLogs : k # l => p.ctx[k] = w.ctx[k] /\ p.disk[k] = w.disk[k]
            /\ \A k \in FLogs : /\ p.ctx[k].stash = w.ctx[k].stash /\ p.ctx[k].doc = w.ctx[k].doc
                                /\ p.ctx[k].shown = w.ctx[k].shown /\ p.ctx[k].have = w.ctx[k].have
                                /\ SameLine(p.ctx[k], w.ctx[k])
            /\ l \in FLogs => p.ctx[l].file = IF l = on THEN w.pane.state ELSE w.ctx[l].stash
            /\ FilesAgree(w) => FilesAgree(p)
<1> DEFINE s == IF l = on THEN w.pane.state ELSE w.ctx[l].stash
           p == Persist(w, l, on)
<1>1. CASE l = NoLog \/ s = w.ctx[l].file
  <2>1. p = w BY <1>1 DEF Persist
  <2> HIDE DEF p
  <2>2. l \in FLogs => w.ctx[l].file = s BY <1>1, BenchAssumption
  <2> QED BY <2>1, <2>2 DEF SameLine, p
<1>2. CASE ~(l = NoLog \/ s = w.ctx[l].file)
  <2>1. p = [w EXCEPT !.ctx[l].file = s, !.disk[l] = s] BY <1>2 DEF Persist
  <2>2. l \in FLogs /\ s \in States BY <1>2 DEF Worlds, Contexts, Panes
  <2> HIDE DEF p, s
  <2>3. [w.ctx[l] EXCEPT !.file = s] \in Contexts BY <2>2 DEF Worlds, Contexts
  <2>4. p.ctx = [w.ctx EXCEPT ![l] = [w.ctx[l] EXCEPT !.file = s]]
        /\ p.disk = [w.disk EXCEPT ![l] = s] /\ p.pane = w.pane
    BY <2>1 DEF Worlds
  <2>5. p \in Worlds
    <3>1. p.ctx \in [FLogs -> Contexts] /\ p.disk \in [FLogs -> States]
      BY <2>2, <2>3, <2>4 DEF Worlds
    <3>2. p = [ctx |-> p.ctx, pane |-> w.pane, disk |-> p.disk] BY <2>1, <2>4 DEF Worlds
    <3> QED BY <3>1, <3>2 DEF Worlds
  <2>6. \A k \in FLogs : k # l => p.ctx[k] = w.ctx[k] /\ p.disk[k] = w.disk[k]
    BY <2>2, <2>4 DEF Worlds
  <2>7. p.ctx[l] = [w.ctx[l] EXCEPT !.file = s] /\ p.disk[l] = s /\ w.ctx[l] \in Contexts
    BY <2>2, <2>4 DEF Worlds
  <2>8. \A k \in FLogs : /\ p.ctx[k].stash = w.ctx[k].stash /\ p.ctx[k].doc = w.ctx[k].doc
                         /\ p.ctx[k].shown = w.ctx[k].shown /\ p.ctx[k].have = w.ctx[k].have
                         /\ SameLine(p.ctx[k], w.ctx[k])
    BY <2>6, <2>7 DEF Contexts, SameLine
  <2>9. p.ctx[l].file = s BY <2>7 DEF Contexts
  <2>10. FilesAgree(w) => FilesAgree(p) BY <2>6, <2>7, <2>9 DEF FilesAgree
  <2> QED BY <2>4, <2>5, <2>6, <2>8, <2>9, <2>10 DEF p, s
<1> QED BY <1>1, <1>2

\* The log the pane is bound to filters by what the pane shows.
LEMMA ApplyToDocumentIs ==
  ASSUME NEW w \in Worlds
  PROVE  LET a == ApplyToDocument(w)
         IN /\ a \in Worlds /\ a.pane = w.pane /\ a.disk = w.disk
            /\ \A k \in FLogs : k # w.pane.log => a.ctx[k] = w.ctx[k]
            /\ \A k \in FLogs : /\ a.ctx[k].stash = w.ctx[k].stash /\ a.ctx[k].file = w.ctx[k].file
                                /\ a.ctx[k].shown = w.ctx[k].shown /\ a.ctx[k].have = w.ctx[k].have
                                /\ SameLine(a.ctx[k], w.ctx[k])
            /\ w.pane.log \in FLogs => a.ctx[w.pane.log].doc = w.pane.state
<1> DEFINE l == w.pane.log
           a == ApplyToDocument(w)
<1>1. CASE l = NoLog BY <1>1, BenchAssumption DEF ApplyToDocument, SameLine
<1>2. CASE l # NoLog
  <2>1. a = [w EXCEPT !.ctx[l].doc = w.pane.state] BY <1>2 DEF ApplyToDocument
  <2>2. l \in FLogs /\ w.pane.state \in States BY <1>2 DEF Worlds, Panes
  <2> HIDE DEF a, l
  <2>3. [w.ctx[l] EXCEPT !.doc = w.pane.state] \in Contexts BY <2>2 DEF Worlds, Contexts
  <2>4. a = [w EXCEPT !.ctx = [w.ctx EXCEPT ![l] = [w.ctx[l] EXCEPT !.doc = w.pane.state]]]
    BY <2>1 DEF Worlds
  <2>5. a \in Worlds /\ a.pane = w.pane /\ a.disk = w.disk
        /\ a.ctx = [w.ctx EXCEPT ![l] = [w.ctx[l] EXCEPT !.doc = w.pane.state]]
    BY <2>2, <2>3, <2>4 DEF Worlds
  <2>6. a.ctx[l] = [w.ctx[l] EXCEPT !.doc = w.pane.state] /\ w.ctx[l] \in Contexts
        /\ \A k \in FLogs : k # l => a.ctx[k] = w.ctx[k]
    BY <2>2, <2>5 DEF Worlds
  <2>7. \A k \in FLogs : /\ a.ctx[k].stash = w.ctx[k].stash /\ a.ctx[k].file = w.ctx[k].file
                         /\ a.ctx[k].shown = w.ctx[k].shown /\ a.ctx[k].have = w.ctx[k].have
                         /\ SameLine(a.ctx[k], w.ctx[k])
    BY <2>6 DEF Contexts, SameLine
  <2>8. a.ctx[l].doc = w.pane.state BY <2>6 DEF Contexts
  <2> QED BY <2>5, <2>6, <2>7, <2>8 DEF a, l
<1> QED BY <1>1, <1>2

\* The rows of l are made with its filters.
LEMMA ApplyFiltersForIs ==
  ASSUME NEW w \in Worlds, NEW l \in FLogs \cup {NoLog}
  PROVE  LET a == ApplyFiltersFor(w, l)
         IN /\ a \in Worlds /\ a.pane = w.pane /\ a.disk = w.disk
            /\ \A k \in FLogs : k # l => a.ctx[k] = w.ctx[k]
            /\ \A k \in FLogs : /\ a.ctx[k].stash = w.ctx[k].stash /\ a.ctx[k].file = w.ctx[k].file
                                /\ a.ctx[k].doc = w.ctx[k].doc /\ a.ctx[k].have = w.ctx[k].have
                                /\ SameLine(a.ctx[k], w.ctx[k])
            /\ l \in FLogs => a.ctx[l].shown = w.ctx[l].doc
<1> DEFINE a == ApplyFiltersFor(w, l)
<1>1. CASE l = NoLog BY <1>1, BenchAssumption DEF ApplyFiltersFor, SameLine
<1>2. CASE l # NoLog
  <2>1. a = [w EXCEPT !.ctx[l].shown = w.ctx[l].doc] BY <1>2 DEF ApplyFiltersFor
  <2>2. l \in FLogs /\ w.ctx[l].doc \in States BY <1>2 DEF Worlds, Contexts
  <2> HIDE DEF a
  <2>3. [w.ctx[l] EXCEPT !.shown = w.ctx[l].doc] \in Contexts BY <2>2 DEF Worlds, Contexts
  <2>4. a = [w EXCEPT !.ctx = [w.ctx EXCEPT ![l] = [w.ctx[l] EXCEPT !.shown = w.ctx[l].doc]]]
    BY <2>1 DEF Worlds
  <2>5. a \in Worlds /\ a.pane = w.pane /\ a.disk = w.disk
        /\ a.ctx = [w.ctx EXCEPT ![l] = [w.ctx[l] EXCEPT !.shown = w.ctx[l].doc]]
    BY <2>2, <2>3, <2>4 DEF Worlds
  <2>6. a.ctx[l] = [w.ctx[l] EXCEPT !.shown = w.ctx[l].doc] /\ w.ctx[l] \in Contexts
        /\ \A k \in FLogs : k # l => a.ctx[k] = w.ctx[k]
    BY <2>2, <2>5 DEF Worlds
  <2>7. \A k \in FLogs : /\ a.ctx[k].stash = w.ctx[k].stash /\ a.ctx[k].file = w.ctx[k].file
                         /\ a.ctx[k].doc = w.ctx[k].doc /\ a.ctx[k].have = w.ctx[k].have
                         /\ SameLine(a.ctx[k], w.ctx[k])
    BY <2>6 DEF Contexts, SameLine
  <2>8. a.ctx[l].shown = w.ctx[l].doc BY <2>6 DEF Contexts
  <2> QED BY <2>5, <2>6, <2>7, <2>8 DEF a
<1> QED BY <1>1, <1>2

\* A history that is cut at its depth is a history.
LEMMA PushedType ==
  ASSUME NEW s \in Seq(States), NEW x \in States PROVE Pushed(s, x) \in Seq(States)
<1>1. Append(s, x) \in Seq(States) /\ Append(s, x) # <<>>
  <2>1. Append(s, x) \in Seq(States) /\ Len(Append(s, x)) = Len(s) + 1 /\ Len(s) \in Nat
    OBVIOUS
  <2> QED BY <2>1, EmptySeq
<1>2. Tail(Append(s, x)) \in Seq(States) BY <1>1
<1> QED BY <1>1, <1>2 DEF Pushed

\* What is recorded is the present of the history; what was it already adds nothing.
LEMMA RecordIs ==
  ASSUME NEW c \in Contexts, NEW s \in States, NEW continuous \in BOOLEAN
  PROVE  LET r == Record(c, s, continuous)
         IN /\ r \in Contexts /\ r.base = s
            /\ r.stash = c.stash /\ r.file = c.file /\ r.doc = c.doc /\ r.shown = c.shown
            /\ c.have => r.have
            /\ c.have /\ c.base = s => SameLine(r, c)
<1>1. CASE ~c.have BY <1>1 DEF Record, Contexts
<1>2. CASE c.have /\ s = c.base BY <1>2 DEF Record, Contexts, SameLine
<1>3. CASE c.have /\ s # c.base
  <2> DEFINE u == IF continuous /\ c.cont /\ c.undo # <<>> THEN c.undo ELSE Pushed(c.undo, c.base)
  <2>1. u \in Seq(States) /\ <<>> \in Seq(States) BY PushedType DEF Contexts
  <2>2. Record(c, s, continuous) = [c EXCEPT !.undo = u, !.redo = <<>>, !.base = s, !.cont = continuous]
    BY <1>3 DEF Record
  <2> HIDE DEF u
  <2> QED BY <1>3, <2>1, <2>2 DEF Contexts
<1> QED BY <1>1, <1>2, <1>3

\* What an apply of the pane of w leaves: the log of the pane filters by what it shows, and
\* the active log `on` says so too, in its rows, its record and its history.
Applied(a, w, on, rebind) ==
  /\ a \in Worlds /\ a.pane.log = w.pane.log /\ a.pane.state = w.pane.state /\ ~a.pane.pending
  /\ FilesAgree(w) => FilesAgree(a)
  /\ \A k \in FLogs : a.ctx[k].stash = w.ctx[k].stash /\ (w.ctx[k].have => a.ctx[k].have)
  /\ \A k \in FLogs : k # on => a.disk[k] = w.disk[k] /\ SameLine(a.ctx[k], w.ctx[k])
  /\ on \in FLogs =>
       /\ a.ctx[on].file = w.pane.state
       /\ w.pane.log = on => a.ctx[on].doc = w.pane.state /\ a.ctx[on].shown = w.pane.state
       /\ rebind => SameLine(a.ctx[on], w.ctx[on])
       /\ ~rebind => a.ctx[on].base = w.pane.state
       /\ w.ctx[on].have /\ w.ctx[on].base = w.pane.state => SameLine(a.ctx[on], w.ctx[on])

\* FilterPane::applyNow does just that.
LEMMA ApplyNowIs ==
  ASSUME NEW w \in Worlds, NEW on \in FLogs \cup {NoLog}, NEW rebind \in BOOLEAN,
         NEW continuous \in BOOLEAN, NEW slow \in BOOLEAN
  PROVE  Applied(ApplyNow(w, on, rebind, continuous, slow), w, on, rebind)
<1> DEFINE v == [w EXCEPT !.pane.pending = FALSE]
           d == ApplyToDocument(v)
           f == ApplyFiltersFor(d, on)
           p == Persist(f, on, on)
           r == IF on = NoLog \/ rebind THEN p
                ELSE [p EXCEPT !.ctx[on] = Record(p.ctx[on], p.pane.state, continuous)]
           a == ApplyNow(w, on, rebind, continuous, slow)
           s == w.pane.state
<1>1. a = [r EXCEPT !.pane.slow = slow] BY Zenon DEF ApplyNow
<1>2. /\ v \in Worlds /\ v.ctx = w.ctx /\ v.disk = w.disk
      /\ v.pane.log = w.pane.log /\ v.pane.state = s /\ ~v.pane.pending
  BY DEF Worlds, Panes
<1>3. w.pane.log \in FLogs \cup {NoLog} /\ s \in States BY DEF Worlds, Panes
<1> HIDE DEF v, s
<1>4. /\ d \in Worlds /\ d.pane = v.pane /\ d.disk = w.disk
      /\ \A k \in FLogs : /\ d.ctx[k].stash = w.ctx[k].stash /\ d.ctx[k].file = w.ctx[k].file
                          /\ d.ctx[k].have = w.ctx[k].have /\ SameLine(d.ctx[k], w.ctx[k])
      /\ w.pane.log \in FLogs => d.ctx[w.pane.log].doc = s
  BY <1>2, ApplyToDocumentIs
<1> HIDE DEF d
<1>5. /\ f \in Worlds /\ f.pane = v.pane /\ f.disk = w.disk
      /\ \A k \in FLogs : /\ f.ctx[k].stash = w.ctx[k].stash /\ f.ctx[k].file = w.ctx[k].file
                          /\ f.ctx[k].have = w.ctx[k].have /\ SameLine(f.ctx[k], w.ctx[k])
      /\ on \in FLogs /\ w.pane.log = on => f.ctx[on].doc = s /\ f.ctx[on].shown = s
  BY <1>4, ApplyFiltersForIs DEF SameLine
<1> HIDE DEF f
<1>6. /\ p \in Worlds /\ p.pane = v.pane
      /\ \A k \in FLogs : k # on => p.disk[k] = w.disk[k]
      /\ \A k \in FLogs : /\ p.ctx[k].stash = w.ctx[k].stash
                          /\ p.ctx[k].have = w.ctx[k].have /\ SameLine(p.ctx[k], w.ctx[k])
      /\ on \in FLogs => p.ctx[on].file = s
      /\ on \in FLogs /\ w.pane.log = on => p.ctx[on].doc = s /\ p.ctx[on].shown = s
      /\ FilesAgree(w) => FilesAgree(p)
  BY <1>2, <1>5, PersistIs DEF SameLine, FilesAgree
<1> HIDE DEF p
<1>7. /\ r \in Worlds /\ r.pane = v.pane /\ r.disk = p.disk
      /\ \A k \in FLogs : p.ctx[k].have => r.ctx[k].have
      /\ \A k \in FLogs : r.ctx[k].stash = p.ctx[k].stash /\ r.ctx[k].file = p.ctx[k].file
                          /\ r.ctx[k].doc = p.ctx[k].doc /\ r.ctx[k].shown = p.ctx[k].shown
      /\ \A k \in FLogs : k # on => SameLine(r.ctx[k], p.ctx[k])
      /\ on \in FLogs => /\ rebind => SameLine(r.ctx[on], p.ctx[on])
                         /\ ~rebind => r.ctx[on].base = s
                         /\ p.ctx[on].have /\ p.ctx[on].base = s => SameLine(r.ctx[on], p.ctx[on])
  <2>1. CASE on = NoLog \/ rebind
    <3>1. r = p BY <2>1
    <3>2. on \in FLogs => rebind BY <2>1, BenchAssumption
    <3> HIDE DEF r
    <3> QED BY <1>6, <3>1, <3>2 DEF SameLine
  <2>2. CASE ~(on = NoLog \/ rebind)
    <3> DEFINE c == Record(p.ctx[on], p.pane.state, continuous)
    <3>1. on \in FLogs /\ r = [p EXCEPT !.ctx[on] = c] /\ p.ctx[on] \in Contexts /\ p.pane.state = s
      BY <1>2, <1>6, <2>2 DEF Worlds
    <3>2. /\ c \in Contexts /\ c.base = s
          /\ c.stash = p.ctx[on].stash /\ c.file = p.ctx[on].file /\ c.doc = p.ctx[on].doc
          /\ c.shown = p.ctx[on].shown
          /\ p.ctx[on].have => c.have
          /\ p.ctx[on].have /\ p.ctx[on].base = s => SameLine(c, p.ctx[on])
      BY <1>3, <3>1, RecordIs
    <3> HIDE DEF c, r
    <3>3. r.ctx = [p.ctx EXCEPT ![on] = c] /\ r \in Worlds /\ r.pane = v.pane /\ r.disk = p.disk
      BY <1>6, <3>1, <3>2 DEF Worlds
    <3>4. r.ctx[on] = c /\ \A k \in FLogs : k # on => r.ctx[k] = p.ctx[k]
      BY <1>6, <3>1, <3>3 DEF Worlds
    <3> QED BY <2>2, <3>2, <3>3, <3>4 DEF SameLine
  <2> QED BY <2>1, <2>2
<1> HIDE DEF r
<1>8. /\ a \in Worlds /\ a.ctx = r.ctx /\ a.disk = r.disk
      /\ a.pane.log = w.pane.log /\ a.pane.state = s /\ ~a.pane.pending
  BY <1>1, <1>2, <1>7 DEF Worlds, Panes
<1>9. FilesAgree(w) => FilesAgree(a) BY <1>6, <1>7, <1>8 DEF FilesAgree
<1>10. \A k \in FLogs : a.ctx[k].stash = w.ctx[k].stash /\ (w.ctx[k].have => a.ctx[k].have)
  BY <1>6, <1>7, <1>8
<1>11. \A k \in FLogs : k # on => a.disk[k] = w.disk[k] /\ SameLine(a.ctx[k], w.ctx[k])
  BY <1>6, <1>7, <1>8 DEF SameLine
<1>12. on \in FLogs =>
         /\ a.ctx[on].file = s
         /\ w.pane.log = on => a.ctx[on].doc = s /\ a.ctx[on].shown = s
         /\ rebind => SameLine(a.ctx[on], w.ctx[on])
         /\ ~rebind => a.ctx[on].base = s
         /\ w.ctx[on].have /\ w.ctx[on].base = s => SameLine(a.ctx[on], w.ctx[on])
  BY <1>6, <1>7, <1>8 DEF SameLine
<1> HIDE DEF a
<1>13. Applied(a, w, on, rebind) BY <1>8, <1>9, <1>10, <1>11, <1>12 DEF Applied, s
<1> QED BY <1>13 DEF a

\* What a stash of the pane of w for the log l leaves.
Stashed(a, w, l) ==
  /\ a \in Worlds /\ a.pane = w.pane
  /\ FilesAgree(w) => FilesAgree(a)
  /\ \A k \in FLogs : k # l => a.ctx[k] = w.ctx[k] /\ a.disk[k] = w.disk[k]
  /\ \A k \in FLogs : /\ a.ctx[k].doc = w.ctx[k].doc /\ a.ctx[k].shown = w.ctx[k].shown
                      /\ a.ctx[k].have = w.ctx[k].have /\ SameLine(a.ctx[k], w.ctx[k])
  /\ l \in FLogs => a.ctx[l].stash = w.pane.state /\ a.ctx[l].file = w.pane.state

\* MainWindow::stashPaneState does just that.
LEMMA StashIs ==
  ASSUME NEW w \in Worlds, NEW l \in FLogs \cup {NoLog}, NEW on
  PROVE  Stashed(StashPaneState(w, l, on), w, l)
<1> DEFINE a == StashPaneState(w, l, on)
           v == [w EXCEPT !.ctx[l].stash = w.pane.state]
<1>1. CASE l = NoLog BY <1>1, BenchAssumption DEF StashPaneState, Stashed, SameLine
<1>2. CASE l # NoLog
  <2>1. a = Persist(v, l, on) /\ l \in FLogs /\ w.pane.state \in States
    BY <1>2 DEF StashPaneState, Worlds, Panes
  <2>2. [w.ctx[l] EXCEPT !.stash = w.pane.state] \in Contexts BY <2>1 DEF Worlds, Contexts
  <2>3. v \in Worlds /\ v.pane = w.pane /\ v.disk = w.disk
        /\ v.ctx = [w.ctx EXCEPT ![l] = [w.ctx[l] EXCEPT !.stash = w.pane.state]]
    BY <2>1, <2>2 DEF Worlds
  <2> HIDE DEF v
  <2>4. v.ctx[l] = [w.ctx[l] EXCEPT !.stash = w.pane.state] /\ w.ctx[l] \in Contexts
        /\ \A k \in FLogs : k # l => v.ctx[k] = w.ctx[k]
    BY <2>1, <2>3 DEF Worlds
  <2>5. \A k \in FLogs : /\ v.ctx[k].doc = w.ctx[k].doc /\ v.ctx[k].shown = w.ctx[k].shown
                         /\ v.ctx[k].have = w.ctx[k].have /\ SameLine(v.ctx[k], w.ctx[k])
                         /\ v.ctx[k].file = w.ctx[k].file
    BY <2>4 DEF Contexts, SameLine
  <2>6. v.ctx[l].stash = w.pane.state BY <2>4 DEF Contexts
  <2>7. FilesAgree(w) => FilesAgree(v) BY <2>3, <2>5 DEF FilesAgree
  <2> HIDE DEF a
  <2>8. /\ a \in Worlds /\ a.pane = v.pane
        /\ \A k \in FLogs : k # l => a.ctx[k] = v.ctx[k] /\ a.disk[k] = v.disk[k]
        /\ \A k \in FLogs : /\ a.ctx[k].stash = v.ctx[k].stash /\ a.ctx[k].doc = v.ctx[k].doc
                            /\ a.ctx[k].shown = v.ctx[k].shown /\ a.ctx[k].have = v.ctx[k].have
                            /\ SameLine(a.ctx[k], v.ctx[k])
        /\ a.ctx[l].file = IF l = on THEN v.pane.state ELSE v.ctx[l].stash
        /\ FilesAgree(v) => FilesAgree(a)
    <3>1. l \in FLogs \cup {NoLog} /\ v \in Worlds BY <2>3
    <3> DEFINE p == Persist(v, l, on)
    <3>2. /\ p \in Worlds /\ p.pane = v.pane
          /\ \A k \in FLogs : k # l => p.ctx[k] = v.ctx[k] /\ p.disk[k] = v.disk[k]
          /\ \A k \in FLogs : /\ p.ctx[k].stash = v.ctx[k].stash /\ p.ctx[k].doc = v.ctx[k].doc
                              /\ p.ctx[k].shown = v.ctx[k].shown /\ p.ctx[k].have = v.ctx[k].have
                              /\ SameLine(p.ctx[k], v.ctx[k])
          /\ l \in FLogs => p.ctx[l].file = IF l = on THEN v.pane.state ELSE v.ctx[l].stash
          /\ FilesAgree(v) => FilesAgree(p)
      BY <3>1, PersistIs, Zenon
    <3> HIDE DEF p
    <3>3. a = p BY <2>1 DEF p
    <3> QED BY <2>1, <3>2, <3>3
  <2>9. a.ctx[l].file = w.pane.state BY <2>3, <2>6, <2>8
  <2>10. Stashed(a, w, l)
    BY <2>1, <2>3, <2>4, <2>5, <2>6, <2>7, <2>8, <2>9 DEF SameLine, Stashed
  <2> QED BY <2>10 DEF a
<1> QED BY <1>1, <1>2

\* What it leaves to bind the pane of w to the log l, `on` being the active one.
Rebound(a, w, l, on, rebind) ==
  /\ a \in Worlds /\ a.pane.log = l /\ a.pane.state = w.pane.state /\ ~a.pane.pending
  /\ FilesAgree(w) => FilesAgree(a)
  /\ \A k \in FLogs : a.ctx[k].stash = w.ctx[k].stash /\ (w.ctx[k].have => a.ctx[k].have)
  /\ \A k \in FLogs : k # on => a.disk[k] = w.disk[k] /\ SameLine(a.ctx[k], w.ctx[k])
  /\ on \in FLogs =>
       /\ rebind => SameLine(a.ctx[on], w.ctx[on])
       /\ w.ctx[on].have /\ w.ctx[on].base = w.pane.state => SameLine(a.ctx[on], w.ctx[on])

\* FilterPane::setDocument does just that.
LEMMA SetDocumentIs ==
  ASSUME NEW w \in Worlds, NEW l \in FLogs \cup {NoLog}, NEW on \in FLogs \cup {NoLog},
         NEW rebind \in BOOLEAN
  PROVE  Rebound(SetDocument(w, l, on, rebind), w, l, on, rebind)
<1> DEFINE f == IF w.pane.pending THEN ApplyNow(w, on, rebind, FALSE, FALSE) ELSE w
           v == [f EXCEPT !.pane.log = l, !.pane.slow = FALSE]
           a == SetDocument(w, l, on, rebind)
           s == w.pane.state
<1>1. a = ApplyToDocument(v) BY Zenon DEF SetDocument
<1>2. /\ f \in Worlds
      /\ f.pane.state = s /\ ~f.pane.pending
      /\ FilesAgree(w) => FilesAgree(f)
      /\ \A k \in FLogs : f.ctx[k].stash = w.ctx[k].stash /\ (w.ctx[k].have => f.ctx[k].have)
      /\ \A k \in FLogs : k # on => f.disk[k] = w.disk[k] /\ SameLine(f.ctx[k], w.ctx[k])
      /\ on \in FLogs =>
           /\ rebind => SameLine(f.ctx[on], w.ctx[on])
           /\ w.ctx[on].have /\ w.ctx[on].base = s => SameLine(f.ctx[on], w.ctx[on])
  <2>1. CASE w.pane.pending
    <3>1. f = ApplyNow(w, on, rebind, FALSE, FALSE) BY <2>1
    <3> HIDE DEF f
    <3>2. Applied(f, w, on, rebind) BY <3>1, ApplyNowIs
    <3> QED BY <3>2 DEF Applied, s
  <2>2. CASE ~w.pane.pending
    <3>1. f = w BY <2>2
    <3> HIDE DEF f
    <3> QED BY <2>2, <3>1 DEF SameLine
  <2> QED BY <2>1, <2>2
<1> HIDE DEF f
<1>3. s \in States BY DEF Worlds, Panes
<1>4. /\ v \in Worlds /\ v.ctx = f.ctx /\ v.disk = f.disk
      /\ v.pane.log = l /\ v.pane.state = s /\ ~v.pane.pending
  BY <1>2 DEF Worlds, Panes
<1> HIDE DEF v, s, a
<1>5. /\ a \in Worlds /\ a.pane = v.pane /\ a.disk = f.disk
      /\ \A k \in FLogs : a.ctx[k].stash = f.ctx[k].stash /\ a.ctx[k].file = f.ctx[k].file
                          /\ a.ctx[k].have = f.ctx[k].have /\ SameLine(a.ctx[k], f.ctx[k])
  BY <1>1, <1>4, ApplyToDocumentIs DEF SameLine
<1>6. FilesAgree(w) => FilesAgree(a) BY <1>2, <1>5 DEF FilesAgree
<1>7. Rebound(a, w, l, on, rebind) BY <1>2, <1>4, <1>5, <1>6 DEF SameLine, Rebound, s
<1> QED BY <1>7 DEF a

-----------------------------------------------------------------------------
\* The history of a log moves only to take in what the reader asked of it.
HistoryStep ==
  \A l \in FLogs \ astray : IsOpen(l) /\ ctx[l].have /\ ctx[l].base = wish'[l] =>
    SameLine(ctx'[l], ctx[l])

\* The world as the invariant has it.
LEMMA WorldIs ==
  ASSUME BenchTypes
  PROVE  /\ World \in Worlds /\ FilesAgree(World)
         /\ World.ctx = ctx /\ World.pane = pane /\ World.disk = disk
  BY DEF BenchTypes, World, Worlds, FilesAgree

\* A page that is no editor is a view of a log, and so the active log is open.
LEMMA ViewsHaveLogs ==
  ASSUME BenchTypes, Places
  PROVE  /\ \A v \in tabs \ {Editor} : v \in FLogs \X Nat /\ LogOf(v) \in FLogs /\ LogOf(v) = v[1]
         /\ Editor \in tabs => LogOf(Editor) = NoLog
         /\ LogOf(NoView) = NoLog
         /\ ActiveLog \in FLogs \cup {NoLog}
         /\ ActiveLog \in FLogs <=> active # NoView
         /\ ActiveLog \in FLogs => IsOpen(ActiveLog)
         /\ ActiveLog = NoLog <=> active = NoView
<1>1. \A v \in tabs \ {Editor} : v \in FLogs \X Nat /\ v \notin {NoView, Editor}
  BY BenchAssumption DEF BenchTypes
<1>2. \A v \in tabs \ {Editor} : LogOf(v) = v[1] /\ v[1] \in FLogs BY <1>1 DEF LogOf
<1>3. LogOf(NoView) = NoLog /\ LogOf(Editor) = NoLog /\ NoLog \notin FLogs
  BY BenchAssumption DEF LogOf
<1>4. CASE active = NoView BY <1>1, <1>2, <1>3, <1>4 DEF ActiveLog
<1>5. CASE active # NoView
  <2>1. active \in tabs \ {Editor} /\ active # Editor BY <1>5 DEF Places
  <2>2. ActiveLog \in FLogs /\ ActiveLog = active[1] BY <1>2, <2>1 DEF ActiveLog
  <2>3. active \in Views(ActiveLog) BY <2>1, <2>2 DEF Views
  <2> QED BY <1>1, <1>2, <1>3, <1>5, <2>2, <2>3 DEF IsOpen
<1> QED BY <1>4, <1>5

\* The switch to another view, from a world w that keeps the pane and the records.
LEMMA SwitchKeeps ==
  ASSUME BenchInv, turn = Quiet, NEW w \in Worlds, NEW tab, SetActiveView(w, tab),
         w.pane = pane, w.disk = disk, FilesAgree(w), LogOf(tab) \in FLogs \cup {NoLog},
         wish' \in [FLogs -> States], astray' \subseteq astray,
         LogOf(tab) = NoLog => astray' = astray,
         ActiveLog \in FLogs => /\ w.ctx[ActiveLog] = ctx[ActiveLog]
                                /\ wish'[ActiveLog] = wish[ActiveLog]
                                /\ ActiveLog \notin astray' => ActiveLog \notin astray,
         \A l \in FLogs \ astray' : l # ActiveLog =>
           disk[l] = wish'[l] /\ ((IsOpen(l))' => w.ctx[l].stash = wish'[l]),
         LogOf(tab) \in FLogs => (IsOpen(LogOf(tab)))'
  PROVE  /\ ctx' \in [FLogs -> Contexts] /\ pane' \in Panes /\ disk' \in [FLogs -> States]
         /\ \A l \in FLogs : ctx'[l].file = disk'[l]
         /\ turn' \in {Quiet, "bind", "hydrate"}
         /\ KeptElsewhere' /\ AtRest' /\ OnTheWay'
         /\ \A l \in FLogs : SameLine(ctx'[l], w.ctx[l])
<1> USE DEF BenchInv, BenchTypes
<1>1. active' = tab /\ ActiveLog' = LogOf(tab) BY DEF SetActiveView, ActiveLog, LogOf
<1>2. ActiveLog \in FLogs \cup {NoLog} /\ NoLog \notin FLogs
  BY ViewsHaveLogs, BenchAssumption
<1>3. CASE LogOf(tab) = ActiveLog
  <2>1. ctx' = w.ctx /\ pane' = pane /\ disk' = disk /\ turn' = Quiet
    BY <1>3 DEF SetActiveView, Become
  <2>2. KeptElsewhere' BY <1>1, <1>3, <2>1 DEF KeptElsewhere
  <2>3. AtRest' BY <1>1, <1>2, <1>3, <2>1 DEF AtRest
  <2>4. OnTheWay' BY <2>1 DEF OnTheWay
  <2> QED BY <2>1, <2>2, <2>3, <2>4 DEF Worlds, FilesAgree, SameLine
<1>4. CASE LogOf(tab) # ActiveLog
  <2> DEFINE a == StashPaneState(w, ActiveLog, LogOf(tab))
  <2>1. ctx' = a.ctx /\ pane' = a.pane /\ disk' = a.disk /\ turn' = "bind"
    BY <1>4 DEF SetActiveView, Become
  <2>2. Stashed(a, w, ActiveLog) BY <1>2, StashIs
  <2> HIDE DEF a
  <2>3. /\ a \in Worlds /\ a.pane = pane /\ FilesAgree(a)
        /\ \A l \in FLogs : l # ActiveLog => a.ctx[l] = w.ctx[l] /\ a.disk[l] = disk[l]
        /\ \A l \in FLogs : SameLine(a.ctx[l], w.ctx[l])
        /\ ActiveLog \in FLogs => a.ctx[ActiveLog].stash = pane.state
                                  /\ a.ctx[ActiveLog].file = pane.state
    BY <2>2 DEF Stashed
  <2>4. ActiveLog \in FLogs => a.disk[ActiveLog] = pane.state BY <2>3 DEF FilesAgree
  <2>5. ActiveLog \in FLogs \ astray' => pane.state = wish'[ActiveLog] BY DEF AtRest
  <2>6. KeptElsewhere'
    <3> SUFFICES ASSUME NEW l \in FLogs \ astray', l # LogOf(tab)
                 PROVE  disk'[l] = wish'[l] /\ ((IsOpen(l))' => ctx'[l].stash = wish'[l])
      BY <1>1 DEF KeptElsewhere
    <3>1. CASE l = ActiveLog BY <2>1, <2>3, <2>4, <2>5, <3>1
    <3>2. CASE l # ActiveLog BY <2>1, <2>3, <3>2
    <3> QED BY <3>1, <3>2
  <2>7. AtRest' BY <2>1 DEF AtRest, Quiet
  <2>8. OnTheWay' BY <1>1, <1>4, <2>1, <2>3 DEF OnTheWay
  <2> QED BY <2>1, <2>3, <2>6, <2>7, <2>8 DEF Worlds, FilesAgree
<1> QED BY <1>3, <1>4

-----------------------------------------------------------------------------
\* The gestures that bring another page to the front.
LEMMA OpenKeeps ==
  ASSUME BenchInv, NEW l \in FLogs, Open(l)
  PROVE  BenchInv' /\ HistoryStep
<1> USE DEF BenchInv, BenchTypes
<1> DEFINE v == <<l, 1>>
           w == [World EXCEPT !.ctx[l] = Fresh(disk[l])]
<1>1. /\ turn = Quiet /\ ~IsOpen(l) /\ tabs' = tabs \cup {v} /\ front' = v
      /\ SetActiveView(w, v) /\ astray' = astray \ {l}
      /\ wish' = [wish EXCEPT ![l] = IF l \in astray THEN disk[l] ELSE @]
  BY DEF Open, Act
<1>2. v \in FLogs \X Nat /\ v \notin {NoView, Editor} /\ LogOf(v) = l /\ NoLog \notin FLogs
  BY BenchAssumption DEF LogOf
<1>3. l # ActiveLog BY <1>1, ViewsHaveLogs
<1>4. Fresh(disk[l]) \in Contexts /\ Fresh(disk[l]).stash = disk[l] /\ Fresh(disk[l]).file = disk[l]
  <2>1. disk[l] \in States /\ Unfiltered \in States /\ <<>> \in Seq(States)
    BY BenchAssumption
  <2> QED BY <2>1 DEF Fresh, Contexts
<1>5. w.ctx = [ctx EXCEPT ![l] = Fresh(disk[l])] /\ w.pane = pane /\ w.disk = disk
  BY DEF World
<1>6. w \in Worlds BY <1>4, <1>5 DEF World, Worlds
<1>7. FilesAgree(w) BY <1>4, <1>5 DEF FilesAgree
<1>8. \A k \in FLogs : (IsOpen(k))' /\ k # l => IsOpen(k) BY <1>1, <1>2 DEF IsOpen, Views
<1>9. (IsOpen(l))' BY <1>1, <1>2 DEF IsOpen, Views
<1>10. wish' \in [FLogs -> States] /\ \A k \in FLogs : k # l => wish'[k] = wish[k] BY <1>1
<1>11. l \notin astray => wish'[l] = wish[l] BY <1>1
<1>12. l \in astray => wish'[l] = disk[l] BY <1>1
<1>13. \A k \in FLogs \ astray' : k # ActiveLog =>
         disk[k] = wish'[k] /\ ((IsOpen(k))' => w.ctx[k].stash = wish'[k])
  <2> SUFFICES ASSUME NEW k \in FLogs \ astray', k # ActiveLog
               PROVE  disk[k] = wish'[k] /\ ((IsOpen(k))' => w.ctx[k].stash = wish'[k])
    OBVIOUS
  <2>1. CASE k = l BY <1>3, <1>4, <1>5, <1>11, <1>12, <2>1 DEF KeptElsewhere
  <2>2. CASE k # l
    <3>1. w.ctx[k] = ctx[k] /\ wish'[k] = wish[k] /\ k \notin astray
      BY <1>1, <1>5, <1>10, <2>2
    <3>2. disk[k] = wish[k] /\ (IsOpen(k) => ctx[k].stash = wish[k])
      BY <3>1 DEF KeptElsewhere
    <3>3. (IsOpen(k))' => IsOpen(k) BY <1>8, <2>2
    <3> HIDE DEF w
    <3> QED BY <3>1, <3>2, <3>3
  <2> QED BY <2>1, <2>2
<1>14. ActiveLog \in FLogs => /\ w.ctx[ActiveLog] = ctx[ActiveLog]
                              /\ wish'[ActiveLog] = wish[ActiveLog]
                              /\ ActiveLog \notin astray' => ActiveLog \notin astray
  BY <1>1, <1>3, <1>5, <1>10
<1> HIDE DEF w, v
<1>15. /\ ctx' \in [FLogs -> Contexts] /\ pane' \in Panes /\ disk' \in [FLogs -> States]
       /\ \A k \in FLogs : ctx'[k].file = disk'[k]
       /\ turn' \in {Quiet, "bind", "hydrate"}
       /\ KeptElsewhere' /\ AtRest' /\ OnTheWay'
       /\ \A k \in FLogs : SameLine(ctx'[k], w.ctx[k])
  BY <1>1, <1>2, <1>5, <1>6, <1>7, <1>9, <1>10, <1>13, <1>14, SwitchKeeps
<1>16. BenchTypes' BY <1>1, <1>2, <1>10, <1>15
<1>17. Places' BY <1>1, <1>2 DEF Places, SetActiveView
<1>18. HistoryStep BY <1>1, <1>5, <1>15 DEF HistoryStep
<1> QED BY <1>15, <1>16, <1>17, <1>18

\* A page comes to the front while the logs that are open stay, or become fewer.
LEMMA RaiseKeeps ==
  ASSUME BenchInv, turn = Quiet, NEW page \in tabs' \cup {NoView}, tabs' \subseteq tabs \cup {page},
         page = NoView => tabs' = {},
         page # Editor => SetActiveView(World, page),
         page = Editor => Become(World) /\ active' = active /\ turn' = turn,
         page = Editor => active \in tabs' \cup {NoView},
         page \in {Editor, NoView} \/ LogOf(page) \in FLogs,
         page \in {Editor, NoView} \/ page \in FLogs \X Nat,
         \A l \in FLogs : (IsOpen(l))' /\ l # ActiveLog => IsOpen(l),
         front' = page, wish' = wish, astray' = astray
  PROVE  BenchInv' /\ HistoryStep
<1> USE DEF BenchInv, BenchTypes
<1>1. CASE page = Editor
  <2>1. ctx' = ctx /\ pane' = pane /\ disk' = disk /\ turn' = turn /\ active' = active
    BY <1>1 DEF Become, World
  <2>2. ActiveLog' = ActiveLog BY <2>1 DEF ActiveLog, LogOf
  <2>3. BenchTypes' BY <1>1, <2>1
  <2>4. Places' BY <1>1, <2>1, BenchAssumption DEF Places
  <2>5. KeptElsewhere' /\ AtRest' /\ OnTheWay'
    BY <2>1, <2>2 DEF KeptElsewhere, AtRest, OnTheWay
  <2>6. HistoryStep BY <2>1 DEF HistoryStep, SameLine
  <2> QED BY <2>3, <2>4, <2>5, <2>6
<1>2. CASE page # Editor
  <2>1. SetActiveView(World, page) /\ active' = page BY <1>2 DEF SetActiveView
  <2>2. LogOf(page) \in FLogs \cup {NoLog} BY <1>2, ViewsHaveLogs
  <2>3. LogOf(page) \in FLogs => page # NoView BY BenchAssumption DEF LogOf
  <2>4. LogOf(page) \in FLogs => (IsOpen(LogOf(page)))'
    BY <1>2, <2>3 DEF IsOpen, Views, LogOf
  <2>5. /\ ctx' \in [FLogs -> Contexts] /\ pane' \in Panes /\ disk' \in [FLogs -> States]
        /\ \A l \in FLogs : ctx'[l].file = disk'[l]
        /\ turn' \in {Quiet, "bind", "hydrate"}
        /\ KeptElsewhere' /\ AtRest' /\ OnTheWay'
        /\ \A l \in FLogs : SameLine(ctx'[l], World.ctx[l])
    <3>1. \A l \in FLogs \ astray' : l # ActiveLog =>
            disk[l] = wish'[l] /\ ((IsOpen(l))' => World.ctx[l].stash = wish'[l])
      BY WorldIs DEF KeptElsewhere
    <3> QED BY <2>1, <2>2, <2>4, <3>1, WorldIs, SwitchKeeps
  <2>6. BenchTypes' BY <1>2, <2>5
  <2>7. Places' BY <1>2, <2>1 DEF Places
  <2>8. HistoryStep BY <2>5, WorldIs DEF HistoryStep
  <2> QED BY <2>5, <2>6, <2>7, <2>8
<1> QED BY <1>1, <1>2

\* A second view: the active log stays.
LEMMA NewViewKeeps ==
  ASSUME BenchInv, NEW i \in 2..ViewsPerLog, NewView(i)
  PROVE  BenchInv' /\ HistoryStep
<1> USE DEF BenchInv, BenchTypes
<1> DEFINE v == <<ActiveLog, i>>
<1>1. /\ turn = Quiet /\ ActiveLog # NoLog /\ tabs' = tabs \cup {v} /\ front' = v
      /\ SetActiveView(World, v) /\ wish' = wish /\ astray' = astray
  BY DEF NewView, Act
<1>2. ActiveLog \in FLogs /\ v \in FLogs \X Nat
  <2>1. ActiveLog \in FLogs BY <1>1, ViewsHaveLogs
  <2>2. ViewsPerLog \in Nat /\ i \in Nat BY BenchAssumption
  <2> QED BY <2>1, <2>2
<1>3. v \notin {NoView, Editor} /\ LogOf(v) = ActiveLog BY <1>2, BenchAssumption DEF LogOf
<1>4. \A l \in FLogs : (IsOpen(l))' /\ l # ActiveLog => IsOpen(l)
  BY <1>1, <1>2 DEF IsOpen, Views
<1> HIDE DEF v
<1>5. v \in tabs' \cup {NoView} /\ tabs' \subseteq tabs \cup {v} BY <1>1
<1> QED BY <1>1, <1>2, <1>3, <1>4, <1>5, RaiseKeeps

\* Another page is clicked.
LEMMA ClickKeeps ==
  ASSUME BenchInv, NEW page \in tabs, Click(page)
  PROVE  BenchInv' /\ HistoryStep
<1>1. /\ turn = Quiet /\ Raise(World, page) /\ tabs' = tabs /\ wish' = wish /\ astray' = astray
  BY DEF Click, Act
<1>2. /\ front' = page
      /\ page # Editor => SetActiveView(World, page)
      /\ page = Editor => Become(World) /\ active' = active /\ turn' = turn
  BY <1>1 DEF Raise
<1>3. page # Editor => page \in FLogs \X Nat /\ LogOf(page) \in FLogs
  BY ViewsHaveLogs, BenchAssumption DEF BenchInv, BenchTypes
<1>4. \A l \in FLogs : (IsOpen(l))' /\ l # ActiveLog => IsOpen(l)
  BY <1>1 DEF IsOpen, Views
<1>5. active \in tabs' \cup {NoView} BY <1>1 DEF BenchInv, Places
<1>6. page # NoView BY BenchAssumption DEF BenchInv, BenchTypes
<1>7. page \in tabs' \cup {NoView} /\ tabs' \subseteq tabs \cup {page} BY <1>1
<1>8. /\ page \in {Editor, NoView} \/ LogOf(page) \in FLogs
      /\ page \in {Editor, NoView} \/ page \in FLogs \X Nat
      /\ page = NoView => tabs' = {}
  BY <1>3, <1>6
<1> QED BY ONLY BenchInv, <1>1, <1>2, <1>4, <1>5, <1>7, <1>8, RaiseKeeps

\* An editor goes, and no log with it.
LEMMA CloseEditorKeeps ==
  ASSUME BenchInv, NEW next \in tabs \cup {NoView}, CloseEditor(next)
  PROVE  BenchInv' /\ HistoryStep
<1> USE DEF BenchInv, BenchTypes
<1>1. /\ turn = Quiet /\ Raise(World, next) /\ tabs' = tabs \ {Editor} /\ Editor \in tabs
      /\ wish' = wish /\ astray' = astray
      /\ next \in tabs' \cup {NoView} /\ (next = NoView => tabs' = {})
  <2>1. /\ turn = Quiet /\ tabs' = tabs \ {Editor} /\ Editor \in tabs
        /\ wish' = wish /\ astray' = astray
        /\ IF front = Editor
           THEN (IF tabs' = {} THEN next = NoView ELSE next \in tabs') /\ Raise(World, next)
           ELSE next = front /\ Raise(World, next)
    BY DEF CloseEditor, Act
  <2>2. NoView \notin tabs BY BenchAssumption
  <2>3. CASE front = Editor BY <2>1, <2>2, <2>3
  <2>4. CASE front # Editor BY <2>1, <2>2, <2>4 DEF Places
  <2> QED BY <2>1, <2>3, <2>4
<1>2. next # Editor BY <1>1, BenchAssumption
<1>3. front' = next /\ SetActiveView(World, next) BY <1>1, <1>2 DEF Raise
<1>4. next # NoView => next \in FLogs \X Nat /\ LogOf(next) \in FLogs
  BY <1>1, ViewsHaveLogs
<1>5. \A l \in FLogs : (IsOpen(l))' /\ l # ActiveLog => IsOpen(l)
  BY <1>1 DEF IsOpen, Views
<1> QED BY <1>1, <1>2, <1>3, <1>4, <1>5, RaiseKeeps

\* An editor comes, and the pane stays where it was.
LEMMA OpenEditorKeeps ==
  ASSUME BenchInv, OpenEditor
  PROVE  BenchInv' /\ HistoryStep
<1> USE DEF BenchInv, BenchTypes
<1>1. /\ tabs' = tabs \cup {Editor} /\ front' = Editor /\ active' = active /\ ctx' = ctx
      /\ pane' = pane /\ disk' = disk /\ turn' = turn /\ wish' = wish /\ astray' = astray
  BY DEF OpenEditor
<1>2. ActiveLog' = ActiveLog /\ \A l \in FLogs : (IsOpen(l))' => IsOpen(l)
  BY <1>1 DEF ActiveLog, LogOf, IsOpen, Views
<1>3. BenchTypes' BY <1>1
<1>4. Places' BY <1>1, BenchAssumption DEF Places
<1>5. KeptElsewhere' /\ AtRest' /\ OnTheWay'
  BY <1>1, <1>2 DEF KeptElsewhere, AtRest, OnTheWay
<1>6. HistoryStep BY <1>1 DEF HistoryStep, SameLine
<1> QED BY <1>3, <1>4, <1>5, <1>6

-----------------------------------------------------------------------------
\* The gestures that close pages.
LEMMA CloseViewKeeps ==
  ASSUME BenchInv, NEW next \in tabs \cup {NoView}, NEW v \in tabs, CloseView(v, next)
  PROVE  BenchInv' /\ HistoryStep
<1> USE DEF BenchInv, BenchTypes
<1> DEFINE l == LogOf(v)
<1>1. /\ turn = Quiet /\ v # Editor /\ tabs' = tabs \ {v} /\ wish' = wish
      /\ IF front # v THEN next = front ELSE IF tabs' = {} THEN next = NoView ELSE next \in tabs'
  BY DEF CloseView, Act
<1>2. next \in tabs' \cup {NoView} /\ (next = NoView => tabs' = {})
  <2>1. CASE front # v BY <1>1, <2>1 DEF Places
  <2>2. CASE front = v
    <3>1. NoView \notin tabs BY BenchAssumption
    <3> QED BY <1>1, <2>2, <3>1
  <2> QED BY <2>1, <2>2
<1>3. \A k \in FLogs : (IsOpen(k))' => IsOpen(k) BY <1>1 DEF IsOpen, Views
<1>4. CASE next = Editor /\ active = v
  <2>1. /\ active' = NoView /\ front' = next /\ turn' = Quiet
        /\ Become(OnViewDestroyed(World, l))
        /\ astray' = IF pane'.log = NoLog /\ ~pane.pending THEN astray ELSE astray \cup {l}
    BY <1>4 DEF CloseView
  <2>2. l \in FLogs /\ ActiveLog = l /\ ActiveLog' = NoLog /\ NoLog \notin FLogs /\ pane.log = l
    <3>1. l \in FLogs /\ ActiveLog = l /\ NoLog \notin FLogs
      BY <1>1, <1>4, ViewsHaveLogs, BenchAssumption DEF ActiveLog
    <3>2. ActiveLog' = NoLog BY <2>1, ViewsHaveLogs DEF ActiveLog, LogOf
    <3> QED BY <1>1, <3>1, <3>2 DEF AtRest
  <2> HIDE DEF l
  <2>3. /\ ctx' = ctx /\ disk' = disk /\ pane' \in Panes
        /\ pane'.log \in {l, NoLog}
        /\ pane'.log = NoLog => ~\E u \in tabs' : LogOf(u) = l
    <3>1. CASE \E u \in tabs' : LogOf(u) = l
      <4>1. OnViewDestroyed(World, l) = World BY <3>1 DEF OnViewDestroyed
      <4>2. ctx' = ctx /\ disk' = disk /\ pane' = pane BY <2>1, <4>1, WorldIs DEF Become
      <4> QED BY <2>2, <4>2
    <3>2. CASE ~\E u \in tabs' : LogOf(u) = l
      <4>1. OnViewDestroyed(World, l) = [World EXCEPT !.pane.log = NoLog, !.pane.pending = FALSE]
        BY <2>2, <3>2, WorldIs DEF OnViewDestroyed, DocumentClosing
      <4>2. ctx' = ctx /\ disk' = disk
            /\ pane' = [pane EXCEPT !.log = NoLog, !.pending = FALSE]
        BY <2>1, <4>1 DEF Become, World
      <4> QED BY <3>2, <4>2 DEF Panes
    <3> QED BY <3>1, <3>2
  <2>4. BenchTypes' BY <1>1, <2>1, <2>3
  <2>5. Places' BY <1>1, <1>2, <1>4, <2>1 DEF Places
  <2>6. KeptElsewhere'
    <3> SUFFICES ASSUME NEW k \in FLogs \ astray'
                 PROVE  disk'[k] = wish'[k] /\ ((IsOpen(k))' => ctx'[k].stash = wish'[k])
      BY DEF KeptElsewhere
    <3>1. k \notin astray BY <2>1
    <3>2. CASE k = l
      <4>1. pane'.log = NoLog /\ ~pane.pending BY <2>1, <3>2
      <4>2. disk[l] = wish[l] BY <1>1, <2>2, <3>1, <3>2, <4>1 DEF AtRest
      <4>3. ~(IsOpen(l))'
        <5>1. \A u \in tabs' : LogOf(u) # l BY <2>3, <4>1
        <5>2. \A u \in tabs' \ {Editor} : LogOf(u) = u[1] BY <1>1, ViewsHaveLogs
        <5> QED BY <5>1, <5>2 DEF IsOpen, Views
      <4> QED BY <1>1, <2>3, <3>2, <4>2, <4>3
    <3>3. CASE k # l BY <1>1, <1>3, <2>2, <2>3, <3>1, <3>3 DEF KeptElsewhere
    <3> QED BY <3>2, <3>3
  <2>7. AtRest'
    <3>1. pane'.log \in {NoLog} \cup astray' BY <2>1, <2>2, <2>3
    <3> QED BY <2>2, <3>1 DEF AtRest
  <2>8. OnTheWay' BY <2>1 DEF OnTheWay
  <2>9. HistoryStep BY <2>3 DEF HistoryStep, SameLine
  <2> QED BY <2>4, <2>5, <2>6, <2>7, <2>8, <2>9
<1>5. CASE ~(next = Editor /\ active = v)
  <2>1. /\ front' = next /\ astray' = astray
        /\ IF next = Editor THEN Become(World) /\ active' = active /\ turn' = turn
           ELSE SetActiveView(World, next)
    BY <1>5 DEF CloseView
  <2>2. next = Editor => active \in tabs' \cup {NoView} BY <1>1, <1>5 DEF Places
  <2>3. /\ next \in {Editor, NoView} \/ LogOf(next) \in FLogs
        /\ next \in {Editor, NoView} \/ next \in FLogs \X Nat
    BY <1>1, <1>2, ViewsHaveLogs
  <2>4. tabs' \subseteq tabs \cup {next} BY <1>1
  <2> QED BY <1>1, <1>2, <1>3, <2>1, <2>2, <2>3, <2>4, RaiseKeeps
<1> QED BY <1>4, <1>5

\* What is so when nothing is open and the pane is bound to nothing.
LEMMA NothingOpen ==
  ASSUME tabs' = {}, front' = NoView, active' = NoView, turn' = Quiet, pane'.log = NoLog,
         \A l \in FLogs \ astray' : disk'[l] = wish'[l]
  PROVE  Places' /\ KeptElsewhere' /\ AtRest' /\ OnTheWay'
<1>1. ActiveLog' = NoLog /\ NoLog \notin FLogs BY BenchAssumption DEF ActiveLog, LogOf
<1>2. \A l \in FLogs : ~(IsOpen(l))' BY DEF IsOpen, Views
<1>3. Places' BY DEF Places
<1>4. KeptElsewhere' BY <1>2 DEF KeptElsewhere
<1>5. AtRest' BY <1>1 DEF AtRest
<1>6. OnTheWay' BY DEF OnTheWay
<1> QED BY <1>3, <1>4, <1>5, <1>6

\* At rest, and no edit waiting, the record of every log says what was asked of it.
LEMMA RecordsAtRest ==
  ASSUME BenchInv, turn = Quiet, NEW l \in FLogs \ astray, pane.pending => pane.log # l
  PROVE  disk[l] = wish[l]
<1>1. CASE l = ActiveLog
  <2>1. ActiveLog # NoLog BY <1>1, BenchAssumption
  <2> QED BY <1>1, <2>1 DEF BenchInv, AtRest
<1>2. CASE l # ActiveLog BY <1>2 DEF BenchInv, KeptElsewhere
<1> QED BY <1>1, <1>2

\* Every page goes, and an edit that waited is dropped.
LEMMA CloseAllKeeps ==
  ASSUME BenchInv, CloseAll
  PROVE  BenchInv' /\ HistoryStep
<1> USE DEF BenchInv, BenchTypes
<1>1. /\ turn = Quiet /\ tabs' = {} /\ front' = NoView /\ active' = NoView /\ turn' = Quiet
      /\ ctx' = ctx /\ disk' = disk /\ wish' = wish
      /\ pane' = [pane EXCEPT !.log = NoLog, !.pending = FALSE, !.slow = FALSE]
      /\ astray' = IF pane.pending THEN astray \cup {pane.log} ELSE astray
  BY DEF CloseAll, Act, Become, World
<1>2. pane' \in Panes /\ pane'.log = NoLog BY <1>1 DEF Panes
<1>3. \A l \in FLogs \ astray' : disk'[l] = wish'[l] BY <1>1, RecordsAtRest
<1>4. HistoryStep BY <1>1 DEF HistoryStep, SameLine
<1>5. BenchTypes' BY <1>1, <1>2
<1> QED BY <1>1, <1>2, <1>3, <1>4, <1>5, NothingOpen

\* The process dies at any point of a gesture.
LEMMA CrashKeeps ==
  ASSUME BenchInv, Crash
  PROVE  BenchInv' /\ HistoryStep
<1> USE DEF BenchInv, BenchTypes
<1>1. /\ tabs' = {} /\ front' = NoView /\ active' = NoView /\ turn' = Quiet
      /\ ctx' = ctx /\ disk' = disk /\ wish' = wish
      /\ pane' = [log |-> NoLog, state |-> Unfiltered, pending |-> FALSE, slow |-> FALSE]
      /\ astray' = (IF pane.pending THEN {pane.log} ELSE {})
                     \cup (IF turn = Quiet THEN astray ELSE astray \cup {ActiveLog})
  BY DEF Crash
<1>2. pane' \in Panes /\ pane'.log = NoLog BY <1>1, BenchAssumption DEF Panes
<1>3. \A l \in FLogs \ astray' : disk'[l] = wish'[l]
  <2>1. CASE turn = Quiet BY <1>1, <2>1, RecordsAtRest
  <2>2. CASE turn # Quiet BY <1>1, <2>2 DEF KeptElsewhere
  <2> QED BY <2>1, <2>2
<1>4. HistoryStep BY <1>1 DEF HistoryStep, SameLine
<1>5. BenchTypes' BY <1>1, <1>2
<1> QED BY <1>1, <1>2, <1>3, <1>4, <1>5, NothingOpen

\* A quit stashes the pane and saves what every open log has.
LEMMA QuitKeeps ==
  ASSUME BenchInv, Quit
  PROVE  BenchInv' /\ HistoryStep
<1> USE DEF BenchInv, BenchTypes
<1> DEFINE w == StashPaneState(World, ActiveLog, ActiveLog)
           open == {l \in FLogs : IsOpen(l)}
<1>1. /\ turn = Quiet /\ tabs' = {} /\ front' = NoView /\ active' = NoView /\ turn' = Quiet
      /\ wish' = wish /\ astray' = astray
      /\ Become([Persisted(w, open) EXCEPT
                     !.pane = [log |-> NoLog, state |-> Unfiltered, pending |-> FALSE, slow |-> FALSE]])
  BY Zenon DEF Quit, Act
<1>2. ActiveLog \in FLogs \cup {NoLog} /\ (ActiveLog \in FLogs => IsOpen(ActiveLog))
  BY ViewsHaveLogs
<1>3. Stashed(w, World, ActiveLog) BY <1>2, WorldIs, StashIs
<1> HIDE DEF w
<1>4. /\ w \in Worlds /\ FilesAgree(w)
      /\ \A l \in FLogs : l # ActiveLog => w.ctx[l] = ctx[l] /\ w.disk[l] = disk[l]
      /\ \A l \in FLogs : SameLine(w.ctx[l], ctx[l])
      /\ ActiveLog \in FLogs => w.ctx[ActiveLog].stash = pane.state
  BY <1>3, WorldIs DEF Stashed
<1>5. /\ ctx' = [l \in FLogs |-> IF l \in open THEN [w.ctx[l] EXCEPT !.file = w.ctx[l].stash]
                                 ELSE w.ctx[l]]
      /\ disk' = [l \in FLogs |-> IF l \in open THEN w.ctx[l].stash ELSE w.disk[l]]
      /\ pane' = [log |-> NoLog, state |-> Unfiltered, pending |-> FALSE, slow |-> FALSE]
  BY <1>1, <1>4 DEF Become, Persisted, Worlds
<1> HIDE DEF open
<1>6. pane' \in Panes /\ pane'.log = NoLog BY <1>5, BenchAssumption DEF Panes
<1>7. \A l \in FLogs : /\ ctx'[l] \in Contexts /\ disk'[l] \in States /\ ctx'[l].file = disk'[l]
                       /\ SameLine(ctx'[l], ctx[l])
                       /\ disk'[l] = IF l \in open THEN w.ctx[l].stash ELSE w.disk[l]
  <2> SUFFICES ASSUME NEW l \in FLogs
               PROVE  /\ ctx'[l] \in Contexts /\ disk'[l] \in States /\ ctx'[l].file = disk'[l]
                      /\ SameLine(ctx'[l], ctx[l])
                      /\ disk'[l] = IF l \in open THEN w.ctx[l].stash ELSE w.disk[l]
    OBVIOUS
  <2> DEFINE c == w.ctx[l]
  <2>1. c \in Contexts /\ w.disk[l] \in States /\ c.file = w.disk[l] /\ SameLine(c, ctx[l])
    BY <1>4 DEF Worlds, FilesAgree
  <2>2. disk'[l] = IF l \in open THEN c.stash ELSE w.disk[l] BY <1>5
  <2>3. ctx'[l] = IF l \in open THEN [c EXCEPT !.file = c.stash] ELSE c BY <1>5
  <2> HIDE DEF c
  <2>4. CASE l \in open BY <2>1, <2>2, <2>3, <2>4 DEF Contexts, SameLine, c
  <2>5. CASE l \notin open BY <2>1, <2>2, <2>3, <2>5 DEF c
  <2> QED BY <2>4, <2>5
<1>8. ctx' \in [FLogs -> Contexts] /\ disk' \in [FLogs -> States] BY <1>5, <1>7
<1>9. \A l \in FLogs \ astray' : disk'[l] = wish'[l]
  <2> SUFFICES ASSUME NEW l \in FLogs \ astray
               PROVE  disk'[l] = wish[l]
    BY <1>1
  <2>1. CASE l = ActiveLog
    BY <1>1, <1>2, <1>4, <1>7, <2>1, BenchAssumption DEF AtRest, open
  <2>2. CASE l # ActiveLog
    <3>1. disk[l] = wish[l] /\ (IsOpen(l) => ctx[l].stash = wish[l])
      BY <2>2 DEF KeptElsewhere
    <3> QED BY <1>4, <1>7, <2>2, <3>1 DEF open
  <2> QED BY <2>1, <2>2
<1>10. BenchTypes' BY <1>1, <1>6, <1>7, <1>8
<1>11. HistoryStep BY <1>7 DEF HistoryStep
<1> QED BY <1>1, <1>6, <1>9, <1>10, <1>11, NothingOpen

-----------------------------------------------------------------------------
\* The steps that leave the tabs as they are, and every log but the active one.
LEMMA StayKeeps ==
  ASSUME BenchInv, NEW a \in Worlds, FilesAgree(a), Become(a),
         tabs' = tabs, front' = front, active' = active, astray' = astray,
         wish' \in [FLogs -> States], turn' \in {Quiet, "bind", "hydrate"},
         \A k \in FLogs \ astray : k # ActiveLog =>
           a.ctx[k].stash = ctx[k].stash /\ a.disk[k] = disk[k] /\ wish'[k] = wish[k]
  PROVE  /\ BenchTypes' /\ Places' /\ KeptElsewhere'
         /\ ActiveLog' = ActiveLog /\ ctx' = a.ctx /\ pane' = a.pane /\ disk' = a.disk
<1> USE DEF BenchInv, BenchTypes
<1>1. ctx' = a.ctx /\ pane' = a.pane /\ disk' = a.disk BY DEF Become
<1>2. ActiveLog' = ActiveLog /\ \A l \in FLogs : (IsOpen(l))' <=> IsOpen(l)
  BY DEF ActiveLog, LogOf, IsOpen, Views
<1>3. BenchTypes' BY <1>1 DEF Worlds, FilesAgree
<1>4. Places' BY DEF Places
<1>5. KeptElsewhere' BY <1>1, <1>2 DEF KeptElsewhere
<1> QED BY <1>1, <1>2, <1>3, <1>4, <1>5

\* The pane is bound to the incoming log: its state is still the outgoing one's.
LEMMA BindKeeps ==
  ASSUME BenchInv, Bind
  PROVE  BenchInv' /\ HistoryStep
<1> DEFINE a == SetDocument(World, ActiveLog, ActiveLog, TRUE)
<1>1. /\ turn = "bind" /\ Become(a) /\ tabs' = tabs /\ front' = front /\ active' = active
      /\ wish' = wish /\ astray' = astray
      /\ turn' = IF ActiveLog = NoLog THEN Quiet ELSE "hydrate"
  BY Zenon DEF Bind
<1>2. ActiveLog \in FLogs \cup {NoLog} /\ NoLog \notin FLogs
  BY ViewsHaveLogs, BenchAssumption DEF BenchInv
<1>3. Rebound(a, World, ActiveLog, ActiveLog, TRUE)
  BY <1>2, WorldIs, SetDocumentIs DEF BenchInv
<1> HIDE DEF a
<1>4. /\ a \in Worlds /\ FilesAgree(a) /\ a.pane.log = ActiveLog
      /\ \A k \in FLogs : a.ctx[k].stash = ctx[k].stash /\ SameLine(a.ctx[k], ctx[k])
      /\ \A k \in FLogs : k # ActiveLog => a.disk[k] = disk[k]
  BY <1>3, WorldIs DEF Rebound, BenchInv
<1>5. wish' \in [FLogs -> States] /\ turn' \in {Quiet, "bind", "hydrate"}
  BY <1>1 DEF BenchInv, BenchTypes
<1>6. /\ BenchTypes' /\ Places' /\ KeptElsewhere'
      /\ ActiveLog' = ActiveLog /\ ctx' = a.ctx /\ pane' = a.pane /\ disk' = a.disk
  BY <1>1, <1>4, <1>5, StayKeeps
<1>7. AtRest' BY <1>1, <1>2, <1>4, <1>6 DEF AtRest, Quiet
<1>8. OnTheWay' BY <1>1, <1>4, <1>6 DEF OnTheWay, BenchInv, Quiet
<1>9. HistoryStep BY <1>4, <1>6 DEF HistoryStep
<1> QED BY <1>6, <1>7, <1>8, <1>9 DEF BenchInv

\* The world w with another state in the pane.
LEMMA ShownIs ==
  ASSUME NEW w \in Worlds, NEW s \in States
  PROVE  LET v == [w EXCEPT !.pane.state = s]
         IN /\ v \in Worlds /\ v.ctx = w.ctx /\ v.disk = w.disk /\ (FilesAgree(w) => FilesAgree(v))
            /\ v.pane.state = s /\ v.pane.log = w.pane.log /\ v.pane.pending = w.pane.pending
  BY DEF Worlds, Panes, FilesAgree

\* The world w with another context for the log l.
LEMMA ContextIs ==
  ASSUME NEW w \in Worlds, NEW l \in FLogs, NEW c \in Contexts
  PROVE  LET v == [w EXCEPT !.ctx[l] = c]
         IN /\ v \in Worlds /\ v.pane = w.pane /\ v.disk = w.disk /\ v.ctx[l] = c
            /\ \A k \in FLogs : k # l => v.ctx[k] = w.ctx[k]
            /\ FilesAgree(w) /\ c.file = w.ctx[l].file => FilesAgree(v)
<1> DEFINE v == [w EXCEPT !.ctx[l] = c]
<1>1. v.ctx = [w.ctx EXCEPT ![l] = c] /\ v.pane = w.pane /\ v.disk = w.disk BY DEF Worlds
<1>2. v \in Worlds BY <1>1 DEF Worlds
<1>3. v.ctx[l] = c /\ \A k \in FLogs : k # l => v.ctx[k] = w.ctx[k] BY <1>1 DEF Worlds
<1> HIDE DEF v
<1>4. FilesAgree(w) /\ c.file = w.ctx[l].file => FilesAgree(v)
  BY <1>1, <1>3 DEF FilesAgree
<1> QED BY <1>1, <1>2, <1>3, <1>4 DEF v

\* What is settled is the present, and the line around it stays.
LEMMA SettleIs ==
  ASSUME NEW c \in Contexts, NEW s \in States
  PROVE  LET d == Settle(c, s)
         IN /\ d \in Contexts /\ d.base = s /\ d.undo = c.undo /\ d.redo = c.redo
            /\ d.stash = c.stash /\ d.file = c.file /\ d.doc = c.doc /\ d.shown = c.shown
  BY DEF Settle, Contexts

\* The incoming log's stash is put back, and now all of it says one thing.
LEMMA HydrateKeeps ==
  ASSUME BenchInv, Hydrate
  PROVE  BenchInv' /\ HistoryStep
<1> DEFINE l == ActiveLog
           s == ctx[l].stash
           v == [World EXCEPT !.pane.state = s]
           w == ApplyNow(v, l, TRUE, FALSE, FALSE)
           a == [w EXCEPT !.ctx[l] = Settle(w.ctx[l], w.pane.state)]
<1>1. /\ turn = "hydrate" /\ Become(a) /\ tabs' = tabs /\ front' = front /\ active' = active
      /\ wish' = wish /\ astray' = astray /\ turn' = Quiet
  BY Zenon DEF Hydrate, RestoreState
<1>2. l \in FLogs /\ NoLog \notin FLogs /\ pane.log = l
  BY <1>1, ViewsHaveLogs, BenchAssumption DEF BenchInv, OnTheWay, Quiet
<1>3. s \in States /\ (l \notin astray => s = wish[l])
  BY <1>1, <1>2 DEF BenchInv, BenchTypes, Contexts, OnTheWay, Quiet
<1>4. /\ v \in Worlds /\ FilesAgree(v) /\ v.ctx = ctx /\ v.disk = disk /\ v.pane.state = s
      /\ v.pane.log = l
  BY <1>2, <1>3, WorldIs, ShownIs DEF BenchInv
<1> HIDE DEF v, s, l
<1>5. Applied(w, v, l, TRUE) BY <1>2, <1>4, ApplyNowIs
<1> HIDE DEF w
<1>6. /\ w \in Worlds /\ FilesAgree(w) /\ w.pane.state = s /\ w.pane.log = l /\ w.ctx[l] \in Contexts
      /\ \A k \in FLogs : w.ctx[k].stash = ctx[k].stash /\ SameLine(w.ctx[k], ctx[k])
      /\ \A k \in FLogs : k # l => w.disk[k] = disk[k]
      /\ w.ctx[l].doc = s /\ w.ctx[l].shown = s /\ w.ctx[l].file = s
  BY <1>2, <1>4, <1>5 DEF Applied, Worlds
<1> DEFINE c == Settle(w.ctx[l], w.pane.state)
<1>7. /\ c \in Contexts /\ c.base = s /\ c.undo = w.ctx[l].undo /\ c.redo = w.ctx[l].redo
      /\ c.stash = w.ctx[l].stash /\ c.file = w.ctx[l].file /\ c.doc = s /\ c.shown = s
  BY <1>3, <1>6, SettleIs
<1> HIDE DEF c
<1>8. /\ a \in Worlds /\ a.pane = w.pane /\ a.disk = w.disk /\ a.ctx[l] = c
      /\ \A k \in FLogs : k # l => a.ctx[k] = w.ctx[k]
      /\ FilesAgree(a)
  BY <1>2, <1>6, <1>7, ContextIs DEF c
<1> HIDE DEF a
<1>9. wish' \in [FLogs -> States] /\ turn' \in {Quiet, "bind", "hydrate"}
  BY <1>1 DEF BenchInv, BenchTypes
<1>10. /\ BenchTypes' /\ Places' /\ KeptElsewhere'
       /\ ActiveLog' = l /\ ctx' = a.ctx /\ pane' = a.pane /\ disk' = a.disk
  <2>1. \A k \in FLogs \ astray : k # ActiveLog =>
           a.ctx[k].stash = ctx[k].stash /\ a.disk[k] = disk[k] /\ wish'[k] = wish[k]
    BY <1>1, <1>6, <1>8 DEF l
  <2> QED BY <1>1, <1>8, <1>9, <2>1, StayKeeps DEF l
<1>11. disk'[l] = s BY <1>2, <1>6, <1>7, <1>8, <1>10 DEF FilesAgree
<1>12. AtRest'
  <2>1. pane'.log = l /\ pane'.state = s /\ ctx'[l].doc = s /\ ctx'[l].shown = s /\ ctx'[l].base = s
    BY <1>6, <1>7, <1>8, <1>10
  <2>2. l \in FLogs \ astray' => s = wish'[l] BY <1>1, <1>3
  <2> QED BY <1>2, <1>10, <1>11, <2>1, <2>2 DEF AtRest
<1>13. OnTheWay' BY <1>1 DEF OnTheWay
<1>14. HistoryStep
  <2> SUFFICES ASSUME NEW k \in FLogs \ astray, ctx[k].base = wish'[k]
               PROVE  SameLine(ctx'[k], ctx[k])
    BY DEF HistoryStep
  <2>1. CASE k = l BY <1>1, <1>3, <1>6, <1>7, <1>8, <1>10, <2>1 DEF SameLine
  <2>2. CASE k # l BY <1>6, <1>8, <1>10, <2>2
  <2> QED BY <2>1, <2>2
<1> QED BY <1>10, <1>12, <1>13, <1>14 DEF BenchInv

-----------------------------------------------------------------------------
\* The edits, the walk along the history and what the log's own life does.
LEMMA EditKeeps ==
  ASSUME BenchInv, NEW s \in States, NEW continuous \in BOOLEAN, NEW slow \in BOOLEAN,
         Edit(s, continuous, slow)
  PROVE  BenchInv' /\ HistoryStep
<1> DEFINE l == ActiveLog
           w == [World EXCEPT !.pane.state = s]
           d == [w EXCEPT !.pane.pending = TRUE]
           n == ApplyNow(w, l, FALSE, continuous, slow)
           a == IF pane.slow THEN d ELSE n
<1>1. /\ turn = Quiet /\ pane.log # NoLog /\ Become(a) /\ tabs' = tabs /\ front' = front
      /\ active' = active /\ turn' = turn /\ astray' = astray
      /\ wish' = [wish EXCEPT ![pane.log] = s]
  BY Zenon DEF Edit, Act
<1>2. l \in FLogs \cup {NoLog} /\ NoLog \notin FLogs /\ pane.log \in FLogs
  BY <1>1, ViewsHaveLogs, BenchAssumption DEF BenchInv, BenchTypes, Panes
<1>3. /\ w \in Worlds /\ FilesAgree(w) /\ w.ctx = ctx /\ w.disk = disk /\ w.pane.state = s
      /\ w.pane.log = pane.log
  BY WorldIs, ShownIs DEF BenchInv
<1>4. (l \in FLogs => pane.log = l) /\ (l = NoLog => pane.log \in astray)
  BY <1>1, <1>2 DEF BenchInv, AtRest
<1>5. /\ d \in Worlds /\ FilesAgree(d) /\ d.ctx = ctx /\ d.disk = disk /\ d.pane.state = s
      /\ d.pane.log = pane.log /\ d.pane.pending
  BY <1>3 DEF Worlds, Panes, FilesAgree
<1> HIDE DEF w, d, l
<1>6. Applied(n, w, l, FALSE) BY <1>2, <1>3, ApplyNowIs
<1> HIDE DEF n
<1>7. /\ n \in Worlds /\ FilesAgree(n) /\ n.pane.state = s /\ n.pane.log = pane.log
      /\ \A k \in FLogs : n.ctx[k].stash = ctx[k].stash
      /\ \A k \in FLogs : k # l => n.disk[k] = disk[k] /\ SameLine(n.ctx[k], ctx[k])
      /\ l \in FLogs => /\ n.ctx[l].doc = s /\ n.ctx[l].shown = s /\ n.ctx[l].base = s
                        /\ n.ctx[l].file = s
                        /\ ctx[l].have /\ ctx[l].base = s => SameLine(n.ctx[l], ctx[l])
  BY <1>3, <1>4, <1>6 DEF Applied
<1>8. l \in FLogs => n.disk[l] = s BY <1>7 DEF FilesAgree
<1>9. /\ a \in Worlds /\ FilesAgree(a) /\ a.pane.state = s /\ a.pane.log = pane.log
      /\ \A k \in FLogs : a.ctx[k].stash = ctx[k].stash
      /\ \A k \in FLogs : k # l => a.disk[k] = disk[k] /\ SameLine(a.ctx[k], ctx[k])
      /\ l \in FLogs /\ ~a.pane.pending => {a.ctx[l].doc, a.ctx[l].shown, a.ctx[l].base, a.disk[l]} = {s}
      /\ l \in FLogs /\ ctx[l].have /\ ctx[l].base = s => SameLine(a.ctx[l], ctx[l])
  <2>1. CASE pane.slow
    <3>1. a = d BY <2>1
    <3> HIDE DEF a
    <3> QED BY <1>5, <3>1 DEF SameLine
  <2>2. CASE ~pane.slow
    <3>1. a = n BY <2>2
    <3> HIDE DEF a
    <3> QED BY <1>7, <1>8, <3>1
  <2> QED BY <2>1, <2>2
<1> HIDE DEF a
<1>10. wish' \in [FLogs -> States] /\ turn' \in {Quiet, "bind", "hydrate"}
       /\ wish'[pane.log] = s /\ \A k \in FLogs : k # pane.log => wish'[k] = wish[k]
  BY <1>1, <1>2 DEF BenchInv, BenchTypes
<1>11. /\ BenchTypes' /\ Places' /\ KeptElsewhere'
       /\ ActiveLog' = l /\ ctx' = a.ctx /\ pane' = a.pane /\ disk' = a.disk
  <2>1. \A k \in FLogs \ astray : k # ActiveLog =>
           a.ctx[k].stash = ctx[k].stash /\ a.disk[k] = disk[k] /\ wish'[k] = wish[k]
    BY <1>2, <1>4, <1>9, <1>10 DEF l
  <2> QED BY <1>1, <1>9, <1>10, <2>1, StayKeeps DEF l
<1>12. AtRest'
  <2>1. l = NoLog => pane'.log \in {NoLog} \cup astray' BY <1>1, <1>4, <1>9, <1>11
  <2>2. l # NoLog => pane'.log = l BY <1>2, <1>4, <1>9, <1>11
  <2>3. l \in FLogs => /\ pane'.state = wish'[l]
                       /\ ~pane'.pending => {ctx'[l].doc, ctx'[l].shown, ctx'[l].base, disk'[l]} = {wish'[l]}
    BY <1>4, <1>9, <1>10, <1>11
  <2> QED BY <1>11, <2>1, <2>2, <2>3 DEF AtRest
<1>13. OnTheWay' BY <1>1 DEF OnTheWay
<1>14. HistoryStep
  <2> SUFFICES ASSUME NEW k \in FLogs \ astray, ctx[k].have, ctx[k].base = wish'[k]
               PROVE  SameLine(ctx'[k], ctx[k])
    BY DEF HistoryStep
  <2>1. CASE k = l BY <1>4, <1>9, <1>10, <1>11, <2>1
  <2>2. CASE k # l BY <1>9, <1>11, <2>2
  <2> QED BY <2>1, <2>2
<1> QED BY <1>11, <1>12, <1>13, <1>14 DEF BenchInv

\* A step of the active log that asks nothing new of any log, and leaves the pane as it is.
LEMMA LifeKeeps ==
  ASSUME BenchInv, turn = Quiet, turn' = Quiet, NEW a \in Worlds, FilesAgree(a), Become(a),
         tabs' = tabs, front' = front, active' = active, astray' = astray, wish' = wish,
         a.pane.log = pane.log, ActiveLog \in FLogs \ astray => a.pane.state = pane.state,
         \A k \in FLogs : k # ActiveLog =>
           a.ctx[k].stash = ctx[k].stash /\ a.disk[k] = disk[k] /\ SameLine(a.ctx[k], ctx[k]),
         ActiveLog \in FLogs \ astray =>
           /\ ~a.pane.pending =>
                {a.ctx[ActiveLog].doc, a.ctx[ActiveLog].shown, a.ctx[ActiveLog].base,
                 a.disk[ActiveLog]} = {pane.state}
           /\ ctx[ActiveLog].have /\ ctx[ActiveLog].base = pane.state =>
                SameLine(a.ctx[ActiveLog], ctx[ActiveLog])
  PROVE  BenchInv' /\ HistoryStep
<1>1. wish' \in [FLogs -> States] /\ turn' \in {Quiet, "bind", "hydrate"}
  BY DEF BenchInv, BenchTypes
<1>2. /\ BenchTypes' /\ Places' /\ KeptElsewhere'
      /\ ActiveLog' = ActiveLog /\ ctx' = a.ctx /\ pane' = a.pane /\ disk' = a.disk
  BY <1>1, StayKeeps
<1>3. ActiveLog \in FLogs \ astray => pane.state = wish[ActiveLog] BY DEF BenchInv, AtRest
<1>4. AtRest'
  <2>1. ActiveLog = NoLog => pane'.log \in {NoLog} \cup astray'
    BY <1>2 DEF BenchInv, AtRest
  <2>2. ActiveLog # NoLog => pane'.log = ActiveLog BY <1>2 DEF BenchInv, AtRest
  <2> QED BY <1>2, <1>3, <2>1, <2>2 DEF AtRest
<1>5. OnTheWay' BY DEF OnTheWay
<1>6. HistoryStep
  <2> SUFFICES ASSUME NEW k \in FLogs \ astray, ctx[k].have, ctx[k].base = wish[k]
               PROVE  SameLine(ctx'[k], ctx[k])
    BY DEF HistoryStep
  <2>1. CASE k = ActiveLog BY <1>2, <1>3, <2>1
  <2>2. CASE k # ActiveLog BY <1>2, <2>2
  <2> QED BY <2>1, <2>2
<1> QED BY <1>2, <1>4, <1>5, <1>6 DEF BenchInv

\* The edit that waited is applied to the log it was made on.
LEMMA DebounceKeeps ==
  ASSUME BenchInv, NEW continuous \in BOOLEAN, NEW slow \in BOOLEAN, Debounce(continuous, slow)
  PROVE  BenchInv' /\ HistoryStep
<1> DEFINE a == ApplyNow(World, ActiveLog, FALSE, continuous, slow)
<1>1. /\ turn = Quiet /\ Become(a) /\ tabs' = tabs /\ front' = front /\ active' = active
      /\ turn' = turn /\ wish' = wish /\ astray' = astray
  BY Zenon DEF Debounce
<1>2. ActiveLog \in FLogs \cup {NoLog} /\ NoLog \notin FLogs
      /\ (ActiveLog \in FLogs => pane.log = ActiveLog)
  BY <1>1, ViewsHaveLogs, BenchAssumption DEF BenchInv, AtRest
<1>3. Applied(a, World, ActiveLog, FALSE) BY <1>2, WorldIs, ApplyNowIs DEF BenchInv
<1> HIDE DEF a
<1>4. /\ a \in Worlds /\ FilesAgree(a) /\ a.pane.log = pane.log /\ a.pane.state = pane.state
      /\ \A k \in FLogs : k # ActiveLog =>
           a.ctx[k].stash = ctx[k].stash /\ a.disk[k] = disk[k] /\ SameLine(a.ctx[k], ctx[k])
  BY <1>3, WorldIs DEF Applied, BenchInv
<1>5. ActiveLog \in FLogs =>
        /\ a.ctx[ActiveLog].doc = pane.state /\ a.ctx[ActiveLog].shown = pane.state
        /\ a.ctx[ActiveLog].base = pane.state /\ a.ctx[ActiveLog].file = pane.state
        /\ ctx[ActiveLog].have /\ ctx[ActiveLog].base = pane.state =>
             SameLine(a.ctx[ActiveLog], ctx[ActiveLog])
  BY <1>2, <1>3, WorldIs DEF Applied, BenchInv
<1>6. ActiveLog \in FLogs => a.disk[ActiveLog] = pane.state BY <1>4, <1>5 DEF FilesAgree
<1> QED BY <1>1, <1>4, <1>5, <1>6, LifeKeeps

\* A run of typing ends: the next edit is a step of its own.
LEMMA BreakRunKeeps ==
  ASSUME BenchInv, BreakRun
  PROVE  BenchInv' /\ HistoryStep
<1> DEFINE l == ActiveLog
           c == [ctx[l] EXCEPT !.cont = FALSE]
           a == [World EXCEPT !.ctx[l] = c]
<1>1. /\ turn = Quiet /\ l # NoLog /\ ctx' = [ctx EXCEPT ![l].cont = FALSE]
      /\ pane' = pane /\ disk' = disk /\ tabs' = tabs /\ front' = front /\ active' = active
      /\ turn' = turn /\ wish' = wish /\ astray' = astray
  BY DEF BreakRun
<1>2. l \in FLogs BY <1>1, ViewsHaveLogs DEF BenchInv
<1>3. /\ c \in Contexts /\ SameLine(c, ctx[l]) /\ c.file = ctx[l].file
      /\ c.doc = ctx[l].doc /\ c.shown = ctx[l].shown
  BY <1>2 DEF BenchInv, BenchTypes, Contexts, SameLine
<1>4. ctx' = [ctx EXCEPT ![l] = c] BY <1>1
<1>5. a.ctx = ctx' /\ a.pane = pane /\ a.disk = disk BY <1>4 DEF World
<1> HIDE DEF c
<1>6. a \in Worlds /\ FilesAgree(a) /\ a.ctx[l] = c /\ \A k \in FLogs : k # l => a.ctx[k] = ctx[k]
  BY <1>2, <1>3, WorldIs, ContextIs DEF BenchInv
<1> HIDE DEF a
<1>7. Become(a) BY <1>1, <1>5 DEF Become
<1>8. \A k \in FLogs : k # l =>
        a.ctx[k].stash = ctx[k].stash /\ a.disk[k] = disk[k] /\ SameLine(a.ctx[k], ctx[k])
  BY <1>5, <1>6 DEF SameLine
<1>9. l \in FLogs \ astray =>
        (~a.pane.pending => {a.ctx[l].doc, a.ctx[l].shown, a.ctx[l].base, a.disk[l]} = {pane.state})
  BY <1>1, <1>2, <1>3, <1>5, <1>6, BenchAssumption DEF BenchInv, AtRest, SameLine
<1>10. SameLine(a.ctx[l], ctx[l]) BY <1>3, <1>6
<1> HIDE DEF l
<1> QED BY <1>1, <1>5, <1>6, <1>7, <1>8, <1>9, <1>10, LifeKeeps DEF l

\* New names: the document takes the edit that waits, early.
LEMMA DiscoveredKeeps ==
  ASSUME BenchInv, Discovered
  PROVE  BenchInv' /\ HistoryStep
<1> DEFINE a == ApplyToDocument(World)
<1>1. /\ turn = Quiet /\ Become(a) /\ tabs' = tabs /\ front' = front /\ active' = active
      /\ turn' = turn /\ wish' = wish /\ astray' = astray /\ pane.pending
  BY DEF Discovered
<1>2. /\ a \in Worlds /\ a.pane = pane /\ a.disk = disk
      /\ \A k \in FLogs : /\ a.ctx[k].stash = ctx[k].stash /\ a.ctx[k].file = ctx[k].file
                          /\ SameLine(a.ctx[k], ctx[k])
  BY WorldIs, ApplyToDocumentIs DEF BenchInv
<1> HIDE DEF a
<1>3. FilesAgree(a) BY <1>2 DEF FilesAgree, BenchInv, BenchTypes
<1> QED BY <1>1, <1>2, <1>3, LifeKeeps

\* A scan ended: the rows of the log are made anew.
LEMMA RescanKeeps ==
  ASSUME BenchInv, NEW l \in FLogs, Scanned(l)
  PROVE  BenchInv' /\ HistoryStep
<1> DEFINE d == ApplyToDocument(World)
           w == IF l = ActiveLog THEN d ELSE World
           f == ApplyFiltersFor(w, l)
           a == IF w.ctx[l].doc = Unfiltered THEN w ELSE f
<1>1. /\ turn = Quiet /\ Become(a) /\ tabs' = tabs /\ front' = front /\ active' = active
      /\ turn' = turn /\ wish' = wish /\ astray' = astray
  BY Zenon DEF Scanned, Act
<1>2. l = ActiveLog => pane.log = l BY <1>1, BenchAssumption DEF BenchInv, AtRest
<1>3. /\ d \in Worlds /\ d.pane = pane /\ d.disk = disk
      /\ \A k \in FLogs : k # pane.log => d.ctx[k] = ctx[k]
      /\ \A k \in FLogs : /\ d.ctx[k].stash = ctx[k].stash /\ d.ctx[k].file = ctx[k].file
                          /\ d.ctx[k].shown = ctx[k].shown /\ SameLine(d.ctx[k], ctx[k])
      /\ pane.log \in FLogs => d.ctx[pane.log].doc = pane.state
  BY WorldIs, ApplyToDocumentIs DEF BenchInv
<1> HIDE DEF d
<1>4. /\ w \in Worlds /\ w.pane = pane /\ w.disk = disk
      /\ \A k \in FLogs : k # l => w.ctx[k] = ctx[k]
      /\ \A k \in FLogs : /\ w.ctx[k].stash = ctx[k].stash /\ w.ctx[k].file = ctx[k].file
                          /\ w.ctx[k].shown = ctx[k].shown /\ SameLine(w.ctx[k], ctx[k])
      /\ l = ActiveLog => w.ctx[l].doc = pane.state
  <2>1. CASE l = ActiveLog BY <1>2, <1>3, <2>1
  <2>2. CASE l # ActiveLog BY <2>2, WorldIs DEF SameLine, BenchInv
  <2> QED BY <2>1, <2>2
<1> HIDE DEF w
<1>5. /\ f \in Worlds /\ f.pane = pane /\ f.disk = disk
      /\ \A k \in FLogs : k # l => f.ctx[k] = w.ctx[k]
      /\ \A k \in FLogs : /\ f.ctx[k].stash = w.ctx[k].stash /\ f.ctx[k].file = w.ctx[k].file
                          /\ f.ctx[k].doc = w.ctx[k].doc /\ SameLine(f.ctx[k], w.ctx[k])
      /\ f.ctx[l].shown = w.ctx[l].doc
  BY <1>4, ApplyFiltersForIs
<1> HIDE DEF f
<1>6. /\ a \in Worlds /\ a.pane = pane /\ a.disk = disk
      /\ \A k \in FLogs : k # l => a.ctx[k] = ctx[k]
      /\ \A k \in FLogs : /\ a.ctx[k].stash = ctx[k].stash /\ a.ctx[k].file = ctx[k].file
                          /\ SameLine(a.ctx[k], ctx[k])
      /\ a.ctx[l].doc = w.ctx[l].doc
      /\ a.ctx[l].shown \in {ctx[l].shown, w.ctx[l].doc}
  <2>1. CASE w.ctx[l].doc = Unfiltered BY <1>4, <2>1
  <2>2. CASE w.ctx[l].doc # Unfiltered BY <1>4, <1>5, <2>2 DEF SameLine
  <2> QED BY <2>1, <2>2
<1> HIDE DEF a
<1>7. FilesAgree(a) BY <1>6 DEF FilesAgree, BenchInv, BenchTypes
<1>8. ActiveLog \in FLogs \ astray /\ ~pane.pending =>
        {a.ctx[ActiveLog].doc, a.ctx[ActiveLog].shown, a.ctx[ActiveLog].base, a.disk[ActiveLog]}
          = {pane.state}
  <2> SUFFICES ASSUME ActiveLog \in FLogs \ astray, ~pane.pending
               PROVE  {a.ctx[ActiveLog].doc, a.ctx[ActiveLog].shown, a.ctx[ActiveLog].base,
                       a.disk[ActiveLog]} = {pane.state}
    OBVIOUS
  <2>1. {ctx[ActiveLog].doc, ctx[ActiveLog].shown, ctx[ActiveLog].base, disk[ActiveLog]} = {pane.state}
    BY <1>1 DEF BenchInv, AtRest
  <2>2. CASE l = ActiveLog BY <1>4, <1>6, <2>1, <2>2 DEF SameLine
  <2>3. CASE l # ActiveLog BY <1>6, <2>1, <2>3
  <2> QED BY <2>2, <2>3
<1> QED BY <1>1, <1>6, <1>7, <1>8, LifeKeeps

\* Another format: the pane is stashed, bound anew and put back.
LEMMA ReformattedKeeps ==
  ASSUME BenchInv, NEW continuous \in BOOLEAN, Reformatted(continuous)
  PROVE  BenchInv' /\ HistoryStep
<1> DEFINE l == ActiveLog
           t == StashPaneState(World, l, l)
           s == SetDocument(t, l, l, FALSE)
           v == [s EXCEPT !.pane.state = s.ctx[l].stash]
           a == ApplyNow(v, l, FALSE, continuous, FALSE)
<1>1. /\ turn = Quiet /\ l # NoLog /\ Become(a) /\ tabs' = tabs /\ front' = front
      /\ active' = active /\ turn' = turn /\ wish' = wish /\ astray' = astray
  BY Zenon DEF Reformatted, Act
<1>2. l \in FLogs /\ pane.log = l BY <1>1, ViewsHaveLogs DEF BenchInv, AtRest
<1> HIDE DEF l
<1>3. Stashed(t, World, l) BY <1>2, WorldIs, StashIs DEF BenchInv
<1> HIDE DEF t
<1>4. /\ t \in Worlds /\ t.pane = pane /\ FilesAgree(t) /\ t.ctx[l].stash = pane.state
      /\ \A k \in FLogs : k # l => t.ctx[k].stash = ctx[k].stash /\ t.disk[k] = disk[k]
      /\ \A k \in FLogs : (ctx[k].have => t.ctx[k].have) /\ SameLine(t.ctx[k], ctx[k])
  BY <1>2, <1>3, WorldIs DEF Stashed, BenchInv
<1>5. Rebound(s, t, l, l, FALSE) BY <1>2, <1>4, SetDocumentIs
<1> HIDE DEF s
<1>6. /\ s \in Worlds /\ FilesAgree(s) /\ s.pane.log = l /\ s.ctx[l].stash = pane.state
      /\ \A k \in FLogs : ctx[k].have => s.ctx[k].have
      /\ \A k \in FLogs : k # l =>
           s.ctx[k].stash = ctx[k].stash /\ s.disk[k] = disk[k] /\ SameLine(s.ctx[k], ctx[k])
      /\ ctx[l].have /\ ctx[l].base = pane.state => SameLine(s.ctx[l], ctx[l])
  BY <1>2, <1>4, <1>5 DEF Rebound, SameLine
<1>7. /\ v \in Worlds /\ FilesAgree(v) /\ v.ctx = s.ctx /\ v.disk = s.disk /\ v.pane.log = l
      /\ v.pane.state = pane.state
  <2>1. s.ctx[l].stash \in States BY <1>2, <1>6 DEF Worlds, Contexts
  <2> QED BY <1>6, <2>1, ShownIs
<1> HIDE DEF v
<1>8. Applied(a, v, l, FALSE) BY <1>2, <1>7, ApplyNowIs
<1> HIDE DEF a
<1>9. /\ a \in Worlds /\ FilesAgree(a) /\ a.pane.log = l /\ a.pane.state = pane.state
      /\ \A k \in FLogs : k # l =>
           a.ctx[k].stash = ctx[k].stash /\ a.disk[k] = disk[k] /\ SameLine(a.ctx[k], ctx[k])
  BY <1>6, <1>7, <1>8 DEF Applied, SameLine
<1>10. /\ a.ctx[l].doc = pane.state /\ a.ctx[l].shown = pane.state
       /\ a.ctx[l].base = pane.state /\ a.ctx[l].file = pane.state
       /\ s.ctx[l].have /\ s.ctx[l].base = pane.state => SameLine(a.ctx[l], s.ctx[l])
  BY <1>2, <1>7, <1>8 DEF Applied
<1>11. ctx[l].have /\ ctx[l].base = pane.state => SameLine(a.ctx[l], ctx[l])
  BY <1>2, <1>6, <1>10 DEF SameLine
<1>12. a.disk[l] = pane.state BY <1>2, <1>9, <1>10 DEF FilesAgree
<1> QED BY <1>1, <1>2, <1>9, <1>10, <1>11, <1>12, LifeKeeps DEF l

-----------------------------------------------------------------------------
\* The line of a history: a walk moves along it and leaves it as it was.
LEMMA FrontLast ==
  ASSUME NEW S, NEW s \in Seq(S), s # <<>>
  PROVE  Front(s) \in Seq(S) /\ Last(s) \in S /\ s = Front(s) \o <<Last(s)>>
<1>1. Len(s) \in Nat /\ Len(s) >= 1 BY EmptySeq
<1>2. 1 \in 1..Len(s) /\ Len(s) \in 1..Len(s) /\ Last(s) \in S BY <1>1 DEF Last
<1>3. SubSeq(s, 1, Len(s)) = SubSeq(s, 1, Len(s) - 1) \o <<s[Len(s)]>>
  BY <1>2, SubSeqRecursiveSecond
<1>4. s = Front(s) \o <<Last(s)>> BY <1>3, SubSeqFull DEF Front, Last
<1>5. Front(s) \in Seq(S)
  <2>1. \A i \in 1..(Len(s) - 1) : s[i] \in S BY <1>1
  <2> QED BY <1>1, <2>1, SubSeqProperties DEF Front
<1> QED BY <1>2, <1>4, <1>5

\* What Reverse does, item by item.
LEMMA ReverseIs ==
  ASSUME NEW S, NEW s \in Seq(S)
  PROVE  /\ Reverse(s) \in Seq(S) /\ Len(Reverse(s)) = Len(s)
         /\ \A i \in 1..Len(s) : Reverse(s)[i] = s[(Len(s) - i) + 1]
<1>1. Len(s) \in Nat OBVIOUS
<1>2. \A i \in 1..Len(s) : (Len(s) - i) + 1 \in 1..Len(s) BY <1>1
<1>3. Reverse(s) \in [1..Len(s) -> S] BY <1>1, <1>2 DEF Reverse
<1>4. Reverse(s) \in Seq(S) BY <1>1, <1>3, SeqDef
<1>5. Len(Reverse(s)) = Len(s)
  <2>1. Len(Reverse(s)) \in Nat /\ DOMAIN Reverse(s) = 1..Len(Reverse(s))
    BY <1>4, LenProperties
  <2>2. DOMAIN Reverse(s) = 1..Len(s) BY <1>3
  <2> QED BY <1>1, <2>1, <2>2
<1> QED BY <1>4, <1>5 DEF Reverse

\* The last item comes first.
LEMMA ReverseAppend ==
  ASSUME NEW S, NEW s \in Seq(S), NEW x \in S
  PROVE  Reverse(s \o <<x>>) = <<x>> \o Reverse(s)
<1> DEFINE t == s \o <<x>>
           r == Reverse(s)
           p == <<x>> \o r
<1>1. <<x>> \in Seq(S) /\ Len(<<x>>) = 1 /\ <<x>>[1] = x /\ Len(s) \in Nat OBVIOUS
<1>2. /\ t \in Seq(S) /\ Len(t) = Len(s) + 1
      /\ \A i \in 1..(Len(s) + 1) : t[i] = IF i <= Len(s) THEN s[i] ELSE <<x>>[i - Len(s)]
  BY <1>1, ConcatProperties
<1>3. r \in Seq(S) /\ Len(r) = Len(s) /\ \A i \in 1..Len(s) : r[i] = s[(Len(s) - i) + 1]
  BY ReverseIs
<1> HIDE DEF t, r
<1>4. /\ p \in Seq(S) /\ Len(p) = 1 + Len(s)
      /\ \A i \in 1..(1 + Len(s)) : p[i] = IF i <= 1 THEN <<x>>[i] ELSE r[i - 1]
  BY <1>1, <1>3, ConcatProperties
<1>5. /\ Reverse(t) \in Seq(S) /\ Len(Reverse(t)) = Len(s) + 1
      /\ \A i \in 1..(Len(s) + 1) : Reverse(t)[i] = t[((Len(s) + 1) - i) + 1]
  BY <1>2, ReverseIs
<1> HIDE DEF p
<1>6. ASSUME NEW i \in 1..(Len(s) + 1) PROVE Reverse(t)[i] = p[i]
  <2> DEFINE j == ((Len(s) + 1) - i) + 1
  <2>1. j \in 1..(Len(s) + 1) /\ Reverse(t)[i] = t[j] BY <1>1, <1>5
  <2>2. CASE i = 1 BY <1>1, <1>2, <1>4, <2>1, <2>2
  <2>3. CASE i # 1
    <3>1. i - 1 \in 1..Len(s) /\ j \in 1..Len(s) /\ j = (Len(s) - (i - 1)) + 1
      BY <1>1, <2>3
    <3>2. p[i] = r[i - 1] BY <1>1, <1>4, <2>3
    <3>3. r[i - 1] = s[j] BY <1>3, <3>1
    <3>4. t[j] = s[j] BY <1>1, <1>2, <2>1, <3>1
    <3> QED BY <2>1, <3>2, <3>3, <3>4
  <2> QED BY <2>2, <2>3
<1>7. Reverse(t) = p BY <1>1, <1>4, <1>5, <1>6, SeqEqual
<1> QED BY <1>7 DEF t, p, r

\* One item between two sequences belongs to either.
LEMMA Regroup ==
  \A s, u \in Seq(States), x \in States : (s \o <<x>>) \o u = s \o (<<x>> \o u)
<1> SUFFICES ASSUME NEW s \in Seq(States), NEW u \in Seq(States), NEW x \in States
             PROVE  (s \o <<x>>) \o u = s \o (<<x>> \o u)
  OBVIOUS
<1> DEFINE t == <<x>>
<1>1. t \in Seq(States) OBVIOUS
<1> HIDE DEF t
<1>2. (s \o t) \o u = s \o (t \o u) BY <1>1, ConcatAssociative
<1> QED BY <1>2 DEF t

\* One step back along the line.
LEMMA UndoneIs ==
  ASSUME NEW c \in Contexts, c.undo # <<>>
  PROVE  /\ Undone(c) \in Contexts /\ Line(Undone(c)) = Line(c)
         /\ Undone(c).file = c.file /\ Undone(c).stash = c.stash
<1> DEFINE f == Front(c.undo)
           x == Last(c.undo)
           r == Reverse(c.redo)
           d == Undone(c)
<1>1. c.undo \in Seq(States) /\ c.redo \in Seq(States) /\ c.base \in States
  BY DEF Contexts
<1>2. f \in Seq(States) /\ x \in States /\ c.undo = f \o <<x>> BY <1>1, FrontLast
<1>3. r \in Seq(States) BY <1>1, ReverseIs
<1>4. Append(c.redo, c.base) = c.redo \o <<c.base>> /\ Append(c.redo, c.base) \in Seq(States)
  BY <1>1
<1>5. d = [c EXCEPT !.redo = Append(c.redo, c.base), !.undo = f, !.base = x, !.cont = FALSE]
  BY DEF Undone
<1> HIDE DEF f, x, d
<1>6. /\ d \in Contexts /\ d.undo = f /\ d.redo = c.redo \o <<c.base>> /\ d.base = x
      /\ d.file = c.file /\ d.stash = c.stash
  BY <1>1, <1>2, <1>4, <1>5 DEF Contexts
<1>7. Reverse(d.redo) = <<c.base>> \o r BY <1>1, <1>6, ReverseAppend
<1>9. Line(d) = c.undo \o (<<c.base>> \o r) BY <1>2, <1>6, <1>7 DEF Line
<1>10. Line(c) = (c.undo \o <<c.base>>) \o r BY DEF Line, r
<1> HIDE DEF r
<1>11. (c.undo \o <<c.base>>) \o r = c.undo \o (<<c.base>> \o r) BY <1>1, <1>3, Regroup
<1>12. Line(d) = Line(c) BY <1>9, <1>10, <1>11
<1> QED BY <1>6, <1>12 DEF d

\* One step forward along the line.
LEMMA RedoneIs ==
  ASSUME NEW c \in Contexts, c.redo # <<>>
  PROVE  /\ Redone(c) \in Contexts /\ Line(Redone(c)) = Line(c)
         /\ Redone(c).file = c.file /\ Redone(c).stash = c.stash
<1> DEFINE f == Front(c.redo)
           x == Last(c.redo)
           r == Reverse(f)
           d == Redone(c)
<1>1. c.undo \in Seq(States) /\ c.redo \in Seq(States) /\ c.base \in States
  BY DEF Contexts
<1>2. f \in Seq(States) /\ x \in States /\ c.redo = f \o <<x>> BY <1>1, FrontLast
<1>3. r \in Seq(States) BY <1>2, ReverseIs
<1>4. Append(c.undo, c.base) = c.undo \o <<c.base>> /\ Append(c.undo, c.base) \in Seq(States)
  BY <1>1
<1>5. d = [c EXCEPT !.undo = Append(c.undo, c.base), !.redo = f, !.base = x, !.cont = FALSE]
  BY DEF Redone
<1> HIDE DEF f, x, d
<1>6. /\ d \in Contexts /\ d.redo = f /\ d.undo = c.undo \o <<c.base>> /\ d.base = x
      /\ d.file = c.file /\ d.stash = c.stash
  BY <1>1, <1>2, <1>4, <1>5 DEF Contexts
<1>7. Reverse(c.redo) = <<x>> \o r BY <1>2, ReverseAppend
<1>8. <<x>> \in Seq(States) /\ <<c.base>> \in Seq(States) BY <1>1, <1>2
<1>9. (c.undo \o <<c.base>>) \in Seq(States) BY <1>1, <1>8, ConcatProperties
<1>10. Line(d) = ((c.undo \o <<c.base>>) \o <<x>>) \o r BY <1>6 DEF Line
<1> HIDE DEF r
<1>11. Line(c) = (c.undo \o <<c.base>>) \o (<<x>> \o r) BY <1>7 DEF Line
<1>12. Line(d) = Line(c)
  <2>1. ((c.undo \o <<c.base>>) \o <<x>>) \o r = (c.undo \o <<c.base>>) \o (<<x>> \o r)
    BY <1>2, <1>3, <1>9, Regroup
  <2> QED BY <1>10, <1>11, <2>1, Zenon
<1> QED BY <1>6, <1>12 DEF d

\* The line is read off the stacks and the present.
LEMMA SameLines ==
  ASSUME NEW c, NEW d, SameLine(c, d)
  PROVE  Line(c) = Line(d)
  BY DEF SameLine, Line

\* An undo or a redo: the restore is not recorded (m_filterRebind).
LEMMA WalkKeeps ==
  ASSUME BenchInv, NEW back \in BOOLEAN, Walk(back)
  PROVE  BenchInv' /\ \A k \in FLogs : Line(ctx'[k]) = Line(ctx[k])
<1> DEFINE l == ActiveLog
           c == IF back THEN Undone(ctx[l]) ELSE Redone(ctx[l])
           u == [World EXCEPT !.ctx[l] = c]
           v == [u EXCEPT !.pane.state = c.base]
           w == ApplyNow(v, l, TRUE, FALSE, FALSE)
           d == [Settle(w.ctx[l], w.pane.state) EXCEPT !.stash = w.pane.state]
           a == [w EXCEPT !.ctx[l] = d]
<1>1. /\ turn = Quiet /\ l # NoLog /\ Become(a) /\ tabs' = tabs /\ front' = front
      /\ active' = active /\ turn' = turn /\ astray' = astray
      /\ IF back THEN ctx[l].undo # <<>> ELSE ctx[l].redo # <<>>
      /\ wish' = [wish EXCEPT ![l] = pane'.state]
  BY Zenon DEF Walk, Act, History, RestoreState
<1>2. l \in FLogs /\ pane.log = l /\ ctx[l] \in Contexts /\ NoLog \notin FLogs
  BY <1>1, ViewsHaveLogs, BenchAssumption DEF BenchInv, BenchTypes, AtRest
<1>3. /\ c \in Contexts /\ Line(c) = Line(ctx[l]) /\ c.file = ctx[l].file
      /\ c.base \in States
  <2>1. CASE back BY <1>1, <1>2, <2>1, UndoneIs DEF Contexts
  <2>2. CASE ~back BY <1>1, <1>2, <2>2, RedoneIs DEF Contexts
  <2> QED BY <2>1, <2>2
<1> HIDE DEF c, l
<1>4. /\ u \in Worlds /\ FilesAgree(u) /\ u.pane = pane /\ u.disk = disk /\ u.ctx[l] = c
      /\ \A k \in FLogs : k # l => u.ctx[k] = ctx[k]
  BY <1>2, <1>3, WorldIs, ContextIs DEF BenchInv
<1> HIDE DEF u
<1>5. /\ v \in Worlds /\ FilesAgree(v) /\ v.ctx = u.ctx /\ v.disk = disk /\ v.pane.log = l
      /\ v.pane.state = c.base
  BY <1>2, <1>3, <1>4, ShownIs
<1> HIDE DEF v
<1>6. Applied(w, v, l, TRUE) BY <1>2, <1>5, ApplyNowIs
<1> HIDE DEF w
<1>7. /\ w \in Worlds /\ FilesAgree(w) /\ w.pane.state = c.base /\ w.pane.log = l
      /\ SameLine(w.ctx[l], c) /\ w.ctx[l] \in Contexts
      /\ \A k \in FLogs : k # l =>
           w.ctx[k].stash = ctx[k].stash /\ w.disk[k] = disk[k] /\ SameLine(w.ctx[k], ctx[k])
      /\ w.ctx[l].doc = c.base /\ w.ctx[l].shown = c.base /\ w.ctx[l].file = c.base
  BY <1>2, <1>4, <1>5, <1>6 DEF Applied, Worlds
<1> DEFINE e == Settle(w.ctx[l], w.pane.state)
<1>8. /\ e \in Contexts /\ e.base = c.base /\ e.undo = w.ctx[l].undo /\ e.redo = w.ctx[l].redo
      /\ e.file = c.base /\ e.doc = c.base /\ e.shown = c.base
  BY <1>3, <1>7, SettleIs
<1> HIDE DEF e
<1>9. d = [e EXCEPT !.stash = w.pane.state] BY DEF e
<1> HIDE DEF d
<1>10. /\ d \in Contexts /\ d.base = c.base /\ d.file = c.base /\ d.doc = c.base /\ d.shown = c.base
       /\ SameLine(d, c)
  BY <1>3, <1>7, <1>8, <1>9 DEF Contexts, SameLine
<1>11. /\ a \in Worlds /\ FilesAgree(a) /\ a.pane = w.pane /\ a.disk = w.disk /\ a.ctx[l] = d
       /\ \A k \in FLogs : k # l => a.ctx[k] = w.ctx[k]
  BY <1>2, <1>7, <1>10, ContextIs
<1> HIDE DEF a
<1>12. pane'.state = c.base BY <1>1, <1>7, <1>11 DEF Become
<1>13. /\ wish' \in [FLogs -> States] /\ turn' \in {Quiet, "bind", "hydrate"}
       /\ wish'[l] = c.base /\ \A k \in FLogs : k # l => wish'[k] = wish[k]
  BY <1>1, <1>2, <1>3, <1>12 DEF BenchInv, BenchTypes
<1>14. /\ BenchTypes' /\ Places' /\ KeptElsewhere'
       /\ ActiveLog' = l /\ ctx' = a.ctx /\ pane' = a.pane /\ disk' = a.disk
  <2>1. \A k \in FLogs \ astray : k # ActiveLog =>
           a.ctx[k].stash = ctx[k].stash /\ a.disk[k] = disk[k] /\ wish'[k] = wish[k]
    BY <1>7, <1>11, <1>13 DEF l
  <2> QED BY <1>1, <1>11, <1>13, <2>1, StayKeeps DEF l
<1>15. disk'[l] = c.base BY <1>2, <1>10, <1>11, <1>14 DEF FilesAgree
<1>16. AtRest' BY <1>2, <1>7, <1>10, <1>11, <1>13, <1>14, <1>15 DEF AtRest
<1>17. OnTheWay' BY <1>1 DEF OnTheWay
<1>18. \A k \in FLogs : Line(ctx'[k]) = Line(ctx[k])
  <2> SUFFICES ASSUME NEW k \in FLogs PROVE Line(ctx'[k]) = Line(ctx[k]) OBVIOUS
  <2>1. CASE k = l BY <1>3, <1>10, <1>11, <1>14, <2>1, SameLines
  <2>2. CASE k # l BY <1>7, <1>11, <1>14, <2>2, SameLines
  <2> QED BY <2>1, <2>2
<1> QED BY <1>14, <1>16, <1>17, <1>18 DEF BenchInv

-----------------------------------------------------------------------------
\* Nothing is open at the start.
LEMMA BenchInitially == BenchInit => BenchInv
<1> SUFFICES ASSUME BenchInit PROVE BenchInv OBVIOUS
<1>1. Unfiltered \in States /\ <<>> \in Seq(States) BY BenchAssumption
<1>2. Fresh(Unfiltered) \in Contexts /\ Fresh(Unfiltered).file = Unfiltered
  BY <1>1 DEF Fresh, Contexts
<1>3. /\ tabs = {} /\ front = NoView /\ active = NoView /\ turn = Quiet
      /\ ctx = [l \in FLogs |-> Fresh(Unfiltered)] /\ disk = [l \in FLogs |-> Unfiltered]
      /\ wish = disk
      /\ pane = [log |-> NoLog, state |-> Unfiltered, pending |-> FALSE, slow |-> FALSE]
  BY DEF BenchInit
<1>4. BenchTypes BY <1>1, <1>2, <1>3 DEF BenchTypes, Panes
<1>5. ActiveLog = NoLog /\ NoLog \notin FLogs
  BY <1>3, BenchAssumption DEF ActiveLog, LogOf
<1>6. Places BY <1>3 DEF Places
<1>7. KeptElsewhere BY <1>3 DEF KeptElsewhere, IsOpen, Views
<1>8. AtRest /\ OnTheWay BY <1>3, <1>5 DEF AtRest, OnTheWay
<1> QED BY <1>4, <1>6, <1>7, <1>8 DEF BenchInv

\* Every step keeps the invariant, and moves the history of a log only to take in what was asked.
LEMMA BenchStep ==
  ASSUME BenchInv, [BenchNext]_benchVars
  PROVE  /\ BenchInv'
         /\ \A l \in FLogs \ astray : IsOpen(l) /\ ctx[l].have /\ ctx[l].base = wish'[l] =>
              Line(ctx'[l]) = Line(ctx[l])
<1>1. ASSUME BenchInv', HistoryStep
      PROVE  /\ BenchInv'
             /\ \A l \in FLogs \ astray : IsOpen(l) /\ ctx[l].have /\ ctx[l].base = wish'[l] =>
                  Line(ctx'[l]) = Line(ctx[l])
  BY <1>1, SameLines DEF HistoryStep
<1>2. CASE UNCHANGED benchVars
  <2>1. BenchInv'
    BY <1>2 DEF benchVars, BenchInv, BenchTypes, Places, KeptElsewhere, AtRest, OnTheWay, ActiveLog,
                LogOf, IsOpen, Views
  <2> QED BY <1>2, <2>1 DEF benchVars
<1>3. CASE Bind BY <1>1, <1>3, BindKeeps
<1>4. CASE Hydrate BY <1>1, <1>4, HydrateKeeps
<1>5. CASE OpenEditor BY <1>1, <1>5, OpenEditorKeeps
<1>6. CASE CloseAll BY <1>1, <1>6, CloseAllKeeps
<1>7. CASE Quit BY <1>1, <1>7, QuitKeeps
<1>8. CASE Crash BY <1>1, <1>8, CrashKeeps
<1>9. CASE BreakRun BY <1>1, <1>9, BreakRunKeeps
<1>10. CASE Discovered BY <1>1, <1>10, DiscoveredKeeps
<1>11. ASSUME NEW l \in FLogs, Open(l) \/ Scanned(l) PROVE BenchInv' /\ HistoryStep
  BY <1>11, OpenKeeps, RescanKeeps
<1>12. ASSUME NEW i \in 2..ViewsPerLog, NewView(i) PROVE BenchInv' /\ HistoryStep
  BY <1>12, NewViewKeeps
<1>13. ASSUME NEW p \in tabs, Click(p) PROVE BenchInv' /\ HistoryStep BY <1>13, ClickKeeps
<1>14. ASSUME NEW n \in tabs \cup {NoView}, CloseEditor(n) \/ \E v \in tabs : CloseView(v, n)
       PROVE  BenchInv' /\ HistoryStep
  BY <1>14, CloseEditorKeeps, CloseViewKeeps
<1>15. ASSUME NEW s \in States, NEW b \in BOOLEAN, NEW c \in BOOLEAN, Edit(s, b, c)
       PROVE  BenchInv' /\ HistoryStep
  BY <1>15, EditKeeps
<1>16. ASSUME NEW b \in BOOLEAN, NEW c \in BOOLEAN, Debounce(b, c) PROVE BenchInv' /\ HistoryStep
  BY <1>16, DebounceKeeps
<1>17. ASSUME NEW b \in BOOLEAN, Reformatted(b) PROVE BenchInv' /\ HistoryStep
  BY <1>17, ReformattedKeeps
<1>18. ASSUME NEW b \in BOOLEAN, Walk(b)
       PROVE  BenchInv' /\ \A k \in FLogs : Line(ctx'[k]) = Line(ctx[k])
  BY <1>18, WalkKeeps
<1> QED
  BY <1>1, <1>2, <1>3, <1>4, <1>5, <1>6, <1>7, <1>8, <1>9, <1>10, <1>11, <1>12, <1>13, <1>14,
     <1>15, <1>16, <1>17, <1>18 DEF BenchNext

\* A log's filters are the ones last asked of it: where it is in front the pane, the document,
\* the rows and the history show them, elsewhere its stash and its record hold them, and a closed
\* log's record does (FilterPane::setDocument, MainWindow::setActiveView, persistFileSettings).
THEOREM FiltersKept == BenchSpec => []EachLogKeepsItsFilters
<1>1. BenchInv => EachLogKeepsItsFilters
  <2> SUFFICES ASSUME BenchInv, turn = Quiet, NEW l \in FLogs \ astray
               PROVE  IF ~IsOpen(l) THEN disk[l] = wish[l]
                      ELSE IF l # ActiveLog THEN {ctx[l].stash, ctx[l].file, disk[l]} = {wish[l]}
                      ELSE /\ pane.log = l /\ pane.state = wish[l]
                           /\ ~pane.pending => {ctx[l].doc, ctx[l].shown, ctx[l].file, ctx[l].base,
                                                disk[l]} = {wish[l]}
    BY DEF EachLogKeepsItsFilters
  <2>1. ctx[l].file = disk[l] BY DEF BenchInv, BenchTypes
  <2>2. CASE l = ActiveLog
    <3>1. IsOpen(l) /\ l # NoLog BY <2>2, ViewsHaveLogs, BenchAssumption DEF BenchInv
    <3> QED BY <2>1, <2>2, <3>1 DEF BenchInv, AtRest
  <2>3. CASE l # ActiveLog BY <2>1, <2>3 DEF BenchInv, KeptElsewhere
  <2> QED BY <2>2, <2>3
<1> QED BY BenchInitially, BenchStep, <1>1, PTL DEF BenchSpec

\* The history of an open log changes by what its reader asks and by nothing else, and a walk
\* along it leaves it as it was (FilterUndoStack::record, settle, undo and redo; m_filterRebind).
THEOREM HistoryKept == BenchSpec => HistoryIsTheReaders
<1> DEFINE A == \A l \in FLogs \ astray :
                  IsOpen(l) /\ ctx[l].have /\ Line(ctx'[l]) # Line(ctx[l])
                    => ctx[l].base # wish'[l] /\ ~\E b \in BOOLEAN : Walk(b)
<1>1. BenchInv /\ [BenchNext]_benchVars => [A]_benchVars BY BenchStep, WalkKeeps
<1>2. BenchSpec => [][A]_benchVars BY BenchInitially, BenchStep, <1>1, PTL DEF BenchSpec
<1> QED BY <1>2 DEF HistoryIsTheReaders
-----------------------------------------------------------------------------
(* The reader's place in a log: numbers in order                           *)

\* The place of i in S, from the smallest.
RankOf(S, i) == Cardinality({j \in S : j <= i})

LEMMA RankIs ==
  ASSUME NEW S \in SUBSET Nat, IsFiniteSet(S)
  PROVE  /\ Cardinality(S) \in Nat
         /\ \A i \in S : RankOf(S, i) \in 1 .. Cardinality(S)
         /\ \A i, j \in S : i < j => RankOf(S, i) < RankOf(S, j)
         /\ \A k \in 1 .. Cardinality(S) : \E i \in S : RankOf(S, i) = k
<1> DEFINE U(i) == {j \in S : j <= i}
           n == Cardinality(S)
<1>1. n \in Nat BY FS_CardinalityType
<1>2. ASSUME NEW i \in S
      PROVE  IsFiniteSet(U(i)) /\ RankOf(S, i) \in 1 .. n
  <2>1. U(i) \in SUBSET S /\ U(i) # {} OBVIOUS
  <2>2. IsFiniteSet(U(i)) /\ Cardinality(U(i)) <= n BY <2>1, FS_Subset, Zenon
  <2>3. Cardinality(U(i)) \in Nat /\ Cardinality(U(i)) # 0
    BY <2>1, <2>2, FS_CardinalityType, FS_EmptySet
  <2> QED BY <1>1, <2>2, <2>3 DEF RankOf
<1>3. ASSUME NEW i \in S, NEW j \in S, i < j
      PROVE  RankOf(S, i) < RankOf(S, j)
  <2>0. i \in Nat /\ j \in Nat /\ (\A x \in S : x \in Nat) OBVIOUS
  <2>1. U(i) \in SUBSET U(j) /\ U(i) # U(j)
    <3>1. \A x \in S : x <= i => x <= j BY <1>3, <2>0
    <3>2. j <= j /\ ~(j <= i) BY <1>3, <2>0
    <3>3. U(i) \in SUBSET U(j) BY <3>1
    <3>4. j \in U(j) /\ j \notin U(i) BY <3>2
    <3> QED BY <3>3, <3>4
  <2>2. IsFiniteSet(U(j)) /\ RankOf(S, i) \in Nat /\ RankOf(S, j) \in Nat
    <3>1. \A x \in S : IsFiniteSet(U(x)) /\ RankOf(S, x) \in 1 .. n BY <1>2
    <3> HIDE DEF n, U
    <3>2. \A x \in 1 .. n : x \in Nat BY <1>1
    <3> QED BY <3>1, <3>2, Zenon
  <2>3. Cardinality(U(i)) <= Cardinality(U(j)) /\ Cardinality(U(i)) # Cardinality(U(j))
    BY <2>1, <2>2, FS_Subset, Zenon
  <2> QED BY <2>2, <2>3 DEF RankOf
<1>4. ASSUME NEW k \in 1 .. n
      PROVE  \E i \in S : RankOf(S, i) = k
  <2> DEFINE f == [i \in S |-> RankOf(S, i)]
  <2>1. f \in [S -> 1 .. n] BY <1>2
  <2>2. ASSUME NEW i \in S, NEW j \in S, f[i] = f[j]
        PROVE  i = j
    <3>1. RankOf(S, i) = RankOf(S, j) /\ RankOf(S, i) \in Nat /\ i \in Nat /\ j \in Nat
      <4>1. \A x \in S : RankOf(S, x) \in 1 .. n BY <1>2
      <4> HIDE DEF n
      <4>2. \A x \in 1 .. n : x \in Nat BY <1>1
      <4> QED BY <4>1, <4>2, <2>2
    <3>2. CASE i < j BY <3>1, <3>2, <1>3
    <3>3. CASE j < i BY <3>1, <3>3, <1>3
    <3> QED BY <3>1, <3>2, <3>3
  <2>3. f \in Injection(S, 1 .. n) BY <2>1, <2>2, Zenon DEF Injection, IsInjective
  <2>4. IsFiniteSet(1 .. n) /\ Cardinality(1 .. n) = n BY <1>1, FS_Interval
  <2>5. f \in Surjection(S, 1 .. n) BY <2>3, <2>4, FS_Injection
  <2> QED BY <2>5 DEF Surjection
<1> QED BY <1>1, <1>2, <1>3, <1>4

LEMMA InOrderIs ==
  ASSUME NEW S \in SUBSET Nat, IsFiniteSet(S)
  PROVE  /\ InOrder(S) \in Seq(S) /\ Len(InOrder(S)) = Cardinality(S)
         /\ Cardinality(S) \in Nat
         /\ \A k, m \in 1 .. Cardinality(S) : k < m => InOrder(S)[k] < InOrder(S)[m]
         /\ \A i \in S : /\ RankOf(S, i) \in 1 .. Cardinality(S)
                         /\ InOrder(S)[RankOf(S, i)] = i
<1> DEFINE n == Cardinality(S)
<1>1. /\ n \in Nat
      /\ \A i \in S : RankOf(S, i) \in 1 .. n
      /\ \A i, j \in S : i < j => RankOf(S, i) < RankOf(S, j)
      /\ \A k \in 1 .. n : \E i \in S : RankOf(S, i) = k
  BY RankIs
<1>2. InOrder(S) = [k \in 1 .. n |-> CHOOSE i \in S : RankOf(S, i) = k]
  BY DEF InOrder, RankOf
<1>3. \A k \in 1 .. n : InOrder(S)[k] \in S /\ RankOf(S, InOrder(S)[k]) = k
  <2> SUFFICES ASSUME NEW k \in 1 .. n
               PROVE  InOrder(S)[k] \in S /\ RankOf(S, InOrder(S)[k]) = k
    OBVIOUS
  <2>1. InOrder(S)[k] = CHOOSE i \in S : RankOf(S, i) = k BY <1>2
  <2>2. \E i \in S : RankOf(S, i) = k BY <1>1
  <2> QED BY <2>1, <2>2
<1>4. InOrder(S) \in Seq(S) /\ Len(InOrder(S)) = n BY <1>1, <1>2, <1>3
<1>5. ASSUME NEW i \in S, NEW j \in S, RankOf(S, i) = RankOf(S, j)
      PROVE  i = j
  <2>1. /\ RankOf(S, i) \in 1 .. n /\ RankOf(S, j) \in 1 .. n
        /\ i < j => RankOf(S, i) < RankOf(S, j)
        /\ j < i => RankOf(S, j) < RankOf(S, i)
        /\ i \in Nat /\ j \in Nat
    BY <1>1
  <2> QED BY <2>1, <1>5, <1>1
<1>6. ASSUME NEW k \in 1 .. n, NEW m \in 1 .. n, k < m
      PROVE  InOrder(S)[k] < InOrder(S)[m]
  <2> DEFINE i == InOrder(S)[k]
             j == InOrder(S)[m]
  <2>1. i \in S /\ j \in S /\ RankOf(S, i) = k /\ RankOf(S, j) = m BY <1>3
  <2>2. j < i => RankOf(S, j) < RankOf(S, i) BY <1>1, <2>1
  <2>3. i # j BY <2>1, <1>6
  <2>4. i \in Nat /\ j \in Nat BY <2>1
  <2> HIDE DEF i, j
  <2>5. i < j BY <2>1, <2>2, <2>3, <2>4, <1>6, <1>1
  <2> QED BY <2>5 DEF i, j
<1>7. ASSUME NEW i \in S
      PROVE  RankOf(S, i) \in 1 .. n /\ InOrder(S)[RankOf(S, i)] = i
  <2>1. RankOf(S, i) \in 1 .. n BY <1>1
  <2>2. InOrder(S)[RankOf(S, i)] \in S /\ RankOf(S, InOrder(S)[RankOf(S, i)]) = RankOf(S, i)
    BY <2>1, <1>3
  <2> QED BY <2>1, <2>2, <1>5
<1> HIDE DEF n
<1>8. QED BY <1>1, <1>4, <1>6, <1>7 DEF n

\* A finite set of numbers has a smallest and a greatest member.
LEMMA EndsOf ==
  ASSUME NEW S \in SUBSET Nat, IsFiniteSet(S), S # {}
  PROVE  \E a, b \in S : \A j \in S : a <= j /\ j <= b
<1> DEFINE n == Cardinality(S)
           s == InOrder(S)
<1>1. /\ s \in Seq(S) /\ Len(s) = n /\ n \in Nat
      /\ \A k, m \in 1 .. n : k < m => s[k] < s[m]
      /\ \A i \in S : RankOf(S, i) \in 1 .. n /\ s[RankOf(S, i)] = i
  BY InOrderIs
<1>2. n # 0 BY FS_EmptySet
<1> HIDE DEF n, s
<1>3. 1 \in 1 .. n /\ n \in 1 .. n /\ s[1] \in S /\ s[n] \in S /\ (\A k \in 1 .. n : s[k] \in Nat)
  <2>1. \A k \in 1 .. n : s[k] \in S BY <1>1, ElementOfSeq
  <2>2. 1 \in 1 .. n /\ n \in 1 .. n BY <1>1, <1>2
  <2> QED BY <2>1, <2>2
<1>4. \A k \in 1 .. n : s[1] <= s[k] /\ s[k] <= s[n] BY <1>1, <1>3
<1>5. \A j \in S : s[1] <= j /\ j <= s[n] BY <1>1, <1>4
<1> QED BY <1>3, <1>5
-----------------------------------------------------------------------------
(* Rows and lines                                                          *)

Records == [h : Nat \ {0}, shown : BOOLEAN, mark : BOOLEAN]
RowSet  == [src : Nat \ {0}, h : Nat \ {0}]
ViewSet == [cur : Nat, anchor : Nat, sel : SUBSET Nat, top : Nat, follow : BOOLEAN,
            sticky : Nat, drag : BOOLEAN, wrap : Wraps, page : Nat]

\* Rows are of different records, in their order.
AreRows(rows) == /\ rows \in Seq(RowSet)
                 /\ \A k, m \in 1 .. Len(rows) : k < m => rows[k].src < rows[m].src

\* The records a view shows.
Visible(rs, f, from) == {i \in 1 .. Len(rs) : i >= from /\ (f => rs[i].shown)}

\* The rows of a set of records, each at the rank of its record.
RowsOf(rows, S) == /\ AreRows(rows)
                   /\ \A k \in 1 .. Len(rows) : rows[k].src \in S
                   /\ \A c \in S : /\ RankOf(S, c) \in 1 .. Len(rows)
                                   /\ rows[RankOf(S, c)].src = c

LEMMA SpaceIs ==
  ASSUME NEW rs \in Seq(Records), NEW S \in SUBSET (1 .. Len(rs))
  PROVE  RowsOf(Space(rs, InOrder(S)), S)
<1> DEFINE n == Cardinality(S)
           s == InOrder(S)
           rows == Space(rs, s)
<1>1. S \in SUBSET Nat /\ IsFiniteSet(S)
  <2>1. Len(rs) \in Nat OBVIOUS
  <2>2. IsFiniteSet(1 .. Len(rs)) BY <2>1, FS_Interval
  <2>3. IsFiniteSet(S) BY <2>2, FS_Subset, Zenon
  <2> QED BY <2>1, <2>3
<1>2. /\ s \in Seq(S) /\ Len(s) = n /\ n \in Nat
      /\ \A k, m \in 1 .. n : k < m => s[k] < s[m]
      /\ \A i \in S : RankOf(S, i) \in 1 .. n /\ s[RankOf(S, i)] = i
  BY <1>1, InOrderIs
<1> HIDE DEF s, n
<1>3. rows = [k \in 1 .. n |-> [src |-> s[k], h |-> rs[s[k]].h]] BY <1>2 DEF Space
<1>4. \A k \in 1 .. n : s[k] \in S /\ s[k] \in 1 .. Len(rs) BY <1>2, ElementOfSeq
<1>5. \A k \in 1 .. n : rows[k] \in RowSet /\ rows[k].src = s[k]
  <2> SUFFICES ASSUME NEW k \in 1 .. n
               PROVE  rows[k] \in RowSet /\ rows[k].src = s[k]
    OBVIOUS
  <2>1. s[k] \in 1 .. Len(rs) /\ s[k] \in Nat \ {0} BY <1>4
  <2>2. rs[s[k]] \in Records BY <2>1, ElementOfSeq
  <2>3. rs[s[k]].h \in Nat \ {0} BY <2>2 DEF Records
  <2> QED BY <1>3, <2>1, <2>3 DEF RowSet
<1>6. rows \in Seq(RowSet) /\ Len(rows) = n BY <1>2, <1>3, <1>5
<1> HIDE DEF rows
<1>7. AreRows(rows) BY <1>2, <1>5, <1>6 DEF AreRows
<1>8. RowsOf(rows, S) BY <1>2, <1>4, <1>5, <1>6, <1>7 DEF RowsOf
<1> QED BY <1>8 DEF rows, s

LEMMA VisibleRows ==
  ASSUME NEW rs \in Seq(Records), NEW f, NEW from
  PROVE  RowsOf(Space(rs, RowsFrom(rs, f, from)), Visible(rs, f, from))
<1>1. Visible(rs, f, from) \in SUBSET (1 .. Len(rs)) BY DEF Visible
<1>2. RowsFrom(rs, f, from) = InOrder(Visible(rs, f, from)) BY DEF RowsFrom, Visible
<1> QED BY <1>1, <1>2, SpaceIs

LEMMA RowTypes ==
  ASSUME NEW rows, AreRows(rows)
  PROVE  /\ Len(rows) \in Nat /\ (rows # <<>> <=> Len(rows) > 0)
         /\ \A k \in 1 .. Len(rows) : /\ rows[k].src \in Nat \ {0} /\ rows[k].h \in Nat \ {0}
                                      /\ rows[k] \in RowSet
<1>1. rows \in Seq(RowSet) BY DEF AreRows
<1>2. \A k \in 1 .. Len(rows) : rows[k] \in RowSet BY <1>1, ElementOfSeq
<1>3. \A r \in RowSet : r.src \in Nat \ {0} /\ r.h \in Nat \ {0} BY DEF RowSet
<1>4. Len(rows) \in Nat /\ (rows # <<>> <=> Len(rows) > 0) BY <1>1, EmptySeq
<1> QED BY <1>2, <1>3, <1>4

LEMMA RowOfIs ==
  ASSUME NEW rows, AreRows(rows), NEW c
  PROVE  /\ \A k \in 1 .. Len(rows) : rows[k].src = c => RowOf(rows, c) = k
         /\ RowOf(rows, c) \in 0 .. Len(rows)
         /\ RowOf(rows, c) > 0 => rows[RowOf(rows, c)].src = c
<1>1. Len(rows) \in Nat /\ (\A k \in 1 .. Len(rows) : rows[k].src \in Nat) BY RowTypes
<1>2. ASSUME NEW k \in 1 .. Len(rows), NEW m \in 1 .. Len(rows), rows[k].src = rows[m].src
      PROVE  k = m
  BY <1>1, <1>2 DEF AreRows
<1>3. CASE \E k \in 1 .. Len(rows) : rows[k].src = c
  <2>1. RowOf(rows, c) = CHOOSE k \in 1 .. Len(rows) : rows[k].src = c BY <1>3 DEF RowOf
  <2>2. RowOf(rows, c) \in 1 .. Len(rows) /\ rows[RowOf(rows, c)].src = c BY <1>3, <2>1
  <2> QED BY <1>1, <1>2, <2>2
<1>4. CASE ~ \E k \in 1 .. Len(rows) : rows[k].src = c BY <1>1, <1>4 DEF RowOf
<1> QED BY <1>3, <1>4

\* A record that is shown has its rank for a row, another has none.
LEMMA RowOfRank ==
  ASSUME NEW rows, NEW S, RowsOf(rows, S), NEW c
  PROVE  RowOf(rows, c) = IF c \in S THEN RankOf(S, c) ELSE 0
<1>1. CASE c \in S BY <1>1, RowOfIs DEF RowsOf
<1>2. CASE c \notin S BY <1>2 DEF RowOf, RowsOf
<1> QED BY <1>1, <1>2

LEMMA LineIs ==
  ASSUME NEW rows, AreRows(rows), NEW v
  PROVE  /\ \A k \in 0 .. Len(rows) + 1 : LineOf(v, rows, k) \in Nat
         /\ \A k, m \in 0 .. Len(rows) + 1 : k <= m => LineOf(v, rows, k) <= LineOf(v, rows, m)
<1> DEFINE Part(j) == {j} \X (1 .. HeightOf(v, rows, j))
           Above(k) == UNION {Part(j) : j \in 1 .. (k - 1)}
<1>1. Len(rows) \in Nat /\ (\A j \in 1 .. Len(rows) : rows[j].h \in Nat) BY RowTypes
<1>2. \A j \in 1 .. Len(rows) : HeightOf(v, rows, j) \in Nat
  BY <1>1, ReadingAssumption DEF HeightOf
<1>3. ASSUME NEW j \in 1 .. Len(rows) PROVE IsFiniteSet(Part(j))
  <2>1. IsFiniteSet({j}) /\ IsFiniteSet(1 .. HeightOf(v, rows, j))
    <3>1. HeightOf(v, rows, j) \in Int /\ 1 \in Int BY <1>2
    <3> QED BY <3>1, FS_Singleton, FS_Interval, Zenon
  <2> QED BY <2>1, FS_Product
<1> HIDE DEF Part
<1>4. ASSUME NEW k \in 0 .. Len(rows) + 1 PROVE IsFiniteSet(Above(k))
  <2> DEFINE J == 1 .. (k - 1)
             F == {Part(j) : j \in J}
             f == [j \in J |-> Part(j)]
  <2>1. IsFiniteSet(J) /\ J \subseteq 1 .. Len(rows)
    <3>1. k - 1 \in Int /\ 1 \in Int /\ J \subseteq 1 .. Len(rows) BY <1>1
    <3> QED BY <3>1, FS_Interval, Zenon
  <2> HIDE DEF J
  <2>2. f \in Surjection(J, F) BY DEF Surjection
  <2>3. IsFiniteSet(F) BY <2>1, <2>2, FS_Surjection
  <2>4. \A T \in F : IsFiniteSet(T) BY <1>3, <2>1
  <2>5. IsFiniteSet(UNION F) BY <2>3, <2>4, FS_UNION
  <2> QED BY <2>5 DEF J
<1>5. \A k : LineOf(v, rows, k) = Cardinality(Above(k)) BY DEF LineOf, Part
<1>6. ASSUME NEW k \in 0 .. Len(rows) + 1, NEW m \in 0 .. Len(rows) + 1, k <= m
      PROVE  Cardinality(Above(k)) <= Cardinality(Above(m))
  <2>1. 1 .. (k - 1) \subseteq 1 .. (m - 1) BY <1>1, <1>6
  <2>2. Above(k) \in SUBSET Above(m) BY <2>1
  <2> QED BY <1>4, <2>2, FS_Subset
<1>7. \A k \in 0 .. Len(rows) + 1 : Cardinality(Above(k)) \in Nat
  BY <1>4, FS_CardinalityType
<1> HIDE DEF Above
<1> QED BY <1>5, <1>6, <1>7

\* The record at a line is one of the rows, and the last of them or one that
\* ends below the line.
LEMMA RecordAtIs ==
  ASSUME NEW rows, AreRows(rows), rows # <<>>, NEW v, NEW line
  PROVE  /\ RecordAt(v, rows, line) \in 1 .. Len(rows)
         /\ \/ RecordAt(v, rows, line) = Len(rows)
            \/ line < LineOf(v, rows, RecordAt(v, rows, line) + 1)
<1> DEFINE below == {k \in 1 .. Len(rows) : line < LineOf(v, rows, k + 1)}
<1>1. Len(rows) \in Nat /\ Len(rows) > 0 BY RowTypes
<1>2. CASE below = {} BY <1>1, <1>2 DEF RecordAt
<1>3. CASE below # {}
  <2>1. below \in SUBSET Nat /\ IsFiniteSet(below)
    <3>1. IsFiniteSet(1 .. Len(rows)) /\ below \in SUBSET (1 .. Len(rows))
      BY <1>1, FS_Interval
    <3> QED BY <3>1, FS_Subset
  <2>2. \E k \in below : \A j \in below : k <= j
    <3> HIDE DEF below
    <3> QED BY <1>3, <2>1, EndsOf
  <2>3. RecordAt(v, rows, line) = CHOOSE k \in below : \A j \in below : k <= j
    BY <1>3 DEF RecordAt
  <2>4. RecordAt(v, rows, line) \in below BY <2>2, <2>3
  <2> QED BY <2>4
<1> QED BY <1>2, <1>3

-----------------------------------------------------------------------------
(* What an operation of the view leaves                                    *)

\* The top and what follows from it are all that changed.
OnlyScrolled(v, w) == /\ w \in ViewSet
                      /\ w.cur = v.cur /\ w.anchor = v.anchor /\ w.sel = v.sel
                      /\ w.sticky = v.sticky /\ w.drag = v.drag
                      /\ w.wrap = v.wrap /\ w.page = v.page

LEMMA SameHeights ==
  ASSUME NEW v, NEW w, NEW rows, w.cur = v.cur, w.wrap = v.wrap
  PROVE  /\ \A k : LineOf(w, rows, k) = LineOf(v, rows, k)
         /\ TotalLines(w, rows) = TotalLines(v, rows)
         /\ w.page = v.page => MaxTop(w, rows) = MaxTop(v, rows)
<1>1. \A k : HeightOf(w, rows, k) = HeightOf(v, rows, k) BY DEF HeightOf
<1>2. \A k : LineOf(w, rows, k) = LineOf(v, rows, k) BY <1>1 DEF LineOf
<1> QED BY <1>2, Zenon DEF TotalLines, MaxTop

LEMMA MaxTopIs ==
  ASSUME NEW rows, AreRows(rows), NEW v, v.page \in Nat
  PROVE  MaxTop(v, rows) \in Nat
<1>1. Len(rows) + 1 \in 0 .. Len(rows) + 1 BY RowTypes
<1>2. TotalLines(v, rows) \in Nat BY <1>1, LineIs DEF TotalLines
<1> QED BY <1>2 DEF MaxTop, Up

LEMMA MovedIs ==
  ASSUME NEW rows, AreRows(rows), NEW v \in ViewSet, NEW to \in Nat, NEW held \in BOOLEAN
  PROVE  /\ OnlyScrolled(v, Moved(v, rows, to, held))
         /\ Moved(v, rows, to, held).top = to
         /\ held => Moved(v, rows, to, held).follow = v.follow
<1>1. PICK f \in BOOLEAN : f = (IF held THEN v.follow ELSE to >= MaxTop(v, rows))
  <2>1. v.follow \in BOOLEAN BY DEF ViewSet
  <2>2. CASE held BY <2>1, <2>2, Zenon
  <2>3. CASE ~held
    <3>1. (to >= MaxTop(v, rows)) \in BOOLEAN
      <4>1. v.page \in Nat BY DEF ViewSet
      <4>2. MaxTop(v, rows) \in Nat BY <4>1, MaxTopIs
      <4> QED BY <4>2
    <3> QED BY <2>3, <3>1, Zenon
  <2> QED BY <2>2, <2>3
<1>2. Moved(v, rows, to, held) = IF to = v.top THEN v ELSE [v EXCEPT !.top = to, !.follow = f]
  BY <1>1 DEF Moved, ViewSet
<1>3. [v EXCEPT !.top = to, !.follow = f] \in ViewSet BY <1>1 DEF ViewSet
<1> QED BY <1>1, <1>2, <1>3 DEF OnlyScrolled, ViewSet

LEMMA SetValueIs ==
  ASSUME NEW rows, AreRows(rows), NEW v \in ViewSet, NEW line \in Nat, NEW held \in BOOLEAN
  PROVE  /\ OnlyScrolled(v, SetValue(v, rows, line, held))
         /\ SetValue(v, rows, line, held).top = Lower(line, MaxTop(v, rows))
         /\ held => SetValue(v, rows, line, held).follow = v.follow
<1>1. v.page \in Nat BY DEF ViewSet
<1>2. Lower(line, MaxTop(v, rows)) \in Nat BY <1>1, MaxTopIs DEF Lower
<1> QED BY <1>2, MovedIs DEF SetValue

LEMMA BarsUpdated ==
  ASSUME NEW rows, AreRows(rows), NEW v \in ViewSet, NEW held \in BOOLEAN
  PROVE  /\ OnlyScrolled(v, UpdateScrollBars(v, rows, held))
         /\ held => UpdateScrollBars(v, rows, held).follow = v.follow
<1>1. v.top \in Nat BY DEF ViewSet
<1> QED BY <1>1, SetValueIs DEF UpdateScrollBars

LEMMA EndShown ==
  ASSUME NEW rows, AreRows(rows), NEW v \in ViewSet
  PROVE  /\ OnlyScrolled(v, ScrollToEnd(v, rows))
         /\ ScrollToEnd(v, rows).top = MaxTop(v, rows)
         /\ ScrollToEnd(v, rows).follow = v.follow
         /\ OnlyScrolled(v, FollowTail(v, rows))
<1>1. v.page \in Nat BY DEF ViewSet
<1>2. MaxTop(v, rows) \in Nat /\ Lower(MaxTop(v, rows), MaxTop(v, rows)) = MaxTop(v, rows)
  BY <1>1, MaxTopIs DEF Lower
<1>3. ASSUME NEW w \in ViewSet
      PROVE  OnlyScrolled(w, ScrollToEnd(w, rows))
  <2>1. MaxTop(w, rows) \in Nat
    <3>1. w.page \in Nat BY DEF ViewSet
    <3> QED BY <3>1, MaxTopIs
  <2> QED BY <2>1, SetValueIs DEF ScrollToEnd
<1>4. /\ ScrollToEnd(v, rows).top = MaxTop(v, rows)
      /\ ScrollToEnd(v, rows).follow = v.follow
  BY <1>2, SetValueIs DEF ScrollToEnd
<1>5. OnlyScrolled(v, [v EXCEPT !.follow = TRUE]) BY DEF OnlyScrolled, ViewSet
<1>6. OnlyScrolled([v EXCEPT !.follow = TRUE], FollowTail(v, rows))
  <2>1. [v EXCEPT !.follow = TRUE] \in ViewSet BY <1>5 DEF OnlyScrolled
  <2> QED BY <2>1, <1>3, Zenon DEF FollowTail
<1>7. OnlyScrolled(v, FollowTail(v, rows)) BY <1>5, <1>6, Zenon DEF OnlyScrolled
<1> QED BY <1>3, <1>4, <1>7

LEMMA MadeVisible ==
  ASSUME NEW rows, AreRows(rows), NEW v \in ViewSet, NEW k \in 1 .. Len(rows)
  PROVE  OnlyScrolled(v, EnsureRecordVisible(v, rows, k))
<1>1. k \in 0 .. Len(rows) + 1 /\ k + 1 \in 0 .. Len(rows) + 1 BY RowTypes
<1>2. LineOf(v, rows, k) \in Nat /\ LineOf(v, rows, k + 1) \in Nat BY <1>1, LineIs
<1>3. Up(LineOf(v, rows, k + 1), v.page) \in Nat BY <1>2 DEF Up, ViewSet
<1>4. OnlyScrolled(v, v) BY DEF OnlyScrolled
<1> QED BY <1>2, <1>3, <1>4, SetValueIs DEF EnsureRecordVisible

LEMMA BoundIs ==
  ASSUME NEW rows, AreRows(rows), rows # <<>>, NEW k \in Nat
  PROVE  Bound(rows, k) \in 1 .. Len(rows) /\ (k \in 1 .. Len(rows) => Bound(rows, k) = k)
<1>1. Len(rows) \in Nat /\ Len(rows) > 0 BY RowTypes
<1> QED BY <1>1 DEF Bound, Higher, Lower

LEMMA SilentlySelected ==
  ASSUME NEW rows, AreRows(rows), rows # <<>>, NEW v \in ViewSet, NEW k \in Nat
  PROVE  LET w == SelectRecordSilently(v, rows, k)
         IN  /\ w \in ViewSet /\ w.cur = Bound(rows, k) /\ w.sticky = v.sticky
             /\ w.wrap = v.wrap /\ w.page = v.page /\ w.top = v.top /\ w.follow = v.follow
<1>1. PICK b \in Nat : b = Bound(rows, k) BY BoundIs
<1>2. SelectRecordSilently(v, rows, k) = [v EXCEPT !.cur = b, !.anchor = b, !.sel = {b}]
  BY <1>1 DEF SelectRecordSilently
<1>3. {b} \in SUBSET Nat BY <1>1
<1> QED BY <1>1, <1>2, <1>3 DEF ViewSet

LEMMA SelectedNow ==
  ASSUME NEW rows, AreRows(rows), rows # <<>>, NEW v \in ViewSet, NEW k \in Nat,
         NEW extend \in BOOLEAN
  PROVE  LET w == SetCurrentRecord(v, rows, k, extend)
         IN  w \in ViewSet /\ w.sticky = 0
<1> DEFINE b == Bound(rows, k)
           w == [v EXCEPT !.sticky = 0]
           s == IF extend /\ v.anchor > 0
                THEN [w EXCEPT !.cur = b, !.sel = SelectRange(rows, v.anchor, b)]
                ELSE SelectRecordSilently(w, rows, b)
<1>1. b \in 1 .. Len(rows) /\ b \in Nat BY BoundIs
<1>2. w \in ViewSet /\ w.sticky = 0 BY DEF ViewSet
<1>3. SelectRange(rows, v.anchor, b) \in SUBSET Nat
  BY <1>1 DEF SelectRange, Lower, Higher, ViewSet
<1>4. s \in ViewSet /\ s.sticky = 0
  <2>1. ASSUME NEW r \in SUBSET Nat
        PROVE  [w EXCEPT !.cur = b, !.sel = r] \in ViewSet
               /\ [w EXCEPT !.cur = b, !.sel = r].sticky = 0
    <3> HIDE DEF b, w
    <3> QED BY <1>1, <1>2 DEF ViewSet
  <2>2. SelectRecordSilently(w, rows, b) \in ViewSet /\ SelectRecordSilently(w, rows, b).sticky = 0
    <3> HIDE DEF b, w
    <3> QED BY <1>1, <1>2, SilentlySelected
  <2> QED BY <1>3, <2>1, <2>2
<1>5. SetCurrentRecord(v, rows, k, extend)
        = EnsureRecordVisible(UpdateScrollBars(s, rows, FALSE), rows, b)
  BY DEF SetCurrentRecord
<1> HIDE DEF s, b
<1>6. UpdateScrollBars(s, rows, FALSE) \in ViewSet /\ UpdateScrollBars(s, rows, FALSE).sticky = 0
  BY <1>4, BarsUpdated DEF OnlyScrolled
<1>7. OnlyScrolled(UpdateScrollBars(s, rows, FALSE),
                   EnsureRecordVisible(UpdateScrollBars(s, rows, FALSE), rows, b))
  BY <1>1, <1>6, MadeVisible
<1> QED BY <1>5, <1>6, <1>7 DEF OnlyScrolled

LEMMA Toggled ==
  ASSUME NEW rows, AreRows(rows), NEW v \in ViewSet, NEW k \in 1 .. Len(rows)
  PROVE  ToggleRecord(v, rows, k) \in ViewSet /\ ToggleRecord(v, rows, k).sticky = 0
<1> DEFINE r == IF k \in v.sel THEN v.sel \ {k} ELSE v.sel \cup {k}
           s == [v EXCEPT !.sticky = 0, !.cur = k, !.anchor = k, !.sel = r]
<1>1. k \in Nat /\ r \in SUBSET Nat BY RowTypes DEF ViewSet
<1>2. ToggleRecord(v, rows, k) = EnsureRecordVisible(UpdateScrollBars(s, rows, FALSE), rows, k)
  BY DEF ToggleRecord, ViewSet
<1> HIDE DEF r
<1>3. s \in ViewSet /\ s.sticky = 0 BY <1>1 DEF ViewSet
<1> HIDE DEF s
<1>4. UpdateScrollBars(s, rows, FALSE) \in ViewSet /\ UpdateScrollBars(s, rows, FALSE).sticky = 0
  BY <1>3, BarsUpdated DEF OnlyScrolled
<1>5. OnlyScrolled(UpdateScrollBars(s, rows, FALSE),
                   EnsureRecordVisible(UpdateScrollBars(s, rows, FALSE), rows, k))
  BY <1>4, MadeVisible
<1> QED BY <1>2, <1>4, <1>5 DEF OnlyScrolled

LEMMA AllSelected ==
  ASSUME NEW rows, AreRows(rows), NEW v \in ViewSet
  PROVE  SelectAllRecords(v, rows) \in ViewSet /\ SelectAllRecords(v, rows).sticky = 0
<1> DEFINE r == 1 .. Len(rows)
           c == IF v.cur = 0 THEN 1 ELSE v.cur
           s == [v EXCEPT !.sticky = 0, !.sel = r, !.anchor = 1, !.cur = c]
<1>1. r \in SUBSET Nat /\ c \in Nat BY RowTypes DEF ViewSet
<1>2. SelectAllRecords(v, rows) = UpdateScrollBars(s, rows, FALSE)
  BY DEF SelectAllRecords, ViewSet
<1> HIDE DEF r, c
<1>3. s \in ViewSet /\ s.sticky = 0 BY <1>1 DEF ViewSet
<1> HIDE DEF s
<1>4. OnlyScrolled(s, UpdateScrollBars(s, rows, FALSE)) BY <1>3, BarsUpdated
<1> QED BY <1>2, <1>3, <1>4 DEF OnlyScrolled

LEMMA RowsHandled ==
  ASSUME NEW rows, AreRows(rows), NEW v \in ViewSet
  PROVE  OnlyScrolled(v, HandleRows(v, rows))
<1>1. OnlyScrolled(v, UpdateScrollBars(v, rows, FALSE)) BY BarsUpdated
<1>2. UpdateScrollBars(v, rows, FALSE) \in ViewSet BY <1>1 DEF OnlyScrolled
<1>3. OnlyScrolled(UpdateScrollBars(v, rows, FALSE), ScrollToEnd(UpdateScrollBars(v, rows, FALSE), rows))
  BY <1>2, EndShown
<1> QED BY <1>1, <1>3, Zenon DEF HandleRows, OnlyScrolled

LEMMA RowsGone ==
  ASSUME NEW rows, AreRows(rows), NEW v \in ViewSet
  PROVE  LET w == HandleRowsRemoved(v, rows)
         IN  w \in ViewSet /\ w.cur = v.cur /\ w.sticky = v.sticky /\ w.sel \subseteq v.sel
<1> DEFINE r == v.sel \cap 1 .. Len(rows)
           u == [v EXCEPT !.sel = r]
<1>1. r \in SUBSET Nat /\ r \subseteq v.sel BY DEF ViewSet
<1>2. HandleRowsRemoved(v, rows) = HandleRows(u, rows) BY DEF HandleRowsRemoved, ViewSet
<1> HIDE DEF r
<1>3. u \in ViewSet /\ u.cur = v.cur /\ u.sticky = v.sticky /\ u.sel = r
  BY <1>1 DEF ViewSet
<1> HIDE DEF u
<1> QED
  <2>1. OnlyScrolled(u, HandleRows(u, rows)) BY <1>3, RowsHandled
  <2> QED BY <1>1, <1>2, <1>3, <2>1, Zenon DEF OnlyScrolled

LEMMA ResetIs ==
  ASSUME NEW rows, AreRows(rows), NEW v \in ViewSet, NEW held \in BOOLEAN
  PROVE  LET w == HandleModelReset(v, rows, held)
         IN  /\ w \in ViewSet /\ w.cur = 0 /\ w.sel = {} /\ w.wrap = v.wrap /\ w.page = v.page
             /\ w.sticky = (IF held THEN v.sticky ELSE 0)
             /\ held => w.follow = v.follow
<1>1. PICK y \in Nat : y = IF held THEN v.sticky ELSE 0 BY DEF ViewSet
<1> DEFINE u == [v EXCEPT !.sticky = y, !.drag = FALSE, !.cur = 0, !.anchor = 0, !.sel = {}]
<1>2. HandleModelReset(v, rows, held) = UpdateScrollBars(u, rows, held)
  BY <1>1 DEF HandleModelReset, ViewSet
<1>3. /\ u \in ViewSet /\ u.cur = 0 /\ u.sel = {} /\ u.wrap = v.wrap /\ u.page = v.page
      /\ u.sticky = y /\ u.follow = v.follow
  BY <1>1 DEF ViewSet
<1> HIDE DEF u
<1>4. /\ OnlyScrolled(u, UpdateScrollBars(u, rows, held))
      /\ held => UpdateScrollBars(u, rows, held).follow = u.follow
  BY <1>3, BarsUpdated
<1> QED BY <1>1, <1>2, <1>3, <1>4, Zenon DEF OnlyScrolled

-----------------------------------------------------------------------------
(* The invariant of the reader's place                                     *)

\* What is copied and what is still to be copied are what was picked.
CopyGoesOn ==
  copy.busy /\ ~copy.void /\ ~narrow =>
    /\ copy.rows \in Seq(1 .. Len(Rows)) /\ copy.got \in Seq(Nat \X Nat)
    /\ copy.got \o Copied(copy.rows) = copy.picked

CopyShape ==
  /\ copy = [busy |-> copy.busy, rows |-> copy.rows, got |-> copy.got,
             picked |-> copy.picked, void |-> copy.void]
  /\ copy.busy \in BOOLEAN /\ copy.void \in BOOLEAN

ReadTypes ==
  /\ recs \in Seq(Records) /\ narrow \in BOOLEAN /\ run \in {"all", "last"}
  /\ view \in ViewSet /\ replaced \in Nat /\ chosen \in 0 .. Len(recs) /\ CopyShape

\* Where a record is remembered, nothing is current.
Alone(v) == v.sticky > 0 => v.cur = 0 /\ v.sel = {}

ReadInv == ReadTypes /\ ChosenIsKept /\ Alone(view) /\ CopyGoesOn /\ CopyIsTheSelection

\* The records with a row.
Listed == Visible(recs, narrow, RunFrom(recs, run))

LEMMA RowsAre ==
  ASSUME ReadTypes
  PROVE  RowsOf(Rows, Listed) /\ AreRows(Rows) /\ Listed \subseteq 1 .. Len(recs)
<1>1. recs \in Seq(Records) BY DEF ReadTypes
<1>2. RowsOf(Rows, Listed) BY <1>1, VisibleRows DEF Rows, SpaceOf, Listed
<1> QED BY <1>2 DEF RowsOf, Listed, Visible

LEMMA TallestIs == Tallest \in Nat
<1>1. Pages \in SUBSET Nat /\ IsFiniteSet(Pages) /\ Pages # {} BY ReadingAssumption
<1>2. \E a, b \in Pages : \A j \in Pages : a <= j /\ j <= b BY <1>1, EndsOf
<1>3. Tallest \in Pages BY <1>2 DEF Tallest
<1> QED BY <1>1, <1>3

LEMMA KindsAre == \A l \in Seq(Kinds) : l \in Seq(Records)
<1>1. Kinds \subseteq Records BY ReadingAssumption DEF Records
<1> QED BY <1>1

LEMMA FirstReading == ReadingInit => ReadInv
<1> SUFFICES ASSUME ReadingInit PROVE ReadInv OBVIOUS
<1>1. recs \in Seq(Records) BY ReadingAssumption, KindsAre DEF ReadingInit
<1>2. AreRows(SpaceOf(recs, FALSE, "all")) BY <1>1, VisibleRows DEF SpaceOf, RowsOf
<1>3. PICK w \in Wraps :
          view = FollowTail([cur |-> 0, anchor |-> 0, sel |-> {}, top |-> 0, follow |-> TRUE,
                             sticky |-> 0, drag |-> FALSE, wrap |-> w, page |-> Tallest],
                            SpaceOf(recs, FALSE, "all"))
  BY DEF ReadingInit
<1> DEFINE v == [cur |-> 0, anchor |-> 0, sel |-> {}, top |-> 0, follow |-> TRUE,
                 sticky |-> 0, drag |-> FALSE, wrap |-> w, page |-> Tallest]
<1>4. v \in ViewSet BY TallestIs DEF ViewSet
<1> HIDE DEF v
<1>5. view \in ViewSet /\ Alone(view)
  <2>1. Alone(v) BY DEF v, Alone
  <2> QED BY <1>2, <1>3, <1>4, <2>1, EndShown DEF v, OnlyScrolled, Alone
<1>6. ReadTypes
  <2>1. CopyShape BY DEF ReadingInit, CopyShape, Idle
  <2>2. chosen \in 0 .. Len(recs) /\ replaced \in Nat BY <1>1 DEF ReadingInit
  <2>3. narrow \in BOOLEAN /\ run \in {"all", "last"} BY DEF ReadingInit
  <2> QED BY <1>1, <1>5, <2>1, <2>2, <2>3 DEF ReadTypes
<1>7. ChosenIsKept /\ CopyGoesOn /\ CopyIsTheSelection
  BY DEF ReadingInit, ChosenIsKept, CopyGoesOn, Idle, CopyIsTheSelection
<1> QED BY <1>5, <1>6, <1>7 DEF ReadInv

\* The rows and the copy are left alone.
LEMMA CopyRests ==
  ASSUME ReadInv, Rest
  PROVE  CopyGoesOn' /\ CopyIsTheSelection' /\ CopyShape' /\ Rows' = Rows
<1>1. Rows' = Rows BY DEF Rest, Rows
<1>2. \A r : Copied(r)' = Copied(r) BY <1>1 DEF Rest, Copied
<1>3. CopyGoesOn' BY <1>1 DEF Rest, Copied, ReadInv, CopyGoesOn
<1> QED BY <1>1, <1>3 DEF Rest, ReadInv, CopyIsTheSelection, CopyShape, ReadTypes

\* The reader picks a record: the one that is current then.
LEMMA PickKeeps ==
  ASSUME ReadInv, NEW v \in ViewSet, Picks(v), Alone(v)
  PROVE  ReadInv'
<1>1. view' = v /\ chosen' = SourceOf(Rows, v.cur) /\ Rest BY DEF Picks
<1>2. AreRows(Rows) /\ RowsOf(Rows, Listed) /\ Listed \subseteq 1 .. Len(recs)
  BY RowsAre DEF ReadInv
<1>3. chosen' \in 0 .. Len(recs)
  <2>1. \A k \in 1 .. Len(Rows) : Rows[k].src \in 1 .. Len(recs) BY <1>2 DEF RowsOf
  <2>2. Len(recs) \in Nat BY DEF ReadInv, ReadTypes
  <2> QED BY <1>1, <2>1, <2>2 DEF SourceOf
<1>4. /\ CopyGoesOn' /\ CopyIsTheSelection' /\ CopyShape' /\ Rows' = Rows
  BY <1>1, CopyRests
<1>5. ReadTypes' BY <1>1, <1>3, <1>4 DEF ReadInv, ReadTypes, Rest
<1>6. ChosenIsKept'
  <2>1. CASE v.cur \in 1 .. Len(Rows)
    <3>1. RowOf(Rows, chosen') = v.cur BY <1>1, <1>2, <2>1, RowOfIs DEF SourceOf
    <3> QED BY <1>1, <1>4, <2>1, <3>1, RowTypes, <1>2 DEF ChosenIsKept
  <2>2. CASE v.cur \notin 1 .. Len(Rows) BY <1>1, <2>2 DEF ChosenIsKept, SourceOf
  <2> QED BY <2>1, <2>2
<1> QED BY <1>1, <1>4, <1>5, <1>6 DEF ReadInv

\* The reader looks elsewhere.
LEMMA LookKeeps ==
  ASSUME ReadInv, Stays, view' \in ViewSet,
         view'.cur = view.cur, view'.sticky = view.sticky, view'.sel = view.sel
  PROVE  ReadInv'
<1>1. CopyGoesOn' /\ CopyIsTheSelection' /\ CopyShape' /\ Rows' = Rows
  BY CopyRests DEF Stays
<1>2. ReadTypes' BY <1>1 DEF ReadInv, ReadTypes, Stays, Rest
<1>3. ChosenIsKept' /\ Alone(view') BY <1>1 DEF ReadInv, ChosenIsKept, Alone, Stays
<1> QED BY <1>1, <1>2, <1>3 DEF ReadInv

-----------------------------------------------------------------------------
(* The reader's own steps                                                  *)

LEMMA PressKeeps ==
  ASSUME ReadInv, NEW y \in 0 .. Tallest, NEW how \in {"plain", "shift", "ctrl"}, Press(y, how)
  PROVE  ReadInv'
<1> DEFINE k == Under(view, y)
           v == IF how = "ctrl" THEN ToggleRecord(view, Rows, k)
                ELSE [SetCurrentRecord(view, Rows, k, how = "shift") EXCEPT !.drag = TRUE]
<1>1. AreRows(Rows) /\ Rows # <<>> /\ view \in ViewSet /\ Picks(v)
  BY RowsAre DEF ReadInv, ReadTypes, Press
<1>2. k \in 1 .. Len(Rows) /\ k \in Nat BY <1>1, RecordAtIs DEF Under
<1> HIDE DEF k
<1>3. ToggleRecord(view, Rows, k) \in ViewSet /\ ToggleRecord(view, Rows, k).sticky = 0
  BY <1>1, <1>2, Toggled
<1>4. (how = "shift") \in BOOLEAN OBVIOUS
<1>5. SetCurrentRecord(view, Rows, k, how = "shift") \in ViewSet
      /\ SetCurrentRecord(view, Rows, k, how = "shift").sticky = 0
  BY <1>1, <1>2, <1>4, SelectedNow
<1>6. \A w \in ViewSet : [w EXCEPT !.drag = TRUE] \in ViewSet
                         /\ [w EXCEPT !.drag = TRUE].sticky = w.sticky
  BY DEF ViewSet
<1>7. v \in ViewSet /\ Alone(v) BY <1>3, <1>5, <1>6 DEF Alone
<1> HIDE DEF v
<1> QED BY <1>1, <1>7, PickKeeps

LEMMA ExtendIs ==
  ASSUME ReadInv, Rows # <<>>, NEW v \in ViewSet, NEW y, Alone(v)
  PROVE  ExtendDragTo(v, y) \in ViewSet /\ Alone(ExtendDragTo(v, y))
<1>1. AreRows(Rows) BY RowsAre DEF ReadInv
<1>2. Under(v, y) \in 1 .. Len(Rows) /\ Under(v, y) \in Nat BY <1>1, RecordAtIs DEF Under
<1>3. /\ SetCurrentRecord(v, Rows, Under(v, y), TRUE) \in ViewSet
      /\ Alone(SetCurrentRecord(v, Rows, Under(v, y), TRUE))
  <2>1. /\ SetCurrentRecord(v, Rows, Under(v, y), TRUE) \in ViewSet
        /\ SetCurrentRecord(v, Rows, Under(v, y), TRUE).sticky = 0
    BY <1>1, <1>2, SelectedNow
  <2>2. \A w : w.sticky = 0 => Alone(w) BY DEF Alone
  <2> QED BY <2>1, <2>2, Zenon
<1> QED BY <1>3 DEF ExtendDragTo

LEMMA DragKeeps ==
  ASSUME ReadInv, NEW y \in 0 .. Tallest, Drag(y) PROVE ReadInv'
<1>1. Rows # <<>> /\ view \in ViewSet /\ Alone(view) /\ Picks(ExtendDragTo(view, y))
  BY DEF Drag, ReadInv, ReadTypes
<1>2. ExtendDragTo(view, y) \in ViewSet /\ Alone(ExtendDragTo(view, y)) BY <1>1, ExtendIs
<1> QED BY <1>1, <1>2, PickKeeps

LEMMA AutoScrollKeeps ==
  ASSUME ReadInv, NEW down \in BOOLEAN, AutoScroll(down) PROVE ReadInv'
<1> DEFINE line == IF down THEN view.top + 1 ELSE Up(view.top, 1)
           s == SetValue(view, Rows, line, FALSE)
           y == IF down THEN s.page - 1 ELSE 0
<1>1. Rows # <<>> /\ view \in ViewSet /\ Picks(ExtendDragTo(s, y)) /\ AreRows(Rows)
  BY RowsAre DEF AutoScroll, ReadInv, ReadTypes
<1>2. line \in Nat BY <1>1 DEF ViewSet, Up
<1> HIDE DEF line
<1>3. s \in ViewSet /\ Alone(s)
  <2>1. Alone(view) BY DEF ReadInv
  <2>2. OnlyScrolled(view, s) BY <1>1, <1>2, SetValueIs
  <2> HIDE DEF s
  <2> QED BY <2>1, <2>2 DEF OnlyScrolled, Alone
<1> HIDE DEF s, y
<1>4. ExtendDragTo(s, y) \in ViewSet /\ Alone(ExtendDragTo(s, y)) BY <1>1, <1>3, ExtendIs
<1> QED BY <1>1, <1>4, PickKeeps

LEMMA ReleaseKeeps ==
  ASSUME ReadInv, Release PROVE ReadInv'
<1>1. view \in ViewSet /\ view' = [view EXCEPT !.drag = FALSE] /\ Stays
  BY DEF Release, ReadInv, ReadTypes
<1>2. view' \in ViewSet /\ view'.cur = view.cur /\ view'.sticky = view.sticky /\ view'.sel = view.sel
  BY <1>1 DEF ViewSet
<1> QED BY <1>1, <1>2, LookKeeps

LEMMA KeyKeeps ==
  ASSUME ReadInv, NEW shift \in BOOLEAN,
         NEW key \in {"up", "down", "home", "end", "pageup", "pagedown"}, Key(key, shift)
  PROVE  ReadInv'
<1>1. Rows # <<>> /\ view \in ViewSet /\ AreRows(Rows)
      /\ Picks(SetCurrentRecord(view, Rows, KeyTarget(key), shift))
  BY RowsAre DEF Key, ReadInv, ReadTypes
<1>2. KeyTarget(key) \in Nat
  <2> DEFINE cur == IF view.cur = 0 THEN RecordAt(view, Rows, view.top) ELSE view.cur
  <2>1. /\ \A line : RecordAt(view, Rows, line) \in 1 .. Len(Rows)
        /\ Len(Rows) \in Nat
    BY <1>1, RecordAtIs, RowTypes
  <2>2. cur \in Nat BY <1>1, <2>1 DEF ViewSet
  <2>3. \A line : RecordAt(view, Rows, line) \in Nat BY <2>1
  <2> HIDE DEF cur
  <2>4. Up(cur, 1) \in Nat /\ cur + 1 \in Nat BY <2>2 DEF Up
  <2>5. KeyTarget(key) \in {Up(cur, 1), cur + 1, 1, Len(Rows)}
          \cup {RecordAt(view, Rows, line) : line \in
                  {Up(IF cur > Len(Rows) THEN TotalLines(view, Rows) ELSE LineOf(view, Rows, cur),
                      view.page),
                   (IF cur > Len(Rows) THEN TotalLines(view, Rows) ELSE LineOf(view, Rows, cur))
                     + view.page}}
    BY DEF KeyTarget, cur
  <2> QED BY <2>1, <2>3, <2>4, <2>5
<1>3. /\ SetCurrentRecord(view, Rows, KeyTarget(key), shift) \in ViewSet
      /\ Alone(SetCurrentRecord(view, Rows, KeyTarget(key), shift))
  BY <1>1, <1>2, SelectedNow DEF Alone
<1> QED BY <1>1, <1>3, PickKeeps

LEMMA SelectAllKeeps ==
  ASSUME ReadInv, SelectAll PROVE ReadInv'
<1>1. view \in ViewSet /\ AreRows(Rows) /\ Picks(SelectAllRecords(view, Rows))
  BY RowsAre DEF SelectAll, ReadInv, ReadTypes
<1> QED BY <1>1, AllSelected, PickKeeps DEF Alone

LEMMA ScrollKeeps ==
  ASSUME ReadInv, NEW line, Scroll(line) PROVE ReadInv'
<1>1. /\ view \in ViewSet /\ AreRows(Rows) /\ Stays
      /\ line \in Nat /\ view' = SetValue(view, Rows, line, FALSE)
  BY RowsAre DEF Scroll, ReadInv, ReadTypes
<1> QED BY <1>1, SetValueIs, LookKeeps DEF OnlyScrolled

LEMMA FollowKeeps ==
  ASSUME ReadInv, Follow PROVE ReadInv'
<1>1. /\ view \in ViewSet /\ AreRows(Rows) /\ Stays
      /\ view' = FollowTail(view, Rows)
  BY RowsAre DEF Follow, ReadInv, ReadTypes
<1> QED BY <1>1, EndShown, LookKeeps DEF OnlyScrolled

LEMMA ResizeKeeps ==
  ASSUME ReadInv, NEW p \in Pages, Resize(p) PROVE ReadInv'
<1> DEFINE v == [view EXCEPT !.page = p]
<1>1. /\ view \in ViewSet /\ AreRows(Rows) /\ Stays
      /\ view' = UpdateScrollBars(v, Rows, FALSE)
  BY RowsAre DEF Resize, ReadInv, ReadTypes
<1>2. v \in ViewSet /\ v.cur = view.cur /\ v.sticky = view.sticky /\ v.sel = view.sel
  BY <1>1, ReadingAssumption DEF ViewSet
<1> HIDE DEF v
<1> QED BY <1>1, <1>2, BarsUpdated, LookKeeps DEF OnlyScrolled

LEMMA SetWrapModeKeeps ==
  ASSUME ReadInv, NEW w \in Wraps, SetWrapMode(w) PROVE ReadInv'
<1> DEFINE v == [view EXCEPT !.wrap = w]
<1>1. /\ view \in ViewSet /\ AreRows(Rows) /\ Stays
      /\ view' = UpdateScrollBars(v, Rows, FALSE)
  BY RowsAre DEF SetWrapMode, ReadInv, ReadTypes
<1>2. v \in ViewSet /\ v.cur = view.cur /\ v.sticky = view.sticky /\ v.sel = view.sel
  BY <1>1 DEF ViewSet
<1> HIDE DEF v
<1> QED BY <1>1, <1>2, BarsUpdated, LookKeeps DEF OnlyScrolled

LEMMA ZoomKeeps ==
  ASSUME ReadInv, NEW p \in Pages, Zoom(p) PROVE ReadInv'
<1> DEFINE v == [view EXCEPT !.page = p]
           u == UpdateScrollBars(v, Rows, TRUE)
           t == IF Rows = <<>> THEN 0 ELSE RecordAt(view, Rows, view.top)
           into == IF t = 0 THEN 0 ELSE Up(view.top, LineOf(view, Rows, t))
           line == LineOf(u, Rows, t) + Lower(into, HeightOf(u, Rows, t) - 1)
<1>1. /\ view \in ViewSet /\ AreRows(Rows) /\ Stays
      /\ view' = IF u.follow THEN ScrollToEnd(u, Rows)
                 ELSE IF t = 0 THEN u ELSE SetValue(u, Rows, line, TRUE)
  BY RowsAre DEF Zoom, ReadInv, ReadTypes
<1>2. v \in ViewSet /\ v.cur = view.cur /\ v.sticky = view.sticky /\ v.sel = view.sel
  BY <1>1, ReadingAssumption DEF ViewSet
<1> HIDE DEF v
<1>3. OnlyScrolled(v, u) /\ u \in ViewSet BY <1>1, <1>2, BarsUpdated DEF OnlyScrolled
<1> HIDE DEF u
<1>4. CASE u.follow
  <2>1. OnlyScrolled(u, view') BY <1>1, <1>3, <1>4, EndShown
  <2> QED BY <1>1, <1>2, <1>3, <2>1, LookKeeps DEF OnlyScrolled
<1>5. CASE ~u.follow /\ t = 0 BY <1>1, <1>2, <1>3, <1>5, LookKeeps DEF OnlyScrolled
<1>6. CASE ~u.follow /\ t # 0
  <2>1. t \in 1 .. Len(Rows) /\ t \in 0 .. Len(Rows) + 1
    BY <1>1, <1>6, RecordAtIs, RowTypes
  <2> HIDE DEF t
  <2>2. LineOf(view, Rows, t) \in Nat /\ LineOf(u, Rows, t) \in Nat /\ view.top \in Nat
    BY <1>1, <2>1, LineIs DEF ViewSet
  <2>3. into \in Nat BY <2>2 DEF Up
  <2>4. HeightOf(u, Rows, t) \in Nat \ {0}
    BY <1>1, <2>1, RowTypes, ReadingAssumption DEF HeightOf
  <2>5. line \in Nat
    <3> HIDE DEF into
    <3> QED BY <2>2, <2>3, <2>4 DEF Lower
  <2> HIDE DEF line
  <2>6. OnlyScrolled(u, view') BY <1>1, <1>3, <1>6, <2>5, SetValueIs
  <2> QED BY <1>1, <1>2, <1>3, <2>6, LookKeeps DEF OnlyScrolled
<1> QED BY <1>4, <1>5, <1>6

-----------------------------------------------------------------------------
(* A filter edit                                                           *)

Anchors == [topSource : Nat, topOffset : Nat, currentSource : Nat, on : BOOLEAN,
            above : Nat, below : Nat]

\* The first row of a record at or after c, or the row after the last.
LEMMA RowAfterIs ==
  ASSUME NEW rows, AreRows(rows), NEW c \in Nat
  PROVE  /\ RowAtOrAfter(rows, c) \in 1 .. Len(rows) + 1
         /\ \A k \in 1 .. Len(rows) : RowAtOrAfter(rows, c) <= k => rows[k].src >= c
<1> DEFINE B == {k \in 1 .. Len(rows) : rows[k].src < c}
           n == Cardinality(B)
<1>1. Len(rows) \in Nat /\ (\A k \in 1 .. Len(rows) : rows[k].src \in Nat) BY RowTypes
<1>2. IsFiniteSet(1 .. Len(rows)) /\ Cardinality(1 .. Len(rows)) = Len(rows)
  <2>1. 1 \in Int /\ Len(rows) \in Int BY <1>1
  <2>2. Cardinality(1 .. Len(rows)) = IF 1 > Len(rows) THEN 0 ELSE Len(rows) - 1 + 1
    BY <2>1, FS_Interval, Zenon
  <2>3. IsFiniteSet(1 .. Len(rows)) BY <2>1, FS_Interval, Zenon
  <2> QED BY <1>1, <2>2, <2>3
<1>3. IsFiniteSet(B) /\ n \in Nat /\ n <= Len(rows)
  <2>1. B \in SUBSET (1 .. Len(rows)) OBVIOUS
  <2>2. IsFiniteSet(B) /\ n <= Len(rows) BY <1>2, <2>1, FS_Subset, Zenon
  <2> QED BY <2>2, FS_CardinalityType
<1>4. ASSUME NEW k \in 1 .. Len(rows), n + 1 <= k, rows[k].src < c
      PROVE  FALSE
  <2>1. 1 .. k \in SUBSET B
    <3> SUFFICES ASSUME NEW j \in 1 .. k PROVE rows[j].src < c /\ j \in 1 .. Len(rows)
      OBVIOUS
    <3>1. j \in 1 .. Len(rows) /\ (j = k \/ j < k) BY <1>1
    <3>2. j < k => rows[j].src < rows[k].src BY <3>1 DEF AreRows
    <3> QED BY <1>1, <1>4, <3>1, <3>2
  <2>2. Cardinality(1 .. k) = k BY <1>1, FS_Interval
  <2>3. Cardinality(1 .. k) <= n BY <1>3, <2>1, FS_Subset, Zenon
  <2> HIDE DEF n
  <2> QED BY <1>3, <1>4, <2>2, <2>3
<1>5. RowAtOrAfter(rows, c) = n + 1 BY DEF RowAtOrAfter
<1> HIDE DEF n
<1>6. \A k \in 1 .. Len(rows) : n + 1 <= k => rows[k].src >= c BY <1>1, <1>4
<1> QED BY <1>1, <1>3, <1>5, <1>6

LEMMA TargetIs ==
  ASSUME NEW rows, AreRows(rows), NEW v, v.page \in Nat, NEW a \in Anchors,
         NEW k \in 0 .. Len(rows)
  PROVE  Target(v, rows, a, k) \in Nat
<1> DEFINE t == RowAtOrAfter(rows, a.topSource)
<1>1. /\ a.topSource \in Nat /\ a.topOffset \in Nat /\ a.above \in Nat /\ a.below \in Nat
  BY DEF Anchors
<1>2. t \in 1 .. Len(rows) + 1 /\ Len(rows) \in Nat BY <1>1, RowAfterIs, RowTypes
<1> HIDE DEF t
<1>3. \A j \in 0 .. Len(rows) + 1 : LineOf(v, rows, j) \in Nat BY LineIs
<1>4. LineOf(v, rows, t) \in Nat /\ LineOf(v, rows, k) \in Nat /\ MaxTop(v, rows) \in Nat
  BY <1>2, <1>3, MaxTopIs
<1>5. Up(LineOf(v, rows, k) + a.above, a.below) \in Nat BY <1>1, <1>4 DEF Up
<1>6. LineOf(v, rows, t) + (IF rows[t].src = a.topSource THEN a.topOffset ELSE 0) \in Nat
  BY <1>1, <1>4
<1> QED BY <1>4, <1>5, <1>6 DEF Target, t

\* What endFilterUpdate() leaves of a view that was reset.
PutBack(v, rows, a, following, w, wanted, k) ==
  /\ w \in ViewSet /\ w.follow = following /\ w.wrap = v.wrap /\ w.page = v.page
  /\ k > 0 => w.cur = k /\ w.sticky = 0
  /\ k = 0 => w.cur = v.cur /\ w.sel = v.sel /\ w.sticky = wanted
  /\ following => w.top = MaxTop(w, rows)
  /\ ~following => w.top = Lower(Target(w, rows, a, k), MaxTop(w, rows))

LEMMA PutBackIs ==
  ASSUME NEW rows, AreRows(rows), NEW v \in ViewSet, NEW a \in Anchors, NEW following \in BOOLEAN,
         NEW wanted, wanted = (IF a.currentSource > 0 THEN a.currentSource ELSE v.sticky),
         NEW k, k = (IF wanted > 0 THEN RowOf(rows, wanted) ELSE 0)
  PROVE  PutBack(v, rows, a, following, EndFilterUpdate(v, rows, a, following), wanted, k)
<1> DEFINE s == IF k > 0 THEN [SelectRecordSilently(v, rows, k) EXCEPT !.sticky = 0]
                ELSE [v EXCEPT !.sticky = wanted]
           u == UpdateScrollBars(s, rows, TRUE)
           w == IF following THEN ScrollToEnd(u, rows)
                ELSE SetValue(u, rows, Target(u, rows, a, k), TRUE)
           e == [w EXCEPT !.follow = following]
<1>1. EndFilterUpdate(v, rows, a, following) = e BY DEF EndFilterUpdate
<1>2. wanted \in Nat BY DEF ViewSet, Anchors
<1>3. k \in 0 .. Len(rows) /\ k \in Nat BY RowOfIs, RowTypes
<1>4. /\ s \in ViewSet /\ s.wrap = v.wrap /\ s.page = v.page
      /\ k > 0 => s.cur = k /\ s.sticky = 0
      /\ k = 0 => s.cur = v.cur /\ s.sel = v.sel /\ s.sticky = wanted
  <2>1. CASE k > 0
    <3>1. rows # <<>> /\ Bound(rows, k) = k
      <4>1. Len(rows) > 0 /\ k \in 1 .. Len(rows) BY <1>3, <2>1, RowTypes
      <4> QED BY <1>3, <4>1, RowTypes, BoundIs
    <3> DEFINE x == SelectRecordSilently(v, rows, k)
    <3>2. x \in ViewSet /\ x.cur = k /\ x.wrap = v.wrap /\ x.page = v.page
      <4>1. k \in Nat /\ rows # <<>> BY <1>3, <3>1
      <4> QED BY <3>1, <4>1, SilentlySelected
    <3> HIDE DEF x
    <3>3. /\ [x EXCEPT !.sticky = 0] \in ViewSet /\ [x EXCEPT !.sticky = 0].cur = k
          /\ [x EXCEPT !.sticky = 0].sticky = 0
          /\ [x EXCEPT !.sticky = 0].wrap = v.wrap /\ [x EXCEPT !.sticky = 0].page = v.page
      BY <3>2 DEF ViewSet
    <3> QED BY <2>1, <3>3 DEF x
  <2>2. CASE k = 0
    <3>1. s = [v EXCEPT !.sticky = wanted] BY <2>2
    <3> HIDE DEF s
    <3> QED BY <1>2, <2>2, <3>1 DEF ViewSet
  <2> QED BY <1>3, <2>1, <2>2
<1> HIDE DEF s
<1>5. OnlyScrolled(s, u) BY <1>4, BarsUpdated
<1>6. u \in ViewSet /\ u.page \in Nat BY <1>5 DEF OnlyScrolled, ViewSet
<1> HIDE DEF u
<1>7. Target(u, rows, a, k) \in Nat BY <1>3, <1>6, TargetIs
<1>8. /\ OnlyScrolled(u, w)
      /\ following => w.top = MaxTop(u, rows)
      /\ ~following => w.top = Lower(Target(u, rows, a, k), MaxTop(u, rows))
  <2>1. CASE following BY <1>6, <2>1, EndShown
  <2>2. CASE ~following BY <1>6, <1>7, <2>2, SetValueIs
  <2> QED BY <2>1, <2>2
<1> HIDE DEF w
<1>9. OnlyScrolled(w, e) /\ e.top = w.top /\ e.follow = following
  <2>1. w \in ViewSet BY <1>8 DEF OnlyScrolled
  <2> QED BY <2>1 DEF OnlyScrolled, ViewSet
<1> HIDE DEF e
<1>10. e.cur = u.cur /\ e.wrap = u.wrap /\ e.page = u.page
  BY <1>8, <1>9, Zenon DEF OnlyScrolled
<1>11. MaxTop(e, rows) = MaxTop(u, rows) /\ (\A j : LineOf(e, rows, j) = LineOf(u, rows, j))
  BY <1>10, SameHeights
<1>12. Target(e, rows, a, k) = Target(u, rows, a, k) BY <1>11 DEF Target
<1>13. e \in ViewSet /\ e.wrap = v.wrap /\ e.page = v.page
  BY <1>4, <1>5, <1>9, <1>10, Zenon DEF OnlyScrolled
<1>14. /\ k > 0 => e.cur = k /\ e.sticky = 0
       /\ k = 0 => e.cur = v.cur /\ e.sel = v.sel /\ e.sticky = wanted
  BY <1>4, <1>5, <1>8, <1>9, Zenon DEF OnlyScrolled
<1>15. /\ following => e.top = MaxTop(e, rows)
       /\ ~following => e.top = Lower(Target(e, rows, a, k), MaxTop(e, rows))
  BY <1>8, <1>9, <1>11, <1>12, Zenon
<1>16. PutBack(v, rows, a, following, e, wanted, k)
  BY <1>9, <1>13, <1>14, <1>15, Zenon DEF PutBack
<1> QED BY <1>1, <1>16

\* What the window remembers of the place.
LEMMA AnchorIs ==
  ASSUME ReadTypes
  PROVE  /\ FilterAnchor(view, Rows) \in Anchors
         /\ FilterAnchor(view, Rows).currentSource = SourceOf(Rows, view.cur)
<1> DEFINE t == IF Rows = <<>> THEN 0 ELSE RecordAt(view, Rows, view.top)
           c == view.cur \in 1 .. Len(Rows)
<1>1. AreRows(Rows) /\ view \in ViewSet BY RowsAre DEF ReadTypes
<1>2. view.top \in Nat /\ view.cur \in Nat BY <1>1 DEF ViewSet
<1>3. Len(Rows) \in Nat /\ (\A k \in 1 .. Len(Rows) : Rows[k].src \in Nat)
  BY <1>1, RowTypes
<1>4. \A k : SourceOf(Rows, k) \in Nat BY <1>3 DEF SourceOf
<1>5. t \in 0 .. Len(Rows) BY <1>1, <1>3, RecordAtIs
<1>6. \A k \in 0 .. Len(Rows) : LineOf(view, Rows, k) \in Nat BY <1>1, <1>3, LineIs
<1>7. (IF t = 0 THEN 0 ELSE Up(view.top, LineOf(view, Rows, t))) \in Nat
  BY <1>2, <1>5, <1>6 DEF Up
<1>8. /\ (IF c THEN Up(view.top, LineOf(view, Rows, view.cur)) ELSE 0) \in Nat
      /\ (IF c THEN Up(LineOf(view, Rows, view.cur), view.top) ELSE 0) \in Nat
  BY <1>2, <1>3, <1>6 DEF Up
<1>9. (c /\ OnScreen(view, Rows, view.cur)) \in BOOLEAN BY DEF OnScreen
<1> HIDE DEF t
<1>10. FilterAnchor(view, Rows) =
         [topSource |-> SourceOf(Rows, t),
          topOffset |-> IF t = 0 THEN 0 ELSE Up(view.top, LineOf(view, Rows, t)),
          currentSource |-> SourceOf(Rows, view.cur),
          on |-> c /\ OnScreen(view, Rows, view.cur),
          above |-> IF c THEN Up(view.top, LineOf(view, Rows, view.cur)) ELSE 0,
          below |-> IF c THEN Up(LineOf(view, Rows, view.cur), view.top) ELSE 0]
  BY DEF FilterAnchor, t
<1> QED BY <1>4, <1>7, <1>8, <1>9, <1>10 DEF Anchors

LEMMA ApplyFilterKeeps ==
  ASSUME ReadInv, ApplyFilter PROVE ReadInv'
<1> DEFINE rows == SpaceOf(recs, ~narrow, run)
           v == HandleModelReset(view, rows, TRUE)
           a == FilterAnchor(view, Rows)
           w == EndFilterUpdate(v, rows, a, view.follow)
           wanted == IF a.currentSource > 0 THEN a.currentSource ELSE v.sticky
           k == IF wanted > 0 THEN RowOf(rows, wanted) ELSE 0
<1>1. ReadTypes /\ AreRows(Rows) /\ recs \in Seq(Records) /\ view \in ViewSet
  BY RowsAre DEF ReadInv, ReadTypes
<1>2. AreRows(rows) /\ rows = Rows'
  <2>1. rows = Rows' BY DEF ApplyFilter, Rows
  <2>2. AreRows(rows) BY <1>1, VisibleRows DEF SpaceOf, RowsOf
  <2> QED BY <2>1, <2>2
<1>3. view' = w /\ chosen' = chosen /\ recs' = recs /\ run' = run /\ narrow' = ~narrow
      /\ clip' = clip /\ replaced' = replaced
      /\ copy' = [copy EXCEPT !.void = @ \/ copy.busy]
      /\ slipped' = (slipped /\ view.sticky # chosen)
  BY DEF ApplyFilter
<1> HIDE DEF rows
<1>4. v \in ViewSet /\ v.cur = 0 /\ v.sel = {} /\ v.sticky = view.sticky
  BY <1>1, <1>2, ResetIs
<1>5. a \in Anchors /\ a.currentSource = SourceOf(Rows, view.cur) BY <1>1, AnchorIs
<1> HIDE DEF v, a
<1>6. PutBack(v, rows, a, view.follow, w, wanted, k)
  <2>1. view.follow \in BOOLEAN BY <1>1 DEF ViewSet
  <2> QED BY <1>2, <1>4, <1>5, <2>1, PutBackIs
<1> HIDE DEF w
<1>7. PICK b \in BOOLEAN : b = (copy.void \/ copy.busy) OBVIOUS
<1>8. CopyShape' /\ copy'.busy = copy.busy /\ copy'.void = b
  BY <1>1, <1>3, <1>7 DEF ReadTypes, CopyShape
<1>9. ReadTypes'
  <2>1. view' \in ViewSet BY <1>3, <1>6 DEF PutBack
  <2>2. narrow' \in BOOLEAN BY <1>3
  <2> QED BY <1>1, <1>3, <1>8, <2>1, <2>2, Zenon DEF ReadTypes
<1>10. CopyGoesOn' /\ CopyIsTheSelection'
  BY <1>3, <1>7, <1>8, Zenon DEF CopyGoesOn, ReadInv, CopyIsTheSelection
<1>11. ChosenIsKept'
  <2> SUFFICES ASSUME chosen > 0, ~slipped \/ view.sticky = chosen
               PROVE  wanted = chosen
    <3>1. chosen > 0 /\ (~slipped \/ view.sticky = chosen)
            => /\ RowOf(rows, chosen) > 0 => w.cur = RowOf(rows, chosen)
               /\ ~(RowOf(rows, chosen) > 0) => w.sticky = chosen /\ w.cur = 0 /\ w.sel = {}
      <4> SUFFICES ASSUME chosen > 0, wanted = chosen
                   PROVE  /\ RowOf(rows, chosen) > 0 => w.cur = RowOf(rows, chosen)
                          /\ ~(RowOf(rows, chosen) > 0) =>
                                w.sticky = chosen /\ w.cur = 0 /\ w.sel = {}
        OBVIOUS
      <4>1. k = RowOf(rows, chosen) /\ k \in 0 .. Len(rows) /\ k \in Nat
        BY <1>2, RowOfIs, RowTypes
      <4> HIDE DEF k
      <4> QED BY <1>4, <1>6, <4>1 DEF PutBack
    <3> QED BY <1>2, <1>3, <3>1 DEF ChosenIsKept
  <2>0. CASE view.sticky = chosen
    <3>1. view.cur = 0 BY <2>0 DEF ReadInv, Alone
    <3>2. a.currentSource = 0 BY <1>5, <3>1 DEF SourceOf
    <3> QED BY <1>4, <2>0, <3>2
  <2>1. chosen \in Nat BY <1>1 DEF ReadTypes
  <2>2. CASE ~slipped /\ RowOf(Rows, chosen) > 0
    <3>1. view.cur = RowOf(Rows, chosen) /\ view.cur \in 1 .. Len(Rows)
      BY <1>1, <2>2, RowOfIs, RowTypes DEF ReadInv, ChosenIsKept
    <3>2. a.currentSource = chosen BY <1>1, <1>5, <2>2, <3>1, RowOfIs DEF SourceOf
    <3> QED BY <3>2
  <2>3. CASE ~slipped /\ ~(RowOf(Rows, chosen) > 0)
    <3>1. view.sticky = chosen /\ view.cur = 0 BY <2>3 DEF ReadInv, ChosenIsKept
    <3>2. a.currentSource = 0 BY <1>5, <3>1 DEF SourceOf
    <3> QED BY <1>4, <3>1, <3>2
  <2> QED BY <2>0, <2>2, <2>3
<1>12. Alone(view')
  <2>1. k \in Nat BY <1>2, RowOfIs, RowTypes
  <2> HIDE DEF k
  <2> QED BY <1>3, <1>4, <1>6, <2>1 DEF PutBack, Alone
<1> QED BY <1>9, <1>10, <1>11, <1>12 DEF ReadInv

LEMMA SelectRunKeeps ==
  ASSUME ReadInv, SelectRun PROVE ReadInv'
<1> DEFINE rows == SpaceOf(recs, narrow, run')
           u == HandleModelReset(view, rows, FALSE)
           v == SetCurrentRecord(u, rows, Len(rows), FALSE)
<1>1. ReadTypes /\ recs \in Seq(Records) /\ view \in ViewSet BY DEF ReadInv, ReadTypes
<1>2. /\ rows = Rows' /\ AreRows(rows)
      /\ \A k \in 1 .. Len(rows) : rows[k].src \in 1 .. Len(recs)
  <2>1. rows = Rows' BY DEF SelectRun, Rows
  <2>2. RowsOf(rows, Visible(recs, narrow, RunFrom(recs, run')))
    BY <1>1, VisibleRows DEF SpaceOf
  <2> QED BY <2>1, <2>2 DEF RowsOf, Visible
<1>3. /\ view' = FollowTail(v, rows) /\ chosen' = SourceOf(rows, view'.cur)
      /\ recs' = recs /\ narrow' = narrow /\ copy' = copy /\ clip' = clip
      /\ replaced' = replaced /\ ~copy.busy /\ run' \in {"all", "last"}
  BY DEF SelectRun, Gesture
<1> HIDE DEF rows
<1>4. u \in ViewSet /\ u.sticky = 0 BY <1>1, <1>2, ResetIs
<1> HIDE DEF u
<1>5. v \in ViewSet /\ v.sticky = 0
  <2>1. CASE rows = <<>> BY <1>4, <2>1 DEF SetCurrentRecord
  <2>2. CASE rows # <<>> BY <1>2, <1>4, <2>2, RowTypes, SelectedNow
  <2> QED BY <2>1, <2>2
<1> HIDE DEF v
<1>6. view' \in ViewSet /\ Alone(view')
  BY <1>2, <1>3, <1>5, EndShown DEF OnlyScrolled, Alone
<1>7. chosen' \in 0 .. Len(recs)
  <2>1. Len(recs) \in Nat BY <1>1
  <2> QED BY <1>2, <1>3, <2>1 DEF SourceOf
<1>8. ReadTypes' BY <1>1, <1>3, <1>6, <1>7, Zenon DEF ReadTypes, CopyShape
<1>9. CopyGoesOn' /\ CopyIsTheSelection'
  BY <1>3 DEF ReadInv, CopyGoesOn, CopyIsTheSelection
<1>10. ChosenIsKept'
  <2>1. CASE view'.cur \in 1 .. Len(rows)
    <3>1. RowOf(rows, chosen') = view'.cur BY <1>2, <1>3, <2>1, RowOfIs DEF SourceOf
    <3> QED BY <1>2, <2>1, <3>1, RowTypes DEF ChosenIsKept
  <2>2. CASE view'.cur \notin 1 .. Len(rows) BY <1>3, <2>2 DEF ChosenIsKept, SourceOf
  <2> QED BY <2>1, <2>2
<1> QED BY <1>6, <1>8, <1>9, <1>10 DEF ReadInv

LEMMA ReplacedKeeps ==
  ASSUME ReadInv, NEW new \in FirstLogs, Rescan(new) PROVE ReadInv'
<1> DEFINE rows == SpaceOf(new, narrow, run)
           v == HandleModelReset(view, rows, FALSE)
<1>1. ReadTypes /\ view \in ViewSet /\ new \in Seq(Records)
  BY ReadingAssumption, KindsAre DEF ReadInv, ReadTypes
<1>2. AreRows(rows) BY <1>1, VisibleRows DEF SpaceOf, RowsOf
<1>3. /\ view' = (IF v.follow THEN FollowTail(v, rows) ELSE v)
      /\ chosen' = 0 /\ recs' = new /\ run' = run /\ narrow' = narrow
      /\ clip' = clip /\ replaced' = replaced + 1
      /\ copy' = [copy EXCEPT !.void = @ \/ copy.busy]
  BY DEF Rescan
<1> HIDE DEF rows
<1>4. v \in ViewSet /\ v.sticky = 0 BY <1>1, <1>2, ResetIs
<1> HIDE DEF v
<1>5. view' \in ViewSet /\ Alone(view')
  BY <1>2, <1>3, <1>4, EndShown DEF OnlyScrolled, Alone
<1>6. PICK b \in BOOLEAN : b = (copy.void \/ copy.busy) OBVIOUS
<1>7. CopyShape' /\ copy'.busy = copy.busy /\ copy'.void = b
  BY <1>1, <1>3, <1>6 DEF ReadTypes, CopyShape
<1>8. chosen' \in 0 .. Len(recs') /\ replaced' \in Nat BY <1>1, <1>3 DEF ReadTypes
<1>9. ReadTypes' BY <1>1, <1>3, <1>5, <1>7, <1>8, Zenon DEF ReadTypes
<1>10. CopyGoesOn' /\ CopyIsTheSelection'
  BY <1>3, <1>6, <1>7, Zenon DEF CopyGoesOn, ReadInv, CopyIsTheSelection
<1>11. ChosenIsKept' BY <1>3 DEF ChosenIsKept
<1> QED BY <1>5, <1>9, <1>10, <1>11 DEF ReadInv

-----------------------------------------------------------------------------
(* The watch tick                                                          *)

LEMMA GrownIs ==
  ASSUME recs \in Seq(Records), recs # <<>>, NEW last \in Records, NEW new \in Seq(Records)
  PROVE  /\ Grown(last, new) \in Seq(Records)
         /\ Len(Grown(last, new)) = Len(recs) + Len(new)
         /\ \A i \in 1 .. Len(recs) :
               Grown(last, new)[i] = IF i = Len(recs) THEN last ELSE recs[i]
<1> DEFINE m == Len(recs)
           n == Len(recs) + Len(new)
           g == Grown(last, new)
<1>1. m \in Nat /\ n \in Nat /\ Len(new) \in Nat /\ m <= n OBVIOUS
<1>2. g = [k \in 1 .. n |-> IF k < m THEN recs[k] ELSE IF k = m THEN last ELSE new[k - m]]
  BY DEF Grown
<1>3. ASSUME NEW k \in 1 .. n PROVE g[k] \in Records
  <2>1. CASE k < m
    <3>1. k \in 1 .. Len(recs) BY <1>1, <2>1
    <3> QED BY <1>2, <2>1, <3>1, ElementOfSeq
  <2>2. CASE k = m BY <1>1, <1>2, <2>2
  <2>3. CASE k > m
    <3>1. k - m \in 1 .. Len(new) /\ ~(k < m) /\ k # m BY <1>1, <2>3
    <3>2. new[k - m] \in Records BY <3>1, ElementOfSeq
    <3> QED BY <1>2, <3>1, <3>2
  <2> QED BY <1>1, <2>1, <2>2, <2>3
<1>4. g \in Seq(Records) /\ Len(g) = n
  <2> HIDE DEF n
  <2>1. g \in [1 .. n -> Records]
    <3>1. DOMAIN g = 1 .. n /\ g = [k \in 1 .. n |-> g[k]] BY <1>2
    <3> HIDE DEF g
    <3> QED BY <1>3, <3>1
  <2> HIDE DEF g
  <2> QED BY <1>1, <2>1
<1>5. \A i \in 1 .. m : g[i] = IF i = m THEN last ELSE recs[i]
  <2> SUFFICES ASSUME NEW i \in 1 .. m PROVE g[i] = IF i = m THEN last ELSE recs[i]
    OBVIOUS
  <2>1. i \in 1 .. n /\ (i < m \/ i = m) BY <1>1
  <2> HIDE DEF n
  <2> QED BY <1>2, <2>1
<1> QED BY <1>4, <1>5

LEMMA RunFromIs ==
  ASSUME NEW rs \in Seq(Records), NEW r
  PROVE  LET marks == {i \in 1 .. Len(rs) : rs[i].mark}
         IN  /\ r = "all" \/ marks = {} => RunFrom(rs, r) = 1
             /\ ~(r = "all" \/ marks = {}) =>
                  RunFrom(rs, r) \in marks /\ \A j \in marks : j <= RunFrom(rs, r)
<1> DEFINE marks == {i \in 1 .. Len(rs) : rs[i].mark}
<1>1. CASE r = "all" \/ marks = {} BY <1>1 DEF RunFrom
<1>2. CASE ~(r = "all" \/ marks = {})
  <2>1. marks \in SUBSET Nat /\ IsFiniteSet(marks)
    <3>1. 1 \in Int /\ Len(rs) \in Int /\ marks \in SUBSET (1 .. Len(rs)) /\ marks \in SUBSET Nat
      OBVIOUS
    <3>2. IsFiniteSet(1 .. Len(rs)) BY <3>1, FS_Interval, Zenon
    <3> HIDE DEF marks
    <3> QED BY <3>1, <3>2, FS_Subset
  <2>2. RunFrom(rs, r) = CHOOSE i \in marks : \A j \in marks : j <= i BY <1>2 DEF RunFrom
  <2>3. \E i \in marks : \A j \in marks : j <= i
    <3> HIDE DEF marks
    <3> QED BY <1>2, <2>1, EndsOf
  <2>4. RunFrom(rs, r) \in marks /\ \A j \in marks : j <= RunFrom(rs, r)
    <3> HIDE DEF marks
    <3> QED BY <2>2, <2>3
  <2> QED BY <1>2, <2>4
<1> QED BY <1>1, <1>2

\* A run that is newer than the one that was the newest begins after the log's end.
LEMMA NewRun ==
  ASSUME recs \in Seq(Records), recs # <<>>, NEW last \in Records, NEW new \in Seq(Records),
         last.mark = recs[Len(recs)].mark, NEW r,
         RunFrom(Grown(last, new), r) # RunFrom(recs, r)
  PROVE  /\ RunFrom(Grown(last, new), r) \in Nat
         /\ Len(recs) < RunFrom(Grown(last, new), r)
         /\ RunFrom(Grown(last, new), r) <= Len(Grown(last, new))
<1> DEFINE rs == Grown(last, new)
           was == {i \in 1 .. Len(recs) : recs[i].mark}
           now == {i \in 1 .. Len(rs) : rs[i].mark}
           x == RunFrom(rs, r)
           y == RunFrom(recs, r)
<1>1. /\ rs \in Seq(Records) /\ Len(rs) = Len(recs) + Len(new)
      /\ \A i \in 1 .. Len(recs) : rs[i] = IF i = Len(recs) THEN last ELSE recs[i]
  BY GrownIs
<1>2. Len(recs) \in Nat /\ Len(new) \in Nat /\ Len(recs) <= Len(rs) BY <1>1
<1>3. \A i \in 1 .. Len(recs) : i \in 1 .. Len(rs) /\ (rs[i].mark <=> recs[i].mark)
  BY <1>1, <1>2
<1>4. /\ r = "all" \/ now = {} => x = 1
      /\ ~(r = "all" \/ now = {}) => x \in now /\ \A j \in now : j <= x
  BY <1>1, RunFromIs
<1>5. /\ r = "all" \/ was = {} => y = 1
      /\ ~(r = "all" \/ was = {}) => y \in was /\ \A j \in was : j <= y
  BY RunFromIs
<1>6. was \subseteq now BY <1>3
<1> HIDE DEF rs, x, y
<1>7. r # "all" /\ now # {} /\ x \in now /\ x \in 1 .. Len(rs) /\ (\A j \in now : j <= x)
  BY <1>4, <1>5, <1>6 DEF x, y, rs
<1>8. ASSUME x <= Len(recs) PROVE FALSE
  <2>1. x \in 1 .. Len(recs) BY <1>2, <1>7, <1>8
  <2>2. x \in was BY <1>3, <1>7, <2>1
  <2>3. y \in was /\ x <= y /\ y <= x /\ y \in 1 .. Len(recs) BY <1>5, <1>6, <1>7, <2>2
  <2>4. x = y BY <2>1, <2>3
  <2> QED BY <2>4 DEF x, y, rs
<1>9. x \in Nat /\ Len(recs) < x /\ x <= Len(rs) BY <1>2, <1>7, <1>8
<1> QED BY <1>9 DEF x, rs

\* The place of the reader is kept but for rows that are gone.
PickStays(v, w) == w \in ViewSet /\ w.cur = v.cur /\ w.sticky = v.sticky /\ w.sel \subseteq v.sel

LEMMA PlainIs ==
  ASSUME ReadTypes, NEW rs \in Seq(Records), NEW changed, NEW new
  PROVE  PickStays(view, IngestedPlain(rs, changed, new))
<1> DEFINE all == SpaceOf(rs, FALSE, "all")
           v == IF new = <<>> THEN view ELSE HandleRows(view, all)
<1>1. view \in ViewSet BY DEF ReadTypes
<1>2. AreRows(all) BY VisibleRows DEF SpaceOf, RowsOf
<1>3. IngestedPlain(rs, changed, new) = IF changed THEN HandleRows(v, all) ELSE v
  BY DEF IngestedPlain
<1> HIDE DEF all
<1>4. PickStays(view, v) BY <1>1, <1>2, RowsHandled DEF PickStays, OnlyScrolled
<1> HIDE DEF v
<1>5. OnlyScrolled(v, HandleRows(v, all)) BY <1>2, <1>4, RowsHandled DEF PickStays
<1> QED BY <1>3, <1>4, <1>5 DEF PickStays, OnlyScrolled

LEMMA FilteredIs ==
  ASSUME ReadTypes, NEW rs \in Seq(Records), Len(recs) <= Len(rs), NEW changed, NEW from
  PROVE  PickStays(view, IngestedFiltered(rs, changed, from))
<1> DEFINE base == Len(recs)
           rows == Space(rs, RowsFrom(rs, narrow, from))
           pop  == changed /\ Rows # <<>> /\ Rows[Len(Rows)].src = base
           left == {Rows[k].src : k \in 1 .. Len(Rows)} \ (IF pop THEN {base} ELSE {})
           still == Space(rs, InOrder(left))
           v == IF pop THEN HandleRowsRemoved(view, still) ELSE view
<1>1. view \in ViewSet /\ recs \in Seq(Records) BY DEF ReadTypes
<1>2. AreRows(rows) BY VisibleRows DEF RowsOf
<1>3. AreRows(still)
  <2>1. \A k \in 1 .. Len(Rows) : Rows[k].src \in 1 .. Len(recs) BY RowsAre DEF RowsOf
  <2>2. 1 .. Len(recs) \subseteq 1 .. Len(rs) BY <1>1
  <2>3. left \in SUBSET (1 .. Len(rs)) BY <2>1, <2>2
  <2> HIDE DEF left
  <2> QED BY <2>3, SpaceIs DEF RowsOf
<1>4. IngestedFiltered(rs, changed, from) = IF Len(rows) > Len(still) THEN HandleRows(v, rows) ELSE v
  BY DEF IngestedFiltered
<1> HIDE DEF rows, still, pop
<1>5. PickStays(view, v) BY <1>1, <1>3, RowsGone DEF PickStays
<1> HIDE DEF v
<1>6. OnlyScrolled(v, HandleRows(v, rows)) BY <1>2, <1>5, RowsHandled DEF PickStays
<1> QED BY <1>4, <1>5, <1>6 DEF PickStays, OnlyScrolled

\* Rows that are not before those of another view of the log are those rows.
LEMMA RankStays ==
  ASSUME NEW S, NEW T, NEW c, \A j : j \in S /\ j <= c <=> j \in T /\ j <= c
  PROVE  RankOf(T, c) = RankOf(S, c)
<1>1. {j \in S : j <= c} = {j \in T : j <= c} OBVIOUS
<1> QED BY <1>1 DEF RankOf

\* Rows that were appended leave those that are being copied.
LEMMA CopyFinds ==
  ASSUME copy.rows \in Seq(1 .. Len(Rows)), copy'.rows = copy.rows, replaced' = replaced,
         Len(Rows) \in Nat, Len(Rows') \in Nat,
         \A k \in 1 .. Len(Rows) : k <= Len(Rows') /\ Rows'[k].src = Rows[k].src
  PROVE  copy'.rows \in Seq(1 .. Len(Rows')) /\ Copied(copy.rows)' = Copied(copy.rows)
<1>1. \A i \in 1 .. Len(copy.rows) : copy.rows[i] \in 1 .. Len(Rows) BY ElementOfSeq
<1>2. 1 .. Len(Rows) \subseteq 1 .. Len(Rows') OBVIOUS
<1>3. copy.rows \in Seq(1 .. Len(Rows')) BY <1>2, SeqMonotonic
<1>4. \A i \in 1 .. Len(copy.rows) : Rows'[copy.rows[i]].src = Rows[copy.rows[i]].src
  BY <1>1
<1>5. Copied(copy.rows)' = [i \in 1 .. Len(copy.rows) |-> <<replaced, Rows'[copy.rows[i]].src>>]
  BY DEF Copied
<1>6. Copied(copy.rows) = [i \in 1 .. Len(copy.rows) |-> <<replaced, Rows[copy.rows[i]].src>>]
  BY DEF Copied
<1> QED BY <1>3, <1>4, <1>5, <1>6

LEMMA IngestKeeps ==
  ASSUME ReadInv, NEW new \in Seq(Records), NEW last \in Records, recs # <<>>,
         last.mark = recs[Len(recs)].mark, Ingest(last, new)
  PROVE  ReadInv'
<1> DEFINE base == Len(recs)
           changed == last # recs[base]
           rs == Grown(last, new)
           from == RunFrom(recs, run)
           moved == run = "last" /\ RunFrom(rs, run) # from
           filtered == narrow \/ (run = "last" /\ \E i \in 1 .. base : recs[i].mark)
           old == IF moved THEN RunFrom(rs, run) ELSE Len(rs) + 1
           v == IF ~filtered THEN IngestedPlain(rs, changed, new)
                ELSE IngestedFiltered(SubSeq(rs, 1, old - 1), changed, from)
           void == copy.void \/ (moved /\ copy.busy)
           hit == narrow /\ chosen = base /\ last.shown # recs[base].shown
<1>1. /\ recs' = rs /\ view' = (IF moved THEN RunMoved(v, rs) ELSE v)
      /\ copy' = [copy EXCEPT !.void = void]
      /\ chosen' = (IF moved THEN 0 ELSE chosen) /\ slipped' = (~moved /\ (slipped \/ hit))
      /\ narrow' = narrow /\ run' = run /\ clip' = clip /\ replaced' = replaced
  <2>1. copy' = [copy EXCEPT !.void = @ \/ (moved /\ copy.busy)] BY DEF Ingest
  <2>2. copy' = [copy EXCEPT !.void = void] BY <2>1
  <2>3. view' = (IF moved THEN RunMoved(v, rs) ELSE v) BY Zenon DEF Ingest
  <2>4. chosen' = (IF moved THEN 0 ELSE chosen) /\ slipped' = (~moved /\ (slipped \/ hit))
    BY Zenon DEF Ingest
  <2>5. /\ recs' = rs /\ narrow' = narrow /\ run' = run /\ clip' = clip /\ replaced' = replaced
    BY DEF Ingest
  <2> QED BY <2>2, <2>3, <2>4, <2>5
<1>2. ReadTypes /\ view \in ViewSet /\ recs \in Seq(Records) /\ base \in Nat /\ chosen \in 0 .. base
  BY DEF ReadInv, ReadTypes
<1>3. /\ rs \in Seq(Records) /\ Len(rs) = base + Len(new) /\ base <= Len(rs) /\ Len(rs) \in Nat
      /\ \A i \in 1 .. base : rs[i] = IF i = base THEN last ELSE recs[i]
  <2>1. Len(new) \in Nat OBVIOUS
  <2>2. /\ rs \in Seq(Records) /\ Len(rs) = base + Len(new)
        /\ \A i \in 1 .. base : rs[i] = IF i = base THEN last ELSE recs[i]
    BY <1>2, GrownIs
  <2> HIDE DEF rs
  <2> QED BY <1>2, <2>1, <2>2
<1>4. PickStays(view, v)
  <2>1. old - 1 \in Nat /\ base <= old - 1 /\ old - 1 <= Len(rs)
    <3>1. CASE moved
      <4>1. RunFrom(rs, run) \in Nat /\ base < RunFrom(rs, run) /\ RunFrom(rs, run) <= Len(rs)
        BY <1>2, <3>1, NewRun
      <4> HIDE DEF rs, moved
      <4> QED BY <1>2, <3>1, <4>1
    <3>2. CASE ~moved
      <4> HIDE DEF rs, moved
      <4> QED BY <1>3, <3>2
    <3> QED BY <3>1, <3>2
  <2> DEFINE cut == SubSeq(rs, 1, old - 1)
  <2> HIDE DEF old
  <2>2. cut \in Seq(Records) /\ Len(recs) <= Len(cut)
    <3> HIDE DEF rs
    <3>1. \A i \in 1 .. old - 1 : rs[i] \in Records BY <1>3, <2>1, ElementOfSeq
    <3>2. 1 \in Int /\ old - 1 \in Int BY <2>1
    <3>3. cut \in Seq(Records) /\ Len(cut) = IF 1 <= old - 1 THEN (old - 1) - 1 + 1 ELSE 0
      BY <3>1, <3>2, SubSeqProperties
    <3> HIDE DEF cut
    <3> QED BY <1>2, <2>1, <3>3
  <2> HIDE DEF cut
  <2>3. PickStays(view, IngestedFiltered(cut, changed, from)) BY <1>2, <2>2, FilteredIs
  <2>4. PickStays(view, IngestedPlain(rs, changed, new)) BY <1>2, <1>3, PlainIs
  <2> QED BY <2>3, <2>4 DEF cut
<1> HIDE DEF v, rs
<1>5. view' \in ViewSet /\ Alone(view')
  <2>1. CASE moved
    <3> DEFINE rows == SpaceOf(rs, narrow, "last")
               u == HandleModelReset(v, rows, FALSE)
    <3>1. AreRows(rows) BY <1>3, VisibleRows DEF SpaceOf, RowsOf
    <3>2. RunMoved(v, rs) = IF u.follow THEN FollowTail(u, rows) ELSE u BY DEF RunMoved
    <3> HIDE DEF rows
    <3>3. u \in ViewSet /\ u.sticky = 0 BY <1>4, <3>1, ResetIs DEF PickStays
    <3> HIDE DEF u
    <3>4. RunMoved(v, rs) \in ViewSet /\ Alone(RunMoved(v, rs))
      BY <3>1, <3>2, <3>3, EndShown DEF OnlyScrolled, Alone
    <3> QED BY <1>1, <2>1, <3>4
  <2>2. CASE ~moved BY <1>1, <1>4, <2>2 DEF PickStays, ReadInv, Alone
  <2> QED BY <2>1, <2>2
<1> HIDE DEF moved, hit
<1>6. PICK b \in BOOLEAN : b = void OBVIOUS
<1> HIDE DEF void
<1>7. CopyShape' /\ copy'.busy = copy.busy /\ copy'.void = b /\ copy'.rows = copy.rows
      /\ copy'.got = copy.got /\ copy'.picked = copy.picked
  BY <1>1, <1>2, <1>6 DEF ReadTypes, CopyShape
<1>8. ReadTypes'
  <2>1. chosen' \in 0 .. Len(recs') BY <1>1, <1>2, <1>3
  <2> QED BY <1>1, <1>2, <1>3, <1>5, <1>7, <2>1, Zenon DEF ReadTypes
<1>9. RowsOf(Rows, Listed) /\ Listed \subseteq 1 .. base /\ RowsOf(Rows', Listed')
      /\ AreRows(Rows) /\ AreRows(Rows')
  <2>1. RowsOf(Rows', Listed') /\ AreRows(Rows')
    <3>1. recs' \in Seq(Records) BY <1>8 DEF ReadTypes
    <3>2. RowsOf(Rows', Listed') BY <3>1, VisibleRows DEF Rows, SpaceOf, Listed
    <3> QED BY <3>2 DEF RowsOf
  <2> QED BY <1>2, <2>1, RowsAre
\* Below the last record nothing has changed, nor at it but for what it passes.
<1>10. ASSUME ~moved, NEW c \in 1 .. base, c = base /\ narrow => (last.shown <=> recs[base].shown)
       PROVE  \A j : j \in Listed /\ j <= c <=> j \in Listed' /\ j <= c
  <2>1. RunFrom(rs, run) = from
    <3>1. CASE run = "last" BY <1>10, <3>1 DEF moved
    <3>2. CASE run = "all" BY <3>2 DEF RunFrom
    <3> QED BY <1>2, <3>1, <3>2 DEF ReadTypes
  <2>2. Listed = {i \in 1 .. base : i >= from /\ (narrow => recs[i].shown)}
    BY DEF Listed, Visible
  <2>3. Listed' = {i \in 1 .. Len(rs) : i >= from /\ (narrow => rs[i].shown)}
    BY <1>1, <2>1 DEF Listed, Visible
  <2>4. \A j \in 1 .. base : j <= c => j \in 1 .. Len(rs) /\ (narrow => (rs[j].shown <=> recs[j].shown))
    <3> SUFFICES ASSUME NEW j \in 1 .. base, j <= c
                 PROVE  j \in 1 .. Len(rs) /\ (narrow => (rs[j].shown <=> recs[j].shown))
      OBVIOUS
    <3>1. j \in 1 .. Len(rs) /\ (j = base => c = base) BY <1>2, <1>3
    <3>2. rs[j] = IF j = base THEN last ELSE recs[j] BY <1>3
    <3> QED BY <1>10, <3>1, <3>2
  <2>5. \A j \in 1 .. Len(rs) : j <= c => j \in 1 .. base BY <1>2, <1>3
  <2> QED BY <2>2, <2>3, <2>4, <2>5
<1>11. ChosenIsKept'
  <2>1. CASE chosen' = 0 \/ slipped' BY <2>1 DEF ChosenIsKept
  <2>2. CASE chosen' # 0 /\ ~slipped'
    <3>0. ~(~moved /\ (slipped \/ hit)) /\ chosen' = (IF moved THEN 0 ELSE chosen)
      BY <1>1, <2>2, Zenon
    <3>1. ~moved /\ ~hit /\ ~slipped /\ chosen' = chosen /\ chosen \in 1 .. base /\ view' = v
      BY <1>1, <1>2, <2>2, <3>0
    <3>2. chosen = base /\ narrow => (last.shown <=> recs[base].shown) BY <3>1 DEF hit
    <3>3. \A j : j \in Listed /\ j <= chosen <=> j \in Listed' /\ j <= chosen
      BY <1>10, <3>1, <3>2
    <3>4. RankOf(Listed', chosen) = RankOf(Listed, chosen) BY <3>3, RankStays
    <3>5. chosen \in Listed <=> chosen \in Listed' BY <1>2, <3>1, <3>3
    <3>6. /\ RowOf(Rows, chosen) = IF chosen \in Listed THEN RankOf(Listed, chosen) ELSE 0
          /\ RowOf(Rows', chosen) = IF chosen \in Listed' THEN RankOf(Listed', chosen) ELSE 0
      BY <1>9, RowOfRank
    <3>7. RowOf(Rows', chosen') = RowOf(Rows, chosen) BY <3>1, <3>4, <3>5, <3>6
    <3> QED BY <1>2, <1>4, <3>1, <3>7 DEF ChosenIsKept, ReadInv, PickStays
  <2> QED BY <2>1, <2>2
<1>12. CopyGoesOn'
  <2> SUFFICES ASSUME copy.busy, ~copy.void, ~narrow, ~moved
               PROVE  CopyGoesOn'
    BY <1>1, <1>6, <1>7 DEF CopyGoesOn, void
  <2>1. /\ copy.rows \in Seq(1 .. Len(Rows)) /\ copy.got \in Seq(Nat \X Nat)
        /\ copy.got \o Copied(copy.rows) = copy.picked
    BY DEF ReadInv, CopyGoesOn
  <2>2. Len(Rows) \in Nat /\ Len(Rows') \in Nat BY <1>9, RowTypes
  <2>3. ASSUME NEW k \in 1 .. Len(Rows)
        PROVE  k <= Len(Rows') /\ Rows'[k].src = Rows[k].src
    <3> DEFINE c == Rows[k].src
    <3>1. c \in Listed /\ c \in 1 .. base /\ c <= c
      <4>1. c \in Listed BY <1>9 DEF RowsOf
      <4>2. c \in 1 .. base BY <1>9, <4>1
      <4> HIDE DEF c
      <4> QED BY <1>2, <4>1, <4>2
    <3>2. RowOf(Rows, c) = k BY <1>9, RowOfIs
    <3>3. RankOf(Listed, c) = k BY <1>9, <3>1, <3>2, RowOfRank
    <3>4. \A j : j \in Listed /\ j <= c <=> j \in Listed' /\ j <= c BY <1>10, <3>1
    <3> HIDE DEF c
    <3>5. RankOf(Listed', c) = k /\ c \in Listed' BY <3>1, <3>3, <3>4, RankStays
    <3>6. k \in 1 .. Len(Rows') /\ Rows'[k].src = c BY <1>9, <3>5 DEF RowsOf
    <3> QED BY <2>2, <3>6 DEF c
  <2>4. copy'.rows \in Seq(1 .. Len(Rows')) /\ Copied(copy.rows)' = Copied(copy.rows)
    BY <1>1, <1>7, <2>1, <2>2, <2>3, CopyFinds
  <2> QED BY <1>7, <2>1, <2>4 DEF CopyGoesOn
<1>13. CopyIsTheSelection' BY <1>1 DEF ReadInv, CopyIsTheSelection
<1> QED BY <1>5, <1>8, <1>11, <1>12, <1>13 DEF ReadInv

-----------------------------------------------------------------------------
(* The copy                                                                *)

LEMMA CopiedRowsAre ==
  ASSUME ReadTypes
  PROVE  CopiedRows(view, Rows) \in Seq(1 .. Len(Rows))
<1> DEFINE picked == view.sel \cap 1 .. Len(Rows)
           S == IF picked = {} THEN {view.cur} \cap 1 .. Len(Rows) ELSE picked
<1>1. Len(Rows) \in Nat BY RowsAre, RowTypes
<1>2. S \in SUBSET (1 .. Len(Rows)) /\ S \in SUBSET Nat BY <1>1
<1>3. IsFiniteSet(1 .. Len(Rows)) BY <1>1, FS_Interval
<1>4. CopiedRows(view, Rows) = InOrder(S) BY DEF CopiedRows
<1> HIDE DEF S
<1>5. IsFiniteSet(S) BY <1>2, <1>3, FS_Subset, Zenon
<1>6. InOrder(S) \in Seq(S) BY <1>2, <1>5, InOrderIs
<1> QED BY <1>2, <1>4, <1>6, SeqMonotonic

LEMMA CopiedIs ==
  ASSUME ReadTypes, NEW r \in Seq(1 .. Len(Rows))
  PROVE  /\ Copied(r) \in Seq(Nat \X Nat) /\ Len(Copied(r)) = Len(r)
         /\ \A i \in 1 .. Len(r) : Copied(r)[i] = <<replaced, Rows[r[i]].src>>
<1>1. \A i \in 1 .. Len(r) : r[i] \in 1 .. Len(Rows) BY ElementOfSeq
<1>2. \A k \in 1 .. Len(Rows) : Rows[k].src \in Nat BY RowsAre, RowTypes
<1>3. replaced \in Nat /\ Len(r) \in Nat BY DEF ReadTypes
<1>4. \A i \in 1 .. Len(r) : <<replaced, Rows[r[i]].src>> \in Nat \X Nat
  BY <1>1, <1>2, <1>3
<1> QED BY <1>3, <1>4 DEF Copied

LEMMA CopyStartKeeps ==
  ASSUME ReadInv, CopyStart PROVE ReadInv'
<1> DEFINE rows == CopiedRows(view, Rows)
<1>1. /\ recs' = recs /\ narrow' = narrow /\ run' = run /\ view' = view
      /\ chosen' = chosen /\ slipped' = slipped
      /\ replaced' = replaced /\ Rows' = Rows
      /\ \/ /\ clip' = [got |-> Copied(rows), picked |-> Copied(rows), plain |-> ~narrow]
            /\ copy' = Idle
         \/ /\ copy' = [busy |-> TRUE, rows |-> rows, got |-> <<>>,
                        picked |-> Copied(rows), void |-> FALSE]
            /\ clip' = clip
  BY DEF CopyStart, Rows
<1>2. ReadTypes /\ rows \in Seq(1 .. Len(Rows)) BY CopiedRowsAre DEF ReadInv
<1>3. Copied(rows) \in Seq(Nat \X Nat) BY <1>2, CopiedIs
<1> HIDE DEF rows
<1>4. <<>> \o Copied(rows) = Copied(rows) /\ <<>> \in Seq(Nat \X Nat)
  BY <1>3, ConcatEmptySeq
<1>5. \A r : Copied(r)' = [k \in 1 .. Len(r') |-> <<replaced', Rows'[r'[k]].src>>]
  BY DEF Copied
<1>6. CASE copy' = Idle /\ clip' = [got |-> Copied(rows), picked |-> Copied(rows), plain |-> ~narrow]
  <2>1. CopyShape' /\ CopyGoesOn' BY <1>6 DEF CopyShape, CopyGoesOn, Idle
  <2>2. CopyIsTheSelection' BY <1>6 DEF CopyIsTheSelection
  <2> QED BY <1>1, <1>2, <2>1, <2>2 DEF ReadInv, ReadTypes, ChosenIsKept
<1>7. CASE /\ copy' = [busy |-> TRUE, rows |-> rows, got |-> <<>>,
                       picked |-> Copied(rows), void |-> FALSE]
           /\ clip' = clip
  <2>1. /\ CopyShape' /\ copy'.rows = rows /\ copy'.got = <<>> /\ copy'.picked = Copied(rows)
    BY <1>7 DEF CopyShape
  <2>2. Copied(copy.rows)' = Copied(rows) BY <1>1, <2>1 DEF Copied
  <2>3. CopyGoesOn' BY <1>1, <1>2, <1>4, <2>1, <2>2 DEF CopyGoesOn
  <2>4. CopyIsTheSelection' BY <1>7 DEF CopyIsTheSelection, ReadInv
  <2> QED BY <1>1, <1>2, <2>1, <2>3, <2>4 DEF ReadInv, ReadTypes, ChosenIsKept
<1> QED BY <1>1, <1>6, <1>7

LEMMA CopyChunkKeeps ==
  ASSUME ReadInv, CopyChunk PROVE ReadInv'
<1> DEFINE n == Lower(Chunk, Len(copy.rows))
           chunk == SubSeq(copy.rows, 1, n)
           after == SubSeq(copy.rows, n + 1, Len(copy.rows))
           got == copy.got \o Copied(Present(chunk))
<1>1. /\ copy' = [copy EXCEPT !.rows = after, !.got = got]
      /\ recs' = recs /\ narrow' = narrow /\ run' = run /\ view' = view /\ clip' = clip
      /\ chosen' = chosen /\ slipped' = slipped /\ replaced' = replaced /\ Rows' = Rows
      /\ copy.busy /\ ~copy.void
  BY DEF CopyChunk, Rows
<1>2. ReadTypes /\ CopyShape BY DEF ReadInv, ReadTypes
<1> HIDE DEF after, got
<1>3. CopyShape' /\ copy'.rows = after /\ copy'.got = got /\ copy'.picked = copy.picked
      /\ copy'.busy = copy.busy /\ copy'.void = copy.void
  BY <1>1, <1>2 DEF CopyShape
<1>4. ReadTypes' /\ ChosenIsKept' /\ Alone(view') /\ CopyIsTheSelection'
  BY <1>1, <1>2, <1>3 DEF ReadInv, ReadTypes, ChosenIsKept, CopyIsTheSelection
<1>5. CopyGoesOn'
  <2> SUFFICES ASSUME ~narrow
               PROVE  after \in Seq(1 .. Len(Rows)) /\ got \in Seq(Nat \X Nat)
                      /\ got \o Copied(after) = copy.picked
    <3>1. Copied(copy.rows)' = Copied(after) BY <1>1, <1>3 DEF Copied
    <3> QED BY <1>1, <1>3, <3>1 DEF CopyGoesOn
  <2> DEFINE R == 1 .. Len(Rows)
  <2>1. /\ copy.rows \in Seq(R) /\ copy.got \in Seq(Nat \X Nat)
        /\ copy.got \o Copied(copy.rows) = copy.picked
    BY <1>1 DEF ReadInv, CopyGoesOn
  <2>2. Len(copy.rows) \in Nat /\ n \in 0 .. Len(copy.rows) /\ n \in Nat
    BY <2>1, ReadingAssumption DEF Lower
  <2>3. \A i \in 1 .. Len(copy.rows) : copy.rows[i] \in R BY <2>1, ElementOfSeq
  <2>4. chunk \in Seq(R) /\ Len(chunk) = n /\ (\A i \in 1 .. n : chunk[i] = copy.rows[i])
    <3> HIDE DEF n, R
    <3>1. \A i \in 1 .. n : copy.rows[i] \in R BY <2>2, <2>3
    <3>2. 1 \in Int /\ n \in Int BY <2>2
    <3>3. /\ chunk \in Seq(R) /\ Len(chunk) = (IF 1 <= n THEN n - 1 + 1 ELSE 0)
          /\ \A i \in 1 .. n - 1 + 1 : chunk[i] = copy.rows[1 + i - 1]
      BY <3>1, <3>2, SubSeqProperties
    <3> HIDE DEF chunk
    <3> QED BY <2>2, <3>3
  <2>5. after \in Seq(R) /\ Len(after) = Len(copy.rows) - n
        /\ (\A i \in 1 .. Len(copy.rows) - n : after[i] = copy.rows[n + i])
    <3> HIDE DEF n, R
    <3>1. \A i \in n + 1 .. Len(copy.rows) : copy.rows[i] \in R BY <2>2, <2>3
    <3>2. n + 1 \in Int /\ Len(copy.rows) \in Int BY <2>2
    <3>3. /\ after \in Seq(R)
          /\ Len(after) = (IF n + 1 <= Len(copy.rows) THEN Len(copy.rows) - (n + 1) + 1 ELSE 0)
          /\ \A i \in 1 .. Len(copy.rows) - (n + 1) + 1 : after[i] = copy.rows[(n + 1) + i - 1]
      BY <3>1, <3>2, SubSeqProperties DEF after
    <3> QED BY <2>2, <3>3
  <2> HIDE DEF chunk, n
  <2>6. Present(chunk) = chunk
    <3> DEFINE H == {i \in 1 .. Len(chunk) : chunk[i] <= Len(Rows)}
    <3>1. H = 1 .. n BY <2>2, <2>3, <2>4, RowsAre, RowTypes, <1>2
    <3>2. Cardinality(1 .. n) = n BY <2>2, FS_Interval
    <3>3. Present(chunk) = SubSeq(chunk, 1, n) BY <3>1, <3>2 DEF Present
    <3> QED BY <2>4, <3>3, SubSeqFull
  <2> DEFINE C == Nat \X Nat
             whole == Copied(copy.rows)
             first == Copied(chunk)
             others == Copied(after)
  <2>7. /\ whole \in Seq(C) /\ Len(whole) = Len(copy.rows)
        /\ \A i \in 1 .. Len(copy.rows) : whole[i] = <<replaced, Rows[copy.rows[i]].src>>
    BY <1>2, <2>1, CopiedIs
  <2>8. /\ first \in Seq(C) /\ Len(first) = n
        /\ \A i \in 1 .. n : first[i] = <<replaced, Rows[copy.rows[i]].src>>
    BY <1>2, <2>4, CopiedIs
  <2>9. /\ others \in Seq(C) /\ Len(others) = Len(copy.rows) - n
        /\ \A i \in 1 .. Len(copy.rows) - n :
              others[i] = <<replaced, Rows[copy.rows[n + i]].src>>
    BY <1>2, <2>5, CopiedIs
  <2> HIDE DEF whole, first, others, C
  <2>10. first \o others = whole
    <3>1. /\ first \o others \in Seq(C) /\ Len(first \o others) = Len(first) + Len(others)
          /\ \A i \in 1 .. Len(first) + Len(others) : (first \o others)[i] =
                 IF i <= Len(first) THEN first[i] ELSE others[i - Len(first)]
      BY <2>8, <2>9, ConcatProperties
    <3>2. Len(first \o others) = Len(whole) /\ Len(first) + Len(others) = Len(copy.rows)
      BY <2>2, <2>7, <2>8, <2>9, <3>1
    <3>3. \A i \in 1 .. Len(copy.rows) : (first \o others)[i] = whole[i]
      <4> SUFFICES ASSUME NEW i \in 1 .. Len(copy.rows)
                   PROVE  (first \o others)[i] = whole[i]
        OBVIOUS
      <4>1. CASE i <= n
        <5>1. i \in 1 .. n BY <2>2, <4>1
        <5> QED BY <2>7, <2>8, <3>1, <3>2, <4>1, <5>1
      <4>2. CASE ~(i <= n)
        <5>1. i - n \in 1 .. Len(copy.rows) - n /\ n + (i - n) = i BY <2>2, <4>2
        <5> QED BY <2>7, <2>8, <2>9, <3>1, <3>2, <4>2, <5>1
      <4> QED BY <4>1, <4>2
    <3> QED BY <2>7, <3>1, <3>2, <3>3, SeqEqual
  <2>11. got = copy.got \o first BY <2>6 DEF got, first
  <2>12. copy.got \in Seq(C) BY <2>1 DEF C
  <2>13. got \in Seq(C) BY <2>8, <2>11, <2>12, ConcatProperties
  <2>14. got \o others = copy.got \o whole
    <3> DEFINE g == copy.got
    <3>1. g \in Seq(C) /\ first \in Seq(C) /\ others \in Seq(C) BY <2>8, <2>9, <2>12
    <3> HIDE DEF g
    <3>2. (g \o first) \o others = g \o (first \o others)
      <4>1. \A p, q, r \in Seq(C) : (p \o q) \o r = p \o (q \o r) BY ConcatAssociative
      <4> QED BY <3>1, <4>1, Zenon
    <3> QED BY <2>10, <2>11, <3>2 DEF g
  <2> QED BY <2>1, <2>5, <2>13, <2>14 DEF whole, others, C
<1> QED BY <1>4, <1>5 DEF ReadInv

LEMMA CopyEndKeeps ==
  ASSUME ReadInv, CopyEnd PROVE ReadInv'
<1>1. /\ recs' = recs /\ narrow' = narrow /\ run' = run /\ view' = view
      /\ chosen' = chosen /\ slipped' = slipped
      /\ replaced' = replaced /\ Rows' = Rows /\ copy' = Idle /\ copy.busy
      /\ copy.rows = <<>> \/ copy.void
      /\ clip' = IF copy.void THEN clip
                 ELSE [got |-> copy.got, picked |-> copy.picked, plain |-> ~narrow]
  BY DEF CopyEnd, Rows
<1>2. ReadTypes BY DEF ReadInv
<1>3. CopyShape' /\ CopyGoesOn' BY <1>1 DEF CopyShape, CopyGoesOn, Idle
<1>4. CopyIsTheSelection'
  <2>1. CASE copy.void \/ narrow
    <3>1. CASE copy.void BY <1>1, <3>1 DEF ReadInv, CopyIsTheSelection
    <3>2. CASE ~copy.void /\ narrow BY <1>1, <3>2 DEF CopyIsTheSelection
    <3> QED BY <2>1, <3>1, <3>2
  <2>2. CASE ~copy.void /\ ~narrow
    <3>1. /\ copy.rows \in Seq(1 .. Len(Rows)) /\ copy.got \in Seq(Nat \X Nat)
          /\ copy.got \o Copied(copy.rows) = copy.picked /\ copy.rows = <<>>
      BY <1>1, <2>2 DEF ReadInv, CopyGoesOn
    <3>2. Copied(copy.rows) = <<>>
      <4>1. /\ Copied(copy.rows) \in Seq(Nat \X Nat)
            /\ Len(Copied(copy.rows)) = Len(copy.rows) /\ Len(copy.rows) = 0
        BY <1>2, <3>1, CopiedIs
      <4> QED BY <4>1, EmptySeq
    <3>3. copy.got = copy.picked BY <3>1, <3>2, ConcatEmptySeq
    <3> QED BY <1>1, <2>2, <3>3 DEF CopyIsTheSelection
  <2> QED BY <2>1, <2>2
<1> QED BY <1>1, <1>2, <1>3, <1>4 DEF ReadInv, ReadTypes, ChosenIsKept

LEMMA CopyCancelKeeps ==
  ASSUME ReadInv, CopyCancel PROVE ReadInv'
<1>1. /\ recs' = recs /\ narrow' = narrow /\ run' = run /\ view' = view
      /\ chosen' = chosen /\ slipped' = slipped
      /\ replaced' = replaced /\ Rows' = Rows /\ copy' = Idle /\ clip' = clip
  BY DEF CopyCancel, Rows
<1>2. CopyShape' /\ CopyGoesOn' BY <1>1 DEF CopyShape, CopyGoesOn, Idle
<1> QED BY <1>1, <1>2 DEF ReadInv, ReadTypes, ChosenIsKept, CopyIsTheSelection

-----------------------------------------------------------------------------
(* The theorems of the reader's place                                      *)

\* What the log can grow by.
LEMMA GrowthIs ==
  ASSUME ReadInv, recs # <<>>, NEW new \in {<<>>} \cup {<<k>> : k \in Kinds},
         NEW last \in {recs[Len(recs)], Taller(recs[Len(recs)]), Flipped(recs[Len(recs)])}
  PROVE  new \in Seq(Records) /\ last \in Records /\ last.mark = recs[Len(recs)].mark
<1> DEFINE r == recs[Len(recs)]
<1>1. r \in Records
  <2>1. recs \in Seq(Records) /\ Len(recs) \in 1 .. Len(recs) BY DEF ReadInv, ReadTypes
  <2> QED BY <2>1, ElementOfSeq
<1> HIDE DEF r
<1>2. Kinds \subseteq Records BY ReadingAssumption DEF Records
<1>3. new \in Seq(Records)
  <2>1. CASE new = <<>> BY <2>1
  <2>2. ASSUME NEW k \in Kinds, new = <<k>> PROVE new \in Seq(Records)
    <3>1. k \in Records BY <1>2
    <3> QED BY <2>2, <3>1
  <2> QED BY <2>1, <2>2
<1>4. Taller(r) \in Records /\ Taller(r).mark = r.mark BY <1>1 DEF Taller, Records
<1>5. PICK b \in BOOLEAN : b = ~r.shown OBVIOUS
<1>6. Flipped(r) \in Records /\ Flipped(r).mark = r.mark
  <2>1. Flipped(r) = [r EXCEPT !.shown = b] BY <1>5 DEF Flipped
  <2> QED BY <1>1, <2>1 DEF Records
<1>7. last \in Records /\ last.mark = r.mark BY <1>1, <1>4, <1>6 DEF r
<1> QED BY <1>3, <1>7 DEF r

LEMMA ReadStep == ReadInv /\ [ReadingNext]_readingVars => ReadInv'
<1> SUFFICES ASSUME ReadInv, [ReadingNext]_readingVars PROVE ReadInv' OBVIOUS
<1>1. ASSUME NEW y \in 0 .. Tallest, NEW how \in {"plain", "shift", "ctrl"}, Press(y, how)
      PROVE  ReadInv'
  BY <1>1, PressKeeps
<1>2. ASSUME NEW y \in 0 .. Tallest, Drag(y) PROVE ReadInv' BY <1>2, DragKeeps
<1>3. ASSUME NEW down \in BOOLEAN, AutoScroll(down) PROVE ReadInv'
  BY <1>3, AutoScrollKeeps
<1>4. ASSUME NEW key \in {"up", "down", "home", "end", "pageup", "pagedown"},
             NEW shift \in BOOLEAN, Key(key, shift) PROVE ReadInv'
  BY <1>4, KeyKeeps
<1>5. ASSUME NEW p \in Pages, Resize(p) \/ Zoom(p) PROVE ReadInv'
  BY <1>5, ResizeKeeps, ZoomKeeps
<1>6. ASSUME NEW w \in Wraps, SetWrapMode(w) PROVE ReadInv' BY <1>6, SetWrapModeKeeps
<1>7. ASSUME NEW line \in 0 .. TotalLines(view, Rows), Scroll(line) PROVE ReadInv'
  BY <1>7, ScrollKeeps
<1>8. ASSUME NEW new \in FirstLogs, Rescan(new) PROVE ReadInv' BY <1>8, ReplacedKeeps
<1>9. ASSUME NEW new \in {<<>>} \cup {<<k>> : k \in Kinds}, recs # <<>>,
             NEW last \in {recs[Len(recs)], Taller(recs[Len(recs)]), Flipped(recs[Len(recs)])},
             Ingest(last, new) PROVE ReadInv'
  BY <1>9, GrowthIs, IngestKeeps
<1>10. CASE UNCHANGED readingVars
  <2>1. Rows' = Rows BY <1>10 DEF readingVars, Rows
  <2> QED
    BY <1>10, <2>1 DEF readingVars, ReadInv, ReadTypes, CopyShape, ChosenIsKept, CopyGoesOn,
                       CopyIsTheSelection, Copied
<1> QED
  BY <1>1, <1>2, <1>3, <1>4, <1>5, <1>6, <1>7, <1>8, <1>9, <1>10, ReleaseKeeps, SelectAllKeeps,
     FollowKeeps, ApplyFilterKeeps, SelectRunKeeps, CopyStartKeeps, CopyChunkKeeps, CopyEndKeeps,
     CopyCancelKeeps, Zenon DEF ReadingNext

LEMMA ReadHolds == ReadingSpec => []ReadInv
  BY FirstReading, ReadStep, PTL DEF ReadingSpec

\* The record the reader picked stays current until the log is replaced or the view moves
\* on to another run, whatever rows a filter and the growing of the log give it, but where
\* a tick made the last record, that one, pass the filter or fail it (setCurrentRecord,
\* endFilterUpdate, handleModelReset, ingestAppended).
THEOREM ThePickStays == ReadingSpec => []ChosenIsKept
<1>1. ReadInv => ChosenIsKept BY DEF ReadInv
<1> QED BY <1>1, ReadHolds, PTL

\* What a copy puts on the clipboard of an unfiltered view is what was selected when it
\* was asked for, whatever the log does between its chunks (walkSelection).
THEOREM CopiesAreWhole == ReadingSpec => []CopyIsTheSelection
<1>1. ReadInv => CopyIsTheSelection BY DEF ReadInv
<1> QED BY <1>1, ReadHolds, PTL

\* Only the filter pane changes what the filter lets through.
LEMMA OnlyTheFilter ==
  ASSUME ReadingNext PROVE narrow' = narrow \/ ApplyFilter
<1>1. Rest => narrow' = narrow BY DEF Rest
<1> QED
  BY <1>1, Zenon DEF ReadingNext, Press, Drag, AutoScroll, Key, Picks, Stays, Release, SelectAll, Follow,
     SelectRun, Scroll, Resize, Zoom, SetWrapMode, Rescan, Ingest, CopyStart, CopyChunk, CopyEnd,
     CopyCancel

\* What the property says of a step that edits the filter.
StaysInPlace ==
  LET old == view.top
      at  == SourceOf(Rows, view.cur)
      k   == RowOf(Rows', at)
      now == LineOf(view', Rows', k)
      was == LineOf(view, Rows, view.cur)
      end == MaxTop(view', Rows')
  IN /\ view'.follow = view.follow
     /\ view.follow => view'.top = end
     /\ (/\ ~view.follow /\ at > 0 /\ k > 0
         /\ OnScreen(view, Rows, view.cur))
          => view'.top = Lower(end, Up(now + old, was))
     /\ (/\ ~view.follow /\ Rows # <<>> /\ Rows' # <<>>
         /\ ~(view.cur \in 1..Len(Rows) /\ OnScreen(view, Rows, view.cur)))
          => \/ view'.top = end
             \/ Rows'[RecordAt(view', Rows', view'.top)].src
                  >= Rows[RecordAt(view, Rows, old)].src

LEMMA PlaceKept ==
  ASSUME ReadInv, ApplyFilter PROVE StaysInPlace
<1> DEFINE rows == SpaceOf(recs, ~narrow, run)
           v == HandleModelReset(view, rows, TRUE)
           a == FilterAnchor(view, Rows)
           w == EndFilterUpdate(v, rows, a, view.follow)
           wanted == IF a.currentSource > 0 THEN a.currentSource ELSE v.sticky
           kk == IF wanted > 0 THEN RowOf(rows, wanted) ELSE 0
           old == view.top
           at  == SourceOf(Rows, view.cur)
           k   == RowOf(rows, at)
           now == LineOf(w, rows, k)
           was == LineOf(view, Rows, view.cur)
           end == MaxTop(w, rows)
           top == RecordAt(view, Rows, old)
<1>1. ReadTypes /\ AreRows(Rows) /\ recs \in Seq(Records) /\ view \in ViewSet
  BY RowsAre DEF ReadInv, ReadTypes
<1>2. AreRows(rows) /\ rows = Rows' /\ view' = w
  <2>1. rows = Rows' /\ view' = w BY DEF ApplyFilter, Rows
  <2>2. AreRows(rows) BY <1>1, VisibleRows DEF SpaceOf, RowsOf
  <2> QED BY <2>1, <2>2
<1> HIDE DEF rows
<1>3. v \in ViewSet /\ v.cur = 0 /\ v.sticky = view.sticky BY <1>1, <1>2, ResetIs
<1>4. a \in Anchors /\ a.currentSource = SourceOf(Rows, view.cur) BY <1>1, AnchorIs
<1>5. /\ a.on <=> view.cur \in 1 .. Len(Rows) /\ OnScreen(view, Rows, view.cur)
      /\ view.cur \in 1 .. Len(Rows) => a.above = Up(old, was) /\ a.below = Up(was, old)
      /\ Rows # <<>> => /\ a.topSource = SourceOf(Rows, top)
                        /\ top # 0 => a.topOffset = Up(old, LineOf(view, Rows, top))
  BY DEF FilterAnchor
<1> HIDE DEF v, a
<1>6. PutBack(v, rows, a, view.follow, w, wanted, kk)
  <2>1. view.follow \in BOOLEAN BY <1>1 DEF ViewSet
  <2> QED BY <1>2, <1>3, <1>4, <2>1, PutBackIs
<1> HIDE DEF w
<1>7. /\ w \in ViewSet /\ w.follow = view.follow /\ w.page \in Nat /\ old \in Nat
      /\ view.follow => w.top = end
      /\ ~view.follow => w.top = Lower(Target(w, rows, a, kk), end)
  BY <1>1, <1>6 DEF PutBack, ViewSet
<1>8. end \in Nat /\ kk \in 0 .. Len(rows) /\ Len(rows) \in Nat
  BY <1>2, <1>7, MaxTopIs, RowOfIs, RowTypes
<1>9. \A x, y \in Nat : Lower(x, y) = Lower(y, x) BY DEF Lower
<1>10. ASSUME ~view.follow, at > 0, k > 0, OnScreen(view, Rows, view.cur)
       PROVE  w.top = Lower(end, Up(now + old, was))
  <2>1. view.cur \in 1 .. Len(Rows) BY <1>10 DEF SourceOf
  <2>3. wanted = at /\ kk = k BY <1>4, <1>10
  <2>4. k \in 0 .. Len(rows) + 1 /\ view.cur \in 0 .. Len(Rows) + 1
    BY <1>1, <1>8, <2>1, <2>3, RowTypes
  <2>5. now \in Nat /\ was \in Nat BY <1>1, <1>2, <2>4, LineIs
  <2>6. a.on /\ rows # <<>> BY <1>2, <1>5, <1>8, <1>10, <2>1, <2>3, RowTypes
  <2>7. Target(w, rows, a, kk) = Up(now + a.above, a.below)
    BY <1>10, <2>3, <2>6 DEF Target
  <2>8. a.above = Up(old, was) /\ a.below = Up(was, old) BY <1>5, <2>1
  <2> HIDE DEF now, was, old
  <2>9. Up(now + Up(old, was), Up(was, old)) = Up(now + old, was) /\ Up(now + old, was) \in Nat
    BY <1>7, <2>5 DEF Up
  <2> HIDE DEF end
  <2> QED BY <1>7, <1>8, <1>9, <1>10, <2>7, <2>8, <2>9
<1>11. ASSUME ~view.follow, Rows # <<>>, rows # <<>>, ~a.on
       PROVE  w.top = end \/ rows[RecordAt(w, rows, w.top)].src >= Rows[top].src
  <2> DEFINE c == Rows[top].src
             t == RowAtOrAfter(rows, c)
             below == LineOf(w, rows, t)
             off == IF rows[t].src = c THEN a.topOffset ELSE 0
             x == RecordAt(w, rows, w.top)
  <2>1. top \in 1 .. Len(Rows) /\ a.topSource = c /\ c \in Nat \ {0}
    BY <1>1, <1>5, <1>11, RecordAtIs, RowTypes DEF SourceOf
  <2> HIDE DEF top, c
  <2>2. t \in 1 .. Len(rows) + 1 /\ (\A j \in 1 .. Len(rows) : t <= j => rows[j].src >= c)
    BY <1>2, <2>1, RowAfterIs
  <2>3. Target(w, rows, a, kk) = IF t > Len(rows) THEN end ELSE below + off
    BY <1>11, <2>1 DEF Target
  <2> HIDE DEF t
  <2>4. CASE t > Len(rows)
    <3>1. Lower(end, end) = end BY DEF Lower
    <3> QED BY <1>7, <1>11, <2>3, <2>4, <3>1
  <2>5. CASE ~(t > Len(rows))
    <3>1. \A j \in 0 .. Len(rows) + 1 : LineOf(w, rows, j) \in Nat BY <1>2, LineIs
    <3>2. \A i, j \in 0 .. Len(rows) + 1 : i <= j => LineOf(w, rows, i) <= LineOf(w, rows, j)
      BY <1>2, LineIs
    <3>3. below \in Nat /\ off \in Nat /\ below <= below + off
      BY <1>4, <1>8, <2>2, <3>1 DEF Anchors
    <3>4. x \in 1 .. Len(rows) /\ (x = Len(rows) \/ w.top < LineOf(w, rows, x + 1))
      BY <1>2, <1>11, RecordAtIs
    <3> HIDE DEF x, below, off, end
    <3>5. CASE w.top = end BY <3>5 DEF end
    <3>6. CASE w.top # end
      <4>1. w.top = below + off BY <1>7, <1>8, <1>11, <2>3, <2>5, <3>3, <3>6 DEF Lower
      <4>2. t <= x
        <5>1. CASE x = Len(rows) BY <1>8, <2>2, <2>5, <5>1
        <5>2. CASE x # Len(rows) /\ x < t
          <6>1. x + 1 \in 0 .. Len(rows) + 1 /\ t \in 0 .. Len(rows) + 1 /\ x + 1 <= t
            BY <1>8, <2>2, <3>4, <5>2
          <6>2. LineOf(w, rows, x + 1) <= below /\ LineOf(w, rows, x + 1) \in Nat
            BY <3>1, <3>2, <6>1 DEF below
          <6> QED BY <3>3, <3>4, <4>1, <5>2, <6>2
        <5> QED BY <1>8, <2>2, <3>4, <5>1, <5>2
      <4>3. rows[x].src >= c BY <2>2, <3>4, <4>2
      <4> QED BY <4>3 DEF x, c
    <3> QED BY <3>5, <3>6
  <2> QED BY <2>4, <2>5
<1> QED BY <1>2, <1>5, <1>7, <1>10, <1>11 DEF StaysInPlace

\* A filter edit leaves the reader in his place: at the end and following, or detached with
\* the current record at the same height of the window, or with nothing above the old top
\* in sight (beginFilterUpdate, endFilterUpdate).
THEOREM FiltersKeepThePlace == ReadingSpec => PlaceIsKept
<1>1. ReadInv /\ [ReadingNext]_readingVars => [narrow' # narrow => StaysInPlace]_readingVars
  BY OnlyTheFilter, PlaceKept
<1> QED BY <1>1, ReadHolds, PTL DEF ReadingSpec, PlaceIsKept, StaysInPlace

-----------------------------------------------------------------------------
(* The names of a log's subsystems and their ticks                         *)

Criterias == [on : BOOLEAN, names : SUBSET Values, all : BOOLEAN, restricts : BOOLEAN]
AxisEditors == [listed : SUBSET Values, ticked : SUBSET Values, on : BOOLEAN, others : BOOLEAN,
                manual : SUBSET Values, seen : [Values -> {"no", "ticked", "unticked"}],
                memo : Criterias \cup {NoMemo}]
Sayings == [Values -> {"unseen", "shown", "hidden"}]

AxisTypes ==
  /\ table \in [AxisLogs -> Seq(Values)]
  /\ kept \in [AxisLogs -> Criterias]
  /\ filed \in [AxisLogs -> Criterias]
  /\ resolved = [l \in AxisLogs |-> resolved[l]]
  /\ axis \in [log : AxisLogs, e : AxisEditors]
  /\ said \in [AxisLogs -> Sayings]
  /\ rest \in [AxisLogs -> BOOLEAN]
  /\ muddled \in [AxisLogs -> SUBSET Values]

\* A selection still being reproduced lists just what it ticks.
Reproducing(e, D) ==
  e.memo # NoMemo =>
    /\ Narrows(e.memo)
    /\ e.listed = e.memo.names /\ e.manual = e.memo.names
    /\ \A n \in Values \ e.listed : e.seen[n] = "no"
    /\ D # Values => e.ticked = e.listed /\ e.others = ~e.memo.restricts

\* The list of the editor, and what it remembers of names that are off it, is as was
\* shown and said.
ListIsAsSaid(e, S, R, D) ==
  /\ e.ticked \subseteq e.listed
  /\ e.others = R
  /\ \A n \in e.listed : e.seen[n] # "no"
  /\ \A n \in e.listed \ D : S[n] = IF n \in e.ticked THEN "shown" ELSE "hidden"
  /\ \A n \in Values \ (e.listed \cup D) :
       IF e.memo # NoMemo THEN S[n] # "shown"
       ELSE S[n] = CASE e.seen[n] = "ticked" -> "shown" [] e.seen[n] = "unticked" -> "hidden"
                     [] OTHER -> "unseen"

Answered(e, tab, S, R, D) ==
  /\ e \in AxisEditors
  /\ e.listed = ToSet(tab) \cup e.manual
  /\ Reproducing(e, D)
  /\ ListIsAsSaid(e, S, R, D)

\* What is kept of a log the pane has left is enough to answer as was said.
KeptAsSaid(c, S, R, D) ==
  /\ R = ~c.restricts
  /\ \A n \in Values \ D :
       /\ S[n] = "shown" => n \in c.names
       /\ S[n] = "hidden" => Narrows(c) /\ n \notin c.names
       /\ S[n] = "unseen" /\ Narrows(c) => n \notin c.names

AxisInv ==
  /\ AxisTypes
  /\ Answered(axis.e, table[axis.log], said[axis.log], rest[axis.log], muddled[axis.log])
  /\ resolved[axis.log] = Resolve(Criteria(axis.e), table[axis.log])
  /\ axis.e.memo # NoMemo => filed[axis.log] = Reduced(Criteria(axis.e))
  /\ \A l \in AxisLogs : Reduced(filed[l]) = filed[l]
  /\ \A l \in AxisLogs \ {axis.log} : KeptAsSaid(kept[l], said[l], rest[l], muddled[l])
-----------------------------------------------------------------------------
(* What the list holds after it is filled.                                   *)

\* f is e with the names in its list, ticked by a rule of populateList.
Filled(f, e, names, checked, rule) ==
  /\ f \in AxisEditors
  /\ f.listed = names /\ f.ticked \subseteq names
  /\ f.on = e.on /\ f.others = e.others /\ f.manual = e.manual
  /\ f.memo = Settled(e.memo, names)
  /\ \A n \in Values \ names : f.seen[n] = e.seen[n]
  /\ \A n \in f.ticked : f.seen[n] = "ticked"
  /\ rule # "Unstated" => \A n \in names \ f.ticked : f.seen[n] = "unticked"
  /\ rule = "Load" => f.ticked = names \cap checked
  /\ rule = "CoverAll" => f.ticked = names
  /\ rule = "Unstated" => /\ f.ticked = names \cap checked
                          /\ \A n \in names \ f.ticked : f.seen[n] = "no"
  /\ rule = "Discover" =>
       \A n \in names :
         n \in f.ticked <=> \/ n \in checked
                            \/ e.seen[n] = "no" /\ (e.others \/ n \in e.manual)
                            \/ n \notin e.listed /\ e.seen[n] = "ticked"

\* Filling the list keeps the types, and leaves alone what is not of the list.
LEMMA ListIsFilled ==
  ASSUME NEW e \in AxisEditors, NEW names \in SUBSET Values, NEW checked \in SUBSET Values,
         NEW rule
  PROVE  Filled(Populated(e, names, checked, rule), e, names, checked, rule)
<1> DEFINE f == Populated(e, names, checked, rule)
           Found(n) == \/ n \in checked
                       \/ e.seen[n] = "no" /\ (e.others \/ n \in e.manual)
                       \/ ~(e.seen[n] = "no") /\ n \notin e.listed /\ e.seen[n] = "ticked"
           on == CASE rule = "Discover" -> {n \in names : Found(n)}
                   [] rule = "CoverAll" -> names
                   [] OTHER             -> names \cap checked
           seen == [n \in Values |-> IF n \notin names THEN e.seen[n]
                                     ELSE IF n \in on THEN "ticked"
                                     ELSE IF rule = "Unstated" THEN "no" ELSE "unticked"]
           memo == Settled(e.memo, names)
<1>1. f = [e EXCEPT !.listed = names, !.ticked = on, !.memo = memo, !.seen = seen]
  BY DEF Populated
<1>2. on \subseteq names OBVIOUS
<1>3. seen \in [Values -> {"no", "ticked", "unticked"}] BY DEF AxisEditors
<1>4. memo \in Criterias \cup {NoMemo} BY DEF Settled, AxisEditors
<1>5. /\ rule = "Load" => on = names \cap checked
      /\ rule = "CoverAll" => on = names
      /\ rule = "Unstated" => on = names \cap checked
      /\ rule = "Discover" => on = {n \in names : Found(n)}
  OBVIOUS
<1>6. \A n \in Values : seen[n] = IF n \notin names THEN e.seen[n]
                                  ELSE IF n \in on THEN "ticked"
                                  ELSE IF rule = "Unstated" THEN "no" ELSE "unticked"
  OBVIOUS
<1> HIDE DEF on, seen, memo
<1>7. /\ f.listed = names /\ f.ticked = on /\ f.memo = memo /\ f.seen = seen
      /\ f.on = e.on /\ f.others = e.others /\ f.manual = e.manual
  BY <1>1 DEF AxisEditors
<1>8. f \in AxisEditors BY <1>1, <1>2, <1>3, <1>4 DEF AxisEditors
<1> HIDE DEF f
<1>9. \A n \in names : n \in Values OBVIOUS
<1>10. \A n \in Values \ names : f.seen[n] = e.seen[n] BY <1>6, <1>7
<1>11. \A n \in f.ticked : f.seen[n] = "ticked" BY <1>2, <1>6, <1>7
<1>12. rule # "Unstated" => \A n \in names \ f.ticked : f.seen[n] = "unticked"
  BY <1>6, <1>7
<1>13. rule = "Unstated" => \A n \in names \ f.ticked : f.seen[n] = "no" BY <1>6, <1>7
<1>14. rule = "Discover" =>
         \A n \in names : n \in f.ticked <=> \/ n \in checked
                                             \/ e.seen[n] = "no" /\ (e.others \/ n \in e.manual)
                                             \/ n \notin e.listed /\ e.seen[n] = "ticked"
  BY <1>5, <1>7
<1> QED BY <1>2, <1>5, <1>7, <1>8, <1>10, <1>11, <1>12, <1>13, <1>14 DEF f, memo, Filled

\* A refresh that finds no selection to reproduce keeps the ticks of what is listed and
\* ticks a name it finds by what is remembered of it, or as the rest.
LEMMA FreeRefresh ==
  ASSUME NEW e \in AxisEditors, NEW tab, ToSet(tab) \subseteq Values, e.memo = NoMemo
  PROVE  LET f == Refreshed(e, tab)
         IN /\ f \in AxisEditors
            /\ f.listed = ToSet(tab) \cup e.manual /\ f.ticked \subseteq f.listed
            /\ f.on = e.on /\ f.others = e.others /\ f.manual = e.manual /\ f.memo = NoMemo
            /\ \A n \in Values \ f.listed : f.seen[n] = e.seen[n]
            /\ \A n \in f.listed : f.seen[n] = IF n \in f.ticked THEN "ticked" ELSE "unticked"
            /\ \A n \in f.listed :
                 n \in f.ticked <=> \/ n \in e.ticked
                                    \/ e.seen[n] = "no" /\ (e.others \/ n \in e.manual)
                                    \/ n \notin e.listed /\ e.seen[n] = "ticked"
<1> DEFINE names == ToSet(tab) \cup e.manual
           f == Populated(e, names, e.ticked, "Discover")
<1>1. names \in SUBSET Values /\ e.ticked \in SUBSET Values BY DEF AxisEditors
<1>2. Refreshed(e, tab) = f BY DEF Refreshed, Repopulated
<1>3. /\ f \in AxisEditors
      /\ f.listed = names /\ f.ticked \subseteq names
      /\ f.on = e.on /\ f.others = e.others /\ f.manual = e.manual
      /\ f.memo = Settled(e.memo, names)
      /\ \A n \in Values \ names : f.seen[n] = e.seen[n]
      /\ \A n \in f.ticked : f.seen[n] = "ticked"
      /\ \A n \in names \ f.ticked : f.seen[n] = "unticked"
      /\ \A n \in names :
           n \in f.ticked <=> \/ n \in e.ticked
                              \/ e.seen[n] = "no" /\ (e.others \/ n \in e.manual)
                              \/ n \notin e.listed /\ e.seen[n] = "ticked"
  <2> HIDE DEF names
  <2>1. Filled(f, e, names, e.ticked, "Discover") BY <1>1, ListIsFilled
  <2> HIDE DEF f
  <2> QED BY <2>1 DEF Filled
<1>4. Settled(e.memo, names) = NoMemo BY DEF Settled
<1> HIDE DEF f, names
<1>5. /\ \A n \in Values \ f.listed : f.seen[n] = e.seen[n]
      /\ \A n \in f.listed : f.seen[n] = IF n \in f.ticked THEN "ticked" ELSE "unticked"
  BY <1>3
<1> QED BY <1>2, <1>3, <1>4, <1>5 DEF names

\* A refresh while a selection is being reproduced ticks what it names.
LEMMA ArmedRefresh ==
  ASSUME NEW e \in AxisEditors, NEW tab, ToSet(tab) \subseteq Values, e.memo # NoMemo
  PROVE  LET f == Refreshed(e, tab)
         IN /\ f \in AxisEditors
            /\ f.listed = ToSet(tab) \cup e.manual
            /\ f.ticked = f.listed \cap e.memo.names
            /\ f.on = e.on /\ f.others = e.others /\ f.manual = e.manual
            /\ f.memo = IF f.listed \subseteq e.memo.names THEN e.memo ELSE NoMemo
            /\ \A n \in Values \ f.listed : f.seen[n] = e.seen[n]
            /\ \A n \in f.listed : f.seen[n] = IF n \in f.ticked THEN "ticked" ELSE "unticked"
<1> DEFINE names == ToSet(tab) \cup e.manual
           f == Populated(e, names, e.memo.names, "Load")
<1>1. names \in SUBSET Values /\ e.memo.names \in SUBSET Values
  BY DEF AxisEditors, Criterias
<1>2. Refreshed(e, tab) = f BY DEF Refreshed, Repopulated
<1>3. /\ f \in AxisEditors
      /\ f.listed = names /\ f.ticked = names \cap e.memo.names
      /\ f.on = e.on /\ f.others = e.others /\ f.manual = e.manual
      /\ f.memo = Settled(e.memo, names)
      /\ \A n \in Values \ names : f.seen[n] = e.seen[n]
      /\ \A n \in f.ticked : f.seen[n] = "ticked"
      /\ \A n \in names \ f.ticked : f.seen[n] = "unticked"
  <2> HIDE DEF names
  <2>1. Filled(f, e, names, e.memo.names, "Load") BY <1>1, ListIsFilled
  <2> HIDE DEF f
  <2> QED BY <2>1 DEF Filled
<1>4. Settled(e.memo, names) = IF names \subseteq e.memo.names THEN e.memo ELSE NoMemo
  BY DEF Settled
<1> HIDE DEF f, names
<1>5. /\ \A n \in Values \ f.listed : f.seen[n] = e.seen[n]
      /\ \A n \in f.listed : f.seen[n] = IF n \in f.ticked THEN "ticked" ELSE "unticked"
  BY <1>3
<1> QED BY <1>2, <1>3, <1>4, <1>5 DEF names
-----------------------------------------------------------------------------
(* The bound log is scanned.                                                 *)

\* The names a refresh moved against what was said.
Slipped(e, f) == {n \in e.listed \ f.listed : (e.seen[n] = "ticked") # (n \in e.ticked)}

\* What a tick of the log brings is answered as was said (refreshDiscoveredLists).
LEMMA ScanIsAnswered ==
  ASSUME NEW l \in AxisLogs, NEW e, NEW tab, NEW tab0,
         said[l] \in Sayings, rest[l] \in BOOLEAN, muddled[l] \in SUBSET Values,
         ToSet(tab) \subseteq Values,
         Answered(e, tab0, said[l], rest[l], muddled[l])
  PROVE  LET f == Refreshed(e, tab)
         IN /\ Answered(f, tab, Heard(l, said[l], f.listed, e.memo # NoMemo), rest[l],
                        muddled[l] \cup LeftOut(e, f, l) \cup Slipped(e, f))
            /\ f.memo # NoMemo => f.memo = e.memo /\ f.on = e.on
            /\ LeftOut(e, f, l) \in SUBSET Values /\ Slipped(e, f) \in SUBSET Values
<1> DEFINE f == Refreshed(e, tab)
           S == said[l]
           R == rest[l]
           D == muddled[l]
           T == Heard(l, S, f.listed, e.memo # NoMemo)
           C == D \cup LeftOut(e, f, l) \cup Slipped(e, f)
<1>1. /\ e \in AxisEditors /\ Reproducing(e, D) /\ ListIsAsSaid(e, S, R, D)
      /\ e.listed = ToSet(tab0) \cup e.manual
  BY DEF Answered
<1>2. /\ T \in Sayings
      /\ \A n \in Values : T[n] = IF n \notin f.listed \/ S[n] # "unseen" THEN S[n]
                                  ELSE IF R /\ ~(e.memo # NoMemo) THEN "shown" ELSE "hidden"
  BY DEF Heard, Sayings
<1>3. /\ e.listed \subseteq Values /\ e.ticked \subseteq Values /\ e.manual \subseteq Values
      /\ e.others \in BOOLEAN /\ e.seen \in [Values -> {"no", "ticked", "unticked"}]
  BY <1>1 DEF AxisEditors
<1>4. S \in [Values -> {"unseen", "shown", "hidden"}] BY DEF Sayings
<1>5. CASE e.memo = NoMemo
  <2>1. /\ f \in AxisEditors
        /\ f.listed = ToSet(tab) \cup e.manual /\ f.ticked \subseteq f.listed
        /\ f.on = e.on /\ f.others = e.others /\ f.manual = e.manual /\ f.memo = NoMemo
        /\ \A n \in Values \ f.listed : f.seen[n] = e.seen[n]
        /\ \A n \in f.listed : f.seen[n] = IF n \in f.ticked THEN "ticked" ELSE "unticked"
        /\ \A n \in f.listed :
             n \in f.ticked <=> \/ n \in e.ticked
                                \/ e.seen[n] = "no" /\ (e.others \/ n \in e.manual)
                                \/ n \notin e.listed /\ e.seen[n] = "ticked"
    BY <1>1, <1>5, FreeRefresh
  <2>2. f.listed \subseteq Values BY <2>1 DEF AxisEditors
  <2>3. LeftOut(e, f, l) = {} BY <1>5 DEF LeftOut
  <2> HIDE DEF f, T, S, R, D
  <2>4. /\ e.ticked \subseteq e.listed /\ e.others = R
        /\ \A n \in e.listed : e.seen[n] # "no"
        /\ \A n \in e.listed \ D : S[n] = IF n \in e.ticked THEN "shown" ELSE "hidden"
        /\ \A n \in Values \ (e.listed \cup D) :
             S[n] = CASE e.seen[n] = "ticked" -> "shown" [] e.seen[n] = "unticked" -> "hidden"
                      [] OTHER -> "unseen"
    BY <1>1, <1>5 DEF ListIsAsSaid
  <2>5. ASSUME NEW n \in f.listed, n \notin D
        PROVE  T[n] = IF n \in f.ticked THEN "shown" ELSE "hidden"
    <3>1. n \in Values BY <2>2, <2>5
    <3>2. CASE n \in e.listed BY <1>2, <1>5, <2>1, <2>4, <2>5, <3>1, <3>2
    <3>3. CASE n \notin e.listed
      <4>1. n \notin e.manual BY <1>1, <3>3
      <4>2. S[n] = CASE e.seen[n] = "ticked" -> "shown" [] e.seen[n] = "unticked" -> "hidden"
                      [] OTHER -> "unseen"
        BY <2>4, <2>5, <3>1, <3>3
      <4>3. e.seen[n] \in {"no", "ticked", "unticked"} BY <1>3, <3>1
      <4>4. n \in f.ticked <=> (e.seen[n] = "no" /\ R) \/ e.seen[n] = "ticked"
        BY <2>1, <2>4, <2>5, <3>3, <4>1
      <4>5. T[n] = IF S[n] # "unseen" THEN S[n] ELSE IF R THEN "shown" ELSE "hidden"
        BY <1>2, <1>5, <2>5, <3>1
      <4> QED BY <4>2, <4>3, <4>4, <4>5
    <3> QED BY <3>2, <3>3
  <2>6. ASSUME NEW n \in Values, n \notin f.listed, n \notin C
        PROVE  T[n] = CASE f.seen[n] = "ticked" -> "shown" [] f.seen[n] = "unticked" -> "hidden"
                        [] OTHER -> "unseen"
    <3>1. T[n] = S[n] /\ f.seen[n] = e.seen[n] BY <1>2, <2>1, <2>6
    <3>2. e.seen[n] \in {"no", "ticked", "unticked"} BY <1>3
    <3>3. CASE n \in e.listed
      <4>1. (e.seen[n] = "ticked") <=> (n \in e.ticked) BY <2>6, <3>3 DEF Slipped
      <4> QED BY <2>4, <2>6, <3>1, <3>2, <3>3, <4>1
    <3>4. CASE n \notin e.listed BY <2>4, <2>6, <3>1, <3>4
    <3> QED BY <3>3, <3>4
  <2>7. \A n \in f.listed : f.seen[n] # "no" BY <2>1
  <2>8. ListIsAsSaid(f, T, R, C) BY <2>1, <2>4, <2>5, <2>6, <2>7 DEF ListIsAsSaid
  <2>9. Reproducing(f, C) BY <2>1 DEF Reproducing
  <2>10. C \in SUBSET Values /\ LeftOut(e, f, l) \in SUBSET Values /\ Slipped(e, f) \in SUBSET Values
    BY <2>3, <1>3 DEF Slipped, D
  <2> QED BY <2>1, <2>8, <2>9, <2>10 DEF f, T, S, R, D, Answered
<1>6. CASE e.memo # NoMemo
  <2>1. /\ f \in AxisEditors
        /\ f.listed = ToSet(tab) \cup e.manual
        /\ f.ticked = f.listed \cap e.memo.names
        /\ f.on = e.on /\ f.others = e.others /\ f.manual = e.manual
        /\ f.memo = IF f.listed \subseteq e.memo.names THEN e.memo ELSE NoMemo
        /\ \A n \in Values \ f.listed : f.seen[n] = e.seen[n]
        /\ \A n \in f.listed : f.seen[n] = IF n \in f.ticked THEN "ticked" ELSE "unticked"
    BY <1>1, <1>6, ArmedRefresh
  <2>2. f.listed \subseteq Values BY <2>1 DEF AxisEditors
  <2>3. LeftOut(e, f, l) = IF f.memo = NoMemo THEN {n \in Values \ f.listed : S[n] = "hidden"} ELSE {}
    BY <1>6 DEF LeftOut
  <2>4. /\ Narrows(e.memo)
        /\ e.listed = e.memo.names /\ e.manual = e.memo.names
        /\ \A n \in Values \ e.listed : e.seen[n] = "no"
        /\ D # Values => e.ticked = e.listed /\ e.others = ~e.memo.restricts
    BY <1>1, <1>6 DEF Reproducing
  <2>5. /\ e.ticked \subseteq e.listed /\ e.others = R
        /\ \A n \in e.listed \ D : S[n] = IF n \in e.ticked THEN "shown" ELSE "hidden"
        /\ \A n \in Values \ (e.listed \cup D) : S[n] # "shown"
    BY <1>1, <1>6 DEF ListIsAsSaid
  <2>6. LeftOut(e, f, l) \in SUBSET Values /\ Slipped(e, f) \in SUBSET Values
    BY <2>3, <1>3 DEF Slipped
  <2> HIDE DEF f, T, S, R
  <2>7. e.listed \subseteq f.listed /\ f.ticked = e.listed BY <2>1, <2>4
  <2>8. ASSUME NEW n \in f.listed, n \notin D
        PROVE  T[n] = IF n \in f.ticked THEN "shown" ELSE "hidden"
    <3>1. n \in Values /\ D # Values BY <2>2, <2>8
    <3>2. S[n] \in {"unseen", "shown", "hidden"} BY <1>4, <3>1
    <3>3. n \in e.listed => S[n] = "shown" BY <2>4, <2>5, <2>8, <3>1
    <3>4. n \notin e.listed => S[n] # "shown" BY <2>5, <2>8, <3>1
    <3> QED BY <1>2, <1>6, <2>7, <2>8, <3>1, <3>2, <3>3, <3>4
  <2>9. ASSUME NEW n \in Values, n \notin f.listed, n \notin C
        PROVE  /\ f.seen[n] = "no"
               /\ T[n] # "shown"
               /\ f.memo = NoMemo => T[n] = "unseen"
    <3>1. n \notin e.listed /\ n \notin D BY <2>7, <2>9
    <3>2. T[n] = S[n] /\ f.seen[n] = e.seen[n] /\ S[n] \in {"unseen", "shown", "hidden"}
      BY <1>2, <1>4, <2>1, <2>9
    <3>3. S[n] # "shown" /\ e.seen[n] = "no" BY <2>4, <2>5, <3>1
    <3>4. f.memo = NoMemo => S[n] # "hidden" BY <2>3, <2>9
    <3> QED BY <3>2, <3>3, <3>4
  <2>10. \A n \in f.listed : f.seen[n] # "no" BY <2>1
  <2>11. ListIsAsSaid(f, T, R, C) BY <2>1, <2>5, <2>8, <2>9, <2>10 DEF ListIsAsSaid
  <2>12. Reproducing(f, C)
    <3>1. SUFFICES ASSUME f.memo # NoMemo PROVE Reproducing(f, C) BY DEF Reproducing
    <3>2. f.memo = e.memo /\ f.listed = e.listed /\ f.ticked = f.listed
      BY <2>1, <2>4, <2>7, <3>1
    <3>3. C # Values => D # Values BY <2>6 DEF D
    <3>4. \A n \in Values \ f.listed : f.seen[n] = "no" BY <2>1, <2>4, <3>2
    <3> QED BY <2>1, <2>4, <3>2, <3>3, <3>4 DEF Reproducing
  <2> QED BY <2>1, <2>6, <2>11, <2>12 DEF f, T, S, R, Answered
<1> QED BY <1>5, <1>6
-----------------------------------------------------------------------------
(* The reader edits the list.                                                *)

\* What is meant by an edit, as Stroke takes it down.
Meant(e, f, saying) ==
  [n \in Values |-> IF e.memo # NoMemo /\ f.memo = NoMemo /\ n \notin f.listed
                    THEN "unseen" ELSE saying[n]]

\* An edit that ends what was being reproduced and leaves the names in the list.
LEMMA EditIsAnswered ==
  ASSUME NEW e, NEW tab, NEW S \in Sayings, NEW R, NEW D \in SUBSET Values,
         NEW f \in AxisEditors, NEW saying, NEW others, NEW lost \in SUBSET Values,
         Answered(e, tab, S, R, D),
         f.listed = e.listed, f.manual = e.manual, f.memo = NoMemo,
         f.ticked \subseteq f.listed, f.others = others,
         \A n \in Values \ f.listed : f.seen[n] = e.seen[n],
         \A n \in f.listed : f.seen[n] # "no",
         \A n \in f.listed \ lost : saying[n] = IF n \in f.ticked THEN "shown" ELSE "hidden",
         \A n \in Values \ (f.listed \cup lost) :
           e.memo = NoMemo =>
             saying[n] = CASE e.seen[n] = "ticked" -> "shown" [] e.seen[n] = "unticked" -> "hidden"
                           [] OTHER -> "unseen"
  PROVE  Answered(f, tab, Meant(e, f, saying), others, lost)
<1> DEFINE T == Meant(e, f, saying)
<1>1. e \in AxisEditors /\ e.listed = ToSet(tab) \cup e.manual /\ Reproducing(e, D)
  BY DEF Answered
<1>2. f.listed \subseteq Values BY DEF AxisEditors
<1>3. \A n \in Values : T[n] = IF e.memo # NoMemo /\ f.memo = NoMemo /\ n \notin f.listed
                               THEN "unseen" ELSE saying[n]
  BY DEF Meant
<1> HIDE DEF T
<1>4. \A n \in f.listed \ lost : T[n] = IF n \in f.ticked THEN "shown" ELSE "hidden"
  BY <1>2, <1>3
<1>5. ASSUME NEW n \in Values, n \notin f.listed, n \notin lost
      PROVE  T[n] = CASE f.seen[n] = "ticked" -> "shown" [] f.seen[n] = "unticked" -> "hidden"
                      [] OTHER -> "unseen"
  <2>1. f.seen[n] = e.seen[n] BY <1>5
  <2>2. CASE e.memo = NoMemo BY <1>3, <1>5, <2>1, <2>2
  <2>3. CASE e.memo # NoMemo
    <3>1. e.seen[n] = "no" BY <1>1, <1>5, <2>3 DEF Reproducing
    <3>2. T[n] = "unseen" BY <1>3, <1>5, <2>3
    <3> QED BY <2>1, <3>1, <3>2
  <2> QED BY <2>2, <2>3
<1>6. ListIsAsSaid(f, T, others, lost) BY <1>4, <1>5 DEF ListIsAsSaid
<1>7. Reproducing(f, lost) BY DEF Reproducing
<1>8. f.listed = ToSet(tab) \cup f.manual BY <1>1
<1> QED BY <1>6, <1>7, <1>8 DEF T, Answered

\* The rows that are ticked or unticked at one stroke.
RowsTicked(f, e, names, tick) ==
  /\ f \in AxisEditors
  /\ f.listed = e.listed /\ f.manual = e.manual /\ f.memo = NoMemo
  /\ f.others = e.others /\ f.on = e.on
  /\ f.ticked = IF tick THEN e.ticked \cup names ELSE e.ticked \ names
  /\ \A n \in Values : f.seen[n] = IF n \notin names THEN e.seen[n]
                                   ELSE IF tick THEN "ticked" ELSE "unticked"

LEMMA RowsAreTicked ==
  ASSUME NEW e \in AxisEditors, NEW names \in SUBSET Values, NEW tick \in BOOLEAN
  PROVE  RowsTicked(Ticked(e, names, tick), e, names, tick)
<1> DEFINE f == Ticked(e, names, tick)
           ticked == IF tick THEN e.ticked \cup names ELSE e.ticked \ names
           seen == [n \in Values |-> IF n \notin names THEN e.seen[n]
                                     ELSE IF tick THEN "ticked" ELSE "unticked"]
<1>1. f = [e EXCEPT !.ticked = ticked, !.memo = NoMemo, !.seen = seen] BY DEF Ticked
<1>2. ticked \in SUBSET Values BY DEF AxisEditors
<1>3. seen \in [Values -> {"no", "ticked", "unticked"}] BY DEF AxisEditors
<1>4. \A n \in Values : seen[n] = IF n \notin names THEN e.seen[n]
                                  ELSE IF tick THEN "ticked" ELSE "unticked"
  OBVIOUS
<1> HIDE DEF seen
<1>5. f.seen = seen /\ f.ticked = ticked BY <1>1 DEF AxisEditors
<1>6. f.listed = e.listed /\ f.manual = e.manual /\ f.memo = NoMemo /\ f.others = e.others /\ f.on = e.on
  BY <1>1 DEF AxisEditors
<1> HIDE DEF ticked
<1>7. f \in AxisEditors BY <1>1, <1>2, <1>3 DEF AxisEditors
<1> QED BY <1>4, <1>5, <1>6, <1>7 DEF ticked, f, RowsTicked

\* What holds of the bound log.
BoundIsAnswered ==
  /\ axis.log \in AxisLogs
  /\ said[axis.log] \in Sayings /\ rest[axis.log] \in BOOLEAN /\ muddled[axis.log] \in SUBSET Values
  /\ ToSet(table[axis.log]) \subseteq Values
  /\ Answered(axis.e, table[axis.log], said[axis.log], rest[axis.log], muddled[axis.log])

\* What the list remembers when nothing is being reproduced.
LEMMA FreeListIsAnswered ==
  ASSUME NEW e, NEW tab, NEW S, NEW R, NEW D, Answered(e, tab, S, R, D)
  PROVE  /\ e \in AxisEditors
         /\ e.listed \subseteq Values /\ e.ticked \subseteq e.listed /\ e.others = R
         /\ e.manual \subseteq e.listed
         /\ e.seen \in [Values -> {"no", "ticked", "unticked"}]
         /\ \A n \in e.listed : e.seen[n] # "no"
         /\ \A n \in e.listed \ D : S[n] = IF n \in e.ticked THEN "shown" ELSE "hidden"
         /\ e.memo = NoMemo =>
              \A n \in Values \ (e.listed \cup D) :
                S[n] = CASE e.seen[n] = "ticked" -> "shown" [] e.seen[n] = "unticked" -> "hidden"
                         [] OTHER -> "unseen"
         /\ e.memo # NoMemo =>
              /\ Narrows(e.memo) /\ e.listed = e.memo.names /\ e.manual = e.memo.names
              /\ \A n \in Values \ e.listed : e.seen[n] = "no"
              /\ D # Values => e.ticked = e.listed /\ e.others = ~e.memo.restricts
              /\ \A n \in Values \ (e.listed \cup D) : S[n] # "shown"
<1>1. e \in AxisEditors /\ e.listed = ToSet(tab) \cup e.manual BY DEF Answered
<1>2. e.listed \subseteq Values /\ e.seen \in [Values -> {"no", "ticked", "unticked"}]
  BY <1>1 DEF AxisEditors
<1>3. Reproducing(e, D) /\ ListIsAsSaid(e, S, R, D) BY DEF Answered
<1>4. e.memo # NoMemo =>
        /\ Narrows(e.memo) /\ e.listed = e.memo.names /\ e.manual = e.memo.names
        /\ \A n \in Values \ e.listed : e.seen[n] = "no"
        /\ D # Values => e.ticked = e.listed /\ e.others = ~e.memo.restricts
  BY <1>3 DEF Reproducing
<1>5. /\ e.ticked \subseteq e.listed /\ e.others = R
      /\ \A n \in e.listed : e.seen[n] # "no"
      /\ \A n \in e.listed \ D : S[n] = IF n \in e.ticked THEN "shown" ELSE "hidden"
  BY <1>3 DEF ListIsAsSaid
<1>6. e.memo = NoMemo =>
        \A n \in Values \ (e.listed \cup D) :
          S[n] = CASE e.seen[n] = "ticked" -> "shown" [] e.seen[n] = "unticked" -> "hidden"
                   [] OTHER -> "unseen"
  BY <1>3 DEF ListIsAsSaid
<1>7. e.memo # NoMemo => \A n \in Values \ (e.listed \cup D) : S[n] # "shown"
  BY <1>3 DEF ListIsAsSaid
<1> QED BY <1>1, <1>2, <1>4, <1>5, <1>6, <1>7

\* An edit of the reader, answered as he meant it.
StrokeIsAnswered ==
  \E f \in AxisEditors, saying \in Sayings, others \in BOOLEAN, lost \in SUBSET Values :
    /\ Stroke(f, saying, others, lost)
    /\ Answered(f, table[axis.log], Meant(axis.e, f, saying), others, lost)

LEMMA ToggleIsAnswered ==
  ASSUME BoundIsAnswered, NEW n \in Values, Toggle(n)
  PROVE  StrokeIsAnswered
<1> DEFINE e == axis.e
           tab == table[axis.log]
           S == said[axis.log]
           R == rest[axis.log]
           D == muddled[axis.log]
           tick == n \notin e.ticked
           f == Ticked(e, {n}, tick)
           saying == [S EXCEPT ![n] = IF tick THEN "shown" ELSE "hidden"]
           lost == D \ {n}
<1>1. Answered(e, tab, S, R, D) /\ S \in Sayings /\ R \in BOOLEAN /\ D \in SUBSET Values
  BY DEF BoundIsAnswered
<1>2. n \in e.listed /\ Stroke(f, saying, R, lost) BY DEF Toggle, Mine, Astray
<1> HIDE DEF e, tab, S, R, D
<1>3. /\ e \in AxisEditors
      /\ e.listed \subseteq Values /\ e.ticked \subseteq e.listed /\ e.others = R
      /\ \A m \in e.listed : e.seen[m] # "no"
      /\ \A m \in e.listed \ D : S[m] = IF m \in e.ticked THEN "shown" ELSE "hidden"
      /\ e.memo = NoMemo =>
           \A m \in Values \ (e.listed \cup D) :
             S[m] = CASE e.seen[m] = "ticked" -> "shown" [] e.seen[m] = "unticked" -> "hidden"
                      [] OTHER -> "unseen"
  BY <1>1, FreeListIsAnswered
<1>4. /\ f \in AxisEditors
      /\ f.listed = e.listed /\ f.manual = e.manual /\ f.memo = NoMemo /\ f.others = e.others
      /\ f.ticked = IF tick THEN e.ticked \cup {n} ELSE e.ticked \ {n}
      /\ \A m \in Values : f.seen[m] = IF m \notin {n} THEN e.seen[m]
                                       ELSE IF tick THEN "ticked" ELSE "unticked"
  <2> HIDE DEF tick
  <2>1. tick \in BOOLEAN BY DEF tick
  <2>2. {n} \in SUBSET Values OBVIOUS
  <2>3. RowsTicked(f, e, {n}, tick) BY <1>3, <2>1, <2>2, RowsAreTicked
  <2> HIDE DEF f
  <2> QED BY <2>3 DEF RowsTicked
<1>5. /\ saying \in Sayings
      /\ saying[n] = IF tick THEN "shown" ELSE "hidden"
      /\ \A m \in Values \ {n} : saying[m] = S[m]
  BY <1>1 DEF Sayings
<1> HIDE DEF f, saying
<1>6. f.ticked \subseteq f.listed BY <1>2, <1>3, <1>4
<1>7. \A m \in Values \ f.listed : f.seen[m] = e.seen[m] BY <1>2, <1>4
<1>8. \A m \in f.listed : f.seen[m] # "no" BY <1>3, <1>4
<1>9. ASSUME NEW m \in f.listed \ lost
      PROVE  saying[m] = IF m \in f.ticked THEN "shown" ELSE "hidden"
  <2>1. CASE m = n BY <1>4, <1>5, <2>1
  <2>2. CASE m # n BY <1>3, <1>4, <1>5, <2>2
  <2> QED BY <2>1, <2>2
<1>10. \A m \in Values \ (f.listed \cup lost) :
         e.memo = NoMemo =>
           saying[m] = CASE e.seen[m] = "ticked" -> "shown" [] e.seen[m] = "unticked" -> "hidden"
                         [] OTHER -> "unseen"
  BY <1>2, <1>3, <1>4, <1>5
<1>11. lost \in SUBSET Values /\ f.others = R BY <1>1, <1>3, <1>4
<1>12. Answered(f, tab, Meant(e, f, saying), R, lost)
  BY <1>1, <1>4, <1>6, <1>7, <1>8, <1>9, <1>10, <1>11, EditIsAnswered
<1> QED BY <1>1, <1>2, <1>4, <1>5, <1>11, <1>12 DEF StrokeIsAnswered, e, tab

LEMMA ToggleOthersIsAnswered ==
  ASSUME BoundIsAnswered, ToggleOthers
  PROVE  StrokeIsAnswered
<1> DEFINE e == axis.e
           tab == table[axis.log]
           S == said[axis.log]
           R == rest[axis.log]
           D == muddled[axis.log]
           f == [e EXCEPT !.others = ~@, !.memo = NoMemo]
<1>1. Answered(e, tab, S, R, D) /\ S \in Sayings /\ R \in BOOLEAN /\ D \in SUBSET Values
  BY DEF BoundIsAnswered
<1>2. Stroke(f, S, ~R, D) BY DEF ToggleOthers, Mine, Astray
<1> HIDE DEF e, tab, S, R, D
<1>3. /\ e \in AxisEditors
      /\ e.listed \subseteq Values /\ e.ticked \subseteq e.listed /\ e.others = R
      /\ \A m \in e.listed : e.seen[m] # "no"
      /\ \A m \in e.listed \ D : S[m] = IF m \in e.ticked THEN "shown" ELSE "hidden"
      /\ e.memo = NoMemo =>
           \A m \in Values \ (e.listed \cup D) :
             S[m] = CASE e.seen[m] = "ticked" -> "shown" [] e.seen[m] = "unticked" -> "hidden"
                      [] OTHER -> "unseen"
  BY <1>1, FreeListIsAnswered
<1>4. /\ f \in AxisEditors
      /\ f.listed = e.listed /\ f.manual = e.manual /\ f.memo = NoMemo /\ f.others = ~e.others
      /\ f.ticked = e.ticked /\ f.seen = e.seen
  BY <1>3 DEF AxisEditors
<1> HIDE DEF f
<1>5. Answered(f, tab, Meant(e, f, S), ~R, D) BY <1>1, <1>3, <1>4, EditIsAnswered
<1> QED BY <1>1, <1>2, <1>4, <1>5 DEF StrokeIsAnswered, e, tab

\* The tick of the axis itself ends nothing.
LEMMA ToggleAxisIsAnswered ==
  ASSUME BoundIsAnswered, ToggleAxis
  PROVE  StrokeIsAnswered
<1> DEFINE e == axis.e
           tab == table[axis.log]
           S == said[axis.log]
           R == rest[axis.log]
           D == muddled[axis.log]
           f == [e EXCEPT !.on = ~@]
<1>1. Answered(e, tab, S, R, D) /\ S \in Sayings /\ R \in BOOLEAN /\ D \in SUBSET Values
  BY DEF BoundIsAnswered
<1>2. Stroke(f, S, R, D) BY DEF ToggleAxis, Mine, Astray
<1> HIDE DEF e, tab, S, R, D
<1>3. e \in AxisEditors BY <1>1 DEF Answered
<1>4. /\ f \in AxisEditors
      /\ f.listed = e.listed /\ f.manual = e.manual /\ f.memo = e.memo /\ f.others = e.others
      /\ f.ticked = e.ticked /\ f.seen = e.seen
  BY <1>3 DEF AxisEditors
<1> HIDE DEF f
<1>5. Meant(e, f, S) = S BY <1>1, <1>4 DEF Meant, Sayings
<1>6. Reproducing(f, D) /\ ListIsAsSaid(f, S, R, D) /\ f.listed = ToSet(tab) \cup f.manual
  BY <1>1, <1>4 DEF Answered, Reproducing, ListIsAsSaid
<1>7. Answered(f, tab, Meant(e, f, S), R, D) BY <1>4, <1>5, <1>6 DEF Answered
<1> QED BY <1>1, <1>2, <1>4, <1>7 DEF StrokeIsAnswered, e, tab

\* All and None (SetAll), over the rows in sight and the names a rotation took away.
LEMMA SetAllIsAnswered ==
  ASSUME BoundIsAnswered, NEW visible \in SUBSET Values, NEW tick \in BOOLEAN,
         SetAll(visible, tick)
  PROVE  StrokeIsAnswered
<1> DEFINE e == axis.e
           tab == table[axis.log]
           S == said[axis.log]
           R == rest[axis.log]
           D == muddled[axis.log]
           moved == IF tick THEN visible \ e.ticked ELSE visible \cap e.ticked
           g == Ticked(e, moved, tick)
           f == [g EXCEPT !.others = tick]
           saying == [n \in Values |->
                        IF n \in visible THEN (IF tick THEN "shown" ELSE "hidden")
                        ELSE IF n \in e.listed THEN S[n]
                        ELSE IF S[n] = "unseen" THEN "unseen" ELSE IF tick THEN "shown" ELSE "hidden"]
           lost == (D \ visible) \cup Unreached(e, tick)
<1>1. Answered(e, tab, S, R, D) /\ S \in Sayings /\ R \in BOOLEAN /\ D \in SUBSET Values
  BY DEF BoundIsAnswered
<1>2. visible \subseteq e.listed /\ Stroke(f, saying, tick, lost)
  BY DEF SetAll, Mine, Astray, Claimed
<1> HIDE DEF e, tab, S, R, D
<1>3. /\ e \in AxisEditors
      /\ e.listed \subseteq Values /\ e.ticked \subseteq e.listed /\ e.others = R
      /\ \A m \in e.listed : e.seen[m] # "no"
      /\ \A m \in e.listed \ D : S[m] = IF m \in e.ticked THEN "shown" ELSE "hidden"
      /\ e.memo = NoMemo =>
           \A m \in Values \ (e.listed \cup D) :
             S[m] = CASE e.seen[m] = "ticked" -> "shown" [] e.seen[m] = "unticked" -> "hidden"
                      [] OTHER -> "unseen"
  BY <1>1, FreeListIsAnswered
<1>4. /\ g \in AxisEditors
      /\ g.listed = e.listed /\ g.manual = e.manual /\ g.memo = NoMemo
      /\ g.ticked = IF tick THEN e.ticked \cup moved ELSE e.ticked \ moved
      /\ \A m \in Values : g.seen[m] = IF m \notin moved THEN e.seen[m]
                                       ELSE IF tick THEN "ticked" ELSE "unticked"
  <2>1. moved \in SUBSET Values BY <1>3 DEF AxisEditors
  <2> HIDE DEF moved
  <2>2. RowsTicked(g, e, moved, tick) BY <1>3, <2>1, RowsAreTicked
  <2> HIDE DEF g
  <2> QED BY <2>2 DEF RowsTicked
<1> HIDE DEF g
<1>5. /\ f \in AxisEditors
      /\ f.listed = e.listed /\ f.manual = e.manual /\ f.memo = NoMemo /\ f.others = tick
      /\ f.ticked = g.ticked /\ f.seen = g.seen
  BY <1>4 DEF AxisEditors
<1>6. /\ saying \in Sayings
      /\ \A m \in Values :
           saying[m] = IF m \in visible THEN (IF tick THEN "shown" ELSE "hidden")
                       ELSE IF m \in e.listed THEN S[m]
                       ELSE IF S[m] = "unseen" THEN "unseen" ELSE IF tick THEN "shown" ELSE "hidden"
  BY <1>1 DEF Sayings
<1>7. \A m \in Values : m \in Unreached(e, tick) <=>
                        m \notin e.listed /\ e.seen[m] = IF tick THEN "unticked" ELSE "ticked"
  BY DEF Unreached
<1>8. lost \in SUBSET Values BY <1>1 DEF Unreached
<1> HIDE DEF f, saying
<1>9. f.ticked \subseteq f.listed BY <1>2, <1>3, <1>4, <1>5
<1>10. \A m \in Values \ f.listed : f.seen[m] = e.seen[m] BY <1>2, <1>4, <1>5
<1>11. \A m \in f.listed : f.seen[m] # "no" BY <1>3, <1>4, <1>5
<1>12. ASSUME NEW m \in f.listed \ lost
       PROVE  saying[m] = IF m \in f.ticked THEN "shown" ELSE "hidden"
  <2>1. m \in Values /\ m \in e.listed BY <1>3, <1>5
  <2>2. CASE m \in visible
    <3>1. m \in f.ticked <=> tick BY <1>4, <1>5, <2>2
    <3> QED BY <1>6, <2>1, <2>2, <3>1
  <2>3. CASE m \notin visible
    <3>1. m \in f.ticked <=> m \in e.ticked BY <1>4, <1>5, <2>3
    <3>2. m \notin D BY <2>3
    <3> QED BY <1>3, <1>6, <2>1, <2>3, <3>1, <3>2
  <2> QED BY <2>2, <2>3
<1>13. ASSUME NEW m \in Values \ (f.listed \cup lost), e.memo = NoMemo
       PROVE  saying[m] = CASE e.seen[m] = "ticked" -> "shown" [] e.seen[m] = "unticked" -> "hidden"
                            [] OTHER -> "unseen"
  <2>1. m \notin e.listed /\ m \notin visible /\ m \notin D /\ m \notin Unreached(e, tick)
    BY <1>2, <1>5, <1>13
  <2>2. e.seen[m] # IF tick THEN "unticked" ELSE "ticked" BY <1>7, <2>1
  <2>3. S[m] = CASE e.seen[m] = "ticked" -> "shown" [] e.seen[m] = "unticked" -> "hidden"
                 [] OTHER -> "unseen"
    BY <1>3, <1>13, <2>1
  <2>4. saying[m] = IF S[m] = "unseen" THEN "unseen" ELSE IF tick THEN "shown" ELSE "hidden"
    BY <1>6, <2>1
  <2> QED BY <2>2, <2>3, <2>4
<1>14. Answered(f, tab, Meant(e, f, saying), tick, lost)
  BY SMTT(60), <1>1, <1>5, <1>8, <1>9, <1>10, <1>11, <1>12, <1>13, EditIsAnswered
<1> QED BY <1>2, <1>5, <1>6, <1>8, <1>14 DEF StrokeIsAnswered, e, tab

LEMMA InvertIsAnswered ==
  ASSUME BoundIsAnswered, NEW visible \in SUBSET Values, Invert(visible)
  PROVE  StrokeIsAnswered
<1> DEFINE e == axis.e
           tab == table[axis.log]
           S == said[axis.log]
           R == rest[axis.log]
           D == muddled[axis.log]
           up == visible \ e.ticked
           down == visible \cap e.ticked
           h == Ticked(e, up, TRUE)
           g == Ticked(h, down, FALSE)
           f == [g EXCEPT !.others = ~@]
           saying == [n \in Values |-> IF n \notin visible THEN S[n]
                                       ELSE IF n \in e.ticked THEN "hidden" ELSE "shown"]
<1>1. Answered(e, tab, S, R, D) /\ S \in Sayings /\ R \in BOOLEAN /\ D \in SUBSET Values
  BY DEF BoundIsAnswered
<1>2. visible \subseteq e.listed /\ Stroke(f, saying, ~R, D) BY DEF Invert, Mine, Astray
<1> HIDE DEF e, tab, S, R, D
<1>3. /\ e \in AxisEditors
      /\ e.listed \subseteq Values /\ e.ticked \subseteq e.listed /\ e.others = R
      /\ \A m \in e.listed : e.seen[m] # "no"
      /\ \A m \in e.listed \ D : S[m] = IF m \in e.ticked THEN "shown" ELSE "hidden"
      /\ e.memo = NoMemo =>
           \A m \in Values \ (e.listed \cup D) :
             S[m] = CASE e.seen[m] = "ticked" -> "shown" [] e.seen[m] = "unticked" -> "hidden"
                      [] OTHER -> "unseen"
  BY <1>1, FreeListIsAnswered
<1>4. up \in SUBSET Values /\ down \in SUBSET Values OBVIOUS
<1>5. /\ \A m : m \in up <=> m \in visible /\ m \notin e.ticked
      /\ \A m : m \in down <=> m \in visible /\ m \in e.ticked
  OBVIOUS
<1> HIDE DEF up, down
<1>6. RowsTicked(h, e, up, TRUE) BY <1>3, <1>4, RowsAreTicked
<1> HIDE DEF h
<1>7. /\ h \in AxisEditors
      /\ h.listed = e.listed /\ h.manual = e.manual /\ h.others = e.others
      /\ h.ticked = e.ticked \cup up
      /\ \A m \in Values : h.seen[m] = IF m \notin up THEN e.seen[m] ELSE "ticked"
  BY <1>6 DEF RowsTicked
<1>8. RowsTicked(g, h, down, FALSE) BY <1>4, <1>7, RowsAreTicked
<1> HIDE DEF g
<1>9. /\ g \in AxisEditors
      /\ g.listed = h.listed /\ g.manual = h.manual /\ g.memo = NoMemo /\ g.others = h.others
      /\ g.ticked = h.ticked \ down
      /\ \A m \in Values : g.seen[m] = IF m \notin down THEN h.seen[m] ELSE "unticked"
  BY <1>8 DEF RowsTicked
<1>10. /\ f \in AxisEditors
       /\ f.listed = e.listed /\ f.manual = e.manual /\ f.memo = NoMemo /\ f.others = ~e.others
       /\ f.ticked = (e.ticked \cup up) \ down /\ f.seen = g.seen
  BY <1>7, <1>9 DEF AxisEditors
<1>11. /\ saying \in Sayings
       /\ \A m \in Values : saying[m] = IF m \notin visible THEN S[m]
                                         ELSE IF m \in e.ticked THEN "hidden" ELSE "shown"
  BY <1>1 DEF Sayings
<1> HIDE DEF f, saying
<1>12. f.ticked \subseteq f.listed BY <1>2, <1>3, <1>5, <1>10
<1>13. \A m \in Values \ f.listed : f.seen[m] = e.seen[m] BY <1>2, <1>5, <1>7, <1>9, <1>10
<1>14. \A m \in f.listed : f.seen[m] # "no" BY <1>3, <1>7, <1>9, <1>10
<1>15. ASSUME NEW m \in f.listed \ D
       PROVE  saying[m] = IF m \in f.ticked THEN "shown" ELSE "hidden"
  <2>1. m \in Values /\ m \in e.listed /\ m \notin D BY <1>3, <1>10
  <2>2. S[m] = IF m \in e.ticked THEN "shown" ELSE "hidden" BY <1>3, <2>1
  <2>3. m \in f.ticked <=> IF m \in visible THEN m \notin e.ticked ELSE m \in e.ticked
    BY <1>5, <1>10
  <2> QED BY <1>11, <2>1, <2>2, <2>3
<1>16. \A m \in Values \ (f.listed \cup D) :
         e.memo = NoMemo =>
           saying[m] = CASE e.seen[m] = "ticked" -> "shown" [] e.seen[m] = "unticked" -> "hidden"
                         [] OTHER -> "unseen"
  BY <1>2, <1>3, <1>10, <1>11
<1>17. f.others = ~R BY <1>3, <1>10
<1>18. Answered(f, tab, Meant(e, f, saying), ~R, D)
  BY <1>1, <1>10, <1>12, <1>13, <1>14, <1>15, <1>16, <1>17, EditIsAnswered
<1> QED BY <1>1, <1>2, <1>10, <1>11, <1>18 DEF StrokeIsAnswered, e, tab

\* An edit that a selection being reproduced does not hear of.
LEMMA DeafEditIsAnswered ==
  ASSUME NEW e, NEW tab, NEW S, NEW R, NEW D, NEW f \in AxisEditors, NEW saying, NEW others,
         Answered(e, tab, S, R, D), e.memo # NoMemo,
         f.listed = e.listed, f.manual = e.manual, f.memo = e.memo, f.seen = e.seen,
         f.ticked \subseteq f.listed, f.others = others
  PROVE  Answered(f, tab, Meant(e, f, saying), others, Values)
<1>1. e.listed = ToSet(tab) \cup e.manual BY DEF Answered
<1>2. /\ Narrows(e.memo) /\ e.listed = e.memo.names /\ e.manual = e.memo.names
      /\ \A n \in Values \ e.listed : e.seen[n] = "no"
  BY DEF Answered, Reproducing
<1>3. \A n \in e.listed : e.seen[n] # "no" BY DEF Answered, ListIsAsSaid
<1>4. f.listed \subseteq Values BY DEF AxisEditors
<1>5. Reproducing(f, Values) BY <1>2 DEF Reproducing
<1>6. ListIsAsSaid(f, Meant(e, f, saying), others, Values) BY <1>3, <1>4 DEF ListIsAsSaid
<1> QED BY <1>1, <1>5, <1>6 DEF Answered

\* An edit by the record menu or with Ctrl, which changes ticks and nothing that is
\* remembered of the names (checkOnly).
LEMMA UnrecordedEditIsAnswered ==
  ASSUME NEW e, NEW tab, NEW S \in Sayings, NEW R, NEW D \in SUBSET Values,
         NEW f \in AxisEditors, NEW saying, NEW others, NEW lost \in SUBSET Values,
         Answered(e, tab, S, R, D),
         f.listed = e.listed, f.manual = e.manual, f.memo = e.memo, f.seen = e.seen,
         f.ticked \subseteq f.listed, f.others = others,
         e.memo # NoMemo => lost = Values,
         \A n \in f.listed \ lost : saying[n] = IF n \in f.ticked THEN "shown" ELSE "hidden",
         \A n \in Values \ (f.listed \cup lost) :
           e.memo = NoMemo =>
             saying[n] = CASE e.seen[n] = "ticked" -> "shown" [] e.seen[n] = "unticked" -> "hidden"
                           [] OTHER -> "unseen"
  PROVE  Answered(f, tab, Meant(e, f, saying), others, lost)
<1>1. CASE e.memo # NoMemo BY <1>1, DeafEditIsAnswered
<1>2. CASE e.memo = NoMemo
  <2>1. \A n \in f.listed : f.seen[n] # "no" BY DEF Answered, ListIsAsSaid
  <2> QED BY <1>2, <2>1, EditIsAnswered
<1> QED BY <1>1, <1>2

LEMMA ShowOnlyIsAnswered ==
  ASSUME BoundIsAnswered, NEW n \in Values, ShowOnly(n)
  PROVE  StrokeIsAnswered
<1> DEFINE e == axis.e
           tab == table[axis.log]
           S == said[axis.log]
           R == rest[axis.log]
           D == muddled[axis.log]
           f == [e EXCEPT !.ticked = {n}, !.on = TRUE, !.others = FALSE]
           saying == [m \in Values |-> IF m = n THEN "shown" ELSE IF m \in e.listed THEN "hidden"
                                       ELSE IF S[m] = "unseen" THEN "unseen" ELSE "hidden"]
           lost == IF e.memo # NoMemo THEN Values ELSE (D \ e.listed) \cup Unreached(e, FALSE)
<1>1. Answered(e, tab, S, R, D) /\ S \in Sayings /\ R \in BOOLEAN /\ D \in SUBSET Values
  BY DEF BoundIsAnswered
<1>2. n \in e.listed /\ Stroke(f, saying, FALSE, lost)
  <2>1. n \in ToSet(tab) /\ e.listed = ToSet(tab) \cup e.manual
    BY <1>1 DEF ShowOnly, Answered
  <2>2. EnsureListed(e, n) = e BY <2>1 DEF EnsureListed
  <2> QED BY <2>1, <2>2 DEF ShowOnly, Astray, Claimed, Mine
<1> HIDE DEF e, tab, S, R, D
<1>3. /\ e \in AxisEditors
      /\ e.listed \subseteq Values /\ e.ticked \subseteq e.listed /\ e.others = R
      /\ \A m \in e.listed : e.seen[m] # "no"
      /\ \A m \in e.listed \ D : S[m] = IF m \in e.ticked THEN "shown" ELSE "hidden"
      /\ e.memo = NoMemo =>
           \A m \in Values \ (e.listed \cup D) :
             S[m] = CASE e.seen[m] = "ticked" -> "shown" [] e.seen[m] = "unticked" -> "hidden"
                      [] OTHER -> "unseen"
  BY <1>1, FreeListIsAnswered
<1>4. /\ f \in AxisEditors
      /\ f.listed = e.listed /\ f.manual = e.manual /\ f.memo = e.memo /\ f.seen = e.seen
      /\ f.others = FALSE /\ f.ticked = {n}
  BY <1>3 DEF AxisEditors
<1>5. /\ saying \in Sayings
      /\ \A m \in Values :
           saying[m] = IF m = n THEN "shown" ELSE IF m \in e.listed THEN "hidden"
                       ELSE IF S[m] = "unseen" THEN "unseen" ELSE "hidden"
  BY DEF Sayings
<1>6. lost \in SUBSET Values BY <1>1 DEF Unreached
<1> HIDE DEF f, saying
<1>7. f.ticked \subseteq f.listed BY <1>2, <1>4
<1>8. \A m \in f.listed \ lost : saying[m] = IF m \in f.ticked THEN "shown" ELSE "hidden"
  BY <1>3, <1>4, <1>5
<1>9. ASSUME NEW m \in Values \ (f.listed \cup lost), e.memo = NoMemo
      PROVE  saying[m] = CASE e.seen[m] = "ticked" -> "shown" [] e.seen[m] = "unticked" -> "hidden"
                           [] OTHER -> "unseen"
  <2>1. m \notin e.listed /\ m \notin D /\ m \notin Unreached(e, FALSE) /\ m # n
    BY <1>2, <1>4, <1>9
  <2>2. e.seen[m] # "ticked" BY <2>1 DEF Unreached
  <2>3. S[m] = CASE e.seen[m] = "ticked" -> "shown" [] e.seen[m] = "unticked" -> "hidden"
                 [] OTHER -> "unseen"
    BY <1>3, <1>9, <2>1
  <2>4. saying[m] = IF S[m] = "unseen" THEN "unseen" ELSE "hidden" BY <1>5, <2>1
  <2> QED BY <2>2, <2>3, <2>4
<1>10. e.memo # NoMemo => lost = Values OBVIOUS
<1> HIDE DEF lost
<1>11. Answered(f, tab, Meant(e, f, saying), FALSE, lost)
  BY <1>1, <1>4, <1>6, <1>7, <1>8, <1>9, <1>10, UnrecordedEditIsAnswered
<1> QED BY <1>2, <1>4, <1>5, <1>6, <1>11 DEF StrokeIsAnswered, e, tab

LEMMA ShowOthersOnlyIsAnswered ==
  ASSUME BoundIsAnswered, ShowOthersOnly
  PROVE  StrokeIsAnswered
<1> DEFINE e == axis.e
           tab == table[axis.log]
           S == said[axis.log]
           R == rest[axis.log]
           D == muddled[axis.log]
           f == [e EXCEPT !.ticked = {}, !.on = TRUE, !.others = TRUE]
           saying == [m \in Values |-> IF m \in e.listed THEN "hidden"
                                       ELSE IF S[m] = "unseen" THEN "unseen" ELSE "shown"]
           lost == IF e.memo # NoMemo THEN Values ELSE (D \ e.listed) \cup Unreached(e, TRUE)
<1>1. Answered(e, tab, S, R, D) /\ S \in Sayings /\ R \in BOOLEAN /\ D \in SUBSET Values
  BY DEF BoundIsAnswered
<1>2. Stroke(f, saying, TRUE, lost) BY DEF ShowOthersOnly, Astray, Claimed, Mine
<1> HIDE DEF e, tab, S, R, D
<1>3. /\ e \in AxisEditors
      /\ e.listed \subseteq Values /\ e.ticked \subseteq e.listed /\ e.others = R
      /\ \A m \in e.listed : e.seen[m] # "no"
      /\ \A m \in e.listed \ D : S[m] = IF m \in e.ticked THEN "shown" ELSE "hidden"
      /\ e.memo = NoMemo =>
           \A m \in Values \ (e.listed \cup D) :
             S[m] = CASE e.seen[m] = "ticked" -> "shown" [] e.seen[m] = "unticked" -> "hidden"
                      [] OTHER -> "unseen"
  BY <1>1, FreeListIsAnswered
<1>4. /\ f \in AxisEditors
      /\ f.listed = e.listed /\ f.manual = e.manual /\ f.memo = e.memo /\ f.seen = e.seen
      /\ f.others = TRUE /\ f.ticked = {}
  BY <1>3 DEF AxisEditors
<1>5. /\ saying \in Sayings
      /\ \A m \in Values : saying[m] = IF m \in e.listed THEN "hidden"
                                        ELSE IF S[m] = "unseen" THEN "unseen" ELSE "shown"
  BY DEF Sayings
<1>6. lost \in SUBSET Values BY <1>1 DEF Unreached
<1> HIDE DEF f, saying
<1>7. f.ticked \subseteq f.listed BY <1>4
<1>8. \A m \in f.listed \ lost : saying[m] = IF m \in f.ticked THEN "shown" ELSE "hidden"
  BY <1>3, <1>4, <1>5
<1>9. ASSUME NEW m \in Values \ (f.listed \cup lost), e.memo = NoMemo
      PROVE  saying[m] = CASE e.seen[m] = "ticked" -> "shown" [] e.seen[m] = "unticked" -> "hidden"
                           [] OTHER -> "unseen"
  <2>1. m \notin e.listed /\ m \notin D /\ m \notin Unreached(e, TRUE) BY <1>4, <1>9
  <2>2. e.seen[m] # "unticked" BY <2>1 DEF Unreached
  <2>3. S[m] = CASE e.seen[m] = "ticked" -> "shown" [] e.seen[m] = "unticked" -> "hidden"
                 [] OTHER -> "unseen"
    BY <1>3, <1>9, <2>1
  <2>4. saying[m] = IF S[m] = "unseen" THEN "unseen" ELSE "shown" BY <1>5, <2>1
  <2> QED BY <2>2, <2>3, <2>4
<1>10. e.memo # NoMemo => lost = Values OBVIOUS
<1> HIDE DEF lost
<1>11. Answered(f, tab, Meant(e, f, saying), TRUE, lost)
  BY <1>1, <1>4, <1>6, <1>7, <1>8, <1>9, <1>10, UnrecordedEditIsAnswered
<1> QED BY <1>2, <1>4, <1>5, <1>6, <1>11 DEF StrokeIsAnswered, e, tab

LEMMA HideIsAnswered ==
  ASSUME BoundIsAnswered, NEW n \in Values, Hide(n)
  PROVE  StrokeIsAnswered
<1> DEFINE e == axis.e
           tab == table[axis.log]
           S == said[axis.log]
           R == rest[axis.log]
           D == muddled[axis.log]
           f == [e EXCEPT !.ticked = @ \ {n}, !.on = TRUE]
           saying == [S EXCEPT ![n] = "hidden"]
           lost == IF e.memo # NoMemo THEN Values ELSE D \ {n}
<1>1. Answered(e, tab, S, R, D) /\ S \in Sayings /\ R \in BOOLEAN /\ D \in SUBSET Values
  BY DEF BoundIsAnswered
<1>2. n \in e.listed /\ Stroke(f, saying, R, lost)
  <2>1. n \in ToSet(tab) /\ e.listed = ToSet(tab) \cup e.manual BY <1>1 DEF Hide, Answered
  <2>2. EnsureListed(e, n) = e BY <2>1 DEF EnsureListed
  <2> QED BY <2>1, <2>2 DEF Hide, Astray, Mine
<1> HIDE DEF e, tab, S, R, D
<1>3. /\ e \in AxisEditors
      /\ e.listed \subseteq Values /\ e.ticked \subseteq e.listed /\ e.others = R
      /\ \A m \in e.listed : e.seen[m] # "no"
      /\ \A m \in e.listed \ D : S[m] = IF m \in e.ticked THEN "shown" ELSE "hidden"
      /\ e.memo = NoMemo =>
           \A m \in Values \ (e.listed \cup D) :
             S[m] = CASE e.seen[m] = "ticked" -> "shown" [] e.seen[m] = "unticked" -> "hidden"
                      [] OTHER -> "unseen"
  BY <1>1, FreeListIsAnswered
<1>4. /\ f \in AxisEditors
      /\ f.listed = e.listed /\ f.manual = e.manual /\ f.memo = e.memo /\ f.seen = e.seen
      /\ f.others = R /\ f.ticked = e.ticked \ {n}
  BY <1>3 DEF AxisEditors
<1>5. /\ saying \in Sayings
      /\ saying[n] = "hidden" /\ \A m \in Values \ {n} : saying[m] = S[m]
  BY <1>1 DEF Sayings
<1>6. lost \in SUBSET Values BY <1>1
<1> HIDE DEF f, saying
<1>7. f.ticked \subseteq f.listed BY <1>3, <1>4
<1>8. \A m \in f.listed \ lost : saying[m] = IF m \in f.ticked THEN "shown" ELSE "hidden"
  BY <1>3, <1>4, <1>5
<1>9. \A m \in Values \ (f.listed \cup lost) :
         e.memo = NoMemo =>
           saying[m] = CASE e.seen[m] = "ticked" -> "shown" [] e.seen[m] = "unticked" -> "hidden"
                         [] OTHER -> "unseen"
  BY <1>2, <1>3, <1>4, <1>5
<1>10. e.memo # NoMemo => lost = Values OBVIOUS
<1> HIDE DEF lost
<1>11. Answered(f, tab, Meant(e, f, saying), R, lost)
  BY <1>1, <1>4, <1>6, <1>7, <1>8, <1>9, <1>10, UnrecordedEditIsAnswered
<1> QED BY <1>1, <1>2, <1>4, <1>5, <1>6, <1>11 DEF StrokeIsAnswered, e, tab

LEMMA AddTypedIsAnswered ==
  ASSUME BoundIsAnswered, NEW n \in Values, AddTyped(n)
  PROVE  StrokeIsAnswered
<1> DEFINE e == axis.e
           tab == table[axis.log]
           S == said[axis.log]
           R == rest[axis.log]
           D == muddled[axis.log]
           g == [e EXCEPT !.manual = @ \cup {n}, !.memo = NoMemo]
           f == Refreshed(g, tab)
           saying == [S EXCEPT ![n] = "shown"]
           lost == IF e.seen[n] = "unticked" THEN D \cup {n} ELSE D \ {n}
           T == Meant(e, f, saying)
<1>1. Answered(e, tab, S, R, D) /\ S \in Sayings /\ R \in BOOLEAN /\ D \in SUBSET Values
  BY DEF BoundIsAnswered
<1>2. n \notin e.listed /\ Stroke(f, saying, R, lost) /\ ToSet(tab) \subseteq Values
  BY DEF AddTyped, Astray, Mine, BoundIsAnswered
<1>3. e.listed = ToSet(tab) \cup e.manual BY <1>1 DEF Answered
<1> HIDE DEF e, tab, S, R, D
<1>4. /\ e \in AxisEditors
      /\ e.listed \subseteq Values /\ e.ticked \subseteq e.listed /\ e.others = R
      /\ \A m \in e.listed : e.seen[m] # "no"
      /\ \A m \in e.listed \ D : S[m] = IF m \in e.ticked THEN "shown" ELSE "hidden"
      /\ e.memo = NoMemo =>
           \A m \in Values \ (e.listed \cup D) :
             S[m] = CASE e.seen[m] = "ticked" -> "shown" [] e.seen[m] = "unticked" -> "hidden"
                      [] OTHER -> "unseen"
  BY <1>1, FreeListIsAnswered
<1>5. e.memo # NoMemo => \A m \in Values \ e.listed : e.seen[m] = "no"
  BY <1>1, FreeListIsAnswered
<1>6. /\ g \in AxisEditors
      /\ g.listed = e.listed /\ g.manual = e.manual \cup {n} /\ g.memo = NoMemo /\ g.seen = e.seen
      /\ g.others = e.others /\ g.ticked = e.ticked
  BY <1>4 DEF AxisEditors
<1> HIDE DEF g
<1>7. /\ f \in AxisEditors
      /\ f.listed = ToSet(tab) \cup g.manual /\ f.ticked \subseteq f.listed
      /\ f.others = g.others /\ f.manual = g.manual /\ f.memo = NoMemo
      /\ \A m \in Values \ f.listed : f.seen[m] = g.seen[m]
      /\ \A m \in f.listed : f.seen[m] = IF m \in f.ticked THEN "ticked" ELSE "unticked"
      /\ \A m \in f.listed :
           m \in f.ticked <=> \/ m \in g.ticked
                              \/ g.seen[m] = "no" /\ (g.others \/ m \in g.manual)
                              \/ m \notin g.listed /\ g.seen[m] = "ticked"
  BY <1>2, <1>6, FreeRefresh
<1> HIDE DEF f
<1>8. f.listed = e.listed \cup {n} /\ f.listed \subseteq Values BY <1>3, <1>4, <1>6, <1>7
<1>9. /\ saying \in Sayings
      /\ saying[n] = "shown" /\ \A m \in Values \ {n} : saying[m] = S[m]
  BY <1>1 DEF Sayings
<1> HIDE DEF saying
<1>10. \A m \in Values : T[m] = IF e.memo # NoMemo /\ m \notin f.listed THEN "unseen" ELSE saying[m]
  BY <1>7 DEF Meant
<1> HIDE DEF T
<1>11. e.seen[n] \in {"no", "ticked", "unticked"} BY <1>4 DEF AxisEditors
<1>12. ASSUME NEW m \in f.listed \ lost
       PROVE  T[m] = IF m \in f.ticked THEN "shown" ELSE "hidden"
  <2>1. m \in Values /\ T[m] = saying[m] BY <1>8, <1>10
  <2>2. CASE m = n
    <3>1. e.seen[n] # "unticked" BY <2>2
    <3>2. n \in f.ticked BY <1>2, <1>6, <1>7, <1>8, <1>11, <3>1
    <3> QED BY <1>9, <2>1, <2>2, <3>2
  <2>3. CASE m # n
    <3>1. m \in e.listed /\ m \notin D BY <1>8, <2>3
    <3>2. m \in f.ticked <=> m \in e.ticked BY <1>4, <1>6, <1>7, <3>1
    <3> QED BY <1>4, <1>9, <2>1, <2>3, <3>1, <3>2
  <2> QED BY <2>2, <2>3
<1>13. ASSUME NEW m \in Values, m \notin f.listed, m \notin lost
       PROVE  T[m] = CASE f.seen[m] = "ticked" -> "shown" [] f.seen[m] = "unticked" -> "hidden"
                       [] OTHER -> "unseen"
  <2>1. m # n /\ m \notin e.listed /\ m \notin D /\ f.seen[m] = e.seen[m]
    BY <1>6, <1>7, <1>8, <1>13
  <2>2. CASE e.memo = NoMemo BY <1>4, <1>9, <1>10, <1>13, <2>1, <2>2
  <2>3. CASE e.memo # NoMemo
    <3>1. e.seen[m] = "no" /\ T[m] = "unseen" BY <1>5, <1>10, <1>13, <2>1, <2>3
    <3> QED BY <2>1, <3>1
  <2> QED BY <2>2, <2>3
<1>14. \A m \in f.listed : f.seen[m] # "no" BY <1>7
<1>15. ListIsAsSaid(f, T, R, lost) /\ Reproducing(f, lost)
  BY <1>4, <1>6, <1>7, <1>12, <1>13, <1>14 DEF ListIsAsSaid, Reproducing
<1>16. Answered(f, tab, T, R, lost) BY <1>7, <1>15 DEF Answered
<1>17. lost \in SUBSET Values BY <1>1
<1> QED BY <1>1, <1>2, <1>7, <1>9, <1>16, <1>17 DEF StrokeIsAnswered, T, e, tab

\* Everything is forgotten (clearAll).
LEMMA ClearAllIsAnswered ==
  ASSUME BoundIsAnswered, ClearAll
  PROVE  StrokeIsAnswered
<1> DEFINE e == axis.e
           tab == table[axis.log]
           S == said[axis.log]
           R == rest[axis.log]
           D == muddled[axis.log]
           g == [Blank EXCEPT !.listed = e.listed]
           names == ToSet(tab) \cup g.manual
           f == Populated(g, names, {}, "Discover")
           saying == [n \in Values |-> IF n \in f.listed THEN "shown" ELSE "unseen"]
           T == Meant(e, f, saying)
<1>1. Answered(e, tab, S, R, D) /\ S \in Sayings /\ R \in BOOLEAN /\ D \in SUBSET Values
  BY DEF BoundIsAnswered
<1>2. Stroke(f, saying, TRUE, {}) /\ ToSet(tab) \subseteq Values
  BY DEF ClearAll, Repopulated, BoundIsAnswered
<1>3. e.listed \subseteq Values BY <1>1, FreeListIsAnswered
<1> HIDE DEF e, tab, S, R, D
<1>4. /\ g \in AxisEditors
      /\ g.listed = e.listed /\ g.manual = {} /\ g.memo = NoMemo /\ g.others = TRUE
      /\ g.seen = [n \in Values |-> "no"]
  BY <1>3 DEF AxisEditors, Blank
<1> HIDE DEF g
<1>5. names = ToSet(tab) /\ names \in SUBSET Values BY <1>2, <1>4
<1> HIDE DEF names
<1>6. Filled(f, g, names, {}, "Discover") BY <1>4, <1>5, ListIsFilled
<1> HIDE DEF f
<1>7. /\ f \in AxisEditors
      /\ f.listed = names /\ f.ticked \subseteq names
      /\ f.others = g.others /\ f.manual = g.manual
      /\ f.memo = Settled(g.memo, names)
      /\ \A n \in Values \ names : f.seen[n] = g.seen[n]
      /\ \A n \in f.ticked : f.seen[n] = "ticked"
      /\ \A n \in names : g.seen[n] = "no" /\ g.others => n \in f.ticked
  BY <1>6 DEF Filled
<1>8. f.ticked = names /\ f.memo = NoMemo BY <1>4, <1>5, <1>7 DEF Settled
<1>9. saying \in Sayings BY DEF Sayings
<1>10. \A n \in Values : T[n] = IF n \in names THEN "shown" ELSE "unseen"
  BY <1>7 DEF Meant
<1> HIDE DEF T
<1>11. ListIsAsSaid(f, T, TRUE, {}) BY <1>4, <1>5, <1>7, <1>8, <1>10 DEF ListIsAsSaid
<1>12. Reproducing(f, {}) BY <1>8 DEF Reproducing
<1>13. Answered(f, tab, T, TRUE, {}) BY <1>4, <1>5, <1>7, <1>11, <1>12 DEF Answered
<1> QED BY <1>2, <1>7, <1>9, <1>13 DEF StrokeIsAnswered, T, e, tab
-----------------------------------------------------------------------------
(* The pane goes to another log, and the program is started again.           *)

\* The state a list is put back to from criteria.
ReadIn(f, tab, c) ==
  /\ f \in AxisEditors
  /\ f.listed = ToSet(tab) \cup c.names /\ f.manual = c.names
  /\ f.on = c.on /\ f.others = ~c.restricts
  /\ f.ticked = IF Narrows(c) THEN c.names ELSE f.listed
  /\ f.memo = IF Narrows(c) /\ ToSet(tab) \subseteq c.names THEN c ELSE NoMemo
  /\ \A n \in Values \ f.listed : f.seen[n] = "no"
  /\ \A n \in f.listed : f.seen[n] = IF n \in f.ticked THEN "ticked" ELSE "unticked"

\* Nothing of the log before is left (setDocument), and the state loaded holds through
\* the refresh that follows (restoreState).
LEMMA StateIsPutBack ==
  ASSUME NEW e \in AxisEditors, NEW tab, ToSet(tab) \subseteq Values, NEW c \in Criterias
  PROVE  ReadIn(Hydrated(e, tab, c), tab, c)
<1> DEFINE e0 == [e EXCEPT !.manual = {}, !.others = TRUE, !.memo = NoMemo,
                           !.seen = [n \in Values |-> "no"]]
           b == Refreshed(e0, tab)
           memo == IF Narrows(c) THEN c ELSE NoMemo
           b1 == [b EXCEPT !.on = c.on, !.manual = c.names, !.others = ~c.restricts,
                           !.memo = memo]
           rule == IF Narrows(c) THEN "Load" ELSE IF c.on THEN "CoverAll" ELSE "Unstated"
           names == ToSet(tab) \cup b1.manual
           g == Populated(b1, names, c.names, rule)
           f == Refreshed(g, tab)
<1>1. c.names \in SUBSET Values /\ c.on \in BOOLEAN /\ c.restricts \in BOOLEAN /\ c # NoMemo
  BY AxisAssumption DEF Criterias
<1>2. Hydrated(e, tab, c) = f BY DEF Hydrated, BoundTo, Loaded, Repopulated
<1>3. e0 \in AxisEditors /\ e0.memo = NoMemo /\ e0.manual = {} /\ e0.seen = [n \in Values |-> "no"]
  BY DEF AxisEditors
<1> HIDE DEF e0
<1>4. b \in AxisEditors /\ b.listed = ToSet(tab) /\ \A n \in Values \ b.listed : b.seen[n] = "no"
  <2>1. /\ b \in AxisEditors /\ b.listed = ToSet(tab) \cup e0.manual
        /\ \A n \in Values \ b.listed : b.seen[n] = e0.seen[n]
    BY <1>3, FreeRefresh
  <2> HIDE DEF b
  <2> QED BY <1>3, <2>1
<1> HIDE DEF b
<1>5. memo \in Criterias \cup {NoMemo} OBVIOUS
<1> HIDE DEF memo
<1>6. /\ b1 \in AxisEditors
      /\ b1.listed = ToSet(tab) /\ b1.manual = c.names /\ b1.on = c.on /\ b1.others = ~c.restricts
      /\ b1.memo = memo /\ b1.seen = b.seen
  BY <1>1, <1>4, <1>5 DEF AxisEditors
<1> HIDE DEF b1
<1>7. names = ToSet(tab) \cup c.names /\ names \in SUBSET Values BY <1>1, <1>6
<1> HIDE DEF names
<1>8. rule \in {"Load", "CoverAll", "Unstated"} OBVIOUS
<1>9. /\ rule = "Load" <=> Narrows(c)
      /\ rule = "CoverAll" <=> ~Narrows(c) /\ c.on
      /\ rule = "Unstated" <=> ~Narrows(c) /\ ~c.on
  OBVIOUS
<1> HIDE DEF rule
<1>10. Filled(g, b1, names, c.names, rule) BY <1>1, <1>6, <1>7, ListIsFilled
<1> HIDE DEF g
<1>11. /\ g \in AxisEditors
       /\ g.listed = names /\ g.ticked \subseteq names
       /\ g.on = c.on /\ g.others = ~c.restricts /\ g.manual = c.names
       /\ g.memo = Settled(memo, names)
       /\ \A n \in Values \ names : g.seen[n] = b.seen[n]
       /\ \A n \in g.ticked : g.seen[n] = "ticked"
       /\ rule # "Unstated" => \A n \in names \ g.ticked : g.seen[n] = "unticked"
       /\ rule = "Load" => g.ticked = names \cap c.names
       /\ rule = "CoverAll" => g.ticked = names
       /\ rule = "Unstated" => \A n \in names \ g.ticked : g.seen[n] = "no"
  BY <1>6, <1>10 DEF Filled
<1>12. \A n \in Values \ names : g.seen[n] = "no" BY <1>4, <1>7, <1>11
<1>13. ToSet(tab) \cup g.manual = names BY <1>7, <1>11
<1>14. CASE g.memo # NoMemo
  <2>1. Narrows(c) /\ memo = c /\ g.memo = c /\ names \subseteq c.names
    BY <1>1, <1>11, <1>14 DEF Settled, memo
  <2>2. /\ f \in AxisEditors
        /\ f.listed = ToSet(tab) \cup g.manual
        /\ f.ticked = f.listed \cap g.memo.names
        /\ f.on = g.on /\ f.others = g.others /\ f.manual = g.manual
        /\ f.memo = IF f.listed \subseteq g.memo.names THEN g.memo ELSE NoMemo
        /\ \A n \in Values \ f.listed : f.seen[n] = g.seen[n]
        /\ \A n \in f.listed : f.seen[n] = IF n \in f.ticked THEN "ticked" ELSE "unticked"
    BY <1>11, <1>14, ArmedRefresh
  <2> HIDE DEF f
  <2>3. f.ticked = c.names /\ f.memo = c /\ ToSet(tab) \subseteq c.names
    BY <1>7, <1>13, <2>1, <2>2
  <2>4. \A n \in Values \ f.listed : f.seen[n] = "no" BY <1>12, <1>13, <2>2
  <2>5. ReadIn(f, tab, c) BY <1>7, <1>11, <1>13, <2>1, <2>2, <2>3, <2>4 DEF ReadIn
  <2> QED BY <1>2, <2>5
<1>15. CASE g.memo = NoMemo
  <2>1. /\ f \in AxisEditors
        /\ f.listed = names /\ f.ticked \subseteq f.listed
        /\ f.on = g.on /\ f.others = g.others /\ f.manual = g.manual /\ f.memo = NoMemo
        /\ \A n \in Values \ f.listed : f.seen[n] = g.seen[n]
        /\ \A n \in f.listed : f.seen[n] = IF n \in f.ticked THEN "ticked" ELSE "unticked"
        /\ \A n \in f.listed :
             n \in f.ticked <=> \/ n \in g.ticked
                                \/ g.seen[n] = "no" /\ (g.others \/ n \in g.manual)
                                \/ n \notin g.listed /\ g.seen[n] = "ticked"
    BY <1>11, <1>13, <1>15, FreeRefresh
  <2> HIDE DEF f
  <2>2. Narrows(c) => ~(ToSet(tab) \subseteq c.names)
    BY <1>1, <1>7, <1>11, <1>15 DEF Settled, memo
  <2>3. \A n \in Values \ f.listed : f.seen[n] = "no" BY <1>12, <2>1
  <2>4. f.ticked = IF Narrows(c) THEN c.names ELSE f.listed
    <3>1. CASE rule = "Load"
      <4>1. g.ticked = c.names /\ Narrows(c) BY <1>7, <1>9, <1>11, <3>1
      <4>2. \A n \in names : g.seen[n] # "no" BY <1>11, <3>1
      <4>3. \A n \in f.listed : n \in f.ticked <=> n \in c.names
        BY <1>11, <2>1, <4>1, <4>2
      <4>4. f.ticked = c.names BY <1>7, <2>1, <4>3
      <4> QED BY <4>1, <4>4
    <3>2. CASE rule = "CoverAll"
      <4>1. g.ticked = names /\ ~Narrows(c) BY <1>9, <1>11, <3>2
      <4> QED BY <2>1, <4>1
    <3>3. CASE rule = "Unstated"
      <4>1. ~Narrows(c) BY <1>9, <3>3
      <4>2. g.others BY <1>1, <1>11, <4>1 DEF Narrows
      <4>3. \A n \in names : n \in g.ticked \/ g.seen[n] = "no" BY <1>11, <3>3
      <4> QED BY <2>1, <4>1, <4>2, <4>3
    <3> QED BY <1>8, <3>1, <3>2, <3>3
  <2>5. ReadIn(f, tab, c) BY <1>7, <1>11, <2>1, <2>2, <2>3, <2>4 DEF ReadIn
  <2> QED BY <1>2, <2>5
<1> QED BY <1>14, <1>15

\* What the pane finds of a log it comes back to is answered as was said.
LEMMA ComingBackIsAnswered ==
  ASSUME NEW m \in AxisLogs, NEW f, NEW tab, NEW c \in Criterias,
         said[m] \in Sayings, rest[m] \in BOOLEAN, muddled[m] \in SUBSET Values,
         ReadIn(f, tab, c), KeptAsSaid(c, said[m], rest[m], muddled[m])
  PROVE  Answered(f, tab, Heard(m, said[m], f.listed, Narrows(c)), rest[m],
                  muddled[m] \cup (IF Narrows(c) /\ f.memo = NoMemo
                                   THEN {n \in Values \ f.listed : said[m][n] = "hidden"} ELSE {}))
<1> DEFINE S == said[m]
           R == rest[m]
           D == muddled[m]
           T == Heard(m, S, f.listed, Narrows(c))
           C == D \cup (IF Narrows(c) /\ f.memo = NoMemo
                        THEN {n \in Values \ f.listed : S[n] = "hidden"} ELSE {})
<1>1. /\ f \in AxisEditors
      /\ f.listed = ToSet(tab) \cup c.names /\ f.manual = c.names
      /\ f.on = c.on /\ f.others = ~c.restricts
      /\ f.ticked = IF Narrows(c) THEN c.names ELSE f.listed
      /\ f.memo = IF Narrows(c) /\ ToSet(tab) \subseteq c.names THEN c ELSE NoMemo
      /\ \A n \in Values \ f.listed : f.seen[n] = "no"
      /\ \A n \in f.listed : f.seen[n] = IF n \in f.ticked THEN "ticked" ELSE "unticked"
  BY DEF ReadIn
<1>2. /\ R = ~c.restricts
      /\ \A n \in Values \ D :
           /\ S[n] = "shown" => n \in c.names
           /\ S[n] = "hidden" => Narrows(c) /\ n \notin c.names
           /\ S[n] = "unseen" /\ Narrows(c) => n \notin c.names
  BY DEF KeptAsSaid
<1>3. \A n \in Values : T[n] = IF n \notin f.listed \/ S[n] # "unseen" THEN S[n]
                               ELSE IF R /\ ~Narrows(c) THEN "shown" ELSE "hidden"
  BY DEF Heard
<1>4. S \in [Values -> {"unseen", "shown", "hidden"}] /\ f.listed \subseteq Values
  BY <1>1 DEF Sayings, AxisEditors
<1>5. ~Narrows(c) => c.restricts = FALSE BY DEF Narrows, Criterias
<1> HIDE DEF S, R, T
<1>6. ASSUME NEW n \in f.listed, n \notin D
      PROVE  T[n] = IF n \in f.ticked THEN "shown" ELSE "hidden"
  <2>1. n \in Values /\ S[n] \in {"unseen", "shown", "hidden"} BY <1>4, <1>6
  <2>2. CASE Narrows(c) BY <1>1, <1>2, <1>3, <1>6, <2>1, <2>2
  <2>3. CASE ~Narrows(c) BY <1>1, <1>2, <1>3, <1>5, <1>6, <2>1, <2>3
  <2> QED BY <2>2, <2>3
<1>7. ASSUME NEW n \in Values, n \notin f.listed, n \notin C
      PROVE  T[n] = S[n] /\ S[n] # "shown" /\ (f.memo = NoMemo => S[n] = "unseen")
  <2>1. n \notin D /\ n \notin c.names /\ S[n] \in {"unseen", "shown", "hidden"}
    BY <1>1, <1>4, <1>7
  <2>2. T[n] = S[n] /\ S[n] # "shown" BY <1>2, <1>3, <1>7, <2>1
  <2>3. f.memo = NoMemo => S[n] # "hidden" BY <1>2, <1>7, <2>1
  <2> QED BY <2>1, <2>2, <2>3
<1>8. /\ f.ticked \subseteq f.listed /\ f.others = R
      /\ \A n \in f.listed : f.seen[n] # "no"
  BY <1>1, <1>2
<1>9. ListIsAsSaid(f, T, R, C) BY <1>1, <1>6, <1>7, <1>8 DEF ListIsAsSaid
<1>10. Reproducing(f, C)
  <2>1. SUFFICES ASSUME f.memo # NoMemo PROVE Reproducing(f, C) BY DEF Reproducing
  <2>2. Narrows(c) /\ f.memo = c /\ f.listed = c.names /\ f.ticked = f.listed
    BY <1>1, <2>1
  <2> QED BY <1>1, <2>2 DEF Reproducing
<1> QED BY <1>1, <1>9, <1>10 DEF S, R, T, Answered

LEMMA CriteriaAreCriteria ==
  ASSUME NEW e \in AxisEditors
  PROVE  Criteria(e) \in Criterias
<1>1. CASE e.memo # NoMemo BY <1>1 DEF Criteria, Criterias, AxisEditors
<1>2. CASE e.memo = NoMemo
  <2>1. CoversAll(e) \in BOOLEAN /\ (~e.others) \in BOOLEAN BY DEF CoversAll
  <2> QED BY <1>2, <2>1 DEF Criteria, Criterias, AxisEditors
<1> QED BY <1>1, <1>2

\* What is kept of a log when the pane leaves it.
LEMMA LeavingKeeps ==
  ASSUME NEW l \in AxisLogs, NEW e, NEW tab,
         said[l] \in Sayings, rest[l] \in BOOLEAN, muddled[l] \in SUBSET Values,
         Answered(e, tab, said[l], rest[l], muddled[l])
  PROVE  KeptAsSaid(Criteria(e), Remembered(l, e), ~Criteria(e).restricts, muddled[l])
<1> DEFINE S == said[l]
           D == muddled[l]
           c == Criteria(e)
           T == Remembered(l, e)
<1>1. /\ e \in AxisEditors
      /\ e.listed \subseteq Values /\ e.ticked \subseteq e.listed
      /\ \A n \in e.listed \ D : S[n] = IF n \in e.ticked THEN "shown" ELSE "hidden"
      /\ e.memo # NoMemo =>
           /\ Narrows(e.memo) /\ e.listed = e.memo.names
           /\ D # Values => e.ticked = e.listed
           /\ \A n \in Values \ (e.listed \cup D) : S[n] # "shown"
  BY FreeListIsAnswered
<1>2. \A n \in Values : T[n] =
        IF e.memo # NoMemo \/ (n \in e.listed /\ (Narrows(c) \/ n \in e.ticked)) THEN S[n] ELSE "unseen"
  BY DEF Remembered
<1> HIDE DEF T, S
<1>3. SUFFICES ASSUME NEW n \in Values \ D
               PROVE  /\ T[n] = "shown" => n \in c.names
                      /\ T[n] = "hidden" => Narrows(c) /\ n \notin c.names
                      /\ T[n] = "unseen" /\ Narrows(c) => n \notin c.names
  BY DEF KeptAsSaid, T
<1>4. CASE e.memo # NoMemo
  <2>1. c = [e.memo EXCEPT !.on = e.on] /\ e.memo \in Criterias
    BY <1>1, <1>4 DEF Criteria, AxisEditors
  <2>2. c.names = e.listed /\ Narrows(c) /\ D # Values
    BY <1>1, <1>4, <2>1 DEF Narrows, Criterias
  <2> HIDE DEF c
  <2> QED BY <1>1, <1>2, <1>4, <2>2
<1>5. CASE e.memo = NoMemo
  <2>1. c.names = e.ticked BY <1>5 DEF Criteria
  <2> HIDE DEF c
  <2>2. n \in e.listed => S[n] = IF n \in e.ticked THEN "shown" ELSE "hidden"
    BY <1>1, <1>3
  <2> QED BY <1>1, <1>2, <1>5, <2>1, <2>2
<1> QED BY <1>4, <1>5

\* What is said of a log, and lost of it, once the program was started again (Restart).
SaidAgain(l, e, f, c) ==
  [n \in Values |-> IF n \in f.listed THEN "shown"
                    ELSE IF Narrows(c) \/ (e.on /\ said[l][n] = "hidden")
                    THEN Remembered(l, e)[n] ELSE "unseen"]

LostAgain(l, e, c, crash) ==
  IF ~Narrows(c) /\ ~rest[l] THEN Values
  ELSE muddled[l] \cup {n \in e.listed : /\ crash
                                        /\ (n \in e.ticked) # (~Narrows(c) \/ n \in c.names)}

\* What the program finds of a log when it is started again is answered as was said.
LEMMA StartingAgainIsAnswered ==
  ASSUME NEW l \in AxisLogs, NEW e, NEW tab, NEW f, NEW c \in Criterias, NEW crash \in BOOLEAN,
         said[l] \in Sayings, rest[l] \in BOOLEAN, muddled[l] \in SUBSET Values,
         Answered(e, tab, said[l], rest[l], muddled[l]),
         ReadIn(f, <<>>, c),
         ~crash \/ e.memo # NoMemo => c = Reduced(Criteria(e))
  PROVE  /\ Answered(f, <<>>, SaidAgain(l, e, f, c), ~c.restricts, LostAgain(l, e, c, crash))
         /\ SaidAgain(l, e, f, c) \in Sayings /\ LostAgain(l, e, c, crash) \in SUBSET Values
<1> DEFINE S == said[l]
           R == rest[l]
           D == muddled[l]
           U == Remembered(l, e)
           X == {n \in e.listed : /\ crash
                                  /\ (n \in e.ticked) # (~Narrows(c) \/ n \in c.names)}
           T == [n \in Values |-> IF n \in f.listed THEN "shown"
                                  ELSE IF Narrows(c) \/ (e.on /\ S[n] = "hidden") THEN U[n]
                                  ELSE "unseen"]
           C == IF ~Narrows(c) /\ ~R THEN Values ELSE D \cup X
           k == Criteria(e)
<1>1. /\ e \in AxisEditors
      /\ e.listed \subseteq Values /\ e.ticked \subseteq e.listed /\ e.others = R
      /\ \A n \in e.listed \ D : S[n] = IF n \in e.ticked THEN "shown" ELSE "hidden"
      /\ e.memo # NoMemo =>
           /\ Narrows(e.memo) /\ e.listed = e.memo.names
           /\ D # Values => e.others = ~e.memo.restricts
           /\ \A n \in Values \ (e.listed \cup D) : S[n] # "shown"
  BY FreeListIsAnswered
<1>2. \A n \in Values : U[n] =
        IF e.memo # NoMemo \/ (n \in e.listed /\ (Narrows(k) \/ n \in e.ticked)) THEN S[n] ELSE "unseen"
  BY DEF Remembered
<1>3. /\ f \in AxisEditors
      /\ f.listed = ToSet(<<>>) \cup c.names /\ f.manual = c.names
      /\ f.others = ~c.restricts
      /\ f.ticked = IF Narrows(c) THEN c.names ELSE f.listed
      /\ f.memo = IF Narrows(c) /\ ToSet(<<>>) \subseteq c.names THEN c ELSE NoMemo
      /\ \A n \in Values \ f.listed : f.seen[n] = "no"
      /\ \A n \in f.listed : f.seen[n] = IF n \in f.ticked THEN "ticked" ELSE "unticked"
  BY DEF ReadIn
<1>4. ToSet(<<>>) = {} BY DEF ToSet
<1>5. f.listed = c.names /\ f.ticked = c.names /\ f.memo = IF Narrows(c) THEN c ELSE NoMemo
  BY <1>3, <1>4
<1>6. c.names \subseteq Values /\ S \in [Values -> {"unseen", "shown", "hidden"}]
  BY DEF Criterias, Sayings
<1>7. /\ e.memo = NoMemo => k.on = e.on /\ k.names = e.ticked /\ k.all = CoversAll(e)
      /\ e.memo # NoMemo => k.on = e.on /\ k.names = e.memo.names /\ k.all = e.memo.all
                            /\ k.restricts = e.memo.restricts
  BY <1>1 DEF Criteria, AxisEditors, Criterias
<1>8. ~crash \/ e.memo # NoMemo => /\ Narrows(c) => c = k
                                   /\ ~Narrows(c) => ~k.on \/ k.all
  BY DEF Reduced, Narrows, Unstated
<1> HIDE DEF k, S, R, U
<1>9. T \in Sayings BY <1>2, <1>6 DEF Sayings
<1>10. C \in SUBSET Values BY <1>1 DEF D
<1>11. \A n \in Values : T[n] = IF n \in f.listed THEN "shown"
                                ELSE IF Narrows(c) \/ (e.on /\ S[n] = "hidden") THEN U[n] ELSE "unseen"
  OBVIOUS
<1> HIDE DEF T
<1>12. ASSUME NEW n \in Values, n \notin f.listed, n \notin C
       PROVE  IF Narrows(c) THEN T[n] # "shown" ELSE T[n] = "unseen"
  <2>1. n \notin D /\ n \notin X /\ D # Values /\ (~Narrows(c) => R) BY <1>12
  <2>2. U[n] # "unseen" => U[n] = S[n] /\ (e.memo # NoMemo \/ n \in e.listed) BY <1>2
  <2>3. n \in e.listed => S[n] = IF n \in e.ticked THEN "shown" ELSE "hidden"
    BY <1>1, <2>1
  <2>4. n \in e.listed /\ crash => (n \in e.ticked) = (~Narrows(c) \/ n \in c.names)
    BY <2>1
  <2>5. CASE Narrows(c)
    <3>1. SUFFICES ASSUME U[n] = "shown" PROVE FALSE BY <1>11, <1>12, <2>5
    <3>2. S[n] = "shown" /\ (e.memo # NoMemo \/ n \in e.listed) BY <2>2, <3>1
    <3>3. CASE e.memo # NoMemo
      <4>1. c = k BY <1>8, <2>5, <3>3
      <4>2. n \notin e.listed BY <1>1, <1>5, <1>7, <1>12, <3>3, <4>1
      <4> QED BY <1>1, <2>1, <3>2, <3>3, <4>2
    <3>4. CASE e.memo = NoMemo
      <4>1. n \in e.listed /\ n \in e.ticked BY <2>3, <3>2, <3>4
      <4>2. n \notin c.names BY <1>5, <1>12
      <4>3. ~crash BY <2>4, <2>5, <4>1, <4>2
      <4>4. c = k BY <1>8, <2>5, <4>3
      <4> QED BY <1>7, <3>4, <4>1, <4>2, <4>4
    <3> QED BY <3>3, <3>4
  <2>6. CASE ~Narrows(c)
    <3>1. SUFFICES ASSUME e.on, S[n] = "hidden", U[n] # "unseen" PROVE FALSE
      BY <1>11, <1>12, <2>6
    <3>2. CASE e.memo # NoMemo
      <4>1. k.all BY <1>7, <1>8, <2>6, <3>1, <3>2
      <4>2. e.memo.restricts BY <1>1, <1>7, <3>2, <4>1 DEF Narrows
      <4> QED BY <1>1, <2>1, <2>6, <3>2, <4>2
    <3>3. CASE e.memo = NoMemo
      <4>1. n \in e.listed /\ n \notin e.ticked BY <2>2, <2>3, <3>1, <3>3
      <4>2. ~crash BY <2>4, <2>6, <4>1
      <4>3. k.all BY <1>7, <1>8, <2>6, <3>1, <3>3, <4>2
      <4>4. e.ticked = e.listed BY <1>7, <3>1, <3>3, <4>3 DEF CoversAll
      <4> QED BY <4>1, <4>4
    <3> QED BY <3>2, <3>3
  <2> QED BY <2>5, <2>6
<1>13. \A n \in f.listed \ C : T[n] = IF n \in f.ticked THEN "shown" ELSE "hidden"
  BY <1>5, <1>6, <1>11
<1>14. ASSUME NEW n \in Values \ (f.listed \cup C)
       PROVE  IF f.memo # NoMemo THEN T[n] # "shown"
              ELSE T[n] = CASE f.seen[n] = "ticked" -> "shown" [] f.seen[n] = "unticked" -> "hidden"
                            [] OTHER -> "unseen"
  <2>1. f.seen[n] = "no" BY <1>3, <1>14
  <2>2. c # NoMemo BY AxisAssumption DEF Criterias
  <2>3. f.memo # NoMemo <=> Narrows(c) BY <1>5, <2>2
  <2>4. IF Narrows(c) THEN T[n] # "shown" ELSE T[n] = "unseen" BY <1>12, <1>14
  <2> QED BY <2>1, <2>3, <2>4
<1>15. \A n \in f.listed : f.seen[n] # "no" BY <1>3
<1>16. ListIsAsSaid(f, T, ~c.restricts, C)
  BY <1>3, <1>5, <1>13, <1>14, <1>15 DEF ListIsAsSaid
<1>17. Reproducing(f, C) BY <1>3, <1>5 DEF Reproducing
<1>18. Answered(f, <<>>, T, ~c.restricts, C) BY <1>3, <1>16, <1>17 DEF Answered
<1>19. T = SaidAgain(l, e, f, c) /\ C = LostAgain(l, e, c, crash)
  BY DEF SaidAgain, LostAgain, T, S, R, U
<1> QED BY <1>9, <1>10, <1>18, <1>19
-----------------------------------------------------------------------------
(* Every step.                                                               *)

LEMMA BoundHolds == AxisInv => BoundIsAnswered
<1> SUFFICES ASSUME AxisInv PROVE BoundIsAnswered OBVIOUS
<1>1. axis.log \in AxisLogs BY DEF AxisInv, AxisTypes
<1>2. table[axis.log] \in Seq(Values) BY <1>1 DEF AxisInv, AxisTypes
<1>3. ToSet(table[axis.log]) \subseteq Values BY <1>2 DEF ToSet
<1>4. /\ said[axis.log] \in Sayings /\ rest[axis.log] \in BOOLEAN
      /\ muddled[axis.log] \in SUBSET Values
  BY <1>1 DEF AxisInv, AxisTypes
<1> QED BY <1>1, <1>3, <1>4 DEF AxisInv, BoundIsAnswered

LEMMA ReducedOnce ==
  ASSUME NEW c \in Criterias
  PROVE  Reduced(c) \in Criterias /\ Reduced(Reduced(c)) = Reduced(c)
BY DEF Reduced, Unstated, Criterias

\* An edit is filed and applied (applyNow).
LEMMA StrokeKeeps ==
  ASSUME AxisInv, StrokeIsAnswered
  PROVE  AxisInv'
<1> DEFINE l == axis.log
<1>1. PICK f \in AxisEditors, saying \in Sayings, others \in BOOLEAN, lost \in SUBSET Values :
        /\ Stroke(f, saying, others, lost)
        /\ Answered(f, table[l], Meant(axis.e, f, saying), others, lost)
  BY DEF StrokeIsAnswered
<1>2. /\ l \in AxisLogs /\ AxisTypes
      /\ \A k \in AxisLogs : Reduced(filed[k]) = filed[k]
      /\ \A k \in AxisLogs \ {l} : KeptAsSaid(kept[k], said[k], rest[k], muddled[k])
  BY DEF AxisInv, AxisTypes
<1>3. /\ axis' = [axis EXCEPT !.e = f]
      /\ resolved' = [resolved EXCEPT ![l] = Resolve(Criteria(f), table[l])]
      /\ filed' = [filed EXCEPT ![l] = Reduced(Criteria(f))]
      /\ said' = [said EXCEPT ![l] = Meant(axis.e, f, saying)]
      /\ rest' = [rest EXCEPT ![l] = others]
      /\ muddled' = [muddled EXCEPT ![l] = lost]
      /\ table' = table /\ kept' = kept
  BY <1>1 DEF Stroke, ApplyNow_, Apply, Meant
<1>4. Criteria(f) \in Criterias BY <1>1, CriteriaAreCriteria
<1>5. /\ Reduced(Criteria(f)) \in Criterias
      /\ Reduced(Reduced(Criteria(f))) = Reduced(Criteria(f))
  BY <1>4, ReducedOnce
<1>6. Meant(axis.e, f, saying) \in Sayings BY <1>1 DEF Meant, Sayings
<1>7. axis'.log = l /\ axis'.e = f /\ axis' \in [log : AxisLogs, e : AxisEditors]
  BY <1>1, <1>2, <1>3 DEF AxisTypes
<1>8. /\ table \in [AxisLogs -> Seq(Values)] /\ kept \in [AxisLogs -> Criterias]
      /\ filed \in [AxisLogs -> Criterias] /\ resolved = [k \in AxisLogs |-> resolved[k]]
      /\ said \in [AxisLogs -> Sayings] /\ rest \in [AxisLogs -> BOOLEAN]
      /\ muddled \in [AxisLogs -> SUBSET Values]
  BY <1>2 DEF AxisTypes
<1> HIDE DEF l
<1>9. AxisTypes'
  <2>1. filed' \in [AxisLogs -> Criterias] /\ said' \in [AxisLogs -> Sayings]
    BY <1>2, <1>3, <1>5, <1>6, <1>8
  <2>2. rest' \in [AxisLogs -> BOOLEAN] /\ muddled' \in [AxisLogs -> SUBSET Values]
    BY <1>1, <1>2, <1>3, <1>8
  <2>3. resolved' = [k \in AxisLogs |-> resolved'[k]] BY <1>2, <1>3, <1>8
  <2> QED BY <1>3, <1>7, <1>8, <2>1, <2>2, <2>3 DEF AxisTypes
<1>10. /\ said'[l] = Meant(axis.e, f, saying) /\ rest'[l] = others /\ muddled'[l] = lost
       /\ resolved'[l] = Resolve(Criteria(f), table[l]) /\ filed'[l] = Reduced(Criteria(f))
  BY <1>2, <1>3, <1>8
<1>11. \A k \in AxisLogs \ {l} : /\ said'[k] = said[k] /\ rest'[k] = rest[k]
                                 /\ muddled'[k] = muddled[k] /\ filed'[k] = filed[k]
  BY <1>2, <1>3, <1>8
<1>12. \A k \in AxisLogs : Reduced(filed'[k]) = filed'[k] BY <1>2, <1>5, <1>10, <1>11
<1>13. \A k \in AxisLogs \ {l} : KeptAsSaid(kept'[k], said'[k], rest'[k], muddled'[k])
  BY <1>2, <1>3, <1>11
<1>14. Answered(axis'.e, table'[l], said'[l], rest'[l], muddled'[l])
  BY <1>1, <1>3, <1>7, <1>10
<1> QED BY <1>3, <1>7, <1>9, <1>10, <1>12, <1>13, <1>14 DEF AxisInv

\* A tick of a log (Learn) that brings another table.
LEMMA LearnKeeps ==
  ASSUME AxisInv, NEW l \in AxisLogs, NEW tab \in Seq(Values), Learn(l, tab)
  PROVE  AxisInv'
<1>1. AxisTypes /\ BoundIsAnswered BY BoundHolds DEF AxisInv
<1>2. ToSet(tab) \subseteq Values BY DEF ToSet
<1>3. /\ table \in [AxisLogs -> Seq(Values)] /\ kept \in [AxisLogs -> Criterias]
      /\ filed \in [AxisLogs -> Criterias] /\ resolved = [k \in AxisLogs |-> resolved[k]]
      /\ axis \in [log : AxisLogs, e : AxisEditors]
      /\ said \in [AxisLogs -> Sayings] /\ rest \in [AxisLogs -> BOOLEAN]
      /\ muddled \in [AxisLogs -> SUBSET Values]
  BY <1>1 DEF AxisTypes
<1>4. /\ table' = [table EXCEPT ![l] = tab]
      /\ kept' = kept /\ filed' = filed /\ rest' = rest
  BY DEF Learn
<1>5. table' \in [AxisLogs -> Seq(Values)] BY <1>3, <1>4
<1>6. CASE axis.log # l
  <2>1. axis' = axis /\ resolved' = resolved /\ said' = said /\ muddled' = muddled
    BY <1>6 DEF Learn
  <2>2. table'[axis.log] = table[axis.log] BY <1>3, <1>4, <1>6
  <2>3. AxisTypes' BY <1>1, <1>4, <1>5, <2>1 DEF AxisTypes
  <2> QED BY <1>4, <2>1, <2>2, <2>3 DEF AxisInv
<1>7. CASE axis.log = l
  <2> DEFINE e == axis.e
             f == Refreshed(e, tab)
             T == Heard(l, said[l], f.listed, e.memo # NoMemo)
             C == muddled[l] \cup LeftOut(e, f, l) \cup Slipped(e, f)
  <2>1. /\ axis' = [axis EXCEPT !.e = f]
        /\ resolved' = [resolved EXCEPT ![l] = Resolve(Criteria(f), tab)]
        /\ said' = [said EXCEPT ![l] = T]
        /\ muddled' = [muddled EXCEPT ![l] = C]
    BY <1>7 DEF Learn, Apply, Slipped
  <2>2. /\ said[l] \in Sayings /\ rest[l] \in BOOLEAN /\ muddled[l] \in SUBSET Values
        /\ Answered(e, table[l], said[l], rest[l], muddled[l])
    BY <1>1, <1>7 DEF BoundIsAnswered
  <2>3. /\ Answered(f, tab, T, rest[l], C)
        /\ f.memo # NoMemo => f.memo = e.memo /\ f.on = e.on
        /\ LeftOut(e, f, l) \in SUBSET Values /\ Slipped(e, f) \in SUBSET Values
    BY <1>2, <2>2, ScanIsAnswered
  <2>4. T \in Sayings BY <2>2 DEF Heard, Sayings
  <2>5. C \in SUBSET Values BY <2>2, <2>3
  <2>6. f \in AxisEditors BY <2>3 DEF Answered
  <2>7. f.memo # NoMemo => Criteria(f) = Criteria(e) BY <2>3 DEF Criteria
  <2> HIDE DEF f, T, C
  <2>8. axis'.log = l /\ axis'.e = f /\ axis' \in [log : AxisLogs, e : AxisEditors]
    BY <1>3, <1>7, <2>1, <2>6
  <2>9. AxisTypes'
    <3>1. said' \in [AxisLogs -> Sayings] /\ muddled' \in [AxisLogs -> SUBSET Values]
      BY <1>3, <2>1, <2>4, <2>5
    <3>2. resolved' = [k \in AxisLogs |-> resolved'[k]] BY <1>3, <2>1
    <3> QED BY <1>3, <1>4, <1>5, <2>8, <3>1, <3>2 DEF AxisTypes
  <2>10. /\ table'[l] = tab /\ said'[l] = T /\ muddled'[l] = C
         /\ resolved'[l] = Resolve(Criteria(f), tab)
    BY <1>3, <1>4, <2>1
  <2>11. \A k \in AxisLogs \ {l} : said'[k] = said[k] /\ muddled'[k] = muddled[k]
    BY <1>3, <2>1
  <2>12. f.memo # NoMemo => filed[l] = Reduced(Criteria(f))
    BY <1>7, <2>3, <2>7 DEF AxisInv
  <2>13. \A k \in AxisLogs \ {l} : KeptAsSaid(kept'[k], said'[k], rest'[k], muddled'[k])
    BY <1>4, <1>7, <2>11 DEF AxisInv
  <2>14. \A k \in AxisLogs : Reduced(filed[k]) = filed[k] BY DEF AxisInv
  <2>15. Answered(axis'.e, table'[l], said'[l], rest'[l], muddled'[l])
    BY <1>4, <2>3, <2>8, <2>10
  <2> QED BY <1>4, <2>8, <2>9, <2>10, <2>12, <2>13, <2>14, <2>15 DEF AxisInv
<1> QED BY <1>6, <1>7

\* The pane goes to another log (setActiveView).
LEMMA RebindKeeps ==
  ASSUME AxisInv, NEW m \in AxisLogs, Switch(m)
  PROVE  AxisInv'
<1> DEFINE l == axis.log
           e == axis.e
           c == kept[m]
           f == Hydrated(e, table[m], c)
           out == Remembered(l, e)
           T == Heard(m, said[m], f.listed, Narrows(c))
           C == muddled[m] \cup (IF Narrows(c) /\ f.memo = NoMemo
                                 THEN {n \in Values \ f.listed : said[m][n] = "hidden"} ELSE {})
           r == ~Criteria(e).restricts
<1>1. AxisTypes /\ BoundIsAnswered BY BoundHolds DEF AxisInv
<1>2. /\ table \in [AxisLogs -> Seq(Values)] /\ kept \in [AxisLogs -> Criterias]
      /\ filed \in [AxisLogs -> Criterias] /\ resolved = [k \in AxisLogs |-> resolved[k]]
      /\ axis \in [log : AxisLogs, e : AxisEditors]
      /\ said \in [AxisLogs -> Sayings] /\ rest \in [AxisLogs -> BOOLEAN]
      /\ muddled \in [AxisLogs -> SUBSET Values]
  BY <1>1 DEF AxisTypes
<1>3. l \in AxisLogs /\ m # l /\ e \in AxisEditors BY <1>2 DEF Switch
<1>4. /\ kept' = [kept EXCEPT ![l] = Criteria(e)]
      /\ axis' = [log |-> m, e |-> f]
      /\ resolved' = [resolved EXCEPT ![m] = Resolve(Criteria(f), table[m])]
      /\ filed' = [filed EXCEPT ![l] = Reduced(Criteria(e)), ![m] = Reduced(Criteria(f))]
      /\ said' = [said EXCEPT ![l] = out, ![m] = Heard(m, @, f.listed, Narrows(c))]
      /\ muddled' = [muddled EXCEPT ![m] = C]
      /\ rest' = [rest EXCEPT ![l] = r]
      /\ table' = table
  BY DEF Switch
<1>5. ToSet(table[m]) \subseteq Values /\ c \in Criterias
  <2>1. table[m] \in Seq(Values) BY <1>2
  <2> QED BY <1>2, <2>1 DEF ToSet
<1>6. ReadIn(f, table[m], c) BY <1>3, <1>5, StateIsPutBack
<1>7. /\ said[m] \in Sayings /\ rest[m] \in BOOLEAN /\ muddled[m] \in SUBSET Values
      /\ said[l] \in Sayings /\ rest[l] \in BOOLEAN /\ muddled[l] \in SUBSET Values
  BY <1>2, <1>3
<1>8. KeptAsSaid(c, said[m], rest[m], muddled[m]) BY <1>3 DEF AxisInv
<1>9. Answered(f, table[m], T, rest[m], C)
  <2> HIDE DEF f, c
  <2> QED BY <1>5, <1>6, <1>7, <1>8, ComingBackIsAnswered
<1>10. Answered(e, table[l], said[l], rest[l], muddled[l]) BY DEF AxisInv
<1>11. KeptAsSaid(Criteria(e), out, r, muddled[l])
  <2> HIDE DEF e
  <2> QED BY <1>3, <1>7, <1>10, LeavingKeeps
<1>12. Criteria(e) \in Criterias /\ Criteria(f) \in Criterias
  BY <1>3, <1>6, CriteriaAreCriteria DEF ReadIn
<1>13. /\ Reduced(Criteria(e)) \in Criterias /\ Reduced(Criteria(f)) \in Criterias
       /\ Reduced(Reduced(Criteria(e))) = Reduced(Criteria(e))
       /\ Reduced(Reduced(Criteria(f))) = Reduced(Criteria(f))
  BY <1>12, ReducedOnce
<1>14. out \in Sayings /\ T \in Sayings BY <1>7 DEF Remembered, Heard, Sayings
<1>15. C \in SUBSET Values /\ r \in BOOLEAN BY <1>7
<1>16. f \in AxisEditors BY <1>6 DEF ReadIn
<1> HIDE DEF f, out, e, c, C, r
<1>17. /\ said'[m] = T /\ said'[l] = out
       /\ \A k \in AxisLogs \ {l, m} : said'[k] = said[k]
       /\ said' \in [AxisLogs -> Sayings]
  <2> HIDE DEF l
  <2>1. said' = [[said EXCEPT ![l] = out] EXCEPT ![m] = T] BY <1>2, <1>3, <1>4
  <2> HIDE DEF T
  <2> QED BY <1>2, <1>3, <1>14, <2>1
<1> HIDE DEF T, l
<1>18. /\ filed'[m] = Reduced(Criteria(f)) /\ filed'[l] = Reduced(Criteria(e))
       /\ \A k \in AxisLogs \ {l, m} : filed'[k] = filed[k]
       /\ filed' \in [AxisLogs -> Criterias]
  BY <1>2, <1>3, <1>4, <1>13
<1>19. /\ kept' \in [AxisLogs -> Criterias] /\ kept'[l] = Criteria(e)
       /\ \A k \in AxisLogs \ {l} : kept'[k] = kept[k]
  BY <1>2, <1>3, <1>4, <1>12
<1>20. /\ muddled' \in [AxisLogs -> SUBSET Values] /\ muddled'[m] = C
       /\ \A k \in AxisLogs \ {m} : muddled'[k] = muddled[k]
  BY <1>2, <1>4, <1>15
<1>21. /\ rest' \in [AxisLogs -> BOOLEAN] /\ rest'[l] = r
       /\ \A k \in AxisLogs \ {l} : rest'[k] = rest[k]
  BY <1>2, <1>3, <1>4, <1>15
<1>22. /\ resolved' = [k \in AxisLogs |-> resolved'[k]]
       /\ resolved'[m] = Resolve(Criteria(f), table[m])
  BY <1>2, <1>4
<1>23. axis'.log = m /\ axis'.e = f /\ axis' \in [log : AxisLogs, e : AxisEditors]
  BY <1>4, <1>16
<1>24. AxisTypes'
  BY <1>2, <1>4, <1>17, <1>18, <1>19, <1>20, <1>21, <1>22, <1>23 DEF AxisTypes
<1>25. Answered(axis'.e, table'[m], said'[m], rest'[m], muddled'[m])
  BY <1>3, <1>4, <1>9, <1>17, <1>20, <1>21, <1>23
<1>26. ASSUME NEW k \in AxisLogs \ {m}
       PROVE  KeptAsSaid(kept'[k], said'[k], rest'[k], muddled'[k])
  <2>1. CASE k = l BY <1>3, <1>11, <1>17, <1>19, <1>20, <1>21, <2>1
  <2>2. CASE k # l
    <3>1. KeptAsSaid(kept[k], said[k], rest[k], muddled[k]) BY <2>2 DEF AxisInv, l
    <3> QED BY <1>17, <1>19, <1>20, <1>21, <2>2, <3>1
  <2> QED BY <2>1, <2>2
<1>27. \A k \in AxisLogs : Reduced(filed'[k]) = filed'[k]
  <2>1. \A k \in AxisLogs : Reduced(filed[k]) = filed[k] BY DEF AxisInv
  <2> QED BY <1>13, <1>18, <2>1
<1> QED BY <1>4, <1>18, <1>22, <1>23, <1>24, <1>25, <1>26, <1>27 DEF AxisInv

LEMMA BlankIsAnEditor == Blank \in AxisEditors
BY DEF Blank, AxisEditors

\* A quit or a crash, and the log is opened again.
LEMMA RestartKeeps ==
  ASSUME AxisInv, NEW crash \in BOOLEAN, Restart(crash)
  PROVE  AxisInv'
<1> DEFINE l == axis.log
           e == axis.e
           c == IF crash THEN filed[l] ELSE Reduced(Criteria(e))
           f == Hydrated(Blank, <<>>, c)
           T == SaidAgain(l, e, f, c)
           C == LostAgain(l, e, c, crash)
<1>1. AxisTypes /\ BoundIsAnswered BY BoundHolds DEF AxisInv
<1>2. /\ table \in [AxisLogs -> Seq(Values)] /\ kept \in [AxisLogs -> Criterias]
      /\ filed \in [AxisLogs -> Criterias] /\ resolved = [k \in AxisLogs |-> resolved[k]]
      /\ axis \in [log : AxisLogs, e : AxisEditors]
      /\ said \in [AxisLogs -> Sayings] /\ rest \in [AxisLogs -> BOOLEAN]
      /\ muddled \in [AxisLogs -> SUBSET Values]
  BY <1>1 DEF AxisTypes
<1>3. /\ l \in AxisLogs /\ e \in AxisEditors /\ filed[l] \in Criterias
      /\ said[l] \in Sayings /\ rest[l] \in BOOLEAN /\ muddled[l] \in SUBSET Values
  BY <1>2
<1>4. /\ table' = [table EXCEPT ![l] = <<>>]
      /\ filed' = [filed EXCEPT ![l] = c]
      /\ axis' = [log |-> l, e |-> f]
      /\ resolved' = [resolved EXCEPT ![l] = Resolve(Criteria(f), <<>>)]
      /\ rest' = [rest EXCEPT ![l] = ~c.restricts]
      /\ kept' = kept
  BY DEF Restart
<1>5. said' = [said EXCEPT ![l] = T] BY <1>3 DEF Restart, SaidAgain
<1>6. muddled' = [muddled EXCEPT ![l] = C] BY <1>3 DEF Restart, LostAgain
<1>7. Criteria(e) \in Criterias BY <1>3, CriteriaAreCriteria
<1>8. /\ Reduced(Criteria(e)) \in Criterias
      /\ Reduced(Reduced(Criteria(e))) = Reduced(Criteria(e))
  BY <1>7, ReducedOnce
<1>9. /\ Reduced(filed[l]) = filed[l]
      /\ e.memo # NoMemo => filed[l] = Reduced(Criteria(e))
      /\ Answered(e, table[l], said[l], rest[l], muddled[l])
  BY <1>3 DEF AxisInv
<1>10. c \in Criterias /\ Reduced(c) = c BY <1>3, <1>8, <1>9
<1>11. ~crash \/ e.memo # NoMemo => c = Reduced(Criteria(e)) BY <1>9
<1> HIDE DEF c
<1>12. ReadIn(f, <<>>, c)
  <2>1. ToSet(<<>>) \subseteq Values BY DEF ToSet
  <2> QED BY <1>10, <2>1, BlankIsAnEditor, StateIsPutBack
<1> HIDE DEF f
<1>13. Answered(f, <<>>, T, ~c.restricts, C) /\ T \in Sayings /\ C \in SUBSET Values
  <2> HIDE DEF e, l
  <2> QED BY <1>3, <1>9, <1>10, <1>11, <1>12, StartingAgainIsAnswered
<1> HIDE DEF T, C
<1>14. f \in AxisEditors /\ f.on = c.on /\ (f.memo = c \/ f.memo = NoMemo)
  BY <1>12 DEF ReadIn
<1>15. f.memo # NoMemo => c = Reduced(Criteria(f))
  <2>1. SUFFICES ASSUME f.memo # NoMemo PROVE c = Reduced(Criteria(f)) OBVIOUS
  <2>2. Criteria(f) = [c EXCEPT !.on = c.on] BY <1>14, <2>1 DEF Criteria
  <2>3. Criteria(f) = c BY <1>10, <2>2 DEF Criterias
  <2> QED BY <1>10, <2>3
<1> HIDE DEF e
<1>16. axis'.log = l /\ axis'.e = f /\ axis' \in [log : AxisLogs, e : AxisEditors]
  BY <1>3, <1>4, <1>14
<1>17. (~c.restricts) \in BOOLEAN OBVIOUS
<1> HIDE DEF l
<1>18. AxisTypes'
  <2>1. table' \in [AxisLogs -> Seq(Values)] /\ filed' \in [AxisLogs -> Criterias]
    BY <1>2, <1>3, <1>4, <1>10
  <2>2. said' \in [AxisLogs -> Sayings] /\ muddled' \in [AxisLogs -> SUBSET Values]
    BY <1>2, <1>3, <1>5, <1>6, <1>13
  <2>3. rest' \in [AxisLogs -> BOOLEAN] /\ resolved' = [k \in AxisLogs |-> resolved'[k]]
    BY <1>2, <1>3, <1>4, <1>17
  <2> QED BY <1>2, <1>4, <1>16, <2>1, <2>2, <2>3 DEF AxisTypes
<1>19. /\ table'[l] = <<>> /\ filed'[l] = c /\ said'[l] = T /\ muddled'[l] = C
       /\ rest'[l] = ~c.restricts /\ resolved'[l] = Resolve(Criteria(f), <<>>)
  BY <1>2, <1>3, <1>4, <1>5, <1>6
<1>20. \A k \in AxisLogs \ {l} : /\ filed'[k] = filed[k] /\ said'[k] = said[k]
                                 /\ muddled'[k] = muddled[k] /\ rest'[k] = rest[k]
  BY <1>2, <1>3, <1>4, <1>5, <1>6
<1>21. \A k \in AxisLogs : Reduced(filed'[k]) = filed'[k]
  BY <1>10, <1>19, <1>20 DEF AxisInv
<1>22. \A k \in AxisLogs \ {l} : KeptAsSaid(kept'[k], said'[k], rest'[k], muddled'[k])
  BY <1>4, <1>20 DEF AxisInv, l
<1> QED BY <1>13, <1>15, <1>16, <1>18, <1>19, <1>21, <1>22 DEF AxisInv

LEMMA AxisStarts == AxisInit => AxisInv
<1> SUFFICES ASSUME AxisInit PROVE AxisInv OBVIOUS
<1>1. PICK l \in AxisLogs : axis = [log |-> l, e |-> Blank] BY DEF AxisInit
<1>2. axis.log = l /\ axis.e = Blank BY <1>1
<1>3. Unstated \in Criterias /\ Reduced(Unstated) = Unstated
  BY DEF Unstated, Criterias, Reduced
<1>4. AxisTypes
  <2>1. axis \in [log : AxisLogs, e : AxisEditors] BY <1>1, BlankIsAnEditor
  <2>2. table \in [AxisLogs -> Seq(Values)] BY DEF AxisInit
  <2>3. kept \in [AxisLogs -> Criterias] /\ filed \in [AxisLogs -> Criterias]
    BY <1>3 DEF AxisInit
  <2>4. said \in [AxisLogs -> Sayings] BY DEF AxisInit, Sayings
  <2>5. /\ rest \in [AxisLogs -> BOOLEAN] /\ muddled \in [AxisLogs -> SUBSET Values]
        /\ resolved = [k \in AxisLogs |-> resolved[k]]
    BY DEF AxisInit
  <2> QED BY <2>1, <2>2, <2>3, <2>4, <2>5 DEF AxisTypes
<1>5. /\ table[l] = <<>> /\ resolved[l] = [on |-> FALSE, ids |-> {}]
      /\ said[l] = [n \in Values |-> "unseen"] /\ rest[l] = TRUE /\ muddled[l] = {}
  BY DEF AxisInit
<1>6. /\ Blank.listed = {} /\ Blank.ticked = {} /\ Blank.on = TRUE /\ Blank.others = TRUE
      /\ Blank.manual = {} /\ Blank.seen = [n \in Values |-> "no"] /\ Blank.memo = NoMemo
  BY DEF Blank
<1>7. ToSet(<<>>) = {} BY DEF ToSet
<1>8. Answered(Blank, <<>>, [n \in Values |-> "unseen"], TRUE, {})
  BY <1>6, <1>7, BlankIsAnEditor DEF Answered, Reproducing, ListIsAsSaid
<1>9. Resolve(Criteria(Blank), <<>>) = [on |-> FALSE, ids |-> {}]
  <2>1. Criteria(Blank).on = TRUE /\ Criteria(Blank).all = TRUE
    BY <1>6 DEF Criteria, CoversAll
  <2>2. {i \in DOMAIN <<>> : <<>>[i] \in Criteria(Blank).names} = {} OBVIOUS
  <2>3. (Criteria(Blank).on /\ ~Criteria(Blank).all) = FALSE BY <2>1
  <2> QED BY <2>2, <2>3 DEF Resolve
<1>10. ASSUME NEW k \in AxisLogs
       PROVE  KeptAsSaid(kept[k], said[k], rest[k], muddled[k]) /\ Reduced(filed[k]) = filed[k]
  <2>1. /\ kept[k] = Unstated /\ filed[k] = Unstated /\ rest[k] = TRUE
        /\ said[k] = [n \in Values |-> "unseen"]
    BY DEF AxisInit
  <2>2. KeptAsSaid(Unstated, [n \in Values |-> "unseen"], TRUE, muddled[k])
    BY DEF KeptAsSaid, Unstated, Narrows
  <2> QED BY <1>3, <2>1, <2>2
<1> QED BY <1>2, <1>4, <1>5, <1>6, <1>8, <1>9, <1>10 DEF AxisInv

LEMMA AxisSteps == AxisInv /\ [AxisNext]_axisVars => AxisInv'
<1> SUFFICES ASSUME AxisInv, [AxisNext]_axisVars PROVE AxisInv' OBVIOUS
<1>1. BoundIsAnswered /\ AxisTypes BY BoundHolds DEF AxisInv
<1>2. ASSUME NEW l \in AxisLogs, NEW n \in Values, Discover(l, n) PROVE AxisInv'
  <2>1. Append(table[l], n) \in Seq(Values) BY <1>1 DEF AxisTypes
  <2>2. Learn(l, Append(table[l], n)) BY <1>2 DEF Discover
  <2> QED BY <2>1, <2>2, LearnKeeps
<1>3. ASSUME NEW l \in AxisLogs, NEW tab \in Seq(Values), Rotate(l, tab) PROVE AxisInv'
  BY <1>3, LearnKeeps DEF Rotate
<1>4. ASSUME NEW n \in Values, Toggle(n) \/ AddTyped(n) \/ ShowOnly(n) \/ Hide(n) PROVE AxisInv'
  BY <1>1, <1>4, StrokeKeeps, ToggleIsAnswered, AddTypedIsAnswered, ShowOnlyIsAnswered, HideIsAnswered
<1>5. ASSUME NEW v \in SUBSET Values, Invert(v) \/ \E b \in BOOLEAN : SetAll(v, b) PROVE AxisInv'
  BY <1>1, <1>5, StrokeKeeps, InvertIsAnswered, SetAllIsAnswered
<1>6. CASE ToggleOthers \/ ToggleAxis \/ ShowOthersOnly \/ ClearAll
  BY <1>1, <1>6, StrokeKeeps, ToggleOthersIsAnswered, ToggleAxisIsAnswered, ShowOthersOnlyIsAnswered,
     ClearAllIsAnswered
<1>7. ASSUME NEW m \in AxisLogs, Switch(m) PROVE AxisInv' BY <1>7, RebindKeeps
<1>8. ASSUME NEW b \in BOOLEAN, Restart(b) PROVE AxisInv' BY <1>8, RestartKeeps
<1>9. CASE UNCHANGED axisVars BY <1>9 DEF axisVars, AxisInv, AxisTypes
<1>10. <<>> \in Seq(Values) /\ \A n \in Values : <<n>> \in Seq(Values) OBVIOUS
<1> QED BY <1>2, <1>3, <1>4, <1>5, <1>6, <1>7, <1>8, <1>9, <1>10 DEF AxisNext

\* The list of a bound log answers as was said, and the filter is read off it.
LEMMA AnsweredIsAsSaid == AxisInv => NamesAreAsSaid
<1> DEFINE l == axis.log
           e == axis.e
           tab == table[l]
           S == said[l]
           D == muddled[l]
           c == Criteria(e)
<1> SUFFICES ASSUME AxisInv PROVE NamesAreAsSaid OBVIOUS
<1>1. Answered(e, tab, S, rest[l], D) /\ ToSet(tab) \subseteq Values
  BY BoundHolds DEF BoundIsAnswered
<1>2. resolved[l] = Resolve(c, tab) BY DEF AxisInv
<1>3. e.listed = ToSet(tab) \cup e.manual BY <1>1 DEF Answered
<1>4. /\ e \in AxisEditors
      /\ \A n \in e.listed \ D : S[n] = IF n \in e.ticked THEN "shown" ELSE "hidden"
      /\ e.memo # NoMemo => /\ e.listed = e.memo.names
                            /\ D # Values => e.ticked = e.listed
  BY <1>1, FreeListIsAnswered
<1>5. /\ e.memo = NoMemo => c.on = e.on /\ c.names = e.ticked /\ c.all = CoversAll(e)
      /\ e.memo # NoMemo => c.on = e.on /\ c.names = e.memo.names
  BY <1>4 DEF Criteria, AxisEditors, Criterias
<1> HIDE DEF c
<1>6. ASSUME NEW n \in ToSet(tab)
      PROVE  n \in Passing(resolved[l], tab) <=> (c.on /\ ~c.all => n \in c.names)
  <2>1. PICK i \in DOMAIN tab : tab[i] = n BY DEF ToSet
  <2>2. /\ resolved[l].on = (c.on /\ ~c.all)
        /\ resolved[l].ids = {j \in DOMAIN tab : tab[j] \in c.names}
    BY <1>2 DEF Resolve
  <2> HIDE DEF tab, l
  <2> QED BY <2>1, <2>2 DEF Passing
<1>7. ASSUME NEW n \in ToSet(tab) \cap (Values \ D)
      PROVE  /\ n \in e.ticked <=> S[n] = "shown"
             /\ n \in Passing(resolved[l], tab) <=> (~e.on \/ S[n] = "shown")
  <2>1. n \in e.listed /\ n \notin D /\ D # Values BY <1>3, <1>7
  <2>2. S[n] = IF n \in e.ticked THEN "shown" ELSE "hidden" BY <1>4, <2>1
  <2>3. n \in Passing(resolved[l], tab) <=> (c.on /\ ~c.all => n \in c.names) BY <1>6
  <2>4. CASE e.memo # NoMemo BY <1>4, <1>5, <2>1, <2>2, <2>3, <2>4
  <2>5. CASE e.memo = NoMemo
    <3>1. e.on /\ c.all => n \in e.ticked BY <1>5, <2>1, <2>5 DEF CoversAll
    <3> QED BY <1>5, <2>2, <2>3, <2>5, <3>1
  <2> QED BY <2>4, <2>5
<1> QED BY <1>3, <1>7 DEF NamesAreAsSaid, Sound, AxisLog

LEMMA AxisHolds == AxisSpec => []AxisInv
BY AxisStarts, AxisSteps, PTL DEF AxisSpec

\* A subsystem of the bound log is listed, ticked exactly if the reader was shown it or
\* said so, and the log is filtered by just that (populateList, refreshDiscoveredLists,
\* setCriteria, readValueAxis).
THEOREM NamesStayAsSaid == AxisSpec => []NamesAreAsSaid
BY AxisHolds, AnsweredIsAsSaid, PTL

=============================================================================
