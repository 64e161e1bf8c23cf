---------------------------- MODULE WindowProofs ----------------------------
(***************************************************************************)
(* What the window owes the reader, for any queries and any logs: a search *)
(* is pending only where its bar shows the text it is for, news that was   *)
(* not read is marked on its tab or held back for the tray, an accepted    *)
(* dialog does to the settings of logs what it said, and what was saved of *)
(* a log is read back.                                                     *)
(***************************************************************************)
EXTENDS FindBar, Arrivals, LogProfiles, SettingsPool, FiniteSetTheorems, WellFoundedInduction, TLAPS

-----------------------------------------------------------------------------
(* The Find bars                                                           *)

\* What PendingIsOwed says, and that the boxes and the reports are those of the pages.
FindInv == inFront \in Pages /\ PendingIsOwed

\* A search takes the text of its box, and marks rows only with its bar on the screen.
LEMMA SearchTakes ==
  ASSUME FindInv, NEW p, NEW forward, NEW fromStart, NEW q, RunFind(p, forward, fromStart, q),
         p = inFront, owes' = owes \ {p}, inFront' = inFront
  PROVE  FindInv'
<1>1. owes' = {} BY DEF FindInv, PendingIsOwed
<1>2. onScreen' = onScreen \cup {p} /\ (marks' = marks \/ marks' = NoText \/ p = "log")
  BY DEF RunFind, FindInv, Pages
<1> QED BY <1>1, <1>2 DEF FindInv, PendingIsOwed

LEMMA FindStep == FindInv /\ [FindNext]_findVars => FindInv'
<1> SUFFICES ASSUME FindInv, [FindNext]_findVars PROVE FindInv' OBVIOUS
<1>1. ASSUME NEW q, Type(q) PROVE FindInv'
  <2>1. CASE inFront \in slow BY <1>1, <2>1 DEF Type, FindInv, PendingIsOwed
  <2>2. CASE inFront \notin slow BY <1>1, <2>2, SearchTakes DEF Type, EmitSearch
  <2> QED BY <2>1, <2>2
<1>2. ASSUME NEW p \in Pages, BurstEnds(p) PROVE FindInv'
  <2>1. p = inFront BY <1>2 DEF BurstEnds, FindInv, PendingIsOwed
  <2> QED BY <1>2, <2>1, SearchTakes DEF BurstEnds, EmitSearch
<1>3. ASSUME NEW forward \in BOOLEAN, NEW fromStart \in BOOLEAN, PressInBar(forward, fromStart)
      PROVE  FindInv'
  BY <1>3, SearchTakes DEF PressInBar, EmitSearch
<1>4. ASSUME NEW forward \in BOOLEAN, PressF3(forward) PROVE FindInv'
  BY <1>4, SearchTakes DEF PressF3, CancelPendingSearch
<1>5. CASE Activate BY <1>5 DEF Activate, FindInv, PendingIsOwed
<1>6. CASE CloseBar BY <1>6 DEF CloseBar, HideEvent, FindInv, PendingIsOwed, Pages
<1>7. CASE SwitchPage
  <2>1. inFront' \in Pages BY <1>7 DEF SwitchPage, FindInv, Pages
  <2> QED BY <1>7, <2>1 DEF SwitchPage, HideEvent, FindInv, PendingIsOwed
<1>8. CASE HighlightFind BY <1>8 DEF HighlightFind, FindInv, PendingIsOwed
<1>9. CASE UNCHANGED findVars BY <1>9 DEF findVars, FindInv, PendingIsOwed
<1> QED BY <1>1, <1>2, <1>3, <1>4, <1>5, <1>6, <1>7, <1>8, <1>9 DEF FindNext

\* Whatever the reader types, steps to, hides or turns to, a search is owed only to text
\* no search has taken, in the page in front, with its bar on the screen (hideEvent(),
\* cancelPendingSearch(), runFind()).
THEOREM NoStraySearch == FindSpec => []PendingIsOwed
<1>1. FindInit => FindInv BY DEF FindInit, FindInv, PendingIsOwed, Pages
<1>2. FindInv => PendingIsOwed BY DEF FindInv
<1> QED BY <1>1, <1>2, FindStep, PTL DEF FindSpec

-----------------------------------------------------------------------------
(* News of logs nobody is reading                                          *)

NewsTyped ==
  /\ service \in BOOLEAN /\ tray \in BOOLEAN /\ (tray => service) /\ atHand \subseteq Watched
  /\ ruleActs \in [Watched -> Acts] /\ unseen \in [Watched -> BOOLEAN]
  /\ pending \in [Watched -> BOOLEAN] /\ owed \in [Watched -> {"no", "owed", "slipped"}]
  /\ windowUp \in BOOLEAN /\ bindsTo \in Watched \cup {NoLog}
  /\ facing \in Watched \cup {EditorPage, NoLog} /\ lastNotified \in Watched \cup {NoLog}

\* News that is not marked on its tab is held back by an open log for a rule that still
\* asks for a message, and that is what keeps the tray's icon there.
HeldBack ==
  \A l \in Watched : owed[l] = "owed" /\ ~unseen[l] =>
    l \in atHand /\ pending[l] /\ "notify" \in ruleActs[l] /\ tray

NewsInv == NewsTyped /\ HeldBack

\* Where the reader looks: a mark goes with the news it stood for.
LEMMA LookingKeeps ==
  ASSUME NewsInv, NEW p \in Watched \cup {EditorPage, NoLog}, NEW w \in BOOLEAN,
         NEW looks \in BOOLEAN, Faced(p, w, looks), pending' = pending,
         \A m \in atHand : m \in atHand' /\ ruleActs'[m] = ruleActs[m],
         tray' = tray \/ atHand = {}
  PROVE  /\ HeldBack' /\ unseen' \in [Watched -> BOOLEAN] /\ windowUp' \in BOOLEAN
         /\ owed' \in [Watched -> {"no", "owed", "slipped"}]
         /\ (bindsTo' = bindsTo \/ bindsTo' = p)
<1> DEFINE b == IF p = EditorPage THEN bindsTo ELSE p
<1>1. /\ windowUp' = w /\ bindsTo' = b
      /\ unseen' = [l \in Watched |-> unseen[l] /\ ~(looks /\ IsBeingRead(l, b, w))]
      /\ owed' = [l \in Watched |->
           IF p = l /\ w THEN "no"
           ELSE IF owed[l] = "owed" /\ p = EditorPage /\ b = l /\ ~unseen'[l] THEN "slipped"
           ELSE owed[l]]
  BY DEF Faced
<1>2. unseen' \in [Watched -> BOOLEAN]
  <2>1. \A l \in Watched : (unseen[l] /\ ~(looks /\ IsBeingRead(l, b, w))) \in BOOLEAN
    OBVIOUS
  <2> QED BY <1>1, <2>1
<1>3. owed' \in [Watched -> {"no", "owed", "slipped"}] BY <1>1 DEF NewsInv, NewsTyped
<1>4. HeldBack'
  <2>1. SUFFICES ASSUME NEW l \in Watched, owed'[l] = "owed", ~unseen'[l]
                 PROVE  l \in atHand' /\ pending'[l] /\ "notify" \in ruleActs'[l] /\ tray'
    BY DEF HeldBack
  <2>2. owed[l] = "owed" BY <1>1, <2>1
  <2>3. ~unseen[l]
    <3>1. CASE p = EditorPage BY <1>1, <2>1, <2>2, <3>1 DEF IsBeingRead
    <3>2. CASE p # EditorPage BY <1>1, <2>1, <2>2, <3>2 DEF IsBeingRead
    <3> QED BY <3>1, <3>2
  <2> QED BY <2>2, <2>3 DEF NewsInv, HeldBack
<1> QED BY <1>1, <1>2, <1>3, <1>4

\* The icon stays for an open log whose rules ask for it.
LEMMA IconStays ==
  ASSUME NewsTyped, NEW open \in SUBSET Watched, NEW acts, NEW l \in open, "notify" \in acts[l], tray,
         tray' = TrayPresence(open, acts)
  PROVE  tray'
  BY DEF NewsTyped, TrayPresence

LEMMA OpensAndTurns ==
  ASSUME NewsInv,
         \/ \E l \in Watched, acts \in Acts, restored \in BOOLEAN : OpenWatched(l, acts, restored)
         \/ \E p \in Watched \cup {EditorPage} : TurnTo(p)
         \/ SwitchWindow
         \/ \E w \in BOOLEAN : ClickMessage(w)
  PROVE  NewsInv'
<1>1. ASSUME NEW l \in Watched, NEW acts \in Acts, NEW restored \in BOOLEAN,
             OpenWatched(l, acts, restored)
      PROVE  NewsInv'
  <2>1. /\ l \notin atHand /\ atHand' = atHand \cup {l}
        /\ ruleActs' = [ruleActs EXCEPT ![l] = acts] /\ Faced(l, windowUp, TRUE)
        /\ UNCHANGED <<service, pending>>
    BY <1>1 DEF OpenWatched
  <2>2. \/ tray' = tray
        \/ atHand = {} /\ tray' = TrayPresence(atHand', ruleActs')
    BY <1>1 DEF OpenWatched
  <2>3. /\ ruleActs' \in [Watched -> Acts]
        /\ \A m \in atHand : m \in atHand' /\ ruleActs'[m] = ruleActs[m]
    BY <2>1 DEF NewsInv, NewsTyped
  <2>4. /\ HeldBack' /\ unseen' \in [Watched -> BOOLEAN] /\ windowUp' \in BOOLEAN
        /\ owed' \in [Watched -> {"no", "owed", "slipped"}] /\ (bindsTo' = bindsTo \/ bindsTo' = l)
    BY <2>1, <2>2, <2>3, LookingKeeps DEF NewsInv, NewsTyped
  <2>5. tray' \in BOOLEAN /\ (tray' => service')
    <3>1. CASE tray' = tray BY <2>1, <3>1 DEF NewsInv, NewsTyped
    <3>2. CASE tray' = TrayPresence(atHand', ruleActs')
      BY <2>1, <3>2 DEF NewsInv, NewsTyped, TrayPresence
    <3> QED BY <2>2, <3>1, <3>2
  <2>6. facing' = l /\ lastNotified' = lastNotified BY <1>1 DEF OpenWatched, Faced
  <2> QED BY <2>1, <2>3, <2>4, <2>5, <2>6 DEF NewsInv, NewsTyped
<1>2. ASSUME NEW p \in Watched \cup {EditorPage, NoLog}, NEW w \in BOOLEAN, NEW looks \in BOOLEAN,
             Faced(p, w, looks), p # EditorPage \/ bindsTo' = bindsTo,
             UNCHANGED <<service, tray, atHand, ruleActs, pending, lastNotified>>
      PROVE  NewsInv'
  <2>1. /\ HeldBack' /\ unseen' \in [Watched -> BOOLEAN] /\ windowUp' \in BOOLEAN
        /\ owed' \in [Watched -> {"no", "owed", "slipped"}] /\ (bindsTo' = bindsTo \/ bindsTo' = p)
    BY <1>2, LookingKeeps
  <2>2. facing' = p BY <1>2 DEF Faced
  <2> QED BY <1>2, <2>1, <2>2 DEF NewsInv, NewsTyped
<1>3. ASSUME NEW p, NEW w, NEW looks, Faced(p, w, looks) PROVE p # EditorPage \/ bindsTo' = bindsTo
  BY <1>3 DEF Faced
<1>4. ASSUME NEW p \in Watched \cup {EditorPage}, TurnTo(p) PROVE NewsInv'
  BY <1>2, <1>3, <1>4 DEF TurnTo
<1>5. CASE SwitchWindow BY <1>2, <1>3, <1>5 DEF SwitchWindow, NewsInv, NewsTyped
<1>6. ASSUME NEW w \in BOOLEAN, ClickMessage(w) PROVE NewsInv'
  BY <1>2, <1>3, <1>6 DEF ClickMessage, NewsInv, NewsTyped
<1> QED BY <1>1, <1>4, <1>5, <1>6

LEMMA ClosesAndEdits ==
  ASSUME NewsInv,
         \/ \E l \in Watched, p \in Watched \cup {EditorPage, NoLog} : CloseWatched(l, p)
         \/ \E acts \in Acts : EditRules(acts)
  PROVE  NewsInv'
<1>1. ASSUME NEW l \in Watched, NEW p \in Watched \cup {EditorPage, NoLog}, CloseWatched(l, p)
      PROVE  NewsInv'
  <2>1. /\ atHand' = atHand \ {l} /\ ruleActs' = [ruleActs EXCEPT ![l] = {}]
        /\ pending' = [pending EXCEPT ![l] = FALSE] /\ tray' = TrayPresence(atHand', ruleActs')
        /\ unseen' = [m \in Watched |-> unseen[m] /\ m # l /\
                         ~(p = m /\ p # facing /\ IsBeingRead(m, bindsTo', windowUp))]
        /\ owed' = [m \in Watched |-> IF m = l \/ (m = p /\ windowUp) THEN "no" ELSE owed[m]]
        /\ bindsTo' = IF p \in atHand THEN p ELSE IF bindsTo = l THEN NoLog ELSE bindsTo
        /\ facing' = p /\ lastNotified' \in {lastNotified, NoLog}
        /\ UNCHANGED <<service, windowUp>>
    BY <1>1 DEF CloseWatched
  <2>2. ruleActs' \in [Watched -> Acts] /\ pending' \in [Watched -> BOOLEAN]
    BY <2>1 DEF NewsInv, NewsTyped, Acts
  <2>3. unseen' \in [Watched -> BOOLEAN]
    <3>1. \A m \in Watched : (unseen[m] /\ m # l /\
                 ~(p = m /\ p # facing /\ IsBeingRead(m, bindsTo', windowUp))) \in BOOLEAN
      OBVIOUS
    <3> QED BY <2>1, <3>1
  <2>4. /\ owed' \in [Watched -> {"no", "owed", "slipped"}] /\ bindsTo' \in Watched \cup {NoLog}
        /\ atHand' \subseteq Watched
    BY <2>1 DEF NewsInv, NewsTyped
  <2>5. tray' \in BOOLEAN /\ (tray' => service')
    BY <2>1 DEF NewsInv, NewsTyped, TrayPresence
  <2>6. HeldBack'
    <3>1. SUFFICES ASSUME NEW m \in Watched, owed'[m] = "owed", ~unseen'[m]
                   PROVE  m \in atHand' /\ pending'[m] /\ "notify" \in ruleActs'[m] /\ tray'
      BY DEF HeldBack
    <3>2. m # l /\ owed[m] = "owed" /\ ~unseen[m] BY <2>1, <3>1 DEF IsBeingRead
    <3>3. m \in atHand /\ pending[m] /\ "notify" \in ruleActs[m] /\ tray
      BY <3>2 DEF NewsInv, HeldBack
    <3>4. m \in atHand' /\ pending'[m] /\ "notify" \in ruleActs'[m]
      BY <2>1, <3>2, <3>3 DEF NewsInv, NewsTyped
    <3> QED BY <2>1, <2>4, <3>3, <3>4, IconStays DEF NewsInv
  <2> QED BY <2>1, <2>2, <2>3, <2>4, <2>5, <2>6 DEF NewsInv, NewsTyped
<1>2. ASSUME NEW acts \in Acts, EditRules(acts) PROVE NewsInv'
  <2>1. /\ bindsTo \in Watched /\ ruleActs' = [ruleActs EXCEPT ![bindsTo] = acts]
        /\ tray' = TrayPresence(atHand, ruleActs')
        /\ owed' = [owed EXCEPT ![bindsTo] =
                      IF "notify" \notin acts /\ ~unseen[bindsTo] THEN "no" ELSE @]
        /\ lastNotified' \in {lastNotified, NoLog}
        /\ UNCHANGED <<service, atHand, facing, bindsTo, windowUp, unseen, pending>>
    BY <1>2 DEF EditRules, NewsInv, NewsTyped
  <2>2. /\ ruleActs' \in [Watched -> Acts] /\ owed' \in [Watched -> {"no", "owed", "slipped"}]
        /\ tray' \in BOOLEAN /\ (tray' => service')
    BY <2>1 DEF NewsInv, NewsTyped, TrayPresence
  <2>3. HeldBack'
    <3>1. SUFFICES ASSUME NEW m \in Watched, owed'[m] = "owed", ~unseen'[m]
                   PROVE  m \in atHand' /\ pending'[m] /\ "notify" \in ruleActs'[m] /\ tray'
      BY DEF HeldBack
    <3>2. owed[m] = "owed" /\ ~unseen[m] /\ (m = bindsTo => "notify" \in acts)
      BY <2>1, <3>1 DEF NewsInv, NewsTyped
    <3>3. m \in atHand /\ pending[m] /\ "notify" \in ruleActs[m] /\ tray
      BY <3>2 DEF NewsInv, HeldBack
    <3>4. "notify" \in ruleActs'[m] BY <2>1, <3>2, <3>3 DEF NewsInv, NewsTyped
    <3> QED BY <2>1, <3>3, <3>4, IconStays DEF NewsInv, NewsTyped
  <2> QED BY <2>1, <2>2, <2>3 DEF NewsInv, NewsTyped
<1> QED BY <1>1, <1>2

LEMMA NewsComes ==
  ASSUME NewsInv,
         \/ \E l \in Watched, acts \in Acts : Arrive(l, acts)
         \/ \E l \in Watched : IntervalEnds(l) \/ Rescan(l)
         \/ Pump
  PROVE  NewsInv'
<1>1. /\ UNCHANGED <<service, tray, atHand, facing, bindsTo, windowUp, ruleActs>>
      /\ lastNotified' \in Watched \cup {NoLog}
  BY DEF NewsInv, NewsTyped, Arrive, IntervalEnds, Rescan, Pump
<1>2. ASSUME NEW l \in Watched, NEW acts \in Acts, Arrive(l, acts), IsBeingRead(l, bindsTo, windowUp)
      PROVE  NewsInv'
  <2>1. /\ owed' = [owed EXCEPT ![l] = IF ReallyRead(l) THEN @ ELSE "slipped"]
        /\ UNCHANGED <<unseen, pending>>
    BY <1>2 DEF Arrive
  <2>2. NewsTyped' BY <1>1, <2>1 DEF NewsInv, NewsTyped
  <2>3. HeldBack' BY <1>1, <2>1 DEF NewsInv, NewsTyped, HeldBack
  <2> QED BY <2>2, <2>3 DEF NewsInv
<1>3. ASSUME NEW l \in Watched, NEW acts \in Acts, Arrive(l, acts), ~IsBeingRead(l, bindsTo, windowUp)
      PROVE  NewsInv'
  <2> DEFINE rings == "notify" \in acts /\ tray
             shows == rings /\ ~quiet[l]
  <2>1. /\ l \in atHand /\ acts # {} /\ acts \subseteq ruleActs[l]
        /\ unseen' = [unseen EXCEPT ![l] = @ \/ MarkedAs(l, acts)]
        /\ pending' = [pending EXCEPT ![l] = (@ \/ rings) /\ ~shows]
        /\ owed' = [owed EXCEPT ![l] = IF shows THEN "no" ELSE "owed"]
    BY <1>3 DEF Arrive
  <2>2. unseen \in [Watched -> BOOLEAN] /\ pending \in [Watched -> BOOLEAN]
        /\ owed \in [Watched -> {"no", "owed", "slipped"}]
    BY DEF NewsInv, NewsTyped
  <2>3. (unseen[l] \/ MarkedAs(l, acts)) \in BOOLEAN /\ ((pending[l] \/ rings) /\ ~shows) \in BOOLEAN
    OBVIOUS
  <2>4. unseen' \in [Watched -> BOOLEAN] /\ pending' \in [Watched -> BOOLEAN]
    BY <2>1, <2>2, <2>3
  <2>5. owed' \in [Watched -> {"no", "owed", "slipped"}] BY <2>1, <2>2
  <2>6. HeldBack'
    <3>1. SUFFICES ASSUME NEW m \in Watched, owed'[m] = "owed", ~unseen'[m]
                   PROVE  m \in atHand' /\ pending'[m] /\ "notify" \in ruleActs'[m] /\ tray'
      BY DEF HeldBack
    <3>2. CASE m = l
      <4>1. ~shows /\ ~MarkedAs(l, acts) BY <2>1, <2>2, <3>1, <3>2
      <4>2. rings BY <2>1, <4>1 DEF MarkedAs, Acts
      <4>3. pending'[l] BY <2>1, <2>2, <4>1, <4>2
      <4> QED BY <1>1, <2>1, <3>2, <4>2, <4>3
    <3>3. CASE m # l
      <4>1. owed[m] = "owed" /\ ~unseen[m] /\ pending'[m] = pending[m]
        BY <2>1, <2>2, <3>1, <3>3
      <4> QED BY <1>1, <4>1 DEF NewsInv, HeldBack
    <3> QED BY <3>2, <3>3
  <2> QED BY <1>1, <2>4, <2>5, <2>6 DEF NewsInv, NewsTyped
<1>4. CASE Pump
  <2> DEFINE told == {l \in atHand : pending[l] /\ ~IsBeingRead(l, bindsTo, windowUp) /\ ~quiet[l]}
  <2>1. /\ pending' = [l \in Watched |-> pending[l] /\ l \notin told]
        /\ owed' = [l \in Watched |-> IF l \in told /\ owed[l] = "owed" THEN "no" ELSE owed[l]]
        /\ unseen' = unseen
    BY <1>4 DEF Pump
  <2>2. \A l \in Watched : (pending[l] /\ l \notin told) \in BOOLEAN OBVIOUS
  <2> HIDE DEF told
  <2>3. pending' \in [Watched -> BOOLEAN] /\ owed' \in [Watched -> {"no", "owed", "slipped"}]
    BY <2>1, <2>2 DEF NewsInv, NewsTyped
  <2>4. HeldBack' BY <1>1, <2>1 DEF NewsInv, HeldBack
  <2> QED BY <1>1, <2>1, <2>3, <2>4 DEF NewsInv, NewsTyped
<1>5. ASSUME NEW l \in Watched, IntervalEnds(l) PROVE NewsInv'
  BY <1>1, <1>5 DEF IntervalEnds, NewsInv, NewsTyped, HeldBack
<1>6. ASSUME NEW l \in Watched, Rescan(l) PROVE NewsInv'
  <2>1. /\ pending' = [pending EXCEPT ![l] = FALSE] /\ unseen' = unseen
        /\ owed' = [owed EXCEPT ![l] = IF unseen[l] THEN @ ELSE "no"]
    BY <1>6 DEF Rescan
  <2>2. NewsTyped' BY <1>1, <2>1 DEF NewsInv, NewsTyped
  <2>3. HeldBack' BY <1>1, <2>1 DEF NewsInv, NewsTyped, HeldBack
  <2> QED BY <2>2, <2>3 DEF NewsInv
<1> QED BY <1>2, <1>3, <1>4, <1>5, <1>6

LEMMA NewsStep == NewsInv /\ [ArrivalsNext]_alertVars => NewsInv'
<1> SUFFICES ASSUME NewsInv, [ArrivalsNext]_alertVars PROVE NewsInv' OBVIOUS
<1>1. CASE ArrivalsNext BY <1>1, OpensAndTurns, ClosesAndEdits, NewsComes DEF ArrivalsNext
<1>2. CASE UNCHANGED alertVars BY <1>2 DEF alertVars, NewsInv, NewsTyped, HeldBack
<1> QED BY <1>1, <1>2

LEMMA NewsHolds == ArrivalsSpec => []NewsInv
<1>1. (\E svc \in BOOLEAN : ArrivalsInit(svc)) => NewsInv
  BY DEF ArrivalsInit, NewsInv, NewsTyped, HeldBack, Acts
<1> QED BY <1>1, NewsStep, PTL DEF ArrivalsSpec

\* With any number of logs, and whatever is opened, closed, turned to, answered or edited
\* meanwhile, news that was neither read nor told is marked on its tab or held back for
\* the tray (handleAlerts(), clearUnseenMatch(), updateTrayPresence()).
THEOREM NoNewsIsLost == ArrivalsSpec => []NewsIsTold
<1>1. NewsInv => NewsIsTold BY DEF NewsInv, HeldBack, NewsIsTold
<1> QED BY <1>1, NewsHolds, PTL

-----------------------------------------------------------------------------
(* The settings of logs and the Preferences dialog                         *)

\* The least-number principle, from the well-foundedness of finite sets.
LEMMA LeastMember ==
  ASSUME NEW S \in SUBSET Nat, S # {}
  PROVE  Min(S) \in S
<1> DEFINE R == StrictSubsetOrdering(Nat)
           T == {1 .. n : n \in S}
<1>1. T \subseteq FiniteSubsetsOf(Nat) /\ T # {}
  <2>1. \A n \in S : 1 .. n \in SUBSET Nat /\ IsFiniteSet(1 .. n) BY FS_Interval
  <2> QED BY <2>1 DEF FiniteSubsetsOf
<1>2. PICK x \in T : \A y \in T : <<y, x>> \notin R
  BY <1>1, FS_StrictSubsetOrderingWellFounded, WFMin
<1>3. PICK m \in S : x = 1 .. m BY <1>2
<1>4. ASSUME NEW k \in S, k < m
      PROVE  FALSE
  <2>1. m \in 1 .. m /\ m \notin 1 .. k /\ 1 .. k \subseteq 1 .. m BY <1>4
  <2>2. <<1 .. k, 1 .. m>> \in R BY <2>1 DEF StrictSubsetOrdering
  <2> QED BY <1>2, <1>3, <2>2
<1>5. \A k \in S : m <= k BY <1>4
<1> QED BY <1>3, <1>5 DEF Min

Patterns == [id : PatternIds, covers : SUBSET Logs, profile : Profiles]

LEMMA TreeParts ==
  \A t \in Trees :
     /\ t.defaults \in Profiles /\ t.patterns \in Seq(Patterns) /\ Len(t.patterns) \in Nat
     /\ \A i \in 1 .. Len(t.patterns) : t.patterns[i].profile \in Profiles
<1> TAKE t \in Trees
<1>1. t.defaults \in Profiles /\ t.patterns \in Seq(Patterns) BY DEF Trees, Patterns
<1>2. Len(t.patterns) \in Nat /\ \A i \in 1 .. Len(t.patterns) : t.patterns[i] \in Patterns
  BY <1>1
<1>3. \A q \in Patterns : q.profile \in Profiles BY DEF Patterns
<1> QED BY <1>1, <1>2, <1>3

\* The pattern a log falls under, and the pattern of an identity, is a place in the tree.
LEMMA PlacesInTree ==
  \A t \in Trees : \A n :
    MatchingPattern(t, n) \in 0 .. Len(t.patterns) /\ IndexOf(t, n) \in 0 .. Len(t.patterns)
<1> TAKE t \in Trees
<1> TAKE n
<1> DEFINE M == {i \in 1 .. Len(t.patterns) : n \in t.patterns[i].covers}
           I == {i \in 1 .. Len(t.patterns) : t.patterns[i].id = n}
<1>1. Len(t.patterns) \in Nat BY TreeParts
<1>2. /\ MatchingPattern(t, n) = IF M # {} THEN Min(M) ELSE 0
      /\ IndexOf(t, n) = IF I # {} THEN Min(I) ELSE 0
  BY DEF MatchingPattern, IndexOf, SelectInSeq
<1>3. (M # {} => Min(M) \in M) /\ (I # {} => Min(I) \in I)
  <2>1. M \in SUBSET Nat /\ I \in SUBSET Nat OBVIOUS
  <2> QED BY <2>1, LeastMember
<1> QED BY <1>1, <1>2, <1>3

\* Whatever a log is called, it inherits a profile.
LEMMA InheritedTyped == \A t \in Trees : \A l : Inherited(t, l) \in Profiles
<1> TAKE t \in Trees
<1> TAKE l
<1>1. t.defaults \in Profiles /\ \A i \in 1 .. Len(t.patterns) : t.patterns[i].profile \in Profiles
  BY TreeParts
<1>2. MatchingPattern(t, l) \in 0 .. Len(t.patterns) /\ Len(t.patterns) \in Nat
  BY PlacesInTree, TreeParts
<1> QED BY <1>1, <1>2 DEF Inherited

\* e is the dialog d with something edited: it still asks for the same reason and of the
\* same log, and a question asked of an open does not turn into "Apply".
SameAsk(d, e) ==
  e \in Dialogs /\ e.why = d.why /\ e.log = d.log /\ (e.apply = d.apply \/ d.why = "preferences")

\* What the dialog's helpers change.
LEMMA RowEdits ==
  \A d \in Dialogs : \A l : \A p \in Profiles :
     LET e == WithRow(d, l, p)
     IN  SameAsk(d, e) /\ e.tree = d.tree /\ e.row = p /\ e.apply = d.apply
<1> TAKE d \in Dialogs
<1> TAKE l
<1> TAKE p \in Profiles
<1>1. PICK f \in BOOLEAN : f = (p = Inherited(d.tree, l)) OBVIOUS
<1>2. WithRow(d, l, p) = [d EXCEPT !.row = p, !.follows = f] BY <1>1 DEF WithRow
<1> QED BY <1>2 DEF SameAsk, Dialogs

LEMMA RowSyncs ==
  \A d \in Dialogs : LET s == SyncFileRowToParent(d)
     IN SameAsk(d, s) /\ s.tree = d.tree /\ s.apply = d.apply /\ s.applyNode = d.applyNode
<1> TAKE d \in Dialogs
<1>1. CASE d.log = NoProfile BY <1>1 DEF SyncFileRowToParent, SameAsk
<1>2. CASE d.log # NoProfile /\ d.follows
  <2>1. Inherited(d.tree, d.log) \in Profiles BY InheritedTyped DEF Dialogs
  <2>2. SyncFileRowToParent(d) = [d EXCEPT !.row = Inherited(d.tree, d.log)]
    BY <1>2 DEF SyncFileRowToParent
  <2> QED BY <2>1, <2>2 DEF SameAsk, Dialogs
<1>3. CASE d.log # NoProfile /\ ~d.follows
  <2>2. SyncFileRowToParent(d) = [d EXCEPT !.follows = (d.row = Inherited(d.tree, d.log))]
    BY <1>3 DEF SyncFileRowToParent
  <2> QED BY <2>2 DEF SameAsk, Dialogs
<1> QED BY <1>1, <1>2, <1>3

LEMMA NodeLoads ==
  \A d \in Dialogs, n \in Nodes :
     SameAsk(d, LoadNode(d, n)) /\ LoadNode(d, n).tree = d.tree
<1> TAKE d \in Dialogs, n \in Nodes
<1> DEFINE s == SyncFileRowToParent(d)
<1>1. SameAsk(d, s) /\ s.tree = d.tree BY RowSyncs
<1>2. LoadNode(d, n) = [s EXCEPT !.node = n] BY DEF LoadNode
<1> HIDE DEF s
<1> QED BY <1>1, <1>2 DEF SameAsk, Dialogs

LEMMA AskedNodes == \A d \in Dialogs : \A n : ProfileOf(d, n) \in Profiles \cup {NoProfile}
<1> TAKE d \in Dialogs
<1> TAKE n
<1>1. d.row \in Profiles /\ d.apply \in Profiles \cup {NoProfile} /\ d.tree \in Trees
  BY DEF Dialogs
<1>2. /\ d.tree.defaults \in Profiles
      /\ \A i \in 1 .. Len(d.tree.patterns) : d.tree.patterns[i].profile \in Profiles
  BY <1>1, TreeParts
<1>3. IndexOf(d.tree, n) \in 0 .. Len(d.tree.patterns) /\ Len(d.tree.patterns) \in Nat
  BY <1>1, PlacesInTree, TreeParts
<1> QED BY <1>1, <1>2, <1>3 DEF ProfileOf

\* What an accepted dialog says differs from the dialog in its row and in what "Apply" copies.
LEMMA FinalTyped ==
  \A d \in Dialogs :
     LET e == Final(d)
     IN  /\ e \in Dialogs /\ e.why = d.why /\ e.log = d.log /\ e.tree = d.tree
         /\ d.apply = NoProfile => e.apply = NoProfile
<1> TAKE d \in Dialogs
<1> DEFINE s == SyncFileRowToParent(d)
           p == ProfileOf(s, s.applyNode)
<1>1. SameAsk(d, s) /\ s.tree = d.tree /\ s.apply = d.apply BY RowSyncs
<1>2. Final(d) = IF s.apply = NoProfile THEN s ELSE [s EXCEPT !.apply = p] BY DEF Final
<1>3. s \in Dialogs BY <1>1 DEF SameAsk
<1>4. p \in Profiles \cup {NoProfile} BY <1>3, AskedNodes
<1> HIDE DEF s, p
<1>5. CASE s.apply = NoProfile BY <1>1, <1>2, <1>5 DEF SameAsk
<1>6. CASE s.apply # NoProfile
  <2>1. Final(d) = [s EXCEPT !.apply = p] BY <1>2, <1>6
  <2>2. [s EXCEPT !.apply = p] \in Dialogs BY <1>3, <1>4 DEF Dialogs
  <2>3. LET e == [s EXCEPT !.apply = p] IN e.why = s.why /\ e.log = s.log /\ e.tree = s.tree
    BY <1>3 DEF Dialogs
  <2> QED BY <1>1, <1>6, <2>1, <2>2, <2>3 DEF SameAsk
<1> QED BY <1>5, <1>6

\* Edits of the dialog's tree leave it a tree.
LEMMA TreeEdits ==
  \A d \in Dialogs : \A t \in Trees :
     LET e == [d EXCEPT !.tree = t] IN SameAsk(d, e)
BY DEF SameAsk, Dialogs

LEMMA DefaultsEdits ==
  \A d \in Dialogs : \A p \in Profiles : SameAsk(d, [d EXCEPT !.tree.defaults = p])
<1> TAKE d \in Dialogs
<1> TAKE p \in Profiles
<1>1. d.tree \in Trees BY DEF Dialogs
<1>2. [d.tree EXCEPT !.defaults = p] \in Trees BY <1>1 DEF Trees
<1>3. [d EXCEPT !.tree.defaults = p] = [d EXCEPT !.tree = [d.tree EXCEPT !.defaults = p]]
  OBVIOUS
<1> QED BY <1>2, <1>3, TreeEdits

LEMMA PatternsEdits ==
  \A d \in Dialogs : \A q \in Seq(Patterns) : SameAsk(d, [d EXCEPT !.tree.patterns = q])
<1> TAKE d \in Dialogs
<1> TAKE q \in Seq(Patterns)
<1>1. d.tree \in Trees BY DEF Dialogs
<1>2. [d.tree EXCEPT !.patterns = q] \in Trees BY <1>1 DEF Trees, Patterns
<1>3. [d EXCEPT !.tree.patterns = q] = [d EXCEPT !.tree = [d.tree EXCEPT !.patterns = q]]
  OBVIOUS
<1> QED BY <1>2, <1>3, TreeEdits

LEMMA PatternEdits ==
  \A d \in Dialogs : \A i : \A p \in Profiles : \A c \in SUBSET Logs :
     /\ SameAsk(d, [d EXCEPT !.tree.patterns[i].profile = p])
     /\ SameAsk(d, [d EXCEPT !.tree.patterns[i] = [@ EXCEPT !.profile = p, !.covers = c]])
<1> TAKE d \in Dialogs
<1> TAKE i
<1> TAKE p \in Profiles
<1> TAKE c \in SUBSET Logs
<1> DEFINE s == d.tree.patterns
           one == [s EXCEPT ![i].profile = p]
           two == [s EXCEPT ![i] = [@ EXCEPT !.profile = p, !.covers = c]]
<1>1. s \in Seq(Patterns) BY TreeParts DEF Dialogs
<1>2. \A q : (i \in 1 .. Len(s) => q \in Patterns) => [s EXCEPT ![i] = q] \in Seq(Patterns)
  <2>1. s = [j \in 1 .. Len(s) |-> s[j]] /\ Len(s) \in Nat BY <1>1
  <2>2. CASE i \in 1 .. Len(s) BY <1>1, <2>2
  <2>3. CASE i \notin 1 .. Len(s)
    <3>1. \A q : [s EXCEPT ![i] = q] = s BY <2>1, <2>3
    <3> QED BY <1>1, <3>1
  <2> QED BY <2>2, <2>3
<1>3. one \in Seq(Patterns) /\ two \in Seq(Patterns)
  <2>1. \A q \in Patterns : /\ [q EXCEPT !.profile = p] \in Patterns
                            /\ [q EXCEPT !.profile = p, !.covers = c] \in Patterns
    BY DEF Patterns
  <2>2. /\ one = [s EXCEPT ![i] = [s[i] EXCEPT !.profile = p]]
        /\ two = [s EXCEPT ![i] = [s[i] EXCEPT !.profile = p, !.covers = c]]
    OBVIOUS
  <2>3. i \in 1 .. Len(s) => s[i] \in Patterns BY <1>1
  <2> QED BY <1>2, <2>1, <2>2, <2>3
<1>4. /\ [d EXCEPT !.tree.patterns[i].profile = p] = [d EXCEPT !.tree.patterns = one]
      /\ [d EXCEPT !.tree.patterns[i] = [@ EXCEPT !.profile = p, !.covers = c]]
           = [d EXCEPT !.tree.patterns = two]
  OBVIOUS
<1> QED BY <1>3, <1>4, PatternsEdits

LEMMA SameAskChains ==
  \A d, e, f : SameAsk(d, e) /\ SameAsk(e, f) => SameAsk(d, f)
BY DEF SameAsk

\* An open that asks has a log and no "Apply"; the other two questions are about open tabs.
Asking ==
  /\ dialog.why # "preferences" => dialog.log \in Logs /\ dialog.apply = NoProfile
  /\ dialog.why # "open" /\ dialog.log # NoProfile => tab[dialog.log] # NoProfile

\* The types, that some tab is in front while any is open, and what a shown dialog is of.
ProfileInv ==
  /\ ProfileTypeOK
  /\ front = NoProfile => \A l \in Logs : tab[l] = NoProfile
  /\ dialog # NoProfile => Asking

LEMMA MadeKeeps ==
  \A e : ProfileInv /\ dialog # NoProfile /\ SameAsk(dialog, e) /\ Made(e) => ProfileInv'
<1> SUFFICES ASSUME NEW e, ProfileInv, dialog # NoProfile, SameAsk(dialog, e), Made(e)
             PROVE  ProfileInv'
  OBVIOUS
<1>1. /\ dialog' = [e EXCEPT !.gestures = @ + 1]
      /\ UNCHANGED <<tree, own, tab, front, asked, shown>>
  BY DEF Made
<1>2. e \in Dialogs /\ e.why = dialog.why /\ e.log = dialog.log
      /\ (e.apply = dialog.apply \/ dialog.why = "preferences")
  BY DEF SameAsk
<1>3. dialog' \in Dialogs /\ dialog'.why = dialog.why /\ dialog'.log = dialog.log
      /\ (dialog'.apply = dialog.apply \/ dialog.why = "preferences")
  BY <1>1, <1>2 DEF Dialogs
<1>4. ProfileTypeOK' BY <1>1, <1>3 DEF ProfileInv, ProfileTypeOK
<1>5. Asking' BY <1>1, <1>3 DEF ProfileInv, Asking
<1> QED BY <1>1, <1>4, <1>5 DEF ProfileInv

\* A gesture in the dialog.
LEMMA EditsKeep ==
  ASSUME ProfileInv, ProfileAssumption,
         \/ \E n \in Nodes : SelectNode(n)
         \/ \E p \in Profiles, c \in Coverings : EditNode(p, c)
         \/ \E id \in PatternIds : AddPattern(id) \/ UseSettingsFor(id)
         \/ DeleteNode \/ MovePatternUp \/ PromoteToParent \/ ApplyToCurrent
  PROVE  ProfileInv'
<1> DEFINE t == dialog.tree
           s == t.patterns
<1>1. dialog # NoProfile
  BY DEF SelectNode, EditNode, AddPattern, UseSettingsFor, DeleteNode, MovePatternUp,
         PromoteToParent, ApplyToCurrent, Gesture
<1>2. /\ dialog \in Dialogs /\ dialog.node \in Nodes /\ dialog.row \in Profiles
      /\ t \in Trees /\ Root \in Nodes /\ File \in Nodes /\ PatternIds \subseteq Nodes
  BY <1>1 DEF ProfileInv, ProfileTypeOK, Dialogs, Nodes
<1>3. /\ t.defaults \in Profiles /\ s \in Seq(Patterns) /\ Len(s) \in Nat
      /\ \A i \in 1 .. Len(s) : s[i] \in Patterns /\ s[i].profile \in Profiles
                               /\ s[i].id \in PatternIds
  <2>1. /\ t.defaults \in Profiles /\ s \in Seq(Patterns) /\ Len(s) \in Nat
        /\ \A i \in 1 .. Len(s) : s[i].profile \in Profiles
    BY <1>2, TreeParts
  <2>2. \A q \in Patterns : q.id \in PatternIds BY DEF Patterns
  <2> QED BY <2>1, <2>2
<1>4. \A n : IndexOf(t, n) \in 0 .. Len(s) /\ MatchingPattern(t, n) \in 0 .. Len(s)
  BY <1>2, PlacesInTree
<1>5. \A e, n : SameAsk(dialog, e) /\ n \in Nodes => SameAsk(dialog, LoadNode(e, n))
  BY NodeLoads, SameAskChains DEF SameAsk
<1>6. ASSUME NEW n \in Nodes, SelectNode(n) PROVE ProfileInv'
  BY <1>1, <1>2, <1>6, NodeLoads, MadeKeeps DEF SelectNode
<1>7. ASSUME NEW p \in Profiles, NEW c \in Coverings, EditNode(p, c) PROVE ProfileInv'
  <2> DEFINE i == IndexOf(t, dialog.node)
             row == WithRow(dialog, dialog.log, p)
  <2>1. SameAsk(dialog, [dialog EXCEPT !.tree.defaults = p]) BY <1>2, DefaultsEdits
  <2>2. SameAsk(dialog, [row EXCEPT !.touched = TRUE])
    <3>1. SameAsk(dialog, row) BY <1>2, RowEdits
    <3>2. SameAsk(row, [row EXCEPT !.touched = TRUE]) BY <3>1 DEF SameAsk, Dialogs
    <3> QED BY <3>1, <3>2, SameAskChains
  <2>3. SameAsk(dialog, [dialog EXCEPT !.tree.patterns[i] = [@ EXCEPT !.profile = p, !.covers = c]])
    <3>1. c \in SUBSET Logs BY ProfileAssumption
    <3> QED BY <1>2, <3>1, PatternEdits
  <2> QED BY <1>1, <1>7, <2>1, <2>2, <2>3, MadeKeeps DEF EditNode
<1>8. ASSUME NEW id \in PatternIds, AddPattern(id) PROVE ProfileInv'
  <2> DEFINE p == IF dialog.node = File THEN dialog.row ELSE dialog.tree.defaults
             n == [id |-> id, covers |-> {}, profile |-> p]
  <2>1. n \in Patterns BY <1>2, <1>3 DEF Patterns
  <2>2. Append(s, n) \in Seq(Patterns) BY <1>3, <2>1
  <2>3. [dialog EXCEPT !.tree.patterns = Append(@, n)]
          = [dialog EXCEPT !.tree.patterns = Append(s, n)]
    OBVIOUS
  <2>4. SameAsk(dialog, [dialog EXCEPT !.tree.patterns = Append(@, n)])
    BY <1>2, <2>2, <2>3, PatternsEdits
  <2> QED BY <1>1, <1>2, <1>5, <1>8, <2>4, MadeKeeps DEF AddPattern
<1>9. ASSUME NEW id \in PatternIds, UseSettingsFor(id) PROVE ProfileInv'
  <2> DEFINE p == s[IndexOf(t, id)].profile
             row == WithRow(dialog, dialog.log, p)
  <2>1. p \in Profiles BY <1>3, <1>4, <1>9 DEF UseSettingsFor
  <2>2. SameAsk(dialog, row) BY <1>2, <2>1, RowEdits
  <2>3. SameAsk(row, [row EXCEPT !.touched = TRUE]) BY <2>2 DEF SameAsk, Dialogs
  <2> QED
    BY <1>1, <1>2, <1>5, <1>9, <2>2, <2>3, SameAskChains, MadeKeeps DEF UseSettingsFor
<1>10. CASE DeleteNode
  <2> DEFINE i == IndexOf(t, dialog.node)
  <2>1. SameAsk(dialog, WithRow(dialog, dialog.log, Inherited(t, dialog.log)))
    BY <1>2, InheritedTyped, RowEdits
  <2>2. RemoveAt(s, i) \in Seq(Patterns)
    <3>1. SubSeq(s, 1, i - 1) \in Seq(Patterns) /\ SubSeq(s, i + 1, Len(s)) \in Seq(Patterns)
      BY <1>3, <1>4
    <3> QED BY <3>1 DEF RemoveAt
  <2>3. [dialog EXCEPT !.tree.patterns = RemoveAt(@, i)]
          = [dialog EXCEPT !.tree.patterns = RemoveAt(s, i)]
    OBVIOUS
  <2>4. SameAsk(dialog, [dialog EXCEPT !.tree.patterns = RemoveAt(@, i)])
    BY <1>2, <2>2, <2>3, PatternsEdits
  <2> QED BY <1>1, <1>2, <1>5, <1>10, <2>1, <2>4, MadeKeeps DEF DeleteNode
<1>11. CASE MovePatternUp
  <2> DEFINE i == IndexOf(t, dialog.node)
             q == [s EXCEPT ![i] = s[i - 1], ![i - 1] = s[i]]
  <2>1. i \in 2 .. Len(s) /\ i - 1 \in 1 .. Len(s) BY <1>3, <1>4, <1>11 DEF MovePatternUp
  <2>2. q \in Seq(Patterns) BY <1>3, <2>1
  <2>3. [dialog EXCEPT !.tree.patterns = [@ EXCEPT ![i] = t.patterns[i - 1], ![i - 1] = t.patterns[i]]]
          = [dialog EXCEPT !.tree.patterns = q]
    OBVIOUS
  <2>4. SameAsk(dialog, [dialog EXCEPT !.tree.patterns = q]) BY <1>2, <2>2, PatternsEdits
  <2> QED BY <1>1, <1>2, <1>5, <1>11, <2>3, <2>4, MadeKeeps DEF MovePatternUp
<1>12. CASE PromoteToParent
  <2> DEFINE i == IndexOf(t, dialog.node)
             m == MatchingPattern(t, dialog.log)
  <2>1. CASE i # 0 /\ Made(LoadNode([dialog EXCEPT !.tree.defaults = s[i].profile], dialog.node))
    <3>1. s[i].profile \in Profiles BY <1>3, <1>4, <2>1
    <3> QED BY <1>1, <1>2, <1>5, <2>1, <3>1, DefaultsEdits, MadeKeeps
  <2>2. CASE m # 0 /\ Made(LoadNode([dialog EXCEPT !.tree.patterns[m].profile = dialog.row], s[m].id))
    <3>1. s[m].id \in Nodes BY <1>2, <1>3, <1>4, <2>2
    <3>2. SameAsk(dialog, [dialog EXCEPT !.tree.patterns[m].profile = dialog.row])
      BY <1>2, PatternEdits
    <3> QED BY <1>1, <1>5, <2>2, <3>1, <3>2, MadeKeeps
  <2> QED BY <1>12, <2>1, <2>2 DEF PromoteToParent
<1>13. CASE ApplyToCurrent
  <2> DEFINE asks == [dialog EXCEPT !.apply = ProfileOf(dialog, dialog.node), !.applyNode = dialog.node]
             drops == [dialog EXCEPT !.apply = NoProfile, !.applyNode = Root]
  <2>1. dialog.why = "preferences" BY <1>13 DEF ApplyToCurrent
  <2>2. SameAsk(dialog, asks)
    <3>1. ProfileOf(dialog, dialog.node) \in Profiles \cup {NoProfile} BY <1>2, AskedNodes
    <3> QED BY <1>2, <2>1, <3>1 DEF SameAsk, Dialogs
  <2>3. SameAsk(dialog, drops) BY <1>2, <2>1 DEF SameAsk, Dialogs
  <2> QED BY <1>1, <1>13, <2>2, <2>3, MadeKeeps DEF ApplyToCurrent
<1> QED BY <1>6, <1>7, <1>8, <1>9, <1>10, <1>11, <1>12, <1>13

Owns    == [Logs -> Profiles \cup {NoProfile}]
AllTabs == [Logs -> Tabs \cup {NoProfile}]

LEMMA TabParts ==
  ASSUME ProfileAssumption, NEW tabs \in AllTabs, NEW l \in Logs, tabs[l] # NoProfile
  PROVE  /\ tabs[l] \in Tabs /\ tabs[l].format \in Formats
         /\ tabs[l].base \in Profiles \cup {NoProfile}
<1>1. tabs[l] \in Tabs BY DEF AllTabs
<1> QED BY <1>1 DEF Tabs

\* A profile with another format, or another rest, is a profile.
LEMMA ProfileEdits ==
  \A p \in Profiles :
     /\ \A f \in Formats : /\ [p EXCEPT !.format = f] \in Profiles
                          /\ [p EXCEPT !.format = f] = [format |-> f, rest |-> p.rest]
     /\ \A x \in Rests : /\ [p EXCEPT !.rest = x] \in Profiles
                        /\ [p EXCEPT !.rest = x] = [format |-> p.format, rest |-> x]
     /\ p.format \in Formats /\ p.rest \in Rests /\ p = [format |-> p.format, rest |-> p.rest]
BY DEF Profiles

\* What a tab reads is its format over the rest of its record, or of what it inherits.
LEMMA LiveTyped ==
  ASSUME NEW e \in Tabs, NEW t \in Trees, NEW l
  PROVE  /\ Live(e, t, l) \in Profiles
         /\ Live(e, t, l) = [format |-> e.format, rest |-> Or(e.base, Inherited(t, l)).rest]
<1>1. e.format \in Formats /\ Or(e.base, Inherited(t, l)) \in Profiles
  BY InheritedTyped DEF Tabs, Or
<1> QED BY <1>1, ProfileEdits DEF Live

\* An entry dropped because the log inherits the same says what the entry said.
LEMMA ReducedTyped ==
  \A p \in Profiles : \A t, l :
     /\ Reduced(p, t, l) \in Profiles \cup {NoProfile}
     /\ p # NoProfile => Or(Reduced(p, t, l), Inherited(t, l)) = p
BY DEF Reduced, Or

\* What the funnel makes of l's tab: nothing else moves, the tab reads what it read, its
\* record says so, and so does the store unless the record said so before.
PutBack(os, tabs, t, l, r) ==
  /\ r.own \in Owns /\ r.tab \in AllTabs
  /\ r.tab[l] # NoProfile /\ r.tab[l].base = Live(tabs[l], t, l)
  /\ Live(r.tab[l], t, l) = Live(tabs[l], t, l)
  /\ \A x \in Logs \ {l} : r.own[x] = os[x] /\ r.tab[x] = tabs[x]
  /\ \/ r.own[l] = os[l] /\ tabs[l].base = Live(tabs[l], t, l)
     \/ r.own[l] = Reduced(Live(tabs[l], t, l), t, l)

LEMMA FunnelPutsBack ==
  ASSUME ProfileAssumption
  PROVE  \A os \in Owns, tabs \in AllTabs, l \in Logs, t \in Trees, moved \in BOOLEAN :
            tabs[l] # NoProfile => PutBack(os, tabs, t, l, Persisted(os, tabs, t, l, moved))
<1> SUFFICES ASSUME NEW os \in Owns, NEW tabs \in AllTabs, NEW l \in Logs, NEW t \in Trees,
                    NEW moved \in BOOLEAN, tabs[l] # NoProfile
             PROVE  PutBack(os, tabs, t, l, Persisted(os, tabs, t, l, moved))
  OBVIOUS
<1> DEFINE next == Live(tabs[l], t, l)
           q == Reduced(next, t, l)
           os1 == [os EXCEPT ![l] = q]
           new == [tabs[l] EXCEPT !.base = next]
           tabs1 == [tabs EXCEPT ![l].base = next]
<1>1. tabs[l] \in Tabs /\ next \in Profiles BY TabParts, LiveTyped
<1>2. CASE next = tabs[l].base /\ ~moved
  <2>1. Persisted(os, tabs, t, l, moved) = [own |-> os, tab |-> tabs]
    BY <1>2 DEF Persisted
  <2> QED BY <1>2, <2>1 DEF PutBack
<1>3. CASE ~(next = tabs[l].base /\ ~moved)
  <2>1. Persisted(os, tabs, t, l, moved) = [own |-> os1, tab |-> tabs1]
    BY <1>3 DEF Persisted
  <2>2. os1 \in Owns /\ os1[l] = q /\ \A x \in Logs \ {l} : os1[x] = os[x]
    <3>1. q \in Profiles \cup {NoProfile} BY <1>1, ReducedTyped
    <3> HIDE DEF q
    <3> QED BY <3>1 DEF Owns
  <2>3. new \in Tabs /\ new.base = next /\ new.format = tabs[l].format
    <3> HIDE DEF next
    <3> QED BY <1>1 DEF Tabs
  <2>4. Live(new, t, l) = next
    <3>1. next = [format |-> tabs[l].format, rest |-> Or(tabs[l].base, Inherited(t, l)).rest]
      BY <1>1, LiveTyped
    <3>3. Live(new, t, l) = [format |-> tabs[l].format, rest |-> Or(next, Inherited(t, l)).rest]
      <4> HIDE DEF new, next
      <4> QED BY <2>3, LiveTyped
    <3>2. Or(next, Inherited(t, l)) = next
      BY <1>1, ProfileAssumption DEF Or, ProfileAssumption
    <3> HIDE DEF new, next
    <3> QED BY <3>1, <3>2, <3>3
  <2>5. tabs1 = [tabs EXCEPT ![l] = new] OBVIOUS
  <2> HIDE DEF new
  <2>6. /\ tabs1 \in AllTabs /\ tabs1[l] = new /\ tabs1[l] # NoProfile
        /\ \A x \in Logs \ {l} : tabs1[x] = tabs[x]
    BY <2>3, <2>5, ProfileAssumption DEF AllTabs, ProfileAssumption
  <2> HIDE DEF os1, tabs1
  <2> QED BY <2>1, <2>2, <2>3, <2>4, <2>6 DEF PutBack
<1> QED BY <1>2, <1>3

\* The dialog as it is first shown.
LEMMA ShownTyped ==
  \A why \in {"preferences", "open", "resume"}, l \in Logs \cup {NoProfile}, row \in Profiles :
     tree \in Trees =>
       LET d == Shown(why, l, row)
       IN  d \in Dialogs /\ d.why = why /\ d.log = l /\ (why # "preferences" => d.apply = NoProfile)
<1> SUFFICES ASSUME NEW why \in {"preferences", "open", "resume"}, NEW l \in Logs \cup {NoProfile},
                    NEW row \in Profiles, tree \in Trees
             PROVE LET d == Shown(why, l, row)
       IN  d \in Dialogs /\ d.why = why /\ d.log = l /\ (why # "preferences" => d.apply = NoProfile)
  OBVIOUS
<1> DEFINE d == [why |-> why, log |-> l, tree |-> tree, row |-> row,
                 follows |-> FALSE, node |-> Root, apply |-> NoProfile,
                 applyNode |-> Root, touched |-> FALSE, gestures |-> 0]
           e == IF l = NoProfile THEN LoadNode(d, Root) ELSE LoadNode(WithRow(d, l, row), File)
<1>1. d \in Dialogs /\ d.why = why /\ d.log = l /\ d.apply = NoProfile
  BY DEF Dialogs, Nodes
<1>2. Root \in Nodes /\ File \in Nodes BY DEF Nodes
<1>3. Shown(why, l, row) = e BY DEF Shown
<1> HIDE DEF d
<1>4. SameAsk(d, LoadNode(d, Root)) /\ SameAsk(d, WithRow(d, l, row))
  BY <1>1, <1>2, NodeLoads, RowEdits
<1>5. SameAsk(d, LoadNode(WithRow(d, l, row), File))
  BY <1>2, <1>4, NodeLoads, SameAskChains DEF SameAsk
<1> QED BY <1>1, <1>3, <1>4, <1>5 DEF SameAsk

\* What giving l's tab the format f makes of the stores and the tabs.
AppliedPut(os, tabs, t, l, f, r) ==
  LET next == [Live(tabs[l], t, l) EXCEPT !.format = f]
  IN  /\ r.own \in Owns /\ r.tab \in AllTabs
      /\ r.tab[l] # NoProfile /\ Live(r.tab[l], t, l) = next
      /\ \A x \in Logs \ {l} : r.own[x] = os[x] /\ r.tab[x] = tabs[x]
      /\ (r.own[l] = os[l] /\ tabs[l].base = next) \/ r.own[l] = Reduced(next, t, l)

LEMMA SettingsApply ==
  ASSUME ProfileAssumption
  PROVE  \A os \in Owns, tabs \in AllTabs, l \in Logs, f \in Formats, t \in Trees, moved \in BOOLEAN :
            tabs[l] # NoProfile => AppliedPut(os, tabs, t, l, f, AppliedTo(os, tabs, t, l, f, moved))
<1> SUFFICES ASSUME NEW os \in Owns, NEW tabs \in AllTabs, NEW l \in Logs, NEW f \in Formats,
                    NEW t \in Trees, NEW moved \in BOOLEAN, tabs[l] # NoProfile
             PROVE  AppliedPut(os, tabs, t, l, f, AppliedTo(os, tabs, t, l, f, moved))
  OBVIOUS
<1> DEFINE new == [tabs[l] EXCEPT !.format = f]
           next == [Live(tabs[l], t, l) EXCEPT !.format = f]
           tabs1 == [tabs EXCEPT ![l].format = f]
<1>1. tabs[l] \in Tabs BY TabParts
<1>2. new \in Tabs /\ new.format = f /\ new.base = tabs[l].base BY <1>1 DEF Tabs
<1>3. Live(new, t, l) = next
  <2>1. /\ Live(new, t, l) = [format |-> f, rest |-> Or(tabs[l].base, Inherited(t, l)).rest]
        /\ Live(tabs[l], t, l)
             = [format |-> tabs[l].format, rest |-> Or(tabs[l].base, Inherited(t, l)).rest]
    BY <1>1, <1>2, LiveTyped
  <2> HIDE DEF new
  <2> QED BY <2>1
<1>4. tabs1 = [tabs EXCEPT ![l] = new] OBVIOUS
<1> HIDE DEF new, next
<1>5. /\ tabs1 \in AllTabs /\ tabs1[l] = new /\ tabs1[l] # NoProfile
      /\ \A x \in Logs \ {l} : tabs1[x] = tabs[x]
  BY <1>2, <1>4 DEF AllTabs, ProfileAssumption
<1>6. AppliedTo(os, tabs, t, l, f, moved) = Persisted(os, tabs1, t, l, moved)
  BY DEF AppliedTo
<1> HIDE DEF tabs1
<1>7. PutBack(os, tabs1, t, l, Persisted(os, tabs1, t, l, moved)) BY <1>5, FunnelPutsBack
<1> QED BY <1>2, <1>3, <1>5, <1>6, <1>7 DEF PutBack, AppliedPut, next

\* What putting the rest x into the record of l's tab makes of the stores and the tabs.
RestPut(os, tabs, t, l, x, r) ==
  LET next == [Live(tabs[l], t, l) EXCEPT !.rest = x]
  IN  /\ r.own \in Owns /\ r.tab \in AllTabs
      /\ r.tab[l] # NoProfile /\ Live(r.tab[l], t, l) = next /\ r.tab[l].base = next
      /\ \A y \in Logs \ {l} : r.own[y] = os[y] /\ r.tab[y] = tabs[y]
      /\ r.own[l] = os[l] \/ r.own[l] = Reduced(next, t, l)

LEMMA RestIsPut ==
  ASSUME ProfileAssumption
  PROVE  \A os \in Owns, tabs \in AllTabs, l \in Logs, x \in Rests, t \in Trees, moved \in BOOLEAN :
            tabs[l] # NoProfile => RestPut(os, tabs, t, l, x, WithRest(os, tabs, t, l, x, moved))
<1> SUFFICES ASSUME NEW os \in Owns, NEW tabs \in AllTabs, NEW l \in Logs, NEW x \in Rests,
                    NEW t \in Trees, NEW moved \in BOOLEAN, tabs[l] # NoProfile
             PROVE  RestPut(os, tabs, t, l, x, WithRest(os, tabs, t, l, x, moved))
  OBVIOUS
<1> DEFINE next == [Live(tabs[l], t, l) EXCEPT !.rest = x]
           new == [tabs[l] EXCEPT !.base = next]
           tabs1 == [tabs EXCEPT ![l].base = next]
<1>1. tabs[l] \in Tabs BY TabParts
<1>2. next \in Profiles /\ next.format = tabs[l].format /\ next.rest = x
  BY <1>1, LiveTyped, ProfileEdits
<1>3. WithRest(os, tabs, t, l, x, moved) = Persisted(os, tabs1, t, l, moved)
  BY DEF WithRest
<1> HIDE DEF next
<1>4. new \in Tabs /\ new.format = tabs[l].format /\ new.base = next
  BY <1>1, <1>2 DEF Tabs
<1>5. Live(new, t, l) = next
  <2>1. Live(new, t, l) = [format |-> tabs[l].format, rest |-> Or(next, Inherited(t, l)).rest]
    BY <1>4, LiveTyped
  <2>2. Or(next, Inherited(t, l)) = next BY <1>2 DEF Or, ProfileAssumption
  <2>3. next = [format |-> next.format, rest |-> next.rest] BY <1>2, ProfileEdits
  <2> HIDE DEF new
  <2> QED BY <1>2, <2>1, <2>2, <2>3
<1>6. tabs1 = [tabs EXCEPT ![l] = new] OBVIOUS
<1> HIDE DEF new
<1>7. /\ tabs1 \in AllTabs /\ tabs1[l] = new /\ tabs1[l] # NoProfile
      /\ \A y \in Logs \ {l} : tabs1[y] = tabs[y]
  BY <1>4, <1>6 DEF AllTabs, ProfileAssumption
<1> HIDE DEF tabs1
<1>8. PutBack(os, tabs1, t, l, Persisted(os, tabs1, t, l, moved)) BY <1>7, FunnelPutsBack
<1> QED BY <1>3, <1>5, <1>7, <1>8 DEF PutBack, RestPut, next

\* Stores and tabs of a window with f in front.
TabsFit(os, tabs, f) ==
  /\ os \in Owns /\ tabs \in AllTabs /\ f \in Logs \cup {NoProfile}
  /\ f # NoProfile => tabs[f] # NoProfile
  /\ f = NoProfile => \A l \in Logs : tabs[l] = NoProfile

\* What the reader and the logs do while no dialog is shown.
LEMMA QuietSteps ==
  ASSUME ProfileInv, ProfileAssumption,
         \/ \E l \in Logs, settled \in BOOLEAN : OpenWithSettings(l, settled)
         \/ \E l \in Logs : CloseTab(l) \/ PersistFileSettings(l) \/ BringForward(l)
         \/ \E f \in Formats : ApplySettings(f)
         \/ \E x \in Rests : ChooseRest(x)
  PROVE  ProfileInv'
<1>1. /\ tree \in Trees /\ TabsFit(own, tab, front)
      /\ shown \in 0 .. MaxShowings /\ asked \subseteq Logs
  BY DEF ProfileInv, ProfileTypeOK, TabsFit, Owns, AllTabs
<1>2. dialog = NoProfile /\ dialog' = NoProfile
  BY DEF OpenWithSettings, CloseTab, PersistFileSettings, BringForward, ApplySettings,
         ChooseRest, Quiet
<1>3. UNCHANGED <<tree, shown>>
  BY DEF OpenWithSettings, CloseTab, PersistFileSettings, BringForward, ApplySettings, ChooseRest
<1>4. asked' \subseteq Logs
  <2>1. asked' = asked \/ (asked' = asked \cup {front} /\ front # NoProfile)
    BY DEF OpenWithSettings, CloseTab, PersistFileSettings, BringForward, ApplySettings, ChooseRest
  <2> QED BY <1>1, <2>1 DEF TabsFit
<1>5. SUFFICES TabsFit(own', tab', front')
  BY <1>1, <1>2, <1>3, <1>4 DEF ProfileInv, ProfileTypeOK, Owns, AllTabs, TabsFit
<1>6. ASSUME NEW l \in Logs, NEW settled \in BOOLEAN, OpenWithSettings(l, settled)
      PROVE  TabsFit(own', tab', front')
  <2> DEFINE p == ResolvedProfile(l)
             tabs == [tab EXCEPT ![l] = OpenTab(own, l, p, settled)]
  <2>1. p \in Profiles
    BY <1>1, <1>6, InheritedTyped DEF OpenWithSettings, ResolvedProfile, Stored, Or, TabsFit, Owns
  <2>2. OpenTab(own, l, p, settled) \in Tabs
    <3>1. p.format \in Formats /\ own[l] \in Profiles \cup {NoProfile}
      BY <1>1, <2>1, ProfileEdits DEF TabsFit, Owns
    <3> HIDE DEF p
    <3> QED BY <3>1 DEF OpenTab, Tabs
  <2> HIDE DEF p
  <2>3. tabs \in AllTabs /\ tabs[l] # NoProfile
    BY <1>1, <2>2, ProfileAssumption DEF TabsFit, AllTabs, ProfileAssumption
  <2>4. \A moved \in BOOLEAN : PutBack(own, tabs, tree, l, Persisted(own, tabs, tree, l, moved))
    BY <1>1, <2>3, FunnelPutsBack, ProfileAssumption DEF TabsFit
  <2>5. \/ own' = own /\ tab' = tabs
        \/ \E moved \in BOOLEAN : LET r == Persisted(own, tabs, tree, l, moved)
                                  IN  own' = r.own /\ tab' = r.tab
    BY <1>6 DEF OpenWithSettings, p
  <2>6. own' \in Owns /\ tab' \in AllTabs /\ tab'[l] # NoProfile
    BY <1>1, <2>3, <2>4, <2>5 DEF PutBack, TabsFit
  <2> QED BY <1>6, <2>6 DEF OpenWithSettings, TabsFit, ProfileAssumption
<1>7. ASSUME NEW l \in Logs, CloseTab(l)
      PROVE  TabsFit(own', tab', front')
  <2>1. tab' \in AllTabs /\ tab'[l] = NoProfile /\ \A x \in Logs \ {l} : tab'[x] = tab[x]
    BY <1>1, <1>7 DEF CloseTab, AllTabs, TabsFit
  <2>2. \/ front # l /\ front' = front
        \/ front' = NoProfile /\ \A x \in Logs \ {l} : tab[x] = NoProfile
        \/ front' \in Logs \ {l} /\ tab[front'] # NoProfile
    BY <1>7 DEF CloseTab
  <2> QED BY <1>1, <1>7, <2>1, <2>2 DEF CloseTab, TabsFit, ProfileAssumption
<1>8. ASSUME NEW l \in Logs, PersistFileSettings(l)
      PROVE  TabsFit(own', tab', front')
  <2>1. PutBack(own, tab, tree, l, Persisted(own, tab, tree, l, TRUE))
    BY <1>1, <1>8, FunnelPutsBack, ProfileAssumption DEF PersistFileSettings, TabsFit
  <2> QED BY <1>1, <1>8, <2>1 DEF PersistFileSettings, PutBack, TabsFit
<1>9. ASSUME NEW l \in Logs, BringForward(l)
      PROVE  TabsFit(own', tab', front')
  <2>1. front \in Logs /\ tab[front] # NoProfile BY <1>1, <1>9 DEF BringForward, TabsFit
  <2>2. PICK moved \in BOOLEAN : LET r == Persisted(own, tab, tree, front, moved)
                                IN  own' = r.own /\ tab' = r.tab
    BY <1>9 DEF BringForward
  <2>3. PutBack(own, tab, tree, front, Persisted(own, tab, tree, front, moved))
    BY <1>1, <2>1, FunnelPutsBack, ProfileAssumption DEF TabsFit
  <2>4. tab' \in AllTabs /\ own' \in Owns /\ tab'[l] # NoProfile /\ front' = l
    BY <1>1, <1>9, <2>1, <2>2, <2>3 DEF BringForward, PutBack, TabsFit
  <2> QED BY <2>4 DEF TabsFit, ProfileAssumption
<1>10. ASSUME NEW f \in Formats, ApplySettings(f)
       PROVE  TabsFit(own', tab', front')
  <2>1. front \in Logs /\ tab[front] # NoProfile /\ front' = front
    BY <1>1, <1>10 DEF ApplySettings, TabsFit
  <2>2. PICK moved \in BOOLEAN : LET r == AppliedTo(own, tab, tree, front, f, moved)
                                IN  own' = r.own /\ tab' = r.tab
    BY <1>10 DEF ApplySettings
  <2>3. AppliedPut(own, tab, tree, front, f, AppliedTo(own, tab, tree, front, f, moved))
    BY <1>1, <2>1, SettingsApply, ProfileAssumption DEF TabsFit
  <2>4. own' \in Owns /\ tab' \in AllTabs /\ tab'[front] # NoProfile
    BY <2>2, <2>3 DEF AppliedPut
  <2> QED BY <2>1, <2>4 DEF TabsFit, ProfileAssumption
<1>11. ASSUME NEW x \in Rests, ChooseRest(x)
       PROVE  TabsFit(own', tab', front')
  <2>1. front \in Logs /\ tab[front] # NoProfile /\ front' = front
    BY <1>1, <1>11 DEF ChooseRest, TabsFit
  <2>2. PICK moved \in BOOLEAN : LET r == WithRest(own, tab, tree, front, x, moved)
                                IN  own' = r.own /\ tab' = r.tab
    BY <1>11 DEF ChooseRest
  <2>3. RestPut(own, tab, tree, front, x, WithRest(own, tab, tree, front, x, moved))
    BY <1>1, <2>1, RestIsPut, ProfileAssumption DEF TabsFit
  <2>4. own' \in Owns /\ tab' \in AllTabs /\ tab'[front] # NoProfile
    BY <2>2, <2>3 DEF RestPut
  <2> QED BY <2>1, <2>4 DEF TabsFit, ProfileAssumption
<1> QED BY <1>6, <1>7, <1>8, <1>9, <1>10, <1>11

\* A dialog is shown, or dismissed.
LEMMA ShowingSteps ==
  ASSUME ProfileInv, ProfileAssumption,
         \/ ShowPreferences \/ Reject
         \/ \E l \in Logs, f \in Formats : OfferFormat(l, f)
         \/ \E l \in Logs, f \in Formats, fits \in BOOLEAN : ResumeOrSettle(l, fits, f)
  PROVE  ProfileInv'
<1>1. /\ tree \in Trees /\ TabsFit(own, tab, front)
      /\ shown \in 0 .. MaxShowings /\ asked \subseteq Logs
  BY DEF ProfileInv, ProfileTypeOK, TabsFit, Owns, AllTabs
<1>2. UNCHANGED <<tree, front, asked>>
  BY DEF ShowPreferences, Reject, OfferFormat, ResumeOrSettle
<1> DEFINE Good(d) ==
             /\ d \in Dialogs
             /\ d.why # "preferences" => d.log \in Logs /\ d.apply = NoProfile
             /\ d.why # "open" /\ d.log # NoProfile => tab'[d.log] # NoProfile
<1>3. SUFFICES /\ TabsFit(own', tab', front) /\ shown' \in 0 .. MaxShowings
               /\ dialog' = NoProfile \/ Good(dialog')
  <2>1. ProfileTypeOK' BY <1>1, <1>2, <1>3 DEF ProfileTypeOK, Owns, AllTabs, TabsFit
  <2> QED BY <1>1, <1>2, <1>3, <2>1 DEF ProfileInv, Asking, TabsFit
<1>4. MayShow => shown + 1 \in 0 .. MaxShowings
  BY <1>1, ProfileAssumption DEF MayShow, ProfileAssumption
<1>9. ASSUME NEW l \in Logs, NEW f \in Formats
      PROVE  Or(own[l], [ResolvedProfile(l) EXCEPT !.format = f]) \in Profiles
  <2>1. own[l] \in Profiles \cup {NoProfile} BY <1>1 DEF TabsFit, Owns
  <2>2. CASE tab[l] # NoProfile
    <3>1. tab[l] \in Tabs BY <1>1, <2>2, TabParts, ProfileAssumption DEF TabsFit
    <3>2. Live(tab[l], tree, l) \in Profiles BY <1>1, <3>1, LiveTyped
    <3>3. [Live(tab[l], tree, l) EXCEPT !.format = f] \in Profiles BY <3>2, ProfileEdits
    <3> QED BY <2>1, <2>2, <3>3 DEF Or, ResolvedProfile
  <2>3. CASE tab[l] = NoProfile
    <3>1. Stored(own, tree, l) \in Profiles BY <1>1, <2>1, InheritedTyped DEF Stored, Or
    <3>2. [Stored(own, tree, l) EXCEPT !.format = f] \in Profiles BY <3>1, ProfileEdits
    <3> QED BY <2>1, <2>3, <3>2 DEF Or, ResolvedProfile
  <2> QED BY <2>2, <2>3
<1>5. CASE ShowPreferences
  <2> DEFINE row == Or(own[front], ResolvedProfile(front))
  <2>1. CASE front = NoProfile
    <3>1. tree.defaults \in Profiles BY <1>1, TreeParts
    <3>2. dialog' = Shown("preferences", NoProfile, tree.defaults)
      BY <1>5, <2>1 DEF ShowPreferences
    <3>3. Good(dialog') BY <1>1, <3>1, <3>2, ShownTyped
    <3> QED BY <1>1, <1>4, <1>5, <3>3 DEF ShowPreferences
  <2>2. CASE front # NoProfile
    <3>1. /\ front \in Logs /\ tab[front] # NoProfile /\ tab[front] \in Tabs
          /\ Live(tab[front], tree, front) \in Profiles
      BY <1>1, <2>2, TabParts, LiveTyped, ProfileAssumption DEF TabsFit
    <3>2. row \in Profiles BY <1>1, <3>1 DEF Or, ResolvedProfile, TabsFit, Owns
    <3>3. dialog' = Shown("preferences", front, row) /\ tab' = tab
      BY <1>5, <2>2 DEF ShowPreferences
    <3> HIDE DEF row
    <3>4. Good(dialog') BY <1>1, <3>1, <3>2, <3>3, ShownTyped
    <3> QED BY <1>1, <1>4, <1>5, <3>4 DEF ShowPreferences
  <2> QED BY <2>1, <2>2
<1>6. CASE Reject BY <1>1, <1>6 DEF Reject
<1>7. ASSUME NEW l \in Logs, NEW f \in Formats, OfferFormat(l, f)
      PROVE  /\ TabsFit(own', tab', front) /\ shown' \in 0 .. MaxShowings
             /\ dialog' = NoProfile \/ Good(dialog')
  <2> DEFINE row == Or(own[l], [ResolvedProfile(l) EXCEPT !.format = f])
  <2>1. row \in Profiles BY <1>9
  <2>2. dialog' = Shown("open", l, row) BY <1>7 DEF OfferFormat, Offered
  <2> HIDE DEF row
  <2>3. Good(dialog') BY <1>1, <2>1, <2>2, ShownTyped
  <2> QED BY <1>1, <1>4, <1>7, <2>3 DEF OfferFormat
<1>8. ASSUME NEW l \in Logs, NEW f \in Formats, NEW fits \in BOOLEAN, ResumeOrSettle(l, fits, f)
      PROVE  /\ TabsFit(own', tab', front) /\ shown' \in 0 .. MaxShowings
             /\ dialog' = NoProfile \/ Good(dialog')
  <2> DEFINE new == [tab[l] EXCEPT !.settled = TRUE, !.owed = FALSE]
             tabs == [tab EXCEPT ![l] = new]
  <2>1. tab[l] # NoProfile /\ tab[l] \in Tabs
    BY <1>1, <1>8, TabParts, ProfileAssumption DEF ResumeOrSettle, TabsFit
  <2>2. new \in Tabs BY <2>1 DEF Tabs
  <2>3. tabs = [tab EXCEPT ![l] = [@ EXCEPT !.settled = TRUE, !.owed = FALSE]] OBVIOUS
  <2> HIDE DEF new
  <2>4. tabs \in AllTabs /\ tabs[l] # NoProfile /\ \A x \in Logs \ {l} : tabs[x] = tab[x]
    BY <1>1, <2>2, ProfileAssumption DEF TabsFit, AllTabs, ProfileAssumption
  <2>5. \A moved \in BOOLEAN : PutBack(own, tabs, tree, l, Persisted(own, tabs, tree, l, moved))
    BY <1>1, <2>4, FunnelPutsBack, ProfileAssumption DEF TabsFit
  <2>6. \/ own' = own /\ tab' = tabs
        \/ \E moved \in BOOLEAN : LET r == Persisted(own, tabs, tree, l, moved)
                                  IN  own' = r.own /\ tab' = r.tab
    BY <1>8, <2>3 DEF ResumeOrSettle
  <2> HIDE DEF tabs
  <2>7. /\ own' \in Owns /\ tab' \in AllTabs /\ tab'[l] # NoProfile
        /\ \A x \in Logs \ {l} : tab'[x] = tab[x]
    BY <1>1, <2>4, <2>5, <2>6 DEF PutBack, TabsFit
  <2>8. TabsFit(own', tab', front) BY <1>1, <2>1, <2>7 DEF TabsFit
  <2>9. CASE ~fits /\ tab[l].owed /\ front = l
    <3> DEFINE row == Or(own[l], [ResolvedProfile(l) EXCEPT !.format = f])
    <3>1. row \in Profiles BY <1>9
    <3>2. dialog' = Shown("resume", l, row) /\ MayShow /\ shown' = shown + 1
      BY <1>8, <2>9 DEF ResumeOrSettle, Offered
    <3> HIDE DEF row
    <3>3. Good(dialog') BY <1>1, <2>7, <3>1, <3>2, ShownTyped
    <3> QED BY <1>4, <2>8, <3>2, <3>3
  <2>10. CASE ~(~fits /\ tab[l].owed /\ front = l)
    <3>1. dialog' = dialog /\ shown' = shown /\ dialog = NoProfile
      BY <1>8, <2>10 DEF ResumeOrSettle, Quiet
    <3> QED BY <1>1, <2>8, <3>1
  <2> QED BY <2>9, <2>10
<1> QED BY <1>5, <1>6, <1>7, <1>8

\* The sweep after a tree t is stored: who had an entry resolves to it still.
LEMMA SweepKeeps ==
  ASSUME NEW os \in Owns
  PROVE  \A t \in Trees :
     /\ Pruned(os, t) \in Owns
     /\ \A l \in Logs : t # tree /\ os[l] # NoProfile =>
           Or(Pruned(os, t)[l], Inherited(t, l)) = os[l]
<1> TAKE t \in Trees
<1>1. CASE t = tree BY <1>1 DEF Pruned
<1>2. CASE t # tree
  <2>1. Pruned(os, t) = [l \in Logs |-> IF os[l] = NoProfile THEN NoProfile ELSE Reduced(os[l], t, l)]
    BY <1>2 DEF Pruned
  <2>2. \A l \in Logs : os[l] # NoProfile => os[l] \in Profiles BY DEF Owns
  <2>3. Pruned(os, t) \in Owns BY <2>1, <2>2, ReducedTyped DEF Owns
  <2>4. \A l \in Logs : os[l] # NoProfile => Or(Pruned(os, t)[l], Inherited(t, l)) = os[l]
    BY <2>1, <2>2, ReducedTyped
  <2> QED BY <2>3, <2>4
<1> QED BY <1>1, <1>2

\* What an accepted dialog stores: the sweep for every other log, its own row for its log.
Commits(d, c) ==
  /\ c.own \in Owns /\ c.tab \in AllTabs
  /\ \A x \in Logs : c.tab[x] = NoProfile <=> tab[x] = NoProfile
  /\ \A x \in Logs \ {d.log} : c.own[x] = Pruned(own, d.tree)[x] /\ c.tab[x] = tab[x]
  /\ d.log \in Logs =>
       /\ c.own[d.log] = Reduced(d.row, d.tree, d.log)
       /\ Stored(c.own, d.tree, d.log) = d.row

LEMMA RowIsCommitted ==
  ASSUME ProfileAssumption, own \in Owns, tab \in AllTabs
  PROVE  \A d \in Dialogs : Commits(d, Committed(d))
<1> TAKE d \in Dialogs
<1> DEFINE p == Reduced(d.row, d.tree, d.log)
           swept == Pruned(own, d.tree)
           os == [swept EXCEPT ![d.log] = p]
           tabs == IF tab[d.log] = NoProfile THEN tab
                   ELSE [tab EXCEPT ![d.log].base = p]
<1>1. d.tree \in Trees /\ d.row \in Profiles /\ d.log \in Logs \cup {NoProfile}
  BY DEF Dialogs
<1>2. swept \in Owns BY <1>1, SweepKeeps
<1>3. /\ p \in Profiles \cup {NoProfile} /\ Or(p, Inherited(d.tree, d.log)) = d.row
      /\ NoProfile \notin Logs
  BY <1>1, ReducedTyped DEF ProfileAssumption
<1>4. CASE d.log = NoProfile
  <2>1. Committed(d) = [own |-> swept, tab |-> tab] BY <1>4 DEF Committed
  <2> QED BY <1>2, <1>3, <1>4, <2>1 DEF Commits
<1>5. CASE d.log \in Logs
  <2>1. Committed(d) = [own |-> os, tab |-> tabs] BY <1>3, <1>5 DEF Committed
  <2> HIDE DEF p, swept
  <2>2. /\ os \in Owns /\ os[d.log] = p /\ \A x \in Logs \ {d.log} : os[x] = swept[x]
        /\ Stored(os, d.tree, d.log) = d.row
    BY <1>2, <1>3, <1>5 DEF Owns, Stored
  <2>3. /\ tabs \in AllTabs /\ (\A x \in Logs : tabs[x] = NoProfile <=> tab[x] = NoProfile)
        /\ \A x \in Logs \ {d.log} : tabs[x] = tab[x]
    <3>1. CASE tab[d.log] = NoProfile BY <3>1
    <3>2. CASE tab[d.log] # NoProfile
      <4> DEFINE new == [tab[d.log] EXCEPT !.base = p]
      <4>1. tab[d.log] \in Tabs BY <1>5, <3>2, TabParts
      <4>2. new \in Tabs BY <1>3, <4>1 DEF Tabs
      <4>3. tabs = [tab EXCEPT ![d.log] = new] BY <3>2
      <4> HIDE DEF new, tabs
      <4> QED BY <1>5, <3>2, <4>2, <4>3 DEF AllTabs, ProfileAssumption
    <3> QED BY <3>1, <3>2
  <2> HIDE DEF os, tabs
  <2> QED BY <1>3, <1>5, <2>1, <2>2, <2>3 DEF Commits, p, swept
<1> QED BY <1>1, <1>4, <1>5

\* What a window is left with by an accepted dialog that said d.
Answered(d) ==
  /\ own' \in Owns /\ tab' \in AllTabs /\ tree' = d.tree /\ dialog' = NoProfile /\ shown' = shown
  /\ \A x \in Logs \ {d.log} :
       own'[x] = Pruned(own, d.tree)[x] /\ (tab'[x] = NoProfile <=> tab[x] = NoProfile)
  /\ d.log \in Logs => tab'[d.log] # NoProfile
  /\ asked' \subseteq Logs

\* The log reads what d asked for, and is stored with its row if nothing was asked for.
ReadsItsAnswer(d) ==
  /\ Live(tab'[d.log], tree', d.log) = Or(d.apply, d.row)
  /\ d.apply = NoProfile => Stored(own', tree', d.log) = d.row

LEMMA FinalParts ==
  ASSUME ProfileInv, dialog # NoProfile
  PROVE  LET d == Final(dialog)
         IN  /\ d \in Dialogs /\ d.tree \in Trees /\ d.row \in Profiles
             /\ d.apply \in Profiles \cup {NoProfile}
             /\ d.why = dialog.why /\ d.log = dialog.log /\ d.log \in Logs \cup {NoProfile}
             /\ d.why # "preferences" => d.log \in Logs /\ d.apply = NoProfile
             /\ d.why # "open" /\ d.log # NoProfile => tab[d.log] # NoProfile
<1>1. dialog \in Dialogs /\ Asking BY DEF ProfileInv, ProfileTypeOK
<1>2. LET d == Final(dialog)
      IN  /\ d \in Dialogs /\ d.why = dialog.why /\ d.log = dialog.log
          /\ dialog.apply = NoProfile => d.apply = NoProfile
  BY <1>1, FinalTyped
<1>3. \A d \in Dialogs : /\ d.tree \in Trees /\ d.row \in Profiles /\ d.log \in Logs \cup {NoProfile}
                         /\ d.apply \in Profiles \cup {NoProfile}
  BY DEF Dialogs
<1> QED BY <1>1, <1>2, <1>3 DEF Asking

LEMMA PreferencesAnswer ==
  ASSUME ProfileInv, ProfileAssumption, AcceptPreferences
  PROVE  /\ Answered(Final(dialog)) /\ front' = front
         /\ dialog.log # NoProfile => ReadsItsAnswer(Final(dialog))
<1> DEFINE d == Final(dialog)
           c == Committed(d)
           l == d.log
           wanted == IF d.apply # NoProfile THEN d.apply ELSE Stored(c.own, d.tree, l)
           Left(moved) ==
             IF l = NoProfile THEN c
             ELSE IF d.apply = NoProfile /\ wanted = Live(c.tab[l], d.tree, l) THEN c
             ELSE AppliedProfile(c, d.tree, l, wanted, moved)
<1>1. /\ tree' = d.tree /\ dialog' = NoProfile /\ UNCHANGED <<front, shown>>
      /\ asked' = IF l # NoProfile /\ (d.touched \/ d.apply # NoProfile) THEN asked \cup {l} ELSE asked
      /\ dialog # NoProfile /\ dialog.why = "preferences"
  BY DEF AcceptPreferences
<1>0. PICK moved \in BOOLEAN : own' = Left(moved).own /\ tab' = Left(moved).tab
  BY DEF AcceptPreferences
<1> DEFINE r == Left(moved)
<1>2. /\ d \in Dialogs /\ d.tree \in Trees /\ d.row \in Profiles
      /\ d.apply \in Profiles \cup {NoProfile}
      /\ l = dialog.log /\ l \in Logs \cup {NoProfile} /\ (l # NoProfile => tab[l] # NoProfile)
  BY <1>1, FinalParts
<1>3. own \in Owns /\ tab \in AllTabs /\ asked \subseteq Logs
  BY DEF ProfileInv, ProfileTypeOK, Owns, AllTabs
<1> HIDE DEF d
<1>4. Commits(d, c) BY <1>2, <1>3, RowIsCommitted, ProfileAssumption
<1>5. asked' \subseteq Logs BY <1>1, <1>2, <1>3
<1>6. CASE l = NoProfile
  <2>1. r = c BY <1>6
  <2> HIDE DEF c, r
  <2>2. own' = c.own /\ tab' = c.tab BY <1>0, <1>6, <2>1 DEF r
  <2> QED
    BY <1>1, <1>2, <1>4, <1>5, <1>6, <2>2, ProfileAssumption DEF Answered, Commits, ProfileAssumption, d
<1>7. CASE l \in Logs
  <2>1. /\ c.own \in Owns /\ c.tab \in AllTabs /\ c.tab[l] # NoProfile
        /\ wanted = (IF d.apply # NoProfile THEN d.apply ELSE d.row) /\ wanted \in Profiles
        /\ Stored(c.own, d.tree, l) = d.row
    BY <1>2, <1>4, <1>7 DEF Commits, ProfileAssumption
  <2> HIDE DEF c, wanted
  <2>2. /\ r.own \in Owns /\ r.tab \in AllTabs /\ r.tab[l] # NoProfile
        /\ Live(r.tab[l], d.tree, l) = wanted
        /\ d.apply = NoProfile => Stored(r.own, d.tree, l) = d.row
        /\ \A x \in Logs \ {l} : r.own[x] = c.own[x] /\ r.tab[x] = c.tab[x]
    <3>1. CASE d.apply = NoProfile /\ wanted = Live(c.tab[l], d.tree, l)
      <4>1. r = c BY <1>7, <3>1 DEF ProfileAssumption
      <4> HIDE DEF r
      <4> QED BY <2>1, <3>1, <4>1
    <3>2. CASE ~(d.apply = NoProfile /\ wanted = Live(c.tab[l], d.tree, l))
      <4> DEFINE first == WithRest(c.own, c.tab, d.tree, l, wanted.rest, moved)
                 kept == [Live(c.tab[l], d.tree, l) EXCEPT !.rest = wanted.rest]
      <4>1. r = AppliedTo(first.own, first.tab, d.tree, l, wanted.format, FALSE)
        BY <1>2, <1>7, <3>2 DEF AppliedProfile, ProfileAssumption
      <4> HIDE DEF r
      <4>2. wanted.format \in Formats /\ wanted.rest \in Rests BY <2>1, ProfileEdits
      <4>3. RestPut(c.own, c.tab, d.tree, l, wanted.rest, first)
        BY <1>2, <1>7, <2>1, <4>2, RestIsPut
      <4>4. kept \in Profiles /\ [kept EXCEPT !.format = wanted.format] = wanted
        <5>1. Live(c.tab[l], d.tree, l) \in Profiles
          BY <1>2, <1>7, <2>1, TabParts, LiveTyped
        <5>2. kept \in Profiles /\ kept.rest = wanted.rest BY <4>2, <5>1, ProfileEdits
        <5> HIDE DEF kept
        <5> QED BY <2>1, <4>2, <5>2, ProfileEdits
      <4>5. /\ first.own \in Owns /\ first.tab \in AllTabs /\ first.tab[l] # NoProfile
            /\ Live(first.tab[l], d.tree, l) = kept /\ first.tab[l].base = kept
            /\ \A x \in Logs \ {l} : first.own[x] = c.own[x] /\ first.tab[x] = c.tab[x]
            /\ first.own[l] = c.own[l] \/ first.own[l] = Reduced(kept, d.tree, l)
        BY <4>3 DEF RestPut
      <4> HIDE DEF first, kept
      <4>6. AppliedPut(first.own, first.tab, d.tree, l, wanted.format, r)
        BY <1>2, <1>7, <4>1, <4>2, <4>5, SettingsApply
      <4>7. /\ r.own \in Owns /\ r.tab \in AllTabs /\ r.tab[l] # NoProfile
            /\ Live(r.tab[l], d.tree, l) = wanted
            /\ \A x \in Logs \ {l} : r.own[x] = first.own[x] /\ r.tab[x] = first.tab[x]
            /\ (r.own[l] = first.own[l] /\ kept = wanted) \/ r.own[l] = Reduced(wanted, d.tree, l)
        BY <4>4, <4>5, <4>6 DEF AppliedPut
      <4>8. r.own[l] = c.own[l] \/ r.own[l] = Reduced(wanted, d.tree, l) BY <4>5, <4>7
      <4>9. d.apply = NoProfile => Stored(r.own, d.tree, l) = d.row
        <5>1. d.apply = NoProfile => wanted = d.row /\ wanted # NoProfile
          BY <2>1 DEF ProfileAssumption
        <5>2. d.apply = NoProfile => Or(Reduced(wanted, d.tree, l), Inherited(d.tree, l)) = d.row
          BY <2>1, <5>1, ReducedTyped
        <5> QED BY <2>1, <4>8, <5>2 DEF Stored
      <4> QED BY <4>5, <4>7, <4>9
    <3> QED BY <3>1, <3>2
  <2>4. own' = r.own /\ tab' = r.tab BY <1>0
  <2> HIDE DEF r
  <2>6. \A x \in Logs \ {l} : /\ own'[x] = Pruned(own, d.tree)[x]
                              /\ tab'[x] = NoProfile <=> tab[x] = NoProfile
    BY <1>4, <2>2, <2>4 DEF Commits
  <2>7. Answered(d) BY <1>1, <1>5, <2>2, <2>4, <2>6 DEF Answered
  <2>8. wanted = Or(d.apply, d.row) BY <2>1 DEF Or
  <2>9. ReadsItsAnswer(d) BY <1>1, <2>2, <2>4, <2>8 DEF ReadsItsAnswer
  <2> QED BY <1>1, <2>7, <2>9 DEF d
<1> QED BY <1>2, <1>6, <1>7

LEMMA OpenAnswer ==
  ASSUME ProfileInv, ProfileAssumption, AcceptOpen
  PROVE  /\ Answered(Final(dialog)) /\ ReadsItsAnswer(Final(dialog))
         /\ front' = dialog.log /\ dialog.log \in Logs
<1> DEFINE d == Final(dialog)
           c == Committed(d)
           l == d.log
           p == Stored(c.own, d.tree, l)
           new == OpenTab(c.own, l, p, TRUE)
           tabs == [c.tab EXCEPT ![l] = new]
<1>1. /\ tree' = d.tree /\ dialog' = NoProfile /\ shown' = shown
      /\ front' = l /\ asked' = asked \cup {l}
      /\ dialog # NoProfile /\ dialog.why = "open"
  BY DEF AcceptOpen
<1>0. PICK moved \in BOOLEAN : LET r == Persisted(c.own, tabs, d.tree, l, moved)
                              IN  own' = r.own /\ tab' = r.tab
  BY DEF AcceptOpen
<1> DEFINE r == Persisted(c.own, tabs, d.tree, l, moved)
<1>2. /\ d \in Dialogs /\ d.tree \in Trees /\ d.row \in Profiles /\ d.apply = NoProfile
      /\ l = dialog.log /\ l \in Logs
  BY <1>1, FinalParts
<1>3. own \in Owns /\ tab \in AllTabs /\ asked \subseteq Logs
  BY DEF ProfileInv, ProfileTypeOK, Owns, AllTabs
<1> HIDE DEF d
<1>4. Commits(d, c) BY <1>2, <1>3, RowIsCommitted, ProfileAssumption
<1>5. /\ c.own \in Owns /\ c.tab \in AllTabs /\ p = d.row /\ p \in Profiles
      /\ Or(c.own[l], Inherited(d.tree, l)) = p /\ c.own[l] \in Profiles \cup {NoProfile}
  BY <1>2, <1>4 DEF Commits, Stored, Owns
<1> HIDE DEF c, p
<1>6. new \in Tabs /\ new.format = p.format /\ new.base = c.own[l]
  <2>1. p.format \in Formats BY <1>5, ProfileEdits
  <2> QED BY <1>5, <2>1 DEF Tabs, OpenTab
<1>7. Live(new, d.tree, l) = p
  <2>1. Live(new, d.tree, l)
          = [format |-> new.format, rest |-> Or(new.base, Inherited(d.tree, l)).rest]
    <3> HIDE DEF new
    <3> QED BY <1>2, <1>6, LiveTyped
  <2> QED BY <1>5, <1>6, <2>1, ProfileEdits
<1> HIDE DEF new
<1>8. /\ tabs \in AllTabs /\ tabs[l] # NoProfile /\ tabs[l] = new
      /\ \A x \in Logs \ {l} : tabs[x] = c.tab[x]
  BY <1>2, <1>5, <1>6, ProfileAssumption DEF AllTabs, ProfileAssumption
<1>9. own' = r.own /\ tab' = r.tab /\ r = Persisted(c.own, tabs, d.tree, l, moved) BY <1>0
<1> HIDE DEF tabs, r
<1>10. PutBack(c.own, tabs, d.tree, l, r)
  BY <1>2, <1>5, <1>8, <1>9, FunnelPutsBack, ProfileAssumption
<1>11. Or(Reduced(p, d.tree, l), Inherited(d.tree, l)) = p
  BY <1>5, ReducedTyped, ProfileAssumption DEF ProfileAssumption
<1>12. Stored(r.own, d.tree, l) = p /\ Live(r.tab[l], d.tree, l) = p
  BY <1>5, <1>7, <1>8, <1>10, <1>11 DEF PutBack, Stored
<1>13. \A x \in Logs \ {l} : /\ own'[x] = Pruned(own, d.tree)[x]
                             /\ tab'[x] = NoProfile <=> tab[x] = NoProfile
  BY <1>4, <1>8, <1>9, <1>10 DEF PutBack, Commits
<1>14. asked' \subseteq Logs /\ tree' = d.tree BY <1>1, <1>2, <1>3 DEF d
<1>15. Answered(d) BY <1>1, <1>9, <1>10, <1>13, <1>14 DEF Answered, PutBack
<1>16. ReadsItsAnswer(d) BY <1>2, <1>5, <1>9, <1>12, <1>14 DEF ReadsItsAnswer, Or
<1> QED BY <1>1, <1>2, <1>15, <1>16 DEF d

LEMMA ResumeAnswer ==
  ASSUME ProfileInv, ProfileAssumption, AcceptResume
  PROVE  Answered(Final(dialog)) /\ front' = front
<1> DEFINE d == Final(dialog)
           c == Committed(d)
           l == d.log
           f == tab[l].format
<1>1. /\ tree' = d.tree /\ dialog' = NoProfile
      /\ UNCHANGED <<front, shown>> /\ asked' = asked \cup {l}
      /\ dialog # NoProfile /\ dialog.why = "resume"
  BY DEF AcceptResume
<1>0. PICK moved \in BOOLEAN : LET r == AppliedTo(c.own, c.tab, d.tree, l, f, moved)
                              IN  own' = r.own /\ tab' = r.tab
  BY DEF AcceptResume
<1> DEFINE r == AppliedTo(c.own, c.tab, d.tree, l, f, moved)
<1>2. /\ d \in Dialogs /\ d.tree \in Trees /\ l \in Logs /\ tab[l] # NoProfile
  BY <1>1, FinalParts DEF ProfileAssumption
<1>3. own \in Owns /\ tab \in AllTabs /\ asked \subseteq Logs
  BY DEF ProfileInv, ProfileTypeOK, Owns, AllTabs
<1> HIDE DEF d
<1>4. Commits(d, c) BY <1>2, <1>3, RowIsCommitted, ProfileAssumption
<1>5. f \in Formats BY <1>2, <1>3, TabParts, ProfileAssumption
<1>6. c.own \in Owns /\ c.tab \in AllTabs /\ c.tab[l] # NoProfile
  BY <1>2, <1>4 DEF Commits
<1>7. own' = r.own /\ tab' = r.tab BY <1>0
<1> HIDE DEF c, f
<1>8. AppliedPut(c.own, c.tab, d.tree, l, f, r)
  BY <1>2, <1>5, <1>6, SettingsApply, ProfileAssumption
<1> HIDE DEF r
<1>9. \A x \in Logs \ {l} : /\ own'[x] = Pruned(own, d.tree)[x]
                            /\ tab'[x] = NoProfile <=> tab[x] = NoProfile
  BY <1>4, <1>7, <1>8 DEF AppliedPut, Commits
<1>10. asked' \subseteq Logs BY <1>1, <1>2, <1>3
<1>11. Answered(d) BY <1>1, <1>7, <1>8, <1>9, <1>10 DEF Answered, AppliedPut
<1> QED BY <1>1, <1>11 DEF d

LEMMA AnswersKeep ==
  ASSUME ProfileInv, ProfileAssumption, AcceptPreferences \/ AcceptOpen \/ AcceptResume
  PROVE  ProfileInv'
<1> DEFINE d == Final(dialog)
<1>1. dialog # NoProfile BY DEF AcceptPreferences, AcceptOpen, AcceptResume
<1>2. d.tree \in Trees /\ d.log = dialog.log /\ d.log \in Logs \cup {NoProfile}
  BY <1>1, FinalParts
<1>3. Answered(d) BY PreferencesAnswer, OpenAnswer, ResumeAnswer
<1>4. \/ front' = d.log /\ d.log \in Logs
      \/ front' = front /\ (d.log \in Logs => tab[d.log] # NoProfile)
  <2>1. CASE AcceptOpen BY <1>2, <2>1, OpenAnswer
  <2>2. CASE AcceptPreferences
    BY <1>1, <2>2, PreferencesAnswer, FinalParts DEF AcceptPreferences, ProfileAssumption
  <2>3. CASE AcceptResume
    BY <1>1, <2>3, ResumeAnswer, FinalParts DEF AcceptResume, ProfileAssumption
  <2> QED BY <2>1, <2>2, <2>3
<1>5. /\ front \in Logs \cup {NoProfile} /\ (front # NoProfile => tab[front] # NoProfile)
      /\ (front = NoProfile => \A x \in Logs : tab[x] = NoProfile)
      /\ shown \in 0 .. MaxShowings
  BY DEF ProfileInv, ProfileTypeOK
<1> HIDE DEF d
<1>6. /\ front' \in Logs \cup {NoProfile} /\ (front' # NoProfile => tab'[front'] # NoProfile)
      /\ (front' = NoProfile => \A x \in Logs : tab'[x] = NoProfile)
  BY <1>2, <1>3, <1>4, <1>5 DEF Answered, ProfileAssumption
<1>7. ProfileTypeOK' BY <1>2, <1>3, <1>5, <1>6 DEF ProfileTypeOK, Answered, Owns, AllTabs
<1> QED BY <1>3, <1>6, <1>7 DEF ProfileInv, Answered

\* Every step of LogProfiles keeps the invariant.
LEMMA ProfileStep == ProfileAssumption /\ ProfileInv /\ [ProfileNext]_profileVars => ProfileInv'
<1> SUFFICES ASSUME ProfileAssumption, ProfileInv, [ProfileNext]_profileVars PROVE ProfileInv'
  OBVIOUS
<1>1. CASE ProfileNext
  BY <1>1, EditsKeep, QuietSteps, ShowingSteps, AnswersKeep DEF ProfileNext
<1>2. CASE UNCHANGED profileVars
  BY <1>2 DEF profileVars, ProfileInv, ProfileTypeOK, Asking
<1> QED BY <1>1, <1>2

LEMMA ProfileHolds == ProfileSpec => []ProfileInv
<1>1. ProfileInit => ProfileInv
  BY ProfileAssumption DEF ProfileInit, ProfileInv, ProfileTypeOK, Asking, ProfileAssumption
<1> QED BY <1>1, ProfileStep, ProfileAssumption, PTL DEF ProfileSpec

\* Only an accepted dialog moves the tree, and nothing else closes it and changes anything.
LEMMA OnlyAnswersMoveTheTree ==
  ASSUME [ProfileNext]_profileVars, dialog # NoProfile,
         \/ tree' # tree
         \/ /\ dialog' = NoProfile
            /\ <<tree, own, tab, front, asked>>' # <<tree, own, tab, front, asked>>
  PROVE  AcceptPreferences \/ AcceptOpen \/ AcceptResume
BY DEF ProfileNext, profileVars, OpenWithSettings, CloseTab, PersistFileSettings, BringForward,
       ApplySettings, ChooseRest, ShowPreferences, OfferFormat, ResumeOrSettle, SelectNode, EditNode,
       AddPattern, DeleteNode, MovePatternUp, UseSettingsFor, PromoteToParent, ApplyToCurrent,
       Made, Reject, Quiet, MayShow

\* For any logs, profiles, patterns and edits of the tree: a log with an entry of its own
\* goes on resolving to what the entry said when the dialog is accepted, whether the sweep
\* drops the entry or not (LogFileStore::pruneAgainst, MainWindow::commitPreferences).
THEOREM TreeEditsMoveNobody == ProfileSpec => SweepKeepsMeaning
<1>1. ASSUME ProfileInv, [ProfileNext]_profileVars, NEW l \in Logs,
             dialog # NoProfile, l # dialog.log, tree' # tree, own[l] # NoProfile
      PROVE  Or(own'[l], Inherited(tree', l)) = own[l]
  <2> DEFINE d == Final(dialog)
  <2>1. AcceptPreferences \/ AcceptOpen \/ AcceptResume BY <1>1, OnlyAnswersMoveTheTree
  <2>2. Answered(d)
    BY <1>1, <2>1, ProfileAssumption, PreferencesAnswer, OpenAnswer, ResumeAnswer
  <2>3. d.log = dialog.log /\ d.tree \in Trees BY <1>1, FinalParts
  <2> HIDE DEF d
  <2>4. own'[l] = Pruned(own, d.tree)[l] /\ tree' = d.tree
    BY <1>1, <2>2, <2>3 DEF Answered
  <2>5. own \in Owns BY <1>1 DEF ProfileInv, ProfileTypeOK, Owns
  <2> QED BY <1>1, <2>3, <2>4, <2>5, SweepKeeps
<1>2. ProfileInv /\ [ProfileNext]_profileVars =>
        [\A l \in Logs :
           (/\ dialog # NoProfile /\ l # dialog.log /\ tree' # tree
            /\ own[l] # NoProfile)
           => Or(own'[l], Inherited(tree', l)) = own[l]]_profileVars
  BY <1>1
<1> QED BY <1>2, ProfileHolds, PTL DEF ProfileSpec, SweepKeepsMeaning

\* For any edits: once Preferences, or the question of an open, is accepted, its log is
\* read with what its row showed or with the node "Apply" named; where nothing was named
\* the stores say the row too, whatever else of its record had moved
\* (MainWindow::showPreferences, openWithSettings).
THEOREM OkAlone == ProfileSpec => AnswerIsRead
<1>1. ASSUME ProfileInv, [ProfileNext]_profileVars, NEW l \in Logs,
             Accepted("preferences") \/ Accepted("open"), dialog.log = l
      PROVE  LET d == Final(dialog)
             IN  /\ ResolvedProfile(l)' = Or(d.apply, d.row)
                 /\ d.apply = NoProfile => Stored(own, tree, l)' = d.row
  <2> DEFINE d == Final(dialog)
  <2>1. AcceptPreferences \/ AcceptOpen \/ AcceptResume
    BY <1>1, OnlyAnswersMoveTheTree DEF Accepted
  <2>2. ~AcceptResume /\ dialog # NoProfile /\ dialog.log # NoProfile
    BY <1>1, ProfileAssumption DEF Accepted, AcceptResume, ProfileAssumption
  <2>3. ReadsItsAnswer(d) /\ Answered(d)
    BY <1>1, <2>1, <2>2, ProfileAssumption, PreferencesAnswer, OpenAnswer
  <2>4. d.log = l BY <1>1, <2>2, FinalParts
  <2> HIDE DEF d
  <2>5. /\ tab'[l] # NoProfile /\ Live(tab'[l], tree', l) = Or(d.apply, d.row)
        /\ d.apply = NoProfile => Stored(own', tree', l) = d.row
    BY <2>3, <2>4 DEF ReadsItsAnswer, Answered
  <2>6. ResolvedProfile(l)' = Or(d.apply, d.row) BY <2>5 DEF ResolvedProfile
  <2>7. d.apply = NoProfile => Stored(own, tree, l)' = d.row BY <2>5 DEF Stored
  <2> QED BY <2>6, <2>7 DEF d
<1>2. ProfileInv /\ [ProfileNext]_profileVars =>
        [\A l \in Logs :
           (Accepted("preferences") \/ Accepted("open")) /\ dialog.log = l =>
             LET d == Final(dialog)
             IN  /\ ResolvedProfile(l)' = Or(d.apply, d.row)
                 /\ d.apply = NoProfile => Stored(own, tree, l)' = d.row]_profileVars
  BY <1>1
<1> QED BY <1>2, ProfileHolds, PTL DEF ProfileSpec, AnswerIsRead

-----------------------------------------------------------------------------
(* The settings of logs survive                                            *)

\* The list es has log k in slot s.
At(es, k, s) == \E n \in DOMAIN es : es[n].key = k /\ es[n].slot = s
\* No log is in two slots, and no slot has two logs.
OneEach(es) ==
  \A k, l \in Keys, s, r \in Slots : At(es, k, s) /\ At(es, l, r) => (k = l <=> s = r)
InMap(mp, k, s) == mp # Nothing /\ At(mp, k, s)
Rec(k, c) == [key |-> k, says |-> c, newer |-> FALSE]

\* Every slot file but those excepted is listed, under the log it names.
Covers(es, sl, but) == \A s \in Slots \ but : sl[s] # Nothing => At(es, sl[s].key, s)
OneFileEach(sl) ==
  \A s, r \in Slots : sl[s] # Nothing /\ sl[r] # Nothing /\ sl[s].key = sl[r].key => s = r

\* What is on the disk answers as was promised: from the map, or, where the map may be
\* lost, from the slot files alone.
DiskOK(sl, mp, pr, tr) ==
  /\ mp # Nothing => OneEach(mp)
  /\ \A k \in Keys : pr[k] \in Contents =>
       IF mp = Nothing THEN "map" \in tr /\ \E s \in Slots : sl[s] = Rec(k, pr[k])
       ELSE \E s \in Slots : At(mp, k, s) /\ sl[s] = Rec(k, pr[k])
  /\ "map" \in tr => OneFileEach(sl)

\* And so does a window's own list.
Held(es, sl, pr) ==
  \A k \in Keys : pr[k] \in Contents => \E s \in Slots : At(es, k, s) /\ sl[s] = Rec(k, pr[k])
\* Where the map has a log, and it was promised, the window has it there too.
Linked(es, mp, pr) ==
  \A k \in Keys, s \in Slots : pr[k] \in Contents /\ InMap(mp, k, s) => At(es, k, s)
SameList(es, mp) == \A k \in Keys, s \in Slots : InMap(mp, k, s) <=> At(es, k, s)
\* What an operation in its middle knows of the write it still owes.
Owed(j, es, sl) ==
  /\ j \in {Nothing} \cup Flushes \cup Unlinks
  /\ j \in Flushes /\ j.key \in Keys =>
       j.says \in Contents /\ \E s \in Slots : At(es, j.key, s) /\ sl[s] = Rec(j.key, j.says)
  /\ j \in Unlinks => \A k \in Keys : ~At(es, k, j.slot)
Leaving(j) == IF j \in Unlinks THEN {j.slot} ELSE {}

Stores == [up : BOOLEAN, entries : Seq(Entry), dirty : BOOLEAN, pinned : SUBSET Keys,
           newer : SUBSET Keys, readOnly : BOOLEAN]
WindowOK(w, j, sl, mp, pr, tr) ==
  IF w.readOnly THEN w.entries = <<>> /\ ~w.dirty /\ j = Nothing
  ELSE /\ OneEach(w.entries) /\ Held(w.entries, sl, pr) /\ Linked(w.entries, mp, pr)
       /\ (~w.dirty => SameList(w.entries, mp)) /\ Owed(j, w.entries, sl)
       /\ "map" \in tr => Covers(w.entries, sl, Leaving(j))

PoolTypes ==
  /\ slot \in [Slots -> Records \cup {Nothing}] /\ (map = Nothing \/ map \in Seq(Entry))
  /\ newerMap \in BOOLEAN /\ pool \in [Instances -> Stores]
  /\ job \in [Instances -> {Nothing} \cup Flushes \cup Unlinks]
  /\ promised \in [Keys -> Contents \cup {Nothing, Unsure}]
  /\ "map" \in trouble => "crash" \notin trouble /\ "write" \notin trouble

PoolInv == alone =>
  /\ PoolTypes
  /\ \A i \in Instances : ~pool[i].up => job[i] = Nothing
  /\ \A i, j \in Instances : pool[i].up /\ pool[j].up => i = j
  /\ DiskOK(slot, map, promised, trouble)
  /\ \A i \in Instances : pool[i].up => WindowOK(pool[i], job[i], slot, map, promised, trouble)
  /\ "map" \in trouble /\ map # Nothing /\ (\A i \in Instances : pool[i].up => pool[i].readOnly)
       => Covers(map, slot, {})

\* A member's rank among the members of a finite set of numbers: each rank is taken once.
LEMMA Ranks ==
  ASSUME NEW S \in SUBSET Nat, IsFiniteSet(S)
  PROVE  LET rank(x) == Cardinality({y \in S : y <= x})
         IN /\ Cardinality(S) \in Nat
            /\ \A x \in S : rank(x) \in 1 .. Cardinality(S)
            /\ \A x, y \in S : rank(x) = rank(y) => x = y
            /\ \A k \in 1 .. Cardinality(S) : \E x \in S : rank(x) = k
<1> DEFINE n == Cardinality(S)
           Upto(x) == {y \in S : y <= x}
           rank == [x \in S |-> Cardinality(Upto(x))]
<1>1. n \in Nat /\ IsFiniteSet(1 .. n) /\ Cardinality(1 .. n) = n
  BY FS_CardinalityType, FS_Interval
<1>2. \A x \in S : IsFiniteSet(Upto(x)) /\ Cardinality(Upto(x)) \in 1 .. n
  <2> SUFFICES ASSUME NEW x \in S
               PROVE  IsFiniteSet(Upto(x)) /\ Cardinality(Upto(x)) \in 1 .. n
    OBVIOUS
  <2>1. Upto(x) \in SUBSET S /\ x \in Upto(x) OBVIOUS
  <2> HIDE DEF Upto
  <2>2. IsFiniteSet(Upto(x)) /\ Cardinality(Upto(x)) <= n BY <2>1, FS_Subset
  <2>3. Cardinality(Upto(x)) \in Nat /\ Cardinality(Upto(x)) # 0
    BY <2>1, <2>2, FS_EmptySet, FS_CardinalityType
  <2> QED BY <1>1, <2>2, <2>3
<1>3. \A x, y \in S : x < y => Cardinality(Upto(x)) < Cardinality(Upto(y))
  <2> SUFFICES ASSUME NEW x \in S, NEW y \in S, x < y
               PROVE  Cardinality(Upto(x)) < Cardinality(Upto(y))
    OBVIOUS
  <2>1. Upto(x) \in SUBSET Upto(y) /\ Upto(x) # Upto(y)
    <3>1. y \in Upto(y) /\ y \notin Upto(x) OBVIOUS
    <3>2. \A z \in Upto(x) : z \in Upto(y) OBVIOUS
    <3> HIDE DEF Upto
    <3> QED BY <3>1, <3>2
  <2> HIDE DEF Upto
  <2> QED BY <1>1, <1>2, <2>1, FS_Subset
<1> HIDE DEF Upto
<1>4. rank \in [S -> 1 .. n] BY <1>2
<1>5. \A x, y \in S : rank[x] = rank[y] => x = y
  <2> SUFFICES ASSUME NEW x \in S, NEW y \in S, x # y PROVE rank[x] # rank[y] OBVIOUS
  <2>1. x < y \/ y < x OBVIOUS
  <2> QED BY <1>2, <1>3, <2>1
<1>6. rank \in Injection(S, 1 .. n) BY <1>4, <1>5 DEF Injection, IsInjective
<1>7. rank \in Surjection(S, 1 .. n) BY <1>1, <1>6, FS_Injection
<1>8. \A k \in 1 .. n : \E x \in S : rank[x] = k BY <1>7 DEF Surjection
<1> QED BY <1>1, <1>2, <1>5, <1>8 DEF Upto

\* The empty sequence adds nothing.
LEMMA JoinedToNothing == ASSUME NEW S, NEW s \in Seq(S) PROVE s \o <<>> = s
  OBVIOUS

\* What is picked of a list is at the places given, all of them and no others.
LEMMA PickedIs ==
  ASSUME NEW T, NEW es \in Seq(T), NEW S \in SUBSET DOMAIN es
  PROVE  /\ Picked(es, S) \in Seq(T)
         /\ \A k \in DOMAIN Picked(es, S) : \E n \in S : Picked(es, S)[k] = es[n]
         /\ \A n \in S : \E k \in DOMAIN Picked(es, S) : Picked(es, S)[k] = es[n]
<1> DEFINE rank(x) == Cardinality({y \in S : y <= x})
           c == Cardinality(S)
           at(k) == CHOOSE n \in S : rank(n) = k
           f == [k \in 1 .. c |-> es[at(k)]]
<1>1. DOMAIN es = 1 .. Len(es) /\ Len(es) \in Nat OBVIOUS
<1>2. IsFiniteSet(DOMAIN es) BY <1>1, FS_Interval
<1>3. IsFiniteSet(S) /\ S \in SUBSET Nat BY <1>1, <1>2, FS_Subset
<1>4. /\ c \in Nat /\ \A x \in S : rank(x) \in 1 .. c
      /\ \A x, y \in S : rank(x) = rank(y) => x = y
      /\ \A k \in 1 .. c : \E x \in S : rank(x) = k
  BY <1>3, Ranks
<1>5. Picked(es, S) = f \o <<>> BY DEF Picked
<1> HIDE DEF rank, c
<1>6. \A k \in 1 .. c : at(k) \in S /\ rank(at(k)) = k BY <1>4
<1>7. \A x \in S : at(rank(x)) = x BY <1>4, <1>6
<1> HIDE DEF at
<1>8. \A k \in 1 .. c : f[k] = es[at(k)] /\ f[k] \in T BY <1>6
<1>9. f \in Seq(T) /\ DOMAIN f = 1 .. c BY <1>4, <1>8
<1> HIDE DEF f
<1>10. Picked(es, S) = f BY <1>5, <1>9, JoinedToNothing
<1> QED BY <1>4, <1>6, <1>7, <1>8, <1>9, <1>10


\* An entry of a map is a log and a slot.
LEMMA EntriesAre ==
  ASSUME NEW es \in Seq(Entry)
  PROVE  \A n \in DOMAIN es : es[n].key \in Keys /\ es[n].slot \in Slots
<1>1. \A n \in DOMAIN es : es[n] \in Entry OBVIOUS
<1> QED BY <1>1 DEF Entry

\* Without a log, the other entries are where they were.
LEMMA WithoutIs ==
  ASSUME NEW es \in Seq(Entry), NEW k
  PROVE  /\ Without(es, k) \in Seq(Entry)
         /\ \A l, s : At(Without(es, k), l, s) <=> At(es, l, s) /\ l # k
<1> DEFINE S == {n \in DOMAIN es : es[n].key # k}
           w == Without(es, k)
<1>1. S \in SUBSET DOMAIN es /\ w = Picked(es, S) BY DEF Without
<1>2. \A n : n \in S <=> n \in DOMAIN es /\ es[n].key # k OBVIOUS
<1> HIDE DEF S, w
<1>3. /\ w \in Seq(Entry)
      /\ \A m \in DOMAIN w : \E n \in S : w[m] = es[n]
      /\ \A n \in S : \E m \in DOMAIN w : w[m] = es[n]
  BY <1>1, PickedIs
<1>4. ASSUME NEW l, NEW s, At(w, l, s) PROVE At(es, l, s) /\ l # k
  <2>1. PICK m \in DOMAIN w : w[m].key = l /\ w[m].slot = s BY <1>4 DEF At
  <2>2. PICK n \in S : w[m] = es[n] BY <1>3
  <2>3. n \in DOMAIN es /\ es[n].key # k BY <1>2
  <2> QED BY <2>1, <2>2, <2>3, Zenon DEF At
<1>5. ASSUME NEW l, NEW s, At(es, l, s), l # k PROVE At(w, l, s)
  BY <1>2, <1>3, <1>5, Zenon DEF At
<1> QED BY <1>3, <1>4, <1>5 DEF w

\* With one entry more, the others are where they were.
LEMMA WithEntryIs ==
  ASSUME NEW es \in Seq(Entry), NEW k \in Keys, NEW s \in Slots
  PROVE  /\ WithEntry(es, k, s) \in Seq(Entry)
         /\ \A l, r : At(WithEntry(es, k, s), l, r) <=> At(es, l, r) \/ (l = k /\ r = s)
<1> DEFINE e == [key |-> k, slot |-> s]
           w == WithEntry(es, k, s)
           n == Len(es)
<1>1. e \in Entry /\ w = es \o <<e>> /\ n \in Nat BY DEF WithEntry, Entry
<1>2. w \in Seq(Entry) /\ Len(w) = n + 1 BY <1>1
<1>3. /\ \A m \in 1 .. n : w[m] = es[m]
      /\ w[n + 1] = e
  BY <1>1
<1>4. DOMAIN w = 1 .. n + 1 /\ DOMAIN es = 1 .. n BY <1>2
<1>5. e.key = k /\ e.slot = s OBVIOUS
<1> HIDE DEF w, e, n
<1>6. \A m \in 1 .. n + 1 : m \in 1 .. n \/ m = n + 1 BY <1>1
<1>7. ASSUME NEW l, NEW r PROVE At(w, l, r) <=> At(es, l, r) \/ (l = k /\ r = s)
  <2>1. At(w, l, r) => At(es, l, r) \/ (l = k /\ r = s) BY <1>3, <1>4, <1>5, <1>6 DEF At
  <2>2. At(es, l, r) => At(w, l, r) BY <1>1, <1>3, <1>4 DEF At
  <2>3. l = k /\ r = s => At(w, l, r) BY <1>1, <1>3, <1>4, <1>5 DEF At
  <2> QED BY <2>1, <2>2, <2>3
<1> QED BY <1>2, <1>7 DEF w

\* What an entry of a log says, where a log is in one slot.
LEMMA EntryIs ==
  ASSUME NEW es \in Seq(Entry), OneEach(es), NEW k \in Keys
  PROVE  /\ Has(es, k) => EntryOf(es, k).slot \in Slots /\ At(es, k, EntryOf(es, k).slot)
         /\ \A s \in Slots : At(es, k, s) => Has(es, k) /\ EntryOf(es, k).slot = s
<1>1. \A n \in DOMAIN es : es[n].key \in Keys /\ es[n].slot \in Slots BY EntriesAre
<1>2. Has(es, k) => EntryOf(es, k).slot \in Slots /\ At(es, k, EntryOf(es, k).slot)
  <2> DEFINE m == CHOOSE n \in DOMAIN es : es[n].key = k
  <2> SUFFICES ASSUME Has(es, k)
               PROVE  EntryOf(es, k).slot \in Slots /\ At(es, k, EntryOf(es, k).slot)
    OBVIOUS
  <2>1. m \in DOMAIN es /\ es[m].key = k BY DEF Has
  <2>2. EntryOf(es, k) = es[m] BY DEF EntryOf
  <2> QED BY <1>1, <2>1, <2>2 DEF At
<1>3. ASSUME NEW s \in Slots, At(es, k, s) PROVE Has(es, k) /\ EntryOf(es, k).slot = s
  <2>1. Has(es, k) BY <1>3 DEF At, Has
  <2> QED BY <1>2, <1>3, <2>1 DEF OneEach
<1> QED BY <1>2, <1>3

\* A set of numbers that has a member has a least one.
LEMMA LeastBounds ==
  ASSUME NEW S \in SUBSET Nat, S # {}
  PROVE  Min(S) \in S /\ \A y \in S : Min(S) <= y
<1> DEFINE R == OpToRel(<, Nat)
<1>1. PICK x \in S : \A y \in S : ~(<<y, x>> \in R) BY NatLessThanWellFounded, WFMin
<1>2. \A y \in S : ~(y < x) BY <1>1 DEF OpToRel
<1>3. \A y \in S : x <= y BY <1>2
<1> QED BY <1>3 DEF Min

\* allocateSlot() hands out a slot nobody has, or that of a log not among `pins`, whose entry
\* goes; the others stay where they are.
LEMMA AllocIs ==
  ASSUME NEW es \in Seq(Entry), OneEach(es), NEW pins, NEW newer, CanAllocate(es, pins)
  PROVE  LET to == AllocateSlot(es, pins, newer)
         IN /\ to.slot \in Slots /\ to.entries \in Seq(Entry)
            /\ \A l \in Keys, r \in Slots : At(to.entries, l, r) <=> At(es, l, r) /\ r # to.slot
            /\ \A l \in Keys : At(es, l, to.slot) => l \notin pins
<1> DEFINE to == AllocateSlot(es, pins, newer)
<1>1. \A n \in DOMAIN es : es[n].key \in Keys /\ es[n].slot \in Slots BY EntriesAre
<1>2. CASE Slots \ Taken(es) # {}
  <2>1. to = [slot |-> Min(Slots \ Taken(es)), entries |-> es] BY <1>2 DEF AllocateSlot
  <2>2. to.slot \in Slots \ Taken(es) /\ to.entries = es
    <3> DEFINE F == Slots \ Taken(es)
    <3>1. F \in SUBSET Nat /\ F # {} BY <1>2, PoolAssumption
    <3> HIDE DEF F
    <3>2. Min(F) \in F BY <3>1, LeastBounds
    <3> QED BY <2>1, <3>2 DEF F
  <2>3. \A l \in Keys : ~At(es, l, to.slot) BY <2>2 DEF At, Taken
  <2> QED BY <2>2, <2>3
<1>3. CASE Slots \ Taken(es) = {}
  <2> DEFINE v == VictimOf(es, pins, newer)
  <2>1. Victims(es, pins, {}) # {} BY <1>3 DEF CanAllocate
  <2>2. \E n \in DOMAIN es : v = es[n] /\ es[n].key \notin pins
    <3>1. CASE Victims(es, pins, newer) # {}
      <4>1. Victims(es, pins, newer) \in SUBSET Nat BY DEF Victims
      <4>2. Min(Victims(es, pins, newer)) \in Victims(es, pins, newer)
        BY <3>1, <4>1, LeastBounds
      <4> QED BY <3>1, <4>2 DEF VictimOf, Victims
    <3>2. CASE Victims(es, pins, newer) = {}
      <4>1. Victims(es, pins, {}) \in SUBSET Nat BY DEF Victims
      <4>2. Min(Victims(es, pins, {})) \in Victims(es, pins, {})
        BY <2>1, <4>1, LeastBounds
      <4> QED BY <3>2, <4>2 DEF VictimOf, Victims
    <3> QED BY <3>1, <3>2
  <2>3. v.key \in Keys /\ v.slot \in Slots /\ At(es, v.key, v.slot) /\ v.key \notin pins
    BY <1>1, <2>2 DEF At
  <2>4. to = [slot |-> v.slot, entries |-> Without(es, v.key)] BY <1>3 DEF AllocateSlot
  <2> HIDE DEF v, to
  <2>5. to.slot = v.slot /\ to.entries = Without(es, v.key) BY <2>4
  <2>6. \A l \in Keys, r \in Slots : At(es, l, r) => (l # v.key <=> r # v.slot)
    BY <2>3 DEF OneEach
  <2> QED BY <2>3, <2>5, <2>6, WithoutIs DEF to
<1> QED BY <1>2, <1>3

\* rebuildFromSlots() lists what the files say, and all of them where no log has two.
LEMMA FoundIs ==
  ASSUME NEW sl \in [Slots -> Records \cup {Nothing}]
  PROVE  /\ FoundIn(sl) \in Seq(Entry) /\ OneEach(FoundIn(sl))
         /\ OneFileEach(sl) => Covers(FoundIn(sl), sl, {})
<1> DEFINE named(n) == sl[DirOrder[n]] # Nothing
           first(n) == \A m \in 1 .. (n - 1) :
                         named(m) => sl[DirOrder[m]].key # sl[DirOrder[n]].key
           S == {n \in DOMAIN DirOrder : named(n) /\ first(n)}
           found == Picked(DirOrder, S)
           es == FoundIn(sl)
<1>1. es = [n \in 1 .. Len(found) |-> [key |-> sl[found[n]].key, slot |-> found[n]]]
  BY DEF FoundIn
<1>2. DirOrder \in Seq(Slots) /\ DOMAIN DirOrder = 1 .. Len(DirOrder) /\ Len(DirOrder) \in Nat
  BY PoolAssumption
<1>3. \A n \in DOMAIN DirOrder : DirOrder[n] \in Slots BY <1>2
<1>4. /\ found \in Seq(Slots)
      /\ \A k \in DOMAIN found : \E n \in S : found[k] = DirOrder[n]
      /\ \A n \in S : \E k \in DOMAIN found : found[k] = DirOrder[n]
  <2>1. S \in SUBSET DOMAIN DirOrder OBVIOUS
  <2> HIDE DEF S
  <2> QED BY <1>2, <2>1, PickedIs
<1>5. DOMAIN found = 1 .. Len(found) /\ Len(found) \in Nat
  <2> HIDE DEF found
  <2> QED BY <1>4
<1>6. \A n \in S : n \in 1 .. Len(DirOrder) /\ named(n) /\ first(n) BY <1>2
<1>7. \A n \in S : sl[DirOrder[n]] \in Records BY <1>3, <1>6
<1>8. \A n, m \in S : sl[DirOrder[n]].key = sl[DirOrder[m]].key => n = m
  <2> SUFFICES ASSUME NEW n \in S, NEW m \in S, n # m,
                      sl[DirOrder[n]].key = sl[DirOrder[m]].key
               PROVE  FALSE
    OBVIOUS
  <2>1. n \in 1 .. (m - 1) \/ m \in 1 .. (n - 1) BY <1>2, <1>6
  <2> QED BY <1>6, <2>1
<1> HIDE DEF found, S
<1>9. \A l, s : At(es, l, s) <=> \E n \in S : s = DirOrder[n] /\ l = sl[s].key
  <2>1. \A l, s : At(es, l, s) <=> \E k \in DOMAIN found : s = found[k] /\ l = sl[s].key
    <3>1. DOMAIN es = DOMAIN found BY <1>1, <1>5
    <3>2. \A k \in DOMAIN found : es[k].key = sl[found[k]].key /\ es[k].slot = found[k]
      BY <1>1, <1>5
    <3> HIDE DEF es
    <3> QED BY <3>1, <3>2, Zenon DEF At
  <2>2. ASSUME NEW l, NEW s
        PROVE  (\E k \in DOMAIN found : s = found[k] /\ l = sl[s].key)
                 <=> (\E n \in S : s = DirOrder[n] /\ l = sl[s].key)
    BY <1>4
  <2> QED BY <2>1, <2>2
<1>10. es \in Seq(Entry)
  <2>1. \A k \in 1 .. Len(found) : found[k] \in Slots /\ sl[found[k]].key \in Keys
    BY <1>3, <1>4, <1>5, <1>7, <1>6, <1>2 DEF Records, S
  <2>2. \A k \in 1 .. Len(found) : [key |-> sl[found[k]].key, slot |-> found[k]] \in Entry
    BY <2>1 DEF Entry
  <2> QED BY <1>1, <1>5, <2>2
<1> HIDE DEF es
<1>11. OneEach(es) BY <1>8, <1>9 DEF OneEach
<1>12. ASSUME OneFileEach(sl), NEW s \in Slots, sl[s] # Nothing
       PROVE  At(es, sl[s].key, s)
  <2> DEFINE P == {n \in DOMAIN DirOrder : DirOrder[n] = s}
  <2>1. P \in SUBSET Nat /\ P # {} BY <1>2, PoolAssumption
  <2>2. PICK n \in P : TRUE BY <2>1
  <2>3. \A m \in DOMAIN DirOrder : named(m) /\ sl[DirOrder[m]].key = sl[s].key => m \in P
    BY <1>3, <1>12 DEF OneFileEach
  <2>4. Min(P) \in P /\ \A m \in P : Min(P) <= m BY <2>1, LeastBounds
  <2>5. Min(P) \in S
    <3>1. Min(P) \in DOMAIN DirOrder /\ DirOrder[Min(P)] = s /\ named(Min(P))
      BY <1>12, <2>4
    <3>2. ASSUME NEW m \in 1 .. (Min(P) - 1), named(m)
          PROVE  sl[DirOrder[m]].key # sl[DirOrder[Min(P)]].key
      <4>1. m \in DOMAIN DirOrder /\ m \notin P
        <5>1. \A q \in 1 .. Len(DirOrder) : m \in 1 .. (q - 1) => m \in 1 .. Len(DirOrder) /\ ~(q <= m)
          BY <1>2
        <5> QED BY <1>2, <2>4, <3>1, <5>1
      <4> QED BY <2>3, <3>1, <3>2, <4>1
    <3> HIDE DEF P
    <3> QED BY <3>1, <3>2 DEF S
  <2> QED BY <1>9, <2>4, <2>5
<1> QED BY <1>10, <1>11, <1>12 DEF Covers, es

\* A list reordered is the same list.
LEMMA SameLists ==
  ASSUME NEW es, NEW fs, \A k \in Keys, s \in Slots : At(es, k, s) <=> At(fs, k, s),
         NEW sl \in [Slots -> Records \cup {Nothing}], NEW mp, NEW pr, NEW j, NEW but
  PROVE  /\ OneEach(es) => OneEach(fs)
         /\ Held(es, sl, pr) => Held(fs, sl, pr)
         /\ Linked(es, mp, pr) => Linked(fs, mp, pr)
         /\ SameList(es, mp) => SameList(fs, mp)
         /\ Owed(j, es, sl) => Owed(j, fs, sl)
         /\ Covers(es, sl, but) => Covers(fs, sl, but)
<1>1. OneEach(es) => OneEach(fs) BY DEF OneEach
<1>2. Held(es, sl, pr) => Held(fs, sl, pr) BY DEF Held
<1>3. Linked(es, mp, pr) => Linked(fs, mp, pr) BY DEF Linked
<1>4. SameList(es, mp) => SameList(fs, mp) BY DEF SameList
<1>5. Owed(j, es, sl) => Owed(j, fs, sl)
  <2>1. j \in Unlinks => j.slot \in Slots BY DEF Unlinks
  <2> QED BY <2>1 DEF Owed
<1>6. Covers(es, sl, but) => Covers(fs, sl, but)
  <2>1. \A s \in Slots : sl[s] # Nothing => sl[s].key \in Keys BY DEF Records
  <2> QED BY <2>1 DEF Covers
<1> QED BY <1>1, <1>2, <1>3, <1>4, <1>5, <1>6

Jobs == {Nothing} \cup Flushes \cup Unlinks
\* A step of window i leaves the stores of the others.
OnlyWindow(i) ==
  /\ pool' \in [Instances -> Stores] /\ job' \in [Instances -> Jobs]
  /\ \A j \in Instances \ {i} : pool'[j] = pool[j] /\ job'[j] = job[j]
  /\ UNCHANGED <<newerMap, alone, trouble>>
  /\ slot' \in [Slots -> Records \cup {Nothing}] /\ (map' = Nothing \/ map' \in Seq(Entry))
  /\ promised' \in [Keys -> Contents \cup {Nothing, Unsure}]

\* What is known of the window that runs, when it runs alone and may write.
LEMMA ActorIs ==
  ASSUME PoolInv, alone, NEW i \in Instances, pool[i].up, ~pool[i].readOnly
  PROVE  /\ PoolTypes /\ pool[i] \in Stores /\ pool[i].entries \in Seq(Entry)
         /\ OneEach(pool[i].entries) /\ Held(pool[i].entries, slot, promised)
         /\ Linked(pool[i].entries, map, promised)
         /\ ~pool[i].dirty => SameList(pool[i].entries, map)
         /\ Owed(job[i], pool[i].entries, slot)
         /\ "map" \in trouble => Covers(pool[i].entries, slot, Leaving(job[i]))
         /\ DiskOK(slot, map, promised, trouble)
<1>1. PoolTypes /\ DiskOK(slot, map, promised, trouble)
      /\ WindowOK(pool[i], job[i], slot, map, promised, trouble)
  BY DEF PoolInv
<1>2. pool[i] \in Stores BY <1>1 DEF PoolTypes
<1>3. pool[i].entries \in Seq(Entry) BY <1>2 DEF Stores
<1> QED BY <1>1, <1>2, <1>3 DEF WindowOK

\* What a step of the window that runs has to leave.
LEMMA WindowGoesOn ==
  ASSUME PoolInv, alone, NEW i \in Instances, pool[i].up, OnlyWindow(i), pool'[i].up,
         DiskOK(slot', map', promised', trouble'),
         WindowOK(pool'[i], job'[i], slot', map', promised', trouble'),
         pool'[i].readOnly => pool[i].readOnly /\ slot' = slot /\ map' = map
  PROVE  PoolInv'
<1>1. /\ PoolTypes
      /\ \A j \in Instances : ~pool[j].up => job[j] = Nothing
      /\ \A j, m \in Instances : pool[j].up /\ pool[m].up => j = m
      /\ "map" \in trouble /\ map # Nothing /\ (\A j \in Instances : pool[j].up => pool[j].readOnly)
           => Covers(map, slot, {})
  BY DEF PoolInv
<1>2. PoolTypes' BY <1>1 DEF PoolTypes, OnlyWindow, Jobs
<1>3. trouble' = trouble /\ \A j \in Instances \ {i} : ~pool[j].up /\ pool'[j] = pool[j] /\ job'[j] = job[j]
  BY <1>1 DEF OnlyWindow
<1>4. /\ \A j \in Instances : ~pool'[j].up => job'[j] = Nothing
      /\ \A j, m \in Instances : pool'[j].up /\ pool'[m].up => j = m
      /\ \A j \in Instances : pool'[j].up =>
           WindowOK(pool'[j], job'[j], slot', map', promised', trouble')
  BY <1>1, <1>3
<1>5. "map" \in trouble' /\ map' # Nothing /\ (\A j \in Instances : pool'[j].up => pool'[j].readOnly)
        => Covers(map', slot', {})
  <2> SUFFICES ASSUME "map" \in trouble, map' # Nothing, pool'[i].readOnly
               PROVE  Covers(map', slot', {})
    BY <1>3
  <2>1. \A j \in Instances : pool[j].up => pool[j].readOnly BY <1>3
  <2> QED BY <1>1, <2>1
<1> QED BY <1>2, <1>4, <1>5 DEF PoolInv

\* A store whose list is another one.
Relisted(p, q, i, es, d) ==
  /\ p \in [Instances -> Stores] /\ es \in Seq(Entry) /\ d \in BOOLEAN
  /\ q = [p EXCEPT ![i].entries = es, ![i].dirty = d]
HasList(p, q, i, es, d) ==
  /\ q \in [Instances -> Stores] /\ \A j \in Instances \ {i} : q[j] = p[j]
  /\ q[i].up = p[i].up /\ q[i].entries = es /\ q[i].dirty = d
  /\ q[i].readOnly = p[i].readOnly
\* It has that list, and the other stores are what they were.
LEMMA StoreRelisted ==
  ASSUME NEW p, NEW i \in Instances, NEW es, NEW d, NEW q, Relisted(p, q, i, es, d)
  PROVE  HasList(p, q, i, es, d)
<1>0. p \in [Instances -> Stores] /\ es \in Seq(Entry) /\ d \in BOOLEAN BY DEF Relisted
<1>1. \A j \in Instances : p[j] \in Stores BY <1>0
<1>2. q = [p EXCEPT ![i] = [p[i] EXCEPT !.entries = es, !.dirty = d]] BY DEF Relisted
<1> DEFINE w == [p[i] EXCEPT !.entries = es, !.dirty = d]
<1>3. /\ w \in Stores /\ w.up = p[i].up /\ w.entries = es /\ w.dirty = d
      /\ w.readOnly = p[i].readOnly
  BY <1>0, <1>1 DEF Stores
<1> HIDE DEF w
<1>4. q = [p EXCEPT ![i] = w] BY <1>2 DEF w
<1> QED BY <1>0, <1>3, <1>4 DEF HasList

\* setPinned().
LEMMA PinningKeeps ==
  ASSUME PoolInv, alone, NEW i \in Instances, pool[i].up, NEW ks \in SUBSET Openable, SetPinned(i, ks)
  PROVE  PoolInv'
<1>1. PoolTypes /\ DiskOK(slot, map, promised, trouble)
      /\ WindowOK(pool[i], job[i], slot, map, promised, trouble)
  BY DEF PoolInv
<1>2. pool' = [pool EXCEPT ![i].pinned = ks]
      /\ UNCHANGED <<slot, map, newerMap, job, promised, alone, trouble>>
  BY DEF SetPinned
<1>3. pool \in [Instances -> Stores] /\ ks \in SUBSET Keys
  BY <1>1, PoolAssumption DEF PoolTypes
<1>4. /\ pool'[i].up = pool[i].up /\ pool'[i].entries = pool[i].entries
      /\ pool'[i].dirty = pool[i].dirty /\ pool'[i].readOnly = pool[i].readOnly
      /\ \A j \in Instances \ {i} : pool'[j] = pool[j]
      /\ pool' \in [Instances -> Stores]
  BY <1>2, <1>3 DEF Stores
<1>5. OnlyWindow(i) BY <1>1, <1>2, <1>4 DEF OnlyWindow, PoolTypes, Jobs
<1>6. WindowOK(pool'[i], job'[i], slot', map', promised', trouble')
  BY <1>1, <1>2, <1>4 DEF WindowOK
<1> QED BY <1>1, <1>2, <1>4, <1>5, <1>6, WindowGoesOn

\* touch() moves an entry to the end.
LEMMA TouchKeeps ==
  ASSUME PoolInv, alone, NEW i \in Instances, pool[i].up, NEW k \in Keys, Touch(i, k)
  PROVE  PoolInv'
<1> DEFINE es == pool[i].entries
           fs == WithEntry(Without(es, k), k, EntryOf(es, k).slot)
<1>1. /\ job[i] = Nothing /\ Has(es, k)
      /\ pool' = [pool EXCEPT ![i].entries = fs, ![i].dirty = TRUE]
      /\ UNCHANGED <<slot, map, newerMap, job, promised, alone, trouble>>
  BY DEF Touch, Idle
<1>2. ~pool[i].readOnly
  <2>1. WindowOK(pool[i], job[i], slot, map, promised, trouble) BY DEF PoolInv
  <2>2. es # <<>> BY <1>1 DEF Has
  <2> QED BY <2>1, <2>2 DEF WindowOK
<1>3. /\ PoolTypes /\ es \in Seq(Entry) /\ OneEach(es) /\ Held(es, slot, promised)
      /\ Linked(es, map, promised) /\ Owed(job[i], es, slot)
      /\ "map" \in trouble => Covers(es, slot, Leaving(job[i]))
      /\ DiskOK(slot, map, promised, trouble)
  BY <1>2, ActorIs
<1>4. EntryOf(es, k).slot \in Slots /\ At(es, k, EntryOf(es, k).slot)
      /\ \A s \in Slots : At(es, k, s) => s = EntryOf(es, k).slot
  BY <1>1, <1>3, EntryIs
<1>5. Without(es, k) \in Seq(Entry)
      /\ \A l, s : At(Without(es, k), l, s) <=> At(es, l, s) /\ l # k
  BY <1>3, WithoutIs
<1>6. fs \in Seq(Entry)
      /\ \A l, r : At(fs, l, r) <=> At(Without(es, k), l, r) \/ (l = k /\ r = EntryOf(es, k).slot)
  BY <1>4, <1>5, WithEntryIs
<1>7. \A l \in Keys, r \in Slots : At(es, l, r) <=> At(fs, l, r) BY <1>4, <1>5, <1>6
<1> HIDE DEF es, fs
<1>8. slot \in [Slots -> Records \cup {Nothing}] /\ pool \in [Instances -> Stores]
  BY <1>3 DEF PoolTypes
<1>9. /\ OneEach(fs) /\ Held(fs, slot, promised) /\ Linked(fs, map, promised)
      /\ Owed(job[i], fs, slot)
      /\ "map" \in trouble => Covers(fs, slot, Leaving(job[i]))
  BY <1>3, <1>7, <1>8, SameLists
<1>10. /\ pool'[i].up /\ pool'[i].entries = fs /\ pool'[i].dirty /\ ~pool'[i].readOnly
       /\ \A j \in Instances \ {i} : pool'[j] = pool[j]
       /\ pool' \in [Instances -> Stores]
  BY <1>1, <1>2, <1>6, <1>8 DEF Stores
<1>11. OnlyWindow(i) BY <1>1, <1>3, <1>10 DEF OnlyWindow, PoolTypes, Jobs
<1>12. WindowOK(pool'[i], job'[i], slot', map', promised', trouble')
  BY <1>1, <1>9, <1>10 DEF WindowOK
<1> QED BY <1>1, <1>3, <1>10, <1>11, <1>12, WindowGoesOn

\* A log gets a slot, or keeps the one it has, and its record is written there; what was
\* promised to others is not in that slot.
WritesSlot(i, k, c, s) ==
  /\ OnlyWindow(i) /\ pool'[i].up /\ ~pool'[i].readOnly
  /\ \A l \in Keys, r \in Slots :
       At(pool'[i].entries, l, r)
         <=> (At(pool[i].entries, l, r) /\ r # s) \/ (l = k /\ r = s)
  /\ \A r \in Slots : At(pool[i].entries, k, r) => r = s
  /\ ~pool'[i].dirty => ~pool[i].dirty /\ At(pool[i].entries, k, s)
  /\ slot' = [slot EXCEPT ![s] = Rec(k, c)] /\ map' = map
  /\ job'[i] = [kind |-> "flush", key |-> k, says |-> c]
  /\ \A x \in Keys : promised'[x] \in Contents =>
       x # k /\ promised'[x] = promised[x] /\ ~At(pool[i].entries, x, s)
\* The record is owed its map write; until then nothing is promised of its log.
LEMMA SlotWritten ==
  ASSUME PoolInv, alone, NEW i \in Instances, pool[i].up, ~pool[i].readOnly, job[i] = Nothing,
         NEW k \in Keys, NEW c \in Contents, NEW s \in Slots, WritesSlot(i, k, c, s)
  PROVE  PoolInv'
<1> DEFINE es == pool[i].entries
           fs == pool'[i].entries
<1>1. /\ PoolTypes /\ es \in Seq(Entry) /\ OneEach(es) /\ Held(es, slot, promised)
      /\ Linked(es, map, promised)
      /\ ~pool[i].dirty => SameList(es, map)
      /\ "map" \in trouble => Covers(es, slot, Leaving(job[i]))
      /\ DiskOK(slot, map, promised, trouble)
  BY ActorIs
<1>2. /\ \A l \in Keys, r \in Slots :
           At(fs, l, r) <=> (At(es, l, r) /\ r # s) \/ (l = k /\ r = s)
      /\ \A r \in Slots : At(es, k, r) => r = s
      /\ \A x \in Keys : promised'[x] \in Contents =>
           x # k /\ promised'[x] = promised[x] /\ ~At(es, x, s)
      /\ ~pool'[i].dirty => ~pool[i].dirty /\ At(es, k, s)
  BY DEF WritesSlot
<1>0. /\ OnlyWindow(i) /\ pool'[i].up /\ ~pool'[i].readOnly /\ map' = map
      /\ slot' = [slot EXCEPT ![s] = Rec(k, c)]
      /\ job'[i] = [kind |-> "flush", key |-> k, says |-> c]
  BY DEF WritesSlot
<1> HIDE DEF es, fs
<1>3. slot \in [Slots -> Records \cup {Nothing}] BY <1>1 DEF PoolTypes
<1>4. slot'[s] = Rec(k, c) /\ \A r \in Slots : r # s => slot'[r] = slot[r] BY <1>0, <1>3
<1>5. OneEach(fs) BY <1>1, <1>2 DEF OneEach
<1>6. Held(fs, slot', promised')
  <2> SUFFICES ASSUME NEW x \in Keys, promised'[x] \in Contents
               PROVE  \E r \in Slots : At(fs, x, r) /\ slot'[r] = Rec(x, promised'[x])
    BY DEF Held
  <2>1. PICK r \in Slots : At(es, x, r) /\ slot[r] = Rec(x, promised[x])
    BY <1>1, <1>2 DEF Held
  <2>2. r # s BY <1>2, <2>1
  <2> QED BY <1>2, <1>4, <2>1, <2>2
<1>7. Linked(fs, map', promised') BY <1>0, <1>1, <1>2 DEF Linked
<1>8. ~pool'[i].dirty => SameList(fs, map')
  <2> SUFFICES ASSUME ~pool'[i].dirty PROVE SameList(fs, map) BY <1>0
  <2>1. SameList(es, map) /\ At(es, k, s) BY <1>1, <1>2
  <2>2. \A l \in Keys, r \in Slots : At(fs, l, r) <=> At(es, l, r)
    BY <1>1, <1>2, <2>1 DEF OneEach
  <2> QED BY <2>1, <2>2 DEF SameList
<1>9. job'[i] \in Flushes /\ job'[i].key = k /\ job'[i].says = c BY <1>0 DEF Flushes
<1>10. job'[i] \notin Unlinks BY <1>9 DEF Flushes, Unlinks
<1>11. Owed(job'[i], fs, slot')
  <2>1. At(fs, k, s) BY <1>2
  <2> QED BY <1>4, <1>9, <1>10, <2>1 DEF Owed
<1>12. Leaving(job'[i]) = {} /\ Leaving(job[i]) = {} BY <1>10, PoolAssumption DEF Leaving
<1>13. "map" \in trouble => Covers(fs, slot', {})
  <2> SUFFICES ASSUME "map" \in trouble, NEW r \in Slots, slot'[r] # Nothing
               PROVE  At(fs, slot'[r].key, r)
    BY DEF Covers
  <2>1. CASE r = s BY <1>2, <1>4, <2>1 DEF Rec
  <2>2. CASE r # s
    <3>1. slot'[r] = slot[r] BY <1>4, <2>2
    <3>2. At(es, slot[r].key, r) BY <1>1, <1>12, <3>1 DEF Covers
    <3>3. slot[r].key \in Keys BY <1>3, <3>1 DEF Records
    <3> QED BY <1>2, <2>2, <3>1, <3>2, <3>3
  <2> QED BY <2>1, <2>2
<1>14. "map" \in trouble => OneFileEach(slot')
  <2>1. \A r \in Slots : slot'[r] # Nothing => slot'[r].key \in Keys
    BY <1>0 DEF OnlyWindow, Records
  <2> QED BY <1>5, <1>13, <2>1 DEF OneFileEach, Covers, OneEach
<1>15. DiskOK(slot', map', promised', trouble')
  <2>1. ASSUME NEW x \in Keys, promised'[x] \in Contents
        PROVE  IF map = Nothing
               THEN "map" \in trouble /\ \E r \in Slots : slot'[r] = Rec(x, promised'[x])
               ELSE \E r \in Slots : At(map, x, r) /\ slot'[r] = Rec(x, promised'[x])
    <3>1. promised[x] \in Contents /\ promised'[x] = promised[x] BY <1>2, <2>1
    <3>2. CASE map = Nothing
      <4>1. "map" \in trouble BY <1>1, <3>1, <3>2 DEF DiskOK
      <4> QED BY <1>6, <2>1, <3>2, <4>1 DEF Held
    <3>3. CASE map # Nothing
      <4>1. PICK r \in Slots : At(map, x, r) /\ slot[r] = Rec(x, promised[x])
        BY <1>1, <3>1, <3>3 DEF DiskOK
      <4>2. At(es, x, r) BY <1>1, <3>1, <3>3, <4>1 DEF Linked, InMap
      <4>3. r # s BY <1>2, <2>1, <4>2
      <4> QED BY <1>4, <3>1, <3>3, <4>1, <4>3
    <3> QED BY <3>2, <3>3
  <2>2. trouble' = trouble BY <1>0 DEF OnlyWindow
  <2> QED BY <1>0, <1>1, <1>14, <2>1, <2>2 DEF DiskOK
<1>16. WindowOK(pool'[i], job'[i], slot', map', promised', trouble')
  BY <1>0, <1>5, <1>6, <1>7, <1>8, <1>11, <1>12, <1>13 DEF WindowOK, OnlyWindow, fs
<1> QED BY <1>0, <1>15, <1>16, WindowGoesOn

\* A window's list and promises may change while the files do not; what goes from the list
\* was not promised and has no file.
LEMMA ListChanged ==
  ASSUME PoolInv, alone, NEW i \in Instances, pool[i].up, ~pool[i].readOnly,
         OnlyWindow(i), pool'[i].up, ~pool'[i].readOnly,
         slot' = slot, map' = map, OneEach(pool'[i].entries),
         Owed(job'[i], pool'[i].entries, slot),
         ~pool'[i].dirty => SameList(pool'[i].entries, map),
         \A x \in Keys : promised'[x] \in Contents =>
           /\ promised'[x] = promised[x]
           /\ \A r \in Slots : At(pool[i].entries, x, r) => At(pool'[i].entries, x, r),
         "map" \in trouble => Covers(pool'[i].entries, slot, Leaving(job'[i]))
  PROVE  PoolInv'
<1> DEFINE es == pool[i].entries
           fs == pool'[i].entries
<1>1. /\ Held(es, slot, promised) /\ Linked(es, map, promised)
      /\ DiskOK(slot, map, promised, trouble)
  BY ActorIs
<1>2. \A x \in Keys : promised'[x] \in Contents =>
        promised'[x] = promised[x] /\ \A r \in Slots : At(es, x, r) => At(fs, x, r)
  OBVIOUS
<1> HIDE DEF es, fs
<1>3. Held(fs, slot, promised') /\ Linked(fs, map, promised')
  BY <1>1, <1>2 DEF Held, Linked
<1>4. trouble' = trouble BY DEF OnlyWindow
<1>5. DiskOK(slot', map', promised', trouble') BY <1>1, <1>2, <1>4 DEF DiskOK
<1>6. WindowOK(pool'[i], job'[i], slot', map', promised', trouble')
  BY <1>3, <1>4 DEF WindowOK, fs
<1> QED BY <1>5, <1>6, WindowGoesOn

\* An entry whose file is not the log's own is dropped (read(), adoptLegacyKey()).
EntryDropped(i, k) ==
  /\ pool' = [pool EXCEPT ![i].entries = Without(@, k), ![i].dirty = TRUE]
  /\ UNCHANGED <<slot, map, newerMap, job, promised, alone, trouble>>
\* Its log was not promised anything: what was promised is in a file that names the log.
LEMMA LostEntryDropped ==
  ASSUME PoolInv, alone, NEW i \in Instances, pool[i].up, ~pool[i].readOnly, job[i] = Nothing,
         NEW k \in Keys, Has(pool[i].entries, k),
         ~Verified(k, slot[EntryOf(pool[i].entries, k).slot]),
         EntryDropped(i, k)
  PROVE  PoolInv'
<1> DEFINE es == pool[i].entries
           fs == Without(es, k)
<1>1. /\ PoolTypes /\ es \in Seq(Entry) /\ OneEach(es) /\ Held(es, slot, promised)
      /\ "map" \in trouble => Covers(es, slot, Leaving(job[i]))
  BY ActorIs
<1>2. /\ EntryOf(es, k).slot \in Slots /\ At(es, k, EntryOf(es, k).slot)
      /\ \A s \in Slots : At(es, k, s) => s = EntryOf(es, k).slot
  BY <1>1, EntryIs
<1>3. fs \in Seq(Entry) /\ \A l, s : At(fs, l, s) <=> At(es, l, s) /\ l # k
  BY <1>1, WithoutIs
<1>4. slot \in [Slots -> Records \cup {Nothing}] /\ pool \in [Instances -> Stores]
  BY <1>1 DEF PoolTypes
<1>5. /\ pool' = [pool EXCEPT ![i].entries = fs, ![i].dirty = TRUE]
      /\ ~Verified(k, slot[EntryOf(es, k).slot])
      /\ UNCHANGED <<slot, map, newerMap, job, promised, alone, trouble>>
  BY DEF EntryDropped
<1> HIDE DEF es, fs
<1>6. /\ pool'[i].up /\ pool'[i].entries = fs /\ pool'[i].dirty /\ ~pool'[i].readOnly
      /\ \A j \in Instances \ {i} : pool'[j] = pool[j]
      /\ pool' \in [Instances -> Stores]
  <2> DEFINE d == TRUE
  <2>1. Relisted(pool, pool', i, fs, d) BY <1>3, <1>4, <1>5 DEF Relisted
  <2> HIDE DEF d
  <2>2. HasList(pool, pool', i, fs, d) BY <2>1, StoreRelisted
  <2> QED BY <2>2 DEF d, HasList
<1>7. OnlyWindow(i) BY <1>1, <1>5, <1>6 DEF OnlyWindow, PoolTypes, Jobs
<1>8. OneEach(fs) BY <1>1, <1>3 DEF OneEach
<1>9. Owed(job[i], fs, slot) BY PoolAssumption DEF Owed
<1>10. \A s \in Slots : slot[s] # Nothing => slot[s].key # k \/ ~At(es, k, s)
  BY <1>2, <1>5 DEF Verified
<1>11. promised[k] \notin Contents
  <2> SUFFICES ASSUME promised[k] \in Contents PROVE FALSE OBVIOUS
  <2>1. PICK s \in Slots : At(es, k, s) /\ slot[s] = Rec(k, promised[k]) BY <1>1 DEF Held
  <2>2. slot[s] \in Records BY <2>1 DEF Rec, Records
  <2>3. slot[s] # Nothing BY <2>2, PoolAssumption
  <2> QED BY <1>10, <2>1, <2>3 DEF Rec
<1>12. \A x \in Keys : promised'[x] \in Contents =>
         promised'[x] = promised[x] /\ \A r \in Slots : At(es, x, r) => At(fs, x, r)
  BY <1>3, <1>5, <1>11
<1>13. "map" \in trouble => Covers(fs, slot, Leaving(job[i]))
  BY <1>1, <1>3, <1>10 DEF Covers
<1> QED BY <1>5, <1>6, <1>7, <1>8, <1>9, <1>12, <1>13, ListChanged DEF es

\* A record of a newer version is remembered as that.
LEMMA NewerNoted ==
  ASSUME PoolInv, alone, NEW i \in Instances, pool[i].up, ~pool[i].readOnly, NEW k \in Keys,
         pool' = [pool EXCEPT ![i].newer = @ \cup {k}],
         UNCHANGED <<slot, map, newerMap, job, promised, alone, trouble>>
  PROVE  PoolInv'
<1>1. /\ PoolTypes /\ OneEach(pool[i].entries) /\ Owed(job[i], pool[i].entries, slot)
      /\ ~pool[i].dirty => SameList(pool[i].entries, map)
      /\ "map" \in trouble => Covers(pool[i].entries, slot, Leaving(job[i]))
  BY ActorIs
<1>2. pool \in [Instances -> Stores] BY <1>1 DEF PoolTypes
<1>3. /\ pool'[i].up /\ pool'[i].entries = pool[i].entries /\ pool'[i].dirty = pool[i].dirty
      /\ ~pool'[i].readOnly
      /\ \A j \in Instances \ {i} : pool'[j] = pool[j]
      /\ pool' \in [Instances -> Stores]
  BY <1>2 DEF Stores
<1>4. OnlyWindow(i) BY <1>1, <1>3 DEF OnlyWindow, PoolTypes, Jobs
<1> QED BY <1>1, <1>3, <1>4, ListChanged

\* read().
LEMMA ReadKeeps ==
  ASSUME PoolInv, alone, NEW i \in Instances, pool[i].up, NEW k \in Keys, Read(i, k)
  PROVE  PoolInv'
<1>1. /\ job[i] = Nothing /\ ~pool[i].readOnly /\ Has(pool[i].entries, k)
      /\ UNCHANGED <<slot, map, newerMap, job, promised, alone, trouble>>
  BY DEF Read, Usable, Idle
<1>2. \/ pool' = [pool EXCEPT ![i].newer = @ \cup {k}]
      \/ /\ ~Verified(k, slot[EntryOf(pool[i].entries, k).slot])
         /\ pool' = [pool EXCEPT ![i].entries = Without(@, k), ![i].dirty = TRUE]
  BY DEF Read
<1> QED BY <1>1, <1>2, LostEntryDropped, NewerNoted DEF EntryDropped

\* save() of a log that has a slot, or is given one.
LEMMA SaveKeeps ==
  ASSUME PoolInv, alone, NEW i \in Instances, pool[i].up, NEW k \in Keys, NEW c \in Contents,
         Save(i, k, c)
  PROVE  PoolInv'
<1> DEFINE es == pool[i].entries
           known == Has(es, k)
           to == IF known THEN [slot |-> EntryOf(es, k).slot, entries |-> es]
                 ELSE AllocateSlot(es, pool[i].pinned, pool[i].newer)
           next == IF known THEN es ELSE WithEntry(to.entries, k, to.slot)
           kept == [x \in Keys |-> IF Has(es, x) /\ ~Has(next, x) /\ x \notin pool[i].pinned
                                   THEN Nothing ELSE promised[x]]
<1>1. /\ job[i] = Nothing /\ ~pool[i].readOnly
      /\ known \/ CanAllocate(es, pool[i].pinned)
  BY DEF Save, Writable, Usable, Idle
<1>2. pool' = [pool EXCEPT ![i].entries = next, ![i].dirty = @ \/ ~known]
      /\ UNCHANGED <<map, newerMap, alone, trouble>>
  BY DEF Save
<1>3. \/ /\ slot' = [slot EXCEPT ![to.slot] = [key |-> k, says |-> c, newer |-> FALSE]]
         /\ job' = [job EXCEPT ![i] = [kind |-> "flush", key |-> k, says |-> c]]
         /\ promised' = [kept EXCEPT ![k] = Unsure]
      \/ WritesFail /\ promised' = kept /\ UNCHANGED <<slot, job>>
  BY DEF Save
<1>4. /\ PoolTypes /\ es \in Seq(Entry) /\ OneEach(es) /\ Held(es, slot, promised)
      /\ ~pool[i].dirty => SameList(es, map)
  BY <1>1, ActorIs
<1>5. /\ to.slot \in Slots /\ to.entries \in Seq(Entry)
      /\ known => At(es, k, to.slot)
      /\ ~known => /\ \A l \in Keys, r \in Slots : At(to.entries, l, r) <=> At(es, l, r) /\ r # to.slot
                   /\ \A l \in Keys : At(es, l, to.slot) => l \notin pool[i].pinned
  BY <1>1, <1>4, AllocIs, EntryIs
<1>6. /\ known => \A r \in Slots : At(es, k, r) => r = to.slot
      /\ ~known => \A r : ~At(es, k, r)
  BY <1>4, <1>5, EntryIs DEF Has, At
<1>7. next \in Seq(Entry)
      /\ \A l \in Keys, r \in Slots :
           At(next, l, r) <=> (At(es, l, r) /\ r # to.slot) \/ (l = k /\ r = to.slot)
  <2>1. CASE known
    <3>1. next = es BY <2>1
    <3>2. \A l \in Keys, r \in Slots : At(es, l, r) => (l = k <=> r = to.slot)
      BY <1>4, <1>5, <2>1 DEF OneEach
    <3> HIDE DEF es, known, to, next
    <3> QED BY <1>4, <1>5, <2>1, <3>1, <3>2
  <2>2. CASE ~known
    <3>1. next = WithEntry(to.entries, k, to.slot) BY <2>2
    <3> HIDE DEF es, known, to, next
    <3>2. next \in Seq(Entry)
          /\ \A l, r : At(next, l, r) <=> At(to.entries, l, r) \/ (l = k /\ r = to.slot)
      BY <1>5, <3>1, WithEntryIs
    <3> QED BY <1>5, <2>2, <3>2
  <2> QED BY <2>1, <2>2
<1>8. OneEach(next)
  <2> HIDE DEF es, known, to, next
  <2> QED BY <1>4, <1>5, <1>6, <1>7 DEF OneEach
<1>9. \A x \in Keys : kept[x] \in Contents => promised[x] = kept[x] BY PoolAssumption
<1>10. \A x \in Keys : x # k /\ At(es, x, to.slot) => kept[x] = Nothing
  <2> SUFFICES ASSUME NEW x \in Keys, x # k, At(es, x, to.slot) PROVE kept[x] = Nothing
    OBVIOUS
  <2>1. ~known BY <1>4, <1>5 DEF OneEach
  <2>2. Has(es, x) /\ x \notin pool[i].pinned BY <1>5, <2>1 DEF Has, At
  <2>3. ~Has(next, x)
    <3>1. \A r \in Slots : ~At(next, x, r)
      <4>1. \A r \in Slots : At(es, x, r) => r = to.slot BY <1>4, <1>5 DEF OneEach
      <4> HIDE DEF next, es, to
      <4> QED BY <1>7, <4>1
    <3> HIDE DEF next
    <3> QED BY <1>7, <1>8, <3>1, EntryIs
  <2> QED BY <2>2, <2>3
<1>11. kept \in [Keys -> Contents \cup {Nothing, Unsure}] BY <1>4 DEF PoolTypes
<1>12. /\ pool \in [Instances -> Stores] /\ slot \in [Slots -> Records \cup {Nothing}]
       /\ job \in [Instances -> Jobs] /\ (map = Nothing \/ map \in Seq(Entry))
       /\ "map" \in trouble => "write" \notin trouble
  BY <1>4 DEF PoolTypes, Jobs
<1> HIDE DEF es, next, to, kept, known
<1>13. /\ pool'[i].up /\ pool'[i].entries = next /\ ~pool'[i].readOnly
       /\ pool'[i].dirty = (pool[i].dirty \/ ~known)
       /\ \A j \in Instances \ {i} : pool'[j] = pool[j]
       /\ pool' \in [Instances -> Stores]
  <2> DEFINE d == pool[i].dirty \/ ~known
  <2>1. Relisted(pool, pool', i, next, d) BY <1>2, <1>7, <1>12 DEF Relisted
  <2> HIDE DEF d
  <2>3. HasList(pool, pool', i, next, d) BY <2>1, StoreRelisted
  <2> QED BY <1>1, <2>3 DEF d, HasList
<1>14. CASE /\ slot' = [slot EXCEPT ![to.slot] = [key |-> k, says |-> c, newer |-> FALSE]]
            /\ job' = [job EXCEPT ![i] = [kind |-> "flush", key |-> k, says |-> c]]
            /\ promised' = [kept EXCEPT ![k] = Unsure]
  <2>1. /\ promised' \in [Keys -> Contents \cup {Nothing, Unsure}] /\ promised'[k] = Unsure
        /\ \A x \in Keys : x # k => promised'[x] = kept[x]
    BY <1>11, <1>14
  <2>2. \A x \in Keys : promised'[x] \in Contents =>
          x # k /\ promised'[x] = promised[x] /\ ~At(es, x, to.slot)
    BY <1>9, <1>10, <2>1, PoolAssumption
  <2>3. [key |-> k, says |-> c, newer |-> FALSE] = Rec(k, c) /\ Rec(k, c) \in Records
    BY DEF Rec, Records
  <2>4. [kind |-> "flush", key |-> k, says |-> c] \in Jobs BY DEF Jobs, Flushes
  <2>5. /\ slot' = [slot EXCEPT ![to.slot] = Rec(k, c)]
        /\ slot' \in [Slots -> Records \cup {Nothing}]
    BY <1>5, <1>12, <1>14, <2>3
  <2>6. /\ job'[i] = [kind |-> "flush", key |-> k, says |-> c]
        /\ job' \in [Instances -> Jobs] /\ \A j \in Instances \ {i} : job'[j] = job[j]
    BY <1>12, <1>14, <2>4
  <2>7. OnlyWindow(i) BY <1>2, <1>12, <1>13, <2>1, <2>5, <2>6 DEF OnlyWindow
  <2>8. ~pool'[i].dirty => ~pool[i].dirty /\ At(es, k, to.slot) BY <1>5, <1>13
  <2>9. \A r \in Slots : At(es, k, r) => r = to.slot BY <1>6
  <2>10. \A l \in Keys, r \in Slots :
           At(pool'[i].entries, l, r)
             <=> (At(pool[i].entries, l, r) /\ r # to.slot) \/ (l = k /\ r = to.slot)
    BY <1>7, <1>13 DEF es
  <2> DEFINE t == to.slot
  <2>11. t \in Slots BY <1>5
  <2>12. WritesSlot(i, k, c, to.slot)
    BY <1>2, <1>13, <2>2, <2>5, <2>6, <2>7, <2>8, <2>9, <2>10 DEF WritesSlot, es
  <2> HIDE DEF t
  <2> QED BY <1>1, <2>11, <2>12, SlotWritten DEF t
<1>15. CASE WritesFail /\ promised' = kept /\ UNCHANGED <<slot, job>>
  <2>1. OnlyWindow(i) BY <1>2, <1>11, <1>12, <1>13, <1>15 DEF OnlyWindow
  <2>2. "map" \notin trouble BY <1>12, <1>15 DEF WritesFail
  <2>3. Owed(job[i], next, slot) BY <1>1, PoolAssumption DEF Owed
  <2>4. ~pool'[i].dirty => SameList(next, map)
    <3> SUFFICES ASSUME ~pool'[i].dirty PROVE SameList(next, map) OBVIOUS
    <3>1. known /\ ~pool[i].dirty BY <1>13
    <3>2. next = es BY <3>1 DEF next
    <3> QED BY <1>4, <3>1, <3>2
  <2>5. ASSUME NEW x \in Keys, promised'[x] \in Contents
        PROVE  /\ promised'[x] = promised[x]
               /\ \A r \in Slots : At(es, x, r) => At(next, x, r)
    <3>1. promised'[x] = promised[x] /\ kept[x] \in Contents BY <1>9, <1>15, <2>5
    <3>2. CASE x = k
      <4>1. \E r \in Slots : At(es, k, r) BY <1>4, <2>5, <3>1, <3>2 DEF Held
      <4> QED BY <1>6, <1>7, <3>1, <3>2, <4>1
    <3>3. CASE x # k
      <4>1. ~At(es, x, to.slot) BY <1>10, <3>1, <3>3, PoolAssumption
      <4> QED BY <1>7, <3>1, <4>1
    <3> QED BY <3>2, <3>3
  <2> QED
    BY <1>1, <1>2, <1>8, <1>13, <1>15, <2>1, <2>2, <2>3, <2>4, <2>5, ListChanged DEF es
<1> QED BY <1>3, <1>14, <1>15

\* A record under another spelling says the same.
LEMMA RecordCopied ==
  ASSUME NEW g \in Records, ~g.newer, NEW k \in Keys
  PROVE  /\ g.says \in Contents /\ [g EXCEPT !.key = k] = Rec(k, g.says)
         /\ Rec(k, g.says) \in Records
<1>1. g.says \in Contents /\ g.newer = FALSE /\ g = [key |-> g.key, says |-> g.says, newer |-> g.newer]
  BY DEF Records
<1>2. [g EXCEPT !.key = k] = [key |-> k, says |-> g.says, newer |-> g.newer]
  BY DEF Records
<1>3. Rec(k, g.says) \in Records BY <1>1 DEF Rec, Records
<1> QED BY <1>1, <1>2, <1>3 DEF Rec

\* adoptLegacyKey(): the record under the old spelling is noted as newer, found lost, or
\* copied to a slot of its own.
LEMMA AdoptKeeps ==
  ASSUME PoolInv, alone, NEW i \in Instances, pool[i].up, NEW k \in Keys, AdoptLegacyKey(i, k)
  PROVE  PoolInv'
<1> DEFINE es == pool[i].entries
           l == Legacy[k]
           f == slot[EntryOf(es, l).slot]
           pins == pool[i].pinned \cup {l}
           to == AllocateSlot(es, pins, pool[i].newer)
           next == WithEntry(to.entries, k, to.slot)
<1>1. /\ job[i] = Nothing /\ ~pool[i].readOnly /\ ~Has(es, k) /\ Has(es, l)
      /\ l \in Keys
  BY PoolAssumption DEF AdoptLegacyKey, Usable, Idle
<1>2. \/ /\ pool' = [pool EXCEPT ![i].newer = @ \cup {l}]
         /\ UNCHANGED <<slot, job, promised>>
      \/ /\ ~Verified(l, f)
         /\ pool' = [pool EXCEPT ![i].entries = Without(@, l), ![i].dirty = TRUE]
         /\ UNCHANGED <<slot, job, promised>>
      \/ /\ f # Nothing /\ ~f.newer /\ CanAllocate(es, pins)
         /\ slot' = [slot EXCEPT ![to.slot] = [f EXCEPT !.key = k]]
         /\ pool' = [pool EXCEPT ![i].entries = next, ![i].dirty = TRUE]
         /\ job' = [job EXCEPT ![i] = [kind |-> "flush", key |-> k, says |-> f.says]]
         /\ promised' = [x \in Keys |-> IF x = k THEN Unsure
                           ELSE IF Has(es, x) /\ ~Has(to.entries, x) /\ x \notin pool[i].pinned
                                THEN Nothing ELSE promised[x]]
  BY DEF AdoptLegacyKey
<1>3. UNCHANGED <<map, newerMap, alone, trouble>> BY DEF AdoptLegacyKey
<1>4. CASE /\ pool' = [pool EXCEPT ![i].newer = @ \cup {l}]
           /\ UNCHANGED <<slot, job, promised>>
  BY <1>1, <1>3, <1>4, NewerNoted
<1>5. CASE /\ ~Verified(l, f)
           /\ pool' = [pool EXCEPT ![i].entries = Without(@, l), ![i].dirty = TRUE]
           /\ UNCHANGED <<slot, job, promised>>
  BY <1>1, <1>3, <1>5, LostEntryDropped DEF EntryDropped
<1>6. CASE /\ f # Nothing /\ ~f.newer /\ CanAllocate(es, pins)
           /\ slot' = [slot EXCEPT ![to.slot] = [f EXCEPT !.key = k]]
           /\ pool' = [pool EXCEPT ![i].entries = next, ![i].dirty = TRUE]
           /\ job' = [job EXCEPT ![i] = [kind |-> "flush", key |-> k, says |-> f.says]]
           /\ promised' = [x \in Keys |-> IF x = k THEN Unsure
                             ELSE IF Has(es, x) /\ ~Has(to.entries, x) /\ x \notin pool[i].pinned
                                  THEN Nothing ELSE promised[x]]
  <2>1. PoolTypes /\ es \in Seq(Entry) /\ OneEach(es) BY <1>1, ActorIs
  <2>2. /\ to.slot \in Slots /\ to.entries \in Seq(Entry)
        /\ \A m \in Keys, r \in Slots : At(to.entries, m, r) <=> At(es, m, r) /\ r # to.slot
        /\ \A m \in Keys : At(es, m, to.slot) => m \notin pins
    BY <1>6, <2>1, AllocIs
  <2>3. /\ pool \in [Instances -> Stores] /\ slot \in [Slots -> Records \cup {Nothing}]
        /\ job \in [Instances -> Jobs] /\ (map = Nothing \/ map \in Seq(Entry))
        /\ promised \in [Keys -> Contents \cup {Nothing, Unsure}] /\ newerMap \in BOOLEAN
    BY <2>1 DEF PoolTypes, Jobs
  <2>4. f \in Records BY <1>1, <1>6, <2>1, <2>3, EntryIs
  <2>5. f.says \in Contents /\ [f EXCEPT !.key = k] = Rec(k, f.says) /\ Rec(k, f.says) \in Records
    <3> HIDE DEF f
    <3> QED BY <1>6, <2>4, RecordCopied
  <2> DEFINE c == f.says
             s == to.slot
  <2>6. c \in Contents /\ s \in Slots BY <2>2, <2>5
  <2>7. slot' = [slot EXCEPT ![s] = Rec(k, c)] BY <1>6, <2>5
  <2>8. job' = [job EXCEPT ![i] = [kind |-> "flush", key |-> k, says |-> c]] BY <1>6
  <2>9. pool' = [pool EXCEPT ![i].entries = next, ![i].dirty = TRUE] BY <1>6
  <2>10. /\ promised' \in [Keys -> Contents \cup {Nothing, Unsure}] /\ promised'[k] = Unsure
         /\ \A x \in Keys : promised'[x] \in Contents => promised'[x] = promised[x]
         /\ \A x \in Keys : x # k /\ Has(es, x) /\ ~Has(to.entries, x) /\ x \notin pool[i].pinned
              => promised'[x] = Nothing
    BY <1>6, <2>3, PoolAssumption
  <2>11. next \in Seq(Entry)
         /\ \A m, r : At(next, m, r) <=> At(to.entries, m, r) \/ (m = k /\ r = s)
    <3> HIDE DEF to
    <3> QED BY <2>2, WithEntryIs
  <2>12. \A x \in Keys : promised'[x] \in Contents =>
           x # k /\ promised'[x] = promised[x] /\ ~At(es, x, s)
    <3> SUFFICES ASSUME NEW x \in Keys, promised'[x] \in Contents, At(es, x, s) PROVE FALSE
      BY <2>10, PoolAssumption
    <3>1. x # k BY <2>10, PoolAssumption
    <3>2. Has(es, x) /\ x \notin pool[i].pinned BY <2>2 DEF Has, At
    <3>3. \A m \in DOMAIN to.entries : to.entries[m].slot \in Slots BY <2>2, EntriesAre
    <3>4. \A r \in Slots : ~At(to.entries, x, r)
      <4> HIDE DEF to, es
      <4>1. \A r \in Slots : At(es, x, r) => r = to.slot BY <2>1, <2>2 DEF OneEach, s
      <4> QED BY <2>2, <4>1
    <3>5. ~Has(to.entries, x) BY <3>3, <3>4 DEF Has, At
    <3> QED BY <2>10, <3>1, <3>2, <3>5, PoolAssumption
  <2>13. \A r : ~At(es, k, r) BY <1>1 DEF Has, At
  <2>14. \A m \in Keys, r \in Slots :
           At(next, m, r) <=> (At(es, m, r) /\ r # s) \/ (m = k /\ r = s)
    BY <2>2, <2>11
  <2> HIDE DEF c, s, next, to, es, f, l
  <2>15. /\ pool'[i].up /\ pool'[i].entries = next /\ pool'[i].dirty /\ ~pool'[i].readOnly
         /\ \A j \in Instances \ {i} : pool'[j] = pool[j]
         /\ pool' \in [Instances -> Stores]
    <3> DEFINE d == TRUE
    <3>1. Relisted(pool, pool', i, next, d) BY <2>3, <2>9, <2>11 DEF Relisted
    <3> HIDE DEF d
    <3>2. HasList(pool, pool', i, next, d) BY <3>1, StoreRelisted
    <3> QED BY <1>1, <3>2 DEF d, HasList
  <2>16. slot' \in [Slots -> Records \cup {Nothing}]
    <3>1. Rec(k, c) \in Records BY <2>6 DEF Rec, Records
    <3> QED BY <2>3, <2>7, <3>1
  <2>17. /\ job'[i] = [kind |-> "flush", key |-> k, says |-> c]
         /\ job' \in [Instances -> Jobs] /\ \A j \in Instances \ {i} : job'[j] = job[j]
    <3>1. [kind |-> "flush", key |-> k, says |-> c] \in Jobs BY <2>6 DEF Jobs, Flushes
    <3> QED BY <2>3, <2>8, <3>1
  <2>18. OnlyWindow(i) BY <1>3, <2>3, <2>10, <2>15, <2>16, <2>17 DEF OnlyWindow
  <2>19. WritesSlot(i, k, c, s)
    BY <1>3, <2>7, <2>12, <2>13, <2>14, <2>15, <2>17, <2>18 DEF WritesSlot, es
  <2> QED BY <1>1, <2>6, <2>19, SlotWritten
<1> QED BY <1>2, <1>4, <1>5, <1>6

\* A window whose list is on the map, or is empty where there is none.
LEMMA MapAgrees ==
  ASSUME NEW es, NEW mp, OneEach(es), SameList(es, mp), NEW sl, NEW pr, NEW tr,
         Held(es, sl, pr), "map" \in tr => OneFileEach(sl)
  PROVE  DiskOK(sl, mp, pr, tr) /\ Linked(es, mp, pr)
<1>1. \A k \in Keys, s \in Slots : InMap(mp, k, s) <=> At(es, k, s) BY DEF SameList
<1>2. mp # Nothing => OneEach(mp) BY <1>1 DEF OneEach, InMap
<1>3. \A k \in Keys : pr[k] \in Contents =>
        mp # Nothing /\ \E s \in Slots : At(mp, k, s) /\ sl[s] = Rec(k, pr[k])
  BY <1>1 DEF Held, InMap
<1>4. DiskOK(sl, mp, pr, tr) BY <1>2, <1>3 DEF DiskOK
<1>5. Linked(es, mp, pr) BY <1>1 DEF Linked
<1> QED BY <1>4, <1>5

\* A step that leaves the window's list on the map.
LEMMA ListOnDisk ==
  ASSUME PoolInv, alone, NEW i \in Instances, pool[i].up, ~pool[i].readOnly,
         OnlyWindow(i), pool'[i].up, ~pool'[i].readOnly, slot' = slot,
         SameList(pool'[i].entries, map'), OneEach(pool'[i].entries),
         Held(pool'[i].entries, slot, promised'), Owed(job'[i], pool'[i].entries, slot),
         "map" \in trouble => Covers(pool'[i].entries, slot, Leaving(job'[i]))
  PROVE  PoolInv'
<1>1. trouble' = trouble BY DEF OnlyWindow
<1>2. "map" \in trouble => OneFileEach(slot) BY ActorIs DEF DiskOK
<1>3. DiskOK(slot', map', promised', trouble') /\ Linked(pool'[i].entries, map', promised')
  <2> DEFINE fs == pool'[i].entries
             mp == map'
             pr == promised'
  <2>1. SameList(fs, mp) /\ OneEach(fs) /\ Held(fs, slot, pr) OBVIOUS
  <2> HIDE DEF fs, mp, pr
  <2>2. DiskOK(slot, mp, pr, trouble) /\ Linked(fs, mp, pr) BY <1>2, <2>1, MapAgrees
  <2> QED BY <1>1, <2>2 DEF fs, mp, pr
<1>4. WindowOK(pool'[i], job'[i], slot', map', promised', trouble')
  BY <1>1, <1>3 DEF WindowOK
<1> QED BY <1>3, <1>4, WindowGoesOn

\* A list that is written as the map is what the map says.
LEMMA ListsThemselves ==
  ASSUME NEW es \in Seq(Entry) PROVE SameList(es, es)
  BY PoolAssumption DEF SameList, InMap

\* flush().
LEMMA FlushKeeps ==
  ASSUME PoolInv, alone, NEW i \in Instances, pool[i].up, Flush(i)
  PROVE  PoolInv'
<1>1. /\ ~pool[i].readOnly /\ job[i] = Nothing /\ map' = pool[i].entries
      /\ pool' = [pool EXCEPT ![i].dirty = FALSE]
      /\ UNCHANGED <<slot, newerMap, job, promised, alone, trouble>>
  BY DEF Flush, Idle
<1>2. /\ PoolTypes /\ pool[i].entries \in Seq(Entry) /\ OneEach(pool[i].entries)
      /\ Held(pool[i].entries, slot, promised) /\ Owed(job[i], pool[i].entries, slot)
      /\ "map" \in trouble => Covers(pool[i].entries, slot, Leaving(job[i]))
  BY <1>1, ActorIs
<1>3. pool \in [Instances -> Stores] BY <1>2 DEF PoolTypes
<1>4. /\ pool'[i].up /\ pool'[i].entries = pool[i].entries /\ ~pool'[i].readOnly
      /\ \A j \in Instances \ {i} : pool'[j] = pool[j]
      /\ pool' \in [Instances -> Stores]
  BY <1>1, <1>3 DEF Stores
<1>5. OnlyWindow(i) BY <1>1, <1>2, <1>4 DEF OnlyWindow, PoolTypes, Jobs
<1>6. SameList(pool'[i].entries, map') BY <1>1, <1>2, <1>4, ListsThemselves
<1> QED BY <1>1, <1>2, <1>4, <1>5, <1>6, ListOnDisk

\* The map write that ends a save, an adoption or a sweep goes through, or fails.
LEMMA FinishSaveKeeps ==
  ASSUME PoolInv, alone, NEW i \in Instances, pool[i].up, FinishSave(i)
  PROVE  PoolInv'
<1> DEFINE es == pool[i].entries
           j == job[i]
<1>1. /\ j # Nothing /\ j.kind = "flush" /\ job' = [job EXCEPT ![i] = Nothing]
      /\ UNCHANGED <<slot, newerMap, alone, trouble>>
      /\ \/ /\ map' = IF pool[i].dirty THEN es ELSE map
            /\ pool' = [pool EXCEPT ![i].dirty = FALSE]
            /\ promised' = IF j.key \in Keys THEN [promised EXCEPT ![j.key] = j.says] ELSE promised
         \/ WritesFail /\ pool[i].dirty /\ UNCHANGED <<map, pool, promised>>
  BY DEF FinishSave
<1>2. ~pool[i].readOnly BY <1>1 DEF PoolInv, WindowOK
<1>3. /\ PoolTypes /\ es \in Seq(Entry) /\ OneEach(es) /\ Held(es, slot, promised)
      /\ ~pool[i].dirty => SameList(es, map)
      /\ Owed(j, es, slot)
      /\ "map" \in trouble => Covers(es, slot, Leaving(j))
  BY <1>2, ActorIs
<1>4. j \in Flushes /\ j \notin Unlinks /\ Leaving(j) = {}
  <2> HIDE DEF j, es
  <2>1. j \in Flushes \cup Unlinks BY <1>1, <1>3 DEF Owed
  <2>2. \A u \in Unlinks : u.kind # "flush" BY DEF Unlinks
  <2> QED BY <1>1, <2>1, <2>2 DEF Leaving
<1>5. j.key \in Keys =>
        j.says \in Contents /\ \E s \in Slots : At(es, j.key, s) /\ slot[s] = Rec(j.key, j.says)
  <2> HIDE DEF j, es
  <2> QED BY <1>3, <1>4 DEF Owed
<1>6. /\ pool \in [Instances -> Stores] /\ job \in [Instances -> Jobs]
      /\ promised \in [Keys -> Contents \cup {Nothing, Unsure}]
  BY <1>3 DEF PoolTypes, Jobs
<1>7. job'[i] = Nothing /\ job' \in [Instances -> Jobs] /\ \A m \in Instances \ {i} : job'[m] = job[m]
  BY <1>1, <1>6 DEF Jobs
<1>8. \A fs, sl : Owed(Nothing, fs, sl) BY PoolAssumption DEF Owed
<1>9. Leaving(Nothing) = {} BY PoolAssumption DEF Leaving
<1>10. CASE /\ map' = IF pool[i].dirty THEN es ELSE map
            /\ pool' = [pool EXCEPT ![i].dirty = FALSE]
            /\ promised' = IF j.key \in Keys THEN [promised EXCEPT ![j.key] = j.says] ELSE promised
  <2>1. /\ pool'[i].up /\ pool'[i].entries = es /\ ~pool'[i].readOnly
        /\ \A m \in Instances \ {i} : pool'[m] = pool[m]
        /\ pool' \in [Instances -> Stores]
    BY <1>2, <1>6, <1>10 DEF Stores
  <2>2. /\ promised' \in [Keys -> Contents \cup {Nothing, Unsure}]
        /\ \A x \in Keys : promised'[x] = IF x = j.key THEN j.says ELSE promised[x]
    BY <1>5, <1>6, <1>10
  <2> HIDE DEF es, j
  <2>3. OnlyWindow(i) BY <1>1, <1>3, <1>7, <1>10, <2>1, <2>2 DEF OnlyWindow, PoolTypes
  <2>4. SameList(es, map') BY <1>3, <1>10, ListsThemselves
  <2>5. Held(es, slot, promised') BY <1>3, <1>5, <2>2 DEF Held
  <2>6. /\ OneEach(pool'[i].entries) /\ Held(pool'[i].entries, slot, promised')
        /\ SameList(pool'[i].entries, map') /\ Owed(job'[i], pool'[i].entries, slot)
    BY <1>3, <1>7, <1>8, <2>1, <2>4, <2>5
  <2>7. "map" \in trouble => Covers(pool'[i].entries, slot, Leaving(job'[i]))
    BY <1>3, <1>4, <1>7, <1>9, <2>1
  <2>8. slot' = slot BY <1>1
  <2> QED BY <1>2, <2>1, <2>3, <2>6, <2>7, <2>8, ListOnDisk
<1>11. CASE WritesFail /\ pool[i].dirty /\ UNCHANGED <<map, pool, promised>>
  <2>1. OnlyWindow(i) BY <1>1, <1>3, <1>6, <1>7, <1>11 DEF OnlyWindow, PoolTypes
  <2> HIDE DEF es, j
  <2>2. pool' = pool /\ promised' = promised /\ slot' = slot /\ map' = map BY <1>1, <1>11
  <2>3. OneEach(pool'[i].entries) /\ Owed(job'[i], pool'[i].entries, slot)
    BY <1>3, <1>7, <1>8, <2>2 DEF es
  <2>4. "map" \in trouble => Covers(pool'[i].entries, slot, Leaving(job'[i]))
    BY <1>3, <1>4, <1>7, <1>9, <2>2 DEF es
  <2>5. ~pool'[i].dirty => SameList(pool'[i].entries, map) BY <1>3, <2>2 DEF es
  <2> QED BY <1>2, <2>1, <2>2, <2>3, <2>4, <2>5, ListChanged
<1> QED BY <1>1, <1>10, <1>11

\* clear(): the entry goes, with the map or later, and the file is still to be removed.
LEMMA DropKeeps ==
  ASSUME PoolInv, alone, NEW i \in Instances, pool[i].up, NEW k \in Keys, DropRecord(i, k)
  PROVE  PoolInv'
<1> DEFINE es == pool[i].entries
           fs == Without(es, k)
           s == EntryOf(es, k).slot
<1>1. /\ ~pool[i].readOnly /\ Has(es, k) /\ job[i] = Nothing
      /\ \/ map' = fs /\ pool' = [pool EXCEPT ![i].entries = fs, ![i].dirty = FALSE]
         \/ WritesFail /\ pool' = [pool EXCEPT ![i].entries = fs, ![i].dirty = TRUE] /\ map' = map
      /\ job' = [job EXCEPT ![i] = [kind |-> "unlink", slot |-> s]]
      /\ promised' = [promised EXCEPT ![k] = Nothing]
      /\ UNCHANGED <<slot, newerMap, alone, trouble>>
  BY DEF DropRecord, Writable, Usable, Idle
<1>2. /\ PoolTypes /\ es \in Seq(Entry) /\ OneEach(es) /\ Held(es, slot, promised)
      /\ "map" \in trouble => Covers(es, slot, Leaving(job[i]))
  BY <1>1, ActorIs
<1>3. s \in Slots /\ At(es, k, s) /\ \A r \in Slots : At(es, k, r) => r = s
  BY <1>1, <1>2, EntryIs
<1>4. fs \in Seq(Entry) /\ \A l, r : At(fs, l, r) <=> At(es, l, r) /\ l # k
  BY <1>2, WithoutIs
<1> HIDE DEF es, fs, s
<1>5. OneEach(fs) BY <1>2, <1>4 DEF OneEach
<1>6. /\ pool \in [Instances -> Stores] /\ job \in [Instances -> Jobs]
      /\ promised \in [Keys -> Contents \cup {Nothing, Unsure}]
      /\ slot \in [Slots -> Records \cup {Nothing}] /\ (map = Nothing \/ map \in Seq(Entry))
      /\ newerMap \in BOOLEAN
      /\ "map" \in trouble => "write" \notin trouble
  BY <1>2 DEF PoolTypes, Jobs
<1>7. [kind |-> "unlink", slot |-> s] \in Unlinks BY <1>3 DEF Unlinks
<1>8. /\ job'[i] = [kind |-> "unlink", slot |-> s] /\ job' \in [Instances -> Jobs]
      /\ \A m \in Instances \ {i} : job'[m] = job[m]
  BY <1>1, <1>6, <1>7 DEF Jobs
<1>9. job'[i] \in Unlinks /\ job'[i].slot = s /\ job'[i] \notin Flushes /\ Leaving(job'[i]) = {s}
  BY <1>7, <1>8 DEF Leaving, Flushes
<1>10. /\ promised' \in [Keys -> Contents \cup {Nothing, Unsure}] /\ promised'[k] = Nothing
       /\ \A x \in Keys : x # k => promised'[x] = promised[x]
  BY <1>1, <1>6
<1>11. Held(fs, slot, promised') BY <1>2, <1>4, <1>10, PoolAssumption DEF Held
<1>12. Owed(job'[i], fs, slot) BY <1>2, <1>3, <1>4, <1>9 DEF Owed, OneEach
<1>13. "map" \in trouble => Covers(fs, slot, Leaving(job'[i]))
  <2> SUFFICES ASSUME "map" \in trouble, NEW r \in Slots, r # s, slot[r] # Nothing
               PROVE  At(fs, slot[r].key, r)
    BY <1>9 DEF Covers
  <2>1. Leaving(job[i]) = {} BY <1>1, PoolAssumption DEF Leaving
  <2>2. At(es, slot[r].key, r) BY <1>2, <2>1 DEF Covers
  <2>3. slot[r].key # k BY <1>3, <2>2
  <2> QED BY <1>4, <2>2, <2>3
<1>14. CASE map' = fs /\ pool' = [pool EXCEPT ![i].entries = fs, ![i].dirty = FALSE]
  <2>1. /\ pool'[i].up /\ pool'[i].entries = fs /\ ~pool'[i].readOnly
        /\ \A j \in Instances \ {i} : pool'[j] = pool[j]
        /\ pool' \in [Instances -> Stores]
    <3> DEFINE d == FALSE
    <3>1. Relisted(pool, pool', i, fs, d) BY <1>4, <1>6, <1>14 DEF Relisted
    <3> HIDE DEF d
    <3>2. HasList(pool, pool', i, fs, d) BY <3>1, StoreRelisted
    <3> QED BY <1>1, <3>2 DEF d, HasList
  <2>2. OnlyWindow(i) BY <1>1, <1>4, <1>6, <1>8, <1>10, <1>14, <2>1 DEF OnlyWindow
  <2>3. SameList(fs, map') BY <1>4, <1>14, ListsThemselves
  <2>4. /\ OneEach(pool'[i].entries) /\ Held(pool'[i].entries, slot, promised')
        /\ SameList(pool'[i].entries, map') /\ Owed(job'[i], pool'[i].entries, slot)
    BY <1>5, <1>11, <1>12, <2>1, <2>3
  <2>5. "map" \in trouble => Covers(pool'[i].entries, slot, Leaving(job'[i]))
    BY <1>13, <2>1
  <2>6. slot' = slot BY <1>1
  <2> QED BY <1>1, <2>1, <2>2, <2>4, <2>5, <2>6, ListOnDisk
<1>15. CASE WritesFail /\ pool' = [pool EXCEPT ![i].entries = fs, ![i].dirty = TRUE] /\ map' = map
  <2>1. /\ pool'[i].up /\ pool'[i].entries = fs /\ ~pool'[i].readOnly /\ pool'[i].dirty
        /\ \A j \in Instances \ {i} : pool'[j] = pool[j]
        /\ pool' \in [Instances -> Stores]
    <3> DEFINE d == TRUE
    <3>1. Relisted(pool, pool', i, fs, d) BY <1>4, <1>6, <1>15 DEF Relisted
    <3> HIDE DEF d
    <3>2. HasList(pool, pool', i, fs, d) BY <3>1, StoreRelisted
    <3> QED BY <1>1, <3>2 DEF d, HasList
  <2>2. OnlyWindow(i) BY <1>1, <1>4, <1>6, <1>8, <1>10, <1>15, <2>1 DEF OnlyWindow
  <2>3. "map" \notin trouble BY <1>6, <1>15 DEF WritesFail
  <2>4. \A x \in Keys : promised'[x] \in Contents =>
           /\ promised'[x] = promised[x]
           /\ \A r \in Slots : At(pool[i].entries, x, r) => At(pool'[i].entries, x, r)
    <3>1. \A x \in Keys : promised'[x] \in Contents =>
           promised'[x] = promised[x] /\ \A r \in Slots : At(es, x, r) => At(fs, x, r)
      BY <1>4, <1>10, PoolAssumption
    <3> QED BY <2>1, <3>1 DEF es
  <2>5. OneEach(pool'[i].entries) /\ Owed(job'[i], pool'[i].entries, slot)
    BY <1>5, <1>12, <2>1
  <2>6. slot' = slot /\ map' = map BY <1>1, <1>15
  <2> QED BY <1>1, <2>1, <2>2, <2>3, <2>4, <2>5, <2>6, ListChanged
<1> QED BY <1>1, <1>14, <1>15

\* clear(): the file is removed.
LEMMA FinishDropKeeps ==
  ASSUME PoolInv, alone, NEW i \in Instances, pool[i].up, FinishDrop(i)
  PROVE  PoolInv'
<1> DEFINE es == pool[i].entries
           j == job[i]
           s == j.slot
<1>1. /\ j # Nothing /\ j.kind = "unlink" /\ job' = [job EXCEPT ![i] = Nothing]
      /\ slot' = [slot EXCEPT ![s] = Nothing]
      /\ UNCHANGED <<map, newerMap, pool, promised, alone, trouble>>
  BY DEF FinishDrop
<1>2. ~pool[i].readOnly BY <1>1 DEF PoolInv, WindowOK
<1>3. /\ PoolTypes /\ es \in Seq(Entry) /\ OneEach(es) /\ Held(es, slot, promised)
      /\ Linked(es, map, promised) /\ Owed(j, es, slot) /\ DiskOK(slot, map, promised, trouble)
      /\ ~pool[i].dirty => SameList(es, map)
      /\ "map" \in trouble => Covers(es, slot, Leaving(j))
  BY <1>2, ActorIs
<1>4. /\ pool \in [Instances -> Stores] /\ job \in [Instances -> Jobs]
      /\ slot \in [Slots -> Records \cup {Nothing}]
  BY <1>3 DEF PoolTypes, Jobs
<1> HIDE DEF es, j, s
<1>5. j \in Unlinks
  <2>1. j \in Flushes \cup Unlinks BY <1>1, <1>3 DEF Owed
  <2>2. \A u \in Flushes : u.kind # "unlink" BY DEF Flushes
  <2> QED BY <1>1, <2>1, <2>2
<1>6. s \in Slots /\ Leaving(j) = {s} /\ \A k \in Keys : ~At(es, k, s)
  BY <1>3, <1>5 DEF Owed, Unlinks, Leaving, s
<1>7. slot'[s] = Nothing /\ \A r \in Slots : r # s => slot'[r] = slot[r]
  BY <1>1, <1>4, <1>6
<1>8. slot' \in [Slots -> Records \cup {Nothing}] BY <1>1, <1>4, <1>6
<1>9. job'[i] = Nothing /\ job' \in [Instances -> Jobs] /\ \A m \in Instances \ {i} : job'[m] = job[m]
  BY <1>1, <1>4 DEF Jobs
<1>10. OnlyWindow(i) BY <1>1, <1>3, <1>4, <1>8, <1>9 DEF OnlyWindow, PoolTypes
<1>11. Held(es, slot', promised) BY <1>3, <1>6, <1>7 DEF Held
<1>12. "map" \in trouble => OneFileEach(slot') BY <1>3, <1>7 DEF DiskOK, OneFileEach
<1>13. \A k \in Keys : promised[k] \in Contents =>
         IF map = Nothing THEN "map" \in trouble /\ \E r \in Slots : slot'[r] = Rec(k, promised[k])
         ELSE \E r \in Slots : At(map, k, r) /\ slot'[r] = Rec(k, promised[k])
  <2> SUFFICES ASSUME NEW k \in Keys, promised[k] \in Contents
               PROVE  IF map = Nothing
                      THEN "map" \in trouble /\ \E r \in Slots : slot'[r] = Rec(k, promised[k])
                      ELSE \E r \in Slots : At(map, k, r) /\ slot'[r] = Rec(k, promised[k])
    OBVIOUS
  <2>1. CASE map = Nothing
    <3>1. "map" \in trouble BY <1>3, <2>1 DEF DiskOK
    <3> QED BY <1>11, <2>1, <3>1 DEF Held
  <2>2. CASE map # Nothing
    <3>1. PICK r \in Slots : At(map, k, r) /\ slot[r] = Rec(k, promised[k])
      BY <1>3, <2>2 DEF DiskOK
    <3>2. At(es, k, r) BY <1>3, <2>2, <3>1 DEF Linked, InMap
    <3>3. r # s BY <1>6, <3>2
    <3> QED BY <1>7, <2>2, <3>1, <3>3
  <2> QED BY <2>1, <2>2
<1>14. DiskOK(slot', map, promised, trouble) BY <1>3, <1>12, <1>13 DEF DiskOK
<1>15. Owed(Nothing, es, slot') /\ Leaving(Nothing) = {}
  BY PoolAssumption DEF Owed, Leaving
<1>16. "map" \in trouble => Covers(es, slot', {}) BY <1>3, <1>6, <1>7 DEF Covers
<1>17. WindowOK(pool[i], Nothing, slot', map, promised, trouble)
  BY <1>2, <1>3, <1>11, <1>15, <1>16 DEF WindowOK, es
<1>18. /\ pool' = pool /\ map' = map /\ promised' = promised /\ trouble' = trouble BY <1>1
<1> QED BY <1>2, <1>9, <1>10, <1>14, <1>17, <1>18, WindowGoesOn

\* What has to be left on the disk where no window runs.
LEMMA DownKeeps ==
  ASSUME PoolTypes', \A i \in Instances : ~pool'[i].up /\ job'[i] = Nothing,
         DiskOK(slot', map', promised', trouble'),
         "map" \in trouble' /\ map' # Nothing => Covers(map', slot', {})
  PROVE  PoolInv'
<1>1. \A i \in Instances : ~pool'[i].up OBVIOUS
<1> QED BY <1>1 DEF PoolInv

\* A list that is the map covers what the map does.
LEMMA CoversAlike ==
  ASSUME NEW es, NEW mp, SameList(es, mp), NEW sl \in [Slots -> Records \cup {Nothing}],
         Covers(es, sl, {})
  PROVE  Covers(mp, sl, {})
<1>1. \A s \in Slots : sl[s] # Nothing => sl[s].key \in Keys BY DEF Records
<1> QED BY <1>1 DEF Covers, SameList, InMap

\* A window that is not running has read nothing.
LEMMA ClosedIs ==
  /\ Closed \in Stores /\ Closed.up = FALSE /\ Closed.entries = <<>> /\ Closed.dirty = FALSE
  /\ Closed.readOnly = FALSE
  BY DEF Closed, Stores

\* Where one window runs, the others do not, and do not write.
LEMMA OthersAreDown ==
  ASSUME PoolInv, alone, NEW i \in Instances, pool[i].up
  PROVE  \A j \in Instances \ {i} : ~pool[j].up /\ job[j] = Nothing
  BY DEF PoolInv

\* The session's last save.
LEMMA QuitKeeps ==
  ASSUME PoolInv, alone, NEW i \in Instances, pool[i].up, Quit(i)
  PROVE  PoolInv'
<1> DEFINE es == pool[i].entries
<1>1. /\ job[i] = Nothing /\ pool' = [pool EXCEPT ![i] = Closed]
      /\ map' = IF pool[i].dirty /\ ~pool[i].readOnly THEN es ELSE map
      /\ UNCHANGED <<slot, newerMap, job, promised, alone, trouble>>
  BY DEF Quit, Idle
<1>2. /\ PoolTypes /\ DiskOK(slot, map, promised, trouble)
      /\ "map" \in trouble /\ map # Nothing /\ (\A j \in Instances : pool[j].up => pool[j].readOnly)
           => Covers(map, slot, {})
  BY DEF PoolInv
<1>3. pool \in [Instances -> Stores] /\ slot \in [Slots -> Records \cup {Nothing}]
      /\ pool[i].entries \in Seq(Entry)
  BY <1>2 DEF PoolTypes, Stores
<1>4. pool' \in [Instances -> Stores] /\ \A j \in Instances : ~pool'[j].up /\ job'[j] = Nothing
  <2>1. pool' \in [Instances -> Stores] /\ pool'[i] = Closed
        /\ \A j \in Instances \ {i} : pool'[j] = pool[j]
    BY <1>1, <1>3, ClosedIs
  <2> QED BY <1>1, <2>1, ClosedIs, OthersAreDown
<1>5. PoolTypes' BY <1>1, <1>2, <1>3, <1>4 DEF PoolTypes
<1>6. CASE pool[i].readOnly
  <2>1. \A j \in Instances : pool[j].up => pool[j].readOnly BY <1>6, OthersAreDown
  <2>2. map' = map BY <1>1, <1>6
  <2> QED BY <1>1, <1>2, <1>4, <1>5, <2>1, <2>2, DownKeeps
<1>7. CASE ~pool[i].readOnly
  <2>1. /\ OneEach(es) /\ Held(es, slot, promised)
        /\ ~pool[i].dirty => SameList(es, map)
        /\ "map" \in trouble => Covers(es, slot, Leaving(job[i]))
    BY <1>7, ActorIs
  <2> DEFINE mp == map'
  <2>2. SameList(es, mp) BY <1>1, <1>3, <1>7, <2>1, ListsThemselves
  <2>3. "map" \in trouble => OneFileEach(slot) BY <1>2 DEF DiskOK
  <2>4. "map" \in trouble => Covers(es, slot, {})
    BY <1>1, <2>1, PoolAssumption DEF Leaving
  <2> HIDE DEF es, mp
  <2>5. DiskOK(slot, mp, promised, trouble) BY <2>1, <2>2, <2>3, MapAgrees
  <2>6. "map" \in trouble => Covers(mp, slot, {}) BY <1>3, <2>2, <2>4, CoversAlike
  <2>7. slot' = slot /\ promised' = promised /\ trouble' = trouble BY <1>1
  <2> QED BY <1>4, <1>5, <2>5, <2>6, <2>7, DownKeeps DEF mp
<1> QED BY <1>6, <1>7

\* A window that dies leaves what it has written.
LEMMA DieKeeps ==
  ASSUME PoolInv, alone, NEW i \in Instances, Die(i)
  PROVE  PoolInv'
<1>1. /\ "crash" \in trouble /\ pool[i].up /\ pool' = [pool EXCEPT ![i] = Closed]
      /\ job' = [job EXCEPT ![i] = Nothing]
      /\ UNCHANGED <<slot, map, newerMap, promised, alone, trouble>>
  BY DEF Die
<1>2. PoolTypes /\ DiskOK(slot, map, promised, trouble) BY DEF PoolInv
<1>3. pool \in [Instances -> Stores] /\ job \in [Instances -> Jobs] /\ "map" \notin trouble
  BY <1>1, <1>2 DEF PoolTypes, Jobs
<1>4. /\ pool' \in [Instances -> Stores] /\ job' \in [Instances -> Jobs]
      /\ \A j \in Instances : ~pool'[j].up /\ job'[j] = Nothing
  <2>1. pool' \in [Instances -> Stores] /\ pool'[i] = Closed
        /\ \A j \in Instances \ {i} : pool'[j] = pool[j]
    BY <1>1, <1>3, ClosedIs
  <2>2. job' \in [Instances -> Jobs] /\ job'[i] = Nothing
        /\ \A j \in Instances \ {i} : job'[j] = job[j]
    BY <1>1, <1>3 DEF Jobs
  <2> QED BY <1>1, <2>1, <2>2, ClosedIs, OthersAreDown
<1>5. PoolTypes' BY <1>1, <1>2, <1>4 DEF PoolTypes, Jobs
<1> QED BY <1>1, <1>2, <1>3, <1>4, <1>5, DownKeeps

\* A window that starts reads the map, or makes one of the slot files.
LEMMA LoadKeeps ==
  ASSUME PoolInv, alone, NEW i \in Instances, Load(i), alone'
  PROVE  PoolInv'
<1> DEFINE rebuilt == FoundIn(slot)
           es == IF newerMap THEN <<>> ELSE IF map = Nothing THEN rebuilt ELSE map
           d == ~newerMap /\ map = Nothing /\ rebuilt # <<>>
           w == [Closed EXCEPT !.up = TRUE, !.entries = es, !.dirty = d, !.readOnly = newerMap]
<1>1. /\ pool' = [pool EXCEPT ![i] = w] /\ \A j \in Instances : ~pool[j].up
      /\ UNCHANGED <<slot, map, newerMap, job, promised, trouble>>
  BY DEF Load
<1>2. /\ PoolTypes /\ DiskOK(slot, map, promised, trouble)
      /\ \A j \in Instances : job[j] = Nothing
      /\ "map" \in trouble /\ map # Nothing => Covers(map, slot, {})
  BY <1>1 DEF PoolInv
<1>3. /\ pool \in [Instances -> Stores] /\ slot \in [Slots -> Records \cup {Nothing}]
      /\ newerMap \in BOOLEAN /\ (map = Nothing \/ map \in Seq(Entry))
  BY <1>2 DEF PoolTypes
<1>4. /\ rebuilt \in Seq(Entry) /\ OneEach(rebuilt)
      /\ OneFileEach(slot) => Covers(rebuilt, slot, {})
  BY <1>3, FoundIs
<1> HIDE DEF rebuilt
<1>5. es \in Seq(Entry) /\ d \in BOOLEAN BY <1>3, <1>4
<1>6. /\ w \in Stores /\ w.up /\ w.entries = es /\ w.dirty = d /\ w.readOnly = newerMap
  <2> HIDE DEF es, d
  <2> QED BY <1>3, <1>5 DEF Stores, Closed
<1> HIDE DEF w
<1>7. /\ pool' \in [Instances -> Stores] /\ pool'[i] = w
      /\ \A j \in Instances \ {i} : ~pool'[j].up
  BY <1>1, <1>3, <1>6
<1>8. PoolTypes' BY <1>1, <1>2, <1>7 DEF PoolTypes
<1>9. WindowOK(w, Nothing, slot, map, promised, trouble)
  <2>1. CASE newerMap BY <1>6, <2>1, PoolAssumption DEF WindowOK
  <2>2. CASE ~newerMap /\ map = Nothing
    <3>1. es = rebuilt /\ (~d => rebuilt = <<>>) BY <2>2
    <3>2. "map" \in trouble => Covers(rebuilt, slot, {}) BY <1>2, <1>4 DEF DiskOK
    <3>3. Held(rebuilt, slot, promised)
      <4> SUFFICES ASSUME NEW k \in Keys, promised[k] \in Contents
                   PROVE  \E s \in Slots : At(rebuilt, k, s) /\ slot[s] = Rec(k, promised[k])
        BY DEF Held
      <4>1. PICK s \in Slots : slot[s] = Rec(k, promised[k]) BY <1>2, <2>2 DEF DiskOK
      <4>2. "map" \in trouble BY <1>2, <2>2 DEF DiskOK
      <4>3. slot[s].key = k /\ Rec(k, promised[k]) \in Records BY <4>1 DEF Rec, Records
      <4>4. slot[s] # Nothing BY <4>1, <4>3, PoolAssumption
      <4>5. At(rebuilt, k, s) BY <3>2, <4>2, <4>3, <4>4 DEF Covers
      <4> QED BY <4>1, <4>5
    <3>4. Linked(rebuilt, map, promised) BY <2>2 DEF Linked, InMap
    <3>5. ~d => SameList(rebuilt, map)
      <4>1. \A k, s : ~At(<<>>, k, s) BY DEF At
      <4> QED BY <2>2, <3>1, <4>1 DEF SameList, InMap
    <3>6. Owed(Nothing, rebuilt, slot) /\ Leaving(Nothing) = {}
      BY PoolAssumption DEF Owed, Leaving
    <3> HIDE DEF es, d
    <3> QED BY <1>4, <1>6, <2>2, <3>1, <3>2, <3>3, <3>4, <3>5, <3>6 DEF WindowOK
  <2>3. CASE ~newerMap /\ map # Nothing
    <3>1. es = map /\ map \in Seq(Entry) BY <1>3, <2>3
    <3>2. OneEach(map) /\ Held(map, slot, promised) BY <1>2, <2>3 DEF DiskOK, Held
    <3>3. Linked(map, map, promised) /\ SameList(map, map)
      BY <3>1, ListsThemselves DEF Linked, InMap
    <3>4. Owed(Nothing, map, slot) /\ Leaving(Nothing) = {}
      BY PoolAssumption DEF Owed, Leaving
    <3> HIDE DEF es, d
    <3> QED BY <1>2, <1>6, <2>3, <3>1, <3>2, <3>3, <3>4 DEF WindowOK
  <2> QED BY <2>1, <2>2, <2>3
<1>10. \A j \in Instances : pool'[j].up => j = i BY <1>7
<1>11. /\ \A j \in Instances : ~pool'[j].up => job'[j] = Nothing
       /\ \A j, m \in Instances : pool'[j].up /\ pool'[m].up => j = m
       /\ DiskOK(slot', map', promised', trouble')
       /\ "map" \in trouble' /\ map' # Nothing => Covers(map', slot', {})
  BY <1>1, <1>2, <1>10
<1>12. \A j \in Instances : pool'[j].up =>
         WindowOK(pool'[j], job'[j], slot', map', promised', trouble')
  <2> SUFFICES ASSUME NEW j \in Instances, pool'[j].up
               PROVE  WindowOK(pool'[j], job'[j], slot', map', promised', trouble')
    OBVIOUS
  <2>1. j = i /\ job'[j] = Nothing /\ pool'[j] = w BY <1>1, <1>2, <1>7, <1>10
  <2>2. slot' = slot /\ map' = map /\ promised' = promised /\ trouble' = trouble BY <1>1
  <2> QED BY <1>9, <2>1, <2>2
<1> QED BY <1>8, <1>11, <1>12 DEF PoolInv

\* Nobody looks, and the map is lost, or a newer version rewrites a record or the map.
LEMMA UnwatchedKeeps ==
  ASSUME PoolInv, alone, LoseMap \/ NewerMap \/ \E s \in Slots : NewerRecord(s)
  PROVE  PoolInv'
<1>1. (\A i \in Instances : ~pool[i].up) /\ pool' = pool /\ job' = job /\ alone' = alone /\ trouble' = trouble
  BY DEF LoseMap, NewerMap, NewerRecord
<1>2. /\ PoolTypes /\ DiskOK(slot, map, promised, trouble)
      /\ \A i \in Instances : ~pool[i].up /\ job[i] = Nothing
      /\ "map" \in trouble /\ map # Nothing => Covers(map, slot, {})
  BY <1>1 DEF PoolInv
<1>3. slot \in [Slots -> Records \cup {Nothing}] /\ newerMap \in BOOLEAN
      /\ promised \in [Keys -> Contents \cup {Nothing, Unsure}]
  BY <1>2 DEF PoolTypes
<1>4. CASE LoseMap
  <2>1. /\ "map" \in trouble /\ map # Nothing /\ map' = Nothing
        /\ slot' = slot /\ newerMap' = newerMap /\ promised' = promised
    BY <1>4 DEF LoseMap
  <2>2. PoolTypes' BY <1>1, <1>2, <2>1 DEF PoolTypes
  <2>3. \A k \in Keys : promised[k] \in Contents => \E s \in Slots : slot[s] = Rec(k, promised[k])
    BY <1>2, <2>1 DEF DiskOK
  <2>4. DiskOK(slot', map', promised', trouble') BY <1>1, <1>2, <2>1, <2>3 DEF DiskOK
  <2> QED BY <1>1, <1>2, <2>1, <2>2, <2>4, DownKeeps
<1>5. CASE NewerMap
  <2>1. newerMap' = ~newerMap /\ slot' = slot /\ map' = map /\ promised' = promised
    BY <1>5 DEF NewerMap
  <2>2. PoolTypes' BY <1>1, <1>2, <2>1 DEF PoolTypes
  <2> QED BY <1>1, <1>2, <2>1, <2>2, DownKeeps
<1>6. ASSUME NEW s \in Slots, NewerRecord(s) PROVE PoolInv'
  <2>1. /\ slot[s] # Nothing /\ slot' = [slot EXCEPT ![s].newer = TRUE]
        /\ promised' = [promised EXCEPT ![slot[s].key] = Unsure]
        /\ map' = map /\ newerMap' = newerMap
    BY <1>6 DEF NewerRecord
  <2>2. slot[s] \in Records /\ slot[s].key \in Keys BY <1>3, <2>1 DEF Records
  <2>3. /\ slot' \in [Slots -> Records \cup {Nothing}]
        /\ slot'[s] \in Records /\ slot'[s].key = slot[s].key
        /\ \A r \in Slots : r # s => slot'[r] = slot[r]
    BY <1>3, <2>1, <2>2 DEF Records
  <2>4. /\ promised' \in [Keys -> Contents \cup {Nothing, Unsure}]
        /\ promised'[slot[s].key] = Unsure
        /\ \A k \in Keys : k # slot[s].key => promised'[k] = promised[k]
    BY <1>3, <2>1, <2>2
  <2>5. PoolTypes' BY <1>1, <1>2, <2>1, <2>3, <2>4 DEF PoolTypes
  <2>6. \A r \in Slots : slot'[r] # Nothing => slot[r] # Nothing /\ slot'[r].key = slot[r].key
    BY <2>1, <2>3
  <2>7. \A k \in Keys, r \in Slots : promised'[k] \in Contents /\ slot[r] = Rec(k, promised[k])
          => promised'[k] = promised[k] /\ slot'[r] = Rec(k, promised'[k])
    <3> SUFFICES ASSUME NEW k \in Keys, NEW r \in Slots, promised'[k] \in Contents,
                        slot[r] = Rec(k, promised[k])
                 PROVE  promised'[k] = promised[k] /\ slot'[r] = Rec(k, promised'[k])
      OBVIOUS
    <3>1. k # slot[s].key BY <2>4, PoolAssumption
    <3>2. slot[r].key = k BY DEF Rec
    <3> QED BY <2>3, <2>4, <3>1, <3>2
  <2>8. \A k \in Keys : promised'[k] \in Contents => promised[k] \in Contents
    BY <2>4, PoolAssumption
  <2>9. \A k \in Keys : promised'[k] \in Contents =>
          IF map = Nothing THEN "map" \in trouble /\ \E r \in Slots : slot'[r] = Rec(k, promised'[k])
          ELSE \E r \in Slots : At(map, k, r) /\ slot'[r] = Rec(k, promised'[k])
    <3> SUFFICES ASSUME NEW k \in Keys, promised'[k] \in Contents
                 PROVE  IF map = Nothing
                        THEN "map" \in trouble /\ \E r \in Slots : slot'[r] = Rec(k, promised'[k])
                        ELSE \E r \in Slots : At(map, k, r) /\ slot'[r] = Rec(k, promised'[k])
      OBVIOUS
    <3>1. promised[k] \in Contents BY <2>8
    <3>2. map = Nothing => "map" \in trouble /\ \E r \in Slots : slot[r] = Rec(k, promised[k])
      BY <1>2, <3>1 DEF DiskOK
    <3>3. map # Nothing => \E r \in Slots : At(map, k, r) /\ slot[r] = Rec(k, promised[k])
      BY <1>2, <3>1 DEF DiskOK
    <3> QED BY <2>7, <3>2, <3>3
  <2>10. DiskOK(slot', map', promised', trouble')
    <3>1. map # Nothing => OneEach(map) BY <1>2 DEF DiskOK
    <3>2. "map" \in trouble => OneFileEach(slot') BY <1>2, <2>6 DEF DiskOK, OneFileEach
    <3> QED BY <1>1, <2>1, <2>9, <3>1, <3>2 DEF DiskOK
  <2>11. "map" \in trouble /\ map # Nothing => Covers(map, slot', {})
    BY <1>2, <2>6 DEF Covers
  <2> QED BY <1>1, <1>2, <2>1, <2>5, <2>10, <2>11, DownKeeps
<1> QED BY <1>4, <1>5, <1>6

\* A record whose profile has fallen into line says what is left of it.
LEMMA RecordTrimmed ==
  ASSUME NEW g \in Records, NEW c
  PROVE  /\ [g EXCEPT !.says = c].key = g.key
         /\ \A k, b : g = Rec(k, b) => [g EXCEPT !.says = c] = Rec(k, c)
         /\ c \in Contents => [g EXCEPT !.says = c] \in Records
<1>1. [g EXCEPT !.says = c] = [key |-> g.key, says |-> c, newer |-> g.newer]
  BY DEF Records
<1>2. \A k, b : g = Rec(k, b) => g.key = k /\ g.newer = FALSE BY DEF Rec
<1>3. g.key \in Keys /\ g.newer \in BOOLEAN BY DEF Records
<1>4. c \in Contents => [key |-> g.key, says |-> c, newer |-> g.newer] \in Records
  BY <1>3 DEF Records
<1> QED BY <1>1, <1>2, <1>4 DEF Rec

\* A store after a sweep.
SweptStore(p, q, i, es, more, d) ==
  /\ p \in [Instances -> Stores] /\ es \in Seq(Entry) /\ d \in BOOLEAN /\ more \subseteq Keys
  /\ q = [p EXCEPT ![i].entries = es, ![i].newer = @ \cup more, ![i].dirty = d]
\* It has the list that is left.
LEMMA StoreSwept ==
  ASSUME NEW p, NEW i \in Instances, NEW es, NEW more, NEW d, NEW q, SweptStore(p, q, i, es, more, d)
  PROVE  HasList(p, q, i, es, d)
<1>0. /\ p \in [Instances -> Stores] /\ es \in Seq(Entry) /\ d \in BOOLEAN /\ more \subseteq Keys
      /\ p[i] \in Stores
  BY DEF SweptStore
<1> DEFINE w == [p[i] EXCEPT !.entries = es, !.newer = @ \cup more, !.dirty = d]
<1>1. q = [p EXCEPT ![i] = w] BY DEF SweptStore
<1>2. /\ w \in Stores /\ w.up = p[i].up /\ w.entries = es /\ w.dirty = d
      /\ w.readOnly = p[i].readOnly
  BY <1>0 DEF Stores
<1> HIDE DEF w
<1> QED BY <1>0, <1>1, <1>2 DEF HasList

\* pruneAgainst(): a promise is trimmed with the record that keeps it.
LEMMA PruneKeeps ==
  ASSUME PoolInv, alone, NEW i \in Instances, pool[i].up, NEW ks \in SUBSET Keys, PruneAgainst(i, ks)
  PROVE  PoolInv'
<1> DEFINE p == pool[i]
           es == p.entries
           fileOf(k) == slot[EntryOf(es, k).slot]
           swept == {k \in Keys : Has(es, k)}
           future == {k \in swept : fileOf(k) # Nothing /\ fileOf(k).newer}
           lost == {k \in swept \ future : ~Verified(k, fileOf(k))}
           moved == {k \in ks \cap (swept \ (future \cup lost)) : Trim[fileOf(k).says] # fileOf(k).says}
           emptied == {k \in moved : Trim[fileOf(k).says] = Nothing}
           S == {n \in DOMAIN es : es[n].key \notin lost \cup emptied}
           left == Picked(es, S)
           slotsOf(T) == {EntryOf(es, k).slot : k \in T}
           d == p.dirty \/ left # es
<1>1. /\ job[i] = Nothing /\ ~pool[i].readOnly
      /\ slot' = [s \in Slots |-> IF s \in slotsOf(emptied) THEN Nothing
                    ELSE IF s \in slotsOf(moved) THEN [slot[s] EXCEPT !.says = Trim[@]] ELSE slot[s]]
      /\ pool' = [pool EXCEPT ![i].entries = left, ![i].newer = @ \cup future, ![i].dirty = @ \/ left # es]
      /\ promised' = [k \in Keys |-> IF k \in moved /\ promised[k] \in Contents
                                     THEN Trim[promised[k]] ELSE promised[k]]
      /\ job' = [job EXCEPT ![i] = [kind |-> "flush", key |-> Nothing, says |-> Nothing]]
      /\ UNCHANGED <<map, newerMap, alone, trouble>>
  BY DEF PruneAgainst, Usable, Idle
<1>2. /\ PoolTypes /\ es \in Seq(Entry) /\ OneEach(es) /\ Held(es, slot, promised)
      /\ Linked(es, map, promised) /\ DiskOK(slot, map, promised, trouble)
      /\ ~p.dirty => SameList(es, map)
      /\ "map" \in trouble => Covers(es, slot, {})
  BY <1>1, ActorIs, PoolAssumption DEF Leaving
<1>3. /\ pool \in [Instances -> Stores] /\ slot \in [Slots -> Records \cup {Nothing}]
      /\ job \in [Instances -> Jobs] /\ (map = Nothing \/ map \in Seq(Entry))
      /\ promised \in [Keys -> Contents \cup {Nothing, Unsure}] /\ newerMap \in BOOLEAN
  BY <1>2 DEF PoolTypes, Jobs
<1>4. \A k \in Keys, s \in Slots : At(es, k, s) => k \in swept /\ EntryOf(es, k).slot = s
  BY <1>2, EntryIs
<1>5. \A k \in swept : k \in Keys /\ EntryOf(es, k).slot \in Slots /\ At(es, k, EntryOf(es, k).slot)
  BY <1>2, EntryIs
<1>6. /\ moved \subseteq swept /\ emptied \subseteq moved /\ future \subseteq Keys
      /\ \A k \in moved : fileOf(k) \in Records /\ ~fileOf(k).newer /\ fileOf(k).key = k
      /\ \A k \in moved : k \notin emptied => Trim[fileOf(k).says] \in Contents
  <2>1. \A k \in moved : k \in swept /\ k \notin lost /\ k \notin future OBVIOUS
  <2>2. \A k \in swept : fileOf(k) \in Records \cup {Nothing} BY <1>3, <1>5
  <2>3. \A k \in moved : fileOf(k) \in Records /\ ~fileOf(k).newer /\ fileOf(k).key = k
    BY <2>1, <2>2 DEF Verified
  <2>4. \A k \in moved : Trim[fileOf(k).says] \in Contents \cup {Nothing}
    BY <2>3, PoolAssumption DEF Records
  <2> QED BY <2>1, <2>3, <2>4
<1>7. \A k \in Keys, s \in Slots : At(es, k, s) /\ slot[s] # Nothing /\ slot[s].key = k => k \notin lost
  BY <1>4 DEF Verified
<1>8. left \in Seq(Entry)
      /\ \A k, s : At(left, k, s) <=> At(es, k, s) /\ k \notin lost \cup emptied
  <2>1. S \in SUBSET DOMAIN es /\ \A n : n \in S <=> n \in DOMAIN es /\ es[n].key \notin lost \cup emptied
    OBVIOUS
  <2> HIDE DEF S, es, lost, emptied
  <2>2. /\ left \in Seq(Entry)
        /\ \A m \in DOMAIN left : \E n \in S : left[m] = es[n]
        /\ \A n \in S : \E m \in DOMAIN left : left[m] = es[n]
    BY <1>2, <2>1, PickedIs
  <2> HIDE DEF left
  <2>3. ASSUME NEW k, NEW s, At(left, k, s) PROVE At(es, k, s) /\ k \notin lost \cup emptied
    <3>1. PICK m \in DOMAIN left : left[m].key = k /\ left[m].slot = s BY <2>3 DEF At
    <3>2. PICK n \in S : left[m] = es[n] BY <2>2
    <3>3. n \in DOMAIN es /\ es[n].key \notin lost \cup emptied BY <2>1
    <3> QED BY <3>1, <3>2, <3>3, Zenon DEF At
  <2>4. ASSUME NEW k, NEW s, At(es, k, s), k \notin lost \cup emptied PROVE At(left, k, s)
    BY <2>1, <2>2, <2>4, Zenon DEF At
  <2> QED BY <2>2, <2>3, <2>4
<1>9. ASSUME NEW k \in Keys, NEW s \in Slots, At(es, k, s)
      PROVE  (s \in slotsOf(emptied) <=> k \in emptied) /\ (s \in slotsOf(moved) <=> k \in moved)
  <2>1. ASSUME NEW T, T \subseteq swept PROVE s \in slotsOf(T) <=> k \in T
    <3>1. k \in T => s \in slotsOf(T) BY <1>4, <1>9
    <3>2. ASSUME s \in slotsOf(T) PROVE k \in T
      <4>1. PICK m \in T : EntryOf(es, m).slot = s BY <3>2
      <4>2. m \in Keys /\ At(es, m, s) BY <1>5, <2>1, <4>1
      <4>3. m = k BY <1>2, <1>9, <4>2 DEF OneEach
      <4> QED BY <4>3
    <3> QED BY <3>1, <3>2
  <2> QED BY <1>6, <2>1
<1> HIDE DEF future, lost, moved, emptied, S, left, es, p
<1>10. \A s \in slotsOf(moved) :
         /\ s \in Slots /\ slot[s] \in Records
         /\ s \notin slotsOf(emptied) => Trim[slot[s].says] \in Contents
  <2> SUFFICES ASSUME NEW k \in moved
               PROVE  LET s == EntryOf(es, k).slot
                      IN /\ s \in Slots /\ slot[s] \in Records
                         /\ s \notin slotsOf(emptied) => Trim[slot[s].says] \in Contents
    OBVIOUS
  <2>1. EntryOf(es, k).slot \in Slots BY <1>5, <1>6
  <2>2. EntryOf(es, k).slot \notin slotsOf(emptied) => k \notin emptied OBVIOUS
  <2> QED BY <1>6, <2>1, <2>2
<1>11. \A k \in emptied : Trim[fileOf(k).says] = Nothing /\ k \in swept
  BY <1>5, <1>6 DEF emptied, moved
<1>12. ASSUME NEW k \in Keys, promised[k] \in Contents
       PROVE  \E s \in Slots : At(es, k, s) /\ slot[s] = Rec(k, promised[k]) /\ fileOf(k) = slot[s]
  <2>1. PICK s \in Slots : At(es, k, s) /\ slot[s] = Rec(k, promised[k])
    BY <1>2, <1>12 DEF Held
  <2> QED BY <1>4, <2>1
<1> DEFINE gone == slotsOf(emptied)
           cut == slotsOf(moved)
           trimmed(g) == [g EXCEPT !.says = Trim[g.says]]
           file(k) == fileOf(k)
<1>13. \A s \in Slots : /\ s \in gone => slot'[s] = Nothing
                        /\ s \notin gone /\ s \in cut => slot'[s] = trimmed(slot[s])
                        /\ s \notin gone /\ s \notin cut => slot'[s] = slot[s]
  <2>1. slot' = [s \in Slots |-> IF s \in gone THEN Nothing
                   ELSE IF s \in cut THEN trimmed(slot[s]) ELSE slot[s]]
    BY <1>1
  <2> HIDE DEF gone, cut, trimmed
  <2> QED BY <2>1
<1>14. \A s \in cut : s \in Slots /\ slot[s] \in Records /\ (s \notin gone => Trim[slot[s].says] \in Contents)
  BY <1>10
<1>15. ASSUME NEW k \in Keys, NEW s \in Slots, At(es, k, s)
       PROVE  (s \in gone <=> k \in emptied) /\ (s \in cut <=> k \in moved)
  BY <1>9, <1>15
<1>16. \A k \in Keys : promised[k] \in Contents =>
         \E s \in Slots : At(es, k, s) /\ slot[s] = Rec(k, promised[k]) /\ file(k) = slot[s]
  BY <1>12
<1>17. \A k \in emptied : Trim[file(k).says] = Nothing BY <1>11
<1>18. \A g \in Records : /\ trimmed(g).key = g.key
                          /\ \A k, b : g = Rec(k, b) => trimmed(g) = Rec(k, Trim[b])
                          /\ Trim[g.says] \in Contents => trimmed(g) \in Records
  <2> SUFFICES ASSUME NEW g \in Records
               PROVE  /\ trimmed(g).key = g.key
                      /\ \A k, b : g = Rec(k, b) => trimmed(g) = Rec(k, Trim[b])
                      /\ Trim[g.says] \in Contents => trimmed(g) \in Records
    OBVIOUS
  <2> DEFINE c == Trim[g.says]
  <2>1. trimmed(g) = [g EXCEPT !.says = c] OBVIOUS
  <2>2. \A k, b : g = Rec(k, b) => c = Trim[b] BY DEF Rec
  <2> HIDE DEF c, trimmed
  <2>3. /\ [g EXCEPT !.says = c].key = g.key
        /\ \A k, b : g = Rec(k, b) => [g EXCEPT !.says = c] = Rec(k, c)
        /\ c \in Contents => [g EXCEPT !.says = c] \in Records
    BY RecordTrimmed
  <2> QED BY <2>1, <2>2, <2>3, Zenon DEF c
<1> HIDE DEF gone, cut, trimmed, file, swept
<1>19. slot' \in [Slots -> Records \cup {Nothing}]
       /\ \A s \in Slots : slot'[s] # Nothing => slot[s] # Nothing /\ slot'[s].key = slot[s].key /\ s \notin gone
  <2>1. \A s \in Slots : slot'[s] \in Records \cup {Nothing} BY <1>3, <1>13, <1>14, <1>18
  <2>2. \A s \in Slots : slot'[s] # Nothing => slot[s] # Nothing /\ slot'[s].key = slot[s].key /\ s \notin gone
    BY <1>13, <1>14, <1>18, PoolAssumption
  <2>3. slot' = [s \in Slots |-> slot'[s]] BY <1>1
  <2> QED BY <2>1, <2>2, <2>3
<1>20. promised' \in [Keys -> Contents \cup {Nothing, Unsure}]
       /\ \A k \in Keys : promised'[k] = IF k \in moved /\ promised[k] \in Contents
                                         THEN Trim[promised[k]] ELSE promised[k]
  BY <1>1, <1>3, PoolAssumption
<1>21. \A k \in Keys : promised'[k] \in Contents => promised[k] \in Contents /\ k \notin lost /\ k \notin emptied
  <2> SUFFICES ASSUME NEW k \in Keys, promised'[k] \in Contents
               PROVE  promised[k] \in Contents /\ k \notin lost /\ k \notin emptied
    OBVIOUS
  <2>1. promised[k] \in Contents BY <1>20
  <2>2. PICK s \in Slots : At(es, k, s) /\ slot[s] = Rec(k, promised[k]) /\ file(k) = slot[s]
    BY <1>16, <2>1
  <2>3. slot[s].key = k /\ slot[s].says = promised[k] /\ slot[s] # Nothing
    <3>1. Rec(k, promised[k]) \in Records BY <2>1 DEF Rec, Records
    <3> DEFINE c == promised[k]
    <3>2. slot[s] = Rec(k, c) BY <2>2
    <3>3. Rec(k, c) # Nothing BY <3>1, PoolAssumption
    <3> HIDE DEF c
    <3>4. Rec(k, c).key = k /\ Rec(k, c).says = c BY DEF Rec
    <3> QED BY <3>2, <3>3, <3>4 DEF c
  <2>4. k \notin lost BY <1>7, <2>2, <2>3
  <2>5. k \in emptied => promised'[k] = Nothing BY <1>6, <1>17, <1>20, <2>1, <2>2, <2>3
  <2> QED BY <2>1, <2>4, <2>5, PoolAssumption
<1>22. ASSUME NEW k \in Keys, NEW s \in Slots, promised'[k] \in Contents, At(es, k, s),
              slot[s] = Rec(k, promised[k])
       PROVE  slot'[s] = Rec(k, promised'[k])
  <2>1. k \notin emptied /\ promised[k] \in Contents BY <1>21, <1>22
  <2>2. s \notin gone /\ (s \in cut <=> k \in moved) BY <1>15, <1>22, <2>1
  <2>3. CASE k \in moved
    <3>1. slot'[s] = trimmed(slot[s]) /\ slot[s] \in Records BY <1>13, <1>14, <2>2, <2>3
    <3>2. trimmed(slot[s]) = Rec(k, Trim[promised[k]]) BY <1>18, <1>22, <3>1
    <3>3. promised'[k] = Trim[promised[k]] BY <1>20, <2>1, <2>3
    <3> QED BY <3>1, <3>2, <3>3
  <2>4. CASE k \notin moved BY <1>13, <1>20, <1>22, <2>2, <2>4
  <2> QED BY <2>3, <2>4
<1>23. Held(left, slot', promised')
  <2> SUFFICES ASSUME NEW k \in Keys, promised'[k] \in Contents
               PROVE  \E s \in Slots : At(left, k, s) /\ slot'[s] = Rec(k, promised'[k])
    BY DEF Held
  <2>1. PICK s \in Slots : At(es, k, s) /\ slot[s] = Rec(k, promised[k]) BY <1>16, <1>21
  <2> QED BY <1>8, <1>21, <1>22, <2>1
<1>24. Linked(left, map, promised') BY <1>2, <1>8, <1>21 DEF Linked
<1>25. OneEach(left) BY <1>2, <1>8 DEF OneEach
<1>26. "map" \in trouble => OneFileEach(slot') BY <1>2, <1>19 DEF DiskOK, OneFileEach
<1>27. "map" \in trouble => Covers(left, slot', {})
  <2> SUFFICES ASSUME "map" \in trouble, NEW s \in Slots, slot'[s] # Nothing
               PROVE  At(left, slot'[s].key, s)
    BY DEF Covers
  <2>1. slot[s] # Nothing /\ slot'[s].key = slot[s].key /\ s \notin gone BY <1>19
  <2>2. slot[s].key \in Keys /\ At(es, slot[s].key, s)
    BY <1>2, <1>3, <2>1 DEF Covers, Records
  <2>3. slot[s].key \notin lost /\ slot[s].key \notin emptied BY <1>7, <1>15, <2>1, <2>2
  <2> QED BY <1>8, <2>1, <2>2, <2>3
<1>28. DiskOK(slot', map, promised', trouble)
  <2>1. ASSUME NEW k \in Keys, promised'[k] \in Contents
        PROVE  IF map = Nothing
               THEN "map" \in trouble /\ \E s \in Slots : slot'[s] = Rec(k, promised'[k])
               ELSE \E s \in Slots : At(map, k, s) /\ slot'[s] = Rec(k, promised'[k])
    <3>1. promised[k] \in Contents BY <1>21, <2>1
    <3>2. CASE map = Nothing
      <4>1. "map" \in trouble BY <1>2, <3>1, <3>2 DEF DiskOK
      <4>2. \E s \in Slots : slot'[s] = Rec(k, promised'[k]) BY <1>23, <2>1 DEF Held
      <4> QED BY <3>2, <4>1, <4>2
    <3>3. CASE map # Nothing
      <4>1. PICK s \in Slots : At(map, k, s) /\ slot[s] = Rec(k, promised[k])
        BY <1>2, <3>1, <3>3 DEF DiskOK
      <4>2. At(es, k, s) BY <1>2, <3>1, <3>3, <4>1 DEF Linked, InMap
      <4>3. slot'[s] = Rec(k, promised'[k]) BY <1>22, <2>1, <4>1, <4>2
      <4> QED BY <3>3, <4>1, <4>3
    <3> QED BY <3>2, <3>3
  <2> QED BY <1>2, <1>26, <2>1 DEF DiskOK
<1>29. [kind |-> "flush", key |-> Nothing, says |-> Nothing] \in Flushes BY DEF Flushes
<1>30. /\ job'[i] = [kind |-> "flush", key |-> Nothing, says |-> Nothing]
       /\ job' \in [Instances -> Jobs] /\ \A m \in Instances \ {i} : job'[m] = job[m]
  BY <1>1, <1>3, <1>29 DEF Jobs
<1>31. job'[i] \in Flushes /\ job'[i].key = Nothing /\ job'[i] \notin Unlinks
  BY <1>29, <1>30 DEF Unlinks
<1>32. Owed(job'[i], left, slot') /\ Leaving(job'[i]) = {}
  BY <1>31, PoolAssumption DEF Owed, Leaving
<1>33. /\ pool'[i].up /\ pool'[i].entries = left /\ pool'[i].dirty = d /\ ~pool'[i].readOnly
       /\ \A j \in Instances \ {i} : pool'[j] = pool[j]
       /\ pool' \in [Instances -> Stores]
  <2>1. d \in BOOLEAN OBVIOUS
  <2>2. pool' = [pool EXCEPT ![i].entries = left, ![i].newer = @ \cup future, ![i].dirty = d]
    BY <1>1 DEF p
  <2> HIDE DEF d
  <2>3. SweptStore(pool, pool', i, left, future, d)
    BY <1>3, <1>6, <1>8, <2>1, <2>2 DEF SweptStore
  <2>4. HasList(pool, pool', i, left, d) BY <2>3, StoreSwept
  <2> QED BY <1>1, <2>4 DEF HasList
<1>34. OnlyWindow(i) BY <1>1, <1>3, <1>19, <1>20, <1>30, <1>33 DEF OnlyWindow
<1>35. ~pool'[i].dirty => SameList(left, map) BY <1>2, <1>33
<1>36. WindowOK(pool'[i], job'[i], slot', map, promised', trouble)
  <2> HIDE DEF d
  <2> QED BY <1>23, <1>24, <1>25, <1>27, <1>32, <1>33, <1>35 DEF WindowOK
<1>37. map' = map /\ trouble' = trouble BY <1>1
<1> QED BY <1>28, <1>33, <1>34, <1>36, <1>37, WindowGoesOn

\* Every step keeps PoolInv: what is on the disk answers as was promised, and so does what
\* the running window holds, at every point between the writes.
LEMMA PoolInvNext ==
  ASSUME PoolInv, PoolNext
  PROVE  PoolInv'
<1> SUFFICES ASSUME alone' PROVE PoolInv' BY DEF PoolInv
<1>1. alone
  <2>1. (LoseMap \/ NewerMap \/ \E s \in Slots : NewerRecord(s)) => alone
    BY DEF LoseMap, NewerMap, NewerRecord
  <2>2. ASSUME NEW i \in Instances, Load(i) \/ Die(i) \/ Quit(i) \/ Flush(i) PROVE alone
    BY <2>2 DEF Load, Die, Quit, Flush
  <2>3. ASSUME NEW i \in Instances, FinishSave(i) \/ FinishDrop(i) PROVE alone
    BY <2>3 DEF FinishSave, FinishDrop
  <2>4. ASSUME NEW i \in Instances, NEW ks, PruneAgainst(i, ks) \/ SetPinned(i, ks) PROVE alone
    BY <2>4 DEF PruneAgainst, SetPinned
  <2>5. ASSUME NEW i \in Instances, NEW k, Touch(i, k) \/ Read(i, k) \/ AdoptLegacyKey(i, k)
        PROVE  alone
    BY <2>5 DEF Touch, Read, AdoptLegacyKey
  <2>6. ASSUME NEW i \in Instances, NEW k, DropRecord(i, k) PROVE alone
    BY <2>6 DEF DropRecord
  <2>7. ASSUME NEW i \in Instances, NEW k, NEW c, Save(i, k, c) PROVE alone
    BY <2>7 DEF Save
  <2> QED BY <2>1, <2>2, <2>3, <2>4, <2>5, <2>6, <2>7 DEF PoolNext
<1>2. CASE LoseMap \/ NewerMap \/ \E s \in Slots : NewerRecord(s)
  BY <1>1, <1>2, UnwatchedKeeps
<1>3. ASSUME NEW i \in Instances,
             \/ Load(i) \/ Die(i) \/ Quit(i) \/ Flush(i) \/ FinishSave(i) \/ FinishDrop(i)
             \/ \E ks \in SUBSET Keys : PruneAgainst(i, ks)
             \/ \E ks \in SUBSET Openable : SetPinned(i, ks)
             \/ \E k \in Keys :
                 \/ Touch(i, k) \/ Read(i, k) \/ AdoptLegacyKey(i, k) \/ DropRecord(i, k)
                 \/ \E c \in Contents : Save(i, k, c)
      PROVE  PoolInv'
  <2>1. job[i] # Nothing => pool[i].up BY <1>1 DEF PoolInv
  <2>2. CASE Load(i) BY <1>1, <2>2, LoadKeeps
  <2>3. CASE Die(i) BY <1>1, <2>3, DieKeeps
  <2>4. CASE Quit(i)
    <3>1. pool[i].up BY <2>4 DEF Quit, Idle
    <3> QED BY <1>1, <2>4, <3>1, QuitKeeps
  <2>5. CASE Flush(i)
    <3>1. pool[i].up BY <2>5 DEF Flush, Idle
    <3> QED BY <1>1, <2>5, <3>1, FlushKeeps
  <2>6. CASE FinishSave(i)
    <3>1. pool[i].up BY <2>1, <2>6 DEF FinishSave
    <3> QED BY <1>1, <2>6, <3>1, FinishSaveKeeps
  <2>7. CASE FinishDrop(i)
    <3>1. pool[i].up BY <2>1, <2>7 DEF FinishDrop
    <3> QED BY <1>1, <2>7, <3>1, FinishDropKeeps
  <2>8. ASSUME NEW ks \in SUBSET Keys, PruneAgainst(i, ks) PROVE PoolInv'
    <3>1. pool[i].up BY <2>8 DEF PruneAgainst, Usable, Idle
    <3> QED BY <1>1, <2>8, <3>1, PruneKeeps
  <2>9. ASSUME NEW ks \in SUBSET Openable, SetPinned(i, ks) PROVE PoolInv'
    <3>1. pool[i].up BY <2>9 DEF SetPinned, Idle
    <3> QED BY <1>1, <2>9, <3>1, PinningKeeps
  <2>10. ASSUME NEW k \in Keys, Touch(i, k) PROVE PoolInv'
    <3>1. pool[i].up BY <2>10 DEF Touch, Idle
    <3> QED BY <1>1, <2>10, <3>1, TouchKeeps
  <2>11. ASSUME NEW k \in Keys, Read(i, k) PROVE PoolInv'
    <3>1. pool[i].up BY <2>11 DEF Read, Usable, Idle
    <3> QED BY <1>1, <2>11, <3>1, ReadKeeps
  <2>12. ASSUME NEW k \in Keys, AdoptLegacyKey(i, k) PROVE PoolInv'
    <3>1. pool[i].up BY <2>12 DEF AdoptLegacyKey, Usable, Idle
    <3> QED BY <1>1, <2>12, <3>1, AdoptKeeps
  <2>13. ASSUME NEW k \in Keys, DropRecord(i, k) PROVE PoolInv'
    <3>1. pool[i].up BY <2>13 DEF DropRecord, Writable, Usable, Idle
    <3> QED BY <1>1, <2>13, <3>1, DropKeeps
  <2>14. ASSUME NEW k \in Keys, NEW c \in Contents, Save(i, k, c) PROVE PoolInv'
    <3>1. pool[i].up BY <2>14 DEF Save, Writable, Usable, Idle
    <3> QED BY <1>1, <2>14, <3>1, SaveKeeps
  <2> QED
    BY <1>3, <2>2, <2>3, <2>4, <2>5, <2>6, <2>7, <2>8, <2>9, <2>10, <2>11, <2>12, <2>13, <2>14
<1> QED BY <1>2, <1>3 DEF PoolNext

\* A window answers from what it holds.
LEMMA HeldIsKept ==
  ASSUME PoolInv
  PROVE  SettingsSurvive
<1> SUFFICES ASSUME alone, NEW i \in Instances, pool[i].up, ~pool[i].readOnly, NEW k \in Keys,
                    promised[k] \in Contents
             PROVE  Answer(i, k) = promised[k]
  BY DEF SettingsSurvive, Kept, Idle
<1> DEFINE es == pool[i].entries
           c == promised[k]
<1>1. es \in Seq(Entry) /\ OneEach(es) /\ Held(es, slot, promised) /\ c \in Contents
  BY ActorIs
<1>2. PICK s \in Slots : At(es, k, s) /\ slot[s] = Rec(k, c) BY <1>1 DEF Held
<1>3. Has(es, k) /\ EntryOf(es, k).slot = s
  <2> HIDE DEF es, c
  <2> QED BY <1>1, <1>2, EntryIs
<1> HIDE DEF c
<1>4. /\ Rec(k, c) \in Records /\ Rec(k, c).key = k /\ Rec(k, c).says = c
      /\ Rec(k, c).newer = FALSE
  BY <1>1 DEF Rec, Records
<1>5. Verified(k, slot[s]) /\ ~slot[s].newer /\ slot[s].says = c
  BY <1>2, <1>4, PoolAssumption DEF Verified
<1> QED BY <1>3, <1>5 DEF Answer, c

\* In behaviours in which windows die and writes fail, or the map is lost, but not both (an orphan
\* a crash or a failed write left may answer for its log once the map is gone), a log whose save
\* completed reads back that record, for any number of logs, slots and windows, as long as one
\* window runs at a time (LogFileStore.h: every crash ends at an orphan).
THEOREM SettingsAreKept ==
  ASSUME \A t \in Troubles : "map" \in t => "crash" \notin t /\ "write" \notin t
  PROVE  PoolSpec => []SettingsSurvive
<1>1. PoolInit => PoolInv
  <2> SUFFICES ASSUME PoolInit PROVE PoolInv OBVIOUS
  <2>1. /\ slot = [s \in Slots |-> Nothing] /\ map = Nothing /\ newerMap = FALSE
        /\ pool = [i \in Instances |-> Closed] /\ job = [i \in Instances |-> Nothing]
        /\ promised = [k \in Keys |-> Nothing]
        /\ "map" \in trouble => "crash" \notin trouble /\ "write" \notin trouble
    BY DEF PoolInit
  <2>2. \A i \in Instances : pool[i] = Closed /\ job[i] = Nothing BY <2>1
  <2>3. pool \in [Instances -> Stores] /\ \A i \in Instances : ~pool[i].up
    BY <2>1, ClosedIs
  <2>4. PoolTypes BY <2>1, <2>3 DEF PoolTypes
  <2>5. DiskOK(slot, map, promised, trouble)
    BY <2>1, PoolAssumption DEF DiskOK, OneFileEach
  <2> QED BY <2>1, <2>2, <2>3, <2>4, <2>5 DEF PoolInv
<1>2. PoolInv /\ [PoolNext]_poolVars => PoolInv'
  <2>1. PoolInv /\ UNCHANGED poolVars => PoolInv' BY DEF poolVars, PoolInv, PoolTypes
  <2> QED BY <2>1, PoolInvNext
<1>3. PoolInv => SettingsSurvive BY HeldIsKept
<1> QED BY <1>1, <1>2, <1>3, PTL DEF PoolSpec
=============================================================================
