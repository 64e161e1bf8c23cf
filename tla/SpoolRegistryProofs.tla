------------------------- MODULE SpoolRegistryProofs -------------------------
(***************************************************************************)
(* The registry keeps its promises for any number of logs, containers and  *)
(* spools.  RegistryInv is inductive; there is one lemma for each step     *)
(* that lets go of, hands out or buries a spool, and one for all the steps *)
(* that only move the application thread or an entry.                      *)
(*                                                                         *)
(* The Runs pane of a log that grows tells the truth, whatever the log     *)
(* holds.  RunsInv is inductive: the index says what the lines that were   *)
(* read say, the list what the index says, and those lines are the log's,  *)
(* the last of them perhaps a prefix.                                      *)
(*                                                                         *)
(* The view that ticks extend in place is the one a search from the top    *)
(* gives.  ViewInv is inductive: beside RunsInv, the index is the scan of  *)
(* the lines seen, and what is shown is what all of its records would      *)
(* show.  The longest part says why an extended view is exact: what shows  *)
(* below a record depends on the spans of the stream to its two sides, and *)
(* the emission resumed at the right place with the right rows goes on as  *)
(* one that had begun at the top.                                          *)
(***************************************************************************)
EXTENDS SpoolRegistry, RecordView, FiniteSetTheorems, SequenceTheorems,
        WellFoundedInduction, TLAPS

\* No spool is the absence of one, nor the application thread.
LEMMA NoneIsNoId ==
  None \notin Ids /\ Gui \notin Ids /\ Ids \subseteq Threads /\ Gui \in Threads
  BY DEF None, Gui, Ids, Threads

\* What letting go of a handle does to the phases: at most the spool that lost its
\* last handle starts its teardown.
LEMMA LetGoPhases ==
  ASSUME RegistryTypeOK, NEW x \in Ids, NEW t \in Threads, NEW tabs, NEW inputs,
         LetGo(x, t, tabs, inputs)
  PROVE  /\ phase' \in [Ids -> Phases] /\ by' \in [Ids -> Threads]
         /\ \A j \in Ids :
              \/ phase'[j] = phase[j]
              \/ j = x /\ phase'[j] = "unheld" /\ ~HandleLeft(j, tabs, inputs, gui.got)
<1>1. CASE x # None /\ ~HandleLeft(x, tabs, inputs, gui.got)
  <2>1. phase' = [phase EXCEPT ![x] = "unheld"] /\ by' = [by EXCEPT ![x] = t]
    BY <1>1 DEF LetGo
  <2> QED BY <1>1, <2>1 DEF RegistryTypeOK, Phases
<1>2. CASE ~(x # None /\ ~HandleLeft(x, tabs, inputs, gui.got))
  <2>1. UNCHANGED <<phase, by>> BY <1>2 DEF LetGo
  <2> QED BY <2>1 DEF RegistryTypeOK
<1> QED BY <1>1, <1>2

\* What a destruction does: the fetcher's own spool is gone with its directory, and
\* at most the spool it still had a handle on starts its teardown.
LEMMA DestroyPhases ==
  ASSUME RegistryTypeOK, NEW i \in Ids, NEW t \in Threads, Destroy(i, t)
  PROVE  /\ phase' \in [Ids -> Phases] /\ by' \in [Ids -> Threads]
         /\ input' = [input EXCEPT ![i] = None] /\ dir' = [dir EXCEPT ![i] = FALSE]
         /\ phase'[i] = "gone"
         /\ \A j \in Ids : j # i =>
              \/ phase'[j] = phase[j]
              \/ /\ j = input[i] /\ phase'[j] = "unheld"
                 /\ ~HandleLeft(j, tab, input', gui.got)
<1> DEFINE rest == [input EXCEPT ![i] = None]
           last == input[i] # None /\ ~HandleLeft(input[i], tab, rest, gui.got)
<1>1. /\ input' = rest /\ dir' = [dir EXCEPT ![i] = FALSE]
      /\ phase' = [j \in Ids |-> IF j = i THEN "gone"
                                 ELSE IF last /\ j = input[i] THEN "unheld" ELSE phase[j]]
      /\ by' = IF last THEN [by EXCEPT ![input[i]] = t] ELSE by
  BY DEF Destroy
<1> HIDE DEF rest, last
<1>2. phase' \in [Ids -> Phases] BY <1>1 DEF RegistryTypeOK, Phases
<1>3. by' \in [Ids -> Threads] BY <1>1 DEF RegistryTypeOK
<1>4. \A j \in Ids : last /\ j = input[i] => ~HandleLeft(j, tab, input', gui.got)
  BY <1>1 DEF last
<1> QED BY <1>1, <1>2, <1>3, <1>4 DEF rest

\* An entry that is found leads to a spool somebody holds.
LEMMA FindsHeld ==
  ASSUME RegistryTypeOK, NEW k \in Keys, Finds(k)
  PROVE  map[k] \in Ids /\ phase[map[k]] = "held"
  BY DEF Finds, RegistryTypeOK

\* What letting go of handles preserves, whichever were let go of: nothing but the
\* phase of a spool that lost its last one changes.
LEMMA HandlesLost ==
  ASSUME RegistryInv,
         phase' \in [Ids -> Phases], by' \in [Ids -> Threads],
         tab' \in [Keys -> Ids \cup {None}], input' \in [Ids -> Ids \cup {None}],
         UNCHANGED <<map, serial, key, worker, stop, dir, gui, burial>>,
         \A j \in Ids :
           \/ phase'[j] = phase[j]
           \/ phase[j] = "held" /\ phase'[j] = "unheld" /\ ~HandleLeft(j, tab, input, gui.got)',
         \A j \in Ids : HandleLeft(j, tab, input, gui.got)' => HandleLeft(j, tab, input, gui.got)
  PROVE  RegistryInv'
<1> USE DEF RegistryInv, RegistryShape
<1>1. RegistryTypeOK' BY DEF RegistryTypeOK, burial
<1>2. Lists' /\ Unacquired' BY DEF Lists, Unacquired, RegistryTypeOK, burial
<1>3. RetiredAreWatched' BY DEF RetiredAreWatched, burial
<1>4. ReaperExists' /\ HeldHasDir' /\ OpensAKey' /\ BurialIsSafe'
  BY DEF ReaperExists, OpensAKey, HeldHasDir, BurialIsSafe, burial
<1>5. HeldIsAlive' BY DEF HeldIsAlive, burial
<1> QED BY <1>1, <1>2, <1>3, <1>4, <1>5

\* A tab is closed: it lets go of its spool on the application thread.
LEMMA CloseStep ==
  ASSUME RegistryInv, NEW k \in Keys, Close(k)
  PROVE  RegistryInv'
<1> DEFINE x == tab[k]
<1>1. RegistryTypeOK /\ HeldIsAlive BY DEF RegistryInv, RegistryShape
<1>2. /\ x \in Ids /\ phase[x] = "held"
      /\ tab' = [tab EXCEPT ![k] = None] /\ UNCHANGED input
      /\ LetGo(x, Gui, tab', input')
      /\ UNCHANGED <<map, serial, key, worker, stop, dir, gui, burial>>
  BY <1>1, NoneIsNoId DEF Close, RegistryTypeOK, HeldIsAlive, HandleLeft
<1> HIDE DEF x
<1>3. tab' \in [Keys -> Ids \cup {None}] /\ input' \in [Ids -> Ids \cup {None}]
  BY <1>1, <1>2 DEF RegistryTypeOK
<1>4. /\ phase' \in [Ids -> Phases] /\ by' \in [Ids -> Threads]
      /\ \A j \in Ids :
           \/ phase'[j] = phase[j]
           \/ j = x /\ phase'[j] = "unheld" /\ ~HandleLeft(j, tab', input', gui.got)
  BY <1>1, <1>2, NoneIsNoId, LetGoPhases
<1>5. \A j \in Ids : HandleLeft(j, tab, input, gui.got)' => HandleLeft(j, tab, input, gui.got)
  BY <1>1, <1>2, NoneIsNoId DEF HandleLeft, RegistryTypeOK
<1>6. \A j \in Ids : HandleLeft(j, tab, input, gui.got)' <=> HandleLeft(j, tab', input', gui.got)
  BY <1>2 DEF HandleLeft
<1> QED BY <1>2, <1>3, <1>4, <1>5, <1>6, HandlesLost

\* A worker has read its container and lets go of it on its own thread.
LEMMA DropInputStep ==
  ASSUME RegistryInv, NEW i \in Ids, DropInput(i)
  PROVE  RegistryInv'
<1> DEFINE x == input[i]
<1>1. RegistryTypeOK /\ HeldIsAlive BY DEF RegistryInv, RegistryShape
<1>2. /\ x \in Ids /\ phase[x] = "held"
      /\ input' = [input EXCEPT ![i] = None] /\ UNCHANGED tab
      /\ LetGo(x, i, tab', input')
      /\ UNCHANGED <<map, serial, key, worker, stop, dir, gui, burial>>
  BY <1>1, NoneIsNoId DEF DropInput, RegistryTypeOK, HeldIsAlive, HandleLeft
<1> HIDE DEF x
<1>3. tab' \in [Keys -> Ids \cup {None}] /\ input' \in [Ids -> Ids \cup {None}]
  BY <1>1, <1>2 DEF RegistryTypeOK
<1>4. /\ phase' \in [Ids -> Phases] /\ by' \in [Ids -> Threads]
      /\ \A j \in Ids :
           \/ phase'[j] = phase[j]
           \/ j = x /\ phase'[j] = "unheld" /\ ~HandleLeft(j, tab', input', gui.got)
  BY <1>1, <1>2, NoneIsNoId, LetGoPhases
<1>5. \A j \in Ids : HandleLeft(j, tab, input, gui.got)' => HandleLeft(j, tab, input, gui.got)
  BY <1>1, <1>2, NoneIsNoId DEF HandleLeft, RegistryTypeOK
<1>6. \A j \in Ids : HandleLeft(j, tab, input, gui.got)' <=> HandleLeft(j, tab', input', gui.got)
  BY <1>2 DEF HandleLeft
<1> QED BY <1>2, <1>3, <1>4, <1>5, <1>6, HandlesLost

\* A fetcher that is destroyed: asked and stopped at once, or taken off the list.
\* Its spool is held by nobody.
LEMMA DestroyStep ==
  ASSUME RegistryInv, NEW i \in Ids, NEW t \in Threads, MayDestroy(i), Destroy(i, t),
         phase[i] \in {"asked", "retired"}, i \notin retired, i \notin still,
         pending' = pending \ {i},
         UNCHANGED <<map, serial, key, worker, stop, tab, gui, retired, still, posting,
                     armed, armQueued, reaper>>
  PROVE  RegistryInv'
<1>1. RegistryTypeOK /\ HeldIsAlive BY DEF RegistryInv, RegistryShape
<1>2. /\ phase' \in [Ids -> Phases] /\ by' \in [Ids -> Threads]
      /\ input' = [input EXCEPT ![i] = None] /\ dir' = [dir EXCEPT ![i] = FALSE]
      /\ phase'[i] = "gone"
      /\ \A j \in Ids : j # i =>
           \/ phase'[j] = phase[j]
           \/ /\ j = input[i] /\ phase'[j] = "unheld"
              /\ ~HandleLeft(j, tab, input', gui.got)
  BY <1>1, DestroyPhases
<1>3. /\ \A j \in Ids : j = input[i] => phase[j] = "held"
      /\ ~HandleLeft(i, tab, input, gui.got)
  BY <1>1 DEF HeldIsAlive, HandleLeft
<1>4. \A j \in Ids : HandleLeft(j, tab, input', gui.got) => HandleLeft(j, tab, input, gui.got)
  <2>1. \A j, m \in Ids : input'[m] = j => input[m] = j
    BY <1>1, <1>2, NoneIsNoId DEF RegistryTypeOK
  <2> QED BY <2>1 DEF HandleLeft
<1>5. \A j \in Ids : HandleLeft(j, tab, input, gui.got)' <=> HandleLeft(j, tab, input', gui.got)
  BY <1>2 DEF HandleLeft
<1>6. worker[i] = "stopped" BY DEF MayDestroy
<1> USE DEF RegistryInv, RegistryShape
<1>7. RegistryTypeOK' BY <1>1, <1>2 DEF RegistryTypeOK
<1>8. Lists' BY <1>2, <1>3 DEF Lists, RegistryTypeOK
<1>9. Unacquired' BY <1>2, <1>3, <1>6 DEF Unacquired
<1>10. RetiredAreWatched' BY <1>2 DEF RetiredAreWatched
<1>11. ReaperExists' /\ HeldHasDir' /\ OpensAKey' /\ BurialIsSafe'
  <2>1. ReaperExists' /\ OpensAKey' BY <1>1, <1>2, <1>3 DEF ReaperExists, OpensAKey
  <2>2. HeldHasDir' BY <1>1, <1>2 DEF HeldHasDir, RegistryTypeOK
  <2>3. BurialIsSafe' BY <1>1, <1>2, <1>3, <1>6 DEF BurialIsSafe, RegistryTypeOK
  <2> QED BY <2>1, <2>2, <2>3
<1>12. HeldIsAlive' BY <1>1, <1>2, <1>3, <1>4, <1>5 DEF HeldIsAlive, RegistryTypeOK
<1> QED BY <1>7, <1>8, <1>9, <1>10, <1>11, <1>12

\* A step that touches neither handles, nor phases, nor directories, nor what the
\* reaper has: only where the application thread stands, or an entry, changes.
LEMMA QuietStep ==
  ASSUME RegistryInv,
         map' \in [Keys -> Ids \cup {None}], stop' \in [Ids -> BOOLEAN],
         UNCHANGED <<serial, key, phase, by, worker, dir, input, tab, gui, burial>>
  PROVE  RegistryInv'
<1> USE DEF RegistryInv, RegistryShape, burial
<1>1. RegistryTypeOK' /\ Lists' /\ Unacquired' BY DEF RegistryTypeOK, Lists, Unacquired
<1>2. ReaperExists' /\ HeldHasDir' /\ OpensAKey'
  BY DEF ReaperExists, HeldHasDir, OpensAKey
<1>3. HeldIsAlive' /\ BurialIsSafe' /\ RetiredAreWatched'
  BY DEF HeldIsAlive, HandleLeft, BurialIsSafe, RetiredAreWatched
<1> QED BY <1>1, <1>2, <1>3

\* An open begins, or fails before anything was entered for it.
LEMMA OpenStep ==
  ASSUME RegistryInv, NEW k \in Keys, Open(k) \/ OpenFails
  PROVE  RegistryInv'
<1> USE DEF RegistryInv, RegistryShape, burial
<1>1. /\ UNCHANGED <<map, serial, key, phase, by, worker, stop, dir, input, tab, burial>>
      /\ gui.at \in {"idle", "insertInput", "insert"}
  BY DEF Open, OpenFails, GuiAt, spools
<1>2. /\ gui' \in [at : {"idle", "find"}, want : Keys \cup {NoKey}, got : {None}]
      /\ gui'.at \in {"idle", "find"} /\ gui'.got = None
      /\ gui'.at = "find" => gui'.want \in Keys
  <2>1. CASE Open(k) BY <2>1 DEF Open
  <2>2. CASE OpenFails BY <2>2 DEF OpenFails, AtRest
  <2> QED BY <2>1, <2>2
<1>3. RegistryTypeOK' BY <1>1, <1>2 DEF RegistryTypeOK
<1>4. Lists' /\ Unacquired' /\ OpensAKey' BY <1>1, <1>2 DEF Lists, Unacquired, OpensAKey
<1>5. ReaperExists' /\ HeldHasDir' /\ BurialIsSafe' /\ RetiredAreWatched'
  BY <1>1, <1>2 DEF ReaperExists, HeldHasDir, BurialIsSafe, RetiredAreWatched
<1>6. HeldIsAlive' BY <1>1, <1>2, NoneIsNoId DEF HeldIsAlive, HandleLeft
<1> QED BY <1>3, <1>4, <1>5, <1>6

\* Both look-ups: what they find becomes a tab's or the new fetcher's, and it is held.
LEMMA FindStep ==
  ASSUME RegistryInv, Find
  PROVE  RegistryInv'
<1> USE DEF RegistryInv, RegistryShape, burial
<1> DEFINE k == gui.want
<1>1. /\ k \in Keys /\ gui.at = "find"
      /\ UNCHANGED <<map, serial, key, phase, by, worker, stop, dir, input, burial>>
  BY DEF Find, GuiAt, OpensAKey
<1>2. CASE Finds(k)
  <2>1. map[k] \in Ids /\ phase[map[k]] = "held" BY <1>1, <1>2, FindsHeld
  <2>2. tab' = [tab EXCEPT ![k] = map[k]] /\ gui' = AtRest BY <1>2 DEF Find
  <2> HIDE DEF k
  <2>3. RegistryTypeOK' /\ Lists' /\ Unacquired' /\ OpensAKey'
    BY <1>1, <2>1, <2>2 DEF RegistryTypeOK, Lists, Unacquired, OpensAKey, AtRest
  <2>4. ReaperExists' /\ HeldHasDir' /\ BurialIsSafe' /\ RetiredAreWatched'
    BY <1>1, <2>2 DEF ReaperExists, HeldHasDir, BurialIsSafe, RetiredAreWatched, AtRest
  <2>5. \A i \in Ids : HandleLeft(i, tab, input, gui.got)' =>
                         i = map[k] \/ HandleLeft(i, tab, input, gui.got)
    BY <1>1, <2>2, NoneIsNoId DEF HandleLeft, AtRest, RegistryTypeOK
  <2>6. HeldIsAlive' BY <1>1, <2>1, <2>2, <2>5 DEF HeldIsAlive, HeldHasDir, AtRest
  <2> QED BY <2>3, <2>4, <2>6
<1>3. CASE ~Finds(k)
  <2>1. /\ UNCHANGED tab
        /\ gui' = [gui EXCEPT !.at = IF Input[k] = NoKey THEN "insert" ELSE "findInput"]
    BY <1>3 DEF Find
  <2>2. /\ gui'.at \in {"insert", "findInput"}
        /\ gui'.at = "findInput" => Input[k] \in Keys
        /\ gui'.want = k /\ gui'.got = gui.got
        /\ gui' = [at |-> gui'.at, want |-> k, got |-> gui.got]
    BY <1>1, <2>1, RegistryAssumption DEF RegistryTypeOK
  <2> HIDE DEF k
  <2>3. RegistryTypeOK' /\ Lists' /\ Unacquired' /\ OpensAKey'
    BY <1>1, <2>1, <2>2 DEF RegistryTypeOK, Lists, Unacquired, OpensAKey
  <2>4. ReaperExists' /\ HeldHasDir' /\ BurialIsSafe' /\ RetiredAreWatched'
    BY <1>1, <2>2 DEF ReaperExists, HeldHasDir, BurialIsSafe, RetiredAreWatched
  <2>5. HeldIsAlive' BY <1>1, <2>1, <2>2 DEF HeldIsAlive, HandleLeft
  <2> QED BY <2>3, <2>4, <2>5
<1> QED BY <1>2, <1>3

\* The look-up of the container: the open holds what it finds.
LEMMA FindInputStep ==
  ASSUME RegistryInv, FindInput
  PROVE  RegistryInv'
<1> USE DEF RegistryInv, RegistryShape, burial
<1> DEFINE k == Input[gui.want]
<1>1. /\ k \in Keys /\ gui.want \in Keys /\ gui.at = "findInput"
      /\ UNCHANGED <<map, serial, key, phase, by, worker, stop, dir, input, tab, burial>>
  BY DEF FindInput, GuiAt, OpensAKey, spools
<1>2. \/ Finds(k) /\ gui' = [gui EXCEPT !.at = "insert", !.got = map[k]]
      \/ gui' = [gui EXCEPT !.at = "insertInput"]
  BY DEF FindInput
<1> HIDE DEF k
<1>3. /\ gui' \in [at : {"insert", "insertInput"}, want : Keys, got : Ids \cup {None}]
      /\ gui'.at \in {"insert", "insertInput"} /\ gui'.want = gui.want
      /\ \/ gui'.got = gui.got
         \/ gui'.got \in Ids /\ phase[gui'.got] = "held"
  <2>1. gui = [at |-> gui.at, want |-> gui.want, got |-> gui.got] BY DEF RegistryTypeOK
  <2>2. gui.got \in Ids \cup {None} /\ RegistryTypeOK BY DEF RegistryTypeOK
  <2>3. Finds(k) => map[k] \in Ids /\ phase[map[k]] = "held" BY <1>1, <2>2, FindsHeld
  <2>4. CASE Finds(k) /\ gui' = [gui EXCEPT !.at = "insert", !.got = map[k]]
    <3>1. gui' = [at |-> "insert", want |-> gui.want, got |-> map[k]] BY <2>1, <2>4
    <3> QED BY <1>1, <2>3, <2>4, <3>1
  <2>5. CASE gui' = [gui EXCEPT !.at = "insertInput"]
    <3>1. gui' = [at |-> "insertInput", want |-> gui.want, got |-> gui.got] BY <2>1, <2>5
    <3> QED BY <1>1, <2>2, <3>1
  <2> QED BY <1>2, <2>4, <2>5
<1>4. RegistryTypeOK' /\ Lists' /\ Unacquired'
  BY <1>1, <1>3 DEF RegistryTypeOK, Lists, Unacquired
<1>5. OpensAKey' BY <1>1, <1>3 DEF OpensAKey, k
<1>6. ReaperExists' /\ HeldHasDir' /\ BurialIsSafe' /\ RetiredAreWatched'
  BY <1>1, <1>3 DEF ReaperExists, HeldHasDir, BurialIsSafe, RetiredAreWatched
<1>7. HeldIsAlive' BY <1>1, <1>3, NoneIsNoId DEF HeldIsAlive, HeldHasDir, HandleLeft
<1> QED BY <1>4, <1>5, <1>6, <1>7

\* A spool that is created: its id was nobody's, and nothing is said of another one.
LEMMA CreateFacts ==
  ASSUME RegistryInv, NEW k \in Keys, NEW in \in Ids \cup {None}, Create(k, in)
  PROVE  /\ serial' = serial + 1 /\ serial' \in Ids /\ serial' \in 0 .. MaxSerial
         /\ phase[serial'] = "none"
         /\ map' \in [Keys -> Ids \cup {None}] /\ key' \in [Ids -> Keys \cup {NoKey}]
         /\ phase' = [phase EXCEPT ![serial'] = "held"]
         /\ worker' = [worker EXCEPT ![serial'] = "running"]
         /\ dir' = [dir EXCEPT ![serial'] = TRUE]
         /\ input' = [input EXCEPT ![serial'] = in]
         /\ reaper' = TRUE
         /\ \A i \in Ids : i > serial' => i > serial /\ i # serial'
<1> USE DEF RegistryInv, RegistryShape
<1>1. /\ serial < MaxSerial /\ serial' = serial + 1 /\ serial \in Nat /\ MaxSerial \in Nat
      /\ Ids \subseteq Nat
  <2>1. serial < MaxSerial /\ serial' = serial + 1 BY DEF Create
  <2>2. serial \in 0 .. MaxSerial BY DEF RegistryTypeOK
  <2>3. Ids \subseteq Nat /\ MaxSerial \in Nat BY RegistryAssumption DEF Ids
  <2> QED BY <2>1, <2>2, <2>3
<1>2. serial' \in Ids /\ serial' \in 0 .. MaxSerial /\ serial' > serial BY <1>1 DEF Ids
<1>3. phase[serial'] = "none" BY <1>2 DEF Unacquired
<1>4. map' \in [Keys -> Ids \cup {None}] /\ key' \in [Ids -> Keys \cup {NoKey}]
  BY <1>2 DEF Create, RegistryTypeOK
<1>5. \A i \in Ids : i > serial' => i > serial /\ i # serial' BY <1>1
<1> QED BY <1>1, <1>2, <1>3, <1>4, <1>5 DEF Create

\* A spool is created, and its handle goes to the open that asked for it.
LEMMA CreateStep ==
  ASSUME RegistryInv, NEW k \in Keys, NEW in \in Ids \cup {None}, Create(k, in),
         in # None => in = gui.got,
         UNCHANGED <<by, stop, retired, pending, still, posting, armed, armQueued>>,
         tab' \in [Keys -> Ids \cup {None}],
         \A i \in Ids, l \in Keys : tab'[l] = i => i = serial' \/ tab[l] = i,
         gui' \in [at : {"idle", "insert"}, want : Keys \cup {NoKey},
                   got : Ids \cup {None}],
         gui'.at \in {"idle", "insert"}, gui'.at = "insert" => gui'.want \in Keys,
         gui'.got \in {None, serial'},
         gui.at \in {"insert", "insertInput"}
  PROVE  RegistryInv'
<1> DEFINE new == serial'
<1>1. /\ new = serial + 1 /\ new \in Ids /\ new \in 0 .. MaxSerial
      /\ phase[new] = "none"
      /\ map' \in [Keys -> Ids \cup {None}] /\ key' \in [Ids -> Keys \cup {NoKey}]
      /\ phase' = [phase EXCEPT ![new] = "held"]
      /\ worker' = [worker EXCEPT ![new] = "running"]
      /\ dir' = [dir EXCEPT ![new] = TRUE]
      /\ input' = [input EXCEPT ![new] = in]
      /\ reaper' = TRUE
      /\ \A i \in Ids : i > new => i > serial /\ i # new
  BY CreateFacts
<1> USE DEF RegistryInv, RegistryShape
<1>2. RegistryTypeOK' BY <1>1 DEF RegistryTypeOK, Phases
<1>3. Lists' BY <1>1 DEF Lists, RegistryTypeOK
<1>4. Unacquired' /\ ReaperExists' /\ OpensAKey'
  BY <1>1 DEF Unacquired, ReaperExists, OpensAKey, RegistryTypeOK
<1>5. HeldHasDir' /\ BurialIsSafe' BY <1>1 DEF HeldHasDir, BurialIsSafe, RegistryTypeOK
<1>6. RetiredAreWatched' BY DEF RetiredAreWatched
<1>7. \A i \in Ids : HandleLeft(i, tab, input, gui.got)' =>
                       i = new \/ HandleLeft(i, tab, input, gui.got)
  <2>1. \A i, j \in Ids : input'[j] = i => input[j] = i \/ gui.got = i
    BY <1>1, NoneIsNoId DEF RegistryTypeOK
  <2>2. \A i \in Ids : gui'.got = i => i = new BY NoneIsNoId
  <2>3. SUFFICES ASSUME NEW i \in Ids, HandleLeft(i, tab, input, gui.got)', i # new
                 PROVE  HandleLeft(i, tab, input, gui.got)
    OBVIOUS
  <2>4. CASE \E l \in Keys : tab'[l] = i
    <3>1. PICK l \in Keys : tab'[l] = i BY <2>4
    <3>2. tab[l] = i BY <2>3, <3>1
    <3> QED BY <3>2 DEF HandleLeft
  <2>5. CASE \E j \in Ids : input'[j] = i BY <2>1, <2>5 DEF HandleLeft
  <2> QED BY <2>2, <2>3, <2>4, <2>5 DEF HandleLeft
<1>8. HeldIsAlive'
  <2> SUFFICES ASSUME NEW i \in Ids, HandleLeft(i, tab, input, gui.got)'
               PROVE  phase'[i] = "held" /\ (dir'[i] \/ gui'.at = "exit")
    BY DEF HeldIsAlive
  <2>1. CASE i = new BY <1>1, <2>1 DEF RegistryTypeOK
  <2>2. CASE i # new
    <3>1. phase[i] = "held" /\ (dir[i] \/ gui.at = "exit") BY <1>7, <2>2 DEF HeldIsAlive
    <3> QED BY <1>1, <2>2, <3>1 DEF RegistryTypeOK
  <2> QED BY <2>1, <2>2
<1> QED BY <1>2, <1>3, <1>4, <1>5, <1>6, <1>8

\* The container is created for the open, which holds it from then on.
LEMMA InsertInputStep ==
  ASSUME RegistryInv, InsertInput
  PROVE  RegistryInv'
<1>1. /\ RegistryTypeOK /\ gui.at = "insertInput"
      /\ gui.want \in Keys /\ Input[gui.want] \in Keys
      /\ Create(Input[gui.want], None)
  BY DEF RegistryInv, RegistryShape, OpensAKey, InsertInput, GuiAt
<1>2. serial' \in Ids BY <1>1, CreateFacts
<1>3. gui' = [at |-> "insert", want |-> gui.want, got |-> serial']
  BY <1>1 DEF InsertInput, RegistryTypeOK
<1>4. /\ tab' \in [Keys -> Ids \cup {None}] /\ UNCHANGED tab
      /\ UNCHANGED <<by, stop, retired, pending, still, posting, armed, armQueued>>
  BY <1>1 DEF InsertInput, RegistryTypeOK
<1> QED BY <1>1, <1>2, <1>3, <1>4, CreateStep

\* The log itself is created: the tab holds it, and its fetcher the container.
LEMMA InsertStep ==
  ASSUME RegistryInv, Insert
  PROVE  RegistryInv'
<1>1. /\ RegistryTypeOK /\ gui.at = "insert" /\ gui.want \in Keys
      /\ gui.got \in Ids \cup {None} /\ Create(gui.want, gui.got)
  BY DEF RegistryInv, RegistryShape, RegistryTypeOK, OpensAKey, Insert, GuiAt
<1>2. serial' \in Ids BY <1>1, CreateFacts
<1>3. gui' = [at |-> "idle", want |-> NoKey, got |-> None] BY DEF Insert, AtRest
<1>4. /\ tab' = [tab EXCEPT ![gui.want] = serial']
      /\ UNCHANGED <<by, stop, retired, pending, still, posting, armed, armQueued>>
  BY DEF Insert
<1>5. /\ tab' \in [Keys -> Ids \cup {None}]
      /\ \A i \in Ids, l \in Keys : tab'[l] = i => i = serial' \/ tab[l] = i
  BY <1>1, <1>2, <1>4 DEF RegistryTypeOK
<1> QED BY <1>1, <1>2, <1>3, <1>4, <1>5, CreateStep

\* The steps of a teardown that touch no list: out of the map, and asked to stop.
LEMMA UnhookStep ==
  ASSUME RegistryInv, NEW i \in Ids, Forget(i) \/ AskStop(i)
  PROVE  RegistryInv'
<1> USE DEF RegistryInv, RegistryShape, burial
<1>1. /\ phase[i] \in {"unheld", "forgotten"}
      /\ \E p \in {"forgotten", "asked"} : phase' = [phase EXCEPT ![i] = p]
      /\ map' \in [Keys -> Ids \cup {None}] /\ stop' \in [Ids -> BOOLEAN]
      /\ UNCHANGED <<serial, key, by, worker, dir, input, tab, gui, burial>>
  <2>1. CASE Forget(i) BY <2>1 DEF Forget, RegistryTypeOK
  <2>2. CASE AskStop(i) BY <2>2 DEF AskStop, RegistryTypeOK
  <2> QED BY <2>1, <2>2
<1>2. RegistryTypeOK' /\ Lists' /\ Unacquired'
  <2>1. RegistryTypeOK'
    <3>1. phase' \in [Ids -> Phases] BY <1>1 DEF RegistryTypeOK, Phases
    <3> QED BY <1>1, <3>1 DEF RegistryTypeOK
  <2>2. Lists' /\ Unacquired' BY <1>1 DEF RegistryTypeOK, Lists, Unacquired
  <2> QED BY <2>1, <2>2
<1>3. ReaperExists' /\ HeldHasDir' /\ OpensAKey'
  BY <1>1 DEF ReaperExists, HeldHasDir, OpensAKey, RegistryTypeOK
<1>4. HeldIsAlive' /\ BurialIsSafe' /\ RetiredAreWatched'
  BY <1>1 DEF HeldIsAlive, HandleLeft, BurialIsSafe, RetiredAreWatched, RegistryTypeOK
<1> QED BY <1>2, <1>3, <1>4

\* A teardown that finds its worker still running puts the fetcher on the list, and
\* its thread owes the reaper an event, or there is no reaper any more.
LEMMA RetireStep ==
  ASSUME RegistryInv, NEW i \in Ids, Retire(i)
  PROVE  RegistryInv'
<1> USE DEF RegistryInv, RegistryShape
<1>1. /\ phase[i] = "asked" /\ by[i] \in Threads
      /\ i \notin retired /\ i \notin pending /\ i \notin still
      /\ UNCHANGED <<map, serial, key, worker, stop, tab, gui, pending, still, armed,
                     armQueued, reaper>>
  BY DEF Retire, Lists, RegistryTypeOK
<1>2. CASE MayDestroy(i)
  <2>1. Destroy(i, by[i]) /\ UNCHANGED <<retired, posting>> BY <1>2 DEF Retire
  <2>2. pending' = pending \ {i} BY <1>1
  <2> QED BY <1>1, <1>2, <2>1, <2>2, DestroyStep
<1>3. CASE ~MayDestroy(i)
  <2>1. /\ phase' = [phase EXCEPT ![i] = "retired"] /\ retired' = retired \cup {i}
        /\ posting' = IF reaper THEN posting \cup {by[i]} ELSE posting
        /\ UNCHANGED <<input, dir, by>>
    BY <1>3 DEF Retire
  <2>2. RegistryTypeOK' /\ Lists' /\ Unacquired'
    <3>1. RegistryTypeOK' BY <1>1, <2>1 DEF RegistryTypeOK, Phases
    <3>2. Lists'
      <4>1. \A j \in Ids : phase'[j] = IF j = i THEN "retired" ELSE phase[j]
        BY <2>1 DEF RegistryTypeOK
      <4>2. /\ retired \cup pending \cup still \subseteq Ids
            /\ retired' = retired \cup {i} /\ pending' = pending /\ still' = still
        BY <1>1, <2>1 DEF RegistryTypeOK
      <4> QED BY <1>1, <4>1, <4>2 DEF Lists
    <3>3. Unacquired' BY <1>1, <2>1 DEF RegistryTypeOK, Unacquired
    <3> QED BY <3>1, <3>2, <3>3
  <2>3. ReaperExists' /\ HeldHasDir' /\ OpensAKey'
    BY <1>1, <2>1 DEF ReaperExists, HeldHasDir, OpensAKey, RegistryTypeOK
  <2>4. HeldIsAlive' /\ BurialIsSafe'
    BY <1>1, <2>1 DEF HeldIsAlive, HandleLeft, BurialIsSafe, RegistryTypeOK
  <2>5. RetiredAreWatched' BY <1>1, <2>1 DEF RetiredAreWatched, ReaperExists
  <2> QED BY <2>2, <2>3, <2>4, <2>5
<1> QED BY <1>2, <1>3

\* A fetcher taken off the list: destroyed, or kept for the next look.
LEMMA ExamineStep ==
  ASSUME RegistryInv, NEW i \in Ids, Examine(i)
  PROVE  RegistryInv'
<1> USE DEF RegistryInv, RegistryShape
<1>1. /\ phase[i] = "retired" /\ i \notin retired /\ i \notin still
      /\ i \in pending /\ pending' = pending \ {i}
      /\ UNCHANGED <<map, serial, key, worker, stop, tab, gui, retired, posting, armed,
                     armQueued, reaper>>
  BY DEF Examine, Lists
<1>2. CASE MayDestroy(i)
  <2>1. Destroy(i, Gui) /\ UNCHANGED still BY <1>2 DEF Examine
  <2> QED BY <1>1, <1>2, <2>1, DestroyStep, NoneIsNoId
<1>3. CASE ~MayDestroy(i)
  <2>1. still' = still \cup {i} /\ UNCHANGED <<input, dir, phase, by>> BY <1>3 DEF Examine
  <2>2. RegistryTypeOK' /\ Lists' /\ Unacquired'
    <3>1. RegistryTypeOK' BY <1>1, <2>1 DEF RegistryTypeOK
    <3>2. Lists' /\ Unacquired' BY <1>1, <2>1 DEF Lists, Unacquired
    <3> QED BY <3>1, <3>2
  <2>3. ReaperExists' /\ HeldHasDir' /\ OpensAKey'
    BY <1>1, <2>1 DEF ReaperExists, HeldHasDir, OpensAKey
  <2>4. HeldIsAlive' /\ BurialIsSafe' /\ RetiredAreWatched'
    BY <1>1, <2>1 DEF HeldIsAlive, HandleLeft, BurialIsSafe, RetiredAreWatched
  <2> QED BY <2>2, <2>3, <2>4
<1> QED BY <1>2, <1>3

\* A worker ends.
LEMMA WorkerEndsStep ==
  ASSUME RegistryInv, NEW i \in Ids, WorkerEnds(i)
  PROVE  RegistryInv'
<1> USE DEF RegistryInv, RegistryShape, burial
<1>1. /\ worker[i] = "running" /\ worker' = [worker EXCEPT ![i] = "stopped"]
      /\ UNCHANGED <<map, serial, key, phase, by, stop, dir, input, tab, gui, burial>>
  BY DEF WorkerEnds
<1>2. RegistryTypeOK' /\ Lists' /\ Unacquired'
  BY <1>1 DEF RegistryTypeOK, Lists, Unacquired
<1>3. ReaperExists' /\ HeldHasDir' /\ OpensAKey'
  BY <1>1 DEF ReaperExists, HeldHasDir, OpensAKey
<1>4. HeldIsAlive' /\ BurialIsSafe' /\ RetiredAreWatched'
  BY <1>1 DEF HeldIsAlive, HandleLeft, BurialIsSafe, RetiredAreWatched, RegistryTypeOK
<1> QED BY <1>2, <1>3, <1>4

\* The reaper's events and timer, and the collection's two ends: what was pushed
\* meanwhile keeps its event, and what still runs keeps the timer.
LEMMA ReaperStep ==
  ASSUME RegistryInv, Arm \/ Collect \/ CollectEnd \/ DrainEnd
                      \/ (\E t \in Threads : Post(t))
  PROVE  RegistryInv'
<1> USE DEF RegistryInv, RegistryShape
<1>1. /\ UNCHANGED <<map, serial, key, phase, by, worker, stop, dir, input, tab, reaper>>
      /\ posting' \subseteq posting
      /\ armed' \in BOOLEAN /\ armQueued' \in BOOLEAN
  BY DEF Arm, Collect, CollectEnd, DrainEnd, Post, spools, RegistryTypeOK
<1>2. /\ gui' \in [at : {"idle", "find", "findInput", "insertInput", "insert", "collect",
                         "drain", "drainCollect", "abandon", "reset", "exit"},
                   want : Keys \cup {NoKey}, got : Ids \cup {None}]
      /\ gui'.got \in {gui.got, None}
      /\ \/ gui' = gui
         \/ /\ gui'.at \in {"idle", "collect", "drain", "drainCollect", "abandon"}
            /\ gui.at # "exit"
  <2>1. CASE Arm \/ \E t \in Threads : Post(t) BY <2>1 DEF Arm, Post, RegistryTypeOK
  <2>2. CASE Collect BY <2>2 DEF Collect, GuiAt, RegistryTypeOK
  <2>3. CASE CollectEnd BY <2>3 DEF CollectEnd, GuiAt, AtRest
  <2>4. CASE DrainEnd BY <2>4 DEF DrainEnd, GuiAt, RegistryTypeOK
  <2> QED BY <2>1, <2>2, <2>3, <2>4
<1>3. /\ retired' \cup pending' \cup still' \subseteq retired \cup pending \cup still
      /\ retired' \cap pending' = {} /\ retired' \cap still' = {} /\ pending' \cap still' = {}
  BY DEF Arm, Collect, CollectEnd, DrainEnd, Post, LeftOnList, Lists
<1>4. RegistryTypeOK' BY <1>1, <1>2, <1>3 DEF RegistryTypeOK
<1>5. Lists' /\ Unacquired' /\ ReaperExists' /\ HeldHasDir' /\ OpensAKey'
  BY <1>1, <1>2, <1>3 DEF Lists, Unacquired, ReaperExists, HeldHasDir, OpensAKey
<1>6. HeldIsAlive' /\ BurialIsSafe'
  BY <1>1, <1>2, NoneIsNoId DEF HeldIsAlive, HandleLeft, BurialIsSafe
<1>7. RetiredAreWatched'
  <2>1. CASE Arm BY <2>1 DEF Arm, GuiAt, RetiredAreWatched
  <2>2. CASE Collect BY <2>2 DEF Collect, LeftOnList, RetiredAreWatched
  <2>3. CASE CollectEnd BY <2>3 DEF CollectEnd, GuiAt, AtRest, RetiredAreWatched
  <2>4. CASE DrainEnd
    <3>1. gui'.at \in {"drain", "abandon"} BY <2>4 DEF DrainEnd, RegistryTypeOK
    <3> QED BY <3>1 DEF RetiredAreWatched
  <2>5. CASE \E t \in Threads : Post(t) BY <2>5 DEF Post, Posts, RetiredAreWatched
  <2> QED BY <2>1, <2>2, <2>3, <2>4, <2>5
<1> QED BY <1>4, <1>5, <1>6, <1>7

\* The shutdown: the map goes, then the list, then the reaper and every directory.
LEMMA ShutdownStep ==
  ASSUME RegistryInv, Shutdown \/ Abandon \/ Reset
  PROVE  RegistryInv'
<1> USE DEF RegistryInv, RegistryShape
<1>1. /\ gui.at \in {"idle", "abandon", "reset"} /\ gui'.at \in {"drain", "reset", "exit"}
      /\ gui'.got = gui.got
      /\ gui' \in [at : {"drain", "reset", "exit"}, want : Keys \cup {NoKey},
                   got : Ids \cup {None}]
      /\ gui'.at = "exit" \/ UNCHANGED <<dir, reaper>>
  BY DEF Shutdown, Abandon, Reset, GuiAt, RegistryTypeOK, burial
<1>2. /\ phase' = [j \in Ids |-> IF j \in retired \ retired' THEN "abandoned" ELSE phase[j]]
      /\ retired' \subseteq retired
      /\ UNCHANGED <<serial, key, by, worker, stop, input, tab, pending, still, posting>>
  BY DEF Shutdown, Abandon, Reset, RegistryTypeOK, burial
<1>3. /\ map' \in [Keys -> Ids \cup {None}] /\ dir' \in [Ids -> BOOLEAN]
      /\ armed' \in BOOLEAN /\ armQueued' \in BOOLEAN /\ reaper' \in BOOLEAN
  BY DEF Shutdown, Abandon, Reset, RegistryTypeOK, burial
<1>4. RegistryTypeOK' BY <1>1, <1>2, <1>3 DEF RegistryTypeOK, Phases
<1>5. Lists' /\ Unacquired' /\ OpensAKey'
  BY <1>1, <1>2 DEF Lists, Unacquired, OpensAKey, RegistryTypeOK
<1>6. ReaperExists' /\ HeldHasDir' BY <1>1, <1>2 DEF ReaperExists, HeldHasDir, Lists
<1>7. HeldIsAlive' /\ BurialIsSafe' /\ RetiredAreWatched'
  <2>1. \A i \in Ids : phase[i] = "held" => phase'[i] = "held" BY <1>2 DEF Lists
  <2>2. \A i \in Ids : HandleLeft(i, tab, input, gui.got)' => HandleLeft(i, tab, input, gui.got)
    BY <1>1, <1>2 DEF HandleLeft
  <2>3. HeldIsAlive' BY <1>1, <2>1, <2>2 DEF HeldIsAlive
  <2>4. BurialIsSafe' BY <1>1, <1>2 DEF BurialIsSafe
  <2>5. RetiredAreWatched' BY <1>1 DEF RetiredAreWatched
  <2> QED BY <2>3, <2>4, <2>5
<1> QED BY <1>4, <1>5, <1>6, <1>7

------------------------------------------------------------------------------
\* An empty registry, before the first acquire(), satisfies the invariant.
LEMMA InitInv == RegistryInit => RegistryInv
<1> SUFFICES ASSUME RegistryInit PROVE RegistryInv OBVIOUS
<1> USE RegistryAssumption, NoneIsNoId
<1>1. serial \in 0 .. MaxSerial /\ \A i \in Ids : phase[i] = "none" /\ worker[i] = "none"
  BY DEF RegistryInit
<1>2. RegistryTypeOK BY <1>1 DEF RegistryInit, RegistryTypeOK, Phases, AtRest
<1>3. RegistryShape
  BY <1>1, <1>2 DEF RegistryInit, RegistryShape, Lists, Unacquired, ReaperExists,
                    HeldHasDir, OpensAKey, AtRest
<1>4. HeldIsAlive /\ BurialIsSafe /\ RetiredAreWatched
  BY <1>1 DEF RegistryInit, HeldIsAlive, HandleLeft, BurialIsSafe, RetiredAreWatched, AtRest
<1> QED BY <1>3, <1>4 DEF RegistryInv

\* Every step of the registry, on whichever thread, preserves it.
LEMMA NextInv == RegistryInv /\ [RegistryNext]_rvars => RegistryInv'
<1> SUFFICES ASSUME RegistryInv, [RegistryNext]_rvars PROVE RegistryInv' OBVIOUS
<1>1. ASSUME NEW k \in Keys, Open(k) \/ Close(k) \/ Cancel(k) PROVE RegistryInv'
  <2>1. CASE Cancel(k)
    <3>1. /\ map' \in [Keys -> Ids \cup {None}] /\ stop' \in [Ids -> BOOLEAN]
          /\ UNCHANGED <<serial, key, phase, by, worker, dir, input, tab, gui, burial>>
      BY <2>1 DEF Cancel, RegistryInv, RegistryShape, RegistryTypeOK
    <3> QED BY <3>1, QuietStep
  <2> QED BY <1>1, <2>1, OpenStep, CloseStep
<1>2. CASE Find \/ FindInput \/ InsertInput \/ Insert
  BY <1>2, FindStep, FindInputStep, InsertInputStep, InsertStep
<1>3. CASE OpenFails
  <2>1. gui.want \in Keys
    BY <1>3 DEF OpenFails, GuiAt, RegistryInv, RegistryShape, OpensAKey
  <2> QED BY <1>3, <2>1, OpenStep
<1>4. CASE Arm \/ Collect \/ CollectEnd \/ DrainEnd \/ (\E t \in Threads : Post(t))
  BY <1>4, ReaperStep
<1>5. CASE Shutdown \/ Abandon \/ Reset BY <1>5, ShutdownStep
<1>6. ASSUME NEW i \in Ids, DropInput(i) \/ WorkerEnds(i) \/ Teardown(i) \/ Examine(i)
      PROVE RegistryInv'
  BY <1>6, DropInputStep, WorkerEndsStep, UnhookStep, RetireStep, ExamineStep DEF Teardown
<1>7. CASE UNCHANGED rvars
  <2>1. /\ map' \in [Keys -> Ids \cup {None}] /\ stop' \in [Ids -> BOOLEAN]
        /\ UNCHANGED <<serial, key, phase, by, worker, dir, input, tab, gui, burial>>
    BY <1>7 DEF rvars, spools, RegistryInv, RegistryShape, RegistryTypeOK
  <2> QED BY <2>1, QuietStep
<1> QED BY <1>1, <1>2, <1>3, <1>4, <1>5, <1>6, <1>7 DEF RegistryNext, User, Acquire, Reap

\* In every run of the registry, with any number of logs and containers and any
\* interleaving of the application thread with the workers: a spool somebody holds is
\* alive with its directory, no fetcher is destroyed while its worker runs, and no
\* retired fetcher is left to a reaper that sleeps (acquire(), find(), retire(),
\* collectRetired(), drainRetired()).
THEOREM RegistrySafe == RegistrySpec => [](HeldIsAlive /\ BurialIsSafe /\ RetiredAreWatched)
<1>1. RegistryInv => HeldIsAlive /\ BurialIsSafe /\ RetiredAreWatched BY DEF RegistryInv
<1> QED BY <1>1, InitInv, NextInv, PTL DEF RegistrySpec

-----------------------------------------------------------------------------
(* The runs of a live log                                                  *)

\* The empty sequence adds nothing.
LEMMA JoinedToNothing == ASSUME NEW S, NEW s \in Seq(S) PROVE s \o <<>> = s
  OBVIOUS

\* A finite set of numbers in ascending order: each once, and none is left out.
LEMMA InOrderLists ==
  ASSUME NEW S \in SUBSET Nat, IsFiniteSet(S)
  PROVE  /\ Cardinality(S) \in Nat /\ InOrder(S) \in [1 .. Cardinality(S) -> S]
         /\ \A i, j \in 1 .. Cardinality(S) : i < j => InOrder(S)[i] < InOrder(S)[j]
         /\ \A x \in S : \E i \in 1 .. Cardinality(S) : InOrder(S)[i] = x
<1> DEFINE n == Cardinality(S)
           Upto(x) == {y \in S : y <= x}
           rank == [x \in S |-> Cardinality(Upto(x))]
<1>1. n \in Nat /\ IsFiniteSet(1 .. n) /\ Cardinality(1 .. n) = n
  BY FS_CardinalityType, FS_Interval
<1>2. \A x \in S : IsFiniteSet(Upto(x)) /\ Cardinality(Upto(x)) \in 1 .. n
  <2> SUFFICES ASSUME NEW x \in S
               PROVE  IsFiniteSet(Upto(x)) /\ Cardinality(Upto(x)) \in 1 .. n
    OBVIOUS
  <2>1. Upto(x) \in SUBSET S /\ x \in Upto(x) OBVIOUS
  <2> HIDE DEF Upto
  <2>2. IsFiniteSet(Upto(x)) /\ Cardinality(Upto(x)) <= n BY <2>1, FS_Subset
  <2>3. Cardinality(Upto(x)) \in Nat /\ Cardinality(Upto(x)) # 0
    BY <2>1, <2>2, FS_EmptySet, FS_CardinalityType
  <2> QED BY <1>1, <2>2, <2>3
<1>3. \A x, y \in S : x < y => Cardinality(Upto(x)) < Cardinality(Upto(y))
  <2> SUFFICES ASSUME NEW x \in S, NEW y \in S, x < y
               PROVE  Cardinality(Upto(x)) < Cardinality(Upto(y))
    OBVIOUS
  <2>1. Upto(x) \in SUBSET Upto(y) /\ Upto(x) # Upto(y)
    <3>1. y \in Upto(y) /\ y \notin Upto(x) OBVIOUS
    <3>2. \A z \in Upto(x) : z \in Upto(y) OBVIOUS
    <3> HIDE DEF Upto
    <3> QED BY <3>1, <3>2
  <2> HIDE DEF Upto
  <2> QED BY <1>1, <1>2, <2>1, FS_Subset
<1> HIDE DEF Upto
<1>4. rank \in [S -> 1 .. n] BY <1>2
<1>5. \A x, y \in S : rank[x] = rank[y] => x = y
  <2> SUFFICES ASSUME NEW x \in S, NEW y \in S, x # y PROVE rank[x] # rank[y] OBVIOUS
  <2>1. x < y \/ y < x OBVIOUS
  <2> QED BY <1>2, <1>3, <2>1
<1>6. rank \in Injection(S, 1 .. n) BY <1>4, <1>5 DEF Injection, IsInjective
<1>7. rank \in Surjection(S, 1 .. n) BY <1>1, <1>6, FS_Injection
<1>8. \A k \in 1 .. n : \E x \in S : rank[x] = k BY <1>7 DEF Surjection
<1>9. InOrder(S) = [k \in 1 .. n |-> CHOOSE x \in S : Cardinality(Upto(x)) = k]
  <2> DEFINE f == [k \in 1 .. n |-> CHOOSE x \in S : Cardinality(Upto(x)) = k]
  <2>1. \A k \in 1 .. n : \E x \in S : Cardinality(Upto(x)) = k BY <1>8
  <2>2. f \in [1 .. n -> S] BY <2>1
  <2>3. InOrder(S) = f \o <<>> BY DEF InOrder, Upto
  <2> HIDE DEF f, n
  <2>4. f \in Seq(S) BY <1>1, <2>2
  <2> QED BY <2>3, <2>4, JoinedToNothing DEF f
<1>10. \A k \in 1 .. n : InOrder(S)[k] \in S /\ Cardinality(Upto(InOrder(S)[k])) = k
  <2> SUFFICES ASSUME NEW k \in 1 .. n
               PROVE  InOrder(S)[k] \in S /\ Cardinality(Upto(InOrder(S)[k])) = k
    OBVIOUS
  <2>1. \E x \in S : Cardinality(Upto(x)) = k BY <1>8
  <2>2. InOrder(S)[k] = CHOOSE x \in S : Cardinality(Upto(x)) = k BY <1>9
  <2> QED BY <2>1, <2>2
<1>11. InOrder(S) \in [1 .. n -> S] BY <1>9, <1>10
<1>12. \A i, j \in 1 .. n : i < j => InOrder(S)[i] < InOrder(S)[j]
  <2> SUFFICES ASSUME NEW i \in 1 .. n, NEW j \in 1 .. n, i < j
               PROVE  InOrder(S)[i] < InOrder(S)[j]
    OBVIOUS
  <2>1. InOrder(S)[i] \in Nat /\ InOrder(S)[j] \in Nat BY <1>10
  <2>2. /\ Cardinality(Upto(InOrder(S)[i])) = i
        /\ Cardinality(Upto(InOrder(S)[j])) = j
    BY <1>10
  <2>3. ~(InOrder(S)[j] < InOrder(S)[i])
    <3>1. InOrder(S)[j] < InOrder(S)[i] => j < i BY <1>3, <1>10, <2>2
    <3> QED BY <3>1
  <2>4. InOrder(S)[j] # InOrder(S)[i] BY <2>2
  <2> QED BY <2>1, <2>3, <2>4
<1>13. \A x \in S : \E i \in 1 .. n : InOrder(S)[i] = x
  <2> SUFFICES ASSUME NEW x \in S
               PROVE  \E i \in 1 .. n : InOrder(S)[i] = x
    OBVIOUS
  <2> DEFINE k == Cardinality(Upto(x))
  <2>1. k \in 1 .. n /\ InOrder(S)[k] \in S /\ rank[InOrder(S)[k]] = rank[x]
    BY <1>2, <1>10
  <2> QED BY <1>5, <2>1
<1> QED BY <1>1, <1>11, <1>12, <1>13

\* What the parts of a record and of a run are.
RecordRecs == [from : Nat, len : Int, parsed : BOOLEAN, ok : BOOLEAN, shut : BOOLEAN]
RunRecs    == [row : Nat, from : Nat, preamble : BOOLEAN]
Fields == {"seen", "records", "sums", "runs", "selected", "follow", "bound", "filter",
           "view", "last", "digest", "memo"}

\* A line that starts a record which the minimum level lets through.
Error(lines, k) == lines[k].start /\ ~lines[k].low

\* A scan of the lines from `from` on: each record begins further down than the one
\* before it, and the first one where the scan began.
LEMMA ScanFinds ==
  ASSUME NEW lines \in Seq(Lines), NEW closed \in BOOLEAN, NEW from \in 1 .. Len(lines) + 1
  PROVE  LET r == Scan(lines, closed, from)
         IN /\ r \in Seq(RecordRecs)
            /\ from > Len(lines) => r = <<>>
            /\ from <= Len(lines) => Len(r) >= 1 /\ r[1].from = from
            /\ \A i \in 1 .. Len(r) : /\ r[i].from \in from .. Len(lines)
                                      /\ r[i].ok = Error(lines, r[i].from)
            /\ \A i, j \in 1 .. Len(r) : i < j => r[i].from < r[j].from
<1> DEFINE opens == {i \in from .. Len(lines) :
                      lines[i].start \/ ~ \E j \in from .. (i - 1) : lines[j].start}
           at == InOrder(opens)
           n == Cardinality(opens)
           next(k) == IF k = Len(at) THEN Len(lines) + 1 ELSE at[k + 1]
           r == Scan(lines, closed, from)
<1>1. opens \in SUBSET Nat /\ IsFiniteSet(opens)
  <2>1. opens \in SUBSET (from .. Len(lines)) /\ from .. Len(lines) \in SUBSET Nat OBVIOUS
  <2>2. IsFiniteSet(from .. Len(lines)) BY FS_Interval
  <2> HIDE DEF opens
  <2> QED BY <2>1, <2>2, FS_Subset
<1>2. /\ n \in Nat /\ at \in [1 .. n -> opens]
      /\ \A i, j \in 1 .. n : i < j => at[i] < at[j]
      /\ \A x \in opens : \E i \in 1 .. n : at[i] = x
  <2> HIDE DEF opens
  <2> QED BY <1>1, InOrderLists
<1>3. \A i \in opens : i \in from .. Len(lines) OBVIOUS
<1>4. from <= Len(lines) => from \in opens OBVIOUS
<1>5. from > Len(lines) => opens = {} OBVIOUS
<1>6. r = [k \in 1 .. Len(at) |->
             [from |-> at[k], len |-> next(k) - at[k], parsed |-> lines[at[k]].start,
              ok |-> lines[at[k]].start /\ ~lines[at[k]].low,
              shut |-> k < Len(at) \/ closed]]
  BY DEF Scan
<1>7. \A i \in 1 .. Len(lines) : lines[i].start \in BOOLEAN /\ lines[i].low \in BOOLEAN
  BY RecordViewAssumption
<1> HIDE DEF opens, at, n, r
<1>8. Len(at) = n BY <1>2
<1>9. \A k \in 1 .. n : at[k] \in from .. Len(lines) /\ at[k] \in Nat BY <1>2, <1>3
<1>10. \A k \in 1 .. n : next(k) \in Int BY <1>8, <1>9
<1> HIDE DEF next
<1>11. \A k \in 1 .. n : r[k] \in RecordRecs
  BY <1>6, <1>7, <1>8, <1>9, <1>10 DEF RecordRecs
<1>12. r \in Seq(RecordRecs) /\ Len(r) = n BY <1>2, <1>6, <1>8, <1>11
<1>13. \A k \in 1 .. n : r[k].from = at[k] /\ r[k].ok = Error(lines, at[k])
  BY <1>6, <1>8 DEF Error
<1>14. from > Len(lines) => r = <<>>
  <2>1. from > Len(lines) => n = 0 BY <1>5, FS_EmptySet DEF n
  <2> QED BY <1>12, <2>1
<1>15. from <= Len(lines) => Len(r) >= 1 /\ r[1].from = from
  <2> SUFFICES ASSUME from <= Len(lines) PROVE n >= 1 /\ at[1] = from BY <1>12, <1>13
  <2>1. PICK i \in 1 .. n : at[i] = from BY <1>2, <1>4
  <2>2. i = 1 BY <1>2, <1>9, <2>1
  <2> QED BY <2>1, <2>2
<1> QED BY <1>2, <1>9, <1>12, <1>13, <1>14, <1>15 DEF r

\* What the view, the digest and the counts leave alone: the index, the runs and
\* the run that is picked.
SameRuns(d, e) ==
  /\ DOMAIN e = Fields
  /\ e.seen = d.seen /\ e.records = d.records /\ e.runs = d.runs
  /\ e.selected = d.selected /\ e.follow = d.follow /\ e.bound = d.bound
\* And what does not even count.
SameIndex(d, e) == SameRuns(d, e) /\ e.memo = d.memo

\* One field written leaves the others.
LEMMA OneFieldApart ==
  ASSUME NEW d, DOMAIN d = Fields, NEW x
  PROVE  /\ SameIndex(d, d)
         /\ SameIndex(d, [d EXCEPT !.view = x])
         /\ SameIndex(d, [d EXCEPT !.last = x])
         /\ SameIndex(d, [d EXCEPT !.digest = x])
         /\ SameRuns(d, [d EXCEPT !.memo = x]) /\ [d EXCEPT !.memo = x].memo = x
  BY DEF SameIndex, SameRuns, Fields

\* Two writes after one another.
LEMMA SameIsTransitive ==
  ASSUME NEW d, NEW e, NEW f, SameIndex(d, e), SameIndex(e, f)
  PROVE  SameIndex(d, f)
  BY DEF SameIndex, SameRuns

\* applyFilters() and the filtered branch of ingestAppended() write the view alone.
LEMMA ViewAlone ==
  ASSUME NEW d, DOMAIN d = Fields, NEW base, NEW changed
  PROVE  SameIndex(d, ApplyFilters(d)) /\ SameIndex(d, ExtendView(d, base, changed))
<1>1. PICK x : ApplyFilters(d) = [d EXCEPT !.view = x] BY DEF ApplyFilters
<1>2. PICK y : ExtendView(d, base, changed) = [d EXCEPT !.view = y] BY DEF ExtendView
<1>3. SameIndex(d, [d EXCEPT !.view = x]) /\ SameIndex(d, [d EXCEPT !.view = y])
  BY OneFieldApart
<1> QED BY <1>1, <1>2, <1>3

\* The digest writes what it shows and where it stands.
LEMMA DigestAlone ==
  ASSUME NEW d, DOMAIN d = Fields, NEW force, NEW oldCount, NEW changed, NEW base
  PROVE  /\ SameIndex(d, PublishDigest(d, force))
         /\ SameIndex(d, RebuildDigest(d))
         /\ SameIndex(d, UpdateDigestAfterAppend(d, oldCount, changed, base))
<1>1. ASSUME NEW e, DOMAIN e = Fields, NEW f
      PROVE  SameIndex(e, PublishDigest(e, f))
  <2>1. PublishDigest(e, f) = e \/ \E x : PublishDigest(e, f) = [e EXCEPT !.digest = x]
    BY DEF PublishDigest
  <2> QED BY <1>1, <2>1, OneFieldApart
<1>2. ASSUME NEW x, NEW f
      PROVE  SameIndex(d, PublishDigest([d EXCEPT !.last = x], f))
  <2>1. SameIndex(d, [d EXCEPT !.last = x]) /\ DOMAIN [d EXCEPT !.last = x] = Fields
    BY OneFieldApart
  <2>2. SameIndex([d EXCEPT !.last = x], PublishDigest([d EXCEPT !.last = x], f))
    BY <1>1, <2>1
  <2> QED BY <2>1, <2>2, SameIsTransitive
<1>3. SameIndex(d, RebuildDigest(d)) BY <1>2 DEF RebuildDigest
<1>4. SameIndex(d, UpdateDigestAfterAppend(d, oldCount, changed, base))
  <2> DEFINE u == UpdateDigestAfterAppend(d, oldCount, changed, base)
  <2>1. u = d \/ \E x, f : u = PublishDigest([d EXCEPT !.last = x], f)
    BY DEF UpdateDigestAfterAppend
  <2>2. SameIndex(d, d) BY OneFieldApart
  <2>3. CASE u = d BY <2>2, <2>3
  <2>4. CASE \E x, f : u = PublishDigest([d EXCEPT !.last = x], f)
    <3>1. PICK x, f : u = PublishDigest([d EXCEPT !.last = x], f) BY <2>4
    <3>2. SameIndex(d, PublishDigest([d EXCEPT !.last = x], f)) BY <1>2
    <3> HIDE DEF u
    <3>3. SameIndex(d, u) BY <3>1, <3>2, Zenon
    <3> QED BY <3>3 DEF u
  <2> QED BY <2>1, <2>3, <2>4
<1> QED BY <1>1, <1>3, <1>4

\* The bound that run k of the list puts on the view.
BoundOf(runs, k) ==
  IF k = 0 \/ k > Len(runs) THEN Unbounded
  ELSE [on |-> TRUE, from |-> runs[k].from,
        to |-> IF k < Len(runs) THEN runs[k + 1].from ELSE MaxLines + 1]

\* recomputeViewBounds() writes the bound alone, from the runs and the one picked.
LEMMA BoundIsRecomputed ==
  ASSUME NEW d, DOMAIN d = Fields
  PROVE  LET e == RecomputeViewBounds(d)
         IN /\ DOMAIN e = Fields
            /\ e.seen = d.seen /\ e.records = d.records /\ e.runs = d.runs
            /\ e.selected = d.selected /\ e.follow = d.follow /\ e.memo = d.memo
            /\ e.bound = BoundOf(d.runs, d.selected)
<1>1. RecomputeViewBounds(d) = [d EXCEPT !.bound = BoundOf(d.runs, d.selected)]
  BY Zenon DEF RecomputeViewBounds, BoundOf
<1>2. \A x : LET e == [d EXCEPT !.bound = x]
            IN /\ DOMAIN e = Fields
               /\ e.seen = d.seen /\ e.records = d.records /\ e.runs = d.runs
               /\ e.selected = d.selected /\ e.follow = d.follow /\ e.memo = d.memo
               /\ e.bound = x
  BY DEF Fields
<1> QED BY <1>1, <1>2

\* The index of a document: where each record begins and whether it is an error is what
\* its lines say.
IndexHolds(d) ==
  /\ DOMAIN d = Fields
  /\ d.seen \in Seq(Lines) /\ d.records \in Seq(RecordRecs)
  /\ \A i \in 1 .. Len(d.records) : /\ d.records[i].from \in 1 .. Len(d.seen)
                                    /\ d.records[i].ok = Error(d.seen, d.records[i].from)
  /\ \A i, j \in 1 .. Len(d.records) : i < j => d.records[i].from < d.records[j].from

RowsOf(runs) == {runs[k].row : k \in 1 .. Len(runs)}

\* What the list of runs says of the first n records of a document.
RunsTell(d, runs, g, n) ==
  /\ runs \in Seq(RunRecs)
  /\ \A k \in 1 .. Len(runs) : /\ runs[k].row \in 1 .. n
                               /\ IF runs[k].preamble THEN k = 1 /\ runs[k].row = 1
                                 ELSE IsMarker(d, runs[k].row)
  /\ \A j, k \in 1 .. Len(runs) : j < k => runs[j].row < runs[k].row
  /\ \A i \in 1 .. n : IsMarker(d, i) => i \in RowsOf(runs) \cup g
  /\ runs # <<>> => runs[1].row = 1

\* The markers below the n-th record go on with the list as it stands.
LEMMA RunsGoOn ==
  ASSUME NEW d, IndexHolds(d), NEW g, NEW old, NEW n \in 0 .. Len(d.records),
         RunsTell(d, old, g, n)
  PROVE  /\ RunsTell(d, WithRuns(d, old, n + 1), g, Len(d.records))
         /\ Len(WithRuns(d, old, n + 1)) >= Len(old)
<1> DEFINE S == {i \in (n + 1) .. Len(d.records) : IsMarker(d, i)}
           at == InOrder(S)
           m == Cardinality(S)
           begun == [k \in 1 .. Len(at) |-> Run(d, at[k], FALSE)]
           runs == WithRuns(d, old, n + 1)
<1>1. S \in SUBSET Nat /\ IsFiniteSet(S)
  <2>1. S \in SUBSET ((n + 1) .. Len(d.records)) /\ (n + 1) .. Len(d.records) \in SUBSET Nat
    BY DEF IndexHolds
  <2>2. IsFiniteSet((n + 1) .. Len(d.records)) BY FS_Interval DEF IndexHolds
  <2> HIDE DEF S
  <2> QED BY <2>1, <2>2, FS_Subset
<1>2. /\ m \in Nat /\ at \in [1 .. m -> S]
      /\ \A i, j \in 1 .. m : i < j => at[i] < at[j]
      /\ \A x \in S : \E i \in 1 .. m : at[i] = x
  <2> HIDE DEF S
  <2> QED BY <1>1, InOrderLists
<1>3. \A x \in S : x \in (n + 1) .. Len(d.records) /\ IsMarker(d, x) OBVIOUS
<1>4. \A x \in (n + 1) .. Len(d.records) : IsMarker(d, x) => x \in S OBVIOUS
<1>5. runs = IF at = <<>> THEN old
             ELSE IF old = <<>> /\ at[1] > 1 THEN <<Run(d, 1, TRUE)>> \o begun
             ELSE old \o begun
  BY DEF WithRuns
<1> HIDE DEF S, at, m, runs
<1>6. Len(at) = m BY <1>2
<1>7. \A x \in 1 .. Len(d.records) :
        /\ Run(d, x, FALSE) \in RunRecs /\ Run(d, x, FALSE).row = x /\ ~Run(d, x, FALSE).preamble
        /\ Run(d, x, TRUE) \in RunRecs /\ Run(d, x, TRUE).row = x /\ Run(d, x, TRUE).preamble
  BY DEF Run, RunRecs, IndexHolds
<1>8. \A k \in 1 .. m : at[k] \in (n + 1) .. Len(d.records) /\ at[k] \in 1 .. Len(d.records)
                        /\ IsMarker(d, at[k])
  BY <1>2, <1>3
<1>9. /\ begun \in Seq(RunRecs) /\ Len(begun) = m
      /\ \A k \in 1 .. m : begun[k].row = at[k] /\ ~begun[k].preamble
  <2>1. \A k \in 1 .. m : LET b == Run(d, at[k], FALSE)
                           IN b \in RunRecs /\ b.row = at[k] /\ ~b.preamble
    BY <1>7, <1>8
  <2>2. begun \in [1 .. m -> RunRecs] BY <1>6, <2>1
  <2>3. \A k \in 1 .. m : begun[k].row = at[k] /\ ~begun[k].preamble BY <1>6, <2>1
  <2> HIDE DEF begun
  <2>4. begun \in Seq(RunRecs) /\ Len(begun) = m BY <1>2, <2>2
  <2> QED BY <2>3, <2>4
<1> HIDE DEF begun
<1>0. Len(d.records) \in Nat BY DEF IndexHolds
<1>10. CASE at = <<>>
  <2>1. m = 0 /\ runs = old BY <1>5, <1>6, <1>10
  <2>2. \A x \in (n + 1) .. Len(d.records) : ~IsMarker(d, x) BY <1>2, <1>4, <2>1
  <2> QED BY <2>1, <2>2 DEF RunsTell, IndexHolds, runs
<1>11. CASE at # <<>> /\ old = <<>> /\ at[1] > 1
  <2>2. m >= 1 /\ runs = <<Run(d, 1, TRUE)>> \o begun /\ Len(d.records) >= 1
    BY <1>2, <1>5, <1>6, <1>8, <1>11 DEF IndexHolds
  <2>21. 1 \in 1 .. Len(d.records) BY <1>0, <2>2
  <2> DEFINE pre == Run(d, 1, TRUE)
  <2>3. pre \in RunRecs /\ pre.row = 1 /\ pre.preamble BY <1>7, <2>21, Zenon
  <2>31. runs = <<pre>> \o begun BY <2>2
  <2> HIDE DEF pre
  <2>4. /\ runs \in Seq(RunRecs) /\ Len(runs) = m + 1
        /\ runs[1].row = 1 /\ runs[1].preamble
        /\ \A k \in 2 .. m + 1 : runs[k].row = at[k - 1] /\ ~runs[k].preamble
    <3>1. <<pre>> \in Seq(RunRecs) BY <2>3
    <3>2. runs \in Seq(RunRecs) /\ Len(runs) = m + 1 BY <1>2, <1>9, <2>31, <3>1
    <3>3. runs[1] = pre BY <1>2, <1>9, <2>31, <3>1
    <3>4. \A k \in 2 .. m + 1 : runs[k] = begun[k - 1] /\ k - 1 \in 1 .. m
      BY <1>2, <1>9, <2>31, <3>1
    <3> QED BY <1>9, <2>3, <3>2, <3>3, <3>4
  <2>5. \A j, k \in 1 .. m + 1 : j < k => runs[j].row < runs[k].row
    <3> SUFFICES ASSUME NEW j \in 1 .. m + 1, NEW k \in 1 .. m + 1, j < k
                 PROVE  runs[j].row < runs[k].row
      OBVIOUS
    <3>1. CASE j = 1
      <4>1. runs[j].row = 1 /\ runs[k].row = at[k - 1] /\ k - 1 \in 1 .. m
        BY <1>2, <2>4, <3>1
      <4>2. at[1] <= at[k - 1] /\ at[1] \in Nat BY <1>2, <1>8, <4>1
      <4> QED BY <1>8, <1>11, <4>1, <4>2
    <3>2. CASE j # 1
      <4>1. /\ runs[j].row = at[j - 1] /\ runs[k].row = at[k - 1]
            /\ j - 1 \in 1 .. m /\ k - 1 \in 1 .. m /\ j - 1 < k - 1
        BY <1>2, <2>4, <3>2
      <4> QED BY <1>2, <4>1
    <3> QED BY <3>1, <3>2
  <2>6. \A i \in 1 .. Len(d.records) : IsMarker(d, i) => i \in RowsOf(runs) \cup g
    <3> SUFFICES ASSUME NEW i \in 1 .. Len(d.records), IsMarker(d, i)
                 PROVE  i \in RowsOf(runs) \cup g
      OBVIOUS
    <3>1. CASE i <= n BY <1>11, <3>1 DEF RunsTell, RowsOf
    <3>2. CASE i > n
      <4>1. i \in S BY <1>4, <3>2
      <4>2. PICK k \in 1 .. m : at[k] = i BY <1>2, <4>1
      <4>3. k + 1 \in 1 .. Len(runs) /\ runs[k + 1].row = i BY <1>2, <2>4, <4>2
      <4> QED BY <4>3 DEF RowsOf
    <3> QED BY <3>1, <3>2
  <2>7. \A k \in 1 .. Len(runs) : /\ runs[k].row \in 1 .. Len(d.records)
                                  /\ IF runs[k].preamble THEN k = 1 /\ runs[k].row = 1
                                   ELSE IsMarker(d, runs[k].row)
    <3> SUFFICES ASSUME NEW k \in 1 .. m + 1
                 PROVE  /\ runs[k].row \in 1 .. Len(d.records)
                        /\ IF runs[k].preamble THEN k = 1 /\ runs[k].row = 1
                           ELSE IsMarker(d, runs[k].row)
      BY <2>4
    <3>1. CASE k = 1
      <4>1. runs[k].row = 1 /\ runs[k].preamble BY <2>4, <3>1
      <4> QED BY <2>21, <3>1, <4>1
    <3>2. CASE k # 1
      <4>1. k \in 2 .. m + 1 /\ k - 1 \in 1 .. m BY <1>2, <3>2
      <4> QED BY <1>8, <2>4, <4>1
    <3> QED BY <3>1, <3>2
  <2>8. RunsTell(d, runs, g, Len(d.records)) /\ Len(runs) >= Len(old)
    BY <1>2, <1>11, <2>4, <2>5, <2>6, <2>7 DEF RunsTell
  <2> QED BY <2>8 DEF runs
<1>12. CASE at # <<>> /\ ~(old = <<>> /\ at[1] > 1)
  <2> DEFINE o == Len(old)
  <2>1. m >= 1 /\ runs = old \o begun /\ old \in Seq(RunRecs) /\ o \in Nat
    BY <1>2, <1>5, <1>6, <1>12 DEF RunsTell
  <2>0. o \in Nat /\ m \in Nat BY <1>2, <2>1
  <2>2. /\ runs \in Seq(RunRecs) /\ Len(runs) = o + m
        /\ \A k \in 1 .. o : runs[k] = old[k]
        /\ \A k \in (o + 1) .. (o + m) : runs[k] = begun[k - o] /\ k - o \in 1 .. m
    <3>0. begun \in Seq(RunRecs) /\ Len(begun) = m BY <1>9
    <3>1. runs \in Seq(RunRecs) /\ Len(runs) = o + m BY <2>1, <3>0
    <3>2. \A k \in 1 .. o : runs[k] = old[k] BY <1>2, <1>9, <2>1
    <3>3. \A k \in (o + 1) .. (o + m) : k - o \in 1 .. m BY <1>2, <2>1
    <3>4. \A k \in (o + 1) .. (o + m) : runs[k] = begun[k - o] BY <1>2, <1>9, <2>1, <3>3
    <3> QED BY <3>1, <3>2, <3>3, <3>4
  <2>3. \A k \in (o + 1) .. (o + m) : /\ k - o \in 1 .. m
                                      /\ runs[k].row = at[k - o] /\ ~runs[k].preamble
    BY <1>9, <2>2
  <2>4. \A j, k \in 1 .. Len(runs) : j < k => runs[j].row < runs[k].row
    <3> SUFFICES ASSUME NEW j \in 1 .. o + m, NEW k \in 1 .. o + m, j < k
                 PROVE  runs[j].row < runs[k].row
      BY <2>2
    <3> HIDE DEF o
    <3>1. CASE k <= o
      <4>1. j \in 1 .. o /\ k \in 1 .. o BY <2>1, <3>1
      <4> QED BY <2>2, <4>1 DEF RunsTell, o
    <3>2. CASE j <= o /\ k > o
      <4>1. j \in 1 .. o /\ k \in (o + 1) .. (o + m) BY <1>2, <2>1, <3>2
      <4>2. runs[j].row <= n /\ runs[j].row \in Nat BY <2>2, <4>1 DEF RunsTell, o
      <4>3. runs[k].row = at[k - o] /\ at[k - o] > n /\ at[k - o] \in Nat
        BY <1>8, <2>3, <4>1
      <4> QED BY <4>2, <4>3
    <3>3. CASE j > o
      <4>1. j \in (o + 1) .. (o + m) /\ k \in (o + 1) .. (o + m) /\ j - o < k - o
        BY <1>2, <2>1, <3>3
      <4> QED BY <1>2, <2>3, <4>1
    <3> QED BY <2>0, <3>1, <3>2, <3>3
  <2>5. \A i \in 1 .. Len(d.records) : IsMarker(d, i) => i \in RowsOf(runs) \cup g
    <3> SUFFICES ASSUME NEW i \in 1 .. Len(d.records), IsMarker(d, i)
                 PROVE  i \in RowsOf(runs) \cup g
      OBVIOUS
    <3>1. CASE i <= n
      <4>1. i \in RowsOf(old) \cup g BY <3>1 DEF RunsTell
      <4>2. RowsOf(old) \subseteq RowsOf(runs)
        <5> SUFFICES ASSUME NEW k \in 1 .. o PROVE old[k].row \in RowsOf(runs)
          BY DEF RowsOf
        <5>1. k \in 1 .. Len(runs) /\ runs[k] = old[k] BY <1>2, <2>1, <2>2
        <5> QED BY <5>1 DEF RowsOf
      <4> QED BY <4>1, <4>2
    <3>2. CASE i > n
      <4>1. i \in S BY <1>4, <3>2
      <4>2. PICK k \in 1 .. m : at[k] = i BY <1>2, <4>1
      <4> HIDE DEF o
      <4>3. k + o \in (o + 1) .. (o + m) /\ (k + o) - o = k /\ k + o \in 1 .. Len(runs)
        BY <1>2, <2>1, <2>2, <4>2
      <4>4. runs[k + o].row = i BY <2>3, <4>2, <4>3
      <4> QED BY <4>3, <4>4 DEF RowsOf
    <3> QED BY <3>1, <3>2
  <2>6. \A k \in 1 .. Len(runs) : /\ runs[k].row \in 1 .. Len(d.records)
                                  /\ IF runs[k].preamble THEN k = 1 /\ runs[k].row = 1
                                   ELSE IsMarker(d, runs[k].row)
    <3> SUFFICES ASSUME NEW k \in 1 .. o + m
                 PROVE  /\ runs[k].row \in 1 .. Len(d.records)
                        /\ IF runs[k].preamble THEN k = 1 /\ runs[k].row = 1
                           ELSE IsMarker(d, runs[k].row)
      BY <2>2
    <3> HIDE DEF o
    <3>1. CASE k <= o
      <4>1. k \in 1 .. o /\ runs[k] = old[k] BY <2>1, <2>2, <3>1
      <4>2. n <= Len(d.records) /\ Len(d.records) \in Nat /\ n \in Nat BY DEF IndexHolds
      <4> QED BY <4>1, <4>2 DEF RunsTell, o
    <3>2. CASE k > o
      <4>1. k \in (o + 1) .. (o + m) BY <1>2, <2>1, <3>2
      <4> QED BY <1>8, <2>3, <4>1
    <3> QED BY <2>0, <3>1, <3>2
  <2>7. runs[1].row = 1
    <3>1. CASE old # <<>>
      <4>1. 1 \in 1 .. o BY <2>1, <3>1
      <4> QED BY <2>2, <3>1, <4>1 DEF RunsTell
    <3>2. CASE old = <<>>
      <4>1. o = 0 /\ 1 \in (o + 1) .. (o + m) /\ 1 - o = 1 /\ 1 \in 1 .. m
        BY <1>2, <2>1, <3>2
      <4>2. runs[1].row = at[1] BY <2>3, <4>1
      <4>3. at[1] \in Nat /\ at[1] >= 1 /\ ~(at[1] > 1) BY <1>8, <1>12, <3>2, <4>1
      <4> QED BY <4>2, <4>3
    <3> QED BY <3>1, <3>2
  <2>8. RunsTell(d, runs, g, Len(d.records)) /\ Len(runs) >= Len(old)
    <3>1. Len(runs) >= Len(old) BY <2>0, <2>2
    <3> QED BY <2>2, <2>4, <2>5, <2>6, <2>7, <3>1 DEF RunsTell
  <2> QED BY <2>8 DEF runs
<1> QED BY <1>10, <1>11, <1>12

\* Two sequences end to end.
LEMMA EndToEnd ==
  ASSUME NEW S, NEW a \in Seq(S), NEW b \in Seq(S)
  PROVE  /\ a \o b \in Seq(S) /\ Len(a \o b) = Len(a) + Len(b)
         /\ \A i \in 1 .. Len(a) : (a \o b)[i] = a[i]
         /\ \A i \in 1 .. Len(b) : (a \o b)[Len(a) + i] = b[i]
  OBVIOUS

\* What a line may have looked like while it was being written.
Glimpsed(p, l) == (p.start => (l.start /\ (p.low <=> l.low))) /\ (p.mark => l.mark)

\* The lines that were read are those of the log, the last of them perhaps a prefix.
ReadFrom(seen, lines) ==
  /\ Len(seen) <= Len(lines)
  /\ \A k \in 1 .. Len(seen) : /\ k < Len(seen) => lines[k] = seen[k]
                               /\ Glimpsed(seen[k], lines[k])

ErrorsOf(d) == {i \in 1 .. Len(d.records) : d.records[i].ok}

\* What an append makes of the index, before the runs are looked at.
Reindexed(d, e, lines, closed) ==
  /\ DOMAIN e = Fields /\ e.seen = lines /\ e.runs = d.runs
  /\ e.records = SubSeq(d.records, 1, Len(d.records) - 1)
                    \o Scan(lines, closed, TailStart(d))

Appends(d, e, lines, closed, g, h) ==
  /\ IndexHolds(d) /\ RunsTell(d, d.runs, g, Len(d.records))
  /\ lines \in Seq(Lines) /\ ReadFrom(d.seen, lines) /\ closed \in BOOLEAN
  /\ Reindexed(d, e, lines, closed) /\ g \subseteq h
  /\ ProvisionalChanged(d, lines, closed) => Len(d.records) \in h

\* The index after an append: the last record is scanned again with what came after it.
\* The runs still say of the old records what they said, and an old record becomes an
\* error or a marker only where it is the one that changed.
LEMMA IndexGoesOn ==
  ASSUME NEW d, NEW e, NEW lines, NEW closed, NEW g, NEW h,
         Appends(d, e, lines, closed, g, h)
  PROVE  /\ IndexHolds(e) /\ Len(d.records) \in 0 .. Len(e.records)
         /\ RunsTell(e, d.runs, h, Len(d.records))
         /\ \A i \in 1 .. Len(d.records) :
              /\ d.records[i].ok => e.records[i].ok
              /\ e.records[i].ok => (d.records[i].ok \/ i \in h)
<1> DEFINE n == Len(d.records)
           from == TailStart(d)
           tail == Scan(lines, closed, from)
           kept == SubSeq(d.records, 1, n - 1)
<1>0. /\ IndexHolds(d) /\ RunsTell(d, d.runs, g, Len(d.records))
      /\ lines \in Seq(Lines) /\ ReadFrom(d.seen, lines) /\ closed \in BOOLEAN
      /\ Reindexed(d, e, lines, closed) /\ g \subseteq h
      /\ ProvisionalChanged(d, lines, closed) => Len(d.records) \in h
  BY DEF Appends
<1> HIDE DEF Appends
<1>1. n \in Nat /\ Len(lines) \in Nat /\ Len(d.seen) \in Nat /\ Len(d.seen) <= Len(lines)
  BY <1>0 DEF IndexHolds, ReadFrom
<1>2. n > 0 => from = d.records[n].from /\ from \in 1 .. Len(d.seen)
  BY <1>0, <1>1 DEF TailStart, IndexHolds
<1>3. n = 0 => from = 1 BY <1>0 DEF TailStart, IndexHolds
<1>4. from \in 1 .. Len(lines) + 1 BY <1>1, <1>2, <1>3
<1>5. /\ tail \in Seq(RecordRecs)
      /\ from <= Len(lines) => Len(tail) >= 1 /\ tail[1].from = from
      /\ \A i \in 1 .. Len(tail) : /\ tail[i].from \in from .. Len(lines)
                                   /\ tail[i].ok = Error(lines, tail[i].from)
      /\ \A i, j \in 1 .. Len(tail) : i < j => tail[i].from < tail[j].from
  BY <1>0, <1>4, ScanFinds
<1> HIDE DEF n, from, tail
<1>6. n > 0 => Len(tail) >= 1 /\ tail[1].from = from BY <1>1, <1>2, <1>5
<1> DEFINE m == IF n > 0 THEN n - 1 ELSE 0
           t == Len(tail)
<1>7. m \in Nat /\ t \in Nat /\ (n > 0 => m = n - 1 /\ t >= 1) /\ (n = 0 => m = 0)
  BY <1>1, <1>5, <1>6
<1>8. /\ kept \in Seq(RecordRecs) /\ Len(kept) = m
      /\ \A i \in 1 .. m : kept[i] = d.records[i] /\ i \in 1 .. n - 1
  <2>1. d.records \in Seq(RecordRecs) /\ n = Len(d.records) BY <1>0 DEF IndexHolds, n
  <2>2. CASE n = 0 BY <1>7, <2>1, <2>2
  <2>3. CASE n > 0 BY <1>1, <1>7, <2>1, <2>3
  <2> QED BY <1>1, <2>2, <2>3
<1>9. e.records = kept \o tail BY <1>0 DEF n, from, tail, Reindexed
<1> HIDE DEF kept, m, t
<1>10. /\ e.records \in Seq(RecordRecs) /\ Len(e.records) = m + t
       /\ \A i \in 1 .. m : e.records[i] = d.records[i] /\ i \in 1 .. n - 1
       /\ \A i \in (m + 1) .. (m + t) : e.records[i] = tail[i - m] /\ i - m \in 1 .. t
  <2>1. tail \in Seq(RecordRecs) /\ Len(tail) = t BY <1>5 DEF t
  <2>0. kept \in Seq(RecordRecs) /\ Len(kept) = m /\ m \in Nat /\ t \in Nat BY <1>7, <1>8
  <2>8. \A a, b \in Seq(RecordRecs) :
          /\ a \o b \in Seq(RecordRecs) /\ Len(a \o b) = Len(a) + Len(b)
          /\ \A i \in 1 .. Len(a) : (a \o b)[i] = a[i]
          /\ \A i \in 1 .. Len(b) : (a \o b)[Len(a) + i] = b[i]
    BY <1>0, EndToEnd
  <2>9. kept \in Seq(RecordRecs) /\ tail \in Seq(RecordRecs) BY <2>0, <2>1
  <2>6. /\ kept \o tail \in Seq(RecordRecs) /\ Len(kept \o tail) = Len(kept) + Len(tail)
        /\ \A i \in 1 .. Len(kept) : (kept \o tail)[i] = kept[i]
        /\ \A i \in 1 .. Len(tail) : (kept \o tail)[Len(kept) + i] = tail[i]
    BY <2>8, <2>9, Zenon
  <2>7. /\ e.records \in Seq(RecordRecs) /\ Len(e.records) = Len(kept) + Len(tail)
        /\ \A i \in 1 .. Len(kept) : e.records[i] = kept[i]
        /\ \A i \in 1 .. Len(tail) : e.records[Len(kept) + i] = tail[i]
    BY <1>9, <2>6, Zenon
  <2>2. e.records \in Seq(RecordRecs) /\ Len(e.records) = m + t BY <2>0, <2>1, <2>7
  <2>3. \A i \in 1 .. m : e.records[i] = kept[i] BY <2>0, <2>1, <2>7
  <2>5. \A i \in (m + 1) .. (m + t) : i - m \in 1 .. t /\ m + (i - m) = i BY <2>0
  <2>4. \A i \in (m + 1) .. (m + t) : e.records[i] = tail[i - m] /\ i - m \in 1 .. t
    <3> SUFFICES ASSUME NEW i \in (m + 1) .. (m + t)
                 PROVE  e.records[i] = tail[i - m] /\ i - m \in 1 .. t
      OBVIOUS
    <3>1. e.records[m + (i - m)] = tail[i - m] BY <2>0, <2>1, <2>5, <2>7
    <3> QED BY <2>5, <3>1
  <2> QED BY <1>8, <2>2, <2>3, <2>4
<1>11. \A i \in 1 .. n : /\ d.records[i].from \in 1 .. Len(d.seen)
                         /\ d.records[i].ok = Error(d.seen, d.records[i].from)
  BY <1>0 DEF IndexHolds, n
<1>12. \A i, j \in 1 .. n : i < j => d.records[i].from < d.records[j].from
  BY <1>0 DEF IndexHolds, n
<1>13. \A i \in 1 .. m : /\ d.records[i].from \in 1 .. Len(d.seen) - 1
                         /\ d.records[i].from < from
                         /\ lines[d.records[i].from] = d.seen[d.records[i].from]
  <2> SUFFICES ASSUME NEW i \in 1 .. m
               PROVE  /\ d.records[i].from \in 1 .. Len(d.seen) - 1
                      /\ d.records[i].from < from
                      /\ lines[d.records[i].from] = d.seen[d.records[i].from]
    OBVIOUS
  <2>1. n > 0 /\ i \in 1 .. n /\ n \in 1 .. n /\ i < n BY <1>1, <1>7
  <2>2. d.records[i].from \in 1 .. Len(d.seen) - 1 /\ d.records[i].from < from
    BY <1>1, <1>2, <1>11, <1>12, <2>1
  <2> QED BY <1>0, <1>1, <2>2 DEF ReadFrom
<1>14. \A i \in 1 .. m + t : /\ e.records[i].from \in 1 .. Len(lines)
                             /\ e.records[i].ok = Error(lines, e.records[i].from)
  <2> SUFFICES ASSUME NEW i \in 1 .. m + t
               PROVE  /\ e.records[i].from \in 1 .. Len(lines)
                      /\ e.records[i].ok = Error(lines, e.records[i].from)
    OBVIOUS
  <2>1. CASE i <= m
    <3>1. i \in 1 .. m /\ i \in 1 .. n /\ e.records[i] = d.records[i]
      BY <1>1, <1>7, <1>10, <2>1
    <3> QED BY <1>1, <1>11, <1>13, <3>1 DEF Error
  <2>2. CASE i > m
    <3>1. i - m \in 1 .. Len(tail) /\ e.records[i] = tail[i - m]
      BY <1>7, <1>10, <2>2 DEF t
    <3> QED BY <1>4, <1>5, <3>1
  <2> QED BY <1>7, <2>1, <2>2
<1>15. \A i, j \in 1 .. m + t : i < j => e.records[i].from < e.records[j].from
  <2> SUFFICES ASSUME NEW i \in 1 .. m + t, NEW j \in 1 .. m + t, i < j
               PROVE  e.records[i].from < e.records[j].from
    OBVIOUS
  <2>1. CASE j <= m
    <3>1. /\ i \in 1 .. m /\ j \in 1 .. m /\ i \in 1 .. n /\ j \in 1 .. n
      BY <1>1, <1>7, <2>1
    <3> QED BY <1>10, <1>12, <3>1
  <2>2. CASE i <= m /\ j > m
    <3>1. i \in 1 .. m /\ j \in (m + 1) .. (m + t) BY <1>7, <2>2
    <3>2. e.records[i].from < from /\ e.records[i].from \in Nat
      BY <1>1, <1>10, <1>13, <3>1
    <3>3. e.records[j].from >= from /\ e.records[j].from \in Nat
      <4>1. e.records[j] = tail[j - m] /\ j - m \in 1 .. Len(tail) BY <1>10, <3>1 DEF t
      <4> QED BY <1>4, <1>5, <4>1
    <3> QED BY <1>4, <3>2, <3>3
  <2>3. CASE i > m
    <3>1. i \in (m + 1) .. (m + t) /\ j \in (m + 1) .. (m + t) BY <1>7, <2>3
    <3>2. /\ e.records[i] = tail[i - m] /\ i - m \in 1 .. Len(tail)
          /\ e.records[j] = tail[j - m] /\ j - m \in 1 .. Len(tail) /\ i - m < j - m
      BY <1>7, <1>10, <3>1 DEF t
    <3> QED BY <1>5, <3>2
  <2> QED BY <1>7, <2>1, <2>2, <2>3
<1>16. IndexHolds(e) BY <1>0, <1>10, <1>14, <1>15 DEF IndexHolds, Reindexed
<1>17. n \in 0 .. Len(e.records) BY <1>1, <1>7, <1>10
\* The last of the old records.
<1>18. n > 0 => /\ n \in 1 .. Len(e.records) /\ e.records[n] = tail[1]
                /\ e.records[n].from = from /\ d.records[n].from = from
  <2> SUFFICES ASSUME n > 0
               PROVE  /\ n \in 1 .. Len(e.records) /\ e.records[n] = tail[1]
                      /\ e.records[n].from = from /\ d.records[n].from = from
    OBVIOUS
  <2>1. n \in (m + 1) .. (m + t) /\ n - m = 1 BY <1>1, <1>7
  <2> QED
    <3>1. n \in 1 .. Len(e.records) BY <1>7, <1>10, <2>1
    <3>2. e.records[n] = tail[n - m] BY <1>10, <2>1
    <3>3. e.records[n] = tail[1] BY <2>1, <3>2
    <3> QED BY <1>2, <1>6, <3>1, <3>3
<1>19. \A k \in 1 .. Len(lines) : lines[k].start \in BOOLEAN /\ lines[k].low \in BOOLEAN
                                /\ lines[k].mark \in BOOLEAN
  BY <1>0, RecordViewAssumption
<1>20. \A k \in 1 .. Len(d.seen) : d.seen[k].start \in BOOLEAN /\ d.seen[k].low \in BOOLEAN
                                 /\ d.seen[k].mark \in BOOLEAN
  BY <1>0, RecordViewAssumption DEF IndexHolds
<1>21. \A i \in 1 .. n :
         LET f == d.records[i].from
         IN /\ e.records[i].from = f /\ f \in 1 .. Len(d.seen) /\ f \in 1 .. Len(lines)
            /\ Glimpsed(d.seen[f], lines[f])
            /\ (lines[f] = d.seen[f] \/ i \in h)
  <2> SUFFICES ASSUME NEW i \in 1 .. n
               PROVE  /\ e.records[i].from = d.records[i].from
                      /\ lines[d.records[i].from] = d.seen[d.records[i].from] \/ i \in h
    BY <1>0, <1>1, <1>11 DEF ReadFrom
  <2>1. CASE i < n
    <3>1. i \in 1 .. m BY <1>1, <1>7, <2>1
    <3> QED BY <1>10, <1>13, <3>1
  <2>2. CASE i = n
    <3>1. n > 0 /\ e.records[i].from = d.records[i].from /\ d.records[i].from = from
      BY <1>1, <1>18, <2>2
    <3>2. CASE ProvisionalChanged(d, lines, closed) BY <1>0, <2>2, <3>1, <3>2 DEF n
    <3>3. CASE ~ProvisionalChanged(d, lines, closed)
      <4>1. d.records # <<>> BY <1>0, <1>1, <3>1 DEF n
      <4>2. SubSeq(lines, from, Len(d.seen)) = SubSeq(d.seen, from, Len(d.seen))
        BY <1>0, <3>3, <4>1 DEF ProvisionalChanged, from
      <4>3. from \in 1 .. Len(d.seen) /\ d.seen \in Seq(Lines)
        BY <1>0, <1>2, <3>1 DEF IndexHolds
      <4>4. /\ SubSeq(lines, from, Len(d.seen))[1] = lines[from]
            /\ SubSeq(d.seen, from, Len(d.seen))[1] = d.seen[from]
        BY <1>1, <4>3
      <4> QED BY <3>1, <4>2, <4>4
    <3> QED BY <3>2, <3>3
  <2> QED BY <1>1, <2>1, <2>2
<1>22. \A i \in 1 .. n : /\ d.records[i].ok => e.records[i].ok
                         /\ e.records[i].ok => (d.records[i].ok \/ i \in h)
                         /\ IsMarker(d, i) => IsMarker(e, i)
                         /\ IsMarker(e, i) => (IsMarker(d, i) \/ i \in h)
  <2> SUFFICES ASSUME NEW i \in 1 .. n
               PROVE  /\ d.records[i].ok => e.records[i].ok
                      /\ e.records[i].ok => (d.records[i].ok \/ i \in h)
                      /\ IsMarker(d, i) => IsMarker(e, i)
                      /\ IsMarker(e, i) => (IsMarker(d, i) \/ i \in h)
    OBVIOUS
  <2> DEFINE f == d.records[i].from
  <2>1. /\ e.records[i].from = f /\ f \in 1 .. Len(d.seen) /\ f \in 1 .. Len(lines)
        /\ Glimpsed(d.seen[f], lines[f]) /\ (lines[f] = d.seen[f] \/ i \in h)
    BY <1>21
  <2>2. d.records[i].ok = Error(d.seen, f) /\ e.records[i].ok = Error(lines, f)
    <3>1. i \in 1 .. m + t BY <1>1, <1>10, <1>17
    <3> QED BY <1>11, <1>14, <2>1, <3>1
  <2>3. IsMarker(d, i) = d.seen[f].mark /\ IsMarker(e, i) = lines[f].mark
    BY <1>0, <2>1 DEF IsMarker, Reindexed
  <2> HIDE DEF f
  <2>4. /\ d.seen[f].start \in BOOLEAN /\ d.seen[f].low \in BOOLEAN /\ d.seen[f].mark \in BOOLEAN
        /\ lines[f].start \in BOOLEAN /\ lines[f].low \in BOOLEAN /\ lines[f].mark \in BOOLEAN
    BY <1>19, <1>20, <2>1
  <2> QED BY <2>1, <2>2, <2>3, <2>4, Zenon DEF Glimpsed, Error
<1>23. RunsTell(e, d.runs, h, n)
  <2>1. RunsTell(d, d.runs, g, n) BY <1>0 DEF n
  <2> QED BY <1>0, <1>22, <2>1 DEF RunsTell
<1> QED BY <1>0, <1>16, <1>17, <1>22, <1>23 DEF n

\* The count of errors, as far as the records in g let it be known.
Counted(d, g) ==
  /\ d.memo.scanned = Len(d.records) /\ d.memo.count \in Nat
  /\ Cardinality(ErrorsOf(d) \ g) <= d.memo.count
  /\ d.memo.count <= Cardinality(ErrorsOf(d))

\* fileStats() goes on from where it stopped: what it counted of the first n records
\* stands, and the errors after them are added.
LEMMA CountGoesOn ==
  ASSUME NEW d, IndexHolds(d), NEW g, NEW n \in 0 .. Len(d.records),
         d.memo.scanned = n, d.memo.count \in Nat,
         Cardinality({i \in 1 .. n : d.records[i].ok} \ g) <= d.memo.count,
         d.memo.count <= Cardinality({i \in 1 .. n : d.records[i].ok})
  PROVE  SameRuns(d, FoldStats(d)) /\ Counted(FoldStats(d), g)
<1> DEFINE Old == {i \in 1 .. n : d.records[i].ok}
           New == {i \in (n + 1) .. Len(d.records) : d.records[i].ok}
           All == ErrorsOf(d)
           memo == [scanned |-> Len(d.records), count |-> d.memo.count + Cardinality(New)]
<1>1. Len(d.records) \in Nat /\ n \in Nat /\ DOMAIN d = Fields BY DEF IndexHolds
<1>2. Old \in SUBSET (1 .. n) /\ New \in SUBSET ((n + 1) .. Len(d.records)) OBVIOUS
<1>3. All = Old \cup New /\ Old \cap New = {} BY <1>1 DEF ErrorsOf
<1>4. \E x : FoldStats(d) = [d EXCEPT !.memo = x] /\ x = memo
  <2> DEFINE from == IF d.memo.scanned > Len(d.records) THEN 0 ELSE d.memo.scanned
             base == IF d.memo.scanned > Len(d.records) THEN 0 ELSE d.memo.count
             x == [scanned |-> Len(d.records),
                   count |-> base + Cardinality({i \in (from + 1) .. Len(d.records) :
                                                   d.records[i].ok})]
  <2>1. FoldStats(d) = [d EXCEPT !.memo = x] BY Zenon DEF FoldStats
  <2>2. from = n /\ base = d.memo.count BY <1>1
  <2>3. x = memo
    <3> HIDE DEF from, base
    <3> QED BY <2>2
  <2> HIDE DEF x
  <2> QED BY <2>1, <2>3, Zenon
<1> HIDE DEF Old, New, All, memo
<1>5. IsFiniteSet(Old) /\ IsFiniteSet(New)
  <2>1. IsFiniteSet(1 .. n) /\ IsFiniteSet((n + 1) .. Len(d.records)) BY <1>1, FS_Interval
  <2> QED BY <1>2, <2>1, FS_Subset
<1>6. Cardinality(Old) \in Nat /\ Cardinality(New) \in Nat BY <1>5, FS_CardinalityType
<1>7. IsFiniteSet(All) /\ Cardinality(All) = Cardinality(Old) + Cardinality(New)
  <2>1. Cardinality(Old \cap New) = 0 BY <1>3, FS_EmptySet
  <2>2. /\ IsFiniteSet(Old \cup New)
        /\ Cardinality(Old \cup New)
             = Cardinality(Old) + Cardinality(New) - Cardinality(Old \cap New)
    BY <1>5, FS_Union
  <2> QED BY <1>3, <1>6, <2>1, <2>2
<1>8. Cardinality(All \ g) \in Nat /\ Cardinality(All \ g) <= Cardinality(Old \ g) + Cardinality(New)
  <2> DEFINE A == Old \ g
  <2>1. IsFiniteSet(A) /\ Cardinality(A) \in Nat BY <1>5, FS_Subset, FS_CardinalityType
  <2>2. /\ IsFiniteSet(A \cup New)
        /\ Cardinality(A \cup New) = Cardinality(A) + Cardinality(New) - Cardinality(A \cap New)
    BY <1>5, <2>1, FS_Union
  <2>3. Cardinality(A \cap New) = 0
    <3>1. A \cap New = {} BY <1>3
    <3> QED BY <3>1, FS_EmptySet
  <2>4. All \ g \in SUBSET (A \cup New) BY <1>3
  <2>5. IsFiniteSet(All \ g) /\ Cardinality(All \ g) <= Cardinality(A \cup New)
    BY <2>2, <2>4, FS_Subset
  <2>6. Cardinality(All \ g) \in Nat BY <2>5, FS_CardinalityType
  <2> QED BY <1>6, <2>1, <2>2, <2>3, <2>5, <2>6
<1>9. SameRuns(d, FoldStats(d)) /\ FoldStats(d).memo = memo
  <2>1. \A x : SameRuns(d, [d EXCEPT !.memo = x]) /\ [d EXCEPT !.memo = x].memo = x
    BY <1>1, OneFieldApart
  <2> QED BY <1>4, <2>1, Zenon
<1>10. FoldStats(d).memo.scanned = Len(d.records)
       /\ FoldStats(d).memo.count = d.memo.count + Cardinality(New)
  BY <1>9 DEF memo
<1>11. ErrorsOf(FoldStats(d)) = All /\ FoldStats(d).records = d.records
  BY <1>9 DEF ErrorsOf, SameRuns, All
<1>12. Cardinality(Old \ g) <= d.memo.count /\ d.memo.count <= Cardinality(Old) BY DEF Old
<1>13. Cardinality(Old \ g) \in Nat BY <1>5, FS_Subset, FS_CardinalityType
<1>14. Counted(FoldStats(d), g)
  BY <1>6, <1>7, <1>8, <1>10, <1>11, <1>12, <1>13 DEF Counted
<1> QED BY <1>9, <1>14

\* What the Runs pane and the view are told about the runs is true; so is where the
\* selection stands that follows the last run; and so is the count.
Bounded(d, g) ==
  /\ IndexHolds(d) /\ RunsTell(d, d.runs, g, Len(d.records))
  /\ d.selected \in 0 .. Len(d.runs)
  /\ d.bound = BoundOf(d.runs, d.selected)
Chosen(d, g) == Bounded(d, g) /\ (d.follow => d.selected = Len(d.runs))
Truthful(d, g) == Chosen(d, g) /\ Counted(d, g)

\* What is written apart from the index, the runs and the selection breaks nothing of them.
LEMMA SameIsChosen ==
  ASSUME NEW d, NEW e, NEW g, SameRuns(d, e)
  PROVE  /\ Bounded(d, g) => Bounded(e, g)
         /\ Chosen(d, g) => Chosen(e, g)
         /\ SameIndex(d, e) /\ Truthful(d, g) => Truthful(e, g)
<1>1. /\ DOMAIN e = Fields
      /\ e.seen = d.seen /\ e.records = d.records /\ e.runs = d.runs
      /\ e.selected = d.selected /\ e.follow = d.follow /\ e.bound = d.bound
  BY DEF SameRuns
<1>2. \A i : IsMarker(e, i) = IsMarker(d, i) BY <1>1 DEF IsMarker
<1>3. IndexHolds(d) => IndexHolds(e) BY <1>1 DEF IndexHolds
<1>4. RunsTell(d, d.runs, g, Len(d.records)) => RunsTell(e, e.runs, g, Len(e.records))
  BY <1>1, <1>2 DEF RunsTell
<1>8. Bounded(d, g) => Bounded(e, g) BY <1>1, <1>3, <1>4 DEF Bounded
<1>5. Chosen(d, g) => Chosen(e, g) BY <1>1, <1>8 DEF Chosen
<1>6. ErrorsOf(e) = ErrorsOf(d) BY <1>1 DEF ErrorsOf
<1>7. SameIndex(d, e) /\ Counted(d, g) => Counted(e, g)
  BY <1>1, <1>6 DEF Counted, SameIndex
<1> QED BY <1>5, <1>7, <1>8 DEF Truthful

\* Reading a log from the top: detectRuns() and selectLastRun() on a fresh index.
LEMMA ReadFromTheTop ==
  ASSUME NEW d, DOMAIN d = Fields, NEW lines \in Seq(Lines), NEW closed \in BOOLEAN
  PROVE  LET e == SelectLastRun(DetectRuns(Indexed(Cleared(d), lines, closed)))
         IN Chosen(e, {}) /\ e.seen = lines /\ e.memo = [scanned |-> 0, count |-> 0]
<1> DEFINE i == Indexed(Cleared(d), lines, closed)
           runs == WithRuns(i, <<>>, 1)
           a == [i EXCEPT !.runs = runs, !.memo = [scanned |-> 0, count |-> 0],
                          !.selected = IF i.follow \/ @ > Len(runs) THEN Len(runs) ELSE @]
           b == RecomputeViewBounds(a)
           c == [b EXCEPT !.follow = TRUE, !.selected = Len(b.runs)]
           e == RecomputeViewBounds(c)
<1>1. 1 \in 1 .. Len(lines) + 1 /\ Len(lines) \in Nat OBVIOUS
<1>2. DOMAIN i = Fields /\ i.seen = lines /\ i.records = Scan(lines, closed, 1)
  <2> DEFINE x == Cleared(d)
  <2>1. DOMAIN x = Fields BY DEF Cleared, Fields
  <2>2. i = [x EXCEPT !.seen = lines, !.records = Scan(lines, closed, 1),
                      !.sums = RebuiltSums(Scan(lines, closed, 1))]
    BY DEF Indexed
  <2> HIDE DEF x, i
  <2> QED BY <2>1, <2>2 DEF Fields
<1> HIDE DEF i
<1>3. IndexHolds(i)
  <2>1. LET r == Scan(lines, closed, 1)
        IN /\ r \in Seq(RecordRecs)
           /\ \A k \in 1 .. Len(r) : /\ r[k].from \in 1 .. Len(lines)
                                     /\ r[k].ok = Error(lines, r[k].from)
           /\ \A j, k \in 1 .. Len(r) : j < k => r[j].from < r[k].from
    BY <1>1, ScanFinds
  <2> QED BY <1>2, <2>1 DEF IndexHolds
<1>4. RunsTell(i, runs, {}, Len(i.records))
  <2>1. 0 \in 0 .. Len(i.records) BY <1>3 DEF IndexHolds
  <2>2. RunsTell(i, <<>>, {}, 0) BY DEF RunsTell
  <2>3. RunsTell(i, WithRuns(i, <<>>, 0 + 1), {}, Len(i.records))
    BY <1>3, <2>1, <2>2, RunsGoOn
  <2> QED BY <2>3
<1> HIDE DEF runs
<1>5. /\ DOMAIN a = Fields /\ a.seen = lines /\ a.records = i.records /\ a.runs = runs
      /\ a.memo = [scanned |-> 0, count |-> 0]
  BY <1>2 DEF Fields
<1> HIDE DEF a
<1>6. /\ DOMAIN b = Fields /\ b.seen = lines /\ b.records = i.records /\ b.runs = runs
      /\ b.memo = [scanned |-> 0, count |-> 0]
  BY <1>5, BoundIsRecomputed
<1> HIDE DEF b
<1>7. /\ DOMAIN c = Fields /\ c.seen = lines /\ c.records = i.records /\ c.runs = runs
      /\ c.memo = [scanned |-> 0, count |-> 0] /\ c.selected = Len(runs) /\ c.follow = TRUE
  BY <1>6 DEF Fields
<1> HIDE DEF c
<1>8. /\ DOMAIN e = Fields /\ e.seen = lines /\ e.records = i.records /\ e.runs = runs
      /\ e.memo = [scanned |-> 0, count |-> 0] /\ e.selected = Len(runs) /\ e.follow = TRUE
      /\ e.bound = BoundOf(runs, Len(runs))
  BY <1>7, BoundIsRecomputed
<1>9. e = SelectLastRun(DetectRuns(Indexed(Cleared(d), lines, closed)))
  BY DEF e, c, b, a, runs, i, SelectLastRun, DetectRuns
<1> HIDE DEF e
<1>10. IndexHolds(e) BY <1>2, <1>3, <1>8 DEF IndexHolds
<1>11. RunsTell(e, e.runs, {}, Len(e.records))
  <2>1. \A k : IsMarker(e, k) = IsMarker(i, k) BY <1>2, <1>8 DEF IsMarker
  <2> QED BY <1>4, <1>8, <2>1 DEF RunsTell
<1>12. Chosen(e, {})
  <2>1. Len(runs) \in Nat BY <1>4 DEF RunsTell
  <2> QED BY <1>8, <1>10, <1>11, <2>1 DEF Chosen, Bounded
<1> QED BY <1>8, <1>9, <1>12

\* fileStats() on a document that was read from the top.
LEMMA CountFromTheTop ==
  ASSUME NEW d, Chosen(d, {}), d.memo = [scanned |-> 0, count |-> 0]
  PROVE  Truthful(FoldStats(d), {}) /\ FoldStats(d).seen = d.seen
<1>1. IndexHolds(d) /\ 0 \in 0 .. Len(d.records) BY DEF Chosen, Bounded, IndexHolds
<1>2. d.memo.scanned = 0 /\ d.memo.count = 0 OBVIOUS
<1>3. {i \in 1 .. 0 : d.records[i].ok} = {} /\ Cardinality({}) = 0 BY FS_EmptySet
<1>4. SameRuns(d, FoldStats(d)) /\ Counted(FoldStats(d), {})
  <2> DEFINE O == {i \in 1 .. 0 : d.records[i].ok}
  <2>1. Cardinality(O \ {}) = 0 /\ Cardinality(O) = 0 BY <1>3
  <2>2. Cardinality(O \ {}) <= d.memo.count /\ d.memo.count <= Cardinality(O)
    BY <1>2, <2>1
  <2>3. d.memo.scanned = 0 /\ d.memo.count \in Nat BY <1>2
  <2> QED BY <1>1, <2>2, <2>3, CountGoesOn, Zenon
<1> QED BY <1>4, SameIsChosen DEF Truthful, SameRuns

\* A tick on a document that tells the truth leaves one that does; the last record is no
\* longer answered for when it changed.
LEMMA TickTellsTheTruth ==
  ASSUME NEW d, NEW g, Truthful(d, g), NEW lines \in Seq(Lines), ReadFrom(d.seen, lines),
         NEW closed \in BOOLEAN, NEW h, g \subseteq h,
         ProvisionalChanged(d, lines, closed) => Len(d.records) \in h
  PROVE  LET e == FoldStats(FollowLastRunIfMoved(IngestAppended(d, lines, closed)))
         IN Truthful(e, h) /\ e.seen = lines
<1> DEFINE n == Len(d.records)
           recs == SubSeq(d.records, 1, n - 1) \o Scan(lines, closed, TailStart(d))
           changed == ProvisionalChanged(d, lines, closed)
           indexed == [d EXCEPT !.seen = lines, !.records = recs,
                        !.sums = IF ~changed /\ Len(recs) = n THEN @
                                 ELSE ExtendedSums(@, recs, IF changed THEN n - 1 ELSE n)]
           runs == WithRuns(indexed, indexed.runs, n + 1)
           split == UpdateRunsAfterAppend(indexed, n)
           shown == IF d.view.active THEN ExtendView(split, n, changed) ELSE split
           ingested == IngestAppended(d, lines, closed)
           moved == FollowLastRunIfMoved(ingested)
<1>1. IndexHolds(d) /\ RunsTell(d, d.runs, g, n) /\ DOMAIN d = Fields
  BY DEF Truthful, Chosen, Bounded, IndexHolds
<1>2. ingested = UpdateDigestAfterAppend(shown, n, changed, n) BY DEF IngestAppended
<1> HIDE DEF changed, recs
<1>3. /\ DOMAIN indexed = Fields /\ indexed.seen = lines /\ indexed.runs = d.runs
      /\ indexed.records = recs /\ indexed.selected = d.selected
      /\ indexed.follow = d.follow /\ indexed.bound = d.bound /\ indexed.memo = d.memo
  BY <1>1 DEF Fields
<1> HIDE DEF indexed
<1>4. Reindexed(d, indexed, lines, closed) BY <1>3 DEF Reindexed, recs
<1>5. /\ IndexHolds(indexed) /\ n \in 0 .. Len(indexed.records)
      /\ RunsTell(indexed, d.runs, h, n)
      /\ \A i \in 1 .. n : /\ d.records[i].ok => indexed.records[i].ok
                           /\ indexed.records[i].ok => (d.records[i].ok \/ i \in h)
  <2> HIDE DEF n
  <2>1. IndexHolds(d) /\ RunsTell(d, d.runs, g, Len(d.records)) BY <1>1 DEF n
  <2>2. /\ IndexHolds(indexed) /\ Len(d.records) \in 0 .. Len(indexed.records)
        /\ RunsTell(indexed, d.runs, h, Len(d.records))
        /\ \A i \in 1 .. Len(d.records) :
             /\ d.records[i].ok => indexed.records[i].ok
             /\ indexed.records[i].ok => (d.records[i].ok \/ i \in h)
    <3>1. Appends(d, indexed, lines, closed, g, h) BY <1>4, <2>1 DEF Appends
    <3> QED BY <3>1, IndexGoesOn
  <2> QED BY <2>2 DEF n
<1> HIDE DEF n
<1>6. RunsTell(indexed, runs, h, Len(indexed.records)) /\ Len(runs) >= Len(d.runs)
  <2>1. RunsTell(indexed, indexed.runs, h, n) BY <1>3, <1>5
  <2>2. /\ RunsTell(indexed, WithRuns(indexed, indexed.runs, n + 1), h, Len(indexed.records))
        /\ Len(WithRuns(indexed, indexed.runs, n + 1)) >= Len(indexed.runs)
    BY <1>5, <2>1, RunsGoOn
  <2> QED BY <1>3, <2>2
<1>7. split = IF runs = indexed.runs THEN indexed
              ELSE RecomputeViewBounds([indexed EXCEPT !.runs = runs])
  BY DEF UpdateRunsAfterAppend
<1> HIDE DEF runs, split
<1>8. /\ DOMAIN split = Fields /\ split.seen = lines /\ split.records = indexed.records
      /\ split.runs = runs /\ split.selected = d.selected /\ split.follow = d.follow
      /\ split.memo = d.memo /\ split.bound = BoundOf(runs, d.selected)
  <2>1. CASE runs = indexed.runs BY <1>3, <1>7, <2>1 DEF Truthful, Chosen, Bounded
  <2>2. CASE runs # indexed.runs
    <3> DEFINE x == [indexed EXCEPT !.runs = runs]
    <3>1. /\ DOMAIN x = Fields /\ x.seen = lines /\ x.records = indexed.records
          /\ x.runs = runs /\ x.selected = d.selected /\ x.follow = d.follow
          /\ x.memo = d.memo
      BY <1>3 DEF Fields
    <3>2. split = RecomputeViewBounds(x) BY <1>7, <2>2
    <3> HIDE DEF x
    <3> QED BY <3>1, <3>2, BoundIsRecomputed
  <2> QED BY <2>1, <2>2
<1>9. Bounded(split, h)
  <2>1. IndexHolds(split) BY <1>3, <1>5, <1>8 DEF IndexHolds
  <2>2. \A i : IsMarker(split, i) = IsMarker(indexed, i) BY <1>3, <1>8 DEF IsMarker
  <2>3. RunsTell(split, split.runs, h, Len(split.records))
    BY <1>6, <1>8, <2>2 DEF RunsTell
  <2>4. split.selected \in 0 .. Len(split.runs)
    <3>1. d.selected \in 0 .. Len(d.runs) BY DEF Truthful, Chosen, Bounded
    <3>2. Len(d.runs) \in Nat /\ Len(runs) \in Nat BY <1>1, <1>6 DEF RunsTell
    <3> QED BY <1>6, <1>8, <3>1, <3>2
  <2> QED BY <1>8, <2>1, <2>3, <2>4 DEF Bounded
<1>10. SameIndex(split, shown) BY <1>8, ViewAlone, OneFieldApart
<1>11. SameIndex(split, ingested)
  <2>1. DOMAIN shown = Fields BY <1>10 DEF SameIndex, SameRuns
  <2> HIDE DEF shown
  <2>2. SameIndex(shown, ingested) BY <1>2, <2>1, DigestAlone
  <2> QED BY <1>10, <2>2, SameIsTransitive
<1> HIDE DEF shown, ingested, moved
<1>12. /\ Bounded(ingested, h) /\ DOMAIN ingested = Fields
       /\ ingested.records = indexed.records /\ ingested.seen = lines
       /\ ingested.memo = d.memo
  BY <1>8, <1>9, <1>11, SameIsChosen DEF SameIndex, SameRuns
<1>13. /\ Chosen(moved, h) /\ moved.records = indexed.records /\ moved.seen = lines
       /\ moved.memo = d.memo
  <2>1. CASE ~ingested.follow \/ ingested.selected = Len(ingested.runs)
    <3>1. moved = ingested BY <2>1 DEF moved, FollowLastRunIfMoved
    <3> QED BY <1>12, <2>1, <3>1 DEF Chosen
  <2>2. CASE ~(~ingested.follow \/ ingested.selected = Len(ingested.runs))
    <3> DEFINE x == [ingested EXCEPT !.selected = Len(ingested.runs)]
               y == RecomputeViewBounds(x)
               z == ApplyFilters(y)
    <3>1. moved = RebuildDigest(z) BY <2>2 DEF moved, FollowLastRunIfMoved
    <3>2. /\ DOMAIN x = Fields /\ x.seen = lines /\ x.records = indexed.records
          /\ x.runs = ingested.runs /\ x.selected = Len(ingested.runs)
          /\ x.memo = d.memo
      BY <1>12 DEF Fields
    <3> HIDE DEF x
    <3>3. /\ DOMAIN y = Fields /\ y.seen = lines /\ y.records = indexed.records
          /\ y.runs = ingested.runs /\ y.selected = Len(ingested.runs)
          /\ y.memo = d.memo /\ y.bound = BoundOf(ingested.runs, Len(ingested.runs))
      BY <3>2, BoundIsRecomputed
    <3> HIDE DEF y
    <3>4. Chosen(y, h)
      <4>1. IndexHolds(y) BY <1>12, <3>3 DEF Bounded, IndexHolds
      <4>2. \A i : IsMarker(y, i) = IsMarker(ingested, i) BY <1>12, <3>3 DEF IsMarker
      <4>3. RunsTell(y, y.runs, h, Len(y.records))
        BY <1>12, <3>3, <4>2 DEF Bounded, RunsTell
      <4>4. Len(ingested.runs) \in Nat BY <1>12 DEF Bounded, RunsTell
      <4> QED BY <3>3, <4>1, <4>3, <4>4 DEF Chosen, Bounded
    <3>5. SameIndex(y, z) BY <3>3, ViewAlone
    <3>6. DOMAIN z = Fields BY <3>5 DEF SameIndex, SameRuns
    <3> HIDE DEF z
    <3>7. SameIndex(z, moved) BY <3>1, <3>6, DigestAlone
    <3>8. SameIndex(y, moved) BY <3>5, <3>7, SameIsTransitive
    <3> QED BY <3>3, <3>4, <3>8, SameIsChosen DEF SameIndex, SameRuns
  <2> QED BY <2>1, <2>2
\* The count.
<1>14. SameRuns(moved, FoldStats(moved)) /\ Counted(FoldStats(moved), h)
  <2> DEFINE O == {i \in 1 .. n : moved.records[i].ok}
  <2>1. IndexHolds(moved) /\ n \in 0 .. Len(moved.records)
    BY <1>5, <1>13 DEF Chosen, Bounded
  <2>2. moved.memo.scanned = n /\ moved.memo.count \in Nat
    BY <1>13 DEF Truthful, Counted, n
  <2>3. ErrorsOf(d) = {i \in 1 .. n : d.records[i].ok} BY DEF ErrorsOf, n
  <2>4. ErrorsOf(d) \in SUBSET O /\ O \ h \in SUBSET (ErrorsOf(d) \ g)
    BY <1>5, <1>13, <2>3
  <2>5. n \in Nat /\ O \in SUBSET (1 .. n) /\ ErrorsOf(d) \in SUBSET (1 .. n)
    BY <2>1, <2>3
  <2> HIDE DEF O
  <2>6. IsFiniteSet(O) /\ IsFiniteSet(ErrorsOf(d))
    <3>1. IsFiniteSet(1 .. n) BY <2>5, FS_Interval
    <3> QED BY <2>5, <3>1, FS_Subset
  <2>7. IsFiniteSet(ErrorsOf(d) \ g) BY <2>6, FS_Subset
  <2>8. /\ Cardinality(ErrorsOf(d)) <= Cardinality(O)
        /\ Cardinality(O \ h) <= Cardinality(ErrorsOf(d) \ g)
    BY <2>4, <2>6, <2>7, FS_Subset
  <2>9. /\ Cardinality(ErrorsOf(d)) \in Nat /\ Cardinality(O) \in Nat
        /\ Cardinality(O \ h) \in Nat /\ Cardinality(ErrorsOf(d) \ g) \in Nat
    <3>1. IsFiniteSet(O \ h) BY <2>6, FS_Subset
    <3> QED BY <2>6, <2>7, <3>1, FS_CardinalityType
  <2>10. /\ Cardinality(ErrorsOf(d) \ g) <= moved.memo.count
         /\ moved.memo.count <= Cardinality(ErrorsOf(d))
    BY <1>13 DEF Truthful, Counted
  <2>11. Cardinality(O \ h) <= moved.memo.count /\ moved.memo.count <= Cardinality(O)
    BY <2>2, <2>8, <2>9, <2>10
  <2>12. /\ Cardinality({i \in 1 .. n : moved.records[i].ok} \ h) <= moved.memo.count
         /\ moved.memo.count <= Cardinality({i \in 1 .. n : moved.records[i].ok})
    BY <2>11 DEF O
  <2> QED BY <2>1, <2>2, <2>12, CountGoesOn
<1>15. Truthful(FoldStats(moved), h) /\ FoldStats(moved).seen = lines
  BY <1>13, <1>14, SameIsChosen DEF Truthful, SameRuns
<1> QED BY <1>15 DEF moved, ingested

\* A scan shows the reader a document that tells the truth.
LEMMA PresentedTellsTheTruth ==
  ASSUME NEW d, DOMAIN d = Fields, NEW lines \in Seq(Lines), NEW closed \in BOOLEAN
  PROVE  LET e == Presented(Indexed(Cleared(d), lines, closed))
         IN Truthful(e, {}) /\ e.seen = lines
<1> DEFINE chosen == SelectLastRun(DetectRuns(Indexed(Cleared(d), lines, closed)))
           shown == IF Restricts(chosen) THEN ApplyFilters(chosen) ELSE chosen
           digest == RebuildDigest(shown)
<1>1. Chosen(chosen, {}) /\ chosen.seen = lines /\ chosen.memo = [scanned |-> 0, count |-> 0]
  BY ReadFromTheTop
<1>2. Presented(Indexed(Cleared(d), lines, closed)) = FoldStats(digest) BY DEF Presented
<1> HIDE DEF chosen
<1>3. DOMAIN chosen = Fields BY <1>1 DEF Chosen, Bounded, IndexHolds
<1>4. SameIndex(chosen, shown) BY <1>3, ViewAlone, OneFieldApart
<1> HIDE DEF shown
<1>5. DOMAIN shown = Fields BY <1>4 DEF SameIndex, SameRuns
<1>6. SameIndex(shown, digest) BY <1>5, DigestAlone
<1> HIDE DEF digest
<1>7. SameIndex(chosen, digest) BY <1>4, <1>6, SameIsTransitive
<1>8. Chosen(digest, {}) /\ digest.memo = [scanned |-> 0, count |-> 0] /\ digest.seen = lines
  BY <1>1, <1>7, SameIsChosen DEF SameIndex, SameRuns
<1>9. Truthful(FoldStats(digest), {}) /\ FoldStats(digest).seen = lines
  BY <1>8, CountFromTheTop
<1> QED BY <1>2, <1>9

\* So does the tick that finds the file replaced.
LEMMA RotatedTellsTheTruth ==
  ASSUME NEW d, DOMAIN d = Fields, NEW lines \in Seq(Lines), NEW closed \in BOOLEAN
  PROVE  LET read   == SelectLastRun(DetectRuns(Indexed(Cleared(d), lines, closed)))
             digest == RebuildDigest(read)
             e      == FoldStats(IF Restricts(digest) THEN ApplyFilters(digest) ELSE digest)
         IN Truthful(e, {}) /\ e.seen = lines
<1> DEFINE read   == SelectLastRun(DetectRuns(Indexed(Cleared(d), lines, closed)))
           digest == RebuildDigest(read)
           shown  == IF Restricts(digest) THEN ApplyFilters(digest) ELSE digest
<1>1. Chosen(read, {}) /\ read.seen = lines /\ read.memo = [scanned |-> 0, count |-> 0]
  BY ReadFromTheTop
<1> HIDE DEF read
<1>2. DOMAIN read = Fields BY <1>1 DEF Chosen, Bounded, IndexHolds
<1>3. SameIndex(read, digest) BY <1>2, DigestAlone
<1> HIDE DEF digest
<1>4. DOMAIN digest = Fields BY <1>3 DEF SameIndex, SameRuns
<1>5. SameIndex(digest, shown) BY <1>4, ViewAlone, OneFieldApart
<1> HIDE DEF shown
<1>6. SameIndex(read, shown) BY <1>3, <1>5, SameIsTransitive
<1>7. Chosen(shown, {}) /\ shown.memo = [scanned |-> 0, count |-> 0] /\ shown.seen = lines
  BY <1>1, <1>6, SameIsChosen DEF SameIndex, SameRuns
<1>8. Truthful(FoldStats(shown), {}) /\ FoldStats(shown).seen = lines
  BY <1>7, CountFromTheTop
<1> QED BY <1>8 DEF shown, digest, read

\* A run is picked, or all of them (Document::selectRun(), MainWindow::applyFilters()).
LEMMA PickTellsTheTruth ==
  ASSUME NEW d, NEW g, Truthful(d, g), NEW k \in 0 .. Len(d.runs)
  PROVE  LET e == ApplyFilters(SelectRun(d, k)) IN Truthful(e, g) /\ e.seen = d.seen
<1> DEFINE x == [d EXCEPT !.selected = k, !.follow = k > 0 /\ k = Len(d.runs)]
           y == RecomputeViewBounds(x)
<1>1. IndexHolds(d) /\ DOMAIN d = Fields /\ Counted(d, g) /\ RunsTell(d, d.runs, g, Len(d.records))
  BY DEF Truthful, Chosen, Bounded, IndexHolds
<1>2. /\ DOMAIN x = Fields /\ x.seen = d.seen /\ x.records = d.records /\ x.runs = d.runs
      /\ x.selected = k /\ x.memo = d.memo /\ (x.follow => k = Len(d.runs))
  BY <1>1 DEF Fields
<1>3. SelectRun(d, k) = y BY DEF SelectRun
<1> HIDE DEF x
<1>4. /\ DOMAIN y = Fields /\ y.seen = d.seen /\ y.records = d.records /\ y.runs = d.runs
      /\ y.selected = k /\ y.memo = d.memo /\ (y.follow => k = Len(d.runs))
      /\ y.bound = BoundOf(d.runs, k)
  BY <1>2, BoundIsRecomputed
<1> HIDE DEF y
<1>5. IndexHolds(y) BY <1>1, <1>4 DEF IndexHolds
<1>6. \A i : IsMarker(y, i) = IsMarker(d, i) BY <1>4 DEF IsMarker
<1>7. RunsTell(y, y.runs, g, Len(y.records)) BY <1>1, <1>4, <1>6 DEF RunsTell
<1>8. Truthful(y, g)
  <2>1. ErrorsOf(y) = ErrorsOf(d) BY <1>4 DEF ErrorsOf
  <2> QED BY <1>1, <1>4, <1>5, <1>7, <2>1 DEF Truthful, Chosen, Bounded, Counted
<1>9. SameIndex(y, ApplyFilters(y)) BY <1>4, ViewAlone
<1> QED BY <1>3, <1>4, <1>8, <1>9, SameIsChosen DEF SameIndex, SameRuns

\* The filter is changed, which the runs know nothing of.
LEMMA FilterTellsTheTruth ==
  ASSUME NEW d, NEW g, Truthful(d, g), NEW f
  PROVE  LET e == ApplyFilters([d EXCEPT !.filter = f]) IN Truthful(e, g) /\ e.seen = d.seen
<1> DEFINE x == [d EXCEPT !.filter = f]
<1>1. DOMAIN d = Fields BY DEF Truthful, Chosen, Bounded, IndexHolds
<1>2. SameIndex(d, x) /\ DOMAIN x = Fields BY <1>1 DEF SameIndex, SameRuns, Fields
<1> HIDE DEF x
<1>3. SameIndex(x, ApplyFilters(x)) BY <1>2, ViewAlone
<1>4. SameIndex(d, ApplyFilters(x)) BY <1>2, <1>3, SameIsTransitive
<1>5. Truthful(ApplyFilters(x), g) /\ ApplyFilters(x).seen = d.seen
  BY <1>4, SameIsChosen DEF SameIndex, SameRuns
<1> QED BY <1>5 DEF x

\* While the worker scans, the document is nobody's; once the log is watched, what was read of
\* it is what it holds, the last line perhaps a prefix, and all that is listed follows from it.
RunsInv ==
  /\ file \in Seq(Lines) /\ shut \in BOOLEAN /\ DOMAIN doc = Fields
  /\ stage = "live" => ReadFrom(doc.seen, file) /\ Truthful(doc, grown)

\* An unread log lists nothing.
LEMMA InitRuns == ViewInit => RunsInv
  BY DEF ViewInit, RunsInv, EmptyDoc, Fields

\* A line that a prefix may become is what a longer prefix of it may become.
LEMMA GlimpseFacts ==
  ASSUME NEW l \in Lines
  PROVE  /\ Glimpsed(l, l)
         /\ \A p \in Glimpses(l) : p \in Lines /\ Glimpsed(p, l)
         /\ \A p \in Glimpses(l), q \in Lines : Glimpsed(q, p) => Glimpsed(q, l)
<1>1. \A q \in Lines : q.start \in BOOLEAN /\ q.low \in BOOLEAN /\ q.mark \in BOOLEAN
  BY RecordViewAssumption
<1>2. ASSUME NEW p \in Glimpses(l)
      PROVE  p \in Lines /\ Glimpsed(p, l)
  <2>1. p \in Lines BY DEF Glimpses
  <2>2. (p.start => (l.start /\ p.low = l.low)) /\ (p.mark => l.mark)
    BY Zenon DEF Glimpses
  <2> QED BY <2>1, <2>2, Zenon DEF Glimpsed
<1> QED BY <1>1, <1>2, Zenon DEF Glimpsed

\* What the shape of a document is, where its runs are told.
LEMMA TruthIsKnown ==
  ASSUME NEW d, NEW g, Truthful(d, g)
  PROVE  DOMAIN d = Fields /\ d.seen \in Seq(Lines)
  BY DEF Truthful, Chosen, Bounded, IndexHolds

\* What was read of the log is still a prefix of it after a line is written or finished.
LEMMA WriterKeeps ==
  ASSUME RunsInv, NEW l \in Lines, NEW whole \in BOOLEAN, WriteLine(l, whole) \/ FinishLine(l)
  PROVE  RunsInv'
<1>1. UNCHANGED <<stage, doc, grown>> /\ shut' \in BOOLEAN BY DEF WriteLine, FinishLine
<1>2. file \in Seq(Lines) /\ Len(file) \in Nat BY DEF RunsInv
<1>3. CASE WriteLine(l, whole)
  <2>1. file' = Append(file, l) BY <1>3 DEF WriteLine
  <2>2. /\ file' \in Seq(Lines) /\ Len(file') = Len(file) + 1
        /\ \A k \in 1 .. Len(file) : file'[k] = file[k]
    BY <1>2, <2>1
  <2>3. stage = "live" => ReadFrom(doc.seen, file')
    <3> SUFFICES ASSUME stage = "live" PROVE ReadFrom(doc.seen, file') OBVIOUS
    <3>1. ReadFrom(doc.seen, file) /\ doc.seen \in Seq(Lines) BY TruthIsKnown DEF RunsInv
    <3>2. Len(doc.seen) \in Nat BY <3>1
    <3> QED BY <1>2, <2>2, <3>1, <3>2 DEF ReadFrom
  <2> QED BY <1>1, <2>2, <2>3 DEF RunsInv
<1>4. CASE FinishLine(l)
  <2> DEFINE n == Len(file)
  <2>1. file[n] \in Glimpses(l) /\ file' = [file EXCEPT ![n] = l] BY <1>4 DEF FinishLine
  <2>2. file' \in Seq(Lines) /\ Len(file') = n
    <3>1. file \in [1 .. n -> Lines] /\ n \in Nat BY <1>2
    <3> HIDE DEF n
    <3>2. file' \in [1 .. n -> Lines] BY <2>1, <3>1
    <3> QED BY <3>1, <3>2
  <2>3. \A k \in 1 .. n : file'[k] = IF k = n THEN l ELSE file[k] BY <1>2, <2>1
  <2> HIDE DEF n
  <2>4. stage = "live" => ReadFrom(doc.seen, file')
    <3> SUFFICES ASSUME stage = "live" PROVE ReadFrom(doc.seen, file') OBVIOUS
    <3>1. ReadFrom(doc.seen, file) /\ doc.seen \in Seq(Lines) BY TruthIsKnown DEF RunsInv
    <3>2. Len(doc.seen) \in Nat /\ Len(doc.seen) <= n /\ n \in Nat
      BY <1>2, <3>1 DEF ReadFrom, n
    <3>3. ASSUME NEW k \in 1 .. Len(doc.seen)
          PROVE  /\ k < Len(doc.seen) => file'[k] = doc.seen[k]
                 /\ Glimpsed(doc.seen[k], file'[k])
      <4>1. /\ k < Len(doc.seen) => file[k] = doc.seen[k]
            /\ Glimpsed(doc.seen[k], file[k])
        BY <3>1 DEF ReadFrom
      <4>2. k \in 1 .. n /\ doc.seen[k] \in Lines BY <3>1, <3>2
      <4>3. CASE k # n BY <2>3, <4>1, <4>2, <4>3
      <4>4. CASE k = n
        <5>1. file'[k] = l /\ ~(k < Len(doc.seen)) BY <2>3, <3>2, <4>2, <4>4
        <5>2. Glimpsed(doc.seen[k], l) BY <2>1, <4>1, <4>2, <4>4, GlimpseFacts
        <5> QED BY <5>1, <5>2
      <4> QED BY <4>3, <4>4
    <3> QED BY <2>2, <3>2, <3>3 DEF ReadFrom
  <2> QED BY <1>1, <2>2, <2>4 DEF RunsInv
<1> QED BY <1>3, <1>4

\* A scan ends at the size the log had when it began.
LEMMA ScanKeeps == RunsInv /\ FinishScan => RunsInv'
<1> SUFFICES ASSUME RunsInv, FinishScan PROVE RunsInv' OBVIOUS
<1>1. file \in Seq(Lines) /\ shut \in BOOLEAN /\ DOMAIN doc = Fields /\ Len(file) \in Nat
  BY DEF RunsInv
<1>2. UNCHANGED <<file, shut>> /\ grown' = {} BY DEF FinishScan
<1>3. \A k \in 1 .. Len(file) : file[k] \in Lines /\ Glimpsed(file[k], file[k])
  BY <1>1, GlimpseFacts
<1>4. ASSUME NEW lines \in Seq(Lines), NEW closed \in BOOLEAN, ReadFrom(lines, file),
             doc' = Presented(Indexed(Cleared(doc), lines, closed))
      PROVE  RunsInv'
  <2>1. Truthful(doc', {}) /\ doc'.seen = lines BY <1>1, <1>4, PresentedTellsTheTruth
  <2>2. DOMAIN doc' = Fields BY <2>1, TruthIsKnown
  <2> QED BY <1>1, <1>2, <1>4, <2>1, <2>2 DEF RunsInv
<1>5. ASSUME NEW n \in 0 .. Len(file),
             doc' = Presented(Indexed(Cleared(doc), SubSeq(file, 1, n), n < Len(file) \/ shut))
      PROVE  RunsInv'
  <2> DEFINE lines == SubSeq(file, 1, n)
  <2>1. /\ lines \in Seq(Lines) /\ Len(lines) = n
        /\ \A k \in 1 .. n : lines[k] = file[k]
    BY <1>1
  <2>2. ReadFrom(lines, file)
    <3> HIDE DEF lines
    <3>1. \A k \in 1 .. n : k \in 1 .. Len(file) BY <1>1
    <3> QED BY <1>1, <1>3, <2>1, <3>1 DEF ReadFrom
  <2>3. (n < Len(file) \/ shut) \in BOOLEAN BY <1>1
  <2> HIDE DEF lines
  <2>4. doc' = Presented(Indexed(Cleared(doc), lines, n < Len(file) \/ shut))
    BY <1>5 DEF lines
  <2> QED BY <1>4, <2>1, <2>2, <2>3, <2>4
<1>6. ASSUME NEW n \in 1 .. Len(file), NEW p \in Glimpses(file[n]),
             doc' = Presented(Indexed(Cleared(doc), Append(SubSeq(file, 1, n - 1), p), FALSE))
      PROVE  RunsInv'
  <2> DEFINE head == SubSeq(file, 1, n - 1)
             lines == Append(head, p)
  <2>1. /\ head \in Seq(Lines) /\ Len(head) = n - 1
        /\ \A k \in 1 .. n - 1 : head[k] = file[k]
    BY <1>1
  <2>2. file[n] \in Lines /\ p \in Lines /\ Glimpsed(p, file[n])
    BY <1>1, <1>6, GlimpseFacts
  <2> HIDE DEF head
  <2>3. /\ lines \in Seq(Lines) /\ Len(lines) = n /\ lines[n] = p
        /\ \A k \in 1 .. n - 1 : lines[k] = file[k]
    BY <2>1, <2>2
  <2> HIDE DEF lines
  <2>4. ReadFrom(lines, file)
    <3>1. ASSUME NEW k \in 1 .. Len(lines)
          PROVE  /\ k < Len(lines) => file[k] = lines[k]
                 /\ Glimpsed(lines[k], file[k])
      <4>1. CASE k = n BY <2>2, <2>3, <4>1
      <4>2. CASE k # n
        <5>1. k \in 1 .. n - 1 /\ k \in 1 .. Len(file) BY <1>1, <2>3, <4>2
        <5> QED BY <1>3, <2>3, <5>1
      <4> QED BY <4>1, <4>2
    <3> QED BY <1>1, <2>3, <3>1 DEF ReadFrom
  <2>5. doc' = Presented(Indexed(Cleared(doc), lines, FALSE)) BY <1>6 DEF lines, head
  <2> QED BY <1>4, <2>3, <2>4, <2>5
<1> QED BY <1>5, <1>6 DEF FinishScan

\* A tick reads the log again from the last record on.
LEMMA TickKeeps == RunsInv /\ Tick => RunsInv'
<1> SUFFICES ASSUME RunsInv, Tick PROVE RunsInv' OBVIOUS
<1> DEFINE moved == FoldStats(FollowLastRunIfMoved(IngestAppended(doc, file, shut)))
           more  == IF ProvisionalChanged(doc, file, shut) THEN {Len(doc.records)} ELSE {}
<1>1. /\ file \in Seq(Lines) /\ shut \in BOOLEAN /\ stage = "live"
      /\ ReadFrom(doc.seen, file) /\ Truthful(doc, grown)
  BY DEF RunsInv, Tick
<1>2. doc' = moved /\ grown' = grown \cup more /\ UNCHANGED <<file, shut, stage>>
  BY DEF Tick
<1>3. grown \subseteq grown \cup more
      /\ (ProvisionalChanged(doc, file, shut) => Len(doc.records) \in grown \cup more)
  OBVIOUS
<1>4. Truthful(moved, grown \cup more) /\ moved.seen = file
  BY <1>1, <1>3, TickTellsTheTruth
<1>5. ReadFrom(file, file) BY <1>1, GlimpseFacts DEF ReadFrom
<1> HIDE DEF moved, more
<1>6. Truthful(doc', grown') /\ ReadFrom(doc'.seen, file') BY <1>2, <1>4, <1>5
<1> QED BY <1>1, <1>2, <1>6, TruthIsKnown DEF RunsInv

\* The replaced log is read from the top.
LEMMA RotateKeeps == ASSUME RunsInv, NEW l \in Lines, Rotate(l) PROVE RunsInv'
<1> DEFINE read   == SelectLastRun(DetectRuns(Indexed(Cleared(doc), <<l>>, TRUE)))
           digest == RebuildDigest(read)
           whole  == FoldStats(IF Restricts(digest) THEN ApplyFilters(digest) ELSE digest)
<1>1. doc' = whole /\ file' = <<l>> /\ shut' = TRUE /\ grown' = {} BY DEF Rotate
<1>2. DOMAIN doc = Fields /\ <<l>> \in Seq(Lines) /\ TRUE \in BOOLEAN BY DEF RunsInv
<1>3. Truthful(whole, {}) /\ whole.seen = <<l>> BY <1>2, RotatedTellsTheTruth
<1>4. ReadFrom(<<l>>, <<l>>) BY GlimpseFacts DEF ReadFrom
<1> HIDE DEF whole
<1>5. Truthful(doc', grown') /\ ReadFrom(doc'.seen, file') BY <1>1, <1>3, <1>4
<1> QED BY <1>1, <1>2, <1>5, TruthIsKnown DEF RunsInv

\* The reader's own steps read nothing.
LEMMA ReaderKeeps ==
  ASSUME RunsInv, stage = "live",
         \/ \E f \in Filters : ChangeFilter(f)
         \/ \E k \in 0 .. MaxLines : PickRun(k)
  PROVE  RunsInv'
<1>1. Truthful(doc, grown) /\ ReadFrom(doc.seen, file) BY DEF RunsInv
<1>2. UNCHANGED <<file, shut, stage, grown>> BY DEF ChangeFilter, PickRun
<1>3. Truthful(doc', grown) /\ doc'.seen = doc.seen
  <2>1. ASSUME NEW f \in Filters, ChangeFilter(f)
        PROVE  Truthful(doc', grown) /\ doc'.seen = doc.seen
    <3>1. doc' = ApplyFilters([doc EXCEPT !.filter = f]) BY <2>1, Zenon DEF ChangeFilter
    <3>2. LET e == ApplyFilters([doc EXCEPT !.filter = f])
          IN Truthful(e, grown) /\ e.seen = doc.seen
      BY <1>1, FilterTellsTheTruth, Zenon
    <3> QED BY <3>1, <3>2, Zenon
  <2>2. ASSUME NEW k \in 0 .. MaxLines, PickRun(k)
        PROVE  Truthful(doc', grown) /\ doc'.seen = doc.seen
    <3>1. doc' = ApplyFilters(SelectRun(doc, k)) /\ k \in 0 .. Len(doc.runs)
      BY <2>2, Zenon DEF PickRun
    <3>2. LET e == ApplyFilters(SelectRun(doc, k))
          IN Truthful(e, grown) /\ e.seen = doc.seen
      BY <1>1, <3>1, PickTellsTheTruth, Zenon
    <3> QED BY <3>1, <3>2, Zenon
  <2> QED BY <2>1, <2>2
<1>4. Truthful(doc', grown') /\ ReadFrom(doc'.seen, file') BY <1>1, <1>2, <1>3
<1> QED BY <1>2, <1>4, TruthIsKnown DEF RunsInv

\* One lemma for each kind of step.
LEMMA NextRuns == RunsInv /\ [ViewNext]_viewVars => RunsInv'
<1> SUFFICES ASSUME RunsInv, [ViewNext]_viewVars PROVE RunsInv' OBVIOUS
<1>1. CASE \E l \in Lines, whole \in BOOLEAN : WriteLine(l, whole) BY <1>1, WriterKeeps
<1>2. CASE \E l \in Lines : FinishLine(l) BY <1>2, WriterKeeps
<1>3. CASE \E l \in Lines : Rotate(l) BY <1>3, RotateKeeps
<1>4. CASE FinishScan BY <1>4, ScanKeeps
<1>5. CASE Tick BY <1>5, TickKeeps
<1>6. CASE \/ \E f \in Filters : ChangeFilter(f)
           \/ \E k \in 0 .. MaxLines : PickRun(k)
  <2>1. stage = "live" BY <1>6 DEF ChangeFilter, PickRun
  <2> QED BY <1>6, <2>1, ReaderKeeps
<1>7. CASE UNCHANGED viewVars BY <1>7 DEF RunsInv, viewVars
<1> QED BY <1>1, <1>2, <1>3, <1>4, <1>5, <1>6, <1>7 DEF ViewNext

\* What the Runs pane shows of a document the invariant holds of.
LEMMA TruthIsListed == RunsInv => RunsAreListed
<1> SUFFICES ASSUME Truthful(doc, grown) PROVE RunsAreListed BY DEF RunsInv, RunsAreListed
<1>1. /\ DOMAIN doc = Fields /\ RunsTell(doc, doc.runs, grown, Len(doc.records))
      /\ doc.bound = BoundOf(doc.runs, doc.selected)
      /\ doc.follow => doc.selected = Len(doc.runs)
      /\ Counted(doc, grown) /\ doc.records \in Seq(RecordRecs)
  BY DEF Truthful, Chosen, Bounded, IndexHolds
<1>2. doc.runs \in Seq(RunRecs) /\ Len(doc.runs) \in Nat BY <1>1 DEF RunsTell
<1>3. Listed = RowsOf(doc.runs) BY DEF Listed, RowsOf
<1>4. \A k \in 1 .. (Len(doc.runs) - 1) : doc.runs[k].row < doc.runs[k + 1].row
  <2> SUFFICES ASSUME NEW k \in 1 .. (Len(doc.runs) - 1)
               PROVE  doc.runs[k].row < doc.runs[k + 1].row
    OBVIOUS
  <2>1. k \in 1 .. Len(doc.runs) /\ k + 1 \in 1 .. Len(doc.runs) /\ k < k + 1 BY <1>2
  <2> QED BY <1>1, <2>1 DEF RunsTell
<1>5. \A k \in 1 .. Len(doc.runs) :
        IF doc.runs[k].preamble THEN k = 1 /\ doc.runs[k].row = 1
        ELSE IsMarker(doc, doc.runs[k].row)
  BY <1>1 DEF RunsTell
<1>6. \A i \in 1 .. Len(doc.records) : IsMarker(doc, i) => i \in Listed \cup grown
  BY <1>1, <1>3 DEF RunsTell
<1>7. doc.runs # <<>> => 1 \in Listed
  <2> SUFFICES ASSUME doc.runs # <<>> PROVE 1 \in Listed OBVIOUS
  <2>1. 1 \in 1 .. Len(doc.runs) BY <1>2
  <2>2. doc.runs[1].row = 1 BY <1>1 DEF RunsTell
  <2> QED BY <2>1, <2>2 DEF Listed
<1>8. doc.bound = RecomputeViewBounds(doc).bound BY <1>1, BoundIsRecomputed
<1>9. LET errors == {i \in 1 .. Len(doc.records) : doc.records[i].ok}
      IN doc.memo.count \in Cardinality(errors \ grown) .. Cardinality(errors)
  <2>1. Len(doc.records) \in Nat BY <1>1
  <2>2. IsFiniteSet(1 .. Len(doc.records)) BY <2>1, FS_Interval
  <2>3. IsFiniteSet(ErrorsOf(doc)) /\ IsFiniteSet(ErrorsOf(doc) \ grown)
    BY <2>2, FS_Subset DEF ErrorsOf
  <2>4. Cardinality(ErrorsOf(doc)) \in Nat /\ Cardinality(ErrorsOf(doc) \ grown) \in Nat
    BY <2>3, FS_CardinalityType
  <2>5. doc.memo.count \in Cardinality(ErrorsOf(doc) \ grown) .. Cardinality(ErrorsOf(doc))
    BY <1>1, <2>4 DEF Counted
  <2> QED BY <2>5 DEF ErrorsOf
<1> QED BY <1>1, <1>4, <1>5, <1>6, <1>7, <1>8, <1>9 DEF RunsAreListed

\* The Runs pane of a live log tells the truth, whatever the log holds and however it grows:
\* detectRuns() and updateRunsAfterAppend() list the markers in order and each once, the
\* view is bounded by the run selected, and fileStats() misses only records that grew.
THEOREM RunsStayListed == ViewSpec => []RunsAreListed
<1>1. ViewInit => RunsInv BY InitRuns
<1>2. RunsInv /\ [ViewNext]_viewVars => RunsInv' BY NextRuns
<1>3. RunsInv => RunsAreListed BY TruthIsListed
<1> QED BY <1>1, <1>2, <1>3, PTL DEF ViewSpec

-----------------------------------------------------------------------------
(* The view is the one a search from the top gives *)

\* A set of numbers that has a member has a least one.
LEMMA LeastPlace ==
  ASSUME NEW S \in SUBSET Nat, S # {}
  PROVE  \E x \in S : \A y \in S : x <= y
<1> DEFINE R == OpToRel(<, Nat)
<1>1. PICK x \in S : \A y \in S : ~(<<y, x>> \in R) BY NatLessThanWellFounded, WFMin
<1>2. \A y \in S : ~(y < x) BY <1>1 DEF OpToRel
<1>3. \A y \in S : x <= y BY <1>2
<1> QED BY <1>3

\* What holds where one begins, and at each number if at the one before it, holds as far as
\* one goes.
LEMMA StepByStep ==
  ASSUME NEW m \in Nat, NEW n \in Nat, NEW C, m <= n => m \in C,
         \A r \in (m + 1) .. n : r - 1 \in C => r \in C
  PROVE  \A r \in m .. n : r \in C
<1> DEFINE bad == {r \in m .. n : r \notin C}
<1> SUFFICES ASSUME bad # {} PROVE FALSE OBVIOUS
<1>1. bad \in SUBSET Nat OBVIOUS
<1> HIDE DEF bad
<1>2. PICK r \in bad : \A y \in bad : r <= y BY <1>1, LeastPlace
<1>3. r \in m .. n /\ r \notin C BY <1>2 DEF bad
<1>4. r # m BY <1>3
<1>5. r \in (m + 1) .. n /\ r - 1 \in m .. n /\ ~(r <= r - 1) BY <1>3, <1>4
<1>6. r - 1 \in C BY <1>2, <1>5 DEF bad
<1> QED BY <1>3, <1>5, <1>6

\* A value s at m that is stepped as far as n.
Stepped(f, step, s, m, n) ==
  /\ m <= n => f[m] = s
  /\ \A r \in (m + 1) .. n : f[r] = step[<<r, f[r - 1]>>]

\* A value that is stepped from number to number: there is the function of all of them.
LEMMA Iterates ==
  ASSUME NEW S, NEW m \in Nat, NEW n \in Nat, NEW s \in S,
         NEW step \in [((m + 1) .. n) \X S -> S]
  PROVE  \E f \in [m .. n -> S] : Stepped(f, step, s, m, n)
<1> DEFINE Chain(k, f) == f[m] = s /\ \A r \in (m + 1) .. k : f[r] = step[<<r, f[r - 1]>>]
           Goes(k) == \E f \in [m .. k -> S] : Chain(k, f)
           C == {k \in m .. n : Goes(k)}
<1>1. CASE ~(m <= n)
  <2> DEFINE f == [k \in m .. n |-> s]
  <2>1. f \in [m .. n -> S] /\ (m + 1) .. n = {} BY <1>1
  <2> HIDE DEF f
  <2> QED BY <1>1, <2>1 DEF Stepped
<1>2. CASE m <= n
  <2>1. m \in C
    <3> DEFINE f == [k \in m .. m |-> s]
    <3>1. f \in [m .. m -> S] /\ f[m] = s /\ (m + 1) .. m = {} OBVIOUS
    <3> HIDE DEF f
    <3>2. Chain(m, f) BY <3>1
    <3> QED BY <1>2, <3>1, <3>2
  <2>2. ASSUME NEW r \in (m + 1) .. n, r - 1 \in C PROVE r \in C
    <3>1. PICK f \in [m .. r - 1 -> S] : Chain(r - 1, f) BY <2>2
    <3> DEFINE g == [k \in m .. r |-> IF k < r THEN f[k] ELSE step[<<r, f[r - 1]>>]]
    <3>2. r - 1 \in m .. r - 1 /\ m \in m .. r /\ m < r /\ r \in m .. r /\ r \in m .. n
      OBVIOUS
    <3>3. f[r - 1] \in S /\ step[<<r, f[r - 1]>>] \in S BY <3>2
    <3>4. \A k \in m .. r : k < r => k \in m .. r - 1 OBVIOUS
    <3>5. g \in [m .. r -> S] BY <3>3, <3>4
    <3>6. g[m] = s BY <3>1, <3>2
    <3>7. ASSUME NEW k \in (m + 1) .. r PROVE g[k] = step[<<k, g[k - 1]>>]
      <4>1. k \in m .. r /\ k - 1 \in m .. r /\ k - 1 < r OBVIOUS
      <4>2. g[k - 1] = f[k - 1] BY <4>1
      <4>3. CASE k = r BY <4>1, <4>2, <4>3
      <4>4. CASE k < r
        <5>1. k \in (m + 1) .. (r - 1) /\ g[k] = f[k] BY <4>1, <4>4
        <5> QED BY <3>1, <4>2, <5>1
      <4> QED BY <4>3, <4>4
    <3> HIDE DEF g
    <3>8. Chain(r, g) BY <3>6, <3>7
    <3> QED BY <3>2, <3>5, <3>8
  <2> HIDE DEF C
  <2>3. \A r \in m .. n : r \in C BY <1>2, <2>1, <2>2, StepByStep
  <2>4. n \in C BY <1>2, <2>3
  <2>5. PICK f \in [m .. n -> S] : Chain(n, f) BY <2>4 DEF C
  <2> QED BY <2>5 DEF Stepped
<1> QED BY <1>1, <1>2

-----------------------------------------------------------------------------
\* The members of a set from a to b.
Span(S, a, b)   == {i \in S : a <= i /\ i <= b}
Leads(S, i, m)  == i < m /\ Cardinality(Span(S, i, m - 1)) <= Before
Trails(S, i, m) == m < i /\ Cardinality(Span(S, m + 1, i)) <= After
\* What a search shows of the records up to n: S are those the other filters admit, M those
\* of them that match.
ShownBy(S, M, n) ==
  {i \in S : i <= n /\ (i \in M \/ \E m \in M : m <= n /\ (Leads(S, i, m) \/ Trails(S, i, m)))}

\* A span is finite.
LEMMA SpanIs ==
  ASSUME NEW S \in SUBSET Nat, NEW a \in Nat, NEW b \in Int
  PROVE  IsFiniteSet(Span(S, a, b)) /\ Cardinality(Span(S, a, b)) \in Nat
<1>1. \A i \in Span(S, a, b) : i \in a .. b BY DEF Span
<1>2. IsFiniteSet(a .. b) BY FS_Interval
<1> QED BY <1>1, <1>2, FS_Subset, FS_CardinalityType

\* A wider span has no fewer members.
LEMMA SpanGrows ==
  ASSUME NEW S \in SUBSET Nat, NEW a \in Nat, NEW b \in Int, NEW c \in Nat, NEW e \in Int,
         c <= a, b <= e
  PROVE  Cardinality(Span(S, a, b)) <= Cardinality(Span(S, c, e))
<1>1. \A i \in Span(S, a, b) : i \in Span(S, c, e) BY DEF Span
<1> QED BY <1>1, SpanIs, FS_Subset

\* A wider span that has another member has more.
LEMMA SpanHasMore ==
  ASSUME NEW S \in SUBSET Nat, NEW a \in Nat, NEW b \in Int, NEW c \in Nat, NEW e \in Int,
         c <= a, b <= e, NEW i \in Span(S, c, e), i \notin Span(S, a, b)
  PROVE  Cardinality(Span(S, a, b)) < Cardinality(Span(S, c, e))
<1>1. \A j \in Span(S, a, b) : j \in Span(S, c, e) BY DEF Span
<1> QED BY <1>1, SpanIs, FS_Subset

\* The last of a finite set, or 0.
LEMMA LastIs ==
  ASSUME NEW S \in SUBSET Nat, IsFiniteSet(S)
  PROVE  /\ S = {} => Last0(S) = 0
         /\ S # {} => Last0(S) \in S
         /\ \A x \in S : x <= Last0(S)
         /\ Last0(S) \in Nat
<1>1. CASE S = {} BY <1>1 DEF Last0
<1>2. CASE S # {}
  <2> DEFINE n == Cardinality(S)
             f == InOrder(S)
  <2>1. /\ n \in Nat /\ f \in [1 .. n -> S]
        /\ \A i, j \in 1 .. n : i < j => f[i] < f[j]
        /\ \A x \in S : \E i \in 1 .. n : f[i] = x
    BY InOrderLists
  <2> HIDE DEF n, f
  <2>2. n \in 1 .. n
    <3>1. PICK x \in S : TRUE BY <1>2
    <3>2. PICK i \in 1 .. n : f[i] = x BY <2>1
    <3> QED BY <2>1, <3>2
  <2>3. \A y \in S : y <= f[n]
    <3> SUFFICES ASSUME NEW y \in S PROVE y <= f[n] OBVIOUS
    <3>1. PICK i \in 1 .. n : f[i] = y BY <2>1
    <3>2. i = n \/ i < n BY <2>2
    <3>3. f[i] \in Nat /\ f[n] \in Nat BY <2>1, <2>2
    <3> QED BY <2>1, <2>2, <3>1, <3>2, <3>3
  <2>4. \E x \in S : \A y \in S : y <= x BY <2>1, <2>2, <2>3
  <2> QED BY <1>2, <2>4 DEF Last0
<1> QED BY <1>1, <1>2

\* What is kept of a search up to b where the rows from w on are withdrawn, and the rows there
\* are when the search has gone on up to r.
Kept(S, M, b, w) == {i \in ShownBy(S, M, b) : i < w}
Out(S, M, b, w, r) == ShownBy(S, M, r) \cup Kept(S, M, b, w)
Resumed(S, M, b, w, r) ==
  /\ S \in SUBSET (Nat \ {0}) /\ M \in SUBSET S
  /\ b \in Nat /\ w \in Nat \ {0} /\ r \in Nat \ {0} /\ w <= r /\ w <= b + 1

\* What is shown of less is shown of more; what is shown is admitted.
LEMMA ShownGrows ==
  ASSUME NEW S \in SUBSET Nat, NEW M \in SUBSET S, NEW n \in Nat, NEW k \in Nat, n <= k
  PROVE  /\ \A i \in ShownBy(S, M, n) : i \in ShownBy(S, M, k)
         /\ \A i \in ShownBy(S, M, n) : i \in S /\ i <= n
<1>1. \A i \in S : i <= n => i <= k OBVIOUS
<1>2. \A m \in M : m <= n => m <= k OBVIOUS
<1> QED BY <1>1, <1>2 DEF ShownBy

\* The rows there are: records the other filters admit, below the next one.
LEMMA OutIs ==
  ASSUME NEW S, NEW M, NEW b, NEW w, NEW r, Resumed(S, M, b, w, r)
  PROVE  LET X == Out(S, M, b, w, r - 1)
         IN /\ X \in SUBSET Nat /\ IsFiniteSet(X)
            /\ \A x \in X : x \in S /\ x < r /\ x > 0
            /\ Last0(X) \in Nat /\ Last0(X) < r
            /\ X = {} => Last0(X) = 0
            /\ X # {} => Last0(X) \in X
            /\ \A x \in X : x <= Last0(X)
<1> DEFINE X == Out(S, M, b, w, r - 1)
<1>1. /\ S \in SUBSET (Nat \ {0}) /\ M \in SUBSET S
      /\ b \in Nat /\ w \in Nat \ {0} /\ r \in Nat \ {0} /\ w <= r /\ w <= b + 1
  BY DEF Resumed
<1>2. r - 1 \in Nat /\ S \in SUBSET Nat BY <1>1
<1>3. \A x \in X : x \in S /\ x < r
  <2>1. \A i \in ShownBy(S, M, r - 1) : i \in S /\ i <= r - 1 BY <1>1, <1>2, ShownGrows
  <2>2. \A i \in ShownBy(S, M, b) : i \in S BY <1>1, <1>2, ShownGrows
  <2>3. \A i \in Kept(S, M, b, w) : i \in S /\ i < w BY <2>2 DEF Kept
  <2>4. \A i \in S : (i <= r - 1 => i < r) /\ (i < w => i < r) BY <1>1
  <2> QED BY <2>1, <2>3, <2>4, Zenon DEF Out
<1> HIDE DEF X
<1>4. \A x \in X : x \in 1 .. r /\ x \in Nat /\ x > 0
  <2>2. \A x \in S : x \in Nat /\ x > 0 BY <1>1
  <2>1. \A x \in X : x \in Nat /\ x > 0 /\ x < r BY <1>3, <2>2
  <2> QED BY <1>1, <2>1
<1>5. IsFiniteSet(X) /\ X \in SUBSET Nat
  <2>1. IsFiniteSet(1 .. r) BY <1>1, FS_Interval
  <2>2. X \in SUBSET (1 .. r) BY <1>4
  <2> QED BY <1>4, <2>1, <2>2, FS_Subset
<1>6. /\ Last0(X) \in Nat
      /\ X = {} => Last0(X) = 0
      /\ X # {} => Last0(X) \in X
      /\ \A x \in X : x <= Last0(X)
  BY <1>5, LastIs
<1>7. Last0(X) < r BY <1>1, <1>3, <1>6
<1> QED BY <1>3, <1>4, <1>5, <1>6, <1>7 DEF X

\* A match shows what leads to it and was not there yet, and itself.
LEMMA OutStepsToMatch ==
  ASSUME NEW S, NEW M, NEW b, NEW w, NEW r, Resumed(S, M, b, w, r), r \in M
  PROVE  LET X == Out(S, M, b, w, r - 1)
             lead == {q \in S : /\ Last0(X) < q /\ q < r
                                /\ Cardinality(Span(S, q, r - 1)) <= Before}
         IN Out(S, M, b, w, r) = X \cup lead \cup {r}
<1> DEFINE X == Out(S, M, b, w, r - 1)
           e == Last0(X)
           lead == {q \in S : e < q /\ q < r /\ Cardinality(Span(S, q, r - 1)) <= Before}
<1>1. /\ S \in SUBSET (Nat \ {0}) /\ M \in SUBSET S
      /\ b \in Nat /\ w \in Nat \ {0} /\ r \in Nat \ {0} /\ w <= r /\ w <= b + 1
  BY DEF Resumed
<1>2. r - 1 \in Nat /\ S \in SUBSET Nat /\ Before \in Nat BY <1>1, RecordViewAssumption
<1>3. /\ \A x \in X : x \in S /\ x < r /\ x > 0
      /\ e \in Nat /\ e < r /\ (X = {} => e = 0) /\ (X # {} => e \in X)
      /\ \A x \in X : x <= e
  BY OutIs
<1>4. X = ShownBy(S, M, r - 1) \cup Kept(S, M, b, w) BY DEF Out
<1> HIDE DEF X, e
<1>5. \A i \in ShownBy(S, M, r - 1) : i \in ShownBy(S, M, r) BY <1>1, <1>2, ShownGrows
<1>6. \A i \in lead \cup {r} : i \in ShownBy(S, M, r)
  <2>1. \A i \in lead : Leads(S, i, r) /\ i \in S /\ i <= r BY <1>1 DEF Leads
  <2> QED BY <1>1, <2>1 DEF ShownBy
<1>7. ASSUME NEW i \in ShownBy(S, M, r), i \notin X, i # r PROVE i \in lead
  <2>1. i \in S /\ i < r /\ i <= r - 1 /\ i \in Nat /\ i > 0 BY <1>1, <1>7 DEF ShownBy
  <2>2. i \notin ShownBy(S, M, r - 1) /\ i \notin Kept(S, M, b, w) BY <1>4, <1>7
  <2>3. i \notin M /\ \A m \in M : m <= r - 1 => ~Leads(S, i, m) /\ ~Trails(S, i, m)
    BY <2>1, <2>2 DEF ShownBy
  <2>4. PICK m \in M : m <= r /\ (Leads(S, i, m) \/ Trails(S, i, m)) BY <2>3 DEF ShownBy
  <2>5. m = r BY <1>1, <2>3, <2>4
  <2>6. Leads(S, i, r) BY <1>1, <2>1, <2>4, <2>5 DEF Trails
  <2>7. Cardinality(Span(S, i, r - 1)) <= Before BY <2>6 DEF Leads
  <2>8. \A a \in Nat, z \in Int : Cardinality(Span(S, a, z)) \in Nat BY <1>2, SpanIs
  <2>9. \A z \in Int : z <= r - 1 => Cardinality(Span(S, i, z)) <= Before
    <3> SUFFICES ASSUME NEW z \in Int, z <= r - 1 PROVE Cardinality(Span(S, i, z)) <= Before
      OBVIOUS
    <3>1. Cardinality(Span(S, i, z)) <= Cardinality(Span(S, i, r - 1))
      BY <1>2, <2>1, SpanGrows
    <3> QED BY <1>2, <2>1, <2>7, <2>8, <3>1
  <2>10. \A k \in M : i < k => ~(k <= r - 1)
    <3> SUFFICES ASSUME NEW k \in M, i < k, k <= r - 1 PROVE FALSE OBVIOUS
    <3>1. k \in Nat /\ k - 1 \in Int /\ k - 1 <= r - 1 BY <1>1, <1>2
    <3>2. Leads(S, i, k) BY <2>9, <3>1 DEF Leads
    <3> QED BY <2>3, <3>2
  <2>11. ASSUME i < e PROVE FALSE
    <3>1. e \in X /\ e \in S /\ e \in Nat BY <1>3, <2>1, <2>11
    <3>2. e \notin M BY <1>1, <1>3, <2>10, <2>11
    <3>3. ASSUME NEW c \in Nat, e \in ShownBy(S, M, c), c <= r - 1 \/ (c <= b /\ e < w) PROVE FALSE
      <4>1. PICK k \in M : k <= c /\ (Leads(S, e, k) \/ Trails(S, e, k))
        BY <3>2, <3>3 DEF ShownBy
      <4>2. k \in Nat BY <1>1
      <4>3. CASE Trails(S, e, k)
        <5>1. k < e /\ Cardinality(Span(S, k + 1, e)) <= After BY <4>3 DEF Trails
        <5>2. k <= r - 1 BY <1>1, <1>3, <4>2, <5>1
        <5>3. ~(i < k) BY <2>10, <5>2
        <5>4. k < i BY <2>1, <2>3, <4>2, <5>3
        <5>5. Cardinality(Span(S, k + 1, i)) <= Cardinality(Span(S, k + 1, e))
          BY <1>2, <2>1, <2>11, <3>1, <4>2, SpanGrows
        <5>6. k + 1 \in Nat /\ After \in Nat BY <4>2, RecordViewAssumption
        <5>9. /\ Cardinality(Span(S, k + 1, i)) \in Nat
              /\ Cardinality(Span(S, k + 1, e)) \in Nat
          BY <2>1, <2>8, <3>1, <5>6
        <5>7. Cardinality(Span(S, k + 1, i)) <= After BY <5>1, <5>5, <5>6, <5>9
        <5>8. Trails(S, i, k) BY <5>4, <5>7 DEF Trails
        <5> QED BY <2>3, <5>2, <5>8
      <4>4. CASE Leads(S, e, k)
        <5>1. e < k BY <4>4 DEF Leads
        <5>2. ~(k <= r - 1) BY <2>1, <2>10, <2>11, <3>1, <4>2, <5>1
        <5>3. c <= b /\ e < w BY <1>2, <3>3, <4>1, <4>2, <5>2
        <5>4. r <= b /\ i <= b /\ i < w
          BY <1>1, <2>1, <2>11, <3>1, <3>3, <4>1, <4>2, <5>2, <5>3
        <5>5. i \in ShownBy(S, M, b) BY <2>1, <2>6, <5>4 DEF ShownBy
        <5> QED BY <2>2, <5>4, <5>5 DEF Kept
      <4> QED BY <4>1, <4>3, <4>4
    <3>4. e \in ShownBy(S, M, r - 1) \/ (e \in ShownBy(S, M, b) /\ e < w)
      BY <1>4, <3>1 DEF Kept
    <3> QED BY <1>1, <1>2, <3>3, <3>4
  <2>12. e # i BY <1>3, <1>7, <2>1
  <2> QED BY <1>3, <2>1, <2>7, <2>11, <2>12
<1>8. Out(S, M, b, w, r) = ShownBy(S, M, r) \cup Kept(S, M, b, w) BY DEF Out
<1> HIDE DEF lead
<1>9. Out(S, M, b, w, r) = X \cup lead \cup {r} BY <1>4, <1>5, <1>6, <1>7, <1>8
<1> QED BY <1>9 DEF X, e, lead

\* A record the other filters do not admit shows nothing.
LEMMA OutStepsOver ==
  ASSUME NEW S, NEW M, NEW b, NEW w, NEW r, Resumed(S, M, b, w, r), r \notin S
  PROVE  Out(S, M, b, w, r) = Out(S, M, b, w, r - 1)
<1>1. /\ S \in SUBSET (Nat \ {0}) /\ M \in SUBSET S /\ r \in Nat \ {0} BY DEF Resumed
<1>2. \A i \in S : i <= r <=> i <= r - 1 BY <1>1
<1>3. \A i \in M : i <= r <=> i <= r - 1 BY <1>1, <1>2
<1>4. ShownBy(S, M, r) = ShownBy(S, M, r - 1) BY <1>2, <1>3 DEF ShownBy
<1> QED BY <1>4 DEF Out

\* As many members are up to a place of the ascending order as the place says.
LEMMA UpToPlace ==
  ASSUME NEW T \in SUBSET Nat, IsFiniteSet(T), NEW k \in 1 .. Cardinality(T)
  PROVE  /\ InOrder(T)[k] \in T
         /\ Cardinality({y \in T : y <= InOrder(T)[k]}) = k
<1> DEFINE n == Cardinality(T)
           f == InOrder(T)
           U == {y \in T : y <= f[k]}
           g == [j \in 1 .. k |-> f[j]]
<1>1. /\ n \in Nat /\ f \in [1 .. n -> T]
      /\ \A i, j \in 1 .. n : i < j => f[i] < f[j]
      /\ \A x \in T : \E i \in 1 .. n : f[i] = x
  BY InOrderLists
<1>2. k \in 1 .. n /\ k \in Nat BY <1>1
<1> HIDE DEF n, f
<1>3. \A j \in 1 .. k : j \in 1 .. n /\ f[j] \in T /\ f[j] <= f[k]
  <2> SUFFICES ASSUME NEW j \in 1 .. k PROVE j \in 1 .. n /\ f[j] \in T /\ f[j] <= f[k]
    OBVIOUS
  <2>1. j \in 1 .. n /\ (j = k \/ j < k) BY <1>1, <1>2
  <2>2. f[j] \in Nat /\ f[k] \in Nat BY <1>1, <1>2, <2>1
  <2> QED BY <1>1, <1>2, <2>1, <2>2
<1>4. ASSUME NEW y \in U PROVE \E j \in 1 .. k : f[j] = y
  <2>1. y \in T /\ y <= f[k] OBVIOUS
  <2>2. PICK j \in 1 .. n : f[j] = y BY <1>1, <2>1
  <2>3. f[j] \in Nat /\ f[k] \in Nat BY <1>1, <1>2
  <2>4. ~(k < j) BY <1>1, <1>2, <2>1, <2>2, <2>3
  <2>5. j \in 1 .. k BY <1>2, <2>4
  <2> QED BY <2>2, <2>5
<1>5. ASSUME NEW i \in 1 .. k, NEW j \in 1 .. k, f[i] = f[j] PROVE i = j
  <2>1. i \in 1 .. n /\ j \in 1 .. n /\ (i = j \/ i < j \/ j < i) BY <1>3
  <2>2. f[i] \in Nat /\ f[j] \in Nat BY <1>1, <2>1
  <2> QED BY <1>1, <1>5, <2>1, <2>2
<1>6. \A j \in 1 .. k : g[j] = f[j] /\ f[j] \in U BY <1>3
<1> HIDE DEF U
<1>7. g \in Bijection(1 .. k, U)
  BY <1>4, <1>5, <1>6 DEF Bijection, Injection, Surjection, IsInjective
<1>8. ExistsBijection(1 .. k, U) BY <1>7 DEF ExistsBijection
<1>9. Cardinality(U) = k BY <1>2, <1>8, FS_Bijection, FS_Interval
<1> QED BY <1>1, <1>2, <1>9 DEF U, f

\* Of a set with so many members at least so many have no more up to them.
LEMMA FirstFew ==
  ASSUME NEW T \in SUBSET Nat, IsFiniteSet(T), NEW n \in Nat, n <= Cardinality(T)
  PROVE  Cardinality({x \in T : Cardinality({y \in T : y <= x}) <= n}) >= n
<1> DEFINE Upto(x) == {y \in T : y <= x}
           F == {x \in T : Cardinality(Upto(x)) <= n}
<1>1. Cardinality(T) \in Nat BY FS_CardinalityType
<1>2. IsFiniteSet(F) /\ Cardinality(F) \in Nat BY FS_Subset, FS_CardinalityType
<1>3. CASE n = 0 BY <1>2, <1>3
<1>4. CASE n # 0
  <2>1. n \in 1 .. Cardinality(T) BY <1>1, <1>4
  <2> DEFINE a == InOrder(T)[n]
  <2>2. a \in T /\ Cardinality(Upto(a)) = n BY <2>1, UpToPlace
  <2> HIDE DEF a
  <2>3. ASSUME NEW x \in Upto(a) PROVE x \in F
    <3>1. x \in T /\ x <= a OBVIOUS
    <3>2. \A y \in Upto(x) : y \in Upto(a) BY <2>2, <3>1
    <3>3. IsFiniteSet(Upto(a)) BY FS_Subset
    <3> HIDE DEF Upto
    <3>4. Cardinality(Upto(x)) <= Cardinality(Upto(a)) BY <3>2, <3>3, FS_Subset
    <3> QED BY <2>2, <3>1, <3>4
  <2> HIDE DEF F, Upto
  <2>4. Cardinality(Upto(a)) <= Cardinality(F) BY <1>2, <2>3, FS_Subset
  <2> QED
    <3>1. Cardinality(F) >= n BY <1>2, <2>2, <2>4
    <3> QED BY <3>1 DEF F, Upto
<1> QED BY <1>3, <1>4

\* Of a set with at least so many members there is one from which on there are so many.
LEMMA LastFew ==
  ASSUME NEW T \in SUBSET Nat, IsFiniteSet(T), NEW n \in Nat \ {0}, n <= Cardinality(T)
  PROVE  \E q \in T : Cardinality({p \in T : p >= q}) = n
<1> DEFINE c == Cardinality(T)
           f == InOrder(T)
           k == c - n
<1>1. /\ c \in Nat /\ f \in [1 .. c -> T]
      /\ \A i, j \in 1 .. c : i < j => f[i] < f[j]
      /\ \A x \in T : \E i \in 1 .. c : f[i] = x
  BY InOrderLists
<1>2. k \in Nat /\ k + 1 \in 1 .. c BY <1>1
<1> DEFINE A == {p \in T : p >= f[k + 1]}
<1>3. CASE k = 0
  <2>1. \A p \in T : p \in A
    <3> SUFFICES ASSUME NEW p \in T PROVE p >= f[1] BY <1>3
    <3>1. PICK i \in 1 .. c : f[i] = p BY <1>1
    <3>2. i = 1 \/ 1 < i BY <1>1
    <3>3. 1 \in 1 .. c BY <1>2, <1>3
    <3> HIDE DEF c, f
    <3>4. f[1] \in Nat /\ f[i] \in Nat BY <1>1, <3>3
    <3> QED BY <1>1, <3>1, <3>2, <3>3, <3>4
  <2>2. A = T BY <2>1
  <2>4. c = n BY <1>1, <1>3
  <2>5. f[k + 1] \in T BY <1>1, <1>2
  <2> HIDE DEF A
  <2>3. Cardinality(A) = c BY <2>2
  <2> QED BY <2>3, <2>4, <2>5 DEF A
<1>4. CASE k # 0
  <2> DEFINE U == {y \in T : y <= f[k]}
  <2>1. k \in 1 .. c BY <1>1, <1>2, <1>4
  <2>2. Cardinality(U) = k BY <2>1, UpToPlace
  <2> HIDE DEF k
  <2>3. A = T \ U
    <3>1. \A p \in T : p >= f[k + 1] <=> ~(p <= f[k])
      <4> SUFFICES ASSUME NEW p \in T PROVE p >= f[k + 1] <=> ~(p <= f[k]) OBVIOUS
      <4>1. PICK i \in 1 .. c : f[i] = p BY <1>1
      <4> HIDE DEF c, f
      <4>6. \A j \in 1 .. c : f[j] \in Nat BY <1>1
      <4>2. f[k] \in Nat /\ f[k + 1] \in Nat /\ f[i] \in Nat /\ k < k + 1
        BY <1>2, <2>1, <4>6
      <4>3. i = k \/ i = k + 1 \/ i < k \/ k + 1 < i BY <1>2
      <4>4. f[k] < f[k + 1] BY <1>1, <1>2, <2>1, <4>2
      <4>5. (i < k => f[i] < f[k]) /\ (k + 1 < i => f[k + 1] < f[i]) BY <1>1, <1>2, <2>1
      <4> QED BY <4>1, <4>2, <4>3, <4>4, <4>5
    <3> QED BY <3>1
  <2>4. T \cap U = U /\ IsFiniteSet(U) BY FS_Subset
  <2> HIDE DEF U
  <2>5. Cardinality(T \ U) = c - k BY <2>2, <2>4, FS_Difference
  <2>7. c - k = n BY <1>1 DEF k
  <2>8. f[k + 1] \in T BY <1>1, <1>2
  <2> HIDE DEF A, c
  <2>6. Cardinality(A) = n BY <2>3, <2>5, <2>7
  <2> QED BY <2>6, <2>8 DEF A
<1> QED BY <1>3, <1>4

\* A record that does not match is shown while fewer than enough are after the last match.
LEMMA OutStepsPast ==
  ASSUME NEW S, NEW M, NEW b, NEW w, NEW r, Resumed(S, M, b, w, r), r \in S, r \notin M
  PROVE  LET X == Out(S, M, b, w, r - 1)
             m == Last0({i \in M : i < r})
         IN Out(S, M, b, w, r) =
              IF m > 0 /\ Cardinality({x \in X : x > m}) < After THEN X \cup {r} ELSE X
<1> DEFINE X == Out(S, M, b, w, r - 1)
           E == {i \in M : i < r}
           m == Last0(E)
           Y == {x \in X : x > m}
<1>1. /\ S \in SUBSET (Nat \ {0}) /\ M \in SUBSET S /\ S \in SUBSET Nat
      /\ b \in Nat /\ w \in Nat \ {0} /\ r \in Nat \ {0} /\ w <= r /\ w <= b + 1
  BY DEF Resumed
<1>2. r - 1 \in Nat /\ After \in Nat BY <1>1, RecordViewAssumption
<1>3. \A x \in X : x \in S /\ x < r /\ x > 0 BY OutIs
<1>4. IsFiniteSet(X) BY OutIs
<1>5. X = ShownBy(S, M, r - 1) \cup Kept(S, M, b, w) BY DEF Out
<1> HIDE DEF X
<1>6. \A i \in E : i \in 1 .. r - 1 /\ i \in Nat /\ i > 0 BY <1>1
<1>7. E \in SUBSET Nat /\ IsFiniteSet(E)
  <2>1. IsFiniteSet(1 .. r - 1) BY <1>2, FS_Interval
  <2> HIDE DEF E
  <2> QED BY <1>6, <2>1, FS_Subset
<1> HIDE DEF E
<1>8. /\ m \in Nat /\ (E # {} => m \in E) /\ (E = {} => m = 0)
      /\ \A i \in E : i <= m
  BY <1>7, LastIs
<1> HIDE DEF m
<1>9. m > 0 => m \in M /\ m < r /\ m <= r - 1 BY <1>1, <1>8 DEF E
<1>10. \A i \in ShownBy(S, M, r - 1) : i \in ShownBy(S, M, r) BY <1>1, <1>2, ShownGrows
<1>11. IsFiniteSet(Y) /\ Cardinality(Y) \in Nat BY <1>4, FS_Subset, FS_CardinalityType
<1>12. \A a \in Nat, z \in Int : /\ IsFiniteSet(Span(S, a, z))
                                 /\ Cardinality(Span(S, a, z)) \in Nat
  BY <1>1, SpanIs
<1>13. Y \subseteq Span(S, m + 1, r - 1)
  <2>1. \A x \in S : x \in Nat BY <1>1
  <2>2. \A x \in Y : x \in S /\ x \in Nat /\ x < r /\ x > m BY <1>3, <2>1
  <2>3. \A x \in Nat : x < r /\ x > m => m + 1 <= x /\ x <= r - 1 BY <1>1, <1>8
  <2> HIDE DEF Y
  <2> QED BY <2>2, <2>3 DEF Span
<1>14. m + 1 \in Nat /\ r \in Int /\ r - 1 \in Int BY <1>1, <1>8
<1>15. m > 0 => /\ Cardinality(Span(S, m + 1, r - 1)) < Cardinality(Span(S, m + 1, r))
                /\ Cardinality(Span(S, m + 1, r)) <= Cardinality(Span(S, m + 1, r - 1)) + 1
  <2> SUFFICES ASSUME m > 0
               PROVE  /\ Cardinality(Span(S, m + 1, r - 1)) < Cardinality(Span(S, m + 1, r))
                      /\ Cardinality(Span(S, m + 1, r)) <= Cardinality(Span(S, m + 1, r - 1)) + 1
    OBVIOUS
  <2>1. r \in Span(S, m + 1, r) /\ r \notin Span(S, m + 1, r - 1)
    BY <1>1, <1>8, <1>9 DEF Span
  <2>2. Span(S, m + 1, r) = Span(S, m + 1, r - 1) \cup {r}
    <3>1. \A x \in S : x <= r <=> (x <= r - 1 \/ x = r) BY <1>1
    <3> QED BY <1>1, <2>1, <3>1 DEF Span
  <2>3. Cardinality(Span(S, m + 1, r)) = Cardinality(Span(S, m + 1, r - 1)) + 1
    BY <1>12, <1>14, <2>1, <2>2, FS_AddElement
  <2>4. Cardinality(Span(S, m + 1, r)) \in Nat /\ Cardinality(Span(S, m + 1, r - 1)) \in Nat
    BY <1>12, <1>14
  <2> QED BY <2>3, <2>4
<1>16. r \notin X /\ r \notin ShownBy(S, M, r - 1) BY <1>1, <1>3, <1>5
\* Nothing but the record itself is new.
<1>17. ASSUME NEW i \in ShownBy(S, M, r), i \notin X
       PROVE  i = r /\ m > 0 /\ Cardinality(Y) < After
  <2>1. i \in S /\ i <= r /\ i \in Nat BY <1>1 DEF ShownBy
  <2>2. i \notin ShownBy(S, M, r - 1) BY <1>5, <1>17
  <2>3. i = r
    <3> SUFFICES ASSUME i <= r - 1 PROVE FALSE BY <1>1, <2>1
    <3>1. \A k \in M : k <= r => k <= r - 1 BY <1>1
    <3> QED BY <2>1, <2>2, <3>1 DEF ShownBy
  <2>4. PICK k \in M : k <= r /\ (Leads(S, r, k) \/ Trails(S, r, k)) BY <2>3 DEF ShownBy
  <2>5. k \in Nat /\ k > 0 /\ k < r BY <1>1, <2>4
  <2>6. Trails(S, r, k) /\ k \in E /\ k <= m /\ m > 0
    BY <1>1, <1>8, <2>4, <2>5 DEF E, Leads
  <2>7. Cardinality(Span(S, k + 1, r)) <= After /\ k + 1 \in Nat /\ m + 1 \in Nat /\ k + 1 <= m + 1
    BY <1>8, <2>5, <2>6 DEF Trails
  <2>8. Cardinality(Span(S, m + 1, r)) <= Cardinality(Span(S, k + 1, r))
    BY <1>1, <1>14, <2>7, SpanGrows
  <2>9. Cardinality(Y) <= Cardinality(Span(S, m + 1, r - 1))
    BY <1>12, <1>13, <1>14, FS_Subset
  <2>10. /\ Cardinality(Span(S, m + 1, r)) \in Nat /\ Cardinality(Span(S, k + 1, r)) \in Nat
         /\ Cardinality(Span(S, m + 1, r - 1)) \in Nat
    BY <1>12, <1>14, <2>7
  <2>11. Cardinality(Y) < After BY <1>2, <1>11, <1>15, <2>6, <2>7, <2>8, <2>9, <2>10
  <2> QED BY <2>3, <2>6, <2>11
<1>18. ASSUME m > 0, Cardinality(Y) < After PROVE r \in ShownBy(S, M, r)
  <2> DEFINE T == Span(S, m + 1, r - 1)
             F == {x \in T : Cardinality({y \in T : y <= x}) <= After}
  <2>1. IsFiniteSet(T) /\ Cardinality(T) \in Nat /\ T \in SUBSET Nat
    BY <1>1, <1>12, <1>14 DEF Span
  <2>2. \A x \in F : x \in Y
    <3> SUFFICES ASSUME NEW x \in F PROVE x \in Y OBVIOUS
    <3>1. x \in S /\ m + 1 <= x /\ x <= r - 1 /\ x \in Nat BY <1>1 DEF Span
    <3>2. {y \in T : y <= x} = Span(S, m + 1, x)
      <4>1. \A y \in S : y <= x => y <= r - 1 BY <1>1, <3>1
      <4> QED BY <4>1 DEF Span
    <3>3. Cardinality(Span(S, m + 1, x)) <= After BY <3>2
    <3>4. m < x /\ x > m BY <1>8, <3>1
    <3>5. Trails(S, x, m) BY <3>3, <3>4 DEF Trails
    <3>6. x \in ShownBy(S, M, r - 1) BY <1>9, <1>18, <3>1, <3>5 DEF ShownBy
    <3> QED BY <1>5, <3>4, <3>6
  <2>3. ~(After <= Cardinality(T))
    <3> SUFFICES ASSUME After <= Cardinality(T) PROVE FALSE OBVIOUS
    <3> HIDE DEF T
    <3>1. Cardinality(F) >= After BY <1>2, <2>1, FirstFew
    <3> HIDE DEF F, Y
    <3>2. F \subseteq Y BY <2>2
    <3>3. Cardinality(F) <= Cardinality(Y) /\ Cardinality(F) \in Nat
      BY <1>11, <3>2, FS_Subset, FS_CardinalityType
    <3> QED BY <1>2, <1>11, <1>18, <3>1, <3>3
  <2>4. Cardinality(Span(S, m + 1, r)) <= After
    <3>1. Cardinality(Span(S, m + 1, r)) \in Nat BY <1>12, <1>14
    <3> QED BY <1>2, <1>15, <1>18, <2>1, <2>3, <3>1
  <2>5. Trails(S, r, m) BY <1>9, <1>18, <2>4 DEF Trails
  <2>6. m \in M /\ m <= r /\ r <= r BY <1>1, <1>8, <1>9, <1>18
  <2> QED BY <2>5, <2>6 DEF ShownBy
<1>19. Out(S, M, b, w, r) = ShownBy(S, M, r) \cup Kept(S, M, b, w) BY DEF Out
<1> HIDE DEF Y
<1>20. Out(S, M, b, w, r) = IF m > 0 /\ Cardinality(Y) < After THEN X \cup {r} ELSE X
  <2>1. \A i \in X : i \in Out(S, M, b, w, r) BY <1>5, <1>10, <1>19
  <2>2. \A i \in Out(S, M, b, w, r) : i \notin X => i \in ShownBy(S, M, r) BY <1>5, <1>19
  <2>3. CASE m > 0 /\ Cardinality(Y) < After
    <3>1. r \in Out(S, M, b, w, r) BY <1>18, <1>19, <2>3
    <3>2. \A i \in Out(S, M, b, w, r) : i \notin X => i = r BY <1>17, <2>2
    <3> QED BY <2>1, <2>3, <3>1, <3>2
  <2>4. CASE ~(m > 0 /\ Cardinality(Y) < After)
    <3>1. \A i \in Out(S, M, b, w, r) : i \in X BY <1>17, <2>2, <2>4
    <3> QED BY <2>1, <2>4, <3>1
  <2> QED BY <2>3, <2>4
<1> QED BY <1>20 DEF X, E, m, Y

\* A listing of numbers that ascends and leaves out none is the ascending order of them.
LEMMA InOrderIs ==
  ASSUME NEW S \in SUBSET Nat, NEW n \in Nat, NEW f \in [1 .. n -> S],
         \A i, j \in 1 .. n : i < j => f[i] < f[j],
         \A x \in S : \E i \in 1 .. n : f[i] = x
  PROVE  IsFiniteSet(S) /\ Cardinality(S) = n /\ InOrder(S) = f
<1> DEFINE Upto(x) == {y \in S : y <= x}
<1>1. \A i, j \in 1 .. n : f[i] <= f[j] <=> i <= j
  <2> SUFFICES ASSUME NEW i \in 1 .. n, NEW j \in 1 .. n PROVE f[i] <= f[j] <=> i <= j
    OBVIOUS
  <2>1. f[i] \in Nat /\ f[j] \in Nat /\ (i < j => f[i] < f[j]) /\ (j < i => f[j] < f[i])
    OBVIOUS
  <2>2. i < j \/ j < i \/ i = j OBVIOUS
  <2> QED BY <2>1, <2>2
<1>2. \A i, j \in 1 .. n : f[i] = f[j] => i = j
  <2> SUFFICES ASSUME NEW i \in 1 .. n, NEW j \in 1 .. n, f[i] = f[j] PROVE i = j OBVIOUS
  <2>1. f[i] \in Nat /\ f[j] \in Nat OBVIOUS
  <2>3. f[i] <= f[j] /\ f[j] <= f[i] BY <2>1
  <2>2. i <= j /\ j <= i BY <1>1, <2>3
  <2> QED BY <2>2
<1>3. IsFiniteSet(S) /\ Cardinality(S) = n
  <2>1. f \in Bijection(1 .. n, S)
    BY <1>2 DEF Bijection, Injection, Surjection, IsInjective
  <2>2. ExistsBijection(1 .. n, S) BY <2>1 DEF ExistsBijection
  <2> QED BY <2>2, FS_Bijection, FS_Interval
<1>4. ASSUME NEW k \in 1 .. n PROVE Cardinality(Upto(f[k])) = k
  <2> DEFINE g == [j \in 1 .. k |-> f[j]]
             T == Upto(f[k])
  <2>1. \A j \in 1 .. k : j \in 1 .. n /\ f[j] \in T /\ g[j] = f[j]
    <3> SUFFICES ASSUME NEW j \in 1 .. k PROVE j \in 1 .. n /\ f[j] \in T /\ g[j] = f[j]
      OBVIOUS
    <3>1. j \in 1 .. n /\ j <= k OBVIOUS
    <3> QED BY <1>1, <3>1
  <2>2. \A y \in T : \E j \in 1 .. k : f[j] = y
    <3> SUFFICES ASSUME NEW y \in T PROVE \E j \in 1 .. k : f[j] = y OBVIOUS
    <3>1. y \in S /\ y <= f[k] OBVIOUS
    <3>2. PICK j \in 1 .. n : f[j] = y BY <3>1
    <3>3. j <= k BY <1>1, <3>1, <3>2
    <3> QED BY <3>2, <3>3
  <2>3. \A i, j \in 1 .. k : g[i] = g[j] => i = j BY <1>2, <2>1
  <2> HIDE DEF T
  <2>4. g \in Bijection(1 .. k, T)
    BY <2>1, <2>2, <2>3 DEF Bijection, Injection, Surjection, IsInjective
  <2>5. ExistsBijection(1 .. k, T) BY <2>4 DEF ExistsBijection
  <2>6. Cardinality(T) = k BY <2>5, FS_Bijection, FS_Interval
  <2> QED BY <2>6 DEF T
<1> DEFINE a == [k \in 1 .. n |-> CHOOSE x \in S : Cardinality(Upto(x)) = k]
<1> HIDE DEF Upto
<1>5. ASSUME NEW k \in 1 .. n PROVE a[k] = f[k]
  <2>1. f[k] \in S /\ Cardinality(Upto(f[k])) = k BY <1>4
  <2>2. a[k] \in S /\ Cardinality(Upto(a[k])) = k BY <2>1
  <2>3. PICK j \in 1 .. n : f[j] = a[k] BY <2>2
  <2>4. Cardinality(Upto(f[j])) = j BY <1>4
  <2> QED BY <2>2, <2>3, <2>4
<1>6. a = f BY <1>5
<1>7. InOrder(S) = a \o <<>> BY <1>3 DEF InOrder, Upto
<1>8. f \in Seq(S) OBVIOUS
<1> QED BY <1>3, <1>6, <1>7, <1>8, JoinedToNothing

\* Where all of one set come before all of another, so do their orders.
LEMMA InOrderJoins ==
  ASSUME NEW X \in SUBSET Nat, IsFiniteSet(X), NEW Y \in SUBSET Nat, IsFiniteSet(Y),
         \A x \in X, y \in Y : x < y
  PROVE  /\ IsFiniteSet(X \cup Y)
         /\ Cardinality(X \cup Y) = Cardinality(X) + Cardinality(Y)
         /\ InOrder(X \cup Y) = InOrder(X) \o InOrder(Y)
<1> DEFINE m == Cardinality(X)
           n == Cardinality(Y)
           a == InOrder(X)
           c == InOrder(Y)
           f == a \o c
<1>1. /\ m \in Nat /\ a \in [1 .. m -> X]
      /\ \A i, j \in 1 .. m : i < j => a[i] < a[j]
      /\ \A x \in X : \E i \in 1 .. m : a[i] = x
  BY InOrderLists
<1>2. /\ n \in Nat /\ c \in [1 .. n -> Y]
      /\ \A i, j \in 1 .. n : i < j => c[i] < c[j]
      /\ \A x \in Y : \E i \in 1 .. n : c[i] = x
  BY InOrderLists
<1> HIDE DEF m, n, a, c
<1>3. a \in Seq(X \cup Y) /\ c \in Seq(X \cup Y) /\ Len(a) = m /\ Len(c) = n BY <1>1, <1>2
<1>4. /\ f \in Seq(X \cup Y) /\ Len(f) = m + n
      /\ \A i \in 1 .. m : f[i] = a[i]
      /\ \A i \in 1 .. n : f[m + i] = c[i]
  <2>1. /\ f \in Seq(X \cup Y) /\ Len(f) = Len(a) + Len(c)
        /\ \A i \in 1 .. Len(a) : f[i] = a[i]
        /\ \A i \in 1 .. Len(c) : f[Len(a) + i] = c[i]
    <3>1. \A p, q \in Seq(X \cup Y) :
            /\ p \o q \in Seq(X \cup Y) /\ Len(p \o q) = Len(p) + Len(q)
            /\ \A i \in 1 .. Len(p) : (p \o q)[i] = p[i]
            /\ \A i \in 1 .. Len(q) : (p \o q)[Len(p) + i] = q[i]
      BY EndToEnd
    <3> QED BY <1>3, <3>1, Zenon
  <2> HIDE DEF f
  <2> QED BY <1>3, <2>1
<1> HIDE DEF f
<1>5. f \in [1 .. (m + n) -> X \cup Y] /\ m + n \in Nat BY <1>1, <1>2, <1>4
<1>6. \A i \in 1 .. (m + n) : \/ i \in 1 .. m /\ f[i] = a[i]
                              \/ i - m \in 1 .. n /\ f[i] = c[i - m] /\ m < i
  <2> SUFFICES ASSUME NEW i \in 1 .. (m + n), ~(i \in 1 .. m)
               PROVE  i - m \in 1 .. n /\ f[i] = c[i - m] /\ m < i
    BY <1>4
  <2>1. i - m \in 1 .. n /\ m + (i - m) = i /\ m < i BY <1>1, <1>2
  <2>2. f[m + (i - m)] = c[i - m] BY <1>4, <2>1
  <2> QED BY <2>1, <2>2
<1>7. ASSUME NEW i \in 1 .. (m + n), NEW j \in 1 .. (m + n), i < j PROVE f[i] < f[j]
  <2>1. CASE j \in 1 .. m /\ f[j] = a[j]
    <3>1. i \in 1 .. m BY <1>1, <1>7, <2>1
    <3>2. f[i] = a[i] BY <1>4, <3>1
    <3> QED BY <1>1, <1>7, <2>1, <3>1, <3>2
  <2>2. CASE j - m \in 1 .. n /\ f[j] = c[j - m] /\ m < j
    <3>1. CASE i \in 1 .. m /\ f[i] = a[i] BY <1>1, <1>2, <2>2, <3>1
    <3>2. CASE i - m \in 1 .. n /\ f[i] = c[i - m] /\ m < i
      <4>1. i - m < j - m BY <1>1, <1>7
      <4> QED BY <1>2, <2>2, <3>2, <4>1
    <3> QED BY <1>6, <3>1, <3>2
  <2> QED BY <1>6, <2>1, <2>2
<1>8. ASSUME NEW x \in X \cup Y PROVE \E i \in 1 .. (m + n) : f[i] = x
  <2>1. CASE x \in X
    <3>1. PICK i \in 1 .. m : a[i] = x BY <1>1, <2>1
    <3>2. i \in 1 .. (m + n) /\ f[i] = x BY <1>1, <1>2, <1>4, <3>1
    <3> QED BY <3>2
  <2>2. CASE x \in Y
    <3>1. PICK i \in 1 .. n : c[i] = x BY <1>2, <2>2
    <3>2. m + i \in 1 .. (m + n) /\ f[m + i] = x BY <1>1, <1>2, <1>4, <3>1
    <3> QED BY <3>2
  <2> QED BY <2>1, <2>2
<1>9. X \cup Y \in SUBSET Nat OBVIOUS
<1>10. IsFiniteSet(X \cup Y) /\ Cardinality(X \cup Y) = m + n /\ InOrder(X \cup Y) = f
  BY <1>5, <1>7, <1>8, <1>9, InOrderIs
<1> QED BY <1>10 DEF f, a, c, m, n

\* What the view lists: rows in the order of their records, each marked as context unless its
\* record matches.
RowRecs       == [row : Nat, context : BOOLEAN]
RowOf(M, i)   == [row |-> i, context |-> IF i \in M THEN FALSE ELSE TRUE]
Listing(M, X) == [k \in 1 .. Cardinality(X) |-> RowOf(M, InOrder(X)[k])]

\* A row for each record, in their order.
LEMMA ListingIs ==
  ASSUME NEW M, NEW X \in SUBSET Nat, IsFiniteSet(X)
  PROVE  /\ Listing(M, X) \in Seq(RowRecs) /\ Len(Listing(M, X)) = Cardinality(X)
         /\ Cardinality(X) \in Nat
         /\ \A k \in 1 .. Cardinality(X) : /\ Listing(M, X)[k] = RowOf(M, InOrder(X)[k])
                                           /\ Listing(M, X)[k].row = InOrder(X)[k]
                                           /\ InOrder(X)[k] \in X
                                           /\ Listing(M, X)[k].context = (InOrder(X)[k] \notin M)
<1> DEFINE n == Cardinality(X)
           f == InOrder(X)
<1>1. n \in Nat /\ f \in [1 .. n -> X] BY InOrderLists
<1>2. \A i \in Nat : RowOf(M, i) \in RowRecs /\ RowOf(M, i).row = i
                     /\ RowOf(M, i).context = (i \notin M)
  BY DEF RowOf, RowRecs
<1>3. Listing(M, X) = [k \in 1 .. n |-> RowOf(M, f[k])] BY DEF Listing
<1> HIDE DEF n, f
<1>4. \A k \in 1 .. n : f[k] \in X /\ f[k] \in Nat BY <1>1
<1>5. Listing(M, X) \in Seq(RowRecs) /\ Len(Listing(M, X)) = n
  <2>1. \A k \in 1 .. n : RowOf(M, f[k]) \in RowRecs BY <1>2, <1>4
  <2> QED BY <1>1, <1>3, <2>1
<1>6. \A k \in 1 .. n : Listing(M, X)[k] = RowOf(M, f[k]) BY <1>3
<1> QED BY <1>1, <1>2, <1>4, <1>5, <1>6 DEF n, f

\* Where all of one set come before all of another, so do their rows.
LEMMA ListingJoins ==
  ASSUME NEW M, NEW X \in SUBSET Nat, IsFiniteSet(X), NEW Y \in SUBSET Nat, IsFiniteSet(Y),
         \A x \in X, y \in Y : x < y
  PROVE  Listing(M, X \cup Y) = Listing(M, X) \o Listing(M, Y)
<1> DEFINE m == Cardinality(X)
           n == Cardinality(Y)
           a == Listing(M, X)
           c == Listing(M, Y)
           u == InOrder(X)
           v == InOrder(Y)
           f == u \o v
           g == a \o c
<1>1. /\ IsFiniteSet(X \cup Y) /\ Cardinality(X \cup Y) = m + n
      /\ InOrder(X \cup Y) = f
  BY InOrderJoins
<1>2. /\ a \in Seq(RowRecs) /\ Len(a) = m /\ m \in Nat
      /\ \A k \in 1 .. m : a[k] = RowOf(M, u[k])
  BY ListingIs
<1>3. /\ c \in Seq(RowRecs) /\ Len(c) = n /\ n \in Nat
      /\ \A k \in 1 .. n : c[k] = RowOf(M, v[k])
  BY ListingIs
<1>4. u \in Seq(Nat) /\ v \in Seq(Nat) /\ Len(u) = m /\ Len(v) = n
  <2>1. u \in [1 .. m -> X] /\ v \in [1 .. n -> Y] BY InOrderLists
  <2> HIDE DEF m, n, u, v
  <2>2. u \in [1 .. m -> Nat] /\ v \in [1 .. n -> Nat] BY <2>1
  <2> QED BY <1>2, <1>3, <2>2
<1>7. Listing(M, X \cup Y) = [k \in 1 .. (m + n) |-> RowOf(M, f[k])] BY <1>1 DEF Listing
<1> HIDE DEF a, c, m, n, u, v
<1>5. /\ \A i \in 1 .. m : f[i] = u[i]
      /\ \A i \in 1 .. n : f[m + i] = v[i]
  <2>1. /\ \A i \in 1 .. Len(u) : f[i] = u[i]
        /\ \A i \in 1 .. Len(v) : f[Len(u) + i] = v[i]
    <3>1. \A p, q \in Seq(Nat) :
            /\ \A i \in 1 .. Len(p) : (p \o q)[i] = p[i]
            /\ \A i \in 1 .. Len(q) : (p \o q)[Len(p) + i] = q[i]
      BY EndToEnd
    <3> QED BY <1>4, <3>1, Zenon
  <2> HIDE DEF f
  <2> QED BY <1>4, <2>1
<1>6. /\ g \in Seq(RowRecs) /\ Len(g) = m + n
      /\ \A i \in 1 .. m : g[i] = a[i]
      /\ \A i \in 1 .. n : g[m + i] = c[i]
  <2>1. /\ g \in Seq(RowRecs) /\ Len(g) = Len(a) + Len(c)
        /\ \A i \in 1 .. Len(a) : g[i] = a[i]
        /\ \A i \in 1 .. Len(c) : g[Len(a) + i] = c[i]
    <3>1. \A p, q \in Seq(RowRecs) :
            /\ p \o q \in Seq(RowRecs) /\ Len(p \o q) = Len(p) + Len(q)
            /\ \A i \in 1 .. Len(p) : (p \o q)[i] = p[i]
            /\ \A i \in 1 .. Len(q) : (p \o q)[Len(p) + i] = q[i]
      BY EndToEnd
    <3> QED BY <1>2, <1>3, <3>1, Zenon
  <2> HIDE DEF g
  <2> QED BY <1>2, <1>3, <2>1
<1> HIDE DEF f, g
<1>8. \A k \in 1 .. (m + n) : RowOf(M, f[k]) = g[k]
  <2> SUFFICES ASSUME NEW k \in 1 .. (m + n) PROVE RowOf(M, f[k]) = g[k] OBVIOUS
  <2>1. CASE k \in 1 .. m BY <1>2, <1>5, <1>6, <2>1
  <2>2. CASE ~(k \in 1 .. m)
    <3>1. k - m \in 1 .. n /\ m + (k - m) = k BY <1>2, <1>3, <2>2
    <3>2. f[m + (k - m)] = v[k - m] /\ g[m + (k - m)] = c[k - m] BY <1>5, <1>6, <3>1
    <3> QED BY <1>3, <3>1, <3>2
  <2> QED BY <2>1, <2>2
<1>9. g = [k \in 1 .. (m + n) |-> g[k]] BY <1>2, <1>3, <1>6
<1>10. Listing(M, X \cup Y) = g BY <1>7, <1>8, <1>9
<1> QED BY <1>10 DEF g, a, c

\* The rows of one record, and of none.
LEMMA ListingOne ==
  ASSUME NEW M, NEW r \in Nat
  PROVE  /\ Listing(M, {r}) = <<RowOf(M, r)>> /\ IsFiniteSet({r}) /\ {r} \in SUBSET Nat
         /\ Listing(M, {}) = <<>> /\ IsFiniteSet({}) /\ Cardinality({}) = 0
<1>1. IsFiniteSet({r}) /\ Cardinality({r}) = 1 /\ IsFiniteSet({}) /\ Cardinality({}) = 0
  BY FS_Singleton, FS_EmptySet
<1>2. InOrder({r}) \in [1 .. 1 -> {r}]
  <2>1. {r} \in SUBSET Nat OBVIOUS
  <2> QED BY <1>1, <2>1, InOrderLists
<1>3. InOrder({r})[1] = r BY <1>2
<1>4. Listing(M, {r}) = [k \in 1 .. 1 |-> RowOf(M, InOrder({r})[k])] BY <1>1 DEF Listing
<1>5. Listing(M, {r}) = <<RowOf(M, r)>> BY <1>3, <1>4
<1>6. Listing(M, {}) = <<>> BY <1>1 DEF Listing
<1> QED BY <1>1, <1>5, <1>6

\* The records the filters other than the text admit, and those of them that match it.
Admitted(d) == {i \in 1 .. Len(d.records) : InContextStream(d, i)}
Matching(d) == {i \in Admitted(d) : MatchesTextAxis(d, i)}

\* What the emission carries from row to row, and what it is to be when it has come to r.
EmitStates == [out : Seq(RowRecs), emitted : Nat, match : Nat, since : Nat]
StateIs(S, M, b, w, r, st) ==
  /\ st \in EmitStates
  /\ st.out = Listing(M, Out(S, M, b, w, r))
  /\ st.emitted = Last0(Out(S, M, b, w, r))
  /\ st.match = Last0({i \in M : i <= r})
  /\ st.match > 0 => st.since = Cardinality({x \in Out(S, M, b, w, r) : x > st.match})

\* The member that no other exceeds is the last.
LEMMA LastIsThat ==
  ASSUME NEW T \in SUBSET Nat, IsFiniteSet(T), NEW n \in T, \A x \in T : x <= n
  PROVE  Last0(T) = n
<1>1. Last0(T) \in T /\ n <= Last0(T) /\ Last0(T) \in Nat BY LastIs
<1> QED BY <1>1

\* A row of the context, and one that matches.
LEMMA RowsAre ==
  ASSUME NEW M, NEW i \in Nat
  PROVE  /\ i \in M => RowOf(M, i) = [row |-> i, context |-> FALSE]
         /\ i \notin M => RowOf(M, i) = [row |-> i, context |-> TRUE]
  BY DEF RowOf

\* The leading rows of a match are the rows of the records they stand for.
LEMMA LeadIsListed ==
  ASSUME NEW M, NEW L \in SUBSET Nat, IsFiniteSet(L), \A q \in L : q \notin M
  PROVE  [k \in 1 .. Cardinality(L) |-> [row |-> InOrder(L)[k], context |-> TRUE]] = Listing(M, L)
<1>1. \A k \in 1 .. Cardinality(L) : InOrder(L)[k] \in L BY ListingIs
<1>2. \A q \in L : RowOf(M, q) = [row |-> q, context |-> TRUE] BY RowsAre
<1>3. \A k \in 1 .. Cardinality(L) :
        [row |-> InOrder(L)[k], context |-> TRUE] = RowOf(M, InOrder(L)[k])
  BY <1>1, <1>2
<1> QED BY <1>3 DEF Listing

\* A record that is not admitted is passed over.
LEMMA EmitOver ==
  ASSUME NEW S, NEW M, NEW b, NEW w, NEW r, Resumed(S, M, b, w, r), r \notin S,
         NEW st, StateIs(S, M, b, w, r - 1, st)
  PROVE  StateIs(S, M, b, w, r, st)
<1>1. Out(S, M, b, w, r) = Out(S, M, b, w, r - 1) BY OutStepsOver
<1>2. {i \in M : i <= r} = {i \in M : i <= r - 1}
  <2>1. \A i \in M : i \in Nat /\ i # r /\ r \in Nat BY DEF Resumed
  <2>2. \A i \in M : i <= r <=> i <= r - 1 BY <2>1
  <2> QED BY <2>2
<1> QED BY <1>1, <1>2 DEF StateIs

\* What leads to a match at r and was not listed yet, when e is the last that was.
LeadTo(S, e, r) == {q \in S : e < q /\ q < r /\ Cardinality(Span(S, q, r - 1)) <= Before}

\* A record that matches is listed after what leads to it.
LEMMA EmitMatch ==
  ASSUME NEW S, NEW M, NEW b, NEW w, NEW r, Resumed(S, M, b, w, r), r \in M,
         NEW st, StateIs(S, M, b, w, r - 1, st)
  PROVE  LET lead == LeadTo(S, st.emitted, r)
         IN /\ IsFiniteSet(lead) /\ lead \in SUBSET Nat /\ (\A q \in lead : q \notin M)
            /\ StateIs(S, M, b, w, r,
                 [out |-> st.out \o Listing(M, lead) \o <<[row |-> r, context |-> FALSE]>>,
                  emitted |-> r, match |-> r, since |-> 0])
<1> DEFINE lead == LeadTo(S, st.emitted, r)
           X == Out(S, M, b, w, r - 1)
           Z == Out(S, M, b, w, r)
<1>1. /\ S \in SUBSET (Nat \ {0}) /\ M \in SUBSET S
      /\ b \in Nat /\ w \in Nat \ {0} /\ r \in Nat \ {0}
  BY DEF Resumed
<1>2. /\ st.out = Listing(M, X) /\ st.emitted = Last0(X) BY DEF StateIs
<1>3. /\ X \in SUBSET Nat /\ IsFiniteSet(X)
      /\ \A x \in X : x \in S /\ x < r /\ x > 0
      /\ Last0(X) \in Nat /\ \A x \in X : x <= Last0(X)
  BY OutIs
<1>4. Z = X \cup lead \cup {r} BY <1>2, OutStepsToMatch DEF LeadTo
<1>5. X = ShownBy(S, M, r - 1) \cup Kept(S, M, b, w) BY DEF Out
<1> HIDE DEF X, Z
<1>6. \A q \in lead : q \in 1 .. r /\ q \in Nat /\ st.emitted < q /\ q < r /\ q \in S
  BY <1>1 DEF LeadTo
<1> HIDE DEF lead
<1>7. IsFiniteSet(lead) /\ lead \in SUBSET Nat
  <2>1. IsFiniteSet(1 .. r) BY <1>1, FS_Interval
  <2> QED BY <1>6, <2>1, FS_Subset
<1>8. \A q \in lead : q \notin M
  <2> SUFFICES ASSUME NEW q \in lead, q \in M PROVE FALSE OBVIOUS
  <2>1. q \in S /\ q <= r - 1 /\ q \in Nat BY <1>1, <1>6
  <2>2. q \in X BY <1>5, <2>1 DEF ShownBy
  <2> QED BY <1>2, <1>3, <1>6, <2>1, <2>2
<1>9. \A x \in X, q \in lead : x < q
  <2> SUFFICES ASSUME NEW x \in X, NEW q \in lead PROVE x < q OBVIOUS
  <2>1. x \in Nat /\ q \in Nat /\ x <= Last0(X) /\ Last0(X) < q /\ Last0(X) \in Nat
    BY <1>2, <1>3, <1>6
  <2> QED BY <2>1
<1>10. Listing(M, X \cup lead) = Listing(M, X) \o Listing(M, lead) /\ IsFiniteSet(X \cup lead)
  BY <1>3, <1>7, <1>9, ListingJoins, FS_Union
<1>11. X \cup lead \in SUBSET Nat /\ \A x \in X \cup lead, y \in {r} : x < y BY <1>3, <1>6
<1>12. /\ Listing(M, {r}) = <<RowOf(M, r)>> /\ IsFiniteSet({r}) /\ {r} \in SUBSET Nat
  BY <1>1, ListingOne
<1>13. RowOf(M, r) = [row |-> r, context |-> FALSE] BY <1>1, RowsAre
<1> HIDE DEF Listing
<1>14. Listing(M, Z) = st.out \o Listing(M, lead) \o <<[row |-> r, context |-> FALSE]>>
  <2>1. Listing(M, (X \cup lead) \cup {r}) = Listing(M, X \cup lead) \o Listing(M, {r})
    BY <1>10, <1>11, <1>12, ListingJoins
  <2> QED BY <1>2, <1>4, <1>10, <1>12, <1>13, <2>1, Zenon
<1>15. Z \in SUBSET Nat /\ IsFiniteSet(Z) /\ r \in Z /\ \A x \in Z : x <= r
  <2>1. IsFiniteSet(Z) BY <1>4, <1>10, <1>12, FS_Union
  <2> QED BY <1>1, <1>4, <1>11, <2>1
<1>16. Last0(Z) = r BY <1>15, LastIsThat
<1>17. Last0({i \in M : i <= r}) = r
  <2> DEFINE E == {i \in M : i <= r}
  <2>1. r \in E /\ \A x \in E : x <= r /\ x \in Nat /\ x \in 1 .. r BY <1>1
  <2>2. IsFiniteSet(1 .. r) BY <1>1, FS_Interval
  <2> HIDE DEF E
  <2>3. IsFiniteSet(E) /\ E \in SUBSET Nat BY <2>1, <2>2, FS_Subset
  <2>4. Last0(E) = r BY <2>1, <2>3, LastIsThat
  <2> QED BY <2>4 DEF E
<1>18. Cardinality({x \in Z : x > r}) = 0
  <2>0. \A x \in Z : ~(x > r) BY <1>1, <1>15
  <2>1. {x \in Z : x > r} = {} BY <2>0
  <2> QED BY <2>1, FS_EmptySet
<1> DEFINE out == Listing(M, Z)
           new == [out |-> out, emitted |-> r, match |-> r, since |-> 0]
<1>19. out \in Seq(RowRecs) BY <1>15, ListingIs
<1> HIDE DEF out
<1>20. new \in EmitStates /\ new.out = out /\ new.emitted = r /\ new.match = r /\ new.since = 0
  BY <1>1, <1>19 DEF EmitStates
<1>21. StateIs(S, M, b, w, r, new) BY <1>16, <1>17, <1>18, <1>20 DEF StateIs, Z, out
<1> QED BY <1>7, <1>8, <1>14, <1>21 DEF out, lead

\* A record that does not match is listed as long as it trails close enough.
LEMMA EmitPast ==
  ASSUME NEW S, NEW M, NEW b, NEW w, NEW r, Resumed(S, M, b, w, r), r \in S, r \notin M,
         NEW st, StateIs(S, M, b, w, r - 1, st)
  PROVE  IF st.match > 0 /\ st.since < After
         THEN StateIs(S, M, b, w, r,
                [st EXCEPT !.out = Append(@, [row |-> r, context |-> TRUE]),
                           !.emitted = r, !.since = @ + 1])
         ELSE StateIs(S, M, b, w, r, st)
<1> DEFINE X == Out(S, M, b, w, r - 1)
           Z == Out(S, M, b, w, r)
           m == Last0({i \in M : i < r})
<1>1. /\ S \in SUBSET (Nat \ {0}) /\ M \in SUBSET S
      /\ b \in Nat /\ w \in Nat \ {0} /\ r \in Nat \ {0}
  BY DEF Resumed
<1>2. {i \in M : i <= r} = {i \in M : i < r} /\ {i \in M : i <= r - 1} = {i \in M : i < r}
  <2>1. \A i \in M : i \in Nat /\ i # r BY <1>1
  <2>2. \A i \in M : (i <= r <=> i < r) /\ (i <= r - 1 <=> i < r) BY <1>1, <2>1
  <2> QED BY <2>2
<1>3. /\ st \in EmitStates /\ st.out = Listing(M, X) /\ st.emitted = Last0(X) /\ st.match = m
      /\ st.match > 0 => st.since = Cardinality({x \in X : x > m})
  <2>1. st.match = m BY <1>2 DEF StateIs
  <2> QED BY <2>1 DEF StateIs
<1>4. /\ X \in SUBSET Nat /\ IsFiniteSet(X)
      /\ \A x \in X : x \in S /\ x < r /\ x > 0
  BY OutIs
<1>5. Z = IF m > 0 /\ Cardinality({x \in X : x > m}) < After THEN X \cup {r} ELSE X
  BY OutStepsPast
<1>6. m = Last0({i \in M : i <= r}) BY <1>2
<1>7. m \in Nat /\ m < r
  <2> DEFINE E == {i \in M : i < r}
  <2>1. \A x \in E : x \in Nat /\ x \in 1 .. r /\ x < r BY <1>1
  <2>2. IsFiniteSet(1 .. r) BY <1>1, FS_Interval
  <2> HIDE DEF E
  <2>3. IsFiniteSet(E) /\ E \in SUBSET Nat BY <2>1, <2>2, FS_Subset
  <2>4. Last0(E) \in Nat /\ (E = {} => Last0(E) = 0) /\ (E # {} => Last0(E) \in E)
    BY <2>3, LastIs
  <2>5. Last0(E) < r BY <1>1, <2>1, <2>4
  <2> QED BY <2>4, <2>5 DEF E
<1> HIDE DEF X, Z, m
<1>8. CASE st.match > 0 /\ st.since < After
  <2> DEFINE new == [st EXCEPT !.out = Append(@, [row |-> r, context |-> TRUE]),
                               !.emitted = r, !.since = @ + 1]
  <2>1. Z = X \cup {r} BY <1>3, <1>5, <1>8
  <2>2. \A x \in X, y \in {r} : x < y BY <1>4
  <2>3. /\ Listing(M, {r}) = <<RowOf(M, r)>> /\ IsFiniteSet({r}) /\ {r} \in SUBSET Nat
        /\ RowOf(M, r) = [row |-> r, context |-> TRUE]
    BY <1>1, ListingOne, RowsAre
  <2>4. Listing(M, Z) = Listing(M, X) \o Listing(M, {r})
    BY <1>4, <2>1, <2>2, <2>3, ListingJoins
  <2>5. /\ Listing(M, X) \in Seq(RowRecs) /\ [row |-> r, context |-> TRUE] \in RowRecs
    BY <1>1, <1>4, ListingIs DEF RowRecs
  <2> HIDE DEF Listing
  <2>6. Listing(M, Z) = Append(st.out, [row |-> r, context |-> TRUE])
    <3>1. \A s \in Seq(RowRecs), x \in RowRecs : s \o <<x>> = Append(s, x) OBVIOUS
    <3> QED BY <1>3, <2>3, <2>4, <2>5, <3>1
  <2>7. Z \in SUBSET Nat /\ IsFiniteSet(Z) /\ r \in Z /\ \A x \in Z : x <= r
    <3>1. IsFiniteSet(Z) BY <1>4, <2>1, <2>3, FS_Union
    <3> QED BY <1>1, <1>4, <2>1, <3>1
  <2>8. Last0(Z) = r BY <2>7, LastIsThat
  <2>9. Cardinality({x \in Z : x > m}) = st.since + 1
    <3> DEFINE A == {x \in X : x > m}
    <3>1. {x \in Z : x > m} = A \cup {r} /\ r \notin A BY <1>1, <1>4, <1>7, <2>1
    <3>2. IsFiniteSet(A) BY <1>4, FS_Subset
    <3>3. st.since = Cardinality(A) BY <1>3, <1>8
    <3> HIDE DEF A
    <3>4. Cardinality(A \cup {r}) = Cardinality(A) + 1 BY <3>1, <3>2, FS_AddElement
    <3> QED BY <3>1, <3>3, <3>4
  <2>10. /\ new \in EmitStates /\ new.out = Append(st.out, [row |-> r, context |-> TRUE])
         /\ new.emitted = r /\ new.match = m /\ new.since = st.since + 1
    <3>1. Append(st.out, [row |-> r, context |-> TRUE]) \in Seq(RowRecs) BY <1>3, <2>5
    <3>2. st \in EmitStates /\ r \in Nat /\ st.match = m BY <1>1, <1>3
    <3> DEFINE more == Append(st.out, [row |-> r, context |-> TRUE])
               since == st.since + 1
    <3>3. new = [st EXCEPT !.out = more, !.emitted = r, !.since = since] OBVIOUS
    <3>4. since \in Nat /\ more \in Seq(RowRecs) BY <3>1, <3>2 DEF EmitStates
    <3> HIDE DEF more, since, new
    <3>5. /\ new \in EmitStates /\ new.out = more /\ new.emitted = r
          /\ new.match = st.match /\ new.since = since
      BY <3>2, <3>3, <3>4 DEF EmitStates
    <3> QED BY <3>2, <3>5 DEF more, since
  <2> HIDE DEF new
  <2>11. StateIs(S, M, b, w, r, new) BY <1>6, <2>6, <2>8, <2>9, <2>10 DEF StateIs, Z
  <2> QED BY <1>8, <2>11 DEF new
<1>9. CASE ~(st.match > 0 /\ st.since < After)
  <2>1. Z = X BY <1>3, <1>5, <1>9
  <2>2. StateIs(S, M, b, w, r, st) BY <1>3, <1>6, <2>1 DEF StateIs, Z
  <2> QED BY <1>9, <2>2
<1> QED BY <1>8, <1>9

\* One row of emitWithContext().
LEMMA EmitStep ==
  ASSUME NEW d, d.records \in Seq(RecordRecs), NEW r \in 1 .. Len(d.records),
         NEW b, NEW w, Resumed(Admitted(d), Matching(d), b, w, r),
         NEW st, StateIs(Admitted(d), Matching(d), b, w, r - 1, st)
  PROVE  StateIs(Admitted(d), Matching(d), b, w, r, EmitRow(d, st, r))
<1> DEFINE S == Admitted(d)
           M == Matching(d)
           wanted == {q \in (st.emitted + 1) .. (r - 1) : InContextStream(d, q)}
           lead   == {q \in wanted : Cardinality({p \in wanted : p >= q}) <= Before}
           leading == [k \in 1 .. Cardinality(lead) |->
                         [row |-> InOrder(lead)[k], context |-> TRUE]]
           L == LeadTo(S, st.emitted, r)
<1>1. r \in S <=> InContextStream(d, r) BY DEF Admitted
<1>2. r \in M <=> (InContextStream(d, r) /\ MatchesTextAxis(d, r))
  BY DEF Admitted, Matching
<1>3. EmitRow(d, st, r) =
        IF ~InContextStream(d, r) THEN st
        ELSE IF MatchesTextAxis(d, r)
        THEN [out |-> st.out \o leading \o <<[row |-> r, context |-> FALSE]>>,
              emitted |-> r, match |-> r, since |-> 0]
        ELSE IF st.match > 0 /\ st.since < After
        THEN [st EXCEPT !.out = Append(@, [row |-> r, context |-> TRUE]),
                        !.emitted = r, !.since = @ + 1]
        ELSE st
  BY DEF EmitRow
<1>4. st.emitted \in Nat /\ Len(d.records) \in Nat BY DEF StateIs, EmitStates
<1>5. lead = L
  <2>1. \A q : q \in wanted <=> (q \in S /\ st.emitted < q /\ q < r) BY <1>4 DEF Admitted
  <2>2. \A q \in wanted : {p \in wanted : p >= q} = Span(S, q, r - 1)
    <3> SUFFICES ASSUME NEW q \in wanted PROVE {p \in wanted : p >= q} = Span(S, q, r - 1)
      OBVIOUS
    <3>1. \A p \in S : p \in Nat BY <1>4 DEF Admitted
    <3>2. q \in Nat /\ st.emitted < q BY <1>4
    <3>3. \A p \in S : (st.emitted < p /\ p < r /\ p >= q) <=> (q <= p /\ p <= r - 1)
      BY <1>4, <3>1, <3>2
    <3> HIDE DEF wanted, S
    <3> QED BY <2>1, <3>3 DEF Span
  <2> HIDE DEF wanted, S
  <2> QED BY <2>1, <2>2 DEF LeadTo
<1> HIDE DEF S, M, wanted, lead, L
<1>6. CASE r \notin S
  <2>1. StateIs(S, M, b, w, r, st) BY <1>6, EmitOver DEF S, M
  <2> QED BY <1>1, <1>3, <1>6, <2>1 DEF S, M
<1>7. CASE r \in M
  <2> DEFINE new == [out |-> st.out \o Listing(M, L) \o <<[row |-> r, context |-> FALSE]>>,
                     emitted |-> r, match |-> r, since |-> 0]
  <2>1. /\ IsFiniteSet(L) /\ L \in SUBSET Nat /\ (\A q \in L : q \notin M)
        /\ StateIs(S, M, b, w, r, new)
    <3>1. Resumed(S, M, b, w, r) /\ StateIs(S, M, b, w, r - 1, st) BY DEF S, M
    <3>2. LET ahead == LeadTo(S, st.emitted, r)
          IN /\ IsFiniteSet(ahead) /\ ahead \in SUBSET Nat /\ (\A q \in ahead : q \notin M)
             /\ StateIs(S, M, b, w, r,
                  [out |-> st.out \o Listing(M, ahead) \o <<[row |-> r, context |-> FALSE]>>,
                   emitted |-> r, match |-> r, since |-> 0])
      BY <1>7, <3>1, EmitMatch
    <3> QED BY <3>2 DEF L
  <2>2. leading = Listing(M, L) BY <1>5, <2>1, LeadIsListed
  <2> HIDE DEF leading
  <2>3. EmitRow(d, st, r) = new BY <1>2, <1>3, <1>7, <2>2
  <2> QED BY <2>1, <2>3 DEF S, M
<1>8. CASE r \in S /\ r \notin M
  <2>1. IF st.match > 0 /\ st.since < After
        THEN StateIs(S, M, b, w, r,
               [st EXCEPT !.out = Append(@, [row |-> r, context |-> TRUE]),
                          !.emitted = r, !.since = @ + 1])
        ELSE StateIs(S, M, b, w, r, st)
    BY <1>8, EmitPast DEF S, M
  <2>2. InContextStream(d, r) /\ ~MatchesTextAxis(d, r) BY <1>1, <1>2, <1>8
  <2> HIDE DEF leading
  <2>3. EmitRow(d, st, r) =
          IF st.match > 0 /\ st.since < After
          THEN [st EXCEPT !.out = Append(@, [row |-> r, context |-> TRUE]),
                          !.emitted = r, !.since = @ + 1]
          ELSE st
    BY <1>3, <2>2
  <2> QED BY <2>1, <2>3 DEF S, M
<1> QED BY <1>6, <1>7, <1>8

\* A row that is emitted leaves a state to go on from.
LEMMA EmitStays ==
  ASSUME NEW d, d.records \in Seq(RecordRecs), NEW r \in 1 .. Len(d.records),
         NEW st \in EmitStates
  PROVE  EmitRow(d, st, r) \in EmitStates
<1> DEFINE wanted == {q \in (st.emitted + 1) .. (r - 1) : InContextStream(d, q)}
           lead   == {q \in wanted : Cardinality({p \in wanted : p >= q}) <= Before}
           leading == [k \in 1 .. Cardinality(lead) |->
                         [row |-> InOrder(lead)[k], context |-> TRUE]]
<1>1. r \in Nat /\ r - 1 \in Nat /\ st.emitted \in Nat /\ st.match \in Nat /\ st.since \in Nat
      /\ st.out \in Seq(RowRecs)
  BY DEF EmitStates
<1>2. lead \in SUBSET Nat /\ IsFiniteSet(lead)
  <2>1. \A q \in wanted : q \in (st.emitted + 1) .. (r - 1) /\ q \in Nat BY <1>1
  <2>2. IsFiniteSet((st.emitted + 1) .. (r - 1))
    <3>1. st.emitted + 1 \in Int /\ r - 1 \in Int BY <1>1
    <3> QED BY <3>1, FS_Interval
  <2>3. \A q \in lead : q \in wanted OBVIOUS
  <2> HIDE DEF lead, wanted
  <2> QED BY <2>1, <2>2, <2>3, FS_Subset
<1> HIDE DEF lead
<1>3. /\ Cardinality(lead) \in Nat
      /\ \A k \in 1 .. Cardinality(lead) : InOrder(lead)[k] \in lead
  BY <1>2, ListingIs
<1>4. leading \in Seq(RowRecs)
  <2>1. \A k \in 1 .. Cardinality(lead) : [row |-> InOrder(lead)[k], context |-> TRUE] \in RowRecs
    BY <1>2, <1>3 DEF RowRecs
  <2> QED BY <1>3, <2>1
<1>5. EmitRow(d, st, r) =
        IF ~InContextStream(d, r) THEN st
        ELSE IF MatchesTextAxis(d, r)
        THEN [out |-> st.out \o leading \o <<[row |-> r, context |-> FALSE]>>,
              emitted |-> r, match |-> r, since |-> 0]
        ELSE IF st.match > 0 /\ st.since < After
        THEN [st EXCEPT !.out = Append(@, [row |-> r, context |-> TRUE]),
                        !.emitted = r, !.since = @ + 1]
        ELSE st
  BY DEF EmitRow, lead
<1> HIDE DEF leading
<1>6. [row |-> r, context |-> FALSE] \in RowRecs /\ [row |-> r, context |-> TRUE] \in RowRecs
  BY <1>1 DEF RowRecs
<1>7. [out |-> st.out \o leading \o <<[row |-> r, context |-> FALSE]>>,
       emitted |-> r, match |-> r, since |-> 0] \in EmitStates
  <2>1. \A s, t \in Seq(RowRecs), x \in RowRecs : s \o t \o <<x>> \in Seq(RowRecs) OBVIOUS
  <2>2. st.out \o leading \o <<[row |-> r, context |-> FALSE]>> \in Seq(RowRecs)
    BY <1>1, <1>4, <1>6, <2>1
  <2> QED BY <1>1, <2>2 DEF EmitStates
<1>8. [st EXCEPT !.out = Append(@, [row |-> r, context |-> TRUE]),
                 !.emitted = r, !.since = @ + 1] \in EmitStates
  <2> DEFINE more == Append(st.out, [row |-> r, context |-> TRUE])
             since == st.since + 1
  <2>1. more \in Seq(RowRecs) /\ since \in Nat BY <1>1, <1>6
  <2> HIDE DEF more, since
  <2>2. [st EXCEPT !.out = more, !.emitted = r, !.since = since] \in EmitStates
    BY <1>1, <2>1 DEF EmitStates
  <2> QED BY <2>2 DEF more, since
<1> QED BY <1>5, <1>7, <1>8

\* The rows one after another.
LEMMA EmissionSteps ==
  ASSUME NEW d, d.records \in Seq(RecordRecs), NEW first \in 1 .. Len(d.records) + 1,
         NEW st \in EmitStates
  PROVE  /\ Emission(d, first, st)[first - 1] = st
         /\ \A r \in first .. Len(d.records) :
              Emission(d, first, st)[r] = EmitRow(d, Emission(d, first, st)[r - 1], r)
<1> DEFINE N == Len(d.records)
           m == first - 1
           step == [p \in (first .. N) \X EmitStates |-> EmitRow(d, p[2], p[1])]
           F(h) == [r \in m .. N |-> IF r = m THEN st ELSE EmitRow(d, h[r - 1], r)]
           upto == CHOOSE h : h = F(h)
<1>1. N \in Nat /\ m \in Nat /\ m + 1 = first /\ m <= N OBVIOUS
<1>2. Emission(d, first, st) = upto BY DEF Emission
<1>3. \A r \in first .. N, s \in EmitStates : EmitRow(d, s, r) \in EmitStates
  <2> SUFFICES ASSUME NEW r \in first .. N, NEW s \in EmitStates
               PROVE  EmitRow(d, s, r) \in EmitStates
    OBVIOUS
  <2>1. r \in 1 .. Len(d.records) BY <1>1
  <2> QED BY <2>1, EmitStays
<1> HIDE DEF N, m
<1>4. step \in [((m + 1) .. N) \X EmitStates -> EmitStates] BY <1>1, <1>3
<1>5. \A r \in (m + 1) .. N, s \in EmitStates : step[<<r, s>>] = EmitRow(d, s, r) BY <1>1
<1> HIDE DEF step
<1>6. PICK f \in [m .. N -> EmitStates] : Stepped(f, step, st, m, N)
  BY <1>1, <1>4, Iterates
<1>7. f = F(f)
  <2>1. \A r \in m .. N : r = m \/ (r \in (m + 1) .. N /\ r - 1 \in m .. N) BY <1>1
  <2>2. \A r \in m .. N : f[r] = IF r = m THEN st ELSE EmitRow(d, f[r - 1], r)
    BY <1>1, <1>5, <1>6, <2>1 DEF Stepped
  <2> QED BY <1>6, <2>2
<1>8. upto = F(upto)
  <2> HIDE DEF F
  <2> QED BY <1>7
<1> HIDE DEF upto
<1>9. \A r \in m .. N : upto[r] = IF r = m THEN st ELSE EmitRow(d, upto[r - 1], r) BY <1>8
<1>10. m \in m .. N /\ \A r \in first .. N : r \in m .. N /\ r # m BY <1>1
<1>11. upto[m] = st /\ \A r \in first .. N : upto[r] = EmitRow(d, upto[r - 1], r)
  BY <1>9, <1>10
<1> QED BY <1>2, <1>11 DEF N, m

\* What is kept is there before the search goes on.
LEMMA KeptIsOut ==
  ASSUME NEW S \in SUBSET (Nat \ {0}), NEW M \in SUBSET S, NEW b \in Nat, NEW w \in Nat \ {0},
         w <= b + 1
  PROVE  /\ Out(S, M, b, w, w - 1) = Kept(S, M, b, w)
         /\ \A n \in Nat : b <= n => Out(S, M, b, w, n) = ShownBy(S, M, n)
         /\ Kept(S, M, b, w) \in SUBSET Nat /\ IsFiniteSet(Kept(S, M, b, w))
         /\ \A i \in M : i < w => i \in Kept(S, M, b, w)
<1>1. S \in SUBSET Nat /\ w - 1 \in Nat /\ w - 1 <= b OBVIOUS
<1>2. \A i \in ShownBy(S, M, w - 1) : i \in ShownBy(S, M, b) /\ i \in S /\ i <= w - 1
  BY <1>1, ShownGrows
<1>3. \A i \in ShownBy(S, M, w - 1) : i < w
  <2>1. \A i \in Nat : i <= w - 1 => i < w OBVIOUS
  <2> QED BY <1>1, <1>2, <2>1
<1>4. \A i \in Kept(S, M, b, w) : i \in ShownBy(S, M, b) /\ i \in S /\ i < w
  BY <1>1, ShownGrows DEF Kept
<1>5. \A n \in Nat : b <= n => \A i \in ShownBy(S, M, b) : i \in ShownBy(S, M, n)
  BY <1>1, ShownGrows
<1>6. Out(S, M, b, w, w - 1) = Kept(S, M, b, w) BY <1>2, <1>3 DEF Out, Kept
<1>7. \A n \in Nat : b <= n => Out(S, M, b, w, n) = ShownBy(S, M, n) BY <1>4, <1>5 DEF Out
<1>8. \A i \in Kept(S, M, b, w) : i \in 1 .. w /\ i \in Nat
  <2>1. \A i \in S : i \in Nat /\ i > 0 OBVIOUS
  <2> QED
    <3>1. \A i \in Kept(S, M, b, w) : i \in Nat /\ i > 0 /\ i < w BY <1>4, <2>1
    <3> QED BY <3>1
<1>9. IsFiniteSet(1 .. w) BY FS_Interval
<1>10. Kept(S, M, b, w) \in SUBSET Nat /\ IsFiniteSet(Kept(S, M, b, w))
  BY <1>8, <1>9, FS_Subset
<1>11. \A i \in M : i < w => i \in Kept(S, M, b, w)
  <2> SUFFICES ASSUME NEW i \in M, i < w PROVE i \in Kept(S, M, b, w) OBVIOUS
  <2>1. i \in S /\ i <= b BY <1>1
  <2> QED BY <2>1 DEF Kept, ShownBy
<1> QED BY <1>6, <1>7, <1>10, <1>11

\* The emission goes on to show what a search of the whole would show, and what was kept
\* stays at the front of it.
LEMMA EmissionShows ==
  ASSUME NEW d, d.records \in Seq(RecordRecs), NEW b \in Nat, NEW w \in Nat \ {0},
         w <= b + 1, b <= Len(d.records),
         NEW st, StateIs(Admitted(d), Matching(d), b, w, w - 1, st)
  PROVE  LET S == Admitted(d)
             M == Matching(d)
             K == Kept(S, M, b, w)
             X == ShownBy(S, M, Len(d.records))
             out == EmitWithContext(d, w, st).out
         IN /\ out = Listing(M, X) /\ out = Listing(M, K) \o Listing(M, X \ K)
            /\ X \in SUBSET Nat /\ IsFiniteSet(X) /\ X \ K \in SUBSET Nat /\ IsFiniteSet(X \ K)
            /\ Cardinality(X) = Cardinality(K) + Cardinality(X \ K)
<1> DEFINE S == Admitted(d)
           M == Matching(d)
           K == Kept(S, M, b, w)
           N == Len(d.records)
           X == ShownBy(S, M, N)
           E == Emission(d, w, st)
           C == {r \in Nat : /\ StateIs(S, M, b, w, r, E[r])
                             /\ \A x \in K, y \in Out(S, M, b, w, r) : y \in K \/ x < y}
<1>1. /\ N \in Nat /\ w \in 1 .. N + 1 /\ w - 1 \in Nat /\ w - 1 <= N /\ st \in EmitStates
      /\ w - 1 + 1 = w
  BY DEF StateIs
<1>2. S \in SUBSET (Nat \ {0}) /\ M \in SUBSET S /\ S \in SUBSET Nat
  BY DEF Admitted, Matching
<1>3. E[w - 1] = st /\ \A r \in w .. N : E[r] = EmitRow(d, E[r - 1], r)
  BY <1>1, EmissionSteps
<1>4. EmitWithContext(d, w, st) = E[N] BY DEF EmitWithContext
<1> HIDE DEF E
<1>5. /\ Out(S, M, b, w, w - 1) = K /\ Out(S, M, b, w, N) = X
      /\ K \in SUBSET Nat /\ IsFiniteSet(K)
  <2>1. /\ Out(S, M, b, w, w - 1) = K
        /\ \A n \in Nat : b <= n => Out(S, M, b, w, n) = ShownBy(S, M, n)
        /\ K \in SUBSET Nat /\ IsFiniteSet(K)
    <3> HIDE DEF S, M
    <3> QED BY <1>2, KeptIsOut
  <2>2. b <= N OBVIOUS
  <2> HIDE DEF S, M, N
  <2> QED BY <1>1, <2>1, <2>2
<1>6. w - 1 \in C BY <1>1, <1>3, <1>5
<1>7. ASSUME NEW r \in (w - 1 + 1) .. N, r - 1 \in C PROVE r \in C
  <2>1. r \in 1 .. N /\ r \in w .. N /\ r \in Nat \ {0} /\ r - 1 \in Nat /\ w <= r BY <1>1
  <2>2. Resumed(S, M, b, w, r) BY <1>2, <2>1 DEF Resumed
  <2>3. /\ StateIs(S, M, b, w, r - 1, E[r - 1])
        /\ \A x \in K, y \in Out(S, M, b, w, r - 1) : y \in K \/ x < y
    BY <1>7
  <2>4. StateIs(S, M, b, w, r, EmitRow(d, E[r - 1], r)) BY <2>1, <2>2, <2>3, EmitStep
  <2> DEFINE Y == Out(S, M, b, w, r - 1)
  <2>5. /\ \A x \in Y : x \in Nat /\ x <= Last0(Y) /\ Last0(Y) < r /\ Last0(Y) \in Nat
    BY <2>2, OutIs
  <2>6. K \subseteq Y BY DEF Out
  <2>7. \A y \in Out(S, M, b, w, r) : y \in Y \/ (y \in Nat /\ (y = r \/ Last0(Y) < y))
    <3>1. CASE r \notin S BY <2>2, <3>1, OutStepsOver
    <3>2. CASE r \in M
      <4>1. LET lead == {q \in S : /\ Last0(Y) < q /\ q < r
                                   /\ Cardinality(Span(S, q, r - 1)) <= Before}
            IN Out(S, M, b, w, r) = Y \cup lead \cup {r}
        BY <2>2, <3>2, OutStepsToMatch
      <4> HIDE DEF Y, S, M
      <4> QED BY <1>2, <2>1, <4>1
    <3>3. CASE r \in S /\ r \notin M
      <4>1. Out(S, M, b, w, r) = Y \/ Out(S, M, b, w, r) = Y \cup {r}
        BY <2>2, <3>3, OutStepsPast
      <4> HIDE DEF Y, S, M
      <4> QED BY <2>1, <4>1
    <3> QED BY <3>1, <3>2, <3>3
  <2>8. \A x \in K, y \in Out(S, M, b, w, r) : y \in K \/ x < y
    <3> SUFFICES ASSUME NEW x \in K, NEW y \in Out(S, M, b, w, r), y \notin K PROVE x < y
      OBVIOUS
    <3>0. x \in Y BY <2>6
    <3>1. CASE y \in Y BY <2>3, <3>1
    <3>2. CASE y \notin Y
      <4>1. y \in Nat /\ (y = r \/ Last0(Y) < y) BY <2>7, <3>2
      <4>2. x \in Nat /\ x <= Last0(Y) /\ Last0(Y) < r /\ Last0(Y) \in Nat BY <2>5, <3>0
      <4> HIDE DEF Y, K
      <4> QED BY <2>1, <4>1, <4>2
    <3> QED BY <3>1, <3>2
  <2> QED BY <1>3, <2>1, <2>4, <2>8
<1> HIDE DEF C, S, M, N
<1>8. \A r \in (w - 1) .. N : r \in C BY <1>1, <1>6, <1>7, StepByStep
<1>9. N \in C BY <1>1, <1>8
<1>10. E[N].out = Listing(M, X) /\ \A x \in K, y \in X : y \in K \/ x < y
  BY <1>5, <1>9 DEF C, StateIs
<1>11. K \subseteq X BY <1>5 DEF Out
<1>12. X \in SUBSET Nat /\ IsFiniteSet(X)
  <2>1. \A i \in X : i \in S /\ i <= N BY <1>1, <1>2, ShownGrows
  <2>2. \A i \in X : i \in Nat /\ i \in 0 .. N
    <3>1. \A i \in X : i \in Nat /\ i <= N BY <1>2, <2>1
    <3> HIDE DEF X
    <3> QED BY <1>1, <3>1
  <2>3. IsFiniteSet(0 .. N) BY <1>1, FS_Interval
  <2> HIDE DEF X
  <2> QED BY <2>2, <2>3, FS_Subset
<1> HIDE DEF X, K
<1> DEFINE A == X \ K
<1>13. A \in SUBSET Nat /\ IsFiniteSet(A) /\ X = K \cup A /\ \A x \in K, y \in A : x < y
  BY <1>10, <1>11, <1>12, FS_Subset
<1> HIDE DEF A
<1>14. Listing(M, X) = Listing(M, K) \o Listing(M, A)
  <2>1. Listing(M, K \cup A) = Listing(M, K) \o Listing(M, A) BY <1>5, <1>13, ListingJoins
  <2> QED BY <1>13, <2>1
<1>15. Cardinality(X) = Cardinality(K) + Cardinality(A) BY <1>5, <1>13, InOrderJoins
<1> QED BY <1>4, <1>10, <1>12, <1>13, <1>14, <1>15 DEF A, X, K, S, M, N

\* A search from the top starts with nothing.
LEMMA FromTheTop ==
  ASSUME NEW S \in SUBSET (Nat \ {0}), NEW M \in SUBSET S
  PROVE  /\ Kept(S, M, 0, 1) = {}
         /\ StateIs(S, M, 0, 1, 0, [out |-> <<>>, emitted |-> 0, match |-> 0, since |-> 0])
<1>1. \A i \in S : i \in Nat /\ ~(i < 1) /\ ~(i <= 0) OBVIOUS
<1>2. Kept(S, M, 0, 1) = {} BY <1>1 DEF Kept, ShownBy
<1>3. Out(S, M, 0, 1, 0) = {} BY <1>1, <1>2 DEF Out, ShownBy
<1>4. {i \in M : i <= 0} = {} BY <1>1
<1>5. Listing(M, {}) = <<>> /\ Last0({}) = 0 BY ListingOne DEF Last0
<1> DEFINE st == [out |-> <<>>, emitted |-> 0, match |-> 0, since |-> 0]
<1>6. /\ st \in EmitStates /\ st.out = <<>> /\ st.emitted = 0 /\ st.match = 0
  BY DEF EmitStates
<1> HIDE DEF st
<1>7. StateIs(S, M, 0, 1, 0, st)
  <2>1. ~(st.match > 0) BY <1>6
  <2>2. st.match = Last0({i \in M : i <= 0}) BY <1>4, <1>5, <1>6
  <2> QED BY <1>3, <1>5, <1>6, <2>1, <2>2 DEF StateIs
<1> QED BY <1>2, <1>7 DEF st

\* What a search of the whole document shows, and the view it makes.
ShownRows(d) == Listing(Matching(d), ShownBy(Admitted(d), Matching(d), Len(d.records)))
ViewOf(d) ==
  IF Restricts(d)
  THEN [active |-> TRUE, rows |-> ShownRows(d), copy |-> CopyOf(d, ShownRows(d)),
        sums |-> RebuiltSums(CopyOf(d, ShownRows(d)))]
  ELSE Identity

\* What is admitted are records, and what matches is admitted.
LEMMA StreamIs ==
  ASSUME NEW d, d.records \in Seq(RecordRecs)
  PROVE  LET X == ShownBy(Admitted(d), Matching(d), Len(d.records))
         IN /\ Admitted(d) \in SUBSET (Nat \ {0}) /\ Matching(d) \in SUBSET Admitted(d)
            /\ Admitted(d) \in SUBSET (1 .. Len(d.records)) /\ Len(d.records) \in Nat
            /\ X \in SUBSET Nat /\ IsFiniteSet(X) /\ X \in SUBSET (1 .. Len(d.records))
            /\ Matching(d) \in SUBSET X
<1> DEFINE S == Admitted(d)
           M == Matching(d)
           N == Len(d.records)
           X == ShownBy(S, M, N)
<1>1. S \in SUBSET (1 .. N) /\ M \in SUBSET S /\ N \in Nat BY DEF Admitted, Matching
<1> HIDE DEF S, M, N
<1>2. S \in SUBSET (Nat \ {0}) /\ IsFiniteSet(1 .. N) BY <1>1, FS_Interval
<1>3. X \in SUBSET S BY DEF ShownBy
<1>4. M \in SUBSET X
  <2>1. \A i \in M : i \in S /\ i <= N BY <1>1
  <2> QED BY <2>1 DEF ShownBy
<1> HIDE DEF X
<1>5. IsFiniteSet(X) /\ X \in SUBSET Nat BY <1>1, <1>2, <1>3, FS_Subset
<1> QED BY <1>1, <1>2, <1>3, <1>4, <1>5 DEF S, M, N, X

\* What is wanted of the document is what such a search shows.
LEMMA WantedIsShown ==
  ASSUME doc.records \in Seq(RecordRecs)
  PROVE  WantedRows = ShownRows(doc)
<1> DEFINE S == Admitted(doc)
           M == Matching(doc)
           N == Len(doc.records)
           X == ShownBy(S, M, N)
           W == {i \in 1 .. N : Shown(i)}
           at == InOrder(W)
<1>1. S \in SUBSET (1 .. N) /\ M \in SUBSET S /\ N \in Nat /\ X \in SUBSET (1 .. N)
      /\ X \in SUBSET Nat /\ IsFiniteSet(X)
  BY StreamIs
<1>2. \A i \in 1 .. N : /\ i \in S <=> InContextStream(doc, i)
                        /\ i \in M <=> AcceptsInView(doc, i)
  BY DEF Admitted, Matching, AcceptsInView
<1>3. \A a \in Nat \ {0}, z \in Nat : z <= N => Between(a, z) = Cardinality(Span(S, a, z))
  <2> SUFFICES ASSUME NEW a \in Nat \ {0}, NEW z \in Nat, z <= N
               PROVE  {i \in a .. z : InContextStream(doc, i)} = Span(S, a, z)
    BY DEF Between
  <2>1. \A i \in a .. z : i \in 1 .. N BY <1>1
  <2>2. \A i \in S : i \in a .. z <=> (a <= i /\ i <= z) BY <1>1
  <2> HIDE DEF S, N
  <2> QED BY <1>1, <1>2, <2>1, <2>2 DEF Span
<1> HIDE DEF S, M, N
<1>4. ASSUME NEW i \in 1 .. N PROVE Shown(i) <=> i \in X
  <2>1. i \in Nat \ {0} /\ i <= N BY <1>1
  <2>2. \A m \in 1 .. N : /\ (m > i /\ Between(i, m - 1) <= Before) <=> Leads(S, i, m)
                          /\ (m < i /\ Between(m + 1, i) <= After) <=> Trails(S, i, m)
    <3> SUFFICES ASSUME NEW m \in 1 .. N
                 PROVE  /\ (m > i /\ Between(i, m - 1) <= Before) <=> Leads(S, i, m)
                        /\ (m < i /\ Between(m + 1, i) <= After) <=> Trails(S, i, m)
      OBVIOUS
    <3>1. m - 1 \in Nat /\ m - 1 <= N /\ m + 1 \in Nat \ {0} /\ (m > i <=> i < m)
      BY <1>1, <2>1
    <3>2. /\ Between(i, m - 1) = Cardinality(Span(S, i, m - 1))
          /\ Between(m + 1, i) = Cardinality(Span(S, m + 1, i))
      BY <1>1, <1>3, <2>1, <3>1
    <3> QED BY <3>1, <3>2 DEF Leads, Trails
  <2>3. Shown(i) <=> \/ i \in M
                     \/ i \in S /\ \E m \in 1 .. N : m \in M /\ (Leads(S, i, m) \/ Trails(S, i, m))
    <3>1. \A m \in 1 .. Len(doc.records) : AcceptsInView(doc, m) <=> m \in M BY <1>2 DEF N
    <3>2. \A m \in 1 .. Len(doc.records) :
            /\ (m > i /\ Between(i, m - 1) <= Before) <=> Leads(S, i, m)
            /\ (m < i /\ Between(m + 1, i) <= After) <=> Trails(S, i, m)
      BY <2>2 DEF N
    <3> QED BY <1>2, <3>1, <3>2 DEF Shown, N
  <2>4. \A m \in M : m \in 1 .. N /\ m <= N BY <1>1
  <2>5. i \in M => i \in S BY <1>1
  <2> QED BY <2>1, <2>3, <2>4, <2>5 DEF ShownBy
<1>5. W = X BY <1>1, <1>4
<1>6. WantedRows = [k \in 1 .. Len(at) |->
                      [row |-> at[k], context |-> ~AcceptsInView(doc, at[k])]]
  BY DEF WantedRows, N
<1> HIDE DEF W, X
<1>7. Len(at) = Cardinality(X) /\ \A k \in 1 .. Cardinality(X) : at[k] \in X
  <2>1. InOrder(X) \in [1 .. Cardinality(X) -> X] /\ Cardinality(X) \in Nat
    BY <1>1, InOrderLists
  <2> QED BY <1>5, <2>1
<1>8. \A i \in X : [row |-> i, context |-> ~AcceptsInView(doc, i)] = RowOf(M, i)
  <2> SUFFICES ASSUME NEW i \in X
               PROVE  [row |-> i, context |-> ~AcceptsInView(doc, i)] = RowOf(M, i)
    OBVIOUS
  <2>1. i \in M <=> AcceptsInView(doc, i) BY <1>1, <1>2
  <2>2. (~AcceptsInView(doc, i)) = IF i \in M THEN FALSE ELSE TRUE BY <2>1
  <2> QED BY <2>2 DEF RowOf
<1>9. WantedRows = Listing(M, X)
  <2>1. \A k \in 1 .. Cardinality(X) :
          [row |-> at[k], context |-> ~AcceptsInView(doc, at[k])] = RowOf(M, InOrder(X)[k])
    BY <1>5, <1>7, <1>8
  <2> QED BY <1>6, <1>7, <2>1 DEF Listing
<1> QED BY <1>9 DEF ShownRows, X, S, M, N

\* applyFilters() makes the view of such a search.
LEMMA AppliedIsShown ==
  ASSUME NEW d, DOMAIN d = Fields, d.records \in Seq(RecordRecs)
  PROVE  /\ ApplyFilters(d) = [d EXCEPT !.view = ViewOf(d)]
         /\ ApplyFilters(d).view = ViewOf(d)
<1> DEFINE st == [out |-> <<>>, emitted |-> 0, match |-> 0, since |-> 0]
           rows == EmitWithContext(d, 1, st).out
<1>1. rows = ShownRows(d)
  <2>1. Admitted(d) \in SUBSET (Nat \ {0}) /\ Matching(d) \in SUBSET Admitted(d)
        /\ Len(d.records) \in Nat
    BY StreamIs
  <2>2. StateIs(Admitted(d), Matching(d), 0, 1, 1 - 1, st)
    <3>1. StateIs(Admitted(d), Matching(d), 0, 1, 0, st) BY <2>1, FromTheTop
    <3>2. 1 - 1 = 0 OBVIOUS
    <3> QED BY <3>1, <3>2
  <2>3. 0 \in Nat /\ 1 \in Nat \ {0} /\ 1 <= 0 + 1 /\ 0 <= Len(d.records) BY <2>1
  <2> HIDE DEF st
  <2>4. EmitWithContext(d, 1, st).out
          = Listing(Matching(d), ShownBy(Admitted(d), Matching(d), Len(d.records)))
    BY <2>2, <2>3, EmissionShows
  <2> QED BY <2>4 DEF ShownRows
<1>2. ApplyFilters(d) =
        [d EXCEPT !.view = IF ~Restricts(d) THEN Identity
                           ELSE [active |-> TRUE, rows |-> rows, copy |-> CopyOf(d, rows),
                                 sums |-> RebuiltSums(CopyOf(d, rows))]]
  BY DEF ApplyFilters
<1> HIDE DEF rows
<1>3. ApplyFilters(d) = [d EXCEPT !.view = ViewOf(d)] BY <1>1, <1>2 DEF ViewOf
<1>4. \A x : [d EXCEPT !.view = x].view = x BY DEF Fields
<1> QED BY <1>3, <1>4

\* The parts of a document that its view is made of.
SameStream(d, e) ==
  /\ e.seen = d.seen /\ e.records = d.records /\ e.bound = d.bound /\ e.filter = d.filter

\* A document with the same of these has the same view.
LEMMA SameIsShown ==
  ASSUME NEW d, NEW e, SameStream(d, e)
  PROVE  /\ ViewOf(e) = ViewOf(d) /\ Restricts(e) = Restricts(d)
         /\ Admitted(e) = Admitted(d) /\ Matching(e) = Matching(d)
<1>1. e.seen = d.seen /\ e.records = d.records /\ e.bound = d.bound /\ e.filter = d.filter
  BY DEF SameStream
<1>2. Restricts(e) = Restricts(d) BY <1>1 DEF Restricts
<1>3. \A i : InContextStream(e, i) = InContextStream(d, i)
  BY <1>1 DEF InContextStream, InRunBound
<1>4. \A i : MatchesTextAxis(e, i) = MatchesTextAxis(d, i)
  BY <1>1 DEF MatchesTextAxis, HasHit
<1>5. Admitted(e) = Admitted(d) BY <1>1, <1>3 DEF Admitted
<1>6. Matching(e) = Matching(d) BY <1>4, <1>5 DEF Matching
<1>7. ShownRows(e) = ShownRows(d) BY <1>1, <1>5, <1>6 DEF ShownRows
<1>8. CopyOf(e, ShownRows(e)) = CopyOf(d, ShownRows(d)) BY <1>1, <1>7 DEF CopyOf
<1> QED BY <1>2, <1>5, <1>6, <1>7, <1>8 DEF ViewOf

\* As many places of an ascending order hold a member of a part as the part has members.
LEMMA PlacesOfPart ==
  ASSUME NEW X \in SUBSET Nat, IsFiniteSet(X), NEW Y \in SUBSET X
  PROVE  Cardinality({k \in 1 .. Cardinality(X) : InOrder(X)[k] \in Y}) = Cardinality(Y)
<1> DEFINE n == Cardinality(X)
           f == InOrder(X)
           P == {k \in 1 .. n : f[k] \in Y}
           g == [k \in P |-> f[k]]
<1>1. /\ n \in Nat /\ f \in [1 .. n -> X]
      /\ \A i, j \in 1 .. n : i < j => f[i] < f[j]
      /\ \A x \in X : \E i \in 1 .. n : f[i] = x
  BY InOrderLists
<1> HIDE DEF n, f
<1>2. \A k \in P : k \in 1 .. n /\ f[k] \in Y /\ g[k] = f[k] OBVIOUS
<1>3. ASSUME NEW i \in P, NEW j \in P, f[i] = f[j] PROVE i = j
  <2>1. i \in 1 .. n /\ j \in 1 .. n BY <1>2
  <2>2. i < j \/ j < i \/ i = j BY <1>1, <2>1
  <2>3. f[i] \in Nat /\ f[j] \in Nat BY <1>1, <2>1
  <2> QED BY <1>1, <1>3, <2>1, <2>2, <2>3
<1>4. ASSUME NEW y \in Y PROVE \E k \in P : f[k] = y BY <1>1
<1>5. P \in SUBSET (1 .. n) /\ IsFiniteSet(1 .. n) BY <1>1, FS_Interval
<1> HIDE DEF P
<1>6. IsFiniteSet(P) BY <1>5, FS_Subset
<1>7. g \in Bijection(P, Y)
  BY <1>2, <1>3, <1>4 DEF Bijection, Injection, Surjection, IsInjective
<1>8. ExistsBijection(P, Y) BY <1>7 DEF ExistsBijection
<1>9. Cardinality(P) = Cardinality(Y) BY <1>6, <1>8, FS_Bijection
<1> QED BY <1>9 DEF P, f, n

\* The last place of an ascending order holds the last of it.
LEMMA LastPlaceHolds ==
  ASSUME NEW X \in SUBSET Nat, IsFiniteSet(X)
  PROVE  /\ Cardinality(X) = 0 => Last0(X) = 0 /\ X = {}
         /\ Cardinality(X) # 0 => InOrder(X)[Cardinality(X)] = Last0(X)
<1> DEFINE n == Cardinality(X)
           f == InOrder(X)
<1>1. /\ n \in Nat /\ f \in [1 .. n -> X]
      /\ \A i, j \in 1 .. n : i < j => f[i] < f[j]
      /\ \A x \in X : \E i \in 1 .. n : f[i] = x
  BY InOrderLists
<1> HIDE DEF n, f
<1>2. CASE n = 0
  <2>1. X = {} BY <1>1, <1>2
  <2> QED BY <1>2, <2>1, LastIs DEF n
<1>3. CASE n # 0
  <2>1. n \in 1 .. n /\ f[n] \in X /\ f[n] \in Nat
    <3>1. n \in 1 .. n BY <1>1, <1>3
    <3>2. f[n] \in X BY <1>1, <3>1
    <3> QED BY <3>1, <3>2
  <2>2. \A x \in X : x <= f[n]
    <3> SUFFICES ASSUME NEW x \in X PROVE x <= f[n] OBVIOUS
    <3>1. PICK i \in 1 .. n : f[i] = x BY <1>1
    <3>2. i = n \/ i < n BY <1>1
    <3>3. f[i] \in Nat BY <1>1
    <3> QED BY <1>1, <2>1, <3>1, <3>2, <3>3
  <2>3. Last0(X) = f[n] BY <2>1, <2>2, LastIsThat
  <2> QED BY <1>3, <2>3 DEF n, f
<1> QED BY <1>2, <1>3

\* The rows below a record, as rows and as places in a listing.
Below(X, w) == {x \in X : x < w}
RowsBelow(v, w) == {k \in 1 .. Len(v.rows) : v.rows[k].row < w}

\* The rows from a record on are withdrawn, and the listing below it stays.
LEMMA ListingKeeps ==
  ASSUME NEW M, NEW X \in SUBSET Nat, IsFiniteSet(X), NEW w \in Nat,
         NEW v, v.rows = Listing(M, X)
  PROVE  /\ IsFiniteSet(Below(X, w)) /\ Below(X, w) \in SUBSET Nat
         /\ Cardinality(Below(X, w)) \in 0 .. Cardinality(X)
         /\ Cardinality(RowsBelow(v, w)) = Cardinality(Below(X, w))
         /\ Len(v.rows) = Cardinality(X) /\ v.rows \in Seq(RowRecs)
         /\ SubSeq(v.rows, 1, Cardinality(Below(X, w))) = Listing(M, Below(X, w))
         /\ (Cardinality(Below(X, w)) = Cardinality(X) => Below(X, w) = X)
<1> DEFINE K == Below(X, w)
           A == X \ K
           m == Cardinality(K)
           n == Cardinality(A)
           a == Listing(M, K)
           c == Listing(M, A)
<1>1. K \in SUBSET X /\ A \in SUBSET X /\ X = K \cup A /\ \A x \in K, y \in A : x < y
  <2>1. \A x \in X : x \in Nat OBVIOUS
  <2> QED BY <2>1 DEF Below
<1>2. IsFiniteSet(K) /\ IsFiniteSet(A) /\ K \in SUBSET Nat /\ A \in SUBSET Nat
  BY <1>1, FS_Subset
<1>3. /\ v.rows = a \o c /\ Cardinality(X) = m + n
  <2> HIDE DEF K, A
  <2>1. Listing(M, K \cup A) = Listing(M, K) \o Listing(M, A) BY <1>1, <1>2, ListingJoins
  <2>2. Cardinality(K \cup A) = Cardinality(K) + Cardinality(A)
    BY <1>1, <1>2, InOrderJoins
  <2> QED BY <1>1, <2>1, <2>2
<1>4. a \in Seq(RowRecs) /\ Len(a) = m /\ m \in Nat /\ c \in Seq(RowRecs) /\ Len(c) = n /\ n \in Nat
  <2> HIDE DEF K, A
  <2> QED BY <1>2, ListingIs
<1>5. m \in 0 .. Cardinality(X)
  <2>1. m \in Nat /\ n \in Nat /\ Cardinality(X) = m + n BY <1>3, <1>4
  <2> HIDE DEF m, n
  <2> QED BY <2>1
<1>6. Cardinality(RowsBelow(v, w)) = m
  <2>1. /\ Len(v.rows) = Cardinality(X)
        /\ \A k \in 1 .. Cardinality(X) : v.rows[k].row = InOrder(X)[k] /\ InOrder(X)[k] \in X
    BY ListingIs
  <2>2. RowsBelow(v, w) = {k \in 1 .. Cardinality(X) : InOrder(X)[k] \in K}
    BY <2>1 DEF RowsBelow, Below
  <2> HIDE DEF K
  <2>3. Cardinality({k \in 1 .. Cardinality(X) : InOrder(X)[k] \in K}) = Cardinality(K)
    BY <1>1, PlacesOfPart
  <2> QED BY <2>2, <2>3
<1>7. Len(v.rows) = Cardinality(X) /\ v.rows \in Seq(RowRecs) BY ListingIs
<1>8. SubSeq(v.rows, 1, m) = a
  <2>1. \A s, t \in Seq(RowRecs) : SubSeq(s \o t, 1, Len(s)) = s OBVIOUS
  <2> HIDE DEF a, c, m, n
  <2> QED BY <1>3, <1>4, <2>1
<1>9. m = Cardinality(X) => K = X BY <1>1, FS_Subset
<1> QED BY <1>2, <1>5, <1>6, <1>7, <1>8, <1>9 DEF K, m, a

\* The last of the rows that is a match.
LEMMA LastMatchIs ==
  ASSUME NEW M, NEW X \in SUBSET Nat, IsFiniteSet(X), NEW v, v.rows = Listing(M, X)
  PROVE  LastMatchSource(v) = Last0(X \cap M)
<1>1. /\ Len(v.rows) = Cardinality(X)
      /\ \A k \in 1 .. Cardinality(X) : /\ v.rows[k].row = InOrder(X)[k] /\ InOrder(X)[k] \in X
                                        /\ v.rows[k].context = (InOrder(X)[k] \notin M)
  <2>1. LET s == Listing(M, X)
        IN /\ Len(s) = Cardinality(X)
           /\ \A k \in 1 .. Cardinality(X) : /\ s[k].row = InOrder(X)[k] /\ InOrder(X)[k] \in X
                                             /\ s[k].context = (InOrder(X)[k] \notin M)
    BY ListingIs
  <2> QED BY <2>1, Zenon
<1>2. \A x \in X : \E k \in 1 .. Cardinality(X) : InOrder(X)[k] = x BY InOrderLists
<1> DEFINE R == {v.rows[k].row : k \in {j \in 1 .. Len(v.rows) : ~v.rows[j].context}}
<1>3. \A x : x \in R <=> \E k \in 1 .. Cardinality(X) : InOrder(X)[k] = x /\ x \in M
  BY <1>1
<1>4. R = X \cap M
  <2> HIDE DEF R
  <2>1. \A x \in R : x \in X /\ x \in M BY <1>1, <1>3
  <2>2. \A x \in X : x \in M => x \in R BY <1>2, <1>3
  <2> QED BY <2>1, <2>2
<1>5. LastMatchSource(v) = Last0(R) BY DEF LastMatchSource
<1> QED BY <1>4, <1>5

\* Two sets that have the same members up to a number.
Alike(S, T, k) == \A i \in Nat : i <= k => (i \in S <=> i \in T)

\* What counts as near a match is the same in both, up to there.
LEMMA AlikeSpans ==
  ASSUME NEW S \in SUBSET Nat, NEW T \in SUBSET Nat, NEW k \in Int, Alike(S, T, k)
  PROVE  /\ \A i \in Int, m \in Int : m - 1 <= k => (Leads(S, i, m) <=> Leads(T, i, m))
         /\ \A i \in Int, m \in Int : i <= k => (Trails(S, i, m) <=> Trails(T, i, m))
<1>1. \A a \in Int, z \in Int : z <= k => Span(S, a, z) = Span(T, a, z)
  <2> SUFFICES ASSUME NEW a \in Int, NEW z \in Int, z <= k
               PROVE  Span(S, a, z) = Span(T, a, z)
    OBVIOUS
  <2>1. \A i \in Nat : i <= z => (i \in S <=> i \in T) BY DEF Alike
  <2> QED BY <2>1 DEF Span
<1>2. \A i \in Int, m \in Int : m - 1 <= k => (Leads(S, i, m) <=> Leads(T, i, m))
  BY <1>1 DEF Leads
<1>3. \A i \in Int, m \in Int : i <= k => (Trails(S, i, m) <=> Trails(T, i, m))
  BY <1>1 DEF Trails
<1> QED BY <1>2, <1>3

\* A search that stops there shows the same of both.
LEMMA AlikeShow ==
  ASSUME NEW S \in SUBSET Nat, NEW M \in SUBSET S, NEW T \in SUBSET Nat, NEW L \in SUBSET T,
         NEW k \in Nat, Alike(S, T, k), Alike(M, L, k)
  PROVE  ShownBy(S, M, k) = ShownBy(T, L, k)
<1>1. \A i \in Nat : i <= k => (i \in S <=> i \in T) /\ (i \in M <=> i \in L) BY DEF Alike
<1>2. \A i \in Nat, m \in Nat : i <= k /\ m <= k =>
        /\ Leads(S, i, m) <=> Leads(T, i, m)
        /\ Trails(S, i, m) <=> Trails(T, i, m)
  <2> SUFFICES ASSUME NEW i \in Nat, NEW m \in Nat, i <= k, m <= k
               PROVE  /\ Leads(S, i, m) <=> Leads(T, i, m)
                      /\ Trails(S, i, m) <=> Trails(T, i, m)
    OBVIOUS
  <2>1. m - 1 <= k /\ i \in Int /\ m \in Int /\ k \in Int OBVIOUS
  <2> QED BY <2>1, AlikeSpans
<1>3. \A m \in M : m \in Nat OBVIOUS
<1>4. \A m \in L : m \in Nat OBVIOUS
<1>5. \A i \in ShownBy(S, M, k) : i \in ShownBy(T, L, k) BY <1>1, <1>2, <1>3 DEF ShownBy
<1>6. \A i \in ShownBy(T, L, k) : i \in ShownBy(S, M, k) BY <1>1, <1>2, <1>4 DEF ShownBy
<1> QED BY <1>5, <1>6

\* Of the rows above record n the same are shown, whatever was and is admitted at n, when it
\* matches in both or in neither.
LEMMA AlikeKeep ==
  ASSUME NEW S \in SUBSET Nat, NEW M \in SUBSET S, NEW T \in SUBSET Nat, NEW L \in SUBSET T,
         NEW n \in Nat \ {0}, Alike(S, T, n - 1), Alike(M, L, n - 1), n \in M <=> n \in L
  PROVE  Kept(S, M, n, n) = Kept(T, L, n, n)
<1>1. \A i \in Nat : i < n => (i \in S <=> i \in T) /\ (i \in M <=> i \in L) BY DEF Alike
<1>2. \A i \in Nat : i <= n => (i \in M <=> i \in L) BY <1>1
<1>3. \A i \in Nat, m \in Nat : i < n /\ m <= n =>
        /\ Leads(S, i, m) <=> Leads(T, i, m)
        /\ Trails(S, i, m) <=> Trails(T, i, m)
  <2> SUFFICES ASSUME NEW i \in Nat, NEW m \in Nat, i < n, m <= n
               PROVE  /\ Leads(S, i, m) <=> Leads(T, i, m)
                      /\ Trails(S, i, m) <=> Trails(T, i, m)
    OBVIOUS
  <2>1. m - 1 <= n - 1 /\ i <= n - 1 /\ i \in Int /\ m \in Int /\ n - 1 \in Int OBVIOUS
  <2> QED BY <2>1, AlikeSpans
<1>4. (\A m \in M : m \in Nat) /\ (\A m \in L : m \in Nat) OBVIOUS
<1>5. \A i \in Kept(S, M, n, n) : i \in Kept(T, L, n, n)
  BY <1>1, <1>2, <1>3, <1>4 DEF ShownBy, Kept
<1>6. \A i \in Kept(T, L, n, n) : i \in Kept(S, M, n, n)
  BY <1>1, <1>2, <1>3, <1>4 DEF ShownBy, Kept
<1> QED BY <1>5, <1>6

\* Rows too far above record n to lead to it are there without it.
LEMMA KeptWithout ==
  ASSUME NEW S \in SUBSET Nat, NEW M \in SUBSET S, NEW n \in Nat \ {0}, NEW w \in Nat, w <= n,
         \A i \in S : i < w => ~Leads(S, i, n)
  PROVE  Kept(S, M, n, w) = Kept(S, M, n - 1, w)
<1>1. n - 1 \in Nat /\ n - 1 <= n OBVIOUS
<1>2. \A i \in ShownBy(S, M, n - 1) : i \in ShownBy(S, M, n) BY <1>1, ShownGrows
<1>3. ASSUME NEW i \in Kept(S, M, n, w) PROVE i \in Kept(S, M, n - 1, w)
  <2>1. i \in S /\ i < w /\ i \in Nat /\ i <= n - 1 BY DEF Kept, ShownBy
  <2>2. i \in M \/ \E m \in M : m <= n /\ (Leads(S, i, m) \/ Trails(S, i, m))
    BY DEF Kept, ShownBy
  <2>3. \A m \in M : m <= n /\ (Leads(S, i, m) \/ Trails(S, i, m)) => m <= n - 1
    <3> SUFFICES ASSUME NEW m \in M, m <= n, Leads(S, i, m) \/ Trails(S, i, m)
                 PROVE  m # n
      BY <1>1
    <3>1. ~Trails(S, i, n) BY <2>1 DEF Trails
    <3> QED BY <2>1, <3>1
  <2> QED BY <2>1, <2>2, <2>3 DEF Kept, ShownBy
<1> QED BY <1>2, <1>3 DEF Kept

\* A document that was appended to, up to the last record that stood: its records, what is
\* admitted and what matches are what they were.
Stood(d, changed) == IF changed THEN Len(d.records) - 1 ELSE Len(d.records)
Grows(d, e, changed) ==
  /\ d.records \in Seq(RecordRecs) /\ e.records \in Seq(RecordRecs)
  /\ Len(d.records) <= Len(e.records)
  /\ changed \in BOOLEAN /\ (changed => Len(d.records) > 0)
  /\ \A i \in 1 .. Stood(d, changed) : e.records[i] = d.records[i]
  /\ Alike(Admitted(d), Admitted(e), Stood(d, changed))
  /\ Alike(Matching(d), Matching(e), Stood(d, changed))

ResumedAt(d, e, changed) ==
  IF Len(d.records) = 0 THEN 1 ELSE ResumeRow(e, Len(d.records), changed)

\* Where the emission resumes, the rows above are those of a search that ended before.
LEMMA ResumePlace ==
  ASSUME NEW d, NEW e, NEW changed, Grows(d, e, changed), e.view.rows = ShownRows(d)
  PROVE  LET n == Len(d.records)
             w == ResumedAt(d, e, changed)
         IN /\ w \in Nat \ {0} /\ w <= Stood(d, changed) + 1
            /\ \E b \in Nat : /\ w <= b + 1 /\ b <= n
                              /\ Kept(Admitted(d), Matching(d), n, w)
                                   = Kept(Admitted(e), Matching(e), b, w)
<1> DEFINE n == Len(d.records)
           w == ResumedAt(d, e, changed)
           S == Admitted(d)
           M == Matching(d)
           T == Admitted(e)
           L == Matching(e)
           Goal == /\ w \in Nat \ {0} /\ w <= Stood(d, changed) + 1
                   /\ \E b \in Nat : w <= b + 1 /\ b <= n /\ Kept(S, M, n, w) = Kept(T, L, b, w)
<1>1. /\ d.records \in Seq(RecordRecs) /\ e.records \in Seq(RecordRecs)
      /\ n <= Len(e.records) /\ changed \in BOOLEAN /\ (changed => n > 0)
      /\ Alike(S, T, Stood(d, changed)) /\ Alike(M, L, Stood(d, changed))
  BY DEF Grows
<1>2. /\ S \in SUBSET (Nat \ {0}) /\ M \in SUBSET S /\ n \in Nat /\ S \in SUBSET (1 .. n)
      /\ M \in SUBSET ShownBy(S, M, n)
      /\ ShownBy(S, M, n) \in SUBSET Nat /\ IsFiniteSet(ShownBy(S, M, n))
  BY <1>1, StreamIs
<1>3. /\ T \in SUBSET (Nat \ {0}) /\ L \in SUBSET T
      /\ \A i \in 1 .. n : i \in T <=> InContextStream(e, i)
      /\ \A i \in 1 .. n : i \in L <=> AcceptsInView(e, i)
  <2>1. T \in SUBSET (Nat \ {0}) /\ L \in SUBSET T BY <1>1, StreamIs
  <2>2. \A i \in 1 .. n : i \in 1 .. Len(e.records) BY <1>1, <1>2
  <2> QED BY <2>1, <2>2 DEF Admitted, Matching, AcceptsInView
<1>4. S \in SUBSET Nat /\ T \in SUBSET Nat BY <1>2, <1>3
<1>5. e.view.rows = Listing(M, ShownBy(S, M, n)) BY DEF ShownRows
<1> HIDE DEF S, M, T, L
<1>6. CASE n = 0
  <2>1. w = 1 /\ Stood(d, changed) = 0 BY <1>1, <1>6 DEF ResumedAt, Stood
  <2>2. Kept(S, M, 0, 1) = {} /\ Kept(T, L, 0, 1) = {} BY <1>2, <1>3, FromTheTop
  <2> HIDE DEF n, w
  <2>3. w \in Nat \ {0} /\ w <= Stood(d, changed) + 1 /\ w <= 0 + 1 /\ 0 <= n /\ 0 \in Nat
    BY <1>6, <2>1
  <2>4. Kept(S, M, n, w) = Kept(T, L, 0, w) BY <1>6, <2>1, <2>2
  <2> QED BY <2>3, <2>4 DEF n, w, S, M, T, L
<1>7. CASE n # 0 /\ ~changed
  <2>1. w = n + 1 /\ Stood(d, changed) = n BY <1>7 DEF ResumedAt, ResumeRow, Stood
  <2> HIDE DEF n, w
  <2>2. ShownBy(S, M, n) = ShownBy(T, L, n) BY <1>1, <1>2, <1>3, <1>4, <2>1, AlikeShow
  <2>3. Kept(S, M, n, w) = Kept(T, L, n, w) BY <2>2 DEF Kept
  <2>4. w \in Nat \ {0} /\ w <= Stood(d, changed) + 1 /\ w <= n + 1 /\ n <= n /\ n \in Nat
    BY <1>2, <2>1
  <2> QED BY <2>3, <2>4 DEF n, w, S, M, T, L
\* The last record is not what it was.
<1>8. CASE n # 0 /\ changed
  <2>1. Stood(d, changed) = n - 1 /\ n \in 1 .. n /\ n \in Nat \ {0} /\ n - 1 \in Nat
    BY <1>2, <1>8 DEF Stood
  <2>2. Alike(S, T, n - 1) /\ Alike(M, L, n - 1) BY <1>1, <2>1
  <2>3. (LastMatchSource(e.view) = n) <=> n \in M
    <3>1. LastMatchSource(e.view) = Last0(ShownBy(S, M, n) \cap M)
      <4> HIDE DEF n
      <4> QED BY <1>2, <1>5, LastMatchIs
    <3>2. ShownBy(S, M, n) \cap M = M BY <1>2
    <3>3. M \in SUBSET Nat /\ IsFiniteSet(M) /\ \A x \in M : x <= n
      <4>1. \A x \in M : x \in 1 .. n /\ x \in ShownBy(S, M, n) BY <1>2
      <4> HIDE DEF n
      <4>2. IsFiniteSet(M) BY <1>2, <4>1, FS_Subset
      <4> QED BY <1>2, <4>1, <4>2
    <3> HIDE DEF n
    <3>4. n \in M => Last0(M) = n BY <3>3, LastIsThat
    <3>5. Last0(M) = n => n \in M BY <2>1, <3>3, LastIs
    <3> QED BY <3>1, <3>2, <3>4, <3>5
  <2>4. n \in L <=> AcceptsInView(e, n) BY <1>3, <2>1
  <2>5. w = IF Before > 0 /\ (LastMatchSource(e.view) = n) # AcceptsInView(e, n)
            THEN ContextWindowStart(e, n, Before) ELSE n
    BY <1>8 DEF ResumedAt, ResumeRow
  <2>6. (LastMatchSource(e.view) = n) # AcceptsInView(e, n) <=> ~(n \in M <=> n \in L)
    <3>1. AcceptsInView(e, n) \in BOOLEAN BY DEF AcceptsInView
    <3> QED BY <2>3, <2>4, <3>1
  <2>7. Before \in Nat BY RecordViewAssumption
  <2> HIDE DEF n, w
  <2>8. ShownBy(S, M, n - 1) = ShownBy(T, L, n - 1)
    BY <1>2, <1>3, <1>4, <2>1, <2>2, AlikeShow
  <2>9. CASE n \in M <=> n \in L
    <3>1. w = n BY <2>5, <2>6, <2>9
    <3>2. Kept(S, M, n, n) = Kept(T, L, n, n)
      BY <1>2, <1>3, <1>4, <2>1, <2>2, <2>9, AlikeKeep
    <3>3. w \in Nat \ {0} /\ w <= Stood(d, changed) + 1 /\ w <= n + 1 /\ n <= n /\ n \in Nat
      BY <2>1, <3>1
    <3> QED BY <3>1, <3>2, <3>3 DEF n, w, S, M, T, L
  <2>10. ASSUME w \in Nat \ {0}, w <= n, \A i \in S : i < w => ~Leads(S, i, n)
         PROVE  Goal
    <3>1. Kept(S, M, n, w) = Kept(S, M, n - 1, w) BY <1>2, <1>4, <2>1, <2>10, KeptWithout
    <3>2. Kept(S, M, n - 1, w) = Kept(T, L, n - 1, w) BY <2>8 DEF Kept
    <3>3. w \in Nat \ {0} /\ w <= Stood(d, changed) + 1 /\ w <= n - 1 + 1 /\ n - 1 <= n
      BY <2>1, <2>10
    <3> QED BY <2>1, <3>1, <3>2, <3>3 DEF n, w, S, M, T, L
  <2>11. CASE ~(n \in M <=> n \in L) /\ Before = 0
    <3>1. w = n BY <2>5, <2>11
    <3>2. \A i \in S : i < n => ~Leads(S, i, n)
      <4> SUFFICES ASSUME NEW i \in S, i < n, Leads(S, i, n) PROVE FALSE OBVIOUS
      <4>1. i \in Nat /\ n - 1 \in Int /\ i <= n - 1 BY <1>4, <2>1
      <4>2. i \in Span(S, i, n - 1) BY <4>1 DEF Span
      <4>3. IsFiniteSet(Span(S, i, n - 1)) /\ Cardinality(Span(S, i, n - 1)) \in Nat
        BY <1>4, <4>1, SpanIs
      <4>4. Cardinality(Span(S, i, n - 1)) # 0 BY <4>2, <4>3, FS_EmptySet
      <4>5. Cardinality(Span(S, i, n - 1)) <= 0 BY <2>11 DEF Leads
      <4> QED BY <4>3, <4>4, <4>5
    <3>3. w \in Nat \ {0} /\ w <= n /\ \A i \in S : i < w => ~Leads(S, i, n)
      BY <2>1, <3>1, <3>2
    <3>4. Goal BY <2>10, <3>3
    <3> QED BY <3>4 DEF n, w, S, M, T, L
  <2>12. CASE ~(n \in M <=> n \in L) /\ Before # 0
    <3> DEFINE above == {q \in 1 .. (n - 1) : InContextStream(e, q)}
    <3>1. w = IF Cardinality(above) < Before THEN 1
              ELSE CHOOSE q \in above : Cardinality({p \in above : p >= q}) = Before
      BY <2>5, <2>6, <2>7, <2>12 DEF ContextWindowStart
    <3>2. \A q : q \in above <=> (q \in S /\ q < n)
      <4>1. \A q \in S : q < n => q \in 1 .. (n - 1) BY <1>2, <2>1
      <4>2. \A q \in 1 .. (n - 1) : q \in Nat /\ q <= n - 1 /\ q < n /\ q \in 1 .. n
        BY <2>1
      <4>3. \A q \in 1 .. (n - 1) : InContextStream(e, q) <=> q \in S
        BY <1>3, <2>2, <4>2 DEF Alike
      <4> QED BY <4>1, <4>2, <4>3
    <3>3. above \in SUBSET Nat /\ IsFiniteSet(above) /\ Cardinality(above) \in Nat
      <4>1. \A q \in above : q \in 1 .. (n - 1) /\ q \in Nat BY <2>1
      <4>2. IsFiniteSet(1 .. (n - 1)) BY <2>1, FS_Interval
      <4> HIDE DEF above
      <4> QED BY <4>1, <4>2, FS_Subset, FS_CardinalityType
    <3> HIDE DEF above
    <3>4. CASE Cardinality(above) < Before
      <4>1. w = 1 BY <3>1, <3>4
      <4>2. \A i \in S : ~(i < 1) BY <1>2
      <4>3. w \in Nat \ {0} /\ w <= n /\ \A i \in S : i < w => ~Leads(S, i, n)
        BY <2>1, <4>1, <4>2
      <4>4. Goal BY <2>10, <4>3
      <4> QED BY <4>4 DEF n, w, S, M, T, L
    <3>5. CASE ~(Cardinality(above) < Before)
      <4>1. \E q \in above : Cardinality({p \in above : p >= q}) = Before
        BY <2>7, <2>12, <3>3, <3>5, LastFew
      <4>2. w \in above /\ Cardinality({p \in above : p >= w}) = Before
        BY <3>1, <3>5, <4>1
      <4>3. w \in S /\ w < n /\ w \in Nat /\ w \in Nat \ {0} /\ w <= n - 1
        <5>1. w \in S /\ w < n BY <3>2, <4>2
        <5>2. w \in Nat \ {0} /\ n \in Nat BY <1>2, <2>1, <5>1
        <5> QED BY <5>1, <5>2
      <4>4. {p \in above : p >= w} = Span(S, w, n - 1)
        <5>1. \A p \in S : (p < n /\ p >= w) <=> (w <= p /\ p <= n - 1)
          BY <1>2, <2>1, <4>3
        <5> QED BY <3>2, <5>1 DEF Span
      <4>5. \A i \in S : i < w => ~Leads(S, i, n)
        <5> SUFFICES ASSUME NEW i \in S, i < w, Leads(S, i, n) PROVE FALSE OBVIOUS
        <5>1. i \in Nat /\ n - 1 \in Int /\ i <= w /\ n - 1 <= n - 1 /\ ~(w <= i)
          BY <1>4, <2>1, <4>3
        <5>2. i \in Span(S, i, n - 1) /\ i \notin Span(S, w, n - 1) BY <4>3, <5>1 DEF Span
        <5>3. Cardinality(Span(S, w, n - 1)) < Cardinality(Span(S, i, n - 1))
          BY <1>4, <4>3, <5>1, <5>2, SpanHasMore
        <5>4. Cardinality(Span(S, i, n - 1)) \in Nat BY <1>4, <5>1, SpanIs
        <5>5. Cardinality(Span(S, i, n - 1)) <= Before BY DEF Leads
        <5> QED BY <2>7, <4>2, <4>4, <5>3, <5>4, <5>5
      <4>6. Goal
        <5>1. w <= n BY <2>1, <4>3
        <5> QED BY <2>10, <4>3, <4>5, <5>1
      <4> QED BY <4>6 DEF n, w, S, M, T, L
    <3> QED BY <3>4, <3>5
  <2> QED BY <2>9, <2>11, <2>12 DEF n, w, S, M, T, L
<1>9. Goal BY <1>1, <1>6, <1>7, <1>8 DEF S, M, T, L
<1> QED BY <1>9 DEF n, w, S, M, T, L

\* A number in blocks: as many whole ones as go into it.
LEMMA WholeBlocks ==
  ASSUME NEW n \in Nat, NEW b \in Nat \ {0}
  PROVE  n \div b \in Nat /\ (n \div b) * b <= n /\ n < (n \div b) * b + b
  OBVIOUS

\* More blocks are as many or more lines.
LEMMA MoreBlocks ==
  ASSUME NEW b \in Nat \ {0}, NEW x \in Nat, NEW y \in Nat
  PROVE  /\ x * b \in Nat /\ (x <= y => x * b <= y * b)
         /\ (x * b < y * b + b => x <= y) /\ (x + 1) * b = x * b + b
<1>1. x * b \in Nat /\ y * b \in Nat /\ (x + 1) * b = x * b + b OBVIOUS
<1>2. x <= y => x * b <= y * b
  <2> SUFFICES ASSUME x <= y PROVE x * b <= y * b OBVIOUS
  <2>1. y - x \in Nat /\ (y - x) * b \in Nat /\ y * b = x * b + (y - x) * b OBVIOUS
  <2> QED BY <1>1, <2>1
<1>3. x * b < y * b + b => x <= y
  <2> SUFFICES ASSUME ~(x <= y) PROVE y * b + b <= x * b BY <1>1
  <2>1. x - (y + 1) \in Nat /\ (x - (y + 1)) * b \in Nat /\ x * b = (y + 1) * b + (x - (y + 1)) * b
    OBVIOUS
  <2>2. (y + 1) * b = y * b + b OBVIOUS
  <2> QED BY <1>1, <2>1, <2>2
<1> QED BY <1>1, <1>2, <1>3

\* A record is displayed in a whole number of lines.
LEMMA HeightIs == ASSUME NEW r \in RecordRecs PROVE Height(r) \in Int
  BY RecordViewAssumption DEF Height, Smaller, RecordRecs

\* The lines of the first records, one record after another.
LEMMA HeightsStep ==
  ASSUME NEW recs \in Seq(RecordRecs)
  PROVE  /\ HeightsUpTo(recs)[0] = 0
         /\ \A k \in 1 .. Len(recs) :
              HeightsUpTo(recs)[k] = HeightsUpTo(recs)[k - 1] + Height(recs[k])
         /\ \A k \in 0 .. Len(recs) : HeightsUpTo(recs)[k] \in Int
<1> DEFINE N == Len(recs)
           step == [p \in (1 .. N) \X Int |-> p[2] + Height(recs[p[1]])]
           F(h) == [k \in 0 .. N |-> IF k = 0 THEN 0 ELSE h[k - 1] + Height(recs[k])]
           upto == CHOOSE h : h = F(h)
<1>1. N \in Nat /\ 0 \in Nat /\ 0 \in Int /\ 0 + 1 = 1 OBVIOUS
<1>2. HeightsUpTo(recs) = upto BY DEF HeightsUpTo
<1>3. \A k \in 1 .. N : Height(recs[k]) \in Int BY HeightIs
<1> HIDE DEF N
<1>4. step \in [((0 + 1) .. N) \X Int -> Int] BY <1>1, <1>3
<1>5. \A k \in (0 + 1) .. N, s \in Int : step[<<k, s>>] = s + Height(recs[k]) BY <1>1
<1> HIDE DEF step
<1>6. PICK f \in [0 .. N -> Int] : Stepped(f, step, 0, 0, N) BY <1>1, <1>4, Iterates
<1>7. f = F(f)
  <2>1. \A k \in 0 .. N : k = 0 \/ (k \in (0 + 1) .. N /\ k - 1 \in 0 .. N) BY <1>1
  <2>2. f[0] = 0 /\ \A k \in (0 + 1) .. N : f[k] = step[<<k, f[k - 1]>>]
    BY <1>1, <1>6 DEF Stepped
  <2>3. \A k \in (0 + 1) .. N : f[k - 1] \in Int BY <1>1, <1>6
  <2>4. \A k \in (0 + 1) .. N : f[k] = f[k - 1] + Height(recs[k]) BY <1>5, <2>2, <2>3
  <2>5. \A k \in (0 + 1) .. N : k # 0 OBVIOUS
  <2>6. \A k \in 0 .. N : f[k] = IF k = 0 THEN 0 ELSE f[k - 1] + Height(recs[k])
    BY <2>1, <2>2, <2>4, <2>5
  <2> QED BY <1>6, <2>6
<1>8. upto = F(upto)
  <2> HIDE DEF F
  <2> QED BY <1>7
<1> HIDE DEF upto
<1>9. \A k \in 0 .. N : upto[k] = IF k = 0 THEN 0 ELSE upto[k - 1] + Height(recs[k])
  BY <1>8
<1>10. 0 \in 0 .. N /\ \A k \in 1 .. N : k \in 0 .. N /\ k # 0 BY <1>1
<1>11. upto[0] = 0 /\ \A k \in 1 .. N : upto[k] = upto[k - 1] + Height(recs[k])
  BY <1>9, <1>10
<1>12. \A k \in 0 .. N : upto[k] \in Int
  <2> DEFINE C == {k \in 0 .. N : upto[k] \in Int}
  <2>1. 0 <= N => 0 \in C BY <1>11
  <2>2. \A k \in (0 + 1) .. N : k - 1 \in C => k \in C BY <1>1, <1>3, <1>11
  <2> HIDE DEF C
  <2>3. \A k \in 0 .. N : k \in C BY <1>1, <2>1, <2>2, StepByStep
  <2> QED BY <2>3 DEF C
<1> QED BY <1>2, <1>11, <1>12 DEF N

\* The lines of records that stand further up in another list.
LEMMA HeightsAgree ==
  ASSUME NEW recs \in Seq(RecordRecs), NEW part \in Seq(RecordRecs), NEW o \in Nat, NEW n \in Nat,
         o + n <= Len(recs), n <= Len(part), \A i \in 1 .. n : part[i] = recs[o + i]
  PROVE  HeightsUpTo(recs)[o + n] = HeightsUpTo(recs)[o] + HeightsUpTo(part)[n]
<1> DEFINE R(k) == HeightsUpTo(recs)[k]
           P(k) == HeightsUpTo(part)[k]
           C == {k \in 0 .. n : R(o + k) = R(o) + P(k)}
<1>1. /\ P(0) = 0
      /\ \A k \in 1 .. Len(part) : P(k) = P(k - 1) + Height(part[k])
      /\ \A k \in 0 .. Len(part) : P(k) \in Int
  BY HeightsStep
<1>2. /\ \A k \in 1 .. Len(recs) : R(k) = R(k - 1) + Height(recs[k])
      /\ \A k \in 0 .. Len(recs) : R(k) \in Int
  BY HeightsStep
<1>3. \A k \in 1 .. Len(recs) : Height(recs[k]) \in Int BY HeightIs
<1>4. Len(recs) \in Nat /\ Len(part) \in Nat OBVIOUS
<1> HIDE DEF R, P
<1>5. 0 \in C
  <2>1. o + 0 = o /\ o \in 0 .. Len(recs) /\ 0 \in 0 .. n BY <1>4
  <2>2. R(o) \in Int /\ P(0) = 0 BY <1>1, <1>2, <2>1
  <2>3. R(o) + P(0) = R(o) BY <2>2
  <2>4. R(o + 0) = R(o) + P(0) BY <2>1, <2>3
  <2> QED BY <2>1, <2>4
<1>6. ASSUME NEW k \in 1 .. n, k - 1 \in C PROVE k \in C
  <2>1. R(o + (k - 1)) = R(o) + P(k - 1) BY <1>6
  <2>2. o + k \in 1 .. Len(recs) /\ k \in 1 .. Len(part) /\ (o + k) - 1 = o + (k - 1)
    BY <1>4
  <2>3. R(o + k) = R(o + (k - 1)) + Height(recs[o + k]) BY <1>2, <2>2
  <2>4. P(k) = P(k - 1) + Height(recs[o + k]) BY <1>1, <2>2
  <2>5. R(o) \in Int /\ P(k - 1) \in Int /\ Height(recs[o + k]) \in Int
    <3>1. o \in 0 .. Len(recs) /\ k - 1 \in 0 .. Len(part) BY <1>4, <2>2
    <3> QED BY <1>1, <1>2, <1>3, <2>2, <3>1
  <2>6. R(o + k) = R(o) + P(k) BY <2>1, <2>3, <2>4, <2>5
  <2> QED BY <2>6
<1> HIDE DEF C
<1>7. \A k \in 0 .. n : k \in C
  <2>1. \A k \in (0 + 1) .. n : k - 1 \in C => k \in C BY <1>6
  <2> QED BY <1>5, <2>1, StepByStep
<1> QED BY <1>7 DEF C, R, P

\* The lines of a part of a list.
LEMMA HeightsOfPart ==
  ASSUME NEW recs \in Seq(RecordRecs), NEW a \in Nat, NEW b \in Nat, a <= b, b <= Len(recs)
  PROVE  /\ HeightsUpTo(recs)[b] = HeightsUpTo(recs)[a] + Heights(SubSeq(recs, a + 1, b))
         /\ HeightsUpTo(recs)[a] \in Int /\ HeightsUpTo(recs)[b] \in Int
         /\ Heights(SubSeq(recs, a + 1, b)) \in Int
         /\ a = 0 => Heights(SubSeq(recs, a + 1, b)) = HeightsUpTo(recs)[b]
<1> DEFINE part == SubSeq(recs, a + 1, b)
           n == b - a
<1>1. part \in Seq(RecordRecs) /\ Len(part) = n /\ n \in Nat /\ a + n = b
      /\ \A i \in 1 .. n : part[i] = recs[a + i]
  OBVIOUS
<1> HIDE DEF part, n
<1>2. HeightsUpTo(recs)[b] = HeightsUpTo(recs)[a] + HeightsUpTo(part)[n]
  <2>1. a + n <= Len(recs) /\ n <= Len(part) /\ \A i \in 1 .. n : part[i] = recs[a + i]
    BY <1>1
  <2>2. HeightsUpTo(recs)[a + n] = HeightsUpTo(recs)[a] + HeightsUpTo(part)[n]
    BY <1>1, <2>1, HeightsAgree
  <2> QED BY <1>1, <2>2
<1>3. Heights(part) = HeightsUpTo(part)[n] BY <1>1 DEF Heights
<1>4. /\ HeightsUpTo(recs)[0] = 0 /\ \A k \in 0 .. Len(recs) : HeightsUpTo(recs)[k] \in Int
      /\ \A k \in 0 .. Len(part) : HeightsUpTo(part)[k] \in Int
  BY <1>1, HeightsStep
<1>5. a \in 0 .. Len(recs) /\ b \in 0 .. Len(recs) /\ n \in 0 .. Len(part) BY <1>1
<1> QED BY <1>2, <1>3, <1>4, <1>5 DEF part

\* One entry for every block of a list and one for the total.
LEMMA SumsAre ==
  ASSUME NEW recs \in Seq(RecordRecs)
  PROVE  /\ Blocks(Len(recs)) \in Nat
         /\ \A x \in Nat : x * BlockSize <= Len(recs) => x <= Blocks(Len(recs))
         /\ DOMAIN RebuiltSums(recs) = 1 .. (Blocks(Len(recs)) + 1)
         /\ Len(RebuiltSums(recs)) = Blocks(Len(recs)) + 1
         /\ \A b \in 1 .. (Blocks(Len(recs)) + 1) :
              /\ Smaller((b - 1) * BlockSize, Len(recs)) \in 0 .. Len(recs)
              /\ RebuiltSums(recs)[b]
                   = HeightsUpTo(recs)[Smaller((b - 1) * BlockSize, Len(recs))]
<1> DEFINE N == Len(recs)
           B == Blocks(Len(recs))
           to(b) == Smaller((b - 1) * BlockSize, Len(recs))
<1>1. BlockSize \in Nat \ {0} /\ N \in Nat BY RecordViewAssumption
<1>2. B \in Nat /\ N + BlockSize - 1 < B * BlockSize + BlockSize
  <2>1. N + BlockSize - 1 \in Nat BY <1>1
  <2> QED BY <1>1, <2>1, WholeBlocks DEF Blocks
<1>3. ASSUME NEW x \in Nat, x * BlockSize <= N PROVE x <= B
  <2> HIDE DEF B, N
  <2>1. x * BlockSize \in Nat /\ B * BlockSize \in Nat BY <1>1, <1>2, MoreBlocks
  <2>2. x * BlockSize < B * BlockSize + BlockSize BY <1>1, <1>2, <1>3, <2>1
  <2> QED BY <1>1, <1>2, <2>2, MoreBlocks
<1>4. RebuiltSums(recs) = [b \in 1 .. (B + 1) |-> Heights(SubSeq(recs, 1, to(b)))]
  BY DEF RebuiltSums
<1>5. ASSUME NEW b \in 1 .. (B + 1)
      PROVE  to(b) \in 0 .. N /\ Heights(SubSeq(recs, 1, to(b))) = HeightsUpTo(recs)[to(b)]
  <2>1. b - 1 \in Nat BY <1>2
  <2>2. (b - 1) * BlockSize \in Nat BY <1>1, <2>1, MoreBlocks
  <2>3. to(b) \in 0 .. N BY <1>1, <2>2 DEF Smaller
  <2> HIDE DEF to
  <2>4. to(b) \in Nat /\ 0 <= to(b) /\ to(b) <= Len(recs) /\ 0 + 1 = 1 /\ 0 \in Nat
    BY <1>1, <2>3
  <2>5. Heights(SubSeq(recs, 0 + 1, to(b))) = HeightsUpTo(recs)[to(b)]
    BY <2>4, HeightsOfPart
  <2> QED BY <2>3, <2>5
<1> HIDE DEF B, N, to
<1>6. DOMAIN RebuiltSums(recs) = 1 .. (B + 1) /\ Len(RebuiltSums(recs)) = B + 1
  BY <1>2, <1>4
<1>7. \A b \in 1 .. (B + 1) : to(b) \in 0 .. N /\ RebuiltSums(recs)[b] = HeightsUpTo(recs)[to(b)]
  BY <1>4, <1>5
<1> QED BY <1>2, <1>3, <1>6, <1>7 DEF B, N, to

\* The sums gone on with from the first record that may have changed are those a rebuild gives.
LEMMA SumsExtended ==
  ASSUME NEW old \in Seq(RecordRecs), NEW recs \in Seq(RecordRecs), NEW valid \in Nat,
         valid <= Len(old), valid <= Len(recs), \A i \in 1 .. valid : recs[i] = old[i]
  PROVE  ExtendedSums(RebuiltSums(old), recs, valid) = RebuiltSums(recs)
<1> DEFINE sums == RebuiltSums(old)
           kept == valid \div BlockSize
           B == Blocks(Len(recs))
           to(b) == Smaller((b - 1) * BlockSize, Len(recs))
           top == kept * BlockSize
           acc == sums[kept + 1]
<1>1. BlockSize \in Nat \ {0} /\ Len(recs) \in Nat /\ Len(old) \in Nat
  BY RecordViewAssumption
<1>2. kept \in Nat /\ top <= valid BY <1>1, WholeBlocks
<1> HIDE DEF kept
<1>3. top \in Nat BY <1>1, <1>2, MoreBlocks
<1>4. /\ Blocks(Len(old)) \in Nat /\ kept <= Blocks(Len(old))
      /\ Len(sums) = Blocks(Len(old)) + 1
      /\ \A b \in 1 .. (Blocks(Len(old)) + 1) :
           sums[b] = HeightsUpTo(old)[Smaller((b - 1) * BlockSize, Len(old))]
  BY <1>1, <1>2, <1>3, SumsAre
<1>5. /\ B \in Nat /\ kept <= B
      /\ RebuiltSums(recs) = [b \in 1 .. (B + 1) |-> RebuiltSums(recs)[b]]
      /\ \A b \in 1 .. (B + 1) : /\ to(b) \in 0 .. Len(recs)
                                 /\ RebuiltSums(recs)[b] = HeightsUpTo(recs)[to(b)]
  <2>1. /\ B \in Nat /\ kept <= B /\ DOMAIN RebuiltSums(recs) = 1 .. (B + 1)
        /\ \A b \in 1 .. (B + 1) : /\ to(b) \in 0 .. Len(recs)
                                   /\ RebuiltSums(recs)[b] = HeightsUpTo(recs)[to(b)]
    BY <1>1, <1>2, <1>3, SumsAre
  <2>2. RebuiltSums(recs) = [b \in 1 .. (B + 1) |-> RebuiltSums(recs)[b]]
    BY <2>1 DEF RebuiltSums
  <2> QED BY <2>1, <2>2
<1> HIDE DEF sums, B
<1>6. \A k \in Nat : k <= valid => HeightsUpTo(recs)[k] = HeightsUpTo(old)[k]
  <2> SUFFICES ASSUME NEW k \in Nat, k <= valid
               PROVE  HeightsUpTo(recs)[k] = HeightsUpTo(old)[k]
    OBVIOUS
  <2>1. 0 + k <= Len(recs) /\ k <= Len(old) /\ 0 \in Nat /\ 0 + k = k
        /\ \A i \in 1 .. k : old[i] = recs[0 + i]
    BY <1>1
  <2>2. HeightsUpTo(recs)[0 + k] = HeightsUpTo(recs)[0] + HeightsUpTo(old)[k]
    BY <2>1, HeightsAgree
  <2>3. HeightsUpTo(recs)[0] = 0 BY HeightsStep
  <2>4. HeightsUpTo(old)[k] \in Int
    <3>1. k \in 0 .. Len(old) BY <1>1
    <3> QED BY <3>1, HeightsStep
  <2> QED BY <2>1, <2>2, <2>3, <2>4
<1>7. \A x \in Nat : x <= kept =>
        /\ x * BlockSize \in Nat /\ x * BlockSize <= top
        /\ Smaller(x * BlockSize, Len(old)) = x * BlockSize
        /\ Smaller(x * BlockSize, Len(recs)) = x * BlockSize
  <2> SUFFICES ASSUME NEW x \in Nat, x <= kept
               PROVE  /\ x * BlockSize \in Nat /\ x * BlockSize <= top
                      /\ Smaller(x * BlockSize, Len(old)) = x * BlockSize
                      /\ Smaller(x * BlockSize, Len(recs)) = x * BlockSize
    OBVIOUS
  <2>1. x * BlockSize \in Nat /\ x * BlockSize <= top BY <1>1, <1>2, MoreBlocks
  <2> DEFINE lines == x * BlockSize
  <2>2. lines \in Nat /\ lines <= Len(old) /\ lines <= Len(recs) BY <1>1, <1>2, <1>3, <2>1
  <2> HIDE DEF lines
  <2>3. Smaller(lines, Len(old)) = lines /\ Smaller(lines, Len(recs)) = lines
    BY <1>1, <2>2 DEF Smaller
  <2> QED BY <2>1, <2>3 DEF lines
<1>8. acc = HeightsUpTo(recs)[top]
  <2>1. kept + 1 \in 1 .. (Blocks(Len(old)) + 1) /\ (kept + 1) - 1 = kept BY <1>2, <1>4
  <2>2. acc = HeightsUpTo(old)[Smaller(kept * BlockSize, Len(old))] BY <1>4, <2>1
  <2>3. Smaller(kept * BlockSize, Len(old)) = top BY <1>2, <1>7
  <2> QED BY <1>2, <1>3, <1>6, <2>2, <2>3
<1>9. ASSUME NEW b \in 1 .. (B + 1), b <= kept PROVE sums[b] = RebuiltSums(recs)[b]
  <2>1. b - 1 \in Nat /\ b - 1 <= kept /\ b \in 1 .. (Blocks(Len(old)) + 1)
    BY <1>2, <1>4, <1>5, <1>9
  <2>2. sums[b] = HeightsUpTo(old)[(b - 1) * BlockSize] BY <1>4, <1>7, <2>1
  <2>3. RebuiltSums(recs)[b] = HeightsUpTo(recs)[(b - 1) * BlockSize] BY <1>5, <1>7, <2>1
  <2>4. (b - 1) * BlockSize \in Nat /\ (b - 1) * BlockSize <= valid
    BY <1>1, <1>2, <1>3, <1>7, <2>1
  <2> QED BY <1>6, <2>2, <2>3, <2>4
<1>10. ASSUME NEW b \in 1 .. (B + 1), ~(b <= kept)
       PROVE  acc + Heights(SubSeq(recs, top + 1, to(b))) = RebuiltSums(recs)[b]
  <2>1. top <= to(b)
    <3>1. b - 1 \in Nat /\ kept <= b - 1 BY <1>2, <1>5, <1>10
    <3>2. (b - 1) * BlockSize \in Nat /\ top <= (b - 1) * BlockSize
      BY <1>1, <1>2, <3>1, MoreBlocks
    <3> HIDE DEF top
    <3> QED BY <1>1, <1>2, <1>3, <3>2 DEF Smaller
  <2>2. to(b) \in Nat /\ to(b) <= Len(recs) BY <1>1, <1>5
  <2> HIDE DEF to, top
  <2>3. HeightsUpTo(recs)[to(b)] = HeightsUpTo(recs)[top] + Heights(SubSeq(recs, top + 1, to(b)))
    BY <1>3, <2>1, <2>2, HeightsOfPart
  <2> QED BY <1>5, <1>8, <2>3
<1>11. ExtendedSums(sums, recs, valid)
         = [b \in 1 .. (B + 1) |->
              IF b <= kept THEN sums[b]
              ELSE acc + Heights(SubSeq(recs, top + 1, to(b)))]
  <2>1. Smaller(valid, Len(recs)) = valid BY <1>1 DEF Smaller
  <2>2. Larger(B, kept) = B BY <1>2, <1>5 DEF Larger
  <2>3. kept < Len(sums) /\ sums # <<>> BY <1>2, <1>4
  <2>4. Smaller(valid, Len(recs)) \div BlockSize = kept BY <2>1 DEF kept
  <2>5. Blocks(Len(recs)) = B BY DEF B
  <2> HIDE DEF kept
  <2> QED BY <2>2, <2>3, <2>4, <2>5 DEF ExtendedSums
<1> HIDE DEF to, top, acc
<1>12. ExtendedSums(sums, recs, valid) = [b \in 1 .. (B + 1) |-> RebuiltSums(recs)[b]]
  BY <1>9, <1>10, <1>11
<1> QED BY <1>5, <1>12 DEF sums

\* What the emission is told it resumes with, read off the rows that stay.
ReadBack(v) ==
  LET keep == Len(v.rows)
      last == LastMatchSource(v)
  IN [out |-> v.rows, emitted |-> IF keep = 0 THEN 0 ELSE v.rows[keep].row, match |-> last,
      since |-> IF last = 0 THEN 0 ELSE Cardinality({k \in 1 .. keep : v.rows[k].row > last})]

\* It is what a search that had come there from the top would carry on with.
LEMMA ReadBackIs ==
  ASSUME NEW S \in SUBSET (Nat \ {0}), NEW M \in SUBSET S, NEW b \in Nat, NEW w \in Nat \ {0},
         w <= b + 1, NEW v, v.rows = Listing(M, Kept(S, M, b, w))
  PROVE  StateIs(S, M, b, w, w - 1, ReadBack(v))
<1> DEFINE K == Kept(S, M, b, w)
           keep == Len(v.rows)
           last == LastMatchSource(v)
           tail == {x \in K : x > last}
           st == ReadBack(v)
<1>1. /\ Out(S, M, b, w, w - 1) = K /\ K \in SUBSET Nat /\ IsFiniteSet(K)
      /\ \A i \in M : i < w => i \in K
  BY KeptIsOut
<1>2. \A i \in K : i \in Nat /\ i < w BY <1>1 DEF Kept
<1> HIDE DEF K
<1>3. /\ v.rows \in Seq(RowRecs) /\ Len(v.rows) = Cardinality(K) /\ Cardinality(K) \in Nat
      /\ \A k \in 1 .. Cardinality(K) : v.rows[k].row = InOrder(K)[k]
  BY <1>1, ListingIs DEF K
<1>4. last = Last0(K \cap M) BY <1>1, LastMatchIs DEF K
<1>5. K \cap M = {i \in M : i <= w - 1}
  <2>1. \A i \in M : i \in Nat OBVIOUS
  <2>2. \A i \in Nat : i < w <=> i <= w - 1 OBVIOUS
  <2>3. \A i \in M : i \in K <=> i < w BY <1>1, <1>2
  <2>4. \A i \in M : i \in K <=> i <= w - 1 BY <2>1, <2>2, <2>3
  <2> QED BY <2>4
<1>6. last \in Nat
  <2>1. K \cap M \in SUBSET K /\ K \cap M \in SUBSET Nat BY <1>1
  <2>2. IsFiniteSet(K \cap M) BY <1>1, <2>1, FS_Subset
  <2> QED BY <1>4, <2>1, <2>2, LastIs
<1>7. (IF keep = 0 THEN 0 ELSE v.rows[keep].row) = Last0(K)
  <2>1. CASE keep = 0 BY <1>1, <1>3, <2>1, LastPlaceHolds
  <2>2. CASE keep # 0
    <3>1. keep \in 1 .. Cardinality(K) BY <1>3, <2>2
    <3> QED BY <1>1, <1>3, <2>2, <3>1, LastPlaceHolds
  <2> QED BY <2>1, <2>2
<1>8. Last0(K) \in Nat BY <1>1, LastIs
<1>9. Cardinality({k \in 1 .. keep : v.rows[k].row > last}) = Cardinality(tail)
      /\ Cardinality(tail) \in Nat
  <2>1. tail \in SUBSET K OBVIOUS
  <2>2. IsFiniteSet(tail) /\ Cardinality(tail) \in Nat
    BY <1>1, <2>1, FS_Subset, FS_CardinalityType
  <2>3. Cardinality({k \in 1 .. Cardinality(K) : InOrder(K)[k] \in tail}) = Cardinality(tail)
    <3> HIDE DEF tail
    <3> QED BY <1>1, <2>1, PlacesOfPart
  <2>4. {k \in 1 .. keep : v.rows[k].row > last}
          = {k \in 1 .. Cardinality(K) : InOrder(K)[k] \in tail}
    <3>1. \A k \in 1 .. Cardinality(K) : InOrder(K)[k] \in K BY <1>1, InOrderLists
    <3> HIDE DEF last
    <3>2. \A k \in 1 .. Cardinality(K) : v.rows[k].row > last <=> InOrder(K)[k] \in tail
      BY <1>3, <3>1
    <3> HIDE DEF tail
    <3>3. \A k \in 1 .. keep : v.rows[k].row > last <=> InOrder(K)[k] \in tail
      BY <1>3, <3>2
    <3> QED BY <1>3, <3>3
  <2> QED BY <2>2, <2>3, <2>4
<1>10. st = [out |-> v.rows, emitted |-> Last0(K), match |-> last,
             since |-> IF last = 0 THEN 0 ELSE Cardinality(tail)]
  BY <1>7, <1>9 DEF ReadBack
<1> HIDE DEF st, last, tail, keep
<1>11. st \in EmitStates BY <1>3, <1>6, <1>8, <1>9, <1>10 DEF EmitStates
<1>12. st.out = v.rows /\ st.emitted = Last0(K) /\ st.match = last
       /\ (last > 0 => st.since = Cardinality(tail))
  BY <1>6, <1>10
<1>13. last > 0 => st.since = Cardinality({x \in Out(S, M, b, w, w - 1) : x > st.match})
  BY <1>1, <1>12 DEF tail
<1> QED BY <1>1, <1>4, <1>5, <1>11, <1>12, <1>13 DEF StateIs, st, K

\* The records the rows are drawn with.
LEMMA CopyIs ==
  ASSUME NEW d, d.records \in Seq(RecordRecs), NEW rows \in Seq(RowRecs),
         \A k \in 1 .. Len(rows) : rows[k].row \in 1 .. Len(d.records)
  PROVE  /\ CopyOf(d, rows) \in Seq(RecordRecs) /\ Len(CopyOf(d, rows)) = Len(rows)
         /\ \A k \in 1 .. Len(rows) : CopyOf(d, rows)[k] = d.records[rows[k].row]
<1>1. CopyOf(d, rows) = [k \in 1 .. Len(rows) |-> d.records[rows[k].row]] BY DEF CopyOf
<1>2. \A k \in 1 .. Len(rows) : d.records[rows[k].row] \in RecordRecs OBVIOUS
<1>3. Len(rows) \in Nat OBVIOUS
<1> QED BY <1>1, <1>2, <1>3

\* Two rows of the same records are listed the same.
LEMMA ListedAlike ==
  ASSUME NEW M, NEW L, NEW X \in SUBSET Nat, IsFiniteSet(X), \A i \in X : i \in M <=> i \in L
  PROVE  Listing(M, X) = Listing(L, X)
<1>1. \A k \in 1 .. Cardinality(X) : InOrder(X)[k] \in X BY InOrderLists
<1>2. \A i \in X : RowOf(M, i) = RowOf(L, i) BY DEF RowOf
<1>3. \A k \in 1 .. Cardinality(X) : RowOf(M, InOrder(X)[k]) = RowOf(L, InOrder(X)[k])
  BY <1>1, <1>2
<1> QED BY <1>3 DEF Listing

\* The rows that stay, those of the records that stood; and the ones that come to follow them.
Prolongs(d, e, changed, v, keep, rows, new) ==
  /\ keep \in 0 .. Len(v.rows) /\ Len(rows) = keep
  /\ v.rows \in Seq(RowRecs)
  /\ \A k \in 1 .. Len(v.rows) : v.rows[k].row \in 1 .. Len(d.records)
  /\ rows \in Seq(RowRecs) /\ \A k \in 1 .. keep : rows[k] = v.rows[k]
  /\ \A k \in 1 .. keep : rows[k].row \in 1 .. Stood(d, changed)
  /\ new = ShownRows(e) /\ new \in Seq(RowRecs)
  /\ \A k \in 1 .. Len(new) : new[k].row \in 1 .. Len(e.records)
  /\ SubSeq(new, keep + 1, Len(new)) \in Seq(RowRecs)
  /\ new = rows \o SubSeq(new, keep + 1, Len(new))

\* The rows above the place the search is resumed at stay as they are, the records they are
\* drawn with too, and the search goes on with the rows one from the top would give.
LEMMA RowsGoOn ==
  ASSUME NEW d, NEW e, NEW changed, Grows(d, e, changed), Restricts(d), e.view = ViewOf(d)
  PROVE  LET v    == e.view
             w    == ResumedAt(d, e, changed)
             keep == Cardinality(RowsBelow(v, w))
             rows == SubSeq(v.rows, 1, keep)
             new  == EmitWithContext(e, w, ReadBack([v EXCEPT !.rows = rows])).out
         IN Prolongs(d, e, changed, v, keep, rows, new)
<1> DEFINE v == e.view
           n == Len(d.records)
           w == ResumedAt(d, e, changed)
           S == Admitted(d)
           M == Matching(d)
           T == Admitted(e)
           L == Matching(e)
           X == ShownBy(S, M, n)
           Y == ShownBy(T, L, Len(e.records))
           K == Kept(S, M, n, w)
           keep == Cardinality(RowsBelow(v, w))
           rows == SubSeq(v.rows, 1, keep)
           u == [v EXCEPT !.rows = rows]
           new == EmitWithContext(e, w, ReadBack(u)).out
           add == SubSeq(new, keep + 1, Len(new))
<1>0. v.rows = ShownRows(d) BY DEF ViewOf
<1>1. d.records \in Seq(RecordRecs) /\ e.records \in Seq(RecordRecs) /\ n <= Len(e.records)
      /\ n \in Nat /\ Len(e.records) \in Nat
  BY DEF Grows
<1>2. /\ S \in SUBSET (Nat \ {0}) /\ M \in SUBSET S
      /\ X \in SUBSET Nat /\ IsFiniteSet(X) /\ X \in SUBSET (1 .. n)
  BY <1>1, StreamIs
<1>3. /\ T \in SUBSET (Nat \ {0}) /\ L \in SUBSET T
      /\ Y \in SUBSET Nat /\ IsFiniteSet(Y) /\ Y \in SUBSET (1 .. Len(e.records))
  BY <1>1, StreamIs
<1>4. w \in Nat \ {0} /\ w <= Stood(d, changed) + 1 /\ Stood(d, changed) \in Int
  BY <1>1, <1>0, ResumePlace DEF Stood, Grows
<1>5. PICK b \in Nat : w <= b + 1 /\ b <= n /\ K = Kept(T, L, b, w) BY <1>0, ResumePlace
<1>6. K = Below(X, w) BY DEF Kept, Below
<1>7. v.rows = Listing(M, X) /\ w \in Nat BY <1>4, <1>0 DEF ShownRows
<1> HIDE DEF w, keep, X
<1>8. /\ IsFiniteSet(K) /\ K \in SUBSET Nat /\ Cardinality(K) \in 0 .. Cardinality(X)
      /\ Cardinality(RowsBelow(v, w)) = Cardinality(K)
      /\ Len(v.rows) = Cardinality(X) /\ v.rows \in Seq(RowRecs)
      /\ SubSeq(v.rows, 1, Cardinality(K)) = Listing(M, K)
  <2> DEFINE J == Below(X, w)
  <2>1. /\ IsFiniteSet(J) /\ J \in SUBSET Nat /\ Cardinality(J) \in 0 .. Cardinality(X)
        /\ Cardinality(RowsBelow(v, w)) = Cardinality(J)
        /\ Len(v.rows) = Cardinality(X) /\ v.rows \in Seq(RowRecs)
        /\ SubSeq(v.rows, 1, Cardinality(J)) = Listing(M, J)
    <3>1. X \in SUBSET Nat /\ IsFiniteSet(X) /\ w \in Nat /\ v.rows = Listing(M, X)
      BY <1>2, <1>7
    <3> HIDE DEF M, v
    <3>2. Cardinality(RowsBelow(v, w)) = Cardinality(Below(X, w)) BY <3>1, ListingKeeps
    <3>3. IsFiniteSet(Below(X, w)) /\ Below(X, w) \in SUBSET Nat BY <3>1, ListingKeeps
    <3>4. SubSeq(v.rows, 1, Cardinality(Below(X, w))) = Listing(M, Below(X, w))
      BY <3>1, ListingKeeps
    <3>5. Len(v.rows) = Cardinality(X) /\ v.rows \in Seq(RowRecs) BY <3>1, ListingKeeps
    <3>6. Cardinality(Below(X, w)) \in 0 .. Cardinality(X) BY <3>1, ListingKeeps
    <3> QED BY <3>2, <3>3, <3>4, <3>5, <3>6 DEF J
  <2>2. K = J BY <1>6
  <2> HIDE DEF K, J, v, M
  <2> QED BY <2>1, <2>2
<1>9. keep = Cardinality(K) /\ rows = Listing(M, K) BY <1>8 DEF keep
<1>10. \A i \in K : i \in Nat /\ i <= Stood(d, changed) /\ i \in 1 .. n /\ i >= 1
  <2>1. \A i \in K : i \in Nat /\ i < w /\ i \in 1 .. n BY <1>2, <1>6, <1>8 DEF Below
  <2> HIDE DEF K, n
  <2> QED BY <1>1, <1>4, <2>1
<1>11. rows = Listing(L, K)
  <2>1. \A i \in K : i \in M <=> i \in L BY <1>10 DEF Grows, Alike
  <2> HIDE DEF K, M, L
  <2> QED BY <1>8, <1>9, <2>1, ListedAlike
<1>12. \A k \in 1 .. Len(v.rows) : v.rows[k].row \in 1 .. n
  <2>1. \A k \in 1 .. Cardinality(X) : v.rows[k].row \in X BY <1>2, <1>7, ListingIs
  <2> QED BY <1>2, <1>8, <2>1
<1>13. /\ rows \in Seq(RowRecs) /\ Len(rows) = keep /\ keep \in 0 .. Len(v.rows)
       /\ \A k \in 1 .. keep : rows[k].row \in K
  <2>1. /\ rows \in Seq(RowRecs) /\ Len(rows) = Cardinality(K)
        /\ \A k \in 1 .. Cardinality(K) : rows[k].row = InOrder(K)[k] /\ InOrder(K)[k] \in K
    BY <1>8, <1>11, ListingIs
  <2> HIDE DEF K, rows
  <2> QED BY <1>8, <1>9, <2>1
<1>14. \A k \in 1 .. keep : rows[k] = v.rows[k] BY <1>8, <1>13
<1>15. \A k \in 1 .. keep : rows[k].row \in 1 .. Stood(d, changed)
  <2> HIDE DEF K, rows, n
  <2> QED BY <1>4, <1>10, <1>13
<1>16. u.rows = rows
  <2>1. v = [active |-> TRUE, rows |-> v.rows, copy |-> v.copy, sums |-> v.sums]
    BY DEF ViewOf
  <2> HIDE DEF v, rows
  <2>2. v.rows = ShownRows(d) BY <1>0
  <2> QED BY <2>1
<1>18. StateIs(T, L, b, w, w - 1, ReadBack(u))
  <2>1. w <= b + 1 /\ w \in Nat \ {0} /\ u.rows = Listing(L, Kept(T, L, b, w))
    BY <1>4, <1>5, <1>11, <1>16
  <2> HIDE DEF T, L, u
  <2> QED BY <1>3, <2>1, ReadBackIs
<1>19. /\ new = Listing(L, Y) /\ new = Listing(L, K) \o Listing(L, Y \ K)
       /\ Y \ K \in SUBSET Nat /\ IsFiniteSet(Y \ K)
       /\ Cardinality(Y) = Cardinality(K) + Cardinality(Y \ K)
  <2>1. b <= Len(e.records) /\ w <= b + 1 /\ w \in Nat \ {0} BY <1>1, <1>4, <1>5
  <2> HIDE DEF u, n
  <2> DEFINE J == Kept(T, L, b, w)
  <2>2. /\ new = Listing(L, Y) /\ new = Listing(L, J) \o Listing(L, Y \ J)
        /\ Y \ J \in SUBSET Nat /\ IsFiniteSet(Y \ J)
        /\ Cardinality(Y) = Cardinality(J) + Cardinality(Y \ J)
    <3>1. e.records \in Seq(RecordRecs) /\ b \in Nat BY <1>1
    <3> HIDE DEF v
    <3> QED BY <1>18, <2>1, <3>1, EmissionShows
  <2>3. K = J BY <1>5
  <2> HIDE DEF K, J, Y, new
  <2> QED BY <2>2, <2>3
<1> HIDE DEF new, K
<1>20. new \in Seq(RowRecs) /\ \A k \in 1 .. Len(new) : new[k].row \in 1 .. Len(e.records)
  <2>1. /\ Len(new) = Cardinality(Y) /\ new \in Seq(RowRecs)
        /\ \A k \in 1 .. Cardinality(Y) : new[k].row \in Y
    <3> HIDE DEF Y, L, T
    <3>1. /\ Listing(L, Y) \in Seq(RowRecs) /\ Len(Listing(L, Y)) = Cardinality(Y)
          /\ \A k \in 1 .. Cardinality(Y) : /\ Listing(L, Y)[k].row = InOrder(Y)[k]
                                            /\ InOrder(Y)[k] \in Y
      BY <1>3, ListingIs
    <3> QED BY <1>19, <3>1
  <2> HIDE DEF Y
  <2> QED BY <1>3, <2>1
<1>21. add = Listing(L, Y \ K) /\ add \in Seq(RowRecs) /\ new = rows \o add
  <2> DEFINE more == Listing(L, Y \ K)
  <2>1. more \in Seq(RowRecs) /\ new = rows \o more
    <3> HIDE DEF Y, L, T, rows
    <3>1. more \in Seq(RowRecs) BY <1>19, ListingIs
    <3> QED BY <1>11, <1>19, <3>1
  <2> HIDE DEF more, rows
  <2>2. add = more BY <1>13, <2>1
  <2> QED BY <2>1, <2>2 DEF more
<1> QED
  <2>1. new = ShownRows(e) BY <1>19 DEF ShownRows
  <2>2. /\ keep \in 0 .. Len(v.rows) /\ Len(rows) = keep
        /\ v.rows \in Seq(RowRecs)
        /\ \A k \in 1 .. Len(v.rows) : v.rows[k].row \in 1 .. n
        /\ rows \in Seq(RowRecs) /\ \A k \in 1 .. keep : rows[k] = v.rows[k]
        /\ \A k \in 1 .. keep : rows[k].row \in 1 .. Stood(d, changed)
        /\ new = ShownRows(e) /\ new \in Seq(RowRecs)
        /\ \A k \in 1 .. Len(new) : new[k].row \in 1 .. Len(e.records)
        /\ add \in Seq(RowRecs) /\ new = rows \o add
    <3> HIDE DEF v, rows, n, add
    <3> QED BY <1>8, <1>12, <1>13, <1>14, <1>15, <1>20, <1>21, <2>1
  <2>3. Prolongs(d, e, changed, v, keep, rows, new)
    <3> HIDE DEF v, rows
    <3> QED BY <2>2 DEF Prolongs
  <2> QED BY <2>3 DEF new, keep, w

\* The view gone on with after the log has grown is the one a search from the top gives.
LEMMA ViewGoesOn ==
  ASSUME NEW d, NEW e, NEW changed, Grows(d, e, changed), Restricts(d), Restricts(e),
         e.view = ViewOf(d)
  PROVE  ExtendedView(e, Len(d.records), changed) = ViewOf(e)
<1> DEFINE n == Len(d.records)
           v == e.view
           first == IF n = 0 THEN 1 ELSE ResumeRow(e, n, changed)
           w == ResumedAt(d, e, changed)
           keep == Cardinality(RowsBelow(v, w))
           rows == SubSeq(v.rows, 1, keep)
           copy == SubSeq(v.copy, 1, keep)
           shared == IF keep < Len(v.rows) THEN ExtendedSums(v.sums, copy, keep) ELSE v.sums
           st == ReadBack([v EXCEPT !.rows = rows])
           new == EmitWithContext(e, w, st).out
           part == SubSeq(new, keep + 1, Len(new))
           added == CopyOf(e, part)
           whole == CopyOf(d, v.rows)
<1>1. /\ keep \in 0 .. Len(v.rows) /\ Len(rows) = keep
      /\ v.rows \in Seq(RowRecs)
      /\ \A k \in 1 .. Len(v.rows) : v.rows[k].row \in 1 .. n
      /\ rows \in Seq(RowRecs) /\ \A k \in 1 .. keep : rows[k] = v.rows[k]
      /\ \A k \in 1 .. keep : rows[k].row \in 1 .. Stood(d, changed)
      /\ new = ShownRows(e) /\ new \in Seq(RowRecs)
      /\ \A k \in 1 .. Len(new) : new[k].row \in 1 .. Len(e.records)
      /\ part \in Seq(RowRecs) /\ new = rows \o part
  <2>1. Prolongs(d, e, changed, v, keep, rows, new) BY RowsGoOn
  <2> HIDE DEF v, keep, rows, new
  <2> QED BY <2>1 DEF Prolongs
<1>2. v.rows = ShownRows(d) /\ v.copy = whole /\ v.sums = RebuiltSums(whole)
      /\ v = [active |-> v.active, rows |-> v.rows, copy |-> v.copy, sums |-> v.sums]
  BY DEF ViewOf
<1>3. w = first BY DEF ResumedAt
<1>4. d.records \in Seq(RecordRecs) /\ e.records \in Seq(RecordRecs) /\ n \in Nat
      /\ n <= Len(e.records)
      /\ \A i \in 1 .. Stood(d, changed) : e.records[i] = d.records[i]
  BY DEF Grows
<1>5. Stood(d, changed) \in Int /\ Stood(d, changed) <= n BY <1>4 DEF Stood
<1>6. ExtendedView(e, n, changed)
        = [active |-> TRUE, rows |-> new, copy |-> copy \o added,
           sums |-> IF added = <<>> THEN shared ELSE ExtendedSums(shared, copy \o added, keep)]
  <2> DEFINE last == LastMatchSource([v EXCEPT !.rows = rows])
             was == [out |-> rows, emitted |-> IF keep = 0 THEN 0 ELSE rows[keep].row,
                     match |-> last,
                     since |-> IF last = 0 THEN 0
                               ELSE Cardinality({k \in 1 .. keep : rows[k].row > last})]
  <2>1. was = st
    <3>1. [v EXCEPT !.rows = rows].rows = rows
      <4> HIDE DEF v, rows
      <4> QED BY <1>2
    <3> QED BY <1>1, <3>1 DEF ReadBack
  <2>2. keep = Cardinality({k \in 1 .. Len(e.view.rows) : e.view.rows[k].row < first})
    BY <1>3 DEF RowsBelow
  <2>3. ExtendedView(e, n, changed)
          = [active |-> TRUE, rows |-> EmitWithContext(e, first, was).out,
             copy |-> copy \o CopyOf(e, SubSeq(EmitWithContext(e, first, was).out, keep + 1,
                                              Len(EmitWithContext(e, first, was).out))),
             sums |-> IF CopyOf(e, SubSeq(EmitWithContext(e, first, was).out, keep + 1,
                                          Len(EmitWithContext(e, first, was).out))) = <<>>
                      THEN shared
                      ELSE ExtendedSums(shared,
                             copy \o CopyOf(e, SubSeq(EmitWithContext(e, first, was).out, keep + 1,
                                              Len(EmitWithContext(e, first, was).out))), keep)]
    BY <2>2 DEF ExtendedView
  <2> HIDE DEF was, first, w
  <2> QED BY <1>3, <2>1, <2>3
<1> HIDE DEF v, w, keep, rows, copy, new, part, added, whole, n
<1>7. whole \in Seq(RecordRecs) /\ Len(whole) = Len(v.rows)
      /\ \A k \in 1 .. Len(v.rows) : whole[k] = d.records[v.rows[k].row]
  BY <1>1, <1>4, CopyIs DEF n, whole
<1>8. keep \in Nat /\ keep <= Len(v.rows) /\ Len(v.rows) \in Nat BY <1>1
<1>9. copy \in Seq(RecordRecs) /\ Len(copy) = keep /\ \A k \in 1 .. keep : copy[k] = whole[k]
  BY <1>2, <1>7, <1>8 DEF copy
<1>10. \A k \in 1 .. keep : copy[k] = e.records[rows[k].row]
  <2> SUFFICES ASSUME NEW k \in 1 .. keep PROVE copy[k] = e.records[rows[k].row] OBVIOUS
  <2>1. copy[k] = d.records[v.rows[k].row] /\ rows[k] = v.rows[k]
    BY <1>1, <1>7, <1>8, <1>9
  <2>2. rows[k].row \in 1 .. Stood(d, changed) BY <1>1
  <2> QED BY <1>4, <2>1, <2>2
<1>11. \A k \in 1 .. keep : rows[k].row \in 1 .. Len(e.records)
  <2>1. \A i \in 1 .. Stood(d, changed) : i \in 1 .. Len(e.records) BY <1>4, <1>5
  <2> QED BY <1>1, <2>1
<1>12. part \in Seq(RowRecs) /\ \A k \in 1 .. Len(part) : part[k].row \in 1 .. Len(e.records)
  <2>1. \A a, b \in Seq(RowRecs) : /\ Len(a \o b) = Len(a) + Len(b)
                                   /\ \A i \in 1 .. Len(b) : (a \o b)[Len(a) + i] = b[i]
    BY EndToEnd
  <2>2. Len(new) = Len(rows) + Len(part) /\ \A i \in 1 .. Len(part) : new[Len(rows) + i] = part[i]
    BY <1>1, <2>1
  <2>3. \A i \in 1 .. Len(part) : Len(rows) + i \in 1 .. Len(new) BY <1>1, <2>2
  <2> QED BY <1>1, <2>2, <2>3
<1>13. added \in Seq(RecordRecs) /\ Len(added) = Len(part)
       /\ \A k \in 1 .. Len(part) : added[k] = e.records[part[k].row]
  BY <1>4, <1>12, CopyIs DEF added
<1>14. CopyOf(e, new) \in Seq(RecordRecs) /\ Len(CopyOf(e, new)) = Len(new)
       /\ \A k \in 1 .. Len(new) : CopyOf(e, new)[k] = e.records[new[k].row]
  <2>1. new \in Seq(RowRecs) /\ \A k \in 1 .. Len(new) : new[k].row \in 1 .. Len(e.records)
    BY <1>1
  <2> QED BY <1>4, <2>1, CopyIs
<1>15. copy \o added = CopyOf(e, new)
  <2>1. \A a, b \in Seq(RowRecs) : /\ Len(a \o b) = Len(a) + Len(b)
                                   /\ \A i \in 1 .. Len(a) : (a \o b)[i] = a[i]
                                   /\ \A i \in 1 .. Len(b) : (a \o b)[Len(a) + i] = b[i]
    BY EndToEnd
  <2>2. \A a, b \in Seq(RecordRecs) : /\ a \o b \in Seq(RecordRecs) /\ Len(a \o b) = Len(a) + Len(b)
                                      /\ \A i \in 1 .. Len(a) : (a \o b)[i] = a[i]
                                      /\ \A i \in 1 .. Len(b) : (a \o b)[Len(a) + i] = b[i]
    BY EndToEnd
  <2> DEFINE both == copy \o added
             want == CopyOf(e, new)
  <2>3. /\ Len(new) = keep + Len(part) /\ Len(part) \in Nat
        /\ \A i \in 1 .. keep : new[i] = rows[i]
        /\ \A i \in 1 .. Len(part) : new[keep + i] = part[i]
    BY <1>1, <2>1
  <2>4. /\ both \in Seq(RecordRecs) /\ Len(both) = keep + Len(part)
        /\ \A i \in 1 .. keep : both[i] = copy[i]
        /\ \A i \in 1 .. Len(part) : both[keep + i] = added[i]
    <3>1. /\ both \in Seq(RecordRecs) /\ Len(both) = Len(copy) + Len(added)
          /\ \A i \in 1 .. Len(copy) : both[i] = copy[i]
          /\ \A i \in 1 .. Len(added) : both[Len(copy) + i] = added[i]
      BY <1>9, <1>13, <2>2
    <3> HIDE DEF both
    <3> QED BY <1>9, <1>13, <3>1
  <2>5. want \in Seq(RecordRecs) /\ Len(want) = Len(new)
        /\ \A k \in 1 .. Len(new) : want[k] = e.records[new[k].row]
    BY <1>14
  <2> HIDE DEF both, want
  <2>6. ASSUME NEW i \in 1 .. Len(new) PROVE both[i] = want[i]
    <3>1. CASE i <= keep
      <4>1. i \in 1 .. keep BY <1>8, <2>3, <3>1
      <4> QED BY <1>10, <2>3, <2>4, <2>5, <2>6, <4>1
    <3>2. CASE ~(i <= keep)
      <4> DEFINE j == i - keep
      <4>1. j \in 1 .. Len(part) /\ i = keep + j BY <1>8, <2>3, <3>2
      <4> HIDE DEF j
      <4> QED BY <1>13, <2>3, <2>4, <2>5, <2>6, <4>1
    <3> QED BY <3>1, <3>2
  <2>7. both = want BY <1>8, <2>3, <2>4, <2>5, <2>6
  <2> QED BY <2>7 DEF both, want
<1>16. shared = RebuiltSums(copy)
  <2>1. CASE keep < Len(v.rows)
    <3>1. ExtendedSums(RebuiltSums(whole), copy, keep) = RebuiltSums(copy)
      <4>1. keep <= Len(whole) /\ keep <= Len(copy) BY <1>7, <1>8, <1>9
      <4> QED BY <1>7, <1>8, <1>9, <4>1, SumsExtended
    <3> QED BY <1>2, <2>1, <3>1
  <2>2. CASE ~(keep < Len(v.rows))
    <3>1. keep = Len(v.rows) BY <1>8, <2>2
    <3>2. copy = whole BY <1>7, <1>9, <3>1
    <3> QED BY <1>2, <2>2, <3>2
  <2> QED BY <2>1, <2>2
<1>17. (IF added = <<>> THEN shared ELSE ExtendedSums(shared, copy \o added, keep))
         = RebuiltSums(CopyOf(e, new))
  <2>1. CASE added = <<>>
    <3>1. copy \o added = copy BY <1>9, <2>1, JoinedToNothing
    <3> QED BY <1>15, <1>16, <2>1, <3>1
  <2>2. CASE added # <<>>
    <3> DEFINE both == copy \o added
    <3>1. \A a, b \in Seq(RecordRecs) : /\ a \o b \in Seq(RecordRecs) /\ Len(a \o b) = Len(a) + Len(b)
                                        /\ \A i \in 1 .. Len(a) : (a \o b)[i] = a[i]
      BY EndToEnd
    <3>2. both \in Seq(RecordRecs) /\ keep <= Len(both) /\ \A i \in 1 .. keep : both[i] = copy[i]
      <4>1. both \in Seq(RecordRecs) /\ Len(both) = Len(copy) + Len(added)
            /\ \A i \in 1 .. Len(copy) : both[i] = copy[i]
        BY <1>9, <1>13, <3>1
      <4> HIDE DEF both
      <4> QED BY <1>8, <1>9, <1>13, <4>1
    <3>3. keep <= Len(copy) BY <1>8, <1>9
    <3> HIDE DEF both
    <3>4. ExtendedSums(RebuiltSums(copy), both, keep) = RebuiltSums(both)
      BY <1>8, <1>9, <3>2, <3>3, SumsExtended
    <3> QED BY <1>15, <1>16, <2>2, <3>4 DEF both
  <2> QED BY <2>1, <2>2
<1> HIDE DEF shared
<1>18. ViewOf(e) = [active |-> TRUE, rows |-> new, copy |-> CopyOf(e, new),
                    sums |-> RebuiltSums(CopyOf(e, new))]
  BY <1>1 DEF ViewOf
<1> QED BY <1>6, <1>15, <1>17, <1>18 DEF n

\* The lines from `from` on that open a record, and the record one of them opens.
Opens(lines, from) ==
  {i \in from .. Len(lines) : lines[i].start \/ ~ \E j \in from .. (i - 1) : lines[j].start}
Opened(lines, closed, at, k) ==
  [from |-> at[k], len |-> (IF k = Len(at) THEN Len(lines) + 1 ELSE at[k + 1]) - at[k],
   parsed |-> lines[at[k]].start, ok |-> lines[at[k]].start /\ ~lines[at[k]].low,
   shut |-> k < Len(at) \/ closed]

\* Its last line is terminated, or it is the last record and that line is what the log's is.
LEMMA OpenedIsShut ==
  ASSUME NEW lines, NEW closed \in BOOLEAN, NEW at, NEW k \in Nat
  PROVE  /\ k < Len(at) => Opened(lines, closed, at, k).shut = TRUE
         /\ ~(k < Len(at)) => Opened(lines, closed, at, k).shut = closed
<1>1. k < Len(at) => Opened(lines, closed, at, k).shut = TRUE
  <2> SUFFICES ASSUME k < Len(at) PROVE Opened(lines, closed, at, k).shut = TRUE OBVIOUS
  <2>1. (k < Len(at) \/ closed) = TRUE OBVIOUS
  <2> QED BY <2>1 DEF Opened
<1>2. ~(k < Len(at)) => Opened(lines, closed, at, k).shut = closed
  <2> SUFFICES ASSUME ~(k < Len(at)) PROVE Opened(lines, closed, at, k).shut = closed
    OBVIOUS
  <2>1. (k < Len(at) \/ closed) = closed OBVIOUS
  <2> QED BY <2>1 DEF Opened
<1> QED BY <1>1, <1>2

\* A scan finds the records those lines open.
LEMMA ScanIs ==
  ASSUME NEW lines \in Seq(Lines), NEW closed \in BOOLEAN, NEW from \in Nat \ {0}
  PROVE  LET O == Opens(lines, from)
         IN /\ O \in SUBSET Nat /\ IsFiniteSet(O) /\ Cardinality(O) \in Nat
            /\ Len(InOrder(O)) = Cardinality(O)
            /\ InOrder(O) \in [1 .. Cardinality(O) -> O]
            /\ Scan(lines, closed, from)
                 = [k \in 1 .. Cardinality(O) |-> Opened(lines, closed, InOrder(O), k)]
            /\ Len(Scan(lines, closed, from)) = Cardinality(O)
            /\ \A i \in O : i \in from .. Len(lines)
            /\ from <= Len(lines) => from \in O
<1> DEFINE O == Opens(lines, from)
<1>1. O \in SUBSET (from .. Len(lines)) /\ (from <= Len(lines) => from \in O) BY DEF Opens
<1>2. from .. Len(lines) \in SUBSET Nat /\ IsFiniteSet(from .. Len(lines)) BY FS_Interval
<1>3. Scan(lines, closed, from)
        = [k \in 1 .. Len(InOrder(O)) |-> Opened(lines, closed, InOrder(O), k)]
  BY DEF Scan, Opens, Opened
<1> HIDE DEF O
<1>4. O \in SUBSET Nat /\ IsFiniteSet(O) /\ \A i \in O : i \in from .. Len(lines)
  BY <1>1, <1>2, FS_Subset
<1>5. Cardinality(O) \in Nat /\ InOrder(O) \in [1 .. Cardinality(O) -> O]
  BY <1>4, InOrderLists
<1>6. Len(InOrder(O)) = Cardinality(O) BY <1>5
<1>7. Len(Scan(lines, closed, from)) = Cardinality(O) BY <1>3, <1>5, <1>6
<1> QED BY <1>1, <1>3, <1>4, <1>5, <1>6, <1>7 DEF O

\* Lines read again from where the last record begins: what opened a record before it still
\* does, and what opens one from there on is told without looking back.
LEMMA OpensGoOn ==
  ASSUME NEW seen \in Seq(Lines), NEW lines \in Seq(Lines), ReadFrom(seen, lines),
         NEW from \in Opens(seen, 1), \A i \in Opens(seen, 1) : i <= from
  PROVE  /\ Opens(lines, 1) = Below(Opens(seen, 1), from) \cup Opens(lines, from)
         /\ Opens(seen, 1) = Below(Opens(seen, 1), from) \cup {from}
         /\ from \in Opens(lines, from) /\ \A i \in Opens(lines, from) : from <= i
         /\ \A i \in Below(Opens(seen, 1), from) : i < from /\ lines[i] = seen[i]
<1> DEFINE A == Opens(seen, 1)
           Q == Opens(lines, 1)
           R == Opens(lines, from)
           low == Below(A, from)
<1>1. /\ Len(seen) \in Nat /\ Len(lines) \in Nat /\ Len(seen) <= Len(lines)
      /\ from \in 1 .. Len(seen)
  BY DEF Opens, ReadFrom
<1>2. \A i \in 1 .. Len(seen) : i < from => lines[i] = seen[i] BY <1>1 DEF ReadFrom
<1>3. seen[from].start => lines[from].start BY <1>1 DEF ReadFrom, Glimpsed
<1>4. \A i : i \in A <=> /\ i \in 1 .. Len(seen)
                         /\ (seen[i].start \/ ~ \E j \in 1 .. (i - 1) : seen[j].start)
  BY DEF Opens
<1>5. \A i : i \in Q <=> /\ i \in 1 .. Len(lines)
                         /\ (lines[i].start \/ ~ \E j \in 1 .. (i - 1) : lines[j].start)
  BY DEF Opens
<1>6. \A i : i \in R <=> /\ i \in from .. Len(lines)
                         /\ (lines[i].start \/ ~ \E j \in from .. (i - 1) : lines[j].start)
  BY DEF Opens
<1>7. \A i : i \in low <=> i \in A /\ i < from BY DEF Below
<1>8. from \in A /\ \A i \in A : i <= from OBVIOUS
<1> HIDE DEF A, Q, R, low
<1>9. ASSUME NEW i \in 1 .. Len(lines), i < from PROVE i \in Q <=> i \in low
  <2>1. i \in 1 .. Len(seen) /\ lines[i] = seen[i] BY <1>1, <1>2, <1>9
  <2>2. \A j \in 1 .. (i - 1) : lines[j] = seen[j] BY <1>1, <1>2, <1>9
  <2> QED BY <1>4, <1>5, <1>7, <1>9, <2>1, <2>2
<1>10. ASSUME NEW i \in 1 .. Len(lines), from <= i PROVE i \in Q <=> i \in R
  <2>1. CASE seen[from].start
    <3>1. CASE i = from BY <1>1, <1>3, <1>5, <1>6, <1>10, <2>1, <3>1
    <3>2. CASE i > from
      <4>1. from \in 1 .. (i - 1) /\ from \in from .. (i - 1) /\ i \in from .. Len(lines)
        BY <1>1, <1>10, <3>2
      <4> QED BY <1>3, <1>5, <1>6, <2>1, <4>1
    <3> QED BY <1>1, <1>10, <3>1, <3>2
  <2>2. CASE ~seen[from].start
    <3>1. \A j \in 1 .. (from - 1) : ~seen[j].start BY <1>4, <1>8, <2>2
    <3>2. \A j \in 1 .. (from - 1) : ~lines[j].start BY <1>1, <1>2, <3>1
    <3>3. i \in from .. Len(lines) BY <1>1, <1>10
    <3>4. (\E j \in 1 .. (i - 1) : lines[j].start) <=> \E j \in from .. (i - 1) : lines[j].start
      <4>1. \A j \in 1 .. (i - 1) : j \in 1 .. (from - 1) \/ j \in from .. (i - 1) BY <1>1
      <4>2. \A j \in from .. (i - 1) : j \in 1 .. (i - 1) BY <1>1
      <4> QED BY <3>2, <4>1, <4>2
    <3> QED BY <1>5, <1>6, <3>3, <3>4
  <2> QED BY <2>1, <2>2
<1>11. from \in R /\ \A i \in R : from <= i
  <2>1. from \in from .. Len(lines) /\ from .. (from - 1) = {} BY <1>1
  <2> QED BY <1>1, <1>6, <2>1
<1>12. Q = low \cup R
  <2>1. \A i \in R : i \in 1 .. Len(lines) /\ from <= i BY <1>1, <1>6
  <2>2. \A i \in low : i \in 1 .. Len(lines) /\ i < from BY <1>1, <1>4, <1>7
  <2>3. \A i \in Q : i \in 1 .. Len(lines) /\ (i < from \/ from <= i) BY <1>1, <1>5
  <2>4. \A i : i \in Q <=> i \in low \/ i \in R BY <1>9, <1>10, <2>1, <2>2, <2>3
  <2> QED BY <2>4
<1>13. A = low \cup {from}
  <2>1. \A i \in A : i \in Nat /\ (i < from \/ i = from) BY <1>1, <1>4, <1>8
  <2>2. \A i : i \in A <=> i \in low \/ i = from BY <1>7, <1>8, <2>1
  <2> QED BY <2>2
<1>14. \A i \in low : i < from /\ lines[i] = seen[i] BY <1>2, <1>4, <1>7
<1> QED BY <1>11, <1>12, <1>13, <1>14 DEF A, Q, R, low

\* Numbers numbered from one are a sequence.
LEMMA NumbersListed ==
  ASSUME NEW n \in Nat, NEW T \in SUBSET Nat, NEW f \in [1 .. n -> T]
  PROVE  f \in Seq(Nat) /\ Len(f) = n
<1>1. \A i \in 1 .. n : f[i] \in Nat OBVIOUS
<1>2. f \in [1 .. n -> Nat] BY <1>1
<1> QED BY <1>2

\* The last place of a list in order that ends with one line.
LEMMA EndsWith ==
  ASSUME NEW X \in SUBSET Nat, IsFiniteSet(X), NEW n \in Nat, \A x \in X : x < n
  PROVE  /\ Cardinality(X) \in Nat /\ IsFiniteSet(X \cup {n})
         /\ Cardinality(X \cup {n}) = Cardinality(X) + 1
         /\ InOrder(X \cup {n})[Cardinality(X) + 1] = n
         /\ \A k \in 1 .. Cardinality(X) : InOrder(X \cup {n})[k] = InOrder(X)[k]
<1>1. IsFiniteSet({n}) /\ Cardinality({n}) = 1 /\ {n} \in SUBSET Nat BY FS_Singleton
<1>2. \A x \in X, y \in {n} : x < y OBVIOUS
<1>3. /\ IsFiniteSet(X \cup {n}) /\ Cardinality(X \cup {n}) = Cardinality(X) + Cardinality({n})
      /\ InOrder(X \cup {n}) = InOrder(X) \o InOrder({n})
  BY <1>1, <1>2, InOrderJoins
<1>4. Cardinality(X) \in Nat /\ InOrder(X) \in [1 .. Cardinality(X) -> X] BY InOrderLists
<1>5. InOrder({n}) \in [1 .. 1 -> {n}] BY <1>1, InOrderLists
<1>6. /\ InOrder(X) \in Seq(Nat) /\ Len(InOrder(X)) = Cardinality(X)
      /\ InOrder({n}) \in Seq(Nat) /\ Len(InOrder({n})) = 1 /\ InOrder({n})[1] = n
  <2>1. 1 \in 1 .. 1 /\ 1 \in Nat OBVIOUS
  <2>2. InOrder({n})[1] = n BY <1>5, <2>1
  <2>3. InOrder({n}) \in Seq(Nat) /\ Len(InOrder({n})) = 1
    BY <1>1, <1>5, <2>1, NumbersListed
  <2> QED BY <1>4, <2>2, <2>3, NumbersListed
<1>7. \A a, b \in Seq(Nat) : /\ \A i \in 1 .. Len(a) : (a \o b)[i] = a[i]
                             /\ \A i \in 1 .. Len(b) : (a \o b)[Len(a) + i] = b[i]
  BY EndToEnd
<1> DEFINE a == InOrder(X)
           z == InOrder({n})
<1>8. (a \o z)[Len(a) + 1] = z[1] /\ \A i \in 1 .. Len(a) : (a \o z)[i] = a[i]
  <2>1. a \in Seq(Nat) /\ z \in Seq(Nat) /\ 1 \in 1 .. Len(z) BY <1>6
  <2> HIDE DEF a, z
  <2> QED BY <1>7, <2>1
<1> QED BY <1>1, <1>3, <1>4, <1>6, <1>8

\* The records of a scan, the last of which begins at `from`: what they leave to be read again,
\* and where they end.
Splits(recs, seen, lines, c, closed, from) ==
  /\ from \in 1 .. Len(seen)
  /\ SubSeq(recs, 1, Len(recs) - 1) \o Scan(lines, closed, from) = Scan(lines, closed, 1)
  /\ from + recs[Len(recs)].len = Len(seen) + 1
  /\ recs[Len(recs)].shut = c
  /\ \A i \in 1 .. Len(recs) - 1 : recs[i].from + recs[i].len <= from /\ recs[i].shut

\* The last record's tail read again, after the records before it: what a scan from the top finds.
LEMMA ScanSplits ==
  ASSUME NEW seen \in Seq(Lines), NEW lines \in Seq(Lines), ReadFrom(seen, lines),
         NEW c \in BOOLEAN, NEW closed \in BOOLEAN, NEW recs, recs = Scan(seen, c, 1), recs # <<>>
  PROVE  Splits(recs, seen, lines, c, closed, recs[Len(recs)].from)
<1> DEFINE A == Opens(seen, 1)
           Q == Opens(lines, 1)
           n == Cardinality(A)
           at == InOrder(A)
           from == at[n]
           R == Opens(lines, from)
           low == Below(A, from)
           m == Cardinality(low)
           lo == InOrder(low)
           re == InOrder(R)
           all == InOrder(Q)
           tail == Scan(lines, closed, from)
           top == Scan(lines, closed, 1)
           head == SubSeq(recs, 1, Len(recs) - 1)
<1>1. /\ A \in SUBSET Nat /\ IsFiniteSet(A) /\ n \in Nat /\ Len(at) = n /\ at \in [1 .. n -> A]
      /\ recs = [k \in 1 .. n |-> Opened(seen, c, at, k)] /\ Len(recs) = n
      /\ \A i \in A : i \in 1 .. Len(seen)
  BY ScanIs
<1>2. /\ \A i, j \in 1 .. n : i < j => at[i] < at[j]
      /\ \A x \in A : \E i \in 1 .. n : at[i] = x
  BY <1>1, InOrderLists
<1>3. n # 0 BY <1>1
<1> HIDE DEF A, at, n
<1>4. from \in A /\ from \in 1 .. Len(seen) /\ from \in Nat \ {0} /\ \A i \in A : i <= from
  <2>0. n \in 1 .. n BY <1>1, <1>3
  <2>1. from \in A /\ from \in 1 .. Len(seen) /\ from \in Nat \ {0}
    <3>1. at[n] \in A BY <1>1, <2>0
    <3>2. at[n] \in 1 .. Len(seen) BY <1>1, <3>1
    <3> QED BY <3>1, <3>2 DEF from
  <2>2. ASSUME NEW i \in A PROVE i <= from
    <3>1. PICK k \in 1 .. n : at[k] = i BY <1>2
    <3>2. k = n \/ k < n BY <1>1
    <3>3. n \in 1 .. n /\ i \in Nat /\ from \in Nat BY <1>1, <2>0, <2>1
    <3> QED BY <1>2, <3>1, <3>2, <3>3
  <2> QED BY <2>1, <2>2
<1> HIDE DEF from
<1>5. /\ Q = low \cup R /\ A = low \cup {from} /\ from \in R /\ \A i \in R : from <= i
      /\ \A i \in low : i < from /\ lines[i] = seen[i]
  BY <1>4, OpensGoOn DEF A
<1>6. /\ R \in SUBSET Nat /\ IsFiniteSet(R) /\ Cardinality(R) \in Nat
      /\ Len(re) = Cardinality(R) /\ re \in [1 .. Cardinality(R) -> R]
      /\ tail = [k \in 1 .. Cardinality(R) |-> Opened(lines, closed, re, k)]
      /\ Len(tail) = Cardinality(R)
  BY <1>4, ScanIs
<1>7. /\ Q \in SUBSET Nat /\ IsFiniteSet(Q) /\ Cardinality(Q) \in Nat
      /\ Len(all) = Cardinality(Q)
      /\ top = [k \in 1 .. Cardinality(Q) |-> Opened(lines, closed, all, k)]
      /\ Len(top) = Cardinality(Q)
  BY ScanIs
<1>8. low \in SUBSET Nat /\ IsFiniteSet(low) /\ m \in Nat /\ lo \in [1 .. m -> low]
  <2>1. low \in SUBSET A BY DEF Below
  <2> HIDE DEF low
  <2>2. low \in SUBSET Nat /\ IsFiniteSet(low) BY <1>1, <2>1, FS_Subset
  <2> QED BY <2>2, InOrderLists
<1> HIDE DEF low, R, Q, tail, top, re, all, lo, m
<1>9. n = m + 1 /\ at[n] = from /\ \A k \in 1 .. m : at[k] = lo[k]
  <2>1. \A x \in low : x < from BY <1>5
  <2>2. /\ Cardinality(low \cup {from}) = Cardinality(low) + 1
        /\ \A k \in 1 .. Cardinality(low) : InOrder(low \cup {from})[k] = InOrder(low)[k]
    BY <1>4, <1>8, <2>1, EndsWith
  <2> QED BY <1>5, <2>2 DEF n, m, at, lo, from
<1>10. Cardinality(Q) = m + Cardinality(R) /\ all = lo \o re
  <2>1. \A x \in low, y \in R : x < y
    <3>1. \A x \in low, y \in R : x \in Nat /\ y \in Nat /\ x < from /\ from <= y
      BY <1>5, <1>6, <1>8
    <3> QED BY <1>4, <3>1
  <2>2. Cardinality(low \cup R) = Cardinality(low) + Cardinality(R)
        /\ InOrder(low \cup R) = InOrder(low) \o InOrder(R)
    BY <1>6, <1>8, <2>1, InOrderJoins
  <2> QED BY <1>5, <2>2 DEF m, all, lo, re
<1> DEFINE z == Cardinality(R)
<1>11. z \in Nat /\ z >= 1 /\ re[1] = from
  <2>1. PICK k \in 1 .. z : re[k] = from BY <1>5, <1>6, InOrderLists DEF re
  <2>2. \A i, j \in 1 .. z : i < j => re[i] < re[j] BY <1>6, InOrderLists DEF re
  <2>3. k = 1
    <3>1. 1 \in 1 .. z /\ z \in Nat BY <1>6, <2>1
    <3>2. from <= re[1] /\ re[1] \in Nat BY <1>5, <1>6, <3>1
    <3>3. k # 1 => 1 < k BY <1>6
    <3> QED BY <1>4, <2>1, <2>2, <3>1, <3>2, <3>3
  <2> QED BY <1>6, <2>1, <2>3
<1> HIDE DEF z
<1>12. /\ Len(all) = m + z
       /\ \A k \in 1 .. m : all[k] = lo[k]
       /\ \A k \in 1 .. z : all[m + k] = re[k]
  <2>1. \A a, b \in Seq(Nat) : /\ Len(a \o b) = Len(a) + Len(b)
                               /\ \A i \in 1 .. Len(a) : (a \o b)[i] = a[i]
                               /\ \A i \in 1 .. Len(b) : (a \o b)[Len(a) + i] = b[i]
    BY EndToEnd
  <2>2. lo \in Seq(Nat) /\ Len(lo) = m BY <1>8, NumbersListed
  <2>3. re \in Seq(Nat) /\ Len(re) = z BY <1>6, NumbersListed DEF z
  <2> QED BY <1>10, <2>1, <2>2, <2>3
<1>13. ASSUME NEW k \in 1 .. m
       PROVE  Opened(lines, closed, all, k) = Opened(seen, c, at, k)
  <2>1. all[k] = at[k] /\ lines[at[k]] = seen[at[k]] /\ k # n /\ k # Len(all)
        /\ k < Len(at) /\ k < Len(all) /\ k # Len(at)
    <3>1. lo[k] \in low BY <1>8
    <3> QED BY <1>1, <1>5, <1>8, <1>9, <1>11, <1>12, <3>1
  <2>2. all[k + 1] = at[k + 1]
    <3>1. CASE k = m
      <4>1. 1 \in 1 .. z /\ k + 1 = n BY <1>8, <1>9, <1>11, <3>1
      <4> QED BY <1>9, <1>11, <1>12, <3>1, <4>1
    <3>2. CASE k # m
      <4>1. k + 1 \in 1 .. m BY <1>8, <3>2
      <4> QED BY <1>9, <1>12, <4>1
    <3> QED BY <3>1, <3>2
  <2> QED BY <2>1, <2>2 DEF Opened
<1>14. ASSUME NEW k \in 1 .. z
       PROVE  Opened(lines, closed, all, m + k) = Opened(lines, closed, re, k)
  <2>1. all[m + k] = re[k] /\ (m + k = Len(all) <=> k = Len(re))
        /\ (m + k < Len(all) <=> k < Len(re))
    <3>1. Len(re) = z /\ Len(all) = m + z /\ all[m + k] = re[k] /\ z \in Nat /\ m \in Nat
      BY <1>6, <1>8, <1>11, <1>12 DEF z
    <3> QED BY <3>1
  <2>2. CASE k = Len(re) BY <2>1, <2>2 DEF Opened
  <2>3. CASE k # Len(re)
    <3>1. k + 1 \in 1 .. z /\ (m + k) + 1 = m + (k + 1) BY <1>6, <1>8, <1>11, <2>3 DEF z
    <3>2. all[(m + k) + 1] = re[k + 1] BY <1>12, <3>1
    <3> QED BY <2>1, <2>3, <3>2 DEF Opened
  <2> QED BY <2>2, <2>3
<1>15. head \o tail = top
  <2>1. /\ recs \in Seq(RecordRecs) /\ tail \in Seq(RecordRecs) /\ top \in Seq(RecordRecs)
    <3>1. 1 \in 1 .. Len(seen) + 1 /\ 1 \in 1 .. Len(lines) + 1 /\ from \in 1 .. Len(lines) + 1
      BY <1>4 DEF ReadFrom
    <3> QED BY <3>1, ScanFinds DEF tail, top
  <2>2. /\ head \in Seq(RecordRecs) /\ Len(head) = m /\ \A k \in 1 .. m : head[k] = recs[k]
    BY <1>1, <1>8, <1>9, <2>1
  <2> HIDE DEF head
  <2> DEFINE both == head \o tail
  <2>3. \A a, b \in Seq(RecordRecs) : /\ a \o b \in Seq(RecordRecs) /\ Len(a \o b) = Len(a) + Len(b)
                                      /\ \A i \in 1 .. Len(a) : (a \o b)[i] = a[i]
                                      /\ \A i \in 1 .. Len(b) : (a \o b)[Len(a) + i] = b[i]
    BY EndToEnd
  <2>4. /\ both \in Seq(RecordRecs) /\ Len(both) = Len(head) + Len(tail)
        /\ \A i \in 1 .. Len(head) : both[i] = head[i]
        /\ \A i \in 1 .. Len(tail) : both[Len(head) + i] = tail[i]
    BY <2>1, <2>2, <2>3
  <2> HIDE DEF both
  <2>5. Len(tail) = z /\ Len(top) = m + z BY <1>6, <1>7, <1>10 DEF z
  <2>6. ASSUME NEW k \in 1 .. m + z PROVE both[k] = top[k]
    <3>1. top[k] = Opened(lines, closed, all, k) BY <1>7, <2>5, <2>6
    <3>2. CASE k <= m
      <4>1. k \in 1 .. m /\ k \in 1 .. n BY <1>8, <1>9, <3>2
      <4>2. both[k] = recs[k] /\ recs[k] = Opened(seen, c, at, k)
        BY <1>1, <2>2, <2>4, <4>1
      <4> QED BY <1>13, <3>1, <4>1, <4>2
    <3>3. CASE ~(k <= m)
      <4> DEFINE j == k - m
      <4>1. j \in 1 .. z /\ k = m + j BY <1>8, <1>11, <3>3
      <4> HIDE DEF j
      <4>2. both[k] = tail[j] /\ tail[j] = Opened(lines, closed, re, j)
        BY <1>6, <2>2, <2>4, <2>5, <4>1 DEF z
      <4> QED BY <1>14, <3>1, <4>1, <4>2
    <3> QED BY <3>2, <3>3
  <2>7. both = top BY <1>8, <1>11, <2>1, <2>2, <2>4, <2>5, <2>6
  <2> QED BY <2>7 DEF both
<1>16. recs[n].from = from /\ recs[n].from + recs[n].len = Len(seen) + 1 /\ recs[n].shut = c
  <2>1. n \in 1 .. n /\ n = Len(at) /\ ~(n < Len(at)) BY <1>1, <1>3
  <2>2. recs[n] = Opened(seen, c, at, n) BY <1>1, <2>1
  <2>3. recs[n].from = from /\ recs[n].len = (Len(seen) + 1) - from /\ recs[n].shut = c
    <3> DEFINE r == Opened(seen, c, at, n)
    <3>1. r.from = at[n] BY DEF Opened
    <3>3. n = Len(at) => r.len = (Len(seen) + 1) - at[n] BY DEF Opened
    <3>4. ~(n < Len(at)) => r.shut = c BY <1>1, OpenedIsShut
    <3> HIDE DEF r
    <3>2. r = recs[n] BY <2>2 DEF r
    <3> QED BY <1>9, <2>1, <3>1, <3>2, <3>3, <3>4
  <2> QED BY <1>4, <2>1, <2>3
<1>17. ASSUME NEW i \in 1 .. n - 1 PROVE recs[i].from + recs[i].len <= from /\ recs[i].shut
  <2>1. i \in 1 .. n /\ i + 1 \in 1 .. n /\ i # Len(at) /\ i < Len(at) BY <1>1
  <2>2. recs[i] = Opened(seen, c, at, i) BY <1>1, <2>1
  <2>3. recs[i].from = at[i] /\ recs[i].len = at[i + 1] - at[i] /\ recs[i].shut = TRUE
    <3> DEFINE r == Opened(seen, c, at, i)
    <3>1. r.from = at[i] BY DEF Opened
    <3>3. i # Len(at) => r.len = at[i + 1] - at[i] BY DEF Opened
    <3>4. i < Len(at) => r.shut = TRUE
      <4>1. i \in Nat BY <1>1
      <4> QED BY <4>1, OpenedIsShut
    <3> HIDE DEF r
    <3>2. r = recs[i] BY <2>2 DEF r
    <3> QED BY <2>1, <3>1, <3>2, <3>3, <3>4
  <2>4. at[i] \in Nat /\ at[i + 1] \in Nat /\ at[i + 1] \in A BY <1>1, <2>1
  <2> QED BY <1>4, <2>1, <2>3, <2>4
<1> QED
  <2>1. from = recs[Len(recs)].from BY <1>1, <1>16
  <2>2. Splits(recs, seen, lines, c, closed, from)
    BY <1>1, <1>4, <1>15, <1>16, <1>17 DEF tail, top, Splits
  <2> QED BY <2>1, <2>2

\* What a search reads, and what it shows.
SameSource(d, e) ==
  /\ DOMAIN e = Fields
  /\ e.seen = d.seen /\ e.records = d.records /\ e.sums = d.sums
  /\ e.bound = d.bound /\ e.filter = d.filter
SameView(d, e) == SameSource(d, e) /\ e.view = d.view

\* One field written leaves the others.
LEMMA OneFieldAside ==
  ASSUME NEW d, DOMAIN d = Fields, NEW x
  PROVE  /\ SameView(d, d)
         /\ SameSource(d, [d EXCEPT !.view = x]) /\ [d EXCEPT !.view = x].view = x
         /\ SameView(d, [d EXCEPT !.last = x])
         /\ SameView(d, [d EXCEPT !.digest = x])
         /\ SameView(d, [d EXCEPT !.memo = x])
  BY DEF SameView, SameSource, Fields

\* Two writes after one another.
LEMMA SameViewGoesOn ==
  ASSUME NEW d, NEW e, NEW f, SameView(d, e), SameView(e, f)
  PROVE  SameView(d, f)
  BY DEF SameView, SameSource

\* The digest and the counts leave the view and what it is made from alone.
LEMMA DigestAside ==
  ASSUME NEW d, DOMAIN d = Fields, NEW force, NEW oldCount, NEW changed, NEW base
  PROVE  /\ SameView(d, RebuildDigest(d)) /\ SameView(d, FoldStats(d))
         /\ SameView(d, UpdateDigestAfterAppend(d, oldCount, changed, base))
<1>1. ASSUME NEW e, DOMAIN e = Fields, NEW f
      PROVE  SameView(e, PublishDigest(e, f))
  <2>1. PublishDigest(e, f) = e \/ \E x : PublishDigest(e, f) = [e EXCEPT !.digest = x]
    BY DEF PublishDigest
  <2> QED BY <1>1, <2>1, OneFieldAside
<1>2. ASSUME NEW x, NEW f
      PROVE  SameView(d, PublishDigest([d EXCEPT !.last = x], f))
  <2>1. SameView(d, [d EXCEPT !.last = x]) BY OneFieldAside
  <2>2. DOMAIN [d EXCEPT !.last = x] = Fields BY <2>1 DEF SameView, SameSource
  <2>3. SameView([d EXCEPT !.last = x], PublishDigest([d EXCEPT !.last = x], f))
    BY <1>1, <2>2
  <2> QED BY <2>1, <2>3, SameViewGoesOn
<1>3. SameView(d, RebuildDigest(d)) BY <1>2 DEF RebuildDigest
<1>4. SameView(d, UpdateDigestAfterAppend(d, oldCount, changed, base))
  <2> DEFINE u == UpdateDigestAfterAppend(d, oldCount, changed, base)
  <2>1. u = d \/ \E x, f : u = PublishDigest([d EXCEPT !.last = x], f)
    BY DEF UpdateDigestAfterAppend
  <2>2. SameView(d, d) BY OneFieldAside
  <2>3. CASE u = d BY <2>2, <2>3
  <2>4. CASE \E x, f : u = PublishDigest([d EXCEPT !.last = x], f)
    <3>1. PICK x, f : u = PublishDigest([d EXCEPT !.last = x], f) BY <2>4
    <3>2. SameView(d, PublishDigest([d EXCEPT !.last = x], f)) BY <1>2
    <3> HIDE DEF u
    <3>3. SameView(d, u) BY <3>1, <3>2, Zenon
    <3> QED BY <3>3 DEF u
  <2> QED BY <2>1, <2>3, <2>4
<1>5. SameView(d, FoldStats(d))
  <2>1. \E x : FoldStats(d) = [d EXCEPT !.memo = x] BY Zenon DEF FoldStats
  <2>2. \A x : SameView(d, [d EXCEPT !.memo = x]) BY OneFieldAside
  <2> QED BY <2>1, <2>2, Zenon
<1> QED BY <1>3, <1>4, <1>5

\* The bound that is recomputed is all that changes.
LEMMA BoundAside ==
  ASSUME NEW d, DOMAIN d = Fields
  PROVE  LET e == RecomputeViewBounds(d)
         IN /\ DOMAIN e = Fields
            /\ e.seen = d.seen /\ e.records = d.records /\ e.sums = d.sums
            /\ e.filter = d.filter /\ e.view = d.view
<1>1. RecomputeViewBounds(d) = [d EXCEPT !.bound = BoundOf(d.runs, d.selected)]
  BY Zenon DEF RecomputeViewBounds, BoundOf
<1>2. \A x : LET e == [d EXCEPT !.bound = x]
             IN /\ DOMAIN e = Fields
                /\ e.seen = d.seen /\ e.records = d.records /\ e.sums = d.sums
                /\ e.filter = d.filter /\ e.view = d.view
  BY DEF Fields
<1> QED BY <1>1, <1>2

\* The index of a document is the one a scan of its lines from the top finds, and its sums
\* those of a rebuild; the view is the one a search of it from the top gives.
ScanHolds(d) ==
  /\ DOMAIN d = Fields /\ d.seen \in Seq(Lines)
  /\ \E c \in BOOLEAN : d.records = Scan(d.seen, c, 1)
  /\ d.sums = RebuiltSums(d.records)
ViewHolds(d) == ScanHolds(d) /\ d.view = ViewOf(d)

\* Whatever else is written.
LEMMA HoldsAside ==
  ASSUME NEW d, NEW e
  PROVE  /\ SameSource(d, e) /\ ScanHolds(d) => ScanHolds(e)
         /\ SameView(d, e) /\ ViewHolds(d) => ViewHolds(e)
<1>1. SameSource(d, e) /\ ScanHolds(d) => ScanHolds(e) BY DEF SameSource, ScanHolds
<1>2. SameView(d, e) /\ ViewHolds(d) => ViewHolds(e)
  <2> SUFFICES ASSUME SameView(d, e), ViewHolds(d) PROVE ViewHolds(e) OBVIOUS
  <2>1. SameSource(d, e) /\ SameStream(d, e) BY DEF SameView, SameSource, SameStream
  <2>2. ViewOf(e) = ViewOf(d) BY <2>1, SameIsShown
  <2> QED BY <1>1, <2>1, <2>2 DEF ViewHolds, SameView
<1> QED BY <1>1, <1>2

\* applyFilters() gives the view of a search from the top, whatever it was before.
LEMMA AppliedHolds ==
  ASSUME NEW d, ScanHolds(d)
  PROVE  /\ ViewHolds(ApplyFilters(d)) /\ SameSource(d, ApplyFilters(d))
         /\ d.records \in Seq(RecordRecs)
<1>1. PICK c \in BOOLEAN : d.records = Scan(d.seen, c, 1) BY DEF ScanHolds
<1>2. d.records \in Seq(RecordRecs)
  <2>1. 1 \in 1 .. Len(d.seen) + 1 /\ d.seen \in Seq(Lines) BY DEF ScanHolds
  <2> QED BY <1>1, <2>1, ScanFinds
<1>3. DOMAIN d = Fields BY DEF ScanHolds
<1>4. ApplyFilters(d) = [d EXCEPT !.view = ViewOf(d)] BY <1>2, <1>3, AppliedIsShown
<1> DEFINE x == ViewOf(d)
           e == [d EXCEPT !.view = x]
<1> HIDE DEF x
<1>5. SameSource(d, e) /\ e.view = x BY <1>3, OneFieldAside
<1> HIDE DEF e
<1>6. SameStream(d, e) BY <1>5 DEF SameSource, SameStream
<1>7. ViewOf(e) = ViewOf(d) BY <1>6, SameIsShown
<1>8. ScanHolds(e) BY <1>5, HoldsAside
<1> QED BY <1>2, <1>4, <1>5, <1>7, <1>8 DEF ViewHolds, e, x

\* Where no filter is set and no run picked, there is nothing to apply.
LEMMA ShownOrWhole ==
  ASSUME NEW d, ScanHolds(d), d.view = Identity
  PROVE  ViewHolds(IF Restricts(d) THEN ApplyFilters(d) ELSE d)
<1>1. Restricts(d) => ViewHolds(ApplyFilters(d)) BY AppliedHolds
<1>2. ~Restricts(d) => ViewHolds(d) BY DEF ViewHolds, ViewOf
<1> QED BY <1>1, <1>2

\* The record whose last line is still being written is the last one, and only when that line is.
LEMMA ScanTold ==
  ASSUME NEW d, ScanHolds(d)
  PROVE  d.records = Scan(d.seen, d.records = <<>> \/ Half(d) = {}, 1)
<1>1. PICK c \in BOOLEAN : d.records = Scan(d.seen, c, 1) BY DEF ScanHolds
<1>2. d.seen \in Seq(Lines) BY DEF ScanHolds
<1>3. CASE d.records = <<>>
  <2>1. d.seen = <<>>
    <3>1. 1 \in 1 .. Len(d.seen) + 1 /\ Len(d.seen) \in Nat BY <1>2
    <3>2. 1 <= Len(d.seen) => Len(Scan(d.seen, c, 1)) >= 1 BY <1>2, <3>1, ScanFinds
    <3>3. Len(d.seen) = 0 BY <1>1, <1>3, <3>1, <3>2
    <3> QED BY <1>2, <3>3
  <2>2. Scan(d.seen, TRUE, 1) = <<>>
    <3>1. 1 \in 1 .. Len(d.seen) + 1 /\ 1 > Len(d.seen) BY <2>1
    <3>2. \A b \in BOOLEAN : Scan(d.seen, b, 1) = <<>> BY <1>2, <3>1, ScanFinds
    <3> QED BY <3>2
  <2>3. (d.records = <<>> \/ Half(d) = {}) = TRUE BY <1>3
  <2> QED BY <1>3, <2>2, <2>3
<1>4. CASE d.records # <<>>
  <2> DEFINE n == Len(d.records)
  <2>1. ReadFrom(d.seen, d.seen)
    <3>1. \A k \in 1 .. Len(d.seen) : Glimpsed(d.seen[k], d.seen[k]) BY <1>2 DEF Glimpsed
    <3> QED BY <1>2, <3>1 DEF ReadFrom
  <2>2. d.records[n].shut = c /\ \A i \in 1 .. n - 1 : d.records[i].shut
    <3> DEFINE lines == d.seen
               recs == d.records
    <3>1. lines \in Seq(Lines) /\ ReadFrom(lines, lines) /\ recs = Scan(lines, c, 1) /\ recs # <<>>
      BY <1>1, <1>2, <1>4, <2>1
    <3> HIDE DEF lines, recs
    <3>2. recs[Len(recs)].shut = c /\ \A i \in 1 .. Len(recs) - 1 : recs[i].shut
      <4>1. Splits(recs, lines, lines, c, c, recs[Len(recs)].from) BY <3>1, ScanSplits
      <4> QED BY <4>1 DEF Splits
    <3> QED BY <3>2 DEF recs
  <2>3. n \in Nat /\ n # 0
    <3>1. 1 \in 1 .. Len(d.seen) + 1 BY <1>2
    <3>2. d.records \in Seq(RecordRecs) BY <1>1, <1>2, <3>1, ScanFinds
    <3> QED BY <1>4, <3>2
  <2> HIDE DEF n
  <2>4. (Half(d) = {}) = c
    <3>1. Half(d) = {i \in 1 .. n : ~d.records[i].shut} BY DEF Half, n
    <3>2. CASE c = TRUE
      <4>1. \A i \in 1 .. n : d.records[i].shut
        <5>1. \A i \in 1 .. n : i = n \/ i \in 1 .. n - 1 BY <2>3
        <5>2. d.records[n].shut BY <2>2, <3>2
        <5> QED BY <2>2, <5>1, <5>2
      <4> QED BY <3>1, <3>2, <4>1
    <3>3. CASE c = FALSE
      <4>1. n \in Half(d) BY <2>2, <2>3, <3>1, <3>3
      <4> QED BY <3>3, <4>1
    <3> QED BY <3>2, <3>3
  <2>5. (d.records = <<>> \/ Half(d) = {}) = c BY <1>4, <2>4
  <2> QED BY <1>1, <2>5
<1> QED BY <1>3, <1>4

\* The runs that are there stay where they are, and one that is begun is begun further down.
LEMMA RunsStand ==
  ASSUME NEW d, IndexHolds(d), NEW old \in Seq(RunRecs), old # <<>>, NEW n \in 0 .. Len(d.records)
  PROVE  LET runs == WithRuns(d, old, n + 1)
         IN /\ Len(runs) \in Nat /\ Len(runs) >= Len(old)
            /\ \A k \in 1 .. Len(old) : runs[k] = old[k]
            /\ Len(runs) > Len(old) =>
                 \E i \in (n + 1) .. Len(d.records) : runs[Len(old) + 1].from = d.records[i].from
<1> DEFINE S == {i \in (n + 1) .. Len(d.records) : IsMarker(d, i)}
           at == InOrder(S)
           m == Cardinality(S)
           begun == [k \in 1 .. Len(at) |-> Run(d, at[k], FALSE)]
           runs == WithRuns(d, old, n + 1)
<1>1. S \in SUBSET Nat /\ IsFiniteSet(S)
  <2>1. S \in SUBSET ((n + 1) .. Len(d.records)) /\ (n + 1) .. Len(d.records) \in SUBSET Nat
    BY DEF IndexHolds
  <2>2. IsFiniteSet((n + 1) .. Len(d.records)) BY FS_Interval DEF IndexHolds
  <2> HIDE DEF S
  <2> QED BY <2>1, <2>2, FS_Subset
<1>2. m \in Nat /\ at \in [1 .. m -> S]
  <2> HIDE DEF S
  <2> QED BY <1>1, InOrderLists
<1>3. \A x \in S : x \in (n + 1) .. Len(d.records) OBVIOUS
<1>4. runs = IF at = <<>> THEN old ELSE old \o begun BY DEF WithRuns
<1> HIDE DEF S, at, m, runs
<1>5. Len(at) = m /\ \A k \in 1 .. m : at[k] \in (n + 1) .. Len(d.records) BY <1>2, <1>3
<1>6. \A x \in 1 .. Len(d.records) :
        Run(d, x, FALSE) \in RunRecs /\ Run(d, x, FALSE).from = d.records[x].from
  BY DEF Run, RunRecs, IndexHolds
<1>7. Len(d.records) \in Nat /\ n \in Nat BY DEF IndexHolds
<1>8. begun \in Seq(RunRecs) /\ Len(begun) = m
      /\ \A k \in 1 .. m : begun[k].from = d.records[at[k]].from
  <2>1. \A k \in 1 .. m : at[k] \in 1 .. Len(d.records) BY <1>5, <1>7
  <2>2. \A k \in 1 .. m : Run(d, at[k], FALSE) \in RunRecs
                          /\ Run(d, at[k], FALSE).from = d.records[at[k]].from
    BY <1>6, <2>1
  <2>3. begun \in [1 .. m -> RunRecs] /\ \A k \in 1 .. m : begun[k].from = d.records[at[k]].from
    BY <1>5, <2>2
  <2> HIDE DEF begun
  <2> QED BY <1>2, <2>3
<1> HIDE DEF begun
<1>9. CASE at = <<>>
  <2>1. runs = old BY <1>4, <1>9
  <2> QED BY <2>1 DEF runs
<1>10. CASE at # <<>>
  <2>1. m >= 1 BY <1>2, <1>5, <1>10
  <2>2. \A a, b \in Seq(RunRecs) : /\ Len(a \o b) = Len(a) + Len(b)
                                   /\ \A i \in 1 .. Len(a) : (a \o b)[i] = a[i]
                                   /\ \A i \in 1 .. Len(b) : (a \o b)[Len(a) + i] = b[i]
    BY EndToEnd
  <2>3. /\ Len(runs) = Len(old) + m
        /\ \A i \in 1 .. Len(old) : runs[i] = old[i]
        /\ \A i \in 1 .. m : runs[Len(old) + i] = begun[i]
    <3>1. /\ Len(old \o begun) = Len(old) + Len(begun)
          /\ \A i \in 1 .. Len(old) : (old \o begun)[i] = old[i]
          /\ \A i \in 1 .. Len(begun) : (old \o begun)[Len(old) + i] = begun[i]
      BY <1>8, <2>2
    <3>2. runs = old \o begun BY <1>4, <1>10
    <3> QED BY <1>8, <3>1, <3>2
  <2>4. 1 \in 1 .. m /\ Len(old) \in Nat BY <1>2, <2>1
  <2>5. runs[Len(old) + 1].from = d.records[at[1]].from BY <1>8, <2>3, <2>4
  <2> QED BY <1>2, <1>5, <2>1, <2>3, <2>4, <2>5 DEF runs
<1> QED BY <1>9, <1>10

\* A record that stays where it is stays inside the bound of the view, or outside, whichever
\* runs are begun below it.
LEMMA BoundStands ==
  ASSUME NEW d, NEW g, Bounded(d, g), NEW x, IndexHolds(x), Len(x.seen) <= MaxLines,
         Len(d.records) <= Len(x.records),
         NEW e, e.records = x.records,
         e.bound = BoundOf(WithRuns(x, d.runs, Len(d.records) + 1), d.selected)
  PROVE  /\ e.bound.on = d.bound.on
         /\ \A i \in 1 .. Len(d.records) :
              e.records[i].from = d.records[i].from => (InRunBound(e, i) <=> InRunBound(d, i))
<1> DEFINE n == Len(d.records)
           old == d.runs
           s == d.selected
           runs == WithRuns(x, old, n + 1)
           to == IF s < Len(runs) THEN runs[s + 1].from ELSE MaxLines + 1
<1>1. /\ old \in Seq(RunRecs) /\ s \in 0 .. Len(old) /\ d.bound = BoundOf(old, s)
      /\ d.records \in Seq(RecordRecs) /\ n \in Nat
  BY DEF Bounded, RunsTell, IndexHolds
<1>2. x.records \in Seq(RecordRecs) /\ n \in 0 .. Len(x.records) /\ Len(x.records) \in Nat
  BY <1>1 DEF IndexHolds
<1>3. e.bound = BoundOf(runs, s) OBVIOUS
<1>4. CASE s = 0
  <2>1. e.bound = Unbounded /\ d.bound = Unbounded BY <1>1, <1>3, <1>4 DEF BoundOf
  <2> QED BY <2>1 DEF Unbounded, InRunBound
<1>5. CASE s # 0
  <2>1. old # <<>> /\ s \in 1 .. Len(old) /\ Len(old) \in Nat BY <1>1, <1>5
  <2>2. /\ Len(runs) \in Nat /\ Len(runs) >= Len(old)
        /\ \A k \in 1 .. Len(old) : runs[k] = old[k]
        /\ Len(runs) > Len(old) =>
             \E i \in (n + 1) .. Len(x.records) : runs[Len(old) + 1].from = x.records[i].from
    <3> HIDE DEF n, old
    <3>1. old \in Seq(RunRecs) /\ old # <<>> /\ n \in 0 .. Len(x.records)
      BY <1>1, <1>2, <2>1
    <3>2. Len(runs) \in Nat /\ Len(runs) >= Len(old) BY <3>1, RunsStand
    <3>3. \A k \in 1 .. Len(old) : runs[k] = old[k] BY <3>1, RunsStand
    <3>4. Len(runs) > Len(old) =>
            \E i \in (n + 1) .. Len(x.records) : runs[Len(old) + 1].from = x.records[i].from
      BY <3>1, RunsStand
    <3> QED BY <3>2, <3>3, <3>4
  <2> HIDE DEF runs, n, old, s
  <2>3. e.bound = [on |-> TRUE, from |-> old[s].from, to |-> to]
    <3>1. ~(s = 0 \/ s > Len(runs)) /\ runs[s] = old[s] BY <1>5, <2>1, <2>2
    <3> QED BY <1>3, <3>1 DEF BoundOf
  <2>4. d.bound = [on |-> TRUE, from |-> old[s].from,
                   to |-> IF s < Len(old) THEN old[s + 1].from ELSE MaxLines + 1]
    <3>1. ~(s = 0 \/ s > Len(old)) BY <1>5, <2>1
    <3> QED BY <1>1, <3>1 DEF BoundOf
  <2>5. ASSUME NEW i \in 1 .. n, e.records[i].from = d.records[i].from
        PROVE  InRunBound(e, i) <=> InRunBound(d, i)
    <3>1. CASE s < Len(old)
      <4>1. s + 1 \in 1 .. Len(old) /\ s < Len(runs) BY <2>1, <2>2, <3>1
      <4>2. to = old[s + 1].from BY <2>2, <4>1
      <4>3. e.bound = d.bound BY <2>3, <2>4, <3>1, <4>2
      <4> QED BY <2>5, <4>3 DEF InRunBound
    <3>2. CASE ~(s < Len(old))
      <4>1. s = Len(old) BY <2>1, <3>2
      <4>2. d.records[i].from \in Nat /\ i \in 1 .. Len(x.records)
        <5>1. i \in 1 .. Len(d.records) BY DEF n
        <5>2. d.records[i] \in RecordRecs /\ i \in 1 .. Len(x.records)
          BY <1>1, <1>2, <5>1 DEF n
        <5> QED BY <5>2 DEF RecordRecs
      <4>3. d.records[i].from < MaxLines + 1
        <5>1. x.records[i].from \in 1 .. Len(x.seen) /\ Len(x.seen) \in Nat
          BY <4>2 DEF IndexHolds
        <5>2. MaxLines \in Nat BY RecordViewAssumption
        <5> QED BY <2>5, <5>1, <5>2
      <4>4. d.records[i].from < to
        <5>1. CASE s < Len(runs)
          <6>1. PICK j \in (n + 1) .. Len(x.records) : runs[Len(old) + 1].from = x.records[j].from
            BY <2>2, <4>1, <5>1
          <6>2. i < j /\ j \in 1 .. Len(x.records) BY <1>1, <1>2, <6>1
          <6>3. x.records[i].from < x.records[j].from BY <4>2, <6>2 DEF IndexHolds
          <6> QED BY <2>5, <4>1, <5>1, <6>1, <6>3
        <5>2. CASE ~(s < Len(runs)) BY <4>3, <5>2
        <5> QED BY <5>1, <5>2
      <4> HIDE DEF to
      <4>5. d.bound.on /\ d.bound.from = old[s].from /\ d.bound.to = MaxLines + 1
        BY <2>4, <3>2
      <4>6. e.bound.on /\ e.bound.from = old[s].from /\ e.bound.to = to BY <2>3
      <4> QED BY <2>5, <4>3, <4>4, <4>5, <4>6 DEF InRunBound
    <3> QED BY <3>1, <3>2
  <2>6. e.bound.on = TRUE /\ d.bound.on = TRUE BY <2>3, <2>4
  <2> QED BY <2>5, <2>6 DEF n
<1> QED BY <1>4, <1>5

\* What a scan of the lines finds, the records numbered.
LEMMA ScanLists ==
  ASSUME NEW lines \in Seq(Lines), NEW closed \in BOOLEAN
  PROVE  LET r == Scan(lines, closed, 1)
         IN /\ r \in Seq(RecordRecs) /\ Len(r) \in Nat
            /\ \A i \in 1 .. Len(r) : r[i].from \in 1 .. Len(lines) /\ r[i].len \in Int
<1>1. 1 \in 1 .. Len(lines) + 1 OBVIOUS
<1>2. LET r == Scan(lines, closed, 1)
      IN r \in Seq(RecordRecs) /\ \A i \in 1 .. Len(r) : r[i].from \in 1 .. Len(lines)
  BY <1>1, ScanFinds
<1> DEFINE r == Scan(lines, closed, 1)
<1>3. \A i \in 1 .. Len(r) : r[i] \in RecordRecs BY <1>2
<1> QED BY <1>2, <1>3 DEF RecordRecs

\* The records that are as they were once the tail has been read again, and their lines.
Stands(d, recs, lines, i) ==
  /\ recs[i] = d.records[i]
  /\ \A k \in d.records[i].from .. (d.records[i].from + d.records[i].len - 1) :
       lines[k] = d.seen[k]

\* The tail that is read again: what is found is what a scan from the top would find, and every
\* record but the one that was noticed to change is the one it was.
LEMMA TailReadAgain ==
  ASSUME NEW d, ScanHolds(d), NEW lines \in Seq(Lines), ReadFrom(d.seen, lines),
         NEW closed \in BOOLEAN
  PROVE  LET n       == Len(d.records)
             changed == ProvisionalChanged(d, lines, closed)
             recs    == SubSeq(d.records, 1, n - 1) \o Scan(lines, closed, TailStart(d))
         IN /\ recs = Scan(lines, closed, 1) /\ n \in Nat /\ n <= Len(recs)
            /\ changed \in BOOLEAN /\ (changed => n > 0)
            /\ \A i \in 1 .. Stood(d, changed) : Stands(d, recs, lines, i)
            /\ \A i \in 1 .. n : recs[i].from = d.records[i].from
<1> DEFINE n == Len(d.records)
           changed == ProvisionalChanged(d, lines, closed)
           from == TailStart(d)
           head == SubSeq(d.records, 1, n - 1)
           tail == Scan(lines, closed, from)
           recs == head \o tail
           top == Scan(lines, closed, 1)
           Goal == /\ recs = top /\ n \in Nat /\ n <= Len(recs)
                   /\ changed \in BOOLEAN /\ (changed => n > 0)
                   /\ \A i \in 1 .. Stood(d, changed) : Stands(d, recs, lines, i)
                   /\ \A i \in 1 .. n : recs[i].from = d.records[i].from
<1>1. PICK c \in BOOLEAN : d.records = Scan(d.seen, c, 1) BY DEF ScanHolds
<1>2. d.seen \in Seq(Lines) /\ Len(d.seen) \in Nat /\ Len(lines) \in Nat
      /\ Len(d.seen) <= Len(lines)
  BY DEF ScanHolds, ReadFrom
<1>3. /\ d.records \in Seq(RecordRecs) /\ n \in Nat
      /\ \A i \in 1 .. n : d.records[i].from \in 1 .. Len(d.seen) /\ d.records[i].len \in Int
  BY <1>1, <1>2, ScanLists
<1>4. top \in Seq(RecordRecs) BY ScanLists
<1>5. changed \in BOOLEAN /\ (changed => d.records # <<>>) BY DEF ProvisionalChanged
<1>6. CASE d.records = <<>>
  <2>1. n = 0 /\ from = 1 /\ head = <<>> /\ changed = FALSE BY <1>5, <1>6 DEF TailStart
  <2> HIDE DEF n, changed, from, head
  <2>2. recs = top
    <3>1. recs = <<>> \o top BY <2>1
    <3> HIDE DEF top, recs
    <3> QED BY <1>4, <3>1
  <2>3. Stood(d, changed) = 0 BY <2>1 DEF Stood, n
  <2>4. Len(recs) \in Nat BY <1>4, <2>2
  <2>5. Goal BY <1>5, <2>1, <2>2, <2>3, <2>4
  <2> QED BY <2>5 DEF n, changed, from, head
<1>7. CASE d.records # <<>>
  <2>1. n \in Nat /\ n >= 1 /\ from = d.records[n].from BY <1>3, <1>7 DEF TailStart
  <2>2. /\ from \in 1 .. Len(d.seen) /\ recs = top
        /\ from + d.records[n].len = Len(d.seen) + 1
        /\ \A i \in 1 .. n - 1 : d.records[i].from + d.records[i].len <= from
    <3> DEFINE was == d.records
               seen == d.seen
               at == was[Len(was)].from
    <3>1. seen \in Seq(Lines) /\ ReadFrom(seen, lines) /\ was = Scan(seen, c, 1) /\ was # <<>>
      BY <1>1, <1>2, <1>7
    <3>2. from = at BY <2>1
    <3> HIDE DEF was, seen
    <3>3. /\ at \in 1 .. Len(seen)
          /\ SubSeq(was, 1, Len(was) - 1) \o Scan(lines, closed, at) = Scan(lines, closed, 1)
          /\ at + was[Len(was)].len = Len(seen) + 1
          /\ \A i \in 1 .. Len(was) - 1 : was[i].from + was[i].len <= at
      <4>1. Splits(was, seen, lines, c, closed, at) BY <3>1, ScanSplits
      <4> HIDE DEF at
      <4> QED BY <4>1 DEF Splits
    <3> QED BY <3>2, <3>3 DEF was, seen
  <2>3. tail \in Seq(RecordRecs) /\ Len(tail) >= 1 /\ tail[1].from = from
    <3>1. from \in 1 .. Len(lines) + 1 /\ from <= Len(lines) BY <1>2, <2>2
    <3> HIDE DEF from
    <3> QED BY <3>1, ScanFinds
  <2>4. head \in Seq(RecordRecs) /\ Len(head) = n - 1 /\ \A i \in 1 .. n - 1 : head[i] = d.records[i]
    BY <1>3, <2>1
  <2> HIDE DEF head, tail, from, changed, top, n
  <2>5. /\ Len(recs) = Len(head) + Len(tail)
        /\ \A i \in 1 .. Len(head) : recs[i] = head[i]
        /\ \A i \in 1 .. Len(tail) : recs[Len(head) + i] = tail[i]
    <3>1. \A a, b \in Seq(RecordRecs) : /\ Len(a \o b) = Len(a) + Len(b)
                                        /\ \A i \in 1 .. Len(a) : (a \o b)[i] = a[i]
                                        /\ \A i \in 1 .. Len(b) : (a \o b)[Len(a) + i] = b[i]
      BY EndToEnd
    <3> QED BY <2>3, <2>4, <3>1
  <2> HIDE DEF recs
  <2>6. \A i \in 1 .. n - 1 : recs[i] = d.records[i] BY <2>4, <2>5
  <2>7. recs[n] = tail[1] /\ n <= Len(recs)
    <3>1. 1 \in 1 .. Len(tail) /\ Len(tail) \in Nat BY <2>3
    <3>2. Len(head) + 1 = n BY <2>1, <2>4
    <3> QED BY <2>1, <2>3, <2>4, <2>5, <3>1, <3>2
  <2>8. ~changed => /\ tail[1] = d.records[n]
                    /\ SubSeq(lines, from, Len(d.seen)) = SubSeq(d.seen, from, Len(d.seen))
    BY <1>7 DEF changed, ProvisionalChanged, tail, from, n
  <2>9. ASSUME NEW i \in 1 .. n - 1 PROVE Stands(d, recs, lines, i)
    <3>1. i \in 1 .. n /\ recs[i] = d.records[i] BY <2>1, <2>6
    <3> DEFINE f == d.records[i].from
               l == d.records[i].len
    <3>2. f \in 1 .. Len(d.seen) /\ l \in Int /\ f + l <= from BY <1>3, <2>2, <3>1 DEF n
    <3> HIDE DEF f, l
    <3>3. \A k \in f .. (f + l - 1) : k \in 1 .. Len(d.seen) /\ k < Len(d.seen)
      BY <1>2, <2>2, <3>2
    <3>4. \A k \in f .. (f + l - 1) : lines[k] = d.seen[k] BY <3>3 DEF ReadFrom
    <3> QED BY <3>1, <3>4 DEF Stands, f, l
  <2>10. ASSUME ~changed PROVE Stands(d, recs, lines, n)
    <3>1. recs[n] = d.records[n] BY <2>7, <2>8, <2>10
    <3> DEFINE seen == d.seen
               N == Len(d.seen)
    <3>2. SubSeq(lines, from, N) = SubSeq(seen, from, N) BY <2>8, <2>10
    <3>3. seen \in Seq(Lines) /\ N = Len(seen) /\ N \in Nat /\ N <= Len(lines) /\ from \in 1 .. N
      BY <1>2, <2>2
    <3> HIDE DEF seen, N
    <3>4. \A k \in from .. N : /\ SubSeq(lines, from, N)[k - from + 1] = lines[k]
                               /\ SubSeq(seen, from, N)[k - from + 1] = seen[k]
      <4> SUFFICES ASSUME NEW k \in from .. N
                   PROVE  /\ SubSeq(lines, from, N)[k - from + 1] = lines[k]
                          /\ SubSeq(seen, from, N)[k - from + 1] = seen[k]
        OBVIOUS
      <4>1. k - from + 1 \in 1 .. (N - from + 1) /\ (k - from + 1) + from - 1 = k BY <3>3
      <4> QED BY <3>3, <4>1
    <3>5. \A k \in from .. N : lines[k] = seen[k] BY <3>2, <3>4
    <3>6. d.records[n].from = from /\ from + d.records[n].len - 1 = N
      <4>1. d.records[n].len \in Int BY <1>3, <2>1 DEF n
      <4> DEFINE l == d.records[n].len
      <4>2. l \in Int /\ from \in Int /\ N \in Int /\ from + l = N + 1
        BY <2>2, <3>3, <4>1 DEF N
      <4> HIDE DEF l
      <4>3. from + l - 1 = N BY <4>2
      <4> QED BY <2>1, <4>3 DEF l
    <3> QED BY <3>1, <3>5, <3>6 DEF Stands, seen
  <2>11. ASSUME NEW i \in 1 .. Stood(d, changed) PROVE Stands(d, recs, lines, i)
    <3>1. CASE changed
      <4>1. i \in 1 .. n - 1 BY <2>1, <2>11, <3>1 DEF Stood, n
      <4> QED BY <2>9, <4>1
    <3>2. CASE ~changed
      <4>1. i \in 1 .. n BY <2>11, <3>2 DEF Stood, n
      <4>2. i = n \/ i \in 1 .. n - 1 BY <2>1, <4>1
      <4> QED BY <2>9, <2>10, <3>2, <4>2
    <3> QED BY <1>5, <3>1, <3>2
  <2>12. \A i \in 1 .. n : recs[i].from = d.records[i].from
    <3>1. \A i \in 1 .. n : i = n \/ i \in 1 .. n - 1 BY <2>1
    <3> QED BY <2>1, <2>3, <2>6, <2>7, <3>1
  <2>13. Goal BY <1>5, <2>1, <2>2, <2>7, <2>11, <2>12
  <2> QED BY <2>13 DEF n, changed, from, head, tail, recs, top
<1> QED BY <1>6, <1>7

\* The records that stand are admitted and matched as they were.
LEMMA StreamGoesOn ==
  ASSUME NEW d, NEW g, Bounded(d, g), ScanHolds(d), NEW lines \in Seq(Lines),
         Len(lines) <= MaxLines, ReadFrom(d.seen, lines), NEW closed \in BOOLEAN,
         NEW x, Reindexed(d, x, lines, closed), IndexHolds(x),
         NEW e, e.seen = lines, e.records = x.records, e.filter = d.filter,
         e.bound = BoundOf(WithRuns(x, d.runs, Len(d.records) + 1), d.selected)
  PROVE  /\ Grows(d, e, ProvisionalChanged(d, lines, closed))
         /\ Restricts(e) <=> Restricts(d)
<1> DEFINE n == Len(d.records)
           changed == ProvisionalChanged(d, lines, closed)
           recs == SubSeq(d.records, 1, n - 1) \o Scan(lines, closed, TailStart(d))
           m == Stood(d, changed)
<1>1. e.records = recs /\ x.records = recs /\ x.seen = lines BY DEF Reindexed
<1>2. /\ n \in Nat /\ n <= Len(recs) /\ changed \in BOOLEAN /\ (changed => n > 0)
      /\ \A i \in 1 .. m : Stands(d, recs, lines, i)
      /\ \A i \in 1 .. n : recs[i].from = d.records[i].from
  BY TailReadAgain
<1> HIDE DEF n, changed, recs
<1>3. d.records \in Seq(RecordRecs) /\ recs \in Seq(RecordRecs) /\ Len(recs) \in Nat
  BY <1>1 DEF Bounded, IndexHolds
<1>4. m \in Int /\ m <= n /\ \A i \in 1 .. m : i \in 1 .. n /\ i \in 1 .. Len(recs)
  <2>1. m = n - 1 \/ m = n BY DEF Stood, n
  <2> HIDE DEF m
  <2> QED BY <1>2, <1>3, <2>1
<1> HIDE DEF m
<1>5. /\ e.bound.on = d.bound.on
      /\ \A i \in 1 .. n : InRunBound(e, i) <=> InRunBound(d, i)
  <2>1. Len(x.seen) <= MaxLines /\ Len(d.records) <= Len(x.records) BY <1>1, <1>2 DEF n
  <2>2. /\ e.bound.on = d.bound.on
        /\ \A i \in 1 .. Len(d.records) :
              e.records[i].from = d.records[i].from => (InRunBound(e, i) <=> InRunBound(d, i))
    BY <2>1, BoundStands
  <2> QED BY <1>1, <1>2, <2>2 DEF n
<1>6. ASSUME NEW i \in 1 .. m
      PROVE  /\ InContextStream(e, i) <=> InContextStream(d, i)
             /\ MatchesTextAxis(e, i) <=> MatchesTextAxis(d, i)
             /\ e.records[i] = d.records[i]
  <2>1. /\ e.records[i] = d.records[i] /\ i \in 1 .. n
        /\ \A k \in d.records[i].from .. (d.records[i].from + d.records[i].len - 1) :
             e.seen[k] = d.seen[k]
    BY <1>1, <1>2, <1>4 DEF Stands
  <2>2. InContextStream(e, i) <=> InContextStream(d, i) BY <1>5, <2>1 DEF InContextStream
  <2>3. HasHit(e, i) = HasHit(d, i) BY <2>1 DEF HasHit
  <2>4. MatchesTextAxis(e, i) <=> MatchesTextAxis(d, i) BY <2>3 DEF MatchesTextAxis
  <2> QED BY <2>1, <2>2, <2>4
<1>7. /\ \A i : i \in Admitted(d) <=> i \in 1 .. n /\ InContextStream(d, i)
      /\ \A i : i \in Admitted(e) <=> i \in 1 .. Len(recs) /\ InContextStream(e, i)
  BY <1>1 DEF Admitted, n
<1>8. /\ \A i : i \in Matching(d) <=> i \in Admitted(d) /\ MatchesTextAxis(d, i)
      /\ \A i : i \in Matching(e) <=> i \in Admitted(e) /\ MatchesTextAxis(e, i)
  BY DEF Matching
<1>9. ASSUME NEW i \in Nat, i <= m
      PROVE  (i \in Admitted(d) <=> i \in Admitted(e)) /\ (i \in Matching(d) <=> i \in Matching(e))
  <2>1. CASE i = 0
    <3>1. i \notin 1 .. n /\ i \notin 1 .. Len(recs) BY <1>2, <1>3, <2>1
    <3> QED BY <1>7, <1>8, <3>1
  <2>2. CASE i # 0
    <3>1. i \in 1 .. m BY <1>4, <1>9, <2>2
    <3>2. i \in 1 .. n /\ i \in 1 .. Len(recs) BY <1>4, <3>1
    <3> QED BY <1>6, <1>7, <1>8, <3>1, <3>2
  <2> QED BY <2>1, <2>2
<1>10. Grows(d, e, changed)
  <2>1. Alike(Admitted(d), Admitted(e), m) /\ Alike(Matching(d), Matching(e), m)
    BY <1>9 DEF Alike
  <2>2. \A i \in 1 .. m : e.records[i] = d.records[i] BY <1>6
  <2> QED BY <1>1, <1>2, <1>3, <2>1, <2>2 DEF Grows, m, n
<1>11. Restricts(e) <=> Restricts(d) BY <1>5 DEF Restricts
<1> QED BY <1>10, <1>11 DEF changed

\* The sums gone on with after the tail was read again.
LEMMA SumsGoOn ==
  ASSUME NEW d, ScanHolds(d), NEW lines \in Seq(Lines), ReadFrom(d.seen, lines),
         NEW closed \in BOOLEAN
  PROVE  LET n       == Len(d.records)
             changed == ProvisionalChanged(d, lines, closed)
             recs    == SubSeq(d.records, 1, n - 1) \o Scan(lines, closed, TailStart(d))
         IN (IF ~changed /\ Len(recs) = n THEN d.sums
             ELSE ExtendedSums(d.sums, recs, IF changed THEN n - 1 ELSE n)) = RebuiltSums(recs)
<1> DEFINE n == Len(d.records)
           changed == ProvisionalChanged(d, lines, closed)
           recs == SubSeq(d.records, 1, n - 1) \o Scan(lines, closed, TailStart(d))
           m == Stood(d, changed)
<1>1. /\ recs = Scan(lines, closed, 1) /\ n \in Nat /\ n <= Len(recs)
      /\ changed \in BOOLEAN /\ (changed => n > 0)
      /\ \A i \in 1 .. m : Stands(d, recs, lines, i)
  BY TailReadAgain
<1>2. recs \in Seq(RecordRecs) /\ d.records \in Seq(RecordRecs) /\ d.sums = RebuiltSums(d.records)
  <2>1. recs \in Seq(RecordRecs) BY <1>1, ScanLists
  <2>2. d.records \in Seq(RecordRecs) BY ScanLists DEF ScanHolds
  <2> QED BY <2>1, <2>2 DEF ScanHolds
<1>3. m = (IF changed THEN n - 1 ELSE n) BY DEF Stood
<1> HIDE DEF changed, recs, m
<1>4. m \in Nat /\ m <= n /\ \A i \in 1 .. m : recs[i] = d.records[i]
  <2>1. \A i \in 1 .. m : recs[i] = d.records[i] BY <1>1 DEF Stands
  <2> QED BY <1>1, <1>3, <2>1
<1>5. CASE ~changed /\ Len(recs) = n
  <2>1. recs = d.records BY <1>2, <1>3, <1>4, <1>5
  <2> QED BY <1>2, <1>5, <2>1 DEF recs, changed
<1>6. CASE ~(~changed /\ Len(recs) = n)
  <2>1. m <= Len(d.records) /\ m <= Len(recs) BY <1>1, <1>4
  <2>2. ExtendedSums(RebuiltSums(d.records), recs, m) = RebuiltSums(recs)
    BY <1>2, <1>4, <2>1, SumsExtended
  <2>3. ExtendedSums(d.sums, recs, IF changed THEN n - 1 ELSE n) = RebuiltSums(recs)
    BY <1>2, <1>3, <2>2
  <2> QED BY <1>6, <2>3 DEF recs, changed
<1> QED BY <1>5, <1>6

\* A tick leaves the view of a search from the top.
LEMMA TickShows ==
  ASSUME NEW d, NEW g, Truthful(d, g), ViewHolds(d), NEW lines \in Seq(Lines),
         Len(lines) <= MaxLines, ReadFrom(d.seen, lines), NEW closed \in BOOLEAN
  PROVE  ViewHolds(FoldStats(FollowLastRunIfMoved(IngestAppended(d, lines, closed))))
<1> DEFINE n == Len(d.records)
           recs == SubSeq(d.records, 1, n - 1) \o Scan(lines, closed, TailStart(d))
           changed == ProvisionalChanged(d, lines, closed)
           indexed == [d EXCEPT !.seen = lines, !.records = recs,
                        !.sums = IF ~changed /\ Len(recs) = n THEN @
                                 ELSE ExtendedSums(@, recs, IF changed THEN n - 1 ELSE n)]
           runs == WithRuns(indexed, indexed.runs, n + 1)
           split == UpdateRunsAfterAppend(indexed, n)
           shown == IF d.view.active THEN ExtendView(split, n, changed) ELSE split
           ingested == IngestAppended(d, lines, closed)
           moved == FollowLastRunIfMoved(ingested)
           h == g \cup {n}
<1>1. /\ Bounded(d, g) /\ IndexHolds(d) /\ RunsTell(d, d.runs, g, n) /\ DOMAIN d = Fields
      /\ ScanHolds(d) /\ d.view = ViewOf(d)
  BY DEF Truthful, Chosen, Bounded, IndexHolds, ViewHolds
<1>2. ingested = UpdateDigestAfterAppend(shown, n, changed, n) BY DEF IngestAppended
<1>3. /\ DOMAIN indexed = Fields /\ indexed.seen = lines /\ indexed.runs = d.runs
      /\ indexed.records = recs /\ indexed.selected = d.selected
      /\ indexed.bound = d.bound /\ indexed.filter = d.filter /\ indexed.view = d.view
      /\ indexed.sums = RebuiltSums(recs)
  <2> DEFINE sums == IF ~changed /\ Len(recs) = n THEN d.sums
                     ELSE ExtendedSums(d.sums, recs, IF changed THEN n - 1 ELSE n)
  <2>1. sums = RebuiltSums(recs) BY <1>1, SumsGoOn
  <2>2. indexed = [d EXCEPT !.seen = lines, !.records = recs, !.sums = sums] OBVIOUS
  <2> HIDE DEF sums, recs, indexed
  <2> QED BY <1>1, <2>1, <2>2 DEF Fields
<1>4. /\ recs = Scan(lines, closed, 1) /\ recs \in Seq(RecordRecs)
  <2>1. recs = Scan(lines, closed, 1) BY <1>1, TailReadAgain
  <2> QED BY <2>1, ScanLists
<1> HIDE DEF changed, recs, indexed
<1>5. Reindexed(d, indexed, lines, closed) BY <1>3 DEF Reindexed, recs
<1>6. IndexHolds(indexed)
  <2>1. Appends(d, indexed, lines, closed, g, h) BY <1>1, <1>5 DEF Appends
  <2> HIDE DEF h
  <2> QED BY <2>1, IndexGoesOn
<1>7. split = IF runs = indexed.runs THEN indexed
              ELSE RecomputeViewBounds([indexed EXCEPT !.runs = runs])
  BY DEF UpdateRunsAfterAppend
<1> HIDE DEF runs, split
<1>8. /\ DOMAIN split = Fields /\ split.seen = lines /\ split.records = recs
      /\ split.bound = BoundOf(runs, d.selected) /\ split.filter = d.filter
      /\ split.view = d.view /\ split.sums = RebuiltSums(recs)
  <2>1. CASE runs = indexed.runs BY <1>3, <1>7, <2>1 DEF Truthful, Chosen, Bounded
  <2>2. CASE runs # indexed.runs
    <3> DEFINE x == [indexed EXCEPT !.runs = runs]
    <3>1. /\ DOMAIN x = Fields /\ x.seen = lines /\ x.records = recs
          /\ x.runs = runs /\ x.selected = d.selected /\ x.filter = d.filter
          /\ x.view = d.view /\ x.sums = RebuiltSums(recs)
      BY <1>3 DEF Fields
    <3>2. split = RecomputeViewBounds(x) BY <1>7, <2>2
    <3> HIDE DEF x
    <3>3. split.bound = BoundOf(x.runs, x.selected) BY <3>1, <3>2, BoundIsRecomputed
    <3> QED BY <3>1, <3>2, <3>3, BoundAside
  <2> QED BY <2>1, <2>2
<1>9. Grows(d, split, changed) /\ (Restricts(split) <=> Restricts(d))
  <2>1. runs = WithRuns(indexed, d.runs, Len(d.records) + 1) BY <1>3 DEF runs
  <2>2. split.records = indexed.records
      /\ split.bound = BoundOf(WithRuns(indexed, d.runs, Len(d.records) + 1), d.selected)
    BY <1>3, <1>8, <2>1
  <2> QED BY <1>1, <1>5, <1>6, <1>8, <2>2, StreamGoesOn DEF changed
<1>10. ScanHolds(split) BY <1>4, <1>8 DEF ScanHolds
<1>11. ViewHolds(shown)
  <2>1. CASE Restricts(d)
    <3>1. d.view.active = TRUE BY <1>1, <2>1 DEF ViewOf
    <3> DEFINE v == ExtendedView(split, n, changed)
               e == [split EXCEPT !.view = v]
    <3>2. shown = e BY <3>1 DEF ExtendView
    <3>3. v = ViewOf(split)
      <4>1. split.view = ViewOf(d) /\ Restricts(split) BY <1>1, <1>8, <1>9, <2>1
      <4> QED BY <1>9, <2>1, <4>1, ViewGoesOn
    <3> HIDE DEF v
    <3>4. SameSource(split, e) /\ e.view = v BY <1>8, OneFieldAside
    <3> HIDE DEF e, shown
    <3>5. ScanHolds(e) /\ SameStream(split, e)
      BY <1>10, <3>4, HoldsAside DEF SameSource, SameStream
    <3>6. ViewOf(e) = ViewOf(split) BY <3>5, SameIsShown
    <3> QED BY <3>2, <3>3, <3>4, <3>5, <3>6 DEF ViewHolds
  <2>2. CASE ~Restricts(d)
    <3>1. d.view.active = FALSE /\ d.view = Identity BY <1>1, <2>2 DEF ViewOf, Identity
    <3>2. shown = split BY <3>1
    <3>3. ViewOf(split) = Identity BY <1>9, <2>2 DEF ViewOf
    <3> HIDE DEF shown
    <3> QED BY <1>8, <1>10, <3>1, <3>2, <3>3 DEF ViewHolds
  <2> QED BY <2>1, <2>2
<1> HIDE DEF shown, n
<1>12. ViewHolds(ingested) /\ DOMAIN ingested = Fields
  <2>1. DOMAIN shown = Fields BY <1>11 DEF ViewHolds, ScanHolds
  <2>2. SameView(shown, ingested) BY <1>2, <2>1, DigestAside
  <2> HIDE DEF ingested
  <2> QED BY <1>11, <2>2, HoldsAside DEF SameView, SameSource
<1> HIDE DEF ingested
<1>13. ViewHolds(moved)
  <2>1. CASE ~ingested.follow \/ ingested.selected = Len(ingested.runs)
    <3>1. moved = ingested BY <2>1 DEF FollowLastRunIfMoved
    <3> QED BY <1>12, <3>1
  <2>2. CASE ~(~ingested.follow \/ ingested.selected = Len(ingested.runs))
    <3> DEFINE x == [ingested EXCEPT !.selected = Len(ingested.runs)]
               y == RecomputeViewBounds(x)
               z == ApplyFilters(y)
    <3>1. moved = RebuildDigest(z) BY <2>2 DEF FollowLastRunIfMoved
    <3>2. /\ DOMAIN x = Fields /\ x.seen = ingested.seen /\ x.records = ingested.records
          /\ x.sums = ingested.sums
      BY <1>12 DEF Fields
    <3> HIDE DEF x
    <3>3. /\ DOMAIN y = Fields /\ y.seen = ingested.seen /\ y.records = ingested.records
          /\ y.sums = ingested.sums
      BY <3>2, BoundAside
    <3> HIDE DEF y
    <3>4. ScanHolds(y) BY <1>12, <3>3 DEF ViewHolds, ScanHolds
    <3>5. ViewHolds(z) /\ DOMAIN z = Fields BY <3>4, AppliedHolds DEF ViewHolds, ScanHolds
    <3> HIDE DEF z, moved
    <3>6. SameView(z, moved) BY <3>1, <3>5, DigestAside
    <3> QED BY <3>5, <3>6, HoldsAside
  <2> QED BY <2>1, <2>2
<1>14. SameView(moved, FoldStats(moved))
  <2>1. DOMAIN moved = Fields BY <1>13 DEF ViewHolds, ScanHolds
  <2> HIDE DEF moved
  <2> QED BY <2>1, DigestAside
<1> HIDE DEF moved
<1>15. ViewHolds(FoldStats(moved)) BY <1>13, <1>14, HoldsAside
<1> QED BY <1>15 DEF moved, ingested

\* The lines read from the top, the runs found and the last one picked: the index and its sums
\* are those of a scan, and nothing is shown yet.
LEMMA TopHolds ==
  ASSUME NEW d, DOMAIN d = Fields, NEW lines \in Seq(Lines), NEW closed \in BOOLEAN
  PROVE  LET e == SelectLastRun(DetectRuns(Indexed(Cleared(d), lines, closed)))
         IN ScanHolds(e) /\ e.view = Identity
<1> DEFINE i == Indexed(Cleared(d), lines, closed)
           runs == WithRuns(i, <<>>, 1)
           a == [i EXCEPT !.runs = runs, !.memo = [scanned |-> 0, count |-> 0],
                          !.selected = IF i.follow \/ @ > Len(runs) THEN Len(runs) ELSE @]
           b == RecomputeViewBounds(a)
           c == [b EXCEPT !.follow = TRUE, !.selected = Len(b.runs)]
           e == RecomputeViewBounds(c)
           recs == Scan(lines, closed, 1)
<1>1. /\ DOMAIN i = Fields /\ i.seen = lines /\ i.records = recs /\ i.sums = RebuiltSums(recs)
      /\ i.view = Identity
  <2> DEFINE x == Cleared(d)
  <2>1. DOMAIN x = Fields /\ x.view = Identity BY DEF Cleared, Fields
  <2>2. i = [x EXCEPT !.seen = lines, !.records = recs, !.sums = RebuiltSums(recs)]
    BY DEF Indexed
  <2> HIDE DEF x, i, recs
  <2> QED BY <2>1, <2>2 DEF Fields
<1> HIDE DEF i, runs, recs
<1>2. /\ DOMAIN a = Fields /\ a.seen = lines /\ a.records = recs /\ a.sums = RebuiltSums(recs)
      /\ a.view = Identity
  BY <1>1 DEF Fields
<1> HIDE DEF a
<1>3. /\ DOMAIN b = Fields /\ b.seen = lines /\ b.records = recs /\ b.sums = RebuiltSums(recs)
      /\ b.view = Identity
  BY <1>2, BoundAside
<1> HIDE DEF b
<1>4. /\ DOMAIN c = Fields /\ c.seen = lines /\ c.records = recs /\ c.sums = RebuiltSums(recs)
      /\ c.view = Identity
  BY <1>3 DEF Fields
<1> HIDE DEF c
<1>5. /\ DOMAIN e = Fields /\ e.seen = lines /\ e.records = recs /\ e.sums = RebuiltSums(recs)
      /\ e.view = Identity
  BY <1>4, BoundAside
<1> HIDE DEF e
<1>6. ScanHolds(e) BY <1>5 DEF ScanHolds, recs
<1>7. e = SelectLastRun(DetectRuns(Indexed(Cleared(d), lines, closed)))
  BY DEF e, c, b, a, runs, i, SelectLastRun, DetectRuns
<1> QED BY <1>5, <1>6, <1>7

\* A scan shows the reader the view of a search from the top; so does the tick that finds the
\* file replaced.
LEMMA TopShows ==
  ASSUME NEW d, DOMAIN d = Fields, NEW lines \in Seq(Lines), NEW closed \in BOOLEAN
  PROVE  LET read   == SelectLastRun(DetectRuns(Indexed(Cleared(d), lines, closed)))
             digest == RebuildDigest(read)
         IN /\ ViewHolds(Presented(Indexed(Cleared(d), lines, closed)))
            /\ ViewHolds(FoldStats(IF Restricts(digest) THEN ApplyFilters(digest) ELSE digest))
<1> DEFINE read == SelectLastRun(DetectRuns(Indexed(Cleared(d), lines, closed)))
           digest == RebuildDigest(read)
           first == IF Restricts(read) THEN ApplyFilters(read) ELSE read
           told == RebuildDigest(first)
           second == IF Restricts(digest) THEN ApplyFilters(digest) ELSE digest
<1>1. ScanHolds(read) /\ read.view = Identity BY TopHolds
<1>2. Presented(Indexed(Cleared(d), lines, closed)) = FoldStats(told) BY DEF Presented
<1> HIDE DEF read
<1>3. DOMAIN read = Fields BY <1>1 DEF ScanHolds
<1>4. SameView(read, digest) BY <1>3, DigestAside
<1> HIDE DEF digest
<1>5. ScanHolds(digest) /\ digest.view = Identity BY <1>1, <1>4, HoldsAside DEF SameView
<1>6. ViewHolds(first) /\ ViewHolds(second) BY <1>1, <1>5, ShownOrWhole
<1> HIDE DEF first, second
<1>7. DOMAIN first = Fields /\ DOMAIN second = Fields BY <1>6 DEF ViewHolds, ScanHolds
<1>8. SameView(first, told) /\ SameView(second, FoldStats(second)) BY <1>7, DigestAside
<1> HIDE DEF told
<1>9. ViewHolds(told) /\ DOMAIN told = Fields /\ ViewHolds(FoldStats(second))
  BY <1>6, <1>8, HoldsAside DEF SameView, SameSource
<1>10. SameView(told, FoldStats(told)) BY <1>9, DigestAside
<1>11. ViewHolds(FoldStats(told)) BY <1>9, <1>10, HoldsAside
<1> QED BY <1>2, <1>9, <1>11 DEF second, digest, read

\* The reader picks a run or changes the filter, and the search is made again.
LEMMA ChoiceShows ==
  ASSUME NEW d, ScanHolds(d), NEW k, NEW f
  PROVE  /\ ViewHolds(ApplyFilters(SelectRun(d, k)))
         /\ ViewHolds(ApplyFilters([d EXCEPT !.filter = f]))
<1> DEFINE x == [d EXCEPT !.selected = k, !.follow = k > 0 /\ k = Len(d.runs)]
           y == RecomputeViewBounds(x)
           z == [d EXCEPT !.filter = f]
<1>1. DOMAIN d = Fields BY DEF ScanHolds
<1>2. SelectRun(d, k) = y BY DEF SelectRun
<1>3. /\ DOMAIN x = Fields /\ x.seen = d.seen /\ x.records = d.records /\ x.sums = d.sums
      /\ DOMAIN z = Fields /\ z.seen = d.seen /\ z.records = d.records /\ z.sums = d.sums
  BY <1>1 DEF Fields
<1> HIDE DEF x
<1>4. DOMAIN y = Fields /\ y.seen = d.seen /\ y.records = d.records /\ y.sums = d.sums
  BY <1>3, BoundAside
<1> HIDE DEF y, z
<1>5. ScanHolds(y) /\ ScanHolds(z) BY <1>3, <1>4 DEF ScanHolds
<1>6. ViewHolds(ApplyFilters(y)) /\ ViewHolds(ApplyFilters(z)) BY <1>5, AppliedHolds
<1> QED BY <1>2, <1>6 DEF z

\* What keeps the view exact: the runs are those of the index, a tick has no more lines to read
\* than a log may hold, and what is shown is the search from the top of an index that is the
\* scan of the lines seen.
ViewInv ==
  /\ RunsInv /\ Len(file) <= MaxLines /\ rotations \in Nat
  /\ stage = "live" => ViewHolds(doc)

\* Nothing is shown before the first scan has ended.
LEMMA InitView == ViewInit => ViewInv
  BY InitRuns, RecordViewAssumption DEF ViewInit, ViewInv

\* What the program that writes the log does is not shown before a tick.
LEMMA WriterShows ==
  ASSUME ViewInv, NEW l \in Lines, NEW whole \in BOOLEAN, WriteLine(l, whole) \/ FinishLine(l)
  PROVE  ViewInv'
<1>1. UNCHANGED <<stage, doc, rotations>> BY DEF WriteLine, FinishLine
<1>2. file \in Seq(Lines) /\ Len(file) <= MaxLines /\ rotations \in Nat /\ MaxLines \in Nat
  BY RecordViewAssumption DEF ViewInv, RunsInv
<1>3. Len(file') <= MaxLines
  <2>1. CASE WriteLine(l, whole)
    <3>1. file' = Append(file, l) /\ Len(file) + 2 * rotations < MaxLines
      BY <2>1 DEF WriteLine
    <3>2. Len(file') = Len(file) + 1 /\ Len(file) \in Nat BY <1>2, <3>1
    <3> QED BY <1>2, <3>1, <3>2
  <2>2. CASE FinishLine(l)
    <3>1. file' = [file EXCEPT ![Len(file)] = l] BY <2>2 DEF FinishLine
    <3>2. DOMAIN file' = DOMAIN file BY <3>1
    <3>3. Len(file') = Len(file) BY <1>2, <3>1, <3>2
    <3> QED BY <1>2, <3>3
  <2> QED BY <2>1, <2>2
<1>4. RunsInv' BY WriterKeeps DEF ViewInv
<1>5. (stage = "live" => ViewHolds(doc))' BY <1>1 DEF ViewInv
<1> QED BY <1>1, <1>2, <1>3, <1>4, <1>5 DEF ViewInv

\* A scan leaves what a search from the top shows of the lines it read.
LEMMA ScanShows == ViewInv /\ FinishScan => ViewInv'
<1> SUFFICES ASSUME ViewInv, FinishScan PROVE ViewInv' OBVIOUS
<1>1. file \in Seq(Lines) /\ shut \in BOOLEAN /\ DOMAIN doc = Fields /\ Len(file) \in Nat
  BY DEF ViewInv, RunsInv
<1>2. RunsInv' /\ UNCHANGED <<file, rotations>> BY ScanKeeps DEF ViewInv, FinishScan
<1>3. ASSUME NEW lines \in Seq(Lines), NEW closed \in BOOLEAN
      PROVE  ViewHolds(Presented(Indexed(Cleared(doc), lines, closed)))
  BY <1>1, TopShows
<1>4. ASSUME NEW n \in 0 .. Len(file),
             doc' = Presented(Indexed(Cleared(doc), SubSeq(file, 1, n), n < Len(file) \/ shut))
      PROVE  ViewHolds(doc')
  <2> DEFINE lines == SubSeq(file, 1, n)
             closed == n < Len(file) \/ shut
  <2>1. lines \in Seq(Lines) /\ closed \in BOOLEAN BY <1>1
  <2> HIDE DEF lines, closed
  <2>2. ViewHolds(Presented(Indexed(Cleared(doc), lines, closed))) BY <1>3, <2>1
  <2> QED BY <1>4, <2>2 DEF lines, closed
<1>5. ASSUME NEW n \in 1 .. Len(file), NEW p \in Glimpses(file[n]),
             doc' = Presented(Indexed(Cleared(doc), Append(SubSeq(file, 1, n - 1), p), FALSE))
      PROVE  ViewHolds(doc')
  <2> DEFINE head == SubSeq(file, 1, n - 1)
             lines == Append(head, p)
  <2>1. head \in Seq(Lines) /\ file[n] \in Lines BY <1>1
  <2>2. p \in Lines BY <1>5, <2>1, GlimpseFacts
  <2> HIDE DEF head
  <2>3. lines \in Seq(Lines) BY <2>1, <2>2
  <2> HIDE DEF lines
  <2>4. \A b \in BOOLEAN : ViewHolds(Presented(Indexed(Cleared(doc), lines, b)))
    BY <1>3, <2>3
  <2>5. ViewHolds(Presented(Indexed(Cleared(doc), lines, FALSE))) BY <2>4
  <2> QED BY <1>5, <2>5 DEF lines, head
<1>6. ViewHolds(doc') BY <1>4, <1>5 DEF FinishScan
<1> QED BY <1>2, <1>6 DEF ViewInv

\* A tick extends the view in place, and the search from the top would show no other.
LEMMA TickGoesOn == ViewInv /\ Tick => ViewInv'
<1> SUFFICES ASSUME ViewInv, Tick PROVE ViewInv' OBVIOUS
<1>1. /\ file \in Seq(Lines) /\ shut \in BOOLEAN /\ Len(file) <= MaxLines
      /\ ReadFrom(doc.seen, file) /\ Truthful(doc, grown) /\ ViewHolds(doc)
  BY DEF ViewInv, RunsInv, Tick
<1>2. ViewHolds(FoldStats(FollowLastRunIfMoved(IngestAppended(doc, file, shut))))
  BY <1>1, TickShows
<1>3. ViewHolds(doc') BY <1>2 DEF Tick
<1>4. RunsInv' /\ UNCHANGED <<file, rotations>> BY TickKeeps DEF ViewInv, Tick
<1> QED BY <1>3, <1>4 DEF ViewInv

\* The log that replaces another is shown from the top.
LEMMA RotateShows == ASSUME ViewInv, NEW l \in Lines, Rotate(l) PROVE ViewInv'
<1>1. DOMAIN doc = Fields /\ <<l>> \in Seq(Lines) BY DEF ViewInv, RunsInv
<1> DEFINE lines == <<l>>
           whole(b) == LET read   == SelectLastRun(DetectRuns(Indexed(Cleared(doc), lines, b)))
                           digest == RebuildDigest(read)
                       IN  FoldStats(IF Restricts(digest) THEN ApplyFilters(digest) ELSE digest)
<1>2. lines \in Seq(Lines) BY <1>1
<1>3. doc' = whole(TRUE) /\ file' = <<l>> /\ rotations' = rotations + 1 BY DEF Rotate
<1> HIDE DEF lines
<1>4. \A b \in BOOLEAN : ViewHolds(whole(b)) BY <1>1, <1>2, TopShows
<1> HIDE DEF whole
<1>5. ViewHolds(doc') BY <1>3, <1>4
<1>6. RunsInv' BY RotateKeeps DEF ViewInv
<1>7. Len(file') <= MaxLines /\ rotations' \in Nat
  <2>1. MaxLines \in Nat \ {0} /\ rotations \in Nat BY RecordViewAssumption DEF ViewInv
  <2>2. Len(file') = 1 BY <1>3
  <2> QED BY <1>3, <2>1, <2>2
<1> QED BY <1>5, <1>6, <1>7 DEF ViewInv

\* The reader's own steps search again.
LEMMA ReaderShows ==
  ASSUME ViewInv, stage = "live",
         \/ \E f \in Filters : ChangeFilter(f)
         \/ \E k \in 0 .. MaxLines : PickRun(k)
  PROVE  ViewInv'
<1>1. ScanHolds(doc) BY DEF ViewInv, ViewHolds
<1>2. UNCHANGED <<file, rotations>> BY DEF ChangeFilter, PickRun
<1>3. ASSUME NEW f \in Filters, ChangeFilter(f) PROVE ViewHolds(doc')
  BY <1>1, <1>3, ChoiceShows DEF ChangeFilter
<1>4. ASSUME NEW k \in 0 .. MaxLines, PickRun(k) PROVE ViewHolds(doc')
  BY <1>1, <1>4, ChoiceShows DEF PickRun
<1>5. ViewHolds(doc') BY <1>3, <1>4
<1>6. RunsInv' BY ReaderKeeps DEF ViewInv
<1> QED BY <1>2, <1>5, <1>6 DEF ViewInv

\* One lemma for each kind of step.
LEMMA NextShows == ViewInv /\ [ViewNext]_viewVars => ViewInv'
<1> SUFFICES ASSUME ViewInv, [ViewNext]_viewVars PROVE ViewInv' OBVIOUS
<1>1. CASE \E l \in Lines, whole \in BOOLEAN : WriteLine(l, whole) BY <1>1, WriterShows
<1>2. CASE \E l \in Lines : FinishLine(l) BY <1>2, WriterShows
<1>3. CASE \E l \in Lines : Rotate(l) BY <1>3, RotateShows
<1>4. CASE FinishScan BY <1>4, ScanShows
<1>5. CASE Tick BY <1>5, TickGoesOn
<1>6. CASE \/ \E f \in Filters : ChangeFilter(f)
           \/ \E k \in 0 .. MaxLines : PickRun(k)
  <2>1. stage = "live" BY <1>6 DEF ChangeFilter, PickRun
  <2> QED BY <1>6, <2>1, ReaderShows
<1>7. CASE UNCHANGED viewVars BY <1>7 DEF ViewInv, RunsInv, viewVars
<1> QED BY <1>1, <1>2, <1>3, <1>4, <1>5, <1>6, <1>7 DEF ViewNext

\* The search from the top, in the words of the property.
LEMMA ShownIsExact == ViewInv => ViewIsExact
<1> SUFFICES ASSUME ViewHolds(doc) PROVE ViewIsExact BY DEF ViewInv, ViewIsExact
<1>1. ScanHolds(doc) /\ doc.view = ViewOf(doc) BY DEF ViewHolds
<1>2. doc.records = Scan(doc.seen, doc.records = <<>> \/ Half(doc) = {}, 1)
  BY <1>1, ScanTold
<1>3. doc.sums = RebuiltSums(doc.records) BY <1>1 DEF ScanHolds
<1>4. WantedRows = ShownRows(doc) BY <1>1, AppliedHolds, WantedIsShown
<1>5. IF Restricts(doc)
      THEN doc.view = [active |-> TRUE, rows |-> WantedRows,
                       copy |-> CopyOf(doc, WantedRows),
                       sums |-> RebuiltSums(CopyOf(doc, WantedRows))]
      ELSE doc.view = Identity
  BY <1>1, <1>4 DEF ViewOf
<1> QED BY <1>2, <1>3, <1>5 DEF ViewIsExact

\* The view that ticks extend in place is the one a search from the top gives, whatever the
\* log holds, however it grows and whatever filter, context and run are chosen: resumeContext()
\* finds what the emission had left to show, and no record is left at a height it had.
THEOREM ViewStaysExact == ViewSpec => []ViewIsExact
<1>1. ViewInit => ViewInv BY InitView
<1>2. ViewInv /\ [ViewNext]_viewVars => ViewInv' BY NextShows
<1>3. ViewInv => ViewIsExact BY ShownIsExact
<1> QED BY <1>1, <1>2, <1>3, PTL DEF ViewSpec
=============================================================================
