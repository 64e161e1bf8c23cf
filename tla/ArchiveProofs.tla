--------------------------- MODULE ArchiveProofs ---------------------------
(***************************************************************************)
(* What ArchiveFetcher promises, for a container of any size, any prime    *)
(* and any number of outages and rotations: the fetcher keeps the contract *)
(* of SourceFetcher, and an expansion that ends Complete has every byte of *)
(* the member.                                                             *)
(***************************************************************************)
EXTENDS ArchiveFetcher, TLAPS

-----------------------------------------------------------------------------
(* The inductive invariant *)

Shown   == [size : 0 .. Whole, gen : Nat, open : BOOLEAN]
UpStates == {"Idle", "Connecting", "Priming", "Live", "Error", "Disconnected", "Waiting"}
Uppers  == [state : UpStates, gen : Nat, committed : 0 .. Whole, total : {0, Whole},
            broken : BOOLEAN]

\* What the worker may look at, typed.
Typed ==
  /\ state \in {"Idle", "Connecting", "Priming", "Error", "Disconnected", "Waiting", "Complete"}
  /\ generation \in 0 .. 1 /\ written \in [0 .. 1 -> 0 .. Whole]
  /\ committed \in 0 .. Whole /\ held \in 0 .. Whole /\ offset \in 0 .. Whole
  /\ stopping \in BOOLEAN /\ holding \in BOOLEAN /\ finished \in BOOLEAN /\ pc \in PCs
  /\ container \in [remote : BOOLEAN, framed : BOOLEAN]
  /\ input \in Shown /\ before \in 0 .. Whole /\ up \in Uppers

\* The steps before the header is read, those of the passes after it, and those
\* that belong to either.
Before  == {"none", "opening", "missing", "refused", "top", "absent", "open", "refresh",
            "vanish", "ready", "begin"}
Reading == {"read", "await", "judge", "last", "ended"}
Passing == {"append", "expand", "write", "torn", "commit", "primed", "tail"}

\* The generation is begun once, on an empty spool.
Phases ==
  /\ state = "Idle" <=> pc = "none"
  /\ state = "Complete" => pc = "done" /\ generation = 1 /\ committed = held /\ finished
  /\ pc \in Before => generation = 0
  /\ pc \in Passing => generation = 1
  /\ generation = 0 => written[0] = 0 /\ written[1] = 0 /\ held = 0 /\ committed = 0
                       /\ ~holding /\ ~finished
  /\ pc \in {"none", "opening", "missing"} => ~stopping

\* The bytes that were read, landed, were counted and published: each is a step
\* behind the one before it, and level with it between two bytes.
Counted ==
  /\ held <= written[generation] /\ committed <= held
  /\ pc \in Before \ {"begin"} => offset = 0
  /\ pc \in Reading => offset <= 1 + written[generation] /\ held = written[generation]
  /\ pc = "begin" => offset = 1
  /\ generation = 0 => (pc \in Reading => offset = 0) /\ (pc = "got" => offset = 1)
  /\ generation = 1 =>
       /\ pc \in Reading => offset = written[1] + 1
       /\ pc \in {"append", "expand", "primed"} => stopping \/ offset = written[1] + 1
       /\ pc \in {"got", "write"} => offset = written[1] + 2
       /\ pc \in {"commit", "torn"} => offset = written[1] + 1 /\ held = written[1] - 1
       /\ pc \in {"append", "expand", "got", "write", "primed", "tail"} => held = written[1]
       /\ ~holding => committed = held
       /\ pc = "tail" => ~holding

\* How a read of the container comes to its end.
Ended ==
  /\ pc \in {"none", "opening", "missing", "absent", "open"} => ~input.open
  /\ ~container.remote =>
       /\ pc \in {"refresh", "vanish", "ready", "read", "got", "ended", "begin", "append",
                  "expand", "write", "commit", "primed"} => input.size = Whole
       /\ pc = "top" /\ input.open => input.size = Whole
       /\ pc \notin {"await", "judge", "last"}
  /\ container.remote =>
       /\ pc \notin {"none", "opening", "refused"} => up.state # "Idle"
       /\ ~up.broken => up.state \notin {"Error", "Disconnected"}
  /\ pc \in {"await", "judge", "last"} => before <= offset
  /\ pc = "last" /\ ~up.broken => up.committed = Whole
  /\ pc = "ended" /\ ~stopping /\ ~up.broken => offset = Whole

\* An expansion that is finished has every byte, and stays so.
Finished ==
  finished => /\ pc \in {"primed", "tail", "done"} /\ held = written[1]
              /\ pc \in {"primed", "tail"} => generation = 1
              /\ container.framed \/ ~up.broken => held = Whole - 1

IInv == Typed /\ Phases /\ Counted /\ Ended /\ Finished

-----------------------------------------------------------------------------
(* Types.                                                                  *)

LEMMA Bounds == Whole \in Nat /\ Whole > 1 /\ Prime \in Nat /\ Prime > 0
  BY ArchiveAssumption

\* The records the worker is shown, and how the steps change them.
LEMMA ShownOpened == ASSUME NEW r \in Shown PROVE [r EXCEPT !.open = TRUE] \in Shown
  BY DEF Shown

LEMMA UpperTells == ASSUME NEW r \in Uppers, NEW s \in UpStates
                    PROVE [r EXCEPT !.state = s] \in Uppers
  BY DEF Uppers

LEMMA UpperRotates == ASSUME NEW r \in Uppers, NEW g \in Nat
                      PROVE [r EXCEPT !.gen = g, !.committed = 0, !.broken = TRUE] \in Uppers
<1>1. [r EXCEPT !.gen = g] \in Uppers BY DEF Uppers
<1>2. ASSUME NEW u \in Uppers PROVE [u EXCEPT !.committed = 0] \in Uppers
  BY Bounds DEF Uppers
<1>3. ASSUME NEW u \in Uppers PROVE [u EXCEPT !.broken = TRUE] \in Uppers BY DEF Uppers
<1> QED BY <1>1, <1>2, <1>3

LEMMA Inputs == /\ NoInput \in Shown /\ LocalInput \in Shown
                /\ [NoInput EXCEPT !.open = TRUE] \in Shown
<1>1. NoInput \in Shown BY Bounds DEF NoInput, Shown
<1>2. LocalInput \in Shown BY Bounds DEF LocalInput, Shown
<1> QED BY <1>1, <1>2, ShownOpened

LEMMA Showing == ASSUME Typed PROVE Refreshed \in Shown
  BY Bounds DEF Typed, Refreshed, Shown, Uppers

LEMMA Fields == ASSUME Typed
                PROVE /\ input.size \in 0 .. Whole /\ input.gen \in Nat /\ input.open \in BOOLEAN
                      /\ up.state \in UpStates /\ up.gen \in Nat /\ up.committed \in 0 .. Whole
                      /\ up.total \in {0, Whole} /\ up.broken \in BOOLEAN
                      /\ container.remote \in BOOLEAN /\ container.framed \in BOOLEAN
  BY DEF Typed, Shown, Uppers

LEMMA InitInv == Init => IInv
<1> SUFFICES ASSUME Init PROVE IInv OBVIOUS
<1> USE Bounds DEF Init
<1>1. Typed
  <2>1. up \in Uppers
    <3>1. Spooled \in Uppers BY DEF Spooled, Uppers, UpStates
    <3>3. [Spooled EXCEPT !.state = "Connecting"] \in Uppers
      BY <3>1, UpperTells DEF UpStates
    <3> QED BY <3>1, <3>3
  <2>2. generation \in 0 .. 1 /\ committed \in 0 .. Whole /\ held \in 0 .. Whole
        /\ offset \in 0 .. Whole /\ before \in 0 .. Whole
    OBVIOUS
  <2>3. written \in [0 .. 1 -> 0 .. Whole] OBVIOUS
  <2> QED BY <2>1, <2>2, <2>3, Inputs DEF Typed, PCs
<1>2. Phases /\ Finished BY DEF Phases, Finished, Before, Passing
<1>3. Counted BY DEF Counted, Before, Reading, NoInput, Spooled
<1>4. Ended BY DEF Ended, NoInput, Spooled
<1> QED BY <1>1, <1>2, <1>3, <1>4 DEF IInv

LEMMA StartsTyped == ASSUME IInv, Starts \/ RequestStop PROVE Typed'
<1> USE Bounds, Inputs DEF IInv, Typed, PCs, published, stream, outside, Publish, Fault
<1>1. CASE Start BY <1>1 DEF Start
<1>2. CASE StartRemote
  <2>1. up' \in Uppers BY <1>2 DEF StartRemote, Uppers, UpStates
  <2>2. input' \in Shown BY <1>2 DEF StartRemote
  <2> QED BY <2>1, <2>2, <1>2 DEF StartRemote
<1>3. CASE StartLocal
  <2>1. input' \in Shown /\ pc' \in PCs BY <1>3 DEF StartLocal
  <2> QED BY <2>1, <1>3 DEF StartLocal
<1>4. CASE StartAbsent BY <1>4 DEF StartAbsent
<1>5. CASE RequestStop BY <1>5 DEF RequestStop, StateOfStopped
<1> QED BY <1>1, <1>2, <1>3, <1>4, <1>5 DEF Starts

LEMMA EnvironmentTyped == ASSUME IInv, Environment PROVE Typed'
<1>1. CASE FileMoves BY <1>1 DEF FileMoves, IInv, Typed, published, stream
<1>2. CASE ~FileMoves
  <2>1. UNCHANGED <<published, stream, container, held, holding, finished, pc>>
    BY <1>2 DEF Environment, UpRuns, UpAdvances, UpTrouble, UpBegins, UpRotates, UpCommits
  <2>2. up' \in Uppers
    <3> USE Bounds, Fields DEF IInv, Typed, Uppers, UpStates
    <3>1. CASE UpAdvances BY <3>1 DEF UpAdvances
    <3>2. CASE UpTrouble BY <3>2, ArchiveAssumption DEF UpTrouble
    <3>3. CASE UpBegins BY <3>3 DEF UpBegins
    <3>5. CASE UpRotates
      <4>1. up.gen + 1 \in Nat OBVIOUS
      <4>2. up' = [up EXCEPT !.gen = up.gen + 1, !.committed = 0, !.broken = TRUE]
        BY <3>5 DEF UpRotates
      <4> QED BY <4>1, <4>2, UpperRotates
    <3>4. CASE UpCommits BY <3>4 DEF UpCommits
    <3> QED BY <1>2, <3>1, <3>2, <3>3, <3>4, <3>5 DEF Environment
  <2> QED BY <2>1, <2>2 DEF IInv, Typed, published, stream
<1> QED BY <1>1, <1>2

LEMMA WorkerTyped == ASSUME IInv, Worker PROVE Typed'
<1> USE Bounds, Showing, Inputs DEF IInv, Typed, published, stream, outside, Publish, Fault,
      Keep, Goto, Fail
<1>1. CASE Top \/ Absent \/ Vanished \/ Ready \/ Judge \/ HeaderRead
  BY <1>1 DEF Top, Absent, Vanished, Ready, Judge, HeaderRead, PCs
<1>2. CASE OpenContainer BY <1>2 DEF OpenContainer, PCs
<1>3. CASE Refresh \/ Await \/ LastLook BY <1>3 DEF Refresh, Await, LastLook, PCs
<1>4. CASE ReadBlock
  <2> DEFINE in == IF input.size > offset THEN input ELSE Refreshed
  <2>1. in \in Shown OBVIOUS
  <2>2. in.size \in 0 .. Whole BY <2>1 DEF Shown
  <2>3. /\ input' = in /\ UNCHANGED <<published, faults, outside, held, holding, finished>>
        /\ \/ in.size > offset /\ offset' = offset + 1 /\ pc' = "got" /\ before' = before
           \/ pc' \in {"await", "ended"} /\ before' = in.size /\ offset' = offset
    BY <1>4 DEF ReadBlock
  <2> HIDE DEF in
  <2> QED BY <2>1, <2>2, <2>3 DEF PCs
<1>5. CASE HeaderFails BY <1>5 DEF HeaderFails, PCs
<1>6. CASE BeginGeneration
  <2>1. generation' \in 0 .. 1 /\ committed' \in 0 .. Whole /\ held' \in 0 .. Whole
        /\ holding' \in BOOLEAN /\ pc' \in PCs /\ input' \in Shown
        /\ state' \in {"Idle", "Connecting", "Priming", "Error", "Disconnected", "Waiting",
                       "Complete"}
    <3>1. pc' \in {"done", "append"} /\ input' \in {input, NoInput}
          /\ state' \in {state, "Error"} /\ generation' \in {generation, 1}
          /\ committed' \in {committed, 0} /\ held' \in {held, 0} /\ holding' \in {holding, TRUE}
      BY <1>6 DEF BeginGeneration
    <3>2. pc' \in PCs /\ input' \in Shown BY <3>1 DEF PCs
    <3>3. generation' \in 0 .. 1 /\ committed' \in 0 .. Whole /\ held' \in 0 .. Whole
      BY <3>1
    <3> QED BY <3>1, <3>2, <3>3
  <2>2. UNCHANGED <<written, stopping, finished, container, offset, before, up>>
    BY <1>6 DEF BeginGeneration
  <2> QED BY <2>1, <2>2
<1>7. CASE Append \/ Expand \/ ReadEnds \/ ReadData \/ Torn
  <2>1. /\ UNCHANGED <<generation, written, committed, held, stopping, holding, container,
                       offset, before, up>>
        /\ state' \in {state, "Error"} /\ input' \in {input, NoInput}
        /\ finished' \in {finished, TRUE}
    BY <1>7 DEF Append, Expand, ReadEnds, ReadData, Torn
  <2>2. pc' \in PCs BY <1>7 DEF Append, Expand, ReadEnds, ReadData, Torn, EndOfPass, PCs
  <2> QED BY <2>1, <2>2
<1>8. CASE Write
  <2>1. generation = 1 /\ offset = written[1] + 2
    BY <1>8 DEF Write, Counted, Phases, Passing
  <2>2. written' \in [0 .. 1 -> 0 .. Whole] BY <2>1, <1>8 DEF Write
  <2> QED BY <2>2, <1>8 DEF Write, PCs
<1>9. CASE Commit
  <2>1. generation = 1 /\ held = written[1] - 1
    BY <1>9 DEF Commit, Counted, Phases, Passing
  <2>2. held + 1 \in 0 .. Whole BY <2>1
  <2> QED BY <2>2, <1>9 DEF Commit, Committed, PCs
<1>10. CASE Primed
  <2>1. committed' \in 0 .. Whole /\ input' \in Shown /\ pc' \in PCs
    BY <1>10 DEF Primed, PCs
  <2> QED BY <2>1, <1>10 DEF Primed
<1>11. CASE PublishComplete BY <1>11 DEF PublishComplete, Outcome, PCs
<1> QED BY <1>1, <1>2, <1>3, <1>4, <1>5, <1>6, <1>7, <1>8, <1>9, <1>10, <1>11 DEF Worker

LEMMA NextTyped == ASSUME IInv, [Next]_vars PROVE Typed'
<1>1. CASE UNCHANGED vars BY <1>1 DEF IInv, Typed, vars, published, stream, outside
<1> QED BY <1>1, StartsTyped, EnvironmentTyped, WorkerTyped DEF Next

-----------------------------------------------------------------------------
(* The invariant is kept.  What a step leaves alone is a step of its own.  *)

\* What every step of the fetcher leaves of the world around it, and what the
\* world leaves of the fetcher.
LEMMA Around ==
  ASSUME IInv, [Next]_vars
  PROVE /\ container' = container
        /\ stopping => stopping'
        /\ up.broken => up'.broken
<1> USE Fields DEF IInv, Typed, published, stream, outside, vars
<1>1. CASE UNCHANGED vars BY <1>1
<1>2. CASE Environment
  <2>1. UNCHANGED <<container, published, stream, held, holding, finished, pc>>
    BY <1>2 DEF Environment, FileMoves, UpRuns, UpAdvances, UpTrouble, UpBegins, UpRotates,
       UpCommits
  <2>2. up.broken => up'.broken
    BY <1>2 DEF Environment, FileMoves, UpRuns, UpAdvances, UpTrouble, UpBegins, UpRotates,
       UpCommits, Uppers
  <2> QED BY <1>2, <2>1, <2>2
<1>3. CASE Starts
  <2>1. UNCHANGED <<container, stopping>>
    BY <1>3 DEF Starts, Start, StartRemote, StartLocal, StartAbsent, Publish
  <2>2. up.broken => up'.broken
    BY <1>3 DEF Starts, Start, StartRemote, StartLocal, StartAbsent, Uppers
  <2> QED BY <2>1, <2>2
<1>4. CASE RequestStop
  <2>1. UNCHANGED <<container, up>> /\ stopping' BY <1>4 DEF RequestStop
  <2> QED BY <2>1
<1>5. CASE Worker
  <2>1. UNCHANGED <<container, up, stopping>>
    BY <1>5 DEF Worker, Keep, Goto, Fail, Publish, Top, Absent, OpenContainer, Refresh,
       Vanished, Ready, ReadBlock, Await, Judge, LastLook, HeaderFails, HeaderRead,
       BeginGeneration, Append, Expand, ReadEnds, ReadData, Write, Torn, Commit, Primed,
       PublishComplete
  <2> QED BY <2>1
<1> QED BY <1>1, <1>2, <1>3, <1>4, <1>5 DEF Next

LEMMA EnvironmentKeeps == ASSUME IInv, Environment, Typed' PROVE IInv'
<1> USE Fields DEF IInv, published, stream
<1>1. /\ UNCHANGED <<published, stream, held, holding, finished, pc, container>>
      /\ up.broken => up'.broken
  <2>1. UNCHANGED <<published, stream, held, holding, finished, pc, container>>
    BY DEF Environment, FileMoves, UpRuns, UpAdvances, UpTrouble, UpBegins, UpRotates,
       UpCommits
  <2> QED BY <2>1, Around DEF Next
<1>2. Phases' /\ Counted' BY <1>1 DEF Phases, Counted, Before, Reading, Passing
<1>3. Finished' BY <1>1 DEF Finished
<1>4. Ended'
  <2>1. container.remote => /\ up.state # "Idle" => up'.state # "Idle"
                            /\ ~up'.broken => up'.state \notin {"Error", "Disconnected"}
                            /\ ~up'.broken /\ up.committed = Whole => up'.committed = Whole
    <3> USE DEF Typed, Uppers, UpStates, Ended
    <3>1. CASE FileMoves BY <3>1 DEF FileMoves
    <3>2. CASE UpAdvances BY <3>2 DEF UpAdvances
    <3>3. CASE UpTrouble BY <3>3, ArchiveAssumption DEF UpTrouble
    <3>4. CASE UpBegins BY <3>4 DEF UpBegins, UpRuns
    <3>5. CASE UpRotates BY <3>5 DEF UpRotates, UpRuns
    <3>6. CASE UpCommits BY <3>6 DEF UpCommits, UpRuns
    <3> QED BY <3>1, <3>2, <3>3, <3>4, <3>5, <3>6 DEF Environment
  <2> QED BY <1>1, <2>1 DEF Ended
<1> QED BY <1>2, <1>3, <1>4

LEMMA StartsKeep == ASSUME IInv, Starts \/ RequestStop, Typed' PROVE IInv'
<1> USE Fields, Around DEF IInv, published, stream, outside, Publish, Next
<1>1. Phases' /\ Counted'
  BY DEF Phases, Counted, Before, Reading, Passing, Starts, Start, StartRemote, StartLocal,
     StartAbsent, RequestStop, StateOfStopped, Typed
<1>2. Finished'
  BY DEF Finished, Starts, Start, StartRemote, StartLocal, StartAbsent, RequestStop, Typed
<1>3. Ended'
  <2> USE DEF Ended, Typed
  <2>1. CASE Start BY <2>1 DEF Start
  <2>2. CASE StartRemote
    <3>1. /\ pc' \in {"top", "refused"} /\ UNCHANGED container /\ container.remote
          /\ up' \in {up, [up EXCEPT !.state = "Connecting"]} /\ pc = "opening"
          /\ pc' = "top" => up'.state # "Idle"
      BY <2>2 DEF StartRemote, Uppers
    <3>2. (~up'.broken => up'.state \notin {"Error", "Disconnected"}) BY <3>1 DEF Uppers
    <3> QED BY <3>1, <3>2
  <2>3. CASE StartLocal BY <2>3 DEF StartLocal, LocalInput
  <2>4. CASE StartAbsent BY <2>4 DEF StartAbsent
  <2>5. CASE RequestStop BY <2>5 DEF RequestStop
  <2> QED BY <2>1, <2>2, <2>3, <2>4, <2>5 DEF Starts
<1> QED BY <1>1, <1>2, <1>3

\* The steps of the worker that neither read a byte nor count one.
Quiet == Top \/ Absent \/ OpenContainer \/ Refresh \/ Vanished \/ Ready \/ Judge \/ HeaderFails
           \/ HeaderRead \/ Append \/ Expand \/ ReadData \/ Torn

LEMMA QuietKeeps == ASSUME IInv, Quiet, Typed' PROVE IInv'
<1> USE Fields, Showing DEF IInv, published, stream, outside, Publish, Keep, Goto, Fail
<1>1. UNCHANGED <<generation, committed, written, stopping, held, holding, finished, offset,
                  before, up, container>>
  BY DEF Quiet, Top, Absent, OpenContainer, Refresh, Vanished, Ready, Judge, HeaderFails,
     HeaderRead, Append, Expand, ReadData, Torn
<1>2. Phases'
  BY DEF Quiet, Top, Absent, OpenContainer, Refresh, Vanished, Ready, Judge, HeaderFails,
     HeaderRead, Append, Expand, ReadData, Torn, Phases, Before, Passing, EndOfPass, Opening,
     Typed
<1>3. Counted'
  <2> USE DEF Counted, Phases, Before, Passing, Reading, Typed
  <2>1. CASE Top \/ Absent BY <2>1, <1>1 DEF Top, Absent
  <2>8. CASE Vanished \/ Ready BY <2>8, <1>1 DEF Vanished, Ready
  <2>9. CASE Judge BY <2>9, <1>1 DEF Judge, Exhausted, UpStates
  <2>2. CASE OpenContainer BY <2>2, <1>1 DEF OpenContainer, LocalInput
  <2>3. CASE Refresh BY <2>3, <1>1 DEF Refresh, Refreshed
  <2>4. CASE HeaderFails \/ Torn BY <2>4, <1>1 DEF HeaderFails, Torn, Opening
  <2>7. CASE HeaderRead BY <2>7, <1>1 DEF HeaderRead, Opening
  <2>5. CASE Append \/ Expand BY <2>5, <1>1 DEF Append, Expand, EndOfPass, StopSeen
  <2>6. CASE ReadData BY <2>6, <1>1 DEF ReadData, Opening, EndOfPass, StopSeen
  <2> QED BY <2>1, <2>2, <2>3, <2>4, <2>5, <2>6, <2>7, <2>8, <2>9 DEF Quiet
<1>4. Finished'
  BY DEF Quiet, Top, Absent, OpenContainer, Refresh, Vanished, Ready, Judge, HeaderFails,
     HeaderRead, Append, Expand, ReadData, Torn, Phases, Finished, Before, Passing,
     EndOfPass, Opening, StopSeen, Typed
<1>5. Ended'
  <2> USE DEF Ended, Typed
  <2>1. CASE Top \/ Absent BY <2>1, <1>1 DEF Top, Absent
  <2>8. CASE Vanished \/ Ready BY <2>8, <1>1 DEF Vanished, Ready
  <2>9. CASE Judge
    <3>1. pc = "judge" /\ pc' \in {"last", "await"} /\ container.remote /\ input' = input
      BY <2>9 DEF Judge
    <3>2. pc' = "last" => Exhausted BY <2>9 DEF Judge
    <3>3. pc' = "last" /\ ~up.broken => up.committed = Whole
      BY <3>1, <3>2, Bounds DEF Exhausted, UpStates
    <3> QED BY <1>1, <3>1, <3>3
  <2>2. CASE OpenContainer BY <2>2, <1>1 DEF OpenContainer, LocalInput
  <2>3. CASE Refresh BY <2>3, <1>1 DEF Refresh, Refreshed
  <2>4. CASE HeaderFails \/ Torn BY <2>4, <1>1 DEF HeaderFails, Torn, Opening
  <2>7. CASE HeaderRead BY <2>7, <1>1 DEF HeaderRead, Opening
  <2>5. CASE Append \/ Expand BY <2>5, <1>1 DEF Append, Expand, EndOfPass, StopSeen
  <2>6. CASE ReadData BY <2>6, <1>1 DEF ReadData, Opening, EndOfPass, StopSeen
  <2> QED BY <2>1, <2>2, <2>3, <2>4, <2>5, <2>6, <2>7, <2>8, <2>9 DEF Quiet
<1> QED BY <1>2, <1>3, <1>4, <1>5

\* The steps of the worker that read a byte, count one, or end a pass.
LEMMA ReadingKeeps == ASSUME IInv, ReadBlock \/ Await \/ LastLook, Typed' PROVE IInv'
<1> USE Fields, Showing DEF IInv, published, stream, outside, Keep
<1>1. UNCHANGED <<state, generation, committed, written, stopping, held, holding, finished,
                  up, container>>
  BY DEF ReadBlock, Await, LastLook
<1>2. Phases' /\ Finished'
  BY <1>1 DEF ReadBlock, Await, LastLook, Phases, Finished, Before, Passing, Typed
<1>3. CASE ReadBlock
  <2> DEFINE in == IF input.size > offset THEN input ELSE Refreshed
  <2>1. in \in Shown /\ in.size \in 0 .. Whole BY DEF Shown, Typed
  <2>2. /\ input' = in /\ pc = "read"
        /\ \/ in.size > offset /\ offset' = offset + 1 /\ pc' = "got"
           \/ ~(in.size > offset) /\ pc' = (IF container.remote THEN "await" ELSE "ended")
              /\ before' = in.size /\ offset' = offset
    BY <1>3 DEF ReadBlock
  <2>3. ~container.remote => in = input BY DEF Refreshed
  <2> HIDE DEF in
  <2>4. Counted' BY <1>1, <2>1, <2>2 DEF Counted, Phases, Before, Passing, Reading, Typed
  <2>5. Ended' BY <1>1, <2>1, <2>2, <2>3 DEF Ended, Typed
  <2> QED BY <1>2, <2>4, <2>5
<1>4. CASE Await \/ LastLook
  <2>1. /\ pc \in {"await", "last"} /\ pc' \in {"read", "judge", "ended"} /\ UNCHANGED <<offset, before>>
        /\ container.remote
    BY <1>4 DEF Await, LastLook, Ended
  <2>2. Counted' BY <1>1, <2>1 DEF Counted, Phases, Before, Passing, Reading, Typed
  <2>3. pc' = "ended" /\ ~stopping /\ ~up.broken => offset = Whole
    BY <1>4 DEF Await, LastLook, StopSeen, Ended, Refreshed, Typed
  <2>4. Ended' BY <1>1, <2>1, <2>3 DEF Ended
  <2> QED BY <1>2, <2>2, <2>4
<1> QED BY <1>3, <1>4

LEMMA CountingKeeps ==
  ASSUME IInv, BeginGeneration \/ ReadEnds \/ Write \/ Commit \/ Primed \/ PublishComplete, Typed'
  PROVE  IInv'
<1> USE Fields, Bounds DEF IInv, Typed, published, stream, outside, Publish, Fail, Goto
<1>1. UNCHANGED <<stopping, up, container, offset, before>>
  BY DEF BeginGeneration, ReadEnds, Write, Commit, Primed, PublishComplete, Keep
<1>2. CASE BeginGeneration
  <2>1. \/ /\ pc' = "done" /\ state' = "Error"
           /\ UNCHANGED <<generation, committed, written, held, holding, finished>>
        \/ /\ generation' = 1 /\ committed' = 0 /\ held' = 0 /\ holding' = TRUE
           /\ pc' = "append" /\ UNCHANGED <<state, written, finished, input>>
    BY <1>2 DEF BeginGeneration
  <2>2. pc = "begin" BY <1>2 DEF BeginGeneration
  <2> QED
    BY <1>1, <2>1, <2>2 DEF Phases, Counted, Ended, Finished, Before, Passing, Reading
<1>3. CASE ReadEnds
  <2>1. /\ generation = 1 /\ pc = "ended" /\ UNCHANGED <<generation, committed, written, held, holding>>
        /\ \/ pc' = EndOfPass /\ UNCHANGED <<state, input, finished>>
           \/ pc' = "done" /\ state' = "Error" /\ finished' = finished
           \/ ~stopping /\ ~CutShort /\ finished' = TRUE /\ pc' = EndOfPass
              /\ UNCHANGED <<state, input>>
    BY <1>3 DEF ReadEnds, Opening, StopSeen
  <2>2. ~finished /\ state # "Complete" BY <2>1 DEF Finished, Phases
  <2>3. Phases' /\ Counted' /\ Ended'
    BY <1>1, <2>1, <2>2 DEF Phases, Counted, Ended, Before, Passing, Reading, EndOfPass
  <2>4. ~stopping /\ ~CutShort => (container.framed \/ ~up.broken => offset = Whole)
    BY <2>1 DEF CutShort, Ended
  <2>5. held = written[1] /\ offset = written[1] + 1 BY <2>1 DEF Counted, Reading
  <2>6. Finished'
    <3>1. finished' => pc' \in {"primed", "tail"} BY <2>1, <2>2 DEF EndOfPass
    <3>2. finished' => (container.framed \/ ~up.broken => held = Whole - 1)
      <4> SUFFICES ASSUME finished', container.framed \/ ~up.broken PROVE held = Whole - 1
        OBVIOUS
      <4>1. ~stopping /\ ~CutShort BY <2>1, <2>2
      <4> QED BY <4>1, <2>4, <2>5
    <3> QED BY <1>1, <2>1, <2>5, <3>1, <3>2 DEF Finished
  <2> QED BY <2>3, <2>6
<1>4. CASE Write
  <2>1. /\ pc = "write" /\ pc' \in {"commit", "torn"} /\ generation = 1
        /\ written' = [written EXCEPT ![1] = @ + 1]
        /\ UNCHANGED <<state, generation, committed, held, holding, finished, input>>
    BY <1>4 DEF Write, Keep, Phases, Passing
  <2>2. written'[1] = written[1] + 1 /\ held = written[1] /\ offset = written[1] + 2
    BY <2>1 DEF Counted
  <2>3. ~finished BY <2>1 DEF Finished
  <2> QED
    BY <1>1, <2>1, <2>2, <2>3 DEF Phases, Counted, Ended, Finished, Before, Passing, Reading
<1>5. CASE Commit
  <2>1. /\ pc = "commit" /\ pc' = "expand" /\ generation = 1 /\ held' = held + 1
        /\ committed' = Committed
        /\ UNCHANGED <<state, generation, written, holding, finished, input>>
    BY <1>5 DEF Commit, Phases, Passing
  <2>2. ~finished BY <2>1 DEF Finished
  <2> QED
    BY <1>1, <2>1, <2>2 DEF Phases, Counted, Ended, Finished, Before, Passing, Reading, Committed
<1>6. CASE Primed
  <2>1. /\ pc = "primed" /\ pc' = (IF finished THEN "tail" ELSE "append") /\ generation = 1
        /\ holding' = FALSE /\ committed' = held
        /\ input' = (IF finished THEN NoInput ELSE input)
        /\ UNCHANGED <<state, generation, written, held, finished>>
    BY <1>6 DEF Primed, Phases, Passing, Counted
  <2>2. Phases' /\ Counted' BY <1>1, <2>1 DEF Phases, Counted, Before, Passing, Reading
  <2>3. Ended' BY <1>1, <2>1 DEF Ended
  <2>4. Finished' BY <1>1, <2>1 DEF Finished
  <2> QED BY <2>2, <2>3, <2>4
<1>7. CASE PublishComplete
  <2>1. /\ pc = "tail" /\ pc' = "done" /\ generation = 1 /\ state' = Outcome
        /\ UNCHANGED <<generation, committed, written, held, holding, finished, input>>
    BY <1>7 DEF PublishComplete, Keep, Phases, Passing
  <2> QED
    BY <1>1, <2>1 DEF Phases, Counted, Ended, Finished, Before, Passing, Reading, Outcome
<1> QED BY <1>2, <1>3, <1>4, <1>5, <1>6, <1>7

LEMMA NextInv == IInv /\ [Next]_vars => IInv'
<1> SUFFICES ASSUME IInv, [Next]_vars PROVE IInv' OBVIOUS
<1>1. Typed' BY NextTyped
<1>2. CASE UNCHANGED vars
  BY <1>1, <1>2 DEF IInv, Phases, Counted, Ended, Finished, Before, Passing, Reading, vars,
     published, stream, outside
<1>3. CASE Worker BY <1>1, <1>3, QuietKeeps, ReadingKeeps, CountingKeeps DEF Worker, Quiet
<1> QED BY <1>1, <1>2, <1>3, StartsKeep, EnvironmentKeeps DEF Next

LEMMA Invariance == Spec => []IInv
  BY InitInv, NextInv, PTL DEF Spec

-----------------------------------------------------------------------------
(* What follows from it.                                                   *)

\* The values the fetcher holds are legal whatever the worker, the canceller
\* and the container's fetcher do, and no byte is published, or counted as held
\* back, that is not in the spool (expand(): the write, then the count).
THEOREM TypeCorrect == Spec => []TypeOK
<1>1. IInv => TypeOK BY Bounds DEF IInv, Typed, Counted, TypeOK
<1> QED BY <1>1, Invariance, PTL

\* An expansion that says Complete has committed every byte of the member, for
\* a container of any size and through any number of outages: the exits of
\* awaitInput() and the cut noticed by the codec leave no other way to the end.
THEOREM EveryByteIsThere == Spec => []WholeMember
<1>1. IInv => WholeMember BY Bounds, Fields DEF IInv, Phases, Finished, WholeMember
<1> QED BY <1>1, Invariance, PTL

-----------------------------------------------------------------------------
(* The contract of SourceFetcher, step by step.                            *)

\* A state the worker publishes while it runs is one the contract lets any
\* fetcher publish.
LEMMA Publishing ==
  ASSUME IInv, NEW s \in {"Connecting", "Priming", "Error", "Waiting"}, Publish(s),
         pc \notin {"none", "done"}
  PROVE  Contract!Next
<1>1. state # "Idle" /\ state # "Complete" BY DEF IInv, Phases
<1>2. s \in Contract!States /\ Contract!Publish(s)
  BY <1>1 DEF Publish, Contract!States, Contract!Publish, Contract!Open
<1> QED BY <1>2 DEF Contract!Next

\* The step shows a reader of the fetcher nothing.
Idles == UNCHANGED published

LEMMA InitKeeps == Init => Contract!Init
  BY DEF Init, Contract!Init, Contract!Generations

LEMMA StepKeeps == IInv /\ [Next]_vars => [Contract!Next]_(Contract!vars)
<1> SUFFICES ASSUME IInv, [Next]_vars PROVE Contract!Next \/ Idles
  BY DEF Contract!vars, Idles, published
<1> USE DEF Idles
<1>1. CASE UNCHANGED vars \/ Environment
  BY <1>1 DEF vars, Environment, FileMoves, UpRuns, UpAdvances, UpTrouble, UpBegins, UpRotates,
     UpCommits
<1>2. CASE Start BY <1>2 DEF Start, Publish, Contract!Next, Contract!Start
<1>3. CASE StartRemote BY <1>3, Publishing DEF StartRemote
<1>4. CASE StartLocal BY <1>4 DEF StartLocal
<1>5. CASE StartAbsent BY <1>5, Publishing DEF StartAbsent
<1>6. CASE RequestStop
  BY <1>6 DEF RequestStop, StateOfStopped, Contract!Next, Contract!RequestStop
<1>7. CASE Quiet
  <2>1. CASE Fail \/ Publish("Waiting") \/ Publish("Connecting") \/ Publish("Priming")
    <3>1. pc \notin {"none", "done"}
      BY <1>7 DEF Quiet, Top, Absent, OpenContainer, Refresh, Vanished, Ready, Judge, HeaderFails,
         HeaderRead, Append, Expand, ReadData, Torn
    <3> QED BY <2>1, <3>1, Publishing DEF Fail
  <2>2. CASE ~(Fail \/ Publish("Waiting") \/ Publish("Connecting") \/ Publish("Priming"))
    BY <1>7, <2>2 DEF Quiet, Top, Absent, OpenContainer, Refresh, Vanished, Ready, Judge,
       HeaderFails, HeaderRead, Append, Expand, ReadData, Torn, Goto
  <2> QED BY <2>1, <2>2
<1>8. CASE ReadBlock \/ Await \/ LastLook BY <1>8 DEF ReadBlock, Await, LastLook
<1>9. CASE BeginGeneration
  <2>1. pc = "begin" /\ generation = 0 /\ state # "Idle" /\ state # "Complete" /\ written[1] = 0
    BY <1>9 DEF BeginGeneration, IInv, Phases, Before
  <2>2. CASE Fail BY <2>1, <2>2, Publishing DEF Fail
  <2>3. CASE ~Fail
    BY <1>9, <2>1, <2>3 DEF BeginGeneration, Contract!Next, Contract!BeginGeneration, Contract!Open
  <2> QED BY <2>2, <2>3
<1>10. CASE ReadEnds
  <2>1. pc = "ended" BY <1>10 DEF ReadEnds
  <2> QED BY <1>10, <2>1, Publishing DEF ReadEnds, Goto, Fail
<1>11. CASE Write
  <2>1. generation = 1 /\ written[1] + 1 <= Whole /\ state # "Complete"
    BY <1>11, Bounds DEF Write, IInv, Typed, Phases, Counted, Passing
  <2>2. Contract!Append(1) BY <1>11, <2>1 DEF Write, Contract!Append, Contract!Open
  <2> QED BY <2>2, Bounds DEF Contract!Next
<1>12. CASE Commit
  <2>1. /\ generation = 1 /\ state # "Complete" /\ held + 1 = written[1]
        /\ ~holding => committed = held
    BY <1>12 DEF Commit, IInv, Typed, Phases, Counted, Passing
  <2>2. CASE holding BY <1>12, <2>2 DEF Commit, Committed, published
  <2>3. CASE ~holding
    <3>1. held + 1 \in committed .. Contract!CommitLimit /\ held + 1 \in 1 .. Contract!CommitLimit
      BY <2>1, <2>3 DEF Contract!CommitLimit, IInv, Typed
    <3>2. Contract!Commit(held + 1)
      BY <1>12, <2>1, <2>3, <3>1 DEF Commit, Committed, Contract!Commit, Contract!Open
    <3> QED BY <3>1, <3>2 DEF Contract!Next
  <2> QED BY <2>2, <2>3
<1>13. CASE Primed
  <2>1. generation = 1 /\ state # "Complete" /\ committed <= held /\ held <= written[1]
    BY <1>13 DEF Primed, IInv, Typed, Phases, Counted, Passing
  <2>2. CASE held > committed
    <3>1. held \in committed .. Contract!CommitLimit /\ held \in 1 .. Contract!CommitLimit
      BY <2>1, <2>2 DEF Contract!CommitLimit, IInv, Typed
    <3>2. Contract!Commit(held)
      BY <1>13, <2>1, <2>2, <3>1 DEF Primed, Contract!Commit, Contract!Open
    <3> QED BY <3>1, <3>2 DEF Contract!Next
  <2>3. CASE ~(held > committed) BY <1>13, <2>3 DEF Primed, published
  <2> QED BY <2>2, <2>3
<1>14. CASE PublishComplete
  <2>1. /\ generation = 1 /\ state # "Complete" /\ ~holding /\ committed = held
        /\ finished => held = written[1]
    BY <1>14 DEF PublishComplete, IInv, Phases, Counted, Passing, Finished
  <2>2. CASE finished
    BY <1>14, <2>1, <2>2 DEF PublishComplete, Outcome, Publish, Contract!Next,
       Contract!PublishComplete, Contract!Open
  <2>3. CASE ~finished BY <1>14, <2>3 DEF PublishComplete, Outcome, Publish, published
  <2> QED BY <2>2, <2>3
<1> QED
  BY <1>1, <1>2, <1>3, <1>4, <1>5, <1>6, <1>7, <1>8, <1>9, <1>10, <1>11, <1>12, <1>13, <1>14
  DEF Next, Starts, Worker, Quiet

\* The expander keeps the contract of SourceFetcher.h with its single
\* generation: the spool is published empty, every byte lands before a size that
\* covers it does, the withheld prime is let out in one go, and Complete comes
\* last.  What is proved of the contract is so proved of it.
THEOREM ContractKept == Spec => KeepsContract
  BY InitKeeps, StepKeeps, Invariance, PTL DEF Spec, KeepsContract, Contract!Spec

=============================================================================
