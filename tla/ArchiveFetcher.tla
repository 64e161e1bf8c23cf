--------------------------- MODULE ArchiveFetcher ---------------------------
(***************************************************************************)
(* core/ArchiveFetcher.cpp: one member of an archive expanded forward into *)
(* a local spool, on a worker of its own, from a container that is either  *)
(* a local file, which may be absent at first, or itself a spool that      *)
(* another fetcher is still filling (container.remote).  The two *)
(* fetchers chain: the container's is modelled by the snapshots a reader   *)
(* of SourceFetcher can see, and moves between any two steps of this one.  *)
(*                                                                         *)
(* The container holds Whole bytes: a header of one byte, after which each *)
(* byte is one byte of the member.  libarchive always reads past the last  *)
(* one, to look for a concatenated member.                                 *)
(***************************************************************************)
EXTENDS Naturals

CONSTANTS Whole,        \* bytes of the container
          Prime,        \* kPrimeBytes: member bytes in the first published size
          Troubles,     \* states the container's fetcher may fall back to
          MaxMoves,     \* bound: changes of a local container, troubles of a remote one
          MaxRotations, \* bound: rotations of a remote container
          MaxFaults     \* bound: refusals of the disk and of the archive

ASSUME ArchiveAssumption == /\ Whole \in Nat \ {0, 1} /\ Prime \in Nat \ {0}
                            /\ Troubles \subseteq {"Connecting", "Waiting", "Error",
                                                  "Disconnected"}
                            /\ MaxMoves \in Nat /\ MaxRotations \in Nat
                            /\ MaxFaults \in Nat

VARIABLES state, generation, committed, written, stopping,  \* FetchStatus, m_stopping
          held,       \* m_heldCommit
          holding,    \* m_holdBackCommits
          finished,   \* the local of the same name in expand()
          pc,         \* where the worker stands; "none" before it exists
          input,      \* m_input: "none", or the extent and generation it shows
          offset,     \* ArchiveStream: container bytes read
          took,       \* history: generations of the container those bytes were of
          before,     \* the local of awaitInput()
          cut,        \* history: a read ended because the fetcher was stopped
          container,  \* which it is: [remote, framed: the codec notices a cut]
          file,       \* the local container
          up,         \* the snapshot the container's fetcher publishes
          moves, rotations, faults   \* what is left of the bounds

published == <<state, generation, committed, written, stopping>>
stream == <<input, offset, took, before, cut>>
outside == <<container, file, up, moves, rotations>>
vars == <<published, stream, outside, held, holding, finished, pc, faults>>

NoInput == [size |-> 0, gen |-> 0, open |-> FALSE]
\* (broken is history: it failed, was stopped, or began a new generation.)
Spooled == [state |-> "Idle", gen |-> 0, committed |-> 0, total |-> 0, broken |-> FALSE]

Init == /\ state = "Idle" /\ generation = 0 /\ committed = 0
        /\ written = [g \in 0 .. 1 |-> 0]
        /\ stopping = FALSE /\ held = 0 /\ holding = FALSE /\ finished = FALSE
        /\ pc = "none" /\ input = NoInput /\ offset = 0 /\ took = {}
        /\ before = 0 /\ cut = FALSE
        /\ container \in [remote : BOOLEAN, framed : BOOLEAN]
        /\ file \in IF container.remote THEN {"absent"} ELSE {"absent", "there", "unreadable"}
        /\ up \in {Spooled} \cup (IF container.remote THEN {[Spooled EXCEPT !.state = "Connecting"]}
                                           ELSE {})
        /\ moves = MaxMoves /\ rotations = MaxRotations /\ faults = MaxFaults

-----------------------------------------------------------------------------
(* Around the fetcher: the local container, or the container's fetcher.    *)

FileMoves == /\ ~container.remote /\ moves > 0 /\ moves' = moves - 1
             /\ file' \in {"absent", "there", "unreadable"} \ {file}
             /\ UNCHANGED <<published, stream, container, up, rotations, held, holding,
                            finished, pc, faults>>

\* The container's fetcher, as SourceFetcher lets a reader see it.
UpRuns == /\ container.remote /\ up.state \notin {"Idle", "Disconnected"}
          /\ UNCHANGED <<published, stream, container, file, held, holding, finished,
                         pc, faults>>

\* It gets through to the container, and follows it once it has a spool.
UpAdvances == /\ UpRuns
              /\ \/ up.state \in {"Connecting", "Waiting", "Error"}
                 \/ up.state = "Priming" /\ up.gen > 0
              /\ \E s \in {"Priming"} \cup (IF up.gen > 0 THEN {"Live"} ELSE {}) :
                   s # up.state /\ up' = [up EXCEPT !.state = s, !.total = Whole]
              /\ UNCHANGED <<moves, rotations>>

\* It loses the container, for a while or for good.
UpTrouble == /\ UpRuns /\ moves > 0 /\ moves' = moves - 1
             /\ \E s \in Troubles \ {up.state} :
                  up' = [up EXCEPT !.state = s, !.broken = @ \/ s \notin {"Connecting", "Waiting"}]
             /\ UNCHANGED rotations

UpBegins == /\ UpRuns /\ up.state = "Priming" /\ up.gen = 0
            /\ up' = [up EXCEPT !.gen = 1]
            /\ UNCHANGED <<moves, rotations>>

UpRotates == /\ UpRuns /\ up.gen > 0 /\ rotations > 0
             /\ rotations' = rotations - 1
             /\ up' = [up EXCEPT !.gen = @ + 1, !.committed = 0, !.broken = TRUE]
             /\ UNCHANGED moves

UpCommits == /\ UpRuns /\ up.gen > 0 /\ up.state \in {"Priming", "Live"}
             /\ up.committed < Whole
             /\ up' = [up EXCEPT !.committed = @ + 1]
             /\ UNCHANGED <<moves, rotations>>

Environment == FileMoves \/ UpAdvances \/ UpTrouble \/ UpBegins \/ UpRotates \/ UpCommits

-----------------------------------------------------------------------------
(* What the fetcher publishes.                                             *)

Publish(s) == state' = s /\ UNCHANGED <<generation, committed, written, stopping>>

\* The open failed, or the expansion cannot go on: the input is dropped and
\* the worker ends.
Fail == /\ Publish("Error")
        /\ pc' = "done" /\ input' = NoInput
        /\ UNCHANGED <<offset, took, before, cut>>

\* A refusal of the disk, of the free-space check or of the archive.
Fault == faults > 0 /\ faults' = faults - 1

\* openContainerSource() on the container.
CanOpen == container.remote \/ file = "there"
LocalInput == [size |-> Whole, gen |-> 1, open |-> TRUE]
Refreshed == IF container.remote THEN [size |-> up.committed, gen |-> up.gen, open |-> TRUE]
             ELSE input

\* start(), in the two steps another thread can tell apart.  For a remote
\* container it acquires the container's spool, whose fetcher starts.
Start == /\ state = "Idle" /\ pc = "none"
         /\ Publish("Connecting") /\ pc' = "opening"
         /\ UNCHANGED <<stream, outside, held, holding, finished, faults>>

StartRemote == /\ pc = "opening" /\ container.remote
               /\ \/ /\ pc' = "top"
                     /\ up' = IF up.state = "Idle" THEN [up EXCEPT !.state = "Connecting"]
                                                    ELSE up
                     /\ input' = [NoInput EXCEPT !.open = TRUE]
                     /\ UNCHANGED <<published, faults>>
                  \/ /\ Fault /\ pc' = "refused" /\ Publish("Error")
                     /\ UNCHANGED <<input, up>>
               /\ UNCHANGED <<offset, took, before, cut, container, file, moves,
                              rotations, held, holding, finished>>

StartLocal == /\ pc = "opening" /\ ~container.remote
              /\ IF CanOpen THEN pc' = "top" /\ input' = LocalInput
                            ELSE pc' = "missing" /\ UNCHANGED input
              /\ UNCHANGED <<published, offset, took, before, cut, outside, held,
                             holding, finished, faults>>

\* logPresenceMayAppear(logSourcePresence()), a second look at the file.
MayAppear == file = "absent"

StartAbsent == /\ pc = "missing"
               /\ IF MayAppear THEN pc' = "top" /\ Publish("Waiting")
                               ELSE pc' = "refused" /\ Publish("Error")
               /\ UNCHANGED <<stream, outside, held, holding, finished, faults>>

\* A finished expansion stays finished.  Mutant: it does not.
StateOfStoppedAlways == "Disconnected"
StateOfStopped == IF state = "Complete" THEN state ELSE "Disconnected"

\* Cancel, or the tab is closed: once start() has returned, at any moment.
RequestStop == /\ pc \notin {"none", "opening", "missing"} /\ ~stopping
               /\ stopping' = TRUE
               /\ state' = StateOfStopped
               /\ UNCHANGED <<generation, committed, written, stream, outside, held,
                              holding, finished, pc, faults>>

-----------------------------------------------------------------------------
(* The worker, awaitContainer(): one step between two looks at anything    *)
(* another thread writes.                                                  *)

\* stopping(): at the top of each loop, and again after every read.
\* Mutant: a worker that never looks.
StopSeenNever == FALSE
StopSeen == stopping

Keep == UNCHANGED <<outside, held, holding, finished>>
Goto(p) == pc' = p /\ UNCHANGED <<published, stream, faults>>

\* m_stopping is read; after a wait slice the loop comes back here.
Top == /\ pc = "top" /\ Keep
       /\ Goto(IF StopSeen THEN "done" ELSE IF input.open THEN "refresh" ELSE "absent")

\* openAbsentContainer(): asked whether the file may still appear, ...
Absent == /\ pc = "absent" /\ Keep /\ UNCHANGED <<stream, faults>>
          /\ IF MayAppear THEN Publish("Waiting") /\ pc' = "top"
                          ELSE UNCHANGED published /\ pc' = "open"

\* ... and then opened, by a second look at it.
OpenContainer == /\ pc = "open" /\ Keep /\ UNCHANGED faults
                 /\ \/ /\ CanOpen /\ Publish("Connecting") /\ pc' = "refresh"
                       /\ input' = LocalInput
                       /\ UNCHANGED <<offset, took, before, cut>>
                    \/ ~CanOpen /\ Fail

Refresh == /\ pc = "refresh" /\ Keep
           /\ pc' = "vanish" /\ input' = Refreshed
           /\ UNCHANGED <<published, offset, took, before, cut, faults>>

\* originVanished() and notReadyYet(): two reads of the fetcher's snapshot.
OriginVanished == IF container.remote THEN up.state = "Waiting" ELSE file = "absent"
NotReadyYet == /\ container.remote /\ up.committed = 0
               /\ up.state \in {"Idle", "Connecting", "Priming", "Error"}

Vanished == /\ pc = "vanish" /\ Keep /\ Goto(IF OriginVanished THEN "top" ELSE "ready")
Ready == /\ pc = "ready" /\ Keep /\ Goto(IF NotReadyYet THEN "top" ELSE "read")

-----------------------------------------------------------------------------
(* ArchiveStream: a block of the container.                                *)

\* readBlock(): what is there, or one refresh, or awaitInput().
ReadBlock ==
  /\ pc = "read" /\ Keep /\ UNCHANGED <<published, faults>>
  /\ LET in == IF input.size > offset THEN input ELSE Refreshed
     IN /\ input' = in
        /\ IF in.size > offset
             THEN /\ offset' = offset + 1 /\ took' = took \cup {in.gen}
                  /\ pc' = "got" /\ UNCHANGED before
             ELSE /\ pc' = IF container.remote THEN "await" ELSE "ended"
                  /\ before' = in.size /\ UNCHANGED <<offset, took>>
        /\ UNCHANGED cut

\* awaitInput(): the stop, then a refresh, then the state, then a refresh.
Await == /\ pc = "await" /\ Keep /\ UNCHANGED <<published, faults, offset, took, before>>
         /\ IF StopSeen THEN pc' = "ended" /\ cut' = TRUE /\ UNCHANGED input
                        ELSE /\ input' = Refreshed /\ UNCHANGED cut
                             /\ pc' = IF Refreshed.size > before THEN "read" ELSE "judge"

\* Whether the container's fetcher has anything more to give.
\* Mutant: a healthy transport is never taken for exhausted.
ExhaustedTerminalOnly == up.state \in {"Idle", "Error", "Disconnected", "Complete"}
\* Mutant: an outage is taken for the end of the container.
ExhaustedByOutage == up.state # "Connecting"

Exhausted == \/ up.state \in {"Idle", "Error", "Disconnected", "Complete"}
             \/ /\ up.state \in {"Connecting", "Priming", "Live"}
                /\ up.total > 0 /\ up.committed >= up.total

Judge == /\ pc = "judge" /\ Keep /\ Goto(IF Exhausted THEN "last" ELSE "await")

LastLook == /\ pc = "last" /\ Keep
            /\ input' = Refreshed
            /\ pc' = IF Refreshed.size > before THEN "read" ELSE "ended"
            /\ UNCHANGED <<published, offset, took, before, cut, faults>>

-----------------------------------------------------------------------------
(* beginExpansion(): the stream is opened and positioned at the member; a  *)
(* format it cannot read, a missing member, an archive in the archive and  *)
(* a disk too full are refusals.                                           *)

Opening == generation = 0

HeaderFails == /\ Opening /\ Keep
               /\ \/ pc = "ended" /\ UNCHANGED faults
                  \/ pc = "got" /\ Fault
               /\ Fail

HeaderRead == /\ Opening /\ pc = "got" /\ Keep
              /\ Publish("Priming") /\ pc' = "begin"
              /\ UNCHANGED <<stream, faults>>

\* beginGeneration(): the spool file, then the generation, in one snapshot
\* with a size of zero.
BeginGeneration ==
  /\ pc = "begin" /\ UNCHANGED <<outside, finished>>
  /\ \/ /\ Fault /\ Fail /\ UNCHANGED <<held, holding>>
     \/ /\ generation' = 1 /\ committed' = 0 /\ held' = 0 /\ holding' = TRUE
        /\ pc' = "append"
        /\ UNCHANGED <<state, written, stopping, stream, faults>>

-----------------------------------------------------------------------------
(* expand(): during the prime (holding), then to the end.                  *)

\* The spool file is opened for this pass.
Append == /\ pc = "append" /\ Keep
          /\ Goto("expand") \/ (Fault /\ Fail)

EndOfPass == IF holding THEN "primed" ELSE "tail"

\* Top of the loop: the stop, and the prime's limit.
Expand == /\ pc = "expand" /\ Keep
          /\ \/ /\ ~(holding /\ held >= Prime)
                /\ Goto(IF StopSeen THEN EndOfPass ELSE "read")
             \/ holding /\ held >= Prime /\ Goto(EndOfPass)

\* The member's own end, known by reading past it: a cut container is an error
\* for a codec that frames its stream, a clean end for one that does not.
\* Mutant: the end of the input is the end of the member.
CutShortNever == FALSE
CutShort == container.framed /\ offset < Whole

ReadEnds == /\ ~Opening /\ pc = "ended" /\ UNCHANGED <<outside, held, holding>>
            /\ \/ StopSeen /\ Goto(EndOfPass) /\ UNCHANGED finished
               \/ ~StopSeen /\ CutShort /\ Fail /\ UNCHANGED <<finished, faults>>
               \/ ~StopSeen /\ ~CutShort /\ finished' = TRUE /\ Goto(EndOfPass)

ReadData == /\ ~Opening /\ pc = "got" /\ Keep
            /\ \/ Goto(IF StopSeen THEN EndOfPass ELSE "write")
               \/ ~StopSeen /\ Fault /\ Fail

\* The bytes land in the spool, or part of them, and write() or flush() fails.
Write == /\ pc = "write" /\ Keep
         /\ written' = [written EXCEPT ![generation] = @ + 1]
         /\ UNCHANGED <<state, generation, committed, stopping, stream>>
         /\ \/ pc' = "commit" /\ UNCHANGED faults
            \/ pc' = "torn" /\ Fault

Torn == pc = "torn" /\ Keep /\ Fail /\ UNCHANGED faults

\* Mutant: every chunk of the prime is published as it lands.
CommittedNow == held + 1
\* Mutant: a chunk is counted before it is in the spool.
CommittedAhead == held + 2
Committed == IF holding THEN committed ELSE held + 1

Commit == /\ pc = "commit" /\ UNCHANGED <<outside, holding, finished, stream, faults>>
          /\ held' = held + 1 /\ committed' = Committed
          /\ pc' = "expand"
          /\ UNCHANGED <<state, generation, written, stopping>>

\* publishHeldCommits(), then expandRest() unless the prime was the whole
\* member, or nothing at all.
Primed == /\ pc = "primed" /\ UNCHANGED <<outside, held, finished, faults>>
          /\ holding' = FALSE
          /\ committed' = IF held > committed THEN held ELSE committed
          /\ IF finished THEN pc' = "tail" /\ input' = NoInput
                         ELSE pc' = "append" /\ UNCHANGED input
          /\ UNCHANGED <<state, generation, written, stopping, offset, took, before,
                         cut>>

\* What the end of the last pass publishes.
Outcome == IF finished THEN "Complete" ELSE state

PublishComplete == /\ pc = "tail" /\ Keep
                   /\ Publish(Outcome) /\ pc' = "done"
                   /\ UNCHANGED <<stream, faults>>

Worker == \/ Top \/ Absent \/ OpenContainer \/ Refresh \/ Vanished \/ Ready
          \/ ReadBlock \/ Await \/ Judge \/ LastLook
          \/ HeaderFails \/ HeaderRead \/ BeginGeneration
          \/ Append \/ Expand \/ ReadEnds \/ ReadData \/ Write \/ Torn \/ Commit \/ Primed
          \/ PublishComplete

Starts == Start \/ StartRemote \/ StartLocal \/ StartAbsent

Next == Starts \/ RequestStop \/ Worker \/ Environment

Spec == Init /\ [][Next]_vars

\* The two threads run; the container's fetcher, once in trouble, comes back
\* or has stopped for good, and goes on fetching what there is.
FairSpec == /\ Spec
            /\ WF_vars(Starts) /\ WF_vars(Worker)
            /\ WF_vars(UpBegins) /\ WF_vars(UpCommits) /\ WF_vars(UpAdvances)

-----------------------------------------------------------------------------
(* Properties.                                                             *)

PCs == {"none", "opening", "missing", "refused", "top", "absent", "open", "refresh",
        "vanish", "ready", "read", "await", "judge", "last", "got", "ended", "begin",
        "append", "expand", "write", "torn", "commit", "primed", "tail", "done"}

\* A worker that is past its input has dropped it (ArchiveFetcher.cpp:320-470),
\* and no byte is published, or counted as held back, that is not in the spool.
TypeOK == /\ state \in {"Idle", "Connecting", "Priming", "Error", "Disconnected",
                        "Waiting", "Complete"}
          /\ generation \in 0 .. 1 /\ written \in [0 .. 1 -> 0 .. Whole]
          /\ stopping \in BOOLEAN /\ holding \in BOOLEAN /\ finished \in BOOLEAN
          /\ pc \in PCs /\ offset \in 0 .. Whole
          /\ committed \in 0 .. held /\ held \in 0 .. written[generation]

\* The first size anyone sees covers the whole format sample (expand():
\* "withheld during the prime"), unless the member is shorter or the
\* expansion was stopped in the middle of it.
PrimeIsWhole == committed > 0 /\ ~stopping => committed >= Prime \/ finished

\* An expansion that says it is finished holds the whole member, whatever
\* outages the container's fetcher went through meanwhile (awaitInput()), and
\* even if it failed or was stopped, where the codec notices a cut.
WholeMember == state = "Complete" /\ (container.framed \/ ~up.broken)
                 => committed = Whole - 1

\* The contract of SourceFetcher.h, with a single generation.
Contract == INSTANCE SourceFetcher WITH MaxGeneration <- 1, MaxSize <- Whole
KeepsContract == Contract!Spec

\* A stop ends the worker wherever it stands, inside a read that is waiting
\* for the container included: isStopped() becomes true and the reaper may
\* destroy the fetcher.
StopEnds == stopping ~> pc \in {"done", "refused"}

\* The expansion of a remote container ends, although the fetcher it reads
\* from goes on following the container for ever (awaitInput(): "not optional").
ExpansionEnds == container.remote /\ pc = "top" ~> pc = "done"

\* "A CANCEL IS NOT AN OUTCOME" (expand()): a stop that breaks off a read is
\* not shown as a damaged archive.
CancelIsNotAnOutcome == ~(cut /\ state = "Error")

\* requestStop(): "the state a reader sees the moment it cancels should be the
\* state it asked for": a stopped worker does not leave "Expanding" behind it.
StopIsShown == stopping /\ pc = "done" => state \notin {"Priming", "Connecting"}

\* awaitInput(): "rotation of the container is the transport's business": the
\* bytes of one member come from one container.
OneContainer == state = "Complete" => \E g \in took : took = {g}

\* start(): "a container that is merely not there is a wait, not a refusal", and
\* one that is there and can be read is expanded: only one that is there and
\* will not open is refused.
AbsenceIsAWait ==
  [][(pc = "missing" \/ pc = "open") /\ state' = "Error" => file = "unreadable"]_vars
=============================================================================
