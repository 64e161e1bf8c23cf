------------------------------ MODULE SshFetcher ------------------------------
(***************************************************************************)
(* The fetcher behind a log read over SSH (core/SshFetcher.cpp) with the   *)
(* parts of SshSession it drives.  Three parties interleave: the worker    *)
(* (tailLoop), one step per critical section or network call; the          *)
(* application thread (start, pokeNow, requestStop); and the far end, where *)
(* the log grows, is renamed away and recreated, removed, made unreadable, *)
(* and where the link drops.                                               *)
(*                                                                         *)
(* A byte is a pair <<content, offset>> that names the remote text it is   *)
(* from.  Times are abstracted: a wait may end at any moment, the paced    *)
(* head probe may be due or not, the reconnect grace may have run out.     *)
(***************************************************************************)
EXTENDS Integers, Sequences

CONSTANTS
  Transport,      \* "sftp" or "exec": what the session settled on
  PrimeBytes,     \* kPrimeBytes
  HeadProbeBytes, \* kHeadProbeBytes
  TailStart,      \* m_options.tailStartBytes, 0 for the whole log
  SizeRungs,      \* exec: the rungs of the size ladder an open may settle on
  SettleCeiling,  \* kWcSettleCeiling: the largest log the `wc' rung is settled on for
  AbandonCeiling, \* kWcAbandonBytes: the largest log it goes on measuring
  FstatAnswers,   \* what the probe in openFile() may conclude about FSTAT
  Presences,      \* what may be at the remote path
  AuthAnswers,    \* what the host may say to a login
  DiskFaults,     \* subset of {"create", "write"}: what the spool disk may refuse
  RewriteInPlace, \* the log may be rewritten without a rename
  NoSession, NoFile, \* model values: no connection, no open handle
  MaxGeneration,  \* bound: generations of the spool
  MaxSize,        \* bound: bytes in the remote log
  MaxChanges,     \* bound: changes to the remote log
  MaxOutages,     \* bound: times the link or the host goes away, or a login changes
  MaxPresses,     \* bound: presses of File > Reconnect
  MaxFaults,      \* bound: operations the spool disk refuses
  MaxMoves        \* bound: times a discovered device changes its address

ASSUME SshAssumption ==
  /\ Transport \in {"sftp", "exec"}
  /\ PrimeBytes \in Nat \ {0} /\ HeadProbeBytes \in Nat \ {0} /\ TailStart \in Nat
  /\ SizeRungs \subseteq {"stat", "ls", "wc"} /\ SizeRungs # {}
  /\ SettleCeiling \in Nat /\ AbandonCeiling \in Nat /\ RewriteInPlace \in BOOLEAN
  /\ FstatAnswers \subseteq BOOLEAN /\ FstatAnswers # {}
  /\ Presences \subseteq {"present", "absent", "unreadable", "folder"}
  /\ AuthAnswers \subseteq {"ok", "person", "refused"}
  /\ DiskFaults \subseteq {"create", "write"}
  /\ MaxGeneration \in Nat /\ MaxSize \in Nat /\ MaxChanges \in Nat
  /\ MaxOutages \in Nat /\ MaxPresses \in Nat /\ MaxFaults \in Nat /\ MaxMoves \in Nat

VARIABLES
  \* under m_mutex
  state, generation, committed, base, retryAt, stopping, poked, refused, wantsPrompter,
  \* the spool files
  file,
  \* the worker's own
  pc, task, mayPrompt, failure, offset, fetchTo, held, seen, lastSize, lastMtime,
  sawRefused, grace, session,
  \* the far end and the application's presses
  far, link, auth, addr, changes, outages, presses, faults, moves,
  \* history, read by no step: whether the link was gone while this attempt was
  \* signing in, and whether a text that is not the spool's was taken for an append
  cut, overlooked

status  == <<generation, committed, base>>
flags   == <<stopping, poked, refused, wantsPrompter>>
fetch   == <<task, offset, fetchTo, held>>
stats   == <<seen, lastSize, lastMtime>>
attempt == <<mayPrompt, failure, grace>>
marks   == <<sawRefused, cut, overlooked>>
world   == <<far, link, auth, addr, changes, outages, presses, faults, moves>>
vars == <<state, status, retryAt, flags, file, pc, fetch, stats, attempt, marks, session,
          world>>

Unknown   == -1          \* kUnknownMtime

Generations == 0 .. MaxGeneration
Contents    == 1 .. MaxChanges + 1
Bytes       == Contents \X (0 .. MaxSize - 1)
Handles     == [inode : Contents, content : Contents, size : 0 .. MaxSize]
Rungs       == {"none", "stat", "ls", "wc"}
Sessions    == [alive : BOOLEAN, handle : Handles \cup {NoFile}, rung : Rungs,
                tracks : BOOLEAN, addr : 0 .. MaxMoves + 1]

\* A null pointer is no session, and a closed handle is no file.
ASSUME AbsenceAssumption == NoSession \notin Sessions /\ NoFile \notin Handles

Slow == {"Error", "Waiting"}

Least(a, b) == IF a < b THEN a ELSE b
Most(a, b)  == IF a < b THEN b ELSE a

\* Why an attempt failed (SshSession::Failure).  "Unfit" is a Refused that is about
\* what is at the path: a folder, or a log too large for the only way to measure it.
Failures == {"None", "Unreachable", "NoSuchFile", "NeedsPerson", "Refused", "Unfit"}

PCs == {"unstarted", "top", "consume", "connect", "dial", "signin", "settle", "open", "estat", "begin",
        "announce", "priming", "fetch", "read", "commit", "fetched", "broken", "live",
        "failed", "latch", "poll", "judge", "reopen", "fresh", "sleep", "asleep", "done"}

------------------------------------------------------------------------------
(* Contract instance and type invariant *)

\* A write the disk refused half-way leaves its bytes in the file, and the next
\* fetch writes them again: that is what a file may hold more than the log.
Contract == INSTANCE SourceFetcher
              WITH written <- [g \in Generations |-> Len(file[g])],
                   MaxSize <- MaxSize * (MaxFaults + 1)

\* The values every variable may hold.
TypeOK ==
  /\ state \in Contract!States /\ generation \in Generations
  /\ committed \in 0 .. MaxSize /\ base \in 0 .. MaxSize
  /\ retryAt \in BOOLEAN /\ stopping \in BOOLEAN /\ poked \in BOOLEAN
  /\ refused \in BOOLEAN /\ wantsPrompter \in BOOLEAN
  /\ file \in [Generations -> Seq(Bytes)]
  /\ pc \in PCs /\ task \in {"prime", "rotate", "append"}
  /\ mayPrompt \in BOOLEAN
  /\ failure \in Failures
  /\ offset \in 0 .. MaxSize /\ fetchTo \in 0 .. MaxSize /\ held \in 0 .. MaxSize
  /\ seen \in [size : 0 .. MaxSize, mtime : Int]
  /\ lastSize \in 0 .. MaxSize /\ lastMtime \in Int
  /\ sawRefused \in BOOLEAN /\ cut \in BOOLEAN /\ overlooked \in BOOLEAN
  /\ grace \in {"never", "fresh", "running"}
  /\ session \in Sessions \cup {NoSession}
  /\ far \in [presence : {"present", "absent", "unreadable", "folder"}, inode : Contents,
              content : Contents, size : 0 .. MaxSize, mtime : 0 .. MaxChanges + 1]
  /\ link \in {"up", "down"} /\ auth \in {"ok", "person", "refused"}
  /\ addr \in 0 .. MaxMoves + 1

Init ==
  /\ state = "Idle" /\ generation = 0 /\ committed = 0 /\ base = 0 /\ retryAt = FALSE
  /\ stopping = FALSE /\ poked = FALSE /\ refused = FALSE /\ wantsPrompter = FALSE
  /\ file = [g \in Generations |-> <<>>]
  /\ pc = "unstarted" /\ task = "prime" /\ mayPrompt = FALSE /\ failure = "None"
  /\ offset = 0 /\ fetchTo = 0 /\ held = 0
  /\ seen = [size |-> 0, mtime |-> Unknown] /\ lastSize = 0 /\ lastMtime = Unknown
  /\ sawRefused = FALSE /\ cut = FALSE /\ overlooked = FALSE /\ grace = "never" /\ session = NoSession
  /\ \E p \in Presences, n \in 0 .. MaxSize :
       far = [presence |-> p, inode |-> 1, content |-> 1,
              size |-> IF p = "absent" THEN 0 ELSE n, mtime |-> 0]
  /\ link = "up" /\ auth \in AuthAnswers /\ addr = 1
  /\ changes = 0 /\ outages = 0 /\ presses = 0 /\ faults = 0 /\ moves = 0

------------------------------------------------------------------------------
(* The far end *)

\* What an open SFTP handle refers to: the live file while the name still leads
\* to it, and the renamed or removed one afterwards.
HandleFile(h) ==
  IF far.presence # "absent" /\ far.inode = h.inode
    THEN [content |-> far.content, size |-> far.size]
    ELSE [content |-> h.content, size |-> h.size]

\* The handle once the name has moved on: it keeps the file it was opened on.
Detached ==
  IF session = NoSession THEN NoSession
  ELSE IF session.handle = NoFile THEN session
  ELSE [session EXCEPT !.handle.content = HandleFile(session.handle).content,
                       !.handle.size    = HandleFile(session.handle).size]

FarUnchanged == UNCHANGED <<state, status, retryAt, flags, file, pc, fetch, stats, attempt,
                            marks, link, auth, addr, outages, presses, faults, moves>>

\* The log is appended to.  Its mtime may not move: two writes in one second.
FarGrow(n) ==
  /\ changes < MaxChanges /\ far.presence # "absent" /\ far.size + n <= MaxSize
  /\ \E t \in {far.mtime, changes + 1} : far' = [far EXCEPT !.size = @ + n, !.mtime = t]
  /\ changes' = changes + 1
  /\ FarUnchanged /\ UNCHANGED session

\* logrotate: the file is renamed away, or removed, and a new one, of an mtime of its
\* own, may already be there.
FarReplace(p, n) ==
  /\ changes < MaxChanges
  /\ far' = [presence |-> p, inode |-> changes + 2, content |-> changes + 2,
             size |-> IF p = "absent" THEN 0 ELSE n, mtime |-> changes + 1]
  /\ session' = Detached
  /\ changes' = changes + 1
  /\ FarUnchanged

\* `cp other app.log', or a copytruncate: the same file holds another text.
FarRewrite(n) ==
  /\ RewriteInPlace /\ changes < MaxChanges /\ far.presence # "absent"
  /\ far' = [far EXCEPT !.content = changes + 2, !.size = n, !.mtime = changes + 1]
  /\ changes' = changes + 1
  /\ FarUnchanged /\ UNCHANGED session

\* chmod of a file that is there.
FarChmod(p) ==
  /\ changes < MaxChanges /\ {p, far.presence} = {"present", "unreadable"}
  /\ far' = [far EXCEPT !.presence = p]
  /\ changes' = changes + 1
  /\ FarUnchanged /\ UNCHANGED session

\* The network or the host goes away, which ends every connection to it, or is back.
LinkDrop ==
  /\ link = "up" /\ outages < MaxOutages
  /\ link' = "down" /\ outages' = outages + 1
  /\ session' = IF session = NoSession THEN NoSession ELSE [session EXCEPT !.alive = FALSE]
  /\ UNCHANGED <<state, status, retryAt, flags, file, pc, fetch, stats, attempt,
                 marks, far, auth, addr, changes, presses, faults, moves>>

LinkBack(a) ==
  /\ link = "down"
  /\ link' = "up" /\ auth' = a
  /\ UNCHANGED <<state, status, retryAt, flags, file, pc, fetch, stats, attempt,
                 marks, session, far, addr, changes, outages, presses, faults, moves>>

\* Somebody signs the account in, or sets its password, while nothing else changes.
AuthChange(a) ==
  /\ a # auth /\ outages < MaxOutages
  /\ auth' = a /\ outages' = outages + 1
  /\ UNCHANGED <<state, status, retryAt, flags, file, pc, fetch, stats, attempt,
                 marks, session, far, link, addr, changes, presses, faults, moves>>

\* A discovered device is seen at another address, or (0) is not seen for a while.
DeviceMove(a) ==
  /\ moves < MaxMoves /\ a # addr
  /\ addr' = a /\ moves' = moves + 1
  /\ UNCHANGED <<state, status, retryAt, flags, file, pc, fetch, stats, attempt,
                 marks, session, far, link, auth, changes, outages, presses, faults>>

------------------------------------------------------------------------------
(* SshSession: what one call answers *)

\* A call on the session gets through: the link held since it was made, and no
\* requestStop() has shut its socket (abort()).
NetUp == session.alive /\ ~stopping

\* statPath(): a stat by name.  It needs no permission on the file itself.  An
\* exec session answers only while a size rung is settled.
StatAnswers == NetUp /\ far.presence # "absent"
                     /\ (Transport = "exec" => session.rung # "none")

StatResult == [size  |-> far.size,
               mtime |-> IF Transport = "exec" /\ session.rung # "stat" THEN Unknown
                                                                       ELSE far.mtime]

\* openFile(), which begins with closeFile().
ClosedSession == [session EXCEPT !.handle = NoFile, !.rung = "none"]

\* The rungs that can measure the log.  Which of them answers is asked at every open.
FitRungs == {r \in SizeRungs : r = "wc" => far.size <= SettleCeiling}

Openable == NetUp /\ far.presence = "present"

OpenedSessions ==
  IF Transport = "exec"
    THEN {[ClosedSession EXCEPT !.rung = r, !.tracks = FALSE] : r \in FitRungs}
    ELSE {[ClosedSession EXCEPT !.tracks = t, !.handle = [inode |-> far.inode,
             content |-> far.content, size |-> far.size]] : t \in FstatAnswers}

\* Why the open failed, where it did.  Over SFTP the code is read from classifyPath(),
\* which on a link that has died cannot tell and leaves `known' false: a Refused.
\* Over exec a channel that died between two rungs reads as a log that is missing.
\* Mutant: a dead link is told from a refusal over SFTP, and not over exec.
DeadLinkFailuresSwapped == IF Transport = "sftp" THEN {"Unreachable"} ELSE {"Refused"}

DeadLinkFailures == IF Transport = "exec" THEN {"Unreachable", "NoSuchFile"} ELSE {"Refused"}

OpenFailures ==
  IF ~NetUp THEN DeadLinkFailures
  ELSE IF far.presence = "folder" THEN {"Unfit"}
  ELSE IF far.presence # "present" THEN {"NoSuchFile"}
  ELSE IF Transport = "exec" /\ FitRungs # SizeRungs THEN {"Unfit"} ELSE {}

\* The text readAt() reads from: through the handle over SFTP, by name over exec;
\* without an open file it is at its end.
ReadFile ==
  IF Transport = "exec"
    THEN IF session.rung # "none" /\ far.presence = "present"
           THEN [content |-> far.content, size |-> far.size]
           ELSE [content |-> 1, size |-> 0]
    ELSE IF session.handle = NoFile THEN [content |-> 1, size |-> 0]
                                    ELSE HandleFile(session.handle)

\* The bytes of a text between two remote offsets.
Text(content, from, to) == [i \in 1 .. Most(0, to - from) |-> <<content, from + i - 1>>]

------------------------------------------------------------------------------
(* The application thread *)

\* start(): nothing is connected here; the worker begins its loop.
Start ==
  /\ pc = "unstarted" /\ state = "Idle"
  /\ wantsPrompter' \in BOOLEAN        \* whether the application can ask anybody
  /\ state' = "Connecting"
  /\ pc' = "top"
  /\ UNCHANGED <<status, retryAt, stopping, poked, refused, file, fetch, stats, attempt,
                 marks, session, world>>

\* pokeNow(): File > Reconnect, enabled on every spooled log, connected or not.
PokeNow ==
  /\ pc # "unstarted" /\ presses < MaxPresses
  /\ presses' = presses + 1
  /\ poked' = TRUE /\ refused' = FALSE /\ wantsPrompter' = TRUE
  /\ UNCHANGED <<state, status, retryAt, stopping, file, pc, fetch, stats, attempt,
                 marks, session, far, link, auth, addr, changes, outages, faults, moves>>

\* requestStop(): idempotent, publishes Disconnected at once.
RequestStop ==
  /\ ~stopping
  /\ stopping' = TRUE /\ state' = "Disconnected"
  /\ UNCHANGED <<status, retryAt, poked, refused, wantsPrompter, file, pc, fetch, stats,
                 attempt, marks, session, world>>

------------------------------------------------------------------------------
(* The worker *)

Goto(p) == pc' = p

\* setState(), setError(), setWaiting(): the state, and no deadline any more.
Say(s) == state' = s /\ retryAt' = FALSE
Quiet  == UNCHANGED <<state, retryAt>>

\* tailLoop(): whether this turn is the last.
\* Mutant: a worker that has been refused sleeps on through a stop.
EndsUnlessRefused == stopping /\ ~refused

Ends == stopping

\* tailLoop(): whether a worker without a session may connect.
\* Mutant: a host that has refused is asked again every turn.
MayTryAlways == TRUE

MayTry == ~refused

\* tailLoop(), the top of a turn.
Top ==
  /\ pc = "top"
  /\ IF Ends THEN Goto("done") /\ UNCHANGED sawRefused
     ELSE /\ sawRefused' = refused
          /\ Goto(IF session # NoSession THEN "poll"
                  ELSE IF MayTry THEN "consume" ELSE "sleep")
  /\ Quiet /\ UNCHANGED <<status, flags, file, fetch, stats, attempt, cut, overlooked, session,
                          world>>

\* reconnect() takes the permission to ask a person, for this attempt only.
Consume ==
  /\ pc = "consume"
  /\ mayPrompt' = wantsPrompter /\ wantsPrompter' = FALSE
  /\ failure' = "None" /\ cut' = FALSE
  /\ Goto("connect")
  /\ Quiet /\ UNCHANGED <<status, stopping, poked, refused, file, fetch, stats, grace,
                          sawRefused, overlooked, session, world>>

\* establish(): find the device, say Connecting unless it is being waited for, and
\* let go of whatever session there was.
Connect ==
  /\ pc = "connect"
  /\ IF addr = 0
       THEN /\ Say("Waiting") /\ failure' = "Unreachable" /\ Goto("failed")
            /\ UNCHANGED session
       ELSE /\ IF state = "Waiting" THEN Quiet ELSE Say("Connecting")
            /\ session' = NoSession /\ Goto("dial") /\ UNCHANGED failure
  /\ UNCHANGED <<status, flags, file, fetch, stats, mayPrompt, grace, marks, world>>

\* connectTo(), up to the handshake: a host that does not answer is Unreachable.
Dial ==
  /\ pc = "dial"
  /\ IF stopping \/ link = "down"
       THEN failure' = "Unreachable" /\ Goto("failed") /\ UNCHANGED session
       ELSE /\ session' = [alive |-> TRUE, handle |-> NoFile, rung |-> "none",
                           tracks |-> FALSE, addr |-> Most(addr, 1)]
            /\ Goto("signin") /\ UNCHANGED failure
  /\ Quiet /\ UNCHANGED <<status, flags, file, fetch, stats, mayPrompt, grace, marks, world>>

\* authenticate(), which calls it a Refused from its first line on.  On a link that
\* is gone the server offers nothing, or the keys, or the passwords, are rejected.  A
\* person may sign in or cancel the dialog.
SignInAnswers ==
  IF ~NetUp THEN {"Refused", "NeedsPerson"}
  ELSE CASE auth = "ok"      -> {"None"}
         [] auth = "person"  -> IF mayPrompt THEN {"None", "Refused"} ELSE {"NeedsPerson"}
         [] auth = "refused" -> {"Refused"}

SignIn ==
  /\ pc = "signin"
  /\ \E answer \in SignInAnswers :
       /\ failure' = answer
       /\ IF answer = "None" THEN Goto("settle") /\ UNCHANGED session
                             ELSE Goto("failed") /\ session' = NoSession
  /\ cut' = ~NetUp
  /\ Quiet /\ UNCHANGED <<status, flags, file, fetch, stats, mayPrompt, grace, sawRefused,
                          overlooked, world>>

\* connectTo(), once let in: SFTP, or the probe of the shell.  Neither answers on a
\* link that is gone, which is told from a server that has neither by a timeout only.
SettleAnswers == IF NetUp THEN {"None"} ELSE {"Refused", "Unreachable"}

Settle ==
  /\ pc = "settle"
  /\ \E answer \in SettleAnswers :
       /\ failure' = answer
       /\ IF answer = "None" THEN Goto("open") /\ UNCHANGED session
                             ELSE Goto("failed") /\ session' = NoSession
  /\ cut' = ~NetUp
  /\ Quiet /\ UNCHANGED <<status, flags, file, fetch, stats, mayPrompt, grace, sawRefused,
                          overlooked, world>>

OpenFile ==
  /\ pc = "open"
  /\ \/ /\ Openable /\ session' \in OpenedSessions
        /\ Goto("estat") /\ UNCHANGED failure
     \/ failure' \in OpenFailures /\ session' = NoSession /\ Goto("failed")
  /\ Quiet /\ UNCHANGED <<status, flags, file, fetch, stats, mayPrompt, grace, marks, world>>

\* The stat after the open; Priming is said before the generation is begun.
EstablishStat ==
  /\ pc = "estat"
  /\ IF StatAnswers
       THEN /\ lastSize' = StatResult.size /\ lastMtime' = StatResult.mtime
            /\ task' = "prime" /\ fetchTo' = StatResult.size
            /\ Say("Priming") /\ Goto("begin") /\ UNCHANGED <<session, failure>>
       ELSE /\ session' = NoSession /\ failure' = "NoSuchFile" /\ Goto("failed")
            /\ Quiet /\ UNCHANGED <<lastSize, lastMtime, task, fetchTo>>
  /\ UNCHANGED <<status, flags, file, offset, held, seen, mayPrompt, grace, marks,
                 world>>

\* The spool file a new generation is written to.
\* Mutant: the current file is truncated, as it is by a rewrite in place.
NextFileReused == generation

NextFile == generation + 1

\* beginGeneration(), first half: an empty file for the next generation.
Begin ==
  /\ pc = "begin" /\ generation < MaxGeneration
  /\ \/ /\ file' = [file EXCEPT ![NextFile] = <<>>]
        /\ Goto("announce") /\ UNCHANGED faults
     \/ /\ "create" \in DiskFaults /\ faults < MaxFaults
        /\ faults' = faults + 1
        /\ Goto("broken") /\ UNCHANGED file
  /\ Quiet /\ UNCHANGED <<status, flags, fetch, stats, attempt, marks, session,
                          far, link, auth, addr, changes, outages, presses, moves>>

\* The remote offset a generation starts at, of a log of this size.
BaseOf(size) == IF TailStart > 0 /\ size > TailStart THEN size - TailStart ELSE 0

\* beginGeneration(), second half, in one critical section.
Announce ==
  /\ pc = "announce"
  /\ base' = BaseOf(fetchTo) /\ committed' = 0 /\ generation' = generation + 1
  /\ held' = 0 /\ offset' = BaseOf(fetchTo) /\ overlooked' = FALSE
  /\ IF task = "prime"
       THEN /\ fetchTo' = Least(fetchTo, BaseOf(fetchTo) + PrimeBytes) /\ Goto("fetch")
       ELSE UNCHANGED fetchTo /\ Goto("priming")
  /\ Quiet /\ UNCHANGED <<flags, file, task, stats, attempt, sawRefused, cut, session, world>>

\* pollOnce() after a rotation: the generation is out, say Priming and re-fetch.
Priming ==
  /\ pc = "priming"
  /\ Say("Priming") /\ Goto("fetch")
  /\ UNCHANGED <<status, flags, file, fetch, stats, attempt, marks, session, world>>

\* fetchForward(), the top of its loop.
Fetch ==
  /\ pc = "fetch"
  /\ Goto(IF offset < fetchTo /\ ~stopping THEN "read" ELSE "fetched")
  /\ Quiet /\ UNCHANGED <<status, flags, file, fetch, stats, attempt, marks, session,
                          world>>

\* One readAt() and the write of what it returned.  A read may be short; a write
\* the disk refuses may have landed in part, which nothing takes back.
Read ==
  /\ pc = "read"
  /\ LET src   == ReadFile
         avail == Least(src.size, fetchTo)
     IN \/ /\ ~NetUp
           /\ Goto("broken") /\ UNCHANGED <<file, offset, faults>>
        \/ /\ NetUp /\ avail <= offset
           /\ Goto("fetched") /\ UNCHANGED <<file, offset, faults>>
        \/ /\ NetUp
           /\ \E to \in offset + 1 .. avail :
                /\ file' = [file EXCEPT ![generation] = @ \o Text(src.content, offset, to)]
                /\ offset' = to
           /\ Goto("commit") /\ UNCHANGED faults
        \/ /\ NetUp /\ "write" \in DiskFaults /\ faults < MaxFaults
           /\ \E to \in offset .. avail - 1 :
                file' = [file EXCEPT ![generation] = @ \o Text(src.content, offset, to)]
           /\ faults' = faults + 1
           /\ Goto("broken") /\ UNCHANGED offset
  /\ Quiet /\ UNCHANGED <<status, flags, task, fetchTo, held, stats, attempt, marks,
                          session, far, link, auth, addr, changes, outages, presses, moves>>

\* What a chunk publishes: nothing while the prime is held back (m_holdBackCommits).
\* Mutants: every chunk of the prime is published as it lands; the size is one
\* byte ahead of the write.
CommittedAfterAlways == offset - base
CommittedAfterAhead  == IF task = "prime" THEN committed ELSE offset - base + 1

CommittedAfter == IF task = "prime" THEN committed ELSE offset - base

Commit ==
  /\ pc = "commit"
  /\ held' = offset - base
  /\ committed' = CommittedAfter
  /\ Goto("fetch")
  /\ Quiet /\ UNCHANGED <<generation, base, flags, file, task, offset, fetchTo, stats,
                          attempt, marks, session, world>>

\* publishHeldCommits(), for a prime; the other fetches have published as they went.
Fetched ==
  /\ pc = "fetched"
  /\ committed' = IF task = "prime" THEN Most(held, committed) ELSE committed
  /\ Goto("live")
  /\ Quiet /\ UNCHANGED <<generation, base, flags, file, fetch, stats, attempt, marks,
                          session, world>>

\* A fetch or a beginGeneration() that failed says so; a prime is then given up.
Broken ==
  /\ pc = "broken"
  /\ Say("Error")
  /\ IF task = "prime"
       THEN session' = NoSession /\ failure' = "Unreachable" /\ Goto("failed")
       ELSE UNCHANGED <<session, failure>> /\ Goto("sleep")
  /\ UNCHANGED <<status, flags, file, fetch, stats, mayPrompt, grace, marks, world>>

\* setState(Live), the last thing every successful fetch does.
Live ==
  /\ pc = "live"
  /\ Say("Live") /\ Goto("sleep")
  /\ grace' = IF task = "prime" THEN "fresh" ELSE grace       \* signedIn()
  /\ task' = "append"
  /\ UNCHANGED <<status, flags, file, offset, fetchTo, held, stats, mayPrompt, failure,
                 marks, session, world>>

\* reconnect(), the attempt having failed.  keepTrying() is true for the first such
\* failure of an outage and until the grace has run out after that.
Retry ==
  /\ pc = "failed"
  /\ \/ failure \in {"Unreachable", "NoSuchFile"} /\ UNCHANGED grace
     \/ failure = "NeedsPerson" /\ grace # "never" /\ grace' = "running"
  /\ Say("Waiting") /\ Goto("sleep")
  /\ UNCHANGED <<status, flags, file, fetch, stats, mayPrompt, failure, marks, session,
                 world>>

GiveUp ==
  /\ pc = "failed"
  /\ \/ failure \in {"Refused", "Unfit"} /\ Say("Error")
     \/ failure = "NeedsPerson" /\ grace # "fresh" /\ Say("Waiting")
  /\ Goto("latch")
  /\ UNCHANGED <<status, flags, file, fetch, stats, attempt, marks, session, world>>

\* ... and m_reconnectRefused, in a critical section of its own.
Latch ==
  /\ pc = "latch"
  /\ refused' = TRUE /\ Goto("sleep")
  /\ Quiet /\ UNCHANGED <<status, stopping, poked, wantsPrompter, file, fetch, stats,
                          attempt, marks, session, world>>

\* isConnected(): asked of the transport's own record of the last failure.
\* Mutant: asked of the pointer, which a dead link leaves set.
IsConnectedPointer == session # NoSession

IsConnected == NetUp

\* pollOnce(): has the device moved, what does the name say, and is what it says worth
\* its price?
Poll ==
  /\ pc = "poll"
  /\ LET moved   == addr # 0 /\ addr # session.addr
         tooDear == StatAnswers /\ session.rung = "wc" /\ far.size > AbandonCeiling
     IN \/ /\ moved /\ session' = NoSession /\ Say("Waiting") /\ poked' = TRUE
           /\ Goto("sleep") /\ UNCHANGED seen
        \/ /\ ~moved /\ ~StatAnswers
           /\ session' = IF IsConnected THEN session ELSE NoSession
           /\ Say("Waiting") /\ Goto("sleep") /\ UNCHANGED <<seen, poked>>
        \/ /\ ~moved /\ tooDear
           /\ Say("Error") /\ Goto("sleep") /\ UNCHANGED <<seen, poked, session>>
        \/ /\ ~moved /\ StatAnswers /\ ~tooDear
           /\ seen' = StatResult /\ Goto("judge") /\ Quiet /\ UNCHANGED <<session, poked>>
  /\ UNCHANGED <<status, stopping, refused, wantsPrompter, file, fetch, lastSize, lastMtime,
                 attempt, marks, world>>

\* How much of the remote log has been read.
\* Mutant: a spool that begins in the middle of the log is taken to begin at 0.
ConsumedFromSpoolStart == committed

Consumed == base + committed

\* rotationVerdict(): what this poll's stat justifies.  The order of the tests is
\* the contract.
Verdict(size, mtime, consumed, handleSize) ==
  CASE size < consumed -> "Rotated"
    [] size >= consumed /\ session.tracks ->
         IF handleSize # Unknown /\ handleSize # size THEN "Rotated"
         ELSE IF size > lastSize THEN "ComparePaced" ELSE "Nothing"
    [] size >= consumed /\ ~session.tracks /\ mtime = Unknown -> "ComparePaced"
    [] size >= consumed /\ ~session.tracks /\ mtime # Unknown ->
         IF mtime > lastMtime /\ size = lastSize THEN "CompareNow"
         ELSE IF size > lastSize THEN "ComparePaced" ELSE "Nothing"

\* statHandle(): what the open handle refers to, where there is one.
HandleSize == IF NetUp /\ session.handle # NoFile THEN HandleFile(session.handle).size
              ELSE Unknown

\* remoteHeadDiffersFromSpool(): the first bytes of both, if both have them.
HeadDiffers ==
  LET want == Least(HeadProbeBytes, committed)
  IN /\ want > 0 /\ NetUp
     /\ ReadFile.size - base >= want
     /\ Text(ReadFile.content, base, base + want) # SubSeq(file[generation], 1, want)

\* Whether the log was rotated, a paced compare being due or not (stallProbeDue()).
\* Mutant: a handle and a name that disagree are not looked at.
RotatedShrinkOnly(due) == seen.size < Consumed

Rotated(due) ==
  LET verdict == Verdict(seen.size, seen.mtime, Consumed, HandleSize)
  IN \/ verdict = "Rotated"
     \/ verdict = "CompareNow" /\ HeadDiffers
     \/ verdict = "ComparePaced" /\ due /\ HeadDiffers

\* A text at the path that does not begin as the spool does.
OtherText ==
  LET want == Least(HeadProbeBytes, committed)
  IN /\ want > 0 /\ far.presence # "absent" /\ far.size - base >= want
     /\ Text(far.content, base, base + want) # SubSeq(file[generation], 1, want)

\* Another text that this poll lets pass: the compare is not due or cannot be read, or
\* the log is smaller than it last was and no smaller than what was read of it.
LetsPass(due) ==
  LET verdict == Verdict(seen.size, seen.mtime, Consumed, HandleSize)
  IN /\ OtherText
     /\ \/ verdict = "CompareNow" /\ ~HeadDiffers
        \/ verdict = "ComparePaced" /\ (~due \/ ~HeadDiffers)
        \/ Consumed <= seen.size /\ seen.size < lastSize

\* pollOnce(): re-open on a rotation, fetch on growth, or settle.
Judge(due) ==
  /\ pc = "judge"
  /\ lastSize' = seen.size /\ lastMtime' = seen.mtime
  /\ overlooked' = (overlooked \/ LetsPass(due))
  /\ IF Rotated(due)
       THEN Goto("reopen") /\ UNCHANGED <<task, offset, fetchTo>>
     ELSE IF seen.size > Consumed
       THEN /\ task' = "append" /\ offset' = Consumed /\ fetchTo' = seen.size
            /\ Goto("fetch")
       ELSE /\ task' = "append"
            /\ Goto(IF state \in Slow THEN "live" ELSE "sleep")
            /\ UNCHANGED <<offset, fetchTo>>
  /\ Quiet /\ UNCHANGED <<status, flags, file, held, seen, attempt, sawRefused, cut, session,
                          world>>

\* pollOnce(), the log having rotated: closeFile(), openFile().
Reopen ==
  /\ pc = "reopen"
  /\ \/ Openable /\ session' \in OpenedSessions /\ Quiet /\ Goto("fresh")
     \/ \E why \in OpenFailures :
          /\ Say(IF why \in {"Refused", "Unfit"} THEN "Error" ELSE "Waiting")
          /\ session' = ClosedSession /\ Goto("sleep")
  /\ UNCHANGED <<status, flags, file, fetch, stats, attempt, marks, world>>

\* ... and the stat of the new file, which the generation is begun with.
Fresh ==
  /\ pc = "fresh"
  /\ task' = "rotate" /\ Goto("begin")
  /\ IF StatAnswers
       THEN lastSize' = StatResult.size /\ fetchTo' = StatResult.size
       ELSE fetchTo' = 0 /\ UNCHANGED lastSize
  /\ Quiet /\ UNCHANGED <<status, flags, file, offset, held, seen, lastMtime, attempt,
                          marks, session, world>>

\* tailLoop(), the end of a turn.  The refusal it knows of is the one it read at
\* the top.
Deadline == state \in Slow /\ ~sawRefused

Sleep ==
  /\ pc = "sleep"
  /\ IF Ends THEN Goto("done") /\ UNCHANGED <<retryAt, poked>>
     ELSE IF poked THEN Goto("top") /\ poked' = FALSE /\ UNCHANGED retryAt
     ELSE Goto("asleep") /\ retryAt' = Deadline /\ UNCHANGED poked
  /\ UNCHANGED <<state, status, stopping, refused, wantsPrompter, file, fetch, stats,
                 attempt, marks, session, world>>

\* The wait is over: its time, a press or a stop.
Wake ==
  /\ pc = "asleep"
  /\ retryAt' = FALSE /\ poked' = FALSE /\ Goto("top")
  /\ UNCHANGED <<state, status, stopping, refused, wantsPrompter, file, fetch, stats,
                 attempt, marks, session, world>>

Worker == \/ Top \/ Consume \/ Connect \/ Dial \/ SignIn \/ Settle \/ OpenFile
          \/ EstablishStat \/ Begin
          \/ Announce \/ Priming \/ Fetch \/ Read \/ Commit \/ Fetched \/ Broken \/ Live
          \/ Retry \/ GiveUp \/ Latch \/ Poll
          \/ (\E due \in BOOLEAN : Judge(due)) \/ Reopen \/ Fresh \/ Sleep \/ Wake

FarEnd == \/ \E n \in 1 .. MaxSize : FarGrow(n)
          \/ \E p \in Presences, n \in 0 .. MaxSize : FarReplace(p, n)
          \/ \E n \in 0 .. MaxSize : FarRewrite(n)
          \/ \E p \in Presences : FarChmod(p)
          \/ LinkDrop
          \/ \E a \in AuthAnswers : LinkBack(a) \/ AuthChange(a)
          \/ \E a \in 0 .. MaxMoves + 1 : DeviceMove(a)

Next == Start \/ PokeNow \/ RequestStop \/ Worker \/ FarEnd

Spec == Init /\ [][Next]_vars

\* The worker's thread is scheduled and every call it makes on the network ends
\* (session timeouts, abort()); a compare wanted at poll after poll becomes due, the
\* stall timer having run out (kStallProbeMs).  Nothing is assumed of the far end or
\* of the user.
FairSpec == Spec /\ WF_vars(Worker) /\ SF_vars(Judge(TRUE))

------------------------------------------------------------------------------
(* Properties *)

\* The text a sequence of spool bytes is a piece of, from its base offset on.
IsPieceOf(bytes, content, from) ==
  \A i \in 1 .. Len(bytes) : bytes[i] = <<content, from + i - 1>>

\* What a reader sees of one generation is one remote file, in order, with nothing
\* missing, repeated or spliced in from another.  Every record offset the index
\* holds rests on it (beginGeneration() and fetchForward(), SshFetcher.cpp).
SpoolIsOneFile ==
  /\ committed <= Len(file[generation])
  /\ \E c \in Contents : IsPieceOf(SubSeq(file[generation], 1, committed), c, base)

\* "The first committedSize an implementation publishes must be either the whole
\* format prime or the whole stream - never one short read of it"
\* (SourceFetcher.h): on a connect, and unless the fetcher is being stopped.
PrimeIsWhole ==
  [][(task = "prime" /\ committed = 0 /\ committed' > 0 /\ ~stopping) =>
       \/ base + committed' = fetchTo
       \/ base + committed' >= ReadFile.size]_vars

\* A fetcher that keeps the contract of SourceFetcher.h: what SpooledLogSource and
\* everything above it rely on.
KeepsContract == Contract!Spec

\* A refusal latches a tab until somebody presses Reconnect, so it has to be the
\* far end's: with a host that lets us in whenever it is there and a log that can be
\* followed, no outage is one ("a machine that reboots is reconnected to on its own",
\* SPEC.md), but one that cuts an attempt while it is signing in (NoOutageRefuses).
OutageNeverRefuses == (AuthAnswers = {"ok"} /\ ~cut /\ failure # "Unfit") => ~refused

\* ... and that one included, which authenticate() and connectTo() do not keep: a
\* link that dies while they run comes out as the host's refusal.
NoOutageRefuses == (AuthAnswers = {"ok"} /\ failure # "Unfit" /\ ~stopping) => ~refused

\* A fetcher that has given up holds no session and carries a reason: it never
\* reads as connecting or as following, which would hide that only a press will
\* make it try again (reconnect(), tailLoop()).
GivenUpSaysSo ==
  refused => session = NoSession /\ state \in {"Error", "Waiting", "Disconnected"}

\* A press of Reconnect is answered by an attempt: asleep without a session, no
\* permission is left that a press gave and no attempt took.
PressIsHonoured ==
  (pc = "asleep" /\ session = NoSession /\ ~poked) => ~wantsPrompter

\* A stopped worker ends, whatever it was doing: what lets the registry bury it
\* and quitting stay quick.
StopEnds == (stopping /\ pc # "unstarted") ~> (pc = "done")

\* The spool holds what the remote log holds, and says so.
Mirrored ==
  /\ state = "Live"
  /\ SubSeq(file[generation], 1, committed)
       = Text(far.content, base, far.size)

\* Nothing stands in the way of the log being followed, and a stat can tell the
\* open file from the one the name leads to.
Calm ==
  /\ link = "up" /\ far.presence = "present" /\ auth = "ok" /\ addr # 0
  /\ ~refused /\ ~stopping /\ pc # "unstarted"
  /\ session # NoSession =>
       /\ session.handle # NoFile =>
            session.handle.inode = far.inode \/ HandleFile(session.handle).size # far.size
       /\ session.rung = "wc" => far.size <= AbandonCeiling

\* A re-open that failed is not made again: every later poll finds no open log.
Wedged == pc = "poll" /\ session # NoSession
                      /\ session.handle = NoFile /\ session.rung = "none"

\* A log that can be followed is followed: after any rotation, removal, rewrite or
\* outage that is over, the spool ends up holding what the log holds.  Two cases are
\* not caught up with: another text let pass by the poll that could have told, and a
\* re-open that failed (CatchesUpAlways).
CatchesUp == <>[](Calm /\ ~overlooked /\ ~Wedged) => <>[]Mirrored

\* ... and those included, which pollOnce() does not keep.
CatchesUpAlways == <>[]Calm => <>[]Mirrored

\* ... and is not reported as missing, or as trouble, once it is there again ("so
\* a log that reappeared stops reporting itself as missing", pollOnce()).
ReturnsToLive == <>[](Calm /\ ~Wedged) => []<>(state = "Live")
==============================================================================
