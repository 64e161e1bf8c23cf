------------------------------ MODULE Consoles ------------------------------
(***************************************************************************)
(* Several logs of one device that is reached over its login console, a    *)
(* serial line or telnet.  The logs share one ConsoleSession: one link,    *)
(* one login on it, one command at a time under its mutex.  Each log has a *)
(* ConsoleFetcher whose worker signs the session in, settles how its file  *)
(* is read, copies it, follows it, and drops the session for everybody     *)
(* when it finds the link dead.  What the login says to the far end is in  *)
(* ConsoleLogin; here it is only how it ends.                              *)
(***************************************************************************)
EXTENDS Integers

CONSTANTS Logs,        \* the logs open on the device
          MaxSize,     \* bound: the size a log grows to, in chunks
          MaxMoves,    \* bound: addresses the device is found at, beyond the first
          MaxTrouble,  \* bound: commands and sign-ins that fail, restarts, logs given up
          MaxChanges,  \* bound: changes of the device's link, address, preset or logs
          NoLog

ASSUME ConsolesAssumption == /\ MaxSize \in Nat /\ MaxMoves \in Nat
                             /\ {MaxTrouble, MaxChanges} \subseteq Nat /\ NoLog \notin Logs

Absent == -1           \* the size of a log that is not there

VARIABLES up, at, alive, file, preset, changes, trouble,   \* the device, its logs and its preset
          link, login, ready, aborted, rebooted,  \* ConsoleSession
          linkedTo, applied, holder,
          pc, exec, task, goal, conn, opts,       \* each ConsoleFetcher's worker
          told, refused, signedOnce, stopping, committed, begun

device  == <<up, at, alive, file, preset, changes>>
session == <<link, login, ready, aborted, rebooted, linkedTo, applied>>
reader  == <<exec, task, goal, conn, opts, committed, begun>>
status  == <<told, refused, signedOnce, stopping>>
consoleVars == <<device, trouble, session, holder, pc, reader, status>>

Steps == {"poll", "ensure", "login", "settle", "probe", "open", "begin", "read",
          "classify", "drop", "done"}

ConsolesTypeOK ==
  /\ up \in BOOLEAN /\ at \in 0 .. MaxMoves /\ alive \in BOOLEAN
  /\ file \in [Logs -> Absent .. MaxSize]
  /\ preset \in 0 .. MaxChanges /\ changes \in 0 .. MaxChanges /\ trouble \in 0 .. MaxTrouble
  /\ link \in {"none", "open", "gone"} /\ login \in {"none", "talking", "in"}
  /\ {ready, aborted, rebooted} \subseteq BOOLEAN
  /\ linkedTo \in 0 .. MaxMoves /\ applied \in 0 .. MaxChanges
  /\ holder \in Logs \cup {NoLog}
  /\ pc \in [Logs -> Steps] /\ exec \in [Logs -> {"none", "blind", "sized"}]
  /\ task \in [Logs -> {"establish", "rotate"}]
  /\ goal \in [Logs -> 0 .. MaxSize] /\ committed \in [Logs -> 0 .. MaxSize]
  /\ conn \in [Logs -> 0 .. MaxMoves] /\ opts \in [Logs -> 0 .. MaxChanges]
  /\ told \in [Logs -> {"Connecting", "Waiting", "Priming", "Live", "Error", "Disconnected"}]
  /\ {refused, signedOnce, stopping, begun} \subseteq [Logs -> BOOLEAN]

\* Every tab is up and its worker started; the session has been acquired, no more.
ConsolesInit ==
  /\ up \in BOOLEAN /\ at = 0 /\ alive = FALSE /\ preset = 0
  /\ trouble \in {0, MaxTrouble} /\ changes \in {0, MaxChanges}
  /\ file \in [Logs -> {Absent, 1}]
  /\ link = "none" /\ login = "none"
  /\ ready = FALSE /\ aborted = FALSE /\ rebooted = FALSE
  /\ linkedTo = 0 /\ applied = 0 /\ holder = NoLog
  /\ pc = [l \in Logs |-> "poll"] /\ exec = [l \in Logs |-> "none"]
  /\ task = [l \in Logs |-> "establish"]
  /\ goal = [l \in Logs |-> 0] /\ committed = [l \in Logs |-> 0]
  /\ conn = [l \in Logs |-> 0] /\ opts = [l \in Logs |-> 0]
  /\ told = [l \in Logs |-> "Connecting"]
  /\ refused = [l \in Logs |-> FALSE] /\ signedOnce = [l \in Logs |-> FALSE]
  /\ stopping = [l \in Logs |-> FALSE] /\ begun = [l \in Logs |-> FALSE]

At(l, here) == pc[l] = here
Goto(l, there) == pc' = [pc EXCEPT ![l] = there]
Set(f, l, x) == [f EXCEPT ![l] = x]
Trouble == trouble < MaxTrouble /\ trouble' = trouble + 1
Calm == UNCHANGED trouble
Change == changes < MaxChanges /\ changes' = changes + 1 /\ Calm

-----------------------------------------------------------------------------
(* The session.  Its mutex is held over each of its calls; ensureReady() is *)
(* the one that takes several steps here, with `holder' inside it.          *)

Free == holder = NoLog
Release == holder' = NoLog

\* dropSessionLocked(): the only thing that clears the latch of an abort.
DropSession == /\ link' = "none" /\ login' = "none"
               /\ ready' = FALSE /\ aborted' = FALSE
               /\ UNCHANGED <<linkedTo, applied>>

Reachable == link = "open" /\ up /\ linkedTo = at
Answers   == Reachable /\ alive /\ ~aborted

\* A restart is recognised in what arrives while a command waits for its answer:
\* the shell that was to answer is gone, and so is the session.
SeesReboot == /\ Reachable /\ ~alive /\ ~aborted
              /\ DropSession /\ rebooted' = TRUE

\* run(), readBytes() and runScript() once the login is over: the far end
\* answered, or the LINK failed (one answer out of time is enough for that).
Succeeds == Free /\ ready /\ Answers /\ Calm /\ UNCHANGED session
LinkFails == /\ Free
             /\ \/ (~ready \/ ~Answers) /\ Calm /\ UNCHANGED session
                \/ ready /\ Answers /\ Trouble /\ UNCHANGED session
                \/ ready /\ SeesReboot /\ Calm

-----------------------------------------------------------------------------
(* The fetcher: what it publishes *)

\* Whether a refusal may be a moment of a device that has signed in before:
\* ReconnectGrace, whose window may or may not be over.
Refuse(l) ==
  \/ /\ signedOnce[l]
     /\ told' = Set(told, l, "Waiting") /\ UNCHANGED refused
  \/ /\ told' = Set(told, l, "Error") /\ refused' = Set(refused, l, TRUE)

Wait(l) == /\ told' = Set(told, l, "Waiting") /\ UNCHANGED <<refused, signedOnce, stopping>>
Publish(l, s) == /\ told' = Set(told, l, s) /\ UNCHANGED <<refused, signedOnce, stopping>>
Quietly == UNCHANGED status

\* The log-shaped half of the transport: absent, without a size source, or settled.
Exec(l, e) == exec' = Set(exec, l, e)

\* It goes, and with it the address and the settings it was made for.
Abandon(l) == Exec(l, "none") /\ conn' = Set(conn, l, 0) /\ opts' = Set(opts, l, 0)

-----------------------------------------------------------------------------
(* establish() *)

\* ensureReady() up to the link: an edited preset and a moved device start over.
Ensure(l) ==
  /\ At(l, "ensure") /\ Free
  /\ LET kept == /\ ready \/ link # "none"
                 /\ applied = opts[l] /\ linkedTo = conn[l]
     IN  \/ /\ kept /\ ready
            /\ Goto(l, "probe")
            /\ signedOnce' = Set(signedOnce, l, TRUE)
            /\ UNCHANGED <<told, refused, stopping, session, holder>>
         \/ /\ kept /\ ~ready
            /\ Goto(l, "login") /\ holder' = l /\ Quietly
            /\ UNCHANGED session
         \/ /\ ~kept /\ up /\ conn[l] = at
            /\ link' = "open" /\ login' = "none" /\ ready' = FALSE
            /\ aborted' = IF ready \/ link # "none" THEN FALSE ELSE aborted
            /\ linkedTo' = conn[l] /\ applied' = opts[l]
            /\ Goto(l, "login") /\ holder' = l /\ Quietly
            /\ UNCHANGED rebooted
         \/ /\ ~kept /\ ~(up /\ conn[l] = at)
            /\ link' = "none" /\ login' = "none" /\ ready' = FALSE
            /\ aborted' = IF ready \/ link # "none" THEN FALSE ELSE aborted
            /\ applied' = opts[l] /\ UNCHANGED <<linkedTo, rebooted>>
            /\ Goto(l, "poll") /\ Wait(l) /\ UNCHANGED holder
  /\ Calm /\ UNCHANGED <<device, reader>>

\* loginLocked(), by how it ends.  A machine that is in its Ready step already
\* never says Done again, and a latched abort ends the loop before its first turn.
Login(l) ==
  /\ At(l, "login") /\ holder = l
  /\ UNCHANGED <<up, at, file, preset, changes, linkedTo, applied, reader>>
  /\ \/ /\ ~aborted /\ login # "in" /\ Reachable                      \* Done
        /\ login' = "in" /\ alive' = TRUE
        /\ Goto(l, "settle") /\ Quietly /\ Calm
        /\ UNCHANGED <<link, ready, aborted, rebooted, holder>>
     \/ /\ ~aborted /\ login # "in" /\ Reachable /\ Trouble           \* Reboot
        /\ login' = "talking" /\ rebooted' = TRUE
        /\ Quietly
        /\ UNCHANGED <<link, ready, aborted, holder, pc, alive>>
     \/ /\ ~aborted /\ login # "in" /\ (IF Reachable THEN Trouble ELSE Calm) \* Fail
        /\ link' = "none" /\ login' = "none" /\ ready' = FALSE /\ aborted' = FALSE
        /\ Refuse(l) /\ Goto(l, "poll") /\ Release
        /\ UNCHANGED <<rebooted, signedOnce, stopping, alive>>
     \/ /\ \/ aborted /\ Calm                                         \* the loop ends
           \/ ~aborted /\ login = "in" /\ Calm
           \/ ~aborted /\ login # "in" /\ Reachable /\ Trouble
        /\ login' = IF login = "none" THEN "talking" ELSE login
        /\ Wait(l) /\ Goto(l, "poll") /\ Release
        /\ UNCHANGED <<link, ready, aborted, rebooted, alive>>

\* settleByteSafetyLocked(): a command that gets no answer counts as an answer,
\* as "no encoder here" or, once the encoder is known, as a file with no bytes.
Settle(l) ==
  /\ At(l, "settle") /\ holder = l /\ Release
  /\ UNCHANGED <<device, reader>>
  /\ \/ /\ Answers /\ Calm /\ UNCHANGED <<link, login, aborted, rebooted, linkedTo, applied>>
        /\ ready' = TRUE /\ signedOnce' = Set(signedOnce, l, TRUE)
        /\ Goto(l, "probe") /\ UNCHANGED <<told, refused, stopping>>
     \/ /\ IF Answers THEN Trouble ELSE Calm
        /\ UNCHANGED session
        /\ Refuse(l) /\ Goto(l, "poll") /\ UNCHANGED <<signedOnce, stopping>>
     \/ /\ ~Answers /\ Calm
        /\ ready' = TRUE /\ signedOnce' = Set(signedOnce, l, TRUE)
        /\ Goto(l, "probe") /\ UNCHANGED <<told, refused, stopping>>
        /\ \/ UNCHANGED <<link, login, aborted, rebooted, linkedTo, applied>>
           \/ /\ Reachable /\ ~aborted /\ rebooted' = TRUE
              /\ link' = "none" /\ login' = "none" /\ aborted' = FALSE
              /\ UNCHANGED <<linkedTo, applied>>
     \/ /\ SeesReboot /\ Calm
        /\ Refuse(l) /\ Goto(l, "poll") /\ UNCHANGED <<signedOnce, stopping>>

\* The transport is made before the tools are asked for, and stays whatever they say.
Probe(l) ==
  /\ At(l, "probe") /\ Exec(l, "blind")
  /\ \/ Succeeds /\ Goto(l, "open") /\ Publish(l, "Priming")
     \/ LinkFails /\ Goto(l, "poll") /\ Wait(l)
  /\ UNCHANGED <<device, holder, task, goal, conn, opts, committed, begun>>

\* openFile(): settles a way to ask the size of this file, after forgetting the last.
Open(l) ==
  /\ At(l, "open")
  /\ \/ /\ Succeeds /\ file[l] # Absent
        /\ Exec(l, "sized") /\ Goto(l, "begin") /\ Quietly /\ UNCHANGED task
     \/ /\ (Succeeds /\ file[l] = Absent) \/ LinkFails
        /\ Exec(l, "blind") /\ Goto(l, "poll") /\ Wait(l)
        /\ task' = Set(task, l, "establish")
     \/ /\ Free /\ ready /\ Answers /\ Trouble /\ UNCHANGED session
        /\ Exec(l, "blind") /\ Goto(l, "poll") /\ task' = Set(task, l, "establish")
        /\ IF task[l] = "establish"
           THEN /\ refused' = Set(refused, l, TRUE) /\ told' = Set(told, l, "Error")
                /\ UNCHANGED <<signedOnce, stopping>>
           ELSE Wait(l)
  /\ UNCHANGED <<device, holder, goal, conn, opts, committed, begun>>

\* The size again, and a generation for it.  A rotation takes an answer that did
\* not come for an empty file; the first reading gives up, and so does either when
\* the local spool cannot be made.
Begin(l) ==
  /\ At(l, "begin")
  /\ task' = Set(task, l, "establish")
  /\ UNCHANGED <<device, holder, exec, conn, opts>>
  /\ \/ /\ Succeeds /\ file[l] # Absent
        /\ goal' = Set(goal, l, file[l])
        /\ committed' = Set(committed, l, 0) /\ begun' = Set(begun, l, TRUE)
        /\ Goto(l, "read") /\ Quietly
     \/ /\ (Succeeds /\ file[l] = Absent) \/ LinkFails
        /\ IF task[l] = "rotate"
           THEN /\ goal' = Set(goal, l, 0)
                /\ committed' = Set(committed, l, 0) /\ begun' = Set(begun, l, TRUE)
                /\ Goto(l, "read") /\ Quietly
           ELSE Goto(l, "poll") /\ Wait(l) /\ UNCHANGED <<goal, committed, begun>>
     \/ /\ Free /\ ready /\ Answers /\ Trouble /\ UNCHANGED session
        /\ Goto(l, "poll") /\ Publish(l, "Error") /\ UNCHANGED <<goal, committed, begun>>

\* fetchForward(), a chunk at a time.  Nothing more to be had ends it well, and a
\* session that is not ready has nothing to be had.
Read(l) ==
  /\ At(l, "read")
  /\ UNCHANGED <<device, holder, exec, task, conn, opts, begun>>
  /\ LET more == committed[l] < goal[l] /\ ~stopping[l]
     IN  \/ /\ more /\ Succeeds /\ file[l] > committed[l]
            /\ committed' = Set(committed, l, committed[l] + 1)
            /\ Quietly /\ UNCHANGED <<pc, goal>>
         \/ /\ \/ ~more /\ Calm /\ UNCHANGED session
               \/ more /\ Succeeds /\ file[l] <= committed[l]
               \/ more /\ Free /\ ~ready /\ Calm /\ UNCHANGED session
            /\ goal' = Set(goal, l, 0) /\ UNCHANGED committed
            /\ Goto(l, "poll") /\ Publish(l, "Live")
         \/ /\ more /\ ready /\ LinkFails
            /\ goal' = Set(goal, l, 0) /\ UNCHANGED committed
            /\ Goto(l, "poll") /\ Publish(l, "Error")

-----------------------------------------------------------------------------
(* pollOnce() *)

\* A turn: in the code's order, a restart somebody saw, a log that is not signed
\* in, a device that moved, an edited preset, and only then the far end is asked.
Turn(l) == /\ At(l, "poll") /\ ~stopping[l] /\ ~refused[l] /\ Free
           /\ UNCHANGED <<device, holder, committed>>

TakeReboot(l) ==
  /\ Turn(l) /\ Calm
  /\ rebooted /\ rebooted' = FALSE
  /\ Abandon(l) /\ Wait(l)
  /\ UNCHANGED <<link, login, ready, aborted, linkedTo, applied, pc, task, goal, begun>>

StartOver(l) ==
  /\ Turn(l) /\ Calm /\ ~rebooted /\ exec[l] = "none"
  /\ begun' = Set(begun, l, FALSE)
  /\ conn' = Set(conn, l, at) /\ opts' = Set(opts, l, preset)
  /\ Goto(l, "ensure") /\ Quietly /\ UNCHANGED <<session, exec, task, goal>>

SeesChange(l) ==
  /\ Turn(l) /\ Calm /\ ~rebooted /\ exec[l] # "none"
  /\ Abandon(l) /\ UNCHANGED <<session, task, goal, begun>>
  /\ \/ at # conn[l] /\ Goto(l, "drop") /\ Quietly
     \/ at = conn[l] /\ preset # opts[l] /\ Wait(l) /\ UNCHANGED pc

\* The one round trip of a turn, and what the size it brings says.  Without a size
\* source nothing is asked and nothing is answered.
Stat(l) ==
  /\ Turn(l) /\ ~rebooted /\ exec[l] # "none" /\ preset = opts[l]
  /\ UNCHANGED <<exec, conn, opts, begun>>
  /\ \/ /\ exec[l] = "sized" /\ Succeeds /\ file[l] # Absent
        /\ \/ /\ file[l] < committed[l]
              /\ task' = Set(task, l, "rotate") /\ UNCHANGED goal
              /\ Goto(l, "open") /\ Publish(l, "Priming")
           \/ /\ file[l] >= committed[l]
              /\ goal' = Set(goal, l, file[l]) /\ UNCHANGED task
              /\ Goto(l, "read") /\ Quietly
     \/ /\ \/ exec[l] = "blind" /\ Calm /\ UNCHANGED session
           \/ exec[l] = "sized" /\ ((Succeeds /\ file[l] = Absent) \/ LinkFails)
        /\ Goto(l, "classify") /\ Quietly /\ UNCHANGED <<task, goal>>

\* Mutant: the transport outlives the link it was made over.
ClassifyPathKeepsTransport(l) ==
  /\ At(l, "classify")
  /\ UNCHANGED <<device, holder, reader>>
  /\ Wait(l)
  /\ \/ Succeeds /\ Goto(l, "poll")
     \/ LinkFails /\ Goto(l, "drop")

\* classifyPath(): the far end tells what became of the path, or tells nothing.
ClassifyPath(l) ==
  /\ At(l, "classify")
  /\ UNCHANGED <<device, holder, task, goal, committed, begun>>
  /\ Wait(l)
  /\ \/ Succeeds /\ Goto(l, "poll") /\ UNCHANGED <<exec, conn, opts>>
     \/ LinkFails /\ Abandon(l) /\ Goto(l, "drop")

\* dropSession(), whoever has signed in since.
Drop(l) ==
  /\ At(l, "drop") /\ Free /\ DropSession
  /\ Goto(l, "poll") /\ Wait(l)
  /\ Calm /\ UNCHANGED <<device, rebooted, holder, reader>>

-----------------------------------------------------------------------------
(* The worker's loop and the window's calls *)

End(l) == /\ At(l, "poll") /\ stopping[l]
          /\ Goto(l, "done")
          /\ UNCHANGED <<device, trouble, session, holder, reader, status>>

Worker(l) == \/ Ensure(l) \/ Login(l) \/ Settle(l) \/ Probe(l) \/ Open(l) \/ Begin(l)
             \/ Read(l) \/ TakeReboot(l) \/ StartOver(l) \/ SeesChange(l) \/ Stat(l) \/ ClassifyPath(l) \/ Drop(l)
             \/ End(l)

\* Closing a log latches an abort on the session every other log uses as well.
RequestStop(l) ==
  /\ ~stopping[l] /\ Trouble
  /\ stopping' = Set(stopping, l, TRUE) /\ told' = Set(told, l, "Disconnected")
  /\ aborted' = TRUE
  /\ UNCHANGED <<device, link, login, ready, rebooted, linkedTo, applied, holder,
                 pc, reader, refused, signedOnce>>

PokeNow(l) == /\ refused[l] /\ Calm
              /\ refused' = Set(refused, l, FALSE)
              /\ UNCHANGED <<device, session, holder, pc, reader, told, signedOnce, stopping>>

\* A restart script on the same session: it may be the one to see the restart it
\* caused, and giving it up latches an abort as well.
Script == /\ Trouble /\ UNCHANGED <<device, holder, pc, reader, status>>
          /\ \/ Free /\ ready /\ SeesReboot
             \/ /\ aborted' = TRUE
                /\ UNCHANGED <<link, login, ready, rebooted, linkedTo, applied>>

-----------------------------------------------------------------------------
(* The device *)

Settled == UNCHANGED <<holder, pc, reader, status>>   \* nothing of the fetchers

Unplug == /\ up /\ Change /\ up' = FALSE
          /\ link' = IF link = "open" THEN "gone" ELSE link
          /\ UNCHANGED <<at, alive, file, preset>> /\ Settled
          /\ UNCHANGED <<login, ready, aborted, rebooted, linkedTo, applied>>
Plug == /\ ~up /\ up' = TRUE /\ Calm
        /\ UNCHANGED <<at, alive, file, preset, changes, session>> /\ Settled
Reboot == /\ up /\ alive /\ Trouble /\ alive' = FALSE
          /\ UNCHANGED <<up, at, file, preset, changes, session>> /\ Settled
Move == /\ at < MaxMoves /\ Change /\ at' = at + 1
        /\ UNCHANGED <<up, alive, file, preset, session>> /\ Settled
EditPreset == /\ Change /\ preset' = preset + 1
              /\ UNCHANGED <<up, at, alive, file, session>> /\ Settled
\* The file grows, is replaced by a shorter one or removed, is made.
Grow(l) == /\ file[l] \in 0 .. MaxSize - 1 /\ file' = Set(file, l, file[l] + 1) /\ Calm
           /\ UNCHANGED <<up, at, alive, preset, changes, session>> /\ Settled
Replace(l) == /\ file[l] > 0 /\ Change /\ \E n \in {Absent, 0} : file' = Set(file, l, n)
              /\ UNCHANGED <<up, at, alive, preset, session>> /\ Settled
Create(l) == /\ file[l] = Absent /\ file' = Set(file, l, 0) /\ Calm
             /\ UNCHANGED <<up, at, alive, preset, changes, session>> /\ Settled

ConsolesNext ==
  \/ \E l \in Logs : Worker(l)
  \/ \E l \in Logs : RequestStop(l) \/ PokeNow(l) \/ Grow(l) \/ Replace(l) \/ Create(l)
  \/ Script \/ Unplug \/ Plug \/ Reboot \/ Move \/ EditPreset

\* The workers run.  One that waits for the mutex gets it: a holder leaves it for
\* a pause of at least a fifth of a second after every turn.
ConsolesFairness == \A l \in Logs : WF_consoleVars(Worker(l))

ConsolesSpec == ConsolesInit /\ [][ConsolesNext]_consoleVars /\ ConsolesFairness

-----------------------------------------------------------------------------
\* The log is followed to its end, or there is a reason it is not.
Back(l) == \/ stopping[l] \/ refused[l] \/ ~up \/ file[l] = Absent
           \/ told[l] = "Live" /\ committed[l] = file[l]

\* What the session and the transport are known never to leave by themselves: a
\* link kept with a login that cannot end, a transport without a size source.
Wedged == /\ ~ready /\ link # "none"
          /\ aborted \/ (login = "in" /\ \A l \in Logs : ~At(l, "settle"))
Blind(l) == exec[l] = "blind"

\* Two logs may go on dropping each other's sign-in: see DropIsDeserved.
DropsAWorkingOne == ready /\ \E l \in Logs : At(l, "drop")

\* Whatever happened to the device, its link, its address, its preset or the other
\* logs on it: once it is over, every log is followed again, unless the session or
\* the transport is in one of the two states above (ConsoleFetcher::pollOnce).
LogsComeBack == \/ \A l \in Logs : <>[](Back(l) \/ Wedged \/ Blind(l))
                \/ []<>DropsAWorkingOne

\* The same without the excuses: what the comments promise, and what the code
\* does not keep (ConsoleSession::abort, ExecTransport::openFile).
LogsAlwaysComeBack == \A l \in Logs : <>[]Back(l)

\* A refusal is latched for something the far end said, never for a link that
\* failed meanwhile (ConsoleFetcher::establish).
RefusedIsTold ==
  [][\A l \in Logs : ~refused[l] /\ refused'[l] => Answers \/ trouble' # trouble]_consoleVars

\* A session that works is dropped by nobody who saw another one fail
\* (ConsoleFetcher::pollOnce, after classifyPath).
DropIsDeserved ==
  [][\A l \in Logs : At(l, "drop") /\ pc'[l] # "drop" => ~(ready /\ Answers)]_consoleVars

\* "Live only once bytes have landed": a log that says it is live has what the
\* far end said there was (ConsoleFetcher::fetchForward).
LiveHasBytes ==
  [][\A l \in Logs : told[l] # "Live" /\ told'[l] = "Live" /\ ~stopping[l]
       => committed[l] >= goal[l] \/ file[l] < goal[l]]_consoleVars

\* Bytes are appended only to a generation begun since the log was established
\* (ConsoleFetcher::beginGeneration).
FollowsItsOwn == \A l \in Logs : told[l] = "Live" /\ ~stopping[l] => begun[l]
=============================================================================
