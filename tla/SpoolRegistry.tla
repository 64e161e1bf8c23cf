---------------------------- MODULE SpoolRegistry ----------------------------
(***************************************************************************)
(* SourceSpoolRegistry (core/SourceSpool.cpp): the shared spools, who      *)
(* holds them, and how a spool nobody holds is torn down without anybody   *)
(* waiting for its fetcher's thread.                                       *)
(*                                                                         *)
(* Opens, closes and the reaper's timer run on the application thread.     *)
(* The last handle of a container's spool may be dropped by the worker of  *)
(* the archive fetcher that read it, and then the whole teardown runs      *)
(* there, interleaved with the application thread at every lock.           *)
(***************************************************************************)
EXTENDS Naturals, FiniteSets

CONSTANTS
  Keys,      \* normalized addresses
  Logs,      \* the keys a tab may be on
  NoKey,     \* model value
  Input,     \* Input[k]: the key of the container the fetcher of k reads, or NoKey
  MaxSerial  \* bound: spools ever acquired

ASSUME RegistryAssumption ==
  /\ Logs \subseteq Keys /\ NoKey \notin Keys
  /\ Input \in [Keys -> Keys \cup {NoKey}]
  /\ MaxSerial \in Nat

Ids  == 1 .. MaxSerial
None == 0            \* no spool
Gui  == 0            \* the application thread; a worker is named after its spool
Threads == Ids \cup {Gui}

VARIABLES
  map,        \* m_spools: the spool an entry points at, weakly
  serial,     \* m_serial
  key,        \* SourceSpool::m_key
  phase,      \* how far a spool is on its way
  by,         \* the thread that runs its teardown
  worker,     \* the thread of its fetcher
  stop,       \* requestStop() was called on its fetcher
  dir,        \* its directory exists
  input,      \* the spool its fetcher reads from (ArchiveFetcher::m_input)
  tab,        \* tab[k]: the spool the tab on k holds
  gui,        \* where the application thread stands: [at, want, got]
  retired,    \* m_retired
  pending,    \* collectRetired()'s list of what it took
  still,      \* ... and of what still runs
  posting,    \* threads between the push in retire() and the event they post
  armed,      \* the reaper's timer runs
  armQueued,  \* an arm() event is in the application's queue
  reaper      \* m_reaper exists

spools == <<map, serial, key, phase, by, worker, stop, dir, input, tab>>
burial == <<retired, pending, still, posting, armed, armQueued, reaper>>
rvars  == <<spools, gui, burial>>

Phases == {"none", "held", "unheld", "forgotten", "asked", "retired", "abandoned", "gone"}

RegistryTypeOK ==
  /\ map \in [Keys -> Ids \cup {None}] /\ serial \in 0 .. MaxSerial
  /\ key \in [Ids -> Keys \cup {NoKey}] /\ phase \in [Ids -> Phases]
  /\ by \in [Ids -> Threads]
  /\ worker \in [Ids -> {"none", "running", "stopped"}]
  /\ stop \in [Ids -> BOOLEAN] /\ dir \in [Ids -> BOOLEAN]
  /\ input \in [Ids -> Ids \cup {None}] /\ tab \in [Keys -> Ids \cup {None}]
  /\ gui \in [at : {"idle", "find", "findInput", "insertInput", "insert", "collect",
                    "drain", "drainCollect", "abandon", "reset", "exit"},
              want : Keys \cup {NoKey}, got : Ids \cup {None}]
  /\ retired \subseteq Ids /\ pending \subseteq Ids /\ still \subseteq Ids
  /\ posting \subseteq Threads
  /\ armed \in BOOLEAN /\ armQueued \in BOOLEAN /\ reaper \in BOOLEAN

AtRest == [at |-> "idle", want |-> NoKey, got |-> None]

RegistryInit ==
  /\ map = [k \in Keys |-> None] /\ serial = 0
  /\ key = [i \in Ids |-> NoKey] /\ phase = [i \in Ids |-> "none"]
  /\ by = [i \in Ids |-> Gui] /\ worker = [i \in Ids |-> "none"]
  /\ stop = [i \in Ids |-> FALSE] /\ dir = [i \in Ids |-> FALSE]
  /\ input = [i \in Ids |-> None] /\ tab = [k \in Keys |-> None]
  /\ gui = AtRest
  /\ retired = {} /\ pending = {} /\ still = {} /\ posting = {}
  /\ armed = FALSE /\ armQueued = FALSE /\ reaper = FALSE

------------------------------------------------------------------------------
(* Handles *)

\* Whether a handle on i is left: a tab's, a fetcher's, or the one being handed to
\* the fetcher under construction.
HandleLeft(i, tabs, inputs, got) ==
  \/ \E k \in Keys : tabs[k] = i
  \/ \E j \in Ids : inputs[j] = i
  \/ got = i

\* A thread runs one teardown at a time.
Busy(t) == \/ \E i \in Ids : by[i] = t /\ phase[i] \in {"unheld", "forgotten", "asked"}
           \/ t \in posting

GuiAt(p) == gui.at = p /\ ~Busy(Gui)

\* Thread t lets go of a handle on i: the last one starts its teardown there.
LetGo(i, t, tabs, inputs) ==
  IF i # None /\ ~HandleLeft(i, tabs, inputs, gui.got)
    THEN phase' = [phase EXCEPT ![i] = "unheld"] /\ by' = [by EXCEPT ![i] = t]
    ELSE UNCHANGED <<phase, by>>

\* find(): an entry whose last handle is gone yields nothing.
\* Mutant: the map keeps plain pointers.
FindsAnything(k) == map[k] # None

Finds(k) == map[k] # None /\ phase[map[k]] = "held"

------------------------------------------------------------------------------
(* acquire(), on the application thread *)

\* An open takes at most two serials: the bound never stops one half-way.
Open(k) == /\ GuiAt("idle") /\ k \in Logs /\ tab[k] = None
           /\ serial + 2 <= MaxSerial
           /\ gui' = [at |-> "find", want |-> k, got |-> None]
           /\ UNCHANGED <<spools, burial>>

\* find() of the log's own key; a fetcher that reads a container opens it first.
Find == /\ GuiAt("find")
        /\ IF Finds(gui.want)
             THEN tab' = [tab EXCEPT ![gui.want] = map[gui.want]] /\ gui' = AtRest
             ELSE /\ UNCHANGED tab
                  /\ gui' = [gui EXCEPT !.at = IF Input[gui.want] = NoKey
                                                 THEN "insert" ELSE "findInput"]
        /\ UNCHANGED <<map, serial, key, phase, by, worker, stop, dir, input, burial>>

FindInput == /\ GuiAt("findInput")
             /\ gui' = IF Finds(Input[gui.want])
                         THEN [gui EXCEPT !.at = "insert", !.got = map[Input[gui.want]]]
                         ELSE [gui EXCEPT !.at = "insertInput"]
             /\ UNCHANGED <<spools, burial>>

\* A spool with its directory and its started fetcher, entered under its key.  The
\* first one makes the instance directory and, with it, the reaper.
Create(k, in) ==
  /\ serial < MaxSerial /\ serial' = serial + 1
  /\ key' = [key EXCEPT ![serial'] = k]
  /\ phase' = [phase EXCEPT ![serial'] = "held"]
  /\ worker' = [worker EXCEPT ![serial'] = "running"]
  /\ dir' = [dir EXCEPT ![serial'] = TRUE]
  /\ input' = [input EXCEPT ![serial'] = in]
  /\ map' = [map EXCEPT ![k] = serial']
  /\ reaper' = TRUE

InsertInput == /\ GuiAt("insertInput")
               /\ Create(Input[gui.want], None)
               /\ gui' = [gui EXCEPT !.at = "insert", !.got = serial']
               /\ UNCHANGED <<by, stop, tab, retired, pending, still, posting, armed,
                              armQueued>>

Insert == /\ GuiAt("insert")
          /\ Create(gui.want, gui.got)
          /\ tab' = [tab EXCEPT ![gui.want] = serial']
          /\ gui' = AtRest
          /\ UNCHANGED <<by, stop, retired, pending, still, posting, armed, armQueued>>

\* No fetcher for the key, or one that did not start: the open fails.  A fetcher
\* that has its container always starts.
OpenFails == /\ GuiAt("insertInput") \/ (GuiAt("insert") /\ gui.got = None)
             /\ gui' = AtRest
             /\ UNCHANGED <<spools, burial>>

Close(k) == /\ GuiAt("idle") /\ tab[k] # None
            /\ tab' = [tab EXCEPT ![k] = None]
            /\ LetGo(tab[k], Gui, tab', input)
            /\ UNCHANGED <<map, serial, key, worker, stop, dir, input, gui, burial>>

\* cancel(): the scan was cancelled; the fetcher stops, the spool stays.
Cancel(k) == /\ GuiAt("idle") /\ tab[k] # None /\ ~stop[tab[k]]
             /\ stop' = [stop EXCEPT ![tab[k]] = TRUE]
             /\ UNCHANGED <<map, serial, key, phase, by, worker, dir, input, tab, gui, burial>>

------------------------------------------------------------------------------
(* A fetcher's worker *)

\* The container has been read, or cannot be: the worker drops its input.
DropInput(i) == /\ worker[i] = "running" /\ ~Busy(i) /\ input[i] # None
                /\ input' = [input EXCEPT ![i] = None]
                /\ LetGo(input[i], i, tab, input')
                /\ UNCHANGED <<map, serial, key, worker, stop, dir, tab, gui, burial>>

\* The thread ends: it was asked to, it has nothing more to do, or it gave up.  It
\* may leave its input to the fetcher's destructor.
WorkerEnds(i) == /\ worker[i] = "running" /\ ~Busy(i)
                 /\ worker' = [worker EXCEPT ![i] = "stopped"]
                 /\ UNCHANGED <<map, serial, key, phase, by, stop, dir, input, tab, gui, burial>>

------------------------------------------------------------------------------
(* The teardown of spool i, on the thread that dropped its last handle *)

\* forget(): by key, whatever the entry holds by now.
Forget(i) == /\ phase[i] = "unheld"
             /\ map' = [map EXCEPT ![key[i]] = None]
             /\ phase' = [phase EXCEPT ![i] = "forgotten"]
             /\ UNCHANGED <<serial, key, by, worker, stop, dir, input, tab, gui, burial>>

\* ~SourceSpool() -> retire(): the fetcher is asked to stop ...
AskStop(i) == /\ phase[i] = "forgotten"
              /\ stop' = [stop EXCEPT ![i] = TRUE]
              /\ phase' = [phase EXCEPT ![i] = "asked"]
              /\ UNCHANGED <<map, serial, key, by, worker, dir, input, tab, gui, burial>>

\* isStopped().
\* Mutant: nobody looks, and the destructor joins a thread that still runs.
DestroysAnyway(i) == worker[i] # "none"

MayDestroy(i) == worker[i] = "stopped"

\* The fetcher goes, with the handle it may still hold, and its directory with it.
Destroy(i, t) ==
  LET rest == [input EXCEPT ![i] = None]
      last == input[i] # None /\ ~HandleLeft(input[i], tab, rest, gui.got) IN
  /\ input' = rest
  /\ dir' = [dir EXCEPT ![i] = FALSE]
  /\ phase' = [j \in Ids |-> IF j = i THEN "gone"
                             ELSE IF last /\ j = input[i] THEN "unheld" ELSE phase[j]]
  /\ by' = IF last THEN [by EXCEPT ![input[i]] = t] ELSE by

\* ... and destroyed at once if it has, or put on the list; the reaper is read in
\* the same critical section.
Retire(i) ==
  /\ phase[i] = "asked"
  /\ \/ /\ MayDestroy(i) /\ Destroy(i, by[i])
        /\ UNCHANGED <<retired, posting>>
     \/ /\ ~MayDestroy(i)
        /\ phase' = [phase EXCEPT ![i] = "retired"]
        /\ retired' = retired \cup {i}
        /\ posting' = IF reaper THEN posting \cup {by[i]} ELSE posting
        /\ UNCHANGED <<input, dir, by>>
  /\ UNCHANGED <<map, serial, key, worker, stop, tab, gui, pending, still, armed,
                 armQueued, reaper>>

\* The event posted after a push, whatever the timer does at that moment.
\* Mutant: a timer that runs needs no event.
PostsIfIdle == ~armed

Posts == TRUE

\* The event that arms the reaper is posted outside the lock.
Post(t) == /\ t \in posting
           /\ posting' = posting \ {t}
           /\ armQueued' = (armQueued \/ Posts)
           /\ UNCHANGED <<spools, gui, retired, pending, still, armed, reaper>>

------------------------------------------------------------------------------
(* The reaper, on the application thread *)

Arm == /\ GuiAt("idle") /\ armQueued
       /\ armed' = TRUE /\ armQueued' = FALSE
       /\ UNCHANGED <<spools, gui, retired, pending, still, posting, reaper>>

\* What is left on the list when it has been taken.
\* Mutant: it is copied, not swapped.
LeftByCopy == retired

LeftOnList == {}

\* timerEvent() -> collectRetired(), or a round of drainRetired(): the list is
\* taken, and looked at without the lock.
Collect == /\ \/ GuiAt("idle") /\ armed /\ gui' = [gui EXCEPT !.at = "collect"]
              \/ GuiAt("drain") /\ gui' = [gui EXCEPT !.at = "drainCollect"]
           /\ pending' = retired /\ retired' = LeftOnList /\ still' = {}
           /\ UNCHANGED <<spools, posting, armed, armQueued, reaper>>

Examine(i) ==
  /\ GuiAt("collect") \/ GuiAt("drainCollect")
  /\ i \in pending /\ pending' = pending \ {i}
  /\ \/ /\ MayDestroy(i) /\ Destroy(i, Gui) /\ UNCHANGED still
     \/ /\ ~MayDestroy(i) /\ still' = still \cup {i}
        /\ UNCHANGED <<input, dir, phase, by>>
  /\ UNCHANGED <<map, serial, key, worker, stop, tab, gui, retired, posting, armed,
                 armQueued, reaper>>

\* What still runs goes back, and keeps the timer running.
CollectEnd == /\ GuiAt("collect") /\ pending = {}
              /\ retired' = retired \cup still /\ still' = {}
              /\ armed' = (still # {})
              /\ gui' = AtRest
              /\ UNCHANGED <<spools, pending, posting, armQueued, reaper>>

------------------------------------------------------------------------------
(* shutdown(), once the window and its tabs are gone *)

Shutdown == /\ GuiAt("idle") /\ \A k \in Keys : tab[k] = None
            /\ reaper
            /\ map' = [k \in Keys |-> None]
            /\ gui' = [gui EXCEPT !.at = "drain"]
            /\ UNCHANGED <<serial, key, phase, by, worker, stop, dir, input, tab, burial>>

\* Another round while something runs and the budget lasts.
DrainEnd == /\ GuiAt("drainCollect") /\ pending = {}
            /\ retired' = retired \cup still /\ still' = {}
            /\ \/ still # {} /\ gui' = [gui EXCEPT !.at = "drain"]
               \/ gui' = [gui EXCEPT !.at = "abandon"]
            /\ UNCHANGED <<spools, pending, posting, armed, armQueued, reaper>>

\* Stragglers are parked: their threads own them, and the process is about to exit.
Abandon == /\ GuiAt("abandon")
           /\ phase' = [i \in Ids |-> IF i \in retired THEN "abandoned" ELSE phase[i]]
           /\ retired' = {}
           /\ gui' = [gui EXCEPT !.at = "reset"]
           /\ UNCHANGED <<map, serial, key, by, worker, stop, dir, input, tab, pending,
                          still, posting, armed, armQueued, reaper>>

\* The reaper and the instance directory go.
Reset == /\ GuiAt("reset")
         /\ reaper' = FALSE /\ armed' = FALSE /\ armQueued' = FALSE
         /\ dir' = [i \in Ids |-> FALSE]
         /\ gui' = [gui EXCEPT !.at = "exit"]
         /\ UNCHANGED <<map, serial, key, phase, by, worker, stop, input, tab, retired,
                        pending, still, posting>>

------------------------------------------------------------------------------
User == \E k \in Keys : Open(k) \/ Close(k) \/ Cancel(k)

Acquire == Find \/ FindInput \/ InsertInput \/ Insert \/ OpenFails

Teardown(i) == Forget(i) \/ AskStop(i) \/ Retire(i)

Reap == Collect \/ CollectEnd \/ DrainEnd \/ Abandon \/ Reset \/ \E i \in Ids : Examine(i)

RegistryNext ==
  \/ User \/ Acquire \/ Arm \/ Reap \/ Shutdown
  \/ \E i \in Ids : DropInput(i) \/ WorkerEnds(i) \/ Teardown(i)
  \/ \E t \in Threads : Post(t)

RegistrySpec == RegistryInit /\ [][RegistryNext]_rvars

\* The application thread, some thread that tears a spool down and some worker that
\* was asked to stop go on when they can (each wait of a fetcher is bounded by a
\* timeout).  The event loop delivers events and timers in turn, so that no stream of
\* opens, which may fail for ever, keeps the reaper's waiting: hence the strong
\* fairness.
RegistryFairSpec ==
  /\ RegistrySpec
  /\ WF_rvars(Acquire) /\ SF_rvars(Arm \/ Reap)
  /\ WF_rvars(\E i \in Ids : Teardown(i))
  /\ WF_rvars(\E i \in Ids : stop[i] /\ WorkerEnds(i))
  /\ WF_rvars(\E t \in Threads : Post(t))

------------------------------------------------------------------------------
(* Properties *)

\* A spool somebody holds has its entry's directory and is not being torn down, on
\* whatever thread handles are dropped meanwhile (find(), acquire()'s deleter).
HeldIsAlive ==
  \A i \in Ids : HandleLeft(i, tab, input, gui.got) =>
    phase[i] = "held" /\ (dir[i] \/ gui.at = "exit")

\* Nobody waits for a thread: a fetcher is destroyed only when its worker has ended,
\* and a directory is not taken away from a worker that may still write to it
\* (retire(), collectRetired()).
BurialIsSafe ==
  \A i \in Ids :
    /\ phase[i] = "gone" => worker[i] = "stopped"
    /\ (worker[i] = "running" /\ gui.at # "exit") => dir[i]

\* A fetcher on the list is never forgotten by the reaper: while the application
\* thread waits for events the timer runs, or an event that starts it is on its way,
\* and one pushed while a collection is under way has its own (retire() posts it
\* whatever the timer does, because the collection may be about to stop the timer).
RetiredAreWatched ==
  retired # {} =>
    /\ gui.at \in {"idle", "find", "findInput", "insertInput", "insert"}
         => armed \/ armQueued \/ posting # {}
    /\ gui.at = "collect" => armQueued \/ posting # {}

\* What the three properties above rest on, inductive together with them: a spool
\* not yet acquired has nothing, every list holds a retired fetcher once, the reaper
\* exists as long as there may be something to reap, and an open knows its keys.
Lists ==
  /\ \A i \in retired \cup pending \cup still : phase[i] = "retired"
  /\ retired \cap pending = {} /\ retired \cap still = {} /\ pending \cap still = {}

Unacquired == \A i \in Ids : i > serial => phase[i] = "none" /\ worker[i] = "none"

ReaperExists == (\E i \in Ids : phase[i] # "none") => reaper \/ gui.at = "exit"

HeldHasDir == \A i \in Ids : phase[i] = "held" => dir[i] \/ gui.at = "exit"

OpensAKey ==
  /\ gui.at \in {"find", "findInput", "insertInput", "insert"} => gui.want \in Keys
  /\ gui.at \in {"findInput", "insertInput"} => Input[gui.want] \in Keys

RegistryShape ==
  /\ RegistryTypeOK /\ Lists /\ Unacquired /\ ReaperExists
  /\ HeldHasDir /\ OpensAKey

RegistryInv == RegistryShape /\ HeldIsAlive /\ BurialIsSafe /\ RetiredAreWatched

\* Every spool nobody holds is buried in the end, unless the program exits first.
Buried == \A i \in Ids : phase[i] = "unheld" ~> (phase[i] = "gone" \/ gui.at = "exit")

\* "Two tabs on one log share one connection and one spool" (SourceSpool.h), and so
\* do two archives in one container: no two spools of one key are held at once.
OneSpoolPerKey ==
  \A i, j \in Ids : (phase[i] = "held" /\ phase[j] = "held" /\ i # j) => key[i] # key[j]

==============================================================================
