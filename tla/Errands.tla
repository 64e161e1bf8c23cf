------------------------------ MODULE Errands ------------------------------
(***************************************************************************)
(* Errands: a config file read or written on another machine, a restart    *)
(* script run there, a restart script run here.  A remote errand has a     *)
(* thread of its own, which takes an idle session out of the process's     *)
(* cache or connects, publishes it in the block it shares with its owner   *)
(* so that the owner can shut it, uses it, and files it back.              *)
(***************************************************************************)
EXTENDS Naturals, Sequences, FiniteSets

CONSTANTS Jobs,         \* the errands the window has in hand
          KindOf,       \* Jobs -> what each one does
          HostOf,       \* Jobs -> the machine it is done on
          Discovered,   \* the errands on a device that has to be found first
          MaxSessions,  \* bound: sessions alive at once
          Capacity,     \* SshSessionCache::kDefaultCapacity
          Plans,        \* bound: how often each errand may be asked for, in one of these ways
          MaxDrops,     \* bound: links that fail
          MaxRefusals,  \* bound: connects, lookups and far ends that refuse
          NoSession

ASSUME ErrandsAssumption ==
  /\ KindOf \in [Jobs -> {"read", "write", "script", "local"}]
  /\ Discovered \subseteq Jobs /\ Plans \subseteq [Jobs -> Nat]
  /\ {MaxSessions, Capacity, MaxDrops, MaxRefusals} \subseteq Nat
  /\ NoSession \notin 1 .. MaxSessions

VARIABLES cache, closed,               \* SshSessionCache, under its mutex
          link,                        \* of each session
          pc, held, heldRole, published, abandoned, repeated, fromCache, result,
          guiBusy, owner, posted, retry, \* the application thread
          plan, drops, refusals,       \* how much of the bounds is used
          runs, met, answers           \* what was really done and said, for one request

pool    == <<cache, closed, link>>
worker  == <<pc, held, heldRole, published, repeated, fromCache, result>>
gui     == <<guiBusy, owner, posted, retry>>
bounds  == <<plan, drops, refusals>>
history == <<runs, met, answers>>
errandVars == <<pool, worker, abandoned, gui, bounds, history>>

Sessions == 1 .. MaxSessions
Links    == {"free", "live", "stale", "dead"}   \* stale: closed by the far end, unnoticed
Roles    == {"ExecOnly", "Transport"}
Steps    == {"idle", "locate", "checkout", "adopt", "hold", "connecting", "ready",
             "inside", "after", "unpublish", "settle", "report", "process"}
Results  == {"none", "ok", "failed", "unreached", "stopped"}
Answers  == {"ok", "failed", "retryable", "aborted"}

Remote(j) == KindOf[j] # "local"
Wanted(j) == IF KindOf[j] = "script" THEN "ExecOnly" ELSE "Transport"
Cached    == {cache[i].session : i \in DOMAIN cache}

ErrandsTypeOK ==
  /\ cache \in Seq([host : {HostOf[j] : j \in Jobs}, role : Roles, session : Sessions])
  /\ closed \in BOOLEAN
  /\ link \in [Sessions -> Links] /\ heldRole \in [Jobs -> Roles]
  /\ pc \in [Jobs -> Steps] /\ result \in [Jobs -> Results]
  /\ held \in [Jobs -> Sessions \cup {NoSession}]
  /\ published \in [Jobs -> Sessions \cup {NoSession}]
  /\ {abandoned, repeated, fromCache, retry, met} \subseteq [Jobs -> BOOLEAN]
  /\ guiBusy \subseteq Jobs
  /\ owner \in [Jobs -> {"none", "waiting", "aborting", "gone"}]
  /\ posted \in [Jobs -> SUBSET Answers]
  /\ {plan, runs, answers} \subseteq [Jobs -> Nat]
  /\ {drops, refusals} \subseteq Nat

ErrandsInit ==
  /\ cache = <<>> /\ closed = FALSE
  /\ link = [s \in Sessions |-> "free"] /\ heldRole = [j \in Jobs |-> Wanted(j)]
  /\ pc = [j \in Jobs |-> "idle"] /\ result = [j \in Jobs |-> "none"]
  /\ held = [j \in Jobs |-> NoSession] /\ published = [j \in Jobs |-> NoSession]
  /\ abandoned = [j \in Jobs |-> FALSE] /\ repeated = [j \in Jobs |-> FALSE]
  /\ fromCache = [j \in Jobs |-> FALSE]
  /\ guiBusy = {} /\ owner = [j \in Jobs |-> "none"]
  /\ posted = [j \in Jobs |-> {}] /\ retry = [j \in Jobs |-> FALSE]
  /\ plan \in Plans /\ drops = 0 /\ refusals = 0
  /\ runs = [j \in Jobs |-> 0] /\ met = [j \in Jobs |-> FALSE]
  /\ answers = [j \in Jobs |-> 0]

At(j, here) == pc[j] = here
Goto(j, there) == pc' = [pc EXCEPT ![j] = there]

\* isConnected(): what this end knows of the link, which is not the far end's word.
Healthy(s) == link[s] \in {"live", "stale"}

-----------------------------------------------------------------------------
(* Mutants: plausible bugs, never part of the specification *)

\* A session handed out stays in the cache.
LeaveEntry(entries, i) == entries

\* Any errand is repeated on a fresh connection.
RepeatsAll(j) == TRUE

\* Every failed read is its owner's to show, and none is taken up again.
NeverDue(j, a) == FALSE

\* The connect slot is kept for the whole errand, and a repeat waits for its own.
HoldSpansErrand == {k \in Jobs : \/ pc[k] \in {"connecting", "ready", "inside", "after"}
                                 \/ pc[k] = "hold" /\ repeated[k]}

-----------------------------------------------------------------------------
(* SshSessionCache *)

Without(entries, i) == SubSeq(entries, 1, i - 1) \o SubSeq(entries, i + 1, Len(entries))

\* checkOut() takes the entry out of the list, and that is the only exclusion.
TakeEntry(entries, i) == Without(entries, i)

\* takeExpiredLocked(): the n oldest are past their deadline, and an entry that
\* has been found dead goes whatever its age; the rest keep their order.
Kept(n) == {i \in n + 1 .. Len(cache) : Healthy(cache[i].session)}
InOrder(S) == {at \in UNION {[1 .. m -> S] : m \in 0 .. Len(cache)} :
                 /\ \A i, k \in DOMAIN at : i < k => at[i] < at[k]
                 /\ \A p \in S : \E i \in DOMAIN at : at[i] = p}
Sweeps == {[i \in DOMAIN at |-> cache[at[i]]] :
             at \in UNION {InOrder(Kept(n)) : n \in 0 .. Len(cache)}}

\* discard() destroys what left the cache without being handed to anybody.
Destroyed(before, gone) ==
  [s \in Sessions |-> IF s \in gone THEN "free" ELSE before[s]]

SessionsOf(entries) == {entries[i].session : i \in DOMAIN entries}

\* An exact role wins; an ExecOnly errand may borrow a Transport session.
Serves(entries, j, i) == /\ entries[i].host = HostOf[j]
                         /\ entries[i].role \in {Wanted(j), "Transport"}
Exact(entries, j, i)  == Serves(entries, j, i) /\ entries[i].role = Wanted(j)
Pick(entries, j) ==
  LET serving == {i \in DOMAIN entries : Serves(entries, j, i)}
      exact   == {i \in serving : Exact(entries, j, i)}
      pool2   == IF exact # {} THEN exact ELSE serving
  IN  CHOOSE i \in pool2 : \A k \in pool2 : i <= k

CheckOut(j) ==
  /\ At(j, "checkout")
  /\ \E kept \in Sweeps :
       IF ~closed /\ \E i \in DOMAIN kept : Serves(kept, j, i)
       THEN LET i == Pick(kept, j) IN
            /\ cache' = TakeEntry(kept, i)
            /\ held' = [held EXCEPT ![j] = kept[i].session]
            /\ heldRole' = [heldRole EXCEPT ![j] = kept[i].role]
            /\ fromCache' = [fromCache EXCEPT ![j] = TRUE]
            /\ link' = Destroyed(link, Cached \ SessionsOf(kept))
            /\ Goto(j, "adopt")
       ELSE /\ cache' = kept
            /\ link' = Destroyed(link, Cached \ SessionsOf(kept))
            /\ Goto(j, "hold") /\ UNCHANGED <<held, heldRole, fromCache>>
  /\ UNCHANGED <<closed, published, repeated, result, abandoned, gui, bounds, history>>

\* checkIn(): appended, and the oldest go when there are too many; a closed cache
\* destroys what it is given.
CheckIn(j) ==
  LET s == held[j] IN
  \E swept \in Sweeps :
    LET kept == Append(swept, [host |-> HostOf[j], role |-> heldRole[j], session |-> s])
        over == IF Len(kept) > Capacity THEN Len(kept) - Capacity ELSE 0
        left == IF closed THEN swept ELSE SubSeq(kept, over + 1, Len(kept))
    IN  /\ cache' = left
        /\ link' = Destroyed(link, (Cached \cup {s}) \ SessionsOf(left))

-----------------------------------------------------------------------------
(* withSshSession(), on the errand's own thread *)

\* The thread's own variables, as a new errand finds them.
Fresh(j) == /\ heldRole' = [heldRole EXCEPT ![j] = Wanted(j)]
            /\ repeated' = [repeated EXCEPT ![j] = FALSE]
            /\ fromCache' = [fromCache EXCEPT ![j] = FALSE]
            /\ result' = [result EXCEPT ![j] = "none"]

Fails(j, how) == result' = [result EXCEPT ![j] = how]
Refusable == refusals < MaxRefusals

\* A discovered device is found first; the lookup may find nothing.
Locate(j) ==
  /\ At(j, "locate")
  /\ \/ Goto(j, "checkout") /\ UNCHANGED <<result, refusals>>
     \/ /\ Refusable /\ refusals' = refusals + 1
        /\ Fails(j, IF abandoned[j] THEN "stopped" ELSE "unreached")
        /\ Goto(j, "report")
  /\ UNCHANGED <<pool, held, heldRole, published, repeated, fromCache, abandoned, gui,
                 plan, drops, history>>

\* What came out of the cache is published, so that abandon() can reach it.
Adopt(j) ==
  /\ At(j, "adopt")
  /\ published' = [published EXCEPT ![j] = held[j]]
  /\ Goto(j, "ready")
  /\ UNCHANGED <<pool, held, heldRole, repeated, fromCache, result, abandoned, gui, bounds, history>>

\* SshConnectHold: a host's slot is taken for a connect and no longer.
Connecting == {k \in Jobs : pc[k] = "connecting"}

\* connectFresh(): the old session goes, the host's connect slot is waited for, and
\* a session is built and published before anything is asked of it.
Hold(j) ==
  /\ At(j, "hold")
  /\ LET cleared == Destroyed(link, {held[j]} \cap Sessions) IN
     IF abandoned[j]
     THEN /\ held' = [held EXCEPT ![j] = NoSession] /\ link' = cleared
          /\ published' = [published EXCEPT ![j] = NoSession]
          /\ Fails(j, "stopped") /\ Goto(j, "report") 
     ELSE /\ ~\E k \in Connecting : HostOf[k] = HostOf[j]
          /\ \E s \in Sessions :
               /\ cleared[s] = "free" /\ \A t \in Sessions : cleared[t] = "free" => s <= t
               /\ link' = [cleared EXCEPT ![s] = "live"]
               /\ held' = [held EXCEPT ![j] = s]
               /\ published' = [published EXCEPT ![j] = s]
          /\ Goto(j, "connecting") /\ UNCHANGED result
  /\ heldRole' = [heldRole EXCEPT ![j] = Wanted(j)]
  /\ UNCHANGED <<cache, closed, repeated, fromCache, abandoned, gui, bounds, history>>

\* connectTo() signs in, or fails: the host refuses, or this end is asked to stop.
Connect(j) ==
  /\ At(j, "connecting")
  /\ \/ /\ link[held[j]] = "live" /\ ~abandoned[j]
        /\ Goto(j, "ready")
        /\ UNCHANGED <<link, held, published, result, refusals>>
     \/ /\ \/ (link[held[j]] # "live" \/ abandoned[j]) /\ UNCHANGED refusals
           \/ Refusable /\ refusals' = refusals + 1
        /\ link' = [link EXCEPT ![held[j]] = "free"]
        /\ held' = [held EXCEPT ![j] = NoSession]
        /\ published' = [published EXCEPT ![j] = NoSession]
        /\ Fails(j, IF KindOf[j] = "read" /\ repeated[j] THEN "failed" ELSE "unreached")
        /\ Goto(j, "report")
  /\ UNCHANGED <<cache, closed, heldRole, repeated, fromCache, abandoned, gui, plan, drops,
                 history>>

\* body(): a script starts on the far end only over a link that is really there.
Body(j) ==
  /\ At(j, "ready")
  /\ IF abandoned[j]
     THEN Fails(j, "stopped") /\ Goto(j, "unpublish") /\ UNCHANGED <<runs, met>>
     ELSE /\ LET there == link[held[j]] = "live" IN
             /\ runs' = [runs EXCEPT ![j] = @ + IF there THEN 1 ELSE 0]
             /\ met'  = [met EXCEPT ![j] = @ \/ there]
          /\ Goto(j, "inside") /\ UNCHANGED result
  /\ UNCHANGED <<pool, held, heldRole, published, repeated, fromCache, abandoned, gui, bounds, answers>>

\* It succeeds over a live link, the far end may say no over one, and it fails over
\* any other, which latches the session dead.  A script stopped by its owner is no
\* failure to report.
BodyEnds(j) ==
  /\ At(j, "inside")
  /\ LET s == held[j] IN
     \/ /\ link[s] = "live" /\ Fails(j, "ok") /\ UNCHANGED <<link, refusals>>
     \/ /\ link[s] = "live" /\ Refusable /\ refusals' = refusals + 1
        /\ Fails(j, "failed") /\ UNCHANGED link
     \/ /\ link[s] # "live" /\ link' = [link EXCEPT ![s] = "dead"]
        /\ Fails(j, IF KindOf[j] = "script" /\ abandoned[j] THEN "stopped" ELSE "failed")
        /\ UNCHANGED refusals
  /\ Goto(j, "after")
  /\ UNCHANGED <<cache, closed, held, heldRole, published, repeated, fromCache, abandoned, gui,
                 plan, drops, history>>

\* SshErrandRepeat: a restart script is run at most once.
Repeats(j) == KindOf[j] # "script"

\* A stale hit is worth one more go, on a connection made from scratch.
After(j) ==
  /\ At(j, "after")
  /\ IF /\ result[j] = "failed" /\ fromCache[j] /\ ~repeated[j] /\ Repeats(j)
        /\ ~abandoned[j] /\ ~Healthy(held[j])
     THEN repeated' = [repeated EXCEPT ![j] = TRUE] /\ Goto(j, "hold")
     ELSE Goto(j, "unpublish") /\ UNCHANGED repeated
  /\ UNCHANGED <<pool, held, heldRole, published, fromCache, result, abandoned, gui, bounds, history>>

\* ~Unpublish, before the session is given away or destroyed.
Unpublish(j) ==
  /\ At(j, "unpublish")
  /\ published' = [published EXCEPT ![j] = NoSession]
  /\ Goto(j, "settle")
  /\ UNCHANGED <<pool, held, heldRole, repeated, fromCache, result, abandoned, gui, bounds, history>>

\* Kept only while it is good and nobody has called the errand off.
Settle(j) ==
  /\ At(j, "settle")
  /\ IF result[j] # "stopped" /\ ~abandoned[j] /\ Healthy(held[j])
     THEN CheckIn(j)
     ELSE link' = [link EXCEPT ![held[j]] = "free"] /\ UNCHANGED cache
  /\ held' = [held EXCEPT ![j] = NoSession]
  /\ Goto(j, "report")
  /\ UNCHANGED <<closed, heldRole, published, repeated, fromCache, result, abandoned, gui, bounds,
                 history>>

AnswerOf(j) ==
  CASE result[j] = "ok" -> "ok"
    [] result[j] = "unreached" /\ KindOf[j] = "read" -> "retryable"
    [] OTHER -> "failed"

\* An abandoned errand, and one that outlives the application, reports nothing.
Report(j) ==
  /\ At(j, "report")
  /\ posted' = IF abandoned[j] \/ closed THEN posted
               ELSE [posted EXCEPT ![j] = @ \cup {AnswerOf(j)}]
  /\ Goto(j, "idle") /\ Fresh(j)
  /\ UNCHANGED <<pool, held, published, abandoned, guiBusy, owner, retry, bounds, history>>

WorkerStep(j) ==
  \/ Locate(j) \/ CheckOut(j) \/ Adopt(j) \/ Hold(j) \/ Connect(j)
  \/ Body(j) \/ BodyEnds(j) \/ After(j) \/ Unpublish(j) \/ Settle(j) \/ Report(j)

-----------------------------------------------------------------------------
(* The application thread *)

GuiFree == guiBusy = {} /\ ~closed

Launch(j) ==
  /\ Goto(j, IF ~Remote(j) THEN "process" ELSE IF j \in Discovered THEN "locate" ELSE "checkout")
  /\ Fresh(j)
  /\ runs' = [runs EXCEPT ![j] = 0]
  /\ met' = [met EXCEPT ![j] = FALSE]

\* A dialog, a config tab's transfer or a probe is made, with a block of its own.
Start(j) ==
  /\ GuiFree /\ At(j, "idle") /\ owner[j] \in {"none", "gone"} /\ plan[j] > 0
  /\ Launch(j)
  /\ owner' = [owner EXCEPT ![j] = "waiting"]
  /\ abandoned' = [abandoned EXCEPT ![j] = FALSE]
  /\ posted' = [posted EXCEPT ![j] = {}]
  /\ retry' = [retry EXCEPT ![j] = FALSE]
  /\ answers' = [answers EXCEPT ![j] = 0]
  /\ plan' = [plan EXCEPT ![j] = @ - 1]
  /\ UNCHANGED <<pool, held, published, guiBusy, drops, refusals>>

\* A read whose machine was not reached is due again in kRetryMs.
Due(j, a) == a = "retryable"

Deliver(j) ==
  /\ GuiFree
  /\ \E a \in posted[j] :
       /\ posted' = [posted EXCEPT ![j] = @ \ {a}]
       /\ retry' = [retry EXCEPT ![j] = @ \/ (owner[j] # "gone" /\ Due(j, a))]
       /\ answers' = [answers EXCEPT ![j] =
                        @ + IF owner[j] = "gone" \/ a = "retryable" THEN 0 ELSE 1]
  /\ UNCHANGED <<pool, worker, abandoned, guiBusy, owner, bounds, runs, met>>

RetryFires(j) ==
  /\ GuiFree /\ retry[j] /\ At(j, "idle")
  /\ retry' = [retry EXCEPT ![j] = FALSE]
  /\ IF owner[j] # "gone" THEN Launch(j)
     ELSE UNCHANGED <<pc, heldRole, repeated, fromCache, result, runs, met>>
  /\ UNCHANGED <<pool, held, published, abandoned, guiBusy, owner, posted, bounds, answers>>

\* abandon(): the flag first, then the published session under the mutex.
Abandon(j) ==
  /\ abandoned' = [abandoned EXCEPT ![j] = TRUE]
  /\ guiBusy' = {j}

\* RestartRunner::abort(): a run in hand is stopped once.
Abort(j) ==
  /\ GuiFree /\ KindOf[j] \in {"script", "local"}
  /\ owner[j] = "waiting" /\ answers[j] = 0
  /\ owner' = [owner EXCEPT ![j] = "aborting"]
  /\ IF Remote(j) THEN Abandon(j) ELSE UNCHANGED <<abandoned, guiBusy>>
  /\ UNCHANGED <<pool, worker, posted, retry, bounds, history>>

\* The tab or dialog goes; a local process still running is disowned and terminated.
Close(j) ==
  /\ GuiFree /\ owner[j] \in {"waiting", "aborting"}
  /\ owner' = [owner EXCEPT ![j] = "gone"]
  /\ IF Remote(j) THEN Abandon(j) ELSE UNCHANGED <<abandoned, guiBusy>>
  /\ UNCHANGED <<pool, worker, posted, retry, bounds, history>>

\* The session that is published is shut; a run stopped by its user is answered for.
Cut(j) ==
  /\ j \in guiBusy
  /\ link' = IF published[j] = NoSession THEN link
             ELSE [link EXCEPT ![published[j]] = "dead"]
  /\ posted' = IF owner[j] = "aborting"
               THEN [posted EXCEPT ![j] = @ \cup {"aborted"}] ELSE posted
  /\ guiBusy' = {}
  /\ UNCHANGED <<cache, closed, worker, abandoned, owner, retry, bounds, history>>

\* QProcess: the child ends, or could not be started, and that is the answer.
ProcessEnds(j) ==
  /\ GuiFree /\ At(j, "process")
  /\ Goto(j, "idle")
  /\ answers' = [answers EXCEPT ![j] = @ + IF owner[j] = "gone" THEN 0 ELSE 1]
  /\ UNCHANGED <<pool, held, heldRole, published, repeated, fromCache, result, abandoned, gui, bounds,
                 runs, met>>

\* ~MainWindow: every tab is gone, and drainSshWorkers() latches the cache shut.
Quit ==
  /\ GuiFree /\ \A j \in Jobs : owner[j] \in {"none", "gone"}
  /\ closed' = TRUE
  /\ cache' = <<>>
  /\ link' = Destroyed(link, Cached)
  /\ UNCHANGED <<worker, abandoned, gui, bounds, history>>

GuiStep(j) == Deliver(j) \/ RetryFires(j) \/ Cut(j)

-----------------------------------------------------------------------------
(* The far end: a connection is closed, unseen by an idle session *)

LinkDrops(s) ==
  /\ link[s] = "live" /\ drops < MaxDrops
  /\ link' = [link EXCEPT ![s] = "stale"]
  /\ drops' = drops + 1
  /\ UNCHANGED <<cache, closed, worker, abandoned, gui, plan, refusals, history>>

-----------------------------------------------------------------------------

ErrandsNext ==
  \/ \E j \in Jobs : \/ WorkerStep(j) \/ GuiStep(j)
                     \/ Start(j) \/ Abort(j) \/ Close(j) \/ ProcessEnds(j)
  \/ Quit
  \/ \E s \in Sessions : LinkDrops(s)

\* A worker's thread runs, the event loop turns, and a child told to end does end: it
\* is killed after kKillGraceMs.
Progress(j) == WorkerStep(j) \/ GuiStep(j) \/ (owner[j] # "waiting" /\ ProcessEnds(j))

ErrandsFairness == \A j \in Jobs : WF_errandVars(Progress(j))

ErrandsSpec == ErrandsInit /\ [][ErrandsNext]_errandVars /\ ErrandsFairness

-----------------------------------------------------------------------------
(* Properties *)

Holders(s) == {j \in Jobs : held[j] = s}

\* SshSession is one-thread-at-a-time and nothing locks it: whatever the order of
\* check-outs, evictions, repeats and cancels, a session that exists has exactly one
\* holder, a worker or the cache, and only its holder publishes it to be aborted.
SessionHasOneHolder ==
  /\ \A s \in Sessions :
       /\ link[s] # "free" <=> s \in Cached \/ Holders(s) # {}
       /\ Cardinality(Holders(s)) + Cardinality({i \in DOMAIN cache : cache[i].session = s}) <= 1
  /\ \A j \in Jobs : published[j] \in {NoSession, held[j]}

\* SshWorkerPool.h: a restart script reaches the far end at most once per request,
\* whatever the link does while it runs.
ScriptRunsOnce == \A j \in Jobs : KindOf[j] = "script" => runs[j] <= 1

\* An owner that is still waiting is owed an answer by somebody: its worker, a child,
\* an event on its way, or the timer of a read that is tried again.
NobodyForgotten ==
  \A j \in Jobs :
    owner[j] \in {"waiting", "aborting"} /\ answers[j] = 0
      => pc[j] # "idle" \/ posted[j] # {} \/ retry[j] \/ j \in guiBusy

\* Every worker ends, however its connect slot, its session and its cancel interleave.
WorkersEnd == \A j \in Jobs : Remote(j) => []<>(pc[j] = "idle")

\* RestartRunner.h: finished is emitted exactly once per start().
FinishedOnce == \A j \in Jobs : answers[j] <= 1

\* ConfigFileIO.cpp: a read whose machine was not reached is tried again, never failed.
UnreachedIsRetried ==
  \A j \in Jobs : KindOf[j] = "read" /\ "failed" \in posted[j] => met[j]

\* SPEC.md 4: a save is never repeated unasked after a link died halfway through it.
SaveRunsOnce == \A j \in Jobs : KindOf[j] = "write" => runs[j] <= 1
=============================================================================
