---------------------------- MODULE GuiCallGate ----------------------------
(***************************************************************************)
(* The gate through which a fetcher's thread puts a question to the        *)
(* application thread and waits for the answer.  The application thread    *)
(* is a stack of frames: a question it is inside of runs a nested event    *)
(* loop, and everything that loop delivers runs on top of it.              *)
(***************************************************************************)
EXTENDS Naturals, Sequences

CONSTANTS Workers,
          MaxAsks,      \* bound: questions a worker puts in its life
          MaxInline,    \* bound: questions the application thread puts itself
          MaxCancels,   \* bound: times the window's prompter is withdrawn
          Inline        \* marks the frame of a call() on the application thread

ASSUME GateAssumption == /\ MaxAsks \in Nat /\ MaxInline \in Nat
                         /\ MaxCancels \in Nat

Calls == Workers \X (1 .. MaxAsks)

ASSUME InlineAssumption == Inline \notin Calls

VARIABLES cancelled, running, depth, queue,  \* Pump, under its mutex
          started, done, abandoned,          \* the calls with that flag set
          posted,                            \* drain() events not yet delivered
          frames,                            \* the application thread's stack
          pc, asks, answer,                  \* per worker
          inlines, cancels                   \* how much of the bounds is used

pump   == <<cancelled, running, depth, queue>>
flags  == <<started, done, abandoned>>
worker == <<pc, asks, answer>>
vars   == <<pump, flags, posted, frames, worker, inlines, cancels>>

Phases == {"work", "skipped", "rearm"}
Frames == [call : Calls \cup {Inline}, phase : Phases]

TypeOK == /\ cancelled \in BOOLEAN /\ running \in BOOLEAN
          /\ depth \in Nat
          /\ queue \in Seq(Calls)
          /\ started \subseteq Calls /\ done \subseteq Calls /\ abandoned \subseteq Calls
          /\ posted \in Nat
          /\ frames \in Seq(Frames)
          /\ pc \in [Workers -> {"idle", "checked", "posting", "waiting"}]
          /\ asks \in [Workers -> 0 .. MaxAsks]
          /\ answer \in [Workers -> {"idle", "yes", "no"}]
          /\ inlines \in 0 .. MaxInline /\ cancels \in 0 .. MaxCancels

Init == /\ cancelled = FALSE /\ running = FALSE /\ depth = 0 /\ queue = <<>>
        /\ started = {} /\ done = {} /\ abandoned = {}
        /\ posted = 0 /\ frames = <<>>
        /\ pc = [w \in Workers |-> "idle"]
        /\ asks = [w \in Workers |-> 0]
        /\ answer = [w \in Workers |-> "idle"]
        /\ inlines = 0 /\ cancels = 0

CallOf(w) == <<w, asks[w]>>
Queued == {queue[i] : i \in DOMAIN queue}

-----------------------------------------------------------------------------
(* Mutants: plausible bugs, never part of the specification *)

\* A cancel releases every asker, started or not.
MayWakeOnCancel(c) == c \in done \/ cancelled

\* Any return frees the gate, nested or not.
LeaveRunningNever(d) == FALSE

\* The inline path does not post again on its way out.
InlineOwesNothing == FALSE

-----------------------------------------------------------------------------
(* A worker inside call() *)

\* The first locked section: a cancelled gate answers at once.
Check(w) ==
  /\ pc[w] = "idle" /\ asks[w] < MaxAsks
  /\ IF cancelled
     THEN /\ answer' = [answer EXCEPT ![w] = "no"]
          /\ UNCHANGED <<pc, asks>>
     ELSE /\ pc' = [pc EXCEPT ![w] = "checked"]
          /\ asks' = [asks EXCEPT ![w] = @ + 1]
          /\ UNCHANGED answer
  /\ UNCHANGED <<pump, flags, posted, frames, inlines, cancels>>

\* The second: the call joins the queue, whatever happened since the check.
Push(w) ==
  /\ pc[w] = "checked"
  /\ queue' = Append(queue, CallOf(w))
  /\ pc' = [pc EXCEPT ![w] = "posting"]
  /\ UNCHANGED <<cancelled, running, depth, flags, posted, frames, asks, answer,
                 inlines, cancels>>

Post(w) ==
  /\ pc[w] = "posting"
  /\ posted' = posted + 1
  /\ pc' = [pc EXCEPT ![w] = "waiting"]
  /\ UNCHANGED <<pump, flags, frames, asks, answer, inlines, cancels>>

\* A call that has started is waited out, cancelled or not: its work holds
\* references into the asker's frame.
MayWake(c) == c \in done \/ (cancelled /\ c \notin started)

Wake(w) ==
  /\ pc[w] = "waiting"
  /\ MayWake(CallOf(w))
  /\ pc' = [pc EXCEPT ![w] = "idle"]
  /\ IF CallOf(w) \in done /\ CallOf(w) \notin abandoned
     THEN /\ answer' = [answer EXCEPT ![w] = "yes"]
          /\ UNCHANGED abandoned
     ELSE /\ answer' = [answer EXCEPT ![w] = "no"]
          /\ abandoned' = abandoned \cup {CallOf(w)}
  /\ UNCHANGED <<pump, started, done, posted, frames, asks, inlines, cancels>>

-----------------------------------------------------------------------------
(* The application thread *)

Bottom == [call |-> Inline, phase |-> "loop"]  \* the application's own loop
Top == IF frames = <<>> THEN Bottom ELSE frames[Len(frames)]
Below == SubSeq(frames, 1, Len(frames) - 1)
WithTop(phase) == [frames EXCEPT ![Len(frames)].phase = phase]

\* It turns an event loop: its own, or the one of the dialog it is inside of.
AtLoop == Top.phase \in {"loop", "work"}

Enter == running' = TRUE /\ depth' = depth + 1

\* leaveLocked(): only the outermost return frees the gate.
LeaveRunning(d) == d > 1

Leave == running' = LeaveRunning(depth) /\ depth' = depth - 1

\* A posted drain() is delivered: dropped while a question is up.
Deliver ==
  /\ AtLoop /\ posted > 0
  /\ posted' = posted - 1
  /\ IF running \/ queue = <<>>
     THEN UNCHANGED <<pump, started, frames>>
     ELSE /\ queue' = Tail(queue)
          /\ UNCHANGED cancelled
          /\ IF Head(queue) \in abandoned
             THEN /\ frames' = Append(frames, [call |-> Head(queue), phase |-> "skipped"])
                  /\ UNCHANGED <<started, running, depth>>
             ELSE /\ frames' = Append(frames, [call |-> Head(queue), phase |-> "work"])
                  /\ started' = started \cup {Head(queue)}
                  /\ Enter
  /\ UNCHANGED <<done, abandoned, worker, inlines, cancels>>

\* call() on the application thread.  The owner of whatever runs is always
\* this thread, so it is never refused for running.
AskInline ==
  /\ AtLoop /\ inlines < MaxInline
  /\ ~cancelled
  /\ inlines' = inlines + 1
  /\ frames' = Append(frames, [call |-> Inline, phase |-> "work"])
  /\ Enter
  /\ UNCHANGED <<cancelled, queue, flags, posted, worker, cancels>>

\* Does an inline call that has just left owe the queue a drain()?
InlineOwesDrain == depth = 1 /\ queue # <<>>

\* The work returns and its second locked section runs.
Return ==
  /\ Top.phase \in {"work", "skipped"}
  /\ IF Top.phase = "work" THEN Leave ELSE UNCHANGED <<running, depth>>
  /\ done' = IF Top.call = Inline THEN done ELSE done \cup {Top.call}
  /\ frames' = IF \/ Top.call = Inline /\ InlineOwesDrain
                  \/ Top.call # Inline /\ queue # <<>>
               THEN WithTop("rearm")
               ELSE Below
  /\ UNCHANGED <<cancelled, queue, started, abandoned, posted, worker, inlines, cancels>>

Rearm ==
  /\ Top.phase = "rearm"
  /\ posted' = posted + 1
  /\ frames' = Below
  /\ UNCHANGED <<pump, flags, worker, inlines, cancels>>

\* setSshPrompter(nullptr): the window goes.
Cancel ==
  /\ AtLoop /\ cancels < MaxCancels
  /\ cancels' = cancels + 1
  /\ cancelled' = TRUE
  /\ abandoned' = abandoned \cup (Queued \ started)
  /\ UNCHANGED <<running, depth, queue, started, done, posted, frames, worker, inlines>>

\* setSshPrompter(p): a window comes.
Reopen ==
  /\ AtLoop /\ cancelled
  /\ cancelled' = FALSE
  /\ UNCHANGED <<running, depth, queue, flags, posted, frames, worker, inlines, cancels>>

-----------------------------------------------------------------------------
App == Deliver \/ Return \/ Rearm

Caller(w) == Push(w) \/ Post(w) \/ Wake(w)

Next == \/ \E w \in Workers : Check(w) \/ Caller(w)
        \/ App \/ AskInline \/ Cancel \/ Reopen

\* The event loop keeps turning, a question that is up is answered some day,
\* and no thread stops inside call() other than at its wait.
Fairness == /\ WF_vars(Deliver) /\ WF_vars(Return) /\ WF_vars(Rearm)
            /\ \A w \in Workers : WF_vars(Caller(w))

Spec == Init /\ [][Next]_vars /\ Fairness

-----------------------------------------------------------------------------
(* Properties *)

AtWork(c) == \E i \in DOMAIN frames : frames[i] = [call |-> c, phase |-> "work"]

\* While the application thread is inside a question, the worker that put it
\* is still parked in the very call whose frame the work refers to: no cancel,
\* withdrawal or later question can have let it go (rule 2 of GuiCallGate.h).
FrameAlive ==
  \A w \in Workers, n \in 1 .. MaxAsks :
    AtWork(<<w, n>>) => /\ pc[w] \in {"posting", "waiting"}
                        /\ asks[w] = n
                        /\ <<w, n>> \notin done \cup abandoned

\* Two workers' questions are never up together, however many the nested event
\* loops deliver and whatever the application thread asks inline meanwhile
\* (rule 3).
OneQuestion == \A c, d \in Calls : AtWork(c) /\ AtWork(d) => c = d

\* No worker is left parked: every call() returns although drain events
\* delivered into a nested loop are dropped (bugs.md 35).
EveryAskerReturns == \A w \in Workers : pc[w] # "idle" ~> pc[w] = "idle"

\* What each worker can observe of its question is the contract of the gate:
\* true exactly when the work ran to its end, and a cancel dooms what is queued.
AskOf(w) ==
  IF pc[w] \in {"idle", "checked"} THEN answer[w]
  ELSE IF CallOf(w) \in abandoned THEN "doomed"
  ELSE IF CallOf(w) \in done THEN "yes"
  ELSE IF CallOf(w) \in started THEN "served"
  ELSE "asked"

Contract == INSTANCE GateContract WITH
  Askers <- Workers,
  ask <- [w \in Workers |-> AskOf(w)], open <- ~cancelled

KeepsContract == Contract!GateSpec

=============================================================================
