---------------------------- MODULE PromptProofs ----------------------------
(***************************************************************************)
(* Workers and the application thread, for any number of workers, of       *)
(* questions and of hosts.  Of the gate: an asker outlives the work that   *)
(* refers to its frame, two workers' questions are never up together, and  *)
(* the contract is kept.  Of signing in over that contract: who puts the   *)
(* password dialog of a host, and where a password may be kept.  Of        *)
(* signing in on a console, where nobody is asked: what reads the password *)
(* and in which order the startup commands run.                            *)
(*                                                                         *)
(* The window comes back as it was left, whatever was opened, moved and    *)
(* closed in it.  TabInv is inductive: the bar, the views and the logs     *)
(* agree, a session that was saved can be read back, and what was left is  *)
(* what it brings.                                                         *)
(***************************************************************************)
EXTENDS GuiCallGate, SshLogin, ConsoleLogin, WindowTabs, FiniteSetTheorems, SequenceTheorems,
        WellFoundedInduction, TLAPS

-----------------------------------------------------------------------------
(* The inductive invariant *)

\* The stack: only its top may be anything but a running work, a worker's
\* call can only be the outermost frame, and the counters agree with it.
Stack == /\ \A i \in DOMAIN frames : i < Len(frames) => frames[i].phase = "work"
         /\ \A i \in DOMAIN frames : frames[i].call # Inline => i = 1
         /\ depth = IF AtLoop THEN Len(frames) ELSE Len(frames) - 1
         /\ running <=> depth > 0

\* A call is met somewhere only after its worker pushed it.
Known(c) == /\ c[2] <= asks[c[1]]
            /\ pc[c[1]] = "checked" => c[2] < asks[c[1]]

Numbered == /\ \A w \in Workers : pc[w] # "idle" => asks[w] >= 1
            /\ \A c \in started \cup done \cup abandoned : Known(c)
            /\ \A i \in DOMAIN queue : Known(queue[i])
            /\ \A i \in DOMAIN frames : frames[i].call # Inline => Known(frames[i].call)

\* The worker of a call is inside that very call.
Parked(c) == asks[c[1]] = c[2] /\ pc[c[1]] \in {"posting", "waiting"}

\* A queued call waits once, unanswered, and its worker with it unless it is
\* abandoned.
Waiting ==
  /\ \A i, j \in DOMAIN queue : queue[i] = queue[j] => i = j
  /\ \A i \in DOMAIN queue : /\ queue[i] \notin done
                             /\ queue[i] \in abandoned \/ Parked(queue[i])
  /\ \A i \in DOMAIN queue, j \in DOMAIN frames : queue[i] # frames[j].call

\* A call the application thread is inside of has its worker parked.
Served ==
  \A i \in DOMAIN frames :
    frames[i].call # Inline /\ frames[i].phase = "work" =>
      /\ frames[i].call \in started
      /\ frames[i].call \notin done \cup abandoned
      /\ Parked(frames[i].call)

GateInv == TypeOK /\ Stack /\ Numbered /\ Waiting /\ Served

-----------------------------------------------------------------------------
(* Calls and sequences *)

LEMMA CallParts ==
  /\ \A c \in Calls : c = <<c[1], c[2]>> /\ c[1] \in Workers /\ c[2] \in 1 .. MaxAsks
  /\ \A w \in Workers, n \in 1 .. MaxAsks :
       <<w, n>> \in Calls /\ <<w, n>>[1] = w /\ <<w, n>>[2] = n
  BY DEF Calls

LEMMA AppendFacts ==
  ASSUME NEW S, NEW s \in Seq(S), NEW e \in S
  PROVE  /\ Append(s, e) \in Seq(S) /\ Len(Append(s, e)) = Len(s) + 1
         /\ Append(s, e) # <<>> /\ Append(s, e)[Len(s) + 1] = e
         /\ DOMAIN Append(s, e) = 1 .. Len(s) + 1 /\ DOMAIN s = 1 .. Len(s)
         /\ \A i \in DOMAIN s : Append(s, e)[i] = s[i]
  OBVIOUS

LEMMA TailFacts ==
  ASSUME NEW S, NEW s \in Seq(S), s # <<>>
  PROVE  /\ Tail(s) \in Seq(S) /\ Len(Tail(s)) = Len(s) - 1
         /\ 1 \in DOMAIN s /\ Head(s) = s[1] /\ Head(s) \in S
         /\ \A i \in DOMAIN Tail(s) : i + 1 \in DOMAIN s /\ Tail(s)[i] = s[i + 1]
  OBVIOUS

LEMMA FrontFacts ==
  ASSUME NEW S, NEW s \in Seq(S), s # <<>>
  PROVE  /\ SubSeq(s, 1, Len(s) - 1) \in Seq(S)
         /\ Len(SubSeq(s, 1, Len(s) - 1)) = Len(s) - 1
         /\ Len(s) \in DOMAIN s /\ s[Len(s)] \in S
         /\ \A i \in DOMAIN SubSeq(s, 1, Len(s) - 1) :
              i \in DOMAIN s /\ i < Len(s) /\ SubSeq(s, 1, Len(s) - 1)[i] = s[i]
<1>1. Len(s) \in Nat /\ Len(s) > 0 /\ DOMAIN s = 1 .. Len(s) OBVIOUS
<1>2. /\ SubSeq(s, 1, Len(s) - 1) \in Seq(S)
      /\ Len(SubSeq(s, 1, Len(s) - 1)) = Len(s) - 1
  BY <1>1
<1>3. Len(s) \in DOMAIN s /\ s[Len(s)] \in S BY <1>1
<1>4. ASSUME NEW i \in DOMAIN SubSeq(s, 1, Len(s) - 1)
      PROVE  i \in DOMAIN s /\ i < Len(s) /\ SubSeq(s, 1, Len(s) - 1)[i] = s[i]
  BY <1>1, <1>2
<1> QED BY <1>2, <1>3, <1>4

\* The call a worker has just made, and what Known and Parked hang on.
LEMMA CallOfIsACall ==
  ASSUME TypeOK, NEW w \in Workers, asks[w] >= 1
  PROVE  CallOf(w) \in Calls /\ CallOf(w)[1] = w /\ CallOf(w)[2] = asks[w]
  BY CallParts, GateAssumption DEF CallOf, TypeOK

LEMMA MembersAreCalls ==
  ASSUME TypeOK
  PROVE  /\ \A i \in DOMAIN queue : queue[i] \in Calls
         /\ \A i \in DOMAIN frames : frames[i].call # Inline => frames[i].call \in Calls
         /\ \A i \in DOMAIN frames : frames[i] \in Frames
<1>1. \A i \in DOMAIN frames : frames[i] \in Frames BY DEF TypeOK
<1>2. \A f \in Frames : f.call # Inline => f.call \in Calls BY DEF Frames
<1>3. \A i \in DOMAIN queue : queue[i] \in Calls BY DEF TypeOK
<1> QED BY <1>1, <1>2, <1>3

-----------------------------------------------------------------------------
(* The steps of a worker *)

LEMMA CheckKeeps ==
  ASSUME GateInv, NEW w \in Workers, Check(w)
  PROVE  GateInv'
<1> USE GateAssumption DEF GateInv
<1>1. /\ pc[w] = "idle" /\ asks[w] < MaxAsks
      /\ UNCHANGED <<cancelled, running, depth, queue, started, done, abandoned,
                     posted, frames, inlines, cancels>>
  BY DEF Check, pump, flags
<1>2. CASE cancelled
  <2>1. answer' = [answer EXCEPT ![w] = "no"] /\ UNCHANGED <<pc, asks>> BY <1>2 DEF Check
  <2>2. TypeOK' BY <1>1, <2>1 DEF TypeOK
  <2>3. Stack' BY <1>1 DEF Stack, AtLoop, Top, Bottom
  <2>4. Numbered' BY <1>1, <2>1 DEF Numbered, Known
  <2>5. Waiting' BY <1>1, <2>1 DEF Waiting, Parked
  <2>6. Served' BY <1>1, <2>1 DEF Served, Parked
  <2> QED BY <2>2, <2>3, <2>4, <2>5, <2>6
<1>3. CASE ~cancelled
  <2>1. /\ pc' = [pc EXCEPT ![w] = "checked"] /\ asks' = [asks EXCEPT ![w] = @ + 1]
        /\ UNCHANGED answer
    BY <1>3 DEF Check
  <2>2. TypeOK' BY <1>1, <2>1 DEF TypeOK
  <2>3. Stack' BY <1>1 DEF Stack, AtLoop, Top, Bottom
  <2>4. \A c \in Calls : (Known(c) => Known(c)') /\ (Parked(c) => Parked(c)')
    BY <1>1, <2>1, CallParts DEF TypeOK, Known, Parked
  <2>5. Numbered'
    <3>1. (\A v \in Workers : pc[v] # "idle" => asks[v] >= 1)'
      BY <1>1, <2>1 DEF Numbered, TypeOK
    <3>2. (\A e \in started \cup done \cup abandoned : Known(e))'
      BY <1>1, <2>4 DEF Numbered, TypeOK
    <3>3. (\A i \in DOMAIN queue : Known(queue[i]))' BY <1>1, <2>4 DEF Numbered, TypeOK
    <3>4. (\A i \in DOMAIN frames : frames[i].call # Inline => Known(frames[i].call))'
      BY <1>1, <2>4, MembersAreCalls DEF Numbered, TypeOK
    <3> QED BY <3>1, <3>2, <3>3, <3>4 DEF Numbered
  <2>6. Waiting' BY <1>1, <2>4 DEF TypeOK, Waiting
  <2>7. Served' BY <1>1, <2>4 DEF TypeOK, Served, Frames
  <2> QED BY <2>2, <2>3, <2>5, <2>6, <2>7
<1> QED BY <1>2, <1>3

LEMMA PushKeeps ==
  ASSUME GateInv, NEW w \in Workers, Push(w)
  PROVE  GateInv'
<1> USE GateAssumption DEF GateInv
<1>1. /\ pc[w] = "checked" /\ pc' = [pc EXCEPT ![w] = "posting"]
      /\ queue' = Append(queue, CallOf(w))
      /\ UNCHANGED <<cancelled, running, depth, started, done, abandoned,
                     posted, frames, asks, answer, inlines, cancels>>
  BY DEF Push, flags
<1>2. /\ CallOf(w) \in Calls /\ CallOf(w)[1] = w /\ CallOf(w)[2] = asks[w]
  BY <1>1, CallOfIsACall DEF TypeOK, Numbered
<1> DEFINE c == CallOf(w)
<1>c. /\ c \in Calls /\ c[1] = w /\ c[2] = asks[w] /\ queue' = Append(queue, c)
      /\ c' = c
  BY <1>1, <1>2 DEF CallOf
<1> HIDE DEF c
<1>3. ~Known(c) BY <1>1, <1>c DEF Known, TypeOK
<1>4. /\ queue' \in Seq(Calls) /\ DOMAIN queue' = 1 .. Len(queue) + 1
      /\ queue'[Len(queue) + 1] = c /\ DOMAIN queue = 1 .. Len(queue)
      /\ \A i \in DOMAIN queue : queue'[i] = queue[i]
      /\ Len(queue) \in Nat
  BY <1>c, AppendFacts DEF TypeOK
<1>5. TypeOK' BY <1>1, <1>4 DEF TypeOK
<1>6. Stack' BY <1>1 DEF Stack, AtLoop, Top, Bottom
<1>7. \A e \in Calls : (Known(e) => Known(e)') /\ (Parked(e) => Parked(e)')
  BY <1>1, CallParts DEF TypeOK, Known, Parked
<1>8. Known(c)' /\ Parked(c)' BY <1>1, <1>c DEF TypeOK, Known, Parked
<1>9. \A i \in DOMAIN queue' : i \in DOMAIN queue \/ i = Len(queue) + 1 BY <1>4
<1>10. Numbered'
  <2>1. (\A v \in Workers : pc[v] # "idle" => asks[v] >= 1)' BY <1>1 DEF Numbered, TypeOK
  <2>2. (\A e \in started \cup done \cup abandoned : Known(e))'
    BY <1>1, <1>7 DEF Numbered, TypeOK
  <2>3. (\A i \in DOMAIN queue : Known(queue[i]))'
    <3>1. \A i \in DOMAIN queue : Known(queue[i])'
      BY <1>4, <1>7, MembersAreCalls DEF Numbered
    <3> QED BY <1>1, <1>4, <1>8, <1>9, <1>c, <3>1, MembersAreCalls DEF Known
  <2>4. (\A i \in DOMAIN frames : frames[i].call # Inline => Known(frames[i].call))'
    BY <1>1, <1>7, MembersAreCalls DEF Numbered, TypeOK
  <2> QED BY <2>1, <2>2, <2>3, <2>4 DEF Numbered
<1>11. /\ \A i \in DOMAIN queue : queue[i] # c
       /\ c \notin done
       /\ \A j \in DOMAIN frames : c # frames[j].call
  BY <1>3, <1>c, InlineAssumption DEF Numbered
<1>12. Waiting'
  <2>1. \A i, j \in DOMAIN queue' : queue'[i] = queue'[j] => i = j
    BY <1>4, <1>9, <1>11 DEF Waiting
  <2>2. (\A i \in DOMAIN queue : /\ queue[i] \notin done
                                 /\ queue[i] \in abandoned \/ Parked(queue[i]))'
    <3>1. \A i \in DOMAIN queue : queue[i] \in abandoned' \/ Parked(queue[i])'
      BY <1>1, <1>4, <1>7, MembersAreCalls DEF Waiting
    <3> QED BY <1>1, <1>4, <1>8, <1>9, <1>11, <1>c, <3>1 DEF Waiting, Parked
  <2>3. \A i \in DOMAIN queue', j \in DOMAIN frames' : queue'[i] # frames'[j].call
    BY <1>1, <1>4, <1>9, <1>11 DEF Waiting
  <2> QED BY <2>1, <2>2, <2>3 DEF Waiting
<1>13. Served' BY <1>1, <1>7 DEF TypeOK, Served, Frames
<1> QED BY <1>5, <1>6, <1>10, <1>12, <1>13

LEMMA PostKeeps ==
  ASSUME GateInv, NEW w \in Workers, Post(w)
  PROVE  GateInv'
<1> USE GateAssumption DEF GateInv
<1>1. /\ pc[w] = "posting" /\ pc' = [pc EXCEPT ![w] = "waiting"]
      /\ posted' = posted + 1
      /\ UNCHANGED <<cancelled, running, depth, queue, started, done, abandoned,
                     frames, asks, answer, inlines, cancels>>
  BY DEF Post, pump, flags
<1>2. TypeOK' BY <1>1 DEF TypeOK
<1>3. Stack' BY <1>1 DEF Stack, AtLoop, Top, Bottom
<1>4. \A c \in Calls : (Known(c) => Known(c)') /\ (Parked(c) => Parked(c)')
  BY <1>1, CallParts DEF TypeOK, Known, Parked
<1>5. Numbered'
  <2>1. (\A v \in Workers : pc[v] # "idle" => asks[v] >= 1)' BY <1>1 DEF Numbered, TypeOK
  <2>2. (\A e \in started \cup done \cup abandoned : Known(e))'
    BY <1>1, <1>4 DEF Numbered, TypeOK
  <2>3. (\A i \in DOMAIN queue : Known(queue[i]))' BY <1>1, <1>4 DEF Numbered, TypeOK
  <2>4. (\A i \in DOMAIN frames : frames[i].call # Inline => Known(frames[i].call))'
    BY <1>1, <1>4, MembersAreCalls DEF Numbered, TypeOK
  <2> QED BY <2>1, <2>2, <2>3, <2>4 DEF Numbered
<1>6. Waiting' BY <1>1, <1>4 DEF TypeOK, Waiting
<1>7. Served' BY <1>1, <1>4 DEF TypeOK, Served, Frames
<1> QED BY <1>2, <1>3, <1>5, <1>6, <1>7

\* A worker leaves call() only when its question is over or will never start.
LEMMA WakeKeeps ==
  ASSUME GateInv, NEW w \in Workers, Wake(w)
  PROVE  GateInv'
<1> USE GateAssumption DEF GateInv
<1> DEFINE c == CallOf(w)
<1>1. /\ pc[w] = "waiting" /\ pc' = [pc EXCEPT ![w] = "idle"]
      /\ c \in done \/ c \notin started
      /\ UNCHANGED <<cancelled, running, depth, queue, started, done, posted,
                     frames, asks, inlines, cancels>>
      /\ \/ c \in done /\ abandoned' = abandoned
         \/ abandoned' = abandoned \cup {c}
      /\ answer' = [answer EXCEPT ![w] = "yes"] \/ answer' = [answer EXCEPT ![w] = "no"]
  BY DEF Wake, pump, MayWake
<1>2. c \in Calls /\ c[1] = w /\ c[2] = asks[w] /\ c' = c
  BY <1>1, CallOfIsACall DEF TypeOK, Numbered, CallOf
<1>3. \A e \in Calls : e # c /\ Parked(e) => e[1] # w BY <1>2, CallParts DEF Parked
<1> HIDE DEF c
<1>4. TypeOK' BY <1>1, <1>2 DEF TypeOK
<1>5. Stack' BY <1>1 DEF Stack, AtLoop, Top, Bottom
<1>6. \A e \in Calls : Known(e) => Known(e)' BY <1>1, CallParts DEF TypeOK, Known
<1>7. \A e \in Calls : e # c /\ Parked(e) => Parked(e)'
  BY <1>1, <1>3, CallParts DEF TypeOK, Parked
<1>8. Known(c)' BY <1>1, <1>2 DEF TypeOK, Known
<1>9. Numbered'
  <2>1. (\A v \in Workers : pc[v] # "idle" => asks[v] >= 1)' BY <1>1 DEF Numbered, TypeOK
  <2>2. (\A e \in started \cup done \cup abandoned : Known(e))'
    BY <1>1, <1>2, <1>6, <1>8 DEF Numbered, TypeOK
  <2>3. (\A i \in DOMAIN queue : Known(queue[i]))' BY <1>1, <1>6 DEF Numbered, TypeOK
  <2>4. (\A i \in DOMAIN frames : frames[i].call # Inline => Known(frames[i].call))'
    BY <1>1, <1>6, MembersAreCalls DEF Numbered, TypeOK
  <2> QED BY <2>1, <2>2, <2>3, <2>4 DEF Numbered
<1>10. Waiting'
  <2>1. \A i \in DOMAIN queue : queue[i] \in abandoned' \/ Parked(queue[i])'
    BY <1>1, <1>7 DEF Waiting, TypeOK
  <2> QED BY <1>1, <2>1 DEF Waiting, TypeOK
<1>11. Served'
  <2> SUFFICES ASSUME NEW i \in DOMAIN frames, frames[i].call # Inline,
                      frames[i].phase = "work"
               PROVE  /\ frames[i].call \in started
                      /\ frames[i].call \notin done \cup abandoned'
                      /\ Parked(frames[i].call)'
    BY <1>1 DEF Served
  <2>1. /\ frames[i].call \in started /\ frames[i].call \notin done \cup abandoned
        /\ Parked(frames[i].call) /\ frames[i].call \in Calls
    BY DEF Served, TypeOK, Frames
  <2>2. frames[i].call # c BY <1>1, <2>1
  <2> QED BY <1>1, <1>7, <2>1, <2>2
<1> QED BY <1>4, <1>5, <1>9, <1>10, <1>11

-----------------------------------------------------------------------------
(* The steps of the application thread *)

\* What these steps leave alone, and what then stays true.
LEMMA WorkersUntouched ==
  ASSUME TypeOK, UNCHANGED worker
  PROVE  /\ \A c \in Calls : (Known(c) <=> Known(c)') /\ (Parked(c) <=> Parked(c)')
         /\ UNCHANGED <<pc, asks, answer>>
  BY DEF worker, Known, Parked

LEMMA CancelKeeps ==
  ASSUME GateInv, Cancel
  PROVE  GateInv'
<1> USE GateAssumption DEF GateInv
<1>1. /\ cancels < MaxCancels /\ cancels' = cancels + 1 /\ cancelled' = TRUE
      /\ abandoned' = abandoned \cup (Queued \ started)
      /\ UNCHANGED <<running, depth, queue, started, done, posted, frames, inlines>>
      /\ UNCHANGED worker
  BY DEF Cancel
<1>2. /\ Queued \subseteq Calls
      /\ \A i \in DOMAIN queue : queue[i] \in Queued
      /\ \A e \in Queued : \E i \in DOMAIN queue : e = queue[i]
  BY MembersAreCalls DEF Queued
<1>3. /\ \A c \in Calls : (Known(c) <=> Known(c)') /\ (Parked(c) <=> Parked(c)')
      /\ UNCHANGED <<pc, asks, answer>>
  BY <1>1, WorkersUntouched
<1>4. TypeOK' BY <1>1, <1>2, <1>3 DEF TypeOK
<1>5. Stack' BY <1>1 DEF Stack, AtLoop, Top, Bottom
<1>6. Numbered'
  <2>1. (\A v \in Workers : pc[v] # "idle" => asks[v] >= 1)' BY <1>3 DEF Numbered
  <2>2. (\A e \in started \cup done \cup abandoned : Known(e))'
    BY <1>1, <1>2, <1>3 DEF Numbered, TypeOK
  <2>3. (\A i \in DOMAIN queue : Known(queue[i]))'
    BY <1>1, <1>3, MembersAreCalls DEF Numbered
  <2>4. (\A i \in DOMAIN frames : frames[i].call # Inline => Known(frames[i].call))'
    BY <1>1, <1>3, MembersAreCalls DEF Numbered
  <2> QED BY <2>1, <2>2, <2>3, <2>4 DEF Numbered
<1>7. Waiting' BY <1>1, <1>3, MembersAreCalls DEF Waiting, Parked
<1>8. Served'
  <2>1. \A i \in DOMAIN frames :
          frames[i].call \in started => frames[i].call \notin Queued \ started
    OBVIOUS
  <2> QED BY <1>1, <1>3, <2>1, MembersAreCalls DEF Served, Parked
<1> QED BY <1>4, <1>5, <1>6, <1>7, <1>8

LEMMA ReopenKeeps ==
  ASSUME GateInv, Reopen
  PROVE  GateInv'
<1>1. /\ cancelled' = FALSE
      /\ UNCHANGED <<running, depth, queue, started, done, abandoned, posted, frames,
                     pc, asks, answer, inlines, cancels>>
  BY DEF Reopen, flags, worker
<1>2. TypeOK' BY <1>1 DEF GateInv, TypeOK
<1>3. Stack' /\ Numbered' /\ Waiting' /\ Served'
  BY <1>1 DEF GateInv, Stack, Numbered, Waiting, Served, AtLoop, Top, Bottom, Known, Parked
<1> QED BY <1>2, <1>3 DEF GateInv

\* The gate is free exactly when the application thread turns its own loop or
\* is on its way out of the last frame.
LEMMA FreeMeansEmpty ==
  ASSUME TypeOK, Stack, AtLoop
  PROVE  /\ depth = Len(frames)
         /\ ~running => frames = <<>>
<1>1. depth = Len(frames) /\ Len(frames) \in Nat BY DEF TypeOK, Stack
<1>2. ~running => ~(depth > 0) BY DEF TypeOK, Stack
<1>3. Len(frames) = 0 => frames = <<>> BY DEF TypeOK
<1> QED BY <1>1, <1>2, <1>3

LEMMA DeliverKeeps ==
  ASSUME GateInv, Deliver
  PROVE  GateInv'
<1> USE GateAssumption DEF GateInv
<1>1. /\ AtLoop /\ posted > 0 /\ posted' = posted - 1
      /\ UNCHANGED <<done, abandoned, inlines, cancels>> /\ UNCHANGED worker
  BY DEF Deliver
<1>2. /\ \A c \in Calls : (Known(c) <=> Known(c)') /\ (Parked(c) <=> Parked(c)')
      /\ UNCHANGED <<pc, asks, answer>>
  BY <1>1, WorkersUntouched
<1>3. CASE running \/ queue = <<>>
  <2>1. UNCHANGED <<cancelled, running, depth, queue, started, frames>>
    BY <1>3 DEF Deliver, pump
  <2>2. TypeOK' BY <1>1, <1>2, <2>1 DEF TypeOK
  <2>3. Stack' /\ Numbered' /\ Waiting' /\ Served'
    BY <1>1, <1>2, <2>1 DEF Stack, Numbered, Waiting, Served, AtLoop, Top, Bottom, Known, Parked
  <2> QED BY <2>2, <2>3
<1>4. CASE ~(running \/ queue = <<>>)
  <2> DEFINE c == queue[1]
             phase == IF c \in abandoned THEN "skipped" ELSE "work"
             f == [call |-> c, phase |-> phase]
  <2>1. /\ 1 \in DOMAIN queue /\ c \in Calls /\ Head(queue) = c
        /\ Tail(queue) \in Seq(Calls)
        /\ \A i \in DOMAIN Tail(queue) :
             i + 1 \in DOMAIN queue /\ Tail(queue)[i] = queue[i + 1]
    BY <1>4, TailFacts DEF TypeOK
  <2>2. frames = <<>> /\ depth = 0 BY <1>1, <1>4, FreeMeansEmpty DEF TypeOK
  <2>3. /\ queue' = Tail(queue) /\ UNCHANGED cancelled
        /\ frames' = <<f>>
        /\ IF c \in abandoned
           THEN UNCHANGED <<started, running, depth>>
           ELSE started' = started \cup {c} /\ running' = TRUE /\ depth' = 1
    BY <1>4, <2>1, <2>2 DEF Deliver, Enter
  <2>4. /\ frames' # <<>> /\ Len(frames') = 1 /\ frames'[1] = f /\ DOMAIN frames' = {1}
    BY <2>3
  <2>5. f \in Frames /\ f.call = c /\ f.phase = phase BY <2>1 DEF Frames, Phases
  <2>6. /\ c \notin done
        /\ c \in abandoned \/ Parked(c)
        /\ Known(c)
        /\ c # Inline
    BY <2>1, InlineAssumption DEF Waiting, Numbered
  <2>7. TypeOK'
    <3>1. frames' \in Seq(Frames) BY <2>3, <2>5
    <3>2. started' \subseteq Calls /\ running' \in BOOLEAN /\ depth' \in Nat
      <4>1. CASE c \in abandoned BY <2>3, <4>1 DEF TypeOK
      <4>2. CASE c \notin abandoned BY <2>1, <2>3, <4>2 DEF TypeOK
      <4> QED BY <4>1, <4>2
    <3>3. queue' \in Seq(Calls) /\ posted' \in Nat BY <1>1, <2>1, <2>3 DEF TypeOK
    <3> QED BY <1>1, <1>2, <2>3, <3>1, <3>2, <3>3 DEF TypeOK
  <2>8. Stack'
    <3>1. AtLoop' <=> phase = "work" BY <2>4, <2>5 DEF AtLoop, Top
    <3>2. depth' = IF AtLoop' THEN 1 ELSE 0 BY <2>2, <2>3, <3>1
    <3>3. (running' <=> depth' > 0)
      <4>1. CASE c \in abandoned BY <1>4, <2>2, <2>3, <4>1
      <4>2. CASE c \notin abandoned BY <2>3, <4>2
      <4> QED BY <4>1, <4>2
    <3>4. \A i \in DOMAIN frames' : i = 1 /\ ~(i < Len(frames')) BY <2>4
    <3> QED BY <2>4, <3>2, <3>3, <3>4 DEF Stack
  <2>9. \A i \in DOMAIN queue' : \E j \in DOMAIN queue : j = i + 1 /\ queue'[i] = queue[j]
    BY <2>1, <2>3
  <2>10. Numbered'
    <3>1. (\A v \in Workers : pc[v] # "idle" => asks[v] >= 1)' BY <1>2 DEF Numbered
    <3>2. Known(c) /\ started' \subseteq started \cup {c} BY <2>1, <2>3 DEF Numbered
    <3>3. (\A e \in started \cup done \cup abandoned : Known(e))'
      BY <1>1, <1>2, <2>1, <3>2 DEF Numbered, Known
    <3>4. (\A i \in DOMAIN queue : Known(queue[i]))' BY <1>2, <2>9 DEF Numbered, Known
    <3>5. (\A i \in DOMAIN frames : frames[i].call # Inline => Known(frames[i].call))'
      BY <1>2, <2>4, <2>5, <3>2 DEF Known
    <3> QED BY <3>1, <3>3, <3>4, <3>5 DEF Numbered
  <2>11. Waiting'
    <3>1. (\A i, j \in DOMAIN queue : queue[i] = queue[j] => i = j)'
      BY <2>1, <2>3 DEF Waiting
    <3>2. (\A i \in DOMAIN queue : /\ queue[i] \notin done
                                   /\ queue[i] \in abandoned \/ Parked(queue[i]))'
      BY <1>1, <1>2, <2>9 DEF Waiting, Parked
    <3>3. (\A i \in DOMAIN queue, j \in DOMAIN frames : queue[i] # frames[j].call)'
      <4>1. \A i \in DOMAIN queue' : queue'[i] # c BY <2>1, <2>3 DEF Waiting
      <4> QED BY <2>4, <2>5, <4>1
    <3> QED BY <3>1, <3>2, <3>3 DEF Waiting
  <2>12. Served'
    <3>1. CASE c \in abandoned BY <2>4, <2>5, <3>1 DEF Served
    <3>2. CASE c \notin abandoned
      <4>1. c \in started' /\ c \notin done' \cup abandoned' /\ Parked(c)
        BY <1>1, <2>3, <2>6, <3>2
      <4>2. asks' = asks /\ pc' = pc BY <1>2
      <4> QED BY <2>4, <2>5, <4>1, <4>2 DEF Served, Parked
    <3> QED BY <3>1, <3>2
  <2> QED BY <2>7, <2>8, <2>10, <2>11, <2>12
<1> QED BY <1>3, <1>4

LEMMA AskInlineKeeps ==
  ASSUME GateInv, AskInline
  PROVE  GateInv'
<1> USE GateAssumption DEF GateInv
<1> DEFINE f == [call |-> Inline, phase |-> "work"]
<1>1. /\ AtLoop /\ inlines < MaxInline /\ inlines' = inlines + 1
      /\ frames' = Append(frames, f) /\ running' = TRUE /\ depth' = depth + 1
      /\ UNCHANGED <<cancelled, queue, started, done, abandoned, posted, cancels>>
      /\ UNCHANGED worker
  BY DEF AskInline, Enter, flags
<1>2. /\ \A c \in Calls : (Known(c) <=> Known(c)') /\ (Parked(c) <=> Parked(c)')
      /\ UNCHANGED <<pc, asks, answer>>
  BY <1>1, WorkersUntouched
<1>3. f \in Frames /\ f.call = Inline /\ f.phase = "work" BY DEF Frames, Phases
<1> HIDE DEF f
<1>4. /\ frames' \in Seq(Frames) /\ Len(frames') = Len(frames) + 1 /\ frames' # <<>>
      /\ frames'[Len(frames) + 1] = f /\ Len(frames) \in Nat
      /\ DOMAIN frames' = 1 .. Len(frames) + 1 /\ DOMAIN frames = 1 .. Len(frames)
      /\ \A i \in DOMAIN frames : frames'[i] = frames[i]
  BY <1>1, <1>3, AppendFacts DEF TypeOK
<1>5. \A i \in DOMAIN frames' : i \in DOMAIN frames \/ i = Len(frames) + 1 BY <1>4
<1>6. TypeOK' BY <1>1, <1>2, <1>4 DEF TypeOK
<1>7. depth = Len(frames) /\ \A i \in DOMAIN frames : frames[i].phase = "work"
  <2>1. \A i \in DOMAIN frames : i < Len(frames) \/ i = Len(frames) BY <1>4
  <2>2. Len(frames) \in DOMAIN frames => frames[Len(frames)].phase = "work"
    <3>1. \A g \in Frames : g.phase # "loop" BY DEF Frames, Phases
    <3> QED BY <1>1, <3>1, MembersAreCalls DEF AtLoop, Top
  <2> QED BY <1>1, <2>1, <2>2, FreeMeansEmpty DEF Stack
<1>8. Stack'
  <2>1. AtLoop' BY <1>3, <1>4 DEF AtLoop, Top
  <2>2. \A i \in DOMAIN frames' : frames'[i].phase = "work" BY <1>3, <1>4, <1>5, <1>7
  <2>3. \A i \in DOMAIN frames' : frames'[i].call # Inline => i = 1
    BY <1>3, <1>4, <1>5 DEF Stack
  <2>4. depth' = Len(frames') /\ (running' <=> depth' > 0) BY <1>1, <1>4, <1>7
  <2> QED BY <2>1, <2>2, <2>3, <2>4 DEF Stack
<1>9. Numbered'
  <2>1. (\A v \in Workers : pc[v] # "idle" => asks[v] >= 1)' BY <1>2 DEF Numbered
  <2>2. (\A e \in started \cup done \cup abandoned : Known(e))'
    BY <1>1, <1>2 DEF Numbered, TypeOK
  <2>3. (\A i \in DOMAIN queue : Known(queue[i]))'
    BY <1>1, <1>2, MembersAreCalls DEF Numbered
  <2>4. (\A i \in DOMAIN frames : frames[i].call # Inline => Known(frames[i].call))'
    BY <1>2, <1>3, <1>4, <1>5 DEF Numbered, Known
  <2> QED BY <2>1, <2>2, <2>3, <2>4 DEF Numbered
<1>10. Waiting'
  <2>1. (\A i \in DOMAIN queue, j \in DOMAIN frames : queue[i] # frames[j].call)'
    BY <1>1, <1>3, <1>4, <1>5, MembersAreCalls, InlineAssumption DEF Waiting
  <2> QED BY <1>1, <1>2, <2>1 DEF Waiting, Parked
<1>11. Served' BY <1>1, <1>2, <1>3, <1>4, <1>5 DEF Served, Parked
<1> QED BY <1>6, <1>8, <1>9, <1>10, <1>11

\* The top frame is left: what is below it was running work.
LEMMA BelowFacts ==
  ASSUME TypeOK, Stack, frames # <<>>, frames' = Below
  PROVE  /\ frames' \in Seq(Frames) /\ Len(frames') = Len(frames) - 1
         /\ \A i \in DOMAIN frames' :
              i \in DOMAIN frames /\ i < Len(frames) /\ frames'[i] = frames[i]
         /\ AtLoop'
         /\ \A i \in DOMAIN frames' : i < Len(frames') => frames'[i].phase = "work"
         /\ \A i \in DOMAIN frames' : frames'[i].call # Inline => i = 1
<1>1. /\ frames' \in Seq(Frames) /\ Len(frames') = Len(frames) - 1
      /\ \A i \in DOMAIN frames' :
           i \in DOMAIN frames /\ i < Len(frames) /\ frames'[i] = frames[i]
  BY FrontFacts DEF TypeOK, Below
<1>2. \A i \in DOMAIN frames' : frames'[i].phase = "work" BY <1>1 DEF Stack
<1>3. frames' # <<>> => Len(frames') \in DOMAIN frames' BY <1>1
<1>4. AtLoop' BY <1>2, <1>3 DEF AtLoop, Top, Bottom
<1> QED BY <1>1, <1>2, <1>4 DEF Stack

\* Dropping the top frame disturbs neither the numbers nor the waiting calls.
LEMMA FewerFrames ==
  ASSUME GateInv, UNCHANGED worker, UNCHANGED <<queue, started, abandoned>>,
         done' = done,
         \A i \in DOMAIN frames' : i \in DOMAIN frames /\ frames'[i] = frames[i]
  PROVE  Numbered' /\ Waiting' /\ Served'
<1> USE DEF GateInv
<1>1. /\ \A c \in Calls : (Known(c) <=> Known(c)') /\ (Parked(c) <=> Parked(c)')
      /\ UNCHANGED <<pc, asks, answer>>
  BY WorkersUntouched
<1>2. Numbered'
  <2>1. (\A v \in Workers : pc[v] # "idle" => asks[v] >= 1)' BY <1>1 DEF Numbered
  <2>2. (\A e \in started \cup done \cup abandoned : Known(e))'
    BY <1>1 DEF Numbered, TypeOK
  <2>3. (\A i \in DOMAIN queue : Known(queue[i]))' BY <1>1, MembersAreCalls DEF Numbered
  <2>4. (\A i \in DOMAIN frames : frames[i].call # Inline => Known(frames[i].call))'
    BY <1>1, MembersAreCalls DEF Numbered, Known
  <2> QED BY <2>1, <2>2, <2>3, <2>4 DEF Numbered
<1>3. Waiting' BY <1>1 DEF Waiting, Parked
<1>4. Served' BY <1>1 DEF Served, Parked
<1> QED BY <1>2, <1>3, <1>4

LEMMA RearmKeeps ==
  ASSUME GateInv, Rearm
  PROVE  GateInv'
<1> USE GateAssumption DEF GateInv
<1>1. /\ Top.phase = "rearm" /\ frames' = Below /\ posted' = posted + 1
      /\ UNCHANGED <<cancelled, running, depth, queue, started, done, abandoned,
                     inlines, cancels>>
      /\ UNCHANGED worker
  BY DEF Rearm, pump, flags
<1>2. frames # <<>> /\ ~AtLoop BY <1>1 DEF Top, Bottom, AtLoop
<1>3. /\ frames' \in Seq(Frames) /\ Len(frames') = Len(frames) - 1
      /\ \A i \in DOMAIN frames' : i \in DOMAIN frames /\ frames'[i] = frames[i]
      /\ AtLoop'
      /\ \A i \in DOMAIN frames' : i < Len(frames') => frames'[i].phase = "work"
      /\ \A i \in DOMAIN frames' : frames'[i].call # Inline => i = 1
  BY <1>1, <1>2, BelowFacts
<1>4. TypeOK' BY <1>1, <1>3 DEF TypeOK, worker
<1>5. Stack' BY <1>1, <1>2, <1>3 DEF Stack
<1>6. Numbered' /\ Waiting' /\ Served' BY <1>1, <1>3, FewerFrames
<1> QED BY <1>4, <1>5, <1>6

\* What a call that comes to its end does: it was waited for and waits no more.
LEMMA ReturnKeeps ==
  ASSUME GateInv, Return
  PROVE  GateInv'
<1> USE GateAssumption DEF GateInv
<1> DEFINE n == Len(frames)
           c == frames[n].call
<1>1. /\ Top.phase \in {"work", "skipped"}
      /\ IF Top.phase = "work" THEN Leave ELSE UNCHANGED <<running, depth>>
      /\ done' = IF Top.call = Inline THEN done ELSE done \cup {Top.call}
      /\ frames' = WithTop("rearm") \/ frames' = Below
      /\ UNCHANGED <<cancelled, queue, started, abandoned, posted, inlines, cancels>>
      /\ UNCHANGED worker
  BY DEF Return
<1>2. /\ frames # <<>> /\ Top = frames[n] /\ n \in DOMAIN frames /\ n \in Nat /\ n > 0
      /\ DOMAIN frames = 1 .. n
  <2>1. frames # <<>> BY <1>1 DEF Top, Bottom
  <2> QED BY <2>1 DEF Top, TypeOK
<1>3. /\ \A e \in Calls : (Known(e) <=> Known(e)') /\ (Parked(e) <=> Parked(e)')
      /\ UNCHANGED <<pc, asks, answer>>
  BY <1>1, WorkersUntouched
<1>4. c # Inline => c \in Calls /\ n = 1 BY <1>2, MembersAreCalls DEF Stack
<1>5. done' = IF c = Inline THEN done ELSE done \cup {c} BY <1>1, <1>2
\* The counters agree with the frames that are left running.
<1>6. depth' = n - 1 /\ depth' \in Nat /\ running' \in BOOLEAN /\ (running' <=> depth' > 0)
  <2>1. CASE Top.phase = "work"
    <3>1. depth = n BY <2>1 DEF Stack, AtLoop
    <3>2. depth' = depth - 1 /\ running' = LeaveRunning(depth) BY <1>1, <2>1 DEF Leave
    <3>3. LeaveRunning(depth) \in BOOLEAN /\ (LeaveRunning(depth) <=> depth > 1)
      BY DEF LeaveRunning
    <3>4. running' \in BOOLEAN /\ (running' <=> depth > 1) BY <3>2, <3>3, Zenon
    <3> QED BY <1>2, <3>1, <3>2, <3>4
  <2>2. CASE Top.phase = "skipped" BY <1>1, <1>2, <2>2 DEF Stack, AtLoop, TypeOK
  <2> QED BY <1>1, <2>1, <2>2
\* The frames that are left are as they were, but for the top's phase.
<1>7. /\ frames' \in Seq(Frames)
      /\ \A i \in DOMAIN frames' : /\ i \in DOMAIN frames /\ frames'[i].call = frames[i].call
                                   /\ i < n => frames'[i] = frames[i]
                                   /\ i = n => frames'[i].phase = "rearm"
      /\ Len(frames') = IF AtLoop' THEN n - 1 ELSE n
      /\ \A i \in DOMAIN frames' : i < Len(frames') => frames'[i].phase = "work"
  <2>1. CASE frames' = Below
    <3>1. /\ frames' \in Seq(Frames) /\ Len(frames') = n - 1
          /\ \A i \in DOMAIN frames' : i \in DOMAIN frames /\ i < n /\ frames'[i] = frames[i]
          /\ AtLoop'
          /\ \A i \in DOMAIN frames' : i < Len(frames') => frames'[i].phase = "work"
      BY <1>2, <2>1, BelowFacts
    <3> QED BY <1>2, <3>1
  <2>2. CASE frames' = WithTop("rearm")
    <3> DEFINE g == [frames[n] EXCEPT !.phase = "rearm"]
    <3>1. frames' = [frames EXCEPT ![n] = g] BY <2>2 DEF WithTop
    <3>2. g \in Frames /\ g.phase = "rearm" /\ g.call = frames[n].call
      <4>1. frames[n] \in Frames BY <1>2 DEF TypeOK
      <4> QED BY <4>1 DEF Frames, Phases
    <3> HIDE DEF g
    <3>3. /\ frames' \in Seq(Frames) /\ Len(frames') = n /\ DOMAIN frames' = DOMAIN frames
          /\ frames'[n] = g /\ \A i \in DOMAIN frames : i # n => frames'[i] = frames[i]
      BY <1>2, <3>1, <3>2 DEF TypeOK
    <3>4. ~AtLoop' BY <1>2, <3>2, <3>3 DEF AtLoop, Top
    <3> QED BY <1>2, <3>2, <3>3, <3>4 DEF Stack
  <2> QED BY <1>1, <2>1, <2>2
<1>8. TypeOK' BY <1>1, <1>3, <1>4, <1>5, <1>6, <1>7 DEF TypeOK
<1>9. Stack' BY <1>2, <1>6, <1>7 DEF Stack
<1>10. Numbered'
  <2>1. (\A v \in Workers : pc[v] # "idle" => asks[v] >= 1)' BY <1>3 DEF Numbered
  <2>2. c # Inline => Known(c) BY <1>2 DEF Numbered
  <2>3. (\A e \in started \cup done \cup abandoned : Known(e))'
    BY <1>1, <1>3, <1>4, <1>5, <2>2 DEF Numbered, TypeOK, Known
  <2>4. (\A i \in DOMAIN queue : Known(queue[i]))'
    BY <1>1, <1>3, MembersAreCalls DEF Numbered
  <2>5. (\A i \in DOMAIN frames : frames[i].call # Inline => Known(frames[i].call))'
    BY <1>3, <1>7 DEF Numbered, Known
  <2> QED BY <2>1, <2>3, <2>4, <2>5 DEF Numbered
<1>11. Waiting'
  <2>1. \A i \in DOMAIN queue : queue[i] # c BY <1>2 DEF Waiting
  <2>2. (\A i \in DOMAIN queue : queue[i] \notin done)' BY <1>1, <1>5, <2>1 DEF Waiting
  <2>3. (\A i \in DOMAIN queue, j \in DOMAIN frames : queue[i] # frames[j].call)'
    BY <1>1, <1>7 DEF Waiting
  <2> QED BY <1>1, <1>3, <2>2, <2>3 DEF Waiting, Parked
<1>12. Served'
  <2> SUFFICES ASSUME NEW i \in DOMAIN frames', frames'[i].call # Inline,
                      frames'[i].phase = "work"
               PROVE  /\ frames'[i].call \in started'
                      /\ frames'[i].call \notin done' \cup abandoned'
                      /\ asks'[frames'[i].call[1]] = frames'[i].call[2]
                      /\ pc'[frames'[i].call[1]] \in {"posting", "waiting"}
    BY DEF Served, Parked
  <2>1. i \in DOMAIN frames /\ i < n /\ frames'[i] = frames[i] /\ i = 1
    <3>1. i \in DOMAIN frames /\ frames'[i].call = frames[i].call /\ i # n BY <1>7
    <3>2. i < n
      <4>1. i \in 1 .. n /\ n \in Nat BY <1>2, <3>1
      <4> HIDE DEF n
      <4> QED BY <3>1, <4>1
    <3>3. frames'[i] = frames[i] BY <1>7, <3>2
    <3> QED BY <3>1, <3>2, <3>3 DEF Stack
  <2>2. c = Inline BY <1>4, <2>1
  <2> QED BY <1>1, <1>3, <1>5, <2>1, <2>2 DEF Served, Parked
<1> QED BY <1>8, <1>9, <1>10, <1>11, <1>12

-----------------------------------------------------------------------------
(* The theorems *)

LEMMA InitGate == Init => GateInv
<1> SUFFICES ASSUME Init PROVE GateInv OBVIOUS
<1>1. TypeOK
  <2>1. /\ cancelled \in BOOLEAN /\ running \in BOOLEAN /\ depth \in Nat /\ posted \in Nat
        /\ started \subseteq Calls /\ done \subseteq Calls /\ abandoned \subseteq Calls
    BY DEF Init
  <2>4. queue \in Seq(Calls) /\ frames \in Seq(Frames) BY DEF Init
  <2>2. asks \in [Workers -> 0 .. MaxAsks] /\ inlines \in 0 .. MaxInline
        /\ cancels \in 0 .. MaxCancels
    BY GateAssumption DEF Init
  <2>3. /\ pc \in [Workers -> {"idle", "checked", "posting", "waiting"}]
        /\ answer \in [Workers -> {"idle", "yes", "no"}]
    BY DEF Init
  <2> QED BY <2>1, <2>2, <2>3, <2>4 DEF TypeOK
<1>2. Stack /\ Numbered /\ Waiting /\ Served
  BY DEF Init, Stack, Numbered, Waiting, Served, AtLoop, Top, Bottom
<1> QED BY <1>1, <1>2 DEF GateInv

LEMMA NextGate == GateInv /\ [Next]_vars => GateInv'
<1> SUFFICES ASSUME GateInv, [Next]_vars PROVE GateInv' OBVIOUS
<1>1. CASE \E w \in Workers : Check(w) \/ Caller(w)
  BY <1>1, CheckKeeps, PushKeeps, PostKeeps, WakeKeeps DEF Caller
<1>2. CASE App BY <1>2, DeliverKeeps, ReturnKeeps, RearmKeeps DEF App
<1>3. CASE AskInline \/ Cancel \/ Reopen BY <1>3, AskInlineKeeps, CancelKeeps, ReopenKeeps
<1>4. CASE UNCHANGED vars
  <2>1. TypeOK' BY <1>4 DEF GateInv, TypeOK, vars, pump, flags, worker
  <2>2. Stack' /\ Numbered' /\ Waiting' /\ Served'
    BY <1>4 DEF GateInv, Stack, Numbered, Waiting, Served, vars, pump, flags, worker,
                AtLoop, Top, Bottom, Known, Parked
  <2> QED BY <2>1, <2>2 DEF GateInv
<1> QED BY <1>1, <1>2, <1>3, <1>4 DEF Next

LEMMA GateInvHolds == Spec => []GateInv
  BY InitGate, NextGate, PTL DEF Spec

\* The asker of a running question is parked in that very call (rule 2 of
\* GuiCallGate.h): no cancel, however placed, lets its frame die under the work.
THEOREM AskersOutliveTheirWork == Spec => []FrameAlive
<1>1. GateInv => FrameAlive
  <2> SUFFICES ASSUME GateInv, NEW w \in Workers, NEW k \in 1 .. MaxAsks,
                      NEW i \in DOMAIN frames,
                      frames[i] = [call |-> <<w, k>>, phase |-> "work"]
               PROVE  /\ pc[w] \in {"posting", "waiting"}
                      /\ asks[w] = k
                      /\ <<w, k>> \notin done \cup abandoned
    BY DEF FrameAlive, AtWork
  <2>1. <<w, k>> \in Calls /\ <<w, k>>[1] = w /\ <<w, k>>[2] = k /\ <<w, k>> # Inline
    BY CallParts, InlineAssumption
  <2>2. frames[i].call = <<w, k>> /\ frames[i].phase = "work" OBVIOUS
  <2> QED BY <2>1, <2>2 DEF GateInv, Served, Parked
<1> QED BY <1>1, GateInvHolds, PTL

\* Two workers' questions are never up together (rule 3 of GuiCallGate.h).
THEOREM QuestionsAreAskedOneByOne == Spec => []OneQuestion
<1>1. GateInv => OneQuestion
  <2> SUFFICES ASSUME GateInv, NEW c \in Calls, NEW d \in Calls,
                      NEW i \in DOMAIN frames, NEW j \in DOMAIN frames,
                      frames[i] = [call |-> c, phase |-> "work"],
                      frames[j] = [call |-> d, phase |-> "work"]
               PROVE  c = d
    BY DEF OneQuestion, AtWork
  <2>1. frames[i].call = c /\ frames[j].call = d /\ c # Inline /\ d # Inline
    BY InlineAssumption
  <2>2. i = 1 /\ j = 1 BY <2>1 DEF GateInv, Stack
  <2> QED BY <2>1, <2>2
<1> QED BY <1>1, GateInvHolds, PTL

-----------------------------------------------------------------------------
(* The contract of the gate, step by step.                                 *)

\* Where a call is between its push and its return: it waits, unstarted, or it
\* was taken up, and then it is finished or still on the stack, or it is given
\* up, and only a call given up is skipped.
Told ==
  /\ \A i \in DOMAIN queue : queue[i] \notin started
  /\ \A c \in started : c \in done \/ AtWork(c)
  /\ \A i \in DOMAIN frames : frames[i].phase = "skipped" => frames[i].call \in abandoned
  /\ \A w \in Workers : pc[w] \in {"posting", "waiting"} =>
       CallOf(w) \in Queued \cup started \cup abandoned

ToldInv == GateInv /\ Told

\* What a worker can observe, case by case.
LEMMA Asks ==
  ASSUME NEW w \in Workers
  PROVE  /\ pc[w] \in {"idle", "checked"} => AskOf(w) = answer[w]
         /\ pc[w] \notin {"idle", "checked"} =>
              /\ CallOf(w) \in abandoned => AskOf(w) = "doomed"
              /\ CallOf(w) \in done \ abandoned => AskOf(w) = "yes"
              /\ CallOf(w) \in started \ (done \cup abandoned) => AskOf(w) = "served"
              /\ CallOf(w) \notin started \cup done \cup abandoned => AskOf(w) = "asked"
  BY DEF AskOf

LEMMA AsksNext ==
  ASSUME NEW w \in Workers
  PROVE  /\ pc'[w] \in {"idle", "checked"} => AskOf(w)' = answer'[w]
         /\ pc'[w] \notin {"idle", "checked"} =>
              /\ CallOf(w)' \in abandoned' => AskOf(w)' = "doomed"
              /\ CallOf(w)' \in done' \ abandoned' => AskOf(w)' = "yes"
              /\ CallOf(w)' \in started' \ (done' \cup abandoned') => AskOf(w)' = "served"
              /\ CallOf(w)' \notin started' \cup done' \cup abandoned' => AskOf(w)' = "asked"
  BY DEF AskOf

\* The calls two workers are in are two calls.
LEMMA OwnCalls ==
  ASSUME NEW v \in Workers, NEW w \in Workers, CallOf(v) = CallOf(w)
  PROVE  v = w
  BY DEF CallOf

\* A step after which each worker is told what it was told before, but for one.
LEMMA OneIsTold ==
  ASSUME NEW w \in Workers, \A v \in Workers \ {w} : AskOf(v)' = AskOf(v)
  PROVE  [v \in Workers |-> AskOf(v)]'
           = [[v \in Workers |-> AskOf(v)] EXCEPT ![w] = AskOf(w)']
  OBVIOUS

LEMMA NobodyIsTold ==
  ASSUME \A v \in Workers : AskOf(v)' = AskOf(v), UNCHANGED cancelled
  PROVE  UNCHANGED Contract!gateVars
  BY DEF Contract!gateVars

\* The steps of a worker.
LEMMA CheckTells ==
  ASSUME ToldInv, NEW w \in Workers, Check(w)
  PROVE  Told' /\ [Contract!GateNext]_(Contract!gateVars)
<1> USE DEF ToldInv
<1>1. /\ pc[w] = "idle" /\ UNCHANGED <<cancelled, queue, started, done, abandoned, frames>>
  BY DEF Check, pump, flags
<1>2. \A v \in Workers \ {w} : pc'[v] = pc[v] /\ asks'[v] = asks[v] /\ answer'[v] = answer[v]
  BY DEF Check, GateInv, TypeOK
<1>3. \A v \in Workers \ {w} : AskOf(v)' = AskOf(v) BY <1>1, <1>2 DEF AskOf, CallOf
<1>4. pc'[w] \in {"idle", "checked"} BY <1>1 DEF Check, GateInv, TypeOK
<1>5. Told' BY <1>1, <1>2, <1>4 DEF Told, CallOf, Queued, AtWork
<1>6. CASE cancelled
  <2>1. AskOf(w)' = "no" BY <1>4, <1>6, AsksNext DEF Check, GateInv, TypeOK
  <2>2. AskOf(w) \in {"idle", "yes", "no"} BY <1>1, Asks DEF GateInv, TypeOK
  <2>3. Contract!TurnAway(w)
    BY <1>1, <1>3, <1>6, <2>1, <2>2, OneIsTold DEF Contract!TurnAway, Contract!Resting
  <2> QED BY <1>5, <2>3 DEF Contract!GateNext
<1>7. CASE ~cancelled
  <2>1. AskOf(w)' = AskOf(w)
    BY <1>1, <1>4, <1>7, Asks, AsksNext DEF Check, GateInv, TypeOK
  <2> QED BY <1>1, <1>3, <1>5, <2>1, NobodyIsTold
<1> QED BY <1>6, <1>7

LEMMA PushTells ==
  ASSUME ToldInv, NEW w \in Workers, Push(w)
  PROVE  Told' /\ [Contract!GateNext]_(Contract!gateVars)
<1> USE DEF ToldInv
<1> DEFINE c == CallOf(w)
<1>1. /\ pc[w] = "checked" /\ queue' = Append(queue, c)
      /\ UNCHANGED <<cancelled, started, done, abandoned, frames, asks, answer>>
      /\ pc' = [pc EXCEPT ![w] = "posting"] /\ CallOf(w)' = c
  BY DEF Push, flags, CallOf
<1>2. c \in Calls /\ c[1] = w /\ c[2] = asks[w]
  BY <1>1, CallOfIsACall DEF GateInv, Numbered
<1>3. c \notin started \cup done \cup abandoned
  <2>1. ~Known(c) BY <1>1, <1>2 DEF Known, GateInv, TypeOK
  <2> QED BY <2>1 DEF GateInv, Numbered
<1> HIDE DEF c
<1>4. \A v \in Workers \ {w} : AskOf(v)' = AskOf(v)
  BY <1>1 DEF AskOf, CallOf, GateInv, TypeOK
<1>5. /\ DOMAIN queue' = 1 .. Len(queue) + 1 /\ DOMAIN queue = 1 .. Len(queue)
      /\ queue'[Len(queue) + 1] = c /\ \A i \in DOMAIN queue : queue'[i] = queue[i]
      /\ Len(queue) \in Nat
  BY <1>1, <1>2, AppendFacts DEF GateInv, TypeOK
<1>6. Queued' = Queued \cup {c} BY <1>5 DEF Queued
<1>7. Told'
  <2>1. (\A i \in DOMAIN queue : queue[i] \notin started)' BY <1>1, <1>3, <1>5 DEF Told
  <2>2. (\A v \in Workers : pc[v] \in {"posting", "waiting"} =>
           CallOf(v) \in Queued \cup started \cup abandoned)'
    <3> SUFFICES ASSUME NEW v \in Workers, pc'[v] \in {"posting", "waiting"}
                 PROVE  CallOf(v)' \in Queued' \cup started' \cup abandoned'
      OBVIOUS
    <3>1. CASE v = w BY <1>1, <1>6, <3>1
    <3>2. CASE v # w BY <1>1, <1>6, <3>2 DEF Told, CallOf, GateInv, TypeOK
    <3> QED BY <3>1, <3>2
  <2> QED BY <1>1, <2>1, <2>2 DEF Told, AtWork
<1>8. AskOf(w)' = "asked"
  <2>1. pc'[w] = "posting" BY <1>1 DEF GateInv, TypeOK
  <2> QED BY <1>1, <1>3, <2>1, AsksNext
<1>9. Contract!Ask(w)
  <2>1. AskOf(w) \in {"idle", "yes", "no"} BY <1>1, Asks DEF GateInv, TypeOK
  <2> QED BY <1>1, <1>4, <1>8, <2>1, OneIsTold DEF Contract!Ask, Contract!Resting
<1> QED BY <1>7, <1>9 DEF Contract!GateNext

LEMMA PostTells ==
  ASSUME ToldInv, NEW w \in Workers, Post(w)
  PROVE  Told' /\ [Contract!GateNext]_(Contract!gateVars)
<1> USE DEF ToldInv
<1>1. /\ pc[w] = "posting" /\ pc' = [pc EXCEPT ![w] = "waiting"]
      /\ UNCHANGED <<cancelled, queue, started, done, abandoned, frames, asks, answer>>
  BY DEF Post, pump, flags
<1>2. \A v \in Workers : AskOf(v)' = AskOf(v) BY <1>1 DEF AskOf, CallOf, GateInv, TypeOK
<1>3. Told' BY <1>1 DEF Told, CallOf, Queued, AtWork, GateInv, TypeOK
<1> QED BY <1>1, <1>2, <1>3, NobodyIsTold

LEMMA WakeTells ==
  ASSUME ToldInv, NEW w \in Workers, Wake(w)
  PROVE  Told' /\ [Contract!GateNext]_(Contract!gateVars)
<1> USE DEF ToldInv
<1> DEFINE c == CallOf(w)
<1>1. /\ pc[w] = "waiting" /\ MayWake(c) /\ pc' = [pc EXCEPT ![w] = "idle"]
      /\ UNCHANGED <<cancelled, queue, started, done, frames, asks>> /\ CallOf(w)' = c
      /\ abandoned' \in {abandoned, abandoned \cup {c}}
      /\ \A v \in Workers \ {w} : answer'[v] = answer[v]
  BY DEF Wake, pump, CallOf, GateInv, TypeOK
<1>2. \A v \in Workers \ {w} : CallOf(v)' = CallOf(v) /\ pc'[v] = pc[v] /\ CallOf(v) # c
  BY <1>1, OwnCalls DEF CallOf, GateInv, TypeOK
<1>3. pc'[w] = "idle" BY <1>1 DEF GateInv, TypeOK
<1>4. \A v \in Workers \ {w} : AskOf(v)' = AskOf(v) BY <1>1, <1>2 DEF AskOf
<1>5. Told' BY <1>1, <1>2, <1>3 DEF Told, Queued, AtWork
<1>6. CASE c \in done /\ c \notin abandoned
  <2>1. AskOf(w)' = "yes" /\ AskOf(w) = "yes"
    BY <1>1, <1>3, <1>6, Asks, AsksNext DEF Wake, GateInv, TypeOK
  <2> QED BY <1>1, <1>4, <1>5, <2>1, NobodyIsTold
<1>7. CASE ~(c \in done /\ c \notin abandoned)
  <2>1. AskOf(w)' = "no" BY <1>1, <1>3, <1>7, AsksNext DEF Wake, GateInv, TypeOK
  <2>2. AskOf(w) = "doomed" \/ (AskOf(w) = "asked" /\ cancelled)
    BY <1>1, <1>7, Asks DEF MayWake
  <2>3. Contract!Refuse(w) BY <1>1, <1>4, <2>1, <2>2, OneIsTold DEF Contract!Refuse
  <2> QED BY <1>5, <2>3 DEF Contract!GateNext
<1> QED BY <1>6, <1>7

\* The steps of the application thread leave the workers where they are.
LEMMA AppLeaves ==
  ASSUME UNCHANGED worker
  PROVE  /\ UNCHANGED <<pc, asks, answer>>
         /\ \A w \in Workers : CallOf(w)' = CallOf(w)
  BY DEF worker, CallOf

LEMMA CancelTells ==
  ASSUME ToldInv, Cancel
  PROVE  Told' /\ [Contract!GateNext]_(Contract!gateVars)
<1> USE DEF ToldInv
<1>1. /\ cancelled' = TRUE /\ abandoned' = abandoned \cup (Queued \ started)
      /\ UNCHANGED <<queue, started, done, frames, pc, asks, answer>>
      /\ \A w \in Workers : CallOf(w)' = CallOf(w)
  BY AppLeaves DEF Cancel
<1>2. Told' BY <1>1 DEF Told, Queued, AtWork
<1>3. \A w \in Workers :
        AskOf(w)' = IF AskOf(w) = "asked" THEN "doomed" ELSE AskOf(w)
  <2> SUFFICES ASSUME NEW w \in Workers
               PROVE  AskOf(w)' = IF AskOf(w) = "asked" THEN "doomed" ELSE AskOf(w)
    OBVIOUS
  <2>1. CASE pc[w] \in {"idle", "checked"}
    <3>1. AskOf(w)' = AskOf(w) /\ AskOf(w) # "asked"
      BY <1>1, <2>1, Asks, AsksNext DEF GateInv, TypeOK
    <3> QED BY <3>1
  <2>2. CASE pc[w] \notin {"idle", "checked"}
    <3>1. pc[w] \in {"posting", "waiting"} BY <2>2 DEF GateInv, TypeOK
    <3>2. CallOf(w) \in Queued \ started <=> CallOf(w) \in Queued BY DEF Told, Queued
    <3>3. CallOf(w) \in Queued => CallOf(w) \notin done BY DEF Queued, GateInv, Waiting
    <3>4. CASE CallOf(w) \in abandoned BY <1>1, <2>2, <3>4, Asks, AsksNext
    <3>5. CASE CallOf(w) \notin abandoned /\ CallOf(w) \in Queued
      <4>1. AskOf(w) = "asked" /\ AskOf(w)' = "doomed"
        BY <1>1, <2>2, <3>2, <3>3, <3>5, Asks, AsksNext
      <4> QED BY <4>1
    <3>6. CASE CallOf(w) \notin abandoned /\ CallOf(w) \notin Queued
      <4>1. CallOf(w) \in started /\ CallOf(w) \notin abandoned'
        BY <1>1, <3>1, <3>6 DEF Told
      <4>2. AskOf(w)' = AskOf(w) /\ AskOf(w) # "asked"
        BY <1>1, <2>2, <3>6, <4>1, Asks, AsksNext
      <4> QED BY <4>2
    <3> QED BY <3>4, <3>5, <3>6
  <2> QED BY <2>1, <2>2
<1>4. Contract!Close BY <1>1, <1>3 DEF Contract!Close
<1> QED BY <1>2, <1>4 DEF Contract!GateNext

LEMMA ReopenTells ==
  ASSUME ToldInv, Reopen
  PROVE  Told' /\ [Contract!GateNext]_(Contract!gateVars)
<1>1. /\ cancelled' = FALSE
      /\ UNCHANGED <<queue, started, done, abandoned, frames, pc, asks, answer>>
  BY DEF Reopen, flags, worker
<1>2. Told' BY <1>1 DEF ToldInv, Told, CallOf, Queued, AtWork
<1>3. \A w \in Workers : AskOf(w)' = AskOf(w) BY <1>1 DEF AskOf, CallOf
<1>4. Contract!Readmit BY <1>1, <1>3 DEF Contract!Readmit
<1> QED BY <1>2, <1>4 DEF Contract!GateNext

\* A question that is up and not yet answered keeps the gate busy.
LEMMA ServedIsUp ==
  ASSUME ToldInv, AtLoop, ~running, NEW w \in Workers
  PROVE  AskOf(w) # "served"
<1> SUFFICES ASSUME AskOf(w) = "served" PROVE FALSE OBVIOUS
<1>1. CallOf(w) \in started \ done
  <2>1. pc[w] \notin {"idle", "checked"} BY Asks DEF ToldInv, GateInv, TypeOK
  <2> QED BY <2>1, Asks
<1>2. frames = <<>> BY FreeMeansEmpty DEF ToldInv, GateInv
<1> QED BY <1>1, <1>2 DEF ToldInv, Told, AtWork

LEMMA DeliverTells ==
  ASSUME ToldInv, Deliver
  PROVE  Told' /\ [Contract!GateNext]_(Contract!gateVars)
<1> USE DEF ToldInv
<1>1. /\ AtLoop /\ UNCHANGED <<done, abandoned, pc, asks, answer>>
      /\ \A w \in Workers : CallOf(w)' = CallOf(w)
  BY AppLeaves DEF Deliver
<1>2. CASE running \/ queue = <<>>
  <2>1. UNCHANGED <<cancelled, queue, started, frames>> BY <1>2 DEF Deliver, pump
  <2>2. \A w \in Workers : AskOf(w)' = AskOf(w) BY <1>1, <2>1 DEF AskOf
  <2>3. Told' BY <1>1, <2>1 DEF Told, Queued, AtWork
  <2> QED BY <2>1, <2>2, <2>3, NobodyIsTold
<1>3. CASE ~(running \/ queue = <<>>)
  <2>0. PICK c \in Calls : c = queue[1] BY <1>3, TailFacts DEF GateInv, TypeOK
  <2> DEFINE phase == IF c \in abandoned THEN "skipped" ELSE "work"
             f == [call |-> c, phase |-> phase]
  <2>1. /\ 1 \in DOMAIN queue /\ c \in Calls /\ Head(queue) = c /\ c = queue[1]
        /\ Tail(queue) \in Seq(Calls)
        /\ \A i \in DOMAIN Tail(queue) :
             i + 1 \in DOMAIN queue /\ Tail(queue)[i] = queue[i + 1]
        /\ DOMAIN queue = 1 .. Len(queue) /\ DOMAIN Tail(queue) = 1 .. Len(queue) - 1
        /\ Len(queue) \in Nat
    BY <1>3, <2>0, TailFacts DEF GateInv, TypeOK
  <2>2. frames = <<>> BY <1>1, <1>3, FreeMeansEmpty DEF GateInv
  <2>3. /\ queue' = Tail(queue) /\ UNCHANGED cancelled
        /\ frames' = <<f>>
        /\ IF c \in abandoned THEN started' = started ELSE started' = started \cup {c}
    BY <1>3, <2>1, <2>2 DEF Deliver, Enter
  <2>4. frames'[1] = f /\ DOMAIN frames' = {1} BY <2>3
  <2>5. f.call = c /\ f.phase = phase OBVIOUS
  <2>6. c \notin done \cup started BY <2>1 DEF GateInv, Waiting, Told
  <2> HIDE DEF phase, f
  <2>7. Queued \subseteq Queued' \cup {c}
    <3> SUFFICES ASSUME NEW i \in DOMAIN queue PROVE queue[i] \in Queued' \cup {c}
      BY DEF Queued
    <3>1. CASE i = 1 BY <2>0, <3>1
    <3>2. CASE i # 1
      <4>1. i - 1 \in DOMAIN Tail(queue) /\ Tail(queue)[i - 1] = queue[i] BY <2>1, <3>2
      <4> QED BY <2>3, <4>1 DEF Queued
    <3> QED BY <3>1, <3>2
  <2>8. c \in started' \cup abandoned' BY <1>1, <2>3
  <2>9. \A i \in DOMAIN queue' : queue'[i] \notin started'
    <3> SUFFICES ASSUME NEW i \in DOMAIN Tail(queue) PROVE queue[i + 1] \notin started \cup {c}
      BY <2>1, <2>3
    <3>1. i + 1 \in DOMAIN queue /\ i + 1 # 1 BY <2>1
    <3>2. queue[i + 1] # c BY <2>1, <3>1 DEF GateInv, Waiting
    <3> QED BY <3>1, <3>2 DEF Told
  <2>10. \A e \in started' : e \in done' \/ AtWork(e)'
    <3>1. \A e \in started : e \in done BY <2>2 DEF Told, AtWork
    <3>2. c \notin abandoned => AtWork(c)' BY <2>4 DEF AtWork, f, phase
    <3> QED BY <1>1, <2>3, <3>1, <3>2
  <2>11. Told'
    <3>1. (\A i \in DOMAIN frames : frames[i].phase = "skipped" => frames[i].call \in abandoned)'
      BY <1>1, <2>4, <2>5 DEF phase
    <3>2. (\A w \in Workers : pc[w] \in {"posting", "waiting"} =>
             CallOf(w) \in Queued \cup started \cup abandoned)'
      BY <1>1, <2>3, <2>7, <2>8 DEF Told
    <3> QED BY <2>9, <2>10, <3>1, <3>2 DEF Told
  <2>12. CASE c \in abandoned
    <3>1. \A w \in Workers : AskOf(w)' = AskOf(w) BY <1>1, <2>3, <2>12 DEF AskOf
    <3> QED BY <2>3, <2>11, <3>1, NobodyIsTold
  <2>13. CASE c \notin abandoned
    <3>1. Parked(c) /\ c \in Calls /\ c = queue[1] BY <2>1, <2>13 DEF GateInv, Waiting
    <3>2. PICK w \in Workers : CallOf(w) = c /\ pc[w] \in {"posting", "waiting"}
      BY <3>1, CallParts DEF Parked, CallOf
    <3>3. \A v \in Workers \ {w} : AskOf(v)' = AskOf(v)
      <4> SUFFICES ASSUME NEW v \in Workers, v # w PROVE AskOf(v)' = AskOf(v) OBVIOUS
      <4>1. CallOf(v) # c BY <3>2, OwnCalls
      <4>2. CallOf(v)' \in started' <=> CallOf(v) \in started BY <1>1, <2>3, <2>13, <4>1
      <4> QED BY <1>1, <4>2 DEF AskOf
    <3>4. AskOf(w) = "asked" BY <2>6, <2>13, <3>2, Asks
    <3>5. AskOf(w)' = "served" BY <1>1, <2>3, <2>6, <2>13, <3>2, AsksNext
    <3>6. \A v \in Workers : AskOf(v) # "served" BY <1>1, <1>3, ServedIsUp
    <3>7. Contract!Begin(w)
      BY <2>3, <3>2, <3>3, <3>4, <3>5, <3>6, OneIsTold DEF Contract!Begin
    <3> QED BY <2>11, <3>2, <3>7 DEF Contract!GateNext
  <2> QED BY <2>12, <2>13
<1> QED BY <1>2, <1>3

LEMMA AskInlineTells ==
  ASSUME ToldInv, AskInline
  PROVE  Told' /\ [Contract!GateNext]_(Contract!gateVars)
<1> USE DEF ToldInv
<1> DEFINE f == [call |-> Inline, phase |-> "work"]
<1>1. /\ UNCHANGED <<cancelled, queue, started, done, abandoned, pc, asks, answer>>
      /\ frames' = Append(frames, f) /\ f \in Frames /\ f.phase = "work"
      /\ \A w \in Workers : CallOf(w)' = CallOf(w)
  BY AppLeaves DEF AskInline, flags, Frames, Phases
<1> HIDE DEF f
<1>2. /\ DOMAIN frames' = 1 .. Len(frames) + 1 /\ DOMAIN frames = 1 .. Len(frames)
      /\ frames'[Len(frames) + 1] = f /\ \A i \in DOMAIN frames : frames'[i] = frames[i]
      /\ Len(frames) \in Nat
  BY <1>1, AppendFacts DEF GateInv, TypeOK
<1>3. \A c \in started : AtWork(c) => AtWork(c)' BY <1>2 DEF AtWork
<1>4. Told' BY <1>1, <1>2, <1>3 DEF Told, Queued
<1>5. \A w \in Workers : AskOf(w)' = AskOf(w) BY <1>1 DEF AskOf
<1> QED BY <1>1, <1>4, <1>5, NobodyIsTold

LEMMA RearmTells ==
  ASSUME ToldInv, Rearm
  PROVE  Told' /\ [Contract!GateNext]_(Contract!gateVars)
<1> USE DEF ToldInv
<1>1. /\ Top.phase = "rearm" /\ frames' = Below
      /\ UNCHANGED <<cancelled, queue, started, done, abandoned, pc, asks, answer>>
      /\ \A w \in Workers : CallOf(w)' = CallOf(w)
  BY AppLeaves DEF Rearm, pump, flags
<1>2. frames # <<>> /\ Top = frames[Len(frames)] BY <1>1 DEF Top, Bottom
<1>3. /\ \A i \in DOMAIN frames' : i \in DOMAIN frames /\ frames'[i] = frames[i]
      /\ \A i \in DOMAIN frames : i = Len(frames) \/ i \in DOMAIN frames'
  <2>1. /\ \A i \in DOMAIN frames' : i \in DOMAIN frames /\ frames'[i] = frames[i]
        /\ Len(frames') = Len(frames) - 1 /\ frames' \in Seq(Frames) /\ frames \in Seq(Frames)
    BY <1>1, <1>2, BelowFacts DEF GateInv, TypeOK
  <2> QED BY <2>1
<1>4. \A c \in started : AtWork(c) => AtWork(c)' BY <1>1, <1>2, <1>3 DEF AtWork
<1>5. Told' BY <1>1, <1>3, <1>4 DEF Told, Queued
<1>6. \A w \in Workers : AskOf(w)' = AskOf(w) BY <1>1 DEF AskOf
<1> QED BY <1>1, <1>5, <1>6, NobodyIsTold

LEMMA ReturnTells ==
  ASSUME ToldInv, Return
  PROVE  Told' /\ [Contract!GateNext]_(Contract!gateVars)
<1> USE DEF ToldInv
<1> DEFINE n == Len(frames)
           c == frames[n].call
<1>1. /\ Top.phase \in {"work", "skipped"}
      /\ done' = IF Top.call = Inline THEN done ELSE done \cup {Top.call}
      /\ frames' = WithTop("rearm") \/ frames' = Below
      /\ UNCHANGED <<cancelled, queue, started, abandoned, pc, asks, answer>>
      /\ \A w \in Workers : CallOf(w)' = CallOf(w)
  BY AppLeaves DEF Return
<1>2. /\ frames # <<>> /\ Top = frames[n] /\ n \in DOMAIN frames /\ frames[n] \in Frames
      /\ frames \in Seq(Frames) /\ n \in Nat /\ DOMAIN frames = 1 .. n
  <2>1. frames # <<>> BY <1>1 DEF Top, Bottom
  <2> QED BY <2>1 DEF Top, GateInv, TypeOK
<1>3. /\ \A i \in DOMAIN frames' : i \in DOMAIN frames /\ (i # n => frames'[i] = frames[i])
                                   /\ (frames'[i].phase = "skipped" => i # n)
      /\ \A i \in DOMAIN frames : i # n => i \in DOMAIN frames' /\ frames'[i] = frames[i]
  <2>1. CASE frames' = Below
    <3>1. /\ frames' \in Seq(Frames) /\ Len(frames') = n - 1
          /\ \A i \in DOMAIN frames' : i \in DOMAIN frames /\ i < n /\ frames'[i] = frames[i]
      BY <1>2, <2>1, BelowFacts DEF GateInv
    <3>2. \A i \in DOMAIN frames : i # n => i \in DOMAIN frames' BY <1>2, <3>1
    <3> QED BY <1>2, <3>1, <3>2
  <2>2. CASE frames' = WithTop("rearm")
    <3>1. frames' = [frames EXCEPT ![n] = [frames[n] EXCEPT !.phase = "rearm"]]
      BY <2>2 DEF WithTop
    <3>2. [frames[n] EXCEPT !.phase = "rearm"].phase = "rearm" BY <1>2 DEF Frames
    <3> QED BY <1>2, <3>1, <3>2
  <2> QED BY <1>1, <2>1, <2>2
<1> HIDE DEF n
<1>4. Told'
  <2>1. \A e \in started : e \in done' \/ AtWork(e)'
    <3> SUFFICES ASSUME NEW e \in started, e \notin done, NEW i \in DOMAIN frames,
                        frames[i] = [call |-> e, phase |-> "work"]
                 PROVE  e \in done' \/ AtWork(e)'
      BY <1>1 DEF Told, AtWork
    <3>1. CASE i = n BY <1>1, <1>2, <3>1, InlineAssumption DEF GateInv, TypeOK
    <3>2. CASE i # n BY <1>3, <3>2 DEF AtWork
    <3> QED BY <3>1, <3>2
  <2>2. (\A i \in DOMAIN frames : frames[i].phase = "skipped" => frames[i].call \in abandoned)'
    <3> SUFFICES ASSUME NEW i \in DOMAIN frames', frames'[i].phase = "skipped"
                 PROVE  frames'[i].call \in abandoned
      BY <1>1
    <3>1. i \in DOMAIN frames /\ frames'[i] = frames[i] BY <1>3
    <3> QED BY <3>1 DEF Told
  <2> QED BY <1>1, <2>1, <2>2 DEF Told, Queued
<1>5. CASE c = Inline \/ c \in abandoned
  <2>1. \A w \in Workers : CallOf(w)' \in done' \ abandoned' <=> CallOf(w) \in done \ abandoned
    BY <1>1, <1>2, <1>5
  <2>2. \A w \in Workers : AskOf(w)' = AskOf(w) BY <1>1, <2>1 DEF AskOf
  <2> QED BY <1>1, <1>4, <2>2, NobodyIsTold
<1>6. CASE c # Inline /\ c \notin abandoned
  <2>1. frames[n].phase = "work" BY <1>1, <1>2, <1>6 DEF Told
  <2>2. c \in Calls /\ Parked(c) /\ c \in started \ done
    BY <1>2, <1>6, <2>1, MembersAreCalls DEF GateInv, Served
  <2>3. PICK w \in Workers : CallOf(w) = c /\ pc[w] \in {"posting", "waiting"}
    BY <2>2, CallParts DEF Parked, CallOf
  <2>4. done' = done \cup {c} BY <1>1, <1>2, <1>6
  <2>5. \A v \in Workers \ {w} : AskOf(v)' = AskOf(v)
    <3> SUFFICES ASSUME NEW v \in Workers, v # w PROVE AskOf(v)' = AskOf(v) OBVIOUS
    <3>1. CallOf(v) # c BY <2>3, OwnCalls
    <3>2. CallOf(v)' \in done' <=> CallOf(v) \in done BY <1>1, <2>4, <3>1
    <3> QED BY <1>1, <3>2 DEF AskOf
  <2>6. AskOf(w) = "served" BY <1>6, <2>2, <2>3, Asks
  <2>7. AskOf(w)' = "yes" BY <1>1, <1>6, <2>3, <2>4, AsksNext
  <2>8. Contract!End(w) BY <1>1, <2>3, <2>5, <2>6, <2>7, OneIsTold DEF Contract!End
  <2> QED BY <1>4, <2>3, <2>8 DEF Contract!GateNext
<1> QED BY <1>5, <1>6

LEMMA InitTells == Init => Told /\ Contract!GateInit
  BY DEF Init, Told, Queued, AtWork, Contract!GateInit, AskOf

LEMMA NextTells == ToldInv /\ [Next]_vars => Told' /\ [Contract!GateNext]_(Contract!gateVars)
<1> SUFFICES ASSUME ToldInv, [Next]_vars
             PROVE  Told' /\ [Contract!GateNext]_(Contract!gateVars)
  OBVIOUS
<1>1. CASE \E w \in Workers : Check(w) \/ Caller(w)
  BY <1>1, CheckTells, PushTells, PostTells, WakeTells DEF Caller
<1>2. CASE App BY <1>2, DeliverTells, ReturnTells, RearmTells DEF App
<1>3. CASE AskInline \/ Cancel \/ Reopen BY <1>3, AskInlineTells, CancelTells, ReopenTells
<1>4. CASE UNCHANGED vars
  <2>1. UNCHANGED <<cancelled, queue, started, done, abandoned, frames, pc, asks, answer>>
    BY <1>4 DEF vars, pump, flags, worker
  <2>2. Told' BY <2>1 DEF ToldInv, Told, CallOf, Queued, AtWork
  <2>3. \A w \in Workers : AskOf(w)' = AskOf(w) BY <2>1 DEF AskOf, CallOf
  <2> QED BY <2>1, <2>2, <2>3, NobodyIsTold
<1> QED BY <1>1, <1>2, <1>3, <1>4 DEF Next

\* The gate keeps the contract the sign-in is built on (GateContract): whatever
\* is delivered into nested loops, asked inline, withdrawn or readmitted, a
\* worker's call is refused or runs once from start to end while no other is
\* served, and a cancel refuses exactly what has not started.
THEOREM GateContractKept == Spec => KeepsContract
<1>1. Spec => []Told BY InitTells, NextTells, GateInvHolds, PTL DEF Spec, ToldInv
<1> QED
  BY <1>1, InitTells, NextTells, GateInvHolds, PTL DEF Spec, ToldInv, KeepsContract,
     Contract!GateSpec

-----------------------------------------------------------------------------
(* Signing in: the invariant                                               *)

\* Of one worker's login.  From its connect to its end it holds the host.  When it asks
\* for the password a person is there, and none that was typed for the host is left; when
\* it asks to keep one, that is the one the server took, still in the cache; and where the
\* dialog said it would be kept is what the keychain answered.
Sound(w) ==
  /\ step[w] \notin {"idle", "hold"} => holder[HostOf[w]] = w
  /\ step[w] \in {"wallet?", "erase?", "dialog?"} => attended[w] /\ HostOf[w] \notin typed
  /\ step[w] = "store?" =>
       reply[w] \in Passwords \ {NoPassword} /\ reply[w] = cache[HostOf[w]]
  /\ (shown[w] = "wallet" => probe = "answers") /\ (shown[w] = "file" => probe = "silent")

LoginInv ==
  /\ LoginTypeOK
  /\ \A w \in Askers : Sound(w)
  /\ \A h \in Hosts : server[h] <= mishaps + 1

\* What a step of w leaves alone, so that no other worker's login is disturbed.
Others(w) == \A v \in Askers \ {w} :
               step'[v] = step[v] /\ reply'[v] = reply[v] /\ shown'[v] = shown[v]

Reserved(w) ==
  /\ \A h \in Hosts : holder'[h] = holder[h] \/ holder[h] \in {w, Nobody}
  /\ \A h \in Hosts : cache'[h] = cache[h] \/ holder[h] = w \/ cache[h] = NoPassword
  /\ \A h \in typed' : h \in typed \/ holder[h] = w
  /\ \A v \in Askers \ {w} : attended'[v] = attended[v]
  /\ probe' = probe \/ probe = "unasked"

LEMMA Undisturbed ==
  ASSUME LoginInv, LoginTypeOK', NEW w \in Askers, Others(w), Reserved(w), Sound(w)',
         UNCHANGED <<server, mishaps>>
  PROVE  LoginInv'
<1>1. ASSUME NEW v \in Askers \ {w} PROVE Sound(v)'
  <2>1. Sound(v) /\ v \in Askers /\ v # w /\ HostOf[v] \in Hosts /\ v # Nobody
    BY LoginAssumption DEF LoginInv
  <2>2. /\ step'[v] = step[v] /\ reply'[v] = reply[v] /\ shown'[v] = shown[v]
        /\ attended'[v] = attended[v]
    BY DEF Others, Reserved
  <2>3. step[v] \notin {"idle", "hold"} => /\ holder[HostOf[v]] = v /\ holder'[HostOf[v]] = v
                                           /\ HostOf[v] \in typed' => HostOf[v] \in typed
    BY <2>1 DEF Sound, Reserved
  <2>4. step[v] = "store?" => cache'[HostOf[v]] = cache[HostOf[v]]
    BY <2>1, <2>3 DEF Sound, Reserved
  <2>5. (shown[v] = "wallet" => probe' = "answers") /\ (shown[v] = "file" => probe' = "silent")
    BY <2>1 DEF Sound, Reserved
  <2> QED BY <2>1, <2>2, <2>3, <2>4, <2>5 DEF Sound
<1>2. \A v \in Askers : Sound(v)' BY <1>1
<1> QED BY <1>2 DEF LoginInv

-----------------------------------------------------------------------------
(* Signing in: what the steps are made of                                  *)

LEMMA LoginTypes ==
  ASSUME LoginTypeOK
  PROVE  /\ GateOK /\ step \in [Askers -> Steps] /\ attended \in [Askers -> BOOLEAN]
         /\ attempts \in [Askers -> Nat] /\ mishaps \in 0 .. MaxMishaps
         /\ link \in [Askers -> {"none", "up", "cut"}] /\ tries \in [Askers -> 0 .. 2]
         /\ reply \in [Askers -> {No, Yes} \cup Passwords]
         /\ shown \in [Askers -> {"nowhere", "wallet", "file"}]
         /\ result \in [Askers -> Results]
         /\ holder \in [Hosts -> Askers \cup {Nobody}]
         /\ server \in [Hosts -> Passwords \ {NoPassword}]
         /\ cache \in [Hosts -> Passwords] /\ typed \subseteq Hosts
         /\ wallet \in [Hosts -> Passwords] /\ probe \in {"unasked", "answers", "silent"}
         /\ file \in [Hosts -> Passwords]
         /\ \A w \in Askers : HostOf[w] \in Hosts
         /\ known \in [Hosts -> {"match", "mismatch", "absent"}]
  BY LoginAssumption DEF LoginTypeOK

LEMMA GateKeeps ==
  ASSUME GateOK, NEW w \in Askers,
         \/ Ask(w) \/ TurnAway(w) \/ Begin(w) \/ End(w) \/ Refuse(w) \/ Close \/ UNCHANGED gateVars
  PROVE  GateOK'
<1>1. ask \in [Askers -> Resting \cup {"asked", "doomed", "served"}] /\ open \in BOOLEAN
  BY DEF GateOK
<1>2. CASE Ask(w) \/ TurnAway(w) \/ Begin(w) \/ End(w) \/ Refuse(w) \/ UNCHANGED gateVars
  BY <1>1, <1>2 DEF GateOK, Ask, TurnAway, Begin, End, Refuse, gateVars, Resting
<1>3. CASE Close
  <2>1. /\ ask' = [v \in Askers |-> IF ask[v] = "asked" THEN "doomed" ELSE ask[v]]
        /\ open' = FALSE
    BY <1>3 DEF Close
  <2> QED BY <1>1, <2>1 DEF GateOK
<1> QED BY <1>2, <1>3

\* The variables of the login that Finish, On and Put assign.
OwnTyped ==
  /\ step \in [Askers -> Steps] /\ link \in [Askers -> {"none", "up", "cut"}]
  /\ tries \in [Askers -> 0 .. 2] /\ reply \in [Askers -> {No, Yes} \cup Passwords]
  /\ shown \in [Askers -> {"nowhere", "wallet", "file"}]
  /\ result \in [Askers -> Results] /\ holder \in [Hosts -> Askers \cup {Nobody}]

LEMMA FinishFacts ==
  ASSUME LoginTypeOK, NEW w \in Askers, NEW r \in Results, Finish(w, r)
  PROVE  /\ OwnTyped' /\ Others(w) /\ step'[w] = "idle" /\ shown'[w] = "nowhere"
         /\ \A h \in Hosts : holder'[h] = holder[h] \/ holder[h] = w
<1>1. /\ step \in [Askers -> Steps] /\ link \in [Askers -> {"none", "up", "cut"}]
      /\ tries \in [Askers -> 0 .. 2] /\ reply \in [Askers -> {No, Yes} \cup Passwords]
      /\ shown \in [Askers -> {"nowhere", "wallet", "file"}]
      /\ result \in [Askers -> Results] /\ holder \in [Hosts -> Askers \cup {Nobody}]
  BY LoginTypes
<1>2. step' \in [Askers -> Steps] /\ step'[w] = "idle" /\ \A v \in Askers \ {w} : step'[v] = step[v]
  BY <1>1 DEF Finish, Go, Steps
<1>3. link' \in [Askers -> {"none", "up", "cut"}] /\ result' \in [Askers -> Results]
  BY <1>1 DEF Finish
<1>4. tries' \in [Askers -> 0 .. 2] BY <1>1 DEF Finish
<1>5. reply' \in [Askers -> {No, Yes} \cup Passwords] /\ \A v \in Askers \ {w} : reply'[v] = reply[v]
  BY <1>1 DEF Finish
<1>6. /\ shown' \in [Askers -> {"nowhere", "wallet", "file"}] /\ shown'[w] = "nowhere"
      /\ \A v \in Askers \ {w} : shown'[v] = shown[v]
  BY <1>1 DEF Finish
<1>7. /\ holder' \in [Hosts -> Askers \cup {Nobody}]
      /\ \A h \in Hosts : holder'[h] = holder[h] \/ holder[h] = w
  BY <1>1 DEF Finish, Released
<1> QED BY <1>2, <1>3, <1>4, <1>5, <1>6, <1>7 DEF OwnTyped, Others

LEMMA OnFacts ==
  ASSUME LoginTypeOK, NEW w \in Askers, NEW s \in Steps, On(w, s)
  PROVE  /\ OwnTyped' /\ Others(w) /\ step'[w] = s
         /\ UNCHANGED <<link, result, holder, reply, shown, tries>>
<1>1. step' \in [Askers -> Steps] /\ step'[w] = s /\ \A v \in Askers \ {w} : step'[v] = step[v]
  BY LoginTypes DEF On, Go
<1>2. UNCHANGED <<link, result, holder, reply, shown, tries>> BY DEF On
<1> QED BY <1>1, <1>2, LoginTypes DEF OwnTyped, Others

LEMMA PutFacts ==
  ASSUME LoginTypeOK, NEW w \in Askers, NEW q \in Questions, Put(w, q)
  PROVE  /\ OwnTyped' /\ Others(w) /\ step'[w] = q /\ GateOK'
         /\ UNCHANGED <<link, result, holder, shown, tries>>
<1>1. step' \in [Askers -> Steps] /\ step'[w] = q /\ \A v \in Askers \ {w} : step'[v] = step[v]
  BY LoginTypes DEF Put, Go, Steps
<1>2. reply' \in [Askers -> {No, Yes} \cup Passwords] /\ \A v \in Askers \ {w} : reply'[v] = reply[v]
  BY LoginTypes DEF Put
<1>3. UNCHANGED <<link, result, holder, shown, tries>> BY DEF Put
<1>4. GateOK' BY LoginTypes, GateKeeps DEF Put
<1> QED BY <1>1, <1>2, <1>3, <1>4, LoginTypes DEF OwnTyped, Others

\* LoginTypeOK, in two parts.
LEMMA TypesFrom ==
  ASSUME LoginTypeOK, GateOK', OwnTyped', attended' \in [Askers -> BOOLEAN],
         attempts' \in [Askers -> Nat], mishaps' \in 0 .. MaxMishaps,
         server' \in [Hosts -> Passwords \ {NoPassword}], cache' \in [Hosts -> Passwords],
         typed' \subseteq Hosts, wallet' \in [Hosts -> Passwords],
         probe' \in {"unasked", "answers", "silent"}, file' \in [Hosts -> Passwords],
         known' \in [Hosts -> {"match", "mismatch", "absent"}],
         bulk' \in BOOLEAN, allSkipped' \in BOOLEAN, skipped' \subseteq Hosts,
         UNCHANGED <<offers, saved>>
  PROVE  LoginTypeOK'
<1>1. offers' \in [Hosts -> {"key", "password", "nothing"}] /\ saved' \subseteq Hosts
  BY DEF LoginTypeOK
<1> QED BY <1>1 DEF LoginTypeOK, OwnTyped

\* A worker's step: the server, the keychain, the file and the window stay.
LEMMA WorkerKeeps ==
  ASSUME LoginInv, NEW w \in Askers, Others(w), OwnTyped', GateOK',
         attended' \in [Askers -> BOOLEAN], attempts' \in [Askers -> Nat],
         cache' \in [Hosts -> Passwords], typed' \subseteq Hosts, Reserved(w), Sound(w)',
         UNCHANGED <<mishaps, wallet, probe, file, world, asker>>
  PROVE  LoginInv'
<1>1. LoginTypeOK BY DEF LoginInv
<1>2. UNCHANGED <<server, offers, known, saved, bulk, allSkipped, skipped>>
  BY DEF world, asker
<1>3. /\ mishaps' \in 0 .. MaxMishaps /\ server' \in [Hosts -> Passwords \ {NoPassword}]
      /\ wallet' \in [Hosts -> Passwords] /\ probe' \in {"unasked", "answers", "silent"}
      /\ file' \in [Hosts -> Passwords]
      /\ known' \in [Hosts -> {"match", "mismatch", "absent"}]
  BY <1>1, <1>2, LoginTypes
<1>4. bulk' \in BOOLEAN /\ allSkipped' \in BOOLEAN /\ skipped' \subseteq Hosts
  BY <1>1, <1>2 DEF LoginTypeOK
<1>5. LoginTypeOK' BY <1>1, <1>2, <1>3, <1>4, TypesFrom
<1> QED BY <1>2, <1>5, Undisturbed

\* The steps that end, go on or ask, and touch no store.
LEMMA LadderKeeps ==
  ASSUME LoginInv, NEW w \in Askers, Keeps, UNCHANGED <<stores, world, asker>>,
         \/ \E r \in Results : Finish(w, r) /\ UNCHANGED gateVars
         \/ /\ On(w, "auth") \/ On(w, "cached")
            /\ UNCHANGED gateVars /\ step[w] \notin {"idle", "hold"}
         \/ /\ \/ Put(w, "key?")
               \/ (Put(w, "dialog?") /\ step[w] \in {"wallet?", "erase?"})
            /\ step[w] \notin {"idle", "hold"}
  PROVE  LoginInv'
<1>1. LoginTypeOK /\ Sound(w) /\ HostOf[w] \in Hosts /\ GateOK BY LoginTypes DEF LoginInv
<1>2. /\ attended' \in [Askers -> BOOLEAN] /\ attempts' \in [Askers -> Nat]
      /\ cache' \in [Hosts -> Passwords] /\ typed' \subseteq Hosts
      /\ UNCHANGED <<mishaps, cache, typed, wallet, probe, file, attended>>
  BY <1>1, LoginTypes DEF Keeps, stores
<1>3. CASE \E r \in Results : Finish(w, r) /\ UNCHANGED gateVars
  <2>1. /\ OwnTyped' /\ Others(w) /\ step'[w] = "idle" /\ shown'[w] = "nowhere"
        /\ \A h \in Hosts : holder'[h] = holder[h] \/ holder[h] = w
    BY <1>1, <1>3, FinishFacts
  <2>2. GateOK' BY <1>1, <1>3, GateKeeps
  <2>3. Sound(w)' /\ Reserved(w) BY <1>2, <2>1 DEF Sound, Reserved
  <2> QED BY <1>2, <2>1, <2>2, <2>3, WorkerKeeps
<1>4. ASSUME NEW s \in {"auth", "cached"}, On(w, s), UNCHANGED gateVars,
             step[w] \notin {"idle", "hold"}
      PROVE  LoginInv'
  <2>1. OwnTyped' /\ Others(w) /\ step'[w] = s /\ UNCHANGED <<link, result, holder, reply, shown, tries>>
    BY <1>1, <1>4, OnFacts DEF Steps
  <2>2. GateOK' BY <1>1, <1>4, GateKeeps
  <2>3. Sound(w)' /\ Reserved(w) BY <1>1, <1>2, <1>4, <2>1 DEF Sound, Reserved
  <2> QED BY <1>2, <2>1, <2>2, <2>3, WorkerKeeps
<1>5. ASSUME NEW q \in {"key?", "dialog?"}, Put(w, q), step[w] \notin {"idle", "hold"},
             q = "dialog?" => step[w] \in {"wallet?", "erase?"}
      PROVE  LoginInv'
  <2>1. OwnTyped' /\ Others(w) /\ step'[w] = q /\ GateOK' /\ UNCHANGED <<link, result, holder, shown, tries>>
    BY <1>1, <1>5, PutFacts DEF Questions
  <2>2. Sound(w)' /\ Reserved(w) BY <1>1, <1>2, <1>5, <2>1 DEF Sound, Reserved
  <2> QED BY <1>2, <2>1, <2>2, WorkerKeeps
<1> QED BY <1>3, <1>4, <1>5

\* An attempt begins, and waits for the host.
LEMMA BeginSteps ==
  ASSUME LoginInv, NEW w \in Askers,
         (\E a \in BOOLEAN : Attempt(w, a)) \/ Connect(w) \/ AbandonHold(w)
  PROVE  LoginInv'
<1>1. LoginTypeOK /\ Sound(w) /\ HostOf[w] \in Hosts /\ GateOK /\ w # Nobody
  BY LoginTypes, LoginAssumption DEF LoginInv
<1>2. ASSUME NEW a \in BOOLEAN, Attempt(w, a) PROVE LoginInv'
  <2>1. On(w, "hold") /\ UNCHANGED gateVars BY <1>2 DEF Attempt
  <2>2. OwnTyped' /\ Others(w) /\ step'[w] = "hold" /\ UNCHANGED <<link, result, holder, reply, shown, tries>>
    BY <1>1, <2>1, OnFacts DEF Steps
  <2>3. GateOK' BY <1>1, <2>1, GateKeeps
  <2>4. /\ attended' \in [Askers -> BOOLEAN] /\ attempts' \in [Askers -> Nat]
        /\ \A v \in Askers \ {w} : attended'[v] = attended[v]
    BY <1>1, <1>2, LoginTypes DEF Attempt
  <2>5. /\ cache' \in [Hosts -> Passwords]
        /\ \A h \in Hosts : cache'[h] = cache[h] \/ cache[h] = NoPassword
    BY <1>1, <1>2, LoginTypes DEF Attempt
  <2>6. UNCHANGED <<mishaps, typed, wallet, probe, file, world, asker>> /\ typed \subseteq Hosts
    BY <1>1, <1>2, LoginTypes DEF Attempt
  <2>7. Sound(w)' /\ Reserved(w) BY <1>1, <2>2, <2>4, <2>5, <2>6 DEF Sound, Reserved
  <2> QED BY <2>2, <2>3, <2>4, <2>5, <2>6, <2>7, WorkerKeeps
<1>3. CASE (Connect(w) \/ AbandonHold(w)) /\ Finish(w, "unreachable")
  BY <1>3, LadderKeeps DEF Connect, AbandonHold, Results
<1>4. CASE Connect(w) /\ ~Finish(w, "unreachable")
  <2>1. /\ step[w] = "hold" /\ holder[HostOf[w]] = Nobody
        /\ holder' = [holder EXCEPT ![HostOf[w]] = w] /\ step' = [step EXCEPT ![w] = "key"]
        /\ link' = [link EXCEPT ![w] = "up"]
        /\ UNCHANGED <<result, reply, shown, tries, attended, attempts, mishaps, gateVars, stores,
                       world, asker>>
    BY <1>4 DEF Connect, HostFree, Go, Keeps
  <2>2. /\ holder' \in [Hosts -> Askers \cup {Nobody}] /\ holder'[HostOf[w]] = w
        /\ \A h \in Hosts : holder'[h] = holder[h] \/ holder[h] = Nobody
    BY <1>1, <2>1, LoginTypes
  <2>3. step' \in [Askers -> Steps] /\ step'[w] = "key" /\ \A v \in Askers \ {w} : step'[v] = step[v]
    BY <1>1, <2>1, LoginTypes DEF Steps
  <2>4. link' \in [Askers -> {"none", "up", "cut"}] BY <1>1, <2>1, LoginTypes
  <2>5. OwnTyped' /\ Others(w)
    BY <1>1, <2>1, <2>2, <2>3, <2>4, LoginTypes DEF OwnTyped, Others
  <2>6. GateOK' BY <1>1, <2>1, GateKeeps
  <2>7. /\ attended' \in [Askers -> BOOLEAN] /\ attempts' \in [Askers -> Nat]
        /\ cache' \in [Hosts -> Passwords] /\ typed' \subseteq Hosts
        /\ UNCHANGED <<cache, typed, wallet, probe, file>>
    BY <1>1, <2>1, LoginTypes DEF stores
  <2>8. Sound(w)' /\ Reserved(w) BY <1>1, <2>1, <2>2, <2>3, <2>7 DEF Sound, Reserved
  <2> QED BY <2>1, <2>5, <2>6, <2>7, <2>8, WorkerKeeps
<1> QED BY <1>2, <1>3, <1>4 DEF AbandonHold

\* The rungs of the ladder that touch no store.
LEMMA LadderSteps ==
  ASSUME LoginInv, NEW w \in Askers,
         VerifyHostKey(w) \/ HostKeyAnswered(w) \/ TryKeys(w) \/ ForgetAnswered(w) \/ KeepAnswered(w)
  PROVE  LoginInv'
<1>1. CASE VerifyHostKey(w) BY <1>1, LadderKeeps DEF VerifyHostKey, Ends, Results
<1>2. CASE HostKeyAnswered(w) BY <1>2, LadderKeeps DEF HostKeyAnswered, Answered, Results
<1>3. CASE TryKeys(w) BY <1>3, LadderKeeps DEF TryKeys, Ends, Results
<1>4. CASE ForgetAnswered(w) BY <1>4, LadderKeeps DEF ForgetAnswered, Answered
<1>5. CASE KeepAnswered(w) BY <1>5, LadderKeeps DEF KeepAnswered, Results
<1> QED BY <1>1, <1>2, <1>3, <1>4, <1>5

\* The rungs that put a password into the cache, or take one out.
LEMMA PasswordSteps ==
  ASSUME LoginInv, NEW w \in Askers,
         TryCached(w) \/ WalletAnswered(w) \/ PasswordAnswered(w) \/ TurnedAway(w)
  PROVE  LoginInv'
<1>1. /\ LoginTypeOK /\ Sound(w) /\ HostOf[w] \in Hosts /\ GateOK /\ w # Nobody
      /\ cache \in [Hosts -> Passwords] /\ typed \subseteq Hosts
      /\ server[HostOf[w]] \in Passwords \ {NoPassword}
      /\ attended \in [Askers -> BOOLEAN] /\ attempts \in [Askers -> Nat]
      /\ NoPassword \in Passwords
  BY LoginTypes, LoginAssumption DEF LoginInv, Passwords, NoPassword
<1>2. UNCHANGED <<attended, attempts, mishaps, wallet, probe, file, world, asker>>
  BY DEF TryCached, WalletAnswered, PasswordAnswered, TurnedAway, Keeps, mine, stores
<1>3. step[w] \notin {"idle", "hold"}
  BY DEF TryCached, WalletAnswered, PasswordAnswered, TurnedAway, Answered, Questions
<1>4. holder[HostOf[w]] = w BY <1>1, <1>3 DEF Sound
<1>5. ASSUME OwnTyped', GateOK', Others(w), Sound(w)', cache' \in [Hosts -> Passwords],
             typed' \subseteq Hosts, \A h \in Hosts : holder'[h] = holder[h] \/ holder[h] = w,
             \A h \in Hosts : cache'[h] = cache[h] \/ h = HostOf[w],
             \A h \in typed' : h \in typed \/ h = HostOf[w]
      PROVE  LoginInv'
  <2>1. Reserved(w) BY <1>2, <1>4, <1>5 DEF Reserved
  <2> QED BY <1>1, <1>2, <1>5, <2>1, WorkerKeeps
<1>6. ASSUME NEW r \in Results, Ends(w, r), cache' \in [Hosts -> Passwords],
             typed' \subseteq Hosts, \A h \in Hosts : cache'[h] = cache[h] \/ h = HostOf[w],
             \A h \in typed' : h \in typed \/ h = HostOf[w]
      PROVE  LoginInv'
  <2>1. /\ OwnTyped' /\ Others(w) /\ step'[w] = "idle" /\ shown'[w] = "nowhere"
        /\ \A h \in Hosts : holder'[h] = holder[h] \/ holder[h] = w
    BY <1>1, <1>6, FinishFacts DEF Ends
  <2>2. GateOK' BY <1>1, <1>6, GateKeeps DEF Ends
  <2>3. Sound(w)' BY <2>1 DEF Sound
  <2> QED BY <1>5, <1>6, <2>1, <2>2, <2>3
<1>7. ASSUME NEW q \in {"wallet?", "erase?", "dialog?"}, Put(w, q), attended[w],
             cache' \in [Hosts -> Passwords], typed' \subseteq typed \ {HostOf[w]},
             \A h \in Hosts : cache'[h] = cache[h] \/ h = HostOf[w]
      PROVE  LoginInv'
  <2>1. OwnTyped' /\ Others(w) /\ step'[w] = q /\ GateOK' /\ UNCHANGED <<link, result, holder, shown, tries>>
    BY <1>1, <1>7, PutFacts DEF Questions
  <2>2. Sound(w)' BY <1>1, <1>2, <1>4, <1>7, <2>1 DEF Sound
  <2> QED BY <1>1, <1>5, <1>7, <2>1, <2>2
<1>8. CASE TryCached(w)
  <2>1. CASE Accepts(w, cache[HostOf[w]]) BY <1>1, <1>6, <1>8, <2>1 DEF TryCached, Results
  <2>2. CASE ~Accepts(w, cache[HostOf[w]])
    <3>1. /\ cache' = [cache EXCEPT ![HostOf[w]] = NoPassword] /\ typed' = typed \ {HostOf[w]}
          /\ IF attended[w] THEN Put(w, "wallet?") ELSE Ends(w, "person")
      BY <1>8, <2>2 DEF TryCached
    <3>2. /\ cache' \in [Hosts -> Passwords] /\ typed' \subseteq Hosts
          /\ \A h \in Hosts : cache'[h] = cache[h] \/ h = HostOf[w]
      BY <1>1, <3>1
    <3>3. CASE attended[w] BY <1>7, <3>1, <3>2, <3>3
    <3>4. CASE ~attended[w] BY <1>6, <3>1, <3>2, <3>4 DEF Results
    <3> QED BY <3>3, <3>4
  <2> QED BY <2>1, <2>2
<1>9. CASE WalletAnswered(w)
  <2>1. step[w] = "wallet?" /\ attended[w] /\ HostOf[w] \notin typed /\ typed' = typed
    BY <1>1, <1>9 DEF WalletAnswered, Answered, Sound
  <2>2. CASE cache' = cache /\ (Put(w, "dialog?") \/ Put(w, "erase?"))
    BY <1>1, <1>7, <2>1, <2>2
  <2>3. CASE Accepts(w, reply[w]) /\ cache' = [cache EXCEPT ![HostOf[w]] = reply[w]] /\ Ends(w, "in")
    <3>1. /\ cache' \in [Hosts -> Passwords]
          /\ \A h \in Hosts : cache'[h] = cache[h] \/ h = HostOf[w]
      BY <1>1, <2>3 DEF Accepts
    <3> QED BY <1>1, <1>6, <2>1, <2>3, <3>1 DEF Results
  <2> QED BY <1>9, <2>2, <2>3 DEF WalletAnswered
<1>10. CASE PasswordAnswered(w)
  <2>1. step[w] = "dialog?" /\ attended[w] /\ HostOf[w] \notin typed
    BY <1>1, <1>10 DEF PasswordAnswered, Answered, Sound
  <2>2. CASE Ends(w, "refused") /\ UNCHANGED <<cache, typed>>
    BY <1>1, <1>6, <2>2 DEF Results
  <2>3. CASE /\ Accepts(w, reply[w]) /\ cache' = [cache EXCEPT ![HostOf[w]] = reply[w]]
             /\ typed' = typed \cup {HostOf[w]} /\ (Ask(w) \/ TurnAway(w)) /\ On(w, "store?")
    <3>1. /\ cache' \in [Hosts -> Passwords] /\ cache'[HostOf[w]] = reply[w]
          /\ reply[w] \in Passwords \ {NoPassword}
          /\ \A h \in Hosts : cache'[h] = cache[h] \/ h = HostOf[w]
      BY <1>1, <2>3 DEF Accepts
    <3>2. OwnTyped' /\ Others(w) /\ step'[w] = "store?" /\ UNCHANGED <<link, result, holder, reply, shown, tries>>
      BY <1>1, <2>3, OnFacts DEF Steps, Questions
    <3>3. GateOK' BY <1>1, <2>3, GateKeeps
    <3>4. Sound(w)' BY <1>1, <1>2, <1>4, <3>1, <3>2 DEF Sound
    <3> QED BY <1>1, <1>5, <2>3, <3>1, <3>2, <3>3, <3>4
  <2>4. CASE /\ tries[w] < 2 /\ tries' = [tries EXCEPT ![w] = @ + 1] /\ (Ask(w) \/ TurnAway(w))
             /\ reply' = [reply EXCEPT ![w] = No]
             /\ UNCHANGED <<step, link, result, holder, shown, cache, typed>>
    <3>1. tries' \in [Askers -> 0 .. 2]
      <4>1. tries \in [Askers -> 0 .. 2] /\ tries[w] + 1 \in 0 .. 2
        BY <1>1, <2>4, LoginTypes
      <4> QED BY <2>4, <4>1
    <3>2. /\ reply' \in [Askers -> {No, Yes} \cup Passwords]
          /\ \A v \in Askers \ {w} : reply'[v] = reply[v]
      BY <1>1, <2>4, LoginTypes
    <3>3. OwnTyped' /\ Others(w)
      BY <1>1, <2>4, <3>1, <3>2, LoginTypes DEF OwnTyped, Others
    <3>4. GateOK' BY <1>1, <2>4, GateKeeps
    <3>5. Sound(w)' BY <1>1, <1>2, <2>1, <2>4 DEF Sound
    <3> QED BY <1>1, <1>5, <2>4, <3>3, <3>4, <3>5
  <2> QED BY <1>10, <2>2, <2>3, <2>4 DEF PasswordAnswered
<1>11. CASE TurnedAway(w)
  <2>1. UNCHANGED <<step, link, tries, reply, shown, result, holder, cache, typed>>
    BY <1>11 DEF TurnedAway, mine, stores
  <2>2. OwnTyped' /\ Others(w) BY <1>1, <2>1, LoginTypes DEF OwnTyped, Others
  <2>3. GateOK' BY <1>1, <1>11, GateKeeps DEF TurnedAway
  <2>4. Sound(w)' BY <1>1, <1>2, <2>1 DEF Sound
  <2> QED BY <1>1, <1>5, <2>1, <2>2, <2>3, <2>4
<1> QED BY <1>8, <1>9, <1>10, <1>11

\* The application thread takes up a question or answers it.
LEMMA PersonSteps ==
  ASSUME LoginInv, NEW w \in Askers, TakeUp(w) \/ AnswerUp(w)
  PROVE  LoginInv'
<1>1. /\ LoginTypeOK /\ Sound(w) /\ HostOf[w] \in Hosts /\ GateOK
      /\ cache \in [Hosts -> Passwords] /\ typed \subseteq Hosts
      /\ wallet \in [Hosts -> Passwords] /\ file \in [Hosts -> Passwords]
      /\ server[HostOf[w]] \in Passwords \ {NoPassword}
      /\ attended \in [Askers -> BOOLEAN] /\ attempts \in [Askers -> Nat]
      /\ NoPassword \in Passwords /\ step \in [Askers -> Steps]
      /\ shown \in [Askers -> {"nowhere", "wallet", "file"}]
      /\ reply \in [Askers -> {No, Yes} \cup Passwords]
      /\ known \in [Hosts -> {"match", "mismatch", "absent"}]
      /\ probe \in {"unasked", "answers", "silent"}
      /\ bulk \in BOOLEAN /\ allSkipped \in BOOLEAN /\ skipped \subseteq Hosts
  BY LoginTypes, LoginAssumption DEF LoginInv, LoginTypeOK, Passwords, NoPassword
<1>2. UNCHANGED <<step, attended, attempts, mishaps, link, tries, result, holder, cache, typed,
                  server, offers, saved>>
  BY DEF TakeUp, AnswerUp, world
<1>3. GateOK' BY <1>1, GateKeeps DEF TakeUp, AnswerUp
<1>4. /\ probe' \in {"answers", "silent"} \/ probe' = probe
      /\ probe' = probe \/ probe = "unasked"
  BY DEF TakeUp, AnswerUp, Probed, AnswerHostKey, AnswerRead, AnswerErase, AnswerDialog, AnswerKeep
<1>5. /\ reply' \in [Askers -> {No, Yes} \cup Passwords]
      /\ \A v \in Askers \ {w} : reply'[v] = reply[v]
      /\ step[w] = "store?" => reply' = reply
  <2>1. \/ reply' = reply
        \/ /\ step[w] # "store?"
           /\ \E r \in {No, Yes} \cup Passwords : reply' = [reply EXCEPT ![w] = r]
    <3>1. CASE TakeUp(w) BY <3>1 DEF TakeUp
    <3>2. CASE AnswerHostKey(w) BY <3>2 DEF AnswerHostKey, Reply
    <3>3. CASE AnswerRead(w) BY <1>1, <3>3 DEF AnswerRead, Reply
    <3>4. CASE AnswerErase(w) \/ AnswerKeep(w) BY <3>4 DEF AnswerErase, AnswerKeep
    <3>5. CASE AnswerDialog(w) BY <1>1, <3>5 DEF AnswerDialog, Reply
    <3> QED BY <3>1, <3>2, <3>3, <3>4, <3>5 DEF AnswerUp
  <2> QED BY <1>1, <2>1
<1>6. /\ shown' \in [Askers -> {"nowhere", "wallet", "file"}]
      /\ \A v \in Askers \ {w} : shown'[v] = shown[v]
      /\ (shown'[w] = "wallet" => probe' = "answers") /\ (shown'[w] = "file" => probe' = "silent")
  <2>1. CASE TakeUp(w) /\ step[w] = "dialog?" /\ ~MarkedSkipped(w)
    <3>1. PICK s \in {"nowhere", "wallet", "file"} :
            /\ shown' = [shown EXCEPT ![w] = s]
            /\ (s = "wallet" => probe' = "answers") /\ (s = "file" => probe' = "silent")
      <4>1. /\ shown' = [shown EXCEPT ![w] = IF probe' = "answers" THEN "wallet"
                                             ELSE IF HostOf[w] \in saved THEN "file" ELSE "nowhere"]
            /\ probe' \in Probed
        BY <2>1 DEF TakeUp
      <4>2. probe' \in {"answers", "silent"} BY <1>1, <4>1 DEF Probed
      <4> QED BY <4>1, <4>2
    <3> QED BY <1>1, <3>1
  <2>2. CASE shown' = shown BY <1>1, <1>4, <2>2 DEF Sound
  <2> QED
    BY <2>1, <2>2 DEF TakeUp, AnswerUp, AnswerHostKey, AnswerRead, AnswerErase, AnswerDialog, AnswerKeep
<1>7. known' \in [Hosts -> {"match", "mismatch", "absent"}]
  <2>1. known' = known \/ known' = [known EXCEPT ![HostOf[w]] = "match"]
    BY DEF TakeUp, AnswerUp, AnswerHostKey, AnswerRead, AnswerErase, AnswerDialog, AnswerKeep, world
  <2> QED BY <1>1, <2>1
<1>8. wallet' \in [Hosts -> Passwords] /\ file' \in [Hosts -> Passwords]
  <2>1. CASE AnswerKeep(w)
    <3>1. reply[w] \in Passwords BY <1>1, <2>1 DEF AnswerKeep, Sound
    <3>2. \/ wallet' = wallet /\ file' = file
          \/ wallet' = [wallet EXCEPT ![HostOf[w]] = reply[w]] /\ file' = file
          \/ file' = [file EXCEPT ![HostOf[w]] = reply[w]] /\ wallet' = wallet
      BY <2>1 DEF AnswerKeep
    <3> QED BY <1>1, <3>1, <3>2
  <2>2. CASE AnswerErase(w)
    <3>1. /\ wallet' = wallet \/ wallet' = [wallet EXCEPT ![HostOf[w]] = NoPassword]
          /\ file' = file
      BY <2>2 DEF AnswerErase
    <3> QED BY <1>1, <3>1
  <2>3. CASE TakeUp(w) \/ AnswerHostKey(w) \/ AnswerRead(w) \/ AnswerDialog(w)
    <3>1. wallet' = wallet /\ file' = file
      BY <2>3 DEF TakeUp, AnswerHostKey, AnswerRead, AnswerDialog
    <3> QED BY <1>1, <3>1
  <2> QED BY <2>1, <2>2, <2>3 DEF AnswerUp
<1>9. bulk' \in BOOLEAN /\ allSkipped' \in BOOLEAN /\ skipped' \subseteq Hosts
  BY <1>1 DEF TakeUp, AnswerUp, AnswerHostKey, AnswerRead, AnswerErase, AnswerDialog, AnswerKeep, asker
<1>10. OwnTyped' /\ Others(w) BY <1>1, <1>2, <1>5, <1>6, LoginTypes DEF OwnTyped, Others
<1>11. LoginTypeOK'
  <2>1. /\ mishaps' \in 0 .. MaxMishaps /\ server' \in [Hosts -> Passwords \ {NoPassword}]
        /\ probe' \in {"unasked", "answers", "silent"} /\ cache' \in [Hosts -> Passwords]
        /\ typed' \subseteq Hosts /\ attended' \in [Askers -> BOOLEAN] /\ attempts' \in [Askers -> Nat]
        /\ UNCHANGED <<offers, saved>>
    BY <1>1, <1>2, <1>4, LoginTypes
  <2> QED BY <1>1, <1>3, <1>7, <1>8, <1>9, <1>10, <2>1, TypesFrom
<1>12. Sound(w)' BY <1>1, <1>2, <1>5, <1>6 DEF Sound
<1>13. Reserved(w) BY <1>2, <1>4 DEF Reserved
<1> QED BY <1>2, <1>10, <1>11, <1>12, <1>13, Undisturbed

\* The world outside: a link is cut, the window goes, a restore ends, an account gets
\* another password.
LEMMA WorldSteps ==
  ASSUME LoginInv, \/ \E w \in Askers : Cut(w)
                   \/ WindowGoes \/ EndBulkRestore \/ \E h \in Hosts : ServerChanges(h)
  PROVE  LoginInv'
<1>1. /\ LoginTypeOK /\ GateOK /\ OwnTyped /\ mishaps \in 0 .. MaxMishaps
      /\ server \in [Hosts -> Passwords \ {NoPassword}]
      /\ bulk \in BOOLEAN /\ allSkipped \in BOOLEAN /\ skipped \subseteq Hosts
  BY LoginTypes DEF LoginInv, LoginTypeOK, OwnTyped
<1>2. UNCHANGED <<step, attended, attempts, tries, reply, shown, result, holder, cache, typed,
                  wallet, probe, file, offers, saved, known>>
  BY DEF Cut, WindowGoes, EndBulkRestore, ServerChanges, mine, stores, world
<1>3. \A w \in Askers : Sound(w)' BY <1>2 DEF LoginInv, Sound
<1>4. GateOK'
  <2>1. CASE WindowGoes
    <3>1. /\ ask' = [v \in Askers |-> IF ask[v] = "asked" THEN "doomed" ELSE ask[v]]
          /\ open' = FALSE
      BY <2>1 DEF WindowGoes, Close
    <3> QED BY <1>1, <3>1 DEF GateOK
  <2>2. CASE UNCHANGED gateVars BY <1>1, <2>2 DEF GateOK, gateVars
  <2> QED BY <2>1, <2>2 DEF Cut, EndBulkRestore, ServerChanges
<1>5. link' \in [Askers -> {"none", "up", "cut"}]
  <2>1. link' = link \/ \E w \in Askers : link' = [link EXCEPT ![w] = "cut"]
    BY DEF Cut, WindowGoes, EndBulkRestore, ServerChanges, mine
  <2> QED BY <1>1, <2>1, LoginTypes
<1>6. bulk' \in BOOLEAN /\ allSkipped' \in BOOLEAN /\ skipped' \subseteq Hosts
  BY <1>1 DEF Cut, WindowGoes, EndBulkRestore, ServerChanges, asker
<1>7. /\ mishaps' \in 0 .. MaxMishaps /\ server' \in [Hosts -> Passwords \ {NoPassword}]
      /\ \A h \in Hosts : server'[h] <= mishaps' + 1
  <2>1. /\ MaxMishaps \in Nat /\ Passwords = 0 .. MaxMishaps + 1 /\ NoPassword = 0
        /\ \A h \in Hosts : server[h] \in 1 .. MaxMishaps + 1 /\ server[h] <= mishaps + 1
    BY <1>1, LoginAssumption DEF LoginInv, Passwords, NoPassword
  <2>2. CASE UNCHANGED server /\ (mishaps' = mishaps \/ (mishaps < MaxMishaps /\ mishaps' = mishaps + 1))
    BY <1>1, <2>1, <2>2
  <2>3. ASSUME NEW h \in Hosts, mishaps < MaxMishaps, mishaps' = mishaps + 1,
               server' = [server EXCEPT ![h] = @ + 1]
        PROVE  /\ mishaps' \in 0 .. MaxMishaps /\ server' \in [Hosts -> Passwords \ {NoPassword}]
               /\ \A k \in Hosts : server'[k] <= mishaps' + 1
    <3>1. server[h] + 1 \in Passwords \ {NoPassword} /\ server[h] + 1 <= mishaps' + 1
      BY <1>1, <2>1, <2>3
    <3>2. server' \in [Hosts -> Passwords \ {NoPassword}] BY <1>1, <2>3, <3>1
    <3>3. mishaps' \in 0 .. MaxMishaps BY <1>1, <2>1, <2>3
    <3>4. ASSUME NEW k \in Hosts PROVE server'[k] <= mishaps' + 1
      <4>1. server'[k] = IF k = h THEN server[h] + 1 ELSE server[k] BY <1>1, <2>3
      <4> QED BY <1>1, <2>1, <2>3, <3>1, <4>1
    <3> QED BY <3>2, <3>3, <3>4
  <2>4. ASSUME NEW h \in Hosts, ServerChanges(h)
        PROVE  mishaps < MaxMishaps /\ mishaps' = mishaps + 1 /\ server' = [server EXCEPT ![h] = @ + 1]
    BY <2>4 DEF ServerChanges
  <2>5. CASE (\E w \in Askers : Cut(w)) \/ WindowGoes \/ EndBulkRestore
    BY <2>2, <2>5 DEF Cut, WindowGoes, EndBulkRestore, mine, world
  <2> QED BY <2>3, <2>4, <2>5
<1>8. LoginTypeOK'
  <2>1. OwnTyped' BY <1>1, <1>2, <1>5 DEF OwnTyped
  <2>2. /\ attended' \in [Askers -> BOOLEAN] /\ attempts' \in [Askers -> Nat]
        /\ cache' \in [Hosts -> Passwords] /\ typed' \subseteq Hosts
        /\ wallet' \in [Hosts -> Passwords] /\ probe' \in {"unasked", "answers", "silent"}
        /\ file' \in [Hosts -> Passwords] /\ known' \in [Hosts -> {"match", "mismatch", "absent"}]
    BY <1>1, <1>2, LoginTypes
  <2> QED BY <1>1, <1>2, <1>4, <1>6, <1>7, <2>1, <2>2, TypesFrom
<1> QED BY <1>3, <1>7, <1>8 DEF LoginInv

LEMMA LoginStarts == LoginInit => LoginInv
<1> SUFFICES ASSUME LoginInit PROVE LoginInv OBVIOUS
<1>1. MaxMishaps \in Nat /\ Passwords = 0 .. MaxMishaps + 1 /\ NoPassword = 0
  BY LoginAssumption DEF Passwords, NoPassword
<1>2. OwnTyped /\ GateOK
  BY DEF LoginInit, OwnTyped, GateInit, GateOK, Resting, Steps, Results
<1>3. /\ mishaps \in 0 .. MaxMishaps /\ server = [h \in Hosts |-> 1]
      /\ cache \in [Hosts -> Passwords] /\ attempts \in [Askers -> Nat]
      /\ wallet \in [Hosts -> Passwords] /\ file \in [Hosts -> Passwords]
  BY <1>1 DEF LoginInit
<1>4. server \in [Hosts -> Passwords \ {NoPassword}] /\ \A h \in Hosts : server[h] <= mishaps + 1
  BY <1>1, <1>3
<1>5. LoginTypeOK BY <1>2, <1>3, <1>4 DEF LoginInit, LoginTypeOK, OwnTyped
<1>6. ASSUME NEW w \in Askers PROVE Sound(w) BY DEF LoginInit, Sound
<1> QED BY <1>4, <1>5, <1>6 DEF LoginInv

LEMMA LoginStepsKeep == LoginInv /\ [LoginNext]_loginVars => LoginInv'
<1> SUFFICES ASSUME LoginInv, [LoginNext]_loginVars PROVE LoginInv' OBVIOUS
<1>1. CASE LoginNext
  BY <1>1, BeginSteps, LadderSteps, PasswordSteps, PersonSteps, WorldSteps
     DEF LoginNext, Worker, Person
<1>2. CASE UNCHANGED loginVars
  <2>1. UNCHANGED <<ask, open, step, attended, attempts, mishaps, link, tries, reply, shown, result,
                    holder, cache, typed, wallet, probe, file, server, offers, known, saved, bulk,
                    allSkipped, skipped>>
    BY <1>2 DEF loginVars, gateVars, mine, stores, world, asker
  <2>2. LoginTypeOK' BY <2>1 DEF LoginInv, LoginTypeOK, GateOK
  <2>3. \A w \in Askers : Sound(w)' BY <2>1 DEF LoginInv, Sound
  <2> QED BY <2>1, <2>2, <2>3 DEF LoginInv
<1> QED BY <1>1, <1>2

LEMMA LoginHolds == LoginSpec => []LoginInv
  BY LoginStarts, LoginStepsKeep, PTL DEF LoginSpec

-----------------------------------------------------------------------------
(* Signing in: theorems                                                    *)

\* The ladder, the stores and the prompter keep their types.
THEOREM LoginTypesHold == LoginSpec => []LoginTypeOK
<1>1. LoginInv => LoginTypeOK BY DEF LoginInv
<1> QED BY <1>1, LoginHolds, PTL

\* However many workers sign in to a host and whoever is cut off meanwhile, its password
\* dialog is put by the one that holds the host, for a person, and never when a password
\* typed in this session would do (SshConnectHold, SshSession::authenticate()).
THEOREM OneDialogPerHost == LoginSpec => []OnePromptPerHost
<1>1. LoginInv => OnePromptPerHost BY DEF LoginInv, Sound, OnePromptPerHost, DialogUp
<1> QED BY <1>1, LoginHolds, PTL

\* A password is kept only where the dialog of its login said it would be, and only one
\* the server took (passwordAccepted(), rememberSshPassword()).
THEOREM KeptWhereShown == LoginSpec => SecretGoesWhereShown
<1>1. ASSUME LoginInv, LoginNext, NEW h \in Hosts
      PROVE  /\ (wallet'[h] \notin {wallet[h], NoPassword}) =>
                   \E w \in Askers : /\ HostOf[w] = h /\ step[w] = "store?"
                                     /\ shown[w] = "wallet" /\ wallet'[h] = cache[h]
             /\ (file'[h] # file[h]) =>
                   \E w \in Askers : /\ HostOf[w] = h /\ step[w] = "store?"
                                     /\ shown[w] = "file" /\ file'[h] = cache[h]
  <2>1. \/ wallet' = wallet /\ file' = file
        \/ \E w \in Askers : AnswerErase(w) \/ AnswerKeep(w)
    BY <1>1 DEF LoginNext, Worker, Person, Attempt, AbandonHold, Connect, VerifyHostKey,
       HostKeyAnswered, TryKeys, TryCached, WalletAnswered, ForgetAnswered, PasswordAnswered,
       KeepAnswered, TurnedAway, TakeUp, AnswerUp, AnswerHostKey, AnswerRead, AnswerDialog, Cut,
       WindowGoes, EndBulkRestore, ServerChanges, stores
  <2>2. /\ wallet \in [Hosts -> Passwords] /\ file \in [Hosts -> Passwords]
        /\ \A w \in Askers : HostOf[w] \in Hosts /\ Sound(w)
        /\ shown \in [Askers -> {"nowhere", "wallet", "file"}]
    BY <1>1, LoginTypes DEF LoginInv
  <2>3. ASSUME NEW w \in Askers, AnswerErase(w)
        PROVE  wallet'[h] \in {wallet[h], NoPassword} /\ file' = file
    <3>1. wallet' = wallet \/ wallet' = [wallet EXCEPT ![HostOf[w]] = NoPassword]
      BY <2>3 DEF AnswerErase
    <3> QED BY <2>2, <2>3, <3>1 DEF AnswerErase
  <2>4. ASSUME NEW w \in Askers, AnswerKeep(w)
        PROVE  /\ wallet'[h] # wallet[h] => /\ HostOf[w] = h /\ step[w] = "store?"
                                            /\ shown[w] = "wallet" /\ wallet'[h] = cache[h]
               /\ file'[h] # file[h] => /\ HostOf[w] = h /\ step[w] = "store?"
                                        /\ shown[w] = "file" /\ file'[h] = cache[h]
    <3>1. /\ step[w] = "store?" /\ probe' \in Probed /\ reply[w] = cache[HostOf[w]]
          /\ shown[w] = "wallet" => probe' = "answers"
          /\ shown[w] = "file" => probe' = "silent"
      BY <2>2, <2>4 DEF AnswerKeep, Sound, Probed
    <3>2. \/ wallet' = wallet /\ file' = file
          \/ /\ shown[w] = "wallet" /\ file' = file
             /\ wallet' = [wallet EXCEPT ![HostOf[w]] = reply[w]]
          \/ /\ shown[w] = "file" /\ wallet' = wallet
             /\ file' = [file EXCEPT ![HostOf[w]] = reply[w]]
      BY <2>2, <2>4, <3>1 DEF AnswerKeep, FileMayKeep
    <3> QED BY <2>2, <3>1, <3>2
  <2> QED BY <2>1, <2>3, <2>4
<1>2. LoginInv /\ UNCHANGED loginVars => UNCHANGED <<wallet, file>>
  BY DEF loginVars, stores
<1> QED
  <2>1. LoginInv /\ [LoginNext]_loginVars =>
          [\A h \in Hosts :
             /\ (wallet'[h] \notin {wallet[h], NoPassword}) =>
                   \E w \in Askers : /\ HostOf[w] = h /\ step[w] = "store?"
                                      /\ shown[w] = "wallet" /\ wallet'[h] = cache[h]
             /\ (file'[h] # file[h]) =>
                   \E w \in Askers : /\ HostOf[w] = h /\ step[w] = "store?"
                                      /\ shown[w] = "file" /\ file'[h] = cache[h]]_loginVars
    BY <1>1
  <2> QED BY <2>1, LoginHolds, PTL DEF LoginSpec, SecretGoesWhereShown

-----------------------------------------------------------------------------
(* What the console's machine makes of what it is fed *)

Machine == [step : LoginSteps, window : Seq(Pieces), spent : 0 .. Attempts,
            next : 1 .. Startup + 1]

\* A machine that has spent its last attempt has failed.
Fit(m) == m \in Machine /\ (m.spent = Attempts => m.step = "failed")

Shown(w, text) == \E i \in 1 .. Len(w) - 1 : w[i] = <<text, 1>> /\ w[i + 1] = <<text, 2>>

\* What a move of the machine m may be, its window being w: a line is written for
\* what is shown there and for nothing else, a command when the one before is answered.
Waits(r, m)       == r.act = "wait" /\ r.m.next = m.next /\ r.m.step = m.step
Signs(r, m, w)    == /\ r.act = "write" /\ r.m.window = <<>> /\ r.m.next = m.next
                     /\ r.m.step # "idle"
                     /\ \/ r.line = <<"user", 0>> /\ Shown(w, "login")
                        \/ r.line = <<"secret", 0>> /\ Shown(w, "password")
Commands(r, m, w) == /\ r.act = "write" /\ r.m.window = <<>> /\ r.m.step # "idle"
                     /\ m.next \in 1 .. Startup /\ r.m.next = m.next + 1
                     /\ r.line = <<"command", m.next>> /\ Shown(w, "marker")
Finishes(r, m, w)     == /\ r.m.next = m.next
                     /\ \/ r.act = "done" /\ r.m.step = "ready" /\ r.m.window = <<>>
                             /\ Shown(w, "marker")
                        \/ r.act = "fail" /\ r.m.step = "failed" /\ r.m.window = w
                             /\ Shown(w, "login")
Answers(r, m, w)  == Signs(r, m, w) \/ Commands(r, m, w) \/ Finishes(r, m, w)

LEMMA ShowsIs ==
  ASSUME NEW m, m.window \in Seq(Pieces), NEW text, Shows(m, text)
  PROVE  Shown(m.window, text)
<1>1. PICK i \in 1 .. Len(m.window) - 1 : SubSeq(m.window, i, i + 1) = Halves(text)
  BY DEF Shows
<1>2. /\ SubSeq(m.window, i, i + 1)[1] = m.window[i]
      /\ SubSeq(m.window, i, i + 1)[2] = m.window[i + 1]
  BY <1>1
<1>3. Halves(text)[1] = <<text, 1>> /\ Halves(text)[2] = <<text, 2>> BY DEF Halves
<1> QED BY <1>1, <1>2, <1>3 DEF Shown

LEMMA WriteFit ==
  ASSUME NEW m \in Machine, m.spent # Attempts, NEW line, NEW to \in LoginSteps
  PROVE  /\ Fit(Write(m, line, to).m) /\ Write(m, line, to).act = "write"
         /\ Write(m, line, to).line = line
         /\ Write(m, line, to).m.window = <<>> /\ Write(m, line, to).m.next = m.next
         /\ Write(m, line, to).m.step = to
<1> DEFINE e == [m EXCEPT !.step = to, !.window = <<>>]
<1>1. Write(m, line, to) = [m |-> e, act |-> "write", line |-> line]
  BY DEF Write, EnterStep
<1>2. <<>> \in Seq(Pieces) OBVIOUS
<1>3. e \in Machine /\ e.window = <<>> /\ e.next = m.next /\ e.step = to
      /\ e.spent = m.spent
  BY <1>2 DEF Machine
<1> HIDE DEF e
<1>4. /\ Write(m, line, to).m = e /\ Write(m, line, to).act = "write"
      /\ Write(m, line, to).line = line
  BY <1>1
<1> QED BY <1>3, <1>4 DEF Fit

LEMMA ProgressFit ==
  ASSUME NEW m \in Machine
  PROVE  /\ Progress(m) \in Machine /\ Progress(m).spent # Attempts
         /\ Progress(m).window = m.window /\ Progress(m).next = m.next
         /\ Progress(m).step = m.step
  BY ConsoleLoginAssumption DEF Machine, Progress

LEMMA FailFit ==
  ASSUME NEW m \in Machine
  PROVE  /\ Fit(Fail(m).m) /\ Fail(m).act = "fail" /\ Fail(m).m.step = "failed"
         /\ Fail(m).m.window = m.window /\ Fail(m).m.next = m.next
  BY DEF Machine, Fit, Fail, LoginSteps

LEMMA SpendFit ==
  ASSUME NEW m \in Machine, m.spent # Attempts
  PROVE  LET spent == [m EXCEPT !.spent = @ + 1]
         IN  /\ spent \in Machine /\ spent.window = m.window /\ spent.next = m.next
             /\ spent.step = m.step /\ (spent.spent < Attempts => spent.spent # Attempts)
  BY ConsoleLoginAssumption DEF Machine

LEMMA NothingIs ==
  ASSUME NEW m
  PROVE  Nothing(m).m = m /\ Nothing(m).act = "wait"
  BY DEF Nothing

LEMMA ClassifyAnswers ==
  ASSUME NEW m, Fit(m), m.step # "failed"
  PROVE  /\ Fit(Classify(m).m)
         /\ Classify(m) = Nothing(m) \/ Signs(Classify(m), m, m.window)
<1>1. m \in Machine /\ m.window \in Seq(Pieces) BY DEF Fit, Machine
<1>2. CASE Shows(m, "login")
  <2>1. Classify(m) = Write(Progress(m), <<"user", 0>>, "user")
    BY <1>2 DEF Classify, SendUser
  <2>2. Shown(m.window, "login") /\ "user" \in LoginSteps
    BY <1>1, <1>2, ShowsIs DEF LoginSteps
  <2> QED BY <1>1, <2>1, <2>2, ProgressFit, WriteFit DEF Signs
<1>3. CASE ~Shows(m, "login") /\ Shows(m, "password")
  <2>1. Classify(m) = Write(Progress(m), <<"secret", 0>>, "password")
    BY <1>3 DEF Classify, SendSecret
  <2>2. Shown(m.window, "password") /\ "password" \in LoginSteps
    BY <1>1, <1>3, ShowsIs DEF LoginSteps
  <2> QED BY <1>1, <2>1, <2>2, ProgressFit, WriteFit DEF Signs
<1>4. CASE ~Shows(m, "login") /\ ~Shows(m, "password") BY <1>4, NothingIs DEF Classify
<1> QED BY <1>2, <1>3, <1>4

LEMMA NextCommandAnswers ==
  ASSUME NEW m, Fit(m), Shows(m, "marker")
  PROVE  LET r == NextCommand(Progress(m))
         IN  Fit(r.m) /\ (Commands(r, m, m.window) \/ Finishes(r, m, m.window))
<1>1. m \in Machine /\ m.window \in Seq(Pieces) /\ m.next \in 1 .. Startup + 1
      /\ Startup \in Nat
  BY ConsoleLoginAssumption DEF Fit, Machine
<1>2. Shown(m.window, "marker") BY <1>1, ShowsIs
<1> DEFINE p == Progress(m)
<1>3. p \in Machine /\ p.spent # Attempts /\ p.next = m.next BY <1>1, ProgressFit
<1> HIDE DEF p
<1>4. CASE p.next > Startup
  <2>1. NextCommand(p) = [m |-> EnterStep(p, "ready"), act |-> "done", line |-> <<>>]
    BY <1>4 DEF NextCommand
  <2>2. EnterStep(p, "ready") = Write(p, <<>>, "ready").m /\ "ready" \in LoginSteps
    BY DEF Write, LoginSteps
  <2>3. /\ Fit(EnterStep(p, "ready")) /\ EnterStep(p, "ready").next = m.next
        /\ EnterStep(p, "ready").step = "ready" /\ EnterStep(p, "ready").window = <<>>
    BY <1>3, <2>2, WriteFit
  <2> QED BY <1>2, <2>1, <2>3 DEF Finishes, p
<1>5. CASE ~(p.next > Startup)
  <2> DEFINE q == [p EXCEPT !.next = @ + 1]
  <2>1. NextCommand(p) = Write(q, <<"command", p.next>>, "startup")
    BY <1>5 DEF NextCommand
  <2>2. q \in Machine /\ q.spent # Attempts /\ q.next = m.next + 1
    BY <1>1, <1>3, <1>5 DEF Machine
  <2>3. "startup" \in LoginSteps /\ m.next \in 1 .. Startup
    BY <1>1, <1>3, <1>5 DEF LoginSteps
  <2> HIDE DEF q
  <2> QED BY <1>2, <1>3, <2>1, <2>2, <2>3, WriteFit DEF Commands, p
<1> QED BY <1>4, <1>5 DEF p

LEMMA AfterUserAnswers ==
  ASSUME NEW m, Fit(m), m.step = "user"
  PROVE  /\ Fit(AfterUser(m).m)
         /\ \/ AfterUser(m) = Nothing(m)
            \/ Signs(AfterUser(m), m, m.window) \/ Finishes(AfterUser(m), m, m.window)
<1>1. m \in Machine /\ m.window \in Seq(Pieces) /\ m.spent # Attempts BY DEF Fit, Machine
<1>2. CASE Shows(m, "password")
  <2>1. AfterUser(m) = Write(Progress(m), <<"secret", 0>>, "password")
    BY <1>2 DEF AfterUser, SendSecret
  <2>2. Shown(m.window, "password") /\ "password" \in LoginSteps
    BY <1>1, <1>2, ShowsIs DEF LoginSteps
  <2> QED BY <1>1, <2>1, <2>2, ProgressFit, WriteFit DEF Signs
<1>3. CASE ~Shows(m, "password") /\ ~Shows(m, "login") BY <1>3, NothingIs DEF AfterUser
<1>4. CASE ~Shows(m, "password") /\ Shows(m, "login")
  <2>1. Shown(m.window, "login") /\ "user" \in LoginSteps
    BY <1>1, <1>4, ShowsIs DEF LoginSteps
  <2> DEFINE s == [m EXCEPT !.spent = @ + 1]
  <2>2. AfterUser(m) = IF s.spent >= Attempts THEN Fail(s) ELSE Write(s, <<"user", 0>>, "user")
    BY <1>4 DEF AfterUser, SendUser
  <2>3. s \in Machine /\ s.window = m.window /\ s.next = m.next BY <1>1, SpendFit
  <2>4. ~(s.spent >= Attempts) => s.spent # Attempts
    BY <1>1, <2>3, ConsoleLoginAssumption DEF Machine
  <2> HIDE DEF s
  <2>5. CASE s.spent >= Attempts BY <2>1, <2>2, <2>3, <2>5, FailFit DEF Finishes
  <2>6. CASE ~(s.spent >= Attempts) BY <2>1, <2>2, <2>3, <2>4, <2>6, WriteFit DEF Signs
  <2> QED BY <2>5, <2>6
<1> QED BY <1>2, <1>3, <1>4

LEMMA RecogniseAnswers ==
  ASSUME NEW m, Fit(m)
  PROVE  /\ Fit(Recognise(m).m)
         /\ Recognise(m) = Nothing(m) \/ Answers(Recognise(m), m, m.window)
<1>1. m \in Machine /\ m.step \in LoginSteps /\ m.window \in Seq(Pieces)
  BY DEF Fit, Machine
<1>2. CASE m.step \in {"idle", "probing"} BY <1>2, ClassifyAnswers DEF Recognise, Answers
<1>3. CASE m.step = "confirm"
  BY <1>3, ClassifyAnswers, NextCommandAnswers DEF Recognise, Answers
<1>4. CASE m.step = "user" BY <1>4, AfterUserAnswers DEF Recognise, Answers
<1>5. CASE m.step = "password"
  <2>1. Recognise(m) = IF Shows(m, "login") THEN Fail(m) ELSE Nothing(m)
    BY <1>5 DEF Recognise, AfterPassword
  <2>2. Shows(m, "login") => Shown(m.window, "login") BY <1>1, ShowsIs
  <2> QED BY <1>1, <2>1, <2>2, FailFit, NothingIs DEF Answers, Finishes
<1>6. CASE m.step = "startup"
  BY <1>6, NextCommandAnswers, NothingIs DEF Recognise, Answers
<1>7. CASE m.step \in {"ready", "failed"} BY <1>7, NothingIs DEF Recognise
<1> QED BY <1>1, <1>2, <1>3, <1>4, <1>5, <1>6, <1>7 DEF LoginSteps

LEMMA RestOf ==
  ASSUME NEW w \in Seq(Pieces)
  PROVE  /\ Rest(w) \in Seq(Pieces)
         /\ \A i \in DOMAIN Rest(w) : \E j \in DOMAIN w : Rest(w)[i] = w[j]
<1>1. CASE w # <<>> /\ Last(w)[2] = 1
  <2>1. Len(w) \in DOMAIN w /\ Last(w) = w[Len(w)] /\ Last(w) \in Pieces BY <1>1 DEF Last
  <2>2. Rest(w) = <<Last(w)>> BY <1>1 DEF Rest
  <2> QED BY <2>1, <2>2
<1>2. CASE ~(w # <<>> /\ Last(w)[2] = 1) BY <1>2 DEF Rest
<1> QED BY <1>1, <1>2

\* Fed, the machine sees a restart first, and keeps of a window it does not know no
\* more than a first half.
LEMMA FeedAnswers ==
  ASSUME NEW m, Fit(m), NEW chunk \in Seq(Pieces)
  PROVE  LET r == Feed(m, chunk)
             w == m.window \o chunk
         IN  \/ r.act = "reboot" /\ Shown(w, "restart")
             \/ Fit(r.m) /\ Waits(r, m) /\ r.m.window = Rest(w)
             \/ Fit(r.m) /\ Answers(r, m, w)
<1> DEFINE w == m.window \o chunk
           f == [m EXCEPT !.window = @ \o chunk]
           r == Feed(m, chunk)
<1>1. m \in Machine /\ w \in Seq(Pieces) BY DEF Fit, Machine
<1>2. Fit(f) /\ f.window = w /\ f.next = m.next /\ f.step = m.step
  BY <1>1 DEF Fit, Machine
<1>3. CASE f.step # "failed" /\ Shows(f, "restart")
  <2>1. r = [m |-> [f EXCEPT !.window = <<>>], act |-> "reboot", line |-> <<>>]
    BY <1>3 DEF Feed
  <2>2. Shown(f.window, "restart") BY <1>1, <1>2, <1>3, ShowsIs
  <2>3. r.act = "reboot" BY <2>1
  <2> QED BY <1>2, <2>2, <2>3
<1>4. CASE ~(f.step # "failed" /\ Shows(f, "restart"))
  <2> DEFINE s == Recognise(f)
  <2>1. r = IF s.act = "wait" THEN [s EXCEPT !.m.window = Rest(@)] ELSE s BY <1>4 DEF Feed
  <2>2. Fit(s.m) /\ (s = Nothing(f) \/ Answers(s, f, w)) BY <1>2, RecogniseAnswers
  <2> HIDE DEF s, f, w, r
  <2>3. CASE s = Nothing(f)
    <3>1. r = [Nothing(f) EXCEPT !.m.window = Rest(@)] BY <2>1, <2>3, NothingIs
    <3>2. r.act = "wait" /\ r.m = [f EXCEPT !.window = Rest(@)] BY <3>1 DEF Nothing
    <3>3. Rest(w) \in Seq(Pieces) BY <1>1, RestOf
    <3>4. Fit(r.m) /\ r.m.window = Rest(w) /\ r.m.next = m.next /\ r.m.step = m.step
      BY <1>2, <3>2, <3>3 DEF Fit, Machine
    <3> QED BY <3>2, <3>4 DEF Waits, r, w
  <2>4. CASE Answers(s, f, w)
    <3>1. s.act # "wait" BY <2>4 DEF Answers, Signs, Commands, Finishes
    <3>2. r = s BY <2>1, <3>1
    <3>3. Answers(r, m, w) BY <1>2, <2>4, <3>2 DEF Answers, Signs, Commands, Finishes
    <3> QED BY <2>2, <3>2, <3>3 DEF r, w
  <2> QED BY <2>2, <2>3, <2>4
<1> QED BY <1>3, <1>4

\* A tick writes a newline or a probe, at the start or late.
LEMMA TickAnswers ==
  ASSUME NEW m, Fit(m), NEW late \in BOOLEAN
  PROVE  LET r == Tick(m, late)
         IN  /\ Fit(r.m) /\ r.m.next = m.next
             /\ \/ Waits(r, m) /\ r.m.window = m.window
                \/ /\ r.act = "write" /\ r.m.window = <<>> /\ r.m.step # "idle"
                   /\ r.line \in {<<"newline", 0>>, <<"probe", 0>>}
                   /\ m.step = "idle" \/ late
                \/ r.act = "fail" /\ r.m.window = m.window /\ r.m.step = "failed" /\ late
<1> DEFINE r == Tick(m, late)
<1>1. m \in Machine /\ {"probing", "confirm"} \subseteq LoginSteps
  BY DEF Fit, Machine, LoginSteps
<1>2. CASE m.step \in {"ready", "failed"} BY <1>2, NothingIs DEF Tick, Waits
<1>3. CASE m.step = "idle"
  <2>1. r = Write(m, <<"newline", 0>>, "probing") /\ m.spent # Attempts
    BY <1>3 DEF Tick, SendNewline, Fit
  <2> QED BY <1>1, <1>3, <2>1, WriteFit
<1>4. CASE m.step \notin {"ready", "failed", "idle"} /\ ~late
  BY <1>4, NothingIs DEF Tick, Waits
<1>5. CASE m.step \notin {"ready", "failed", "idle"} /\ late
  <2> DEFINE s == [m EXCEPT !.spent = @ + 1]
  <2>1. r = IF s.spent >= Attempts THEN Fail(s) ELSE Guess(s) BY <1>5 DEF Tick
  <2>2. m.spent # Attempts BY <1>5 DEF Fit
  <2>3. s \in Machine /\ s.window = m.window /\ s.next = m.next /\ s.step = m.step
    BY <1>1, <2>2, SpendFit
  <2>4. ~(s.spent >= Attempts) => s.spent # Attempts
    BY <2>3, ConsoleLoginAssumption DEF Machine
  <2>5. Guess(s) = IF s.step = "startup" THEN Nothing(s)
                   ELSE IF s.step = "confirm" THEN Write(s, <<"newline", 0>>, "probing")
                   ELSE Write(s, <<"probe", 0>>, "confirm")
    BY DEF Guess, SendNewline, SendProbe
  <2> HIDE DEF s, r
  <2>6. CASE s.spent >= Attempts BY <1>5, <2>1, <2>3, <2>6, FailFit DEF r
  <2>7. CASE ~(s.spent >= Attempts) /\ s.step = "startup"
    BY <2>1, <2>3, <2>4, <2>5, <2>7, NothingIs DEF Waits, Fit, r
  <2>8. CASE ~(s.spent >= Attempts) /\ s.step # "startup"
    <3>0. s.spent # Attempts BY <2>4, <2>8
    <3>1. CASE s.step = "confirm"
      <4>1. r = Write(s, <<"newline", 0>>, "probing") BY <2>1, <2>5, <2>8, <3>1
      <4>2. /\ Fit(r.m) /\ r.act = "write" /\ r.line = <<"newline", 0>>
            /\ r.m.window = <<>> /\ r.m.next = m.next /\ r.m.step = "probing"
        BY <1>1, <2>3, <3>0, <4>1, WriteFit
      <4> QED BY <1>5, <4>2 DEF r
    <3>2. CASE s.step # "confirm"
      <4>1. r = Write(s, <<"probe", 0>>, "confirm") BY <2>1, <2>5, <2>8, <3>2
      <4>2. /\ Fit(r.m) /\ r.act = "write" /\ r.line = <<"probe", 0>>
            /\ r.m.window = <<>> /\ r.m.next = m.next /\ r.m.step = "confirm"
        BY <1>1, <2>3, <3>0, <4>1, WriteFit
      <4> QED BY <1>5, <4>2 DEF r
    <3> QED BY <3>1, <3>2
  <2> QED BY <2>6, <2>7, <2>8
<1> QED BY <1>2, <1>3, <1>4, <1>5

-----------------------------------------------------------------------------
(* One turn of the loop *)

\* What a turn does with the last move r of the machine, n pieces having arrived.
Turn(r, n, timed) ==
  /\ hasty' = (hasty \/ (timed /\ Owed))
  /\ printed' = SubSeq(printed, n + 1, Len(printed))
  /\ machine' = IF r.act = "reboot" THEN Fresh ELSE r.m
  /\ ran' = IF r.act = "reboot" THEN <<>> ELSE ran
  /\ sent' = IF r.act = "write" THEN Append(sent, [line |-> r.line, by |-> signIns]) ELSE sent
  /\ outcome' = CASE r.act = "done" -> "in" [] r.act = "fail" -> "refused" [] OTHER -> "going"

\* Where nothing arrived; timed says that a step timed out.
Ticked(r, timed) ==
  /\ Fit(r.m) /\ r.m.next = machine.next
  /\ \/ Waits(r, machine) /\ r.m.window = machine.window
     \/ /\ r.act = "write" /\ r.m.window = <<>> /\ r.m.step # "idle"
        /\ r.line \in {<<"newline", 0>>, <<"probe", 0>>}
        /\ (machine.step = "idle" /\ printed = <<>>) \/ timed
     \/ r.act = "fail" /\ r.m.window = machine.window /\ r.m.step = "failed" /\ timed

\* Where w arrived: m is the machine as the tick left it.
Left(m, timed) == /\ Fit(m) /\ m.next = machine.next /\ m.window \in {machine.window, <<>>}
                  /\ timed \/ (m.window = machine.window /\ m.step = machine.step)
Fed(r, m, w)   == \/ r.act = "reboot" /\ Shown(w, "restart")
                  \/ Fit(r.m) /\ Waits(r, m) /\ r.m.window = Rest(w)
                  \/ Fit(r.m) /\ Answers(r, m, w)

LEMMA TurnIs ==
  ASSUME Fit(machine), printed \in Seq(Pieces), LoginTurn
  PROVE  \E timed \in BOOLEAN :
           \/ \E r : Turn(r, 0, timed) /\ Ticked(r, timed)
           \/ \E n \in 1 .. Len(printed) : \E r, m :
                 Turn(r, n, timed) /\ Left(m, timed) /\ Fed(r, m, m.window \o SubSeq(printed, 1, n))
<1> DEFINE Timed(late)   == late /\ machine.step # "idle"
           Move(late)    == IF machine.step # "idle" \/ printed = <<>>
                            THEN Tick(machine, Timed(late)) ELSE Nothing(machine)
           Final(late, n) == IF n = 0 THEN Move(late)
                             ELSE Feed(Move(late).m, SubSeq(printed, 1, n))
<1>1. \E late \in BOOLEAN, n \in Arriving : Turn(Final(late, n), n, Timed(late))
  <2>1. \E late \in BOOLEAN, n \in Arriving :
           /\ Timed(late) => ~(prompt /\ Owed)
           /\ n > 0 \/ Move(late).act # "wait" \/ Move(late).m # machine
           /\ Turn(Final(late, n), n, Timed(late))
    BY Zenon DEF LoginTurn, Turn
  <2> QED BY <2>1
<1>0. PICK late \in BOOLEAN, n \in Arriving : Turn(Final(late, n), n, Timed(late)) BY <1>1
<1> DEFINE timed  == Timed(late)
           ticked == Move(late)
           last   == Final(late, n)
<1>2. timed \in BOOLEAN /\ Turn(last, n, timed) BY <1>0
<1>3. Ticked(ticked, timed)
  <2>1. CASE machine.step # "idle" \/ printed = <<>>
    <3> DEFINE r == Tick(machine, timed)
    <3>1. /\ Fit(r.m) /\ r.m.next = machine.next
          /\ \/ Waits(r, machine) /\ r.m.window = machine.window
             \/ /\ r.act = "write" /\ r.m.window = <<>> /\ r.m.step # "idle"
                /\ r.line \in {<<"newline", 0>>, <<"probe", 0>>}
                /\ machine.step = "idle" \/ timed
             \/ r.act = "fail" /\ r.m.window = machine.window /\ r.m.step = "failed" /\ timed
      BY <1>2, TickAnswers
    <3>2. ticked = r BY <2>1
    <3>3. machine.step = "idle" => printed = <<>> BY <2>1
    <3> HIDE DEF r, ticked, timed
    <3> QED BY <3>1, <3>2, <3>3 DEF Ticked
  <2>2. CASE ~(machine.step # "idle" \/ printed = <<>>)
    BY <2>2, NothingIs DEF Ticked, Waits
  <2> QED BY <2>1, <2>2
<1>4. CASE n = 0 BY <1>2, <1>3, <1>4
<1>5. CASE n # 0
  <2>1. /\ n \in 1 .. Len(printed) /\ SubSeq(printed, 1, n) \in Seq(Pieces)
        /\ printed # <<>>
    BY <1>5 DEF Arriving
  <2> DEFINE m == ticked.m
  <2>2. last = Feed(m, SubSeq(printed, 1, n)) BY <1>5
  <2> HIDE DEF last, ticked, timed
  <2>3. Left(m, timed) BY <1>3, <2>1 DEF Ticked, Left, Waits
  <2>4. Fit(m) BY <2>3 DEF Left
  <2> HIDE DEF m
  <2>5. Fed(last, m, m.window \o SubSeq(printed, 1, n))
    BY <2>1, <2>2, <2>4, FeedAnswers DEF Fed
  <2> QED BY <1>2, <2>1, <2>3, <2>5
<1> QED BY <1>4, <1>5

-----------------------------------------------------------------------------
(* The types *)

Orders == [line : Lines, by : 1 .. MaxSignIns]

\* Every machine, in flight too, is fit; no line is of a sign-in still to come.
ConsoleTyped == /\ ConsoleLoginTypeOK /\ Fit(machine)
                /\ \A i \in DOMAIN sent : sent[i].by <= signIns

LEMMA FreshFit == Fit(Fresh) /\ Fresh.step = "idle" /\ Fresh.window = <<>> /\ Fresh.next = 1
<1>1. /\ "idle" \in LoginSteps /\ <<>> \in Seq(Pieces)
      /\ 0 \in 0 .. Attempts /\ 1 \in 1 .. Startup + 1 /\ 0 # Attempts
  BY ConsoleLoginAssumption DEF LoginSteps
<1> QED BY <1>1 DEF Fresh, Fit, Machine

LEMMA HalvesAre ==
  ASSUME NEW text \in Texts
  PROVE  /\ Halves(text) \in Seq(Pieces) /\ Len(Halves(text)) = 2
         /\ Halves(text)[1] = <<text, 1>> /\ Halves(text)[2] = <<text, 2>>
<1>1. <<text, 1>> \in Pieces /\ <<text, 2>> \in Pieces BY DEF Pieces
<1> QED BY <1>1 DEF Halves

LEMMA NoiseIs == Noise \in Seq(Pieces) /\ Len(Noise) = 1 /\ Noise[1] = <<"noise", 0>>
<1>1. <<"noise", 0>> \in Pieces BY DEF Pieces
<1> QED BY <1>1 DEF Noise

\* A turn writes at most one line, and it is of this sign-in.
LEMMA TurnTyped == ConsoleTyped /\ LoginTurn => ConsoleTyped'
<1> SUFFICES ASSUME ConsoleTyped, LoginTurn PROVE ConsoleTyped' OBVIOUS
<1>1. /\ Fit(machine) /\ printed \in Seq(Pieces) /\ sent \in Seq(Orders)
      /\ ran \in Seq(1 .. Startup) /\ signIns \in 1 .. MaxSignIns /\ hasty \in BOOLEAN
      /\ \A i \in DOMAIN sent : sent[i].by <= signIns
  BY DEF ConsoleTyped, ConsoleLoginTypeOK, Orders
<1>2. PICK timed \in BOOLEAN :
        \/ \E r : Turn(r, 0, timed) /\ Ticked(r, timed)
        \/ \E n \in 1 .. Len(printed) : \E r, m :
              Turn(r, n, timed) /\ Left(m, timed) /\ Fed(r, m, m.window \o SubSeq(printed, 1, n))
  BY <1>1, TurnIs
<1>3. \E n \in 0 .. Len(printed) : \E r :
        /\ Turn(r, n, timed)
        /\ r.act = "reboot" \/ Fit(r.m)
        /\ r.act = "write" => r.line \in Lines
  <2>1. ASSUME NEW r, Turn(r, 0, timed), Ticked(r, timed)
        PROVE  Turn(r, 0, timed) /\ Fit(r.m) /\ (r.act = "write" => r.line \in Lines)
    BY <2>1 DEF Ticked, Waits, Lines
  <2>2. ASSUME NEW n \in 1 .. Len(printed), NEW r, NEW m, Turn(r, n, timed), Left(m, timed),
               Fed(r, m, m.window \o SubSeq(printed, 1, n))
        PROVE  /\ n \in 0 .. Len(printed) /\ Turn(r, n, timed)
               /\ r.act = "reboot" \/ Fit(r.m)
               /\ r.act = "write" => r.line \in Lines
    <3>1. r.act = "reboot" => r.act # "write" OBVIOUS
    <3>2. CASE r.act = "reboot" BY <2>2, <3>1, <3>2
    <3>3. CASE Waits(r, m) /\ Fit(r.m) BY <2>2, <3>3 DEF Waits
    <3>4. CASE Signs(r, m, m.window \o SubSeq(printed, 1, n)) /\ Fit(r.m)
      <4>1. <<"user", 0>> \in Lines /\ <<"secret", 0>> \in Lines BY DEF Lines
      <4>2. r.line \in {<<"user", 0>>, <<"secret", 0>>} BY <3>4 DEF Signs
      <4> QED BY <2>2, <3>4, <4>1, <4>2
    <3>5. CASE Commands(r, m, m.window \o SubSeq(printed, 1, n)) /\ Fit(r.m)
      BY <2>2, <3>5 DEF Commands, Lines
    <3>6. CASE Finishes(r, m, m.window \o SubSeq(printed, 1, n)) /\ Fit(r.m)
      BY <2>2, <3>6 DEF Finishes
    <3> QED BY <2>2, <3>2, <3>3, <3>4, <3>5, <3>6 DEF Fed, Answers
  <2> QED BY <1>2, <2>1, <2>2
<1>0. PICK n \in 0 .. Len(printed) : \E r :
        /\ Turn(r, n, timed)
        /\ r.act = "reboot" \/ Fit(r.m)
        /\ r.act = "write" => r.line \in Lines
  BY <1>3
<1>10. PICK r :
         /\ Turn(r, n, timed)
         /\ r.act = "reboot" \/ Fit(r.m)
         /\ r.act = "write" => r.line \in Lines
  BY <1>0
<1>4. Fit(machine') BY <1>10, FreshFit DEF Turn
<1>5. printed' \in Seq(Pieces)
  <2>1. SubSeq(printed, n + 1, Len(printed)) \in Seq(Pieces) BY <1>1, <1>10
  <2> QED BY <1>10, <2>1 DEF Turn
<1>6. sent' \in Seq(Orders) /\ \A i \in DOMAIN sent' : sent'[i].by <= signIns
  <2>1. CASE r.act = "write"
    <3> DEFINE o == [line |-> r.line, by |-> signIns]
    <3>1. o \in Orders /\ o.by = signIns BY <1>1, <1>10, <2>1 DEF Orders
    <3>2. sent' = Append(sent, o) BY <1>10, <2>1 DEF Turn
    <3> HIDE DEF o
    <3> QED BY <1>1, <3>1, <3>2
  <2>2. CASE r.act # "write" BY <1>1, <1>10, <2>2 DEF Turn
  <2> QED BY <2>1, <2>2
<1>7. ran' \in Seq(1 .. Startup)
  <2>1. <<>> \in Seq(1 .. Startup) OBVIOUS
  <2> QED BY <1>1, <1>10, <2>1 DEF Turn
<1>8. outcome' \in {"going", "in", "refused"} /\ hasty' \in BOOLEAN
  BY <1>1, <1>10 DEF Turn
<1>9. UNCHANGED <<far, named, spilled, prompt, early, boots, signIns>> BY DEF LoginTurn
<1> QED
  BY <1>4, <1>5, <1>6, <1>7, <1>8, <1>9
  DEF ConsoleTyped, ConsoleLoginTypeOK, Orders, Fit, Machine

LEMMA FarTyped == ConsoleTyped /\ FarReads => ConsoleTyped'
<1> SUFFICES ASSUME ConsoleTyped, FarReads PROVE ConsoleTyped' OBVIOUS
<1>1. /\ printed \in Seq(Pieces) /\ sent \in Seq(Orders) /\ sent # <<>>
      /\ ran \in Seq(1 .. Startup) /\ {spilled, named} \subseteq BOOLEAN
      /\ \A i \in DOMAIN sent : sent[i].by <= signIns
  BY DEF ConsoleTyped, ConsoleLoginTypeOK, Orders, FarReads
<1>2. sent' \in Seq(Orders) /\ \A i \in DOMAIN sent' : sent'[i].by <= signIns
  BY <1>1 DEF FarReads
<1>3. spilled' \in BOOLEAN /\ named' \in BOOLEAN BY <1>1 DEF FarReads
<1>4. far' \in {"booting", "getty", "asking", "shell"}
  BY DEF FarReads, ConsoleTyped, ConsoleLoginTypeOK
<1>5. printed' \in Seq(Pieces)
  <2>1. /\ printed \o Halves("login") \in Seq(Pieces) /\ printed \o Halves("password") \in Seq(Pieces)
        /\ printed \o Halves("marker") \in Seq(Pieces) /\ printed \o Noise \in Seq(Pieces)
        /\ printed \o Motd \in Seq(Pieces)
    BY <1>1, HalvesAre, NoiseIs, MotdAssumption DEF Texts
  <2> QED BY <1>1, <2>1 DEF FarReads
<1>6. ran' \in Seq(1 .. Startup)
  <2>1. sent[1] \in Orders /\ Head(sent) = sent[1] BY <1>1
  <2>2. sent[1].line[1] = "command" => sent[1].line[2] \in 1 .. Startup
    BY <2>1 DEF Orders, Lines
  <2>3. sent[1].line[1] = "command" => Append(ran, sent[1].line[2]) \in Seq(1 .. Startup)
    BY <1>1, <2>2
  <2> QED BY <1>1, <2>1, <2>3 DEF FarReads
<1>7. UNCHANGED <<machine, outcome, prompt, hasty, early, boots, signIns>> BY DEF FarReads
<1> QED
  BY <1>2, <1>3, <1>4, <1>5, <1>6, <1>7
  DEF ConsoleTyped, ConsoleLoginTypeOK, Orders, Fit, Machine

LEMMA TypedHolds == ConsoleLoginSpec => []ConsoleTyped
<1>1. ConsoleLoginInit => ConsoleTyped
  <2> SUFFICES ASSUME ConsoleLoginInit PROVE ConsoleTyped OBVIOUS
  <2>1. <<>> \in Seq(Orders) /\ <<>> \in Seq(Pieces) /\ <<>> \in Seq(1 .. Startup) OBVIOUS
  <2>2. Fit(machine) /\ sent = <<>> BY FreshFit DEF ConsoleLoginInit
  <2>3. boots \in 0 .. MaxBoots /\ signIns \in 1 .. MaxSignIns
    BY ConsoleLoginAssumption DEF ConsoleLoginInit
  <2>4. {named, spilled, prompt, hasty, early} \subseteq BOOLEAN BY DEF ConsoleLoginInit
  <2> QED
    BY <2>1, <2>2, <2>3, <2>4
    DEF ConsoleLoginInit, ConsoleTyped, ConsoleLoginTypeOK, Orders, Fit, Machine
<1>2. ConsoleTyped /\ [ConsoleLoginNext]_consoleLoginVars => ConsoleTyped'
  <2> SUFFICES ASSUME ConsoleTyped, [ConsoleLoginNext]_consoleLoginVars PROVE ConsoleTyped'
    OBVIOUS
  <2>1. CASE LoginTurn BY <2>1, TurnTyped
  <2>2. CASE Watch
    <3>1. PICK n \in Arriving \ {0} :
            /\ Feed(machine, SubSeq(printed, 1, n)).act = "wait"
            /\ machine' = Feed(machine, SubSeq(printed, 1, n)).m
            /\ printed' = SubSeq(printed, n + 1, Len(printed))
      BY <2>2 DEF Watch
    <3>2. printed \in Seq(Pieces) /\ Fit(machine) /\ n \in 1 .. Len(printed)
      BY <2>2 DEF Watch, ConsoleTyped, ConsoleLoginTypeOK, Arriving
    <3>3. SubSeq(printed, 1, n) \in Seq(Pieces) /\ printed' \in Seq(Pieces) BY <3>1, <3>2
    <3>4. Fit(machine') BY <3>1, <3>2, <3>3, FeedAnswers
    <3>5. UNCHANGED <<outcome, sent, far, named, ran, spilled, prompt, hasty, early, boots, signIns>>
      BY <2>2 DEF Watch
    <3> QED BY <3>3, <3>4, <3>5 DEF ConsoleTyped, ConsoleLoginTypeOK, Fit, Machine
  <2>3. CASE Again
    <3>1. signIns' \in 1 .. MaxSignIns /\ signIns' = signIns + 1 /\ sent' = sent
      BY <2>3, ConsoleLoginAssumption DEF Again, ConsoleTyped, ConsoleLoginTypeOK
    <3>2. sent \in Seq(Orders) /\ signIns \in Nat /\ \A i \in DOMAIN sent : sent[i].by <= signIns
      BY DEF ConsoleTyped, ConsoleLoginTypeOK, Orders
    <3>3. \A i \in DOMAIN sent' : sent'[i].by <= signIns'
      <4> SUFFICES ASSUME NEW i \in DOMAIN sent PROVE sent[i].by <= signIns + 1 BY <3>1
      <4>1. sent[i] \in Orders /\ sent[i].by <= signIns BY <3>2
      <4> QED BY <3>2, <4>1, ConsoleLoginAssumption DEF Orders
    <3>4. ran' \in Seq(1 .. Startup) /\ printed' \in Seq(Pieces) /\ outcome' = "going"
          /\ machine' = Fresh
      BY <2>3 DEF Again
    <3>5. UNCHANGED <<sent, far, named, spilled, prompt, hasty, early, boots>>
      BY <2>3 DEF Again
    <3> QED
      BY <3>1, <3>3, <3>4, <3>5, FreshFit DEF ConsoleTyped, ConsoleLoginTypeOK, Fit, Machine
  <2>4. CASE FarReads BY <2>4, FarTyped
  <2>5. CASE Restart
    <3>1. printed' \in Seq(Pieces)
      BY <2>5, HalvesAre DEF Restart, ConsoleTyped, ConsoleLoginTypeOK, Texts
    <3>2. boots' \in 0 .. MaxBoots /\ far' = "booting" /\ named' = FALSE
      BY <2>5, ConsoleLoginAssumption DEF Restart, ConsoleTyped, ConsoleLoginTypeOK
    <3>3. sent' = <<>> /\ UNCHANGED <<machine, outcome, ran, spilled, prompt, hasty, early, signIns>>
      BY <2>5 DEF Restart
    <3>4. sent' \in Seq(Orders) /\ \A i \in DOMAIN sent' : sent'[i].by <= signIns' BY <3>3
    <3> QED
      BY <3>1, <3>2, <3>3, <3>4 DEF ConsoleTyped, ConsoleLoginTypeOK, Orders, Fit, Machine
  <2>6. CASE Started
    <3>1. printed' \in Seq(Pieces)
      BY <2>6, HalvesAre DEF Started, ConsoleTyped, ConsoleLoginTypeOK, Texts
    <3> QED BY <2>6, <3>1 DEF Started, ConsoleTyped, ConsoleLoginTypeOK, Fit, Machine
  <2>7. CASE UNCHANGED consoleLoginVars
    BY <2>7 DEF consoleLoginVars, ConsoleTyped, ConsoleLoginTypeOK, Fit, Machine
  <2> QED BY <2>1, <2>2, <2>3, <2>4, <2>5, <2>6, <2>7 DEF ConsoleLoginNext
<1> QED BY <1>1, <1>2, PTL DEF ConsoleLoginSpec

\* However the pieces are cut, whatever times out and whenever the board restarts, the
\* machine is at a step of its own, within its budget and its commands, and reads, writes
\* and runs what there is (SerialLoginMachine).
THEOREM ConsoleTypesHold == ConsoleLoginSpec => []ConsoleLoginTypeOK
<1>1. ConsoleTyped => ConsoleLoginTypeOK BY DEF ConsoleTyped
<1> QED BY <1>1, TypedHolds, PTL

-----------------------------------------------------------------------------
(* Sequences without a text, and commands under way *)

Silent(s, text) == \A i \in DOMAIN s : s[i][1] # text

LEMMA SilentJoin ==
  ASSUME NEW a \in Seq(Pieces), NEW b \in Seq(Pieces), NEW text,
         Silent(a, text), Silent(b, text)
  PROVE  Silent(a \o b, text)
<1> SUFFICES ASSUME NEW i \in DOMAIN (a \o b) PROVE (a \o b)[i][1] # text BY DEF Silent
<1>1. CASE i \in DOMAIN a BY <1>1 DEF Silent
<1>2. CASE i \notin DOMAIN a
  <2>1. i - Len(a) \in DOMAIN b /\ (a \o b)[i] = b[i - Len(a)] BY <1>2
  <2> QED BY <2>1 DEF Silent
<1> QED BY <1>1, <1>2

LEMMA SilentParts ==
  ASSUME NEW p \in Seq(Pieces), NEW n \in 0 .. Len(p), NEW text, Silent(p, text)
  PROVE  Silent(SubSeq(p, 1, n), text) /\ Silent(SubSeq(p, n + 1, Len(p)), text)
<1>1. \A i \in DOMAIN SubSeq(p, 1, n) : i \in DOMAIN p /\ SubSeq(p, 1, n)[i] = p[i]
  OBVIOUS
<1>2. \A i \in DOMAIN SubSeq(p, n + 1, Len(p)) :
         i + n \in DOMAIN p /\ SubSeq(p, n + 1, Len(p))[i] = p[i + n]
  OBVIOUS
<1> QED BY <1>1, <1>2 DEF Silent

LEMMA SilentSays ==
  ASSUME NEW w \in Seq(Pieces), NEW text, Silent(w, text)
  PROVE  ~Shown(w, text) /\ Silent(Rest(w), text)
<1>1. ~Shown(w, text) BY DEF Silent, Shown
<1>2. Silent(Rest(w), text) BY RestOf DEF Silent
<1> QED BY <1>1, <1>2

\* What the console prints of itself is of one text.
LEMMA SilentHalves ==
  ASSUME NEW text \in Texts, NEW other \in Texts \cup {"noise"}, text # other
  PROVE  Silent(Halves(text), other) /\ (text # "noise" => Silent(Noise, text))
<1>1. DOMAIN Halves(text) = {1, 2} /\ DOMAIN Noise = {1} BY HalvesAre, NoiseIs
<1> QED BY <1>1, HalvesAre, NoiseIs DEF Silent

\* The commands of one sign-in in s, a queue of lines, are those after last and before
\* next, each once, in order.
Own(s, by, i) == s[i].by = by /\ s[i].line[1] = "command"
Queue(s, by, last, next) ==
  /\ last < next
  /\ \A i \in DOMAIN s : Own(s, by, i) => last < s[i].line[2] /\ s[i].line[2] < next
  /\ \A i, j \in DOMAIN s : i < j /\ Own(s, by, i) /\ Own(s, by, j)
                               => s[i].line[2] < s[j].line[2]
  /\ \A k \in last + 1 .. next - 1 : \E i \in DOMAIN s : Own(s, by, i) /\ s[i].line[2] = k

LEMMA QueueTypes ==
  ASSUME NEW s \in Seq(Orders), NEW by, NEW i \in DOMAIN s, Own(s, by, i)
  PROVE  s[i].line[2] \in 1 .. Startup
<1>1. s[i] \in Orders OBVIOUS
<1> QED BY <1>1 DEF Orders, Lines, Own

LEMMA QueueOther ==
  ASSUME NEW s \in Seq(Orders), NEW by, NEW last \in Nat, NEW next \in Nat,
         Queue(s, by, last, next), NEW o \in Orders, o.line[1] # "command"
  PROVE  Queue(Append(s, o), by, last, next)
<1> DEFINE q == Append(s, o)
<1>1. /\ q \in Seq(Orders) /\ DOMAIN q = 1 .. Len(s) + 1 /\ q[Len(s) + 1] = o
      /\ DOMAIN s = 1 .. Len(s) /\ \A i \in DOMAIN s : q[i] = s[i]
  OBVIOUS
<1> HIDE DEF q
<1>2. \A i \in DOMAIN q : Own(q, by, i) => i \in DOMAIN s BY <1>1 DEF Own
<1>3. \A i \in DOMAIN s : (Own(q, by, i) <=> Own(s, by, i)) /\ q[i].line[2] = s[i].line[2]
                          /\ i \in DOMAIN q
  BY <1>1 DEF Own
<1> QED BY <1>2, <1>3 DEF Queue, q

LEMMA QueueNext ==
  ASSUME NEW s \in Seq(Orders), NEW by, NEW last \in Nat, NEW next \in Nat,
         Queue(s, by, last, next), NEW o \in Orders, o.line = <<"command", next>>, o.by = by
  PROVE  Queue(Append(s, o), by, last, next + 1)
<1> DEFINE q == Append(s, o)
           e == Len(s) + 1
<1>1. /\ q \in Seq(Orders) /\ DOMAIN q = 1 .. e /\ q[e] = o /\ e \in Nat \ {0}
      /\ DOMAIN s = 1 .. e - 1 /\ \A i \in DOMAIN s : q[i] = s[i]
  OBVIOUS
<1> HIDE DEF q, e
<1>2. Own(q, by, e) /\ q[e].line[2] = next BY <1>1 DEF Own
<1>3. \A i \in DOMAIN q : i = e \/ i \in DOMAIN s BY <1>1
<1>4. \A i \in DOMAIN s : (Own(q, by, i) <=> Own(s, by, i)) /\ q[i].line[2] = s[i].line[2]
                          /\ i \in DOMAIN q /\ i < e
  BY <1>1 DEF Own
<1>5. \A i \in DOMAIN q : Own(q, by, i) => q[i].line[2] \in Nat
  BY <1>1, QueueTypes, ConsoleLoginAssumption
<1>6. \A i \in DOMAIN q : Own(q, by, i) => last < q[i].line[2] /\ q[i].line[2] < next + 1
  BY <1>2, <1>3, <1>4, <1>5 DEF Queue
<1>7. \A i, j \in DOMAIN q : i < j /\ Own(q, by, i) /\ Own(q, by, j)
                                => q[i].line[2] < q[j].line[2]
  <2> SUFFICES ASSUME NEW i \in DOMAIN q, NEW j \in DOMAIN q, i < j, Own(q, by, i), Own(q, by, j)
               PROVE  q[i].line[2] < q[j].line[2]
    OBVIOUS
  <2>1. i \in DOMAIN s BY <1>1
  <2>2. CASE j = e BY <1>2, <1>4, <2>1, <2>2 DEF Queue
  <2>3. CASE j \in DOMAIN s BY <1>4, <2>1, <2>3 DEF Queue
  <2> QED BY <1>3, <2>2, <2>3
<1>8. \A k \in last + 1 .. next + 1 - 1 : \E i \in DOMAIN q : Own(q, by, i) /\ q[i].line[2] = k
  <2> SUFFICES ASSUME NEW k \in last + 1 .. next
               PROVE  \E i \in DOMAIN q : Own(q, by, i) /\ q[i].line[2] = k
    OBVIOUS
  <2>1. CASE k = next
    <3>1. e \in DOMAIN q BY <1>1
    <3> QED BY <1>2, <2>1, <3>1
  <2>2. CASE k # next
    <3>1. PICK i \in DOMAIN s : Own(s, by, i) /\ s[i].line[2] = k BY <2>2 DEF Queue
    <3> QED BY <1>4, <3>1
  <2> QED BY <2>1, <2>2
<1> QED BY <1>6, <1>7, <1>8 DEF Queue, q

\* The first to be read of a sign-in's commands is the one after the last that ran.
LEMMA QueueHead ==
  ASSUME NEW s \in Seq(Orders), s # <<>>, NEW by, NEW last \in Nat, NEW next \in Nat,
         Queue(s, by, last, next)
  PROVE  /\ Own(s, by, 1) => s[1].line[2] = last + 1 /\ Queue(Tail(s), by, last + 1, next)
         /\ ~Own(s, by, 1) => Queue(Tail(s), by, last, next)
<1> DEFINE q == Tail(s)
<1>1. /\ q \in Seq(Orders) /\ Len(s) \in Nat \ {0} /\ DOMAIN s = 1 .. Len(s)
      /\ DOMAIN q = 1 .. Len(s) - 1 /\ \A i \in DOMAIN q : q[i] = s[i + 1]
  OBVIOUS
<1> HIDE DEF q
<1>2. \A i \in DOMAIN q : i + 1 \in DOMAIN s /\ (Own(q, by, i) <=> Own(s, by, i + 1))
                          /\ q[i].line[2] = s[i + 1].line[2]
  BY <1>1 DEF Own
<1>3. \A i \in DOMAIN s : i # 1 => i - 1 \in DOMAIN q /\ (i - 1) + 1 = i BY <1>1
<1>4. \A i \in DOMAIN s : Own(s, by, i) => s[i].line[2] \in Nat
  BY <1>1, QueueTypes, ConsoleLoginAssumption
<1>5. 1 \in DOMAIN s BY <1>1
<1>6. \A i, j \in DOMAIN q : i < j /\ Own(q, by, i) /\ Own(q, by, j)
                                => q[i].line[2] < q[j].line[2]
  <2> SUFFICES ASSUME NEW i \in DOMAIN q, NEW j \in DOMAIN q, i < j, Own(q, by, i), Own(q, by, j)
               PROVE  q[i].line[2] < q[j].line[2]
    OBVIOUS
  <2>1. i + 1 \in DOMAIN s /\ j + 1 \in DOMAIN s /\ i + 1 < j + 1 BY <1>1, <1>2
  <2> QED BY <1>2, <2>1 DEF Queue
<1>7. CASE Own(s, by, 1)
  <2>1. s[1].line[2] \in last + 1 .. next - 1 BY <1>4, <1>5, <1>7 DEF Queue
  <2>2. s[1].line[2] = last + 1
    <3>0. last + 1 \in last + 1 .. next - 1 BY <2>1
    <3>1. PICK i \in DOMAIN s : Own(s, by, i) /\ s[i].line[2] = last + 1 BY <3>0 DEF Queue
    <3>2. CASE i # 1
      <4>1. s[1].line[2] < s[i].line[2] BY <1>1, <1>5, <1>7, <3>1, <3>2 DEF Queue
      <4> QED BY <2>1, <3>1, <4>1
    <3> QED BY <3>1, <3>2
  <2>3. \A i \in DOMAIN q : Own(q, by, i) => last + 1 < q[i].line[2] /\ q[i].line[2] < next
    <3> SUFFICES ASSUME NEW i \in DOMAIN q, Own(q, by, i)
                 PROVE  last + 1 < q[i].line[2] /\ q[i].line[2] < next
      OBVIOUS
    <3>1. i + 1 \in DOMAIN s /\ 1 < i + 1 /\ Own(s, by, i + 1) BY <1>1, <1>2
    <3>2. s[1].line[2] < s[i + 1].line[2] /\ s[i + 1].line[2] < next
      BY <1>5, <1>7, <3>1 DEF Queue
    <3> QED BY <1>2, <2>2, <3>2
  <2>4. \A k \in last + 1 + 1 .. next - 1 : \E i \in DOMAIN q : Own(q, by, i) /\ q[i].line[2] = k
    <3> SUFFICES ASSUME NEW k \in last + 1 + 1 .. next - 1
                 PROVE  \E i \in DOMAIN q : Own(q, by, i) /\ q[i].line[2] = k
      OBVIOUS
    <3>1. PICK i \in DOMAIN s : Own(s, by, i) /\ s[i].line[2] = k BY DEF Queue
    <3>2. i # 1 BY <2>2, <3>1
    <3> QED BY <1>2, <1>3, <3>1, <3>2
  <2>5. last + 1 < next BY <2>1
  <2> QED BY <1>6, <1>7, <2>2, <2>3, <2>4, <2>5 DEF Queue, q
<1>8. CASE ~Own(s, by, 1)
  <2>1. \A i \in DOMAIN q : Own(q, by, i) => last < q[i].line[2] /\ q[i].line[2] < next
    BY <1>2 DEF Queue
  <2>2. \A k \in last + 1 .. next - 1 : \E i \in DOMAIN q : Own(q, by, i) /\ q[i].line[2] = k
    <3> SUFFICES ASSUME NEW k \in last + 1 .. next - 1
                 PROVE  \E i \in DOMAIN q : Own(q, by, i) /\ q[i].line[2] = k
      OBVIOUS
    <3>1. PICK i \in DOMAIN s : Own(s, by, i) /\ s[i].line[2] = k BY DEF Queue
    <3>2. i # 1 BY <1>8, <3>1
    <3> QED BY <1>2, <1>3, <3>1, <3>2
  <2>3. last < next BY DEF Queue
  <2> QED BY <1>6, <1>8, <2>1, <2>2, <2>3 DEF Queue, q
<1> QED BY <1>7, <1>8

LEMMA QueueNew ==
  ASSUME NEW s \in Seq(Orders), NEW by, \A i \in DOMAIN s : s[i].by # by
  PROVE  Queue(s, by, 0, 1)
  BY DEF Queue, Own

-----------------------------------------------------------------------------
(* A startup command runs once, and in its turn *)

\* Without a restart: a marker comes from a shell; what ran and what is under way are the
\* commands of this sign-in up to the one the machine writes next.
InTurn ==
  boots = 0 =>
    /\ Silent(machine.window, "restart") /\ Silent(printed, "restart")
    /\ \/ far = "shell"
       \/ Silent(machine.window, "marker") /\ Silent(printed, "marker") /\ machine.next = 1
    /\ \A i \in DOMAIN ran : ran[i] = i
    /\ Queue(sent, signIns, Len(ran), machine.next)

\* What a turn neither finds nor is given does not appear in it.
LEMMA TurnSilent ==
  ASSUME Fit(machine), printed \in Seq(Pieces), NEW text,
         Silent(machine.window, text), Silent(printed, text),
         NEW timed, NEW n \in 1 .. Len(printed), NEW r, NEW m, Turn(r, n, timed), Left(m, timed),
         Fed(r, m, m.window \o SubSeq(printed, 1, n))
  PROVE  /\ ~Shown(m.window \o SubSeq(printed, 1, n), text)
         /\ Silent(printed', text)
         /\ r.act # "reboot" => Silent(r.m.window, text)
<1> DEFINE w == m.window \o SubSeq(printed, 1, n)
<1>1. m.window \in Seq(Pieces) /\ Silent(m.window, text) BY DEF Left, Fit, Machine, Silent
<1>2. SubSeq(printed, 1, n) \in Seq(Pieces) /\ n \in 0 .. Len(printed) OBVIOUS
<1>3. Silent(SubSeq(printed, 1, n), text) /\ Silent(SubSeq(printed, n + 1, Len(printed)), text)
  BY <1>2, SilentParts
<1>4. w \in Seq(Pieces) BY <1>1, <1>2
<1>8. Silent(w, text) BY <1>1, <1>2, <1>3, SilentJoin
<1>9. Silent(<<>>, text) BY DEF Silent
<1>5. ~Shown(w, text) /\ Silent(Rest(w), text) /\ Silent(<<>>, text)
  <2> HIDE DEF w
  <2> QED BY <1>4, <1>8, <1>9, SilentSays
<1>6. printed' = SubSeq(printed, n + 1, Len(printed)) BY DEF Turn
<1> HIDE DEF w
<1>7. r.act # "reboot" => r.m.window \in {w, Rest(w), <<>>}
  BY DEF w, Fed, Answers, Signs, Commands, Finishes
<1> QED BY <1>3, <1>5, <1>6, <1>7, <1>8 DEF w

LEMMA TurnInTurn == ConsoleTyped /\ InTurn /\ LoginTurn => InTurn'
<1> SUFFICES ASSUME ConsoleTyped, InTurn, LoginTurn, boots = 0 PROVE InTurn'
  BY DEF InTurn, LoginTurn
<1>1. /\ Fit(machine) /\ printed \in Seq(Pieces) /\ sent \in Seq(Orders)
      /\ ran \in Seq(1 .. Startup) /\ signIns \in 1 .. MaxSignIns
      /\ machine.next \in Nat /\ Len(ran) \in Nat
  BY ConsoleLoginAssumption DEF ConsoleTyped, ConsoleLoginTypeOK, Orders, Fit, Machine
<1>2. /\ Silent(machine.window, "restart") /\ Silent(printed, "restart")
      /\ \/ far = "shell"
         \/ Silent(machine.window, "marker") /\ Silent(printed, "marker") /\ machine.next = 1
      /\ \A i \in DOMAIN ran : ran[i] = i
      /\ Queue(sent, signIns, Len(ran), machine.next)
  BY DEF InTurn
<1>3. UNCHANGED <<far, boots, signIns>> BY DEF LoginTurn
<1>4. ASSUME NEW timed, NEW r, NEW n, Turn(r, n, timed), r.act # "reboot",
             r.act = "write" => r.line \in Lines,
             \/ r.act = "write" /\ r.line = <<"command", machine.next>>
                  /\ r.m.next = machine.next + 1
             \/ r.m.next = machine.next /\ (r.act = "write" => r.line[1] # "command")
      PROVE  /\ machine' = r.m /\ ran' = ran
             /\ Queue(sent', signIns', Len(ran'), machine'.next)
  <2>1. machine' = r.m /\ ran' = ran BY <1>4 DEF Turn
  <2> DEFINE o == [line |-> r.line, by |-> signIns]
  <2>2. CASE r.act # "write"
    <3>1. sent' = sent BY <1>4, <2>2 DEF Turn
    <3> QED BY <1>2, <1>3, <1>4, <2>1, <2>2, <3>1
  <2>3. CASE r.act = "write"
    <3>1. sent' = Append(sent, o) BY <1>4, <2>3 DEF Turn
    <3>2. o \in Orders /\ o.line = r.line /\ o.by = signIns BY <1>1, <1>4, <2>3 DEF Orders
    <3> HIDE DEF o
    <3>3. CASE r.line = <<"command", machine.next>> /\ r.m.next = machine.next + 1
      BY <1>1, <1>2, <1>3, <2>1, <3>1, <3>2, <3>3, QueueNext
    <3>4. CASE r.m.next = machine.next /\ r.line[1] # "command"
      BY <1>1, <1>2, <1>3, <2>1, <3>1, <3>2, <3>4, QueueOther
    <3> QED BY <1>4, <2>3, <3>3, <3>4
  <2> QED BY <2>1, <2>2, <2>3
<1>5. PICK timed \in BOOLEAN :
        \/ \E r : Turn(r, 0, timed) /\ Ticked(r, timed)
        \/ \E n \in 1 .. Len(printed) : \E r, m :
              Turn(r, n, timed) /\ Left(m, timed) /\ Fed(r, m, m.window \o SubSeq(printed, 1, n))
  BY <1>1, TurnIs
<1>6. ASSUME NEW r, Turn(r, 0, timed), Ticked(r, timed) PROVE InTurn'
  <2>1. /\ r.act # "reboot" /\ r.m.next = machine.next /\ r.m.window \in {machine.window, <<>>}
        /\ r.act = "write" => r.line \in {<<"newline", 0>>, <<"probe", 0>>}
    BY <1>6 DEF Ticked, Waits
  <2>2. r.act = "write" => r.line \in Lines /\ r.line[1] # "command" BY <2>1 DEF Lines
  <2>3. machine' = r.m /\ ran' = ran /\ Queue(sent', signIns', Len(ran'), machine'.next)
    BY <1>4, <1>6, <2>1, <2>2
  <2>4. printed' = printed BY <1>1, <1>6 DEF Turn
  <2>5. \A text \in {"restart", "marker"} :
          Silent(machine.window, text) => Silent(machine'.window, text)
    BY <2>1, <2>3 DEF Silent
  <2> QED BY <1>2, <1>3, <2>1, <2>3, <2>4, <2>5 DEF InTurn
<1>7. ASSUME NEW n \in 1 .. Len(printed), NEW r, NEW m, Turn(r, n, timed), Left(m, timed),
             Fed(r, m, m.window \o SubSeq(printed, 1, n))
      PROVE  InTurn'
  <2> DEFINE w == m.window \o SubSeq(printed, 1, n)
  <2>1. ~Shown(w, "restart") /\ Silent(printed', "restart")
        /\ (r.act # "reboot" => Silent(r.m.window, "restart"))
    BY <1>1, <1>2, <1>7, TurnSilent
  <2>2. Silent(machine.window, "marker") /\ Silent(printed, "marker")
          => /\ ~Shown(w, "marker") /\ Silent(printed', "marker")
             /\ (r.act # "reboot" => Silent(r.m.window, "marker"))
    BY <1>1, <1>7, TurnSilent
  <2>3. r.act # "reboot" /\ (Waits(r, m) \/ Answers(r, m, w)) /\ m.next = machine.next
    <3>1. (Fit(r.m) /\ Waits(r, m)) \/ Answers(r, m, w) BY <1>7, <2>1 DEF Fed
    <3> QED BY <1>7, <3>1 DEF Left, Waits, Answers, Signs, Commands, Finishes
  <2> HIDE DEF w
  <2>4. /\ r.act = "write" => r.line \in Lines
        /\ \/ r.act = "write" /\ r.line = <<"command", machine.next>>
                /\ r.m.next = machine.next + 1 /\ Shown(w, "marker")
           \/ r.m.next = machine.next /\ (r.act = "write" => r.line[1] # "command")
    <3>1. CASE Waits(r, m) BY <2>3, <3>1 DEF Waits
    <3>2. CASE Signs(r, m, w)
      <4>1. <<"user", 0>> \in Lines /\ <<"secret", 0>> \in Lines BY DEF Lines
      <4> QED BY <2>3, <3>2, <4>1 DEF Signs
    <3>3. CASE Commands(r, m, w)
      <4>1. r.line \in Lines BY <3>3 DEF Commands, Lines
      <4> QED BY <2>3, <3>3, <4>1 DEF Commands
    <3>4. CASE Finishes(r, m, w) BY <2>3, <3>4 DEF Finishes
    <3> QED BY <2>3, <3>1, <3>2, <3>3, <3>4 DEF Answers
  <2>5. machine' = r.m /\ ran' = ran /\ Queue(sent', signIns', Len(ran'), machine'.next)
    BY <1>4, <1>7, <2>3, <2>4
  <2> QED BY <1>2, <1>3, <2>1, <2>2, <2>3, <2>4, <2>5 DEF InTurn
<1> QED BY <1>5, <1>6, <1>7

\* The far end says a marker in a shell only, and a restart only when it restarts.
LEMMA FarInTurn ==
  ASSUME Silent(Motd, "marker"), Silent(Motd, "restart"), ConsoleTyped, InTurn, FarReads
  PROVE  InTurn'
<1> SUFFICES ASSUME boots = 0 PROVE InTurn' BY DEF InTurn, FarReads
<1>1. /\ printed \in Seq(Pieces) /\ sent \in Seq(Orders) /\ sent # <<>>
      /\ ran \in Seq(1 .. Startup) /\ machine.next \in Nat /\ Len(ran) \in Nat
  BY ConsoleLoginAssumption
  DEF ConsoleTyped, ConsoleLoginTypeOK, Orders, Fit, Machine, FarReads
<1>2. /\ Silent(machine.window, "restart") /\ Silent(printed, "restart")
      /\ \/ far = "shell"
         \/ Silent(machine.window, "marker") /\ Silent(printed, "marker") /\ machine.next = 1
      /\ \A i \in DOMAIN ran : ran[i] = i
      /\ Queue(sent, signIns, Len(ran), machine.next)
  BY DEF InTurn
<1>3. UNCHANGED <<machine, boots, signIns>> /\ sent' = Tail(sent) /\ Head(sent) = sent[1]
  BY <1>1 DEF FarReads
<1>4. \E said \in {<<>>, Halves("login"), Halves("password"), Halves("marker"), Noise, Motd} :
         printed' = printed \o said /\ (said = Halves("marker") => far = "shell")
  <2>2. CASE far # "shell"
    <3>1. /\ <<>> # Halves("marker") /\ Halves("login") # Halves("marker")
          /\ Halves("password") # Halves("marker")
      BY DEF Halves
    <3>2. \E said \in {<<>>, Halves("login"), Halves("password"), Motd} :
            printed' = printed \o said
      BY <2>2, <3>1 DEF FarReads
    <3>3. Motd # Halves("marker")
      <4>1. Silent(Motd, "marker") /\ ~Silent(Halves("marker"), "marker")
        BY HalvesAre DEF Texts, Silent
      <4> QED BY <4>1
    <3> QED BY <3>1, <3>2, <3>3
  <2>3. CASE far = "shell" BY <2>3 DEF FarReads
  <2> QED BY <2>2, <2>3
<1>5. PICK said \in {<<>>, Halves("login"), Halves("password"), Halves("marker"), Noise, Motd} :
         printed' = printed \o said /\ (said = Halves("marker") => far = "shell")
  BY <1>4
<1>6. /\ said \in Seq(Pieces) /\ Silent(said, "restart")
      /\ far = "shell" \/ Silent(said, "marker")
  <2>1. Silent(<<>>, "restart") /\ Silent(<<>>, "marker") BY DEF Silent
  <2>2. /\ Silent(Halves("login"), "restart") /\ Silent(Halves("login"), "marker")
        /\ Silent(Halves("password"), "restart") /\ Silent(Halves("password"), "marker")
        /\ Silent(Halves("marker"), "restart")
        /\ Silent(Noise, "restart") /\ Silent(Noise, "marker")
    BY SilentHalves DEF Texts
  <2>3. /\ Halves("login") \in Seq(Pieces) /\ Halves("password") \in Seq(Pieces)
        /\ Halves("marker") \in Seq(Pieces) /\ <<>> \in Seq(Pieces)
    BY HalvesAre DEF Texts
  <2> QED BY <1>5, <2>1, <2>2, <2>3, NoiseIs, MotdAssumption
<1>7. Silent(printed', "restart") BY <1>1, <1>2, <1>5, <1>6, SilentJoin
<1>8. far = "shell" => far' = "shell" BY DEF FarReads
<1>9. far # "shell" => Silent(printed', "marker") BY <1>1, <1>2, <1>5, <1>6, SilentJoin
<1>10. /\ \A i \in DOMAIN ran' : ran'[i] = i
       /\ Queue(sent', signIns, Len(ran'), machine.next)
  <2>1. CASE Own(sent, signIns, 1)
    <3>1. sent[1].line[2] = Len(ran) + 1 /\ Queue(Tail(sent), signIns, Len(ran) + 1, machine.next)
      BY <1>1, <1>2, <2>1, QueueHead
    <3>2. far = "shell" BY <1>1, <1>2, <3>1 DEF Queue
    <3>3. ran' = Append(ran, sent[1].line[2]) BY <1>3, <2>1, <3>2 DEF FarReads, Own
    <3> QED BY <1>1, <1>2, <1>3, <3>1, <3>3
  <2>2. CASE ~Own(sent, signIns, 1)
    <3>1. ran' = ran BY <1>3, <2>2 DEF FarReads, Own
    <3> QED BY <1>1, <1>2, <1>3, <2>2, <3>1, QueueHead
  <2> QED BY <2>1, <2>2
<1> QED BY <1>2, <1>3, <1>7, <1>8, <1>9, <1>10 DEF InTurn

LEMMA OtherInTurn ==
  ASSUME ConsoleTyped, InTurn, Watch \/ Again \/ Restart \/ Started
  PROVE  InTurn'
<1>1. /\ Fit(machine) /\ printed \in Seq(Pieces) /\ sent \in Seq(Orders)
      /\ signIns \in Nat /\ \A i \in DOMAIN sent : sent[i].by <= signIns
  BY ConsoleLoginAssumption DEF ConsoleTyped, ConsoleLoginTypeOK, Orders
<1>2. CASE Watch
  <2> SUFFICES ASSUME boots = 0 PROVE InTurn' BY <1>2 DEF InTurn, Watch
  <2>1. PICK n \in Arriving \ {0} :
          /\ Feed(machine, SubSeq(printed, 1, n)).act = "wait"
          /\ machine' = Feed(machine, SubSeq(printed, 1, n)).m
          /\ printed' = SubSeq(printed, n + 1, Len(printed))
    BY <1>2 DEF Watch
  <2>2. n \in 1 .. Len(printed) /\ n \in 0 .. Len(printed)
        /\ SubSeq(printed, 1, n) \in Seq(Pieces) /\ machine.window \in Seq(Pieces)
    BY <1>1, <2>1 DEF Arriving, Fit, Machine
  <2> DEFINE w == machine.window \o SubSeq(printed, 1, n)
  <2>3. machine'.next = machine.next /\ machine'.window = Rest(w)
    BY <1>1, <2>1, <2>2, FeedAnswers DEF Waits, Answers, Signs, Commands, Finishes
  <2>4. ASSUME NEW text, Silent(machine.window, text), Silent(printed, text)
        PROVE  Silent(Rest(w), text) /\ Silent(printed', text)
    <3>1. Silent(SubSeq(printed, 1, n), text) /\ Silent(printed', text)
      BY <1>1, <2>1, <2>2, <2>4, SilentParts
    <3>2. w \in Seq(Pieces) BY <2>2
    <3>3. Silent(w, text) BY <2>2, <2>4, <3>1, SilentJoin
    <3> HIDE DEF w
    <3> QED BY <3>1, <3>2, <3>3, SilentSays
  <2> HIDE DEF w
  <2>5. UNCHANGED <<sent, far, ran, boots, signIns>> BY <1>2 DEF Watch
  <2> QED BY <2>3, <2>4, <2>5 DEF InTurn
<1>3. CASE Again
  <2> SUFFICES ASSUME boots = 0 PROVE InTurn' BY <1>3 DEF InTurn, Again
  <2>1. /\ machine' = Fresh /\ printed' = <<>> /\ ran' = <<>> /\ signIns' = signIns + 1
        /\ UNCHANGED <<sent, boots, far>>
    BY <1>3 DEF Again
  <2>2. \A i \in DOMAIN sent : sent[i].by # signIns + 1
    <3> SUFFICES ASSUME NEW i \in DOMAIN sent PROVE sent[i].by # signIns + 1 OBVIOUS
    <3>1. sent[i] \in Orders /\ sent[i].by <= signIns BY <1>1
    <3> QED BY <1>1, <3>1, ConsoleLoginAssumption DEF Orders
  <2>3. Queue(sent, signIns + 1, 0, 1) /\ Len(<<>>) = 0 BY <1>1, <2>2, QueueNew
  <2> QED BY <2>1, <2>3, FreshFit DEF InTurn, Silent
<1>4. CASE Restart BY <1>4 DEF Restart, InTurn, ConsoleTyped, ConsoleLoginTypeOK
<1>5. CASE Started
  <2> SUFFICES ASSUME boots = 0 PROVE InTurn' BY <1>5 DEF InTurn, Started
  <2>1. printed' = printed \o Halves("login") /\ far # "shell"
        /\ UNCHANGED <<machine, sent, ran, boots, signIns>>
    BY <1>5 DEF Started
  <2>2. ASSUME NEW text \in {"restart", "marker"}, Silent(printed, text)
        PROVE  Silent(printed', text)
    <3>1. Halves("login") \in Seq(Pieces) /\ Silent(Halves("login"), text)
      BY HalvesAre, SilentHalves DEF Texts
    <3> QED BY <1>1, <2>1, <2>2, <3>1, SilentJoin
  <2> QED BY <2>1, <2>2 DEF InTurn
<1> QED BY <1>2, <1>3, <1>4, <1>5

\* With any startup commands, any timeouts and any number of sign-ins over one another's
\* leftovers, no command runs twice in a sign-in or before the one in front of it, where
\* what the far end prints when it lets somebody in is not a marker or a restart
\* (SerialLoginMachine::nextCommand(), tick()).
THEOREM CommandsTakeTurns ==
  ASSUME Silent(Motd, "marker"), Silent(Motd, "restart")
  PROVE  ConsoleLoginSpec => []CommandsRunInOrder
<1>1. ConsoleLoginInit => InTurn
  <2> SUFFICES ASSUME ConsoleLoginInit PROVE InTurn OBVIOUS
  <2>1. sent \in Seq(Orders) /\ sent = <<>> /\ signIns = 1 /\ ran = <<>> /\ Len(ran) = 0
    BY DEF ConsoleLoginInit
  <2>2. Queue(sent, signIns, 0, 1)
    <3>1. \A i \in DOMAIN sent : sent[i].by # signIns BY <2>1
    <3> QED BY <2>1, <3>1, QueueNew
  <2> QED BY <2>1, <2>2, FreshFit DEF ConsoleLoginInit, InTurn, Silent
<1>2. ConsoleTyped /\ InTurn /\ [ConsoleLoginNext]_consoleLoginVars => InTurn'
  <2>1. UNCHANGED consoleLoginVars /\ InTurn => InTurn' BY DEF consoleLoginVars, InTurn
  <2> QED BY <2>1, TurnInTurn, FarInTurn, OtherInTurn DEF ConsoleLoginNext
<1>3. InTurn => CommandsRunInOrder BY DEF InTurn, CommandsRunInOrder
<1> QED BY <1>1, <1>2, <1>3, TypedHolds, PTL DEF ConsoleLoginSpec

-----------------------------------------------------------------------------
(* The password is for who asks for it *)

\* What is still to be told apart of the far end's last answer: the window has it up to
\* a cut, the rest is coming.
Answer(w, coming) ==
  \/ w = <<>> /\ \A i \in DOMAIN coming : coming[i] = <<"noise", 0>>
  \/ \E text \in Texts \ {"restart"} : \/ w = <<>> /\ coming = Halves(text)
                                       \/ w = <<<<text, 1>>>> /\ coming = <<<<text, 2>>>>

\* With nothing to excuse it, the machine and the far end take turns: one line is on its
\* way or the answer to the last one is, and a password, or what asks for it, is on its way
\* only while the far end is asking.
OnRequest ==
  ~Excused =>
    /\ far # "booting" /\ ~spilled
    /\ Len(sent) <= 1
    /\ machine.step = "idle" => sent = <<>>
    /\ outcome # "going" => sent = <<>> /\ printed = <<>>
    /\ outcome = "going" => Answer(machine.window, printed)
    /\ sent # <<>> => /\ machine.window = <<>> /\ printed = <<>>
                      /\ sent[1].line[1] = "secret" => far = "asking"
    /\ outcome = "going" => \/ far = "asking"
                            \/ Silent(machine.window, "password") /\ Silent(printed, "password")

LEMMA CutsOfTwo ==
  ASSUME NEW a, NEW b
  PROVE  /\ SubSeq(<<a, b>>, 1, 1) = <<a>> /\ SubSeq(<<a, b>>, 2, 2) = <<b>>
         /\ SubSeq(<<a, b>>, 1, 2) = <<a, b>> /\ SubSeq(<<a, b>>, 3, 2) = <<>>
         /\ SubSeq(<<b>>, 1, 1) = <<b>> /\ SubSeq(<<b>>, 2, 1) = <<>>
         /\ <<a>> \o <<b>> = <<a, b>> /\ <<>> \o <<a>> = <<a>> /\ <<>> \o <<a, b>> = <<a, b>>
         /\ Len(<<a, b>>) = 2 /\ Len(<<a>>) = 1 /\ <<a>>[1] = a /\ <<a>> # <<>>
<1>1. /\ Len(<<a, b>>) = 2 /\ Len(<<a>>) = 1 /\ Len(<<b>>) = 1 /\ <<a>> # <<>>
      /\ <<a, b>> \in Seq({a, b}) /\ <<a>> \in Seq({a, b}) /\ <<b>> \in Seq({a, b})
      /\ <<a, b>>[1] = a /\ <<a, b>>[2] = b /\ <<a>>[1] = a /\ <<b>>[1] = b
  OBVIOUS
<1> DEFINE S == {a, b}
           p == <<a, b>>
           h == <<a>>
           t == <<b>>
<1>2. /\ Len(p) = 2 /\ Len(h) = 1 /\ Len(t) = 1 /\ p \in Seq(S) /\ h \in Seq(S) /\ t \in Seq(S)
      /\ p[1] = a /\ p[2] = b /\ h[1] = a /\ t[1] = b
  BY <1>1
<1> HIDE DEF S, p, h, t
<1>3. SubSeq(p, 1, 2) = p /\ SubSeq(t, 1, 1) = t BY <1>2, SubSeqFull
<1>4. SubSeq(p, 3, 2) = <<>> /\ SubSeq(t, 2, 1) = <<>> BY SubSeqEmpty
<1>5. <<>> \o h = h /\ <<>> \o p = p BY <1>2, ConcatEmptySeq
<1>6. SubSeq(p, 1, 1) = h /\ SubSeq(p, 2, 2) = t
  <2>1. /\ SubSeq(p, 1, 1) \in Seq(S) /\ Len(SubSeq(p, 1, 1)) = 1 /\ SubSeq(p, 1, 1)[1] = p[1]
        /\ SubSeq(p, 2, 2) \in Seq(S) /\ Len(SubSeq(p, 2, 2)) = 1 /\ SubSeq(p, 2, 2)[1] = p[2]
    BY <1>2
  <2> QED BY <1>2, <2>1, SeqEqual
<1>7. h \o t = p
  <2>1. /\ h \o t \in Seq(S) /\ Len(h \o t) = 2 /\ (h \o t)[1] = h[1] /\ (h \o t)[2] = t[1]
    BY <1>2, ConcatProperties
  <2>2. \A i \in 1 .. 2 : (h \o t)[i] = p[i] BY <1>2, <2>1
  <2> QED BY <1>2, <2>1, <2>2, SeqEqual
<1> QED BY <1>1, <1>3, <1>4, <1>5, <1>6, <1>7 DEF p, h, t

\* Nothing is recognised before the answer is whole.
LEMMA AnswerHeard ==
  ASSUME NEW v \in Seq(Pieces), NEW p \in Seq(Pieces), Answer(v, p), NEW n \in 1 .. Len(p)
  PROVE  LET w == v \o SubSeq(p, 1, n)
             q == SubSeq(p, n + 1, Len(p))
         IN  /\ ~Shown(w, "restart") /\ Answer(Rest(w), q)
             /\ \A text \in Texts : Shown(w, text) => q = <<>>
<1> DEFINE w == v \o SubSeq(p, 1, n)
           q == SubSeq(p, n + 1, Len(p))
<1>1. CASE v = <<>> /\ \A i \in DOMAIN p : p[i] = <<"noise", 0>>
  <2>1. w = SubSeq(p, 1, n) /\ Len(w) = n BY <1>1
  <2>2. \A i \in DOMAIN w : w[i] = <<"noise", 0>> BY <1>1, <2>1
  <2>3. \A text \in Texts : ~Shown(w, text)
    <3>1. \A text \in Texts : <<"noise", 0>> # <<text, 1>> OBVIOUS
    <3>2. \A i \in 1 .. Len(w) - 1 : i \in DOMAIN w BY <2>1
    <3> QED BY <2>2, <3>1, <3>2 DEF Shown
  <2>4. Last(w) = <<"noise", 0>>
    <3>1. Last(w) = w[Len(w)] /\ Len(w) \in DOMAIN w BY <2>1 DEF Last
    <3> QED BY <2>2, <3>1
  <2>5. Rest(w) = <<>> BY <2>4 DEF Rest
  <2>6. \A i \in DOMAIN q : q[i] = <<"noise", 0>>
    <3>1. \A i \in DOMAIN q : i + n \in DOMAIN p /\ q[i] = p[i + n] OBVIOUS
    <3> QED BY <1>1, <3>1
  <2>7. Answer(Rest(w), q) BY <2>5, <2>6 DEF Answer
  <2> QED BY <2>3, <2>7 DEF Texts
<1>2. ASSUME NEW text \in Texts \ {"restart"}, w = <<<<text, 1>>>>, q = <<<<text, 2>>>>
      PROVE  /\ ~Shown(w, "restart") /\ Answer(Rest(w), q)
             /\ \A other \in Texts : ~Shown(w, other)
  <2>1. \A other : ~Shown(w, other) BY <1>2 DEF Shown
  <2>2. Last(w) = <<text, 1>> /\ w # <<>> BY <1>2, CutsOfTwo DEF Last
  <2>3. Rest(w) = w
    <3>1. Rest(w) = <<Last(w)>> BY <2>2 DEF Rest
    <3> QED BY <1>2, <2>2, <3>1
  <2>4. Answer(w, q) BY <1>2 DEF Answer
  <2> QED BY <2>1, <2>3, <2>4
<1>3. ASSUME NEW text \in Texts \ {"restart"}, w = Halves(text), q = <<>>
      PROVE  ~Shown(w, "restart") /\ Answer(Rest(w), q)
  <2>1. Len(w) = 2 /\ w[1] = <<text, 1>> /\ w[2] = <<text, 2>> BY <1>3, HalvesAre
  <2>2. ~Shown(w, "restart") BY <2>1 DEF Shown
  <2>3. Last(w)[2] = 2 BY <2>1 DEF Last
  <2>4. Rest(w) = <<>> BY <2>3 DEF Rest
  <2>5. Answer(Rest(w), q) BY <1>3, <2>4 DEF Answer
  <2> QED BY <2>2, <2>5
<1>4. ASSUME NEW text \in Texts \ {"restart"}, v = <<>>, p = Halves(text)
      PROVE  \/ w = <<<<text, 1>>>> /\ q = <<<<text, 2>>>>
             \/ w = Halves(text) /\ q = <<>>
  <2>1. p = <<<<text, 1>>, <<text, 2>>>> /\ n \in {1, 2} /\ Len(p) = 2
    BY <1>4, CutsOfTwo DEF Halves
  <2>2. CASE n = 1
    <3>1. SubSeq(p, 1, n) = <<<<text, 1>>>> /\ q = <<<<text, 2>>>>
      <4>1. n + 1 = 2 /\ q = SubSeq(p, 2, 2) BY <2>1, <2>2
      <4> HIDE DEF q
      <4> QED
        <5> DEFINE a == <<text, 1>>
                   b == <<text, 2>>
        <5>1. p = <<a, b>> BY <2>1
        <5> HIDE DEF a, b
        <5>2. SubSeq(<<a, b>>, 1, 1) = <<a>> /\ SubSeq(<<a, b>>, 2, 2) = <<b>>
          BY CutsOfTwo
        <5>3. SubSeq(p, 1, 1) = <<a>> /\ SubSeq(p, 2, 2) = <<b>> BY <5>1, <5>2
        <5> QED BY <2>2, <4>1, <5>3 DEF a, b
    <3> QED BY <1>4, <3>1, CutsOfTwo
  <2>3. CASE n = 2
    <3>1. SubSeq(p, 1, n) = p /\ q = <<>>
      <4>1. q = SubSeq(p, 3, 2) BY <2>1, <2>3
      <4> HIDE DEF q
      <4> QED BY <2>1, <2>3, <4>1, CutsOfTwo
    <3>2. <<>> \o p = p BY <2>1, CutsOfTwo
    <3> QED BY <1>4, <3>1, <3>2
  <2> QED BY <2>1, <2>2, <2>3
<1>5. ASSUME NEW text \in Texts \ {"restart"}, v = <<<<text, 1>>>>, p = <<<<text, 2>>>>
      PROVE  w = Halves(text) /\ q = <<>>
  <2>1. n = 1 BY <1>5, CutsOfTwo
  <2> QED
    <3>1. SubSeq(p, 1, n) = p /\ q = <<>>
      <4>1. q = SubSeq(p, 2, 1) BY <1>5, <2>1, CutsOfTwo
      <4> HIDE DEF q
      <4> QED BY <1>5, <2>1, <4>1, CutsOfTwo
    <3>2. v \o p = <<<<text, 1>>, <<text, 2>>>> BY <1>5, CutsOfTwo
    <3> QED BY <3>1, <3>2 DEF Halves
<1> HIDE DEF w, q
<1> QED BY <1>1, <1>2, <1>3, <1>4, <1>5 DEF Answer, w, q

LEMMA TurnOnRequest == ConsoleTyped /\ OnRequest /\ LoginTurn => OnRequest'
<1> SUFFICES ASSUME ConsoleTyped, OnRequest, LoginTurn, ~Excused' PROVE OnRequest'
  BY DEF OnRequest
<1>1. /\ Fit(machine) /\ printed \in Seq(Pieces) /\ sent \in Seq(Orders)
      /\ signIns \in 1 .. MaxSignIns /\ hasty \in BOOLEAN /\ outcome = "going"
      /\ machine.window \in Seq(Pieces)
  BY DEF ConsoleTyped, ConsoleLoginTypeOK, Orders, Fit, Machine, LoginTurn
<1>2. PICK timed \in BOOLEAN :
        \/ \E r : Turn(r, 0, timed) /\ Ticked(r, timed)
        \/ \E n \in 1 .. Len(printed) : \E r, m :
              Turn(r, n, timed) /\ Left(m, timed) /\ Fed(r, m, m.window \o SubSeq(printed, 1, n))
  BY <1>1, TurnIs
<1>3. ~Excused /\ ~(timed /\ Owed) /\ UNCHANGED <<far, spilled>>
  <2>1. hasty' = (hasty \/ (timed /\ Owed)) BY <1>2 DEF Turn
  <2> QED BY <1>1, <2>1 DEF Excused, LoginTurn
<1>4. /\ far # "booting" /\ ~spilled
      /\ Len(sent) <= 1
      /\ machine.step = "idle" => sent = <<>>
      /\ Answer(machine.window, printed)
      /\ sent # <<>> => /\ machine.window = <<>> /\ printed = <<>>
                        /\ sent[1].line[1] = "secret" => far = "asking"
      /\ \/ far = "asking"
         \/ Silent(machine.window, "password") /\ Silent(printed, "password")
  BY <1>1, <1>3 DEF OnRequest
<1>5. Answer(<<>>, <<>>) /\ Silent(<<>>, "password") BY DEF Answer, Silent
<1>6. ASSUME NEW n, NEW r, Turn(r, n, timed), r.act = "write", r.m.window = <<>>,
             r.m.step # "idle", sent = <<>>, printed' = <<>>,
             r.line[1] = "secret" => far = "asking"
      PROVE  OnRequest'
  <2> DEFINE o == [line |-> r.line, by |-> signIns]
  <2>1. sent' = <<o>> /\ o.line = r.line BY <1>6 DEF Turn
  <2>2. machine' = r.m /\ outcome' = "going" BY <1>6 DEF Turn
  <2> HIDE DEF o
  <2>3. Len(sent') = 1 /\ sent'[1] = o BY <2>1
  <2> QED BY <1>3, <1>4, <1>5, <1>6, <2>1, <2>2, <2>3 DEF OnRequest
<1>7. ASSUME NEW r, Turn(r, 0, timed), Ticked(r, timed) PROVE OnRequest'
  <2>1. printed' = printed BY <1>1, <1>7 DEF Turn
  <2>2. CASE Waits(r, machine) /\ r.m.window = machine.window
    <3>1. machine' = r.m /\ sent' = sent /\ outcome' = "going"
      BY <1>7, <2>2 DEF Turn, Waits
    <3> QED BY <1>3, <1>4, <2>1, <2>2, <3>1 DEF OnRequest, Waits
  <2>3. CASE /\ r.act = "write" /\ r.m.window = <<>> /\ r.m.step # "idle"
             /\ r.line \in {<<"newline", 0>>, <<"probe", 0>>}
             /\ (machine.step = "idle" /\ printed = <<>>) \/ timed
    <3>1. sent = <<>> /\ printed = <<>> BY <1>3, <1>4, <2>3 DEF Owed
    <3>2. r.line[1] # "secret" BY <2>3
    <3> QED BY <1>6, <1>7, <2>1, <2>3, <3>1, <3>2
  <2>4. CASE r.act = "fail" /\ r.m.step = "failed" /\ timed
    <3>1. sent = <<>> /\ printed = <<>> BY <1>3, <2>4 DEF Owed
    <3>2. machine' = r.m /\ sent' = sent /\ outcome' = "refused" BY <1>7, <2>4 DEF Turn
    <3> QED BY <1>3, <1>4, <2>1, <2>4, <3>1, <3>2 DEF OnRequest
  <2> QED BY <1>7, <2>2, <2>3, <2>4 DEF Ticked
<1>8. ASSUME NEW n \in 1 .. Len(printed), NEW r, NEW m, Turn(r, n, timed), Left(m, timed),
             Fed(r, m, m.window \o SubSeq(printed, 1, n))
      PROVE  OnRequest'
  <2> DEFINE w == m.window \o SubSeq(printed, 1, n)
  <2>1. printed # <<>> /\ sent = <<>> /\ ~timed BY <1>1, <1>3, <1>4 DEF Owed
  <2>2. m.window = machine.window /\ m.step = machine.step BY <1>8, <2>1 DEF Left
  <2>3. /\ ~Shown(w, "restart") /\ Answer(Rest(w), printed')
        /\ \A text \in Texts : Shown(w, text) => printed' = <<>>
    <3>1. printed' = SubSeq(printed, n + 1, Len(printed)) BY <1>8 DEF Turn
    <3> QED BY <1>1, <1>4, <2>2, <3>1, AnswerHeard
  <2>4. \/ far = "asking"
        \/ /\ ~Shown(w, "password") /\ Silent(printed', "password")
           /\ r.act # "reboot" => Silent(r.m.window, "password")
    BY <1>1, <1>4, <1>8, TurnSilent
  <2> HIDE DEF w
  <2>5. r.act # "reboot" /\ ((Waits(r, m) /\ r.m.window = Rest(w)) \/ Answers(r, m, w))
    <3>1. (Waits(r, m) /\ r.m.window = Rest(w)) \/ Answers(r, m, w)
      BY <1>8, <2>3 DEF Fed, w
    <3> QED BY <3>1 DEF Waits, Answers, Signs, Commands, Finishes
  <2>6. CASE Waits(r, m) /\ r.m.window = Rest(w)
    <3>1. machine' = r.m /\ sent' = sent /\ outcome' = "going"
      BY <1>8, <2>6 DEF Turn, Waits
    <3> QED BY <1>3, <1>4, <2>1, <2>3, <2>4, <2>5, <2>6, <3>1 DEF OnRequest
  <2>7. CASE Signs(r, m, w)
    <3>1. printed' = <<>> BY <2>3, <2>7 DEF Signs, Texts
    <3>2. r.line[1] = "secret" => far = "asking" BY <2>4, <2>7 DEF Signs
    <3> QED BY <1>6, <1>8, <2>1, <2>7, <3>1, <3>2 DEF Signs
  <2>8. CASE Commands(r, m, w)
    <3>1. printed' = <<>> BY <2>3, <2>8 DEF Commands, Texts
    <3>2. r.line[1] # "secret" BY <2>8 DEF Commands
    <3> QED BY <1>6, <1>8, <2>1, <2>8, <3>1, <3>2 DEF Commands
  <2>9. CASE Finishes(r, m, w)
    <3>1. printed' = <<>> /\ r.m.step # "idle" /\ r.act \in {"done", "fail"}
      BY <2>3, <2>9 DEF Finishes, Texts
    <3>2. machine' = r.m /\ sent' = sent /\ outcome' # "going" BY <1>8, <3>1 DEF Turn
    <3> QED BY <1>3, <1>4, <2>1, <3>1, <3>2 DEF OnRequest
  <2> QED BY <2>5, <2>6, <2>7, <2>8, <2>9 DEF Answers
<1> QED BY <1>2, <1>7, <1>8

\* A far end that is let in says nothing that is recognised.
Quiet(said) == \A i \in DOMAIN said : said[i] = <<"noise", 0>>

LEMMA FarOnRequest ==
  ASSUME Quiet(Motd), ConsoleTyped, OnRequest, FarReads
  PROVE  OnRequest'
<1> SUFFICES ASSUME ~Excused PROVE OnRequest' BY DEF OnRequest, Excused, FarReads
<1>1. sent \in Seq(Orders) /\ sent # <<>> /\ Head(sent) = sent[1]
  BY DEF ConsoleTyped, ConsoleLoginTypeOK, Orders, FarReads
<1>2. /\ far # "booting" /\ ~spilled /\ Len(sent) <= 1 /\ outcome = "going"
      /\ machine.window = <<>> /\ printed = <<>>
      /\ sent[1].line[1] = "secret" => far = "asking"
  BY <1>1 DEF OnRequest
<1>3. sent' = <<>> /\ UNCHANGED <<machine, outcome>>
  <2>1. sent' = Tail(sent) BY DEF FarReads
  <2>2. Len(sent) = 1
    <3>1. Len(sent) \in Nat \ {0} BY <1>1, EmptySeq
    <3>2. Len(sent) <= 1 BY <1>2
    <3> QED BY <3>1, <3>2
  <2>3. Tail(sent) = SubSeq(sent, 2, 1) BY <1>1, <2>2, TailIsSubSeq
  <2>4. Tail(sent) = <<>> BY <2>3, SubSeqEmpty
  <2> QED BY <2>1, <2>4 DEF FarReads
<1>4. ~spilled' /\ far' # "booting" BY <1>1, <1>2 DEF FarReads
<1>5. \/ printed' \in {Halves("login"), Halves("marker"), Noise, Motd}
      \/ printed' = Halves("password") /\ far' = "asking"
  <2>1. \A said \in Seq(Pieces) : printed \o said = said BY <1>2
  <2>2. /\ Halves("login") \in Seq(Pieces) /\ Halves("password") \in Seq(Pieces)
        /\ Halves("marker") \in Seq(Pieces)
    BY HalvesAre DEF Texts
  <2> QED BY <1>1, <1>2, <2>1, <2>2, NoiseIs, MotdAssumption DEF FarReads
<1>6. Answer(<<>>, printed')
  <2>1. Answer(<<>>, Noise) /\ Answer(<<>>, Motd)
    <3>1. \A i \in DOMAIN Noise : Noise[i] = <<"noise", 0>>
      <4>1. DOMAIN Noise = {1} BY NoiseIs
      <4> QED BY <4>1, NoiseIs
    <3> QED BY <3>1 DEF Answer, Quiet
  <2>2. /\ Answer(<<>>, Halves("login")) /\ Answer(<<>>, Halves("marker"))
        /\ Answer(<<>>, Halves("password"))
    BY DEF Answer, Texts
  <2> QED BY <1>5, <2>1, <2>2
<1>7. far' = "asking" \/ Silent(printed', "password")
  <2>1. /\ Silent(Halves("login"), "password") /\ Silent(Halves("marker"), "password")
        /\ Silent(Noise, "password")
    BY SilentHalves DEF Texts
  <2>2. Silent(Motd, "password") BY DEF Quiet, Silent
  <2> QED BY <1>5, <2>1, <2>2
<1>8. Silent(<<>>, "password") BY DEF Silent
<1> QED BY <1>2, <1>3, <1>4, <1>6, <1>7, <1>8 DEF OnRequest

LEMMA OtherOnRequest ==
  ASSUME ConsoleTyped, OnRequest, Watch \/ Again \/ Restart \/ Started
  PROVE  OnRequest'
<1> SUFFICES ASSUME ~Excused' PROVE OnRequest' BY DEF OnRequest
<1>1. CASE Watch BY <1>1 DEF Watch, OnRequest, Excused
<1>2. CASE Again
  <2>1. Answer(<<>>, <<>>) /\ Silent(<<>>, "password") BY DEF Answer, Silent
  <2> QED BY <1>2, <2>1, FreshFit DEF Again, OnRequest, Excused
<1>3. CASE Restart BY <1>3 DEF Restart, Excused, ConsoleTyped, ConsoleLoginTypeOK
<1>4. CASE Started BY <1>4 DEF Started, OnRequest, Excused
<1> QED BY <1>1, <1>2, <1>3, <1>4

\* With any timeouts, any cuts and any number of sign-ins, the password is read by what
\* asked for it, unless the board was starting, restarted, or answered a step after its
\* timeout, where what the far end prints when it lets somebody in is not taken for a
\* prompt (SerialLoginMachine::classify() and afterUser()).
THEOREM PasswordGoesWhereAsked ==
  ASSUME Quiet(Motd)
  PROVE  ConsoleLoginSpec => []PasswordOnlyWhenAsked
<1>1. ConsoleLoginInit => OnRequest
  <2> SUFFICES ASSUME ConsoleLoginInit PROVE OnRequest OBVIOUS
  <2>1. Answer(<<>>, <<>>) /\ Silent(<<>>, "password") /\ Len(<<>>) = 0
    BY DEF Answer, Silent
  <2> QED
    <3>1. /\ machine = Fresh /\ outcome = "going" /\ sent = <<>> /\ printed = <<>>
          /\ ~spilled /\ (far = "booting" => early)
      BY DEF ConsoleLoginInit
    <3> QED BY <2>1, <3>1, FreshFit DEF OnRequest, Excused
<1>2. ConsoleTyped /\ OnRequest /\ [ConsoleLoginNext]_consoleLoginVars => OnRequest'
  <2>1. UNCHANGED consoleLoginVars /\ OnRequest => OnRequest'
    BY DEF consoleLoginVars, OnRequest, Excused
  <2> QED BY <2>1, TurnOnRequest, FarOnRequest, OtherOnRequest DEF ConsoleLoginNext
<1>3. ConsoleTyped /\ OnRequest => PasswordOnlyWhenAsked
  BY DEF OnRequest, PasswordOnlyWhenAsked
<1> QED BY <1>1, <1>2, <1>3, TypedHolds, PTL DEF ConsoleLoginSpec

-----------------------------------------------------------------------------
(* The window comes back as it was left *)

\* The pages the code makes: a view has a log, an editor a file of settings.
ViewRecs   == [log : Files, cfg : {Absence}, look : {0, 1}]
EditorRecs == [log : {Absence}, cfg : Configs, look : {0, 1}]
PageRecs   == ViewRecs \cup EditorRecs
\* Where the views are.
ViewPlaces(P) == {i \in DOMAIN P : P[i].log # Absence}

\* No page is on the bar twice.
BarKept(b, p) ==
  /\ b \in Seq(Tabs) /\ IsInjective(b) /\ p \in [Tabs -> TabPages]
  /\ \A t \in ToSet(b) : p[t] \in PageRecs
\* The views in the order they were made are those of the bar,
MadeKept(b, p, m) ==
  m \in Seq(Tabs) /\ ToSet(m) = {t \in ToSet(b) : p[t].log # Absence}
\* the logs that are open those that have a view,
OpenKept(p, m, o) ==
  o \in Seq(Files) /\ ToSet(o) = {p[t].log : t \in ToSet(m)}
\* a page is in front unless there is none,
FrontKept(b, f) == IF b = <<>> THEN f = Absence ELSE f \in ToSet(b)
\* and the docks show the log of the active view, which is the front one if that is a view.
ActiveKept(p, m, f, a, d) ==
  /\ a # Absence => (a \in ToSet(m) /\ d = p[a].log)
  /\ f \in ToSet(m) => a = f
  /\ d = Absence => m = <<>>
WellsKept(b, p, m, o, f, a, d) ==
  /\ BarKept(b, p) /\ MadeKept(b, p, m) /\ OpenKept(p, m, o)
  /\ FrontKept(b, f) /\ ActiveKept(p, m, f, a, d)

\* The docks: a window that is up has the ones the next session will have, and hiding
\* them leaves none.
PanesKept ==
  /\ visible \in SUBSET Docks /\ before \in SUBSET Docks /\ arranged \in SUBSET Docks
  /\ hidden \in BOOLEAN /\ up \in BOOLEAN
  /\ up => arranged = PersistableLayout
  /\ hidden => visible = {}

\* A session that can be read: every view has its log, and there are tabs for all.
GoodSession(s) ==
  /\ s \in Sessions
  /\ \A i \in DOMAIN s.views : s.views[i].doc \in DOMAIN s.docs
  /\ Len(s.views) + Len(s.editors) <= Cardinality(Tabs)

\* The page a session raises first, the one it ends with in front, and the active one.
ShownOf(r) ==
  IF Len(r.views) > 0 THEN Ascending(ViewPlaces(r.pages))[r.raise]
  ELSE IF Len(r.pages) > 0 THEN 1 ELSE Absence
LastOf(s, r) == IF s.activeTab < Len(r.pages) THEN s.activeTab + 1 ELSE ShownOf(r)
ActOf(s, r) == IF Len(r.views) = 0 THEN Absence
               ELSE IF r.pages[LastOf(s, r)].log # Absence THEN LastOf(s, r) ELSE ShownOf(r)
\* What a launch that refuses nothing makes of a session.
Brought(s) ==
  LET r == Restored(s, {})
  IN  [pages |-> r.pages,
       front |-> IF LastOf(s, r) = Absence THEN NoPage ELSE r.pages[LastOf(s, r)],
       bound |-> IF ActOf(s, r) = Absence THEN Absence ELSE r.pages[ActOf(s, r)].log,
       panes |-> s.layout]
\* What was left is what is seen until the window changes, and afterwards what the
\* session that is stored brings back.
StoredKept(s) == s \in {Absence, Newer} \/ GoodSession(s)
LeftKept ==
  left # Absence => IF up THEN Sight = left /\ visible = arranged
                    ELSE Loadable /\ left = Brought(stored)
\* The inductive invariant.
TabInv ==
  /\ WellsKept(bar, page, made, opened, front, active, bound)
  /\ PanesKept /\ StoredKept(stored) /\ LeftKept

\* A set of numbers that has a member has a least one.
LEMMA LeastPlace ==
  ASSUME NEW S \in SUBSET Nat, S # {}
  PROVE  \E x \in S : \A y \in S : x <= y
<1> DEFINE R == OpToRel(<, Nat)
<1>1. PICK x \in S : \A y \in S : ~(<<y, x>> \in R) BY NatLessThanWellFounded, WFMin
<1>2. \A y \in S : ~(y < x) BY <1>1 DEF OpToRel
<1>3. \A y \in S : x <= y BY <1>2
<1> QED BY <1>3

\* The empty sequence adds nothing.
LEMMA JoinedToNothing == ASSUME NEW S, NEW s \in Seq(S) PROVE s \o <<>> = s
  OBVIOUS

\* A listing that ascends and leaves out no member is the ascending one.
LEMMA AscendingIs ==
  ASSUME NEW S \in SUBSET Nat, NEW n \in Nat, NEW f \in [1 .. n -> S],
         \A i, j \in 1 .. n : i < j => f[i] < f[j],
         \A x \in S : \E i \in 1 .. n : f[i] = x
  PROVE  IsFiniteSet(S) /\ Cardinality(S) = n /\ Ascending(S) = f
<1> DEFINE Upto(x) == {y \in S : y <= x}
<1>1. \A i, j \in 1 .. n : f[i] <= f[j] <=> i <= j
  <2> SUFFICES ASSUME NEW i \in 1 .. n, NEW j \in 1 .. n PROVE f[i] <= f[j] <=> i <= j
    OBVIOUS
  <2>1. f[i] \in Nat /\ f[j] \in Nat /\ (i < j => f[i] < f[j]) /\ (j < i => f[j] < f[i])
    OBVIOUS
  <2>2. i < j \/ j < i \/ i = j OBVIOUS
  <2> QED BY <2>1, <2>2
<1>2. \A i, j \in 1 .. n : f[i] = f[j] => i = j
  <2> SUFFICES ASSUME NEW i \in 1 .. n, NEW j \in 1 .. n, f[i] = f[j] PROVE i = j OBVIOUS
  <2>1. f[i] \in Nat /\ f[j] \in Nat OBVIOUS
  <2>3. f[i] <= f[j] /\ f[j] <= f[i] BY <2>1
  <2>2. i <= j /\ j <= i BY <1>1, <2>3
  <2> QED BY <2>2
<1>3. IsFiniteSet(S) /\ Cardinality(S) = n
  <2>1. f \in Bijection(1 .. n, S)
    BY <1>2 DEF Bijection, Injection, Surjection, IsInjective
  <2>2. ExistsBijection(1 .. n, S) BY <2>1 DEF ExistsBijection
  <2> QED BY <2>2, FS_Bijection, FS_Interval
<1>4. ASSUME NEW k \in 1 .. n PROVE Cardinality(Upto(f[k])) = k
  <2> DEFINE g == [j \in 1 .. k |-> f[j]]
             T == Upto(f[k])
  <2>1. \A j \in 1 .. k : j \in 1 .. n /\ f[j] \in T /\ g[j] = f[j]
    <3> SUFFICES ASSUME NEW j \in 1 .. k PROVE j \in 1 .. n /\ f[j] \in T /\ g[j] = f[j]
      OBVIOUS
    <3>1. j \in 1 .. n /\ j <= k OBVIOUS
    <3> QED BY <1>1, <3>1
  <2>2. \A y \in T : \E j \in 1 .. k : f[j] = y
    <3> SUFFICES ASSUME NEW y \in T PROVE \E j \in 1 .. k : f[j] = y OBVIOUS
    <3>1. y \in S /\ y <= f[k] OBVIOUS
    <3>2. PICK j \in 1 .. n : f[j] = y BY <3>1
    <3>3. j <= k BY <1>1, <3>1, <3>2
    <3> QED BY <3>2, <3>3
  <2>3. \A i, j \in 1 .. k : g[i] = g[j] => i = j BY <1>2, <2>1
  <2> HIDE DEF T
  <2>4. g \in Bijection(1 .. k, T)
    BY <2>1, <2>2, <2>3 DEF Bijection, Injection, Surjection, IsInjective
  <2>5. ExistsBijection(1 .. k, T) BY <2>4 DEF ExistsBijection
  <2>6. Cardinality(T) = k BY <2>5, FS_Bijection, FS_Interval
  <2> QED BY <2>6 DEF T
<1> DEFINE a == [k \in 1 .. n |-> CHOOSE x \in S : Cardinality(Upto(x)) = k]
<1> HIDE DEF Upto
<1>5. ASSUME NEW k \in 1 .. n PROVE a[k] = f[k]
  <2>1. f[k] \in S /\ Cardinality(Upto(f[k])) = k BY <1>4
  <2>2. a[k] \in S /\ Cardinality(Upto(a[k])) = k BY <2>1
  <2>3. PICK j \in 1 .. n : f[j] = a[k] BY <2>2
  <2>4. Cardinality(Upto(f[j])) = j BY <1>4
  <2> QED BY <2>2, <2>3, <2>4
<1>6. a = f BY <1>5
<1>7. Ascending(S) = a \o <<>> BY <1>3 DEF Ascending, Upto
<1>8. f \in Seq(S) OBVIOUS
<1> QED BY <1>3, <1>6, <1>7, <1>8, JoinedToNothing

\* The first so many numbers, in ascending order.
LEMMA AscendingInterval ==
  ASSUME NEW n \in Nat
  PROVE  /\ Ascending(1 .. n) = [k \in 1 .. n |-> k]
         /\ IsFiniteSet(1 .. n) /\ Cardinality(1 .. n) = n
<1> DEFINE f == [k \in 1 .. n |-> k]
<1>1. f \in [1 .. n -> 1 .. n] /\ \A i \in 1 .. n : f[i] = i OBVIOUS
<1>2. \A x \in 1 .. n : \E i \in 1 .. n : f[i] = x BY <1>1
<1>3. \A i, j \in 1 .. n : i < j => f[i] < f[j] BY <1>1
<1>4. 1 .. n \in SUBSET Nat OBVIOUS
<1> HIDE DEF f
<1>5. IsFiniteSet(1 .. n) /\ Ascending(1 .. n) = f /\ Cardinality(1 .. n) = n
  BY <1>1, <1>2, <1>3, <1>4, AscendingIs
<1> QED BY <1>5 DEF f

\* The ascending order of a set: each number once, and none is left out.
LEMMA AscendingLists ==
  ASSUME NEW S \in SUBSET Nat, IsFiniteSet(S)
  PROVE  /\ Cardinality(S) \in Nat /\ Ascending(S) \in [1 .. Cardinality(S) -> S]
         /\ \A i, j \in 1 .. Cardinality(S) : i < j => Ascending(S)[i] < Ascending(S)[j]
         /\ \A x \in S : \E i \in 1 .. Cardinality(S) : Ascending(S)[i] = x
<1> DEFINE n == Cardinality(S)
           Upto(x) == {y \in S : y <= x}
           rank == [x \in S |-> Cardinality(Upto(x))]
<1>1. n \in Nat /\ IsFiniteSet(1 .. n) /\ Cardinality(1 .. n) = n
  BY FS_CardinalityType, FS_Interval
<1>2. \A x \in S : IsFiniteSet(Upto(x)) /\ Cardinality(Upto(x)) \in 1 .. n
  <2> SUFFICES ASSUME NEW x \in S
               PROVE  IsFiniteSet(Upto(x)) /\ Cardinality(Upto(x)) \in 1 .. n
    OBVIOUS
  <2>1. Upto(x) \in SUBSET S /\ x \in Upto(x) OBVIOUS
  <2> HIDE DEF Upto
  <2>2. IsFiniteSet(Upto(x)) /\ Cardinality(Upto(x)) <= n BY <2>1, FS_Subset
  <2>3. Cardinality(Upto(x)) \in Nat /\ Cardinality(Upto(x)) # 0
    BY <2>1, <2>2, FS_EmptySet, FS_CardinalityType
  <2> QED BY <1>1, <2>2, <2>3
<1>3. \A x, y \in S : x < y => Cardinality(Upto(x)) < Cardinality(Upto(y))
  <2> SUFFICES ASSUME NEW x \in S, NEW y \in S, x < y
               PROVE  Cardinality(Upto(x)) < Cardinality(Upto(y))
    OBVIOUS
  <2>1. Upto(x) \in SUBSET Upto(y) /\ Upto(x) # Upto(y)
    <3>1. y \in Upto(y) /\ y \notin Upto(x) OBVIOUS
    <3>2. \A z \in Upto(x) : z \in Upto(y) OBVIOUS
    <3> HIDE DEF Upto
    <3> QED BY <3>1, <3>2
  <2> HIDE DEF Upto
  <2> QED BY <1>1, <1>2, <2>1, FS_Subset
<1> HIDE DEF Upto
<1>4. rank \in [S -> 1 .. n] BY <1>2
<1>5. \A x, y \in S : rank[x] = rank[y] => x = y
  <2> SUFFICES ASSUME NEW x \in S, NEW y \in S, x # y PROVE rank[x] # rank[y] OBVIOUS
  <2>1. x < y \/ y < x OBVIOUS
  <2> QED BY <1>2, <1>3, <2>1
<1>6. rank \in Injection(S, 1 .. n) BY <1>4, <1>5 DEF Injection, IsInjective
<1>7. rank \in Surjection(S, 1 .. n) BY <1>1, <1>6, FS_Injection
<1>8. \A k \in 1 .. n : \E x \in S : rank[x] = k BY <1>7 DEF Surjection
<1>9. Ascending(S) = [k \in 1 .. n |-> CHOOSE x \in S : Cardinality(Upto(x)) = k]
  <2> DEFINE f == [k \in 1 .. n |-> CHOOSE x \in S : Cardinality(Upto(x)) = k]
  <2>1. \A k \in 1 .. n : \E x \in S : Cardinality(Upto(x)) = k BY <1>8
  <2>2. f \in [1 .. n -> S] BY <2>1
  <2>3. Ascending(S) = f \o <<>> BY DEF Ascending, Upto
  <2> HIDE DEF f, n
  <2>4. f \in Seq(S) BY <1>1, <2>2
  <2> QED BY <2>3, <2>4, JoinedToNothing DEF f
<1>10. \A k \in 1 .. n : Ascending(S)[k] \in S /\ Cardinality(Upto(Ascending(S)[k])) = k
  <2> SUFFICES ASSUME NEW k \in 1 .. n
               PROVE  Ascending(S)[k] \in S /\ Cardinality(Upto(Ascending(S)[k])) = k
    OBVIOUS
  <2>1. \E x \in S : Cardinality(Upto(x)) = k BY <1>8
  <2>2. Ascending(S)[k] = CHOOSE x \in S : Cardinality(Upto(x)) = k BY <1>9
  <2> QED BY <2>1, <2>2
<1>11. Ascending(S) \in [1 .. n -> S] BY <1>9, <1>10
<1>12. \A i, j \in 1 .. n : i < j => Ascending(S)[i] < Ascending(S)[j]
  <2> SUFFICES ASSUME NEW i \in 1 .. n, NEW j \in 1 .. n, i < j
               PROVE  Ascending(S)[i] < Ascending(S)[j]
    OBVIOUS
  <2>1. Ascending(S)[i] \in Nat /\ Ascending(S)[j] \in Nat BY <1>10
  <2>2. /\ Cardinality(Upto(Ascending(S)[i])) = i
        /\ Cardinality(Upto(Ascending(S)[j])) = j
    BY <1>10
  <2>3. ~(Ascending(S)[j] < Ascending(S)[i])
    <3>1. Ascending(S)[j] < Ascending(S)[i] => j < i BY <1>3, <1>10, <2>2
    <3> QED BY <3>1
  <2>4. Ascending(S)[j] # Ascending(S)[i] BY <2>2
  <2> QED BY <2>1, <2>3, <2>4
<1>13. \A x \in S : \E i \in 1 .. n : Ascending(S)[i] = x
  <2> SUFFICES ASSUME NEW x \in S
               PROVE  \E i \in 1 .. n : Ascending(S)[i] = x
    OBVIOUS
  <2> DEFINE k == Cardinality(Upto(x))
  <2>1. k \in 1 .. n /\ Ascending(S)[k] \in S /\ rank[Ascending(S)[k]] = rank[x]
    BY <1>2, <1>10
  <2> QED BY <1>5, <2>1
<1> QED BY <1>1, <1>11, <1>12, <1>13

\* What a place of a joined sequence has.
LEMMA JoinedPlaces ==
  ASSUME NEW T, NEW a \in Seq(T), NEW b \in Seq(T)
  PROVE  /\ (a \o b) \in Seq(T) /\ Len(a \o b) = Len(a) + Len(b)
         /\ \A j \in 1 .. (Len(a) + Len(b)) :
              (a \o b)[j] = IF j <= Len(a) THEN a[j] ELSE b[j - Len(a)]
  BY ConcatProperties

\* What a place of a sequence has once a member is inserted.
LEMMA InsertedPlaces ==
  ASSUME NEW T, NEW s \in Seq(T), NEW i \in 1 .. Len(s) + 1, NEW e \in T
  PROVE  /\ InsertAt(s, i, e) \in Seq(T) /\ Len(InsertAt(s, i, e)) = Len(s) + 1
         /\ \A j \in 1 .. Len(s) + 1 :
              InsertAt(s, i, e)[j] = IF j < i THEN s[j] ELSE IF j = i THEN e ELSE s[j - 1]
<1> DEFINE a == SubSeq(s, 1, i - 1)
           b == SubSeq(s, i, Len(s))
           c == <<e>>
<1>1. i \in 1 .. (Len(s) + 1) /\ Len(s) \in Nat /\ i \in Nat OBVIOUS
<1>2. a \in Seq(T) /\ Len(a) = i - 1 /\ \A j \in 1 .. (i - 1) : a[j] = s[j] BY <1>1
<1>3. b \in Seq(T) /\ Len(b) = Len(s) - i + 1
      /\ \A j \in 1 .. (Len(s) - i + 1) : b[j] = s[i + j - 1]
  BY <1>1
<1>4. c \in Seq(T) /\ Len(c) = 1 /\ c[1] = e OBVIOUS
<1>5. InsertAt(s, i, e) = (a \o c) \o b BY DEF InsertAt
<1> HIDE DEF a, b, c
<1>6. (a \o c) \in Seq(T) /\ Len(a \o c) = i
      /\ \A j \in 1 .. i : (a \o c)[j] = IF j < i THEN s[j] ELSE e
  <2>4. (a \o c) \in Seq(T) /\ Len(a \o c) = Len(a) + Len(c)
        /\ \A j \in 1 .. (Len(a) + Len(c)) :
             (a \o c)[j] = IF j <= Len(a) THEN a[j] ELSE c[j - Len(a)]
    BY <1>2, <1>4, JoinedPlaces
  <2>1. (a \o c) \in Seq(T) /\ Len(a \o c) = (i - 1) + 1
        /\ \A j \in 1 .. ((i - 1) + 1) : (a \o c)[j] = IF j <= i - 1 THEN a[j] ELSE c[j - (i - 1)]
    BY <1>2, <1>4, <2>4
  <2>2. (i - 1) + 1 = i BY <1>1
  <2>3. ASSUME NEW j \in 1 .. i PROVE (a \o c)[j] = IF j < i THEN s[j] ELSE e
    <3>1. CASE j < i
      <4>1. j <= i - 1 /\ j \in 1 .. (i - 1) BY <1>1, <3>1
      <4> QED BY <1>2, <2>1, <2>2, <3>1, <4>1
    <3>2. CASE ~(j < i)
      <4>1. j = i /\ ~(j <= i - 1) /\ j - (i - 1) = 1 BY <1>1, <3>2
      <4> QED BY <1>4, <2>1, <2>2, <3>2, <4>1
    <3> QED BY <3>1, <3>2
  <2> QED BY <2>1, <2>2, <2>3
<1> DEFINE d == a \o c
<1> HIDE DEF d
<1>7. d \in Seq(T) /\ Len(d) = i /\ \A j \in 1 .. i : d[j] = IF j < i THEN s[j] ELSE e
  BY <1>6 DEF d
<1>8. (d \o b) \in Seq(T) /\ Len(d \o b) = i + (Len(s) - i + 1)
      /\ \A j \in 1 .. (i + (Len(s) - i + 1)) : (d \o b)[j] = IF j <= i THEN d[j] ELSE b[j - i]
  <2>1. (d \o b) \in Seq(T) /\ Len(d \o b) = Len(d) + Len(b)
        /\ \A j \in 1 .. (Len(d) + Len(b)) :
             (d \o b)[j] = IF j <= Len(d) THEN d[j] ELSE b[j - Len(d)]
    BY <1>3, <1>7, JoinedPlaces
  <2> QED BY <1>3, <1>7, <2>1
<1>9. i + (Len(s) - i + 1) = Len(s) + 1 BY <1>1
<1>10. ASSUME NEW j \in 1 .. Len(s) + 1
       PROVE  (d \o b)[j] = IF j < i THEN s[j] ELSE IF j = i THEN e ELSE s[j - 1]
  <2>1. CASE j <= i BY <1>1, <1>7, <1>8, <1>9, <2>1
  <2>2. CASE ~(j <= i)
    <3>1. j - i \in 1 .. (Len(s) - i + 1) /\ i + (j - i) - 1 = j - 1 /\ ~(j < i) /\ j # i
      BY <1>1, <2>2
    <3> QED BY <1>3, <1>8, <1>9, <2>2, <3>1
  <2> QED BY <2>1, <2>2
<1> QED BY <1>5, <1>8, <1>9, <1>10 DEF d

\* The same of one place.
LEMMA InsertedPlace ==
  ASSUME NEW T, NEW s \in Seq(T), NEW e \in T, NEW i \in 1 .. Len(s) + 1,
         NEW j \in 1 .. Len(s) + 1
  PROVE  InsertAt(s, i, e)[j] = IF j < i THEN s[j] ELSE IF j = i THEN e ELSE s[j - 1]
  BY InsertedPlaces

\* What a place of a sequence has once a member is taken out.
LEMMA RemovedPlaces ==
  ASSUME NEW T, NEW s \in Seq(T), NEW i \in DOMAIN s
  PROVE  /\ RemoveAt(s, i) \in Seq(T) /\ Len(RemoveAt(s, i)) = Len(s) - 1
         /\ \A j \in 1 .. (Len(s) - 1) : RemoveAt(s, i)[j] = IF j < i THEN s[j] ELSE s[j + 1]
<1> DEFINE a == SubSeq(s, 1, i - 1)
           b == SubSeq(s, i + 1, Len(s))
<1>1. i \in 1 .. Len(s) /\ Len(s) \in Nat /\ i \in Nat OBVIOUS
<1>2. a \in Seq(T) /\ Len(a) = i - 1 /\ \A j \in 1 .. (i - 1) : a[j] = s[j] BY <1>1
<1>3. b \in Seq(T) /\ Len(b) = Len(s) - i /\ \A j \in 1 .. (Len(s) - i) : b[j] = s[i + j]
  BY <1>1
<1>4. RemoveAt(s, i) = a \o b BY DEF RemoveAt
<1> HIDE DEF a, b
<1>5. (a \o b) \in Seq(T) /\ Len(a \o b) = (i - 1) + (Len(s) - i)
      /\ \A j \in 1 .. ((i - 1) + (Len(s) - i)) :
           (a \o b)[j] = IF j <= i - 1 THEN a[j] ELSE b[j - (i - 1)]
  <2>1. (a \o b) \in Seq(T) /\ Len(a \o b) = Len(a) + Len(b)
        /\ \A j \in 1 .. (Len(a) + Len(b)) :
             (a \o b)[j] = IF j <= Len(a) THEN a[j] ELSE b[j - Len(a)]
    BY <1>2, <1>3, JoinedPlaces
  <2> QED BY <1>2, <1>3, <2>1
<1>6. (i - 1) + (Len(s) - i) = Len(s) - 1 BY <1>1
<1>7. ASSUME NEW j \in 1 .. (Len(s) - 1) PROVE (a \o b)[j] = IF j < i THEN s[j] ELSE s[j + 1]
  <2>1. CASE j < i
    <3>1. j <= i - 1 /\ j \in 1 .. (i - 1) BY <1>1, <2>1
    <3> QED BY <1>2, <1>5, <1>6, <2>1, <3>1
  <2>2. CASE ~(j < i)
    <3>1. j - (i - 1) \in 1 .. (Len(s) - i) /\ i + (j - (i - 1)) = j + 1 /\ ~(j <= i - 1)
      BY <1>1, <2>2
    <3> QED BY <1>3, <1>5, <1>6, <2>2, <3>1
  <2> QED BY <2>1, <2>2
<1> QED BY <1>4, <1>5, <1>6, <1>7

\* The members of a sequence at some of its places.
LEMMA ThoseHave ==
  ASSUME NEW T, NEW s \in Seq(T), NEW S \in SUBSET DOMAIN s
  PROVE  /\ IsFiniteSet(S) /\ Cardinality(S) \in Nat
         /\ Ascending(S) \in [1 .. Cardinality(S) -> S]
         /\ Those(s, S) \in Seq(T) /\ Len(Those(s, S)) = Cardinality(S)
         /\ \A k \in 1 .. Cardinality(S) : Those(s, S)[k] = s[Ascending(S)[k]]
         /\ ToSet(Those(s, S)) = {s[i] : i \in S}
<1> DEFINE n == Cardinality(S)
           at == Ascending(S)
           w == Those(s, S)
<1>1. S \in SUBSET (1 .. Len(s)) /\ S \in SUBSET Nat /\ Len(s) \in Nat OBVIOUS
<1>2. IsFiniteSet(S) BY <1>1, FS_Interval, FS_Subset
<1>3. /\ n \in Nat /\ at \in [1 .. n -> S]
      /\ \A x \in S : \E i \in 1 .. n : at[i] = x
  BY <1>1, <1>2, AscendingLists
<1>4. w = [k \in DOMAIN at |-> s[at[k]]] BY DEF Those
<1> HIDE DEF n, at, w
<1>5. w = [k \in 1 .. n |-> s[at[k]]] BY <1>3, <1>4
<1>6. \A k \in 1 .. n : at[k] \in S /\ s[at[k]] \in T BY <1>1, <1>3
<1>7. w \in Seq(T) /\ Len(w) = n /\ DOMAIN w = 1 .. n /\ \A k \in 1 .. n : w[k] = s[at[k]]
  BY <1>3, <1>5, <1>6
<1>8. ToSet(w) = {s[i] : i \in S}
  <2>1. ToSet(w) = {w[k] : k \in 1 .. n} BY <1>7 DEF ToSet
  <2>2. \A k \in 1 .. n : w[k] \in {s[i] : i \in S} BY <1>6, <1>7
  <2>3. \A i \in S : \E k \in 1 .. n : w[k] = s[i] BY <1>3, <1>7
  <2> QED BY <2>1, <2>2, <2>3
<1> QED BY <1>2, <1>3, <1>7, <1>8 DEF n, at, w

\* A sequence at all its places is the sequence.
LEMMA ThoseAll ==
  ASSUME NEW T, NEW s \in Seq(T)
  PROVE  Those(s, DOMAIN s) = s
<1>1. Len(s) \in Nat /\ DOMAIN s = 1 .. Len(s) OBVIOUS
<1>2. Ascending(DOMAIN s) = [k \in 1 .. Len(s) |-> k] /\ Cardinality(DOMAIN s) = Len(s)
  BY <1>1, AscendingInterval
<1>3. /\ Those(s, DOMAIN s) \in Seq(T) /\ Len(Those(s, DOMAIN s)) = Len(s)
      /\ \A k \in 1 .. Len(s) : Those(s, DOMAIN s)[k] = s[Ascending(DOMAIN s)[k]]
  <2>1. DOMAIN s \in SUBSET DOMAIN s OBVIOUS
  <2> QED BY <1>2, <2>1, ThoseHave
<1>4. \A k \in 1 .. Len(s) : Those(s, DOMAIN s)[k] = s[k] BY <1>2, <1>3
<1> DEFINE w == Those(s, DOMAIN s)
<1> HIDE DEF w
<1>5. w \in Seq(T) /\ Len(w) = Len(s) /\ \A k \in 1 .. Len(s) : w[k] = s[k]
  BY <1>3, <1>4 DEF w
<1>6. w = s BY <1>5
<1> QED BY <1>6 DEF w

\* The first so many numbers and some above them.
LEMMA AscendingFrom ==
  ASSUME NEW q \in Nat, NEW H \in SUBSET Nat, IsFiniteSet(H), \A x \in H : x > q
  PROVE  /\ Cardinality(H) \in Nat /\ Ascending(H) \in [1 .. Cardinality(H) -> H]
         /\ Cardinality(1 .. q \cup H) = q + Cardinality(H)
         /\ Ascending(1 .. q \cup H) =
              [k \in 1 .. q + Cardinality(H) |-> IF k <= q THEN k ELSE Ascending(H)[k - q]]
<1> DEFINE m == Cardinality(H)
           at == Ascending(H)
           f == [k \in 1 .. q + m |-> IF k <= q THEN k ELSE at[k - q]]
           S == 1 .. q \cup H
<1>1. /\ m \in Nat /\ at \in [1 .. m -> H]
      /\ \A i, j \in 1 .. m : i < j => at[i] < at[j]
      /\ \A x \in H : \E i \in 1 .. m : at[i] = x
  BY AscendingLists
<1> HIDE DEF m, at
<1>2. \A k \in 1 .. q + m : k > q => k - q \in 1 .. m BY <1>1
<1>3. f \in [1 .. q + m -> S] BY <1>1, <1>2
<1>4. \A i, j \in 1 .. q + m : i < j => f[i] < f[j]
  <2> SUFFICES ASSUME NEW i \in 1 .. q + m, NEW j \in 1 .. q + m, i < j PROVE f[i] < f[j]
    OBVIOUS
  <2>1. CASE j <= q BY <2>1
  <2>2. CASE i <= q /\ j > q
    <3>1. j - q \in 1 .. m /\ ~(j <= q) BY <1>2, <2>2
    <3>2. at[j - q] \in H BY <1>1, <3>1
    <3>3. f[j] = at[j - q] /\ f[i] = i BY <2>2, <3>1
    <3>4. at[j - q] \in Nat /\ at[j - q] > q BY <3>2
    <3> HIDE DEF f
    <3> QED BY <2>2, <3>3, <3>4
  <2>3. CASE i > q
    <3>1. j - q \in 1 .. m /\ i - q \in 1 .. m /\ i - q < j - q BY <1>1, <2>3
    <3>2. f[i] = at[i - q] /\ f[j] = at[j - q] BY <2>3
    <3> QED BY <1>1, <3>1, <3>2
  <2>4. i <= q \/ i > q OBVIOUS
  <2>5. j <= q \/ j > q BY <1>1
  <2> QED BY <2>1, <2>2, <2>3, <2>4, <2>5
<1>5. \A x \in S : \E i \in 1 .. q + m : f[i] = x
  <2> SUFFICES ASSUME NEW x \in S PROVE \E i \in 1 .. q + m : f[i] = x OBVIOUS
  <2>1. CASE x \in 1 .. q
    <3>1. x \in 1 .. q + m /\ f[x] = x BY <1>1, <2>1
    <3> QED BY <3>1
  <2>2. CASE x \in H
    <3>1. PICK i \in 1 .. m : at[i] = x BY <1>1, <2>2
    <3>2. i + q \in 1 .. q + m /\ ~(i + q <= q) /\ (i + q) - q = i BY <1>1
    <3>3. f[i + q] = x BY <3>1, <3>2
    <3> QED BY <3>2, <3>3
  <2> QED BY <2>1, <2>2
<1>6. S \in SUBSET Nat /\ q + m \in Nat BY <1>1
<1> HIDE DEF S, f
<1>7. Ascending(S) = f /\ Cardinality(S) = q + m BY <1>3, <1>4, <1>5, <1>6, AscendingIs
<1> QED BY <1>1, <1>7 DEF S, f, m, at

\* The members of a sequence at some places, and then at one more, the first that was
\* left out: the new one is inserted at its own place.
LEMMA ThoseGrow ==
  ASSUME NEW T, NEW P \in Seq(T), NEW S \in SUBSET DOMAIN P, NEW i \in DOMAIN P,
         i \notin S, 1 .. (i - 1) \in SUBSET S
  PROVE  /\ Len(Those(P, S)) >= i - 1
         /\ Those(P, S \cup {i}) = InsertAt(Those(P, S), i, P[i])
<1> DEFINE q == i - 1
           H == {x \in S : x > i}
           m == Cardinality(H)
           at == Ascending(H)
           w == Those(P, S)
           More == S \cup {i}
           v == Those(P, More)
           it == P[i]
<1>1. i \in Nat /\ i > 0 /\ q \in Nat /\ q + 1 = i /\ DOMAIN P = 1 .. Len(P) /\ Len(P) \in Nat
  OBVIOUS
<1>2. S = 1 .. q \cup H /\ More = 1 .. i \cup H BY <1>1
<1>3. H \in SUBSET Nat /\ IsFiniteSet(H) /\ \A x \in H : x > q /\ x > i
  <2>1. H \in SUBSET (1 .. Len(P)) OBVIOUS
  <2>2. \A x \in H : x > q /\ x > i BY <1>1, <2>1
  <2>3. IsFiniteSet(1 .. Len(P)) BY <1>1, FS_Interval
  <2> HIDE DEF H
  <2>4. IsFiniteSet(H) BY <2>1, <2>3, FS_Subset
  <2> QED BY <1>1, <2>1, <2>2, <2>4
<1>4. S \in SUBSET DOMAIN P /\ More \in SUBSET DOMAIN P /\ it \in T OBVIOUS
<1>16. it = P[i] OBVIOUS
<1> HIDE DEF H, More, it
<1>5. /\ m \in Nat /\ at \in [1 .. m -> H] /\ Cardinality(S) = q + m
      /\ Ascending(S) = [k \in 1 .. q + m |-> IF k <= q THEN k ELSE at[k - q]]
  BY <1>1, <1>2, <1>3, AscendingFrom
<1>6. /\ Cardinality(More) = i + m
      /\ Ascending(More) = [k \in 1 .. i + m |-> IF k <= i THEN k ELSE at[k - i]]
  BY <1>1, <1>2, <1>3, AscendingFrom
<1> HIDE DEF m, at
<1>7. /\ w \in Seq(T) /\ Len(w) = q + m
      /\ \A k \in 1 .. q + m : w[k] = P[Ascending(S)[k]]
  BY <1>4, <1>5, ThoseHave
<1>8. /\ v \in Seq(T) /\ Len(v) = i + m
      /\ \A k \in 1 .. i + m : v[k] = P[Ascending(More)[k]]
  BY <1>4, <1>6, ThoseHave
<1> HIDE DEF w, v
<1>9. \A k \in 1 .. q + m : w[k] = IF k <= q THEN P[k] ELSE P[at[k - q]] BY <1>5, <1>7
<1>10. \A k \in 1 .. i + m : v[k] = IF k <= i THEN P[k] ELSE P[at[k - i]] BY <1>6, <1>8
<1> HIDE DEF q
<1>11. i \in 1 .. Len(w) + 1 /\ Len(w) + 1 = i + m BY <1>1, <1>5, <1>7
<1> DEFINE u == InsertAt(w, i, it)
<1>12. /\ u \in Seq(T) /\ Len(u) = i + m
       /\ \A j \in 1 .. i + m : u[j] = IF j < i THEN w[j] ELSE IF j = i THEN it ELSE w[j - 1]
  <2>1. /\ u \in Seq(T) /\ Len(u) = Len(w) + 1
        /\ \A j \in 1 .. Len(w) + 1 :
             u[j] = IF j < i THEN w[j] ELSE IF j = i THEN it ELSE w[j - 1]
    <3>1. it \in T /\ w \in Seq(T) /\ i \in 1 .. Len(w) + 1 BY <1>4, <1>7, <1>11
    <3>2. u \in Seq(T) /\ Len(u) = Len(w) + 1 BY <3>1, InsertedPlaces
    <3>3. ASSUME NEW j \in 1 .. Len(w) + 1
          PROVE  u[j] = IF j < i THEN w[j] ELSE IF j = i THEN it ELSE w[j - 1]
      BY <3>1, InsertedPlace
    <3> QED BY <3>2, <3>3
  <2> QED BY <1>11, <2>1
<1> HIDE DEF u
<1>13. ASSUME NEW j \in 1 .. i + m PROVE u[j] = v[j]
  <2>1. CASE j < i
    <3>1. j \in 1 .. q + m /\ j <= q /\ j <= i BY <1>1, <1>5, <2>1
    <3> QED BY <1>9, <1>10, <1>12, <2>1, <3>1
  <2>2. CASE j = i
    <3>1. j <= i /\ ~(j < i) BY <1>1, <2>2
    <3> QED BY <1>10, <1>12, <1>16, <2>2, <3>1
  <2>3. CASE j > i
    <3>1. j - 1 \in 1 .. q + m /\ ~(j - 1 <= q) /\ (j - 1) - q = j - i /\ ~(j <= i) /\ ~(j < i) /\ j # i
      BY <1>1, <1>5, <2>3
    <3>2. u[j] = w[j - 1] /\ w[j - 1] = P[at[(j - 1) - q]] /\ v[j] = P[at[j - i]]
      BY <1>9, <1>10, <1>12, <3>1
    <3> QED BY <3>1, <3>2
  <2> QED BY <1>1, <2>1, <2>2, <2>3
<1>14. u = v BY <1>8, <1>12, <1>13
<1>15. Len(w) >= i - 1 BY <1>1, <1>5, <1>7
<1> QED BY <1>14, <1>15 DEF u, v, w, More, it

\* What the session keeps of an editor, and of a view.
EditRecs == [cfg : Configs, at : Nat, look : {0, 1}]
\* The logs of some pages.
LogsOn(P) == {P[i].log : i \in ViewPlaces(P)}

\* Absence is neither a log nor a config file.
LEMMA AbsenceIsNoPage ==
  /\ Absence \notin Files /\ Absence \notin Configs /\ Absence \notin Tabs
  /\ Absence \notin Sessions /\ Newer \notin Sessions /\ Newer # Absence
  BY TabsAssumption

\* Where an editor comes back, and that what it is put on stays in its order.
LEMMA PutBackInserts ==
  ASSUME NEW b \in Seq(PageRecs), NEW e \in EditRecs
  PROVE  \E i \in 1 .. Len(b) + 1 :
           /\ i = 1 + (IF e.at < Len(b) THEN e.at ELSE Len(b))
           /\ PutBack(b, e) = InsertAt(b, i, Editor(e.cfg, e.look))
           /\ Editor(e.cfg, e.look) \in EditorRecs
<1>1. e.at \in Nat /\ Len(b) \in Nat /\ e.cfg \in Configs /\ e.look \in {0, 1}
  BY DEF EditRecs
<1> DEFINE i == 1 + (IF e.at < Len(b) THEN e.at ELSE Len(b))
<1>2. i \in 1 .. Len(b) + 1 BY <1>1
<1>3. Editor(e.cfg, e.look) \in EditorRecs BY <1>1 DEF Editor, EditorRecs
<1>4. PutBack(b, e) = InsertAt(b, i, Editor(e.cfg, e.look)) BY DEF PutBack
<1> QED BY <1>2, <1>3, <1>4

\* The views on the bar are as many as before, and of the same logs.
LEMMA PutBackKeeps ==
  ASSUME NEW b \in Seq(PageRecs), NEW e \in EditRecs
  PROVE  /\ PutBack(b, e) \in Seq(PageRecs) /\ Len(PutBack(b, e)) = Len(b) + 1
         /\ Cardinality(ViewPlaces(PutBack(b, e))) = Cardinality(ViewPlaces(b))
         /\ LogsOn(PutBack(b, e)) = LogsOn(b)
<1> DEFINE c == PutBack(b, e)
           x == Editor(e.cfg, e.look)
           V == ViewPlaces(b)
           W == ViewPlaces(c)
<1>1. PICK i \in 1 .. Len(b) + 1 : c = InsertAt(b, i, x) /\ x \in EditorRecs
  BY PutBackInserts
<1>2. x \in PageRecs /\ x.log = Absence BY <1>1 DEF PageRecs, EditorRecs
<1> HIDE DEF c, x
<1>3. c \in Seq(PageRecs) /\ Len(c) = Len(b) + 1 BY <1>1, <1>2, InsertedPlaces
<1>4. ASSUME NEW j \in 1 .. Len(b) + 1
      PROVE  c[j] = IF j < i THEN b[j] ELSE IF j = i THEN x ELSE b[j - 1]
  BY <1>1, <1>2, InsertedPlace
<1>5. Len(b) \in Nat /\ DOMAIN b = 1 .. Len(b) /\ DOMAIN c = 1 .. Len(b) + 1 /\ i \in Nat
  BY <1>3
<1> DEFINE to == [j \in V |-> IF j < i THEN j ELSE j + 1]
<1>6. ASSUME NEW j \in V
      PROVE  /\ to[j] \in W /\ c[to[j]].log = b[j].log /\ j \in 1 .. Len(b)
             /\ to[j] = IF j < i THEN j ELSE j + 1
  <2>1. j \in 1 .. Len(b) /\ b[j].log # Absence BY <1>5 DEF ViewPlaces
  <2>2. CASE j < i
    <3>1. to[j] = j /\ j \in 1 .. Len(b) + 1 BY <1>5, <2>1, <2>2
    <3>2. c[j] = b[j] BY <1>4, <2>2, <3>1
    <3> QED BY <1>5, <2>1, <2>2, <3>1, <3>2 DEF ViewPlaces
  <2>3. CASE ~(j < i)
    <3>1. to[j] = j + 1 /\ j + 1 \in 1 .. Len(b) + 1 /\ ~(j + 1 < i) /\ j + 1 # i /\ (j + 1) - 1 = j
      BY <1>5, <2>1, <2>3
    <3>2. c[j + 1] = b[j] BY <1>4, <3>1
    <3> QED BY <1>5, <2>1, <2>3, <3>1, <3>2 DEF ViewPlaces
  <2> QED BY <2>2, <2>3
<1>7. ASSUME NEW k \in W PROVE \E j \in V : to[j] = k
  <2>1. k \in 1 .. Len(b) + 1 /\ c[k].log # Absence BY <1>5 DEF ViewPlaces
  <2>2. k # i BY <1>2, <1>4, <2>1
  <2>3. CASE k < i
    <3>1. k \in 1 .. Len(b) /\ c[k] = b[k] BY <1>4, <1>5, <2>1, <2>3
    <3>2. k \in V BY <1>5, <2>1, <3>1 DEF ViewPlaces
    <3>3. to[k] = k BY <2>3, <3>2
    <3> QED BY <3>2, <3>3
  <2>4. CASE k > i
    <3>1. k - 1 \in 1 .. Len(b) /\ ~(k < i) /\ ~(k - 1 < i) /\ (k - 1) + 1 = k
      BY <1>5, <2>1, <2>4
    <3>2. c[k] = b[k - 1] BY <1>4, <2>1, <2>2, <3>1
    <3>3. k - 1 \in V BY <1>5, <2>1, <3>1, <3>2 DEF ViewPlaces
    <3>4. to[k - 1] = k BY <3>1, <3>3
    <3> QED BY <3>3, <3>4
  <2> QED BY <1>5, <2>1, <2>2, <2>3, <2>4
<1>8. \A j, k \in V : to[j] = to[k] => j = k BY <1>5, <1>6
<1>9. IsFiniteSet(V)
  <2>1. V \in SUBSET (1 .. Len(b)) BY <1>5 DEF ViewPlaces
  <2>2. IsFiniteSet(1 .. Len(b)) BY <1>5, FS_Interval
  <2> HIDE DEF V
  <2> QED BY <2>1, <2>2, FS_Subset
<1>10. LogsOn(c) = LogsOn(b)
  <2>1. \A j \in V : b[j].log \in LogsOn(c) BY <1>6 DEF LogsOn
  <2>2. \A k \in W : c[k].log \in LogsOn(b) BY <1>6, <1>7 DEF LogsOn
  <2> QED BY <2>1, <2>2 DEF LogsOn
<1> HIDE DEF V, W
<1>11. to \in Bijection(V, W)
  BY <1>6, <1>7, <1>8 DEF Bijection, Injection, Surjection, IsInjective
<1>12. ExistsBijection(V, W) BY <1>11 DEF ExistsBijection
<1>13. Cardinality(W) = Cardinality(V) BY <1>9, <1>12, FS_Bijection
<1> QED BY <1>3, <1>10, <1>13 DEF c, V, W

\* The editors come back one after another.
LEMMA WithEditorsGrows ==
  ASSUME NEW views \in Seq(PageRecs), NEW edits \in Seq(EditRecs)
  PROVE  /\ WithEditors(views, edits) \in [0 .. Len(edits) -> Seq(PageRecs)]
         /\ WithEditors(views, edits)[0] = views
         /\ \A k \in 1 .. Len(edits) :
              WithEditors(views, edits)[k] = PutBack(WithEditors(views, edits)[k - 1], edits[k])
<1> DEFINE N == Len(edits)
           Bars == Seq(PageRecs)
           Chain(m, f) == f[0] = views /\ \A k \in 1 .. m : f[k] = PutBack(f[k - 1], edits[k])
           Grown(m) == \E f \in [0 .. m -> Bars] : Chain(m, f)
           F(h) == [k \in 0 .. N |-> IF k = 0 THEN views ELSE PutBack(h[k - 1], edits[k])]
           back == CHOOSE h : h = F(h)
<1>1. N \in Nat /\ \A k \in 1 .. N : edits[k] \in EditRecs OBVIOUS
<1>2. \A b \in Bars, k \in 1 .. N : PutBack(b, edits[k]) \in Bars BY <1>1, PutBackKeeps
<1>3. WithEditors(views, edits) = back BY DEF WithEditors
<1>4. views \in Bars OBVIOUS
<1> HIDE DEF N, Bars
<1>5. Grown(N)
  <2> DEFINE C == {m \in 0 .. N : ~Grown(m)}
  <2> SUFFICES C = {} BY <1>1
  <2> SUFFICES ASSUME C # {} PROVE FALSE OBVIOUS
  <2>1. C \in SUBSET Nat BY <1>1
  <2> HIDE DEF C
  <2>2. PICK m \in C : \A n \in C : m <= n BY <2>1, LeastPlace
  <2>3. m \in 0 .. N /\ ~Grown(m) BY <2>2 DEF C
  <2>4. m # 0
    <3> DEFINE f == [k \in 0 .. 0 |-> views]
    <3>1. f \in [0 .. 0 -> Bars] /\ f[0] = views /\ 1 .. 0 = {} BY <1>4
    <3> HIDE DEF f
    <3>2. Chain(0, f) BY <3>1
    <3>3. Grown(0) BY <3>1, <3>2
    <3> QED BY <2>3, <3>3
  <2>5. m - 1 \in 0 .. N /\ m \in 1 .. N /\ ~(m <= m - 1) BY <1>1, <2>3, <2>4
  <2>6. Grown(m - 1) BY <2>2, <2>5 DEF C
  <2>7. PICK f \in [0 .. m - 1 -> Bars] : Chain(m - 1, f) BY <2>6
  <2> DEFINE g == [k \in 0 .. m |-> IF k < m THEN f[k] ELSE PutBack(f[m - 1], edits[m])]
  <2>8. \A k \in 0 .. m : k < m => k \in 0 .. m - 1 BY <2>5
  <2>9. g \in [0 .. m -> Bars]
    <3>1. PutBack(f[m - 1], edits[m]) \in Bars BY <1>2, <2>5, <2>7
    <3> QED BY <2>8, <3>1
  <2>10. ASSUME NEW k \in 1 .. m PROVE g[k] = PutBack(g[k - 1], edits[k])
    <3>1. k - 1 \in 0 .. m /\ k - 1 < m /\ k \in 0 .. m BY <2>5
    <3>2. g[k - 1] = f[k - 1] BY <3>1
    <3>3. CASE k = m BY <3>1, <3>2, <3>3
    <3>4. CASE k < m
      <4>1. k \in 1 .. m - 1 /\ g[k] = f[k] BY <2>5, <3>1, <3>4
      <4> QED BY <2>7, <3>2, <4>1
    <3> QED BY <2>5, <3>3, <3>4
  <2>11. g[0] = views
    <3>1. 0 \in 0 .. m /\ 0 < m BY <2>5
    <3> QED BY <2>7, <3>1
  <2> HIDE DEF g
  <2>12. Grown(m) BY <2>9, <2>10, <2>11
  <2> QED BY <2>3, <2>12
<1>6. PICK f \in [0 .. N -> Bars] : Chain(N, f) BY <1>5
<1>7. f = F(f)
  <2>1. \A k \in 0 .. N : k = 0 \/ k \in 1 .. N BY <1>1
  <2>2. \A k \in 0 .. N : f[k] = IF k = 0 THEN views ELSE PutBack(f[k - 1], edits[k])
    BY <1>6, <2>1
  <2> QED BY <1>6, <2>2
<1>8. back = F(back)
  <2> HIDE DEF F
  <2> QED BY <1>7
<1> HIDE DEF back
<1>9. back[0] = views /\ \A k \in 1 .. N : back[k] = PutBack(back[k - 1], edits[k])
  <2>1. \A k \in 0 .. N : back[k] = IF k = 0 THEN views ELSE PutBack(back[k - 1], edits[k])
    BY <1>8
  <2>2. 0 \in 0 .. N /\ \A k \in 1 .. N : k \in 0 .. N /\ k # 0 BY <1>1
  <2> QED BY <2>1, <2>2
<1>10. \A k \in 0 .. N : back[k] \in Bars
  <2> DEFINE C == {m \in 0 .. N : back[m] \notin Bars}
  <2> SUFFICES C = {} OBVIOUS
  <2> SUFFICES ASSUME C # {} PROVE FALSE OBVIOUS
  <2>1. C \in SUBSET Nat BY <1>1
  <2> HIDE DEF C
  <2>2. PICK m \in C : \A n \in C : m <= n BY <2>1, LeastPlace
  <2>3. m \in 0 .. N /\ back[m] \notin Bars BY <2>2 DEF C
  <2>4. m # 0 BY <1>4, <1>9, <2>3
  <2>5. m - 1 \in 0 .. N /\ m \in 1 .. N /\ ~(m <= m - 1) BY <1>1, <2>3, <2>4
  <2>6. back[m - 1] \in Bars BY <2>2, <2>5 DEF C
  <2> QED BY <1>2, <1>9, <2>3, <2>5, <2>6
<1>11. back \in [0 .. N -> Bars] BY <1>8, <1>10
<1> QED BY <1>3, <1>9, <1>11 DEF N, Bars

\* However many editors come back, the views are the ones that were there.
LEMMA WithEditorsKeeps ==
  ASSUME NEW views \in Seq(ViewRecs), NEW edits \in Seq(EditRecs)
  PROVE  LET b == WithEditors(views, edits)[Len(edits)]
         IN  /\ b \in Seq(PageRecs) /\ Len(b) = Len(views) + Len(edits)
             /\ Cardinality(ViewPlaces(b)) = Len(views)
             /\ LogsOn(b) = {views[k].log : k \in DOMAIN views}
<1> DEFINE N == Len(edits)
           back == WithEditors(views, edits)
           Like(k, b) == /\ b \in Seq(PageRecs) /\ Len(b) = Len(views) + k
                         /\ Cardinality(ViewPlaces(b)) = Len(views)
                         /\ LogsOn(b) = {views[j].log : j \in DOMAIN views}
           C == {m \in 0 .. N : ~Like(m, back[m])}
<1>1. N \in Nat /\ \A k \in 1 .. N : edits[k] \in EditRecs OBVIOUS
<1>2. views \in Seq(PageRecs) /\ Len(views) \in Nat /\ DOMAIN views = 1 .. Len(views)
  BY DEF PageRecs
<1>3. /\ back[0] = views
      /\ \A k \in 1 .. N : back[k] = PutBack(back[k - 1], edits[k])
  BY <1>2, WithEditorsGrows
<1>4. Like(0, views)
  <2>1. \A k \in 1 .. Len(views) : views[k] \in ViewRecs BY <1>2
  <2>2. \A k \in 1 .. Len(views) : views[k].log # Absence
    BY <2>1, AbsenceIsNoPage DEF ViewRecs
  <2>3. ViewPlaces(views) = DOMAIN views BY <1>2, <2>2 DEF ViewPlaces
  <2>4. Cardinality(DOMAIN views) = Len(views) BY <1>2, AscendingInterval
  <2>5. LogsOn(views) = {views[j].log : j \in DOMAIN views} BY <2>3 DEF LogsOn
  <2> QED BY <1>2, <2>3, <2>4, <2>5
<1> SUFFICES C = {}
  <2>1. N \in 0 .. N BY <1>1
  <2>2. Like(N, back[N])
    <3> HIDE DEF Like, back, N
    <3> QED BY <2>1
  <2> QED BY <2>2
<1> SUFFICES ASSUME C # {} PROVE FALSE OBVIOUS
<1>5. C \in SUBSET Nat BY <1>1
<1> HIDE DEF C, N, back
<1>6. PICK m \in C : \A n \in C : m <= n BY <1>5, LeastPlace
<1>7. m \in 0 .. N /\ ~Like(m, back[m]) BY <1>6 DEF C
<1>8. m # 0
  <2> HIDE DEF Like
  <2> QED BY <1>3, <1>4, <1>7
<1>9. m - 1 \in 0 .. N /\ m \in 1 .. N /\ ~(m <= m - 1) /\ (m - 1) + 1 = m
  BY <1>1, <1>7, <1>8
<1>10. Like(m - 1, back[m - 1])
  <2> HIDE DEF Like
  <2> QED BY <1>6, <1>9 DEF C
<1> DEFINE b == back[m - 1]
           e == edits[m]
<1>11. b \in Seq(PageRecs) /\ e \in EditRecs BY <1>1, <1>9, <1>10
<1>12. back[m] = PutBack(b, e) BY <1>3, <1>9
<1>13. /\ Len(b) = Len(views) + (m - 1) /\ Cardinality(ViewPlaces(b)) = Len(views)
       /\ LogsOn(b) = {views[j].log : j \in DOMAIN views}
  BY <1>10
<1> HIDE DEF b, e
<1>14. /\ PutBack(b, e) \in Seq(PageRecs) /\ Len(PutBack(b, e)) = Len(b) + 1
       /\ Cardinality(ViewPlaces(PutBack(b, e))) = Cardinality(ViewPlaces(b))
       /\ LogsOn(PutBack(b, e)) = LogsOn(b)
  BY <1>11, PutBackKeeps
<1>15. Len(PutBack(b, e)) = Len(views) + m BY <1>2, <1>9, <1>13, <1>14
<1>16. Like(m, PutBack(b, e)) BY <1>13, <1>14, <1>15
<1> HIDE DEF Like
<1> QED BY <1>7, <1>12, <1>16

\* The editors that were on the bar.
EditPlaces(P) == {i \in DOMAIN P : P[i].cfg # Absence}

\* A page on the bar is a view or an editor.
LEMMA PagesAreEither ==
  ASSUME NEW P \in Seq(PageRecs)
  PROVE  /\ ViewPlaces(P) \cup EditPlaces(P) = DOMAIN P /\ ViewPlaces(P) \cap EditPlaces(P) = {}
         /\ \A i \in ViewPlaces(P) : P[i] \in ViewRecs
         /\ \A i \in EditPlaces(P) : P[i] \in EditorRecs /\ Editor(P[i].cfg, P[i].look) = P[i]
<1>1. \A x \in ViewRecs : x.log # Absence /\ x.cfg = Absence
  BY AbsenceIsNoPage DEF ViewRecs
<1>2. \A x \in EditorRecs : x.log = Absence /\ x.cfg # Absence /\ Editor(x.cfg, x.look) = x
  BY AbsenceIsNoPage DEF EditorRecs, Editor
<1>3. \A i \in DOMAIN P : P[i] \in ViewRecs \/ P[i] \in EditorRecs BY DEF PageRecs
<1> QED BY <1>1, <1>2, <1>3 DEF ViewPlaces, EditPlaces

\* What is put back from a bar as it was saved is that bar.
LEMMA BarComesBack ==
  ASSUME NEW P \in Seq(PageRecs), NEW edits \in Seq(EditRecs),
         Len(edits) = Cardinality(EditPlaces(P)),
         \A k \in 1 .. Len(edits) :
           LET i == Ascending(EditPlaces(P))[k]
           IN  edits[k].cfg = P[i].cfg /\ edits[k].at = i - 1 /\ edits[k].look = P[i].look
  PROVE  WithEditors(Those(P, ViewPlaces(P)), edits)[Len(edits)] = P
<1> DEFINE N == Len(edits)
           V == ViewPlaces(P)
           E == EditPlaces(P)
           at == Ascending(E)
           views == Those(P, V)
           back == WithEditors(views, edits)
           PutUpTo(k) == V \cup {at[j] : j \in 1 .. k}
           C == {m \in 0 .. N : back[m] # Those(P, PutUpTo(m))}
<1>1. N \in Nat /\ \A k \in 1 .. N : edits[k] \in EditRecs OBVIOUS
<1>2. /\ V \in SUBSET DOMAIN P /\ E \in SUBSET DOMAIN P /\ V \cup E = DOMAIN P /\ V \cap E = {}
      /\ \A i \in E : P[i] \in EditorRecs /\ Editor(P[i].cfg, P[i].look) = P[i]
  BY PagesAreEither DEF ViewPlaces, EditPlaces
<1>3. DOMAIN P = 1 .. Len(P) /\ Len(P) \in Nat OBVIOUS
<1>4. \A k \in 1 .. N : edits[k].cfg = P[at[k]].cfg /\ edits[k].at = at[k] - 1
                        /\ edits[k].look = P[at[k]].look
  OBVIOUS
<1> HIDE DEF V, E
<1>5. E \in SUBSET Nat /\ IsFiniteSet(E)
  <2>1. E \in SUBSET (1 .. Len(P)) /\ IsFiniteSet(1 .. Len(P)) BY <1>2, <1>3, FS_Interval
  <2>2. IsFiniteSet(E) BY <2>1, FS_Subset
  <2> QED BY <2>1, <2>2
<1>6. /\ at \in [1 .. N -> E]
      /\ \A i, j \in 1 .. N : i < j => at[i] < at[j]
      /\ \A x \in E : \E i \in 1 .. N : at[i] = x
  <2>1. N = Cardinality(E) BY DEF E
  <2> QED BY <1>5, <2>1, AscendingLists
<1> HIDE DEF at
<1>7. views \in Seq(PageRecs) BY <1>2, ThoseHave
<1>8. /\ back[0] = views
      /\ \A k \in 1 .. N : back[k] = PutBack(back[k - 1], edits[k])
  BY <1>7, WithEditorsGrows
<1> HIDE DEF N, views, back
<1>9. PutUpTo(0) = V OBVIOUS
<1>10. PutUpTo(N) = DOMAIN P
  <2>1. {at[j] : j \in 1 .. N} = E BY <1>6
  <2> QED BY <1>2, <2>1
<1> SUFFICES C = {}
  <2>1. N \in 0 .. N BY <1>1
  <2>2. back[N] = Those(P, DOMAIN P) BY <1>10, <2>1
  <2> QED BY <2>2, ThoseAll DEF N, views, back, V
<1> SUFFICES ASSUME C # {} PROVE FALSE OBVIOUS
<1>11. C \in SUBSET Nat BY <1>1
<1> HIDE DEF C
<1>12. PICK m \in C : \A n \in C : m <= n BY <1>11, LeastPlace
<1>13. m \in 0 .. N /\ back[m] # Those(P, PutUpTo(m)) BY <1>12 DEF C
<1>14. m # 0
  <2> HIDE DEF PutUpTo
  <2> QED BY <1>8, <1>9, <1>13 DEF views
<1>15. m - 1 \in 0 .. N /\ m \in 1 .. N /\ ~(m <= m - 1) BY <1>1, <1>13, <1>14
<1>16. back[m - 1] = Those(P, PutUpTo(m - 1))
  <2> HIDE DEF PutUpTo
  <2> QED BY <1>12, <1>15 DEF C
<1> DEFINE S == PutUpTo(m - 1)
           i == at[m]
           b == Those(P, S)
           e == edits[m]
<1>17. i \in E /\ i \in DOMAIN P /\ i \in Nat /\ i > 0 BY <1>2, <1>3, <1>6, <1>15
<1>18. PutUpTo(m) = S \cup {i}
  <2>1. \A j \in 1 .. m : j \in 1 .. (m - 1) \/ j = m BY <1>15
  <2>2. m \in 1 .. m /\ \A j \in 1 .. (m - 1) : j \in 1 .. m BY <1>15
  <2> QED BY <2>1, <2>2
<1>19. S \in SUBSET DOMAIN P
  <2>1. \A j \in 1 .. (m - 1) : j \in 1 .. N BY <1>1, <1>15
  <2> QED BY <1>2, <1>6, <2>1
<1>20. i \notin S
  <2>1. \A j \in 1 .. (m - 1) : j \in 1 .. N /\ j < m BY <1>1, <1>15
  <2>2. \A j \in 1 .. (m - 1) : at[j] < i /\ at[j] \in Nat BY <1>5, <1>6, <1>15, <2>1
  <2>3. \A j \in 1 .. (m - 1) : at[j] # i BY <1>17, <2>2
  <2> HIDE DEF i
  <2> QED BY <1>2, <1>17, <2>3
<1>21. 1 .. (i - 1) \in SUBSET S
  <2> SUFFICES ASSUME NEW x \in 1 .. (i - 1) PROVE x \in S OBVIOUS
  <2>1. x \in DOMAIN P /\ x < i /\ x \in Nat BY <1>3, <1>17
  <2>2. CASE x \in V BY <2>2
  <2>3. CASE x \in E
    <3>1. PICK j \in 1 .. N : at[j] = x BY <1>6, <2>3
    <3>2. ~(m < j) /\ m # j
      <4>1. m < j => at[m] < at[j] BY <1>6, <1>15
      <4>2. ~(at[m] < at[j]) /\ at[m] # at[j] BY <1>17, <2>1, <3>1
      <4> QED BY <4>1, <4>2
    <3>3. j \in 1 .. (m - 1) BY <1>15, <3>2
    <3> QED BY <3>1, <3>3
  <2> QED BY <1>2, <2>1, <2>2, <2>3
<1>22. e \in EditRecs /\ e.cfg = P[i].cfg /\ e.at = i - 1 /\ e.look = P[i].look
  BY <1>1, <1>4, <1>15
<1>23. back[m] = PutBack(b, e) BY <1>8, <1>15, <1>16
<1>24. P[i] = Editor(e.cfg, e.look) BY <1>2, <1>17, <1>22
<1> HIDE DEF S, i, e, PutUpTo
<1>25. b \in Seq(PageRecs) /\ Len(b) \in Nat BY <1>19, ThoseHave
<1>26. Len(b) >= i - 1 /\ Those(P, S \cup {i}) = InsertAt(b, i, P[i])
  BY <1>17, <1>19, <1>20, <1>21, ThoseGrow
<1> HIDE DEF b
<1>27. 1 + (IF e.at < Len(b) THEN e.at ELSE Len(b)) = i BY <1>17, <1>22, <1>25, <1>26
<1>28. PutBack(b, e) = InsertAt(b, i, P[i]) BY <1>24, <1>27 DEF PutBack
<1> QED BY <1>13, <1>18, <1>23, <1>26, <1>28

\* What a session gives back: pages, the views among them, and the logs of the views.
Regained(r) ==
  /\ r.views \in Seq(ViewRecs) /\ r.pages \in Seq(PageRecs) /\ r.open \in Seq(Files)
  /\ Len(r.pages) <= Cardinality(Tabs)
  /\ Cardinality(ViewPlaces(r.pages)) = Len(r.views)
  /\ LogsOn(r.pages) = ToSet(r.open)
  /\ Len(r.views) > 0 => r.raise \in 1 .. Len(r.views)

\* The logs at their first places are all the logs.
LEMMA FirstOfEach ==
  ASSUME NEW views \in Seq(ViewRecs)
  PROVE  LET first == {k \in DOMAIN views : \A j \in 1 .. (k - 1) : views[j].log # views[k].log}
             logs  == [k \in DOMAIN views |-> views[k].log]
         IN  /\ Those(logs, first) \in Seq(Files)
             /\ ToSet(Those(logs, first)) = {views[k].log : k \in DOMAIN views}
<1> DEFINE first == {k \in DOMAIN views : \A j \in 1 .. (k - 1) : views[j].log # views[k].log}
           logs  == [k \in DOMAIN views |-> views[k].log]
<1>1. DOMAIN views = 1 .. Len(views) /\ Len(views) \in Nat OBVIOUS
<1>2. \A k \in DOMAIN views : views[k] \in ViewRecs OBVIOUS
<1>3. \A k \in DOMAIN views : views[k].log \in Files BY <1>2 DEF ViewRecs
<1>4. logs \in Seq(Files) /\ DOMAIN logs = DOMAIN views
      /\ \A k \in DOMAIN views : logs[k] = views[k].log
  BY <1>1, <1>3
<1>5. first \in SUBSET DOMAIN views OBVIOUS
<1>6. ASSUME NEW k \in DOMAIN views PROVE \E j \in first : views[j].log = views[k].log
  <2> DEFINE L == {j \in DOMAIN views : views[j].log = views[k].log}
  <2>1. L \in SUBSET Nat /\ k \in L BY <1>1
  <2> HIDE DEF L
  <2>2. PICK j \in L : \A i \in L : j <= i BY <2>1, LeastPlace
  <2>3. j \in DOMAIN views /\ views[j].log = views[k].log BY <2>2 DEF L
  <2>4. \A i \in 1 .. (j - 1) : i \in DOMAIN views /\ ~(j <= i) BY <1>1, <2>3
  <2>5. \A i \in 1 .. (j - 1) : views[i].log # views[j].log BY <2>2, <2>3, <2>4 DEF L
  <2>6. j \in first BY <2>3, <2>5
  <2> QED BY <2>3, <2>6
<1> HIDE DEF first, logs
<1>7. Those(logs, first) \in Seq(Files) /\ ToSet(Those(logs, first)) = {logs[i] : i \in first}
  BY <1>4, <1>5, ThoseHave
<1>8. {logs[i] : i \in first} = {views[k].log : k \in DOMAIN views}
  <2>1. \A i \in first : i \in DOMAIN views /\ logs[i] = views[i].log BY <1>4, <1>5
  <2>2. \A k \in DOMAIN views : \E j \in first : logs[j] = views[k].log BY <1>6, <2>1
  <2> QED BY <2>1, <2>2
<1> QED BY <1>7, <1>8 DEF first, logs

\* A session, whatever is refused, gives back pages that hang together.
LEMMA RestoredHolds ==
  ASSUME NEW s, GoodSession(s), NEW refused
  PROVE  Regained(Restored(s, refused))
<1> DEFINE K == {i \in DOMAIN s.views : s.docs[s.views[i].doc] \notin refused}
           keep == Ascending(K)
           n == Cardinality(K)
           views == [k \in DOMAIN keep |->
                      View(s.docs[s.views[keep[k]].doc], s.views[keep[k]].look)]
           M == {i \in DOMAIN s.editors : s.editors[i].cfg \notin refused}
           edits == Those(s.editors, M)
           first == {k \in DOMAIN views : \A j \in 1 .. (k - 1) : views[j].log # views[k].log}
           logs == [k \in DOMAIN views |-> views[k].log]
           b == WithEditors(views, edits)[Len(edits)]
           r == Restored(s, refused)
<1>1. /\ s.docs \in Seq(Files) /\ s.views \in Seq([doc : Nat, look : {0, 1}])
      /\ s.editors \in Seq(EditRecs) /\ s.activeView \in Nat
      /\ \A i \in DOMAIN s.views : s.views[i].doc \in DOMAIN s.docs
      /\ Len(s.views) + Len(s.editors) <= Cardinality(Tabs)
  BY DEF GoodSession, Sessions, EditRecs
<1>2. K \in SUBSET (1 .. Len(s.views)) /\ Len(s.views) \in Nat /\ K \in SUBSET DOMAIN s.views
      /\ K \in SUBSET Nat
  BY <1>1
<1>3. \A i \in DOMAIN s.views : s.docs[s.views[i].doc] \in Files /\ s.views[i].look \in {0, 1}
  <2> SUFFICES ASSUME NEW i \in DOMAIN s.views
               PROVE  s.docs[s.views[i].doc] \in Files /\ s.views[i].look \in {0, 1}
    OBVIOUS
  <2> DEFINE v == s.views
             VR == [doc : Nat, look : {0, 1}]
  <2>3. v \in Seq(VR) /\ i \in DOMAIN v /\ v[i].doc \in DOMAIN s.docs BY <1>1
  <2> HIDE DEF v, VR
  <2>4. v[i] \in VR BY <2>3
  <2>1. s.views[i] \in [doc : Nat, look : {0, 1}] /\ s.views[i].doc \in DOMAIN s.docs
    BY <2>3, <2>4 DEF v, VR
  <2>2. s.docs[s.views[i].doc] \in Files BY <1>1, <2>1
  <2> QED BY <2>1, <2>2
<1>4. M \in SUBSET (1 .. Len(s.editors)) /\ Len(s.editors) \in Nat /\ M \in SUBSET DOMAIN s.editors
  BY <1>1
<1>5. /\ r.pages = b /\ r.views = views /\ r.open = Those(logs, first)
      /\ r.raise = IF (s.activeView + 1) \in ToSet(keep) THEN PlaceOf(keep, s.activeView + 1) ELSE 1
  BY DEF Restored
<1> HIDE DEF K, M, r
<1>6. IsFiniteSet(1 .. Len(s.views)) /\ Cardinality(1 .. Len(s.views)) = Len(s.views)
  BY <1>2, AscendingInterval
<1>7. IsFiniteSet(K) /\ n <= Len(s.views) BY <1>2, <1>6, FS_Subset
<1>8. n \in Nat /\ keep \in [1 .. n -> K] BY <1>2, <1>7, AscendingLists
<1> HIDE DEF n, keep
<1>9. views \in Seq(ViewRecs) /\ Len(views) = n
  <2>1. \A k \in 1 .. n : keep[k] \in DOMAIN s.views BY <1>2, <1>8
  <2>2. \A k \in 1 .. n :
          View(s.docs[s.views[keep[k]].doc], s.views[keep[k]].look) \in ViewRecs
    BY <1>3, <2>1 DEF View, ViewRecs
  <2> QED BY <1>8, <2>2
<1>10. edits \in Seq(EditRecs) /\ Len(edits) <= Len(s.editors)
  <2>1. edits \in Seq(EditRecs) /\ Len(edits) = Cardinality(M) BY <1>1, <1>4, ThoseHave
  <2>2. IsFiniteSet(1 .. Len(s.editors)) /\ Cardinality(1 .. Len(s.editors)) = Len(s.editors)
    BY <1>4, AscendingInterval
  <2>3. Cardinality(M) <= Len(s.editors) BY <1>4, <2>2, FS_Subset
  <2> QED BY <2>1, <2>3
<1>11. Those(logs, first) \in Seq(Files)
       /\ ToSet(Those(logs, first)) = {views[k].log : k \in DOMAIN views}
  <2> HIDE DEF views
  <2> QED BY <1>9, FirstOfEach
<1> HIDE DEF views, edits, logs, first
<1>12. /\ b \in Seq(PageRecs) /\ Len(b) = Len(views) + Len(edits)
       /\ Cardinality(ViewPlaces(b)) = Len(views)
       /\ LogsOn(b) = {views[k].log : k \in DOMAIN views}
  BY <1>9, <1>10, WithEditorsKeeps
<1> HIDE DEF b
<1>13. Len(b) <= Cardinality(Tabs)
  <2>1. Cardinality(Tabs) \in Nat BY TabsAssumption, FS_CardinalityType
  <2>2. Len(edits) \in Nat BY <1>10
  <2>3. Len(b) = n + Len(edits) /\ Len(s.views) \in Nat /\ Len(s.editors) \in Nat
        /\ Len(s.views) + Len(s.editors) <= Cardinality(Tabs)
    BY <1>1, <1>2, <1>4, <1>9, <1>12
  <2> DEFINE x == Len(edits)
             y == Len(s.editors)
             z == Len(s.views)
             c == Cardinality(Tabs)
  <2>4. Len(b) = n + x /\ z \in Nat /\ y \in Nat /\ z + y <= c /\ n <= z /\ x <= y /\ x \in Nat
        /\ n \in Nat /\ c \in Nat
    BY <1>7, <1>8, <1>10, <2>1, <2>2, <2>3
  <2> HIDE DEF x, y, z, c
  <2>5. Len(b) <= c BY <2>4
  <2> QED BY <2>5 DEF c
<1>14. n > 0 => r.raise \in 1 .. n
  <2>1. 1 .. n = DOMAIN keep BY <1>8
  <2>2. (s.activeView + 1) \in ToSet(keep) => PlaceOf(keep, s.activeView + 1) \in DOMAIN keep
    BY DEF ToSet, PlaceOf
  <2> QED BY <1>5, <1>8, <2>1, <2>2
<1> QED BY <1>5, <1>9, <1>11, <1>12, <1>13, <1>14 DEF Regained, r

\* The session is that of a window with these pages.
SaidOf(s, P) ==
  /\ s \in Sessions /\ s.docs \in Seq(Files) /\ s.editors \in Seq(EditRecs)
  /\ s.activeView \in Nat /\ s.activeTab \in Nat
  /\ Len(s.views) \in Nat /\ DOMAIN s.views = 1 .. Len(s.views)
  /\ Len(s.views) = Cardinality(ViewPlaces(P)) /\ Len(s.editors) = Cardinality(EditPlaces(P))
  /\ \A k \in 1 .. Len(s.views) :
       LET i == Ascending(ViewPlaces(P))[k]
       IN  /\ s.views[k].doc \in DOMAIN s.docs
           /\ s.docs[s.views[k].doc] = P[i].log /\ s.views[k].look = P[i].look
  /\ \A k \in 1 .. Len(s.editors) :
       LET i == Ascending(EditPlaces(P))[k]
       IN  s.editors[k].cfg = P[i].cfg /\ s.editors[k].at = i - 1 /\ s.editors[k].look = P[i].look

\* With nothing refused a session gives back the pages it was saved of.
LEMMA RestoredIs ==
  ASSUME NEW P \in Seq(PageRecs), NEW s, SaidOf(s, P)
  PROVE  /\ Restored(s, {}).pages = P
         /\ Len(Restored(s, {}).views) = Cardinality(ViewPlaces(P))
         /\ s.activeView < Cardinality(ViewPlaces(P)) =>
              Restored(s, {}).raise = s.activeView + 1
<1> DEFINE K == {i \in DOMAIN s.views : s.docs[s.views[i].doc] \notin {}}
           keep == Ascending(K)
           views == [k \in DOMAIN keep |->
                      View(s.docs[s.views[keep[k]].doc], s.views[keep[k]].look)]
           M == {i \in DOMAIN s.editors : s.editors[i].cfg \notin {}}
           edits == Those(s.editors, M)
           r == Restored(s, {})
           V == ViewPlaces(P)
           at == Ascending(V)
           n == Len(s.views)
           b == WithEditors(views, edits)[Len(edits)]
<1>1. /\ s.editors \in Seq(EditRecs) /\ s.activeView \in Nat
      /\ n \in Nat /\ DOMAIN s.views = 1 .. n /\ n = Cardinality(V)
      /\ Len(s.editors) = Cardinality(EditPlaces(P))
  BY DEF SaidOf
<1>2. \A k \in 1 .. n : s.docs[s.views[k].doc] = P[at[k]].log /\ s.views[k].look = P[at[k]].look
  BY DEF SaidOf
<1>3. \A k \in 1 .. Len(s.editors) :
        LET i == Ascending(EditPlaces(P))[k]
        IN  s.editors[k].cfg = P[i].cfg /\ s.editors[k].at = i - 1 /\ s.editors[k].look = P[i].look
  BY DEF SaidOf
<1>4. r.pages = b /\ r.views = views
      /\ r.raise = IF (s.activeView + 1) \in ToSet(keep) THEN PlaceOf(keep, s.activeView + 1) ELSE 1
  BY DEF Restored
<1>5. K = 1 .. n BY <1>1
<1>6. M = DOMAIN s.editors OBVIOUS
<1> HIDE DEF K, M, n, r
<1>7. keep = [k \in 1 .. n |-> k] BY <1>1, <1>5, AscendingInterval
<1>8. edits = s.editors BY <1>1, <1>6, ThoseAll
<1>9. V \in SUBSET DOMAIN P /\ \A i \in V : P[i] \in ViewRecs
  BY PagesAreEither DEF ViewPlaces
<1> HIDE DEF V
<1>10. /\ at \in [1 .. n -> V] /\ Those(P, V) \in Seq(PageRecs) /\ Len(Those(P, V)) = n
       /\ \A k \in 1 .. n : Those(P, V)[k] = P[at[k]]
  BY <1>1, <1>9, ThoseHave
<1> HIDE DEF at
<1>11. views = Those(P, V)
  <2>1. DOMAIN keep = 1 .. n /\ \A k \in 1 .. n : keep[k] = k BY <1>7
  <2> HIDE DEF keep
  <2>2. ASSUME NEW k \in 1 .. n
        PROVE  View(s.docs[s.views[keep[k]].doc], s.views[keep[k]].look) = P[at[k]]
    <3>1. P[at[k]] \in ViewRecs BY <1>9, <1>10
    <3>2. keep[k] = k /\ s.docs[s.views[k].doc] = P[at[k]].log /\ s.views[k].look = P[at[k]].look
      BY <1>2, <2>1
    <3> DEFINE x == P[at[k]]
               f == s.docs[s.views[k].doc]
               l == s.views[k].look
    <3>3. View(s.docs[s.views[keep[k]].doc], s.views[keep[k]].look) = View(f, l) BY <3>2
    <3>4. x \in ViewRecs /\ f = x.log /\ l = x.look BY <3>1, <3>2
    <3> HIDE DEF x, f, l
    <3>5. View(f, l) = x BY <3>4 DEF View, ViewRecs
    <3> QED BY <3>3, <3>5 DEF x
  <2>3. views = [k \in 1 .. n |-> P[at[k]]] BY <2>1, <2>2
  <2> HIDE DEF views
  <2>4. DOMAIN Those(P, V) = 1 .. n BY <1>10
  <2>5. Those(P, V) = [k \in 1 .. n |-> P[at[k]]] BY <1>10, <2>4
  <2> QED BY <2>3, <2>5
<1> HIDE DEF views, edits
<1>12. Len(views) = n BY <1>10, <1>11
<1>13. b = P
  <2>1. b = WithEditors(Those(P, ViewPlaces(P)), s.editors)[Len(s.editors)]
    BY <1>8, <1>11 DEF V
  <2>2. WithEditors(Those(P, ViewPlaces(P)), s.editors)[Len(s.editors)] = P
    BY <1>1, <1>3, BarComesBack
  <2> QED BY <2>1, <2>2
<1>14. s.activeView < n => r.raise = s.activeView + 1
  <2> SUFFICES ASSUME s.activeView < n PROVE r.raise = s.activeView + 1 OBVIOUS
  <2> DEFINE a == s.activeView + 1
  <2>1. a \in 1 .. n BY <1>1
  <2>2. DOMAIN keep = 1 .. n /\ \A k \in 1 .. n : keep[k] = k BY <1>7
  <2> HIDE DEF keep, a
  <2>3. a \in ToSet(keep) BY <2>1, <2>2 DEF ToSet
  <2>4. PlaceOf(keep, a) = a BY <2>1, <2>2 DEF PlaceOf
  <2> QED BY <1>4, <2>3, <2>4 DEF a
<1> QED BY <1>1, <1>4, <1>12, <1>13, <1>14 DEF r, V

\* Where something is found in a sequence that has it.
LEMMA PlaceFound ==
  ASSUME NEW T, NEW s \in Seq(T), NEW x \in ToSet(s)
  PROVE  /\ PlaceOf(s, x) \in DOMAIN s /\ s[PlaceOf(s, x)] = x
         /\ PlaceOf(s, x) \in Nat /\ PlaceOf(s, x) - 1 \in Nat
         /\ PlaceOf(s, x) - 1 < Len(s)
<1>1. \E i \in DOMAIN s : s[i] = x BY DEF ToSet
<1>2. PlaceOf(s, x) \in DOMAIN s /\ s[PlaceOf(s, x)] = x BY <1>1 DEF PlaceOf
<1>3. DOMAIN s = 1 .. Len(s) /\ Len(s) \in Nat OBVIOUS
<1> QED BY <1>2, <1>3

\* The pages on the bar, from the left.
\* The pages of a bar, in its order.
PagesOf(b, p) == [i \in DOMAIN b |-> p[b[i]]]

\* The pages of a well kept bar are views and editors, one at each place of it.
LEMMA PagesHave ==
  ASSUME NEW b, NEW p, BarKept(b, p)
  PROVE  /\ PagesOf(b, p) \in Seq(PageRecs) /\ DOMAIN PagesOf(b, p) = DOMAIN b
         /\ Len(PagesOf(b, p)) = Len(b) /\ \A i \in DOMAIN b : PagesOf(b, p)[i] = p[b[i]]
<1>1. b \in Seq(Tabs) /\ \A t \in ToSet(b) : p[t] \in PageRecs BY DEF BarKept
<1>2. \A i \in DOMAIN b : p[b[i]] \in PageRecs BY <1>1 DEF ToSet
<1>3. DOMAIN b = 1 .. Len(b) /\ Len(b) \in Nat BY <1>1
<1> QED BY <1>2, <1>3 DEF PagesOf

\* The places of a member are one.
LEMMA PlaceIs ==
  ASSUME NEW s, IsInjective(s), NEW i \in DOMAIN s
  PROVE  PlaceOf(s, s[i]) = i
<1>1. \A j \in DOMAIN s : s[j] = s[i] => j = i BY DEF IsInjective
<1>2. PlaceOf(s, s[i]) \in DOMAIN s /\ s[PlaceOf(s, s[i])] = s[i] BY DEF PlaceOf
<1> QED BY <1>1, <1>2

\* Every log of a view on the bar is open.
LEMMA ViewsAreOfOpenLogs ==
  ASSUME NEW b, NEW p, NEW m, NEW o, BarKept(b, p), MadeKept(b, p, m), OpenKept(p, m, o)
  PROVE  \A i \in ViewPlaces(PagesOf(b, p)) : i \in DOMAIN b /\ b[i] \in ToSet(m) /\ p[b[i]].log \in ToSet(o)
<1>1. DOMAIN PagesOf(b, p) = DOMAIN b /\ \A i \in DOMAIN b : PagesOf(b, p)[i] = p[b[i]]
  BY PagesHave
<1>2. ToSet(m) = {t \in ToSet(b) : p[t].log # Absence} BY DEF MadeKept
<1>3. ToSet(o) = {p[t].log : t \in ToSet(m)} BY DEF OpenKept
<1>4. \A i \in DOMAIN b : b[i] \in ToSet(b) BY DEF ToSet
<1> QED BY <1>1, <1>2, <1>3, <1>4 DEF ViewPlaces

\* What a quit saves is the session of the window it ends.
LEMMA SavedHas ==
  ASSUME BarKept(bar, page), MadeKept(bar, page, made), OpenKept(page, made, opened),
         PanesKept
  PROVE  SaidOf(Saved, PagesOf(bar, page)) /\ Saved.layout = PersistableLayout
<1> DEFINE P == PagesOf(bar, page)
           V == ViewPlaces(P)
           E == EditPlaces(P)
           at == Ascending(V)
           to == Ascending(E)
           views == Those(bar, V)
           edits == Those(bar, E)
           Kept(i) == [doc |-> PlaceOf(opened, page[views[i]].log), look |-> page[views[i]].look]
           EditAt(i) == [cfg |-> page[edits[i]].cfg, at |-> PlaceOf(bar, edits[i]) - 1,
                       look |-> page[edits[i]].look]
           sv == [i \in DOMAIN views |-> Kept(i)]
           se == [i \in DOMAIN edits |-> EditAt(i)]
           av == IF active \in ToSet(views) THEN PlaceOf(views, active) - 1 ELSE 0
           atab == IF front \in ToSet(bar) THEN PlaceOf(bar, front) - 1 ELSE 0
           VR == [doc : Nat, look : {0, 1}]
<1>1. /\ P \in Seq(PageRecs) /\ DOMAIN P = DOMAIN bar
      /\ \A i \in DOMAIN bar : P[i] = page[bar[i]]
  BY PagesHave
<1>2. V = {i \in DOMAIN bar : page[bar[i]].log # Absence}
      /\ E = {i \in DOMAIN bar : page[bar[i]].cfg # Absence}
  BY <1>1 DEF ViewPlaces, EditPlaces
<1>3. Saved = [docs |-> opened, views |-> sv, editors |-> se, activeView |-> av,
               activeTab |-> atab, layout |-> PersistableLayout]
  BY <1>2 DEF Saved, InTabOrder
<1>4. bar \in Seq(Tabs) /\ IsInjective(bar) /\ opened \in Seq(Files)
  BY DEF BarKept, OpenKept
<1>5. \A i \in V : P[i] \in ViewRecs BY <1>1, PagesAreEither
<1>6. \A i \in E : P[i] \in EditorRecs BY <1>1, PagesAreEither
<1>7. \A i \in V : page[bar[i]].log \in ToSet(opened) BY ViewsAreOfOpenLogs
<1>8. V \in SUBSET DOMAIN bar /\ E \in SUBSET DOMAIN bar BY <1>2
<1> DEFINE n == Cardinality(V)
           m == Cardinality(E)
<1> HIDE DEF V, E
<1>9. /\ n \in Nat /\ at \in [1 .. n -> V] /\ views \in Seq(Tabs) /\ Len(views) = n
      /\ \A k \in 1 .. n : views[k] = bar[at[k]]
  BY <1>4, <1>8, ThoseHave
<1>10. /\ m \in Nat /\ to \in [1 .. m -> E] /\ edits \in Seq(Tabs) /\ Len(edits) = m
       /\ \A k \in 1 .. m : edits[k] = bar[to[k]]
  BY <1>4, <1>8, ThoseHave
<1>11. DOMAIN views = 1 .. n /\ DOMAIN edits = 1 .. m BY <1>9, <1>10
<1> HIDE DEF P, n, m, at, to, views, edits
<1>12. ASSUME NEW k \in 1 .. n
       PROVE  /\ Kept(k) \in VR /\ Kept(k).doc \in DOMAIN opened
              /\ opened[Kept(k).doc] = P[at[k]].log /\ Kept(k).look = P[at[k]].look
  <2>1. at[k] \in V /\ views[k] = bar[at[k]] /\ P[at[k]] = page[bar[at[k]]]
    BY <1>1, <1>8, <1>9
  <2>2. P[at[k]] \in ViewRecs /\ P[at[k]].log \in ToSet(opened) BY <1>5, <1>7, <2>1
  <2> DEFINE x == P[at[k]]
  <2>3. Kept(k) = [doc |-> PlaceOf(opened, x.log), look |-> x.look] BY <2>1
  <2>4. x \in ViewRecs /\ x.log \in ToSet(opened) BY <2>2
  <2> HIDE DEF x, Kept
  <2>5. PlaceOf(opened, x.log) \in DOMAIN opened /\ opened[PlaceOf(opened, x.log)] = x.log
        /\ PlaceOf(opened, x.log) \in Nat
    BY <1>4, <2>4, PlaceFound
  <2>6. x.look \in {0, 1} BY <2>4 DEF ViewRecs
  <2> QED BY <2>3, <2>5, <2>6 DEF x
<1>13. ASSUME NEW k \in 1 .. m
       PROVE  /\ EditAt(k) \in EditRecs
              /\ EditAt(k).cfg = P[to[k]].cfg /\ EditAt(k).at = to[k] - 1
              /\ EditAt(k).look = P[to[k]].look
  <2>1. to[k] \in E /\ to[k] \in DOMAIN bar /\ edits[k] = bar[to[k]] /\ P[to[k]] = page[bar[to[k]]]
    BY <1>1, <1>8, <1>10
  <2>2. P[to[k]] \in EditorRecs BY <1>6, <2>1
  <2> DEFINE x == P[to[k]]
  <2>3. EditAt(k) = [cfg |-> x.cfg, at |-> PlaceOf(bar, bar[to[k]]) - 1, look |-> x.look]
    BY <2>1
  <2>4. x \in EditorRecs BY <2>2
  <2>5. PlaceOf(bar, bar[to[k]]) = to[k] BY <1>4, <2>1, PlaceIs
  <2>6. to[k] \in 1 .. Len(bar) /\ to[k] - 1 \in Nat BY <1>4, <2>1
  <2> HIDE DEF x, EditAt
  <2>7. x.look \in {0, 1} /\ x.cfg \in Configs BY <2>4 DEF EditorRecs
  <2> QED BY <2>3, <2>5, <2>6, <2>7 DEF x, EditRecs
<1>14. sv = [k \in 1 .. n |-> Kept(k)] /\ se = [k \in 1 .. m |-> EditAt(k)] BY <1>11
<1> HIDE DEF Kept, EditAt, sv, se, VR
<1>15. sv \in Seq(VR) /\ Len(sv) = n /\ DOMAIN sv = 1 .. n /\ \A k \in 1 .. n : sv[k] = Kept(k)
  BY <1>9, <1>12, <1>14
<1>16. se \in Seq(EditRecs) /\ Len(se) = m /\ \A k \in 1 .. m : se[k] = EditAt(k)
  BY <1>10, <1>13, <1>14
<1>17. av \in Nat
  <2>1. CASE active \in ToSet(views) BY <1>9, <2>1, PlaceFound
  <2> QED BY <2>1
<1>18. atab \in Nat
  <2>1. CASE front \in ToSet(bar) BY <1>4, <2>1, PlaceFound
  <2> QED BY <2>1
<1>19. PersistableLayout \in SUBSET Docks BY DEF PersistableLayout, PanesKept
<1> HIDE DEF av, atab
<1>20. Saved \in Sessions
  BY <1>3, <1>4, <1>15, <1>16, <1>17, <1>18, <1>19 DEF Sessions, VR, EditRecs
<1>21. /\ Saved.docs = opened /\ Saved.views = sv /\ Saved.editors = se
       /\ Saved.activeView = av /\ Saved.activeTab = atab /\ Saved.layout = PersistableLayout
  BY <1>3
<1>22. n = Cardinality(ViewPlaces(P)) /\ m = Cardinality(EditPlaces(P))
       /\ at = Ascending(ViewPlaces(P)) /\ to = Ascending(EditPlaces(P))
  BY DEF n, m, at, to, V, E
<1> DEFINE s == Saved
<1> HIDE DEF s
<1>23. /\ s \in Sessions /\ s.docs = opened /\ s.views = sv /\ s.editors = se
       /\ s.activeView = av /\ s.activeTab = atab
  BY <1>20, <1>21 DEF s
<1>24. /\ s \in Sessions /\ s.docs \in Seq(Files) /\ s.editors \in Seq(EditRecs)
       /\ s.activeView \in Nat /\ s.activeTab \in Nat
       /\ Len(s.views) \in Nat /\ DOMAIN s.views = 1 .. Len(s.views)
       /\ Len(s.views) = Cardinality(ViewPlaces(P)) /\ Len(s.editors) = Cardinality(EditPlaces(P))
  BY <1>4, <1>9, <1>15, <1>16, <1>17, <1>18, <1>22, <1>23
<1>25. ASSUME NEW k \in 1 .. Len(s.views)
       PROVE  LET i == Ascending(ViewPlaces(P))[k]
              IN  /\ s.views[k].doc \in DOMAIN s.docs
                  /\ s.docs[s.views[k].doc] = P[i].log /\ s.views[k].look = P[i].look
  <2>1. k \in 1 .. n BY <1>15, <1>23
  <2> QED BY <1>12, <1>15, <1>22, <1>23, <2>1
<1>26. ASSUME NEW k \in 1 .. Len(s.editors)
       PROVE  LET i == Ascending(EditPlaces(P))[k]
              IN  s.editors[k].cfg = P[i].cfg /\ s.editors[k].at = i - 1
                  /\ s.editors[k].look = P[i].look
  <2>1. k \in 1 .. m BY <1>16, <1>23
  <2> QED BY <1>13, <1>16, <1>22, <1>23, <2>1
<1>27. SaidOf(s, P) BY <1>24, <1>25, <1>26 DEF SaidOf
<1> QED BY <1>21, <1>27 DEF s, P

\* No place on the bar is Absence, and there are no more places than pages.
LEMMA PlacesArePages ==
  ASSUME NEW b, NEW p, BarKept(b, p)
  PROVE  /\ Len(b) \in Nat /\ Cardinality(Tabs) \in Nat /\ Len(b) <= Cardinality(Tabs)
         /\ DOMAIN b = 1 .. Len(b)
         /\ \A i \in 1 .. Len(b) : i # Absence
<1>1. b \in Seq(Tabs) /\ IsInjective(b) BY DEF BarKept
<1>2. Len(b) \in Nat /\ DOMAIN b = 1 .. Len(b) /\ \A i \in 1 .. Len(b) : b[i] \in Tabs
  BY <1>1
<1>3. IsFiniteSet(Tabs) /\ Tabs = 1 .. Cardinality(Tabs) /\ Cardinality(Tabs) \in Nat
  BY TabsAssumption, FS_CardinalityType
<1>4. b \in Injection(1 .. Len(b), Tabs) BY <1>1, <1>2 DEF Injection, IsInjective
<1>5. Cardinality(1 .. Len(b)) <= Cardinality(Tabs) BY <1>3, <1>4, FS_Injection
<1>6. Len(b) <= Cardinality(Tabs) BY <1>2, <1>5, AscendingInterval
<1>7. \A i \in 1 .. Len(b) : i \in Tabs BY <1>2, <1>3, <1>6
<1> QED BY <1>2, <1>3, <1>6, <1>7, AbsenceIsNoPage

\* The session a quit saves is one that a launch can read.
LEMMA SavedIsGood ==
  ASSUME BarKept(bar, page), MadeKept(bar, page, made), OpenKept(page, made, opened),
         PanesKept
  PROVE  GoodSession(Saved)
<1> DEFINE P == PagesOf(bar, page)
           V == ViewPlaces(P)
           E == EditPlaces(P)
           s == Saved
<1>1. SaidOf(s, P) BY SavedHas
<1>2. P \in Seq(PageRecs) /\ DOMAIN P = DOMAIN bar BY PagesHave
<1>3. Len(bar) \in Nat /\ Len(bar) <= Cardinality(Tabs) /\ DOMAIN bar = 1 .. Len(bar)
      /\ Cardinality(Tabs) \in Nat
  BY PlacesArePages
<1>4. V \cup E = 1 .. Len(bar) /\ V \cap E = {} BY <1>2, <1>3, PagesAreEither
<1> HIDE DEF P, s
<1>5. /\ s \in Sessions /\ DOMAIN s.views = 1 .. Len(s.views)
      /\ Len(s.views) = Cardinality(V) /\ Len(s.editors) = Cardinality(E)
      /\ \A i \in 1 .. Len(s.views) : s.views[i].doc \in DOMAIN s.docs
  BY <1>1 DEF SaidOf
<1> HIDE DEF V, E
<1>6. Cardinality(V) + Cardinality(E) = Len(bar)
  <2>1. IsFiniteSet(1 .. Len(bar)) /\ Cardinality(1 .. Len(bar)) = Len(bar)
    BY <1>3, AscendingInterval
  <2>2. V \in SUBSET (1 .. Len(bar)) /\ E \in SUBSET (1 .. Len(bar)) BY <1>4
  <2>3. IsFiniteSet(V) /\ IsFiniteSet(E) BY <2>1, <2>2, FS_Subset
  <2>4. Cardinality(V \cup E) = Cardinality(V) + Cardinality(E) - Cardinality(V \cap E)
    BY <2>3, FS_Union
  <2>5. Cardinality(V \cap E) = 0 BY <1>4, FS_EmptySet
  <2>6. Cardinality(V) \in Nat /\ Cardinality(E) \in Nat BY <2>3, FS_CardinalityType
  <2>7. Cardinality(V \cup E) = Len(bar) BY <1>4, <2>1
  <2> QED BY <2>4, <2>5, <2>6, <2>7
<1>7. Len(s.views) + Len(s.editors) <= Cardinality(Tabs) BY <1>3, <1>5, <1>6
<1>8. GoodSession(s) BY <1>5, <1>7 DEF GoodSession
<1> QED BY <1>8 DEF s

\* The session knows the active view by its place among the views.
LEMMA SavedActive ==
  ASSUME BarKept(bar, page), MadeKept(bar, page, made), active \in ToSet(made)
  PROVE  LET V == ViewPlaces(PagesOf(bar, page))
         IN  \E k \in 1 .. Cardinality(V) :
               Saved.activeView = k - 1 /\ bar[Ascending(V)[k]] = active
<1> DEFINE P == PagesOf(bar, page)
           V == ViewPlaces(P)
           views == Those(bar, V)
<1>1. DOMAIN P = DOMAIN bar /\ \A i \in DOMAIN bar : P[i] = page[bar[i]] BY PagesHave
<1>2. V = {i \in DOMAIN bar : page[bar[i]].log # Absence} BY <1>1 DEF ViewPlaces
<1>3. Saved.activeView = IF active \in ToSet(views) THEN PlaceOf(views, active) - 1 ELSE 0
  BY <1>2 DEF Saved, InTabOrder
<1>4. bar \in Seq(Tabs) /\ V \in SUBSET DOMAIN bar BY <1>2 DEF BarKept
<1>5. active \in ToSet(bar) /\ page[active].log # Absence BY DEF MadeKept
<1>6. PICK i \in DOMAIN bar : bar[i] = active BY <1>5 DEF ToSet
<1>7. i \in V BY <1>2, <1>5, <1>6
<1> HIDE DEF V
<1>8. /\ views \in Seq(Tabs) /\ Len(views) = Cardinality(V)
      /\ \A k \in 1 .. Cardinality(V) : views[k] = bar[Ascending(V)[k]]
      /\ ToSet(views) = {bar[j] : j \in V}
  BY <1>4, ThoseHave
<1> HIDE DEF views
<1>9. active \in ToSet(views) BY <1>6, <1>7, <1>8
<1> DEFINE k == PlaceOf(views, active)
<1>10. k \in DOMAIN views /\ views[k] = active BY <1>8, <1>9, PlaceFound
<1>11. k \in 1 .. Cardinality(V) BY <1>8, <1>10
<1>12. Saved.activeView = k - 1 /\ bar[Ascending(V)[k]] = active
  BY <1>3, <1>8, <1>9, <1>10, <1>11
<1> HIDE DEF k
<1>13. \E x \in 1 .. Cardinality(V) : Saved.activeView = x - 1 /\ bar[Ascending(V)[x]] = active
  BY <1>11, <1>12
<1> QED BY <1>13 DEF V, P

\* And the page in front by its place on the bar.
LEMMA SavedFront ==
  ASSUME BarKept(bar, page), front \in ToSet(bar)
  PROVE  \E k \in 1 .. Len(bar) : Saved.activeTab = k - 1 /\ bar[k] = front
<1>1. bar \in Seq(Tabs) BY DEF BarKept
<1>2. Saved.activeTab = PlaceOf(bar, front) - 1 BY DEF Saved
<1>3. PlaceOf(bar, front) \in DOMAIN bar /\ bar[PlaceOf(bar, front)] = front
  BY <1>1, PlaceFound
<1>4. PlaceOf(bar, front) \in 1 .. Len(bar) BY <1>1, <1>3
<1> QED BY <1>2, <1>3, <1>4

\* What is saved of a window brings that window back, unless its panes had gone adrift.
LEMMA SavedBringsBack ==
  ASSUME WellsKept(bar, page, made, opened, front, active, bound), PanesKept, up, ~Adrift
  PROVE  Brought(Saved) = Sight
<1> DEFINE P == PagesOf(bar, page)
           V == ViewPlaces(P)
           n == Cardinality(V)
           s == Saved
           r == Restored(s, {})
<1>1. BarKept(bar, page) /\ MadeKept(bar, page, made) /\ OpenKept(page, made, opened)
      /\ FrontKept(bar, front) /\ ActiveKept(page, made, front, active, bound)
  BY DEF WellsKept
<1>2. SaidOf(s, P) /\ s.layout = PersistableLayout BY <1>1, SavedHas
<1>3. P \in Seq(PageRecs) /\ DOMAIN P = DOMAIN bar /\ Len(P) = Len(bar)
      /\ \A i \in DOMAIN bar : P[i] = page[bar[i]]
  BY <1>1, PagesHave
<1>4. /\ Len(bar) \in Nat /\ DOMAIN bar = 1 .. Len(bar) /\ bar \in Seq(Tabs)
      /\ \A i \in 1 .. Len(bar) : i # Absence
  BY <1>1, PlacesArePages DEF BarKept
<1>5. active \in ToSet(made) =>
        \E k \in 1 .. n : s.activeView = k - 1 /\ bar[Ascending(V)[k]] = active
  BY <1>1, SavedActive
<1>6. front \in ToSet(bar) => \E k \in 1 .. Len(bar) : s.activeTab = k - 1 /\ bar[k] = front
  BY <1>1, SavedFront
<1>7. Sight = [pages |-> P, front |-> IF front = Absence THEN NoPage ELSE page[front],
               bound |-> bound, panes |-> arranged]
  BY DEF Sight, PagesOf
<1>8. arranged = PersistableLayout BY DEF PanesKept
<1>9. /\ V = {i \in DOMAIN bar : page[bar[i]].log # Absence}
      /\ ToSet(made) = {t \in ToSet(bar) : page[t].log # Absence}
      /\ ToSet(bar) = {bar[i] : i \in DOMAIN bar}
  BY <1>1, <1>3 DEF ViewPlaces, MadeKept, ToSet
<1> HIDE DEF P, s
<1>10. r.pages = P /\ Len(r.views) = n /\ (s.activeView < n => r.raise = s.activeView + 1)
  BY <1>2, <1>3, RestoredIs
<1>11. s.activeTab \in Nat /\ s.activeView \in Nat BY <1>2 DEF SaidOf
<1> DEFINE last == LastOf(s, r)
           act == ActOf(s, r)
<1>12. Brought(s) = [pages |-> r.pages,
                     front |-> IF last = Absence THEN NoPage ELSE r.pages[last],
                     bound |-> IF act = Absence THEN Absence ELSE r.pages[act].log,
                     panes |-> s.layout]
  BY DEF Brought
<1> HIDE DEF r
<1>13. V \in SUBSET DOMAIN bar /\ IsFiniteSet(V) /\ n \in Nat /\ Ascending(V) \in [1 .. n -> V]
  BY <1>4, <1>9, ThoseHave
<1>14. n = 0 <=> V = {} BY <1>13, FS_EmptySet
<1>15. V = {} <=> ToSet(made) = {} BY <1>9
<1>16. active # Absence => active \in ToSet(made) /\ bound = page[active].log
  BY <1>1 DEF ActiveKept
<1>17. n = 0 => active = Absence /\ bound = Absence BY <1>14, <1>15, <1>16 DEF Adrift
<1>18. made = <<>> => ToSet(made) = {} BY DEF ToSet
<1>19. n > 0 => active # Absence
  BY <1>1, <1>13, <1>14, <1>15, <1>18 DEF Adrift, ActiveKept
<1>20. n = 0 => act = Absence BY <1>10 DEF ActOf
<1>21. CASE bar = <<>>
  <2>1. Len(bar) = 0 /\ V = {} /\ front = Absence BY <1>1, <1>4, <1>9, <1>21 DEF FrontKept
  <2>2. n = 0 BY <1>14, <2>1
  <2>3. last = Absence
    <3>1. Len(r.pages) = 0 /\ ~(Len(r.views) > 0) BY <1>3, <1>10, <2>1, <2>2
    <3>2. ~(s.activeTab < 0) BY <1>11
    <3> QED BY <3>1, <3>2 DEF LastOf, ShownOf
  <2>4. Brought(s) = [pages |-> P, front |-> NoPage, bound |-> Absence, panes |-> arranged]
    BY <1>2, <1>8, <1>10, <1>12, <1>20, <2>2, <2>3
  <2>5. Sight = [pages |-> P, front |-> NoPage, bound |-> Absence, panes |-> arranged]
    BY <1>7, <1>17, <2>1, <2>2
  <2> QED BY <2>4, <2>5 DEF s
<1>22. CASE bar # <<>>
  <2>1. front \in ToSet(bar) /\ front # Absence
    <3>1. front \in ToSet(bar) BY <1>1, <1>22 DEF FrontKept
    <3>2. front \in Tabs BY <1>4, <3>1 DEF ToSet
    <3> QED BY <3>1, <3>2, AbsenceIsNoPage
  <2>2. PICK k \in 1 .. Len(bar) : s.activeTab = k - 1 /\ bar[k] = front BY <1>6, <2>1
  <2>3. last = k
    <3>1. s.activeTab < Len(r.pages) /\ s.activeTab + 1 = k BY <1>3, <1>4, <1>10, <2>2
    <3> QED BY <3>1 DEF LastOf
  <2>4. k # Absence /\ P[k] = page[front] BY <1>3, <1>4, <2>2
  <2>5. (IF act = Absence THEN Absence ELSE r.pages[act].log) = bound
    <3>1. CASE n = 0 BY <1>17, <1>20, <3>1
    <3>2. CASE n > 0
      <4>1. active \in ToSet(made) /\ bound = page[active].log BY <1>16, <1>19, <3>2
      <4>2. PICK j \in 1 .. n : s.activeView = j - 1 /\ bar[Ascending(V)[j]] = active
        BY <1>5, <4>1
      <4> DEFINE raised == Ascending(V)[j]
      <4>3. raised \in V /\ bar[raised] = active BY <1>13, <4>2
      <4>4. s.activeView < n /\ s.activeView + 1 = j BY <1>13, <4>2
      <4>5. r.raise = j BY <1>10, <4>4
      <4>6. ShownOf(r) = raised BY <1>10, <3>2, <4>5 DEF ShownOf
      <4>7. act = IF P[k].log # Absence THEN k ELSE raised
        BY <1>10, <1>13, <2>3, <3>2, <4>6 DEF ActOf
      <4> HIDE DEF raised, act, V
      <4>8. raised \in 1 .. Len(bar) /\ raised # Absence /\ P[raised] = page[active]
        BY <1>3, <1>4, <1>13, <4>3
      <4>9. CASE P[k].log # Absence
        <5>1. act = k BY <4>7, <4>9
        <5>2. front \in ToSet(made) BY <1>9, <2>1, <2>4, <4>9
        <5>3. active = front BY <1>1, <5>2 DEF ActiveKept
        <5> QED BY <1>10, <2>4, <4>1, <5>1, <5>3
      <4>10. CASE ~(P[k].log # Absence)
        <5>1. act = raised BY <4>7, <4>10
        <5> QED BY <1>10, <4>1, <4>8, <5>1
      <4> QED BY <4>9, <4>10
    <3> QED BY <1>13, <3>1, <3>2
  <2>6. Brought(s) = [pages |-> P, front |-> page[front], bound |-> bound, panes |-> arranged]
    BY <1>2, <1>8, <1>10, <1>12, <2>3, <2>4, <2>5
  <2>7. Sight = [pages |-> P, front |-> page[front], bound |-> bound, panes |-> arranged]
    BY <1>7, <2>1
  <2> QED BY <2>6, <2>7 DEF s
<1> QED BY <1>21, <1>22

\* A launch puts up a bar that hangs together, whatever was refused.
LEMMA BroughtHolds ==
  ASSUME NEW r, Regained(r), NEW s, s.activeTab \in Nat
  PROVE  LET n == Len(r.pages)
             l == LastOf(s, r)
             a == ActOf(s, r)
         IN  WellsKept([i \in 1 .. n |-> i], [t \in Tabs |-> IF t <= n THEN r.pages[t] ELSE NoPage],
                       Ascending(ViewPlaces(r.pages)), r.open, l, a,
                       IF a = Absence THEN Absence ELSE r.pages[a].log)
<1> DEFINE P == r.pages
           n == Len(P)
           V == ViewPlaces(P)
           nv == Len(r.views)
           b == [i \in 1 .. n |-> i]
           p == [t \in Tabs |-> IF t <= n THEN P[t] ELSE NoPage]
           m == Ascending(V)
           o == r.open
           l == LastOf(s, r)
           a == ActOf(s, r)
           d == IF a = Absence THEN Absence ELSE P[a].log
<1>1. /\ P \in Seq(PageRecs) /\ o \in Seq(Files) /\ n <= Cardinality(Tabs)
      /\ Cardinality(V) = nv /\ LogsOn(P) = ToSet(o)
      /\ nv > 0 => r.raise \in 1 .. nv
  BY DEF Regained
<1>2. /\ nv > 0 => l = IF s.activeTab < n THEN s.activeTab + 1 ELSE m[r.raise]
      /\ ~(nv > 0) => l = IF s.activeTab < n THEN s.activeTab + 1
                          ELSE IF n > 0 THEN 1 ELSE Absence
      /\ nv = 0 => a = Absence
      /\ nv > 0 => a = IF P[l].log # Absence THEN l ELSE m[r.raise]
  BY DEF LastOf, ActOf, ShownOf
<1> HIDE DEF P, o, l, a, nv
<1>3. n \in Nat /\ DOMAIN P = 1 .. n /\ \A i \in 1 .. n : P[i] \in PageRecs BY <1>1
<1>4. Tabs = 1 .. Cardinality(Tabs) /\ Cardinality(Tabs) \in Nat
  BY TabsAssumption, FS_CardinalityType
<1> HIDE DEF n
<1>5. \A t \in Tabs : t \in Nat /\ (t <= n <=> t \in 1 .. n) BY <1>3, <1>4
<1>6. \A i \in 1 .. n : i \in Tabs /\ i # Absence
  <2>1. \A i \in 1 .. n : i \in Tabs BY <1>1, <1>3, <1>4
  <2> QED BY <2>1, AbsenceIsNoPage
<1>7. PageRecs \subseteq TabPages /\ NoPage \in TabPages
  BY DEF PageRecs, ViewRecs, EditorRecs, TabPages, NoPage
<1>8. p \in [Tabs -> TabPages] /\ \A i \in 1 .. n : p[i] = P[i]
  <2>1. \A t \in Tabs : (IF t <= n THEN P[t] ELSE NoPage) \in TabPages BY <1>3, <1>5, <1>7
  <2>2. \A i \in 1 .. n : i <= n BY <1>3
  <2> HIDE DEF NoPage
  <2> QED BY <1>6, <2>1, <2>2
<1> HIDE DEF p
<1>9. b \in Seq(Tabs) /\ IsInjective(b) /\ ToSet(b) = 1 .. n /\ Len(b) = n
  <2>1. b \in Seq(Tabs) /\ Len(b) = n /\ DOMAIN b = 1 .. n /\ \A i \in 1 .. n : b[i] = i
    BY <1>3, <1>6
  <2> HIDE DEF b
  <2> QED BY <2>1 DEF IsInjective, ToSet
<1>10. BarKept(b, p) BY <1>3, <1>8, <1>9 DEF BarKept
<1>11. V \in SUBSET (1 .. n) /\ V = {i \in 1 .. n : P[i].log # Absence}
  BY <1>3 DEF ViewPlaces
<1> HIDE DEF V, b
<1>12. V \in SUBSET DOMAIN P BY <1>3, <1>11
<1>13. nv \in Nat /\ IsFiniteSet(V) /\ m \in [1 .. nv -> V]
       /\ \A x \in V : \E i \in 1 .. nv : m[i] = x
  <2>1. nv \in Nat /\ IsFiniteSet(V) BY <1>1, <1>12, ThoseHave
  <2>2. V \in SUBSET Nat BY <1>3, <1>11
  <2> QED BY <1>1, <2>1, <2>2, AscendingLists
<1> HIDE DEF m
<1>14. m \in Seq(Tabs) /\ ToSet(m) = V /\ (nv = 0 => m = <<>>)
  <2>1. V \in SUBSET Tabs BY <1>6, <1>11
  <2>2. m \in Seq(Tabs) /\ DOMAIN m = 1 .. nv /\ Len(m) = nv BY <1>13, <2>1
  <2>3. ToSet(m) = V BY <1>13, <2>2 DEF ToSet
  <2> QED BY <2>2, <2>3
<1>15. ToSet(m) = {t \in ToSet(b) : p[t].log # Absence} BY <1>8, <1>9, <1>11, <1>14
<1>16. MadeKept(b, p, m) BY <1>14, <1>15 DEF MadeKept
<1>17. ToSet(o) = {p[t].log : t \in ToSet(m)}
  <2>1. LogsOn(P) = {P[i].log : i \in V} BY DEF LogsOn, V
  <2>2. {P[i].log : i \in V} = {p[t].log : t \in V} BY <1>8, <1>11
  <2> QED BY <1>1, <1>14, <2>1, <2>2
<1>18. OpenKept(p, m, o) BY <1>1, <1>17 DEF OpenKept
<1>19. nv > 0 => m[r.raise] \in V BY <1>1, <1>13
<1>20. nv > 0 => n > 0 BY <1>3, <1>11, <1>19
<1>21. n > 0 => l \in 1 .. n
  <2>1. CASE s.activeTab < n BY <1>2, <1>3, <1>13, <2>1
  <2>2. CASE ~(s.activeTab < n) /\ nv > 0 BY <1>2, <1>11, <1>19, <2>2
  <2>3. CASE ~(s.activeTab < n) /\ ~(nv > 0) BY <1>2, <1>3, <2>3
  <2> QED BY <2>1, <2>2, <2>3
<1>22. n = 0 => l = Absence BY <1>2, <1>3, <1>20
<1>23. FrontKept(b, l)
  <2>1. b = <<>> <=> n = 0 BY <1>9
  <2> QED BY <1>3, <1>9, <1>21, <1>22, <2>1 DEF FrontKept
<1>24. ActiveKept(p, m, l, a, d)
  <2>1. CASE nv = 0
    <3>1. a = Absence /\ m = <<>> /\ d = Absence BY <1>2, <1>14, <2>1
    <3>2. ToSet(m) = {} BY <3>1 DEF ToSet
    <3> QED BY <3>1, <3>2 DEF ActiveKept
  <2>2. CASE nv > 0
    <3>1. a = IF P[l].log # Absence THEN l ELSE m[r.raise] BY <1>2, <2>2
    <3>2. l \in 1 .. n BY <1>20, <1>21, <2>2
    <3>3. l \in V <=> P[l].log # Absence BY <1>11, <3>2
    <3>4. a \in V BY <1>19, <2>2, <3>1, <3>3
    <3>5. a \in 1 .. n /\ a # Absence /\ P[a].log # Absence /\ p[a] = P[a]
      BY <1>6, <1>8, <1>11, <3>4
    <3>6. d = P[a].log BY <3>5
    <3> HIDE DEF d
    <3>7. l \in V => a = l BY <3>1, <3>3
    <3> QED BY <1>14, <3>4, <3>5, <3>6, <3>7 DEF ActiveKept
  <2> QED BY <1>13, <2>1, <2>2
<1>25. WellsKept(b, p, m, o, l, a, d) BY <1>10, <1>16, <1>18, <1>23, <1>24 DEF WellsKept
<1> QED BY <1>25 DEF b, p, m, o, l, a, n, P, V

\* The members of a sequence once one is taken out, and once one is put in.
LEMMA RemovedMembers ==
  ASSUME NEW T, NEW s \in Seq(T), IsInjective(s), NEW i \in DOMAIN s
  PROVE  /\ RemoveAt(s, i) \in Seq(T) /\ IsInjective(RemoveAt(s, i))
         /\ Len(RemoveAt(s, i)) = Len(s) - 1
         /\ ToSet(RemoveAt(s, i)) = ToSet(s) \ {s[i]}
<1> DEFINE r == RemoveAt(s, i)
           from(j) == IF j < i THEN j ELSE j + 1
<1>1. i \in 1 .. Len(s) /\ Len(s) \in Nat /\ DOMAIN s = 1 .. Len(s) OBVIOUS
<1>2. r \in Seq(T) /\ Len(r) = Len(s) - 1
      /\ \A j \in 1 .. (Len(s) - 1) : r[j] = IF j < i THEN s[j] ELSE s[j + 1]
  BY RemovedPlaces
<1> HIDE DEF r
<1>3. DOMAIN r = 1 .. (Len(s) - 1) BY <1>1, <1>2
<1>4. \A j \in DOMAIN r : from(j) \in DOMAIN s /\ from(j) # i /\ r[j] = s[from(j)]
  BY <1>1, <1>2, <1>3
<1>5. \A j, k \in DOMAIN r : from(j) = from(k) => j = k BY <1>1, <1>3
<1>6. \A k \in DOMAIN s : k # i => \E j \in DOMAIN r : from(j) = k
  <2> SUFFICES ASSUME NEW k \in DOMAIN s, k # i PROVE \E j \in DOMAIN r : from(j) = k
    OBVIOUS
  <2>1. CASE k < i
    <3>1. k \in DOMAIN r /\ from(k) = k BY <1>1, <1>3, <2>1
    <3> QED BY <3>1
  <2>2. CASE ~(k < i)
    <3>1. k - 1 \in DOMAIN r /\ from(k - 1) = k BY <1>1, <1>3, <2>2
    <3> QED BY <3>1
  <2> QED BY <2>1, <2>2
<1> HIDE DEF from
<1>7. \A j, k \in DOMAIN s : s[j] = s[k] => j = k BY DEF IsInjective
<1>8. IsInjective(r) BY <1>4, <1>5, <1>7 DEF IsInjective
<1>9. ToSet(r) \subseteq ToSet(s) \ {s[i]}
  <2>1. \A j \in DOMAIN r : r[j] \in ToSet(s) /\ r[j] # s[i] BY <1>4, <1>7 DEF ToSet
  <2> QED BY <2>1 DEF ToSet
<1>10. ToSet(s) \ {s[i]} \subseteq ToSet(r)
  <2> SUFFICES ASSUME NEW x \in ToSet(s), x # s[i] PROVE x \in ToSet(r) OBVIOUS
  <2>1. PICK k \in DOMAIN s : s[k] = x BY DEF ToSet
  <2>2. PICK j \in DOMAIN r : from(j) = k BY <1>6, <2>1
  <2>3. r[j] = x BY <1>4, <2>1, <2>2
  <2> QED BY <2>3 DEF ToSet
<1> QED BY <1>2, <1>8, <1>9, <1>10 DEF r

\* A new member put into a sequence that repeats none: it has one more, and repeats none.
LEMMA InsertedMembers ==
  ASSUME NEW T, NEW s \in Seq(T), IsInjective(s), NEW i \in 1 .. Len(s) + 1,
         NEW e \in T, e \notin ToSet(s)
  PROVE  /\ InsertAt(s, i, e) \in Seq(T) /\ IsInjective(InsertAt(s, i, e))
         /\ ToSet(InsertAt(s, i, e)) = ToSet(s) \cup {e}
<1> DEFINE c == InsertAt(s, i, e)
           from(j) == IF j < i THEN j ELSE j - 1
<1>1. i \in 1 .. (Len(s) + 1) /\ Len(s) \in Nat /\ DOMAIN s = 1 .. Len(s) OBVIOUS
<1>2. c \in Seq(T) /\ Len(c) = Len(s) + 1
      /\ \A j \in 1 .. Len(s) + 1 : c[j] = IF j < i THEN s[j] ELSE IF j = i THEN e ELSE s[j - 1]
  <2>1. c \in Seq(T) /\ Len(c) = Len(s) + 1 BY InsertedPlaces
  <2>2. ASSUME NEW j \in 1 .. Len(s) + 1
        PROVE  c[j] = IF j < i THEN s[j] ELSE IF j = i THEN e ELSE s[j - 1]
    BY InsertedPlace
  <2> QED BY <2>1, <2>2
<1> HIDE DEF c
<1>3. DOMAIN c = 1 .. Len(s) + 1 /\ i \in DOMAIN c BY <1>1, <1>2
<1>4. c[i] = e /\ \A j \in DOMAIN c : j # i => from(j) \in DOMAIN s /\ c[j] = s[from(j)]
  BY <1>1, <1>2, <1>3
<1>5. \A j, k \in DOMAIN c : (j # i /\ k # i /\ from(j) = from(k)) => j = k BY <1>1, <1>3
<1>6. \A k \in DOMAIN s : \E j \in DOMAIN c : j # i /\ from(j) = k
  <2> SUFFICES ASSUME NEW k \in DOMAIN s PROVE \E j \in DOMAIN c : j # i /\ from(j) = k
    OBVIOUS
  <2>1. CASE k < i
    <3>1. k \in DOMAIN c /\ k # i /\ from(k) = k BY <1>1, <1>3, <2>1
    <3> QED BY <3>1
  <2>2. CASE ~(k < i)
    <3>1. k + 1 \in DOMAIN c /\ k + 1 # i /\ from(k + 1) = k BY <1>1, <1>3, <2>2
    <3> QED BY <3>1
  <2> QED BY <2>1, <2>2
<1> HIDE DEF from
<1>7. \A j, k \in DOMAIN s : s[j] = s[k] => j = k BY DEF IsInjective
<1>8. \A j \in DOMAIN s : s[j] # e BY DEF ToSet
<1>9. IsInjective(c) BY <1>4, <1>5, <1>7, <1>8 DEF IsInjective
<1>10. \A x \in ToSet(c) : x \in ToSet(s) \cup {e} BY <1>4 DEF ToSet
<1>11. \A x \in ToSet(s) : x \in ToSet(c)
  <2> SUFFICES ASSUME NEW x \in ToSet(s) PROVE x \in ToSet(c) OBVIOUS
  <2>1. PICK k \in DOMAIN s : s[k] = x BY DEF ToSet
  <2>2. PICK j \in DOMAIN c : j # i /\ from(j) = k BY <1>6, <2>1
  <2> QED BY <1>4, <2>1, <2>2 DEF ToSet
<1>12. e \in ToSet(c) BY <1>3, <1>4 DEF ToSet
<1>13. ToSet(c) = ToSet(s) \cup {e} BY <1>10, <1>11, <1>12
<1> QED BY <1>2, <1>9, <1>13 DEF c

\* The same at the end of the sequence, whether or not it repeats one.
LEMMA AppendedMembers ==
  ASSUME NEW T, NEW s \in Seq(T), NEW e \in T
  PROVE  /\ Append(s, e) \in Seq(T) /\ ToSet(Append(s, e)) = ToSet(s) \cup {e}
         /\ (IsInjective(s) /\ e \notin ToSet(s)) => IsInjective(Append(s, e))
<1> DEFINE c == Append(s, e)
           n == Len(s) + 1
<1>1. DOMAIN s = 1 .. Len(s) /\ Len(s) \in Nat OBVIOUS
<1>2. c \in Seq(T) /\ DOMAIN c = 1 .. n /\ \A j \in 1 .. n : c[j] = IF j = n THEN e ELSE s[j]
  OBVIOUS
<1> HIDE DEF c
<1>3. \A j \in DOMAIN c : j = n \/ j \in DOMAIN s BY <1>1, <1>2
<1>4. n \in DOMAIN c /\ c[n] = e /\ \A j \in DOMAIN s : j \in DOMAIN c /\ c[j] = s[j]
  BY <1>1, <1>2
<1> HIDE DEF n
<1>5. ToSet(c) = ToSet(s) \cup {e} BY <1>3, <1>4 DEF ToSet
<1>6. (IsInjective(s) /\ e \notin ToSet(s)) => IsInjective(c)
  BY <1>3, <1>4 DEF IsInjective, ToSet
<1> QED BY <1>2, <1>5, <1>6 DEF c

\* A view has a log, an editor none.
LEMMA PageIsEither ==
  ASSUME NEW x \in PageRecs
  PROVE  /\ x \in TabPages /\ (x.log # Absence => x.log \in Files)
         /\ (x.log # Absence => x.cfg = Absence)
  BY AbsenceIsNoPage DEF PageRecs, ViewRecs, EditorRecs, TabPages

\* A page that comes to the front binds the panes to its log, if it has one.
LEMMA RaisedKeeps ==
  ASSUME NEW b, NEW p, NEW m, NEW f, NEW a, NEW d, NEW t \in ToSet(b), NEW a1, NEW d1,
         BarKept(b, p), MadeKept(b, p, m), ActiveKept(p, m, f, a, d),
         p[t].log # Absence => a1 = t /\ d1 = p[t].log,
         p[t].log = Absence => a1 = a /\ d1 = d
  PROVE  FrontKept(b, t) /\ ActiveKept(p, m, t, a1, d1)
<1>1. FrontKept(b, t)
  <2>1. b # <<>> BY DEF ToSet
  <2> QED BY <2>1 DEF FrontKept
<1>2. t \in ToSet(m) <=> p[t].log # Absence BY DEF MadeKept
<1>3. ActiveKept(p, m, t, a1, d1) BY <1>2 DEF ActiveKept
<1> QED BY <1>1, <1>3

\* The pages with one of them another; with one of them looking otherwise.
PageSet(q, p, x, g) == q = [p EXCEPT ![x] = g]
LookSet(q, p, t)    == q = [p EXCEPT ![t].look = 1]

\* A page that is new on the bar comes to the front.
LEMMA GrownKeeps ==
  ASSUME NEW b, NEW p, NEW m, NEW o, NEW f, NEW a, NEW d, NEW x \in Tabs, NEW g \in PageRecs,
         WellsKept(b, p, m, o, f, a, d), x \notin ToSet(b), NEW q, NEW m1, NEW o1, NEW a1, NEW d1,
         PageSet(q, p, x, g), o1 \in Seq(Files),
         g.log # Absence => m1 = Append(m, x) /\ ToSet(o1) = ToSet(o) \cup {g.log} /\ a1 = x /\ d1 = g.log,
         g.log = Absence => m1 = m /\ o1 = o /\ a1 = a /\ d1 = d
  PROVE  WellsKept(Append(b, x), q, m1, o1, x, a1, d1)
<1>1. BarKept(b, p) /\ MadeKept(b, p, m) /\ OpenKept(p, m, o) /\ ActiveKept(p, m, f, a, d)
  BY DEF WellsKept
<1> DEFINE c == Append(b, x)
<1>2. b \in Seq(Tabs) /\ IsInjective(b) /\ p \in [Tabs -> TabPages] /\ m \in Seq(Tabs)
  BY <1>1 DEF BarKept, MadeKept
<1>3. c \in Seq(Tabs) /\ IsInjective(c) /\ ToSet(c) = ToSet(b) \cup {x}
  BY <1>2, AppendedMembers
<1> HIDE DEF c
<1>4. q \in [Tabs -> TabPages] /\ q[x] = g /\ \A t \in Tabs : t # x => q[t] = p[t]
  BY <1>2, PageIsEither DEF PageSet
<1>5. ToSet(b) \subseteq Tabs /\ \A t \in ToSet(b) : q[t] = p[t]
  <2>1. ToSet(b) \subseteq Tabs BY <1>2 DEF ToSet
  <2> QED BY <1>4, <2>1
<1>6. \A t \in ToSet(c) : q[t] \in PageRecs BY <1>1, <1>3, <1>4, <1>5 DEF BarKept
<1>7. BarKept(c, q) BY <1>3, <1>4, <1>6 DEF BarKept
<1>8. ToSet(m) = {t \in ToSet(b) : p[t].log # Absence} /\ ToSet(o) = {p[t].log : t \in ToSet(m)}
  BY <1>1 DEF MadeKept, OpenKept
<1>9. \A t \in ToSet(m) : t \in ToSet(b) /\ q[t] = p[t] BY <1>5, <1>8
<1>10. m1 \in Seq(Tabs) /\ ToSet(m1) = ToSet(m) \cup (IF g.log # Absence THEN {x} ELSE {})
  <2>1. Append(m, x) \in Seq(Tabs) /\ ToSet(Append(m, x)) = ToSet(m) \cup {x}
    BY <1>2, AppendedMembers
  <2> QED BY <1>2, <2>1
<1>11. ToSet(m1) = {t \in ToSet(c) : q[t].log # Absence}
  <2>1. \A t \in ToSet(b) : q[t].log = p[t].log BY <1>5
  <2> QED BY <1>3, <1>4, <1>8, <1>10, <2>1
<1>12. MadeKept(c, q, m1) BY <1>10, <1>11 DEF MadeKept
<1>13. ToSet(o1) = {q[t].log : t \in ToSet(m1)}
  <2>1. \A t \in ToSet(m) : q[t].log = p[t].log BY <1>9
  <2>2. CASE g.log # Absence
    <3>1. ToSet(m1) = ToSet(m) \cup {x} /\ ToSet(o1) = ToSet(o) \cup {g.log}
      BY <1>10, <2>2
    <3> QED BY <1>4, <1>8, <2>1, <3>1
  <2>3. CASE g.log = Absence
    <3>1. m1 = m /\ o1 = o BY <2>3
    <3> QED BY <1>8, <2>1, <3>1
  <2> QED BY <2>2, <2>3
<1>14. OpenKept(q, m1, o1) BY <1>13 DEF OpenKept
<1>15. FrontKept(c, x)
  <2>1. x \in ToSet(c) BY <1>3
  <2>2. c # <<>> BY <2>1 DEF ToSet
  <2> QED BY <2>1, <2>2 DEF FrontKept
<1>16. ActiveKept(q, m1, x, a1, d1)
  <2>1. CASE g.log # Absence
    <3>1. a1 = x /\ d1 = g.log /\ x \in ToSet(m1) BY <1>10, <2>1
    <3> QED BY <1>4, <2>1, <3>1 DEF ActiveKept
  <2>2. CASE g.log = Absence
    <3>1. a1 = a /\ d1 = d /\ m1 = m /\ x \notin ToSet(m1) BY <1>9, <2>2
    <3>2. a # Absence => a \in ToSet(m) /\ d = q[a].log BY <1>1, <1>9 DEF ActiveKept
    <3> QED BY <1>1, <3>1, <3>2 DEF ActiveKept
  <2> QED BY <2>1, <2>2
<1>17. WellsKept(c, q, m1, o1, x, a1, d1)
  BY <1>7, <1>12, <1>14, <1>15, <1>16 DEF WellsKept
<1> QED BY <1>17 DEF c

\* A page that looks otherwise is still the page it was.
LEMMA RelookedKeeps ==
  ASSUME NEW b, NEW p, NEW m, NEW o, NEW f, NEW a, NEW d, NEW t \in ToSet(b), NEW q,
         WellsKept(b, p, m, o, f, a, d), LookSet(q, p, t)
  PROVE  WellsKept(b, q, m, o, f, a, d)
<1>1. BarKept(b, p) /\ MadeKept(b, p, m) /\ OpenKept(p, m, o) /\ FrontKept(b, f)
      /\ ActiveKept(p, m, f, a, d)
  BY DEF WellsKept
<1>2. b \in Seq(Tabs) /\ p \in [Tabs -> TabPages] /\ \A u \in ToSet(b) : p[u] \in PageRecs
  BY <1>1 DEF BarKept
<1>3. \A u \in ToSet(b) : u \in Tabs BY <1>2 DEF ToSet
<1> DEFINE g == [p[t] EXCEPT !.look = 1]
<1>4. /\ q \in [Tabs -> TabPages] /\ g \in PageRecs /\ g.log = p[t].log /\ g.cfg = p[t].cfg
      /\ q = [p EXCEPT ![t] = g]
  <2>1. p[t] \in PageRecs BY <1>2
  <2>2. \A x \in PageRecs : [x EXCEPT !.look = 1] \in PageRecs
                            /\ [x EXCEPT !.look = 1].log = x.log
                            /\ [x EXCEPT !.look = 1].cfg = x.cfg
    BY DEF PageRecs, ViewRecs, EditorRecs
  <2>3. g \in PageRecs /\ g.log = p[t].log /\ g.cfg = p[t].cfg BY <2>1, <2>2
  <2>4. q = [p EXCEPT ![t] = g] BY DEF LookSet
  <2> HIDE DEF g
  <2>5. g \in TabPages BY <2>3, PageIsEither
  <2> QED BY <1>2, <1>3, <2>3, <2>4, <2>5
<1> HIDE DEF g
<1>5. \A u \in Tabs : q[u] = IF u = t THEN g ELSE p[u] BY <1>2, <1>4
<1>6. \A u \in ToSet(b) : q[u] \in PageRecs /\ q[u].log = p[u].log
  BY <1>2, <1>3, <1>4, <1>5
<1>7. BarKept(b, q) BY <1>1, <1>4, <1>6 DEF BarKept
<1>8. MadeKept(b, q, m)
  <2>1. {u \in ToSet(b) : q[u].log # Absence} = {u \in ToSet(b) : p[u].log # Absence}
    BY <1>6
  <2> QED BY <1>1, <2>1 DEF MadeKept
<1>9. \A u \in ToSet(m) : u \in ToSet(b) /\ q[u].log = p[u].log BY <1>1, <1>6 DEF MadeKept
<1>10. OpenKept(q, m, o)
  <2>1. {q[u].log : u \in ToSet(m)} = {p[u].log : u \in ToSet(m)} BY <1>9
  <2> QED BY <1>1, <2>1 DEF OpenKept
<1>11. ActiveKept(q, m, f, a, d) BY <1>1, <1>9 DEF ActiveKept
<1> QED BY <1>1, <1>7, <1>8, <1>10, <1>11 DEF WellsKept

\* A page that is moved leaves the others in their order, and is in front if it was.
LEMMA MovedKeeps ==
  ASSUME NEW b, NEW p, NEW m, NEW o, NEW f, NEW a, NEW d, NEW i, NEW j,
         WellsKept(b, p, m, o, f, a, d), i \in DOMAIN b, j \in DOMAIN b
  PROVE  WellsKept(InsertAt(RemoveAt(b, i), j, b[i]), p, m, o, f, a, d)
<1>1. BarKept(b, p) /\ MadeKept(b, p, m) /\ OpenKept(p, m, o) /\ FrontKept(b, f)
      /\ ActiveKept(p, m, f, a, d)
  BY DEF WellsKept
<1> DEFINE r == RemoveAt(b, i)
           t == b[i]
           c == InsertAt(r, j, t)
<1>2. b \in Seq(Tabs) /\ IsInjective(b) BY <1>1 DEF BarKept
<1>3. r \in Seq(Tabs) /\ IsInjective(r) /\ Len(r) = Len(b) - 1 /\ ToSet(r) = ToSet(b) \ {t}
  BY <1>2, RemovedMembers
<1>4. t \in Tabs /\ t \in ToSet(b) BY <1>2 DEF ToSet
<1> HIDE DEF r, t
<1>5. j \in 1 .. Len(r) + 1 BY <1>2, <1>3
<1>6. c \in Seq(Tabs) /\ IsInjective(c) /\ ToSet(c) = ToSet(r) \cup {t}
  <2>1. t \notin ToSet(r) /\ r \in Seq(Tabs) /\ IsInjective(r) BY <1>3
  <2> QED BY <1>4, <1>5, <2>1, InsertedMembers
<1>7. ToSet(c) = ToSet(b) BY <1>3, <1>4, <1>6
<1> HIDE DEF c
<1>8. BarKept(c, p) BY <1>1, <1>6, <1>7 DEF BarKept
<1>9. MadeKept(c, p, m) BY <1>1, <1>7 DEF MadeKept
<1>10. FrontKept(c, f)
  <2>1. b # <<>> /\ c # <<>> BY <1>4, <1>7 DEF ToSet
  <2> QED BY <1>1, <1>7, <2>1 DEF FrontKept
<1>11. WellsKept(c, p, m, o, f, a, d) BY <1>1, <1>8, <1>9, <1>10 DEF WellsKept
<1> QED BY <1>11 DEF c, r, t

\* What CloseAt makes of the bar b and the rest when the page at i is closed.
Closing(b, p, m, o, f, a, d, i, t, rest, next, act, q, m1, o1, a1, d1) ==
  /\ t = b[i] /\ rest = RemoveAt(b, i)
  /\ next = IF t # f THEN f ELSE IF rest = <<>> THEN Absence
            ELSE rest[IF i <= Len(rest) THEN i ELSE Len(rest)]
  /\ act = IF next # Absence /\ p[next].log # Absence THEN next ELSE a
  /\ PageSet(q, p, t, NoPage)
  /\ m1 = Those(m, {k \in DOMAIN m : m[k] # t})
  /\ o1 = Those(o, {k \in DOMAIN o : o[k] \in {p[rest[j]].log : j \in DOMAIN rest}})
  /\ a1 = IF act = t THEN Absence ELSE act
  /\ d1 = IF p[t].log # Absence /\ m1 = <<>> THEN Absence
          ELSE IF next # Absence /\ p[next].log # Absence THEN p[next].log ELSE d

\* A page that is closed leaves the bar, the views and, with the last view of it, its log.
LEMMA ClosedKeeps ==
  ASSUME NEW b, NEW p, NEW m, NEW o, NEW f, NEW a, NEW d, NEW i \in DOMAIN b,
         WellsKept(b, p, m, o, f, a, d),
         NEW t, NEW rest, NEW next, NEW act, NEW q, NEW m1, NEW o1, NEW a1, NEW d1,
         Closing(b, p, m, o, f, a, d, i, t, rest, next, act, q, m1, o1, a1, d1)
  PROVE  WellsKept(rest, q, m1, o1, next, a1, d1)
<1>23. /\ t = b[i] /\ rest = RemoveAt(b, i)
       /\ next = IF t # f THEN f ELSE IF rest = <<>> THEN Absence
                 ELSE rest[IF i <= Len(rest) THEN i ELSE Len(rest)]
       /\ act = IF next # Absence /\ p[next].log # Absence THEN next ELSE a
       /\ PageSet(q, p, t, NoPage)
       /\ m1 = Those(m, {k \in DOMAIN m : m[k] # t})
       /\ o1 = Those(o, {k \in DOMAIN o : o[k] \in {p[rest[j]].log : j \in DOMAIN rest}})
       /\ a1 = IF act = t THEN Absence ELSE act
       /\ d1 = IF p[t].log # Absence /\ m1 = <<>> THEN Absence
               ELSE IF next # Absence /\ p[next].log # Absence THEN p[next].log ELSE d
  BY DEF Closing
<1> USE <1>23
<1>1. BarKept(b, p) /\ MadeKept(b, p, m) /\ OpenKept(p, m, o) /\ FrontKept(b, f)
      /\ ActiveKept(p, m, f, a, d)
  BY DEF WellsKept
<1>2. b \in Seq(Tabs) /\ IsInjective(b) /\ p \in [Tabs -> TabPages] /\ m \in Seq(Tabs) /\ o \in Seq(Files)
      /\ \A u \in ToSet(b) : p[u] \in PageRecs
  BY <1>1 DEF BarKept, MadeKept, OpenKept
<1>3. rest \in Seq(Tabs) /\ IsInjective(rest) /\ Len(rest) = Len(b) - 1
      /\ ToSet(rest) = ToSet(b) \ {t}
  BY <1>2, RemovedMembers
<1>4. t \in Tabs /\ t \in ToSet(b) /\ \A u \in ToSet(b) : u \in Tabs BY <1>2 DEF ToSet
<1>5. q \in [Tabs -> TabPages] /\ \A u \in Tabs : u # t => q[u] = p[u]
  <2>1. NoPage \in TabPages BY DEF NoPage, TabPages
  <2> QED BY <1>2, <1>4, <2>1 DEF PageSet
<1>6. \A u \in ToSet(rest) : u # t /\ u \in ToSet(b) /\ q[u] = p[u] BY <1>3, <1>4, <1>5
<1>7. BarKept(rest, q) BY <1>2, <1>3, <1>5, <1>6 DEF BarKept
<1>8. ToSet(m) = {u \in ToSet(b) : p[u].log # Absence} /\ ToSet(o) = {p[u].log : u \in ToSet(m)}
  BY <1>1 DEF MadeKept, OpenKept
<1>9. m1 \in Seq(Tabs) /\ ToSet(m1) = ToSet(m) \ {t}
  <2> DEFINE S == {k \in DOMAIN m : m[k] # t}
  <2>1. S \in SUBSET DOMAIN m OBVIOUS
  <2>4. m1 = Those(m, S) /\ m \in Seq(Tabs) BY <1>2
  <2> HIDE DEF S
  <2>2. Those(m, S) \in Seq(Tabs) /\ ToSet(Those(m, S)) = {m[k] : k \in S}
    BY <2>1, <2>4, ThoseHave
  <2>3. {m[k] : k \in S} = ToSet(m) \ {t} BY DEF ToSet, S
  <2> QED BY <2>2, <2>3, <2>4
<1>10. ToSet(m1) = {u \in ToSet(rest) : q[u].log # Absence}
  <2>1. \A u \in ToSet(rest) : q[u].log = p[u].log BY <1>6
  <2> QED BY <1>3, <1>8, <1>9, <2>1
<1>11. MadeKept(rest, q, m1) BY <1>9, <1>10 DEF MadeKept
<1>12. o1 \in Seq(Files) /\ ToSet(o1) = {q[u].log : u \in ToSet(m1)}
  <2> DEFINE L == {p[rest[j]].log : j \in DOMAIN rest}
             S == {k \in DOMAIN o : o[k] \in L}
  <2>1. S \in SUBSET DOMAIN o OBVIOUS
  <2>2. L = {p[u].log : u \in ToSet(rest)} BY DEF ToSet
  <2>3. o1 = Those(o, S) OBVIOUS
  <2> HIDE DEF L
  <2>5. {o[k] : k \in S} = ToSet(o) \cap L BY DEF ToSet
  <2>9. o \in Seq(Files) BY <1>2
  <2> HIDE DEF S
  <2>4. o1 \in Seq(Files) /\ ToSet(o1) = {o[k] : k \in S}
    <3>1. Those(o, S) \in Seq(Files) /\ ToSet(Those(o, S)) = {o[k] : k \in S}
      BY <2>1, <2>9, ThoseHave
    <3> QED BY <2>3, <3>1
  <2>6. ASSUME NEW u \in ToSet(m1) PROVE q[u].log \in ToSet(o) \cap L
    <3>1. u \in ToSet(rest) /\ u \in ToSet(m) /\ q[u] = p[u] BY <1>6, <1>9, <1>10
    <3> QED BY <1>8, <2>2, <3>1
  <2>7. ASSUME NEW x \in ToSet(o) \cap L PROVE x \in {q[u].log : u \in ToSet(m1)}
    <3>1. PICK u \in ToSet(rest) : p[u].log = x BY <2>2
    <3>2. x # Absence
      <4>1. x \in Files BY <1>2 DEF ToSet
      <4> QED BY <4>1, AbsenceIsNoPage
    <3>3. q[u] = p[u] /\ u \in ToSet(m1) BY <1>6, <1>10, <3>1, <3>2
    <3> QED BY <3>1, <3>3
  <2>8. ToSet(o) \cap L = {q[u].log : u \in ToSet(m1)} BY <2>6, <2>7
  <2> QED BY <2>4, <2>5, <2>8
<1>13. OpenKept(q, m1, o1) BY <1>12 DEF OpenKept
<1>14. rest = <<>> => next = Absence
  <2> SUFFICES ASSUME rest = <<>> PROVE next = Absence OBVIOUS
  <2>1. ToSet(rest) = {} BY DEF ToSet
  <2>2. f = t
    <3>1. b # <<>> BY <1>4 DEF ToSet
    <3> QED BY <1>1, <1>3, <2>1, <3>1 DEF FrontKept
  <2> QED BY <2>2
<1>15. rest # <<>> => next \in ToSet(rest)
  <2> SUFFICES ASSUME rest # <<>> PROVE next \in ToSet(rest) OBVIOUS
  <2>1. b # <<>> BY <1>4 DEF ToSet
  <2>2. f \in ToSet(b) BY <1>1, <2>1 DEF FrontKept
  <2>3. CASE t # f BY <1>3, <2>2, <2>3
  <2>4. CASE t = f
    <3> DEFINE k == IF i <= Len(rest) THEN i ELSE Len(rest)
    <3>1. k \in DOMAIN rest BY <1>2, <1>3
    <3>2. next = rest[k] BY <2>4
    <3> HIDE DEF k
    <3> QED BY <3>1, <3>2 DEF ToSet
  <2> QED BY <2>3, <2>4
<1>16. FrontKept(rest, next) BY <1>14, <1>15 DEF FrontKept
<1>17. next # Absence => next \in ToSet(rest) /\ next # t /\ next \in ToSet(b) /\ q[next] = p[next]
  BY <1>6, <1>14, <1>15
<1>18. next \in ToSet(m1) <=> (next # Absence /\ p[next].log # Absence)
  <2>1. Absence \notin ToSet(m1) BY <1>4, <1>8, <1>9, AbsenceIsNoPage
  <2> QED BY <1>10, <1>17, <2>1
<1>19. a1 # Absence => a1 \in ToSet(m1) /\ d1 = q[a1].log
  <2> SUFFICES ASSUME a1 # Absence PROVE a1 \in ToSet(m1) /\ d1 = q[a1].log OBVIOUS
  <2>1. a1 = act /\ act # t OBVIOUS
  <2>2. CASE next \in ToSet(m1)
    <3>1. act = next BY <1>18, <2>2
    <3>2. m1 # <<>> BY <2>2 DEF ToSet
    <3>3. d1 = p[next].log BY <1>18, <2>2, <3>2
    <3> QED BY <1>17, <1>18, <2>1, <2>2, <3>1, <3>3
  <2>3. CASE next \notin ToSet(m1)
    <3>1. act = a BY <1>18, <2>3
    <3>2. a \in ToSet(m) /\ d = p[a].log BY <1>1, <2>1, <3>1 DEF ActiveKept
    <3>3. a \in ToSet(m1) BY <1>9, <2>1, <3>1, <3>2
    <3>4. m1 # <<>> BY <3>3 DEF ToSet
    <3>5. d1 = d BY <1>18, <2>3, <3>4
    <3>6. q[a] = p[a] BY <1>6, <1>10, <3>3
    <3> QED BY <2>1, <3>1, <3>2, <3>3, <3>5, <3>6
  <2> QED BY <2>2, <2>3
<1>20. next \in ToSet(m1) => a1 = next BY <1>17, <1>18
<1>21. d1 = Absence => m1 = <<>>
  <2> SUFFICES ASSUME d1 = Absence, m1 # <<>> PROVE FALSE OBVIOUS
  <2>1. CASE next \in ToSet(m1) BY <1>18, <2>1
  <2>2. CASE next \notin ToSet(m1)
    <3>1. d = Absence BY <1>18, <2>2
    <3>2. m = <<>> BY <1>1, <3>1 DEF ActiveKept
    <3>3. ToSet(m) = {} BY <3>2 DEF ToSet
    <3>4. ToSet(m1) = {} BY <1>9, <3>3
    <3>5. m1 = <<>>
      <4>1. m1 # <<>> => 1 \in DOMAIN m1 BY <1>9
      <4>2. 1 \in DOMAIN m1 => m1[1] \in ToSet(m1) BY DEF ToSet
      <4> QED BY <3>4, <4>1, <4>2
    <3> QED BY <3>5
  <2> QED BY <2>1, <2>2
<1>22. ActiveKept(q, m1, next, a1, d1) BY <1>19, <1>20, <1>21 DEF ActiveKept
<1> QED BY <1>7, <1>11, <1>13, <1>16, <1>22 DEF WellsKept

\* An empty window hangs together.
LEMMA EmptyKeeps ==
  WellsKept(<<>>, [t \in Tabs |-> NoPage], <<>>, <<>>, Absence, Absence, Absence)
<1>1. ToSet(<<>>) = {} BY DEF ToSet
<1>2. NoPage \in TabPages BY DEF NoPage, TabPages
<1>3. BarKept(<<>>, [t \in Tabs |-> NoPage]) BY <1>1, <1>2 DEF BarKept, IsInjective
<1>4. MadeKept(<<>>, [t \in Tabs |-> NoPage], <<>>) /\ OpenKept([t \in Tabs |-> NoPage], <<>>, <<>>)
  BY <1>1 DEF MadeKept, OpenKept
<1>5. FrontKept(<<>>, Absence) /\ ActiveKept([t \in Tabs |-> NoPage], <<>>, Absence, Absence, Absence)
  BY <1>1 DEF FrontKept, ActiveKept
<1> QED BY <1>3, <1>4, <1>5 DEF WellsKept

\* The wells after a step.
WellsNext == WellsKept(bar', page', made', opened', front', active', bound')
WellsNow  == WellsKept(bar, page, made, opened, front, active, bound)

\* A gesture forgets the window that was left, and stores nothing.
LEMMA GestureKeeps ==
  ASSUME StoredKept(stored), Gesture
  PROVE  up /\ up' = up /\ StoredKept(stored') /\ LeftKept'
<1>1. up /\ up' = up /\ left' = Absence /\ stored' = stored BY DEF Gesture
<1>2. LeftKept' BY <1>1 DEF LeftKept
<1> QED BY <1>1, <1>2

\* The next page to be opened is one that is not on the bar.
LEMMA NextFreeIsFree ==
  ASSUME Free # {}
  PROVE  NextFree \in Tabs /\ NextFree \notin ToSet(bar) /\ NextFree # Absence
<1>1. Free \in SUBSET Nat
  <2>1. Tabs \in SUBSET Nat BY TabsAssumption, FS_CardinalityType
  <2> QED BY <2>1 DEF Free
<1>2. \E t \in Free : \A u \in Free : t <= u BY <1>1, LeastPlace
<1>3. NextFree \in Free BY <1>2 DEF NextFree
<1> QED BY <1>3, AbsenceIsNoPage DEF Free

\* An open log has a first view.
LEMMA FirstViewIsMade ==
  ASSUME NEW f \in ToSet(opened), OpenKept(page, made, opened), made \in Seq(Tabs)
  PROVE  FirstView(f) \in ToSet(made) /\ page[FirstView(f)].log = f
<1> DEFINE S == {i \in DOMAIN made : page[made[i]].log = f}
<1>1. DOMAIN made \in SUBSET Nat OBVIOUS
<1>2. \E i \in DOMAIN made : page[made[i]].log = f
  <2>1. PICK t \in ToSet(made) : page[t].log = f BY DEF OpenKept
  <2> QED BY <2>1 DEF ToSet
<1>3. S \in SUBSET Nat /\ S # {} BY <1>1, <1>2
<1> HIDE DEF S
<1>4. PICK i \in S : \A j \in S : i <= j BY <1>3, LeastPlace
<1> DEFINE First(k) == page[made[k]].log = f
                       /\ \A j \in DOMAIN made : page[made[j]].log = f => k <= j
<1>5. i \in DOMAIN made /\ First(i) BY <1>4 DEF S
<1>6. FirstView(f) = made[CHOOSE k \in DOMAIN made : First(k)] BY DEF FirstView
<1> HIDE DEF First
<1>7. PICK k \in DOMAIN made : FirstView(f) = made[k] /\ First(k) BY <1>5, <1>6
<1>8. page[made[k]].log = f BY <1>7 DEF First
<1> QED BY <1>7, <1>8 DEF ToSet

\* A page that is raised, and nothing else.
LEMMA RaisedStep ==
  ASSUME WellsNow, NEW t \in ToSet(bar), Raised(t, page),
         UNCHANGED <<bar, page, made, opened>>
  PROVE  WellsNext
<1>1. BarKept(bar, page) /\ MadeKept(bar, page, made) /\ OpenKept(page, made, opened)
      /\ ActiveKept(page, made, front, active, bound)
  BY DEF WellsNow, WellsKept
<1>2. t # Absence
  <2>1. t \in Tabs BY <1>1 DEF BarKept, ToSet
  <2> QED BY <2>1, AbsenceIsNoPage
<1>3. /\ front' = t
      /\ page[t].log # Absence => active' = t /\ bound' = page[t].log
      /\ page[t].log = Absence => active' = active /\ bound' = bound
  BY <1>2 DEF Raised
<1>4. FrontKept(bar, t) /\ ActiveKept(page, made, t, active', bound')
  BY <1>1, <1>3, RaisedKeeps
<1>5. bar' = bar /\ page' = page /\ made' = made /\ opened' = opened /\ front' = t BY <1>3
<1> QED BY <1>1, <1>4, <1>5 DEF WellsNext, WellsKept

\* A page that is opened.
LEMMA GrownStep ==
  ASSUME WellsNow, Free # {}, NEW g \in PageRecs,
         PageSet(page', page, NextFree, g), bar' = Append(bar, NextFree),
         Raised(NextFree, page'), opened' \in Seq(Files),
         g.log # Absence => made' = Append(made, NextFree)
                            /\ ToSet(opened') = ToSet(opened) \cup {g.log},
         g.log = Absence => made' = made /\ opened' = opened
  PROVE  WellsNext
<1> DEFINE x == NextFree
<1>1. x \in Tabs /\ x \notin ToSet(bar) /\ x # Absence BY NextFreeIsFree
<1>2. page \in [Tabs -> TabPages] BY DEF WellsNow, WellsKept, BarKept
<1> HIDE DEF x
<1>3. page'[x] = g BY <1>1, <1>2 DEF PageSet, x
<1>4. /\ front' = x
      /\ g.log # Absence => active' = x /\ bound' = g.log
      /\ g.log = Absence => active' = active /\ bound' = bound
  BY <1>1, <1>3 DEF Raised, x
<1>5. PageSet(page', page, x, g) /\ bar' = Append(bar, x)
      /\ (g.log # Absence => made' = Append(made, x)
                             /\ ToSet(opened') = ToSet(opened) \cup {g.log})
  BY DEF x
<1>6. WellsKept(bar, page, made, opened, front, active, bound) BY DEF WellsNow
<1> DEFINE q == page'
           m1 == made'
           o1 == opened'
           a1 == active'
           d1 == bound'
<1>7. /\ PageSet(q, page, x, g) /\ o1 \in Seq(Files)
      /\ g.log # Absence => m1 = Append(made, x) /\ ToSet(o1) = ToSet(opened) \cup {g.log}
                            /\ a1 = x /\ d1 = g.log
      /\ g.log = Absence => m1 = made /\ o1 = opened /\ a1 = active /\ d1 = bound
  BY <1>4, <1>5
<1> HIDE DEF q, m1, o1, a1, d1
<1>8. WellsKept(Append(bar, x), q, m1, o1, x, a1, d1) BY <1>1, <1>6, <1>7, GrownKeeps
<1> QED BY <1>4, <1>5, <1>8 DEF WellsNext, q, m1, o1, a1, d1

\* Opening a log raises its first view or puts a new one at the end of the bar.
LEMMA OpenLogKeeps == ASSUME WellsNow, NEW f \in Files, OpenLog(f) PROVE WellsNext
<1>1. OpenKept(page, made, opened) /\ made \in Seq(Tabs) /\ opened \in Seq(Files)
      /\ MadeKept(bar, page, made)
  BY DEF WellsNow, WellsKept, MadeKept, OpenKept
<1>2. CASE f \in ToSet(opened)
  <2>1. FirstView(f) \in ToSet(made) BY <1>1, <1>2, FirstViewIsMade
  <2>2. FirstView(f) \in ToSet(bar) BY <1>1, <2>1 DEF MadeKept
  <2>3. Raised(FirstView(f), page) /\ UNCHANGED <<bar, page, made, opened>>
    BY <1>2 DEF OpenLog
  <2> QED BY <2>2, <2>3, RaisedStep
<1>3. CASE f \notin ToSet(opened)
  <2> DEFINE g == View(f, 0)
  <2>1. /\ Free # {} /\ opened' = Append(opened, f) /\ PageSet(page', page, NextFree, g)
        /\ bar' = Append(bar, NextFree) /\ made' = Append(made, NextFree)
        /\ Raised(NextFree, page')
    BY <1>3, Zenon DEF OpenLog, PageSet
  <2>2. g \in PageRecs /\ g.log = f /\ g.log # Absence
    BY AbsenceIsNoPage DEF View, PageRecs, ViewRecs
  <2>3. opened' \in Seq(Files) /\ ToSet(opened') = ToSet(opened) \cup {g.log}
    BY <1>1, <2>1, <2>2, AppendedMembers
  <2> HIDE DEF g
  <2> QED BY <2>1, <2>2, <2>3, GrownStep
<1> QED BY <1>2, <1>3

\* Another view of the log in front, at the end of the bar.
LEMMA NewViewKeeps == ASSUME WellsNow, NewView PROVE WellsNext
<1> DEFINE g == page[active]
<1>1. /\ BarKept(bar, page) /\ MadeKept(bar, page, made) /\ OpenKept(page, made, opened)
      /\ ActiveKept(page, made, front, active, bound)
  BY DEF WellsNow, WellsKept
<1>2. /\ Free # {} /\ active # Absence /\ PageSet(page', page, NextFree, g)
      /\ bar' = Append(bar, NextFree) /\ made' = Append(made, NextFree)
      /\ Raised(NextFree, page') /\ opened' = opened
  BY Zenon DEF NewView, PageSet
<1>3. active \in ToSet(made) BY <1>1, <1>2 DEF ActiveKept
<1>4. g \in PageRecs /\ g.log # Absence BY <1>1, <1>3 DEF BarKept, MadeKept
<1>5. g.log \in ToSet(opened) /\ opened \in Seq(Files) BY <1>1, <1>3 DEF OpenKept
<1> HIDE DEF g
<1>6. ToSet(opened') = ToSet(opened) \cup {g.log} /\ opened' \in Seq(Files) BY <1>2, <1>5
<1> QED BY <1>2, <1>4, <1>6, GrownStep

\* Opening a file of settings raises its editor or puts a new one at the end.
LEMMA OpenConfigKeeps == ASSUME WellsNow, NEW e \in Configs, OpenConfig(e) PROVE WellsNext
<1>1. made' = made /\ opened' = opened BY DEF OpenConfig
<1>2. CASE \E t \in ToSet(bar) : page[t].cfg = e
  <2> DEFINE u == CHOOSE t \in ToSet(bar) : page[t].cfg = e
  <2>1. u \in ToSet(bar) BY <1>2
  <2>2. Raised(u, page) /\ bar' = bar /\ page' = page BY <1>2, Zenon DEF OpenConfig
  <2> HIDE DEF u
  <2> QED BY <1>1, <2>1, <2>2, RaisedStep
<1>3. CASE ~(\E t \in ToSet(bar) : page[t].cfg = e)
  <2> DEFINE g == Editor(e, 0)
  <2>1. /\ Free # {} /\ PageSet(page', page, NextFree, g)
        /\ bar' = Append(bar, NextFree) /\ Raised(NextFree, page')
    BY <1>3, Zenon DEF OpenConfig, PageSet
  <2>2. g \in PageRecs /\ g.log = Absence BY DEF Editor, PageRecs, EditorRecs
  <2>3. opened' \in Seq(Files) BY <1>1 DEF WellsNow, WellsKept, OpenKept
  <2> HIDE DEF g
  <2> QED BY <1>1, <2>1, <2>2, <2>3, GrownStep
<1> QED BY <1>2, <1>3

\* A page that is raised becomes the active view when it is one.
LEMMA RaiseKeeps == ASSUME WellsNow, NEW t \in Tabs, Raise(t) PROVE WellsNext
  BY RaisedStep DEF Raise

\* What a page looks like says nothing of which page it is.
LEMMA RelookKeeps == ASSUME WellsNow, NEW t \in Tabs, Relook(t) PROVE WellsNext
<1>1. t \in ToSet(bar) /\ LookSet(page', page, t)
      /\ UNCHANGED <<bar, made, opened, front, active, bound>>
  BY Zenon DEF Relook, LookSet
<1> DEFINE q == page'
<1>2. LookSet(q, page, t) BY <1>1
<1> HIDE DEF q
<1>3. WellsKept(bar, q, made, opened, front, active, bound)
  BY <1>1, <1>2, RelookedKeeps DEF WellsNow
<1> QED BY <1>1, <1>3 DEF WellsNext, q

\* A page that is dragged along the bar takes its place among the same pages.
LEMMA MoveTabKeeps == ASSUME WellsNow, NEW i \in Tabs, NEW j \in Tabs, MoveTab(i, j) PROVE WellsNext
<1>1. i \in DOMAIN bar /\ j \in DOMAIN bar /\ bar' = InsertAt(RemoveAt(bar, i), j, bar[i])
      /\ UNCHANGED <<page, made, opened, front, active, bound>>
  BY DEF MoveTab
<1>2. WellsKept(InsertAt(RemoveAt(bar, i), j, bar[i]), page, made, opened, front, active, bound)
  BY <1>1, MovedKeeps DEF WellsNow
<1> QED BY <1>1, <1>2 DEF WellsNext

\* Closing a page: the log goes with its last view, and the window finds another page.
LEMMA CloseAtKeeps == ASSUME WellsNow, NEW i \in Tabs, CloseAt(i) PROVE WellsNext
<1> DEFINE t == bar[i]
           rest == RemoveAt(bar, i)
           next == IF t # front THEN front
                   ELSE IF rest = <<>> THEN Absence
                   ELSE rest[IF i <= Len(rest) THEN i ELSE Len(rest)]
           act == IF next # Absence /\ page[next].log # Absence THEN next ELSE active
           logs == {page[rest[k]].log : k \in DOMAIN rest}
           q == page'
           m1 == made'
           o1 == opened'
           a1 == active'
           d1 == bound'
<1>1. i \in DOMAIN bar BY DEF CloseAt
<1>2. bar' = rest /\ front' = next /\ PageSet(q, page, t, NoPage)
  BY Zenon DEF CloseAt, PageSet, IsView
<1>3. m1 = Those(made, {k \in DOMAIN made : made[k] # t}) BY Zenon DEF CloseAt
<1>4. o1 = Those(opened, {k \in DOMAIN opened : opened[k] \in logs}) BY Zenon DEF CloseAt
<1>5. a1 = IF act = t THEN Absence ELSE act BY Zenon DEF CloseAt, IsView
<1>6. d1 = IF page[t].log # Absence /\ m1 = <<>> THEN Absence
           ELSE IF next # Absence /\ page[next].log # Absence THEN page[next].log ELSE bound
  BY Zenon DEF CloseAt, IsView
<1>7. WellsKept(bar, page, made, opened, front, active, bound) BY DEF WellsNow
<1> HIDE DEF q, m1, o1, a1, d1
<1>9. /\ t = bar[i] /\ rest = RemoveAt(bar, i)
      /\ next = (IF t # front THEN front ELSE IF rest = <<>> THEN Absence
                 ELSE rest[IF i <= Len(rest) THEN i ELSE Len(rest)])
      /\ act = (IF next # Absence /\ page[next].log # Absence THEN next ELSE active)
      /\ o1 = Those(opened, {k \in DOMAIN opened :
                             opened[k] \in {page[rest[j]].log : j \in DOMAIN rest}})
  BY <1>4
<1> HIDE DEF t, rest, next, act, logs
<1>8. WellsKept(rest, q, m1, o1, next, a1, d1)
  <2>1. Closing(bar, page, made, opened, front, active, bound, i, t, rest, next, act,
                q, m1, o1, a1, d1)
    BY <1>2, <1>3, <1>5, <1>6, <1>9 DEF Closing
  <2> QED BY <1>1, <1>7, <2>1, ClosedKeeps
<1> QED BY <1>2, <1>8 DEF WellsNext, rest, next, q, m1, o1, a1, d1

\* A window with no page is well kept.
LEMMA EmptyStep == ASSUME EmptyWindow PROVE WellsNext
  BY EmptyKeeps DEF EmptyWindow, WellsNext

\* Closing every page leaves such a window.
LEMMA CloseAllKeeps == ASSUME CloseAll PROVE WellsNext
  BY EmptyKeeps DEF CloseAll, WellsNext

\* The panes, while nothing touches them.
LEMMA PanesStay == ASSUME PanesKept, UNCHANGED panes, UNCHANGED up PROVE PanesKept'
  BY DEF PanesKept, panes, PersistableLayout

\* What the reader does with the panes keeps the arrangement that a quit would save.
LEMMA PaneStep ==
  ASSUME PanesKept, up' = up, NEW d \in Docks,
         TabHides \/ TabShows \/ AskForPane(d) \/ ClosePane(d)
  PROVE  PanesKept'
<1>1. CASE TabHides BY <1>1 DEF TabHides, PanesKept, PersistableLayout
<1>2. CASE TabShows BY <1>2 DEF TabShows, PanesKept, PersistableLayout
<1>3. CASE AskForPane(d) BY <1>3 DEF AskForPane, PanesKept, PersistableLayout
<1>4. CASE ClosePane(d) BY <1>4 DEF ClosePane, PanesKept, PersistableLayout
<1> QED BY <1>1, <1>2, <1>3, <1>4

\* Quitting saves a session that brings back what is seen.
LEMMA QuitKeeps == ASSUME TabInv, Quit PROVE TabInv'
<1>1. /\ WellsKept(bar, page, made, opened, front, active, bound) /\ PanesKept
      /\ StoredKept(stored)
  BY DEF TabInv
<1>2. /\ up /\ up' = FALSE /\ EmptyWindow /\ visible' = {} /\ hidden' = FALSE /\ before' = {}
      /\ arranged' = {} /\ stored' = SavedOver
      /\ left' = IF stored = Newer \/ Adrift THEN Absence ELSE Sight
  BY DEF Quit, Gone
<1>3. WellsNext BY <1>2, EmptyStep
<1>4. PanesKept' BY <1>2 DEF PanesKept
<1>5. GoodSession(Saved) BY <1>1, SavedIsGood DEF WellsKept
<1>6. Saved # Absence /\ Saved # Newer BY <1>5, AbsenceIsNoPage DEF GoodSession
<1>7. StoredKept(stored') BY <1>1, <1>2, <1>5 DEF SavedOver, StoredKept
<1>8. left' # Absence => Loadable' /\ left' = Brought(stored')
  <2> SUFFICES ASSUME left' # Absence PROVE Loadable' /\ left' = Brought(stored') OBVIOUS
  <2>1. stored # Newer /\ ~Adrift /\ left' = Sight BY <1>2
  <2>2. stored' = Saved BY <1>2, <2>1 DEF SavedOver
  <2>3. Brought(Saved) = Sight BY <1>1, <1>2, <2>1, SavedBringsBack
  <2>4. Loadable' BY <1>6, <2>2 DEF Loadable
  <2> QED BY <2>1, <2>2, <2>3, <2>4
<1>9. LeftKept' BY <1>2, <1>8 DEF LeftKept
<1> QED BY <1>3, <1>4, <1>7, <1>9 DEF TabInv, WellsNext

\* A crash saves nothing: the session is the one before, and the next window is new.
LEMMA CrashKeeps == ASSUME TabInv, Crash PROVE TabInv'
<1>1. /\ up' = FALSE /\ left' = Absence /\ EmptyWindow /\ visible' = {} /\ hidden' = FALSE
      /\ before' = {} /\ arranged' = {} /\ stored' = stored
  BY DEF Crash, Gone
<1>2. WellsNext BY <1>1, EmptyStep
<1>3. PanesKept' /\ LeftKept' BY <1>1 DEF PanesKept, LeftKept
<1>4. StoredKept(stored') BY <1>1 DEF TabInv
<1> QED BY <1>2, <1>3, <1>4 DEF TabInv, WellsNext

\* A later build leaves a session this one does not read.
LEMMA LaterBuildKeeps == ASSUME TabInv, LaterBuildRuns PROVE TabInv'
<1>1. /\ stored' = Newer /\ left' = Absence /\ UNCHANGED panes /\ UNCHANGED up
      /\ UNCHANGED <<bar, page, made, opened, front, active, bound>>
  BY DEF LaterBuildRuns, wells
<1>2. WellsNext BY <1>1 DEF TabInv, WellsNext
<1>3. PanesKept' BY <1>1, PanesStay DEF TabInv
<1>4. StoredKept(stored') /\ LeftKept' BY <1>1 DEF StoredKept, LeftKept
<1> QED BY <1>2, <1>3, <1>4 DEF TabInv, WellsNext

\* The bar after a launch that restores what the session s gives back.
Bringing(s, r) ==
  /\ bar' = [i \in 1 .. Len(r.pages) |-> i]
  /\ page' = [t \in Tabs |-> IF t <= Len(r.pages) THEN r.pages[t] ELSE NoPage]
  /\ made' = Ascending(ViewPlaces(r.pages)) /\ opened' = r.open
  /\ front' = LastOf(s, r) /\ active' = ActOf(s, r)
  /\ bound' = IF ActOf(s, r) = Absence THEN Absence ELSE r.pages[ActOf(s, r)].log

\* It hangs together, and its pages are the ones that were given back.
LEMMA LaunchBrings ==
  ASSUME NEW s, GoodSession(s), NEW refused, NEW r, r = Restored(s, refused), Bringing(s, r)
  PROVE  /\ WellsNext
         /\ [i \in DOMAIN bar' |-> page'[bar'[i]]] = r.pages
         /\ front' # Absence => page'[front'] = r.pages[front']
<1> DEFINE P == r.pages
           n == Len(P)
           b == [i \in 1 .. n |-> i]
           p == [t \in Tabs |-> IF t <= n THEN P[t] ELSE NoPage]
           l == LastOf(s, r)
           a == ActOf(s, r)
           d == IF a = Absence THEN Absence ELSE P[a].log
<1>1. Regained(r) /\ s.activeTab \in Nat BY RestoredHolds DEF GoodSession, Sessions
<1>2. WellsKept(b, p, Ascending(ViewPlaces(P)), r.open, l, a, d) BY <1>1, BroughtHolds
<1>3. P \in Seq(PageRecs) /\ n <= Cardinality(Tabs) BY <1>1 DEF Regained
<1>4. n \in Nat /\ DOMAIN P = 1 .. n BY <1>3
<1>5. \A i \in 1 .. n : i \in Tabs /\ i <= n
  <2>1. Tabs = 1 .. Cardinality(Tabs) /\ Cardinality(Tabs) \in Nat
    BY TabsAssumption, FS_CardinalityType
  <2> QED BY <1>3, <1>4, <2>1
<1>6. bar' = b /\ page' = p /\ front' = l BY DEF Bringing
<1>7. WellsNext BY <1>2 DEF WellsNext, Bringing
<1>8. FrontKept(b, l) BY <1>2 DEF WellsKept
<1> HIDE DEF P, n, l, a, d
<1>9. DOMAIN b = 1 .. n /\ ToSet(b) = 1 .. n /\ \A i \in 1 .. n : b[i] = i BY DEF ToSet
<1>10. \A i \in 1 .. n : p[i] = P[i] BY <1>5
<1> HIDE DEF b, p
<1>11. [i \in DOMAIN b |-> p[b[i]]] = [i \in 1 .. n |-> P[i]] BY <1>9, <1>10
<1>12. [i \in 1 .. n |-> P[i]] = P BY <1>3, <1>4
<1>13. l # Absence => l \in 1 .. n BY <1>8, <1>9 DEF FrontKept
<1>14. l # Absence => p[l] = P[l] BY <1>10, <1>13
<1>15. [i \in DOMAIN bar' |-> page'[bar'[i]]] = P BY <1>6, <1>11, <1>12
<1> QED BY <1>6, <1>7, <1>14, <1>15 DEF P

\* A launch brings the session back: what was left, if nothing is refused.
LEMMA LaunchKeeps ==
  ASSUME TabInv, NEW full \in BOOLEAN, NEW refused, Launch(full, refused)
  PROVE  TabInv'
<1>1. PanesKept /\ StoredKept(stored) /\ LeftKept BY DEF TabInv
<1>2. /\ ~up /\ up' = TRUE /\ stored' = stored /\ hidden' = FALSE /\ before' = {}
      /\ visible' = IF Loadable THEN stored.layout ELSE Docks
      /\ arranged' = IF left = Absence THEN visible' ELSE left.panes
  BY Zenon DEF Launch
<1>3. left # Absence => Loadable /\ left = Brought(stored) BY <1>1, <1>2 DEF LeftKept
<1>4. Loadable => GoodSession(stored) BY <1>1 DEF Loadable, StoredKept
<1>5. visible' \in SUBSET Docks BY <1>2, <1>4 DEF GoodSession, Sessions
<1>6. arranged' = visible' BY <1>2, <1>3 DEF Brought
<1>7. PanesKept' BY <1>2, <1>5, <1>6 DEF PanesKept, PersistableLayout
<1>8. StoredKept(stored') BY <1>1, <1>2
<1>9. CASE ~(full /\ Loadable)
  <2>1. EmptyWindow /\ left' = Absence BY <1>9, Zenon DEF Launch
  <2>2. WellsNext /\ LeftKept' BY <2>1, EmptyStep DEF LeftKept
  <2> QED BY <1>7, <1>8, <2>2 DEF TabInv, WellsNext
<1>10. CASE full /\ Loadable
  <2> DEFINE s == stored
             r == Restored(s, refused)
             P == r.pages
             n == Len(P)
             views == Ascending({i \in 1 .. n : P[i].log # Absence})
             raised == IF Len(r.views) > 0 THEN views[r.raise] ELSE IF n > 0 THEN 1 ELSE Absence
             last == IF s.activeTab < n THEN s.activeTab + 1 ELSE raised
             act == IF Len(r.views) = 0 THEN Absence
                    ELSE IF P[last].log # Absence THEN last ELSE raised
  <2>1. /\ bar' = [i \in 1 .. n |-> i]
        /\ page' = [t \in Tabs |-> IF t <= n THEN P[t] ELSE NoPage]
        /\ made' = views /\ opened' = r.open /\ front' = last /\ active' = act
        /\ bound' = IF act = Absence THEN Absence ELSE P[act].log
        /\ left' = IF left = Absence \/ refused # {} THEN Absence ELSE left
    BY <1>10, Zenon DEF Launch
  <2>2. GoodSession(s) BY <1>4, <1>10
  <2>3. P \in Seq(PageRecs) BY <2>2, RestoredHolds DEF Regained
  <2>4. {i \in 1 .. n : P[i].log # Absence} = ViewPlaces(P) BY <2>3 DEF ViewPlaces
  <2>5. views = Ascending(ViewPlaces(P)) BY <2>4
  <2> HIDE DEF views
  <2>6. raised = ShownOf(r) BY <2>5 DEF ShownOf
  <2> HIDE DEF raised
  <2>7. last = LastOf(s, r) BY <2>6 DEF LastOf
  <2> HIDE DEF last
  <2>8. act = ActOf(s, r) BY <2>6, <2>7 DEF ActOf
  <2> HIDE DEF act
  <2>11. r = Restored(s, refused) OBVIOUS
  <2> HIDE DEF r, s
  <2>12. Bringing(s, r) BY <2>1, <2>5, <2>7, <2>8 DEF Bringing
  <2>9. /\ WellsNext
        /\ [i \in DOMAIN bar' |-> page'[bar'[i]]] = P
        /\ front' # Absence => page'[front'] = P[front']
    BY <2>2, <2>11, <2>12, LaunchBrings
  <2>10. LeftKept'
    <3> SUFFICES ASSUME left' # Absence PROVE Sight' = left' /\ visible' = arranged'
      BY <1>2 DEF LeftKept
    <3>1. left # Absence /\ refused = {} /\ left' = left BY <2>1
    <3>2. left = Brought(stored) /\ s = stored /\ r = Restored(s, {})
      BY <1>3, <2>11, <3>1 DEF s
    <3>3. left = [pages |-> P,
                  front |-> IF LastOf(s, r) = Absence THEN NoPage ELSE P[LastOf(s, r)],
                  bound |-> IF ActOf(s, r) = Absence THEN Absence ELSE P[ActOf(s, r)].log,
                  panes |-> s.layout]
      BY <3>2 DEF Brought
    <3>4. Sight' = [pages |-> [i \in DOMAIN bar' |-> page'[bar'[i]]],
                    front |-> IF front' = Absence THEN NoPage ELSE page'[front'],
                    bound |-> bound', panes |-> arranged']
      BY DEF Sight
    <3> HIDE DEF P
    <3>5. arranged' = s.layout BY <1>2, <1>6, <1>10, <3>2
    <3>6. (IF front' = Absence THEN NoPage ELSE page'[front'])
            = (IF LastOf(s, r) = Absence THEN NoPage ELSE P[LastOf(s, r)])
      BY <2>1, <2>7, <2>9
    <3>7. bound' = IF ActOf(s, r) = Absence THEN Absence ELSE P[ActOf(s, r)].log
      BY <2>1, <2>8
    <3> QED BY <1>6, <2>9, <3>1, <3>3, <3>4, <3>5, <3>6, <3>7
  <2> QED BY <1>7, <1>8, <2>9, <2>10 DEF TabInv, WellsNext
<1> QED BY <1>9, <1>10

\* The first launch finds an empty window and no session.
LEMMA TabInvInit == TabInit => TabInv
<1> SUFFICES ASSUME TabInit PROVE TabInv OBVIOUS
<1>1. WellsKept(bar, page, made, opened, front, active, bound) BY EmptyKeeps DEF TabInit
<1>2. PanesKept /\ StoredKept(stored) /\ LeftKept
  BY DEF TabInit, PanesKept, PersistableLayout, StoredKept, LeftKept
<1> QED BY <1>1, <1>2 DEF TabInv

\* Every step preserves the invariant.
LEMMA TabInvNext == TabInv /\ [TabNext]_tabVars => TabInv'
<1> SUFFICES ASSUME TabInv, [TabNext]_tabVars PROVE TabInv' OBVIOUS
<1>1. WellsNow /\ PanesKept /\ StoredKept(stored) BY DEF TabInv, WellsNow
<1>2. ASSUME Gesture, WellsNext, PanesKept' PROVE TabInv'
  BY <1>1, <1>2, GestureKeeps DEF TabInv, WellsNext
<1>3. ASSUME Gesture, WellsNext, UNCHANGED panes PROVE TabInv'
  <2>1. PanesKept' BY <1>1, <1>3, GestureKeeps, PanesStay
  <2> QED BY <1>2, <1>3, <2>1
<1>4. ASSUME Gesture, UNCHANGED wells, PanesKept' PROVE TabInv'
  <2>1. WellsNext BY <1>1, <1>4 DEF wells, WellsNow, WellsNext
  <2> QED BY <1>2, <1>4, <2>1
<1>5. ASSUME NEW f \in Files, OpenLog(f) PROVE TabInv'
  <2>1. Gesture /\ UNCHANGED panes BY <1>5 DEF OpenLog
  <2> QED BY <1>1, <1>3, <1>5, <2>1, OpenLogKeeps
<1>6. ASSUME NEW e \in Configs, OpenConfig(e) PROVE TabInv'
  <2>1. Gesture /\ UNCHANGED panes BY <1>6 DEF OpenConfig
  <2> QED BY <1>1, <1>3, <1>6, <2>1, OpenConfigKeeps
<1>7. CASE NewView
  <2>1. Gesture /\ UNCHANGED panes BY <1>7 DEF NewView
  <2> QED BY <1>1, <1>3, <1>7, <2>1, NewViewKeeps
<1>8. CASE CloseAll
  <2>1. Gesture /\ UNCHANGED panes BY <1>8 DEF CloseAll
  <2> QED BY <1>3, <1>8, <2>1, CloseAllKeeps
<1>9. CASE TabHides
  <2>1. Gesture /\ UNCHANGED wells BY <1>9 DEF TabHides
  <2>2. PanesKept' BY <1>1, <1>9, <2>1 DEF TabHides, Gesture, PanesKept, PersistableLayout
  <2> QED BY <1>4, <2>1, <2>2
<1>10. CASE TabShows
  <2>1. Gesture /\ UNCHANGED wells BY <1>10 DEF TabShows
  <2>2. PanesKept'
    BY <1>1, <1>10, <2>1 DEF TabShows, Gesture, PanesKept, PersistableLayout
  <2> QED BY <1>4, <2>1, <2>2
<1>11. ASSUME NEW t \in Tabs, Raise(t) PROVE TabInv'
  <2>1. Gesture /\ UNCHANGED panes BY <1>11 DEF Raise
  <2> QED BY <1>1, <1>3, <1>11, <2>1, RaiseKeeps
<1>12. ASSUME NEW t \in Tabs, Relook(t) PROVE TabInv'
  <2>1. Gesture /\ UNCHANGED panes BY <1>12, Zenon DEF Relook
  <2> QED BY <1>1, <1>3, <1>12, <2>1, RelookKeeps
<1>13. ASSUME NEW i \in Tabs, NEW j \in Tabs, MoveTab(i, j) PROVE TabInv'
  <2>1. Gesture /\ UNCHANGED panes BY <1>13 DEF MoveTab
  <2> QED BY <1>1, <1>3, <1>13, <2>1, MoveTabKeeps
<1>14. ASSUME NEW i \in Tabs, CloseAt(i) PROVE TabInv'
  <2>1. Gesture /\ UNCHANGED panes BY <1>14, Zenon DEF CloseAt
  <2> QED BY <1>1, <1>3, <1>14, <2>1, CloseAtKeeps
<1>15. ASSUME NEW d \in Docks, AskForPane(d) \/ ClosePane(d) PROVE TabInv'
  <2>1. Gesture /\ UNCHANGED wells BY <1>15 DEF AskForPane, ClosePane
  <2>2. PanesKept' BY <1>1, <1>15, <2>1, GestureKeeps, PaneStep
  <2> QED BY <1>4, <2>1, <2>2
<1>16. ASSUME NEW full \in BOOLEAN, NEW refused \in SUBSET (Files \cup Configs),
              Launch(full, refused)
       PROVE  TabInv'
  BY <1>16, LaunchKeeps
<1>17. CASE UNCHANGED tabVars
  <2>1. UNCHANGED <<bar, page, made, opened, front, active, bound, visible, hidden, before,
                    arranged, stored, up, left>>
    BY <1>17 DEF tabVars
  <2>2. WellsNext BY <1>1, <2>1 DEF WellsNow, WellsNext
  <2>3. PanesKept' BY <1>1, <2>1 DEF PanesKept, PersistableLayout
  <2>4. StoredKept(stored') BY <1>1, <2>1
  <2>5. LeftKept'
    <3>1. LeftKept BY DEF TabInv
    <3> QED BY <2>1, <3>1 DEF LeftKept, Sight, Loadable
  <2> QED BY <2>2, <2>3, <2>4, <2>5 DEF TabInv, WellsNext
<1>18. CASE Quit \/ Crash \/ LaterBuildRuns
  BY <1>18, QuitKeeps, CrashKeeps, LaterBuildKeeps
<1> QED
  BY <1>5, <1>6, <1>7, <1>8, <1>9, <1>10, <1>11, <1>12, <1>13, <1>14, <1>15, <1>16, <1>17, <1>18
     DEF TabNext

\* After a quit and an ordinary launch that nothing refuses, the window is the one that was
\* left (saveSession(), restoreSession()).
THEOREM WindowIsBroughtBack == TabSpec => []WindowComesBack
<1>1. TabInv => WindowComesBack BY DEF TabInv, LeftKept, WindowComesBack
<1> QED BY <1>1, TabInvInit, TabInvNext, PTL DEF TabSpec
=============================================================================
