------------------------------ MODULE SshProofs ------------------------------
(***************************************************************************)
(* What SshFetcher promises, for a log of any size, any number of changes, *)
(* outages, presses and disk faults: it keeps the contract of              *)
(* SourceFetcher, a fetcher that has given up says so, no outage of a host *)
(* that lets us in latches a log read through a shell, and over SFTP one   *)
(* generation of the spool is one remote file.                             *)
(***************************************************************************)
EXTENDS SshFetcher, TLAPS

-----------------------------------------------------------------------------
(* The inductive invariant                                                 *)

Seens == [size : 0 .. MaxSize, mtime : Int]
Fars  == [presence : {"present", "absent", "unreadable", "folder"}, inode : Contents,
          content : Contents, size : 0 .. MaxSize, mtime : 0 .. MaxChanges + 1]

\* TypeOK, variable by variable, with the bounds that keep it.
Typed ==
  /\ state \in Contract!States /\ generation \in Generations
  /\ committed \in 0 .. MaxSize /\ base \in 0 .. MaxSize
  /\ retryAt \in BOOLEAN /\ stopping \in BOOLEAN /\ poked \in BOOLEAN
  /\ refused \in BOOLEAN /\ wantsPrompter \in BOOLEAN
  /\ file \in [Generations -> Seq(Bytes)]
  /\ pc \in PCs /\ task \in {"prime", "rotate", "append"} /\ mayPrompt \in BOOLEAN
  /\ failure \in Failures
  /\ offset \in 0 .. MaxSize /\ fetchTo \in 0 .. MaxSize /\ held \in 0 .. MaxSize
  /\ seen \in Seens /\ lastSize \in 0 .. MaxSize /\ lastMtime \in Int
  /\ sawRefused \in BOOLEAN /\ cut \in BOOLEAN /\ overlooked \in BOOLEAN
  /\ grace \in {"never", "fresh", "running"}
  /\ session \in Sessions \cup {NoSession} /\ far \in Fars
  /\ link \in {"up", "down"} /\ auth \in {"ok", "person", "refused"}
  /\ addr \in 0 .. MaxMoves + 1
  /\ changes \in Nat /\ faults \in 0 .. MaxFaults

\* Where the worker has no session, where it has one, where it is inside a
\* fetch, and where the session it has is the one the spool is filled through.
Alone    == {"unstarted", "consume", "connect", "dial", "failed", "latch"}
Joined   == {"signin", "settle", "open", "estat", "begin", "announce", "priming", "fetch",
             "read", "commit",
             "fetched", "broken", "live", "poll", "judge", "reopen", "fresh"}
Fetching == {"priming", "fetch", "read", "commit", "fetched"}
Following == /\ session # NoSession
             /\ \/ pc \in {"top", "sleep", "asleep", "poll", "judge", "reopen", "fresh", "live"}
                \/ pc \in {"begin", "broken"} /\ task # "prime"

\* What the fetcher says of itself where.
Placed ==
  /\ state # "Complete"
  /\ pc = "unstarted" => state \in {"Idle", "Disconnected"}
  /\ pc # "unstarted" => state # "Idle"
  /\ pc \in Alone => session = NoSession
  /\ pc \in Joined => session # NoSession
  /\ pc \in Fetching \/ Following => generation > 0
  /\ pc = "announce" => generation < MaxGeneration /\ file[generation + 1] = <<>>
  /\ pc \in {"latch", "broken"} => ~refused
  /\ pc = "latch" => state \in {"Error", "Waiting", "Disconnected"}
  /\ refused => /\ session = NoSession /\ pc \in {"sleep", "asleep", "top", "done"}
                /\ state \in {"Error", "Waiting", "Disconnected"}

\* What refused writes may have left in a file beyond what is counted.
Spill  == MaxSize * faults
Landed == Len(file[generation])

\* The bytes read, landed and published.
Counted ==
  /\ base + committed <= MaxSize /\ committed <= Landed
  /\ Following => Landed <= committed + Spill
  /\ pc \in Fetching => base <= offset /\ offset - base <= Landed
                        /\ Landed <= offset - base + Spill
  /\ pc \in Fetching \ {"commit"} => IF task = "prime" THEN held = offset - base /\ committed = 0
                                                       ELSE offset = base + committed
  /\ pc = "commit" => base < offset /\ committed <= offset - base
                      /\ (task = "prime" => committed = 0)

IInv == Typed /\ Placed /\ Counted

-----------------------------------------------------------------------------
(* Types                                                                   *)

LEMMA Sizes ==
  /\ MaxSize \in Nat /\ MaxChanges \in Nat /\ MaxFaults \in Nat /\ MaxMoves \in Nat
  /\ MaxGeneration \in Nat /\ PrimeBytes \in Nat /\ TailStart \in Nat
  BY SshAssumption

\* The fields of what the worker looks at.
LEMMA FarFields == ASSUME far \in Fars
                   PROVE /\ far.presence \in {"present", "absent", "unreadable", "folder"}
                         /\ far.inode \in Contents /\ far.content \in Contents
                         /\ far.size \in 0 .. MaxSize /\ far.mtime \in 0 .. MaxChanges + 1
  BY DEF Fars

LEMMA SessionFields ==
  ASSUME session \in Sessions
  PROVE  /\ session.alive \in BOOLEAN /\ session.rung \in Rungs /\ session.tracks \in BOOLEAN
         /\ session.addr \in 0 .. MaxMoves + 1 /\ session.handle \in Handles \cup {NoFile}
         /\ session.handle \in Handles => /\ session.handle.inode \in Contents
                                          /\ session.handle.content \in Contents
                                          /\ session.handle.size \in 0 .. MaxSize
  BY DEF Sessions, Handles

LEMMA Looks ==
  ASSUME Typed
  PROVE  /\ StatResult \in Seens /\ StatResult.size = far.size
         /\ session # NoSession => ClosedSession \in Sessions
  <1>1. far \in Fars /\ (session # NoSession => session \in Sessions) BY DEF Typed
  <1>2. StatResult \in Seens /\ StatResult.size = far.size
    BY <1>1, FarFields, Sizes DEF StatResult, Seens, Unknown
  <1>3. session # NoSession => ClosedSession \in Sessions
    BY <1>1 DEF ClosedSession, Sessions, Rungs
  <1> QED BY <1>2, <1>3

\* What a handle refers to.
LEMMA HandleText ==
  ASSUME Typed, NEW h \in Handles
  PROVE  HandleFile(h).content \in Contents /\ HandleFile(h).size \in 0 .. MaxSize
  <1>1. far \in Fars BY DEF Typed
  <1> QED BY <1>1, FarFields DEF HandleFile, Handles

LEMMA SourceText ==
  ASSUME Typed, session # NoSession
  PROVE  ReadFile.content \in Contents /\ ReadFile.size \in 0 .. MaxSize
<1>1. far \in Fars /\ session \in Sessions BY DEF Typed
<1>2. 1 \in Contents /\ 0 \in 0 .. MaxSize BY Sizes DEF Contents
<1>3. Transport = "exec" => ReadFile.content \in Contents /\ ReadFile.size \in 0 .. MaxSize
  BY <1>1, <1>2, FarFields DEF ReadFile
<1>4. Transport # "exec" => ReadFile.content \in Contents /\ ReadFile.size \in 0 .. MaxSize
  BY <1>1, <1>2, SessionFields, HandleText DEF ReadFile
<1> QED BY <1>3, <1>4

LEMMA DetachedSession ==
  ASSUME Typed
  PROVE  /\ session = NoSession => Detached = NoSession
         /\ session # NoSession => Detached \in Sessions
<1>1. CASE session = NoSession \/ session.handle = NoFile BY <1>1 DEF Detached, Typed
<1>2. CASE session # NoSession /\ session.handle # NoFile
  <2> DEFINE h == [session.handle EXCEPT !.content = HandleFile(session.handle).content,
                                         !.size = HandleFile(session.handle).size]
  <2>1. session \in Sessions /\ session.handle \in Handles
    BY <1>2, SessionFields DEF Typed
  <2>2. h \in Handles
    <3>1. HandleFile(session.handle).content \in Contents
          /\ HandleFile(session.handle).size \in 0 .. MaxSize
      BY <2>1, HandleText
    <3> QED BY <2>1, <3>1 DEF Handles
  <2>3. Detached = [session EXCEPT !.handle = h]
    BY <1>2, <2>1 DEF Detached, Sessions, Handles
  <2> QED BY <1>2, <2>1, <2>2, <2>3 DEF Sessions
<1> QED BY <1>1, <1>2

LEMMA OpenedOnes == ASSUME Typed, session # NoSession PROVE OpenedSessions \subseteq Sessions
<1>1. far \in Fars /\ session \in Sessions /\ ClosedSession \in Sessions
  BY Looks DEF Typed
<1>2. \A r \in FitRungs : [ClosedSession EXCEPT !.rung = r, !.tracks = FALSE] \in Sessions
  BY <1>1, SshAssumption DEF Sessions, FitRungs, Rungs
<1>3. [inode |-> far.inode, content |-> far.content, size |-> far.size] \in Handles
  BY <1>1, FarFields DEF Handles
<1>4. ASSUME NEW t \in BOOLEAN, NEW h \in Handles
      PROVE  [ClosedSession EXCEPT !.tracks = t, !.handle = h] \in Sessions
  BY <1>1 DEF Sessions
<1> QED BY <1>2, <1>3, <1>4, SshAssumption DEF OpenedSessions

\* A stretch of a text, as the bytes of it.
LEMMA Stretch ==
  ASSUME NEW c \in Contents, NEW a \in 0 .. MaxSize, NEW b \in a .. MaxSize
  PROVE  /\ Text(c, a, b) \in Seq(Bytes) /\ Len(Text(c, a, b)) = b - a
         /\ \A i \in 1 .. b - a : Text(c, a, b)[i] = <<c, a + i - 1>>
<1>1. Most(0, b - a) = b - a /\ b - a \in Nat BY Sizes DEF Most
<1>2. Text(c, a, b) = [i \in 1 .. b - a |-> <<c, a + i - 1>>] BY <1>1 DEF Text
<1> DEFINE n == b - a
           t == [i \in 1 .. n |-> <<c, a + i - 1>>]
<1>3. \A i \in 1 .. n : <<c, a + i - 1>> \in Bytes BY Sizes DEF Bytes
<1>4. n \in Nat BY <1>1
<1> HIDE DEF n
<1>5. t \in Seq(Bytes) /\ Len(t) = n /\ \A i \in 1 .. n : t[i] = <<c, a + i - 1>>
  <2>1. t \in [1 .. n -> Bytes] BY <1>3
  <2>2. DOMAIN t = 1 .. n OBVIOUS
  <2> QED BY <1>4, <2>1, <2>2
<1> QED BY <1>2, <1>5 DEF n

LEMMA Joining ==
  ASSUME NEW S, NEW s \in Seq(S), NEW t \in Seq(S)
  PROVE  /\ s \o t \in Seq(S) /\ Len(s \o t) = Len(s) + Len(t)
         /\ \A i \in 1 .. Len(s) : (s \o t)[i] = s[i]
         /\ \A i \in 1 .. Len(t) : (s \o t)[Len(s) + i] = t[i]
  OBVIOUS

\* What a refused write may leave behind, and what that adds up to.
LEMMA Spilling ==
  ASSUME NEW f \in 0 .. MaxFaults
  PROVE  /\ MaxSize * f \in Nat /\ MaxSize * (f + 1) = MaxSize * f + MaxSize
         /\ MaxSize * f + MaxSize <= MaxSize * (MaxFaults + 1)
         /\ MaxSize * (MaxFaults + 1) \in Nat
<1>1. f \in Nat /\ MaxSize \in Nat /\ MaxFaults \in Nat /\ f <= MaxFaults BY Sizes
<1>2. PICK k \in Nat : MaxFaults = f + k
  <2>1. MaxFaults - f \in Nat /\ MaxFaults = f + (MaxFaults - f) BY <1>1
  <2> QED BY <2>1
<1>3. MaxSize * (f + 1) = MaxSize * f + MaxSize BY <1>1
<1>4. MaxSize * f \in Nat /\ MaxSize * k \in Nat BY <1>1
<1>5. MaxSize * (MaxFaults + 1) = MaxSize * f + MaxSize + MaxSize * k BY <1>1, <1>2
<1> QED BY <1>1, <1>3, <1>4, <1>5

LEMMA InitInv == Init => IInv
<1> SUFFICES ASSUME Init PROVE IInv OBVIOUS
<1>1. file = [g \in Generations |-> <<>>] /\ 0 \in Generations
  BY Sizes DEF Init, Generations
<1>2. Typed
  <2>1. file \in [Generations -> Seq(Bytes)] BY <1>1
  <2>2. far \in Fars
    <3>1. 1 \in Contents BY Sizes DEF Contents
    <3>2. PICK p \in Presences, n \in 0 .. MaxSize :
            far = [presence |-> p, inode |-> 1, content |-> 1,
                   size |-> IF p = "absent" THEN 0 ELSE n, mtime |-> 0]
      BY DEF Init
    <3>3. p \in {"present", "absent", "unreadable", "folder"} BY SshAssumption
    <3>4. (IF p = "absent" THEN 0 ELSE n) \in 0 .. MaxSize /\ 0 \in 0 .. MaxChanges + 1
      BY Sizes
    <3> QED BY <3>1, <3>2, <3>3, <3>4 DEF Fars
  <2>3. seen \in Seens BY Sizes DEF Init, Seens, Unknown
  <2>4. /\ state \in Contract!States /\ generation \in Generations /\ committed \in 0 .. MaxSize
        /\ base \in 0 .. MaxSize /\ offset \in 0 .. MaxSize /\ fetchTo \in 0 .. MaxSize
        /\ held \in 0 .. MaxSize /\ lastSize \in 0 .. MaxSize /\ lastMtime \in Int
        /\ addr \in 0 .. MaxMoves + 1 /\ changes \in Nat /\ faults \in 0 .. MaxFaults
        /\ pc \in PCs /\ auth \in {"ok", "person", "refused"} /\ failure \in Failures
    BY Sizes, SshAssumption DEF Init, Generations, Unknown, Contract!States, PCs, Failures
  <2> QED BY <2>1, <2>2, <2>3, <2>4, <1>1 DEF Typed, Init
<1>3. Placed BY DEF Init, Placed, Alone, Joined, Fetching, Following
<1>4. Counted
  <2>1. Landed = 0 BY <1>1 DEF Landed, Init
  <2> QED BY <2>1, Sizes DEF Counted, Init, Fetching, Following
<1> QED BY <1>2, <1>3, <1>4 DEF IInv

\* A step that is the application's or the far end's: what it leaves the worker.
Outside == Start \/ PokeNow \/ RequestStop \/ FarEnd

LEMMA OutsideTyped == ASSUME IInv, Outside PROVE Typed'
<1> USE Sizes DEF IInv, Typed, status, flags, fetch, stats, attempt, marks, world
<1>1. CASE Start BY <1>1 DEF Start, Contract!States, PCs
<1>2. CASE PokeNow
  <2>1. poked' = TRUE /\ refused' = FALSE /\ wantsPrompter' = TRUE
        /\ UNCHANGED <<state, generation, committed, base, retryAt, stopping, file, pc, task,
                       offset, fetchTo, held, seen, lastSize, lastMtime, mayPrompt, failure,
                       grace, sawRefused, cut, overlooked, session, far, link, auth, addr,
                       changes, faults>>
    BY <1>2 DEF PokeNow
  <2>2. poked' \in BOOLEAN /\ refused' \in BOOLEAN /\ wantsPrompter' \in BOOLEAN BY <2>1
  <2> QED BY <2>1, <2>2
<1>3. CASE RequestStop BY <1>3 DEF RequestStop, Contract!States
<1>4. CASE FarEnd
  <2>0. far \in Fars OBVIOUS
  <2>1. /\ UNCHANGED <<state, generation, committed, base, retryAt, stopping, poked, refused,
                       wantsPrompter, file, pc, task, offset, fetchTo, held, seen, lastSize,
                       lastMtime, mayPrompt, failure, grace, sawRefused, cut, overlooked,
                       faults>>
    BY <1>4 DEF FarEnd, FarGrow, FarReplace, FarRewrite, FarChmod, LinkDrop, LinkBack, AuthChange,
       DeviceMove, FarUnchanged
  <2>2. session' \in Sessions \cup {NoSession}
    <3>1. \/ session' \in {session, Detached}
          \/ session # NoSession /\ session' = [session EXCEPT !.alive = FALSE]
      <4> USE DEF FarGrow, FarReplace, FarRewrite, FarChmod, LinkDrop, LinkBack, AuthChange,
            DeviceMove, FarUnchanged
      <4>1. CASE LinkDrop BY <4>1
      <4>2. CASE ~LinkDrop BY <1>4, <4>2 DEF FarEnd
      <4> QED BY <4>1, <4>2
    <3>2. session # NoSession => [session EXCEPT !.alive = FALSE] \in Sessions
      BY DEF Sessions
    <3> QED BY <3>1, <3>2, DetachedSession
  <2>3. far' \in Fars /\ changes' \in Nat
    <3>1. ASSUME NEW n \in 1 .. MaxSize, FarGrow(n) PROVE far' \in Fars /\ changes' \in Nat
      <4>1. PICK t \in {far.mtime, changes + 1} :
              far' = [far EXCEPT !.size = far.size + n, !.mtime = t]
        BY <3>1 DEF FarGrow
      <4>2. far.size + n \in 0 .. MaxSize /\ t \in 0 .. MaxChanges + 1 /\ changes' \in Nat
        <5>1. changes < MaxChanges /\ changes \in Nat /\ far.size + n <= MaxSize
              /\ changes' = changes + 1
          BY <3>1 DEF FarGrow
        <5>2. far.size \in 0 .. MaxSize /\ far.mtime \in 0 .. MaxChanges + 1
          BY <2>0, FarFields
        <5> QED BY <5>1, <5>2
      <4>3. far' = [presence |-> far.presence, inode |-> far.inode, content |-> far.content,
                    size |-> far.size + n, mtime |-> t]
        BY <2>0, <4>1 DEF Fars
      <4> QED BY <2>0, <4>2, <4>3, FarFields DEF Fars
    <3>2. ASSUME NEW p \in Presences, NEW n \in 0 .. MaxSize, FarReplace(p, n)
          PROVE  far' \in Fars /\ changes' \in Nat
      <4>1. changes + 2 \in Contents /\ changes + 1 \in 0 .. MaxChanges + 1
        BY <3>2 DEF FarReplace, Contents
      <4> QED BY <3>2, <4>1, SshAssumption DEF FarReplace, Fars
    <3>3. ASSUME NEW n \in 0 .. MaxSize, FarRewrite(n) PROVE far' \in Fars /\ changes' \in Nat
      <4>1. changes + 2 \in Contents /\ changes + 1 \in 0 .. MaxChanges + 1
        <5>1. changes < MaxChanges /\ changes \in Nat BY <3>3 DEF FarRewrite
        <5> QED BY <5>1 DEF Contents
      <4>2. far' = [presence |-> far.presence, inode |-> far.inode, content |-> changes + 2,
                    size |-> n, mtime |-> changes + 1]
        BY <2>0, <3>3 DEF FarRewrite, Fars
      <4> QED BY <2>0, <3>3, <4>1, <4>2, FarFields DEF FarRewrite, Fars
    <3>4. ASSUME NEW p \in Presences, FarChmod(p) PROVE far' \in Fars /\ changes' \in Nat
      <4>1. far' = [far EXCEPT !.presence = p] /\ p \in {"present", "absent", "unreadable",
                                                         "folder"}
        BY <3>4, SshAssumption DEF FarChmod
      <4> QED
        <5>1. changes' = changes + 1 /\ changes \in Nat BY <3>4 DEF FarChmod
        <5>2. [far EXCEPT !.presence = p] \in Fars BY <2>0, <4>1 DEF Fars
        <5> QED BY <4>1, <5>1, <5>2
    <3>5. ASSUME ~\E n \in 1 .. MaxSize : FarGrow(n),
                 ~\E p \in Presences, n \in 0 .. MaxSize : FarReplace(p, n),
                 ~\E n \in 0 .. MaxSize : FarRewrite(n), ~\E p \in Presences : FarChmod(p)
          PROVE  far' \in Fars /\ changes' \in Nat
      BY <1>4, <3>5 DEF FarEnd, LinkDrop, LinkBack, AuthChange, DeviceMove
    <3> QED BY <3>1, <3>2, <3>3, <3>4, <3>5
  <2>4. /\ link' \in {"up", "down"} /\ auth' \in {"ok", "person", "refused"}
        /\ addr' \in 0 .. MaxMoves + 1
    BY <1>4, SshAssumption DEF FarEnd, FarGrow, FarReplace, FarRewrite, FarChmod, LinkDrop,
       LinkBack, AuthChange, DeviceMove, FarUnchanged
  <2> QED BY <2>1, <2>2, <2>3, <2>4
<1> QED BY <1>1, <1>2, <1>3, <1>4 DEF Outside

\* The worker's steps that neither read the log nor touch the spool.
LEMMA TalkTyped ==
  ASSUME IInv, \/ Top \/ Consume \/ Connect \/ Dial \/ SignIn \/ Settle \/ OpenFile \/ Fetch
               \/ Broken \/ Live \/ Retry \/ GiveUp \/ Latch \/ Reopen \/ Sleep \/ Wake \/ Priming
  PROVE  Typed'
<1> USE Sizes DEF IInv, Typed, status, flags, fetch, stats, attempt, marks, world, Goto, Say, Quiet
<1>1. UNCHANGED <<generation, committed, base, file, offset, fetchTo, held, seen, lastSize,
                  lastMtime, far, link, auth, addr, changes, faults, stopping>>
  BY DEF Top, Consume, Connect, Dial, SignIn, Settle, OpenFile, Fetch, Broken, Live, Retry,
       GiveUp, Latch,
     Reopen, Sleep, Wake, Priming
<1>2. state' \in Contract!States
  BY DEF Top, Consume, Connect, Dial, SignIn, Settle, OpenFile, Fetch, Broken, Live, Retry,
       GiveUp, Latch,
     Reopen, Sleep, Wake, Priming, Contract!States
<1>3. pc' \in PCs
  BY DEF Top, Consume, Connect, Dial, SignIn, Settle, OpenFile, Fetch, Broken, Live, Retry,
       GiveUp, Latch,
     Reopen, Sleep, Wake, Priming, PCs
<1>4. session' \in Sessions \cup {NoSession}
  <2>1. CASE Dial
    <3>1. Most(addr, 1) \in 0 .. MaxMoves + 1 BY DEF Most
    <3>2. \/ session' = NoSession
          \/ session' = [alive |-> TRUE, handle |-> NoFile, rung |-> "none",
                         tracks |-> FALSE, addr |-> Most(addr, 1)]
      BY <2>1 DEF Dial, Placed, Alone
    <3>3. ASSUME NEW h \in Handles \cup {NoFile}, NEW a \in 0 .. MaxMoves + 1
          PROVE  [alive |-> TRUE, handle |-> h, rung |-> "none", tracks |-> FALSE,
                  addr |-> a] \in Sessions
      BY DEF Sessions, Rungs
    <3>4. NoFile \in Handles \cup {NoFile} OBVIOUS
    <3> HIDE DEF IInv, Typed
    <3> QED BY <3>1, <3>2, <3>3, <3>4
  <2>2. CASE OpenFile \/ Reopen
    <3>1. session # NoSession BY <2>2 DEF Placed, Joined, OpenFile, Reopen
    <3> QED BY <2>2, <3>1, OpenedOnes, Looks DEF OpenFile, Reopen
  <2>3. CASE ~(Dial \/ OpenFile \/ Reopen)
    BY <2>3 DEF Top, Consume, Connect, SignIn, Settle, Fetch, Broken, Live, Retry, GiveUp,
         Latch, Sleep, Wake,
       Priming
  <2> QED BY <2>1, <2>2, <2>3
<1>5. /\ poked' \in BOOLEAN /\ refused' \in BOOLEAN /\ wantsPrompter' \in BOOLEAN
      /\ mayPrompt' \in BOOLEAN /\ sawRefused' \in BOOLEAN
      /\ task' \in {"prime", "rotate", "append"} /\ grace' \in {"never", "fresh", "running"}
  <2>1. poked' \in {poked, FALSE} /\ refused' \in {refused, TRUE}
        /\ wantsPrompter' \in {wantsPrompter, FALSE}
    BY DEF Top, Consume, Connect, Dial, SignIn, Settle, OpenFile, Fetch, Broken, Live, Retry,
       GiveUp, Latch, Reopen, Sleep, Wake, Priming
  <2>2. mayPrompt' \in {mayPrompt, wantsPrompter} /\ sawRefused' \in {sawRefused, refused}
    BY DEF Top, Consume, Connect, Dial, SignIn, Settle, OpenFile, Fetch, Broken, Live, Retry,
       GiveUp, Latch, Reopen, Sleep, Wake, Priming
  <2>3. task' \in {task, "append"} /\ grace' \in {grace, "fresh", "running"}
    BY DEF Top, Consume, Connect, Dial, SignIn, Settle, OpenFile, Fetch, Broken, Live, Retry,
       GiveUp, Latch, Reopen, Sleep, Wake, Priming
  <2> QED BY <2>1, <2>2, <2>3
<1>8. cut' \in BOOLEAN /\ overlooked' \in BOOLEAN
  <2>1. NetUp \in BOOLEAN BY DEF NetUp
  <2>2. overlooked' = overlooked /\ cut' \in {cut, FALSE, ~NetUp}
    BY DEF Top, Consume, Connect, Dial, SignIn, Settle, OpenFile, Fetch, Broken, Live, Retry,
         GiveUp, Latch,
       Reopen, Sleep, Wake, Priming
  <2> QED BY <2>1, <2>2
<1>6. failure' \in Failures
  <2> USE DEF Failures
  <2>1. OpenFailures \subseteq Failures BY DEF OpenFailures, DeadLinkFailures
  <2>2. SignInAnswers \subseteq Failures /\ SettleAnswers \subseteq Failures
    BY DEF SignInAnswers, SettleAnswers
  <2> QED
    BY <2>1, <2>2 DEF Top, Consume, Connect, Dial, SignIn, Settle, OpenFile, Fetch, Broken,
         Live, Retry, GiveUp,
       Latch, Reopen, Sleep, Wake, Priming
<1>7. retryAt' \in BOOLEAN
  <2>1. Deadline \in BOOLEAN BY DEF Deadline
  <2> QED
    BY <2>1 DEF Top, Consume, Connect, Dial, SignIn, Settle, OpenFile, Fetch, Broken, Live,
         Retry, GiveUp, Latch,
       Reopen, Sleep, Wake, Priming
<1> QED BY <1>1, <1>2, <1>3, <1>4, <1>5, <1>6, <1>7, <1>8

LEMMA BaseBelow == ASSUME NEW n \in 0 .. MaxSize
                   PROVE  BaseOf(n) \in 0 .. MaxSize /\ BaseOf(n) <= n
  BY Sizes DEF BaseOf

LEMMA LookTyped ==
  ASSUME IInv, EstablishStat \/ Poll \/ Fresh \/ \E due \in BOOLEAN : Judge(due)
  PROVE  Typed'
<1> USE Sizes, Looks DEF IInv, Typed, status, flags, fetch, stats, attempt, marks, world, Goto,
     Say, Quiet
<1>1. UNCHANGED <<generation, committed, base, file, held, far, link, auth, addr, changes, faults,
                  stopping, refused, wantsPrompter, mayPrompt, grace, sawRefused, cut>>
  BY DEF EstablishStat, Poll, Judge, Fresh
<1>2. /\ StatResult \in Seens /\ StatResult.size \in 0 .. MaxSize /\ StatResult.mtime \in Int
      /\ seen.size \in 0 .. MaxSize /\ seen.mtime \in Int
  BY DEF Seens
<1>3. state' \in Contract!States /\ pc' \in PCs
  BY DEF EstablishStat, Poll, Judge, Fresh, Contract!States, PCs
<1>4. Consumed \in 0 .. MaxSize BY DEF Consumed, Counted
<1>5. /\ task' \in {"prime", "rotate", "append"} /\ offset' \in 0 .. MaxSize
      /\ fetchTo' \in 0 .. MaxSize
  <2>1. CASE EstablishStat BY <2>1, <1>2 DEF EstablishStat
  <2>2. CASE Poll BY <2>2 DEF Poll
  <2>3. CASE \E due \in BOOLEAN : Judge(due)
    <3>1. /\ task' \in {task, "append"} /\ offset' \in {offset, Consumed}
          /\ fetchTo' \in {fetchTo, seen.size}
      BY <2>3 DEF Judge
    <3> QED BY <3>1, <1>2, <1>4
  <2>4. CASE Fresh
    <3>1. task' = "rotate" /\ offset' = offset /\ fetchTo' \in {StatResult.size, 0}
      BY <2>4 DEF Fresh
    <3> QED BY <3>1, <1>2
  <2> QED BY <2>1, <2>2, <2>3, <2>4
<1>6. lastSize' \in 0 .. MaxSize /\ lastMtime' \in Int /\ seen' \in Seens
  BY <1>2 DEF EstablishStat, Poll, Judge, Fresh
<1>7. session' \in Sessions \cup {NoSession} BY DEF EstablishStat, Poll, Judge, Fresh
<1>8. /\ poked' \in BOOLEAN /\ retryAt' \in BOOLEAN /\ failure' \in Failures
      /\ overlooked' \in BOOLEAN
  BY DEF EstablishStat, Poll, Judge, Fresh, Failures
<1> QED BY <1>1, <1>3, <1>5, <1>6, <1>7, <1>8

\* What a read adds to the spool file: a stretch of the text it reads from.
LEMMA ReadLands ==
  ASSUME IInv, Read
  PROVE  \/ UNCHANGED <<file, offset, faults>> /\ pc' \in {"broken", "fetched"}
         \/ /\ pc' = "commit" /\ faults' = faults /\ offset < ReadFile.size
            /\ \E to \in 0 .. MaxSize :
                 /\ offset < to /\ offset' = to
                 /\ Text(ReadFile.content, offset, to) \in Seq(Bytes)
                 /\ Len(Text(ReadFile.content, offset, to)) = to - offset
                 /\ file' = [file EXCEPT ![generation]
                               = file[generation] \o Text(ReadFile.content, offset, to)]
         \/ /\ pc' = "broken" /\ offset' = offset /\ offset < ReadFile.size
            /\ "write" \in DiskFaults /\ faults < MaxFaults /\ faults' = faults + 1
            /\ \E to \in 0 .. MaxSize :
                 /\ offset <= to
                 /\ Text(ReadFile.content, offset, to) \in Seq(Bytes)
                 /\ Len(Text(ReadFile.content, offset, to)) = to - offset
                 /\ file' = [file EXCEPT ![generation]
                               = file[generation] \o Text(ReadFile.content, offset, to)]
<1> USE Sizes DEF IInv, Typed
<1> DEFINE avail == Least(ReadFile.size, fetchTo)
<1>1. session # NoSession BY DEF Read, Placed, Joined
<1>2. /\ ReadFile.content \in Contents /\ ReadFile.size \in 0 .. MaxSize
      /\ avail \in 0 .. MaxSize /\ avail <= ReadFile.size
  BY <1>1, SourceText DEF Least
<1>3. CASE pc' \in {"broken", "fetched"} /\ UNCHANGED <<file, offset, faults>> BY <1>3
<1>4. CASE pc' = "commit"
  <2>1. PICK to \in offset + 1 .. avail :
          /\ file' = [file EXCEPT ![generation] = @ \o Text(ReadFile.content, offset, to)]
          /\ offset' = to
    BY <1>4 DEF Read, Goto
  <2>2. to \in 0 .. MaxSize /\ offset < to /\ offset < ReadFile.size /\ to \in offset .. MaxSize
    BY <1>2, <2>1
  <2>3. faults' = faults BY <1>4 DEF Read, Goto
  <2>4. /\ Text(ReadFile.content, offset, to) \in Seq(Bytes)
        /\ Len(Text(ReadFile.content, offset, to)) = to - offset
    BY <1>2, <2>2, Stretch
  <2> QED BY <1>4, <2>1, <2>2, <2>3, <2>4
<1>5. CASE pc' # "commit" /\ ~UNCHANGED <<file, offset, faults>>
  <2>1. /\ "write" \in DiskFaults /\ faults < MaxFaults /\ faults' = faults + 1
        /\ pc' = "broken" /\ offset' = offset
        /\ \E to \in offset .. avail - 1 :
             file' = [file EXCEPT ![generation] = @ \o Text(ReadFile.content, offset, to)]
    BY <1>5 DEF Read, Goto
  <2>2. PICK to \in offset .. avail - 1 :
             file' = [file EXCEPT ![generation] = @ \o Text(ReadFile.content, offset, to)]
    BY <2>1
  <2>3. to \in 0 .. MaxSize /\ offset <= to /\ offset < ReadFile.size /\ to \in offset .. MaxSize
    BY <1>2, <2>2
  <2>4. /\ Text(ReadFile.content, offset, to) \in Seq(Bytes)
        /\ Len(Text(ReadFile.content, offset, to)) = to - offset
    BY <1>2, <2>3, Stretch
  <2> QED BY <2>1, <2>2, <2>3, <2>4
<1> QED BY <1>3, <1>4, <1>5 DEF Read, Goto

LEMMA SpoolTyped ==
  ASSUME IInv, Begin \/ Announce \/ Read \/ Commit \/ Fetched
  PROVE  Typed'
<1> USE Sizes DEF IInv, Typed, status, flags, fetch, stats, attempt, marks, world, Goto, Say, Quiet
<1>1. UNCHANGED <<state, retryAt, stopping, poked, refused, wantsPrompter, task, seen, lastSize,
                  lastMtime, mayPrompt, failure, grace, sawRefused, cut, session, far, link,
                  auth, addr, changes>> /\ overlooked' \in BOOLEAN
  BY DEF Begin, Announce, Read, Commit, Fetched
<1>2. pc' \in PCs BY DEF Begin, Announce, Read, Commit, Fetched, PCs
<1>3. CASE Begin
  <2>1. file' \in [Generations -> Seq(Bytes)]
    <3>1. <<>> \in Seq(Bytes) OBVIOUS
    <3>2. file' = file \/ file' = [file EXCEPT ![generation + 1] = <<>>]
      BY <1>3 DEF Begin, NextFile
    <3> QED BY <3>1, <3>2
  <2>2. faults' \in 0 .. MaxFaults BY <1>3 DEF Begin
  <2> QED BY <1>1, <1>2, <1>3, <2>1, <2>2 DEF Begin
<1>4. CASE Announce
  <2>1. BaseOf(fetchTo) \in 0 .. MaxSize /\ BaseOf(fetchTo) <= fetchTo BY BaseBelow
  <2>2. /\ base' = BaseOf(fetchTo) /\ committed' = 0 /\ generation' = generation + 1
        /\ held' = 0 /\ offset' = BaseOf(fetchTo) /\ file' = file /\ faults' = faults
        /\ fetchTo' \in {fetchTo, Least(fetchTo, BaseOf(fetchTo) + PrimeBytes)}
    BY <1>4 DEF Announce
  <2>3. generation' \in Generations /\ fetchTo' \in 0 .. MaxSize
    BY <1>4, <2>1, <2>2 DEF Announce, Placed, Generations, Least
  <2> QED BY <1>1, <1>2, <2>1, <2>2, <2>3
<1>5. CASE Read
  <2>1. UNCHANGED <<generation, committed, base, fetchTo, held>> BY <1>5 DEF Read
  <2>2. file[generation] \in Seq(Bytes) OBVIOUS
  <2>3. file' \in [Generations -> Seq(Bytes)]
    <3>1. ASSUME NEW t \in Seq(Bytes),
                 file' = [file EXCEPT ![generation] = file[generation] \o t]
          PROVE  file' \in [Generations -> Seq(Bytes)]
      <4>1. file[generation] \o t \in Seq(Bytes) BY <2>2, Joining
      <4> QED BY <3>1, <4>1
    <3>2. \/ file' = file
          \/ \E to \in 0 .. MaxSize :
               /\ Text(ReadFile.content, offset, to) \in Seq(Bytes)
               /\ file' = [file EXCEPT ![generation]
                             = file[generation] \o Text(ReadFile.content, offset, to)]
      BY <1>5, ReadLands
    <3> QED BY <3>1, <3>2
  <2>4. offset' \in 0 .. MaxSize /\ faults' \in 0 .. MaxFaults BY <1>5, ReadLands
  <2> QED BY <1>1, <1>2, <2>1, <2>3, <2>4
<1>6. CASE Commit
  <2>1. offset - base \in 0 .. MaxSize BY <1>6 DEF Commit, Counted, Fetching
  <2>2. held' \in 0 .. MaxSize /\ committed' \in 0 .. MaxSize
    BY <1>6, <2>1 DEF Commit, CommittedAfter
  <2> QED BY <1>1, <1>2, <1>6, <2>2 DEF Commit
<1>7. CASE Fetched
  <2>1. committed' \in 0 .. MaxSize BY <1>7 DEF Fetched, Most
  <2> QED BY <1>1, <1>2, <1>7, <2>1 DEF Fetched
<1> QED BY <1>3, <1>4, <1>5, <1>6, <1>7

LEMMA NextTyped == ASSUME IInv, [Next]_vars PROVE Typed'
<1>1. CASE UNCHANGED vars
  BY <1>1 DEF IInv, Typed, vars, status, flags, fetch, stats, attempt, marks, world
<1>2. CASE Worker BY <1>2, TalkTyped, LookTyped, SpoolTyped DEF Worker
<1> QED BY <1>1, <1>2, OutsideTyped DEF Next, Outside

-----------------------------------------------------------------------------
(* Where the worker is, and what it says there                             *)

LEMMA OutsideKeeps ==
  ASSUME IInv, PokeNow \/ FarEnd
  PROVE  /\ UNCHANGED <<state, generation, committed, base, file, pc, task, offset, held, faults>>
         /\ session' = NoSession <=> session = NoSession
         /\ refused' => refused
<1> USE DEF IInv, Typed, status, flags, fetch, stats, attempt, marks, world
<1>1. CASE PokeNow BY <1>1 DEF PokeNow
<1>2. CASE FarEnd
  <2> USE DEF FarGrow, FarReplace, FarRewrite, FarChmod, LinkDrop, LinkBack, AuthChange,
        DeviceMove, FarUnchanged
  <2>1. UNCHANGED <<state, generation, committed, base, file, pc, task, offset, held, faults,
                    refused>>
    BY <1>2 DEF FarEnd
  <2>2. \/ session' = session
        \/ session' = Detached
        \/ session # NoSession /\ session' = [session EXCEPT !.alive = FALSE]
    <3>1. CASE LinkDrop BY <3>1
    <3>2. CASE ~LinkDrop BY <1>2, <3>2 DEF FarEnd
    <3> QED BY <3>1, <3>2
  <2>3. session # NoSession => [session EXCEPT !.alive = FALSE] \in Sessions
    BY DEF Sessions
  <2> QED BY <2>1, <2>2, <2>3, DetachedSession, AbsenceAssumption
<1> QED BY <1>1, <1>2

LEMMA NextPlaced == ASSUME IInv, [Next]_vars PROVE Placed'
<1> USE DEF IInv, Placed, Alone, Joined, Fetching, Following, status, flags, fetch, stats,
      attempt, marks, world, Goto, Say, Quiet
<1>0. /\ generation \in Nat /\ file \in [Generations -> Seq(Bytes)]
      /\ task \in {"prime", "rotate", "append"} /\ pc \in PCs
  BY Sizes DEF Typed, Generations
<1>1. CASE UNCHANGED vars BY <1>1 DEF vars
<1>2. CASE Start BY <1>2 DEF Start
<1>3. CASE PokeNow \/ FarEnd BY <1>3, OutsideKeeps
<1>4. CASE RequestStop BY <1>4 DEF RequestStop
<1>5. CASE Top BY <1>5 DEF Top, MayTry
<1>6. CASE Consume BY <1>6 DEF Consume
<1>7. CASE Connect BY <1>7 DEF Connect
<1>8. CASE Dial
  <2>1. [alive |-> TRUE, handle |-> NoFile, rung |-> "none", tracks |-> FALSE,
         addr |-> Most(addr, 1)] # NoSession
    <3>1. Most(addr, 1) \in 0 .. MaxMoves + 1 BY Sizes DEF Most, Typed
    <3>2. ASSUME NEW h \in Handles \cup {NoFile}, NEW a \in 0 .. MaxMoves + 1
          PROVE  [alive |-> TRUE, handle |-> h, rung |-> "none", tracks |-> FALSE,
                  addr |-> a] \in Sessions
      BY DEF Sessions, Rungs
    <3>3. NoFile \in Handles \cup {NoFile} OBVIOUS
    <3> QED BY <3>1, <3>2, <3>3, AbsenceAssumption
  <2>2. /\ pc = "dial" /\ state' = state /\ UNCHANGED <<refused, generation, file, task>>
        /\ \/ pc' = "signin" /\ session' # NoSession
           \/ pc' = "failed" /\ session' = NoSession
    BY <1>8, <2>1 DEF Dial
  <2> QED BY <2>2
<1>24. CASE SignIn \/ Settle
  <2>1. /\ pc \in {"signin", "settle"} /\ state' = state
        /\ UNCHANGED <<refused, generation, file, task>>
        /\ \/ pc' \in {"settle", "open"} /\ session' = session
           \/ pc' = "failed" /\ session' = NoSession
    BY <1>24 DEF SignIn, Settle
  <2> QED BY <2>1
<1>9. CASE OpenFile
  <2>1. session # NoSession BY <1>9 DEF OpenFile
  <2>2. /\ pc = "open" /\ state' = state /\ UNCHANGED <<refused, generation, file, task>>
        /\ \/ pc' = "estat" /\ session' # NoSession
           \/ pc' = "failed" /\ session' = NoSession
    BY <1>9, <2>1, OpenedOnes, AbsenceAssumption DEF OpenFile
  <2> QED BY <2>2
<1>10. CASE EstablishStat BY <1>10 DEF EstablishStat
<1>11. CASE Begin
  <2>1. /\ pc = "begin" /\ generation < MaxGeneration
        /\ UNCHANGED <<state, refused, generation, task, session>>
        /\ \/ pc' = "announce" /\ file' = [file EXCEPT ![generation + 1] = <<>>]
           \/ pc' = "broken" /\ file' = file
    BY <1>11 DEF Begin, NextFile
  <2>2. generation + 1 \in Generations BY <1>0, <2>1, Sizes DEF Generations
  <2> QED BY <1>0, <2>1, <2>2
<1>12. CASE Announce
  <2>1. /\ pc = "announce" /\ pc' \in {"fetch", "priming"} /\ generation' = generation + 1
        /\ UNCHANGED <<state, refused, file, task, session>>
    BY <1>12 DEF Announce
  <2> QED BY <1>0, <2>1
<1>13. CASE Priming \/ Fetch \/ Commit \/ Fetched
  BY <1>13 DEF Priming, Fetch, Commit, Fetched
<1>14. CASE Read
  <2>1. /\ pc = "read" /\ pc' \in {"broken", "fetched", "commit"}
        /\ UNCHANGED <<state, refused, generation, task, session>>
    BY <1>14 DEF Read
  <2> QED BY <1>0, <2>1
<1>15. CASE Broken BY <1>0, <1>15 DEF Broken
<1>16. CASE Live BY <1>16 DEF Live
<1>17. CASE Retry \/ GiveUp BY <1>17 DEF Retry, GiveUp
<1>18. CASE Latch BY <1>18 DEF Latch
<1>19. CASE Poll
  <2>1. /\ pc = "poll" /\ UNCHANGED <<refused, generation, file, task>>
        /\ \/ /\ pc' = "sleep" /\ session' \in {session, NoSession}
              /\ state' \in {"Waiting", "Error"}
           \/ pc' = "judge" /\ session' = session /\ state' = state
    BY <1>19 DEF Poll
  <2> QED BY <2>1
<1>20. CASE \E due \in BOOLEAN : Judge(due) BY <1>20 DEF Judge
<1>21. CASE Reopen
  <2>1. session # NoSession /\ ClosedSession \in Sessions BY <1>21, Looks DEF Reopen
  <2>2. session' # NoSession BY <1>21, <2>1, OpenedOnes, AbsenceAssumption DEF Reopen
  <2> QED BY <1>21, <2>1, <2>2 DEF Reopen
<1>22. CASE Fresh BY <1>22 DEF Fresh
<1>23. CASE Sleep \/ Wake BY <1>23 DEF Sleep, Wake
<1> QED
  BY <1>1, <1>2, <1>3, <1>4, <1>5, <1>6, <1>7, <1>8, <1>9, <1>10, <1>11, <1>12, <1>13, <1>14,
     <1>15, <1>16, <1>17, <1>18, <1>19, <1>20, <1>21, <1>22, <1>23, <1>24 DEF Next, Worker

-----------------------------------------------------------------------------
(* What has been read, what has landed and what is published               *)

\* A step that leaves the spool and the numbers alone.
LEMMA SpoolQuiet ==
  ASSUME IInv, UNCHANGED <<generation, committed, base, file, offset, held, task, faults>>,
         (Following' => Following \/ (pc \in Fetching \ {"commit"} /\ task # "prime")),
         (pc' \in Fetching => pc \in Fetching \ {"commit"}), pc' # "commit"
  PROVE  Counted'
<1>1. UNCHANGED <<Landed, Spill>> BY DEF Landed, Spill
<1>2. Landed \in Nat /\ Spill \in Nat BY Sizes, Spilling DEF IInv, Typed, Landed, Spill
<1>3. base + committed <= MaxSize /\ committed <= Landed BY DEF IInv, Counted
<1>4. Following' => Landed <= committed + Spill BY <1>2, Sizes DEF IInv, Counted, Typed
<1>5. pc' \in Fetching => /\ base <= offset /\ offset - base <= Landed
                          /\ Landed <= offset - base + Spill
                          /\ IF task = "prime" THEN held = offset - base /\ committed = 0
                                               ELSE offset = base + committed
  BY DEF IInv, Counted
<1> QED BY <1>1, <1>3, <1>4, <1>5 DEF Counted, Fetching

LEMMA NextCounted == ASSUME IInv, [Next]_vars PROVE Counted'
<1> USE DEF status, flags, fetch, stats, attempt, marks, world, Goto, Say, Quiet
<1>0. /\ generation \in Generations /\ file \in [Generations -> Seq(Bytes)]
      /\ task \in {"prime", "rotate", "append"} /\ pc \in PCs /\ Placed /\ Counted /\ Typed
      /\ file[generation] \in Seq(Bytes) /\ Landed \in Nat
      /\ committed \in 0 .. MaxSize /\ base \in 0 .. MaxSize /\ offset \in 0 .. MaxSize
      /\ held \in 0 .. MaxSize /\ faults \in 0 .. MaxFaults /\ MaxSize \in Nat
      /\ generation \in Nat
  BY Sizes DEF IInv, Typed, Landed, Generations
<1>00. Spill \in Nat /\ MaxSize * (faults + 1) = Spill + MaxSize
  BY <1>0, Spilling DEF Spill
<1> DEFINE Still == UNCHANGED <<generation, committed, base, file, offset, held, task, faults>>
<1>1. CASE UNCHANGED vars
  BY <1>1, SpoolQuiet DEF vars, Following, Fetching, IInv, Counted, Landed, Spill
<1>2. CASE Start BY <1>2, <1>0, SpoolQuiet DEF Start, Following, Fetching, Placed, Alone
<1>3. CASE PokeNow \/ FarEnd
  <2>1. Still /\ pc' = pc /\ Following' = Following BY <1>3, OutsideKeeps DEF Following
  <2>2. UNCHANGED <<Landed, Spill>> BY <2>1 DEF Landed, Spill
  <2> QED BY <1>0, <2>1, <2>2 DEF Counted
<1>4. CASE RequestStop
  <2>1. Still /\ pc' = pc /\ Following' = Following BY <1>4 DEF RequestStop, Following
  <2>2. UNCHANGED <<Landed, Spill>> BY <2>1 DEF Landed, Spill
  <2> QED BY <1>0, <2>1, <2>2 DEF Counted
<1>5. CASE Top \/ Consume \/ Connect \/ Latch \/ Retry \/ GiveUp \/ Fresh \/ Sleep \/ Wake
  <2>1. CASE Fresh
    <3>1. /\ UNCHANGED <<generation, committed, base, file, offset, held, faults, session>>
          /\ pc = "fresh" /\ pc' = "begin"
      BY <2>1 DEF Fresh
    <3>2. UNCHANGED <<Landed, Spill>> BY <3>1 DEF Landed, Spill
    <3> QED BY <1>0, <3>1, <3>2 DEF Counted, Fetching, Following
  <2>2. CASE ~Fresh
    <3>1. /\ Still /\ session' \in {session, NoSession}
          /\ pc' \notin Fetching \cup {"begin", "broken", "live", "reopen", "fresh", "judge"}
          /\ pc \in {"top", "sleep", "asleep"} \cup Alone
      BY <1>5, <2>2 DEF Top, Consume, Connect, Latch, Retry, GiveUp, Sleep, Wake, Fetching, Alone
    <3>2. Following' => Following BY <1>0, <3>1 DEF Following, Placed
    <3>3. pc' \notin Fetching /\ pc' # "commit" BY <3>1 DEF Fetching
    <3>4. /\ UNCHANGED <<generation, committed, base, file, offset, held, task, faults>>
          /\ Following' => Following \/ (pc \in Fetching \ {"commit"} /\ task # "prime")
          /\ pc' \in Fetching => pc \in Fetching \ {"commit"}
      BY <3>1, <3>2, <3>3
    <3> HIDE DEF Still
    <3> QED BY <3>3, <3>4, SpoolQuiet
  <2> QED BY <2>1, <2>2
<1>6. CASE Dial \/ SignIn \/ Settle
  <2>1. /\ Still
        /\ pc' \in {"signin", "settle", "open", "failed"}
    BY <1>6 DEF Dial, SignIn, Settle
  <2> QED BY <2>1, SpoolQuiet DEF Fetching, Following
<1>7. CASE OpenFile BY <1>7, SpoolQuiet DEF OpenFile, Fetching, Following
<1>8. CASE EstablishStat
  <2>1. /\ UNCHANGED <<generation, committed, base, file, offset, held, faults>>
        /\ \/ pc' = "begin" /\ task' = "prime"
           \/ pc' = "failed"
    BY <1>8 DEF EstablishStat
  <2>2. UNCHANGED <<Landed, Spill>> BY <2>1 DEF Landed, Spill
  <2> QED BY <1>0, <2>1, <2>2 DEF Counted, Fetching, Following
<1>9. CASE Begin
  <2>1. /\ pc = "begin" /\ generation < MaxGeneration
        /\ UNCHANGED <<generation, committed, base, offset, held, task, session>>
        /\ \/ pc' = "announce" /\ file' = [file EXCEPT ![generation + 1] = <<>>] /\ faults' = faults
           \/ pc' = "broken" /\ file' = file /\ faults' = faults + 1
    BY <1>9 DEF Begin, NextFile
  <2>2. Landed' = Landed BY <1>0, <2>1 DEF Landed
  <2>3. Spill' = Spill \/ (Spill' = Spill + MaxSize /\ pc' = "broken")
    BY <1>00, <2>1 DEF Spill
  <2>4. Following' => Following BY <2>1 DEF Following
  <2>5. pc' \notin Fetching BY <2>1 DEF Fetching
  <2> QED BY <1>0, <1>00, <2>1, <2>2, <2>3, <2>4, <2>5 DEF Counted, Fetching
<1>10. CASE Announce
  <2>1. BaseOf(fetchTo) \in 0 .. MaxSize BY BaseBelow, <1>0 DEF Typed
  <2>2. /\ pc = "announce" /\ pc' \in {"fetch", "priming"}
        /\ base' = BaseOf(fetchTo) /\ committed' = 0 /\ generation' = generation + 1
        /\ held' = 0 /\ offset' = BaseOf(fetchTo) /\ UNCHANGED <<file, task, faults>>
    BY <1>10 DEF Announce
  <2>3. Landed' = 0 /\ Spill' \in Nat BY <1>0, <1>00, <2>2 DEF Landed, Placed, Spill
  <2>4. /\ base' + committed' <= MaxSize /\ committed' <= Landed'
        /\ base' <= offset' /\ offset' - base' <= Landed' /\ Landed' <= offset' - base' + Spill'
        /\ held' = offset' - base' /\ committed' = 0 /\ offset' = base' + committed'
    BY <1>0, <2>1, <2>2, <2>3
  <2>5. ~Following' /\ pc' # "commit" BY <2>2 DEF Following
  <2> QED BY <2>4, <2>5 DEF Counted
<1>11. CASE Priming \/ Fetch BY <1>11, SpoolQuiet DEF Priming, Fetch, Fetching, Following
<1>12. CASE Read
  <2>1. /\ pc = "read" /\ UNCHANGED <<generation, committed, base, held, task, session>>
    BY <1>12 DEF Read
  <2>2. /\ base <= offset /\ offset - base <= Landed /\ Landed <= offset - base + Spill
        /\ committed <= Landed /\ base + committed <= MaxSize
        /\ IF task = "prime" THEN held = offset - base /\ committed = 0
                             ELSE offset = base + committed
    BY <1>0, <2>1 DEF Counted, Fetching
  <2>3. \/ UNCHANGED <<Landed, offset, Spill>> /\ pc' \in {"broken", "fetched"}
        \/ /\ pc' = "commit" /\ Spill' = Spill /\ offset' \in Nat
           /\ offset < offset' /\ Landed' = Landed + (offset' - offset)
        \/ /\ pc' = "broken" /\ offset' = offset /\ Spill' = Spill + MaxSize
           /\ \E n \in 0 .. MaxSize : Landed' = Landed + n
    <3>1. ASSUME NEW t \in Seq(Bytes),
                 file' = [file EXCEPT ![generation] = file[generation] \o t]
          PROVE  Landed' = Landed + Len(t)
      <4>1. Len(file[generation] \o t) = Len(file[generation]) + Len(t) BY <1>0, Joining
      <4> QED BY <1>0, <2>1, <3>1, <4>1 DEF Landed
    <3>2. CASE UNCHANGED <<file, offset, faults>> /\ pc' \in {"broken", "fetched"}
      BY <2>1, <3>2 DEF Landed, Spill
    <3>3. CASE pc' = "commit"
      <4>1. PICK to \in 0 .. MaxSize :
                 /\ offset < to /\ offset' = to
                 /\ Text(ReadFile.content, offset, to) \in Seq(Bytes)
                 /\ Len(Text(ReadFile.content, offset, to)) = to - offset
                 /\ file' = [file EXCEPT ![generation]
                               = file[generation] \o Text(ReadFile.content, offset, to)]
        BY <1>12, <3>3, ReadLands
      <4>2. Landed' = Landed + (to - offset) BY <3>1, <4>1
      <4>3. faults' = faults BY <1>12, <3>3, ReadLands
      <4> QED BY <3>3, <4>1, <4>2, <4>3 DEF Spill
    <3>4. CASE faults' = faults + 1 /\ pc' = "broken"
      <4>1. PICK to \in 0 .. MaxSize :
                 /\ offset <= to /\ offset' = offset
                 /\ Text(ReadFile.content, offset, to) \in Seq(Bytes)
                 /\ Len(Text(ReadFile.content, offset, to)) = to - offset
                 /\ file' = [file EXCEPT ![generation]
                               = file[generation] \o Text(ReadFile.content, offset, to)]
        BY <1>0, <1>12, <3>4, ReadLands
      <4>2. Landed' = Landed + (to - offset) BY <3>1, <4>1
      <4>3. to - offset \in 0 .. MaxSize /\ Spill' = Spill + MaxSize
        BY <1>0, <1>00, <3>4, <4>1 DEF Spill
      <4> QED BY <3>4, <4>1, <4>2, <4>3
    <3> QED BY <1>12, <3>2, <3>3, <3>4, ReadLands
  <2>4. pc' \in {"broken", "fetched", "commit"} /\ (Following' => pc' = "broken" /\ task # "prime")
    BY <2>1, <2>3 DEF Following
  <2> HIDE DEF Still
  <2>5. offset' \in Nat BY <1>0, <2>3
  <2>6. /\ committed' <= Landed' /\ base' + committed' <= MaxSize
        /\ Following' => Landed' <= committed' + Spill'
    BY <1>0, <1>00, <2>1, <2>2, <2>3, <2>4
  <2>7. pc' \in {"fetched", "commit"} =>
          /\ base' <= offset' /\ offset' - base' <= Landed' /\ Landed' <= offset' - base' + Spill'
    BY <1>0, <1>00, <2>1, <2>2, <2>3, <2>4
  <2>8. pc' = "fetched" => IF task' = "prime" THEN held' = offset' - base' /\ committed' = 0
                                              ELSE offset' = base' + committed'
    BY <2>1, <2>2, <2>3
  <2>9. pc' = "commit" => /\ base' < offset' /\ committed' <= offset' - base'
                          /\ (task' = "prime" => committed' = 0)
    BY <1>0, <2>1, <2>2, <2>3
  <2> QED BY <2>4, <2>6, <2>7, <2>8, <2>9 DEF Counted, Fetching
<1>13. CASE Commit
  <2>1. /\ pc = "commit" /\ pc' = "fetch" /\ held' = offset - base
        /\ committed' = (IF task = "prime" THEN committed ELSE offset - base)
        /\ UNCHANGED <<generation, base, file, task, offset, faults>>
    BY <1>13 DEF Commit, CommittedAfter
  <2>2. UNCHANGED <<Landed, Spill>> BY <2>1 DEF Landed, Spill
  <2>3. /\ base < offset /\ committed <= offset - base /\ (task = "prime" => committed = 0)
        /\ offset - base <= Landed /\ Landed <= offset - base + Spill
    BY <1>0, <2>1 DEF Counted, Fetching
  <2> QED BY <1>0, <2>1, <2>2, <2>3 DEF Counted, Fetching, Following
<1>14. CASE Fetched
  <2>1. /\ pc = "fetched" /\ pc' = "live"
        /\ committed' = (IF task = "prime" THEN Most(held, committed) ELSE committed)
        /\ UNCHANGED <<generation, base, file, task, offset, faults>>
    BY <1>14 DEF Fetched
  <2>2. UNCHANGED <<Landed, Spill>> BY <2>1 DEF Landed, Spill
  <2>3. /\ base <= offset /\ offset - base <= Landed /\ Landed <= offset - base + Spill
        /\ IF task = "prime" THEN held = offset - base /\ committed = 0
                             ELSE offset = base + committed
    BY <1>0, <2>1 DEF Counted, Fetching
  <2>4. committed' = offset - base BY <1>0, <2>1, <2>3 DEF Most
  <2> QED BY <1>0, <2>1, <2>2, <2>3, <2>4 DEF Counted, Fetching
<1>15. CASE Broken
  <2>1. /\ pc = "broken" /\ Still /\ UNCHANGED <<Landed, Spill>>
        /\ \/ pc' = "failed"
           \/ pc' = "sleep" /\ task # "prime" /\ session' = session
    BY <1>15 DEF Broken, Landed, Spill
  <2>2. pc' = "sleep" => Following BY <1>0, <2>1 DEF Following, Placed, Joined
  <2> QED BY <1>0, <2>1, <2>2 DEF Counted, Fetching, Following
<1>16. CASE Live
  <2>1. /\ pc = "live" /\ pc' = "sleep" /\ UNCHANGED <<Landed, Spill>> /\ session' = session
        /\ UNCHANGED <<generation, committed, base, file, offset, held, faults>>
    BY <1>16 DEF Live, Landed, Spill
  <2> QED BY <1>0, <2>1 DEF Counted, Fetching, Following
<1>17. CASE Poll
  <2>1. /\ pc = "poll" /\ Still /\ UNCHANGED <<Landed, Spill>>
        /\ session' \in {session, NoSession} /\ pc' \in {"sleep", "judge"}
    BY <1>17 DEF Poll, Landed, Spill
  <2> QED BY <1>0, <2>1 DEF Counted, Fetching, Following
<1>18. CASE \E due \in BOOLEAN : Judge(due)
  <2>1. /\ pc = "judge" /\ UNCHANGED <<Landed, Spill>> /\ session' = session
        /\ UNCHANGED <<generation, committed, base, file, held, faults>>
        /\ \/ pc' \in {"reopen", "live", "sleep"}
           \/ pc' = "fetch" /\ task' = "append" /\ offset' = base + committed
    BY <1>18 DEF Judge, Landed, Spill, Consumed
  <2>2. Following BY <1>0, <2>1 DEF Following, Placed, Joined
  <2>3. Landed <= committed + Spill /\ committed <= Landed /\ base + committed <= MaxSize
    BY <1>0, <2>2 DEF Counted
  <2> HIDE DEF Still
  <2>4. CASE pc' = "fetch"
    BY <1>0, <1>00, <2>1, <2>3, <2>4 DEF Counted, Fetching, Following
  <2>5. CASE pc' # "fetch" BY <1>0, <2>1, <2>3, <2>5 DEF Counted, Fetching, Following
  <2> QED BY <2>4, <2>5
<1>19. CASE Reopen
  <2>1. /\ pc = "reopen" /\ Still /\ UNCHANGED <<Landed, Spill>> /\ pc' \in {"fresh", "sleep"}
    BY <1>19 DEF Reopen, Landed, Spill
  <2>2. Following BY <1>0, <2>1 DEF Following, Placed, Joined
  <2> QED BY <1>0, <2>1, <2>2 DEF Counted, Fetching, Following
<1> QED
  BY <1>1, <1>2, <1>3, <1>4, <1>5, <1>6, <1>7, <1>8, <1>9, <1>10, <1>11, <1>12, <1>13, <1>14,
     <1>15, <1>16, <1>17, <1>18, <1>19 DEF Next, Worker

LEMMA Invariance == Spec => []IInv
<1>1. IInv /\ [Next]_vars => IInv' BY NextTyped, NextPlaced, NextCounted DEF IInv
<1> QED BY <1>1, InitInv, PTL DEF Spec

-----------------------------------------------------------------------------
(* What the fetcher promises                                               *)

\* Every variable of the fetcher and of the session it drives keeps its type: no
\* offset, size or generation ever leaves its range (tailLoop(), pollOnce() and
\* fetchForward(), SshFetcher.cpp).
THEOREM TypeCorrect == Spec => []TypeOK
<1>1. IInv => TypeOK BY DEF IInv, Typed, TypeOK, Seens, Fars
<1> QED BY <1>1, Invariance, PTL

\* A fetcher that has given up, which only a press ends, holds no session and
\* never says that it is connecting or following (reconnect() and
\* m_reconnectRefused, SshFetcher.cpp).
THEOREM GaveUp == Spec => []GivenUpSaysSo
<1>1. IInv => GivenUpSaysSo BY DEF IInv, Placed, GivenUpSaysSo
<1> QED BY <1>1, Invariance, PTL

\* With a host that lets us in whenever it is there, and a log read through a
\* shell, what an attempt may fail with never latches: unless the link went while it
\* was signing in, or the fault is with what is at the path.
Welcome ==
  /\ auth = "ok"
  /\ \/ cut \/ failure = "Unfit"
     \/ failure \notin {"NeedsPerson", "Refused"} /\ pc # "latch" /\ ~refused

\* No outage of a host that lets us in latches a tab whose log is read through a
\* shell, whichever step of connecting, opening, polling or reading it meets, save
\* signing in: reconnect() only gives up on a refusal, and there a dead link is told
\* from one (openFile(), SshSession.cpp).  A link that dies inside authenticate(), or
\* before connectTo() has settled on the shell, is called a refusal (NoOutageRefuses),
\* and over SFTP so is one that dies inside openFile().
THEOREM ShellOutage ==
  ASSUME Transport = "exec"
  PROVE  Spec => []OutageNeverRefuses
<1>1. Init /\ AuthAnswers = {"ok"} => Welcome BY DEF Init, Welcome
<1>2. ASSUME AuthAnswers = {"ok"}, Welcome, IInv, [Next]_vars PROVE Welcome'
  <2> USE <1>2 DEF Welcome, IInv, Placed, status, flags, fetch, stats, attempt, marks, world,
        Goto, Say, Quiet
  <2>1. OpenFailures \subseteq {"NoSuchFile", "Unreachable", "Unfit"}
    BY DEF OpenFailures, DeadLinkFailures
  <2>2. CASE SignIn \/ Settle
    <3>1. ~refused /\ UNCHANGED <<auth, refused>> /\ pc' # "latch"
      BY <2>2 DEF SignIn, Settle
    <3>2. CASE NetUp BY <2>2, <3>1, <3>2 DEF SignIn, Settle, SignInAnswers, SettleAnswers
    <3>3. CASE ~NetUp BY <2>2, <3>1, <3>3 DEF SignIn, Settle
    <3> QED BY <3>2, <3>3
  <2>3. CASE UNCHANGED vars BY <2>3 DEF vars
  <2>4. CASE Start \/ PokeNow \/ RequestStop BY <2>4 DEF Start, PokeNow, RequestStop
  <2>5. CASE FarEnd
    <3>1. UNCHANGED <<failure, cut, pc, refused>> /\ auth' \in {auth} \cup AuthAnswers
      BY <2>5 DEF FarEnd, FarGrow, FarReplace, FarRewrite, FarChmod, LinkDrop, LinkBack,
         AuthChange, DeviceMove, FarUnchanged
    <3> QED BY <3>1
  <2>6. CASE Dial \/ OpenFile \/ EstablishStat
    <3>1. ~refused /\ UNCHANGED <<auth, refused, cut>> /\ pc' # "latch"
          /\ failure' \in {failure, "NoSuchFile", "Unreachable", "Unfit"}
      BY <2>1, <2>6 DEF Dial, OpenFile, EstablishStat
    <3> QED BY <3>1
  <2>7. CASE Top \/ Consume \/ Connect \/ Announce \/ Priming \/ Fetch \/ Commit \/ Fetched
    BY <2>7 DEF Top, Consume, Connect, Announce, Priming, Fetch, Commit, Fetched
  <2>8. CASE Begin BY <2>8 DEF Begin
  <2>9. CASE Read BY <2>9 DEF Read
  <2>10. CASE Broken \/ Live \/ Retry \/ GiveUp \/ Latch \/ Fresh \/ Sleep \/ Wake
    BY <2>10 DEF Broken, Live, Retry, GiveUp, Latch, Fresh, Sleep, Wake
  <2>11. CASE Poll
    <3>1. UNCHANGED <<auth, failure, refused, cut>> /\ pc' \in {"sleep", "judge"}
      BY <2>11 DEF Poll
    <3> QED BY <3>1
  <2>12. CASE \E due \in BOOLEAN : Judge(due) BY <2>12 DEF Judge
  <2>13. CASE Reopen BY <2>13 DEF Reopen
  <2> QED
    BY <2>2, <2>3, <2>4, <2>5, <2>6, <2>7, <2>8, <2>9, <2>10, <2>11, <2>12, <2>13
       DEF Next, Worker
<1>3. CASE AuthAnswers = {"ok"}
  <2>1. Init => Welcome BY <1>1, <1>3
  <2>2. Welcome /\ IInv /\ [Next]_vars => Welcome' BY <1>2, <1>3
  <2>3. Welcome => OutageNeverRefuses BY DEF Welcome, OutageNeverRefuses
  <2> QED BY <2>1, <2>2, <2>3, Invariance, PTL DEF Spec
<1>4. CASE AuthAnswers # {"ok"}
  <2>1. OutageNeverRefuses BY <1>4 DEF OutageNeverRefuses
  <2> QED BY <2>1, PTL
<1> QED BY <1>3, <1>4

-----------------------------------------------------------------------------
(* The contract of SourceFetcher                                           *)

\* What the contract calls written.
Lens == [g \in Generations |-> Len(file[g])]

Said == {"Connecting", "Priming", "Live", "Error", "Waiting"}

LEMMA Landing ==
  ASSUME file \in [Generations -> Seq(Bytes)], NEW k \in Generations, NEW s \in Seq(Bytes),
         file' = [file EXCEPT ![k] = s]
  PROVE  Lens' = [Lens EXCEPT ![k] = Len(s)]
  BY DEF Lens

\* A step that leaves the spool alone and says something, or nothing.
LEMMA SayingKeeps ==
  ASSUME IInv, pc # "unstarted", UNCHANGED <<generation, committed, file, stopping>>,
         state' = state \/ state' \in Said
  PROVE  [Contract!Next]_Contract!vars
<1>1. state # "Idle" /\ state # "Complete" BY DEF IInv, Placed
<1>2. Lens' = Lens BY DEF Lens
<1>3. CASE state' = state BY <1>2, <1>3 DEF Contract!vars, Lens
<1>4. CASE state' \in Said
  <2>1. Contract!Publish(state') /\ state' \in Contract!States
    BY <1>1, <1>2, <1>4 DEF Contract!Publish, Contract!Open, Contract!States, Said, Lens
  <2> QED BY <2>1 DEF Contract!Next
<1> QED BY <1>3, <1>4

\* A step that adds bytes to the current generation's file.
LEMMA LandingKeeps ==
  ASSUME IInv, pc \in Fetching, UNCHANGED <<state, generation, committed, stopping>>,
         NEW to \in 0 .. MaxSize, offset <= to, NEW t \in Seq(Bytes), Len(t) = to - offset,
         file' = [file EXCEPT ![generation] = file[generation] \o t]
  PROVE  [Contract!Next]_Contract!vars
<1>0. /\ file \in [Generations -> Seq(Bytes)] /\ generation \in Generations
      /\ file[generation] \in Seq(Bytes) /\ offset \in 0 .. MaxSize /\ base \in 0 .. MaxSize
      /\ faults \in 0 .. MaxFaults /\ MaxSize \in Nat
  BY Sizes DEF IInv, Typed
<1>1. generation > 0 /\ state # "Complete" BY DEF IInv, Placed
<1> DEFINE n == to - offset
<1>2. n \in Nat /\ n <= MaxSize /\ Len(t) = n BY <1>0
<1>3. Lens' = [Lens EXCEPT ![generation] = Lens[generation] + n]
  <2>1. file[generation] \o t \in Seq(Bytes) /\ Len(file[generation] \o t) = Landed + Len(t)
    BY <1>0, Joining DEF Landed
  <2>2. Lens' = [Lens EXCEPT ![generation] = Len(file[generation] \o t)]
    BY <1>0, <2>1, Landing
  <2>3. Lens[generation] = Landed BY <1>0 DEF Lens, Landed
  <2> QED BY <1>2, <2>1, <2>2, <2>3
<1>4. Lens[generation] \in Nat /\ Lens[generation] + n <= MaxSize * (MaxFaults + 1)
  <2>1. Lens[generation] = Landed /\ Landed \in Nat BY <1>0 DEF Lens, Landed
  <2>2. Landed <= offset - base + Spill BY DEF IInv, Counted
  <2>3. Spill \in Nat /\ Spill + MaxSize <= MaxSize * (MaxFaults + 1)
        /\ MaxSize * (MaxFaults + 1) \in Nat
    BY <1>0, Spilling DEF Spill
  <2> QED BY <1>0, <2>1, <2>2, <2>3
<1>5. n <= MaxSize * (MaxFaults + 1) /\ MaxSize * (MaxFaults + 1) \in Nat
  BY <1>0, <1>2, <1>4, Spilling
<1> HIDE DEF n
<1>6. CASE n = 0
  <2>1. Lens' = Lens BY <1>3, <1>4, <1>6 DEF Lens
  <2> QED BY <2>1 DEF Contract!vars, Lens
<1>7. CASE n # 0
  <2>1. PICK m \in 1 .. MaxSize * (MaxFaults + 1) : m = n BY <1>2, <1>5, <1>7
  <2>2. Lens' = [Lens EXCEPT ![generation] = Lens[generation] + m]
        /\ Lens[generation] + m <= MaxSize * (MaxFaults + 1)
    BY <1>3, <1>4, <2>1
  <2>3. Contract!Append(m) BY <1>1, <2>2 DEF Contract!Append, Contract!Open, Lens
  <2> QED BY <2>1, <2>3, Zenon DEF Contract!Next
<1> QED BY <1>6, <1>7

LEMMA StepKeeps == ASSUME IInv, IInv', [Next]_vars PROVE [Contract!Next]_Contract!vars
<1> USE DEF status, flags, fetch, stats, attempt, marks, world, Goto, Say, Quiet
<1>0. /\ file \in [Generations -> Seq(Bytes)] /\ generation \in Generations
      /\ state # "Complete" /\ (pc # "unstarted" => state # "Idle")
      /\ generation \in Nat /\ MaxGeneration \in Nat
  BY Sizes DEF IInv, Typed, Placed, Generations
<1>1. CASE UNCHANGED vars
  <2>1. Lens' = Lens BY <1>1 DEF vars, Lens
  <2> QED BY <1>1, <2>1 DEF vars, Contract!vars, Lens
<1>2. CASE Start
  <2>1. Lens' = Lens BY <1>2 DEF Start, Lens
  <2>2. Contract!Start BY <1>2, <2>1 DEF Start, Contract!Start, Lens
  <2> QED BY <2>2 DEF Contract!Next
<1>3. CASE PokeNow \/ FarEnd
  <2>1. UNCHANGED <<state, generation, committed, file>> /\ stopping' = stopping
    BY <1>3, OutsideKeeps DEF PokeNow, FarEnd, FarGrow, FarReplace, FarRewrite, FarChmod, LinkDrop,
       LinkBack, AuthChange, DeviceMove, FarUnchanged
  <2>2. Lens' = Lens BY <2>1 DEF Lens
  <2> QED BY <2>1, <2>2 DEF Contract!vars, Lens
<1>4. CASE RequestStop
  <2>1. Lens' = Lens BY <1>4 DEF RequestStop, Lens
  <2>2. Contract!RequestStop
    BY <1>0, <1>4, <2>1 DEF RequestStop, Contract!RequestStop, Lens
  <2> QED BY <2>2 DEF Contract!Next
<1>5. CASE \/ Top \/ Consume \/ Connect \/ Dial \/ SignIn \/ Settle \/ OpenFile \/ EstablishStat
           \/ Priming \/ Fetch \/ Broken \/ Live \/ Retry \/ GiveUp \/ Latch
           \/ (\E due \in BOOLEAN : Judge(due)) \/ Reopen \/ Fresh \/ Sleep \/ Wake
  <2>1. pc # "unstarted" /\ UNCHANGED <<generation, committed, file, stopping>>
    BY <1>5 DEF Top, Consume, Connect, Dial, SignIn, Settle, OpenFile, EstablishStat, Priming,
         Fetch, Broken, Live,
       Retry, GiveUp, Latch, Judge, Reopen, Fresh, Sleep, Wake
  <2>2. state' = state \/ state' \in Said
    BY <1>5 DEF Top, Consume, Connect, Dial, SignIn, Settle, OpenFile, EstablishStat, Priming,
         Fetch, Broken, Live,
       Retry, GiveUp, Latch, Judge, Reopen, Fresh, Sleep, Wake, Said
  <2> QED BY <2>1, <2>2, SayingKeeps
<1>6. CASE Poll
  <2>1. pc # "unstarted" /\ UNCHANGED <<generation, committed, file, stopping>>
    BY <1>6 DEF Poll
  <2>2. state' = state \/ state' \in Said BY <1>6 DEF Poll, Said
  <2> QED BY <2>1, <2>2, SayingKeeps
<1>7. CASE Begin
  <2>1. /\ pc = "begin" /\ generation < MaxGeneration
        /\ UNCHANGED <<state, generation, committed, stopping>>
        /\ file' = [file EXCEPT ![generation + 1] = <<>>] \/ file' = file
    BY <1>7 DEF Begin, NextFile
  <2>2. CASE file' = file BY <2>1, <2>2 DEF Contract!vars
  <2>3. CASE file' = [file EXCEPT ![generation + 1] = <<>>]
    <3>1. generation + 1 \in Generations /\ <<>> \in Seq(Bytes) /\ Len(<<>>) = 0
      BY <1>0, <2>1 DEF Generations
    <3>2. Lens' = [Lens EXCEPT ![generation + 1] = 0] BY <1>0, <2>3, <3>1, Landing
    <3>3. Contract!CreateNext
      BY <1>0, <2>1, <3>2 DEF Contract!CreateNext, Contract!Open, Contract!NextFile, Lens
    <3> QED BY <3>3 DEF Contract!Next
  <2> QED BY <2>1, <2>2, <2>3
<1>8. CASE Announce
  <2>1. /\ pc = "announce" /\ generation' = generation + 1 /\ committed' = 0
        /\ UNCHANGED <<state, file, stopping>>
    BY <1>8 DEF Announce
  <2>2. generation < MaxGeneration /\ file[generation + 1] = <<>> BY <2>1 DEF IInv, Placed
  <2>3. Lens' = Lens /\ Lens[generation + 1] = 0 BY <1>0, <2>1, <2>2 DEF Lens, Generations
  <2>4. Contract!BeginGeneration
    BY <1>0, <2>1, <2>2, <2>3 DEF Contract!BeginGeneration, Contract!Open, Lens
  <2> QED BY <2>4 DEF Contract!Next
<1>9. CASE Read
  <2>1. pc \in Fetching /\ UNCHANGED <<state, generation, committed, stopping>>
    BY <1>9 DEF Read, Fetching
  <2>2. CASE file' = file BY <2>1, <2>2 DEF Contract!vars
  <2>3. CASE file' # file
    <3>1. PICK to \in 0 .. MaxSize :
                 /\ offset <= to
                 /\ Text(ReadFile.content, offset, to) \in Seq(Bytes)
                 /\ Len(Text(ReadFile.content, offset, to)) = to - offset
                 /\ file' = [file EXCEPT ![generation]
                               = file[generation] \o Text(ReadFile.content, offset, to)]
      <4>1. offset \in Int BY Sizes DEF IInv, Typed
      <4>2. CASE pc' = "commit"
        <5>1. PICK to \in 0 .. MaxSize :
                 /\ offset < to
                 /\ Text(ReadFile.content, offset, to) \in Seq(Bytes)
                 /\ Len(Text(ReadFile.content, offset, to)) = to - offset
                 /\ file' = [file EXCEPT ![generation]
                               = file[generation] \o Text(ReadFile.content, offset, to)]
          BY <1>9, <4>2, ReadLands
        <5>2. offset <= to BY <4>1, <5>1
        <5> QED BY <5>1, <5>2
      <4>3. CASE pc' # "commit" BY <1>9, <2>3, <4>1, <4>3, ReadLands
      <4> QED BY <4>2, <4>3
    <3> QED BY <2>1, <3>1, LandingKeeps
  <2> QED BY <2>2, <2>3
<1>10. CASE Commit \/ Fetched
  <2>1. /\ pc \in Fetching /\ UNCHANGED <<state, generation, file, stopping>>
    BY <1>10 DEF Commit, Fetched, Fetching
  <2>2. generation > 0 /\ committed' <= Landed' /\ committed' \in Nat /\ committed \in Nat
    BY <2>1, Sizes DEF IInv, Placed, Counted, Typed
  <2>3. committed' >= committed
    <3>1. CASE Commit
      BY <3>1, Sizes DEF Commit, CommittedAfter, IInv, Typed, Counted, Fetching
    <3>2. CASE Fetched BY <3>2, Sizes DEF Fetched, Most, IInv, Typed
    <3> QED BY <1>10, <3>1, <3>2
  <2>4. Lens' = Lens /\ Landed' = Lens[generation] /\ Lens[generation] \in Nat
    BY <1>0, <2>1 DEF Lens, Landed
  <2>5. CASE committed' = committed BY <2>1, <2>4, <2>5 DEF Contract!vars, Lens
  <2>6. CASE committed' # committed
    <3>1. committed' \in 1 .. Lens[generation] /\ committed' \in committed .. Lens[generation]
      BY <2>2, <2>3, <2>4, <2>6
    <3>2. Contract!CommitLimit = Lens[generation] BY DEF Contract!CommitLimit, Lens
    <3>3. Contract!Commit(committed')
      BY <1>0, <2>1, <2>2, <2>4, <3>1, <3>2 DEF Contract!Commit, Contract!Open, Lens
    <3>4. PICK m \in 1 .. Lens[generation] : m = committed' BY <3>1
    <3>5. m \in 1 .. Contract!CommitLimit /\ Contract!Commit(m) BY <3>2, <3>3, <3>4
    <3> QED BY <3>5 DEF Contract!Next
  <2> QED BY <2>5, <2>6
<1> QED BY <1>1, <1>2, <1>3, <1>4, <1>5, <1>6, <1>7, <1>8, <1>9, <1>10 DEF Next, Worker

LEMMA InitKeeps == Init => Contract!Init
<1> SUFFICES ASSUME Init PROVE Contract!Init OBVIOUS
<1>1. [g \in Generations |-> Len(file[g])] = [g \in Generations |-> 0] BY DEF Init
<1> QED BY <1>1 DEF Init, Contract!Init, Contract!Generations, Generations

\* The SSH fetcher keeps the contract of SourceFetcher.h, whatever is done to the
\* log, the link, the account and the disk: a generation is published once its
\* file exists and is empty, a size once its bytes have landed, and neither the
\* file of a generation that is over nor a byte that was published is touched
\* again (beginGeneration(), fetchForward(), publishHeldCommits()).
THEOREM ContractKept == Spec => KeepsContract
<1>1. IInv /\ IInv' /\ [Next]_vars => [Contract!Next]_Contract!vars BY StepKeeps
<1> QED BY <1>1, InitKeeps, Invariance, PTL DEF Spec, KeepsContract, Contract!Spec

-----------------------------------------------------------------------------
(* One generation is one file                                              *)

\* The session holds an open file, and where that file is already another than
\* the one the published generation was filled from.
Held    == session # NoSession /\ session.handle # NoFile
Between == {"signin", "settle", "open", "estat", "begin", "announce", "fresh"}

\* A remote file has one text as long as nobody rewrites it in place, an open handle
\* stays on its file, and the published generation is a piece of that text.
OneText ==
  /\ faults = 0
  /\ far.content = far.inode
  /\ Held => session.handle.content = session.handle.inode
  /\ \E c \in Contents : IsPieceOf(file[generation], c, base)
  /\ Held /\ pc \notin Between => IsPieceOf(file[generation], session.handle.inode, base)

LEMMA InitText == Init => OneText
<1> SUFFICES ASSUME Init PROVE OneText OBVIOUS
<1>1. file[generation] = <<>> /\ 1 \in Contents BY Sizes DEF Init, Generations, Contents
<1>2. IsPieceOf(file[generation], 1, base) BY <1>1 DEF IsPieceOf
<1>3. far.content = far.inode BY DEF Init
<1> QED BY <1>1, <1>2, <1>3 DEF OneText, Init, Held

\* A step that neither touches the spool nor opens anything.
LEMMA TextQuiet ==
  ASSUME OneText, UNCHANGED <<file, generation, base, far, faults>>,
         session' \in {session, NoSession},
                       pc' \in Between \/ pc \notin Between \/ session' = NoSession
  PROVE  OneText'
<1>1. (\E c \in Contents : IsPieceOf(file[generation], c, base))'
  BY DEF OneText, IsPieceOf
<1>2. Held' => Held /\ session' = session BY DEF Held
<1>3. Held' /\ pc' \notin Between => IsPieceOf(file[generation], session.handle.inode, base)'
  BY <1>2 DEF OneText, IsPieceOf, Held
<1>4. Held' => session'.handle.content = session'.handle.inode BY <1>2 DEF OneText
<1> QED BY <1>1, <1>3, <1>4 DEF OneText

\* A session just opened on the file the name leads to.
LEMMA OpenedText ==
  ASSUME Typed, OneText, session # NoSession, session' \in OpenedSessions, Transport = "sftp"
  PROVE  Held' => session'.handle.content = session'.handle.inode
<1>1. far.content = far.inode /\ ClosedSession \in Sessions BY Looks DEF OneText
<1>2. PICK t \in FstatAnswers :
        session' = [ClosedSession EXCEPT !.tracks = t, !.handle = [inode |-> far.inode,
                      content |-> far.content, size |-> far.size]]
  BY DEF OpenedSessions
<1>3. session'.handle = [inode |-> far.inode, content |-> far.content, size |-> far.size]
  BY <1>1, <1>2 DEF Sessions
<1> QED BY <1>1, <1>3

LEMMA FarText ==
  ASSUME IInv, OneText, FarEnd, ~RewriteInPlace
  PROVE  OneText'
<1> USE DEF status, flags, fetch, stats, attempt, marks, world
<1>0. far \in Fars /\ (session # NoSession => session \in Sessions)
      /\ (Held => session.handle \in Handles) /\ far.content = far.inode
      /\ (Held => session.handle.content = session.handle.inode)
  BY SessionFields DEF IInv, Typed, OneText, Held
<1>1. UNCHANGED <<file, generation, base, faults, pc>>
  BY DEF FarEnd, FarGrow, FarReplace, FarRewrite, FarChmod, LinkDrop, LinkBack, AuthChange,
     DeviceMove, FarUnchanged
<1>2. far'.content = far'.inode
  <2>1. ASSUME NEW n \in 1 .. MaxSize, FarGrow(n) PROVE far'.content = far'.inode
    BY <1>0, <2>1 DEF FarGrow, Fars
  <2>2. ASSUME NEW p \in Presences, NEW n \in 0 .. MaxSize, FarReplace(p, n)
        PROVE  far'.content = far'.inode
    BY <2>2 DEF FarReplace
  <2>3. ASSUME NEW p \in Presences, FarChmod(p) PROVE far'.content = far'.inode
    BY <1>0, <2>3 DEF FarChmod, Fars
  <2>4. ASSUME ~\E n \in 1 .. MaxSize : FarGrow(n),
               ~\E p \in Presences, n \in 0 .. MaxSize : FarReplace(p, n),
               ~\E p \in Presences : FarChmod(p)
        PROVE  far'.content = far'.inode
    BY <1>0, <2>4 DEF FarEnd, FarRewrite, LinkDrop, LinkBack, AuthChange, DeviceMove
  <2> QED BY <2>1, <2>2, <2>3, <2>4
<1>3. Held' => /\ Held /\ session'.handle.inode = session.handle.inode
               /\ session'.handle.content = session'.handle.inode
  <2>1. \/ session' = session
        \/ session' = Detached
        \/ session # NoSession /\ session' = [session EXCEPT !.alive = FALSE]
    <3> USE DEF FarGrow, FarReplace, FarRewrite, FarChmod, LinkDrop, LinkBack, AuthChange,
          DeviceMove, FarUnchanged
    <3>1. CASE LinkDrop BY <3>1
    <3>2. CASE ~LinkDrop BY <3>2 DEF FarEnd
    <3> QED BY <3>1, <3>2
  <2>2. CASE session' = session BY <1>0, <2>2 DEF Held
  <2>3. CASE session # NoSession /\ session' = [session EXCEPT !.alive = FALSE]
    <3>1. session'.handle = session.handle BY <1>0, <2>3 DEF Sessions
    <3> QED BY <1>0, <2>3, <3>1 DEF Held
  <2>4. CASE session' = Detached /\ ~Held BY <2>4 DEF Detached, Held
  <2>5. CASE session' = Detached /\ Held
    <3> DEFINE h == [session.handle EXCEPT !.content = HandleFile(session.handle).content,
                                           !.size = HandleFile(session.handle).size]
    <3>1. session' = [session EXCEPT !.handle = h]
      BY <1>0, <2>5 DEF Detached, Sessions, Handles, Held
    <3>2. session'.handle = h BY <1>0, <2>5, <3>1 DEF Sessions, Held
    <3>3. HandleFile(session.handle).content = session.handle.inode
      BY <1>0, <2>5 DEF HandleFile
    <3>4. h.inode = session.handle.inode /\ h.content = session.handle.inode
      BY <1>0, <2>5, <3>3 DEF Handles
    <3> QED BY <2>5, <3>2, <3>4
  <2> QED BY <2>1, <2>2, <2>3, <2>4, <2>5
<1>4. (\E c \in Contents : IsPieceOf(file[generation], c, base))'
  BY <1>1 DEF OneText, IsPieceOf
<1>5. Held' /\ pc' \notin Between => IsPieceOf(file[generation], session.handle.inode, base)'
  BY <1>1, <1>3 DEF OneText, IsPieceOf
<1> QED BY <1>1, <1>2, <1>3, <1>4, <1>5 DEF OneText

\* Bytes of the same text, put after a piece of it, make a longer piece.
LEMMA LongerPiece ==
  ASSUME NEW s \in Seq(Bytes), NEW c \in Contents, NEW from \in 0 .. MaxSize,
         NEW at \in 0 .. MaxSize, NEW to \in at .. MaxSize, IsPieceOf(s, c, from),
         Len(s) = at - from
  PROVE  IsPieceOf(s \o Text(c, at, to), c, from)
<1>1. PICK t \in Seq(Bytes) :
        /\ t = Text(c, at, to) /\ Len(t) = to - at
        /\ \A i \in 1 .. to - at : t[i] = <<c, at + i - 1>>
  BY Stretch
<1>2. /\ Len(s \o t) = Len(s) + Len(t)
      /\ \A i \in 1 .. Len(s) : (s \o t)[i] = s[i]
      /\ \A i \in 1 .. Len(t) : (s \o t)[Len(s) + i] = t[i]
  OBVIOUS
<1>3. ASSUME NEW i \in 1 .. Len(s \o t) PROVE (s \o t)[i] = <<c, from + i - 1>>
  <2>1. CASE i <= Len(s) BY <1>2, <2>1 DEF IsPieceOf
  <2>2. CASE i > Len(s)
    <3>1. PICK j \in 1 .. Len(t) : i = Len(s) + j
      <4>1. i - Len(s) \in 1 .. Len(t) /\ i = Len(s) + (i - Len(s)) BY <1>1, <1>2, <2>2
      <4> QED BY <4>1
    <3>2. (s \o t)[i] = <<c, at + j - 1>> BY <1>1, <1>2, <3>1
    <3>3. at + j - 1 = from + i - 1 BY <1>1, <3>1, Sizes
    <3> QED BY <3>2, <3>3
  <2> QED BY <2>1, <2>2
<1> QED BY <1>1, <1>3 DEF IsPieceOf

LEMMA ReadText ==
  ASSUME IInv, OneText, Read, Transport = "sftp", DiskFaults = {}
  PROVE  OneText'
<1>0. /\ file \in [Generations -> Seq(Bytes)] /\ generation \in Generations
      /\ file[generation] \in Seq(Bytes) /\ session \in Sessions /\ session # NoSession
      /\ offset \in 0 .. MaxSize /\ base \in 0 .. MaxSize /\ pc = "read" /\ MaxSize \in Nat
  BY Sizes DEF IInv, Typed, Placed, Joined, Read
<1>1. UNCHANGED <<generation, base, far, session>> BY DEF Read, status, world
<1>2. CASE UNCHANGED <<file, offset, faults>> /\ pc' \in {"broken", "fetched"}
  BY <1>0, <1>1, <1>2, TextQuiet DEF Between
<1>3. CASE pc' = "commit"
  <2>1. PICK to \in 0 .. MaxSize :
          /\ offset < to
          /\ file' = [file EXCEPT ![generation]
                        = file[generation] \o Text(ReadFile.content, offset, to)]
    BY <1>3, ReadLands
  <2>2. faults' = faults /\ offset < ReadFile.size BY <1>3, ReadLands
  <2>3. Held /\ session.handle \in Handles
    <3>1. session.handle # NoFile BY <1>0, <2>2 DEF ReadFile
    <3> QED BY <1>0, <3>1, SessionFields DEF Held
  <2>4. ReadFile.content = session.handle.inode /\ session.handle.inode \in Contents
    BY <2>3, SessionFields, <1>0 DEF ReadFile, Held, HandleFile, OneText
  <2>5. Landed = offset - base
    <3>1. offset - base <= Landed /\ Landed <= offset - base + Spill
      BY <1>0 DEF IInv, Counted, Fetching
    <3>2. Spill = 0 /\ Landed \in Nat BY <1>0 DEF Spill, OneText, Landed
    <3> QED BY <1>0, <3>1, <3>2
  <2>6. IsPieceOf(file[generation], session.handle.inode, base)
    BY <1>0, <2>3 DEF OneText, Between
  <2>7. IsPieceOf(file[generation] \o Text(session.handle.inode, offset, to),
                  session.handle.inode, base)
    BY <1>0, <2>1, <2>4, <2>5, <2>6, LongerPiece DEF Landed
  <2>8. file'[generation] = file[generation] \o Text(session.handle.inode, offset, to)
    BY <1>0, <2>1, <2>4
  <2>9. IsPieceOf(file'[generation'], session'.handle.inode, base') BY <1>1, <2>7, <2>8
  <2>10. Held' /\ session'.handle.inode \in Contents
         /\ session'.handle.content = session'.handle.inode /\ far'.content = far'.inode
    BY <1>1, <2>3, <2>4 DEF Held, OneText
  <2> QED BY <2>2, <2>9, <2>10 DEF OneText
<1>4. CASE "write" \in DiskFaults BY <1>4
<1> QED BY <1>2, <1>3, <1>4, ReadLands

LEMMA NextText ==
  ASSUME IInv, OneText, [Next]_vars, Transport = "sftp", DiskFaults = {}, ~RewriteInPlace
  PROVE  OneText'
<1> USE DEF status, flags, fetch, stats, attempt, marks, world, Goto, Say, Quiet
<1>0. /\ file \in [Generations -> Seq(Bytes)] /\ generation \in Generations
      /\ session \in Sessions \cup {NoSession} /\ Typed /\ Placed
  BY DEF IInv, Typed
<1>1. CASE \/ UNCHANGED vars \/ Start \/ PokeNow \/ RequestStop \/ Top \/ Consume \/ Connect
           \/ Priming \/ Fetch \/ Commit \/ Fetched \/ Live \/ Retry \/ GiveUp \/ Latch
           \/ (\E due \in BOOLEAN : Judge(due)) \/ Fresh \/ Sleep \/ Wake
  <2>1. UNCHANGED <<file, generation, base, far, faults>> /\ session' \in {session, NoSession}
    BY <1>1 DEF vars, Start, PokeNow, RequestStop, Top, Consume, Connect, Priming, Fetch, Commit,
       Fetched, Live, Retry, GiveUp, Latch, Judge, Fresh, Sleep, Wake
  <2>2. pc' \in Between \/ pc \notin Between
    BY <1>1 DEF vars, Start, PokeNow, RequestStop, Top, Consume, Connect, Priming, Fetch, Commit,
       Fetched, Live, Retry, GiveUp, Latch, Judge, Fresh, Sleep, Wake, Between
  <2> QED BY <2>1, <2>2, TextQuiet
<1>2. CASE SignIn \/ Settle \/ EstablishStat \/ Broken
  <2>1. UNCHANGED <<file, generation, base, far, faults>> /\ session' \in {session, NoSession}
    BY <1>2 DEF SignIn, Settle, EstablishStat, Broken
  <2>2. pc' \in Between \/ pc \notin Between \/ session' = NoSession
    BY <1>2 DEF SignIn, Settle, EstablishStat, Broken, Between
  <2> QED BY <2>1, <2>2, TextQuiet
<1>3. CASE Poll
  <2>1. /\ pc = "poll" /\ UNCHANGED <<file, generation, base, far, faults>>
        /\ session' \in {session, NoSession}
    BY <1>3 DEF Poll
  <2> QED BY <2>1, TextQuiet DEF Between
<1>4. CASE FarEnd BY <1>4, FarText
<1>5. CASE Read BY <1>5, ReadText
<1>6. CASE Dial \/ OpenFile \/ Reopen
  <2>1. UNCHANGED <<file, generation, base, far, faults>>
    BY <1>6 DEF Dial, OpenFile, Reopen
  <2>2. /\ Held' => session'.handle.content = session'.handle.inode
        /\ ~Held' \/ pc' \in Between
    <3>1. CASE Dial BY <1>0, <3>1 DEF Dial, Held, Placed, Alone
    <3>2. CASE session' = NoSession BY <3>2 DEF Held
    <3>3. CASE (OpenFile \/ Reopen) /\ session' \in OpenedSessions /\ pc' \in Between
      <4>1. session # NoSession BY <1>0, <3>3 DEF Placed, Joined, OpenFile, Reopen
      <4> QED BY <1>0, <3>3, <4>1, OpenedText
    <3>4. CASE Reopen /\ session' = ClosedSession
      <4>1. session # NoSession BY <1>0, <3>4 DEF Placed, Joined, Reopen
      <4>2. session'.handle = NoFile BY <1>0, <3>4, <4>1 DEF ClosedSession, Sessions
      <4> QED BY <4>2 DEF Held
    <3> QED BY <1>6, <3>1, <3>2, <3>3, <3>4 DEF OpenFile, Reopen, Between
  <2>3. (\E c \in Contents : IsPieceOf(file[generation], c, base))'
    BY <2>1 DEF OneText, IsPieceOf
  <2> QED BY <2>1, <2>2, <2>3 DEF OneText
<1>7. CASE Begin
  <2>1. /\ pc' = "announce" /\ file' = [file EXCEPT ![generation + 1] = <<>>]
        /\ UNCHANGED <<generation, base, far, faults, session>>
    BY <1>7 DEF Begin, NextFile
  <2>2. file'[generation'] = file[generation] BY <1>0, <2>1, Sizes DEF Generations
  <2>3. (\E c \in Contents : IsPieceOf(file[generation], c, base))'
    BY <2>1, <2>2 DEF OneText, IsPieceOf
  <2>4. Held' = Held /\ pc' \in Between BY <2>1 DEF Held, Between
  <2> QED BY <2>1, <2>3, <2>4 DEF OneText
<1>8. CASE Announce
  <2>1. /\ pc = "announce" /\ generation' = generation + 1
        /\ UNCHANGED <<file, far, faults, session>>
    BY <1>8 DEF Announce
  <2>2. file'[generation'] = <<>> BY <1>0, <2>1 DEF Placed
  <2>3. \A c : IsPieceOf(file[generation], c, base)' BY <2>2 DEF IsPieceOf
  <2>4. Held' = Held /\ 1 \in Contents BY <2>1, Sizes DEF Held, Contents
  <2> QED BY <2>1, <2>3, <2>4 DEF OneText
<1> QED BY <1>1, <1>2, <1>3, <1>4, <1>5, <1>6, <1>7, <1>8 DEF Next, Worker

\* Over SFTP, with a disk that takes what it is given and a log nobody rewrites in
\* place, what a reader sees of one generation is one remote file, in order, with
\* nothing missing, repeated or spliced in, however the log is rotated, removed or
\* cut off between any two steps (fetchForward() reads through the handle that
\* openFile() opened, and a generation is begun for every handle).
THEOREM OneFilePerGeneration ==
  ASSUME Transport = "sftp", DiskFaults = {}, ~RewriteInPlace
  PROVE  Spec => []SpoolIsOneFile
<1>1. OneText /\ IInv /\ [Next]_vars => OneText' BY NextText
<1>2. IInv /\ OneText => SpoolIsOneFile
  <2> SUFFICES ASSUME IInv, OneText PROVE SpoolIsOneFile OBVIOUS
  <2>1. committed <= Landed /\ committed \in Nat /\ file[generation] \in Seq(Bytes)
    BY Sizes DEF IInv, Typed, Counted
  <2>2. PICK c \in Contents : IsPieceOf(file[generation], c, base) BY DEF OneText
  <2>3. /\ Len(SubSeq(file[generation], 1, committed)) = committed
        /\ \A i \in 1 .. committed : SubSeq(file[generation], 1, committed)[i] = file[generation][i]
    BY <2>1 DEF Landed
  <2>4. IsPieceOf(SubSeq(file[generation], 1, committed), c, base)
    BY <2>1, <2>2, <2>3 DEF IsPieceOf, Landed
  <2> QED BY <2>1, <2>2, <2>4 DEF SpoolIsOneFile, Landed
<1> QED BY <1>1, <1>2, InitText, Invariance, PTL DEF Spec

=============================================================================
