-------------------------- MODULE SpooledTailProofs --------------------------
(***************************************************************************)
(* The fetcher contract, for every bound and, through refinement, for      *)
(* every fetcher shown to implement it; and the reader, which keeps its    *)
(* promises over any fetcher that keeps the contract.  A step is the       *)
(* fetcher's, which leaves the reader alone, or the reader's, which leaves *)
(* the fetcher alone.  For a reader's step there is one lemma for each     *)
(* part of the invariant: the types, what is held was published, the       *)
(* marks, the index, and what a finished input means.                      *)
(***************************************************************************)
EXTENDS SpooledTail, TLAPS

-----------------------------------------------------------------------------
(* The fetcher contract                                                    *)

\* A fetcher as constructed publishes nothing (FetchStatus's initial values).
LEMMA InitSnapshot == Init => SnapshotInv
<1> SUFFICES ASSUME Init PROVE SnapshotInv OBVIOUS
<1>1. state \in States /\ stopping \in BOOLEAN BY DEF Init, States
<1>2. generation \in Generations /\ committed \in 0 .. MaxSize
  BY BoundsAssumption DEF Init, Generations
<1>3. written \in [Generations -> 0 .. MaxSize] BY BoundsAssumption DEF Init
<1>4. NoTornChunk BY <1>2 DEF Init, NoTornChunk
<1> QED BY <1>1, <1>2, <1>3, <1>4 DEF SnapshotInv, TypeOK

\* No step of a fetcher publishes more than has landed (setCommitted() after the write).
LEMMA NextSnapshot == SnapshotInv /\ [Next]_vars => SnapshotInv'
<1> SUFFICES ASSUME SnapshotInv, [Next]_vars PROVE SnapshotInv' OBVIOUS
<1> USE BoundsAssumption DEF SnapshotInv, TypeOK, NoTornChunk, Generations
<1>1. CASE Start BY <1>1 DEF Start, States
<1>2. ASSUME NEW s \in States, Publish(s) PROVE SnapshotInv' BY <1>2 DEF Publish
<1>3. CASE CreateNext BY <1>3 DEF CreateNext, NextFile
<1>4. CASE BeginGeneration BY <1>4 DEF BeginGeneration
<1>5. ASSUME NEW n \in 1 .. MaxSize, Append(n) PROVE SnapshotInv' BY <1>5 DEF Append
<1>6. ASSUME NEW n \in 1 .. CommitLimit, Commit(n) PROVE SnapshotInv'
  BY <1>6 DEF Commit, CommitLimit
<1>7. CASE PublishComplete BY <1>7 DEF PublishComplete, States
<1>8. CASE RequestStop BY <1>8 DEF RequestStop, States
<1>9. CASE UNCHANGED vars BY <1>9 DEF vars
<1> QED BY <1>1, <1>2, <1>3, <1>4, <1>5, <1>6, <1>7, <1>8, <1>9 DEF Next

\* Every snapshot a fetcher that keeps the contract publishes is well formed,
\* and no reader clamped to committedSize can reach a byte that has not landed.
THEOREM SnapshotSafe == Spec => [](TypeOK /\ NoTornChunk)
  BY InitSnapshot, NextSnapshot, PTL DEF Spec, SnapshotInv

\* What one step of a fetcher may do to what its readers hold: the published size only
\* grows within a generation, bytes of the current and of older generations stay, and
\* after Complete nothing moves.
LEMMA StepKeeps ==
  ASSUME SnapshotInv, Next
  PROVE  /\ generation' \in {generation, generation + 1}
         /\ generation' = generation => committed' >= committed
         /\ generation' = generation + 1 => committed' = 0
         /\ \A g \in Generations :
              /\ g < generation  => written'[g] = written[g]
              /\ g = generation => written'[g] >= written[g]
         /\ state = "Complete" => UNCHANGED <<state, generation, committed, written>>
<1> USE BoundsAssumption DEF SnapshotInv, TypeOK, NoTornChunk, Generations
<1>1. CASE UNCHANGED <<generation, committed, written>> /\ (state = "Complete" => state' = state)
  BY <1>1
<1>2. CASE CreateNext BY <1>2 DEF CreateNext, NextFile, Open
<1>3. CASE BeginGeneration BY <1>3 DEF BeginGeneration, Open
<1>4. ASSUME NEW n \in 1 .. MaxSize, Append(n)
      PROVE  /\ state # "Complete" /\ UNCHANGED <<generation, committed>>
             /\ \A g \in Generations : /\ g < generation  => written'[g] = written[g]
                                       /\ g = generation => written'[g] >= written[g]
  BY <1>4 DEF Append, Open
<1>5. ASSUME NEW n \in 1 .. CommitLimit, Commit(n)
      PROVE  /\ state # "Complete" /\ UNCHANGED <<generation, written>>
             /\ committed' >= committed
  BY <1>5 DEF Commit, CommitLimit, Open
<1> QED
  BY <1>1, <1>2, <1>3, <1>4, <1>5
  DEF Next, Open, Start, Publish, PublishComplete, RequestStop

\* Nothing a reader sees changes once Complete was published: what lets the reader stop
\* watching an expanded archive member for good (SourceFetcher.h, State::Complete).
THEOREM CompleteStays == Spec => CompleteIsFinal
<1>1. SnapshotInv /\ [Next]_vars =>
        [state = "Complete" => UNCHANGED <<state, generation, committed, written>>]_vars
  BY StepKeeps
<1> QED BY <1>1, InitSnapshot, NextSnapshot, PTL DEF Spec, CompleteIsFinal

\* Within a generation the committed size only grows and no written byte is taken back,
\* and the file of a superseded generation is never touched (SourceFetcher.h, generation
\* and committedSize): record offsets index it, and the index worker may still map it.
THEOREM SpoolGrows == Spec => SpoolOnlyGrows
<1>1. SnapshotInv /\ [Next]_vars =>
        [/\ generation' \in {generation, generation + 1}
         /\ generation' = generation => committed' >= committed
         /\ generation' = generation + 1 => committed' = 0
         /\ \A g \in Generations :
              /\ g < generation  => written'[g] = written[g]
              /\ g = generation => written'[g] >= written[g]]_vars
  BY StepKeeps
<1> QED BY <1>1, InitSnapshot, NextSnapshot, PTL DEF Spec, SpoolOnlyGrows

-----------------------------------------------------------------------------
(* The reader                                                              *)

\* What a source may read of the current generation is all that is published.
LEMMA VisibleIsCommitted ==
  ASSUME SnapshotInv
  PROVE  /\ Visible(generation) = committed
         /\ generation \in Generations /\ committed \in 0 .. MaxSize
         /\ committed \in Nat /\ generation \in Nat
  BY BoundsAssumption DEF SnapshotInv, TypeOK, NoTornChunk, Visible, Generations

\* Bytes that were published stay readable, whatever the fetcher does next.
LEMMA PublishedStays ==
  ASSUME SnapshotInv, Next, NEW g \in Generations, NEW n \in 0 .. MaxSize, Published(g, n)
  PROVE  Published(g, n)'
<1> USE BoundsAssumption DEF SnapshotInv, TypeOK, NoTornChunk, Generations
<1>1. SnapshotInv' BY NextSnapshot
<1>2. /\ generation' \in {generation, generation + 1}
      /\ generation' = generation => committed' >= committed
      /\ g < generation  => written'[g] = written[g]
      /\ g = generation => written'[g] >= written[g]
  BY StepKeeps
<1>3. CASE generation' = generation BY <1>1, <1>2, <1>3 DEF Published
<1>4. CASE generation' = generation + 1
  <2>1. g <= generation /\ g # generation' /\ n <= written[g] BY <1>4 DEF Published
  <2>2. written'[g] >= written[g] BY <1>2, <2>1
  <2> QED BY <1>1, <1>4, <2>1, <2>2 DEF Published
<1> QED BY <1>2, <1>3, <1>4


\* open() and refreshSize(): the source then holds all that is published.
LEMMA OpenedIsAll ==
  ASSUME SnapshotInv
  PROVE  /\ Opened.gen = generation /\ Opened.size = committed /\ ~Opened.truncated
         /\ Refreshed.gen = generation /\ Refreshed.size = committed
         /\ ~Refreshed.truncated => /\ ~source.truncated /\ generation = source.gen
                                    /\ ~(committed < source.size)
<1>1. Visible(generation) = committed BY VisibleIsCommitted
<1> QED BY <1>1 DEF Opened, Refreshed

\* The whole of what source s holds, indexed.
AllOf(s) == [gen |-> s.gen, count |-> s.size]

\* The steps of the document's thread, but for the cancelled scan, which also stops
\* the fetcher.
ReaderStep == Poll \/ Prepare \/ Reload \/ Reformat

\* The source is kept, reopened or refreshed; the index is kept, emptied or made the
\* whole of what a source holds; the baseline is kept, zeroed or a source's size.
LEMMA WhatAStepHolds ==
  ASSUME TailTypeOK, ReaderStep
  PROVE  /\ UNCHANGED fetcher
         /\ source' \in {source, Opened, Refreshed}
         /\ index' \in {index, NoRecords, AllOf(source), AllOf(source')}
         /\ lastSize' \in {lastSize, 0, source.size, source'.size}
         /\ pc' \in PCs
<1> USE DEF Goto, marks, live, fetcher, Baseline, Resume, AllOf, PCs
<1>1. CASE Prepare \/ GoneAtOpen \/ ReadyAtOpen \/ IndexFinished
  BY <1>1 DEF TailTypeOK, Prepare, GoneAtOpen, ReadyAtOpen, IndexFinished, EnterWaitingAtOpen
<1>2. CASE StartLive \/ SettleFirst BY <1>2 DEF TailTypeOK, StartLive, SettleFirst
<1>3. CASE Tick \/ CheckReplaced \/ Hold \/ Refresh
  BY <1>3 DEF TailTypeOK, Tick, CheckReplaced, Hold, Refresh
<1>4. CASE Rescan \/ CheckVanished \/ CheckDelivering
  BY <1>4 DEF TailTypeOK, Rescan, CheckVanished, CheckDelivering, BeginWaiting,
      EndStale, BeginStale
<1>5. CASE Take \/ Settle \/ Finish BY <1>5 DEF TailTypeOK, Take, Settle, Finish, Ingest
<1>6. CASE CheckBack \/ CheckBackReady \/ ResumeWaiting
  BY <1>6 DEF TailTypeOK, CheckBack, CheckBackReady, ResumeWaiting
<1>7. CASE Reload \/ Reformat BY <1>7 DEF TailTypeOK, Reload, Reformat, Rebuild
<1> QED
  BY <1>1, <1>2, <1>3, <1>4, <1>5, <1>6, <1>7
  DEF ReaderStep, Poll

\* A reader's step keeps the types, and every one of its marks and answers a truth value.
LEMMA TypeStep ==
  ASSUME SnapshotInv, TailTypeOK, ReaderStep
  PROVE  TailTypeOK' /\ NoTornChunk'
<1>1. SnapshotInv'
  <2>1. UNCHANGED fetcher BY WhatAStepHolds
  <2> QED BY <2>1 DEF SnapshotInv, TypeOK, NoTornChunk, fetcher, vars
<1>2. source' \in [gen : Generations, size : 0 .. MaxSize, truncated : BOOLEAN]
  <2>1. source.truncated \in BOOLEAN BY DEF TailTypeOK
  <2>2. Opened \in [gen : Generations, size : 0 .. MaxSize, truncated : BOOLEAN]
    BY VisibleIsCommitted DEF Opened
  <2>3. Refreshed \in [gen : Generations, size : 0 .. MaxSize, truncated : BOOLEAN]
    BY <2>1, VisibleIsCommitted DEF Refreshed
  <2> QED BY <2>2, <2>3, WhatAStepHolds DEF TailTypeOK
<1>3. index' \in [gen : Generations, count : 0 .. MaxSize]
  <2>1. NoRecords \in [gen : Generations, count : 0 .. MaxSize]
    BY BoundsAssumption DEF NoRecords, Generations
  <2>2. AllOf(source) \in [gen : Generations, count : 0 .. MaxSize]
    BY DEF AllOf, TailTypeOK
  <2>3. AllOf(source') \in [gen : Generations, count : 0 .. MaxSize] BY <1>2 DEF AllOf
  <2> QED BY <2>1, <2>2, <2>3, WhatAStepHolds DEF TailTypeOK
<1>4. lastSize' \in 0 .. MaxSize
  <2>1. 0 \in 0 .. MaxSize BY BoundsAssumption
  <2> QED BY <1>2, <2>1, WhatAStepHolds DEF TailTypeOK
<1>5. /\ settled' \in BOOLEAN /\ waiting' \in BOOLEAN /\ stale' \in BOOLEAN
      /\ shown' \in [waiting : BOOLEAN, stale : BOOLEAN]
      /\ completed' \in BOOLEAN /\ vanishing' \in BOOLEAN
      /\ saw' \in [finished : BOOLEAN, replaced : BOOLEAN]
  <2> USE DEF TailTypeOK, marks, live
  <2>1. CASE Prepare BY <2>1 DEF Prepare
  <2>2. CASE GoneAtOpen BY <2>2 DEF GoneAtOpen, EnterWaitingAtOpen
  <2>3. CASE ReadyAtOpen BY <2>3 DEF ReadyAtOpen, EnterWaitingAtOpen
  <2>4. CASE IndexFinished BY <2>4 DEF IndexFinished
  <2>5. CASE StartLive BY <2>5 DEF StartLive
  <2>6. CASE SettleFirst BY <2>6 DEF SettleFirst, Resume
  <2>7. CASE Tick BY <2>7 DEF Tick
  <2>8. CASE CheckReplaced BY <2>8 DEF CheckReplaced, WasReplaced
  <2>9. CASE Hold BY <2>9 DEF Hold, BeginStale
  <2>10. CASE Refresh BY <2>10 DEF Refresh
  <2>11. CASE Rescan BY <2>11 DEF Rescan, EndStale
  <2>12. CASE CheckVanished
    <3>1. /\ UNCHANGED <<settled, completed, saw>> /\ vanishing' \in BOOLEAN
          /\ \/ UNCHANGED marks
             \/ BeginStale /\ UNCHANGED waiting
             \/ BeginWaiting
      BY <2>12 DEF CheckVanished, BeginWaiting
    <3>2. /\ shown' \in [waiting : BOOLEAN, stale : BOOLEAN]
          /\ waiting' \in BOOLEAN /\ stale' \in BOOLEAN
      <4>1. CASE UNCHANGED marks BY <4>1
      <4>2. CASE BeginStale /\ UNCHANGED waiting BY <4>2 DEF BeginStale
      <4>3. CASE BeginWaiting BY <4>3 DEF BeginWaiting, StaleShownInWait
      <4> QED BY <3>1, <4>1, <4>2, <4>3
    <3> QED BY <3>1, <3>2
  <2>13. CASE CheckDelivering BY <2>13 DEF CheckDelivering, BeginStale, EndStale
  <2>14. CASE Take BY <2>14 DEF Take
  <2>15. CASE Settle BY <2>15 DEF Settle, Resume
  <2>16. CASE Finish BY <2>16 DEF Finish, Finished
  <2>17. CASE CheckBack BY <2>17 DEF CheckBack
  <2>18. CASE CheckBackReady BY <2>18 DEF CheckBackReady
  <2>19. CASE ResumeWaiting BY <2>19 DEF ResumeWaiting, Resume
  <2>20. CASE Reload BY <2>20 DEF Reload, Rebuild
  <2>21. CASE Reformat
    <3>1. settled' \in BOOLEAN
      <4>1. CASE settled' = (Opened.size > 0) BY <4>1
      <4>2. CASE settled' = FALSE BY <4>2
      <4> QED BY <2>21, <4>1, <4>2 DEF Reformat
    <3>2. CASE Rebuild BY <3>1, <3>2 DEF Rebuild
    <3>3. CASE ~Rebuild BY <2>21, <3>1, <3>3 DEF Reformat
    <3> QED BY <3>2, <3>3
  <2> QED BY <2>1, <2>2, <2>3, <2>4, <2>5, <2>6, <2>7, <2>8, <2>9, <2>10,
       <2>11, <2>12, <2>13, <2>14, <2>15, <2>16, <2>17, <2>18, <2>19, <2>20,
       <2>21
    DEF ReaderStep, Poll
<1> QED BY <1>1, <1>2, <1>3, <1>4, <1>5, WhatAStepHolds DEF TailTypeOK, SnapshotInv

\* Whatever a reader's step puts in the source or in the index was published.
LEMMA HeldStep ==
  ASSUME SnapshotInv, TailTypeOK, HeldWasPublished, ReaderStep
  PROVE  HeldWasPublished'
<1>1. UNCHANGED <<generation, committed, written>> BY WhatAStepHolds DEF fetcher, vars
<1>2. Published(generation, committed) /\ Published(0, 0)
  BY VisibleIsCommitted, BoundsAssumption DEF Published, SnapshotInv, TypeOK, Generations
<1>3. Published(source'.gen, source'.size)
  BY <1>2, WhatAStepHolds, OpenedIsAll DEF HeldWasPublished
<1>4. Published(index'.gen, index'.count)
  BY <1>2, <1>3, WhatAStepHolds DEF HeldWasPublished, AllOf, NoRecords
<1>5. \A g, n : Published(g, n)' <=> Published(g, n) BY <1>1 DEF Published
<1>6. Published(source.gen, source.size)' /\ Published(index.gen, index.count)'
  BY <1>1, <1>3, <1>4 DEF Published
<1> QED BY <1>6 DEF HeldWasPublished

\* The marks of the document and of the tab move together, in every step.
LEMMA MarksStep ==
  ASSUME TailTypeOK, MarksFollow, MarksAreTrue, ReaderStep
  PROVE  MarksFollow' /\ MarksAreTrue'
<1> USE DEF Goto, marks, live, MarksFollow, MarksAreTrue
<1>a. waiting \in BOOLEAN /\ stale \in BOOLEAN BY DEF TailTypeOK
<1> USE <1>a
<1>1. CASE Prepare BY <1>1 DEF Prepare
<1>2. CASE GoneAtOpen \/ ReadyAtOpen
  <2>1. /\ pc \in {"gone", "ready"} /\ UNCHANGED <<source, settled, live>>
        /\ EnterWaitingAtOpen \/ (pc' \in {"ready", "index"} /\ UNCHANGED <<index, marks>>)
    BY <1>2 DEF GoneAtOpen, ReadyAtOpen
  <2>2. CASE EnterWaitingAtOpen
    <3>1. NoRecords = [gen |-> 0, count |-> 0] /\ NoRecords.count = 0 BY DEF NoRecords
    <3>2. /\ index' = NoRecords /\ index'.count = 0 /\ waiting' = TRUE /\ pc' = "idle"
          /\ stale' = FALSE /\ shown' = [shown EXCEPT !.waiting = TRUE]
      BY <2>2, <3>1 DEF EnterWaitingAtOpen
    <3> QED BY <2>1, <3>2
  <2>3. CASE UNCHANGED <<index, marks>> /\ pc' \in {"ready", "index"} BY <2>1, <2>3
  <2> QED BY <2>1, <2>2, <2>3
<1>3. CASE IndexFinished BY <1>3 DEF IndexFinished
<1>4. CASE StartLive BY <1>4 DEF StartLive, Baseline
<1>5. CASE SettleFirst BY <1>5 DEF SettleFirst, Resume, Baseline
<1>6. CASE Tick BY <1>6 DEF Tick
<1>7. CASE CheckReplaced BY <1>7 DEF CheckReplaced
<1>8. CASE Hold BY <1>8 DEF Hold, BeginStale
<1>9. CASE Refresh BY <1>9 DEF Refresh
<1>10. CASE Rescan BY <1>10 DEF Rescan, EndStale, Baseline
<1>11. CASE CheckVanished
  <2>1. /\ pc = "vanished" /\ UNCHANGED <<source, settled, completed, saw>>
        /\ \/ UNCHANGED <<index, marks, lastSize>> /\ pc' \in {"delivering", "idle"}
           \/ BeginStale /\ UNCHANGED <<index, waiting, lastSize>> /\ pc' = "idle"
           \/ BeginWaiting /\ pc' = "idle"
    BY <1>11 DEF CheckVanished
  <2>2. CASE UNCHANGED <<index, marks, lastSize>> /\ pc' \in {"delivering", "idle"}
    BY <2>1, <2>2
  <2>3. CASE BeginStale /\ UNCHANGED <<index, waiting, lastSize>> /\ pc' = "idle"
    BY <2>1, <2>3 DEF BeginStale
  <2>4. CASE BeginWaiting /\ pc' = "idle"
    BY <2>1, <2>4 DEF BeginWaiting, NoRecords, StaleShownInWait
  <2> QED BY <2>1, <2>2, <2>3, <2>4
<1>12. CASE CheckDelivering BY <1>12 DEF CheckDelivering, BeginStale, EndStale
<1>13. CASE Take BY <1>13 DEF Take, Ingest
<1>14. CASE Settle BY <1>14 DEF Settle, Resume, Baseline
<1>15. CASE Finish BY <1>15 DEF Finish, Finished
<1>16. CASE CheckBack BY <1>16 DEF CheckBack
<1>17. CASE CheckBackReady BY <1>17 DEF CheckBackReady
<1>18. CASE ResumeWaiting BY <1>18 DEF ResumeWaiting, Resume, Baseline
<1>19. CASE Reload \/ Reformat
  <2>1. CASE Rebuild BY <2>1 DEF Rebuild, NoRecords
  <2>2. CASE pc = "idle" /\ settled' = FALSE /\ UNCHANGED <<source, index, marks, live, pc>>
    BY <2>2
  <2> QED BY <1>19, <2>1, <2>2 DEF Reload, Reformat
<1> QED BY <1>1, <1>2, <1>3, <1>4, <1>5, <1>6, <1>7, <1>8, <1>9, <1>10,
     <1>11, <1>12, <1>13, <1>14, <1>15, <1>16, <1>17, <1>18, <1>19
  DEF ReaderStep, Poll

\* What is indexed stays a prefix of what the source holds, or a discontinuity is latched.
LEMMA PrefixStep ==
  ASSUME SnapshotInv, TailTypeOK, MarksFollow, MarksAreTrue, IndexIsPrefix, ReaderStep
  PROVE  IndexIsPrefix'
<1>a. /\ source.size \in Nat /\ index.count \in Nat /\ lastSize \in Nat
      /\ committed \in Nat
  BY VisibleIsCommitted, BoundsAssumption DEF TailTypeOK
<1>b. waiting => index.count = 0 /\ pc \in {"idle", "back", "backReady", "resume"}
  BY DEF MarksFollow, MarksAreTrue
<1>c. pc \in {"closed", "gone", "ready", "index"} => index.count = 0
  <2>1. NoRecords.count = 0 BY DEF NoRecords
  <2> QED BY <2>1 DEF MarksFollow
<1>d. pc \in {"closed", "gone", "ready"} => lastSize = 0 BY DEF MarksFollow
<1> USE <1>a, <1>b, <1>c, <1>d DEF Goto, marks, live, IndexIsPrefix
<1>1. CASE Prepare BY <1>1, OpenedIsAll DEF Prepare
<1>2. CASE GoneAtOpen \/ ReadyAtOpen
  <2>1. /\ pc \in {"gone", "ready"} /\ UNCHANGED <<source, settled, live>>
        /\ EnterWaitingAtOpen \/ (pc' \in {"ready", "index"} /\ UNCHANGED <<index, marks>>)
    BY <1>2 DEF GoneAtOpen, ReadyAtOpen
  <2>2. CASE EnterWaitingAtOpen
    <3>1. NoRecords = [gen |-> 0, count |-> 0] /\ NoRecords.count = 0 BY DEF NoRecords
    <3>2. /\ index' = NoRecords /\ index'.count = 0 /\ waiting' = TRUE /\ pc' = "idle"
          /\ stale' = FALSE /\ shown' = [shown EXCEPT !.waiting = TRUE]
      BY <2>2, <3>1 DEF EnterWaitingAtOpen
    <3> QED BY <2>1, <3>2
  <2>3. CASE UNCHANGED <<index, marks>> /\ pc' \in {"ready", "index"} BY <2>1, <2>3
  <2> QED BY <2>1, <2>2, <2>3
<1>3. CASE IndexFinished BY <1>3, OpenedIsAll DEF IndexFinished
<1>4. CASE StartLive
  <2>1. /\ pc = "start" /\ UNCHANGED <<index, settled, marks>> /\ ~waiting
        /\ index.gen = source.gen /\ index.count = source.size
        /\ source' = IF settled THEN source ELSE Refreshed
        /\ pc' = "settleFirst" \/ (pc' = "idle" /\ lastSize' = source'.size)
    BY <1>4 DEF StartLive, Baseline
  <2>2. CASE settled BY <2>1, <2>2
  <2>3. CASE ~settled
    <3>1. ~source'.truncated => source'.gen = source.gen /\ ~(source'.size < source.size)
      BY <2>1, <2>3, OpenedIsAll
    <3>2. source'.size \in Nat BY <2>1, <2>3, OpenedIsAll
    <3> QED BY <2>1, <2>3, <3>1, <3>2
  <2> QED BY <2>2, <2>3
<1>5. CASE SettleFirst
  <2>1. /\ pc = "settleFirst" /\ UNCHANGED waiting /\ pc' = "idle"
        /\ source' = Opened /\ index' = [gen |-> Opened.gen, count |-> Opened.size]
        /\ lastSize' = source'.size
    BY <1>5 DEF SettleFirst, Resume, Baseline
  <2>2. Opened.size \in Nat BY VisibleIsCommitted, OpenedIsAll
  <2>3. index'.gen = source'.gen BY <2>1
  <2>4. index'.count = lastSize' /\ index'.count = source'.size BY <2>1
  <2>5. lastSize' \in Nat BY <2>1, <2>2
  <2>6. pc' = "idle" BY <2>1
  <2> QED BY <2>3, <2>4, <2>5, <2>6
<1>6. CASE Tick BY <1>6, OpenedIsAll DEF Tick
<1>7. CASE CheckReplaced BY <1>7, OpenedIsAll DEF CheckReplaced
<1>8. CASE Hold BY <1>8, OpenedIsAll DEF Hold, BeginStale
<1>9. CASE Refresh BY <1>9, OpenedIsAll DEF Refresh
<1>10. CASE Rescan BY <1>10, OpenedIsAll DEF Rescan, EndStale, Baseline
<1>11. CASE CheckVanished
  <2>1. /\ pc = "vanished" /\ UNCHANGED <<source, settled, completed, saw>>
        /\ \/ UNCHANGED <<index, marks, lastSize>> /\ pc' \in {"delivering", "idle"}
           \/ BeginStale /\ UNCHANGED <<index, waiting, lastSize>> /\ pc' = "idle"
           \/ BeginWaiting /\ pc' = "idle"
    BY <1>11 DEF CheckVanished
  <2>2. CASE UNCHANGED <<index, marks, lastSize>> /\ pc' \in {"delivering", "idle"}
    BY <2>1, <2>2
  <2>3. CASE BeginStale /\ UNCHANGED <<index, waiting, lastSize>> /\ pc' = "idle"
    BY <2>1, <2>3 DEF BeginStale
  <2>4. CASE BeginWaiting /\ pc' = "idle"
    BY <2>1, <2>4 DEF BeginWaiting, NoRecords, StaleShownInWait
  <2> QED BY <2>1, <2>2, <2>3, <2>4
<1>12. CASE CheckDelivering
  BY <1>12, OpenedIsAll DEF CheckDelivering, BeginStale, EndStale
<1>13. CASE Take
  <2>1. pc = "take" /\ UNCHANGED <<source, settled, marks>> /\ ~waiting BY <1>13 DEF Take
  <2>2. CASE pc' = "settle" BY <2>1, <2>2
  <2>3. CASE settled /\ source.size > lastSize /\ Ingest /\ pc' = "finish"
    BY <2>1, <2>3 DEF Ingest
  <2>4. CASE /\ source.size = 0 \/ (settled /\ source.size <= lastSize)
             /\ lastSize' = source.size /\ pc' = "finish" /\ UNCHANGED index
    BY <2>1, <2>4
  <2> QED BY <1>13, <2>2, <2>3, <2>4 DEF Take
<1>14. CASE Settle BY <1>14, OpenedIsAll DEF Settle, Resume, Baseline
<1>15. CASE Finish BY <1>15, OpenedIsAll DEF Finish, Finished
<1>16. CASE CheckBack BY <1>16, OpenedIsAll DEF CheckBack
<1>17. CASE CheckBackReady BY <1>17, OpenedIsAll DEF CheckBackReady
<1>18. CASE ResumeWaiting BY <1>18, OpenedIsAll DEF ResumeWaiting, Resume, Baseline
<1>19. CASE Reload \/ Reformat
  <2>1. CASE Rebuild BY <2>1 DEF Rebuild, NoRecords
  <2>2. CASE pc = "idle" /\ settled' = FALSE /\ UNCHANGED <<source, index, marks, live, pc>>
    BY <2>2
  <2> QED BY <1>19, <2>1, <2>2 DEF Reload, Reformat
<1> QED BY <1>1, <1>2, <1>3, <1>4, <1>5, <1>6, <1>7, <1>8, <1>9, <1>10,
     <1>11, <1>12, <1>13, <1>14, <1>15, <1>16, <1>17, <1>18, <1>19
  DEF ReaderStep, Poll

\* An input seen as finished is read to its end before the reader stops watching it.
LEMMA FinishedStep ==
  ASSUME SnapshotInv, TailTypeOK, MarksFollow, MarksAreTrue, IndexIsPrefix,
         FinishedIsFinal, NothingLost, ReaderStep
  PROVE  FinishedIsFinal' /\ NothingLost'
<1>a. UNCHANGED <<state, generation, committed>> BY WhatAStepHolds DEF fetcher, vars
<1>b. /\ source.size \in Nat /\ index.count \in Nat /\ lastSize \in Nat /\ committed \in Nat
      /\ index = [gen |-> index.gen, count |-> index.count]
      /\ saw \in [finished : BOOLEAN, replaced : BOOLEAN] /\ completed \in BOOLEAN
  BY VisibleIsCommitted, BoundsAssumption DEF TailTypeOK
<1>c. waiting => pc \in {"idle", "back", "backReady", "resume"} BY DEF MarksFollow
<1>d. pc = "take" => /\ index.gen = source.gen /\ index.count <= source.size
                     /\ settled => index.count = lastSize
  BY <1>c DEF IndexIsPrefix
<1> USE <1>a, <1>b, <1>c, <1>d DEF Goto, marks, live, FinishedIsFinal, NothingLost
<1>1. CASE Prepare BY <1>1, OpenedIsAll DEF Prepare
<1>2. CASE GoneAtOpen \/ ReadyAtOpen
  <2>1. /\ pc \in {"gone", "ready"} /\ UNCHANGED <<source, settled, live>>
        /\ EnterWaitingAtOpen \/ (pc' \in {"ready", "index"} /\ UNCHANGED <<index, marks>>)
    BY <1>2 DEF GoneAtOpen, ReadyAtOpen
  <2>2. CASE EnterWaitingAtOpen
    <3>1. NoRecords = [gen |-> 0, count |-> 0] /\ NoRecords.count = 0 BY DEF NoRecords
    <3>2. /\ index' = NoRecords /\ index'.count = 0 /\ waiting' = TRUE /\ pc' = "idle"
          /\ stale' = FALSE /\ shown' = [shown EXCEPT !.waiting = TRUE]
      BY <2>2, <3>1 DEF EnterWaitingAtOpen
    <3> QED BY <2>1, <3>2
  <2>3. CASE UNCHANGED <<index, marks>> /\ pc' \in {"ready", "index"} BY <2>1, <2>3
  <2> QED BY <2>1, <2>2, <2>3
<1>3. CASE IndexFinished BY <1>3, OpenedIsAll DEF IndexFinished
<1>4. CASE StartLive BY <1>4, OpenedIsAll DEF StartLive, Baseline
<1>5. CASE SettleFirst BY <1>5, OpenedIsAll DEF SettleFirst, Resume, Baseline
<1>6. CASE Tick BY <1>6, OpenedIsAll DEF Tick
<1>7. CASE CheckReplaced BY <1>7, OpenedIsAll DEF CheckReplaced
<1>8. CASE Hold BY <1>8, OpenedIsAll DEF Hold, BeginStale
<1>9. CASE Refresh BY <1>9, OpenedIsAll DEF Refresh
<1>10. CASE Rescan BY <1>10, OpenedIsAll DEF Rescan, EndStale, Baseline
<1>11. CASE CheckVanished
  <2>1. /\ pc = "vanished" /\ UNCHANGED <<source, settled, completed, saw>>
        /\ \/ UNCHANGED <<index, marks, lastSize>> /\ pc' \in {"delivering", "idle"}
           \/ BeginStale /\ UNCHANGED <<index, waiting, lastSize>> /\ pc' = "idle"
           \/ BeginWaiting /\ pc' = "idle"
    BY <1>11 DEF CheckVanished
  <2>2. CASE UNCHANGED <<index, marks, lastSize>> /\ pc' \in {"delivering", "idle"}
    BY <2>1, <2>2
  <2>3. CASE BeginStale /\ UNCHANGED <<index, waiting, lastSize>> /\ pc' = "idle"
    BY <2>1, <2>3 DEF BeginStale
  <2>4. CASE BeginWaiting /\ pc' = "idle"
    BY <2>1, <2>4 DEF BeginWaiting, NoRecords, StaleShownInWait
  <2> QED BY <2>1, <2>2, <2>3, <2>4
<1>12. CASE CheckDelivering
  BY <1>12, OpenedIsAll DEF CheckDelivering, BeginStale, EndStale
<1>13. CASE Take BY <1>13, OpenedIsAll DEF Take, Ingest
<1>14. CASE Settle BY <1>14, OpenedIsAll DEF Settle, Resume, Baseline
<1>15. CASE Finish BY <1>15, OpenedIsAll DEF Finish, Finished
<1>16. CASE CheckBack BY <1>16, OpenedIsAll DEF CheckBack
<1>17. CASE CheckBackReady BY <1>17, OpenedIsAll DEF CheckBackReady
<1>18. CASE ResumeWaiting BY <1>18, OpenedIsAll DEF ResumeWaiting, Resume, Baseline
<1>19. CASE Reload \/ Reformat
  <2>1. CASE Rebuild BY <2>1 DEF Rebuild, NoRecords
  <2>2. CASE pc = "idle" /\ settled' = FALSE /\ UNCHANGED <<source, index, marks, live, pc>>
    BY <2>2
  <2> QED BY <1>19, <2>1, <2>2 DEF Reload, Reformat
<1> QED BY <1>1, <1>2, <1>3, <1>4, <1>5, <1>6, <1>7, <1>8, <1>9, <1>10,
     <1>11, <1>12, <1>13, <1>14, <1>15, <1>16, <1>17, <1>18, <1>19
  DEF ReaderStep, Poll

\* A scan that is cancelled: part of the records, and a fetcher told to stop.
LEMMA CancelStep ==
  ASSUME TailInv, NEW n \in 0 .. MaxSize, IndexCancelled(n)
  PROVE  TailInv'
<1> USE DEF IndexCancelled, Goto, marks, live
<1>1. SnapshotInv /\ TailTypeOK BY DEF TailInv, TailShape, SnapshotInv, TailTypeOK
<1>2. UNCHANGED <<generation, committed, written>> /\ (state = "Complete" => state' = state)
  BY DEF RequestStop, fetcher, vars
<1>3. SnapshotInv' BY <1>1, NextSnapshot DEF Next, fetcher, vars
<1>4. TailTypeOK'
  <2>1. index' \in [gen : Generations, count : 0 .. MaxSize] BY <1>1 DEF TailTypeOK
  <2> QED BY <1>1, <1>3, <2>1 DEF TailTypeOK, SnapshotInv, PCs
<1>5. HeldWasPublished'
  <2>1. n <= source.size /\ source.size \in Nat /\ n \in Nat
    BY <1>1, BoundsAssumption DEF TailTypeOK
  <2>2. committed \in Nat /\ written[source.gen] \in Nat
    BY <1>1, BoundsAssumption DEF TailTypeOK, TypeOK
  <2>3. index'.gen = source.gen /\ index'.count = n /\ source' = source OBVIOUS
  <2> QED BY <1>2, <2>1, <2>2, <2>3 DEF TailInv, TailShape, HeldWasPublished, Published
<1>6. MarksFollow' /\ MarksAreTrue' BY DEF TailInv, TailShape, MarksFollow, MarksAreTrue
<1>7. IndexIsPrefix' BY DEF IndexIsPrefix
<1>8. FinishedIsFinal' /\ NothingLost'
  BY <1>1, <1>2 DEF TailInv, TailShape, FinishedIsFinal, NothingLost, TailTypeOK
<1> QED BY <1>3, <1>4, <1>5, <1>6, <1>7, <1>8 DEF TailInv, TailShape, SnapshotInv

\* The fetcher moves: connects, begins a generation, writes, commits, completes, stops.
LEMMA FetcherStep ==
  ASSUME TailInv, Next, UNCHANGED tailVars
  PROVE  TailInv'
<1> USE DEF TailInv, TailShape
<1>1. SnapshotInv /\ SnapshotInv' BY NextSnapshot DEF TailTypeOK, SnapshotInv
<1>2. TailTypeOK' BY <1>1 DEF TailTypeOK, SnapshotInv, tailVars, live, marks
<1>3. HeldWasPublished'
  BY <1>1, PublishedStays DEF HeldWasPublished, TailTypeOK, tailVars, live, marks, Published
<1>4. MarksFollow' /\ IndexIsPrefix' /\ MarksAreTrue'
  BY DEF MarksFollow, IndexIsPrefix, MarksAreTrue, tailVars, live, marks
<1>5. FinishedIsFinal' /\ NothingLost'
  BY <1>1, StepKeeps DEF FinishedIsFinal, NothingLost, tailVars, live, marks
<1> QED BY <1>1, <1>2, <1>3, <1>4, <1>5 DEF SnapshotInv

\* A tab that is not opened yet holds nothing.
LEMMA InitTail == TailInit => TailInv
<1> SUFFICES ASSUME TailInit PROVE TailInv OBVIOUS
<1>1. SnapshotInv /\ generation = 0 /\ committed = 0 BY InitSnapshot DEF TailInit, Init
<1>2. 0 \in Generations /\ 0 \in 0 .. MaxSize BY BoundsAssumption DEF Generations
<1>3. TailTypeOK BY <1>1, <1>2 DEF TailInit, TailTypeOK, SnapshotInv, NoRecords, PCs
<1>4. HeldWasPublished BY <1>1 DEF TailInit, HeldWasPublished, Published, NoRecords
<1>5. MarksFollow /\ IndexIsPrefix /\ FinishedIsFinal
  BY DEF TailInit, MarksFollow, IndexIsPrefix, FinishedIsFinal
<1>6. NothingLost /\ MarksAreTrue BY DEF TailInit, NothingLost, MarksAreTrue, NoRecords
<1> QED BY <1>1, <1>3, <1>4, <1>5, <1>6 DEF TailInv, TailShape, SnapshotInv

\* Every step keeps the invariant.
LEMMA NextTail == TailInv /\ [TailNext]_allVars => TailInv'
<1> SUFFICES ASSUME TailInv, [TailNext]_allVars PROVE TailInv' OBVIOUS
<1>1. CASE ReaderStep
  <2>1. SnapshotInv BY DEF TailInv, TailShape, TailTypeOK, SnapshotInv
  <2> QED
    BY <1>1, <2>1, TypeStep, HeldStep, MarksStep, PrefixStep, FinishedStep
    DEF TailInv, TailShape
<1>2. CASE Next /\ UNCHANGED tailVars BY <1>2, FetcherStep
<1>3. ASSUME NEW n \in 0 .. MaxSize, IndexCancelled(n) PROVE TailInv' BY <1>3, CancelStep
<1>4. CASE UNCHANGED allVars
  <2> USE <1>4 DEF allVars, tailVars, fetcher, vars, live, marks, TailInv, TailShape
  <2>1. TailTypeOK' /\ NoTornChunk' BY DEF TailTypeOK, TypeOK, NoTornChunk
  <2>2. HeldWasPublished' BY DEF HeldWasPublished, Published
  <2>3. MarksFollow' /\ IndexIsPrefix' /\ FinishedIsFinal' /\ NothingLost' /\ MarksAreTrue'
    BY DEF MarksFollow, IndexIsPrefix, FinishedIsFinal, NothingLost, MarksAreTrue
  <2> QED BY <2>1, <2>2, <2>3
<1> QED BY <1>1, <1>2, <1>3, <1>4 DEF TailNext, User, ReaderStep

\* What the invariant says of a document between two ticks.
LEMMA BetweenTicks == TailInv => IndexMatchesSource
<1> SUFFICES ASSUME TailInv PROVE IndexMatchesSource OBVIOUS
<1> USE DEF TailInv, TailShape
<1>1. source.size <= IF source.gen = generation THEN committed ELSE written[source.gen]
  BY DEF HeldWasPublished, Published
<1>2. ASSUME pc = "idle", settled, ~source.truncated
      PROVE  /\ index.count > 0 => index.gen = source.gen
             /\ index.count = lastSize /\ lastSize <= source.size
  <2>1. index.count \in Nat BY BoundsAssumption DEF TailTypeOK
  <2> QED BY <1>2, <2>1 DEF IndexIsPrefix, MarksAreTrue
<1> QED BY <1>1, <1>2 DEF IndexMatchesSource

\* Whatever the fetcher and the user do: no record is skipped, read twice or read
\* before its bytes landed, a document that stopped watching has every byte of its
\* input (checkNow(), isComplete()), and the tab's marks say what it shows.
THEOREM TailSafe == TailSpec => [](IndexMatchesSource /\ NothingLost /\ MarksAreTrue)
<1>1. TailInv => IndexMatchesSource /\ NothingLost /\ MarksAreTrue
  BY BetweenTicks DEF TailInv
<1> QED BY <1>1, InitTail, NextTail, PTL DEF TailSpec

\* The parts the promises rest on hold as well: the type invariant, what is held was
\* published, and what every point of a tick knows (checkNow()).
THEOREM TailShaped == TailSpec => []TailShape
<1>1. TailInv => TailShape BY DEF TailInv
<1> QED BY <1>1, InitTail, NextTail, PTL DEF TailSpec

\* A reader's step takes records away only to start a scan over, or to read another
\* generation.
LEMMA GrowStep ==
  ASSUME TailInv, ReaderStep, index'.gen = index.gen \/ index' = NoRecords
  PROVE  index'.count >= index.count \/ pc' \in {"index", "unwatched"}
<1> USE DEF Goto, marks
<1>1. /\ SnapshotInv /\ HeldWasPublished /\ MarksFollow
      /\ index.count \in Nat /\ index.gen \in Nat /\ generation \in Nat /\ committed \in Nat
  BY BoundsAssumption DEF TailInv, TailShape, TailTypeOK, SnapshotInv, TypeOK, Generations
<1>2. ASSUME index' = AllOf(Opened) PROVE index'.count >= index.count
  <2>1. index'.gen = generation /\ index'.count = committed
    BY <1>1, <1>2, OpenedIsAll DEF AllOf
  <2>2. index.gen = generation => index.count <= committed
    BY <1>1 DEF HeldWasPublished, Published
  <2>3. index' = NoRecords => index.gen = generation
    <3>1. index' = NoRecords => generation = 0 BY <2>1 DEF NoRecords
    <3> QED BY <1>1, <3>1 DEF HeldWasPublished, Published
  <2> QED BY <1>1, <2>1, <2>2, <2>3
<1>3. CASE UNCHANGED index BY <1>1, <1>3
<1>4. CASE SettleFirst \/ Rescan \/ Settle \/ ResumeWaiting
  BY <1>2, <1>4 DEF SettleFirst, Rescan, Settle, ResumeWaiting, Resume, AllOf
<1>5. CASE GoneAtOpen \/ ReadyAtOpen \/ IndexFinished
  <2>1. pc \in {"gone", "ready", "index"}
    BY <1>5 DEF GoneAtOpen, ReadyAtOpen, IndexFinished
  <2>2. index.count = 0 BY <1>1, <2>1 DEF MarksFollow, NoRecords
  <2>3. index'.count \in Nat
    BY TypeStep, <1>1, BoundsAssumption DEF TailInv, TailShape, TailTypeOK
  <2> QED BY <2>2, <2>3
<1>6. CASE CheckVanished
  <2>1. CASE BeginWaiting /\ ~CanShowCachedWhileGone
    <3>1. index.count = 0 /\ index'.count = 0
      BY <1>1, <2>1 DEF BeginWaiting, CanShowCachedWhileGone, NoRecords
    <3> QED BY <3>1
  <2> QED BY <1>3, <1>6, <2>1 DEF CheckVanished
<1>7. CASE Take
  <2>1. CASE source.size > index.count /\ index' = [gen |-> source.gen, count |-> source.size]
    <3>1. index'.count = source.size BY <2>1
    <3>2. source.size \in Nat BY BoundsAssumption DEF TailInv, TailShape, TailTypeOK
    <3> QED BY <1>1, <2>1, <3>1, <3>2
  <2> QED BY <1>3, <1>7, <2>1 DEF Take, Ingest
<1>8. CASE Reload \/ Reformat BY <1>3, <1>8 DEF Reload, Reformat, Rebuild
<1> QED
  BY <1>3, <1>4, <1>5, <1>6, <1>7, <1>8
  DEF ReaderStep, Poll, Prepare, StartLive, Tick, CheckReplaced, Hold, Refresh,
      CheckDelivering, Finish, CheckBack, CheckBackReady

\* No outage, rotation or wait takes a record away while its generation is the one
\* being shown (checkNow(), beginWaiting()): only a scan the user starts over or
\* cancels does.
THEOREM RecordsKept == TailSpec => RecordsOnlyGrow
<1>1. TailInv /\ [TailNext]_allVars =>
        [index'.gen = index.gen \/ index' = NoRecords =>
           \/ index'.count >= index.count
           \/ pc' \in {"index", "unwatched"}]_allVars
  <2> SUFFICES ASSUME TailInv, TailNext, index'.gen = index.gen \/ index' = NoRecords
               PROVE  index'.count >= index.count \/ pc' \in {"index", "unwatched"}
    OBVIOUS
  <2>1. CASE ReaderStep BY <2>1, GrowStep
  <2>2. CASE Next /\ UNCHANGED tailVars
    <3>1. index' = index /\ index.count \in Nat
      BY <2>2, BoundsAssumption DEF tailVars, TailInv, TailShape, TailTypeOK
    <3> QED BY <3>1
  <2>3. ASSUME NEW n \in 0 .. MaxSize, IndexCancelled(n) PROVE pc' = "unwatched"
    BY <2>3 DEF IndexCancelled, Goto
  <2> QED BY <2>1, <2>2, <2>3 DEF TailNext, User, ReaderStep
<1> QED BY <1>1, InitTail, NextTail, PTL DEF TailSpec, RecordsOnlyGrow
==============================================================================
