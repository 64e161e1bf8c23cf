----------------------------- MODULE SpooledTail -----------------------------
(***************************************************************************)
(* A document that reads a spool another thread is filling: SpooledLog-    *)
(* Source, the Document that indexes it, the LiveController that polls it  *)
(* and the handlers of MainWindow between them.  The fetcher is any that   *)
(* keeps the contract of SourceFetcher, and it moves between any two reads *)
(* of its status: LiveController::checkNow() reads it up to six times, and *)
(* every read is a step of its own here.                                   *)
(*                                                                         *)
(* A record is one byte of the spool; what is decoded from it, how it is   *)
(* filtered and the wording of a reason are left out.                      *)
(***************************************************************************)
EXTENDS SourceFetcher

VARIABLES
  source,     \* the open SpooledLogSource: [gen, size, truncated]
  index,      \* the records read: the first `count' bytes of generation `gen'
  settled,    \* Document::m_formatSettled
  waiting,    \* Document::m_waiting
  stale,      \* Document::m_stale
  lastSize,   \* LiveController::m_lastSize
  completed,  \* LiveController::m_completed
  vanishing,  \* LiveController::m_vanishedSince is running
  shown,      \* what the tab shows: [waiting, stale]
  pc,         \* where the document's thread stands between two status reads
  saw         \* checkNow()'s locals: [finished, replaced]

fetcher   == vars
live      == <<lastSize, completed, vanishing, saw>>
marks     == <<waiting, stale, shown>>
tailVars  == <<source, index, settled, marks, live, pc>>
allVars   == <<fetcher, tailVars>>

PCs == {"closed", "gone", "ready", "index", "start", "settleFirst",
        "idle", "replaced", "hold", "refresh", "rescan", "vanished", "delivering",
        "take", "settle", "finish", "back", "backReady", "resume", "unwatched"}

TailTypeOK ==
  /\ TypeOK
  /\ source \in [gen : Generations, size : 0 .. MaxSize, truncated : BOOLEAN]
  /\ index \in [gen : Generations, count : 0 .. MaxSize]
  /\ settled \in BOOLEAN /\ waiting \in BOOLEAN /\ stale \in BOOLEAN
  /\ lastSize \in 0 .. MaxSize /\ completed \in BOOLEAN /\ vanishing \in BOOLEAN
  /\ shown \in [waiting : BOOLEAN, stale : BOOLEAN]
  /\ pc \in PCs /\ saw \in [finished : BOOLEAN, replaced : BOOLEAN]

NoRecords == [gen |-> 0, count |-> 0]

TailInit ==
  /\ Init
  /\ source = [gen |-> 0, size |-> 0, truncated |-> FALSE]
  /\ index = NoRecords /\ settled = FALSE /\ waiting = FALSE /\ stale = FALSE
  /\ lastSize = 0 /\ completed = FALSE /\ vanishing = FALSE
  /\ shown = [waiting |-> FALSE, stale |-> FALSE]
  /\ pc = "closed" /\ saw = [finished |-> FALSE, replaced |-> FALSE]

------------------------------------------------------------------------------
(* SpooledLogSource *)

\* How many bytes of generation g a source may read when the status it holds is
\* this one: what has landed in the file, clamped to what is published.
\* Mutant: the file's own size.
VisibleUnclamped(g) == written[g]

Visible(g) == IF written[g] < committed THEN written[g] ELSE committed

\* open(): a fresh source adopts the current generation and starts clean.
Opened == [gen |-> generation, size |-> Visible(generation), truncated |-> FALSE]

\* refreshSize(): adopts a generation the fetcher has moved to, and latches the
\* discontinuity.
Refreshed ==
  [gen |-> generation,
   size |-> Visible(generation),
   truncated |-> \/ source.truncated
                 \/ generation # source.gen
                 \/ Visible(generation) < source.size]

WasReplaced == generation # source.gen

OriginVanished == state = "Waiting"

NotReadyYet == committed = 0 /\ state \in {"Idle", "Connecting", "Priming", "Error"}

\* Mutant: an input read to its end counts as one that stopped delivering.
DeliveringLiveOnly == state = "Live"

IsDelivering == state \in {"Live", "Complete"}

\* isComplete() as checkNow() has it at the end of a tick: the answer read before
\* refreshSize().
\* Mutant: read at the end, after the size it would vouch for.
FinishedNow == state = "Complete"

Finished == saw.finished

------------------------------------------------------------------------------
(* Document and LiveController, the parts several steps share *)

Goto(p) == pc' = p

\* endStale(): the mark comes off the document and off the tab.
EndStale == stale' = FALSE /\ shown' = [shown EXCEPT !.stale = FALSE]

\* beginStale() -> Document::enterStale(), which a waiting document refuses.
BeginStale == IF waiting THEN UNCHANGED <<stale, shown>>
              ELSE stale' = TRUE /\ shown' = [shown EXCEPT !.stale = TRUE]

\* What the stale mark of the tab becomes when a wait begins: endStale() runs first.
\* Mutant: only the document's own flag is cleared, as enterWaiting() does.
StaleLeftShown == shown.stale

StaleShownInWait == FALSE

\* A document that has records from a spool keeps showing them.
\* Mutant: every document waits.
NeverShowsCached == FALSE

CanShowCachedWhileGone == index.count > 0

\* syncBaseline() after the source was replaced by s.
\* Mutant: the baseline of the old file is kept.
BaselineKept(s) == UNCHANGED lastSize

Baseline(s) == lastSize' = s.size

\* resume(): the source is reopened and read from the top; a first byte settles
\* the format.
Resume == /\ source' = Opened
          /\ index' = [gen |-> Opened.gen, count |-> Opened.size]
          /\ settled' = (settled \/ Opened.size > 0)

\* ingestAppended(): what the source has past the last record is appended to the
\* index, and the baseline follows.
Ingest == /\ index' = IF source.size > index.count
                        THEN [gen |-> source.gen, count |-> source.size] ELSE index
          /\ lastSize' = IF source.size > index.count THEN source.size ELSE lastSize

------------------------------------------------------------------------------
(* Opening, and the initial scan on its own thread *)

\* prepare(): the source is opened and a first byte settles the format.
Prepare == /\ pc = "closed" /\ state # "Idle"
           /\ source' = Opened /\ settled' = (Opened.size > 0)
           /\ Goto("gone")
           /\ UNCHANGED <<fetcher, index, marks, live>>

\* prepare() -> enterWaiting(): nothing to read yet; the tab is watched at once.
EnterWaitingAtOpen == /\ waiting' = TRUE /\ stale' = FALSE
                      /\ shown' = [shown EXCEPT !.waiting = TRUE]
                      /\ index' = NoRecords /\ Goto("idle")

GoneAtOpen == /\ pc = "gone"
              /\ IF OriginVanished THEN EnterWaitingAtOpen
                 ELSE Goto("ready") /\ UNCHANGED <<index, marks>>
              /\ UNCHANGED <<fetcher, source, settled, live>>

ReadyAtOpen == /\ pc = "ready"
               /\ IF NotReadyYet THEN EnterWaitingAtOpen
                  ELSE Goto("index") /\ UNCHANGED <<index, marks>>
               /\ UNCHANGED <<fetcher, source, settled, live>>

\* IndexController::onFinished() -> onIndexFinished(): the scan covered the size
\* the source had when it was opened; a new LiveController watches the document.
IndexFinished == /\ pc = "index"
                 /\ index' = [gen |-> source.gen, count |-> source.size]
                 /\ Goto("start")
                 /\ UNCHANGED <<fetcher, source, settled, marks, live>>

\* The user cancels the scan: some records are in, the fetcher is told to stop,
\* and nothing watches the document.
IndexCancelled(n) == /\ pc = "index" /\ n \in 0 .. source.size
                     /\ index' = [gen |-> source.gen, count |-> n]
                     /\ RequestStop \/ (stopping /\ UNCHANGED fetcher)
                     /\ Goto("unwatched")
                     /\ UNCHANGED <<source, settled, marks, live>>

\* LiveController::start(): bytes that came during the scan may settle the format.
StartLive == /\ pc = "start"
             /\ source' = IF settled THEN source ELSE Refreshed
             /\ IF ~settled /\ Refreshed.size > 0
                  THEN Goto("settleFirst") /\ UNCHANGED lastSize
                  ELSE Goto("idle") /\ Baseline(source')
             /\ UNCHANGED <<fetcher, index, settled, marks, completed, vanishing, saw>>

SettleFirst == /\ pc = "settleFirst"
               /\ Resume /\ Baseline(source') /\ Goto("idle")
               /\ shown' = [shown EXCEPT !.waiting = FALSE]
               /\ UNCHANGED <<fetcher, waiting, stale, completed, vanishing, saw>>

------------------------------------------------------------------------------
(* LiveController::checkNow(), one step per read of the fetcher's status *)

\* isComplete() is read first.
Tick == /\ pc = "idle" /\ ~completed
        /\ IF waiting THEN Goto("back") /\ UNCHANGED saw
           ELSE /\ saw' = [saw EXCEPT !.finished = (state = "Complete")]
                /\ Goto("replaced")
        /\ UNCHANGED <<fetcher, source, index, settled, marks, lastSize, completed, vanishing>>

CheckReplaced == /\ pc = "replaced"
                 /\ saw' = [saw EXCEPT !.replaced = WasReplaced]
                 /\ Goto(IF WasReplaced /\ stale THEN "hold" ELSE "refresh")
                 /\ UNCHANGED <<fetcher, source, index, settled, marks, lastSize,
                                completed, vanishing>>

\* A reconnect that has delivered nothing is not a rotation to act on: the
\* cached records stay up.
Hold == /\ pc = "hold"
        /\ IF NotReadyYet THEN BeginStale /\ Goto("idle")
           ELSE Goto("refresh") /\ UNCHANGED <<stale, shown>>
        /\ UNCHANGED <<fetcher, source, index, settled, waiting, live>>

Refresh == /\ pc = "refresh"
           /\ source' = Refreshed
           /\ Goto(IF saw.replaced \/ Refreshed.truncated \/ Refreshed.size < lastSize
                     THEN "rescan" ELSE "vanished")
           /\ UNCHANGED <<fetcher, index, settled, marks, live>>

\* endStale(), then doRescan(): reopened and read from the top.
Rescan == /\ pc = "rescan"
          /\ EndStale
          /\ source' = Opened
          /\ index' = [gen |-> Opened.gen, count |-> Opened.size]
          /\ Baseline(Opened) /\ vanishing' = FALSE /\ Goto("idle")
          /\ UNCHANGED <<fetcher, settled, waiting, completed, saw>>

\* beginWaiting(): the records go and the reason takes their place.
BeginWaiting == /\ waiting' = TRUE /\ stale' = FALSE
                /\ shown' = [waiting |-> TRUE, stale |-> StaleShownInWait]
                /\ index' = NoRecords /\ lastSize' = 0 /\ vanishing' = FALSE

\* originVanished(): within the grace nothing happens; past it the records are
\* cached ones, or there are none and the document waits.
CheckVanished ==
  /\ pc = "vanished"
  /\ \/ /\ ~OriginVanished
        /\ vanishing' = FALSE /\ Goto("delivering")
        /\ UNCHANGED <<index, marks, lastSize>>
     \/ /\ OriginVanished /\ vanishing' = TRUE /\ Goto("idle")
        /\ UNCHANGED <<index, marks, lastSize>>
     \/ /\ OriginVanished /\ CanShowCachedWhileGone
        /\ BeginStale /\ vanishing' = TRUE /\ Goto("idle")
        /\ UNCHANGED <<index, waiting, lastSize>>
     \/ /\ OriginVanished /\ ~CanShowCachedWhileGone
        /\ BeginWaiting /\ Goto("idle")
  /\ UNCHANGED <<fetcher, source, settled, completed, saw>>

\* Only an input that delivers again takes the mark off.
CheckDelivering == /\ pc = "delivering"
                   /\ IF stale /\ ~IsDelivering THEN BeginStale ELSE EndStale
                   /\ Goto("take")
                   /\ UNCHANGED <<fetcher, source, index, settled, waiting, live>>

Take == /\ pc = "take"
        /\ \/ /\ ~settled /\ source.size > 0
              /\ Goto("settle") /\ UNCHANGED <<index, lastSize>>
           \/ /\ settled /\ source.size > lastSize
              /\ Ingest /\ Goto("finish")
           \/ /\ source.size = 0 \/ (settled /\ source.size <= lastSize)
              /\ lastSize' = source.size /\ Goto("finish") /\ UNCHANGED index
        /\ UNCHANGED <<fetcher, source, settled, marks, completed, vanishing, saw>>

\* settleFirstBytes(): a log that opened empty is reopened for its first bytes.
Settle == /\ pc = "settle"
          /\ Resume /\ Goto("finish")
          /\ IF settled' THEN Baseline(source') ELSE UNCHANGED lastSize
          /\ shown' = [shown EXCEPT !.waiting = FALSE]
          /\ UNCHANGED <<fetcher, waiting, stale, completed, vanishing, saw>>

\* The end of a tick: an input that was finished before the size was read has
\* been read to its end, and is watched no more.
Finish == /\ pc = "finish"
          /\ completed' = Finished
          /\ Goto("idle")
          /\ UNCHANGED <<fetcher, source, index, settled, marks, lastSize, vanishing, saw>>

------------------------------------------------------------------------------
(* LiveController::checkWhileWaiting() *)

CheckBack == /\ pc = "back"
             /\ Goto(IF OriginVanished THEN "idle" ELSE "backReady")
             /\ UNCHANGED <<fetcher, source, index, settled, marks, live>>

CheckBackReady == /\ pc = "backReady"
                  /\ Goto(IF NotReadyYet THEN "idle" ELSE "resume")
                  /\ vanishing' = IF NotReadyYet THEN vanishing ELSE FALSE
                  /\ UNCHANGED <<fetcher, source, index, settled, marks, lastSize,
                                 completed, saw>>

\* resumeRequested() -> resumeOrSettleDocument() -> resume().
ResumeWaiting == /\ pc = "resume"
                 /\ Resume /\ Baseline(source') /\ waiting' = FALSE
                 /\ shown' = [shown EXCEPT !.waiting = FALSE]
                 /\ Goto("idle")
                 /\ UNCHANGED <<fetcher, stale, completed, vanishing, saw>>

------------------------------------------------------------------------------
(* What the user does: only between two events of the document's thread *)

\* rebuildDocument(): the workers are stopped, the source is reopened, its index
\* starts over and a new controller will watch it.  The stale mark stays as it is.
Rebuild == /\ pc \in {"idle", "index", "unwatched"} /\ ~waiting
           /\ source' = Opened /\ index' = NoRecords /\ Goto("index")
           /\ lastSize' = 0 /\ completed' = FALSE /\ vanishing' = FALSE
           /\ saw' = [finished |-> FALSE, replaced |-> FALSE]
           /\ UNCHANGED <<fetcher, marks>>

\* View > Reload of a document that is not waiting; one that is pokes its
\* fetcher, which changes nothing here.
Reload == Rebuild /\ UNCHANGED settled

\* File > Preferences: another pattern or encoding.  The format settles again now
\* or, for a document that waits, when its log arrives.
Reformat == \/ Rebuild /\ settled' = (Opened.size > 0)
            \/ /\ pc = "idle" /\ waiting /\ settled /\ settled' = FALSE
               /\ UNCHANGED <<fetcher, source, index, marks, live, pc>>

------------------------------------------------------------------------------
Poll == \/ GoneAtOpen \/ ReadyAtOpen \/ IndexFinished \/ StartLive \/ SettleFirst
        \/ Tick \/ CheckReplaced \/ Hold \/ Refresh \/ Rescan \/ CheckVanished
        \/ CheckDelivering \/ Take \/ Settle \/ Finish
        \/ CheckBack \/ CheckBackReady \/ ResumeWaiting

User == Prepare \/ Reload \/ Reformat \/ \E n \in 0 .. MaxSize : IndexCancelled(n)

TailNext == \/ Next /\ UNCHANGED tailVars
            \/ Poll
            \/ User

TailSpec == TailInit /\ [][TailNext]_allVars

\* The poll timer fires every 750 ms (LiveWatcher) and the index worker ends.
\* Nothing is assumed of the fetcher or of the user.
TailFairSpec == TailSpec /\ WF_allVars(Poll)

------------------------------------------------------------------------------
(* Properties *)

\* The source never reaches past what is published, and between two ticks the
\* baseline is exactly what is indexed, of the file the source reads: no byte is
\* skipped, indexed twice or read before its write landed (checkNow(),
\* refreshSize()).  Where that is not so a discontinuity is latched or the format
\* is still to settle, and the next tick starts over.
IndexMatchesSource ==
  /\ source.size <= IF source.gen = generation THEN committed ELSE written[source.gen]
  /\ (pc = "idle" /\ settled /\ ~source.truncated) =>
       /\ index.count > 0 => index.gen = source.gen
       /\ index.count = lastSize /\ lastSize <= source.size

\* A document that stopped watching because its input ended has every byte of it:
\* Complete is read before the size (checkNow(), isComplete()).
NothingLost == completed => index = [gen |-> generation, count |-> committed]

\* A document is never both waiting and showing cached records, one that waits has
\* no records, and the tab's marks say which it is whenever the thread is idle.
MarksAreTrue ==
  /\ ~(waiting /\ stale)
  /\ waiting => index.count = 0
  /\ pc \in {"idle", "unwatched"} => shown = [waiting |-> waiting, stale |-> stale]

\* What the properties above rest on, inductive together with them.  What a source
\* or an index holds was published for its generation, now or before.
Published(g, n) == /\ g <= generation
                   /\ n <= IF g = generation THEN committed ELSE written[g]

HeldWasPublished == /\ Published(source.gen, source.size)
                    /\ Published(index.gen, index.count)

\* A wait is entered and left only between two reads of a tick, the tab is told in
\* the same step, and a document that has not opened or is scanned has no records.
MarksFollow ==
  /\ shown = [waiting |-> waiting, stale |-> stale]
  /\ waiting => pc \in {"idle", "back", "backReady", "resume"}
  /\ pc \in {"closed", "gone", "ready"} => ~stale /\ lastSize = 0
  /\ pc \in {"closed", "gone", "ready", "index"} => index = NoRecords

\* A tick that goes on from its refresh has a source without a discontinuity, and
\* without one the index is a prefix of what the source holds.
IndexIsPrefix ==
  /\ pc \in {"vanished", "delivering", "take"} => ~source.truncated
  /\ pc = "start" => index = [gen |-> source.gen, count |-> source.size]
  /\ (/\ pc \in {"idle", "replaced", "hold", "refresh", "vanished", "delivering",
                  "take", "finish", "back", "backReady", "resume"}
      /\ ~source.truncated) =>
       /\ ~waiting => index.gen = source.gen
       /\ index.count <= source.size
       /\ settled => index.count = lastSize

\* An input seen as finished stays so, and from the refresh on the tick that saw it
\* holds all of it.
FinishedIsFinal ==
  /\ saw.finished => state = "Complete"
  /\ completed => saw.finished /\ pc = "idle"
  /\ (saw.finished /\ pc \in {"vanished", "delivering", "take", "settle", "finish"})
       => source.gen = generation /\ source.size = committed
  /\ (saw.finished /\ pc = "finish") => index = [gen |-> generation, count |-> committed]

\* The state of a document a tick can rely on at each of its steps: the types, and
\* what is known there of the source, the index and the marks (checkNow()).
TailShape == /\ TailTypeOK /\ NoTornChunk /\ HeldWasPublished
             /\ MarksFollow /\ IndexIsPrefix /\ FinishedIsFinal

\* The inductive invariant: the above and the promises that hold at every step.
TailInv == TailShape /\ NothingLost /\ MarksAreTrue

\* No outage takes a record away while the generation it was read from is the one
\* being shown: only a reload the user asked for starts over.
RecordsOnlyGrow ==
  [][index'.gen = index.gen \/ index' = NoRecords =>
       \/ index'.count >= index.count
       \/ pc' \in {"index", "unwatched"}]_allVars

\* A rotation found under cached records is acted on for records, or for a log that
\* is known to be empty: "a reconnect that has not delivered a byte yet is not a
\* rotation to act on" (checkNow()).
CachedRecordsStay ==
  [][(pc = "rescan" /\ stale /\ saw.replaced /\ index.count > 0) =>
       index'.count > 0 \/ state \in {"Live", "Complete"}]_allVars

\* The document shows everything the fetcher published, under no mark.
UpToDate == /\ index.count = committed /\ (committed > 0 => index.gen = generation)
            /\ ~waiting /\ ~stale /\ shown = [waiting |-> FALSE, stale |-> FALSE]

\* Once the fetcher follows its input, or is done with it, and nobody reloads or
\* cancels any more, the document ends up showing all of it: whatever outages,
\* rotations and waits came before.
CatchesUp ==
  <>[](state \in {"Live", "Complete"} /\ pc \notin {"index", "unwatched"})
    => <>[](pc = "idle" => UpToDate)
==============================================================================
