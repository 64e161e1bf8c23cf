----------------------------- MODULE ConfigPage -----------------------------
(***************************************************************************)
(* A config file open for editing: the page (ConfigView), the watcher that *)
(* looks at the file behind it (ConfigChangeWatcher), and the window's     *)
(* save and close (MainWindow).  The file is on this machine, where a read *)
(* and a write are calls, or on another one, where each is an errand whose *)
(* answer lands on a later turn and a write is in place.                   *)
(***************************************************************************)
EXTENDS Naturals

CONSTANTS Texts,      \* what a file can hold
          Lossy,      \* the texts its encoding cannot hold
          Gone, Torn, \* no file, and a file half written
          Nothing,    \* no baseline, no offer, no errand
          MaxTyped, MaxOthers, MaxFails, MaxLocks  \* bounds

ASSUME ConfigAssumption ==
  /\ Lossy \subseteq Texts /\ {Gone, Torn, Nothing} \cap Texts = {}
  /\ {MaxTyped, MaxOthers, MaxFails, MaxLocks} \subseteq Nat

VARIABLES
  remote,
  disk, locked,             \* the file, its write count and whether it can be read
  open, buffer, modified, revision, busy, base, offer, gen,   \* the page
  errand, after,            \* its read or write in flight, and what follows a save
  asking,                   \* the Save / Discard / Cancel box is up
  probe, lastStat,          \* the watcher
  unsaved,                  \* history: what was typed and is on no disk
  missed,                   \* history: a change the watcher was never told of
  left                      \* how much of the bounds is left

file    == <<disk, locked>>
page    == <<open, buffer, modified, revision, busy, base, offer, gen>>
window  == <<errand, after, asking>>
watcher == <<probe, lastStat>>
pageHistory == <<unsaved, missed>>
configVars == <<remote, file, page, window, watcher, pageHistory, left>>

Contents == Texts \cup {Gone, Torn}
Seen     == [text : Contents, at : Nat, ours : BOOLEAN]

ConfigTypeOK ==
  /\ {remote, locked, modified, asking, missed} \subseteq BOOLEAN
  /\ disk \in Seen
  /\ open \in {"no", "building", "open"}
  /\ buffer \in Contents /\ {revision, gen, lastStat} \subseteq Nat
  /\ busy \in {"no", "read", "retry", "write"}
  /\ {base, offer} \subseteq Seen \cup {Nothing}
  /\ errand = Nothing \/ errand.kind \in {"read", "write"}
  /\ after \in {"none", "close", "retry"}
  /\ probe = Nothing \/ probe.gen \in Nat
  /\ unsaved \in Contents \cup {Nothing}
  /\ \A b \in DOMAIN left : left[b] \in Nat

ConfigInit ==
  /\ remote \in BOOLEAN
  /\ \E t \in Texts \cup {Gone} : disk = [text |-> t, at |-> 0, ours |-> FALSE]
  /\ locked = FALSE
  /\ open = "no" /\ buffer = Gone /\ modified = FALSE /\ revision = 0 /\ busy = "no"
  /\ base = Nothing /\ offer = Nothing /\ gen = 0
  /\ errand = Nothing /\ after = "none" /\ asking = FALSE
  /\ probe = Nothing /\ lastStat = 0
  /\ unsaved = Nothing /\ missed = FALSE
  /\ left = [typed |-> MaxTyped, others |-> MaxOthers,  fails |-> MaxFails, locks |-> MaxLocks]

Spend(b) == left[b] > 0 /\ left' = [left EXCEPT ![b] = @ - 1]
Busy == busy # "no"

-----------------------------------------------------------------------------
(* Mutants: plausible bugs, never part of the specification *)

\* A probe's answer is believed whatever the page did meanwhile.
AnyProbeCounts == busy = "no"

\* A page out of focus reloads, its own changes or not.
MayReloadOver(seen, focus) == seen.text # Gone /\ ~focus

\* Only a change that finds the page unmodified is looked at.
OffersWhenClean(seen) == seen.text # base.text /\ ~modified

-----------------------------------------------------------------------------
(* ConfigView *)

\* setContents(): this is what is on the disk now, and nothing is on offer.
SetContents(seen) ==
  /\ buffer' = seen.text /\ modified' = FALSE /\ revision' = revision + 1
  /\ base' = seen /\ offer' = Nothing

\* markWrittenAs(): the bytes that were sent, not the ones on screen.
MarkWrittenAs(seen) == base' = seen /\ offer' = Nothing

\* externalChange(): with nobody reading and nothing to lose, the page reloads.
Changed(seen) == seen.text # base.text

ReloadsInSilence(seen, focus) == seen.text # Gone /\ ~modified /\ ~focus

ExternalChange(seen, focus) ==
  IF base = Nothing \/ (~Changed(seen) /\ offer = Nothing)
  THEN UNCHANGED <<buffer, modified, revision, base, offer, gen>>
  ELSE IF ~Changed(seen)
  THEN offer' = Nothing /\ UNCHANGED <<buffer, modified, revision, base, gen>>
  ELSE IF ReloadsInSilence(seen, focus)
  THEN SetContents(seen) /\ gen' = gen + 1
  ELSE offer' = seen /\ UNCHANGED <<buffer, modified, revision, base, gen>>

\* The bar's Reload, which stays pressable while the page is busy.
Reload ==
  /\ open = "open" /\ ~asking /\ offer # Nothing /\ offer.text # Gone
  /\ SetContents(offer) /\ gen' = gen + 1
  /\ unsaved' = Nothing
  /\ UNCHANGED <<remote, file, open, busy, window, watcher, missed, left>>

\* The bar's Ignore: seen, and now a version the disk does not hold.
Ignore ==
  /\ open = "open" /\ ~asking /\ offer # Nothing
  /\ base' = offer /\ offer' = Nothing /\ modified' = TRUE /\ gen' = gen + 1
  /\ UNCHANGED <<remote, file, open, buffer, revision, busy, window, watcher, pageHistory, left>>

\* A busy page is read-only.
Type(t) ==
  /\ open = "open" /\ ~asking /\ ~Busy /\ t # buffer /\ Spend("typed")
  /\ buffer' = t /\ modified' = TRUE /\ revision' = revision + 1
  /\ unsaved' = t
  /\ UNCHANGED <<remote, file, open, busy, base, offer, gen, window, watcher, missed>>

-----------------------------------------------------------------------------
(* MainWindow: opening *)

\* A local file is read, and watched from a moment later; one that cannot be read
\* makes no page.
OpenHere ==
  /\ open = "no" /\ ~remote /\ ~locked
  /\ open' = "building"
  /\ SetContents(disk) /\ gen' = gen + 1
  /\ UNCHANGED <<remote, file, busy, window, watcher, pageHistory, left>>

WatchBegins ==
  /\ open = "building"
  /\ open' = "open"
  /\ lastStat' = disk.at
  /\ missed' = (disk.text # base.text)
  /\ UNCHANGED <<remote, file, buffer, modified, revision, busy, base, offer, gen, window,
                 probe, unsaved, left>>

\* A remote page is up, and busy, before the far end answers.
OpenThere ==
  /\ open = "no" /\ remote
  /\ open' = "open" /\ busy' = "read" /\ gen' = gen + 1
  /\ errand' = [kind |-> "read"]
  /\ UNCHANGED <<remote, file, buffer, modified, revision, base, offer, after, asking,
                 watcher, pageHistory, left>>

ReadReply ==
  /\ open = "open" /\ busy = "read"
  /\ \/ /\ ~locked /\ SetContents(disk)
        /\ busy' = "no" /\ gen' = gen + 2 /\ errand' = Nothing /\ UNCHANGED left
     \/ /\ Spend("fails")       \* the far end answered, and said no
        /\ busy' = "no" /\ gen' = gen + 1 /\ errand' = Nothing
        /\ UNCHANGED <<buffer, modified, revision, base, offer>>
     \/ /\ Spend("fails")       \* it was not reached
        /\ busy' = "retry" /\ gen' = gen + 1
        /\ UNCHANGED <<errand, buffer, modified, revision, base, offer>>
  /\ UNCHANGED <<remote, file, open, after, asking, watcher, pageHistory>>

RetryRead ==
  /\ open = "open" /\ busy = "retry"
  /\ busy' = "read"
  /\ UNCHANGED <<remote, file, open, buffer, modified, revision, base, offer, gen, window,
                 watcher, pageHistory, left>>

-----------------------------------------------------------------------------
(* MainWindow: saving *)

Written == [text |-> buffer, at |-> disk.at + 1, ours |-> TRUE]

\* The page goes; a probe, a read or a write of its own goes with it.
ClosePage ==
  /\ open' = "no" /\ buffer' = Gone /\ modified' = FALSE /\ busy' = "no"
  /\ base' = Nothing /\ offer' = Nothing /\ gen' = 0 /\ revision' = 0
  /\ errand' = Nothing /\ after' = "none" /\ asking' = FALSE /\ probe' = Nothing
  /\ missed' = FALSE

SaveHere(then) ==
  /\ ~remote
  /\ \/ /\ buffer \in Lossy \/ left["fails"] > 0  \* refused or failed: nothing moves
        /\ left' = IF buffer \in Lossy THEN left ELSE [left EXCEPT !["fails"] = @ - 1]
        /\ asking' = FALSE
        /\ UNCHANGED <<file, page, errand, after, watcher, pageHistory>>
     \/ /\ buffer \notin Lossy
        /\ disk' = Written /\ unsaved' = Nothing
        /\ IF then = "none"
           THEN /\ MarkWrittenAs(Written) /\ modified' = FALSE /\ gen' = gen + 1
                /\ UNCHANGED <<open, buffer, revision, busy, window, probe, missed>>
           ELSE ClosePage
        /\ UNCHANGED <<locked, lastStat, left>>

SaveThere(then) ==
  /\ remote
  /\ asking' = FALSE
  /\ IF buffer \in Lossy
     THEN UNCHANGED <<busy, gen, errand, after>>
     ELSE /\ busy' = "write" /\ gen' = gen + 1
          /\ errand' = [kind |-> "write", text |-> buffer, sentAt |-> revision, done |-> Nothing,
                        torn |-> FALSE]
          /\ after' = then
  /\ UNCHANGED <<file, open, buffer, modified, revision, base, offer, watcher, pageHistory, left>>

\* Save; and Save, Close and Restart, which with nothing typed only closes.
Save(then) ==
  /\ open = "open" /\ ~asking /\ ~Busy
  /\ IF modified
     THEN SaveHere(then) \/ SaveThere(then)
     ELSE /\ then = "close" /\ ClosePage
          /\ UNCHANGED <<file, lastStat, unsaved, left>>
  /\ UNCHANGED remote

\* The remote write truncates and rewrites in place.
WriteBegins ==
  /\ busy = "write" /\ errand.done = Nothing /\ ~errand.torn
  /\ disk' = [text |-> Torn, at |-> disk.at + 1, ours |-> TRUE]
  /\ errand' = [errand EXCEPT !.torn = TRUE]
  /\ UNCHANGED <<remote, locked, page, after, asking, watcher, pageHistory, left>>

WriteLands ==
  /\ busy = "write" /\ errand.done = Nothing /\ errand.torn
  /\ disk' = [text |-> errand.text, at |-> disk.at + 1, ours |-> TRUE]
  /\ errand' = [errand EXCEPT !.done = disk']
  /\ UNCHANGED <<remote, locked, page, after, asking, watcher, pageHistory, left>>

\* A failed write keeps the page, its edits and its mark.
WriteFails ==
  /\ busy = "write" /\ errand.done = Nothing /\ Spend("fails")
  /\ busy' = "no" /\ gen' = gen + 1 /\ errand' = Nothing /\ after' = "none"
  /\ UNCHANGED <<remote, file, open, buffer, modified, revision, base, offer, asking, watcher,
                 pageHistory>>

\* The mark is cleared if nothing has moved since the bytes were taken; the page then
\* closes, or the close that asked for the save is tried again.
WriteReply ==
  /\ busy = "write" /\ errand.done # Nothing
  /\ unsaved' = IF unsaved = errand.text THEN Nothing ELSE unsaved
  /\ LET still == modified /\ revision # errand.sentAt IN
     IF after = "close" \/ (after = "retry" /\ ~still)
     THEN ClosePage
     ELSE /\ busy' = "no" /\ gen' = gen + 2 /\ MarkWrittenAs(errand.done)
          /\ modified' = still
          /\ asking' = (after = "retry")
          /\ errand' = Nothing /\ after' = "none"
          /\ UNCHANGED <<open, buffer, revision, probe, missed>>
  /\ UNCHANGED <<remote, file, lastStat, left>>

-----------------------------------------------------------------------------
(* MainWindow: closing *)

\* closeViewAt() and confirmDiscard(); a close during a save asks nothing and waits.
CloseTab ==
  /\ open = "open" /\ ~asking /\ (modified => ~Busy)
  /\ IF modified
     THEN asking' = TRUE /\ UNCHANGED <<page, errand, after, probe, missed>>
     ELSE ClosePage
  /\ UNCHANGED <<remote, file, lastStat, unsaved, left>>

AnswerSave == asking /\ (SaveHere("close") \/ SaveThere("retry")) /\ UNCHANGED remote

AnswerDiscard ==
  /\ asking /\ ClosePage /\ unsaved' = Nothing
  /\ UNCHANGED <<remote, file, lastStat, left>>

AnswerCancel ==
  /\ asking /\ asking' = FALSE
  /\ UNCHANGED <<remote, file, page, errand, after, watcher, pageHistory, left>>

-----------------------------------------------------------------------------
(* ConfigChangeWatcher *)

\* A tick or an event: a stat that moved is what triggers a read.
CheckLocal ==
  /\ open = "open" /\ ~remote /\ disk.at # lastStat
  /\ lastStat' = disk.at
  /\ IF locked
     THEN UNCHANGED <<buffer, modified, revision, base, offer, gen>>
     ELSE \E focus \in BOOLEAN : ExternalChange(disk, focus)
  /\ missed' = (missed \/ locked)
  /\ UNCHANGED <<remote, file, open, busy, window, probe, unsaved, left>>

\* One at a time, and none while the page reads or writes.
ProbeStarts ==
  /\ open = "open" /\ remote /\ probe = Nothing /\ ~Busy
  /\ probe' = [gen |-> gen, got |-> Nothing]
  /\ UNCHANGED <<remote, file, page, window, lastStat, pageHistory, left>>

ProbeReads ==
  /\ probe # Nothing /\ probe.got = Nothing
  /\ probe' = IF locked THEN Nothing ELSE [probe EXCEPT !.got = disk]
  /\ UNCHANGED <<remote, file, page, window, lastStat, pageHistory, left>>

\* The bytes describe the file as it was before the page's own read or write.
ProbeCounts == busy = "no" /\ gen = probe.gen

ProbeReply ==
  /\ probe # Nothing /\ probe.got # Nothing
  /\ probe' = Nothing
  /\ IF ProbeCounts
     THEN \E focus \in BOOLEAN : ExternalChange(probe.got, focus)
     ELSE UNCHANGED <<buffer, modified, revision, base, offer, gen>>
  /\ UNCHANGED <<remote, file, open, busy, window, lastStat, pageHistory, left>>

ProbeFails ==
  /\ probe # Nothing /\ probe.got = Nothing /\ Spend("fails")
  /\ probe' = Nothing
  /\ UNCHANGED <<remote, file, page, window, lastStat, pageHistory>>

-----------------------------------------------------------------------------
(* Another program *)

OtherWrites(t) ==
  /\ t # disk.text /\ Spend("others")
  /\ disk' = [text |-> t, at |-> disk.at + 1, ours |-> FALSE]
  /\ UNCHANGED <<remote, locked, page, window, watcher, pageHistory>>

OtherLocks ==
  /\ ~locked /\ Spend("locks") /\ locked' = TRUE
  /\ UNCHANGED <<remote, disk, page, window, watcher, pageHistory>>

OtherUnlocks ==
  /\ locked /\ locked' = FALSE
  /\ UNCHANGED <<remote, disk, page, window, watcher, pageHistory, left>>

-----------------------------------------------------------------------------

WatcherStep == WatchBegins \/ CheckLocal \/ ProbeStarts \/ ProbeReads \/ ProbeReply
ErrandStep  == ReadReply \/ RetryRead \/ WriteBegins \/ WriteLands \/ WriteReply

ConfigNext ==
  \/ OpenHere \/ OpenThere \/ WatcherStep \/ ErrandStep \/ WriteFails \/ ProbeFails
  \/ \E t \in Texts : Type(t)
  \/ \E then \in {"none", "close"} : Save(then)
  \/ Reload \/ Ignore \/ CloseTab \/ AnswerSave \/ AnswerDiscard \/ AnswerCancel
  \/ \E t \in Texts \cup {Gone} : OtherWrites(t)
  \/ OtherLocks \/ OtherUnlocks

\* The timers tick, errands come back, and a file is not left unreadable for ever.
ConfigFairness == WF_configVars(WatcherStep) /\ WF_configVars(ErrandStep)
                  /\ WF_configVars(OtherUnlocks)

ConfigSpec == ConfigInit /\ [][ConfigNext]_configVars /\ ConfigFairness

-----------------------------------------------------------------------------
(* Properties *)

\* confirmDiscard(), externalChange(), saveConfig(): what was typed and has reached no
\* disk is on the page, which is open and wears its mark, until its author reloads or
\* discards it, whatever probes, saves and closes do in between.
TypedTextIsKept ==
  unsaved # Nothing => open = "open" /\ buffer = unsaved /\ modified

\* ConfigView.h, diskGeneration(): a page never goes back to an older state of the
\* file than the one it last read or wrote, though probes answer late.
PageNeverGoesBack ==
  [][base # Nothing /\ base' # Nothing => base'.at >= base.at]_configVars

\* SPEC.md 4: a change by another program reaches the page, as its text or as an offer.
Settled == \/ open # "open" \/ Busy \/ base = Nothing
           \/ disk.text \in {base.text, IF offer = Nothing THEN base.text ELSE offer.text}
ChangeIsShown == []<>(Settled \/ missed)

\* The same, of a change made as the page was built or while the file was shut.
ChangeIsAlwaysShown == []<>Settled

\* SPEC.md 4: a page that differs from the file it knows wears its mark.
UnmarkedIsTheFile ==
  open = "open" /\ ~Busy /\ base # Nothing /\ offer = Nothing /\ ~modified
    => buffer = base.text

\* SPEC.md 4: loftail's own saves are not changes by another program.
OwnSavesAreSilent == offer # Nothing => ~offer.ours
=============================================================================
