# loftail in TLA+

loftail is a log viewer: it opens a log that lies in a local file, behind an SSH
connection, in an archive or on a serial or telnet console, splits it into records and
follows it as it grows, filters and highlights it, and remembers how each log was read. This
directory holds TLA+ modules of the parts of it that are hard to get right, the TLC
configurations that check them on small instances, and proofs that TLAPS checks for every
instance. Paths below are relative to `src/src/` of the repository unless they begin with
another directory.

## 1. Inventory

What a log that is not a plain file goes through, from the far end to the screen:

```
 far end --session/console--> fetcher --writes--> gen-N.log            (a worker thread)
                                 | FetchStatus, under a mutex
 SourceSpoolRegistry --owns--> SourceSpool ---> SpooledLogSource       (application thread)
        ^                                            |
        | shared_ptr handles                         v
 tabs, archive fetchers        LiveController --> Document --> index, view, runs, digest
                                                                 |
              panes (filters, highlighters, runs) <--> MainWindow <--> settings, session
```

| Component | State it keeps | Operations | What makes it correct |
|---|---|---|---|
| Fetcher contract (`core/SourceFetcher.h`) | published status: state, generation, committed size; spool files | start, status, requestStop, pokeNow | committed bytes have landed; a generation is a new file; the first publication is a whole prime; Complete is final |
| SSH fetcher (`core/SshFetcher.cpp`) | status, flags (stopping, poked, refused, may prompt), last stat, session | tailLoop: reconnect, establish, pollOnce, beginGeneration, fetchForward | one generation is one remote file; outages end; a refusal is the far end's and is said |
| SSH session (`core/SshSession.cpp`, `core/ExecTransport.cpp`) | connection, transport, open handle or size rung | connectTo, openFile, statPath, statHandle, readAt, abort | each failure classified as gone, absent, person needed or refused |
| SSH sign-in (`SshSession::authenticate`, `core/SshPrompter.cpp`, `ui/SshPromptDialogs.cpp`) | credential cache, keychain, bookmarks, skip buttons | ladder of methods, prompts, saving | one prompt per host; a secret goes only where the dialog said |
| GUI call gate (`core/GuiCallGate.cpp`) | queue, stack of nested event loops | call, cancel, reopen, drain | a stop never waits on the application thread; a work never outlives its asker |
| Session cache, worker pool, errands (`core/SshSessionCache.cpp`, `core/SshWorkerPool.inl`, `core/ConfigFileIO.cpp`, `core/RestartRunner.cpp`) | idle and leased sessions, running errands | check out, check in, expire, run, abort, retry | a session has one holder; a script runs once; every owner is answered |
| Consoles (`core/ConsoleSession.cpp`, `core/ConsoleFetcher.cpp`, `core/SerialLoginMachine.cpp`) | one link, one login, one mutex per device | sign in, run a command, drop, follow | passwords only at password prompts; commands once and in order; logs come back |
| Archive fetcher (`core/ArchiveFetcher.cpp`) | status, input handle, expansion stream | start, await container, expand, publish complete | a member is of one container and whole when complete; drops its container |
| Spool registry (`core/SourceSpool.cpp`) | map of weak entries, list of retired fetchers, reaper, directories | acquire, find, forget, retire, collect, drain, shutdown | held spools live; nobody joins a running thread; nothing retired is forgotten |
| Spooled log source, live controller, document (`core/SpooledLogSource.cpp`, `core/LiveController.cpp`, `core/Document.cpp`) | adopted generation, baseline size, waiting, stale | 750 ms tick, rescan, settle, resume | nothing lost, nothing indexed twice, marks true |
| Indexer, filtered view, runs, digest (`core/Indexer.cpp`, `core/RecordIndex.h`, `core/FilteredIndex.cpp`, `core/ContextEmitter.h`) | record index, line sums, rows, run list, counts | scan, extend in place, re-filter | in place equals from scratch |
| Log view (`ui/LogView.cpp`, `ui/LogModel.cpp`) | selection, current record, top line, follow state | pick, scroll, copy, model resets | the place and the choice survive what is not about them |
| Filters pane, its history, rule editors (`ui/FilterPane.cpp`, `ui/AxisEditor.cpp`, `ui/HighlighterPane.cpp`, `core/FilterUndoStack`) | the one pane of all logs, stashes, undo history, rule list | bind, edit, defer, undo, hydrate | each log keeps its own filter; a name is ticked as the reader said; a bound names its moment |
| Settings (`core/LogFileStore.cpp`, `core/LogFileSettings.cpp`, `ui/PreferencesDialog.cpp`) | slot files and their map, tree of patterns, dialog's copy | remember, evict, rebuild, apply, promote, sweep | what was saved reads back; OK means what the dialog showed |
| Main window, tabs, session, alerts, labels, find (`ui/MainWindow.cpp`, `ui/SessionStore.cpp`, `ui/TabLabels.cpp`, `ui/FindBar.cpp`, `core/AlertPolicy.cpp`) | tab bar, active view, panes, marks, tray | open, close, turn, quit, launch, announce | a launch brings the window back; news is told until read; labels tell logs apart |
| Config files (`core/ConfigFileIO.cpp`, `ui/ConfigView.cpp`, `ui/ConfigChangeWatcher.cpp`) | page, baseline, change bar, stat of the file | open, type, save, reload, probe, close | typed text is kept; a change by another program is shown |
| Discovery (`core/DiscoveryWatch.cpp`, browsers) | instances seen, resolvers, last reported | browse, resolve, retry, watch | addresses are current; a lost device is lost |
| Formats, decoding, layout, painting, small JSON stores | | | functions of text and geometry; see section 6 |

How they interact. A fetcher's worker and the application thread share nothing but the
mutex-guarded `FetchStatus` and the spool files; the application polls, it is never
signalled. A worker that needs a person asks through the gate and is parked until the
answer; the application thread answers from nested event loops, in which everything else
goes on. A tab holds a `shared_ptr` to its spool through its document's source, an archive
fetcher holds one to its container's; whoever drops the last one tears the spool down, on
its own thread. Errands run on threads of their own and answer by a posted event. Within the
application thread one set of panes serves all logs, so a tab switch is a small transaction
of stash, bind and hydrate, with timers (deferred edits, debounced searches, alert
intervals) that may fire between any two gestures.

The hard behaviours: the far end moves between any two calls; a link dies at any of them;
a press, a stop or a teardown falls into an attempt; answers arrive after their question has
gone; dialogs run nested loops; several windows and crashes between two writes of the
settings; in-place maintenance of indices whose last record may still change; panes bound
late, or to a log that has gone. `PROJECT.json` lists them as hazards, each at its line with
the properties aimed at it.

## 2. Modules

| Module | Models | Uses |
|---|---|---|
| `SourceFetcher` | the contract of `core/SourceFetcher.h`: an abstract specification | |
| `SshFetcher` | the SSH fetcher, what each session call answers, the far end and the user | refines `SourceFetcher` |
| `ArchiveFetcher` | a member of a container, chained to the container's fetcher | refines `SourceFetcher` |
| `SpooledTail` | spooled source, document, live controller and window handlers | extends `SourceFetcher`: composed with any fetcher that keeps the contract |
| `SpoolRegistry` | the registry, handles of tabs and archive fetchers, teardown, reaper, exit | |
| `GateContract`, `GuiCallGate` | what a worker may count on when it asks; the queue and the nested loops that keep it | `GuiCallGate` refines `GateContract` |
| `SshLogin` | the ladder of `authenticate()`, caches, keychain, bookmarks, skip buttons | built on `GateContract` |
| `Errands` | the session cache, a remote errand from look-up to check-in, restart scripts | |
| `ConfigPage` | the config page, its watcher, saves and the close question | |
| `Consoles` | the logs of one device over its shared session | |
| `ConsoleLogin` | `SerialLoginMachine` and its driver against a far end it does not see | |
| `RecordView` | index, runs, filtered view with context, line sums, digest, counts | |
| `ReadingPlace` | selection, current record, top line, follow state, copies | |
| `FilterBench` | the Filters pane bound to the logs in turn, deferred edits, undo history, crashes | |
| `ValueAxis` | one list of names in that pane, from scan to record and back | |
| `RuleList` | the highlight rules of logs, the editor's time range, presets, zones | |
| `SettingsPool` | slot files and map of the settings records, crashes, other windows | |
| `LogProfiles` | which settings a log is read with, Preferences, the sweep | |
| `WindowTabs` | tab bar, bound log, panes, session over quits and crashes | |
| `Arrivals` | alerts, marks, tray, interval | |
| `TabLabels` | labels of the open set, recent files | |
| `FindBar` | both Find bars, debounce, steps, report | |
| `SshProofs`, `ArchiveProofs`, `SpoolRegistryProofs` | proofs about the module of that name; the last, about `RecordView` too (section 4) | |
| `SpooledTailProofs` | proofs about `SourceFetcher` and `SpooledTail` | |
| `RemoteWorkProofs` | proofs about `Errands` and `ConfigPage` | |
| `PromptProofs` | proofs about `GuiCallGate`, `SshLogin`, `ConsoleLogin` and `WindowTabs` | |
| `WindowProofs` | proofs about `FindBar`, `Arrivals`, `LogProfiles` and `SettingsPool` | |
| `DeskProofs` | proofs about `RuleList`, `FilterBench`, `ReadingPlace` and `ValueAxis` | |
| `MC*` | instances for TLC; several put independent parts side by side, `part` says which one a behaviour is of | |

Every module follows the same reading: one variable (or one field of a record) per member
the code keeps, one action per handler or per stretch between two points where another
thread, the event loop or the far end may come in, guards from the code's conditions and
early returns. `map` in `PROJECT.json` gives the lines of each definition. A handler that
runs on the application thread to its end is one action, however many functions it calls; a
handler that opens a dialog, a menu or a nested loop is split there; a worker's program is
split at each critical section and each network call.

Notes that a reader of the modules will want:

- **SourceFetcher.** `written[g]` is the length of `gen-g.log`. Creating a file, publishing a
  generation, writing, committing and publishing `Complete` are separate because the
  header's ordering rules are about them.
- **SshFetcher.** A byte is `<<content, offset>>`, so that "one generation is one remote
  file" can be said. `FarGrow`, `FarReplace`, `FarRewrite`, `FarChmod`, `LinkDrop`, ... are
  the far end, external to the repository. An SFTP handle follows the renamed file, a shell
  reads by name. Poll cadence, probe pacing and every wait may end at any time. An attempt
  is a dial, a sign-in, the start of SFTP or of a shell, and an open, each a step in which
  the link may have gone; behind a shell the open settles on a rung that can measure the log,
  and a log that outgrows `wc` is given up. A replaced log is newer than the one before it.
- **ArchiveFetcher.** The container is the contract once more, seen through its snapshots; a
  container of `Whole` bytes has a header of one byte, and libarchive reads past the last.
- **SpooledTail.** `checkNow()` reads the fetcher's status up to six times; each read is an
  action and the fetcher steps in between. A record is one byte.
- **SpoolRegistry.** `phase` follows a spool from `held` through its deleter to `gone`, `by`
  names the thread. Every lock of the code separates two actions.
- **GuiCallGate.** The application thread is a stack of frames; a question it is inside of
  runs a nested event loop and everything that loop delivers runs on top. The inline path is
  the application thread calling itself.
- **SshLogin.** A password is the version the server had; what is in the cache, the keychain
  and the bookmark file is which version. A link may be cut in any prompt.
- **Errands, ConfigPage.** A read is retried once by a timer, a write in place never; a local
  save is atomic and may be refused by a lock. Texts are values, one of which cannot be
  written back in the file's encoding (`odd`), one is half of a save (`Torn`).
- **Consoles, ConsoleLogin.** The session's mutex, abort latch and login are one record; a
  log is a number of chunks. The login machine and the far end are two automata with what is
  typed and what is printed between them, cut anywhere.
- **RecordView.** A line is what its readers tell apart: it starts a record or goes on with
  one, starts a run, has the text, is of a low level. The last line may be a prefix. The
  methods of the document are operators on one value; `WantedRows`, `RebuiltSums` and the like
  say what a scan from nothing gives, and the invariants compare.
- **ReadingPlace.** Display lines, rows and ordinals are kept apart as the code does; a copy
  is a chunked pass with the event loop between its chunks.
- **FilterBench, ValueAxis, RuleList.** One pane, many logs: what is bound, what is pending,
  what is stashed, recorded, in the document, in the history. Ghost fields (`said`, `moment`)
  hold what the reader was shown or meant.
- **SettingsPool, LogProfiles.** File replacement is atomic, pairs of files are not; a crash
  may fall between. A profile is a format and the rest (wrap mode, config file, script): the
  rest goes into the tab's record before the funnel compares, so that by itself it is not
  stored; a format is.
- **WindowTabs, Arrivals, TabLabels, FindBar.** The window around the pages. Geometry,
  wording, icons and column widths are one value or left out. A rescan drops what the alert
  interval held back (`Rescan` in `Arrivals`). A directory is a sequence of
  pieces, and `ElideMiddle` keeps and cuts pieces as the code does characters.

Where the code is known to break a promise (section 5), the property a run checks leaves out
exactly the behaviours that have met the defect, by its premise or by a history variable set
at that step (`cut` and `overlooked` in `SshFetcher`, `slipped` in `ReadingPlace` and
`Arrivals`, `muddled` in `ValueAxis`, `misled` in `RuleList`; `Wedged`, `Adrift` in
`WindowTabs` and `Ambiguous` in `TabLabels` are premises); the property without the
exemption is in the module too, and is the one to run by hand.

## 3. Runs

Deadlock is checked in `view` only: elsewhere the system may rest (a stopped worker, a
finished log, a closed window, gestures used up); what must go on is stated as liveness.

| Run | Instance | Properties |
|---|---|---|
| `ssh_tail` | SFTP, tail start 2, prime 2, log of up to 3 bytes, 2 changes, 1 outage, log-ins that need a person, FSTAT usable or not | `SpoolIsOneFile`, `KeepsContract` |
| `ssh_follow` | shell with rungs `stat` and `wc`, log of up to 2 bytes, prime and head probe of 1, rewriting in place, 1 outage, 1 press, 1 change, 1 change of address, fairness | `OutageNeverRefuses`, `CatchesUp` |
| `tail` | 3 generations of up to 2 bytes, fairness | `NothingLost`, `RecordsOnlyGrow`, `CatchesUp` |
| `registry` | two logs in one container, 4 spools, fairness | `BurialIsSafe`, `Buried` |
| `arch` | container of 4 bytes, prime 2, 2 moves, 1 rotation, 1 fault, fairness | `WholeMember`, `KeepsContract`, `ExpansionEnds` |
| `remote_work` | two errands on one host, 3 sessions, cache of 1, 1 drop; or a page with 1 edit, 1 foreign write, 1 failure, 1 lock | `SessionHasOneHolder`, `ScriptRunsOnce`, `NobodyForgotten`, `TypedTextIsKept`, `ChangeIsShown` |
| `consoles` | two logs on one device, 2 troubles or 1 change; or sign-ins with 2 startup commands, 1 reboot, 3 attempts | `PasswordOnlyWhenAsked`, `CommandsRunInOrder`, `LogsComeBack` |
| `prompting` | two workers with 2 questions each, 2 inline calls, 1 cancel; or two sign-ins on one host with 1 mishap | `FrameAlive`, `OnePromptPerHost`, `EveryAskerReturns`, `SecretGoesWhereShown` |
| `view` | logs of up to 4 lines of 4 kinds, 1 before, 1 after, 1 rotation, blocks of 2 | `ViewIsExact`, `RunsAreListed` |
| `workspace` | 3 logs on 2 slots; or 2 logs, 2 patterns, 2 formats and 2 rests, the dialog with 2 edits in it | `SettingsSurvive`, `AnswerIsRead`, `SweepKeepsMeaning` |
| `desk` | up to 4 records, 3 gestures, 1 copy; or 2 logs of 2 views in 6 acts; or a list of 2 names over 2 scans; or 2 rules over 2 logs and 2 zones | `ChosenIsKept`, `CopyIsTheSelection`, `PlaceIsKept`, `EachLogKeepsItsFilters`, `HistoryIsTheReaders`, `NamesAreAsSaid`, `BoundsKeepTheirMoment` |
| `window` | 2 launches and 6 gestures; or alerts for 2 logs; or sets of up to 3 of 8 addresses, two of them too long for a label; or two Find bars with 2 queries | `WindowComesBack`, `NewsIsTold`, `LabelsTellApart`, `PendingIsOwed` |

What the properties say:

- *Transport.* `SpoolIsOneFile`: what a reader sees of a generation is a contiguous piece of
  one remote file, whatever the remote log does between two calls. `KeepsContract`:
  refinement of `SourceFetcher` with `written[g] <- Len(file[g])`. `OutageNeverRefuses`: only
  the far end can latch a refusal, or a link that dies while an attempt signs in.
  `CatchesUp`: rotations and outages end in a full copy, also when the new log is longer than
  what was read of the old one, unless a poll that could have told let it pass (the paced
  compare not due, or unreadable) or a re-open failed; for the document, in all of it shown
  and no mark left. `WholeMember`: what is published is a prefix of one
  container's member, all of it when `Complete`. `ExpansionEnds`: a worker behind a container
  that ends, ends.
- *Reader.* `NothingLost`: a document that stops watching has every byte. `RecordsOnlyGrow`:
  no outage takes a record away. `BurialIsSafe`, `Buried`: no running fetcher is destroyed,
  every dropped one is. `ViewIsExact`: after every tick index, rows with context, line sums
  and copies of records equal those of a scan from nothing. `RunsAreListed`: every run marker
  that was whole when indexed is in the list.
- *Asking.* `FrameAlive`: a running question has its asker parked in that very call.
  `OnePromptPerHost`, `EveryAskerReturns`, `SecretGoesWhereShown`.
- *Errands.* `SessionHasOneHolder`, `ScriptRunsOnce` (at most one begin per press),
  `NobodyForgotten` (whoever waits is owed an answer by somebody alive), `TypedTextIsKept`,
  `ChangeIsShown`.
- *Consoles.* `PasswordOnlyWhenAsked`: a password goes only where the text last printed asked
  for one. `CommandsRunInOrder`. `LogsComeBack`: with the device there, every log is followed.
- *Window.* `ChosenIsKept` (until the log is replaced or the view moves to another run, and
  not for a last record that growing made pass or fail the filter), `PlaceIsKept`,
  `CopyIsTheSelection` for one view;
  `EachLogKeepsItsFilters`, `HistoryIsTheReaders`, `NamesAreAsSaid`, `BoundsKeepTheirMoment`
  for the panes; `SettingsSurvive`, `AnswerIsRead`, `SweepKeepsMeaning` for what is
  remembered (OK stores the row; Apply only changes what the tab reads with, and what is then
  stored is a finding); `WindowComesBack`, `NewsIsTold`, `LabelsTellApart`, `PendingIsOwed` for the
  window. Each is stated in words above its definition.

Every property is broken by at least one plausible slip in the code under the run's own
bounds ("mutants" in `PROJECT.json`: a dropped clamp, a status read too late, an event
posted only if needed, a reset forgotten), so the cases it is about do occur. Some bounds
are chosen for a reason: three remote bytes with a tail start and a prime of two give logs
shorter than, equal to and longer than both; two bytes behind a shell let a log of one byte be
replaced by a longer one, and two changes put a rotation inside the
handling of another; three generations let a document be stale in one, find an empty second
and be rotated to a third; four spools let two logs and their container live at once and one
be opened again during teardown; two slots for three logs make eviction necessary; four
lines with one of context let two contexts touch; two logs with two views each let a pane
leave a log and come back while another of its views is open; six gestures are enough to
drag, double, put an editor between, quit and restore.

Type invariants (`TypeOK`, `TailShape`, `RegistryShape`, `...TypeOK`) are stated in each
module and hold under the run's instance; most of the modules of section 4
have theirs proved too.

**Fairness.** `SshFetcher`: weak fairness of the worker, whose calls have timeouts or are
aborted, and strong fairness of a poll whose paced compare is due, since the stall timer
runs out however often other polls come; none of the far end or the user. What `Calm`
assumes (link up, log readable, host lets us in, nobody stops it, a stat tells the open file
from the one at the name, the log is not past what `wc` may measure) is a premise of
`CatchesUp`. `SpooledTail`: weak fairness of the document's thread, driven by a 750 ms
timer. `SpoolRegistry`: the application thread and teardowns go on, asked workers end, and
strong fairness of the reaper, since the event queue is served in order. `ArchiveFetcher`:
the worker, and the container's fetcher begins, commits and moves on. `Errands`: each
running errand makes progress (calls have timeouts). `ConfigPage`: the watcher's timer and
running errands go on, another program lets go of its lock. `GuiCallGate`: posted events are
delivered, a dialog is answered, an armed drain runs, each caller runs. `SshLogin`: workers
and the person at the dialog. `Consoles`: each worker. The window's modules have none: what
they say is said of every step.

## 4. Proofs

All are for every value of the constants, from the named assumptions of the modules (and,
where a theorem says so, a hypothesis on what the far end is) alone. One module of proofs may
extend two or three modules that nothing joins but the reader's interest; each theorem is
then about one of their specifications.

**The spool and its readers.**

- `SpoolRegistryProofs`: `RegistrySafe` (`HeldIsAlive`, `BurialIsSafe`,
  `RetiredAreWatched`), for any keys, any nesting `Input` and any number of spools. None is
  inductive alone. `RegistryInv` adds `RegistryShape`: the lists are disjoint and hold
  retired spools only (else a fetcher could be examined twice or be destroyed while listed);
  serials not yet taken have neither phase nor worker; the reaper exists once any spool does
  (else a push would post nothing); a held spool has its directory; an open knows its keys.
  The key step is that letting go of a handle moves a spool to `unheld` exactly when no handle
  is left (`LetGoPhases`, `HandlesLost`), and that `find()` gives out only held spools
  (`FindsHeld`). One lemma per step, `NextInv` puts them together.
- `SpooledTailProofs`, of `SourceFetcher`, from `BoundsAssumption`: `SnapshotSafe` (a
  published status is well formed and never ahead of the file), `SpoolGrows` (within a
  generation sizes only grow, a superseded file is not touched) and `CompleteStays`. Both
  fetchers are proved to keep this contract (`KeepsContract`, below), so the three hold of
  them too.
- Of `SpooledTail`: `TailSafe` (`IndexMatchesSource`, `NothingLost`, `MarksAreTrue`) and
  `RecordsKept` (`RecordsOnlyGrow`), over every fetcher that keeps the contract, moving
  between any two reads of its status. The invariant is `TailInv`: `HeldWasPublished` (what
  the source and the index hold was published, and no step of a fetcher takes it back),
  `MarksFollow`, `IndexIsPrefix` (past the refresh, without a latched discontinuity, the index
  is a prefix of the source) and `FinishedIsFinal` (Complete, read first, is final, so the
  size read after it is the last one). A step is the fetcher's, which leaves the reader alone,
  or the reader's; `WhatAStepHolds` says once what a reader's step may put where.

- Of `RecordView`, in `SpoolRegistryProofs`: `RunsStayListed` (`RunsAreListed`), for any lines,
  filters, context and ticks. `RunsInv` says that the index holds of each line it has read what
  the line says (`IndexHolds`), that the lines read are the log's, the last one perhaps a prefix
  of it (`ReadFrom`), and that runs chosen and counted are among those listed. The lists are
  picked from the lines in their order; that two such lists of the same lines are one list is
  shown by the rank of a line in the set (`InOrderLists`) and not by induction over the log.
- Of `RecordView`, there too: `ViewStaysExact` (`ViewIsExact`), under the same assumptions: for
  any lines, context, block size and height cap, and any ticks, filters, runs and rotations.
  `ViewInv` is `RunsInv` and `ViewHolds`: the index is the scan of the lines seen, its sums are
  a rebuild's, the view is the one of a search from the top (`ViewOf`). Only a tick is hard: it
  reads the tail of the log again and extends what is there. `ScanSplits` says that the tail
  read from the last record on is the end of a scan from the top, `SumsExtended` that sums gone
  on with are the rebuilt ones, `BoundStands` that runs begun further down leave the bound as
  it was above. The view rests on `Out` and `ShownBy`, what a search shows of the first records:
  `OutStepsToMatch`, `OutStepsPast` and `OutStepsOver` say what one more record adds, `EmitStep`
  that `emitWithContext()` adds just that, and `StepByStep` carries it over the log.
  `ResumePlace` is why an extended view is exact: above the row `resumeContext()` chooses, the
  rows are those of a search that ended there, even when the record that grew no longer matches
  and had drawn context in above itself; `ReadBackIs` that the state it reads back from the rows
  is the one such a search would be in. Sums and emission are recursive functions in the model
  (`HeightsUpTo`, `Emission`), and what is said of them is proved from a least counterexample.

**The fetchers.**

- `SshProofs`, for any log, any caps, either transport and any far end. The invariant `IInv`
  is `Typed`, `Placed` (what is published and whether there is a session, step by step of
  the worker) and `Counted` (bytes read, landed and published, each a step behind the one
  before, up to what refused writes spilled). From it `TypeCorrect`; `GaveUp` (a latched
  refusal has no session and is said); and `ContractKept`, the refinement of
  `SourceFetcher`: each step of the worker is one of the contract or a stutter.
  `ShellOutage` is `OutageNeverRefuses` where the log is read through a shell: over SFTP a
  link that dies before the open comes back as a refusal, which is a finding, and the
  theorem is false there. It leaves out, as the property does, a link that dies in the
  sign-in (another finding) and a log nothing can measure. Its invariant `Welcome` says that
  otherwise no attempt fails with anything that latches. `OneFilePerGeneration` is
  `SpoolIsOneFile` over SFTP, where writes to the spool are not refused and nobody rewrites
  the log in place: through a shell the file is read by name and two files may meet in a
  read, and a refused spool file appends to the old generation, the finding of section 5.
  Its invariant `OneText` adds that an open handle stays on the file the published
  generation was filled from, from the re-open that finds another one up to the generation
  begun for it.
- `ArchiveProofs`: `TypeCorrect`; `EveryByteIsThere` (`WholeMember`: Complete is published
  with every byte of the member committed); `ContractKept`. `IInv` is `Typed`, `Phases`
  (the one generation is begun on an empty spool, and Complete is said once), `Counted` (the
  offset in the container against what was written, counted and published at each step of
  the expansion) and `Ended` (how a read of the container comes to its end: without it a
  worker could take a container still arriving for one that has all its bytes), from which
  `Finished` follows: where the end was seen, everything was read.

**Workers, answers and people.**

- `RemoteWorkProofs`, of `Errands`: `OneHolder` (no two workers, and not a worker and the
  cache, have one session), for which `PoolInv` says at which steps a worker has one, that a
  session exists exactly as long as somebody has it and that what an owner may shut is what
  its worker holds; `OncePerRequest` (a restart script runs at most once; `Scripts` adds that
  none is repeated and none has run before the step that runs it); `EveryOwnerIsOwed`
  (an owner that waits has an answer coming: `OwedInv` adds that one call of the application
  thread is under way at a time, that an errand is abandoned only by an owner that goes or
  aborts, and that an answer put off is a read's). The expiry sweep is written without
  recursion (`Sweeps`) so that it can be reasoned about.
- Of `ConfigPage`: `TypedTextSurvives`, `NeverBack` (a late probe's answer never takes the
  page to an older state of the file) and `PageTypeCorrect`. `PageInv` adds `Author` (typed
  text is on the page and, while it is sent, in the errand) and `InTime` (what the page
  knows, was offered, has written and is being told of are in the order in which they were on
  the disk, and a probe that still counts looked after the page did).
- `PromptProofs`, of `GuiCallGate`: `AskersOutliveTheirWork` (`FrameAlive`) and
  `QuestionsAreAskedOneByOne`, for any number of workers, questions, inline calls and
  cancels. `GateInv` adds to the types: `Stack` (only the top frame may be anything but a
  running work, a worker's call is the outermost frame, the depth agrees), `Numbered` (a call
  is met only after its worker pushed it), `Waiting` (a queued call waits once, unanswered,
  with its worker parked unless it is abandoned) and `Served` (a call that is being worked on
  is neither answered nor abandoned, and its worker is parked in it). `GateContractKept` is
  the refinement of `GateContract`, on which `SshLogin` is built: it needs `Told` besides,
  where a call may be between its push and its return, so that a worker is released by an
  answer or by being abandoned and by nothing else.
- Of `SshLogin`: `LoginTypesHold`, `OneDialogPerHost` (`OnePromptPerHost`) and
  `KeptWhereShown` (`SecretGoesWhereShown`), for any workers and hosts. `LoginInv` adds to the
  types that every worker's login is `Sound`: it holds the host from its connect to its end,
  asks only with a person there and no typed password left to try, offers to keep the
  password the server took, and the place the dialog named is what the keychain answered.
- Of `ConsoleLogin`: `ConsoleTypesHold`; `CommandsTakeTurns` (`CommandsRunInOrder`) and
  `PasswordGoesWhereAsked` (`PasswordOnlyWhenAsked`), for any startup commands, budget,
  number of sign-ins and cuts of what is printed. What the far end prints when it lets
  somebody in (`Motd`) must hold no marker and no restart for the first, and nothing that is
  recognised for the second: with `LastLogin` for it the second fails, a finding.
  `FeedAnswers` and `TickAnswers` say what the machine may make of any input. `InTurn` is the
  first's invariant: without a restart a marker comes from a shell, and what ran and what is
  on its way are the commands up to the next one, each once (`Queue`, with lemmas for a line
  put in, a command put in, the first one read, and a new sign-in). `OnRequest` is the
  second's: with nothing to excuse them the two sides take turns, so that either one line or
  one answer is on its way, and a password, or what asks for it, only while the far end asks.

**The window.**

- `WindowProofs`: `NoStraySearch` (`PendingIsOwed`), with any queries, and `NoNewsIsLost`
  (`NewsIsTold`), with any logs. The latter's invariant is `NewsInv`: `HeldBack` adds
  that a log whose news is not marked is open, has it pending, and its rule still
  asks for the message, which is what keeps the tray's icon there.
- `WindowProofs`, of `LogProfiles`: `TreeEditsMoveNobody` (`SweepKeepsMeaning`) and `OkAlone`
  (`AnswerIsRead`), for any logs, profiles and patterns, and any number of showings and of edits
  in each. `ProfileInv` adds to the types that some log is in front while any tab is open, that
  Preferences and the deferred question are about an open log, and that only Preferences can ask
  for "Apply". The argument has three parts: an edit in the dialog changes its tree and its row
  and not why or for which log it is shown (`SameAsk`, one lemma per kind of edit); what a commit
  leaves (`Commits`, `SweepKeeps`: an entry dropped by the sweep is one the new tree says
  itself); and what reading the answer puts in the tab and, through the gate of the funnel, in
  the stores (`PutBack`, `AppliedPut`): the row where nothing is applied, while what an Apply
  leaves there is not claimed. A tree's patterns need be neither distinct nor of different texts
  for it.
- `WindowProofs`, of `SettingsPool`: `SettingsAreKept` (`SettingsSurvive`), for any logs, slots,
  records, spellings and trims, where in no behaviour the map is lost as well as a window killed
  or a write refused: with both, an orphan that a crash or a failed write left may answer for its
  log, a finding of section 5. `PoolInv` says what is true between the writes of an operation.
  What is on the disk answers as was promised, from the map or, where the map may be lost, from
  the slot files alone, which then name no log twice (`DiskOK`). So does the running window's
  own list (`Held`), in which a promised log is where the map has it (`Linked`) and which is the
  map unless it is dirty (`SameList`); the job under way says what it still owes (`Owed`): the
  record of a save is in its slot already, and the slot whose file is to be removed has no log in
  the list any more. Where the map may be lost, every slot file is listed under the log it names
  (`Covers`). The lemmas say what the operations on the list leave (`WithoutIs`, `WithEntryIs`,
  `AllocIs`: only the slot that is handed out loses its log, and that log is not open; `FoundIs`
  for the rebuilt map) and then one lemma for each operation, of which saving and adopting share
  `SlotWritten`.
- Of `WindowTabs`, in `PromptProofs`: `WindowIsBroughtBack` (`WindowComesBack`), for any
  logs, files of settings and docks and any number of tabs, gestures, launches, quits and
  crashes. The module's assumption `TabsAssumption` is about the model only: tabs are the numbers
  up to some bound, and the two marks for no session and a later build's are not sessions.
  `TabInv` says of the window what a session takes for granted: no page is on the bar twice, the
  views that were made are the bar's, the logs that are open are those with a view, the page in
  front is there and the active one is a view (`WellsKept`); of the disk that a session's views
  have their logs and that there are tabs for all (`StoredKept`); and that what was left is what
  the stored session brings back, from the quit until the launch (`LeftKept`). Each gesture is a
  page added, raised, moved, looked at or closed (`GrownKeeps`, `RaisedKeeps`, `MovedKeeps`,
  `RelookedKeeps`, `ClosedKeeps`). What a launch does to a saved session is `SavedBringsBack`: the
  views come in the order of the bar and the editors are put back from left to right, each at the
  place it had, so that an editor finds before it exactly the pages that were (`BarComesBack`).
  The bar with the first so many editors is a recursive function, and what it is for every number
  of them follows from the least number for which it would not be so (`LeastPlace`): where
  a property speaks of natural numbers, that takes the place of an induction.
- `DeskProofs`, of `RuleList`: `BoundsStay` (`BoundsKeepTheirMoment`), for any zones, bases,
  moments, looks and number of rules. `RuleInv` says of the bound log what the property
  leaves open: its pane and its editor are in its terms (zone, clock or run, base), the
  editor holds the rule of the current row in both spellings, whichever is on the screen,
  and the digits of a log whose format is not known yet are meant in the zone it will turn
  out to have. Rules read for a copy are read with the zone their digits are in. The lemmas
  are about digits (`ShiftTwice`, `MeaningReexpressed`: moving digits to another zone leaves
  the moments), about rows (`MeaningsFollow`) and about the editor (`LoadedIs`,
  `RefreshedShows`); a step edits the table, changes the rule on the screen, binds the pane
  or refreshes it (`EditedKeeps`, `ChangedKeeps`, `BoundKeeps`, `RefreshKeeps`).
- Of `FilterBench`: `FiltersKept` (`EachLogKeepsItsFilters`) and `HistoryKept`
  (`HistoryIsTheReaders`), for any logs, views, filters and depth; logs `astray`, whose edit
  a crash or the defects of section 5 lost, are excepted. The property speaks of a
  window at rest; `BenchInv` says besides where the filters are in the middle of a switch, when
  the pane shows one log and is bound to another (`OnTheWay`: in the incoming log's stash), that
  a pane which outlived its log is of one that was given up (`AtRest`), that what a context
  takes for its record is its record, and which page is the active one behind an editor
  (`Places`). One lemma says what each function of the pane leaves (`ApplyNowIs`, `StashIs`,
  `SetDocumentIs`), in what it may do to the history above all: an apply during a rebind leaves
  it, any other makes the pane's state its present, and one of a state it is on adds nothing.
  Then one lemma for each step. `UndoneIs` and `RedoneIs` say that a walk keeps the line.

- Of `ReadingPlace`: `ThePickStays` (`ChosenIsKept`), `CopiesAreWhole`
  (`CopyIsTheSelection`) and `FiltersKeepThePlace` (`PlaceIsKept`), for any logs, heights of
  records and of the window, threshold, chunk and number of gestures. Rows are records in
  their order, so the row of a record is its rank among those that are shown (`RankIs`,
  `InOrderIs`, `RowOfRank`), and what is appended moves no rank (`RankStays`). The lines
  before a row are a finite set, which gives that a later row begins no earlier (`LineIs`)
  and that a line is in some row (`RecordAtIs`). `ReadInv` adds to the first two properties
  the types and that the chunks copied and those to come are together what was picked
  (`CopyGoesOn`), unless the rows were reset or a filter is on. An operation of the view
  either scrolls only (`OnlyScrolled`) or picks the record that is current after it; the
  third property follows from what `endFilterUpdate` leaves (`PutBackIs`). A pick whose
  record `slipped` is excepted from the first until the reader picks again or a filter
  brings it back.

- Of `ValueAxis`: `NamesStayAsSaid` (`NamesAreAsSaid`), for any logs and names, and any number of
  edits, rotations, switches, quits and crashes; the names the defects of section 5 reached
  (`muddled`) are excepted. `AxisInv` adds what the list remembers of names that are off it, which
  is what was said of them (`ListIsAsSaid`); that a list which is still reproducing a selection
  holds the names of the selection, all ticked, and is filed as that (`Reproducing`); and that
  what is kept of a log the pane has left is enough to answer as was said (`KeptAsSaid`). Lemmas
  say what filling the list does under each rule (`ListIsFilled`, `FreeRefresh`, `ArmedRefresh`,
  `StateIsPutBack`); then one lemma for each edit, for a scan, for leaving a log and coming back
  (`LeavingKeeps`, `ComingBackIsAnswered`), for a new start (`StartingAgainIsAnswered`). The proof
  needs that "Others" says of a log in front what the history variable `rest` says; a log that is
  left takes `rest` from what is kept of it (`Switch`), which differs only where all of the log is
  `muddled`.

Only model-checked: the shared session of `Consoles`; `TabLabels`. Two logs may wear one
label by `LabelsTellApart` only where what the bracket shows of them is the same text, or
where one axis of their group spells what another does (`Ambiguous`); two recent files, only
where a file of their name is too long for an entry (`MaxPrefix`). Liveness under fairness,
`ENABLED` and induction over data with the library's theorems are out of reach of the
installed provers.

## 5. Where code and comments disagree

Met while modelling; the lines and the quotes are in `PROJECT.json` under `findings`. Each is
reproduced by hand: take the configuration named there, put the property in place of its
properties (and change the constants it names), and TLC shows the behaviour. The main ones:

| Property (configuration) | What the code does |
|---|---|
| `CatchesUpAlways` (`MCSshFollow`) | A rotation whose re-open fails leaves a live session without a handle; no later poll opens one, the tab says Live and gets no byte until the link drops. A replaced log that has grown past what was read, with no compare due, is spliced to the old spool. |
| `OutageNeverRefuses` (`MCSshKnown`), `NoOutageRefuses` (`MCSshFollow`) | A link that dies before the open over SFTP, or during the sign-in over either transport, comes out as a refusal and is not retried. |
| `SpoolIsOneFile`, `PressIsHonoured` (`MCSshKnown`) | A rotation whose spool file cannot be created appends the new log to the old generation; a press of Reconnect during a failing attempt is overwritten by that attempt's refusal. |
| `CachedRecordsStay` (`MCTail`) | A reconnect that fails in mid-prime leaves an empty generation under Waiting and the cached records blank. |
| `OneSpoolPerKey` (`MCRegistry`, `MaxSerial = 6`) | A late `forget()` by key removes the entry of a spool opened meanwhile. |
| `CancelIsNotAnOutcome`, `StopIsShown`, `OneContainer`, `AbsenceIsAWait` (`MCArch`) | A stop is reported as a damaged archive or overwritten; a container rotated in mid-expansion is read on from the middle of the new one. |
| `GoodPasswordKept`, `CutNeverRefuses`, `SkipEndsWithRestore`, `SavedPasswordIsTried` (`MCPrompting`) | A link lost in the log-in counts as a rejected password and erases a good one; Skip outlives the restore. |
| `FinishedOnce`, `UnreachedIsRetried`, `SaveRunsOnce`, `UnmarkedIsTheFile`, `OwnSavesAreSilent`, `ChangeIsAlwaysShown` (`MCRemoteWork`) | A restart is reported twice; a save is repeated after a lost link; a page turns unmarked although the disk differs. |
| ten properties of `Consoles` and `ConsoleLogin` (`MCConsoles`) | One abort latch for all logs; a log opened before it exists is never opened again; "Last login:" is taken for a login prompt. |
| `EveryRunIsListed`, `DigestIsNewest`, `DigestStaysInRun`, `CountsAreExact` (`MCRecordView`) | What becomes a run, a match or an error only when its line is completed is missed. |
| `WindowsNeverConflict`, `MapNeverLies`, `SettingsSurvive`, `DeferredAnswerIsRead`, `OnlyAskedEntries`, `ApplyCommitsNothing`, `GestureIsRemembered` (`MCWorkspace`) | Two windows take one slot; the answer about an empty log's format is committed and not read; a wrap mode or config file chosen for a log is not stored; Apply stores the node now and then. |
| `NoNeighbourIsPicked`, `NoCopyMixesRecords`, `DetachedStays`, `FollowingIsAtTheEnd`, `EveryLogIsRemembered`, `EscapeTakesBackTheLast`, `RecordIsOfItsLog`, `SaidOfEveryName`, `RowsAreFiltered`, `EveryBoundKeepsItsMoment` (`MCDesk`) | Rows renumbered without a reset under the current record or a copy; edits lost on Close All; bounds moved twice by one OK. |
| `PanesHoldAnOpenLog`, `SurvivorsKeepTheirPlace`, `PinnedAreTheOpen`, `EditorHidesNoNews`, `TrayIsThere`, `NothingHeldOfARead`, `ShortPathsTellApart`, `NamesakesReadApart`, `CutPrefixesTellApart`, `LabelsAreCurrent`, `ReportIsOfTheQuery`, `StepsMoveOn` (`MCWindow`) | Panes that hold a closed log; alerts counted as read behind an editor page; Find Previous that never moves; elided and dropped components that leave two logs one label. |

## 6. Not modelled

- **Local log source** (`core/MappedLogSource.cpp`, `core/BufferedLogSource.cpp`): the branch
  of the live controller for a local file, with the watcher of the file system.
- **Formats, decoding, timestamps, patterns, colours**: functions of text with tables of
  cases in `src/tests`; a state model adds nothing to those.
- **Geometry and painting**: the estimated heights of word wrap, the density strip, widgets,
  dialogs that only collect values.
- **Small stores** (hosts, presets, serial profiles): JSON files replaced atomically by one
  process; presets appear in `RuleList` as far as rules go.
- **Bytes on the wire**: libssh2, telnet options, serial framing, libarchive: external
  libraries, modelled by what the code expects them to answer.
