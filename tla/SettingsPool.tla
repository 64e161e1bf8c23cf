---------------------------- MODULE SettingsPool ----------------------------
(* The pool of per-log settings records (LogFileStore): a numbered slot file   *)
(* for each remembered log, and one map file that says which log is in which   *)
(* slot.  Each file is replaced atomically; the pair is not.  Every window of  *)
(* the program keeps its own copy of the map, nothing coordinates the windows, *)
(* and a process may die between any two writes.                               *)
(*                                                                             *)
(* The recency tick of an entry is the entry's place in the sequence: the      *)
(* least recently opened log comes first.                                      *)
EXTENDS Naturals, Sequences, FiniteSets, SequencesExt

CONSTANTS
    Keys,        \* the addresses settings are filed under
    Slots,       \* the numbers a slot file may have
    DirOrder,    \* the slots, in the order a directory listing names them
    Instances,   \* the windows that may run
    Contents,    \* what a record may say
    Trim,        \* what is left of a record once a pattern says its profile
    Legacy,      \* the spelling an older build filed a log under, or Nothing
    Nothing,     \* no record, no file, no spelling
    Unsure,      \* a write that was cut short: either answer is right
    Openable,    \* the logs that may be open in a tab
    Troubles     \* what may go wrong in one behaviour: sets of "crash" (a
                 \* window dies), "write" (the disk is full), "map" (the map
                 \* is lost) and "newer" (a newer version has used the pool)

Entry   == [key : Keys, slot : Slots]
Records == [key : Keys, says : Contents, newer : BOOLEAN]
\* The second write of an operation: the map after a slot file, or the removal
\* of a slot file after the map.
Flushes == [kind : {"flush"}, key : Keys \cup {Nothing}, says : Contents \cup {Nothing}]
Unlinks == [kind : {"unlink"}, slot : Slots]

ASSUME PoolAssumption ==
    /\ Slots \subseteq Nat /\ IsFiniteSet(Slots)
    /\ DirOrder \in Seq(Slots) /\ Slots = {DirOrder[n] : n \in DOMAIN DirOrder}
    /\ Legacy \in [Keys -> Keys \cup {Nothing}] /\ Openable \subseteq Keys
    /\ Trim \in [Contents -> Contents \cup {Nothing}]
    /\ Nothing \notin Keys \cup Contents /\ Unsure \notin Contents \cup {Nothing}
    /\ Nothing \notin Records \cup Flushes \cup Unlinks /\ Nothing \notin Seq(Entry)

VARIABLES
    slot,     \* each slot file: a record that names its log, or Nothing
    map,      \* the map file: its entries, or Nothing while there is none
    newerMap, \* the map file carries a newer version's stamp
    pool,     \* each window's store: its entries and what it knows
    job,      \* the second write an operation still owes, or Nothing
    promised, \* what the last completed save of a log asked to keep
    alone,    \* no two windows have run at once
    trouble   \* what may go wrong in this behaviour

poolVars == <<slot, map, newerMap, pool, job, promised, alone, trouble>>

WritesFail  == "write" \in trouble
NewerBuilds == "newer" \in trouble

Closed  == [up |-> FALSE, entries |-> <<>>, dirty |-> FALSE, pinned |-> {},
            newer |-> {}, readOnly |-> FALSE]

PoolTypeOK ==
    /\ slot \in [Slots -> Records \cup {Nothing}]
    /\ map = Nothing \/ map \in Seq(Entry)
    /\ newerMap \in BOOLEAN /\ alone \in BOOLEAN
    /\ \A i \in Instances : /\ pool[i].entries \in Seq(Entry)
                            /\ pool[i].pinned \subseteq Keys
    /\ promised \in [Keys -> Contents \cup {Nothing, Unsure}]

-----------------------------------------------------------------------------
(* Lookups in one window's copy of the map. *)

(* The entries at the places S, in their order; joined to the empty sequence,
   which has TLC compute them once and not at every use. *)
Picked(es, S) ==
    [k \in 1..Cardinality(S) |->
        es[CHOOSE n \in S : Cardinality({m \in S : m <= n}) = k]] \o <<>>

Has(es, k)       == \E n \in DOMAIN es : es[n].key = k
EntryOf(es, k)   == es[CHOOSE n \in DOMAIN es : es[n].key = k]
Without(es, k)   == Picked(es, {n \in DOMAIN es : es[n].key # k})
Taken(es)        == {es[n].slot : n \in DOMAIN es}
WithEntry(es, k, s) == es \o <<[key |-> k, slot |-> s]>>

\* An eviction that forgets which logs are open.
VictimsEvenOpen(es, pinned, spared) == {n \in DOMAIN es : es[n].key \notin spared}

\* The least recently opened log that is not open, one a newer version wrote
\* only when there is no other.
Victims(es, pinned, spared) ==
    {n \in DOMAIN es : es[n].key \notin pinned \cup spared}

VictimOf(es, pinned, newer) ==
    LET first == Victims(es, pinned, newer)
        any   == Victims(es, pinned, {})
    IN  IF first # {} THEN es[Min(first)] ELSE es[Min(any)]

CanAllocate(es, pinned) == Slots \ Taken(es) # {} \/ Victims(es, pinned, {}) # {}

\* The slot a new record takes, and the entries once it is free to be taken.
AllocateSlot(es, pinned, newer) ==
    IF Slots \ Taken(es) # {}
    THEN [slot |-> Min(Slots \ Taken(es)), entries |-> es]
    ELSE LET v == VictimOf(es, pinned, newer)
         IN  [slot |-> v.slot, entries |-> Without(es, v.key)]

\* The record a file is accepted as for a log: only one that names that log.
Verified(k, f) == f # Nothing /\ f.key = k

\* The map a window makes of the slot files when there is no map to read.
FoundIn(files) ==
    LET named(n) == files[DirOrder[n]] # Nothing
        first(n) == \A m \in 1..(n - 1) :
                        named(m) => files[DirOrder[m]].key # files[DirOrder[n]].key
        found == Picked(DirOrder, {n \in DOMAIN DirOrder : named(n) /\ first(n)})
    IN  [n \in 1..Len(found) |-> [key |-> files[found[n]].key, slot |-> found[n]]]

-----------------------------------------------------------------------------
PoolInit ==
    /\ slot = [s \in Slots |-> Nothing]
    /\ map = Nothing /\ newerMap = FALSE
    /\ pool = [i \in Instances |-> Closed]
    /\ job = [i \in Instances |-> Nothing]
    /\ promised = [k \in Keys |-> Nothing]
    /\ alone = TRUE
    /\ trouble \in Troubles

Idle(i)  == pool[i].up /\ job[i] = Nothing
Usable(i) == Idle(i) /\ ~pool[i].readOnly

\* A store that looks at the map's stamp only.
WritableAnyRecord(i, k) == Usable(i)

\* A record written by a newer version is not ours to write over.
Writable(i, k) == Usable(i) /\ k \notin pool[i].newer

Load(i) ==
    /\ ~pool[i].up
    /\ LET rebuilt == FoundIn(slot)
           read    == IF newerMap THEN [es |-> <<>>, dirty |-> FALSE]
                      ELSE IF map = Nothing
                           THEN [es |-> rebuilt, dirty |-> rebuilt # <<>>]
                           ELSE [es |-> map, dirty |-> FALSE]
       IN  pool' = [pool EXCEPT ![i] = [Closed EXCEPT !.up = TRUE,
                        !.entries = read.es, !.dirty = read.dirty,
                        !.readOnly = newerMap]]
    /\ alone' = (alone /\ \A j \in Instances : ~pool[j].up)
    /\ UNCHANGED <<slot, map, newerMap, job, promised, trouble>>

\* The process ends, between two gestures or between two writes of one.
Die(i) ==
    /\ "crash" \in trouble /\ pool[i].up
    /\ pool' = [pool EXCEPT ![i] = Closed]
    /\ job' = [job EXCEPT ![i] = Nothing]
    /\ UNCHANGED <<slot, map, newerMap, promised, alone, trouble>>

\* The window is closed: the session's save flushes the map.
Quit(i) ==
    /\ Idle(i)
    /\ map' = IF pool[i].dirty /\ ~pool[i].readOnly THEN pool[i].entries ELSE map
    /\ pool' = [pool EXCEPT ![i] = Closed]
    /\ UNCHANGED <<slot, newerMap, job, promised, alone, trouble>>

\* The logs open in tabs have changed.
SetPinned(i, ks) ==
    /\ Idle(i) /\ ks # pool[i].pinned
    /\ pool' = [pool EXCEPT ![i].pinned = ks]
    /\ UNCHANGED <<slot, map, newerMap, job, promised, alone, trouble>>

\* A log has been opened: its entry becomes the most recent, in memory.
Touch(i, k) ==
    /\ Idle(i) /\ Has(pool[i].entries, k)
    /\ Last(pool[i].entries).key # k
    /\ pool' = [pool EXCEPT
           ![i].entries = WithEntry(Without(@, k), k, EntryOf(@, k).slot),
           ![i].dirty = TRUE]
    /\ UNCHANGED <<slot, map, newerMap, job, promised, alone, trouble>>

\* One log's record.  An entry whose file is missing or names another log is
\* dropped; a record of a newer version answers as nothing and is remembered.
Read(i, k) ==
    /\ Usable(i) /\ Has(pool[i].entries, k)
    /\ LET f == slot[EntryOf(pool[i].entries, k).slot]
       IN  IF f # Nothing /\ f.newer
           THEN pool' = [pool EXCEPT ![i].newer = @ \cup {k}]
           ELSE /\ ~Verified(k, f)
                /\ pool' = [pool EXCEPT ![i].entries = Without(@, k),
                                        ![i].dirty = TRUE]
    /\ UNCHANGED <<slot, map, newerMap, job, promised, alone, trouble>>

\* A log found only under its old spelling: its record is copied, never moved.
\* The old spelling may not be the one evicted for the copy.
AdoptLegacyKey(i, k) ==
    LET p  == pool[i]
        l  == Legacy[k]
        f  == slot[EntryOf(p.entries, l).slot]
        to == AllocateSlot(p.entries, p.pinned \cup {l}, p.newer)
    IN  /\ Usable(i) /\ ~Has(p.entries, k) /\ l # Nothing /\ l # k
        /\ Has(p.entries, l)
        /\ \/ /\ f # Nothing /\ f.newer
              /\ pool' = [pool EXCEPT ![i].newer = @ \cup {l}]
              /\ UNCHANGED <<slot, job, promised>>
           \/ /\ ~(f # Nothing /\ f.newer) /\ ~Verified(l, f)
              /\ pool' = [pool EXCEPT ![i].entries = Without(@, l),
                                      ![i].dirty = TRUE]
              /\ UNCHANGED <<slot, job, promised>>
           \/ /\ f # Nothing /\ ~f.newer /\ Verified(l, f)
              /\ CanAllocate(p.entries, p.pinned \cup {l})
              /\ slot' = [slot EXCEPT ![to.slot] = [f EXCEPT !.key = k]]
              /\ pool' = [pool EXCEPT
                     ![i].entries = WithEntry(to.entries, k, to.slot),
                     ![i].dirty = TRUE]
              /\ job' = [job EXCEPT ![i] =
                     [kind |-> "flush", key |-> k, says |-> f.says]]
              /\ promised' = [x \in Keys |-> IF x = k THEN Unsure
                            ELSE IF /\ Has(p.entries, x)
                                    /\ ~Has(to.entries, x)
                                    /\ x \notin p.pinned
                                 THEN Nothing ELSE promised[x]]
    /\ UNCHANGED <<map, newerMap, alone, trouble>>

-----------------------------------------------------------------------------
(* Saving: the slot file first, the map second. *)

\* A record that says something is stored.  A log with no entry is given a slot,
\* and keeps its entry even when the write then fails.
Save(i, k, c) ==
    LET p     == pool[i]
        known == Has(p.entries, k)
        to    == IF known THEN [slot |-> EntryOf(p.entries, k).slot,
                                entries |-> p.entries]
                 ELSE AllocateSlot(p.entries, p.pinned, p.newer)
        next  == IF known THEN p.entries ELSE WithEntry(to.entries, k, to.slot)
        kept  == [x \in Keys |->
                    IF Has(p.entries, x) /\ ~Has(next, x) /\ x \notin p.pinned
                    THEN Nothing ELSE promised[x]]
    IN  /\ Writable(i, k)
        /\ known \/ CanAllocate(p.entries, p.pinned)
        /\ pool' = [pool EXCEPT ![i].entries = next,
                                ![i].dirty = @ \/ ~known]
        /\ \/ /\ slot' = [slot EXCEPT ![to.slot] =
                              [key |-> k, says |-> c, newer |-> FALSE]]
              /\ job' = [job EXCEPT ![i] =
                              [kind |-> "flush", key |-> k, says |-> c]]
              /\ promised' = [kept EXCEPT ![k] = Unsure]
           \/ /\ WritesFail
              /\ promised' = kept
              /\ UNCHANGED <<slot, job>>
        /\ UNCHANGED <<map, newerMap, alone, trouble>>

\* The map is written, if anything has moved in it.
Flush(i) ==
    /\ Idle(i) /\ pool[i].dirty /\ ~pool[i].readOnly
    /\ map' = pool[i].entries
    /\ pool' = [pool EXCEPT ![i].dirty = FALSE]
    /\ UNCHANGED <<slot, newerMap, job, promised, alone, trouble>>

\* The map write that ends a save, an adoption or a sweep.
FinishSave(i) ==
    /\ job[i] # Nothing /\ job[i].kind = "flush"
    /\ \/ /\ map' = IF pool[i].dirty THEN pool[i].entries ELSE map
          /\ pool' = [pool EXCEPT ![i].dirty = FALSE]
          /\ promised' = IF job[i].key \in Keys
                     THEN [promised EXCEPT ![job[i].key] = job[i].says] ELSE promised
       \/ /\ WritesFail /\ pool[i].dirty
          /\ UNCHANGED <<map, pool, promised>>
    /\ job' = [job EXCEPT ![i] = Nothing]
    /\ UNCHANGED <<slot, newerMap, alone, trouble>>

\* A record with nothing left to say is dropped: the map first, the file second.
DropRecord(i, k) ==
    /\ Writable(i, k) /\ Has(pool[i].entries, k)
    /\ LET es == Without(pool[i].entries, k)
       IN  \/ /\ map' = es
              /\ pool' = [pool EXCEPT ![i].entries = es, ![i].dirty = FALSE]
           \/ /\ WritesFail
              /\ pool' = [pool EXCEPT ![i].entries = es, ![i].dirty = TRUE]
              /\ UNCHANGED map
    /\ job' = [job EXCEPT ![i] =
           [kind |-> "unlink", slot |-> EntryOf(pool[i].entries, k).slot]]
    /\ promised' = [promised EXCEPT ![k] = Nothing]
    /\ UNCHANGED <<slot, newerMap, alone, trouble>>

FinishDrop(i) ==
    /\ job[i] # Nothing /\ job[i].kind = "unlink"
    /\ slot' = [slot EXCEPT ![job[i].slot] = Nothing]
    /\ job' = [job EXCEPT ![i] = Nothing]
    /\ UNCHANGED <<map, newerMap, pool, promised, alone, trouble>>

\* The sweep after the patterns moved: the profile of every log in ks has
\* fallen into line.  Files are rewritten and deleted as they are met, the map
\* is written once at the end.
PruneAgainst(i, ks) ==
    LET p       == pool[i]
        fileOf(k) == slot[EntryOf(p.entries, k).slot]
        swept   == {k \in Keys : Has(p.entries, k)}
        future  == {k \in swept : fileOf(k) # Nothing /\ fileOf(k).newer}
        lost    == {k \in swept \ future : ~Verified(k, fileOf(k))}
        moved   == {k \in ks \cap (swept \ (future \cup lost)) :
                        Trim[fileOf(k).says] # fileOf(k).says}
        emptied == {k \in moved : Trim[fileOf(k).says] = Nothing}
        left    == Picked(p.entries, {n \in DOMAIN p.entries :
                                        p.entries[n].key \notin lost \cup emptied})
        slotsOf(S) == {EntryOf(p.entries, k).slot : k \in S}
    IN  /\ Usable(i) /\ ks \subseteq swept /\ moved # {}
        /\ slot' = [s \in Slots |->
               IF s \in slotsOf(emptied) THEN Nothing
               ELSE IF s \in slotsOf(moved)
                    THEN [slot[s] EXCEPT !.says = Trim[@]]
                    ELSE slot[s]]
        /\ pool' = [pool EXCEPT ![i].entries = left,
                                ![i].newer = @ \cup future,
                                ![i].dirty = @ \/ left # p.entries]
        /\ promised' = [k \in Keys |->
               IF k \in moved /\ promised[k] \in Contents THEN Trim[promised[k]]
               ELSE promised[k]]
        /\ job' = [job EXCEPT ![i] =
               [kind |-> "flush", key |-> Nothing, says |-> Nothing]]
        /\ UNCHANGED <<map, newerMap, alone, trouble>>

-----------------------------------------------------------------------------
(* What happens to the files while nobody looks. *)

LoseMap ==
    /\ \A i \in Instances : ~pool[i].up
    /\ "map" \in trouble /\ map # Nothing /\ ~newerMap
    /\ map' = Nothing
    /\ UNCHANGED <<slot, newerMap, pool, job, promised, alone, trouble>>

\* A newer version runs, and rewrites a record, or the map, in its own format.
NewerRecord(s) ==
    /\ NewerBuilds /\ \A i \in Instances : ~pool[i].up
    /\ slot[s] # Nothing /\ ~slot[s].newer
    /\ slot' = [slot EXCEPT ![s].newer = TRUE]
    /\ promised' = [promised EXCEPT ![slot[s].key] = Unsure]
    /\ UNCHANGED <<map, newerMap, pool, job, alone, trouble>>

NewerMap ==
    /\ NewerBuilds /\ \A i \in Instances : ~pool[i].up
    /\ map # Nothing
    /\ newerMap' = ~newerMap
    /\ UNCHANGED <<slot, map, pool, job, promised, alone, trouble>>

PoolNext ==
    \/ LoseMap \/ NewerMap
    \/ \E s \in Slots : NewerRecord(s)
    \/ \E i \in Instances :
        \/ Load(i) \/ Die(i) \/ Quit(i) \/ Flush(i) \/ FinishSave(i) \/ FinishDrop(i)
        \/ \E ks \in SUBSET Keys : PruneAgainst(i, ks)
        \/ \E ks \in SUBSET Openable : SetPinned(i, ks)
        \/ \E k \in Keys :
            \/ Touch(i, k) \/ Read(i, k) \/ AdoptLegacyKey(i, k) \/ DropRecord(i, k)
            \/ \E c \in Contents : Save(i, k, c)

PoolSpec == PoolInit /\ [][PoolNext]_poolVars

-----------------------------------------------------------------------------
\* What a window's read of a log answers.
Answer(i, k) ==
    IF ~pool[i].readOnly /\ Has(pool[i].entries, k)
    THEN LET f == slot[EntryOf(pool[i].entries, k).slot]
         IN  IF Verified(k, f) /\ ~f.newer THEN f.says ELSE Nothing
    ELSE Nothing

\* The window would answer what the last completed save asked to keep.
Kept(i) == \A k \in Keys : promised[k] \in Contents => Answer(i, k) = promised[k]

(* While one window runs at a time, however its processes end, whatever writes *)
(* fail and even when the map is lost, a log whose save completed reads back   *)
(* exactly that record, until it is removed, swept or, closed, evicted         *)
(* (LogFileStore.h: every crash ends at an orphan).                            *)
SettingsSurvive ==
    alone => \A i \in Instances : Idle(i) /\ ~pool[i].readOnly => Kept(i)

(* The same promise with several windows reading different logs                *)
(* (SPEC.md: per-file state is kept per file, so instances viewing different   *)
(* logs never conflict).                                                       *)
WindowsNeverConflict ==
    \A i \in Instances : Idle(i) /\ ~pool[i].readOnly => Kept(i)

(* The forbidden direction: no entry of the map file names a slot whose file   *)
(* belongs to another log.                                                     *)
MapNeverLies ==
    map # Nothing =>
        \A n \in DOMAIN map : LET f == slot[map[n].slot]
                              IN  f # Nothing => f.key = map[n].key

(* A record that a newer version wrote, of a log this window has open and has  *)
(* tried to read, is not rewritten, removed or given away by this window.      *)
NewerIsLeftAlone ==
    [][alone => \A i \in Instances : \A n \in DOMAIN pool[i].entries :
         LET e == pool[i].entries[n]
         IN  (/\ slot[e.slot] # Nothing /\ slot[e.slot].newer
              /\ slot[e.slot].key = e.key
              /\ e.key \in pool[i].newer \cap pool[i].pinned)
             => slot'[e.slot] = slot[e.slot]]_poolVars
=============================================================================
