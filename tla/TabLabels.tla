------------------------------ MODULE TabLabels ------------------------------
(***************************************************************************)
(* What an open log is called on its tab, decided for the whole set of     *)
(* open logs each time it changes, and what the recent-files menu calls    *)
(* the ones that were open (TabLabels.cpp; relabelTabs() and the menus in  *)
(* MainWindow.cpp).  A path is a sequence of its directories, root first,  *)
(* a directory and any other text a sequence of pieces, as small as what   *)
(* an elision keeps or cuts; a label is a name and the components of its   *)
(* bracket.                                                                *)
(***************************************************************************)
EXTENDS Integers, Sequences, FiniteSets, SequencesExt, FiniteSetsExt

CONSTANTS
  Addresses,     \* records [bare, host, container, outer, inner]
  Here,          \* the host of a log on this machine
  Plain,         \* the container of a log that is in none
  Unsaved,       \* the name of a host saved under none
  DiscoveredHosts, \* hosts named by discovery and not by a bookmark
  HostNames,     \* names a host may be saved under, or call itself
  MaxRun,        \* kMaxTabQualifierChars, in pieces
  MaxPrefix,     \* kMaxRecentPrefixChars, in pieces
  MaxRecent,     \* kMaxRecentFiles
  MaxShown,      \* bound: logs open at a time
  MaxNamings     \* bound: how often a host changes its name

VARIABLES
  shown,    \* the open logs
  saved,    \* the name of each host, by its bookmark or its last sighting
  named,    \* history: those names when the tabs were last labelled
  worn,     \* ctx->tabLabel of each open log
  recent,   \* the recent files, newest first
  entries,  \* what the menu calls them
  watched,  \* the hosts whose type the discovery watch looks for
  namings   \* counts the bound
labelVars == <<shown, saved, named, worn, recent, entries, watched, namings>>

Hosts == {a.host : a \in Addresses} \ {Here}
DeviceName(h, names) == IF names[h] = Unsaved THEN h ELSE names[h]

----------------------------------------------------------------------------
(* The tab rule.                                                           *)

SharedBy(paths, n, At(_, _)) ==
  \A i \in 1 .. n : Cardinality({At(p, i) : p \in paths}) = 1
FromHead(p, i) == p[i]
FromTail(p, i) == p[Len(p) + 1 - i]
ShortestOf(paths) == Min({Len(p) : p \in paths})
CommonPrefix(paths) == Max({n \in 0 .. ShortestOf(paths) : SharedBy(paths, n, FromHead)})
CommonSuffix(paths) == Max({n \in 0 .. ShortestOf(paths) : SharedBy(paths, n, FromTail)})

\* What is left of a path without what its group shares at both ends.
Residue(p, paths) ==
  LET lo == CommonPrefix(paths)
      hi == Len(p) - CommonSuffix(paths)
  IN IF hi > lo THEN SubSeq(p, lo + 1, hi) ELSE <<>>

\* Above the container, then inside it; each stripped on its own.
PathRun(a, group) ==
  Residue(a.outer, {b.outer : b \in group}) \o Residue(a.inner, {b.inner : b \in group})

ElideMiddle(text, max) ==
  IF Len(text) <= max \/ max < 3 THEN text
  ELSE SubSeq(text, 1, max \div 2) \o <<"...">>
       \o SubSeq(text, Len(text) + 1 - ((max - 1) \div 2), Len(text))

Slashed(dirs) == FlattenSeq([i \in 1 .. Len(dirs) |-> Append(dirs[i], "/")])
RunShown(a, group) ==
  LET text == Slashed(PathRun(a, group))
  IN IF text = <<>> THEN text ELSE ElideMiddle(SubSeq(text, 1, Len(text) - 1), MaxRun)

Axes == {"device", "container", "path"}

LabelFor(a, run, use, names) ==
  LET device == IF "device" \in use /\ a.host # Here THEN <<<<DeviceName(a.host, names)>>>> ELSE <<>>
      inside == IF "container" \in use /\ a.container # Plain THEN <<<<a.container>>>> ELSE <<>>
      path   == IF "path" \in use /\ run # <<>> THEN <<run>> ELSE <<>>
  IN [name |-> a.bare, bracket |-> device \o inside \o path]

DistinctLabels(group, use, names) ==
  Cardinality({LabelFor(a, RunShown(a, group), use, names) : a \in group})

\* The container, then the path, each kept when it tells more of them apart.
Buying(axis, use, group, names) ==
  IF DistinctLabels(group, use \cup {axis}, names) > DistinctLabels(group, use, names)
    THEN use \cup {axis} ELSE use
AxesSpent(group, names) ==
  Buying("path", Buying("container", {"device"}, group, names), group, names)

TabLabelsFor(open, names) ==
  [a \in open |->
     LET group == {b \in open : b.bare = a.bare}
     IN LabelFor(a, RunShown(a, group), AxesSpent(group, names), names)]

----------------------------------------------------------------------------
(* The recent-files rule: as many of the nearest directories as it takes.  *)

BaseOf(a)    == <<a.bare, IF a.container # Plain THEN a.container ELSE a.host>>
ParentsOf(a) == a.outer \o a.inner
Ending(p, n) == SubSeq(p, Len(p) + 1 - (IF n < Len(p) THEN n ELSE Len(p)), Len(p))
PrefixLabel(a, depth) ==
  <<ElideMiddle(Slashed(Ending(ParentsOf(a), depth)), MaxPrefix), BaseOf(a)>>

SameKey(listed, a) == {b \in listed : BaseOf(b) = BaseOf(a)}

PrefixedLabelsFor(listed) ==
  [a \in listed |->
     LET group    == SameKey(listed, a)
         deepest  == Max({Len(ParentsOf(b)) : b \in group})
         parted(n) == Cardinality({PrefixLabel(b, n) : b \in group})
         best     == Max({parted(n) : n \in 0 .. deepest})
     IN PrefixLabel(a, Min({n \in 0 .. deepest : parted(n) = best}))]

----------------------------------------------------------------------------

\* relabelTabs(): the labels, and the watch for the types of the discovered.
RelabelNew(open, names) ==
  LET fresh == TabLabelsFor(open, names)
  IN worn' = [a \in open |-> IF a \in DOMAIN worn THEN worn[a] ELSE fresh[a]]

Relabel(open, names) == worn' = TabLabelsFor(open, names)

RelabelTabs(open, names) ==
  /\ Relabel(open, names) /\ named' = names
  /\ watched' = {a.host : a \in open} \cap DiscoveredHosts

RefreshRecentFilesMenu(list) == entries' = PrefixedLabelsFor(ToSet(list))

LabelsInit ==
  /\ shown = {} /\ saved = [h \in Hosts |-> Unsaved] /\ named = saved
  /\ worn = <<>> /\ recent = <<>> /\ entries = <<>> /\ watched = {} /\ namings = 0

OpenNamed(a) ==
  /\ a \notin shown /\ Cardinality(shown) < MaxShown
  /\ shown' = shown \cup {a}
  /\ RelabelTabs(shown', saved)
  /\ LET list == <<a>> \o SelectSeq(recent, LAMBDA r : r # a)
     IN recent' = SubSeq(list, 1, IF Len(list) < MaxRecent THEN Len(list) ELSE MaxRecent)
  /\ RefreshRecentFilesMenu(recent')
  /\ UNCHANGED <<saved, namings>>

CloseNamed(a) ==
  /\ a \in shown
  /\ shown' = shown \ {a}
  /\ RelabelTabs(shown', saved)
  /\ UNCHANGED <<saved, recent, entries, namings>>

\* Close All: the tabs go unlabelled, the watch is told.
CloseEvery ==
  /\ shown # {} /\ shown' = {} /\ worn' = <<>> /\ watched' = {}
  /\ UNCHANGED <<saved, named, recent, entries, namings>>

\* refreshRemoteHostsMenu() or refreshSerialMenu() after a host was saved,
\* renamed or forgotten.
SaveHost(h, n) ==
  /\ h \in Hosts \ DiscoveredHosts /\ namings < MaxNamings /\ n # saved[h]
  /\ saved' = [saved EXCEPT ![h] = n] /\ namings' = namings + 1
  /\ IF shown = {} THEN UNCHANGED <<worn, named, watched>> ELSE RelabelTabs(shown, saved')
  /\ UNCHANGED <<shown, recent, entries>>

\* A sighting brings a device's name; no tab is told.
Sighted(h, n) ==
  /\ h \in DiscoveredHosts /\ namings < MaxNamings /\ n \notin {saved[h], Unsaved}
  /\ saved' = [saved EXCEPT ![h] = n] /\ namings' = namings + 1
  /\ UNCHANGED <<shown, named, worn, recent, entries, watched>>

ClearRecent ==
  /\ recent # <<>> /\ recent' = <<>> /\ RefreshRecentFilesMenu(<<>>)
  /\ UNCHANGED <<shown, saved, named, worn, watched, namings>>

LabelsNext ==
  \/ \E a \in Addresses : OpenNamed(a) \/ CloseNamed(a)
  \/ \E h \in Hosts, n \in HostNames \cup {Unsaved} : SaveHost(h, n) \/ Sighted(h, n)
  \/ CloseEvery \/ ClearRecent

LabelsSpec == LabelsInit /\ [][LabelsNext]_labelVars

----------------------------------------------------------------------------
(* Properties                                                              *)

LabelsTypeOK ==
  /\ shown \subseteq Addresses /\ DOMAIN worn = shown
  /\ Len(recent) <= MaxRecent /\ DOMAIN entries = ToSet(recent)

Twins(a, b) ==
  /\ a.container = b.container /\ a.outer = b.outer /\ a.inner = b.inner
  /\ (a.host = b.host \/ (Here \notin {a.host, b.host}
                          /\ DeviceName(a.host, named) = DeviceName(b.host, named)))

Namesakes(a) == {b \in shown : b.bare = a.bare}

\* Nothing a bracket has room for tells the two apart.
AlikeAsShown(a, b) ==
  /\ a.container = b.container
  /\ (a.host = Here <=> b.host = Here)
  /\ a.host # Here => DeviceName(a.host, named) = DeviceName(b.host, named)
  /\ RunShown(a, Namesakes(a)) = RunShown(b, Namesakes(a))

\* A host, a container or a run of the group is spelled as another of the three.
Ambiguous(group) ==
  LET devices    == {<<DeviceName(a.host, named)>> : a \in {b \in group : b.host # Here}}
      containers == {<<a.container>> : a \in {b \in group : b.container # Plain}}
      runs       == {RunShown(a, group) : a \in group}
  IN devices \cap containers # {} \/ (devices \cup containers) \cap runs # {}

\* Two open logs wear one label only when nothing a bracket has room for tells
\* them apart: one name for their machines, one container, and of their paths,
\* without the ends their group shares and without the middle that is elided,
\* the same text.  An axis dropped because it told no more of the group apart
\* is then never one the group needed once the next was spent - but where one
\* axis spells what another does (NamesakesReadApart).  A local log no other
\* open log shares its name with wears that name alone, whatever was open
\* beside it before; a remote one always wears the name its machine had at the
\* last labelling.  No two recent files read alike that differ in a directory,
\* while no file of their name has more directories than an entry has room for
\* (tabLabelsFor, prefixedLabelsFor).
LabelsTellApart ==
  /\ \A a, b \in shown :
       (a # b /\ worn[a] = worn[b]) => AlikeAsShown(a, b) \/ Ambiguous(Namesakes(a))
  /\ \A a \in shown :
       /\ (a.host = Here /\ Namesakes(a) = {a}) => worn[a].bracket = <<>>
       /\ a.host # Here => worn[a].bracket # <<>>
                           /\ worn[a].bracket[1] = <<DeviceName(a.host, named)>>
  /\ \A a, b \in DOMAIN entries :
       entries[a] = entries[b] =>
         /\ BaseOf(a) = BaseOf(b)
         /\ \/ ParentsOf(a) = ParentsOf(b)
            \/ \E c \in SameKey(DOMAIN entries, a) : Len(Slashed(ParentsOf(c))) > MaxPrefix

\* No axis that would part two logs is left unspent, whatever the others spell
\* (TabLabels.h: `Axes 2 and 3 are spent only where they BUY a distinction').
NamesakesReadApart ==
  \A a, b \in shown : (a # b /\ worn[a] = worn[b]) => AlikeAsShown(a, b)

\* Logs whose addresses could be told apart are: neither the ends that are
\* stripped nor the middle that is elided ever holds all that does it
\* (TabLabels.h: `Addresses that stay ambiguous after all three').
ShortPathsTellApart ==
  \A a, b \in shown : (a # b /\ worn[a] = worn[b]) => Twins(a, b)

\* A cut prefix never hands two recent files one label (prefixedLabelsFor).
CutPrefixesTellApart ==
  \A a, b \in DOMAIN entries :
     entries[a] = entries[b] => BaseOf(a) = BaseOf(b) /\ ParentsOf(a) = ParentsOf(b)

\* A tab names its machine as that is named now (relabelTabs(): `named by what
\* it last called itself').
LabelsAreCurrent == worn = TabLabelsFor(shown, saved)
=============================================================================
