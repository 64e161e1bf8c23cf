------------------------------ MODULE MCWindow ------------------------------
(* The tab bar and its session, alerts, labels, or two Find bars: a           *)
(* behaviour is of one part.                                                  *)
EXTENDS WindowTabs, Arrivals, TabLabels, FindBar, TLC

CONSTANTS q1, q2

VARIABLE part

Log(host, container, outer, inner) ==
  [bare |-> "app", host |-> host, container |-> container, outer |-> outer, inner |-> inner]

Long(x) == <<"k", "j", x, "m", "z">>

\* A local copy of what is on web1, a member of a container, two directories whose long
\* names differ in the middle, and logs of other machines.
MCAddresses ==
  { Log("here", "plain", <<<<"srv">>, <<"a">>>>, <<>>),
    Log("here", "plain", <<<<"srv">>, <<"web1">>>>, <<>>),
    Log("here", "plain", <<<<"srv">>, Long("1")>>, <<>>),
    Log("here", "plain", <<<<"srv">>, Long("2")>>, <<>>),
    Log("here", "zip", <<<<"srv">>, <<"a">>>>, <<<<"x">>>>),
    Log("web1", "plain", <<<<"srv">>>>, <<>>),
    Log("web2", "plain", <<<<"srv">>>>, <<>>),
    Log("cam1", "plain", <<>>, <<>>) }

\* One path is the beginning and the end of the other.
OverlappingAddresses ==
  { Log("here", "plain", <<<<"a">>>>, <<>>), Log("here", "plain", <<<<"a">>, <<"a">>>>, <<>>),
    Log("cam1", "plain", <<>>, <<>>) }

\* The first match lies within the rows that are counted, the last beyond.
MCHits == (q1 :> {1, 3}) @@ (q2 :> {2})

windowVars == <<part, tabVars, alertVars, labelVars, findVars>>

WindowInit ==
  /\ part \in {"tabs", "alerts", "labels", "find"}
  /\ TabInit /\ LabelsInit /\ FindInit /\ \E svc \in BOOLEAN : (part # "alerts" => svc) /\ ArrivalsInit(svc)

WindowNext ==
  \/ part = "tabs" /\ TabNext /\ UNCHANGED <<part, alertVars, labelVars, findVars>>
  \/ part = "alerts" /\ ArrivalsNext /\ UNCHANGED <<part, tabVars, labelVars, findVars>>
  \/ part = "labels" /\ LabelsNext /\ UNCHANGED <<part, tabVars, alertVars, findVars>>
  \/ part = "find" /\ FindNext /\ UNCHANGED <<part, tabVars, alertVars, labelVars>>

WindowSpec == WindowInit /\ [][WindowNext]_windowVars
=============================================================================
