---------------------------- MODULE MCRemoteWork ----------------------------
(* Two errands on one machine and a script of this machine's; or one config page, *)
(* here or on another machine.  A behaviour is of one part or of the other.       *)
EXTENDS Errands, ConfigPage

CONSTANTS script, config, here, h1, t1, t2, odd

VARIABLE part

OneMachine == [j \in Jobs |-> h1]
Kinds == [j \in Jobs |-> CASE j = script -> "script" [] j = config -> "read" [] OTHER -> "local"]
Saves == [j \in Jobs |-> IF j = config THEN "write" ELSE Kinds[j]]
Together == [j \in Jobs |-> IF j = here THEN 0 ELSE 1]
ConfigTwice == [j \in Jobs |-> IF j = config THEN 2 ELSE 0]
AtHome == [j \in Jobs |-> IF j = here THEN 1 ELSE 0]
ErrandPlans == {Together, ConfigTwice, AtHome}

workVars == <<part, errandVars, configVars>>

WorkInit ==
  /\ ErrandsInit /\ ConfigInit
  /\ \/ part = "errands" /\ ~remote /\ disk.text = Gone
     \/ part = "page" /\ plan = AtHome

WorkNext == \/ part = "errands" /\ ErrandsNext /\ UNCHANGED <<part, configVars>>
            \/ part = "page" /\ ConfigNext /\ UNCHANGED <<part, errandVars>>

\* Each part's fairness; the idle one has nothing it could do, and asks for nothing.
WorkSpec == WorkInit /\ [][WorkNext]_workVars /\ ErrandsFairness /\ ConfigFairness
=============================================================================
