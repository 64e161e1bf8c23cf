---------------------------- MODULE MCWorkspace ----------------------------
(* The pool of settings records under one window; or two logs, the tree of     *)
(* settings and the Preferences dialog.  A behaviour is of one part.           *)
EXTENDS SettingsPool, LogProfiles

CONSTANTS x, y, z, plain, filtered, a, b, wide, narrow

VARIABLE part

\* A record that holds a profile alone is nothing once a pattern says the same.
OneTrim   == [c \in {plain, filtered} |-> IF c = plain THEN Nothing ELSE c]
OldNames  == [k \in {x, y, z} |-> IF k = x THEN y ELSE Nothing]
Listing   == <<0, 1>>
OneOrTwo  == {{"crash", "write"}, {"map", "newer"}}
Disturbed == {{"crash", "map"}}
Calm      == {{}}

Node(f, r) == [format |-> f, rest |-> r]
TwoPatterns ==
    {[defaults |-> Node(1, 1),
      patterns |-> <<[id |-> narrow, covers |-> {a}, profile |-> Node(2, 1)],
                     [id |-> wide, covers |-> {a, b}, profile |-> Node(1, 2)]>>]}

workspaceVars == <<part, poolVars, profileVars>>

WorkspaceInit ==
    /\ PoolInit /\ ProfileInit
    /\ \/ part = "pool"
       \/ part = "profiles" /\ trouble = CHOOSE t \in Troubles : TRUE

WorkspaceNext ==
    \/ part = "pool" /\ PoolNext /\ UNCHANGED <<part, profileVars>>
    \/ part = "profiles" /\ ProfileNext /\ UNCHANGED <<part, poolVars>>

WorkspaceSpec == WorkspaceInit /\ [][WorkspaceNext]_workspaceVars
=============================================================================
