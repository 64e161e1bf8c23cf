----------------------------- MODULE MCConsoles -----------------------------
(* Two logs on one device; or one sign-in after another on its console.  A  *)
(* behaviour is of one part or of the other.                                *)
EXTENDS Consoles, ConsoleLogin

CONSTANTS l1, l2

VARIABLE part

QuietMotd == Noise
LastLogin == Halves("login")   \* "Last login: ..." is what the default pattern matches

deskVars == <<part, consoleVars, consoleLoginVars>>

\* Two commands fail or two logs are given up; or the device changes once.
EitherBudget == \/ trouble = 0 /\ changes = MaxChanges
                \/ trouble = MaxTrouble /\ changes = 0

DeskInit ==
  /\ ConsolesInit /\ ConsoleLoginInit
  /\ \/ part = "logs" /\ EitherBudget /\ up /\ far = "shell" /\ prompt
     \/ part = "login" /\ ~up /\ file = [l \in Logs |-> 1] /\ trouble = 0 /\ changes = 0

DeskNext == \/ part = "logs" /\ ConsolesNext /\ UNCHANGED <<part, consoleLoginVars>>
            \/ part = "login" /\ ConsoleLoginNext /\ UNCHANGED <<part, consoleVars>>

\* The workers run, where the part is theirs.
DeskSpec == /\ DeskInit /\ [][DeskNext]_deskVars
            /\ \A l \in Logs : WF_consoleVars(part = "logs" /\ Worker(l))
=============================================================================
