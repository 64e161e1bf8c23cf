---------------------------- MODULE MCPrompting ----------------------------
(* Two workers and the application thread put questions through the gate; or  *)
(* two workers sign in to one host. A behaviour is of one part or the other.  *)
EXTENDS GuiCallGate, SshLogin

CONSTANTS w1, w2, h1

VARIABLE part

OneHost == [w \in {w1, w2} |-> h1]
OnceEach == [w \in {w1, w2} |-> 1]

promptVars == <<part, vars, loginVars>>

PromptInit ==
  /\ Init /\ LoginInit
  /\ \/ part = "login"
     \/ /\ part = "gate" /\ saved = {} /\ wallet = [h \in Hosts |-> NoPassword]
        /\ \A h \in Hosts : offers[h] = "key" /\ known[h] = "match"

PromptNext == \/ part = "gate" /\ Next /\ UNCHANGED <<part, loginVars>>
              \/ part = "login" /\ LoginNext /\ UNCHANGED <<part, vars>>

\* Each part's fairness. An idle sign-in has nothing a worker could do until it
\* is told to connect, and an idle gate nothing it could deliver.
PromptSpec == PromptInit /\ [][PromptNext]_promptVars /\ Fairness /\ LoginFairness
=============================================================================
