---------------------------- MODULE GateContract ----------------------------
(***************************************************************************)
(* What a worker thread may count on when it puts a question to the        *)
(* application thread (GuiCallGate.h): its call returns once, true when    *)
(* the work has run from start to end and false when it never started; one *)
(* question is served at a time; a close refuses what has not started.     *)
(* The detailed gate is GuiCallGate; SshLogin is built on this contract.   *)
(***************************************************************************)
CONSTANT Askers

VARIABLES ask,      \* what became of each worker's question
          open      \* the gate accepts calls

gateVars == <<ask, open>>

Resting == {"idle", "yes", "no"}

GateOK == /\ ask \in [Askers -> Resting \cup {"asked", "doomed", "served"}]
          /\ open \in BOOLEAN

GateInit == /\ ask = [w \in Askers |-> "idle"]
            /\ open = TRUE

\* call(): the question is queued, whether or not a close got in between.
Ask(w) == /\ ask[w] \in Resting
          /\ ask' = [ask EXCEPT ![w] = "asked"]
          /\ UNCHANGED open

\* call() on a closed gate.
TurnAway(w) == /\ ask[w] \in Resting
               /\ ~open
               /\ ask' = [ask EXCEPT ![w] = "no"]
               /\ UNCHANGED open

\* The application thread takes the question up: nobody else is being served.
Begin(w) == /\ ask[w] = "asked"
            /\ \A v \in Askers : ask[v] # "served"
            /\ ask' = [ask EXCEPT ![w] = "served"]
            /\ UNCHANGED open

End(w) == /\ ask[w] = "served"
          /\ ask' = [ask EXCEPT ![w] = "yes"]
          /\ UNCHANGED open

\* A worker learns that its question will not be put.
Refuse(w) == /\ ask[w] = "doomed" \/ (ask[w] = "asked" /\ ~open)
             /\ ask' = [ask EXCEPT ![w] = "no"]
             /\ UNCHANGED open

Close == /\ open' = FALSE
         /\ ask' = [w \in Askers |-> IF ask[w] = "asked" THEN "doomed" ELSE ask[w]]

Readmit == /\ open' = TRUE
           /\ UNCHANGED ask

GateNext == \/ \E w \in Askers : \/ Ask(w) \/ TurnAway(w) \/ Begin(w)
                                  \/ End(w) \/ Refuse(w)
            \/ Close
            \/ Readmit

GateSpec == GateInit /\ [][GateNext]_gateVars

=============================================================================
