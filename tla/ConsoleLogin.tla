---------------------------- MODULE ConsoleLogin ----------------------------
(***************************************************************************)
(* Signing in on a login console: SerialLoginMachine, the loop of          *)
(* ConsoleSession::loginLocked that ticks and feeds it, and a far end that *)
(* is a getty, a password prompt, a shell or a board that is starting.     *)
(* Neither side sees the other's state: what is sent is read when the far  *)
(* end gets to it, what is printed arrives in pieces cut anywhere.         *)
(***************************************************************************)
EXTENDS Naturals, Sequences, SequencesExt

CONSTANTS Startup,     \* how many startup commands the preset has
          Attempts,    \* SerialProfile::attempts
          Motd,        \* what the far end prints when it lets somebody in
          MaxBoots,    \* bound: restarts of the board
          MaxSignIns,  \* bound: sign-ins
          MaxTyped,    \* bound: lines on their way to the far end
          MaxPrinted   \* bound: pieces on their way from it, when it reads a line

ASSUME ConsoleLoginAssumption ==
  /\ {Startup, MaxBoots, MaxTyped, MaxPrinted} \subseteq Nat
  /\ {Attempts, MaxSignIns} \subseteq Nat \ {0}

VARIABLES machine,          \* SerialLoginMachine: step, window, spent, next
          outcome,          \* of loginLocked
          sent, printed,    \* on their way to the far end, and from it
          far, named,       \* the far end, and whether it was given the right name
          ran,              \* the commands it ran in this sign-in, oldest first
          spilled,          \* it read the password as something else
          prompt,           \* it answers within a step's timeout
          hasty,            \* a step timed out that an answer was coming for
          early,            \* the board was still starting when it was opened
          boots, signIns

consoleLoginVars == <<machine, outcome, sent, printed, far, named, ran, spilled, prompt,
                      hasty, early, boots, signIns>>

LoginSteps == {"idle", "probing", "confirm", "user", "password", "startup", "ready", "failed"}
Texts == {"login", "password", "marker", "restart"}    \* what is recognised
Lines == {<<"newline", 0>>, <<"user", 0>>, <<"secret", 0>>, <<"probe", 0>>}
           \cup {<<"command", i>> : i \in 1 .. Startup}

\* A text arrives in two halves that nothing else is printed between.
Halves(t) == <<<<t, 1>>, <<t, 2>>>>
Noise == <<<<"noise", 0>>>>
Pieces == {<<t, i>> : t \in Texts, i \in 1 .. 2} \cup {<<"noise", 0>>}

ASSUME MotdAssumption == Motd \in Seq(Pieces)

ConsoleLoginTypeOK ==
  /\ machine \in [step : LoginSteps, window : Seq(Pieces), spent : 0 .. Attempts,
                  next : 1 .. Startup + 1]
  /\ outcome \in {"going", "in", "refused"}
  /\ sent \in Seq([line : Lines, by : 1 .. MaxSignIns]) /\ printed \in Seq(Pieces)
  /\ far \in {"booting", "getty", "asking", "shell"}
  /\ {named, spilled, prompt, hasty, early} \subseteq BOOLEAN
  /\ ran \in Seq(1 .. Startup) /\ boots \in 0 .. MaxBoots /\ signIns \in 1 .. MaxSignIns

Fresh == [step |-> "idle", window |-> <<>>, spent |-> 0, next |-> 1]

ConsoleLoginInit ==
  /\ machine = Fresh /\ outcome = "going"
  /\ sent = <<>> /\ printed = <<>>
  /\ far \in {"booting", "getty", "asking", "shell"} /\ boots = 0
  /\ early = (far = "booting")
  /\ named \in BOOLEAN /\ (named => far = "asking")
  /\ ran = <<>> /\ spilled = FALSE
  /\ prompt \in BOOLEAN /\ hasty = FALSE /\ signIns = 1

-----------------------------------------------------------------------------
(* SerialLoginMachine: what it becomes, and what it wants done *)

\* Mutant: the window outlives a transition.
EnterKeepsWindow(m, step) == [m EXCEPT !.step = step]

EnterStep(m, step) == [m EXCEPT !.step = step, !.window = <<>>]

Progress(m) == [m EXCEPT !.spent = 0]

Nothing(m)           == [m |-> m, act |-> "wait", line |-> <<>>]
Write(m, line, step) == [m |-> EnterStep(m, step), act |-> "write", line |-> line]
Fail(m)              == [m |-> [m EXCEPT !.step = "failed"], act |-> "fail", line |-> <<>>]

SendNewline(m) == Write(m, <<"newline", 0>>, "probing")
SendProbe(m)   == Write(m, <<"probe", 0>>, "confirm")
SendUser(m)    == Write(m, <<"user", 0>>, "user")
SendSecret(m)  == Write(m, <<"secret", 0>>, "password")

\* A text matches only where both its halves are in the window.
Shows(m, t) == \E i \in 1 .. Len(m.window) - 1 : SubSeq(m.window, i, i + 1) = Halves(t)

-----------------------------------------------------------------------------
(* Mutants: plausible bugs, never part of the specification *)

\* A startup command that is not answered is sent again.
GuessResends(m) ==
  IF m.step = "startup" THEN Write(m, <<"command", m.next - 1>>, "startup")
  ELSE IF m.step = "confirm" THEN SendNewline(m) ELSE SendProbe(m)

\* Something arrived that is no prompt, so it is a shell's.
ClassifyGuesses(m) == IF Shows(m, "login") THEN SendUser(Progress(m))
                      ELSE IF Shows(m, "password") THEN SendSecret(Progress(m))
                      ELSE SendProbe(m)

-----------------------------------------------------------------------------
Classify(m) == IF Shows(m, "login") THEN SendUser(Progress(m))
               ELSE IF Shows(m, "password") THEN SendSecret(Progress(m))
               ELSE Nothing(m)

NextCommand(m) ==
  IF m.next > Startup THEN [m |-> EnterStep(m, "ready"), act |-> "done", line |-> <<>>]
  ELSE Write([m EXCEPT !.next = @ + 1], <<"command", m.next>>, "startup")

AfterUser(m) ==
  IF Shows(m, "password") THEN SendSecret(Progress(m))
  ELSE IF ~Shows(m, "login") THEN Nothing(m)
  ELSE LET spent == [m EXCEPT !.spent = @ + 1]
       IN  IF spent.spent >= Attempts THEN Fail(spent) ELSE SendUser(spent)

AfterPassword(m) == IF Shows(m, "login") THEN Fail(m) ELSE Nothing(m)

Recognise(m) ==
  CASE m.step \in {"idle", "probing"}  -> Classify(m)
    [] m.step = "confirm"  -> IF Shows(m, "marker") THEN NextCommand(Progress(m)) ELSE Classify(m)
    [] m.step = "user"     -> AfterUser(m)
    [] m.step = "password" -> AfterPassword(m)
    [] m.step = "startup"  -> IF Shows(m, "marker") THEN NextCommand(Progress(m)) ELSE Nothing(m)
    [] m.step \in {"ready", "failed"} -> Nothing(m)

\* Of a window nothing was recognised in, a first half at its end is all that can
\* still become a match in this step, and the rest is forgotten here.
Rest(window) == IF window # <<>> /\ Last(window)[2] = 1 THEN <<Last(window)>> ELSE <<>>

\* feed(): the restart outranks everything, in every step but the last.
Feed(before, chunk) ==
  LET m == [before EXCEPT !.window = @ \o chunk]
  IN  IF m.step # "failed" /\ Shows(m, "restart")
      THEN [m |-> [m EXCEPT !.window = <<>>], act |-> "reboot", line |-> <<>>]
      ELSE LET seen == Recognise(m) IN
           IF seen.act = "wait" THEN [seen EXCEPT !.m.window = Rest(@)] ELSE seen

\* tick() once a step has timed out: the guesses, a budget of them.
Guess(m) == IF m.step = "startup" THEN Nothing(m)
            ELSE IF m.step = "confirm" THEN SendNewline(m) ELSE SendProbe(m)

Tick(m, late) ==
  IF m.step \in {"ready", "failed"} THEN Nothing(m)
  ELSE IF m.step = "idle" THEN SendNewline(m)
  ELSE IF ~late THEN Nothing(m)
  ELSE LET spent == [m EXCEPT !.spent = @ + 1]
       IN  IF spent.spent >= Attempts THEN Fail(spent) ELSE Guess(spent)

-----------------------------------------------------------------------------
(* loginLocked() *)

\* Nothing is coming that the far end was asked for.
Owed == sent # <<>> \/ printed # <<>>

\* What a turn's read brings: nothing, a piece, or everything there is.
Arriving == {0, 1, Len(printed)} \cap 0 .. Len(printed)

\* One turn of the loop.  Bytes that arrive in the turn a tick wanted something
\* written, or gave up, replace what it wanted: the line is never written.
LoginTurn ==
  /\ outcome = "going"
  /\ Len(sent) < MaxTyped
  /\ \E late \in BOOLEAN, n \in Arriving :
       LET timed  == late /\ machine.step # "idle"
           ticked == IF machine.step # "idle" \/ printed = <<>>
                     THEN Tick(machine, timed) ELSE Nothing(machine)
           last   == IF n = 0 THEN ticked ELSE Feed(ticked.m, SubSeq(printed, 1, n))
       IN  /\ timed => ~(prompt /\ Owed)
           /\ n > 0 \/ ticked.act # "wait" \/ ticked.m # machine
           /\ hasty' = (hasty \/ (timed /\ Owed))
           /\ printed' = SubSeq(printed, n + 1, Len(printed))
           /\ machine' = IF last.act = "reboot" THEN Fresh ELSE last.m
           /\ ran' = IF last.act = "reboot" THEN <<>> ELSE ran
           /\ sent' = IF last.act = "write" THEN Append(sent, [line |-> last.line, by |-> signIns])
                                               ELSE sent
           /\ outcome' = CASE last.act = "done" -> "in"
                           [] last.act = "fail" -> "refused"
                           [] OTHER -> "going"
  /\ UNCHANGED <<far, named, spilled, prompt, early, boots, signIns>>

\* Signed in, the session goes on feeding the machine; a restart it sees, like a
\* command that gets no answer, drops the session, and so does a refusal.  The next
\* sign-in starts over on whatever the far end is at by then: what it had printed is
\* thrown away with the old link, what is on its way to it is not.
Watch == /\ outcome = "in" /\ printed # <<>>
         /\ \E n \in Arriving \ {0} :
              /\ Feed(machine, SubSeq(printed, 1, n)).act = "wait"
              /\ machine' = Feed(machine, SubSeq(printed, 1, n)).m
              /\ printed' = SubSeq(printed, n + 1, Len(printed))
         /\ UNCHANGED <<outcome, sent, far, named, ran, spilled, prompt, hasty, early,
                        boots, signIns>>

Again == /\ outcome # "going" /\ signIns < MaxSignIns
         /\ outcome = "in" => far # "shell"
         /\ signIns' = signIns + 1
         /\ outcome' = "going" /\ machine' = Fresh /\ ran' = <<>> /\ printed' = <<>>
         /\ UNCHANGED <<sent, far, named, spilled, prompt, hasty, early, boots>>

-----------------------------------------------------------------------------
(* The far end *)

\* What it makes of a line, and prints: a name, a password, a command.  Each
\* machine has a marker of its own, so an earlier one's is only noise to this one.
FarReads ==
  /\ sent # <<>> /\ Len(printed) <= MaxPrinted
  /\ LET line == Head(sent).line
         mine == Head(sent).by = signIns
         Says(text) == printed' = printed \o text
     IN  /\ sent' = Tail(sent)
         /\ spilled' = (spilled \/ (line[1] = "secret" /\ far \in {"getty", "shell"}))
         /\ \/ /\ far = "booting"
               /\ UNCHANGED <<far, named, ran, printed>>
            \/ /\ far = "getty" /\ line[1] = "newline"
               /\ Says(Halves("login")) /\ UNCHANGED <<far, named, ran>>
            \/ /\ far = "getty" /\ line[1] # "newline"
               /\ named' = (line[1] = "user")
               /\ far' = "asking" /\ Says(Halves("password")) /\ UNCHANGED ran
            \/ /\ far = "asking" /\ line[1] = "secret" /\ named
               /\ far' = "shell" /\ named' = FALSE /\ Says(Motd) /\ UNCHANGED ran
            \/ /\ far = "asking" /\ ~(line[1] = "secret" /\ named)
               /\ far' = "getty" /\ named' = FALSE /\ Says(Halves("login")) /\ UNCHANGED ran
            \/ /\ far = "shell" /\ line[1] \in {"probe", "command"}
               /\ ran' = IF mine /\ line[1] = "command" THEN Append(ran, line[2]) ELSE ran
               /\ Says(IF mine THEN Halves("marker") ELSE Noise) /\ UNCHANGED <<far, named>>
            \/ /\ far = "shell" /\ line[1] \notin {"probe", "command"}
               /\ Says(Noise) /\ UNCHANGED <<far, named, ran>>
  /\ UNCHANGED <<machine, outcome, prompt, hasty, early, boots, signIns>>

Restart == /\ far # "booting" /\ boots < MaxBoots
           /\ boots' = boots + 1 /\ far' = "booting" /\ named' = FALSE
           /\ sent' = <<>> /\ printed' = printed \o Halves("restart")
           /\ UNCHANGED <<machine, outcome, ran, spilled, prompt, hasty, early, signIns>>

Started == /\ far = "booting"
           /\ far' = "getty" /\ printed' = printed \o Halves("login")
           /\ UNCHANGED <<machine, outcome, sent, named, ran, spilled, prompt, hasty,
                          early, boots, signIns>>

ConsoleLoginNext == LoginTurn \/ Watch \/ Again \/ FarReads \/ Restart \/ Started

ConsoleLoginSpec == ConsoleLoginInit /\ [][ConsoleLoginNext]_consoleLoginVars

-----------------------------------------------------------------------------
\* The board was started meanwhile, or an answer came after its step had timed out.
Excused == boots > 0 \/ early \/ hasty

\* The password is never read as a user name or as a command, where a login prints
\* it and a log keeps it (SerialLoginMachine::classify; SPEC.md's Diagnostics).
PasswordOnlyWhenAsked == spilled => Excused

\* However late the answers come, a startup command never runs twice in a sign-in,
\* or before the one in front of it, unless the board restarted meanwhile
\* (SPEC.md: "it is never sent twice").
CommandsRunInOrder == boots = 0 => \A i \in DOMAIN ran : ran[i] = i

\* A far end that answers in time is signed in to, and then it is a shell on which
\* every startup command has run (SerialLoginMachine::feed and tick).
SignInSucceeds == outcome # "going" => \/ Excused
                                       \/ /\ outcome = "in" /\ far = "shell"
                                          /\ Len(ran) = Startup

\* What the comments promise without those excuses, and the code does not keep: a
\* newline is harmless while a board is starting, a probe that a login took for a
\* name corrects itself, a command's end is an observation, a failure is told.
NewlineIsHarmless == spilled => boots > 0 \/ hasty
ProbeCorrectsItself == outcome = "refused" /\ boots = 0 => machine.spent >= Attempts
EndIsObserved == outcome = "in" => Len(ran) = Startup
FailureIsTold == machine.step = "failed" => outcome # "going"
=============================================================================
