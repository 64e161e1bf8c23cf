------------------------------ MODULE SshLogin ------------------------------
(***************************************************************************)
(* Signing in to a host.  Fetchers and errands connect on threads of their *)
(* own, one at a time to each host (SshConnectHold); the ladder of         *)
(* SshSession::authenticate() runs on the worker, and each question in it  *)
(* crosses to the application thread through the gate, whose contract is   *)
(* GateContract.  Passwords are the versions the server has had.           *)
(***************************************************************************)
EXTENDS GateContract, Naturals, FiniteSets

CONSTANTS Hosts, HostOf,   \* HostOf: the target each worker connects to
          Nobody, No, Yes, \* no worker; a reply that is no password
          MaxAttempts,     \* bound: the connects each worker makes
          MaxMishaps       \* bound: links lost in mid-login and passwords changed

ASSUME LoginAssumption == /\ HostOf \in [Askers -> Hosts]
                          /\ Nobody \notin Askers
                          /\ MaxAttempts \in [Askers -> Nat] /\ MaxMishaps \in Nat

NoPassword == 0
Passwords == NoPassword .. MaxMishaps + 1

VARIABLES step, attended, attempts, mishaps,
          link,            \* "cut" once the connection is lost or aborted
          tries,           \* passwords typed and rejected in this login
          reply,           \* what the application thread answered
          shown,           \* where the dialog said the password would be kept
          result,          \* of the last attempt
          holder,          \* SshConnectHold: who connects to the host
          server,          \* the password the host accepts
          offers,          \* what userauth_list() answers
          known,           \* what known_hosts says of the host's key
          cache, typed,    \* SshCredentialCache; typed: put there by a dialog
          wallet, probe,   \* the keychain's entry; available(), once asked
          file, saved,     \* the bookmark's password; the hosts with a bookmark
          bulk, allSkipped, skipped  \* GuiSshPrompter at a session restore

mine   == <<step, attended, attempts, mishaps, link, tries, reply, shown, result>>
stores == <<cache, typed, wallet, probe, file>>
world  == <<server, offers, known, saved>>
asker  == <<bulk, allSkipped, skipped>>
loginVars == <<gateVars, mine, holder, stores, world, asker>>

Questions == {"key?", "wallet?", "erase?", "dialog?", "store?"}
Steps == {"idle", "hold", "key", "auth", "cached"} \cup Questions
Results == {"none", "in", "refused", "person", "unreachable"}

LoginTypeOK ==
  /\ GateOK
  /\ step \in [Askers -> Steps] /\ attended \in [Askers -> BOOLEAN]
  /\ attempts \in [Askers -> Nat] /\ mishaps \in 0 .. MaxMishaps
  /\ link \in [Askers -> {"none", "up", "cut"}] /\ tries \in [Askers -> 0 .. 2]
  /\ reply \in [Askers -> {No, Yes} \cup Passwords]
  /\ shown \in [Askers -> {"nowhere", "wallet", "file"}]
  /\ result \in [Askers -> Results]
  /\ holder \in [Hosts -> Askers \cup {Nobody}]
  /\ server \in [Hosts -> Passwords \ {NoPassword}]
  /\ offers \in [Hosts -> {"key", "password", "nothing"}]
  /\ known \in [Hosts -> {"match", "mismatch", "absent"}]
  /\ cache \in [Hosts -> Passwords] /\ typed \subseteq Hosts
  /\ wallet \in [Hosts -> Passwords] /\ probe \in {"unasked", "answers", "silent"}
  /\ file \in [Hosts -> Passwords] /\ saved \subseteq Hosts
  /\ bulk \in BOOLEAN /\ allSkipped \in BOOLEAN /\ skipped \subseteq Hosts

LoginInit ==
  /\ GateInit
  /\ step = [w \in Askers |-> "idle"] /\ attended = [w \in Askers |-> FALSE]
  /\ attempts = [w \in Askers |-> 0] /\ mishaps = 0
  /\ link = [w \in Askers |-> "none"] /\ tries = [w \in Askers |-> 0]
  /\ reply = [w \in Askers |-> No] /\ shown = [w \in Askers |-> "nowhere"]
  /\ result = [w \in Askers |-> "none"]
  /\ holder = [h \in Hosts |-> Nobody]
  /\ server = [h \in Hosts |-> 1]
  /\ offers \in [Hosts -> {"key", "password", "nothing"}]
  /\ known \in [Hosts -> {"match", "mismatch", "absent"}]
  /\ cache = [h \in Hosts |-> NoPassword] /\ typed = {}
  /\ wallet \in [Hosts -> {NoPassword, 1}] /\ probe = "unasked"
  /\ saved \in SUBSET Hosts
  /\ file \in {f \in [Hosts -> {NoPassword, 1}] : \A h \in Hosts : f[h] # NoPassword => h \in saved}
  /\ bulk \in BOOLEAN /\ allSkipped = FALSE /\ skipped = {}

-----------------------------------------------------------------------------
(* Mutants: plausible bugs, never part of the specification *)

\* Connects to one host are not serialised.
HostFreeAlways(h) == TRUE

\* A keychain that refuses is replaced by the file.
FileMayKeepAnyway(h) == h \in saved

\* The hold is released by a login that succeeds only.
ReleasedIfIn(w, r) ==
  [h \in Hosts |-> IF holder[h] = w /\ r = "in" THEN Nobody ELSE holder[h]]

-----------------------------------------------------------------------------
(* The worker *)

Go(w, s) == step' = [step EXCEPT ![w] = s]

Released(w, r) == [h \in Hosts |-> IF holder[h] = w THEN Nobody ELSE holder[h]]

\* The attempt is over, with success or a Failure; the session is torn down or
\* handed on, and the hold goes with the frame that took it.
Finish(w, r) == /\ Go(w, "idle")
                /\ result' = [result EXCEPT ![w] = r]
                /\ link' = [link EXCEPT ![w] = "none"]
                /\ holder' = Released(w, r)
                /\ reply' = [reply EXCEPT ![w] = No]
                /\ shown' = [shown EXCEPT ![w] = "nowhere"]
                /\ tries' = [tries EXCEPT ![w] = 0]

\* The attempt goes on with the next step of the ladder.
On(w, s) == Go(w, s) /\ UNCHANGED <<link, result, holder, reply, shown, tries>>

Keeps == UNCHANGED <<attended, attempts, mishaps>>

\* An open, a Reconnect (a: a person asked for it) or an unattended retry of a
\* log that has been read.  openFile() primes the cache from the bookmark, the
\* restore of a session does not.
Attempt(w, a) ==
  LET h == HostOf[w] IN
  /\ step[w] = "idle" /\ attempts[w] < MaxAttempts[w]
  /\ a \/ result[w] \in {"in", "unreachable"}  \* SshRetryPolicy
  /\ attended' = [attended EXCEPT ![w] = a]
  /\ attempts' = [attempts EXCEPT ![w] = @ + 1]
  /\ On(w, "hold")
  /\ \/ /\ attempts[w] = 0 /\ cache[h] = NoPassword
        /\ cache' = [cache EXCEPT ![h] = file[h]]
     \/ /\ attempts[w] > 0 \/ cache[h] # NoPassword \/ bulk
        /\ UNCHANGED cache
  /\ UNCHANGED <<gateVars, mishaps, typed, wallet, probe, file, world, asker>>

HostFree(h) == holder[h] = Nobody

\* The connect under the hold, or requestStop() while it waits for it.
Connect(w) ==
  /\ step[w] = "hold" /\ HostFree(HostOf[w])
  /\ \/ /\ holder' = [holder EXCEPT ![HostOf[w]] = w]
        /\ Go(w, "key")
        /\ link' = [link EXCEPT ![w] = "up"]
        /\ UNCHANGED <<result, reply, shown, tries>>
     \/ Finish(w, "unreachable")
  /\ Keeps /\ UNCHANGED <<gateVars, stores, world, asker>>

AbandonHold(w) ==
  /\ step[w] = "hold" /\ ~HostFree(HostOf[w])
  /\ Finish(w, "unreachable")
  /\ Keeps /\ UNCHANGED <<gateVars, stores, world, asker>>

\* The link is lost, or requestStop() aborts it; nobody looks until it is used.
Cut(w) ==
  /\ link[w] = "up" /\ mishaps < MaxMishaps
  /\ mishaps' = mishaps + 1
  /\ link' = [link EXCEPT ![w] = "cut"]
  /\ UNCHANGED <<gateVars, step, attended, attempts, tries, reply, shown, result, holder,
                 stores, world, asker>>

\* A question crosses to the application thread, or is turned away at a closed
\* gate; its reply starts as the safe answer.
Put(w, q) == /\ Ask(w) \/ TurnAway(w)
             /\ Go(w, q)
             /\ reply' = [reply EXCEPT ![w] = No]
             /\ UNCHANGED <<link, result, holder, shown, tries>>

Ends(w, r) == Finish(w, r) /\ UNCHANGED gateVars

\* verifyHostKey(): a changed key is refused whatever the prompter says, an
\* unknown one is a person's decision.
VerifyHostKey(w) ==
  LET k == known[HostOf[w]] IN
  /\ step[w] = "key"
  /\ \/ k = "match" /\ On(w, "auth") /\ UNCHANGED gateVars
     \/ k # "match" /\ attended[w] /\ Put(w, "key?")
     \/ k = "absent" /\ ~attended[w] /\ Ends(w, "person")
     \/ k = "mismatch" /\ ~attended[w] /\ Ends(w, "refused")
  /\ Keeps /\ UNCHANGED <<stores, world, asker>>

\* A call() has returned to its worker.
Answered(w, q) == step[w] = q /\ ask[w] \in {"yes", "no"}

HostKeyAnswered(w) ==
  /\ Answered(w, "key?")
  /\ \/ reply[w] = Yes /\ On(w, "auth")
     \/ reply[w] = No /\ Finish(w, "refused")
  /\ Keeps /\ UNCHANGED <<gateVars, stores, world, asker>>

\* tryPassword() has one answer for a rejection and for a link that is gone.
Accepts(w, p) == link[w] = "up" /\ p = server[HostOf[w]]

\* What userauth_list() reads: nothing, on a dead link.
Offered(w) == IF link[w] = "up" THEN offers[HostOf[w]] ELSE "nothing"

\* The first rungs: the methods on offer, the agent and the key files.
TryKeys(w) ==
  /\ step[w] = "auth"
  /\ \/ Offered(w) = "key" /\ (Ends(w, "in") \/ Ends(w, "person"))
     \/ Offered(w) = "nothing" /\ Ends(w, "refused")
     \/ Offered(w) = "password" /\ On(w, "cached") /\ UNCHANGED gateVars
  /\ Keeps /\ UNCHANGED <<stores, world, asker>>

\* The cached password; one that fails is forgotten.  Past this rung somebody
\* has to be there, for the keychain too.
TryCached(w) ==
  LET h == HostOf[w] IN
  /\ step[w] = "cached"
  /\ \/ /\ Accepts(w, cache[h]) /\ Ends(w, "in")
        /\ UNCHANGED <<cache, typed>>
     \/ /\ ~Accepts(w, cache[h])
        /\ cache' = [cache EXCEPT ![h] = NoPassword]
        /\ typed' = typed \ {h}
        /\ IF attended[w] THEN Put(w, "wallet?") ELSE Ends(w, "person")
  /\ Keeps /\ UNCHANGED <<wallet, probe, file, world, asker>>

\* A stored password the server takes goes into the cache; one it does not is
\* to be forgotten.
WalletAnswered(w) ==
  LET h == HostOf[w] IN
  /\ Answered(w, "wallet?")
  /\ \/ reply[w] = No /\ Put(w, "dialog?") /\ UNCHANGED cache
     \/ /\ reply[w] # No /\ Accepts(w, reply[w])
        /\ cache' = [cache EXCEPT ![h] = reply[w]]
        /\ Ends(w, "in")
     \/ /\ reply[w] # No /\ ~Accepts(w, reply[w])
        /\ Put(w, "erase?") /\ UNCHANGED cache
  /\ Keeps /\ UNCHANGED <<typed, wallet, probe, file, world, asker>>

ForgetAnswered(w) ==
  /\ Answered(w, "erase?")
  /\ Put(w, "dialog?")
  /\ Keeps /\ UNCHANGED <<stores, world, asker>>

\* Three tries; the password the server takes is cached, then offered to the
\* prompter to keep (the reply still holds it).
PasswordAnswered(w) ==
  LET h == HostOf[w] IN
  /\ Answered(w, "dialog?")
  /\ \/ /\ reply[w] = No /\ Ends(w, "refused")
        /\ UNCHANGED <<cache, typed>>
     \/ /\ reply[w] # No /\ Accepts(w, reply[w])
        /\ cache' = [cache EXCEPT ![h] = reply[w]]
        /\ typed' = typed \cup {h}
        /\ Ask(w) \/ TurnAway(w)
        /\ On(w, "store?")
     \/ /\ reply[w] # No /\ ~Accepts(w, reply[w])
        /\ \/ /\ tries[w] < 2
              /\ tries' = [tries EXCEPT ![w] = @ + 1]
              /\ Ask(w) \/ TurnAway(w)
              /\ reply' = [reply EXCEPT ![w] = No]
              /\ UNCHANGED <<step, link, result, holder, shown>>
           \/ tries[w] = 2 /\ Ends(w, "refused")
        /\ UNCHANGED <<cache, typed>>
  /\ Keeps /\ UNCHANGED <<wallet, probe, file, world, asker>>

KeepAnswered(w) ==
  /\ Answered(w, "store?")
  /\ Finish(w, "in")
  /\ Keeps /\ UNCHANGED <<gateVars, stores, world, asker>>

\* A worker parked in call() learns that its question will not be put.
TurnedAway(w) ==
  /\ step[w] \in Questions
  /\ Refuse(w)
  /\ UNCHANGED <<mine, holder, stores, world, asker>>

Worker(w) ==
  \/ Connect(w) \/ VerifyHostKey(w) \/ HostKeyAnswered(w)
  \/ TryKeys(w) \/ TryCached(w) \/ WalletAnswered(w) \/ ForgetAnswered(w)
  \/ PasswordAnswered(w) \/ KeepAnswered(w)
  \/ TurnedAway(w)

-----------------------------------------------------------------------------
(* The application thread *)

\* available(): asked of the backend once and remembered for the process.
Probed == IF probe = "unasked" THEN {"answers", "silent"} ELSE {probe}

MarkedSkipped(w) == allSkipped \/ HostOf[w] \in skipped

\* A question is taken up.  A password dialog is drawn, with the place where
\* the password would go, unless its host is being skipped.
TakeUp(w) ==
  /\ step[w] \in Questions
  /\ Begin(w)
  /\ \/ /\ step[w] = "dialog?" /\ ~MarkedSkipped(w)
        /\ probe' \in Probed
        /\ shown' = [shown EXCEPT ![w] = IF probe' = "answers" THEN "wallet"
                                         ELSE IF HostOf[w] \in saved THEN "file"
                                         ELSE "nowhere"]
     \/ /\ step[w] # "dialog?" \/ MarkedSkipped(w)
        /\ UNCHANGED <<probe, shown>>
  /\ UNCHANGED <<step, attended, attempts, mishaps, link, tries, reply, result, holder,
                 cache, typed, wallet, file, world, asker>>

Reply(w, r) == reply' = [reply EXCEPT ![w] = r]

\* confirmHostKey(): a mismatch is explained, never accepted.
AnswerHostKey(w) ==
  LET h == HostOf[w] IN
  /\ step[w] = "key?"
  /\ \/ Reply(w, No) /\ UNCHANGED known
     \/ /\ known[h] = "absent"
        /\ Reply(w, Yes)
        /\ \/ UNCHANGED known                          \* Accept Once
           \/ known' = [known EXCEPT ![h] = "match"]   \* Accept and Remember
  /\ UNCHANGED <<shown, wallet, probe, file, asker>>

\* read() asks the backend, whatever available() was told; it may be denied.
AnswerRead(w) ==
  LET p == wallet[HostOf[w]] IN
  /\ step[w] = "wallet?"
  /\ \/ Reply(w, No)
     \/ p # NoPassword /\ Reply(w, p)
  /\ UNCHANGED <<known, shown, wallet, probe, file, asker>>

\* forgetSshPassword(): nothing is erased when available() says there is no
\* keychain; the erase itself may fail.
AnswerErase(w) ==
  /\ step[w] = "erase?"
  /\ probe' \in Probed
  /\ \/ probe' = "answers" /\ wallet' = [wallet EXCEPT ![HostOf[w]] = NoPassword]
     \/ UNCHANGED wallet
  /\ UNCHANGED <<known, shown, reply, file, asker>>

\* The dialog is closed: with a password, right or wrong, or not; at a restore
\* with one of the two skip buttons.
AnswerDialog(w) ==
  /\ step[w] = "dialog?"
  /\ \/ /\ MarkedSkipped(w)
        /\ Reply(w, No)
        /\ UNCHANGED asker
     \/ /\ ~MarkedSkipped(w)
        /\ \/ Reply(w, No) /\ UNCHANGED asker
           \/ /\ bulk
              /\ Reply(w, No)
              /\ \/ skipped' = skipped \cup {HostOf[w]} /\ UNCHANGED <<bulk, allSkipped>>
                 \/ allSkipped' = TRUE /\ UNCHANGED <<bulk, skipped>>
           \/ /\ \E p \in {NoPassword, server[HostOf[w]]} : Reply(w, p)
              /\ UNCHANGED asker
  /\ UNCHANGED <<known, shown, wallet, probe, file>>

\* May the bookmark's file keep the password?
FileMayKeep(h) == probe' = "silent" /\ h \in saved

\* passwordAccepted() and rememberSshPassword(), the box ticked or not.
AnswerKeep(w) ==
  LET h == HostOf[w] IN
  /\ step[w] = "store?"
  /\ probe' \in Probed
  /\ \/ UNCHANGED <<wallet, file>>     \* not ticked, or refused and reported
     \/ /\ shown[w] # "nowhere" /\ probe' = "answers"
        /\ wallet' = [wallet EXCEPT ![h] = reply[w]]
        /\ UNCHANGED file
     \/ /\ shown[w] # "nowhere" /\ FileMayKeep(h)
        /\ file' = [file EXCEPT ![h] = reply[w]]
        /\ UNCHANGED wallet
  /\ UNCHANGED <<known, shown, reply, asker>>

\* The work returns.
AnswerUp(w) ==
  /\ ask[w] = "served"
  /\ End(w)
  /\ AnswerHostKey(w) \/ AnswerRead(w) \/ AnswerErase(w) \/ AnswerDialog(w) \/ AnswerKeep(w)
  /\ UNCHANGED <<step, attended, attempts, mishaps, link, tries, result, holder,
                 cache, typed, server, offers, saved>>

\* setSshPrompter(nullptr) as the window goes.
WindowGoes ==
  /\ open /\ Close
  /\ UNCHANGED <<mine, holder, stores, world, asker>>

\* armBulkRestore(): the restore's logs have left Connecting, or sixty seconds
\* have passed.
EndBulkRestore ==
  /\ bulk
  /\ bulk' = FALSE /\ allSkipped' = FALSE
  /\ UNCHANGED <<gateVars, mine, holder, stores, world, skipped>>

\* Somebody gives the account another password.
ServerChanges(h) ==
  /\ mishaps < MaxMishaps
  /\ mishaps' = mishaps + 1
  /\ server' = [server EXCEPT ![h] = @ + 1]
  /\ UNCHANGED <<gateVars, step, attended, attempts, link, tries, reply, shown, result, holder, stores, offers, known, saved, asker>>

Person(w) == TakeUp(w) \/ AnswerUp(w)

LoginNext == \/ \E w \in Askers : \/ \E a \in BOOLEAN : Attempt(w, a)
                                   \/ Worker(w) \/ AbandonHold(w) \/ Cut(w) \/ Person(w)
             \/ WindowGoes
             \/ EndBulkRestore
             \/ \E h \in Hosts : ServerChanges(h)

\* Every thread runs, every libssh2 call is bounded by its timeout, and a person
\* closes a dialog some day (GuiCallGate!EveryAskerReturns does the rest).
LoginFairness == \A w \in Askers : WF_loginVars(Worker(w) \/ Person(w))

LoginSpec == LoginInit /\ [][LoginNext]_loginVars /\ LoginFairness

-----------------------------------------------------------------------------
(* Properties *)

\* A password dialog is drawn only for an attempt a person asked for, by the one
\* worker connecting to that host, and never for a host whose password somebody
\* has typed in this session and the server still takes: one host costs one
\* prompt however many of its files are opening (SshPrompter.h).
DialogUp(w) == step[w] = "dialog?" /\ ask[w] = "served"

OnePromptPerHost ==
  \A w \in Askers : DialogUp(w) =>
    LET h == HostOf[w] IN
    /\ attended[w] /\ holder[h] = w
    /\ ~(h \in typed /\ cache[h] = server[h])

\* A password is written to the keychain or to the bookmark's file only from a
\* login whose dialog named that place, and only one the server took.
SecretGoesWhereShown ==
  [][\A h \in Hosts :
       /\ (wallet'[h] \notin {wallet[h], NoPassword}) =>
             \E w \in Askers : /\ HostOf[w] = h /\ step[w] = "store?"
                                /\ shown[w] = "wallet" /\ wallet'[h] = cache[h]
       /\ (file'[h] # file[h]) =>
             \E w \in Askers : /\ HostOf[w] = h /\ step[w] = "store?"
                                /\ shown[w] = "file" /\ file'[h] = cache[h]]_loginVars

\* Every connect ends, in a session or a Failure: no wait for the hold, for the
\* gate or for the server outlasts the others.
EveryAttemptEnds == []<>(\A w \in Askers : step[w] = "idle")

-----------------------------------------------------------------------------
(* What the code says of itself and does not keep: see the README *)

\* A stored password is dropped because the server rejected it.
GoodPasswordKept ==
  [][\A h \in Hosts : wallet[h] = server[h] /\ wallet'[h] = NoPassword => server'[h] # server[h]
    ]_loginVars

\* Refused is for a changed key, rejected credentials, a cancel or a server with
\* no method, never for a link that went before the methods were listed or
\* while the right password was being typed.
CutNeverRefuses ==
  [][\A w \in Askers :
       result'[w] = "refused" /\ step[w] # step'[w] /\ link[w] = "cut" =>
         step[w] # "auth" /\ reply[w] # server[HostOf[w]]]_loginVars

\* Skip This Host belongs to the restore it was pressed in.
SkipEndsWithRestore ==
  \A w \in Askers : step[w] = "dialog?" /\ ~bulk => ~MarkedSkipped(w)

\* A password saved with the bookmark is tried before anybody is asked for it.
SavedPasswordIsTried ==
  \A w \in Askers : DialogUp(w) /\ link[w] = "up" => file[HostOf[w]] # server[HostOf[w]]

=============================================================================
