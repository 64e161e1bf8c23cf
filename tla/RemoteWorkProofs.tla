-------------------------- MODULE RemoteWorkProofs --------------------------
(***************************************************************************)
(* The work done for the reader on other machines.  Of the errands, for    *)
(* any number of them, of machines and of sessions, and any interleaving   *)
(* of workers, owners and dropped links: a session has one holder, a       *)
(* restart script runs once for one request, and an owner that waits is    *)
(* owed an answer.  Of a config file's page, whatever else is done to the  *)
(* file: what was typed is kept, and the page never goes back in time.     *)
(***************************************************************************)
EXTENDS Errands, ConfigPage, Integers, FiniteSetTheorems, SequenceTheorems, TLAPS

Entries == [host : {HostOf[j] : j \in Jobs}, role : Roles, session : Sessions]

-----------------------------------------------------------------------------
(* Lists of cache entries *)

\* No session is filed twice.
Separate(entries) == \A i, k \in DOMAIN entries : entries[i].session = entries[k].session => i = k

\* Taking one entry out takes out its session and leaves the others filed once.
LEMMA WithoutFacts ==
  ASSUME NEW es \in Seq(Entries), Separate(es), NEW i \in DOMAIN es
  PROVE  /\ Without(es, i) \in Seq(Entries) /\ Separate(Without(es, i))
         /\ SessionsOf(Without(es, i)) = SessionsOf(es) \ {es[i].session}
         /\ es[i] \in Entries
<1> DEFINE w == Without(es, i)
<1>1. Len(es) \in Nat /\ DOMAIN es = 1 .. Len(es) /\ \A k \in DOMAIN es : es[k] \in Entries
  OBVIOUS
<1>2. /\ w \in Seq(Entries) /\ Len(w) = Len(es) - 1
      /\ \A k \in 1 .. Len(es) - 1 : w[k] = es[IF k < i THEN k ELSE k + 1]
  <2> DEFINE u == SubSeq(es, 1, i - 1)
             v == SubSeq(es, i + 1, Len(es))
  <2>1. /\ u \in Seq(Entries) /\ Len(u) = i - 1
        /\ \A k \in 1 .. i - 1 : u[k] = es[k]
    BY <1>1
  <2>2. /\ v \in Seq(Entries) /\ Len(v) = Len(es) - i
        /\ \A k \in 1 .. Len(es) - i : v[k] = es[k + i]
    BY <1>1
  <2>3. w = u \o v BY DEF Without
  <2> HIDE DEF u, v, w
  <2>4. /\ w \in Seq(Entries) /\ Len(w) = Len(u) + Len(v)
        /\ \A k \in 1 .. Len(u) + Len(v) :
             w[k] = IF k <= Len(u) THEN u[k] ELSE v[k - Len(u)]
    BY <2>1, <2>2, <2>3, ConcatProperties
  <2>5. i \in 1 .. Len(es) /\ Len(u) + Len(v) = Len(es) - 1 BY <1>1, <2>1, <2>2
  <2>6. ASSUME NEW k \in 1 .. Len(es) - 1
        PROVE  w[k] = es[IF k < i THEN k ELSE k + 1]
    <3>1. CASE k < i
      <4>1. k \in 1 .. i - 1 /\ k <= Len(u) BY <3>1, <2>1, <2>5, <1>1
      <4> QED BY <4>1, <3>1, <2>1, <2>4, <2>5
    <3>2. CASE ~(k < i)
      <4>1. ~(k <= Len(u)) /\ k - Len(u) \in 1 .. Len(es) - i /\ (k - Len(u)) + i = k + 1
        BY <3>2, <2>1, <2>5, <1>1
      <4> QED BY <4>1, <3>2, <2>2, <2>4, <2>5
    <3> QED BY <3>1, <3>2
  <2> QED BY <2>4, <2>5, <2>6
<1>3. DOMAIN w = 1 .. Len(es) - 1 BY <1>2
<1>4. Separate(w)
  <2> HIDE DEF w
  <2>1. SUFFICES ASSUME NEW k \in DOMAIN w, NEW p \in DOMAIN w, w[k].session = w[p].session
                 PROVE  k = p
    BY DEF Separate
  <2> DEFINE at(n) == IF n < i THEN n ELSE n + 1
  <2>2. /\ at(k) \in DOMAIN es /\ at(p) \in DOMAIN es /\ w[k] = es[at(k)] /\ w[p] = es[at(p)]
    BY <1>1, <1>2, <1>3
  <2>3. at(k) = at(p) BY <2>1, <2>2 DEF Separate
  <2> QED BY <1>1, <1>3, <2>3
<1>5. ASSUME NEW k \in DOMAIN w
      PROVE  w[k].session \in SessionsOf(es) \ {es[i].session}
  <2>1. PICK p \in DOMAIN es : w[k] = es[p] /\ p # i BY <1>1, <1>2, <1>3
  <2> QED BY <2>1 DEF Separate, SessionsOf
<1>6. ASSUME NEW p \in DOMAIN es, es[p].session # es[i].session
      PROVE  \E k \in DOMAIN w : w[k] = es[p]
  <2>1. p # i BY <1>6
  <2>2. CASE p < i BY <2>2, <1>1, <1>2, <1>3
  <2>3. CASE p > i
    <3>1. p - 1 \in DOMAIN w /\ w[p - 1] = es[p] BY <2>3, <1>1, <1>2, <1>3
    <3> QED BY <3>1
  <2> QED BY <2>1, <2>2, <2>3, <1>1
<1>7. SessionsOf(w) = SessionsOf(es) \ {es[i].session} BY <1>5, <1>6 DEF SessionsOf
<1> QED BY <1>1, <1>2, <1>4, <1>7

\* A new entry is filed last.
LEMMA AppendFacts ==
  ASSUME NEW es \in Seq(Entries), NEW e \in Entries
  PROVE  /\ Append(es, e) \in Seq(Entries)
         /\ SessionsOf(Append(es, e)) = SessionsOf(es) \cup {e.session}
         /\ Separate(es) /\ e.session \notin SessionsOf(es) => Separate(Append(es, e))
<1>1. /\ Append(es, e) \in Seq(Entries) /\ DOMAIN Append(es, e) = 1 .. Len(es) + 1
      /\ Append(es, e)[Len(es) + 1] = e /\ Len(es) \in Nat /\ DOMAIN es = 1 .. Len(es)
      /\ \A k \in DOMAIN es : Append(es, e)[k] = es[k]
  OBVIOUS
<1>2. SessionsOf(Append(es, e)) \subseteq SessionsOf(es) \cup {e.session}
  BY <1>1 DEF SessionsOf
<1>3. SessionsOf(es) \cup {e.session} \subseteq SessionsOf(Append(es, e))
  BY <1>1 DEF SessionsOf
<1>4. Separate(es) /\ e.session \notin SessionsOf(es) => Separate(Append(es, e))
  BY <1>1 DEF Separate, SessionsOf
<1> QED BY <1>1, <1>2, <1>3, <1>4

\* The oldest go.
LEMMA NewestFacts ==
  ASSUME NEW es \in Seq(Entries), NEW n \in 0 .. Len(es)
  PROVE  /\ SubSeq(es, n + 1, Len(es)) \in Seq(Entries)
         /\ SessionsOf(SubSeq(es, n + 1, Len(es))) \subseteq SessionsOf(es)
         /\ Separate(es) => Separate(SubSeq(es, n + 1, Len(es)))
<1> DEFINE r == SubSeq(es, n + 1, Len(es))
<1>1. /\ r \in Seq(Entries) /\ Len(r) = Len(es) - n /\ DOMAIN r = 1 .. Len(es) - n
      /\ Len(es) \in Nat /\ DOMAIN es = 1 .. Len(es)
      /\ \A k \in DOMAIN r : k + n \in DOMAIN es /\ r[k] = es[k + n]
  OBVIOUS
<1> HIDE DEF r
<1>2. SessionsOf(r) \subseteq SessionsOf(es) BY <1>1 DEF SessionsOf
<1>3. ASSUME Separate(es), NEW i \in DOMAIN r, NEW k \in DOMAIN r,
             r[i].session = r[k].session
      PROVE  i = k
  <2>1. i + n = k + n BY <1>1, <1>3 DEF Separate
  <2>2. i \in Int /\ k \in Int /\ n \in Int BY <1>1
  <2> QED BY <2>1, <2>2
<1>4. Separate(es) => Separate(r) BY <1>3 DEF Separate
<1> QED BY <1>1, <1>2, <1>4 DEF r

\* Whatever the sweep drops, the rest is entries of the cache, each filed once.
LEMMA SweepFacts ==
  ASSUME cache \in Seq(Entries), Separate(cache), NEW kept \in Sweeps
  PROVE  /\ kept \in Seq(Entries) /\ Separate(kept)
         /\ SessionsOf(kept) \subseteq Cached
<1>0. PICK n \in 0 .. Len(cache) :
        \E at \in InOrder(Kept(n)) : kept = [i \in DOMAIN at |-> cache[at[i]]]
  BY DEF Sweeps
<1>1. PICK at \in InOrder(Kept(n)) : kept = [i \in DOMAIN at |-> cache[at[i]]] BY <1>0
<1>2. PICK m \in 0 .. Len(cache) : at \in [1 .. m -> Kept(n)] BY <1>1 DEF InOrder
<1>3. Len(cache) \in Nat /\ DOMAIN cache = 1 .. Len(cache) /\ \A k \in DOMAIN cache : cache[k] \in Entries
  OBVIOUS
<1>4. Kept(n) \subseteq DOMAIN cache BY <1>3 DEF Kept
<1>5. ASSUME NEW i \in 1 .. m, NEW k \in 1 .. m, at[i] = at[k]
      PROVE  i = k
  <2>1. DOMAIN at = 1 .. m /\ at[i] \in Int /\ at[k] \in Int BY <1>2, <1>3, <1>4
  <2>2. (i < k => at[i] < at[k]) /\ (k < i => at[k] < at[i]) BY <1>1, <2>1 DEF InOrder
  <2> QED BY <1>5, <2>1, <2>2
<1>6. /\ DOMAIN kept = 1 .. m
      /\ \A i \in 1 .. m : at[i] \in DOMAIN cache /\ kept[i] = cache[at[i]] /\ kept[i] \in Entries
  BY <1>1, <1>2, <1>3, <1>4
<1>7. kept \in Seq(Entries) BY <1>1, <1>2, <1>6
<1>8. Separate(kept) BY <1>5, <1>6 DEF Separate
<1>9. SessionsOf(kept) \subseteq Cached BY <1>6 DEF SessionsOf, Cached
<1> QED BY <1>7, <1>8, <1>9

-----------------------------------------------------------------------------
(* The inductive invariant of the pool *)

\* The type invariant, a variable at a time.
Typed ==
  /\ cache \in Seq(Entries) /\ closed \in BOOLEAN
  /\ link \in [Sessions -> Links] /\ heldRole \in [Jobs -> Roles]
  /\ pc \in [Jobs -> Steps] /\ result \in [Jobs -> Results]
  /\ held \in [Jobs -> Sessions \cup {NoSession}]
  /\ published \in [Jobs -> Sessions \cup {NoSession}]
  /\ abandoned \in [Jobs -> BOOLEAN] /\ repeated \in [Jobs -> BOOLEAN]
  /\ fromCache \in [Jobs -> BOOLEAN] /\ retry \in [Jobs -> BOOLEAN]
  /\ met \in [Jobs -> BOOLEAN] /\ guiBusy \subseteq Jobs
  /\ owner \in [Jobs -> {"none", "waiting", "aborting", "gone"}]
  /\ posted \in [Jobs -> SUBSET Answers]
  /\ plan \in [Jobs -> Nat] /\ runs \in [Jobs -> Nat] /\ answers \in [Jobs -> Nat]
  /\ drops \in Nat /\ refusals \in Nat

\* A worker has a session while it is at one of these steps,
Holding == {"adopt", "connecting", "ready", "inside", "after", "unpublish", "settle"}

\* and none before it took one and after it gave it away; at "hold" it has one
\* when it is about to repeat.
Empty == {"idle", "locate", "checkout", "report", "process"}

Inside == \A j \in Jobs : /\ pc[j] \in Holding => held[j] \in Sessions
                          /\ pc[j] \in Empty => held[j] = NoSession

\* Two workers never have the same session, and none has one that is filed.
Apart == /\ \A j, k \in Jobs : held[j] = held[k] /\ held[j] # NoSession => j = k
         /\ \A j \in Jobs : held[j] \notin Cached

\* A session exists for as long as somebody has it.
Alive == \A s \in Sessions : link[s] # "free" <=> (s \in Cached \/ \E j \in Jobs : held[j] = s)

\* What an owner could shut is what its worker has, until the worker takes it back.
Published == \A j \in Jobs : /\ published[j] \in {NoSession, held[j]}
                             /\ pc[j] = "settle" => published[j] = NoSession

PoolInv == Typed /\ Separate(cache) /\ Inside /\ Apart /\ Alive /\ Published

LEMMA TypedIsTypeOK ==
  ErrandsTypeOK <=> Typed
  BY DEF ErrandsTypeOK, Typed, Entries

LEMMA CachedIsSessions == SessionsOf(cache) = Cached
  BY DEF SessionsOf, Cached

\* The far end and the workers' bookkeeping: the types hold again after a step.
LEMMA DestroyedType ==
  ASSUME NEW before \in [Sessions -> Links], NEW gone
  PROVE  /\ Destroyed(before, gone) \in [Sessions -> Links]
         /\ \A s \in Sessions : Destroyed(before, gone)[s] # "free"
                                  <=> before[s] # "free" /\ s \notin gone
  BY DEF Destroyed, Links

LEMMA PoolInitially ==
  ErrandsInit => PoolInv
<1> SUFFICES ASSUME ErrandsInit PROVE PoolInv OBVIOUS
<1> USE ErrandsAssumption
<1>1. cache = <<>> /\ cache \in Seq(Entries) /\ DOMAIN cache = {} BY DEF ErrandsInit
<1>2. \A j \in Jobs : Wanted(j) \in Roles BY DEF Wanted, Roles
<1>3. Typed BY <1>1, <1>2 DEF ErrandsInit, Typed, Links, Steps, Results
<1>4. Separate(cache) /\ Cached = {} BY <1>1 DEF Separate, Cached
<1>5. Inside /\ Apart /\ Alive /\ Published
  BY <1>4 DEF ErrandsInit, Inside, Apart, Alive, Published, Holding, Sessions
<1> QED BY <1>3, <1>4, <1>5 DEF PoolInv

-----------------------------------------------------------------------------
(* Steps that leave every session where it is *)

Where == <<cache, link, held, published>>

\* A worker that moves on between two steps at which it has the same.
LEMMA MovesOn ==
  ASSUME PoolInv, Typed', UNCHANGED Where, NEW j \in Jobs,
         \A k \in Jobs : k # j => pc'[k] = pc[k],
         \/ pc'[j] = pc[j]
         \/ pc'[j] = "hold"
         \/ held[j] = NoSession /\ pc'[j] \in Empty
         \/ held[j] \in Sessions /\ pc'[j] \in Holding \ {"settle"}
  PROVE  PoolInv'
<1> USE ErrandsAssumption DEF Where
<1>1. Separate(cache)' /\ Apart' /\ Alive' BY DEF PoolInv, Separate, Apart, Alive, Cached
<1>2. Inside' BY DEF PoolInv, Inside, Holding, Empty, Sessions
<1>3. Published' BY DEF PoolInv, Published, Holding, Empty
<1> QED BY <1>1, <1>2, <1>3 DEF PoolInv

LEMMA LocateKeeps ==
  ASSUME PoolInv, NEW j \in Jobs, Locate(j)
  PROVE  PoolInv'
<1>1. Typed'
  <2>1. pc' \in [Jobs -> Steps] /\ result' \in [Jobs -> Results]
    BY DEF PoolInv, Typed, Locate, Goto, Fails, Steps, Results
  <2>3. refusals' \in Nat BY DEF PoolInv, Typed, Locate
  <2>2. UNCHANGED <<pool, held, heldRole, published, repeated, fromCache, abandoned, gui,
                    plan, drops, history>>
    BY DEF Locate
  <2> QED BY <2>1, <2>2, <2>3 DEF PoolInv, Typed, pool, gui, history
<1>2. UNCHANGED Where /\ (\A k \in Jobs : k # j => pc'[k] = pc[k])
      /\ held[j] = NoSession /\ pc'[j] \in {"checkout", "report"}
  BY DEF PoolInv, Typed, Inside, Empty, Locate, At, Goto, Where, pool
<1> QED BY <1>1, <1>2, MovesOn DEF Empty

LEMMA BodyKeeps ==
  ASSUME PoolInv, NEW j \in Jobs, Body(j)
  PROVE  PoolInv'
<1>1. Typed'
  <2>1. pc' \in [Jobs -> Steps] /\ result' \in [Jobs -> Results]
    BY DEF PoolInv, Typed, Body, Goto, Fails, Steps, Results
  <2>2. runs' \in [Jobs -> Nat]
    <3>1. \/ runs' = runs
          \/ \E n \in {0, 1} : runs' = [runs EXCEPT ![j] = @ + n]
      BY DEF Body
    <3>2. runs \in [Jobs -> Nat] BY DEF PoolInv, Typed
    <3> QED BY <3>1, <3>2
  <2>3. met' \in [Jobs -> BOOLEAN] BY DEF PoolInv, Typed, Body
  <2>4. UNCHANGED <<pool, held, heldRole, published, repeated, fromCache, abandoned, gui,
                    bounds, answers>>
    BY DEF Body
  <2> QED BY <2>1, <2>2, <2>3, <2>4 DEF PoolInv, Typed, pool, gui, bounds
<1>2. UNCHANGED Where /\ (\A k \in Jobs : k # j => pc'[k] = pc[k])
      /\ held[j] \in Sessions /\ pc'[j] \in {"unpublish", "inside"}
  BY DEF PoolInv, Typed, Inside, Holding, Body, At, Goto, Where, pool
<1> QED BY <1>1, <1>2, MovesOn DEF Holding

LEMMA AfterKeeps ==
  ASSUME PoolInv, NEW j \in Jobs, After(j)
  PROVE  PoolInv'
<1>1. Typed'
  <2>1. pc' \in [Jobs -> Steps] /\ repeated' \in [Jobs -> BOOLEAN]
    BY DEF PoolInv, Typed, After, Goto, Steps
  <2>2. UNCHANGED <<pool, held, heldRole, published, fromCache, result, abandoned, gui, bounds, history>>
    BY DEF After
  <2> QED BY <2>1, <2>2 DEF PoolInv, Typed, worker, pool, gui, bounds, history
<1>2. UNCHANGED Where /\ (\A k \in Jobs : k # j => pc'[k] = pc[k])
      /\ held[j] \in Sessions /\ pc'[j] \in {"hold", "unpublish"}
  BY DEF PoolInv, Typed, Inside, Holding, Empty, After, At, Goto, Where, pool, worker
<1> QED BY <1>1, <1>2, MovesOn DEF Holding, Empty

LEMMA ReportKeeps ==
  ASSUME PoolInv, NEW j \in Jobs, Report(j)
  PROVE  PoolInv'
<1>1. Typed'
  <2>1. pc' \in [Jobs -> Steps] BY DEF PoolInv, Typed, Report, Goto, Steps
  <2>2. posted' \in [Jobs -> SUBSET Answers]
    BY DEF PoolInv, Typed, Report, AnswerOf, Answers
  <2>3. heldRole' \in [Jobs -> Roles] /\ result' \in [Jobs -> Results]
    BY DEF PoolInv, Typed, Report, Fresh, Wanted, Roles, Results
  <2>4. repeated' \in [Jobs -> BOOLEAN] /\ fromCache' \in [Jobs -> BOOLEAN]
    BY DEF PoolInv, Typed, Report, Fresh
  <2>5. UNCHANGED <<pool, held, published, abandoned, guiBusy, owner, retry, bounds, history>>
    BY DEF Report
  <2> QED
    BY <2>1, <2>2, <2>3, <2>4, <2>5 DEF PoolInv, Typed, worker, pool, gui, bounds, history
<1>2. UNCHANGED Where /\ (\A k \in Jobs : k # j => pc'[k] = pc[k])
      /\ held[j] = NoSession /\ pc'[j] = "idle"
  BY DEF PoolInv, Typed, Inside, Holding, Empty, Report, At, Goto, Where, pool, worker
<1> QED BY <1>1, <1>2, MovesOn DEF Holding, Empty

\* What a new errand is given: nothing of the pool, and everything else afresh.
LEMMA LaunchTypes ==
  ASSUME PoolInv, NEW j \in Jobs, Launch(j)
  PROVE  /\ pc' \in [Jobs -> Steps] /\ heldRole' \in [Jobs -> Roles]
         /\ result' \in [Jobs -> Results] /\ repeated' \in [Jobs -> BOOLEAN]
         /\ fromCache' \in [Jobs -> BOOLEAN] /\ runs' \in [Jobs -> Nat]
         /\ met' \in [Jobs -> BOOLEAN]
         /\ \A k \in Jobs : k # j => pc'[k] = pc[k]
         /\ pc'[j] \in {"process", "locate", "checkout"}
<1>1. pc' \in [Jobs -> Steps] /\ runs' \in [Jobs -> Nat] /\ met' \in [Jobs -> BOOLEAN]
  BY DEF PoolInv, Typed, Launch, Goto, Steps
<1>2. /\ heldRole' \in [Jobs -> Roles] /\ result' \in [Jobs -> Results]
      /\ repeated' \in [Jobs -> BOOLEAN] /\ fromCache' \in [Jobs -> BOOLEAN]
  BY DEF PoolInv, Typed, Launch, Fresh, Wanted, Roles, Results
<1>3. (\A k \in Jobs : k # j => pc'[k] = pc[k]) /\ pc'[j] \in {"process", "locate", "checkout"}
  BY DEF PoolInv, Typed, Launch, Goto
<1> QED BY <1>1, <1>2, <1>3

LEMMA StartKeeps ==
  ASSUME PoolInv, NEW j \in Jobs, Start(j)
  PROVE  PoolInv'
<1>1. Typed'
  <2>1. /\ pc' \in [Jobs -> Steps] /\ heldRole' \in [Jobs -> Roles]
        /\ result' \in [Jobs -> Results] /\ repeated' \in [Jobs -> BOOLEAN]
        /\ fromCache' \in [Jobs -> BOOLEAN] /\ runs' \in [Jobs -> Nat]
        /\ met' \in [Jobs -> BOOLEAN]
    BY LaunchTypes DEF Start
  <2>2. /\ owner' \in [Jobs -> {"none", "waiting", "aborting", "gone"}]
        /\ abandoned' \in [Jobs -> BOOLEAN] /\ retry' \in [Jobs -> BOOLEAN]
    BY DEF PoolInv, Typed, Start
  <2>3. posted' \in [Jobs -> SUBSET Answers] /\ answers' \in [Jobs -> Nat]
    BY DEF PoolInv, Typed, Start
  <2>4. plan' \in [Jobs -> Nat] BY DEF PoolInv, Typed, Start
  <2>5. UNCHANGED <<pool, held, published, guiBusy, drops, refusals>> BY DEF Start
  <2> QED
    BY <2>1, <2>2, <2>3, <2>4, <2>5 DEF PoolInv, Typed, worker, pool, gui, bounds, history
<1>2. UNCHANGED Where /\ held[j] = NoSession
  BY DEF PoolInv, Inside, Empty, Start, At, Where, pool
<1> QED BY <1>1, <1>2, LaunchTypes, MovesOn DEF Start, Empty

LEMMA RetryFiresKeeps ==
  ASSUME PoolInv, NEW j \in Jobs, RetryFires(j)
  PROVE  PoolInv'
<1>1. UNCHANGED Where /\ held[j] = NoSession
  BY DEF PoolInv, Inside, Empty, RetryFires, At, Where, pool
<1>2. /\ retry' \in [Jobs -> BOOLEAN]
      /\ UNCHANGED <<pool, held, published, abandoned, guiBusy, owner, posted, bounds, answers>>
  BY DEF PoolInv, Typed, RetryFires
<1>3. CASE Launch(j)
  <2>1. Typed' BY <1>2, <1>3, LaunchTypes DEF PoolInv, Typed, pool, bounds
  <2> QED BY <1>1, <1>3, <2>1, LaunchTypes, MovesOn DEF Empty
<1>4. CASE UNCHANGED <<pc, heldRole, repeated, fromCache, result, runs, met>>
  <2>1. Typed' BY <1>2, <1>4 DEF PoolInv, Typed, pool, bounds
  <2> QED BY <1>1, <1>4, <2>1, MovesOn
<1> QED BY <1>3, <1>4 DEF RetryFires

LEMMA DeliverKeeps ==
  ASSUME PoolInv, NEW j \in Jobs, Deliver(j)
  PROVE  PoolInv'
<1>1. Typed'
  <2>1. posted' \in [Jobs -> SUBSET Answers] BY DEF PoolInv, Typed, Deliver
  <2>2. retry' \in [Jobs -> BOOLEAN] BY DEF PoolInv, Typed, Deliver, Due
  <2>3. answers' \in [Jobs -> Nat]
    <3>1. \E n \in {0, 1} : answers' = [answers EXCEPT ![j] = @ + n] BY DEF Deliver
    <3>2. answers \in [Jobs -> Nat] BY DEF PoolInv, Typed
    <3> QED BY <3>1, <3>2
  <2>4. UNCHANGED <<pool, worker, abandoned, guiBusy, owner, bounds, runs, met>>
    BY DEF Deliver
  <2> QED BY <2>1, <2>2, <2>3, <2>4 DEF PoolInv, Typed, worker, pool, gui, bounds, history
<1>2. UNCHANGED Where /\ UNCHANGED pc BY DEF Deliver, Where, pool, worker
<1> QED BY <1>1, <1>2, MovesOn

LEMMA AbortKeeps ==
  ASSUME PoolInv, NEW j \in Jobs, Abort(j)
  PROVE  PoolInv'
<1>1. Typed'
  <2>1. owner' \in [Jobs -> {"none", "waiting", "aborting", "gone"}]
    BY DEF PoolInv, Typed, Abort
  <2>2. abandoned' \in [Jobs -> BOOLEAN] /\ guiBusy' \subseteq Jobs
    BY DEF PoolInv, Typed, Abort, Abandon
  <2>3. UNCHANGED <<pool, worker, posted, retry, bounds, history>> BY DEF Abort
  <2> QED BY <2>1, <2>2, <2>3 DEF PoolInv, Typed, worker, pool, gui, bounds, history
<1>2. UNCHANGED Where /\ UNCHANGED pc BY DEF Abort, Where, pool, worker
<1> QED BY <1>1, <1>2, MovesOn

LEMMA CloseKeeps ==
  ASSUME PoolInv, NEW j \in Jobs, Close(j)
  PROVE  PoolInv'
<1>1. Typed'
  <2>1. owner' \in [Jobs -> {"none", "waiting", "aborting", "gone"}]
    BY DEF PoolInv, Typed, Close
  <2>2. abandoned' \in [Jobs -> BOOLEAN] /\ guiBusy' \subseteq Jobs
    BY DEF PoolInv, Typed, Close, Abandon
  <2>3. UNCHANGED <<pool, worker, posted, retry, bounds, history>> BY DEF Close
  <2> QED BY <2>1, <2>2, <2>3 DEF PoolInv, Typed, worker, pool, gui, bounds, history
<1>2. UNCHANGED Where /\ UNCHANGED pc BY DEF Close, Where, pool, worker
<1> QED BY <1>1, <1>2, MovesOn

LEMMA ProcessEndsKeeps ==
  ASSUME PoolInv, NEW j \in Jobs, ProcessEnds(j)
  PROVE  PoolInv'
<1>1. Typed'
  <2>1. pc' \in [Jobs -> Steps] BY DEF PoolInv, Typed, ProcessEnds, Goto, Steps
  <2>2. answers' \in [Jobs -> Nat]
    <3>1. \E n \in {0, 1} : answers' = [answers EXCEPT ![j] = @ + n] BY DEF ProcessEnds
    <3>2. answers \in [Jobs -> Nat] BY DEF PoolInv, Typed
    <3> QED BY <3>1, <3>2
  <2>3. UNCHANGED <<pool, held, heldRole, published, repeated, fromCache, result, abandoned, gui, bounds,
                    runs, met>>
    BY DEF ProcessEnds
  <2> QED BY <2>1, <2>2, <2>3 DEF PoolInv, Typed, worker, pool, gui, bounds, history
<1>2. UNCHANGED Where /\ (\A k \in Jobs : k # j => pc'[k] = pc[k])
      /\ held[j] = NoSession /\ pc'[j] = "idle"
  BY DEF PoolInv, Typed, Inside, Holding, Empty, ProcessEnds, At, Goto, Where, pool, worker
<1> QED BY <1>1, <1>2, MovesOn DEF Holding, Empty

-----------------------------------------------------------------------------
(* Steps at which a session is shown to the owner, or dies *)

\* A link that changes, and a session published by its holder or taken back.
LEMMA SameHolders ==
  ASSUME PoolInv, Typed', UNCHANGED <<cache, held>>,
         \A s \in Sessions : link'[s] = "free" <=> link[s] = "free",
         Inside', Published'
  PROVE  PoolInv'
<1>1. Separate(cache)' /\ Apart' /\ Alive' BY DEF PoolInv, Separate, Apart, Alive, Cached
<1> QED BY <1>1 DEF PoolInv

LEMMA AdoptKeeps ==
  ASSUME PoolInv, NEW j \in Jobs, Adopt(j)
  PROVE  PoolInv'
<1>1. Typed'
  <2>1. pc' \in [Jobs -> Steps] BY DEF PoolInv, Typed, Adopt, Goto, Steps
  <2>2. published' \in [Jobs -> Sessions \cup {NoSession}] BY DEF PoolInv, Typed, Adopt
  <2>3. UNCHANGED <<pool, held, heldRole, repeated, fromCache, result, abandoned, gui, bounds,
                    history>>
    BY DEF Adopt
  <2> QED BY <2>1, <2>2, <2>3 DEF PoolInv, Typed, pool, gui, bounds, history
<1>2. Inside' BY DEF PoolInv, Typed, Inside, Holding, Empty, Adopt, At, Goto
<1>3. Published' BY DEF PoolInv, Typed, Published, Adopt, At, Goto
<1> QED BY <1>1, <1>2, <1>3, SameHolders DEF Adopt, pool

LEMMA UnpublishKeeps ==
  ASSUME PoolInv, NEW j \in Jobs, Unpublish(j)
  PROVE  PoolInv'
<1>1. Typed'
  <2>1. pc' \in [Jobs -> Steps] BY DEF PoolInv, Typed, Unpublish, Goto, Steps
  <2>2. published' \in [Jobs -> Sessions \cup {NoSession}]
    BY DEF PoolInv, Typed, Unpublish
  <2>3. UNCHANGED <<pool, held, heldRole, repeated, fromCache, result, abandoned, gui, bounds,
                    history>>
    BY DEF Unpublish
  <2> QED BY <2>1, <2>2, <2>3 DEF PoolInv, Typed, pool, gui, bounds, history
<1>2. Inside' BY DEF PoolInv, Typed, Inside, Holding, Empty, Unpublish, At, Goto
<1>3. Published' BY DEF PoolInv, Typed, Published, Unpublish, At, Goto
<1> QED BY <1>1, <1>2, <1>3, SameHolders DEF Unpublish, pool

LEMMA BodyEndsKeeps ==
  ASSUME PoolInv, NEW j \in Jobs, BodyEnds(j)
  PROVE  PoolInv'
<1>1. /\ pc[j] = "inside" /\ pc' = [pc EXCEPT ![j] = "after"] /\ held[j] \in Sessions
      /\ UNCHANGED <<cache, closed, held, heldRole, published, repeated, fromCache, abandoned,
                     gui, plan, drops, history>>
  BY DEF PoolInv, Inside, Holding, BodyEnds, At, Goto
<1>2. link' = link \/ (link[held[j]] # "free" /\ link' = [link EXCEPT ![held[j]] = "dead"])
  <2>1. link[held[j]] # "free" BY <1>1 DEF PoolInv, Alive
  <2> QED BY <2>1 DEF BodyEnds
<1>3. Typed'
  <2>1. pc' \in [Jobs -> Steps] BY <1>1 DEF PoolInv, Typed, Steps
  <2>2. link' \in [Sessions -> Links] /\ result' \in [Jobs -> Results]
    BY <1>2 DEF PoolInv, Typed, BodyEnds, Fails, Links, Results
  <2>3. refusals' \in Nat BY DEF PoolInv, Typed, BodyEnds
  <2> QED BY <1>1, <2>1, <2>2, <2>3 DEF PoolInv, Typed, gui, history
<1>4. Inside' BY <1>1 DEF PoolInv, Typed, Inside, Holding, Empty
<1>5. Published' BY <1>1 DEF PoolInv, Typed, Published
<1>6. \A s \in Sessions : link'[s] = "free" <=> link[s] = "free"
  BY <1>1, <1>2 DEF PoolInv, Typed
<1> QED BY <1>1, <1>3, <1>4, <1>5, <1>6, SameHolders

LEMMA CutKeeps ==
  ASSUME PoolInv, NEW j \in Jobs, Cut(j)
  PROVE  PoolInv'
<1>1. guiBusy' = {} /\ UNCHANGED <<cache, closed, worker, abandoned, owner, retry, bounds, history>>
  BY DEF Cut
<1>2. \/ link' = link
      \/ /\ published[j] = held[j] /\ held[j] \in Sessions
         /\ link' = [link EXCEPT ![held[j]] = "dead"]
  BY DEF PoolInv, Typed, Published, Cut
<1>3. \A s \in Sessions : link'[s] = "free" <=> link[s] = "free"
  BY <1>2 DEF PoolInv, Typed, Alive
<1>4. Typed'
  <2>1. link' \in [Sessions -> Links] /\ posted' \in [Jobs -> SUBSET Answers]
    BY <1>2 DEF PoolInv, Typed, Cut, Links, Answers
  <2> QED BY <1>1, <2>1 DEF PoolInv, Typed, worker, bounds, history
<1>5. Inside' /\ Published' BY <1>1 DEF PoolInv, Inside, Published, worker, Sessions
<1> QED BY <1>1, <1>3, <1>4, <1>5, SameHolders DEF worker

LEMMA LinkDropsKeeps ==
  ASSUME PoolInv, NEW s \in Sessions, LinkDrops(s)
  PROVE  PoolInv'
<1>1. /\ link[s] = "live" /\ link' = [link EXCEPT ![s] = "stale"]
      /\ UNCHANGED <<cache, closed, worker, abandoned, gui, plan, refusals, history>>
  BY DEF LinkDrops
<1>2. \A t \in Sessions : link'[t] = "free" <=> link[t] = "free"
  BY <1>1 DEF PoolInv, Typed
<1>3. Typed'
  <2>1. link' \in [Sessions -> Links] /\ drops' \in Nat
    BY DEF PoolInv, Typed, LinkDrops, Links
  <2> QED BY <1>1, <2>1 DEF PoolInv, Typed, worker, gui, history
<1>4. Inside' /\ Published' BY <1>1 DEF PoolInv, Inside, Published, worker, Sessions
<1> QED BY <1>1, <1>2, <1>3, <1>4, SameHolders DEF worker

\* The least-number principle, from the well-foundedness of finite sets.
LEMMA LeastMember ==
  ASSUME NEW S \in SUBSET Nat, S # {}
  PROVE  \E m \in S : \A k \in S : m <= k
<1> DEFINE R == StrictSubsetOrdering(Nat)
           T == {1 .. n : n \in S}
<1>1. T \subseteq FiniteSubsetsOf(Nat) /\ T # {}
  <2>1. \A n \in S : 1 .. n \in SUBSET Nat /\ IsFiniteSet(1 .. n) BY FS_Interval
  <2> QED BY <2>1 DEF FiniteSubsetsOf
<1>2. PICK x \in T : \A y \in T : <<y, x>> \notin R
  BY <1>1, FS_StrictSubsetOrderingWellFounded, WFMin
<1>3. PICK m \in S : x = 1 .. m BY <1>2
<1>4. ASSUME NEW k \in S, k < m
      PROVE  FALSE
  <2>1. m \in 1 .. m /\ m \notin 1 .. k /\ 1 .. k \subseteq 1 .. m BY <1>4
  <2>2. <<1 .. k, 1 .. m>> \in R BY <2>1 DEF StrictSubsetOrdering
  <2> QED BY <1>2, <1>3, <2>2
<1> QED BY <1>4

\* What is picked is in the list, and serves.
LEMMA PickServes ==
  ASSUME NEW es \in Seq(Entries), NEW j \in Jobs, \E i \in DOMAIN es : Serves(es, j, i)
  PROVE  Pick(es, j) \in DOMAIN es /\ Serves(es, j, Pick(es, j))
<1> DEFINE serving == {i \in DOMAIN es : Serves(es, j, i)}
           exact   == {i \in serving : Exact(es, j, i)}
           pool2   == IF exact # {} THEN exact ELSE serving
<1>1. pool2 # {} /\ pool2 \subseteq serving /\ pool2 \subseteq Nat OBVIOUS
<1>2. \E i \in pool2 : \A k \in pool2 : i <= k BY <1>1, LeastMember
<1>3. Pick(es, j) \in pool2 BY <1>2 DEF Pick
<1> QED BY <1>1, <1>3

-----------------------------------------------------------------------------
(* Steps at which a session changes hands *)

LEMMA CachedAreSessions ==
  ASSUME Typed
  PROVE  Cached = SessionsOf(cache) /\ Cached \subseteq Sessions
<1>1. Cached = SessionsOf(cache) BY DEF Cached, SessionsOf
<1>2. \A i \in DOMAIN cache : cache[i] \in Entries BY DEF Typed
<1> QED BY <1>1, <1>2 DEF Cached, Entries

LEMMA CachedAreSessionsNext ==
  ASSUME Typed'
  PROVE  Cached' = SessionsOf(cache') /\ Cached' \subseteq Sessions
<1>1. Cached' = SessionsOf(cache') BY DEF Cached, SessionsOf
<1>2. \A i \in DOMAIN cache' : cache'[i] \in Entries BY DEF Typed
<1> QED BY <1>1, <1>2 DEF Cached, Entries

\* One worker and the cache trade sessions: what they end up with was theirs or
\* nobody's, what they no longer have is destroyed, and the others keep theirs.
LEMMA Exchange ==
  ASSUME PoolInv, Typed', Separate(cache)', Inside', Published', NEW j \in Jobs,
         \A k \in Jobs : k # j => held'[k] = held[k],
         held'[j] \notin Cached',
         \A s \in Sessions : s \in Cached' \cup {held'[j]}
                               => s \in Cached \/ s = held[j] \/ link[s] = "free",
         \A s \in Sessions : link'[s] # "free"
                               <=> \/ s \in Cached' \cup {held'[j]}
                                   \/ link[s] # "free" /\ s \notin Cached /\ s # held[j]
  PROVE  PoolInv'
<1> USE ErrandsAssumption DEF PoolInv
<1>1. /\ held \in [Jobs -> Sessions \cup {NoSession}] /\ held' \in [Jobs -> Sessions \cup {NoSession}]
      /\ Cached \subseteq Sessions /\ Cached' \subseteq Sessions /\ NoSession \notin Sessions
  BY CachedAreSessions, CachedAreSessionsNext DEF Typed, Sessions
<1>2. ASSUME NEW k \in Jobs, k # j, held[k] # NoSession
      PROVE  /\ held[k] \notin Cached' \cup {held'[j]}
             /\ held[k] \in Sessions /\ link[held[k]] # "free"
             /\ held[k] \notin Cached /\ held[k] # held[j]
  BY <1>1, <1>2 DEF Apart, Alive
<1>3. Apart' BY <1>1, <1>2 DEF Apart
<1>4. ASSUME NEW s \in Sessions
      PROVE  (link'[s] # "free" <=> (s \in Cached \/ \E k \in Jobs : held[k] = s)')
  <2>1. CASE s \in Cached' \cup {held'[j]} BY <2>1
  <2>2. CASE s \notin Cached' \cup {held'[j]}
    <3>1. link'[s] # "free" <=> link[s] # "free" /\ s \notin Cached /\ s # held[j] BY <2>2
    <3>2. link[s] # "free" /\ s \notin Cached /\ s # held[j]
            <=> \E k \in Jobs : k # j /\ held[k] = s
      BY <1>1, <1>2 DEF Alive
    <3> QED BY <3>1, <3>2, <2>2
  <2> QED BY <2>1, <2>2
<1> QED BY <1>3, <1>4 DEF Alive

LEMMA CheckOutKeeps ==
  ASSUME PoolInv, NEW j \in Jobs, CheckOut(j)
  PROVE  PoolInv'
<1> USE ErrandsAssumption
<1>1. /\ pc[j] = "checkout" /\ held[j] = NoSession
      /\ UNCHANGED <<closed, published, repeated, result, abandoned, gui, bounds, history>>
  BY DEF PoolInv, Inside, Empty, CheckOut, At
<1>2. /\ cache \in Seq(Entries) /\ Separate(cache) /\ link \in [Sessions -> Links]
      /\ Cached = SessionsOf(cache) /\ Cached \subseteq Sessions /\ NoSession \notin Sessions
      /\ held \in [Jobs -> Sessions \cup {NoSession}] /\ pc \in [Jobs -> Steps]
  BY CachedAreSessions DEF PoolInv, Typed, Sessions
<1>3. PICK kept \in Sweeps :
        /\ link' = Destroyed(link, Cached \ SessionsOf(kept))
        /\ \/ \E i \in DOMAIN kept :
                /\ Serves(kept, j, i) /\ cache' = TakeEntry(kept, i)
                /\ held' = [held EXCEPT ![j] = kept[i].session]
                /\ heldRole' = [heldRole EXCEPT ![j] = kept[i].role]
                /\ fromCache' = [fromCache EXCEPT ![j] = TRUE]
                /\ pc' = [pc EXCEPT ![j] = "adopt"]
           \/ /\ cache' = kept /\ pc' = [pc EXCEPT ![j] = "hold"]
              /\ UNCHANGED <<held, heldRole, fromCache>>
  <2>1. PICK kept \in Sweeps :
          IF ~closed /\ \E i \in DOMAIN kept : Serves(kept, j, i)
          THEN LET i == Pick(kept, j) IN
               /\ cache' = TakeEntry(kept, i)
               /\ held' = [held EXCEPT ![j] = kept[i].session]
               /\ heldRole' = [heldRole EXCEPT ![j] = kept[i].role]
               /\ fromCache' = [fromCache EXCEPT ![j] = TRUE]
               /\ link' = Destroyed(link, Cached \ SessionsOf(kept))
               /\ pc' = [pc EXCEPT ![j] = "adopt"]
          ELSE /\ cache' = kept
               /\ link' = Destroyed(link, Cached \ SessionsOf(kept))
               /\ pc' = [pc EXCEPT ![j] = "hold"] /\ UNCHANGED <<held, heldRole, fromCache>>
    BY DEF CheckOut, Goto
  <2>2. CASE ~closed /\ \E i \in DOMAIN kept : Serves(kept, j, i)
    <3>1. Pick(kept, j) \in DOMAIN kept /\ Serves(kept, j, Pick(kept, j))
      BY <2>2, PickServes, SweepFacts, <1>2
    <3> QED BY <2>1, <2>2, <3>1
  <2>3. CASE ~(~closed /\ \E i \in DOMAIN kept : Serves(kept, j, i)) BY <2>1, <2>3
  <2> QED BY <2>2, <2>3
<1>4. /\ kept \in Seq(Entries) /\ Separate(kept) /\ SessionsOf(kept) \subseteq Cached
  BY <1>2, SweepFacts
<1>5. /\ link' \in [Sessions -> Links]
      /\ \A s \in Sessions : link'[s] # "free"
                               <=> link[s] # "free" /\ s \notin Cached \ SessionsOf(kept)
  <2>1. /\ Destroyed(link, Cached \ SessionsOf(kept)) \in [Sessions -> Links]
        /\ \A s \in Sessions : Destroyed(link, Cached \ SessionsOf(kept))[s] # "free"
                                 <=> link[s] # "free" /\ s \notin Cached \ SessionsOf(kept)
    BY <1>2, DestroyedType
  <2> QED BY <1>3, <2>1
<1>6. \A s \in SessionsOf(kept) : link[s] # "free" BY <1>2, <1>4 DEF PoolInv, Alive
<1>7. CASE /\ cache' = kept /\ pc' = [pc EXCEPT ![j] = "hold"]
           /\ UNCHANGED <<held, heldRole, fromCache>>
  <2>1. Typed'
    BY <1>1, <1>2, <1>4, <1>5, <1>7 DEF PoolInv, Typed, gui, bounds, history, Steps
  <2>2. Separate(cache)' /\ Cached' = SessionsOf(kept)
    BY <1>4, <1>7 DEF Separate, Cached, SessionsOf
  <2>3. Inside' /\ Published'
    BY <1>1, <1>2, <1>7 DEF PoolInv, Inside, Published, Holding, Empty, Sessions
  <2>4. held'[j] \notin Cached' /\ held'[j] \notin Sessions /\ held[j] \notin Sessions
    BY <1>1, <1>2, <1>4, <1>7, <2>2
  <2>5. \A s \in Sessions : s \in Cached' \cup {held'[j]} => s \in Cached
    BY <1>4, <2>2, <2>4
  <2>6. \A s \in Sessions : link'[s] # "free"
                              <=> \/ s \in Cached' \cup {held'[j]}
                                  \/ link[s] # "free" /\ s \notin Cached /\ s # held[j]
    BY <1>4, <1>5, <1>6, <2>2, <2>4
  <2> QED BY <1>7, <2>1, <2>2, <2>3, <2>4, <2>5, <2>6, Exchange
<1>8. CASE \E i \in DOMAIN kept :
             /\ Serves(kept, j, i) /\ cache' = TakeEntry(kept, i)
             /\ held' = [held EXCEPT ![j] = kept[i].session]
             /\ heldRole' = [heldRole EXCEPT ![j] = kept[i].role]
             /\ fromCache' = [fromCache EXCEPT ![j] = TRUE]
             /\ pc' = [pc EXCEPT ![j] = "adopt"]
  <2>1. PICK i \in DOMAIN kept :
             /\ cache' = Without(kept, i)
             /\ held' = [held EXCEPT ![j] = kept[i].session]
             /\ heldRole' = [heldRole EXCEPT ![j] = kept[i].role]
             /\ fromCache' = [fromCache EXCEPT ![j] = TRUE]
             /\ pc' = [pc EXCEPT ![j] = "adopt"]
    BY <1>8 DEF TakeEntry
  <2>2. /\ cache' \in Seq(Entries) /\ Separate(cache)' /\ kept[i] \in Entries
        /\ Cached' = SessionsOf(kept) \ {kept[i].session}
    <3>1. /\ Without(kept, i) \in Seq(Entries) /\ Separate(Without(kept, i))
          /\ SessionsOf(Without(kept, i)) = SessionsOf(kept) \ {kept[i].session}
          /\ kept[i] \in Entries
      BY <1>4, WithoutFacts
    <3>2. Separate(cache)' <=> Separate(cache') BY DEF Separate
    <3>3. Cached' = SessionsOf(cache') BY DEF Cached, SessionsOf
    <3> QED BY <2>1, <3>1, <3>2, <3>3
  <2>3. kept[i].session \in SessionsOf(kept) /\ kept[i].session \in Sessions
        /\ kept[i].role \in Roles
    BY <2>2 DEF Entries, SessionsOf
  <2>4. Typed'
    <3>1. /\ held' \in [Jobs -> Sessions \cup {NoSession}] /\ heldRole' \in [Jobs -> Roles]
          /\ fromCache' \in [Jobs -> BOOLEAN] /\ pc' \in [Jobs -> Steps]
      BY <2>1, <2>3 DEF PoolInv, Typed, Steps
    <3> QED BY <1>1, <1>5, <2>2, <3>1 DEF PoolInv, Typed, gui, bounds, history
  <2>5. Inside' BY <1>1, <1>2, <2>1, <2>3 DEF PoolInv, Inside, Holding, Empty
  <2>6. Published' BY <1>1, <1>2, <2>1 DEF PoolInv, Published
  <2>7. /\ held'[j] = kept[i].session /\ held'[j] \notin Cached'
        /\ \A k \in Jobs : k # j => held'[k] = held[k]
    BY <1>2, <2>1, <2>2
  <2>8. \A s \in Sessions : s \in Cached' \cup {held'[j]} => s \in Cached
    BY <1>4, <2>2, <2>3, <2>7
  <2>9. \A s \in Sessions : link'[s] # "free"
                              <=> \/ s \in Cached' \cup {held'[j]}
                                  \/ link[s] # "free" /\ s \notin Cached /\ s # held[j]
    BY <1>1, <1>2, <1>4, <1>5, <1>6, <2>2, <2>3, <2>7
  <2> QED BY <2>2, <2>4, <2>5, <2>6, <2>7, <2>8, <2>9, Exchange
<1> QED BY <1>3, <1>7, <1>8

LEMMA HoldKeeps ==
  ASSUME PoolInv, NEW j \in Jobs, Hold(j)
  PROVE  PoolInv'
<1> USE ErrandsAssumption
<1> DEFINE cleared == Destroyed(link, {held[j]} \cap Sessions)
<1>1. /\ pc[j] = "hold" /\ heldRole' = [heldRole EXCEPT ![j] = Wanted(j)]
      /\ UNCHANGED <<cache, closed, repeated, fromCache, abandoned, gui, bounds, history>>
  BY DEF Hold, At
<1>2. /\ cache \in Seq(Entries) /\ Separate(cache) /\ link \in [Sessions -> Links]
      /\ Cached \subseteq Sessions /\ NoSession \notin Sessions
      /\ held \in [Jobs -> Sessions \cup {NoSession}] /\ pc \in [Jobs -> Steps]
      /\ published \in [Jobs -> Sessions \cup {NoSession}]
  BY CachedAreSessions DEF PoolInv, Typed, Sessions
<1>3. /\ cleared \in [Sessions -> Links]
      /\ \A s \in Sessions : cleared[s] # "free" <=> link[s] # "free" /\ s # held[j]
  BY <1>2, DestroyedType
<1>4. /\ Separate(cache)' /\ Cached' = Cached /\ held[j] \notin Cached
      /\ \A s \in Cached : link[s] # "free"
  BY <1>1, <1>2 DEF PoolInv, Separate, Cached, Apart, Alive
<1>5. heldRole' \in [Jobs -> Roles] BY <1>1 DEF PoolInv, Typed, Wanted, Roles
<1> HIDE DEF cleared
<1>6. CASE abandoned[j]
  <2>1. /\ held' = [held EXCEPT ![j] = NoSession] /\ link' = cleared
        /\ published' = [published EXCEPT ![j] = NoSession]
        /\ result' = [result EXCEPT ![j] = "stopped"] /\ pc' = [pc EXCEPT ![j] = "report"]
    BY <1>6 DEF Hold, Fails, Goto, cleared
  <2>2. Typed'
    <3>1. /\ held' \in [Jobs -> Sessions \cup {NoSession}] /\ pc' \in [Jobs -> Steps]
          /\ published' \in [Jobs -> Sessions \cup {NoSession}]
          /\ result' \in [Jobs -> Results] /\ link' \in [Sessions -> Links]
      BY <1>2, <1>3, <2>1 DEF PoolInv, Typed, Steps, Results
    <3> QED BY <1>1, <1>5, <3>1 DEF PoolInv, Typed, gui, bounds, history
  <2>3. Inside' /\ Published' BY <1>2, <2>1 DEF PoolInv, Inside, Published, Holding, Empty
  <2>4. /\ \A k \in Jobs : k # j => held'[k] = held[k]
        /\ held'[j] = NoSession /\ NoSession \notin Cached'
    BY <1>2, <1>4, <2>1
  <2>5. /\ \A s \in Sessions : s \in Cached' \cup {held'[j]} => s \in Cached
        /\ \A s \in Sessions : link'[s] # "free"
                                 <=> \/ s \in Cached' \cup {held'[j]}
                                     \/ link[s] # "free" /\ s \notin Cached /\ s # held[j]
    BY <1>2, <1>3, <1>4, <2>1, <2>4
  <2> QED BY <1>4, <2>2, <2>3, <2>4, <2>5, Exchange
<1>7. CASE ~abandoned[j]
  <2>1. /\ pc' = [pc EXCEPT ![j] = "connecting"] /\ UNCHANGED result
        /\ \E s \in Sessions :
             /\ cleared[s] = "free"
             /\ link' = [cleared EXCEPT ![s] = "live"]
             /\ held' = [held EXCEPT ![j] = s]
             /\ published' = [published EXCEPT ![j] = s]
    BY <1>7 DEF Hold, Goto, cleared
  <2>2. PICK s \in Sessions :
             /\ cleared[s] = "free"
             /\ link' = [cleared EXCEPT ![s] = "live"]
             /\ held' = [held EXCEPT ![j] = s]
             /\ published' = [published EXCEPT ![j] = s]
    BY <2>1
  <2>3. Typed'
    <3>1. /\ held' \in [Jobs -> Sessions \cup {NoSession}] /\ pc' \in [Jobs -> Steps]
          /\ published' \in [Jobs -> Sessions \cup {NoSession}] /\ link' \in [Sessions -> Links]
      BY <1>2, <1>3, <2>1, <2>2 DEF Steps, Links
    <3> QED BY <1>1, <1>5, <2>1, <3>1 DEF PoolInv, Typed, gui, bounds, history
  <2>4. Inside' /\ Published'
    BY <1>2, <2>1, <2>2 DEF PoolInv, Inside, Published, Holding, Empty
  <2>5. (\A k \in Jobs : k # j => held'[k] = held[k]) /\ held'[j] = s BY <1>2, <2>2
  <2>6. (s = held[j] \/ link[s] = "free") /\ s \notin Cached' BY <1>3, <1>4, <2>2
  <2>7. \A t \in Sessions : link'[t] # "free"
                              <=> \/ t \in Cached' \cup {held'[j]}
                                  \/ link[t] # "free" /\ t \notin Cached /\ t # held[j]
    <3>1. \A t \in Sessions : link'[t] = IF t = s THEN "live" ELSE cleared[t]
      BY <1>3, <2>2
    <3> QED BY <1>3, <1>4, <2>5, <3>1
  <2> QED BY <1>4, <2>3, <2>4, <2>5, <2>6, <2>7, Exchange
<1> QED BY <1>6, <1>7

LEMMA ConnectKeeps ==
  ASSUME PoolInv, NEW j \in Jobs, Connect(j)
  PROVE  PoolInv'
<1> USE ErrandsAssumption
<1>1. /\ pc[j] = "connecting" /\ held[j] \in Sessions /\ Separate(cache)' /\ Cached' = Cached
      /\ UNCHANGED <<cache, closed, heldRole, repeated, fromCache, abandoned, gui, plan, drops,
                     history>>
  BY DEF PoolInv, Inside, Holding, Connect, At, Separate, Cached
<1>2. /\ link \in [Sessions -> Links] /\ Cached \subseteq Sessions /\ NoSession \notin Sessions
      /\ held \in [Jobs -> Sessions \cup {NoSession}] /\ pc \in [Jobs -> Steps]
      /\ published \in [Jobs -> Sessions \cup {NoSession}] /\ refusals \in Nat
  BY CachedAreSessions DEF PoolInv, Typed, Sessions
<1>3. CASE pc' = [pc EXCEPT ![j] = "ready"] /\ UNCHANGED <<link, held, published, result, refusals>>
  <2>1. Typed'
    <3>1. pc' \in [Jobs -> Steps] BY <1>2, <1>3 DEF Steps
    <3> QED BY <1>1, <1>3, <3>1 DEF PoolInv, Typed, gui, history
  <2> QED BY <1>1, <1>2, <1>3, <2>1, MovesOn DEF Where, Holding
<1>4. CASE /\ link' = [link EXCEPT ![held[j]] = "free"]
           /\ held' = [held EXCEPT ![j] = NoSession]
           /\ published' = [published EXCEPT ![j] = NoSession]
           /\ pc' = [pc EXCEPT ![j] = "report"]
           /\ result' \in [Jobs -> Results] /\ refusals' \in Nat
  <2>1. Typed'
    <3>1. /\ held' \in [Jobs -> Sessions \cup {NoSession}] /\ pc' \in [Jobs -> Steps]
          /\ published' \in [Jobs -> Sessions \cup {NoSession}] /\ link' \in [Sessions -> Links]
      BY <1>1, <1>2, <1>4 DEF Steps, Links
    <3> QED BY <1>1, <1>4, <3>1 DEF PoolInv, Typed, gui, history
  <2>2. Inside' /\ Published' BY <1>2, <1>4 DEF PoolInv, Inside, Published, Holding, Empty
  <2>3. /\ \A k \in Jobs : k # j => held'[k] = held[k]
        /\ held'[j] = NoSession /\ NoSession \notin Cached'
    BY <1>1, <1>2, <1>4
  <2>4. /\ \A s \in Sessions : s \in Cached' \cup {held'[j]} => s \in Cached
        /\ \A s \in Sessions : link'[s] # "free"
                                 <=> \/ s \in Cached' \cup {held'[j]}
                                     \/ link[s] # "free" /\ s \notin Cached /\ s # held[j]
    <3>1. \A s \in Sessions : link'[s] # "free" <=> link[s] # "free" /\ s # held[j]
      BY <1>1, <1>2, <1>4
    <3>2. \A s \in Cached : link[s] # "free" /\ s # held[j]
      BY <1>1, <1>2 DEF PoolInv, Alive, Apart
    <3> QED BY <1>1, <1>2, <2>3, <3>1, <3>2
  <2> QED BY <1>1, <2>1, <2>2, <2>3, <2>4, Exchange
<1>5. result' \in [Jobs -> Results] BY DEF PoolInv, Typed, Connect, Fails, Results
<1>6. refusals' \in Nat BY <1>2 DEF Connect
<1> QED BY <1>3, <1>4, <1>5, <1>6 DEF Connect, Goto

\* What checkIn() leaves: entries of the cache and, unless it is full or closed, the new one.
LEMMA CheckInFacts ==
  ASSUME PoolInv, NEW j \in Jobs, held[j] \in Sessions, CheckIn(j)
  PROVE  /\ cache' \in Seq(Entries) /\ Separate(cache)' /\ link' \in [Sessions -> Links]
         /\ Cached' \subseteq Cached \cup {held[j]}
         /\ \A s \in Sessions : link'[s] # "free"
              <=> link[s] # "free" /\ s \notin (Cached \cup {held[j]}) \ Cached'
<1> USE ErrandsAssumption
<1>1. /\ cache \in Seq(Entries) /\ Separate(cache) /\ link \in [Sessions -> Links]
      /\ Cached = SessionsOf(cache) /\ held[j] \notin Cached
      /\ Separate(cache)' <=> Separate(cache') /\ Cached' = SessionsOf(cache')
  BY CachedAreSessions DEF PoolInv, Typed, Apart, Separate, Cached, SessionsOf
<1> DEFINE e == [host |-> HostOf[j], role |-> heldRole[j], session |-> held[j]]
<1>2. e \in Entries /\ e.session = held[j] BY DEF PoolInv, Typed, Entries
<1>3. PICK swept \in Sweeps :
        LET kept == Append(swept, e)
            over == IF Len(kept) > Capacity THEN Len(kept) - Capacity ELSE 0
            stay == IF closed THEN swept ELSE SubSeq(kept, over + 1, Len(kept))
        IN  /\ cache' = stay
            /\ link' = Destroyed(link, (Cached \cup {held[j]}) \ SessionsOf(stay))
  BY DEF CheckIn
<1> HIDE DEF e
<1> DEFINE kept == Append(swept, e)
           over == IF Len(kept) > Capacity THEN Len(kept) - Capacity ELSE 0
<1>4. swept \in Seq(Entries) /\ Separate(swept) /\ SessionsOf(swept) \subseteq Cached
  BY <1>1, SweepFacts
<1>5. /\ kept \in Seq(Entries) /\ Separate(kept)
      /\ SessionsOf(kept) = SessionsOf(swept) \cup {held[j]}
  BY <1>1, <1>2, <1>4, AppendFacts
<1>6. over \in 0 .. Len(kept) BY <1>5
<1>7. cache' = swept \/ cache' = SubSeq(kept, over + 1, Len(kept)) BY <1>3
<1>8. link' = Destroyed(link, (Cached \cup {held[j]}) \ SessionsOf(cache')) BY <1>3
<1> HIDE DEF kept, over
<1>9. /\ cache' \in Seq(Entries) /\ Separate(cache')
      /\ SessionsOf(cache') \subseteq Cached \cup {held[j]}
  <2>1. /\ SubSeq(kept, over + 1, Len(kept)) \in Seq(Entries)
        /\ Separate(SubSeq(kept, over + 1, Len(kept)))
        /\ SessionsOf(SubSeq(kept, over + 1, Len(kept))) \subseteq SessionsOf(kept)
    BY <1>5, <1>6, NewestFacts
  <2> QED BY <1>4, <1>5, <1>7, <2>1
<1>10. /\ link' \in [Sessions -> Links]
       /\ \A s \in Sessions : link'[s] # "free"
            <=> link[s] # "free" /\ s \notin (Cached \cup {held[j]}) \ SessionsOf(cache')
  <2> DEFINE gone == (Cached \cup {held[j]}) \ SessionsOf(cache')
  <2>1. /\ Destroyed(link, gone) \in [Sessions -> Links]
        /\ \A s \in Sessions : Destroyed(link, gone)[s] # "free" <=> link[s] # "free" /\ s \notin gone
    BY <1>1, DestroyedType
  <2> QED BY <1>8, <2>1
<1> QED BY <1>1, <1>9, <1>10

LEMMA SettleKeeps ==
  ASSUME PoolInv, NEW j \in Jobs, Settle(j)
  PROVE  PoolInv'
<1> USE ErrandsAssumption
<1>1. /\ pc[j] = "settle" /\ held[j] \in Sessions /\ published[j] = NoSession
      /\ held' = [held EXCEPT ![j] = NoSession] /\ pc' = [pc EXCEPT ![j] = "report"]
      /\ UNCHANGED <<closed, heldRole, published, repeated, fromCache, result, abandoned, gui,
                     bounds, history>>
  BY DEF PoolInv, Inside, Published, Holding, Settle, At, Goto
<1>2. /\ link \in [Sessions -> Links] /\ Cached \subseteq Sessions /\ NoSession \notin Sessions
      /\ held \in [Jobs -> Sessions \cup {NoSession}] /\ pc \in [Jobs -> Steps]
      /\ held[j] \notin Cached /\ link[held[j]] # "free" /\ \A s \in Cached : link[s] # "free"
  BY <1>1, CachedAreSessions DEF PoolInv, Typed, Sessions, Apart, Alive
<1>3. /\ cache' \in Seq(Entries) /\ Separate(cache)' /\ link' \in [Sessions -> Links]
      /\ Cached' \subseteq Cached \cup {held[j]}
      /\ \A s \in Sessions : link'[s] # "free"
           <=> link[s] # "free" /\ s \notin (Cached \cup {held[j]}) \ Cached'
  <2>1. CASE CheckIn(j) BY <1>1, <2>1, CheckInFacts
  <2>2. CASE link' = [link EXCEPT ![held[j]] = "free"] /\ UNCHANGED cache
    <3>1. Separate(cache)' /\ Cached' = Cached /\ cache' \in Seq(Entries)
      BY <2>2 DEF PoolInv, Typed, Separate, Cached
    <3>2. link' \in [Sessions -> Links] BY <1>2, <2>2 DEF Links
    <3>3. \A s \in Sessions : link'[s] # "free" <=> link[s] # "free" /\ s # held[j]
      BY <1>1, <1>2, <2>2
    <3> QED BY <1>2, <3>1, <3>2, <3>3
  <2> QED BY <2>1, <2>2 DEF Settle
<1>4. Typed'
  <2>1. held' \in [Jobs -> Sessions \cup {NoSession}] /\ pc' \in [Jobs -> Steps]
    BY <1>1, <1>2 DEF Steps
  <2> QED BY <1>1, <1>3, <2>1 DEF PoolInv, Typed, gui, bounds, history
<1>5. Inside' /\ Published' BY <1>1, <1>2 DEF PoolInv, Inside, Published, Holding, Empty
<1>6. /\ \A k \in Jobs : k # j => held'[k] = held[k]
      /\ held'[j] = NoSession /\ NoSession \notin Cached'
  BY <1>1, <1>2, <1>3
<1>7. /\ \A s \in Sessions : s \in Cached' \cup {held'[j]} => s \in Cached \/ s = held[j]
      /\ \A s \in Sessions : link'[s] # "free"
                               <=> \/ s \in Cached' \cup {held'[j]}
                                   \/ link[s] # "free" /\ s \notin Cached /\ s # held[j]
  BY <1>2, <1>3, <1>6
<1> QED BY <1>3, <1>4, <1>5, <1>6, <1>7, Exchange

LEMMA QuitKeeps ==
  ASSUME PoolInv, Quit
  PROVE  PoolInv'
<1> USE ErrandsAssumption
<1>1. /\ closed' = TRUE /\ cache' = <<>> /\ link' = Destroyed(link, Cached)
      /\ UNCHANGED <<worker, abandoned, gui, bounds, history>>
  BY DEF Quit
<1>2. Cached' = {} /\ Separate(cache)' /\ cache' \in Seq(Entries)
  BY <1>1 DEF Cached, Separate
<1>3. /\ link' \in [Sessions -> Links]
      /\ \A s \in Sessions : link'[s] # "free" <=> link[s] # "free" /\ s \notin Cached
  <2>1. /\ Destroyed(link, Cached) \in [Sessions -> Links]
        /\ \A s \in Sessions : Destroyed(link, Cached)[s] # "free" <=> link[s] # "free" /\ s \notin Cached
    BY DestroyedType DEF PoolInv, Typed
  <2> QED BY <1>1, <2>1
<1>4. Typed' BY <1>1, <1>2, <1>3 DEF PoolInv, Typed, worker, gui, bounds, history
<1>5. Inside' /\ Published' BY <1>1 DEF PoolInv, Inside, Published, worker, Sessions
<1>6. Apart' BY <1>1, <1>2 DEF PoolInv, Apart, worker
<1>7. Alive'
  <2>1. \A s \in Sessions : (\E k \in Jobs : held[k] = s) => s \notin Cached
    BY DEF PoolInv, Apart
  <2> QED BY <1>1, <1>2, <1>3, <2>1 DEF PoolInv, Alive, worker
<1> QED BY <1>2, <1>4, <1>5, <1>6, <1>7 DEF PoolInv

-----------------------------------------------------------------------------
(* A session has one holder *)

LEMMA PoolStep ==
  ASSUME PoolInv, [ErrandsNext]_errandVars
  PROVE  PoolInv'
<1>1. ASSUME NEW j \in Jobs, WorkerStep(j)
      PROVE  PoolInv'
  BY <1>1, LocateKeeps, CheckOutKeeps, AdoptKeeps, HoldKeeps, ConnectKeeps, BodyKeeps,
     BodyEndsKeeps, AfterKeeps, UnpublishKeeps, SettleKeeps, ReportKeeps DEF WorkerStep
<1>2. ASSUME NEW j \in Jobs,
             GuiStep(j) \/ Start(j) \/ Abort(j) \/ Close(j) \/ ProcessEnds(j)
      PROVE  PoolInv'
  BY <1>2, DeliverKeeps, RetryFiresKeeps, CutKeeps, StartKeeps, AbortKeeps, CloseKeeps,
     ProcessEndsKeeps DEF GuiStep
<1>3. CASE UNCHANGED errandVars
  <2>1. Typed' /\ UNCHANGED <<cache, held, link, pc, published>>
    BY <1>3 DEF PoolInv, Typed, errandVars, pool, worker, gui, bounds, history
  <2> QED BY <2>1 DEF PoolInv, Separate, Inside, Apart, Alive, Published, Cached, Sessions
<1> QED BY <1>1, <1>2, <1>3, QuitKeeps, LinkDropsKeeps DEF ErrandsNext

LEMMA OneHolderFollows ==
  PoolInv => SessionHasOneHolder
<1> SUFFICES ASSUME PoolInv PROVE SessionHasOneHolder OBVIOUS
<1>1. NoSession \notin Sessions /\ Cached \subseteq Sessions /\ DOMAIN cache = 1 .. Len(cache)
  BY ErrandsAssumption, CachedAreSessions DEF PoolInv, Typed, Sessions
<1>2. ASSUME NEW s \in Sessions
      PROVE  /\ link[s] # "free" <=> s \in Cached \/ Holders(s) # {}
             /\ Cardinality(Holders(s)) + Cardinality({i \in DOMAIN cache : cache[i].session = s}) <= 1
  <2> DEFINE filed == {i \in DOMAIN cache : cache[i].session = s}
  <2>1. link[s] # "free" <=> s \in Cached \/ Holders(s) # {}
    BY DEF PoolInv, Alive, Holders
  <2>2. Holders(s) = {} \/ \E j \in Jobs : Holders(s) = {j}
    BY <1>1 DEF PoolInv, Apart, Holders
  <2>3. filed = {} \/ \E i \in DOMAIN cache : filed = {i} BY DEF PoolInv, Separate
  <2>4. Holders(s) = {} \/ filed = {} BY DEF PoolInv, Apart, Holders, Cached
  <2>5. /\ Cardinality({}) = 0
        /\ \A j \in Jobs : Cardinality({j}) = 1
        /\ \A i \in DOMAIN cache : Cardinality({i}) = 1
    BY FS_EmptySet, FS_Singleton
  <2> HIDE DEF filed
  <2>6. Cardinality(Holders(s)) + Cardinality(filed) <= 1
    <3>1. Cardinality(Holders(s)) \in {0, 1} /\ Cardinality(filed) \in {0, 1}
      BY <2>2, <2>3, <2>5
    <3>2. Cardinality(Holders(s)) = 0 \/ Cardinality(filed) = 0 BY <2>4, <2>5
    <3> QED BY <3>1, <3>2
  <2> QED BY <2>1, <2>6 DEF filed
<1>3. \A j \in Jobs : published[j] \in {NoSession, held[j]} BY DEF PoolInv, Published
<1> QED BY <1>2, <1>3 DEF SessionHasOneHolder

\* SessionHasOneHolder (SshSessionCache, withSshSession): for any number of errands,
\* sessions and machines and any cache size, every session that exists has exactly one
\* holder, a worker or the cache, and only its holder publishes it.
THEOREM OneHolder ==
  ErrandsSpec => [](ErrandsTypeOK /\ SessionHasOneHolder)
<1>1. PoolInv => ErrandsTypeOK /\ SessionHasOneHolder
  BY TypedIsTypeOK, OneHolderFollows DEF PoolInv
<1>2. PoolInv /\ [ErrandsNext]_errandVars => PoolInv' BY PoolStep
<1> QED BY PoolInitially, <1>1, <1>2, PTL DEF ErrandsSpec

-----------------------------------------------------------------------------
(* A restart script reaches the far end once *)

\* The steps before an errand has been begun on the far end.
Before == {"locate", "checkout", "adopt", "hold", "connecting", "ready"}

\* A script is never repeated, and has not run before the step that runs it.
Scripts == \A j \in Jobs : KindOf[j] = "script" =>
             /\ runs[j] <= 1 /\ ~repeated[j]
             /\ pc[j] \in Before => runs[j] = 0


LEMMA ScriptsStep ==
  ASSUME Typed, Scripts, [ErrandsNext]_errandVars
  PROVE  Scripts'
<1>1. ASSUME NEW j \in Jobs, Locate(j)
      PROVE  Scripts'
  BY <1>1 DEF Locate, Typed, Scripts, Before, At, Goto, history
<1>2. ASSUME NEW j \in Jobs, CheckOut(j)
      PROVE  Scripts'
  BY <1>2 DEF CheckOut, Typed, Scripts, Before, At, Goto, history
<1>3. ASSUME NEW j \in Jobs, Adopt(j)
      PROVE  Scripts'
  BY <1>3 DEF Adopt, Typed, Scripts, Before, At, Goto, history
<1>4. ASSUME NEW j \in Jobs, Hold(j)
      PROVE  Scripts'
  BY <1>4 DEF Hold, Typed, Scripts, Before, At, Goto, history
<1>5. ASSUME NEW j \in Jobs, Connect(j)
      PROVE  Scripts'
  BY <1>5 DEF Connect, Typed, Scripts, Before, At, Goto, history
<1>6. ASSUME NEW j \in Jobs, Body(j)
      PROVE  Scripts'
  <2>1. /\ pc[j] = "ready" /\ UNCHANGED repeated
        /\ \E place \in {"unpublish", "inside"} : pc' = [pc EXCEPT ![j] = place]
    BY <1>6 DEF Body, At, Goto
  <2>2. \/ runs' = runs
        \/ \E k \in {0, 1} : runs' = [runs EXCEPT ![j] = @ + k]
    BY <1>6 DEF Body
  <2>3. runs \in [Jobs -> Nat] /\ pc \in [Jobs -> Steps] BY DEF Typed
  <2> QED BY <2>1, <2>2, <2>3 DEF Scripts, Before
<1>7. ASSUME NEW j \in Jobs, BodyEnds(j)
      PROVE  Scripts'
  BY <1>7 DEF BodyEnds, Typed, Scripts, Before, At, Goto, history
<1>8. ASSUME NEW j \in Jobs, After(j)
      PROVE  Scripts'
  BY <1>8 DEF After, Typed, Scripts, Before, At, Goto, Repeats, history
<1>9. ASSUME NEW j \in Jobs, Unpublish(j)
      PROVE  Scripts'
  BY <1>9 DEF Unpublish, Typed, Scripts, Before, At, Goto, history
<1>10. ASSUME NEW j \in Jobs, Settle(j)
      PROVE  Scripts'
  BY <1>10 DEF Settle, Typed, Scripts, Before, At, Goto, history
<1>11. ASSUME NEW j \in Jobs, Report(j)
      PROVE  Scripts'
  BY <1>11 DEF Report, Typed, Scripts, Before, At, Goto, Fresh, history
<1>12. ASSUME NEW j \in Jobs, Start(j)
      PROVE  Scripts'
  BY <1>12 DEF Start, Typed, Scripts, Before, At, Goto, Launch, Fresh
<1>13. ASSUME NEW j \in Jobs, Deliver(j)
      PROVE  Scripts'
  BY <1>13 DEF Deliver, Typed, Scripts, Before, worker
<1>14. ASSUME NEW j \in Jobs, RetryFires(j)
      PROVE  Scripts'
  <2>1. CASE Launch(j) BY <2>1 DEF Typed, Scripts, Before, Goto, Launch, Fresh
  <2>2. CASE UNCHANGED <<pc, repeated, runs>> BY <2>2 DEF Scripts
  <2> QED BY <1>14, <2>1, <2>2 DEF RetryFires
<1>15. ASSUME NEW j \in Jobs, Abort(j)
      PROVE  Scripts'
  BY <1>15 DEF Abort, Typed, Scripts, Before, worker, history
<1>16. ASSUME NEW j \in Jobs, Close(j)
      PROVE  Scripts'
  BY <1>16 DEF Close, Typed, Scripts, Before, worker, history
<1>17. ASSUME NEW j \in Jobs, Cut(j)
      PROVE  Scripts'
  BY <1>17 DEF Cut, Typed, Scripts, Before, worker, history
<1>18. ASSUME NEW j \in Jobs, ProcessEnds(j)
      PROVE  Scripts'
  BY <1>18 DEF ProcessEnds, Typed, Scripts, Before, Goto
<1>19. CASE Quit \/ (\E s \in Sessions : LinkDrops(s)) \/ UNCHANGED errandVars
  <2>1. UNCHANGED <<pc, repeated, runs>>
    BY <1>19 DEF Quit, LinkDrops, errandVars, worker, history
  <2> QED BY <2>1 DEF Scripts
<1> QED
  BY <1>1, <1>2, <1>3, <1>4, <1>5, <1>6, <1>7, <1>8, <1>9, <1>10, <1>11, <1>12, <1>13, <1>14, <1>15, <1>16, <1>17, <1>18, <1>19
  DEF ErrandsNext, WorkerStep, GuiStep

\* ScriptRunsOnce (SshWorkerPool.h, SshErrandRepeat): whatever the links and the owners
\* of any number of errands do, a restart script reaches the far end at most once for
\* one request.
THEOREM OncePerRequest ==
  ErrandsSpec => []ScriptRunsOnce
<1>1. ErrandsInit => Scripts BY DEF ErrandsInit, Scripts
<1>2. PoolInv /\ Scripts /\ [ErrandsNext]_errandVars => Scripts'
  BY ScriptsStep DEF PoolInv
<1>3. PoolInv /\ [ErrandsNext]_errandVars => PoolInv' BY PoolStep
<1>4. Scripts => ScriptRunsOnce BY DEF Scripts, ScriptRunsOnce
<1> QED BY PoolInitially, <1>1, <1>2, <1>3, <1>4, PTL DEF ErrandsSpec

-----------------------------------------------------------------------------
(* An owner that waits is owed an answer *)

\* Only one call of the application thread is on its way, of an owner that has decided.
OneCall == /\ \A j, k \in guiBusy : j = k
           /\ \A j \in guiBusy : owner[j] \in {"aborting", "gone"}

\* An errand is abandoned by an owner that goes, or by one that aborts it and is
\* answered from the call that abandoned it.
CalledOff == \A j \in Jobs : abandoned[j] =>
               \/ owner[j] = "gone"
               \/ owner[j] = "aborting" /\ (answers[j] # 0 \/ j \in guiBusy \/ posted[j] # {})

\* An answer that is put off is a read's, nobody aborts a read, and no owner is left
\* when the cache is shut.
Answered == \A j \in Jobs : /\ "retryable" \in posted[j] => KindOf[j] = "read"
                            /\ owner[j] = "aborting" => KindOf[j] \in {"script", "local"}
                            /\ closed => owner[j] \in {"none", "gone"}

OwedInv == NobodyForgotten /\ OneCall /\ CalledOff /\ Answered

\* Nothing an owner waits for is disturbed, and no worker ends.
LEMMA NothingEnds ==
  ASSUME OwedInv, UNCHANGED <<closed, abandoned, gui, answers>>,
         \A k \in Jobs : pc[k] # "idle" => pc'[k] # "idle"
  PROVE  OwedInv'
  BY DEF OwedInv, NobodyForgotten, OneCall, CalledOff, Answered, gui

LEMMA WorkerMoves ==
  ASSUME Typed, OwedInv, NEW j \in Jobs, WorkerStep(j), ~Report(j)
  PROVE  OwedInv'
<1>1. UNCHANGED <<closed, abandoned, gui, answers>>
  BY DEF WorkerStep, Locate, CheckOut, Adopt, Hold, Connect, Body, BodyEnds, After, Unpublish,
         Settle, pool, bounds, history
<1>2. \E there \in Steps \ {"idle"} : pc' = [pc EXCEPT ![j] = there]
  BY DEF WorkerStep, Locate, CheckOut, Adopt, Hold, Connect, Body, BodyEnds, After, Unpublish,
         Settle, Goto, Steps
<1>3. \A k \in Jobs : pc[k] # "idle" => pc'[k] # "idle" BY <1>2 DEF Typed
<1> QED BY <1>1, <1>3, NothingEnds

LEMMA ReportAnswers ==
  ASSUME Typed, OwedInv, NEW j \in Jobs, Report(j)
  PROVE  OwedInv'
<1>1. /\ UNCHANGED <<closed, abandoned, guiBusy, owner, retry, answers>>
      /\ pc' = [pc EXCEPT ![j] = "idle"]
      /\ posted' = IF abandoned[j] \/ closed THEN posted
                   ELSE [posted EXCEPT ![j] = @ \cup {AnswerOf(j)}]
  BY DEF Report, Goto, pool, bounds, history
<1>2. /\ \A k \in Jobs : k # j => posted'[k] = posted[k] /\ pc'[k] = pc[k]
      /\ \A k \in Jobs : posted[k] \subseteq posted'[k]
      /\ abandoned[j] \/ closed \/ posted'[j] # {}
  BY <1>1 DEF Typed
<1>3. NobodyForgotten'
  <2>1. ASSUME NEW k \in Jobs, owner[k] \in {"waiting", "aborting"}, answers[k] = 0
        PROVE  pc'[k] # "idle" \/ posted'[k] # {} \/ retry[k] \/ k \in guiBusy
    <3>1. CASE k # j BY <1>2, <2>1, <3>1 DEF OwedInv, NobodyForgotten
    <3>2. CASE k = j /\ posted'[j] = {}
      <4>1. ~closed BY <2>1, <3>2 DEF OwedInv, Answered
      <4>2. abandoned[j] /\ posted[j] = {} BY <1>2, <3>2, <4>1
      <4> QED BY <2>1, <3>2, <4>2 DEF OwedInv, CalledOff
    <3> QED BY <3>1, <3>2
  <2> QED BY <1>1, <2>1 DEF NobodyForgotten
<1>4. OneCall' /\ CalledOff' BY <1>1, <1>2 DEF OwedInv, OneCall, CalledOff
<1>5. Answered'
  <2>1. AnswerOf(j) = "retryable" => KindOf[j] = "read" BY DEF AnswerOf
  <2>2. "retryable" \in posted'[j] => "retryable" \in posted[j] \/ AnswerOf(j) = "retryable"
    BY <1>1 DEF Typed
  <2> QED BY <1>1, <1>2, <2>1, <2>2 DEF OwedInv, Answered
<1> QED BY <1>3, <1>4, <1>5 DEF OwedInv

LEMMA StartOwes ==
  ASSUME Typed, OwedInv, NEW j \in Jobs, Start(j)
  PROVE  OwedInv'
<1>1. /\ UNCHANGED <<closed, guiBusy>> /\ ~closed /\ guiBusy = {}
      /\ owner' = [owner EXCEPT ![j] = "waiting"]
      /\ abandoned' = [abandoned EXCEPT ![j] = FALSE]
      /\ posted' = [posted EXCEPT ![j] = {}]
      /\ retry' = [retry EXCEPT ![j] = FALSE]
      /\ answers' = [answers EXCEPT ![j] = 0]
  BY DEF Start, GuiFree, pool
<1>2. \E there \in Steps \ {"idle"} : pc' = [pc EXCEPT ![j] = there]
  <2>1. pc' = [pc EXCEPT ![j] = IF ~Remote(j) THEN "process"
                                ELSE IF j \in Discovered THEN "locate" ELSE "checkout"]
    BY DEF Start, Launch, Goto
  <2>2. (IF ~Remote(j) THEN "process" ELSE IF j \in Discovered THEN "locate" ELSE "checkout")
          \in Steps \ {"idle"}
    BY DEF Steps
  <2> QED BY <2>1, <2>2
<1>3. NobodyForgotten' BY <1>1, <1>2 DEF OwedInv, NobodyForgotten, Typed
<1>4. OneCall' /\ CalledOff' BY <1>1 DEF OwedInv, OneCall, CalledOff, Typed
<1>5. Answered' BY <1>1 DEF OwedInv, Answered, Typed
<1> QED BY <1>3, <1>4, <1>5 DEF OwedInv

LEMMA DeliverAnswers ==
  ASSUME Typed, OwedInv, NEW j \in Jobs, Deliver(j)
  PROVE  OwedInv'
<1>1. /\ UNCHANGED <<closed, pc, abandoned, guiBusy, owner>> /\ guiBusy = {} /\ ~closed
  BY DEF Deliver, GuiFree, pool, worker
<1>2. PICK a \in posted[j] :
        /\ posted' = [posted EXCEPT ![j] = @ \ {a}]
        /\ retry' = [retry EXCEPT ![j] = @ \/ (owner[j] # "gone" /\ Due(j, a))]
        /\ answers' = [answers EXCEPT ![j] =
                         @ + IF owner[j] = "gone" \/ a = "retryable" THEN 0 ELSE 1]
  BY DEF Deliver
<1>3. /\ \A k \in Jobs : k # j => posted'[k] = posted[k] /\ retry'[k] = retry[k]
                                  /\ answers'[k] = answers[k]
      /\ posted'[j] \subseteq posted[j]
      /\ answers'[j] = answers[j] + IF owner[j] = "gone" \/ a = "retryable" THEN 0 ELSE 1
      /\ retry'[j] <=> retry[j] \/ (owner[j] # "gone" /\ a = "retryable")
  BY <1>2 DEF Typed, Due
<1>4. owner[j] = "gone" \/ a = "retryable" \/ answers'[j] # 0
  <2>1. answers[j] \in Nat BY DEF Typed
  <2> QED BY <1>3, <2>1
<1>5. NobodyForgotten'
  <2>1. ASSUME NEW k \in Jobs, owner[k] \in {"waiting", "aborting"}, answers'[k] = 0
        PROVE  pc[k] # "idle" \/ posted'[k] # {} \/ retry'[k] \/ k \in guiBusy
    <3>1. CASE k = j BY <1>3, <1>4, <2>1, <3>1
    <3>2. CASE k # j BY <1>3, <2>1, <3>2 DEF OwedInv, NobodyForgotten
    <3> QED BY <3>1, <3>2
  <2> QED BY <1>1, <2>1 DEF NobodyForgotten
<1>6. CalledOff'
  <2>1. ASSUME NEW k \in Jobs, abandoned[k], owner[k] = "aborting"
        PROVE  answers'[k] # 0 \/ posted'[k] # {}
    <3>1. CASE k = j
      <4>1. a # "retryable"
        <5>1. KindOf[j] \in {"script", "local"} /\ ("retryable" \in posted[j] => KindOf[j] = "read")
          BY <2>1, <3>1 DEF OwedInv, Answered
        <5> QED BY <5>1
      <4> QED BY <1>4, <2>1, <3>1, <4>1
    <3>2. CASE k # j BY <1>1, <1>3, <2>1, <3>2 DEF OwedInv, CalledOff
    <3> QED BY <3>1, <3>2
  <2> QED BY <1>1, <2>1 DEF OwedInv, CalledOff
<1>7. OneCall' /\ Answered' BY <1>1, <1>3 DEF OwedInv, OneCall, Answered
<1> QED BY <1>5, <1>6, <1>7 DEF OwedInv

LEMMA RetryIsLaunched ==
  ASSUME Typed, OwedInv, NEW j \in Jobs, RetryFires(j)
  PROVE  OwedInv'
<1>1. /\ UNCHANGED <<closed, abandoned, guiBusy, owner, posted, answers>>
      /\ retry' = [retry EXCEPT ![j] = FALSE]
  BY DEF RetryFires, pool
<1>2. \/ owner[j] = "gone" /\ UNCHANGED pc
      \/ \E there \in Steps \ {"idle"} : pc' = [pc EXCEPT ![j] = there]
  BY DEF RetryFires, Launch, Goto, Steps
<1>3. NobodyForgotten' BY <1>1, <1>2 DEF OwedInv, NobodyForgotten, Typed
<1> QED BY <1>1, <1>3 DEF OwedInv, OneCall, CalledOff, Answered

LEMMA OwnerLeaves ==
  ASSUME Typed, OwedInv, NEW j \in Jobs, Abort(j) \/ Close(j)
  PROVE  OwedInv'
<1>1. /\ UNCHANGED <<closed, pc, posted, retry, answers>> /\ guiBusy = {} /\ ~closed
      /\ owner[j] \in {"waiting", "aborting"}
  BY DEF Abort, Close, GuiFree, pool, worker, history
<1>2. \/ abandoned' = [abandoned EXCEPT ![j] = TRUE] /\ guiBusy' = {j}
      \/ UNCHANGED <<abandoned, guiBusy>>
  BY DEF Abort, Close, Abandon
<1>3. \/ owner' = [owner EXCEPT ![j] = "aborting"] /\ KindOf[j] \in {"script", "local"}
         /\ owner[j] = "waiting"
      \/ owner' = [owner EXCEPT ![j] = "gone"]
  BY DEF Abort, Close
<1>4. NobodyForgotten' BY <1>1, <1>2, <1>3 DEF OwedInv, NobodyForgotten, Typed
<1>5. OneCall' /\ CalledOff'
  <2>1. owner'[j] \in {"aborting", "gone"} /\ (owner'[j] = "aborting" => owner[j] = "waiting")
        /\ \A k \in Jobs : k # j => owner'[k] = owner[k] /\ abandoned'[k] = abandoned[k]
    BY <1>2, <1>3 DEF Typed
  <2>2. OneCall' BY <1>1, <1>2, <2>1 DEF OneCall
  <2>3. guiBusy' = {j} \/ (abandoned'[j] = abandoned[j] /\ guiBusy' = {}) BY <1>1, <1>2
  <2>4. ASSUME NEW k \in Jobs, abandoned'[k], owner'[k] # "gone"
        PROVE  owner'[k] = "aborting" /\ (answers[k] # 0 \/ k \in guiBusy' \/ posted[k] # {})
    <3>1. CASE k = j BY <2>1, <2>3, <2>4, <3>1 DEF OwedInv, CalledOff
    <3>2. CASE k # j BY <1>1, <2>1, <2>4, <3>2 DEF OwedInv, CalledOff
    <3> QED BY <3>1, <3>2
  <2>5. CalledOff' BY <1>1, <2>4 DEF CalledOff
  <2> QED BY <2>2, <2>5
<1>6. Answered' BY <1>1, <1>3 DEF OwedInv, Answered, Typed
<1> QED BY <1>4, <1>5, <1>6 DEF OwedInv

LEMMA CutAnswers ==
  ASSUME Typed, OwedInv, NEW j \in Jobs, Cut(j)
  PROVE  OwedInv'
<1>1. /\ j \in guiBusy /\ guiBusy' = {}
      /\ UNCHANGED <<closed, pc, abandoned, owner, retry, answers>>
      /\ posted' = IF owner[j] = "aborting"
                   THEN [posted EXCEPT ![j] = @ \cup {"aborted"}] ELSE posted
  BY DEF Cut, worker, history
<1>2. /\ owner[j] \in {"aborting", "gone"} /\ \A k \in guiBusy : k = j
      /\ \A k \in Jobs : posted[k] \subseteq posted'[k]
      /\ owner[j] = "aborting" => posted'[j] # {}
  BY <1>1 DEF OwedInv, OneCall, Typed
<1>3. NobodyForgotten' BY <1>1, <1>2 DEF OwedInv, NobodyForgotten
<1>4. OneCall' /\ CalledOff' BY <1>1, <1>2 DEF OwedInv, OneCall, CalledOff
<1>5. Answered' BY <1>1 DEF OwedInv, Answered, Typed
<1> QED BY <1>3, <1>4, <1>5 DEF OwedInv

LEMMA ChildAnswers ==
  ASSUME Typed, OwedInv, NEW j \in Jobs, ProcessEnds(j)
  PROVE  OwedInv'
<1>1. /\ UNCHANGED <<closed, abandoned, guiBusy, owner, posted, retry>>
      /\ pc' = [pc EXCEPT ![j] = "idle"]
      /\ answers' = [answers EXCEPT ![j] = @ + IF owner[j] = "gone" THEN 0 ELSE 1]
  BY DEF ProcessEnds, Goto, pool, gui
<1>2. answers[j] \in Nat BY DEF Typed
<1>3. /\ \A k \in Jobs : k # j => answers'[k] = answers[k] /\ pc'[k] = pc[k]
      /\ answers'[j] = answers[j] + IF owner[j] = "gone" THEN 0 ELSE 1
  BY <1>1 DEF Typed
<1>4. /\ owner[j] = "gone" \/ answers'[j] # 0
      /\ \A k \in Jobs : answers[k] # 0 => answers'[k] # 0
  BY <1>2, <1>3
<1>5. NobodyForgotten' BY <1>1, <1>3, <1>4 DEF OwedInv, NobodyForgotten
<1> QED BY <1>1, <1>4, <1>5 DEF OwedInv, OneCall, CalledOff, Answered

LEMMA OwedStep ==
  ASSUME Typed, OwedInv, [ErrandsNext]_errandVars
  PROVE  OwedInv'
<1>1. ASSUME NEW j \in Jobs, WorkerStep(j)
      PROVE  OwedInv'
  BY <1>1, WorkerMoves, ReportAnswers
<1>2. ASSUME NEW j \in Jobs,
             GuiStep(j) \/ Start(j) \/ Abort(j) \/ Close(j) \/ ProcessEnds(j)
      PROVE  OwedInv'
  BY <1>2, DeliverAnswers, RetryIsLaunched, CutAnswers, StartOwes, OwnerLeaves, ChildAnswers
  DEF GuiStep
<1>3. CASE Quit
  <2>1. /\ UNCHANGED <<pc, abandoned, guiBusy, owner, posted, retry, answers>>
        /\ \A j \in Jobs : owner[j] \in {"none", "gone"}
    BY <1>3 DEF Quit, worker, gui, history
  <2> QED BY <2>1 DEF OwedInv, NobodyForgotten, OneCall, CalledOff, Answered
<1>4. CASE (\E s \in Sessions : LinkDrops(s)) \/ UNCHANGED errandVars
  <2>1. UNCHANGED <<closed, abandoned, gui, answers, pc>>
    BY <1>4 DEF LinkDrops, errandVars, pool, worker, history
  <2> QED BY <2>1, NothingEnds
<1> QED BY <1>1, <1>2, <1>3, <1>4 DEF ErrandsNext

\* NobodyForgotten (RestartRunner, ConfigFileIO): for any number of errands, an owner
\* that still waits has a worker, a child, an event or a timer that will answer it; no
\* order of cancels, closes and late answers takes the last of them away.
THEOREM EveryOwnerIsOwed ==
  ErrandsSpec => []NobodyForgotten
<1>1. ErrandsInit => OwedInv
  BY DEF ErrandsInit, OwedInv, NobodyForgotten, OneCall, CalledOff, Answered
<1>2. PoolInv /\ OwedInv /\ [ErrandsNext]_errandVars => OwedInv' BY OwedStep DEF PoolInv
<1>3. PoolInv /\ [ErrandsNext]_errandVars => PoolInv' BY PoolStep
<1>4. OwedInv => NobodyForgotten BY DEF OwedInv
<1> QED BY PoolInitially, <1>1, <1>2, <1>3, <1>4, PTL DEF ErrandsSpec

-----------------------------------------------------------------------------
(* The config page: types                                                  *)

Writes == [kind : {"write"}, text : Contents, sentAt : Nat, done : Seen \cup {Nothing},
           torn : BOOLEAN]
Probes == [gen : Nat, got : Seen \cup {Nothing}]
Lefts  == [{"typed", "others", "fails", "locks"} -> Nat]

\* ConfigTypeOK, variable by variable, with the shape of what is in flight.
PageTyped ==
  /\ remote \in BOOLEAN /\ locked \in BOOLEAN /\ modified \in BOOLEAN /\ asking \in BOOLEAN
  /\ missed \in BOOLEAN /\ disk \in Seen /\ open \in {"no", "building", "open"}
  /\ buffer \in Contents /\ revision \in Nat /\ gen \in Nat /\ lastStat \in Nat
  /\ busy \in {"no", "read", "retry", "write"}
  /\ base \in Seen \cup {Nothing} /\ offer \in Seen \cup {Nothing}
  /\ errand = Nothing \/ errand = [kind |-> "read"] \/ errand \in Writes
  /\ after \in {"none", "close", "retry"}
  /\ probe = Nothing \/ probe \in Probes
  /\ unsaved \in Contents \cup {Nothing}
  /\ left \in Lefts
  /\ busy = "write" => errand \in Writes

\* What was typed is on the page and, while it is being sent, in the errand; a page
\* that is being read has nothing typed on it.  Only a page of a remote file is ever busy.
Author ==
  /\ TypedTextIsKept
  /\ asking => open = "open"
  /\ busy # "no" => open = "open" /\ remote
  /\ busy \in {"read", "retry"} => unsaved = Nothing
  /\ busy = "write" => unsaved \in {Nothing, errand.text}

\* The states of the file that the page knows, was offered, has written and is being
\* told of are in the order they were on the disk, and a probe that still counts has
\* looked at the disk after the page did.
InTime ==
  /\ base # Nothing => base.at <= disk.at
  /\ offer # Nothing => base # Nothing /\ base.at <= offer.at /\ offer.at <= disk.at
  /\ busy = "write" /\ errand.done # Nothing =>
       /\ errand.done.at <= disk.at
       /\ base # Nothing => base.at <= errand.done.at
       /\ offer # Nothing => offer.at <= errand.done.at
  /\ probe # Nothing =>
       /\ probe.gen <= gen
       /\ probe.got # Nothing => probe.got.at <= disk.at
       /\ probe.got # Nothing /\ probe.gen = gen /\ base # Nothing => base.at <= probe.got.at

PageInv == PageTyped /\ Author /\ InTime

\* The page's steps: what they are made of.
LEMMA PageBounds ==
  /\ Lossy \subseteq Texts /\ Gone \notin Texts /\ Torn \notin Texts /\ Nothing \notin Texts
  /\ MaxTyped \in Nat /\ MaxOthers \in Nat /\ MaxFails \in Nat /\ MaxLocks \in Nat
  BY ConfigAssumption

LEMMA Sights == ASSUME NEW s \in Seen PROVE s.text \in Contents /\ s.at \in Nat /\ s.ours \in BOOLEAN
  BY DEF Seen

LEMMA Spending ==
  ASSUME left \in Lefts, NEW b \in {"typed", "others", "fails", "locks"}, Spend(b)
  PROVE  left' \in Lefts
<1>1. left[b] - 1 \in Nat BY DEF Spend, Lefts
<1> QED BY <1>1 DEF Spend, Lefts

LEMMA WriteFields ==
  ASSUME NEW e \in Writes
  PROVE  /\ e.text \in Contents /\ e.sentAt \in Nat /\ e.done \in Seen \cup {Nothing}
         /\ [e EXCEPT !.torn = TRUE] \in Writes
         /\ [e EXCEPT !.torn = TRUE].text = e.text /\ [e EXCEPT !.torn = TRUE].done = e.done
  BY DEF Writes

LEMMA DoneFields ==
  ASSUME NEW e \in Writes, NEW s \in Seen
  PROVE  /\ [e EXCEPT !.done = s] \in Writes
         /\ [e EXCEPT !.done = s].text = e.text /\ [e EXCEPT !.done = s].done = s
  BY DEF Writes

LEMMA ProbeFields ==
  ASSUME NEW p \in Probes
  PROVE  p.gen \in Nat /\ p.got \in Seen \cup {Nothing}
  BY DEF Probes

\* The types, and those of the fields that are compared.
LEMMA PageFields ==
  ASSUME PageInv
  PROVE  /\ remote \in BOOLEAN /\ locked \in BOOLEAN /\ modified \in BOOLEAN /\ asking \in BOOLEAN
         /\ missed \in BOOLEAN /\ disk \in Seen /\ open \in {"no", "building", "open"}
         /\ buffer \in Contents /\ revision \in Nat /\ gen \in Nat /\ lastStat \in Nat
         /\ busy \in {"no", "read", "retry", "write"}
         /\ base \in Seen \cup {Nothing} /\ offer \in Seen \cup {Nothing}
         /\ left \in Lefts /\ unsaved \in Contents \cup {Nothing}
         /\ disk.at \in Nat /\ disk.text \in Contents
         /\ base # Nothing => base.at \in Nat
         /\ offer # Nothing => offer.at \in Nat /\ offer.text \in Contents
         /\ busy = "write" => errand \in Writes
         /\ busy = "write" /\ errand.done # Nothing => errand.done \in Seen /\ errand.done.at \in Nat
         /\ probe # Nothing => probe \in Probes /\ probe.gen \in Nat
         /\ probe # Nothing /\ probe.got # Nothing => probe.got \in Seen /\ probe.got.at \in Nat
<1>1. PageTyped BY DEF PageInv
<1>2. /\ disk.at \in Nat /\ disk.text \in Contents
      /\ base # Nothing => base.at \in Nat
      /\ offer # Nothing => offer.at \in Nat /\ offer.text \in Contents
  BY <1>1, Sights DEF PageTyped
<1>3. busy = "write" /\ errand.done # Nothing => errand.done \in Seen /\ errand.done.at \in Nat
  BY <1>1, Sights, WriteFields DEF PageTyped
<1>4. /\ probe # Nothing => probe \in Probes /\ probe.gen \in Nat
      /\ probe # Nothing /\ probe.got # Nothing => probe.got \in Seen /\ probe.got.at \in Nat
  BY <1>1, Sights, ProbeFields DEF PageTyped
<1> QED BY <1>1, <1>2, <1>3, <1>4 DEF PageTyped

\* What a reading of the file may do to the page: nothing, an offer made or taken
\* back, or a reload that loses nothing.
LEMMA Told ==
  ASSUME PageInv, NEW seen \in Seen, NEW focus \in BOOLEAN, ExternalChange(seen, focus)
  PROVE  \/ UNCHANGED <<buffer, modified, revision, base, offer, gen>>
         \/ offer' = Nothing /\ UNCHANGED <<buffer, modified, revision, base, gen>>
         \/ /\ ~modified /\ base # Nothing
            /\ buffer' = seen.text /\ modified' = FALSE /\ revision' = revision + 1
            /\ base' = seen /\ offer' = Nothing /\ gen' = gen + 1
         \/ /\ base # Nothing /\ offer' = seen
            /\ UNCHANGED <<buffer, modified, revision, base, gen>>
  BY DEF ExternalChange, ReloadsInSilence, SetContents

LEMMA PageInit == ConfigInit => PageInv
<1> SUFFICES ASSUME ConfigInit PROVE PageInv OBVIOUS
<1>1. disk \in Seen BY DEF ConfigInit, Seen, Contents
<1>2. left \in Lefts
  <2>1. left = [typed |-> MaxTyped, others |-> MaxOthers, fails |-> MaxFails, locks |-> MaxLocks]
    BY DEF ConfigInit
  <2> QED BY <2>1, PageBounds DEF Lefts
<1>3. PageTyped BY <1>1, <1>2 DEF ConfigInit, PageTyped, Contents
<1>4. Author /\ InTime BY DEF ConfigInit, Author, InTime, TypedTextIsKept
<1> QED BY <1>3, <1>4 DEF PageInv

\* The page is gone, and all that was on it was on the disk or was thrown away.
LEMMA PageGoes ==
  ASSUME PageInv, ClosePage, unsaved' = Nothing, disk' \in Seen, left' \in Lefts,
         UNCHANGED remote, locked' \in BOOLEAN, lastStat' \in Nat
  PROVE  PageInv'
<1>1. PageTyped' BY DEF PageInv, PageTyped, ClosePage, Contents
<1>2. Author' /\ InTime' BY DEF ClosePage, Author, InTime, TypedTextIsKept
<1> QED BY <1>1, <1>2 DEF PageInv

\* What the page's author does to it.
LEMMA AuthorSteps ==
  ASSUME PageInv, Reload \/ Ignore \/ (\E t \in Texts : Type(t)) \/ AnswerCancel
  PROVE  PageInv'
<1> USE DEF file, page, window, watcher, pageHistory
<1>0. /\ disk \in Seen /\ disk.at \in Nat /\ disk.text \in Contents /\ left \in Lefts
      /\ revision \in Nat /\ gen \in Nat /\ buffer \in Contents
      /\ base \in Seen \cup {Nothing} /\ offer \in Seen \cup {Nothing}
      /\ base # Nothing => base.at \in Nat
      /\ offer # Nothing => offer.at \in Nat /\ offer.text \in Contents
      /\ busy = "write" => errand \in Writes
      /\ busy = "write" /\ errand.done # Nothing => errand.done \in Seen /\ errand.done.at \in Nat
      /\ probe # Nothing => probe \in Probes /\ probe.gen \in Nat
      /\ probe # Nothing /\ probe.got # Nothing => probe.got \in Seen /\ probe.got.at \in Nat
  BY PageFields
<1>1. CASE Reload
  <2>1. /\ open = "open" /\ offer # Nothing /\ unsaved' = Nothing
        /\ buffer' = offer.text /\ modified' = FALSE /\ revision' = revision + 1
        /\ base' = offer /\ offer' = Nothing /\ gen' = gen + 1
        /\ UNCHANGED <<remote, disk, locked, open, busy, errand, after, asking, probe,
                       lastStat, missed, left>>
    BY <1>1 DEF Reload, SetContents
  <2>2. /\ buffer' \in Contents /\ modified' \in BOOLEAN /\ revision' \in Nat
        /\ base' \in Seen \cup {Nothing} /\ offer' \in Seen \cup {Nothing} /\ gen' \in Nat
        /\ unsaved' \in Contents \cup {Nothing}
    <3>1. buffer' \in Contents BY <1>0, <2>1
    <3>2. modified' \in BOOLEAN BY <1>0, <2>1
    <3>3. revision' \in Nat BY <1>0, <2>1
    <3>4. base' \in Seen \cup {Nothing} BY <1>0, <2>1
    <3>5. offer' \in Seen \cup {Nothing} BY <1>0, <2>1
    <3>6. gen' \in Nat BY <1>0, <2>1
    <3>7. unsaved' \in Contents \cup {Nothing} BY <1>0, <2>1
    <3> QED BY <3>1, <3>2, <3>3, <3>4, <3>5, <3>6, <3>7
  <2>3. PageTyped' BY <1>0, <2>1, <2>2 DEF PageInv, PageTyped
  <2>4. Author' BY <1>0, <2>1 DEF PageInv, Author, TypedTextIsKept
  <2>5. InTime' BY <1>0, <2>1 DEF PageInv, InTime
  <2> QED BY <2>3, <2>4, <2>5 DEF PageInv
<1>2. CASE Ignore
  <2>1. /\ offer # Nothing /\ base' = offer /\ offer' = Nothing /\ modified' = TRUE /\ gen' = gen + 1
        /\ UNCHANGED <<remote, disk, locked, open, buffer, revision, busy, errand, after,
                       asking, probe, lastStat, unsaved, missed, left>>
    BY <1>2 DEF Ignore
  <2>2. /\ base' \in Seen \cup {Nothing} /\ offer' \in Seen \cup {Nothing} /\ modified' \in BOOLEAN
        /\ gen' \in Nat
    <3>1. base' \in Seen \cup {Nothing} BY <1>0, <2>1
    <3>2. offer' \in Seen \cup {Nothing} BY <1>0, <2>1
    <3>3. modified' \in BOOLEAN BY <1>0, <2>1
    <3>4. gen' \in Nat BY <1>0, <2>1
    <3> QED BY <3>1, <3>2, <3>3, <3>4
  <2>3. PageTyped' BY <1>0, <2>1, <2>2 DEF PageInv, PageTyped
  <2>4. Author' BY <1>0, <2>1 DEF PageInv, Author, TypedTextIsKept
  <2>5. InTime' BY <1>0, <2>1 DEF PageInv, InTime
  <2> QED BY <2>3, <2>4, <2>5 DEF PageInv
<1>3. ASSUME NEW t \in Texts, Type(t) PROVE PageInv'
  <2>1. /\ open = "open" /\ busy = "no" /\ buffer' = t /\ modified' = TRUE
        /\ revision' = revision + 1 /\ unsaved' = t /\ Spend("typed")
        /\ UNCHANGED <<remote, disk, locked, open, busy, base, offer, gen, errand, after,
                       asking, probe, lastStat, missed>>
    BY <1>3 DEF Type, Busy
  <2>2. /\ buffer' \in Contents /\ modified' \in BOOLEAN /\ revision' \in Nat
        /\ unsaved' \in Contents \cup {Nothing} /\ left' \in Lefts
    <3>1. buffer' \in Contents BY <1>0, <2>1, Spending DEF Contents
    <3>2. modified' \in BOOLEAN BY <1>0, <2>1, Spending DEF Contents
    <3>3. revision' \in Nat BY <1>0, <2>1, Spending DEF Contents
    <3>4. unsaved' \in Contents \cup {Nothing} BY <1>0, <2>1, Spending DEF Contents
    <3>5. left' \in Lefts BY <1>0, <2>1, Spending DEF Contents
    <3> QED BY <3>1, <3>2, <3>3, <3>4, <3>5
  <2>3. PageTyped' BY <1>0, <2>1, <2>2 DEF PageInv, PageTyped
  <2>4. Author' BY <1>0, <2>1 DEF PageInv, Author, TypedTextIsKept
  <2>5. InTime' BY <1>0, <2>1 DEF PageInv, InTime
  <2> QED BY <2>3, <2>4, <2>5 DEF PageInv
<1>4. CASE AnswerCancel
  <2>1. /\ asking' = FALSE
        /\ UNCHANGED <<remote, disk, locked, open, buffer, modified, revision, busy, base,
                       offer, gen, errand, after, probe, lastStat, unsaved, missed, left>>
    BY <1>4 DEF AnswerCancel
  <2>2. /\ asking' \in BOOLEAN BY <1>0, <2>1
  <2>3. PageTyped' BY <1>0, <2>1, <2>2 DEF PageInv, PageTyped
  <2>4. Author' BY <1>0, <2>1 DEF PageInv, Author, TypedTextIsKept
  <2>5. InTime' BY <1>0, <2>1 DEF PageInv, InTime
  <2> QED BY <2>3, <2>4, <2>5 DEF PageInv
<1> QED BY <1>1, <1>2, <1>3, <1>4

\* Opening: nothing has been typed on a page that is not up, or is being read.
LEMMA OpeningSteps ==
  ASSUME PageInv, OpenHere \/ WatchBegins \/ OpenThere \/ ReadReply \/ RetryRead
  PROVE  PageInv'
<1> USE DEF file, page, window, watcher, pageHistory
<1>0. /\ disk \in Seen /\ disk.at \in Nat /\ disk.text \in Contents /\ left \in Lefts
      /\ revision \in Nat /\ gen \in Nat /\ buffer \in Contents
      /\ base \in Seen \cup {Nothing} /\ offer \in Seen \cup {Nothing}
      /\ base # Nothing => base.at \in Nat
      /\ offer # Nothing => offer.at \in Nat /\ offer.text \in Contents
      /\ busy = "write" => errand \in Writes
      /\ busy = "write" /\ errand.done # Nothing => errand.done \in Seen /\ errand.done.at \in Nat
      /\ probe # Nothing => probe \in Probes /\ probe.gen \in Nat
      /\ probe # Nothing /\ probe.got # Nothing => probe.got \in Seen /\ probe.got.at \in Nat
  BY PageFields
<1>1. CASE OpenHere
  <2>1. /\ open = "no" /\ open' = "building"
        /\ buffer' = disk.text /\ modified' = FALSE /\ revision' = revision + 1
        /\ base' = disk /\ offer' = Nothing /\ gen' = gen + 1
        /\ UNCHANGED <<remote, disk, locked, busy, errand, after, asking, probe, lastStat,
                       unsaved, missed, left>>
    BY <1>1 DEF OpenHere, SetContents
  <2>2. /\ buffer' \in Contents /\ modified' \in BOOLEAN /\ revision' \in Nat
        /\ base' \in Seen \cup {Nothing} /\ offer' \in Seen \cup {Nothing} /\ gen' \in Nat
        /\ open' \in {"no", "building", "open"}
    <3>1. buffer' \in Contents BY <1>0, <2>1
    <3>2. modified' \in BOOLEAN BY <1>0, <2>1
    <3>3. revision' \in Nat BY <1>0, <2>1
    <3>4. base' \in Seen \cup {Nothing} BY <1>0, <2>1
    <3>5. offer' \in Seen \cup {Nothing} BY <1>0, <2>1
    <3>6. gen' \in Nat BY <1>0, <2>1
    <3>7. open' \in {"no", "building", "open"} BY <1>0, <2>1
    <3> QED BY <3>1, <3>2, <3>3, <3>4, <3>5, <3>6, <3>7
  <2>3. PageTyped' BY <1>0, <2>1, <2>2 DEF PageInv, PageTyped
  <2>4. Author' BY <1>0, <2>1 DEF PageInv, Author, TypedTextIsKept
  <2>5. InTime' BY <1>0, <2>1 DEF PageInv, Author, InTime
  <2> QED BY <2>3, <2>4, <2>5 DEF PageInv
<1>2. CASE WatchBegins
  <2>1. /\ open = "building" /\ open' = "open" /\ lastStat' = disk.at /\ missed' \in BOOLEAN
        /\ UNCHANGED <<remote, disk, locked, buffer, modified, revision, busy, base, offer,
                       gen, errand, after, asking, probe, unsaved, left>>
    BY <1>2 DEF WatchBegins
  <2>2. /\ open' \in {"no", "building", "open"} /\ lastStat' \in Nat /\ missed' \in BOOLEAN
    <3>1. open' \in {"no", "building", "open"} BY <1>0, <2>1
    <3>2. lastStat' \in Nat BY <1>0, <2>1
    <3>3. missed' \in BOOLEAN BY <1>0, <2>1
    <3> QED BY <3>1, <3>2, <3>3
  <2>3. PageTyped' BY <1>0, <2>1, <2>2 DEF PageInv, PageTyped
  <2>4. Author' BY <1>0, <2>1 DEF PageInv, Author, TypedTextIsKept
  <2>5. InTime' BY <1>0, <2>1 DEF PageInv, InTime
  <2> QED BY <2>3, <2>4, <2>5 DEF PageInv
<1>3. CASE OpenThere
  <2>1. /\ remote /\ open = "no" /\ open' = "open" /\ busy' = "read" /\ gen' = gen + 1
        /\ errand' = [kind |-> "read"]
        /\ UNCHANGED <<remote, disk, locked, buffer, modified, revision, base, offer, after,
                       asking, probe, lastStat, unsaved, missed, left>>
    BY <1>3 DEF OpenThere
  <2>2. /\ open' \in {"no", "building", "open"} /\ busy' \in {"no", "read", "retry", "write"}
        /\ gen' \in Nat
    <3>1. open' \in {"no", "building", "open"} BY <1>0, <2>1
    <3>2. busy' \in {"no", "read", "retry", "write"} BY <1>0, <2>1
    <3>3. gen' \in Nat BY <1>0, <2>1
    <3> QED BY <3>1, <3>2, <3>3
  <2>3. PageTyped' BY <1>0, <2>1, <2>2 DEF PageInv, PageTyped
  <2>4. Author' BY <1>0, <2>1 DEF PageInv, Author, TypedTextIsKept
  <2>5. InTime' BY <1>0, <2>1 DEF PageInv, InTime
  <2> QED BY <2>3, <2>4, <2>5 DEF PageInv
<1>4. CASE ReadReply
  <2>1. /\ open = "open" /\ busy = "read" /\ busy' \in {"no", "retry"}
        /\ gen' \in {gen + 1, gen + 2} /\ left' \in Lefts
        /\ errand' = Nothing \/ errand' = errand
        /\ \/ UNCHANGED <<buffer, modified, revision, base, offer>>
           \/ /\ buffer' = disk.text /\ modified' = FALSE /\ revision' = revision + 1
              /\ base' = disk /\ offer' = Nothing
        /\ UNCHANGED <<remote, disk, locked, open, after, asking, probe, lastStat, unsaved,
                       missed>>
    BY <1>4, Spending, <1>0 DEF ReadReply, SetContents
  <2>2. /\ buffer' \in Contents /\ modified' \in BOOLEAN /\ revision' \in Nat
        /\ base' \in Seen \cup {Nothing} /\ offer' \in Seen \cup {Nothing} /\ gen' \in Nat
        /\ busy' \in {"no", "read", "retry", "write"} /\ left' \in Lefts
    <3>1. buffer' \in Contents BY <1>0, <2>1, PageFields
    <3>2. modified' \in BOOLEAN BY <1>0, <2>1, PageFields
    <3>3. revision' \in Nat BY <1>0, <2>1, PageFields
    <3>4. base' \in Seen \cup {Nothing} BY <1>0, <2>1, PageFields
    <3>5. offer' \in Seen \cup {Nothing} BY <1>0, <2>1, PageFields
    <3>6. gen' \in Nat BY <1>0, <2>1, PageFields
    <3>7. busy' \in {"no", "read", "retry", "write"} BY <1>0, <2>1, PageFields
    <3>8. left' \in Lefts BY <1>0, <2>1, PageFields
    <3> QED BY <3>1, <3>2, <3>3, <3>4, <3>5, <3>6, <3>7, <3>8
  <2>3. PageTyped' BY <1>0, <2>1, <2>2 DEF PageInv, PageTyped
  <2>4. Author' BY <1>0, <2>1 DEF PageInv, Author, TypedTextIsKept
  <2>5. InTime' BY <1>0, <2>1 DEF PageInv, InTime
  <2> QED BY <2>3, <2>4, <2>5 DEF PageInv
<1>5. CASE RetryRead
  <2>1. /\ open = "open" /\ busy = "retry" /\ busy' = "read"
        /\ UNCHANGED <<remote, disk, locked, open, buffer, modified, revision, base, offer,
                       gen, errand, after, asking, probe, lastStat, unsaved, missed, left>>
    BY <1>5 DEF RetryRead
  <2>2. /\ busy' \in {"no", "read", "retry", "write"} BY <1>0, <2>1
  <2>3. PageTyped' BY <1>0, <2>1, <2>2 DEF PageInv, PageTyped
  <2>4. Author' BY <1>0, <2>1 DEF PageInv, Author, TypedTextIsKept
  <2>5. InTime' BY <1>0, <2>1 DEF PageInv, InTime
  <2> QED BY <2>3, <2>4, <2>5 DEF PageInv
<1> QED BY <1>1, <1>2, <1>3, <1>4, <1>5

\* A save on this machine is a call: it is refused, or the disk has what is on the page.
LEMMA SavingHere ==
  ASSUME PageInv, NEW then \in {"none", "close"}, SaveHere(then), UNCHANGED remote,
         then = "none" => busy = "no"
  PROVE  PageInv'
<1> USE DEF file, page, window, watcher, pageHistory
<1>0. /\ disk \in Seen /\ disk.at \in Nat /\ disk.text \in Contents /\ left \in Lefts
      /\ revision \in Nat /\ gen \in Nat /\ buffer \in Contents
      /\ base \in Seen \cup {Nothing} /\ offer \in Seen \cup {Nothing}
      /\ base # Nothing => base.at \in Nat
      /\ offer # Nothing => offer.at \in Nat /\ offer.text \in Contents
      /\ busy = "write" => errand \in Writes
      /\ busy = "write" /\ errand.done # Nothing => errand.done \in Seen /\ errand.done.at \in Nat
      /\ probe # Nothing => probe \in Probes /\ probe.gen \in Nat
      /\ probe # Nothing /\ probe.got # Nothing => probe.got \in Seen /\ probe.got.at \in Nat
  BY PageFields
<1>00. Written \in Seen /\ Written.at = disk.at + 1 /\ disk # Written
  BY <1>0 DEF Written, Seen
<1>1. CASE disk' = disk
  <2>1. /\ buffer \in Lossy \/ left["fails"] > 0
        /\ left' = (IF buffer \in Lossy THEN left ELSE [left EXCEPT !["fails"] = @ - 1])
        /\ asking' = FALSE
        /\ UNCHANGED <<remote, disk, locked, open, buffer, modified, revision, busy, base,
                       offer, gen, errand, after, probe, lastStat, unsaved, missed>>
    BY <1>1, <1>00 DEF SaveHere
  <2>2. /\ left' \in Lefts /\ asking' \in BOOLEAN
    <3>1. left' \in Lefts BY <1>0, <2>1 DEF Lefts
    <3>2. asking' \in BOOLEAN BY <1>0, <2>1 DEF Lefts
    <3> QED BY <3>1, <3>2
  <2>3. PageTyped' BY <1>0, <2>1, <2>2 DEF PageInv, PageTyped
  <2>4. Author' BY <1>0, <2>1 DEF PageInv, Author, TypedTextIsKept
  <2>5. InTime' BY <1>0, <2>1 DEF PageInv, InTime
  <2> QED BY <2>3, <2>4, <2>5 DEF PageInv
<1>2. CASE disk' = Written /\ then = "none"
  <2>1. /\ disk' = Written /\ unsaved' = Nothing /\ base' = Written /\ offer' = Nothing
        /\ modified' = FALSE /\ gen' = gen + 1 /\ busy = "no"
        /\ UNCHANGED <<remote, locked, open, buffer, revision, busy, errand, after, asking,
                       probe, lastStat, missed, left>>
    BY <1>2, <1>00 DEF SaveHere, MarkWrittenAs
  <2>2. /\ disk' \in Seen /\ unsaved' \in Contents \cup {Nothing} /\ base' \in Seen \cup {Nothing}
        /\ offer' \in Seen \cup {Nothing} /\ modified' \in BOOLEAN /\ gen' \in Nat
    <3>1. disk' \in Seen BY <1>0, <2>1, <1>00
    <3>2. unsaved' \in Contents \cup {Nothing} BY <1>0, <2>1, <1>00
    <3>3. base' \in Seen \cup {Nothing} BY <1>0, <2>1, <1>00
    <3>4. offer' \in Seen \cup {Nothing} BY <1>0, <2>1, <1>00
    <3>5. modified' \in BOOLEAN BY <1>0, <2>1, <1>00
    <3>6. gen' \in Nat BY <1>0, <2>1, <1>00
    <3> QED BY <3>1, <3>2, <3>3, <3>4, <3>5, <3>6
  <2>3. PageTyped' BY <1>0, <2>1, <2>2, <1>00 DEF PageInv, PageTyped
  <2>4. Author' BY <1>0, <2>1 DEF PageInv, Author, TypedTextIsKept
  <2>5. InTime' BY <1>0, <2>1, <1>00 DEF PageInv, InTime
  <2> QED BY <2>3, <2>4, <2>5 DEF PageInv
<1>3. CASE disk' = Written /\ then = "close"
  <2>1. ClosePage /\ unsaved' = Nothing /\ UNCHANGED <<locked, lastStat, left>>
    BY <1>00, <1>3 DEF SaveHere
  <2>2. locked \in BOOLEAN /\ lastStat \in Nat BY PageFields
  <2> QED BY <1>0, <1>00, <1>3, <2>1, <2>2, PageGoes
<1> QED BY <1>1, <1>2, <1>3 DEF SaveHere

\* A save on another machine is an errand, with what is on the page.
LEMMA SavingThere ==
  ASSUME PageInv, NEW then \in {"none", "close", "retry"}, SaveThere(then), UNCHANGED remote,
         open = "open"
  PROVE  PageInv'
<1> USE DEF file, page, window, watcher, pageHistory
<1>0. /\ disk \in Seen /\ disk.at \in Nat /\ disk.text \in Contents /\ left \in Lefts
      /\ revision \in Nat /\ gen \in Nat /\ buffer \in Contents
      /\ base \in Seen \cup {Nothing} /\ offer \in Seen \cup {Nothing}
      /\ base # Nothing => base.at \in Nat
      /\ offer # Nothing => offer.at \in Nat /\ offer.text \in Contents
      /\ busy = "write" => errand \in Writes
      /\ busy = "write" /\ errand.done # Nothing => errand.done \in Seen /\ errand.done.at \in Nat
      /\ probe # Nothing => probe \in Probes /\ probe.gen \in Nat
      /\ probe # Nothing /\ probe.got # Nothing => probe.got \in Seen /\ probe.got.at \in Nat
  BY PageFields
<1>00. buffer \in Contents /\ revision \in Nat /\ (unsaved = Nothing \/ unsaved = buffer) /\ remote
  BY PageFields DEF PageInv, Author, TypedTextIsKept, SaveThere
<1>1. CASE buffer \in Lossy
  <2>1. /\ asking' = FALSE
        /\ UNCHANGED <<remote, disk, locked, open, buffer, modified, revision, busy, base,
                       offer, gen, errand, after, probe, lastStat, unsaved, missed, left>>
    BY <1>1 DEF SaveThere
  <2>2. /\ asking' \in BOOLEAN BY <1>0, <2>1
  <2>3. PageTyped' BY <1>0, <2>1, <2>2 DEF PageInv, PageTyped
  <2>4. Author' BY <1>0, <2>1 DEF PageInv, Author, TypedTextIsKept
  <2>5. InTime' BY <1>0, <2>1 DEF PageInv, InTime
  <2> QED BY <2>3, <2>4, <2>5 DEF PageInv
<1>2. CASE buffer \notin Lossy
  <2>1. /\ asking' = FALSE /\ busy' = "write" /\ gen' = gen + 1 /\ after' = then
        /\ errand' = [kind |-> "write", text |-> buffer, sentAt |-> revision, done |-> Nothing,
                      torn |-> FALSE]
        /\ UNCHANGED <<remote, disk, locked, open, buffer, modified, revision, base, offer,
                       probe, lastStat, unsaved, missed, left>>
    BY <1>2 DEF SaveThere
  <2>2. /\ asking' \in BOOLEAN /\ busy' \in {"no", "read", "retry", "write"} /\ gen' \in Nat
        /\ after' \in {"none", "close", "retry"}
    <3>1. asking' \in BOOLEAN BY <1>0, <2>1
    <3>2. busy' \in {"no", "read", "retry", "write"} BY <1>0, <2>1
    <3>3. gen' \in Nat BY <1>0, <2>1
    <3>4. after' \in {"none", "close", "retry"} BY <1>0, <2>1
    <3> QED BY <3>1, <3>2, <3>3, <3>4
  <2>6. errand' \in Writes /\ errand'.text = buffer /\ errand'.done = Nothing
    BY <1>00, <2>1 DEF Writes
  <2>3. PageTyped' BY <1>0, <2>1, <2>2, <2>6 DEF PageInv, PageTyped
  <2>4. Author' BY <1>0, <2>1, <1>00, <2>6 DEF PageInv, Author, TypedTextIsKept
  <2>5. InTime' BY <1>0, <2>1, <2>6 DEF PageInv, InTime
  <2> QED BY <2>3, <2>4, <2>5 DEF PageInv
<1> QED BY <1>1, <1>2

\* A save leaves the page as it was, closes it, or sends what is on it.
LEMMA SavingSteps ==
  ASSUME PageInv, \/ \E then \in {"none", "close"} : Save(then)
                  \/ AnswerSave \/ AnswerDiscard \/ CloseTab
  PROVE  PageInv'
<1> USE DEF file, page, window, watcher, pageHistory
<1>0. /\ disk \in Seen /\ disk.at \in Nat /\ disk.text \in Contents /\ left \in Lefts
      /\ revision \in Nat /\ gen \in Nat /\ buffer \in Contents
      /\ base \in Seen \cup {Nothing} /\ offer \in Seen \cup {Nothing}
      /\ base # Nothing => base.at \in Nat
      /\ offer # Nothing => offer.at \in Nat /\ offer.text \in Contents
      /\ busy = "write" => errand \in Writes
      /\ busy = "write" /\ errand.done # Nothing => errand.done \in Seen /\ errand.done.at \in Nat
      /\ probe # Nothing => probe \in Probes /\ probe.gen \in Nat
      /\ probe # Nothing /\ probe.got # Nothing => probe.got \in Seen /\ probe.got.at \in Nat
  BY PageFields
<1>00. locked \in BOOLEAN /\ lastStat \in Nat /\ (asking => open = "open")
       /\ (~modified => unsaved = Nothing)
  BY PageFields DEF PageInv, Author, TypedTextIsKept
<1>1. ASSUME NEW then \in {"none", "close"}, Save(then) PROVE PageInv'
  <2>1. CASE modified /\ SaveHere(then) BY <1>1, <2>1, SavingHere DEF Save, Busy
  <2>2. CASE modified /\ SaveThere(then) BY <1>1, <2>2, SavingThere DEF Save
  <2>3. CASE ~modified
    <3>1. ClosePage /\ unsaved' = Nothing /\ UNCHANGED <<disk, locked, lastStat, left, remote>>
      BY <1>1, <1>00, <2>3 DEF Save
    <3> QED BY <1>0, <1>00, <3>1, PageGoes
  <2> QED BY <1>1, <2>1, <2>2, <2>3 DEF Save
<1>2. CASE AnswerSave BY <1>2, <1>00, SavingHere, SavingThere DEF AnswerSave
<1>3. CASE AnswerDiscard BY <1>3, <1>0, <1>00, PageGoes DEF AnswerDiscard
<1>4. CASE CloseTab /\ ~modified BY <1>4, <1>0, <1>00, PageGoes DEF CloseTab
<1>5. CASE CloseTab /\ modified
  <2>1. /\ open = "open" /\ asking' = TRUE
        /\ UNCHANGED <<remote, disk, locked, open, buffer, modified, revision, busy, base,
                       offer, gen, errand, after, probe, lastStat, unsaved, missed, left>>
    BY <1>5 DEF CloseTab
  <2>2. /\ asking' \in BOOLEAN BY <1>0, <2>1
  <2>3. PageTyped' BY <1>0, <2>1, <2>2 DEF PageInv, PageTyped
  <2>4. Author' BY <1>0, <2>1 DEF PageInv, Author, TypedTextIsKept
  <2>5. InTime' BY <1>0, <2>1 DEF PageInv, InTime
  <2> QED BY <2>3, <2>4, <2>5 DEF PageInv
<1> QED BY <1>1, <1>2, <1>3, <1>4, <1>5

\* The write of a page in use, and its answer.
LEMMA WritingSteps ==
  ASSUME PageInv, WriteBegins \/ WriteLands \/ WriteFails \/ WriteReply
  PROVE  PageInv'
<1> USE DEF file, page, window, watcher, pageHistory
<1>0. /\ disk \in Seen /\ disk.at \in Nat /\ disk.text \in Contents /\ left \in Lefts
      /\ revision \in Nat /\ gen \in Nat /\ buffer \in Contents
      /\ base \in Seen \cup {Nothing} /\ offer \in Seen \cup {Nothing}
      /\ base # Nothing => base.at \in Nat
      /\ offer # Nothing => offer.at \in Nat /\ offer.text \in Contents
      /\ busy = "write" => errand \in Writes
      /\ busy = "write" /\ errand.done # Nothing => errand.done \in Seen /\ errand.done.at \in Nat
      /\ probe # Nothing => probe \in Probes /\ probe.gen \in Nat
      /\ probe # Nothing /\ probe.got # Nothing => probe.got \in Seen /\ probe.got.at \in Nat
  BY PageFields
<1>00. [text |-> Torn, at |-> disk.at + 1, ours |-> TRUE] \in Seen
  BY <1>0 DEF Seen, Contents
<1>000. busy = "write" => /\ errand.text \in Contents
                          /\ [text |-> errand.text, at |-> disk.at + 1, ours |-> TRUE] \in Seen
                          /\ errand.done \in Seen \cup {Nothing} /\ errand.sentAt \in Nat
  <2>1. busy = "write" => /\ errand.text \in Contents
                          /\ errand.done \in Seen \cup {Nothing} /\ errand.sentAt \in Nat
    BY <1>0, WriteFields
  <2> QED BY <1>0, <2>1 DEF Seen
<1>1. CASE WriteBegins
  <2>1. /\ busy = "write" /\ errand.done = Nothing
        /\ disk' = [text |-> Torn, at |-> disk.at + 1, ours |-> TRUE]
        /\ errand' = [errand EXCEPT !.torn = TRUE]
        /\ UNCHANGED <<remote, locked, open, buffer, modified, revision, busy, base, offer,
                       gen, after, asking, probe, lastStat, unsaved, missed, left>>
    BY <1>1 DEF WriteBegins
  <2>2. /\ disk' \in Seen BY <1>0, <2>1, <1>00
  <2>6. errand' \in Writes /\ errand'.text = errand.text /\ errand'.done = Nothing /\ disk'.at = disk.at + 1
    BY <1>0, <2>1, WriteFields
  <2>3. PageTyped' BY <1>0, <2>1, <2>2, <2>6 DEF PageInv, PageTyped
  <2>4. Author' BY <1>0, <2>1, <2>6 DEF PageInv, Author, TypedTextIsKept
  <2>5. InTime' BY <1>0, <2>1, <2>6 DEF PageInv, InTime
  <2> QED BY <2>3, <2>4, <2>5 DEF PageInv
<1>2. CASE WriteLands
  <2>1. /\ busy = "write"
        /\ disk' = [text |-> errand.text, at |-> disk.at + 1, ours |-> TRUE]
        /\ errand' = [errand EXCEPT !.done = disk']
        /\ UNCHANGED <<remote, locked, open, buffer, modified, revision, busy, base, offer,
                       gen, after, asking, probe, lastStat, unsaved, missed, left>>
    BY <1>2 DEF WriteLands
  <2>2. /\ disk' \in Seen BY <1>0, <2>1, <1>000
  <2>6. errand' \in Writes /\ errand'.text = errand.text /\ errand'.done = disk' /\ disk'.at = disk.at + 1
    BY <1>0, <2>1, <2>2, DoneFields
  <2>3. PageTyped' BY <1>0, <2>1, <2>2, <2>6 DEF PageInv, PageTyped
  <2>4. Author' BY <1>0, <2>1, <2>6 DEF PageInv, Author, TypedTextIsKept
  <2>5. InTime' BY <1>0, <2>1, <2>6 DEF PageInv, InTime
  <2> QED BY <2>3, <2>4, <2>5 DEF PageInv
<1>3. CASE WriteFails
  <2>1. /\ busy = "write" /\ busy' = "no" /\ gen' = gen + 1 /\ errand' = Nothing /\ after' = "none"
        /\ left' \in Lefts
        /\ UNCHANGED <<remote, disk, locked, open, buffer, modified, revision, base, offer,
                       asking, probe, lastStat, unsaved, missed>>
    BY <1>3, Spending, <1>0 DEF WriteFails
  <2>2. /\ busy' \in {"no", "read", "retry", "write"} /\ gen' \in Nat
        /\ after' \in {"none", "close", "retry"} /\ left' \in Lefts
    <3>1. busy' \in {"no", "read", "retry", "write"} BY <1>0, <2>1
    <3>2. gen' \in Nat BY <1>0, <2>1
    <3>3. after' \in {"none", "close", "retry"} BY <1>0, <2>1
    <3>4. left' \in Lefts BY <1>0, <2>1
    <3> QED BY <3>1, <3>2, <3>3, <3>4
  <2>3. PageTyped' BY <1>0, <2>1, <2>2 DEF PageInv, PageTyped
  <2>4. Author' BY <1>0, <2>1 DEF PageInv, Author, TypedTextIsKept
  <2>5. InTime' BY <1>0, <2>1 DEF PageInv, InTime
  <2> QED BY <2>3, <2>4, <2>5 DEF PageInv
<1>4. CASE WriteReply /\ ClosePage
  <2>1. unsaved' = Nothing BY <1>4 DEF WriteReply, PageInv, Author
  <2>2. locked \in BOOLEAN /\ lastStat \in Nat BY PageFields
  <2> QED BY <1>0, <1>4, <2>1, <2>2, PageGoes DEF WriteReply
<1>5. CASE WriteReply /\ ~ClosePage
  <2>1. /\ busy = "write" /\ errand.done # Nothing /\ busy' = "no" /\ gen' = gen + 2
        /\ base' = errand.done /\ offer' = Nothing
        /\ modified' = (modified /\ revision # errand.sentAt)
        /\ asking' = (after = "retry")
        /\ errand' = Nothing /\ after' = "none"
        /\ unsaved' = Nothing
        /\ UNCHANGED <<remote, disk, locked, open, buffer, revision, probe, lastStat, missed,
                       left>>
    BY <1>5 DEF WriteReply, MarkWrittenAs, PageInv, Author
  <2>2. /\ busy' \in {"no", "read", "retry", "write"} /\ gen' \in Nat /\ base' \in Seen \cup {Nothing}
        /\ offer' \in Seen \cup {Nothing} /\ modified' \in BOOLEAN /\ asking' \in BOOLEAN
        /\ after' \in {"none", "close", "retry"} /\ unsaved' \in Contents \cup {Nothing}
    <3>1. busy' \in {"no", "read", "retry", "write"} BY <1>0, <2>1
    <3>2. gen' \in Nat BY <1>0, <2>1
    <3>3. base' \in Seen \cup {Nothing} BY <1>0, <2>1
    <3>4. offer' \in Seen \cup {Nothing} BY <1>0, <2>1
    <3>5. modified' \in BOOLEAN BY <1>0, <2>1
    <3>6. asking' \in BOOLEAN BY <1>0, <2>1
    <3>7. after' \in {"none", "close", "retry"} BY <1>0, <2>1
    <3>8. unsaved' \in Contents \cup {Nothing} BY <1>0, <2>1
    <3> QED BY <3>1, <3>2, <3>3, <3>4, <3>5, <3>6, <3>7, <3>8
  <2>6. open = "open" BY <2>1 DEF PageInv, Author
  <2>3. PageTyped' BY <1>0, <2>1, <2>2 DEF PageInv, PageTyped
  <2>4. Author' BY <1>0, <2>1, <2>6 DEF PageInv, Author, TypedTextIsKept
  <2>5. InTime' BY <1>0, <2>1 DEF PageInv, InTime
  <2> QED BY <2>3, <2>4, <2>5 DEF PageInv
<1> QED BY <1>1, <1>2, <1>3, <1>4, <1>5 DEF WriteReply

\* A page that is not busy is told of a state of the disk no older than its own.
LEMMA Telling ==
  ASSUME PageInv, NEW seen \in Seen, NEW focus \in BOOLEAN, ExternalChange(seen, focus),
         busy = "no", seen.at <= disk.at, base # Nothing => base.at <= seen.at,
         probe' = probe \/ probe' = Nothing, lastStat' \in Nat, missed' \in BOOLEAN,
         UNCHANGED <<remote, disk, locked, open, busy, errand, after, asking, unsaved, left>>
  PROVE  PageInv'
<1>0. /\ disk \in Seen /\ disk.at \in Nat /\ disk.text \in Contents /\ left \in Lefts
      /\ revision \in Nat /\ gen \in Nat /\ buffer \in Contents
      /\ base \in Seen \cup {Nothing} /\ offer \in Seen \cup {Nothing}
      /\ base # Nothing => base.at \in Nat
      /\ offer # Nothing => offer.at \in Nat /\ offer.text \in Contents
      /\ busy = "write" => errand \in Writes
      /\ busy = "write" /\ errand.done # Nothing => errand.done \in Seen /\ errand.done.at \in Nat
      /\ probe # Nothing => probe \in Probes /\ probe.gen \in Nat
      /\ probe # Nothing /\ probe.got # Nothing => probe.got \in Seen /\ probe.got.at \in Nat
  BY PageFields
<1>00. seen.text \in Contents /\ seen.at \in Nat BY Sights
<1>1. CASE UNCHANGED <<buffer, modified, revision, base, offer, gen>>
  <2>1. PageTyped'
    <3> QED BY <1>0, <1>1 DEF PageInv, PageTyped
  <2>2. Author' BY <1>0, <1>1 DEF PageInv, Author, TypedTextIsKept
  <2>3. InTime' BY <1>0, <1>00, <1>1 DEF PageInv, InTime
  <2> QED BY <2>1, <2>2, <2>3 DEF PageInv
<1>2. CASE /\ offer' = Nothing
           /\ UNCHANGED <<buffer, modified, revision, base, gen>>
  <2>1. PageTyped'
    <3>1. offer' \in Seen \cup {Nothing} BY <1>0, <1>00, <1>2
    <3> QED BY <1>0, <1>2, <3>1 DEF PageInv, PageTyped
  <2>2. Author' BY <1>0, <1>2 DEF PageInv, Author, TypedTextIsKept
  <2>3. InTime' BY <1>0, <1>00, <1>2 DEF PageInv, InTime
  <2> QED BY <2>1, <2>2, <2>3 DEF PageInv
<1>3. CASE /\ ~modified
           /\ base # Nothing
           /\ buffer' = seen.text /\ modified' = FALSE /\ revision' = revision + 1
           /\ base' = seen /\ offer' = Nothing /\ gen' = gen + 1
  <2>1. PageTyped'
    <3>1. buffer' \in Contents BY <1>0, <1>00, <1>3
    <3>2. modified' \in BOOLEAN BY <1>0, <1>00, <1>3
    <3>3. revision' \in Nat BY <1>0, <1>00, <1>3
    <3>4. base' \in Seen \cup {Nothing} BY <1>0, <1>00, <1>3
    <3>5. offer' \in Seen \cup {Nothing} BY <1>0, <1>00, <1>3
    <3>6. gen' \in Nat BY <1>0, <1>00, <1>3
    <3> QED BY <1>0, <1>3, <3>1, <3>2, <3>3, <3>4, <3>5, <3>6 DEF PageInv, PageTyped
  <2>2. Author' BY <1>0, <1>3 DEF PageInv, Author, TypedTextIsKept
  <2>3. InTime' BY <1>0, <1>00, <1>3 DEF PageInv, InTime
  <2> QED BY <2>1, <2>2, <2>3 DEF PageInv
<1>4. CASE /\ base # Nothing
           /\ offer' = seen
           /\ UNCHANGED <<buffer, modified, revision, base, gen>>
  <2>1. PageTyped'
    <3>1. offer' \in Seen \cup {Nothing} BY <1>0, <1>00, <1>4
    <3> QED BY <1>0, <1>4, <3>1 DEF PageInv, PageTyped
  <2>2. Author' BY <1>0, <1>4 DEF PageInv, Author, TypedTextIsKept
  <2>3. InTime' BY <1>0, <1>00, <1>4 DEF PageInv, InTime
  <2> QED BY <2>1, <2>2, <2>3 DEF PageInv
<1> QED BY <1>1, <1>2, <1>3, <1>4, Told

\* The watcher's steps.
LEMMA WatcherSteps ==
  ASSUME PageInv, CheckLocal \/ ProbeStarts \/ ProbeReads \/ ProbeReply \/ ProbeFails
  PROVE  PageInv'
<1> USE DEF file, page, window, watcher, pageHistory
<1>0. /\ disk \in Seen /\ disk.at \in Nat /\ disk.text \in Contents /\ left \in Lefts
      /\ revision \in Nat /\ gen \in Nat /\ buffer \in Contents
      /\ base \in Seen \cup {Nothing} /\ offer \in Seen \cup {Nothing}
      /\ base # Nothing => base.at \in Nat
      /\ offer # Nothing => offer.at \in Nat /\ offer.text \in Contents
      /\ busy = "write" => errand \in Writes
      /\ busy = "write" /\ errand.done # Nothing => errand.done \in Seen /\ errand.done.at \in Nat
      /\ probe # Nothing => probe \in Probes /\ probe.gen \in Nat
      /\ probe # Nothing /\ probe.got # Nothing => probe.got \in Seen /\ probe.got.at \in Nat
  BY PageFields
<1>1. CASE CheckLocal /\ locked
  <2>1. /\ lastStat' = disk.at /\ missed' \in BOOLEAN
        /\ UNCHANGED <<remote, disk, locked, open, buffer, modified, revision, busy, base,
                       offer, gen, errand, after, asking, probe, unsaved, left>>
    BY <1>1 DEF CheckLocal
  <2>2. /\ lastStat' \in Nat /\ missed' \in BOOLEAN
    <3>1. lastStat' \in Nat BY <1>0, <2>1
    <3>2. missed' \in BOOLEAN BY <1>0, <2>1
    <3> QED BY <3>1, <3>2
  <2>3. PageTyped' BY <1>0, <2>1, <2>2 DEF PageInv, PageTyped
  <2>4. Author' BY <1>0, <2>1 DEF PageInv, Author, TypedTextIsKept
  <2>5. InTime' BY <1>0, <2>1 DEF PageInv, InTime
  <2> QED BY <2>3, <2>4, <2>5 DEF PageInv
<1>2. CASE CheckLocal /\ ~locked
  <2>1. PICK focus \in BOOLEAN : ExternalChange(disk, focus) BY <1>2 DEF CheckLocal
  <2>2. /\ probe' = probe /\ lastStat' = disk.at /\ missed' \in BOOLEAN
        /\ UNCHANGED <<remote, disk, locked, open, busy, errand, after, asking, unsaved, left>>
    BY <1>2 DEF CheckLocal
  <2>3. busy = "no" /\ (base # Nothing => base.at <= disk.at)
    BY <1>2 DEF CheckLocal, PageInv, Author, InTime
  <2> QED BY <1>0, <2>1, <2>2, <2>3, Telling
<1>3. CASE ProbeStarts
  <2>1. /\ probe' = [gen |-> gen, got |-> Nothing]
        /\ UNCHANGED <<remote, disk, locked, open, buffer, modified, revision, busy, base,
                       offer, gen, errand, after, asking, lastStat, unsaved, missed, left>>
    BY <1>3 DEF ProbeStarts
  <2>6. probe' \in Probes /\ probe'.gen = gen /\ probe'.got = Nothing
    BY <1>0, <2>1 DEF Probes
  <2>3. PageTyped' BY <1>0, <2>1, <2>6 DEF PageInv, PageTyped
  <2>4. Author' BY <1>0, <2>1 DEF PageInv, Author, TypedTextIsKept
  <2>5. InTime' BY <1>0, <2>1, <2>6 DEF PageInv, InTime
  <2> QED BY <2>3, <2>4, <2>5 DEF PageInv
<1>4. CASE ProbeReads
  <2>1. /\ probe # Nothing /\ (probe' = Nothing \/ probe' = [probe EXCEPT !.got = disk])
        /\ UNCHANGED <<remote, disk, locked, open, buffer, modified, revision, busy, base,
                       offer, gen, errand, after, asking, lastStat, unsaved, missed, left>>
    BY <1>4 DEF ProbeReads
  <2>6. probe' # Nothing => probe' \in Probes /\ probe'.gen = probe.gen /\ probe'.got = disk
    BY <1>0, <2>1 DEF Probes
  <2>3. PageTyped' BY <1>0, <2>1, <2>6 DEF PageInv, PageTyped
  <2>4. Author' BY <1>0, <2>1 DEF PageInv, Author, TypedTextIsKept
  <2>5. InTime' BY <1>0, <2>1, <2>6 DEF PageInv, InTime
  <2> QED BY <2>3, <2>4, <2>5 DEF PageInv
<1>5. CASE ProbeReply /\ ProbeCounts
  <2>1. PICK focus \in BOOLEAN : ExternalChange(probe.got, focus) BY <1>5 DEF ProbeReply
  <2>2. /\ probe' = Nothing /\ lastStat' \in Nat /\ missed' \in BOOLEAN
        /\ UNCHANGED <<remote, disk, locked, open, busy, errand, after, asking, unsaved, left>>
    BY <1>5, PageFields DEF ProbeReply
  <2>3. /\ busy = "no" /\ probe.got \in Seen /\ probe.got.at <= disk.at
        /\ base # Nothing => base.at <= probe.got.at
    BY <1>0, <1>5 DEF ProbeReply, ProbeCounts, PageInv, InTime
  <2> QED BY <1>0, <2>1, <2>2, <2>3, Telling
<1>6. CASE ProbeReply /\ ~ProbeCounts
  <2>1. /\ probe' = Nothing
        /\ UNCHANGED <<remote, disk, locked, open, buffer, modified, revision, busy, base,
                       offer, gen, errand, after, asking, lastStat, unsaved, missed, left>>
    BY <1>6 DEF ProbeReply
  <2>3. PageTyped' BY <1>0, <2>1 DEF PageInv, PageTyped
  <2>4. Author' BY <1>0, <2>1 DEF PageInv, Author, TypedTextIsKept
  <2>5. InTime' BY <1>0, <2>1 DEF PageInv, InTime
  <2> QED BY <2>3, <2>4, <2>5 DEF PageInv
<1>7. CASE ProbeFails
  <2>1. /\ probe' = Nothing /\ left' \in Lefts
        /\ UNCHANGED <<remote, disk, locked, open, buffer, modified, revision, busy, base,
                       offer, gen, errand, after, asking, lastStat, unsaved, missed>>
    BY <1>7, Spending, <1>0 DEF ProbeFails
  <2>2. /\ left' \in Lefts BY <1>0, <2>1
  <2>3. PageTyped' BY <1>0, <2>1, <2>2 DEF PageInv, PageTyped
  <2>4. Author' BY <1>0, <2>1 DEF PageInv, Author, TypedTextIsKept
  <2>5. InTime' BY <1>0, <2>1 DEF PageInv, InTime
  <2> QED BY <2>3, <2>4, <2>5 DEF PageInv
<1> QED BY <1>1, <1>2, <1>3, <1>4, <1>5, <1>6, <1>7

\* Another program has the file.
LEMMA OtherSteps ==
  ASSUME PageInv, \/ \E t \in Texts \cup {Gone} : OtherWrites(t)
                  \/ OtherLocks \/ OtherUnlocks
  PROVE  PageInv'
<1> USE DEF file, page, window, watcher, pageHistory
<1>0. /\ disk \in Seen /\ disk.at \in Nat /\ disk.text \in Contents /\ left \in Lefts
      /\ revision \in Nat /\ gen \in Nat /\ buffer \in Contents
      /\ base \in Seen \cup {Nothing} /\ offer \in Seen \cup {Nothing}
      /\ base # Nothing => base.at \in Nat
      /\ offer # Nothing => offer.at \in Nat /\ offer.text \in Contents
      /\ busy = "write" => errand \in Writes
      /\ busy = "write" /\ errand.done # Nothing => errand.done \in Seen /\ errand.done.at \in Nat
      /\ probe # Nothing => probe \in Probes /\ probe.gen \in Nat
      /\ probe # Nothing /\ probe.got # Nothing => probe.got \in Seen /\ probe.got.at \in Nat
  BY PageFields
<1>1. ASSUME NEW t \in Texts \cup {Gone}, OtherWrites(t) PROVE PageInv'
  <2>1. /\ disk' = [text |-> t, at |-> disk.at + 1, ours |-> FALSE] /\ left' \in Lefts
        /\ UNCHANGED <<remote, locked, open, buffer, modified, revision, busy, base, offer,
                       gen, errand, after, asking, probe, lastStat, unsaved, missed>>
    BY <1>1, Spending, <1>0 DEF OtherWrites
  <2>2. /\ disk' \in Seen /\ left' \in Lefts
    <3>1. disk' \in Seen BY <1>0, <2>1 DEF Seen, Contents
    <3>2. left' \in Lefts BY <1>0, <2>1 DEF Seen, Contents
    <3> QED BY <3>1, <3>2
  <2>6. disk'.at = disk.at + 1 BY <2>1
  <2>3. PageTyped' BY <1>0, <2>1, <2>2 DEF PageInv, PageTyped
  <2>4. Author' BY <1>0, <2>1 DEF PageInv, Author, TypedTextIsKept
  <2>5. InTime' BY <1>0, <2>1, <2>6 DEF PageInv, InTime
  <2> QED BY <2>3, <2>4, <2>5 DEF PageInv
<1>2. CASE OtherLocks
  <2>1. /\ locked' = TRUE /\ left' \in Lefts
        /\ UNCHANGED <<remote, disk, open, buffer, modified, revision, busy, base, offer, gen,
                       errand, after, asking, probe, lastStat, unsaved, missed>>
    BY <1>2, Spending, <1>0 DEF OtherLocks
  <2>2. /\ locked' \in BOOLEAN /\ left' \in Lefts
    <3>1. locked' \in BOOLEAN BY <1>0, <2>1
    <3>2. left' \in Lefts BY <1>0, <2>1
    <3> QED BY <3>1, <3>2
  <2>3. PageTyped' BY <1>0, <2>1, <2>2 DEF PageInv, PageTyped
  <2>4. Author' BY <1>0, <2>1 DEF PageInv, Author, TypedTextIsKept
  <2>5. InTime' BY <1>0, <2>1 DEF PageInv, InTime
  <2> QED BY <2>3, <2>4, <2>5 DEF PageInv
<1>3. CASE OtherUnlocks
  <2>1. /\ locked' = FALSE
        /\ UNCHANGED <<remote, disk, open, buffer, modified, revision, busy, base, offer, gen,
                       errand, after, asking, probe, lastStat, unsaved, missed, left>>
    BY <1>3 DEF OtherUnlocks
  <2>2. /\ locked' \in BOOLEAN BY <1>0, <2>1
  <2>3. PageTyped' BY <1>0, <2>1, <2>2 DEF PageInv, PageTyped
  <2>4. Author' BY <1>0, <2>1 DEF PageInv, Author, TypedTextIsKept
  <2>5. InTime' BY <1>0, <2>1 DEF PageInv, InTime
  <2> QED BY <2>3, <2>4, <2>5 DEF PageInv
<1> QED BY <1>1, <1>2, <1>3

LEMMA PageNext == PageInv /\ [ConfigNext]_configVars => PageInv'
<1> SUFFICES ASSUME PageInv, [ConfigNext]_configVars PROVE PageInv' OBVIOUS
<1>1. CASE UNCHANGED configVars
  <2>1. UNCHANGED <<remote, disk, locked, open, buffer, modified, revision, busy, base, offer, gen,
                    errand, after, asking, probe, lastStat, unsaved, missed, left>>
    BY <1>1 DEF configVars, file, page, window, watcher, pageHistory
  <2>2. PageTyped' BY <2>1 DEF PageInv, PageTyped
  <2>3. Author' /\ InTime' BY <2>1 DEF PageInv, Author, InTime, TypedTextIsKept
  <2> QED BY <2>2, <2>3 DEF PageInv
<1>2. CASE ConfigNext
  BY <1>2, AuthorSteps, OpeningSteps, SavingSteps, WritingSteps, WatcherSteps, OtherSteps
     DEF ConfigNext, WatcherStep, ErrandStep
<1> QED BY <1>1, <1>2

-----------------------------------------------------------------------------
(* The config page: theorems                                               *)

\* Every step of the page finds it, and leaves it, in these states.
LEMMA PageHolds == ConfigSpec => []PageInv
<1> QED BY PageInit, PageNext, PTL DEF ConfigSpec

\* Whatever probes, writes, answers and closes do in between, what was typed and is on
\* no disk is on an open page that wears its mark (confirmDiscard(), externalChange(),
\* saveConfig()).
THEOREM TypedTextSurvives == ConfigSpec => []TypedTextIsKept
<1>1. PageInv => TypedTextIsKept BY DEF PageInv, Author
<1> QED BY <1>1, PageHolds, PTL


\* A step leaves the page with the state of the file it knew, with none, or with a
\* later one.
Onward == base' = base \/ base' = Nothing \/ (base # Nothing => base'.at >= base.at)

LEMMA TellingOnward ==
  ASSUME PageInv, NEW seen \in Seen, NEW focus \in BOOLEAN, ExternalChange(seen, focus),
         base # Nothing => base.at <= seen.at
  PROVE  Onward
<1> USE DEF Onward
<1>1. (base # Nothing => base.at \in Nat) /\ seen.at \in Nat BY PageFields, Sights
<1> QED BY <1>1, Told

LEMMA SaveOnward ==
  ASSUME PageInv, NEW then, SaveHere(then) \/ SaveThere(then) \/ ClosePage
  PROVE  Onward
<1> USE DEF Onward
<1>1. (base # Nothing => base.at \in Nat /\ base.at <= disk.at) /\ disk.at \in Nat
  BY PageFields DEF PageInv, InTime
<1>2. Written.at = disk.at + 1 BY DEF Written
<1>3. CASE SaveHere(then)
  <2>1. base' = base \/ base' = Nothing \/ base' = Written
    BY <1>3 DEF SaveHere, MarkWrittenAs, ClosePage, page
  <2> QED BY <1>1, <1>2, <2>1
<1>4. CASE SaveThere(then) BY <1>4 DEF SaveThere
<1>5. CASE ClosePage BY <1>5 DEF ClosePage
<1> QED BY <1>3, <1>4, <1>5

LEMMA StepOnward == PageInv /\ [ConfigNext]_configVars => Onward
<1> SUFFICES ASSUME PageInv, [ConfigNext]_configVars PROVE Onward OBVIOUS
<1>0. /\ disk \in Seen /\ disk.at \in Nat
      /\ base # Nothing => base.at \in Nat /\ base.at <= disk.at
      /\ offer # Nothing => offer.at \in Nat /\ (base # Nothing => base.at <= offer.at)
      /\ busy = "write" /\ errand.done # Nothing =>
           errand.done.at \in Nat /\ (base # Nothing => base.at <= errand.done.at)
      /\ probe # Nothing /\ probe.got # Nothing /\ probe.gen = gen =>
           probe.got \in Seen /\ (base # Nothing => base.at <= probe.got.at)
  BY PageFields DEF PageInv, InTime
<1>1. CASE Reload BY <1>0, <1>1 DEF Reload, SetContents, Onward
<1>2. CASE Ignore BY <1>0, <1>2 DEF Ignore, Onward
<1>3. CASE OpenHere \/ ReadReply
  <2>1. base' = base \/ base' = disk BY <1>3 DEF OpenHere, ReadReply, SetContents
  <2> QED BY <1>0, <2>1 DEF Onward
<1>4. CASE AnswerSave \/ AnswerDiscard \/ (\E then \in {"none", "close"} : Save(then))
  <2>1. (\E then : SaveHere(then) \/ SaveThere(then)) \/ ClosePage
    BY <1>4 DEF AnswerSave, AnswerDiscard, Save
  <2> QED BY <2>1, SaveOnward
<1>5. CASE CloseTab BY <1>5 DEF CloseTab, ClosePage, page, Onward
<1>6. CASE WriteReply
  <2>1. \/ ClosePage
        \/ busy = "write" /\ errand.done # Nothing /\ base' = errand.done
    BY <1>6 DEF WriteReply, MarkWrittenAs
  <2> QED BY <1>0, <2>1 DEF ClosePage, Onward
<1>7. CASE CheckLocal
  <2>1. base' = base \/ \E focus \in BOOLEAN : ExternalChange(disk, focus)
    BY <1>7 DEF CheckLocal
  <2> QED BY <1>0, <2>1, TellingOnward DEF Onward
<1>8. CASE ProbeReply
  <2>1. \/ base' = base
        \/ /\ probe # Nothing /\ probe.got # Nothing /\ probe.gen = gen
           /\ \E focus \in BOOLEAN : ExternalChange(probe.got, focus)
    BY <1>8 DEF ProbeReply, ProbeCounts
  <2> QED BY <1>0, <2>1, TellingOnward DEF Onward
<1>9. CASE UNCHANGED base BY <1>9 DEF Onward
<1> QED
  <2>1. \/ Reload \/ Ignore \/ OpenHere \/ ReadReply \/ CloseTab \/ WriteReply \/ CheckLocal
        \/ ProbeReply \/ AnswerSave \/ AnswerDiscard
        \/ (\E then \in {"none", "close"} : Save(then))
        \/ UNCHANGED base
    BY DEF ConfigNext, WatcherStep, ErrandStep, configVars, file, page, window, watcher,
           WatchBegins, OpenThere, RetryRead, Type, AnswerCancel, WriteBegins, WriteLands,
           WriteFails, ProbeStarts, ProbeReads, ProbeFails, OtherWrites, OtherLocks,
           OtherUnlocks
  <2> QED BY <1>1, <1>2, <1>3, <1>4, <1>5, <1>6, <1>7, <1>8, <1>9, <2>1

\* A page never goes back to an older state of the file than the one it last read or
\* wrote, however late a probe answers (ConfigView::diskGeneration()).
THEOREM NeverBack == ConfigSpec => PageNeverGoesBack
<1>1. PageInv /\ [ConfigNext]_configVars =>
        [base # Nothing /\ base' # Nothing => base'.at >= base.at]_configVars
  <2> SUFFICES ASSUME PageInv, [ConfigNext]_configVars, base # Nothing, base' # Nothing
      PROVE  base'.at >= base.at
    OBVIOUS
  <2>1. base.at \in Nat BY PageFields
  <2> QED BY <2>1, StepOnward DEF Onward
<1> QED BY <1>1, PageHolds, PTL DEF ConfigSpec, PageNeverGoesBack

\* The page's types, and those of what it has in flight.
THEOREM PageTypeCorrect == ConfigSpec => []ConfigTypeOK
<1>1. PageInv => ConfigTypeOK
  <2> SUFFICES ASSUME PageInv PROVE ConfigTypeOK OBVIOUS
  <2>1. PageTyped BY DEF PageInv
  <2>2. errand = Nothing \/ errand.kind \in {"read", "write"}
    BY <2>1 DEF PageTyped, Writes
  <2>3. probe = Nothing \/ probe.gen \in Nat BY <2>1 DEF PageTyped, Probes
  <2>4. \A b \in DOMAIN left : left[b] \in Nat BY <2>1 DEF PageTyped, Lefts
  <2> QED BY <2>1, <2>2, <2>3, <2>4 DEF PageTyped, ConfigTypeOK
<1> QED BY <1>1, PageHolds, PTL
=============================================================================
