------------------------------- MODULE Fetch -------------------------------
(***************************************************************************)
(* fetch(url) of bindings_wifi.cpp: one HTTP request at a time, run by a   *)
(* FreeRTOS worker task and handed back to the loop task through a queue.  *)
(*                                                                         *)
(* Two kinds of steps interleave.  The loop task runs js_fetch (called by  *)
(* a script), the poll lv_timer and the teardown of an app switch; these   *)
(* never overlap one another.  The worker runs on a task of its own, so    *)
(* any of its steps may fall between two of theirs.                        *)
(*                                                                         *)
(* A request is known by its number, which also stands for its url: the    *)
(* content of g_fetch_url is the number of the request that wrote it.      *)
(***************************************************************************)
EXTENDS Naturals, Sequences, FiniteSets

CONSTANTS
  QueueLen,         \* xQueueCreate(4, ...): results the queue can hold
  MaxRequests,      \* bound: calls of fetch() that get past the guards
  MaxSwitches,      \* bound: app switches
  MemoryMayFail,    \* calloc / heap_caps_malloc in the worker may return null
  ArgRunsScript     \* the argument of fetch() may be an object whose
                    \* toString() calls fetch() again

ASSUME FetchAssumption ==
  /\ QueueLen \in Nat \ {0}
  /\ MaxRequests \in Nat
  /\ MaxSwitches \in Nat
  /\ MemoryMayFail \in BOOLEAN
  /\ ArgRunsScript \in BOOLEAN

Requests == 1..MaxRequests
NoRequest == 0

\* What http.GET() can come to: a response with its body, a response whose
\* body could not be allocated, or one of the negative codes.
Outcomes == {"body", "error"} \cup IF MemoryMayFail THEN {"bodyless"} ELSE {}

Result == [request: Requests, url: Requests, generation: Nat,
           outcome: {"body", "bodyless", "error"}]

VARIABLES
  generation,   \* g_generation (a uint32_t; 2^32 abandoned requests away from a wrap)
  busy,         \* g_fetch_busy
  workerAlive,  \* g_fetch_worker_alive
  url,          \* g_fetch_url
  settling,     \* g_fetch_resolve / g_fetch_reject: the request they settle
  poll,         \* g_fetch_poll is not null
  timers,       \* how many lv_timers run fetch_poll_timer
  queue,        \* g_fetch_q
  worker,       \* the worker task of each request
  nested,       \* js_fetch calls past their guards and still in JS_ToCString
  promise,      \* what each script's promise has come to
  answer,       \* the url whose response settled each promise
  owner,        \* the app that made each request
  app,          \* how many apps have been switched away from
  calls,        \* requests begun so far
  thrown        \* what this step's js_fetch threw

loopVars == <<generation, busy, url, settling, poll, timers, nested,
              promise, answer, owner, app, calls>>
vars == <<loopVars, workerAlive, queue, worker, thrown>>

NoWorker == [at |-> "none", generation |-> 0, url |-> NoRequest]
Worker == [at: {"none", "started", "requesting", "leaving", "gone"},
           generation: Nat, url: Requests \cup {NoRequest}]

Alive(r) == worker[r].at \in {"started", "requesting", "leaving"}

Init ==
  /\ generation = 1
  /\ busy = FALSE /\ workerAlive = FALSE
  /\ url = NoRequest /\ settling = NoRequest
  /\ poll = FALSE /\ timers = 0
  /\ queue = << >>
  /\ worker = [r \in Requests |-> NoWorker]
  /\ nested = 0
  /\ promise = [r \in Requests |-> "none"]
  /\ answer = [r \in Requests |-> NoRequest]
  /\ owner = [r \in Requests |-> 0]
  /\ app = 0 /\ calls = 0
  /\ thrown = "nothing"

-----------------------------------------------------------------------------
(* The loop task.                                                          *)

\* The script runs: nothing of the loop task is under way, or the argument of
\* a fetch() is being converted by a toString() of the script.
ScriptRuns == nested = 0 \/ ArgRunsScript

\* The refusals of js_fetch, in the order of its guards.
FetchRefused ==
  /\ ScriptRuns
  /\ \/ busy /\ thrown' = "inFlight"
     \/ ~busy /\ workerAlive /\ thrown' = "stillFinishing"
     \/ ~busy /\ ~workerAlive /\ thrown' = "notConnected"
  /\ UNCHANGED <<loopVars, workerAlive, queue, worker>>

\* Mutant of FetchAccepted: busy alone guards the worker.
FetchAcceptedUnguarded ==
  /\ ScriptRuns
  /\ ~busy
  /\ calls + nested < MaxRequests
  /\ nested' = nested + 1
  /\ thrown' = "nothing"
  /\ UNCHANGED <<generation, busy, url, settling, poll, timers, promise,
                 answer, owner, app, calls, workerAlive, queue, worker>>

\* js_fetch past its guards, about to convert its argument.
FetchAccepted ==
  /\ ScriptRuns
  /\ ~busy /\ ~workerAlive
  /\ calls + nested < MaxRequests
  /\ nested' = nested + 1
  /\ thrown' = "nothing"
  /\ UNCHANGED <<generation, busy, url, settling, poll, timers, promise,
                 answer, owner, app, calls, workerAlive, queue, worker>>

\* Mutants of Release: the timer is deleted without a look at the handle, the
\* handle is cleared without deleting the timer.
ReleaseBlindly ==
  timers' = timers - 1 /\ poll' = FALSE /\ settling' = NoRequest /\ busy' = FALSE
ReleaseKeepsTimer ==
  timers' = timers /\ poll' = FALSE /\ settling' = NoRequest /\ busy' = FALSE

\* fetch_release(): the poll timer and the resolving functions go.
Release ==
  /\ timers' = IF poll THEN timers - 1 ELSE timers
  /\ poll' = FALSE
  /\ settling' = NoRequest
  /\ busy' = FALSE

\* Mutant of FetchStarted: no poll timer is created.
FetchStartedUnpolled ==
  LET r == calls + 1 IN
  /\ nested > 0 /\ calls < MaxRequests
  /\ nested' = nested - 1 /\ calls' = r /\ url' = r
  /\ promise' = [promise EXCEPT ![r] = "pending"]
  /\ owner' = [owner EXCEPT ![r] = app]
  /\ settling' = r /\ busy' = TRUE /\ workerAlive' = TRUE
  /\ worker' = [worker EXCEPT ![r] =
                  [at |-> "started", generation |-> generation, url |-> NoRequest]]
  /\ thrown' = "nothing"
  /\ UNCHANGED <<generation, answer, app, queue, poll, timers>>

\* The rest of js_fetch: url copied, promise made, flag raised, task created.
FetchStarted ==
  LET r == calls + 1 IN
  /\ nested > 0 /\ calls < MaxRequests
  /\ nested' = nested - 1
  /\ calls' = r
  /\ url' = r
  /\ promise' = [promise EXCEPT ![r] = "pending"]
  /\ owner' = [owner EXCEPT ![r] = app]
  /\ settling' = r
  /\ busy' = TRUE
  /\ workerAlive' = TRUE
  /\ worker' = [worker EXCEPT ![r] =
                  [at |-> "started", generation |-> generation, url |-> NoRequest]]
  /\ poll' = TRUE
  /\ timers' = timers + 1
  /\ thrown' = "nothing"
  /\ UNCHANGED <<generation, answer, app, queue>>

\* JS_ToCString throws, before anything was written.
FetchArgumentThrows ==
  /\ nested > 0
  /\ nested' = nested - 1
  /\ thrown' = "argument"
  /\ UNCHANGED <<generation, busy, url, settling, poll, timers, promise,
                 answer, owner, app, calls, workerAlive, queue, worker>>

\* No queue or no promise: only the url has been copied.
FetchOutOfMemory ==
  /\ nested > 0 /\ calls < MaxRequests
  /\ nested' = nested - 1
  /\ calls' = calls + 1
  /\ url' = calls + 1
  /\ thrown' = "outOfMemory"
  /\ UNCHANGED <<generation, busy, settling, poll, timers, promise, answer,
                 owner, app, workerAlive, queue, worker>>

\* xTaskCreate fails: the flag is lowered and everything released again.
FetchTaskNotCreated ==
  /\ nested > 0 /\ calls < MaxRequests
  /\ nested' = nested - 1
  /\ calls' = calls + 1
  /\ url' = calls + 1
  /\ workerAlive' = FALSE
  /\ Release
  /\ thrown' = "notStarted"
  /\ UNCHANGED <<generation, promise, answer, owner, app, queue, worker>>

\* Mutant of PollDrops: a dropped result releases the current request as well.
PollDropsAndReleases ==
  /\ nested = 0 /\ timers > 0
  /\ queue # << >>
  /\ Head(queue).generation # generation
  /\ queue' = Tail(queue)
  /\ Release
  /\ thrown' = "nothing"
  /\ UNCHANGED <<generation, url, nested, promise, answer, owner, app, calls,
                 workerAlive, worker>>

\* fetch_poll_timer with a result of an abandoned request: dropped.
PollDrops ==
  /\ nested = 0 /\ timers > 0
  /\ queue # << >>
  /\ Head(queue).generation # generation
  /\ queue' = Tail(queue)
  /\ thrown' = "nothing"
  /\ UNCHANGED <<loopVars, workerAlive, worker>>

\* fetch_poll_timer with the awaited result: everything is released first,
\* then the promise is settled with what the worker brought.
PollSettles ==
  /\ nested = 0 /\ timers > 0
  /\ queue # << >>
  /\ Head(queue).generation = generation
  /\ queue' = Tail(queue)
  /\ Release
  /\ IF settling \in Requests
     THEN /\ promise' = [promise EXCEPT ![settling] =
                           IF Head(queue).outcome = "error" THEN "rejected" ELSE "resolved"]
          /\ answer' = [answer EXCEPT ![settling] = Head(queue).url]
     ELSE UNCHANGED <<promise, answer>>
  /\ thrown' = "nothing"
  /\ UNCHANGED <<generation, url, nested, owner, app, calls, workerAlive, worker>>

\* Mutant of Teardown: the generation is not bumped.
TeardownSameGeneration ==
  /\ nested = 0
  /\ app < MaxSwitches
  /\ app' = app + 1
  /\ IF busy THEN Release ELSE UNCHANGED <<busy, settling, poll, timers>>
  /\ promise' = [r \in Requests |->
                   IF promise[r] = "pending" THEN "gone" ELSE promise[r]]
  /\ thrown' = "nothing"
  /\ UNCHANGED <<generation, url, nested, answer, owner, calls, workerAlive, queue, worker>>

\* js_teardown_wifi() and the end of the context it belongs to: an awaited
\* request is abandoned, and with the context its promise is gone.
Teardown ==
  /\ nested = 0
  /\ app < MaxSwitches
  /\ app' = app + 1
  /\ IF busy
     THEN generation' = generation + 1 /\ Release
     ELSE UNCHANGED <<generation, busy, settling, poll, timers>>
  /\ promise' = [r \in Requests |->
                   IF promise[r] = "pending" THEN "gone" ELSE promise[r]]
  /\ thrown' = "nothing"
  /\ UNCHANGED <<url, nested, answer, owner, calls, workerAlive, queue, worker>>

-----------------------------------------------------------------------------
(* The worker task.                                                        *)

\* calloc of the result, and http.begin() reading g_fetch_url.
WorkerBegins(r) ==
  /\ worker[r].at = "started"
  /\ \/ worker' = [worker EXCEPT ![r].at = "requesting", ![r].url = url]
     \/ MemoryMayFail /\ worker' = [worker EXCEPT ![r].at = "leaving"]
  /\ thrown' = "nothing"
  /\ UNCHANGED <<loopVars, workerAlive, queue>>

\* The response, and xQueueSend() without waiting: a full queue drops it.
WorkerSends(r) ==
  /\ worker[r].at = "requesting"
  /\ \E outcome \in Outcomes :
       LET result == [request |-> r, url |-> worker[r].url,
                      generation |-> worker[r].generation, outcome |-> outcome]
       IN queue' = IF Len(queue) < QueueLen THEN Append(queue, result) ELSE queue
  /\ worker' = [worker EXCEPT ![r].at = "leaving"]
  /\ thrown' = "nothing"
  /\ UNCHANGED <<loopVars, workerAlive>>

\* The last thing a worker does: let the next fetch() start.
WorkerLeaves(r) ==
  /\ worker[r].at = "leaving"
  /\ worker' = [worker EXCEPT ![r].at = "gone"]
  /\ workerAlive' = FALSE
  /\ thrown' = "nothing"
  /\ UNCHANGED <<loopVars, queue>>

-----------------------------------------------------------------------------
FetchCall == \/ FetchRefused \/ FetchAccepted \/ FetchStarted
             \/ FetchArgumentThrows \/ FetchOutOfMemory \/ FetchTaskNotCreated
PollTimer == PollDrops \/ PollSettles
WorkerStep(r) == WorkerBegins(r) \/ WorkerSends(r) \/ WorkerLeaves(r)

Next == \/ FetchCall \/ PollTimer \/ Teardown
        \/ \E r \in Requests : WorkerStep(r)

Spec == Init /\ [][Next]_vars

\* The scheduler runs the worker (every request has a 10 second timeout), and
\* lv_timer_handler() runs the poll every 50 ms.  Nothing obliges a script to
\* call fetch() or a user to switch apps.
Fairness == WF_vars(PollTimer) /\ \A r \in Requests : WF_vars(WorkerStep(r))

FairSpec == Spec /\ Fairness

-----------------------------------------------------------------------------
TypeOK ==
  /\ generation \in Nat
  /\ busy \in BOOLEAN /\ workerAlive \in BOOLEAN /\ poll \in BOOLEAN
  /\ url \in Requests \cup {NoRequest}
  /\ settling \in Requests \cup {NoRequest}
  /\ timers \in Nat /\ nested \in Nat /\ app \in Nat /\ calls \in 0..MaxRequests
  /\ queue \in Seq(Result) /\ Len(queue) <= QueueLen
  /\ worker \in [Requests -> Worker]
  /\ promise \in [Requests -> {"none", "pending", "resolved", "rejected", "gone"}]
  /\ answer \in [Requests -> Requests \cup {NoRequest}]
  /\ owner \in [Requests -> Nat]
  /\ thrown \in {"nothing", "inFlight", "stillFinishing", "notConnected",
                 "argument", "outOfMemory", "notStarted"}

-----------------------------------------------------------------------------
(* Properties.                                                             *)

\* At most one task is inside a request, across app switches too: this is what
\* g_fetch_worker_alive is for (bindings_wifi.cpp:310-317), and what keeps two
\* workers from sharing g_fetch_url.
OneWorker == \A r, s \in Requests : Alive(r) /\ Alive(s) => r = s

\* The answer to r is on its way: from its worker, or in the queue.
OnItsWay(r) ==
  \/ worker[r].at \in {"started", "requesting"} /\ worker[r].generation = generation
  \/ \E i \in DOMAIN queue : queue[i].request = r /\ queue[i].generation = generation

\* The worker of r had no memory for a result and left without one.
Starved(r) == worker[r].at \in {"leaving", "gone"} /\ worker[r].url = NoRequest

\* The worker of r had a result that is nowhere now.
Dropped(r) ==
  /\ worker[r].at \in {"leaving", "gone"} /\ worker[r].url # NoRequest
  /\ \A i \in DOMAIN queue : queue[i].request # r

\* Every place is taken, and none by an answer that somebody waits for.
FullOfAbandoned ==
  Len(queue) = QueueLen /\ \A i \in DOMAIN queue : queue[i].generation # generation

\* No answer is lost: as long as a script waits, g_fetch_resolve settles its
\* promise, the poll runs, and its answer is on its way, unless there never was
\* one, or the step before found the queue full of results nobody waits for.
PendingIsServed ==
  [][\A r \in Requests : promise'[r] = "pending" =>
       /\ settling' = r /\ poll'
       /\ \/ OnItsWay(r)' \/ Starved(r)'
          \/ Dropped(r)' /\ (Dropped(r) \/ FullOfAbandoned)]_vars

\* Every lv_timer that polls is the one g_fetch_poll will delete, and it runs
\* exactly while a promise waits: none is left behind to fire into the next app.
PollTimerOwned ==
  /\ timers = IF poll THEN 1 ELSE 0
  /\ poll <=> settling # NoRequest

\* The refusal "the previous fetch is still finishing" is reached only right
\* after an app switch (comment at bindings_wifi.cpp:428): a worker of an
\* earlier app is still at work.
RefusedOnlyAfterSwitch ==
  thrown = "stillFinishing" => \E r \in Requests : Alive(r) /\ owner[r] < app

\* Whoever waits is answered, unless the user leaves the app first, the worker
\* found no memory at all or the queue no place (docs/binding-api.md:131).
EveryFetchSettles ==
  \A r \in Requests :
    promise[r] = "pending" ~> promise[r] # "pending" \/ Starved(r) \/ Dropped(r)

\* The worker, the queue and the generations implement what FetchPromise says.
Promise == INSTANCE FetchPromise WITH
  Requests <- Requests, promise <- promise, answer <- answer, owner <- owner, app <- app
FetchImplementsPromise == Promise!PSpec

-----------------------------------------------------------------------------
(* The inductive invariant, for scripts that pass strings to fetch().      *)

LoopInv ==
  /\ nested \in {0, 1}
  /\ nested = 1 => ~busy /\ ~workerAlive
  /\ busy <=> settling # NoRequest
  /\ poll <=> busy
  /\ timers = IF poll THEN 1 ELSE 0

PromiseInv == \A r \in Requests :
  /\ promise[r] = "pending" <=> settling = r
  /\ promise[r] = "pending" => owner[r] = app
  /\ r > calls => promise[r] = "none" /\ worker[r].at = "none"

\* A worker that has not answered yet serves its own url, and if its generation
\* is the current one it is the one awaited, with no other answer in the queue.
WorkerInv == \A r \in Requests :
  /\ Alive(r) => workerAlive
  /\ worker[r].at = "started" => url = r
  /\ worker[r].at = "requesting" => worker[r].url = r
  /\ worker[r].at \in {"started", "requesting"} =>
       /\ worker[r].generation <= generation
       /\ worker[r].generation = generation =>
            /\ settling = r
            /\ \A i \in 1..Len(queue) : queue[i].generation # generation

\* At most one result in the queue is of the current generation: the awaited one.
QueueInv == \A i \in 1..Len(queue) :
  /\ queue[i].url = queue[i].request
  /\ queue[i].generation <= generation
  /\ queue[i].generation = generation =>
       /\ settling = queue[i].request
       /\ \A j \in 1..Len(queue) : queue[j].generation = generation => i = j

\* Every state is of this shape: what makes the answers above the right ones.
FetchInv == TypeOK /\ LoopInv /\ PromiseInv /\ OneWorker /\ WorkerInv /\ QueueInv

\* Whoever waits has an answer on its way, or its worker is past sending one.
AnswerInv == \A r \in Requests :
  /\ worker[r].at = "started" => worker[r].url = NoRequest
  /\ \A i \in DOMAIN queue : queue[i].request = r => worker[r].at \in {"leaving", "gone"}
  /\ promise[r] = "pending" => OnItsWay(r) \/ Starved(r) \/ Dropped(r)
=============================================================================
