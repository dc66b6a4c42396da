--------------------------- MODULE WifiSupervisor ---------------------------
(***************************************************************************)
(* How bindings_wifi.cpp stays joined: wifi.save(), connect() and forget() *)
(* say which network is wanted, an lv_timer asks the driver again with a   *)
(* widening gap, and jsvm_network_setup_needed() tells whether a person    *)
(* could help.  The Wi-Fi driver runs on a task of its own: the link comes *)
(* and goes by itself, and why it went is told later, by an event.         *)
(*                                                                         *)
(* Time is counted in periods of the supervisor's timer (one second), on   *)
(* a clock that wraps like millis().                                       *)
(***************************************************************************)
EXTENDS Naturals, Sequences

CONSTANTS
  Ssids,          \* the names a network may have
  Passwords,
  Empty,          \* the empty string, for either
  ClockMod,       \* where millis() wraps (2^32 ms)
  AttemptsMod,    \* where g_attempts wraps (256)
  Settle,         \* time the first begin() is given (2 s)
  FirstGap,       \* the first backoff (2 s)
  MaxShift,       \* how often it doubles (5)
  MaxGap,         \* the longest backoff (60 s)
  UntilGone,      \* kAttemptsUntilApIsGone (6)
  Uptime,         \* bound: how long the board is on
  MaxEvents,      \* bound: events the driver has not delivered yet
  Horizon         \* bound: where the count of a network's absence stops

ASSUME WifiAssumption ==
  /\ Empty \notin Ssids
  /\ ClockMod \in Nat \ {0} /\ AttemptsMod \in Nat \ {0}
  /\ Settle \in Nat \ {0} /\ MaxShift \in Nat /\ UntilGone \in Nat
  /\ MaxGap \in Nat \ {0} /\ Settle <= MaxGap
  /\ Uptime \in Nat /\ MaxEvents \in Nat
  /\ Horizon \in Nat

\* The first backoff, doubled, is some time.
ASSUME GapAssumption == \A n \in 0..MaxShift : FirstGap * 2^n \in Nat \ {0}

VARIABLES
  now,          \* millis()
  due,          \* the supervisor's timer has not run in this period yet
  supervisors,  \* how many lv_timers run supervise()
  wanted,       \* g_want_connection
  attempts,     \* g_attempts
  wrapped,      \* it has wrapped since it was last reset
  nextAttempt,  \* g_next_attempt
  lastReason,   \* g_last_reason
  touched,      \* g_network_touched
  stored,       \* the preferences in flash
  kept,         \* the join that is wanted was asked for by something that stored it
  target,       \* what the driver was told to join
  link,         \* WiFi.status()
  trying,       \* the driver is on an attempt to join
  events,       \* disconnects the event task has not told of yet
  quiet,        \* how long ago the driver was last asked, or longer than any backoff
  since,        \* how long the link that is wanted has been away
  blamed        \* what the last reason was about

clock == <<now, due>>
wish == <<wanted, attempts, wrapped, nextAttempt>>
prefs == <<stored, kept>>
driver == <<target, link, trying, events>>
report == <<lastReason, blamed>>
vars == <<clock, supervisors, wish, report, touched, prefs, driver, quiet, since>>

Credentials == [ssid: Ssids \cup {Empty}, pass: Passwords \cup {Empty}]
NoCredentials == [ssid |-> Empty, pass |-> Empty]

Reasons == {"auth", "noAp", "other"}
Event == [reason: Reasons, of: Credentials]

Least(a, b) == IF a < b THEN a ELSE b
Backoff(n) == Least(FirstGap * 2^Least(n, MaxShift), MaxGap)

\* From a join to the attempt after which a network counts as gone: in a row,
\* the attempts 2, 4, 8 ... seconds apart (bindings_wifi.cpp:71-75).
GoneAfter[n \in Nat] == IF n <= 1 THEN Settle ELSE GoneAfter[n - 1] + Backoff(n - 2)

Init ==
  /\ now = 0 /\ due = FALSE /\ supervisors = 0
  /\ wanted = FALSE /\ attempts = 0 /\ wrapped = FALSE /\ nextAttempt = 0
  /\ lastReason = "none" /\ touched = FALSE
  /\ stored = NoCredentials /\ kept = TRUE /\ target = NoCredentials
  /\ link = "down" /\ trying = FALSE /\ events = << >>
  /\ quiet = 0 /\ since = 0 /\ blamed = NoCredentials

-----------------------------------------------------------------------------
(* The driver, and what the code asks of it.                               *)

Tells(reason) == events' = Append(events, [reason |-> reason, of |-> target])
MayTell == Len(events) < MaxEvents

\* WiFi.begin() and WiFi.reconnect(): an attempt, instead of what there was; with
\* no name to join, the driver refuses and goes on with what it had.
Asks(c) ==
  /\ IF c.ssid = Empty THEN UNCHANGED <<target, link, trying>>
     ELSE target' = c /\ link' = "down" /\ trying' = TRUE
  /\ quiet' = 0
  /\ UNCHANGED events

Joins ==
  /\ trying
  /\ link' = "up" /\ trying' = FALSE
  /\ since' = 0
  /\ UNCHANGED <<clock, supervisors, wish, report, touched, prefs, target, events, quiet>>

FailsToJoin(reason) ==
  /\ trying /\ MayTell
  /\ trying' = FALSE
  /\ Tells(reason)
  /\ UNCHANGED <<clock, supervisors, wish, report, touched, prefs, target, link, quiet, since>>

LosesLink ==
  /\ link = "up" /\ MayTell
  /\ link' = "down"
  /\ Tells("other")
  /\ UNCHANGED <<clock, supervisors, wish, report, touched, prefs, target, trying, quiet, since>>

\* wifi_event(), on the event task: recorded only.
WifiEvent ==
  /\ events # << >>
  /\ lastReason' = Head(events).reason /\ blamed' = Head(events).of
  /\ events' = Tail(events)
  /\ UNCHANGED <<clock, supervisors, wish, touched, prefs, target, link, trying, quiet, since>>

-----------------------------------------------------------------------------
(* The script.                                                             *)

CountsAnew == attempts' = 0 /\ wrapped' = FALSE

\* Mutant of StartConnection: a timer for every call.
StartConnectionTimers(c) ==
  /\ wanted' = TRUE /\ CountsAnew
  /\ nextAttempt' = (now + Settle) % ClockMod
  /\ Asks(c)
  /\ since' = 0
  /\ supervisors' = supervisors + 1
  /\ UNCHANGED <<due, report>>

\* start_connection()
StartConnection(c) ==
  /\ wanted' = TRUE /\ CountsAnew
  /\ nextAttempt' = (now + Settle) % ClockMod
  /\ Asks(c)
  /\ since' = 0
  /\ supervisors' = 1
  /\ UNCHANGED <<due, report>>

\* Mutant of Save: the password of an open network is not stored, the last one stays.
SaveLastPassword(c) ==
  /\ StartConnection(c)
  /\ \E ssidTaken, passTaken \in BOOLEAN :
       /\ stored' = [ssid |-> IF ssidTaken THEN c.ssid ELSE stored.ssid,
                     pass |-> IF passTaken /\ c.pass # Empty THEN c.pass ELSE stored.pass]
       /\ kept' = (ssidTaken /\ passTaken /\ c.ssid # Empty)
  /\ UNCHANGED <<now, touched>>

\* wifi.save(); when the preferences cannot be opened it does nothing. Of the two
\* strings flash may take one, or none (bindings_wifi.cpp:181-182): it joins all
\* the same, and does so with a name that autoconnect will not take (:165).
Save(c) ==
  /\ StartConnection(c)
  /\ \E ssidTaken, passTaken \in BOOLEAN :
       /\ stored' = [ssid |-> IF ssidTaken THEN c.ssid ELSE stored.ssid,
                     pass |-> IF passTaken THEN c.pass ELSE stored.pass]
       /\ kept' = (ssidTaken /\ passTaken /\ c.ssid # Empty)
  /\ UNCHANGED <<now, touched>>

\* wifi.connect(); without anything stored, or to be read, it does nothing.
Connect ==
  /\ stored.ssid # Empty
  /\ StartConnection(stored)
  /\ kept' = TRUE
  /\ UNCHANGED <<now, touched, stored>>

\* wifi.forget(); the preferences may fail to open, the rest is done all the same.
Forget ==
  /\ stored' \in {stored, NoCredentials}
  /\ wanted' = FALSE
  /\ link' = "down" /\ trying' = FALSE
  /\ IF link = "up" /\ MayTell THEN Tells("other") ELSE UNCHANGED events
  /\ UNCHANGED <<clock, supervisors, attempts, wrapped, nextAttempt, kept, report, touched,
                 target, quiet, since>>

\* wifi.status(), and fetch() with a url.
AsksNetwork ==
  /\ ~touched
  /\ touched' = TRUE
  /\ UNCHANGED <<clock, supervisors, wish, report, prefs, driver, quiet, since>>

\* js_teardown_wifi()
Teardown ==
  /\ touched
  /\ touched' = FALSE
  /\ UNCHANGED <<clock, supervisors, wish, report, prefs, driver, quiet, since>>

-----------------------------------------------------------------------------
(* Time, and the supervisor's timer.                                       *)

Tick ==
  /\ ~due /\ now < Uptime
  /\ now' = (now + 1) % ClockMod
  /\ due' = (supervisors > 0)
  /\ quiet' = Least(quiet + 1, MaxGap + 1)
  /\ since' = IF link = "up" \/ ~wanted THEN 0 ELSE Least(since + 1, Horizon)
  /\ UNCHANGED <<supervisors, wish, report, touched, prefs, driver>>

\* supervise() with nothing wanted, or too early.
SuperviseWaits ==
  /\ due /\ due' = FALSE
  /\ ~wanted \/ (link = "down" /\ now < nextAttempt)
  /\ UNCHANGED <<now, supervisors, wish, report, touched, prefs, driver, quiet, since>>

SuperviseConnected ==
  /\ due /\ due' = FALSE
  /\ wanted /\ link = "up"
  /\ CountsAnew
  /\ UNCHANGED <<now, supervisors, wanted, nextAttempt, report, touched, prefs, driver, quiet, since>>

CountsOneMore ==
  /\ attempts' = (attempts + 1) % AttemptsMod
  /\ wrapped' = (wrapped \/ attempts + 1 = AttemptsMod)

\* Mutants of SuperviseAsks: the wish is not looked at, no gap is kept, it grows
\* without a limit, the count stops short of kAttemptsUntilApIsGone.
SuperviseAsksUnwanted ==
  /\ due /\ due' = FALSE
  /\ link = "down" /\ now >= nextAttempt
  /\ nextAttempt' = (now + Backoff(attempts)) % ClockMod
  /\ CountsOneMore
  /\ Asks(target)
  /\ UNCHANGED <<now, supervisors, wanted, report, touched, prefs, since>>
SuperviseAsksAtOnce ==
  /\ due /\ due' = FALSE
  /\ wanted /\ link = "down" /\ now >= nextAttempt
  /\ CountsOneMore
  /\ Asks(target)
  /\ UNCHANGED <<now, supervisors, wanted, nextAttempt, report, touched, prefs, since>>
SuperviseAsksUncapped ==
  /\ due /\ due' = FALSE
  /\ wanted /\ link = "down" /\ now >= nextAttempt
  /\ nextAttempt' = (now + FirstGap * 2^attempts) % ClockMod
  /\ CountsOneMore
  /\ Asks(target)
  /\ UNCHANGED <<now, supervisors, wanted, report, touched, prefs, since>>
SuperviseAsksUncounted ==
  /\ due /\ due' = FALSE
  /\ wanted /\ link = "down" /\ now >= nextAttempt
  /\ nextAttempt' = (now + Backoff(attempts)) % ClockMod
  /\ attempts' = Least(attempts + 1, UntilGone - 1) /\ UNCHANGED wrapped
  /\ Asks(target)
  /\ UNCHANGED <<now, supervisors, wanted, report, touched, prefs, since>>

SuperviseAsks ==
  /\ due /\ due' = FALSE
  /\ wanted /\ link = "down" /\ now >= nextAttempt
  /\ nextAttempt' = (now + Backoff(attempts)) % ClockMod
  /\ CountsOneMore
  /\ Asks(target)
  /\ UNCHANGED <<now, supervisors, wanted, report, touched, prefs, since>>

\* The board is off and on again: setup() calls jsvm_wifi_autoconnect(), which
\* may fail to open the preferences.
PowerCycle ==
  /\ now' = 0 /\ due' = FALSE
  /\ lastReason' = "none" /\ blamed' = NoCredentials
  /\ touched' = FALSE /\ events' = << >>
  /\ CountsAnew /\ link' = "down" /\ quiet' = 0 /\ since' = 0
  /\ kept' = TRUE /\ UNCHANGED stored
  /\ \/ /\ stored.ssid # Empty
        /\ wanted' = TRUE /\ nextAttempt' = Settle % ClockMod
        /\ target' = stored /\ trying' = TRUE /\ supervisors' = 1
     \/ /\ wanted' = FALSE /\ nextAttempt' = 0
        /\ target' = NoCredentials /\ trying' = FALSE /\ supervisors' = 0

-----------------------------------------------------------------------------
Driver == Joins \/ LosesLink \/ WifiEvent \/ \E reason \in Reasons : FailsToJoin(reason)
Script == Connect \/ Forget \/ AsksNetwork \/ Teardown \/ \E c \in Credentials : Save(c)
Supervise == SuperviseWaits \/ SuperviseConnected \/ SuperviseAsks

Next == Driver \/ Script \/ Supervise \/ Tick \/ PowerCycle

Spec == Init /\ [][Next]_vars

-----------------------------------------------------------------------------
TypeOK ==
  /\ now \in 0..ClockMod-1 /\ due \in BOOLEAN /\ supervisors \in {0, 1}
  /\ wanted \in BOOLEAN /\ attempts \in 0..AttemptsMod-1 /\ wrapped \in BOOLEAN
  /\ nextAttempt \in 0..ClockMod-1
  /\ lastReason \in Reasons \cup {"none"} /\ touched \in BOOLEAN
  /\ {stored, target, blamed} \subseteq Credentials /\ kept \in BOOLEAN
  /\ link \in {"down", "up"} /\ trying \in BOOLEAN
  /\ events \in Seq(Event) /\ Len(events) <= MaxEvents
  /\ quiet \in Nat /\ since \in Nat

-----------------------------------------------------------------------------
(* Properties.                                                             *)

\* jsvm_network_setup_needed() and failure_needs_a_person()
SetupNeeded ==
  /\ touched /\ link # "up"
  /\ \/ ~wanted
     \/ lastReason = "auth"
     \/ lastReason = "noAp" /\ attempts >= UntilGone

\* While a network is wanted and not there, the driver is asked again and again:
\* since it was last asked, or the link was last up, there has never been more
\* than the longest backoff (bindings_wifi.cpp:112-115).
KeepsAsking ==
  wanted /\ link = "down" => Least(quiet, since) <= MaxGap

\* Nor closer together than the backoff of the attempt before: a permanent
\* failure is not turned into a continuous spin (bindings_wifi.cpp:44-51).
WideningGap ==
  [][SuperviseAsks /\ attempts > 0 => quiet >= Backoff(attempts - 1)]_vars

\* A network that cannot be found is a matter for a person after about a minute,
\* and at most one backoff more (js_bindings.h:88-89), until the count wraps.
MissingIsNoticed ==
  touched /\ wanted /\ link = "down" /\ lastReason = "noAp" /\ ~due /\ ~wrapped
    /\ since > GoneAfter[UntilGone] + MaxGap
  => SetupNeeded

\* After wifi.forget() nothing brings the link back: the reconnect handler
\* stops fighting the user (bindings_wifi.cpp:35).
ForgottenStaysOffline == ~wanted => link = "down" /\ ~trying

\* The board is never on, or after, a network it will not rejoin after a restart
\* (docs/binding-api.md:143): what is left of an earlier network never mixes with
\* it. Only a save that flash did not take in full, or of no name, is no promise.
WantedIsStored == wanted /\ kept => target = stored /\ stored.ssid # Empty

\* A person is sent to the setup screen for what the network in question did,
\* never in the first few attempts at another (js_bindings.h:91-94).
VerdictIsOfThisNetwork == SetupNeeded /\ wanted => blamed = target

-----------------------------------------------------------------------------
(* The inductive invariant, while the clock does not wrap.                 *)

NoWrap == Uptime + MaxGap < ClockMod

WishInv ==
  /\ due => supervisors = 1
  /\ wanted => supervisors = 1
  /\ link = "up" => since = 0
  /\ ForgottenStaysOffline

\* The next attempt is never further from the last one than the longest backoff,
\* and, counting, exactly the backoff of the last one.
ClockInv ==
  /\ now <= Uptime
  /\ nextAttempt + quiet <= now + MaxGap
  /\ attempts > 0 => quiet >= MaxGap \/ nextAttempt + quiet = now + Backoff(attempts - 1)

\* The supervisor has looked in every period, and asked if it was time.
AskInv ==
  wanted /\ link = "down" /\ since # 0 =>
    IF due THEN since = 1 \/ quiet <= MaxGap ELSE quiet < MaxGap

WifiInv == TypeOK /\ WishInv /\ ClockInv /\ AskInv

\* With the network away, the next attempt is still to come once the supervisor has
\* looked, and, while the count has not wrapped, comes at most the longest backoff
\* later than GoneAfter says.
NoticeInv ==
  wanted /\ link = "down" =>
    /\ ~due /\ since # 0 => now < nextAttempt
    /\ ~wrapped => /\ since <= MaxGap + GoneAfter[attempts + 1]
                   /\ since + nextAttempt <= now + MaxGap + GoneAfter[attempts + 1]
=============================================================================
