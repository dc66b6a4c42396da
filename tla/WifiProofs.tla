----------------------------- MODULE WifiProofs -----------------------------
(***************************************************************************)
(* Proofs about WifiSupervisor, for all credentials and every setting of   *)
(* the retry schedule, as long as millis() does not wrap (NoWrap).         *)
(***************************************************************************)
EXTENDS WifiSupervisor, Lemmas

USE WifiAssumption

\* A number below the modulus is its own remainder.
LEMMA ModSmall == ASSUME NEW m \in Nat \ {0}, NEW x \in 0..m-1 PROVE x % m = x
OBVIOUS

\* A remainder is below the modulus, and one more than the last or zero.
LEMMA ModSucc ==
  ASSUME NEW m \in Nat \ {0}, NEW x \in 0..m-1
  PROVE  (x + 1) % m \in 0..m-1 /\ (x + 1) % m \in {0, x + 1}
<1>1. CASE x + 1 \in 0..m-1
  BY <1>1
<1>2. CASE x + 1 = m
  BY <1>2
<1> QED BY <1>1, <1>2

\* A backoff is never longer than the longest.
LEMMA BackoffFacts ==
  ASSUME NEW n \in Nat
  PROVE  Backoff(n) \in Nat /\ Backoff(n) \in Nat \ {0} /\ Backoff(n) <= MaxGap
<1>1. Least(n, MaxShift) \in 0..MaxShift
  BY DEF Least
<1>2. FirstGap * 2^Least(n, MaxShift) \in Nat \ {0}
  BY <1>1, GapAssumption
<1> DEFINE gap == FirstGap * 2^Least(n, MaxShift)
<1>3. gap \in Nat \ {0}
  BY <1>2
<1>4. Backoff(n) = Least(gap, MaxGap)
  BY DEF Backoff
<1> HIDE DEF gap
<1> QED BY <1>3, <1>4 DEF Least

\* A ghost clock goes on by one or has stopped.
LEMMA LeastFacts ==
  ASSUME NEW t \in Nat, NEW end \in Nat
  PROVE  /\ Least(t + 1, end) \in Nat
         /\ Least(t + 1, end) <= t + 1
         /\ Least(t + 1, end) = t + 1 \/ Least(t + 1, end) = end
BY DEF Least

-----------------------------------------------------------------------------
(* What GoneAfter computes.                                                *)

\* GoneAfter is the function its definition describes.
LEMMA GoneAfterIs ==
  /\ GoneAfter \in [Nat -> Nat]
  /\ GoneAfter[0] = Settle /\ GoneAfter[1] = Settle
  /\ \A n \in Nat : GoneAfter[n + 2] = GoneAfter[n + 1] + Backoff(n)
<1> DEFINE Gaps == [x \in Nat \X Nat |-> IF x[1] = 0 THEN Settle ELSE x[2] + Backoff(x[1] - 1)]
           Sums(f) == [n \in Nat |-> IF n <= 1 THEN Settle ELSE f[n - 1] + Backoff(n - 2)]
<1>1. Gaps \in [Nat \X Nat -> Nat]
  <2> SUFFICES ASSUME NEW x \in Nat \X Nat, x[1] # 0 PROVE x[2] + Backoff(x[1] - 1) \in Nat
    OBVIOUS
  <2>1. x[1] - 1 \in Nat /\ x[2] \in Nat
    OBVIOUS
  <2>2. Backoff(x[1] - 1) \in Nat
    BY <2>1, BackoffFacts
  <2> QED BY <2>1, <2>2
<1>2. \A n, t \in Nat : Gaps[<<n, t>>] = IF n = 0 THEN Settle ELSE t + Backoff(n - 1)
  OBVIOUS
<1> HIDE DEF Gaps
<1>3. PICK g \in [Nat -> Nat] : g[0] = Settle /\ \A n \in Nat : g[n + 1] = Gaps[<<n, g[n]>>]
  <2>1. Settle \in Nat
    OBVIOUS
  <2>2. \A n, t \in Nat : Gaps[<<n, t>>] \in Nat
    BY <1>1
  <2>3. Recursive(Nat, Settle, Gaps)
    BY <2>1, <2>2, NatRecursion
  <2> QED BY <2>3 DEF Recursive
<1>4. g[1] = Settle
  <2>1. g[0 + 1] = Gaps[<<0, g[0]>>] /\ g[0] \in Nat
    BY <1>3
  <2> QED BY <1>2, <2>1
<1>5. \A n \in Nat : g[n + 2] = g[n + 1] + Backoff(n)
  <2> TAKE n \in Nat
  <2>1. n + 1 \in Nat /\ n + 1 # 0 /\ (n + 1) - 1 = n /\ (n + 1) + 1 = n + 2 /\ g[n + 1] \in Nat
    OBVIOUS
  <2>2. g[(n + 1) + 1] = Gaps[<<n + 1, g[n + 1]>>]
    BY <1>3, <2>1
  <2>3. Gaps[<<n + 1, g[n + 1]>>] = g[n + 1] + Backoff((n + 1) - 1)
    BY <1>2, <2>1
  <2> QED BY <2>1, <2>2, <2>3
<1>6. \A n \in Nat : g[n] = Sums(g)[n]
  <2> TAKE n \in Nat
  <2>1. CASE n <= 1
    <3>1. n = 0 \/ n = 1
      BY <2>1
    <3> QED BY <1>3, <1>4, <2>1, <3>1
  <2>2. CASE ~(n <= 1)
    <3>1. n - 2 \in Nat /\ (n - 2) + 2 = n /\ (n - 2) + 1 = n - 1
      BY <2>2
    <3>2. g[(n - 2) + 2] = g[(n - 2) + 1] + Backoff(n - 2)
      BY <1>5, <3>1
    <3> QED BY <2>2, <3>1, <3>2
  <2> QED BY <2>1, <2>2
<1>7. g = Sums(g)
  BY <1>6
<1>8. GoneAfter = Sums(GoneAfter)
  BY <1>7 DEF GoneAfter
<1>9. \A n \in Nat : GoneAfter[n] = g[n]
  <2> DEFINE S == {n \in Nat : GoneAfter[n] = g[n] /\ GoneAfter[n + 1] = g[n + 1]}
  <2>1. \A n \in Nat : GoneAfter[n] = IF n <= 1 THEN Settle ELSE GoneAfter[n - 1] + Backoff(n - 2)
    <3> DEFINE h == GoneAfter
    <3> HIDE DEF h
    <3>1. h = Sums(h)
      BY <1>8 DEF h
    <3>2. \A n \in Nat : h[n] = IF n <= 1 THEN Settle ELSE h[n - 1] + Backoff(n - 2)
      BY <3>1
    <3> QED BY <3>2 DEF h
  <2>2. GoneAfter[0] = Settle /\ GoneAfter[1] = Settle
    BY <2>1
  <2>3. 0 \in S
    BY <1>3, <1>4, <2>2
  <2>4. ASSUME NEW n \in Nat, n \in S PROVE n + 1 \in S
    <3>1. /\ n + 2 \in Nat /\ ~(n + 2 <= 1) /\ (n + 2) - 1 = n + 1 /\ (n + 2) - 2 = n
          /\ (n + 1) + 1 = n + 2 /\ n + 1 \in Nat
      OBVIOUS
    <3>2. GoneAfter[n + 2] = GoneAfter[n + 1] + Backoff(n)
      <4>1. GoneAfter[n + 2] = GoneAfter[(n + 2) - 1] + Backoff((n + 2) - 2)
        BY <2>1, <3>1
      <4> QED BY <3>1, <4>1
    <3>3. GoneAfter[n + 2] = g[n + 2]
      BY <1>5, <2>4, <3>2
    <3> QED BY <2>4, <3>1, <3>3
  <2> HIDE DEF S
  <2>5. Nat \subseteq S
    BY <2>3, <2>4, NatSetInduction
  <2> QED BY <2>5 DEF S
<1>10. GoneAfter = g
  <2>1. GoneAfter \in [Nat -> {Settle} \cup {GoneAfter[n - 1] + Backoff(n - 2) : n \in Nat}]
    <3> DEFINE h == GoneAfter
    <3> HIDE DEF h
    <3>1. h = Sums(h)
      BY <1>8 DEF h
    <3>2. DOMAIN h = Nat /\ h = [n \in Nat |-> h[n]]
      BY <3>1
    <3>3. \A n \in Nat : h[n] \in {Settle} \cup {h[x - 1] + Backoff(x - 2) : x \in Nat}
      BY <3>1
    <3> QED BY <3>2, <3>3 DEF h
  <2> QED BY <1>9, <2>1
<1> QED BY <1>3, <1>4, <1>5, <1>10

\* A network is not gone the sooner for being asked for more often.
LEMMA GoneAfterGrows ==
  ASSUME NEW n \in Nat, NEW m \in Nat, n <= m
  PROVE  GoneAfter[n] \in Nat /\ GoneAfter[n] <= GoneAfter[m]
<1>1. \A k \in Nat : GoneAfter[k] \in Nat /\ GoneAfter[k] <= GoneAfter[k + 1]
  <2> TAKE k \in Nat
  <2>1. GoneAfter[k] \in Nat
    BY GoneAfterIs
  <2>2. CASE k = 0
    BY <2>1, <2>2, GoneAfterIs
  <2>3. CASE k # 0
    <3>1. k - 1 \in Nat /\ (k - 1) + 2 = k + 1 /\ (k - 1) + 1 = k
      BY <2>3
    <3>2. GoneAfter[(k - 1) + 2] = GoneAfter[(k - 1) + 1] + Backoff(k - 1)
      BY <3>1, GoneAfterIs
    <3>3. Backoff(k - 1) \in Nat
      BY <3>1, BackoffFacts
    <3> QED BY <2>1, <3>1, <3>2, <3>3
  <2> QED BY <2>1, <2>2, <2>3
<1> DEFINE S == {k \in Nat : GoneAfter[n] <= GoneAfter[n + k]}
<1>2. 0 \in S
  BY <1>1
<1>3. ASSUME NEW k \in Nat, k \in S PROVE k + 1 \in S
  <2>1. n + k \in Nat /\ n + (k + 1) = (n + k) + 1
    OBVIOUS
  <2>2. GoneAfter[n + k] \in Nat /\ GoneAfter[n + k] <= GoneAfter[n + (k + 1)]
    BY <1>1, <2>1
  <2>3. GoneAfter[n] \in Nat /\ GoneAfter[n + (k + 1)] \in Nat
    BY <1>1, <2>1
  <2> QED BY <1>3, <2>2, <2>3
<1> HIDE DEF S
<1>4. Nat \subseteq S
  BY <1>2, <1>3, NatSetInduction
<1>5. m - n \in S /\ n + (m - n) = m
  BY <1>4
<1> QED BY <1>1, <1>5 DEF S

\* Nothing is wanted on a board that was just built.
LEMMA InitInv == Init => WifiInv
<1> SUFFICES ASSUME Init PROVE WifiInv
  OBVIOUS
<1>1. TypeOK
  <2>1. now \in 0..ClockMod-1 /\ nextAttempt \in 0..ClockMod-1 /\ attempts \in 0..AttemptsMod-1
    BY DEF Init
  <2>2. events \in Seq(Event) /\ Len(events) <= MaxEvents
    BY DEF Init
  <2>3. {stored, target, blamed} \subseteq Credentials
    BY DEF Init, Credentials, NoCredentials
  <2> QED BY <2>1, <2>2, <2>3 DEF Init, TypeOK
<1>2. WishInv /\ ClockInv /\ AskInv
  BY DEF Init, WishInv, ForgottenStaysOffline, ClockInv, AskInv
<1> QED BY <1>1, <1>2 DEF WifiInv

-----------------------------------------------------------------------------
(* The actions, one by one.                                                *)

\* The driver's steps leave wishes and clocks alone; a lost link starts the
\* count of its absence at nothing.
LEMMA DriverInv ==
  ASSUME WifiInv, Driver
  PROVE  WifiInv'
<1> USE DEF clock, wish, driver, report, prefs
<1>1. CASE Joins
  <2>1. TypeOK'
    BY <1>1 DEF WifiInv, TypeOK, Joins
  <2>2. WishInv' /\ ClockInv' /\ AskInv'
    BY <1>1 DEF WifiInv, WishInv, ClockInv, AskInv, Joins, ForgottenStaysOffline
  <2> QED BY <2>1, <2>2 DEF WifiInv
<1>2. ASSUME NEW reason \in Reasons, FailsToJoin(reason) PROVE WifiInv'
  <2>1. target \in Credentials
    BY DEF WifiInv, TypeOK
  <2>2. [reason |-> reason, of |-> target] \in Event
    BY <2>1 DEF Event
  <2>3. events' \in Seq(Event) /\ Len(events') <= MaxEvents
    BY <1>2, <2>2 DEF WifiInv, TypeOK, FailsToJoin, Tells, MayTell
  <2>4. TypeOK'
    BY <1>2, <2>3 DEF WifiInv, TypeOK, FailsToJoin
  <2>5. WishInv' /\ ClockInv' /\ AskInv'
    BY <1>2 DEF WifiInv, WishInv, ClockInv, AskInv, FailsToJoin, ForgottenStaysOffline
  <2> QED BY <2>4, <2>5 DEF WifiInv
<1>3. CASE LosesLink
  <2>1. target \in Credentials
    BY DEF WifiInv, TypeOK
  <2>2. [reason |-> "other", of |-> target] \in Event
    BY <2>1 DEF Event, Reasons
  <2>3. events' \in Seq(Event) /\ Len(events') <= MaxEvents
    BY <1>3, <2>2 DEF WifiInv, TypeOK, LosesLink, Tells, MayTell
  <2>4. TypeOK'
    BY <1>3, <2>3 DEF WifiInv, TypeOK, LosesLink
  <2>5. WishInv' /\ ClockInv' /\ AskInv'
    BY <1>3 DEF WifiInv, WishInv, ClockInv, AskInv, LosesLink, ForgottenStaysOffline
  <2> QED BY <2>4, <2>5 DEF WifiInv
<1>4. CASE WifiEvent
  <2>1. Head(events) \in Event /\ Tail(events) \in Seq(Event) /\ Len(Tail(events)) <= MaxEvents
    BY <1>4 DEF WifiInv, TypeOK, WifiEvent
  <2>2. lastReason' \in Reasons /\ blamed' \in Credentials
    BY <1>4, <2>1 DEF WifiEvent, Event
  <2>3. TypeOK'
    BY <1>4, <2>1, <2>2 DEF WifiInv, TypeOK, WifiEvent
  <2>4. WishInv' /\ ClockInv' /\ AskInv'
    BY <1>4 DEF WifiInv, WishInv, ClockInv, AskInv, WifiEvent, ForgottenStaysOffline
  <2> QED BY <2>3, <2>4 DEF WifiInv
<1> QED BY <1>1, <1>2, <1>3, <1>4 DEF Driver

\* A join begins, and the count starts anew.
LEMMA StartInv ==
  ASSUME NoWrap, WifiInv, NEW c \in Credentials, StartConnection(c), stored' \in Credentials,
         kept' \in BOOLEAN, UNCHANGED <<now, touched>>
  PROVE  WifiInv'
<1> USE DEF report, prefs
<1>1. nextAttempt' = now + Settle
  <2>1. now + Settle \in 0..ClockMod-1
    BY DEF NoWrap, WifiInv, TypeOK, ClockInv
  <2> QED BY <2>1, ModSmall DEF StartConnection
<1>2. TypeOK'
  <2>1. nextAttempt' \in 0..ClockMod-1
    BY <1>1 DEF NoWrap, WifiInv, TypeOK, ClockInv
  <2>2. target' \in Credentials /\ link' \in {"down", "up"} /\ trying' \in BOOLEAN
    BY DEF WifiInv, TypeOK, StartConnection, Asks
  <2>3. attempts' \in 0..AttemptsMod-1 /\ wrapped' = FALSE
    BY DEF StartConnection, CountsAnew
  <2> QED BY <2>1, <2>2, <2>3 DEF WifiInv, TypeOK, StartConnection, Asks
<1>3. WishInv'
  BY DEF WishInv, StartConnection, Asks, ForgottenStaysOffline
<1>4. ClockInv'
  BY <1>1 DEF WifiInv, TypeOK, ClockInv, StartConnection, CountsAnew, Asks
<1>5. AskInv'
  BY DEF AskInv, StartConnection
<1> QED BY <1>2, <1>3, <1>4, <1>5 DEF WifiInv

\* What a script asks for.
LEMMA ScriptInv ==
  ASSUME NoWrap, WifiInv, Script
  PROVE  WifiInv'
<1> USE DEF clock, wish, driver, report, prefs
<1>1. ASSUME NEW c \in Credentials, Save(c) PROVE WifiInv'
  <2>1. kept' \in BOOLEAN /\ stored' \in Credentials
    <3>1. PICK ssidTaken, passTaken \in BOOLEAN :
            /\ stored' = [ssid |-> IF ssidTaken THEN c.ssid ELSE stored.ssid,
                          pass |-> IF passTaken THEN c.pass ELSE stored.pass]
            /\ kept' = (ssidTaken /\ passTaken /\ c.ssid # Empty)
      BY <1>1 DEF Save
    <3>2. kept' \in BOOLEAN
      BY <3>1
    <3>3. stored \in Credentials
      BY DEF WifiInv, TypeOK
    <3>4. stored' \in Credentials
      BY <3>1, <3>3 DEF Credentials
    <3> QED BY <3>2, <3>4
  <2> QED BY <1>1, <2>1, StartInv DEF Save
<1>2. CASE Connect
  <2>1. stored \in Credentials
    BY <1>2 DEF WifiInv, TypeOK, Connect
  <2> QED BY <1>2, <2>1, StartInv DEF Connect
<1>3. CASE Forget
  <2>1. events' \in Seq(Event) /\ Len(events') <= MaxEvents
    <3>1. CASE link = "up" /\ MayTell
      <4>1. target \in Credentials
        BY DEF WifiInv, TypeOK
      <4>2. [reason |-> "other", of |-> target] \in Event
        BY <4>1 DEF Event, Reasons
      <4> QED BY <1>3, <3>1, <4>2 DEF WifiInv, TypeOK, Forget, Tells, MayTell
    <3>2. CASE ~(link = "up" /\ MayTell)
      BY <1>3, <3>2 DEF WifiInv, TypeOK, Forget
    <3> QED BY <3>1, <3>2
  <2>2. TypeOK'
    <3>1. NoCredentials \in Credentials
      BY DEF NoCredentials, Credentials
    <3>2. stored' \in Credentials
      BY <1>3, <3>1 DEF WifiInv, TypeOK, Forget
    <3> QED BY <1>3, <2>1, <3>2 DEF WifiInv, TypeOK, Forget
  <2>3. WishInv' /\ ClockInv' /\ AskInv'
    BY <1>3 DEF WifiInv, WishInv, ClockInv, AskInv, Forget, ForgottenStaysOffline
  <2> QED BY <2>2, <2>3 DEF WifiInv
<1>4. CASE AsksNetwork \/ Teardown
  <2>1. /\ touched' \in BOOLEAN
        /\ UNCHANGED <<clock, supervisors, wish, report, prefs, driver, quiet, since>>
    BY <1>4 DEF AsksNetwork, Teardown
  <2>2. TypeOK'
    BY <2>1 DEF WifiInv, TypeOK
  <2>3. WishInv' /\ ClockInv' /\ AskInv'
    BY <2>1 DEF WifiInv, WishInv, ClockInv, AskInv, ForgottenStaysOffline
  <2> QED BY <2>2, <2>3 DEF WifiInv
<1> QED BY <1>1, <1>2, <1>3, <1>4 DEF Script

\* A second passes.
LEMMA TickInv ==
  ASSUME NoWrap, WifiInv, Tick
  PROVE  WifiInv'
<1> USE DEF wish, driver, report, prefs
<1>1. now' = now + 1 /\ now' <= Uptime
  <2>1. now + 1 \in 0..ClockMod-1
    BY DEF NoWrap, WifiInv, TypeOK, Tick
  <2> QED BY <2>1, ModSmall DEF Tick, WifiInv, TypeOK
<1>2. quiet \in Nat /\ since \in Nat
  BY DEF WifiInv, TypeOK
<1>3. /\ quiet' \in Nat /\ quiet' <= quiet + 1
      /\ quiet' = quiet + 1 \/ quiet' > MaxGap
  BY <1>2, LeastFacts DEF Tick
<1>4. since' \in Nat /\ since' <= since + 1
  <2>1. since' = 0 \/ since' = Least(since + 1, Horizon)
    BY DEF Tick
  <2> QED BY <1>2, <2>1, LeastFacts
<1>5. TypeOK'
  <2>1. now' \in 0..ClockMod-1
    BY <1>1 DEF NoWrap, WifiInv, TypeOK
  <2> QED BY <2>1, <1>3, <1>4 DEF WifiInv, TypeOK, Tick
<1>6. WishInv'
  <2>1. due' => supervisors' = 1
    BY DEF WifiInv, TypeOK, Tick
  <2>2. wanted' => supervisors' = 1
    BY DEF WifiInv, WishInv, Tick
  <2>3. link' = "up" => since' = 0
    BY DEF Tick
  <2>4. ForgottenStaysOffline'
    BY DEF WifiInv, WishInv, Tick, ForgottenStaysOffline
  <2> QED BY <2>1, <2>2, <2>3, <2>4 DEF WishInv
<1>7. ClockInv'
  <2>1. attempts > 0 => Backoff(attempts - 1) \in Nat
    <3>1. attempts > 0 => attempts - 1 \in Nat
      BY DEF WifiInv, TypeOK
    <3> QED BY <3>1, BackoffFacts
  <2>2. UNCHANGED <<nextAttempt, attempts>>
    BY DEF Tick
  <2>3. nextAttempt' + quiet' <= now' + MaxGap
    <3>1. nextAttempt + quiet <= now + MaxGap
      BY DEF WifiInv, ClockInv
    <3>2. now \in Nat /\ nextAttempt \in Nat
      BY DEF WifiInv, TypeOK
    <3> DEFINE older == quiet'
    <3>3. older \in Nat /\ older <= quiet + 1 /\ MaxGap \in Nat
      BY <1>3
    <3> HIDE DEF older
    <3>4. nextAttempt + older <= (now + 1) + MaxGap
      BY <1>2, <3>1, <3>2, <3>3
    <3> QED BY <1>1, <2>2, <3>4 DEF older
  <2>4. attempts' > 0 => quiet' >= MaxGap \/ nextAttempt' + quiet' = now' + Backoff(attempts' - 1)
    <3> SUFFICES ASSUME attempts > 0
                 PROVE  quiet' >= MaxGap \/ nextAttempt + quiet' = now' + Backoff(attempts - 1)
      BY <2>2
    <3>1. quiet >= MaxGap \/ nextAttempt + quiet = now + Backoff(attempts - 1)
      BY DEF WifiInv, ClockInv
    <3> DEFINE gap == Backoff(attempts - 1)
    <3>2. gap \in Nat
      BY <2>1
    <3> HIDE DEF gap
    <3>3. now \in Nat /\ nextAttempt \in Nat
      BY DEF WifiInv, TypeOK
    <3>4. quiet >= MaxGap \/ nextAttempt + quiet = now + gap
      BY <3>1 DEF gap
    <3>5. ASSUME quiet' = quiet + 1
          PROVE  quiet' >= MaxGap \/ nextAttempt + quiet' = now' + gap
      <4>1. quiet >= MaxGap => quiet' >= MaxGap
        BY <1>2, <3>5
      <4>2. nextAttempt + quiet = now + gap => nextAttempt + (quiet + 1) = (now + 1) + gap
        BY <1>2, <3>2, <3>3
      <4> QED BY <1>1, <3>4, <3>5, <4>1, <4>2
    <3>6. CASE quiet' > MaxGap
      BY <1>3, <3>6
    <3> QED BY <1>3, <3>5, <3>6 DEF gap
  <2> QED BY <1>1, <2>3, <2>4 DEF ClockInv
<1>8. AskInv'
  <2> SUFFICES ASSUME wanted, link = "down", since' # 0
               PROVE  IF due' THEN since' = 1 \/ quiet' <= MaxGap ELSE quiet' < MaxGap
    BY DEF AskInv, Tick
  <2>1. due'
    <3>1. supervisors = 1
      BY DEF WifiInv, WishInv
    <3>2. due' = (supervisors > 0)
      BY DEF Tick
    <3>3. supervisors > 0
      BY <3>1
    <3> QED BY <3>2, <3>3, Zenon
  <2>2. CASE since = 0
    BY <1>4, <2>1, <2>2
  <2>3. CASE since # 0
    <3>1. quiet < MaxGap
      BY <2>3 DEF WifiInv, AskInv, Tick
    <3> QED BY <1>2, <1>3, <2>1, <3>1
  <2> QED BY <2>2, <2>3
<1> QED BY <1>5, <1>6, <1>7, <1>8 DEF WifiInv

\* The supervisor looks, and asks again if it is time.
LEMMA SuperviseInv ==
  ASSUME NoWrap, WifiInv, Supervise
  PROVE  WifiInv'
<1> USE DEF driver, report, prefs
<1>1. CASE SuperviseWaits
  <2>1. TypeOK'
    BY <1>1 DEF WifiInv, TypeOK, SuperviseWaits, wish
  <2>2. WishInv' /\ ClockInv'
    BY <1>1 DEF WifiInv, WishInv, ClockInv, SuperviseWaits, wish, ForgottenStaysOffline
  <2>3. AskInv'
    BY <1>1 DEF WifiInv, TypeOK, ClockInv, AskInv, SuperviseWaits, wish
  <2> QED BY <2>1, <2>2, <2>3 DEF WifiInv
<1>2. CASE SuperviseConnected
  <2>1. TypeOK'
    <3>1. attempts' \in 0..AttemptsMod-1 /\ wrapped' = FALSE
      BY <1>2 DEF SuperviseConnected, CountsAnew
    <3> QED BY <1>2, <3>1 DEF WifiInv, TypeOK, SuperviseConnected
  <2>2. WishInv'
    BY <1>2 DEF WifiInv, WishInv, SuperviseConnected, ForgottenStaysOffline
  <2>3. ClockInv'
    BY <1>2 DEF WifiInv, ClockInv, SuperviseConnected, CountsAnew
  <2>4. AskInv'
    BY <1>2 DEF AskInv, SuperviseConnected
  <2> QED BY <2>1, <2>2, <2>3, <2>4 DEF WifiInv
<1>3. CASE SuperviseAsks
  <2>1. attempts \in Nat /\ attempts \in 0..AttemptsMod-1 /\ now \in Nat
    BY DEF WifiInv, TypeOK
  <2> DEFINE gap == Backoff(attempts)
  <2>2. gap \in Nat /\ gap <= MaxGap
    BY <2>1, BackoffFacts
  <2>3. nextAttempt' = (now + gap) % ClockMod
    BY <1>3 DEF SuperviseAsks
  <2> HIDE DEF gap
  <2>4. now + gap \in 0..ClockMod-1
    BY <2>1, <2>2 DEF NoWrap, WifiInv, ClockInv
  <2>5. nextAttempt' = now + gap
    BY <2>3, <2>4, ModSmall
  <2>6. attempts' \in 0..AttemptsMod-1 /\ attempts' \in {0, attempts + 1}
    BY <1>3, <2>1, ModSucc DEF SuperviseAsks, CountsOneMore
  <2>7. TypeOK'
    <3>1. target' \in Credentials /\ link' \in {"down", "up"} /\ trying' \in BOOLEAN
      BY <1>3 DEF WifiInv, TypeOK, SuperviseAsks, Asks
    <3>2. wrapped' \in BOOLEAN
      BY <1>3 DEF WifiInv, TypeOK, SuperviseAsks, CountsOneMore
    <3> QED BY <1>3, <2>4, <2>5, <2>6, <3>1, <3>2 DEF WifiInv, TypeOK, SuperviseAsks, Asks
  <2>8. WishInv' /\ AskInv'
    BY <1>3 DEF WifiInv, WishInv, AskInv, SuperviseAsks, Asks, ForgottenStaysOffline
  <2>9. ClockInv'
    <3>1. attempts' > 0 => Backoff(attempts' - 1) = gap
      BY <2>1, <2>6 DEF gap
    <3>2. UNCHANGED now /\ quiet' = 0
      BY <1>3 DEF SuperviseAsks, Asks
    <3>3. now' <= Uptime /\ nextAttempt' + quiet' <= now' + MaxGap
      BY <2>1, <2>2, <2>5, <3>2 DEF WifiInv, ClockInv
    <3>4. nextAttempt' + quiet' = now' + gap
      BY <2>1, <2>2, <2>5, <3>2
    <3> QED BY <3>1, <3>3, <3>4 DEF ClockInv
  <2> QED BY <2>7, <2>8, <2>9 DEF WifiInv
<1> QED BY <1>1, <1>2, <1>3 DEF Supervise

\* A restart forgets everything but what is stored.
LEMMA PowerCycleInv ==
  ASSUME NoWrap, WifiInv, PowerCycle
  PROVE  WifiInv'
<1>1. Settle % ClockMod = Settle
  BY ModSmall DEF NoWrap
<1>2. nextAttempt' \in {0, Settle} /\ nextAttempt' \in 0..ClockMod-1
  BY <1>1 DEF PowerCycle, NoWrap
<1>3. TypeOK'
  <2>1. now' \in 0..ClockMod-1 /\ attempts' \in 0..AttemptsMod-1
    BY DEF PowerCycle, CountsAnew
  <2>2. events' \in Seq(Event) /\ Len(events') <= MaxEvents
    BY DEF PowerCycle
  <2>3. {stored', target', blamed'} \subseteq Credentials /\ kept' \in BOOLEAN
    <3>1. NoCredentials \in Credentials
      BY DEF NoCredentials, Credentials
    <3> QED BY <3>1 DEF PowerCycle, WifiInv, TypeOK
  <2>4. supervisors' \in {0, 1} /\ wanted' \in BOOLEAN /\ trying' \in BOOLEAN
    BY DEF PowerCycle
  <2>5. /\ due' \in BOOLEAN /\ lastReason' \in Reasons \cup {"none"} /\ touched' \in BOOLEAN
        /\ link' \in {"down", "up"} /\ quiet' \in Nat /\ since' \in Nat /\ wrapped' \in BOOLEAN
    BY DEF PowerCycle, CountsAnew
  <2> QED BY <1>2, <2>1, <2>2, <2>3, <2>4, <2>5 DEF TypeOK
<1>4. WishInv'
  BY DEF PowerCycle, WishInv, ForgottenStaysOffline
<1>5. ClockInv'
  <2>1. now' = 0 /\ quiet' = 0 /\ attempts' = 0
    BY DEF PowerCycle, CountsAnew
  <2>2. now' <= Uptime
    BY <2>1
  <2>3. nextAttempt' + quiet' <= now' + MaxGap
    <3>1. 0 + 0 <= 0 + MaxGap /\ Settle + 0 <= 0 + MaxGap
      OBVIOUS
    <3> QED BY <1>2, <2>1, <3>1
  <2>4. ~(attempts' > 0)
    BY <2>1
  <2> QED BY <2>2, <2>3, <2>4 DEF ClockInv
<1>6. AskInv'
  BY DEF PowerCycle, AskInv
<1> QED BY <1>3, <1>4, <1>5, <1>6 DEF WifiInv

-----------------------------------------------------------------------------
(* How soon a network that cannot be found counts as gone.                 *)

\* What the attempts to come are counted from.
LEMMA CountFacts ==
  ASSUME WifiInv
  PROVE  /\ GoneAfter[attempts + 1] \in Nat
         /\ attempts \in Nat /\ now \in Nat /\ nextAttempt \in Nat /\ since \in Nat
<1>1. attempts \in Nat /\ now \in Nat /\ nextAttempt \in Nat /\ since \in Nat
  BY DEF WifiInv, TypeOK
<1>2. attempts + 1 \in Nat
  BY <1>1
<1> QED BY <1>1, <1>2, GoneAfterIs

\* Steps that leave the schedule and the clocks alone.
LEMMA NoticeStays ==
  ASSUME NoticeInv, UNCHANGED <<now, nextAttempt, attempts, wrapped, since>>, wanted' => wanted,
         wanted' /\ link' = "down" => link = "down" /\ (due' = due \/ now < nextAttempt)
  PROVE  NoticeInv'
BY DEF NoticeInv

\* The driver's steps: a link that is lost has not been away yet.
LEMMA DriverNotice ==
  ASSUME WifiInv, NoticeInv, Driver
  PROVE  NoticeInv'
<1> USE DEF clock, wish, driver, report, prefs
<1>1. CASE Joins
  BY <1>1 DEF Joins, NoticeInv
<1>2. CASE WifiEvent \/ \E reason \in Reasons : FailsToJoin(reason)
  <2>1. UNCHANGED <<clock, wish, link, since>>
    BY <1>2 DEF WifiEvent, FailsToJoin
  <2> QED BY <2>1, NoticeStays
<1>3. CASE LosesLink
  <2>1. since' = 0 /\ UNCHANGED <<now, nextAttempt, attempts>>
    BY <1>3 DEF LosesLink, WifiInv, WishInv
  <2>2. nextAttempt <= now + MaxGap
    <3>1. nextAttempt + quiet <= now + MaxGap /\ quiet \in Nat
      BY DEF WifiInv, ClockInv, TypeOK
    <3> QED BY <3>1, CountFacts
  <2> DEFINE soon == GoneAfter[attempts + 1]
  <2>3. soon \in Nat
    BY CountFacts
  <2> HIDE DEF soon
  <2>5. 0 <= MaxGap + soon /\ 0 + nextAttempt <= now + MaxGap + soon
    BY <2>2, <2>3, CountFacts
  <2>6. GoneAfter[attempts' + 1] = soon
    BY <2>1 DEF soon
  <2> QED BY <2>1, <2>5, <2>6 DEF NoticeInv
<1> QED BY <1>1, <1>2, <1>3 DEF Driver

\* A join begins: the first attempt is a settling time away.
LEMMA StartNotice ==
  ASSUME NoWrap, WifiInv, NEW c, StartConnection(c), now' = now
  PROVE  NoticeInv'
<1>1. now + Settle \in 0..ClockMod-1
  BY DEF NoWrap, WifiInv, TypeOK, ClockInv
<1>2. /\ nextAttempt' = now + Settle /\ attempts' = 0 /\ since' = 0
  BY <1>1, ModSmall DEF StartConnection, CountsAnew
<1>3. GoneAfter[attempts' + 1] = Settle
  <2>1. attempts' + 1 = 1
    BY <1>2
  <2> QED BY <2>1, GoneAfterIs
<1>4. now \in Nat
  BY DEF WifiInv, TypeOK
<1> QED BY <1>2, <1>3, <1>4 DEF NoticeInv

\* What a script asks for.
LEMMA ScriptNotice ==
  ASSUME NoWrap, WifiInv, NoticeInv, Script
  PROVE  NoticeInv'
<1> USE DEF clock, wish, driver, report, prefs
<1>1. ASSUME NEW c \in Credentials, Save(c) PROVE NoticeInv'
  BY <1>1, StartNotice DEF Save
<1>2. CASE Connect
  BY <1>2, StartNotice DEF Connect
<1>3. CASE Forget
  BY <1>3 DEF Forget, NoticeInv
<1>4. CASE AsksNetwork \/ Teardown
  <2>1. UNCHANGED <<clock, wish, link, since>>
    BY <1>4 DEF AsksNetwork, Teardown
  <2> QED BY <2>1, NoticeStays
<1> QED BY <1>1, <1>2, <1>3, <1>4 DEF Script

\* A second passes: the next attempt is nearer by as much as the network has
\* been away longer.
LEMMA TickNotice ==
  ASSUME NoWrap, WifiInv, NoticeInv, Tick
  PROVE  NoticeInv'
<1>1. now' = now + 1
  <2>1. now + 1 \in 0..ClockMod-1
    BY DEF NoWrap, WifiInv, TypeOK, Tick
  <2> QED BY <2>1, ModSmall DEF Tick
<1>2. UNCHANGED <<wanted, attempts, wrapped, nextAttempt, link>>
  BY DEF Tick, wish, driver
<1>3. since' \in Nat /\ since' <= since + 1
  <2>1. since' = 0 \/ since' = Least(since + 1, Horizon)
    BY DEF Tick
  <2> QED BY <2>1, CountFacts, LeastFacts
<1> DEFINE soon == GoneAfter[attempts + 1]
<1>4. soon \in Nat /\ GoneAfter[attempts' + 1] = soon
  BY <1>2, CountFacts
<1>6. ASSUME wanted, link = "down"
      PROVE  /\ ~wrapped => since' <= MaxGap + soon
             /\ ~wrapped => since' + nextAttempt <= now' + MaxGap + soon
             /\ due'
  <2>1. /\ ~wrapped => since <= MaxGap + soon
        /\ ~wrapped => since + nextAttempt <= now + MaxGap + soon
        /\ since # 0 => now < nextAttempt
    BY <1>6 DEF NoticeInv, Tick
  <2>2. supervisors = 1 /\ due' = (supervisors > 0)
    BY <1>6 DEF WifiInv, WishInv, Tick
  <2>3. due'
    <3>1. supervisors > 0
      BY <2>2
    <3> QED BY <2>2, <3>1, Zenon
  <2> HIDE DEF soon
  <2>4. ~wrapped => since' + nextAttempt <= now' + MaxGap + soon
    BY <1>1, <1>3, <1>4, <2>1, CountFacts
  <2>5. ~wrapped => since' <= MaxGap + soon
    BY <1>3, <1>4, <2>1, CountFacts
  <2> QED BY <2>3, <2>4, <2>5
<1> HIDE DEF soon
<1> QED BY <1>2, <1>4, <1>6 DEF NoticeInv

\* The supervisor looks: one attempt more, and the one after it a backoff away.
LEMMA SuperviseNotice ==
  ASSUME NoWrap, WifiInv, NoticeInv, Supervise
  PROVE  NoticeInv'
<1> USE DEF driver, report, prefs, wish
<1>1. CASE SuperviseWaits
  <2>1. UNCHANGED <<now, nextAttempt, attempts, wrapped, since, wanted, link>>
    BY <1>1 DEF SuperviseWaits
  <2>2. wanted /\ link = "down" => now < nextAttempt
    BY <1>1 DEF SuperviseWaits
  <2> QED BY <2>1, <2>2, NoticeStays
<1>2. CASE SuperviseConnected
  BY <1>2 DEF SuperviseConnected, NoticeInv
<1>3. CASE SuperviseAsks
  <2> DEFINE soon == GoneAfter[attempts + 1]
             gap == Backoff(attempts)
  <2>1. /\ wanted /\ link = "down" /\ now >= nextAttempt
        /\ nextAttempt' = (now + gap) % ClockMod
        /\ attempts' = (attempts + 1) % AttemptsMod
        /\ wrapped' = (wrapped \/ attempts + 1 = AttemptsMod)
        /\ UNCHANGED <<now, since>>
    BY <1>3 DEF SuperviseAsks, CountsOneMore
  <2>2. gap \in Nat \ {0} /\ gap <= MaxGap /\ soon \in Nat
    BY CountFacts, BackoffFacts
  <2> HIDE DEF soon, gap
  <2>3. nextAttempt' = now + gap
    <3>1. now + gap \in 0..ClockMod-1
      BY <2>2, CountFacts DEF NoWrap, WifiInv, ClockInv
    <3> QED BY <2>1, <3>1, ModSmall
  <2>4. now' < nextAttempt'
    BY <2>1, <2>2, <2>3, CountFacts
  <2>5. ASSUME ~wrapped'
        PROVE  /\ since' <= MaxGap + GoneAfter[attempts' + 1]
               /\ since' + nextAttempt' <= now' + MaxGap + GoneAfter[attempts' + 1]
    <3>1. ~wrapped /\ attempts + 1 # AttemptsMod
      BY <2>1, <2>5
    <3>2. attempts + 1 \in 0..AttemptsMod-1
      BY <3>1 DEF WifiInv, TypeOK
    <3>3. attempts' = attempts + 1
      BY <2>1, <3>2, ModSmall
    <3>4. GoneAfter[attempts' + 1] = soon + gap
      <4>1. attempts' + 1 = attempts + 2
        BY <3>3, CountFacts
      <4>2. GoneAfter[attempts + 2] = GoneAfter[attempts + 1] + Backoff(attempts)
        BY CountFacts, GoneAfterIs
      <4> QED BY <4>1, <4>2 DEF soon, gap
    <3>5. since <= MaxGap + soon
      BY <2>1, <3>1 DEF NoticeInv, soon
    <3>6. /\ since' <= MaxGap + (soon + gap)
          /\ since' + nextAttempt' <= now' + MaxGap + (soon + gap)
      BY <2>1, <2>2, <2>3, <3>5, CountFacts
    <3> QED BY <3>4, <3>6
  <2> QED BY <2>4, <2>5 DEF NoticeInv
<1> QED BY <1>1, <1>2, <1>3 DEF Supervise

\* A restart begins with a settling time too.
LEMMA PowerCycleNotice ==
  ASSUME NoWrap, PowerCycle
  PROVE  NoticeInv'
<1>1. Settle % ClockMod = Settle
  BY ModSmall DEF NoWrap
<1>2. /\ now' = 0 /\ attempts' = 0 /\ since' = 0
      /\ wanted' => nextAttempt' = Settle
  BY <1>1 DEF PowerCycle, CountsAnew
<1>3. GoneAfter[attempts' + 1] = Settle
  <2>1. attempts' + 1 = 1
    BY <1>2
  <2> QED BY <2>1, GoneAfterIs
<1> QED BY <1>2, <1>3 DEF NoticeInv

-----------------------------------------------------------------------------
\* No step leaves the invariant.
LEMMA NextInv == ASSUME NoWrap PROVE WifiInv /\ [Next]_vars => WifiInv'
<1> SUFFICES ASSUME WifiInv, [Next]_vars PROVE WifiInv'
  OBVIOUS
<1>1. CASE Next
  BY <1>1, DriverInv, ScriptInv, SuperviseInv, TickInv, PowerCycleInv DEF Next
<1>2. CASE UNCHANGED vars
  BY <1>2 DEF vars, clock, wish, report, prefs, driver, WifiInv, TypeOK, WishInv, ClockInv, AskInv,
              ForgottenStaysOffline
<1> QED BY <1>1, <1>2

\* No step comes between what is joined and what is stored.
LEMMA NextStored == WantedIsStored /\ [Next]_vars => WantedIsStored'
<1> SUFFICES ASSUME WantedIsStored, [Next]_vars PROVE WantedIsStored'
  OBVIOUS
<1> USE DEF clock, wish, driver, report, prefs
<1>1. ASSUME NEW c \in Credentials, Save(c) PROVE WantedIsStored'
  <2>1. PICK ssidTaken, passTaken \in BOOLEAN :
          /\ stored' = [ssid |-> IF ssidTaken THEN c.ssid ELSE stored.ssid,
                        pass |-> IF passTaken THEN c.pass ELSE stored.pass]
          /\ kept' = (ssidTaken /\ passTaken /\ c.ssid # Empty)
    BY <1>1 DEF Save
  <2> SUFFICES ASSUME kept' PROVE target' = stored' /\ stored'.ssid # Empty
    BY DEF WantedIsStored
  <2>2. ssidTaken = TRUE /\ passTaken = TRUE /\ c.ssid # Empty
    BY <2>1
  <2>3. stored' = [ssid |-> c.ssid, pass |-> c.pass]
    BY <2>1, <2>2
  <2>4. stored' = c
    BY <2>3 DEF Credentials
  <2>5. target' = c
    BY <1>1, <2>2 DEF Save, StartConnection, Asks
  <2> QED BY <2>2, <2>4, <2>5
<1>2. CASE Connect
  BY <1>2 DEF Connect, StartConnection, Asks, WantedIsStored
<1>3. CASE Forget
  BY <1>3 DEF Forget, WantedIsStored
<1>4. CASE SuperviseAsks
  BY <1>4 DEF SuperviseAsks, Asks, WantedIsStored
<1>5. CASE PowerCycle
  BY <1>5 DEF PowerCycle, WantedIsStored
<1>6. CASE Driver
  BY <1>6 DEF Driver, Joins, LosesLink, WifiEvent, FailsToJoin, WantedIsStored
<1>7. CASE AsksNetwork \/ Teardown \/ Tick
  BY <1>7 DEF AsksNetwork, Teardown, Tick, WantedIsStored
<1>8. CASE SuperviseWaits \/ SuperviseConnected
  BY <1>8 DEF SuperviseWaits, SuperviseConnected, WantedIsStored
<1>9. CASE UNCHANGED vars
  BY <1>9 DEF vars, WantedIsStored
<1> QED BY <1>1, <1>2, <1>3, <1>4, <1>5, <1>6, <1>7, <1>8, <1>9 DEF Next, Script, Supervise

\* The inductive invariant of the reconnect schedule (bindings_wifi.cpp:112-156).
THEOREM WifiInvariant == ASSUME NoWrap PROVE Spec => []WifiInv
<1>1. Init => WifiInv
  BY InitInv
<1>2. WifiInv /\ [Next]_vars => WifiInv'
  BY NextInv
<1> QED BY <1>1, <1>2, PTL DEF Spec

\* The state is of the types the module declares, the counters within their width.
THEOREM WifiTypes == ASSUME NoWrap PROVE Spec => []TypeOK
<1>1. WifiInv => TypeOK
  BY DEF WifiInv
<1> QED BY <1>1, WifiInvariant, PTL

\* The invariant gives the bound on the silence of the supervisor.
LEMMA InvKeepsAsking == WifiInv => KeepsAsking
<1> SUFFICES ASSUME WifiInv, wanted, link = "down" PROVE Least(quiet, since) <= MaxGap
  BY DEF KeepsAsking
<1>1. quiet \in Nat /\ since \in Nat
  BY DEF WifiInv, TypeOK
<1>2. since = 0 \/ since = 1 \/ quiet <= MaxGap
  BY <1>1 DEF WifiInv, AskInv
<1> QED BY <1>1, <1>2 DEF Least

\* While a network is wanted and not there, the driver is asked again within the
\* longest backoff, whatever happens (supervise, bindings_wifi.cpp:112-137).
THEOREM KeepsAskingAlways == ASSUME NoWrap PROVE Spec => []KeepsAsking
<1>1. Spec => []WifiInv
  BY WifiInvariant
<1>2. WifiInv => KeepsAsking
  BY InvKeepsAsking
<1> QED BY <1>1, <1>2, PTL

\* The driver is never asked again before the backoff is over: no wrong password
\* becomes a spin (bindings_wifi.cpp:44-51).
THEOREM WideningGapAlways == ASSUME NoWrap PROVE Spec => WideningGap
<1>1. Spec => []WifiInv
  BY WifiInvariant
<1>2. WifiInv => (SuperviseAsks /\ attempts > 0 => quiet >= Backoff(attempts - 1))
  <2> SUFFICES ASSUME WifiInv, SuperviseAsks, attempts > 0
               PROVE  quiet >= Backoff(attempts - 1)
    OBVIOUS
  <2> DEFINE gap == Backoff(attempts - 1)
  <2>1. gap \in Nat /\ gap <= MaxGap
    <3>1. attempts - 1 \in Nat
      BY DEF WifiInv, TypeOK
    <3> QED BY <3>1, BackoffFacts
  <2>2. quiet >= MaxGap \/ nextAttempt + quiet = now + gap
    BY DEF WifiInv, ClockInv
  <2>3. now \in Nat /\ nextAttempt \in Nat /\ quiet \in Nat /\ now >= nextAttempt
    BY DEF WifiInv, TypeOK, SuperviseAsks
  <2> HIDE DEF gap
  <2>4. quiet >= gap
    BY <2>1, <2>2, <2>3
  <2> QED BY <2>4 DEF gap
<1> QED BY <1>1, <1>2, PTL DEF WideningGap

\* A forgotten network stays away (js_wifi_forget, bindings_wifi.cpp:193-203).
THEOREM ForgottenStaysOfflineAlways == ASSUME NoWrap PROVE Spec => []ForgottenStaysOffline
<1>1. WifiInv => ForgottenStaysOffline
  BY DEF WifiInv, WishInv
<1> QED BY <1>1, WifiInvariant, PTL

\* What the board joins is what it would join after a restart, but for a save that
\* flash did not take in full (js_wifi_save, jsvm_wifi_autoconnect,
\* bindings_wifi.cpp:158-191).
THEOREM WantedIsStoredAlways == Spec => []WantedIsStored
<1>1. Init => WantedIsStored
  BY DEF Init, WantedIsStored
<1>2. WantedIsStored /\ [Next]_vars => WantedIsStored'
  BY NextStored
<1> QED BY <1>1, <1>2, PTL DEF Spec

\* The schedule keeps to what GoneAfter says of it until the count wraps: the
\* attempts come when they should, whatever the link does in between.
THEOREM NoticeInvariant == ASSUME NoWrap PROVE Spec => []NoticeInv
<1>1. Init => NoticeInv
  BY DEF Init, NoticeInv
<1>2. WifiInv /\ NoticeInv /\ [Next]_vars => NoticeInv'
  <2> SUFFICES ASSUME WifiInv, NoticeInv, [Next]_vars PROVE NoticeInv'
    OBVIOUS
  <2>1. CASE Next
    BY <2>1, DriverNotice, ScriptNotice, SuperviseNotice, TickNotice, PowerCycleNotice DEF Next
  <2>2. CASE UNCHANGED vars
    <3>1. UNCHANGED <<clock, wish, link, since>>
      BY <2>2 DEF vars, driver
    <3> QED BY <3>1, NoticeStays DEF clock, wish
  <2> QED BY <2>1, <2>2
<1>3. Spec => []WifiInv
  BY WifiInvariant
<1> QED BY <1>1, <1>2, <1>3, PTL DEF Spec

\* A network that cannot be found is a matter for a person after the attempts
\* js_bindings.h:88-89 counts, and at most one backoff more, until the count wraps.
THEOREM MissingIsNoticedAlways == ASSUME NoWrap PROVE Spec => []MissingIsNoticed
<1>1. WifiInv /\ NoticeInv => MissingIsNoticed
  <2> SUFFICES ASSUME WifiInv, NoticeInv, touched, wanted, link = "down", lastReason = "noAp", ~wrapped,
                      since > GoneAfter[UntilGone] + MaxGap
               PROVE  SetupNeeded
    BY DEF MissingIsNoticed
  <2>1. ASSUME attempts < UntilGone PROVE FALSE
    <3>1. attempts + 1 \in Nat /\ attempts + 1 <= UntilGone
      BY <2>1, CountFacts
    <3>2. GoneAfter[attempts + 1] <= GoneAfter[UntilGone] /\ GoneAfter[UntilGone] \in Nat
      BY <3>1, GoneAfterGrows
    <3>3. since <= MaxGap + GoneAfter[attempts + 1]
      BY DEF NoticeInv
    <3> QED BY <3>2, <3>3, CountFacts
  <2>2. attempts >= UntilGone
    BY <2>1, CountFacts
  <2> QED BY <2>2 DEF SetupNeeded
<1>2. Spec => []WifiInv
  BY WifiInvariant
<1>3. Spec => []NoticeInv
  BY NoticeInvariant
<1> QED BY <1>1, <1>2, <1>3, PTL
=============================================================================
