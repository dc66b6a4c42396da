---------------------------- MODULE FetchPromise ----------------------------
(***************************************************************************)
(* What fetch() promises a script, with no word of how: a request belongs  *)
(* to the app that made it, there is one at a time, it is settled at most  *)
(* once, with the response to its own url, while its app is still running, *)
(* and dies with its app otherwise.  Fetch implements this.                *)
(***************************************************************************)
EXTENDS Naturals

CONSTANT Requests
NoRequest == 0

VARIABLES
  promise,   \* what each request's promise has come to
  answer,    \* the url whose response settled it
  owner,     \* the app that made it
  app        \* how many apps have been switched away from

pvars == <<promise, answer, owner, app>>

PInit ==
  /\ promise = [r \in Requests |-> "none"]
  /\ answer = [r \in Requests |-> NoRequest]
  /\ owner = [r \in Requests |-> 0]
  /\ app = 0

Pending(r) == promise[r] = "pending"

Ask(r) ==
  /\ promise[r] = "none"
  /\ \A s \in Requests : ~Pending(s)
  /\ promise' = [promise EXCEPT ![r] = "pending"]
  /\ owner' = [owner EXCEPT ![r] = app]
  /\ UNCHANGED <<answer, app>>

Settle(r) ==
  /\ Pending(r)
  /\ owner[r] = app
  /\ \E how \in {"resolved", "rejected"} : promise' = [promise EXCEPT ![r] = how]
  /\ answer' = [answer EXCEPT ![r] = r]
  /\ UNCHANGED <<owner, app>>

SwitchApp ==
  /\ app' = app + 1
  /\ promise' = [r \in Requests |-> IF Pending(r) THEN "gone" ELSE promise[r]]
  /\ UNCHANGED <<answer, owner>>

PNext == \/ \E r \in Requests : Ask(r) \/ Settle(r)
         \/ SwitchApp

PSpec == PInit /\ [][PNext]_pvars
=============================================================================
