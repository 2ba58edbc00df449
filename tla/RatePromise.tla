----------------------------- MODULE RatePromise -----------------------------
(***************************************************************************)
(* What the rate limiter promises to an address: a window begins with its  *)
(* first request after the window before ended, lasts Window, and lets     *)
(* Rate requests through.  Nothing is ever forgotten here.                 *)
(***************************************************************************)
EXTENDS Integers

CONSTANTS IPs, Rate, Window

VARIABLES
  now,
  begun,     \* when the window of each address began, Never without one
  passed     \* the requests let through in it

vars == <<now, begun, passed>>

Never == -1

Init ==
  /\ now = 0
  /\ begun = [ip \in IPs |-> Never]
  /\ passed = [ip \in IPs |-> 0]

Ended(ip) == begun[ip] # Never /\ now + 1 - begun[ip] > Window

Tick ==
  /\ now' = now + 1
  /\ begun' = [ip \in IPs |-> IF Ended(ip) THEN Never ELSE begun[ip]]
  /\ passed' = [ip \in IPs |-> IF Ended(ip) THEN 0 ELSE passed[ip]]

Pass(ip) ==
  /\ passed[ip] < Rate
  /\ begun' = [begun EXCEPT ![ip] = IF @ = Never THEN now ELSE @]
  /\ passed' = [passed EXCEPT ![ip] = @ + 1]
  /\ UNCHANGED now

Next == Tick \/ \E ip \in IPs : Pass(ip)

Spec == Init /\ [][Next]_vars

=============================================================================
