------------------------------ MODULE Semaphore ------------------------------
(***************************************************************************)
(* What a concurrency limiter promises its callers: per key, a counting    *)
(* semaphore whose bound comes with each request.  A configuration reload  *)
(* may change the bound between two requests, so owners may exceed the     *)
(* bound a later request carries; that request is then refused.            *)
(***************************************************************************)
EXTENDS Integers, FiniteSets

CONSTANTS Caller, Key, Limits

VARIABLES status, key, limit

vars == <<status, key, limit>>

\* Callers that own a slot of key k.
Owners(k) == {c \in Caller : status[c] = "held" /\ key[c] = k}

Init ==
  /\ status = [c \in Caller |-> "idle"]
  /\ key \in [Caller -> Key]
  /\ limit \in [Caller -> Limits]

Ask(c, k, n) ==
  /\ status[c] = "idle"
  /\ status' = [status EXCEPT ![c] = "asking"]
  /\ key' = [key EXCEPT ![c] = k]
  /\ limit' = [limit EXCEPT ![c] = n]

Grant(c) ==
  /\ status[c] = "asking"
  /\ Cardinality(Owners(key[c])) < limit[c]
  /\ status' = [status EXCEPT ![c] = "held"]
  /\ UNCHANGED <<key, limit>>

Refuse(c) ==
  /\ status[c] = "asking"
  /\ Cardinality(Owners(key[c])) >= limit[c]
  /\ status' = [status EXCEPT ![c] = "idle"]
  /\ UNCHANGED <<key, limit>>

GiveBack(c) ==
  /\ status[c] = "held"
  /\ status' = [status EXCEPT ![c] = "idle"]
  /\ UNCHANGED <<key, limit>>

Next == \E c \in Caller :
  \/ \E k \in Key, n \in Limits : Ask(c, k, n)
  \/ Grant(c)
  \/ Refuse(c)
  \/ GiveBack(c)

Spec == Init /\ [][Next]_vars
=============================================================================
