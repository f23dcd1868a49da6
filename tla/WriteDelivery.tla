---------------------------- MODULE WriteDelivery ----------------------------
(***************************************************************************)
(* What a caller of SocketEmitWithAckNS may rely on, with the connection   *)
(* pool, the dialling and the sockets hidden: a write is handled by the    *)
(* collaboration server a bounded number of times, and its outcome bounds  *)
(* that number.                                                            *)
(*   ok        the server handled the write at least once;                 *)
(*   connErr   CONNECTION_ERROR: it was handled at most once, now or later;*)
(*   expired   SESSION_EXPIRED: it may have been handled twice.            *)
(* The server may handle a write after the caller was given an error.      *)
(***************************************************************************)
EXTENDS Naturals

CONSTANT Call          \* the calls of SocketEmitWithAckNS

VARIABLES outcome,     \* outcome[c]: what c returned, "none" while it runs
          handled      \* handled[c]: how often the server handled c's write

vars == <<outcome, handled>>

Outcome == {"none", "ok", "connErr", "expired"}

TypeOK == /\ outcome \in [Call -> Outcome]
          /\ handled \in [Call -> 0..2]

Init == /\ outcome = [c \in Call |-> "none"]
        /\ handled = [c \in Call |-> 0]

\* A call that failed without a reconnect put one packet on the wire, any
\* other call at most two.
MostDeliveries(o) == IF o = "connErr" THEN 1 ELSE 2

Handle(c) ==
  /\ handled[c] < MostDeliveries(outcome[c])
  /\ handled' = [handled EXCEPT ![c] = @ + 1]
  /\ UNCHANGED outcome

Succeed(c) ==
  /\ outcome[c] = "none" /\ handled[c] > 0
  /\ outcome' = [outcome EXCEPT ![c] = "ok"]
  /\ UNCHANGED handled

\* A failed dial is shared by every call that waited for it, so several calls
\* may fail in one step.
Fail(C) ==
  /\ \A c \in C : outcome[c] = "none"
  /\ \E o \in [C -> {"connErr", "expired"}] :
       /\ \A c \in C : handled[c] <= MostDeliveries(o[c])
       /\ outcome' = [c \in Call |-> IF c \in C THEN o[c] ELSE outcome[c]]
  /\ UNCHANGED handled

Next ==
  \/ \E c \in Call : Handle(c) \/ Succeed(c)
  \/ \E C \in SUBSET Call : Fail(C)

Spec == Init /\ [][Next]_vars
=============================================================================
