---------------------------- MODULE NativePromise ----------------------------
(***************************************************************************)
(* What a caller of lib/crypto/common.dart may rely on: it asks, and is     *)
(* answered with a result of what it asked for, whatever others ask at the  *)
(* same time; or the process stops, and then nobody is answered any more.   *)
(* How the calls get through shared memory is NativeCalls.tla.              *)
(***************************************************************************)
CONSTANTS
  Callers,      \* those who call, each for one thing at a time
  Requests,     \* what they may ask for
  Results(_),   \* the results that a request may have
  Refusal,      \* what one is answered that is not made
  Stops(_),     \* may a request stop the process?
  NULL          \* nothing asked for, nothing answered

VARIABLES
  asked,    \* of each caller: what it waits for
  result,   \* of each caller: what it was answered last
  running   \* is the process alive?

vars == << asked, result, running >>

Init ==
  /\ asked = [c \in Callers |-> NULL]
  /\ result = [c \in Callers |-> NULL]
  /\ running = TRUE

Ask(c) ==
  /\ asked[c] = NULL
  /\ asked'[c] \in Requests
  /\ asked' = [asked EXCEPT ![c] = asked'[c]]
  /\ result' = [result EXCEPT ![c] = NULL]
  /\ UNCHANGED running

(* At once, before anything is asked of the library. *)
Refused(c) ==
  /\ asked[c] = NULL
  /\ result' = [result EXCEPT ![c] = Refusal]
  /\ UNCHANGED << asked, running >>

Answered(c) ==
  /\ asked[c] # NULL
  /\ \E x \in Results(asked[c]) : result' = [result EXCEPT ![c] = x]
  /\ asked' = [asked EXCEPT ![c] = NULL]
  /\ UNCHANGED running

Stop(c) ==
  /\ asked[c] # NULL
  /\ Stops(asked[c])
  /\ running' = FALSE
  /\ UNCHANGED << asked, result >>

Next == running /\ \E c \in Callers : Ask(c) \/ Refused(c) \/ Answered(c) \/ Stop(c)

Spec == Init /\ [][Next]_vars
=============================================================================
