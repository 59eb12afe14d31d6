---------------------------------- MODULE Calls --------------------------------
(***************************************************************************)
(* Requests in service, shared by the components whose handlers run side   *)
(* by side in one API process or in several.  A process serves one call at *)
(* a time; every await that reads or writes shared state is a step of its  *)
(* own, and other calls run between two of them.                           *)
(***************************************************************************)
EXTENDS Integers

CONSTANTS
    Proc,        \* calls in service at the same time
    MaxRequests  \* bound: calls begun

ASSUME MaxRequestsAssumption == MaxRequests \in Nat

VARIABLES
    calls,       \* process -> where its call is and what it holds
    requests     \* calls begun so far

callVars == <<calls, requests>>

\* A record: the field at names the next await, the others are the call's local variables.
Idle == [at |-> "idle"]

CallsInit ==
    /\ calls = [p \in Proc |-> Idle]
    /\ requests = 0

At(p, step) == calls[p].at = step

\* A handler starts: what it reads before its first await is read in the same step.
Begin(p, call) ==
    /\ At(p, "idle")
    /\ requests < MaxRequests
    /\ requests' = requests + 1
    /\ calls' = [calls EXCEPT ![p] = call]

Goto(p, call) ==
    /\ calls' = [calls EXCEPT ![p] = call]
    /\ UNCHANGED requests

Return(p) == Goto(p, Idle)

\* A handler of one await: it begins and ends in a step.
Serve(p) == Begin(p, Idle)

\* An await throws, or the process dies: what was written stays, what was left is not done.
Interrupt(p) ==
    /\ ~At(p, "idle")
    /\ Return(p)

===============================================================================
