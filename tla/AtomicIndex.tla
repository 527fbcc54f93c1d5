----------------------------- MODULE AtomicIndex -----------------------------
(***************************************************************************)
(* What a collection promises to the clients that write to it: a request   *)
(* takes effect at one instant between its call and its reply, or not at   *)
(* all.  At that instant its preconditions hold, it is classified against  *)
(* exactly the documents stored, all of it is written, and the reply tells *)
(* the classification and the manifest digest of that same instant.        *)
(***************************************************************************)
EXTENDS IndexData

CONSTANT Threads   \* the requests that can be in progress at once

VARIABLES
  store,     \* the documents, [Docs -> DocStates]
  profile,   \* the index profile of the running process
  calls      \* what each thread is doing

vars == <<store, profile, calls>>

Idle == [phase |-> "idle"]

Called(r, want) == [phase |-> "called", req |-> r, want |-> want]

Committed(plan, digest) == [phase |-> "committed", plan |-> plan, digest |-> digest]

Init == /\ store \in [Docs -> {Absent, Legacy}]
        /\ profile \in Profiles
        /\ calls = [t \in Threads |-> Idle]

\* The client reads the manifest and sends its request.
Call(t, r) ==
  /\ calls[t].phase = "idle"
  /\ Accepted(r)
  /\ calls' = [calls EXCEPT ![t] = Called(r, Expected(store, r))]
  /\ UNCHANGED <<store, profile>>

\* The request takes effect.
TakeEffect(t) ==
  /\ calls[t].phase = "called"
  /\ LET r    == calls[t].req
         plan == PlanFor(store, profile, r)
     IN  /\ Preconditions(store, profile, r, calls[t].want)
         /\ store' = Effect(store, profile, r, plan)
         /\ calls' = [calls EXCEPT ![t] = Committed(plan, Digest(store', r.scope))]
  /\ UNCHANGED profile

\* The reply: an outcome or a late error after the effect, an error without it.
Reply(t) ==
  /\ calls[t].phase # "idle"
  /\ calls' = [calls EXCEPT ![t] = Idle]
  /\ UNCHANGED <<store, profile>>

\* The process ends, and starts again under the same or another profile.
Restart ==
  /\ calls' = [t \in Threads |-> Idle]
  /\ profile' \in Profiles
  /\ UNCHANGED store

Next == \/ \E t \in Threads, r \in Requests : Call(t, r)
        \/ \E t \in Threads : TakeEffect(t) \/ Reply(t)
        \/ Restart

Spec == Init /\ [][Next]_vars
=============================================================================
