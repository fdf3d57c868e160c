-------------------------- MODULE ControlPlaneLoad --------------------------
(***************************************************************************)
(* The load on the control plane (control_plane/fairness.rs): one worker   *)
(* in the two phases of a run.  It takes the slots of a schedule           *)
(* (OperationSchedule, fairness_assessor.rs), sends a request in each, and *)
(* goes round: an object is made, read, changed and deleted, whatever      *)
(* became of the request before.                                           *)
(*                                                                         *)
(* Time is counted in ticks.  Workers share the origin of the schedule and *)
(* nothing else, so one is as good as several.                             *)
(***************************************************************************)
EXTENDS Naturals, Sequences, FiniteSets

CONSTANTS
  Duration,    \* of a phase
  Interval,    \* between two slots of a worker, where a rate is configured
  MaxService,  \* a request takes so long at most, and a tick at least
  Mishaps      \* a bound: so many requests fail

ASSUME TickAssumption ==
  Duration \in Nat \ {0} /\ Interval \in Nat \ {0} /\ MaxService \in Nat \ {0} /\ Mishaps \in Nat

VARIABLES
  kind,      \* what the worker makes
  limiter,   \* the strategy, and whether a rate is configured
  phase, pc,
  now,       \* since the origin of the schedule
  issued,    \* slots
  slot,      \* when the current operation was due
  sent,      \* when it was dispatched
  step,      \* its place in the round
  counter,   \* names the object of the round
  objects,   \* what is there under each name
  last,      \* the point recorded last: lateness and error
  kept,      \* history: what a deletion has failed of
  mishaps    \* history: how many have

vars == <<kind, limiter, phase, pc, now, issued, slot, sent, step, counter, objects, last,
          kept, mishaps>>

Kinds == {"configmap", "pod"}
Limiter == [strategy : {"Unlimited", "FixedDelay"}, rated : BOOLEAN]
Scenario(k) ==
  IF k = "pod" THEN <<"create", "update", "list", "delete">>
  ELSE <<"create", "get", "update", "get", "list", "delete">>

\* RateLimiter::new, and the share of a worker: without a rate there is no pace.
Pace == IF limiter.rated THEN Interval ELSE 0

Longest == IF Interval > MaxService THEN Interval ELSE MaxService
\* A bound: a phase is over a round after its end, and a round takes a tick for each request.
Horizon == Duration + 7 * Longest
Names == 0 .. Duration

\* The types; and a phase goes over its end by a single round at most.
TypeOK ==
  /\ kind \in Kinds /\ limiter \in Limiter
  /\ phase \in {"baseline", "unbalanced", "done"}
  /\ pc \in {"sweep", "begin", "round", "ask", "sleep", "call", "tidy"}
  /\ now \in 0 .. Horizon /\ issued \in Nat /\ slot \in Nat /\ sent \in 0 .. Horizon
  /\ step \in 1 .. 6 /\ counter \in Names
  /\ objects \in [Names -> {"absent", "present", "leaving"}]
  /\ last \in [late : 0 .. Horizon, error : BOOLEAN]
  /\ kept \subseteq Names /\ mishaps \in 0 .. Mishaps

NoPoint == [late |-> 0, error |-> FALSE]

Init ==
  /\ kind \in Kinds /\ limiter \in Limiter
  /\ phase = "baseline" /\ pc = "sweep"
  /\ now = 0 /\ issued = 0 /\ slot = 0 /\ sent = 0 /\ step = 1 /\ counter = 0
  /\ objects = [c \in Names |-> "absent"]
  /\ last = NoPoint
  /\ kept = {} /\ mishaps = 0

Goto(l) == pc' = l
Setting == UNCHANGED <<kind, limiter>>
GoesWrong == mishaps < Mishaps /\ mishaps' = mishaps + 1

-----------------------------------------------------------------------------
(***************************************************************************)
(* A phase.                                                                *)
(***************************************************************************)
\* cleanup_resources deletes the configmaps that carry the label of the test, and deployments,
\* of which there are none; its errors are dropped.
Swept ==
  \/ /\ objects' = IF kind = "configmap" THEN [c \in Names |-> "absent"] ELSE objects
     /\ kept' = IF kind = "configmap" THEN {} ELSE kept
     /\ UNCHANGED mishaps
  \/ /\ GoesWrong
     /\ \E gone \in SUBSET (IF kind = "configmap" THEN kept ELSE {}) :
          /\ objects' = [c \in Names |-> IF c \in gone THEN "absent" ELSE objects[c]]
          /\ kept' = kept \ gone

Sweep ==
  /\ pc = "sweep" /\ phase # "done"
  /\ Swept
  /\ Goto("begin")
  /\ Setting /\ UNCHANGED <<phase, now, issued, slot, sent, step, counter, last>>

Begin ==
  /\ pc = "begin"
  /\ now' = 0 /\ issued' = 0 /\ slot' = 0 /\ sent' = 0 /\ step' = 1 /\ counter' = 0
  /\ last' = NoPoint
  /\ Goto("round")
  /\ Setting /\ UNCHANGED <<phase, objects, kept, mishaps>>

\* Mutant of Due: the deadline is for the next slot, and not for the clock.
DueBySlot == issued * Pace < Duration
\* The deadline is looked at between two rounds.
Due == now < Duration

Round ==
  /\ pc = "round"
  /\ Goto(IF Due THEN "ask" ELSE "tidy")
  /\ step' = 1
  /\ Setting /\ UNCHANGED <<phase, now, issued, slot, sent, counter, objects, last, kept, mishaps>>

Tidy ==
  /\ pc = "tidy"
  /\ Swept
  /\ phase' = IF phase = "baseline" THEN "unbalanced" ELSE "done"
  /\ Goto("sweep")
  /\ Setting /\ UNCHANGED <<now, issued, slot, sent, step, counter, last>>

-----------------------------------------------------------------------------
(***************************************************************************)
(* An operation.                                                           *)
(***************************************************************************)
\* Mutant of Slot: the delay is counted from the end of the operation before.
SlotAfter == IF Pace = 0 \/ issued = 0 THEN now ELSE now + Pace
\* next_slot: without a pace the slot is due when it is asked for.
Slot == IF Pace = 0 THEN now ELSE issued * Pace

Ask ==
  /\ pc = "ask"
  /\ slot' = Slot /\ issued' = issued + 1
  /\ Goto("sleep")
  /\ Setting /\ UNCHANGED <<phase, now, sent, step, counter, objects, last, kept, mishaps>>

Asleep == pc = "sleep" /\ slot > now

Send ==
  /\ pc = "sleep" /\ ~Asleep
  /\ sent' = now
  /\ Goto("call")
  /\ Setting /\ UNCHANGED <<phase, now, issued, slot, step, counter, objects, last, kept, mishaps>>

Tick ==
  /\ Asleep \/ (pc = "call" /\ now < sent + MaxService)
  /\ now' = now + 1
  /\ Setting /\ UNCHANGED <<phase, pc, issued, slot, sent, step, counter, objects, last, kept, mishaps>>

Op == Scenario(kind)[step]
Here == objects[counter]

\* What the API server does with the request, and whether it has it refused.
Effect(op) ==
  IF op = "create" /\ Here = "absent" THEN "present"
  ELSE IF op = "delete" /\ Here = "present" THEN IF kind = "pod" THEN "leaving" ELSE "absent"
  ELSE Here
Refused(op) ==
  \/ op = "create" /\ Here # "absent"
  \/ op \in {"get", "update", "delete"} /\ Here = "absent"

\* Mutant of Advance: nothing is read, changed or deleted that was not created.
AdvanceIfMade(error) ==
  IF step = Len(Scenario(kind)) \/ (Op = "create" /\ error)
    THEN Goto("round") /\ counter' = counter + 1 /\ UNCHANGED step
  ELSE Goto("ask") /\ step' = step + 1 /\ UNCHANGED counter
\* Each request of a round is sent whatever became of the others.
Advance(error) ==
  IF step = Len(Scenario(kind)) THEN Goto("round") /\ counter' = counter + 1 /\ UNCHANGED step
  ELSE Goto("ask") /\ step' = step + 1 /\ UNCHANGED counter

Recorded(error) == last' = [late |-> sent - slot, error |-> error]

\* Of a request that fails nobody knows whether it has had its effect.
Answer ==
  /\ pc = "call" /\ now > sent
  /\ \/ /\ objects' = [objects EXCEPT ![counter] = Effect(Op)]
        /\ Recorded(Refused(Op)) /\ Advance(Refused(Op))
        /\ kept' = IF Op = "delete" THEN kept \ {counter} ELSE kept
        /\ UNCHANGED mishaps
     \/ /\ GoesWrong
        /\ objects' \in {objects, [objects EXCEPT ![counter] = Effect(Op)]}
        /\ Recorded(TRUE) /\ Advance(TRUE)
        /\ kept' = IF Op = "delete" THEN kept \union {counter} ELSE kept
  /\ Setting /\ UNCHANGED <<phase, now, issued, slot, sent>>

\* A pod that was deleted is there for its grace period.
Vanish ==
  /\ \E c \in Names : objects[c] = "leaving" /\ objects' = [objects EXCEPT ![c] = "absent"]
  /\ Setting /\ UNCHANGED <<phase, pc, now, issued, slot, sent, step, counter, last, kept, mishaps>>

Done == phase = "done" /\ UNCHANGED vars

Next == Sweep \/ Begin \/ Round \/ Tidy \/ Ask \/ Send \/ Tick \/ Answer \/ Vanish \/ Done

Spec == Init /\ [][Next]_vars

-----------------------------------------------------------------------------
(***************************************************************************)
(* Properties.                                                             *)
(***************************************************************************)
(***************************************************************************)
(* The load is offered, not driven by the answers: a worker that sleeps    *)
(* has begun exactly the operations that were due by now, however long     *)
(* earlier ones took; one without a pace never sleeps, and none of its     *)
(* operations is recorded as late.                                         *)
(***************************************************************************)
LoadIsOffered ==
  /\ Asleep => Pace # 0 /\ issued - 1 = now \div Pace + 1
  /\ Pace = 0 => last.late = 0

(***************************************************************************)
(* An object is there outside of its round only if it is a pod on its way  *)
(* out, or if its own deletion has failed: no failure of another request   *)
(* of the round leaves it behind.                                          *)
(***************************************************************************)
LitterIsExplained ==
  \A c \in Names :
    objects[c] = "present" /\ ~(c = counter /\ pc \in {"ask", "sleep", "call"}) => c \in kept

-----------------------------------------------------------------------------
(***************************************************************************)
(* Why the properties hold: how far the worker can be behind the clock at  *)
(* each point of a round, and how many objects it can have made by then.   *)
(***************************************************************************)
InRound == pc \in {"ask", "sleep", "call"}

\* When the k-th request of the last round of a phase is sent at the latest.
Reach(k) == Duration + k * Longest

\* A round ends with the deletion of its object.
InScenario == step \in 1 .. Len(Scenario(kind))

\* An object is made by a round, and a round takes time.
Counted ==
  /\ pc \in {"round", "ask", "sleep"} => counter <= now
  /\ pc = "call" => counter <= sent
  /\ InRound => counter < Duration

InTime ==
  /\ pc \in {"round", "ask"} => slot <= sent /\ sent <= now
  /\ pc = "ask" => sent <= Reach(step - 1) /\ now <= Reach(step)
  /\ pc = "sleep" => slot <= Reach(step) /\ now <= Reach(step)
  /\ pc = "call" => /\ slot <= sent /\ sent <= Reach(step)
                    /\ sent <= now /\ now <= sent + MaxService

\* With a pace the slots are its multiples, and no worker sleeps for longer than it.
OnSchedule ==
  /\ pc \in {"round", "ask", "sleep", "call"} /\ Pace # 0 =>
       /\ issued # 0 => slot = (issued - 1) * Pace
       /\ issued = 0 => slot = 0
  /\ pc = "sleep" /\ Pace # 0 => issued # 0 /\ slot <= now + Pace
  /\ Pace = 0 => /\ pc = "sleep" => slot = now
                 /\ pc = "call" => slot = sent

\* The inductive invariant.
IInv ==
  /\ TypeOK /\ InScenario /\ Counted /\ InTime /\ OnSchedule
  /\ LoadIsOffered /\ LitterIsExplained

=============================================================================
