---------------------------- MODULE ControlPlane ----------------------------
(***************************************************************************)
(* The control plane assessor: one operation on one kind of object, first  *)
(* attempted by tenant 1 on its own (autonomy.rs), then by tenant 2 on an  *)
(* object of tenant 1 (isolation.rs), and what assessment/mod.rs records.  *)
(*                                                                         *)
(* Every request may be answered in each way the code tells apart, and     *)
(* the platform goes on meanwhile: it drops objects it had admitted, takes *)
(* its time over a deletion, makes a claim for a stateful set and updates  *)
(* the nodes.                                                              *)
(***************************************************************************)
EXTENDS Naturals, FiniteSets

CONSTANT PollAttempts   \* max_attempts of get_existing_node

ASSUME PollAssumption == PollAttempts \in Nat

VARIABLES
  kind, op,   \* what is assessed
  shared,     \* the truth: whether both tenants talk to one API server
  phase,      \* authorize: tenant 1 on its own; cross: tenant 2 on an object of tenant 1
  pc,         \* where the probe is
  target,     \* the test object, one that was found though its creation failed, or a real one
  object,     \* the test object: its status, its creator and the value of its label
  copy,       \* tenant 2 made an object of that name in a scope of its own
  claim,      \* the claim a stateful set is given
  real,       \* the real object
  marks,      \* the labels the probes left on it
  saved,      \* original_labels
  trigger,    \* the pod that has a virtual cluster show its nodes
  polls,      \* how often the nodes were listed for it
  moved,      \* a node changed between the two reads that are compared
  outcome,    \* what tenant 1's own probe answers
  result,     \* the isolation and autonomy that are recorded
  took,       \* history: the request of tenant 2 had its effect on tenant 1's object
  ok,         \* history: it was answered without an error
  blind,      \* history: a read the verdict rests on failed
  denied,     \* history: a request of this phase was refused
  woes,       \* history: what went wrong with creating and deleting
  litter      \* what the phases left behind

scene == <<kind, op, shared>>
vars == <<scene, phase, pc, target, object, copy, claim, real, marks, saved, trigger, polls,
          moved, outcome, result, took, ok, blind, denied, woes, litter>>

\* A pod, whose deletion takes its grace period; a stateful set, which is given a claim; a
\* node, which the fallbacks are for; and any other kind.
Kinds == {"Pod", "StatefulSet", "Node", "ConfigMap"}
Operations == {"Create", "Get", "List", "Update", "Delete"}

RequiresExisting(k) == k = "Node"
HasClaim(k) == k = "StatefulSet"
Graceful(k) == k = "Pod"

Status == {"absent", "present", "terminating"}
Level == {"None", "Unknown", "Soft", "Hard"}
Authorization == {"allowed", "forbidden", "ineffective", "undetermined"}
Finding == [autonomy : BOOLEAN, isolation : Level \union {"pending"}]
Pending == [autonomy |-> FALSE, isolation |-> "pending"]
Nothing == [is |-> "absent", owner |-> "tenant1", label |-> "tenant1"]

Labels == {"setup", "list", "existing", "trigger", "poll", "untrigger", "snapshot",
           "review", "exists", "attempt", "verify", "revert", "cleanup", "claim",
           "conclude", "over", "aborted"}

\* Every variable keeps its type; a claim is due or made only for a stateful set.
TypeOK ==
  /\ kind \in Kinds /\ op \in Operations /\ shared \in BOOLEAN
  /\ phase \in {"authorize", "cross"}
  /\ pc \in Labels
  /\ target \in {"test", "found", "real"}
  /\ object \in [is : Status, owner : {"tenant1", "tenant2"}, label : {"tenant1", "tenant2"}]
  /\ copy \in BOOLEAN
  /\ claim \in {"none", "due", "made"} /\ (claim # "none" => HasClaim(kind))
  /\ real \in {"none", "hidden", "present", "gone"}
  /\ marks \subseteq {"autonomy", "intruder"}
  /\ saved \in {"unread", "none", "some"}
  /\ trigger \in Status
  /\ polls \in 0 .. PollAttempts
  /\ moved \in BOOLEAN
  /\ outcome \in Authorization \union {"pending"}
  /\ result \in Finding
  /\ took \in BOOLEAN /\ ok \in BOOLEAN /\ blind \in BOOLEAN /\ denied \in BOOLEAN
  /\ woes \subseteq {"unmade", "lost", "undeleted", "late", "discarded", "stained", "unreverted"}
  /\ litter \subseteq {"object", "copy", "claim", "trigger"}

\* Where a phase begins: with an object of its own, except for what cannot be created.
Start(p) ==
  IF p = "authorize" /\ op = "List" THEN "attempt"
  ELSE IF RequiresExisting(kind)
          /\ (IF p = "authorize" THEN op \in {"Get", "Update"} ELSE op \in {"Get", "List"})
         THEN "existing"
  ELSE "setup"

Init ==
  /\ kind \in Kinds /\ op \in Operations
  /\ shared \in BOOLEAN
  /\ phase = "authorize" /\ pc = Start("authorize")
  /\ target = "test"
  /\ object = Nothing /\ copy = FALSE /\ claim = "none"
  /\ real \in IF RequiresExisting(kind) THEN {"present", "hidden"} ELSE {"present", "none"}
  \* An earlier assessment may have left its label on a node.
  /\ marks \in IF RequiresExisting(kind) THEN {{}, {"intruder"}} ELSE {{}}
  /\ saved = "unread" /\ trigger = "absent" /\ polls = 0 /\ moved = FALSE
  /\ outcome = "pending" /\ result = Pending
  /\ took = FALSE /\ ok = FALSE /\ blind = FALSE /\ denied = FALSE
  /\ woes = IF marks = {} THEN {} ELSE {"stained"}
  /\ litter = {}

-----------------------------------------------------------------------------
(***************************************************************************)
(* Requests.  The answers the code tells apart: done; accepted without     *)
(* effect, or, of a read, an empty object; refused; not found; the name is *)
(* taken; any other error, the effect of which may yet have come about.    *)
(***************************************************************************)
Accepted == {"done", "inert"}
Errors == {"refused", "missing", "error"}
Effective == {"done", "lost"}

\* infer_isolation_from_error.
InferIsolation(answer) == IF answer = "missing" THEN "Hard" ELSE "Soft"

There == IF target = "real" THEN real = "present" ELSE object.is # "absent"

\* Tenant 2 finds the objects of tenant 1 where the two share an API server.
Reaches(tenant) == There /\ (tenant = "tenant1" \/ shared)

Reads(tenant) == {"inert"} \union Errors \union (IF Reaches(tenant) THEN {"done"} ELSE {})
Writes(tenant) == {"inert"} \union Errors \union (IF Reaches(tenant) THEN Effective ELSE {})
Creates(tenant) ==
  Accepted \union {"refused", "error", "lost"}
  \union (IF Reaches(tenant) THEN {"taken"} ELSE {})

\* A deletion that was begun may be over, or under way for a grace period.
Deleted(o) ==
  IF o.is = "absent" THEN {o}
  ELSE {[o EXCEPT !.is = s] :
          s \in {"absent"} \union (IF Graceful(kind) THEN {"terminating"} ELSE {})}

\* What the first object of a list can be.
Items ==
  (IF real = "present" THEN {"real"} ELSE {})
  \union (IF object.is = "present" THEN {"found"} ELSE {})

Goto(l) == pc' = l
Answer(authorization) == outcome' = authorization /\ UNCHANGED result
Verdict(autonomy, isolation) ==
  result' = [autonomy |-> autonomy, isolation |-> isolation] /\ UNCHANGED outcome
Undecided == UNCHANGED <<outcome, result>>
Woe(w, happened) == woes' = IF happened THEN woes \union {w} ELSE woes
Denial(answer) == denied' = (denied \/ answer = "refused")

\* After a deletion of the object itself: the claim of a stateful set.
AfterDelete == IF HasClaim(kind) THEN "claim" ELSE "conclude"
\* Mutant of AfterVerdict: the object tenant 2 was let at is left where it is.
LeftThere == IF target = "test" /\ phase = "authorize" THEN "cleanup" ELSE "conclude"
\* Only an object the probe made is deleted.
AfterVerdict == IF target = "test" THEN "cleanup" ELSE "conclude"

-----------------------------------------------------------------------------
(***************************************************************************)
(* What the platform does on its own.                                      *)
(***************************************************************************)
Others == UNCHANGED <<scene, phase, pc, target, copy, marks, saved, polls, outcome, result,
                      took, ok, blind, denied, litter>>
Probing == pc \notin {"over", "aborted", "conclude"}

\* A syncer discards a node it had admitted.
Discard ==
  /\ Probing /\ kind = "Node" /\ object.is = "present"
  /\ object' = [object EXCEPT !.is = "absent"]
  /\ Woe("discarded", TRUE)
  /\ Others /\ UNCHANGED <<claim, real, trigger, moved>>

\* The grace period of a deleted pod is over.
Vanish ==
  /\ Probing /\ object.is = "terminating"
  /\ object' = [object EXCEPT !.is = "absent"]
  /\ Others /\ UNCHANGED <<claim, real, trigger, moved, woes>>

\* The controller of a stateful set makes its claim, even if the set has gone since.
MakeClaim ==
  /\ claim = "due"
  /\ claim' = "made"
  /\ Woe("late", pc = "conclude")
  /\ Others /\ UNCHANGED <<object, real, trigger, moved>>

ForgetClaim ==
  /\ claim = "due" /\ object.is = "absent"
  /\ claim' = "none"
  /\ Others /\ UNCHANGED <<object, real, trigger, moved, woes>>

\* A virtual cluster shows a node once a pod has been placed on it.
ShowNode ==
  /\ Probing /\ real = "hidden" /\ trigger = "present"
  /\ real' = "present"
  /\ Others /\ UNCHANGED <<object, claim, trigger, moved, woes>>

\* A node is updated, or joins, between the two reads that are compared.
MoveNode ==
  /\ \/ pc = "verify" /\ op = "Get"
     \/ pc = "attempt" /\ op = "List" /\ phase = "cross" /\ RequiresExisting(kind)
  /\ ~moved
  /\ moved' = TRUE
  /\ Others /\ UNCHANGED <<object, claim, real, trigger, woes>>

Platform == Discard \/ Vanish \/ MakeClaim \/ ForgetClaim \/ ShowNode \/ MoveNode

-----------------------------------------------------------------------------
(***************************************************************************)
(* The object to try the operation on.                                     *)
(***************************************************************************)
\* Without the object, what there is to say of the operation, or where to look for another.
WithoutObject(answer) ==
  \/ /\ phase = "authorize" /\ op \in {"Get", "Update"}
     /\ Undecided /\ Goto("list")
  \/ /\ phase = "authorize" /\ op \in {"Create", "Delete"}
     /\ Answer(IF op = "Create" \/ answer = "refused" THEN "forbidden" ELSE "undetermined")
     /\ Goto("conclude")
  \/ /\ phase = "cross" /\ RequiresExisting(kind) /\ op \in {"Update", "Delete"}
     /\ Undecided /\ Goto("existing")
  \/ /\ phase = "cross" /\ ~(RequiresExisting(kind) /\ op \in {"Update", "Delete"})
     /\ Verdict(FALSE, IF op = "Delete" THEN "Soft" ELSE "Unknown")
     /\ Goto("conclude")

WithObject ==
  IF phase = "authorize" /\ op = "Create"
    THEN Answer("allowed") /\ Goto("cleanup")
    ELSE /\ Undecided
         /\ Goto(IF phase = "authorize" /\ op = "Delete" THEN "exists" ELSE "attempt")

SetUp ==
  /\ pc = "setup"
  /\ \E answer \in Creates("tenant1") :
       /\ object' = IF answer \in Effective THEN [Nothing EXCEPT !.is = "present"] ELSE object
       /\ claim' = IF answer \in Effective /\ HasClaim(kind) THEN "due" ELSE claim
       /\ Denial(answer)
       /\ IF answer \in Accepted
            THEN WithObject /\ Woe("discarded", answer = "inert")
            ELSE /\ WithoutObject(answer)
                 /\ woes' = woes \union {"unmade"} \union ({answer} \intersect {"lost"})
  /\ UNCHANGED <<scene, phase, target, copy, real, marks, saved, trigger, polls, moved,
                 took, ok, blind, litter>>

Searching == UNCHANGED <<scene, phase, object, copy, claim, real, marks, moved, took,
                         ok, blind, litter>>

\* Failing that, tenant 1 takes the first object a list shows it.
ListFirst ==
  /\ pc = "list"
  /\ \/ \E item \in Items : target' = item /\ Goto("attempt") /\ Undecided /\ UNCHANGED denied
     \/ \E answer \in {"inert"} \union Errors :
          /\ Denial(answer)
          /\ IF op = "Get" THEN Goto("attempt") /\ Undecided
             ELSE Answer("forbidden") /\ Goto("conclude")
          /\ UNCHANGED target
  /\ Searching /\ UNCHANGED <<saved, trigger, polls, woes>>

\* A node to try the operation on, and what is said if none can be had.
Found ==
  /\ Undecided
  /\ Goto(IF phase = "authorize" \/ op = "Get" THEN "attempt"
          ELSE IF op = "Delete" THEN "review" ELSE "snapshot")

NotFound ==
  IF phase = "authorize" THEN Answer("forbidden") /\ Goto("conclude")
  ELSE IF op = "List" THEN Undecided /\ Goto("snapshot")
  ELSE Verdict(FALSE, "Unknown") /\ Goto("conclude")

FindNode ==
  /\ pc = "existing"
  /\ \/ \E item \in Items : target' = item /\ Found
     \/ Goto("trigger") /\ Undecided /\ UNCHANGED target
  /\ Searching /\ UNCHANGED <<saved, trigger, polls, denied, woes>>

\* A virtual cluster shows no node before it runs a pod.
CreateTrigger ==
  /\ pc = "trigger"
  /\ \E answer \in Creates("tenant1") \ {"taken"} :
       /\ trigger' = IF answer \in Effective THEN "present" ELSE trigger
       /\ Woe("lost", answer = "lost")
       /\ Denial(answer)
       /\ IF answer \in Accepted THEN Goto("poll") /\ Undecided ELSE NotFound
  /\ Searching /\ UNCHANGED <<target, saved, polls>>

\* Mutant of PollNodes: one list too many.
PollOnceMore ==
  /\ pc = "poll"
  /\ \/ /\ polls <= PollAttempts
        /\ \/ \E item \in Items : target' = item /\ Goto("untrigger") /\ UNCHANGED polls
           \/ polls' = polls + 1 /\ UNCHANGED <<target, pc>>
     \/ polls > PollAttempts /\ Goto("untrigger") /\ UNCHANGED <<target, polls>>
  /\ Searching /\ Undecided /\ UNCHANGED <<saved, trigger, denied, woes>>
PollNodes ==
  /\ pc = "poll"
  /\ \/ /\ polls < PollAttempts
        /\ \/ \E item \in Items : target' = item /\ Goto("untrigger") /\ UNCHANGED polls
           \/ polls' = polls + 1 /\ UNCHANGED <<target, pc>>
     \/ polls = PollAttempts /\ Goto("untrigger") /\ UNCHANGED <<target, polls>>
  /\ Searching /\ Undecided /\ UNCHANGED <<saved, trigger, denied, woes>>

DeleteTrigger ==
  /\ pc = "untrigger"
  /\ \E gone \in BOOLEAN :
       /\ trigger' = IF gone THEN "absent" ELSE trigger
       /\ Woe("undeleted", ~gone)
  /\ IF target = "test" THEN NotFound ELSE Found
  /\ Searching /\ UNCHANGED <<target, saved, polls, denied>>

-----------------------------------------------------------------------------
(***************************************************************************)
(* Tenant 1 on its own.                                                    *)
(***************************************************************************)
Allow(answer, yes) == Answer(IF answer \in yes THEN "allowed" ELSE "forbidden")
Alone == UNCHANGED <<scene, phase, target, copy, claim, real, saved, trigger, polls, moved, took, ok, litter>>

\* An object without the name that was asked for is no answer to GET.
TryGet ==
  /\ pc = "attempt" /\ phase = "authorize" /\ op = "Get"
  /\ \E answer \in Reads("tenant1") : Allow(answer, {"done"}) /\ Denial(answer)
  /\ Goto(AfterVerdict)
  /\ Alone /\ UNCHANGED <<object, marks, blind, woes>>

TryList ==
  /\ pc = "attempt" /\ phase = "authorize" /\ op = "List"
  /\ \E answer \in Accepted \union Errors : Allow(answer, Accepted) /\ Denial(answer)
  /\ Goto("conclude")
  /\ Alone /\ UNCHANGED <<object, marks, blind, woes>>

TryUpdate ==
  /\ pc = "attempt" /\ phase = "authorize" /\ op = "Update"
  /\ \E answer \in Writes("tenant1") :
       /\ marks' = IF target = "real" /\ answer \in Effective THEN marks \union {"autonomy"} ELSE marks
       /\ Allow(answer, Accepted) /\ Denial(answer)
       /\ Woe("unreverted", target = "real" /\ answer = "lost")
       /\ Goto(IF target # "test" /\ answer \in Accepted THEN "revert" ELSE AfterVerdict)
  /\ Alone /\ UNCHANGED <<object, blind>>

\* Whether the object that was admitted is there: dyn_object_exists has no third answer.
FindVictim ==
  /\ pc = "exists"
  /\ \E answer \in Reads("tenant1") :
       IF answer \in Accepted
         THEN Goto("attempt") /\ Undecided /\ UNCHANGED blind
         ELSE Answer("ineffective") /\ blind' = There /\ Goto(AfterDelete)
  /\ Alone /\ UNCHANGED <<object, marks, denied, woes>>

\* Mutant of TryDelete: as the other four do, whatever fails is forbidden.
TryDeleteBool ==
  /\ pc = "attempt" /\ phase = "authorize" /\ op = "Delete"
  /\ \E answer \in Writes("tenant1") :
       /\ object' \in IF answer \in Effective THEN Deleted(object) ELSE {object}
       /\ Woe("undeleted", There /\ answer \notin Effective)
       /\ Denial(answer)
       /\ Allow(answer, Accepted)
  /\ Goto(AfterDelete)
  /\ Alone /\ UNCHANGED <<marks, blind>>
TryDelete ==
  /\ pc = "attempt" /\ phase = "authorize" /\ op = "Delete"
  /\ \E answer \in Writes("tenant1") :
       /\ object' \in IF answer \in Effective THEN Deleted(object) ELSE {object}
       /\ Woe("undeleted", There /\ answer \notin Effective)
       /\ Denial(answer)
       /\ Answer(IF answer \in Accepted THEN "allowed"
                 ELSE IF answer = "refused" THEN "forbidden" ELSE "undetermined")
  /\ Goto(AfterDelete)
  /\ Alone /\ UNCHANGED <<marks, blind>>

-----------------------------------------------------------------------------
(***************************************************************************)
(* Tenant 2 on the object of tenant 1.                                     *)
(***************************************************************************)
Intruding == UNCHANGED <<scene, phase, target, claim, trigger, polls, moved, denied,
                         litter>>

\* What tenant 2's request came to.
Intrude(answer, effective) == took' = effective /\ ok' = (answer \in Accepted)

IntrudeCreate ==
  /\ pc = "attempt" /\ phase = "cross" /\ op = "Create"
  /\ \E answer \in Creates("tenant2") :
       /\ Intrude(answer, shared /\ answer \in Effective)
       /\ object' = IF took' THEN [object EXCEPT !.is = "present", !.owner = "tenant2"] ELSE object
       /\ copy' = (~shared /\ answer \in Effective)
       /\ IF answer \in Accepted THEN Goto("verify") /\ Undecided
          ELSE Verdict(TRUE, InferIsolation(answer)) /\ Goto("cleanup")
  /\ Intruding /\ UNCHANGED <<real, marks, saved, blind, woes>>

\* The test object is seen or not.
IntrudeRead ==
  /\ pc = "attempt" /\ phase = "cross" /\ target = "test"
  /\ \E answer \in Reads("tenant2") :
       /\ Intrude(answer, answer = "done")
       /\ Verdict(TRUE, IF answer = "done" THEN "None"
                        ELSE IF answer = "inert" THEN "Hard" ELSE InferIsolation(answer))
  /\ Goto("cleanup")
  /\ Intruding /\ UNCHANGED <<object, copy, real, marks, saved, blind, woes>>

IntrudeGet == op = "Get" /\ IntrudeRead
\* Of a kind that can be created.
IntrudeList == op = "List" /\ ~RequiresExisting(kind) /\ IntrudeRead

\* GET of a node: in a scope of its own tenant 2 has another node of that name.
IntrudeGetNode ==
  /\ pc = "attempt" /\ phase = "cross" /\ op = "Get" /\ target # "test"
  /\ \E answer \in Reads("tenant2") \union (IF shared THEN {} ELSE {"own"}) :
       /\ took' = (answer = "done") /\ ok' = (answer \in Accepted \union {"own"})
       /\ IF answer \in {"done", "own"} THEN Goto("verify") /\ Undecided
          ELSE /\ Verdict(TRUE, IF answer = "inert" THEN "Hard" ELSE InferIsolation(answer))
               /\ Goto("conclude")
  /\ Intruding /\ UNCHANGED <<object, copy, real, marks, saved, blind, woes>>

\* LIST of the nodes by both, tenant 1 first; saved is whether it saw any.
ListNodes ==
  /\ pc = "snapshot" /\ op = "List"
  /\ saved' \in {"unread", "none"} \union (IF Items = {} THEN {} ELSE {"some"})
  /\ Goto("attempt")
  /\ Intruding /\ UNCHANGED <<object, copy, real, marks, took, ok, blind, woes>> /\ Undecided

IntrudeListNodes ==
  /\ pc = "attempt" /\ phase = "cross" /\ op = "List" /\ RequiresExisting(kind)
  /\ \E answer \in Accepted \union Errors :
       /\ shared /\ Items = {} => answer # "done"
       /\ Intrude(answer, shared /\ answer = "done" /\ saved = "some")
       /\ IF saved = "unread" THEN Verdict(FALSE, "Unknown")
          ELSE IF answer = "inert" /\ saved = "none" THEN Verdict(TRUE, "Unknown")
          ELSE Verdict(TRUE, IF took' /\ ~moved THEN "None" ELSE "Hard")
  /\ Goto("conclude")
  /\ Intruding /\ UNCHANGED <<object, copy, real, marks, saved, blind, woes>>

\* The labels of a node before tenant 2 is let at it.
SaveLabels ==
  /\ pc = "snapshot" /\ op = "Update"
  /\ \E answer \in Reads("tenant1") :
       saved' = IF answer = "done" THEN "some" ELSE IF answer = "inert" THEN "none" ELSE "unread"
  /\ Goto("attempt")
  /\ Intruding /\ UNCHANGED <<object, copy, real, marks, took, ok, blind, woes>> /\ Undecided

IntrudeUpdate ==
  /\ pc = "attempt" /\ phase = "cross" /\ op = "Update"
  /\ \E answer \in Writes("tenant2") :
       /\ Intrude(answer, answer \in Effective)
       /\ marks' = IF took' /\ target = "real" THEN marks \union {"intruder"} ELSE marks
       /\ object' = IF took' /\ target # "real" THEN [object EXCEPT !.label = "tenant2"] ELSE object
       /\ IF answer \in Accepted THEN Goto("verify") /\ Undecided
          ELSE Verdict(TRUE, InferIsolation(answer)) /\ Goto(AfterVerdict)
  /\ Intruding /\ UNCHANGED <<copy, real, saved, blind, woes>>

\* Whether tenant 2 may delete a node is asked before it deletes one.
ReviewDelete ==
  /\ pc = "review"
  /\ \/ Goto("attempt") /\ Undecided
     \/ Verdict(FALSE, "Soft") /\ Goto("conclude")
  /\ Intruding /\ UNCHANGED <<object, copy, real, marks, saved, took, ok, blind, woes>>

IntrudeDelete ==
  /\ pc = "attempt" /\ phase = "cross" /\ op = "Delete"
  /\ \E answer \in Writes("tenant2") :
       /\ Intrude(answer, answer \in Effective)
       /\ object' \in IF took' /\ target # "real" THEN Deleted(object) ELSE {object}
       /\ real' = IF took' /\ target = "real" THEN "gone" ELSE real
       /\ IF answer \in Accepted THEN Goto("verify") /\ Undecided
          ELSE Verdict(TRUE, InferIsolation(answer)) /\ Goto(AfterVerdict)
  /\ Intruding /\ UNCHANGED <<copy, marks, saved, blind, woes>>

-----------------------------------------------------------------------------
(***************************************************************************)
(* Tenant 1 looks at what became of it, and cleans up.                     *)
(***************************************************************************)
\* Whether the answer hides what is there, or shows what is not.
Misleads(answer) == IF There THEN answer # "done" ELSE answer = "inert"
Looking == UNCHANGED <<scene, phase, target, object, copy, claim, real, marks, saved, trigger,
                       polls, moved, took, ok, denied, woes, litter>>

\* Mutant of VerifyCreate: whose object it is now is not looked at.
VerifyPresence ==
  /\ pc = "verify" /\ op = "Create"
  /\ \E answer \in Reads("tenant1") :
       /\ blind' = Misleads(answer)
       /\ Verdict(answer \notin Errors, "Hard")
  /\ Goto("cleanup")
  /\ Looking
VerifyCreate ==
  /\ pc = "verify" /\ op = "Create"
  /\ \E answer \in Reads("tenant1") :
       /\ blind' = Misleads(answer)
       /\ IF answer \in Errors THEN Verdict(FALSE, "Hard")
          ELSE Verdict(TRUE, IF answer = "done" /\ object.owner = "tenant2" THEN "None" ELSE "Hard")
  /\ Goto("cleanup")
  /\ Looking

\* Mutant of VerifyUpdate: the label is not looked at.
VerifyAccepted ==
  /\ pc = "verify" /\ op = "Update" /\ target = "test"
  /\ \E answer \in Reads("tenant1") :
       /\ blind' = Misleads(answer)
       /\ Verdict(TRUE, IF answer = "done" THEN "None" ELSE "Soft")
  /\ Goto("cleanup")
  /\ Looking
VerifyUpdate ==
  /\ pc = "verify" /\ op = "Update" /\ target = "test"
  /\ \E answer \in Reads("tenant1") :
       /\ blind' = Misleads(answer)
       /\ Verdict(TRUE, IF answer = "done" /\ object.label = "tenant2" THEN "None" ELSE "Soft")
  /\ Goto("cleanup")
  /\ Looking

Marked == IF target = "real" THEN "intruder" \in marks ELSE object.label = "tenant2"

VerifyUpdateNode ==
  /\ pc = "verify" /\ op = "Update" /\ target # "test"
  /\ \E answer \in Reads("tenant1") :
       /\ blind' = Misleads(answer)
       /\ IF answer = "done" /\ Marked
            THEN Verdict(TRUE, "None") /\ Goto("revert")
            ELSE Verdict(FALSE, "Hard") /\ Goto("conclude")
  /\ Looking

\* Two reads of the same node are compared; the second one's error ends the run.
VerifyGetNode ==
  /\ pc = "verify" /\ op = "Get"
  /\ \E answer \in Reads("tenant1") :
       /\ blind' = Misleads(answer)
       /\ IF answer \in Errors THEN Undecided /\ Goto("aborted")
          ELSE /\ Verdict(TRUE, IF answer = "done" /\ took /\ ~moved THEN "None" ELSE "Hard")
               /\ Goto("conclude")
  /\ Looking

\* dyn_object_exists: any error is an object that is gone.
VerifyDelete ==
  /\ pc = "verify" /\ op = "Delete"
  /\ \E answer \in Reads("tenant1") :
       /\ blind' = Misleads(answer)
       /\ IF answer \in Accepted
            THEN Verdict(TRUE, "Soft") /\ Goto(AfterVerdict)
            ELSE /\ Verdict(TRUE, "None")
                 /\ Goto(IF target = "test" THEN AfterDelete ELSE "conclude")
  /\ Looking

Removing == UNCHANGED <<scene, phase, target, copy, real, saved, trigger, polls, moved, outcome,
                        result, took, ok, blind, denied, litter>>

\* Mutant of Unmarked: the probe of tenant 1's own update does the same.
UnmarkedNever(set) == IF saved = "unread" /\ phase = "cross" THEN set \ {"intruder"} ELSE set

\* A merge patch sets labels: made of the labels there were, it cannot take one away.
Unmarked(set) == IF phase = "authorize" THEN set \ {"autonomy"}
                 ELSE IF saved = "some" THEN set ELSE set \ {"intruder"}
Revert ==
  /\ pc = "revert"
  /\ \E answer \in Writes("tenant1") :
       /\ marks' = IF target = "real" /\ answer \in Effective THEN Unmarked(marks) ELSE marks
       /\ Woe("unreverted", answer \notin Effective)
  /\ Goto("conclude")
  /\ Removing /\ UNCHANGED <<object, claim>>

\* cleanup_test_resource.  Its answers are not looked at.
CleanUp ==
  /\ pc = "cleanup"
  /\ \E answer \in Writes("tenant1") :
       /\ object' \in IF answer \in Effective THEN Deleted(object) ELSE {object}
       /\ Woe("undeleted", There /\ answer \notin Effective)
  /\ Goto(AfterDelete)
  /\ Removing /\ UNCHANGED <<claim, marks>>

DeleteClaim ==
  /\ pc = "claim"
  /\ \/ claim' = (IF claim = "made" THEN "none" ELSE claim) /\ UNCHANGED woes
     \/ claim = "made" /\ Woe("undeleted", TRUE) /\ UNCHANGED claim
  /\ Goto("conclude")
  /\ Removing /\ UNCHANGED <<object, marks>>

\* What evaluate makes of an answer of tenant 1's own probe.
Recorded(authorization) ==
  [autonomy |-> authorization = "undetermined",
   isolation |-> IF authorization = "forbidden" THEN "Soft"
                 ELSE IF authorization = "ineffective" THEN "Hard" ELSE "Unknown"]

Left ==
  (IF object.is = "present" THEN {"object"} ELSE {})
  \union (IF copy THEN {"copy"} ELSE {})
  \union (IF claim = "made" THEN {"claim"} ELSE {})
  \union (IF trigger = "present" THEN {"trigger"} ELSE {})

\* Only what tenant 1 may do is tried across tenants, on another object.
Conclude ==
  /\ pc = "conclude" /\ claim # "due"
  /\ litter' = litter \union Left
  /\ IF outcome = "allowed"
       THEN /\ phase' = "cross" /\ Goto(Start("cross"))
            /\ target' = "test" /\ object' = Nothing /\ claim' = "none" /\ trigger' = "absent"
            /\ polls' = 0 /\ outcome' = "pending" /\ denied' = FALSE
            /\ woes' = woes \ {"unmade", "discarded"}
            /\ UNCHANGED <<result, copy>>
       ELSE /\ result' = IF phase = "authorize" THEN Recorded(outcome) ELSE result
            /\ Goto("over")
            /\ UNCHANGED <<phase, target, object, claim, trigger, polls, outcome, denied, woes, copy>>
  /\ UNCHANGED <<scene, real, marks, saved, moved, took, ok, blind>>

-----------------------------------------------------------------------------
Autonomy == TryGet \/ TryList \/ TryUpdate \/ FindVictim \/ TryDelete
Objects == SetUp \/ ListFirst \/ FindNode \/ CreateTrigger \/ PollNodes \/ DeleteTrigger
Intrusion == \/ IntrudeCreate \/ IntrudeGet \/ IntrudeList \/ IntrudeGetNode \/ ListNodes
             \/ IntrudeListNodes \/ SaveLabels \/ IntrudeUpdate \/ ReviewDelete \/ IntrudeDelete
Verification == VerifyCreate \/ VerifyUpdate \/ VerifyUpdateNode \/ VerifyGetNode \/ VerifyDelete
Probe == \/ Objects \/ Autonomy \/ Intrusion \/ Verification
         \/ Revert \/ CleanUp \/ DeleteClaim \/ Conclude

Over == pc \in {"over", "aborted"}
Ended == Over /\ UNCHANGED vars

Next == Probe \/ Platform \/ Ended

\* Every request is answered in the end, and a controller acts on a stateful set it was shown.
Spec == Init /\ [][Next]_vars /\ WF_vars(Probe) /\ WF_vars(MakeClaim)

-----------------------------------------------------------------------------
(***************************************************************************)
(* Properties.                                                             *)
(***************************************************************************)
Judged == pc = "over" /\ phase = "cross"

(***************************************************************************)
(* A breach is reported only if tenant 2's request did have its effect,    *)
(* except where the code cannot know: the verification of a DELETE failed, *)
(* or the platform had dropped the object itself; the label an earlier run *)
(* had left on a node was taken for the one that was just refused.         *)
(***************************************************************************)
BreachIsReal ==
  Judged /\ result.isolation = "None" =>
    \/ took
    \/ op = "Delete" /\ (blind \/ "discarded" \in woes)
    \/ op = "Update" /\ "stained" \in woes

(***************************************************************************)
(* And a breach that tenant 2 was told had succeeded is reported as one,   *)
(* unless tenant 1 could not look, the node changed between the two looks, *)
(* the platform dropped the object, or it is still being deleted.          *)
(***************************************************************************)
BreachIsSeen ==
  Judged /\ took /\ ok =>
    \/ result.isolation = "None"
    \/ blind \/ moved \/ "discarded" \in woes
    \/ op = "Delete" /\ Graceful(kind)

(***************************************************************************)
(* DELETE answers for itself: forbidden if a request was refused, not      *)
(* determined if it failed otherwise, and ineffective if the object never  *)
(* appeared, unless its existence could not be read.                       *)
(***************************************************************************)
DeleteAnswersForItself ==
  pc = "over" /\ phase = "authorize" /\ op = "Delete" =>
    /\ outcome = "forbidden" => denied
    /\ outcome = "undetermined" => ~denied
    /\ outcome = "ineffective" => "object" \notin litter \/ blind

(***************************************************************************)
(* What a probe does to the real objects of the cluster: it deletes a node *)
(* only where none could be made to be deleted, and then tenant 2 did, and *)
(* nothing else; and a label that it put on an object is there afterwards  *)
(* only if the revert failed, or it was tenant 2's: then also if the       *)
(* revert was made of the original labels, or the look at it failed, or    *)
(* the patch was answered with an error.                                   *)
(***************************************************************************)
RealObjectsAreExplained ==
  /\ real = "gone" =>
       RequiresExisting(kind) /\ op = "Delete" /\ phase = "cross" /\ "unmade" \in woes
  /\ Over =>
       /\ "autonomy" \in marks => "unreverted" \in woes
       /\ "intruder" \in marks =>
            \/ {"stained", "unreverted"} \intersect woes # {}
            \/ took /\ (saved = "some" \/ blind \/ ~ok)

(***************************************************************************)
(* What a probe leaves behind: an object whose creation was answered with  *)
(* an error or whose deletion failed, or that it took to be gone; the      *)
(* object tenant 2 made in a scope of its own, which nothing deletes; a    *)
(* claim made after it was to be deleted.                                  *)
(***************************************************************************)
LitterIsExplained ==
  Over =>
    /\ "object" \in litter => {"lost", "undeleted"} \intersect woes # {} \/ blind
    /\ "copy" \in litter => op = "Create" /\ ~shared
    /\ "claim" \in litter => {"lost", "undeleted", "late"} \intersect woes # {}
    /\ "trigger" \in litter => {"lost", "undeleted"} \intersect woes # {}

-----------------------------------------------------------------------------
(***************************************************************************)
(* Why the properties hold: the inductive invariant, part by part.         *)
(***************************************************************************)
\* Where tenant 2 has not asked for anything yet, and where nothing has been concluded.
Fresh == {"setup", "list", "existing", "trigger", "poll", "untrigger", "snapshot", "review",
          "exists", "attempt"}
Open == Fresh \union {"verify"}

\* The kind, the operation, the phase and the target that each label is reached with.
Paths ==
  /\ pc \in {"setup", "list", "exists", "existing", "trigger", "poll", "cleanup"} =>
       target = "test"
  /\ pc = "setup" =>
       /\ object.is = "absent" /\ claim = "none"
       /\ phase = "authorize" => op # "List" /\ (RequiresExisting(kind) => op \notin {"Get", "Update"})
       /\ phase = "cross" => (RequiresExisting(kind) => op \notin {"Get", "List"})
  /\ pc = "list" => phase = "authorize" /\ op \in {"Get", "Update"}
  /\ pc \in {"existing", "trigger", "poll", "untrigger"} =>
       RequiresExisting(kind) /\ op # "Create" /\ (phase = "authorize" => op \in {"Get", "Update"})
  /\ pc = "snapshot" => phase = "cross" /\ op \in {"List", "Update"} /\ RequiresExisting(kind)
  /\ pc = "snapshot" /\ op = "Update" => target # "test"
  /\ pc = "review" => phase = "cross" /\ op = "Delete" /\ target # "test"
  /\ pc = "exists" => phase = "authorize" /\ op = "Delete"
  /\ pc = "verify" => phase = "cross" /\ op # "List" /\ (op = "Get" => target # "test")
  /\ pc = "revert" => target # "test"
  /\ pc = "claim" => HasClaim(kind)
  /\ target # "test" => op # "Create" /\ (phase = "authorize" => op \in {"Get", "Update"})
  /\ target # "test" /\ phase = "cross" => RequiresExisting(kind)

\* What has been said so far, and what is known of it.
Said ==
  /\ phase = "authorize" =>
       /\ ~took /\ ~ok
       /\ pc # "over" => result = Pending /\ litter = {}
       /\ pc \in Fresh => outcome = "pending"
       /\ blind => outcome = "ineffective"
       /\ op = "Delete" => (denied <=> outcome = "forbidden")
       /\ op = "Delete" /\ outcome = "ineffective" =>
            blind \/ (object.is = "absent" /\ "object" \notin litter)
  /\ phase = "cross" =>
       /\ outcome = "pending"
       /\ result.isolation = "pending" <=> pc \in Open \union {"aborted"}
       /\ pc \in Fresh => ~took
       /\ pc \in Open => ~blind

\* The object tenant 2 acts on is there until tenant 2 or the platform takes it away.
Victim ==
  /\ object.is = "terminating" =>
       /\ Graceful(kind)
       /\ pc \in {"claim", "conclude", "over"} \/ (phase = "cross" /\ op = "Delete" /\ took)
  /\ object.owner = "tenant2" \/ object.label = "tenant2" => took
  /\ target = "real" => real \in {"present", "gone"}
  /\ real = "gone" => took
  /\ phase = "cross" /\ op = "Delete" /\ (pc \in {"attempt", "verify"} \/ target # "test") =>
       There \/ took \/ "discarded" \in woes
  /\ pc = "verify" /\ took =>
       /\ op = "Create" => object.owner = "tenant2" /\ (There \/ "discarded" \in woes)
       /\ op = "Update" => Marked /\ (There \/ "discarded" \in woes)
       /\ op = "Delete" => ~There \/ Graceful(kind)

\* The two sides of a breach, from the moment something is concluded.
Breached ==
  /\ phase = "cross" /\ result.isolation = "None" =>
       \/ took
       \/ op = "Delete" /\ (blind \/ "discarded" \in woes)
       \/ op = "Update" /\ "stained" \in woes
  /\ phase = "cross" /\ pc \notin Open \union {"aborted"} /\ took /\ ok =>
       \/ result.isolation = "None"
       \/ blind \/ moved \/ "discarded" \in woes
       \/ op = "Delete" /\ Graceful(kind)

\* The real objects, and the labels on them.
Unmade ==
  /\ op = "Delete" /\ (pc \in {"existing", "trigger", "poll", "untrigger"} \/ target # "test") =>
       "unmade" \in woes
  /\ real = "gone" =>
       RequiresExisting(kind) /\ op = "Delete" /\ phase = "cross" /\ "unmade" \in woes
LabelsLeft ==
  /\ "autonomy" \in marks =>
       "unreverted" \in woes \/ (phase = "authorize" /\ pc = "revert" /\ target = "real")
  /\ "intruder" \in marks => took \/ "stained" \in woes
  /\ "intruder" \in marks =>
       \/ {"stained", "unreverted"} \intersect woes # {}
       \/ /\ phase = "cross" /\ op = "Update" /\ target = "real" /\ took
          /\ saved = "some" \/ blind \/ ~ok \/ pc \in {"verify", "revert"}

\* What a phase that stopped here would leave behind, and what the phases have left.
Kept ==
  /\ target = "test"
  /\ \/ pc \in {"exists", "verify", "cleanup"}
     \/ pc = "attempt" /\ (op = "List" => phase = "cross" /\ ~RequiresExisting(kind))
LeftSoFar ==
  /\ object.is = "present" => Kept \/ {"lost", "undeleted"} \intersect woes # {} \/ blind
  /\ copy => op = "Create" /\ ~shared
  /\ claim = "made" \/ (claim = "due" /\ pc # "conclude") =>
       Kept \/ pc = "claim" \/ {"lost", "undeleted", "late"} \intersect woes # {}
  /\ trigger # "absent" => pc \in {"poll", "untrigger"} \/ {"lost", "undeleted"} \intersect woes # {}
  /\ "object" \in litter => {"lost", "undeleted"} \intersect woes # {} \/ blind
  /\ "copy" \in litter => op = "Create" /\ ~shared
  /\ "claim" \in litter => {"lost", "undeleted", "late"} \intersect woes # {}
  /\ "trigger" \in litter => {"lost", "undeleted"} \intersect woes # {}

IInv ==
  /\ TypeOK /\ Paths /\ Said /\ Victim /\ Breached /\ Unmade /\ LabelsLeft /\ LeftSoFar

=============================================================================
