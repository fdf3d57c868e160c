---------------------------- MODULE StorageVolumes ----------------------------
(***************************************************************************)
(* The three operations of src/src/assessment/storage/mod.rs that go       *)
(* through a PersistentVolume, in the order of a run: a volume as it comes *)
(* ("plain"), one with the Retain policy ("retain") and a hostPath behind  *)
(* a volume ("hostpath").  Each asks first whether tenant 1 may, which     *)
(* leaves objects behind, and then has tenant 1 write a marker and tenant  *)
(* 2 read it.  All of them use one StatefulSet name, one claim name and a  *)
(* handful of volume names, delete without waiting, and drop the errors of *)
(* their deletes; the controllers of the cluster do their part whenever    *)
(* they get round to it.                                                   *)
(***************************************************************************)
EXTENDS Naturals, Sequences

CONSTANTS
  Plans,      \* the operations of a run, in order, as far as they are followed
  Nodes,      \* the nodes a pod may land on
  MaxMishaps  \* how many requests may fail, in the first operation

Tests == {"plain", "retain", "hostpath"}

\* A run tries each operation once.
ASSUME PlansAssumption ==
  \A p \in Plans : p \in Seq(Tests) /\ Len(p) \in 1 .. 2 /\ (Len(p) = 2 => p[1] # p[2])
ASSUME MishapsAssumption == MaxMishaps \in Nat

VARIABLES
  plan,      \* the operations of the run that are followed
  stage,     \* which of them it is at
  pc,        \* where it is
  set,       \* a tenant's StatefulSet "persistent-pod"
  claim,     \* the claim its template generates
  pod,       \* its pod
  volumes,   \* the PersistentVolumes there are
  doomed,    \* those that are to go once no claim is bound to them
  holder,    \* the claim a volume is reserved for
  files,     \* the places where tenant 1's marker is
  refusal,   \* whether the controller of a tenant's set was refused, in this operation or before
  own,       \* whether tenant 1 has a class of its own with the wanted policy
  measured,  \* the volume that is found behind tenant 1's claim
  error,     \* the text of the error at hand: "refused", or anything else
  errands,   \* the deletes still to be done
  result,    \* what the operation came to
  mishaps,   \* how many requests have failed
  owed,      \* the objects whose last delete failed
  earlier,   \* the volumes an earlier run left
  apart,     \* the truth: whether the tenants have volumes and disks of their own, or "open"
  wrote,     \* the truth: where tenant 1 wrote in this operation
  heard      \* the pod whose log was taken for the intruder's

vars == <<plan, stage, pc, set, claim, pod, volumes, doomed, holder, files, refusal, own,
          measured, error, errands, result, mishaps, owed, earlier, apart, wrote, heard>>

Tenants == {"tenant1", "tenant2"}
MaxStage == 2

Named(name) == [of |-> name, stage |-> 0]
NoVolume == Named("none")

\* Asked of a class, a volume is provisioned; asked by name, it has to be there.
FromClass == {Named("default"), Named("own")}
ByHand == {Named("retain"), Named("hp1"), Named("hp2")}
Volume == ByHand \union {Named("auth")} \union [of : {"default", "own"}, stage : 1 .. MaxStage]
Asks == Volume \union FromClass \union {Named("none"), Named("wrong")}

NoSet == [job |-> "none", stage |-> 0, asks |-> NoVolume, live |-> FALSE]
NoClaim == [asks |-> NoVolume, volume |-> NoVolume, going |-> FALSE]
NoPod == [job |-> "none", stage |-> 0, volume |-> NoVolume, node |-> "none",
          said |-> "nothing"]

Job == {"none", "idle", "write", "read"}
Node == Nodes \union {"none"}
Set == [job : Job, stage : 0 .. MaxStage, asks : Asks, live : BOOLEAN]
Claim == [asks : Asks, volume : Volume \union {NoVolume}, going : BOOLEAN]
Pod == [job : Job, stage : 0 .. MaxStage, volume : Volume \union {NoVolume}, node : Node,
        said : {"nothing", "wrote", "found", "missing", "early"}]
Place == [volume : Volume, node : Node]

SetOf(t) == [kind |-> "set", of |-> t, stage |-> 0]
ClaimOf(t) == [kind |-> "claim", of |-> t, stage |-> 0]
TheVolume(v) == [kind |-> "volume", of |-> v.of, stage |-> v.stage]
Object == {SetOf(t) : t \in Tenants} \union {ClaimOf(t) : t \in Tenants}
          \union {TheVolume(v) : v \in Volume}
VolumeOf(object) == [of |-> object.of, stage |-> object.stage]

Pending == [level |-> "pending"]
Why == {"unauthorized", "victim", "unready", "release", "partial", "create", "unseen",
        "refused", "unplanted", "silent", "found", "missing", "unmade", "barred"}
Result == [level : {"None", "Unknown", "Soft", "Hard"}, why : Why] \union {Pending}

Labels == {"authorize", "unauth", "auth_set", "auth_unset", "class", "hand", "write",
           "written", "info", "release_set", "release_claim", "release_volume", "look",
           "read", "mount", "logs", "hp_volume1", "confirm", "hp_volume2", "ready2",
           "unhand", "why1", "why2", "errands", "next", "over"}

\* Every variable keeps its type.
TypeOK ==
  /\ plan \in Plans /\ stage \in 1 .. MaxStage
  /\ pc \in Labels
  /\ set \in [Tenants -> Set] /\ claim \in [Tenants -> Claim] /\ pod \in [Tenants -> Pod]
  /\ doomed \subseteq volumes /\ volumes \subseteq Volume
  /\ holder \in [Volume -> Tenants \union {"none", "lost"}]
  /\ files \subseteq Place /\ wrote \subseteq Place
  /\ refusal \in [Tenants -> {"none", "before", "now"}]
  /\ own \in BOOLEAN /\ apart \in {"open", "yes", "no"}
  /\ measured \in Volume \union {NoVolume}
  /\ error \in {"none", "refused", "failed"}
  /\ errands \in Seq(Object)
  /\ result \in Result
  /\ mishaps \in 0 .. MaxMishaps
  /\ owed \subseteq Object /\ earlier \subseteq ByHand
  /\ heard \in Pod

\* An earlier run may have left the volumes it made by hand.
Init ==
  /\ plan \in Plans /\ stage = 1 /\ pc = "authorize"
  /\ set = [t \in Tenants |-> NoSet]
  /\ claim = [t \in Tenants |-> NoClaim]
  /\ pod = [t \in Tenants |-> NoPod]
  /\ earlier \in (IF Len(plan) = 1 THEN {{}, ByHand} ELSE {{}})
  /\ volumes = earlier /\ doomed = {}
  /\ holder = [v \in Volume |-> "none"]
  /\ files = {} /\ wrote = {}
  /\ refusal = [t \in Tenants |-> "none"]
  /\ own = FALSE /\ apart = "open"
  /\ measured = NoVolume
  /\ error = "none"
  /\ errands = << >>
  /\ result = Pending
  /\ mishaps = 0 /\ owed = {}
  /\ heard = NoPod

test == plan[stage]

objects == <<set, claim, volumes, doomed, holder>>
world == <<pod, files, refusal, wrote>>
local == <<own, measured, error, heard>>
faults == <<mishaps, owed>>

-----------------------------------------------------------------------------
(***************************************************************************)
(* The controllers, the scheduler and the pods.                            *)
(***************************************************************************)
Owned(t) == set[t].live /\ pod[t].job = set[t].job /\ pod[t].stage = set[t].stage

\* A claim of the template's name is made if there is none, also for a set that was
\* deleted a moment ago; one that names a class has a volume provisioned.
MakesClaim(t) ==
  /\ set[t] # NoSet /\ claim[t] = NoClaim
  /\ LET asks == set[t].asks  v == [asks EXCEPT !.stage = stage] IN
       IF asks \in FromClass
         THEN /\ v \notin volumes
              /\ claim' = [claim EXCEPT ![t] = [asks |-> asks, volume |-> v, going |-> FALSE]]
              /\ volumes' = volumes \union {v}
              /\ holder' = [holder EXCEPT ![v] = t]
         ELSE /\ claim' = [claim EXCEPT ![t] = [NoClaim EXCEPT !.asks = asks]]
              /\ UNCHANGED <<volumes, holder>>
  /\ set' = [set EXCEPT ![t] = IF set[t].live THEN @ ELSE NoSet]
  /\ UNCHANGED <<doomed, world>>

\* The controller sees that its set has gone, which matters if it was yet to make the claim.
Notices(t) ==
  /\ set[t] # NoSet /\ ~ set[t].live
  /\ set' = [set EXCEPT ![t] = NoSet]
  /\ UNCHANGED <<claim, volumes, doomed, holder, world>>

\* The claim or the pod is refused, which an event tells that outlives the set.
Refuses(t) ==
  /\ set[t].live /\ pod[t] = NoPod
  /\ refusal' = [refusal EXCEPT ![t] = "now"]
  /\ UNCHANGED <<objects, pod, files, wrote>>

\* A claim that names a volume is bound to it if it is free and in reach.
Binds(t) ==
  /\ claim[t].asks \in volumes \ doomed /\ claim[t].volume = NoVolume
  /\ LET v == claim[t].asks IN
       /\ holder[v] = "none"
       /\ IF t = "tenant1" \/ v = Named("hp2") THEN UNCHANGED apart
                                            ELSE apart # "yes" /\ apart' = "no"
       /\ holder' = [holder EXCEPT ![v] = t]
       /\ claim' = [claim EXCEPT ![t].volume = v]
  /\ UNCHANGED <<set, volumes, doomed, world>>

\* A released volume is reserved again for a claim that is still bound to it.
Rebinds(t) ==
  /\ claim[t].volume \in volumes /\ holder[claim[t].volume] = "none"
  /\ holder' = [holder EXCEPT ![claim[t].volume] = t]
  /\ UNCHANGED <<set, claim, volumes, doomed, world>>

Retained(v) == v = Named("retain") \/ (v.of = "own" /\ plan[v.stage] = "retain")

\* A claim goes when no pod uses it, and its volume with it, unless it is to be retained.
ClaimGoes(t) ==
  /\ claim[t].going /\ pod[t] = NoPod
  /\ claim' = [claim EXCEPT ![t] = NoClaim]
  /\ LET v == claim[t].volume IN
       IF v \in volumes /\ holder[v] = t
         THEN \/ /\ ~ Retained(v)
                 /\ volumes' = volumes \ {v} /\ doomed' = doomed \ {v}
                 /\ holder' = [holder EXCEPT ![v] = "none"]
              \/ /\ Retained(v) \/ v \in ByHand
                 /\ holder' = [holder EXCEPT ![v] = "lost"]
                 /\ UNCHANGED <<volumes, doomed>>
         ELSE UNCHANGED <<volumes, doomed, holder>>
  /\ UNCHANGED <<set, world>>

VolumeGoes(v) ==
  /\ \A t \in Tenants : claim[t].volume # v
  /\ volumes' = volumes \ {v} /\ doomed' = doomed \ {v}
  /\ holder' = [holder EXCEPT ![v] = "none"]
  /\ UNCHANGED <<set, claim, world>>

\* A provisioned volume has its pods on its own node; a hostPath is on every node.
NodesFor(v) == IF v \in ByHand THEN Nodes ELSE {"none"}

Starts(t) ==
  /\ set[t].live /\ pod[t] = NoPod /\ refusal[t] # "now"
  /\ claim[t].volume # NoVolume /\ ~ claim[t].going
  /\ \E n \in NodesFor(claim[t].volume) :
       pod' = [pod EXCEPT ![t] = [NoPod EXCEPT !.job = set[t].job, !.stage = set[t].stage,
                                               !.volume = claim[t].volume, !.node = n]]
  /\ UNCHANGED <<objects, files, refusal, wrote>>

\* Volumes made by hand are all the one directory of the node.
PlaceOf(p) ==
  [volume |-> IF p.volume \in ByHand THEN Named("hp1") ELSE p.volume, node |-> p.node]

Writes ==
  /\ pod["tenant1"].job = "write" /\ pod["tenant1"].said = "nothing"
  /\ pod' = [pod EXCEPT !["tenant1"].said = "wrote"]
  /\ files' = files \union {PlaceOf(pod["tenant1"])}
  /\ wrote' = IF pod["tenant1"].stage = stage THEN wrote \union {PlaceOf(pod["tenant1"])} ELSE wrote
  /\ UNCHANGED <<objects, refusal>>

\* The intruder's program looks up to fifteen times, ends with what it saw last, and is
\* started over.
Reads ==
  /\ pod["tenant2"].job = "read"
  /\ apart' \in IF apart = "open" THEN {"yes", "no"} ELSE {apart}
  /\ pod' = [pod EXCEPT !["tenant2"].said =
               IF apart' = "no" /\ PlaceOf(pod["tenant2"]) \in files THEN "found"
               ELSE IF wrote = {} THEN "early" ELSE "missing"]
  /\ UNCHANGED <<objects, files, refusal, wrote>>

\* The pod of a set that was deleted goes some time later.
PodGoes(t) ==
  /\ pod[t] # NoPod /\ ~ Owned(t)
  /\ pod' = [pod EXCEPT ![t] = NoPod]
  /\ UNCHANGED <<objects, files, refusal, wrote>>

Cluster ==
  /\ pc # "over"
  /\ \/ /\ \/ \E t \in Tenants : \/ MakesClaim(t) \/ Notices(t) \/ Refuses(t)
                                 \/ Rebinds(t) \/ ClaimGoes(t) \/ Starts(t) \/ PodGoes(t)
           \/ \E v \in doomed : VolumeGoes(v)
           \/ Writes
        /\ UNCHANGED apart
     \/ (\E t \in Tenants : Binds(t)) \/ Reads
  /\ UNCHANGED <<plan, stage, pc, local, errands, result, faults>>

-----------------------------------------------------------------------------
(***************************************************************************)
(* Requests.  A create is refused by a policy, refused because the name is *)
(* taken, fails, or fails after it was done; a delete fails or does not.   *)
(***************************************************************************)
Goto(label) == pc' = label /\ UNCHANGED <<plan, stage, errands, result, apart>>

MayFail == stage = 1 /\ mishaps < MaxMishaps
Broken == IF MayFail THEN {"refused", "failed", "lost"} ELSE {}
Answers(taken) == IF taken THEN {"taken"} \union (Broken \ {"lost"}) ELSE {"ok"} \union Broken
Mishap == MayFail /\ mishaps' = mishaps + 1
Done(answer) == answer \in {"ok", "lost"}
\* Mutant of Text: what is not an error of a policy is told apart further.
RawText(answer) == IF answer = "ok" THEN "none" ELSE answer
Text(answer) ==
  IF answer = "ok" THEN "none" ELSE IF answer = "refused" THEN "refused" ELSE "failed"

Account(answer) ==
  /\ mishaps' = IF answer \in Broken THEN mishaps + 1 ELSE mishaps
  /\ UNCHANGED owed

CreateSet(t, job, asks, answer) ==
  /\ answer \in Answers(set[t].live)
  /\ set' = IF Done(answer)
              THEN [set EXCEPT ![t] = [job |-> job, stage |-> stage, asks |-> asks, live |-> TRUE]]
              ELSE set
  /\ Account(answer)
  /\ UNCHANGED <<claim, volumes, doomed, holder>>

CreateVolume(v, answer) ==
  /\ answer \in Answers(v \in volumes)
  /\ volumes' = IF Done(answer) THEN volumes \union {v} ELSE volumes
  /\ Account(answer)
  /\ UNCHANGED <<set, claim, doomed, holder>>

Remove(object) ==
  /\ \/ /\ object.kind = "set"
        /\ set' = [set EXCEPT ![object.of] =
                     IF claim[object.of] = NoClaim THEN [@ EXCEPT !.live = FALSE] ELSE NoSet]
        /\ UNCHANGED <<claim, doomed>>
     \/ /\ object.kind = "claim"
        /\ claim' = [claim EXCEPT ![object.of].going = claim[object.of] # NoClaim]
        /\ UNCHANGED <<set, doomed>>
     \/ /\ object.kind = "volume"
        /\ doomed' = doomed \union ({VolumeOf(object)} \intersect volumes)
        /\ UNCHANGED <<set, claim>>
  /\ UNCHANGED <<volumes, holder>>

\* A delete is asked for and its error dropped.
Delete(object) ==
  \/ Remove(object) /\ owed' = owed \ {object} /\ UNCHANGED mishaps
  \/ Mishap /\ owed' = owed \union {object} /\ UNCHANGED objects

-----------------------------------------------------------------------------
(***************************************************************************)
(* The end of an operation: what is still to be deleted, and the result.   *)
(***************************************************************************)
Return(level, why, todo) ==
  /\ result' = [level |-> level, why |-> why]
  /\ errands' = todo
  /\ pc' = IF todo = << >> THEN "next" ELSE "errands"
  /\ UNCHANGED <<plan, stage, apart>>

\* Mutant of CleanUp: the claim, which no set takes with it, is left.
SetAndVolume(t, v) == <<SetOf(t), TheVolume(v)>>
CleanUp(t, v) == <<SetOf(t), ClaimOf(t), TheVolume(v)>>

HostPathOf(t) == Named(IF t = "tenant1" THEN "hp1" ELSE "hp2")
CleanUpOf(t) == CleanUp(t, HostPathOf(t))
CleanUpBoth == CleanUpOf("tenant1") \o CleanUpOf("tenant2")

RunErrand ==
  /\ pc = "errands"
  /\ Delete(Head(errands))
  /\ errands' = Tail(errands)
  /\ pc' = IF Len(errands) > 1 THEN pc ELSE IF result = Pending THEN "hp_volume1" ELSE "next"
  /\ UNCHANGED <<plan, stage, world, local, result, apart>>

\* What nothing can refer to any more is forgotten with the operation.
Within(v) ==
  v \in ByHand \/ v = Named("auth")
  \/ \E t \in Tenants : v \in {claim[t].asks, claim[t].volume, pod[t].volume}

NextStage ==
  /\ pc = "next"
  /\ IF stage < Len(plan) THEN stage' = stage + 1 /\ pc' = "authorize"
                  ELSE stage' = stage /\ pc' = "over"
  /\ result' = Pending
  /\ own' = FALSE /\ measured' = NoVolume /\ error' = "none" /\ heard' = NoPod /\ wrote' = {}
  /\ volumes' = {v \in volumes : Within(v)}
  /\ doomed' = {v \in doomed : Within(v)}
  /\ holder' = [v \in Volume |-> IF Within(v) THEN holder[v] ELSE "none"]
  /\ files' = {place \in files : Within(place.volume)}
  /\ owed' = {object \in owed : object.kind = "volume" => Within(VolumeOf(object))}
  /\ apart' = "open"
  /\ refusal' = [t \in Tenants |-> IF refusal[t] = "none" THEN "none" ELSE "before"]
  /\ UNCHANGED <<plan, set, claim, pod, errands, mishaps>>

-----------------------------------------------------------------------------
(***************************************************************************)
(* is_authorized: a review of the right to create a volume, or, for the    *)
(* hostPath, the creation of one; then a set that mounts one.              *)
(***************************************************************************)
Review ==
  /\ pc = "authorize" /\ test # "hostpath"
  /\ \/ error' = "none" /\ UNCHANGED mishaps
     \/ Mishap /\ error' \in {"refused", "failed"}
  /\ UNCHANGED owed
  /\ Goto("auth_set")
  /\ UNCHANGED <<objects, world, own, measured, heard>>

TryVolume ==
  /\ pc = "authorize" /\ test = "hostpath"
  /\ \E a \in Answers(Named("auth") \in volumes) :
       CreateVolume(Named("auth"), a) /\ error' = Text(a)
  /\ Goto("unauth")
  /\ UNCHANGED <<world, own, measured, heard>>

UntryVolume ==
  /\ pc = "unauth"
  /\ Delete(TheVolume(Named("auth")))
  /\ Goto("auth_set")
  /\ UNCHANGED <<world, local>>

TrySet ==
  /\ pc = "auth_set"
  /\ \E a \in Answers(set["tenant1"].live) :
       /\ CreateSet("tenant1", "idle", Named("default"), a)
       /\ error' = IF "refused" \in {error, Text(a)} THEN "refused"
                   ELSE IF error = "none" THEN Text(a) ELSE error
  /\ Goto("auth_unset")
  /\ UNCHANGED <<world, own, measured, heard>>

\* The set is deleted and the claim its template has generated is not.
UntrySet ==
  /\ pc = "auth_unset"
  /\ Delete(SetOf("tenant1"))
  /\ IF error # "none"
       THEN Return(IF error = "refused" THEN "Soft" ELSE "Unknown", "unauthorized", << >>)
     ELSE IF test # "hostpath" THEN Goto("class")
     ELSE /\ pc' = "errands" /\ errands' = <<ClaimOf("tenant1"), ClaimOf("tenant2")>>
          /\ UNCHANGED <<plan, stage, result, apart>>
  /\ UNCHANGED <<world, local>>

-----------------------------------------------------------------------------
(***************************************************************************)
(* attempt_other_tenant_file_access.                                       *)
(***************************************************************************)
\* A list that cannot be read has no class in it.
FindClass ==
  /\ pc = "class"
  /\ own' \in BOOLEAN
  /\ Goto(IF test = "retain" /\ ~ own' THEN "hand" ELSE "write")
  /\ UNCHANGED <<objects, world, measured, error, heard, faults>>

MakeByHand ==
  /\ pc = "hand"
  /\ \E a \in Answers(Named("retain") \in volumes) :
       /\ CreateVolume(Named("retain"), a)
       /\ IF a = "ok" THEN Goto("write") ELSE Return("Hard", "unmade", << >>)
  /\ UNCHANGED <<world, local>>

Bound == test = "retain" /\ ~ own
Wanted ==
  IF test = "hostpath" THEN Named("hp1")
  ELSE IF own THEN Named("own")
  ELSE IF Bound THEN Named("retain")
  ELSE Named("default")

\* After an error of the victim, the volume made by hand goes before the error or an
\* event is asked for the reason.
Unwind == IF Bound THEN "unhand" ELSE "why1"

CreateWriter ==
  /\ pc = "write"
  /\ \E a \in Answers(set["tenant1"].live) :
       /\ CreateSet("tenant1", "write", Wanted, a)
       /\ error' = Text(a)
       /\ IF a = "ok" THEN Goto("written")
          ELSE IF test = "hostpath" THEN Return("Hard", "victim", CleanUpOf("tenant1"))
          ELSE Goto(Unwind)
  /\ UNCHANGED <<world, own, measured, heard>>

\* Ready is the container and not what it writes.
WriterReady ==
  /\ pc = "written"
  /\ Owned("tenant1")
  /\ Goto(IF test = "hostpath" THEN "confirm" ELSE "info")
  /\ UNCHANGED <<objects, world, local, faults>>

\* A wait runs out, or its watch is an error, of which the text may count.
Unseen(textCounts) ==
  \/ error' = "failed" /\ UNCHANGED mishaps
  \/ textCounts /\ Mishap /\ error' = "refused"

WriterNotReady ==
  /\ pc = "written"
  /\ Unseen(test # "hostpath")
  /\ Goto(Unwind)
  /\ UNCHANGED <<objects, world, own, measured, heard, owed>>

UnmakeByHand ==
  /\ pc = "unhand"
  /\ Delete(TheVolume(Named("retain")))
  /\ Goto("why1")
  /\ UNCHANGED <<world, local>>

FindVolume ==
  /\ pc = "info"
  /\ \/ /\ claim["tenant1"].volume # NoVolume
        /\ measured' = claim["tenant1"].volume
        /\ Goto("release_set") /\ UNCHANGED <<error, faults>>
     \/ Mishap /\ error' \in {"refused", "failed"} /\ Goto(Unwind) /\ UNCHANGED <<measured, owed>>
  /\ UNCHANGED <<objects, world, own, heard>>

\* statefulset_refusal: any refusal of an object of that name, whenever it was; events
\* that cannot be listed tell nothing.
\* Mutant of Told: any event of a set is a refusal.
ToldByAnyEvent(t) == {TRUE, FALSE}
Told(t) == {refusal[t] # "none", FALSE}
Refused(t) == IF error = "refused" THEN {TRUE} ELSE Told(t)

WhyVictim ==
  /\ pc = "why1"
  /\ \E refused \in Refused("tenant1") :
       Return(IF refused THEN "Hard" ELSE "Unknown", IF refused THEN "victim" ELSE "unready",
              IF test = "hostpath" THEN CleanUpOf("tenant1") ELSE << >>)
  /\ UNCHANGED <<objects, world, local, faults>>

(***************************************************************************)
(* release_pv_from_tenant: three requests, the first error of which ends   *)
(* it, and what was made stays.                                            *)
(***************************************************************************)
\* "not found" is taken for a refusal, and a volume reclaimed in time is not found, nor a
\* claim that was going already.
Unreleased(missing) ==
  \/ /\ Mishap /\ UNCHANGED owed
     /\ \/ Return("Soft", "release", << >>)
        \/ Return("Hard", "partial", << >>)
  \/ missing /\ Return("Soft", "release", << >>) /\ UNCHANGED faults

ReleaseSet ==
  /\ pc = "release_set"
  /\ \/ Remove(SetOf("tenant1")) /\ Goto("release_claim") /\ UNCHANGED faults
     \/ Unreleased(FALSE) /\ UNCHANGED objects
  /\ UNCHANGED <<world, local>>

ReleaseClaim ==
  /\ pc = "release_claim"
  /\ \/ /\ claim["tenant1"] # NoClaim
        /\ Remove(ClaimOf("tenant1")) /\ Goto("release_volume") /\ UNCHANGED faults
     \/ Unreleased(claim["tenant1"] = NoClaim) /\ UNCHANGED objects
  /\ UNCHANGED <<world, local>>

ReleaseVolume ==
  /\ pc = "release_volume"
  /\ \/ /\ measured \in volumes
        /\ holder' = [holder EXCEPT ![measured] = "none"]
        /\ Goto("look")
        /\ UNCHANGED <<set, claim, volumes, doomed, faults>>
     \/ Unreleased(measured \notin volumes) /\ UNCHANGED objects
  /\ UNCHANGED <<world, local>>

\* Without the volume's class, which tenant 2 may not be able to read, no claim binds.
Offered(classRead) == IF classRead THEN measured ELSE Named("wrong")

CreateReader ==
  /\ pc = "look"
  /\ \E a \in Answers(set["tenant2"].live), classRead \in BOOLEAN :
       /\ CreateSet("tenant2", "read", Offered(classRead), a)
       /\ IF a = "ok" THEN Goto("mount")
          ELSE Return(IF a = "refused" THEN "Soft" ELSE "Hard",
                      IF a = "refused" THEN "refused" ELSE "create", <<TheVolume(measured)>>)
  /\ UNCHANGED <<world, local>>

\* check_mount_attempt: a pod with the label has come to an end, seen while it had.
SeenToEnd ==
  /\ pc = "mount"
  /\ pod["tenant2"].said # "nothing"
  /\ Goto("logs")
  /\ UNCHANGED <<objects, world, local, faults>>

NotSeenToEnd ==
  /\ pc = "mount"
  /\ Unseen(FALSE)
  /\ Goto("why2")
  /\ UNCHANGED <<objects, world, own, measured, heard, owed>>

WhyIntruder ==
  /\ pc = "why2"
  /\ \E refused \in Refused("tenant2") :
       IF test = "hostpath"
         THEN Return(IF refused THEN "Soft" ELSE "Unknown",
                     IF refused THEN "refused" ELSE "unready", CleanUpBoth)
         ELSE Return(IF refused THEN "Soft" ELSE "Hard", IF refused THEN "refused" ELSE "unseen",
                     <<SetOf("tenant2"), TheVolume(measured)>>)
  /\ UNCHANGED <<objects, world, local, faults>>

(***************************************************************************)
(* check_cross_tenant_mount, which both tests end with.                    *)
(***************************************************************************)
AfterLogs ==
  IF test = "hostpath" THEN CleanUpBoth
  ELSE <<SetOf("tenant2"), ClaimOf("tenant2"), TheVolume(measured)>>

ReadLog ==
  /\ pc = "logs"
  /\ pod["tenant2"].said # "nothing"
  /\ heard' = pod["tenant2"]
  /\ IF pod["tenant2"].said = "found" THEN Return("None", "found", AfterLogs)
                                     ELSE Return("Hard", "missing", AfterLogs)
  /\ UNCHANGED <<objects, world, own, measured, error, faults>>

\* The volume test returns on the spot.
LogSilent ==
  /\ pc = "logs"
  /\ Return("Unknown", "silent", IF test = "hostpath" THEN CleanUpBoth ELSE << >>)
  /\ UNCHANGED <<objects, world, local, faults>>

-----------------------------------------------------------------------------
(***************************************************************************)
(* test_persistent_hostpath_data_isolation, after the two claims an        *)
(* earlier experiment may have left are deleted.                           *)
(***************************************************************************)
\* Neither an error here nor one at the intruder's volume has that volume deleted.
CreateVictimVolume ==
  /\ pc = "hp_volume1"
  /\ \E a \in Answers(Named("hp1") \in volumes) :
       /\ CreateVolume(Named("hp1"), a)
       /\ IF a = "ok" THEN Goto("write") ELSE Return("Hard", "unmade", << >>)
  /\ UNCHANGED <<world, local>>

\* Mutant of Confirm: the marker is taken to be there once its pod is ready.
ConfirmUnseen ==
  /\ pc = "confirm"
  /\ Goto("hp_volume2")
  /\ UNCHANGED <<objects, world, local, faults>>

\* victim_planted_secret.
Confirm ==
  /\ pc = "confirm"
  /\ pod["tenant1"].said = "wrote"
  /\ Goto("hp_volume2")
  /\ UNCHANGED <<objects, world, local, faults>>

Unconfirmed ==
  /\ pc = "confirm"
  /\ Return("Unknown", "unplanted", CleanUpOf("tenant1"))
  /\ UNCHANGED <<objects, world, local, faults>>

CreateIntruderVolume ==
  /\ pc = "hp_volume2"
  /\ \E a \in Answers(Named("hp2") \in volumes) :
       /\ CreateVolume(Named("hp2"), a)
       /\ IF a = "ok" THEN Goto("read") ELSE Return("Soft", "barred", CleanUpOf("tenant1"))
  /\ UNCHANGED <<world, local>>

CreateIntruder ==
  /\ pc = "read"
  /\ \E a \in Answers(set["tenant2"].live) :
       /\ CreateSet("tenant2", "read", Named("hp2"), a)
       /\ IF a = "ok" THEN Goto("ready2") ELSE Return("Soft", "refused", CleanUpBoth)
  /\ UNCHANGED <<world, local>>

IntruderReady ==
  /\ pc = "ready2"
  /\ Owned("tenant2")
  /\ Goto("logs")
  /\ UNCHANGED <<objects, world, local, faults>>

IntruderNotReady ==
  /\ pc = "ready2"
  /\ Unseen(TRUE)
  /\ Goto("why2")
  /\ UNCHANGED <<objects, world, own, measured, heard, owed>>

-----------------------------------------------------------------------------
Harness ==
  \/ Review \/ TryVolume \/ UntryVolume \/ TrySet \/ UntrySet
  \/ FindClass \/ MakeByHand
  \/ CreateWriter \/ WriterReady \/ WriterNotReady \/ FindVolume \/ UnmakeByHand \/ WhyVictim
  \/ ReleaseSet \/ ReleaseClaim \/ ReleaseVolume
  \/ CreateReader \/ SeenToEnd \/ NotSeenToEnd \/ WhyIntruder
  \/ ReadLog \/ LogSilent
  \/ CreateVictimVolume \/ Confirm \/ Unconfirmed
  \/ CreateIntruderVolume \/ CreateIntruder \/ IntruderReady \/ IntruderNotReady
  \/ RunErrand \/ NextStage

Ended == pc = "over" /\ UNCHANGED vars

\* What an earlier run left is not forgotten.
Next ==
  /\ Harness \/ Cluster \/ Ended
  /\ UNCHANGED earlier

Spec == Init /\ [][Next]_vars

-----------------------------------------------------------------------------
(***************************************************************************)
(* Properties.                                                             *)
(***************************************************************************)
Decides == result = Pending /\ result' # Pending
Returns(why) == Decides /\ result'.why = why

Shown == IF test = "hostpath" THEN Named("hp2") ELSE measured
Strayed ==
  \/ heard'.volume # Shown
  \/ test = "hostpath" /\ \A place \in wrote : place.volume # Named("hp1")
OtherNode == heard'.volume \in ByHand /\ \A place \in wrote : place.node # heard'.node
Unwritten == test # "hostpath" /\ heard'.said = "early"

\* What the intruder's log is evidence of.  "found" means that the tenants share the disk and
\* that tenant 1 has written there; "missing" that they do not share one, or one of three
\* things the code does not rule out: the intruder's pod, or the writer's, was on the volume
\* of a claim left over from before (the claims have one name); a hostPath was on another
\* node; or, in the volume tests, which never confirm the marker, tenant 1 had written
\* nothing yet, or at all.  The hostPath test always reads a pod of its own.  The volume
\* tests may read that of the operation before, which has the same label, and then their
\* finding is not about this operation at all: of those nothing is said.
FindingsAreReal ==
  [][test = "hostpath" \/ heard'.stage = stage =>
       /\ Returns("found") => apart = "no" /\ PlaceOf(heard') \in files
       /\ Returns("missing") => apart = "yes" \/ Strayed \/ OtherNode \/ Unwritten]_vars

SetAway(t) == SetOf(t) \in owed \/ ~ set[t].live \/ set[t].stage < stage
ClaimAway(t) == ClaimOf(t) \in owed \/ claim[t] = NoClaim \/ claim[t].going
VolumeAway(v) == TheVolume(v) \in owed \/ v \notin volumes \ doomed

\* The volumes the hostPath test asks no delete for: one whose own create was an error, made
\* or not, and one of an earlier run.
Spared(t) ==
  \/ HostPathOf(t) \in earlier
  \/ result # Pending /\ result.why = (IF t = "tenant1" THEN "unmade" ELSE "barred")

WasReady(t) ==
  result.why \in {"silent", "found", "missing"}
                \union (IF t = "tenant1" THEN {"unplanted", "refused", "barred"} ELSE {})

\* What stays when an operation ends.  "Cleanup runs on every exit path, including the early
\* returns" (mod.rs:362-364) holds of the hostPath test for the sets, for the claims of the
\* sets that had a pod (the controller of one deleted before may make the claim after its
\* delete) and for the volumes that were made without an error and not by an earlier run: each is
\* gone or going, or its own delete failed.  It does not hold of a volume whose create was
\* an error, which the returns at 411-420 and 463-467 leave wherever it was made all the
\* same.  The volume tests clean up when the log of their own intruder's pod has told.
CleanUpOnEveryPath ==
  pc = "next" =>
    /\ test = "hostpath" /\ result.why # "unauthorized" => \A t \in Tenants :
         /\ SetAway(t)
         /\ VolumeAway(HostPathOf(t)) \/ Spared(t)
         /\ WasReady(t) => ClaimAway(t)
    /\ test # "hostpath" /\ result.why \in {"found", "missing"} /\ heard.stage = stage =>
         /\ \A t \in Tenants : SetAway(t) /\ ClaimAway(t)
         /\ VolumeAway(measured)

\* When no request fails, a refusal is reported of a tenant of whom one was made, in this
\* operation or before, and a volume cannot be made only if an earlier run left it.  The
\* exception is the hostPath test, which takes any error of the intruder's create for a
\* refusal, that of a name still taken by the set of an earlier operation too.
RefusalsAreExplained ==
  [][mishaps' = 0 =>
       /\ Returns("victim") => refusal["tenant1"] # "none"
       /\ Returns("refused") =>
            refusal["tenant2"] # "none" \/ set["tenant2"].stage \in 1 .. stage - 1
       /\ Returns("unmade") => Wanted \in earlier
       /\ Returns("barred") => Named("hp2") \in earlier]_vars

-----------------------------------------------------------------------------
(***************************************************************************)
(* Why the properties hold: the inductive invariant, part by part.         *)
(***************************************************************************)
ItemsOf(list) == {list[i] : i \in DOMAIN list}
Todo == ItemsOf(errands)
\* The two claims that are deleted before the hostPath test begins.
FirstErrands == pc = "errands" /\ result = Pending

Early == {"authorize", "unauth", "auth_set", "auth_unset"}
\* From when the volume is released, and from when the marker is confirmed.
Reading == {"release_volume", "look", "mount", "logs", "why2"}
Confirmed == {"hp_volume2", "read", "ready2", "logs", "why2"}

\* Which test a label belongs to, and when there are errands and a result.
Course ==
  /\ stage <= Len(plan)
  /\ pc = "errands" <=> errands # << >>
  /\ result # Pending => pc \in {"errands", "next"}
  /\ pc = "next" => result # Pending
  /\ FirstErrands => test = "hostpath" /\ Todo \subseteq {ClaimOf(t) : t \in Tenants}
  /\ pc \in {"unauth", "hp_volume1", "confirm", "hp_volume2", "read", "ready2"} =>
       test = "hostpath"
  /\ pc \in {"class", "hand", "unhand", "info", "release_set", "release_claim",
             "release_volume", "look", "mount"} => test # "hostpath"
  /\ pc \in {"hand", "unhand"} => Bound
  /\ test # "hostpath" /\ pc \in {"release_set", "release_claim"} \union Reading =>
       measured \in Volume

\* The sets and the pods of a tenant, and a pod's volume.
JobsOf(t) == IF t = "tenant1" THEN {"idle", "write"} ELSE {"read"}
SaysOf(t) == IF t = "tenant1" THEN {"nothing", "wrote"} ELSE {"nothing", "found", "missing", "early"}
Shape ==
  \A t \in Tenants :
    /\ set[t].stage <= stage
    /\ set[t].live => set[t].stage >= 1 /\ set[t].job \in JobsOf(t)
    /\ pod[t] # NoPod =>
         /\ pod[t].stage \in 1 .. stage /\ pod[t].job \in JobsOf(t) /\ pod[t].said \in SaysOf(t)
         /\ pod[t].volume \in Volume /\ pod[t].volume = claim[t].volume
         /\ pod[t].volume \notin ByHand => pod[t].node = "none"

\* The volumes of the hostPath test: away, or about to be, or in use.
HostPathInUse(t) ==
  /\ test = "hostpath"
  /\ pc \in {"read", "ready2", "logs", "why2"}
            \union (IF t = "tenant1" THEN {"write", "written", "confirm", "hp_volume2", "why1"} ELSE {})
HostPathsToGo ==
  test = "hostpath" /\ pc # "over" =>
    \A t \in Tenants :
      \/ VolumeAway(HostPathOf(t)) \/ Spared(t)
      \/ TheVolume(HostPathOf(t)) \in Todo \/ HostPathInUse(t)

\* Its sets, likewise.
SetInUse(t) ==
  pc \in {"ready2", "logs", "why2"}
         \union (IF t = "tenant1" THEN {"auth_unset", "written", "confirm", "hp_volume2", "read", "why1"}
                 ELSE {})
SetsToGo ==
  test = "hostpath" =>
    \A t \in Tenants : SetAway(t) \/ SetOf(t) \in Todo \/ SetInUse(t)

\* And its claims: no other comes of a set that has gone, or that has its pod.
Settled(t) == set[t] = NoSet \/ Owned(t)
ClaimsToGo ==
  test = "hostpath" /\ pc \in {"errands", "next"} /\ result # Pending =>
    \A t \in Tenants :
      WasReady(t) => Settled(t) /\ (ClaimAway(t) \/ ClaimOf(t) \in Todo)

\* The sets that have been seen with their pods still have them.
WriterStands ==
  set["tenant1"].live /\ set["tenant1"].job = "write" /\ set["tenant1"].stage = stage
Standing ==
  /\ pc = "written" => WriterStands
  /\ pc \in {"info", "release_set"} \/ (test = "hostpath" /\ pc \in {"confirm"} \union Confirmed) =>
       WriterStands /\ Owned("tenant1")
  /\ test = "hostpath" /\ pc \in {"ready2", "logs"} =>
       set["tenant2"].live /\ set["tenant2"].stage = stage
  /\ test = "hostpath" /\ pc = "logs" => Owned("tenant2")

\* How far a volume test is with its clean-up, if the log is that of its own pod.
VolumeCleanUp ==
  test # "hostpath" =>
    /\ pc \in {"release_claim"} \union Reading => set["tenant1"] = NoSet
    /\ pc \in Reading => claim["tenant1"] = NoClaim \/ claim["tenant1"].going
    /\ pc \in {"mount", "logs"} => set["tenant2"].live /\ set["tenant2"].stage = stage
    /\ /\ pc \in {"errands", "next"} /\ result # Pending
       /\ result.why \in {"found", "missing"} /\ heard.stage = stage
       => /\ set["tenant1"] = NoSet
          /\ claim["tenant1"] = NoClaim \/ claim["tenant1"].going
          /\ Settled("tenant2")
          /\ SetAway("tenant2") \/ SetOf("tenant2") \in Todo
          /\ ClaimAway("tenant2") \/ ClaimOf("tenant2") \in Todo
          /\ VolumeAway(measured) \/ TheVolume(measured) \in Todo

\* Where tenant 1 has written in this operation: in one place, that of its one writer.
Unbegun == pc \in Early \union {"class", "hand", "write", "hp_volume1"} \/ FirstErrands
Writing == pod["tenant1"].job = "write" /\ pod["tenant1"].stage = stage
Written ==
  pc # "over" =>
    /\ wrote \subseteq files
    /\ \A place, other \in wrote : place = other
    /\ Writing => /\ wrote \subseteq {PlaceOf(pod["tenant1"])}
                  /\ pod["tenant1"].said = "wrote" => wrote # {}
    /\ WriterStands => Writing \/ wrote = {}
    /\ Unbegun => wrote = {} /\ ~ WriterStands /\ ~ Writing
    /\ /\ test = "hostpath"
       /\ pc \in Confirmed \/ set["tenant2"].stage = stage \/ pod["tenant2"].stage = stage
       => wrote # {}

\* What the intruder's pod of this operation says.
IntruderSays ==
  pc # "over" /\ pod["tenant2"].stage = stage =>
    /\ pod["tenant2"].said = "found" => apart = "no" /\ PlaceOf(pod["tenant2"]) \in files
    /\ pod["tenant2"].said = "missing" =>
         apart = "yes" \/ (wrote # {} /\ PlaceOf(pod["tenant2"]) \notin wrote)
    /\ pod["tenant2"].said = "early" => test # "hostpath"

\* The volume that is measured is the one tenant 1 writes on.
Disk(v) == IF v \in ByHand THEN Named("hp1") ELSE v
Measured ==
  pc # "over" =>
    /\ test # "hostpath" /\ pc \in {"release_set", "release_claim"} \union Reading =>
         /\ Writing => pod["tenant1"].volume = measured
         /\ \A place \in wrote :
              place.volume = Disk(measured) /\ (measured \notin ByHand => place.node = "none")

\* Without a failed request there is no refusal, and no set in the way of another.
Unhindered ==
  /\ mishaps = 0 => error # "refused"
  /\ mishaps = 0 /\ (pc \in {"class", "hand", "write", "hp_volume1"} \/ FirstErrands) =>
       ~ set["tenant1"].live
  /\ /\ test = "hostpath"
     /\ \/ pc \in Early \union {"hp_volume1", "write", "written", "confirm", "hp_volume2", "read", "why1"}
        \/ FirstErrands
     => set["tenant2"].stage < stage

\* Nothing refers to a volume made by hand before the test that makes it has come to that.
TestOf(v) == IF v = Named("retain") THEN "retain" ELSE "hostpath"
Handled(v) ==
  \/ stage = 2 /\ plan[1] = TestOf(v)
  \/ /\ test = TestOf(v)
     /\ pc \notin Early \union {"class", "hand", "hp_volume1"} /\ ~ FirstErrands
     /\ v = Named("hp2") => pc \notin {"write", "written", "confirm", "hp_volume2", "why1"}
ByHandOnly ==
  \A v \in ByHand :
    /\ v \in volumes => v \in earlier \/ Handled(v)
    /\ \/ v = measured \/ TheVolume(v) \in Todo
       \/ \E t \in Tenants : v \in {set[t].asks, claim[t].asks, claim[t].volume}
       => Handled(v)

IInv ==
  /\ TypeOK /\ Course /\ Shape /\ HostPathsToGo /\ SetsToGo /\ ClaimsToGo /\ Standing
  /\ VolumeCleanUp /\ Written /\ IntruderSays /\ Measured /\ Unhindered /\ ByHandOnly

=============================================================================
