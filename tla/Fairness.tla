------------------------------ MODULE Fairness ------------------------------
(***************************************************************************)
(* The fairness command: a campaign of commands, each of which measures    *)
(* the subsystems it was asked for, one after the other, in a baseline and *)
(* in an unbalanced phase (commands/fairness.rs, fairness_assessor.rs and  *)
(* the fairness.rs of each subsystem).                                     *)
(*                                                                         *)
(* A phase makes pods of both tenants at a time, with names that are the   *)
(* same in every phase and every command, waits for them, reads their logs *)
(* and deletes them.  Each request may fail, also after it has had its     *)
(* effect, a command may be killed at any time, and a deletion takes its   *)
(* time.                                                                   *)
(***************************************************************************)
EXTENDS Naturals, Sequences, FiniteSets

CONSTANTS
  Campaigns,   \* sequences of commands, each the set of subsystems it is asked for
  Pods,        \* the pods of a tenant in the baseline
  Malicious,   \* the pods of the intruder in the unbalanced phase
  Mishaps,     \* a bound: so many things go wrong in a campaign
  Options      \* records: mixed (noise pods), pvc (claims of its own), export (files)

Subsystems == {"control", "network", "storage", "workload"}

ASSUME PodsAssumption == Pods \in Nat \ {0} /\ Malicious \in Nat \ {0} /\ Mishaps \in Nat
ASSUME CampaignAssumption == Campaigns \subseteq Seq(SUBSET Subsystems)
ASSUME OptionAssumption == Options \subseteq [mixed : BOOLEAN, pvc : BOOLEAN, export : BOOLEAN]

VARIABLES
  options,
  campaign,  \* the commands still to be given, the current one first
  todo,      \* the subsystems this command has not come to
  sub, phase,
  pc,
  pods,      \* the status of every pod and claim
  fresh,     \* those of them that were made in this phase
  pending,   \* what the future of each tenant has still to create
  open,      \* the tenants whose future is not over
  jobs,      \* the sets of objects a clean-up has still to remove, one after the other
  samples,   \* what each phase has measured of each tenant
  results, failed,
  files,     \* what this command has written
  undeleted, \* history: the objects whose last deletion failed
  abandoned, \* history: those whose phase was broken off before it came to delete them
  mishaps    \* history: how often something went wrong

vars == <<options, campaign, todo, sub, phase, pc, pods, fresh, pending, open, jobs, samples,
          results, failed, files, undeleted, abandoned, mishaps>>

Tenants == {"owner", "intruder"}
Phases == {"baseline", "unbalanced"}
Amounts == {"none", "part", "all"}
Order == <<"control", "network", "storage", "workload">>
Top == IF Pods > Malicious THEN Pods ELSE Malicious
Parts == {<<"network", "server">>, <<"network", "probe">>, <<"storage", "claim">>,
          <<"storage", "probe">>, <<"workload", "probe">>, <<"workload", "noise">>}
Name == [part : Parts, tenant : Tenants, index : 1 .. Top]
Labels == {"start", "next", "load", "preclean", "create", "second", "wait", "collect", "clean",
           "judge", "tables", "manifest", "summary", "over", "panicked"}
Status == {"absent", "present", "leaving"}
Result == [sub : Subsystems, level : {"Unknown", "graded"}]

\* Every variable keeps its type, and a phase has only so many objects to make and remove.
TypeOK ==
  /\ options \in Options
  /\ campaign \in Seq(SUBSET Subsystems)
  /\ todo \subseteq Subsystems
  /\ sub \in Subsystems /\ phase \in Phases /\ pc \in Labels
  /\ pods \in [Name -> Status] /\ fresh \subseteq Name
  /\ pending \in [Tenants -> Seq(Name)]
  /\ open \subseteq Tenants
  /\ jobs \in Seq(SUBSET Name)
  /\ samples \in [Phases -> [Tenants -> Amounts]]
  /\ results \subseteq Result /\ failed \subseteq Subsystems
  /\ files \subseteq Subsystems \X {"baseline", "unbalanced", "manifest"}
  /\ undeleted \subseteq Name /\ abandoned \subseteq Name /\ mishaps \in 0 .. Mishaps

Unmeasured == [p \in Phases |-> [t \in Tenants |-> "none"]]
Idle == [t \in Tenants |-> <<>>]

Init ==
  /\ options \in Options
  /\ campaign \in Campaigns
  /\ todo = {} /\ sub = "control" /\ phase = "baseline" /\ pc = "start"
  /\ pods = [n \in Name |-> "absent"] /\ fresh = {}
  /\ pending = Idle /\ open = {} /\ jobs = <<>>
  /\ samples = Unmeasured
  /\ results = {} /\ failed = {} /\ files = {}
  /\ undeleted = {} /\ abandoned = {} /\ mishaps = 0

-----------------------------------------------------------------------------
(***************************************************************************)
(* The objects of a phase.                                                 *)
(***************************************************************************)
\* Mutant of Multiplied: the pods of the multiplier come on top of those of the baseline.
MultipliedOnTop(t, p) == IF t = "owner" \/ p = "baseline" THEN Pods ELSE Pods + Malicious
\* The multiplier is the intruder's.
Multiplied(t, p) == IF t = "owner" \/ p = "baseline" THEN Pods ELSE Malicious

\* Of a mixed workload it goes into pods that make noise, beside a single probe.
Makes(t, p) == options.mixed /\ t = "intruder" /\ p = "unbalanced"
Measuring(t, p) == IF Makes(t, p) THEN 1 ELSE Multiplied(t, p)

Row(part, t, n) == [i \in 1 .. n |-> [part |-> part, tenant |-> t, index |-> i]]
Servers(t, p) == Row(<<"network", "server">>, t, Multiplied(t, p))
Pings(t, p) == Row(<<"network", "probe">>, t, Multiplied(t, p))
Claims(t, p) == Row(<<"storage", "claim">>, t, IF options.pvc THEN Multiplied(t, p) ELSE 0)
Fios(t, p) == Row(<<"storage", "probe">>, t, Multiplied(t, p))
Sysbenches(t, p) == Row(<<"workload", "probe">>, t, Measuring(t, p))
Noises(t, p) == Row(<<"workload", "noise">>, t, IF Makes(t, p) THEN Multiplied(t, p) ELSE 0)

Members(seq) == {seq[i] : i \in DOMAIN seq}
ProbesOf(s, t, p) ==
  Members([network |-> Pings(t, p), storage |-> Fios(t, p), workload |-> Sysbenches(t, p),
           control |-> <<>>][s])
Probes(s, p) == UNION {ProbesOf(s, t, p) : t \in Tenants}

\* What a tenant creates before the tenants wait for each other: echo servers before their
\* clients, claims before the pods that mount them.
FirstOf(s, t, p) ==
  [network |-> Servers(t, p), storage |-> Claims(t, p) \o Fios(t, p),
   workload |-> Sysbenches(t, p), control |-> <<>>][s]

\* And after.
SecondOf(s, t, p) ==
  [network |-> Pings(t, p), workload |-> Noises(t, p), storage |-> <<>>, control |-> <<>>][s]

\* What a clean-up removes: of both tenants at once, or of one after the other.
NetworkRemovals(p) ==
  <<UNION {Members(Servers(t, p)) \union Members(Pings(t, p)) : t \in Tenants}>>
StorageRemovals(p) ==
  <<Members(Fios("owner", p)), Members(Claims("owner", p)),
    Members(Fios("intruder", p)), Members(Claims("intruder", p))>>

WorkloadRemovals(p) ==
  <<Members(Sysbenches("owner", p)), Members(Sysbenches("intruder", p)),
    Members(Noises("intruder", p))>>

Removals(s, p) ==
  [network |-> NetworkRemovals(p), storage |-> StorageRemovals(p),
   workload |-> WorkloadRemovals(p), control |-> <<>>][s]

\* A claim is held for as long as the pod of its index is there.
Mount(n) == [n EXCEPT !.part = <<"storage", "probe">>]
Held(n, there) == n.part = <<"storage", "claim">> /\ Mount(n) \in there
There == {n \in Name : pods[n] # "absent"}

-----------------------------------------------------------------------------
Goto(l) == pc' = l
Plan == UNCHANGED <<options, campaign, todo, sub, phase>>
Measured == UNCHANGED <<samples, results, files>>
World == UNCHANGED <<pods, fresh>>
History == UNCHANGED <<undeleted, abandoned>>
Course == UNCHANGED <<pending, open, jobs, failed, mishaps>> /\ History
GoesWrong(n) == mishaps + n <= Mishaps /\ mishaps' = mishaps + n

\* What the phase at hand has made and never asked to go is left to itself.
Abandon ==
  /\ abandoned' = {n \in abandoned \union fresh' : pods'[n] = "present" /\ n \notin undeleted'}
  /\ samples' = Unmeasured /\ pending' = Idle /\ open' = {} /\ jobs' = <<>>

\* Mutant of GiveUp: the error is passed on, as it was, and ends the command.
GiveUpAll ==
  /\ Goto("summary")
  /\ failed' = failed \union {sub}
  /\ Abandon
\* An error of run_phase, or of what follows it, is one of its subsystem.
GiveUp ==
  /\ Goto("next")
  /\ failed' = failed \union {sub}
  /\ Abandon
Fail == GoesWrong(1) /\ UNCHANGED undeleted /\ GiveUp

\* Mutant of Entry: storage begins as network and workload do.
EntryAtOnce(s) == IF s = "control" THEN "load" ELSE "create"
\* Where a phase begins.
Entry(s) == IF s = "control" THEN "load" ELSE IF s = "storage" THEN "preclean" ELSE "create"

BeginPhase(s, p) ==
  /\ sub' = s /\ phase' = p /\ Goto(Entry(s)) /\ fresh' = {}
  /\ jobs' = IF Entry(s) = "preclean" THEN Removals(s, p) ELSE <<>>
  /\ pending' = [t \in Tenants |-> FirstOf(s, t, p)]
  /\ open' = IF s = "control" THEN {} ELSE Tenants
  /\ History

-----------------------------------------------------------------------------
(***************************************************************************)
(* The command.                                                            *)
(***************************************************************************)
\* run: its configuration, and the clients of the tenants.
StartCommand ==
  /\ pc = "start" /\ campaign # <<>>
  /\ todo' = Head(campaign)
  /\ Goto("next")
  /\ results' = {} /\ failed' = {} /\ files' = {}
  /\ World /\ History
  /\ UNCHANGED <<options, campaign, sub, phase, pending, open, jobs, samples, mishaps>>

\* Without a client for each of the tenants there is nothing to run.
StartFails ==
  /\ pc = "start" /\ campaign # <<>>
  /\ GoesWrong(1)
  /\ campaign' = Tail(campaign)
  /\ World /\ Measured /\ History
  /\ UNCHANGED <<options, todo, sub, phase, pc, pending, open, jobs, failed>>

\* The first of some subsystems, in the order in which run comes to them.
First(set) ==
  Order[CHOOSE i \in 1 .. 4 : Order[i] \in set /\ \A j \in 1 .. i - 1 : Order[j] \notin set]

NextSubsystem ==
  /\ pc = "next" /\ todo # {}
  /\ BeginPhase(First(todo), "baseline")
  /\ todo' = todo \ {First(todo)}
  /\ Measured /\ UNCHANGED <<options, campaign, pods, failed, mishaps>>

Summarise ==
  /\ pc = "next" /\ todo = {}
  /\ Goto("summary")
  /\ Plan /\ Measured /\ World /\ Course

\* The worst of several results is found by comparing their factors, which takes numbers.
Compared == Cardinality(results) > 1 /\ \E r \in results : r.level = "Unknown"

EndCommand ==
  /\ pc = "summary"
  /\ Goto(IF Compared THEN "panicked" ELSE "over")
  /\ Plan /\ Measured /\ World /\ Course

NextCommand ==
  /\ pc \in {"over", "panicked"} /\ campaign # <<>>
  /\ campaign' = Tail(campaign)
  /\ Goto("start")
  /\ Measured /\ World /\ Course /\ UNCHANGED <<options, todo, sub, phase>>

-----------------------------------------------------------------------------
(***************************************************************************)
(* A phase of the control plane: every worker comes back with the requests *)
(* of at least one round, whatever became of them.                         *)
(***************************************************************************)
NextPhase ==
  IF phase = "baseline" THEN BeginPhase(sub, "unbalanced")
  ELSE Goto("judge") /\ History /\ UNCHANGED <<sub, phase, fresh, jobs, pending, open>>

Load ==
  /\ pc = "load"
  /\ samples' = [samples EXCEPT ![phase] = [t \in Tenants |-> "all"]]
  /\ NextPhase
  /\ UNCHANGED <<options, campaign, todo, pods, results, failed, files, mishaps>>

(***************************************************************************)
(* A phase of pods.                                                        *)
(***************************************************************************)
Creating == pc \in {"create", "second"}

Make(made) ==
  /\ pods' = [n \in Name |-> IF n \in made THEN "present" ELSE pods[n]]
  /\ fresh' = fresh \union made

\* An error drops the other future, which may have a request under way; and a request that
\* failed may have had its effect.
Dropped(t, tried) ==
  /\ \E late \in SUBSET (tried \union {Head(pending[u]) :
                                         u \in {v \in open \ {t} : pending[v] # <<>>}}) :
       Make({n \in late : pods[n] = "absent"})
  /\ Fail

Created(t, n) ==
  \/ /\ Make({n} \ There)
     /\ pending' = [pending EXCEPT ![t] = Tail(@)]
     /\ History /\ UNCHANGED <<samples, pc, open, jobs, failed, mishaps>>
  \/ Dropped(t, {n})

\* Mutant of Create: an object of that name is as good as a new one.
CreateOrTake(t) ==
  /\ Creating /\ t \in open /\ pending[t] # <<>>
  /\ Created(t, Head(pending[t]))
  /\ Plan /\ UNCHANGED <<results, files>>
Create(t) ==
  /\ Creating /\ t \in open /\ pending[t] # <<>>
  /\ IF pods[Head(pending[t])] = "absent" THEN Created(t, Head(pending[t]))
     ELSE World /\ UNCHANGED <<undeleted, mishaps>> /\ GiveUp
  /\ Plan /\ UNCHANGED <<results, files>>

\* The noise begins when the probes run, and only the intruder makes any.
Second == [t \in Tenants |-> SecondOf(sub, t, phase)]
Makers == IF sub = "workload" THEN {"intruder"} ELSE Tenants

Advance(left) ==
  IF left # {} THEN open' = left /\ UNCHANGED <<pc, pending>>
  ELSE IF pc = "create" /\ \E t \in Tenants : Second[t] # <<>>
    THEN Goto("second") /\ pending' = Second /\ open' = Makers
  ELSE Goto("wait") /\ open' = {} /\ pending' = Idle

Ready(t) ==
  /\ Creating /\ t \in open /\ pending[t] = <<>>
  /\ \/ Advance(open \ {t}) /\ World /\ History /\ UNCHANGED <<samples, jobs, failed, mishaps>>
     \/ Dropped(t, {})
  /\ Plan /\ UNCHANGED <<results, files>>

\* The pods are over, or 290 s are.
Wait ==
  /\ pc = "wait"
  /\ World
  /\ (Goto("collect") /\ Course /\ UNCHANGED samples) \/ Fail
  /\ Plan /\ UNCHANGED <<results, files>>

\* What the log of a probe has to tell: of a pod that is not over, that failed, or whose log
\* was rotated, there is nothing.
Readings(t) ==
  IF Cardinality(ProbesOf(sub, t, phase)) > 1 THEN Amounts ELSE {"none", "all"}

\* A pod without samples is missing data to the storage assessor, and to no other.
Refuses(seen) == sub = "storage" /\ \E t \in Tenants : seen[t] # "all"

\* Mutant of Collect: a pod without samples may just not have come to its end yet.
CollectAgain ==
  /\ pc = "collect" /\ World
  /\ \/ \E seen \in [Tenants -> Amounts] :
          /\ \A t \in Tenants : seen[t] \in Readings(t)
          /\ IF Refuses(seen) THEN Goto("wait") /\ UNCHANGED <<samples, jobs>>
             ELSE /\ samples' = [samples EXCEPT ![phase] = seen]
                  /\ Goto("clean") /\ jobs' = Removals(sub, phase)
          /\ History /\ UNCHANGED <<pending, open, failed, mishaps>>
     \/ Fail
  /\ Plan /\ UNCHANGED <<results, files>>
\* Mutant of Collect: what is removed is what a baseline makes.
CollectFew ==
  /\ pc = "collect" /\ World
  /\ \/ \E seen \in [Tenants -> Amounts] :
          /\ \A t \in Tenants : seen[t] \in Readings(t)
          /\ UNCHANGED <<undeleted, mishaps>>
          /\ IF Refuses(seen) THEN GiveUp
             ELSE /\ samples' = [samples EXCEPT ![phase] = seen]
                  /\ Goto("clean") /\ jobs' = Removals(sub, "baseline")
                  /\ UNCHANGED <<pending, open, failed, abandoned>>
     \/ Fail
  /\ Plan /\ UNCHANGED <<results, files>>
Collect ==
  /\ pc = "collect" /\ World
  /\ \/ \E seen \in [Tenants -> Amounts] :
          /\ \A t \in Tenants : seen[t] \in Readings(t)
          /\ UNCHANGED <<undeleted, mishaps>>
          /\ IF Refuses(seen) THEN GiveUp
             ELSE /\ samples' = [samples EXCEPT ![phase] = seen]
                  /\ Goto("clean") /\ jobs' = Removals(sub, phase)
                  /\ UNCHANGED <<pending, open, failed, abandoned>>
     \/ Fail
  /\ Plan /\ UNCHANGED <<results, files>>

\* What may become of a set of objects that is to be removed: one stays if its deletion fails,
\* and lingers if the wait for it ends early, as it does at a read that fails; a claim that is
\* still mounted can only linger.  The network assessor comes to no other object of a row after
\* one it cannot delete, and to no wait.
Few(set) == {x \in SUBSET set : Cardinality(x) <= Mishaps}
Outcomes(set) ==
  LET held == {n \in set : Held(n, There)}
      broken == {[stay |-> x, linger |-> set \ x] : x \in (SUBSET set) \ {{}}}
  IN {[stay |-> x, linger |-> (y \union held) \ x] : x \in Few(set), y \in Few(set)}
     \union (IF sub = "network" THEN broken ELSE {})

InOrder(set, stay) ==
  \A m \in stay, n \in set :
    m.part = n.part /\ m.tenant = n.tenant /\ m.index < n.index => n \in stay

Possible(set, left) ==
  /\ \A n \in left.stay : pods[n] = "present"
  /\ sub = "network" /\ left.stay # {} => InOrder(set, left.stay) /\ left.linger = set \ left.stay

\* What went wrong: one deletion, or each that is not as it should be.
Wrong(left) ==
  IF sub = "network" /\ left.stay # {} THEN 1
  ELSE Cardinality(left.stay \union {n \in left.linger : ~Held(n, There)})

Remove ==
  /\ pc \in {"preclean", "clean"} /\ jobs # <<>>
  /\ LET set == Head(jobs) \intersect There IN
     \E left \in Outcomes(set) :
       /\ Possible(set, left)
       /\ GoesWrong(Wrong(left))
       /\ pods' = [n \in Name |-> IF n \in left.linger THEN "leaving"
                                 ELSE IF n \in set \ left.stay THEN "absent" ELSE pods[n]]
       /\ undeleted' = (undeleted \ set) \union left.stay
       /\ UNCHANGED fresh
       /\ \/ /\ ~(sub = "network" /\ left.stay # {})
             /\ jobs' = Tail(jobs) /\ abandoned' = abandoned \ set
             /\ UNCHANGED <<samples, pc, pending, open, failed>>
          \/ sub = "network" /\ left.stay \union left.linger # {} /\ GiveUp
  /\ Plan /\ UNCHANGED <<results, files>>

Precleaned ==
  /\ pc = "preclean" /\ jobs = <<>>
  /\ Goto("create")
  /\ Plan /\ Measured /\ World /\ Course

Cleaned ==
  /\ pc = "clean" /\ jobs = <<>>
  /\ NextPhase
  /\ UNCHANGED <<options, campaign, todo, pods, samples, results, failed, files, mishaps>>

-----------------------------------------------------------------------------
(***************************************************************************)
(* The result of a subsystem.                                              *)
(***************************************************************************)
\* Mutant of Level: only the baseline has to have been measured.
LevelOfBaseline(m) == IF m["baseline"]["owner"] = "none" THEN "Unknown" ELSE "graded"
\* calculate_degradation and fairness_level.
Level(m) ==
  IF \E p \in Phases : m[p]["owner"] = "none" THEN "Unknown" ELSE "graded"

Record ==
  /\ results' = results \union {[sub |-> sub, level |-> Level(samples)]}
  /\ samples' = Unmeasured
  /\ Goto("next") /\ Course

Judge ==
  /\ pc = "judge"
  /\ IF options.export THEN Goto("tables") /\ Course /\ UNCHANGED <<results, samples>> ELSE Record
  /\ Plan /\ World /\ UNCHANGED files

\* The two tables are written at a time, and then the manifest that names them.
WriteTables ==
  /\ pc = "tables" /\ World
  /\ \/ /\ files' = files \union {<<sub, p>> : p \in Phases}
        /\ Goto("manifest") /\ Course /\ UNCHANGED samples
     \/ /\ \E written \in SUBSET {<<sub, p>> : p \in Phases} : files' = files \union written
        /\ Fail
  /\ Plan /\ UNCHANGED results

WriteManifest ==
  /\ pc = "manifest" /\ World
  /\ \/ Record /\ files' = files \union {<<sub, "manifest">>}
     \/ Fail /\ UNCHANGED <<results, files>>
  /\ Plan

-----------------------------------------------------------------------------
\* What is being deleted goes, a claim after the pod that mounts it.
Vanish ==
  /\ \E n \in Name :
       /\ pods[n] = "leaving" /\ ~Held(n, There)
       /\ pods' = [pods EXCEPT ![n] = "absent"]
  /\ Plan /\ Measured /\ Course /\ UNCHANGED <<pc, fresh>>

\* A command is interrupted.
Kill ==
  /\ pc \notin {"start", "over", "panicked"}
  /\ GoesWrong(1)
  /\ Goto("over")
  /\ todo' = {}
  /\ World /\ UNCHANGED undeleted /\ Abandon
  /\ UNCHANGED <<options, campaign, sub, phase, results, failed, files>>

Command == StartCommand \/ StartFails \/ NextSubsystem \/ Summarise \/ EndCommand \/ NextCommand
Phase == \/ Load \/ (\E t \in Tenants : Create(t) \/ Ready(t)) \/ Wait \/ Collect
         \/ Remove \/ Precleaned \/ Cleaned
Verdict == Judge \/ WriteTables \/ WriteManifest
Harness == Command \/ Phase \/ Verdict

Ended == campaign = <<>> /\ pc = "start" /\ UNCHANGED vars

Next == Harness \/ Vanish \/ Kill \/ Ended

\* Every request and every wait of the command comes to its end: each has a timeout.
Spec == Init /\ [][Next]_vars /\ WF_vars(Harness)

-----------------------------------------------------------------------------
(***************************************************************************)
(* Properties.                                                             *)
(***************************************************************************)
(***************************************************************************)
(* The samples of a phase are those of pods that were made in it, by which *)
(* time they are all there: a pod that an earlier phase or command left    *)
(* under the same name is never taken for one of them.                     *)
(***************************************************************************)
SamplesAreFresh ==
  pc \in {"wait", "collect"} =>
    \A n \in Probes(sub, phase) : pods[n] = "present" /\ n \in fresh

(***************************************************************************)
(* A level other than Unknown rests on samples of the owner in both        *)
(* phases, and a result of the storage assessor on samples of every pod.   *)
(***************************************************************************)
LevelIsMeasured ==
  [][\A r \in results' \ results :
       /\ r.level # "Unknown" => \A p \in Phases : samples[p]["owner"] # "none"
       /\ r.sub = "storage" => \A p \in Phases, t \in Tenants : samples[p][t] = "all"]_vars

(***************************************************************************)
(* A command that gets to its summary has every subsystem it was asked for *)
(* either in its results or among those that failed, whatever happened to  *)
(* the others; and a manifest is written only beside both of its tables,   *)
(* for a result that is reported.                                          *)
(***************************************************************************)
ReportedSubs == {r.sub : r \in results}
EverySubsystemIsReported ==
  /\ pc = "summary" => /\ ReportedSubs \union failed = Head(campaign)
                       /\ ReportedSubs \intersect failed = {}
  /\ \A s \in Subsystems :
       <<s, "manifest">> \in files =>
         s \in ReportedSubs /\ {<<s, "baseline">>, <<s, "unbalanced">>} \subseteq files

(***************************************************************************)
(* What is in the way of an object that is to be created is one of three   *)
(* things, whatever phases and commands came before: it is still being     *)
(* deleted, the last attempt to delete it failed, or its phase was broken  *)
(* off before it came to that.  In the storage assessor, which clears the  *)
(* place of whatever it is about to make, it is never the last.            *)
(***************************************************************************)
Fading(n) == pods[n] = "leaving" \/ n \in undeleted
InTheWay(t) == Creating /\ t \in open /\ pending[t] # <<>> /\ pods[Head(pending[t])] # "absent"
ObstaclesAreExplained ==
  \A t \in Tenants : InTheWay(t) =>
    LET n == Head(pending[t]) IN Fading(n) \/ (sub # "storage" /\ n \in abandoned)

(***************************************************************************)
(* While a baseline is measured no other pod of the assessment makes load  *)
(* but such as these.  Here the storage assessor is no exception:          *)
(* cleanup_leftovers is to remove "anything a previous run left behind",   *)
(* but asks for the pods and claims its own phase makes.  Those that an    *)
(* intruder had beside them in an unbalanced phase that was broken off are *)
(* abandoned, and load the baseline of the next command.                   *)
(***************************************************************************)
NoiseIsExplained ==
  pc = "wait" /\ phase = "baseline" =>
    \A n \in Name \ Probes(sub, phase) :
      n.part[2] \in {"probe", "noise"} /\ pods[n] # "absent" => Fading(n) \/ n \in abandoned

\* The campaign comes to its end.
Termination == <>(campaign = <<>>)

\* How far the end of a command is, of a subsystem, and of what its phase does at present.
Stage ==
  [start |-> 3, next |-> 2, load |-> 2, preclean |-> 2, create |-> 2, second |-> 2, wait |-> 2,
   collect |-> 2, clean |-> 2, judge |-> 2, tables |-> 2, manifest |-> 2,
   summary |-> 1, over |-> 0, panicked |-> 0]
PhasesAhead == [baseline |-> 1, unbalanced |-> 0]
Ahead ==
  [preclean |-> 9, create |-> 8, second |-> 7, wait |-> 6, collect |-> 5, clean |-> 4, load |-> 4,
   judge |-> 3, tables |-> 2, manifest |-> 1,
   next |-> 0, start |-> 0, summary |-> 0, over |-> 0, panicked |-> 0]
Work == Len(pending["owner"]) + Len(pending["intruder"]) + Cardinality(open) + Len(jobs)

(***************************************************************************)
(* Every step of a command brings its end nearer -- a command fewer, a     *)
(* later stage of it, a subsystem fewer, the other phase, a later point of *)
(* it, or an object fewer to create or to remove -- and nothing else puts  *)
(* it off: whatever fails and whoever leaves what behind, a campaign takes *)
(* only so many steps.                                                     *)
(***************************************************************************)
Nearer ==
  \/ Len(campaign') < Len(campaign)
  \/ /\ campaign' = campaign
     /\ \/ Stage[pc'] < Stage[pc]
        \/ Stage[pc'] = Stage[pc] /\ todo' \subseteq todo /\ todo' # todo
        \/ /\ Stage[pc'] = Stage[pc] /\ todo' = todo
           /\ \/ PhasesAhead[phase'] < PhasesAhead[phase]
              \/ phase' = phase /\ Ahead[pc'] < Ahead[pc]
              \/ phase' = phase /\ pc' = pc /\ Work' < Work
EveryStepCounts ==
  [][IF Harness \/ Kill THEN Nearer
     ELSE UNCHANGED <<campaign, todo, phase, pc, pending, open, jobs>>]_vars

(***************************************************************************)
(* "False when a phase produced no samples; the degradation factor is then *)
(* NaN and must not be reported or averaged."                              *)
(***************************************************************************)
UnmeasuredIsNotCompared == pc # "panicked"

-----------------------------------------------------------------------------
(***************************************************************************)
(* Why the properties hold.                                                *)
(***************************************************************************)
InCommand == pc \notin {"start", "over", "panicked"}
InSubsystem == InCommand /\ pc \notin {"next", "summary"}

\* The subsystems a command was asked for are those it has not come to, the one at hand, and
\* those that are reported or failed, and none of them twice.
Accounted ==
  /\ InCommand => /\ campaign # <<>>
                  /\ todo \union ReportedSubs \union failed
                       \union (IF InSubsystem THEN {sub} ELSE {}) = Head(campaign)
                  /\ ReportedSubs \intersect failed = {}
                  /\ todo \intersect (ReportedSubs \union failed) = {}
  /\ InSubsystem => sub \notin todo \union ReportedSubs \union failed
  /\ pc = "summary" => todo = {}

\* A manifest comes after its tables, and a result after its manifest.
Exported ==
  /\ pc = "manifest" => {<<sub, "baseline">>, <<sub, "unbalanced">>} \subseteq files
  /\ \A s \in Subsystems : <<s, "manifest">> \in files =>
       s \in ReportedSubs /\ {<<s, "baseline">>, <<s, "unbalanced">>} \subseteq files

\* What the storage assessor has measured by now.
CompleteSoFar ==
  /\ pc \in {"judge", "tables", "manifest"} => phase = "unbalanced"
  /\ InSubsystem /\ sub = "storage" =>
       /\ phase = "unbalanced" \/ pc = "clean" => \A t \in Tenants : samples["baseline"][t] = "all"
       /\ phase = "unbalanced" /\ pc \in {"clean", "judge", "tables", "manifest"} =>
            \A t \in Tenants : samples["unbalanced"][t] = "all"

\* A probe is there and new, or still to be created, now or when the tenants have met.
Standing(n) == pods[n] = "present" /\ n \in fresh
ToCome(t) ==
  Members(pending[t]) \union IF pc = "create" THEN Members(SecondOf(sub, t, phase)) ELSE {}
ProbesSoFar ==
  /\ pc \in {"preclean", "create", "second"} => sub # "control"
  /\ pc = "preclean" => /\ open = Tenants
                        /\ pending = [t \in Tenants |-> FirstOf(sub, t, phase)]
  /\ Creating => \A t \in Tenants :
       /\ t \notin open => pending[t] = <<>>
       /\ \A n \in ProbesOf(sub, t, phase) : Standing(n) \/ n \in ToCome(t)

\* The inductive invariant.
IInv ==
  /\ TypeOK /\ Accounted /\ Exported /\ CompleteSoFar /\ ProbesSoFar /\ SamplesAreFresh

(***************************************************************************)
(* Why what is left over is explained.                                     *)
(***************************************************************************)
Objects(s, p) == UNION {Members(FirstOf(s, t, p)) \union Members(SecondOf(s, t, p)) : t \in Tenants}
ToRemove == UNION Members(jobs)

\* What there is was left, or is of the phase: made by now, and not removed yet.
Ours(n) ==
  /\ InSubsystem /\ n \in fresh
  /\ \/ pc \in {"create", "second", "wait", "collect"} /\ n \in Objects(sub, phase)
        /\ n \notin ToCome(n.tenant)
     \/ pc = "clean" /\ n \in ToRemove
LeftSoFar == \A n \in There : Fading(n) \/ n \in abandoned \/ Ours(n)

\* Of what the storage assessor is to create nothing is there but what it did not get away.
ClearedSoFar ==
  sub = "storage" /\ pc \in {"preclean", "create", "second"} =>
    \A n \in Objects(sub, phase) \intersect There :
      \/ Fading(n)
      \/ IF pc = "preclean" THEN n \in ToRemove ELSE n \notin ToCome(n.tenant)

\* Each object is created once.
Apart(seq) == \A i, j \in DOMAIN seq : seq[i] = seq[j] => i = j
EachOnce ==
  Creating => \A t \in Tenants :
    /\ Apart(pending[t])
    /\ \A n \in ToCome(t) : n.part[1] = sub /\ n.tenant = t /\ n \in Objects(sub, phase)
    /\ pc = "create" => Members(pending[t]) \intersect Members(SecondOf(sub, t, phase)) = {}

\* What is on record as left behind is there.
OnRecord == \A n \in undeleted \union abandoned : pods[n] = "present"

\* The inductive invariant of what is left over, which rests on the other one.
LeftInv == OnRecord /\ LeftSoFar /\ ClearedSoFar /\ EachOnce

=============================================================================
