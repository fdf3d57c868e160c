------------------------ MODULE StorageVolumesProofs ------------------------
(***************************************************************************)
(* Theorems about StorageVolumes, for any plans of one or two operations,  *)
(* any nodes and any number of failing requests.                           *)
(***************************************************************************)
EXTENDS StorageVolumes, TLAPS

-----------------------------------------------------------------------------
(***************************************************************************)
(* Names, objects and lists.                                               *)
(***************************************************************************)
LEMMA Names ==
  /\ ByHand = {Named("retain"), Named("hp1"), Named("hp2")} /\ ByHand \subseteq Volume
  /\ Named("retain") # Named("hp1") /\ Named("retain") # Named("hp2") /\ Named("hp1") # Named("hp2")
  /\ Named("auth") \in Volume \ ByHand
  /\ NoVolume \notin Volume /\ NoVolume \notin FromClass /\ Named("wrong") \notin Volume
  /\ FromClass \intersect Volume = {}
  /\ Named("default") \in FromClass /\ Named("own") \in FromClass
  /\ Volume \subseteq Asks /\ FromClass \subseteq Asks /\ NoVolume \in Asks /\ Named("wrong") \in Asks
  /\ HostPathOf("tenant1") = Named("hp1") /\ HostPathOf("tenant2") = Named("hp2")
  /\ HostPathOf("tenant1").stage = 0 /\ \A v \in ByHand : v.stage = 0 /\ v.of \notin {"own", "default"}
BY DEF ByHand, Volume, Asks, FromClass, Named, NoVolume, HostPathOf, MaxStage

LEMMA Provisioned ==
  ASSUME NEW asks \in FromClass, NEW s \in 1 .. MaxStage
  PROVE  /\ [asks EXCEPT !.stage = s] \in Volume \ ByHand
         /\ [asks EXCEPT !.stage = s].stage = s
BY DEF ByHand, Volume, FromClass, Named, MaxStage

LEMMA Objects ==
  /\ \A t \in Tenants : SetOf(t) \in Object /\ ClaimOf(t) \in Object
  /\ \A t, u \in Tenants : SetOf(t) # ClaimOf(u)
  /\ \A t, u \in Tenants : t # u => SetOf(t) # SetOf(u) /\ ClaimOf(t) # ClaimOf(u)
  /\ \A t \in Tenants, v \in Volume : SetOf(t) # TheVolume(v) /\ ClaimOf(t) # TheVolume(v)
  /\ \A v, w \in Volume : v # w => TheVolume(v) # TheVolume(w)
  /\ \A v \in Volume : TheVolume(v) \in Object
  /\ \A object \in Object :
       \/ \E t \in Tenants : object = SetOf(t)
       \/ \E t \in Tenants : object = ClaimOf(t)
       \/ \E v \in Volume : object = TheVolume(v)
<1>1. \A v \in Volume : v = [of |-> v.of, stage |-> v.stage]
  BY DEF Volume, ByHand, Named
<1>2. \A v, w \in Volume : v # w => TheVolume(v) # TheVolume(w)
  <2>1. SUFFICES ASSUME NEW v \in Volume, NEW w \in Volume, TheVolume(v) = TheVolume(w)
                 PROVE  v = w
    OBVIOUS
  <2>2. v.of = w.of /\ v.stage = w.stage
    BY <2>1 DEF TheVolume
  <2> QED
    BY <1>1, <2>2
<1> QED
  BY <1>2 DEF SetOf, ClaimOf, TheVolume, Object, Tenants

LEMMA Kinds ==
  /\ \A t \in Tenants : /\ SetOf(t).kind = "set" /\ SetOf(t).of = t
                        /\ ClaimOf(t).kind = "claim" /\ ClaimOf(t).of = t
  /\ \A v \in Volume : TheVolume(v).kind = "volume" /\ VolumeOf(TheVolume(v)) = v
<1>1. \A v \in Volume : v = [of |-> v.of, stage |-> v.stage]
  BY DEF Volume, ByHand, Named
<1> QED
  BY <1>1 DEF SetOf, ClaimOf, TheVolume, VolumeOf

LEMMA Nones ==
  /\ NoSet \in Set /\ NoSet.live = FALSE /\ NoSet.stage = 0 /\ NoSet.asks = NoVolume
  /\ NoClaim \in Claim /\ NoClaim.asks = NoVolume /\ NoClaim.volume = NoVolume /\ NoClaim.going = FALSE
  /\ NoPod \in Pod /\ NoPod.job = "none" /\ NoPod.stage = 0 /\ NoPod.volume = NoVolume
  /\ NoPod.said = "nothing"
  /\ NoVolume \notin Volume
BY Names DEF NoSet, NoClaim, NoPod, Set, Claim, Pod, Job, Node, MaxStage

LEMMA Joined ==
  ASSUME NEW S, NEW a \in Seq(S), NEW b \in Seq(S)
  PROVE  ItemsOf(a \o b) = ItemsOf(a) \union ItemsOf(b)
<1>1. /\ a \o b \in Seq(S) /\ Len(a \o b) = Len(a) + Len(b)
      /\ \A i \in 1 .. Len(a) : (a \o b)[i] = a[i]
      /\ \A i \in 1 .. Len(b) : (a \o b)[Len(a) + i] = b[i]
  OBVIOUS
<1>2. Len(a) \in Nat /\ Len(b) \in Nat
  OBVIOUS
<1>3. ASSUME NEW x \in ItemsOf(a \o b)
      PROVE  x \in ItemsOf(a) \union ItemsOf(b)
  <2>1. PICK i \in 1 .. Len(a) + Len(b) : x = (a \o b)[i]
    BY <1>1, <1>3 DEF ItemsOf
  <2>2. CASE i <= Len(a)
    BY <1>1, <1>2, <2>1, <2>2 DEF ItemsOf
  <2>3. CASE i > Len(a)
    <3> DEFINE j == i - Len(a)
    <3>1. j \in 1 .. Len(b) /\ i = Len(a) + j
      BY <1>2, <2>3
    <3> QED
      BY <1>1, <2>1, <3>1 DEF ItemsOf
  <2> QED
    BY <1>2, <2>1, <2>2, <2>3
<1>4. ASSUME NEW x \in ItemsOf(a) \union ItemsOf(b)
      PROVE  x \in ItemsOf(a \o b)
  <2>1. CASE x \in ItemsOf(a)
    BY <1>1, <1>2, <2>1 DEF ItemsOf
  <2>2. CASE x \in ItemsOf(b)
    <3>1. PICK i \in 1 .. Len(b) : x = b[i]
      BY <2>2 DEF ItemsOf
    <3>2. Len(a) + i \in 1 .. Len(a) + Len(b)
      BY <1>2, <3>1
    <3> QED
      BY <1>1, <3>1, <3>2 DEF ItemsOf
  <2> QED
    BY <1>4, <2>1, <2>2
<1> QED
  BY <1>3, <1>4

LEMMA Shorter ==
  ASSUME NEW S, NEW list \in Seq(S), list # << >>
  PROVE  /\ Head(list) \in S /\ Head(list) \in ItemsOf(list)
         /\ Tail(list) \in Seq(S) /\ ItemsOf(Tail(list)) \subseteq ItemsOf(list)
         /\ \A x \in ItemsOf(list) : x = Head(list) \/ x \in ItemsOf(Tail(list))
         /\ Len(list) > 1 <=> Tail(list) # << >>
<1>1. Len(list) \in Nat /\ Len(list) >= 1 /\ Head(list) = list[1] /\ 1 \in DOMAIN list
  OBVIOUS
<1>2. /\ Tail(list) \in Seq(S) /\ Len(Tail(list)) = Len(list) - 1
      /\ \A i \in 1 .. Len(list) - 1 : Tail(list)[i] = list[i + 1]
  OBVIOUS
<1>3. ASSUME NEW x \in ItemsOf(Tail(list))
      PROVE  x \in ItemsOf(list)
  <2>1. PICK i \in 1 .. Len(list) - 1 : x = list[i + 1]
    BY <1>2, <1>3 DEF ItemsOf
  <2> QED
    BY <1>1, <2>1 DEF ItemsOf
<1>4. ASSUME NEW x \in ItemsOf(list), x # Head(list)
      PROVE  x \in ItemsOf(Tail(list))
  <2>1. PICK i \in 1 .. Len(list) : x = list[i]
    BY <1>4 DEF ItemsOf
  <2> DEFINE j == i - 1
  <2>2. j \in 1 .. Len(list) - 1 /\ j + 1 = i
    BY <1>1, <1>4, <2>1
  <2>3. Tail(list)[j] = x
    BY <1>2, <2>1, <2>2
  <2>4. j \in DOMAIN Tail(list)
    BY <1>1, <1>2, <2>2
  <2> HIDE DEF j
  <2> QED
    BY <2>3, <2>4 DEF ItemsOf
<1>5. Head(list) \in S /\ Head(list) \in ItemsOf(list)
  BY <1>1 DEF ItemsOf
<1>6. Tail(list) = << >> <=> Len(Tail(list)) = 0
  BY <1>2
<1> QED
  BY <1>1, <1>2, <1>3, <1>4, <1>5, <1>6

LEMMA Lists ==
  /\ ItemsOf(<< >>) = {} /\ << >> \in Seq(Object)
  /\ \A x \in Object : <<x>> # << >> /\ ItemsOf(<<x>>) = {x} /\ <<x>> \in Seq(Object)
  /\ \A x, y \in Object :
       <<x, y>> # << >> /\ ItemsOf(<<x, y>>) = {x, y} /\ <<x, y>> \in Seq(Object)
  /\ \A x, y, z \in Object :
       <<x, y, z>> # << >> /\ ItemsOf(<<x, y, z>>) = {x, y, z} /\ <<x, y, z>> \in Seq(Object)
<1>1. ItemsOf(<< >>) = {}
  BY DEF ItemsOf
<1>2. \A x : ItemsOf(<<x>>) = {x}
  BY DEF ItemsOf
<1>3. \A x, y : ItemsOf(<<x, y>>) = {x, y}
  <2> TAKE x, y
  <2>1. DOMAIN <<x, y>> = {1, 2}
    OBVIOUS
  <2> QED
    BY <2>1 DEF ItemsOf
<1>4. \A x, y, z : ItemsOf(<<x, y, z>>) = {x, y, z}
  <2> TAKE x, y, z
  <2>1. DOMAIN <<x, y, z>> = {1, 2, 3}
    OBVIOUS
  <2> QED
    BY <2>1 DEF ItemsOf
<1> QED
  BY <1>1, <1>2, <1>3, <1>4

LEMMA CleanUps ==
  /\ \A t \in Tenants :
       /\ CleanUpOf(t) \in Seq(Object) /\ CleanUpOf(t) # << >>
       /\ ItemsOf(CleanUpOf(t)) = {SetOf(t), ClaimOf(t), TheVolume(HostPathOf(t))}
  /\ CleanUpBoth \in Seq(Object) /\ CleanUpBoth # << >>
  /\ ItemsOf(CleanUpBoth) = UNION {{SetOf(t), ClaimOf(t), TheVolume(HostPathOf(t))} : t \in Tenants}
<1>1. \A t \in Tenants : HostPathOf(t) \in Volume
  BY Names DEF Tenants
<1>2. \A t \in Tenants :
       /\ CleanUpOf(t) \in Seq(Object) /\ CleanUpOf(t) # << >>
       /\ ItemsOf(CleanUpOf(t)) = {SetOf(t), ClaimOf(t), TheVolume(HostPathOf(t))}
  BY <1>1, Lists, Objects DEF CleanUpOf, CleanUp
<1>3. CleanUpBoth \in Seq(Object) /\ CleanUpBoth # << >>
  BY <1>2 DEF CleanUpBoth, Tenants
<1>4. ItemsOf(CleanUpBoth) = ItemsOf(CleanUpOf("tenant1")) \union ItemsOf(CleanUpOf("tenant2"))
  BY <1>2, Joined DEF CleanUpBoth, Tenants
<1> QED
  BY <1>2, <1>3, <1>4 DEF Tenants

-----------------------------------------------------------------------------
(***************************************************************************)
(* Requests.                                                               *)
(***************************************************************************)
LEMMA Returned ==
  ASSUME NEW level \in {"None", "Unknown", "Soft", "Hard"}, NEW why \in Why, NEW todo,
         Return(level, why, todo)
  PROVE  /\ result' \in Result /\ result' # Pending
         /\ result'.why = why
         /\ errands' = todo /\ Todo' = ItemsOf(todo)
         /\ todo = << >> => pc' = "next"
         /\ todo # << >> => pc' = "errands"
         /\ UNCHANGED <<plan, stage, apart>> /\ test' = test
<1>1. result' = [level |-> level, why |-> why]
  BY DEF Return
<1>2. result' # Pending
  BY <1>1 DEF Pending
<1> QED
  BY <1>1, <1>2 DEF Return, Result, Todo, test

LEMMA Gone ==
  ASSUME NEW label, Goto(label)
  PROVE  /\ pc' = label /\ UNCHANGED <<plan, stage, errands, result, apart>>
         /\ test' = test /\ Todo' = Todo
BY DEF Goto, test, Todo

LEMMA RemovedSet ==
  ASSUME TypeOK, NEW t \in Tenants, Remove(SetOf(t))
  PROVE  /\ UNCHANGED <<claim, volumes, doomed, holder>>
         /\ set' \in [Tenants -> Set]
         /\ \A u \in Tenants : u # t => set'[u] = set[u]
         /\ claim[t] # NoClaim => set'[t] = NoSet
         /\ claim[t] = NoClaim => /\ set'[t].job = set[t].job /\ set'[t].stage = set[t].stage
                                  /\ set'[t].asks = set[t].asks
         /\ ~ set'[t].live /\ set'[t].stage <= set[t].stage
         /\ set[t] = NoSet => set'[t] = NoSet
<1>1. /\ set' = [set EXCEPT ![t] = IF claim[t] = NoClaim THEN [@ EXCEPT !.live = FALSE] ELSE NoSet]
      /\ UNCHANGED <<claim, volumes, doomed, holder>>
  BY Kinds DEF Remove
<1>2. set \in [Tenants -> Set] /\ set[t] \in Set
  BY DEF TypeOK
<1>3. [set[t] EXCEPT !.live = FALSE] \in Set
  BY <1>2 DEF Set
<1>4. NoSet = [NoSet EXCEPT !.live = FALSE]
  BY Nones DEF Set
<1>5. set[t].stage \in 0 .. MaxStage /\ NoSet.stage = 0 /\ NoSet \in Set
  BY <1>2, Nones DEF Set
<1>6. /\ \A u \in Tenants : u # t => set'[u] = set[u]
      /\ claim[t] = NoClaim => set'[t] = [set[t] EXCEPT !.live = FALSE]
      /\ claim[t] # NoClaim => set'[t] = NoSet
      /\ set' \in [Tenants -> Set]
  BY <1>1, <1>2, <1>3, <1>5
<1>7. CASE claim[t] = NoClaim
  BY <1>1, <1>2, <1>4, <1>5, <1>6, <1>7 DEF Set, MaxStage
<1>8. CASE claim[t] # NoClaim
  BY <1>1, <1>2, <1>5, <1>6, <1>8, Nones DEF MaxStage
<1> QED
  BY <1>7, <1>8

LEMMA RemovedClaim ==
  ASSUME TypeOK, NEW t \in Tenants, Remove(ClaimOf(t))
  PROVE  /\ UNCHANGED <<set, volumes, doomed, holder>>
         /\ claim' \in [Tenants -> Claim]
         /\ \A u \in Tenants : /\ u # t => claim'[u] = claim[u]
                               /\ claim'[u].asks = claim[u].asks /\ claim'[u].volume = claim[u].volume
                               /\ claim[u] = NoClaim <=> claim'[u] = NoClaim
                               /\ claim[u].going => claim'[u].going
         /\ claim'[t] = NoClaim \/ claim'[t].going
<1>1. /\ claim' = [claim EXCEPT ![t].going = claim[t] # NoClaim]
      /\ UNCHANGED <<set, volumes, doomed, holder>>
  BY Kinds DEF Remove
<1>2. claim \in [Tenants -> Claim] /\ claim[t] \in Claim
  BY DEF TypeOK
<1> DEFINE b == claim[t] # NoClaim
<1>3. b \in BOOLEAN
  OBVIOUS
<1>4. claim' = [claim EXCEPT ![t].going = b]
  BY <1>1
<1> HIDE DEF b
<1>5. /\ claim' \in [Tenants -> Claim]
      /\ \A u \in Tenants : u # t => claim'[u] = claim[u]
      /\ claim'[t] = [claim[t] EXCEPT !.going = b]
  BY <1>2, <1>3, <1>4 DEF Claim
<1>6. /\ claim'[t].asks = claim[t].asks /\ claim'[t].volume = claim[t].volume
      /\ claim'[t].going = b
  BY <1>2, <1>5 DEF Claim
<1>7. CASE claim[t] = NoClaim
  <2>1. b = FALSE
    BY <1>7 DEF b
  <2>2. claim'[t] = NoClaim
    BY <1>2, <1>5, <1>7, <2>1, Nones DEF Claim
  <2> QED
    BY <1>1, <1>5, <1>6, <1>7, <2>2
<1>8. CASE claim[t] # NoClaim
  <2>1. b = TRUE
    BY <1>8 DEF b
  <2>2. claim'[t].going /\ claim'[t] # NoClaim
    BY <1>6, <2>1, Nones
  <2> QED
    BY <1>1, <1>5, <1>6, <1>8, <2>2
<1> QED
  BY <1>7, <1>8

LEMMA RemovedVolume ==
  ASSUME TypeOK, NEW v \in Volume, Remove(TheVolume(v))
  PROVE  /\ UNCHANGED <<set, claim, volumes, holder>>
         /\ doomed \subseteq doomed' /\ doomed' \subseteq volumes
         /\ v \notin volumes \ doomed'
BY Kinds DEF TypeOK, Remove

\* A delete is done, or is owed.
LEMMA DeletedSet ==
  ASSUME TypeOK, NEW t \in Tenants, Delete(SetOf(t))
  PROVE  /\ UNCHANGED <<claim, volumes, doomed, holder>>
         /\ set' \in [Tenants -> Set]
         /\ \A u \in Tenants : u # t => set'[u] = set[u]
         /\ \/ /\ claim[t] # NoClaim => set'[t] = NoSet
               /\ claim[t] = NoClaim => /\ set'[t].job = set[t].job /\ set'[t].asks = set[t].asks
                                        /\ set'[t].stage = set[t].stage
               /\ ~ set'[t].live /\ set'[t].stage <= set[t].stage
               /\ set[t] = NoSet => set'[t] = NoSet
               /\ mishaps' = mishaps /\ owed' = owed \ {SetOf(t)}
            \/ set' = set /\ stage = 1 /\ mishaps' = mishaps + 1 /\ owed' = owed \union {SetOf(t)}
         /\ mishaps' \in 0 .. MaxMishaps /\ owed' \subseteq Object
<1>1. CASE Remove(SetOf(t)) /\ owed' = owed \ {SetOf(t)} /\ UNCHANGED mishaps
  BY <1>1, RemovedSet DEF TypeOK
<1>2. CASE Mishap /\ owed' = owed \union {SetOf(t)} /\ UNCHANGED objects
  BY <1>2, MishapsAssumption, Objects DEF TypeOK, Mishap, MayFail, objects
<1> QED
  BY <1>1, <1>2 DEF Delete

LEMMA DeletedClaim ==
  ASSUME TypeOK, NEW t \in Tenants, Delete(ClaimOf(t))
  PROVE  /\ UNCHANGED <<set, volumes, doomed, holder>>
         /\ claim' \in [Tenants -> Claim]
         /\ \A u \in Tenants : /\ u # t => claim'[u] = claim[u]
                               /\ claim'[u].asks = claim[u].asks /\ claim'[u].volume = claim[u].volume
                               /\ claim[u] = NoClaim <=> claim'[u] = NoClaim
                               /\ claim[u].going => claim'[u].going
         /\ \/ /\ claim'[t] = NoClaim \/ claim'[t].going
               /\ mishaps' = mishaps /\ owed' = owed \ {ClaimOf(t)}
            \/ claim' = claim /\ stage = 1 /\ mishaps' = mishaps + 1 /\ owed' = owed \union {ClaimOf(t)}
         /\ mishaps' \in 0 .. MaxMishaps /\ owed' \subseteq Object
<1>1. CASE Remove(ClaimOf(t)) /\ owed' = owed \ {ClaimOf(t)} /\ UNCHANGED mishaps
  BY <1>1, RemovedClaim DEF TypeOK
<1>2. CASE Mishap /\ owed' = owed \union {ClaimOf(t)} /\ UNCHANGED objects
  BY <1>2, MishapsAssumption, Objects DEF TypeOK, Mishap, MayFail, objects
<1> QED
  BY <1>1, <1>2 DEF Delete

LEMMA DeletedVolume ==
  ASSUME TypeOK, NEW v \in Volume, Delete(TheVolume(v))
  PROVE  /\ UNCHANGED <<set, claim, volumes, holder>>
         /\ doomed \subseteq doomed' /\ doomed' \subseteq volumes
         /\ \/ /\ v \notin volumes \ doomed'
               /\ mishaps' = mishaps /\ owed' = owed \ {TheVolume(v)}
            \/ doomed' = doomed /\ stage = 1 /\ mishaps' = mishaps + 1 /\ owed' = owed \union {TheVolume(v)}
         /\ mishaps' \in 0 .. MaxMishaps /\ owed' \subseteq Object
<1>1. CASE Remove(TheVolume(v)) /\ owed' = owed \ {TheVolume(v)} /\ UNCHANGED mishaps
  BY <1>1, RemovedVolume DEF TypeOK
<1>2. CASE Mishap /\ owed' = owed \union {TheVolume(v)} /\ UNCHANGED objects
  BY <1>2, MishapsAssumption, Objects DEF TypeOK, Mishap, MayFail, objects
<1> QED
  BY <1>1, <1>2 DEF Delete

LEMMA Answered ==
  ASSUME NEW taken \in BOOLEAN, NEW answer \in Answers(taken)
  PROVE  /\ answer \in {"ok", "taken", "refused", "failed", "lost"}
         /\ Done(answer) => ~ taken
         /\ answer = "taken" => taken
         /\ answer \in Broken <=> answer \in {"refused", "failed", "lost"}
         /\ answer \in Broken => stage = 1 /\ mishaps < MaxMishaps
BY DEF Answers, Broken, MayFail, Done

LEMMA Accounted ==
  ASSUME TypeOK, NEW taken \in BOOLEAN, NEW answer \in Answers(taken),
         Account(answer)
  PROVE  /\ mishaps' \in 0 .. MaxMishaps /\ owed' \subseteq Object
         /\ answer \in {"ok", "taken"} => mishaps' = mishaps
         /\ answer \notin {"ok", "taken"} => mishaps' = mishaps + 1 /\ stage = 1
         /\ owed' = owed
BY Answered, MishapsAssumption DEF Account, TypeOK

LEMMA CreatedSet ==
  ASSUME TypeOK, NEW t \in Tenants, NEW job \in Job, NEW asks \in Asks, NEW answer,
         CreateSet(t, job, asks, answer)
  PROVE  /\ answer \in {"ok", "taken", "refused", "failed", "lost"}
         /\ UNCHANGED <<claim, volumes, doomed, holder>>
         /\ set' \in [Tenants -> Set]
         /\ \A u \in Tenants : u # t => set'[u] = set[u]
         /\ answer \in {"ok", "lost"} =>
              /\ ~ set[t].live
              /\ set'[t].job = job /\ set'[t].stage = stage /\ set'[t].asks = asks /\ set'[t].live
         /\ answer \notin {"ok", "lost"} => set' = set
         /\ answer = "taken" => set[t].live
         /\ mishaps' \in 0 .. MaxMishaps /\ owed' \subseteq Object
         /\ answer \in {"ok", "taken"} => mishaps' = mishaps
         /\ answer \notin {"ok", "taken"} => mishaps' = mishaps + 1 /\ stage = 1
         /\ owed' = owed
<1>1. set \in [Tenants -> Set] /\ stage \in 1 .. MaxStage /\ set[t].live \in BOOLEAN
  BY DEF TypeOK, Set
<1>2. /\ answer \in Answers(set[t].live) /\ Account(answer)
      /\ UNCHANGED <<claim, volumes, doomed, holder>>
      /\ set' = IF Done(answer)
                  THEN [set EXCEPT ![t] = [job |-> job, stage |-> stage, asks |-> asks, live |-> TRUE]]
                  ELSE set
  BY DEF CreateSet
<1>3. [job |-> job, stage |-> stage, asks |-> asks, live |-> TRUE] \in Set
  BY <1>1 DEF Set, MaxStage
<1>4. /\ answer \in {"ok", "taken", "refused", "failed", "lost"}
      /\ Done(answer) => ~ set[t].live
      /\ answer = "taken" => set[t].live
  BY <1>1, <1>2, Answered
<1>5. /\ mishaps' \in 0 .. MaxMishaps /\ owed' \subseteq Object
      /\ answer \in {"ok", "taken"} => mishaps' = mishaps
      /\ answer \notin {"ok", "taken"} => mishaps' = mishaps + 1 /\ stage = 1
      /\ owed' = owed
  BY <1>1, <1>2, Accounted, Objects
<1>6. /\ set' \in [Tenants -> Set]
      /\ \A u \in Tenants : u # t => set'[u] = set[u]
      /\ answer \in {"ok", "lost"} =>
           set'[t] = [job |-> job, stage |-> stage, asks |-> asks, live |-> TRUE]
      /\ answer \notin {"ok", "lost"} => set' = set
  BY <1>1, <1>2, <1>3 DEF Done
<1> QED
  BY <1>2, <1>4, <1>5, <1>6 DEF Done

LEMMA CreatedVolume ==
  ASSUME TypeOK, NEW v \in Volume, NEW answer, CreateVolume(v, answer)
  PROVE  /\ answer \in {"ok", "taken", "refused", "failed", "lost"}
         /\ UNCHANGED <<set, claim, doomed, holder>>
         /\ volumes' = volumes \/ (volumes' = volumes \union {v} /\ answer \in {"ok", "lost"})
         /\ volumes' \subseteq Volume
         /\ mishaps' \in 0 .. MaxMishaps /\ owed' \subseteq Object
         /\ answer \in {"ok", "taken"} => mishaps' = mishaps
         /\ answer \notin {"ok", "taken"} => mishaps' = mishaps + 1 /\ stage = 1
         /\ answer = "taken" => v \in volumes
         /\ owed' = owed
<1> DEFINE taken == v \in volumes
<1>1. taken \in BOOLEAN /\ answer \in Answers(taken) /\ Account(answer)
  BY DEF CreateVolume
<1>2. answer = "taken" => v \in volumes
  BY <1>1, Answered
<1> HIDE DEF taken
<1>3. answer \in {"ok", "taken", "refused", "failed", "lost"}
  BY <1>1, Answered
<1>4. /\ mishaps' \in 0 .. MaxMishaps /\ owed' \subseteq Object
      /\ answer \in {"ok", "taken"} => mishaps' = mishaps
      /\ answer \notin {"ok", "taken"} => mishaps' = mishaps + 1 /\ stage = 1
      /\ owed' = owed
  BY <1>1, Accounted, Objects
<1>5. /\ volumes' = volumes \/ (volumes' = volumes \union {v} /\ answer \in {"ok", "lost"})
      /\ UNCHANGED <<set, claim, doomed, holder>>
  BY DEF CreateVolume, Done
<1> QED
  BY <1>2, <1>3, <1>4, <1>5 DEF TypeOK

LEMMA Labelled ==
  {"authorize", "unauth", "auth_set", "auth_unset", "class", "hand", "write", "written", "info",
   "release_set", "release_claim", "release_volume", "look", "read", "mount", "logs", "hp_volume1",
   "confirm", "hp_volume2", "ready2", "unhand", "why1", "why2", "errands", "next", "over"}
  \subseteq Labels
BY DEF Labels

LEMMA Typed ==
  ASSUME TypeOK, NEW t \in Tenants
  PROVE  /\ set[t] \in Set /\ claim[t] \in Claim /\ pod[t] \in Pod
         /\ set[t].stage \in 0 .. MaxStage /\ set[t].asks \in Asks /\ set[t].live \in BOOLEAN
         /\ set[t].job \in Job
         /\ claim[t].asks \in Asks /\ claim[t].volume \in Volume \union {NoVolume}
         /\ claim[t].going \in BOOLEAN
         /\ pod[t].stage \in 0 .. MaxStage /\ pod[t].volume \in Volume \union {NoVolume}
         /\ pod[t].node \in Node
BY DEF TypeOK, Set, Claim, Pod

-----------------------------------------------------------------------------
(***************************************************************************)
(* The cluster.                                                            *)
(***************************************************************************)
\* What the harness keeps to itself.
Aside ==
  /\ pc # "over"
  /\ UNCHANGED <<plan, stage, pc, local, errands, result, faults>>
LEMMA MakesClaimStep ==
  ASSUME IInv, NEW t \in Tenants, MakesClaim(t), Aside, UNCHANGED apart, UNCHANGED earlier
  PROVE  IInv'
<1>1. /\ set[t] # NoSet /\ claim[t] = NoClaim /\ pc # "over"
      /\ test' = test /\ Todo' = Todo
      /\ UNCHANGED <<plan, stage, pc, pod, doomed, files, refusal, own, measured, error, errands,
                     result, mishaps, owed, apart, wrote, heard>>
  BY DEF MakesClaim, test, Todo, Aside, local, faults, world, objects, IInv, TypeOK
<1>2. /\ pod[t] = NoPod
  BY <1>1, Nones DEF Shape, Tenants, IInv, TypeOK
<1>3. /\ set' \in [Tenants -> Set] /\ \A u \in Tenants : u # t => set'[u] = set[u]
      /\ set[t].live => set'[t] = set[t]
      /\ ~ set[t].live => set'[t] = NoSet
  BY <1>1, <1>2, Nones DEF MakesClaim, IInv, TypeOK
<1>4. /\ claim' \in [Tenants -> Claim] /\ \A u \in Tenants : u # t => claim'[u] = claim[u]
      /\ claim'[t].asks = set[t].asks /\ ~ claim'[t].going
      /\ \/ /\ claim'[t].volume \in Volume \ ByHand /\ claim'[t].volume \notin volumes
            /\ volumes' = volumes \union {claim'[t].volume}
         \/ claim'[t].volume = NoVolume /\ volumes' = volumes
      /\ holder' \in [Volume -> Tenants \union {"none", "lost"}]
  <2> DEFINE asks == set[t].asks  v == [asks EXCEPT !.stage = stage]
  <2>1. asks \in Asks /\ claim \in [Tenants -> Claim] /\ stage \in 1 .. MaxStage
    BY Typed DEF IInv, TypeOK
  <2>2. CASE asks \in FromClass
    <3>1. v \in Volume \ ByHand
      BY <2>1, <2>2, Provisioned
    <3>2. /\ v \notin volumes /\ volumes' = volumes \union {v} /\ holder' = [holder EXCEPT ![v] = t]
          /\ claim' = [claim EXCEPT ![t] = [asks |-> asks, volume |-> v, going |-> FALSE]]
      BY <2>2 DEF MakesClaim
    <3>3. [asks |-> asks, volume |-> v, going |-> FALSE] \in Claim
      BY <2>1, <3>1 DEF Claim
    <3> HIDE DEF asks, v
    <3>4. /\ claim' \in [Tenants -> Claim] /\ \A u \in Tenants : u # t => claim'[u] = claim[u]
          /\ claim'[t] = [asks |-> asks, volume |-> v, going |-> FALSE]
      BY <2>1, <3>2, <3>3
    <3> QED
      BY <3>1, <3>2, <3>4, Nones DEF asks, IInv, TypeOK
  <2>3. CASE asks \notin FromClass
    <3>1. /\ volumes' = volumes /\ holder' = holder
          /\ claim' = [claim EXCEPT ![t] = [NoClaim EXCEPT !.asks = asks]]
      BY <2>3 DEF MakesClaim
    <3> DEFINE new == [NoClaim EXCEPT !.asks = asks]
    <3>2. new \in Claim /\ new.asks = asks /\ new.volume = NoVolume /\ ~ new.going
      BY <2>1, Nones DEF Claim
    <3>3. claim' = [claim EXCEPT ![t] = new]
      BY <3>1
    <3> HIDE DEF new
    <3>4. /\ claim' \in [Tenants -> Claim] /\ \A u \in Tenants : u # t => claim'[u] = claim[u]
          /\ claim'[t] = new
      BY <2>1, <3>2, <3>3
    <3> QED
      BY <3>1, <3>2, <3>4, Nones DEF IInv, TypeOK
  <2> QED
    BY <2>2, <2>3
<1>5. TypeOK'
  BY <1>1, <1>2, <1>3, <1>4, Labelled
  DEF IInv, TypeOK
<1>6. Course'
  BY <1>1, <1>2, <1>3, <1>4
  DEF IInv, Course, FirstErrands, Bound, Reading, Tenants
<1>7. Shape'
  BY <1>1, <1>2, <1>3, <1>4, Nones
  DEF IInv, Shape, JobsOf, SaysOf, Tenants, TypeOK
<1>8. HostPathsToGo'
  BY <1>1, <1>2, <1>3, <1>4, Objects, Names
  DEF IInv, HostPathsToGo, HostPathInUse, VolumeAway, Spared, Course, Tenants, TypeOK
<1>9. SetsToGo'
  BY <1>1, <1>2, <1>3, <1>4, Nones, Objects, Names
  DEF IInv, SetsToGo, SetInUse, SetAway, Course, Tenants, TypeOK, Shape
<1>10. ClaimsToGo'
  BY <1>1, <1>2, <1>3, <1>4, Nones, Objects, Names
  DEF IInv, ClaimsToGo, Settled, Owned, ClaimAway, WasReady, Tenants, TypeOK, Shape, JobsOf
<1>11. Standing'
  BY <1>1, <1>2, <1>3, <1>4, Nones
  DEF IInv, Standing, WriterStands, Owned, Confirmed, Course, Shape, JobsOf, Tenants, TypeOK
<1>12. VolumeCleanUp'
  BY <1>1, <1>2, <1>3, <1>4, Nones, Objects
  DEF IInv, VolumeCleanUp, Reading, Settled, Owned, SetAway, ClaimAway, VolumeAway, Course, Shape,
      JobsOf, Tenants, TypeOK
<1>13. Written'
  BY <1>1, <1>2, <1>3, <1>4, Nones
  DEF IInv, Written, Writing, WriterStands, Unbegun, FirstErrands, Early, Confirmed, Course,
      Shape, JobsOf, Tenants, TypeOK
<1>14. IntruderSays'
  BY <1>1, <1>2, <1>3, <1>4, Nones
  DEF IInv, IntruderSays, Written, Shape, Tenants, TypeOK
<1>15. Measured'
  BY <1>1, <1>2, <1>3, <1>4, Nones
  DEF IInv, Measured, Writing, Reading, Course, Shape, Tenants, TypeOK
<1>16. Unhindered'
  BY <1>1, <1>2, <1>3, <1>4, Nones
  DEF IInv, Unhindered, FirstErrands, Early, Course, Shape, Tenants, TypeOK
<1>17. ByHandOnly'
  BY <1>1, <1>2, <1>3, <1>4, Nones, Names, Objects
  DEF IInv, ByHandOnly, Handled, FirstErrands, Early, Course, Shape, Tenants, TypeOK
<1> QED
  BY <1>5, <1>6, <1>7, <1>8, <1>9, <1>10, <1>11, <1>12, <1>13, <1>14, <1>15, <1>16, <1>17 DEF IInv
LEMMA NoticesStep ==
  ASSUME IInv, NEW t \in Tenants, Notices(t), Aside, UNCHANGED apart, UNCHANGED earlier
  PROVE  IInv'
<1>1. /\ pc # "over" /\ set[t] # NoSet /\ ~ set[t].live
      /\ set' \in [Tenants -> Set] /\ \A u \in Tenants : u # t => set'[u] = set[u]
      /\ set'[t] = NoSet
      /\ test' = test /\ Todo' = Todo
      /\ UNCHANGED <<plan, stage, pc, claim, pod, volumes, doomed, holder, files, refusal, own,
                     measured, error, errands, result, mishaps, owed, apart, wrote, heard>>
  BY Nones DEF Notices, test, Todo, Aside, local, faults, world, objects, IInv, TypeOK
<1>2. TypeOK'
  BY <1>1, Labelled
  DEF IInv, TypeOK
<1>3. Course'
  BY <1>1
  DEF IInv, Course, FirstErrands, Bound, Reading, Tenants
<1>4. Shape'
  BY <1>1, Nones
  DEF IInv, Shape, JobsOf, SaysOf, Tenants, TypeOK
<1>5. HostPathsToGo'
  BY <1>1, Objects, Names
  DEF IInv, HostPathsToGo, HostPathInUse, VolumeAway, Spared, Course, Tenants, TypeOK
<1>6. SetsToGo'
  BY <1>1, Nones, Objects, Names
  DEF IInv, SetsToGo, SetInUse, SetAway, Course, Tenants, TypeOK, Shape
<1>7. ClaimsToGo'
  BY <1>1, Nones, Objects, Names
  DEF IInv, ClaimsToGo, Settled, Owned, ClaimAway, WasReady, Tenants, TypeOK, Shape, JobsOf
<1>8. Standing'
  BY <1>1, Nones
  DEF IInv, Standing, WriterStands, Owned, Confirmed, Course, Shape, JobsOf, Tenants, TypeOK
<1>9. VolumeCleanUp'
  BY <1>1, Nones, Objects
  DEF IInv, VolumeCleanUp, Reading, Settled, Owned, SetAway, ClaimAway, VolumeAway, Course, Shape,
      JobsOf, Tenants, TypeOK
<1>10. Written'
  BY <1>1, Nones
  DEF IInv, Written, Writing, WriterStands, Unbegun, FirstErrands, Early, Confirmed, Course,
      Shape, JobsOf, Tenants, TypeOK
<1>11. IntruderSays'
  BY <1>1, Nones
  DEF IInv, IntruderSays, Written, Shape, Tenants, TypeOK
<1>12. Measured'
  BY <1>1, Nones
  DEF IInv, Measured, Writing, Reading, Course, Shape, Tenants, TypeOK
<1>13. Unhindered'
  BY <1>1, Nones
  DEF IInv, Unhindered, FirstErrands, Early, Course, Shape, Tenants, TypeOK
<1>14. ByHandOnly'
  BY <1>1, Nones, Names, Objects
  DEF IInv, ByHandOnly, Handled, FirstErrands, Early, Course, Shape, Tenants, TypeOK
<1> QED
  BY <1>2, <1>3, <1>4, <1>5, <1>6, <1>7, <1>8, <1>9, <1>10, <1>11, <1>12, <1>13, <1>14 DEF IInv
LEMMA RefusesStep ==
  ASSUME IInv, NEW t \in Tenants, Refuses(t), Aside, UNCHANGED apart, UNCHANGED earlier
  PROVE  IInv'
<1>1. /\ pc # "over" /\ refusal' \in [Tenants -> {"none", "before", "now"}]
      /\ test' = test /\ Todo' = Todo
      /\ UNCHANGED <<plan, stage, pc, set, claim, pod, volumes, doomed, holder, files, own,
                     measured, error, errands, result, mishaps, owed, apart, wrote, heard>>
  BY DEF Refuses, test, Todo, Aside, local, faults, world, objects, IInv, TypeOK
<1>2. TypeOK'
  BY <1>1, Labelled
  DEF IInv, TypeOK
<1>3. Course'
  BY <1>1
  DEF IInv, Course, FirstErrands, Bound, Reading, Tenants
<1>4. Shape'
  BY <1>1, Nones
  DEF IInv, Shape, JobsOf, SaysOf, Tenants, TypeOK
<1>5. HostPathsToGo'
  BY <1>1, Objects, Names
  DEF IInv, HostPathsToGo, HostPathInUse, VolumeAway, Spared, Course, Tenants, TypeOK
<1>6. SetsToGo'
  BY <1>1, Nones, Objects, Names
  DEF IInv, SetsToGo, SetInUse, SetAway, Course, Tenants, TypeOK, Shape
<1>7. ClaimsToGo'
  BY <1>1, Nones, Objects, Names
  DEF IInv, ClaimsToGo, Settled, Owned, ClaimAway, WasReady, Tenants, TypeOK, Shape, JobsOf
<1>8. Standing'
  BY <1>1, Nones
  DEF IInv, Standing, WriterStands, Owned, Confirmed, Course, Shape, JobsOf, Tenants, TypeOK
<1>9. VolumeCleanUp'
  BY <1>1, Nones, Objects
  DEF IInv, VolumeCleanUp, Reading, Settled, Owned, SetAway, ClaimAway, VolumeAway, Course, Shape,
      JobsOf, Tenants, TypeOK
<1>10. Written'
  BY <1>1, Nones
  DEF IInv, Written, Writing, WriterStands, Unbegun, FirstErrands, Early, Confirmed, Course,
      Shape, JobsOf, Tenants, TypeOK
<1>11. IntruderSays'
  BY <1>1, Nones
  DEF IInv, IntruderSays, Written, Shape, Tenants, TypeOK
<1>12. Measured'
  BY <1>1, Nones
  DEF IInv, Measured, Writing, Reading, Course, Shape, Tenants, TypeOK
<1>13. Unhindered'
  BY <1>1, Nones
  DEF IInv, Unhindered, FirstErrands, Early, Course, Shape, Tenants, TypeOK
<1>14. ByHandOnly'
  BY <1>1, Nones, Names, Objects
  DEF IInv, ByHandOnly, Handled, FirstErrands, Early, Course, Shape, Tenants, TypeOK
<1> QED
  BY <1>2, <1>3, <1>4, <1>5, <1>6, <1>7, <1>8, <1>9, <1>10, <1>11, <1>12, <1>13, <1>14 DEF IInv
LEMMA BindsStep ==
  ASSUME IInv, NEW t \in Tenants, Binds(t), Aside, UNCHANGED earlier
  PROVE  IInv'
<1>1. /\ pc # "over" /\ claim[t].asks \in volumes \ doomed /\ claim[t].volume = NoVolume
      /\ apart' = apart \/ (apart # "yes" /\ apart' = "no")
      /\ test' = test /\ Todo' = Todo
      /\ UNCHANGED <<plan, stage, pc, set, pod, volumes, doomed, files, refusal, own, measured,
                     error, errands, result, mishaps, owed, wrote, heard>>
  BY DEF Binds, test, Todo, Aside, local, faults, world, objects, IInv, TypeOK
<1>2. /\ pod[t] = NoPod
  BY <1>1, Nones DEF Shape, Tenants, IInv, TypeOK
<1>3. /\ claim' \in [Tenants -> Claim] /\ \A u \in Tenants : u # t => claim'[u] = claim[u]
      /\ claim'[t].asks = claim[t].asks /\ claim'[t].going = claim[t].going
      /\ claim'[t].volume = claim[t].asks
      /\ holder' \in [Volume -> Tenants \union {"none", "lost"}]
  <2>1. claim \in [Tenants -> Claim] /\ claim[t] \in Claim /\ claim[t].asks \in Volume
    BY <1>1 DEF IInv, TypeOK
  <2> DEFINE new == [claim[t] EXCEPT !.volume = claim[t].asks]
  <2>2. /\ new \in Claim /\ new.asks = claim[t].asks /\ new.going = claim[t].going
        /\ new.volume = claim[t].asks
    BY <2>1 DEF Claim
  <2>3. claim' = [claim EXCEPT ![t] = new]
    BY <2>1 DEF Binds
  <2> HIDE DEF new
  <2>4. /\ claim' \in [Tenants -> Claim] /\ \A u \in Tenants : u # t => claim'[u] = claim[u]
        /\ claim'[t] = new
    BY <2>1, <2>2, <2>3
  <2>5. holder' \in [Volume -> Tenants \union {"none", "lost"}]
    BY DEF Binds, IInv, TypeOK
  <2> QED
    BY <2>2, <2>4, <2>5
<1>4. TypeOK'
  BY <1>1, <1>2, <1>3, Labelled
  DEF IInv, TypeOK
<1>5. Course'
  BY <1>1, <1>2, <1>3
  DEF IInv, Course, FirstErrands, Bound, Reading, Tenants
<1>6. Shape'
  BY <1>1, <1>2, <1>3, Nones
  DEF IInv, Shape, JobsOf, SaysOf, Tenants, TypeOK
<1>7. HostPathsToGo'
  BY <1>1, <1>2, <1>3, Objects, Names
  DEF IInv, HostPathsToGo, HostPathInUse, VolumeAway, Spared, Course, Tenants, TypeOK
<1>8. SetsToGo'
  BY <1>1, <1>2, <1>3, Nones, Objects, Names
  DEF IInv, SetsToGo, SetInUse, SetAway, Course, Tenants, TypeOK, Shape
<1>9. ClaimsToGo'
  BY <1>1, <1>2, <1>3, Nones, Objects, Names
  DEF IInv, ClaimsToGo, Settled, Owned, ClaimAway, WasReady, Tenants, TypeOK, Shape, JobsOf
<1>10. Standing'
  BY <1>1, <1>2, <1>3, Nones
  DEF IInv, Standing, WriterStands, Owned, Confirmed, Course, Shape, JobsOf, Tenants, TypeOK
<1>11. VolumeCleanUp'
  BY <1>1, <1>2, <1>3, Nones, Objects
  DEF IInv, VolumeCleanUp, Reading, Settled, Owned, SetAway, ClaimAway, VolumeAway, Course, Shape,
      JobsOf, Tenants, TypeOK
<1>12. Written'
  BY <1>1, <1>2, <1>3, Nones
  DEF IInv, Written, Writing, WriterStands, Unbegun, FirstErrands, Early, Confirmed, Course,
      Shape, JobsOf, Tenants, TypeOK
<1>13. IntruderSays'
  BY <1>1, <1>2, <1>3, Nones
  DEF IInv, IntruderSays, Written, Shape, Tenants, TypeOK
<1>14. Measured'
  BY <1>1, <1>2, <1>3, Nones
  DEF IInv, Measured, Writing, Reading, Course, Shape, Tenants, TypeOK
<1>15. Unhindered'
  BY <1>1, <1>2, <1>3, Nones
  DEF IInv, Unhindered, FirstErrands, Early, Course, Shape, Tenants, TypeOK
<1>16. ByHandOnly'
  BY <1>1, <1>2, <1>3, Nones, Names, Objects
  DEF IInv, ByHandOnly, Handled, FirstErrands, Early, Course, Shape, Tenants, TypeOK
<1> QED
  BY <1>4, <1>5, <1>6, <1>7, <1>8, <1>9, <1>10, <1>11, <1>12, <1>13, <1>14, <1>15, <1>16 DEF IInv
LEMMA RebindsStep ==
  ASSUME IInv, NEW t \in Tenants, Rebinds(t), Aside, UNCHANGED apart, UNCHANGED earlier
  PROVE  IInv'
<1>1. /\ pc # "over" /\ holder' \in [Volume -> Tenants \union {"none", "lost"}]
      /\ test' = test /\ Todo' = Todo
      /\ UNCHANGED <<plan, stage, pc, set, claim, pod, volumes, doomed, files, refusal, own,
                     measured, error, errands, result, mishaps, owed, apart, wrote, heard>>
  BY DEF Rebinds, test, Todo, Aside, local, faults, world, objects, IInv, TypeOK
<1>2. TypeOK'
  BY <1>1, Labelled
  DEF IInv, TypeOK
<1>3. Course'
  BY <1>1
  DEF IInv, Course, FirstErrands, Bound, Reading, Tenants
<1>4. Shape'
  BY <1>1, Nones
  DEF IInv, Shape, JobsOf, SaysOf, Tenants, TypeOK
<1>5. HostPathsToGo'
  BY <1>1, Objects, Names
  DEF IInv, HostPathsToGo, HostPathInUse, VolumeAway, Spared, Course, Tenants, TypeOK
<1>6. SetsToGo'
  BY <1>1, Nones, Objects, Names
  DEF IInv, SetsToGo, SetInUse, SetAway, Course, Tenants, TypeOK, Shape
<1>7. ClaimsToGo'
  BY <1>1, Nones, Objects, Names
  DEF IInv, ClaimsToGo, Settled, Owned, ClaimAway, WasReady, Tenants, TypeOK, Shape, JobsOf
<1>8. Standing'
  BY <1>1, Nones
  DEF IInv, Standing, WriterStands, Owned, Confirmed, Course, Shape, JobsOf, Tenants, TypeOK
<1>9. VolumeCleanUp'
  BY <1>1, Nones, Objects
  DEF IInv, VolumeCleanUp, Reading, Settled, Owned, SetAway, ClaimAway, VolumeAway, Course, Shape,
      JobsOf, Tenants, TypeOK
<1>10. Written'
  BY <1>1, Nones
  DEF IInv, Written, Writing, WriterStands, Unbegun, FirstErrands, Early, Confirmed, Course,
      Shape, JobsOf, Tenants, TypeOK
<1>11. IntruderSays'
  BY <1>1, Nones
  DEF IInv, IntruderSays, Written, Shape, Tenants, TypeOK
<1>12. Measured'
  BY <1>1, Nones
  DEF IInv, Measured, Writing, Reading, Course, Shape, Tenants, TypeOK
<1>13. Unhindered'
  BY <1>1, Nones
  DEF IInv, Unhindered, FirstErrands, Early, Course, Shape, Tenants, TypeOK
<1>14. ByHandOnly'
  BY <1>1, Nones, Names, Objects
  DEF IInv, ByHandOnly, Handled, FirstErrands, Early, Course, Shape, Tenants, TypeOK
<1> QED
  BY <1>2, <1>3, <1>4, <1>5, <1>6, <1>7, <1>8, <1>9, <1>10, <1>11, <1>12, <1>13, <1>14 DEF IInv
LEMMA ClaimGoesStep ==
  ASSUME IInv, NEW t \in Tenants, ClaimGoes(t), Aside, UNCHANGED apart, UNCHANGED earlier
  PROVE  IInv'
<1>1. /\ pc # "over" /\ claim[t].going /\ pod[t] = NoPod
      /\ claim' \in [Tenants -> Claim] /\ \A u \in Tenants : u # t => claim'[u] = claim[u]
      /\ claim'[t] = NoClaim
      /\ test' = test /\ Todo' = Todo
      /\ UNCHANGED <<plan, stage, pc, set, pod, files, refusal, own, measured, error, errands,
                     result, mishaps, owed, apart, wrote, heard>>
  BY Nones DEF ClaimGoes, test, Todo, Aside, local, faults, world, objects, IInv, TypeOK
<1>2. /\ volumes' \subseteq volumes /\ doomed' \subseteq volumes'
      /\ volumes' \ doomed' \subseteq volumes \ doomed
      /\ holder' \in [Volume -> Tenants \union {"none", "lost"}]
  BY <1>1 DEF ClaimGoes, IInv, TypeOK
<1>3. TypeOK'
  BY <1>1, <1>2, Labelled
  DEF IInv, TypeOK
<1>4. Course'
  BY <1>1, <1>2
  DEF IInv, Course, FirstErrands, Bound, Reading, Tenants
<1>5. Shape'
  BY <1>1, <1>2, Nones
  DEF IInv, Shape, JobsOf, SaysOf, Tenants, TypeOK
<1>6. HostPathsToGo'
  BY <1>1, <1>2, Objects, Names
  DEF IInv, HostPathsToGo, HostPathInUse, VolumeAway, Spared, Course, Tenants, TypeOK
<1>7. SetsToGo'
  BY <1>1, <1>2, Nones, Objects, Names
  DEF IInv, SetsToGo, SetInUse, SetAway, Course, Tenants, TypeOK, Shape
<1>8. ClaimsToGo'
  BY <1>1, <1>2, Nones, Objects, Names
  DEF IInv, ClaimsToGo, Settled, Owned, ClaimAway, WasReady, Tenants, TypeOK, Shape, JobsOf
<1>9. Standing'
  BY <1>1, <1>2, Nones
  DEF IInv, Standing, WriterStands, Owned, Confirmed, Course, Shape, JobsOf, Tenants, TypeOK
<1>10. VolumeCleanUp'
  BY <1>1, <1>2, Nones, Objects
  DEF IInv, VolumeCleanUp, Reading, Settled, Owned, SetAway, ClaimAway, VolumeAway, Course, Shape,
      JobsOf, Tenants, TypeOK
<1>11. Written'
  BY <1>1, <1>2, Nones
  DEF IInv, Written, Writing, WriterStands, Unbegun, FirstErrands, Early, Confirmed, Course,
      Shape, JobsOf, Tenants, TypeOK
<1>12. IntruderSays'
  BY <1>1, <1>2, Nones
  DEF IInv, IntruderSays, Written, Shape, Tenants, TypeOK
<1>13. Measured'
  BY <1>1, <1>2, Nones
  DEF IInv, Measured, Writing, Reading, Course, Shape, Tenants, TypeOK
<1>14. Unhindered'
  BY <1>1, <1>2, Nones
  DEF IInv, Unhindered, FirstErrands, Early, Course, Shape, Tenants, TypeOK
<1>15. ByHandOnly'
  BY <1>1, <1>2, Nones, Names, Objects
  DEF IInv, ByHandOnly, Handled, FirstErrands, Early, Course, Shape, Tenants, TypeOK
<1> QED
  BY <1>3, <1>4, <1>5, <1>6, <1>7, <1>8, <1>9, <1>10, <1>11, <1>12, <1>13, <1>14, <1>15 DEF IInv
LEMMA VolumeGoesStep ==
  ASSUME IInv, NEW v \in doomed, VolumeGoes(v), Aside, UNCHANGED apart, UNCHANGED earlier
  PROVE  IInv'
<1>1. /\ pc # "over" /\ volumes' = volumes \ {v} /\ doomed' = doomed \ {v}
      /\ holder' \in [Volume -> Tenants \union {"none", "lost"}]
      /\ test' = test /\ Todo' = Todo
      /\ UNCHANGED <<plan, stage, pc, set, claim, pod, files, refusal, own, measured, error,
                     errands, result, mishaps, owed, apart, wrote, heard>>
  BY DEF VolumeGoes, test, Todo, Aside, local, faults, world, objects, IInv, TypeOK
<1>2. TypeOK'
  BY <1>1, Labelled
  DEF IInv, TypeOK
<1>3. Course'
  BY <1>1
  DEF IInv, Course, FirstErrands, Bound, Reading, Tenants
<1>4. Shape'
  BY <1>1, Nones
  DEF IInv, Shape, JobsOf, SaysOf, Tenants, TypeOK
<1>5. HostPathsToGo'
  BY <1>1, Objects, Names
  DEF IInv, HostPathsToGo, HostPathInUse, VolumeAway, Spared, Course, Tenants, TypeOK
<1>6. SetsToGo'
  BY <1>1, Nones, Objects, Names
  DEF IInv, SetsToGo, SetInUse, SetAway, Course, Tenants, TypeOK, Shape
<1>7. ClaimsToGo'
  BY <1>1, Nones, Objects, Names
  DEF IInv, ClaimsToGo, Settled, Owned, ClaimAway, WasReady, Tenants, TypeOK, Shape, JobsOf
<1>8. Standing'
  BY <1>1, Nones
  DEF IInv, Standing, WriterStands, Owned, Confirmed, Course, Shape, JobsOf, Tenants, TypeOK
<1>9. VolumeCleanUp'
  BY <1>1, Nones, Objects
  DEF IInv, VolumeCleanUp, Reading, Settled, Owned, SetAway, ClaimAway, VolumeAway, Course, Shape,
      JobsOf, Tenants, TypeOK
<1>10. Written'
  BY <1>1, Nones
  DEF IInv, Written, Writing, WriterStands, Unbegun, FirstErrands, Early, Confirmed, Course,
      Shape, JobsOf, Tenants, TypeOK
<1>11. IntruderSays'
  BY <1>1, Nones
  DEF IInv, IntruderSays, Written, Shape, Tenants, TypeOK
<1>12. Measured'
  BY <1>1, Nones
  DEF IInv, Measured, Writing, Reading, Course, Shape, Tenants, TypeOK
<1>13. Unhindered'
  BY <1>1, Nones
  DEF IInv, Unhindered, FirstErrands, Early, Course, Shape, Tenants, TypeOK
<1>14. ByHandOnly'
  BY <1>1, Nones, Names, Objects
  DEF IInv, ByHandOnly, Handled, FirstErrands, Early, Course, Shape, Tenants, TypeOK
<1> QED
  BY <1>2, <1>3, <1>4, <1>5, <1>6, <1>7, <1>8, <1>9, <1>10, <1>11, <1>12, <1>13, <1>14 DEF IInv
LEMMA StartsStep ==
  ASSUME IInv, NEW t \in Tenants, Starts(t), Aside, UNCHANGED apart, UNCHANGED earlier
  PROVE  IInv'
<1>1. /\ pc # "over" /\ set[t].live /\ pod[t] = NoPod /\ claim[t].volume \in Volume
      /\ test' = test /\ Todo' = Todo
      /\ UNCHANGED <<plan, stage, pc, set, claim, volumes, doomed, holder, files, refusal, own,
                     measured, error, errands, result, mishaps, owed, apart, wrote, heard>>
  BY Typed DEF Starts, test, Todo, Aside, local, faults, world, objects, IInv, TypeOK
<1>2. /\ pod' \in [Tenants -> Pod] /\ \A u \in Tenants : u # t => pod'[u] = pod[u]
      /\ pod'[t].job = set[t].job /\ pod'[t].stage = set[t].stage
      /\ pod'[t].volume = claim[t].volume /\ pod'[t].said = "nothing"
      /\ pod'[t].volume \notin ByHand => pod'[t].node = "none"
  <2>1. PICK n \in NodesFor(claim[t].volume) :
          pod' = [pod EXCEPT ![t] = [NoPod EXCEPT !.job = set[t].job, !.stage = set[t].stage,
                                                  !.volume = claim[t].volume, !.node = n]]
    BY DEF Starts
  <2>2. n \in Node /\ (claim[t].volume \notin ByHand => n = "none")
    BY <2>1 DEF NodesFor, Node
  <2>3. pod \in [Tenants -> Pod] /\ set[t].job \in Job /\ set[t].stage \in 0 .. MaxStage
    BY Typed DEF IInv, TypeOK
  <2> DEFINE new == [NoPod EXCEPT !.job = set[t].job, !.stage = set[t].stage,
                                  !.volume = claim[t].volume, !.node = n]
  <2>4. /\ new \in Pod /\ new.job = set[t].job /\ new.stage = set[t].stage
        /\ new.volume = claim[t].volume /\ new.node = n /\ new.said = "nothing"
    BY <1>1, <2>2, <2>3, Nones DEF Pod
  <2>5. pod' = [pod EXCEPT ![t] = new]
    BY <2>1
  <2> HIDE DEF new
  <2> QED
    BY <2>2, <2>3, <2>4, <2>5
<1>3. TypeOK'
  BY <1>1, <1>2, Labelled
  DEF IInv, TypeOK
<1>4. Course'
  BY <1>1, <1>2
  DEF IInv, Course, FirstErrands, Bound, Reading, Tenants
<1>5. Shape'
  BY <1>1, <1>2, Nones, Typed
  DEF IInv, Shape, JobsOf, SaysOf, Tenants, TypeOK
<1>6. HostPathsToGo'
  BY <1>1, <1>2, Objects, Names
  DEF IInv, HostPathsToGo, HostPathInUse, VolumeAway, Spared, Course, Tenants, TypeOK
<1>7. SetsToGo'
  BY <1>1, <1>2, Nones, Objects, Names
  DEF IInv, SetsToGo, SetInUse, SetAway, Course, Tenants, TypeOK, Shape
<1>8. ClaimsToGo'
  BY <1>1, <1>2, Nones, Objects, Names
  DEF IInv, ClaimsToGo, Settled, Owned, ClaimAway, WasReady, Tenants, TypeOK, Shape, JobsOf
<1>9. Standing'
  BY <1>1, <1>2, Nones
  DEF IInv, Standing, WriterStands, Owned, Confirmed, Course, Shape, JobsOf, Tenants, TypeOK
<1>10. VolumeCleanUp'
  BY <1>1, <1>2, Nones, Objects
  DEF IInv, VolumeCleanUp, Reading, Settled, Owned, SetAway, ClaimAway, VolumeAway, Course, Shape,
      JobsOf, Tenants, TypeOK
<1>11. Written'
  BY <1>1, <1>2, Nones
  DEF IInv, Written, Writing, WriterStands, Unbegun, FirstErrands, Early, Confirmed, Course,
      Shape, JobsOf, Tenants, TypeOK
<1>12. IntruderSays'
  BY <1>1, <1>2, Nones
  DEF IInv, IntruderSays, Written, Shape, Tenants, TypeOK
<1>13. Measured'
  BY <1>1, <1>2, Nones
  DEF IInv, Measured, Writing, Reading, Course, Shape, Tenants, TypeOK, Standing, VolumeCleanUp,
      Owned, WriterStands
<1>14. Unhindered'
  BY <1>1, <1>2, Nones
  DEF IInv, Unhindered, FirstErrands, Early, Course, Shape, Tenants, TypeOK
<1>15. ByHandOnly'
  BY <1>1, <1>2, Nones, Names, Objects
  DEF IInv, ByHandOnly, Handled, FirstErrands, Early, Course, Shape, Tenants, TypeOK
<1> QED
  BY <1>3, <1>4, <1>5, <1>6, <1>7, <1>8, <1>9, <1>10, <1>11, <1>12, <1>13, <1>14, <1>15 DEF IInv
LEMMA PodGoesStep ==
  ASSUME IInv, NEW t \in Tenants, PodGoes(t), Aside, UNCHANGED apart, UNCHANGED earlier
  PROVE  IInv'
<1>1. /\ pc # "over" /\ ~ Owned(t)
      /\ pod' \in [Tenants -> Pod] /\ \A u \in Tenants : u # t => pod'[u] = pod[u]
      /\ pod'[t] = NoPod
      /\ test' = test /\ Todo' = Todo
      /\ UNCHANGED <<plan, stage, pc, set, claim, volumes, doomed, holder, files, refusal, own,
                     measured, error, errands, result, mishaps, owed, apart, wrote, heard>>
  BY Nones DEF PodGoes, test, Todo, Aside, local, faults, world, objects, IInv, TypeOK
<1>2. TypeOK'
  BY <1>1, Labelled
  DEF IInv, TypeOK
<1>3. Course'
  BY <1>1
  DEF IInv, Course, FirstErrands, Bound, Reading, Tenants
<1>4. Shape'
  BY <1>1, Nones
  DEF IInv, Shape, JobsOf, SaysOf, Tenants, TypeOK
<1>5. HostPathsToGo'
  BY <1>1, Objects, Names
  DEF IInv, HostPathsToGo, HostPathInUse, VolumeAway, Spared, Course, Tenants, TypeOK
<1>6. SetsToGo'
  BY <1>1, Nones, Objects, Names
  DEF IInv, SetsToGo, SetInUse, SetAway, Course, Tenants, TypeOK, Shape
<1>7. ClaimsToGo'
  BY <1>1, Nones, Objects, Names
  DEF IInv, ClaimsToGo, Settled, Owned, ClaimAway, WasReady, Tenants, TypeOK, Shape, JobsOf
<1>8. Standing'
  BY <1>1, Nones
  DEF IInv, Standing, WriterStands, Owned, Confirmed, Course, Shape, JobsOf, Tenants, TypeOK
<1>9. VolumeCleanUp'
  BY <1>1, Nones, Objects
  DEF IInv, VolumeCleanUp, Reading, Settled, Owned, SetAway, ClaimAway, VolumeAway, Course, Shape,
      JobsOf, Tenants, TypeOK
<1>10. Written'
  BY <1>1, Nones
  DEF IInv, Written, Writing, WriterStands, Unbegun, FirstErrands, Early, Confirmed, Course,
      Shape, JobsOf, Tenants, TypeOK, Owned
<1>11. IntruderSays'
  BY <1>1, Nones
  DEF IInv, IntruderSays, Written, Shape, Tenants, TypeOK
<1>12. Measured'
  BY <1>1, Nones
  DEF IInv, Measured, Writing, Reading, Course, Shape, Tenants, TypeOK
<1>13. Unhindered'
  BY <1>1, Nones
  DEF IInv, Unhindered, FirstErrands, Early, Course, Shape, Tenants, TypeOK
<1>14. ByHandOnly'
  BY <1>1, Nones, Names, Objects
  DEF IInv, ByHandOnly, Handled, FirstErrands, Early, Course, Shape, Tenants, TypeOK
<1> QED
  BY <1>2, <1>3, <1>4, <1>5, <1>6, <1>7, <1>8, <1>9, <1>10, <1>11, <1>12, <1>13, <1>14 DEF IInv
LEMMA WritesStep ==
  ASSUME IInv, Writes, Aside, UNCHANGED apart, UNCHANGED earlier
  PROVE  IInv'
<1>1. /\ pc # "over" /\ pod["tenant1"].job = "write"
      /\ test' = test /\ Todo' = Todo
      /\ UNCHANGED <<plan, stage, pc, set, claim, volumes, doomed, holder, refusal, own, measured,
                     error, errands, result, mishaps, owed, apart, heard>>
  BY DEF Writes, test, Todo, Aside, local, faults, world, objects, IInv, TypeOK
<1>2. /\ pod["tenant1"] # NoPod /\ pod["tenant1"].volume \in Volume
  BY <1>1, Nones DEF Shape, Tenants, IInv, TypeOK
<1>3. /\ pod' \in [Tenants -> Pod] /\ pod'["tenant2"] = pod["tenant2"]
      /\ pod'["tenant1"].job = "write" /\ pod'["tenant1"].stage = pod["tenant1"].stage
      /\ pod'["tenant1"].volume = pod["tenant1"].volume /\ pod'["tenant1"].node = pod["tenant1"].node
      /\ pod'["tenant1"].said = "wrote"
  <2>1. pod \in [Tenants -> Pod] /\ pod["tenant1"] \in Pod
    BY DEF IInv, TypeOK, Tenants
  <2> DEFINE new == [pod["tenant1"] EXCEPT !.said = "wrote"]
  <2>2. /\ new \in Pod /\ new.job = pod["tenant1"].job /\ new.stage = pod["tenant1"].stage
        /\ new.volume = pod["tenant1"].volume /\ new.node = pod["tenant1"].node
        /\ new.said = "wrote"
    BY <2>1 DEF Pod
  <2>3. pod' = [pod EXCEPT !["tenant1"] = new]
    BY DEF Writes
  <2> HIDE DEF new
  <2> QED
    BY <1>1, <2>1, <2>2, <2>3 DEF Tenants
<1>4. /\ PlaceOf(pod["tenant1"]) \in Place
      /\ PlaceOf(pod'["tenant1"]) = PlaceOf(pod["tenant1"]) /\ PlaceOf(pod'["tenant2"]) = PlaceOf(pod["tenant2"])
      /\ files' = files \union {PlaceOf(pod["tenant1"])}
      /\ pod["tenant1"].stage = stage => wrote' = wrote \union {PlaceOf(pod["tenant1"])}
      /\ pod["tenant1"].stage # stage => wrote' = wrote
  BY <1>1, <1>2, <1>3, Names, Typed DEF Writes, PlaceOf, Place, Tenants, IInv, TypeOK
<1>5. /\ pod["tenant1"].volume = measured =>
         /\ PlaceOf(pod["tenant1"]).volume = Disk(measured)
         /\ measured \notin ByHand => PlaceOf(pod["tenant1"]).node = "none"
  BY <1>1, <1>2, <1>3, <1>4 DEF PlaceOf, Disk, Shape, Tenants, IInv, TypeOK
<1>6. TypeOK'
  BY <1>1, <1>2, <1>3, <1>4, <1>5, Labelled
  DEF IInv, TypeOK
<1>7. Course'
  BY <1>1, <1>2, <1>3, <1>4, <1>5
  DEF IInv, Course, FirstErrands, Bound, Reading, Tenants
<1>8. Shape'
  BY <1>1, <1>2, <1>3, <1>4, <1>5, Nones
  DEF IInv, Shape, JobsOf, SaysOf, Tenants, TypeOK
<1>9. HostPathsToGo'
  BY <1>1, <1>2, <1>3, <1>4, <1>5, Objects, Names
  DEF IInv, HostPathsToGo, HostPathInUse, VolumeAway, Spared, Course, Tenants, TypeOK
<1>10. SetsToGo'
  BY <1>1, <1>2, <1>3, <1>4, <1>5, Nones, Objects, Names
  DEF IInv, SetsToGo, SetInUse, SetAway, Course, Tenants, TypeOK, Shape
<1>11. ClaimsToGo'
  BY <1>1, <1>2, <1>3, <1>4, <1>5, Nones, Objects, Names
  DEF IInv, ClaimsToGo, Settled, Owned, ClaimAway, WasReady, Tenants, TypeOK, Shape, JobsOf
<1>12. Standing'
  BY <1>1, <1>2, <1>3, <1>4, <1>5, Nones
  DEF IInv, Standing, WriterStands, Owned, Confirmed, Course, Shape, JobsOf, Tenants, TypeOK
<1>13. VolumeCleanUp'
  BY <1>1, <1>2, <1>3, <1>4, <1>5, Nones, Objects
  DEF IInv, VolumeCleanUp, Reading, Settled, Owned, SetAway, ClaimAway, VolumeAway, Course, Shape,
      JobsOf, Tenants, TypeOK
<1>14. Written'
  <2> DEFINE P == PlaceOf(pod["tenant1"])
  <2>1. /\ Writing' <=> Writing
        /\ Writing => wrote' = {P}
        /\ ~ Writing => wrote' = wrote
    BY <1>1, <1>3, <1>4 DEF IInv, Written, Writing
  <2>2. PlaceOf(pod["tenant1"])' = P
    BY <1>4
  <2> HIDE DEF P
  <2>3. files' = files \union {P} /\ wrote' \subseteq files'
    BY <1>1, <1>4, <2>1 DEF P, IInv, Written
  <2>4. ~ Unbegun' \/ (wrote' = {} /\ ~ WriterStands' /\ ~ Writing')
    BY <1>1, <2>1 DEF IInv, Written, Unbegun, FirstErrands, WriterStands
  <2>5. wrote # {} => wrote' # {}
    BY <2>1
  <2> QED
    BY <1>1, <1>3, <2>1, <2>2, <2>3, <2>4, <2>5 DEF IInv, Written, WriterStands
<1>15. IntruderSays'
  <2>1. pod["tenant1"].stage = stage => wrote = {} \/ wrote' = wrote
    BY <1>1, <1>4 DEF IInv, Written, Writing
  <2>2. PlaceOf(pod["tenant2"])' = PlaceOf(pod["tenant2"]) /\ (wrote # {} => wrote' = wrote)
    BY <1>3, <1>4, <2>1
  <2>3. pod["tenant2"].said = "missing" /\ pod["tenant2"].stage = stage /\ wrote = {} => apart = "yes"
    BY <1>1 DEF IInv, IntruderSays
  <2> QED
    BY <1>1, <1>3, <1>4, <2>2, <2>3 DEF IInv, IntruderSays
<1>16. Measured'
  BY <1>1, <1>2, <1>3, <1>4, <1>5, Nones
  DEF IInv, Measured, Writing, Reading, Course, Shape, Tenants, TypeOK
<1>17. Unhindered'
  BY <1>1, <1>2, <1>3, <1>4, <1>5, Nones
  DEF IInv, Unhindered, FirstErrands, Early, Course, Shape, Tenants, TypeOK
<1>18. ByHandOnly'
  BY <1>1, <1>2, <1>3, <1>4, <1>5, Nones, Names, Objects
  DEF IInv, ByHandOnly, Handled, FirstErrands, Early, Course, Shape, Tenants, TypeOK
<1> QED
  BY <1>6, <1>7, <1>8, <1>9, <1>10, <1>11, <1>12, <1>13, <1>14, <1>15, <1>16, <1>17, <1>18 DEF IInv
LEMMA ReadsStep ==
  ASSUME IInv, Reads, Aside, UNCHANGED earlier
  PROVE  IInv'
<1>1. /\ pc # "over" /\ pod["tenant2"].job = "read"
      /\ apart' \in {"yes", "no"} /\ (apart # "open" => apart' = apart)
      /\ test' = test /\ Todo' = Todo
      /\ UNCHANGED <<plan, stage, pc, set, claim, volumes, doomed, holder, files, refusal, own,
                     measured, error, errands, result, mishaps, owed, wrote, heard>>
  BY DEF Reads, test, Todo, Aside, local, faults, world, objects, IInv, TypeOK
<1>2. /\ pod["tenant2"] # NoPod /\ pod["tenant2"].volume \in Volume
  BY <1>1, Nones DEF Shape, Tenants, IInv, TypeOK
<1>3. /\ pod' \in [Tenants -> Pod] /\ pod'["tenant1"] = pod["tenant1"]
      /\ pod'["tenant2"].job = "read" /\ pod'["tenant2"].stage = pod["tenant2"].stage
      /\ pod'["tenant2"].volume = pod["tenant2"].volume /\ pod'["tenant2"].node = pod["tenant2"].node
      /\ pod'["tenant2"].said \in {"found", "missing", "early"}
      /\ pod'["tenant2"].said = "found" => apart' = "no" /\ PlaceOf(pod["tenant2"]) \in files
      /\ pod'["tenant2"].said = "missing" =>
         wrote # {} /\ (apart' = "yes" \/ PlaceOf(pod["tenant2"]) \notin files)
      /\ pod'["tenant2"].said = "early" => wrote = {}
  <2> DEFINE says == IF apart' = "no" /\ PlaceOf(pod["tenant2"]) \in files THEN "found"
                     ELSE IF wrote = {} THEN "early" ELSE "missing"
  <2>1. pod \in [Tenants -> Pod] /\ pod["tenant2"] \in Pod
    BY DEF IInv, TypeOK, Tenants
  <2>2. /\ says \in {"found", "missing", "early"}
        /\ says = "found" => apart' = "no" /\ PlaceOf(pod["tenant2"]) \in files
        /\ says = "missing" => wrote # {} /\ (apart' = "yes" \/ PlaceOf(pod["tenant2"]) \notin files)
        /\ says = "early" => wrote = {}
    BY <1>1
  <2>3. pod' = [pod EXCEPT !["tenant2"].said = says]
    BY DEF Reads
  <2> HIDE DEF says
  <2> DEFINE new == [pod["tenant2"] EXCEPT !.said = says]
  <2>4. /\ new \in Pod /\ new.job = pod["tenant2"].job /\ new.stage = pod["tenant2"].stage
        /\ new.volume = pod["tenant2"].volume /\ new.node = pod["tenant2"].node
        /\ new.said = says
    BY <2>1, <2>2 DEF Pod
  <2>5. pod' = [pod EXCEPT !["tenant2"] = new]
    BY <2>1, <2>3
  <2> HIDE DEF new
  <2> QED
    BY <1>1, <2>1, <2>2, <2>4, <2>5 DEF Tenants
<1>4. /\ PlaceOf(pod'["tenant2"]) = PlaceOf(pod["tenant2"]) /\ PlaceOf(pod'["tenant1"]) = PlaceOf(pod["tenant1"])
  BY <1>1, <1>2, <1>3 DEF PlaceOf, Place, Tenants, IInv, TypeOK
<1>5. TypeOK'
  BY <1>1, <1>2, <1>3, <1>4, Labelled
  DEF IInv, TypeOK
<1>6. Course'
  BY <1>1, <1>2, <1>3, <1>4
  DEF IInv, Course, FirstErrands, Bound, Reading, Tenants
<1>7. Shape'
  BY <1>1, <1>2, <1>3, <1>4, Nones
  DEF IInv, Shape, JobsOf, SaysOf, Tenants, TypeOK
<1>8. HostPathsToGo'
  BY <1>1, <1>2, <1>3, <1>4, Objects, Names
  DEF IInv, HostPathsToGo, HostPathInUse, VolumeAway, Spared, Course, Tenants, TypeOK
<1>9. SetsToGo'
  BY <1>1, <1>2, <1>3, <1>4, Nones, Objects, Names
  DEF IInv, SetsToGo, SetInUse, SetAway, Course, Tenants, TypeOK, Shape
<1>10. ClaimsToGo'
  BY <1>1, <1>2, <1>3, <1>4, Nones, Objects, Names
  DEF IInv, ClaimsToGo, Settled, Owned, ClaimAway, WasReady, Tenants, TypeOK, Shape, JobsOf
<1>11. Standing'
  BY <1>1, <1>2, <1>3, <1>4, Nones
  DEF IInv, Standing, WriterStands, Owned, Confirmed, Course, Shape, JobsOf, Tenants, TypeOK
<1>12. VolumeCleanUp'
  BY <1>1, <1>2, <1>3, <1>4, Nones, Objects
  DEF IInv, VolumeCleanUp, Reading, Settled, Owned, SetAway, ClaimAway, VolumeAway, Course, Shape,
      JobsOf, Tenants, TypeOK
<1>13. Written'
  BY <1>1, <1>2, <1>3, <1>4, Nones
  DEF IInv, Written, Writing, WriterStands, Unbegun, FirstErrands, Early, Confirmed, Course,
      Shape, JobsOf, Tenants, TypeOK
<1>14. IntruderSays'
  BY <1>1, <1>2, <1>3, <1>4, Nones
  DEF IInv, IntruderSays, Written, Shape, Tenants, TypeOK
<1>15. Measured'
  BY <1>1, <1>2, <1>3, <1>4, Nones
  DEF IInv, Measured, Writing, Reading, Course, Shape, Tenants, TypeOK
<1>16. Unhindered'
  BY <1>1, <1>2, <1>3, <1>4, Nones
  DEF IInv, Unhindered, FirstErrands, Early, Course, Shape, Tenants, TypeOK
<1>17. ByHandOnly'
  BY <1>1, <1>2, <1>3, <1>4, Nones, Names, Objects
  DEF IInv, ByHandOnly, Handled, FirstErrands, Early, Course, Shape, Tenants, TypeOK
<1> QED
  BY <1>5, <1>6, <1>7, <1>8, <1>9, <1>10, <1>11, <1>12, <1>13, <1>14, <1>15, <1>16, <1>17 DEF IInv
-----------------------------------------------------------------------------
(***************************************************************************)
(* The harness: whether tenant 1 may.                                      *)
(***************************************************************************)
\* There is a result, and what is still to be done, only at the end.
LEMMA Busy ==
  ASSUME IInv, pc \notin {"errands", "next"}
  PROVE  result = Pending /\ errands = << >> /\ Todo = {}
BY Lists DEF IInv, Course, Todo

LEMMA Texts ==
  ASSUME NEW answer
  PROVE  /\ Text(answer) \in {"none", "refused", "failed"}
         /\ Text(answer) = "none" <=> answer = "ok"
         /\ Text(answer) = "refused" <=> answer = "refused"
BY DEF Text

LEMMA Reasons ==
  {"unauthorized", "victim", "unready", "release", "partial", "create", "unseen", "refused",
   "unplanted", "silent", "found", "missing", "unmade", "barred"} \subseteq Why
BY DEF Why

LEMMA Mishaps ==
  ASSUME TypeOK, Mishap
  PROVE  mishaps' \in 0 .. MaxMishaps /\ mishaps' = mishaps + 1 /\ mishaps' # 0 /\ stage = 1
BY MishapsAssumption DEF TypeOK, Mishap, MayFail
LEMMA ReviewStep ==
  ASSUME IInv, Review, UNCHANGED earlier
  PROVE  IInv'
<1>1. /\ pc = "authorize" /\ test # "hostpath" /\ pc' = "auth_set"
      /\ \/ error' = "none" /\ mishaps' = mishaps
         \/ error' \in {"refused", "failed"} /\ Mishap
      /\ test' = test /\ Todo' = Todo
      /\ UNCHANGED <<plan, stage, set, claim, pod, volumes, doomed, holder, files, refusal, own,
                     measured, errands, result, owed, apart, wrote, heard>>
  BY DEF Review, test, Todo, Goto, objects, world, IInv, TypeOK
<1>2. /\ result = Pending /\ errands = << >> /\ Todo = {}
      /\ mishaps' \in 0 .. MaxMishaps /\ error' \in {"none", "refused", "failed"}
      /\ mishaps' = 0 => mishaps = 0 /\ error' # "refused"
  BY <1>1, Busy, Mishaps DEF IInv, TypeOK
<1>3. TypeOK'
  BY <1>1, <1>2, Labelled
  DEF IInv, TypeOK
<1>4. Course'
  BY <1>1, <1>2
  DEF IInv, Course, FirstErrands, Bound, Reading, Tenants
<1>5. Shape'
  BY <1>1, <1>2, Nones
  DEF IInv, Shape, JobsOf, SaysOf, Tenants, TypeOK
<1>6. HostPathsToGo'
  BY <1>1, <1>2, Objects, Names
  DEF IInv, HostPathsToGo, HostPathInUse, VolumeAway, Spared, Course, Tenants, TypeOK
<1>7. SetsToGo'
  BY <1>1, <1>2, Nones, Objects, Names
  DEF IInv, SetsToGo, SetInUse, SetAway, Course, Tenants, TypeOK, Shape
<1>8. ClaimsToGo'
  BY <1>1, <1>2, Nones, Objects, Names
  DEF IInv, ClaimsToGo, Settled, Owned, ClaimAway, WasReady, Tenants, TypeOK, Shape, JobsOf
<1>9. Standing'
  BY <1>1, <1>2, Nones
  DEF IInv, Standing, WriterStands, Owned, Confirmed, Course, Shape, JobsOf, Tenants, TypeOK
<1>10. VolumeCleanUp'
  BY <1>1, <1>2, Nones, Objects
  DEF IInv, VolumeCleanUp, Reading, Settled, Owned, SetAway, ClaimAway, VolumeAway, Course, Shape,
      JobsOf, Tenants, TypeOK
<1>11. Written'
  BY <1>1, <1>2, Nones
  DEF IInv, Written, Writing, WriterStands, Unbegun, FirstErrands, Early, Confirmed, Course,
      Shape, JobsOf, Tenants, TypeOK
<1>12. IntruderSays'
  BY <1>1, <1>2, Nones
  DEF IInv, IntruderSays, Written, Shape, Tenants, TypeOK
<1>13. Measured'
  BY <1>1, <1>2, Nones
  DEF IInv, Measured, Writing, Reading, Course, Shape, Tenants, TypeOK
<1>14. Unhindered'
  BY <1>1, <1>2, Nones
  DEF IInv, Unhindered, FirstErrands, Early, Course, Shape, Tenants, TypeOK
<1>15. ByHandOnly'
  BY <1>1, <1>2, Nones, Names, Objects
  DEF IInv, ByHandOnly, Handled, FirstErrands, Early, Course, Shape, Tenants, TypeOK
<1> QED
  BY <1>3, <1>4, <1>5, <1>6, <1>7, <1>8, <1>9, <1>10, <1>11, <1>12, <1>13, <1>14, <1>15 DEF IInv
LEMMA TryVolumeStep ==
  ASSUME IInv, TryVolume, UNCHANGED earlier
  PROVE  IInv'
<1>1. PICK answer :
        /\ pc = "authorize" /\ test = "hostpath"
        /\ answer \in Answers(Named("auth") \in volumes)
        /\ CreateVolume(Named("auth"), answer) /\ error' = Text(answer)
        /\ Goto("unauth")
        /\ UNCHANGED <<world, own, measured, heard>>
  BY DEF TryVolume
<1>2. /\ pc = "authorize" /\ test = "hostpath" /\ pc' = "unauth"
      /\ error' = Text(answer)
      /\ test' = test /\ Todo' = Todo
      /\ UNCHANGED <<plan, stage, set, claim, pod, doomed, holder, files, refusal, own, measured,
                     errands, result, apart, wrote, heard>>
  BY <1>1 DEF TryVolume, test, Todo, Goto, CreateVolume, world, IInv, TypeOK
<1>3. /\ answer \in {"ok", "taken", "refused", "failed", "lost"}
      /\ volumes' = volumes \/ (volumes' = volumes \union {Named("auth")} /\ answer \in {"ok", "lost"})
      /\ volumes' \subseteq Volume
      /\ mishaps' \in 0 .. MaxMishaps /\ owed' \subseteq Object
      /\ answer \in {"ok", "taken"} => mishaps' = mishaps
      /\ answer \notin {"ok", "taken"} => mishaps' = mishaps + 1 /\ stage = 1
      /\ answer = "taken" => Named("auth") \in volumes
      /\ owed' = owed
  BY <1>1, Names, CreatedVolume DEF IInv
<1>4. /\ result = Pending /\ errands = << >> /\ Todo = {}
      /\ error' \in {"none", "refused", "failed"} /\ (error' = "refused" => mishaps' = mishaps + 1)
      /\ mishaps' = 0 => mishaps = 0 /\ error' # "refused"
  BY <1>1, <1>2, <1>3, Busy, Texts, MishapsAssumption DEF IInv, TypeOK
<1>5. TypeOK'
  BY <1>1, <1>2, <1>3, <1>4, Labelled
  DEF IInv, TypeOK
<1>6. Course'
  BY <1>1, <1>2, <1>3, <1>4
  DEF IInv, Course, FirstErrands, Bound, Reading, Tenants
<1>7. Shape'
  BY <1>1, <1>2, <1>3, <1>4, Nones
  DEF IInv, Shape, JobsOf, SaysOf, Tenants, TypeOK
<1>8. HostPathsToGo'
  BY <1>1, <1>2, <1>3, <1>4, Objects, Names
  DEF IInv, HostPathsToGo, HostPathInUse, VolumeAway, Spared, Course, Tenants, TypeOK
<1>9. SetsToGo'
  BY <1>1, <1>2, <1>3, <1>4, Nones, Objects, Names
  DEF IInv, SetsToGo, SetInUse, SetAway, Course, Tenants, TypeOK, Shape
<1>10. ClaimsToGo'
  BY <1>1, <1>2, <1>3, <1>4, Nones, Objects, Names
  DEF IInv, ClaimsToGo, Settled, Owned, ClaimAway, WasReady, Tenants, TypeOK, Shape, JobsOf
<1>11. Standing'
  BY <1>1, <1>2, <1>3, <1>4, Nones
  DEF IInv, Standing, WriterStands, Owned, Confirmed, Course, Shape, JobsOf, Tenants, TypeOK
<1>12. VolumeCleanUp'
  BY <1>1, <1>2, <1>3, <1>4, Nones, Objects
  DEF IInv, VolumeCleanUp, Reading, Settled, Owned, SetAway, ClaimAway, VolumeAway, Course, Shape,
      JobsOf, Tenants, TypeOK
<1>13. Written'
  BY <1>1, <1>2, <1>3, <1>4, Nones
  DEF IInv, Written, Writing, WriterStands, Unbegun, FirstErrands, Early, Confirmed, Course,
      Shape, JobsOf, Tenants, TypeOK
<1>14. IntruderSays'
  BY <1>1, <1>2, <1>3, <1>4, Nones
  DEF IInv, IntruderSays, Written, Shape, Tenants, TypeOK
<1>15. Measured'
  BY <1>1, <1>2, <1>3, <1>4, Nones
  DEF IInv, Measured, Writing, Reading, Course, Shape, Tenants, TypeOK
<1>16. Unhindered'
  BY <1>1, <1>2, <1>3, <1>4, Nones
  DEF IInv, Unhindered, FirstErrands, Early, Course, Shape, Tenants, TypeOK
<1>17. ByHandOnly'
  BY <1>1, <1>2, <1>3, <1>4, Nones, Names, Objects
  DEF IInv, ByHandOnly, Handled, FirstErrands, Early, Course, Shape, Tenants, TypeOK
<1> QED
  BY <1>5, <1>6, <1>7, <1>8, <1>9, <1>10, <1>11, <1>12, <1>13, <1>14, <1>15, <1>16, <1>17 DEF IInv
LEMMA UntryVolumeStep ==
  ASSUME IInv, UntryVolume, UNCHANGED earlier
  PROVE  IInv'
<1>1. /\ pc = "unauth" /\ pc' = "auth_set"
      /\ test' = test /\ Todo' = Todo
      /\ UNCHANGED <<plan, stage, set, claim, pod, volumes, holder, files, refusal, own, measured,
                     error, errands, result, apart, wrote, heard>>
  <2>1. Named("auth") \in Volume /\ Delete(TheVolume(Named("auth")))
    BY Names DEF UntryVolume
  <2>2. UNCHANGED <<set, claim, volumes, holder>>
    BY <2>1, DeletedVolume DEF IInv
  <2> QED
    BY <2>2 DEF UntryVolume, Goto, test, Todo, world, local
<1>2. /\ doomed \subseteq doomed' /\ doomed' \subseteq volumes
      /\ \/ /\ Named("auth") \notin volumes \ doomed'
            /\ mishaps' = mishaps /\ owed' = owed \ {TheVolume(Named("auth"))}
         \/ /\ doomed' = doomed /\ stage = 1
            /\ mishaps' = mishaps + 1 /\ owed' = owed \union {TheVolume(Named("auth"))}
      /\ mishaps' \in 0 .. MaxMishaps /\ owed' \subseteq Object
      /\ mishaps' = 0 => mishaps = 0
  <2>1. Named("auth") \in Volume
    BY Names
  <2>2. Delete(TheVolume(Named("auth")))
    BY DEF UntryVolume
  <2> QED
    BY <2>1, <2>2, DeletedVolume, MishapsAssumption DEF IInv, TypeOK
<1>3. /\ result = Pending /\ errands = << >> /\ Todo = {}
  BY <1>1, <1>2, Busy DEF IInv, TypeOK
<1>4. TypeOK'
  BY <1>1, <1>2, <1>3, Labelled
  DEF IInv, TypeOK
<1>5. Course'
  BY <1>1, <1>2, <1>3
  DEF IInv, Course, FirstErrands, Bound, Reading, Tenants
<1>6. Shape'
  BY <1>1, <1>2, <1>3, Nones
  DEF IInv, Shape, JobsOf, SaysOf, Tenants, TypeOK
<1>7. HostPathsToGo'
  BY <1>1, <1>2, <1>3, Objects, Names
  DEF IInv, HostPathsToGo, HostPathInUse, VolumeAway, Spared, Course, Tenants, TypeOK
<1>8. SetsToGo'
  BY <1>1, <1>2, <1>3, Nones, Objects, Names
  DEF IInv, SetsToGo, SetInUse, SetAway, Course, Tenants, TypeOK, Shape
<1>9. ClaimsToGo'
  BY <1>1, <1>2, <1>3, Nones, Objects, Names
  DEF IInv, ClaimsToGo, Settled, Owned, ClaimAway, WasReady, Tenants, TypeOK, Shape, JobsOf
<1>10. Standing'
  BY <1>1, <1>2, <1>3, Nones
  DEF IInv, Standing, WriterStands, Owned, Confirmed, Course, Shape, JobsOf, Tenants, TypeOK
<1>11. VolumeCleanUp'
  BY <1>1, <1>2, <1>3, Nones, Objects
  DEF IInv, VolumeCleanUp, Reading, Settled, Owned, SetAway, ClaimAway, VolumeAway, Course, Shape,
      JobsOf, Tenants, TypeOK
<1>12. Written'
  BY <1>1, <1>2, <1>3, Nones
  DEF IInv, Written, Writing, WriterStands, Unbegun, FirstErrands, Early, Confirmed, Course,
      Shape, JobsOf, Tenants, TypeOK
<1>13. IntruderSays'
  BY <1>1, <1>2, <1>3, Nones
  DEF IInv, IntruderSays, Written, Shape, Tenants, TypeOK
<1>14. Measured'
  BY <1>1, <1>2, <1>3, Nones
  DEF IInv, Measured, Writing, Reading, Course, Shape, Tenants, TypeOK
<1>15. Unhindered'
  BY <1>1, <1>2, <1>3, Nones
  DEF IInv, Unhindered, FirstErrands, Early, Course, Shape, Tenants, TypeOK
<1>16. ByHandOnly'
  BY <1>1, <1>2, <1>3, Nones, Names, Objects
  DEF IInv, ByHandOnly, Handled, FirstErrands, Early, Course, Shape, Tenants, TypeOK
<1> QED
  BY <1>4, <1>5, <1>6, <1>7, <1>8, <1>9, <1>10, <1>11, <1>12, <1>13, <1>14, <1>15, <1>16 DEF IInv
LEMMA TrySetStep ==
  ASSUME IInv, TrySet, UNCHANGED earlier
  PROVE  IInv'
<1>1. PICK answer :
        /\ pc = "auth_set"
        /\ CreateSet("tenant1", "idle", Named("default"), answer)
        /\ error' = IF "refused" \in {error, Text(answer)} THEN "refused"
                    ELSE IF error = "none" THEN Text(answer) ELSE error
        /\ Goto("auth_unset")
        /\ UNCHANGED <<world, own, measured, heard>>
  BY DEF TrySet
<1>2. /\ pc = "auth_set" /\ pc' = "auth_unset"
      /\ error' = IF "refused" \in {error, Text(answer)} THEN "refused"
                    ELSE IF error = "none" THEN Text(answer) ELSE error
      /\ test' = test /\ Todo' = Todo
      /\ UNCHANGED <<plan, stage, claim, pod, volumes, doomed, holder, files, refusal, own,
                     measured, errands, result, apart, wrote, heard>>
  BY <1>1 DEF TrySet, test, Todo, Goto, CreateSet, world, IInv, TypeOK
<1>3. /\ answer \in {"ok", "taken", "refused", "failed", "lost"}
      /\ set' \in [Tenants -> Set] /\ \A u \in Tenants : u # "tenant1" => set'[u] = set[u]
      /\ answer \in {"ok", "lost"} =>
         /\ ~ set["tenant1"].live /\ set'["tenant1"].live
         /\ set'["tenant1"].job = "idle" /\ set'["tenant1"].stage = stage /\ set'["tenant1"].asks = Named("default")
      /\ answer \notin {"ok", "lost"} => set' = set
      /\ answer = "taken" => set["tenant1"].live
      /\ mishaps' \in 0 .. MaxMishaps /\ owed' \subseteq Object
      /\ answer \in {"ok", "taken"} => mishaps' = mishaps
      /\ answer \notin {"ok", "taken"} => mishaps' = mishaps + 1 /\ stage = 1
      /\ owed' = owed
  <2>1. "tenant1" \in Tenants /\ "idle" \in Job /\ Named("default") \in Asks
    BY Names DEF Tenants, Job
  <2> QED
    BY <1>1, <2>1, CreatedSet DEF IInv
<1>4. /\ result = Pending /\ errands = << >> /\ Todo = {}
      /\ error' \in {"none", "refused", "failed"}
      /\ mishaps' = 0 => mishaps = 0 /\ error' # "refused"
  BY <1>1, <1>2, <1>3, Busy, Texts, MishapsAssumption DEF Unhindered, IInv, TypeOK
<1>5. TypeOK'
  BY <1>1, <1>2, <1>3, <1>4, Labelled
  DEF IInv, TypeOK
<1>6. Course'
  BY <1>1, <1>2, <1>3, <1>4
  DEF IInv, Course, FirstErrands, Bound, Reading, Tenants
<1>7. Shape'
  BY <1>1, <1>2, <1>3, <1>4, Nones
  DEF IInv, Shape, JobsOf, SaysOf, Tenants, TypeOK
<1>8. HostPathsToGo'
  BY <1>1, <1>2, <1>3, <1>4, Objects, Names
  DEF IInv, HostPathsToGo, HostPathInUse, VolumeAway, Spared, Course, Tenants, TypeOK
<1>9. SetsToGo'
  BY <1>1, <1>2, <1>3, <1>4, Nones, Objects, Names
  DEF IInv, SetsToGo, SetInUse, SetAway, Course, Tenants, TypeOK, Shape
<1>10. ClaimsToGo'
  BY <1>1, <1>2, <1>3, <1>4, Nones, Objects, Names
  DEF IInv, ClaimsToGo, Settled, Owned, ClaimAway, WasReady, Tenants, TypeOK, Shape, JobsOf
<1>11. Standing'
  BY <1>1, <1>2, <1>3, <1>4, Nones
  DEF IInv, Standing, WriterStands, Owned, Confirmed, Course, Shape, JobsOf, Tenants, TypeOK
<1>12. VolumeCleanUp'
  BY <1>1, <1>2, <1>3, <1>4, Nones, Objects
  DEF IInv, VolumeCleanUp, Reading, Settled, Owned, SetAway, ClaimAway, VolumeAway, Course, Shape,
      JobsOf, Tenants, TypeOK
<1>13. Written'
  BY <1>1, <1>2, <1>3, <1>4, Nones
  DEF IInv, Written, Writing, WriterStands, Unbegun, FirstErrands, Early, Confirmed, Course,
      Shape, JobsOf, Tenants, TypeOK
<1>14. IntruderSays'
  BY <1>1, <1>2, <1>3, <1>4, Nones
  DEF IInv, IntruderSays, Written, Shape, Tenants, TypeOK
<1>15. Measured'
  BY <1>1, <1>2, <1>3, <1>4, Nones
  DEF IInv, Measured, Writing, Reading, Course, Shape, Tenants, TypeOK
<1>16. Unhindered'
  BY <1>1, <1>2, <1>3, <1>4, Nones
  DEF IInv, Unhindered, FirstErrands, Early, Course, Shape, Tenants, TypeOK
<1>17. ByHandOnly'
  BY <1>1, <1>2, <1>3, <1>4, Nones, Names, Objects
  DEF IInv, ByHandOnly, Handled, FirstErrands, Early, Course, Shape, Tenants, TypeOK
<1> QED
  BY <1>5, <1>6, <1>7, <1>8, <1>9, <1>10, <1>11, <1>12, <1>13, <1>14, <1>15, <1>16, <1>17 DEF IInv
LEMMA UntrySetStep ==
  ASSUME IInv, UntrySet, UNCHANGED earlier
  PROVE  IInv'
<1>1. /\ pc = "auth_unset"
      /\ test' = test
      /\ UNCHANGED <<plan, stage, claim, pod, volumes, doomed, holder, files, refusal, own,
                     measured, error, apart, wrote, heard>>
  <2>1. "tenant1" \in Tenants /\ Delete(SetOf("tenant1"))
    BY DEF UntrySet, Tenants
  <2>2. UNCHANGED <<claim, volumes, doomed, holder>>
    BY <2>1, DeletedSet DEF IInv
  <2> QED
    BY <2>2 DEF UntrySet, Goto, Return, test, world, local
<1>2. /\ set' \in [Tenants -> Set]
      /\ \A u \in Tenants : u # "tenant1" => set'[u] = set[u]
      /\ \/ /\ claim["tenant1"] # NoClaim => set'["tenant1"] = NoSet
            /\ claim["tenant1"] = NoClaim => /\ set'["tenant1"].job = set["tenant1"].job /\ set'["tenant1"].asks = set["tenant1"].asks
                                     /\ set'["tenant1"].stage = set["tenant1"].stage
            /\ ~ set'["tenant1"].live /\ set'["tenant1"].stage <= set["tenant1"].stage
            /\ set["tenant1"] = NoSet => set'["tenant1"] = NoSet
            /\ mishaps' = mishaps /\ owed' = owed \ {SetOf("tenant1")}
         \/ /\ set' = set /\ stage = 1
            /\ mishaps' = mishaps + 1 /\ owed' = owed \union {SetOf("tenant1")}
      /\ mishaps' \in 0 .. MaxMishaps /\ owed' \subseteq Object
      /\ mishaps' = 0 => mishaps = 0
  <2>1. "tenant1" \in Tenants /\ Delete(SetOf("tenant1"))
    BY DEF UntrySet, Tenants
  <2> QED
    BY <2>1, DeletedSet, MishapsAssumption DEF IInv, TypeOK
<1>3. /\ result = Pending /\ errands = << >> /\ Todo = {}
  BY <1>1, <1>2, Busy DEF IInv, TypeOK
<1>4. /\ errands' \in Seq(Object) /\ result' \in Result
      /\ \/ /\ pc' = "next" /\ result' # Pending /\ result'.why = "unauthorized"
            /\ errands' = << >> /\ Todo' = {}
         \/ /\ pc' = "class" /\ test # "hostpath" /\ result' = Pending /\ errands' = << >> /\ Todo' = {}
         \/ /\ pc' = "errands" /\ test = "hostpath" /\ result' = Pending
            /\ errands' # << >> /\ Todo' = {ClaimOf("tenant1"), ClaimOf("tenant2")}
  <2>1. CASE error # "none"
    <3> DEFINE level == IF error = "refused" THEN "Soft" ELSE "Unknown"
    <3>1. Return(level, "unauthorized", << >>) /\ level \in {"None", "Unknown", "Soft", "Hard"}
          /\ "unauthorized" \in Why
      BY <2>1 DEF UntrySet, Why
    <3> HIDE DEF level
    <3> QED
      BY <3>1, Returned, Lists
  <2>2. CASE error = "none" /\ test # "hostpath"
    BY <1>3, <2>2, Gone, Lists DEF UntrySet, Goto, Todo, Result
  <2>3. CASE error = "none" /\ test = "hostpath"
    <3>1. /\ pc' = "errands" /\ errands' = <<ClaimOf("tenant1"), ClaimOf("tenant2")>>
          /\ result' = result
      BY <2>3 DEF UntrySet
    <3>2. ClaimOf("tenant1") \in Object /\ ClaimOf("tenant2") \in Object
      BY Objects DEF Tenants
    <3> QED
      BY <1>3, <2>3, <3>1, <3>2, Lists DEF Todo, Result
  <2> QED
    BY <2>1, <2>2, <2>3
<1>5. TypeOK'
  BY <1>1, <1>2, <1>3, <1>4, Labelled
  DEF IInv, TypeOK
<1>6. Course'
  BY <1>1, <1>2, <1>3, <1>4
  DEF IInv, Course, FirstErrands, Bound, Reading, Tenants
<1>7. Shape'
  BY <1>1, <1>2, <1>3, <1>4, Nones
  DEF IInv, Shape, JobsOf, SaysOf, Tenants, TypeOK
<1>8. HostPathsToGo'
  BY <1>1, <1>2, <1>3, <1>4, Objects, Names
  DEF IInv, HostPathsToGo, HostPathInUse, VolumeAway, Spared, Course, Tenants, TypeOK
<1>9. SetsToGo'
  BY <1>1, <1>2, <1>3, <1>4, Nones, Objects, Names
  DEF IInv, SetsToGo, SetInUse, SetAway, Course, Tenants, TypeOK, Shape
<1>10. ClaimsToGo'
  BY <1>1, <1>2, <1>3, <1>4, Nones, Objects, Names
  DEF IInv, ClaimsToGo, Settled, Owned, ClaimAway, WasReady, Tenants, TypeOK, Shape, JobsOf
<1>11. Standing'
  BY <1>1, <1>2, <1>3, <1>4, Nones
  DEF IInv, Standing, WriterStands, Owned, Confirmed, Course, Shape, JobsOf, Tenants, TypeOK
<1>12. VolumeCleanUp'
  BY <1>1, <1>2, <1>3, <1>4, Nones, Objects
  DEF IInv, VolumeCleanUp, Reading, Settled, Owned, SetAway, ClaimAway, VolumeAway, Course, Shape,
      JobsOf, Tenants, TypeOK, FirstErrands
<1>13. Written'
  BY <1>1, <1>2, <1>3, <1>4, Nones
  DEF IInv, Written, Writing, WriterStands, Unbegun, FirstErrands, Early, Confirmed, Course,
      Shape, JobsOf, Tenants, TypeOK
<1>14. IntruderSays'
  BY <1>1, <1>2, <1>3, <1>4, Nones
  DEF IInv, IntruderSays, Written, Shape, Tenants, TypeOK
<1>15. Measured'
  BY <1>1, <1>2, <1>3, <1>4, Nones
  DEF IInv, Measured, Writing, Reading, Course, Shape, Tenants, TypeOK
<1>16. Unhindered'
  BY <1>1, <1>2, <1>3, <1>4, Nones
  DEF IInv, Unhindered, FirstErrands, Early, Course, Shape, Tenants, TypeOK
<1>17. ByHandOnly'
  BY <1>1, <1>2, <1>3, <1>4, Nones, Names, Objects
  DEF IInv, ByHandOnly, Handled, FirstErrands, Early, Course, Shape, Tenants, TypeOK
<1> QED
  BY <1>5, <1>6, <1>7, <1>8, <1>9, <1>10, <1>11, <1>12, <1>13, <1>14, <1>15, <1>16, <1>17 DEF IInv
-----------------------------------------------------------------------------
(***************************************************************************)
(* The harness: tenant 1 writes.                                           *)
(***************************************************************************)
LEMMA HandVolumes ==
  ASSUME TypeOK
  PROVE  /\ Wanted \in Asks
         /\ Wanted \in ByHand => \/ test = "hostpath" /\ Wanted = Named("hp1")
                                 \/ test = "retain" /\ Wanted = Named("retain")
BY Names DEF Wanted, Bound
LEMMA FindClassStep ==
  ASSUME IInv, FindClass, UNCHANGED earlier
  PROVE  IInv'
<1>1. /\ pc = "class" /\ own' \in BOOLEAN
      /\ pc' = "write" \/ (pc' = "hand" /\ test = "retain" /\ ~ own')
      /\ test' = test /\ Todo' = Todo
      /\ UNCHANGED <<plan, stage, set, claim, pod, volumes, doomed, holder, files, refusal,
                     measured, error, errands, result, mishaps, owed, apart, wrote, heard>>
  BY DEF FindClass, test, Todo, Goto, objects, world, faults, IInv, TypeOK
<1>2. /\ result = Pending /\ errands = << >> /\ Todo = {}
  BY <1>1, Busy DEF IInv, TypeOK
<1>3. TypeOK'
  BY <1>1, <1>2, Labelled
  DEF IInv, TypeOK
<1>4. Course'
  BY <1>1, <1>2
  DEF IInv, Course, FirstErrands, Bound, Reading, Tenants
<1>5. Shape'
  BY <1>1, <1>2, Nones
  DEF IInv, Shape, JobsOf, SaysOf, Tenants, TypeOK
<1>6. HostPathsToGo'
  BY <1>1, <1>2, Objects, Names
  DEF IInv, HostPathsToGo, HostPathInUse, VolumeAway, Spared, Course, Tenants, TypeOK
<1>7. SetsToGo'
  BY <1>1, <1>2, Nones, Objects, Names
  DEF IInv, SetsToGo, SetInUse, SetAway, Course, Tenants, TypeOK, Shape
<1>8. ClaimsToGo'
  BY <1>1, <1>2, Nones, Objects, Names
  DEF IInv, ClaimsToGo, Settled, Owned, ClaimAway, WasReady, Tenants, TypeOK, Shape, JobsOf
<1>9. Standing'
  BY <1>1, <1>2, Nones
  DEF IInv, Standing, WriterStands, Owned, Confirmed, Course, Shape, JobsOf, Tenants, TypeOK
<1>10. VolumeCleanUp'
  BY <1>1, <1>2, Nones, Objects
  DEF IInv, VolumeCleanUp, Reading, Settled, Owned, SetAway, ClaimAway, VolumeAway, Course, Shape,
      JobsOf, Tenants, TypeOK
<1>11. Written'
  BY <1>1, <1>2, Nones
  DEF IInv, Written, Writing, WriterStands, Unbegun, FirstErrands, Early, Confirmed, Course,
      Shape, JobsOf, Tenants, TypeOK
<1>12. IntruderSays'
  BY <1>1, <1>2, Nones
  DEF IInv, IntruderSays, Written, Shape, Tenants, TypeOK
<1>13. Measured'
  BY <1>1, <1>2, Nones
  DEF IInv, Measured, Writing, Reading, Course, Shape, Tenants, TypeOK
<1>14. Unhindered'
  BY <1>1, <1>2, Nones
  DEF IInv, Unhindered, FirstErrands, Early, Course, Shape, Tenants, TypeOK
<1>15. ByHandOnly'
  BY <1>1, <1>2, Nones, Names, Objects, Names
  DEF IInv, ByHandOnly, Handled, FirstErrands, Early, Course, Shape, Tenants, TypeOK
<1> QED
  BY <1>3, <1>4, <1>5, <1>6, <1>7, <1>8, <1>9, <1>10, <1>11, <1>12, <1>13, <1>14, <1>15 DEF IInv
LEMMA MakeByHandStep ==
  ASSUME IInv, MakeByHand, UNCHANGED earlier
  PROVE  IInv'
<1>1. PICK answer :
        /\ pc = "hand"
        /\ CreateVolume(Named("retain"), answer)
        /\ IF answer = "ok" THEN Goto("write") ELSE Return("Hard", "unmade", << >>)
        /\ UNCHANGED <<world, local>>
  BY DEF MakeByHand
<1>2. /\ pc = "hand"
      /\ test' = test
      /\ UNCHANGED <<plan, stage, set, claim, pod, doomed, holder, files, refusal, own, measured,
                     error, apart, wrote, heard>>
  BY <1>1 DEF MakeByHand, test, Goto, Return, CreateVolume, world, local, IInv, TypeOK
<1>3. /\ answer \in {"ok", "taken", "refused", "failed", "lost"}
      /\ volumes' = volumes \/ (volumes' = volumes \union {Named("retain")} /\ answer \in {"ok", "lost"})
      /\ volumes' \subseteq Volume
      /\ mishaps' \in 0 .. MaxMishaps /\ owed' \subseteq Object
      /\ answer \in {"ok", "taken"} => mishaps' = mishaps
      /\ answer \notin {"ok", "taken"} => mishaps' = mishaps + 1 /\ stage = 1
      /\ answer = "taken" => Named("retain") \in volumes
      /\ owed' = owed
  BY <1>1, Names, CreatedVolume DEF IInv
<1>4. /\ result = Pending /\ errands = << >> /\ Todo = {}
  BY <1>1, <1>2, <1>3, Busy DEF IInv, TypeOK
<1>5. /\ errands' = << >> /\ Todo' = {} /\ result' \in Result
      /\ \/ answer = "ok" /\ pc' = "write" /\ result' = Pending
         \/ answer # "ok" /\ pc' = "next" /\ result' # Pending /\ result'.why = "unmade"
  <2>1. CASE answer = "ok"
    BY <1>1, <1>4, <2>1, Gone, Lists DEF Goto, Result
  <2>2. CASE answer # "ok"
    BY <1>1, <2>2, Returned, Reasons, Lists
  <2> QED
    BY <2>1, <2>2
<1>6. TypeOK'
  BY <1>1, <1>2, <1>3, <1>4, <1>5, Labelled
  DEF IInv, TypeOK
<1>7. Course'
  BY <1>1, <1>2, <1>3, <1>4, <1>5
  DEF IInv, Course, FirstErrands, Bound, Reading, Tenants
<1>8. Shape'
  BY <1>1, <1>2, <1>3, <1>4, <1>5, Nones
  DEF IInv, Shape, JobsOf, SaysOf, Tenants, TypeOK
<1>9. HostPathsToGo'
  BY <1>1, <1>2, <1>3, <1>4, <1>5, Objects, Names
  DEF IInv, HostPathsToGo, HostPathInUse, VolumeAway, Spared, Course, Tenants, TypeOK
<1>10. SetsToGo'
  BY <1>1, <1>2, <1>3, <1>4, <1>5, Nones, Objects, Names
  DEF IInv, SetsToGo, SetInUse, SetAway, Course, Tenants, TypeOK, Shape
<1>11. ClaimsToGo'
  BY <1>1, <1>2, <1>3, <1>4, <1>5, Nones, Objects, Names
  DEF IInv, ClaimsToGo, Settled, Owned, ClaimAway, WasReady, Tenants, TypeOK, Shape, JobsOf
<1>12. Standing'
  BY <1>1, <1>2, <1>3, <1>4, <1>5, Nones
  DEF IInv, Standing, WriterStands, Owned, Confirmed, Course, Shape, JobsOf, Tenants, TypeOK
<1>13. VolumeCleanUp'
  BY <1>1, <1>2, <1>3, <1>4, <1>5, Nones, Objects
  DEF IInv, VolumeCleanUp, Reading, Settled, Owned, SetAway, ClaimAway, VolumeAway, Course, Shape,
      JobsOf, Tenants, TypeOK
<1>14. Written'
  BY <1>1, <1>2, <1>3, <1>4, <1>5, Nones
  DEF IInv, Written, Writing, WriterStands, Unbegun, FirstErrands, Early, Confirmed, Course,
      Shape, JobsOf, Tenants, TypeOK
<1>15. IntruderSays'
  BY <1>1, <1>2, <1>3, <1>4, <1>5, Nones
  DEF IInv, IntruderSays, Written, Shape, Tenants, TypeOK
<1>16. Measured'
  BY <1>1, <1>2, <1>3, <1>4, <1>5, Nones
  DEF IInv, Measured, Writing, Reading, Course, Shape, Tenants, TypeOK
<1>17. Unhindered'
  BY <1>1, <1>2, <1>3, <1>4, <1>5, Nones
  DEF IInv, Unhindered, FirstErrands, Early, Course, Shape, Tenants, TypeOK
<1>18. ByHandOnly'
  <2>1. \A v \in ByHand : Handled(v) => Handled(v)'
    BY <1>1, <1>2, <1>3, <1>4, <1>5, Names DEF Handled, TestOf, FirstErrands, Early, IInv, Course
  <2>2. test = "retain" => Handled(Named("retain"))'
    BY <1>1, <1>2, <1>3, <1>4, <1>5, Names DEF Handled, TestOf, FirstErrands, Early, IInv, Course, Bound
  <2>3. test = "retain"
    BY <1>1, <1>2, <1>3, <1>4, <1>5, Names DEF Handled, TestOf, FirstErrands, Early, IInv, Course, Bound
  <2> QED
    BY <1>1, <1>2, <1>3, <1>4, <1>5, <2>1, <2>2, <2>3, Names, Objects, Nones DEF IInv, ByHandOnly, TypeOK, Tenants
<1> QED
  BY <1>6, <1>7, <1>8, <1>9, <1>10, <1>11, <1>12, <1>13, <1>14, <1>15, <1>16, <1>17, <1>18 DEF IInv
LEMMA CreateWriterStep ==
  ASSUME IInv, CreateWriter, UNCHANGED earlier
  PROVE  IInv'
<1>1. PICK answer :
        /\ pc = "write"
        /\ CreateSet("tenant1", "write", Wanted, answer)
        /\ error' = Text(answer)
        /\ IF answer = "ok" THEN Goto("written")
           ELSE IF test = "hostpath" THEN Return("Hard", "victim", CleanUpOf("tenant1"))
           ELSE Goto(Unwind)
        /\ UNCHANGED <<world, own, measured, heard>>
  BY DEF CreateWriter
<1>2. /\ pc = "write" /\ error' = Text(answer)
      /\ test' = test
      /\ UNCHANGED <<plan, stage, claim, pod, volumes, doomed, holder, files, refusal, own,
                     measured, apart, wrote, heard>>
  BY <1>1 DEF CreateWriter, test, Goto, Return, CreateSet, world, IInv, TypeOK
<1>3. /\ answer \in {"ok", "taken", "refused", "failed", "lost"}
      /\ set' \in [Tenants -> Set] /\ \A u \in Tenants : u # "tenant1" => set'[u] = set[u]
      /\ answer \in {"ok", "lost"} =>
         /\ ~ set["tenant1"].live /\ set'["tenant1"].live
         /\ set'["tenant1"].job = "write" /\ set'["tenant1"].stage = stage /\ set'["tenant1"].asks = Wanted
      /\ answer \notin {"ok", "lost"} => set' = set
      /\ answer = "taken" => set["tenant1"].live
      /\ mishaps' \in 0 .. MaxMishaps /\ owed' \subseteq Object
      /\ answer \in {"ok", "taken"} => mishaps' = mishaps
      /\ answer \notin {"ok", "taken"} => mishaps' = mishaps + 1 /\ stage = 1
      /\ owed' = owed
  <2>1. "tenant1" \in Tenants /\ "write" \in Job /\ Wanted \in Asks
    BY HandVolumes DEF IInv, Tenants, Job
  <2> QED
    BY <1>1, <2>1, CreatedSet DEF IInv
<1>4. /\ result = Pending /\ errands = << >> /\ Todo = {}
  BY <1>1, <1>2, <1>3, Busy DEF IInv, TypeOK
<1>5. /\ errands' \in Seq(Object) /\ result' \in Result
      /\ \/ /\ answer = "ok" /\ pc' = "written"
            /\ errands' = << >> /\ Todo' = {} /\ result' = Pending
         \/ /\ answer # "ok" /\ test = "hostpath" /\ pc' = "errands" /\ errands' # << >>
            /\ Todo' = {SetOf("tenant1"), ClaimOf("tenant1"), TheVolume(HostPathOf("tenant1"))}
            /\ result' # Pending /\ result'.why = "victim"
         \/ /\ answer # "ok" /\ test # "hostpath" /\ errands' = << >> /\ Todo' = {} /\ result' = Pending
            /\ pc' = "why1" \/ (pc' = "unhand" /\ Bound)
  <2>1. CASE answer = "ok"
    BY <1>1, <1>4, <2>1, Gone, Lists DEF Goto, Result
  <2>2. CASE answer # "ok" /\ test = "hostpath"
    BY <1>1, <2>2, Returned, Reasons, CleanUps DEF Tenants
  <2>3. CASE answer # "ok" /\ test # "hostpath"
    BY <1>1, <1>4, <2>3, Gone, Lists DEF Goto, Result, Unwind
  <2> QED
    BY <2>1, <2>2, <2>3
<1>6. /\ error' \in {"none", "refused", "failed"}
      /\ mishaps' = 0 => mishaps = 0 /\ error' # "refused"
  BY <1>1, <1>2, <1>3, <1>4, <1>5, Texts, MishapsAssumption DEF IInv, TypeOK
<1>7. /\ Wanted \in ByHand => \/ test = "hostpath" /\ Wanted = Named("hp1")
                              \/ test = "retain" /\ Wanted = Named("retain")
  BY <1>1, <1>2, <1>3, <1>4, <1>5, <1>6, HandVolumes DEF IInv, TypeOK
<1>8. TypeOK'
  BY <1>1, <1>2, <1>3, <1>4, <1>5, <1>6, <1>7, Labelled
  DEF IInv, TypeOK
<1>9. Course'
  BY <1>1, <1>2, <1>3, <1>4, <1>5, <1>6, <1>7
  DEF IInv, Course, FirstErrands, Bound, Reading, Tenants
<1>10. Shape'
  BY <1>1, <1>2, <1>3, <1>4, <1>5, <1>6, <1>7, Nones
  DEF IInv, Shape, JobsOf, SaysOf, Tenants, TypeOK
<1>11. HostPathsToGo'
  BY <1>1, <1>2, <1>3, <1>4, <1>5, <1>6, <1>7, Objects, Names
  DEF IInv, HostPathsToGo, HostPathInUse, VolumeAway, Spared, Course, Tenants, TypeOK
<1>12. SetsToGo'
  BY <1>1, <1>2, <1>3, <1>4, <1>5, <1>6, <1>7, Nones, Objects, Names
  DEF IInv, SetsToGo, SetInUse, SetAway, Course, Tenants, TypeOK, Shape
<1>13. ClaimsToGo'
  BY <1>1, <1>2, <1>3, <1>4, <1>5, <1>6, <1>7, Nones, Objects, Names
  DEF IInv, ClaimsToGo, Settled, Owned, ClaimAway, WasReady, Tenants, TypeOK, Shape, JobsOf
<1>14. Standing'
  BY <1>1, <1>2, <1>3, <1>4, <1>5, <1>6, <1>7, Nones
  DEF IInv, Standing, WriterStands, Owned, Confirmed, Course, Shape, JobsOf, Tenants, TypeOK
<1>15. VolumeCleanUp'
  BY <1>1, <1>2, <1>3, <1>4, <1>5, <1>6, <1>7, Nones, Objects
  DEF IInv, VolumeCleanUp, Reading, Settled, Owned, SetAway, ClaimAway, VolumeAway, Course, Shape,
      JobsOf, Tenants, TypeOK
<1>16. Written'
  BY <1>1, <1>2, <1>3, <1>4, <1>5, <1>6, <1>7, Nones
  DEF IInv, Written, Writing, WriterStands, Unbegun, FirstErrands, Early, Confirmed, Course,
      Shape, JobsOf, Tenants, TypeOK
<1>17. IntruderSays'
  BY <1>1, <1>2, <1>3, <1>4, <1>5, <1>6, <1>7, Nones
  DEF IInv, IntruderSays, Written, Shape, Tenants, TypeOK
<1>18. Measured'
  BY <1>1, <1>2, <1>3, <1>4, <1>5, <1>6, <1>7, Nones
  DEF IInv, Measured, Writing, Reading, Course, Shape, Tenants, TypeOK
<1>19. Unhindered'
  BY <1>1, <1>2, <1>3, <1>4, <1>5, <1>6, <1>7, Nones
  DEF IInv, Unhindered, FirstErrands, Early, Course, Shape, Tenants, TypeOK
<1>20. ByHandOnly'
  <2>1. \A v \in ByHand : Handled(v) => Handled(v)'
    BY <1>1, <1>2, <1>3, <1>4, <1>5, <1>6, <1>7, Names DEF Handled, TestOf, FirstErrands, Early, IInv, Course
  <2>2. test = "retain" => Handled(Named("retain"))'
    BY <1>1, <1>2, <1>3, <1>4, <1>5, <1>6, <1>7, Names DEF Handled, TestOf, FirstErrands, Early, IInv, Course
  <2>3. test = "hostpath" => Handled(Named("hp1"))'
    BY <1>1, <1>2, <1>3, <1>4, <1>5, <1>6, <1>7, Names DEF Handled, TestOf, FirstErrands, Early, IInv, Course
  <2> QED
    BY <1>1, <1>2, <1>3, <1>4, <1>5, <1>6, <1>7, <2>1, <2>2, <2>3, Names, Objects, Nones DEF IInv, ByHandOnly, TypeOK, Tenants
<1> QED
  BY <1>8, <1>9, <1>10, <1>11, <1>12, <1>13, <1>14, <1>15, <1>16, <1>17, <1>18, <1>19, <1>20 DEF IInv
LEMMA WriterReadyStep ==
  ASSUME IInv, WriterReady, UNCHANGED earlier
  PROVE  IInv'
<1>1. /\ pc = "written" /\ Owned("tenant1")
      /\ \/ pc' = "confirm" /\ test = "hostpath"
         \/ pc' = "info" /\ test # "hostpath"
      /\ test' = test /\ Todo' = Todo
      /\ UNCHANGED <<plan, stage, set, claim, pod, volumes, doomed, holder, files, refusal, own,
                     measured, error, errands, result, mishaps, owed, apart, wrote, heard>>
  BY DEF WriterReady, test, Todo, Goto, objects, world, faults, local, IInv, TypeOK
<1>2. /\ result = Pending /\ errands = << >> /\ Todo = {}
  BY <1>1, Busy DEF IInv, TypeOK
<1>3. TypeOK'
  BY <1>1, <1>2, Labelled
  DEF IInv, TypeOK
<1>4. Course'
  BY <1>1, <1>2
  DEF IInv, Course, FirstErrands, Bound, Reading, Tenants
<1>5. Shape'
  BY <1>1, <1>2, Nones
  DEF IInv, Shape, JobsOf, SaysOf, Tenants, TypeOK
<1>6. HostPathsToGo'
  BY <1>1, <1>2, Objects, Names
  DEF IInv, HostPathsToGo, HostPathInUse, VolumeAway, Spared, Course, Tenants, TypeOK
<1>7. SetsToGo'
  BY <1>1, <1>2, Nones, Objects, Names
  DEF IInv, SetsToGo, SetInUse, SetAway, Course, Tenants, TypeOK, Shape
<1>8. ClaimsToGo'
  BY <1>1, <1>2, Nones, Objects, Names
  DEF IInv, ClaimsToGo, Settled, Owned, ClaimAway, WasReady, Tenants, TypeOK, Shape, JobsOf
<1>9. Standing'
  BY <1>1, <1>2, Nones
  DEF IInv, Standing, WriterStands, Owned, Confirmed, Course, Shape, JobsOf, Tenants, TypeOK
<1>10. VolumeCleanUp'
  BY <1>1, <1>2, Nones, Objects
  DEF IInv, VolumeCleanUp, Reading, Settled, Owned, SetAway, ClaimAway, VolumeAway, Course, Shape,
      JobsOf, Tenants, TypeOK
<1>11. Written'
  BY <1>1, <1>2, Nones
  DEF IInv, Written, Writing, WriterStands, Unbegun, FirstErrands, Early, Confirmed, Course,
      Shape, JobsOf, Tenants, TypeOK
<1>12. IntruderSays'
  BY <1>1, <1>2, Nones
  DEF IInv, IntruderSays, Written, Shape, Tenants, TypeOK
<1>13. Measured'
  BY <1>1, <1>2, Nones
  DEF IInv, Measured, Writing, Reading, Course, Shape, Tenants, TypeOK
<1>14. Unhindered'
  BY <1>1, <1>2, Nones
  DEF IInv, Unhindered, FirstErrands, Early, Course, Shape, Tenants, TypeOK
<1>15. ByHandOnly'
  BY <1>1, <1>2, Nones, Names, Objects
  DEF IInv, ByHandOnly, Handled, FirstErrands, Early, Course, Shape, Tenants, TypeOK
<1> QED
  BY <1>3, <1>4, <1>5, <1>6, <1>7, <1>8, <1>9, <1>10, <1>11, <1>12, <1>13, <1>14, <1>15 DEF IInv
LEMMA WriterNotReadyStep ==
  ASSUME IInv, WriterNotReady, UNCHANGED earlier
  PROVE  IInv'
<1>1. /\ pc = "written"
      /\ \/ error' = "failed" /\ mishaps' = mishaps
         \/ test # "hostpath" /\ error' = "refused" /\ Mishap
      /\ pc' = "why1" \/ (pc' = "unhand" /\ Bound)
      /\ test' = test /\ Todo' = Todo
      /\ UNCHANGED <<plan, stage, set, claim, pod, volumes, doomed, holder, files, refusal, own,
                     measured, errands, result, owed, apart, wrote, heard>>
  BY DEF WriterNotReady, test, Todo, Goto, Unseen, Unwind, objects, world, IInv, TypeOK
<1>2. /\ result = Pending /\ errands = << >> /\ Todo = {}
  BY <1>1, Busy DEF IInv, TypeOK
<1>3. /\ error' \in {"failed", "refused"} /\ mishaps' \in 0 .. MaxMishaps
      /\ mishaps' = 0 => mishaps = 0 /\ error' # "refused"
  BY <1>1, <1>2, Mishaps DEF IInv, TypeOK
<1>4. TypeOK'
  BY <1>1, <1>2, <1>3, Labelled
  DEF IInv, TypeOK
<1>5. Course'
  BY <1>1, <1>2, <1>3
  DEF IInv, Course, FirstErrands, Bound, Reading, Tenants
<1>6. Shape'
  BY <1>1, <1>2, <1>3, Nones
  DEF IInv, Shape, JobsOf, SaysOf, Tenants, TypeOK
<1>7. HostPathsToGo'
  BY <1>1, <1>2, <1>3, Objects, Names
  DEF IInv, HostPathsToGo, HostPathInUse, VolumeAway, Spared, Course, Tenants, TypeOK, Bound
<1>8. SetsToGo'
  BY <1>1, <1>2, <1>3, Nones, Objects, Names
  DEF IInv, SetsToGo, SetInUse, SetAway, Course, Tenants, TypeOK, Shape, Bound
<1>9. ClaimsToGo'
  BY <1>1, <1>2, <1>3, Nones, Objects, Names
  DEF IInv, ClaimsToGo, Settled, Owned, ClaimAway, WasReady, Tenants, TypeOK, Shape, JobsOf
<1>10. Standing'
  BY <1>1, <1>2, <1>3, Nones
  DEF IInv, Standing, WriterStands, Owned, Confirmed, Course, Shape, JobsOf, Tenants, TypeOK
<1>11. VolumeCleanUp'
  BY <1>1, <1>2, <1>3, Nones, Objects
  DEF IInv, VolumeCleanUp, Reading, Settled, Owned, SetAway, ClaimAway, VolumeAway, Course, Shape,
      JobsOf, Tenants, TypeOK
<1>12. Written'
  BY <1>1, <1>2, <1>3, Nones
  DEF IInv, Written, Writing, WriterStands, Unbegun, FirstErrands, Early, Confirmed, Course,
      Shape, JobsOf, Tenants, TypeOK
<1>13. IntruderSays'
  BY <1>1, <1>2, <1>3, Nones
  DEF IInv, IntruderSays, Written, Shape, Tenants, TypeOK
<1>14. Measured'
  BY <1>1, <1>2, <1>3, Nones
  DEF IInv, Measured, Writing, Reading, Course, Shape, Tenants, TypeOK
<1>15. Unhindered'
  BY <1>1, <1>2, <1>3, Nones
  DEF IInv, Unhindered, FirstErrands, Early, Course, Shape, Tenants, TypeOK
<1>16. ByHandOnly'
  BY <1>1, <1>2, <1>3, Nones, Names, Objects
  DEF IInv, ByHandOnly, Handled, FirstErrands, Early, Course, Shape, Tenants, TypeOK
<1> QED
  BY <1>4, <1>5, <1>6, <1>7, <1>8, <1>9, <1>10, <1>11, <1>12, <1>13, <1>14, <1>15, <1>16 DEF IInv
LEMMA UnmakeByHandStep ==
  ASSUME IInv, UnmakeByHand, UNCHANGED earlier
  PROVE  IInv'
<1>1. /\ pc = "unhand" /\ pc' = "why1"
      /\ test' = test /\ Todo' = Todo
      /\ UNCHANGED <<plan, stage, set, claim, pod, volumes, holder, files, refusal, own, measured,
                     error, errands, result, apart, wrote, heard>>
  <2>1. Named("retain") \in Volume /\ Delete(TheVolume(Named("retain")))
    BY Names DEF UnmakeByHand
  <2>2. UNCHANGED <<set, claim, volumes, holder>>
    BY <2>1, DeletedVolume DEF IInv
  <2> QED
    BY <2>2 DEF UnmakeByHand, Goto, test, Todo, world, local
<1>2. /\ doomed \subseteq doomed' /\ doomed' \subseteq volumes
      /\ \/ /\ Named("retain") \notin volumes \ doomed'
            /\ mishaps' = mishaps /\ owed' = owed \ {TheVolume(Named("retain"))}
         \/ /\ doomed' = doomed /\ stage = 1
            /\ mishaps' = mishaps + 1 /\ owed' = owed \union {TheVolume(Named("retain"))}
      /\ mishaps' \in 0 .. MaxMishaps /\ owed' \subseteq Object
      /\ mishaps' = 0 => mishaps = 0
  <2>1. Named("retain") \in Volume
    BY Names
  <2>2. Delete(TheVolume(Named("retain")))
    BY DEF UnmakeByHand
  <2> QED
    BY <2>1, <2>2, DeletedVolume, MishapsAssumption DEF IInv, TypeOK
<1>3. /\ result = Pending /\ errands = << >> /\ Todo = {}
  BY <1>1, <1>2, Busy DEF IInv, TypeOK
<1>4. TypeOK'
  BY <1>1, <1>2, <1>3, Labelled
  DEF IInv, TypeOK
<1>5. Course'
  BY <1>1, <1>2, <1>3
  DEF IInv, Course, FirstErrands, Bound, Reading, Tenants
<1>6. Shape'
  BY <1>1, <1>2, <1>3, Nones
  DEF IInv, Shape, JobsOf, SaysOf, Tenants, TypeOK
<1>7. HostPathsToGo'
  BY <1>1, <1>2, <1>3, Objects, Names
  DEF IInv, HostPathsToGo, HostPathInUse, VolumeAway, Spared, Course, Tenants, TypeOK
<1>8. SetsToGo'
  BY <1>1, <1>2, <1>3, Nones, Objects, Names
  DEF IInv, SetsToGo, SetInUse, SetAway, Course, Tenants, TypeOK, Shape
<1>9. ClaimsToGo'
  BY <1>1, <1>2, <1>3, Nones, Objects, Names
  DEF IInv, ClaimsToGo, Settled, Owned, ClaimAway, WasReady, Tenants, TypeOK, Shape, JobsOf
<1>10. Standing'
  BY <1>1, <1>2, <1>3, Nones
  DEF IInv, Standing, WriterStands, Owned, Confirmed, Course, Shape, JobsOf, Tenants, TypeOK
<1>11. VolumeCleanUp'
  BY <1>1, <1>2, <1>3, Nones, Objects
  DEF IInv, VolumeCleanUp, Reading, Settled, Owned, SetAway, ClaimAway, VolumeAway, Course, Shape,
      JobsOf, Tenants, TypeOK
<1>12. Written'
  BY <1>1, <1>2, <1>3, Nones
  DEF IInv, Written, Writing, WriterStands, Unbegun, FirstErrands, Early, Confirmed, Course,
      Shape, JobsOf, Tenants, TypeOK
<1>13. IntruderSays'
  BY <1>1, <1>2, <1>3, Nones
  DEF IInv, IntruderSays, Written, Shape, Tenants, TypeOK
<1>14. Measured'
  BY <1>1, <1>2, <1>3, Nones
  DEF IInv, Measured, Writing, Reading, Course, Shape, Tenants, TypeOK
<1>15. Unhindered'
  BY <1>1, <1>2, <1>3, Nones
  DEF IInv, Unhindered, FirstErrands, Early, Course, Shape, Tenants, TypeOK
<1>16. ByHandOnly'
  <2>1. \A v \in ByHand : Handled(v) => Handled(v)'
    BY <1>1, <1>2, <1>3, Names DEF Handled, TestOf, FirstErrands, Early, IInv, Course
  <2>2. test = "retain" => Handled(Named("retain"))'
    BY <1>1, <1>2, <1>3, Names DEF Handled, TestOf, FirstErrands, Early, IInv, Course, Bound
  <2>3. test = "retain"
    BY <1>1, <1>2, <1>3, Names DEF Handled, TestOf, FirstErrands, Early, IInv, Course, Bound
  <2> QED
    BY <1>1, <1>2, <1>3, <2>1, <2>2, <2>3, Names, Objects, Nones DEF IInv, ByHandOnly, TypeOK, Tenants
<1> QED
  BY <1>4, <1>5, <1>6, <1>7, <1>8, <1>9, <1>10, <1>11, <1>12, <1>13, <1>14, <1>15, <1>16 DEF IInv
LEMMA FindVolumeStep ==
  ASSUME IInv, FindVolume, UNCHANGED earlier
  PROVE  IInv'
<1>1. /\ pc = "info"
      /\ \/ /\ claim["tenant1"].volume # NoVolume /\ measured' = claim["tenant1"].volume
            /\ pc' = "release_set" /\ error' = error /\ mishaps' = mishaps
         \/ /\ error' \in {"refused", "failed"} /\ Mishap /\ measured' = measured
            /\ pc' = "why1" \/ (pc' = "unhand" /\ Bound)
      /\ test' = test /\ Todo' = Todo
      /\ UNCHANGED <<plan, stage, set, claim, pod, volumes, doomed, holder, files, refusal, own,
                     errands, result, owed, apart, wrote, heard>>
  BY DEF FindVolume, test, Todo, Goto, Unwind, objects, world, faults, IInv, TypeOK
<1>2. /\ result = Pending /\ errands = << >> /\ Todo = {}
  BY <1>1, Busy DEF IInv, TypeOK
<1>3. /\ "tenant1" \in Tenants /\ claim["tenant1"].volume \in Volume \union {NoVolume}
  BY <1>1, <1>2, Typed DEF Tenants, IInv, TypeOK
<1>4. /\ error' \in {"none", "failed", "refused"} /\ mishaps' \in 0 .. MaxMishaps
      /\ measured' \in Volume \union {NoVolume}
      /\ mishaps' = 0 => mishaps = 0 /\ error' = error
  BY <1>1, <1>2, <1>3, Mishaps DEF IInv, TypeOK
<1>5. TypeOK'
  BY <1>1, <1>2, <1>3, <1>4, Labelled
  DEF IInv, TypeOK
<1>6. Course'
  BY <1>1, <1>2, <1>3, <1>4
  DEF IInv, Course, FirstErrands, Bound, Reading, Tenants
<1>7. Shape'
  BY <1>1, <1>2, <1>3, <1>4, Nones
  DEF IInv, Shape, JobsOf, SaysOf, Tenants, TypeOK
<1>8. HostPathsToGo'
  BY <1>1, <1>2, <1>3, <1>4, Objects, Names
  DEF IInv, HostPathsToGo, HostPathInUse, VolumeAway, Spared, Course, Tenants, TypeOK
<1>9. SetsToGo'
  BY <1>1, <1>2, <1>3, <1>4, Nones, Objects, Names
  DEF IInv, SetsToGo, SetInUse, SetAway, Course, Tenants, TypeOK, Shape
<1>10. ClaimsToGo'
  BY <1>1, <1>2, <1>3, <1>4, Nones, Objects, Names
  DEF IInv, ClaimsToGo, Settled, Owned, ClaimAway, WasReady, Tenants, TypeOK, Shape, JobsOf
<1>11. Standing'
  BY <1>1, <1>2, <1>3, <1>4, Nones
  DEF IInv, Standing, WriterStands, Owned, Confirmed, Course, Shape, JobsOf, Tenants, TypeOK
<1>12. VolumeCleanUp'
  BY <1>1, <1>2, <1>3, <1>4, Nones, Objects
  DEF IInv, VolumeCleanUp, Reading, Settled, Owned, SetAway, ClaimAway, VolumeAway, Course, Shape,
      JobsOf, Tenants, TypeOK
<1>13. Written'
  BY <1>1, <1>2, <1>3, <1>4, Nones
  DEF IInv, Written, Writing, WriterStands, Unbegun, FirstErrands, Early, Confirmed, Course,
      Shape, JobsOf, Tenants, TypeOK
<1>14. IntruderSays'
  BY <1>1, <1>2, <1>3, <1>4, Nones
  DEF IInv, IntruderSays, Written, Shape, Tenants, TypeOK
<1>15. Measured'
  BY <1>1, <1>2, <1>3, <1>4, Nones
  DEF IInv, Measured, Writing, Reading, Course, Shape, Tenants, TypeOK, Standing, WriterStands,
      Owned, Written, PlaceOf, Disk
<1>16. Unhindered'
  BY <1>1, <1>2, <1>3, <1>4, Nones
  DEF IInv, Unhindered, FirstErrands, Early, Course, Shape, Tenants, TypeOK
<1>17. ByHandOnly'
  <2>1. \A v \in ByHand : Handled(v) => Handled(v)'
    BY <1>1, <1>2, <1>3, <1>4, Names DEF Handled, TestOf, FirstErrands, Early, IInv, Course
  <2> QED
    BY <1>1, <1>2, <1>3, <1>4, <2>1, Names, Objects, Nones DEF IInv, ByHandOnly, TypeOK, Tenants
<1> QED
  BY <1>5, <1>6, <1>7, <1>8, <1>9, <1>10, <1>11, <1>12, <1>13, <1>14, <1>15, <1>16, <1>17 DEF IInv
LEMMA WhyVictimStep ==
  ASSUME IInv, WhyVictim, UNCHANGED earlier
  PROVE  IInv'
<1>1. /\ pc = "why1"
      /\ test' = test
      /\ UNCHANGED <<plan, stage, set, claim, pod, volumes, doomed, holder, files, refusal, own,
                     measured, error, mishaps, owed, apart, wrote, heard>>
  BY DEF WhyVictim, test, Return, objects, world, faults, local, IInv, TypeOK
<1>2. /\ result = Pending /\ errands = << >> /\ Todo = {}
  BY <1>1, Busy DEF IInv, TypeOK
<1>3. /\ errands' \in Seq(Object) /\ result' \in Result /\ result' # Pending
      /\ result'.why \in {"victim", "unready"}
      /\ \/ /\ test = "hostpath" /\ pc' = "errands" /\ errands' # << >>
            /\ Todo' = {SetOf("tenant1"), ClaimOf("tenant1"), TheVolume(HostPathOf("tenant1"))}
         \/ test # "hostpath" /\ pc' = "next" /\ errands' = << >> /\ Todo' = {}
  <2>1. PICK refused \in Refused("tenant1") :
          Return(IF refused THEN "Hard" ELSE "Unknown", IF refused THEN "victim" ELSE "unready",
                 IF test = "hostpath" THEN CleanUpOf("tenant1") ELSE << >>)
    BY DEF WhyVictim
  <2> DEFINE level == IF refused THEN "Hard" ELSE "Unknown"
             why == IF refused THEN "victim" ELSE "unready"
             todo == IF test = "hostpath" THEN CleanUpOf("tenant1") ELSE << >>
  <2>2. /\ level \in {"None", "Unknown", "Soft", "Hard"} /\ why \in Why
        /\ why \in {"victim", "unready"} /\ todo \in Seq(Object)
        /\ test = "hostpath" =>
             /\ todo # << >>
             /\ ItemsOf(todo) = {SetOf("tenant1"), ClaimOf("tenant1"), TheVolume(HostPathOf("tenant1"))}
        /\ test # "hostpath" => todo = << >> /\ ItemsOf(todo) = {}
    BY Reasons, CleanUps, Lists DEF Tenants
  <2>3. Return(level, why, todo)
    BY <2>1
  <2> HIDE DEF level, why, todo
  <2> QED
    BY <2>2, <2>3, Returned
<1>4. TypeOK'
  BY <1>1, <1>2, <1>3, Labelled
  DEF IInv, TypeOK
<1>5. Course'
  BY <1>1, <1>2, <1>3
  DEF IInv, Course, FirstErrands, Bound, Reading, Tenants
<1>6. Shape'
  BY <1>1, <1>2, <1>3, Nones
  DEF IInv, Shape, JobsOf, SaysOf, Tenants, TypeOK
<1>7. HostPathsToGo'
  BY <1>1, <1>2, <1>3, Objects, Names
  DEF IInv, HostPathsToGo, HostPathInUse, VolumeAway, Spared, Course, Tenants, TypeOK
<1>8. SetsToGo'
  BY <1>1, <1>2, <1>3, Nones, Objects, Names
  DEF IInv, SetsToGo, SetInUse, SetAway, Course, Tenants, TypeOK, Shape
<1>9. ClaimsToGo'
  BY <1>1, <1>2, <1>3, Nones, Objects, Names
  DEF IInv, ClaimsToGo, Settled, Owned, ClaimAway, WasReady, Tenants, TypeOK, Shape, JobsOf
<1>10. Standing'
  BY <1>1, <1>2, <1>3, Nones
  DEF IInv, Standing, WriterStands, Owned, Confirmed, Course, Shape, JobsOf, Tenants, TypeOK
<1>11. VolumeCleanUp'
  BY <1>1, <1>2, <1>3, Nones, Objects
  DEF IInv, VolumeCleanUp, Reading, Settled, Owned, SetAway, ClaimAway, VolumeAway, Course, Shape,
      JobsOf, Tenants, TypeOK
<1>12. Written'
  BY <1>1, <1>2, <1>3, Nones
  DEF IInv, Written, Writing, WriterStands, Unbegun, FirstErrands, Early, Confirmed, Course,
      Shape, JobsOf, Tenants, TypeOK
<1>13. IntruderSays'
  BY <1>1, <1>2, <1>3, Nones
  DEF IInv, IntruderSays, Written, Shape, Tenants, TypeOK
<1>14. Measured'
  BY <1>1, <1>2, <1>3, Nones
  DEF IInv, Measured, Writing, Reading, Course, Shape, Tenants, TypeOK
<1>15. Unhindered'
  BY <1>1, <1>2, <1>3, Nones
  DEF IInv, Unhindered, FirstErrands, Early, Course, Shape, Tenants, TypeOK
<1>16. ByHandOnly'
  <2>1. \A v \in ByHand : Handled(v) => Handled(v)'
    BY <1>1, <1>2, <1>3, Names DEF Handled, TestOf, FirstErrands, Early, IInv, Course
  <2>2. test = "hostpath" => Handled(Named("hp1"))'
    BY <1>1, <1>2, <1>3, Names DEF Handled, TestOf, FirstErrands, Early, IInv, Course
  <2> QED
    BY <1>1, <1>2, <1>3, <2>1, <2>2, Names, Objects, Nones DEF IInv, ByHandOnly, TypeOK, Tenants
<1> QED
  BY <1>4, <1>5, <1>6, <1>7, <1>8, <1>9, <1>10, <1>11, <1>12, <1>13, <1>14, <1>15, <1>16 DEF IInv
-----------------------------------------------------------------------------
(***************************************************************************)
(* The harness: the volume is released, and tenant 2 reads.                *)
(***************************************************************************)
LEMMA Withheld ==
  ASSUME TypeOK, result = Pending, errands = << >>, NEW missing \in BOOLEAN, Unreleased(missing)
  PROVE  /\ pc' = "next" /\ errands' = << >> /\ Todo' = {}
         /\ result' \in Result /\ result' # Pending /\ result'.why \in {"release", "partial"}
         /\ UNCHANGED <<plan, stage, apart, owed>> /\ test' = test
         /\ mishaps' \in 0 .. MaxMishaps /\ (mishaps' = 0 => mishaps = 0)
<1>1. Return("Soft", "release", << >>) \/ Return("Hard", "partial", << >>)
  BY DEF Unreleased
<1>2. Return("Soft", "release", << >>) => result'.why = "release"
  BY Returned, Reasons
<1>3. Return("Hard", "partial", << >>) => result'.why = "partial"
  BY Returned, Reasons
<1>4. /\ pc' = "next" /\ errands' = << >> /\ Todo' = {}
      /\ result' \in Result /\ result' # Pending
      /\ UNCHANGED <<plan, stage, apart>> /\ test' = test
  BY <1>1, Returned, Reasons, Lists
<1>5. UNCHANGED owed /\ (Mishap \/ UNCHANGED mishaps)
  BY DEF Unreleased, faults
<1>6. mishaps' \in 0 .. MaxMishaps /\ (mishaps' = 0 => mishaps = 0)
  BY <1>5, Mishaps DEF TypeOK
<1> QED
  BY <1>1, <1>2, <1>3, <1>4, <1>5, <1>6
LEMMA ReleaseSetStep ==
  ASSUME IInv, ReleaseSet, UNCHANGED earlier
  PROVE  IInv'
<1>1. /\ pc = "release_set"
      /\ test' = test
      /\ UNCHANGED <<plan, stage, claim, pod, volumes, doomed, holder, files, refusal, own,
                     measured, error, owed, apart, wrote, heard>>
  <2>1. CASE Remove(SetOf("tenant1")) /\ Goto("release_claim") /\ UNCHANGED faults
    BY <2>1, RemovedSet DEF IInv, ReleaseSet, Goto, test, faults, world, local, Tenants
  <2>2. CASE Unreleased(FALSE) /\ UNCHANGED objects
    BY <2>2, Withheld, Busy DEF IInv, ReleaseSet, objects, world, local
  <2> QED
    BY <2>1, <2>2 DEF ReleaseSet
<1>2. /\ result = Pending /\ errands = << >> /\ Todo = {}
  BY <1>1, Busy DEF IInv, TypeOK
<1>3. /\ claim["tenant1"] # NoClaim
  BY <1>1, <1>2, Nones DEF Course, Standing, Shape, Owned, WriterStands, JobsOf, Tenants, IInv,
                           TypeOK
<1>4. /\ set' \in [Tenants -> Set]
      /\ \/ /\ set'["tenant1"] = NoSet /\ set'["tenant2"] = set["tenant2"]
            /\ pc' = "release_claim" /\ errands' = << >> /\ Todo' = {} /\ result' = Pending
         \/ /\ set' = set
            /\ pc' = "next" /\ errands' = << >> /\ Todo' = {} /\ result' # Pending
            /\ result'.why \in {"release", "partial"}
      /\ result' \in Result /\ mishaps' \in 0 .. MaxMishaps /\ (mishaps' = 0 => mishaps = 0)
  <2>1. CASE Remove(SetOf("tenant1")) /\ Goto("release_claim") /\ UNCHANGED faults
    <3>1. set' \in [Tenants -> Set] /\ set'["tenant1"] = NoSet /\ set'["tenant2"] = set["tenant2"]
      BY <1>3, <2>1, RemovedSet DEF IInv, Tenants
    <3>2. pc' = "release_claim" /\ errands' = << >> /\ Todo' = {} /\ result' = Pending
      BY <1>2, <2>1, Gone
    <3> QED
      BY <2>1, <3>1, <3>2 DEF IInv, TypeOK, faults, Result
  <2>2. CASE Unreleased(FALSE) /\ UNCHANGED objects
    BY <1>2, <2>2, Withheld DEF IInv, TypeOK, objects
  <2> QED
    BY <2>1, <2>2 DEF ReleaseSet
<1>5. TypeOK'
  BY <1>1, <1>2, <1>3, <1>4, Labelled
  DEF IInv, TypeOK
<1>6. Course'
  BY <1>1, <1>2, <1>3, <1>4
  DEF IInv, Course, FirstErrands, Bound, Reading, Tenants
<1>7. Shape'
  BY <1>1, <1>2, <1>3, <1>4, Nones
  DEF IInv, Shape, JobsOf, SaysOf, Tenants, TypeOK
<1>8. HostPathsToGo'
  BY <1>1, <1>2, <1>3, <1>4, Objects, Names
  DEF IInv, HostPathsToGo, HostPathInUse, VolumeAway, Spared, Course, Tenants, TypeOK
<1>9. SetsToGo'
  BY <1>1, <1>2, <1>3, <1>4, Nones, Objects, Names
  DEF IInv, SetsToGo, SetInUse, SetAway, Course, Tenants, TypeOK, Shape
<1>10. ClaimsToGo'
  BY <1>1, <1>2, <1>3, <1>4, Nones, Objects, Names
  DEF IInv, ClaimsToGo, Settled, Owned, ClaimAway, WasReady, Tenants, TypeOK, Shape, JobsOf
<1>11. Standing'
  BY <1>1, <1>2, <1>3, <1>4, Nones
  DEF IInv, Standing, WriterStands, Owned, Confirmed, Course, Shape, JobsOf, Tenants, TypeOK
<1>12. VolumeCleanUp'
  BY <1>1, <1>2, <1>3, <1>4, Nones, Objects
  DEF IInv, VolumeCleanUp, Reading, Settled, Owned, SetAway, ClaimAway, VolumeAway, Course, Shape,
      JobsOf, Tenants, TypeOK
<1>13. Written'
  BY <1>1, <1>2, <1>3, <1>4, Nones
  DEF IInv, Written, Writing, WriterStands, Unbegun, FirstErrands, Early, Confirmed, Course,
      Shape, JobsOf, Tenants, TypeOK
<1>14. IntruderSays'
  BY <1>1, <1>2, <1>3, <1>4, Nones
  DEF IInv, IntruderSays, Written, Shape, Tenants, TypeOK
<1>15. Measured'
  BY <1>1, <1>2, <1>3, <1>4, Nones
  DEF IInv, Measured, Writing, Reading, Course, Shape, Tenants, TypeOK
<1>16. Unhindered'
  BY <1>1, <1>2, <1>3, <1>4, Nones
  DEF IInv, Unhindered, FirstErrands, Early, Course, Shape, Tenants, TypeOK
<1>17. ByHandOnly'
  BY <1>1, <1>2, <1>3, <1>4, Nones, Names, Objects
  DEF IInv, ByHandOnly, Handled, FirstErrands, Early, Course, Shape, Tenants, TypeOK
<1> QED
  BY <1>5, <1>6, <1>7, <1>8, <1>9, <1>10, <1>11, <1>12, <1>13, <1>14, <1>15, <1>16, <1>17 DEF IInv
LEMMA ReleaseClaimStep ==
  ASSUME IInv, ReleaseClaim, UNCHANGED earlier
  PROVE  IInv'
<1>1. /\ pc = "release_claim"
      /\ test' = test
      /\ UNCHANGED <<plan, stage, set, pod, volumes, doomed, holder, files, refusal, own,
                     measured, error, owed, apart, wrote, heard>>
  <2>1. CASE Remove(ClaimOf("tenant1")) /\ Goto("release_volume") /\ UNCHANGED faults
    BY <2>1, RemovedClaim DEF IInv, ReleaseClaim, Goto, test, faults, world, local, Tenants
  <2>2. CASE Unreleased(claim["tenant1"] = NoClaim) /\ UNCHANGED objects
    BY <2>2, Withheld, Busy DEF IInv, ReleaseClaim, objects, world, local
  <2> QED
    BY <2>1, <2>2 DEF ReleaseClaim
<1>2. /\ result = Pending /\ errands = << >> /\ Todo = {}
  BY <1>1, Busy DEF IInv, TypeOK
<1>3. /\ claim' \in [Tenants -> Claim] /\ claim'["tenant2"] = claim["tenant2"]
      /\ \A t \in Tenants : claim'[t].asks = claim[t].asks /\ claim'[t].volume = claim[t].volume
      /\ \/ /\ claim'["tenant1"] = NoClaim \/ claim'["tenant1"].going
            /\ pc' = "release_volume" /\ errands' = << >> /\ Todo' = {} /\ result' = Pending
         \/ /\ claim' = claim
            /\ pc' = "next" /\ errands' = << >> /\ Todo' = {} /\ result' # Pending
            /\ result'.why \in {"release", "partial"}
      /\ result' \in Result /\ mishaps' \in 0 .. MaxMishaps /\ (mishaps' = 0 => mishaps = 0)
  <2>1. CASE Remove(ClaimOf("tenant1")) /\ Goto("release_volume") /\ UNCHANGED faults
    <3>1. /\ claim' \in [Tenants -> Claim] /\ claim'["tenant2"] = claim["tenant2"]
          /\ \A t \in Tenants : claim'[t].asks = claim[t].asks /\ claim'[t].volume = claim[t].volume
          /\ claim'["tenant1"] = NoClaim \/ claim'["tenant1"].going
      BY <2>1, RemovedClaim DEF IInv, Tenants
    <3>2. pc' = "release_volume" /\ errands' = << >> /\ Todo' = {} /\ result' = Pending
      BY <1>2, <2>1, Gone
    <3> QED
      BY <2>1, <3>1, <3>2 DEF IInv, TypeOK, faults, Result
  <2>2. CASE Unreleased(claim["tenant1"] = NoClaim) /\ UNCHANGED objects
    BY <1>2, <2>2, Withheld DEF IInv, TypeOK, objects
  <2> QED
    BY <2>1, <2>2 DEF ReleaseClaim
<1>4. TypeOK'
  BY <1>1, <1>2, <1>3, Labelled
  DEF IInv, TypeOK
<1>5. Course'
  BY <1>1, <1>2, <1>3
  DEF IInv, Course, FirstErrands, Bound, Reading, Tenants
<1>6. Shape'
  BY <1>1, <1>2, <1>3, Nones
  DEF IInv, Shape, JobsOf, SaysOf, Tenants, TypeOK
<1>7. HostPathsToGo'
  BY <1>1, <1>2, <1>3, Objects, Names
  DEF IInv, HostPathsToGo, HostPathInUse, VolumeAway, Spared, Course, Tenants, TypeOK
<1>8. SetsToGo'
  BY <1>1, <1>2, <1>3, Nones, Objects, Names
  DEF IInv, SetsToGo, SetInUse, SetAway, Course, Tenants, TypeOK, Shape
<1>9. ClaimsToGo'
  BY <1>1, <1>2, <1>3, Nones, Objects, Names
  DEF IInv, ClaimsToGo, Settled, Owned, ClaimAway, WasReady, Tenants, TypeOK, Shape, JobsOf
<1>10. Standing'
  BY <1>1, <1>2, <1>3, Nones
  DEF IInv, Standing, WriterStands, Owned, Confirmed, Course, Shape, JobsOf, Tenants, TypeOK
<1>11. VolumeCleanUp'
  BY <1>1, <1>2, <1>3, Nones, Objects
  DEF IInv, VolumeCleanUp, Reading, Settled, Owned, SetAway, ClaimAway, VolumeAway, Course, Shape,
      JobsOf, Tenants, TypeOK
<1>12. Written'
  BY <1>1, <1>2, <1>3, Nones
  DEF IInv, Written, Writing, WriterStands, Unbegun, FirstErrands, Early, Confirmed, Course,
      Shape, JobsOf, Tenants, TypeOK
<1>13. IntruderSays'
  BY <1>1, <1>2, <1>3, Nones
  DEF IInv, IntruderSays, Written, Shape, Tenants, TypeOK
<1>14. Measured'
  BY <1>1, <1>2, <1>3, Nones
  DEF IInv, Measured, Writing, Reading, Course, Shape, Tenants, TypeOK
<1>15. Unhindered'
  BY <1>1, <1>2, <1>3, Nones
  DEF IInv, Unhindered, FirstErrands, Early, Course, Shape, Tenants, TypeOK
<1>16. ByHandOnly'
  BY <1>1, <1>2, <1>3, Nones, Names, Objects
  DEF IInv, ByHandOnly, Handled, FirstErrands, Early, Course, Shape, Tenants, TypeOK
<1> QED
  BY <1>4, <1>5, <1>6, <1>7, <1>8, <1>9, <1>10, <1>11, <1>12, <1>13, <1>14, <1>15, <1>16 DEF IInv
LEMMA ReleaseVolumeStep ==
  ASSUME IInv, ReleaseVolume, UNCHANGED earlier
  PROVE  IInv'
<1>1. /\ pc = "release_volume"
      /\ test' = test
      /\ UNCHANGED <<plan, stage, set, claim, pod, volumes, doomed, files, refusal, own, measured,
                     error, owed, apart, wrote, heard>>
  <2>1. CASE Goto("look") /\ UNCHANGED <<set, claim, volumes, doomed, faults>>
    BY <2>1 DEF IInv, ReleaseVolume, Goto, test, faults, world, local, Tenants
  <2>2. CASE Unreleased(measured \notin volumes) /\ UNCHANGED objects
    BY <2>2, Withheld, Busy DEF IInv, ReleaseVolume, objects, world, local
  <2> QED
    BY <2>1, <2>2 DEF ReleaseVolume
<1>2. /\ result = Pending /\ errands = << >> /\ Todo = {}
  BY <1>1, Busy DEF IInv, TypeOK
<1>3. /\ holder' \in [Volume -> Tenants \union {"none", "lost"}]
      /\ \/ pc' = "look" /\ errands' = << >> /\ Todo' = {} /\ result' = Pending
         \/ /\ pc' = "next" /\ errands' = << >> /\ Todo' = {} /\ result' # Pending
            /\ result'.why \in {"release", "partial"}
      /\ result' \in Result /\ mishaps' \in 0 .. MaxMishaps /\ (mishaps' = 0 => mishaps = 0)
  <2>1. CASE holder' = [holder EXCEPT ![measured] = "none"] /\ Goto("look") /\ UNCHANGED faults
    <3>1. pc' = "look" /\ errands' = << >> /\ Todo' = {} /\ result' = Pending
      BY <1>2, <2>1, Gone
    <3> QED
      BY <2>1, <3>1 DEF IInv, TypeOK, faults, Result
  <2>2. CASE Unreleased(measured \notin volumes) /\ UNCHANGED objects
    BY <1>2, <2>2, Withheld DEF IInv, TypeOK, objects
  <2> QED
    BY <2>1, <2>2 DEF ReleaseVolume
<1>4. TypeOK'
  BY <1>1, <1>2, <1>3, Labelled
  DEF IInv, TypeOK
<1>5. Course'
  BY <1>1, <1>2, <1>3
  DEF IInv, Course, FirstErrands, Bound, Reading, Tenants
<1>6. Shape'
  BY <1>1, <1>2, <1>3, Nones
  DEF IInv, Shape, JobsOf, SaysOf, Tenants, TypeOK
<1>7. HostPathsToGo'
  BY <1>1, <1>2, <1>3, Objects, Names
  DEF IInv, HostPathsToGo, HostPathInUse, VolumeAway, Spared, Course, Tenants, TypeOK
<1>8. SetsToGo'
  BY <1>1, <1>2, <1>3, Nones, Objects, Names
  DEF IInv, SetsToGo, SetInUse, SetAway, Course, Tenants, TypeOK, Shape
<1>9. ClaimsToGo'
  BY <1>1, <1>2, <1>3, Nones, Objects, Names
  DEF IInv, ClaimsToGo, Settled, Owned, ClaimAway, WasReady, Tenants, TypeOK, Shape, JobsOf
<1>10. Standing'
  BY <1>1, <1>2, <1>3, Nones
  DEF IInv, Standing, WriterStands, Owned, Confirmed, Course, Shape, JobsOf, Tenants, TypeOK
<1>11. VolumeCleanUp'
  BY <1>1, <1>2, <1>3, Nones, Objects
  DEF IInv, VolumeCleanUp, Reading, Settled, Owned, SetAway, ClaimAway, VolumeAway, Course, Shape,
      JobsOf, Tenants, TypeOK
<1>12. Written'
  BY <1>1, <1>2, <1>3, Nones
  DEF IInv, Written, Writing, WriterStands, Unbegun, FirstErrands, Early, Confirmed, Course,
      Shape, JobsOf, Tenants, TypeOK
<1>13. IntruderSays'
  BY <1>1, <1>2, <1>3, Nones
  DEF IInv, IntruderSays, Written, Shape, Tenants, TypeOK
<1>14. Measured'
  BY <1>1, <1>2, <1>3, Nones
  DEF IInv, Measured, Writing, Reading, Course, Shape, Tenants, TypeOK
<1>15. Unhindered'
  BY <1>1, <1>2, <1>3, Nones
  DEF IInv, Unhindered, FirstErrands, Early, Course, Shape, Tenants, TypeOK
<1>16. ByHandOnly'
  BY <1>1, <1>2, <1>3, Nones, Names, Objects
  DEF IInv, ByHandOnly, Handled, FirstErrands, Early, Course, Shape, Tenants, TypeOK
<1> QED
  BY <1>4, <1>5, <1>6, <1>7, <1>8, <1>9, <1>10, <1>11, <1>12, <1>13, <1>14, <1>15, <1>16 DEF IInv
LEMMA CreateReaderStep ==
  ASSUME IInv, CreateReader, UNCHANGED earlier
  PROVE  IInv'
<1>1. PICK answer \in Answers(set["tenant2"].live), classRead \in BOOLEAN :
        /\ pc = "look"
        /\ CreateSet("tenant2", "read", Offered(classRead), answer)
        /\ IF answer = "ok" THEN Goto("mount")
           ELSE Return(IF answer = "refused" THEN "Soft" ELSE "Hard",
                       IF answer = "refused" THEN "refused" ELSE "create", <<TheVolume(measured)>>)
        /\ UNCHANGED <<world, local>>
  BY DEF CreateReader
<1>2. /\ pc = "look"
      /\ test' = test
      /\ UNCHANGED <<plan, stage, claim, pod, volumes, doomed, holder, files, refusal, own,
                     measured, error, apart, wrote, heard>>
  BY <1>1 DEF CreateReader, test, Goto, Return, CreateSet, world, local, IInv, TypeOK
<1>3. /\ test # "hostpath" /\ measured \in Volume
      /\ Offered(classRead) \in Asks /\ (Offered(classRead) \in ByHand => Offered(classRead) = measured)
  BY <1>1, <1>2, Names DEF Course, Reading, Offered, IInv, TypeOK
<1>4. /\ answer \in {"ok", "taken", "refused", "failed", "lost"}
      /\ set' \in [Tenants -> Set] /\ \A u \in Tenants : u # "tenant2" => set'[u] = set[u]
      /\ answer \in {"ok", "lost"} =>
         /\ ~ set["tenant2"].live /\ set'["tenant2"].live
         /\ set'["tenant2"].job = "read" /\ set'["tenant2"].stage = stage /\ set'["tenant2"].asks = Offered(classRead)
      /\ answer \notin {"ok", "lost"} => set' = set
      /\ answer = "taken" => set["tenant2"].live
      /\ mishaps' \in 0 .. MaxMishaps /\ owed' \subseteq Object
      /\ answer \in {"ok", "taken"} => mishaps' = mishaps
      /\ answer \notin {"ok", "taken"} => mishaps' = mishaps + 1 /\ stage = 1
      /\ owed' = owed
  <2>1. "tenant2" \in Tenants /\ "read" \in Job
    BY DEF Tenants, Job
  <2> QED
    BY <1>1, <1>3, <2>1, CreatedSet DEF IInv
<1>5. /\ result = Pending /\ errands = << >> /\ Todo = {}
  BY <1>1, <1>2, <1>3, <1>4, Busy DEF IInv, TypeOK
<1>6. /\ errands' \in Seq(Object) /\ result' \in Result /\ (mishaps' = 0 => mishaps = 0)
      /\ \/ /\ answer = "ok" /\ pc' = "mount"
            /\ errands' = << >> /\ Todo' = {} /\ result' = Pending
         \/ /\ answer # "ok" /\ pc' = "errands" /\ errands' # << >> /\ Todo' = {TheVolume(measured)}
            /\ result' # Pending /\ result'.why \in {"refused", "create"}
  <2>1. mishaps' = 0 => mishaps = 0
    BY <1>4, MishapsAssumption DEF IInv, TypeOK
  <2>2. CASE answer = "ok"
    BY <1>1, <1>5, <2>1, <2>2, Gone, Lists DEF Goto, Result
  <2>3. CASE answer # "ok"
    <3> DEFINE level == IF answer = "refused" THEN "Soft" ELSE "Hard"
               why == IF answer = "refused" THEN "refused" ELSE "create"
               todo == <<TheVolume(measured)>>
    <3>1. /\ level \in {"None", "Unknown", "Soft", "Hard"} /\ why \in Why /\ why \in {"refused", "create"}
          /\ todo \in Seq(Object) /\ todo # << >> /\ ItemsOf(todo) = {TheVolume(measured)}
      BY <1>3, Reasons, Lists, Objects
    <3>2. Return(level, why, todo)
      BY <1>1, <2>3
    <3> HIDE DEF level, why, todo
    <3> QED
      BY <2>1, <2>3, <3>1, <3>2, Returned
  <2> QED
    BY <2>2, <2>3
<1>7. TypeOK'
  BY <1>1, <1>2, <1>3, <1>4, <1>5, <1>6, Labelled
  DEF IInv, TypeOK
<1>8. Course'
  BY <1>1, <1>2, <1>3, <1>4, <1>5, <1>6
  DEF IInv, Course, FirstErrands, Bound, Reading, Tenants
<1>9. Shape'
  BY <1>1, <1>2, <1>3, <1>4, <1>5, <1>6, Nones
  DEF IInv, Shape, JobsOf, SaysOf, Tenants, TypeOK
<1>10. HostPathsToGo'
  BY <1>1, <1>2, <1>3, <1>4, <1>5, <1>6, Objects, Names
  DEF IInv, HostPathsToGo, HostPathInUse, VolumeAway, Spared, Course, Tenants, TypeOK
<1>11. SetsToGo'
  BY <1>1, <1>2, <1>3, <1>4, <1>5, <1>6, Nones, Objects, Names
  DEF IInv, SetsToGo, SetInUse, SetAway, Course, Tenants, TypeOK, Shape
<1>12. ClaimsToGo'
  BY <1>1, <1>2, <1>3, <1>4, <1>5, <1>6, Nones, Objects, Names
  DEF IInv, ClaimsToGo, Settled, Owned, ClaimAway, WasReady, Tenants, TypeOK, Shape, JobsOf
<1>13. Standing'
  BY <1>1, <1>2, <1>3, <1>4, <1>5, <1>6, Nones
  DEF IInv, Standing, WriterStands, Owned, Confirmed, Course, Shape, JobsOf, Tenants, TypeOK
<1>14. VolumeCleanUp'
  BY <1>1, <1>2, <1>3, <1>4, <1>5, <1>6, Nones, Objects
  DEF IInv, VolumeCleanUp, Reading, Settled, Owned, SetAway, ClaimAway, VolumeAway, Course, Shape,
      JobsOf, Tenants, TypeOK
<1>15. Written'
  BY <1>1, <1>2, <1>3, <1>4, <1>5, <1>6, Nones
  DEF IInv, Written, Writing, WriterStands, Unbegun, FirstErrands, Early, Confirmed, Course,
      Shape, JobsOf, Tenants, TypeOK
<1>16. IntruderSays'
  BY <1>1, <1>2, <1>3, <1>4, <1>5, <1>6, Nones
  DEF IInv, IntruderSays, Written, Shape, Tenants, TypeOK
<1>17. Measured'
  BY <1>1, <1>2, <1>3, <1>4, <1>5, <1>6, Nones
  DEF IInv, Measured, Writing, Reading, Course, Shape, Tenants, TypeOK
<1>18. Unhindered'
  BY <1>1, <1>2, <1>3, <1>4, <1>5, <1>6, Nones
  DEF IInv, Unhindered, FirstErrands, Early, Course, Shape, Tenants, TypeOK
<1>19. ByHandOnly'
  BY <1>1, <1>2, <1>3, <1>4, <1>5, <1>6, Nones, Names, Objects
  DEF IInv, ByHandOnly, Handled, FirstErrands, Early, Course, Shape, Tenants, TypeOK
<1> QED
  BY <1>7, <1>8, <1>9, <1>10, <1>11, <1>12, <1>13, <1>14, <1>15, <1>16, <1>17, <1>18, <1>19 DEF IInv
LEMMA SeenToEndStep ==
  ASSUME IInv, SeenToEnd, UNCHANGED earlier
  PROVE  IInv'
<1>1. /\ pc = "mount" /\ pc' = "logs"
      /\ test' = test /\ Todo' = Todo
      /\ UNCHANGED <<plan, stage, set, claim, pod, volumes, doomed, holder, files, refusal, own,
                     measured, error, errands, result, mishaps, owed, apart, wrote, heard>>
  BY DEF SeenToEnd, test, Todo, Goto, objects, world, faults, local, IInv, TypeOK
<1>2. /\ result = Pending /\ errands = << >> /\ Todo = {}
  BY <1>1, Busy DEF IInv, TypeOK
<1>3. TypeOK'
  BY <1>1, <1>2, Labelled
  DEF IInv, TypeOK
<1>4. Course'
  BY <1>1, <1>2
  DEF IInv, Course, FirstErrands, Bound, Reading, Tenants
<1>5. Shape'
  BY <1>1, <1>2, Nones
  DEF IInv, Shape, JobsOf, SaysOf, Tenants, TypeOK
<1>6. HostPathsToGo'
  BY <1>1, <1>2, Objects, Names
  DEF IInv, HostPathsToGo, HostPathInUse, VolumeAway, Spared, Course, Tenants, TypeOK
<1>7. SetsToGo'
  BY <1>1, <1>2, Nones, Objects, Names
  DEF IInv, SetsToGo, SetInUse, SetAway, Course, Tenants, TypeOK, Shape
<1>8. ClaimsToGo'
  BY <1>1, <1>2, Nones, Objects, Names
  DEF IInv, ClaimsToGo, Settled, Owned, ClaimAway, WasReady, Tenants, TypeOK, Shape, JobsOf
<1>9. Standing'
  BY <1>1, <1>2, Nones
  DEF IInv, Standing, WriterStands, Owned, Confirmed, Course, Shape, JobsOf, Tenants, TypeOK
<1>10. VolumeCleanUp'
  BY <1>1, <1>2, Nones, Objects
  DEF IInv, VolumeCleanUp, Reading, Settled, Owned, SetAway, ClaimAway, VolumeAway, Course, Shape,
      JobsOf, Tenants, TypeOK
<1>11. Written'
  BY <1>1, <1>2, Nones
  DEF IInv, Written, Writing, WriterStands, Unbegun, FirstErrands, Early, Confirmed, Course,
      Shape, JobsOf, Tenants, TypeOK
<1>12. IntruderSays'
  BY <1>1, <1>2, Nones
  DEF IInv, IntruderSays, Written, Shape, Tenants, TypeOK
<1>13. Measured'
  BY <1>1, <1>2, Nones
  DEF IInv, Measured, Writing, Reading, Course, Shape, Tenants, TypeOK
<1>14. Unhindered'
  BY <1>1, <1>2, Nones
  DEF IInv, Unhindered, FirstErrands, Early, Course, Shape, Tenants, TypeOK
<1>15. ByHandOnly'
  BY <1>1, <1>2, Nones, Names, Objects
  DEF IInv, ByHandOnly, Handled, FirstErrands, Early, Course, Shape, Tenants, TypeOK
<1> QED
  BY <1>3, <1>4, <1>5, <1>6, <1>7, <1>8, <1>9, <1>10, <1>11, <1>12, <1>13, <1>14, <1>15 DEF IInv
LEMMA NotSeenToEndStep ==
  ASSUME IInv, NotSeenToEnd, UNCHANGED earlier
  PROVE  IInv'
<1>1. /\ pc = "mount" /\ pc' = "why2" /\ error' = "failed" /\ mishaps' = mishaps
      /\ test' = test /\ Todo' = Todo
      /\ UNCHANGED <<plan, stage, set, claim, pod, volumes, doomed, holder, files, refusal, own,
                     measured, errands, result, owed, apart, wrote, heard>>
  BY DEF NotSeenToEnd, test, Todo, Goto, Unseen, objects, world, IInv, TypeOK
<1>2. /\ result = Pending /\ errands = << >> /\ Todo = {}
  BY <1>1, Busy DEF IInv, TypeOK
<1>3. TypeOK'
  BY <1>1, <1>2, Labelled
  DEF IInv, TypeOK
<1>4. Course'
  BY <1>1, <1>2
  DEF IInv, Course, FirstErrands, Bound, Reading, Tenants
<1>5. Shape'
  BY <1>1, <1>2, Nones
  DEF IInv, Shape, JobsOf, SaysOf, Tenants, TypeOK
<1>6. HostPathsToGo'
  BY <1>1, <1>2, Objects, Names
  DEF IInv, HostPathsToGo, HostPathInUse, VolumeAway, Spared, Course, Tenants, TypeOK
<1>7. SetsToGo'
  BY <1>1, <1>2, Nones, Objects, Names
  DEF IInv, SetsToGo, SetInUse, SetAway, Course, Tenants, TypeOK, Shape
<1>8. ClaimsToGo'
  BY <1>1, <1>2, Nones, Objects, Names
  DEF IInv, ClaimsToGo, Settled, Owned, ClaimAway, WasReady, Tenants, TypeOK, Shape, JobsOf
<1>9. Standing'
  BY <1>1, <1>2, Nones
  DEF IInv, Standing, WriterStands, Owned, Confirmed, Course, Shape, JobsOf, Tenants, TypeOK
<1>10. VolumeCleanUp'
  BY <1>1, <1>2, Nones, Objects
  DEF IInv, VolumeCleanUp, Reading, Settled, Owned, SetAway, ClaimAway, VolumeAway, Course, Shape,
      JobsOf, Tenants, TypeOK
<1>11. Written'
  BY <1>1, <1>2, Nones
  DEF IInv, Written, Writing, WriterStands, Unbegun, FirstErrands, Early, Confirmed, Course,
      Shape, JobsOf, Tenants, TypeOK
<1>12. IntruderSays'
  BY <1>1, <1>2, Nones
  DEF IInv, IntruderSays, Written, Shape, Tenants, TypeOK
<1>13. Measured'
  BY <1>1, <1>2, Nones
  DEF IInv, Measured, Writing, Reading, Course, Shape, Tenants, TypeOK
<1>14. Unhindered'
  BY <1>1, <1>2, Nones
  DEF IInv, Unhindered, FirstErrands, Early, Course, Shape, Tenants, TypeOK
<1>15. ByHandOnly'
  BY <1>1, <1>2, Nones, Names, Objects
  DEF IInv, ByHandOnly, Handled, FirstErrands, Early, Course, Shape, Tenants, TypeOK
<1> QED
  BY <1>3, <1>4, <1>5, <1>6, <1>7, <1>8, <1>9, <1>10, <1>11, <1>12, <1>13, <1>14, <1>15 DEF IInv
LEMMA WhyIntruderStep ==
  ASSUME IInv, WhyIntruder, UNCHANGED earlier
  PROVE  IInv'
<1>1. /\ pc = "why2"
      /\ test' = test
      /\ UNCHANGED <<plan, stage, set, claim, pod, volumes, doomed, holder, files, refusal, own,
                     measured, error, mishaps, owed, apart, wrote, heard>>
  BY DEF WhyIntruder, test, Return, objects, world, faults, local, IInv, TypeOK
<1>2. /\ result = Pending /\ errands = << >> /\ Todo = {}
  BY <1>1, Busy DEF IInv, TypeOK
<1>3. /\ errands' \in Seq(Object) /\ errands' # << >> /\ pc' = "errands"
      /\ result' \in Result /\ result' # Pending
      /\ test = "hostpath" =>
         /\ Todo' = UNION {{SetOf(t), ClaimOf(t), TheVolume(HostPathOf(t))} : t \in Tenants}
         /\ result'.why \in {"refused", "unready"}
      /\ test # "hostpath" => /\ Todo' = {SetOf("tenant2"), TheVolume(measured)}
                              /\ result'.why \in {"refused", "unseen"}
  <2>1. PICK refused \in Refused("tenant2") :
          IF test = "hostpath"
            THEN Return(IF refused THEN "Soft" ELSE "Unknown",
                        IF refused THEN "refused" ELSE "unready", CleanUpBoth)
            ELSE Return(IF refused THEN "Soft" ELSE "Hard", IF refused THEN "refused" ELSE "unseen",
                        <<SetOf("tenant2"), TheVolume(measured)>>)
    BY DEF WhyIntruder
  <2>2. CASE test = "hostpath"
    <3> DEFINE level == IF refused THEN "Soft" ELSE "Unknown"
               why == IF refused THEN "refused" ELSE "unready"
    <3>1. /\ level \in {"None", "Unknown", "Soft", "Hard"} /\ why \in Why
          /\ why \in {"refused", "unready"}
      BY Reasons
    <3>2. Return(level, why, CleanUpBoth)
      BY <2>1, <2>2
    <3> HIDE DEF level, why
    <3> QED
      BY <2>2, <3>1, <3>2, Returned, CleanUps
  <2>3. CASE test # "hostpath"
    <3> DEFINE level == IF refused THEN "Soft" ELSE "Hard"
               why == IF refused THEN "refused" ELSE "unseen"
               todo == <<SetOf("tenant2"), TheVolume(measured)>>
    <3>1. /\ level \in {"None", "Unknown", "Soft", "Hard"} /\ why \in Why
          /\ why \in {"refused", "unseen"}
      BY Reasons
    <3>2. SetOf("tenant2") \in Object /\ TheVolume(measured) \in Object
      BY <1>1, <2>3, Objects DEF IInv, Course, Reading, Tenants
    <3>3. todo \in Seq(Object) /\ todo # << >> /\ ItemsOf(todo) = {SetOf("tenant2"), TheVolume(measured)}
      BY <3>2, Lists
    <3>4. Return(level, why, todo)
      BY <2>1, <2>3
    <3> HIDE DEF level, why, todo
    <3> QED
      BY <2>3, <3>1, <3>3, <3>4, Returned
  <2> QED
    BY <2>2, <2>3
<1>4. TypeOK'
  BY <1>1, <1>2, <1>3, Labelled
  DEF IInv, TypeOK
<1>5. Course'
  BY <1>1, <1>2, <1>3
  DEF IInv, Course, FirstErrands, Bound, Reading, Tenants
<1>6. Shape'
  BY <1>1, <1>2, <1>3, Nones
  DEF IInv, Shape, JobsOf, SaysOf, Tenants, TypeOK
<1>7. HostPathsToGo'
  BY <1>1, <1>2, <1>3, Objects, Names
  DEF IInv, HostPathsToGo, HostPathInUse, VolumeAway, Spared, Course, Tenants, TypeOK
<1>8. SetsToGo'
  BY <1>1, <1>2, <1>3, Nones, Objects, Names
  DEF IInv, SetsToGo, SetInUse, SetAway, Course, Tenants, TypeOK, Shape
<1>9. ClaimsToGo'
  <2>1. test = "hostpath" => Owned("tenant1")
    BY <1>1, <1>2, <1>3 DEF IInv, Standing, Confirmed, Course
  <2> QED
    BY <1>1, <1>2, <1>3, <2>1, Nones, Objects, Names
    DEF IInv, ClaimsToGo, Settled, Owned, ClaimAway, WasReady, Tenants, TypeOK, Course
<1>10. Standing'
  BY <1>1, <1>2, <1>3, Nones
  DEF IInv, Standing, WriterStands, Owned, Confirmed, Course, Shape, JobsOf, Tenants, TypeOK
<1>11. VolumeCleanUp'
  BY <1>1, <1>2, <1>3, Nones, Objects
  DEF IInv, VolumeCleanUp, Reading, Settled, Owned, SetAway, ClaimAway, VolumeAway, Course, Shape,
      JobsOf, Tenants, TypeOK
<1>12. Written'
  BY <1>1, <1>2, <1>3, Nones
  DEF IInv, Written, Writing, WriterStands, Unbegun, FirstErrands, Early, Confirmed, Course,
      Shape, JobsOf, Tenants, TypeOK
<1>13. IntruderSays'
  BY <1>1, <1>2, <1>3, Nones
  DEF IInv, IntruderSays, Written, Shape, Tenants, TypeOK
<1>14. Measured'
  BY <1>1, <1>2, <1>3, Nones
  DEF IInv, Measured, Writing, Reading, Course, Shape, Tenants, TypeOK
<1>15. Unhindered'
  BY <1>1, <1>2, <1>3, Nones
  DEF IInv, Unhindered, FirstErrands, Early, Course, Shape, Tenants, TypeOK
<1>16. ByHandOnly'
  <2>1. \A v \in ByHand : Handled(v) => Handled(v)'
    BY <1>1, <1>2, <1>3, Names DEF Handled, TestOf, FirstErrands, Early, IInv, Course
  <2>2. test = "hostpath" => Handled(Named("hp1"))' /\ Handled(Named("hp2"))'
    BY <1>1, <1>2, <1>3, Names DEF Handled, TestOf, FirstErrands, Early, IInv, Course, Reading
  <2>3. test # "hostpath" => measured \in Volume
    BY <1>1, <1>2, <1>3, Names DEF Handled, TestOf, FirstErrands, Early, IInv, Course, Reading
  <2> QED
    BY <1>1, <1>2, <1>3, <2>1, <2>2, <2>3, Names, Objects, Nones DEF IInv, ByHandOnly, TypeOK, Tenants
<1> QED
  BY <1>4, <1>5, <1>6, <1>7, <1>8, <1>9, <1>10, <1>11, <1>12, <1>13, <1>14, <1>15, <1>16 DEF IInv
LEMMA LastErrands ==
  ASSUME IInv, pc = "logs"
  PROVE  /\ AfterLogs \in Seq(Object) /\ AfterLogs # << >>
         /\ test = "hostpath" =>
              ItemsOf(AfterLogs) = UNION {{SetOf(t), ClaimOf(t), TheVolume(HostPathOf(t))} : t \in Tenants}
         /\ test # "hostpath" =>
              ItemsOf(AfterLogs) = {SetOf("tenant2"), ClaimOf("tenant2"), TheVolume(measured)}
<1>1. CASE test = "hostpath"
  BY <1>1, CleanUps DEF AfterLogs
<1>2. CASE test # "hostpath"
  <2>1. SetOf("tenant2") \in Object /\ ClaimOf("tenant2") \in Object /\ TheVolume(measured) \in Object
    BY <1>2, Objects DEF IInv, Course, Reading, Tenants
  <2> QED
    BY <1>2, <2>1, Lists DEF AfterLogs
<1> QED
  BY <1>1, <1>2
LEMMA ReadLogStep ==
  ASSUME IInv, ReadLog, UNCHANGED earlier
  PROVE  IInv'
<1>1. /\ pc = "logs" /\ pod["tenant2"].said # "nothing" /\ heard' = pod["tenant2"]
      /\ test' = test
      /\ UNCHANGED <<plan, stage, set, claim, pod, volumes, doomed, holder, files, refusal, own,
                     measured, error, mishaps, owed, apart, wrote>>
  BY DEF ReadLog, test, Return, objects, world, faults, IInv, TypeOK
<1>2. /\ result = Pending /\ errands = << >> /\ Todo = {}
  BY <1>1, Busy DEF IInv, TypeOK
<1>3. /\ errands' \in Seq(Object) /\ errands' # << >> /\ pc' = "errands"
      /\ result' \in Result /\ result' # Pending /\ result'.why \in {"found", "missing"}
      /\ test = "hostpath" =>
         Todo' = UNION {{SetOf(t), ClaimOf(t), TheVolume(HostPathOf(t))} : t \in Tenants}
      /\ test # "hostpath" => Todo' = {SetOf("tenant2"), ClaimOf("tenant2"), TheVolume(measured)}
      /\ heard' \in Pod
  <2>1. Return("None", "found", AfterLogs) \/ Return("Hard", "missing", AfterLogs)
    BY DEF ReadLog
  <2>2. result'.why \in {"found", "missing"}
    BY <2>1, Reasons, Returned
  <2>3. /\ errands' = AfterLogs /\ Todo' = ItemsOf(AfterLogs) /\ (AfterLogs # << >> => pc' = "errands")
        /\ result' \in Result /\ result' # Pending
    BY <2>1, Reasons, Returned
  <2>4. "tenant2" \in Tenants /\ heard' \in Pod
    BY <1>1, Typed DEF IInv, Tenants
  <2> QED
    BY <1>1, <2>2, <2>3, <2>4, LastErrands
<1>4. TypeOK'
  BY <1>1, <1>2, <1>3, Labelled
  DEF IInv, TypeOK
<1>5. Course'
  BY <1>1, <1>2, <1>3
  DEF IInv, Course, FirstErrands, Bound, Reading, Tenants
<1>6. Shape'
  BY <1>1, <1>2, <1>3, Nones
  DEF IInv, Shape, JobsOf, SaysOf, Tenants, TypeOK
<1>7. HostPathsToGo'
  BY <1>1, <1>2, <1>3, Objects, Names
  DEF IInv, HostPathsToGo, HostPathInUse, VolumeAway, Spared, Course, Tenants, TypeOK
<1>8. SetsToGo'
  BY <1>1, <1>2, <1>3, Nones, Objects, Names
  DEF IInv, SetsToGo, SetInUse, SetAway, Course, Tenants, TypeOK, Shape
<1>9. ClaimsToGo'
  <2>1. test = "hostpath" => Owned("tenant1")
    BY <1>1, <1>2, <1>3 DEF IInv, Standing, Confirmed, Course
  <2>2. test = "hostpath" => Owned("tenant2")
    BY <1>1, <1>2, <1>3 DEF IInv, Standing, Confirmed, Course
  <2> QED
    BY <1>1, <1>2, <1>3, <2>1, <2>2, Nones, Objects, Names
    DEF IInv, ClaimsToGo, Settled, Owned, ClaimAway, WasReady, Tenants, TypeOK, Course
<1>10. Standing'
  BY <1>1, <1>2, <1>3, Nones
  DEF IInv, Standing, WriterStands, Owned, Confirmed, Course, Shape, JobsOf, Tenants, TypeOK
<1>11. VolumeCleanUp'
  BY <1>1, <1>2, <1>3, Nones, Objects
  DEF IInv, VolumeCleanUp, Reading, Settled, Owned, SetAway, ClaimAway, VolumeAway, Course, Shape,
      JobsOf, Tenants, TypeOK
<1>12. Written'
  BY <1>1, <1>2, <1>3, Nones
  DEF IInv, Written, Writing, WriterStands, Unbegun, FirstErrands, Early, Confirmed, Course,
      Shape, JobsOf, Tenants, TypeOK
<1>13. IntruderSays'
  BY <1>1, <1>2, <1>3, Nones
  DEF IInv, IntruderSays, Written, Shape, Tenants, TypeOK
<1>14. Measured'
  BY <1>1, <1>2, <1>3, Nones
  DEF IInv, Measured, Writing, Reading, Course, Shape, Tenants, TypeOK
<1>15. Unhindered'
  BY <1>1, <1>2, <1>3, Nones
  DEF IInv, Unhindered, FirstErrands, Early, Course, Shape, Tenants, TypeOK
<1>16. ByHandOnly'
  <2>1. \A v \in ByHand : Handled(v) => Handled(v)'
    BY <1>1, <1>2, <1>3, Names DEF Handled, TestOf, FirstErrands, Early, IInv, Course
  <2>2. test = "hostpath" => Handled(Named("hp1"))' /\ Handled(Named("hp2"))'
    BY <1>1, <1>2, <1>3, Names DEF Handled, TestOf, FirstErrands, Early, IInv, Course, Reading
  <2>3. test # "hostpath" => measured \in Volume
    BY <1>1, <1>2, <1>3, Names DEF Handled, TestOf, FirstErrands, Early, IInv, Course, Reading
  <2> QED
    BY <1>1, <1>2, <1>3, <2>1, <2>2, <2>3, Names, Objects, Nones DEF IInv, ByHandOnly, TypeOK, Tenants
<1> QED
  BY <1>4, <1>5, <1>6, <1>7, <1>8, <1>9, <1>10, <1>11, <1>12, <1>13, <1>14, <1>15, <1>16 DEF IInv
LEMMA LogSilentStep ==
  ASSUME IInv, LogSilent, UNCHANGED earlier
  PROVE  IInv'
<1>1. /\ pc = "logs"
      /\ test' = test
      /\ UNCHANGED <<plan, stage, set, claim, pod, volumes, doomed, holder, files, refusal, own,
                     measured, error, mishaps, owed, apart, wrote, heard>>
  BY DEF LogSilent, test, Return, objects, world, faults, local, IInv, TypeOK
<1>2. /\ result = Pending /\ errands = << >> /\ Todo = {}
  BY <1>1, Busy DEF IInv, TypeOK
<1>3. /\ errands' \in Seq(Object)
      /\ result' \in Result /\ result' # Pending /\ result'.why = "silent"
      /\ test = "hostpath" =>
         /\ pc' = "errands" /\ errands' # << >>
         /\ Todo' = UNION {{SetOf(t), ClaimOf(t), TheVolume(HostPathOf(t))} : t \in Tenants}
      /\ test # "hostpath" => pc' = "next" /\ errands' = << >> /\ Todo' = {}
  <2> DEFINE todo == IF test = "hostpath" THEN CleanUpBoth ELSE << >>
  <2>1. /\ todo \in Seq(Object)
        /\ test = "hostpath" => todo = CleanUpBoth
        /\ test # "hostpath" => todo = << >>
    BY CleanUps, Lists
  <2>2. Return("Unknown", "silent", todo)
    BY DEF LogSilent
  <2> HIDE DEF todo
  <2> QED
    BY <2>1, <2>2, Returned, Reasons, CleanUps, Lists
<1>4. TypeOK'
  BY <1>1, <1>2, <1>3, Labelled
  DEF IInv, TypeOK
<1>5. Course'
  BY <1>1, <1>2, <1>3
  DEF IInv, Course, FirstErrands, Bound, Reading, Tenants
<1>6. Shape'
  BY <1>1, <1>2, <1>3, Nones
  DEF IInv, Shape, JobsOf, SaysOf, Tenants, TypeOK
<1>7. HostPathsToGo'
  BY <1>1, <1>2, <1>3, Objects, Names
  DEF IInv, HostPathsToGo, HostPathInUse, VolumeAway, Spared, Course, Tenants, TypeOK
<1>8. SetsToGo'
  BY <1>1, <1>2, <1>3, Nones, Objects, Names
  DEF IInv, SetsToGo, SetInUse, SetAway, Course, Tenants, TypeOK, Shape
<1>9. ClaimsToGo'
  <2>1. test = "hostpath" => Owned("tenant1")
    BY <1>1, <1>2, <1>3 DEF IInv, Standing, Confirmed, Course
  <2>2. test = "hostpath" => Owned("tenant2")
    BY <1>1, <1>2, <1>3 DEF IInv, Standing, Confirmed, Course
  <2> QED
    BY <1>1, <1>2, <1>3, <2>1, <2>2, Nones, Objects, Names
    DEF IInv, ClaimsToGo, Settled, Owned, ClaimAway, WasReady, Tenants, TypeOK, Course
<1>10. Standing'
  BY <1>1, <1>2, <1>3, Nones
  DEF IInv, Standing, WriterStands, Owned, Confirmed, Course, Shape, JobsOf, Tenants, TypeOK
<1>11. VolumeCleanUp'
  BY <1>1, <1>2, <1>3, Nones, Objects
  DEF IInv, VolumeCleanUp, Reading, Settled, Owned, SetAway, ClaimAway, VolumeAway, Course, Shape,
      JobsOf, Tenants, TypeOK
<1>12. Written'
  BY <1>1, <1>2, <1>3, Nones
  DEF IInv, Written, Writing, WriterStands, Unbegun, FirstErrands, Early, Confirmed, Course,
      Shape, JobsOf, Tenants, TypeOK
<1>13. IntruderSays'
  BY <1>1, <1>2, <1>3, Nones
  DEF IInv, IntruderSays, Written, Shape, Tenants, TypeOK
<1>14. Measured'
  BY <1>1, <1>2, <1>3, Nones
  DEF IInv, Measured, Writing, Reading, Course, Shape, Tenants, TypeOK
<1>15. Unhindered'
  BY <1>1, <1>2, <1>3, Nones
  DEF IInv, Unhindered, FirstErrands, Early, Course, Shape, Tenants, TypeOK
<1>16. ByHandOnly'
  <2>1. \A v \in ByHand : Handled(v) => Handled(v)'
    BY <1>1, <1>2, <1>3, Names DEF Handled, TestOf, FirstErrands, Early, IInv, Course
  <2>2. test = "hostpath" => Handled(Named("hp1"))' /\ Handled(Named("hp2"))'
    BY <1>1, <1>2, <1>3, Names DEF Handled, TestOf, FirstErrands, Early, IInv, Course, Reading
  <2>3. test # "hostpath" => measured \in Volume
    BY <1>1, <1>2, <1>3, Names DEF Handled, TestOf, FirstErrands, Early, IInv, Course, Reading
  <2> QED
    BY <1>1, <1>2, <1>3, <2>1, <2>2, <2>3, Names, Objects, Nones DEF IInv, ByHandOnly, TypeOK, Tenants
<1> QED
  BY <1>4, <1>5, <1>6, <1>7, <1>8, <1>9, <1>10, <1>11, <1>12, <1>13, <1>14, <1>15, <1>16 DEF IInv
-----------------------------------------------------------------------------
(***************************************************************************)
(* The harness: the hostPath test.                                         *)
(***************************************************************************)
LEMMA CreateVictimVolumeStep ==
  ASSUME IInv, CreateVictimVolume, UNCHANGED earlier
  PROVE  IInv'
<1>1. PICK answer :
        /\ pc = "hp_volume1"
        /\ CreateVolume(Named("hp1"), answer)
        /\ IF answer = "ok" THEN Goto("write") ELSE Return("Hard", "unmade", << >>)
        /\ UNCHANGED <<world, local>>
  BY DEF CreateVictimVolume
<1>2. /\ pc = "hp_volume1"
      /\ test' = test
      /\ UNCHANGED <<plan, stage, set, claim, pod, doomed, holder, files, refusal, own, measured,
                     error, apart, wrote, heard>>
  BY <1>1 DEF CreateVictimVolume, test, Goto, Return, CreateVolume, world, local, IInv, TypeOK
<1>3. /\ answer \in {"ok", "taken", "refused", "failed", "lost"}
      /\ volumes' = volumes \/ (volumes' = volumes \union {Named("hp1")} /\ answer \in {"ok", "lost"})
      /\ volumes' \subseteq Volume
      /\ mishaps' \in 0 .. MaxMishaps /\ owed' \subseteq Object
      /\ answer \in {"ok", "taken"} => mishaps' = mishaps
      /\ answer \notin {"ok", "taken"} => mishaps' = mishaps + 1 /\ stage = 1
      /\ answer = "taken" => Named("hp1") \in volumes
      /\ owed' = owed
  BY <1>1, Names, CreatedVolume DEF IInv
<1>4. /\ result = Pending /\ errands = << >> /\ Todo = {}
  BY <1>1, <1>2, <1>3, Busy DEF IInv, TypeOK
<1>5. /\ errands' = << >> /\ Todo' = {} /\ result' \in Result /\ test = "hostpath"
      /\ mishaps' = 0 => mishaps = 0
      /\ \/ answer = "ok" /\ pc' = "write" /\ result' = Pending
         \/ answer # "ok" /\ pc' = "next" /\ result' # Pending /\ result'.why = "unmade"
  <2>1. (mishaps' = 0 => mishaps = 0) /\ test = "hostpath"
    BY <1>1, <1>3, MishapsAssumption DEF IInv, TypeOK, Course
  <2>2. CASE answer = "ok"
    BY <1>1, <1>4, <2>1, <2>2, Gone, Lists DEF Goto, Result
  <2>3. CASE answer # "ok"
    BY <1>1, <2>1, <2>3, Returned, Reasons, Lists
  <2> QED
    BY <2>2, <2>3
<1>6. TypeOK'
  BY <1>1, <1>2, <1>3, <1>4, <1>5, Labelled
  DEF IInv, TypeOK
<1>7. Course'
  BY <1>1, <1>2, <1>3, <1>4, <1>5
  DEF IInv, Course, FirstErrands, Bound, Reading, Tenants
<1>8. Shape'
  BY <1>1, <1>2, <1>3, <1>4, <1>5, Nones
  DEF IInv, Shape, JobsOf, SaysOf, Tenants, TypeOK
<1>9. HostPathsToGo'
  BY <1>1, <1>2, <1>3, <1>4, <1>5, Objects, Names
  DEF IInv, HostPathsToGo, HostPathInUse, VolumeAway, Spared, Course, Tenants, TypeOK
<1>10. SetsToGo'
  BY <1>1, <1>2, <1>3, <1>4, <1>5, Nones, Objects, Names
  DEF IInv, SetsToGo, SetInUse, SetAway, Course, Tenants, TypeOK, Shape
<1>11. ClaimsToGo'
  BY <1>1, <1>2, <1>3, <1>4, <1>5, Nones, Objects, Names
  DEF IInv, ClaimsToGo, Settled, Owned, ClaimAway, WasReady, Tenants, TypeOK, Shape, JobsOf
<1>12. Standing'
  BY <1>1, <1>2, <1>3, <1>4, <1>5, Nones
  DEF IInv, Standing, WriterStands, Owned, Confirmed, Course, Shape, JobsOf, Tenants, TypeOK
<1>13. VolumeCleanUp'
  BY <1>1, <1>2, <1>3, <1>4, <1>5, Nones, Objects
  DEF IInv, VolumeCleanUp, Reading, Settled, Owned, SetAway, ClaimAway, VolumeAway, Course, Shape,
      JobsOf, Tenants, TypeOK
<1>14. Written'
  BY <1>1, <1>2, <1>3, <1>4, <1>5, Nones
  DEF IInv, Written, Writing, WriterStands, Unbegun, FirstErrands, Early, Confirmed, Course,
      Shape, JobsOf, Tenants, TypeOK
<1>15. IntruderSays'
  BY <1>1, <1>2, <1>3, <1>4, <1>5, Nones
  DEF IInv, IntruderSays, Written, Shape, Tenants, TypeOK
<1>16. Measured'
  BY <1>1, <1>2, <1>3, <1>4, <1>5, Nones
  DEF IInv, Measured, Writing, Reading, Course, Shape, Tenants, TypeOK
<1>17. Unhindered'
  BY <1>1, <1>2, <1>3, <1>4, <1>5, Nones
  DEF IInv, Unhindered, FirstErrands, Early, Course, Shape, Tenants, TypeOK
<1>18. ByHandOnly'
  <2>1. \A v \in ByHand : Handled(v) => Handled(v)'
    BY <1>1, <1>2, <1>3, <1>4, <1>5, Names DEF Handled, TestOf, FirstErrands, Early, IInv, Course
  <2>2. Handled(Named("hp1"))'
    BY <1>1, <1>2, <1>3, <1>4, <1>5, Names DEF Handled, TestOf, FirstErrands, Early, IInv, Course
  <2> QED
    BY <1>1, <1>2, <1>3, <1>4, <1>5, <2>1, <2>2, Names, Objects, Nones DEF IInv, ByHandOnly, TypeOK, Tenants
<1> QED
  BY <1>6, <1>7, <1>8, <1>9, <1>10, <1>11, <1>12, <1>13, <1>14, <1>15, <1>16, <1>17, <1>18 DEF IInv
LEMMA ConfirmStep ==
  ASSUME IInv, Confirm, UNCHANGED earlier
  PROVE  IInv'
<1>1. /\ pc = "confirm" /\ pc' = "hp_volume2" /\ pod["tenant1"].said = "wrote"
      /\ test' = test /\ Todo' = Todo
      /\ UNCHANGED <<plan, stage, set, claim, pod, volumes, doomed, holder, files, refusal, own,
                     measured, error, errands, result, mishaps, owed, apart, wrote, heard>>
  BY DEF Confirm, test, Todo, Goto, objects, world, faults, local, IInv, TypeOK
<1>2. /\ result = Pending /\ errands = << >> /\ Todo = {}
  BY <1>1, Busy DEF IInv, TypeOK
<1>3. /\ wrote # {}
  BY <1>1, <1>2 DEF Course, Standing, WriterStands, Owned, Written, Writing, IInv, TypeOK
<1>4. TypeOK'
  BY <1>1, <1>2, <1>3, Labelled
  DEF IInv, TypeOK
<1>5. Course'
  BY <1>1, <1>2, <1>3
  DEF IInv, Course, FirstErrands, Bound, Reading, Tenants
<1>6. Shape'
  BY <1>1, <1>2, <1>3, Nones
  DEF IInv, Shape, JobsOf, SaysOf, Tenants, TypeOK
<1>7. HostPathsToGo'
  BY <1>1, <1>2, <1>3, Objects, Names
  DEF IInv, HostPathsToGo, HostPathInUse, VolumeAway, Spared, Course, Tenants, TypeOK
<1>8. SetsToGo'
  BY <1>1, <1>2, <1>3, Nones, Objects, Names
  DEF IInv, SetsToGo, SetInUse, SetAway, Course, Tenants, TypeOK, Shape
<1>9. ClaimsToGo'
  BY <1>1, <1>2, <1>3, Nones, Objects, Names
  DEF IInv, ClaimsToGo, Settled, Owned, ClaimAway, WasReady, Tenants, TypeOK, Shape, JobsOf
<1>10. Standing'
  BY <1>1, <1>2, <1>3, Nones
  DEF IInv, Standing, WriterStands, Owned, Confirmed, Course, Shape, JobsOf, Tenants, TypeOK
<1>11. VolumeCleanUp'
  BY <1>1, <1>2, <1>3, Nones, Objects
  DEF IInv, VolumeCleanUp, Reading, Settled, Owned, SetAway, ClaimAway, VolumeAway, Course, Shape,
      JobsOf, Tenants, TypeOK
<1>12. Written'
  BY <1>1, <1>2, <1>3, Nones
  DEF IInv, Written, Writing, WriterStands, Unbegun, FirstErrands, Early, Confirmed, Course,
      Shape, JobsOf, Tenants, TypeOK
<1>13. IntruderSays'
  BY <1>1, <1>2, <1>3, Nones
  DEF IInv, IntruderSays, Written, Shape, Tenants, TypeOK
<1>14. Measured'
  BY <1>1, <1>2, <1>3, Nones
  DEF IInv, Measured, Writing, Reading, Course, Shape, Tenants, TypeOK
<1>15. Unhindered'
  BY <1>1, <1>2, <1>3, Nones
  DEF IInv, Unhindered, FirstErrands, Early, Course, Shape, Tenants, TypeOK
<1>16. ByHandOnly'
  BY <1>1, <1>2, <1>3, Nones, Names, Objects
  DEF IInv, ByHandOnly, Handled, FirstErrands, Early, Course, Shape, Tenants, TypeOK
<1> QED
  BY <1>4, <1>5, <1>6, <1>7, <1>8, <1>9, <1>10, <1>11, <1>12, <1>13, <1>14, <1>15, <1>16 DEF IInv
LEMMA UnconfirmedStep ==
  ASSUME IInv, Unconfirmed, UNCHANGED earlier
  PROVE  IInv'
<1>1. /\ pc = "confirm" /\ pc' = "errands" /\ test = "hostpath"
      /\ result' \in Result /\ result' # Pending /\ result'.why = "unplanted"
      /\ errands' \in Seq(Object) /\ errands' # << >>
      /\ Todo' = {SetOf("tenant1"), ClaimOf("tenant1"), TheVolume(HostPathOf("tenant1"))}
      /\ test' = test
      /\ UNCHANGED <<plan, stage, set, claim, pod, volumes, doomed, holder, files, refusal, own,
                     measured, error, mishaps, owed, apart, wrote, heard>>
  <2>1. Return("Unknown", "unplanted", CleanUpOf("tenant1")) /\ "tenant1" \in Tenants
    BY DEF Unconfirmed, Tenants
  <2>2. test' = test
    BY <2>1, Returned, Reasons
  <2> QED
    BY <2>1, <2>2, Returned, Reasons, CleanUps DEF Unconfirmed, objects, world, faults, local, IInv, Course
<1>2. /\ result = Pending /\ errands = << >> /\ Todo = {}
  BY <1>1, Busy DEF IInv, TypeOK
<1>3. TypeOK'
  BY <1>1, <1>2, Labelled
  DEF IInv, TypeOK
<1>4. Course'
  BY <1>1, <1>2
  DEF IInv, Course, FirstErrands, Bound, Reading, Tenants
<1>5. Shape'
  BY <1>1, <1>2, Nones
  DEF IInv, Shape, JobsOf, SaysOf, Tenants, TypeOK
<1>6. HostPathsToGo'
  BY <1>1, <1>2, Objects, Names
  DEF IInv, HostPathsToGo, HostPathInUse, VolumeAway, Spared, Course, Tenants, TypeOK
<1>7. SetsToGo'
  BY <1>1, <1>2, Nones, Objects, Names
  DEF IInv, SetsToGo, SetInUse, SetAway, Course, Tenants, TypeOK, Shape
<1>8. ClaimsToGo'
  <2>1. test = "hostpath" => Owned("tenant1")
    BY <1>1, <1>2 DEF IInv, Standing, Confirmed, Course
  <2> QED
    BY <1>1, <1>2, <2>1, Nones, Objects, Names
    DEF IInv, ClaimsToGo, Settled, Owned, ClaimAway, WasReady, Tenants, TypeOK, Course
<1>9. Standing'
  BY <1>1, <1>2, Nones
  DEF IInv, Standing, WriterStands, Owned, Confirmed, Course, Shape, JobsOf, Tenants, TypeOK
<1>10. VolumeCleanUp'
  BY <1>1, <1>2, Nones, Objects
  DEF IInv, VolumeCleanUp, Reading, Settled, Owned, SetAway, ClaimAway, VolumeAway, Course, Shape,
      JobsOf, Tenants, TypeOK
<1>11. Written'
  BY <1>1, <1>2, Nones
  DEF IInv, Written, Writing, WriterStands, Unbegun, FirstErrands, Early, Confirmed, Course,
      Shape, JobsOf, Tenants, TypeOK
<1>12. IntruderSays'
  BY <1>1, <1>2, Nones
  DEF IInv, IntruderSays, Written, Shape, Tenants, TypeOK
<1>13. Measured'
  BY <1>1, <1>2, Nones
  DEF IInv, Measured, Writing, Reading, Course, Shape, Tenants, TypeOK
<1>14. Unhindered'
  BY <1>1, <1>2, Nones
  DEF IInv, Unhindered, FirstErrands, Early, Course, Shape, Tenants, TypeOK
<1>15. ByHandOnly'
  <2>1. \A v \in ByHand : Handled(v) => Handled(v)'
    BY <1>1, <1>2, Names DEF Handled, TestOf, FirstErrands, Early, IInv, Course
  <2>2. test = "hostpath" => Handled(Named("hp1"))'
    BY <1>1, <1>2, Names DEF Handled, TestOf, FirstErrands, Early, IInv, Course
  <2> QED
    BY <1>1, <1>2, <2>1, <2>2, Names, Objects, Nones DEF IInv, ByHandOnly, TypeOK, Tenants
<1> QED
  BY <1>3, <1>4, <1>5, <1>6, <1>7, <1>8, <1>9, <1>10, <1>11, <1>12, <1>13, <1>14, <1>15 DEF IInv
LEMMA CreateIntruderVolumeStep ==
  ASSUME IInv, CreateIntruderVolume, UNCHANGED earlier
  PROVE  IInv'
<1>1. PICK answer :
        /\ pc = "hp_volume2"
        /\ CreateVolume(Named("hp2"), answer)
        /\ IF answer = "ok" THEN Goto("read") ELSE Return("Soft", "barred", CleanUpOf("tenant1"))
        /\ UNCHANGED <<world, local>>
  BY DEF CreateIntruderVolume
<1>2. /\ pc = "hp_volume2"
      /\ test' = test
      /\ UNCHANGED <<plan, stage, set, claim, pod, doomed, holder, files, refusal, own, measured,
                     error, apart, wrote, heard>>
  BY <1>1 DEF CreateIntruderVolume, test, Goto, Return, CreateVolume, world, local, IInv, TypeOK
<1>3. /\ answer \in {"ok", "taken", "refused", "failed", "lost"}
      /\ volumes' = volumes \/ (volumes' = volumes \union {Named("hp2")} /\ answer \in {"ok", "lost"})
      /\ volumes' \subseteq Volume
      /\ mishaps' \in 0 .. MaxMishaps /\ owed' \subseteq Object
      /\ answer \in {"ok", "taken"} => mishaps' = mishaps
      /\ answer \notin {"ok", "taken"} => mishaps' = mishaps + 1 /\ stage = 1
      /\ answer = "taken" => Named("hp2") \in volumes
      /\ owed' = owed
  BY <1>1, Names, CreatedVolume DEF IInv
<1>4. /\ result = Pending /\ errands = << >> /\ Todo = {}
  BY <1>1, <1>2, <1>3, Busy DEF IInv, TypeOK
<1>5. /\ errands' \in Seq(Object) /\ result' \in Result /\ test = "hostpath"
      /\ mishaps' = 0 => mishaps = 0
      /\ \/ answer = "ok" /\ pc' = "read" /\ result' = Pending /\ errands' = << >> /\ Todo' = {}
         \/ /\ answer # "ok" /\ pc' = "errands" /\ errands' # << >>
            /\ Todo' = {SetOf("tenant1"), ClaimOf("tenant1"), TheVolume(HostPathOf("tenant1"))}
            /\ result' # Pending /\ result'.why = "barred"
  <2>1. (mishaps' = 0 => mishaps = 0) /\ test = "hostpath"
    BY <1>1, <1>3, MishapsAssumption DEF IInv, TypeOK, Course
  <2>2. CASE answer = "ok"
    BY <1>1, <1>4, <2>1, <2>2, Gone, Lists DEF Goto, Result
  <2>3. CASE answer # "ok"
    <3>1. Return("Soft", "barred", CleanUpOf("tenant1")) /\ "tenant1" \in Tenants
      BY <1>1, <2>3 DEF Tenants
    <3> QED
      BY <2>1, <2>3, <3>1, Returned, Reasons, CleanUps
  <2> QED
    BY <2>2, <2>3
<1>6. TypeOK'
  BY <1>1, <1>2, <1>3, <1>4, <1>5, Labelled
  DEF IInv, TypeOK
<1>7. Course'
  BY <1>1, <1>2, <1>3, <1>4, <1>5
  DEF IInv, Course, FirstErrands, Bound, Reading, Tenants
<1>8. Shape'
  BY <1>1, <1>2, <1>3, <1>4, <1>5, Nones
  DEF IInv, Shape, JobsOf, SaysOf, Tenants, TypeOK
<1>9. HostPathsToGo'
  BY <1>1, <1>2, <1>3, <1>4, <1>5, Objects, Names
  DEF IInv, HostPathsToGo, HostPathInUse, VolumeAway, Spared, Course, Tenants, TypeOK
<1>10. SetsToGo'
  BY <1>1, <1>2, <1>3, <1>4, <1>5, Nones, Objects, Names
  DEF IInv, SetsToGo, SetInUse, SetAway, Course, Tenants, TypeOK, Shape
<1>11. ClaimsToGo'
  <2>1. test = "hostpath" => Owned("tenant1")
    BY <1>1, <1>2, <1>3, <1>4, <1>5 DEF IInv, Standing, Confirmed, Course
  <2> QED
    BY <1>1, <1>2, <1>3, <1>4, <1>5, <2>1, Nones, Objects, Names
    DEF IInv, ClaimsToGo, Settled, Owned, ClaimAway, WasReady, Tenants, TypeOK, Course
<1>12. Standing'
  BY <1>1, <1>2, <1>3, <1>4, <1>5, Nones
  DEF IInv, Standing, WriterStands, Owned, Confirmed, Course, Shape, JobsOf, Tenants, TypeOK
<1>13. VolumeCleanUp'
  BY <1>1, <1>2, <1>3, <1>4, <1>5, Nones, Objects
  DEF IInv, VolumeCleanUp, Reading, Settled, Owned, SetAway, ClaimAway, VolumeAway, Course, Shape,
      JobsOf, Tenants, TypeOK
<1>14. Written'
  BY <1>1, <1>2, <1>3, <1>4, <1>5, Nones
  DEF IInv, Written, Writing, WriterStands, Unbegun, FirstErrands, Early, Confirmed, Course,
      Shape, JobsOf, Tenants, TypeOK
<1>15. IntruderSays'
  BY <1>1, <1>2, <1>3, <1>4, <1>5, Nones
  DEF IInv, IntruderSays, Written, Shape, Tenants, TypeOK
<1>16. Measured'
  BY <1>1, <1>2, <1>3, <1>4, <1>5, Nones
  DEF IInv, Measured, Writing, Reading, Course, Shape, Tenants, TypeOK
<1>17. Unhindered'
  BY <1>1, <1>2, <1>3, <1>4, <1>5, Nones
  DEF IInv, Unhindered, FirstErrands, Early, Course, Shape, Tenants, TypeOK
<1>18. ByHandOnly'
  <2>1. \A v \in ByHand : Handled(v) => Handled(v)'
    BY <1>1, <1>2, <1>3, <1>4, <1>5, Names DEF Handled, TestOf, FirstErrands, Early, IInv, Course
  <2>2. Handled(Named("hp1"))' /\ Handled(Named("hp2"))'
    BY <1>1, <1>2, <1>3, <1>4, <1>5, Names DEF Handled, TestOf, FirstErrands, Early, IInv, Course
  <2> QED
    BY <1>1, <1>2, <1>3, <1>4, <1>5, <2>1, <2>2, Names, Objects, Nones DEF IInv, ByHandOnly, TypeOK, Tenants
<1> QED
  BY <1>6, <1>7, <1>8, <1>9, <1>10, <1>11, <1>12, <1>13, <1>14, <1>15, <1>16, <1>17, <1>18 DEF IInv
LEMMA CreateIntruderStep ==
  ASSUME IInv, CreateIntruder, UNCHANGED earlier
  PROVE  IInv'
<1>1. PICK answer :
        /\ pc = "read"
        /\ CreateSet("tenant2", "read", Named("hp2"), answer)
        /\ IF answer = "ok" THEN Goto("ready2") ELSE Return("Soft", "refused", CleanUpBoth)
        /\ UNCHANGED <<world, local>>
  BY DEF CreateIntruder
<1>2. /\ pc = "read"
      /\ test' = test
      /\ UNCHANGED <<plan, stage, claim, pod, volumes, doomed, holder, files, refusal, own,
                     measured, error, apart, wrote, heard>>
  BY <1>1 DEF CreateIntruder, test, Goto, Return, CreateSet, world, local, IInv, TypeOK
<1>3. /\ answer \in {"ok", "taken", "refused", "failed", "lost"}
      /\ set' \in [Tenants -> Set] /\ \A u \in Tenants : u # "tenant2" => set'[u] = set[u]
      /\ answer \in {"ok", "lost"} =>
         /\ ~ set["tenant2"].live /\ set'["tenant2"].live
         /\ set'["tenant2"].job = "read" /\ set'["tenant2"].stage = stage /\ set'["tenant2"].asks = Named("hp2")
      /\ answer \notin {"ok", "lost"} => set' = set
      /\ answer = "taken" => set["tenant2"].live
      /\ mishaps' \in 0 .. MaxMishaps /\ owed' \subseteq Object
      /\ answer \in {"ok", "taken"} => mishaps' = mishaps
      /\ answer \notin {"ok", "taken"} => mishaps' = mishaps + 1 /\ stage = 1
      /\ owed' = owed
  <2>1. "tenant2" \in Tenants /\ "read" \in Job /\ Named("hp2") \in Asks
    BY Names DEF Tenants, Job
  <2> QED
    BY <1>1, <2>1, CreatedSet DEF IInv
<1>4. /\ result = Pending /\ errands = << >> /\ Todo = {}
  BY <1>1, <1>2, <1>3, Busy DEF IInv, TypeOK
<1>5. /\ errands' \in Seq(Object) /\ result' \in Result /\ test = "hostpath"
      /\ mishaps' = 0 => mishaps = 0
      /\ \/ answer = "ok" /\ pc' = "ready2" /\ result' = Pending /\ errands' = << >> /\ Todo' = {}
         \/ /\ answer # "ok" /\ pc' = "errands" /\ errands' # << >>
            /\ Todo' = UNION {{SetOf(t), ClaimOf(t), TheVolume(HostPathOf(t))} : t \in Tenants}
            /\ result' # Pending /\ result'.why = "refused"
  <2>1. (mishaps' = 0 => mishaps = 0) /\ test = "hostpath"
    BY <1>1, <1>3, MishapsAssumption DEF IInv, TypeOK, Course
  <2>2. CASE answer = "ok"
    BY <1>1, <1>4, <2>1, <2>2, Gone, Lists DEF Goto, Result
  <2>3. CASE answer # "ok"
    <3>1. Return("Soft", "refused", CleanUpBoth)
      BY <1>1, <2>3
    <3> QED
      BY <2>1, <2>3, <3>1, Returned, Reasons, CleanUps
  <2> QED
    BY <2>2, <2>3
<1>6. TypeOK'
  BY <1>1, <1>2, <1>3, <1>4, <1>5, Labelled
  DEF IInv, TypeOK
<1>7. Course'
  BY <1>1, <1>2, <1>3, <1>4, <1>5
  DEF IInv, Course, FirstErrands, Bound, Reading, Tenants
<1>8. Shape'
  BY <1>1, <1>2, <1>3, <1>4, <1>5, Nones
  DEF IInv, Shape, JobsOf, SaysOf, Tenants, TypeOK
<1>9. HostPathsToGo'
  BY <1>1, <1>2, <1>3, <1>4, <1>5, Objects, Names
  DEF IInv, HostPathsToGo, HostPathInUse, VolumeAway, Spared, Course, Tenants, TypeOK
<1>10. SetsToGo'
  BY <1>1, <1>2, <1>3, <1>4, <1>5, Nones, Objects, Names
  DEF IInv, SetsToGo, SetInUse, SetAway, Course, Tenants, TypeOK, Shape
<1>11. ClaimsToGo'
  <2>1. test = "hostpath" => Owned("tenant1")
    BY <1>1, <1>2, <1>3, <1>4, <1>5 DEF IInv, Standing, Confirmed, Course
  <2> QED
    BY <1>1, <1>2, <1>3, <1>4, <1>5, <2>1, Nones, Objects, Names
    DEF IInv, ClaimsToGo, Settled, Owned, ClaimAway, WasReady, Tenants, TypeOK, Course
<1>12. Standing'
  BY <1>1, <1>2, <1>3, <1>4, <1>5, Nones
  DEF IInv, Standing, WriterStands, Owned, Confirmed, Course, Shape, JobsOf, Tenants, TypeOK
<1>13. VolumeCleanUp'
  BY <1>1, <1>2, <1>3, <1>4, <1>5, Nones, Objects
  DEF IInv, VolumeCleanUp, Reading, Settled, Owned, SetAway, ClaimAway, VolumeAway, Course, Shape,
      JobsOf, Tenants, TypeOK
<1>14. Written'
  BY <1>1, <1>2, <1>3, <1>4, <1>5, Nones
  DEF IInv, Written, Writing, WriterStands, Unbegun, FirstErrands, Early, Confirmed, Course,
      Shape, JobsOf, Tenants, TypeOK
<1>15. IntruderSays'
  BY <1>1, <1>2, <1>3, <1>4, <1>5, Nones
  DEF IInv, IntruderSays, Written, Shape, Tenants, TypeOK
<1>16. Measured'
  BY <1>1, <1>2, <1>3, <1>4, <1>5, Nones
  DEF IInv, Measured, Writing, Reading, Course, Shape, Tenants, TypeOK
<1>17. Unhindered'
  BY <1>1, <1>2, <1>3, <1>4, <1>5, Nones
  DEF IInv, Unhindered, FirstErrands, Early, Course, Shape, Tenants, TypeOK
<1>18. ByHandOnly'
  <2>1. \A v \in ByHand : Handled(v) => Handled(v)'
    BY <1>1, <1>2, <1>3, <1>4, <1>5, Names DEF Handled, TestOf, FirstErrands, Early, IInv, Course
  <2>2. Handled(Named("hp1"))' /\ Handled(Named("hp2"))'
    BY <1>1, <1>2, <1>3, <1>4, <1>5, Names DEF Handled, TestOf, FirstErrands, Early, IInv, Course
  <2> QED
    BY <1>1, <1>2, <1>3, <1>4, <1>5, <2>1, <2>2, Names, Objects, Nones DEF IInv, ByHandOnly, TypeOK, Tenants
<1> QED
  BY <1>6, <1>7, <1>8, <1>9, <1>10, <1>11, <1>12, <1>13, <1>14, <1>15, <1>16, <1>17, <1>18 DEF IInv
LEMMA IntruderReadyStep ==
  ASSUME IInv, IntruderReady, UNCHANGED earlier
  PROVE  IInv'
<1>1. /\ pc = "ready2" /\ pc' = "logs" /\ Owned("tenant2")
      /\ test' = test /\ Todo' = Todo
      /\ UNCHANGED <<plan, stage, set, claim, pod, volumes, doomed, holder, files, refusal, own,
                     measured, error, errands, result, mishaps, owed, apart, wrote, heard>>
  BY DEF IntruderReady, test, Todo, Goto, objects, world, faults, local, IInv, TypeOK
<1>2. /\ result = Pending /\ errands = << >> /\ Todo = {}
  BY <1>1, Busy DEF IInv, TypeOK
<1>3. TypeOK'
  BY <1>1, <1>2, Labelled
  DEF IInv, TypeOK
<1>4. Course'
  BY <1>1, <1>2
  DEF IInv, Course, FirstErrands, Bound, Reading, Tenants
<1>5. Shape'
  BY <1>1, <1>2, Nones
  DEF IInv, Shape, JobsOf, SaysOf, Tenants, TypeOK
<1>6. HostPathsToGo'
  BY <1>1, <1>2, Objects, Names
  DEF IInv, HostPathsToGo, HostPathInUse, VolumeAway, Spared, Course, Tenants, TypeOK
<1>7. SetsToGo'
  BY <1>1, <1>2, Nones, Objects, Names
  DEF IInv, SetsToGo, SetInUse, SetAway, Course, Tenants, TypeOK, Shape
<1>8. ClaimsToGo'
  BY <1>1, <1>2, Nones, Objects, Names
  DEF IInv, ClaimsToGo, Settled, Owned, ClaimAway, WasReady, Tenants, TypeOK, Shape, JobsOf
<1>9. Standing'
  BY <1>1, <1>2, Nones
  DEF IInv, Standing, WriterStands, Owned, Confirmed, Course, Shape, JobsOf, Tenants, TypeOK
<1>10. VolumeCleanUp'
  BY <1>1, <1>2, Nones, Objects
  DEF IInv, VolumeCleanUp, Reading, Settled, Owned, SetAway, ClaimAway, VolumeAway, Course, Shape,
      JobsOf, Tenants, TypeOK
<1>11. Written'
  BY <1>1, <1>2, Nones
  DEF IInv, Written, Writing, WriterStands, Unbegun, FirstErrands, Early, Confirmed, Course,
      Shape, JobsOf, Tenants, TypeOK
<1>12. IntruderSays'
  BY <1>1, <1>2, Nones
  DEF IInv, IntruderSays, Written, Shape, Tenants, TypeOK
<1>13. Measured'
  BY <1>1, <1>2, Nones
  DEF IInv, Measured, Writing, Reading, Course, Shape, Tenants, TypeOK
<1>14. Unhindered'
  BY <1>1, <1>2, Nones
  DEF IInv, Unhindered, FirstErrands, Early, Course, Shape, Tenants, TypeOK
<1>15. ByHandOnly'
  BY <1>1, <1>2, Nones, Names, Objects
  DEF IInv, ByHandOnly, Handled, FirstErrands, Early, Course, Shape, Tenants, TypeOK
<1> QED
  BY <1>3, <1>4, <1>5, <1>6, <1>7, <1>8, <1>9, <1>10, <1>11, <1>12, <1>13, <1>14, <1>15 DEF IInv
LEMMA IntruderNotReadyStep ==
  ASSUME IInv, IntruderNotReady, UNCHANGED earlier
  PROVE  IInv'
<1>1. /\ pc = "ready2" /\ pc' = "why2"
      /\ \/ error' = "failed" /\ mishaps' = mishaps
         \/ error' = "refused" /\ Mishap
      /\ test' = test /\ Todo' = Todo
      /\ UNCHANGED <<plan, stage, set, claim, pod, volumes, doomed, holder, files, refusal, own,
                     measured, errands, result, owed, apart, wrote, heard>>
  BY DEF IntruderNotReady, test, Todo, Goto, Unseen, objects, world, IInv, TypeOK
<1>2. /\ result = Pending /\ errands = << >> /\ Todo = {}
  BY <1>1, Busy DEF IInv, TypeOK
<1>3. /\ error' \in {"failed", "refused"} /\ mishaps' \in 0 .. MaxMishaps
      /\ mishaps' = 0 => mishaps = 0 /\ error' # "refused"
  BY <1>1, <1>2, Mishaps DEF IInv, TypeOK
<1>4. TypeOK'
  BY <1>1, <1>2, <1>3, Labelled
  DEF IInv, TypeOK
<1>5. Course'
  BY <1>1, <1>2, <1>3
  DEF IInv, Course, FirstErrands, Bound, Reading, Tenants
<1>6. Shape'
  BY <1>1, <1>2, <1>3, Nones
  DEF IInv, Shape, JobsOf, SaysOf, Tenants, TypeOK
<1>7. HostPathsToGo'
  BY <1>1, <1>2, <1>3, Objects, Names
  DEF IInv, HostPathsToGo, HostPathInUse, VolumeAway, Spared, Course, Tenants, TypeOK
<1>8. SetsToGo'
  BY <1>1, <1>2, <1>3, Nones, Objects, Names
  DEF IInv, SetsToGo, SetInUse, SetAway, Course, Tenants, TypeOK, Shape
<1>9. ClaimsToGo'
  BY <1>1, <1>2, <1>3, Nones, Objects, Names
  DEF IInv, ClaimsToGo, Settled, Owned, ClaimAway, WasReady, Tenants, TypeOK, Shape, JobsOf
<1>10. Standing'
  BY <1>1, <1>2, <1>3, Nones
  DEF IInv, Standing, WriterStands, Owned, Confirmed, Course, Shape, JobsOf, Tenants, TypeOK
<1>11. VolumeCleanUp'
  BY <1>1, <1>2, <1>3, Nones, Objects
  DEF IInv, VolumeCleanUp, Reading, Settled, Owned, SetAway, ClaimAway, VolumeAway, Course, Shape,
      JobsOf, Tenants, TypeOK
<1>12. Written'
  BY <1>1, <1>2, <1>3, Nones
  DEF IInv, Written, Writing, WriterStands, Unbegun, FirstErrands, Early, Confirmed, Course,
      Shape, JobsOf, Tenants, TypeOK
<1>13. IntruderSays'
  BY <1>1, <1>2, <1>3, Nones
  DEF IInv, IntruderSays, Written, Shape, Tenants, TypeOK
<1>14. Measured'
  BY <1>1, <1>2, <1>3, Nones
  DEF IInv, Measured, Writing, Reading, Course, Shape, Tenants, TypeOK
<1>15. Unhindered'
  BY <1>1, <1>2, <1>3, Nones
  DEF IInv, Unhindered, FirstErrands, Early, Course, Shape, Tenants, TypeOK
<1>16. ByHandOnly'
  BY <1>1, <1>2, <1>3, Nones, Names, Objects
  DEF IInv, ByHandOnly, Handled, FirstErrands, Early, Course, Shape, Tenants, TypeOK
<1> QED
  BY <1>4, <1>5, <1>6, <1>7, <1>8, <1>9, <1>10, <1>11, <1>12, <1>13, <1>14, <1>15, <1>16 DEF IInv
-----------------------------------------------------------------------------
(***************************************************************************)
(* The harness: errands, and the next operation.                           *)
(***************************************************************************)
LEMMA Errand ==
  ASSUME IInv, RunErrand
  PROVE  /\ pc = "errands" /\ Delete(Head(errands)) /\ Head(errands) \in Object
         /\ Head(errands) \in Todo /\ Todo' \subseteq Todo
         /\ \A object \in Todo : object = Head(errands) \/ object \in Todo'
         /\ errands' \in Seq(Object) /\ (errands' = << >> => Todo' = {})
         /\ errands' # << >> => pc' = "errands"
         /\ errands' = << >> /\ result = Pending => pc' = "hp_volume1"
         /\ errands' = << >> /\ result # Pending => pc' = "next"
         /\ UNCHANGED <<plan, stage, pod, files, refusal, wrote, own, measured, error, heard,
                        result, apart>>
         /\ test' = test
<1>1. errands \in Seq(Object) /\ errands # << >> /\ pc = "errands"
  BY DEF IInv, TypeOK, Course, RunErrand
<1>2. /\ Head(errands) \in Object /\ Head(errands) \in Todo
      /\ Tail(errands) \in Seq(Object) /\ ItemsOf(Tail(errands)) \subseteq Todo
      /\ \A object \in Todo : object = Head(errands) \/ object \in ItemsOf(Tail(errands))
      /\ Len(errands) > 1 <=> Tail(errands) # << >>
  BY <1>1, Shorter DEF Todo
<1>3. errands' = Tail(errands) /\ Todo' = ItemsOf(Tail(errands))
  BY DEF RunErrand, Todo
<1>4. pc' = IF Len(errands) > 1 THEN pc ELSE IF result = Pending THEN "hp_volume1" ELSE "next"
  BY DEF RunErrand
<1>5. /\ UNCHANGED <<plan, stage, pod, files, refusal, wrote, own, measured, error, heard,
                     result, apart>>
      /\ test' = test /\ Delete(Head(errands))
  BY DEF RunErrand, world, local, test
<1> QED
  BY <1>1, <1>2, <1>3, <1>4, <1>5, Lists
LEMMA ErrandToSetStep ==
  ASSUME IInv, NEW t \in Tenants, RunErrand, Head(errands) = SetOf(t), UNCHANGED earlier
  PROVE  IInv'
<1>1. /\ pc = "errands" /\ Todo' \subseteq Todo /\ SetOf(t) \in Todo /\ SetOf(t) \in Object
      /\ \A object \in Todo : object = SetOf(t) \/ object \in Todo'
      /\ errands' \in Seq(Object) /\ (errands' = << >> => Todo' = {})
      /\ errands' # << >> => pc' = "errands"
      /\ errands' = << >> /\ result = Pending => pc' = "hp_volume1"
      /\ errands' = << >> /\ result # Pending => pc' = "next"
      /\ test' = test
      /\ UNCHANGED <<plan, stage, claim, pod, volumes, doomed, holder, files, refusal, own,
                     measured, error, result, apart, wrote, heard>>
  BY Errand, DeletedSet DEF IInv
<1>2. /\ set' \in [Tenants -> Set]
      /\ \A u \in Tenants : u # t => set'[u] = set[u]
      /\ \/ /\ claim[t] # NoClaim => set'[t] = NoSet
            /\ claim[t] = NoClaim => /\ set'[t].job = set[t].job /\ set'[t].asks = set[t].asks
                                     /\ set'[t].stage = set[t].stage
            /\ ~ set'[t].live /\ set'[t].stage <= set[t].stage
            /\ set[t] = NoSet => set'[t] = NoSet
            /\ mishaps' = mishaps /\ owed' = owed \ {SetOf(t)}
         \/ /\ set' = set /\ stage = 1
            /\ mishaps' = mishaps + 1 /\ owed' = owed \union {SetOf(t)}
      /\ mishaps' \in 0 .. MaxMishaps /\ owed' \subseteq Object
      /\ mishaps' = 0 => mishaps = 0
  BY Errand, DeletedSet, MishapsAssumption DEF IInv, TypeOK
<1>3. TypeOK'
  BY <1>1, <1>2, Labelled
  DEF IInv, TypeOK
<1>4. Course'
  BY <1>1, <1>2
  DEF IInv, Course, FirstErrands, Bound, Reading, Tenants
<1>5. Shape'
  BY <1>1, <1>2, Nones
  DEF IInv, Shape, JobsOf, SaysOf, Tenants, TypeOK
<1>6. HostPathsToGo'
  BY <1>1, <1>2, Objects, Names
  DEF IInv, HostPathsToGo, HostPathInUse, VolumeAway, Spared, Course, Tenants, TypeOK
<1>7. SetsToGo'
  BY <1>1, <1>2, Nones, Objects, Names
  DEF IInv, SetsToGo, SetInUse, SetAway, Course, Tenants, TypeOK, Shape
<1>8. ClaimsToGo'
  BY <1>1, <1>2, Nones, Objects, Names
  DEF IInv, ClaimsToGo, Settled, Owned, ClaimAway, WasReady, Tenants, TypeOK, Shape, JobsOf
<1>9. Standing'
  BY <1>1, <1>2, Nones
  DEF IInv, Standing, WriterStands, Owned, Confirmed, Course, Shape, JobsOf, Tenants, TypeOK
<1>10. VolumeCleanUp'
  BY <1>1, <1>2, Nones, Objects
  DEF IInv, VolumeCleanUp, Reading, Settled, Owned, SetAway, ClaimAway, VolumeAway, Course, Shape,
      JobsOf, Tenants, TypeOK
<1>11. Written'
  BY <1>1, <1>2, Nones
  DEF IInv, Written, Writing, WriterStands, Unbegun, FirstErrands, Early, Confirmed, Course,
      Shape, JobsOf, Tenants, TypeOK, ByHandOnly
<1>12. IntruderSays'
  BY <1>1, <1>2, Nones
  DEF IInv, IntruderSays, Written, Shape, Tenants, TypeOK
<1>13. Measured'
  BY <1>1, <1>2, Nones
  DEF IInv, Measured, Writing, Reading, Course, Shape, Tenants, TypeOK
<1>14. Unhindered'
  BY <1>1, <1>2, Nones
  DEF IInv, Unhindered, FirstErrands, Early, Course, Shape, Tenants, TypeOK
<1>15. ByHandOnly'
  BY <1>1, <1>2, Nones, Names, Objects
  DEF IInv, ByHandOnly, Handled, FirstErrands, Early, Course, Shape, Tenants, TypeOK
<1> QED
  BY <1>3, <1>4, <1>5, <1>6, <1>7, <1>8, <1>9, <1>10, <1>11, <1>12, <1>13, <1>14, <1>15 DEF IInv
LEMMA ErrandToClaimStep ==
  ASSUME IInv, NEW t \in Tenants, RunErrand, Head(errands) = ClaimOf(t), UNCHANGED earlier
  PROVE  IInv'
<1>1. /\ pc = "errands" /\ Todo' \subseteq Todo /\ ClaimOf(t) \in Todo /\ ClaimOf(t) \in Object
      /\ \A object \in Todo : object = ClaimOf(t) \/ object \in Todo'
      /\ errands' \in Seq(Object) /\ (errands' = << >> => Todo' = {})
      /\ errands' # << >> => pc' = "errands"
      /\ errands' = << >> /\ result = Pending => pc' = "hp_volume1"
      /\ errands' = << >> /\ result # Pending => pc' = "next"
      /\ test' = test
      /\ UNCHANGED <<plan, stage, set, pod, volumes, doomed, holder, files, refusal, own,
                     measured, error, result, apart, wrote, heard>>
  BY Errand, DeletedClaim DEF IInv
<1>2. /\ claim' \in [Tenants -> Claim]
      /\ \A u \in Tenants : /\ u # t => claim'[u] = claim[u]
                            /\ claim'[u].asks = claim[u].asks /\ claim'[u].volume = claim[u].volume
                            /\ claim[u] = NoClaim <=> claim'[u] = NoClaim
                            /\ claim[u].going => claim'[u].going
      /\ \/ /\ claim'[t] = NoClaim \/ claim'[t].going
            /\ mishaps' = mishaps /\ owed' = owed \ {ClaimOf(t)}
         \/ /\ claim' = claim /\ stage = 1
            /\ mishaps' = mishaps + 1 /\ owed' = owed \union {ClaimOf(t)}
      /\ mishaps' \in 0 .. MaxMishaps /\ owed' \subseteq Object
      /\ mishaps' = 0 => mishaps = 0
  BY Errand, DeletedClaim, MishapsAssumption DEF IInv, TypeOK
<1>3. TypeOK'
  BY <1>1, <1>2, Labelled
  DEF IInv, TypeOK
<1>4. Course'
  BY <1>1, <1>2
  DEF IInv, Course, FirstErrands, Bound, Reading, Tenants
<1>5. Shape'
  BY <1>1, <1>2, Nones
  DEF IInv, Shape, JobsOf, SaysOf, Tenants, TypeOK
<1>6. HostPathsToGo'
  BY <1>1, <1>2, Objects, Names
  DEF IInv, HostPathsToGo, HostPathInUse, VolumeAway, Spared, Course, Tenants, TypeOK
<1>7. SetsToGo'
  BY <1>1, <1>2, Nones, Objects, Names
  DEF IInv, SetsToGo, SetInUse, SetAway, Course, Tenants, TypeOK, Shape
<1>8. ClaimsToGo'
  BY <1>1, <1>2, Nones, Objects, Names
  DEF IInv, ClaimsToGo, Settled, Owned, ClaimAway, WasReady, Tenants, TypeOK, Shape, JobsOf
<1>9. Standing'
  BY <1>1, <1>2, Nones
  DEF IInv, Standing, WriterStands, Owned, Confirmed, Course, Shape, JobsOf, Tenants, TypeOK
<1>10. VolumeCleanUp'
  BY <1>1, <1>2, Nones, Objects
  DEF IInv, VolumeCleanUp, Reading, Settled, Owned, SetAway, ClaimAway, VolumeAway, Course, Shape,
      JobsOf, Tenants, TypeOK
<1>11. Written'
  BY <1>1, <1>2, Nones
  DEF IInv, Written, Writing, WriterStands, Unbegun, FirstErrands, Early, Confirmed, Course,
      Shape, JobsOf, Tenants, TypeOK
<1>12. IntruderSays'
  BY <1>1, <1>2, Nones
  DEF IInv, IntruderSays, Written, Shape, Tenants, TypeOK
<1>13. Measured'
  BY <1>1, <1>2, Nones
  DEF IInv, Measured, Writing, Reading, Course, Shape, Tenants, TypeOK
<1>14. Unhindered'
  BY <1>1, <1>2, Nones
  DEF IInv, Unhindered, FirstErrands, Early, Course, Shape, Tenants, TypeOK
<1>15. ByHandOnly'
  BY <1>1, <1>2, Nones, Names, Objects
  DEF IInv, ByHandOnly, Handled, FirstErrands, Early, Course, Shape, Tenants, TypeOK
<1> QED
  BY <1>3, <1>4, <1>5, <1>6, <1>7, <1>8, <1>9, <1>10, <1>11, <1>12, <1>13, <1>14, <1>15 DEF IInv
LEMMA ErrandToVolumeStep ==
  ASSUME IInv, NEW v \in Volume, RunErrand, Head(errands) = TheVolume(v), UNCHANGED earlier
  PROVE  IInv'
<1>1. /\ pc = "errands" /\ Todo' \subseteq Todo /\ TheVolume(v) \in Todo /\ TheVolume(v) \in Object
      /\ \A object \in Todo : object = TheVolume(v) \/ object \in Todo'
      /\ errands' \in Seq(Object) /\ (errands' = << >> => Todo' = {})
      /\ errands' # << >> => pc' = "errands"
      /\ errands' = << >> /\ result = Pending => pc' = "hp_volume1"
      /\ errands' = << >> /\ result # Pending => pc' = "next"
      /\ test' = test
      /\ UNCHANGED <<plan, stage, set, claim, pod, volumes, holder, files, refusal, own, measured,
                     error, result, apart, wrote, heard>>
  BY Errand, DeletedVolume DEF IInv
<1>2. /\ doomed \subseteq doomed' /\ doomed' \subseteq volumes
      /\ \/ /\ v \notin volumes \ doomed'
            /\ mishaps' = mishaps /\ owed' = owed \ {TheVolume(v)}
         \/ /\ doomed' = doomed /\ stage = 1
            /\ mishaps' = mishaps + 1 /\ owed' = owed \union {TheVolume(v)}
      /\ mishaps' \in 0 .. MaxMishaps /\ owed' \subseteq Object
      /\ mishaps' = 0 => mishaps = 0
  BY Errand, DeletedVolume, MishapsAssumption DEF IInv, TypeOK
<1>3. TypeOK'
  BY <1>1, <1>2, Labelled
  DEF IInv, TypeOK
<1>4. Course'
  BY <1>1, <1>2
  DEF IInv, Course, FirstErrands, Bound, Reading, Tenants
<1>5. Shape'
  BY <1>1, <1>2, Nones
  DEF IInv, Shape, JobsOf, SaysOf, Tenants, TypeOK
<1>6. HostPathsToGo'
  BY <1>1, <1>2, Objects, Names
  DEF IInv, HostPathsToGo, HostPathInUse, VolumeAway, Spared, Course, Tenants, TypeOK
<1>7. SetsToGo'
  BY <1>1, <1>2, Nones, Objects, Names
  DEF IInv, SetsToGo, SetInUse, SetAway, Course, Tenants, TypeOK, Shape
<1>8. ClaimsToGo'
  BY <1>1, <1>2, Nones, Objects, Names
  DEF IInv, ClaimsToGo, Settled, Owned, ClaimAway, WasReady, Tenants, TypeOK, Shape, JobsOf
<1>9. Standing'
  BY <1>1, <1>2, Nones
  DEF IInv, Standing, WriterStands, Owned, Confirmed, Course, Shape, JobsOf, Tenants, TypeOK
<1>10. VolumeCleanUp'
  BY <1>1, <1>2, Nones, Objects
  DEF IInv, VolumeCleanUp, Reading, Settled, Owned, SetAway, ClaimAway, VolumeAway, Course, Shape,
      JobsOf, Tenants, TypeOK
<1>11. Written'
  BY <1>1, <1>2, Nones
  DEF IInv, Written, Writing, WriterStands, Unbegun, FirstErrands, Early, Confirmed, Course,
      Shape, JobsOf, Tenants, TypeOK
<1>12. IntruderSays'
  BY <1>1, <1>2, Nones
  DEF IInv, IntruderSays, Written, Shape, Tenants, TypeOK
<1>13. Measured'
  BY <1>1, <1>2, Nones
  DEF IInv, Measured, Writing, Reading, Course, Shape, Tenants, TypeOK
<1>14. Unhindered'
  BY <1>1, <1>2, Nones
  DEF IInv, Unhindered, FirstErrands, Early, Course, Shape, Tenants, TypeOK
<1>15. ByHandOnly'
  BY <1>1, <1>2, Nones, Names, Objects
  DEF IInv, ByHandOnly, Handled, FirstErrands, Early, Course, Shape, Tenants, TypeOK
<1> QED
  BY <1>3, <1>4, <1>5, <1>6, <1>7, <1>8, <1>9, <1>10, <1>11, <1>12, <1>13, <1>14, <1>15 DEF IInv
LEMMA RunErrandStep ==
  ASSUME IInv, RunErrand, UNCHANGED earlier
  PROVE  IInv'
<1>1. Head(errands) \in Object
  BY Errand
<1> QED
  BY <1>1, Objects, ErrandToSetStep, ErrandToClaimStep, ErrandToVolumeStep
LEMMA NextStageStep ==
  ASSUME IInv, NextStage, UNCHANGED earlier
  PROVE  IInv'
<1>1. /\ pc = "next" /\ result' = Pending /\ own' = FALSE /\ measured' = NoVolume /\ error' = "none"
      /\ heard' = NoPod /\ wrote' = {} /\ apart' = "open"
      /\ UNCHANGED <<plan, set, claim, pod, errands, mishaps>>
  BY DEF NextStage, IInv, TypeOK
<1>2. /\ errands = << >> /\ Todo' = {} /\ Todo = {}
      /\ stage \in 1 .. 2 /\ stage <= Len(plan) /\ Len(plan) \in 1 .. 2
      /\ Len(plan) = 2 => plan[1] # plan[2]
  BY <1>1, PlansAssumption, Lists DEF Course, Todo, MaxStage, IInv, TypeOK
<1>3. /\ \/ /\ stage = 1 /\ stage' = 2 /\ Len(plan) = 2 /\ pc' = "authorize"
            /\ test = plan[1] /\ test' = plan[2] /\ test' # test
         \/ stage' = stage /\ pc' = "over" /\ test' = test
  <2>1. CASE stage < Len(plan)
    <3> DEFINE n == Len(plan)
    <3>1. stage \in 1 .. 2 /\ n \in 1 .. 2 /\ stage < n
      BY <1>2, <2>1
    <3> HIDE DEF n
    <3>2. stage = 1 /\ n = 2
      BY <3>1
    <3> USE DEF n
    <3>3. stage' = 2 /\ pc' = "authorize" /\ plan' = plan
      BY <1>1, <2>1, <3>2 DEF NextStage
    <3> QED
      BY <1>2, <3>2, <3>3 DEF test
  <2>2. CASE ~ (stage < Len(plan))
    BY <1>1, <2>2 DEF NextStage, test
  <2> QED
    BY <2>1, <2>2
<1>4. /\ \A v \in ByHand : Within(v)
      /\ volumes' \subseteq volumes /\ \A v \in ByHand : v \in volumes' <=> v \in volumes
      /\ doomed' \subseteq volumes' /\ \A v \in ByHand : v \in doomed' <=> v \in doomed
  BY <1>1, <1>2, <1>3 DEF NextStage, Within, IInv, TypeOK
<1>5. /\ owed' \subseteq owed
      /\ \A t \in Tenants : SetOf(t) \in owed' <=> SetOf(t) \in owed
      /\ \A v \in ByHand : TheVolume(v) \in owed' <=> TheVolume(v) \in owed
  BY <1>1, <1>2, <1>3, <1>4, Kinds, Names DEF NextStage, IInv, TypeOK
<1>6. /\ holder' \in [Volume -> Tenants \union {"none", "lost"}]
      /\ files' \subseteq files
      /\ refusal' \in [Tenants -> {"none", "before", "now"}]
  <2>1. holder' = [v \in Volume |-> IF Within(v) THEN holder[v] ELSE "none"]
    BY DEF NextStage
  <2>2. \A v \in Volume : (IF Within(v) THEN holder[v] ELSE "none") \in Tenants \union {"none", "lost"}
    BY DEF IInv, TypeOK
  <2>3. refusal' = [t \in Tenants |-> IF refusal[t] = "none" THEN "none" ELSE "before"]
        /\ files' \subseteq files
    BY DEF NextStage
  <2> QED
    BY <2>1, <2>2, <2>3
<1>7. TypeOK'
  <2>1. /\ plan' \in Plans /\ stage' \in 1 .. MaxStage /\ pc' \in Labels
        /\ own' \in BOOLEAN /\ apart' \in {"open", "yes", "no"}
        /\ measured' \in Volume \union {NoVolume} /\ error' \in {"none", "refused", "failed"}
        /\ wrote' \subseteq Place /\ heard' \in Pod
    BY <1>1, <1>2, <1>3, Labelled, Nones DEF IInv, TypeOK, MaxStage
  <2>2. result' \in Result
    BY <1>1 DEF Result
  <2> QED
    BY <1>1, <1>4, <1>5, <1>6, <2>1, <2>2 DEF IInv, TypeOK
<1>8. Course'
  BY <1>1, <1>2, <1>3, <1>4, <1>5, <1>6
  DEF IInv, Course, FirstErrands, Bound, Reading, Tenants
<1>9. Shape'
  BY <1>1, <1>2, <1>3, <1>4, <1>5, <1>6, Nones, Typed
  DEF IInv, Shape, JobsOf, SaysOf, Tenants, TypeOK
<1>10. HostPathsToGo'
  <2>1. SUFFICES ASSUME test' = "hostpath", pc' # "over", NEW t \in Tenants
                 PROVE  HostPathOf(t) \in volumes' => HostPathOf(t) \in earlier
    BY DEF HostPathsToGo, VolumeAway, Spared
  <2>2. stage = 1 /\ test # "hostpath"
    BY <1>3, <2>1
  <2>3. HostPathOf(t) \in ByHand /\ TestOf(HostPathOf(t)) = "hostpath"
    BY Names DEF Tenants, TestOf
  <2>4. ~ Handled(HostPathOf(t))
    BY <2>2, <2>3 DEF Handled
  <2> QED
    BY <1>4, <2>3, <2>4 DEF IInv, ByHandOnly
<1>11. SetsToGo'
  BY <1>1, <1>2, <1>3, <1>4, <1>5, <1>6, Nones, Objects, Names, Typed
  DEF IInv, SetsToGo, SetInUse, SetAway, Course, Tenants, TypeOK, Shape
<1>12. ClaimsToGo'
  BY <1>1, <1>2, <1>3, <1>4, <1>5, <1>6, Nones, Objects, Names
  DEF IInv, ClaimsToGo, Settled, Owned, ClaimAway, WasReady, Tenants, TypeOK, Shape, JobsOf
<1>13. Standing'
  BY <1>1, <1>2, <1>3, <1>4, <1>5, <1>6, Nones
  DEF IInv, Standing, WriterStands, Owned, Confirmed, Course, Shape, JobsOf, Tenants, TypeOK
<1>14. VolumeCleanUp'
  BY <1>1, <1>2, <1>3, <1>4, <1>5, <1>6, Nones, Objects
  DEF IInv, VolumeCleanUp, Reading, Settled, Owned, SetAway, ClaimAway, VolumeAway, Course, Shape,
      JobsOf, Tenants, TypeOK
<1>15. Written'
  BY <1>1, <1>2, <1>3, <1>4, <1>5, <1>6, Nones
  DEF IInv, Written, Writing, WriterStands, Unbegun, FirstErrands, Early, Confirmed, Course,
      Shape, JobsOf, Tenants, TypeOK
<1>16. IntruderSays'
  BY <1>1, <1>2, <1>3, <1>4, <1>5, <1>6, Nones
  DEF IInv, IntruderSays, Written, Shape, Tenants, TypeOK
<1>17. Measured'
  BY <1>1, <1>2, <1>3, <1>4, <1>5, <1>6, Nones
  DEF IInv, Measured, Writing, Reading, Course, Shape, Tenants, TypeOK
<1>18. Unhindered'
  BY <1>1, <1>2, <1>3, <1>4, <1>5, <1>6, Nones, Typed
  DEF IInv, Unhindered, FirstErrands, Early, Course, Shape, Tenants, TypeOK
<1>19. ByHandOnly'
  <2>1. \A v \in ByHand : Handled(v) => Handled(v)'
    BY <1>1, <1>2, <1>3 DEF Handled, FirstErrands, Early
  <2> QED
    BY <1>1, <1>2, <1>3, <1>4, <1>5, <2>1, Names, Objects DEF IInv, ByHandOnly, TypeOK, Tenants
<1> QED
  BY <1>7, <1>8, <1>9, <1>10, <1>11, <1>12, <1>13, <1>14, <1>15, <1>16, <1>17, <1>18, <1>19 DEF IInv
-----------------------------------------------------------------------------
(***************************************************************************)
(* The invariant.                                                          *)
(***************************************************************************)
LEMMA Begins ==
  ASSUME Init
  PROVE  IInv
<1>1. /\ plan \in Plans /\ stage = 1 /\ pc = "authorize" /\ doomed = {}
      /\ set = [t \in Tenants |-> NoSet] /\ claim = [t \in Tenants |-> NoClaim]
      /\ pod = [t \in Tenants |-> NoPod] /\ holder = [v \in Volume |-> "none"]
      /\ files = {} /\ wrote = {} /\ refusal = [t \in Tenants |-> "none"]
      /\ own = FALSE /\ apart = "open" /\ measured = NoVolume /\ error = "none"
      /\ errands = << >> /\ result = Pending /\ mishaps = 0 /\ heard = NoPod
  BY DEF Init
<1>2. volumes = earlier /\ earlier \subseteq ByHand /\ owed = {}
  BY DEF Init
<1>3. /\ stage <= Len(plan) /\ Todo = {}
      /\ \A t \in Tenants : set[t] = NoSet /\ claim[t] = NoClaim /\ pod[t] = NoPod
  <2>1. stage <= Len(plan) /\ Todo = {}
    <3>1. Len(plan) \in 1 .. 2 /\ stage = 1
      BY <1>1, PlansAssumption
    <3>2. Todo = {}
      BY <1>1, Lists DEF Todo
    <3> QED
      BY <3>1, <3>2
  <2>2. \A t \in Tenants : set[t] = NoSet /\ claim[t] = NoClaim /\ pod[t] = NoPod
    BY <1>1
  <2> QED
    BY <2>1, <2>2
<1>4. TypeOK
  <2>1. result \in Result
    BY <1>1 DEF Result
  <2>2. /\ stage \in 1 .. MaxStage /\ pc \in Labels /\ mishaps \in 0 .. MaxMishaps
        /\ errands \in Seq(Object) /\ own \in BOOLEAN /\ apart \in {"open", "yes", "no"}
        /\ measured \in Volume \union {NoVolume} /\ error \in {"none", "refused", "failed"}
        /\ files \subseteq Place /\ wrote \subseteq Place /\ heard \in Pod
    <3>1. mishaps \in 0 .. MaxMishaps /\ stage \in 1 .. MaxStage
      BY <1>1, MishapsAssumption DEF MaxStage
    <3>2. pc \in Labels /\ errands \in Seq(Object)
      BY <1>1, Labelled, Lists
    <3> QED
      BY <1>1, <3>1, <3>2, Nones
  <2>3. /\ set \in [Tenants -> Set] /\ claim \in [Tenants -> Claim] /\ pod \in [Tenants -> Pod]
        /\ holder \in [Volume -> Tenants \union {"none", "lost"}]
        /\ refusal \in [Tenants -> {"none", "before", "now"}]
    BY <1>1, Nones
  <2> QED
    BY <1>1, <1>2, <1>3, <2>1, <2>2, <2>3, Names DEF TypeOK
<1>5. Course
  BY <1>1, <1>3 DEF Course, FirstErrands, Bound, Reading
<1>6. Shape
  BY <1>1, <1>3, Nones DEF Shape
<1>7. HostPathsToGo /\ SetsToGo /\ ClaimsToGo
  BY <1>1, <1>2, <1>3, Nones DEF HostPathsToGo, SetsToGo, ClaimsToGo, VolumeAway, SetAway, Spared
<1>8. Standing /\ VolumeCleanUp
  BY <1>1, <1>3 DEF Standing, VolumeCleanUp, Confirmed, Reading
<1>9. Written
  BY <1>1, <1>3, Nones DEF Written, Writing, WriterStands, Confirmed, Tenants
<1>10. IntruderSays /\ Measured
  BY <1>1, <1>3, Nones DEF IntruderSays, Measured, Reading, Tenants
<1>11. Unhindered
  BY <1>1, <1>3, Nones DEF Unhindered, FirstErrands, Tenants
<1>12. ByHandOnly
  BY <1>1, <1>2, <1>3, Nones, Names DEF ByHandOnly
<1> QED
  BY <1>4, <1>5, <1>6, <1>7, <1>8, <1>9, <1>10, <1>11, <1>12 DEF IInv

LEMMA ClusterStep ==
  ASSUME IInv, Cluster, UNCHANGED earlier
  PROVE  IInv'
<1>1. Aside
  BY DEF Cluster, Aside
<1>2. CASE UNCHANGED apart /\ \E t \in Tenants : \/ MakesClaim(t) \/ Notices(t) \/ Refuses(t)
                                                 \/ Rebinds(t) \/ ClaimGoes(t) \/ Starts(t) \/ PodGoes(t)
  BY <1>1, <1>2, MakesClaimStep, NoticesStep, RefusesStep, RebindsStep, ClaimGoesStep, StartsStep,
     PodGoesStep
<1>3. CASE UNCHANGED apart /\ \E v \in doomed : VolumeGoes(v)
  BY <1>1, <1>3, VolumeGoesStep
<1>4. CASE UNCHANGED apart /\ Writes
  BY <1>1, <1>4, WritesStep
<1>5. CASE \E t \in Tenants : Binds(t)
  BY <1>1, <1>5, BindsStep
<1>6. CASE Reads
  BY <1>1, <1>6, ReadsStep
<1> QED
  BY <1>2, <1>3, <1>4, <1>5, <1>6 DEF Cluster

LEMMA HarnessStep ==
  ASSUME IInv, Harness, UNCHANGED earlier
  PROVE  IInv'
BY ReviewStep, TryVolumeStep, UntryVolumeStep, TrySetStep, UntrySetStep, FindClassStep,
   MakeByHandStep, CreateWriterStep, WriterReadyStep, WriterNotReadyStep, FindVolumeStep,
   UnmakeByHandStep, WhyVictimStep, ReleaseSetStep, ReleaseClaimStep, ReleaseVolumeStep,
   CreateReaderStep, SeenToEndStep, NotSeenToEndStep, WhyIntruderStep, ReadLogStep, LogSilentStep,
   CreateVictimVolumeStep, ConfirmStep, UnconfirmedStep, CreateIntruderVolumeStep,
   CreateIntruderStep, IntruderReadyStep, IntruderNotReadyStep, RunErrandStep, NextStageStep
DEF Harness

LEMMA Stutters ==
  ASSUME IInv, UNCHANGED vars
  PROVE  IInv'
<1>1. /\ UNCHANGED <<plan, stage, pc, set, claim, pod, volumes, doomed, holder, files, refusal, own,
                  measured, error, errands, result, mishaps, owed, earlier, apart, wrote, heard>>
      /\ test' = test /\ Todo' = Todo
  BY DEF vars, test, Todo
<1>2. TypeOK'
  BY <1>1 DEF IInv, TypeOK
<1>3. Course'
  BY <1>1 DEF IInv, Course, FirstErrands, Bound, Reading
<1>4. Shape'
  BY <1>1 DEF IInv, Shape
<1>5. HostPathsToGo'
  BY <1>1 DEF IInv, HostPathsToGo, HostPathInUse, VolumeAway, Spared
<1>6. SetsToGo'
  BY <1>1 DEF IInv, SetsToGo, SetInUse, SetAway
<1>7. ClaimsToGo'
  BY <1>1 DEF IInv, ClaimsToGo, Settled, Owned, ClaimAway, WasReady
<1>8. Standing'
  BY <1>1 DEF IInv, Standing, WriterStands, Owned, Confirmed
<1>9. VolumeCleanUp'
  BY <1>1 DEF IInv, VolumeCleanUp, Reading, Settled, Owned, SetAway, ClaimAway, VolumeAway
<1>10. Written'
  BY <1>1 DEF IInv, Written, Writing, WriterStands, Unbegun, FirstErrands, Early, Confirmed
<1>11. IntruderSays'
  BY <1>1 DEF IInv, IntruderSays
<1>12. Measured'
  BY <1>1 DEF IInv, Measured, Writing, Reading
<1>13. Unhindered'
  BY <1>1 DEF IInv, Unhindered, FirstErrands, Early
<1>14. ByHandOnly'
  BY <1>1 DEF IInv, ByHandOnly, Handled, FirstErrands, Early
<1> QED
  BY <1>2, <1>3, <1>4, <1>5, <1>6, <1>7, <1>8, <1>9, <1>10, <1>11, <1>12, <1>13, <1>14 DEF IInv
LEMMA Step ==
  ASSUME IInv, [Next]_vars
  PROVE  IInv'
BY HarnessStep, ClusterStep, Stutters DEF Next, Ended

\* What IInv says of the operation, of what is still to be deleted, and of what the pods have
\* written and say, always holds.
THEOREM Invariant == Spec => []IInv
<1>1. Init => IInv
  BY Begins
<1>2. IInv /\ [Next]_vars => IInv'
  BY Step
<1> QED
  BY <1>1, <1>2, PTL DEF Spec

\* Every variable keeps its type.
THEOREM TypeCorrect == Spec => []TypeOK
<1>1. IInv => TypeOK
  BY DEF IInv
<1> QED
  BY <1>1, Invariant, PTL

-----------------------------------------------------------------------------
(***************************************************************************)
(* What is left behind.                                                    *)
(***************************************************************************)
LEMMA CleanedUp ==
  ASSUME IInv
  PROVE  CleanUpOnEveryPath
<1> SUFFICES ASSUME pc = "next"
             PROVE  CleanUpOnEveryPath
  BY DEF CleanUpOnEveryPath
<1>1. errands = << >> /\ Todo = {} /\ result # Pending
  BY Lists DEF IInv, Course, Todo
<1>2. ASSUME test = "hostpath", NEW t \in Tenants
      PROVE  /\ SetAway(t)
             /\ VolumeAway(HostPathOf(t)) \/ Spared(t)
             /\ WasReady(t) => ClaimAway(t)
  <2>1. SetAway(t)
    BY <1>1, <1>2 DEF IInv, SetsToGo, SetInUse
  <2>2. VolumeAway(HostPathOf(t)) \/ Spared(t)
    BY <1>1, <1>2 DEF IInv, HostPathsToGo, HostPathInUse
  <2>3. WasReady(t) => ClaimAway(t)
    BY <1>1, <1>2 DEF IInv, ClaimsToGo
  <2> QED
    BY <2>1, <2>2, <2>3
<1>3. ASSUME test # "hostpath", result.why \in {"found", "missing"}, heard.stage = stage
      PROVE  /\ \A t \in Tenants : SetAway(t) /\ ClaimAway(t)
             /\ VolumeAway(measured)
  <2>1. /\ set["tenant1"] = NoSet
        /\ claim["tenant1"] = NoClaim \/ claim["tenant1"].going
        /\ SetAway("tenant2") /\ ClaimAway("tenant2") /\ VolumeAway(measured)
    BY <1>1, <1>3 DEF IInv, VolumeCleanUp
  <2> QED
    BY <2>1, Nones DEF SetAway, ClaimAway, Tenants
<1> QED
  BY <1>2, <1>3 DEF CleanUpOnEveryPath

\* Every set, every claim of a set that had a pod, and every volume that the hostPath test has
\* made without an error is gone, going, or its own delete failed, on whichever path the test
\* ends; and likewise of the volume tests that have read their own intruder's log.  Left out
\* by name (Spared) are the volumes for which no delete is asked: one whose create was an
\* error (mod.rs:411-420, 463-467), and one of an earlier run.
THEOREM NothingIsLeft == Spec => []CleanUpOnEveryPath
<1>1. IInv => CleanUpOnEveryPath
  BY CleanedUp
<1> QED
  BY <1>1, Invariant, PTL
-----------------------------------------------------------------------------
(***************************************************************************)
(* What is said.                                                           *)
(***************************************************************************)
\* The steps that end an operation with a finding, a refusal, or a volume that was not made.
LEMMA Said ==
  ASSUME NEW level, NEW why, NEW todo, Return(level, why, todo)
  PROVE  result'.why = why
BY DEF Return

LEMMA Reported ==
  ASSUME IInv, [Next]_vars, Decides,
         result'.why \in {"found", "missing", "victim", "refused", "unmade", "barred"}
  PROVE  \/ MakeByHand \/ CreateWriter \/ WhyVictim \/ CreateVictimVolume
         \/ CreateReader \/ WhyIntruder \/ CreateIntruderVolume \/ CreateIntruder
         \/ ReadLog
<1>1. ~ UNCHANGED result /\ result' # Pending
  BY DEF Decides
<1>2. ~ Cluster /\ ~ Ended /\ ~ UNCHANGED vars
  BY <1>1 DEF Cluster, Ended, vars
<1>3. ~ (Review \/ TryVolume \/ UntryVolume \/ TrySet \/ FindClass)
  BY <1>1 DEF Review, TryVolume, UntryVolume, TrySet, FindClass, Goto
<1>4. ~ (WriterReady \/ WriterNotReady \/ UnmakeByHand \/ FindVolume \/ SeenToEnd \/ NotSeenToEnd)
  BY <1>1 DEF WriterReady, WriterNotReady, UnmakeByHand, FindVolume, SeenToEnd, NotSeenToEnd, Goto
<1>5. ~ (Confirm \/ IntruderReady \/ IntruderNotReady \/ RunErrand \/ NextStage)
  BY <1>1 DEF Confirm, IntruderReady, IntruderNotReady, RunErrand, NextStage, Goto
<1>6. ~ UntrySet
  BY <1>1, Said DEF UntrySet, Goto
<1>7. \A missing \in BOOLEAN : ~ Unreleased(missing)
  BY Said DEF Unreleased
<1>8. ~ (ReleaseSet \/ ReleaseClaim \/ ReleaseVolume)
  BY <1>1, <1>7 DEF ReleaseSet, ReleaseClaim, ReleaseVolume, Goto
<1>9. ~ (LogSilent \/ Unconfirmed)
  BY Said DEF LogSilent, Unconfirmed
<1> QED
  BY <1>2, <1>3, <1>4, <1>5, <1>6, <1>8, <1>9 DEF Next, Harness

LEMMA NotFound ==
  ASSUME IInv, [Next]_vars, Decides, result'.why \in {"found", "missing"}
  PROVE  ReadLog
<1>1. ~ (MakeByHand \/ CreateVictimVolume \/ CreateIntruderVolume \/ CreateIntruder)
  BY Said DEF Decides, MakeByHand, CreateVictimVolume, CreateIntruderVolume, CreateIntruder, Goto
<1>2. ~ CreateWriter
  BY Said DEF Decides, CreateWriter, Goto
<1>3. ~ WhyVictim
  <2>1. SUFFICES ASSUME WhyVictim
                 PROVE  FALSE
    OBVIOUS
  <2>2. PICK refused \in Refused("tenant1") :
          Return(IF refused THEN "Hard" ELSE "Unknown", IF refused THEN "victim" ELSE "unready",
                 IF test = "hostpath" THEN CleanUpOf("tenant1") ELSE << >>)
    BY <2>1 DEF WhyVictim
  <2> QED
    BY <2>2, Said
<1>4. ~ CreateReader
  BY Said DEF Decides, CreateReader, Goto
<1>5. ~ WhyIntruder
  BY Said DEF WhyIntruder
<1> QED
  BY <1>1, <1>2, <1>3, <1>4, <1>5, Reported

\* The place of a pod is one of its volume and its node.
LEMMA Places ==
  ASSUME NEW place \in Place, NEW p \in Pod, p.volume \in Volume,
         place.volume = Disk(p.volume), place.node = p.node
  PROVE  place = PlaceOf(p)
BY DEF Place, PlaceOf, Disk

LEMMA FoundIsReal ==
  ASSUME IInv, ReadLog, test = "hostpath" \/ heard'.stage = stage
  PROVE  /\ result'.why = "found" => apart = "no" /\ PlaceOf(heard') \in files
         /\ result'.why = "missing" => apart = "yes" \/ Strayed \/ OtherNode \/ Unwritten
<1>1. /\ pc = "logs" /\ heard' = pod["tenant2"] /\ pod["tenant2"].said # "nothing"
      /\ pod["tenant2"].said = "found" => Return("None", "found", AfterLogs)
      /\ pod["tenant2"].said # "found" => Return("Hard", "missing", AfterLogs)
  BY DEF ReadLog
<1>2. /\ pod["tenant2"].said = "found" => result'.why = "found"
      /\ pod["tenant2"].said # "found" => result'.why = "missing"
  BY <1>1, Said
<1>3. /\ pod["tenant2"] \in Pod /\ pod["tenant2"] # NoPod /\ stage >= 1
      /\ pod["tenant2"].stage = stage /\ pod["tenant2"].volume \in Volume
      /\ pod["tenant2"].said \in {"nothing", "found", "missing", "early"}
      /\ pod["tenant2"].volume \notin ByHand => pod["tenant2"].node = "none"
  <2>1. pod["tenant2"] # NoPod
    BY <1>1, Nones
  <2>2. test = "hostpath" => pod["tenant2"].stage = stage
    BY <1>1 DEF IInv, Standing, Owned
  <2> QED
    BY <1>1, <2>1, <2>2, Typed DEF IInv, TypeOK, Shape, SaysOf, Tenants
<1>4. result'.why = "found" => apart = "no" /\ PlaceOf(heard') \in files
  BY <1>1, <1>2, <1>3 DEF IInv, IntruderSays
<1>5. ASSUME pod["tenant2"].said = "missing", apart # "yes", ~ Strayed
      PROVE  OtherNode
  <2>1. wrote # {} /\ PlaceOf(pod["tenant2"]) \notin wrote
    BY <1>1, <1>3, <1>5 DEF IInv, IntruderSays
  <2>2. PICK place \in wrote : place.volume = Disk(pod["tenant2"].volume)
    <3>1. CASE test = "hostpath"
      <4>1. pod["tenant2"].volume = Named("hp2")
        BY <1>1, <1>5, <3>1 DEF Strayed, Shown
      <4>2. Disk(pod["tenant2"].volume) = Named("hp1")
        BY <4>1, Names DEF Disk
      <4> QED
        BY <1>5, <3>1, <4>2 DEF Strayed
    <3>2. CASE test # "hostpath"
      <4>1. pod["tenant2"].volume = measured
        BY <1>1, <1>5, <3>2 DEF Strayed, Shown
      <4> QED
        BY <1>1, <2>1, <3>2, <4>1 DEF IInv, Measured, Reading
    <3> QED
      BY <3>1, <3>2
  <2>3. \A other \in wrote : other = place
    BY <1>1, <2>2 DEF IInv, Written
  <2>4. place \in Place /\ place.node # pod["tenant2"].node
    BY <1>3, <2>1, <2>2, Places DEF IInv, TypeOK
  <2>5. pod["tenant2"].volume \in ByHand
    <3>1. SUFFICES ASSUME pod["tenant2"].volume \notin ByHand
                   PROVE  FALSE
      OBVIOUS
    <3>2. test # "hostpath" => place.node = "none"
      BY <1>1, <1>5, <2>2, <3>1 DEF IInv, Measured, Reading, Strayed, Shown
    <3>3. test # "hostpath"
      BY <1>1, <1>5, <3>1, Names DEF Strayed, Shown
    <3> QED
      BY <1>3, <2>4, <3>1, <3>2, <3>3
  <2> QED
    BY <1>1, <2>3, <2>4, <2>5 DEF OtherNode
<1>6. pod["tenant2"].said = "early" => Unwritten
  BY <1>1, <1>3 DEF IInv, IntruderSays, Unwritten
<1> QED
  BY <1>1, <1>2, <1>3, <1>4, <1>5, <1>6

\* A "found" rests on a disk that the tenants share and on a marker that is there; a "missing" on
\* disks of their own, or on one of three cases, each of them reachable: a pod on the volume of
\* a left-over claim (Strayed), a hostPath on another node (OtherNode), or, in a volume test,
\* a marker not written yet (Unwritten).  Of the hostPath test this is said of every log it
\* reads, which is always of a pod of its own; of a volume test only if the log is that of
\* its own pod.
THEOREM FindingsReal == Spec => FindingsAreReal
<1> DEFINE Real == test = "hostpath" \/ heard'.stage = stage =>
             /\ Returns("found") => apart = "no" /\ PlaceOf(heard') \in files
             /\ Returns("missing") => apart = "yes" \/ Strayed \/ OtherNode \/ Unwritten
<1>1. IInv /\ [Next]_vars => Real
  BY NotFound, FoundIsReal DEF Returns
<1>2. IInv /\ [Next]_vars => [Real]_vars
  BY <1>1
<1> QED
  BY <1>2, Invariant, PTL DEF Spec, FindingsAreReal

\* What a test is yet to make by hand is there only if an earlier run left it.
LEMMA NotYet ==
  ASSUME IInv, NEW v \in ByHand, v \in volumes, v \notin earlier
  PROVE  /\ pc = "hand" => v # Named("retain")
         /\ pc = "hp_volume1" => v # Named("hp1")
         /\ pc = "hp_volume2" => v # Named("hp2")
<1>1. Handled(v)
  BY DEF IInv, ByHandOnly
<1>2. stage \in 1 .. 2 /\ (stage = 2 => test # plan[1])
  BY PlansAssumption DEF IInv, TypeOK, Course, MaxStage, test
<1>3. /\ pc = "hand" => test = "retain"
      /\ pc \in {"hp_volume1", "hp_volume2"} => test = "hostpath"
  BY DEF IInv, Course, Bound
<1>4. /\ TestOf(Named("retain")) = "retain"
      /\ TestOf(Named("hp1")) = "hostpath" /\ TestOf(Named("hp2")) = "hostpath"
  BY Names DEF TestOf
<1> QED
  BY <1>1, <1>2, <1>3, <1>4 DEF Handled, Early

\* Without a failing request a create is an error only if the name is taken.
LEMMA Taken ==
  ASSUME IInv, mishaps' = 0, NEW taken \in BOOLEAN, NEW answer \in Answers(taken),
         Account(answer), answer # "ok"
  PROVE  answer = "taken" /\ taken /\ mishaps = 0
BY Answered, MishapsAssumption DEF Account, IInv, TypeOK

LEMMA VolumeIsTaken ==
  ASSUME IInv, mishaps' = 0, NEW v \in ByHand, NEW answer, CreateVolume(v, answer), answer # "ok"
  PROVE  v \in volumes
<1> DEFINE taken == v \in volumes
<1>1. taken \in BOOLEAN /\ answer \in Answers(taken) /\ Account(answer)
  BY DEF CreateVolume
<1>2. taken => v \in volumes
  OBVIOUS
<1> HIDE DEF taken
<1> QED
  BY <1>1, <1>2, Taken

\* A volume that could not be made was there.
LEMMA UnmadeIsThere ==
  ASSUME IInv, [Next]_vars, mishaps' = 0, Decides, result'.why = "unmade"
  PROVE  Wanted \in earlier
<1>1. ~ (ReadLog \/ CreateReader \/ CreateIntruderVolume \/ CreateIntruder \/ CreateWriter)
  BY Said DEF Decides, ReadLog, CreateReader, CreateIntruderVolume, CreateIntruder, CreateWriter, Goto
<1>2. ~ WhyVictim /\ ~ WhyIntruder
  BY Said DEF WhyVictim, WhyIntruder
<1>3. CASE MakeByHand
  <2>1. PICK answer : /\ CreateVolume(Named("retain"), answer)
                      /\ answer = "ok" => result' = result
    BY <1>3 DEF MakeByHand, Goto
  <2>2. answer # "ok" /\ pc = "hand"
    BY <1>3, <2>1 DEF Decides, MakeByHand
  <2>3. Named("retain") \in earlier
    BY <2>1, <2>2, VolumeIsTaken, NotYet, Names
  <2> QED
    BY <2>2, <2>3 DEF IInv, Course, Bound, Wanted
<1>4. CASE CreateVictimVolume
  <2>1. PICK answer : /\ CreateVolume(Named("hp1"), answer)
                      /\ answer = "ok" => result' = result
    BY <1>4 DEF CreateVictimVolume, Goto
  <2>2. answer # "ok" /\ pc = "hp_volume1"
    BY <1>4, <2>1 DEF Decides, CreateVictimVolume
  <2>3. Named("hp1") \in earlier
    BY <2>1, <2>2, VolumeIsTaken, NotYet, Names
  <2> QED
    BY <2>2, <2>3 DEF IInv, Course, Wanted
<1> QED
  BY <1>1, <1>2, <1>3, <1>4, Reported

LEMMA BarredIsThere ==
  ASSUME IInv, [Next]_vars, mishaps' = 0, Decides, result'.why = "barred"
  PROVE  Named("hp2") \in earlier
<1>1. ~ (ReadLog \/ CreateReader \/ MakeByHand \/ CreateVictimVolume \/ CreateIntruder \/ CreateWriter)
  BY Said DEF Decides, ReadLog, CreateReader, MakeByHand, CreateVictimVolume, CreateIntruder,
              CreateWriter, Goto
<1>2. ~ WhyVictim /\ ~ WhyIntruder
  BY Said DEF WhyVictim, WhyIntruder
<1>3. CreateIntruderVolume
  BY <1>1, <1>2, Reported
<1>4. PICK answer : /\ CreateVolume(Named("hp2"), answer)
                    /\ answer = "ok" => result' = result
  BY <1>3 DEF CreateIntruderVolume, Goto
<1>5. answer # "ok" /\ pc = "hp_volume2"
  BY <1>3, <1>4 DEF Decides, CreateIntruderVolume
<1> QED
  BY <1>4, <1>5, VolumeIsTaken, NotYet, Names

LEMMA VictimIsRefused ==
  ASSUME IInv, [Next]_vars, mishaps' = 0, Decides, result'.why = "victim"
  PROVE  refusal["tenant1"] # "none"
<1>1. ~ (ReadLog \/ CreateReader \/ CreateIntruderVolume \/ CreateIntruder)
  BY Said DEF Decides, ReadLog, CreateReader, CreateIntruderVolume, CreateIntruder, Goto
<1>2. ~ WhyIntruder
  BY Said DEF WhyIntruder
<1>3. ~ (MakeByHand \/ CreateVictimVolume)
  BY Said DEF Decides, MakeByHand, CreateVictimVolume, Goto
<1>4. ~ CreateWriter
  <2> SUFFICES ASSUME CreateWriter
               PROVE  FALSE
    OBVIOUS
  <2>1. PICK answer \in Answers(set["tenant1"].live) :
          /\ Account(answer)
          /\ answer = "ok" => result' = result
    BY DEF CreateWriter, CreateSet, Goto
  <2>2. answer # "ok" /\ pc = "write"
    BY <2>1 DEF Decides, CreateWriter
  <2>3. set["tenant1"].live \in BOOLEAN
    BY Typed DEF IInv, Tenants
  <2>4. set["tenant1"].live /\ mishaps = 0
    BY <2>1, <2>2, <2>3, Taken
  <2> QED
    BY <2>2, <2>4 DEF IInv, Unhindered
<1>5. WhyVictim
  BY <1>1, <1>2, <1>3, <1>4, Reported
<1>6. PICK refused \in Refused("tenant1") :
        Return(IF refused THEN "Hard" ELSE "Unknown", IF refused THEN "victim" ELSE "unready",
               IF test = "hostpath" THEN CleanUpOf("tenant1") ELSE << >>)
  BY <1>5 DEF WhyVictim
<1>7. mishaps = 0 /\ error # "refused"
  BY <1>5 DEF WhyVictim, faults, IInv, Unhindered
<1>8. refused
  BY <1>6, Said
<1> QED
  BY <1>6, <1>7, <1>8 DEF Refused, Told

LEMMA IntruderIsRefused ==
  ASSUME IInv, [Next]_vars, mishaps' = 0, Decides, result'.why = "refused"
  PROVE  refusal["tenant2"] # "none" \/ set["tenant2"].stage \in 1 .. stage - 1
<1>1. ~ (ReadLog \/ MakeByHand \/ CreateVictimVolume \/ CreateIntruderVolume)
  BY Said DEF Decides, ReadLog, MakeByHand, CreateVictimVolume, CreateIntruderVolume, Goto
<1>2. ~ CreateWriter
  BY Said DEF Decides, CreateWriter, Goto
<1>3. ~ WhyVictim
  BY Said DEF WhyVictim
<1>4. ~ CreateReader
  <2> SUFFICES ASSUME CreateReader
               PROVE  FALSE
    OBVIOUS
  <2>1. PICK answer \in Answers(set["tenant2"].live) :
          /\ Account(answer)
          /\ answer = "ok" => result' = result
          /\ answer = "taken" => Return("Hard", "create", <<TheVolume(measured)>>)
    BY DEF CreateReader, CreateSet, Goto
  <2>2. answer # "ok" /\ answer # "taken" /\ set["tenant2"].live \in BOOLEAN
    BY <2>1, Said, Typed DEF Decides, IInv, Tenants
  <2> QED
    BY <2>1, <2>2, Taken
<1>5. CASE CreateIntruder
  <2>1. PICK answer \in Answers(set["tenant2"].live) :
          /\ Account(answer)
          /\ answer = "ok" => result' = result
    BY <1>5 DEF CreateIntruder, CreateSet, Goto
  <2>2. answer # "ok" /\ pc = "read" /\ set["tenant2"].live \in BOOLEAN /\ stage \in 1 .. MaxStage
        /\ set["tenant2"].stage \in 0 .. MaxStage
    BY <1>5, <2>1, Typed DEF Decides, CreateIntruder, IInv, TypeOK, Tenants
  <2>3. set["tenant2"].live
    BY <2>1, <2>2, Taken
  <2>4. set["tenant2"].stage >= 1
    BY <2>3 DEF IInv, Shape, Tenants
  <2>5. set["tenant2"].stage < stage
    BY <2>2 DEF IInv, Unhindered, Course
  <2> QED
    BY <2>2, <2>4, <2>5 DEF MaxStage
<1>6. CASE WhyIntruder
  <2>1. PICK refused \in Refused("tenant2") :
          result'.why = "refused" => refused
    BY <1>6, Said DEF WhyIntruder
  <2>2. mishaps = 0 /\ error # "refused"
    BY <1>6 DEF WhyIntruder, faults, IInv, Unhindered
  <2> QED
    BY <2>1, <2>2 DEF Refused, Told
<1> QED
  BY <1>1, <1>2, <1>3, <1>4, <1>5, <1>6, Reported

\* Without a failed request, whoever is said to have been refused was, or is the intruder of
\* the hostPath test in the way of an earlier set; and a volume could not be made because an
\* earlier run left it.
THEOREM RefusalsExplained == Spec => RefusalsAreExplained
<1> DEFINE Real == mishaps' = 0 =>
             /\ Returns("victim") => refusal["tenant1"] # "none"
             /\ Returns("refused") =>
                  refusal["tenant2"] # "none" \/ set["tenant2"].stage \in 1 .. stage - 1
             /\ Returns("unmade") => Wanted \in earlier
             /\ Returns("barred") => Named("hp2") \in earlier
<1>1. IInv /\ [Next]_vars => Real
  BY VictimIsRefused, IntruderIsRefused, UnmadeIsThere, BarredIsThere DEF Returns
<1>2. IInv /\ [Next]_vars => [Real]_vars
  BY <1>1
<1> QED
  BY <1>2, Invariant, PTL DEF Spec, RefusalsAreExplained
=============================================================================
