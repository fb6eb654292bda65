------------------------------ MODULE GpProofs ------------------------------
(***************************************************************************)
(* Proofs about the GlobalPlatform card, for every size of its tables and  *)
(* every set of AIDs.                                                      *)
(*                                                                         *)
(* Card content: its types, the uniqueness of AIDs, the guard that keeps   *)
(* an applet's security domain, and the reach of the cascading DELETE.     *)
(* Each invariant is inductive together with ContentTypeOK; the order of   *)
(* the theorems is the order in which they are used.  A restored snapshot  *)
(* is a step of the card like the commands; what it does to a table is in  *)
(* the lemmas on compaction (RankBound to PackSource).                     *)
(*                                                                         *)
(* Channels: what SELECT, MANAGE CHANNEL and a restored snapshot do.       *)
(*                                                                         *)
(* Sessions and STORE DATA chains, for every buffer size and block number  *)
(* width: SessionTypeOK is inductive by itself; ChainContiguous needs it,  *)
(* for the type of the gathered blocks.  For KeysAreNewest the store is    *)
(* shown to be a map: KeysInv says which entries there are and that slot 1 *)
(* is the first version's.                                                 *)
(***************************************************************************)
EXTENDS GpChannels, GpSession, FiniteSetTheorems, WellFoundedInduction, TLAPS

\* ---- Lemmas on the operators ----
\* AppletLifecycle::transition yields life cycle values only.
LEMMA TransitionType ==
    ASSUME NEW cur \in Lifecycle, NEW tgt \in Lifecycle, NEW new \in AppletTransition(cur, tgt)
    PROVE  new \in Lifecycle
BY DEF AppletTransition, Lifecycle

\* The values INSTALL writes are life cycle values.
LEMMA InstallLevels == \A b \in BOOLEAN : Unlocked(IF b THEN 7 ELSE 3) \in Lifecycle
BY LevelsAssumption DEF Unlocked, Lifecycle

\* add_instance keeps the type of a load file and its limit.
LEMMA AddInstanceType ==
    ASSUME NEW file \in File, Len(file.instances) <= MaxInstances, NEW s \in Slots
    PROVE  /\ AddInstance(file, s) \in File
           /\ Len(AddInstance(file, s).instances) <= MaxInstances
           /\ AddInstance(file, s).aid = file.aid
<1>1. file.instances \in Seq(Slots) /\ file.aid \in FileAids
  BY DEF File
<1>2. Append(file.instances, s) \in Seq(Slots)
      /\ Len(Append(file.instances, s)) = Len(file.instances) + 1
  BY <1>1
<1>3. [file EXCEPT !.instances = Append(@, s)]
        = [aid |-> file.aid, instances |-> Append(file.instances, s)]
  BY DEF File
<1>4. CASE Len(file.instances) < MaxInstances
  <2>1. Len(file.instances) \in Nat
    BY <1>1
  <2> QED BY <1>1, <1>2, <1>3, <1>4, <2>1, SizesAssumption DEF AddInstance, File
<1>5. CASE ~(Len(file.instances) < MaxInstances)
  BY <1>5 DEF AddInstance
<1> QED BY <1>4, <1>5

\* An instance that was listed stays listed, and a new one is listed if there
\* was room.
LEMMA AddInstanceLists ==
    ASSUME NEW file \in File, NEW s \in Slots
    PROVE  /\ \A i \in DOMAIN file.instances :
                 /\ i \in DOMAIN AddInstance(file, s).instances
                 /\ AddInstance(file, s).instances[i] = file.instances[i]
           /\ Len(file.instances) < MaxInstances =>
                 \E i \in DOMAIN AddInstance(file, s).instances :
                    AddInstance(file, s).instances[i] = s
<1>1. file.instances \in Seq(Slots)
  BY DEF File
<1>2. [file EXCEPT !.instances = Append(@, s)].instances = Append(file.instances, s)
  BY DEF File
<1>3. CASE Len(file.instances) < MaxInstances
  <2>1. AddInstance(file, s).instances = Append(file.instances, s)
    BY <1>2, <1>3 DEF AddInstance
  <2>2. /\ Len(file.instances) + 1 \in DOMAIN Append(file.instances, s)
        /\ Append(file.instances, s)[Len(file.instances) + 1] = s
        /\ \A i \in DOMAIN file.instances :
              /\ i \in DOMAIN Append(file.instances, s)
              /\ Append(file.instances, s)[i] = file.instances[i]
    BY <1>1
  <2> QED BY <2>1, <2>2
<1>4. CASE ~(Len(file.instances) < MaxInstances)
  BY <1>4 DEF AddInstance
<1> QED BY <1>3, <1>4

\* ---- Snapshots: the compaction of a table ----
\* The occupied slots of a table, and the ones of them before slot s: their
\* number is where the snapshot puts the entry of s.
OccIn(arr, index) == {s \in index : arr[s] # None}
Before(occ, s) == {t \in occ : t < s}
RankIn(occ, s) == Cardinality(Before(occ, s))

LEMMA IntervalBelow ==
    ASSUME NEW s \in Nat PROVE IsFiniteSet(0 .. s - 1) /\ Cardinality(0 .. s - 1) = s
<1> DEFINE b == s - 1
<1>1. b \in Int /\ 0 \in Int /\ (0 > b => s = 0) /\ b - 0 + 1 = s OBVIOUS
<1> HIDE DEF b
<1>2. IsFiniteSet(0 .. b) /\ Cardinality(0 .. b) = IF 0 > b THEN 0 ELSE b - 0 + 1
  BY <1>1, FS_Interval
<1>3. IsFiniteSet(0 .. b) /\ Cardinality(0 .. b) = s BY <1>1, <1>2
<1> QED BY <1>3 DEF b

\* An entry never moves to a higher slot.
LEMMA RankBound ==
    ASSUME NEW n \in Nat, NEW occ \in SUBSET (0 .. n - 1), NEW s \in occ
    PROVE  RankIn(occ, s) \in 0 .. s /\ IsFiniteSet(Before(occ, s)) /\ s \in 0 .. n - 1
<1>1. s \in Nat /\ s \in 0 .. n - 1 OBVIOUS
<1>2. IsFiniteSet(0 .. s - 1) /\ Cardinality(0 .. s - 1) = s BY <1>1, IntervalBelow
<1>3. ASSUME NEW t \in Before(occ, s) PROVE t \in 0 .. s - 1
  <2>1. t \in occ /\ t < s BY <1>3 DEF Before
  <2>2. t \in 0 .. n - 1 BY <2>1
  <2> QED BY <1>1, <2>1, <2>2
<1>4. Before(occ, s) \in SUBSET (0 .. s - 1) BY <1>3
<1>5. IsFiniteSet(Before(occ, s)) /\ RankIn(occ, s) <= s
  BY <1>2, <1>4, FS_Subset DEF RankIn
<1>6. RankIn(occ, s) \in Nat BY <1>5, FS_CardinalityType DEF RankIn
<1> QED BY <1>1, <1>5, <1>6

\* The order of the entries is kept, so no two come to the same slot.
LEMMA RankOrder ==
    ASSUME NEW n \in Nat, NEW occ \in SUBSET (0 .. n - 1), NEW s \in occ, NEW t \in occ, s < t
    PROVE  RankIn(occ, s) < RankIn(occ, t)
<1>1. IsFiniteSet(Before(occ, s)) /\ IsFiniteSet(Before(occ, t)) BY RankBound
<1>2. s \notin Before(occ, s) /\ s \in Int /\ t \in Int BY DEF Before
<1>3. ASSUME NEW u \in Before(occ, s) \cup {s} PROVE u \in Before(occ, t)
  <2>1. u \in occ /\ u <= s BY <1>2, <1>3 DEF Before
  <2>2. u \in Int BY <2>1
  <2> QED BY <1>2, <2>1, <2>2 DEF Before
<1>4. Before(occ, s) \cup {s} \in SUBSET Before(occ, t) BY <1>3
<1>5. Cardinality(Before(occ, s) \cup {s}) = RankIn(occ, s) + 1
  BY <1>1, <1>2, FS_AddElement DEF RankIn
<1>6. Cardinality(Before(occ, s) \cup {s}) <= RankIn(occ, t)
  BY <1>1, <1>4, FS_Subset DEF RankIn
<1>7. RankIn(occ, s) \in Nat /\ RankIn(occ, t) \in Nat
  BY <1>1, FS_CardinalityType DEF RankIn
<1> QED BY <1>5, <1>6, <1>7

\* What is found in a slot after the round trip: the entry of that rank.
LEMMA PackAt ==
    ASSUME NEW n \in Nat, NEW arr, NEW i \in 0 .. n - 1, NEW occ, occ = OccIn(arr, 0 .. n - 1)
    PROVE  /\ \A s \in occ : RankIn(occ, s) = i => Pack(arr, 0 .. n - 1)[i] = arr[s]
           /\ (\A s \in occ : RankIn(occ, s) # i) => Pack(arr, 0 .. n - 1)[i] = None
<1>1. Pack(arr, 0 .. n - 1)[i] = IF \E s \in occ : RankIn(occ, s) = i
                                 THEN arr[CHOOSE s \in occ : RankIn(occ, s) = i] ELSE None
  BY Zenon DEF Pack, RankIn, Before, OccIn
<1>2. occ \in SUBSET (0 .. n - 1) BY DEF OccIn
<1>3. ASSUME NEW s \in occ, NEW t \in occ, RankIn(occ, s) = RankIn(occ, t) PROVE s = t
  <2>1. s \in Int /\ t \in Int /\ RankIn(occ, s) \in Int /\ RankIn(occ, t) \in Int
    <3>1. \A u \in occ : RankIn(occ, u) \in 0 .. u /\ u \in 0 .. n - 1
      BY <1>2, RankBound
    <3> QED BY <3>1
  <2>2. ~(s < t) /\ ~(t < s)
    <3>1. \A u, v \in occ : u < v => RankIn(occ, u) < RankIn(occ, v)
      BY <1>2, RankOrder
    <3> QED BY <1>3, <2>1, <3>1
  <2> QED BY <2>1, <2>2
<1>4. ASSUME NEW s \in occ, RankIn(occ, s) = i PROVE Pack(arr, 0 .. n - 1)[i] = arr[s]
  <2> DEFINE c == CHOOSE t \in occ : RankIn(occ, t) = i
  <2>1. c \in occ /\ RankIn(occ, c) = i BY <1>4
  <2>2. c = s BY <1>3, <1>4, <2>1
  <2> QED BY <1>1, <1>4, <2>2
<1>5. ASSUME \A s \in occ : RankIn(occ, s) # i PROVE Pack(arr, 0 .. n - 1)[i] = None
  BY <1>1, <1>5
<1> QED BY <1>4, <1>5

\* The round trip keeps exactly the entries there were.
LEMMA PackEntries ==
    ASSUME NEW n \in Nat, NEW arr, NEW index, index = 0 .. n - 1
    PROVE  /\ Entries(Pack(arr, index), index) = Entries(arr, index)
           /\ \A i \in index : Pack(arr, index)[i] # None =>
                 \E s \in index : arr[s] # None /\ Pack(arr, index)[i] = arr[s]
<1>1. ASSUME NEW i \in index, Pack(arr, index)[i] # None
      PROVE  \E s \in index : arr[s] # None /\ Pack(arr, index)[i] = arr[s]
  <2>1. PICK s \in OccIn(arr, index) : RankIn(OccIn(arr, index), s) = i BY <1>1, PackAt
  <2>2. Pack(arr, index)[i] = arr[s] BY <2>1, PackAt
  <2> QED BY <2>1, <2>2 DEF OccIn
<1>2. ASSUME NEW s \in index, arr[s] # None
      PROVE  \E i \in index : Pack(arr, index)[i] = arr[s]
  <2>1. s \in OccIn(arr, index) /\ OccIn(arr, index) \in SUBSET (0 .. n - 1)
    BY <1>2 DEF OccIn
  <2>2. RankIn(OccIn(arr, index), s) \in 0 .. s /\ s \in 0 .. n - 1 BY <2>1, RankBound
  <2>3. RankIn(OccIn(arr, index), s) \in index BY <2>2
  <2> QED BY <2>1, <2>3, PackAt
<1>3. ASSUME NEW e PROVE e \in Entries(Pack(arr, index), index) <=> e \in Entries(arr, index)
  <2>1. ASSUME e \in Entries(Pack(arr, index), index) PROVE e \in Entries(arr, index)
    BY <1>1, <2>1 DEF Entries
  <2>2. ASSUME e \in Entries(arr, index) PROVE e \in Entries(Pack(arr, index), index)
    <3>1. PICK s \in index : e = arr[s] /\ arr[s] # None BY <2>2 DEF Entries
    <3>2. PICK i \in index : Pack(arr, index)[i] = arr[s] BY <1>2, <3>1
    <3> QED BY <3>1, <3>2 DEF Entries
  <2> QED BY <2>1, <2>2
<1> QED BY <1>1, <1>3

\* A table without gaps comes back as it was.
LEMMA PackPacked ==
    ASSUME NEW n \in Nat, NEW index, index = 0 .. n - 1, NEW arr,
           arr = [i \in index |-> arr[i]], Packed(arr, index)
    PROVE  Pack(arr, index) = arr
<1>1. ASSUME NEW s \in OccIn(arr, index) PROVE RankIn(OccIn(arr, index), s) = s
  <2>1. s \in index /\ arr[s] # None /\ s \in Nat /\ s < n BY DEF OccIn
  <2>2. ASSUME NEW t PROVE t \in Before(OccIn(arr, index), s) <=> t \in 0 .. s - 1
    <3>1. ASSUME t \in Before(OccIn(arr, index), s) PROVE t \in 0 .. s - 1
      <4>1. t \in index /\ t < s BY <3>1 DEF Before, OccIn
      <4> QED BY <2>1, <4>1
    <3>2. ASSUME t \in 0 .. s - 1 PROVE t \in Before(OccIn(arr, index), s)
      <4>1. t \in index /\ t < s BY <2>1, <3>2
      <4>2. arr[t] # None BY <2>1, <4>1 DEF Packed
      <4> QED BY <4>1, <4>2 DEF Before, OccIn
    <3> QED BY <3>1, <3>2
  <2>3. Before(OccIn(arr, index), s) = 0 .. s - 1 BY <2>2
  <2> QED BY <2>1, <2>3, IntervalBelow DEF RankIn
<1>2. ASSUME NEW i \in index PROVE Pack(arr, index)[i] = arr[i]
  <2>1. CASE i \in OccIn(arr, index) BY <1>1, <2>1, PackAt
  <2>2. CASE i \notin OccIn(arr, index)
    <3>1. arr[i] = None BY <2>2 DEF OccIn
    <3>2. \A s \in OccIn(arr, index) : RankIn(OccIn(arr, index), s) # i BY <1>1, <2>2
    <3> QED BY <3>1, <3>2, PackAt
  <2> QED BY <2>1, <2>2
<1>3. Pack(arr, index) = [i \in index |-> Pack(arr, index)[i]] BY Zenon DEF Pack
<1> QED BY <1>2, <1>3

\* Where an entry of the restored table comes from.
LEMMA PackSource ==
    ASSUME NEW n \in Nat, NEW arr, NEW index, index = 0 .. n - 1,
           NEW i \in index, Pack(arr, index)[i] # None
    PROVE  \E s \in index : /\ arr[s] # None /\ Pack(arr, index)[i] = arr[s]
                            /\ i = RankIn(OccIn(arr, index), s)
<1>1. PICK s \in OccIn(arr, index) : RankIn(OccIn(arr, index), s) = i BY PackAt
<1>2. Pack(arr, index)[i] = arr[s] BY <1>1, PackAt
<1> QED BY <1>1, <1>2 DEF OccIn

\* ---- Type correctness ----
\* A restored table holds only entries the saved one held, with its types.
LEMMA RestoreType == ASSUME ContentTypeOK, RestoreContent PROVE ContentTypeOK'
<1>1. Slots = 0 .. MaxApplets - 1 /\ FileSlots = 0 .. MaxLoadFiles - 1 /\ SdSlots = 0 .. MaxSds - 1
      /\ MaxApplets \in Nat /\ MaxLoadFiles \in Nat /\ MaxSds \in Nat
  BY SizesAssumption DEF Slots, FileSlots, SdSlots
<1>2. ASSUME NEW arr, NEW index, NEW n \in Nat, index = 0 .. n - 1
      PROVE  /\ Pack(arr, index) = [i \in index |-> Pack(arr, index)[i]]
             /\ \A i \in index : Pack(arr, index)[i] = None
                   \/ \E s \in index : arr[s] # None /\ Pack(arr, index)[i] = arr[s]
  <2>1. Pack(arr, index) = [i \in index |-> Pack(arr, index)[i]] BY Zenon DEF Pack
  <2> QED BY <1>2, <2>1, PackEntries
<1>3. registry' \in [Slots -> Entry \cup {None}]
  <2>1. registry' = Pack(registry, Slots) BY DEF RestoreContent
  <2>2. registry' = [i \in Slots |-> registry'[i]]
        /\ \A i \in Slots : registry'[i] = None \/ \E s \in Slots : registry'[i] = registry[s]
    BY <1>1, <1>2, <2>1
  <2> QED BY <2>2 DEF ContentTypeOK
<1>4. /\ files' \in [FileSlots -> File \cup {None}]
      /\ \A f \in FileSlots : files'[f] # None => Len(files'[f].instances) <= MaxInstances
  <2>1. files' = Pack(files, FileSlots) BY DEF RestoreContent
  <2>2. files' = [i \in FileSlots |-> files'[i]]
        /\ \A i \in FileSlots : files'[i] = None
              \/ \E s \in FileSlots : files[s] # None /\ files'[i] = files[s]
    BY <1>1, <1>2, <2>1
  <2> QED BY <2>2 DEF ContentTypeOK
<1>5. sds' \in [SdSlots -> SdAids \cup {None}]
  <2>1. sds' = Pack(sds, SdSlots) BY DEF RestoreContent
  <2>2. sds' = [i \in SdSlots |-> sds'[i]]
        /\ \A i \in SdSlots : sds'[i] = None \/ \E s \in SdSlots : sds'[i] = sds[s]
    BY <1>1, <1>2, <2>1
  <2>3. \A d \in SdSlots : sds[d] \in SdAids \cup {None} BY DEF ContentTypeOK
  <2> QED BY <2>2, <2>3
<1>6. moved' \subseteq {"registry", "sds"} BY DEF RestoreContent, NowMoved, ContentTypeOK
<1> QED BY <1>3, <1>4, <1>5, <1>6 DEF ContentTypeOK, RestoreContent

\* The type of the content holds in a new or personalised card.
LEMMA ContentInitType == ContentInit => ContentTypeOK
BY DEF ContentInit, ContentTypeOK, CardStates

LEMMA MoveAppletType ==
    ASSUME ContentTypeOK, NEW s \in Slots, registry[s] # None, NEW lc \in Lifecycle,
           MoveApplet(s, lc), UNCHANGED moved
    PROVE  ContentTypeOK'
<1>1. PICK new \in AppletTransition(registry[s].lc, lc) :
         /\ registry' = [registry EXCEPT ![s].lc = new]
         /\ UNCHANGED <<card, files, sds>>
  BY DEF MoveApplet
<1>2. registry[s] \in Entry /\ registry[s].lc \in Lifecycle
  BY DEF ContentTypeOK, Entry
<1>3. new \in Lifecycle
  BY <1>2, TransitionType
<1>4. [registry[s] EXCEPT !.lc = new] \in Entry
  BY <1>2, <1>3 DEF Entry
<1>5. registry' \in [Slots -> Entry \cup {None}]
  BY <1>1, <1>4 DEF ContentTypeOK
<1> QED BY <1>1, <1>5 DEF ContentTypeOK

LEMMA InstallType ==
    ASSUME ContentTypeOK, NEW aid \in Aids, NEW lf \in FileAids \cup {None},
           NEW b \in BOOLEAN, install(aid, lf, b),
           UNCHANGED moved
    PROVE  ContentTypeOK'
<1> DEFINE linked == {f \in FileSlots : lf # None /\ HasFile(f, lf)}
<1> DEFINE new == [aid |-> aid, sd |-> None, lc |-> Unlocked(IF b THEN 7 ELSE 3),
                   lf |-> IF linked = {} THEN None ELSE lf,
                   linked |-> \E f \in linked : Len(files[f].instances) < MaxInstances]
<1>1. PICK s \in FirstEmpty(registry, Slots) :
         /\ registry' = [registry EXCEPT ![s] = new]
         /\ files' = [f \in FileSlots |->
                        IF f \in linked THEN AddInstance(files[f], s) ELSE files[f]]
  BY DEF install
<1>2. s \in Slots
  BY DEF FirstEmpty
<1>3. new \in Entry
  BY InstallLevels DEF Entry
<1>4. registry' \in [Slots -> Entry \cup {None}]
  BY <1>1, <1>3 DEF ContentTypeOK
<1>5. \A f \in FileSlots : f \in linked => files[f] \in File /\ Len(files[f].instances) <= MaxInstances
  BY DEF HasFile, ContentTypeOK
<1>6. \A f \in FileSlots :
         /\ files'[f] \in File \cup {None}
         /\ files'[f] # None => Len(files'[f].instances) <= MaxInstances
  BY <1>1, <1>2, <1>5, AddInstanceType DEF ContentTypeOK
<1>7. files' \in [FileSlots -> File \cup {None}]
  BY <1>1, <1>6
<1>8. card' \in CardStates /\ sds' = sds
  BY DEF install, ContentTypeOK, CardStates
<1> HIDE DEF linked, new
<1> QED BY <1>4, <1>6, <1>7, <1>8 DEF ContentTypeOK

\* Every command keeps the type of the content.
LEMMA ContentCommandType ==
    ASSUME ContentTypeOK, ContentCommand, UNCHANGED moved PROVE ContentTypeOK'
<1>1. ASSUME NEW to \in CardStates, set_status_card(to) PROVE ContentTypeOK'
  BY <1>1 DEF set_status_card, ContentTypeOK
<1>2. ASSUME NEW aid \in Aids, NEW lc \in Lifecycle, set_status_applet(aid, lc)
      PROVE  ContentTypeOK'
  BY <1>2, MoveAppletType DEF set_status_applet, HasAid
<1>3. ASSUME NEW aid \in Aids, install_make_selectable(aid) PROVE ContentTypeOK'
  <2>1. Unlocked(7) \in Lifecycle
    BY LevelsAssumption DEF Unlocked, Lifecycle
  <2> QED BY <1>2, <1>3, <2>1 DEF install_make_selectable
<1>4. ASSUME NEW lf \in FileAids, install_for_load(lf) PROVE ContentTypeOK'
  <2>1. [aid |-> lf, instances |-> <<>>] \in File
    BY DEF File
  <2>2. Len([aid |-> lf, instances |-> <<>>].instances) <= MaxInstances
    BY SizesAssumption
  <2>3. PICK f \in FirstEmpty(files, FileSlots) :
           files' = [files EXCEPT ![f] = [aid |-> lf, instances |-> <<>>]]
    BY <1>4 DEF install_for_load
  <2>4. UNCHANGED <<card, registry, sds>>
    BY <1>4 DEF install_for_load
  <2> QED BY <2>1, <2>2, <2>3, <2>4 DEF ContentTypeOK
<1>5. ASSUME NEW aid \in Aids, NEW lf \in FileAids \cup {None}, NEW b \in BOOLEAN,
             install(aid, lf, b)
      PROVE  ContentTypeOK'
  BY <1>5, InstallType
<1>6. ASSUME NEW lf \in FileAids, delete_cascade(lf) PROVE ContentTypeOK'
  BY <1>6 DEF delete_cascade, ContentTypeOK
<1>7. ASSUME NEW aid \in SdAids, delete_sd(aid) PROVE ContentTypeOK'
  BY <1>7 DEF delete_sd, ContentTypeOK
<1>8. ASSUME NEW aid \in Aids, delete_applet(aid) PROVE ContentTypeOK'
  BY <1>8 DEF delete_applet, ContentTypeOK
<1> QED BY <1>8, <1>1, <1>2, <1>3, <1>4, <1>5, <1>6, <1>7 DEF ContentCommand

\* So does a restored snapshot.
LEMMA ContentStepType == ContentTypeOK /\ [ContentNext]_contentVars => ContentTypeOK'
<1>1. ASSUME ContentTypeOK, UNCHANGED contentVars PROVE ContentTypeOK'
  BY <1>1 DEF contentVars, ContentTypeOK
<1> QED BY <1>1, ContentCommandType, RestoreType DEF ContentNext

\* Type correctness: the tables of the card keep their types and a load file
\* never lists more than MaxInstances slots, whatever is installed or deleted.
THEOREM ContentTypeCorrect == ContentSpec => []ContentTypeOK
<1>1. ContentInit => ContentTypeOK
  BY ContentInitType
<1>2. ContentTypeOK /\ [ContentNext]_contentVars => ContentTypeOK'
  BY ContentStepType
<1> QED BY <1>1, <1>2, PTL DEF ContentSpec
\* ---- What a life cycle change and INSTALL leave alone ----
\* A life cycle change keeps which slots are occupied, and by whom.
LEMMA MoveAppletKeeps ==
    ASSUME ContentTypeOK, NEW s \in Slots, registry[s] # None, NEW lc \in Lifecycle,
           MoveApplet(s, lc)
    PROVE  /\ UNCHANGED <<card, files, sds>>
           /\ \A t \in Slots : (registry'[t] = None) <=> (registry[t] = None)
           /\ \A t \in Slots : registry[t] # None =>
                 /\ registry'[t].aid = registry[t].aid
                 /\ registry'[t].sd = registry[t].sd
                 /\ registry'[t].lf = registry[t].lf
                 /\ registry'[t].linked = registry[t].linked
<1>1. PICK new \in AppletTransition(registry[s].lc, lc) :
         /\ registry' = [registry EXCEPT ![s].lc = new]
         /\ UNCHANGED <<card, files, sds>>
  BY DEF MoveApplet
<1>2. registry[s] \in Entry
  BY DEF ContentTypeOK
<1>3. registry[s].lc \in Lifecycle
  BY <1>2 DEF Entry
<1>4. new \in Lifecycle
  BY <1>3, TransitionType
<1> DEFINE e == [registry[s] EXCEPT !.lc = new]
<1>5. e \in Entry /\ e.aid = registry[s].aid /\ e.sd = registry[s].sd
      /\ e.lf = registry[s].lf /\ e.linked = registry[s].linked
  BY <1>2, <1>4 DEF Entry
<1>6. e # None
  BY <1>5, NoneAssumption
<1>7. registry'[s] = e /\ \A t \in Slots : t # s => registry'[t] = registry[t]
  BY <1>1 DEF ContentTypeOK
<1> HIDE DEF e
<1> QED BY <1>1, <1>5, <1>6, <1>7

\* What INSTALL writes: one slot that was empty, and the load file's list.
LEMMA InstallEffect ==
    ASSUME ContentTypeOK, NEW aid \in Aids, NEW lf \in FileAids \cup {None},
           NEW b \in BOOLEAN, install(aid, lf, b)
    PROVE  \E s \in Slots :
             /\ registry[s] = None /\ registry'[s] # None
             /\ registry'[s].aid = aid /\ registry'[s].sd = None
             /\ \A t \in Slots : t # s => registry'[t] = registry[t]
             /\ \A f \in FileSlots : (files'[f] = None) <=> (files[f] = None)
             /\ \A f \in FileSlots : files[f] # None =>
                   /\ files'[f].aid = files[f].aid
                   /\ \A i \in DOMAIN files[f].instances :
                         /\ i \in DOMAIN files'[f].instances
                         /\ files'[f].instances[i] = files[f].instances[i]
             /\ registry'[s].linked =>
                   \E f \in FileSlots :
                      /\ files'[f] # None /\ files'[f].aid = registry'[s].lf
                      /\ \E i \in DOMAIN files'[f].instances : files'[f].instances[i] = s
<1> DEFINE linked == {f \in FileSlots : lf # None /\ HasFile(f, lf)}
<1> DEFINE new == [aid |-> aid, sd |-> None, lc |-> Unlocked(IF b THEN 7 ELSE 3),
                   lf |-> IF linked = {} THEN None ELSE lf,
                   linked |-> \E f \in linked : Len(files[f].instances) < MaxInstances]
<1>1. PICK s \in FirstEmpty(registry, Slots) :
         /\ registry' = [registry EXCEPT ![s] = new]
         /\ files' = [f \in FileSlots |->
                        IF f \in linked THEN AddInstance(files[f], s) ELSE files[f]]
  BY DEF install
<1>2. s \in Slots /\ registry[s] = None
  BY DEF FirstEmpty
<1>3. new \in Entry
  BY InstallLevels DEF Entry
<1>4. registry'[s] = new /\ \A t \in Slots : t # s => registry'[t] = registry[t]
  BY <1>1, <1>2 DEF ContentTypeOK
<1>5. registry'[s] # None
  BY <1>3, <1>4, NoneAssumption
<1>6. \A f \in FileSlots : files[f] # None => files[f] \in File /\ Len(files[f].instances) <= MaxInstances
  BY DEF ContentTypeOK
<1>7. \A f \in FileSlots : f \in linked => files[f] # None /\ files[f].aid = lf
  BY DEF HasFile
<1>8. None \notin File
  BY NoneAssumption DEF File
<1>9. \A f \in FileSlots : f \in linked =>
         /\ files'[f] = AddInstance(files[f], s)
         /\ files'[f] # None /\ files'[f].aid = files[f].aid
  BY <1>1, <1>2, <1>6, <1>7, <1>8, AddInstanceType
<1>10. \A f \in FileSlots : f \notin linked => files'[f] = files[f]
  BY <1>1
<1>11. \A f \in FileSlots : (files'[f] = None) <=> (files[f] = None)
  BY <1>7, <1>9, <1>10
<1>12. ASSUME NEW f \in FileSlots, files[f] # None
       PROVE  /\ files'[f].aid = files[f].aid
              /\ \A i \in DOMAIN files[f].instances :
                    /\ i \in DOMAIN files'[f].instances
                    /\ files'[f].instances[i] = files[f].instances[i]
  <2>1. CASE f \in linked
    BY <1>2, <1>6, <1>9, <1>12, <2>1, AddInstanceLists
  <2>2. CASE f \notin linked
    BY <1>10, <2>2
  <2> QED BY <2>1, <2>2
<1>13. ASSUME registry'[s].linked
       PROVE  \E f \in FileSlots :
                 /\ files'[f] # None /\ files'[f].aid = registry'[s].lf
                 /\ \E i \in DOMAIN files'[f].instances : files'[f].instances[i] = s
  <2>1. PICK f \in linked : Len(files[f].instances) < MaxInstances
    BY <1>4, <1>13
  <2>2. f \in FileSlots /\ registry'[s].lf = lf
    BY <1>4, <2>1
  <2>3. files'[f] # None /\ files'[f].aid = lf
    BY <1>7, <1>9, <2>1, <2>2
  <2>4. \E i \in DOMAIN files'[f].instances : files'[f].instances[i] = s
    BY <1>2, <1>6, <1>7, <1>9, <2>1, <2>2, AddInstanceLists
  <2> QED BY <2>2, <2>3, <2>4
<1>14. registry'[s].aid = aid /\ registry'[s].sd = None
  BY <1>4
<1> HIDE DEF linked, new
<1> QED BY <1>2, <1>4, <1>5, <1>11, <1>12, <1>13, <1>14

\* ---- The safety invariants ----
ContentInv == UniqueAids /\ OwnerExists /\ LinkedIsReachable

LEMMA ContentInitInv == ContentInit => ContentInv
<1> SUFFICES ASSUME ContentInit PROVE ContentInv
  OBVIOUS
<1>1. UniqueAids
  BY DEF ContentInit, UniqueAids, HasAid
<1>2. \A s \in Slots : registry[s] # None =>
         /\ registry[s].sd # None => sds[registry[s].sd] # None
         /\ ~registry[s].linked
  BY DEF ContentInit
<1>3. OwnerExists /\ LinkedIsReachable
  BY <1>2 DEF OwnerExists, LinkedIsReachable
<1> QED BY <1>1, <1>3 DEF ContentInv

LEMMA MoveAppletInv ==
    ASSUME ContentTypeOK, ContentInv, NEW s \in Slots, registry[s] # None,
           NEW lc \in Lifecycle, MoveApplet(s, lc), UNCHANGED moved
    PROVE  ContentInv'
<1>1. UniqueAids'
  BY MoveAppletKeeps DEF ContentInv, UniqueAids
<1>2. OwnerExists'
  BY MoveAppletKeeps DEF ContentInv, OwnerExists
<1>3. LinkedIsReachable'
  BY MoveAppletKeeps DEF ContentInv, LinkedIsReachable
<1> QED BY <1>1, <1>2, <1>3 DEF ContentInv

LEMMA InstallInv ==
    ASSUME ContentTypeOK, ContentInv, NEW aid \in Aids, NEW lf \in FileAids \cup {None},
           NEW b \in BOOLEAN, install(aid, lf, b),
           UNCHANGED moved
    PROVE  ContentInv'
<1>1. PICK s \in Slots :
         /\ registry[s] = None /\ registry'[s] # None
         /\ registry'[s].aid = aid /\ registry'[s].sd = None
         /\ \A t \in Slots : t # s => registry'[t] = registry[t]
         /\ \A f \in FileSlots : (files'[f] = None) <=> (files[f] = None)
         /\ \A f \in FileSlots : files[f] # None =>
               /\ files'[f].aid = files[f].aid
               /\ \A i \in DOMAIN files[f].instances :
                     /\ i \in DOMAIN files'[f].instances
                     /\ files'[f].instances[i] = files[f].instances[i]
         /\ registry'[s].linked =>
               \E f \in FileSlots :
                  /\ files'[f] # None /\ files'[f].aid = registry'[s].lf
                  /\ \E i \in DOMAIN files'[f].instances : files'[f].instances[i] = s
  BY InstallEffect
<1>2. \A t \in Slots : registry[t] # None => registry[t].aid # aid
  BY DEF install, HasAid
<1>3. UniqueAids'
  BY <1>1, <1>2 DEF ContentInv, UniqueAids
<1>4. OwnerExists'
  <2>1. sds' = sds
    BY DEF install
  <2> QED BY <1>1, <2>1 DEF ContentInv, OwnerExists
<1>5. LinkedIsReachable'
  <2> SUFFICES ASSUME "registry" \notin moved', NEW t \in Slots, registry'[t] # None,
                      registry'[t].linked
               PROVE  \E f \in FileSlots :
                         /\ files'[f] # None /\ files'[f].aid = registry'[t].lf
                         /\ \E i \in DOMAIN files'[f].instances : files'[f].instances[i] = t
    BY DEF LinkedIsReachable
  <2>1. CASE t = s
    BY <1>1, <2>1
  <2>2. CASE t # s
    <3>1. registry'[t] = registry[t]
      BY <1>1, <2>2
    <3>2. PICK f \in FileSlots :
             /\ files[f] # None /\ files[f].aid = registry[t].lf
             /\ \E i \in DOMAIN files[f].instances : files[f].instances[i] = t
      BY <3>1 DEF ContentInv, LinkedIsReachable
    <3>3. files'[f] # None /\ files'[f].aid = registry'[t].lf
      BY <1>1, <3>1, <3>2
    <3>4. \E i \in DOMAIN files'[f].instances : files'[f].instances[i] = t
      BY <1>1, <3>2
    <3> QED BY <3>3, <3>4
  <2> QED BY <2>1, <2>2
<1> QED BY <1>3, <1>4, <1>5 DEF ContentInv

LEMMA CascadeInv ==
    ASSUME ContentTypeOK, ContentInv, NEW lf \in FileAids, delete_cascade(lf),
           UNCHANGED moved
    PROVE  ContentInv'
<1>1. PICK f \in FileSlots :
         /\ registry' = [s \in Slots |->
               IF \E i \in DOMAIN files[f].instances : files[f].instances[i] = s
               THEN None ELSE registry[s]]
         /\ files' = [files EXCEPT ![f] = None]
         /\ UNCHANGED <<card, sds>>
  BY DEF delete_cascade
<1>2. \A s \in Slots : registry'[s] # None =>
         /\ registry'[s] = registry[s]
         /\ ~\E i \in DOMAIN files[f].instances : files[f].instances[i] = s
  BY <1>1
<1>3. \A g \in FileSlots : files'[g] = IF g = f THEN None ELSE files[g]
  BY <1>1 DEF ContentTypeOK
<1>4. UniqueAids'
  BY <1>2, <1>3 DEF ContentInv, UniqueAids
<1>5. OwnerExists'
  BY <1>1, <1>2 DEF ContentInv, OwnerExists
<1>6. LinkedIsReachable'
  <2> SUFFICES ASSUME "registry" \notin moved', NEW t \in Slots, registry'[t] # None,
                      registry'[t].linked
               PROVE  \E g \in FileSlots :
                         /\ files'[g] # None /\ files'[g].aid = registry'[t].lf
                         /\ \E i \in DOMAIN files'[g].instances : files'[g].instances[i] = t
    BY DEF LinkedIsReachable
  <2>1. registry'[t] = registry[t]
    BY <1>2
  <2>2. PICK g \in FileSlots :
           /\ files[g] # None /\ files[g].aid = registry[t].lf
           /\ \E i \in DOMAIN files[g].instances : files[g].instances[i] = t
    BY <2>1 DEF ContentInv, LinkedIsReachable
  <2>3. g # f
    BY <1>2, <2>2
  <2>4. files'[g] = files[g]
    BY <1>3, <2>3
  <2> QED BY <2>1, <2>2, <2>4
<1> QED BY <1>4, <1>5, <1>6 DEF ContentInv

\* A restored snapshot keeps them: AIDs stay unique because no two entries come
\* to one slot; owners and instance lists stay right as long as the table they
\* refer to comes back as it was.
LEMMA RestoreInv ==
    ASSUME ContentTypeOK, ContentInv, RestoreContent PROVE ContentInv'
<1>1. Slots = 0 .. MaxApplets - 1 /\ FileSlots = 0 .. MaxLoadFiles - 1 /\ SdSlots = 0 .. MaxSds - 1
      /\ MaxApplets \in Nat /\ MaxLoadFiles \in Nat /\ MaxSds \in Nat
  BY SizesAssumption DEF Slots, FileSlots, SdSlots
<1>2. \A i \in Slots : registry'[i] # None =>
         \E s \in Slots : /\ registry[s] # None /\ registry'[i] = registry[s]
                          /\ i = RankIn(OccIn(registry, Slots), s)
  BY <1>1, PackSource DEF RestoreContent
<1>3. \A i \in FileSlots : files'[i] # None =>
         \E f \in FileSlots : /\ files[f] # None /\ files'[i] = files[f]
                              /\ i = RankIn(OccIn(files, FileSlots), f)
  BY <1>1, PackSource DEF RestoreContent
<1>4. UniqueAids'
  <2>1. ASSUME NEW i \in Slots, NEW j \in Slots, registry'[i] # None, registry'[j] # None,
               registry'[i].aid = registry'[j].aid
        PROVE  i = j
    <3>1. PICK s \in Slots : registry[s] # None /\ registry'[i] = registry[s]
                              /\ i = RankIn(OccIn(registry, Slots), s)
      BY <1>2, <2>1
    <3>2. PICK t \in Slots : registry[t] # None /\ registry'[j] = registry[t]
                              /\ j = RankIn(OccIn(registry, Slots), t)
      BY <1>2, <2>1
    <3>3. s = t BY <2>1, <3>1, <3>2 DEF ContentInv, UniqueAids
    <3> QED BY <3>1, <3>2, <3>3
  <2>2. ASSUME NEW i \in FileSlots, NEW j \in FileSlots, files'[i] # None, files'[j] # None,
               files'[i].aid = files'[j].aid
        PROVE  i = j
    <3>1. PICK f \in FileSlots : files[f] # None /\ files'[i] = files[f]
                                  /\ i = RankIn(OccIn(files, FileSlots), f)
      BY <1>3, <2>2
    <3>2. PICK g \in FileSlots : files[g] # None /\ files'[j] = files[g]
                                  /\ j = RankIn(OccIn(files, FileSlots), g)
      BY <1>3, <2>2
    <3>3. f = g BY <2>2, <3>1, <3>2 DEF ContentInv, UniqueAids
    <3> QED BY <3>1, <3>2, <3>3
  <2> QED BY <2>1, <2>2 DEF UniqueAids
<1>5. OwnerExists'
  <2> SUFFICES ASSUME "sds" \notin moved', NEW i \in Slots, registry'[i] # None,
                      registry'[i].sd # None
               PROVE  sds'[registry'[i].sd] # None
    BY DEF OwnerExists
  <2>1. "sds" \notin moved /\ Packed(sds, SdSlots) BY DEF RestoreContent, NowMoved
  <2>2. sds' = sds
    <3>1. sds = [d \in SdSlots |-> sds[d]] BY DEF ContentTypeOK
    <3> QED BY <1>1, <2>1, <3>1, PackPacked DEF RestoreContent
  <2>3. PICK s \in Slots : registry[s] # None /\ registry'[i] = registry[s]
    BY <1>2
  <2> QED BY <2>1, <2>2, <2>3 DEF ContentInv, OwnerExists
<1>6. LinkedIsReachable'
  <2> SUFFICES ASSUME "registry" \notin moved', NEW t \in Slots, registry'[t] # None,
                      registry'[t].linked
               PROVE  \E g \in FileSlots :
                         /\ files'[g] # None /\ files'[g].aid = registry'[t].lf
                         /\ \E i \in DOMAIN files'[g].instances : files'[g].instances[i] = t
    BY DEF LinkedIsReachable
  <2>1. "registry" \notin moved /\ Packed(registry, Slots) BY DEF RestoreContent, NowMoved
  <2>2. registry' = registry
    <3>1. registry = [s \in Slots |-> registry[s]] BY DEF ContentTypeOK
    <3> QED BY <1>1, <2>1, <3>1, PackPacked DEF RestoreContent
  <2>3. PICK f \in FileSlots :
           /\ files[f] # None /\ files[f].aid = registry[t].lf
           /\ \E i \in DOMAIN files[f].instances : files[f].instances[i] = t
    BY <2>1, <2>2 DEF ContentInv, LinkedIsReachable
  <2>4. PICK g \in FileSlots : files'[g] = files[f]
    <3>1. Entries(Pack(files, FileSlots), FileSlots) = Entries(files, FileSlots)
      BY <1>1, PackEntries
    <3>2. files[f] \in Entries(files', FileSlots)
      BY <2>3, <3>1 DEF Entries, RestoreContent
    <3> QED BY <3>2 DEF Entries
  <2> QED BY <2>2, <2>3, <2>4
<1> QED BY <1>4, <1>5, <1>6 DEF ContentInv

\* Every command keeps the three invariants, given the types.
LEMMA ContentCommandInv ==
    ASSUME ContentTypeOK, ContentInv, ContentCommand, UNCHANGED moved PROVE ContentInv'
<1>1. ASSUME NEW to \in CardStates, set_status_card(to) PROVE ContentInv'
  BY <1>1 DEF set_status_card, ContentInv, UniqueAids, OwnerExists, LinkedIsReachable
<1>2. ASSUME NEW aid \in Aids, NEW lc \in Lifecycle, set_status_applet(aid, lc)
      PROVE  ContentInv'
  BY <1>2, MoveAppletInv DEF set_status_applet, HasAid
<1>3. ASSUME NEW aid \in Aids, install_make_selectable(aid) PROVE ContentInv'
  <2>1. Unlocked(7) \in Lifecycle
    BY LevelsAssumption DEF Unlocked, Lifecycle
  <2> QED BY <1>2, <1>3, <2>1 DEF install_make_selectable
<1>4. ASSUME NEW lf \in FileAids, install_for_load(lf) PROVE ContentInv'
  <2>1. PICK f \in FirstEmpty(files, FileSlots) :
           files' = [files EXCEPT ![f] = [aid |-> lf, instances |-> <<>>]]
    BY <1>4 DEF install_for_load
  <2>2. f \in FileSlots /\ files[f] = None
    BY DEF FirstEmpty
  <2>3. /\ UNCHANGED <<card, registry, sds>>
        /\ \A g \in FileSlots : files[g] # None => files[g].aid # lf
    BY <1>4 DEF install_for_load, HasFile
  <2>4. files'[f].aid = lf /\ \A g \in FileSlots : g # f => files'[g] = files[g]
    BY <2>1, <2>2 DEF ContentTypeOK
  <2>5. UniqueAids'
    BY <2>2, <2>3, <2>4 DEF ContentInv, UniqueAids
  <2>6. OwnerExists'
    BY <2>3 DEF ContentInv, OwnerExists
  <2>7. LinkedIsReachable'
    BY <2>2, <2>3, <2>4 DEF ContentInv, LinkedIsReachable
  <2> QED BY <2>5, <2>6, <2>7 DEF ContentInv
<1>5. ASSUME NEW aid \in Aids, NEW lf \in FileAids \cup {None}, NEW b \in BOOLEAN,
             install(aid, lf, b)
      PROVE  ContentInv'
  BY <1>5, InstallInv
<1>6. ASSUME NEW lf \in FileAids, delete_cascade(lf) PROVE ContentInv'
  BY <1>6, CascadeInv
<1>7. ASSUME NEW aid \in SdAids, delete_sd(aid) PROVE ContentInv'
  <2>1. PICK d \in SdSlots :
           /\ \A s \in Occupied : registry[s].sd # d
           /\ sds' = [sds EXCEPT ![d] = None]
           /\ UNCHANGED <<card, registry, files>>
    BY <1>7 DEF delete_sd
  <2>2. \A c \in SdSlots : c # d => sds'[c] = sds[c]
    BY <2>1 DEF ContentTypeOK
  <2>3. \A s \in Slots : registry[s] # None /\ registry[s].sd # None =>
           registry[s].sd \in SdSlots /\ registry[s].sd # d
    BY <2>1 DEF ContentTypeOK, Entry, Occupied
  <2>4. OwnerExists'
    BY <2>1, <2>2, <2>3 DEF ContentInv, OwnerExists
  <2>5. UniqueAids' /\ LinkedIsReachable'
    BY <2>1 DEF ContentInv, UniqueAids, LinkedIsReachable
  <2> QED BY <2>4, <2>5 DEF ContentInv
<1>8. ASSUME NEW aid \in Aids, delete_applet(aid) PROVE ContentInv'
  <2>1. PICK s \in Slots : registry' = [registry EXCEPT ![s] = None]
    BY <1>8 DEF delete_applet
  <2>2. UNCHANGED <<card, files, sds>>
    BY <1>8 DEF delete_applet
  <2>3. \A t \in Slots : registry'[t] # None => registry'[t] = registry[t]
    BY <2>1 DEF ContentTypeOK
  <2> QED BY <2>2, <2>3 DEF ContentInv, UniqueAids, OwnerExists, LinkedIsReachable
<1> QED BY <1>8, <1>1, <1>2, <1>3, <1>4, <1>5, <1>6, <1>7 DEF ContentCommand

LEMMA ContentStepInv ==
    ContentTypeOK /\ ContentInv /\ [ContentNext]_contentVars => ContentInv'
<1>1. ASSUME ContentInv, UNCHANGED contentVars PROVE ContentInv'
  BY <1>1 DEF contentVars, ContentInv, UniqueAids, OwnerExists, LinkedIsReachable
<1> QED BY <1>1, ContentCommandInv, RestoreInv DEF ContentNext

\* INSTALL, DELETE and a restored snapshot never leave two registry slots, or two
\* load files, with the same AID.
THEOREM UniqueAidsCorrect == ContentSpec => []UniqueAids
<1>1. ContentInv => UniqueAids
  BY DEF ContentInv
<1> QED BY <1>1, ContentInitInv, ContentStepInv, ContentTypeCorrect, PTL DEF ContentSpec

\* The SD guard of DELETE is enough: an applet's security domain outlives it,
\* through every command and every snapshot that does not move a domain.
THEOREM OwnerExistsCorrect == ContentSpec => []OwnerExists
<1>1. ContentInv => OwnerExists
  BY DEF ContentInv
<1> QED BY <1>1, ContentInitInv, ContentStepInv, ContentTypeCorrect, PTL DEF ContentSpec

\* An applet that its load file had room to list stays within reach of the
\* cascading DELETE of that file, through every command and every snapshot that
\* does not move an applet.
THEOREM LinkedIsReachableCorrect == ContentSpec => []LinkedIsReachable
<1>1. ContentInv => LinkedIsReachable
  BY DEF ContentInv
<1> QED BY <1>1, ContentInitInv, ContentStepInv, ContentTypeCorrect, PTL DEF ContentSpec

\* ---- The logical channels ----
\* The invariant of the channels is inductive together with the content's
\* types, which a restored snapshot keeps.
ChannelInv == ContentTypeOK /\ ChannelTypeOK

\* The AID search finds selectable applets only.
LEMMA FoundIsSelectable ==
    ASSUME NEW req
    PROVE  find_by_aid(req) \subseteq Selectable
           /\ \A start : find_by_aid_after(req, start) \subseteq Selectable
BY DEF find_by_aid, find_by_aid_after, Lowest

LEMMA SelectableEntry ==
    ASSUME ContentTypeOK, NEW s \in Selectable PROVE s \in Slots /\ registry[s].aid \in Aids
BY DEF ContentTypeOK, Selectable, Entry

\* SELECT, in both forms: the channel was open and comes to hold what the
\* search found, or the issuer security domain.
Selected(c, s, aid) ==
    \/ s = None /\ aid = None
    \/ s \in Selectable /\ aid = registry[s].aid

LEMMA SelectStep ==
    ASSUME NEW c \in Channels, NEW req, select_first(c, req) \/ select_next(c, req)
    PROVE  \E s, aid : Selected(c, s, aid) /\ SetSelected(c, s, aid)
<1>1. CASE select_first(c, req)
  <2>1. CASE PrefixOf(req, IsdAid) BY <1>1, <2>1 DEF select_first, Selected
  <2>2. CASE ~PrefixOf(req, IsdAid)
    <3>1. PICK s \in find_by_aid(req) : SetSelected(c, s, registry[s].aid)
      BY <1>1, <2>2 DEF select_first
    <3>2. s \in Selectable BY FoundIsSelectable
    <3> QED BY <3>1, <3>2 DEF Selected
  <2> QED BY <2>1, <2>2
<1>2. CASE select_next(c, req)
  <2> DEFINE start == IF channels[c].selected = None THEN 0 ELSE channels[c].selected
  <2>1. PICK s \in find_by_aid_after(req, start) : SetSelected(c, s, registry[s].aid)
    BY <1>2 DEF select_next
  <2>2. s \in Selectable BY FoundIsSelectable
  <2> QED BY <2>1, <2>2 DEF Selected
<1> QED BY <1>1, <1>2

\* MANAGE CHANNEL sets a supplementary channel to one of two states.
LEMMA ManageStep ==
    ASSUME NEW p2 \in Channels, manage_channel_open(p2) \/ manage_channel_close(p2)
    PROVE  \E c \in Channels \ {0}, state \in {open_default, Closed} : SetChannel(c, state)
<1>1. CASE manage_channel_open(p2) BY <1>1 DEF manage_channel_open, Lowest
<1>2. CASE manage_channel_close(p2) BY <1>2 DEF manage_channel_close
<1> QED BY <1>1, <1>2

LEMMA ChannelStepInv == ChannelInv /\ [ChannelsNext]_allVars => ChannelInv'
<1> SUFFICES ASSUME ChannelInv, [ChannelsNext]_allVars PROVE ChannelInv'
  OBVIOUS
<1> USE DEF ChannelInv
<1>1. ASSUME UNCHANGED channelVars PROVE ChannelTypeOK'
  BY <1>1 DEF ChannelTypeOK, channelVars, Channels, Slots
<1>2. ASSUME UNCHANGED contentVars PROVE ContentTypeOK'
  BY <1>2 DEF ContentTypeOK, contentVars
<1>3. ASSUME NEW c \in Channels, NEW s, NEW aid, Selected(c, s, aid), SetSelected(c, s, aid)
      PROVE  ChannelInv'
  <2>1. s \in Slots \cup {None} /\ aid \in Aids \cup {None}
    <3>1. CASE s = None /\ aid = None BY <3>1
    <3>2. CASE s \in Selectable /\ aid = registry[s].aid BY <3>2, SelectableEntry
    <3> QED BY <1>3, <3>1, <3>2 DEF Selected
  <2>2. /\ channels[c].open /\ UNCHANGED contentVars
        /\ channels' = [channels EXCEPT ![c] = [channels[c] EXCEPT !.selected = s]]
        /\ chosen' = [chosen EXCEPT ![c] = aid]
    BY <1>3 DEF SetSelected
  <2>3. [channels[c] EXCEPT !.selected = s] = [open |-> channels[c].open, selected |-> s]
    <3>1. channels[c] \in [open : BOOLEAN, selected : Slots \cup {None}] BY DEF ChannelTypeOK
    <3> QED BY <3>1
  <2>4. /\ channels' \in [Channels -> [open : BOOLEAN, selected : Slots \cup {None}]]
        /\ chosen' \in [Channels -> Aids \cup {None}]
    BY <2>1, <2>2, <2>3 DEF ChannelTypeOK
  <2>5. \A d \in Channels : channels'[d] = IF d = c
           THEN [open |-> channels[c].open, selected |-> s] ELSE channels[d]
    BY <2>2, <2>3 DEF ChannelTypeOK
  <2>6. 0 \in Channels BY ChannelsAssumption DEF Channels
  <2>7. \A d \in Channels : ~channels'[d].open => channels'[d].selected = None
    BY <2>2, <2>5 DEF ChannelTypeOK
  <2>8. channels'[0].open BY <2>2, <2>5, <2>6 DEF ChannelTypeOK
  <2>9. ChannelTypeOK' BY <2>4, <2>7, <2>8 DEF ChannelTypeOK
  <2> QED BY <1>2, <2>2, <2>9
<1>4. ASSUME NEW c \in Channels \ {0}, NEW state \in {open_default, Closed}, SetChannel(c, state)
      PROVE  ChannelInv'
  <2>1. UNCHANGED contentVars BY <1>4 DEF SetChannel
  <2>2. /\ state \in [open : BOOLEAN, selected : Slots \cup {None}]
        /\ state.selected = None
    <3>1. CASE state = open_default BY <3>1 DEF open_default
    <3>2. CASE state = Closed BY <3>2 DEF Closed
    <3> QED BY <3>1, <3>2
  <2>3. channels' = [channels EXCEPT ![c] = state] /\ chosen' = [chosen EXCEPT ![c] = None]
    BY <1>4 DEF SetChannel
  <2>4. 0 \in Channels /\ c # 0 BY ChannelsAssumption DEF Channels
  <2>5. ChannelTypeOK' BY <2>2, <2>3, <2>4 DEF ChannelTypeOK
  <2> QED BY <1>2, <2>1, <2>5
<1>5. CASE ContentCommand /\ UNCHANGED <<moved, channelVars>>
  BY <1>1, <1>5, ContentCommandType DEF channelVars
<1>6. CASE gp_open_restore_state BY <1>1, <1>6, RestoreType DEF gp_open_restore_state
<1>7. CASE \E c \in Channels, req \in Requests : select_first(c, req) \/ select_next(c, req)
  BY <1>3, <1>7, SelectStep
<1>8. CASE \E p2 \in Channels : manage_channel_open(p2) \/ manage_channel_close(p2)
  BY <1>4, <1>8, ManageStep
<1>9. CASE UNCHANGED allVars BY <1>1, <1>2, <1>9 DEF allVars
<1> QED BY <1>5, <1>6, <1>7, <1>8, <1>9 DEF ChannelsNext

\* The types of the channels, the basic channel open and no closed channel with
\* a selected applet, for any number of channels and tables of any size.
THEOREM ChannelTypeCorrect == ChannelsSpec => [](ContentTypeOK /\ ChannelTypeOK)
<1>1. ChannelsInit => ChannelInv
  <2> SUFFICES ASSUME ChannelsInit PROVE ChannelInv
    OBVIOUS
  <2>1. 0 \in Channels BY ChannelsAssumption DEF Channels
  <2>2. ContentTypeOK BY ContentInitType DEF ChannelsInit
  <2>3. ChannelTypeOK BY <2>1 DEF ChannelsInit, ChannelTypeOK, open_default, Closed
  <2> QED BY <2>2, <2>3 DEF ChannelInv
<1> QED BY <1>1, ChannelStepInv, PTL DEF ChannelsSpec, ChannelInv

\* SELECT comes to a selectable applet or to the issuer security domain, and
\* nothing else moves a channel to another applet: a snapshot is restored with
\* the indices as they were.
THEOREM SelectsSelectableCorrect == ChannelsSpec => SelectsSelectable
<1> DEFINE A == \A c \in Channels :
              channels'[c].selected \notin {None, channels[c].selected}
              => channels'[c].selected \in Selectable
<1>1. ASSUME ChannelInv, ChannelsNext PROVE A
  <2>1. ASSUME UNCHANGED channelVars PROVE A BY <2>1 DEF channelVars
  <2>2. ASSUME NEW c \in Channels, NEW s, NEW aid, Selected(c, s, aid), SetSelected(c, s, aid)
        PROVE  A
    <3>1. \A d \in Channels : channels'[d].selected = IF d = c THEN s ELSE channels[d].selected
      BY <1>1, <2>2 DEF SetSelected, ChannelInv, ChannelTypeOK
    <3> QED BY <2>2, <3>1 DEF Selected
  <2>3. ASSUME NEW c \in Channels \ {0}, NEW state \in {open_default, Closed}, SetChannel(c, state)
        PROVE  A
    <3>1. state.selected = None BY DEF open_default, Closed
    <3>2. \A d \in Channels : channels'[d].selected = IF d = c THEN None ELSE channels[d].selected
      BY <1>1, <2>3, <3>1 DEF SetChannel, ChannelInv, ChannelTypeOK
    <3> QED BY <3>2
  <2> HIDE DEF A
  <2>4. CASE \E c \in Channels, req \in Requests : select_first(c, req) \/ select_next(c, req)
    BY <2>2, <2>4, SelectStep
  <2>5. CASE \E p2 \in Channels : manage_channel_open(p2) \/ manage_channel_close(p2)
    BY <2>3, <2>5, ManageStep
  <2> QED BY <1>1, <2>1, <2>4, <2>5 DEF ChannelsNext, gp_open_restore_state
<1>2. ChannelInv /\ [ChannelsNext]_allVars => [A]_allVars
  BY <1>1
<1> QED BY <1>2, ChannelTypeCorrect, PTL DEF ChannelsSpec, SelectsSelectable, ChannelInv

\* Every slot that the search finds for the exact AID of a selectable applet
\* holds that AID, so that is what the channel comes to hold.
THEOREM ExactAidWinsCorrect == ChannelsSpec => ExactAidWins
<1> DEFINE A == \A c \in Channels, req \in Requests :
              /\ select_first(c, req)
              /\ ~PrefixOf(req, IsdAid)
              /\ \E s \in Selectable : registry[s].aid = req
              => chosen'[c] = req
<1>1. ASSUME ChannelInv PROVE A
  <2> SUFFICES ASSUME NEW c \in Channels, NEW req \in Requests, select_first(c, req),
                      ~PrefixOf(req, IsdAid), \E s \in Selectable : registry[s].aid = req
               PROVE  chosen'[c] = req
    OBVIOUS
  <2>1. PICK s \in find_by_aid(req) : SetSelected(c, s, registry[s].aid)
    BY DEF select_first
  <2>2. registry[s].aid = req
    BY DEF find_by_aid, Lowest
  <2>3. chosen' = [chosen EXCEPT ![c] = req] BY <2>1, <2>2 DEF SetSelected
  <2> QED BY <1>1, <2>3 DEF ChannelInv, ChannelTypeOK
<1>2. ChannelInv => [A]_allVars
  BY <1>1
<1> QED BY <1>2, ChannelTypeCorrect, PTL DEF ExactAidWins, ChannelInv

\* The round trip through a snapshot loses no entry of a table of any size and
\* invents none, and leaves a registry without gaps as it is.
THEOREM RestoreKeepsContentCorrect == ChannelsSpec => RestoreKeepsContent
<1> DEFINE A == gp_open_restore_state =>
              /\ Entries(registry, Slots)' = Entries(registry, Slots)
              /\ Entries(files, FileSlots)' = Entries(files, FileSlots)
              /\ Entries(sds, SdSlots)' = Entries(sds, SdSlots)
              /\ Packed(registry, Slots) => registry' = registry
<1>1. ASSUME ChannelInv PROVE A
  <2> SUFFICES ASSUME gp_open_restore_state PROVE A
    OBVIOUS
  <2>1. /\ registry' = Pack(registry, Slots)
        /\ files' = Pack(files, FileSlots)
        /\ sds' = Pack(sds, SdSlots)
    BY DEF gp_open_restore_state, RestoreContent
  <2>2. Entries(Pack(registry, Slots), Slots) = Entries(registry, Slots)
    <3>1. MaxApplets \in Nat /\ Slots = 0 .. MaxApplets - 1 BY SizesAssumption DEF Slots
    <3> QED BY <3>1, PackEntries
  <2>3. Entries(Pack(files, FileSlots), FileSlots) = Entries(files, FileSlots)
    <3>1. MaxLoadFiles \in Nat /\ FileSlots = 0 .. MaxLoadFiles - 1 BY SizesAssumption DEF FileSlots
    <3> QED BY <3>1, PackEntries
  <2>4. Entries(Pack(sds, SdSlots), SdSlots) = Entries(sds, SdSlots)
    <3>1. MaxSds \in Nat /\ SdSlots = 0 .. MaxSds - 1 BY SizesAssumption DEF SdSlots
    <3> QED BY <3>1, PackEntries
  <2>5. Packed(registry, Slots) => Pack(registry, Slots) = registry
    <3>1. registry = [s \in Slots |-> registry[s]]
      BY <1>1 DEF ChannelInv, ContentTypeOK
    <3> QED BY <3>1, PackPacked, SizesAssumption DEF Slots
  <2>6. /\ Entries(registry, Slots)' = Entries(registry', Slots)
        /\ Entries(files, FileSlots)' = Entries(files', FileSlots)
        /\ Entries(sds, SdSlots)' = Entries(sds', SdSlots)
    BY DEF Entries, Slots, FileSlots, SdSlots
  <2> QED BY <2>6, <2>1, <2>5, <2>2, <2>3, <2>4
<1>2. ChannelInv => [A]_allVars
  BY <1>1
<1> QED BY <1>2, ChannelTypeCorrect, PTL DEF RestoreKeepsContent, ChannelInv

\* ---- Sessions ----
BlockNumbers == 0 .. BlockMod - 1

\* next_block.wrapping_add(1) stays a block number.
LEMMA WrapType == \A n \in BlockNumbers : (n + 1) % BlockMod \in BlockNumbers
BY SessionAssumption DEF BlockNumbers

LEMMA IdleType ==
    IdleChain \in [blocks : Seq(BlockNumbers), len : 0 .. Capacity,
                   next : BlockNumbers, in_progress : BOOLEAN]
BY SessionAssumption DEF IdleChain, BlockNumbers

LEMMA SessionInitType == SessionInit => SessionTypeOK
BY IdleType, StoreAssumption
DEF SessionInit, SessionTypeOK, BlockNumbers, KeyEntry, KeySlots

\* put_key writes a whole entry into a slot of the store.
LEMMA PutKeyType ==
    ASSUME SessionTypeOK, NEW v \in Kvns, NEW k \in KeySets, put_key(v, k)
    PROVE  /\ key_store' \in [KeySlots -> KeyEntry \cup {None}]
           /\ newest' \in [Kvns -> KeySets \cup {None}]
BY DEF SessionTypeOK, put_key, KeyEntry

\* The block that store_data_block takes keeps the type of the chain.
LEMMA AcceptType ==
    ASSUME SessionTypeOK, NEW p2 \in BlockNumbers, NEW size \in Sizes,
           store_data_accepted(p2, size)
    PROVE  chain' \in [blocks : Seq(BlockNumbers), len : 0 .. Capacity,
                       next : BlockNumbers, in_progress : BOOLEAN]
<1>1. /\ chain.blocks \in Seq(BlockNumbers) /\ chain.len \in 0 .. Capacity
      /\ chain.next \in BlockNumbers
  BY DEF SessionTypeOK, BlockNumbers
<1>2. Append(chain.blocks, p2) \in Seq(BlockNumbers)
  BY <1>1
<1>3. chain.len + size \in 0 .. Capacity
  BY <1>1, SessionAssumption DEF store_data_accepted, Fits
<1>4. (chain.next + 1) % BlockMod \in BlockNumbers
  BY <1>1, WrapType
<1> QED BY <1>2, <1>3, <1>4 DEF store_data_accepted

\* Every event of the card keeps the types.
LEMMA SessionStepType == SessionTypeOK /\ [SessionNext]_sessionAllVars => SessionTypeOK'
<1> SUFFICES ASSUME SessionTypeOK, [SessionNext]_sessionAllVars PROVE SessionTypeOK'
  OBVIOUS
<1> USE IdleType DEF SessionTypeOK, BlockNumbers, storeVars
<1>1. CASE power_on
  BY <1>1 DEF power_on
<1>2. CASE reset
  BY <1>2 DEF reset, reset_scp_state
<1>3. CASE power_off
  BY <1>3 DEF power_off
<1>4. CASE initialize_update
  BY <1>4 DEF initialize_update
<1>5. CASE external_authenticate
  BY <1>5 DEF external_authenticate
<1>6. CASE content_command
  BY <1>6 DEF content_command, sessionVars
<1>7. ASSUME NEW aid \in Aids, install_for_personalization(aid) PROVE SessionTypeOK'
  BY <1>7 DEF install_for_personalization
<1>8. ASSUME NEW p2 \in BlockNumbers, NEW size \in Sizes, store_data_refused(p2, size)
      PROVE  SessionTypeOK'
  BY <1>8 DEF store_data_refused
<1>9. ASSUME NEW p2 \in BlockNumbers, NEW size \in Sizes, store_data_accepted(p2, size)
      PROVE  SessionTypeOK'
  BY <1>9, AcceptType DEF store_data_accepted
<1>10. ASSUME NEW p2 \in BlockNumbers, NEW size \in Sizes, store_data_complete(p2, size)
       PROVE  SessionTypeOK'
  BY <1>10 DEF store_data_complete
<1>11. CASE restore_state
  BY <1>11 DEF restore_state
<1>12. ASSUME NEW size \in Sizes, NEW last \in BOOLEAN, load(size, last)
       PROVE  SessionTypeOK'
  BY <1>12, SessionAssumption, StoreAssumption DEF load, sessionVars
<1>13. ASSUME NEW v \in Kvns, NEW k \in KeySets, put_key(v, k)
       PROVE  SessionTypeOK'
  BY <1>13, PutKeyType DEF put_key, sessionVars
<1>14. CASE UNCHANGED sessionAllVars
  BY <1>14 DEF sessionAllVars, sessionVars
<1> QED BY <1>1, <1>2, <1>3, <1>4, <1>5, <1>6, <1>7, <1>8, <1>9, <1>10, <1>11, <1>12, <1>13,
           <1>14
        DEF SessionNext

\* The STORE DATA buffer never overflows and every field keeps its type.
THEOREM SessionTypeCorrect == SessionSpec => []SessionTypeOK
BY SessionInitType, SessionStepType, PTL DEF SessionSpec

\* ---- The STORE DATA chain ----
LEMMA IdleContiguous == chain' = IdleChain => ChainContiguous'
BY DEF ChainContiguous, IdleChain

\* A block is only taken if it is the next of the chain.
LEMMA AcceptContiguous ==
    ASSUME SessionTypeOK, ChainContiguous, NEW p2 \in BlockNumbers, NEW size \in Sizes,
           store_data_accepted(p2, size)
    PROVE  ChainContiguous'
<1> DEFINE b == chain.blocks
<1>1. b \in Seq(BlockNumbers) /\ Len(b) \in Nat
  BY DEF SessionTypeOK, BlockNumbers
<1>2. /\ chain'.blocks = Append(b, p2) /\ chain'.in_progress
      /\ chain'.next = (chain.next + 1) % BlockMod
  BY DEF store_data_accepted
<1>3. /\ Len(Append(b, p2)) = Len(b) + 1
      /\ Append(b, p2)[Len(b) + 1] = p2
      /\ \A i \in 1 .. Len(b) : Append(b, p2)[i] = b[i]
  BY <1>1
<1>4. Append(b, p2) # <<>>
  BY <1>1, <1>3
<1>5. CASE chain.in_progress
  <2>1. /\ b # <<>> /\ b[1] = 0
        /\ \A i \in 2 .. Len(b) : b[i] = (b[i - 1] + 1) % BlockMod
        /\ chain.next = (b[Len(b)] + 1) % BlockMod
    BY <1>5 DEF ChainContiguous
  <2>2. p2 = chain.next
    BY <1>5 DEF store_data_accepted, Expected
  <2>3. Len(b) >= 1
    BY <1>1, <2>1
  <2>4. Append(b, p2)[1] = 0
    BY <1>3, <2>1, <2>3
  <2>5. ASSUME NEW i \in 2 .. Len(b) + 1
        PROVE  Append(b, p2)[i] = (Append(b, p2)[i - 1] + 1) % BlockMod
    <3>1. i - 1 \in 1 .. Len(b)
      BY <1>1
    <3>2. CASE i \in 2 .. Len(b)
      BY <1>1, <1>3, <2>1, <3>1, <3>2
    <3>3. CASE i = Len(b) + 1
      BY <1>1, <1>3, <2>1, <2>2, <3>1, <3>3
    <3> QED BY <1>1, <3>2, <3>3
  <2>6. chain'.next = (Append(b, p2)[Len(b) + 1] + 1) % BlockMod
    BY <1>2, <1>3, <2>2
  <2> HIDE DEF b
  <2> QED BY <1>2, <1>3, <1>4, <2>4, <2>5, <2>6 DEF ChainContiguous
<1>6. CASE ~chain.in_progress
  <2>1. b = <<>> /\ chain.next = 0
    BY <1>6 DEF ChainContiguous, IdleChain
  <2>2. p2 = 0
    BY <1>6 DEF store_data_accepted, Expected
  <2>3. Append(b, p2) = <<0>>
    BY <2>1, <2>2
  <2>4. chain'.blocks = <<0>> /\ chain'.next = (0 + 1) % BlockMod
    BY <1>2, <2>1, <2>3
  <2> HIDE DEF b
  <2> QED BY <1>2, <2>4 DEF ChainContiguous
<1> QED BY <1>5, <1>6

LEMMA SessionStepContiguous ==
    SessionTypeOK /\ ChainContiguous /\ [SessionNext]_sessionAllVars => ChainContiguous'
<1> SUFFICES ASSUME SessionTypeOK, ChainContiguous, [SessionNext]_sessionAllVars
             PROVE  ChainContiguous'
  OBVIOUS
<1>1. CASE chain' = chain
  BY <1>1 DEF ChainContiguous
<1>2. CASE chain' = IdleChain
  BY <1>2, IdleContiguous
<1>3. ASSUME NEW p2 \in 0 .. BlockMod - 1, NEW size \in Sizes, store_data_accepted(p2, size)
      PROVE  ChainContiguous'
  BY <1>3, AcceptContiguous DEF BlockNumbers
<1> QED
  BY <1>1, <1>2, <1>3
  DEF SessionNext, sessionAllVars, sessionVars, power_on, power_off, reset, reset_scp_state,
      initialize_update, external_authenticate, content_command,
      install_for_personalization, store_data_refused, store_data_complete, restore_state,
      load, put_key

\* A STORE DATA payload is always the blocks 0, 1, 2, ... of one chain, however
\* often the block number wraps, and an idle chain is empty.
THEOREM ChainContiguousCorrect == SessionSpec => []ChainContiguous
<1>1. SessionInit => ChainContiguous
  BY DEF SessionInit, ChainContiguous, IdleChain
<1> QED BY <1>1, SessionTypeCorrect, SessionStepContiguous, PTL DEF SessionSpec

\* A card without a session has nothing pending: reset_scp_state is the only
\* way to end in NoSession, and it clears both.
THEOREM NothingPendingCorrect == SessionSpec => []NothingPendingWithoutSession
<1>1. SessionInit => NothingPendingWithoutSession
  BY DEF SessionInit, NothingPendingWithoutSession, IdleChain
<1>2. ASSUME NothingPendingWithoutSession, [SessionNext]_sessionAllVars
      PROVE  NothingPendingWithoutSession'
  <2>1. CASE scp' = "no_session" /\ chain' = IdleChain /\ target' = None
    BY <2>1 DEF NothingPendingWithoutSession, IdleChain
  <2>2. CASE scp' # "no_session"
    BY <2>2 DEF NothingPendingWithoutSession
  <2>3. CASE UNCHANGED <<scp, target>> /\ (chain' = chain \/ chain' = IdleChain)
    BY <1>2, <2>3 DEF NothingPendingWithoutSession, IdleChain
  <2>4. Authenticated => scp # "no_session"
    BY DEF Authenticated
  <2>5. CASE reset
    BY <2>1, <2>5 DEF reset, reset_scp_state
  <2>6. CASE initialize_update \/ external_authenticate
    BY <2>2, <2>6 DEF initialize_update, external_authenticate
  <2>7. CASE power_on \/ power_off \/ content_command \/ restore_state
    BY <2>3, <2>7 DEF power_on, power_off, content_command, sessionVars, restore_state
  <2>8. ASSUME Authenticated, scp' = scp PROVE NothingPendingWithoutSession'
    BY <2>2, <2>4, <2>8
  <2>9. ASSUME NEW aid \in Aids, install_for_personalization(aid)
        PROVE  NothingPendingWithoutSession'
    BY <2>8, <2>9 DEF install_for_personalization
  <2>10. ASSUME NEW p2 \in 0 .. BlockMod - 1, NEW size \in Sizes,
                \/ store_data_refused(p2, size)
                \/ store_data_accepted(p2, size)
                \/ store_data_complete(p2, size)
         PROVE  NothingPendingWithoutSession'
    BY <2>8, <2>10 DEF store_data_refused, store_data_accepted, store_data_complete
  <2>11. ASSUME NEW size \in Sizes, NEW last \in BOOLEAN, load(size, last)
         PROVE  NothingPendingWithoutSession'
    BY <2>3, <2>11 DEF load, sessionVars
  <2>12. ASSUME NEW v \in Kvns, NEW k \in KeySets, put_key(v, k)
         PROVE  NothingPendingWithoutSession'
    BY <2>3, <2>12 DEF put_key, sessionVars
  <2>13. CASE UNCHANGED sessionAllVars
    BY <2>3, <2>13 DEF sessionAllVars, sessionVars
  <2> QED BY <1>2, <2>5, <2>6, <2>7, <2>9, <2>10, <2>11, <2>12, <2>13 DEF SessionNext
<1> QED BY <1>1, <1>2, PTL DEF SessionSpec

\* ---- The key store ----
KeyUnique == \A i, j \in KeySlots : key_store[i] # None /\ key_store[j] # None
                                    /\ key_store[i].kvn = key_store[j].kvn => i = j
\* A version has an entry when keys were put under it, and the entry holds them.
KeyMap ==
    /\ \A i \in KeySlots : key_store[i] # None => key_store[i].keys = newest[key_store[i].kvn]
    /\ \A v \in Kvns : newest[v] # None =>
          \E i \in KeySlots : key_store[i] # None /\ key_store[i].kvn = v
FirstKey == key_store[1] # None /\ key_store[1].kvn = 1
KeysInv == KeyUnique /\ KeyMap /\ FirstKey

\* A non-empty set of slots has a first one.
LEMMA SmallestSlot ==
    ASSUME NEW S \in SUBSET KeySlots, S # {}
    PROVE  \E x \in S : \A y \in S : x <= y
<1>1. S \subseteq Nat
  BY StoreAssumption DEF KeySlots
<1>2. PICK x \in S : \A y \in S : ~(<<y, x>> \in OpToRel(<, Nat))
  BY <1>1, NatLessThanWellFounded, WFMin
<1>3. \A y \in S : ~(y < x)
  BY <1>1, <1>2 DEF OpToRel
<1>4. \A y \in S : x <= y
  BY <1>1, <1>3
<1> QED BY <1>4

LEMMA KeySlotsOfOne ==
    ASSUME NEW i \in KeySlots
    PROVE  First({i}) = i
<1>1. \A x : (x \in {i} /\ \A j \in {i} : x <= j) <=> x = i
  BY DEF KeySlots
<1> QED BY <1>1 DEF First

LEMMA FirstOne ==
    ASSUME NEW S \in SUBSET KeySlots, 1 \in S
    PROVE  First(S) = 1
<1>1. S \subseteq Int /\ \A j \in S : 1 <= j
  BY StoreAssumption DEF KeySlots
<1>2. \E x \in S : \A j \in S : x <= j
  BY <1>1
<1>3. First(S) \in S /\ \A j \in S : First(S) <= j
  BY <1>2 DEF First
<1>4. First(S) <= 1 /\ 1 <= First(S) /\ First(S) \in Int
  BY <1>1, <1>3
<1> HIDE DEF First
<1> QED BY <1>4

\* What get_or_default finds in a store that is a map.
LEMMA KeysInvSuffices == SessionTypeOK /\ KeysInv => KeysAreNewest
<1> SUFFICES ASSUME SessionTypeOK, KeysInv PROVE KeysAreNewest
  OBVIOUS
<1>t. /\ key_store \in [KeySlots -> KeyEntry \cup {None}]
      /\ newest \in [Kvns -> KeySets \cup {None}]
      /\ 0 \notin Kvns /\ 1 \in Kvns /\ 1 \in KeySlots
  BY StoreAssumption DEF SessionTypeOK, KeySlots
<1>1. ASSUME NEW v \in Kvns, newest[v] = None
      PROVE  get_or_default(v) = None
  <2>1. KeySlotsOf(v) = {}
    BY <1>1, <1>t, StoreAssumption DEF KeySlotsOf, KeysInv, KeyMap, KeyEntry
  <2> QED BY <2>1 DEF get_or_default
<1>2. ASSUME NEW v \in Kvns, newest[v] # None
      PROVE  get_or_default(v) = [kvn |-> v, keys |-> newest[v]]
  <2>1. PICK i \in KeySlots : key_store[i] # None /\ key_store[i].kvn = v
    BY <1>2 DEF KeysInv, KeyMap
  <2>2. KeySlotsOf(v) = {i}
    BY <2>1, <1>t DEF KeySlotsOf, KeysInv, KeyUnique
  <2>3. key_store[i] \in KeyEntry /\ key_store[i].keys = newest[v]
    BY <2>1, <1>t DEF KeysInv, KeyMap
  <2>4. key_store[i] = [kvn |-> v, keys |-> newest[v]]
    BY <2>1, <2>3 DEF KeyEntry
  <2> QED BY <2>2, <2>4, KeySlotsOfOne DEF get_or_default
<1>3. get_or_default(0) = [kvn |-> 1, keys |-> newest[1]]
  <2>1. 1 \in KeySlotsOf(0) /\ KeySlotsOf(0) \in SUBSET KeySlots
    BY <1>t DEF KeySlotsOf, KeysInv, FirstKey
  <2>2. First(KeySlotsOf(0)) = 1
    BY <2>1, FirstOne
  <2>3. key_store[1] \in KeyEntry /\ key_store[1].keys = newest[1] /\ key_store[1].kvn = 1
    BY <1>t DEF KeysInv, KeyMap, FirstKey
  <2>4. key_store[1] = [kvn |-> 1, keys |-> newest[1]]
    BY <2>3 DEF KeyEntry
  <2> QED BY <2>1, <2>2, <2>4 DEF get_or_default
<1> QED BY <1>1, <1>2, <1>3 DEF KeysAreNewest, KeysInv, KeyUnique

\* PUT KEY keeps the store a map: it overwrites the version's entry, or fills a
\* free slot when there is none.
LEMMA PutKeyMap ==
    ASSUME SessionTypeOK, KeysInv, NEW v \in Kvns, NEW k \in KeySets, put_key(v, k)
    PROVE  KeysInv'
<1> DEFINE S == IF KeySlotsOf(v) # {} THEN KeySlotsOf(v) ELSE FreeKeySlots
           i == First(S)
<1>t. /\ key_store \in [KeySlots -> KeyEntry \cup {None}]
      /\ newest \in [Kvns -> KeySets \cup {None}]
      /\ 0 \notin Kvns /\ 1 \in Kvns /\ 1 \in KeySlots
      /\ None \notin KeyEntry
  BY StoreAssumption DEF SessionTypeOK, KeySlots, KeyEntry
<1>1. /\ key_store' = [key_store EXCEPT ![i] = [kvn |-> v, keys |-> k]]
      /\ newest' = [newest EXCEPT ![v] = k]
      /\ S # {} /\ S \subseteq KeySlots
  BY DEF put_key, KeySlotsOf, FreeKeySlots
<1>2. i \in S
  <2>1. \E x \in S : \A y \in S : x <= y
    BY <1>1, SmallestSlot
  <2> QED BY <2>1 DEF First
<1>3. \A j \in KeySlots : key_store[j] # None /\ key_store[j].kvn = v => j = i
  <2> SUFFICES ASSUME NEW j \in KeySlots, key_store[j] # None, key_store[j].kvn = v
               PROVE  j = i
    OBVIOUS
  <2>1. j \in KeySlotsOf(v)
    BY DEF KeySlotsOf
  <2>2. i \in KeySlotsOf(v)
    BY <2>1, <1>2
  <2>3. key_store[i] # None /\ key_store[i].kvn = v /\ i \in KeySlots
    BY <2>2, <1>t DEF KeySlotsOf
  <2> QED BY <2>3 DEF KeysInv, KeyUnique
<1>4. i \in KeySlots /\ (key_store[i] = None \/ key_store[i].kvn = v)
  BY <1>1, <1>2, <1>t DEF KeySlotsOf, FreeKeySlots
<1> HIDE DEF i, S
<1>5. \A j \in KeySlots : key_store'[j] = IF j = i THEN [kvn |-> v, keys |-> k] ELSE key_store[j]
  BY <1>1, <1>t
<1>6. \A u \in Kvns : newest'[u] = IF u = v THEN k ELSE newest[u]
  BY <1>1, <1>t
<1>7. [kvn |-> v, keys |-> k] # None
  BY <1>t DEF KeyEntry
<1>8. KeyUnique'
  BY <1>3, <1>4, <1>5, <1>7 DEF KeysInv, KeyUnique
<1>9. KeyMap'
  <2>1. ASSUME NEW j \in KeySlots, key_store'[j] # None
        PROVE  key_store'[j].keys = newest'[key_store'[j].kvn]
    <3>1. CASE j = i
      BY <3>1, <1>5, <1>6
    <3>2. CASE j # i
      <4>1. key_store'[j] = key_store[j] /\ key_store[j] \in KeyEntry /\ key_store[j].kvn # v
        BY <3>2, <1>3, <1>5, <1>t, <2>1
      <4>2. key_store[j].kvn \in Kvns /\ key_store[j].keys = newest[key_store[j].kvn]
        BY <4>1, <2>1 DEF KeyEntry, KeysInv, KeyMap
      <4> QED BY <4>1, <4>2, <1>6
    <3> QED BY <3>1, <3>2
  <2>2. ASSUME NEW u \in Kvns, newest'[u] # None
        PROVE  \E j \in KeySlots : key_store'[j] # None /\ key_store'[j].kvn = u
    <3>1. CASE u = v
      BY <3>1, <1>4, <1>5, <1>7
    <3>2. CASE u # v
      <4>1. PICK j \in KeySlots : key_store[j] # None /\ key_store[j].kvn = u
        BY <3>2, <2>2, <1>6 DEF KeysInv, KeyMap
      <4>2. j # i
        BY <4>1, <3>2, <1>4
      <4> QED BY <4>1, <4>2, <1>5
    <3> QED BY <3>1, <3>2
  <2> QED BY <2>1, <2>2 DEF KeyMap
<1>10. FirstKey'
  <2>1. key_store[1] # None /\ key_store[1].kvn = 1
    BY DEF KeysInv, FirstKey
  <2>2. CASE i = 1
    BY <2>1, <2>2, <1>4, <1>5, <1>7, <1>t DEF FirstKey
  <2>3. CASE i # 1
    BY <2>1, <2>3, <1>5, <1>t DEF FirstKey
  <2> QED BY <2>2, <2>3
<1> QED BY <1>8, <1>9, <1>10 DEF KeysInv

\* Under every version INITIALIZE UPDATE finds the keys that PUT KEY last wrote
\* there, for a key store of any size.
THEOREM KeysAreNewestCorrect == SessionSpec => []KeysAreNewest
<1>1. SessionInit => KeysInv
  BY StoreAssumption DEF SessionInit, KeysInv, KeyUnique, KeyMap, FirstKey, KeySlots
<1>2. ASSUME SessionTypeOK, KeysInv, [SessionNext]_sessionAllVars
      PROVE  KeysInv'
  <2>1. CASE UNCHANGED <<key_store, newest>>
    BY <1>2, <2>1 DEF KeysInv, KeyUnique, KeyMap, FirstKey
  <2>2. ASSUME NEW v \in Kvns, NEW k \in KeySets, put_key(v, k)
        PROVE  KeysInv'
    BY <1>2, <2>2, PutKeyMap
  <2> QED
    BY <1>2, <2>1, <2>2
    DEF SessionNext, sessionAllVars, sessionVars, storeVars, power_on, power_off, reset,
        initialize_update, external_authenticate, content_command, install_for_personalization,
        store_data_refused, store_data_accepted, store_data_complete, restore_state, load
<1> QED BY <1>1, <1>2, SessionTypeCorrect, KeysInvSuffices, PTL DEF SessionSpec

\* A step that ends a chain never makes it longer.
LEMMA IdleNotLonger ==
    ASSUME SessionTypeOK, chain' = IdleChain PROVE ~(Len(chain'.blocks) > Len(chain.blocks))
<1>1. Len(chain'.blocks) = 0 BY DEF IdleChain
<1>2. Len(chain.blocks) \in Nat BY DEF SessionTypeOK
<1> QED BY <1>1, <1>2

\* Whatever sequence of power cycles, resets, handshakes and commands: content,
\* keys, load buffer and personalisation move in an authenticated session only.
THEOREM ChangesNeedSessionCorrect == SessionSpec => ChangesNeedSession
<1> DEFINE Moves ==
       \/ contentVars' # contentVars
       \/ target' # target /\ target' # None
       \/ Len(chain'.blocks) > Len(chain.blocks)
       \/ storeVars' # storeVars
<1>1. ASSUME SessionTypeOK, SessionNext, ~restore_state
      PROVE  Moves => power = "ready" /\ scp = "authenticated"
  <2> USE <1>1
  <2>1. CASE power_on \/ reset \/ power_off
    BY <2>1, IdleNotLonger DEF power_on, reset, power_off, reset_scp_state, SessionTypeOK
  <2>2. CASE initialize_update \/ external_authenticate
    BY <2>2, IdleNotLonger
    DEF initialize_update, external_authenticate, reset_scp_state, SessionTypeOK
  <2>3. CASE content_command BY <2>3 DEF content_command, Authenticated
  <2>4. ASSUME NEW aid \in Aids, install_for_personalization(aid)
        PROVE power = "ready" /\ scp = "authenticated"
    BY <2>4 DEF install_for_personalization, Authenticated
  <2>5. ASSUME NEW p2 \in 0 .. BlockMod - 1, NEW size \in Sizes,
               \/ store_data_refused(p2, size)
               \/ store_data_accepted(p2, size)
               \/ store_data_complete(p2, size)
        PROVE power = "ready" /\ scp = "authenticated"
    BY <2>5 DEF store_data_refused, store_data_accepted, store_data_complete, Authenticated
  <2>6. ASSUME NEW size \in Sizes, NEW last \in BOOLEAN, load(size, last)
        PROVE power = "ready" /\ scp = "authenticated"
    BY <2>6 DEF load, Authenticated
  <2>7. ASSUME NEW v \in Kvns, NEW k \in KeySets, put_key(v, k)
        PROVE power = "ready" /\ scp = "authenticated"
    BY <2>7 DEF put_key, Authenticated
  <2> QED BY <2>7, <2>1, <2>3, <2>2, <2>5, <2>4, <2>6 DEF SessionNext
<1>2. SessionTypeOK /\ [SessionNext]_sessionAllVars =>
         [~restore_state /\ (contentVars' # contentVars \/ (target' # target /\ target' # None)
             \/ Len(chain'.blocks) > Len(chain.blocks) \/ storeVars' # storeVars)
          => power = "ready" /\ scp = "authenticated"]_sessionAllVars
  BY <1>1
<1> QED BY SessionInitType, SessionStepType, <1>2, PTL DEF SessionSpec, ChangesNeedSession
=============================================================================
