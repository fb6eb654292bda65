----------------------------- MODULE GpRegistry -----------------------------
(***************************************************************************)
(* simrs-gp-open, the card content: the card's life cycle, the applet      *)
(* registry, the load files and the supplementary security domains, and    *)
(* the commands INSTALL, DELETE and SET STATUS of commands.rs on them.     *)
(* A command that is refused is the step that changes nothing, so it is    *)
(* not written.  An AID is a sequence, because SELECT matches prefixes.    *)
(* A registry entry also carries, as history the code does not store, the  *)
(* AID of the load file it was installed from (lf) and whether that file   *)
(* had room to list it (linked).  Another history variable, moved, records *)
(* which tables a restored snapshot has packed: the indices that refer to  *)
(* them are kept as they were and from then on mean other entries.         *)
(*                                                                         *)
(* Left out: privileges, the JCVM package link, and the life cycle of a    *)
(* security domain, which SET STATUS changes and only GET STATUS reads.    *)
(***************************************************************************)
EXTENDS Integers, Sequences, FiniteSets

CONSTANTS
    MaxApplets,       \* MAX_APPLETS, size of the registry
    MaxSds,           \* MAX_SDS, supplementary security domains
    MaxLoadFiles,     \* MAX_LOAD_FILES
    MaxInstances,     \* MAX_INSTANCES_PER_LF
    Aids,             \* AIDs of applets
    FileAids,         \* AIDs of load files
    SdAids,           \* AIDs of supplementary security domains
    Levels,           \* life cycle values without the lock bit that are used
    None              \* an empty slot

ASSUME SizesAssumption ==
    MaxApplets \in Nat /\ MaxSds \in Nat /\ MaxLoadFiles \in Nat /\ MaxInstances \in Nat
\* from_byte: 0x03, or the low three bits set.
ASSUME LevelsAssumption == {3, 7} \subseteq Levels
                           /\ \A l \in Levels : l = 3 \/ (l \in 0 .. 127 /\ l % 8 = 7)

VARIABLES
    card,             \* CardLifecycle
    registry,         \* slot -> applet entry or None
    files,            \* slot -> load file entry or None
    sds,              \* slot -> AID of a security domain or None
    moved             \* history: the tables whose entries a restore has moved

contentVars == <<card, registry, files, sds, moved>>

Slots == 0 .. MaxApplets - 1
FileSlots == 0 .. MaxLoadFiles - 1
SdSlots == 0 .. MaxSds - 1
CardStates == {"op_ready", "initialized", "secured", "card_locked", "terminated"}
Lifecycle == [level : Levels, locked : BOOLEAN]
Entry == [aid : Aids, lc : Lifecycle, sd : SdSlots \cup {None}, lf : FileAids \cup {None},
          linked : BOOLEAN]
ASSUME NoneAssumption ==
    /\ None \notin Entry \cup Slots \cup FileSlots \cup SdSlots
    /\ None \notin Aids \cup FileAids \cup SdAids
    /\ None \notin [aid : FileAids, instances : Seq(Slots)]

\* ---- lifecycle.rs ----
\* CardLifecycle::transition: is the step from one card state to another legal?
CardTransition(from, to) ==
    \/ from = "op_ready" /\ to = "initialized"
    \/ from \in {"initialized", "card_locked"} /\ to = "secured"
    \/ from = "secured" /\ to = "card_locked"
    \/ to = "terminated"

\* AppletLifecycle::transition: the results of moving cur to tgt (none or one).
AppletTransition(cur, tgt) ==
    IF tgt.locked THEN {[cur EXCEPT !.locked = TRUE]}
    ELSE IF cur.locked THEN {tgt}
    ELSE IF cur.level = 3 THEN {t \in {tgt} : t.level = 7}
    ELSE {t \in {tgt} : t.level > cur.level}

is_selectable(lc) == lc.level >= 7 /\ ~lc.locked
Unlocked(level) == [level |-> level, locked |-> FALSE]

\* ---- registry.rs ----
Occupied == {s \in Slots : registry[s] # None}
HasAid(s, aid) == registry[s] # None /\ registry[s].aid = aid
HasFile(f, aid) == files[f] # None /\ files[f].aid = aid

\* The lowest empty slot of an array, as a set: empty when the array is full.
FirstEmpty(arr, index) ==
    {s \in index : arr[s] = None /\ \A t \in index : t < s => arr[t] # None}


\* add_instance: a load file that is full keeps its instances as they are.
AddInstance(file, s) ==
    IF Len(file.instances) < MaxInstances
    THEN [file EXCEPT !.instances = Append(@, s)] ELSE file

\* ---- commands.rs ----
set_status_card(to) ==
    /\ CardTransition(card, to)
    /\ card' = to
    /\ UNCHANGED <<registry, files, sds>>

\* The applet in slot s moves towards lc.
MoveApplet(s, lc) ==
    \E new \in AppletTransition(registry[s].lc, lc) :
       /\ registry' = [registry EXCEPT ![s].lc = new]
       /\ UNCHANGED <<card, files, sds>>

set_status_applet(aid, lc) == \E s \in Slots : HasAid(s, aid) /\ MoveApplet(s, lc)

install_for_load(lf) ==
    /\ \A f \in FileSlots : ~HasFile(f, lf)
    /\ \E f \in FirstEmpty(files, FileSlots) :
          files' = [files EXCEPT ![f] = [aid |-> lf, instances |-> <<>>]]
    /\ UNCHANGED <<card, registry, sds>>

install_make_selectable(aid) == set_status_applet(aid, Unlocked(7))

\* Mutant: an AID that is already registered is installed again.
install_duplicate(aid, lf, selectable) ==
    /\ \E s \in FirstEmpty(registry, Slots) :
          registry' = [registry EXCEPT ![s] =
             [aid |-> aid, sd |-> None, lc |-> Unlocked(IF selectable THEN 7 ELSE 3),
              lf |-> None, linked |-> FALSE]]
    /\ card' = IF card = "op_ready" THEN "initialized" ELSE card
    /\ UNCHANGED <<files, sds>>

\* INSTALL [for install] of applet aid from load file lf (None: the command
\* names no load file), and [for install and make selectable].  The instance
\* is linked to a load file that is registered, if that has room for it.
install(aid, lf, selectable) ==
    /\ \A s \in Slots : ~HasAid(s, aid)
    /\ \E s \in FirstEmpty(registry, Slots) :
          LET linked == {f \in FileSlots : lf # None /\ HasFile(f, lf)}
          IN /\ registry' = [registry EXCEPT ![s] =
                   [aid |-> aid, sd |-> None, lc |-> Unlocked(IF selectable THEN 7 ELSE 3),
                    lf |-> IF linked = {} THEN None ELSE lf,
                    linked |-> \E f \in linked : Len(files[f].instances) < MaxInstances]]
             /\ files' = [f \in FileSlots |->
                            IF f \in linked THEN AddInstance(files[f], s) ELSE files[f]]
    /\ card' = IF card = "op_ready" THEN "initialized" ELSE card
    /\ UNCHANGED sds

\* Mutant: the load file goes, its instances stay.
delete_file_only(lf) ==
    \E f \in FileSlots :
       /\ HasFile(f, lf)
       /\ files' = [files EXCEPT ![f] = None]
       /\ UNCHANGED <<card, registry, sds>>

\* DELETE with P2 bit 7: the load file and every slot it lists.
delete_cascade(lf) ==
    \E f \in FileSlots :
       /\ HasFile(f, lf)
       /\ registry' = [s \in Slots |->
             IF \E i \in DOMAIN files[f].instances : files[f].instances[i] = s
             THEN None ELSE registry[s]]
       /\ files' = [files EXCEPT ![f] = None]
       /\ UNCHANGED <<card, sds>>

\* Mutant: the applets of the domain are not looked for.
delete_sd_unguarded(aid) ==
    \E d \in SdSlots :
       /\ sds[d] = aid
       /\ sds' = [sds EXCEPT ![d] = None]
       /\ UNCHANGED <<card, registry, files>>

\* DELETE of a security domain: refused while an applet names it as owner.
delete_sd(aid) ==
    \E d \in SdSlots :
       /\ sds[d] = aid
       /\ \A s \in Occupied : registry[s].sd # d
       /\ sds' = [sds EXCEPT ![d] = None]
       /\ UNCHANGED <<card, registry, files>>

\* DELETE of an applet; a security domain of that AID is looked for first.
delete_applet(aid) ==
    /\ \A d \in SdSlots : sds[d] # aid
    /\ \E s \in Slots : HasAid(s, aid) /\ registry' = [registry EXCEPT ![s] = None]
    /\ UNCHANGED <<card, files, sds>>

\* snapshot.rs: the occupied entries of a table are written one after the
\* other and read back into slots 0, 1, ...
Pack(arr, index) ==
    LET occ == {s \in index : arr[s] # None}
        Rank(s) == Cardinality({t \in occ : t < s})
    IN [i \in index |-> IF \E s \in occ : Rank(s) = i
                         THEN arr[CHOOSE s \in occ : Rank(s) = i] ELSE None]

Packed(arr, index) == \A i, j \in index : i < j /\ arr[j] # None => arr[i] # None
NowMoved == moved \cup (IF Packed(registry, Slots) THEN {} ELSE {"registry"})
                  \cup (IF Packed(sds, SdSlots) THEN {} ELSE {"sds"})

\* Mutant: a restore stops before the last entry that was saved.
RestoreContent_short ==
    /\ registry' = [s \in Slots |-> IF s + 1 = Cardinality(Occupied) THEN None
                                     ELSE Pack(registry, Slots)[s]]
    /\ files' = Pack(files, FileSlots)
    /\ sds' = Pack(sds, SdSlots)
    /\ moved' = NowMoved
    /\ UNCHANGED card

\* The content after save_state and restore_state.  Saving changes nothing, so
\* restoring an older snapshot leads to a state that was reachable right after
\* it was taken: the round trip is all there is to model.  owner_sd_index and
\* the instance lists of the load files come back with their old values.
RestoreContent ==
    /\ registry' = Pack(registry, Slots)
    /\ files' = Pack(files, FileSlots)
    /\ sds' = Pack(sds, SdSlots)
    /\ moved' = NowMoved
    /\ UNCHANGED card

\* A card comes with an empty registry, or personalised with applets of its
\* security domains (registry_mut and sds_mut, before it is used), from slot 0.
ContentInit ==
    /\ card = "op_ready"
    /\ files = [f \in FileSlots |-> None]
    /\ sds \in [SdSlots -> SdAids \cup {None}]
    /\ \A d, e \in SdSlots : sds[d] # None /\ sds[d] = sds[e] => d = e
    /\ registry \in [Slots -> {None} \cup
                       {e \in Entry : e.lc = Unlocked(7) /\ e.lf = None /\ ~e.linked
                                      /\ (e.sd # None => sds[e.sd] # None)}]
    /\ \A s, t \in Slots : registry[s] # None /\ HasAid(t, registry[s].aid) => s = t
    /\ Packed(registry, Slots) /\ Packed(sds, SdSlots)
    /\ moved = {}

\* The commands of the host that change the content.
ContentCommand ==
    \/ \E to \in CardStates : set_status_card(to)
    \/ \E aid \in Aids, lc \in Lifecycle : set_status_applet(aid, lc)
    \/ \E aid \in Aids : install_make_selectable(aid)
    \/ \E lf \in FileAids : install_for_load(lf)
    \/ \E aid \in Aids, lf \in FileAids \cup {None}, b \in BOOLEAN : install(aid, lf, b)
    \/ \E lf \in FileAids : delete_cascade(lf)
    \/ \E aid \in SdAids : delete_sd(aid)
    \/ \E aid \in Aids : delete_applet(aid)

ContentNext ==
    \/ ContentCommand /\ UNCHANGED moved
    \/ RestoreContent

ContentSpec == ContentInit /\ [][ContentNext]_contentVars

\* ---- Properties ----
File == [aid : FileAids, instances : Seq(Slots)]
\* Registry, load files and domains keep their types; a load file never lists
\* more than MaxInstances slots.
ContentTypeOK ==
    /\ card \in CardStates
    /\ registry \in [Slots -> Entry \cup {None}]
    /\ files \in [FileSlots -> File \cup {None}]
    /\ \A f \in FileSlots : files[f] # None => Len(files[f].instances) <= MaxInstances
    /\ sds \in [SdSlots -> SdAids \cup {None}]
    /\ moved \subseteq {"registry", "sds"}

\* No two registry slots hold the same AID, and no two load files: every
\* command that finds its target by AID finds the one the host means.
UniqueAids ==
    /\ \A s, t \in Slots :
          registry[s] # None /\ registry[t] # None /\ registry[s].aid = registry[t].aid => s = t
    /\ \A f, g \in FileSlots :
          files[f] # None /\ files[g] # None /\ files[f].aid = files[g].aid => f = g

\* The SD guard of DELETE: an applet's owning security domain exists for as
\* long as the applet does, whatever is installed, deleted, saved and restored
\* around it, until a snapshot packs a table of domains that has a gap: then
\* owner_sd_index is not adjusted (snapshot.rs:301-381) and may name nothing.
OwnerExists ==
    "sds" \notin moved =>
       \A s \in Slots : registry[s] # None /\ registry[s].sd # None => sds[registry[s].sd] # None

\* An applet that INSTALL could list in its load file stays within reach of the
\* cascade for as long as it exists: its file is registered and lists its slot,
\* whatever is deleted, re-registered, installed, saved and restored in between,
\* until a snapshot packs a registry that has a gap, for the lists are not
\* adjusted.  An applet that found the list full was never within reach, and
\* that a list names no slot of another applet is not so in the code.
LinkedIsReachable ==
    "registry" \notin moved =>
       \A s \in Slots : registry[s] # None /\ registry[s].linked =>
          \E f \in FileSlots :
             /\ files[f] # None /\ files[f].aid = registry[s].lf
             /\ \E i \in DOMAIN files[f].instances : files[f].instances[i] = s
=============================================================================
