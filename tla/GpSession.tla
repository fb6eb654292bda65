----------------------------- MODULE GpSession -----------------------------
(***************************************************************************)
(* simrs-gp-card and simrs-gp-open: power, the secure channel session that *)
(* the content commands need, and personalisation, which takes several     *)
(* APDUs: INSTALL [for personalization] names an applet and a chain of     *)
(* STORE DATA blocks carries its data.  Beside them the other commands     *)
(* that need a session: LOAD, which gathers a CAP file, and PUT KEY on the *)
(* key store of simrs-gp-keys.  The cryptography of the handshake is Scp's *)
(* matter; here a host either knows the key or does not, and what fails    *)
(* changes nothing.                                                        *)
(***************************************************************************)
EXTENDS GpRegistry

CONSTANTS
    Capacity,         \* STORE_DATA_BUFFER_LEN, 1024
    BlockMod,         \* 256: next_block is a u8 and wraps
    Sizes,            \* data lengths of a STORE DATA block
    MaxBlocks,        \* bound: blocks a chain may have (empty blocks never fill it)
    LoadCap,          \* length of load_buffer, 4096
    MaxKeys,          \* MAX_VERSIONS of the key store, 4
    Kvns,             \* key version numbers, without 0
    KeySets           \* key sets a host may put

ASSUME SessionAssumption == Capacity \in Nat /\ BlockMod \in Nat \ {0} /\ Sizes \subseteq Nat
                            /\ MaxBlocks \in Nat
ASSUME StoreAssumption ==
    /\ LoadCap \in Nat /\ MaxKeys \in Nat \ {0}
    /\ 1 \in Kvns /\ 0 \notin Kvns
    /\ None \notin [kvn : Kvns, keys : KeySets] /\ None \notin KeySets

VARIABLES
    power,            \* CardState
    scp,              \* ScpState, without its keys
    target,           \* personalization_target: registry index or None
    chain,            \* StoreDataState; blocks is the P2 of each block taken
    load_len,         \* load_buffer_len
    key_store,        \* KeyStore.entries
    newest            \* history: the key set last put under each version

sessionVars == <<power, scp, target, chain>>
storeVars == <<load_len, key_store, newest>>
sessionAllVars == <<contentVars, sessionVars, storeVars>>

KeySlots == 1 .. MaxKeys
KeyEntry == [kvn : Kvns, keys : KeySets]
IdleChain == [blocks |-> <<>>, len |-> 0, next |-> 0, in_progress |-> FALSE]

\* ---- GpCard::process ----
\* Mutant: the chain survives the reset.
reset_scp_state_only == scp' = "no_session" /\ target' = None /\ UNCHANGED chain
reset_scp_state == scp' = "no_session" /\ chain' = IdleChain /\ target' = None

power_on ==
    /\ power' = "ready"
    /\ UNCHANGED <<contentVars, scp, target, chain, storeVars>>

reset ==
    /\ power' = "ready"
    /\ reset_scp_state
    /\ UNCHANGED <<contentVars, storeVars>>

power_off == power' = "off" /\ UNCHANGED <<contentVars, scp, target, chain, storeVars>>

\* ---- The commands; an APDU is ignored unless the card is ready. ----
\* KeyStore::get and get_or_default: the first entry with that version, and
\* for version 0 the first entry.
First(S) == CHOOSE i \in S : \A j \in S : i <= j
KeySlotsOf(v) == {i \in KeySlots : key_store[i] # None /\ (v = 0 \/ key_store[i].kvn = v)}
get_or_default(v) ==
    IF KeySlotsOf(v) = {} THEN None
    ELSE key_store[First(KeySlotsOf(v))]

\* INITIALIZE UPDATE, in any state, if the store has the key version.
initialize_update ==
    /\ power = "ready"
    /\ \E v \in Kvns \cup {0} : get_or_default(v) # None
    /\ scp' = "init_update_done"
    /\ UNCHANGED <<contentVars, power, target, chain, storeVars>>

\* EXTERNAL AUTHENTICATE with the right cryptogram and MAC.
external_authenticate ==
    /\ power = "ready" /\ scp = "init_update_done"
    /\ scp' = "authenticated"
    /\ UNCHANGED <<contentVars, power, target, chain, storeVars>>

\* Mutant: the session is not asked for.
Authenticated_powered == power = "ready"
\* The guard of every GP command but SELECT, GET DATA and MANAGE CHANNEL.
Authenticated == power = "ready" /\ scp = "authenticated"

content_command ==
    Authenticated /\ ContentCommand /\ UNCHANGED <<moved, sessionVars, storeVars>>

install_for_personalization(aid) ==
    /\ Authenticated
    /\ \E s \in Slots : HasAid(s, aid) /\ target' = s
    /\ UNCHANGED <<contentVars, power, scp, chain, storeVars>>

\* Mutant: a block that comes twice or too early is taken.
Expected_any(p2) == chain.in_progress \/ p2 = 0
\* The block number that store_data_block takes next.
Expected(p2) == IF chain.in_progress THEN p2 = chain.next ELSE p2 = 0

Fits(size) == chain.len + size <= Capacity

\* A wrong block number ends a chain, as does one block too many.
store_data_refused(p2, size) ==
    /\ Authenticated
    /\ IF Expected(p2) THEN ~Fits(size) ELSE chain.in_progress
    /\ chain' = IdleChain
    /\ UNCHANGED <<contentVars, power, scp, target, storeVars>>

store_data_accepted(p2, size) ==
    /\ Authenticated /\ Expected(p2) /\ Fits(size)
    /\ Len(chain.blocks) < MaxBlocks
    /\ chain' = [blocks |-> Append(chain.blocks, p2), len |-> chain.len + size,
                 next |-> (chain.next + 1) % BlockMod, in_progress |-> TRUE]
    /\ UNCHANGED <<contentVars, power, scp, target, storeVars>>

\* The last block: the payload goes to the target (the applet's own work is
\* external), then the chain and the target are cleared.
store_data_complete(p2, size) ==
    /\ Authenticated /\ Expected(p2) /\ Fits(size)
    /\ chain' = IdleChain /\ target' = None
    /\ UNCHANGED <<contentVars, power, scp, storeVars>>

\* LOAD: a block that does not fit is refused and leaves the buffer as it is;
\* the last one hands the buffer to the CAP loader (external), whose verdict
\* does not matter: the buffer is empty afterwards.  No other command, reset
\* or session empties it.
load(size, last) ==
    /\ Authenticated
    /\ load_len + size <= LoadCap
    /\ load_len' = IF last THEN 0 ELSE load_len + size
    /\ UNCHANGED <<contentVars, sessionVars, key_store, newest>>

FreeKeySlots == {i \in KeySlots : key_store[i] = None}

\* Mutant: a free slot is taken before the version is looked up.
put_key_free_first(v, k) ==
    /\ Authenticated
    /\ KeySlotsOf(v) \cup FreeKeySlots # {}
    /\ LET i == First(IF FreeKeySlots # {} THEN FreeKeySlots ELSE KeySlotsOf(v))
       IN key_store' = [key_store EXCEPT ![i] = [kvn |-> v, keys |-> k]]
    /\ newest' = [newest EXCEPT ![v] = k]
    /\ UNCHANGED <<contentVars, sessionVars, load_len>>

\* PUT KEY whose three keys unwrap and match their check values: replace the
\* entry of that version, else take a free slot; a full store refuses.
put_key(v, k) ==
    /\ Authenticated
    /\ KeySlotsOf(v) \cup FreeKeySlots # {}
    /\ LET i == First(IF KeySlotsOf(v) # {} THEN KeySlotsOf(v) ELSE FreeKeySlots)
       IN key_store' = [key_store EXCEPT ![i] = [kvn |-> v, keys |-> k]]
    /\ newest' = [newest EXCEPT ![v] = k]
    /\ UNCHANGED <<contentVars, sessionVars, load_len>>

\* save_state and restore_state: session and target are kept, the chain is not;
\* load buffer and key store are not part of the snapshot.
restore_state ==
    /\ RestoreContent
    /\ chain' = IdleChain
    /\ UNCHANGED <<power, scp, target, storeVars>>

SessionInit ==
    /\ ContentInit
    /\ power = "off" /\ scp = "no_session"
    /\ target = None
    /\ chain = IdleChain
    /\ load_len = 0
    /\ \E k \in KeySets :
          /\ key_store = [i \in KeySlots |-> IF i = 1 THEN [kvn |-> 1, keys |-> k] ELSE None]
          /\ newest = [v \in Kvns |-> IF v = 1 THEN k ELSE None]

SessionNext ==
    \/ power_on \/ reset \/ power_off
    \/ initialize_update \/ external_authenticate
    \/ content_command
    \/ \E aid \in Aids : install_for_personalization(aid)
    \/ \E p2 \in 0 .. BlockMod - 1, size \in Sizes :
          \/ store_data_refused(p2, size)
          \/ store_data_accepted(p2, size)
          \/ store_data_complete(p2, size)
    \/ \E size \in Sizes, last \in BOOLEAN : load(size, last)
    \/ \E v \in Kvns, k \in KeySets : put_key(v, k)
    \/ restore_state

SessionSpec == SessionInit /\ [][SessionNext]_sessionAllVars

\* ---- Properties ----
\* The buffer never overflows and the block number stays in its byte.
SessionTypeOK ==
    /\ power \in {"off", "ready"}
    /\ scp \in {"no_session", "init_update_done", "authenticated"}
    /\ target \in Slots \cup {None}
    /\ chain \in [blocks : Seq(0 .. BlockMod - 1), len : 0 .. Capacity,
                  next : 0 .. BlockMod - 1, in_progress : BOOLEAN]
    /\ load_len \in 0 .. LoadCap
    /\ key_store \in [KeySlots -> KeyEntry \cup {None}]
    /\ newest \in [Kvns -> KeySets \cup {None}]

\* However keys are added and replaced, INITIALIZE UPDATE finds under each
\* version the keys last put there, and no others: no superseded set lingers
\* in a second slot.  Version 0 means version 1, the one the card was made
\* with, in its newest form.
KeysAreNewest ==
    /\ \A v \in Kvns : get_or_default(v) =
          IF newest[v] = None THEN None ELSE [kvn |-> v, keys |-> newest[v]]
    /\ get_or_default(0) = [kvn |-> 1, keys |-> newest[1]]
    /\ \A i, j \in KeySlots : key_store[i] # None /\ key_store[j] # None
                                /\ key_store[i].kvn = key_store[j].kvn => i = j

\* What a chain has gathered is its blocks 0, 1, 2, ... in order, each once and
\* none missing, across the wrap of the block number and across refused
\* blocks, resets, sessions and snapshots; and an idle chain holds nothing, so
\* no payload starts with what an earlier chain left behind.
ChainContiguous ==
    /\ ~chain.in_progress => chain = IdleChain
    /\ chain.in_progress =>
          /\ chain.blocks # <<>> /\ chain.blocks[1] = 0
          /\ \A i \in 2 .. Len(chain.blocks) :
                chain.blocks[i] = (chain.blocks[i - 1] + 1) % BlockMod
          /\ chain.next = (chain.blocks[Len(chain.blocks)] + 1) % BlockMod

\* A card without a session has no half-built chain and no pending target.
NothingPendingWithoutSession ==
    scp = "no_session" => ~chain.in_progress /\ target = None

\* Card content, keys and the load buffer only change in an authenticated
\* session of a powered card, or by restoring a snapshot; neither does
\* personalisation move without one.
ChangesNeedSession ==
    [][~restore_state /\ (contentVars' # contentVars \/ (target' # target /\ target' # None)
                            \/ Len(chain'.blocks) > Len(chain.blocks) \/ storeVars' # storeVars)
       => power = "ready" /\ scp = "authenticated"]_sessionAllVars
=============================================================================
