# SimRS: TLA+ models and proofs

SimRS (`src/`) is a software UICC: a SIM/USIM card with a GlobalPlatform card
manager, a JavaCard virtual machine and several ways to attach a terminal,
written as some sixty Rust crates, most of them without an allocator. This directory holds TLA+ models of the
parts whose correctness depends on *sequences* of commands, on several parties
acting at once, or on what survives a reset, a lost message or a snapshot. TLC
checks them on small instances; TLAPS proves the most important invariants for
all values of the parameters.

`PROJECT.json` lists components, runs, mutants, the source lines behind every
definition (`map`), hazards, findings and theorems.

To check a run: `tlc -config MCPin.cfg MCPin`. To check proofs: `tlapm PinProofs.tla`.

## 1. Inventory

A card is driven by APDUs, one at a time, plus power events; nearly all of the
card is single-threaded `no_std` code. True concurrency exists only where the
card meets something else: the shared-memory rings to a QEMU guest, and a host
whose APDUs travel over a link. Snapshots (`save_state`, `restore_state`) are
taken by the embedding program between APDUs, on every stateful component.

| Component (crates) | State | Operations | Used by / uses | What is hard | Correct means |
|---|---|---|---|---|---|
| PIN manager (`simrs-pin`) | slots: PIN, PUK, counters, enabled, verified | VERIFY, CHANGE, DISABLE, ENABLE, UNBLOCK, reset, snapshot | owned by the GSM and the USIM application | five commands spend the same two counters | wrong tries are bounded by the limits; only a right PIN gives access |
| GP card content (`simrs-gp-open`) | card life cycle, registry, load files, security domains | INSTALL, DELETE, SET STATUS, LOAD, snapshot | guarded by the session, read by the channels | entries refer to each other by slot number; slots are freed and reused | AIDs are unique, references never dangle, a cascade deletes exactly its instances |
| GP channels (`simrs-gp-open`) | per channel: open, selected index | SELECT first/next, MANAGE CHANNEL | reads the registry | the index is a cache of a table other channels change | what is selected is selectable, exact AIDs win |
| GP session (`simrs-gp-open`, `simrs-gp-card`) | power, SCP state, STORE DATA chain, personalization target | power, reset, INITIALIZE UPDATE, EXTERNAL AUTHENTICATE, STORE DATA | guards every content command | operations that span several APDUs | chains are contiguous; nothing changes without a session |
| Secure channel (`simrs-gp-scp`) | keys, chaining value, counters, level | handshake, wrap, unwrap, R-MAC, key wrapping | host on the far side of a link | lost, repeated, reordered APDUs; counters that wrap | both sides agree on the session; commands are carried out in order and once |
| Key store (`simrs-gp-keys`) | key sets by version | PUT KEY, lookup, snapshot | the handshake | replace or add, the first entry is the default | a version answers with the keys last put there |
| Rings (`simrs-transport-shmem`) | bytes and four indices in shared memory | read, write, framing | the bridge and a guest | two writers of one header, wraps, full against empty | a queue of whole messages |
| QEMU bridge (`simrs-qemu`) | copies of indices, the SIM | `step`, `flush_indices` | rings below, SIM above | stale copies, interleaving with the guest | every command is answered, by its own answer |
| JCVM heap and journal (`simrs-jcvm`, `simrs-jcre`) | heap bytes, journal | begin, record, commit, abort, allocate, snapshot | the interpreter's stores | several writes to a byte, a full journal, a snapshot in mid-transaction | abort restores the heap |
| JCVM interpreter, firewall, CAP loader | frames, contexts, packages | execute, load, link | heap, GP LOAD | exceptions across contexts | contexts cannot reach each other's objects |
| SIM orchestrator (`simrs-sim`) | power, GSM and USIM parts | `process`, reset policy, snapshot | routes to both applications | two PIN managers, two response queues, one power switch | nothing of an old session is handed out in a new one |
| USIM, GSM applications (`simrs-usim`, `simrs-gsm`) | channels, response queue, PINs, GBA key | file, PIN, channel, authentication and toolkit commands | file system, PIN manager, proactive session, authentication | channels share files and queue; responses take two APDUs | access rules hold on every path; a queued response is about what is selected |
| File system (`simrs-fs`) | selection context, contents, deactivated identifiers | SELECT, READ, UPDATE, INCREASE, DEACTIVATE, snapshot | applications | walks that break off; identifiers shared by files of several ADFs | current DF, EF and ADF fit together, also after a snapshot |
| Proactive session (`simrs-proactive`) | pending command, subscriptions, timers, BIP channels | queue, FETCH, TERMINAL RESPONSE, ENVELOPE | USIM; a terminal | card and terminal each keep their own record; answers are refused, repeated, lost to a reset | both records agree; every command is answered |
| Authentication (`simrs-milenage`, `simrs-tuak`) | expected sequence number; GBA key in the USIM | AUTHENTICATE, resynchronisation, GBA | a network | replays, reordering, a network that falls back, expiry | no challenge is accepted twice; the GBA key is the newest and alive |
| OTA (`simrs-ota`) | counter per target | secured packets | the network | replays, reordering | the counter rule |
| T=0 (`simrs-t0`) | procedure-byte state | TPDU exchange | terminal | errors in mid-command | no byte is lost |
| Interposer (`simrs-interposer`) | a real and a shadow card | forwards events to both | other cards | one of them fails | both stay in step |
| Bindings, other transports, crypto primitives, JavaCard tool chain, encodings, test harnesses | – | – | – | – | not subjects of this project, section 8 |

## 2. Modules

| Module | Models | Builds on |
|---|---|---|
| `Pin` | the PIN manager | – |
| `GpRegistry` | card and applet life cycles, registry, load files, security domains and their commands | – |
| `GpChannels` | channels, SELECT, MANAGE CHANNEL, snapshot | extends `GpRegistry`: content commands interleave |
| `GpSession` | power, session, personalization, LOAD, key store | extends `GpRegistry`: content commands under the session guard |
| `Scp` | the secure channel, both ends and the link | – |
| `ShmemRing` | index arithmetic and framing, as operators | – |
| `QemuLink` | what the bridge promises: two FIFO queues and a card | – |
| `QemuBridge` | bridge, guest, shared memory | extends `ShmemRing`, implements `QemuLink` |
| `Transaction` | heap and journal, as documented (`JournalSpec`) and as the interpreter uses them (`VmSpec`) | – |
| `Files` | file tree, selection context and its snapshot, contents, deactivation, as operators | – |
| `Usim` | the USIM application: files, PINs, channels, response queue | extends `Files`, uses the methods of `Pin` |
| `Sim` | the card: power, reset policy, routing, the GSM application | extends `Usim` |
| `Auth` | authentication and GBA, the network and the link | – |
| `Proactive` | the toolkit session, card and terminal | – |
| `MC*` | constants of the runs | the module of the same name |
| `*Proofs` | theorems | the module of the same name; `GpProofs` is about `GpRegistry`, `GpChannels` and `GpSession`, `SimProofs` about `Usim` and `Sim`, `QemuProofs` about `ShmemRing` and `QemuBridge` |

### How state and actions correspond to the code

**`Pin`.** `slots` is the array of `PinManager<N>` as a function of the key;
`verify`, `change`, `disable`, `enable` and `unblock` are the methods of the
same name as functions of one slot, and `apdu_*` are the handlers, which also
refuse malformed data (`wf`). `set_disabled`, `reset_verified`, `save_state` and
`restore_state` are the remaining public mutators. `hist` counts the wrong
presentations: a handler's step adds to it exactly when the code compares a
value. It is saved and restored with the slots, because a snapshot legitimately
brings tries back. Status words are left out.

**`GpRegistry`.** Tables are functions from slot numbers; `FirstEmpty` is the
search for a free slot. One action per accepted form of INSTALL, DELETE and SET
STATUS; what is refused changes nothing and is the stuttering step. `delete_cascade`,
`delete_sd` and `delete_applet` are the branches of `process_delete`. `AddInstance` ignores a full list as the
code does. An entry carries two fields the code does not store, the load file it
came from (`lf`) and whether that file listed it (`linked`). `RestoreContent` is the
round trip of a snapshot: `save_state` writes the occupied slots one after
another and `restore_state` fills the tables from slot 0. The slot numbers held elsewhere
stay as they are, so a restore of a table with gaps leaves references to other entries;
`moved` (history) records which tables this has happened to. `ContentCommand` are the commands of
the host, `ContentNext` these and restores.

**`GpChannels`.** `find_by_aid` is the three-pass search (exact, prefix,
partial), `find_by_aid_after` the search of SELECT next. `channels[c].selected` is
the registry index the code keeps, `chosen` the AID it stood for at the time.

**`GpSession`.** `power` and the `power_on`, `reset`, `power_off` events are
`GpCard::process`; `scp` is the tag of `ScpState`; `target` and `chain` are
`personalization_target` and `StoreDataState`. `content_command` is any command of
`GpRegistry` behind the session guard. `store_data_*` split `process_store_data` by
its outcomes: error (which drops the chain), more blocks, complete. `chain.blocks`
is history: the block numbers taken so far. `load_len` is the fill level of the
LOAD buffer, which only the last block of a LOAD empties. `key_store` is the array of
`KeyStore`; `put_key` is PUT KEY of keys that unwrap and match their check values,
`get_or_default` the lookup of INITIALIZE UPDATE, and `newest` (history) the set last put
under each version.

**`Scp`.** `card` is `ScpState` with its session; `host` is the peer. A
cryptogram or MAC is the record of the values it is computed from. `link` is the
set of everything sent; any member may be delivered at any time and any number of
times, which covers loss, delay, repetition and reordering. `challenges` numbers
the card's random challenges (a new one for each INITIALIZE UPDATE).
`unwrap_command` compares first and then moves chaining value and counter, as
`scp03.rs` and `cmac.rs` do.

**`ShmemRing` and `QemuBridge`.** `hdr` holds the four index words, `bridge` the
bridge's copies. `step` is split where it touches what the guest writes:
`step_refresh` reads the indices, `step_take`/`step_empty` read the ring, process
the message and publish `cmd_tail`, `rsp_refresh` re-reads, `rsp_write` or `rsp_full`
is the write, `rsp_publish` the new head. The guest writes a frame
(`guest_write`), publishes its head (`guest_publish`), and collects
(`guest_collect`), as `push_cmd` and `pop_rsp` of the crate's tests do. The SIM
is reduced to its power state and to what it answers (`Process`, `PowerAfter`).
`window` is how many answers a guest may be waiting for; it is chosen at the start,
with the messages the guest then sends.

**`Transaction`.** `heap`, `free` are `ObjectHeap`; `active`, `journal` are
`TransactionJournal`. The code keeps one entry for each write and replays them
from the last to the first, so the *earliest* entry of an offset decides
(`Deciding`). `recorded_write` is record-then-write; `bypass_write` is the PIN try
counter, which must not be rolled back; `store` is what the interpreter does.

**`Files` and `Usim`.** A file is an element of `Dfs` or `Efs`, and `Kids`, `Fid`, `Root`
describe the static tree; identifiers may recur, as `6FAD` does in the profiles.
`select_by_fid`, `select_by_aid`, `select_by_path` and `restore_state` are the methods of
`SelectionCtx` as functions of a context; a path that breaks off returns the context
where it stopped. A content is one value for each record: offsets, lengths and
padding do not matter to the properties, which file is read or written does. In `Usim`,
`fs[0]` is `UsimApp.fs` and `fs[1..]` are `channels`; one action is one APDU on a channel.
The guard of a handler names the EF it works on; access conditions decide what the step changes,
so a refused command is a step that only clears the response queue, as `handle` does
before it dispatches. `queue` keeps what the queued bytes describe and the channel that
asked: a file, an authentication result, or an identity that GET IDENTITY made from EF_IMSI and
EF_AD (`Identities`; the IMPI stands for the domain too, both of which ask for PIN1, while the SUCI asks for none).
`out` is the EF or identity whose content the response carries, and `shown` the keys presented since
the last reset; both exist for the properties. PIN commands call the functions
of `Pin` on the application's slots.

**`Sim`.** `state` is `Sim.state`, `gsm` the fields of `GsmApp`. `ApplyEffects` is
`apply_reset_effects`, flag by flag; `Policy` is the function the host may supply.
`handle_apdu` routes by the family of the class byte. The GSM application has its own copy
of the files below the MF, its own PINs and queue; its record commands do not check
the PIN, and the model does not either. Time (`Tick`) is in `Auth` and `Proactive`.

**`Auth`.** `expected` is `expected_sequence_number`, `ks` and `life` are `gba_ks` and
`gba_ks_lifetime`. A vector is its sequence number, RAND and the context it is
used in; it stays in `air` until it is lost, so it may be presented any number of times in any
order. `authenticate` is the freshness check, the threshold and, for GBA, the stored key;
a damaged vector fails the MAC and changes nothing. The network (external) issues
rising numbers, may fall back once for each further RAND, and takes up a token (AUTS) that is ahead
of its counter. `spent` (history) records that the lifetime last set ran out. The host may set a
lifetime at any time, also when the old one has run out.

**`Proactive`.** `buf` and `len` are the buffer and the length of what is in it, `prev` the
subscriptions kept for a rollback, `lastBip` the channel of the last CLOSE CHANNEL. The application
may queue a command at any time, as `queue_command` allows; one that does not fit may leave
a waiting command garbled and leaves the length. `override_status` is
what the terminal learns from a status word: the length, up to which FETCH will read. The terminal (external) keeps its own event list and
channels, executes or declines what it fetches, may repeat its last answer, may send an
answer without Command Details, may fetch the next command before it has answered, and starts
over with a reset. The card has one buffer, one saved list and one channel number for all
commands. `tangled` (history) records that one of them was overwritten while it was still needed
(`Overwrites`), that a command was given up for another, or that one which changes what both
sides keep was answered without being named; a reset clears it. The code
does nothing about these cases, and the properties except exactly them.

Operators whose names end in a lower-case word after an underscore and whose
comment begins with "Mutant" are deliberately wrong variants of the definition
below them; `PROJECT.json` says which property each one breaks. They are not
part of any specification.

## 3. Runs

Passing runs:

| Run | Checks | Shows |
|---|---|---|
| `pin` | `GuessBudget`, `DeadSlotStaysDead`, `AccessNeedsPin` | Over every sequence of commands, resets and snapshots, each retry counter is exactly what is left of its budget; a slot with PIN blocked and PUK spent stays lost; access is gained only by presenting the right PIN. |
| `gp_registry` | `UniqueAids`, `OwnerExists`, `LinkedIsReachable` | AIDs stay unique, also across snapshots. Until a restore moves entries to other slots, an applet's security domain outlives it and an applet that was linked to its load file stays listed there. |
| `gp_channels` | `ChannelTypeOK`, `SelectsSelectable`, `ExactAidWins`, `RestoreKeepsContent` | Every SELECT that changes a selection picks an applet that is selectable at that moment (what becomes of it later is not claimed), the exact AID before any prefix; a snapshot loses no entry; the basic channel is never closed. |
| `gp_session` | `ChainContiguous`, `KeysAreNewest`, `NothingPendingWithoutSession`, `ChangesNeedSession` | A chain of STORE DATA is contiguous and fits its buffer; every key version answers with the keys last put there; without a session nothing is pending and nothing changes. |
| `scp` | `TypeOK`, `SessionAgreement`, `AcceptedInOrder`, `CountersInStep` | Under loss, repetition and reordering, and with wrapped sequence counters, a session exists only as the host opened it; SCP02 and SCP03 cards carry out a prefix of what the host sent; encryption counters agree whenever a command is accepted. |
| `qemu_bridge` | `TypeOK`, `AnswerMatches`, `GuestIsAnswered`, `ImplementsLink` | With one command outstanding, each answer is the one to its command, and it arrives. With up to two and a response ring that fills up, the bridge implements `QemuLink`: whole messages, in order, none altered or repeated. |
| `transaction` | `AbortRestores` | Under `JournalSpec`, abort restores every byte but the PIN try counters. |
| `usim` | `SelectionSound`, `SnapshotFaithful`, `QueuedIsCurrent`, `PhonebookSynchronised`, `DeactivatedIsFrozen` | On every channel current DF, EF and ADF fit together and are found again from a snapshot although identifiers recur; what GET RESPONSE hands out describes a file still selected; a change of the phonebook shows in its counters, also when they wrap; deactivated files stay as they are and are not read, INCREASE and GET IDENTITY excepted. |
| `sim` | `OutNeedsPins`, `GsmOutNeedsPin` | Over power cycles, resets, disabled and unblocked PINs and both applications, no content of a protected file, no IMPI or domain and no result of the GSM algorithm leaves the card unless the PIN was presented in this session or is not in force. The SUCI is excepted: the code asks for no PIN. |
| `auth` | `NoReplay`, `KsIsNewest`, `NafNeedsLiveKs`, `Resynchronised` | No challenge below the last sequence number is accepted twice; an older bootstrap never replaces a newer key; no NAF key comes from a Ks whose lifetime, as last set, has run out; a current token makes the network's next vector acceptable. |
| `proactive` | `TypeOK`, `FetchedIsQueued`, `EventListAgreed`, `ChannelsAgreed`, `CommandAnswered` | Whenever nothing is waiting or being executed, card and terminal agree on the event list and on the open channels, whatever was queued, refused, repeated or reset, unless commands were tangled since the last reset; FETCH delivers bytes of no command only then. A waiting command leaves the buffer and a session ends, tangled or not. |

Every module's type invariant is a theorem (section 4); the runs of `GpChannels`, `Scp`,
`QemuBridge` and `Proactive` check theirs too.

One run, `transaction_store`, exhibits a disagreement between the code and its
documentation; it is in section 6.

### Bounds, and why they are enough

- `pin`: room for one slot and two keys, so that registration meets a full
  manager and commands meet an unregistered key; two values, a right one and a
  wrong one; limits 1 and 2, so that a wrong try blocks at once or leaves one
  try. Slots do not interact (`ReplaceOne` in `PinProofs` states it), and what is
  checked here is proved without bounds.
- `gp_registry`: two applet slots, one load file and two domains. Two applets
  are enough for a slot to be freed and taken by the other one; one domain shares
  its AID with an applet, so that the order of DELETE's branches matters. The
  three life cycle values are INSTALLED, SELECTABLE and one application-specific. A
  restore may come at any time, with and without gaps in the tables.
  The invariants are proved for all sizes.
- `gp_channels`: the AIDs `<<1>>` and `<<1, 2>>`, one a prefix of the other, make
  each of the three passes decide some request; the request `<<9>>` is a prefix
  of the issuer domain's AID. A third slot leaves gaps before and after.
- `gp_session`: a buffer of two bytes, blocks of zero and one byte, block
  numbers modulo 3 and four blocks: the number wraps while the chain is alive,
  and the buffer overflows. `MaxBlocks` is needed because empty blocks never
  fill the buffer; the proofs do not depend on its value. A key store of two entries and three
  versions can be full, and each version can be replaced before and after that.
- `scp`: `SeqMod` and `EncMod` 2, so both counters wrap; two sessions of the
  host and three INITIALIZE UPDATEs at the card, so one is answered and
  abandoned; three commands, one kind with data and one without.
- `qemu_bridge`: a ring of 8 bytes holds at most two short frames and frames wrap;
  indices wrap after two rounds of it and the run also starts three before the wrap;
  length digits to base 3 make both prefix bytes matter, the higher one with a message of three bytes.
  `IndexMod` must be a
  multiple of `RingSize`, as 2^32 is of every power of two, and a ring no larger than `ByteMod` squared, as
  `RING_SIZE_MAX` (65536) says; otherwise the length of a message that fits would not fit its two bytes. A guest with one outstanding
  answer sends every kind of message that changes the card or is answered; one with
  two sends two different APDUs and an empty message.
- `transaction`: three bytes, two journal entries, two values. Two entries can
  be for the same byte (the order of replay matters) or different ones, and the
  third write meets a full journal.
- `usim`: two channels; an MF, two ADFs whose EFs share an identifier, a DF below one of
  them with the phonebook; counters with two values, so they wrap; one entry in the
  deactivation table, so it is full at once. No PIN is registered: the conditions are met or
  "Never", and PINs are the subject of `sim`. Paths include one that breaks off in a DF.
- `sim`: one PIN with one try and one PUK try, so it can be verified, blocked, unblocked,
  disabled; a protected file in an ADF, a transparent and a cyclic one below the MF, which both
  applications see. The basic channel only, because the other channels share PINs and queue with it.
- `auth`: numbers 0 to 3, so that the threshold saturates after three steps; two RANDs, so
  the network falls back once and reissues numbers; lifetimes 0, 1 and infinite.
- `proactive`: two events, one of them above 63; two channels, so closing one can be
  mistaken for the other; command numbers that wrap after two; a buffer of two bytes, so that
  commands of two lengths and one that does not fit are queued; one timer, since timers do not
  interact. A state constraint (`Slice`) keeps parts of the state that no action relates from
  multiplying: timers run and an envelope waits only between two commands, channels are open only without
  a profile, and once commands are tangled the run follows either the lists or the channels. The
  safety properties are proved without it; `CommandAnswered` depends on neither timers, envelopes,
  lists nor channels.

### Fairness

Two runs have a liveness property. `qemu_bridge`, under `FairSpec`: weak fairness of
`Step`, `guest_publish` and `guest_collect`. The bridge never blocks: each of its
steps is enabled until taken, and the embedding program calls `step` in its
event loop (`simrs-qemu/src/lib.rs`, module documentation). `step` returns
`Ok(false)` on an empty ring and that loop ends there, so the assumption is that its
owner calls again. A guest that has put a message in the ring publishes it, and one
that waits for an answer polls. Nothing is assumed about
whether a guest sends anything.

`proactive`, under its `FairSpec`: the terminal keeps polling with STATUS, fetches what a
status word told it of, and answers what it fetched, bytes it cannot read with an answer that
names no command. These are the terminal's duties, on
which the design of `override_status` rests: the card cannot speak first. Nothing is assumed of
the application, the clock, or of resets, which may drop a command.

Everything else is safety: the card acts only
when it is called, so deadlock freedom and stuttering say nothing more about it.

## 4. What is proved

All theorems are for arbitrary constants under the assumptions named in the
modules. For the card manager and the journal (`NAssumption`, `LimitsAssumption`,
`SizesAssumption`, `LevelsAssumption`, `ChannelsAssumption`, `SessionAssumption`, `StoreAssumption`,
`TransactionAssumption`) these say that sizes are naturals, limits are bytes and that the life cycle
values are the ones `from_byte` accepts. For the file system (`TreeAssumption`,
`FidAssumption`, `DataAssumption`, `PhonebookAssumption`, `CyclicAssumption`,
`PinsAssumption`) they say what a profile guarantees: a forest with distinct
identifiers among siblings and among DFs, the phonebook's files in no other DF. `CyclicAssumption`
(whoever may increase a cyclic file may read it) is needed because INCREASE returns
the new value under the update condition alone. For the rings (`RingAssumption`,
`MessagesAssumption`, `BytesAssumption`) they say that the index width is a multiple of the ring size,
that a ring is at most `ByteMod` squared and that messages are sequences of bytes; no size has to be a power of two. The remaining ones
say that bounds are naturals and keep tokens apart from values.

**`PinProofs`.** `TypeCorrect`, `BudgetCorrect`. Inductive invariant `TypeOK /\ GuessBudget`:
the type alone is not inductive, because a decrement stays within a byte only when
the counter is not zero, and the budget is about the counter only when the
counter is a number. Each handler replaces one slot (`ReplaceOne`) and does to it one
of three things: nothing, spend a try (`Spend`), refill (`Refill`). The snapshot
carries the same invariant, so restoring one re-establishes it. `DeadSlotCorrect` and
`AccessCorrect` are about single steps: each method is a function of one slot, so they follow
from what it does to a dead slot and to one without access.

**`GpProofs`: card content.** `ContentTypeCorrect` first; then `UniqueAids`, `OwnerExists` and
`LinkedIsReachable` together (`ContentInv`), the latter two as long as no restore has moved the entries
they are about: INSTALL's effect is stated once
(`InstallEffect`: one empty slot is filled, at most one load file grows) and all three
follow from it. `LinkedIsReachable` needs `UniqueAids`, because a cascade
finds *the* load file of an AID, and a linked applet must be listed by that one.

**`GpProofs`: channels.** `ChannelTypeCorrect`, `SelectsSelectableCorrect`,
`ExactAidWinsCorrect`, `RestoreKeepsContentCorrect`, with the content commands interleaved. The
searches take the lowest slot of a set, which exists because a non-empty set of naturals has
a least element; an exact match ends the search in its first pass. For the
snapshot, packing puts the i-th occupied slot into slot i, so the entries are the same
set.

**`GpProofs`: session.** `SessionTypeCorrect`, `ChainContiguousCorrect`,
`NothingPendingCorrect`. Contiguity needs the type (the gathered blocks are a
sequence of block numbers) and `AcceptContiguous`: a block is taken only if its
number is the next one, or 0 for a new chain. `KeysAreNewestCorrect` is about a
lookup by CHOOSE; the inductive invariant `KeysInv` says it without one: entries and `newest`
agree in both directions, no version has two entries, and slot 1 keeps version 1.
`ChangesNeedSessionCorrect` goes through the actions: each one that changes content, keys or
the load buffer has the session guard.

**`ScpProofs`.** `ScpTypeCorrect`, `SessionAgreementCorrect`, `AcceptedInOrderCorrect`,
`CountersInStepCorrect`. The card only knows what it is sent, and the link may send it anything
it has ever seen, so every invariant of the card rests on one of the messages.
`Openings`: an EXTERNAL AUTHENTICATE on the link names challenges and a level the host opened a
session with. For the order of commands (`ScpInv`), both ends keep a *chain* (`HostChain`,
`CardChain`): the chaining value is the authentication followed by the commands so far, and
`Places` says of a command on the link that its MAC covers exactly the commands
the host sent before it. A card that accepts it therefore holds the same prefix. The counters
are tied to the chain (`LastCtr`), which is why they agree after a wrap.

**`QemuProofs`.** `QemuTypeCorrect`, `ImplementsLinkCorrect`, `AnswerMatchesCorrect`. The first
half is about rings as operators: remainders, `AdvanceCell` (wrapping an index does not move its
cell), `HeadMoves` and `TailMoves` (what an index move does to the number of readable bytes),
`WriteKeeps` (a frame that fits does not touch what is readable). A ring is `Whole` if frame
boundaries lead from the tail to the head; `Unread` is a recursive function, whose existence
(`DecodedExists`) and values are obtained by least counterexample. `PublishOne` and `TakeFirst` are the
two facts a queue is made of. The inductive invariant `BridgeInv` says that both rings are
whole, that the bridge's old copy of `cmd_head` shows at most what is there and its old copy
of `rsp_tail` at most the room there is, and that a frame which was written and not published
lies at the head and fits. That cells are bytes is a second invariant (`Octets`): a frame that fits is
shorter than the ring, so both digits of its length are bytes (`FrameBytes`). `AnswerMatches` needs in addition (`OneAnswer`) that
the guest's idea of the card's power state is where the commands in the ring lead to, and that
at most one answer is due: lost, waiting, being written, or that of the last command.

**`ProactiveProofs`.** `ProactiveTypeCorrect`, `FetchedIsQueuedCorrect`, `EventListCorrect`,
`ChannelsCorrect`. The last three are not inductive: two are about idle moments. `Phases` says where a command is (in the
buffer, announced, in the terminal's hands) and, unless commands were tangled, that it is whole; `Records`
how the two sides' records differ
meanwhile: the card has taken a new event list over already and keeps the one before. Nothing is
assumed about when the application queues a command; each queueing either overwrites nothing
that is still needed, which keeps both, or sets `tangled`.

**`TransactionProofs`.** `TypeCorrect`, `AbortRestoresCorrect`. The statement is
about one step and is not implied by the type. The inductive invariant adds `Tied`: unallocated
bytes are zero (so allocation changes no byte), journal entries are for
allocated bytes outside `Bypass`, the earliest entry of each byte holds its value from
before the transaction, and a byte without an entry still has that value. It holds of the
snapshot too, or a restore in mid-transaction would break it. `AppendDecides` is the
lemma about journals: a new entry never takes the decision from an earlier one.

**`SimProofs`: the USIM application.** `SelectionSoundCorrect`, `SnapshotFaithfulCorrect`, `QueuedIsCurrentCorrect`,
`TypeCorrect` from one invariant `UsimInv`, in which every open channel's context is *good*: well typed and
coherent. The lemmas follow the code: `FidGood`, `AidGood`, `AlongGood` and `PathGood` show
that each way of selecting takes a good context to a good one, broken-off walks included;
`RestoreExact` that a good context is found again from its identifiers, which is where
distinct DF identifiers and coherence are both needed. `DeactivatedIsFrozenCorrect` and
`PhonebookCorrect` are about steps: `ContentSteps` reduces every step to an update of one file, an
INCREASE, or no change of contents, and `CountersMove` shows that a counter modulo its
width moves at every increment. `PhonebookCorrect` assumes that the profile has a phonebook.

**`SimProofs`: the card.** `OutNeedsPinsCorrect`, `GsmOutNeedsPinCorrect`, `SimTypeCorrect`, for the standard
reset policy. The invariant adds to `UsimInv` that PINs are *paid for* (`Paid`): while
the card is ready a verified key was presented in this session; and that a queued IMPI and a queued result of
the GSM algorithm were. `PinMethods` states what the five methods of `Pin` do to `verified`
and `enabled`. The clause is conditional on `state`, because after PowerOff the PINs are still
verified; power-on re-establishes it through the reset effects.

**`AuthProofs`.** All five properties from `AuthInv`, which adds three facts: the threshold has
passed every accepted number (`Passed`), or stands at the last one; a Ks that has run out has
lifetime zero (`SpentIsZero`); and a token carries the threshold of its time (`TokenIsThreshold`).

## 5. What is only model-checked

- Liveness (`GuestIsAnswered`, `CommandAnswered`): fairness and ENABLED are out of the prover's
  reach.

Every safety property and every action property of a passing run is a theorem, and so is the
refinement.

The real moduli (2^16, 2^32, 2^48, 256) are reached by the proofs; in the runs they are the
small ones above.

## 6. Findings

One run ends in a counterexample to what the documentation says of the code:
`transaction_store`, property `AbortRestores`. The store instructions of the interpreter never call
`record_write`, so an abort restores nothing.

### Divergences that no run carries

Met while modelling; the models contain the behaviour of the code in each case
(unless marked with a dash, where the part is not modelled), and no property
claims the contrary: where one comes near, its comment names the exception. Paths are below `src/crates/`.

| Code | What it does | What is written |
|---|---|---|
| `simrs-pin/src/lib.rs:559` | a PIN blocked through CHANGE or DISABLE stays verified | the state diagram, `:14` |
| `simrs-pin/src/lib.rs:690` | spending the PUK leaves the PIN as it was | `:658` |
| `simrs-gp-open/src/lifecycle.rs:131` | unlocking takes an applet to any life cycle value the command names | `:120` |
| `simrs-gp-open/src/lib.rs:522`, `:544` | a terminated card still carries out GP commands and SELECT | `lifecycle.rs:47` |
| `simrs-gp-open/src/commands.rs:542` | a channel keeps the index of an applet that was deleted | `channel.rs:16` |
| `simrs-gp-open/src/snapshot.rs:263` | tables are compacted, slot numbers held elsewhere (`owner_sd_index`, instance lists, selected applets) are not adjusted; `OwnerExists` and `LinkedIsReachable` hold until then (`moved`) | `:100` |
| `simrs-gp-open/src/lib.rs:1260` | INITIALIZE UPDATE in a session keeps its chain and target | `:364` |
| `simrs-gp-open/src/commands.rs:318` | the personalization target is a slot number that may have a new owner by the time of STORE DATA | `lib.rs:151` |
| `simrs-gp-scp/src/cmac.rs:272` | SCP01 computes every C-MAC from a zero chaining value, so `AcceptedInOrder` excludes SCP01 | `simrs-gp-scp/src/lib.rs:573` |
| `simrs-jcvm/src/lib.rs:3409` | returning from `process` leaves a transaction open | `simrs-jcre/src/transaction.rs:17` |
| `simrs-gp-open/src/commands.rs:505` | DELETE of a single applet leaves its slot number in its load file's list, and a full list drops a new instance: a later cascade removes the applet installed in that slot since, and misses unlisted ones | `commands.rs:476` |
| `simrs-gp-card/src/lib.rs:210` | power off and power on leave the secure channel session authenticated; only Reset ends it | `simrs-gp-open/src/lib.rs:362` |
| `simrs-gp-open/src/commands.rs:725` | a refused LOAD leaves the fill level of its buffer, also across sessions and resets | |
| `simrs-gp-open/src/snapshot.rs:100` | the key store and the load buffer are not part of the snapshot | "the entire `GpOpen` state" |
| – `simrs-gp-keys/src/lib.rs:419` | a restored SCP01 key set is an SCP02 key set | |
| – `simrs-qemu/src/lib.rs:309` | `flush_indices` writes the bridge's copies of all four indices, two of which the guest owns; a command announced since the last `step` is lost | `simrs-transport-shmem/src/lib.rs:100` |
| `simrs-sim/src/lib.rs:436` | Reset of a card that is off makes it ready | `:421`, `simrs-card-api/src/lib.rs:273` |
| `simrs-gsm/src/lib.rs:497` | READ RECORD, UPDATE RECORD and INCREASE ask for no PIN, so `GsmOutNeedsPin` is about transparent files | |
| `simrs-usim/src/lib.rs:1580` | INCREASE does not look at the deactivation table, so `DeactivatedIsFrozen` excludes cyclic files | |
| `simrs-usim/src/lib.rs:2397` | a full deactivation table drops the request, which is answered 90 00 | |
| `simrs-usim/src/lib.rs:2637` | REFRESH with qualifier 04 clears the deactivation table | `simrs-fs/src/lib.rs:1595` |
| `simrs-milenage/src/lib.rs:686` | at the last sequence number the threshold stops, and the same challenge is accepted again, so `NoReplay` excludes that number | `:605`, `:262` |
| `simrs-usim/src/lib.rs:813` | setting a lifetime revives a Ks that has run out, so `NafNeedsLiveKs` is about the lifetime last set | "until a new bootstrap is performed", `:807` to `:811` |
| `simrs-usim/src/lib.rs:1987` | GET IDENTITY asks for no PIN before it computes the SUCI, which under the null scheme is the MSIN of EF_IMSI, so `OutNeedsPins` excepts it; IMPI and domain ask for PIN1 (`:2206`, `:2255`) | |
| `simrs-usim/src/lib.rs:2020`, `:2213` | GET IDENTITY works on a deactivated EF_IMSI or EF_AD as on any, so `DeactivatedIsFrozen` is about the file commands | |
| `simrs-proactive/src/lib.rs:1759` | a command queued while another is waiting overwrites it, and one of the same kind queued while another is being executed overwrites the saved subscriptions or the channel a response is applied to; `EventListAgreed`, `ChannelsAgreed` and `FetchedIsQueued` except this (`tangled`) | |
| `simrs-usim/src/lib.rs:2527` | an answer without Command Details ends a session and leaves an event list that may not have been accepted, or a channel table that may not be true (`tangled`) | |
| `simrs-usim/src/lib.rs:2510` | FETCH with the length of an earlier, shorter command cuts the newer one off | |
| – `simrs-t0/src/lib.rs:1089` | every procedure byte restarts the data of a case 2 command, so of a response sent byte by byte (~INS) only the last byte is kept | `:1141` |
| – `simrs-t0/src/lib.rs:1099` | an invalid procedure byte sets `Idle` and leaves `header_pos` at 5; the next terminal byte is written past the header unless `reset` is called first | `:846` |
| – `simrs-t0/src/lib.rs:1195` | the frame of a response shorter than P3, or without data, begins with INS; `feed_card_byte` then takes its status word for data | `:1188` |

## 7. Plan

What is left, in this order; (P) marks proofs.

1. Proofs about what is modelled beyond the properties of the runs: an atomic heap that
   `Transaction` implements (P), an ordered channel that `Scp` implements (P).
2. `GpCard`: channels, session and content together, with the SIM applet
   reached by its fixed registry index.
3. The snapshots of the USIM and GSM applications and of `Sim`, with the restore
   that fails between them.
4. `Usim`, `Proactive` and `Auth` in one composition: REFRESH, whose acknowledgement
   moves all three, and the status override on every command.
5. `Scp`: R-MAC sessions, response wrapping, pseudo-random card challenges.
6. The OTA counter rule over an unreliable link; `T0`; `Interposer`.
7. `Jcvm`: frames, exceptions and contexts above `Transaction`.
8. Torn reads of the index words and messages larger than the reader's buffer in
   `QemuBridge`; `flush_indices`.

An abstract specification is stated where a component has a promise of its own
that its users rely on: `QemuLink` now, an atomic heap for `Transaction` and a
plain ordered channel for `Scp` later.

## 8. Not modelled, and why

- Within modelled parts: status words and response data (except the answers on
  the ring), privileges and the life cycle of security domains in
  the registry (no other command reads them), object headers and
  types in the heap, key diversification, offsets and lengths within a file, the
  TLV texts of toolkit commands, the snapshots of the applications.
- OTA, T=0 and the interposer: section 7.
- The JCVM's instruction set, firewall and CAP loader: beyond a useful abstraction as a
  whole; what they do to the journal and to the LOAD buffer is modelled.
- Cryptographic primitives, constant-time code: functions over large words,
  tested against vectors; symbolic here.
- Encodings (BER-TLV, CAP files, profiles, pcap), the JavaCard compiler and
  assembler: batch programs without protocol state.
- Other transports, peripherals, the C interface and language bindings: blocking
  I/O loops around the card's own state machine; virtio has descriptor codecs only.
- Reference simulators and harnesses: they drive the card.
