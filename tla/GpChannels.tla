---------------------------- MODULE GpChannels ----------------------------
(***************************************************************************)
(* simrs-gp-open: the logical channels, SELECT by AID and MANAGE CHANNEL,  *)
(* next to the content commands that change the registry a channel points  *)
(* into, and the snapshot.  A channel keeps the registry index of its      *)
(* applet; chosen is the AID that SELECT picked, which the code reports    *)
(* and does not store.  Content commands need a secure channel session;    *)
(* GpSession models it, and here they may come at any time.                *)
(***************************************************************************)
EXTENDS GpRegistry

CONSTANTS
    MaxChannels,      \* 4: the basic channel and three supplementary ones
    IsdAid,           \* AID of the issuer security domain
    Requests          \* AIDs a host may ask for

ASSUME ChannelsAssumption == MaxChannels \in Nat \ {0}

VARIABLES
    channels,         \* ChannelState of every channel
    chosen            \* history: AID of the applet SELECT picked, or None

channelVars == <<channels, chosen>>
allVars == <<contentVars, channelVars>>

Channels == 0 .. MaxChannels - 1
open_default == [open |-> TRUE, selected |-> None]
Closed == [open |-> FALSE, selected |-> None]

\* ---- registry.rs: the AID search ----
PrefixOf(a, b) == \A i \in DOMAIN a : i \in DOMAIN b /\ a[i] = b[i]
Lowest(S) == {s \in S : \A t \in S : s <= t}
Selectable == {s \in Slots : registry[s] # None /\ is_selectable(registry[s].lc)}

\* Mutant: a locked or merely installed applet is found as well.
find_by_aid_any(req) ==
    Lowest({s \in Slots : registry[s] # None /\ registry[s].aid = req})
\* Mutant: the prefix pass comes before the exact one.
find_by_aid_prefix_first(req) ==
    LET prefix == {s \in Selectable : PrefixOf(registry[s].aid, req)}
        partial == {s \in Selectable : PrefixOf(req, registry[s].aid)}
    IN Lowest(IF prefix # {} THEN prefix ELSE partial)

\* The slot found for a request, as a set: the exact match, else the first
\* applet whose AID begins the request, else the first that the request begins.
find_by_aid(req) ==
    LET exact == {s \in Selectable : registry[s].aid = req}
        prefix == {s \in Selectable : PrefixOf(registry[s].aid, req)}
        partial == {s \in Selectable : PrefixOf(req, registry[s].aid)}
    IN Lowest(IF exact # {} THEN exact ELSE IF prefix # {} THEN prefix ELSE partial)

find_by_aid_after(req, start) ==
    Lowest({s \in Selectable : s > start /\ PrefixOf(req, registry[s].aid)})

\* ---- Actions ----
\* select_applet and deselect have no effect on a closed channel.
SetSelected(c, s, aid) ==
    /\ channels[c].open
    /\ channels' = [channels EXCEPT ![c].selected = s]
    /\ chosen' = [chosen EXCEPT ![c] = aid]
    /\ UNCHANGED contentVars

\* SELECT by AID, first or only occurrence; the ISD is looked at before the
\* registry and is the absence of a selected applet.
select_first(c, req) ==
    IF PrefixOf(req, IsdAid) THEN SetSelected(c, None, None)
    ELSE \E s \in find_by_aid(req) : SetSelected(c, s, registry[s].aid)

\* SELECT with P2 = 02: the next match after the selected slot.
select_next(c, req) ==
    LET start == IF channels[c].selected = None THEN 0 ELSE channels[c].selected
    IN \E s \in find_by_aid_after(req, start) : SetSelected(c, s, registry[s].aid)

SetChannel(c, state) ==
    /\ channels' = [channels EXCEPT ![c] = state]
    /\ chosen' = [chosen EXCEPT ![c] = None]
    /\ UNCHANGED contentVars

\* MANAGE CHANNEL open; P2 = 0 asks for the lowest free supplementary channel.
manage_channel_open(p2) ==
    LET free == {c \in Channels \ {0} : ~channels[c].open}
    IN \E c \in IF p2 = 0 THEN Lowest(free) ELSE free \cap {p2} : SetChannel(c, open_default)

\* Mutant: the basic channel can be closed.
manage_channel_close_any(p2) == channels[p2].open /\ SetChannel(p2, Closed)
manage_channel_close(p2) == p2 # 0 /\ channels[p2].open /\ SetChannel(p2, Closed)

\* The channels are saved and restored as they are, with their raw indices.
gp_open_restore_state == RestoreContent /\ UNCHANGED channelVars

ChannelsInit ==
    /\ ContentInit
    /\ channels = [c \in Channels |-> IF c = 0 THEN open_default ELSE Closed]
    /\ chosen = [c \in Channels |-> None]

ChannelsNext ==
    \/ ContentCommand /\ UNCHANGED <<moved, channelVars>>
    \/ \E c \in Channels, req \in Requests : select_first(c, req) \/ select_next(c, req)
    \/ \E p2 \in Channels : manage_channel_open(p2) \/ manage_channel_close(p2)
    \/ gp_open_restore_state

ChannelsSpec == ChannelsInit /\ [][ChannelsNext]_allVars

\* ---- Properties ----
\* A channel holds a registry index or nothing, and a closed one nothing; the
\* basic channel is always open, whatever MANAGE CHANNEL and snapshots do.
ChannelTypeOK ==
    /\ channels \in [Channels -> [open : BOOLEAN, selected : Slots \cup {None}]]
    /\ chosen \in [Channels -> Aids \cup {None}]
    /\ \A c \in Channels : ~channels[c].open => channels[c].selected = None
    /\ channels[0].open

\* What SELECT makes a channel point at is selectable at that moment: the three
\* passes of the search and the next-occurrence search skip applets that are
\* locked, only installed or gone.  Nothing is said of a channel whose index
\* stays: a DELETE, a lock or a restore leaves it, whatever the slot then holds.
SelectsSelectable ==
    [][\A c \in Channels :
          channels'[c].selected \notin {None, channels[c].selected}
          => channels'[c].selected \in Selectable]_allVars

\* A host that asks for the exact AID of a selectable applet gets that applet,
\* also when a shorter AID that begins it sits in an earlier slot.
ExactAidWins ==
    [][\A c \in Channels, req \in Requests :
          /\ select_first(c, req)
          /\ ~PrefixOf(req, IsdAid)
          /\ \E s \in Selectable : registry[s].aid = req
          => chosen'[c] = req]_allVars

\* A snapshot and its restore lose no entry and invent none, and change
\* nothing at all when every table is packed.
Entries(arr, index) == {arr[i] : i \in index} \ {None}
RestoreKeepsContent ==
    [][gp_open_restore_state =>
          /\ Entries(registry, Slots)' = Entries(registry, Slots)
          /\ Entries(files, FileSlots)' = Entries(files, FileSlots)
          /\ Entries(sds, SdSlots)' = Entries(sds, SdSlots)
          /\ Packed(registry, Slots) => registry' = registry]_allVars
=============================================================================
