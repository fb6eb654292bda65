------------------------------- MODULE Usim --------------------------------
(***************************************************************************)
(* simrs-usim: the file, PIN and channel side of UsimApp.  A logical       *)
(* channel has a selection context of its own; the files' contents, the    *)
(* table of deactivated files, the PINs and the response queue that GET    *)
(* RESPONSE empties are shared by all channels.                            *)
(*                                                                         *)
(* One action is one APDU.  Status words are left out: a refused command   *)
(* is the one that changes nothing but the response queue, which every     *)
(* command except GET RESPONSE clears first.  Toolkit sessions are in      *)
(* Proactive, of which only the effect of an acknowledged REFRESH is here; *)
(* the content of AUTHENTICATE responses is in Auth.  The queue describes  *)
(* the file whose FCP it holds or names a computed result: "Auth" is one   *)
(* that shows no file's content, "Suci" the identity of the null scheme,   *)
(* with the MSIN of EF_IMSI in clear, and "Impi" an IMS identity or domain *)
(* made from EF_IMSI and EF_AD.                                            *)
(***************************************************************************)
EXTENDS Files

CONSTANTS
    Chans,             \* logical channels, 0 is the basic one
    ReadAc, UpdateAc,  \* access conditions of the EFs: a PIN key or
                       \* "Always", "Never"
    HasSfi,            \* EFs with a short file identifier
    Phonebook, Adn, Psc, Cc, Puid,   \* DF 5F3A and its EFs, if the profile has it
    PinSlots,          \* the PIN slots as personalised
    PinValues,         \* values presented as PIN or PUK
    Paths,             \* paths a SELECT may give
    NoRsp, Closed

P == INSTANCE Pin WITH Keys <- DOMAIN PinSlots, Values <- PinValues, N <- 5,
                       Limits <- {PinSlots[k].pin_max : k \in DOMAIN PinSlots},
                       slots <- PinSlots, hist <- PinSlots, saved <- PinSlots

ASSUME ChansAssumption == Chans \subseteq Nat /\ 0 \in Chans
\* The phonebook's files are in no other DF, none is cyclic, and its counters
\* count (EF PSC has four bytes, EF CC two).
ASSUME PhonebookAssumption ==
    Phonebook \in Dfs =>
    /\ {Adn, Psc, Cc} \subseteq Kids[Phonebook] \cap Efs
    /\ Structure[Psc] = "transparent" /\ Structure[Cc] = "transparent"
    /\ ValMax[Psc] > 0 /\ ValMax[Cc] > 0
    /\ Psc # Cc /\ Adn \notin {Psc, Cc, Puid}
    /\ \A e \in Kids[Phonebook] \cap Efs :
          /\ Structure[e] # "cyclic"
          /\ \A d \in Dfs : e \in Kids[d] => d = Phonebook
\* Whoever may increase a cyclic file may read it.
ASSUME CyclicAssumption ==
    \A e \in Efs : Structure[e] = "cyclic" => ReadAc[e] \in {"PIN1", "Always", UpdateAc[e]}
\* PINs are personalised with numbers for counters, and none as verified.
ASSUME PinsAssumption ==
    /\ PinSlots \in [DOMAIN PinSlots -> [pin : PinValues, pin_retries : Nat, pin_max : Nat,
                                        puk : PinValues, puk_retries : Nat,
                                        enabled : BOOLEAN, verified : {FALSE}]]
    /\ DOMAIN PinSlots \cap {"Always", "Never"} = {}
Identities == {"Suci", "Impi"}
Computed == {"Auth"} \cup Identities
ASSUME TokensAssumption ==
    /\ Closed \notin Ctx
    /\ Computed \cap (Files \cup {NoFile}) = {}
    /\ NoRsp \notin [from : Chans, file : Files \cup Computed]

VARIABLES
    fs,        \* UsimApp.fs (channel 0) and channels
    content,   \* UsimApp.data
    dead,      \* UsimApp.deactivation
    queue,     \* UsimApp.rsp_queue: what it describes, and on which channel
    lastAid,   \* last_aid_match
    pins,      \* UsimApp.pin
    shown,     \* history: keys presented correctly since the card was reset
    out        \* the EF, or the identity, whose content the last response carried

usimVars == <<fs, content, dead, queue, lastAid, pins, shown, out>>

Rsp(ch, x) == [from |-> ch, file |-> x]
Open(ch) == fs[ch] # Closed
Template == [e \in Efs |-> [n \in 1 .. Records[e] |-> 0]]

Init ==
    /\ fs = [ch \in Chans |-> IF ch = 0 THEN NewCtx ELSE Closed]
    /\ content = Template
    /\ dead = {}
    /\ queue = NoRsp
    /\ lastAid = FALSE
    /\ pins = PinSlots
    /\ shown = {}
    /\ out = NoFile

\* ---- SELECT ----
\* What the three forms of SELECT share: the context moves even when the walk
\* fails, and the response queue takes the FCP unless P2 asks for no data.  A
\* deactivated EF is selected with a warning and its FCP is queued as well.
Selects(ch, r, noData) ==
    /\ fs' = [fs EXCEPT ![ch] = r.ctx]
    /\ queue' = IF r.ok /\ ~noData THEN Rsp(ch, r.sel) ELSE NoRsp
    /\ out' = NoFile
    /\ UNCHANGED <<content, dead, pins, shown>>

select_fid(ch, fid, noData) ==
    /\ Open(ch)
    /\ Selects(ch, select_by_fid(fs[ch], fid), noData)
    /\ UNCHANGED lastAid

\* next: P2 = 02, refused after a match by any channel.
select_aid(ch, slots, next, noData) ==
    /\ Open(ch)
    /\ IF next /\ lastAid
       THEN Selects(ch, NotFound(fs[ch]), noData) /\ UNCHANGED lastAid
       ELSE LET r == select_by_aid(fs[ch], slots)
            IN Selects(ch, r, noData) /\ lastAid' = r.ok

select_path(ch, path, from_mf, noData) ==
    /\ Open(ch)
    /\ Selects(ch, select_by_path(fs[ch], path, from_mf), noData)
    /\ UNCHANGED lastAid

\* GET RESPONSE asks for no PIN.  It hands out the queue, whatever Le, and
\* empties it; refused for its P1 or P2 it leaves the queue as it is.
handle_get_response(ch) ==
    /\ Open(ch)
    /\ \/ /\ queue' = NoRsp
          /\ out' = IF queue # NoRsp /\ queue.file \in Identities THEN queue.file ELSE NoFile
       \/ UNCHANGED queue /\ out' = NoFile
    /\ UNCHANGED <<fs, content, dead, lastAid, pins, shown>>

\* ---- Access to contents ----
is_access_granted(k) ==
    k \in DOMAIN pins => (~pins[k].enabled \/ pins[k].verified)
pin1_denied == ~is_access_granted("PIN1")
access_denied(ac) == ac = "Never" \/ (ac # "Always" /\ ~is_access_granted(ac))
is_deactivated(e) == Fid[e] \in dead

\* The EF a binary command works on: the current one, or one of the current
\* DF's by short identifier.
ByP1(ch) == ({fs[ch].ef} \ {NoFile}) \cup (Kids[fs[ch].df] \cap HasSfi)

\* The record commands' P1 and P2; 0 stands for a refusal.
resolve_record_num(p1, mode) ==
    CASE mode = "absolute" -> p1
      [] mode = "next" -> p1 + 1
      [] mode = "previous" -> IF p1 <= 1 THEN 0 ELSE p1 - 1

Readable(e) == ~pin1_denied /\ ~access_denied(ReadAc[e]) /\ ~is_deactivated(e)
\* Mutant: the deactivation table is not consulted.
updatable_when_dead(e) == ~pin1_denied /\ ~access_denied(UpdateAc[e])
Updatable(e) == ~pin1_denied /\ ~access_denied(UpdateAc[e]) /\ ~is_deactivated(e)

\* Any read: READ BINARY, READ RECORD and SEARCH RECORD.
Reads(e) ==
    /\ queue' = NoRsp
    /\ out' = IF Readable(e) THEN e ELSE NoFile
    /\ UNCHANGED <<fs, content, dead, lastAid, pins, shown>>

handle_read_binary(ch, e) ==
    /\ Open(ch) /\ e \in ByP1(ch)
    /\ Structure[e] = "transparent"
    /\ Reads(e)

handle_read_record(ch, p1, mode) ==
    /\ Open(ch) /\ fs[ch].ef # NoFile
    /\ Structure[fs[ch].ef] # "transparent"
    /\ resolve_record_num(p1, mode) \in 1 .. Records[fs[ch].ef]
    /\ Reads(fs[ch].ef)

handle_search_record(ch) ==
    /\ Open(ch) /\ fs[ch].ef # NoFile
    /\ Structure[fs[ch].ef] # "transparent"
    /\ Reads(fs[ch].ef)

\* STATUS, TERMINAL CAPABILITY, the ETSI commands without effect on files, and
\* every command refused for its parameters or for want of a current EF.
handle_status(ch) ==
    /\ Open(ch)
    /\ queue' = NoRsp
    /\ out' = NoFile
    /\ UNCHANGED <<fs, content, dead, lastAid, pins, shown>>

increment_counter(c, e) ==
    [c EXCEPT ![e] = [@ EXCEPT ![1] = (c[e][1] + 1) % (ValMax[e] + 1)]]

\* Mutant: CC is left alone.
counters_psc_only(c, df, e) ==
    IF df # Phonebook \/ e \in {Psc, Cc, Puid} THEN c ELSE increment_counter(c, Psc)
\* increment_phonebook_counters, after a successful update of e.
increment_phonebook_counters(c, df, e) ==
    IF df # Phonebook \/ e \in {Psc, Cc, Puid} THEN c
    ELSE IF e = Adn THEN increment_counter(increment_counter(c, Psc), Cc)
    ELSE increment_counter(c, Psc)

Updates(ch, e, written) ==
    /\ content' = IF Updatable(e)
                  THEN increment_phonebook_counters(written, fs[ch].df, e) ELSE content
    /\ queue' = NoRsp
    /\ out' = NoFile
    /\ UNCHANGED <<fs, dead, lastAid, pins, shown>>

handle_update_binary(ch, e, v) ==
    /\ Open(ch) /\ e \in ByP1(ch)
    /\ Structure[e] = "transparent" /\ v \in 0 .. ValMax[e]
    /\ Updates(ch, e, write_binary(content, e, v))

handle_update_record(ch, p1, mode, v) ==
    LET e == fs[ch].ef
        n == resolve_record_num(p1, mode)
    IN /\ Open(ch) /\ e # NoFile
       /\ Structure[e] # "transparent" /\ n \in 1 .. Records[e] /\ v \in 0 .. ValMax[e]
       /\ Updates(ch, e, write_record(content, e, n, v))

\* INCREASE does not consult the deactivation table.
handle_increase(ch, v) ==
    LET e == fs[ch].ef
        may == ~pin1_denied /\ ~access_denied(UpdateAc[e]) /\ Structure[e] = "cyclic"
    IN /\ Open(ch) /\ e # NoFile
       /\ content' = IF may THEN increase(content, e, v) ELSE content
       /\ out' = IF may /\ content[e][1] + v <= ValMax[e] THEN e ELSE NoFile
       /\ queue' = NoRsp
       /\ UNCHANGED <<fs, dead, lastAid, pins, shown>>

\* What AUTHENTICATE and GET IDENTITY compute goes to the response queue, unless
\* the command is refused.  Such a result belongs to no channel's selection and
\* is written down as the basic channel's.
Computes(ch, results) ==
    /\ Open(ch)
    /\ queue' \in {NoRsp} \cup {Rsp(0, x) : x \in results}
    /\ out' = NoFile
    /\ UNCHANGED <<fs, content, dead, lastAid, pins, shown>>

\* AUTHENTICATE asks for no PIN.
handle_authenticate(ch) == Computes(ch, {"Auth"})

\* GET IDENTITY: the SUCI asks for no PIN, and under the null scheme, which
\* EF_SUCI_CALC_INFO may name, it is the MSIN in clear; IMPI and domain ask for
\* PIN1.  None looks at the deactivation table.
handle_get_identity(ch) ==
    Computes(ch, {"Auth", "Suci"} \cup (IF pin1_denied THEN {} ELSE {"Impi"}))

\* ---- PIN commands ----
PinCommand(ch, k, slot, proof) ==
    /\ Open(ch) /\ k \in DOMAIN pins
    /\ pins' = [pins EXCEPT ![k] = slot]
    /\ shown' = IF proof THEN shown \cup {k} ELSE shown
    /\ queue' = NoRsp
    /\ out' = NoFile
    /\ UNCHANGED <<fs, content, dead, lastAid>>

handle_verify(ch, k, v) ==
    PinCommand(ch, k, P!verify(pins[k], v), pins[k].pin = v /\ pins[k].pin_retries > 0)
handle_disable_pin(ch, k, v) == PinCommand(ch, k, P!disable(pins[k], v), FALSE)
handle_enable_pin(ch, k, v) == PinCommand(ch, k, P!enable(pins[k], v), FALSE)
handle_change_ref_data(ch, k, v, new) == PinCommand(ch, k, P!change(pins[k], v, new), FALSE)
handle_unblock(ch, k, v, new) == PinCommand(ch, k, P!unblock(pins[k], v, new), FALSE)

\* ---- Life cycle and channels ----
\* Neither command looks at the PIN, and a full table is not reported.
handle_deactivate_file(ch) ==
    /\ Open(ch) /\ fs[ch].ef # NoFile
    /\ dead' = deactivate_file(dead, Fid[fs[ch].ef])
    /\ queue' = NoRsp
    /\ out' = NoFile
    /\ UNCHANGED <<fs, content, lastAid, pins, shown>>

handle_activate_file(ch) ==
    /\ Open(ch) /\ fs[ch].ef # NoFile
    /\ dead' = activate_file(dead, Fid[fs[ch].ef])
    /\ queue' = NoRsp
    /\ out' = NoFile
    /\ UNCHANGED <<fs, content, lastAid, pins, shown>>

\* MANAGE CHANNEL, sent on the open channel ch.  A channel the card chooses is
\* the lowest free one.
Opens(new) ==
    /\ fs' = [fs EXCEPT ![new] = NewCtx]
    /\ queue' = NoRsp
    /\ out' = NoFile
    /\ UNCHANGED <<content, dead, lastAid, pins, shown>>
manage_channel_assign(ch) ==
    /\ Open(ch)
    /\ \E new \in Chans :
          /\ ~Open(new) /\ \A c \in Chans : c < new => Open(c)
          /\ Opens(new)
manage_channel_open(ch, new) ==
    /\ Open(ch) /\ ~Open(new)
    /\ Opens(new)

\* Mutant: the queue outlives the channel whose response it holds.
close_keeps_queue(ch, c) ==
    /\ Open(ch) /\ c # 0 /\ Open(c)
    /\ fs' = [fs EXCEPT ![c] = Closed]
    /\ out' = NoFile
    /\ UNCHANGED <<content, dead, queue, lastAid, pins, shown>>
manage_channel_close(ch, c) ==
    /\ Open(ch) /\ c # 0 /\ Open(c)
    /\ fs' = [fs EXCEPT ![c] = Closed]
    /\ queue' = NoRsp
    /\ out' = NoFile
    /\ UNCHANGED <<content, dead, lastAid, pins, shown>>

\* A command on a channel that is not open ends before the queue is cleared.
closed_channel(ch) ==
    /\ ~Open(ch)
    /\ out' = NoFile
    /\ UNCHANGED <<fs, content, dead, queue, lastAid, pins, shown>>

\* apply_refresh, after a TERMINAL RESPONSE to a REFRESH the terminal carried
\* out; q is the qualifier.
apply_refresh(q) ==
    /\ fs' = CASE q \in {0, 1, 3} -> [ch \in Chans |-> IF Open(ch) THEN NewCtx ELSE Closed]
               [] q \in {4, 5} -> [ch \in Chans |-> IF ch = 0 THEN NewCtx ELSE Closed]
               [] OTHER -> fs
    /\ dead' = IF q = 4 THEN {} ELSE dead
    /\ queue' = NoRsp
    /\ out' = NoFile
    /\ UNCHANGED <<content, lastAid, pins, shown>>

\* ---- Reset ----
\* apply_reset_effects with ResetEffects::all (standard_reset_policy).
reset_verified(ps) == [k \in DOMAIN ps |-> [ps[k] EXCEPT !.verified = FALSE]]
reset ==
    /\ fs' = [ch \in Chans |-> IF ch = 0 THEN NewCtx ELSE Closed]
    /\ pins' = reset_verified(pins)
    /\ shown' = {}
    /\ queue' = NoRsp
    /\ lastAid' = FALSE
    /\ out' = NoFile
    /\ UNCHANGED <<content, dead>>

\* Identifiers a terminal may name.
Fids == {Fid[x] : x \in Files} \cup {MfFid, CurAdfFid}
Modes == {"absolute", "next", "previous"}
P1s == 0 .. 2
Vals == UNION {0 .. ValMax[e] : e \in Efs}

Select(ch) ==
    \/ \E fid \in Fids, noData \in BOOLEAN : select_fid(ch, fid, noData)
    \/ \E slots \in SUBSET DOMAIN Adfs, next, noData \in BOOLEAN :
          select_aid(ch, slots, next, noData)
    \/ \E path \in Paths, from_mf \in BOOLEAN : select_path(ch, path, from_mf, FALSE)

FileCommand(ch) ==
    \/ \E e \in Efs : handle_read_binary(ch, e)
    \/ \E p1 \in P1s, mode \in Modes : handle_read_record(ch, p1, mode)
    \/ handle_search_record(ch)
    \/ \E e \in Efs, v \in Vals : handle_update_binary(ch, e, v)
    \/ \E p1 \in P1s, mode \in Modes, v \in Vals : handle_update_record(ch, p1, mode, v)
    \/ \E v \in Vals : handle_increase(ch, v)
    \/ handle_deactivate_file(ch)
    \/ handle_activate_file(ch)

\* The new PIN is the personalised one: other values are Pin's subject.
PinCommands(ch) ==
    \E k \in DOMAIN PinSlots, v \in PinValues :
       \/ handle_verify(ch, k, v)
       \/ handle_disable_pin(ch, k, v)
       \/ handle_enable_pin(ch, k, v)
       \/ handle_change_ref_data(ch, k, v, PinSlots[k].pin)
       \/ handle_unblock(ch, k, v, PinSlots[k].pin)

ChannelCommand(ch) ==
    \/ manage_channel_assign(ch)
    \/ \E c \in Chans : manage_channel_open(ch, c) \/ manage_channel_close(ch, c)

\* UsimApp::handle on channel ch.
handle(ch) ==
    \/ Select(ch)
    \/ handle_get_response(ch)
    \/ FileCommand(ch)
    \/ handle_status(ch)
    \/ handle_authenticate(ch)
    \/ handle_get_identity(ch)
    \/ PinCommands(ch)
    \/ ChannelCommand(ch)
    \/ closed_channel(ch)

Next ==
    \/ \E ch \in Chans : handle(ch)
    \/ \E q \in 0 .. 6 : apply_refresh(q)
    \/ reset

Spec == Init /\ [][Next]_usimVars

\* ---- Properties ----
\* Every variable keeps its type.
TypeOK ==
    /\ fs \in [Chans -> Ctx \cup {Closed}]
    /\ content \in Contents
    /\ dead \subseteq {Fid[e] : e \in Efs} /\ Cardinality(dead) <= TrackerCap
    /\ queue \in [from : Chans, file : Files \cup Computed] \cup {NoRsp}
    /\ lastAid \in BOOLEAN
    /\ shown \subseteq DOMAIN PinSlots
    /\ out \in Efs \cup Identities \cup {NoFile}

\* A context is coherent when the current EF is in the current DF, and the
\* current ADF is the root of the tree the current DF is in.
Coherent(ctx) ==
    /\ ctx.ef # NoFile => ctx.ef \in Kids[ctx.df]
    /\ ctx.adf = IF Root[ctx.df] = Mf THEN NoFile ELSE Root[ctx.df]

\* The basic channel stays open, and whatever sequence of selections, walks
\* that broke off, refreshes and resets came before, the context of every open
\* channel is coherent.  The access rules and the phonebook counters take the
\* place of a file for granted because of it.
SelectionSound == Open(0) /\ \A ch \in Chans : Open(ch) => Coherent(fs[ch])

\* A snapshot keeps three identifiers of a context, which other files of the
\* card bear too; restoring it nevertheless finds the same files.
SnapshotFaithful ==
    \A ch \in Chans : Open(ch) => restore_state(save_state(fs[ch])) = fs[ch]

\* The FCP in the shared response queue describes a file that is still
\* selected on the channel that selected it, which is still open.
QueuedIsCurrent ==
    queue # NoRsp /\ queue.file \in Files =>
       /\ Open(queue.from)
       /\ queue.file \in {fs[queue.from].df, fs[queue.from].ef}

\* No file content, and no IMS identity made from it, leaves the card before the
\* keys its file asks for, and PIN1, were presented in this session or are not
\* in force.  An identity waits in the response queue, which GET RESPONSE hands
\* out unasked: no other command, reset or power cycle may come between the check
\* and the collection.  The SUCI is left out: the code asks for no PIN there,
\* and under the null scheme hands out the MSIN.
OutNeedsPins ==
    out \notin {NoFile, "Suci"} =>
       \A k \in ({"PIN1"} \cup {ReadAc[e] : e \in Efs \cap {out}}) \cap DOMAIN pins :
          k \in shown \/ ~pins[k].enabled

\* Any change of the phonebook is visible in its synchronisation counters: a
\* step that changes one of its other files moves PSC, and one that changes
\* ADN moves CC, so that a terminal never mistakes the phonebook for the copy
\* it has.
PhonebookSynchronised ==
    [][\A e \in (Kids[Phonebook] \cap Efs) \ {Psc, Cc, Puid} :
          content'[e] # content[e] =>
             /\ content'[Psc] # content[Psc]
             /\ e = Adn => content'[Cc] # content[Cc]]_usimVars

\* A deactivated file keeps its content and no READ or SEARCH hands it out,
\* although the table knows identifiers and not files; INCREASE and the
\* counters' own increments are what the code exempts.  GET IDENTITY does not
\* look at the table: it works on a deactivated EF_IMSI as on any.
DeactivatedIsFrozen ==
    [][\A e \in Efs \ {Psc, Cc} :
          is_deactivated(e) /\ Structure[e] # "cyclic" =>
             content'[e] = content[e] /\ out' # e]_usimVars
=============================================================================
