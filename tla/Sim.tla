-------------------------------- MODULE Sim --------------------------------
(***************************************************************************)
(* simrs-sim: the card as the reader sees it.  Sim powers up and down,     *)
(* applies the reset policy, and routes an APDU by its class byte to the   *)
(* USIM application (Usim) or to the GSM application of simrs-gsm, which   *)
(* is modelled here: it has its own selection context over the MF tree,    *)
(* its own copy of the files, its own PINs and its own response queue.     *)
(***************************************************************************)
EXTENDS Usim

CONSTANTS
    Policy    \* the reset policy: what a cold and a warm reset clear

Effects == {"pin_verified", "response_queue", "file_selection", "logical_channels",
            "proactive_session", "last_aid_match"}
ASSUME PolicyAssumption == Policy \in [{"Cold", "Warm"} -> SUBSET Effects]

\* standard_reset_policy.
standard_reset_policy == [kind \in {"Cold", "Warm"} |-> Effects]

VARIABLES
    state,    \* Sim.state
    gsm,      \* GsmApp: fs, data, pin and rsp_queue
    gshown,   \* history: the GSM keys presented since the card was powered
    gout      \* what the last response of the GSM application carried

simVars == <<usimVars, state, gsm, gshown, gout>>
gsmVars == <<gsm, gshown, gout>>

GsmEfs == UNION {Kids[d] \cap Efs : d \in {x \in Dfs : Root[x] = Mf}}

SimInit ==
    /\ Init
    /\ state = "Off"
    /\ gsm = [fs |-> NewCtx, data |-> Template, pin |-> PinSlots, queue |-> NoRsp]
    /\ gshown = {}
    /\ gout = NoFile

\* ---- The GSM application ----
\* One command: the context, data, PINs and queue after it, and what it returns.
Gsm(fs2, data2, pin2, queue2, out2) ==
    /\ gsm' = [fs |-> fs2, data |-> data2, pin |-> pin2, queue |-> queue2]
    /\ gout' = out2
    /\ out' = NoFile
    /\ UNCHANGED <<fs, content, dead, queue, lastAid, pins, shown, state>>

gsm_pin1_denied ==
    /\ "PIN1" \in DOMAIN gsm.pin
    /\ gsm.pin["PIN1"].enabled /\ ~gsm.pin["PIN1"].verified

gsm_select(fid) ==
    LET r == select_by_fid(gsm.fs, fid)
    IN /\ Gsm(r.ctx, gsm.data, gsm.pin, IF r.ok THEN Rsp(0, r.sel) ELSE NoRsp, NoFile)
       /\ UNCHANGED gshown

\* Refused for its P1 or P2, GET RESPONSE leaves the queue as it is.
gsm_get_response ==
    /\ \/ Gsm(gsm.fs, gsm.data, gsm.pin, NoRsp,
              IF gsm.queue = NoRsp \/ gsm.queue.file # "Auth" THEN NoFile ELSE "Auth")
       \/ Gsm(gsm.fs, gsm.data, gsm.pin, gsm.queue, NoFile)
    /\ UNCHANGED gshown

gsm_read_binary ==
    LET e == gsm.fs.ef
    IN /\ Gsm(gsm.fs, gsm.data, gsm.pin, NoRsp,
              IF ~gsm_pin1_denied /\ e # NoFile /\ Structure[e] = "transparent"
              THEN e ELSE NoFile)
       /\ UNCHANGED gshown

\* The record commands and INCREASE ask for no PIN, and use P1 as it is.
gsm_read_record(n) ==
    LET e == gsm.fs.ef
    IN /\ Gsm(gsm.fs, gsm.data, gsm.pin, NoRsp,
              IF e # NoFile /\ Structure[e] # "transparent" /\ n \in 1 .. Records[e]
              THEN e ELSE NoFile)
       /\ UNCHANGED gshown

gsm_update_binary(v) ==
    LET e == gsm.fs.ef
    IN /\ e # NoFile /\ v \in 0 .. ValMax[e]
       /\ Gsm(gsm.fs, IF gsm_pin1_denied THEN gsm.data ELSE write_binary(gsm.data, e, v),
              gsm.pin, NoRsp, NoFile)
       /\ UNCHANGED gshown

gsm_update_record(n, v) ==
    LET e == gsm.fs.ef
    IN /\ e # NoFile /\ v \in 0 .. ValMax[e]
       /\ Gsm(gsm.fs, write_record(gsm.data, e, n, v), gsm.pin, NoRsp, NoFile)
       /\ UNCHANGED gshown

gsm_increase(v) ==
    LET e == gsm.fs.ef
    IN /\ e # NoFile
       /\ Gsm(gsm.fs, increase(gsm.data, e, v), gsm.pin, NoRsp,
              IF Structure[e] = "cyclic" /\ gsm.data[e][1] + v <= ValMax[e]
              THEN e ELSE NoFile)
       /\ UNCHANGED gshown

\* STATUS and everything refused for its parameters.
gsm_status ==
    /\ Gsm(gsm.fs, gsm.data, gsm.pin, NoRsp, NoFile)
    /\ UNCHANGED gshown

\* RUN GSM ALGORITHM queues SRES and Kc.
gsm_run_gsm_algo ==
    /\ Gsm(gsm.fs, gsm.data, gsm.pin,
           IF gsm_pin1_denied THEN NoRsp ELSE Rsp(0, "Auth"), NoFile)
    /\ UNCHANGED gshown

GsmPin(k, slot, proof) ==
    /\ Gsm(gsm.fs, gsm.data, [gsm.pin EXCEPT ![k] = slot], NoRsp, NoFile)
    /\ gshown' = IF proof THEN gshown \cup {k} ELSE gshown
gsm_pin_command(k, v) ==
    LET s == gsm.pin[k]
        new == PinSlots[k].pin
    IN \/ GsmPin(k, P!verify(s, v), s.pin = v /\ s.pin_retries > 0)
       \/ GsmPin(k, P!change(s, v, new), FALSE)
       \/ GsmPin(k, P!disable(s, v), FALSE)
       \/ GsmPin(k, P!enable(s, v), FALSE)
       \/ GsmPin(k, P!unblock(s, v, new), FALSE)

\* GsmApp::handle.
gsm_handle ==
    \/ \E fid \in Fids : gsm_select(fid)
    \/ gsm_get_response
    \/ gsm_read_binary
    \/ \E n \in P1s : gsm_read_record(n)
    \/ \E v \in Vals : gsm_update_binary(v)
    \/ \E n \in P1s, v \in Vals : gsm_update_record(n, v)
    \/ \E v \in Vals : gsm_increase(v)
    \/ gsm_status
    \/ gsm_run_gsm_algo
    \/ \E k \in DOMAIN PinSlots, v \in PinValues : gsm_pin_command(k, v)

\* ---- Power and reset ----
\* ResetEffects for both applications; the toolkit session's part is
\* Proactive!reset.  usimPins and gsmQueue are the effects as the USIM's PIN
\* reset and the GSM application's queue reset see them.
ApplyEffects(eff, usimPins, gsmQueue) ==
    /\ gsm' = [gsm EXCEPT !.pin = IF "pin_verified" \in eff THEN reset_verified(@) ELSE @,
                          !.queue = IF "response_queue" \in gsmQueue THEN NoRsp ELSE @,
                          !.fs = IF "file_selection" \in eff THEN NewCtx ELSE @]
    /\ pins' = IF "pin_verified" \in usimPins THEN reset_verified(pins) ELSE pins
    /\ queue' = IF "response_queue" \in eff THEN NoRsp ELSE queue
    /\ fs' = [ch \in Chans |->
                IF ch = 0 THEN IF "file_selection" \in eff THEN NewCtx ELSE fs[0]
                ELSE IF "logical_channels" \in eff THEN Closed ELSE fs[ch]]
    /\ lastAid' = IF "last_aid_match" \in eff THEN FALSE ELSE lastAid
    /\ UNCHANGED <<content, dead>>
\* Mutant: the GSM application keeps its response queue.
effects_usim_queue(eff) == ApplyEffects(eff, eff, {})
\* Mutant: the USIM's PINs stay verified.
effects_gsm_pins(eff) == ApplyEffects(eff, {}, eff)
apply_reset_effects(eff) == ApplyEffects(eff, eff, eff)

\* A response is over with the next event.
Silent == out' = NoFile /\ gout' = NoFile
NewSession == shown' = {} /\ gshown' = {}

power_on ==
    /\ apply_reset_effects(Policy["Cold"])
    /\ state' = "Ready"
    /\ Silent /\ NewSession

warm_reset ==
    /\ apply_reset_effects(Policy["Warm"])
    /\ state' = "Ready"
    /\ Silent /\ NewSession

\* PowerOff only notes the state: what the applications hold stays.
power_off ==
    /\ state' = "Off"
    /\ Silent /\ NewSession
    /\ UNCHANGED <<fs, content, dead, queue, lastAid, pins, gsm>>

\* ---- Routing ----
usim_apdu ==
    /\ \/ \E ch \in Chans : handle(ch)
       \/ \E q \in 0 .. 6 : apply_refresh(q)
    /\ gout' = NoFile
    /\ UNCHANGED <<state, gsm, gshown>>
gsm_apdu == gsm_handle
\* A class byte of neither family.
unknown_apdu ==
    /\ Silent
    /\ UNCHANGED <<fs, content, dead, queue, lastAid, pins, shown, state, gsm, gshown>>

\* classify_cla, for a card that is Ready; otherwise the APDU is ignored.
handle_apdu(family) ==
    /\ state = "Ready"
    /\ CASE family = "Usim" -> usim_apdu
         [] family = "Gsm" -> gsm_apdu
         [] OTHER -> unknown_apdu

\* Sim::process.
SimNext ==
    \/ \E family \in {"Usim", "Gsm", "Unknown"} : handle_apdu(family)
    \/ power_on
    \/ warm_reset
    \/ power_off

SimSpec == SimInit /\ [][SimNext]_simVars

\* ---- Properties ----
\* Every variable of the card keeps its type.
SimTypeOK ==
    /\ TypeOK
    /\ state \in {"Off", "Ready"}
    /\ gsm.fs \in Ctx /\ gsm.fs.adf = NoFile
    /\ gsm.queue \in [from : Chans, file : Files \cup {"Auth"}] \cup {NoRsp}
    /\ gsm.data \in Contents
    /\ gshown \subseteq DOMAIN PinSlots
    /\ gout \in Efs \cup {"Auth", NoFile}

\* The GSM application hands out a transparent file, or the result of RUN GSM
\* ALGORITHM, only if its own PIN1 was presented since the last power-on or
\* reset, or is not in force.  The result waits in the response queue, so an
\* old session's must not be left there.
GsmOutNeedsPin ==
    /\ gout = "Auth" \/ (gout # NoFile /\ Structure[gout] = "transparent")
    /\ "PIN1" \in DOMAIN PinSlots
    => "PIN1" \in gshown \/ ~gsm.pin["PIN1"].enabled
=============================================================================
