----------------------------- MODULE Proactive -----------------------------
(***************************************************************************)
(* simrs-proactive: ProactiveState, and the card application toolkit       *)
(* handlers of simrs-usim that drive it (TERMINAL PROFILE, FETCH, TERMINAL *)
(* RESPONSE, ENVELOPE, reset, tick).  Three parties act: the toolkit       *)
(* application on the card (queue_command, timers, take_event), the        *)
(* terminal, which is not part of the repository and keeps its own record  *)
(* of the event list and of the BIP channels, and the clock.               *)
(*                                                                         *)
(* A command is what its encoding carries: a number, a type and the        *)
(* argument the card acts upon.  Texts are left out: a command of one type *)
(* may have any length.  The bytes behind the first len of the buffer are  *)
(* read by nothing and left out too.                                       *)
(* The file and key side of REFRESH is in Usim and Auth.                   *)
(***************************************************************************)
EXTENDS Integers, FiniteSets

CONSTANTS
    Events,      \* event identifiers a SET UP EVENT LIST may name
    SmallEvents, \* those below 64, the only ones subscribe_events keeps
    Timers,      \* timer identifiers, 1 .. 8 in the code
    MaxSecs,     \* longest time a timer is started with
    Chans,       \* BIP channel identifiers, 1 .. 7 in the code
    SeqMax,      \* last command number before the wrap, 255 in the code
    MaxLen,      \* size of the command buffer, 256 in the code
    NoCmd, Garbled, NoEvent

ASSUME SetsAssumption ==
    /\ SmallEvents \subseteq Events
    /\ Chans \subseteq Nat \ {0}
    /\ Timers \subseteq Nat \ {0}
    /\ SeqMax \in Nat \ {0}
    /\ MaxSecs \in Nat
    /\ MaxLen \in Nat \ {0}

VARIABLES
    buf,       \* ProactiveState.buf up to len: an encoded command, or bytes of none
    len,       \* ProactiveState.len, zero when no command is waiting
    seq,       \* number the next command gets
    subs,      \* subscribed_events
    prev,      \* prev_subscribed_events
    timers,    \* seconds left, -1 when the slot is inactive
    expired,   \* expired_timers
    bip,       \* open ChannelSlots
    lastBip,   \* last_bip_channel_id
    event,     \* the single envelope event slot
    profile,   \* a TERMINAL PROFILE was received
    session,   \* UsimApp.proactive_session_active
    term,      \* the terminal: the command it executes, the last answer it
               \* gave, its event list, its channels, the length a 91 XX announced
    tangled    \* history: since the last reset, two commands got into each other's
               \* way, or one ended without an answer that names it

card == <<buf, len, seq, subs, prev, timers, expired, bip, lastBip, event,
          profile, session>>
vars == <<card, term, tangled>>

\* ---- Commands ----
\* Event lists, channel numbers and nothing (0) are the arguments the card
\* acts upon; every other command type is "Other".
Commands ==
    {[type |-> "SetUpEventList", arg |-> es] : es \in SUBSET Events}
      \cup {[type |-> "OpenChannel", arg |-> {}], [type |-> "Other", arg |-> {}]}
      \cup {[type |-> "CloseChannel", arg |-> {c}] : c \in Chans}

header_fields(c) == c.type
\* The bytes FETCH hands out for command c.
encode(c, n) == [num |-> n, type |-> header_fields(c), arg |-> c.arg]
Encoded == {encode(c, n) : c \in Commands, n \in 1 .. SeqMax}

Types == {"SetUpEventList", "OpenChannel", "CloseChannel", "Other"}
\* What a TERMINAL RESPONSE says: Command Details, Result, Channel Status (0 in
\* the answers that have none).
Answers == [type : Types, ok : BOOLEAN, ch : Chans \cup {0}]
Terminal == [busy : Encoded \cup {NoCmd, Garbled}, said : Answers \cup {NoCmd},
             events : SUBSET Events, chans : SUBSET Chans,
             told : 0 .. MaxLen]

ASSUME TokenAssumption ==
    /\ NoCmd # Garbled
    /\ {NoCmd, Garbled} \cap Encoded = {}
    /\ NoCmd \notin Answers

NewTerminal == [busy |-> NoCmd, said |-> NoCmd, events |-> {}, chans |-> {},
                told |-> 0]

pending == len > 0
Idle == ~pending /\ ~session

Init ==
    /\ buf = NoCmd /\ len = 0
    /\ seq = 1
    /\ subs = {} /\ prev = {}
    /\ timers = [t \in Timers |-> -1]
    /\ expired = {}
    /\ bip = {} /\ lastBip = 0
    /\ event = NoEvent
    /\ profile = FALSE
    /\ session = FALSE
    /\ term = NewTerminal
    /\ tangled = FALSE

\* ---- The application on the card ----
\* Mutant: identifiers that do not fit the 64-bit mask are kept.
subscribe_all(es) == es
subscribe_events(es) == es \cap SmallEvents

\* The card keeps one buffer, one saved event list and one channel number, and
\* queue_command overwrites them whatever they are still needed for: the
\* buffer until FETCH, the list and the channel of a CLOSE CHANNEL until the
\* TERMINAL RESPONSE.
Overwrites(c, n) ==
    \/ pending
    \/ /\ n <= MaxLen /\ term.busy \in Encoded
       /\ \/ c.type = "SetUpEventList" /\ term.busy.type = "SetUpEventList"
          \/ c.type \in {"OpenChannel", "CloseChannel"} /\ term.busy.type = "CloseChannel"

\* Mutant: the length is set although the command did not fit.
encode_length_first == buf' = Garbled /\ len' = MaxLen
\* An oversized command fails in the dry run, before anything is written, or
\* half-way through the buffer; len stays as it was, so that a waiting command
\* may be left garbled.
encode_fails == buf' \in {buf, IF pending THEN Garbled ELSE buf} /\ UNCHANGED len

\* Mutant: a CLOSE CHANNEL does not record its channel.
no_channel(c) == lastBip
\* The channel terminal_response will close.
bip_channel(c) ==
    CASE c.type = "CloseChannel" -> CHOOSE ch \in c.arg : TRUE
      [] c.type = "OpenChannel" -> 0
      [] OTHER -> lastBip

\* queue_command of a command whose encoding takes n bytes, at any time.
queue_command(c, n) ==
    /\ IF n <= MaxLen
       THEN /\ buf' = encode(c, seq) /\ len' = n
            /\ subs' = IF c.type = "SetUpEventList" THEN subscribe_events(c.arg) ELSE subs
            /\ prev' = IF c.type = "SetUpEventList" THEN subs ELSE prev
            /\ lastBip' = bip_channel(c)
       ELSE encode_fails /\ UNCHANGED <<subs, prev, lastBip>>
    /\ tangled' = (tangled \/ Overwrites(c, n))
    /\ UNCHANGED <<seq, timers, expired, bip, event, profile, session, term>>

take_event ==
    /\ event # NoEvent
    /\ event' = NoEvent
    /\ UNCHANGED <<buf, len, seq, subs, prev, timers, expired, bip, lastBip,
                   profile, session, term, tangled>>

start_timer(t, secs) ==
    /\ timers' = [timers EXCEPT ![t] = secs]
    /\ UNCHANGED <<buf, len, seq, subs, prev, expired, bip, lastBip, event,
                   profile, session, term, tangled>>

deactivate_timer(t) ==
    /\ timers[t] # -1
    /\ timers' = [timers EXCEPT ![t] = -1]
    /\ UNCHANGED <<buf, len, seq, subs, prev, expired, bip, lastBip, event,
                   profile, session, term, tangled>>

\* take_expired_timer hands out the lowest identifier.
take_expired_timer ==
    /\ expired # {}
    /\ expired' = expired \ {CHOOSE t \in expired : \A u \in expired : t <= u}
    /\ UNCHANGED <<buf, len, seq, subs, prev, timers, bip, lastBip, event,
                   profile, session, term, tangled>>

tick(elapsed) ==
    LET due == {t \in Timers : timers[t] # -1 /\ timers[t] <= elapsed}
    IN /\ timers' = [t \in Timers |-> IF t \in due \/ timers[t] = -1 THEN -1
                                      ELSE timers[t] - elapsed]
       /\ expired' = expired \cup due
       /\ UNCHANGED <<buf, len, seq, subs, prev, bip, lastBip, event, profile,
                      session, term, tangled>>

\* ---- APDUs from the terminal ----
\* Mutant: the status word is never rewritten.
override_status_off == 0
\* override_status: a 90 00 becomes 91 XX when a command of length XX is waiting
\* (91 00 for 256 bytes), which is all the terminal ever learns of it.
override_status == len

\* Any command that ends in 90 00 and has no effect here (STATUS polling).
status ==
    /\ term' = [term EXCEPT !.told = override_status]
    /\ UNCHANGED <<card, tangled>>

\* TERMINAL PROFILE; one without data counts as none.
terminal_profile(empty) ==
    /\ profile' = ~empty
    /\ term' = [term EXCEPT !.told = override_status]
    /\ UNCHANGED <<buf, len, seq, subs, prev, timers, expired, bip, lastBip,
                   event, session, tangled>>

\* handle_fetch and fetch.  Le is the announced length: a longer command
\* queued since arrives cut off.  A terminal that fetches in the middle of
\* another command gives that one up.
handle_fetch ==
    /\ term.told # 0
    /\ pending
    /\ buf' = NoCmd /\ len' = 0
    /\ seq' = IF seq = SeqMax THEN 1 ELSE seq + 1
    /\ session' = TRUE
    /\ term' = [term EXCEPT !.busy = IF term.told < len THEN Garbled ELSE buf,
                            !.said = NoCmd, !.told = 0]
    /\ tangled' = (tangled \/ term.busy # NoCmd)
    /\ UNCHANGED <<subs, prev, timers, expired, bip, lastBip, event, profile>>

\* terminal_response, for the command type the answer names.
EventsAfter(ans) ==
    IF ans.type = "SetUpEventList" /\ ~ans.ok THEN prev ELSE subs
BipAfter(ans) ==
    CASE ans.ok /\ ans.type = "OpenChannel" -> bip \cup ({ans.ch} \cap Chans)
      [] ans.ok /\ ans.type = "CloseChannel" -> bip \ {lastBip}
      [] OTHER -> bip

\* Mutant: the answer is taken whether or not a session is open.
response_unguarded(ans) ==
    /\ session' = FALSE
    /\ subs' = EventsAfter(ans)
    /\ bip' = BipAfter(ans)
    /\ UNCHANGED <<buf, len, seq, prev, timers, expired, lastBip, event, profile>>
\* handle_terminal_response with Command Details: refused without a session.
handle_terminal_response(ans) ==
    IF session
    THEN /\ session' = FALSE
         /\ subs' = EventsAfter(ans)
         /\ bip' = BipAfter(ans)
         /\ UNCHANGED <<buf, len, seq, prev, timers, expired, lastBip, event, profile>>
    ELSE UNCHANGED card

\* The terminal has executed the command, or declined it, and says so.
terminal_response(ok, ch) ==
    LET c == term.busy
        ans == [type |-> c.type, ok |-> ok, ch |-> ch]
    IN /\ c \in Encoded
       /\ IF ok /\ c.type = "OpenChannel" THEN ch \in Chans \ term.chans ELSE ch = 0
       /\ ok /\ c.type = "CloseChannel" => c.arg \subseteq term.chans
       /\ handle_terminal_response(ans)
       /\ term' = [busy |-> NoCmd, said |-> ans,
                   events |-> IF ok /\ c.type = "SetUpEventList" THEN c.arg ELSE term.events,
                   chans |-> CASE ok /\ c.type = "OpenChannel" -> term.chans \cup {ch}
                               [] ok /\ c.type = "CloseChannel" -> term.chans \ c.arg
                               [] OTHER -> term.chans,
                   told |-> override_status]
       /\ UNCHANGED tangled

\* handle_terminal_response without Command Details, which needs no session and
\* tells the card nothing of what became of the command.
terminal_response_empty ==
    /\ session' = FALSE
    /\ term' = [term EXCEPT !.busy = NoCmd, !.told = override_status]
    /\ tangled' = (tangled \/ (term.busy \in Encoded /\ term.busy.type # "Other"))
    /\ UNCHANGED <<buf, len, seq, subs, prev, timers, expired, bip, lastBip,
                   event, profile>>

\* The terminal sends its last answer again because the status word was lost;
\* a refusal (69 85) is not rewritten to 91 XX.
repeat_response ==
    /\ term.busy = NoCmd
    /\ term.said # NoCmd
    /\ handle_terminal_response(term.said)
    /\ term' = [term EXCEPT !.said = NoCmd,
                            !.told = IF session THEN override_status ELSE @]
    /\ UNCHANGED tangled

\* handle_envelope and process_envelope: an event download needs a profile and
\* a subscription, a menu selection or a timer expiration ("Plain") the profile
\* only; the slot is overwritten.
envelope(e) ==
    /\ e \in Events => e \in term.events
    /\ IF profile /\ (e \in Events => e \in subs)
       THEN event' = e /\ term' = [term EXCEPT !.told = override_status]
       ELSE UNCHANGED <<event, term>>
    /\ UNCHANGED <<buf, len, seq, subs, prev, timers, expired, bip, lastBip,
                   profile, session, tangled>>

\* ---- Reset ----
\* reset_proactive_session, reset_session; the terminal starts over as well.
\* prev_subscribed_events survives.
reset ==
    /\ buf' = NoCmd /\ len' = 0
    /\ seq' = 1
    /\ subs' = {}
    /\ timers' = [t \in Timers |-> -1]
    /\ expired' = {}
    /\ bip' = {} /\ lastBip' = 0
    /\ event' = NoEvent
    /\ profile' = FALSE
    /\ session' = FALSE
    /\ term' = NewTerminal
    /\ tangled' = FALSE
    /\ UNCHANGED prev

Next ==
    \/ \E c \in Commands, n \in 1 .. MaxLen + 1 : queue_command(c, n)
    \/ take_event
    \/ \E t \in Timers, secs \in 0 .. MaxSecs : start_timer(t, secs)
    \/ \E t \in Timers : deactivate_timer(t)
    \/ take_expired_timer
    \/ \E elapsed \in 1 .. MaxSecs : tick(elapsed)
    \/ status
    \/ \E empty \in BOOLEAN : terminal_profile(empty)
    \/ handle_fetch
    \/ \E ok \in BOOLEAN, ch \in Chans \cup {0} : terminal_response(ok, ch)
    \/ terminal_response_empty
    \/ repeat_response
    \/ \E e \in Events \cup {"Plain"} : envelope(e)
    \/ reset

Spec == Init /\ [][Next]_vars
\* The terminal polls, fetches what it was told of and answers what it fetched,
\* bytes it cannot read with an empty answer.
answer ==
    \/ \E ok \in BOOLEAN, ch \in Chans \cup {0} : terminal_response(ok, ch)
    \/ term.busy = Garbled /\ terminal_response_empty
FairSpec == Spec /\ WF_vars(status) /\ WF_vars(handle_fetch) /\ WF_vars(answer)

\* ---- Properties ----
\* Every variable keeps its type; in particular the command number never
\* becomes zero when it wraps.
TypeOK ==
    /\ buf \in Encoded \cup {NoCmd, Garbled}
    /\ len \in 0 .. MaxLen /\ (len = 0 <=> buf = NoCmd)
    /\ session \in BOOLEAN /\ profile \in BOOLEAN
    /\ seq \in 1 .. SeqMax
    /\ subs \subseteq SmallEvents /\ prev \subseteq SmallEvents
    /\ timers \in [Timers -> -1 .. MaxSecs]
    /\ expired \subseteq Timers
    /\ bip \subseteq Chans /\ lastBip \in Chans \cup {0}
    /\ event \in Events \cup {"Plain", NoEvent}
    /\ term \in Terminal
    /\ tangled \in BOOLEAN

\* FETCH hands out a command somebody queued.  The bytes a failed queue_command
\* leaves in the buffer, and a command cut off at the length of another, reach
\* the terminal only if a command was queued over one that was still waiting.
FetchedIsQueued == term.busy = Garbled => tangled

\* Whenever no command is waiting or being executed, the events the card
\* believes it is subscribed to are those of the list the terminal accepted
\* last, whatever lists were refused, repeated or lost to a reset in between
\* and whatever other commands were queued meanwhile: unless one of two lists,
\* or a command still waiting, was overwritten, or a command that matters here
\* was given up or answered without naming it.
EventListAgreed == Idle /\ ~tangled => subs = term.events \cap SmallEvents

\* At the same moments, and with the same exceptions, the card's table of open
\* BIP channels is the terminal's.
ChannelsAgreed == Idle /\ ~tangled => bip = term.chans

\* A command that was queued does not stay in the buffer, and a session does
\* not stay open, even under an application that keeps queueing: the terminal
\* hears of the command through the status word, fetches it and answers, or a
\* reset drops it.
CommandAnswered == (pending ~> ~pending) /\ (session ~> ~session)
=============================================================================
