-------------------------- MODULE ProactiveProofs --------------------------
(***************************************************************************)
(* Proofs about the toolkit session, for any events, timers and channels,  *)
(* for every length of the command number and size of the buffer, and for  *)
(* an application that queues whenever it likes.  The agreement of card    *)
(* and terminal is not inductive: while commands are waiting or being      *)
(* executed, the two records differ by exactly what the answers will       *)
(* settle, which Records states.  Two commands may be open at once, one    *)
(* executed and one waiting, as long as they do not need the same record.  *)
(***************************************************************************)
EXTENDS Proactive, TLAPS

\* ---- Lemmas on the commands ----
\* What queue_command writes is an encoded command of the same type and argument.
LEMMA EncodeType ==
    ASSUME NEW c \in Commands, NEW n \in 1 .. SeqMax
    PROVE  /\ encode(c, n) \in Encoded
           /\ encode(c, n).type = c.type /\ encode(c, n).arg = c.arg
BY DEF encode, Encoded, header_fields

LEMMA CommandType == ASSUME NEW c \in Commands PROVE c.type \in Types
BY DEF Commands, Types

\* The argument of a command has the form its type calls for.
LEMMA CommandArg ==
    ASSUME NEW c \in Commands
    PROVE  /\ c.type = "SetUpEventList" => c.arg \in SUBSET Events
           /\ c.type = "CloseChannel" => \E ch \in Chans : c.arg = {ch}
BY DEF Commands

LEMMA EncodedArg ==
    ASSUME NEW e \in Encoded
    PROVE  /\ e.type = "SetUpEventList" => e.arg \in SUBSET Events
           /\ e.type = "CloseChannel" => \E ch \in Chans : e.arg = {ch}
           /\ e.type \in Types
<1>1. PICK c \in Commands, n \in 1 .. SeqMax : e = encode(c, n) BY DEF Encoded
<1>2. e.type = c.type /\ e.arg = c.arg BY <1>1, EncodeType
<1> QED BY <1>2, CommandArg, CommandType

\* The channel number queue_command records for a CLOSE CHANNEL is the one the
\* command carries.
LEMMA ClosedChannel ==
    ASSUME NEW c \in Commands, c.type = "CloseChannel"
    PROVE  (CHOOSE ch \in c.arg : TRUE) \in Chans /\ c.arg = {CHOOSE ch \in c.arg : TRUE}
<1>1. PICK ch \in Chans : c.arg = {ch} BY CommandArg
<1>2. (CHOOSE x \in c.arg : TRUE) = ch BY <1>1
<1> QED BY <1>1, <1>2

\* ---- Type correctness ----
LEMMA ProactiveInitType == Init => TypeOK
<1> SUFFICES ASSUME Init PROVE TypeOK
  OBVIOUS
<1>1. /\ seq \in 1 .. SeqMax /\ timers \in [Timers -> -1 .. MaxSecs]
      /\ len \in 0 .. MaxLen
  BY SetsAssumption DEF Init
<1>2. term \in Terminal BY SetsAssumption DEF Init, NewTerminal, Terminal
<1> QED BY <1>1, <1>2 DEF Init, TypeOK

\* The type of the answer that handle_terminal_response acts upon is what keeps
\* the card's two tables within their types.
LEMMA ResponseType ==
    ASSUME TypeOK, NEW ans \in Answers, handle_terminal_response(ans)
    PROVE  /\ subs' \subseteq SmallEvents /\ bip' \subseteq Chans /\ session' \in BOOLEAN
           /\ UNCHANGED <<buf, len, seq, prev, timers, expired, lastBip, event, profile>>
<1>1. CASE session
  BY <1>1 DEF TypeOK, handle_terminal_response, EventsAfter, BipAfter
<1>2. CASE ~session
  BY <1>2 DEF TypeOK, handle_terminal_response, card
<1> QED BY <1>1, <1>2

LEMMA StatusType == TypeOK => override_status \in 0 .. MaxLen
BY DEF TypeOK, override_status

LEMMA ProactiveStepType == TypeOK /\ [Next]_vars => TypeOK'
<1> SUFFICES ASSUME TypeOK, [Next]_vars PROVE TypeOK'
  OBVIOUS
<1>s. override_status \in 0 .. MaxLen BY StatusType
<1>1. ASSUME NEW c \in Commands, NEW n \in 1 .. MaxLen + 1, queue_command(c, n) PROVE TypeOK'
  <2>k. UNCHANGED <<seq, timers, expired, bip, event, profile, session, term>>
        /\ tangled' \in BOOLEAN
    BY <1>1 DEF queue_command
  <2>1. CASE n <= MaxLen
    <3>1. /\ buf' = encode(c, seq) /\ encode(c, seq) \in Encoded
          /\ len' = n /\ n \in 0 .. MaxLen /\ n # 0
      BY <1>1, <2>1, EncodeType, SetsAssumption DEF queue_command, TypeOK
    <3>2. subs' \subseteq SmallEvents /\ prev' \subseteq SmallEvents
      BY <1>1, <2>1 DEF queue_command, subscribe_events, TypeOK
    <3>3. lastBip' \in Chans \cup {0}
      BY <1>1, <2>1, ClosedChannel DEF queue_command, bip_channel, TypeOK
    <3> QED BY <2>k, <3>1, <3>2, <3>3, TokenAssumption DEF TypeOK
  <2>2. CASE ~(n <= MaxLen)
    <3>1. /\ buf' \in {buf, IF len > 0 THEN Garbled ELSE buf}
          /\ UNCHANGED <<len, subs, prev, lastBip>>
      BY <1>1, <2>2 DEF queue_command, encode_fails, pending
    <3>2. buf' \in Encoded \cup {NoCmd, Garbled} /\ (len' = 0 <=> buf' = NoCmd)
      BY <3>1, TokenAssumption DEF TypeOK
    <3> QED BY <2>k, <3>1, <3>2 DEF TypeOK
  <2> QED BY <2>1, <2>2
<1>2. ASSUME take_event PROVE TypeOK'
  BY <1>2 DEF take_event, TypeOK
<1>3. ASSUME NEW t \in Timers, NEW secs \in 0 .. MaxSecs, start_timer(t, secs) PROVE TypeOK'
  <2>1. secs \in -1 .. MaxSecs BY SetsAssumption
  <2> QED BY <1>3, <2>1 DEF start_timer, TypeOK
<1>4. ASSUME NEW t \in Timers, deactivate_timer(t) PROVE TypeOK'
  <2>1. -1 \in -1 .. MaxSecs BY SetsAssumption
  <2> QED BY <1>4, <2>1 DEF deactivate_timer, TypeOK
<1>5. ASSUME take_expired_timer PROVE TypeOK'
  BY <1>5 DEF take_expired_timer, TypeOK
<1>6. ASSUME NEW elapsed \in 1 .. MaxSecs, tick(elapsed) PROVE TypeOK'
  <2> DEFINE due == {t \in Timers : timers[t] # -1 /\ timers[t] <= elapsed}
             left(t) == IF t \in due \/ timers[t] = -1 THEN -1 ELSE timers[t] - elapsed
  <2>1. ASSUME NEW t \in Timers PROVE left(t) \in -1 .. MaxSecs
    <3>1. timers[t] \in -1 .. MaxSecs /\ MaxSecs \in Nat BY SetsAssumption DEF TypeOK
    <3> QED BY <3>1
  <2>2. timers' = [t \in Timers |-> left(t)] /\ expired' = expired \cup due
    BY <1>6 DEF tick
  <2>3. due \subseteq Timers OBVIOUS
  <2> HIDE DEF due, left
  <2>4. timers' \in [Timers -> -1 .. MaxSecs] BY <2>1, <2>2
  <2>5. expired' \subseteq Timers BY <2>2, <2>3 DEF TypeOK
  <2> QED BY <1>6, <2>4, <2>5 DEF tick, TypeOK
<1>7. ASSUME NEW x \in 0 .. MaxLen PROVE [term EXCEPT !.told = x] \in Terminal
  BY <1>7 DEF TypeOK, Terminal
<1>8. ASSUME status \/ \E empty \in BOOLEAN : terminal_profile(empty) PROVE TypeOK'
  BY <1>s, <1>7, <1>8 DEF status, terminal_profile, card, TypeOK
<1>9. ASSUME handle_fetch PROVE TypeOK'
  <2>1. seq' \in 1 .. SeqMax BY <1>9, SetsAssumption DEF handle_fetch, TypeOK
  <2>2. PICK got : got = IF term.told < len THEN Garbled ELSE buf
    OBVIOUS
  <2>3. got \in Encoded \cup {NoCmd, Garbled} /\ 0 \in 0 .. MaxLen
    BY <2>2, SetsAssumption DEF TypeOK
  <2>4. term' = [term EXCEPT !.busy = got, !.said = NoCmd, !.told = 0]
    BY <1>9, <2>2 DEF handle_fetch
  <2>5. term' \in Terminal BY <2>3, <2>4 DEF TypeOK, Terminal
  <2> QED BY <1>9, <2>1, <2>3, <2>5 DEF handle_fetch, TypeOK
<1>10. ASSUME NEW ok \in BOOLEAN, NEW ch \in Chans \cup {0}, terminal_response(ok, ch) PROVE TypeOK'
  <2> DEFINE ans == [type |-> term.busy.type, ok |-> ok, ch |-> ch]
  <2>1. term.busy \in Encoded /\ ans \in Answers /\ handle_terminal_response(ans)
    BY <1>10, EncodedArg DEF terminal_response, Answers
  <2>2. term.events \in SUBSET Events /\ term.chans \in SUBSET Chans BY DEF TypeOK, Terminal
  <2>3. (IF ok /\ term.busy.type = "SetUpEventList" THEN term.busy.arg ELSE term.events)
          \in SUBSET Events
    BY <2>1, <2>2, EncodedArg
  <2>4. (CASE ok /\ term.busy.type = "OpenChannel" -> term.chans \cup {ch}
           [] ok /\ term.busy.type = "CloseChannel" -> term.chans \ term.busy.arg
           [] OTHER -> term.chans) \in SUBSET Chans
    BY <1>10, <2>2 DEF terminal_response
  <2>5. term' \in Terminal
    BY <1>10, <1>s, <2>1, <2>3, <2>4 DEF terminal_response, Terminal
  <2>6. subs' \subseteq SmallEvents /\ bip' \subseteq Chans /\ session' \in BOOLEAN
        /\ UNCHANGED <<buf, len, seq, prev, timers, expired, lastBip, event, profile>>
    BY <2>1, ResponseType
  <2> QED BY <1>10, <2>5, <2>6 DEF terminal_response, TypeOK
<1>11. ASSUME terminal_response_empty PROVE TypeOK'
  <2>1. term' \in Terminal BY <1>s, <1>11 DEF terminal_response_empty, Terminal, TypeOK
  <2> QED BY <1>11, <2>1 DEF terminal_response_empty, TypeOK
<1>12. ASSUME repeat_response PROVE TypeOK'
  <2>1. term.said \in Answers /\ handle_terminal_response(term.said)
    BY <1>12 DEF repeat_response, TypeOK, Terminal
  <2>2. subs' \subseteq SmallEvents /\ bip' \subseteq Chans /\ session' \in BOOLEAN
        /\ UNCHANGED <<buf, len, seq, prev, timers, expired, lastBip, event, profile>>
    BY <2>1, ResponseType
  <2>3. term' \in Terminal BY <1>s, <1>12 DEF repeat_response, Terminal, TypeOK
  <2> QED BY <1>12, <2>2, <2>3 DEF repeat_response, TypeOK
<1>13. ASSUME NEW e \in Events \cup {"Plain"}, envelope(e) PROVE TypeOK'
  <2>1. term' \in Terminal /\ event' \in Events \cup {"Plain", NoEvent}
    BY <1>s, <1>7, <1>13 DEF envelope, TypeOK
  <2> QED BY <1>13, <2>1 DEF envelope, TypeOK
<1>14. ASSUME reset PROVE TypeOK'
  <2>1. seq' \in 1 .. SeqMax /\ timers' \in [Timers -> -1 .. MaxSecs] /\ 0 \in 0 .. MaxLen
    BY <1>14, SetsAssumption DEF reset
  <2>2. term' \in Terminal BY <1>14, <2>1 DEF reset, NewTerminal, Terminal
  <2> QED BY <1>14, <2>1, <2>2 DEF reset, TypeOK
<1>15. CASE UNCHANGED vars BY <1>15 DEF vars, card, TypeOK
<1> QED
  <2> HIDE DEF TypeOK
  <2> QED BY <1>1, <1>2, <1>3, <1>4, <1>5, <1>6, <1>8, <1>9, <1>10, <1>11, <1>12, <1>13,
             <1>14, <1>15 DEF Next

\* The types of card and terminal, whatever the application does: above all a
\* command number that is never zero and a subscription mask that only holds
\* identifiers it has bits for.
THEOREM ProactiveTypeCorrect == Spec => []TypeOK
BY ProactiveInitType, ProactiveStepType, PTL DEF Spec

\* ---- Agreement of card and terminal ----
\* The type of the command that waits in the buffer, and of the one the terminal
\* executes.
Waits(type) == buf \in Encoded /\ buf.type = type
Runs(type) == term.busy \in Encoded /\ term.busy.type = type
Accepted == term.events \cap SmallEvents

\* A session is open exactly while the terminal executes something.  Unless
\* commands were tangled, all of them are whole, and the length the terminal
\* was told is that of the command that waits.
Phases ==
    /\ session <=> term.busy # NoCmd
    /\ ~tangled => /\ buf # Garbled /\ term.busy # Garbled
                   /\ term.told # 0 => term.told = len

\* The card's records are the terminal's, but for an event list that was not
\* answered yet: the card has already taken it over and keeps the one before.
\* No two open commands need the same record.
Records ==
    ~tangled =>
      /\ bip = term.chans
      /\ Runs("SetUpEventList") =>
           /\ ~Waits("SetUpEventList")
           /\ prev = Accepted /\ subs = term.busy.arg \cap SmallEvents
      /\ Waits("SetUpEventList") => prev = Accepted /\ subs = buf.arg \cap SmallEvents
      /\ ~Waits("SetUpEventList") /\ ~Runs("SetUpEventList") => subs = Accepted
      /\ Runs("CloseChannel") => /\ term.busy.arg = {lastBip}
                                 /\ ~Waits("OpenChannel") /\ ~Waits("CloseChannel")
      /\ Waits("CloseChannel") => buf.arg = {lastBip}

ProactiveInv == TypeOK /\ Phases /\ Records

LEMMA ProactiveInitInv == Init => ProactiveInv
<1> SUFFICES ASSUME Init PROVE ProactiveInv
  OBVIOUS
<1>1. TypeOK BY ProactiveInitType
<1>2. Phases BY TokenAssumption DEF Init, NewTerminal, Phases
<1>3. Records BY TokenAssumption DEF Init, NewTerminal, Records, Waits, Runs, Accepted
<1> QED BY <1>1, <1>2, <1>3 DEF ProactiveInv

\* The buffer, the session and what the terminal has in hand are all that
\* Phases and Records read; a step that leaves them alone keeps both.
LEMMA SameWork ==
    ASSUME ProactiveInv, UNCHANGED <<buf, len, subs, prev, bip, lastBip, session, tangled>>,
           term'.busy = term.busy, term'.events = term.events, term'.chans = term.chans,
           term'.told \in {term.told, override_status}
    PROVE  Phases' /\ Records'
<1>1. Phases'
  BY DEF ProactiveInv, Phases, override_status
<1>2. Records' BY DEF ProactiveInv, Records, Waits, Runs, Accepted
<1> QED BY <1>1, <1>2

\* A queued command that overwrites nothing becomes the one that waits.
LEMMA QueueInv ==
    ASSUME ProactiveInv, NEW c \in Commands, NEW n \in 1 .. MaxLen + 1, queue_command(c, n)
    PROVE  Phases' /\ Records'
<1>0. UNCHANGED <<bip, session, term>> /\ tangled' = (tangled \/ Overwrites(c, n))
  BY DEF queue_command
<1>1. CASE tangled'
  BY <1>0, <1>1 DEF ProactiveInv, Phases, Records
<1>2. CASE ~tangled'
  <2>0. ~tangled /\ ~Overwrites(c, n) BY <1>0, <1>2
  <2>1. len = 0 /\ buf = NoCmd /\ term.told = 0
    BY <2>0, SetsAssumption DEF Overwrites, pending, ProactiveInv, TypeOK, Phases
  <2>2. \A t : ~Waits(t) BY <2>1, TokenAssumption DEF Waits
  <2>3. CASE n <= MaxLen
    <3>1. /\ buf' = encode(c, seq)
          /\ subs' = IF c.type = "SetUpEventList" THEN c.arg \cap SmallEvents ELSE subs
          /\ prev' = IF c.type = "SetUpEventList" THEN subs ELSE prev
          /\ c.type = "CloseChannel" => lastBip' = CHOOSE ch \in c.arg : TRUE
          /\ c.type \notin {"OpenChannel", "CloseChannel"} => lastBip' = lastBip
      BY <2>3 DEF queue_command, subscribe_events, bip_channel
    <3>2. encode(c, seq) \in Encoded /\ encode(c, seq).type = c.type /\ encode(c, seq).arg = c.arg
      BY EncodeType DEF ProactiveInv, TypeOK
    <3>3. \A t : Waits(t)' <=> t = c.type BY <3>1, <3>2 DEF Waits
    <3>4. (\A t : Runs(t)' = Runs(t)) /\ Accepted' = Accepted BY <1>0 DEF Runs, Accepted
    <3>5. Phases' BY <1>0, <2>0, <2>1, <3>1, <3>2, TokenAssumption DEF ProactiveInv, Phases
    <3>6. c.type = "CloseChannel" => c.arg = {lastBip'} BY <3>1, ClosedChannel
    <3>7. /\ Runs("SetUpEventList") => c.type # "SetUpEventList"
          /\ Runs("CloseChannel") => c.type \notin {"OpenChannel", "CloseChannel"}
      BY <2>0, <2>3 DEF Overwrites, Runs
    <3>8. Records'
      BY <1>0, <2>0, <2>2, <3>1, <3>2, <3>3, <3>4, <3>6, <3>7 DEF ProactiveInv, Records
    <3> QED BY <3>5, <3>8
  <2>4. CASE ~(n <= MaxLen)
    <3>1. UNCHANGED <<buf, len, subs, prev, lastBip>>
      BY <2>1, <2>4 DEF queue_command, encode_fails, pending
    <3> QED BY <1>0, <2>0, <3>1 DEF ProactiveInv, Phases, Records, Waits, Runs, Accepted
  <2> QED BY <2>3, <2>4
<1> QED BY <1>1, <1>2

\* FETCH hands the waiting command over, whole, to a terminal that has finished
\* the one before.
LEMMA FetchInv == ASSUME ProactiveInv, handle_fetch PROVE Phases' /\ Records'
<1>1. /\ len > 0 /\ buf \in Encoded \cup {Garbled} /\ buf' = NoCmd /\ session'
      /\ UNCHANGED <<subs, prev, bip, lastBip>>
      /\ tangled' = (tangled \/ term.busy # NoCmd)
  BY DEF handle_fetch, pending, ProactiveInv, TypeOK
<1>2. /\ term'.busy = IF term.told < len THEN Garbled ELSE buf
      /\ term'.told = 0 /\ term'.events = term.events /\ term'.chans = term.chans
  BY DEF handle_fetch, ProactiveInv, TypeOK, Terminal
<1>3. term'.busy # NoCmd BY <1>1, <1>2, TokenAssumption
<1>4. CASE tangled' BY <1>1, <1>3, <1>4 DEF Phases, Records
<1>5. CASE ~tangled'
  <2>1. ~tangled /\ term.busy = NoCmd /\ buf \in Encoded /\ buf # Garbled /\ term.told = len
    BY <1>1, <1>5 DEF handle_fetch, ProactiveInv, Phases
  <2>2. term'.busy = buf BY <1>1, <1>2, <2>1 DEF ProactiveInv, TypeOK
  <2>3. Phases' BY <1>1, <1>2, <1>3, <2>1, <2>2, TokenAssumption DEF Phases
  <2>4. \A t : ~Runs(t) /\ ~Waits(t)' /\ (Runs(t)' = Waits(t))
    BY <1>1, <2>1, <2>2, TokenAssumption DEF Runs, Waits
  <2>5. Accepted' = Accepted BY <1>2 DEF Accepted
  <2>6. Records' BY <1>1, <1>2, <2>1, <2>2, <2>4, <2>5 DEF ProactiveInv, Records
  <2> QED BY <2>3, <2>6
<1> QED BY <1>4, <1>5

\* The answer settles what the command left open: the card keeps the new list
\* or goes back to the old one, and opens or closes the channel the terminal did.
LEMMA AnswerInv ==
    ASSUME ProactiveInv, NEW ok \in BOOLEAN, NEW ch \in Chans \cup {0}, terminal_response(ok, ch)
    PROVE  Phases' /\ Records'
<1> DEFINE c == term.busy
           ans == [type |-> c.type, ok |-> ok, ch |-> ch]
<1>1. c \in Encoded /\ c # NoCmd /\ handle_terminal_response(ans) /\ tangled' = tangled
  BY TokenAssumption DEF terminal_response
<1>2. session BY <1>1 DEF ProactiveInv, Phases
<1>3. /\ ~session' /\ UNCHANGED <<buf, len, prev, lastBip>>
      /\ subs' = EventsAfter(ans) /\ bip' = BipAfter(ans)
  BY <1>1, <1>2 DEF handle_terminal_response
<1>4. /\ term'.busy = NoCmd /\ term'.told = len
      /\ term'.events = IF ok /\ c.type = "SetUpEventList" THEN c.arg ELSE term.events
      /\ term'.chans = CASE ok /\ c.type = "OpenChannel" -> term.chans \cup {ch}
                         [] ok /\ c.type = "CloseChannel" -> term.chans \ c.arg
                         [] OTHER -> term.chans
  BY DEF terminal_response, override_status
<1>5. CASE tangled BY <1>1, <1>3, <1>4, <1>5 DEF Phases, Records
<1>6. CASE ~tangled
  <2>1. Phases' BY <1>1, <1>3, <1>4, <1>6, TokenAssumption DEF ProactiveInv, Phases
  <2>2. ans.type = c.type /\ ans.ok = ok /\ ans.ch = ch OBVIOUS
  <2>3. \A t : ~Runs(t)' /\ (Waits(t)' = Waits(t)) /\ (Runs(t) <=> t = c.type)
    BY <1>1, <1>3, <1>4, TokenAssumption DEF Runs, Waits
  <2>4. bip' = term'.chans
    <3>1. bip = term.chans /\ (c.type = "CloseChannel" => c.arg = {lastBip})
      BY <1>6, <2>3 DEF ProactiveInv, Records
    <3>2. ok /\ c.type = "OpenChannel" => {ch} \cap Chans = {ch} BY DEF terminal_response
    <3> QED BY <1>3, <1>4, <2>2, <3>1, <3>2 DEF BipAfter
  <2>5. CASE c.type = "SetUpEventList"
    <3>1. ~Waits("SetUpEventList") /\ prev = Accepted /\ subs = c.arg \cap SmallEvents
      BY <1>6, <2>3, <2>5 DEF ProactiveInv, Records
    <3>2. subs' = Accepted' BY <1>3, <1>4, <2>2, <2>5, <3>1 DEF EventsAfter, Accepted
    <3> QED BY <1>3, <1>6, <2>1, <2>3, <2>4, <3>1, <3>2 DEF ProactiveInv, Records
  <2>6. CASE c.type # "SetUpEventList"
    <3>1. subs' = subs /\ Accepted' = Accepted
      BY <1>3, <1>4, <2>2, <2>6 DEF EventsAfter, Accepted
    <3>2. ~Runs("SetUpEventList") BY <2>3, <2>6
    <3> QED BY <1>3, <1>6, <2>1, <2>3, <2>4, <3>1, <3>2 DEF ProactiveInv, Records
  <2> QED BY <2>5, <2>6
<1> QED BY <1>5, <1>6

\* An empty answer settles nothing, and tangles every command but one the card
\* does not act upon.
LEMMA EmptyAnswerInv == ASSUME ProactiveInv, terminal_response_empty PROVE Phases' /\ Records'
<1>1. /\ term'.busy = NoCmd /\ term'.told = len
      /\ term'.events = term.events /\ term'.chans = term.chans
  BY DEF terminal_response_empty, override_status, ProactiveInv, TypeOK, Terminal
<1>2. /\ ~session' /\ UNCHANGED <<buf, len, subs, prev, bip, lastBip>>
      /\ tangled' = (tangled \/ (term.busy \in Encoded /\ term.busy.type # "Other"))
  BY DEF terminal_response_empty
<1>3. Phases' BY <1>1, <1>2, TokenAssumption DEF ProactiveInv, Phases
<1>4. Records'
  <2> SUFFICES ASSUME ~tangled' PROVE Records'
    BY DEF Records
  <2>1. \A t : t # "Other" => ~Runs(t) BY <1>2 DEF Runs
  <2>2. \A t : ~Runs(t)' /\ (Waits(t)' = Waits(t)) BY <1>1, <1>2, TokenAssumption DEF Runs, Waits
  <2>3. Accepted' = Accepted BY <1>1 DEF Accepted
  <2> QED BY <1>1, <1>2, <2>1, <2>2, <2>3 DEF ProactiveInv, Records
<1> QED BY <1>3, <1>4

LEMMA ProactiveStepInv == ProactiveInv /\ [Next]_vars => ProactiveInv'
<1> SUFFICES ASSUME ProactiveInv, [Next]_vars PROVE Phases' /\ Records'
  BY ProactiveStepType DEF ProactiveInv
<1>t. /\ term.told \in {term.told, override_status} /\ term \in Terminal
      /\ \A x : [term EXCEPT !.told = x].told = x /\ [term EXCEPT !.told = x].busy = term.busy
                /\ [term EXCEPT !.told = x].events = term.events
                /\ [term EXCEPT !.told = x].chans = term.chans
  BY DEF ProactiveInv, TypeOK, Terminal
<1>1. ASSUME UNCHANGED <<buf, len, subs, prev, bip, lastBip, session, tangled, term>>
      PROVE  Phases' /\ Records'
  BY <1>t, <1>1, SameWork
<1>2. ASSUME UNCHANGED <<buf, len, subs, prev, bip, lastBip, session, tangled>>,
             term' = [term EXCEPT !.told = override_status]
      PROVE  Phases' /\ Records'
  BY <1>t, <1>2, SameWork
<1>3. CASE UNCHANGED vars \/ take_event \/ take_expired_timer
           \/ (\E t \in Timers, secs \in 0 .. MaxSecs : start_timer(t, secs))
           \/ (\E t \in Timers : deactivate_timer(t)) \/ \E n \in 1 .. MaxSecs : tick(n)
  BY <1>1, <1>3 DEF vars, card, take_event, take_expired_timer, start_timer, deactivate_timer, tick
<1>4. CASE status \/ \E empty \in BOOLEAN : terminal_profile(empty)
  BY <1>2, <1>4 DEF status, card, terminal_profile
<1>5. CASE \E e \in Events \cup {"Plain"} : envelope(e)
  BY <1>1, <1>2, <1>5 DEF envelope
<1>6. CASE repeat_response
  <2>1. ~session BY <1>6 DEF repeat_response, ProactiveInv, Phases
  <2>2. UNCHANGED <<card, tangled>> /\ term' = [term EXCEPT !.said = NoCmd, !.told = @]
    BY <1>6, <2>1 DEF repeat_response, handle_terminal_response
  <2>3. /\ term'.busy = term.busy /\ term'.told = term.told
        /\ term'.events = term.events /\ term'.chans = term.chans
    BY <1>t, <2>2 DEF Terminal
  <2> QED BY <2>2, <2>3, SameWork DEF card
<1>7. CASE reset
  <2>1. /\ term'.busy = NoCmd /\ term'.told = 0 /\ term'.events = {} /\ term'.chans = {}
        /\ buf' = NoCmd /\ ~session' /\ subs' = {} /\ bip' = {}
    BY <1>7 DEF reset, NewTerminal
  <2>2. \A t : ~Waits(t)' /\ ~Runs(t)' BY <2>1, TokenAssumption DEF Waits, Runs
  <2> QED BY <2>1, <2>2, TokenAssumption DEF Phases, Records, Accepted
<1> QED BY <1>3, <1>4, <1>5, <1>6, <1>7, QueueInv, FetchInv, AnswerInv, EmptyAnswerInv DEF Next

LEMMA ProactiveInvCorrect == Spec => []ProactiveInv
BY ProactiveInitInv, ProactiveStepInv, PTL DEF Spec

\* FETCH hands out bytes of no command only after a command was queued over one
\* that was waiting: in particular never because queue_command failed over an
\* empty buffer.
THEOREM FetchedIsQueuedCorrect == Spec => []FetchedIsQueued
<1>1. ProactiveInv => FetchedIsQueued
  BY DEF ProactiveInv, Phases, FetchedIsQueued
<1> QED BY <1>1, ProactiveInvCorrect, PTL

\* Card and terminal hold the same event list whenever no command is open,
\* after any history of refused, repeated and reset commands that did not
\* overwrite each other's records.
THEOREM EventListCorrect == Spec => []EventListAgreed
<1>1. ProactiveInv => EventListAgreed
  <2> SUFFICES ASSUME ProactiveInv, Idle, ~tangled PROVE subs = term.events \cap SmallEvents
    BY DEF EventListAgreed
  <2>1. buf = NoCmd /\ term.busy = NoCmd
    BY DEF Idle, pending, ProactiveInv, Phases, TypeOK
  <2>2. \A t : ~Waits(t) /\ ~Runs(t) BY <2>1, TokenAssumption DEF Waits, Runs
  <2> QED BY <2>2 DEF ProactiveInv, Records, Accepted
<1> QED BY <1>1, ProactiveInvCorrect, PTL

\* The BIP channels agree under the same conditions.
THEOREM ChannelsCorrect == Spec => []ChannelsAgreed
<1>1. ProactiveInv => ChannelsAgreed
  BY DEF ProactiveInv, Records, ChannelsAgreed
<1> QED BY <1>1, ProactiveInvCorrect, PTL
=============================================================================
