-------------------------------- MODULE Scp --------------------------------
(***************************************************************************)
(* simrs-gp-scp with the handlers of simrs-gp-open: the secure channel     *)
(* between a host and the card, over a link that may lose, repeat, delay   *)
(* and reorder APDUs (the set of everything sent; any member may be        *)
(* delivered, any number of times).                                        *)
(*                                                                         *)
(* Cryptography is symbolic: a cryptogram or a MAC is the record of what   *)
(* it was computed from, and two are equal when those are.  The chaining   *)
(* value is the history of what it was computed over.  The host is not     *)
(* part of the repository's card; it follows the same protocol.            *)
(***************************************************************************)
EXTENDS Integers, Sequences, FiniteSets

CONSTANTS
    Versions,         \* SCP versions of the key sets: scp01, scp02, scp03
    SecurityLevels,   \* P1 of EXTERNAL AUTHENTICATE: 0, 1 (C-MAC), 3 (C-MAC, C-ENC)
    Commands,         \* commands a host sends
    WithData,         \* those of them that have a data field
    SeqMod,           \* 2^16: sequence_counter is a u16
    EncMod,           \* 2^16: enc_counter is a u16
    MaxSessions,      \* bound: sessions the host starts
    MaxInits,         \* bound: INITIALIZE UPDATEs the card answers
    MaxCommands,      \* bound: commands per session of the host
    None

ASSUME ScpAssumption ==
    /\ Versions \subseteq {"scp01", "scp02", "scp03"} /\ Versions # {}
    /\ SecurityLevels \subseteq {0, 1, 3}
    /\ SeqMod \in Nat \ {0} /\ EncMod \in Nat \ {0}
    /\ MaxSessions \in Nat /\ MaxInits \in Nat /\ MaxCommands \in Nat

VARIABLES
    card,             \* ScpState
    sequence_counter, \* of the card, persistent
    challenges,       \* card challenges drawn so far; the next is a new one
    host,             \* the host's side of its latest session
    sessions,         \* sessions the host has started; the number is its challenge
    link,             \* every APDU and response sent so far
    done,             \* history: commands the card took in its session
    sent,             \* history: commands the host sent, per session
    opened            \* history: what the host has authenticated

vars == <<card, sequence_counter, challenges, host, sessions, link, done, sent, opened>>

MacOn(level) == level \in {1, 3}
EncOn(level) == level = 3
AnyVersion == CHOOSE v \in Versions : TRUE
NoSession == [st |-> "no_session", ver |-> AnyVersion, hc |-> 0, cc |-> 0, seq |-> 0,
              level |-> 0, icv |-> <<>>, ctr |-> 0]

\* ---- Keys, cryptograms and MACs.  s is the state of either side. ----
\* SCP01 and SCP03 derive session keys from the challenges, SCP02 from the
\* sequence counter.
SessionKey(s) ==
    IF s.ver = "scp02" THEN [ver |-> s.ver, seq |-> s.seq]
                       ELSE [ver |-> s.ver, hc |-> s.hc, cc |-> s.cc]

\* Mutant: the host cryptogram leaves the card challenge out.
HostCryptogram_unfresh(s) == [key |-> [ver |-> s.ver], hc |-> s.hc, seq |-> 0, cc |-> 0]
HostCryptogram(s) == [key |-> SessionKey(s), hc |-> s.hc, seq |-> s.seq, cc |-> s.cc]

\* Mutant: no version chains its MACs.
EffectiveIcv_unchained(s) == <<>>
\* The chaining value that goes into a MAC: SCP01 always uses zeros.
EffectiveIcv(s) == IF s.ver = "scp01" THEN <<>> ELSE s.icv

CMac(s, body) == [key |-> SessionKey(s), icv |-> EffectiveIcv(s), body |-> body]

AuthBody(s, level) == [kind |-> "auth", level |-> level, cryptogram |-> HostCryptogram(s)]
\* EXTERNAL AUTHENTICATE is the first command of the chain.
AuthMac(s, level) == CMac([s EXCEPT !.icv = <<>>], AuthBody(s, level))

\* Mutant: the counter does not wrap.
NextCtr_unbounded(s, hasData) ==
    IF s.ver = "scp03" /\ EncOn(s.level) /\ hasData THEN s.ctr + 1 ELSE s.ctr
\* The C-ENC counter after a command: SCP03 counts the encrypted ones.
NextCtr(s, hasData) ==
    IF s.ver = "scp03" /\ EncOn(s.level) /\ hasData THEN (s.ctr + 1) % EncMod ELSE s.ctr

\* ---- The host ----
host_initialize_update(v) ==
    /\ sessions < MaxSessions
    /\ sessions' = sessions + 1
    /\ host' = [NoSession EXCEPT !.st = "init_update_done", !.ver = v, !.hc = sessions + 1]
    /\ link' = link \cup {[type |-> "init_update", ver |-> v, hc |-> sessions + 1]}
    /\ UNCHANGED <<card, sequence_counter, challenges, done, sent, opened>>

\* The host takes an answer to its own challenge and authenticates.
host_external_authenticate(level) ==
    /\ host.st = "init_update_done"
    /\ \E m \in link :
          /\ m.type = "init_response" /\ m.hc = host.hc
          /\ LET s == [host EXCEPT !.cc = m.cc, !.seq = m.seq]
             IN /\ host' = [s EXCEPT !.st = "authenticated", !.level = level,
                                     !.icv = <<AuthBody(s, level)>>]
                /\ link' = link \cup {[type |-> "ext_auth", level |-> level,
                                       cryptogram |-> HostCryptogram(s),
                                       mac |-> AuthMac(s, level)]}
                /\ opened' = opened \cup {[hc |-> s.hc, cc |-> s.cc, level |-> level]}
    /\ UNCHANGED <<card, sequence_counter, challenges, sessions, done, sent>>

host_command(c) ==
    /\ host.st = "authenticated"
    /\ Len(sent[host.hc]) < MaxCommands
    /\ LET ctr == NextCtr(host, c \in WithData)
           body == [kind |-> "cmd", cmd |-> c, ctr |-> ctr]
       IN /\ link' = link \cup {[type |-> "cmd", body |-> body,
                                 mac |-> IF MacOn(host.level) THEN CMac(host, body) ELSE None]}
          /\ host' = [host EXCEPT !.icv = Append(@, body), !.ctr = ctr]
          /\ sent' = [sent EXCEPT ![host.hc] = Append(@, body)]
    /\ UNCHANGED <<card, sequence_counter, challenges, sessions, done, opened>>

\* ---- The card; a command that is refused changes nothing. ----
\* INITIALIZE UPDATE, in any state.  A key set of version 01 or 02 moves the
\* sequence counter.
process_initialize_update(m) ==
    /\ m.type = "init_update"
    /\ challenges < MaxInits
    /\ challenges' = challenges + 1
    /\ card' = [NoSession EXCEPT !.st = "init_update_done", !.ver = m.ver, !.hc = m.hc,
                                 !.cc = challenges + 1, !.seq = sequence_counter]
    /\ sequence_counter' = IF m.ver = "scp03" THEN sequence_counter
                           ELSE (sequence_counter + 1) % SeqMod
    /\ link' = link \cup {[type |-> "init_response", hc |-> m.hc, cc |-> challenges + 1,
                           seq |-> sequence_counter]}
    /\ done' = <<>>
    /\ UNCHANGED <<host, sessions, sent, opened>>

\* EXTERNAL AUTHENTICATE: the cryptogram, then the MAC over the level.
process_external_authenticate(m) ==
    /\ m.type = "ext_auth"
    /\ card.st = "init_update_done"
    /\ m.cryptogram = HostCryptogram(card)
    /\ m.mac = AuthMac(card, m.level)
    /\ card' = [card EXCEPT !.st = "authenticated", !.level = m.level, !.ctr = 0,
                            !.icv = <<AuthBody(card, m.level)>>]
    /\ UNCHANGED <<sequence_counter, challenges, host, sessions, link, done, sent, opened>>

MacVerifies(m) == m.mac # None /\ m.mac = CMac(card, m.body)

\* Mutant: the counter moves before the MAC is compared.
unwrap_command_early(m) ==
    /\ m.type = "cmd"
    /\ card.st = "authenticated"
    /\ Len(done) < MaxCommands
    /\ LET ctr == NextCtr(card, m.body.cmd \in WithData)
       IN IF MacOn(card.level) /\ ~MacVerifies(m)
          THEN card' = [card EXCEPT !.ctr = ctr] /\ UNCHANGED done
          ELSE /\ card' = [card EXCEPT !.icv = Append(@, m.body), !.ctr = ctr]
               /\ done' = Append(done, m.body)
    /\ UNCHANGED <<sequence_counter, challenges, host, sessions, link, sent, opened>>

\* A GP command in an authenticated session: unwrap_command when the session
\* has C-MAC, and the command is carried out.
unwrap_command(m) ==
    /\ m.type = "cmd"
    /\ card.st = "authenticated"
    /\ Len(done) < MaxCommands
    /\ IF MacOn(card.level)
       THEN /\ MacVerifies(m)
            /\ card' = [card EXCEPT !.icv = Append(@, m.body),
                                    !.ctr = NextCtr(card, m.body.cmd \in WithData)]
       ELSE UNCHANGED card
    /\ done' = Append(done, m.body)
    /\ UNCHANGED <<sequence_counter, challenges, host, sessions, link, sent, opened>>

\* reset_scp_state
reset_scp_state ==
    /\ card' = NoSession /\ done' = <<>>
    /\ UNCHANGED <<sequence_counter, challenges, host, sessions, link, sent, opened>>

Init ==
    /\ card = NoSession /\ host = NoSession
    /\ sequence_counter \in {0, SeqMod - 1} /\ challenges = 0 /\ sessions = 0
    /\ link = {} /\ done = <<>> /\ opened = {}
    /\ sent = [n \in 1 .. MaxSessions |-> <<>>]

Next ==
    \/ \E v \in Versions : host_initialize_update(v)
    \/ \E l \in SecurityLevels : host_external_authenticate(l)
    \/ \E c \in Commands : host_command(c)
    \/ \E m \in link :
          \/ process_initialize_update(m)
          \/ process_external_authenticate(m)
          \/ unwrap_command(m)
    \/ reset_scp_state

Spec == Init /\ [][Next]_vars

\* ---- Properties ----
\* The two forms of session keys, what is computed from them, and the chain.
Keys == [ver : Versions, seq : 0 .. SeqMod - 1]
          \cup [ver : Versions, hc : 0 .. MaxSessions, cc : 0 .. MaxInits]
Cryptograms == [key : Keys, hc : 0 .. MaxSessions, seq : 0 .. SeqMod - 1, cc : 0 .. MaxInits]
AuthBodies == [kind : {"auth"}, level : SecurityLevels, cryptogram : Cryptograms]
CmdBodies == [kind : {"cmd"}, cmd : Commands, ctr : 0 .. EncMod - 1]
Side == [st : {"no_session", "init_update_done", "authenticated"}, ver : Versions,
         hc : 0 .. MaxSessions, cc : 0 .. MaxInits, seq : 0 .. SeqMod - 1,
         level : SecurityLevels \cup {0}, icv : Seq(AuthBodies \cup CmdBodies),
         ctr : 0 .. EncMod - 1]
\* Both sides keep their types and both counters their width.
TypeOK ==
    /\ card \in Side /\ host \in Side
    /\ sequence_counter \in 0 .. SeqMod - 1
    /\ challenges \in 0 .. MaxInits /\ sessions \in 0 .. MaxSessions
    /\ done \in Seq(CmdBodies)
    /\ sent \in [1 .. MaxSessions -> Seq(CmdBodies)]

\* A card that is authenticated is in a session that the host opened with this
\* very card challenge, at the security level the host asked for: no repeated
\* or late EXTERNAL AUTHENTICATE opens another session, also when the sequence
\* counter has wrapped.
SessionAgreement ==
    card.st = "authenticated" =>
       [hc |-> card.hc, cc |-> card.cc, level |-> card.level] \in opened

\* With C-MAC the commands the card has carried out are the first ones the host
\* sent in this session, in its order, each once: whatever the link repeats,
\* loses or reorders.  It is the property of the chaining of SCP02 and SCP03;
\* SCP01 starts every C-MAC from zeros and does not have it.
AcceptedInOrder ==
    card.st = "authenticated" /\ MacOn(card.level) /\ card.ver # "scp01"
    => \A i \in DOMAIN done : i \in DOMAIN sent[card.hc] /\ done[i] = sent[card.hc][i]

\* A command with an encrypted data field that the SCP03 card accepts is
\* decrypted under the counter it was encrypted under, although commands may be
\* lost on the way and the counter wraps.
CountersInStep ==
    [][Len(done') > Len(done) /\ MacOn(card.level)
       => done'[Len(done')].ctr = card'.ctr]_vars
=============================================================================
