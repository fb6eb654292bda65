----------------------------- MODULE ScpProofs -----------------------------
(***************************************************************************)
(* Proofs about the secure channel, for any number of sessions, commands   *)
(* and answered INITIALIZE UPDATEs and for counters of every width, over a *)
(* link that may deliver any message it has seen at any time.  What the    *)
(* card does depends on what it is sent, so each invariant comes with one  *)
(* on the messages: an EXTERNAL AUTHENTICATE says what the host opened, and *)
(* the MAC of a command says which commands came before it.                *)
(***************************************************************************)
EXTENDS Scp, TLAPS

\* ---- Invariants ----
\* The form of the messages on the link, when the host has started n sessions.
Message(m, n) ==
    /\ m.type \in {"init_update", "init_response", "ext_auth", "cmd"}
    /\ m.type = "init_update" => m.ver \in Versions /\ m.hc \in 1 .. n
    /\ m.type = "init_response" => m.cc \in 0 .. MaxInits /\ m.seq \in 0 .. SeqMod - 1
    /\ m.type = "ext_auth" => m.level \in SecurityLevels
    /\ m.type = "cmd" => m.body \in CmdBodies
Messages == \A m \in link : Message(m, sessions)

\* A side that is in a session is in one the host has started.
InSession ==
    /\ host.st # "no_session" => host.hc \in 1 .. sessions
    /\ card.st # "no_session" => card.hc \in 1 .. sessions

ScpTypeInv == TypeOK /\ Messages /\ InSession

\* Every EXTERNAL AUTHENTICATE on the link was sent to open a session, with the
\* challenges and at the level that it names.
Opening(m, op) ==
    m.type = "ext_auth" =>
       [hc |-> m.cryptogram.hc, cc |-> m.cryptogram.cc, level |-> m.level] \in op
Openings == \A m \in link : Opening(m, opened)

\* icv is the chaining value of side s after the commands cmds.
Chain(s, icv, cmds) ==
    /\ Len(icv) = Len(cmds) + 1
    /\ icv[1] = AuthBody(s, s.level)
    /\ \A i \in 1 .. Len(cmds) : icv[i + 1] = cmds[i]

\* The counter that the last command of a chain was encrypted under.
LastCtr(icv) == IF Len(icv) = 1 THEN 0 ELSE icv[Len(icv)].ctr

\* The host chains what it sends.  A session it has not authenticated has no
\* commands, and neither has one it has not started.
HostChain ==
    /\ \A n \in 1 .. MaxSessions : n > sessions => sent[n] = <<>>
    /\ host.st = "init_update_done" => sent[host.hc] = <<>>
    /\ host.st = "authenticated" =>
          Chain(host, host.icv, sent[host.hc]) /\ host.ctr = LastCtr(host.icv)
    /\ host.st = "authenticated" => host.level \in SecurityLevels
    /\ host.st # "authenticated" => host.ctr = 0
    /\ host.ver # "scp03" => host.ctr = 0

\* The card chains what it takes.
CardChain ==
    /\ card.st # "authenticated" => done = <<>>
    /\ card.st = "authenticated" /\ MacOn(card.level) =>
          Chain(card, card.icv, done) /\ card.ctr = LastCtr(card.icv)
    /\ card.ver # "scp03" => card.ctr = 0

\* The MAC of a command tells its place in the host's session: the chaining
\* value names the session and lists the commands before it, and the counter in
\* the command follows from the one before.
Place(m, n, cmds) ==
    m.type = "cmd" /\ m.mac # None =>
       /\ m.mac.key.ver # "scp03" => m.body.ctr = 0
       /\ m.mac.key.ver # "scp01" =>
             LET icv == m.mac.icv
                 h == icv[1].cryptogram.hc
             IN /\ h \in 1 .. n
                /\ Len(icv) \in 1 .. Len(cmds[h]) /\ cmds[h][Len(icv)] = m.body
                /\ \A i \in 1 .. Len(icv) - 1 : icv[i + 1] = cmds[h][i]
                /\ m.mac.key.ver = "scp03" =>
                      m.body.ctr = IF EncOn(icv[1].level) /\ m.body.cmd \in WithData
                                   THEN (LastCtr(icv) + 1) % EncMod ELSE LastCtr(icv)
Places == \A m \in link : Place(m, sessions, sent)

ScpInv == ScpTypeInv /\ HostChain /\ CardChain /\ Places /\ AcceptedInOrder

\* ---- Lemmas on the operators ----
LEMMA Zeros ==
    /\ 0 \in 0 .. MaxSessions /\ 0 \in 0 .. MaxInits /\ 0 \in 0 .. SeqMod - 1
    /\ 0 \in 0 .. EncMod - 1 /\ <<>> \in Seq(AuthBodies \cup CmdBodies)
    /\ AnyVersion \in Versions
BY ScpAssumption DEF AnyVersion

LEMMA NoSessionSide == NoSession \in Side
BY Zeros DEF NoSession, Side

\* The cryptogram of a side depends on its version, challenges and counter only.
LEMMA CryptogramType ==
    ASSUME NEW s \in Side
    PROVE  /\ HostCryptogram(s) \in Cryptograms /\ SessionKey(s).ver = s.ver
           /\ HostCryptogram(s).hc = s.hc /\ HostCryptogram(s).cc = s.cc
           /\ \A l \in SecurityLevels : AuthBody(s, l) \in AuthBodies
<1>1. s.ver \in Versions /\ s.seq \in 0 .. SeqMod - 1 /\ s.hc \in 0 .. MaxSessions
      /\ s.cc \in 0 .. MaxInits
  BY DEF Side
<1>2. SessionKey(s) \in Keys /\ SessionKey(s).ver = s.ver BY <1>1 DEF SessionKey, Keys
<1>3. HostCryptogram(s) \in Cryptograms BY <1>1, <1>2 DEF HostCryptogram, Cryptograms
<1>4. \A l \in SecurityLevels : AuthBody(s, l) \in AuthBodies
  BY <1>3 DEF AuthBody, AuthBodies
<1> QED BY <1>2, <1>3, <1>4 DEF HostCryptogram

LEMMA SameCryptogram ==
    ASSUME NEW s, NEW t, s.ver = t.ver, s.hc = t.hc, s.cc = t.cc, s.seq = t.seq
    PROVE  /\ SessionKey(s) = SessionKey(t) /\ HostCryptogram(s) = HostCryptogram(t)
           /\ \A l : AuthBody(s, l) = AuthBody(t, l)
<1>1. SessionKey(s) = SessionKey(t) BY DEF SessionKey
<1>2. HostCryptogram(s) = HostCryptogram(t) BY <1>1 DEF HostCryptogram
<1> QED BY <1>1, <1>2 DEF AuthBody

LEMMA NextCtrType ==
    ASSUME NEW s \in Side, NEW b
    PROVE  NextCtr(s, b) \in 0 .. EncMod - 1 /\ (s.ver # "scp03" => NextCtr(s, b) = s.ctr)
<1>1. s.ctr \in 0 .. EncMod - 1 /\ EncMod \in Nat \ {0} BY ScpAssumption DEF Side
<1>2. (s.ctr + 1) % EncMod \in 0 .. EncMod - 1 BY <1>1
<1> QED BY <1>1, <1>2 DEF NextCtr

\* ---- Type correctness ----
LEMMA ScpInitType == Init => ScpTypeInv
<1> SUFFICES ASSUME Init PROVE ScpTypeInv
  OBVIOUS
<1>1. card \in Side /\ host \in Side BY NoSessionSide DEF Init
<1>2. /\ sequence_counter \in 0 .. SeqMod - 1 /\ challenges \in 0 .. MaxInits
      /\ sessions \in 0 .. MaxSessions
  BY ScpAssumption DEF Init
<1>3. done \in Seq(CmdBodies) /\ sent \in [1 .. MaxSessions -> Seq(CmdBodies)] BY DEF Init
<1>4. Messages BY DEF Init, Messages
<1>5. InSession BY DEF Init, InSession, NoSession
<1> QED BY <1>1, <1>2, <1>3, <1>4, <1>5 DEF ScpTypeInv, TypeOK

\* Messages stay well formed when the link grows by well-formed ones.
LEMMA LinkGrows ==
    ASSUME Messages, NEW new, link' = link \cup {new}, Message(new, sessions'), TypeOK,
           sessions' \in {sessions, sessions + 1}
    PROVE  Messages'
<1>1. \A h : h \in 1 .. sessions => h \in 1 .. sessions' BY DEF TypeOK
<1>2. ASSUME NEW m \in link PROVE Message(m, sessions')
  BY <1>1 DEF Messages, Message
<1> QED BY <1>2 DEF Messages

LEMMA HostInitType ==
    ASSUME ScpTypeInv, NEW v \in Versions, host_initialize_update(v)
    PROVE  ScpTypeInv'
<1> DEFINE new == [type |-> "init_update", ver |-> v, hc |-> sessions + 1]
<1>1. sessions \in Nat /\ sessions + 1 \in 1 .. MaxSessions /\ sessions' = sessions + 1
  BY ScpAssumption DEF ScpTypeInv, TypeOK, host_initialize_update
<1>2. host' \in Side /\ host'.hc = sessions + 1
  <2>1. host' = [st |-> "init_update_done", ver |-> v, hc |-> sessions + 1, cc |-> 0,
                 seq |-> 0, level |-> 0, icv |-> <<>>, ctr |-> 0]
    BY DEF host_initialize_update, NoSession
  <2> QED BY <1>1, <2>1, Zeros DEF Side
<1>3. TypeOK' BY <1>1, <1>2 DEF ScpTypeInv, TypeOK, host_initialize_update
<1>4. Message(new, sessions') BY <1>1 DEF Message
<1>5. link' = link \cup {new} BY DEF host_initialize_update
<1> HIDE DEF new
<1>6. Messages' BY <1>1, <1>4, <1>5, LinkGrows DEF ScpTypeInv
<1>7. InSession' BY <1>1, <1>2 DEF ScpTypeInv, InSession, host_initialize_update
<1> QED BY <1>3, <1>6, <1>7 DEF ScpTypeInv

\* What the host is after it has taken the answer m and authenticated.
LEMMA HostAuthStep ==
    ASSUME ScpTypeInv, NEW level \in SecurityLevels, host_external_authenticate(level)
    PROVE  \E s \in Side :
              /\ s.ver = host.ver /\ s.hc = host.hc /\ s.ctr = host.ctr
              /\ host' \in Side /\ host'.ver = s.ver /\ host'.hc = s.hc /\ host'.cc = s.cc
              /\ host'.seq = s.seq /\ host'.st = "authenticated" /\ host'.level = level
              /\ host'.icv = <<AuthBody(s, level)>> /\ host'.ctr = host.ctr
              /\ link' = link \cup {[type |-> "ext_auth", level |-> level,
                                     cryptogram |-> HostCryptogram(s),
                                     mac |-> AuthMac(s, level)]}
              /\ opened' = opened \cup {[hc |-> s.hc, cc |-> s.cc, level |-> level]}
<1>1. PICK m \in link :
         /\ m.type = "init_response"
         /\ LET s == [host EXCEPT !.cc = m.cc, !.seq = m.seq]
            IN /\ host' = [s EXCEPT !.st = "authenticated", !.level = level,
                                    !.icv = <<AuthBody(s, level)>>]
               /\ link' = link \cup {[type |-> "ext_auth", level |-> level,
                                      cryptogram |-> HostCryptogram(s),
                                      mac |-> AuthMac(s, level)]}
               /\ opened' = opened \cup {[hc |-> s.hc, cc |-> s.cc, level |-> level]}
  BY Zenon DEF host_external_authenticate
<1> DEFINE s == [host EXCEPT !.cc = m.cc, !.seq = m.seq]
<1>2. m.cc \in 0 .. MaxInits /\ m.seq \in 0 .. SeqMod - 1
  BY <1>1 DEF ScpTypeInv, Messages, Message
<1>3. host \in Side BY DEF ScpTypeInv, TypeOK
<1>4. s \in Side /\ s.ver = host.ver /\ s.hc = host.hc /\ s.ctr = host.ctr
  BY <1>2, <1>3 DEF Side
<1>5. host' = [s EXCEPT !.st = "authenticated", !.level = level, !.icv = <<AuthBody(s, level)>>]
  BY <1>1, Zenon
<1>6. /\ link' = link \cup {[type |-> "ext_auth", level |-> level,
                             cryptogram |-> HostCryptogram(s), mac |-> AuthMac(s, level)]}
      /\ opened' = opened \cup {[hc |-> s.hc, cc |-> s.cc, level |-> level]}
  BY <1>1, Zenon
<1> HIDE DEF s
<1>7. AuthBody(s, level) \in AuthBodies BY <1>4, CryptogramType
<1>8. <<AuthBody(s, level)>> \in Seq(AuthBodies \cup CmdBodies) BY <1>7
<1>9. host' \in Side BY <1>4, <1>5, <1>8 DEF Side
<1>10. /\ host'.ver = s.ver /\ host'.hc = s.hc /\ host'.cc = s.cc /\ host'.seq = s.seq
       /\ host'.st = "authenticated" /\ host'.level = level
       /\ host'.icv = <<AuthBody(s, level)>> /\ host'.ctr = s.ctr
  BY <1>4, <1>5 DEF Side
<1> QED BY <1>4, <1>6, <1>9, <1>10

LEMMA HostAuthType ==
    ASSUME ScpTypeInv, NEW level \in SecurityLevels, host_external_authenticate(level)
    PROVE  ScpTypeInv'
<1>1. PICK s \in Side :
         /\ host' \in Side /\ host'.hc = host.hc
         /\ link' = link \cup {[type |-> "ext_auth", level |-> level,
                                cryptogram |-> HostCryptogram(s), mac |-> AuthMac(s, level)]}
  BY HostAuthStep
<1> DEFINE new == [type |-> "ext_auth", level |-> level,
                   cryptogram |-> HostCryptogram(s), mac |-> AuthMac(s, level)]
<1>2. host.st = "init_update_done"
      /\ UNCHANGED <<card, sequence_counter, challenges, sessions, done, sent>>
  BY DEF host_external_authenticate
<1>3. TypeOK' BY <1>1, <1>2 DEF ScpTypeInv, TypeOK
<1>4. Message(new, sessions') BY DEF Message
<1>5. link' = link \cup {new} BY <1>1
<1> HIDE DEF new
<1>6. Messages' BY <1>2, <1>4, <1>5, LinkGrows DEF ScpTypeInv
<1>7. InSession' BY <1>1, <1>2 DEF ScpTypeInv, InSession
<1> QED BY <1>3, <1>6, <1>7 DEF ScpTypeInv

\* The body of a command of the host, and the host after it.
LEMMA HostCommandStep ==
    ASSUME ScpTypeInv, NEW c \in Commands, host_command(c)
    PROVE  \E body \in CmdBodies :
              /\ body.cmd = c /\ body.ctr = NextCtr(host, c \in WithData)
              /\ host' \in Side /\ host'.st = host.st /\ host'.ver = host.ver
              /\ host'.hc = host.hc /\ host'.cc = host.cc /\ host'.seq = host.seq
              /\ host'.level = host.level /\ host'.ctr = body.ctr
              /\ host'.icv = Append(host.icv, body)
              /\ sent' = [sent EXCEPT ![host.hc] = Append(@, body)]
              /\ link' = link \cup {[type |-> "cmd", body |-> body,
                            mac |-> IF MacOn(host.level) THEN CMac(host, body) ELSE None]}
<1> DEFINE ctr == NextCtr(host, c \in WithData)
           body == [kind |-> "cmd", cmd |-> c, ctr |-> ctr]
<1>1. host \in Side BY DEF ScpTypeInv, TypeOK
<1>2. ctr \in 0 .. EncMod - 1 BY <1>1, NextCtrType
<1> HIDE DEF ctr
<1>3. body \in CmdBodies /\ body.cmd = c /\ body.ctr = ctr BY <1>2 DEF CmdBodies
<1>4. /\ host' = [host EXCEPT !.icv = Append(@, body), !.ctr = ctr]
      /\ sent' = [sent EXCEPT ![host.hc] = Append(@, body)]
      /\ link' = link \cup {[type |-> "cmd", body |-> body,
                    mac |-> IF MacOn(host.level) THEN CMac(host, body) ELSE None]}
  BY Zenon DEF host_command, ctr
<1> HIDE DEF body
<1>5. host.icv \in Seq(AuthBodies \cup CmdBodies) BY <1>1 DEF Side
<1>6. Append(host.icv, body) \in Seq(AuthBodies \cup CmdBodies) BY <1>3, <1>5
<1>7. host' \in Side BY <1>1, <1>2, <1>4, <1>6 DEF Side
<1>8. /\ host'.st = host.st /\ host'.ver = host.ver /\ host'.hc = host.hc
      /\ host'.cc = host.cc /\ host'.seq = host.seq /\ host'.level = host.level
      /\ host'.ctr = ctr /\ host'.icv = Append(host.icv, body)
  BY <1>1, <1>4 DEF Side
<1> QED BY <1>3, <1>4, <1>7, <1>8 DEF ctr

LEMMA HostNumber ==
    ASSUME ScpTypeInv, NEW c, host_command(c)
    PROVE  host.hc \in 1 .. sessions /\ host.hc \in 1 .. MaxSessions
<1>1. host.hc \in 1 .. sessions BY DEF ScpTypeInv, InSession, host_command
<1> QED BY <1>1, ScpAssumption DEF ScpTypeInv, TypeOK

LEMMA HostCommandType ==
    ASSUME ScpTypeInv, NEW c \in Commands, host_command(c)
    PROVE  ScpTypeInv'
<1>1. PICK body \in CmdBodies :
         /\ host' \in Side /\ host'.st = host.st /\ host'.hc = host.hc
         /\ sent' = [sent EXCEPT ![host.hc] = Append(@, body)]
         /\ link' = link \cup {[type |-> "cmd", body |-> body,
                       mac |-> IF MacOn(host.level) THEN CMac(host, body) ELSE None]}
  BY HostCommandStep
<1> DEFINE new == [type |-> "cmd", body |-> body,
                   mac |-> IF MacOn(host.level) THEN CMac(host, body) ELSE None]
<1>2. UNCHANGED <<card, sequence_counter, challenges, sessions, done>> BY DEF host_command
<1>3. sent' \in [1 .. MaxSessions -> Seq(CmdBodies)]
  <2>1. host.hc \in 1 .. MaxSessions BY HostNumber
  <2>2. Append(sent[host.hc], body) \in Seq(CmdBodies) BY <2>1 DEF ScpTypeInv, TypeOK
  <2> QED BY <1>1, <2>2 DEF ScpTypeInv, TypeOK
<1>4. TypeOK' BY <1>1, <1>2, <1>3 DEF ScpTypeInv, TypeOK
<1>5. Message(new, sessions') BY DEF Message
<1>6. link' = link \cup {new} BY <1>1
<1> HIDE DEF new
<1>7. Messages' BY <1>2, <1>5, <1>6, LinkGrows DEF ScpTypeInv
<1>8. InSession' BY <1>1, <1>2 DEF ScpTypeInv, InSession
<1> QED BY <1>4, <1>7, <1>8 DEF ScpTypeInv

LEMMA CardInitType ==
    ASSUME ScpTypeInv, NEW m \in link, process_initialize_update(m)
    PROVE  ScpTypeInv' /\ card'.st = "init_update_done" /\ card'.ctr = 0 /\ done' = <<>>
<1> DEFINE new == [type |-> "init_response", hc |-> m.hc, cc |-> challenges + 1,
                   seq |-> sequence_counter]
<1>1. /\ m.ver \in Versions /\ m.hc \in 1 .. sessions /\ m.hc \in 0 .. MaxSessions
      /\ challenges' = challenges + 1 /\ challenges + 1 \in 0 .. MaxInits
  <2>1. m.ver \in Versions /\ m.hc \in 1 .. sessions
    BY DEF process_initialize_update, ScpTypeInv, Messages, Message
  <2> QED BY <2>1, ScpAssumption DEF process_initialize_update, ScpTypeInv, TypeOK
<1>2. sequence_counter \in 0 .. SeqMod - 1 /\ sequence_counter' \in 0 .. SeqMod - 1
  <2>1. sequence_counter \in 0 .. SeqMod - 1 /\ SeqMod \in Nat \ {0}
    BY ScpAssumption DEF ScpTypeInv, TypeOK
  <2>2. (sequence_counter + 1) % SeqMod \in 0 .. SeqMod - 1 BY <2>1
  <2> QED BY <2>1, <2>2 DEF process_initialize_update
<1>3. card' = [st |-> "init_update_done", ver |-> m.ver, hc |-> m.hc, cc |-> challenges + 1,
               seq |-> sequence_counter, level |-> 0, icv |-> <<>>, ctr |-> 0]
  BY DEF process_initialize_update, NoSession
<1>4. card' \in Side BY <1>1, <1>2, <1>3, Zeros DEF Side
<1>5. done' = <<>> /\ UNCHANGED <<host, sessions, sent>> BY DEF process_initialize_update
<1>6. <<>> \in Seq(CmdBodies) OBVIOUS
<1>7. TypeOK' BY <1>1, <1>2, <1>4, <1>5, <1>6 DEF ScpTypeInv, TypeOK
<1>8. Message(new, sessions') BY <1>1, <1>2 DEF Message
<1>9. link' = link \cup {new} BY DEF process_initialize_update
<1> HIDE DEF new
<1>10. Messages' BY <1>5, <1>8, <1>9, LinkGrows DEF ScpTypeInv
<1>11. InSession' BY <1>1, <1>3, <1>5 DEF ScpTypeInv, InSession
<1> QED BY <1>3, <1>5, <1>7, <1>10, <1>11 DEF ScpTypeInv

\* The card once it has accepted an EXTERNAL AUTHENTICATE.
LEMMA CardAuthType ==
    ASSUME ScpTypeInv, NEW m \in link, process_external_authenticate(m)
    PROVE  /\ ScpTypeInv'
           /\ card'.st = "authenticated" /\ card'.ver = card.ver /\ card'.hc = card.hc
           /\ card'.cc = card.cc /\ card'.seq = card.seq /\ card'.level = m.level
           /\ card'.ctr = 0 /\ card'.icv = <<AuthBody(card, m.level)>>
<1>1. card \in Side BY DEF ScpTypeInv, TypeOK
<1>2. m.level \in SecurityLevels
  BY DEF process_external_authenticate, ScpTypeInv, Messages, Message
<1>3. AuthBody(card, m.level) \in AuthBodies BY <1>1, <1>2, CryptogramType
<1>4. <<AuthBody(card, m.level)>> \in Seq(AuthBodies \cup CmdBodies) BY <1>3
<1>5. card' = [card EXCEPT !.st = "authenticated", !.level = m.level, !.ctr = 0,
                           !.icv = <<AuthBody(card, m.level)>>]
  BY DEF process_external_authenticate
<1>6. card' \in Side BY <1>1, <1>2, <1>4, <1>5, Zeros DEF Side
<1>7. /\ card'.st = "authenticated" /\ card'.ver = card.ver /\ card'.hc = card.hc
      /\ card'.cc = card.cc /\ card'.seq = card.seq /\ card'.level = m.level
      /\ card'.ctr = 0 /\ card'.icv = <<AuthBody(card, m.level)>>
  BY <1>1, <1>5 DEF Side
<1>8. /\ card.st = "init_update_done"
      /\ UNCHANGED <<sequence_counter, challenges, host, sessions, link, done, sent>>
  BY DEF process_external_authenticate
<1>9. TypeOK' BY <1>6, <1>8 DEF ScpTypeInv, TypeOK
<1>10. Messages' /\ InSession' BY <1>7, <1>8 DEF ScpTypeInv, Messages, InSession
<1> QED BY <1>7, <1>9, <1>10 DEF ScpTypeInv

\* The card once it has carried out a command: without C-MAC it keeps no chain.
LEMMA UnwrapType ==
    ASSUME ScpTypeInv, NEW m \in link, unwrap_command(m)
    PROVE  /\ ScpTypeInv' /\ m.body \in CmdBodies /\ done' = Append(done, m.body)
           /\ ~MacOn(card.level) => card' = card
           /\ card'.st = card.st /\ card'.ver = card.ver /\ card'.hc = card.hc
           /\ card'.cc = card.cc /\ card'.seq = card.seq /\ card'.level = card.level
           /\ MacOn(card.level) =>
                 /\ MacVerifies(m)
                 /\ card'.ctr = NextCtr(card, m.body.cmd \in WithData)
                 /\ card'.icv = Append(card.icv, m.body)
<1>1. card \in Side BY DEF ScpTypeInv, TypeOK
<1>2. m.body \in CmdBodies BY DEF unwrap_command, ScpTypeInv, Messages, Message
<1> DEFINE ctr == NextCtr(card, m.body.cmd \in WithData)
<1>3. ctr \in 0 .. EncMod - 1 BY <1>1, NextCtrType
<1>4. card.icv \in Seq(AuthBodies \cup CmdBodies) BY <1>1 DEF Side
<1>5. Append(card.icv, m.body) \in Seq(AuthBodies \cup CmdBodies) BY <1>2, <1>4
<1>6. MacOn(card.level) =>
         MacVerifies(m) /\ card' = [card EXCEPT !.icv = Append(@, m.body), !.ctr = ctr]
  BY DEF unwrap_command
<1>7. ~MacOn(card.level) => card' = card BY DEF unwrap_command
<1>8. /\ done' = Append(done, m.body)
      /\ UNCHANGED <<sequence_counter, challenges, host, sessions, link, sent>>
  BY DEF unwrap_command
<1> HIDE DEF ctr
<1>9. card' \in Side BY <1>1, <1>3, <1>5, <1>6, <1>7 DEF Side
<1>10. /\ card'.st = card.st /\ card'.ver = card.ver /\ card'.hc = card.hc
       /\ card'.cc = card.cc /\ card'.seq = card.seq /\ card'.level = card.level
       /\ MacOn(card.level) => card'.ctr = ctr /\ card'.icv = Append(card.icv, m.body)
  BY <1>1, <1>6, <1>7 DEF Side
<1>11. done' \in Seq(CmdBodies) BY <1>2, <1>8 DEF ScpTypeInv, TypeOK
<1>12. TypeOK' BY <1>8, <1>9, <1>11 DEF ScpTypeInv, TypeOK
<1>13. Messages' /\ InSession' BY <1>8, <1>10 DEF ScpTypeInv, Messages, InSession
<1> QED BY <1>2, <1>6, <1>7, <1>8, <1>10, <1>12, <1>13 DEF ScpTypeInv, ctr

LEMMA ResetType ==
    ASSUME ScpTypeInv, reset_scp_state
    PROVE  ScpTypeInv' /\ card'.st = "no_session" /\ card'.ctr = 0 /\ done' = <<>>
<1>1. card' = NoSession /\ done' = <<>>
      /\ UNCHANGED <<sequence_counter, challenges, host, sessions, link, sent>>
  BY DEF reset_scp_state
<1>2. card'.st = "no_session" /\ card'.ctr = 0 BY <1>1 DEF NoSession
<1>3. <<>> \in Seq(CmdBodies) OBVIOUS
<1>4. TypeOK' BY <1>1, <1>3, NoSessionSide DEF ScpTypeInv, TypeOK
<1>5. Messages' /\ InSession' BY <1>1, <1>2 DEF ScpTypeInv, Messages, InSession
<1> QED BY <1>1, <1>2, <1>4, <1>5 DEF ScpTypeInv

LEMMA ScpStepType == ScpTypeInv /\ [Next]_vars => ScpTypeInv'
<1>1. ASSUME ScpTypeInv, UNCHANGED vars PROVE ScpTypeInv'
  BY <1>1 DEF ScpTypeInv, TypeOK, Messages, InSession, vars
<1> QED BY <1>1, HostInitType, HostAuthType, HostCommandType, CardInitType, CardAuthType,
           UnwrapType, ResetType DEF Next

\* Both sides keep their types, whatever the link delivers; the counters stay
\* within their width when they wrap.
THEOREM ScpTypeCorrect == Spec => []TypeOK
<1>1. ScpTypeInv => TypeOK BY DEF ScpTypeInv
<1> QED BY <1>1, ScpInitType, ScpStepType, PTL DEF Spec

\* ---- Freshness of a session ----
LEMMA OpeningsGrow ==
    ASSUME Openings, NEW new, link' \subseteq link \cup {new}, Opening(new, opened'),
           opened \subseteq opened'
    PROVE  Openings'
BY DEF Openings, Opening

\* The host cryptogram covers the card's challenge, so an EXTERNAL AUTHENTICATE
\* that the card accepts was sent for the session the card is in, and the level
\* it carries is the one that is set.
LEMMA AgreementStep ==
    ASSUME ScpTypeInv, Openings, SessionAgreement, [Next]_vars
    PROVE  Openings' /\ SessionAgreement'
<1>1. ASSUME UNCHANGED <<card, link, opened>> PROVE Openings' /\ SessionAgreement'
  BY <1>1 DEF Openings, SessionAgreement
<1>2. ASSUME NEW v \in Versions, host_initialize_update(v) PROVE Openings' /\ SessionAgreement'
  <2> DEFINE new == [type |-> "init_update", ver |-> v, hc |-> sessions + 1]
  <2>1. link' = link \cup {new} /\ UNCHANGED <<card, opened>>
    BY <1>2 DEF host_initialize_update
  <2>2. Opening(new, opened') BY DEF Opening
  <2> HIDE DEF new
  <2> QED BY <2>1, <2>2, OpeningsGrow DEF SessionAgreement
<1>3. ASSUME NEW l \in SecurityLevels, host_external_authenticate(l)
      PROVE  Openings' /\ SessionAgreement'
  <2>1. PICK s \in Side :
           /\ link' = link \cup {[type |-> "ext_auth", level |-> l,
                                  cryptogram |-> HostCryptogram(s), mac |-> AuthMac(s, l)]}
           /\ opened' = opened \cup {[hc |-> s.hc, cc |-> s.cc, level |-> l]}
    BY <1>3, HostAuthStep
  <2> DEFINE new == [type |-> "ext_auth", level |-> l,
                     cryptogram |-> HostCryptogram(s), mac |-> AuthMac(s, l)]
  <2>2. HostCryptogram(s).hc = s.hc /\ HostCryptogram(s).cc = s.cc BY CryptogramType
  <2>3. Opening(new, opened') BY <2>1, <2>2 DEF Opening
  <2>4. card' = card BY <1>3 DEF host_external_authenticate
  <2>5. link' = link \cup {new} /\ opened \subseteq opened' BY <2>1
  <2> HIDE DEF new
  <2> QED BY <2>3, <2>4, <2>5, OpeningsGrow DEF SessionAgreement
<1>4. ASSUME NEW c \in Commands, host_command(c) PROVE Openings' /\ SessionAgreement'
  <2>1. PICK body \in CmdBodies :
           link' = link \cup {[type |-> "cmd", body |-> body,
                      mac |-> IF MacOn(host.level) THEN CMac(host, body) ELSE None]}
    BY <1>4, HostCommandStep
  <2> DEFINE new == [type |-> "cmd", body |-> body,
                     mac |-> IF MacOn(host.level) THEN CMac(host, body) ELSE None]
  <2>2. Opening(new, opened') BY DEF Opening
  <2>3. link' = link \cup {new} /\ UNCHANGED <<card, opened>> BY <1>4, <2>1 DEF host_command
  <2> HIDE DEF new
  <2> QED BY <2>2, <2>3, OpeningsGrow DEF SessionAgreement
<1>5. ASSUME NEW m \in link, process_initialize_update(m) PROVE Openings' /\ SessionAgreement'
  <2> DEFINE new == [type |-> "init_response", hc |-> m.hc, cc |-> challenges + 1,
                     seq |-> sequence_counter]
  <2>1. link' = link \cup {new} /\ UNCHANGED opened
    BY <1>5 DEF process_initialize_update
  <2>2. Opening(new, opened') BY DEF Opening
  <2>3. card'.st = "init_update_done" BY <1>5, CardInitType
  <2> HIDE DEF new
  <2> QED BY <2>1, <2>2, <2>3, OpeningsGrow DEF SessionAgreement
<1>6. ASSUME NEW m \in link, process_external_authenticate(m)
      PROVE  Openings' /\ SessionAgreement'
  <2>1. card'.hc = card.hc /\ card'.cc = card.cc /\ card'.level = m.level
    BY <1>6, CardAuthType
  <2>2. card \in Side BY DEF ScpTypeInv, TypeOK
  <2>3. m.cryptogram.hc = card.hc /\ m.cryptogram.cc = card.cc
    BY <1>6, <2>2, CryptogramType DEF process_external_authenticate
  <2>4. [hc |-> card.hc, cc |-> card.cc, level |-> m.level] \in opened
    BY <1>6, <2>3 DEF Openings, Opening, process_external_authenticate
  <2>5. UNCHANGED <<link, opened>> BY <1>6 DEF process_external_authenticate
  <2> QED BY <2>1, <2>4, <2>5 DEF Openings, SessionAgreement
<1>7. ASSUME NEW m \in link, unwrap_command(m) PROVE Openings' /\ SessionAgreement'
  <2>1. card'.st = card.st /\ card'.hc = card.hc /\ card'.cc = card.cc
        /\ card'.level = card.level
    BY <1>7, UnwrapType
  <2>2. UNCHANGED <<link, opened>> BY <1>7 DEF unwrap_command
  <2> QED BY <2>1, <2>2 DEF Openings, SessionAgreement
<1>8. ASSUME reset_scp_state PROVE Openings' /\ SessionAgreement'
  <2>1. card'.st = "no_session" BY <1>8, ResetType
  <2> QED BY <1>8, <2>1 DEF reset_scp_state, Openings, SessionAgreement
<1> QED BY <1>1, <1>2, <1>3, <1>4, <1>5, <1>6, <1>7, <1>8 DEF Next, vars

\* No repeated, late or foreign EXTERNAL AUTHENTICATE opens a session, however
\* often the sequence counter has wrapped: SCP02 derives its keys from that
\* counter alone, and the challenge in the cryptogram is what tells apart two
\* sessions with the same keys.
THEOREM SessionAgreementCorrect == Spec => []SessionAgreement
<1>1. Init => Openings /\ SessionAgreement
  BY DEF Init, Openings, SessionAgreement, NoSession
<1> QED BY <1>1, ScpInitType, ScpStepType, AgreementStep, PTL DEF Spec

\* ---- The chain of MACs ----
\* Sessions and commands are only added, and a message keeps its place.
Extends(a, b, n) ==
    \A h \in 1 .. n : /\ Len(a[h]) <= Len(b[h])
                      /\ \A i \in 1 .. Len(a[h]) : b[h][i] = a[h][i]

LEMMA PlaceKept ==
    ASSUME NEW n \in Nat, NEW k \in Nat, n <= k, k <= MaxSessions,
           NEW a \in [1 .. MaxSessions -> Seq(CmdBodies)],
           NEW b \in [1 .. MaxSessions -> Seq(CmdBodies)], Extends(a, b, n),
           NEW m, Place(m, n, a)
    PROVE  Place(m, k, b)
<1> SUFFICES ASSUME m.type = "cmd", m.mac # None PROVE Place(m, k, b)
  BY DEF Place
<1>1. m.mac.key.ver # "scp03" => m.body.ctr = 0 BY DEF Place
<1> DEFINE icv == m.mac.icv
           h == icv[1].cryptogram.hc
<1>2. ASSUME m.mac.key.ver # "scp01"
      PROVE  /\ h \in 1 .. k
             /\ Len(icv) \in 1 .. Len(b[h]) /\ b[h][Len(icv)] = m.body
             /\ \A i \in 1 .. Len(icv) - 1 : icv[i + 1] = b[h][i]
             /\ m.mac.key.ver = "scp03" =>
                   m.body.ctr = IF EncOn(icv[1].level) /\ m.body.cmd \in WithData
                                THEN (LastCtr(icv) + 1) % EncMod ELSE LastCtr(icv)
  <2>1. /\ h \in 1 .. n
        /\ Len(icv) \in 1 .. Len(a[h]) /\ a[h][Len(icv)] = m.body
        /\ \A i \in 1 .. Len(icv) - 1 : icv[i + 1] = a[h][i]
        /\ m.mac.key.ver = "scp03" =>
              m.body.ctr = IF EncOn(icv[1].level) /\ m.body.cmd \in WithData
                           THEN (LastCtr(icv) + 1) % EncMod ELSE LastCtr(icv)
    BY <1>2 DEF Place
  <2> HIDE DEF icv, h
  <2>2. h \in 1 .. k /\ h \in 1 .. MaxSessions BY <2>1, ScpAssumption
  <2>3. Len(a[h]) \in Nat /\ Len(b[h]) \in Nat BY <2>2
  <2>4. Len(a[h]) <= Len(b[h]) /\ \A i \in 1 .. Len(a[h]) : b[h][i] = a[h][i]
    BY <2>1 DEF Extends
  <2>5. \A i \in 1 .. Len(icv) - 1 : i \in 1 .. Len(a[h]) BY <2>1, <2>3
  <2>6. Len(icv) \in 1 .. Len(b[h]) BY <2>1, <2>3, <2>4
  <2> QED BY <2>1, <2>2, <2>4, <2>5, <2>6
<1> QED BY <1>1, <1>2, Zenon DEF Place

LEMMA PlacesKept ==
    ASSUME ScpTypeInv, ScpTypeInv', Places, Extends(sent, sent', sessions),
           sessions <= sessions', NEW new, link' \subseteq link \cup {new},
           Place(new, sessions', sent')
    PROVE  Places'
<1>1. /\ sessions \in Nat /\ sessions' \in Nat /\ sessions' <= MaxSessions
      /\ sent \in [1 .. MaxSessions -> Seq(CmdBodies)]
      /\ sent' \in [1 .. MaxSessions -> Seq(CmdBodies)]
  BY ScpAssumption DEF ScpTypeInv, TypeOK
<1>2. ASSUME NEW m \in link PROVE Place(m, sessions', sent')
  BY <1>1, PlaceKept DEF Places
<1> QED BY <1>2 DEF Places

LEMMA ExtendsSame == ASSUME ScpTypeInv PROVE Extends(sent, sent, sessions)
<1>1. ASSUME NEW h \in 1 .. sessions PROVE Len(sent[h]) \in Nat
  <2>1. h \in 1 .. MaxSessions BY ScpAssumption DEF ScpTypeInv, TypeOK
  <2> QED BY <2>1 DEF ScpTypeInv, TypeOK
<1> QED BY <1>1 DEF Extends

LEMMA HostInitChain ==
    ASSUME ScpInv, ScpTypeInv', NEW v \in Versions, host_initialize_update(v)
    PROVE  HostChain' /\ CardChain' /\ Places' /\ AcceptedInOrder'
<1>1. /\ sessions' = sessions + 1 /\ sessions \in Nat /\ sessions + 1 \in 1 .. MaxSessions
      /\ UNCHANGED <<card, done, sent>>
  BY ScpAssumption DEF ScpInv, ScpTypeInv, TypeOK, host_initialize_update
<1>2. host'.st = "init_update_done" /\ host'.hc = sessions + 1 /\ host'.ctr = 0
  BY DEF host_initialize_update, NoSession
<1>3. \A n \in 1 .. MaxSessions : n > sessions => sent[n] = <<>> BY DEF ScpInv, HostChain
<1>4. sent[sessions + 1] = <<>> /\ \A n \in 1 .. MaxSessions : n > sessions + 1 => sent[n] = <<>>
  BY <1>1, <1>3
<1>5. HostChain' BY <1>1, <1>2, <1>4 DEF HostChain
<1>6. CardChain' /\ AcceptedInOrder' BY <1>1 DEF ScpInv, CardChain, AcceptedInOrder
<1> DEFINE new == [type |-> "init_update", ver |-> v, hc |-> sessions + 1]
<1>7. link' = link \cup {new} BY DEF host_initialize_update
<1>8. Place(new, sessions', sent') BY DEF Place
<1> HIDE DEF new
<1>9. Extends(sent, sent', sessions) BY <1>1, ExtendsSame DEF ScpInv
<1>10. Places' BY <1>1, <1>7, <1>8, <1>9, PlacesKept DEF ScpInv
<1> QED BY <1>5, <1>6, <1>10

LEMMA HostAuthChain ==
    ASSUME ScpInv, ScpTypeInv', NEW l \in SecurityLevels, host_external_authenticate(l)
    PROVE  HostChain' /\ CardChain' /\ Places' /\ AcceptedInOrder'
<1>1. PICK s \in Side :
         /\ host'.ver = s.ver /\ host'.hc = s.hc /\ host'.cc = s.cc /\ host'.seq = s.seq
         /\ host'.hc = host.hc /\ host'.ver = host.ver
         /\ host'.st = "authenticated" /\ host'.level = l /\ host'.ctr = host.ctr
         /\ host'.icv = <<AuthBody(s, l)>>
         /\ link' = link \cup {[type |-> "ext_auth", level |-> l,
                                cryptogram |-> HostCryptogram(s), mac |-> AuthMac(s, l)]}
  BY HostAuthStep DEF ScpInv
<1>2. host.st = "init_update_done" /\ UNCHANGED <<card, sessions, done, sent>>
  BY DEF host_external_authenticate
<1>3. host.ctr = 0 /\ sent[host.hc] = <<>> BY <1>2 DEF ScpInv, HostChain
<1>4. AuthBody(host', l) = AuthBody(s, l) BY <1>1, SameCryptogram
<1>5. Chain(host', host'.icv, sent'[host'.hc]) /\ LastCtr(host'.icv) = 0
  <2>1. Len(<<AuthBody(s, l)>>) = 1 /\ <<AuthBody(s, l)>>[1] = AuthBody(s, l) OBVIOUS
  <2>2. sent'[host'.hc] = <<>> /\ Len(<<>>) = 0 BY <1>1, <1>2, <1>3
  <2>3. host'.icv = <<AuthBody(s, l)>> /\ host'.level = l BY <1>1
  <2>4. Len(host'.icv) = 1 /\ host'.icv[1] = AuthBody(host', host'.level)
    BY <1>4, <2>1, <2>3
  <2>5. \A i \in 1 .. 0 : host'.icv[i + 1] = sent'[host'.hc][i] OBVIOUS
  <2> QED BY <2>2, <2>4, <2>5 DEF Chain, LastCtr
<1>6. HostChain' BY <1>1, <1>2, <1>3, <1>5 DEF ScpInv, HostChain
<1>7. CardChain' /\ AcceptedInOrder' BY <1>2 DEF ScpInv, CardChain, AcceptedInOrder
<1> DEFINE new == [type |-> "ext_auth", level |-> l,
                   cryptogram |-> HostCryptogram(s), mac |-> AuthMac(s, l)]
<1>8. link' = link \cup {new} BY <1>1
<1>9. Place(new, sessions', sent') BY DEF Place
<1> HIDE DEF new
<1>10. Extends(sent, sent', sessions) /\ sessions <= sessions'
  BY <1>2, ExtendsSame DEF ScpInv, ScpTypeInv, TypeOK
<1>11. Places' BY <1>8, <1>9, <1>10, PlacesKept DEF ScpInv
<1> QED BY <1>6, <1>7, <1>11

\* A chain that grows by one command on both sides.
LEMMA ChainGrows ==
    ASSUME NEW s, NEW t, NEW icv \in Seq(AuthBodies \cup CmdBodies), NEW cmds \in Seq(CmdBodies),
           NEW body \in CmdBodies, Chain(s, icv, cmds), AuthBody(t, t.level) = AuthBody(s, s.level)
    PROVE  /\ Chain(t, Append(icv, body), Append(cmds, body))
           /\ LastCtr(Append(icv, body)) = body.ctr
<1>1. /\ Len(Append(icv, body)) = Len(icv) + 1 /\ Len(icv) \in Nat /\ Len(cmds) \in Nat
      /\ Len(Append(cmds, body)) = Len(cmds) + 1
      /\ Append(icv, body)[Len(icv) + 1] = body /\ Append(cmds, body)[Len(cmds) + 1] = body
      /\ \A i \in 1 .. Len(icv) : Append(icv, body)[i] = icv[i]
      /\ \A i \in 1 .. Len(cmds) : Append(cmds, body)[i] = cmds[i]
  OBVIOUS
<1>2. Len(icv) = Len(cmds) + 1 /\ icv[1] = AuthBody(s, s.level)
      /\ \A i \in 1 .. Len(cmds) : icv[i + 1] = cmds[i]
  BY DEF Chain
<1>3. Append(icv, body)[1] = AuthBody(t, t.level) BY <1>1, <1>2
<1>4. ASSUME NEW i \in 1 .. Len(cmds) + 1
      PROVE  Append(icv, body)[i + 1] = Append(cmds, body)[i]
  <2>1. CASE i = Len(cmds) + 1 BY <1>1, <1>2, <2>1
  <2>2. CASE i # Len(cmds) + 1
    <3>1. i \in 1 .. Len(cmds) /\ i + 1 \in 1 .. Len(icv) BY <1>1, <1>2, <2>2
    <3> QED BY <1>1, <1>2, <3>1
  <2> QED BY <2>1, <2>2
<1> QED BY <1>1, <1>2, <1>3, <1>4 DEF Chain, LastCtr

LEMMA HostCommandChain ==
    ASSUME ScpInv, ScpTypeInv', NEW c \in Commands, host_command(c)
    PROVE  HostChain' /\ CardChain' /\ Places' /\ AcceptedInOrder'
<1>1. PICK body \in CmdBodies :
         /\ body.cmd = c /\ body.ctr = NextCtr(host, c \in WithData)
         /\ host'.st = host.st /\ host'.ver = host.ver /\ host'.hc = host.hc
         /\ host'.cc = host.cc /\ host'.seq = host.seq /\ host'.level = host.level
         /\ host'.ctr = body.ctr /\ host'.icv = Append(host.icv, body)
         /\ sent' = [sent EXCEPT ![host.hc] = Append(@, body)]
         /\ link' = link \cup {[type |-> "cmd", body |-> body,
                       mac |-> IF MacOn(host.level) THEN CMac(host, body) ELSE None]}
  BY HostCommandStep DEF ScpInv
<1>2. /\ host.st = "authenticated" /\ UNCHANGED <<card, sessions, done>>
      /\ host.hc \in 1 .. sessions /\ host.hc \in 1 .. MaxSessions
  BY HostNumber DEF host_command, ScpInv
<1>3. /\ host \in Side /\ host.icv \in Seq(AuthBodies \cup CmdBodies)
      /\ sent[host.hc] \in Seq(CmdBodies) /\ sessions \in Nat
      /\ sent \in [1 .. MaxSessions -> Seq(CmdBodies)]
  BY <1>2 DEF ScpInv, ScpTypeInv, TypeOK, Side
<1>4. /\ Chain(host, host.icv, sent[host.hc]) /\ host.ctr = LastCtr(host.icv)
      /\ host.level \in SecurityLevels /\ (host.ver # "scp03" => host.ctr = 0)
  BY <1>2 DEF ScpInv, HostChain
<1>5. \A h \in 1 .. MaxSessions :
         sent'[h] = IF h = host.hc THEN Append(sent[host.hc], body) ELSE sent[h]
  BY <1>1, <1>3
<1>6. AuthBody(host', host'.level) = AuthBody(host, host.level)
  BY <1>1, SameCryptogram
<1>7. /\ Chain(host', host'.icv, sent'[host'.hc])
      /\ host'.ctr = LastCtr(host'.icv)
  <2>1. /\ Chain(host', Append(host.icv, body), Append(sent[host.hc], body))
        /\ LastCtr(Append(host.icv, body)) = body.ctr
    BY <1>3, <1>4, <1>6, ChainGrows
  <2>2. sent'[host'.hc] = Append(sent[host.hc], body) BY <1>1, <1>2, <1>5
  <2> QED BY <1>1, <2>1, <2>2
<1>8. HostChain'
  <2>1. \A n \in 1 .. MaxSessions : n > sessions => sent'[n] = <<>>
    <3>1. ASSUME NEW n \in 1 .. MaxSessions, n > sessions PROVE n # host.hc
      BY <1>2, <1>3, <3>1
    <3> QED BY <1>5, <3>1 DEF ScpInv, HostChain
  <2>2. host'.ver # "scp03" => host'.ctr = 0
    BY <1>1, <1>3, <1>4, NextCtrType
  <2> QED BY <1>1, <1>2, <1>4, <1>7, <2>1, <2>2 DEF HostChain
<1>9. CardChain' BY <1>2 DEF ScpInv, CardChain
<1>10. Extends(sent, sent', sessions)
  <2> SUFFICES ASSUME NEW h \in 1 .. sessions
               PROVE  /\ Len(sent[h]) <= Len(sent'[h])
                      /\ \A i \in 1 .. Len(sent[h]) : sent'[h][i] = sent[h][i]
    BY DEF Extends
  <2>1. h \in 1 .. MaxSessions BY <1>3, ScpAssumption DEF ScpInv, ScpTypeInv, TypeOK
  <2>2. sent[h] \in Seq(CmdBodies) BY <1>3, <2>1
  <2>3. /\ Len(sent[h]) <= Len(Append(sent[h], body))
        /\ \A i \in 1 .. Len(sent[h]) : Append(sent[h], body)[i] = sent[h][i]
    BY <2>2
  <2>4. Len(sent[h]) <= Len(sent[h]) BY <2>2
  <2> QED BY <1>5, <2>1, <2>3, <2>4
<1> DEFINE new == [type |-> "cmd", body |-> body,
                   mac |-> IF MacOn(host.level) THEN CMac(host, body) ELSE None]
<1>11. Place(new, sessions, sent')
  <2>1. new.type = "cmd" /\ new.body = body
        /\ new.mac = IF MacOn(host.level) THEN CMac(host, body) ELSE None
    OBVIOUS
  <2> HIDE DEF new
  <2> SUFFICES ASSUME new.mac = CMac(host, body) PROVE Place(new, sessions, sent')
    BY <2>1, Zenon DEF Place
  <2>2. new.mac.key.ver = host.ver BY <1>3, CryptogramType DEF CMac
  <2>3. host.ver # "scp03" => body.ctr = 0 BY <1>1, <1>3, <1>4, NextCtrType
  <2>4. host.ver # "scp01" => new.mac.icv = host.icv BY DEF CMac, EffectiveIcv
  <2>5. host.icv[1].cryptogram.hc = host.hc /\ host.icv[1].level = host.level
    <3>1. host.icv[1] = AuthBody(host, host.level) BY <1>4 DEF Chain
    <3> QED BY <1>3, <3>1, CryptogramType DEF AuthBody
  <2>6. Len(host.icv) = Len(sent[host.hc]) + 1 /\ Len(sent[host.hc]) \in Nat
    BY <1>3, <1>4 DEF Chain
  <2>7. sent'[host.hc] = Append(sent[host.hc], body) BY <1>2, <1>5
  <2>8. /\ Len(host.icv) \in 1 .. Len(sent'[host.hc])
        /\ sent'[host.hc][Len(host.icv)] = body
    BY <1>3, <2>6, <2>7
  <2>9. \A i \in 1 .. Len(host.icv) - 1 : host.icv[i + 1] = sent'[host.hc][i]
    <3>1. \A i \in 1 .. Len(sent[host.hc]) : host.icv[i + 1] = sent[host.hc][i]
      BY <1>4 DEF Chain
    <3>2. \A i \in 1 .. Len(sent[host.hc]) : sent'[host.hc][i] = sent[host.hc][i]
      BY <1>3, <2>7
    <3>3. Len(host.icv) - 1 = Len(sent[host.hc]) BY <2>6
    <3> QED BY <3>1, <3>2, <3>3
  <2>10. host.ver = "scp03" =>
            body.ctr = IF EncOn(host.level) /\ body.cmd \in WithData
                       THEN (LastCtr(host.icv) + 1) % EncMod ELSE LastCtr(host.icv)
    BY <1>1, <1>4 DEF NextCtr
  <2> QED BY <1>2, <2>8, <2>9, <2>10, <2>1, <2>2, <2>4, <2>3, <2>5 DEF Place
<1>12. link' = link \cup {new} BY <1>1
<1> HIDE DEF new
<1>13. Places' BY <1>2, <1>3, <1>10, <1>11, <1>12, PlacesKept DEF ScpInv
<1>14. AcceptedInOrder'
  <2> SUFFICES ASSUME card.st = "authenticated", MacOn(card.level), card.ver # "scp01",
                      NEW i \in DOMAIN done
               PROVE  i \in DOMAIN sent'[card.hc] /\ done[i] = sent'[card.hc][i]
    BY <1>2 DEF AcceptedInOrder
  <2>1. card.hc \in 1 .. sessions BY DEF ScpInv, ScpTypeInv, InSession
  <2>2. card.hc \in 1 .. MaxSessions
    BY <2>1, ScpAssumption DEF ScpInv, ScpTypeInv, TypeOK
  <2>3. i \in DOMAIN sent[card.hc] /\ done[i] = sent[card.hc][i]
    BY DEF ScpInv, AcceptedInOrder
  <2>4. sent[card.hc] \in Seq(CmdBodies) BY <1>3, <2>2
  <2>5. CASE card.hc = host.hc
    <3>1. sent'[card.hc] = Append(sent[card.hc], body) BY <1>5, <2>2, <2>5
    <3>2. /\ i \in DOMAIN Append(sent[card.hc], body)
          /\ Append(sent[card.hc], body)[i] = sent[card.hc][i]
      BY <2>3, <2>4
    <3> QED BY <2>3, <3>1, <3>2
  <2>6. CASE card.hc # host.hc BY <1>5, <2>2, <2>3, <2>6
  <2> QED BY <2>5, <2>6
<1> QED BY <1>8, <1>9, <1>13, <1>14

\* Nothing the card does touches the host's side of the invariant.
LEMMA CardOnly ==
    ASSUME ScpInv, UNCHANGED <<host, sessions, sent>>
    PROVE  HostChain' /\ (link' = link => Places')
<1>1. HostChain' BY DEF ScpInv, HostChain
<1> QED BY <1>1 DEF ScpInv, Places

LEMMA CardInitChain ==
    ASSUME ScpInv, ScpTypeInv', NEW m \in link, process_initialize_update(m)
    PROVE  HostChain' /\ CardChain' /\ Places' /\ AcceptedInOrder'
<1>1. card'.st = "init_update_done" /\ card'.ctr = 0 /\ done' = <<>>
  BY CardInitType DEF ScpInv
<1>2. UNCHANGED <<host, sessions, sent>> BY DEF process_initialize_update
<1>3. HostChain' BY <1>2, CardOnly
<1>4. CardChain' /\ AcceptedInOrder' BY <1>1 DEF CardChain, AcceptedInOrder
<1> DEFINE new == [type |-> "init_response", hc |-> m.hc, cc |-> challenges + 1,
                   seq |-> sequence_counter]
<1>5. link' = link \cup {new} BY DEF process_initialize_update
<1>6. Place(new, sessions', sent') BY DEF Place
<1> HIDE DEF new
<1>7. Extends(sent, sent', sessions) /\ sessions <= sessions'
  BY <1>2, ExtendsSame DEF ScpInv, ScpTypeInv, TypeOK
<1>8. Places' BY <1>5, <1>6, <1>7, PlacesKept DEF ScpInv
<1> QED BY <1>3, <1>4, <1>8

LEMMA CardAuthChain ==
    ASSUME ScpInv, ScpTypeInv', NEW m \in link, process_external_authenticate(m)
    PROVE  HostChain' /\ CardChain' /\ Places' /\ AcceptedInOrder'
<1>1. /\ card'.st = "authenticated" /\ card'.ver = card.ver /\ card'.hc = card.hc
      /\ card'.cc = card.cc /\ card'.seq = card.seq /\ card'.level = m.level
      /\ card'.ctr = 0 /\ card'.icv = <<AuthBody(card, m.level)>>
  BY CardAuthType DEF ScpInv
<1>2. card.st = "init_update_done" /\ UNCHANGED <<host, sessions, link, done, sent>>
  BY DEF process_external_authenticate
<1>3. HostChain' /\ Places' BY <1>2, CardOnly
<1>4. done' = <<>> BY <1>2 DEF ScpInv, CardChain
<1>5. AuthBody(card', m.level) = AuthBody(card, m.level) BY <1>1, SameCryptogram
<1>6. Chain(card', card'.icv, <<>>) /\ LastCtr(card'.icv) = 0
  <2>1. Len(<<AuthBody(card, m.level)>>) = 1
        /\ <<AuthBody(card, m.level)>>[1] = AuthBody(card, m.level)
    OBVIOUS
  <2>2. Len(card'.icv) = 1 /\ card'.icv[1] = AuthBody(card', card'.level)
    BY <1>1, <1>5, <2>1
  <2>3. Len(<<>>) = 0 /\ \A i \in 1 .. 0 : card'.icv[i + 1] = <<>>[i] OBVIOUS
  <2> QED BY <2>2, <2>3 DEF Chain, LastCtr
<1>7. CardChain' BY <1>1, <1>4, <1>6 DEF CardChain
<1>8. AcceptedInOrder' BY <1>4 DEF AcceptedInOrder
<1> QED BY <1>3, <1>7, <1>8

\* A MAC that verifies against the card's chain was computed over the same
\* chain: the command is the next one of the card's session, and the counter in
\* it is the one the card comes to.
LEMMA UnwrapPlace ==
    ASSUME ScpInv, NEW m \in link, unwrap_command(m), MacOn(card.level)
    PROVE  /\ m.body.ctr = NextCtr(card, m.body.cmd \in WithData)
           /\ card.ver # "scp01" =>
                 /\ Len(done) + 1 \in DOMAIN sent[card.hc]
                 /\ sent[card.hc][Len(done) + 1] = m.body
<1>1. /\ m.type = "cmd" /\ card.st = "authenticated" /\ m.mac # None
      /\ m.mac = CMac(card, m.body)
  BY UnwrapType DEF ScpInv, unwrap_command, MacVerifies
<1>2. card \in Side /\ done \in Seq(CmdBodies) BY DEF ScpInv, ScpTypeInv, TypeOK
<1>3. /\ Chain(card, card.icv, done) /\ card.ctr = LastCtr(card.icv)
      /\ (card.ver # "scp03" => card.ctr = 0)
  BY <1>1 DEF ScpInv, CardChain
<1>4. m.mac.key.ver = card.ver BY <1>1, <1>2, CryptogramType DEF CMac
<1>5. card.ver # "scp01" => m.mac.icv = card.icv BY <1>1 DEF CMac, EffectiveIcv
<1>6. Place(m, sessions, sent) BY DEF ScpInv, Places
<1>7. card.ver # "scp03" => m.body.ctr = NextCtr(card, m.body.cmd \in WithData)
  BY <1>1, <1>2, <1>3, <1>4, <1>6, NextCtrType DEF Place
<1>8. ASSUME card.ver # "scp01"
      PROVE  /\ card.hc \in 1 .. sessions
             /\ Len(card.icv) \in 1 .. Len(sent[card.hc])
             /\ sent[card.hc][Len(card.icv)] = m.body
             /\ card.ver = "scp03" =>
                   m.body.ctr = IF EncOn(card.level) /\ m.body.cmd \in WithData
                                THEN (LastCtr(card.icv) + 1) % EncMod ELSE LastCtr(card.icv)
  <2>1. card.icv[1].cryptogram.hc = card.hc /\ card.icv[1].level = card.level
    <3>1. card.icv[1] = AuthBody(card, card.level) BY <1>3 DEF Chain
    <3> QED BY <1>2, <3>1, CryptogramType DEF AuthBody
  <2>2. m.mac.icv = card.icv /\ m.mac.key.ver # "scp01" BY <1>4, <1>5, <1>8
  <2> QED BY <1>1, <1>4, <1>6, <2>1, <2>2 DEF Place
<1>9. card.ver = "scp03" => m.body.ctr = NextCtr(card, m.body.cmd \in WithData)
  BY <1>3, <1>8 DEF NextCtr
<1>10. Len(card.icv) = Len(done) + 1 BY <1>3 DEF Chain
<1>11. ASSUME card.ver # "scp01"
       PROVE  Len(done) + 1 \in DOMAIN sent[card.hc] /\ sent[card.hc][Len(done) + 1] = m.body
  <2>1. card.hc \in 1 .. MaxSessions
    BY <1>8, <1>11, ScpAssumption DEF ScpInv, ScpTypeInv, TypeOK
  <2>2. sent[card.hc] \in Seq(CmdBodies) BY <2>1 DEF ScpInv, ScpTypeInv, TypeOK
  <2> QED BY <1>8, <1>10, <1>11, <2>2
<1> QED BY <1>7, <1>9, <1>11

LEMMA UnwrapChain ==
    ASSUME ScpInv, ScpTypeInv', NEW m \in link, unwrap_command(m)
    PROVE  HostChain' /\ CardChain' /\ Places' /\ AcceptedInOrder'
<1>1. /\ m.body \in CmdBodies /\ done' = Append(done, m.body)
      /\ card'.st = card.st /\ card'.ver = card.ver /\ card'.hc = card.hc
      /\ card'.cc = card.cc /\ card'.seq = card.seq /\ card'.level = card.level
      /\ ~MacOn(card.level) => card' = card
      /\ MacOn(card.level) =>
            /\ card'.ctr = NextCtr(card, m.body.cmd \in WithData)
            /\ card'.icv = Append(card.icv, m.body)
  BY UnwrapType DEF ScpInv
<1>2. card.st = "authenticated" /\ UNCHANGED <<host, sessions, link, sent>>
  BY DEF unwrap_command
<1>3. HostChain' /\ Places' BY <1>2, CardOnly
<1>4. /\ card \in Side /\ done \in Seq(CmdBodies)
      /\ card.icv \in Seq(AuthBodies \cup CmdBodies)
  BY DEF ScpInv, ScpTypeInv, TypeOK, Side
<1>5. CASE ~MacOn(card.level)
  BY <1>1, <1>2, <1>3, <1>5 DEF ScpInv, CardChain, AcceptedInOrder
<1>6. CASE MacOn(card.level)
  <2>1. /\ Chain(card, card.icv, done) /\ (card.ver # "scp03" => card.ctr = 0)
    BY <1>2, <1>6 DEF ScpInv, CardChain
  <2>2. AuthBody(card', card'.level) = AuthBody(card, card.level) BY <1>1, SameCryptogram
  <2>3. /\ Chain(card', Append(card.icv, m.body), Append(done, m.body))
        /\ LastCtr(Append(card.icv, m.body)) = m.body.ctr
    BY <1>1, <1>4, <2>1, <2>2, ChainGrows
  <2>4. card'.ctr = m.body.ctr BY <1>1, <1>6, UnwrapPlace
  <2>5. card'.ver # "scp03" => card'.ctr = 0 BY <1>1, <1>4, <1>6, <2>1, NextCtrType
  <2>6. CardChain' BY <1>1, <1>2, <1>6, <2>3, <2>4, <2>5 DEF CardChain
  <2>7. AcceptedInOrder'
    <3> SUFFICES ASSUME card.ver # "scp01", NEW i \in DOMAIN Append(done, m.body)
                 PROVE  /\ i \in DOMAIN sent[card.hc]
                        /\ Append(done, m.body)[i] = sent[card.hc][i]
      BY <1>1, <1>2 DEF AcceptedInOrder
    <3>1. CASE i = Len(done) + 1
      <4>1. Append(done, m.body)[Len(done) + 1] = m.body BY <1>1, <1>4
      <4> QED BY <1>6, <3>1, <4>1, UnwrapPlace
    <3>2. CASE i # Len(done) + 1
      <4>1. i \in DOMAIN done /\ Append(done, m.body)[i] = done[i] BY <1>1, <1>4, <3>2
      <4> QED BY <1>2, <1>6, <4>1 DEF ScpInv, AcceptedInOrder
    <3> QED BY <3>1, <3>2
  <2> QED BY <1>3, <2>6, <2>7
<1> QED BY <1>5, <1>6

LEMMA ResetChain ==
    ASSUME ScpInv, ScpTypeInv', reset_scp_state
    PROVE  HostChain' /\ CardChain' /\ Places' /\ AcceptedInOrder'
<1>1. card'.st = "no_session" /\ card'.ctr = 0 /\ done' = <<>> BY ResetType DEF ScpInv
<1>2. UNCHANGED <<host, sessions, link, sent>> BY DEF reset_scp_state
<1>3. HostChain' /\ Places' BY <1>2, CardOnly
<1> QED BY <1>1, <1>3 DEF CardChain, AcceptedInOrder

LEMMA ScpInitInv == Init => ScpInv
<1> SUFFICES ASSUME Init PROVE ScpInv
  OBVIOUS
<1>1. ScpTypeInv BY ScpInitType
<1>2. /\ card.st = "no_session" /\ card.ctr = 0 /\ host.st = "no_session" /\ host.ctr = 0
      /\ done = <<>> /\ link = {}
  BY DEF Init, NoSession
<1>3. \A n \in 1 .. MaxSessions : sent[n] = <<>> BY DEF Init
<1>4. HostChain BY <1>2, <1>3 DEF HostChain
<1>5. CardChain /\ Places /\ AcceptedInOrder BY <1>2 DEF CardChain, Places, AcceptedInOrder
<1> QED BY <1>1, <1>4, <1>5 DEF ScpInv

LEMMA ScpStepInv == ScpInv /\ [Next]_vars => ScpInv'
<1> SUFFICES ASSUME ScpInv, [Next]_vars PROVE HostChain' /\ CardChain' /\ Places' /\ AcceptedInOrder'
  BY ScpStepType DEF ScpInv
<1>1. ScpTypeInv' BY ScpStepType DEF ScpInv
<1>2. CASE UNCHANGED vars
  BY <1>2 DEF vars, ScpInv, HostChain, CardChain, Places, AcceptedInOrder
<1> QED BY <1>1, <1>2, HostInitChain, HostAuthChain, HostCommandChain, CardInitChain,
           CardAuthChain, UnwrapChain, ResetChain DEF Next

LEMMA ScpInvCorrect == Spec => []ScpInv
BY ScpInitInv, ScpStepInv, PTL DEF Spec

\* With C-MAC under SCP02 or SCP03, the card carries out the host's commands in
\* order and each once, over a link that loses, repeats, delays and reorders.
THEOREM AcceptedInOrderCorrect == Spec => []AcceptedInOrder
<1>1. ScpInv => AcceptedInOrder BY DEF ScpInv
<1> QED BY <1>1, ScpInvCorrect, PTL

\* The counter the card decrypts a command with is the one the host encrypted
\* it with, for counters of every width and however often they wrap.
THEOREM CountersInStepCorrect == Spec => CountersInStep
<1> DEFINE A == Len(done') > Len(done) /\ MacOn(card.level)
                => done'[Len(done')].ctr = card'.ctr
<1>1. ASSUME ScpInv, Next PROVE A
  <2>1. done \in Seq(CmdBodies) BY <1>1 DEF ScpInv, ScpTypeInv, TypeOK
  <2>2. ASSUME NEW m \in link, unwrap_command(m), MacOn(card.level)
        PROVE  done'[Len(done')].ctr = card'.ctr
    <3>1. /\ done' = Append(done, m.body) /\ m.body \in CmdBodies
          /\ card'.ctr = NextCtr(card, m.body.cmd \in WithData)
      BY <1>1, <2>2, UnwrapType DEF ScpInv
    <3>2. done'[Len(done')] = m.body BY <2>1, <3>1
    <3> QED BY <1>1, <2>2, <3>1, <3>2, UnwrapPlace
  <2>3. ASSUME done' = done \/ done' = <<>> PROVE ~(Len(done') > Len(done))
    BY <2>1, <2>3
  <2>4. (\E m \in link : unwrap_command(m)) \/ done' = done \/ done' = <<>>
    BY <1>1 DEF Next, host_initialize_update, host_external_authenticate, host_command,
                process_initialize_update, process_external_authenticate, reset_scp_state
  <2> QED BY <2>2, <2>3, <2>4
<1>2. ScpInv /\ [Next]_vars => [A]_vars
  BY <1>1
<1> QED BY <1>2, ScpInvCorrect, PTL DEF Spec, CountersInStep
=============================================================================
