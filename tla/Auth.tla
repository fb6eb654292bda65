-------------------------------- MODULE Auth --------------------------------
(***************************************************************************)
(* Authentication: AuthenticationAlgorithm::authenticate of                *)
(* simrs-milenage, which simrs-tuak shares, and the AUTHENTICATE handlers  *)
(* and GBA key of simrs-usim.                                              *)
(*                                                                         *)
(* The home network is not in the repository.  It hands out vectors with   *)
(* rising sequence numbers, takes up a resynchronisation token that is     *)
(* ahead of it, and may once fall back to an older counter.  Between it    *)
(* and the card vectors and tokens are lost, duplicated, reordered and     *)
(* damaged.  f1 .. f5 are ideal: a vector is its sequence number and RAND, *)
(* and a damaged one fails the MAC.                                        *)
(***************************************************************************)
EXTENDS Integers, FiniteSets

CONSTANTS
    SqnMax,    \* 2^48 - 1 in the code
    Rands,     \* RAND values, one per life of the network's counter
    MaxLife,   \* longest finite Ks lifetime, in ticks
    Infinite,  \* u32::MAX
    NoKs

ASSUME AuthAssumption ==
    /\ SqnMax \in Nat \ {0}
    /\ Rands \subseteq Nat /\ 1 \in Rands
    /\ MaxLife \in Nat
    /\ Infinite \notin Nat

Vectors == [sqn : 0 .. SqnMax, rand : Rands, mode : {"UMTS", "GBA"}]
ASSUME NoKsAssumption == NoKs \notin Vectors
Tokens == [sqn : 0 .. SqnMax, at : 0 .. SqnMax]

VARIABLES
    expected,   \* expected_sequence_number (SQN_HE)
    ks,         \* gba_ks with gba_rand: the vector it was derived from
    life,       \* gba_ks_lifetime
    net,        \* the home network: last sequence number, and its RAND
    air,        \* vectors under way
    auts,       \* resynchronisation tokens under way: SQN_MS in the token, and
                \* (history) the card's threshold when it was made
    accepted,   \* history: vectors the card accepted
    replayed,   \* history: those it accepted more than once
    naf,        \* the Ks the last response derived a NAF key from
    spent       \* history: the lifetime last set for Ks has run out

cardVars == <<expected, ks, life>>
vars == <<cardVars, net, air, auts, accepted, replayed, naf, spent>>

Init ==
    /\ expected = 0
    /\ ks = NoKs /\ life = Infinite
    /\ net = [sqn |-> 0, rand |-> 1]
    /\ air = {} /\ auts = {}
    /\ accepted = {} /\ replayed = {}
    /\ naf = NoKs /\ spent = FALSE

\* ---- The network and the link (external) ----
issue(mode) ==
    /\ net.sqn < SqnMax
    /\ net' = [net EXCEPT !.sqn = @ + 1]
    /\ air' = air \cup {[sqn |-> net.sqn + 1, rand |-> net.rand, mode |-> mode]}
    /\ naf' = NoKs
    /\ UNCHANGED <<cardVars, auts, accepted, replayed, spent>>

\* The network's counter falls back, as after a restore from a backup.
fall_back(n) ==
    /\ n < net.sqn /\ net.rand + 1 \in Rands
    /\ net' = [sqn |-> n, rand |-> net.rand + 1]
    /\ naf' = NoKs
    /\ UNCHANGED <<cardVars, air, auts, accepted, replayed, spent>>

\* A token that is behind the network's counter is an old one.
resynchronise(t) ==
    /\ t \in auts
    /\ net' = [net EXCEPT !.sqn = IF t.sqn > @ THEN t.sqn ELSE @]
    /\ auts' = auts \ {t}
    /\ naf' = NoKs
    /\ UNCHANGED <<cardVars, air, accepted, replayed, spent>>

lose ==
    /\ \/ \E v \in air : air' = air \ {v} /\ UNCHANGED auts
       \/ \E t \in auts : auts' = auts \ {t} /\ UNCHANGED air
    /\ naf' = NoKs
    /\ UNCHANGED <<cardVars, net, accepted, replayed, spent>>

\* ---- authenticate ----
\* The check that sends the vector on or answers SyncFailure.
is_fresh(v) == v.sqn >= expected
\* Mutant: the threshold is the accepted number.
advance_to_same(sqn) == sqn
\* The threshold saturates at the last number.
advance(sqn) == IF sqn + 1 > SqnMax THEN SqnMax ELSE sqn + 1

\* Mutant: the token names the number that was refused.
resync_refused(v) == v.sqn
\* SQN_MS in AUTS is the threshold.
resync_token(v) == expected

\* Mutant: a bootstrap keeps a key that is already there.
store_ks_once(v) ==
    IF v.mode = "GBA" /\ ks = NoKs
    THEN ks' = v /\ life' = Infinite /\ spent' = FALSE
    ELSE UNCHANGED <<ks, life, spent>>
\* The effect of a bootstrap on the stored key.
StoreKs(v) ==
    IF v.mode = "GBA"
    THEN ks' = v /\ life' = Infinite /\ spent' = FALSE
    ELSE UNCHANGED <<ks, life, spent>>

\* AUTHENTICATE with P2 = 81 or 82, of a vector that may arrive again.
authenticate(v) ==
    /\ v \in air
    /\ IF is_fresh(v)
       THEN /\ expected' = advance(v.sqn)
            /\ StoreKs(v)
            /\ accepted' = accepted \cup {v}
            /\ replayed' = IF v \in accepted THEN replayed \cup {v} ELSE replayed
            /\ UNCHANGED auts
       ELSE /\ auts' = auts \cup {[sqn |-> resync_token(v), at |-> expected]}
            /\ UNCHANGED <<cardVars, accepted, replayed, spent>>
    /\ naf' = NoKs
    /\ UNCHANGED <<net, air>>

\* A vector damaged on the way: MacFailure, nothing is stored.  GSM context
\* (P2 = 80) computes SRES and Kc from RAND alone and leaves the threshold.
authenticate_damaged == naf' = NoKs /\ UNCHANGED <<cardVars, net, air, auts, accepted, replayed, spent>>

\* ---- The GBA key ----
\* Mutant: the lifetime is not looked at.
naf_ignores_life == IF ks = NoKs THEN NoKs ELSE ks
\* handle_authenticate_gba_naf: refused without Ks or when it has expired.
gba_naf == IF ks = NoKs \/ life = 0 THEN NoKs ELSE ks
handle_authenticate_gba_naf ==
    /\ naf' = gba_naf
    /\ UNCHANGED <<cardVars, net, air, auts, accepted, replayed, spent>>

\* set_gba_ks_lifetime: whatever the lifetime was, that of a Ks that has run out
\* included, which is live again from here.
set_gba_ks_lifetime(secs) ==
    /\ life' = secs
    /\ spent' = (ks # NoKs /\ secs = 0)
    /\ naf' = NoKs
    /\ UNCHANGED <<expected, ks, net, air, auts, accepted, replayed>>

\* UsimApp::tick; also while the card is off.
tick(elapsed) ==
    /\ life' = IF ks # NoKs /\ life # Infinite
               THEN IF life < elapsed THEN 0 ELSE life - elapsed ELSE life
    /\ spent' = (spent \/ (ks # NoKs /\ life # Infinite /\ life <= elapsed))
    /\ naf' = NoKs
    /\ UNCHANGED <<expected, ks, net, air, auts, accepted, replayed>>

\* clear_gba_state, by REFRESH with qualifier 04, 05 or 06.
clear_gba_state ==
    /\ ks' = NoKs
    /\ life' = Infinite
    /\ spent' = FALSE
    /\ naf' = NoKs
    /\ UNCHANGED <<expected, net, air, auts, accepted, replayed>>

Network ==
    \/ \E mode \in {"UMTS", "GBA"} : issue(mode)
    \/ \E n \in 0 .. SqnMax : fall_back(n)
    \/ \E t \in Tokens : resynchronise(t)
    \/ lose

Next ==
    \/ Network
    \/ \E v \in Vectors : authenticate(v)
    \/ authenticate_damaged
    \/ handle_authenticate_gba_naf
    \/ \E secs \in 0 .. MaxLife \cup {Infinite} : set_gba_ks_lifetime(secs)
    \/ \E elapsed \in 1 .. MaxLife : tick(elapsed)
    \/ clear_gba_state

Spec == Init /\ [][Next]_vars

\* ---- Properties ----
\* Every variable keeps its type; the threshold never leaves 48 bits.
TypeOK ==
    /\ expected \in 0 .. SqnMax
    /\ ks \in Vectors \cup {NoKs} /\ naf \in Vectors \cup {NoKs}
    /\ life \in 0 .. MaxLife \cup {Infinite}
    /\ net \in [sqn : 0 .. SqnMax, rand : Rands]
    /\ air \subseteq Vectors /\ auts \subseteq Tokens
    /\ accepted \subseteq Vectors /\ replayed \subseteq accepted
    /\ spent \in BOOLEAN

\* Whatever the link repeats and reorders, and wherever the network's counter
\* falls back to, no vector is accepted twice, and no two with one sequence
\* number are -- except at the last number, where the threshold stops.
NoReplay ==
    /\ \A v \in replayed : v.sqn = SqnMax
    /\ \A v, w \in accepted : v.sqn = w.sqn /\ v.sqn < SqnMax => v = w

\* The GBA key on the card is that of the newest bootstrap it accepted: a
\* delayed older one cannot replace it.
KsIsNewest ==
    ks # NoKs =>
       /\ ks \in accepted
       /\ \A v \in accepted : v.mode = "GBA" => v.sqn <= ks.sqn

\* A NAF key comes from the Ks on the card, and only while the lifetime the host
\* last set for it has not run out, counted across resets.  Setting a lifetime
\* again revives a Ks that had run out.
NafNeedsLiveKs == naf # NoKs => naf = ks /\ ~spent

\* Once the network has taken up a token, the next vector it issues is one the
\* card accepts, unless the card has accepted another since it made the token.
Resynchronised ==
    [][\A t \in auts : resynchronise(t) /\ t.at = expected => net'.sqn + 1 >= expected']_vars
=============================================================================
