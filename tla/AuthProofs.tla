----------------------------- MODULE AuthProofs -----------------------------
(* Proofs about Auth, for every range of sequence numbers and every link.    *)
EXTENDS Auth, TLAPS

\* ---- Strengthenings ----
\* What was accepted lies below the threshold, or is the last number and the
\* threshold has stopped there.
Passed == \A v \in accepted : v.sqn < expected \/ (v.sqn = SqnMax /\ expected = SqnMax)
\* A Ks is spent only with its lifetime at zero.
SpentIsZero == spent => life = 0
\* A token carries the threshold of when it was made.
TokenIsThreshold == \A t \in auts : t.sqn = t.at

AuthInv == TypeOK /\ Passed /\ NoReplay /\ KsIsNewest /\ SpentIsZero /\ NafNeedsLiveKs
           /\ TokenIsThreshold

\* The initial state has everything.
LEMMA InitInv == Init => AuthInv
  <1> SUFFICES ASSUME Init PROVE AuthInv
    OBVIOUS
  <1>1. [sqn |-> 0, rand |-> 1] \in [sqn : 0 .. SqnMax, rand : Rands] /\ 0 \in 0 .. SqnMax
    BY AuthAssumption
  <1>2. TypeOK
    BY <1>1 DEF Init, TypeOK
  <1> QED
    BY <1>2 DEF Init, AuthInv, Passed, NoReplay, KsIsNewest, SpentIsZero, NafNeedsLiveKs,
       TokenIsThreshold

\* Steps of the network, and those of the card that leave threshold, key and
\* accepted vectors alone.
LEMMA OutsideStep ==
  ASSUME AuthInv, UNCHANGED <<expected, ks, accepted, replayed>>, naf' = NoKs,
         UNCHANGED <<life, spent>>,
         net' \in [sqn : 0 .. SqnMax, rand : Rands], air' \subseteq Vectors,
         auts' \subseteq Tokens, \A t \in auts' : t.sqn = t.at
  PROVE  AuthInv'
  BY DEF AuthInv, TypeOK, Passed, NoReplay, KsIsNewest, SpentIsZero, NafNeedsLiveKs,
     TokenIsThreshold

\* The home network and the link keep the invariant.
LEMMA NetworkStep == AuthInv /\ Network => AuthInv'
  <1> SUFFICES ASSUME AuthInv, Network PROVE AuthInv'
    OBVIOUS
  <1> USE AuthAssumption
  <1>t. net \in [sqn : 0 .. SqnMax, rand : Rands] /\ air \subseteq Vectors
        /\ auts \subseteq Tokens /\ \A t \in auts : t.sqn = t.at
    BY DEF AuthInv, TypeOK, TokenIsThreshold
  <1>1. ASSUME NEW mode \in {"UMTS", "GBA"}, issue(mode) PROVE AuthInv'
    <2>1. [sqn |-> net.sqn + 1, rand |-> net.rand, mode |-> mode] \in Vectors
      BY <1>t, <1>1 DEF issue, Vectors
    <2>2. air' \subseteq Vectors
      BY <2>1, <1>t, <1>1 DEF issue
    <2>3. net' \in [sqn : 0 .. SqnMax, rand : Rands]
      BY <1>t, <1>1 DEF issue
    <2> QED
      BY <2>2, <2>3, <1>t, <1>1, OutsideStep DEF issue, cardVars
  <1>2. ASSUME NEW n \in 0 .. SqnMax, fall_back(n) PROVE AuthInv'
    <2>1. net' \in [sqn : 0 .. SqnMax, rand : Rands]
      BY <1>t, <1>2 DEF fall_back
    <2> QED
      BY <2>1, <1>t, <1>2, OutsideStep DEF fall_back, cardVars
  <1>3. ASSUME NEW t \in Tokens, resynchronise(t) PROVE AuthInv'
    <2>1. net' \in [sqn : 0 .. SqnMax, rand : Rands]
      BY <1>t, <1>3 DEF resynchronise, Tokens
    <2> QED
      BY <2>1, <1>t, <1>3, OutsideStep DEF resynchronise, cardVars
  <1>4. CASE lose
    <2>1. air' \subseteq Vectors /\ auts' \subseteq Tokens /\ auts' \subseteq auts
      BY <1>t, <1>4 DEF lose
    <2> QED
      BY <2>1, <1>t, <1>4, OutsideStep DEF lose, cardVars
  <1> QED
    BY <1>1, <1>2, <1>3, <1>4 DEF Network

\* The threshold after a vector is above its number, or both are the last.
LEMMA AdvancePasses ==
  ASSUME NEW n \in 0 .. SqnMax
  PROVE  /\ advance(n) \in 0 .. SqnMax
         /\ n < advance(n) \/ (n = SqnMax /\ advance(n) = SqnMax)
         /\ n <= advance(n)
  BY AuthAssumption DEF advance

\* AUTHENTICATE keeps the invariant.
LEMMA AuthenticateStep ==
  ASSUME AuthInv, NEW v \in Vectors, authenticate(v) PROVE AuthInv'
  <1> USE AuthAssumption DEF AuthInv
  <1>t. /\ expected \in 0 .. SqnMax /\ v.sqn \in 0 .. SqnMax
        /\ \A w \in accepted : w \in Vectors /\ w.sqn \in 0 .. SqnMax
    BY DEF TypeOK, Vectors
  <1>1. CASE is_fresh(v)
    <2>0. /\ expected' = advance(v.sqn) /\ StoreKs(v)
          /\ accepted' = accepted \cup {v}
          /\ replayed' = IF v \in accepted THEN replayed \cup {v} ELSE replayed
          /\ naf' = NoKs /\ UNCHANGED <<net, air, auts>>
      BY <1>1 DEF authenticate
    <2>e. /\ expected' \in 0 .. SqnMax /\ expected <= v.sqn /\ v.sqn <= expected'
          /\ v.sqn < expected' \/ (v.sqn = SqnMax /\ expected' = SqnMax)
      BY <2>0, <1>1, <1>t, AdvancePasses DEF is_fresh
    <2>w. \A w \in accepted : w.sqn < v.sqn \/ (w.sqn = SqnMax /\ v.sqn = SqnMax)
      BY <2>e, <1>t DEF Passed
    <2>1. TypeOK'
      BY <2>0, <2>e DEF TypeOK, StoreKs
    <2>2. Passed'
      BY <2>0, <2>e, <2>w, <1>t DEF Passed
    <2>3. NoReplay'
      BY <2>0, <2>w, <1>t DEF NoReplay
    <2>4. KsIsNewest'
      <3>1. CASE v.mode = "GBA"
        BY <3>1, <2>0, <2>w, <1>t DEF KsIsNewest, StoreKs
      <3>2. CASE v.mode # "GBA"
        BY <3>2, <2>0 DEF KsIsNewest, StoreKs
      <3> QED
        BY <3>1, <3>2
    <2>5. SpentIsZero' /\ NafNeedsLiveKs' /\ TokenIsThreshold'
      BY <2>0 DEF SpentIsZero, NafNeedsLiveKs, TokenIsThreshold, StoreKs
    <2> QED
      BY <2>5, <2>4, <2>3, <2>1, <2>2
  <1>2. CASE ~is_fresh(v)
    <2>1. [sqn |-> resync_token(v), at |-> expected] \in Tokens
      BY <1>t DEF resync_token, Tokens
    <2>2. auts' \subseteq Tokens /\ \A t \in auts' : t.sqn = t.at
      BY <2>1, <1>2 DEF authenticate, resync_token, TypeOK, TokenIsThreshold
    <2> QED
      BY <2>2, <1>2, OutsideStep DEF authenticate, cardVars, TypeOK
  <1> QED
    BY <1>1, <1>2

\* The commands and events around the GBA key keep the invariant.
LEMMA KeyStep ==
  ASSUME AuthInv,
         \/ authenticate_damaged
         \/ handle_authenticate_gba_naf
         \/ \E secs \in 0 .. MaxLife \cup {Infinite} : set_gba_ks_lifetime(secs)
         \/ \E elapsed \in 1 .. MaxLife : tick(elapsed)
         \/ clear_gba_state
  PROVE  AuthInv'
  <1> USE AuthAssumption DEF AuthInv
  <1>k. /\ UNCHANGED <<expected, net, air, auts, accepted, replayed>>
        /\ ks' \in {ks, NoKs}
    BY DEF authenticate_damaged, handle_authenticate_gba_naf, set_gba_ks_lifetime, tick,
           clear_gba_state, cardVars
  <1>1. Passed' /\ NoReplay' /\ KsIsNewest' /\ TokenIsThreshold'
    BY <1>k DEF Passed, NoReplay, KsIsNewest, TokenIsThreshold
  <1>2. CASE authenticate_damaged
    BY <1>2, <1>1 DEF authenticate_damaged, cardVars, TypeOK, SpentIsZero, NafNeedsLiveKs
  <1>3. CASE handle_authenticate_gba_naf
    BY <1>3, <1>1 DEF handle_authenticate_gba_naf, gba_naf, cardVars, TypeOK, SpentIsZero,
       NafNeedsLiveKs
  <1>4. ASSUME NEW secs \in 0 .. MaxLife \cup {Infinite}, set_gba_ks_lifetime(secs) PROVE AuthInv'
    <2>1. TypeOK'
      BY <1>4 DEF set_gba_ks_lifetime, TypeOK
    <2>2. SpentIsZero' /\ NafNeedsLiveKs'
      BY <1>4 DEF set_gba_ks_lifetime, SpentIsZero, NafNeedsLiveKs
    <2> QED
      BY <1>1, <2>1, <2>2
  <1>5. ASSUME NEW elapsed \in 1 .. MaxLife, tick(elapsed) PROVE AuthInv'
    <2>0. life \in 0 .. MaxLife \/ life = Infinite
      BY DEF TypeOK
    <2>1. life' \in (0 .. MaxLife) \cup {Infinite} /\ spent' \in BOOLEAN
      BY <1>5, <2>0 DEF tick, TypeOK
    <2>2. TypeOK'
      BY <2>1, <1>5 DEF tick, TypeOK
    <2>3. NafNeedsLiveKs'
      BY <1>5 DEF tick, NafNeedsLiveKs
    <2>4. life # Infinite /\ ks # NoKs /\ (life <= elapsed \/ life = 0) => life' = 0
      BY <2>0, <1>5 DEF tick
    <2>5. spent => life = 0 /\ life # Infinite
      BY DEF SpentIsZero
    <2>6. spent => life' = 0
      BY <2>5, <1>5 DEF tick
    <2>7. SpentIsZero'
      BY <2>4, <2>6, <1>5 DEF tick, SpentIsZero
    <2> QED
      BY <1>1, <2>2, <2>3, <2>7
  <1>6. CASE clear_gba_state
    BY <1>6, <1>1 DEF clear_gba_state, TypeOK, SpentIsZero, NafNeedsLiveKs
  <1> QED
    BY <1>2, <1>3, <1>4, <1>5, <1>6

\* The strengthened invariant holds in every reachable state.
THEOREM AuthInvariant == Spec => []AuthInv
  <1>1. Init => AuthInv
    BY InitInv
  <1>2. AuthInv /\ [Next]_vars => AuthInv'
    <2> SUFFICES ASSUME AuthInv, [Next]_vars PROVE AuthInv'
      OBVIOUS
    <2>1. CASE UNCHANGED vars
      BY <2>1 DEF vars, cardVars, AuthInv, TypeOK, Passed, NoReplay, KsIsNewest, SpentIsZero,
         NafNeedsLiveKs, TokenIsThreshold
    <2>2. CASE Network
      BY <2>2, NetworkStep
    <2>3. ASSUME NEW v \in Vectors, authenticate(v) PROVE AuthInv'
      BY <2>3, AuthenticateStep
    <2> QED
      BY <2>1, <2>2, <2>3, KeyStep DEF Next
  <1> QED
    BY <1>1, <1>2, PTL DEF Spec

\* Types: the threshold, which the code keeps in a u64, never leaves 48 bits.
THEOREM TypeCorrect == Spec => []TypeOK
  BY AuthInvariant, PTL DEF AuthInv

\* No vector is accepted twice below the last sequence number, whatever the
\* link and the network do.
THEOREM NoReplayCorrect == Spec => []NoReplay
  BY AuthInvariant, PTL DEF AuthInv

\* The stored GBA key is that of the newest bootstrap accepted.
THEOREM KsIsNewestCorrect == Spec => []KsIsNewest
  BY AuthInvariant, PTL DEF AuthInv

\* NAF keys come from a live Ks.
THEOREM NafNeedsLiveKsCorrect == Spec => []NafNeedsLiveKs
  BY AuthInvariant, PTL DEF AuthInv

\* One round of resynchronisation is enough.
THEOREM ResynchronisedCorrect == Spec => Resynchronised
  <1>1. AuthInv /\ [Next]_vars =>
        [\A t \in auts : resynchronise(t) /\ t.at = expected => net'.sqn + 1 >= expected']_vars
    <2> SUFFICES ASSUME AuthInv, NEW t \in auts, resynchronise(t), t.at = expected
                 PROVE  net'.sqn + 1 >= expected'
      OBVIOUS
    <2>1. /\ t.sqn = expected /\ expected \in Nat /\ net.sqn \in Nat
          /\ net \in [sqn : 0 .. SqnMax, rand : Rands]
      BY AuthAssumption DEF AuthInv, TokenIsThreshold, TypeOK
    <2>2. net'.sqn = (IF t.sqn > net.sqn THEN t.sqn ELSE net.sqn) /\ expected' = expected
      BY <2>1 DEF resynchronise, cardVars
    <2> QED
      BY <2>1, <2>2
  <1> QED
    BY <1>1, AuthInvariant, PTL DEF Spec, Resynchronised
=============================================================================
