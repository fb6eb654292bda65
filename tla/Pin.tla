-------------------------------- MODULE Pin --------------------------------
(***************************************************************************)
(* simrs-pin: the PIN/PUK manager that the GSM and the USIM application    *)
(* each own.  A key outside DOMAIN slots is not registered.  Every APDU    *)
(* handler is one action; the operator named after a PinManager method     *)
(* gives the slot after it.  Status words are left out: a call that is      *)
(* refused is the step that changes nothing.                               *)
(***************************************************************************)
EXTENDS Integers, FiniteSets

CONSTANTS
    Keys,      \* key references (PinKey) the card may use
    Values,    \* the 8-byte PIN and PUK values
    N,         \* number of slots of PinManager<N>
    Limits     \* retry limits a personalisation may choose (u8)

ASSUME NAssumption == N \in Nat
ASSUME LimitsAssumption == Limits \subseteq 0 .. 255

VARIABLES
    slots,     \* the registered slots
    hist,      \* history per slot: failed presentations, and the PUK's limit
    saved      \* the last snapshot taken, with the history at that moment

vars == <<slots, hist, saved>>

Registered == DOMAIN slots
Byte == 0 .. 255
Slot == [pin : Values, pin_retries : Byte, pin_max : Byte, puk : Values,
         puk_retries : Byte, enabled : BOOLEAN, verified : BOOLEAN]
History == [pinMiss : Nat, pukMiss : Nat, pukMax : Byte]
NoSlot == [k \in {} |-> k]

\* ---- The PinManager methods, as functions of the slot. ----
\* A wrong PIN in change, disable and enable moves the counter alone.
WrongPin(s) == [s EXCEPT !.pin_retries = @ - 1]

\* Mutant: the block is looked at after the comparison.
verify_late_block(s, val) ==
    IF ~s.enabled THEN s
    ELSE IF s.pin = val
      THEN [s EXCEPT !.verified = TRUE,
                     !.pin_retries = IF @ = 0 THEN 0 ELSE s.pin_max]
    ELSE IF s.pin_retries = 0 THEN s
    ELSE [s EXCEPT !.pin_retries = @ - 1, !.verified = FALSE]

verify(s, val) ==
    IF ~s.enabled \/ s.pin_retries = 0 THEN s
    ELSE IF s.pin = val
      THEN [s EXCEPT !.pin_retries = s.pin_max, !.verified = TRUE]
      ELSE [s EXCEPT !.pin_retries = @ - 1, !.verified = FALSE]

\* Mutant: a wrong old PIN costs nothing.
change_uncounted(s, old, new) ==
    IF s.pin_retries = 0 \/ s.pin # old THEN s
    ELSE [s EXCEPT !.pin = new, !.pin_retries = s.pin_max]
\* Mutant: a change counts as a verification.
change_verifies(s, old, new) ==
    IF s.pin_retries = 0 THEN s
    ELSE IF s.pin # old THEN WrongPin(s)
    ELSE [s EXCEPT !.pin = new, !.pin_retries = s.pin_max, !.verified = TRUE]

change(s, old, new) ==
    IF s.pin_retries = 0 THEN s
    ELSE IF s.pin # old THEN WrongPin(s)
    ELSE [s EXCEPT !.pin = new, !.pin_retries = s.pin_max]

disable(s, val) ==
    IF ~s.enabled \/ s.pin_retries = 0 THEN s
    ELSE IF s.pin # val THEN WrongPin(s)
    ELSE [s EXCEPT !.pin_retries = s.pin_max, !.enabled = FALSE, !.verified = FALSE]

enable(s, val) ==
    IF s.pin_retries = 0 \/ s.enabled THEN s
    ELSE IF s.pin # val THEN WrongPin(s)
    ELSE [s EXCEPT !.pin_retries = s.pin_max, !.enabled = TRUE, !.verified = FALSE]

unblock(s, puk, new) ==
    IF s.puk_retries = 0 THEN s
    ELSE IF s.puk # puk THEN [s EXCEPT !.puk_retries = @ - 1]
    ELSE [s EXCEPT !.pin = new, !.pin_retries = s.pin_max,
                   !.enabled = TRUE, !.verified = FALSE]

is_access_granted(k) ==
    k \in Registered => (~slots[k].enabled \/ slots[k].verified)
is_blocked(k) == k \in Registered /\ slots[k].pin_retries = 0

\* ---- Actions ----
Init ==
    /\ slots = NoSlot
    /\ hist = NoSlot
    /\ saved = [slots |-> NoSlot, hist |-> NoSlot]

With(f, k, v) == [j \in DOMAIN f \cup {k} |-> IF j = k THEN v ELSE f[j]]

\* add_pin; a duplicate key and a full manager are refused.
add_pin(k, pin, pmax, puk, umax, en) ==
    IF k \in Registered \/ Cardinality(Registered) >= N
    THEN UNCHANGED vars
    ELSE /\ slots' = With(slots, k, [pin |-> pin, pin_retries |-> pmax, pin_max |-> pmax,
                                     puk |-> puk, puk_retries |-> umax,
                                     enabled |-> en, verified |-> FALSE])
         /\ hist' = With(hist, k, [pinMiss |-> 0, pukMiss |-> 0, pukMax |-> umax])
         /\ UNCHANGED saved

\* What the APDU handlers share.  An APDU with P1 # 0 or data of another
\* length, a retry query (no data) and an unregistered key change nothing;
\* s and h are the slot and its history after the method.
Apdu(k, wellFormed, s, h) ==
    IF wellFormed /\ k \in Registered
    THEN /\ slots' = [slots EXCEPT ![k] = s]
         /\ hist' = [hist EXCEPT ![k] = h]
         /\ UNCHANGED saved
    ELSE UNCHANGED vars

\* History h after a PIN or a PUK was compared (compared = FALSE: the method
\* returned before it looked).
AfterPin(h, compared, right) ==
    IF ~compared THEN h ELSE [h EXCEPT !.pinMiss = IF right THEN 0 ELSE @ + 1]
AfterPuk(h, compared, right) ==
    IF ~compared THEN h
    ELSE IF right THEN [h EXCEPT !.pinMiss = 0]
    ELSE [h EXCEPT !.pukMiss = @ + 1]

apdu_verify(k, wf, val) ==
    Apdu(k, wf, verify(slots[k], val),
         AfterPin(hist[k], slots[k].enabled /\ slots[k].pin_retries # 0, slots[k].pin = val))

apdu_change(k, wf, old, new) ==
    Apdu(k, wf, change(slots[k], old, new),
         AfterPin(hist[k], slots[k].pin_retries # 0, slots[k].pin = old))

apdu_disable(k, wf, val) ==
    Apdu(k, wf, disable(slots[k], val),
         AfterPin(hist[k], slots[k].enabled /\ slots[k].pin_retries # 0, slots[k].pin = val))

apdu_enable(k, wf, val) ==
    Apdu(k, wf, enable(slots[k], val),
         AfterPin(hist[k], ~slots[k].enabled /\ slots[k].pin_retries # 0, slots[k].pin = val))

apdu_unblock(k, wf, puk, new) ==
    Apdu(k, wf, unblock(slots[k], puk, new),
         AfterPuk(hist[k], slots[k].puk_retries # 0, slots[k].puk = puk))

\* set_disabled: the fixture's way to switch a PIN off without its value.
set_disabled(k) ==
    /\ k \in Registered
    /\ slots' = [slots EXCEPT ![k].enabled = FALSE, ![k].verified = FALSE]
    /\ UNCHANGED <<hist, saved>>

reset_verified ==
    /\ slots' = [k \in Registered |-> [slots[k] EXCEPT !.verified = FALSE]]
    /\ UNCHANGED <<hist, saved>>

save_state == saved' = [slots |-> slots, hist |-> hist] /\ UNCHANGED <<slots, hist>>

restore_state ==
    /\ slots' = saved.slots
    /\ hist' = saved.hist
    /\ UNCHANGED saved

Step ==
    \/ \E k \in Keys, pin, puk \in Values, pmax, umax \in Limits, en \in BOOLEAN :
          add_pin(k, pin, pmax, puk, umax, en)
    \/ \E k \in Keys, wf \in BOOLEAN, val \in Values :
          \/ apdu_verify(k, wf, val)
          \/ apdu_disable(k, wf, val)
          \/ apdu_enable(k, wf, val)
    \/ \E k \in Keys, wf \in BOOLEAN, val, new \in Values :
          \/ apdu_change(k, wf, val, new)
          \/ apdu_unblock(k, wf, val, new)
    \/ \E k \in Keys : set_disabled(k)
    \/ reset_verified
    \/ save_state

Next == Step \/ restore_state
Spec == Init /\ [][Next]_vars

\* ---- Properties ----
\* Every slot, live or saved, keeps its type: counters stay in a byte, so no
\* decrement goes below zero, and at most N slots are in use.
StoreOK(sl, h) ==
    /\ DOMAIN sl \subseteq Keys
    /\ IsFiniteSet(DOMAIN sl)
    /\ Cardinality(DOMAIN sl) <= N
    /\ sl \in [DOMAIN sl -> Slot]
    /\ h \in [DOMAIN sl -> History]
TypeOK ==
    /\ StoreOK(slots, hist)
    /\ saved = [slots |-> saved.slots, hist |-> saved.hist]
    /\ StoreOK(saved.slots, saved.hist)

\* Between two right presentations no sequence of VERIFY, CHANGE, DISABLE and
\* ENABLE gives more than pin_max wrong tries at the PIN, and over the slot's
\* whole life no sequence with UNBLOCK more than its limit at the PUK: the
\* counter is exactly the budget left, whatever commands spent it.
BudgetOf(s, h) ==
    /\ s.pin_retries + h.pinMiss = s.pin_max
    /\ s.puk_retries + h.pukMiss = h.pukMax
GuessBudget ==
    /\ \A k \in Registered : BudgetOf(slots[k], hist[k])
    /\ \A k \in DOMAIN saved.slots : BudgetOf(saved.slots[k], saved.hist[k])

\* A slot whose PIN is blocked and whose PUK is spent is lost: no command can
\* ever change its PIN, its counters or make it verified again.
DeadSlotStaysDead ==
    [][Step => \A k \in Registered :
          is_blocked(k) /\ slots[k].puk_retries = 0 =>
             /\ slots'[k].pin = slots[k].pin
             /\ slots'[k].pin_retries = 0
             /\ slots'[k].puk_retries = 0
             /\ slots'[k].verified => slots[k].verified]_vars

\* Access to what a key protects is only gained by presenting that key's PIN
\* (VERIFY, DISABLE) or by the fixture's set_disabled; CHANGE, ENABLE, UNBLOCK,
\* a reset and a command for another key never grant it.
AccessNeedsPin ==
    [][Step => \A k \in Registered :
          ~is_access_granted(k) /\ is_access_granted(k)' =>
             \/ set_disabled(k)
             \/ slots[k].pin_retries # 0 /\ hist'[k].pinMiss = 0
                /\ slots'[k].pin = slots[k].pin]_vars
=============================================================================
