----------------------------- MODULE PinProofs -----------------------------
(* Type correctness and the guess budget of the PIN manager, for every set  *)
(* of keys and values, every number of slots and every retry limit.         *)
EXTENDS Pin, FiniteSetTheorems, TLAPS

Inv == TypeOK /\ GuessBudget

\* A slot in order: typed, and its counters are the budgets left.
Good(s, h) == s \in Slot /\ h \in History /\ BudgetOf(s, h)

\* Replacing the slot and history of one registered key by a pair in order
\* (what every APDU handler does) keeps the invariant.
LEMMA ReplaceOne ==
    ASSUME Inv, NEW k \in Registered, NEW s, NEW h, Good(s, h),
           slots' = [slots EXCEPT ![k] = s], hist' = [hist EXCEPT ![k] = h],
           UNCHANGED saved
    PROVE  Inv'
<1>1. DOMAIN slots' = DOMAIN slots BY DEF Inv, TypeOK, StoreOK
<1>2. slots' \in [DOMAIN slots -> Slot] /\ hist' \in [DOMAIN slots -> History]
  BY DEF Inv, TypeOK, StoreOK, Good, Registered
<1>3. TypeOK' BY <1>1, <1>2 DEF Inv, TypeOK, StoreOK
<1>4. ASSUME NEW j \in Registered' PROVE BudgetOf(slots'[j], hist'[j])
  BY <1>1 DEF Inv, TypeOK, StoreOK, GuessBudget, Good, Registered
<1>5. GuessBudget' BY <1>4 DEF Inv, GuessBudget
<1> QED BY <1>3, <1>5 DEF Inv

\* An APDU handler whose method keeps the slot in order keeps the invariant.
LEMMA ApduKeeps ==
    ASSUME Inv, NEW k, NEW wf, NEW s, NEW h,
           k \in Registered => Good(s, h), Apdu(k, wf, s, h)
    PROVE  Inv'
<1>1. CASE wf /\ k \in Registered BY <1>1, ReplaceOne DEF Apdu
<1>2. CASE ~(wf /\ k \in Registered)
  <2>1. UNCHANGED vars BY <1>2 DEF Apdu
  <2> QED BY <2>1 DEF Inv, TypeOK, GuessBudget, vars, Registered
<1> QED BY <1>1, <1>2

\* The slot of a registered key is in order.
LEMMA RegisteredGood ==
    ASSUME Inv, NEW k \in Registered PROVE Good(slots[k], hist[k])
BY DEF Inv, TypeOK, StoreOK, GuessBudget, Good, Registered

\* A wrong presentation while tries are left spends exactly one try, whatever
\* becomes of the verified flag.
LEMMA Spend ==
    ASSUME NEW s, NEW h, Good(s, h), s.pin_retries # 0
    PROVE  /\ Good([s EXCEPT !.pin_retries = @ - 1], [h EXCEPT !.pinMiss = @ + 1])
           /\ Good([s EXCEPT !.pin_retries = @ - 1, !.verified = FALSE],
                   [h EXCEPT !.pinMiss = @ + 1])
<1>1. s.pin_retries - 1 \in Byte /\ s.pin_retries \in Byte /\ s.pin_max \in Byte
  BY DEF Good, Slot, Byte
<1>2. h.pinMiss \in Nat /\ h.pinMiss + 1 \in Nat BY DEF Good, History
<1>3. (s.pin_retries - 1) + (h.pinMiss + 1) = s.pin_max
  BY <1>1, <1>2 DEF Good, BudgetOf, Byte
<1>4. [h EXCEPT !.pinMiss = @ + 1] \in History BY <1>2 DEF Good, History
<1>5. /\ [s EXCEPT !.pin_retries = @ - 1] \in Slot
      /\ [s EXCEPT !.pin_retries = @ - 1, !.verified = FALSE] \in Slot
  BY <1>1 DEF Good, Slot
<1> QED BY <1>3, <1>4, <1>5 DEF Good, BudgetOf, Slot, History

\* A slot whose tries are refilled is in order, whatever its other fields.
LEMMA Refill ==
    ASSUME NEW s, NEW h, Good(s, h), NEW t \in Slot,
           t.pin_retries = s.pin_max, t.pin_max = s.pin_max, t.puk_retries = s.puk_retries
    PROVE  Good(t, [h EXCEPT !.pinMiss = 0])
BY DEF Good, BudgetOf, Slot, History, Byte

LEMMA VerifyKeeps ==
    ASSUME NEW s, NEW h, Good(s, h), NEW val \in Values
    PROVE  Good(verify(s, val), AfterPin(h, s.enabled /\ s.pin_retries # 0, s.pin = val))
<1>1. CASE ~s.enabled \/ s.pin_retries = 0 BY <1>1 DEF verify, AfterPin
<1>2. CASE s.enabled /\ s.pin_retries # 0 /\ s.pin # val
  BY <1>2, Spend DEF verify, AfterPin
<1>3. CASE s.enabled /\ s.pin_retries # 0 /\ s.pin = val
  <2>1. [s EXCEPT !.pin_retries = s.pin_max, !.verified = TRUE] \in Slot BY DEF Good, Slot
  <2> QED BY <1>3, <2>1, Refill DEF verify, AfterPin, Good, Slot
<1> QED BY <1>1, <1>2, <1>3

LEMMA ChangeKeeps ==
    ASSUME NEW s, NEW h, Good(s, h), NEW old \in Values, NEW new \in Values
    PROVE  Good(change(s, old, new), AfterPin(h, s.pin_retries # 0, s.pin = old))
<1>1. CASE s.pin_retries = 0 BY <1>1 DEF change, AfterPin
<1>2. CASE s.pin_retries # 0 /\ s.pin # old BY <1>2, Spend DEF change, WrongPin, AfterPin
<1>3. CASE s.pin_retries # 0 /\ s.pin = old
  <2>1. [s EXCEPT !.pin = new, !.pin_retries = s.pin_max] \in Slot BY DEF Good, Slot
  <2> QED BY <1>3, <2>1, Refill DEF change, AfterPin, Good, Slot
<1> QED BY <1>1, <1>2, <1>3

LEMMA DisableKeeps ==
    ASSUME NEW s, NEW h, Good(s, h), NEW val \in Values
    PROVE  Good(disable(s, val), AfterPin(h, s.enabled /\ s.pin_retries # 0, s.pin = val))
<1>1. CASE ~s.enabled \/ s.pin_retries = 0 BY <1>1 DEF disable, AfterPin
<1>2. CASE s.enabled /\ s.pin_retries # 0 /\ s.pin # val
  BY <1>2, Spend DEF disable, WrongPin, AfterPin
<1>3. CASE s.enabled /\ s.pin_retries # 0 /\ s.pin = val
  <2>1. [s EXCEPT !.pin_retries = s.pin_max, !.enabled = FALSE, !.verified = FALSE] \in Slot
    BY DEF Good, Slot
  <2> QED BY <1>3, <2>1, Refill DEF disable, AfterPin, Good, Slot
<1> QED BY <1>1, <1>2, <1>3

LEMMA EnableKeeps ==
    ASSUME NEW s, NEW h, Good(s, h), NEW val \in Values
    PROVE  Good(enable(s, val), AfterPin(h, ~s.enabled /\ s.pin_retries # 0, s.pin = val))
<1>1. CASE s.enabled \/ s.pin_retries = 0 BY <1>1 DEF enable, AfterPin
<1>2. CASE ~s.enabled /\ s.pin_retries # 0 /\ s.pin # val
  BY <1>2, Spend DEF enable, WrongPin, AfterPin
<1>3. CASE ~s.enabled /\ s.pin_retries # 0 /\ s.pin = val
  <2>1. [s EXCEPT !.pin_retries = s.pin_max, !.enabled = TRUE, !.verified = FALSE] \in Slot
    BY DEF Good, Slot
  <2> QED BY <1>3, <2>1, Refill DEF enable, AfterPin, Good, Slot
<1> QED BY <1>1, <1>2, <1>3

LEMMA UnblockKeeps ==
    ASSUME NEW s, NEW h, Good(s, h), NEW puk \in Values, NEW new \in Values
    PROVE  Good(unblock(s, puk, new), AfterPuk(h, s.puk_retries # 0, s.puk = puk))
<1>1. CASE s.puk_retries = 0 BY <1>1 DEF unblock, AfterPuk
<1>2. CASE s.puk_retries # 0 /\ s.puk # puk
  <2>1. Good([s EXCEPT !.puk_retries = @ - 1], [h EXCEPT !.pukMiss = @ + 1])
    BY <1>2 DEF Good, BudgetOf, Slot, History, Byte
  <2> QED BY <1>2, <2>1 DEF unblock, AfterPuk
<1>3. CASE s.puk_retries # 0 /\ s.puk = puk
  <2>1. [s EXCEPT !.pin = new, !.pin_retries = s.pin_max, !.enabled = TRUE,
                  !.verified = FALSE] \in Slot
    BY DEF Good, Slot
  <2> QED BY <1>3, <2>1, Refill DEF unblock, AfterPuk, Good, Slot
<1> QED BY <1>1, <1>2, <1>3

\* Registration adds one slot in order and never exceeds N.
LEMMA AddKeeps ==
    ASSUME Inv, NEW k \in Keys, NEW pin \in Values, NEW puk \in Values,
           NEW pmax \in Limits, NEW umax \in Limits, NEW en \in BOOLEAN,
           add_pin(k, pin, pmax, puk, umax, en)
    PROVE  Inv'
<1>1. CASE k \in Registered \/ Cardinality(Registered) >= N
  <2>1. UNCHANGED vars BY <1>1 DEF add_pin
  <2> QED BY <2>1 DEF Inv, TypeOK, GuessBudget, vars, Registered
<1>2. CASE ~(k \in Registered \/ Cardinality(Registered) >= N)
  <2> DEFINE s == [pin |-> pin, pin_retries |-> pmax, pin_max |-> pmax, puk |-> puk,
                   puk_retries |-> umax, enabled |-> en, verified |-> FALSE]
             h == [pinMiss |-> 0, pukMiss |-> 0, pukMax |-> umax]
  <2>1. Good(s, h) BY LimitsAssumption DEF Good, BudgetOf, Slot, History, Byte
  <2>2. /\ slots' = With(slots, k, s) /\ hist' = With(hist, k, h) /\ saved' = saved
    BY <1>2 DEF add_pin
  <2> HIDE DEF s, h
  <2>3. DOMAIN slots' = DOMAIN slots \cup {k} BY <2>2 DEF With
  <2>4. DOMAIN hist' = DOMAIN slots \cup {k} BY <2>2 DEF With, Inv, TypeOK, StoreOK
  <2>5. \A j \in DOMAIN slots' : Good(slots'[j], hist'[j])
    BY <2>1, <2>2, <2>3, RegisteredGood DEF With, Registered, Inv, TypeOK, StoreOK
  <2>6. /\ IsFiniteSet(DOMAIN slots')
        /\ Cardinality(DOMAIN slots') <= N
    <3>1. IsFiniteSet(DOMAIN slots) /\ Cardinality(DOMAIN slots) \in Nat
      BY FS_CardinalityType DEF Inv, TypeOK, StoreOK
    <3>2. Cardinality(DOMAIN slots') = Cardinality(DOMAIN slots) + 1
          /\ IsFiniteSet(DOMAIN slots')
      BY <3>1, <2>3, <1>2, FS_AddElement DEF Registered
    <3> QED BY <3>1, <3>2, <1>2, NAssumption DEF Registered
  <2>7. slots' \in [DOMAIN slots' -> Slot] /\ hist' \in [DOMAIN slots' -> History]
    BY <2>2, <2>3, <2>4, <2>5 DEF Good, With
  <2>8. TypeOK' BY <2>2, <2>3, <2>6, <2>7 DEF Inv, TypeOK, StoreOK
  <2>9. GuessBudget' BY <2>2, <2>5 DEF Inv, GuessBudget, Good, Registered
  <2> QED BY <2>8, <2>9 DEF Inv
<1> QED BY <1>1, <1>2

\* Every step keeps the invariant.
LEMMA NextKeeps == Inv /\ [Next]_vars => Inv'
<1> SUFFICES ASSUME Inv, [Next]_vars PROVE Inv' OBVIOUS
<1>1. ASSUME NEW k \in Keys, NEW pin \in Values, NEW puk \in Values, NEW pmax \in Limits,
             NEW umax \in Limits, NEW en \in BOOLEAN, add_pin(k, pin, pmax, puk, umax, en)
      PROVE Inv'
  BY <1>1, AddKeeps
<1>2. ASSUME NEW k \in Keys, NEW wf \in BOOLEAN, NEW val \in Values, apdu_verify(k, wf, val)
      PROVE Inv'
  BY <1>2, ApduKeeps, RegisteredGood, VerifyKeeps DEF apdu_verify
<1>3. ASSUME NEW k \in Keys, NEW wf \in BOOLEAN, NEW val \in Values, apdu_disable(k, wf, val)
      PROVE Inv'
  BY <1>3, ApduKeeps, RegisteredGood, DisableKeeps DEF apdu_disable
<1>4. ASSUME NEW k \in Keys, NEW wf \in BOOLEAN, NEW val \in Values, apdu_enable(k, wf, val)
      PROVE Inv'
  BY <1>4, ApduKeeps, RegisteredGood, EnableKeeps DEF apdu_enable
<1>5. ASSUME NEW k \in Keys, NEW wf \in BOOLEAN, NEW val \in Values, NEW new \in Values,
             apdu_change(k, wf, val, new)
      PROVE Inv'
  BY <1>5, ApduKeeps, RegisteredGood, ChangeKeeps DEF apdu_change
<1>6. ASSUME NEW k \in Keys, NEW wf \in BOOLEAN, NEW val \in Values, NEW new \in Values,
             apdu_unblock(k, wf, val, new)
      PROVE Inv'
  BY <1>6, ApduKeeps, RegisteredGood, UnblockKeeps DEF apdu_unblock
<1>7. ASSUME NEW k \in Keys, set_disabled(k) PROVE Inv'
  <2>1. k \in Registered BY <1>7 DEF set_disabled
  <2> DEFINE s == [slots[k] EXCEPT !.enabled = FALSE, !.verified = FALSE]
  <2>2. Good(s, hist[k]) BY <2>1, RegisteredGood DEF Good, BudgetOf, Slot
  <2>3. slots' = [slots EXCEPT ![k] = s] BY <1>7 DEF set_disabled
  <2>4. hist' = [hist EXCEPT ![k] = hist[k]] /\ saved' = saved
    BY <1>7 DEF set_disabled, Inv, TypeOK, StoreOK
  <2> HIDE DEF s
  <2> QED BY <2>1, <2>2, <2>3, <2>4, ReplaceOne
<1>8. CASE reset_verified
  <2>1. DOMAIN slots' = DOMAIN slots /\ hist' = hist /\ saved' = saved
    BY <1>8 DEF reset_verified, Registered
  <2>2. \A k \in Registered : Good(slots'[k], hist[k])
    <3> TAKE k \in Registered
    <3>1. slots'[k] = [slots[k] EXCEPT !.verified = FALSE] BY <1>8 DEF reset_verified
    <3> QED BY <3>1, RegisteredGood DEF Good, BudgetOf, Slot
  <2>3. slots' \in [DOMAIN slots -> Slot]
    BY <1>8, <2>1, <2>2 DEF reset_verified, Good, Registered
  <2>4. TypeOK' BY <2>1, <2>3 DEF Inv, TypeOK, StoreOK
  <2>5. GuessBudget' BY <2>1, <2>2 DEF Inv, GuessBudget, Good, Registered
  <2> QED BY <2>4, <2>5 DEF Inv
<1>9. CASE save_state
  BY <1>9 DEF save_state, Inv, TypeOK, StoreOK, GuessBudget, Registered
<1>10. CASE restore_state
  BY <1>10 DEF restore_state, Inv, TypeOK, StoreOK, GuessBudget, Registered
<1>11. CASE UNCHANGED vars
  BY <1>11 DEF vars, Inv, TypeOK, GuessBudget, Registered
<1> QED BY <1>1, <1>2, <1>3, <1>4, <1>5, <1>6, <1>7, <1>8, <1>9, <1>10, <1>11 DEF Next, Step

LEMMA InitHolds == Init => Inv
<1> SUFFICES ASSUME Init PROVE Inv OBVIOUS
<1>1. DOMAIN NoSlot = {} BY DEF NoSlot
<1>2. IsFiniteSet({}) /\ Cardinality({}) = 0 BY FS_EmptySet
<1>3. StoreOK(NoSlot, NoSlot)
  BY <1>1, <1>2, NAssumption DEF StoreOK, NoSlot
<1> QED BY <1>1, <1>3 DEF Init, Inv, TypeOK, GuessBudget, Registered

\* Type correctness of the PIN manager: whatever is registered and presented,
\* counters stay in a byte and at most N slots are used.
THEOREM TypeCorrect == Spec => []TypeOK
<1>1. Inv => TypeOK BY DEF Inv
<1> QED BY InitHolds, NextKeeps, <1>1, PTL DEF Spec

\* The retry counters are the budgets: the tries at a PIN between two right
\* ones, and at a PUK in the slot's life, are bounded by the limits.
THEOREM BudgetCorrect == Spec => []GuessBudget
<1>1. Inv => GuessBudget BY DEF Inv
<1> QED BY InitHolds, NextKeeps, <1>1, PTL DEF Spec
\* What a command or a reset does to slot s of a key, with t and h the slot
\* and its history afterwards: nothing, one of the five methods, or one of the
\* two ways to clear the verified flag.
SlotStep(s, h0, t, h) ==
    \/ t = s
    \/ t = [s EXCEPT !.verified = FALSE]
    \/ \E val \in Values :
          \/ /\ t = verify(s, val)
             /\ h = AfterPin(h0, s.enabled /\ s.pin_retries # 0, s.pin = val)
          \/ /\ t = disable(s, val)
             /\ h = AfterPin(h0, s.enabled /\ s.pin_retries # 0, s.pin = val)
          \/ t = enable(s, val)
    \/ \E val, new \in Values : t = change(s, val, new) \/ t = unblock(s, val, new)

\* An APDU for key j touches the slot of j only.
LEMMA ApduSlot ==
    ASSUME Inv, NEW j, NEW wf, NEW s, NEW h, Apdu(j, wf, s, h), NEW k \in Registered
    PROVE  /\ k \in Registered'
           /\ \/ slots'[k] = slots[k]
              \/ k = j /\ slots'[k] = s /\ hist'[k] = h
<1>1. k \in DOMAIN hist BY DEF Inv, TypeOK, StoreOK, Registered
<1> QED BY <1>1 DEF Apdu, vars, Registered

\* Every step but a restore leaves a registered key registered and does to its
\* slot what SlotStep says, or is set_disabled on it.
LEMMA StepSlots ==
    ASSUME Inv, Step, NEW k \in Registered
    PROVE  /\ k \in Registered'
           /\ set_disabled(k) \/ SlotStep(slots[k], hist[k], slots'[k], hist'[k])
<1>1. ASSUME NEW j \in Keys, NEW pin \in Values, NEW puk \in Values, NEW pmax \in Limits,
             NEW umax \in Limits, NEW en \in BOOLEAN, add_pin(j, pin, pmax, puk, umax, en)
      PROVE k \in Registered' /\ slots'[k] = slots[k]
  BY <1>1 DEF add_pin, With, vars, Registered
<1>2. ASSUME NEW j \in Keys, NEW wf \in BOOLEAN, NEW val \in Values,
             apdu_verify(j, wf, val) \/ apdu_disable(j, wf, val) \/ apdu_enable(j, wf, val)
      PROVE k \in Registered' /\ SlotStep(slots[k], hist[k], slots'[k], hist'[k])
  <2>1. CASE apdu_verify(j, wf, val) BY <2>1, ApduSlot DEF apdu_verify, SlotStep
  <2>2. CASE apdu_disable(j, wf, val) BY <2>2, ApduSlot DEF apdu_disable, SlotStep
  <2>3. CASE apdu_enable(j, wf, val) BY <2>3, ApduSlot DEF apdu_enable, SlotStep
  <2> QED BY <1>2, <2>1, <2>2, <2>3
<1>3. ASSUME NEW j \in Keys, NEW wf \in BOOLEAN, NEW val \in Values, NEW new \in Values,
             apdu_change(j, wf, val, new) \/ apdu_unblock(j, wf, val, new)
      PROVE k \in Registered' /\ SlotStep(slots[k], hist[k], slots'[k], hist'[k])
  <2>1. CASE apdu_change(j, wf, val, new) BY <2>1, ApduSlot DEF apdu_change, SlotStep
  <2>2. CASE apdu_unblock(j, wf, val, new) BY <2>2, ApduSlot DEF apdu_unblock, SlotStep
  <2> QED BY <1>3, <2>1, <2>2
<1>4. ASSUME NEW j \in Keys, set_disabled(j)
      PROVE k \in Registered' /\ (j = k \/ slots'[k] = slots[k])
  BY <1>4 DEF set_disabled, Registered
<1>5. CASE reset_verified
  <2>1. k \in Registered' /\ slots'[k] = [slots[k] EXCEPT !.verified = FALSE]
    BY <1>5 DEF reset_verified, Registered
  <2> QED BY <2>1 DEF SlotStep
<1>6. CASE save_state BY <1>6 DEF save_state, SlotStep, Registered
<1>7. slots'[k] = slots[k] => SlotStep(slots[k], hist[k], slots'[k], hist'[k]) BY DEF SlotStep
<1> QED BY <1>1, <1>2, <1>3, <1>4, <1>5, <1>6, <1>7 DEF Step

\* No method moves a slot whose PIN is blocked and whose PUK is spent, except
\* that its verified flag may be cleared.
LEMMA DeadSlot ==
    ASSUME NEW s \in Slot, NEW h0, NEW t, NEW h, SlotStep(s, h0, t, h),
           s.pin_retries = 0, s.puk_retries = 0
    PROVE  /\ t.pin = s.pin /\ t.pin_retries = 0 /\ t.puk_retries = 0
           /\ t.verified => s.verified
<1>1. ASSUME NEW val \in Values PROVE verify(s, val) = s /\ disable(s, val) = s /\ enable(s, val) = s
  BY DEF verify, disable, enable
<1>2. ASSUME NEW val \in Values, NEW new \in Values
      PROVE  change(s, val, new) = s /\ unblock(s, val, new) = s
  BY DEF change, unblock
<1>3. t = s \/ t = [s EXCEPT !.verified = FALSE] BY <1>1, <1>2 DEF SlotStep
<1> QED BY <1>3 DEF Slot

\* The only methods that open access compare the PIN and find it right.
LEMMA AccessGained ==
    ASSUME NEW s \in Slot, NEW h0 \in History, NEW t, NEW h, SlotStep(s, h0, t, h),
           s.enabled, ~s.verified, ~t.enabled \/ t.verified
    PROVE  s.pin_retries # 0 /\ h.pinMiss = 0 /\ t.pin = s.pin
<1>1. ASSUME NEW val \in Values, t = verify(s, val),
             h = AfterPin(h0, s.enabled /\ s.pin_retries # 0, s.pin = val)
      PROVE s.pin_retries # 0 /\ h.pinMiss = 0 /\ t.pin = s.pin
  BY <1>1 DEF verify, AfterPin, Slot, History
<1>2. ASSUME NEW val \in Values, t = disable(s, val),
             h = AfterPin(h0, s.enabled /\ s.pin_retries # 0, s.pin = val)
      PROVE s.pin_retries # 0 /\ h.pinMiss = 0 /\ t.pin = s.pin
  BY <1>2 DEF disable, WrongPin, AfterPin, Slot, History
<1>3. ASSUME NEW val \in Values, t = enable(s, val) PROVE FALSE
  BY <1>3 DEF enable, Slot
<1>4. ASSUME NEW val \in Values, NEW new \in Values, t = change(s, val, new) PROVE FALSE
  BY <1>4 DEF change, WrongPin, Slot
<1>5. ASSUME NEW val \in Values, NEW new \in Values, t = unblock(s, val, new) PROVE FALSE
  BY <1>5 DEF unblock, Slot
<1>6. t # s /\ t # [s EXCEPT !.verified = FALSE] BY DEF Slot
<1> QED BY <1>1, <1>2, <1>3, <1>4, <1>5, <1>6 DEF SlotStep

\* A blocked PIN with a spent PUK is lost for good: PIN and counters stay and it
\* never becomes verified, whatever commands, resets and registrations follow.
\* Access may still change, by set_disabled or by a reset that ends it.
THEOREM DeadSlotCorrect == Spec => DeadSlotStaysDead
<1>1. ASSUME Inv, Step, NEW k \in Registered, is_blocked(k), slots[k].puk_retries = 0
      PROVE  /\ slots'[k].pin = slots[k].pin
             /\ slots'[k].pin_retries = 0
             /\ slots'[k].puk_retries = 0
             /\ slots'[k].verified => slots[k].verified
  <2>1. slots[k] \in Slot BY <1>1, RegisteredGood DEF Good
  <2>2. CASE set_disabled(k)
    <3>1. slots'[k] = [slots[k] EXCEPT !.enabled = FALSE, !.verified = FALSE]
      BY <2>2 DEF set_disabled, Registered
    <3> QED BY <1>1, <2>1, <3>1 DEF is_blocked, Slot
  <2>3. CASE SlotStep(slots[k], hist[k], slots'[k], hist'[k])
    BY <1>1, <2>1, <2>3, DeadSlot DEF is_blocked
  <2> QED BY <1>1, <2>2, <2>3, StepSlots
<1>2. Inv /\ [Next]_vars =>
         [Step => \A k \in Registered :
            is_blocked(k) /\ slots[k].puk_retries = 0 =>
               /\ slots'[k].pin = slots[k].pin
               /\ slots'[k].pin_retries = 0
               /\ slots'[k].puk_retries = 0
               /\ slots'[k].verified => slots[k].verified]_vars
  BY <1>1
<1> QED BY InitHolds, NextKeeps, <1>2, PTL DEF Spec, DeadSlotStaysDead

\* No command but a right VERIFY or DISABLE of that very key, and the fixture's
\* set_disabled, ever opens what a key protects.
THEOREM AccessCorrect == Spec => AccessNeedsPin
<1>1. ASSUME Inv, Step, NEW k \in Registered, ~is_access_granted(k), is_access_granted(k)'
      PROVE  \/ set_disabled(k)
             \/ slots[k].pin_retries # 0 /\ hist'[k].pinMiss = 0
                /\ slots'[k].pin = slots[k].pin
  <2>1. slots[k] \in Slot /\ hist[k] \in History BY <1>1, RegisteredGood DEF Good
  <2>2. slots[k].enabled /\ ~slots[k].verified BY <1>1 DEF is_access_granted
  <2>3. k \in Registered' BY <1>1, StepSlots
  <2>4. ~slots'[k].enabled \/ slots'[k].verified BY <1>1, <2>3 DEF is_access_granted
  <2> QED BY <1>1, <2>1, <2>2, <2>4, StepSlots, AccessGained
<1>2. Inv /\ [Next]_vars =>
         [Step => \A k \in Registered :
            ~is_access_granted(k) /\ is_access_granted(k)' =>
               \/ set_disabled(k)
               \/ slots[k].pin_retries # 0 /\ hist'[k].pinMiss = 0
                  /\ slots'[k].pin = slots[k].pin]_vars
  BY <1>1
<1> QED BY InitHolds, NextKeeps, <1>2, PTL DEF Spec, AccessNeedsPin
=============================================================================
