----------------------------- MODULE QemuBridge -----------------------------
(***************************************************************************)
(* simrs-qemu: the bridge between a QEMU guest and the SIM over shared     *)
(* memory, and the guest (as push_cmd and pop_rsp of its tests play it).   *)
(* Guest and bridge run concurrently.  A step of either is what it does    *)
(* between two accesses to memory that the other one writes; the bytes     *)
(* between tail and head belong to the reader, so copying a message out    *)
(* of them is one step.  Header words are read and written whole.          *)
(***************************************************************************)
EXTENDS ShmemRing

CONSTANTS
    Messages,         \* per window, messages of the guest: sequences of bytes
    Windows,          \* answers a guest may be waiting for at a time
    Bytes,            \* 0 .. 255: what a cell can hold
    None

\* A message is a sequence of bytes, and None is not one.
ASSUME MessagesAssumption ==
    /\ Windows \subseteq Nat
    /\ \A w \in Windows : Messages[w] \subseteq Seq(Nat)
    /\ None \notin Seq(Nat)
\* Digits of a length and message types are bytes, and so is the guest's data.
ASSUME BytesAssumption ==
    /\ 0 .. ByteMod - 1 \subseteq Bytes /\ 0 .. 6 \subseteq Bytes
    /\ \A w \in Windows : Messages[w] \subseteq Seq(Bytes)

VARIABLES
    hdr,              \* the indices in the shared header
    cmd_ring, rsp_ring,
    bridge,           \* the bridge's own copies of the indices
    pc,               \* where the bridge is in step
    rsp,              \* the response being written, or None
    power,            \* state of the SIM
    staged,           \* a command the guest has written, its head not yet
    owed,             \* guest: the answers it is waiting for
    guest_power,      \* guest: the card state its commands lead to
    window            \* guest: how many answers it may be waiting for

guestVars == <<staged, owed, guest_power, window>>
vars == <<hdr, cmd_ring, rsp_ring, bridge, pc, rsp, power, guestVars>>

\* ShmemMsgType
Apdu == 1
PowerOn == 2
PowerOff == 3
WarmReset == 4
Atr == 5
Tick == 6

\* SimResponse of Sim::process: an ATR, an answer that depends on the command,
\* or Ignored (None).
Process(p, m) ==
    CASE m[1] \in {PowerOn, WarmReset} -> <<0>>
      [] m[1] = Apdu /\ p = "ready" /\ Len(m) > 1 -> Tail(m)
      [] OTHER -> None
PowerAfter(p, m) ==
    CASE m # <<>> /\ m[1] \in {PowerOn, WarmReset} -> "ready"
      [] m # <<>> /\ m[1] = PowerOff -> "off"
      [] OTHER -> p

FALLBACK_APDU_RSP == <<Apdu, 0>>

\* Mutant: Ignored is passed on for an APDU as well.
Response_ignored(p, m) ==
    IF m = <<>> \/ Process(p, m) = None THEN None
    ELSE <<IF m[1] = Apdu THEN Apdu ELSE Atr>> \o Process(p, m)

\* What step sends back for a message, or None.  An empty message, one of an
\* unknown type and an ATR are errors (InvalidMessage) and get nothing.
Response(p, m) ==
    IF m = <<>> THEN None
    ELSE IF m[1] = Apdu /\ Process(p, m) = None THEN FALLBACK_APDU_RSP
    ELSE IF Process(p, m) = None THEN None
    ELSE <<IF m[1] = Apdu THEN Apdu ELSE Atr>> \o Process(p, m)

\* ---- The bridge ----
\* step: refresh cmd_head.
step_refresh ==
    /\ pc = "idle"
    /\ bridge' = [bridge EXCEPT !.cmd_head = hdr.cmd_head]
    /\ pc' = "read"
    /\ UNCHANGED <<hdr, cmd_ring, rsp_ring, rsp, power, guestVars>>

\* Mutant: a power-off is taken for a message without effect.
step_take_stays_on ==
    /\ pc = "read"
    /\ CanRead(cmd_ring, bridge.cmd_head, bridge.cmd_tail)
    /\ LET tail == NewTail(cmd_ring, bridge.cmd_tail)
           m == ReadPayload(cmd_ring, bridge.cmd_tail)
       IN /\ bridge' = [bridge EXCEPT !.cmd_tail = tail]
          /\ hdr' = [hdr EXCEPT !.cmd_tail = tail]
          /\ power' = IF m = <<PowerOff>> THEN power ELSE PowerAfter(power, m)
          /\ rsp' = Response(power, m)
          /\ pc' = IF rsp' = None THEN "idle" ELSE "answer"
    /\ UNCHANGED <<cmd_ring, rsp_ring, guestVars>>

\* step: take a command off the ring, publish cmd_tail, let the SIM process it.
step_take ==
    /\ pc = "read"
    /\ CanRead(cmd_ring, bridge.cmd_head, bridge.cmd_tail)
    /\ LET tail == NewTail(cmd_ring, bridge.cmd_tail)
           m == ReadPayload(cmd_ring, bridge.cmd_tail)
       IN /\ bridge' = [bridge EXCEPT !.cmd_tail = tail]
          /\ hdr' = [hdr EXCEPT !.cmd_tail = tail]
          /\ power' = PowerAfter(power, m)
          /\ rsp' = Response(power, m)
          /\ pc' = IF rsp' = None THEN "idle" ELSE "answer"
    /\ UNCHANGED <<cmd_ring, rsp_ring, guestVars>>

\* step: Ok(false), there is nothing to read.
step_empty ==
    /\ pc = "read"
    /\ ~CanRead(cmd_ring, bridge.cmd_head, bridge.cmd_tail)
    /\ pc' = "idle"
    /\ UNCHANGED <<hdr, cmd_ring, rsp_ring, bridge, rsp, power, guestVars>>

\* write_rsp_ring: refresh rsp_tail ...
rsp_refresh ==
    /\ pc = "answer"
    /\ bridge' = [bridge EXCEPT !.rsp_tail = hdr.rsp_tail]
    /\ pc' = "write"
    /\ UNCHANGED <<hdr, cmd_ring, rsp_ring, rsp, power, guestVars>>

\* ... write the frame ...
rsp_write ==
    /\ pc = "write"
    /\ FitsRing(bridge.rsp_head, bridge.rsp_tail, rsp)
    /\ rsp_ring' = ring_write(rsp_ring, bridge.rsp_head, rsp)
    /\ pc' = "publish"
    /\ UNCHANGED <<hdr, cmd_ring, bridge, rsp, power, guestVars>>

\* ... or give up with RingFull ...
rsp_full ==
    /\ pc = "write"
    /\ ~FitsRing(bridge.rsp_head, bridge.rsp_tail, rsp)
    /\ rsp' = None
    /\ pc' = "idle"
    /\ UNCHANGED <<hdr, cmd_ring, rsp_ring, bridge, power, guestVars>>

\* ... and publish rsp_head.
rsp_publish ==
    /\ pc = "publish"
    /\ LET head == Advance(bridge.rsp_head, Len(Frame(rsp)))
       IN /\ bridge' = [bridge EXCEPT !.rsp_head = head]
          /\ hdr' = [hdr EXCEPT !.rsp_head = head]
    /\ rsp' = None
    /\ pc' = "idle"
    /\ UNCHANGED <<cmd_ring, rsp_ring, power, guestVars>>

\* ---- The guest ----
\* The answer a guest may count on, given the state of the card.
Expected(p, m) ==
    IF m = <<>> THEN None
    ELSE CASE m[1] \in {PowerOn, WarmReset} -> <<Atr, 0>>
           [] m[1] = Apdu -> IF p = "ready" /\ Len(m) > 1 THEN m ELSE FALLBACK_APDU_RSP
           [] OTHER -> None

guest_write(m) ==
    /\ staged = None
    /\ Len(owed) < window
    /\ FitsRing(hdr.cmd_head, hdr.cmd_tail, m)
    /\ cmd_ring' = ring_write(cmd_ring, hdr.cmd_head, m)
    /\ staged' = m
    /\ UNCHANGED <<hdr, rsp_ring, bridge, pc, rsp, power, owed, guest_power, window>>

guest_publish ==
    /\ staged # None
    /\ hdr' = [hdr EXCEPT !.cmd_head = Advance(@, Len(Frame(staged)))]
    /\ LET answer == Expected(guest_power, staged)
       IN owed' = IF answer = None THEN owed ELSE Append(owed, answer)
    /\ guest_power' = PowerAfter(guest_power, staged)
    /\ staged' = None
    /\ UNCHANGED <<cmd_ring, rsp_ring, bridge, pc, rsp, power, window>>

guest_collect ==
    /\ CanRead(rsp_ring, hdr.rsp_head, hdr.rsp_tail)
    /\ hdr' = [hdr EXCEPT !.rsp_tail = NewTail(rsp_ring, @)]
    /\ owed' = IF owed = <<>> THEN owed ELSE Tail(owed)
    /\ UNCHANGED <<cmd_ring, rsp_ring, bridge, pc, rsp, power, staged, guest_power, window>>

\* QemuBridge::new on an empty region, whose indices may be about to wrap.
Init ==
    /\ \E i \in {0, IndexMod - 3} :
          hdr = [cmd_head |-> i, cmd_tail |-> i, rsp_head |-> i, rsp_tail |-> i]
    /\ bridge = hdr
    /\ cmd_ring = [c \in Cells |-> 0] /\ rsp_ring = [c \in Cells |-> 0]
    /\ pc = "idle" /\ rsp = None /\ power = "off"
    /\ staged = None /\ owed = <<>> /\ guest_power = "off"
    /\ window \in Windows

Step == step_refresh \/ step_take \/ step_empty
        \/ rsp_refresh \/ rsp_write \/ rsp_full \/ rsp_publish

Next == Step \/ (\E m \in Messages[window] : guest_write(m)) \/ guest_publish \/ guest_collect

Spec == Init /\ [][Next]_vars

\* The bridge's owner keeps calling step, the guest finishes what it began and
\* collects what has arrived; it need not send anything.
FairSpec == Spec /\ WF_vars(Step) /\ WF_vars(guest_publish) /\ WF_vars(guest_collect)

\* ---- Properties ----
Indices == [cmd_head : Index, cmd_tail : Index, rsp_head : Index, rsp_tail : Index]
\* Every index stays a u32 and every cell a byte: of a message, of a card's
\* answer or of a length, whose two digits suffice for what fits a ring.
TypeOK ==
    /\ hdr \in Indices /\ bridge \in Indices
    /\ \A c \in Cells : cmd_ring[c] \in Bytes /\ rsp_ring[c] \in Bytes
    /\ pc \in {"idle", "read", "answer", "write", "publish"}
    /\ power \in {"off", "ready"} /\ guest_power \in {"off", "ready"}

\* The two byte rings behave as queues of whole messages: the bytes between a
\* tail and its head always decode to the messages sent and not yet taken, in
\* order and unaltered, although both sides work from stale copies of the
\* indices, frames wrap around the end and the indices overflow.
AnswersOf(m) == {Response(p, m) : p \in {"off", "ready"}}
Link == INSTANCE QemuLink WITH
            cmds <- Unread(cmd_ring, hdr.cmd_head, hdr.cmd_tail),
            rsps <- Unread(rsp_ring, hdr.rsp_head, hdr.rsp_tail),
            pending <- rsp,
            Messages <- UNION {Messages[w] : w \in Windows},
            Answers <- AnswersOf
ImplementsLink == Link!Spec

\* A guest that waits for each answer before it sends the next command gets
\* the answer to that command and to no other.
AnswerMatches ==
    [][window = 1 /\ guest_collect
       => /\ owed # <<>>
          /\ ReadPayload(rsp_ring, hdr.rsp_tail) = owed[1]]_vars

\* Such a guest is never left waiting: also a command that the SIM ignores is
\* answered, and an answer always finds room.
GuestIsAnswered == window = 1 /\ owed # <<>> ~> owed = <<>>
=============================================================================
