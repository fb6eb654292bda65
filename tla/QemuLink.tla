------------------------------ MODULE QemuLink ------------------------------
(***************************************************************************)
(* What the shared-memory bridge promises: two first-in first-out queues   *)
(* of whole messages and a card that serves one command at a time.  An     *)
(* answer may be given up (the response ring was full), but is never       *)
(* altered, repeated or overtaken.                                         *)
(***************************************************************************)
EXTENDS Sequences

CONSTANTS
    Messages,         \* messages a guest may send
    Answers(_),       \* the answers a message may get
    None              \* no answer is being prepared

VARIABLES cmds, rsps, pending

linkVars == <<cmds, rsps, pending>>

Init == cmds = <<>> /\ rsps = <<>> /\ pending = None

Submit(m) == cmds' = Append(cmds, m) /\ UNCHANGED <<rsps, pending>>

Take ==
    /\ cmds # <<>> /\ pending = None
    /\ pending' \in Answers(Head(cmds))
    /\ cmds' = Tail(cmds)
    /\ UNCHANGED rsps

Reply ==
    /\ pending # None
    /\ rsps' = Append(rsps, pending)
    /\ pending' = None
    /\ UNCHANGED cmds

GiveUp == pending # None /\ pending' = None /\ UNCHANGED <<cmds, rsps>>

Collect == rsps # <<>> /\ rsps' = Tail(rsps) /\ UNCHANGED <<cmds, pending>>

Next == (\E m \in Messages : Submit(m)) \/ Take \/ Reply \/ GiveUp \/ Collect

Spec == Init /\ [][Next]_linkVars
=============================================================================
