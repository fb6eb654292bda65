---------------------------- MODULE MCProactive ----------------------------
(* Two events of which one has an identifier the card cannot keep, one      *)
(* timer, two channels, commands of one or two bytes, command numbers that  *)
(* wrap after two.                                                          *)
EXTENDS Proactive

MCEvents == {"call", "big"}
MCSmall == {"call"}

\* Bound: parts of the state that no action relates are not multiplied with
\* each other.  Timers run and an envelope waits only between two commands;
\* channels are open only without a profile; and once commands are tangled, the
\* run follows either the event lists or the channels.
NoChannels == bip = {} /\ term.chans = {}
NoLists == subs = {} /\ prev = {} /\ term.events = {}
Slice ==
    /\ \/ timers = [t \in Timers |-> -1] /\ expired = {} /\ event = NoEvent
       \/ Idle /\ term.said = NoCmd
    /\ profile => NoChannels
    /\ tangled => NoChannels \/ NoLists
=============================================================================
