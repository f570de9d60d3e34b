---------------------------- MODULE EventChannel ----------------------------
(***************************************************************************)
(* What an event queue promises the threads of a daemon: every event a     *)
(* push has accepted is handled at most once, and in the order the pushes  *)
(* took effect.  The two histories are all a producer or a handler can     *)
(* observe of the queue; locks, wake-ups and polling belong to EventQueue. *)
(* DBThreadPool implements the same channel for tasks.                     *)
(***************************************************************************)
EXTENDS Sequences, Naturals

CONSTANT Events     \* the events threads may push

VARIABLES accepted, \* events in the order their pushes took effect
          handled   \* events in the order the main worker finished them

channelVars == <<accepted, handled>>

ChannelInit == accepted = <<>> /\ handled = <<>>

\* A push of event e takes effect.
Accept(e) == /\ accepted' = Append(accepted, e)
             /\ UNCHANGED handled

\* The oldest event not handled yet is handled.
Handle == /\ Len(handled) < Len(accepted)
          /\ handled' = Append(handled, accepted[Len(handled) + 1])
          /\ UNCHANGED accepted

ChannelNext == Handle \/ \E e \in Events : Accept(e)

ChannelSpec == ChannelInit /\ [][ChannelNext]_channelVars
=============================================================================
