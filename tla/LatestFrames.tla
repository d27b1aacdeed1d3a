---------------------------- MODULE LatestFrames ----------------------------
(***************************************************************************)
(* What a viewer of a live camera is promised, whoever else is watching    *)
(* and however slow it is: frames in the order they were published, none   *)
(* twice, at most Capacity of them waiting, and room made by giving up the *)
(* oldest.  Only a queue that the viewer has just emptied may miss the new *)
(* frame.  MediaPath implements it for each viewer.                        *)
(***************************************************************************)
EXTENDS Naturals, Sequences

CONSTANT Capacity

VARIABLES
  open,        \* the viewer is subscribed
  pending,     \* a frame is being offered to it
  offered,     \* the number of the last frame offered
  queue,       \* the frames that wait for it
  taken        \* the number of the last frame it took

vars == <<open, pending, offered, queue, taken>>

Init == ~open /\ ~pending /\ offered = 0 /\ queue = <<>> /\ taken = 0

Open == ~open /\ open' = TRUE /\ UNCHANGED <<pending, offered, queue, taken>>

Offer ==
  /\ open /\ ~pending /\ pending' = TRUE
  /\ offered' \in Nat /\ offered' > offered
  /\ UNCHANGED <<open, queue, taken>>

Accept ==
  /\ pending /\ pending' = FALSE
  /\ \/ Len(queue) < Capacity /\ queue' = Append(queue, offered)
     \/ queue # <<>> /\ queue' = Append(Tail(queue), offered)
  /\ UNCHANGED <<open, offered, taken>>

Miss ==
  /\ pending /\ pending' = FALSE /\ queue = <<>>
  /\ UNCHANGED <<open, offered, queue, taken>>

Take ==
  /\ queue # <<>>
  /\ taken' = Head(queue) /\ queue' = Tail(queue)
  /\ UNCHANGED <<open, pending, offered>>

Close ==
  /\ open /\ open' = FALSE /\ pending' = FALSE /\ queue' = <<>>
  /\ UNCHANGED <<offered, taken>>

Next == Open \/ Offer \/ Accept \/ Miss \/ Take \/ Close

Spec == Init /\ [][Next]_vars

=============================================================================
