------------------------------- MODULE AudioQueue ------------------------------
(***************************************************************************)
(* What the audio ring promises the two sides that share it: a queue of    *)
(* bytes, as long as the ring's capacity, into which the engine puts and   *)
(* from which the host takes, in order, each byte once.  A byte is its     *)
(* place in the stream of the bytes that were accepted.                    *)
(***************************************************************************)
EXTENDS Integers, Sequences

VARIABLES
  room,    \* the bytes the queue holds at most; 0 until it is open
  queue,   \* bytes put and not yet taken
  sent,    \* bytes put so far
  out      \* the byte taken last, or -1

vars == <<room, queue, sent, out>>

Init == room = 0 /\ queue = <<>> /\ sent = 0 /\ out = -1

Open ==
  /\ room = 0
  /\ room' \in Nat \ {0}
  /\ UNCHANGED <<queue, sent, out>>

Put(n) ==
  /\ Len(queue) + n <= room
  /\ queue' = queue \o [i \in 1 .. n |-> sent + i - 1]
  /\ sent' = sent + n
  /\ UNCHANGED <<room, out>>

Take ==
  /\ queue # <<>>
  /\ out' = Head(queue)
  /\ queue' = Tail(queue)
  /\ UNCHANGED <<room, sent>>

Next ==
  \/ Open
  \/ \E n \in 1 .. room : Put(n)
  \/ Take

Spec == Init /\ [][Next]_vars
=============================================================================
