-------------------------------- MODULE Service --------------------------------
(***************************************************************************)
(* What a connection promises its client: the commands it has finished     *)
(* writing are answered in order, each exactly once and in full, and never *)
(* before they are asked.  Answers are byte streams, so they arrive in     *)
(* pieces of any size.  EpollConn is shown to implement it.                *)
(***************************************************************************)
EXTENDS Integers, Sequences

CONSTANTS
    Commands,     \* how many commands the client may write
    Answers(_)    \* the byte stream that answers the first n commands

VARIABLES
    excused,  \* TRUE once the connection owes the client nothing more
    asked,    \* commands completely written by the client
    heard     \* bytes of the answers that reached it
vars == <<excused, asked, heard>>

Init == excused \in BOOLEAN /\ asked = 0 /\ heard = <<>>

Ask == asked < Commands /\ asked' = asked + 1 /\ UNCHANGED heard

\* Some more of the stream arrives.
Hear ==
    /\ \E n \in Len(heard) + 1 .. Len(Answers(asked)) :
          heard' = SubSeq(Answers(asked), 1, n)
    /\ UNCHANGED asked

Next == excused' \/ (~excused /\ (Ask \/ Hear) /\ UNCHANGED excused)

Spec == Init /\ [][Next]_vars

\* Every command asked is eventually answered in full, unless it is excused.
FairSpec == Spec /\ WF_vars(~excused /\ Hear /\ UNCHANGED excused)
===============================================================================
