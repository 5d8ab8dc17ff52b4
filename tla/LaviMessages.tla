----------------------------- MODULE LaviMessages -----------------------------
(***************************************************************************)
(* What the LAVI channel of pylib/lavimsg.py promises its users: the       *)
(* messages the server sends come out of receive() whole, one per call,    *)
(* in the order they were sent.  The byte stream, the framing and the two  *)
(* receive modes of noxmsg.NOXChannel are hidden; LaviConsole implements   *)
(* this specification.                                                     *)
(***************************************************************************)
EXTENDS Sequences

CONSTANT Msgs     \* the messages the server may send

VARIABLES
    queue,        \* sent and not yet received
    got           \* what the receive calls returned, in order

Init == queue = << >> /\ got = << >>

SendMsg(m) == queue' = Append(queue, m) /\ UNCHANGED got

Receive ==
    /\ queue # << >>
    /\ got' = Append(got, Head(queue))
    /\ queue' = Tail(queue)

Next == (\E m \in Msgs : SendMsg(m)) \/ Receive

Spec == Init /\ [][Next]_<<queue, got>>

=============================================================================
