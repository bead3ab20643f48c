------------------------------ MODULE Channel -------------------------------
(***************************************************************************)
(* What one end of the line may count on when it hands a message to the    *)
(* other: messages are heard one after the other, in the order they were   *)
(* handed over; each is offered until it was heard, so that it may be      *)
(* heard more than once; and one only goes unheard with an excuse, which   *)
(* the specification that implements this one has to name.                 *)
(* Link implements it twice: for the commands, and for the events of a     *)
(* node.                                                                   *)
(***************************************************************************)
EXTENDS Integers, Sequences

CONSTANTS Message, Nothing

VARIABLES queue,    \* handed over and not settled, oldest first
          told,     \* the oldest has been heard
          got,      \* what the last step was the hearing of
          excuse    \* the last step had an excuse to lose something

Init == queue = << >> /\ told = FALSE /\ got = Nothing

Submit(m) == queue' = Append(queue, m) /\ got' = Nothing /\ UNCHANGED told

Hear == /\ queue # << >>
        /\ told' = TRUE /\ got' = Head(queue)
        /\ UNCHANGED queue

HearAndLeave == /\ queue # << >>
                /\ queue' = Tail(queue) /\ told' = FALSE /\ got' = Head(queue)

Leave == /\ queue # << >> /\ told
         /\ queue' = Tail(queue) /\ told' = FALSE /\ got' = Nothing

(* The oldest message is lost, or with a crash all of them ...             *)
LoseOldest == /\ queue # << >> /\ excuse'
              /\ queue' \in {Tail(queue), << >>}
              /\ told' = FALSE /\ got' = Nothing

(* ... or the newest, perhaps to one that takes its place.                 *)
Older == SubSeq(queue, 1, Len(queue) - 1)
LoseNewest == /\ queue # << >> /\ excuse'
              /\ queue' \in {Older} \cup {Append(Older, m) : m \in Message}
              /\ told' = (told /\ Older # << >>)
              /\ got' = Nothing

Rest == got' = Nothing /\ UNCHANGED <<queue, told>>

Next == \/ \E m \in Message : Submit(m)
        \/ Hear \/ HearAndLeave \/ Leave \/ LoseOldest \/ LoseNewest \/ Rest

Step == [Next]_<<queue, told, got>>
Spec == Init /\ [][Step]_<<queue, told, got>>
=============================================================================
