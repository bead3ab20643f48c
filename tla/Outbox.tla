------------------------------- MODULE Outbox -------------------------------
(***************************************************************************)
(* What the daemon promises about the commands the controller hands it     *)
(* over UDP, said without pool, pointers, packets or passes: every node    *)
(* has a bounded FIFO of commands; only its oldest command is being tried; *)
(* a command leaves its FIFO either delivered or after MaxErrors failed    *)
(* transfers, and never earlier or out of order.                           *)
(* Daemon implements this module (Daemon!OutboxSpec).                      *)
(***************************************************************************)
EXTENDS Naturals, Sequences, FiniteSets

CONSTANTS Node,       \* the rows of the daemon's table
          Cmd,        \* payloads of commands
          QueueLen,   \* commands a row can hold
          PoolSize,   \* commands all rows can hold together
          MaxErrors   \* failed transfers after which a command is given up

VARIABLES queue,      \* queue[n]: the accepted commands of n, oldest first
          tries,      \* tries[n]: failed transfers of the oldest one
          acked       \* acked[n]: the node has echoed the oldest one

vars == <<queue, tries, acked>>

Held == Cardinality(UNION {{n} \X DOMAIN queue[n] : n \in Node})

TypeOK == /\ queue \in [Node -> Seq(Cmd)]
          /\ tries \in [Node -> 0..MaxErrors]
          /\ acked \in [Node -> BOOLEAN]
          /\ \A n \in Node : Len(queue[n]) <= QueueLen
          /\ Held <= PoolSize

Init == /\ queue = [n \in Node |-> <<>>]
        /\ tries = [n \in Node |-> 0]
        /\ acked = [n \in Node |-> FALSE]

Accept(n, c) ==
  /\ Len(queue[n]) < QueueLen
  /\ Held < PoolSize
  /\ queue' = [queue EXCEPT ![n] = Append(@, c)]
  /\ UNCHANGED <<tries, acked>>

Trying(n) == queue[n] # <<>> /\ ~acked[n] /\ tries[n] < MaxErrors

Acknowledge(n) ==
  /\ Trying(n)
  /\ acked' = [acked EXCEPT ![n] = TRUE]
  /\ UNCHANGED <<queue, tries>>

Fail(n) ==
  /\ Trying(n)
  /\ tries' = [tries EXCEPT ![n] = @ + 1]
  /\ UNCHANGED <<queue, acked>>

(* Only an acknowledged or a given-up command leaves. *)
Leave(n) ==
  /\ queue[n] # <<>>
  /\ acked[n] \/ tries[n] = MaxErrors
  /\ queue' = [queue EXCEPT ![n] = Tail(@)]
  /\ tries' = [tries EXCEPT ![n] = 0]
  /\ acked' = [acked EXCEPT ![n] = FALSE]

Next == \E n \in Node : \/ \E c \in Cmd : Accept(n, c)
                        \/ Acknowledge(n)
                        \/ Fail(n)
                        \/ Leave(n)

(* Some command of every non-empty row keeps being tried.                  *)
Fairness == \A n \in Node : WF_vars(Acknowledge(n) \/ Fail(n) \/ Leave(n))

Spec == Init /\ [][Next]_vars /\ Fairness

=============================================================================
