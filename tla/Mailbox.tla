------------------------------- MODULE Mailbox -------------------------------
(****************************************************************************)
(* What the deferral of packets promises the readers: every receiver of     *)
(* every writer is a mailbox of one place.  A command submitted to it takes *)
(* the place of the one before; whatever is delivered is the newest command *)
(* at that moment, and a command that is not waiting has been delivered.    *)
(* A command may be delivered more than once: a stop is written twice, and  *)
(* a motion is repeated to a receiver that would drop it too early.         *)
(****************************************************************************)
CONSTANTS Boxes,      \* the mailboxes
          Commands,   \* what can be submitted
          NoCommand   \* the content of a mailbox nothing was submitted to

VARIABLES newest,     \* newest[b]: the last command submitted to b
          delivered,  \* delivered[b]: the last command delivered from b
          waiting     \* the mailboxes whose newest command is to be delivered

vars == <<newest, delivered, waiting>>

Init == /\ newest = [b \in Boxes |-> NoCommand]
        /\ delivered = [b \in Boxes |-> NoCommand]
        /\ waiting = {}

\* Some command becomes the newest of box b.
Submit(b) == /\ newest'[b] \in Commands
             /\ newest' = [newest EXCEPT ![b] = newest'[b]]

\* It is put in the box, to be delivered later.
Keep(b) == /\ Submit(b)
           /\ waiting' = waiting \cup {b}
           /\ UNCHANGED delivered

\* It is delivered as it arrives, once or to be repeated.
Pass(b) == /\ Submit(b)
           /\ delivered' = [delivered EXCEPT ![b] = newest'[b]]
           /\ waiting' \in {waiting \cup {b}, waiting \ {b}}

\* A waiting command is delivered, once or to be repeated.
Deliver(b) == /\ b \in waiting
              /\ delivered' = [delivered EXCEPT ![b] = newest[b]]
              /\ waiting' \in {waiting, waiting \ {b}}
              /\ UNCHANGED newest

Next == \E b \in Boxes : Keep(b) \/ Pass(b) \/ Deliver(b)

Spec == Init /\ [][Next]_vars
==============================================================================
