---------------------------- MODULE ReliableFifo ----------------------------
(***************************************************************************)
(* What the Listener and the network between it and the server are         *)
(* together meant to be: a queue that hands every mail over once, in the   *)
(* order of the calls of sendMail.  It may stop handing mails over (the    *)
(* client gives up, or the network is gone) but never skips one.           *)
(***************************************************************************)
EXTENDS Sequences

CONSTANT Item

VARIABLES
    queue,        \* sent and not yet delivered, the oldest first
    delivered     \* delivered, in the order of delivery

Init == queue = <<>> /\ delivered = <<>>

Send(m) == queue' = Append(queue, m) /\ UNCHANGED delivered

Deliver ==
    /\ queue # <<>>
    /\ delivered' = Append(delivered, Head(queue))
    /\ queue' = Tail(queue)

Next == Deliver \/ \E m \in Item : Send(m)

Spec == Init /\ [][Next]_<<queue, delivered>>
=============================================================================
