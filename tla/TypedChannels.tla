--------------------------- MODULE TypedChannels ---------------------------
(* What a message queue promises: per queue and type a FIFO channel. *)
EXTENDS Sequences

CONSTANTS Queue, Type, Text

VARIABLE chan

Init == chan = [q \in Queue |-> [t \in Type |-> << >>]]

Send(q, t) == \E x \in Text : chan' = [chan EXCEPT ![q][t] = Append(@, x)]

Receive(q, t) == chan[q][t] # << >> /\ chan' = [chan EXCEPT ![q][t] = Tail(@)]

Remove(q) == chan' = [chan EXCEPT ![q] = [t \in Type |-> << >>]]

Next == \E q \in Queue : Remove(q) \/ \E t \in Type : Send(q, t) \/ Receive(q, t)

Spec == Init /\ [][Next]_chan
=============================================================================
