------------------------------ MODULE Channel ------------------------------
(***************************************************************************)
(* The bounded asynchronous channel (runtime/src/async_runtime/             *)
(* concurrent.rs): a pair that is split into endpoints, senders that are    *)
(* cloned and dropped, and send and receive futures that outlive the        *)
(* endpoints they were started from.  Every entry point runs under the      *)
(* channel's mutex.  A payload is owned by whatever holds it; it is moved   *)
(* from place to place and dropped by the place it is in.                   *)
(***************************************************************************)
EXTENDS Naturals, Sequences, FiniteSets, SequencesExt

CONSTANTS
    Payloads,     \* each is sent at most once, by a future named after it
    Receives,     \* slots for a receive future and the value it yields
    Capacity,
    MaxSenders,   \* bound on the sender handles alive at once
    None, Error

ASSUME CapacityAssumption == Capacity \in Nat \ {0}

VARIABLES
    queue, senderCount, receiverAlive, closed,
    pair,       \* the endpoints the pair still holds
    senders,    \* the number of sender handles
    receiver,   \* the receiver handle exists
    send,       \* "unsent", "pending", "sent", "failed" or "gone", per payload
    inSend,     \* payloads in the value field of their send future
    recv,       \* "none", "pending", "ready" or "value" (handle), per slot
    got,        \* the payload or error in the slot
    drops,      \* how often a payload was dropped
    moved,      \* payloads moved to their receivers' output
    accepted, popped   \* payloads in the order they entered and left the queue

channelVars == <<queue, senderCount, receiverAlive, closed>>
endpointVars == <<pair, senders, receiver>>
sendVars == <<send, inSend>>
recvVars == <<recv, got>>
history == <<accepted, popped>>
vars == <<channelVars, endpointVars, sendVars, recvVars, drops, moved, history>>

Init ==
    /\ queue = <<>> /\ senderCount = 1 /\ receiverAlive = TRUE /\ closed = FALSE
    /\ pair = {"sender", "receiver"} /\ senders = 0 /\ receiver = FALSE
    /\ send = [p \in Payloads |-> "unsent"] /\ inSend = {}
    /\ recv = [r \in Receives |-> "none"] /\ got = [r \in Receives |-> None]
    /\ drops = [p \in Payloads |-> 0] /\ moved = <<>>
    /\ accepted = <<>> /\ popped = <<>>

-----------------------------------------------------------------------------
\* Endpoints.

PairSender ==
    /\ "sender" \in pair
    /\ pair' = pair \ {"sender"}
    /\ senders' = senders + 1
    /\ UNCHANGED <<channelVars, receiver, sendVars, recvVars, drops, moved, history>>

PairReceiver ==
    /\ "receiver" \in pair
    /\ pair' = pair \ {"receiver"}
    /\ receiver' = TRUE
    /\ UNCHANGED <<channelVars, senders, sendVars, recvVars, drops, moved, history>>

\* Faulty variant: the clone is not counted.
BadCloned == senderCount

Cloned == senderCount + 1

SenderClone ==
    /\ senders \in 1..(MaxSenders - 1)
    /\ senders' = senders + 1
    /\ senderCount' = Cloned
    /\ UNCHANGED <<queue, receiverAlive, closed, pair, receiver, sendVars, recvVars, drops,
                   moved, history>>

\* Faulty variant: closed is left for the receiver to find out.
BadDropSender ==
    /\ senderCount' = IF senderCount = 0 THEN 0 ELSE senderCount - 1
    /\ UNCHANGED closed

\* channel_drop_sender; the last sender closes the channel.
DropSender ==
    /\ senderCount' = IF senderCount = 0 THEN 0 ELSE senderCount - 1
    /\ closed' = (closed \/ senderCount' = 0)

\* Faulty variant: the queue is forgotten, not cleared.
BadDropReceiver ==
    /\ receiverAlive' = FALSE
    /\ queue' = <<>>
    /\ UNCHANGED drops

\* channel_drop_receiver; the payloads in the queue are dropped with it.
DropReceiver ==
    /\ receiverAlive' = FALSE
    /\ queue' = IF receiverAlive THEN <<>> ELSE queue
    /\ drops' = [p \in Payloads |->
                    IF receiverAlive /\ Contains(queue, p) THEN drops[p] + 1 ELSE drops[p]]

SenderClose ==
    /\ senders > 0
    /\ senders' = senders - 1
    /\ DropSender
    /\ UNCHANGED <<queue, receiverAlive, pair, receiver, sendVars, recvVars, drops, moved,
                   history>>

ReceiverDrop ==
    /\ receiver
    /\ receiver' = FALSE
    /\ DropReceiver
    /\ UNCHANGED <<senderCount, closed, pair, senders, sendVars, recvVars, moved, history>>

\* The endpoints that were not taken out go with the pair.
PairFree ==
    /\ pair # {}
    /\ pair' = {}
    /\ IF "sender" \in pair THEN DropSender ELSE UNCHANGED <<senderCount, closed>>
    /\ IF "receiver" \in pair THEN DropReceiver ELSE UNCHANGED <<receiverAlive, queue, drops>>
    /\ UNCHANGED <<senders, receiver, sendVars, recvVars, moved, history>>

-----------------------------------------------------------------------------
\* Sending.

SendStart(p) ==
    /\ senders > 0 /\ send[p] = "unsent"
    /\ send' = [send EXCEPT ![p] = "pending"]
    /\ inSend' = inSend \cup {p}
    /\ UNCHANGED <<channelVars, endpointVars, recvVars, drops, moved, history>>

\* start takes the payload even if it fails, here for want of a sender handle.
SendStartFails(p) ==
    /\ senders = 0 /\ send[p] = "unsent"
    /\ send' = [send EXCEPT ![p] = "gone"]
    /\ drops' = [drops EXCEPT ![p] = @ + 1]
    /\ UNCHANGED <<channelVars, endpointVars, inSend, recvVars, moved, history>>

\* Faulty variant: only closing the senders' side stops a send.
BadDisconnected == closed

Disconnected == closed \/ ~receiverAlive

\* The payload stays in the future until that is consumed.
SendPollFails(p) ==
    /\ send[p] = "pending" /\ Disconnected
    /\ send' = [send EXCEPT ![p] = "failed"]
    /\ UNCHANGED <<channelVars, endpointVars, inSend, recvVars, drops, moved, history>>

\* Faulty variant: one payload too many.
BadHasRoom == Len(queue) <= Capacity

HasRoom == Len(queue) < Capacity

SendPollQueues(p) ==
    /\ send[p] = "pending" /\ ~Disconnected /\ HasRoom
    /\ queue' = Append(queue, p)
    /\ inSend' = inSend \ {p}
    /\ send' = [send EXCEPT ![p] = "sent"]
    /\ accepted' = Append(accepted, p)
    /\ UNCHANGED <<senderCount, receiverAlive, closed, endpointVars, recvVars, drops, moved,
                   popped>>

\* result, cancel and drop all free the future, and with it a payload not sent.
SendConsume(p) ==
    /\ send[p] \in {"pending", "sent", "failed"}
    /\ send' = [send EXCEPT ![p] = "gone"]
    /\ inSend' = inSend \ {p}
    /\ drops' = [drops EXCEPT ![p] = IF p \in inSend THEN @ + 1 ELSE @]
    /\ UNCHANGED <<channelVars, endpointVars, recvVars, moved, history>>

-----------------------------------------------------------------------------
\* Receiving.

RecvStart(r) ==
    /\ receiver /\ recv[r] = "none"
    /\ recv' = [recv EXCEPT ![r] = "pending"]
    /\ UNCHANGED <<channelVars, endpointVars, sendVars, got, drops, moved, history>>

\* Faulty variant: the newest payload first.
BadPop == /\ popped' = Append(popped, Last(queue))
          /\ queue' = Front(queue)

Pop == /\ popped' = Append(popped, Head(queue))
       /\ queue' = Tail(queue)

\* What is queued is received even after the channel is closed.
RecvPollPops(r) ==
    /\ recv[r] = "pending" /\ queue # <<>>
    /\ Pop
    /\ got' = [got EXCEPT ![r] = Last(popped')]
    /\ recv' = [recv EXCEPT ![r] = "ready"]
    /\ UNCHANGED <<senderCount, receiverAlive, closed, endpointVars, sendVars, drops, moved,
                   accepted>>

RecvPollClosed(r) ==
    /\ recv[r] = "pending" /\ queue = <<>> /\ closed
    /\ got' = [got EXCEPT ![r] = Error]
    /\ recv' = [recv EXCEPT ![r] = "ready"]
    /\ UNCHANGED <<channelVars, endpointVars, sendVars, drops, moved, history>>

\* A payload comes out of result in a value handle.
RecvResult(r) ==
    /\ recv[r] \in {"pending", "ready"}
    /\ recv' = [recv EXCEPT ![r] = IF got[r] \in Payloads THEN "value" ELSE "none"]
    /\ got' = [got EXCEPT ![r] = IF got[r] \in Payloads THEN @ ELSE None]
    /\ UNCHANGED <<channelVars, endpointVars, sendVars, drops, moved, history>>

DropGot(r) ==
    /\ recv' = [recv EXCEPT ![r] = "none"]
    /\ got' = [got EXCEPT ![r] = None]
    /\ drops' = [p \in Payloads |-> IF got[r] = p THEN drops[p] + 1 ELSE drops[p]]
    /\ UNCHANGED <<channelVars, endpointVars, sendVars, moved, history>>

\* cancel and drop of a receive, which may already have its payload.
RecvAbandon(r) == recv[r] \in {"pending", "ready"} /\ DropGot(r)

ValueDrop(r) == recv[r] = "value" /\ DropGot(r)

ValueMoveInto(r) ==
    /\ recv[r] = "value"
    /\ moved' = Append(moved, got[r])
    /\ recv' = [recv EXCEPT ![r] = "none"]
    /\ got' = [got EXCEPT ![r] = None]
    /\ UNCHANGED <<channelVars, endpointVars, sendVars, drops, history>>

SendPoll(p) == SendPollFails(p) \/ SendPollQueues(p)
RecvPoll(r) == RecvPollPops(r) \/ RecvPollClosed(r)

Next ==
    \/ PairSender \/ PairReceiver \/ PairFree
    \/ SenderClone \/ SenderClose \/ ReceiverDrop
    \/ \E p \in Payloads : SendStart(p) \/ SendStartFails(p) \/ SendPoll(p) \/ SendConsume(p)
    \/ \E r \in Receives :
        \/ RecvStart(r) \/ RecvPoll(r) \/ RecvResult(r) \/ RecvAbandon(r)
        \/ ValueDrop(r) \/ ValueMoveInto(r)

Spec == Init /\ [][Next]_vars

\* Pending futures ask to be polled again at once.
FairSpec ==
    /\ Spec
    /\ \A p \in Payloads : WF_vars(SendPoll(p))
    /\ \A r \in Receives : WF_vars(RecvPoll(r))

-----------------------------------------------------------------------------
TypeOK ==
    /\ queue \in Seq(Payloads) /\ Len(queue) <= Capacity
    /\ senderCount \in Nat /\ receiverAlive \in BOOLEAN /\ closed \in BOOLEAN
    /\ pair \subseteq {"sender", "receiver"}
    /\ senders \in 0..MaxSenders /\ receiver \in BOOLEAN
    /\ send \in [Payloads -> {"unsent", "pending", "sent", "failed", "gone"}]
    /\ inSend \subseteq Payloads
    /\ recv \in [Receives -> {"none", "pending", "ready", "value"}]
    /\ got \in [Receives -> Payloads \cup {None, Error}]
    /\ drops \in [Payloads -> Nat] /\ moved \in Seq(Payloads)
    /\ accepted \in Seq(Payloads) /\ popped \in Seq(Payloads)

Occurrences(s, p) == Cardinality({i \in DOMAIN s : s[i] = p})

\* How many owners payload p has, or had when it was moved out or dropped.
Owners(p) ==
    Cardinality({r \in Receives : got[r] = p}) + Occurrences(queue, p)
    + Occurrences(moved, p) + drops[p] + (IF p \in inSend THEN 1 ELSE 0)

\* Exact payload ownership: through sends that fail, sends and receives that
\* are canceled, values that are abandoned and endpoints that are dropped in
\* any order, a payload is in one place, or was moved out or dropped once.
ExactOwnership == \A p \in Payloads : Owners(p) = IF send[p] = "unsent" THEN 0 ELSE 1

\* While the receiving end exists, what senders were told was sent is handed to
\* receives in that order, each payload to one of them, or still queued; the
\* queue of a dropped receiver stays empty.  A receive that is abandoned after
\* the poll that popped its payload drops it: handed out is not received.
HandedOutInOrder ==
    /\ IsPrefix(popped, accepted)
    /\ IF receiverAlive THEN popped \o queue = accepted ELSE queue = <<>>

\* What the design says of cancellation, which is to lose no value: a payload
\* its sender was told was sent is dropped only with the receiving end, or by
\* the owner of the value handle that a receive's result has given out.
CancelLosesNothing ==
    [][\A p \in Payloads :
          Contains(accepted, p) /\ drops'[p] > drops[p] =>
              ~receiverAlive' \/ \E r \in Receives : recv[r] = "value" /\ got[r] = p]_vars

\* sender_count is the number of sending endpoints, wherever they are, and
\* the channel is closed exactly when there is none.
SendersCounted ==
    /\ senderCount = senders + (IF "sender" \in pair THEN 1 ELSE 0)
    /\ closed = (senderCount = 0)
    /\ receiverAlive = (receiver \/ "receiver" \in pair)

\* When the last sender goes, pending receives return.
CloseWakesReceivers ==
    \A r \in Receives : (senderCount = 0 /\ recv[r] = "pending") ~> recv[r] # "pending"

\* When the receiver goes, pending sends return.
DropWakesSenders == \A p \in Payloads : (~receiverAlive /\ send[p] = "pending") ~> send[p] # "pending"

=============================================================================
