---------------------------- MODULE TornadoQueue ----------------------------
(***************************************************************************)
(* The connection of the Tornado process to RabbitMQ: TornadoQueueClient   *)
(* of zerver/lib/queue.py, which publishes notices for the workers and     *)
(* consumes notify_tornado, while the connection comes and goes.           *)
(*                                                                         *)
(* A callback of pika or of a timer is one action.  What is written to the *)
(* connection is a sequence of commands that the broker takes in order,    *)
(* and that is lost with the connection; publications are not confirmed.   *)
(* A body is one call of json_publish, a copy is one time the broker got   *)
(* it.                                                                     *)
(***************************************************************************)
EXTENDS Integers, Sequences, SequencesExt, FiniteSets

CONSTANTS
    Bodies,         \* what is published
    QueueNames,
    QueueOf,        \* body -> the queue it is published to
    Consumed,       \* the queues with a consumer: keys of self.consumers
    NoBody,         \* in commands without a body
    MaxFailures     \* bound: failures of the connection and the process

ASSUME QueueOfAssumption == QueueOf \in [Bodies -> QueueNames]
ASSUME ConsumedAssumption == Consumed \subseteq QueueNames /\ IsFiniteSet(Consumed)
ASSUME NoBodyAssumption == NoBody \notin Bodies
ASSUME MaxFailuresAssumption == MaxFailures \in Nat

VARIABLES
    (* The client.                                                         *)
    connection,     \* "connecting", "open", "ready", "closed"
    channel,        \* self.channel is not None
    queues,         \* self.queues: those declared
    on_open_cbs,    \* self._on_open_cbs
    (* The connection.                                                     *)
    declaring,      \* commands whose queue_declare is not yet confirmed
    wire,           \* commands on their way to the broker
    (* The broker.                                                         *)
    consuming,      \* the queues with a basic_consume on this channel
    stored,         \* copies in the queues
    unacked,        \* copies processed, whose ack is on its way
    (* History.                                                            *)
    accepted,       \* bodies for which json_publish returned, or Django's
    deferred,       \* those that went to on_open_cbs
    dropped,        \* those a failure met in declaring, wire or memory
    received,       \* body -> number of copies the broker got
    processed,      \* copies that the consumer's callback has processed
    failures

clientVars == <<connection, channel, queues, on_open_cbs>>
brokerVars == <<consuming, stored, unacked>>
historyVars == <<accepted, deferred, dropped, received, processed>>
vars == <<clientVars, declaring, wire, brokerVars, historyVars, failures>>

Copy == Bodies \X (Nat \ {0})
Command ==
    [op : {"publish"}, queue : QueueNames, body : Bodies]
    \cup [op : {"consume"}, queue : QueueNames, body : {NoBody}]
    \cup [op : {"ack"}, queue : QueueNames, body : Copy]

Publication(b) == [op |-> "publish", queue |-> QueueOf[b], body |-> b]
Ack(copy) == [op |-> "ack", queue |-> QueueOf[copy[1]], body |-> copy]

(* Every copy that is processed but not yet acknowledged has its ack on    *)
(* this connection.                                                        *)
TypeOK ==
    /\ connection \in {"connecting", "open", "ready", "closed"}
    /\ channel \in BOOLEAN
    /\ queues \in SUBSET QueueNames
    /\ on_open_cbs \in Seq(Command)
    /\ declaring \in Seq(Command)
    /\ wire \in Seq(Command)
    /\ consuming \in SUBSET QueueNames
    /\ stored \in SUBSET Copy
    /\ unacked \in SUBSET stored /\ \A copy \in unacked : Ack(copy) \in Range(wire)
    /\ accepted \in SUBSET Bodies
    /\ deferred \in SUBSET accepted /\ dropped \in SUBSET accepted
    /\ received \in [Bodies -> Nat]
    /\ processed \in SUBSET Copy
    /\ failures \in 0 .. MaxFailures

Init ==
    /\ connection = "connecting" /\ channel = FALSE
    /\ queues = {} /\ on_open_cbs = <<>>
    /\ declaring = <<>> /\ wire = <<>>
    /\ consuming = {} /\ stored = {} /\ unacked = {}
    /\ accepted = {} /\ deferred = {} /\ dropped = {}
    /\ received = [b \in Bodies |-> 0] /\ processed = {}
    /\ failures = 0

Failure == failures < MaxFailures /\ failures' = failures + 1

-----------------------------------------------------------------------------
(* Publishing                                                              *)

(* ensure_queue with this command as its callback; it raises an exception  *)
(* (the guards are false) while the channel is that of a lost connection.  *)
Defers(c) == c.queue \notin queues /\ ~channel
Declares(c) == c.queue \notin queues /\ channel /\ connection = "ready"
Sends(c) == c.queue \in queues /\ connection = "ready"

(* Mutant: a command that declares its queue is deferred as well.          *)
ensure_queue_twice(c) ==
    \/ /\ Defers(c) \/ Declares(c)
       /\ on_open_cbs' = Append(on_open_cbs, c)
       /\ declaring' = IF Declares(c) THEN Append(declaring, c) ELSE declaring
       /\ UNCHANGED wire
    \/ /\ Sends(c)
       /\ wire' = Append(wire, c)
       /\ UNCHANGED <<on_open_cbs, declaring>>

ensure_queue(c) ==
    \/ /\ Defers(c)
       /\ on_open_cbs' = Append(on_open_cbs, c)
       /\ UNCHANGED <<declaring, wire>>
    \/ /\ Declares(c)
       /\ declaring' = Append(declaring, c)
       /\ UNCHANGED <<on_open_cbs, wire>>
    \/ /\ Sends(c)
       /\ wire' = Append(wire, c)
       /\ UNCHANGED <<on_open_cbs, declaring>>

(* json_publish, for a notice to a worker or a notice that is tried again. *)
json_publish ==
    \E b \in Bodies \ accepted :
        /\ ensure_queue(Publication(b))
        /\ accepted' = accepted \cup {b}
        /\ deferred' = IF Defers(Publication(b)) THEN deferred \cup {b} ELSE deferred
        /\ UNCHANGED <<connection, channel, queues, brokerVars, dropped,
                       received, processed, failures>>

(* The broker gets one more copy.                                          *)
Store(b) ==
    /\ received' = [received EXCEPT ![b] = @ + 1]
    /\ stored' = stored \cup {<<b, received[b] + 1>>}

(* A notice of Django, by its own connection.                              *)
DjangoPublishes ==
    \E b \in Bodies \ accepted :
        /\ QueueOf[b] \in Consumed
        /\ accepted' = accepted \cup {b}
        /\ Store(b)
        /\ UNCHANGED <<clientVars, declaring, wire, consuming, unacked,
                       deferred, dropped, processed, failures>>

-----------------------------------------------------------------------------
(* The connection                                                          *)

(* _on_open: asks for a channel.                                           *)
OnOpen ==
    /\ connection = "connecting" /\ connection' = "open"
    /\ UNCHANGED <<channel, queues, on_open_cbs, declaring, wire, brokerVars,
                   historyVars, failures>>

(* _reconnect_consumer_callbacks                                           *)
Consumer(q) == [op |-> "consume", queue |-> q, body |-> NoBody]
ConsumerCallbacks == SetToSeq({Consumer(q) : q \in Consumed})

(* Mutant: what was deferred is forgotten.                                 *)
ChannelCallbacks_noDeferred == ConsumerCallbacks

(* Mutant: the consumers are not registered on the new channel.            *)
ChannelCallbacks_noConsumers == on_open_cbs

ChannelCallbacks == on_open_cbs \o ConsumerCallbacks

(* The callbacks that ensure_queue lets declare their queue, and those it  *)
(* calls at once: none while no queue is declared.                         *)
ToDeclare(callbacks) ==
    IF queues = {} THEN callbacks
    ELSE SelectSeq(callbacks, LAMBDA c : c.queue \notin queues)
ToCall(callbacks) ==
    IF queues = {} THEN <<>>
    ELSE SelectSeq(callbacks, LAMBDA c : c.queue \in queues)

(* _on_channel_open: calls every callback that was ever deferred.          *)
OnChannelOpen ==
    /\ connection = "open" /\ connection' = "ready"
    /\ channel' = TRUE
    /\ declaring' = declaring \o ToDeclare(ChannelCallbacks)
    /\ wire' = wire \o ToCall(ChannelCallbacks)
    /\ UNCHANGED <<queues, on_open_cbs, brokerVars, historyVars, failures>>

(* finish() of ensure_queue, when the broker has confirmed queue_declare.  *)
DeclareOk ==
    /\ declaring # <<>>
    /\ queues' = queues \cup {Head(declaring).queue}
    /\ declaring' = Tail(declaring)
    /\ wire' = Append(wire, Head(declaring))
    /\ UNCHANGED <<connection, channel, on_open_cbs, brokerVars, historyVars, failures>>

(* Bodies whose only copy is lost with what is under way.                  *)
UnderWay == {c.body : c \in {d \in Range(declaring \o wire) : d.op = "publish"}}

(* Mutant: what waits for its ack is not delivered again.                  *)
Disconnect_keepsUnacked ==
    /\ declaring' = <<>> /\ wire' = <<>>
    /\ consuming' = {}
    /\ UNCHANGED <<stored, unacked, accepted, deferred, received, processed>>

(* The connection is gone, and with it everything that was under way; what *)
(* was not acknowledged is back in its queue.                              *)
Disconnect ==
    /\ declaring' = <<>> /\ wire' = <<>>
    /\ consuming' = {} /\ unacked' = {}
    /\ UNCHANGED <<stored, accepted, deferred, received, processed>>

(* _on_connection_closed; _reconnect follows in CONNECTION_RETRY_SECS.     *)
OnConnectionClosed ==
    /\ connection \in {"open", "ready"} /\ connection' = "closed"
    /\ Failure
    /\ Disconnect
    /\ dropped' = dropped \cup (UnderWay \ {c.body : c \in Range(on_open_cbs)})
    /\ UNCHANGED <<channel, queues, on_open_cbs>>

(* _on_connection_open_error                                               *)
OnConnectionOpenError ==
    /\ connection = "connecting" /\ connection' = "closed"
    /\ Failure
    /\ UNCHANGED <<channel, queues, on_open_cbs, declaring, wire, brokerVars, historyVars>>

(* Mutant: the queues declared on the old connection are still known.      *)
Forgotten_keepsQueues == queues

(* What _reconnect leaves in self.queues.                                  *)
Forgotten == {}

(* _reconnect, called by the timer.                                        *)
Reconnect ==
    /\ connection = "closed" /\ connection' = "connecting"
    /\ channel' = FALSE
    /\ queues' = Forgotten
    /\ UNCHANGED <<on_open_cbs, declaring, wire, brokerVars, historyVars, failures>>

(* The Tornado process ends and starts again.                              *)
Restart ==
    /\ Failure
    /\ connection' = "connecting" /\ channel' = FALSE
    /\ queues' = {} /\ on_open_cbs' = <<>>
    /\ Disconnect
    /\ dropped' = dropped \cup UnderWay \cup {c.body : c \in Range(on_open_cbs)}

-----------------------------------------------------------------------------
(* The broker                                                              *)

(* It takes the next command of the connection.                            *)
BrokerReceives ==
    /\ wire # <<>>
    /\ wire' = Tail(wire)
    /\ LET c == Head(wire)
       IN  CASE c.op = "publish" ->
                  Store(c.body) /\ UNCHANGED <<consuming, unacked>>
             [] c.op = "consume" ->
                  /\ consuming' = consuming \cup {c.queue}
                  /\ UNCHANGED <<stored, unacked, received>>
             [] c.op = "ack" ->
                  /\ stored' = stored \ {c.body} /\ unacked' = unacked \ {c.body}
                  /\ UNCHANGED <<consuming, received>>
    /\ UNCHANGED <<clientVars, declaring, accepted, deferred, dropped, processed, failures>>

(* wrapped_consumer: the callback, then basic_ack.                         *)
Consume ==
    \E copy \in stored \ unacked :
        /\ QueueOf[copy[1]] \in consuming
        /\ unacked' = unacked \cup {copy}
        /\ processed' = processed \cup {copy}
        /\ wire' = Append(wire, Ack(copy))
        /\ UNCHANGED <<clientVars, declaring, consuming, stored, accepted,
                       deferred, dropped, received, failures>>

-----------------------------------------------------------------------------
Next ==
    \/ json_publish \/ DjangoPublishes
    \/ OnOpen \/ OnChannelOpen \/ DeclareOk
    \/ OnConnectionClosed \/ OnConnectionOpenError \/ Reconnect \/ Restart
    \/ BrokerReceives \/ Consume

Spec == Init /\ [][Next]_vars

(* The broker is there whenever nothing fails: connections open, and take  *)
(* their commands; the timer of _reconnect fires.                          *)
Fairness ==
    /\ WF_vars(OnOpen) /\ WF_vars(OnChannelOpen) /\ WF_vars(DeclareOk)
    /\ WF_vars(Reconnect)
    /\ WF_vars(BrokerReceives) /\ WF_vars(Consume)

FairSpec == Spec /\ Fairness

-----------------------------------------------------------------------------
(* The assertions of ensure_queue and finish that self.channel is not      *)
(* None: a queue is known as declared, or being declared, only next to a   *)
(* channel, through any sequence of failures and reconnections.            *)
AssertionsHold == queues # {} \/ declaring # <<>> => channel

(* On a channel that is open, every consumer is registered or about to be, *)
(* exactly once: after a reconnection Tornado goes on receiving notices.   *)
NeverDeaf ==
    connection = "ready" =>
        \A q \in Consumed :
            LET commands == declaring \o wire
                registering == {i \in DOMAIN commands : commands[i] = Consumer(q)}
            IN  Cardinality(registering) = IF q \in consuming THEN 0 ELSE 1

(* A message is published more than once only if it had to wait for the    *)
(* first channel, and never more often than there are failures after it.   *)
OnlyDeferredRepeat ==
    \A b \in Bodies : received[b] > 1 => b \in deferred /\ received[b] <= failures + 1

(* What json_publish accepted reaches the broker, unless the connection is *)
(* lost while it is under way, or the process ends while it is deferred.   *)
EventuallyReceived ==
    \A b \in Bodies : b \in accepted ~> received[b] > 0 \/ b \in dropped

(* Every copy in a queue that Tornado consumes is processed.               *)
EventuallyProcessed ==
    \A b \in Bodies : QueueOf[b] \in Consumed =>
        (received[b] > 0 ~> \E copy \in processed : copy[1] = b)
=============================================================================
