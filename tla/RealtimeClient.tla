--------------------------- MODULE RealtimeClient ---------------------------
(***************************************************************************)
(* TychoWsClientImpl::realtime_messages (tycho-client/src/lib.rs): the     *)
(* spawned task that connects to the Tycho websocket, sends one Subscribe  *)
(* for the default extractor and then handles inbound frames in order,     *)
(* forwarding BlockAccountChanges into a bounded mpsc channel read by the  *)
(* consumer.  Three actors: the task, the consumer holding the Receiver,   *)
(* and the server at the other end of the socket (which follows the        *)
(* protocol: it acknowledges a Subscribe with NewSubscription, pushes data *)
(* only while a subscription is live, and ends only live subscriptions).  *)
(* A panic of the task unwinds it and drops the Sender, as a return does. *)
(***************************************************************************)
EXTENDS Integers, Sequences, SequencesExt

CONSTANTS
  Capacity,    \* mpsc::channel(30): the channel's buffer
  MaxData,     \* number of BlockAccountChanges the server pushes at most
  MaxPings,    \* number of Pings the server sends at most
  MaxOthers,   \* number of undecodable or ignored frames it sends at most
  Sids,        \* subscription ids the server hands out (model values)
  Ext,         \* ExtractorIdentity(Ethereum, "vm:ambient"), the default
  NoMsg        \* no message pending

ASSUME Capacity \in Nat \ {0}

VARIABLES
  task,       \* where the spawned task is
  pending,    \* the BlockAccountChanges a blocked tx.send holds
  active,     \* active_extractors: subscription id -> extractor
  queue,      \* the channel's buffer
  rxOpen,     \* the consumer still holds the Receiver
  consumed,   \* what the consumer's recv returned, in order (history)
  toClient,   \* frames in flight from the server, in order
  toServer,   \* frames in flight to the server, in order
  srv,        \* the server: its live subscriptions and counters
  sentData    \* the BlockAccountChanges the server sent, in order (history)

vars == <<task, pending, active, queue, rxOpen, consumed, toClient, toServer,
          srv, sentData>>

TaskStates == {"connecting", "subscribing", "receiving", "sending",
               "exited", "panicked"}

Data == 1..MaxData

Frame ==
  [type: {"data"}, n: Data] \cup
  [type: {"newsub"}, sid: Sids, ext: {Ext}] \cup
  [type: {"ended"}, sid: Sids] \cup
  [type: {"ping", "close", "garbage", "noise"}]

\* Outbound frames: Command::Subscribe and Pong.
OutFrame == [type: {"subscribe"}, ext: {Ext}] \cup [type: {"pong"}]

\* The Sender is alive while the task has neither returned nor panicked.
TxOpen == task \notin {"exited", "panicked"}

DataIn(fs) == [i \in 1..Len(SelectSeq(fs, LAMBDA f : f.type = "data")) |->
                 SelectSeq(fs, LAMBDA f : f.type = "data")[i].n]

PendingSeq == IF pending = NoMsg THEN <<>> ELSE <<pending>>

-----------------------------------------------------------------------------
(* The task.                                                               *)

Init ==
  /\ task = "connecting"
  /\ pending = NoMsg
  /\ active = [s \in {} |-> Ext]
  /\ queue = <<>>
  /\ rxOpen = TRUE
  /\ consumed = <<>>
  /\ toClient = <<>>
  /\ toServer = <<>>
  /\ srv = [subs |-> {}, granted |-> {}, pings |-> 0, others |-> 0,
             state |-> "open"]
  /\ sentData = <<>>

\* connect_async(...).expect(...): a failed connect panics the task.
Connect ==
  /\ task = "connecting"
  /\ task' \in {"subscribing", "panicked"}
  /\ UNCHANGED <<pending, active, queue, rxOpen, consumed, toClient, toServer,
                 srv, sentData>>

\* The hard-coded Subscribe to the default extractor; a failed send is
\* only logged.  It can fail only once the server has dropped the socket.
SendSubscribe ==
  /\ task = "subscribing"
  /\ \/ toServer' = Append(toServer, [type |-> "subscribe", ext |-> Ext])
     \/ srv.state = "gone" /\ UNCHANGED toServer
  /\ task' = "receiving"
  /\ UNCHANGED <<pending, active, queue, rxOpen, consumed, toClient, srv,
                 sentData>>

\* Receive the next frame; its arm of the match runs in the same step.
Receiving(t) ==
  /\ task = "receiving"
  /\ toClient # <<>>
  /\ Head(toClient).type = t
  /\ toClient' = Tail(toClient)

\* Mutant: a send that never waits for room (an unbounded channel).
SendToChannelUnbounded(n) ==
  /\ rxOpen
  /\ queue' = Append(queue, n)
  /\ UNCHANGED <<task, pending>>

\* Mutant: try_send, dropping the message when the buffer is full.
SendToChannelDropWhenFull(n) ==
  \/ /\ rxOpen /\ Len(queue) < Capacity
     /\ queue' = Append(queue, n)
     /\ UNCHANGED <<task, pending>>
  \/ /\ rxOpen /\ Len(queue) = Capacity
     /\ UNCHANGED <<task, pending, queue>>
  \/ /\ ~rxOpen
     /\ task' = "panicked"
     /\ UNCHANGED <<queue, pending>>

\* tx.send(..).await: immediate when there is room, blocks when the buffer
\* is full, and fails (expect panics) once the Receiver is gone.
SendToChannel(n) ==
  \/ /\ rxOpen /\ Len(queue) < Capacity
     /\ queue' = Append(queue, n)
     /\ UNCHANGED <<task, pending>>
  \/ /\ rxOpen /\ Len(queue) = Capacity
     /\ task' = "sending" /\ pending' = n
     /\ UNCHANGED queue
  \/ /\ ~rxOpen
     /\ task' = "panicked"
     /\ UNCHANGED <<queue, pending>>

OnBlockAccountChanges ==
  /\ Receiving("data")
  /\ SendToChannel(Head(toClient).n)
  /\ UNCHANGED <<active, rxOpen, consumed, toServer, srv, sentData>>

\* Mutant: the resumed send forgets the message it was holding.
ResumeSendLoses ==
  /\ task = "sending"
  /\ \/ rxOpen /\ Len(queue) < Capacity /\ task' = "receiving"
     \/ ~rxOpen /\ task' = "panicked"
  /\ pending' = NoMsg
  /\ UNCHANGED <<queue, active, rxOpen, consumed, toClient, toServer, srv, sentData>>

\* The blocked tx.send resumes: room was made, or the Receiver was dropped.
ResumeSend ==
  /\ task = "sending"
  /\ \/ /\ rxOpen /\ Len(queue) < Capacity
        /\ queue' = Append(queue, pending)
        /\ task' = "receiving"
     \/ /\ ~rxOpen
        /\ task' = "panicked"
        /\ UNCHANGED queue
  /\ pending' = NoMsg
  /\ UNCHANGED <<active, rxOpen, consumed, toClient, toServer, srv, sentData>>

OnNewSubscription ==
  /\ Receiving("newsub")
  /\ LET f == Head(toClient)
     IN active' = [s \in DOMAIN active \cup {f.sid} |->
                     IF s = f.sid THEN f.ext ELSE active[s]]
  /\ UNCHANGED <<task, pending, queue, rxOpen, consumed, toServer, srv, sentData>>

\* Mutant: SubscriptionEnded logged but the entry left in place.
OnSubscriptionEndedKeeps ==
  /\ Receiving("ended")
  /\ UNCHANGED <<task, active, pending, queue, rxOpen, consumed, toServer, srv, sentData>>

\* remove(..).expect(..): ending an unknown subscription panics the task.
OnSubscriptionEnded ==
  /\ Receiving("ended")
  /\ LET sid == Head(toClient).sid
     IN IF sid \in DOMAIN active
        THEN /\ active' = [s \in DOMAIN active \ {sid} |-> active[s]]
             /\ UNCHANGED task
        ELSE /\ task' = "panicked"
             /\ UNCHANGED active
  /\ UNCHANGED <<pending, queue, rxOpen, consumed, toServer, srv, sentData>>

\* Answer a Ping; the unwrap panics when the socket is already gone.
OnPing ==
  /\ Receiving("ping")
  /\ IF srv.state = "gone"
     THEN task' = "panicked" /\ UNCHANGED toServer
     ELSE toServer' = Append(toServer, [type |-> "pong"]) /\ UNCHANGED task
  /\ UNCHANGED <<pending, active, queue, rxOpen, consumed, srv, sentData>>

\* Close: drop(tx) and return.
OnClose ==
  /\ Receiving("close")
  /\ task' = "exited"
  /\ UNCHANGED <<pending, active, queue, rxOpen, consumed, toServer, srv, sentData>>

\* A text frame that does not deserialize, a Pong, another message type or
\* a transport error: logged, and the loop goes on.
OnIgnored ==
  /\ \E t \in {"garbage", "noise"} : Receiving(t)
  /\ UNCHANGED <<task, pending, active, queue, rxOpen, consumed, toServer, srv,
                 sentData>>

\* The stream ends: the while-let loop exits and the task returns.
EndOfStream ==
  /\ task = "receiving"
  /\ toClient = <<>>
  /\ srv.state = "gone"
  /\ task' = "exited"
  /\ UNCHANGED <<pending, active, queue, rxOpen, consumed, toClient, toServer,
                 srv, sentData>>

TaskStep ==
  \/ Connect \/ SendSubscribe \/ OnBlockAccountChanges \/ ResumeSend
  \/ OnNewSubscription \/ OnSubscriptionEnded \/ OnPing \/ OnClose
  \/ OnIgnored \/ EndOfStream

-----------------------------------------------------------------------------
(* The consumer: recv() on the Receiver, or dropping it.                   *)

Recv ==
  /\ rxOpen
  /\ queue # <<>>
  /\ consumed' = Append(consumed, Head(queue))
  /\ queue' = Tail(queue)
  /\ UNCHANGED <<task, pending, active, rxOpen, toClient, toServer, srv, sentData>>

\* Dropping the Receiver discards what is buffered.
DropReceiver ==
  /\ rxOpen
  /\ rxOpen' = FALSE
  /\ queue' = <<>>
  /\ UNCHANGED <<task, pending, active, consumed, toClient, toServer, srv, sentData>>

-----------------------------------------------------------------------------
(* The server, following the protocol.                                     *)

ServerOpen == srv.state = "open"

Send(f) == toClient' = Append(toClient, f)

ServerReads ==
  /\ toServer # <<>>
  /\ toServer' = Tail(toServer)
  /\ IF Head(toServer).type = "subscribe" /\ ServerOpen /\ Sids \ srv.granted # {}
     THEN \E sid \in Sids \ srv.granted :
            /\ Send([type |-> "newsub", sid |-> sid, ext |-> Head(toServer).ext])
            /\ srv' = [srv EXCEPT !.subs = @ \cup {sid}, !.granted = @ \cup {sid}]
     ELSE UNCHANGED <<toClient, srv>>
  /\ UNCHANGED <<task, pending, active, queue, rxOpen, consumed, sentData>>

ServerPushes ==
  /\ ServerOpen
  /\ srv.subs # {}
  /\ Len(sentData) < MaxData
  /\ Send([type |-> "data", n |-> Len(sentData) + 1])
  /\ sentData' = Append(sentData, Len(sentData) + 1)
  /\ UNCHANGED <<task, pending, active, queue, rxOpen, consumed, toServer, srv>>

ServerEnds ==
  /\ ServerOpen
  /\ \E sid \in srv.subs :
       /\ Send([type |-> "ended", sid |-> sid])
       /\ srv' = [srv EXCEPT !.subs = @ \ {sid}]
  /\ UNCHANGED <<task, pending, active, queue, rxOpen, consumed, toServer, sentData>>

ServerPings ==
  /\ ServerOpen
  /\ srv.pings < MaxPings
  /\ Send([type |-> "ping"])
  /\ srv' = [srv EXCEPT !.pings = @ + 1]
  /\ UNCHANGED <<task, pending, active, queue, rxOpen, consumed, toServer, sentData>>

ServerSendsOther ==
  /\ ServerOpen
  /\ srv.others < MaxOthers
  /\ \E t \in {"garbage", "noise"} : Send([type |-> t])
  /\ srv' = [srv EXCEPT !.others = @ + 1]
  /\ UNCHANGED <<task, pending, active, queue, rxOpen, consumed, toServer, sentData>>

ServerCloses ==
  /\ ServerOpen
  /\ Send([type |-> "close"])
  /\ srv' = [srv EXCEPT !.state = "closed"]
  /\ UNCHANGED <<task, pending, active, queue, rxOpen, consumed, toServer, sentData>>

\* The server drops the TCP connection (after a Close or without one).
ServerDrops ==
  /\ srv.state # "gone"
  /\ srv' = [srv EXCEPT !.state = "gone"]
  /\ UNCHANGED <<task, pending, active, queue, rxOpen, consumed, toClient, toServer,
                 sentData>>

ServerStep ==
  \/ ServerReads \/ ServerPushes \/ ServerEnds \/ ServerPings
  \/ ServerSendsOther \/ ServerCloses \/ ServerDrops

Next == TaskStep \/ Recv \/ DropReceiver \/ ServerStep

\* The runtime polls the task whenever it can go on; the consumer loops on
\* recv() while it holds the Receiver; the server reads what it is sent.
\* The server is not obliged to push, ping or close.
Fairness ==
  /\ WF_vars(TaskStep)
  /\ WF_vars(Recv)
  /\ WF_vars(ServerReads)

Spec == Init /\ [][Next]_vars /\ Fairness

-----------------------------------------------------------------------------
TypeOK ==
  /\ task \in TaskStates
  /\ pending \in Data \cup {NoMsg}
  /\ DOMAIN active \subseteq Sids /\ \A s \in DOMAIN active : active[s] = Ext
  /\ queue \in Seq(Data) /\ Len(queue) <= Capacity
  /\ rxOpen \in BOOLEAN
  /\ consumed \in Seq(Data)
  /\ toClient \in Seq(Frame)
  /\ toServer \in Seq(OutFrame)
  /\ srv \in [subs: SUBSET Sids, granted: SUBSET Sids, pings: 0..MaxPings,
              others: 0..MaxOthers, state: {"open", "closed", "gone"}]
  /\ sentData \in Seq(Data)

\* Realtime ordering (spec 8.8): the consumer gets the server's
\* BlockAccountChanges in the order they were sent, without duplicates; and
\* while the session lives and the Receiver is held, none is lost: what was
\* consumed, what is buffered, what a blocked send holds and what is still
\* on the wire make up exactly what the server sent.
DeliveredInOrder ==
  LET held == consumed \o queue \o PendingSeq
  IN /\ IsPrefix(consumed, sentData)
     /\ rxOpen => IsPrefix(held, sentData)
     /\ TxOpen /\ rxOpen => held \o DataIn(toClient) = sentData

\* The client's active_extractors, updated by the Responses still on the
\* wire, is the server's set of live subscriptions.
ApplyResponses(ids, fs) ==
  FoldLeft(LAMBDA acc, f :
             IF f.type = "newsub" THEN acc \cup {f.sid}
             ELSE IF f.type = "ended" THEN acc \ {f.sid} ELSE acc,
           ids, fs)

SubscriptionsAgree ==
  task \in {"receiving", "sending"} =>
    ApplyResponses(DOMAIN active, toClient) = srv.subs

\* Every BlockAccountChanges the server sends reaches the consumer, unless
\* the session is torn down (the task panics) or the consumer drops the
\* Receiver: a Close or the end of the stream does not lose what is
\* already buffered.
EveryBlockDelivered ==
  \A n \in Data :
    (Contains(sentData, n)) ~> (Contains(consumed, n) \/ task = "panicked" \/ ~rxOpen)

=============================================================================
