-------------------------------- MODULE Topic --------------------------------
(***************************************************************************)
(* Topics: the server's TopicManager (server/rpc_topic.hpp, TopicServer of *)
(* rpc_server.hpp) and the clients' (client/rpc_topic.hpp, TopicClient of  *)
(* rpc_client.hpp).                                                        *)
(*                                                                         *)
(* TopicServer is built with one thread, so a request with its answer, or  *)
(* a closed connection, is one step of the server.  A client is an         *)
(* application thread that makes synchronous calls, each of which can time *)
(* out, and a loop thread that receives answers and pushes.  A connection  *)
(* is named by its client: TopicClient never reconnects.                   *)
(***************************************************************************)
EXTENDS TopicForward

CONSTANTS
  Clients, Names,    \* topic names
  Pubs,              \* publications: see TopicForward
  Attrs,             \* priority and tags of a subscription
  MaxCalls,          \* bound: calls of all clients in a behaviour
  MaxTimeouts,       \* bound: calls that time out
  MaxLost            \* bound: connections that break

ASSUME TopicAssumption ==
  /\ IsFiniteSet(Clients)
  /\ \A p \in Pubs : p.limit \in Int /\ p.count \in Int /\ p.key \in Nat \cup {NoKey}

VARIABLES
  topics,      \* _topics: the subscribers in the order of the set, rr_cursor
  subscribers, \* _subscribes: topics, priority and tags by connection
  pri,         \* pri_cursor
  up,          \* the server's process
  open,        \* connections the server has not seen closed
  toSrv,       \* requests on the way to the server
  toCli,       \* answers and pushes on the way to a client
  call,        \* the call of a client's application thread
  cbs,         \* topics with a callback in _topic_cb
  state,       \* a client: connected, lost its connection, dead
  calls, timeouts, lost,      \* counters for the bounds
  gaveUp,      \* history: subscriptions a client gave up on a timeout
  removed,     \* history: subscriptions that topicRemove ended
  trusts,      \* history: subscriptions that succeeded and were not cancelled
  cancelled    \* history: subscriptions whose cancelTopic succeeded

srvVars == <<topics, subscribers, pri, up, open, removed>>
histVars == <<gaveUp, trusts, cancelled>>
countVars == <<calls, timeouts, lost>>
vars == <<topics, subscribers, pri, up, open, toSrv, toCli, call, cbs, state,
          calls, timeouts, lost, gaveUp, removed, trusts, cancelled>>

Idle == [at |-> "idle"]
Ops == {"CREATE", "REMOVE", "SUBSCRIBE", "UNSUBSCRIBE", "PUBLISH"}
Pairs == Clients \X Names

TypeOK ==
  /\ DOMAIN topics \subseteq Names
  /\ \A t \in DOMAIN topics :
       /\ IsInjective(topics[t].subs) /\ Range(topics[t].subs) \subseteq Clients
       /\ topics[t].rr < Max({1} \cup {Cardinality(Clients)})
  /\ DOMAIN subscribers \subseteq Clients
  /\ \A c \in DOMAIN subscribers :
       subscribers[c].topics \subseteq Names /\ subscribers[c].attr \in Attrs
  /\ pri \in 0 .. Cardinality(Clients) /\ up \in BOOLEAN /\ open \subseteq Clients
  /\ \A c \in Clients : call[c].at \in {"idle", "sent", "answered"}
  /\ cbs \subseteq Pairs /\ state \in [Clients -> {"connected", "lost", "dead"}]
  /\ UNION {gaveUp, removed, trusts, cancelled} \subseteq Pairs

Init ==
  /\ topics = <<>> /\ subscribers = <<>> /\ pri = 0 /\ up = TRUE /\ open = Clients
  /\ toSrv = [c \in Clients |-> <<>>] /\ toCli = [c \in Clients |-> <<>>]
  /\ call = [c \in Clients |-> Idle] /\ cbs = {}
  /\ state = [c \in Clients |-> "connected"]
  /\ calls = 0 /\ timeouts = 0 /\ lost = 0
  /\ gaveUp = {} /\ removed = {} /\ trusts = {} /\ cancelled = {}
-----------------------------------------------------------------------------
(* The client.  subscribeTopic stores its callback before it sends.        *)

\* commonRequest: build the request and send it.
commonRequest(c, req) ==
  /\ call[c] = Idle /\ state[c] = "connected" /\ calls < MaxCalls
  /\ calls' = calls + 1
  /\ call' = [call EXCEPT ![c] = [at |-> "sent", op |-> req.op, t |-> req.t]]
  /\ toSrv' = [toSrv EXCEPT ![c] = Append(@, req)]

Call(c, op, t, arg) ==
  /\ commonRequest(c, [op |-> op, t |-> t, arg |-> arg, live |-> TRUE])
  /\ UNCHANGED <<srvVars, toCli, state, timeouts, lost>>

createTopic(c, t) == Call(c, "CREATE", t, {}) /\ UNCHANGED <<cbs, histVars>>

removeTopic(c, t) == Call(c, "REMOVE", t, {}) /\ UNCHANGED <<cbs, histVars>>

subscribeTopic(c, t, attr) ==
  /\ Call(c, "SUBSCRIBE", t, attr)
  /\ cbs' = cbs \cup {<<c, t>>}
  /\ cancelled' = cancelled \ {<<c, t>>}
  /\ UNCHANGED <<gaveUp, trusts>>

\* Deviation: the callback is taken back before the server was asked.
cancelTopicErases(c, t) ==
  /\ Call(c, "UNSUBSCRIBE", t, {})
  /\ cbs' = cbs \ {<<c, t>>}
  /\ trusts' = trusts \ {<<c, t>>}
  /\ UNCHANGED <<gaveUp, cancelled>>

\* The callback stays.
cancelTopic(c, t) ==
  /\ Call(c, "UNSUBSCRIBE", t, {})
  /\ trusts' = trusts \ {<<c, t>>}
  /\ UNCHANGED <<cbs, gaveUp, cancelled>>

publishTopic(c, t, p) == Call(c, "PUBLISH", t, p) /\ UNCHANGED <<cbs, histVars>>

\* A call on a connection that is gone: connection() is a null pointer and
\* the requestor calls send through it.
CallUnconnected(c) ==
  /\ call[c] = Idle /\ state[c] = "lost"
  /\ state' = [state EXCEPT ![c] = "dead"]
  /\ UNCHANGED <<srvVars, toSrv, toCli, call, cbs, countVars, histVars>>

\* The call returns: subscribeTopic takes its callback back when it failed.
Returns(c, ok) ==
  LET s == <<c, call[c].t>>
      sub == call[c].op = "SUBSCRIBE"
  IN /\ call' = [call EXCEPT ![c] = Idle]
     /\ cbs' = IF sub /\ ~ok THEN cbs \ {s} ELSE cbs
     /\ trusts' = CASE sub /\ ok  -> trusts \cup {s}
                    [] sub /\ ~ok -> trusts \ {s}
                    [] OTHER      -> trusts

\* The application thread wakes up with the answer.
Answered(c) ==
  /\ call[c].at = "answered" /\ state[c] # "dead"
  /\ Returns(c, call[c].ok)
  /\ cancelled' = IF call[c].op = "UNSUBSCRIBE" /\ call[c].ok
                  THEN cancelled \cup {<<c, call[c].t>>} ELSE cancelled
  /\ UNCHANGED <<srvVars, toSrv, toCli, state, countVars, gaveUp>>

\* The messages of a call that nobody waits for any more.
Forsaken(msgs) == [i \in DOMAIN msgs |-> [msgs[i] EXCEPT !.live = FALSE]]

\* The wait of five seconds ends: the requestor forgets the id, so that the
\* answer, if any, will be discarded.
TimesOut(c) ==
  /\ call[c].at = "sent" /\ state[c] # "dead"
  /\ timeouts < MaxTimeouts \/ ~up \/ state[c] = "lost"
  /\ timeouts' = IF up /\ state[c] = "connected" THEN timeouts + 1 ELSE timeouts
  /\ Returns(c, FALSE)
  /\ gaveUp' = IF call[c].op = "SUBSCRIBE" THEN gaveUp \cup {<<c, call[c].t>>} ELSE gaveUp
  /\ toSrv' = [toSrv EXCEPT ![c] = Forsaken(toSrv[c])]
  /\ toCli' = [toCli EXCEPT ![c] = Forsaken(toCli[c])]
  /\ UNCHANGED <<srvVars, state, calls, lost, cancelled>>

\* The loop thread: Requestor::onResponse.
onResponse(c) ==
  LET msg == Head(toCli[c])
  IN /\ toCli[c] # <<>> /\ state[c] = "connected" /\ msg.type = "RSP"
     /\ toCli' = [toCli EXCEPT ![c] = Tail(@)]
     /\ call' = IF call[c].at = "sent" /\ msg.live
                THEN [call EXCEPT ![c] = [at |-> "answered", op |-> call[c].op, t |-> call[c].t, ok |-> msg.ok]]
                ELSE call
     /\ UNCHANGED <<srvVars, toSrv, cbs, state, countVars, histVars>>

\* The loop thread: the callback of the topic is called, if there is one.
onTopicPublish(c) ==
  /\ toCli[c] # <<>> /\ state[c] = "connected" /\ Head(toCli[c]).type = "PUSH"
  /\ toCli' = [toCli EXCEPT ![c] = Tail(@)]
  /\ UNCHANGED <<srvVars, toSrv, call, cbs, state, countVars, histVars>>

\* A client's connection breaks (its process stops, or it shuts down).
ConnectionLost(c) ==
  /\ state[c] = "connected" /\ lost < MaxLost
  /\ lost' = lost + 1
  /\ state' = [state EXCEPT ![c] = "lost"]
  /\ toCli' = [toCli EXCEPT ![c] = <<>>]
  /\ UNCHANGED <<srvVars, toSrv, call, cbs, calls, timeouts, histVars>>
-----------------------------------------------------------------------------
(* The server: one request with everything it causes is one step.          *)

\* Append a message to the queues of some connections, one per occurrence.
\* MuduoConnection::send does nothing on a connection that is closed.
Send(queues, to, msg) ==
  [c \in Clients |->
     IF state[c] = "connected"
     THEN queues[c] \o [i \in 1 .. Cardinality({k \in DOMAIN to : to[k] = c}) |-> msg]
     ELSE queues[c]]

\* The first request of connection c, answered when the handler is done.
Request(c, op) ==
  up /\ c \in open /\ toSrv[c] # <<>> /\ Head(toSrv[c]).op = op

Answer(c, ok) == [type |-> "RSP", t |-> Head(toSrv[c]).t, ok |-> ok, live |-> Head(toSrv[c]).live]

\* topicResponse and errorResponse.
Respond(c, queues, ok) ==
  /\ toCli' = Send(queues, <<c>>, Answer(c, ok))
  /\ toSrv' = [toSrv EXCEPT ![c] = Tail(@)]
  /\ UNCHANGED <<open, call, cbs, state, countVars, histVars>>

\* A topic that exists is left alone, and the answer is SUCCESS.
topicCreate(c) ==
  LET t == Head(toSrv[c]).t
  IN /\ Request(c, "CREATE")
     /\ topics' = [u \in DOMAIN topics \cup {t} |->
                     IF u \in DOMAIN topics THEN topics[u] ELSE [subs |-> <<>>, rr |-> 0]]
     /\ Respond(c, toCli, TRUE)
     /\ UNCHANGED <<subscribers, pri, up, removed>>

\* The subscribers of a table that lose topic t.
Subscribe_removeTopic(subs, t) ==
  [d \in DOMAIN subscribers |->
     IF d \in subs THEN [subscribers[d] EXCEPT !.topics = subscribers[d].topics \ {t}] ELSE subscribers[d]]

\* Deviation: the topic is erased and its subscribers keep its name.
topicRemoveOnly(c) ==
  LET t == Head(toSrv[c]).t
  IN /\ Request(c, "REMOVE")
     /\ topics' = Restrict(topics, DOMAIN topics \ {t})
     /\ removed' = removed \cup {<<d, t>> : d \in Clients}
     /\ Respond(c, toCli, TRUE)
     /\ UNCHANGED <<subscribers, pri, up>>

topicRemove(c) ==
  LET t == Head(toSrv[c]).t
      subs == IF t \in DOMAIN topics THEN Range(topics[t].subs) ELSE {}
  IN /\ Request(c, "REMOVE")
     /\ topics' = Restrict(topics, DOMAIN topics \ {t})
     /\ subscribers' = Subscribe_removeTopic(subs, t)
     /\ removed' = removed \cup {<<d, t>> : d \in subs}
     /\ Respond(c, toCli, TRUE)
     /\ UNCHANGED <<pri, up>>

\* The order of an unordered_set may change when an element is inserted.
addSubscribe(subs, c) ==
  IF c \in Range(subs) THEN {subs} ELSE SetToSeqs(Range(subs) \cup {c})

delSubscribe(subs, c) ==
  IF c \in Range(subs) THEN RemoveAt(subs, CHOOSE i \in DOMAIN subs : subs[i] = c) ELSE subs

\* The subscriber of connection c, made when there was none.
Subscribe_addTopic(c, ts, attr) ==
  [d \in DOMAIN subscribers \cup {c} |->
     IF d = c THEN [topics |-> ts, attr |-> attr] ELSE subscribers[d]]

\* Deviation: a subscriber that is known already is not added to the topic.
topicSubscribeKnown(c) ==
  LET t == Head(toSrv[c]).t
  IN /\ Request(c, "SUBSCRIBE") /\ t \in DOMAIN topics
     /\ \E s \in IF c \in DOMAIN subscribers THEN {topics[t].subs} ELSE addSubscribe(topics[t].subs, c) :
          topics' = [topics EXCEPT ![t].subs = s]
     /\ subscribers' = Subscribe_addTopic(c, {t}, Head(toSrv[c]).arg)
     /\ removed' = removed \ {<<c, t>>}
     /\ Respond(c, toCli, TRUE)
     /\ UNCHANGED <<pri, up>>

\* Priority and tags belong to the connection: those of its last
\* subscription hold for all its topics.
topicSubscribe(c) ==
  LET t == Head(toSrv[c]).t
      mine == IF c \in DOMAIN subscribers THEN subscribers[c].topics ELSE {}
  IN /\ Request(c, "SUBSCRIBE") /\ t \in DOMAIN topics
     /\ \E s \in addSubscribe(topics[t].subs, c) : topics' = [topics EXCEPT ![t].subs = s]
     /\ subscribers' = Subscribe_addTopic(c, mine \cup {t}, Head(toSrv[c]).arg)
     /\ removed' = removed \ {<<c, t>>}
     /\ Respond(c, toCli, TRUE)
     /\ UNCHANGED <<pri, up>>

\* SUBSCRIBE or PUBLISH of a topic that does not exist: TOPIC_NOT_FOUND.
TopicNotFound(c) ==
  /\ Request(c, "SUBSCRIBE") \/ Request(c, "PUBLISH")
  /\ Head(toSrv[c]).t \notin DOMAIN topics
  /\ Respond(c, toCli, FALSE)
  /\ UNCHANGED <<topics, subscribers, pri, up, removed>>

\* Deviation: the topic is taken from the subscriber, not the subscriber
\* from the topic.
topicancelSubscribeHalf(c) ==
  /\ Request(c, "UNSUBSCRIBE")
  /\ subscribers' = IF c \in DOMAIN subscribers THEN Subscribe_removeTopic({c}, Head(toSrv[c]).t) ELSE subscribers
  /\ Respond(c, toCli, TRUE)
  /\ UNCHANGED <<topics, pri, up, removed>>

\* The Subscribe stays in the table when it has no topic left.
topicancelSubscribe(c) ==
  LET t == Head(toSrv[c]).t
  IN /\ Request(c, "UNSUBSCRIBE")
     /\ subscribers' = Subscribe_removeTopic({c}, t)
     /\ topics' = IF t \in DOMAIN topics /\ c \in DOMAIN subscribers
                  THEN [topics EXCEPT ![t].subs = delSubscribe(topics[t].subs, c)] ELSE topics
     /\ Respond(c, toCli, TRUE)
     /\ UNCHANGED <<pri, up, removed>>

\* pushMessage: forward to the subscribers, then answer SUCCESS whoever was
\* reached.  When the process dies nothing is answered.
topicPublish(c) ==
  LET t == Head(toSrv[c]).t
      attr == [d \in DOMAIN subscribers |-> subscribers[d].attr]
      push == [type |-> "PUSH", t |-> t, live |-> FALSE]
  IN /\ Request(c, "PUBLISH") /\ t \in DOMAIN topics
     /\ \E o \in dispatchMessage(topics[t].subs, topics[t].rr, pri, attr, Head(toSrv[c]).arg) :
          /\ topics' = [topics EXCEPT ![t].rr = o.rr]
          /\ pri' = o.pri
          /\ up' = ~o.dies
          /\ IF o.dies
             THEN /\ toCli' = Send(toCli, o.to, push)
                  /\ UNCHANGED <<toSrv, open, call, cbs, state, countVars, histVars>>
             ELSE Respond(c, Send(toCli, o.to, push), TRUE)
     /\ UNCHANGED <<subscribers, removed>>

\* The server sees the connection closed; what it has not read is lost.
onconnShoutdown(c) ==
  /\ up /\ c \in open /\ state[c] # "connected"
  /\ open' = open \ {c}
  /\ topics' = IF c \notin DOMAIN subscribers THEN topics
               ELSE [t \in DOMAIN topics |->
                       IF t \in subscribers[c].topics
                       THEN [topics[t] EXCEPT !.subs = delSubscribe(topics[t].subs, c)] ELSE topics[t]]
  /\ subscribers' = Restrict(subscribers, DOMAIN subscribers \ {c})
  /\ toSrv' = [toSrv EXCEPT ![c] = <<>>]
  /\ UNCHANGED <<pri, up, toCli, call, cbs, state, countVars, histVars, removed>>

ontopicRequest(c) ==
  \/ topicCreate(c) \/ topicRemove(c) \/ topicSubscribe(c) \/ TopicNotFound(c)
  \/ topicancelSubscribe(c) \/ topicPublish(c)

ClientCalls(c) ==
  \E t \in Names :
    \/ createTopic(c, t) \/ removeTopic(c, t) \/ cancelTopic(c, t)
    \/ \E a \in Attrs : subscribeTopic(c, t, a)
    \/ \E p \in Pubs : publishTopic(c, t, p)

Next ==
  \E c \in Clients :
    \/ ClientCalls(c) \/ CallUnconnected(c) \/ Answered(c) \/ TimesOut(c)
    \/ onResponse(c) \/ onTopicPublish(c) \/ ConnectionLost(c)
    \/ ontopicRequest(c) \/ onconnShoutdown(c)

Spec == Init /\ [][Next]_vars
-----------------------------------------------------------------------------
(* Properties.                                                             *)

\* The two tables of the server agree: a connection is among a topic's
\* subscribers exactly when the topic is among the connection's, and only
\* open connections are in either (topicSubscribe, topicancelSubscribe,
\* topicRemove and onconnShoutdown each change both, in two places).
TablesAgree ==
  /\ DOMAIN subscribers \subseteq open
  /\ \A t \in Names, c \in Clients :
       (t \in DOMAIN topics /\ c \in Range(topics[t].subs)) <=>
         (c \in DOMAIN subscribers /\ t \in subscribers[c].topics)

\* A connected client that the server pushes to has a callback for the
\* topic, except behind a subscribeTopic that timed out: then the server may
\* have subscribed a client that discards what it is sent.
HeardUnlessGivenUp ==
  \A t \in DOMAIN topics : \A c \in Range(topics[t].subs) :
    state[c] = "connected" => <<c, t>> \in cbs \cup gaveUp

\* A client whose subscribeTopic returned true and that did not cancel is
\* subscribed at the server as long as it is connected, unless somebody
\* removed the topic: nobody tells it, and a topic created again starts
\* without subscribers.
SubscribedUnlessRemoved ==
  \A s \in trusts :
    state[s[1]] = "connected" /\ up =>
      s \in removed \/ (s[2] \in DOMAIN topics /\ s[1] \in Range(topics[s[2]].subs))

\* Behind a cancelTopic that returned true no push of the topic arrives
\* until the client subscribes again.
SilentAfterCancel ==
  \A s \in cancelled : \A i \in DOMAIN toCli[s[1]] :
    toCli[s[1]][i].type = "PUSH" => toCli[s[1]][i].t # s[2]

\* The server's tables and what they promise to a client that cancelled.
TopicsSafe == TypeOK /\ TablesAgree /\ SilentAfterCancel

\* The strategies depend on no state: they are checked once.
AtStart == calls = 0 /\ lost = 0

\* Every publication reaches as many subscribers as its strategy means it
\* to, nobody twice (see ReachesMeant): for up to three subscribers in every
\* order, every cursor, priority and combination of parameters.
StrategiesReach == AtStart => AllReach

\* A PRIORITY publication goes to a matching subscriber of top priority.
StrategiesPrefer == AtStart => AllPrefer

\* ROUND_ROBIN gives every subscriber its turn, from every cursor that
\* subscribers who left have left behind.
StrategiesRotate == AtStart => AllRotate

\* The six strategies send to whom they are meant to, how often they are meant
\* to, over every small list of subscribers.
Strategies == StrategiesReach /\ StrategiesPrefer /\ StrategiesRotate
=============================================================================
