------------------------------ MODULE MCTopic ------------------------------
\* TLC instance of Topic: two clients, two topics.  FANOUT with a limit of
\* two broadcasts, repeats itself or dies, by the number of subscribers.
EXTENDS Topic, TLC

Pub(strategy, limit, key, tags, count) ==
  [strategy |-> strategy, limit |-> limit, key |-> key, tags |-> tags, count |-> count]

MCPubs ==
  {Pub("FANOUT", 2, NoKey, {}, 0), Pub("ROUND_ROBIN", 0, NoKey, {}, 0), Pub("PRIORITY", 0, NoKey, {}, 0)}

MCAttrs == {[prio |-> 0, tags |-> {}]}

Sym == Permutations(Clients) \cup Permutations(Names)
=============================================================================
