---------------------------- MODULE MCShmSession ----------------------------
\* TLC instance of ShmSession: two clients; two servers on one prefix that find
\* the segment of a third, one that finds a segment of an old release, and one
\* of each kind with traffic.
EXTENDS ShmSession

World(k, l, ss, r) == [kind |-> k, left |-> l, servers |-> ss, reqs |-> r]

CONSTANTS s1, s2

MCWorlds ==
  {World("epoll", <<LeftOver>>, {s1, s2}, 0), World("epoll", <<Legacy>>, {s1}, 0),
   World("epoll", <<>>, {s1}, 2), World("muduo", <<>>, {s1}, 2)}
=============================================================================
