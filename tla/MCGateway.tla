----------------------------- MODULE MCGateway -----------------------------
\* TLC instance of Gateway: three HTTP clients, the gateway's connection to the
\* server, one of another client and one of the server's own handlers.
EXTENDS Gateway, TLC

MCHttpLoopOf == "h1" :> "g1" @@ "h2" :> "g2" @@ "h3" :> "g1"
MCLoopOf == "gw" :> "l1" @@ "cl" :> "l2" @@ "own" :> "l1"

Nobody == [what |-> "none", wire |-> <<>>]
Echo == [what |-> "echo", wire |-> <<"line", "ua", "len", "end", "body">>]
BadEcho == [what |-> "badjson", wire |-> <<"line", "len", "end", "body">>]
Health == [what |-> "local", wire |-> <<"line", "ua", "end">>]
Nowhere == [what |-> "nowhere", wire |-> <<"line", "end">>]

Frame(n, type, method, fault) ==
  [rid |-> <<"cl", n>>, type |-> type, method |-> method, fault |-> fault, known |-> FALSE]

World(h1, h2, h3, frames, regs, lim, srv, hdl) ==
  [http |-> "h1" :> h1 @@ "h2" :> h2 @@ "h3" :> h3,
   todo |-> [c \in Conns |-> IF c = "cl" THEN frames ELSE <<>>],
   leaving |-> {"cl"}, reg |-> regs, limited |-> lim, services |-> srv, handlers |-> hdl]

\* The bucket and the parser.
WorldsHttp ==
  { World(Health, Nowhere, Health, <<>>, <<>>, FALSE, {}, {"echo"}),
    World(BadEcho, Health, Nobody, <<>>, <<>>, FALSE, {}, {"echo"}) }

\* Two calls on one connection, a server that refuses, one that does not have the
\* method yet, one that dies.
WorldsEcho ==
  { World(Echo, Echo, Nobody, <<>>, <<>>, FALSE, {}, {"echo"}),
    World(Nobody, Echo, Nobody, <<>>, <<>>, TRUE, {}, {"echo"}),
    World(Nobody, Echo, Nobody, <<>>, <<[type |-> "proto", method |-> "echo"]>>, FALSE, {}, {}),
    World(Nobody, Echo, Nobody, <<Frame(1, "json", "add", "throws")>>, <<>>, FALSE, {"add"}, {"echo"}) }

\* Frames of another client, and registrations.
WorldsServer ==
  { World(Nobody, Nobody, Nobody, f, <<>>, FALSE, {"add"}, {"echo"}) : f \in
      { <<Frame(1, "json", "add", "none"), Frame(2, "garbled", "add", "none"), Frame(3, "json", "add", "none")>>,
        <<Frame(1, "json", "add", "params"), Frame(2, "other", "add", "none"), Frame(3, "proto", "echo", "throws")>>,
        <<Frame(1, "json", "add", "result"), Frame(2, "proto", "echo", "parse"), Frame(3, "json", "none", "none")>>,
        <<Frame(1, "json", "add", "huge"), Frame(2, "negative", "add", "none"),
          Frame(3, "json", "add", "none"), Frame(4, "json", "add", "none")>>,
        <<Frame(1, "json", "add", "selfcall"), Frame(2, "proto", "echo", "selfcall")>> } }
  \cup
  { World(Nobody, Nobody, Nobody, <<Frame(1, "json", "add", "none"), Frame(2, "proto", "echo", "none"),
                                    Frame(3, "proto", "sum", "none")>>,
          <<[type |-> "json", method |-> "add"], [type |-> "proto", method |-> "sum"]>>, FALSE, {}, {"echo"}),
    World(Nobody, Echo, Nobody, <<Frame(1, "json", "add", "selfcall")>>, <<>>, FALSE, {"add"}, {"echo"}) }

MCWorlds == WorldsHttp \cup WorldsEcho \cup WorldsServer
=============================================================================
