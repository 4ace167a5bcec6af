--------------------------- MODULE CircuitBreaker ---------------------------
(***************************************************************************)
(* client/circuit_breaker.cpp with the store of server/                    *)
(* memory_circuit_store.cpp: the table of breakers per method and host.    *)
(* Any number of threads call allowRequest, onSuccess and onFailure, each  *)
(* of which goes through getOrCreate, while hosts are removed as they go   *)
(* offline.                                                                *)
(*                                                                         *)
(* A breaker is its identity and its state.  Its window is abstracted: a   *)
(* failure in CLOSED may or may not open it, a cooling period may or may   *)
(* not be over (NodeBreaker models both).  Table, store and every breaker  *)
(* have a mutex of their own; a step is what happens under one of them.    *)
(***************************************************************************)
EXTENDS Naturals

CONSTANTS
  Methods, Hosts,
  Threads,      \* the threads that call
  MaxObjs,      \* bound: breakers created in a behaviour
  MaxRemovals   \* bound: removals of a behaviour

ASSUME TableAssumption == MaxObjs \in Nat /\ MaxRemovals \in Nat

Keys == Methods \X Hosts
States == {"CLOSED", "OPEN", "HALF_OPEN"}
Ops == {"allow", "success", "failure"}
Objs == 1 .. MaxObjs

NoCall == [pc |-> "idle"]

VARIABLES
  nodes,     \* _nodes: the breaker of a key, 0 when there is none
  mode,      \* state of a breaker
  made,      \* number of breakers created
  store,     \* the saved state of a key, "none" when there is none
  call,      \* a thread's call: where it is, what it is for, its local node
  removing,  \* the keys whose removeNode is between its two halves
  removed,   \* history: breakers taken out of the table
  removals   \* number of removals so far

tableVars == <<nodes, removing, removed, removals>>
allVars == <<nodes, mode, made, store, call, removing, removed, removals>>

TableInit ==
  /\ nodes = [k \in Keys |-> 0]
  /\ mode = [o \in Objs |-> "CLOSED"]
  /\ made = 0
  /\ store = [k \in Keys |-> "none"]
  /\ call = [t \in Threads |-> NoCall]
  /\ removing = {}
  /\ removed = {}
  /\ removals = 0

At(t, place) == call[t].pc = place

---------------------------------------------------------------------------
(* getOrCreate.                                                            *)

\* A call arrives; the first lookup.
Lookup(t, o, k) ==
  /\ At(t, "idle")
  /\ call' = [call EXCEPT ![t] =
       [pc |-> IF nodes[k] = 0 THEN "load" ELSE "act",
        op |-> o, key |-> k, obj |-> nodes[k]]]
  /\ UNCHANGED <<mode, made, store, tableVars>>

\* Deviation: what the store returns is taken as it is.
LoadedRaw(k) == {store[k]}

\* The states a new breaker may get from the store: an OPEN whose cooling
\* period is over becomes HALF_OPEN; no entry is a default CircuitStatus.
Loaded(k) ==
  CASE store[k] = "none" -> {"CLOSED"}
    [] store[k] = "OPEN" -> {"OPEN", "HALF_OPEN"}
    [] OTHER -> {store[k]}

\* Outside the lock: create a breaker and load what was saved for its key.
Load(t) ==
  /\ At(t, "load")
  /\ made < MaxObjs
  /\ made' = made + 1
  /\ call' = [call EXCEPT ![t].pc = "insert", ![t].obj = made + 1]
  /\ \E s \in Loaded(call[t].key) : mode' = [mode EXCEPT ![made + 1] = s]
  /\ UNCHANGED <<store, tableVars>>

\* Deviation: the table is not looked up again before the insertion.
InsertUnchecked(t) ==
  /\ At(t, "insert")
  /\ nodes' = [nodes EXCEPT ![call[t].key] = call[t].obj]
  /\ call' = [call EXCEPT ![t].pc = "act"]
  /\ UNCHANGED <<mode, made, store, removing, removed, removals>>

\* The second lookup, and the insertion when there is still no breaker.
Insert(t) ==
  /\ At(t, "insert")
  /\ LET k == call[t].key IN
       \/ /\ nodes[k] = 0
          /\ nodes' = [nodes EXCEPT ![k] = call[t].obj]
          /\ call' = [call EXCEPT ![t].pc = "act"]
       \/ /\ nodes[k] # 0
          /\ nodes' = nodes
          /\ call' = [call EXCEPT ![t].pc = "act", ![t].obj = nodes[k]]
  /\ UNCHANGED <<mode, made, store, removing, removed, removals>>

---------------------------------------------------------------------------
(* The operation on the breaker, and the save behind a transition.         *)

\* The breaker's operation moves it to state s; changed is what it returns.
Moves(t, s, changed) ==
  /\ mode' = [mode EXCEPT ![call[t].obj] = s]
  /\ call' = [call EXCEPT ![t] = IF changed THEN [@ EXCEPT !.pc = "copy"] ELSE NoCall]

\* allowRequest never saves, also when it makes OPEN HALF_OPEN.
Act(t) ==
  /\ At(t, "act")
  /\ LET s == mode[call[t].obj]
         o == call[t].op
     IN  \/ o = "allow" /\ Moves(t, s, FALSE)
         \/ o = "allow" /\ s = "OPEN" /\ Moves(t, "HALF_OPEN", FALSE)
         \/ o = "success" /\ Moves(t, "CLOSED", s # "CLOSED")
         \/ o = "failure" /\ s # "HALF_OPEN" /\ Moves(t, s, FALSE)
         \/ o = "failure" /\ s # "OPEN" /\ Moves(t, "OPEN", TRUE)
  /\ UNCHANGED <<made, store, tableVars>>

\* status(), without the breaker's mutex.
Copy(t) ==
  /\ At(t, "copy")
  /\ call' = [call EXCEPT ![t] =
       [pc |-> "save", op |-> @.op, key |-> @.key, obj |-> @.obj,
        status |-> mode[@.obj]]]
  /\ UNCHANGED <<mode, made, store, tableVars>>

Save(t) ==
  /\ At(t, "save")
  /\ store' = [store EXCEPT ![call[t].key] = call[t].status]
  /\ call' = [call EXCEPT ![t] = NoCall]
  /\ UNCHANGED <<mode, made, tableVars>>

---------------------------------------------------------------------------
(* Removal.                                                                *)

\* removeHost, under the table's mutex.  The store forgets the host for every
\* method that has a breaker for any host.  Saves of other threads can fall
\* between its calls to the store, which is the same as before or behind all.
RemoveHost(h) ==
  /\ removals < MaxRemovals
  /\ LET kept == {m \in Methods : \E g \in Hosts : nodes[<<m, g>>] # 0}
     IN  store' = [k \in Keys |->
                     IF k[1] \in kept /\ k[2] = h THEN "none" ELSE store[k]]
  /\ nodes' = [k \in Keys |-> IF k[2] = h THEN 0 ELSE nodes[k]]
  /\ removed' = removed \cup ({nodes[k] : k \in Methods \X {h}} \ {0})
  /\ removals' = removals + 1
  /\ UNCHANGED <<mode, made, call, removing>>

\* removeNode: first the store ...
RemoveStored(k) ==
  /\ removals < MaxRemovals
  /\ k \notin removing
  /\ store' = [store EXCEPT ![k] = "none"]
  /\ removing' = removing \cup {k}
  /\ removals' = removals + 1
  /\ UNCHANGED <<nodes, mode, made, call, removed>>

\* ... then the table.
RemoveNode(k) ==
  /\ k \in removing
  /\ nodes' = [nodes EXCEPT ![k] = 0]
  /\ removed' = removed \cup ({nodes[k]} \ {0})
  /\ removing' = removing \ {k}
  /\ UNCHANGED <<mode, made, store, call, removals>>

TableNext ==
  \/ \E t \in Threads :
       \/ \E o \in Ops, k \in Keys : Lookup(t, o, k)
       \/ Load(t) \/ Insert(t) \/ Act(t) \/ Copy(t) \/ Save(t)
  \/ \E h \in Hosts : RemoveHost(h)
  \/ \E k \in Keys : RemoveStored(k) \/ RemoveNode(k)

TableSpec == TableInit /\ [][TableNext]_allVars

---------------------------------------------------------------------------
\* Type correctness of the table, the store and the threads.
TableTypeOK ==
  /\ nodes \in [Keys -> 0 .. MaxObjs]
  /\ mode \in [Objs -> States]
  /\ made \in 0 .. MaxObjs
  /\ store \in [Keys -> States \cup {"none"}]
  /\ \A t \in Threads :
       \/ call[t] = NoCall
       \/ /\ call[t].pc \in {"load", "insert", "act", "copy", "save"}
          /\ call[t].op \in Ops /\ call[t].key \in Keys
          /\ call[t].obj \in IF At(t, "load") THEN {0} ELSE Objs
  /\ removing \subseteq Keys
  /\ removed \subseteq Objs
  /\ removals \in 0 .. MaxRemovals

\* However many threads create the breaker of a method and host at once, they
\* all work on the one in the table, unless that was removed meanwhile: no
\* outcome is counted by a breaker that nobody asks.
OneBreaker ==
  \A t \in Threads :
    call[t].pc \in {"act", "copy", "save"}
      => call[t].obj = nodes[call[t].key] \/ call[t].obj \in removed

\* The table through all races of creating, saving and removing.
TableSafe == TableTypeOK /\ OneBreaker
=============================================================================
