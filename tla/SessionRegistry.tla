------------------------- MODULE SessionRegistry -------------------------
(***************************************************************************)
(* The session registry of the zenohex NIF: the global SESSION_MAP, the    *)
(* RwLock around each session and its entity table, the handles the BEAM   *)
(* garbage-collects, and every NIF that reaches a session through them     *)
(* (session.rs, publisher.rs, subscriber.rs, querier.rs, queryable.rs,     *)
(* matching.rs, liveliness.rs).                                            *)
(*                                                                         *)
(* A member of Sess is one incarnation of a zenoh session.  It also names  *)
(* the handle (SessionIdResource) session_open returns for it; the handle  *)
(* carries no more than the session's zid.  An entity handle                *)
(* (EntityGlobalIdResource) is a pair <<s, n>> of the incarnation that     *)
(* declared it and its number there; all the code can see of it is         *)
(* <<zid[s], n>>.                                                          *)
(*                                                                         *)
(* A thread runs one NIF at a time: it looks its session up (SESSION_MAP   *)
(* is locked for that lookup alone), waits for the session's RwLock, runs  *)
(* its body, returns.  Idle threads also run destructors of handles        *)
(* nothing refers to any more.                                             *)
(***************************************************************************)
EXTENDS Naturals

CONSTANTS
  Proc,        \* BEAM scheduler threads that run NIFs and destructors
  Sess,        \* incarnations of zenoh sessions; bounds how often one is opened
  Zid,         \* zenoh ids
  Kind,        \* the kinds of entity the clients declare
  MaxEnt,      \* bound on the entities one session declares
  None,
  OpenPolicy,  \* which zids session_open meets: see CanOpen
  Drops,       \* where a destructor runs: see Remove
  WriterFirst, \* the platform's RwLock prefers waiting writers
  KeepSession  \* clients keep a session handle while its entities exist

Kinds == {"publisher", "querier", "subscriber", "queryable"}

ASSUME KindAssumption == Kind \subseteq Kinds
ASSUME MaxEntAssumption == MaxEnt \in Nat
ASSUME NoneAssumption == None \notin Sess \cup Zid \cup (Sess \X (1 .. MaxEnt))
ASSUME NoneIsNoEntity == None \notin [kind : Kinds, owner : Sess]
ASSUME ModeAssumption == /\ OpenPolicy \in {"fresh", "reopen", "any"}
                         /\ Drops \in {"inline", "scheduled"}
                         /\ KeepSession \in BOOLEAN
                         /\ WriterFirst \in BOOLEAN

VARIABLES
  zid,      \* the zid of each opened incarnation
  map,      \* SESSION_MAP
  closed,   \* sessions whose zenoh session is closed
  ents,     \* Session.entities of each session
  nextEnt,  \* the number zenoh gives the next entity of a session
  held,     \* session handles a BEAM term refers to
  eheld,    \* entity handles a BEAM term refers to
  doomed,   \* session handles nothing refers to, destructor not started
  edoomed,  \* entity handles nothing refers to, destructor not started
  pc,       \* where each thread is
  call,     \* the NIF (or entity destructor) each thread runs
  pend,     \* destructors a thread has to run before it goes on
  darc      \* the Arc a running session-handle destructor took from the map

vars == <<zid, map, closed, ents, nextEnt, held, eheld, doomed, edoomed,
          pc, call, pend, darc>>
handles == <<held, eheld, edoomed>>

EntNum == 1 .. MaxEnt
EntId == Sess \X EntNum
Entity == [kind : Kinds, owner : Sess]
NoEntities == [n \in EntNum |-> None]

Op == {"none", "use", "get", "declare", "close", "undeclare", "drop"}
Pc == {"idle", "lock", "body", "checked", "nested", "collect", "dtor"}
Call == [op : Op, kinds : SUBSET Kinds, arc : Sess \cup {None},
         handle : Sess \cup {None}, entity : EntId \cup {None}]
NoCall == [op |-> "none", kinds |-> {}, arc |-> None,
           handle |-> None, entity |-> None]

\* A thread has an Arc of its session while it is inside a NIF, and of the
\* session it removed while a destructor waits to close that.
ThreadOK(p) ==
  /\ pc[p] \in {"idle", "dtor"} => call[p].arc = None
  /\ call[p].arc = None => pc[p] \in {"idle", "dtor"}
  /\ pc[p] = "dtor" => darc[p] # None
  /\ darc[p] # None => pc[p] \in {"nested", "dtor"}

TypeOK ==
  /\ zid \in [Sess -> Zid \cup {None}]
  /\ map \in [Zid -> Sess \cup {None}]
  /\ closed \subseteq Sess
  /\ ents \in [Sess -> [EntNum -> Entity \cup {None}]]
  /\ nextEnt \in [Sess -> 1 .. MaxEnt + 1]
  /\ held \subseteq Sess /\ doomed \subseteq Sess
  /\ eheld \subseteq EntId /\ edoomed \subseteq EntId
  /\ pc \in [Proc -> Pc]
  /\ call \in [Proc -> Call]
  /\ pend \in [Proc -> SUBSET Sess]
  /\ darc \in [Proc -> Sess \cup {None}]
  /\ \A p \in Proc : ThreadOK(p)

Init ==
  /\ zid = [s \in Sess |-> None]
  /\ map = [z \in Zid |-> None]
  /\ closed = {} /\ held = {} /\ eheld = {} /\ doomed = {} /\ edoomed = {}
  /\ ents = [s \in Sess |-> NoEntities]
  /\ nextEnt = [s \in Sess |-> 1]
  /\ pc = [p \in Proc |-> "idle"]
  /\ call = [p \in Proc |-> NoCall]
  /\ pend = [p \in Proc |-> {}]
  /\ darc = [p \in Proc |-> None]
-----------------------------------------------------------------------------
(* Locks, references and what the last reference takes with it.            *)

\* The session locks: declarations, undeclarations and entity destructors
\* write, every other NIF reads.  Where waiting writers go first (RwLock
\* leaves it to the platform) they keep new readers out.
Exclusive_UndeclareReads(p) == call[p].op = "declare"
Exclusive(p) == call[p].op \in {"declare", "undeclare", "drop"}
Locks_WhileCollecting(p, s) ==
  pc[p] \in {"body", "checked", "nested", "collect"} /\ call[p].arc = s
Locks(p, s) == pc[p] \in {"body", "checked", "nested"} /\ call[p].arc = s
Waits(p, s) == pc[p] = "lock" /\ call[p].arc = s
CanRead(s) == \A p \in Proc : Exclusive(p) =>
                 ~Locks(p, s) /\ (WriterFirst => ~Waits(p, s))
CanWrite(s) == \A p \in Proc : ~Locks(p, s)

\* The Arcs of a session after a step: the map's and those of running calls.
StaysAlive(s) == \/ \E z \in Zid : map'[z] = s
                 \/ \E p \in Proc : call'[p].arc = s \/ darc'[p] = s

\* An entity keeps the session handle it was declared with.
Owns(E, h) == \E s \in Sess, n \in EntNum : E[s][n] # None /\ E[s][n].owner = h
Referenced(h) == h \in held \/ Owns(ents, h)
Released_Never(E) == {}
Released_IfHeld(E) == {h \in Sess : Owns(ents, h) /\ ~Owns(E, h)}
Released(E) == {h \in Sess \ held : Owns(ents, h) /\ ~Owns(E, h)}

\* Dropping an Arc of s: the last one drops the Session, and with it the
\* zenoh session (which closes) and the entities.  E and C are the entities
\* and the closed sessions before that.
DropArc_Leaks(s, E, C) == ents' = E /\ closed' = C
DropArc(s, E, C) ==
  IF StaysAlive(s) THEN ents' = E /\ closed' = C
  ELSE ents' = [E EXCEPT ![s] = NoEntities] /\ closed' = C \cup {s}

\* The NIF returns: the guard and the Arc go, then the arguments.
Finish(p, E, C) ==
  /\ UNCHANGED <<map, darc, pend>>
  /\ pc' = [pc EXCEPT ![p] = "idle"]
  /\ call' = [call EXCEPT ![p] = NoCall]
  /\ DropArc(call[p].arc, E, C)
  /\ doomed' = doomed \cup Released(ents')
-----------------------------------------------------------------------------
(* Opening a session.                                                      *)

\* A random zid is never seen twice.  One set in the configuration can come
\* back after its session left the map ("reopen"), or while it is there.
CanOpen(z) ==
  CASE OpenPolicy = "fresh"  -> \A s \in Sess : zid[s] # z
    [] OpenPolicy = "reopen" -> map[z] = None
    [] OpenPolicy = "any"    -> TRUE

\* insert_session replaces what the map has, whose Arc goes, and only then
\* reports the collision; no handle is made for the new session then.
session_open(s, z) ==
  /\ zid[s] = None /\ CanOpen(z)
  /\ UNCHANGED <<nextEnt, eheld, edoomed, pc, call, pend, darc>>
  /\ zid' = [zid EXCEPT ![s] = z]
  /\ map' = [map EXCEPT ![z] = s]
  /\ \/ /\ map[z] = None
        /\ held' = held \cup {s}
        /\ UNCHANGED <<closed, ents, doomed>>
     \/ /\ map[z] # None
        /\ UNCHANGED held
        /\ DropArc(map[z], ents, closed)
        /\ doomed' = doomed \cup Released(ents')
-----------------------------------------------------------------------------
(* Entering a NIF.  A session that is not in the map is an error that      *)
(* changes nothing, so only successful lookups are steps.                  *)

Enter_Unchecked(p, s, o, K, h, e) ==
  /\ pc[p] = "idle"
  /\ pc' = [pc EXCEPT ![p] = "lock"]
  /\ call' = [call EXCEPT ![p] = [op |-> o, kinds |-> K, arc |-> s,
                                  handle |-> h, entity |-> e]]
Enter(p, s, o, K, h, e) ==
  /\ pc[p] = "idle" /\ s # None
  /\ pc' = [pc EXCEPT ![p] = "lock"]
  /\ call' = [call EXCEPT ![p] = [op |-> o, kinds |-> K, arc |-> s,
                                  handle |-> h, entity |-> e]]

get_session(z) == map[z]

OnSession(p, h, o, K) ==
  /\ h \in held
  /\ Enter(p, get_session(zid[h]), o, K, h, None)
  /\ UNCHANGED <<zid, map, closed, ents, nextEnt, handles, doomed, pend, darc>>

OnEntity(p, e, o, K) ==
  /\ e \in eheld
  /\ Enter(p, get_session(zid[e[1]]), o, K, None, e)
  /\ UNCHANGED <<zid, map, closed, ents, nextEnt, handles, doomed, pend, darc>>

session_put(p, h) == OnSession(p, h, "use", {})
session_delete(p, h) == OnSession(p, h, "use", {})
session_new_timestamp(p, h) == OnSession(p, h, "use", {})
session_info(p, h) == OnSession(p, h, "use", {})
liveliness_declare_token(p, h) == OnSession(p, h, "use", {})
session_get(p, h) == OnSession(p, h, "get", {})
liveliness_get(p, h) == OnSession(p, h, "get", {})
session_declare_publisher(p, h) == OnSession(p, h, "declare", {"publisher"})
session_declare_querier(p, h) == OnSession(p, h, "declare", {"querier"})
session_declare_subscriber(p, h) == OnSession(p, h, "declare", {"subscriber"})
session_declare_queryable(p, h) == OnSession(p, h, "declare", {"queryable"})
liveliness_declare_subscriber(p, h) == OnSession(p, h, "declare", {"subscriber"})

\* session_close takes the session out of the map before it waits for it.
session_close_KeepsEntry(p, h) == OnSession(p, h, "close", {})
session_close(p, h) ==
  /\ h \in held
  /\ Enter(p, get_session(zid[h]), "close", {}, h, None)
  /\ map' = [map EXCEPT ![zid[h]] = None]
  /\ UNCHANGED <<zid, closed, ents, nextEnt, handles, doomed, pend, darc>>

publisher_put(p, e) == OnEntity(p, e, "use", {"publisher"})
publisher_delete(p, e) == OnEntity(p, e, "use", {"publisher"})
querier_get_async(p, e) == OnEntity(p, e, "use", {"querier"})
querier_get(p, e) == OnEntity(p, e, "get", {"querier"})
matching_status(p, e) == OnEntity(p, e, "use", {"publisher", "querier"})
matching_declare_listener(p, e) == OnEntity(p, e, "use", {"publisher", "querier"})
publisher_undeclare(p, e) == OnEntity(p, e, "undeclare", {"publisher"})
querier_undeclare(p, e) == OnEntity(p, e, "undeclare", {"querier"})
subscriber_undeclare(p, e) == OnEntity(p, e, "undeclare", {"subscriber"})
queryable_undeclare(p, e) == OnEntity(p, e, "undeclare", {"queryable"})
-----------------------------------------------------------------------------
(* Inside a NIF.                                                           *)

Acquire(p) ==
  /\ pc[p] = "lock"
  /\ IF Exclusive(p) THEN CanWrite(call[p].arc) ELSE CanRead(call[p].arc)
  /\ pc' = [pc EXCEPT ![p] = "body"]
  /\ UNCHANGED <<zid, map, closed, ents, nextEnt, handles, doomed, call, pend, darc>>

\* get_entity and the match on the kind; sessions number their entities
\* alike, so a stale handle may find an entity of a later session.
get_entity(s, e) == ents[s][e[2]]
Found_AnyKind(p) == get_entity(call[p].arc, call[p].entity) # None
Found(p) == LET x == get_entity(call[p].arc, call[p].entity)
            IN  x # None /\ x.kind \in call[p].kinds

\* The body is over and the registry unchanged: a put or the like is done,
\* or there is no such entity, or it is of another kind, or the options or
\* zenoh made the NIF fail.
Return(p) ==
  /\ pc[p] = "body"
  /\ Exclusive(p) /\ call[p].op # "declare" => ~Found(p)
  /\ Finish(p, ents, closed)
  /\ UNCHANGED <<zid, nextEnt, handles>>

\* The gets keep the guard until the reply channel exists, and the Arc until
\* the replies are collected.
StartGet(p) ==
  /\ pc[p] = "body" /\ call[p].op = "get"
  /\ call[p].entity # None => Found(p)
  /\ pc' = [pc EXCEPT ![p] = "collect"]
  /\ UNCHANGED <<zid, map, closed, ents, nextEnt, handles, doomed, call, pend, darc>>

EndGet(p) ==
  /\ pc[p] = "collect"
  /\ Finish(p, ents, closed)
  /\ UNCHANGED <<zid, nextEnt, handles>>

\* insert_entity: zenoh refuses a declaration on a closed session and
\* numbers the entities of a session in order.
Declare(p) ==
  LET s == call[p].arc
      n == nextEnt[s]
  IN  /\ pc[p] = "body" /\ call[p].op = "declare"
      /\ s \notin closed /\ n \in EntNum
      /\ \E k \in call[p].kinds :
           Finish(p, [ents EXCEPT ![s][n] = [kind |-> k, owner |-> call[p].handle]],
                  closed)
      /\ nextEnt' = [nextEnt EXCEPT ![s] = n + 1]
      /\ eheld' = eheld \cup {<<s, n>>}
      /\ UNCHANGED <<zid, held, edoomed>>

Close(p) ==
  /\ pc[p] = "body" /\ call[p].op = "close"
  /\ Finish(p, ents, closed \cup {call[p].arc})
  /\ UNCHANGED <<zid, nextEnt, handles>>

\* The undeclarations look the entity up and check its kind, then remove it.
CheckEntity(p) ==
  /\ pc[p] = "body" /\ call[p].op \in {"undeclare", "drop"}
  /\ Found(p)
  /\ pc' = [pc EXCEPT ![p] = "checked"]
  /\ UNCHANGED <<zid, map, closed, ents, nextEnt, handles, doomed, call, pend, darc>>

\* remove_entity.  The entity's session handle goes while the write guard
\* is still there; when that was its last reference the destructor runs
\* then and there ("inline") or later, on some thread ("scheduled").
Remove_Inline(p) ==
  LET E == [ents EXCEPT ![call[p].arc][call[p].entity[2]] = None]
  IN  /\ pc[p] = "checked"
      /\ IF Released(E) # {}
         THEN /\ pc' = [pc EXCEPT ![p] = "nested"]
              /\ ents' = E
              /\ pend' = [pend EXCEPT ![p] = Released(E)]
              /\ UNCHANGED <<map, closed, doomed, call, darc>>
         ELSE Finish(p, E, closed)
      /\ UNCHANGED <<zid, nextEnt, handles>>
Remove(p) ==
  LET E == [ents EXCEPT ![call[p].arc][call[p].entity[2]] = None]
  IN  /\ pc[p] = "checked"
      /\ IF Drops = "inline" /\ Released(E) # {}
         THEN /\ pc' = [pc EXCEPT ![p] = "nested"]
              /\ ents' = E
              /\ pend' = [pend EXCEPT ![p] = Released(E)]
              /\ UNCHANGED <<map, closed, doomed, call, darc>>
         ELSE Finish(p, E, closed)
      /\ UNCHANGED <<zid, nextEnt, handles>>

NestedDone(p) ==
  /\ pc[p] = "nested" /\ pend[p] = {} /\ darc[p] = None
  /\ Finish(p, ents, closed)
  /\ UNCHANGED <<zid, nextEnt, handles>>
-----------------------------------------------------------------------------
(* Handles becoming unreachable, and their destructors.  The arguments of  *)
(* a running NIF are reachable.                                            *)

ReleaseSession(h) ==
  /\ h \in held /\ \A p \in Proc : call[p].handle # h
  /\ KeepSession => ~Owns(ents, h)
  /\ held' = held \ {h}
  /\ doomed' = IF Owns(ents, h) THEN doomed ELSE doomed \cup {h}
  /\ UNCHANGED <<zid, map, closed, ents, nextEnt, eheld, edoomed, pc, call, pend, darc>>

ReleaseEntity(e) ==
  /\ e \in eheld /\ \A p \in Proc : call[p].entity # e
  /\ eheld' = eheld \ {e}
  /\ edoomed' = edoomed \cup {e}
  /\ UNCHANGED <<zid, map, closed, ents, nextEnt, held, doomed, pc, call, pend, darc>>

\* EntityGlobalIdResource::drop looks the session up and, if it is there,
\* goes on like an undeclaration of any kind.
DropEntity_Forgets(p, e) ==
  /\ e \in edoomed /\ pc[p] = "idle"
  /\ edoomed' = edoomed \ {e}
  /\ UNCHANGED <<zid, map, closed, ents, nextEnt, held, eheld, doomed,
                 pc, call, pend, darc>>
DropEntity(p, e) ==
  LET s == get_session(zid[e[1]])
  IN  /\ e \in edoomed /\ pc[p] = "idle"
      /\ edoomed' = edoomed \ {e}
      /\ IF s = None THEN UNCHANGED <<pc, call>>
                     ELSE Enter(p, s, "drop", Kinds, None, e)
      /\ UNCHANGED <<zid, map, closed, ents, nextEnt, held, eheld, doomed, pend, darc>>

\* SessionIdResource::drop removes whatever session has the handle's zid.
RemoveFromMap(p, h) ==
  /\ map' = [map EXCEPT ![zid[h]] = None]
  /\ darc' = [darc EXCEPT ![p] = map[zid[h]]]
  /\ UNCHANGED <<zid, closed, ents, nextEnt, handles, call>>

DropSession(p, h) ==
  /\ h \in doomed /\ pc[p] = "idle"
  /\ doomed' = doomed \ {h}
  /\ RemoveFromMap(p, h)
  /\ pc' = IF map[zid[h]] = None THEN pc ELSE [pc EXCEPT ![p] = "dtor"]
  /\ UNCHANGED pend

DropNested(p, h) ==
  /\ h \in pend[p] /\ pc[p] = "nested" /\ darc[p] = None
  /\ pend' = [pend EXCEPT ![p] = @ \ {h}]
  /\ RemoveFromMap(p, h)
  /\ UNCHANGED <<pc, doomed>>

\* It closes the session under the session's read lock and drops its Arc.
\* Handles that go with the entities of that session follow.
CloseDropped(p) ==
  LET s == darc[p]
  IN  /\ s # None /\ CanRead(s)
      /\ darc' = [darc EXCEPT ![p] = None]
      /\ UNCHANGED <<zid, map, nextEnt, handles, call>>
      /\ DropArc(s, ents, closed \cup {s})
      /\ IF pc[p] = "nested"
         THEN /\ pend' = [pend EXCEPT ![p] = @ \cup Released(ents')]
              /\ UNCHANGED <<pc, doomed>>
         ELSE /\ doomed' = doomed \cup Released(ents')
              /\ pc' = [pc EXCEPT ![p] = "idle"]
              /\ UNCHANGED pend
-----------------------------------------------------------------------------
SessionNif(p, h) ==
  \/ session_put(p, h) \/ session_delete(p, h)
  \/ session_new_timestamp(p, h) \/ session_info(p, h)
  \/ session_get(p, h) \/ liveliness_get(p, h)
  \/ liveliness_declare_token(p, h) \/ session_close(p, h)

DeclareNif(p, h) ==
  \/ "publisher" \in Kind /\ session_declare_publisher(p, h)
  \/ "querier" \in Kind /\ session_declare_querier(p, h)
  \/ "subscriber" \in Kind /\ session_declare_subscriber(p, h)
  \/ "subscriber" \in Kind /\ liveliness_declare_subscriber(p, h)
  \/ "queryable" \in Kind /\ session_declare_queryable(p, h)

EntityNif(p, e) ==
  \/ publisher_put(p, e) \/ publisher_delete(p, e) \/ publisher_undeclare(p, e)
  \/ querier_get(p, e) \/ querier_get_async(p, e) \/ querier_undeclare(p, e)
  \/ matching_status(p, e) \/ matching_declare_listener(p, e)
  \/ subscriber_undeclare(p, e) \/ queryable_undeclare(p, e)

Body(p) ==
  \/ Return(p) \/ StartGet(p) \/ Declare(p) \/ Close(p)
  \/ CheckEntity(p) \/ Remove(p) \/ NestedDone(p)

Next ==
  \/ \E s \in Sess, z \in Zid : session_open(s, z)
  \/ \E p \in Proc, h \in Sess : SessionNif(p, h) \/ DeclareNif(p, h)
  \/ \E p \in Proc, e \in EntId : EntityNif(p, e)
  \/ \E p \in Proc : Acquire(p) \/ Body(p) \/ EndGet(p) \/ CloseDropped(p)
  \/ \E h \in Sess : ReleaseSession(h)
  \/ \E e \in EntId : ReleaseEntity(e)
  \/ \E p \in Proc, e \in EntId : DropEntity(p, e)
  \/ \E p \in Proc, h \in Sess : DropSession(p, h) \/ DropNested(p, h)

Spec == Init /\ [][Next]_vars

\* A thread inside a NIF runs, and takes a lock that is free again and again.
\* Clients need not do anything, and a get may collect replies forever.
ThreadFairness ==
  \A p \in Proc : /\ WF_vars(Body(p) \/ \E h \in Sess : DropNested(p, h))
                 /\ SF_vars(Acquire(p))
                 /\ SF_vars(CloseDropped(p))

\* A destructor that waits for an idle thread gets one.
DropFairness ==
  /\ \A h \in Sess : SF_vars(\E p \in Proc : DropSession(p, h))
  /\ \A e \in EntId : SF_vars(\E p \in Proc : DropEntity(p, e))

LiveSpec == Spec /\ ThreadFairness /\ DropFairness
-----------------------------------------------------------------------------
(* Safety.                                                                 *)

\* What SESSION_MAP hands out is open and is the session of that zid: every
\* closing path takes the session out of the map before it closes it.
MappedIsOpen ==
  \A z \in Zid : map[z] # None => zid[map[z]] = z /\ map[z] \notin closed

\* No session is left behind in the map: while it is there some handle with
\* its zid is referenced, or its destructor is still to come.
NoOrphan ==
  \A z \in Zid : map[z] # None =>
    \E h \in Sess : /\ zid[h] = z
                   /\ \/ Referenced(h) \/ h \in doomed
                      \/ \E p \in Proc : h \in pend[p]

\* The unreachable!() of the undeclarations: between the kind check and the
\* removal no other thread removes or changes the entity.
CheckedStaysFound == \A p \in Proc : pc[p] = "checked" => Found(p)

\* A session whose handle is held, by a term or by a declared entity, leaves
\* the map by session_close on that handle only.
HeldSessionStays ==
  [][\A h \in Sess :
       /\ zid[h] # None /\ map[zid[h]] = h /\ map'[zid[h]] # h
       /\ Referenced(h) /\ Referenced(h)'
       => \E p \in Proc : pc[p] = "idle" /\ call'[p].op = "close"
                         /\ call'[p].handle = h]_vars

\* Collecting a handle never closes a session whose own handle is held: such
\* a session leaves the map by session_close only.
HeldSessionSurvivesGC ==
  [][\A h \in Sess :
       /\ zid[h] # None /\ map[zid[h]] = h /\ map'[zid[h]] # h
       /\ h \in held /\ h \in held'
       => \E p \in Proc : pc[p] = "idle" /\ call'[p].op = "close"]_vars

\* An entity whose handle is held leaves its open session only by an
\* undeclaration of its own kind on that handle.
HeldEntityStays ==
  [][\A e \in eheld \cap eheld' :
       LET s == e[1]
           n == e[2]
       IN  /\ map[zid[s]] = s /\ map'[zid[s]] = s
           /\ ents[s][n] # None /\ ents'[s][n] = None
           => \E p \in Proc : /\ call[p].op = "undeclare" /\ call[p].entity = e
                             /\ ents[s][n].kind \in call[p].kinds]_vars
-----------------------------------------------------------------------------
(* Liveness.                                                               *)

\* Nothing is asked of a get: it may collect its replies forever.  It keeps
\* the Arc of its session then, and if every thread is in such a get, none is
\* left to run a destructor.
Collecting(s) ==
  \/ \E p \in Proc : pc[p] = "collect" /\ call[p].arc = s
  \/ \A p \in Proc : pc[p] = "collect"

\* A NIF that was called returns, or collects the replies of a get; however
\* long the gets of other threads do, they keep no lock meanwhile (the WHY
\* comments of session_get, querier_get and liveliness_get).
CallsReturn == \A p \in Proc : pc[p] # "idle" ~> pc[p] \in {"idle", "collect"}

\* A session that nothing refers to any more is closed.
SessionReclaimed ==
  \A s \in Sess :
    zid[s] # None /\ ~Referenced(s) ~> s \in closed \/ Collecting(s)

\* A session that left the map is closed, even if session_close failed.
UnmappedGetsClosed ==
  \A s \in Sess :
    zid[s] # None /\ map[zid[s]] # s ~> s \in closed \/ Collecting(s)

\* An entity whose handle nothing refers to is undeclared.
EntityReclaimed ==
  \A s \in Sess, n \in EntNum :
    ents[s][n] # None /\ <<s, n>> \notin eheld
    ~> ents[s][n] = None \/ Collecting(s)
-----------------------------------------------------------------------------
(* While zids are never reused, the registry keeps what Zenohex.Session    *)
(* promises.                                                               *)

Mapped == {s \in Sess : \E z \in Zid : map[z] = s}
Declared == {e \in Mapped \X EntNum : ents[e[1]][e[2]] # None}

Asked(p) == CASE call[p].op = "close" -> call[p].handle
              [] call[p].op = "undeclare" -> call[p].entity
              [] OTHER -> None

Contract == INSTANCE SessionContract
  WITH Client <- Proc, opened <- {s \in Sess : zid[s] # None}, open <- Mapped,
       decl <- Declared, asked <- [p \in Proc |-> Asked(p)]

\* Every step of the registry is a step of the contract or invisible to the
\* client: no session or entity whose handle is held goes away unasked.
KeepsContract == Contract!Spec
==========================================================================
