---------------------- MODULE SessionRegistryProofs ----------------------
(***************************************************************************)
(* Safety of SessionRegistry, for any number of threads, sessions, zids    *)
(* and entities, any policy for zids and any place for destructors: its    *)
(* types, that the map has open sessions only, that undeclarations find    *)
(* what they checked, and that no session is left open outside the map and *)
(* no entity left behind in it.                                            *)
(***************************************************************************)
EXTENDS SessionRegistry, TLAPS

Tables == [Sess -> [EntNum -> Entity \cup {None}]]
Inside == {"lock", "body", "checked", "nested", "collect"}

\* Every session and handle a step can look at was opened, and the map has a
\* session under its own zid.
KnownOwners(E) ==
  \A s \in Sess, n \in EntNum : E[s][n] # None => zid[E[s][n].owner] \in Zid
KnownCall(p) == /\ call[p].arc # None => zid[call[p].arc] \in Zid
                /\ call[p].handle # None => zid[call[p].handle] \in Zid
                /\ call[p].op = "declare" => call[p].handle # None
KnownIds ==
  /\ \A z \in Zid : map[z] # None => zid[map[z]] = z
  /\ \A s \in held \cup doomed : zid[s] \in Zid
  /\ \A e \in eheld \cup edoomed : zid[e[1]] \in Zid
  /\ \A p \in Proc : KnownCall(p) /\ \A s \in pend[p] : zid[s] \in Zid
  /\ KnownOwners(ents)
TypeInv == TypeOK /\ KnownIds

\* A thread inside a NIF has an Arc of a session.
LEMMA InsideHasArc ==
  ASSUME TypeOK, NEW p \in Proc, pc[p] \in Inside
  PROVE  call[p].arc \in Sess
<1>1. call[p] \in Call /\ ThreadOK(p)
  BY DEF TypeOK
<1>2. call[p].arc \in Sess \cup {None}
  BY <1>1 DEF Call
<1>3. call[p].arc # None
  BY <1>1 DEF ThreadOK, Inside
<1> QED
  BY <1>2, <1>3

\* Only destructors have an Arc in darc.
LEMMA NoDestructor ==
  ASSUME TypeOK, NEW p \in Proc, pc[p] \notin {"nested", "dtor"}
  PROVE  darc[p] = None
BY DEF TypeOK, ThreadOK

LEMMA NoCallType == NoCall \in Call /\ NoCall.arc = None
BY DEF NoCall, Call, Op, EntId

\* ThreadOK of a thread whose own state a step leaves alone.
LEMMA ThreadStutters ==
  ASSUME NEW q \in Proc, ThreadOK(q),
         pc'[q] = pc[q], call'[q] = call[q], darc'[q] = darc[q]
  PROVE  ThreadOK(q)'
BY DEF ThreadOK

\* Dropping an Arc keeps the tables tables.
LEMMA DropArcType ==
  ASSUME NEW s \in Sess, NEW E \in Tables, NEW C \in SUBSET Sess, DropArc(s, E, C)
  PROVE  ents' \in Tables /\ closed' \in SUBSET Sess
BY DEF DropArc, Tables, NoEntities

\* Returning from a NIF keeps the types of what it changes.
LEMMA FinishType ==
  ASSUME TypeOK, NEW p \in Proc, pc[p] \in Inside, darc[p] = None,
         NEW E \in Tables, NEW C \in SUBSET Sess, Finish(p, E, C)
  PROVE  /\ map' = map /\ darc' = darc /\ pend' = pend
         /\ ents' \in Tables /\ closed' \subseteq Sess /\ doomed' \subseteq Sess
         /\ pc' \in [Proc -> Pc] /\ call' \in [Proc -> Call]
         /\ \A q \in Proc : ThreadOK(q)'
<1>1. call[p].arc \in Sess
  BY InsideHasArc
<1>2. ents' \in Tables /\ closed' \subseteq Sess
  BY <1>1, DropArcType DEF Finish
<1>3. map' = map /\ darc' = darc /\ pend' = pend
  BY DEF Finish
<1>4. doomed' \subseteq Sess
  BY DEF Finish, TypeOK, Released
<1>5. pc \in [Proc -> Pc] /\ call \in [Proc -> Call]
  BY DEF TypeOK
<1>6. pc' = [pc EXCEPT ![p] = "idle"] /\ call' = [call EXCEPT ![p] = NoCall]
  BY DEF Finish
<1>7. pc' \in [Proc -> Pc] /\ call' \in [Proc -> Call]
  BY <1>5, <1>6, NoCallType DEF Pc
<1>8. ASSUME NEW q \in Proc PROVE ThreadOK(q)'
  <2>1. CASE q = p
    BY <1>3, <1>5, <1>6, <2>1, NoCallType DEF ThreadOK
  <2>2. CASE q # p
    <3>1. ThreadOK(q)
      BY DEF TypeOK
    <3> QED
      BY <1>3, <1>5, <1>6, <2>2, <3>1, ThreadStutters
  <2> QED
    BY <2>1, <2>2
<1> QED
  BY <1>2, <1>3, <1>4, <1>7, <1>8

\* Entering a NIF keeps the types of what it changes.
LEMMA EnterType ==
  ASSUME TypeOK, NEW p \in Proc, NEW s \in Sess \cup {None}, NEW o \in Op,
         NEW K \in SUBSET Kinds, NEW h \in Sess \cup {None},
         NEW e \in EntId \cup {None}, Enter(p, s, o, K, h, e), darc' = darc
  PROVE  /\ pc' \in [Proc -> Pc] /\ call' \in [Proc -> Call]
         /\ \A q \in Proc : ThreadOK(q)'
<1> DEFINE c == [op |-> o, kinds |-> K, arc |-> s, handle |-> h, entity |-> e]
<1>1. c \in Call /\ c.arc # None
  BY DEF Call, Enter
<1>2. pc' = [pc EXCEPT ![p] = "lock"] /\ call' = [call EXCEPT ![p] = c]
  BY DEF Enter
<1> HIDE DEF c
<1>3. pc \in [Proc -> Pc] /\ call \in [Proc -> Call]
  BY DEF TypeOK
<1>4. pc' \in [Proc -> Pc] /\ call' \in [Proc -> Call]
  BY <1>1, <1>2, <1>3 DEF Pc
<1>5. ASSUME NEW q \in Proc PROVE ThreadOK(q)'
  <2>1. CASE q = p
    <3>1. darc[p] = None
      BY NoDestructor DEF Enter
    <3> QED
      BY <1>1, <1>2, <1>3, <2>1, <3>1 DEF ThreadOK
  <2>2. CASE q # p
    <3>1. ThreadOK(q)
      BY DEF TypeOK
    <3> QED
      BY <1>2, <1>3, <2>2, <3>1, ThreadStutters
  <2> QED
    BY <2>1, <2>2
<1> QED
  BY <1>4, <1>5
-----------------------------------------------------------------------------
(* The NIFs enter in three ways.                                           *)

LEMMA SessionNifEnters ==
  ASSUME NEW p \in Proc, NEW h \in Sess, SessionNif(p, h) \/ DeclareNif(p, h)
  PROVE  \/ session_close(p, h)
         \/ \E o \in {"use", "get", "declare"}, K \in SUBSET Kinds : OnSession(p, h, o, K)
<1> DEFINE Enters == \E o \in {"use", "get", "declare"}, K \in SUBSET Kinds :
                       OnSession(p, h, o, K)
<1>1. ASSUME NEW o \in {"use", "get"}, OnSession(p, h, o, {}) PROVE Enters
  BY <1>1
<1>2. ASSUME NEW k \in Kinds, OnSession(p, h, "declare", {k}) PROVE Enters
  BY <1>2
<1> HIDE DEF Enters
<1>3. CASE SessionNif(p, h)
  BY <1>1, <1>3 DEF SessionNif, session_put, session_delete,
     session_new_timestamp, session_info, session_get, liveliness_get,
     liveliness_declare_token
<1>4. CASE DeclareNif(p, h)
  BY <1>2, <1>4 DEF DeclareNif, Kinds, session_declare_publisher,
     session_declare_querier, session_declare_subscriber,
     liveliness_declare_subscriber, session_declare_queryable
<1> QED
  BY <1>3, <1>4

LEMMA EntityNifEnters ==
  ASSUME NEW p \in Proc, NEW e \in EntId, EntityNif(p, e)
  PROVE  \E o \in {"use", "get", "undeclare"}, K \in SUBSET Kinds : OnEntity(p, e, o, K)
<1>1. ASSUME NEW o \in {"use", "get", "undeclare"}, NEW K \in SUBSET Kinds,
             OnEntity(p, e, o, K)
      PROVE  \E oo \in {"use", "get", "undeclare"}, KK \in SUBSET Kinds :
               OnEntity(p, e, oo, KK)
  BY <1>1
<1> QED
  BY <1>1 DEF EntityNif, Kinds, publisher_put, publisher_delete,
     publisher_undeclare, querier_get, querier_get_async, querier_undeclare,
     matching_status, matching_declare_listener, subscriber_undeclare,
     queryable_undeclare
-----------------------------------------------------------------------------
(* Types.                                                                  *)

\* A lookup answers a session or None.
LEMMA LookupType ==
  ASSUME TypeOK, NEW h \in Sess, zid[h] \in Zid
  PROVE  get_session(zid[h]) \in Sess \cup {None}
BY DEF get_session, TypeOK

LEMMA InitType == Init => TypeOK
<1> SUFFICES ASSUME Init PROVE TypeOK
  OBVIOUS
<1>1. nextEnt \in [Sess -> 1 .. MaxEnt + 1]
  BY MaxEntAssumption DEF Init
<1>2. call \in [Proc -> Call]
  BY NoCallType DEF Init
<1>3. ents \in [Sess -> [EntNum -> Entity \cup {None}]]
  BY DEF Init, NoEntities
<1>4. \A p \in Proc : ThreadOK(p)
  BY NoCallType DEF Init, ThreadOK
<1> QED
  BY <1>1, <1>2, <1>3, <1>4 DEF Init, TypeOK, Pc

LEMMA InitIds == Init => KnownIds
BY NoCallType DEF Init, KnownIds, KnownOwners, KnownCall, NoEntities, NoCall

\* What is released was owned.
LEMMA ReleasedKnown ==
  ASSUME TypeOK, KnownIds, NEW E
  PROVE  Released(E) \subseteq Sess /\ \A h \in Released(E) : zid[h] \in Zid
BY DEF Released, Owns, KnownIds, KnownOwners, TypeOK

LEMMA FinishIds ==
  ASSUME TypeInv, NEW p \in Proc, pc[p] \in Inside, zid' = zid,
         NEW E \in Tables, NEW C \in SUBSET Sess, Finish(p, E, C), KnownOwners(E)
  PROVE  /\ \A s \in doomed' : zid'[s] \in Zid
         /\ \A q \in Proc : KnownCall(q)' /\ \A s \in pend'[q] : zid'[s] \in Zid
         /\ KnownOwners(ents)'
<1> USE DEF TypeInv
<1>1. \A s \in doomed' : zid'[s] \in Zid
  BY ReleasedKnown DEF Finish, KnownIds
<1>2. call \in [Proc -> Call]
  BY DEF TypeOK
<1>3. ASSUME NEW q \in Proc PROVE KnownCall(q)'
  BY <1>2, NoCallType DEF Finish, KnownIds, KnownCall, NoCall
<1>4. \A q \in Proc : \A s \in pend'[q] : zid'[s] \in Zid
  BY DEF Finish, KnownIds
<1>5. KnownOwners(ents)'
  BY <1>2, InsideHasArc DEF Finish, DropArc, KnownOwners, Tables, NoEntities
<1> QED
  BY <1>1, <1>3, <1>4, <1>5

\* A NIF returning with tables E and closed sessions C.
LEMMA FinishStep ==
  ASSUME TypeInv, NEW p \in Proc, pc[p] \in Inside, darc[p] = None, zid' = zid,
         NEW E \in Tables, NEW C \in SUBSET Sess, Finish(p, E, C), KnownOwners(E),
         nextEnt' \in [Sess -> 1 .. MaxEnt + 1], held' = held, edoomed' = edoomed,
         eheld' \subseteq EntId, \A e \in eheld' : zid[e[1]] \in Zid
  PROVE  TypeInv'
<1>1. TypeOK'
  BY FinishType DEF TypeInv, TypeOK, Tables
<1>2. KnownIds'
  <2>1. map' = map
    BY DEF Finish
  <2> QED
    BY <2>1, FinishIds DEF TypeInv, KnownIds
<1> QED
  BY <1>1, <1>2 DEF TypeInv

\* The registry's tables as the last state left them.
LEMMA TablesNow ==
  ASSUME TypeInv
  PROVE  ents \in Tables /\ closed \in SUBSET Sess /\ KnownOwners(ents)
BY DEF TypeInv, TypeOK, KnownIds, Tables

\* A NIF beginning on the session s.
LEMMA EnterStep ==
  ASSUME TypeInv, NEW p \in Proc, NEW z \in Zid, NEW o \in Op,
         NEW K \in SUBSET Kinds, NEW h \in Sess \cup {None},
         NEW e \in EntId \cup {None}, Enter(p, get_session(z), o, K, h, e),
         h # None => zid[h] \in Zid, o = "declare" => h # None,
         UNCHANGED <<zid, closed, ents, nextEnt, held, eheld, doomed, pend, darc>>,
         \/ map' = map \/ map' = [map EXCEPT ![z] = None],
         edoomed' \subseteq edoomed
  PROVE  TypeInv'
<1> DEFINE s == get_session(z)
<1>1. s \in Sess \cup {None} /\ s # None
  BY DEF get_session, TypeInv, TypeOK, Enter
<1>2. zid[s] \in Zid
  BY <1>1 DEF get_session, TypeInv, KnownIds
<1>3. /\ pc' \in [Proc -> Pc] /\ call' \in [Proc -> Call]
      /\ \A q \in Proc : ThreadOK(q)'
  BY <1>1, EnterType DEF TypeInv
<1>4. TypeOK'
  BY <1>3 DEF TypeInv, TypeOK
<1>5. ASSUME NEW q \in Proc PROVE KnownCall(q)'
  BY <1>2 DEF Enter, KnownCall, TypeInv, TypeOK, KnownIds
<1>6. KnownOwners(ents)'
  BY DEF KnownOwners, TypeInv, KnownIds
<1>7. \A x \in Zid : map'[x] # None => zid'[map'[x]] = x
  BY DEF TypeInv, KnownIds, TypeOK
<1>8. KnownIds'
  BY <1>5, <1>6, <1>7 DEF TypeInv, KnownIds
<1> QED
  BY <1>4, <1>8 DEF TypeInv

LEMMA OnSessionStep ==
  ASSUME TypeInv, NEW p \in Proc, NEW h \in Sess, NEW o \in Op, NEW K \in SUBSET Kinds,
         OnSession(p, h, o, K)
  PROVE  TypeInv'
<1>1. zid[h] \in Zid
  BY DEF OnSession, TypeInv, KnownIds
<1>2. h # None
  BY NoneAssumption
<1>3. /\ Enter(p, get_session(zid[h]), o, K, h, None)
      /\ UNCHANGED <<zid, map, closed, ents, nextEnt, held, eheld, doomed, edoomed, pend, darc>>
  BY DEF OnSession, handles
<1> QED
  BY <1>1, <1>2, <1>3, EnterStep

LEMMA OnEntityStep ==
  ASSUME TypeInv, NEW p \in Proc, NEW e \in EntId, NEW o \in Op \ {"declare"}, NEW K \in SUBSET Kinds,
         OnEntity(p, e, o, K)
  PROVE  TypeInv'
<1>1. zid[e[1]] \in Zid
  BY DEF OnEntity, TypeInv, KnownIds
<1>2. /\ Enter(p, get_session(zid[e[1]]), o, K, None, e)
      /\ UNCHANGED <<zid, map, closed, ents, nextEnt, held, eheld, doomed, edoomed, pend, darc>>
  BY DEF OnEntity, handles
<1> QED
  BY <1>1, <1>2, EnterStep

LEMMA session_closeStep ==
  ASSUME TypeInv, NEW p \in Proc, NEW h \in Sess, session_close(p, h)
  PROVE  TypeInv'
<1>1. zid[h] \in Zid /\ "close" \in Op
  BY DEF session_close, TypeInv, KnownIds, Op
<1>2. /\ Enter(p, get_session(zid[h]), "close", {}, h, None)
      /\ map' = [map EXCEPT ![zid[h]] = None]
      /\ UNCHANGED <<zid, closed, ents, nextEnt, held, eheld, doomed, edoomed, pend, darc>>
  BY DEF session_close, handles
<1> QED
  BY <1>1, <1>2, EnterStep

LEMMA session_openStep ==
  ASSUME TypeInv, NEW s \in Sess, NEW z \in Zid, session_open(s, z)
  PROVE  TypeInv'
<1> USE DEF TypeInv, session_open
<1>1. None \notin Zid /\ None \notin Sess
  BY NoneAssumption
<1>2. /\ zid' = [zid EXCEPT ![s] = z] /\ map' = [map EXCEPT ![z] = s]
      /\ UNCHANGED <<nextEnt, eheld, edoomed, pc, call, pend, darc>> /\ zid[s] = None
  OBVIOUS
<1>3. /\ ents' \in Tables /\ closed' \in SUBSET Sess /\ KnownOwners(ents')
  <2>1. CASE map[z] = None
    BY <2>1, TablesNow
  <2>2. CASE map[z] # None
    <3>1. map[z] \in Sess /\ DropArc(map[z], ents, closed)
      BY <2>2 DEF TypeOK
    <3>2. ents \in Tables /\ closed \in SUBSET Sess /\ KnownOwners(ents)
      BY TablesNow
    <3> HIDE DEF session_open, TypeInv
    <3>3. ents' \in Tables /\ closed' \in SUBSET Sess
      BY <3>1, <3>2, DropArcType
    <3> QED
      BY <3>1, <3>2, <3>3 DEF DropArc, KnownOwners, NoEntities, Tables
  <2> QED
    BY <2>1, <2>2
<1>4. \A h \in Sess : zid[h] \in Zid => zid'[h] \in Zid
  BY <1>2 DEF TypeOK
<1>5. held' \subseteq Sess /\ \A h \in held' : zid'[h] \in Zid
  BY <1>2, <1>4 DEF TypeOK, KnownIds
<1>6. doomed' \subseteq Sess /\ \A h \in doomed' : zid'[h] \in Zid
  BY <1>4, ReleasedKnown DEF TypeOK, KnownIds
<1>7. TypeOK'
  <2>1. zid' \in [Sess -> Zid \cup {None}] /\ map' \in [Zid -> Sess \cup {None}]
    BY <1>2 DEF TypeOK
  <2>2. \A p \in Proc : ThreadOK(p)'
    BY <1>2, ThreadStutters DEF TypeOK
  <2> QED
    BY <1>2, <1>3, <1>5, <1>6, <2>1, <2>2 DEF TypeOK, Tables
<1>8. KnownOwners(ents)'
  <2>1. ASSUME NEW r \in Sess, NEW n \in EntNum, ents'[r][n] # None
        PROVE  zid'[ents'[r][n].owner] \in Zid
    <3>1. ents'[r][n] \in Entity
      BY <1>3, <2>1 DEF Tables
    <3>2. ents'[r][n].owner \in Sess
      BY <3>1 DEF Entity
    <3> QED
      BY <1>3, <1>4, <2>1, <3>2 DEF KnownOwners
  <2> QED
    BY <2>1 DEF KnownOwners
<1>9. \A x \in Zid : map'[x] # None => zid'[map'[x]] = x
  BY <1>1, <1>2 DEF TypeOK, KnownIds
<1>10. \A e \in eheld' \cup edoomed' : zid'[e[1]] \in Zid
  BY <1>2, <1>4 DEF TypeOK, KnownIds, EntId
<1>11. \A p \in Proc : KnownCall(p)' /\ \A h \in pend'[p] : zid'[h] \in Zid
  BY <1>2, <1>4 DEF TypeOK, KnownIds, KnownCall, Call
<1> QED
  BY <1>5, <1>6, <1>7, <1>8, <1>9, <1>10, <1>11 DEF KnownIds

LEMMA BodyStep ==
  ASSUME TypeInv, NEW p \in Proc, Body(p)
  PROVE  TypeInv'
<1>1. ASSUME Return(p) PROVE TypeInv'
  <2>1. pc[p] \in Inside /\ darc[p] = None
    BY <1>1, NoDestructor DEF Return, Inside, TypeInv
  <2> QED
    BY <1>1, <2>1, TablesNow, FinishStep DEF Return, TypeInv, TypeOK, KnownIds, handles
<1>2. ASSUME StartGet(p) PROVE TypeInv'
  <2>1. TypeOK'
    BY <1>2 DEF StartGet, TypeInv, TypeOK, Pc, ThreadOK, handles
  <2>2. KnownIds'
    BY <1>2 DEF StartGet, TypeInv, KnownIds, KnownCall, KnownOwners, handles
  <2> QED
    BY <2>1, <2>2 DEF TypeInv
<1>3. ASSUME Declare(p) PROVE TypeInv'
  <2> DEFINE s == call[p].arc
             n == nextEnt[s]
  <2>1. pc[p] \in Inside /\ darc[p] = None /\ s \in Sess /\ n \in EntNum
    BY <1>3, InsideHasArc, NoDestructor DEF Declare, Inside, TypeInv
  <2>2. /\ call[p].handle \in Sess /\ zid[call[p].handle] \in Zid
        /\ call[p].kinds \subseteq Kinds
    BY <1>3 DEF Declare, TypeInv, TypeOK, KnownIds, KnownCall, Call
  <2>3. PICK k \in call[p].kinds :
          Finish(p, [ents EXCEPT ![s][n] = [kind |-> k, owner |-> call[p].handle]],
                 closed)
    BY <1>3 DEF Declare
  <2> DEFINE E == [ents EXCEPT ![s][n] = [kind |-> k, owner |-> call[p].handle]]
  <2> HIDE DEF s, n
  <2>4. E \in Tables /\ KnownOwners(E)
    <3> DEFINE x == [kind |-> k, owner |-> call[p].handle]
    <3>1. x \in Entity /\ zid[x.owner] \in Zid
      BY <2>2 DEF Entity
    <3> HIDE DEF x
    <3>2. ents \in Tables /\ KnownOwners(ents)
      BY TablesNow
    <3>3. E = [ents EXCEPT ![s][n] = x]
      BY DEF x, s, n
    <3> HIDE DEF E
    <3>4. E \in Tables
      BY <2>1, <3>1, <3>2, <3>3 DEF Tables
    <3>5. ASSUME NEW r \in Sess, NEW m \in EntNum, E[r][m] # None
          PROVE  zid[E[r][m].owner] \in Zid
      <4>1. E[r][m] = x \/ E[r][m] = ents[r][m]
        BY <2>1, <3>2, <3>3 DEF Tables
      <4> QED
        BY <3>1, <3>2, <3>5, <4>1 DEF KnownOwners
    <3> QED
      BY <3>4, <3>5 DEF KnownOwners
  <2>5. nextEnt' \in [Sess -> 1 .. MaxEnt + 1]
    <3>1. nextEnt' = [nextEnt EXCEPT ![s] = n + 1] /\ n + 1 \in 1 .. MaxEnt + 1
      BY <1>3, <2>1, MaxEntAssumption DEF Declare, EntNum, s, n
    <3> QED
      BY <3>1 DEF TypeInv, TypeOK
  <2>6. eheld' \subseteq EntId /\ \A e \in eheld' : zid[e[1]] \in Zid
    <3>1. eheld' = eheld \cup {<<s, n>>}
      BY <1>3 DEF Declare, s, n
    <3>2. zid[s] \in Zid
      BY <2>1, NoneAssumption DEF TypeInv, KnownIds, KnownCall, s
    <3> QED
      BY <2>1, <3>1, <3>2 DEF TypeInv, TypeOK, KnownIds, EntId
  <2>7. UNCHANGED <<zid, held, edoomed>>
    BY <1>3 DEF Declare
  <2> QED
    BY <2>1, <2>3, <2>4, <2>5, <2>6, <2>7, TablesNow, FinishStep
<1>4. ASSUME Close(p) PROVE TypeInv'
  <2>1. pc[p] \in Inside /\ darc[p] = None /\ call[p].arc \in Sess
    BY <1>4, InsideHasArc, NoDestructor DEF Close, Inside, TypeInv
  <2>2. closed \cup {call[p].arc} \in SUBSET Sess
    BY <2>1, TablesNow
  <2> QED
    BY <1>4, <2>1, <2>2, TablesNow, FinishStep DEF Close, TypeInv, TypeOK, KnownIds, handles
<1>5. ASSUME CheckEntity(p) PROVE TypeInv'
  <2>1. TypeOK'
    BY <1>5 DEF CheckEntity, TypeInv, TypeOK, Pc, ThreadOK, handles
  <2>2. KnownIds'
    BY <1>5 DEF CheckEntity, TypeInv, KnownIds, KnownCall, KnownOwners, handles
  <2> QED
    BY <2>1, <2>2 DEF TypeInv
<1>6. ASSUME Remove(p) PROVE TypeInv'
  <2>1. pc[p] \in Inside /\ darc[p] = None
    BY <1>6, NoDestructor DEF Remove, Inside, TypeInv
  <2> DEFINE E == [ents EXCEPT ![call[p].arc][call[p].entity[2]] = None]
  <2>2. E \in Tables /\ KnownOwners(E)
    BY TablesNow DEF Tables, KnownOwners
  <2>3. CASE Finish(p, E, closed)
    BY <1>6, <2>1, <2>2, <2>3, TablesNow, FinishStep
       DEF Remove, TypeInv, TypeOK, KnownIds, handles
  <2>4. CASE ~Finish(p, E, closed)
    <3>1. /\ pc' = [pc EXCEPT ![p] = "nested"] /\ ents' = E
          /\ pend' = [pend EXCEPT ![p] = Released(E)]
          /\ UNCHANGED <<zid, map, closed, nextEnt, held, eheld, edoomed, doomed, call, darc>>
          /\ pc[p] = "checked"
      BY <1>6, <2>4 DEF Remove, handles
    <3> HIDE DEF E
    <3>2. TypeOK'
      <4>1. \A q \in Proc : ThreadOK(q)'
        BY <3>1 DEF ThreadOK, TypeInv, TypeOK
      <4> QED
        BY <2>2, <3>1, <4>1, ReleasedKnown DEF TypeInv, TypeOK, Tables, Pc
    <3>3. KnownIds'
      <4>1. KnownOwners(ents)'
        BY <2>2, <3>1 DEF KnownOwners
      <4>2. \A q \in Proc : KnownCall(q)' /\ \A h \in pend'[q] : zid'[h] \in Zid
        BY <3>1, ReleasedKnown DEF TypeInv, TypeOK, KnownIds, KnownCall
      <4> QED
        BY <3>1, <4>1, <4>2 DEF TypeInv, KnownIds
    <3> QED
      BY <3>2, <3>3 DEF TypeInv
  <2> QED
    BY <2>3, <2>4
<1>7. ASSUME NestedDone(p) PROVE TypeInv'
  <2>1. pc[p] \in Inside /\ darc[p] = None
    BY <1>7 DEF NestedDone, Inside
  <2> QED
    BY <1>7, <2>1, TablesNow, FinishStep DEF NestedDone, TypeInv, TypeOK, KnownIds, handles
<1> QED
  BY <1>1, <1>2, <1>3, <1>4, <1>5, <1>6, <1>7 DEF Body

LEMMA AcquireStep ==
  ASSUME TypeInv, NEW p \in Proc, Acquire(p)
  PROVE  TypeInv'
<1>1. TypeOK'
  BY DEF Acquire, TypeInv, TypeOK, Pc, ThreadOK, handles
<1>2. KnownIds'
  BY DEF Acquire, TypeInv, KnownIds, KnownCall, KnownOwners, handles
<1> QED
  BY <1>1, <1>2 DEF TypeInv

LEMMA EndGetStep ==
  ASSUME TypeInv, NEW p \in Proc, EndGet(p)
  PROVE  TypeInv'
<1>1. pc[p] \in Inside /\ darc[p] = None
  BY NoDestructor DEF EndGet, Inside, TypeInv
<1> QED
  BY <1>1, TablesNow, FinishStep DEF EndGet, TypeInv, TypeOK, KnownIds, handles

\* Handles becoming unreachable.
LEMMA ReleaseStep ==
  ASSUME TypeInv,
         \/ \E h \in Sess : ReleaseSession(h)
         \/ \E e \in EntId : ReleaseEntity(e)
  PROVE  TypeInv'
<1>1. UNCHANGED <<zid, map, closed, ents, nextEnt, pc, call, pend, darc>>
  BY DEF ReleaseSession, ReleaseEntity
<1>2. /\ held' \cup doomed' \subseteq held \cup doomed
      /\ eheld' \cup edoomed' \subseteq eheld \cup edoomed
  BY DEF ReleaseSession, ReleaseEntity
<1>3. TypeOK'
  BY <1>1, <1>2 DEF TypeInv, TypeOK, ThreadOK
<1>4. KnownIds'
  BY <1>1, <1>2 DEF TypeInv, KnownIds, KnownCall, KnownOwners
<1> QED
  BY <1>3, <1>4 DEF TypeInv

LEMMA DropEntityStep ==
  ASSUME TypeInv, NEW p \in Proc, NEW e \in EntId, DropEntity(p, e)
  PROVE  TypeInv'
<1> DEFINE s == get_session(zid[e[1]])
<1>1. zid[e[1]] \in Zid /\ "drop" \in Op \ {"declare"}
  BY DEF DropEntity, TypeInv, KnownIds, Op
<1>2. /\ edoomed' \subseteq edoomed
      /\ UNCHANGED <<zid, map, closed, ents, nextEnt, held, eheld, doomed, pend, darc>>
  BY DEF DropEntity
<1>3. CASE s = None
  <2>1. UNCHANGED <<pc, call>>
    BY <1>3 DEF DropEntity
  <2>2. TypeOK'
    BY <1>2, <2>1 DEF TypeInv, TypeOK, ThreadOK
  <2>3. KnownIds'
    BY <1>2, <2>1 DEF TypeInv, KnownIds, KnownCall, KnownOwners
  <2> QED
    BY <2>2, <2>3 DEF TypeInv
<1>4. CASE s # None
  <2>1. Enter(p, s, "drop", Kinds, None, e)
    BY <1>4 DEF DropEntity
  <2> QED
    BY <1>1, <1>2, <2>1, EnterStep
<1> QED
  BY <1>3, <1>4

\* A session-handle destructor taking a session out of the map.
LEMMA RemoveFromMapStep ==
  ASSUME TypeInv, NEW p \in Proc, NEW h \in Sess, zid[h] \in Zid, RemoveFromMap(p, h)
  PROVE  /\ map' \in [Zid -> Sess \cup {None}] /\ darc' \in [Proc -> Sess \cup {None}]
         /\ darc'[p] = map[zid[h]]
         /\ \A q \in Proc : q # p => darc'[q] = darc[q]
         /\ \A z \in Zid : map'[z] # None => zid'[map'[z]] = z
         /\ UNCHANGED <<zid, closed, ents, nextEnt, held, eheld, edoomed, call>>
BY DEF RemoveFromMap, TypeInv, TypeOK, KnownIds, handles

LEMMA DropSessionStep ==
  ASSUME TypeInv, NEW p \in Proc, NEW h \in Sess, DropSession(p, h)
  PROVE  TypeInv'
<1>1. zid[h] \in Zid /\ RemoveFromMap(p, h)
  BY DEF DropSession, TypeInv, KnownIds
<1>2. doomed' \subseteq doomed /\ pend' = pend /\ pc[p] = "idle"
  BY DEF DropSession
<1>3. pc' \in [Proc -> Pc]
  BY DEF DropSession, TypeInv, TypeOK, Pc
<1>4. \A q \in Proc : ThreadOK(q)'
  BY <1>1, RemoveFromMapStep DEF DropSession, ThreadOK, TypeInv, TypeOK
<1>5. TypeOK'
  BY <1>1, <1>2, <1>3, <1>4, RemoveFromMapStep DEF TypeInv, TypeOK
<1>6. KnownIds'
  BY <1>1, <1>2, RemoveFromMapStep DEF TypeInv, KnownIds, KnownCall, KnownOwners
<1> QED
  BY <1>5, <1>6 DEF TypeInv

LEMMA DropNestedStep ==
  ASSUME TypeInv, NEW p \in Proc, NEW h \in Sess, DropNested(p, h)
  PROVE  TypeInv'
<1>1. zid[h] \in Zid /\ RemoveFromMap(p, h)
  BY DEF DropNested, TypeInv, KnownIds
<1>2. /\ UNCHANGED <<pc, doomed>> /\ pc[p] = "nested"
      /\ pend' \in [Proc -> SUBSET Sess] /\ \A q \in Proc : pend'[q] \subseteq pend[q]
  BY DEF DropNested, TypeInv, TypeOK
<1>3. \A q \in Proc : ThreadOK(q)'
  BY <1>1, <1>2, RemoveFromMapStep DEF ThreadOK, TypeInv, TypeOK
<1>4. TypeOK'
  BY <1>1, <1>2, <1>3, RemoveFromMapStep DEF TypeInv, TypeOK
<1>5. KnownIds'
  BY <1>1, <1>2, RemoveFromMapStep DEF TypeInv, KnownIds, KnownCall, KnownOwners
<1> QED
  BY <1>4, <1>5 DEF TypeInv

LEMMA CloseDroppedStep ==
  ASSUME TypeInv, NEW p \in Proc, CloseDropped(p)
  PROVE  TypeInv'
<1> DEFINE s == darc[p]
<1>1. s \in Sess /\ DropArc(s, ents, closed \cup {s})
  BY DEF CloseDropped, TypeInv, TypeOK
<1>2. ents' \in Tables /\ closed' \in SUBSET Sess
  BY <1>1, TablesNow, DropArcType
<1>3. KnownOwners(ents')
  BY <1>1, TablesNow DEF DropArc, KnownOwners, NoEntities, Tables
<1>4. /\ UNCHANGED <<zid, map, nextEnt, held, eheld, edoomed, call>>
      /\ darc' = [darc EXCEPT ![p] = None]
  BY DEF CloseDropped, handles
<1>5. /\ \/ pend' = [pend EXCEPT ![p] = @ \cup Released(ents')] /\ UNCHANGED <<pc, doomed>>
         \/ pend' = pend /\ doomed' = doomed \cup Released(ents')
            /\ pc' = [pc EXCEPT ![p] = "idle"]
      /\ pc[p] = "nested" => pc' = pc
      /\ pc[p] # "nested" => pc' = [pc EXCEPT ![p] = "idle"]
  BY DEF CloseDropped
<1>6. Released(ents') \subseteq Sess /\ \A h \in Released(ents') : zid[h] \in Zid
  BY ReleasedKnown DEF TypeInv
<1>7. pc[p] \in {"nested", "dtor"}
  BY <1>1, NoDestructor, NoneAssumption DEF TypeInv
<1>8. /\ pend' \in [Proc -> SUBSET Sess] /\ pc' \in [Proc -> Pc] /\ doomed' \subseteq Sess
      /\ \A h \in doomed' : zid[h] \in Zid
      /\ \A q \in Proc : \A h \in pend'[q] : zid[h] \in Zid
  <2> DEFINE R == Released(ents')
  <2>1. R \subseteq Sess /\ \A h \in R : zid[h] \in Zid
    BY <1>6
  <2>2. /\ pend \in [Proc -> SUBSET Sess] /\ pc \in [Proc -> Pc] /\ doomed \subseteq Sess
        /\ \A h \in doomed : zid[h] \in Zid
        /\ \A q \in Proc : \A h \in pend[q] : zid[h] \in Zid
    BY DEF TypeInv, TypeOK, KnownIds
  <2>3. \/ pend' = [pend EXCEPT ![p] = @ \cup R] /\ UNCHANGED <<pc, doomed>>
        \/ pend' = pend /\ doomed' = doomed \cup R /\ pc' = [pc EXCEPT ![p] = "idle"]
    BY <1>5
  <2> HIDE DEF R
  <2> QED
    BY <2>1, <2>2, <2>3 DEF Pc
<1>9. \A q \in Proc : ThreadOK(q)'
  BY <1>4, <1>5, <1>7 DEF ThreadOK, TypeInv, TypeOK
<1>10. TypeOK'
  BY <1>2, <1>4, <1>8, <1>9 DEF TypeInv, TypeOK, Tables
<1>11. KnownIds'
  <2>1. KnownOwners(ents)'
    BY <1>3, <1>4 DEF KnownOwners
  <2> QED
    BY <1>4, <1>8, <2>1 DEF TypeInv, KnownIds, KnownCall
<1> QED
  BY <1>10, <1>11 DEF TypeInv

LEMMA TypeStep == TypeInv /\ [Next]_vars => TypeInv'
<1> SUFFICES ASSUME TypeInv, [Next]_vars PROVE TypeInv'
  OBVIOUS
<1>1. ASSUME NEW p \in Proc, NEW h \in Sess, SessionNif(p, h) \/ DeclareNif(p, h)
      PROVE  TypeInv'
  <2>1. {"use", "get", "declare"} \subseteq Op
    BY DEF Op
  <2> QED
    BY <1>1, <2>1, SessionNifEnters, session_closeStep, OnSessionStep
<1>2. ASSUME NEW p \in Proc, NEW e \in EntId, EntityNif(p, e)
      PROVE  TypeInv'
  <2>1. {"use", "get", "undeclare"} \subseteq Op \ {"declare"}
    BY DEF Op
  <2> QED
    BY <1>2, <2>1, EntityNifEnters, OnEntityStep
<1>3. CASE UNCHANGED vars
  <2>1. TypeOK'
    BY <1>3 DEF vars, TypeInv, TypeOK, ThreadOK
  <2>2. KnownIds'
    BY <1>3 DEF vars, TypeInv, KnownIds, KnownCall, KnownOwners
  <2> QED
    BY <2>1, <2>2 DEF TypeInv
<1>4. CASE Next
  BY <1>1, <1>2, <1>4, session_openStep, BodyStep, AcquireStep, EndGetStep,
     ReleaseStep, DropEntityStep, DropSessionStep, DropNestedStep,
     CloseDroppedStep DEF Next
<1> QED
  BY <1>3, <1>4

\* Every lookup the code makes is of a zid some session has, and the map has
\* every session under its own zid.
THEOREM IdsKnown == Spec => []TypeInv
<1>1. Init => TypeInv
  BY InitType, InitIds DEF TypeInv
<1> QED
  BY <1>1, TypeStep, PTL DEF Spec

\* Every variable keeps its type; a thread has an Arc of a session exactly
\* while it is inside a NIF, and a destructor's Arc only while it runs one.
THEOREM TypeCorrect == Spec => []TypeOK
<1>1. TypeInv => TypeOK
  BY DEF TypeInv
<1> QED
  BY <1>1, IdsKnown, PTL
-----------------------------------------------------------------------------
(* The map and the checks.                                                 *)

\* A session is taken out of the map before it is closed.  Between the two
\* it is the arc of a session_close or the darc of a destructor.
Unmapped(s) == \A z \in Zid : map[z] # s
Gone(s) == \A z \in Zid : map'[z] # s
Closing(p, s) == \/ darc[p] = s
                 \/ call[p].op = "close" /\ call[p].arc = s
OpenInv ==
  /\ TypeInv
  /\ \A z \in Zid : map[z] \notin closed
  /\ \A s \in closed : zid[s] \in Zid
  /\ \A p \in Proc, s \in Sess : Closing(p, s) => zid[s] \in Zid /\ Unmapped(s)

\* The RwLock of a session: a thread that locks it to write is alone.
Alone == \A p, q \in Proc, s \in Sess :
           p # q /\ Exclusive(p) /\ Locks(p, s) => ~Locks(q, s)
Undeclares(p) == call[p].op \in {"undeclare", "drop"}
CheckedInv ==
  /\ Alone
  /\ \A p \in Proc : pc[p] = "checked" => Undeclares(p) /\ Found(p)
LockInv == TypeInv /\ CheckedInv
-----------------------------------------------------------------------------
(* The map has open sessions only.                                         *)

\* A step that adds nothing to the map and takes what it closes, or starts to
\* close, out of it.
LEMMA OpenFrame ==
  ASSUME OpenInv, TypeInv',
         \A s \in Sess : zid[s] \in Zid => zid'[s] \in Zid,
         \A z \in Zid : map'[z] \in {map[z], None},
         \A s \in closed' : s \in closed \/ (zid[s] \in Zid /\ Gone(s)),
         \A p \in Proc, s \in Sess :
           Closing(p, s)' => Closing(p, s) \/ (zid[s] \in Zid /\ Gone(s))
  PROVE  OpenInv'
<1>1. None \notin Sess /\ closed' \subseteq Sess /\ closed \subseteq Sess
  BY NoneAssumption DEF OpenInv, TypeInv, TypeOK
<1>2. \A s \in Sess : Unmapped(s) => Gone(s)
  BY <1>1 DEF Gone, Unmapped
<1>3. \A z \in Zid : map'[z] \notin closed'
  BY <1>1 DEF Gone, OpenInv, Unmapped
<1>4. \A s \in closed' : zid'[s] \in Zid
  BY <1>1 DEF OpenInv
<1>5. ASSUME NEW p \in Proc, NEW s \in Sess, Closing(p, s)'
      PROVE  zid'[s] \in Zid /\ Gone(s)
  BY <1>2, <1>5 DEF OpenInv
<1> QED
  BY <1>3, <1>4, <1>5 DEF OpenInv, Unmapped, Gone

\* A step that neither touches the map nor closes anything.
LEMMA OpenStutters ==
  ASSUME OpenInv, TypeInv', UNCHANGED <<zid, map, closed, darc>>,
         \A p \in Proc, s \in Sess : Closing(p, s)' => Closing(p, s)
  PROVE  OpenInv'
BY OpenFrame

\* Dropping an Arc closes a session only when the map does not have it.
LEMMA DropArcOpen ==
  ASSUME NEW s, NEW E, NEW C, DropArc(s, E, C)
  PROVE  closed' = C \/ (closed' = C \cup {s} /\ Gone(s))
BY DEF DropArc, StaysAlive, Gone

LEMMA FinishOpen ==
  ASSUME OpenInv, TypeInv', NEW p \in Proc, pc[p] \in Inside, zid' = zid,
         NEW E, NEW C \in SUBSET Sess, Finish(p, E, C),
         \/ C = closed
         \/ C = closed \cup {call[p].arc} /\ call[p].op = "close"
  PROVE  OpenInv'
<1> DEFINE s == call[p].arc
<1>1. s \in Sess /\ zid[s] \in Zid
  BY InsideHasArc, NoneAssumption DEF OpenInv, TypeInv, KnownIds, KnownCall
<1>2. map' = map /\ darc' = darc /\ call' = [call EXCEPT ![p] = NoCall]
  BY DEF Finish
<1>3. C = closed \/ (C = closed \cup {s} /\ Gone(s))
  <2>1. call[p].op = "close" => Unmapped(s)
    BY <1>1 DEF OpenInv, Closing
  <2> QED
    BY <1>2, <2>1 DEF Gone, Unmapped
<1>4. closed' = C \/ (closed' = C \cup {s} /\ Gone(s))
  BY DropArcOpen DEF Finish
<1>5. \A r \in closed' : r \in closed \/ (zid[r] \in Zid /\ Gone(r))
  BY <1>1, <1>3, <1>4
<1>6. ASSUME NEW q \in Proc, NEW r \in Sess, Closing(q, r)' PROVE Closing(q, r)
  <2>1. call \in [Proc -> Call] /\ NoCall.op # "close"
    BY DEF OpenInv, TypeInv, TypeOK, NoCall
  <2> QED
    BY <1>2, <1>6, <2>1 DEF Closing
<1> QED
  BY <1>2, <1>5, <1>6, OpenFrame

LEMMA EnterOpen ==
  ASSUME OpenInv, TypeInv', NEW p \in Proc, NEW s, NEW o, NEW K, NEW h, NEW e,
         Enter(p, s, o, K, h, e), o # "close", UNCHANGED <<zid, map, closed, darc>>
  PROVE  OpenInv'
<1>1. \A q \in Proc, r \in Sess : Closing(q, r)' => Closing(q, r)
  BY DEF Enter, Closing, OpenInv, TypeInv, TypeOK
<1> QED
  BY <1>1, OpenStutters

LEMMA session_closeOpen ==
  ASSUME OpenInv, TypeInv', NEW p \in Proc, NEW h \in Sess, session_close(p, h)
  PROVE  OpenInv'
<1> DEFINE s == map[zid[h]]
<1>1. zid[h] \in Zid /\ s \in Sess /\ zid[s] = zid[h]
  BY DEF session_close, get_session, Enter, OpenInv, TypeInv, TypeOK, KnownIds
<1>2. /\ map' = [map EXCEPT ![zid[h]] = None]
      /\ UNCHANGED <<zid, closed, darc>>
  BY DEF session_close
<1>3. Gone(s)
  BY <1>1, <1>2, NoneAssumption DEF Gone, Unmapped, OpenInv, TypeInv, TypeOK, KnownIds
<1>4. \A q \in Proc, r \in Sess : Closing(q, r)' => Closing(q, r) \/ r = s
  BY <1>2 DEF session_close, get_session, Enter, Closing, OpenInv, TypeInv, TypeOK
<1>5. \A z \in Zid : map'[z] \in {map[z], None}
  BY <1>2 DEF OpenInv, TypeInv, TypeOK
<1> QED
  BY <1>1, <1>2, <1>3, <1>4, <1>5, OpenFrame

LEMMA RemoveFromMapOpen ==
  ASSUME OpenInv, TypeInv', NEW p \in Proc, NEW h \in Sess, zid[h] \in Zid,
         RemoveFromMap(p, h)
  PROVE  OpenInv'
<1> DEFINE s == map[zid[h]]
<1>1. /\ map' = [map EXCEPT ![zid[h]] = None] /\ darc' = [darc EXCEPT ![p] = s]
      /\ UNCHANGED <<zid, closed, call>>
  BY DEF RemoveFromMap
<1>2. s # None => zid[s] = zid[h] /\ Gone(s)
  BY <1>1 DEF Gone, Unmapped, OpenInv, TypeInv, TypeOK, KnownIds
<1>3. \A q \in Proc, r \in Sess : Closing(q, r)' => Closing(q, r) \/ r = s
  BY <1>1 DEF Closing, OpenInv, TypeInv, TypeOK
<1>4. \A z \in Zid : map'[z] \in {map[z], None}
  BY <1>1 DEF OpenInv, TypeInv, TypeOK
<1> QED
  BY <1>1, <1>2, <1>3, <1>4, NoneAssumption, OpenFrame

LEMMA CloseDroppedOpen ==
  ASSUME OpenInv, TypeInv', NEW p \in Proc, CloseDropped(p)
  PROVE  OpenInv'
<1> DEFINE s == darc[p]
<1>1. s \in Sess /\ zid[s] \in Zid /\ Unmapped(s)
  BY DEF CloseDropped, OpenInv, Closing, TypeInv, TypeOK
<1>2. /\ darc' = [darc EXCEPT ![p] = None] /\ UNCHANGED <<zid, map, call>>
      /\ DropArc(s, ents, closed \cup {s})
  BY DEF CloseDropped
<1>3. closed' = closed \cup {s}
  BY <1>2, DropArcOpen
<1>4. \A q \in Proc, r \in Sess : Closing(q, r)' => Closing(q, r)
  BY <1>2, NoneAssumption DEF Closing, OpenInv, TypeInv, TypeOK
<1>5. Gone(s)
  BY <1>1, <1>2 DEF Gone, Unmapped
<1> QED
  BY <1>1, <1>2, <1>3, <1>4, <1>5, OpenFrame

LEMMA session_openOpen ==
  ASSUME OpenInv, TypeInv', NEW s \in Sess, NEW z \in Zid, session_open(s, z)
  PROVE  OpenInv'
<1>1. /\ zid[s] = None /\ zid' = [zid EXCEPT ![s] = z] /\ map' = [map EXCEPT ![z] = s]
      /\ UNCHANGED <<call, darc>>
  BY DEF session_open
<1>2. None \notin Zid /\ None \notin Sess
  BY NoneAssumption
<1>3. \A r \in Sess : zid[r] \in Zid => zid'[r] \in Zid /\ r # s
  BY <1>1, <1>2 DEF OpenInv, TypeInv, TypeOK
<1>4. ASSUME NEW r \in Sess, Unmapped(r), r # s PROVE Gone(r)
  BY <1>1, <1>4 DEF Gone, Unmapped, OpenInv, TypeInv, TypeOK
<1>5. \A r \in closed' : zid[r] \in Zid /\ Gone(r)
  <2>1. \A r \in closed : zid[r] \in Zid /\ Gone(r)
    <3>1. ASSUME NEW r \in closed
          PROVE  r \in Sess /\ zid[r] \in Zid /\ Unmapped(r)
      BY DEF OpenInv, Unmapped, TypeInv, TypeOK
    <3> QED
      BY <1>3, <1>4, <3>1
  <2>2. CASE closed' = closed
    BY <2>1, <2>2
  <2>3. CASE closed' # closed
    <3>1. map[z] # None /\ DropArc(map[z], ents, closed)
      BY <2>3 DEF session_open
    <3>2. closed' = closed \cup {map[z]} /\ Gone(map[z])
      BY <2>3, <3>1, DropArcOpen
    <3>3. zid[map[z]] = z
      BY <3>1 DEF OpenInv, TypeInv, KnownIds
    <3> QED
      BY <2>1, <3>2, <3>3
  <2> QED
    BY <2>2, <2>3
<1>6. ASSUME NEW q \in Proc, NEW r \in Sess, Closing(q, r)'
      PROVE  zid'[r] \in Zid /\ Gone(r)
  <2>1. zid[r] \in Zid /\ Unmapped(r)
    BY <1>1, <1>6 DEF Closing, OpenInv
  <2> QED
    BY <1>3, <1>4, <2>1
<1>7. closed' \subseteq Sess
  BY DEF TypeInv, TypeOK
<1>8. \A x \in Zid : map'[x] \notin closed'
  BY <1>5 DEF Gone, Unmapped
<1> QED
  BY <1>3, <1>5, <1>6, <1>7, <1>8 DEF OpenInv, Unmapped, Gone

\* The body of a NIF.
LEMMA BodyOpen ==
  ASSUME OpenInv, TypeInv', NEW p \in Proc, Body(p)
  PROVE  OpenInv'
<1>1. pc[p] \in Inside /\ zid' = zid /\ closed \in SUBSET Sess
  BY DEF Body, Return, StartGet, Declare, Close, CheckEntity, Remove, NestedDone,
     Inside, OpenInv, TypeInv, TypeOK
<1>2. CASE UNCHANGED <<map, closed, call, darc>>
  BY <1>1, <1>2, OpenStutters DEF Closing
<1>3. CASE \E E : Finish(p, E, closed)
  BY <1>1, <1>3, FinishOpen
<1>4. CASE Close(p)
  <2>1. call[p].arc \in Sess
    BY <1>1, InsideHasArc DEF OpenInv, TypeInv
  <2>2. closed \cup {call[p].arc} \in SUBSET Sess
    BY <1>1, <2>1
  <2> QED
    BY <1>1, <1>4, <2>2, FinishOpen DEF Close
<1> QED
  BY <1>2, <1>3, <1>4 DEF Body, Return, StartGet, Declare, CheckEntity, Remove, NestedDone

LEMMA OpenStep == OpenInv /\ [Next]_vars => OpenInv'
<1> SUFFICES ASSUME OpenInv, [Next]_vars PROVE OpenInv'
  OBVIOUS
<1>1. TypeInv'
  BY TypeStep DEF OpenInv
<1>2. ASSUME NEW p \in Proc, NEW h \in Sess, SessionNif(p, h) \/ DeclareNif(p, h)
      PROVE  OpenInv'
  <2>1. CASE session_close(p, h)
    BY <1>1, <2>1, session_closeOpen
  <2>2. ASSUME NEW o \in {"use", "get", "declare"}, NEW K \in SUBSET Kinds,
               OnSession(p, h, o, K)
        PROVE  OpenInv'
    BY <1>1, <2>2, EnterOpen DEF OnSession
  <2> QED
    BY <1>2, <2>1, <2>2, SessionNifEnters
<1>3. ASSUME NEW p \in Proc, NEW e \in EntId, EntityNif(p, e) PROVE OpenInv'
  <2>1. PICK o \in {"use", "get", "undeclare"}, K \in SUBSET Kinds : OnEntity(p, e, o, K)
    BY <1>3, EntityNifEnters
  <2> QED
    BY <1>1, <2>1, EnterOpen DEF OnEntity
<1>4. ASSUME NEW p \in Proc, Acquire(p) PROVE OpenInv'
  BY <1>1, <1>4, OpenStutters DEF Acquire, Closing
<1>5. ASSUME NEW p \in Proc, EndGet(p) PROVE OpenInv'
  <2>1. pc[p] \in Inside /\ closed \in SUBSET Sess
    BY <1>5 DEF EndGet, Inside, OpenInv, TypeInv, TypeOK
  <2> QED
    BY <1>1, <1>5, <2>1, FinishOpen DEF EndGet
<1>6. ASSUME \/ \E h \in Sess : ReleaseSession(h)
             \/ \E e \in EntId : ReleaseEntity(e)
      PROVE  OpenInv'
  BY <1>1, <1>6, OpenStutters DEF ReleaseSession, ReleaseEntity, Closing
<1>7. ASSUME NEW p \in Proc, NEW e \in EntId, DropEntity(p, e) PROVE OpenInv'
  <2>1. CASE UNCHANGED call
    BY <1>1, <1>7, <2>1, OpenStutters DEF DropEntity, Closing
  <2>2. CASE Enter(p, get_session(zid[e[1]]), "drop", Kinds, None, e)
    BY <1>1, <1>7, <2>2, EnterOpen DEF DropEntity
  <2> QED
    BY <1>7, <2>1, <2>2 DEF DropEntity
<1>8. ASSUME NEW p \in Proc, NEW h \in Sess, DropSession(p, h) \/ DropNested(p, h)
      PROVE  OpenInv'
  <2>1. zid[h] \in Zid /\ RemoveFromMap(p, h)
    BY <1>8 DEF DropSession, DropNested, OpenInv, TypeInv, KnownIds
  <2> QED
    BY <1>1, <2>1, RemoveFromMapOpen
<1>9. CASE UNCHANGED vars
  BY <1>1, <1>9, OpenStutters DEF vars, Closing
<1>10. CASE Next
  BY <1>1, <1>2, <1>3, <1>4, <1>5, <1>6, <1>7, <1>8, <1>10, session_openOpen,
     BodyOpen, CloseDroppedOpen DEF Next
<1> QED
  BY <1>9, <1>10

\* What SESSION_MAP hands out is open and is the session of that zid, whatever
\* closes sessions: session_close, a destructor or the last Arc.
THEOREM LookupsFindOpenSessions == Spec => []MappedIsOpen
<1>1. Init => OpenInv
  <2>1. Init => TypeInv
    BY InitType, InitIds DEF TypeInv
  <2> QED
    BY <2>1, NoneAssumption, NoCallType DEF Init, OpenInv, Closing, NoCall
<1>2. OpenInv => MappedIsOpen
  BY DEF OpenInv, MappedIsOpen, TypeInv, KnownIds
<1> QED
  BY <1>1, <1>2, OpenStep, PTL DEF Spec
-----------------------------------------------------------------------------
(* Undeclarations find what they checked.                                  *)

\* A thread that neither gains a lock nor, if it is past the kind check, sees
\* the table of its session change.
Undisturbed(q) ==
  /\ \A s \in Sess : Locks(q, s)' => Locks(q, s)
  /\ pc'[q] \in {"body", "checked", "nested"} => call'[q] = call[q]
  /\ pc'[q] = "checked" => pc[q] = "checked" /\ ents'[call[q].arc] = ents[call[q].arc]

LEMMA LockFrame ==
  ASSUME LockInv, TypeInv', \A q \in Proc : Undisturbed(q)
  PROVE  LockInv'
<1>1. Alone'
  BY DEF LockInv, CheckedInv, Alone, Undisturbed, Exclusive, Locks
<1>2. ASSUME NEW q \in Proc, pc'[q] = "checked" PROVE Undeclares(q)' /\ Found(q)'
  <2>1. /\ pc[q] = "checked" /\ call'[q] = call[q]
        /\ ents'[call[q].arc] = ents[call[q].arc]
    BY <1>2 DEF Undisturbed
  <2>2. Undeclares(q) /\ Found(q)
    BY <2>1 DEF LockInv, CheckedInv
  <2> QED
    BY <2>1, <2>2 DEF Undeclares, Found, get_entity
<1> QED
  BY <1>1, <1>2 DEF LockInv, CheckedInv

\* The last Arc of a session is not dropped while a call has one.
LEMMA DropArcKeeps ==
  ASSUME NEW s, NEW E \in Tables, NEW C, DropArc(s, E, C), NEW q \in Proc,
         NEW r \in Sess, call'[q].arc = r
  PROVE  ents'[r] = E[r]
BY DEF DropArc, StaysAlive, Tables

\* A step of no NIF, which may drop an Arc.
LEMMA OutsideStep ==
  ASSUME LockInv, TypeInv', call' = call,
         \A q \in Proc : pc'[q] = pc[q] \/ pc'[q] \in {"idle", "dtor"},
         ents' = ents \/ \E s, C : DropArc(s, ents, C)
  PROVE  LockInv'
<1>1. ents \in Tables
  BY TablesNow DEF LockInv
<1>2. ASSUME NEW q \in Proc PROVE Undisturbed(q)
  <2>1. pc[q] = "checked" => call[q].arc \in Sess
    BY InsideHasArc DEF LockInv, TypeInv, Inside
  <2>2. pc[q] = "checked" => ents'[call[q].arc] = ents[call[q].arc]
    BY <1>1, <2>1, DropArcKeeps
  <2> QED
    BY <2>2 DEF Undisturbed, Locks
<1> QED
  BY <1>2, LockFrame

\* A thread p in the session it has locked to write.
LEMMA WriterAlone ==
  ASSUME LockInv, NEW p \in Proc, Exclusive(p), Locks(p, call[p].arc),
         NEW q \in Proc, q # p, pc[q] = "checked"
  PROVE  call[q].arc \in Sess /\ call[q].arc # call[p].arc
<1>1. call[q].arc \in Sess
  BY InsideHasArc DEF LockInv, TypeInv, Inside
<1> QED
  BY <1>1 DEF LockInv, CheckedInv, Alone, Locks

LEMMA FinishLocks ==
  ASSUME LockInv, TypeInv', NEW p \in Proc, NEW E \in Tables, NEW C, Finish(p, E, C),
         \/ E = ents
         \/ /\ Exclusive(p) /\ Locks(p, call[p].arc)
            /\ \A r \in Sess : r # call[p].arc => E[r] = ents[r]
  PROVE  LockInv'
<1>1. /\ pc' = [pc EXCEPT ![p] = "idle"] /\ call' = [call EXCEPT ![p] = NoCall]
      /\ DropArc(call[p].arc, E, C)
  BY DEF Finish
<1>2. pc \in [Proc -> Pc] /\ call \in [Proc -> Call]
  BY DEF LockInv, TypeInv, TypeOK
<1>3. Undisturbed(p)
  BY <1>1, <1>2 DEF Undisturbed, Locks
<1>4. ASSUME NEW q \in Proc, q # p PROVE Undisturbed(q)
  <2>1. pc'[q] = pc[q] /\ call'[q] = call[q]
    BY <1>1, <1>2, <1>4
  <2>2. ASSUME pc[q] = "checked" PROVE ents'[call[q].arc] = ents[call[q].arc]
    <3>1. call[q].arc \in Sess
      BY <2>2, InsideHasArc DEF LockInv, TypeInv, Inside
    <3>2. ents'[call[q].arc] = E[call[q].arc]
      BY <1>1, <2>1, <3>1, DropArcKeeps
    <3> QED
      BY <1>4, <2>2, <3>1, <3>2, WriterAlone
  <2> QED
    BY <2>1, <2>2 DEF Undisturbed, Locks
<1> QED
  BY <1>3, <1>4, LockFrame

LEMMA EnterLocks ==
  ASSUME LockInv, TypeInv', NEW p \in Proc, NEW s, NEW o, NEW K, NEW h, NEW e,
         Enter(p, s, o, K, h, e), ents' = ents
  PROVE  LockInv'
<1>1. \A q \in Proc : Undisturbed(q)
  BY DEF Enter, Undisturbed, Locks, LockInv, TypeInv, TypeOK
<1> QED
  BY <1>1, LockFrame

LEMMA AcquireLocks ==
  ASSUME LockInv, TypeInv', NEW p \in Proc, Acquire(p)
  PROVE  LockInv'
<1>1. /\ pc' = [pc EXCEPT ![p] = "body"] /\ pc[p] = "lock"
      /\ UNCHANGED <<call, ents>> /\ pc \in [Proc -> Pc]
  BY DEF Acquire, LockInv, TypeInv, TypeOK
<1>2. \A q \in Proc, s \in Sess :
        Locks(q, s)' => Locks(q, s) \/ (q = p /\ s = call[p].arc)
  BY <1>1 DEF Locks
<1>3. \A q \in Proc : q # p /\ Locks(q, call[p].arc) => ~Exclusive(p) /\ ~Exclusive(q)
  BY DEF Acquire, CanRead, CanWrite
<1>4. Alone'
  BY <1>1, <1>2, <1>3 DEF Alone, LockInv, CheckedInv, Exclusive
<1>5. \A q \in Proc : pc'[q] = "checked" => Undeclares(q)' /\ Found(q)'
  BY <1>1 DEF LockInv, CheckedInv, Undeclares, Found, get_entity
<1> QED
  BY <1>4, <1>5 DEF LockInv, CheckedInv

LEMMA BodyLocks ==
  ASSUME LockInv, TypeInv', NEW p \in Proc, Body(p)
  PROVE  LockInv'
<1>1. ents \in Tables /\ pc \in [Proc -> Pc]
  BY TablesNow DEF LockInv, TypeInv, TypeOK
<1>2. ASSUME NEW C, Finish(p, ents, C) PROVE LockInv'
  BY <1>1, <1>2, FinishLocks
<1>3. ASSUME StartGet(p) PROVE LockInv'
  <2>1. \A q \in Proc : Undisturbed(q)
    BY <1>1, <1>3 DEF StartGet, Undisturbed, Locks
  <2> QED
    BY <2>1, LockFrame
<1>4. ASSUME Declare(p) PROVE LockInv'
  <2> DEFINE s == call[p].arc
             n == nextEnt[s]
             E(k) == [ents EXCEPT ![s][n] = [kind |-> k, owner |-> call[p].handle]]
  <2>1. Exclusive(p) /\ Locks(p, s)
    BY <1>4 DEF Declare, Exclusive, Locks
  <2>2. PICK k \in call[p].kinds : Finish(p, E(k), closed)
    BY <1>4 DEF Declare
  <2>3. [kind |-> k, owner |-> call[p].handle] \in Entity
    BY <1>4, <2>2 DEF Declare, Entity, Call, LockInv, TypeInv, TypeOK, KnownIds, KnownCall
  <2>4. E(k) \in Tables /\ \A r \in Sess : r # s => E(k)[r] = ents[r]
    BY <1>1, <2>3 DEF Tables
  <2> QED
    BY <2>1, <2>2, <2>4, FinishLocks
<1>5. ASSUME CheckEntity(p) PROVE LockInv'
  <2>1. /\ pc' = [pc EXCEPT ![p] = "checked"] /\ pc[p] = "body"
        /\ UNCHANGED <<call, ents>> /\ Found(p) /\ Undeclares(p)
    BY <1>5 DEF CheckEntity, Undeclares
  <2>2. \A q \in Proc, s \in Sess : Locks(q, s)' => Locks(q, s)
    BY <1>1, <2>1 DEF Locks
  <2>3. Alone'
    BY <2>1, <2>2 DEF Alone, LockInv, CheckedInv, Exclusive
  <2>4. \A q \in Proc : pc'[q] = "checked" => Undeclares(q)' /\ Found(q)'
    BY <1>1, <2>1 DEF LockInv, CheckedInv, Undeclares, Found, get_entity
  <2> QED
    BY <2>3, <2>4 DEF LockInv, CheckedInv
<1>6. ASSUME Remove(p) PROVE LockInv'
  <2> DEFINE s == call[p].arc
             E == [ents EXCEPT ![s][call[p].entity[2]] = None]
  <2>1. Exclusive(p) /\ Locks(p, s)
    BY <1>6 DEF Remove, Locks, Exclusive, Undeclares, LockInv, CheckedInv
  <2>2. E \in Tables /\ \A r \in Sess : r # s => E[r] = ents[r]
    BY <1>1 DEF Tables
  <2>3. CASE Finish(p, E, closed)
    BY <2>1, <2>2, <2>3, FinishLocks
  <2>4. CASE ~Finish(p, E, closed)
    <3>1. pc' = [pc EXCEPT ![p] = "nested"] /\ ents' = E /\ call' = call
          /\ pc[p] = "checked"
      BY <1>6, <2>4 DEF Remove
    <3> HIDE DEF E
    <3>2. ASSUME NEW q \in Proc PROVE Undisturbed(q)
      <4>1. CASE q = p
        BY <1>1, <3>1, <4>1 DEF Undisturbed, Locks
      <4>2. CASE q # p
        <5>1. pc[q] = "checked" => ents'[call[q].arc] = ents[call[q].arc]
          BY <2>1, <2>2, <3>1, <4>2, WriterAlone
        <5> QED
          BY <1>1, <3>1, <4>2, <5>1 DEF Undisturbed, Locks
      <4> QED
        BY <4>1, <4>2
    <3> QED
      BY <3>2, LockFrame
  <2> QED
    BY <2>3, <2>4
<1> QED
  BY <1>2, <1>3, <1>4, <1>5, <1>6 DEF Body, Return, Close, NestedDone

LEMMA LockStep == LockInv /\ [Next]_vars => LockInv'
<1> SUFFICES ASSUME LockInv, [Next]_vars PROVE LockInv'
  OBVIOUS
<1>1. TypeInv'
  BY TypeStep DEF LockInv
<1>2. ASSUME NEW p \in Proc, NEW h \in Sess, SessionNif(p, h) \/ DeclareNif(p, h)
      PROVE  LockInv'
  BY <1>1, <1>2, SessionNifEnters, EnterLocks DEF OnSession, session_close
<1>3. ASSUME NEW p \in Proc, NEW e \in EntId, EntityNif(p, e) PROVE LockInv'
  BY <1>1, <1>3, EntityNifEnters, EnterLocks DEF OnEntity
<1>4. ASSUME NEW p \in Proc, EndGet(p) PROVE LockInv'
  <2>1. ents \in Tables
    BY TablesNow DEF LockInv
  <2> QED
    BY <1>1, <1>4, <2>1, FinishLocks DEF EndGet
<1>5. ASSUME NEW s \in Sess, NEW z \in Zid, session_open(s, z) PROVE LockInv'
  BY <1>1, <1>5, OutsideStep DEF session_open
<1>6. ASSUME \/ \E h \in Sess : ReleaseSession(h)
             \/ \E e \in EntId : ReleaseEntity(e)
      PROVE  LockInv'
  BY <1>1, <1>6, OutsideStep DEF ReleaseSession, ReleaseEntity
<1>7. ASSUME NEW p \in Proc, NEW e \in EntId, DropEntity(p, e) PROVE LockInv'
  <2>1. CASE UNCHANGED <<pc, call>>
    BY <1>1, <1>7, <2>1, OutsideStep DEF DropEntity
  <2>2. CASE Enter(p, get_session(zid[e[1]]), "drop", Kinds, None, e)
    BY <1>1, <1>7, <2>2, EnterLocks DEF DropEntity
  <2> QED
    BY <1>7, <2>1, <2>2 DEF DropEntity
<1>8. ASSUME NEW p \in Proc, NEW h \in Sess, DropSession(p, h) \/ DropNested(p, h)
      PROVE  LockInv'
  <2>1. \A q \in Proc : pc'[q] = pc[q] \/ pc'[q] \in {"idle", "dtor"}
    BY <1>8 DEF DropSession, DropNested, LockInv, TypeInv, TypeOK
  <2> QED
    BY <1>1, <1>8, <2>1, OutsideStep DEF DropSession, DropNested, RemoveFromMap
<1>9. ASSUME NEW p \in Proc, CloseDropped(p) PROVE LockInv'
  <2>1. \A q \in Proc : pc'[q] = pc[q] \/ pc'[q] \in {"idle", "dtor"}
    BY <1>9 DEF CloseDropped, LockInv, TypeInv, TypeOK
  <2> QED
    BY <1>1, <1>9, <2>1, OutsideStep DEF CloseDropped
<1>10. CASE UNCHANGED vars
  BY <1>1, <1>10, OutsideStep DEF vars
<1>11. CASE Next
  BY <1>1, <1>2, <1>3, <1>4, <1>5, <1>6, <1>7, <1>8, <1>9, <1>11, AcquireLocks,
     BodyLocks DEF Next
<1> QED
  BY <1>10, <1>11

\* The unreachable!() of the undeclarations is unreachable: between the check
\* of an entity's kind and its removal the session's write lock keeps every
\* other thread from the table, and the call's Arc keeps the session.
THEOREM CheckedEntitiesStay == Spec => []CheckedStaysFound
<1>1. Init => LockInv
  <2>1. Init => TypeInv
    BY InitType, InitIds DEF TypeInv
  <2> QED
    BY <2>1 DEF Init, LockInv, CheckedInv, Alone, Locks
<1>2. LockInv => CheckedStaysFound
  BY DEF LockInv, CheckedInv, CheckedStaysFound
<1> QED
  BY <1>1, <1>2, LockStep, PTL DEF Spec
-----------------------------------------------------------------------------
(* No session is left open.                                                *)

\* A session that left the map has an Arc, or it is closed and its entities
\* went with it: the last Arc closes what session_close did not.
HasArc(s) == \E p \in Proc : call[p].arc = s \/ darc[p] = s
Over(s) == s \in closed /\ ents[s] = NoEntities
Left(s) == zid[s] # None /\ map[zid[s]] # s
NoSessionLeaks == \A s \in Sess : Left(s) => HasArc(s) \/ Over(s)

\* A step that treats the session s well: if it was over, or had an Arc, it
\* still is or has, and if it leaves the map an Arc stays behind.
Minds(s) == /\ HasArc(s) \/ Over(s) => HasArc(s)' \/ Over(s)'
            /\ Left(s)' /\ ~Left(s) => HasArc(s)' \/ Over(s)'

\* Dropping an Arc of a session that left the map leaves another or ends it.
LEMMA DropArcEnds ==
  ASSUME TypeInv', NEW s \in Sess, Left(s)', NEW E \in Tables, NEW C, DropArc(s, E, C)
  PROVE  HasArc(s)' \/ Over(s)'
<1>1. CASE StaysAlive(s)
  BY <1>1, NoneAssumption DEF StaysAlive, HasArc, Left, TypeInv, KnownIds
<1>2. CASE ~StaysAlive(s)
  BY <1>2 DEF DropArc, Over, Tables
<1> QED
  BY <1>1, <1>2

LEMMA FinishMinds ==
  ASSUME TypeInv, TypeInv', NEW p \in Proc, pc[p] \in Inside, zid' = zid,
         NEW E \in Tables, NEW C \in SUBSET Sess, Finish(p, E, C), closed \subseteq C,
         \A r \in Sess : r # call[p].arc => E[r] = ents[r],
         NEW s \in Sess, Left(s)'
  PROVE  Minds(s)
<1>1. /\ map' = map /\ darc' = darc /\ call' = [call EXCEPT ![p] = NoCall]
      /\ DropArc(call[p].arc, E, C) /\ call \in [Proc -> Call]
      /\ call[p].arc \in Sess
  BY InsideHasArc DEF Finish, TypeInv, TypeOK
<1>2. Left(s)
  BY <1>1 DEF Left
<1>3. CASE s = call[p].arc
  BY <1>1, <1>3, DropArcEnds DEF Minds
<1>4. CASE s # call[p].arc
  <2>1. HasArc(s) => HasArc(s)'
    BY <1>1, <1>4 DEF HasArc
  <2>2. closed \subseteq closed' /\ ents'[s] = ents[s]
    BY <1>1, <1>4 DEF DropArc, Tables
  <2> QED
    BY <1>2, <2>1, <2>2 DEF Minds, Over
<1> QED
  BY <1>3, <1>4

\* A step that takes no Arc and neither closes nor unmaps a session.
LEMMA MindsStutters ==
  ASSUME UNCHANGED <<zid, map, closed, ents, darc>>,
         NEW s \in Sess, \A p \in Proc : call[p].arc = s => call'[p].arc = s
  PROVE  Minds(s)
BY DEF Minds, HasArc, Over, Left

LEMMA EnterMinds ==
  ASSUME TypeInv, NEW p \in Proc, NEW z \in Zid, NEW o, NEW K, NEW h, NEW e,
         Enter(p, get_session(z), o, K, h, e), UNCHANGED <<zid, closed, ents, darc>>,
         map' = map \/ map' = [map EXCEPT ![z] = None], NEW s \in Sess
  PROVE  Minds(s)
<1>1. /\ pc[p] = "idle" /\ ThreadOK(p) /\ call \in [Proc -> Call] /\ s # None
      /\ map \in [Zid -> Sess \cup {None}] /\ zid[s] \in Zid \cup {None}
  BY NoneAssumption DEF Enter, TypeInv, TypeOK
<1>2. HasArc(s) => HasArc(s)'
  BY <1>1 DEF Enter, HasArc, ThreadOK
<1>3. Left(s)' /\ ~Left(s) => call'[p].arc = s
  BY <1>1 DEF Enter, get_session, Left
<1> QED
  BY <1>2, <1>3 DEF Minds, HasArc, Over

LEMMA BodyMinds ==
  ASSUME TypeInv, TypeInv', NEW p \in Proc, Body(p), NEW s \in Sess, Left(s)'
  PROVE  Minds(s)
<1>1. /\ ents \in Tables /\ closed \in SUBSET Sess /\ zid' = zid /\ pc[p] \in Inside
      /\ call[p].arc \in Sess
  <2>1. pc[p] \in Inside
    BY DEF Body, Return, StartGet, Declare, Close, CheckEntity, Remove, NestedDone, Inside
  <2> QED
    BY <2>1, TablesNow, InsideHasArc
       DEF Body, Return, StartGet, Declare, Close, CheckEntity, Remove, NestedDone, TypeInv
<1>2. ASSUME NEW C \in SUBSET Sess, closed \subseteq C, Finish(p, ents, C) PROVE Minds(s)
  BY <1>1, <1>2, FinishMinds
<1>3. CASE StartGet(p) \/ CheckEntity(p)
  BY <1>3, MindsStutters DEF StartGet, CheckEntity
<1>4. CASE Declare(p)
  <2> DEFINE a == call[p].arc
             n == nextEnt[a]
             x(k) == [kind |-> k, owner |-> call[p].handle]
             E(k) == [ents EXCEPT ![a][n] = x(k)]
  <2>1. PICK k \in call[p].kinds : Finish(p, E(k), closed)
    BY <1>4 DEF Declare
  <2>2. x(k) \in Entity
    BY <1>4, <2>1 DEF Declare, Entity, Call, TypeInv, TypeOK, KnownIds, KnownCall
  <2> HIDE DEF x
  <2>3. E(k) \in Tables /\ \A r \in Sess : r # a => E(k)[r] = ents[r]
    BY <1>1, <2>2 DEF Tables
  <2> HIDE DEF E
  <2> QED
    BY <1>1, <2>1, <2>3, FinishMinds
<1>5. CASE Remove(p)
  <2> DEFINE a == call[p].arc
             E == [ents EXCEPT ![a][call[p].entity[2]] = None]
  <2>1. E \in Tables /\ \A r \in Sess : r # a => E[r] = ents[r]
    BY <1>1 DEF Tables
  <2>2. Finish(p, E, closed) \/ (ents' = E /\ UNCHANGED <<map, closed, call, darc>>)
    BY <1>5 DEF Remove
  <2> HIDE DEF E
  <2>3. CASE Finish(p, E, closed)
    BY <1>1, <2>1, <2>3, FinishMinds
  <2>4. CASE ents' = E /\ UNCHANGED <<map, closed, call, darc>>
    <3>1. s = a => HasArc(s)'
      BY <2>4 DEF HasArc
    <3>2. s # a => ents'[s] = ents[s]
      BY <2>1, <2>4
    <3> QED
      BY <1>1, <2>4, <3>1, <3>2 DEF Minds, HasArc, Over, Left
  <2> QED
    BY <2>2, <2>3, <2>4
<1>6. CASE Close(p)
  <2>1. closed \cup {call[p].arc} \in SUBSET Sess
    BY <1>1
  <2> QED
    BY <1>6, <1>2, <2>1 DEF Close
<1> QED
  BY <1>1, <1>2, <1>3, <1>4, <1>5, <1>6 DEF Body, Return, NestedDone

LEMMA session_openMinds ==
  ASSUME TypeInv, TypeInv', NEW s \in Sess, NEW z \in Zid, session_open(s, z),
         NEW r \in Sess, Left(r)'
  PROVE  Minds(r)
<1>1. /\ zid[s] = None /\ zid' = [zid EXCEPT ![s] = z] /\ map' = [map EXCEPT ![z] = s]
      /\ UNCHANGED <<call, darc>> /\ ents \in Tables
      /\ zid \in [Sess -> Zid \cup {None}] /\ map \in [Zid -> Sess \cup {None}]
  BY TablesNow DEF session_open, TypeInv, TypeOK
<1>2. r # s
  BY <1>1 DEF Left
<1>3. CASE r = map[z]
  <2>1. DropArc(r, ents, closed)
    BY <1>3, NoneAssumption DEF session_open
  <2> QED
    BY <1>1, <2>1, DropArcEnds DEF Minds
<1>4. CASE r # map[z]
  <2>1. Left(r)
    BY <1>1, <1>2, <1>4 DEF Left
  <2>2. closed \subseteq closed' /\ ents'[r] = ents[r]
    BY <1>1, <1>4 DEF session_open, DropArc, Tables
  <2> QED
    BY <1>1, <2>1, <2>2 DEF Minds, HasArc, Over
<1> QED
  BY <1>3, <1>4

LEMMA CloseDroppedMinds ==
  ASSUME TypeInv, TypeInv', NEW p \in Proc, CloseDropped(p), NEW s \in Sess, Left(s)'
  PROVE  Minds(s)
<1>1. /\ darc' = [darc EXCEPT ![p] = None] /\ UNCHANGED <<zid, map, call>>
      /\ DropArc(darc[p], ents, closed \cup {darc[p]})
      /\ ents \in Tables /\ darc \in [Proc -> Sess \cup {None}]
  BY TablesNow DEF CloseDropped, TypeInv, TypeOK
<1>2. Left(s)
  BY <1>1 DEF Left
<1>3. CASE s = darc[p]
  BY <1>1, <1>3, DropArcEnds DEF Minds
<1>4. CASE s # darc[p]
  BY <1>1, <1>2, <1>4 DEF Minds, HasArc, Over, DropArc, Tables
<1> QED
  BY <1>3, <1>4

LEMMA RemoveFromMapMinds ==
  ASSUME TypeInv, NEW p \in Proc, NEW h \in Sess, zid[h] \in Zid, darc[p] = None,
         RemoveFromMap(p, h), NEW s \in Sess
  PROVE  Minds(s)
<1>1. /\ map' = [map EXCEPT ![zid[h]] = None] /\ darc' = [darc EXCEPT ![p] = map[zid[h]]]
      /\ UNCHANGED <<zid, closed, ents, call>> /\ s # None
      /\ map \in [Zid -> Sess \cup {None}] /\ darc \in [Proc -> Sess \cup {None}]
      /\ zid[s] \in Zid \cup {None}
  BY NoneAssumption DEF RemoveFromMap, TypeInv, TypeOK
<1>2. HasArc(s) => HasArc(s)'
  BY <1>1 DEF HasArc
<1>3. Left(s)' /\ ~Left(s) => darc'[p] = s
  BY <1>1 DEF Left
<1> QED
  BY <1>1, <1>2, <1>3 DEF Minds, HasArc, Over

LEMMA LeakStep ==
  ASSUME TypeInv, [Next]_vars, NEW s \in Sess, Left(s)'
  PROVE  Minds(s)
<1>1. TypeInv'
  BY TypeStep
<1>2. ASSUME NEW p \in Proc, NEW h \in Sess, SessionNif(p, h) \/ DeclareNif(p, h)
      PROVE  Minds(s)
  <2>1. \E o, K, a, e, z : /\ Enter(p, get_session(z), o, K, a, e) /\ z = zid[h]
                           /\ h \in held /\ UNCHANGED <<zid, closed, ents, darc>>
                           /\ map' = map \/ map' = [map EXCEPT ![z] = None]
    BY <1>2, SessionNifEnters DEF OnSession, session_close
  <2>2. h \in held => zid[h] \in Zid
    BY DEF TypeInv, KnownIds
  <2> QED
    BY <2>1, <2>2, EnterMinds
<1>3. ASSUME NEW p \in Proc, NEW e \in EntId, EntityNif(p, e) PROVE Minds(s)
  <2>1. PICK o \in {"use", "get", "undeclare"}, K \in SUBSET Kinds : OnEntity(p, e, o, K)
    BY <1>3, EntityNifEnters
  <2>2. zid[e[1]] \in Zid
    BY <2>1 DEF OnEntity, TypeInv, KnownIds
  <2> QED
    BY <2>1, <2>2, EnterMinds DEF OnEntity
<1>4. ASSUME NEW p \in Proc, Acquire(p) PROVE Minds(s)
  BY <1>4, MindsStutters DEF Acquire
<1>5. ASSUME NEW p \in Proc, EndGet(p) PROVE Minds(s)
  <2>1. /\ pc[p] \in Inside /\ ents \in Tables /\ closed \in SUBSET Sess
        /\ zid' = zid /\ Finish(p, ents, closed)
    BY <1>5, TablesNow DEF EndGet, Inside
  <2> QED
    BY <1>1, <2>1, FinishMinds
<1>6. ASSUME \/ \E h \in Sess : ReleaseSession(h)
             \/ \E e \in EntId : ReleaseEntity(e)
      PROVE  Minds(s)
  BY <1>6, MindsStutters DEF ReleaseSession, ReleaseEntity
<1>7. ASSUME NEW p \in Proc, NEW e \in EntId, DropEntity(p, e) PROVE Minds(s)
  <2>1. zid[e[1]] \in Zid /\ UNCHANGED <<zid, map, closed, ents, darc>>
    BY <1>7 DEF DropEntity, TypeInv, KnownIds
  <2>2. CASE UNCHANGED call
    BY <2>1, <2>2, MindsStutters
  <2>3. CASE Enter(p, get_session(zid[e[1]]), "drop", Kinds, None, e)
    BY <2>1, <2>3, EnterMinds
  <2> QED
    BY <1>7, <2>2, <2>3 DEF DropEntity
<1>8. ASSUME NEW p \in Proc, NEW h \in Sess, DropSession(p, h) \/ DropNested(p, h)
      PROVE  Minds(s)
  <2>1. zid[h] \in Zid /\ darc[p] = None /\ RemoveFromMap(p, h)
    BY <1>8, NoDestructor DEF DropSession, DropNested, TypeInv, KnownIds
  <2> QED
    BY <2>1, RemoveFromMapMinds
<1>9. CASE UNCHANGED vars
  BY <1>9, MindsStutters DEF vars
<1>10. CASE Next
  BY <1>1, <1>2, <1>3, <1>4, <1>5, <1>6, <1>7, <1>8, <1>10, session_openMinds,
     BodyMinds, CloseDroppedMinds DEF Next
<1> QED
  BY <1>9, <1>10

\* No session is left open: one that is out of the map is in the hands of a
\* call or a destructor, or its zenoh session is closed and its entities are
\* gone, whatever NIFs failed, collided or interleaved on the way.
THEOREM UnmappedSessionsEnd == Spec => []NoSessionLeaks
<1>1. Init => NoSessionLeaks
  BY DEF Init, NoSessionLeaks, Left
<1>2. ASSUME TypeInv, NoSessionLeaks, [Next]_vars PROVE NoSessionLeaks'
  <2>1. ASSUME NEW s \in Sess, Left(s)' PROVE HasArc(s)' \/ Over(s)'
    <3>1. Minds(s)
      BY <1>2, <2>1, LeakStep
    <3> QED
      BY <1>2, <2>1, <3>1 DEF Minds, NoSessionLeaks
  <2> QED
    BY <2>1 DEF NoSessionLeaks
<1> QED
  BY <1>1, <1>2, IdsKnown, PTL DEF Spec
-----------------------------------------------------------------------------
(* The steps that change zid and the map.                                  *)

LEMMA ZidChanges ==
  ASSUME [Next]_vars
  PROVE  zid' = zid \/ \E s \in Sess, z \in Zid : session_open(s, z)
<1>1. ASSUME NEW p \in Proc, NEW h \in Sess, SessionNif(p, h) \/ DeclareNif(p, h)
      PROVE  zid' = zid
  BY <1>1, SessionNifEnters DEF OnSession, session_close
<1>2. ASSUME NEW p \in Proc, NEW e \in EntId, EntityNif(p, e) PROVE zid' = zid
  BY <1>2, EntityNifEnters DEF OnEntity
<1>3. ASSUME NEW p \in Proc, Body(p) PROVE zid' = zid
  BY <1>3 DEF Body, Return, StartGet, Declare, Close, CheckEntity, Remove, NestedDone
<1> QED
  BY <1>1, <1>2, <1>3 DEF Next, vars, Acquire, EndGet, CloseDropped,
     ReleaseSession, ReleaseEntity, DropEntity, DropSession, DropNested, RemoveFromMap

LEMMA MapChanges ==
  ASSUME [Next]_vars
  PROVE  \/ map' = map
         \/ \E s \in Sess, z \in Zid : session_open(s, z)
         \/ \E p \in Proc, h \in Sess : session_close(p, h)
         \/ \E p \in Proc, h \in Sess : DropSession(p, h) \/ DropNested(p, h)
<1>1. ASSUME NEW p \in Proc, NEW h \in Sess, SessionNif(p, h) \/ DeclareNif(p, h)
      PROVE  map' = map \/ session_close(p, h)
  BY <1>1, SessionNifEnters DEF OnSession
<1>2. ASSUME NEW p \in Proc, NEW e \in EntId, EntityNif(p, e) PROVE map' = map
  BY <1>2, EntityNifEnters DEF OnEntity
<1>3. ASSUME NEW p \in Proc, Body(p) PROVE map' = map
  BY <1>3 DEF Body, Return, StartGet, Declare, Close, CheckEntity, Remove, NestedDone, Finish
<1> QED
  BY <1>1, <1>2, <1>3 DEF Next, vars, Acquire, EndGet, Finish, CloseDropped,
     ReleaseSession, ReleaseEntity, DropEntity
-----------------------------------------------------------------------------
(* No entity is left behind.                                               *)

\* An entity in the table of a session that is in the map can still be
\* undeclared: its handle is held, or its destructor is still to start or has
\* started on that very session.
Live(s) == zid[s] # None /\ map[zid[s]] = s
Dropping(p, e) == call[p].op = "drop" /\ call[p].entity = e /\ call[p].arc = e[1]
Claimed(e) == e \in eheld \cup edoomed \/ \E p \in Proc : Dropping(p, e)
NoEntityLeaks ==
  \A e \in EntId : Live(e[1]) /\ ents[e[1]][e[2]] # None => Claimed(e)

\* An entity destructor takes any kind of entity; while it runs the session
\* destructors its removal set off, under the write lock, nobody declares the
\* entity again; only gets collect; and no session has entities before it opens.
DropCall(p) == call[p].op = "drop" => call[p].kinds = Kinds /\ call[p].entity \in EntId
NestedGone(p) == call[p].op = "drop" /\ pc[p] = "nested"
                 => ents[call[p].arc][call[p].entity[2]] = None
Collects(p) == pc[p] = "collect" => call[p].op = "get"
ClaimInv ==
  /\ LockInv
  /\ \A p \in Proc : DropCall(p) /\ NestedGone(p) /\ Collects(p)
  /\ \A s \in Sess : zid[s] = None => ents[s] = NoEntities

\* What a step is for one thread.
LEMMA ThreadCases ==
  ASSUME TypeInv, [Next]_vars, NEW q \in Proc
  PROVE  \/ Body(q) \/ EndGet(q) \/ Acquire(q)
         \/ pc[q] = "idle" /\ pc'[q] = "lock" /\ DropCall(q)'
         \/ call'[q] = call[q] /\ pc'[q] \in {pc[q], "idle", "dtor"}
<1> DEFINE Enters == pc[q] = "idle" /\ pc'[q] = "lock" /\ DropCall(q)'
           Stays == call'[q] = call[q] /\ pc'[q] \in {pc[q], "idle", "dtor"}
<1>1. pc \in [Proc -> Pc] /\ call \in [Proc -> Call]
  BY DEF TypeInv, TypeOK
<1>2. ASSUME NEW p \in Proc, NEW s, NEW o, NEW K, NEW h, NEW e, Enter(p, s, o, K, h, e),
             o = "drop" => K = Kinds /\ e \in EntId
      PROVE  Enters \/ Stays
  BY <1>1, <1>2 DEF Enter, DropCall
<1>3. ASSUME NEW p \in Proc, NEW E, NEW C, Finish(p, E, C), p # q PROVE Stays
  BY <1>1, <1>3 DEF Finish
<1>4. UNCHANGED <<pc, call>> => Stays
  OBVIOUS
<1>5. ASSUME NEW p \in Proc, p # q, Body(p) \/ EndGet(p) \/ Acquire(p) PROVE Stays
  <2>1. CASE Return(p) \/ Declare(p) \/ Close(p) \/ NestedDone(p) \/ EndGet(p)
    BY <1>3, <1>5, <2>1 DEF Return, Declare, Close, NestedDone, EndGet
  <2>2. CASE StartGet(p) \/ CheckEntity(p) \/ Acquire(p)
    BY <1>1, <1>5, <2>2 DEF StartGet, CheckEntity, Acquire
  <2>3. CASE Remove(p)
    BY <1>1, <1>3, <1>5, <2>3 DEF Remove
  <2> QED
    BY <1>5, <2>1, <2>2, <2>3 DEF Body
<1>6. ASSUME NEW p \in Proc, NEW h \in Sess, SessionNif(p, h) \/ DeclareNif(p, h)
      PROVE  Enters \/ Stays
  BY <1>2, <1>6, SessionNifEnters DEF OnSession, session_close
<1>7. ASSUME NEW p \in Proc, NEW e \in EntId, EntityNif(p, e) PROVE Enters \/ Stays
  BY <1>2, <1>7, EntityNifEnters DEF OnEntity
<1>8. ASSUME NEW p \in Proc, NEW e \in EntId, DropEntity(p, e) PROVE Enters \/ Stays
  BY <1>2, <1>4, <1>8 DEF DropEntity
<1>9. ASSUME NEW p \in Proc, NEW h \in Sess, DropSession(p, h) \/ DropNested(p, h)
      PROVE  Stays
  BY <1>1, <1>9 DEF DropSession, DropNested, RemoveFromMap
<1>10. ASSUME NEW p \in Proc, CloseDropped(p) PROVE Stays
  BY <1>1, <1>10 DEF CloseDropped
<1> HIDE DEF Enters, Stays
<1> SUFFICES Body(q) \/ EndGet(q) \/ Acquire(q) \/ Enters \/ Stays
  BY DEF Enters, Stays
<1>11. CASE Next
  BY <1>4, <1>5, <1>6, <1>7, <1>8, <1>9, <1>10, <1>11
     DEF Next, session_open, ReleaseSession, ReleaseEntity
<1>12. CASE UNCHANGED vars
  BY <1>4, <1>12 DEF vars
<1> QED
  BY <1>11, <1>12

\* Dropping an Arc adds nothing to a table.
LEMMA DropArcAdds ==
  ASSUME NEW s, NEW E \in Tables, NEW C, DropArc(s, E, C), NEW r \in Sess, NEW n \in EntNum
  PROVE  ents'[r][n] \in {None, E[r][n]}
BY DEF DropArc, Tables, NoEntities

\* Only a declaration puts an entity into a table: that of the session its
\* thread has locked to write, under the number it hands out.
LEMMA OnlyDeclarationsAdd ==
  ASSUME TypeInv, [Next]_vars, NEW s \in Sess, NEW n \in EntNum,
         ents'[s][n] \notin {None, ents[s][n]}
  PROVE  \E p \in Proc : /\ Declare(p) /\ call[p].arc = s
                         /\ eheld' = eheld \cup {<<s, n>>}
                         /\ ents'[s][n].owner = call[p].handle
<1>1. ents \in Tables /\ ents' # ents
  BY TablesNow
<1>2. ASSUME NEW r, NEW C, DropArc(r, ents, C) PROVE FALSE
  BY <1>1, <1>2, DropArcAdds
<1>3. ASSUME NEW p \in Proc, Declare(p)
      PROVE  /\ call[p].arc = s /\ eheld' = eheld \cup {<<s, n>>}
             /\ ents'[s][n].owner = call[p].handle
  <2> DEFINE a == call[p].arc
             m == nextEnt[a]
             x(k) == [kind |-> k, owner |-> call[p].handle]
             E(k) == [ents EXCEPT ![a][m] = x(k)]
  <2>1. PICK k \in call[p].kinds : Finish(p, E(k), closed)
    BY <1>3 DEF Declare
  <2>2. x(k) \in Entity /\ x(k).owner = call[p].handle
    BY <1>3, <2>1 DEF Declare, Entity, Call, TypeInv, TypeOK, KnownIds, KnownCall
  <2> HIDE DEF x
  <2>3. /\ E(k) \in Tables
        /\ E(k)[s][n] = ents[s][n] \/ (s = a /\ n = m /\ E(k)[s][n] = x(k))
    BY <1>1, <2>2 DEF Tables
  <2> HIDE DEF E
  <2>4. ents'[s][n] \in {None, E(k)[s][n]}
    BY <2>1, <2>3, DropArcAdds DEF Finish
  <2> QED
    BY <1>3, <2>2, <2>3, <2>4 DEF Declare
<1>4. ASSUME NEW p \in Proc, Remove(p) PROVE FALSE
  <2> DEFINE E == [ents EXCEPT ![call[p].arc][call[p].entity[2]] = None]
  <2>1. E \in Tables /\ E[s][n] \in {None, ents[s][n]}
    BY <1>1 DEF Tables
  <2>2. ents' = E \/ Finish(p, E, closed)
    BY <1>4 DEF Remove
  <2> HIDE DEF E
  <2> QED
    BY <2>1, <2>2, DropArcAdds DEF Finish
<1>5. ASSUME NEW p \in Proc, NEW h \in Sess, SessionNif(p, h) \/ DeclareNif(p, h)
      PROVE  FALSE
  BY <1>1, <1>5, SessionNifEnters DEF OnSession, session_close
<1>6. ASSUME NEW p \in Proc, NEW e \in EntId, EntityNif(p, e) PROVE FALSE
  BY <1>1, <1>6, EntityNifEnters DEF OnEntity
<1>7. ASSUME NEW p \in Proc, Body(p) \/ EndGet(p) PROVE Declare(p)
  BY <1>1, <1>2, <1>4, <1>7 DEF Body, Return, StartGet, Close, CheckEntity, NestedDone, EndGet, Finish
<1>8. ASSUME NEW r \in Sess, NEW z \in Zid, session_open(r, z) PROVE FALSE
  BY <1>1, <1>2, <1>8 DEF session_open
<1>9. ASSUME NEW p \in Proc, Acquire(p) \/ CloseDropped(p) PROVE FALSE
  BY <1>1, <1>2, <1>9 DEF Acquire, CloseDropped
<1> QED
  BY <1>1, <1>3, <1>5, <1>6, <1>7, <1>8, <1>9
     DEF Next, vars, ReleaseSession, ReleaseEntity, DropEntity, DropSession, DropNested,
         RemoveFromMap

LEMMA ClaimInit == Init => ClaimInv
<1> SUFFICES ASSUME Init PROVE ClaimInv
  OBVIOUS
<1>1. LockInv
  BY InitType, InitIds DEF Init, TypeInv, LockInv, CheckedInv, Alone, Locks
<1>2. \A p \in Proc : call[p].op = "none" /\ pc[p] = "idle"
  BY DEF Init, NoCall
<1> QED
  BY <1>1, <1>2 DEF Init, ClaimInv, DropCall, NestedGone, Collects

LEMMA ClaimStep == ClaimInv /\ [Next]_vars => ClaimInv'
<1> SUFFICES ASSUME ClaimInv, [Next]_vars PROVE ClaimInv'
  OBVIOUS
<1>1. LockInv' /\ TypeInv /\ TypeInv'
  BY LockStep DEF ClaimInv, LockInv
<1>2. /\ pc \in [Proc -> Pc] /\ call \in [Proc -> Call] /\ ents \in Tables /\ ents' \in Tables
  BY <1>1, TablesNow DEF TypeInv, TypeOK, Tables
<1>3. ASSUME NEW q \in Proc, DropCall(q)', Collects(q)',
             pc'[q] = "nested" => pc[q] = "nested" /\ call'[q] = call[q]
      PROVE  DropCall(q)' /\ NestedGone(q)' /\ Collects(q)'
  <2> SUFFICES ASSUME call'[q].op = "drop", pc'[q] = "nested"
               PROVE  ents'[call'[q].arc][call'[q].entity[2]] = None
    BY <1>3 DEF NestedGone
  <2>1. /\ pc[q] = "nested" /\ call'[q] = call[q] /\ call[q].op = "drop"
        /\ call[q].arc \in Sess /\ call[q].entity[2] \in EntNum
        /\ ents[call[q].arc][call[q].entity[2]] = None
    BY <1>1, <1>3, InsideHasArc DEF ClaimInv, NestedGone, DropCall, EntId, TypeInv, Inside
  <2>2. ASSUME NEW p \in Proc, Declare(p), call[p].arc = call[q].arc PROVE FALSE
    <3>1. p # q /\ Exclusive(q) /\ Locks(q, call[q].arc) /\ Locks(p, call[q].arc)
      BY <2>1, <2>2 DEF Declare, Exclusive, Locks
    <3> QED
      BY <2>1, <3>1 DEF ClaimInv, LockInv, CheckedInv, Alone
  <2> QED
    BY <1>1, <2>1, <2>2, OnlyDeclarationsAdd
<1>4. ASSUME NEW q \in Proc
      PROVE  DropCall(q)' /\ NestedGone(q)' /\ Collects(q)'
  <2>1. DropCall(q) /\ NestedGone(q) /\ Collects(q)
    BY DEF ClaimInv
  <2>2. ASSUME NEW E, NEW C, Finish(q, E, C)
        PROVE  DropCall(q)' /\ NestedGone(q)' /\ Collects(q)'
    BY <1>2, <2>2 DEF Finish, DropCall, NestedGone, Collects, NoCall
  <2>3. CASE StartGet(q) \/ CheckEntity(q) \/ Acquire(q)
    BY <1>2, <2>1, <2>3 DEF StartGet, CheckEntity, Acquire, DropCall, NestedGone, Collects
  <2>4. CASE Remove(q)
    <3> DEFINE E == [ents EXCEPT ![call[q].arc][call[q].entity[2]] = None]
    <3>1. Finish(q, E, closed) \/ (ents' = E /\ UNCHANGED call /\ pc'[q] = "nested")
      BY <1>2, <2>4 DEF Remove
    <3>2. pc[q] = "checked" /\ call[q].arc \in Sess
      BY <1>1, <2>4, InsideHasArc DEF Remove, Inside, TypeInv
    <3>3. call[q].op = "drop" => E[call[q].arc][call[q].entity[2]] = None
      BY <1>2, <2>1, <3>2 DEF DropCall, EntId, Tables
    <3> HIDE DEF E
    <3> QED
      BY <2>1, <2>2, <3>1, <3>3 DEF DropCall, NestedGone, Collects
  <2>5. CASE Body(q) \/ EndGet(q)
    BY <2>2, <2>3, <2>4, <2>5 DEF Body, Return, Declare, Close, NestedDone, EndGet
  <2>6. CASE pc[q] = "idle" /\ pc'[q] = "lock" /\ DropCall(q)'
    BY <1>3, <2>6 DEF Collects
  <2>7. CASE call'[q] = call[q] /\ pc'[q] \in {pc[q], "idle", "dtor"}
    BY <1>3, <2>1, <2>7 DEF DropCall, Collects
  <2> QED
    BY <1>1, <2>3, <2>5, <2>6, <2>7, ThreadCases
<1>5. ASSUME NEW s \in Sess, zid'[s] = None PROVE ents'[s] = NoEntities
  <2>1. zid[s] = None
    <3>1. zid' = zid \/ \E r \in Sess, z \in Zid : zid' = [zid EXCEPT ![r] = z]
      BY ZidChanges DEF session_open
    <3> QED
      BY <1>1, <1>5, <3>1, NoneAssumption DEF TypeInv, TypeOK
  <2>2. ents[s] = NoEntities
    BY <2>1 DEF ClaimInv
  <2>3. \A p \in Proc : Declare(p) => call[p].arc # s
    BY <1>1, <2>1, InsideHasArc, NoneAssumption DEF Declare, TypeInv, KnownIds, KnownCall, Inside
  <2>4. \A n \in EntNum : ents'[s][n] = None
    BY <1>1, <2>2, <2>3, OnlyDeclarationsAdd DEF NoEntities
  <2> QED
    BY <1>2, <2>4 DEF NoEntities, Tables
<1> QED
  BY <1>1, <1>4, <1>5 DEF ClaimInv

\* A call that drops the entity's handle ends when the entity is gone.
LEMMA DropEnds ==
  ASSUME ClaimInv, NEW q \in Proc, Body(q) \/ EndGet(q),
         NEW e \in EntId, Dropping(q, e), ~Dropping(q, e)'
  PROVE  ents'[e[1]][e[2]] = None
<1> DEFINE E == [ents EXCEPT ![e[1]][e[2]] = None]
<1>1. /\ e[1] \in Sess /\ e[2] \in EntNum /\ ents \in Tables
      /\ call[q].op = "drop" /\ call[q].entity = e /\ call[q].arc = e[1]
      /\ DropCall(q) /\ NestedGone(q) /\ Collects(q) /\ call \in [Proc -> Call]
  BY TablesNow DEF ClaimInv, LockInv, TypeInv, TypeOK, Dropping, EntId
<1>2. ASSUME ents[e[1]][e[2]] = None, NEW C, Finish(q, ents, C) PROVE ents'[e[1]][e[2]] = None
  BY <1>1, <1>2, DropArcAdds DEF Finish
<1>3. CASE Return(q)
  <2>1. ~Found(q) /\ Finish(q, ents, closed)
    BY <1>1, <1>3 DEF Return, Exclusive
  <2>2. ents[e[1]][e[2]] = None
    BY <1>1, <2>1 DEF Found, get_entity, DropCall, Tables, Entity
  <2> QED
    BY <1>2, <2>1, <2>2
<1>4. CASE Remove(q)
  <2>1. E \in Tables /\ E[e[1]][e[2]] = None
    BY <1>1 DEF Tables
  <2>2. ents' = E \/ Finish(q, E, closed)
    BY <1>1, <1>4 DEF Remove
  <2> HIDE DEF E
  <2> QED
    BY <1>1, <2>1, <2>2, DropArcAdds DEF Finish
<1>5. CASE NestedDone(q)
  BY <1>1, <1>2, <1>5 DEF NestedDone, NestedGone
<1>6. CASE CheckEntity(q)
  BY <1>6 DEF CheckEntity, Dropping
<1> QED
  BY <1>1, <1>3, <1>4, <1>5, <1>6 DEF Body, StartGet, Declare, Close, EndGet, Collects

\* A handle is held until it waits for its destructor, and waits until that
\* starts on the session the map has for it.
LEMMA HandlesGo ==
  ASSUME TypeInv, [Next]_vars, NEW e \in EntId, Live(e[1]), e \in eheld \cup edoomed
  PROVE  Claimed(e)'
<1>1. CASE UNCHANGED <<eheld, edoomed>>
  BY <1>1 DEF Claimed
<1>2. ASSUME NEW p \in Proc, Body(p) PROVE eheld \subseteq eheld' /\ edoomed' = edoomed
  BY <1>2 DEF Body, Return, StartGet, Declare, Close, CheckEntity, Remove, NestedDone, handles
<1>3. ASSUME NEW p \in Proc, NEW x \in EntId, DropEntity(p, x) PROVE Claimed(e)'
  <2>1. CASE x # e
    BY <1>3, <2>1 DEF DropEntity, Claimed
  <2>2. CASE x = e
    <3>1. get_session(zid[e[1]]) = e[1] /\ e[1] # None /\ call \in [Proc -> Call]
      BY NoneAssumption DEF Live, get_session, TypeInv, TypeOK, EntId
    <3>2. Enter(p, e[1], "drop", Kinds, None, e)
      BY <1>3, <2>2, <3>1 DEF DropEntity
    <3>3. Dropping(p, e)'
      BY <3>1, <3>2 DEF Enter, Dropping
    <3> QED
      BY <3>3 DEF Claimed
  <2> QED
    BY <2>1, <2>2
<1>4. ASSUME NEW x \in EntId, ReleaseEntity(x) PROVE Claimed(e)'
  BY <1>4 DEF ReleaseEntity, Claimed
<1>5. ASSUME NEW p \in Proc, NEW h \in Sess, SessionNif(p, h) \/ DeclareNif(p, h)
      PROVE  UNCHANGED <<eheld, edoomed>>
  BY <1>5, SessionNifEnters DEF OnSession, session_close, handles
<1>6. ASSUME NEW p \in Proc, NEW x \in EntId, EntityNif(p, x)
      PROVE  UNCHANGED <<eheld, edoomed>>
  BY <1>6, EntityNifEnters DEF OnEntity, handles
<1>7. ASSUME NEW p \in Proc, Body(p) PROVE Claimed(e)'
  BY <1>2, <1>7 DEF Claimed
<1> QED
  BY <1>1, <1>3, <1>4, <1>5, <1>6, <1>7
     DEF Next, vars, session_open, Acquire, EndGet, CloseDropped, ReleaseSession,
         DropSession, DropNested, RemoveFromMap, handles

\* An entity in the table of a live session stays claimed.
LEMMA ClaimedStays ==
  ASSUME ClaimInv, [Next]_vars, NEW e \in EntId, Live(e[1]), Claimed(e),
         ents'[e[1]][e[2]] # None
  PROVE  Claimed(e)'
<1>1. TypeInv
  BY DEF ClaimInv, LockInv
<1>2. ASSUME NEW q \in Proc, Dropping(q, e) PROVE Dropping(q, e)'
  <2>1. CASE Body(q) \/ EndGet(q)
    BY <1>2, <2>1, DropEnds
  <2>2. CASE Acquire(q)
    BY <1>2, <2>2 DEF Acquire, Dropping
  <2>3. pc[q] # "idle"
    BY <1>1, <1>2, NoneAssumption DEF Dropping, TypeInv, TypeOK, ThreadOK, EntId
  <2>4. CASE call'[q] = call[q]
    BY <1>2, <2>4 DEF Dropping
  <2> QED
    BY <1>1, <2>1, <2>2, <2>3, <2>4, ThreadCases
<1> QED
  BY <1>1, <1>2, HandlesGo DEF Claimed

\* A live session was live before, or is new and has no entity.
LEMMA LiveWas ==
  ASSUME ClaimInv, [Next]_vars, NEW s \in Sess, Live(s)'
  PROVE  Live(s) \/ ents[s] = NoEntities
<1>1. /\ map \in [Zid -> Sess \cup {None}] /\ zid \in [Sess -> Zid \cup {None}]
      /\ None \notin Sess
  BY NoneAssumption DEF ClaimInv, LockInv, TypeInv, TypeOK
<1>2. zid[s] = None \/ zid'[s] = zid[s]
  BY <1>1, ZidChanges DEF session_open
<1>3. ASSUME zid[s] # None, map[zid[s]] # s PROVE FALSE
  <2>1. CASE map' = map
    BY <1>2, <1>3, <2>1 DEF Live
  <2>2. ASSUME NEW r \in Sess, NEW z \in Zid, session_open(r, z) PROVE FALSE
    BY <1>1, <1>2, <1>3, <2>2 DEF Live, session_open
  <2>3. ASSUME NEW z, map' = [map EXCEPT ![z] = None] PROVE FALSE
    BY <1>1, <1>2, <1>3, <2>3 DEF Live
  <2> QED
    BY <2>1, <2>2, <2>3, MapChanges DEF session_close, DropSession, DropNested, RemoveFromMap
<1> QED
  BY <1>3 DEF ClaimInv, Live

\* No entity is left behind in a session one can look up: as long as it is in
\* the table its handle is held, or the destructor that undeclares it is
\* waiting or at work, wherever destructors run and whatever zids come back.
THEOREM EntitiesStayClaimed == Spec => []NoEntityLeaks
<1>1. Init => NoEntityLeaks
  BY DEF Init, NoEntityLeaks, Live, EntId
<1>2. ASSUME ClaimInv, NoEntityLeaks, [Next]_vars PROVE NoEntityLeaks'
  <2>1. ASSUME NEW e \in EntId, Live(e[1])', ents'[e[1]][e[2]] # None PROVE Claimed(e)'
    <3>1. e[1] \in Sess /\ e[2] \in EntNum /\ e = <<e[1], e[2]>>
      BY DEF EntId
    <3>2. CASE ents[e[1]][e[2]] = None
      <4>1. \E p \in Proc : eheld' = eheld \cup {e}
        BY <1>2, <2>1, <3>1, <3>2, OnlyDeclarationsAdd DEF ClaimInv, LockInv
      <4> QED
        BY <4>1 DEF Claimed
    <3>3. CASE ents[e[1]][e[2]] # None
      <4>1. Live(e[1])
        BY <1>2, <2>1, <3>1, <3>3, LiveWas DEF NoEntities
      <4>2. Claimed(e)
        BY <1>2, <3>3, <4>1 DEF NoEntityLeaks
      <4> QED
        BY <1>2, <2>1, <4>1, <4>2, ClaimedStays
    <3> QED
      BY <3>2, <3>3
  <2> QED
    BY <2>1 DEF NoEntityLeaks
<1> QED
  BY <1>1, <1>2, ClaimInit, ClaimStep, PTL DEF Spec
==========================================================================
