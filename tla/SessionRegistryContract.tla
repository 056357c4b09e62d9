--------------------- MODULE SessionRegistryContract ---------------------
(***************************************************************************)
(* What clients can rely on, for any number of threads, sessions, zids and *)
(* entities and any place for destructors.  No session stays in the map    *)
(* with no handle left to close it; and, while zids are not reused, one    *)
(* whose handle is referenced leaves only when it is closed, and           *)
(* SessionRegistry keeps what Zenohex.Session promises: every step of the  *)
(* locks, lookups and destructors is a step of SessionContract or          *)
(* invisible to it.  Where destructors are scheduled or clients keep their *)
(* session handles, the session locks never deadlock.  Last, where zids    *)
(* are reused, only a session's own zid can end it.                        *)
(***************************************************************************)
EXTENDS SessionRegistryProofs

\* A handle that is referenced, or whose destructor is still to come.
Dying(h) == h \in doomed \/ \E p \in Proc : h \in pend[p]
Lively(h) == Referenced(h) \/ Dying(h)

\* A destructor comes after the last reference, and for good: only a call
\* whose argument is the handle could refer to it again, and that handle is held.
HandleInv ==
  /\ TypeInv
  /\ \A p \in Proc : pc[p] # "nested" => pend[p] = {}
  /\ \A h \in Sess : Dying(h) => ~Referenced(h)
  /\ \A p \in Proc : call[p].handle # None => call[p].handle \in held
-----------------------------------------------------------------------------
LEMMA HandleInit == Init => HandleInv
<1> SUFFICES ASSUME Init PROVE HandleInv
  OBVIOUS
<1>1. TypeInv
  BY InitType, InitIds DEF TypeInv
<1>2. \A h \in Sess : ~Dying(h)
  BY DEF Init, Dying
<1>3. \A p \in Proc : call[p].handle = None /\ pend[p] = {}
  BY DEF Init, NoCall
<1> QED
  BY <1>1, <1>2, <1>3 DEF HandleInv

\* What a step releases is dying and not referenced after it.
LEMMA ReleasedDie ==
  ASSUME HandleInv, held' = held,
         \A h \in Sess : Dying(h)' => Dying(h) \/ h \in Released(ents'),
         \A h \in Sess : Owns(ents', h) => Owns(ents, h) \/ h \in held,
         NEW h \in Sess, Dying(h)'
  PROVE  ~Referenced(h)'
<1>1. CASE Dying(h)
  BY <1>1 DEF HandleInv, Referenced
<1>2. CASE h \in Released(ents')
  BY <1>2 DEF Released, Referenced
<1> QED
  BY <1>1, <1>2

LEMMA HandleFrame ==
  ASSUME HandleInv, TypeInv', held' = held,
         \A p \in Proc : pc'[p] # "nested" => pend'[p] = {},
         \A h \in Sess : Dying(h)' => Dying(h) \/ h \in Released(ents'),
         \A h \in Sess : Owns(ents', h) => Owns(ents, h) \/ h \in held,
         \A p \in Proc : call'[p].handle # None => call'[p].handle \in held
  PROVE  HandleInv'
<1>1. \A h \in Sess : Dying(h)' => ~Referenced(h)'
  BY ReleasedDie
<1> QED
  BY <1>1 DEF HandleInv

\* A step that changes no table and starts no destructor.
LEMMA HandleStutters ==
  ASSUME HandleInv, TypeInv', held' = held, ents' = ents,
         \A p \in Proc : pc'[p] # "nested" => pend'[p] = {},
         \A h \in Sess : Dying(h)' => Dying(h),
         \A p \in Proc : call'[p].handle # None => call'[p].handle \in held
  PROVE  HandleInv'
BY HandleFrame

\* Dropping an Arc takes entities away.
LEMMA DropArcOwns ==
  ASSUME NEW s, NEW E \in Tables, NEW C, DropArc(s, E, C),
         NEW h \in Sess, Owns(ents', h)
  PROVE  Owns(E, h)
BY DEF DropArc, Owns, Tables, NoEntities

LEMMA FinishHandles ==
  ASSUME HandleInv, TypeInv', NEW p \in Proc, pc[p] # "nested" \/ pend[p] = {},
         held' = held, NEW E \in Tables, NEW C, Finish(p, E, C),
         \A h \in Sess : Owns(E, h) => Owns(ents, h) \/ h \in held
  PROVE  HandleInv'
<1>1. /\ pend' = pend /\ pc' = [pc EXCEPT ![p] = "idle"]
      /\ call' = [call EXCEPT ![p] = NoCall] /\ doomed' = doomed \cup Released(ents')
      /\ DropArc(call[p].arc, E, C)
  BY DEF Finish
<1>2. pc \in [Proc -> Pc] /\ call \in [Proc -> Call]
  BY DEF HandleInv, TypeInv, TypeOK
<1>3. \A q \in Proc : pc'[q] # "nested" => pend'[q] = {}
  BY <1>1, <1>2 DEF HandleInv
<1>4. \A h \in Sess : Dying(h)' => Dying(h) \/ h \in Released(ents')
  BY <1>1 DEF Dying
<1>5. \A h \in Sess : Owns(ents', h) => Owns(ents, h) \/ h \in held
  BY <1>1, DropArcOwns
<1>6. \A q \in Proc : call'[q].handle # None => call'[q].handle \in held
  BY <1>1, <1>2 DEF HandleInv, NoCall
<1> QED
  BY <1>3, <1>4, <1>5, <1>6, HandleFrame

LEMMA EnterHandles ==
  ASSUME HandleInv, TypeInv', NEW p \in Proc, NEW s, NEW o, NEW K, NEW h, NEW e,
         Enter(p, s, o, K, h, e), h = None \/ h \in held,
         UNCHANGED <<ents, held, doomed, pend>>
  PROVE  HandleInv'
<1>1. \A q \in Proc : pc'[q] # "nested" => pend'[q] = {}
  BY DEF Enter, HandleInv, TypeInv, TypeOK
<1>2. \A q \in Proc : call'[q].handle # None => call'[q].handle \in held
  BY DEF Enter, HandleInv, TypeInv, TypeOK
<1>3. \A x \in Sess : Dying(x)' => Dying(x)
  BY DEF Dying
<1> QED
  BY <1>1, <1>2, <1>3, HandleStutters

LEMMA BodyHandles ==
  ASSUME HandleInv, TypeInv', NEW p \in Proc, Body(p)
  PROVE  HandleInv'
<1>1. /\ ents \in Tables /\ pc \in [Proc -> Pc] /\ call \in [Proc -> Call]
      /\ pend \in [Proc -> SUBSET Sess]
  BY TablesNow DEF HandleInv, TypeInv, TypeOK
<1>2. ASSUME NEW C, Finish(p, ents, C), held' = held, pc[p] # "nested" \/ pend[p] = {}
      PROVE  HandleInv'
  BY <1>1, <1>2, FinishHandles
<1>3. ASSUME StartGet(p) \/ CheckEntity(p) PROVE HandleInv'
  <2>1. /\ UNCHANGED <<ents, held, doomed, pend, call>>
        /\ \A q \in Proc : pc'[q] = pc[q] \/ pc[q] = "body"
    BY <1>1, <1>3 DEF StartGet, CheckEntity, handles
  <2>2. \A x \in Sess : Dying(x)' => Dying(x)
    BY <2>1 DEF Dying
  <2> QED
    BY <2>1, <2>2, HandleStutters DEF HandleInv
<1>4. ASSUME Declare(p) PROVE HandleInv'
  <2> DEFINE s == call[p].arc
             n == nextEnt[s]
             x(k) == [kind |-> k, owner |-> call[p].handle]
  <2>1. PICK k \in call[p].kinds : Finish(p, [ents EXCEPT ![s][n] = x(k)], closed)
    BY <1>4 DEF Declare
  <2>2. x(k) \in Entity /\ x(k).owner \in held
    BY <1>4 DEF Declare, Entity, Call, HandleInv, TypeInv, TypeOK, KnownIds, KnownCall
  <2> DEFINE E == [ents EXCEPT ![s][n] = x(k)]
  <2>3. pc[p] = "body" /\ held' = held /\ Finish(p, E, closed)
    BY <1>4, <2>1 DEF Declare
  <2> HIDE DEF x
  <2>4. E \in Tables
    BY <1>1, <2>2 DEF Tables
  <2>5. ASSUME NEW r \in Sess, NEW m \in EntNum PROVE E[r][m] \in {x(k), ents[r][m]}
    BY <1>1 DEF Tables
  <2> HIDE DEF E
  <2>6. \A h \in Sess : Owns(E, h) => Owns(ents, h) \/ h \in held
    BY <2>2, <2>5 DEF Owns
  <2> QED
    BY <2>3, <2>4, <2>6, FinishHandles
<1>5. ASSUME Remove(p) PROVE HandleInv'
  <2> DEFINE E == [ents EXCEPT ![call[p].arc][call[p].entity[2]] = None]
  <2>1. E \in Tables /\ \A r \in Sess, m \in EntNum : E[r][m] \in {None, ents[r][m]}
    BY <1>1 DEF Tables
  <2>2. pc[p] = "checked" /\ UNCHANGED held
    BY <1>5 DEF Remove, handles
  <2>3. \/ Finish(p, E, closed)
        \/ /\ ents' = E /\ pend' = [pend EXCEPT ![p] = Released(E)]
           /\ pc' = [pc EXCEPT ![p] = "nested"] /\ UNCHANGED <<doomed, call>>
    BY <1>5 DEF Remove
  <2> HIDE DEF E
  <2>4. \A h \in Sess : Owns(E, h) => Owns(ents, h)
    BY <2>1 DEF Owns
  <2>5. CASE Finish(p, E, closed)
    BY <2>1, <2>2, <2>4, <2>5, FinishHandles
  <2>6. CASE ~Finish(p, E, closed)
    <3>1. \A q \in Proc : pc'[q] # "nested" => pend'[q] = {}
      BY <1>1, <2>3, <2>6 DEF HandleInv
    <3>2. \A h \in Sess : Dying(h)' => Dying(h) \/ h \in Released(ents')
      BY <1>1, <2>3, <2>6 DEF Dying
    <3>3. \A q \in Proc : call'[q].handle # None => call'[q].handle \in held
      BY <2>3, <2>6 DEF HandleInv
    <3> QED
      BY <2>2, <2>3, <2>4, <2>6, <3>1, <3>2, <3>3, HandleFrame
  <2> QED
    BY <2>5, <2>6
<1> QED
  BY <1>2, <1>3, <1>4, <1>5 DEF Body, Return, Close, NestedDone, handles

LEMMA session_openHandles ==
  ASSUME HandleInv, TypeInv', NEW s \in Sess, NEW z \in Zid, session_open(s, z)
  PROVE  HandleInv'
<1>1. zid[s] = None /\ UNCHANGED <<pc, call, pend>> /\ ents \in Tables
  BY TablesNow DEF session_open, HandleInv
<1>2. ~Dying(s)
  BY <1>1, NoneAssumption DEF Dying, HandleInv, TypeInv, KnownIds
<1>3. CASE held' = held \cup {s} /\ UNCHANGED <<ents, doomed>>
  <2>1. \A h \in Sess : Dying(h)' => Dying(h) /\ h # s
    BY <1>1, <1>2, <1>3 DEF Dying
  <2>2. \A h \in Sess : Dying(h)' => ~Referenced(h)'
    BY <1>3, <2>1 DEF HandleInv, Referenced, Owns
  <2> QED
    BY <1>1, <1>3, <2>2 DEF HandleInv
<1>4. CASE /\ held' = held /\ DropArc(map[z], ents, closed)
           /\ doomed' = doomed \cup Released(ents')
  <2>1. \A h \in Sess : Dying(h)' => Dying(h) \/ h \in Released(ents')
    BY <1>1, <1>4 DEF Dying
  <2>2. \A h \in Sess : Owns(ents', h) => Owns(ents, h)
    BY <1>1, <1>4, DropArcOwns
  <2> QED
    BY <1>1, <1>4, <2>1, <2>2, HandleFrame DEF HandleInv
<1> QED
  BY <1>3, <1>4 DEF session_open

LEMMA ReleaseHandles ==
  ASSUME HandleInv, TypeInv',
         \/ \E h \in Sess : ReleaseSession(h)
         \/ \E e \in EntId : ReleaseEntity(e)
  PROVE  HandleInv'
<1>1. ASSUME NEW h \in Sess, ReleaseSession(h) PROVE HandleInv'
  <2>1. /\ held' = held \ {h} /\ UNCHANGED <<ents, pc, call, pend>>
        /\ doomed' = IF Owns(ents, h) THEN doomed ELSE doomed \cup {h}
    BY <1>1 DEF ReleaseSession
  <2>2. \A x \in Sess : Dying(x)' => Dying(x) \/ (x = h /\ ~Owns(ents, h))
    BY <2>1 DEF Dying
  <2>3. \A x \in Sess : Dying(x)' => ~Referenced(x)'
    BY <2>1, <2>2 DEF HandleInv, Referenced
  <2>4. \A p \in Proc : call'[p].handle # None => call'[p].handle \in held'
    BY <1>1, <2>1 DEF ReleaseSession, HandleInv
  <2> QED
    BY <2>1, <2>3, <2>4 DEF HandleInv
<1>2. ASSUME NEW e \in EntId, ReleaseEntity(e) PROVE HandleInv'
  BY <1>2, HandleStutters DEF ReleaseEntity, HandleInv, Dying
<1> QED
  BY <1>1, <1>2

LEMMA DropHandles ==
  ASSUME HandleInv, TypeInv', NEW p \in Proc, NEW h \in Sess,
         DropSession(p, h) \/ DropNested(p, h)
  PROVE  HandleInv'
<1>1. UNCHANGED <<ents, held, call>>
  BY DEF DropSession, DropNested, RemoveFromMap, handles
<1>2. /\ pc \in [Proc -> Pc] /\ pend \in [Proc -> SUBSET Sess]
      /\ \A q \in Proc : pend'[q] \subseteq pend[q] /\ (pc'[q] # "nested" => pc[q] # "nested")
      /\ doomed' \subseteq doomed
  BY DEF DropSession, DropNested, HandleInv, TypeInv, TypeOK
<1>3. \A x \in Sess : Dying(x)' => Dying(x)
  BY <1>2 DEF Dying
<1>4. \A q \in Proc : pc'[q] # "nested" => pend'[q] = {}
  BY <1>2 DEF HandleInv
<1> QED
  BY <1>1, <1>3, <1>4, HandleStutters DEF HandleInv

LEMMA CloseDroppedHandles ==
  ASSUME HandleInv, TypeInv', NEW p \in Proc, CloseDropped(p)
  PROVE  HandleInv'
<1>1. /\ ents \in Tables /\ pc \in [Proc -> Pc] /\ pend \in [Proc -> SUBSET Sess]
      /\ DropArc(darc[p], ents, closed \cup {darc[p]}) /\ UNCHANGED <<held, call>>
  BY TablesNow DEF CloseDropped, handles, HandleInv, TypeInv, TypeOK
<1>2. \A h \in Sess : Owns(ents', h) => Owns(ents, h)
  BY <1>1, DropArcOwns
<1>3. \A h \in Sess : Dying(h)' => Dying(h) \/ h \in Released(ents')
  BY <1>1 DEF CloseDropped, Dying
<1>4. \A q \in Proc : pc'[q] # "nested" => pend'[q] = {}
  BY <1>1 DEF CloseDropped, HandleInv
<1> QED
  BY <1>1, <1>2, <1>3, <1>4, HandleFrame DEF HandleInv

LEMMA HandleStep == HandleInv /\ [Next]_vars => HandleInv'
<1> SUFFICES ASSUME HandleInv, [Next]_vars PROVE HandleInv'
  OBVIOUS
<1>1. TypeInv'
  BY TypeStep DEF HandleInv
<1>2. ASSUME NEW p \in Proc, NEW h \in Sess, SessionNif(p, h) \/ DeclareNif(p, h)
      PROVE  HandleInv'
  BY <1>1, <1>2, SessionNifEnters, EnterHandles DEF OnSession, session_close, handles
<1>3. ASSUME NEW p \in Proc, NEW e \in EntId, EntityNif(p, e) PROVE HandleInv'
  BY <1>1, <1>3, EntityNifEnters, EnterHandles DEF OnEntity, handles
<1>4. ASSUME NEW p \in Proc, Acquire(p) PROVE HandleInv'
  <2>1. \A q \in Proc : pc'[q] # "nested" => pc[q] # "nested"
    BY <1>4 DEF Acquire, HandleInv, TypeInv, TypeOK
  <2> QED
    BY <1>1, <1>4, <2>1, HandleStutters DEF Acquire, handles, HandleInv, Dying
<1>5. ASSUME NEW p \in Proc, EndGet(p) PROVE HandleInv'
  <2>1. ents \in Tables
    BY TablesNow DEF HandleInv
  <2> QED
    BY <1>1, <1>5, <2>1, FinishHandles DEF EndGet, handles
<1>6. ASSUME NEW p \in Proc, NEW e \in EntId, DropEntity(p, e) PROVE HandleInv'
  <2>1. CASE UNCHANGED <<pc, call>>
    BY <1>1, <1>6, <2>1, HandleStutters DEF DropEntity, HandleInv, Dying
  <2>2. CASE Enter(p, get_session(zid[e[1]]), "drop", Kinds, None, e)
    BY <1>1, <1>6, <2>2, EnterHandles DEF DropEntity
  <2> QED
    BY <1>6, <2>1, <2>2 DEF DropEntity
<1>7. CASE UNCHANGED vars
  BY <1>1, <1>7, HandleStutters DEF vars, HandleInv, Dying
<1>8. CASE Next
  BY <1>1, <1>2, <1>3, <1>4, <1>5, <1>6, <1>8, session_openHandles, BodyHandles,
     ReleaseHandles, DropHandles, CloseDroppedHandles DEF Next
<1> QED
  BY <1>7, <1>8
-----------------------------------------------------------------------------
(* No session is left behind.                                              *)

\* The references a step takes away leave a destructor behind.
LEMMA LivelyFrame ==
  ASSUME held \subseteq held', doomed \subseteq doomed',
         \A p \in Proc : pend[p] \subseteq pend'[p],
         \A h \in Released(ents') : Dying(h)',
         NEW h \in Sess, Lively(h)
  PROVE  Lively(h)'
<1>1. CASE Dying(h)
  BY <1>1 DEF Lively, Dying
<1>2. CASE h \in held
  BY <1>2 DEF Lively, Referenced
<1>3. CASE Owns(ents, h) /\ h \notin held
  BY <1>3 DEF Released, Lively, Referenced
<1> QED
  BY <1>1, <1>2, <1>3 DEF Lively, Referenced

LEMMA LivelyFinish ==
  ASSUME HandleInv, NEW p \in Proc, NEW E, NEW C, Finish(p, E, C), held' = held,
         NEW h \in Sess, Lively(h)
  PROVE  Lively(h)'
BY LivelyFrame DEF Finish, Dying

LEMMA LivelyUnchanged ==
  ASSUME UNCHANGED <<held, ents, doomed, pend>>, NEW h \in Sess, Lively(h)
  PROVE  Lively(h)'
BY DEF Lively, Referenced, Dying

LEMMA LivelyBody ==
  ASSUME HandleInv, NEW p \in Proc, Body(p), NEW h \in Sess, Lively(h)
  PROVE  Lively(h)'
<1> DEFINE E == [ents EXCEPT ![call[p].arc][call[p].entity[2]] = None]
<1>1. ASSUME Remove(p), ~Finish(p, E, closed) PROVE Lively(h)'
  <2>1. /\ pc[p] = "checked" /\ held' = held /\ doomed' = doomed
        /\ pend' = [pend EXCEPT ![p] = Released(ents')]
    BY <1>1 DEF Remove, handles
  <2>2. pend[p] = {} /\ pend \in [Proc -> SUBSET Sess]
    BY <2>1 DEF HandleInv, TypeInv, TypeOK
  <2>3. \A q \in Proc : pend[q] \subseteq pend'[q]
    BY <2>1, <2>2
  <2>4. \A x \in Released(ents') : Dying(x)'
    BY <2>1, <2>2 DEF Dying
  <2> QED
    BY <2>1, <2>3, <2>4, LivelyFrame
<1>2. ASSUME Remove(p) PROVE held' = held
  BY <1>2 DEF Remove, handles
<1>3. CASE StartGet(p) \/ CheckEntity(p)
  BY <1>3, LivelyUnchanged DEF StartGet, CheckEntity, handles
<1>4. CASE Return(p) \/ Declare(p) \/ Close(p) \/ NestedDone(p)
  BY <1>4, LivelyFinish DEF Return, Declare, Close, NestedDone, handles
<1> QED
  BY <1>1, <1>2, <1>3, <1>4, LivelyFinish DEF Body

\* A handle with a reference or a destructor to come keeps one or the other
\* until the destructor runs.
LEMMA LivelyStep ==
  ASSUME HandleInv, [Next]_vars, NEW h \in Sess, Lively(h),
         \A p \in Proc : ~DropSession(p, h) /\ ~DropNested(p, h)
  PROVE  Lively(h)'
<1>1. ASSUME NEW s \in Sess, NEW z \in Zid, session_open(s, z) PROVE Lively(h)'
  <2>1. CASE UNCHANGED <<ents, doomed>>
    BY <1>1, <2>1 DEF session_open, Lively, Referenced, Dying
  <2>2. CASE held' = held /\ doomed' = doomed \cup Released(ents')
    BY <1>1, <2>2, LivelyFrame DEF session_open, Dying
  <2> QED
    BY <1>1, <2>1, <2>2 DEF session_open
<1>2. ASSUME NEW p \in Proc, NEW x \in Sess, SessionNif(p, x) \/ DeclareNif(p, x)
      PROVE  Lively(h)'
  BY <1>2, SessionNifEnters, LivelyUnchanged DEF OnSession, session_close, handles
<1>3. ASSUME NEW p \in Proc, NEW e \in EntId, EntityNif(p, e) PROVE Lively(h)'
  BY <1>3, EntityNifEnters, LivelyUnchanged DEF OnEntity, handles
<1>4. ASSUME NEW p \in Proc, Acquire(p) \/ EndGet(p) PROVE Lively(h)'
  BY <1>4, LivelyUnchanged, LivelyFinish DEF Acquire, EndGet, handles
<1>5. ASSUME NEW p \in Proc, CloseDropped(p) PROVE Lively(h)'
  <2>1. held' = held /\ pend \in [Proc -> SUBSET Sess]
    BY <1>5 DEF CloseDropped, handles, HandleInv, TypeInv, TypeOK
  <2>2. CASE UNCHANGED doomed /\ pend' = [pend EXCEPT ![p] = @ \cup Released(ents')]
    BY <2>1, <2>2, LivelyFrame DEF Dying
  <2>3. CASE UNCHANGED pend /\ doomed' = doomed \cup Released(ents')
    BY <2>1, <2>3, LivelyFrame DEF Dying
  <2> QED
    BY <1>5, <2>2, <2>3 DEF CloseDropped
<1>6. ASSUME NEW x \in Sess, ReleaseSession(x) PROVE Lively(h)'
  BY <1>6 DEF ReleaseSession, Lively, Referenced, Dying
<1>7. ASSUME NEW e \in EntId, ReleaseEntity(e) PROVE Lively(h)'
  BY <1>7, LivelyUnchanged DEF ReleaseEntity
<1>8. ASSUME NEW p \in Proc, NEW e \in EntId, DropEntity(p, e) PROVE Lively(h)'
  BY <1>8, LivelyUnchanged DEF DropEntity
<1>9. ASSUME NEW p \in Proc, NEW x \in Sess, DropSession(p, x) \/ DropNested(p, x)
      PROVE  Lively(h)'
  <2>1. /\ x # h /\ UNCHANGED <<ents, held>> /\ pend \in [Proc -> SUBSET Sess]
        /\ h \in doomed => h \in doomed'
    BY <1>9 DEF DropSession, DropNested, RemoveFromMap, handles, HandleInv, TypeInv, TypeOK
  <2>2. \A q \in Proc : h \in pend[q] => h \in pend'[q]
    BY <1>9, <2>1 DEF DropSession, DropNested
  <2> QED
    BY <2>1, <2>2 DEF Lively, Referenced, Dying
<1>10. CASE UNCHANGED vars
  BY <1>10, LivelyUnchanged DEF vars
<1> QED
  BY <1>1, <1>2, <1>3, <1>4, <1>5, <1>6, <1>7, <1>8, <1>9, <1>10, LivelyBody DEF Next

\* Whatever zids are reused and wherever destructors run, a session in the map
\* has a handle with its zid that is referenced or whose destructor is to come.
THEOREM NoSessionLeftBehind == Spec => []NoOrphan
<1>1. Init => HandleInv /\ NoOrphan
  BY HandleInit DEF Init, NoOrphan
<1>2. ASSUME HandleInv, NoOrphan, [Next]_vars PROVE HandleInv' /\ NoOrphan'
  <2>1. HandleInv'
    BY <1>2, HandleStep
  <2>2. /\ map \in [Zid -> Sess \cup {None}] /\ zid \in [Sess -> Zid \cup {None}]
        /\ \A z \in Zid : z # None
    BY <1>2, NoneAssumption DEF HandleInv, TypeInv, TypeOK
  <2>3. ASSUME NEW z \in Zid, map[z] # None, map'[z] # None
        PROVE  \E h \in Sess : zid'[h] = z /\ Lively(h)'
    <3>1. PICK h \in Sess : zid[h] = z /\ Lively(h)
      BY <1>2, <2>3 DEF NoOrphan, Lively, Dying
    <3>2. \A p \in Proc : ~DropSession(p, h) /\ ~DropNested(p, h)
      BY <2>2, <2>3, <3>1 DEF DropSession, DropNested, RemoveFromMap
    <3>3. zid'[h] = z
      BY <1>2, <2>2, <3>1, ZidChanges DEF session_open
    <3> QED
      BY <1>2, <3>1, <3>2, <3>3, LivelyStep
  <2>4. ASSUME NEW z \in Zid, map[z] = None, map'[z] # None
        PROVE  \E h \in Sess : zid'[h] = z /\ Lively(h)'
    <3>1. PICK s \in Sess, y \in Zid : session_open(s, y)
      BY <1>2, <2>2, <2>4, MapChanges DEF session_close, DropSession, DropNested, RemoveFromMap
    <3>2. y = z /\ zid'[s] = z /\ s \in held'
      BY <2>2, <2>4, <3>1 DEF session_open
    <3> QED
      BY <3>2 DEF Lively, Referenced
  <2> QED
    BY <2>1, <2>3, <2>4 DEF NoOrphan, Lively, Dying
<1> QED
  BY <1>1, <1>2, PTL DEF Spec
-----------------------------------------------------------------------------
(* A held session stays.                                                   *)

\* While zids are fresh, two sessions never share one.
Distinct == \A s, t \in Sess : zid[s] = zid[t] /\ zid[s] # None => s = t
StayInv == HandleInv /\ Distinct

LEMMA DistinctStep ==
  ASSUME OpenPolicy = "fresh", TypeInv, Distinct, [Next]_vars
  PROVE  Distinct'
<1>1. ASSUME NEW s \in Sess, NEW z \in Zid, session_open(s, z) PROVE Distinct'
  <2>1. zid' = [zid EXCEPT ![s] = z] /\ \A t \in Sess : zid[t] # z
    BY <1>1 DEF session_open, CanOpen
  <2> QED
    BY <2>1 DEF Distinct, TypeInv, TypeOK
<1>2. CASE zid' = zid
  BY <1>2 DEF Distinct
<1> QED
  BY <1>1, <1>2, ZidChanges

\* While zids are fresh, a session whose handle is referenced, by a term or by
\* an entity, leaves the map by session_close on that handle only: no
\* destructor of this or another handle takes it out.
THEOREM ReferencedSessionsStay ==
  OpenPolicy = "fresh" => (Spec => HeldSessionStays)
<1> SUFFICES ASSUME OpenPolicy = "fresh" PROVE Spec => HeldSessionStays
  OBVIOUS
<1> DEFINE Stays(h) ==
             /\ zid[h] # None /\ map[zid[h]] = h /\ map'[zid[h]] # h
             /\ Referenced(h) /\ Referenced(h)'
             => \E p \in Proc : pc[p] = "idle" /\ call'[p].op = "close"
                               /\ call'[p].handle = h
<1>1. Init => StayInv
  BY HandleInit DEF Init, StayInv, Distinct
<1>2. StayInv /\ [Next]_vars => StayInv'
  BY HandleStep, DistinctStep DEF StayInv, HandleInv
<1>3. ASSUME StayInv, [Next]_vars, NEW h \in Sess PROVE Stays(h)
  <2> SUFFICES ASSUME zid[h] # None, map[zid[h]] = h, map'[zid[h]] # h, Referenced(h)
               PROVE  \E p \in Proc : pc[p] = "idle" /\ call'[p].op = "close"
                                     /\ call'[p].handle = h
    OBVIOUS
  <2>1. map \in [Zid -> Sess \cup {None}] /\ zid[h] \in Zid
    BY <1>3, NoneAssumption DEF StayInv, HandleInv, TypeInv, TypeOK
  <2>2. ~Dying(h)
    BY <1>3 DEF StayInv, HandleInv
  <2>3. ASSUME NEW s \in Sess, NEW z \in Zid, session_open(s, z) PROVE FALSE
    BY <2>1, <2>3 DEF session_open, CanOpen
  <2>4. ASSUME NEW p \in Proc, NEW x \in Sess, DropSession(p, x) \/ DropNested(p, x)
        PROVE  FALSE
    <3>1. Dying(x) /\ map' = [map EXCEPT ![zid[x]] = None]
      BY <2>4 DEF DropSession, DropNested, RemoveFromMap, Dying
    <3>2. zid[x] = zid[h]
      BY <2>1, <3>1
    <3> QED
      BY <1>3, <2>2, <3>1, <3>2 DEF StayInv, Distinct
  <2>5. ASSUME NEW p \in Proc, NEW x \in Sess, session_close(p, x)
        PROVE  pc[p] = "idle" /\ call'[p].op = "close" /\ call'[p].handle = h
    <3>1. /\ pc[p] = "idle" /\ call'[p].op = "close" /\ call'[p].handle = x
          /\ map' = [map EXCEPT ![zid[x]] = None]
      BY <1>3, <2>5 DEF session_close, Enter, StayInv, HandleInv, TypeInv, TypeOK
    <3>2. zid[x] = zid[h]
      BY <2>1, <3>1
    <3> QED
      BY <1>3, <3>1, <3>2 DEF StayInv, Distinct
  <2> QED
    BY <1>3, <2>3, <2>4, <2>5, MapChanges
<1>4. StayInv /\ [Next]_vars => \A h \in Sess : Stays(h)
  BY <1>3
<1> QED
  BY <1>1, <1>2, <1>4, PTL DEF Spec, HeldSessionStays

\* While zids are not reused, collecting a handle, its own or another's, never
\* closes a session whose handle a term refers to: it leaves the map by
\* session_close only.
THEOREM CollectionSparesHeldSessions ==
  OpenPolicy = "fresh" => (Spec => HeldSessionSurvivesGC)
<1> SUFFICES ASSUME OpenPolicy = "fresh" PROVE Spec => HeldSessionSurvivesGC
  OBVIOUS
<1>1. Spec => HeldSessionStays
  BY ReferencedSessionsStay
<1>2. ASSUME \A h \in Sess :
               /\ zid[h] # None /\ map[zid[h]] = h /\ map'[zid[h]] # h
               /\ Referenced(h) /\ Referenced(h)'
               => \E p \in Proc : pc[p] = "idle" /\ call'[p].op = "close"
                                 /\ call'[p].handle = h
      PROVE  \A h \in Sess :
               /\ zid[h] # None /\ map[zid[h]] = h /\ map'[zid[h]] # h
               /\ h \in held /\ h \in held'
               => \E p \in Proc : pc[p] = "idle" /\ call'[p].op = "close"
  BY <1>2 DEF Referenced
<1> QED
  BY <1>1, <1>2, PTL DEF HeldSessionStays, HeldSessionSurvivesGC
-----------------------------------------------------------------------------
(* The contract.                                                           *)

\* The session of a call is that of its argument.  An undeclaration has its
\* entity handle; the argument of an entity destructor is out of reach.
ArgOK(p) ==
  /\ call[p].arc = None => call[p] = NoCall
  /\ call[p].handle # None => call[p].handle = call[p].arc
  /\ call[p].entity # None => call[p].entity[1] = call[p].arc
  /\ call[p].op = "close" => call[p].handle # None
  /\ call[p].op \in {"undeclare", "drop"} => call[p].entity # None
  /\ call[p].op = "undeclare" => call[p].entity \in eheld
  /\ call[p].op = "drop" => call[p].entity \notin eheld \cup edoomed

\* An entity belongs to the session it is in.
OwnTable == \A s \in Sess, n \in EntNum : ents[s][n] # None => ents[s][n].owner = s

\* The number a session gives next is in no table, handle or call.
Numbered(e) == e[2] < nextEnt[e[1]]
ArgNumbered(p) == call[p].entity # None => Numbered(call[p].entity)
Numbers ==
  /\ \A e \in EntId : ents[e[1]][e[2]] # None => Numbered(e)
  /\ \A e \in eheld \cup edoomed : Numbered(e)
  /\ \A p \in Proc : ArgNumbered(p)

ArgInv ==
  /\ eheld \cap edoomed = {}
  /\ \A p \in Proc : ArgOK(p)
  /\ OwnTable /\ Numbers
ContractInv == LockInv /\ StayInv /\ ArgInv
-----------------------------------------------------------------------------
(* What steps do to the tables, the handles and the calls.                 *)

\* Dropping an Arc empties the table of a session the map does not have, or none.
LEMMA DropArcTables ==
  ASSUME NEW s, NEW E \in Tables, NEW C, DropArc(s, E, C), NEW r \in Sess
  PROVE  ents'[r] = E[r] \/ (ents'[r] = NoEntities /\ Gone(r))
BY DEF DropArc, StaysAlive, Gone, Tables

\* A step after which the clients hold the same handles, calls go on or have
\* returned, and tables are as they were unless their session left the map.
Sheds == \A r \in Sess : ents'[r] = ents[r] \/ (ents'[r] = NoEntities /\ Gone(r))
Returns(p) == call' = call \/ call' = [call EXCEPT ![p] = NoCall]
Same == UNCHANGED <<zid, map, held, eheld, edoomed, nextEnt>>
Quiet(p) == Same /\ Returns(p) /\ Sheds

LEMMA FinishQuiet ==
  ASSUME TypeInv, NEW p \in Proc, NEW C, Finish(p, ents, C), UNCHANGED <<zid, nextEnt, handles>>
  PROVE  Quiet(p)
<1>1. Sheds
  BY TablesNow, DropArcTables DEF Finish, Sheds
<1> QED
  BY <1>1 DEF Finish, handles, Quiet, Same, Returns

LEMMA BodyCases ==
  ASSUME TypeInv, NEW p \in Proc, Body(p) \/ Acquire(p) \/ EndGet(p) \/ CloseDropped(p)
  PROVE  Quiet(p) \/ Declare(p) \/ Remove(p)
<1>1. CASE Return(p) \/ Close(p) \/ NestedDone(p) \/ EndGet(p)
  BY <1>1, FinishQuiet DEF Return, Close, NestedDone, EndGet
<1>2. CASE StartGet(p) \/ CheckEntity(p) \/ Acquire(p)
  BY <1>2 DEF StartGet, CheckEntity, Acquire, handles, Quiet, Same, Returns, Sheds
<1>3. CASE CloseDropped(p)
  <2>1. Sheds
    BY <1>3, TablesNow, DropArcTables DEF CloseDropped, Sheds
  <2> QED
    BY <1>3, <2>1 DEF CloseDropped, handles, Quiet, Same, Returns
<1> QED
  BY <1>1, <1>2, <1>3 DEF Body

LEMMA StepCases ==
  ASSUME TypeInv, [Next]_vars
  PROVE  \/ \E s \in Sess, z \in Zid : session_open(s, z)
         \/ \E p \in Proc, h \in Sess : session_close(p, h)
         \/ \E p \in Proc, h \in Sess, o \in {"use", "get", "declare"}, K \in SUBSET Kinds :
              OnSession(p, h, o, K)
         \/ \E p \in Proc, e \in EntId, o \in {"use", "get", "undeclare"}, K \in SUBSET Kinds :
              OnEntity(p, e, o, K)
         \/ \E p \in Proc : Quiet(p) \/ Declare(p) \/ Remove(p)
         \/ \E h \in Sess : ReleaseSession(h)
         \/ \E e \in EntId : ReleaseEntity(e)
         \/ \E p \in Proc, e \in EntId : DropEntity(p, e)
         \/ \E p \in Proc, h \in Sess : DropSession(p, h) \/ DropNested(p, h)
         \/ UNCHANGED vars
<1>1. CASE \E p \in Proc, h \in Sess : SessionNif(p, h) \/ DeclareNif(p, h)
  BY <1>1, SessionNifEnters
<1>2. CASE \E p \in Proc, e \in EntId : EntityNif(p, e)
  BY <1>2, EntityNifEnters
<1>3. CASE \E p \in Proc : Acquire(p) \/ Body(p) \/ EndGet(p) \/ CloseDropped(p)
  BY <1>3, BodyCases
<1> QED
  BY <1>1, <1>2, <1>3 DEF Next
-----------------------------------------------------------------------------
(* The invariant.                                                          *)

LEMMA ContractInvTypes ==
  ASSUME ContractInv
  PROVE  /\ TypeInv /\ TypeOK /\ ents \in Tables
         /\ zid \in [Sess -> Zid \cup {None}] /\ map \in [Zid -> Sess \cup {None}]
         /\ call \in [Proc -> Call] /\ nextEnt \in [Sess -> 1 .. MaxEnt + 1]
         /\ eheld \subseteq EntId /\ edoomed \subseteq EntId /\ held \subseteq Sess
BY TablesNow DEF ContractInv, LockInv, TypeInv, TypeOK

\* A lookup through a handle finds the session of that handle or none.
LEMMA LookupFinds ==
  ASSUME ContractInv, NEW h \in Sess, zid[h] \in Zid, map[zid[h]] # None
  PROVE  map[zid[h]] = h
BY ContractInvTypes, NoneAssumption DEF ContractInv, StayInv, Distinct, TypeInv, KnownIds

\* A fresh zid replaces no session.
LEMMA FreshOpens ==
  ASSUME ContractInv, OpenPolicy = "fresh", NEW s \in Sess, NEW z \in Zid, session_open(s, z)
  PROVE  /\ map[z] = None /\ zid[s] = None
         /\ zid' = [zid EXCEPT ![s] = z] /\ map' = [map EXCEPT ![z] = s]
         /\ held' = held \cup {s} /\ UNCHANGED <<ents, nextEnt, eheld, edoomed, call>>
<1>1. map[z] = None
  BY ContractInvTypes DEF session_open, CanOpen, TypeInv, KnownIds
<1> QED
  BY <1>1 DEF session_open

\* A step after which calls go on or have returned, tables have lost entities
\* at most, and handles are as they were.
LEMMA ArgFrame ==
  ASSUME ContractInv, UNCHANGED <<eheld, edoomed, nextEnt>>,
         \A p \in Proc : call'[p] \in {call[p], NoCall},
         \A s \in Sess, n \in EntNum : ents'[s][n] \in {None, ents[s][n]}
  PROVE  ArgInv'
<1>1. ASSUME NEW p \in Proc
      PROVE  ArgOK(p)' /\ ArgNumbered(p)'
  <2>1. CASE call'[p] = call[p]
    BY <2>1 DEF ContractInv, ArgInv, ArgOK, Numbers, ArgNumbered, Numbered
  <2>2. CASE call'[p] = NoCall
    BY <2>2 DEF ArgOK, ArgNumbered, NoCall
  <2> QED
    BY <2>1, <2>2
<1>2. OwnTable'
  BY DEF OwnTable, ContractInv, ArgInv
<1>3. Numbers'
  BY <1>1 DEF Numbers, Numbered, ContractInv, ArgInv, EntId
<1> QED
  BY <1>1, <1>2, <1>3 DEF ArgInv, ContractInv

\* What a call takes with it when it begins.
LEMMA EnterArg ==
  ASSUME ContractInv, NEW p \in Proc, NEW z \in Zid, NEW o \in Op, NEW K \in SUBSET Kinds,
         NEW h \in Sess \cup {None}, NEW e \in EntId \cup {None},
         Enter(p, get_session(z), o, K, h, e),
         h # None => zid[h] = z,
         e # None => zid[e[1]] = z /\ Numbered(e),
         o = "close" => h # None,
         o \in {"undeclare", "drop"} => e # None,
         o = "undeclare" => e \in eheld,
         o = "drop" => e \notin eheld \cup edoomed',
         UNCHANGED <<ents, nextEnt, eheld>>, edoomed' \subseteq edoomed
  PROVE  ArgInv'
<1> DEFINE s == get_session(z)
           c == [op |-> o, kinds |-> K, arc |-> s, handle |-> h, entity |-> e]
<1>1. s \in Sess /\ s # None /\ zid[s] = z /\ z # None
  BY ContractInvTypes, NoneAssumption DEF get_session, Enter, TypeInv, KnownIds
<1>2. call' = [call EXCEPT ![p] = c] /\ call'[p] = c
  BY ContractInvTypes DEF Enter
<1>3. /\ c.op = o /\ c.arc = s /\ c.handle = h /\ c.entity = e
      /\ h # None => h = s
      /\ e # None => e[1] = s
  BY <1>1, NoneAssumption DEF ContractInv, StayInv, Distinct, EntId
<1> HIDE DEF c, s
<1>4. ASSUME NEW q \in Proc
      PROVE  ArgOK(q)' /\ ArgNumbered(q)'
  <2>1. CASE q = p
    BY <1>1, <1>2, <1>3, <2>1 DEF ArgOK, ArgNumbered, Numbered
  <2>2. CASE q # p
    <3>1. call'[q] = call[q]
      BY <1>2, <2>2, ContractInvTypes
    <3> QED
      BY <3>1 DEF ContractInv, ArgInv, ArgOK, Numbers, ArgNumbered, Numbered
  <2> QED
    BY <2>1, <2>2
<1>5. OwnTable'
  BY DEF OwnTable, ContractInv, ArgInv
<1>6. Numbers'
  <2>1. nextEnt' = nextEnt /\ ents' = ents /\ eheld' \cup edoomed' \subseteq eheld \cup edoomed
    OBVIOUS
  <2> QED
    BY <1>4, <2>1 DEF Numbers, Numbered, ContractInv, ArgInv
<1>7. eheld' \cap edoomed' = {}
  BY DEF ContractInv, ArgInv
<1> QED
  BY <1>4, <1>5, <1>6, <1>7 DEF ArgInv

\* A declaration puts one entity of the session its handle names into the
\* table, unless that was the last Arc of the session.
LEMMA DeclareEffect ==
  ASSUME ContractInv, NEW p \in Proc, Declare(p),
         NEW s, s = call[p].arc, NEW n, n = nextEnt[s]
  PROVE  /\ s \in Sess /\ n \in EntNum /\ call[p].handle = s /\ s \in held
         /\ UNCHANGED <<zid, map, held, edoomed>>
         /\ nextEnt' = [nextEnt EXCEPT ![s] = n + 1] /\ eheld' = eheld \cup {<<s, n>>}
         /\ call' = [call EXCEPT ![p] = NoCall]
         /\ \A r \in Sess : r # s => ents'[r] = ents[r]
         /\ \/ ents'[s] = NoEntities /\ Gone(s)
            \/ /\ ents'[s][n] \in Entity /\ ents'[s][n].owner = s
               /\ \A m \in EntNum : m # n => ents'[s][m] = ents[s][m]
<1>1. call[p].handle = s /\ s \in held /\ s \in Sess /\ call[p].kinds \subseteq Kinds
  BY ContractInvTypes DEF Declare, Call, ContractInv, ArgInv, ArgOK, StayInv, HandleInv,
     TypeInv, KnownIds, KnownCall
<1>2. PICK k \in call[p].kinds :
        Finish(p, [ents EXCEPT ![s][n] = [kind |-> k, owner |-> call[p].handle]], closed)
  BY DEF Declare
<1> DEFINE x == [kind |-> k, owner |-> s]
           E == [ents EXCEPT ![s][n] = x]
<1>3. x \in Entity /\ x.owner = s
  BY <1>1 DEF Entity
<1>4. n \in EntNum /\ UNCHANGED <<zid, held, edoomed>>
      /\ nextEnt' = [nextEnt EXCEPT ![s] = n + 1] /\ eheld' = eheld \cup {<<s, n>>}
  BY DEF Declare
<1>5. /\ UNCHANGED map /\ call' = [call EXCEPT ![p] = NoCall]
      /\ DropArc(s, E, closed)
  BY <1>1, <1>2 DEF Finish
<1> HIDE DEF x
<1>6. /\ E \in Tables /\ E[s][n] = x
      /\ \A r \in Sess : r # s => E[r] = ents[r]
      /\ \A m \in EntNum : m # n => E[s][m] = ents[s][m]
  BY <1>1, <1>3, <1>4, ContractInvTypes DEF Tables
<1> HIDE DEF E
<1>7. \A r \in Sess : ents'[r] = E[r] \/ (ents'[r] = NoEntities /\ Gone(r))
  BY <1>5, <1>6, DropArcTables
<1>8. \A r \in Sess : r # s => ents'[r] = E[r]
  BY <1>5, <1>6 DEF DropArc, Tables
<1> QED
  BY <1>1, <1>3, <1>4, <1>5, <1>6, <1>7, <1>8

\* A removal takes the entity of the call's handle out of its table.
LEMMA RemoveEffect ==
  ASSUME ContractInv, NEW p \in Proc, Remove(p),
         NEW e, e = call[p].entity
  PROVE  /\ e \in EntId /\ call[p].op \in {"undeclare", "drop"}
         /\ ents[e[1]][e[2]] # None /\ ents[e[1]][e[2]].kind \in call[p].kinds
         /\ Same /\ Returns(p)
         /\ \A r \in Sess : r # e[1] => ents'[r] = ents[r]
         /\ \/ ents'[e[1]] = NoEntities /\ Gone(e[1])
            \/ /\ ents'[e[1]][e[2]] = None
               /\ \A m \in EntNum : m # e[2] => ents'[e[1]][m] = ents[e[1]][m]
<1> DEFINE s == call[p].arc
           n == e[2]
           E == [ents EXCEPT ![s][n] = None]
<1>1. Undeclares(p) /\ Found(p)
  BY DEF Remove, ContractInv, LockInv, CheckedInv
<1>2. e \in EntId /\ e[1] = s
  BY <1>1, ContractInvTypes DEF Undeclares, Call, ContractInv, ArgInv, ArgOK
<1>3. /\ s \in Sess /\ n \in EntNum
      /\ ents[e[1]][n] # None /\ ents[e[1]][n].kind \in call[p].kinds
  BY <1>1, <1>2 DEF EntId, Found, get_entity
<1>4. \/ Finish(p, E, closed)
      \/ ents' = E /\ UNCHANGED <<map, call>>
  BY DEF Remove
<1>5. Same /\ Returns(p)
  BY <1>4 DEF Remove, handles, Same, Returns, Finish
<1>6. /\ E \in Tables /\ E[s][n] = None
      /\ \A r \in Sess : r # s => E[r] = ents[r]
      /\ \A m \in EntNum : m # n => E[s][m] = ents[s][m]
  BY <1>3, ContractInvTypes DEF Tables
<1> HIDE DEF E
<1>7. /\ \A r \in Sess : ents'[r] = E[r] \/ (ents'[r] = NoEntities /\ Gone(r))
      /\ \A r \in Sess : r # s => ents'[r] = E[r]
  <2>1. CASE ents' = E
    BY <2>1
  <2>2. CASE DropArc(s, E, closed)
    <3>1. \A r \in Sess : ents'[r] = E[r] \/ (ents'[r] = NoEntities /\ Gone(r))
      BY <1>6, <2>2, DropArcTables
    <3>2. \A r \in Sess : r # s => ents'[r] = E[r]
      BY <1>6, <2>2 DEF DropArc, Tables
    <3> QED
      BY <3>1, <3>2
  <2> QED
    BY <1>4, <2>1, <2>2 DEF Finish
<1>8. \/ ents'[s] = NoEntities /\ Gone(s)
      \/ /\ ents'[s][n] = None
         /\ \A m \in EntNum : m # n => ents'[s][m] = ents[s][m]
  BY <1>3, <1>6, <1>7
<1>9. \A r \in Sess : r # s => ents'[r] = ents[r]
  BY <1>6, <1>7
<1> HIDE DEF s
<1> QED
  BY <1>1, <1>2, <1>3, <1>5, <1>8, <1>9 DEF Undeclares

LEMMA DeclareArg ==
  ASSUME ContractInv, NEW p \in Proc, Declare(p)
  PROVE  ArgInv'
<1>1. PICK s \in Sess, n \in EntNum :
      /\ n = nextEnt[s] /\ call[p].handle = s /\ s \in held
      /\ UNCHANGED <<zid, map, held, edoomed>>
      /\ nextEnt' = [nextEnt EXCEPT ![s] = n + 1] /\ eheld' = eheld \cup {<<s, n>>}
      /\ call' = [call EXCEPT ![p] = NoCall]
      /\ \A r \in Sess : r # s => ents'[r] = ents[r]
      /\ \/ ents'[s] = NoEntities /\ Gone(s)
         \/ /\ ents'[s][n] \in Entity /\ ents'[s][n].owner = s
            /\ \A m \in EntNum : m # n => ents'[s][m] = ents[s][m]
  BY DeclareEffect
<1>2. nextEnt \in [Sess -> Nat] /\ n \in Nat
  BY <1>1, ContractInvTypes, MaxEntAssumption
<1>3. ASSUME NEW e \in EntId, Numbered(e) PROVE Numbered(e)' /\ e # <<s, n>>
  <2>1. e[1] \in Sess /\ e[2] \in Nat /\ e[2] < nextEnt[e[1]]
    BY <1>3, MaxEntAssumption DEF EntId, EntNum, Numbered
  <2>2. nextEnt'[e[1]] = nextEnt[e[1]] \/ (e[1] = s /\ nextEnt'[e[1]] = n + 1)
    BY <1>1, <1>2, <2>1
  <2> QED
    BY <1>1, <1>2, <2>1, <2>2 DEF Numbered
<1>4. Numbered(<<s, n>>)'
  BY <1>1, <1>2 DEF Numbered
<1>5. ASSUME NEW q \in Proc PROVE ArgOK(q)' /\ ArgNumbered(q)'
  <2>1. CASE q = p
    <3>1. call'[q] = NoCall
      BY <1>1, <2>1, ContractInvTypes
    <3> QED
      BY <3>1 DEF ArgOK, ArgNumbered, NoCall
  <2>2. CASE q # p
    <3>1. call'[q] = call[q] /\ call[q].entity \in EntId \cup {None}
      BY <1>1, <2>2, ContractInvTypes DEF Call
    <3>2. ArgOK(q) /\ ArgNumbered(q)
      BY DEF ContractInv, ArgInv, Numbers
    <3>3. ArgNumbered(q)' /\ (call[q].entity # None => call[q].entity # <<s, n>>)
      BY <1>3, <3>1, <3>2 DEF ArgNumbered, Numbered
    <3> QED
      BY <1>1, <3>1, <3>2, <3>3 DEF ArgOK
  <2> QED
    BY <2>1, <2>2
<1>6. eheld' \cap edoomed' = {}
  BY <1>1, <1>3, ContractInvTypes DEF ContractInv, ArgInv, Numbers
<1>7. OwnTable'
  <2>1. ASSUME NEW r \in Sess, NEW m \in EntNum, ents'[r][m] # None
        PROVE  ents'[r][m].owner = r
    BY <1>1, <2>1 DEF ContractInv, ArgInv, OwnTable, NoEntities
  <2> QED
    BY <2>1 DEF OwnTable
<1>8. ASSUME NEW e \in EntId, ents'[e[1]][e[2]] # None PROVE Numbered(e)'
  <2>1. e[1] \in Sess /\ e[2] \in EntNum /\ e = <<e[1], e[2]>>
    BY DEF EntId
  <2>2. e = <<s, n>> \/ ents[e[1]][e[2]] # None
    BY <1>1, <1>8, <2>1 DEF NoEntities
  <2> QED
    BY <1>3, <1>4, <2>2 DEF ContractInv, ArgInv, Numbers
<1>9. \A e \in eheld' \cup edoomed' : Numbered(e)'
  BY <1>1, <1>3, <1>4, ContractInvTypes DEF ContractInv, ArgInv, Numbers
<1> QED
  BY <1>5, <1>6, <1>7, <1>8, <1>9 DEF ArgInv, Numbers

LEMMA ReleaseEntityArg ==
  ASSUME ContractInv, NEW e \in EntId, ReleaseEntity(e)
  PROVE  ArgInv'
<1>1. /\ e \in eheld /\ eheld' = eheld \ {e} /\ edoomed' = edoomed \cup {e}
      /\ UNCHANGED <<ents, nextEnt, call>>
      /\ \A p \in Proc : call[p].entity # e
  BY DEF ReleaseEntity
<1>2. \A p \in Proc : ArgOK(p)'
  BY <1>1 DEF ContractInv, ArgInv, ArgOK
<1>3. Numbers' /\ OwnTable'
  BY <1>1 DEF ContractInv, ArgInv, OwnTable, Numbers, Numbered, ArgNumbered
<1> QED
  BY <1>1, <1>2, <1>3 DEF ContractInv, ArgInv

\* A quiet step loses entities at most.
LEMMA ShedsLoses ==
  ASSUME Sheds, NEW s \in Sess, NEW n \in EntNum
  PROVE  ents'[s][n] \in {None, ents[s][n]}
BY DEF Sheds, NoEntities

LEMMA RemoveArg ==
  ASSUME ContractInv, NEW p \in Proc, Remove(p)
  PROVE  ArgInv'
<1>1. PICK e \in EntId :
        /\ Same /\ Returns(p)
        /\ \A r \in Sess : r # e[1] => ents'[r] = ents[r]
        /\ \/ ents'[e[1]] = NoEntities /\ Gone(e[1])
           \/ /\ ents'[e[1]][e[2]] = None
              /\ \A m \in EntNum : m # e[2] => ents'[e[1]][m] = ents[e[1]][m]
  BY RemoveEffect
<1>2. \A s \in Sess, n \in EntNum : ents'[s][n] \in {None, ents[s][n]}
  BY <1>1 DEF NoEntities
<1>3. \A q \in Proc : call'[q] \in {call[q], NoCall}
  BY <1>1, ContractInvTypes DEF Returns
<1> QED
  BY <1>1, <1>2, <1>3, ArgFrame DEF Same

LEMMA ArgStep ==
  ASSUME OpenPolicy = "fresh", ContractInv, [Next]_vars
  PROVE  ArgInv'
<1>1. TypeInv /\ None \notin Sess
  BY ContractInvTypes, NoneAssumption
<1>2. ASSUME UNCHANGED <<eheld, edoomed, nextEnt, call, ents>> PROVE ArgInv'
  BY <1>2, ArgFrame
<1>3. ASSUME NEW s \in Sess, NEW z \in Zid, session_open(s, z) PROVE ArgInv'
  BY <1>2, <1>3, FreshOpens
<1>4. ASSUME NEW p \in Proc, NEW h \in Sess, session_close(p, h) PROVE ArgInv'
  <2>1. zid[h] \in Zid /\ "close" \in Op /\ {} \in SUBSET Kinds
    BY <1>1, <1>4 DEF session_close, TypeInv, KnownIds, Op
  <2> QED
    BY <1>1, <1>4, <2>1, EnterArg DEF session_close, handles
<1>5. ASSUME NEW p \in Proc, NEW h \in Sess, NEW o \in {"use", "get", "declare"},
             NEW K \in SUBSET Kinds, OnSession(p, h, o, K)
      PROVE  ArgInv'
  <2>1. zid[h] \in Zid /\ o \in Op
    BY <1>1, <1>5 DEF OnSession, TypeInv, KnownIds, Op
  <2> QED
    BY <1>1, <1>5, <2>1, EnterArg DEF OnSession, handles
<1>6. ASSUME NEW p \in Proc, NEW e \in EntId, NEW o \in {"use", "get", "undeclare"},
             NEW K \in SUBSET Kinds, OnEntity(p, e, o, K)
      PROVE  ArgInv'
  <2>1. zid[e[1]] \in Zid /\ o \in Op /\ e # None
    BY <1>1, <1>6, NoneAssumption DEF OnEntity, TypeInv, KnownIds, Op, EntId, EntNum
  <2>2. e \in eheld /\ Numbered(e)
    BY <1>6 DEF OnEntity, ContractInv, ArgInv, Numbers
  <2> QED
    BY <1>1, <1>6, <2>1, <2>2, EnterArg DEF OnEntity, handles
<1>7. ASSUME NEW p \in Proc, NEW e \in EntId, DropEntity(p, e) PROVE ArgInv'
  <2>1. /\ zid[e[1]] \in Zid /\ "drop" \in Op /\ Kinds \in SUBSET Kinds /\ e # None
        /\ e \notin eheld /\ Numbered(e)
    BY <1>1, <1>7, NoneAssumption
       DEF DropEntity, TypeInv, KnownIds, Op, EntId, EntNum, ContractInv, ArgInv, Numbers
  <2>2. /\ edoomed' = edoomed \ {e}
        /\ UNCHANGED <<zid, map, closed, ents, nextEnt, held, eheld, doomed, pend, darc>>
    BY <1>7 DEF DropEntity
  <2>3. CASE Enter(p, get_session(zid[e[1]]), "drop", Kinds, None, e)
    BY <2>1, <2>2, <2>3, EnterArg
  <2>4. CASE UNCHANGED call
    <3>1. \A q \in Proc : ArgOK(q)'
      BY <2>2, <2>4 DEF ContractInv, ArgInv, ArgOK
    <3>2. Numbers' /\ OwnTable'
      BY <2>2, <2>4 DEF ContractInv, ArgInv, OwnTable, Numbers, Numbered, ArgNumbered
    <3> QED
      BY <2>2, <3>1, <3>2 DEF ContractInv, ArgInv
  <2> QED
    BY <1>7, <2>3, <2>4 DEF DropEntity
<1>8. ASSUME NEW p \in Proc, Quiet(p) PROVE ArgInv'
  <2>1. \A q \in Proc : call'[q] \in {call[q], NoCall}
    BY <1>8, ContractInvTypes DEF Quiet, Returns
  <2> QED
    BY <1>8, <2>1, ShedsLoses, ArgFrame DEF Quiet, Same
<1>9. ASSUME NEW h \in Sess, ReleaseSession(h) PROVE ArgInv'
  BY <1>2, <1>9 DEF ReleaseSession
<1>10. ASSUME NEW p \in Proc, NEW h \in Sess, DropSession(p, h) \/ DropNested(p, h)
       PROVE  ArgInv'
  BY <1>2, <1>10 DEF DropSession, DropNested, RemoveFromMap, handles
<1>11. CASE UNCHANGED vars
  BY <1>2, <1>11 DEF vars
<1> QED
  BY <1>1, <1>3, <1>4, <1>5, <1>6, <1>7, <1>8, <1>9, <1>10, <1>11, StepCases,
     DeclareArg, RemoveArg, ReleaseEntityArg

LEMMA ContractInvHolds ==
  OpenPolicy = "fresh" => (Spec => []ContractInv)
<1> SUFFICES ASSUME OpenPolicy = "fresh" PROVE Spec => []ContractInv
  OBVIOUS
<1>1. Init => ContractInv
  <2> SUFFICES ASSUME Init PROVE ContractInv
    OBVIOUS
  <2>1. LockInv
    BY InitType, InitIds DEF Init, TypeInv, LockInv, CheckedInv, Alone, Locks
  <2>2. StayInv
    BY HandleInit DEF Init, StayInv, Distinct
  <2>3. \A p \in Proc : ArgOK(p) /\ ArgNumbered(p)
    BY DEF Init, ArgOK, ArgNumbered, NoCall
  <2>4. OwnTable /\ Numbers
    BY <2>3 DEF Init, OwnTable, Numbers, NoEntities, EntId
  <2> QED
    BY <2>1, <2>2, <2>3, <2>4 DEF ContractInv, ArgInv, Init
<1>2. ContractInv /\ [Next]_vars => ContractInv'
  BY LockStep, HandleStep, DistinctStep, ArgStep DEF ContractInv, StayInv, LockInv
<1> QED
  BY <1>1, <1>2, PTL DEF Spec
-----------------------------------------------------------------------------
(* The refinement mapping: what a step does to the sessions ever opened,   *)
(* to the sessions and entities a call reaches and to what clients ask.    *)

Opened == {s \in Sess : zid[s] # None}
AskedOf == [p \in Proc |-> Asked(p)]

LEMMA MappedIs ==
  ASSUME NEW s \in Sess
  PROVE  /\ s \in Mapped <=> ~Unmapped(s)
         /\ s \in Mapped' <=> ~Gone(s)
BY DEF Mapped, Unmapped, Gone

LEMMA DeclaredIs ==
  ASSUME NEW e
  PROVE  /\ e \in Declared <=> e \in EntId /\ e[1] \in Mapped /\ ents[e[1]][e[2]] # None
         /\ e \in Declared' <=> e \in EntId /\ e[1] \in Mapped' /\ ents'[e[1]][e[2]] # None
<1>1. Mapped \subseteq Sess /\ Mapped' \subseteq Sess
  BY DEF Mapped
<1> QED
  BY <1>1 DEF Declared, EntId

LEMMA AskedIs ==
  ASSUME NEW p \in Proc
  PROVE  /\ call[p].op = "close" => Asked(p) = call[p].handle
         /\ call[p].op = "undeclare" => Asked(p) = call[p].entity
         /\ call[p].op \notin {"close", "undeclare"} => Asked(p) = None
BY DEF Asked

\* A thread that is not in a NIF asks nothing.
LEMMA IdleAsksNothing ==
  ASSUME ContractInv, NEW p \in Proc, pc[p] = "idle"
  PROVE  Asked(p) = None
<1>1. call[p] = NoCall
  BY ContractInvTypes DEF TypeOK, ThreadOK, ContractInv, ArgInv, ArgOK
<1> QED
  BY <1>1 DEF Asked, NoCall

\* Entering a NIF asks what the call c asks.
LEMMA EnterAsks ==
  ASSUME ContractInv, NEW p \in Proc, NEW s, NEW o, NEW K, NEW h, NEW e,
         Enter(p, s, o, K, h, e)
  PROVE  /\ AskedOf[p] = None
         /\ o = "close" => AskedOf' = [AskedOf EXCEPT ![p] = h]
         /\ o = "undeclare" => AskedOf' = [AskedOf EXCEPT ![p] = e]
         /\ o \notin {"close", "undeclare"} => AskedOf' = AskedOf
<1> DEFINE c == [op |-> o, kinds |-> K, arc |-> s, handle |-> h, entity |-> e]
<1>1. /\ call'[p] = c /\ \A q \in Proc : q # p => call'[q] = call[q]
  BY ContractInvTypes DEF Enter
<1>2. \A q \in Proc : q # p => Asked(q)' = Asked(q)
  BY <1>1 DEF Asked
<1>3. /\ o = "close" => Asked(p)' = h
      /\ o = "undeclare" => Asked(p)' = e
      /\ o \notin {"close", "undeclare"} => Asked(p)' = None
  BY <1>1 DEF Asked
<1>4. Asked(p) = None
  BY IdleAsksNothing DEF Enter
<1> QED
  BY <1>2, <1>3, <1>4 DEF AskedOf

\* Returning asks nothing any more.
LEMMA ReturnAsks ==
  ASSUME ContractInv, NEW p \in Proc, Returns(p)
  PROVE  AskedOf' = AskedOf \/ AskedOf' = [AskedOf EXCEPT ![p] = None]
<1>1. CASE call' = call
  BY <1>1 DEF AskedOf, Asked
<1>2. CASE call' = [call EXCEPT ![p] = NoCall]
  <2>1. call'[p] = NoCall /\ \A q \in Proc : q # p => call'[q] = call[q]
    BY <1>2, ContractInvTypes
  <2>2. Asked(p)' = None /\ \A q \in Proc : q # p => Asked(q)' = Asked(q)
    BY <2>1 DEF Asked, NoCall
  <2> QED
    BY <2>2 DEF AskedOf
<1> QED
  BY <1>1, <1>2 DEF Returns

\* What is declared does not change while the map does not and sessions lose
\* entities only when they are out of it.
LEMMA ShedsDeclared ==
  ASSUME map' = map, Sheds
  PROVE  Mapped' = Mapped /\ Declared' = Declared
<1>1. Mapped' = Mapped
  BY DEF Mapped
<1>2. ASSUME NEW e \in EntId, e[1] \in Mapped PROVE ents'[e[1]] = ents[e[1]]
  BY <1>1, <1>2, MappedIs DEF EntId, Sheds
<1> QED
  BY <1>1, <1>2, DeclaredIs

\* Taking a session out of the map takes it and its entities out of reach.
LEMMA UnmapEffect ==
  ASSUME ContractInv, NEW h \in Sess, zid[h] \in Zid, map[zid[h]] # None,
         map' = [map EXCEPT ![zid[h]] = None], ents' = ents
  PROVE  /\ h \in Mapped /\ Mapped' = Mapped \ {h}
         /\ Declared' = Declared \ Contract!On(Declared, h)
<1>1. map[zid[h]] = h
  BY LookupFinds
<1>2. Unmapped(h) = FALSE /\ Gone(h)
  BY <1>1, ContractInvTypes, NoneAssumption DEF Unmapped, Gone, TypeInv, KnownIds
<1>3. \A s \in Sess : s # h => (Gone(s) <=> Unmapped(s))
  BY <1>1, ContractInvTypes, NoneAssumption DEF Unmapped, Gone
<1>4. h \in Mapped /\ Mapped' = Mapped \ {h}
  <2>1. Mapped \subseteq Sess /\ Mapped' \subseteq Sess
    BY DEF Mapped
  <2> QED
    BY <1>2, <1>3, <2>1, MappedIs
<1>5. Declared' = Declared \ Contract!On(Declared, h)
  BY <1>4, DeclaredIs DEF Contract!On
<1> QED
  BY <1>4, <1>5

LEMMA ContractStutters ==
  ASSUME Opened' = Opened, Mapped' = Mapped, Declared' = Declared, AskedOf' = AskedOf,
         UNCHANGED <<held, eheld>>
  PROVE  UNCHANGED Contract!vars
BY DEF Contract!vars, Opened, AskedOf
-----------------------------------------------------------------------------
(* Each step of the registry is one of the contract or stutters.           *)

LEMMA OpenRefines ==
  ASSUME ContractInv, OpenPolicy = "fresh", NEW s \in Sess, NEW z \in Zid, session_open(s, z)
  PROVE  Contract!Next
<1>1. /\ map[z] = None /\ zid[s] = None /\ z # None /\ s # None
      /\ zid' = [zid EXCEPT ![s] = z] /\ map' = [map EXCEPT ![z] = s]
      /\ held' = held \cup {s} /\ UNCHANGED <<ents, nextEnt, eheld, edoomed, call>>
  BY FreshOpens, NoneAssumption
<1>2. s \notin Opened /\ Opened' = Opened \cup {s}
  BY <1>1, ContractInvTypes DEF Opened
<1>3. Mapped' = Mapped \cup {s}
  <2>1. ~Gone(s)
    BY <1>1, ContractInvTypes DEF Gone
  <2>2. \A r \in Sess : r # s => (Gone(r) <=> Unmapped(r))
    BY <1>1, ContractInvTypes, NoneAssumption DEF Gone, Unmapped
  <2>3. Mapped \subseteq Sess /\ Mapped' \subseteq Sess
    BY DEF Mapped
  <2> QED
    BY <2>1, <2>2, <2>3, MappedIs
<1>4. \A n \in EntNum : ents[s][n] = None
  BY <1>1, ContractInvTypes, NoneAssumption
     DEF ContractInv, ArgInv, OwnTable, TypeInv, KnownIds, KnownOwners
<1>5. Declared' = Declared
  BY <1>1, <1>3, <1>4, DeclaredIs DEF EntId
<1>6. AskedOf' = AskedOf
  BY <1>1 DEF AskedOf, Asked
<1>7. Contract!Open(s)
  BY <1>1, <1>2, <1>3, <1>5, <1>6 DEF Contract!Open, Opened, AskedOf
<1> QED
  BY <1>7 DEF Contract!Next

LEMMA CloseRefines ==
  ASSUME ContractInv, NEW p \in Proc, NEW h \in Sess, session_close(p, h)
  PROVE  Contract!Next
<1>1. /\ h \in held /\ zid[h] \in Zid /\ map[zid[h]] # None
      /\ map' = [map EXCEPT ![zid[h]] = None]
      /\ UNCHANGED <<zid, ents, held, eheld>>
      /\ Enter(p, get_session(zid[h]), "close", {}, h, None)
  BY ContractInvTypes DEF session_close, Enter, get_session, handles, TypeInv, KnownIds
<1>2. /\ h \in Mapped /\ Mapped' = Mapped \ {h}
      /\ Declared' = Declared \ Contract!On(Declared, h)
  BY <1>1, UnmapEffect
<1>3. AskedOf[p] = None /\ AskedOf' = [AskedOf EXCEPT ![p] = h]
  BY <1>1, EnterAsks
<1>4. Opened' = Opened
  BY <1>1 DEF Opened
<1>5. Contract!Close(p, h)
  BY <1>1, <1>2, <1>3, <1>4 DEF Contract!Close, Opened, AskedOf
<1> QED
  BY <1>5 DEF Contract!Next

LEMMA OnSessionRefines ==
  ASSUME ContractInv, NEW p \in Proc, NEW h \in Sess, NEW o \in {"use", "get", "declare"},
         NEW K, OnSession(p, h, o, K)
  PROVE  UNCHANGED Contract!vars
<1>1. UNCHANGED <<zid, map, ents, held, eheld>>
  BY DEF OnSession, handles
<1>2. AskedOf' = AskedOf
  BY EnterAsks DEF OnSession
<1> QED
  BY <1>1, <1>2, ContractStutters DEF Opened, Mapped, Declared

LEMMA OnEntityRefines ==
  ASSUME ContractInv, NEW p \in Proc, NEW e \in EntId, NEW o \in {"use", "get", "undeclare"},
         NEW K, OnEntity(p, e, o, K)
  PROVE  Contract!Next \/ UNCHANGED Contract!vars
<1>1. /\ e \in eheld /\ UNCHANGED <<zid, map, ents, held, eheld>>
      /\ Enter(p, get_session(zid[e[1]]), o, K, None, e)
  BY DEF OnEntity, handles
<1>2. Opened' = Opened /\ Mapped' = Mapped /\ Declared' = Declared
  BY <1>1 DEF Opened, Mapped, Declared
<1>3. CASE o = "undeclare"
  <2>1. AskedOf[p] = None /\ AskedOf' = [AskedOf EXCEPT ![p] = e]
    BY <1>1, <1>3, EnterAsks
  <2>2. Contract!AskUndeclare(p, e)
    BY <1>1, <1>2, <2>1 DEF Contract!AskUndeclare, Opened, AskedOf
  <2> QED
    BY <2>2 DEF Contract!Next
<1>4. CASE o # "undeclare"
  <2>1. AskedOf' = AskedOf
    BY <1>1, <1>4, EnterAsks
  <2> QED
    BY <1>1, <1>2, <2>1, ContractStutters
<1> QED
  BY <1>3, <1>4

\* A call that returns without an effect on the contract answers the client.
LEMMA QuietRefines ==
  ASSUME ContractInv, NEW p \in Proc, Returns(p), UNCHANGED <<zid, held, eheld>>,
         Mapped' = Mapped, Declared' = Declared
  PROVE  Contract!Next \/ UNCHANGED Contract!vars
<1>1. Opened' = Opened
  BY DEF Opened
<1>2. CASE AskedOf' = AskedOf
  BY <1>1, <1>2, ContractStutters
<1>3. CASE AskedOf' # AskedOf
  <2>1. AskedOf' = [AskedOf EXCEPT ![p] = None] /\ AskedOf[p] # None
    BY <1>3, ReturnAsks DEF AskedOf
  <2>2. Contract!Answer(p)
    BY <1>1, <2>1 DEF Contract!Answer, Opened, AskedOf
  <2> QED
    BY <2>2 DEF Contract!Next
<1> QED
  BY <1>2, <1>3

LEMMA DeclareRefines ==
  ASSUME ContractInv, NEW p \in Proc, Declare(p)
  PROVE  Contract!Next
<1>1. PICK s \in Sess, n \in EntNum :
      /\ n = nextEnt[s] /\ s \in held
      /\ UNCHANGED <<zid, map, held, edoomed>> /\ eheld' = eheld \cup {<<s, n>>}
      /\ call' = [call EXCEPT ![p] = NoCall]
      /\ \A r \in Sess : r # s => ents'[r] = ents[r]
      /\ \/ ents'[s] = NoEntities /\ Gone(s)
         \/ /\ ents'[s][n] \in Entity
            /\ \A m \in EntNum : m # n => ents'[s][m] = ents[s][m]
  BY DeclareEffect
<1> DEFINE e == <<s, n>>
<1>2. e \in EntId /\ e[1] = s /\ e[2] = n
  BY DEF EntId
<1>3. e \notin Declared \cup eheld
  <2>1. ~Numbered(e)
    BY <1>1, <1>2, ContractInvTypes, MaxEntAssumption DEF Numbered, EntNum
  <2> QED
    BY <1>2, <2>1, DeclaredIs DEF ContractInv, ArgInv, Numbers
<1>4. AskedOf' = AskedOf
  <2>1. AskedOf[p] = None
    BY AskedIs DEF AskedOf, Declare
  <2>2. AskedOf' = AskedOf \/ AskedOf' = [AskedOf EXCEPT ![p] = None]
    BY <1>1, ReturnAsks DEF Returns
  <2> QED
    BY <2>1, <2>2 DEF AskedOf
<1>5. Opened' = Opened /\ Mapped' = Mapped
  BY <1>1 DEF Opened, Mapped
<1>6. Declared' = IF e[1] \in Mapped THEN Declared \cup {e} ELSE Declared
  <2>1. ASSUME NEW d \in EntId, d[1] \in Mapped
        PROVE  ents'[d[1]][d[2]] # None <=> ents[d[1]][d[2]] # None \/ d = e
    <3>1. d[1] \in Sess /\ d[2] \in EntNum /\ d = <<d[1], d[2]>> /\ ~Gone(d[1])
      BY <1>5, <2>1, MappedIs DEF EntId
    <3>2. CASE d[1] # s
      BY <1>1, <3>1, <3>2
    <3>3. CASE d[1] = s /\ d[2] # n
      BY <1>1, <3>1, <3>3
    <3>4. CASE d[1] = s /\ d[2] = n
      BY <1>1, <3>1, <3>4, NoneIsNoEntity DEF Entity
    <3> QED
      BY <3>2, <3>3, <3>4
  <2>2. CASE s \in Mapped
    BY <1>2, <1>5, <2>1, <2>2, DeclaredIs
  <2>3. CASE s \notin Mapped
    <3>1. \A d \in EntId : d[1] \in Mapped => d # e
      BY <1>2, <2>3
    <3> QED
      BY <1>2, <1>5, <2>1, <2>3, <3>1, DeclaredIs
  <2> QED
    BY <2>2, <2>3
<1>7. Contract!Declare(e)
  BY <1>1, <1>2, <1>3, <1>4, <1>5, <1>6 DEF Contract!Declare, Opened, AskedOf
<1> QED
  BY <1>2, <1>7 DEF Contract!Next

LEMMA RemoveRefines ==
  ASSUME ContractInv, NEW p \in Proc, Remove(p)
  PROVE  Contract!Next \/ UNCHANGED Contract!vars
<1>1. PICK e \in EntId :
      /\ e = call[p].entity /\ call[p].op \in {"undeclare", "drop"}
      /\ Same /\ Returns(p) /\ ents[e[1]][e[2]] # None
      /\ \A r \in Sess : r # e[1] => ents'[r] = ents[r]
      /\ \/ ents'[e[1]] = NoEntities /\ Gone(e[1])
         \/ /\ ents'[e[1]][e[2]] = None
            /\ \A m \in EntNum : m # e[2] => ents'[e[1]][m] = ents[e[1]][m]
  BY RemoveEffect
<1>2. Opened' = Opened /\ Mapped' = Mapped /\ UNCHANGED <<zid, held, eheld>>
  BY <1>1 DEF Opened, Mapped, Same
<1>3. Declared' = Declared \ {e}
  <2>1. ASSUME NEW d \in EntId, d[1] \in Mapped
        PROVE  ents'[d[1]][d[2]] # None <=> ents[d[1]][d[2]] # None /\ d # e
    <3>1. /\ d[1] \in Sess /\ d[2] \in EntNum /\ d = <<d[1], d[2]>> /\ ~Gone(d[1])
          /\ e = <<e[1], e[2]>>
      BY <1>2, <2>1, MappedIs DEF EntId
    <3>2. CASE d[1] # e[1]
      BY <1>1, <3>1, <3>2
    <3>3. CASE d[1] = e[1] /\ d[2] # e[2]
      BY <1>1, <3>1, <3>3
    <3>4. CASE d[1] = e[1] /\ d[2] = e[2]
      BY <1>1, <3>1, <3>4
    <3> QED
      BY <3>2, <3>3, <3>4
  <2> QED
    BY <1>2, <2>1, DeclaredIs
<1>4. CASE e \notin Declared
  BY <1>1, <1>2, <1>3, <1>4, QuietRefines
<1>5. CASE e \in Declared /\ call[p].op = "undeclare"
  <2>1. AskedOf[p] = e
    BY <1>1, <1>5, AskedIs DEF AskedOf
  <2>2. AskedOf' = AskedOf \/ AskedOf' = [AskedOf EXCEPT ![p] = None]
    BY <1>1, ReturnAsks
  <2>3. Contract!Undeclare(p)
    BY <1>2, <1>3, <1>5, <2>1, <2>2 DEF Contract!Undeclare, Opened, AskedOf
  <2> QED
    BY <2>3 DEF Contract!Next
<1>6. CASE e \in Declared /\ call[p].op = "drop"
  <2>1. AskedOf' = AskedOf
    <3>1. AskedOf[p] = None
      BY <1>6, AskedIs DEF AskedOf
    <3>2. AskedOf' = AskedOf \/ AskedOf' = [AskedOf EXCEPT ![p] = None]
      BY <1>1, ReturnAsks
    <3> QED
      BY <3>1, <3>2 DEF AskedOf
  <2>2. e \notin eheld
    BY <1>1, <1>6 DEF ContractInv, ArgInv, ArgOK
  <2>3. Contract!ReclaimEntity(e)
    BY <1>2, <1>3, <1>6, <2>1, <2>2 DEF Contract!ReclaimEntity, Opened, AskedOf
  <2> QED
    BY <2>3 DEF Contract!Next
<1> QED
  BY <1>1, <1>4, <1>5, <1>6

LEMMA ReleaseRefines ==
  ASSUME \/ \E h \in Sess : ReleaseSession(h)
         \/ \E e \in EntId : ReleaseEntity(e)
  PROVE  Contract!Next
<1>1. UNCHANGED <<zid, map, ents, call>>
  BY DEF ReleaseSession, ReleaseEntity
<1>2. Opened' = Opened /\ Mapped' = Mapped /\ Declared' = Declared /\ AskedOf' = AskedOf
  BY <1>1 DEF Opened, Mapped, Declared, AskedOf, Asked
<1>3. ASSUME NEW h \in Sess, ReleaseSession(h) PROVE Contract!Next
  <2>1. Contract!LetGoSession(h)
    BY <1>2, <1>3 DEF ReleaseSession, Contract!LetGoSession, Opened, AskedOf
  <2> QED
    BY <2>1 DEF Contract!Next
<1>4. ASSUME NEW e \in EntId, ReleaseEntity(e) PROVE Contract!Next
  <2>1. Contract!LetGoEntity(e)
    BY <1>2, <1>4 DEF ReleaseEntity, Contract!LetGoEntity, Opened, AskedOf
  <2> QED
    BY <2>1 DEF Contract!Next
<1> QED
  BY <1>3, <1>4

LEMMA DropEntityRefines ==
  ASSUME ContractInv, NEW p \in Proc, NEW e \in EntId, DropEntity(p, e)
  PROVE  UNCHANGED Contract!vars
<1>1. UNCHANGED <<zid, map, ents, held, eheld>>
  BY DEF DropEntity
<1>2. AskedOf' = AskedOf
  <2>1. CASE UNCHANGED call
    BY <2>1 DEF AskedOf, Asked
  <2>2. CASE Enter(p, get_session(zid[e[1]]), "drop", Kinds, None, e)
    BY <2>2, EnterAsks
  <2> QED
    BY <2>1, <2>2 DEF DropEntity
<1> QED
  BY <1>1, <1>2, ContractStutters DEF Opened, Mapped, Declared

\* The destructor of a session handle: nothing refers to the handle any more,
\* so no entity is left in the session.
LEMMA DropSessionRefines ==
  ASSUME ContractInv, NEW p \in Proc, NEW h \in Sess, DropSession(p, h) \/ DropNested(p, h)
  PROVE  Contract!Next \/ UNCHANGED Contract!vars
<1>1. Dying(h) /\ zid[h] \in Zid
  BY ContractInvTypes DEF DropSession, DropNested, Dying, TypeInv, KnownIds
<1>2. /\ map' = [map EXCEPT ![zid[h]] = None]
      /\ UNCHANGED <<zid, ents, held, eheld, call>>
  BY DEF DropSession, DropNested, RemoveFromMap, handles
<1>3. Opened' = Opened /\ AskedOf' = AskedOf
  BY <1>2 DEF Opened, AskedOf, Asked
<1>4. CASE map[zid[h]] = None
  <2>1. map' = map
    BY <1>1, <1>2, <1>4, ContractInvTypes
  <2> QED
    BY <1>2, <1>3, <2>1, ContractStutters DEF Mapped, Declared
<1>5. CASE map[zid[h]] # None
  <2>1. /\ h \in Mapped /\ Mapped' = Mapped \ {h}
        /\ Declared' = Declared \ Contract!On(Declared, h)
    BY <1>1, <1>2, <1>5, UnmapEffect
  <2>2. h \notin held /\ ~Owns(ents, h)
    BY <1>1 DEF ContractInv, StayInv, HandleInv, Referenced
  <2>3. \A e \in Declared : e[1] # h
    BY <2>2, DeclaredIs DEF Owns, ContractInv, ArgInv, OwnTable, EntId
  <2>4. Contract!On(Declared, h) = {} /\ Declared' = Declared
    BY <2>1, <2>3 DEF Contract!On
  <2>5. Contract!ReclaimSession(h)
    BY <1>2, <1>3, <2>1, <2>2, <2>4 DEF Contract!ReclaimSession, Opened, AskedOf
  <2> QED
    BY <2>5 DEF Contract!Next
<1> QED
  BY <1>4, <1>5

LEMMA StepRefines ==
  ASSUME OpenPolicy = "fresh", ContractInv, [Next]_vars
  PROVE  [Contract!Next]_Contract!vars
<1>1. ASSUME NEW p \in Proc, Quiet(p) PROVE Contract!Next \/ UNCHANGED Contract!vars
  BY <1>1, ShedsDeclared, QuietRefines DEF Quiet, Same
<1>2. ASSUME UNCHANGED vars PROVE UNCHANGED Contract!vars
  <2>1. UNCHANGED <<zid, map, ents, held, eheld, call>>
    BY <1>2 DEF vars
  <2> QED
    BY <2>1, ContractStutters DEF Opened, Mapped, Declared, AskedOf, Asked
<1>3. TypeInv
  BY ContractInvTypes
<1>4. Contract!Next \/ UNCHANGED Contract!vars
  BY <1>1, <1>2, <1>3, StepCases, OpenRefines, CloseRefines, OnSessionRefines,
     OnEntityRefines, DeclareRefines, RemoveRefines, ReleaseRefines,
     DropEntityRefines, DropSessionRefines
<1> QED
  BY <1>4

\* While zids are not reused, the registry implements the contract of
\* Zenohex.Session: a session is reached from its opening until a client closes
\* it and an entity until a client undeclares it, unless the handle was let go.
THEOREM RegistryKeepsContract ==
  OpenPolicy = "fresh" => (Spec => KeepsContract)
<1> SUFFICES ASSUME OpenPolicy = "fresh" PROVE Spec => KeepsContract
  OBVIOUS
<1>1. Init => Contract!Init
  BY NoneAssumption DEF Init, Contract!Init, Mapped, Declared, Asked, NoCall
<1>2. ContractInv /\ [Next]_vars => [Contract!Next]_Contract!vars
  BY StepRefines
<1>3. Spec => []ContractInv
  BY ContractInvHolds
<1> QED
  BY <1>1, <1>2, <1>3, PTL DEF Spec, KeepsContract, Contract!Spec
-----------------------------------------------------------------------------
(* A held entity stays.                                                    *)

\* The table of a session in the map loses an entity to a removal only.
LEMMA OnlyRemovalsTakeEntities ==
  ASSUME OpenPolicy = "fresh", ContractInv, [Next]_vars,
         NEW s \in Sess, ~Gone(s), NEW n \in EntNum, ents[s][n] # None, ents'[s][n] = None
  PROVE  \E p \in Proc : Remove(p) /\ call[p].entity = <<s, n>>
<1>1. ents'[s] # ents[s] /\ TypeInv
  BY ContractInvTypes
<1>2. ASSUME NEW r \in Sess, NEW z \in Zid, session_open(r, z) PROVE FALSE
  BY <1>1, <1>2, FreshOpens
<1>3. ASSUME NEW p \in Proc, Quiet(p) PROVE FALSE
  BY <1>1, <1>3 DEF Quiet, Sheds
<1>4. ASSUME NEW p \in Proc, Declare(p) PROVE FALSE
  <2>1. PICK r \in Sess, m \in EntNum :
          /\ r # s => ents'[s] = ents[s]
          /\ \/ Gone(r)
             \/ /\ ents'[r][m] \in Entity
                /\ \A k \in EntNum : k # m => ents'[r][k] = ents[r][k]
    BY <1>4, DeclareEffect
  <2> QED
    BY <1>1, <2>1, NoneIsNoEntity DEF Entity
<1>5. ASSUME NEW p \in Proc, Remove(p) PROVE call[p].entity = <<s, n>>
  <2>1. PICK e \in EntId :
          /\ e = call[p].entity
          /\ e[1] # s => ents'[s] = ents[s]
          /\ \/ Gone(e[1])
             \/ \A m \in EntNum : m # e[2] => ents'[e[1]][m] = ents[e[1]][m]
    BY <1>5, RemoveEffect
  <2>2. e[1] = s /\ e[2] = n
    BY <1>1, <2>1
  <2> QED
    BY <2>1, <2>2 DEF EntId
<1> QED
  BY <1>1, <1>2, <1>3, <1>4, <1>5, StepCases
     DEF session_close, OnSession, OnEntity, ReleaseSession, ReleaseEntity, DropEntity,
         DropSession, DropNested, RemoveFromMap, vars

\* While zids are not reused, an entity whose handle is held leaves its open
\* session only by an undeclaration of its own kind on that handle: neither a
\* destructor nor an undeclaration through another handle takes it.
THEOREM HeldEntitiesStay ==
  OpenPolicy = "fresh" => (Spec => HeldEntityStays)
<1> SUFFICES ASSUME OpenPolicy = "fresh" PROVE Spec => HeldEntityStays
  OBVIOUS
<1> DEFINE Stays(e) ==
             LET s == e[1]
                 n == e[2]
             IN  /\ map[zid[s]] = s /\ map'[zid[s]] = s
                 /\ ents[s][n] # None /\ ents'[s][n] = None
                 => \E p \in Proc : /\ call[p].op = "undeclare" /\ call[p].entity = e
                                   /\ ents[s][n].kind \in call[p].kinds
<1>1. ASSUME ContractInv, [Next]_vars, NEW e \in eheld \cap eheld' PROVE Stays(e)
  <2> SUFFICES ASSUME map'[zid[e[1]]] = e[1],
                      ents[e[1]][e[2]] # None, ents'[e[1]][e[2]] = None
               PROVE  \E p \in Proc : /\ call[p].op = "undeclare" /\ call[p].entity = e
                                     /\ ents[e[1]][e[2]].kind \in call[p].kinds
    OBVIOUS
  <2>1. e[1] \in Sess /\ e[2] \in EntNum /\ e = <<e[1], e[2]>> /\ zid[e[1]] \in Zid
    BY <1>1, ContractInvTypes DEF TypeInv, KnownIds, EntId
  <2>2. ~Gone(e[1])
    BY <2>1 DEF Gone
  <2>3. PICK p \in Proc : Remove(p) /\ call[p].entity = e
    BY <1>1, <2>1, <2>2, OnlyRemovalsTakeEntities
  <2>4. call[p].op \in {"undeclare", "drop"} /\ ents[e[1]][e[2]].kind \in call[p].kinds
    BY <1>1, <2>3, RemoveEffect
  <2>5. call[p].op # "drop"
    BY <1>1, <2>3 DEF ContractInv, ArgInv, ArgOK
  <2> QED
    BY <2>3, <2>4, <2>5
<1>2. ContractInv /\ [Next]_vars => \A e \in eheld \cap eheld' : Stays(e)
  BY <1>1
<1>3. Spec => []ContractInv
  BY ContractInvHolds
<1> QED
  BY <1>2, <1>3, PTL DEF Spec, HeldEntityStays
-----------------------------------------------------------------------------
(* No thread waits for a lock while it has one.                            *)

\* Where destructors are scheduled, or clients keep a session handle as long
\* as its entities, no removal runs the destructor of a session handle under
\* the write lock: the handle of an entity in a table is held.
NeverNested == Drops = "scheduled" \/ KeepSession
KeptHandles == KeepSession => \A h \in Sess : Owns(ents, h) => h \in held
KeepInv == /\ HandleInv /\ KeptHandles
           /\ \A p \in Proc : pc[p] # "nested"

\* The threads that keep others waiting: those that run under the lock of s,
\* and those that could take it next.
Free(p) == IF Exclusive(p) THEN CanWrite(call[p].arc) ELSE CanRead(call[p].arc)
Runs(p) == pc[p] \in {"body", "checked"}
GoesOn(s) == \/ \E q \in Proc : Locks(q, s) /\ Runs(q)
             \/ \E q \in Proc : Waits(q, s) /\ Exclusive(q) /\ Free(q)

\* A NIF that waits for a session's lock, and a destructor that waits to close
\* its session, can go on, or some other thread can that is not waiting too:
\* there is no circle of threads that wait for each other.
NoCircle ==
  \A p \in Proc :
    /\ pc[p] = "lock" => Free(p) \/ GoesOn(call[p].arc)
    /\ darc[p] # None => CanRead(darc[p]) \/ GoesOn(darc[p])

\* What a step puts into a table its caller holds.
LEMMA KeptStep ==
  ASSUME HandleInv, KeptHandles, [Next]_vars
  PROVE  KeptHandles'
<1> SUFFICES ASSUME KeepSession, NEW h \in Sess, Owns(ents', h) PROVE h \in held'
  BY DEF KeptHandles
<1>1. PICK s \in Sess, n \in EntNum : ents'[s][n] # None /\ ents'[s][n].owner = h
  BY DEF Owns
<1>2. TypeInv
  BY DEF HandleInv
<1>3. ASSUME NEW x \in held, x \notin held' PROVE ReleaseSession(x)
  <2>1. ASSUME NEW p \in Proc, NEW k \in Sess, SessionNif(p, k) \/ DeclareNif(p, k)
        PROVE  FALSE
    BY <1>3, <2>1, SessionNifEnters DEF OnSession, session_close, handles
  <2>2. ASSUME NEW p \in Proc, NEW e \in EntId, EntityNif(p, e) PROVE FALSE
    BY <1>3, <2>2, EntityNifEnters DEF OnEntity, handles
  <2>3. ASSUME NEW p \in Proc, Body(p) PROVE FALSE
    BY <1>3, <2>3 DEF Body, Return, StartGet, Declare, Close, CheckEntity, Remove,
       NestedDone, handles
  <2> QED
    BY <1>3, <2>1, <2>2, <2>3 DEF Next, vars, session_open, Acquire, EndGet, CloseDropped,
       ReleaseSession, ReleaseEntity, DropEntity, DropSession, DropNested, RemoveFromMap, handles
<1>4. CASE ents'[s][n] = ents[s][n]
  <2>1. h \in held
    BY <1>1, <1>4 DEF Owns, KeptHandles
  <2>2. Owns(ents, h)
    BY <1>1, <1>4 DEF Owns
  <2> QED
    BY <1>3, <2>1, <2>2 DEF ReleaseSession
<1>5. CASE ents'[s][n] # ents[s][n]
  <2>1. PICK p \in Proc : Declare(p) /\ ents'[s][n].owner = call[p].handle
    BY <1>1, <1>2, <1>5, OnlyDeclarationsAdd
  <2>2. h \in held /\ UNCHANGED held
    BY <1>1, <2>1, NoneAssumption DEF Declare, HandleInv
  <2> QED
    BY <2>2
<1> QED
  BY <1>4, <1>5

\* A thread holds a lock it does not wait under.
LEMMA KeepStep ==
  ASSUME NeverNested, KeepInv, [Next]_vars
  PROVE  KeepInv'
<1>1. ASSUME NEW q \in Proc, pc'[q] = "nested" PROVE FALSE
  <2>1. PICK E : Remove(q) /\ Drops = "inline" /\ Released(E) # {}
    <3>1. CASE Body(q) \/ EndGet(q) \/ Acquire(q)
      BY <1>1, <3>1 DEF Body, Return, StartGet, Declare, Close, CheckEntity, Remove,
         NestedDone, EndGet, Acquire, Finish, KeepInv, HandleInv, TypeInv, TypeOK
    <3> QED
      BY <1>1, <3>1, ThreadCases DEF KeepInv, HandleInv
  <2>2. KeepSession
    BY <2>1, ModeAssumption DEF NeverNested
  <2> QED
    BY <2>1, <2>2 DEF KeepInv, KeptHandles, Released
<1> QED
  BY <1>1, HandleStep, KeptStep DEF KeepInv

LEMMA KeepInvHolds == NeverNested => (Spec => []KeepInv)
<1> SUFFICES ASSUME NeverNested PROVE Spec => []KeepInv
  OBVIOUS
<1>1. Init => KeepInv
  BY HandleInit DEF Init, KeepInv, KeptHandles, Owns, NoEntities
<1>2. KeepInv /\ [Next]_vars => KeepInv'
  BY KeepStep
<1> QED
  BY <1>1, <1>2, PTL DEF Spec

\* The locks of sessions cannot deadlock where destructors are scheduled or
\* clients keep the session handle: a thread that holds a session's lock never
\* waits for one, so whoever waits has a thread ahead that can go on.
THEOREM NoDeadlock == NeverNested => (Spec => []NoCircle)
<1> SUFFICES ASSUME NeverNested PROVE Spec => []NoCircle
  OBVIOUS
<1>1. ASSUME KeepInv PROVE NoCircle
  <2>1. ASSUME NEW q \in Proc, NEW s, Locks(q, s) PROVE GoesOn(s)
    BY <1>1, <2>1 DEF KeepInv, Locks, Runs, GoesOn
  <2>2. ASSUME NEW s, ~CanWrite(s) PROVE GoesOn(s)
    BY <2>1, <2>2 DEF CanWrite
  <2>3. ASSUME NEW s, ~CanRead(s) PROVE GoesOn(s)
    <3>1. PICK q \in Proc : Exclusive(q) /\ (Locks(q, s) \/ Waits(q, s))
      BY <2>3 DEF CanRead
    <3>2. CASE CanWrite(s)
      BY <2>1, <3>1, <3>2 DEF Waits, Free, GoesOn
    <3> QED
      BY <2>2, <3>2
  <2> QED
    BY <2>2, <2>3 DEF NoCircle, Free
<1> QED
  BY <1>1, KeepInvHolds, PTL
-----------------------------------------------------------------------------
(* With reused zids.                                                       *)

\* What takes a session out of the map that a handle still refers to: a
\* session_close on a handle of its zid, the destructor of another handle of its
\* zid, or an open that meets its zid in the map.
Closes(h) == \E p \in Proc, x \in Sess :
               /\ pc[p] = "idle" /\ call'[p].op = "close" /\ call'[p].handle = x
               /\ zid[x] = zid[h]
Outlived(h) == \E x \in Sess \ {h} : zid[x] = zid[h] /\ Dying(x)
Replaced(h) == OpenPolicy = "any" /\ \E s \in Sess : zid[s] = None /\ zid'[s] = zid[h]
SharesItsEnd(h) ==
  /\ zid[h] # None /\ map[zid[h]] = h /\ map'[zid[h]] # h
  /\ Referenced(h)
  => Closes(h) \/ Outlived(h) \/ Replaced(h)
EndsByItsZid == [][\A h \in Sess : SharesItsEnd(h)]_vars

\* Whatever zids are reused, a session a handle refers to leaves the map only by
\* what its own zid shares: handles of other zids never end it.
THEOREM OnlyItsZidEndsASession == Spec => EndsByItsZid
<1>1. ASSUME HandleInv, [Next]_vars, NEW h \in Sess,
             zid[h] # None, map[zid[h]] = h, map'[zid[h]] # h, Referenced(h)
      PROVE  Closes(h) \/ Outlived(h) \/ Replaced(h)
  <2>1. zid[h] \in Zid /\ map \in [Zid -> Sess \cup {None}] /\ map' # map /\ h # None
    BY <1>1, NoneAssumption DEF HandleInv, TypeInv, TypeOK
  <2>2. ASSUME NEW s \in Sess, NEW z \in Zid, session_open(s, z) PROVE Replaced(h)
    <3>1. /\ map' = [map EXCEPT ![z] = s] /\ zid' = [zid EXCEPT ![s] = z]
          /\ zid[s] = None /\ CanOpen(z)
      BY <2>2 DEF session_open
    <3>2. z = zid[h] /\ map[z] # None
      BY <1>1, <2>1, <3>1
    <3>3. OpenPolicy = "any"
      BY <1>1, <3>1, <3>2, ModeAssumption DEF CanOpen
    <3>4. zid'[s] = zid[h]
      BY <1>1, <3>1, <3>2 DEF HandleInv, TypeInv, TypeOK
    <3> QED
      BY <3>1, <3>3, <3>4 DEF Replaced
  <2>3. ASSUME NEW p \in Proc, NEW x \in Sess, DropSession(p, x) \/ DropNested(p, x)
        PROVE  Outlived(h)
    <3>1. Dying(x) /\ map' = [map EXCEPT ![zid[x]] = None]
      BY <2>3 DEF DropSession, DropNested, RemoveFromMap, Dying
    <3>2. zid[x] = zid[h]
      BY <1>1, <2>1, <3>1
    <3>3. x # h
      BY <1>1, <3>1 DEF HandleInv
    <3> QED
      BY <3>1, <3>2, <3>3 DEF Outlived
  <2>4. ASSUME NEW p \in Proc, NEW x \in Sess, session_close(p, x) PROVE Closes(h)
    <3>1. /\ pc[p] = "idle" /\ call'[p].op = "close" /\ call'[p].handle = x
          /\ map' = [map EXCEPT ![zid[x]] = None]
      BY <1>1, <2>4 DEF session_close, Enter, HandleInv, TypeInv, TypeOK
    <3>2. zid[x] = zid[h]
      BY <1>1, <2>1, <3>1
    <3> QED
      BY <3>1, <3>2 DEF Closes
  <2> QED
    BY <1>1, <2>1, <2>2, <2>3, <2>4, MapChanges
<1>2. HandleInv /\ [Next]_vars => \A h \in Sess : SharesItsEnd(h)
  BY <1>1 DEF SharesItsEnd
<1> QED
  BY <1>2, HandleInit, HandleStep, PTL DEF Spec, EndsByItsZid
==========================================================================
