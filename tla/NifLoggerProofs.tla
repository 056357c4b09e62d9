-------------------------- MODULE NifLoggerProofs --------------------------
(***************************************************************************)
(* Theorems about NifLogger, for any processes, actors, levels, origins    *)
(* and targets: its types, that a takeover strands no message, that        *)
(* messages come in order, none twice and none lost on the way to a living *)
(* process, that get_level is right while only inits set the level, and    *)
(* that the logger follows the restarts of the server.                     *)
(***************************************************************************)
EXTENDS NifLogger, TLAPS

\* TypeOK, and a level that is to be set is one.
TypeInv ==
  /\ TypeOK
  /\ \A x \in Actor \cup Pid : pc[x] = "level" => call[x].level \in Level

\* A process gets its thread when its only init returns, and the thread has a
\* message in hand only while it sends it.
Fresh(p) ==
  /\ p \notin started => thread[p] = "none"
  /\ WritesSender(p) => p \in started /\ thread[p] = "none"
  /\ thread[p] # "send" => hand[p] = <<>>

ThreadInv == TypeInv /\ NothingStranded /\ \A p \in Pid : Fresh(p)

\* A sequence of messages with those of each actor in order, up to the last
\* one it logged.
Sorted(s) == \A i, j \in DOMAIN s : i < j /\ s[i].by = s[j].by => s[i].n < s[j].n
Logged(s, l) == \A i \in DOMAIN s : s[i].n <= l[s[i].by]

OrderInv == ThreadInv /\ \A p \in Pid : Sorted(Journey(p)) /\ Logged(Journey(p), logged)
-----------------------------------------------------------------------------
LEMMA HeadTail ==
  ASSUME NEW S, NEW s \in Seq(S), s # <<>>
  PROVE  Head(s) \in S /\ Tail(s) \in Seq(S)
OBVIOUS

LEMMA SetCall ==
  ASSUME call \in [Actor \cup Pid -> Call], NEW x \in Actor \cup Pid
  PROVE  /\ \A lv \in Level : LET c == [call EXCEPT ![x].level = lv] IN
              /\ c \in [Actor \cup Pid -> Call] /\ c[x].level = lv
              /\ \A y \in Actor \cup Pid : y # x => c[y] = call[y]
         /\ \A o \in Origin : LET c == [call EXCEPT ![x].origin = o] IN
              /\ c \in [Actor \cup Pid -> Call]
              /\ \A y \in Actor \cup Pid : c[y].level = call[y].level
         /\ \A r \in Call : LET c == [call EXCEPT ![x] = r] IN
              /\ c \in [Actor \cup Pid -> Call]
              /\ \A y \in Actor \cup Pid : y # x => c[y] = call[y]
<1>1. call[x] \in Call
  OBVIOUS
<1>2. ASSUME NEW r \in Call
      PROVE  /\ [call EXCEPT ![x] = r] \in [Actor \cup Pid -> Call]
             /\ [call EXCEPT ![x] = r][x] = r
             /\ \A y \in Actor \cup Pid : y # x => [call EXCEPT ![x] = r][y] = call[y]
  OBVIOUS
<1>3. ASSUME NEW lv \in Level
      PROVE  [call[x] EXCEPT !.level = lv] \in Call /\ [call[x] EXCEPT !.level = lv].level = lv
  BY <1>1 DEF Call
<1>4. ASSUME NEW o \in Origin
      PROVE  [call[x] EXCEPT !.origin = o] \in Call /\ [call[x] EXCEPT !.origin = o].level = call[x].level
  BY <1>1 DEF Call
<1> QED
  BY <1>2, <1>3, <1>4

LEMMA InitTypes == Init => TypeInv
<1> SUFFICES ASSUME Init PROVE TypeInv
  OBVIOUS
<1>1. NoCall \in Call
  BY DEF NoCall, Call
<1>2. target \in SUBSET Origin /\ level \in Level
  BY LevelAssumption, TargetAssumption DEF Init
<1>3. \A x \in Actor \cup Pid : pc[x] # "level"
  BY DEF Init
<1>4. <<>> \in Seq(Message)
  OBVIOUS
<1>5. call \in [Actor \cup Pid -> Call]
  BY <1>1 DEF Init
<1>6. chan \in [Pid -> Seq(Message)] /\ hand \in [Pid -> Seq(Message)] /\ got \in [Pid -> Seq(Message)]
  BY <1>4 DEF Init
<1> QED
  BY <1>2, <1>3, <1>5, <1>6 DEF Init, TypeInv, TypeOK

LEMMA TypeStep == TypeInv /\ [Next]_vars => TypeInv'
<1> SUFFICES ASSUME TypeInv, [Next]_vars PROVE TypeInv'
  OBVIOUS
<1> USE LevelAssumption, TargetAssumption, NamesAssumption
    DEF TypeInv, TypeOK, Go, inner, forwarding
<1>1. ASSUME NEW a \in Actor, nif_logger_enable(a) \/ nif_logger_disable(a) \/ nif_logger_set_target(a)
      PROVE  TypeInv'
  BY <1>1 DEF nif_logger_enable, nif_logger_disable, nif_logger_set_target
<1>2. ASSUME NEW a \in Setter, NEW lv \in Level, nif_logger_set_level(a, lv) PROVE TypeInv'
  BY <1>2, SetCall DEF nif_logger_set_level
<1>3. ASSUME NEW a \in Actor, NEW lv \in Level, NEW o \in Origin, log(a, lv, o) PROVE TypeInv'
  BY <1>3, SetCall DEF log
<1>4. NoCall \in Call
  BY DEF NoCall, Call
<1>5. ASSUME NEW a \in Actor, LockInner(a) \/ Enabled(a) PROVE TypeInv'
  <2>1. pc' \in [Actor \cup Pid -> {"idle", "log", "inner", "send", "level", "max"}]
        /\ \A x \in Actor \cup Pid : pc'[x] = "level" => pc[x] = "level" /\ x # a
    BY <1>5 DEF LockInner, Enabled
  <2>2. call' \in [Actor \cup Pid -> Call] /\ \A x \in Actor \cup Pid : x # a => call'[x] = call[x]
    <3>1. CASE call' = call
      BY <3>1
    <3>2. CASE call' = [call EXCEPT ![a] = NoCall]
      <4>1. call \in [Actor \cup Pid -> Call] /\ a \in Actor \cup Pid
        OBVIOUS
      <4> QED
        BY ONLY <1>4, <3>2, <4>1, SetCall
    <3>3. CASE LockInner(a)
      BY <3>1, <3>3 DEF LockInner
    <3>4. CASE Enabled(a)
      BY <3>1, <3>2, <3>4 DEF Enabled
    <3> QED
      BY <1>5, <3>3, <3>4
  <2> QED
    BY <1>5, <2>1, <2>2 DEF LockInner, Enabled
<1>6. ASSUME NEW a \in Actor, nif_logger_send(a) PROVE TypeInv'
  <2>1. [by |-> a, n |-> logged[a] + 1] \in Message
    BY DEF Message
  <2>2. chan' \in [Pid -> Seq(Message)]
    <3>1. ASSUME sender # None PROVE sender \in Pid /\ chan[sender] \in Seq(Message)
      BY <3>1
    <3>2. \/ chan' = chan
          \/ sender # None /\ chan' = [chan EXCEPT ![sender] = Append(@, [by |-> a, n |-> logged[a] + 1])]
      BY <1>6 DEF nif_logger_send
    <3>3. sender # None =>
            [chan EXCEPT ![sender] = Append(@, [by |-> a, n |-> logged[a] + 1])] \in [Pid -> Seq(Message)]
      BY <2>1, <3>1
    <3> QED
      BY <3>2, <3>3
  <2>3. call' = [call EXCEPT ![a] = NoCall] /\ pc' = [pc EXCEPT ![a] = "idle"]
    BY <1>6 DEF nif_logger_send
  <2>4. UNCHANGED <<inner, max_level, sender, forwarding, started, alive>>
        /\ logged' = [logged EXCEPT ![a] = @ + 1]
    BY <1>6 DEF nif_logger_send
  <2> QED
    BY <1>4, <2>2, <2>3, <2>4
<1>7. ASSUME NEW x \in Actor \cup Pid, SetLevel(x) PROVE TypeInv'
  BY <1>7 DEF SetLevel
<1>8. ASSUME NEW x \in Actor \cup Pid, SetMaxLevel(x) PROVE TypeInv'
  BY <1>4, <1>8 DEF SetMaxLevel, Call
<1>9. ASSUME NEW p \in Pid, NEW lv \in Level, nif_logger_init(p, lv) PROVE TypeInv'
  <2>1. /\ call' = [call EXCEPT ![p].level = lv] /\ pc' = [pc EXCEPT ![p] = "level"]
        /\ sender' = p /\ started' = started \cup {p} /\ alive' = alive \cup {p}
        /\ UNCHANGED <<inner, max_level, chan, forwarding, logged>>
    BY <1>9 DEF nif_logger_init, Start
  <2>2. /\ call' \in [Actor \cup Pid -> Call] /\ call'[p].level = lv
        /\ \A y \in Actor \cup Pid : y # p => call'[y] = call[y]
    BY <2>1, SetCall
  <2> QED
    BY <2>1, <2>2
<1>10. ASSUME NEW p \in Pid, InitReturns(p) PROVE TypeInv'
  BY <1>4, <1>10 DEF InitReturns, Call
<1>11. ASSUME NEW p \in Pid, Crash(p) PROVE TypeInv'
  BY <1>11 DEF Crash
<1>12. ASSUME NEW p \in Pid, Check(p) \/ Timeout(p) \/ Disconnected(p) PROVE TypeInv'
  BY <1>12 DEF Check, Timeout, Disconnected
<1>13. ASSUME NEW p \in Pid, Receive(p) PROVE TypeInv'
  <2>1. Head(chan[p]) \in Message /\ Tail(chan[p]) \in Seq(Message)
    BY <1>13, HeadTail DEF Receive
  <2> QED
    BY <1>13, <2>1 DEF Receive
<1>14. ASSUME NEW p \in Pid, Send(p) PROVE TypeInv'
  <2>1. got[p] \o hand[p] \in Seq(Message)
    OBVIOUS
  <2> QED
    BY <1>14, <2>1 DEF Send
<1>15. ASSUME UNCHANGED vars PROVE TypeInv'
  BY <1>15 DEF vars
<1> QED
  BY <1>1, <1>2, <1>3, <1>5, <1>6, <1>7, <1>8, <1>9, <1>10, <1>11, <1>12, <1>13, <1>14, <1>15
  DEF Next, Running, Initialising, Forward

\* Every variable keeps its type.
THEOREM LoggerTypeCorrect == Spec => []TypeOK
<1>1. TypeInv => TypeOK
  BY DEF TypeInv
<1> QED
  BY <1>1, InitTypes, TypeStep, PTL DEF Spec
-----------------------------------------------------------------------------
LEMMA InitThreads == Init => ThreadInv
<1> SUFFICES ASSUME Init PROVE ThreadInv
  OBVIOUS
<1>1. TypeInv
  BY InitTypes
<1> QED
  BY <1>1 DEF Init, ThreadInv, NothingStranded, Fresh, WritesSender

\* The steps that leave processes, threads, channels and the sender alone.
Aside == UNCHANGED <<sender, chan, thread, hand, alive, started>>

LEMMA ThreadStep == ThreadInv /\ [Next]_vars => ThreadInv'
<1> SUFFICES ASSUME ThreadInv, [Next]_vars PROVE ThreadInv'
  OBVIOUS
<1>1. TypeInv' /\ TypeOK
  BY TypeStep DEF ThreadInv, TypeInv
<1> SUFFICES NothingStranded' /\ \A p \in Pid : Fresh(p)'
  BY <1>1 DEF ThreadInv
<1> USE NamesAssumption DEF TypeOK, ThreadInv, NothingStranded, Fresh, WritesSender, Go, inner, forwarding
<1>2. ASSUME Aside, \A p \in Pid : WritesSender(p)' => WritesSender(p)
      PROVE  NothingStranded' /\ \A p \in Pid : Fresh(p)'
  BY <1>1, <1>2 DEF Aside
<1>3. ASSUME NEW a \in Actor,
             \/ nif_logger_enable(a) \/ nif_logger_disable(a) \/ nif_logger_set_target(a)
             \/ LockInner(a) \/ Enabled(a) \/ SetMaxLevel(a)
             \/ \E lv \in Level : nif_logger_set_level(a, lv)
             \/ \E lv \in Level, o \in Origin : log(a, lv, o)
      PROVE  Aside /\ \A p \in Pid : WritesSender(p)' => WritesSender(p)
  BY <1>1, <1>3 DEF Aside, nif_logger_enable, nif_logger_disable, nif_logger_set_target, LockInner,
     Enabled, SetMaxLevel, nif_logger_set_level, log
<1>4. ASSUME NEW x \in Actor \cup Pid, SetLevel(x)
      PROVE  Aside /\ \A p \in Pid : WritesSender(p)' => WritesSender(p)
  BY <1>1, <1>4 DEF Aside, SetLevel
<1>5. ASSUME NEW a \in Actor, nif_logger_send(a)
      PROVE  NothingStranded' /\ \A p \in Pid : Fresh(p)'
  BY <1>1, <1>5 DEF nif_logger_send
<1>6. ASSUME NEW q \in Pid, NEW lv \in Level, nif_logger_init(q, lv)
      PROVE  NothingStranded' /\ \A p \in Pid : Fresh(p)'
  BY <1>1, <1>6 DEF nif_logger_init, Start
<1>7. ASSUME NEW q \in Pid, InitReturns(q)
      PROVE  NothingStranded' /\ \A p \in Pid : Fresh(p)'
  <2>1. thread[q] = "none" /\ q \in started
    BY <1>7 DEF InitReturns
  <2> QED
    BY <1>1, <1>7, <2>1 DEF InitReturns
<1>8. ASSUME NEW q \in Pid, Crash(q)
      PROVE  NothingStranded' /\ \A p \in Pid : Fresh(p)'
  BY <1>1, <1>8 DEF Crash
<1>9. ASSUME NEW q \in Pid, Check(q) \/ Timeout(q) \/ Disconnected(q)
      PROVE  NothingStranded' /\ \A p \in Pid : Fresh(p)'
  <2>1. CASE Check(q)
    BY <1>1, <2>1 DEF Check
  <2>2. CASE Timeout(q)
    BY <1>1, <2>2 DEF Timeout
  <2>3. CASE Disconnected(q)
    BY <1>1, <2>3 DEF Disconnected
  <2> QED
    BY <1>9, <2>1, <2>2, <2>3
<1>10. ASSUME NEW q \in Pid, Receive(q)
       PROVE  NothingStranded' /\ \A p \in Pid : Fresh(p)'
  BY <1>1, <1>10 DEF Receive
<1>11. ASSUME NEW q \in Pid, Send(q)
       PROVE  NothingStranded' /\ \A p \in Pid : Fresh(p)'
  BY <1>1, <1>11 DEF Send
<1>12. ASSUME UNCHANGED vars
       PROVE  NothingStranded' /\ \A p \in Pid : Fresh(p)'
  BY <1>1, <1>12 DEF vars
<1> QED
  BY <1>2, <1>3, <1>4, <1>5, <1>6, <1>7, <1>8, <1>9, <1>10, <1>11, <1>12
  DEF Next, Running, Initialising, Forward

\* The thread of a living process ends only when nothing is left in its
\* channel and nothing can come: a second nif_logger_init takes no message
\* away from the process of the first.
THEOREM TakeoverStrandsNothing == Spec => []NothingStranded
<1>1. ThreadInv => NothingStranded
  BY DEF ThreadInv
<1> QED
  BY <1>1, InitThreads, ThreadStep, PTL DEF Spec
-----------------------------------------------------------------------------
(* What sending, receiving and forwarding do to a journey.                 *)

LEMMA Appended ==
  ASSUME NEW g \in Seq(Message), NEW h \in Seq(Message), NEW c \in Seq(Message), NEW m \in Message
  PROVE  g \o h \o Append(c, m) = Append(g \o h \o c, m)
OBVIOUS

LEMMA Taken ==
  ASSUME NEW g \in Seq(Message), NEW c \in Seq(Message), c # <<>>
  PROVE  g \o <<Head(c)>> \o Tail(c) = g \o <<>> \o c
OBVIOUS

LEMMA HandedOn ==
  ASSUME NEW g \in Seq(Message), NEW h \in Seq(Message), NEW c \in Seq(Message)
  PROVE  (g \o h) \o <<>> \o c = g \o h \o c
OBVIOUS

LEMMA Dropped ==
  ASSUME NEW g \in Seq(Message), NEW h \in Seq(Message), NEW c \in Seq(Message), NEW l \in [Actor -> Nat],
         Sorted(g \o h \o c), Logged(g \o h \o c, l)
  PROVE  Sorted(g \o <<>> \o c) /\ Logged(g \o <<>> \o c, l)
<1> DEFINE s == g \o h \o c
           t == g \o <<>> \o c
           At(i) == IF i <= Len(g) THEN i ELSE i + Len(h)
<1>1. ASSUME NEW i \in DOMAIN t
      PROVE  i \in Nat /\ At(i) \in DOMAIN s /\ t[i] = s[At(i)]
  OBVIOUS
<1>2. \A i, j \in DOMAIN t : i < j => At(i) < At(j)
  BY <1>1
<1> QED
  BY <1>1, <1>2 DEF Sorted, Logged

LEMMA Extended ==
  ASSUME NEW s \in Seq(Message), NEW l \in [Actor -> Nat], NEW a \in Actor, Sorted(s), Logged(s, l)
  PROVE  LET t == Append(s, [by |-> a, n |-> l[a] + 1])
             k == [l EXCEPT ![a] = @ + 1]
         IN  Sorted(t) /\ Logged(t, k) /\ Logged(s, k)
<1> DEFINE m == [by |-> a, n |-> l[a] + 1]
           t == Append(s, m)
           k == [l EXCEPT ![a] = @ + 1]
<1>1. \A i \in DOMAIN t : /\ i \in Nat
                         /\ \/ i \in DOMAIN s /\ t[i] = s[i]
                            \/ i = Len(s) + 1 /\ t[i] = m
  <2>1. m \in Message
    BY DEF Message
  <2>2. DOMAIN s = 1 .. Len(s) /\ DOMAIN t = 1 .. Len(s) + 1
    BY <2>1
  <2>3. \A i \in 1 .. Len(s) : t[i] = s[i]
    BY <2>1
  <2>4. t[Len(s) + 1] = m
    BY <2>1
  <2>5. Len(s) \in Nat
    OBVIOUS
  <2> HIDE DEF t, m
  <2> QED
    BY <2>2, <2>3, <2>4, <2>5
<1>2. \A i \in DOMAIN s : i <= Len(s) /\ s[i].by \in Actor /\ s[i].n \in Nat /\ s[i].n <= l[s[i].by]
  <2>1. \A i \in DOMAIN s : i <= Len(s) /\ s[i] \in Message
    OBVIOUS
  <2> QED
    BY <2>1 DEF Logged, Message
<1>3. Sorted(t)
  BY <1>1, <1>2 DEF Sorted
<1>4. Logged(t, k) /\ Logged(s, k)
  BY <1>1, <1>2 DEF Logged
<1> QED
  BY <1>3, <1>4

LEMMA JourneyType ==
  ASSUME TypeOK, NEW p \in Pid
  PROVE  /\ got[p] \in Seq(Message) /\ hand[p] \in Seq(Message) /\ chan[p] \in Seq(Message)
         /\ Journey(p) \in Seq(Message)
<1>1. got[p] \in Seq(Message) /\ hand[p] \in Seq(Message) /\ chan[p] \in Seq(Message)
  BY DEF TypeOK
<1> QED
  BY <1>1 DEF Journey

LEMMA InitOrder == Init => OrderInv
<1> SUFFICES ASSUME Init PROVE OrderInv
  OBVIOUS
<1>1. ThreadInv
  BY InitThreads
<1>2. \A p \in Pid : Journey(p) = <<>>
  <2>1. <<>> \o <<>> \o <<>> = <<>>
    OBVIOUS
  <2> QED
    BY <2>1 DEF Init, Journey
<1> QED
  BY <1>1, <1>2 DEF OrderInv, Sorted, Logged

LEMMA OrderStep == OrderInv /\ [Next]_vars => OrderInv'
<1> SUFFICES ASSUME OrderInv, [Next]_vars PROVE OrderInv'
  OBVIOUS
<1>1. ThreadInv' /\ ThreadInv /\ TypeOK
  BY ThreadStep DEF OrderInv, ThreadInv, TypeInv
<1> SUFFICES ASSUME NEW p \in Pid PROVE Sorted(Journey(p)') /\ Logged(Journey(p)', logged')
  BY <1>1 DEF OrderInv, Sorted, Logged
<1>2. Sorted(Journey(p)) /\ Logged(Journey(p), logged) /\ logged \in [Actor -> Nat]
  BY <1>1 DEF OrderInv, TypeOK
<1>3. ASSUME Journey(p)' = Journey(p), logged' = logged
      PROVE  Sorted(Journey(p)') /\ Logged(Journey(p)', logged')
  BY <1>2, <1>3
<1>4. ASSUME UNCHANGED <<got, hand, chan, logged>>
      PROVE  Sorted(Journey(p)') /\ Logged(Journey(p)', logged')
  BY <1>3, <1>4 DEF Journey
<1>5. ASSUME NEW a \in Actor, nif_logger_send(a)
      PROVE  Sorted(Journey(p)') /\ Logged(Journey(p)', logged')
  <2> DEFINE m == [by |-> a, n |-> logged[a] + 1]
  <2>1. m \in Message /\ logged' = [logged EXCEPT ![a] = @ + 1]
    BY <1>2, <1>5 DEF nif_logger_send, Message
  <2>2. chan'[p] = chan[p] \/ chan'[p] = Append(chan[p], m)
    BY <1>1, <1>5 DEF nif_logger_send, TypeOK
  <2>3. got' = got /\ hand' = hand
    BY <1>5 DEF nif_logger_send, forwarding
  <2>4. Journey(p)' = Journey(p) \/ Journey(p)' = Append(Journey(p), m)
    <3>1. got[p] \in Seq(Message) /\ hand[p] \in Seq(Message) /\ chan[p] \in Seq(Message)
      BY <1>1, JourneyType
    <3>2. got[p] \o hand[p] \o Append(chan[p], m) = Append(got[p] \o hand[p] \o chan[p], m)
      BY <2>1, <3>1, Appended
    <3> QED
      BY <2>2, <2>3, <3>2 DEF Journey
  <2>5. Journey(p) \in Seq(Message)
    BY <1>1, JourneyType
  <2>6. /\ Sorted(Append(Journey(p), m)) /\ Logged(Append(Journey(p), m), logged')
        /\ Logged(Journey(p), logged')
    BY <1>2, <2>1, <2>5, Extended
  <2> HIDE DEF m
  <2> QED
    BY <1>2, <2>4, <2>6
<1>6. ASSUME NEW q \in Pid, Receive(q)
      PROVE  Sorted(Journey(p)') /\ Logged(Journey(p)', logged')
  <2>1. CASE p = q
    <3>1. hand[p] = <<>> /\ chan[p] # <<>>
      BY <1>1, <1>6, <2>1 DEF Receive, ThreadInv, Fresh
    <3>2. hand'[p] = <<Head(chan[p])>> /\ chan'[p] = Tail(chan[p]) /\ got' = got /\ logged' = logged
      BY <1>1, <1>6, <2>1 DEF Receive, TypeOK
    <3>3. Journey(p)' = Journey(p)
      BY <1>1, <3>1, <3>2, Taken, JourneyType DEF Journey
    <3> QED
      BY <1>3, <3>2, <3>3
  <2>2. CASE p # q
    <3>1. hand'[p] = hand[p] /\ chan'[p] = chan[p] /\ got' = got /\ logged' = logged
      BY <1>1, <1>6, <2>2 DEF Receive, TypeOK
    <3> QED
      BY <1>3, <3>1 DEF Journey
  <2> QED
    BY <2>1, <2>2
<1>7. ASSUME NEW q \in Pid, Send(q)
      PROVE  Sorted(Journey(p)') /\ Logged(Journey(p)', logged')
  <2>0. chan' = chan /\ logged' = logged
    BY <1>7 DEF Send
  <2>1. CASE p = q /\ p \in alive
    <3>1. hand'[p] = <<>> /\ got'[p] = got[p] \o hand[p]
      BY <1>1, <1>7, <2>1 DEF Send, TypeOK
    <3>2. Journey(p)' = Journey(p)
      BY <1>1, <2>0, <3>1, HandedOn, JourneyType DEF Journey
    <3> QED
      BY <1>3, <2>0, <3>2
  <2>2. CASE p = q /\ p \notin alive
    <3>1. hand'[p] = <<>> /\ got'[p] = got[p]
      BY <1>1, <1>7, <2>2 DEF Send, TypeOK
    <3> QED
      BY <1>1, <1>2, <2>0, <3>1, Dropped, JourneyType DEF Journey
  <2>3. CASE p # q
    <3>1. hand'[p] = hand[p] /\ got'[p] = got[p]
      BY <1>1, <1>7, <2>3 DEF Send, TypeOK
    <3> QED
      BY <1>3, <2>0, <3>1 DEF Journey
  <2> QED
    BY <2>1, <2>2, <2>3
<1> QED
  BY <1>4, <1>5, <1>6, <1>7
  DEF Next, vars, forwarding, Running, Initialising, Forward, nif_logger_enable, nif_logger_disable,
      nif_logger_set_target, nif_logger_set_level, SetLevel, SetMaxLevel, log, LockInner, Enabled,
      nif_logger_init, Start, InitReturns, Crash, Check, Timeout, Disconnected

\* However often the logger is taken over, crashes and is started again: no
\* message comes twice and none overtakes an earlier one of its actor.
THEOREM MessagesComeInOrder == Spec => []InOrder
<1>1. OrderInv => InOrder
  <2> SUFFICES ASSUME OrderInv, NEW p \in Pid PROVE
        \A i, j \in 1 .. Len(Journey(p)) :
          i < j /\ Journey(p)[i].by = Journey(p)[j].by => Journey(p)[i].n < Journey(p)[j].n
    BY DEF InOrder
  <2>1. DOMAIN Journey(p) = 1 .. Len(Journey(p))
    BY JourneyType DEF OrderInv, ThreadInv, TypeInv
  <2> QED
    BY <2>1 DEF OrderInv, Sorted
<1> QED
  BY <1>1, InitOrder, OrderStep, PTL DEF Spec
-----------------------------------------------------------------------------
(* No message is lost on its way.                                          *)

\* What is on its way to a living process arrives: its journey changes only by
\* a message an actor logs, at the end; and one that is logged while the
\* logger sends to a living process sets off to it.
JourneysGoOn ==
  /\ \A p \in alive :
       \/ Journey(p)' = Journey(p)
       \/ \E a \in Actor : Journey(p)' = Append(Journey(p), [by |-> a, n |-> logged'[a]])
  /\ \A a \in Actor, p \in alive :
       logged'[a] # logged[a] /\ sender = p
       => Journey(p)' = Append(Journey(p), [by |-> a, n |-> logged'[a]])
MessagesArrive == [][JourneysGoOn]_vars

\* A step that touches no journey and logs nothing.
LEMMA JourneyStutters ==
  ASSUME UNCHANGED <<got, hand, chan, logged>>
  PROVE  JourneysGoOn
BY DEF JourneysGoOn, Journey

LEMMA SendGoesOn ==
  ASSUME ThreadInv, NEW a \in Actor, nif_logger_send(a)
  PROVE  JourneysGoOn
<1> DEFINE m == [by |-> a, n |-> logged[a] + 1]
<1>1. /\ TypeOK /\ None \notin Pid /\ got' = got /\ hand' = hand
      /\ logged' = [logged EXCEPT ![a] = @ + 1]
      /\ IF sender # None /\ thread[sender] # "ended"
         THEN chan' = [chan EXCEPT ![sender] = Append(@, m)]
         ELSE chan' = chan
  BY NamesAssumption DEF ThreadInv, TypeInv, nif_logger_send, forwarding
<1>2. m \in Message /\ logged'[a] = logged[a] + 1
  BY <1>1 DEF TypeOK, Message
<1> HIDE DEF m
<1>3. ASSUME NEW p \in Pid, chan'[p] = Append(chan[p], m)
      PROVE  Journey(p)' = Append(Journey(p), m)
  <2>1. got[p] \in Seq(Message) /\ hand[p] \in Seq(Message) /\ chan[p] \in Seq(Message)
    BY <1>1, JourneyType
  <2>2. got[p] \o hand[p] \o Append(chan[p], m) = Append(got[p] \o hand[p] \o chan[p], m)
    BY <1>2, <2>1, Appended
  <2> QED
    BY <1>1, <1>3, <2>2 DEF Journey
<1>4. ASSUME NEW p \in Pid, chan'[p] = chan[p] PROVE Journey(p)' = Journey(p)
  BY <1>1, <1>4 DEF Journey
<1>5. ASSUME NEW p \in Pid PROVE chan'[p] = chan[p] \/ chan'[p] = Append(chan[p], m)
  BY <1>1 DEF TypeOK
<1>6. ASSUME NEW p \in alive
      PROVE  /\ p \in Pid
             /\ sender = p => chan'[p] = Append(chan[p], m)
  <2>1. p \in Pid /\ p # None
    BY <1>1, <1>6 DEF TypeOK
  <2>2. sender = p => thread[p] # "ended"
    BY <1>6 DEF ThreadInv, NothingStranded
  <2> QED
    BY <1>1, <2>1, <2>2 DEF TypeOK
<1>7. \A b \in Actor : logged'[b] # logged[b] => b = a
  BY <1>1 DEF TypeOK
<1>8. m = [by |-> a, n |-> logged'[a]]
  BY <1>2 DEF m
<1> QED
  BY <1>3, <1>4, <1>5, <1>6, <1>7, <1>8 DEF JourneysGoOn

LEMMA ForwardGoesOn ==
  ASSUME ThreadInv, NEW q \in Pid, Receive(q) \/ Send(q)
  PROVE  JourneysGoOn
<1>1. TypeOK /\ alive \subseteq Pid /\ logged' = logged
  BY DEF ThreadInv, TypeInv, TypeOK, Receive, Send
<1>2. ASSUME NEW p \in Pid, p # q PROVE Journey(p)' = Journey(p)
  BY <1>1, <1>2 DEF Receive, Send, Journey, TypeOK
<1>3. CASE Receive(q)
  <2>1. hand[q] = <<>> /\ chan[q] # <<>>
    BY <1>3 DEF Receive, ThreadInv, Fresh
  <2>2. hand'[q] = <<Head(chan[q])>> /\ chan'[q] = Tail(chan[q]) /\ got' = got
    BY <1>1, <1>3 DEF Receive, TypeOK
  <2>3. Journey(q)' = Journey(q)
    BY <1>1, <2>1, <2>2, Taken, JourneyType DEF Journey
  <2> QED
    BY <1>1, <1>2, <2>3 DEF JourneysGoOn
<1>4. CASE Send(q)
  <2>1. ASSUME q \in alive PROVE Journey(q)' = Journey(q)
    <3>1. hand'[q] = <<>> /\ got'[q] = got[q] \o hand[q] /\ chan' = chan
      BY <1>1, <1>4, <2>1 DEF Send, TypeOK
    <3> QED
      BY <1>1, <3>1, HandedOn, JourneyType DEF Journey
  <2> QED
    BY <1>1, <1>2, <2>1 DEF JourneysGoOn
<1> QED
  BY <1>3, <1>4

\* No message is lost between a log call and a living process: its channel,
\* its forwarding thread and a takeover of NIF_LOG_SENDER keep every one.
THEOREM NoMessageLost == Spec => MessagesArrive
<1>1. ASSUME ThreadInv, [Next]_vars PROVE JourneysGoOn
  BY <1>1, JourneyStutters, SendGoesOn, ForwardGoesOn
  DEF Next, vars, forwarding, Running, Initialising, Forward, nif_logger_enable, nif_logger_disable,
      nif_logger_set_target, nif_logger_set_level, SetLevel, SetMaxLevel, log, LockInner, Enabled,
      nif_logger_init, Start, InitReturns, Crash, Check, Timeout, Disconnected
<1> QED
  BY <1>1, InitThreads, ThreadStep, PTL DEF Spec, MessagesArrive
-----------------------------------------------------------------------------
(* The level.                                                              *)

\* Only inits set the level, one at a time: each writes NIF_LOGGER's and then
\* the log crate's with NIF_LOG_SENDER locked.
LevelInv ==
  /\ TypeInv /\ GetLevelTellsTheTruth
  /\ \A a \in Actor : pc[a] \notin {"level", "max"}
  /\ \A p, q \in Pid : WritesSender(p) /\ WritesSender(q) => p = q
  /\ \A p \in Pid : pc[p] = "max" => level = call[p].level

LEMMA LevelStep ==
  ASSUME Setter = {}, LevelInv, [Next]_vars
  PROVE  LevelInv'
<1>1. TypeInv' /\ TypeOK /\ Actor \cap Pid = {}
  BY TypeStep, NamesAssumption DEF LevelInv, TypeInv
<1> USE DEF GetLevelTellsTheTruth, WritesSender, Go, inner
<1>2. ASSUME UNCHANGED <<level, max_level, sender>>,
             \A x \in Actor \cup Pid : (pc'[x] \in {"level", "max"} \/ pc[x] \in {"level", "max"})
                => pc'[x] = pc[x] /\ call'[x] = call[x]
      PROVE  LevelInv'
  <2>1. \A p \in Pid : pc'[p] = "max" => level' = call'[p].level
    BY <1>2 DEF LevelInv
  <2>2. \A p, q \in Pid : pc'[p] \in {"level", "max"} /\ pc'[q] \in {"level", "max"} => p = q
    BY <1>2 DEF LevelInv
  <2>3. GetLevelTellsTheTruth'
    BY <1>2 DEF LevelInv
  <2> QED
    BY <1>1, <1>2, <2>1, <2>2, <2>3 DEF LevelInv
<1>3. ASSUME NEW a \in Actor,
             \/ nif_logger_enable(a) \/ nif_logger_disable(a) \/ nif_logger_set_target(a)
             \/ LockInner(a) \/ Enabled(a) \/ nif_logger_send(a)
             \/ \E lv \in Level, o \in Origin : log(a, lv, o)
      PROVE  LevelInv'
  <2>1. pc[a] \notin {"level", "max"} /\ UNCHANGED <<level, max_level, sender>>
    BY <1>3 DEF LevelInv, nif_logger_enable, nif_logger_disable, nif_logger_set_target, LockInner,
       Enabled, nif_logger_send, log
  <2>2. \A x \in Actor \cup Pid : x # a => pc'[x] = pc[x] /\ call'[x] = call[x]
    BY <1>1, <1>3 DEF TypeOK, nif_logger_enable, nif_logger_disable, nif_logger_set_target, LockInner,
       Enabled, nif_logger_send, log
  <2>3. pc'[a] \notin {"level", "max"}
    BY <1>1, <1>3, <2>1 DEF TypeOK, nif_logger_enable, nif_logger_disable, nif_logger_set_target,
       LockInner, Enabled, nif_logger_send, log
  <2> QED
    BY <1>2, <2>1, <2>2, <2>3
<1>4. ASSUME NEW a \in Actor, SetLevel(a) \/ SetMaxLevel(a) PROVE FALSE
  BY <1>4 DEF LevelInv, SetLevel, SetMaxLevel
<1>5. ASSUME NEW p \in Pid, NEW lv \in Level, nif_logger_init(p, lv) PROVE LevelInv'
  <2>1. /\ \A q \in Pid : ~WritesSender(q)
        /\ pc' = [pc EXCEPT ![p] = "level"] /\ UNCHANGED <<level, max_level>>
    BY <1>5 DEF nif_logger_init, Start, SenderFree
  <2>2. /\ pc'[p] = "level"
        /\ \A x \in Actor \cup Pid : x # p => pc'[x] = pc[x]
    BY <1>1, <2>1 DEF TypeOK
  <2> QED
    BY <1>1, <2>1, <2>2 DEF LevelInv
<1>6. ASSUME NEW p \in Pid, SetLevel(p) PROVE LevelInv'
  <2>1. /\ pc[p] = "level" /\ pc'[p] = "max" /\ call' = call /\ level' = call[p].level
        /\ \A x \in Actor \cup Pid : x # p => pc'[x] = pc[x]
    BY <1>1, <1>6 DEF SetLevel, TypeOK
  <2> QED
    BY <1>1, <2>1 DEF LevelInv
<1>7. ASSUME NEW p \in Pid, InitReturns(p) PROVE LevelInv'
  <2>1. /\ pc[p] = "max" /\ pc'[p] = "idle" /\ max_level' = call[p].level /\ level' = level
        /\ \A x \in Actor \cup Pid : x # p => pc'[x] = pc[x] /\ call'[x] = call[x]
    BY <1>1, <1>7 DEF InitReturns, TypeOK
  <2>2. \A q \in Pid : pc'[q] \notin {"level", "max"}
    BY <2>1 DEF LevelInv
  <2>3. \A a \in Actor : pc'[a] \notin {"level", "max"}
    BY <1>1, <2>1 DEF LevelInv
  <2> QED
    BY <1>1, <2>1, <2>2, <2>3 DEF LevelInv
<1>8. ASSUME NEW p \in Pid, Crash(p) \/ Forward(p) PROVE LevelInv'
  BY <1>2, <1>8 DEF Crash, Forward, Check, Receive, Timeout, Disconnected, Send
<1>9. CASE UNCHANGED vars
  BY <1>2, <1>9 DEF vars
<1> QED
  BY <1>3, <1>4, <1>5, <1>6, <1>7, <1>8, <1>9 DEF Next, Running, Initialising

\* As long as nobody calls nif_logger_set_level, get_level answers what the log
\* crate goes by: nif_logger_init writes both levels with NIF_LOG_SENDER locked.
THEOREM InitsSetBothLevels == Setter = {} => (Spec => []GetLevelTellsTheTruth)
<1> SUFFICES ASSUME Setter = {} PROVE Spec => []GetLevelTellsTheTruth
  OBVIOUS
<1>1. Init => LevelInv
  BY InitTypes, NamesAssumption DEF Init, LevelInv, GetLevelTellsTheTruth, WritesSender
<1>2. LevelInv /\ [Next]_vars => LevelInv'
  BY LevelStep
<1>3. LevelInv => GetLevelTellsTheTruth
  BY DEF LevelInv
<1> QED
  BY <1>1, <1>2, <1>3, PTL DEF Spec
-----------------------------------------------------------------------------
(* What Reconnects rests on.                                               *)

\* While the logger sends to a dead server there is no living one it has
\* missed: the next the supervisor starts is the one it comes to send to.
NoRestartMissed == sender \in Server \ alive => Server \cap alive = {}

\* One server lives at a time, and the logger sends to the last one, unless
\* another process called nif_logger_init since.
ServerInv ==
  /\ \A p, q \in Server \cap alive : p = q
  /\ sender \in Server => Server \cap alive \subseteq {sender}

LEMMA ServerStep == ServerInv /\ [Next]_vars => ServerInv'
<1> SUFFICES ASSUME ServerInv, [Next]_vars PROVE ServerInv'
  OBVIOUS
<1>1. ASSUME NEW p \in Pid, NEW lv \in Level, nif_logger_init(p, lv) PROVE ServerInv'
  <2>1. /\ alive' = alive \cup {p} /\ sender' = p
        /\ p \in Server => Server \cap alive = {}
    BY <1>1 DEF nif_logger_init, Start
  <2> QED
    BY <2>1 DEF ServerInv
<1>2. CASE sender' = sender /\ alive' \subseteq alive
  BY <1>2 DEF ServerInv
<1>3. ASSUME NEW p \in Pid, Crash(p) PROVE sender' = sender /\ alive' \subseteq alive
  BY <1>3 DEF Crash
<1>4. ASSUME NEW p \in Pid, Initialising(p) \/ Forward(p) PROVE UNCHANGED <<sender, alive>>
  BY <1>4 DEF Initialising, SetLevel, InitReturns, Forward, Check, Receive, Timeout,
     Disconnected, Send
<1>5. ASSUME NEW a \in Actor, Running(a) PROVE UNCHANGED <<sender, alive>>
  BY <1>5 DEF Running, LockInner, Enabled, nif_logger_send, SetLevel, SetMaxLevel
<1> QED
  BY <1>1, <1>2, <1>3, <1>4, <1>5
     DEF Next, nif_logger_enable, nif_logger_disable, nif_logger_set_target,
         nif_logger_set_level, log, vars

\* Whenever servers die and are started again, during an init or a send, and
\* whichever other processes take the logger over meanwhile: the logger never
\* goes on sending to a dead server while a living one waits.
THEOREM LoggerFollowsRestarts == Spec => []NoRestartMissed
<1>1. Init => ServerInv
  BY DEF Init, ServerInv
<1>2. ServerInv => NoRestartMissed
  BY DEF ServerInv, NoRestartMissed
<1> QED
  BY <1>1, <1>2, ServerStep, PTL DEF Spec
=============================================================================
