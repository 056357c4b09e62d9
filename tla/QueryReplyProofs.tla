------------------------ MODULE QueryReplyProofs ------------------------
(***************************************************************************)
(* Safety of QueryReply, for any number of queries, callers and replies:   *)
(* its types, that ResponseFinal is sent once and last, what finding the   *)
(* query gone means, that gets are complete, that ResponseFinal is owed    *)
(* until it is sent, and that no get waits in vain.                        *)
(***************************************************************************)
EXTENDS QueryReply, FiniteSetTheorems, TLAPS

\* The callers that work on the query q itself, not only on its mutex.
Uses(c, q) == call[c].query = q /\ pc[c] \in {"reply", "drop"}
Finishing(c, q) == Uses(c, q) /\ call[c].final

\* Only the caller that has the mutex uses the query.  One that replies
\* finally took it out; any other left it there, and so did nobody else.
MutexInv == \A c, d \in Caller, q \in Query :
              HasLock(c, q) /\ HasLock(d, q) => c = d
UseInv == \A c \in Caller, q \in Query : Uses(c, q) => option_query[q] = ~call[c].final
DropInv == \A c \in Caller : pc[c] = "drop" => call[c].final
\* A query that is neither in its resource nor taken out by a running call
\* has sent its last message, and only such a query has.
SentInv == \A q \in Query :
  /\ IsFinal(q) => ~option_query[q] /\ \A c \in Caller : ~Finishing(c, q)
  /\ handle[q] \in {"none", "callback"} => wire[q] = <<>> /\ ~option_query[q]
  /\ handle[q] \in {"held", "unreachable", "gone"} =>
       option_query[q] \/ IsFinal(q) \/ \E c \in Caller : Finishing(c, q)
\* Only a held handle is the argument of a call.
ArgInv == \A c \in Caller : call[c].query # None => handle[call[c].query] = "held"
GoneInv == \A c \in Caller : pc[c] = "gone" => ~option_query[call[c].query]

QueryInv == /\ TypeOK /\ MutexInv /\ UseInv /\ DropInv /\ SentInv /\ ArgInv
            /\ GoneInv /\ NothingAfterFinal
-----------------------------------------------------------------------------
LEMMA InitInv == Init => QueryInv
<1> SUFFICES ASSUME Init PROVE QueryInv
  OBVIOUS
<1>1. TypeOK
  <2>1. /\ handle \in [Query -> Handle] /\ option_query \in [Query -> BOOLEAN]
        /\ arrived \in [Query -> Nat] /\ live \subseteq Query /\ cut \in BOOLEAN
    BY DEF Init, Handle
  <2>2. <<>> \in Seq({"reply", "final"}) /\ <<>> \in Seq(Query \cup {None})
    OBVIOUS
  <2>3. NoCall \in Call /\ NoCall.query = None
    BY DEF NoCall, Call
  <2>4. /\ pc \in [Caller -> {"idle", "lock", "locked", "reply", "drop", "gone"}]
        /\ call \in [Caller -> Call]
        /\ \A c \in Caller : call[c].query = None <=> pc[c] = "idle"
    BY <2>3 DEF Init
  <2> QED
    BY <2>1, <2>2, <2>4 DEF Init, TypeOK
<1>2. \A q \in Query : wire[q] = <<>> /\ handle[q] \in {"none", "callback"} /\ ~option_query[q]
  BY DEF Init
<1>3. \A c \in Caller : pc[c] = "idle" /\ call[c].query = None
  BY DEF Init, NoCall
<1>4. \A q \in Query : ~IsFinal(q)
  BY <1>2 DEF IsFinal
<1>5. NothingAfterFinal
  BY <1>2 DEF NothingAfterFinal
<1>6. SentInv
  BY <1>2, <1>3, <1>4 DEF SentInv, Uses, Finishing
<1> QED
  BY <1>1, <1>3, <1>5, <1>6 DEF QueryInv, MutexInv, UseInv, DropInv, ArgInv, GoneInv,
     HasLock, Uses

\* A caller that is not idle has a query for an argument.
LEMMA BusyHasQuery ==
  ASSUME TypeOK, NEW c \in Caller, pc[c] # "idle"
  PROVE  call[c].query \in Query /\ call[c].final \in BOOLEAN
BY DEF TypeOK, Call

LEMMA PutType ==
  ASSUME TypeOK, NEW q \in Query, NEW x \in {"reply", "final"}, Put(q, x)
  PROVE  wire' \in [Query -> Seq({"reply", "final"})]
<1>1. wire \in [Query -> Seq({"reply", "final"})]
  BY DEF TypeOK
<1>2. Append(wire[q], x) \in Seq({"reply", "final"})
  BY <1>1
<1> QED
  BY <1>1, <1>2 DEF Put

LEMMA TypeStep == TypeOK /\ [Next]_vars => TypeOK'
<1> SUFFICES ASSUME TypeOK, [Next]_vars PROVE TypeOK'
  OBVIOUS
<1>1. NoCall \in Call /\ NoCall.query = None
  BY DEF NoCall, Call
<1>2. \A q \in Query : None # q
  BY NoneAssumption
<1>3. ASSUME NEW q \in Query, Deliver(q) \/ Release(q) PROVE TypeOK'
  BY <1>3 DEF Deliver, Wrap, Release, TypeOK, Handle, getter
<1>4. ASSUME NEW q \in Query, Destroy(q) PROVE TypeOK'
  <2>1. wire' \in [Query -> Seq({"reply", "final"})]
    BY <1>4, PutType DEF Destroy, TypeOK
  <2> QED
    BY <1>4, <2>1 DEF Destroy, TypeOK, Handle, getter
<1>5. ASSUME NEW q \in Query, Arrive(q) PROVE TypeOK'
  <2>1. arrived' \in [Query -> Nat] /\ live' \subseteq Query
    BY <1>5 DEF Arrive, TypeOK
  <2>2. Append(chan, q) \in Seq(Query \cup {None})
    BY DEF TypeOK
  <2>3. chan' \in Seq(Query \cup {None})
    BY <1>5, <2>2 DEF Arrive, TypeOK
  <2> QED
    BY <1>5, <2>1, <2>3 DEF Arrive, TypeOK
<1>6. ASSUME NEW c \in Caller, NEW q \in Query, NEW f \in BOOLEAN, Enter(c, q, f)
      PROVE  TypeOK'
  BY <1>2, <1>6 DEF Enter, TypeOK, Call, getter
<1>7. ASSUME NEW c \in Caller, Lock(c) PROVE TypeOK'
  BY <1>7 DEF Lock, TypeOK, getter
<1>8. ASSUME NEW c \in Caller, BadOption(c) \/ ReturnGone(c) PROVE TypeOK'
  BY <1>1, <1>8 DEF BadOption, ReturnGone, Return, TypeOK, getter
<1>9. ASSUME NEW c \in Caller, Begin(c) \/ Gone(c) PROVE TypeOK'
  <2>1. pc[c] # "idle"
    BY <1>9 DEF Begin, Gone
  <2>2. call[c].query \in Query /\ call[c].final \in BOOLEAN
    BY <2>1, BusyHasQuery
  <2> QED
    BY <1>9, <2>1, <2>2 DEF Begin, Gone, TypeOK, getter
<1>10. ASSUME NEW c \in Caller, Reply(c) \/ DropQuery(c) PROVE TypeOK'
  <2>1. pc[c] # "idle"
    BY <1>10 DEF Reply, DropQuery
  <2>2. call[c].query \in Query
    BY <2>1, BusyHasQuery
  <2>3. wire' \in [Query -> Seq({"reply", "final"})]
    BY <1>10, <2>2, PutType DEF Reply, DropQuery, TypeOK
  <2>4. \/ pc' = [pc EXCEPT ![c] = "idle"] /\ call' = [call EXCEPT ![c] = NoCall]
        \/ pc' = [pc EXCEPT ![c] = "drop"] /\ call' = call
    BY <1>10 DEF Reply, DropQuery, Return
  <2>5. UNCHANGED <<handle, option_query, arrived, live, cut, chan, replies, get>>
    BY <1>10 DEF Reply, DropQuery, getter
  <2> QED
    BY <1>1, <2>1, <2>3, <2>4, <2>5 DEF TypeOK
<1>11. CASE Cut
  <2>1. Append(chan, None) \in Seq(Query \cup {None})
    BY DEF TypeOK
  <2>2. chan' \in Seq(Query \cup {None})
    BY <1>11, <2>1 DEF Cut, TypeOK
  <2> QED
    BY <1>11, <2>2 DEF Cut, TypeOK
<1>12. CASE Receive
  <2>1. replies' \in Seq(Query \cup {None}) /\ chan' \in Seq(Query \cup {None})
    BY <1>12 DEF Receive, TypeOK
  <2> QED
    BY <1>12, <2>1 DEF Receive, TypeOK
<1>13. CASE Timeout \/ Disconnected
  BY <1>13 DEF Timeout, Disconnected, End, TypeOK
<1>14. CASE UNCHANGED vars
  BY <1>14 DEF vars, TypeOK
<1> QED
  BY <1>3, <1>4, <1>5, <1>6, <1>7, <1>8, <1>9, <1>10, <1>11, <1>12, <1>13, <1>14
     DEF Next, Replying, query_reply, query_reply_error, query_reply_delete
-----------------------------------------------------------------------------
\* Sending on a query that has not sent its last message.
LEMMA PutSends ==
  ASSUME TypeOK, NothingAfterFinal, NEW q \in Query, ~IsFinal(q),
         NEW x \in {"reply", "final"}, Put(q, x)
  PROVE  /\ NothingAfterFinal'
         /\ IsFinal(q)' <=> x = "final"
         /\ \A r \in Query : r # q => wire'[r] = wire[r] /\ (IsFinal(r)' <=> IsFinal(r))
<1>1. wire \in [Query -> Seq({"reply", "final"})] /\ wire' = [wire EXCEPT ![q] = Append(@, x)]
  BY DEF TypeOK, Put
<1>2. \A r \in Query : r # q => wire'[r] = wire[r]
  BY <1>1
<1> DEFINE s == wire[q]
           t == wire'[q]
<1>3. /\ s \in Seq({"reply", "final"}) /\ t = Append(s, x) /\ Len(t) = Len(s) + 1
      /\ Len(s) \in Nat /\ t[Len(s) + 1] = x /\ \A i \in 1 .. Len(s) : t[i] = s[i]
  BY <1>1
<1>4. \A i \in 1 .. Len(s) : s[i] # "final"
  BY DEF IsFinal
<1> HIDE DEF s, t
<1>5. \A i \in 1 .. Len(t) : t[i] = "final" => i = Len(t) /\ x = "final"
  BY <1>3, <1>4
<1>6. x = "final" => \E i \in 1 .. Len(t) : t[i] = "final"
  BY <1>3
<1>7. IsFinal(q)' <=> x = "final"
  BY <1>5, <1>6 DEF IsFinal, t
<1>8. NothingAfterFinal'
  BY <1>2, <1>5 DEF NothingAfterFinal, t
<1> QED
  BY <1>2, <1>7, <1>8 DEF IsFinal

\* A step that sends nothing.
LEMMA SendsNothing ==
  ASSUME wire' = wire
  PROVE  /\ NothingAfterFinal' <=> NothingAfterFinal
         /\ \A q \in Query : (IsFinal(q)' <=> IsFinal(q))
BY DEF NothingAfterFinal, IsFinal

LEMMA QueryStep == QueryInv /\ [Next]_vars => QueryInv'
<1> SUFFICES ASSUME QueryInv, [Next]_vars PROVE QueryInv'
  OBVIOUS
<1> USE DEF QueryInv
<1>1. TypeOK'
  BY TypeStep
<1>2. /\ handle \in [Query -> Handle] /\ option_query \in [Query -> BOOLEAN]
      /\ pc \in [Caller -> {"idle", "lock", "locked", "reply", "drop", "gone"}]
      /\ call \in [Caller -> Call] /\ \A q \in Query : None # q
      /\ \A c \in Caller : call[c].query = None <=> pc[c] = "idle"
  BY NoneAssumption DEF TypeOK
\* The steps of the network and the getter.
<1>3. ASSUME UNCHANGED <<handle, option_query, wire, pc, call>> PROVE QueryInv'
  BY <1>1, <1>3, SendsNothing DEF MutexInv, UseInv, DropInv, SentInv, ArgInv, GoneInv,
     HasLock, Uses, Finishing
<1>4. ASSUME NEW q \in Query, Deliver(q) PROVE QueryInv'
  <2>1. \A c \in Caller : call[c].query # q
    BY <1>2, <1>4 DEF Deliver, ArgInv
  <2>2. wire[q] = <<>> /\ ~IsFinal(q)
    BY <1>4 DEF Deliver, SentInv, IsFinal
  <2>3. UNCHANGED <<wire, pc, call>> /\ NothingAfterFinal'
        /\ \A r \in Query : (IsFinal(r)' <=> IsFinal(r))
    BY <1>4, SendsNothing DEF Deliver
  <2>4. /\ \A r \in Query : r # q => handle'[r] = handle[r] /\ option_query'[r] = option_query[r]
        /\ handle'[q] \in {"held", "unreachable"} /\ option_query'[q]
    BY <1>2, <1>4 DEF Deliver, Wrap
  <2>5. SentInv'
    BY <2>1, <2>2, <2>3, <2>4 DEF SentInv, Finishing, Uses
  <2>6. MutexInv' /\ DropInv' /\ UseInv'
    BY <1>2, <2>1, <2>3, <2>4 DEF MutexInv, DropInv, UseInv, HasLock, Uses
  <2>7. ArgInv' /\ GoneInv'
    BY <1>2, <2>1, <2>3, <2>4 DEF ArgInv, GoneInv, Call
  <2> QED
    BY <1>1, <2>3, <2>5, <2>6, <2>7
<1>5. ASSUME NEW q \in Query, Release(q) PROVE QueryInv'
  <2>1. /\ UNCHANGED <<option_query, wire, pc, call>> /\ handle[q] = "held"
        /\ \A c \in Caller : call[c].query # q
        /\ handle' = [handle EXCEPT ![q] = "unreachable"]
    BY <1>5 DEF Release
  <2>2. SentInv' /\ NothingAfterFinal'
    BY <1>2, <2>1, SendsNothing DEF SentInv, Finishing, Uses
  <2> QED
    BY <1>1, <1>2, <2>1, <2>2 DEF MutexInv, UseInv, DropInv, ArgInv, GoneInv, HasLock, Uses, Call
<1>6. ASSUME NEW q \in Query, Destroy(q) PROVE QueryInv'
  <2>1. /\ UNCHANGED <<pc, call>> /\ handle[q] = "unreachable"
        /\ handle' = [handle EXCEPT ![q] = "gone"]
        /\ option_query' = [option_query EXCEPT ![q] = FALSE]
        /\ IF option_query[q] THEN Put(q, "final") ELSE wire' = wire
    BY <1>6 DEF Destroy
  <2>2. \A c \in Caller : call[c].query # q
    BY <1>2, <2>1 DEF ArgInv
  <2>3. IsFinal(q) \/ option_query[q]
    BY <2>1, <2>2 DEF SentInv, Finishing, Uses
  <2>4. /\ NothingAfterFinal' /\ IsFinal(q)'
        /\ \A r \in Query : r # q => wire'[r] = wire[r] /\ (IsFinal(r)' <=> IsFinal(r))
    <3>1. CASE option_query[q]
      BY <2>1, <3>1, PutSends DEF SentInv
    <3>2. CASE ~option_query[q]
      BY <2>1, <2>3, <3>2, SendsNothing
    <3> QED
      BY <3>1, <3>2
  <2>5. SentInv'
    BY <1>2, <2>1, <2>2, <2>4 DEF SentInv, Finishing, Uses
  <2>6. MutexInv' /\ DropInv' /\ UseInv'
    BY <1>2, <2>1, <2>2 DEF MutexInv, DropInv, UseInv, HasLock, Uses
  <2> QED
    BY <1>1, <1>2, <2>1, <2>2, <2>4, <2>5, <2>6 DEF ArgInv, GoneInv, Call
<1>7. ASSUME NEW c \in Caller, NEW q \in Query, NEW f \in BOOLEAN, Enter(c, q, f)
      PROVE  QueryInv'
  <2>1. /\ UNCHANGED <<handle, option_query, wire>> /\ handle[q] = "held"
        /\ pc[c] = "idle" /\ pc'[c] = "lock" /\ call'[c].query = q
        /\ \A d \in Caller : d # c => pc'[d] = pc[d] /\ call'[d] = call[d]
    BY <1>2, <1>7 DEF Enter
  <2>2. SentInv' /\ NothingAfterFinal'
    BY <2>1, SendsNothing DEF SentInv, Finishing, Uses
  <2> QED
    BY <1>1, <2>1, <2>2 DEF MutexInv, UseInv, DropInv, ArgInv, GoneInv, HasLock, Uses
<1>8. ASSUME NEW c \in Caller, Lock(c) PROVE QueryInv'
  <2>1. /\ UNCHANGED <<handle, option_query, wire, call>>
        /\ pc[c] = "lock" /\ pc'[c] = "locked" /\ \A d \in Caller : ~HasLock(d, call[c].query)
        /\ \A d \in Caller : d # c => pc'[d] = pc[d]
    BY <1>2, <1>8 DEF Lock
  <2>2. SentInv' /\ NothingAfterFinal'
    BY <2>1, SendsNothing DEF SentInv, Finishing, Uses
  <2> QED
    BY <1>1, <2>1, <2>2 DEF MutexInv, UseInv, DropInv, ArgInv, GoneInv, HasLock, Uses
<1>9. ASSUME NEW c \in Caller, Begin(c) PROVE QueryInv'
  <2>1. PICK q \in Query : q = call[c].query /\ call[c].final \in BOOLEAN
    BY <1>2, <1>9, BusyHasQuery DEF Begin
  <2>2. /\ UNCHANGED <<handle, wire, call>> /\ pc[c] = "locked" /\ pc'[c] = "reply"
        /\ \A d \in Caller : d # c => pc'[d] = pc[d]
        /\ option_query[q] /\ option_query'[q] = ~call[c].final
        /\ \A r \in Query : r # q => option_query'[r] = option_query[r]
    BY <1>2, <1>9, <2>1 DEF Begin
  <2>3. \A d \in Caller : d # c => ~HasLock(d, q)
    BY <2>1, <2>2 DEF MutexInv, HasLock
  <2>4. /\ Finishing(c, q)' <=> call[c].final
        /\ \A d \in Caller : d # c => ~Finishing(d, q)'
        /\ \A d \in Caller, r \in Query : r # q => (Finishing(d, r)' <=> Finishing(d, r))
    BY <2>1, <2>2, <2>3 DEF Finishing, Uses, HasLock
  <2>5. NothingAfterFinal' /\ \A r \in Query : (IsFinal(r)' <=> IsFinal(r))
    BY <2>2, SendsNothing
  <2>6. ~IsFinal(q) /\ (call[c].final => ~option_query'[q])
        /\ (~call[c].final => option_query'[q]) /\ handle[q] \notin {"none", "callback"}
    BY <2>1, <2>2 DEF SentInv
  <2>7. SentInv'
    BY <2>2, <2>4, <2>5, <2>6 DEF SentInv
  <2>8. MutexInv' /\ UseInv' /\ DropInv'
    BY <2>1, <2>2, <2>3, <2>4 DEF MutexInv, UseInv, DropInv, HasLock, Uses
  <2>9. GoneInv'
    BY <2>1, <2>2, <2>3, <2>4, <1>2, BusyHasQuery DEF GoneInv, HasLock
  <2> QED
    BY <1>1, <2>2, <2>5, <2>7, <2>8, <2>9 DEF ArgInv
<1>10. ASSUME NEW c \in Caller, Gone(c) PROVE QueryInv'
  <2>1. /\ UNCHANGED <<handle, option_query, wire, call>> /\ ~option_query[call[c].query]
        /\ pc[c] = "locked" /\ pc'[c] = "gone"
        /\ \A d \in Caller : d # c => pc'[d] = pc[d]
    BY <1>2, <1>10 DEF Gone
  <2>2. SentInv' /\ NothingAfterFinal'
    BY <2>1, SendsNothing DEF SentInv, Finishing, Uses
  <2> QED
    BY <1>1, <2>1, <2>2 DEF MutexInv, UseInv, DropInv, ArgInv, GoneInv, HasLock, Uses
\* A caller that returns: the query is back in its resource, or it was not out.
<1>11. ASSUME NEW c \in Caller, pc[c] # "idle", Return(c), UNCHANGED <<handle, option_query>>,
              SentInv', NothingAfterFinal'
       PROVE  QueryInv'
  <2>1. /\ pc'[c] = "idle" /\ call'[c].query = None
        /\ \A d \in Caller : d # c => pc'[d] = pc[d] /\ call'[d] = call[d]
    BY <1>2, <1>11 DEF Return, NoCall
  <2> QED
    BY <1>1, <1>11, <2>1 DEF MutexInv, UseInv, DropInv, ArgInv, GoneInv, HasLock, Uses
<1>12. ASSUME NEW c \in Caller, BadOption(c) \/ ReturnGone(c) PROVE QueryInv'
  <2>1. /\ UNCHANGED <<handle, option_query, wire>> /\ pc[c] \in {"locked", "gone"} /\ Return(c)
        /\ \A d \in Caller : d # c => pc'[d] = pc[d] /\ call'[d] = call[d]
    BY <1>2, <1>12 DEF BadOption, ReturnGone, Return
  <2>2. SentInv' /\ NothingAfterFinal'
    BY <2>1, SendsNothing DEF SentInv, Finishing, Uses, Return
  <2> QED
    BY <1>11, <2>1, <2>2
<1>13. ASSUME NEW c \in Caller, Reply(c) PROVE QueryInv'
  <2>1. PICK q \in Query : /\ q = call[c].query /\ call[c].final \in BOOLEAN
                           /\ pc[c] = "reply" /\ Uses(c, q)
    BY <1>2, <1>13, BusyHasQuery DEF Reply, Uses
  <2>2. ~IsFinal(q)
    BY <2>1 DEF UseInv, SentInv, Finishing
  <2>3. /\ NothingAfterFinal' /\ \A r \in Query : (IsFinal(r)' <=> IsFinal(r))
        /\ \A r \in Query : r # q => wire'[r] = wire[r]
    <3>1. CASE Put(q, "reply")
      BY <2>1, <2>2, <3>1, PutSends
    <3>2. CASE wire' = wire
      BY <3>2, SendsNothing
    <3> QED
      BY <1>13, <2>1, <3>1, <3>2 DEF Reply
  <2>4. UNCHANGED <<handle, option_query>> /\ handle[q] = "held"
    BY <1>2, <1>13, <2>1 DEF Reply, ArgInv
  <2>5. CASE call[c].final
    <3>1. /\ call' = call /\ pc'[c] = "drop"
          /\ \A d \in Caller : d # c => pc'[d] = pc[d]
      BY <1>2, <1>13, <2>5 DEF Reply
    <3>2. \A d \in Caller, r \in Query :
            /\ (Uses(d, r)' <=> Uses(d, r)) /\ (HasLock(d, r)' <=> HasLock(d, r))
            /\ (Finishing(d, r)' <=> Finishing(d, r))
      BY <2>1, <3>1 DEF Uses, HasLock, Finishing
    <3>3. SentInv'
      BY <2>3, <2>4, <3>2 DEF SentInv
    <3> QED
      BY <1>1, <2>3, <2>4, <2>5, <3>1, <3>2, <3>3
         DEF MutexInv, UseInv, DropInv, ArgInv, GoneInv
  <2>6. CASE ~call[c].final
    <3>1. /\ Return(c) /\ \A d \in Caller : d # c => pc'[d] = pc[d] /\ call'[d] = call[d]
          /\ pc'[c] = "idle"
      BY <1>2, <1>13, <2>6 DEF Reply, Return
    <3>2. option_query[q]
      BY <2>1, <2>6 DEF UseInv
    <3>3. \A d \in Caller, r \in Query : (Finishing(d, r)' <=> Finishing(d, r))
      BY <2>6, <3>1 DEF Finishing, Uses
    <3>4. SentInv'
      BY <2>1, <2>3, <2>4, <3>3 DEF SentInv
    <3> QED
      BY <1>11, <2>1, <2>3, <2>4, <3>1, <3>4
  <2> QED
    BY <2>5, <2>6
<1>14. ASSUME NEW c \in Caller, DropQuery(c) PROVE QueryInv'
  <2>1. PICK q \in Query : /\ q = call[c].query /\ pc[c] = "drop"
                           /\ Finishing(c, q) /\ ~option_query[q]
    BY <1>2, <1>14, BusyHasQuery DEF DropQuery, Finishing, Uses, DropInv, UseInv
  <2>2. ~IsFinal(q) /\ handle[q] = "held"
    BY <1>2, <2>1 DEF SentInv, ArgInv
  <2>3. /\ NothingAfterFinal' /\ IsFinal(q)'
        /\ \A r \in Query : r # q => wire'[r] = wire[r] /\ (IsFinal(r)' <=> IsFinal(r))
    BY <1>14, <2>1, <2>2, PutSends DEF DropQuery
  <2>4. /\ UNCHANGED <<handle, option_query>> /\ Return(c)
        /\ \A d \in Caller : d # c => pc'[d] = pc[d] /\ call'[d] = call[d]
        /\ pc'[c] = "idle"
    BY <1>2, <1>14 DEF DropQuery, Return
  <2>5. \A d \in Caller : d # c => ~HasLock(d, q)
    BY <2>1 DEF MutexInv, HasLock, Finishing, Uses
  <2>6. \A d \in Caller : ~Finishing(d, q)'
    BY <2>4, <2>5 DEF Finishing, Uses, HasLock
  <2>7. \A d \in Caller, r \in Query : r # q => (Finishing(d, r)' <=> Finishing(d, r))
    BY <2>1, <2>4 DEF Finishing, Uses
  <2>8. SentInv'
    BY <2>1, <2>2, <2>3, <2>4, <2>6, <2>7 DEF SentInv
  <2> QED
    BY <1>11, <2>1, <2>3, <2>4, <2>8
<1>15. CASE Cut \/ Receive \/ Timeout \/ Disconnected \/ UNCHANGED vars
  BY <1>3, <1>15 DEF Cut, Receive, Timeout, Disconnected, End, vars
<1>16. ASSUME NEW q \in Query, Arrive(q) PROVE QueryInv'
  BY <1>3, <1>16 DEF Arrive
<1> QED
  BY <1>4, <1>5, <1>6, <1>7, <1>8, <1>9, <1>10, <1>12, <1>13, <1>14, <1>15, <1>16
     DEF Next, Replying, query_reply, query_reply_error, query_reply_delete

\* Every variable keeps its type, and a caller has an argument exactly while
\* it runs a reply.
THEOREM QueryTypeCorrect == Spec => []TypeOK
BY InitInv, TypeStep, PTL DEF Spec, QueryInv

LEMMA QueryInvariant == Spec => []QueryInv
BY InitInv, QueryStep, PTL DEF Spec

\* However many processes reply at once and whichever finally, ResponseFinal
\* is sent once and last.
THEOREM FinalIsLast == Spec => []NothingAfterFinal
<1>1. QueryInv => NothingAfterFinal
  BY DEF QueryInv
<1> QED
  BY <1>1, QueryInvariant, PTL

\* The error of handle_reply tells the truth: whoever finds the query gone
\* finds ResponseFinal sent.
THEOREM GoneTellsTheTruth == Spec => []GoneMeansFinalSent
<1>1. ASSUME QueryInv, NEW c \in Caller, pc[c] = "gone" PROVE IsFinal(call[c].query)
  <2>1. PICK q \in Query : q = call[c].query /\ q # None
    BY <1>1, BusyHasQuery, NoneAssumption DEF QueryInv
  <2>2. handle[q] = "held" /\ ~option_query[q]
    BY <1>1, <2>1 DEF QueryInv, ArgInv, GoneInv
  <2>3. \A d \in Caller : ~Finishing(d, q)
    BY <1>1, <2>1 DEF QueryInv, MutexInv, HasLock, Finishing, Uses
  <2> QED
    BY <1>1, <2>1, <2>2, <2>3 DEF QueryInv, SentInv
<1>2. QueryInv => GoneMeansFinalSent
  BY <1>1 DEF GoneMeansFinalSent
<1> QED
  BY <1>2, QueryInvariant, PTL
-----------------------------------------------------------------------------
(* Counting replies.                                                       *)

\* The replies to q that have come in at the getter.
Got(q) == {i \in 1 .. arrived[q] : wire[q][i] = "reply"}

\* Nothing that was sent is lost or made up on its way: what came in is in the
\* channel or collected.  A query the getter does not wait for has sent all it
\* will, and all of that came in; a get that ended has emptied its channel.
CountInv ==
  /\ get # "collect" => chan = <<>>
  /\ \A q \in Query :
       /\ arrived[q] <= Len(wire[q])
       /\ From(replies \o chan, q) = Cardinality(Got(q))
       /\ q \notin live => handle[q] = "none" \/ (arrived[q] = Len(wire[q]) /\ IsFinal(q))

LEMMA FromEmpty == \A x : From(<<>>, x) = 0
<1>1. \A x : {i \in DOMAIN <<>> : <<>>[i] = x} = {}
  OBVIOUS
<1> QED
  BY <1>1, FS_EmptySet DEF From

LEMMA FromAppend ==
  ASSUME NEW S, NEW s \in Seq(S), NEW y \in S, NEW x
  PROVE  From(Append(s, y), x) = From(s, x) + (IF y = x THEN 1 ELSE 0)
<1> DEFINE n == Len(s) + 1
           A == {i \in DOMAIN s : s[i] = x}
           t == Append(s, y)
           B == {i \in DOMAIN t : t[i] = x}
<1>1. n \in Nat /\ DOMAIN s = 1 .. Len(s) /\ DOMAIN t = 1 .. n /\ n \notin A
  OBVIOUS
<1>2. t[n] = y /\ \A i \in DOMAIN s : t[i] = s[i]
  OBVIOUS
<1>3. IsFiniteSet(A)
  <2>1. IsFiniteSet(1 .. Len(s)) /\ A \in SUBSET (1 .. Len(s))
    BY <1>1, FS_Interval
  <2> QED
    BY <2>1, FS_Subset
<1>4. Cardinality(A) \in Nat /\ Cardinality(A \cup {n}) = Cardinality(A) + 1
  BY <1>1, <1>3, FS_AddElement, FS_CardinalityType
<1>5. B = IF y = x THEN A \cup {n} ELSE A
  <2>1. DOMAIN t = DOMAIN s \cup {n}
    BY <1>1
  <2> QED
    BY <1>1, <1>2, <2>1
<1> HIDE DEF A, B
<1>6. Cardinality(B) = Cardinality(A) + (IF y = x THEN 1 ELSE 0)
  <2>1. CASE y = x
    BY <1>4, <1>5, <2>1
  <2>2. CASE y # x
    BY <1>4, <1>5, <2>2
  <2> QED
    BY <2>1, <2>2
<1>7. From(s, x) = Cardinality(A) /\ From(t, x) = Cardinality(B)
  BY DEF From, A, B
<1> QED
  BY <1>6, <1>7

LEMMA FromType ==
  ASSUME NEW S, NEW s \in Seq(S), NEW x
  PROVE  From(s, x) \in Nat
<1>1. IsFiniteSet(1 .. Len(s)) /\ {i \in DOMAIN s : s[i] = x} \in SUBSET (1 .. Len(s))
  BY FS_Interval
<1> QED
  BY <1>1, FS_Subset, FS_CardinalityType DEF From

\* Taking the head of the channel leaves the whole of it and the collected
\* replies as they were.
LEMMA MoveHead ==
  ASSUME NEW S, NEW r \in Seq(S), NEW s \in Seq(S), s # <<>>
  PROVE  Append(r, Head(s)) \o Tail(s) = r \o s
OBVIOUS
LEMMA ConcatType ==
  ASSUME NEW S, NEW r \in Seq(S), NEW s \in Seq(S)
  PROVE  r \o s \in Seq(S)
OBVIOUS
LEMMA AppendLast ==
  ASSUME NEW S, NEW r \in Seq(S), NEW s \in Seq(S), NEW y \in S
  PROVE  r \o Append(s, y) = Append(r \o s, y)
OBVIOUS

LEMMA CountTypes ==
  ASSUME QueryInv
  PROVE  /\ wire \in [Query -> Seq({"reply", "final"})] /\ arrived \in [Query -> Nat]
         /\ chan \in Seq(Query \cup {None}) /\ replies \in Seq(Query \cup {None})
         /\ handle \in [Query -> Handle] /\ live \subseteq Query
BY DEF QueryInv, TypeOK

\* A message is sent only on a query that has not sent its last, through a
\* handle the callback has handed out.
Sends(q, x) == Put(q, x) /\ ~IsFinal(q) /\ handle[q] # "none"
LEMMA StepKinds ==
  ASSUME QueryInv, [Next]_vars
  PROVE  \/ Cut \/ Receive \/ Timeout \/ Disconnected
         \/ \E q \in Query : Arrive(q)
         \/ /\ UNCHANGED getter
            /\ \A q \in Query : handle[q] = "none" => handle'[q] = "none"
            /\ wire' = wire \/ \E q \in Query, x \in {"reply", "final"} : Sends(q, x)
<1>1. ASSUME NEW c \in Caller, Reply(c) PROVE wire' = wire \/ Sends(call[c].query, "reply")
  <2>1. PICK q \in Query : /\ q = call[c].query /\ call[c].final \in BOOLEAN
                           /\ Uses(c, q) /\ q # None
    BY <1>1, BusyHasQuery, NoneAssumption DEF Reply, Uses, QueryInv
  <2>2. ~IsFinal(q) /\ handle[q] = "held"
    BY <2>1 DEF QueryInv, UseInv, SentInv, ArgInv, Finishing
  <2> QED
    BY <1>1, <2>1, <2>2 DEF Reply, Sends
<1>2. ASSUME NEW c \in Caller, DropQuery(c) PROVE Sends(call[c].query, "final")
  <2>1. PICK q \in Query : q = call[c].query /\ Finishing(c, q) /\ q # None
    BY <1>2, BusyHasQuery, NoneAssumption DEF DropQuery, Finishing, Uses, DropInv, QueryInv
  <2>2. ~IsFinal(q) /\ handle[q] = "held"
    BY <2>1 DEF QueryInv, SentInv, ArgInv
  <2> QED
    BY <1>2, <2>1, <2>2 DEF DropQuery, Sends
<1>3. ASSUME NEW c \in Caller, Reply(c) \/ DropQuery(c) PROVE call[c].query \in Query
  BY <1>3, BusyHasQuery DEF Reply, DropQuery, QueryInv
<1>4. ASSUME NEW q \in Query, Destroy(q) PROVE wire' = wire \/ Sends(q, "final")
  BY <1>4 DEF Destroy, Sends, QueryInv, SentInv
<1>5. ASSUME NEW q \in Query, Deliver(q) \/ Release(q) \/ Destroy(q)
      PROVE  UNCHANGED getter /\ \A r \in Query : handle[r] = "none" => handle'[r] = "none"
  BY <1>5, CountTypes DEF Deliver, Release, Destroy
<1>6. ASSUME NEW q \in Query, Deliver(q) \/ Release(q) PROVE wire' = wire
  BY <1>6 DEF Deliver, Release
<1>7. ASSUME NEW c \in Caller, Lock(c) \/ BadOption(c) \/ Begin(c) \/ Gone(c) \/ ReturnGone(c)
      PROVE  UNCHANGED <<getter, handle, wire>>
  BY <1>7 DEF Lock, BadOption, Begin, Gone, ReturnGone
<1>8. ASSUME NEW c \in Caller, Reply(c) \/ DropQuery(c) PROVE UNCHANGED <<getter, handle>>
  BY <1>8 DEF Reply, DropQuery
<1>9. ASSUME NEW c \in Caller, NEW q \in Query, NEW f \in BOOLEAN, Enter(c, q, f)
      PROVE  UNCHANGED <<getter, handle, wire>>
  BY <1>9 DEF Enter
<1>10. CASE UNCHANGED vars
  BY <1>10 DEF vars, getter
<1> QED
  BY <1>1, <1>2, <1>3, <1>4, <1>5, <1>6, <1>7, <1>8, <1>9, <1>10
     DEF Next, Replying, query_reply, query_reply_error, query_reply_delete

\* Sending appends to what was sent: what came in is the same.
LEMMA SendKeepsGot ==
  ASSUME QueryInv, CountInv, NEW q \in Query, NEW x \in {"reply", "final"}, Put(q, x),
         arrived' = arrived, NEW r \in Query
  PROVE  /\ arrived'[r] <= Len(wire'[r]) /\ Got(r)' = Got(r)
         /\ r # q => wire'[r] = wire[r]
<1>1. wire' = [wire EXCEPT ![q] = Append(@, x)]
  BY DEF Put
<1>2. wire[r] \in Seq({"reply", "final"}) /\ arrived[r] \in Nat /\ arrived[r] <= Len(wire[r])
  BY CountTypes DEF CountInv
<1>3. CASE r # q
  <2>1. wire'[r] = wire[r]
    BY <1>1, <1>3, CountTypes
  <2> QED
    BY <1>2, <2>1 DEF Got
<1>4. CASE r = q
  <2>1. wire'[r] = Append(wire[r], x)
    BY <1>1, <1>4, CountTypes
  <2>2. \A i \in 1 .. arrived[r] : wire'[r][i] = wire[r][i]
    BY <1>2, <2>1
  <2>3. Len(wire'[r]) = Len(wire[r]) + 1
    BY <1>2, <2>1
  <2> QED
    BY <1>2, <1>4, <2>2, <2>3 DEF Got
<1> QED
  BY <1>3, <1>4

\* One more message comes in.
LEMMA ArriveGot ==
  ASSUME QueryInv, CountInv, NEW q \in Query, Arrive(q)
  PROVE  /\ Cardinality(Got(q))' = Cardinality(Got(q)) +
              (IF wire[q][arrived[q] + 1] = "reply" THEN 1 ELSE 0)
         /\ \A r \in Query : r # q => Got(r)' = Got(r)
<1> DEFINE n == arrived[q] + 1
<1>1. /\ wire' = wire /\ arrived' = [arrived EXCEPT ![q] = n] /\ arrived[q] \in Nat
      /\ arrived'[q] = n
  BY CountTypes DEF Arrive
<1>2. \A r \in Query : r # q => Got(r)' = Got(r)
  BY <1>1, CountTypes DEF Got
<1>3. 1 .. n = (1 .. arrived[q]) \cup {n} /\ n \notin 1 .. arrived[q]
  BY <1>1
<1>4. Got(q)' = IF wire[q][n] = "reply" THEN Got(q) \cup {n} ELSE Got(q)
  <2>1. Got(q)' = {i \in 1 .. n : wire[q][i] = "reply"}
    BY <1>1 DEF Got
  <2> QED
    BY <1>3, <2>1 DEF Got
<1>5. IsFiniteSet(Got(q)) /\ n \notin Got(q)
  <2>1. IsFiniteSet(1 .. arrived[q]) /\ Got(q) \in SUBSET (1 .. arrived[q])
    BY <1>1, FS_Interval DEF Got
  <2> QED
    BY <1>3, <2>1, FS_Subset
<1>6. /\ Cardinality(Got(q) \cup {n}) = Cardinality(Got(q)) + 1
      /\ Cardinality(Got(q)) \in Nat
  BY <1>5, FS_AddElement, FS_CardinalityType
<1> HIDE DEF n
<1>7. CASE wire[q][n] = "reply"
  BY <1>2, <1>4, <1>6, <1>7 DEF n
<1>8. CASE wire[q][n] # "reply"
  BY <1>2, <1>4, <1>6, <1>8 DEF n
<1> QED
  BY <1>7, <1>8

LEMMA CountInit == Init => CountInv
<1> SUFFICES ASSUME Init PROVE CountInv
  OBVIOUS
<1>1. /\ chan = <<>> /\ replies = <<>>
      /\ \A q \in Query : arrived[q] = 0 /\ wire[q] = <<>> /\ (q \notin live => handle[q] = "none")
  BY DEF Init
<1>2. replies \o chan = <<>>
  BY <1>1
<1>3. ASSUME NEW q \in Query PROVE Cardinality(Got(q)) = 0
  <2>1. Got(q) = {}
    BY <1>1 DEF Got
  <2> QED
    BY <2>1, FS_EmptySet
<1>4. \A q \in Query : From(replies \o chan, q) = 0
  BY <1>2, FromEmpty
<1> QED
  BY <1>1, <1>3, <1>4 DEF CountInv

\* Every step keeps the count.  What counts is the channel behind the
\* collected replies.
LEMMA CountStep == QueryInv /\ CountInv /\ [Next]_vars => CountInv'
<1> SUFFICES ASSUME QueryInv, CountInv, [Next]_vars PROVE CountInv'
  OBVIOUS
<1>1. /\ chan \in Seq(Query \cup {None}) /\ replies \in Seq(Query \cup {None})
      /\ arrived \in [Query -> Nat] /\ live \subseteq Query
  BY CountTypes
<1>2. PICK n \in Seq(Query \cup {None}) : n = replies \o chan
  BY <1>1, ConcatType
<1>3. ASSUME UNCHANGED getter, \A q \in Query : handle[q] = "none" => handle'[q] = "none",
             wire' = wire
      PROVE  CountInv'
  <2>1. \A q \in Query : Got(q)' = Got(q) /\ (IsFinal(q)' <=> IsFinal(q))
    BY <1>3 DEF Got, IsFinal, getter
  <2>2. \A q \in Query : From(replies \o chan, q)' = From(replies \o chan, q)
    BY <1>3 DEF getter
  <2> QED
    BY <1>3, <2>1, <2>2 DEF CountInv, getter
<1>4. ASSUME UNCHANGED getter, NEW q \in Query, NEW x \in {"reply", "final"}, Sends(q, x),
             \A r \in Query : handle[r] = "none" => handle'[r] = "none"
      PROVE  CountInv'
  <2>1. \A r \in Query : /\ arrived'[r] <= Len(wire'[r]) /\ Got(r)' = Got(r)
                         /\ r # q => wire'[r] = wire[r]
    BY <1>4, SendKeepsGot DEF Sends, getter
  <2>2. q \in live
    BY <1>4 DEF Sends, CountInv
  <2>3. \A r \in Query : r # q => (IsFinal(r)' <=> IsFinal(r))
    BY <2>1 DEF IsFinal
  <2>4. \A r \in Query : r \notin live =>
          handle'[r] = "none" \/ (arrived'[r] = Len(wire'[r]) /\ IsFinal(r)')
    BY <1>4, <2>1, <2>2, <2>3 DEF CountInv, getter
  <2>5. \A r \in Query : From(replies \o chan, r)' = Cardinality(Got(r))'
    BY <1>4, <2>1 DEF CountInv, getter
  <2> QED
    BY <1>4, <2>1, <2>4, <2>5 DEF CountInv, getter
<1>5. ASSUME NEW q \in Query, Arrive(q) PROVE CountInv'
  <2>1. PICK k : k = arrived[q] + 1 /\ k \in 1 .. Len(wire[q])
    BY <1>1, <1>5, CountTypes DEF Arrive
  <2>2. /\ wire' = wire /\ handle' = handle /\ replies' = replies /\ get = "collect" /\ get' = get
        /\ arrived'[q] = k /\ \A r \in Query : r # q => arrived'[r] = arrived[r]
    BY <1>1, <1>5, <2>1 DEF Arrive
  <2>3. \A r \in Query : IsFinal(r)' <=> IsFinal(r)
    BY <2>2 DEF IsFinal
  <2>4. ASSUME NEW r \in Query PROVE arrived'[r] <= Len(wire'[r])
    <3>1. CASE r = q
      BY <2>1, <2>2, <3>1, CountTypes
    <3>2. CASE r # q
      BY <2>2, <3>2 DEF CountInv
    <3> QED
      BY <3>1, <3>2
  <2>5. CASE wire[q][k] = "final"
    <3>1. live' = live \ {q} /\ chan' = chan
      BY <1>5, <2>1, <2>5 DEF Arrive
    <3>2. arrived'[q] = Len(wire'[q]) /\ IsFinal(q)
      BY <2>1, <2>2, <2>5 DEF QueryInv, NothingAfterFinal, IsFinal
    <3>3. \A r \in Query : Cardinality(Got(r))' = Cardinality(Got(r))
      <4>1. Cardinality(Got(q))' = Cardinality(Got(q)) + 0
        BY <1>5, <2>1, <2>5, ArriveGot
      <4>2. Cardinality(Got(q)) \in Nat
        <5>1. IsFiniteSet(1 .. arrived[q]) /\ Got(q) \in SUBSET (1 .. arrived[q])
          BY <1>1, FS_Interval DEF Got
        <5> QED
          BY <5>1, FS_Subset, FS_CardinalityType
      <4>3. \A r \in Query : r # q => Cardinality(Got(r))' = Cardinality(Got(r))
        BY <1>5, ArriveGot
      <4> QED
        BY <4>1, <4>2, <4>3
    <3>4. \A r \in Query : From(replies \o chan, r)' = Cardinality(Got(r))'
      BY <2>2, <3>1, <3>3 DEF CountInv
    <3>5. \A r \in Query : r \notin live' =>
            handle'[r] = "none" \/ (arrived'[r] = Len(wire'[r]) /\ IsFinal(r)')
      BY <2>2, <2>3, <3>1, <3>2 DEF CountInv
    <3> QED
      BY <2>2, <2>4, <3>4, <3>5 DEF CountInv
  <2>6. CASE wire[q][k] # "final"
    <3>1. live' = live /\ chan' = Append(chan, q) /\ wire[q][k] = "reply"
      BY <1>5, <2>1, <2>6, CountTypes DEF Arrive
    <3>2. q \in live
      <4>1. IsFinal(q) /\ arrived[q] = Len(wire[q]) => FALSE
        BY <1>1, <2>1, CountTypes
      <4>2. handle[q] = "none" => Len(wire[q]) = 0
        BY DEF QueryInv, SentInv
      <4> QED
        BY <2>1, <4>1, <4>2 DEF CountInv
    <3>3. replies' \o chan' = Append(n, q)
      BY <1>1, <1>2, <2>2, <3>1, AppendLast
    <3>4. ASSUME NEW r \in Query
          PROVE  From(Append(n, q), r) = From(n, r) + (IF q = r THEN 1 ELSE 0)
      <4>1. q \in Query \cup {None} /\ n \in Seq(Query \cup {None})
        BY <1>2
      <4> QED
        BY ONLY <4>1, FromAppend
    <3>5. Cardinality(Got(q))' = Cardinality(Got(q)) + 1
      BY <1>5, <2>1, <3>1, ArriveGot
    <3>6. \A r \in Query : r # q => Cardinality(Got(r))' = Cardinality(Got(r))
      BY <1>5, ArriveGot
    <3>7. \A r \in Query : From(n, r) = Cardinality(Got(r))
      BY <1>2 DEF CountInv
    <3>8. \A r \in Query : From(n, r) \in Nat
      BY <1>2, FromType
    <3>9. ASSUME NEW r \in Query PROVE From(Append(n, q), r) = Cardinality(Got(r))'
      <4>1. CASE r = q
        BY <3>4, <3>5, <3>7, <4>1
      <4>2. CASE r # q
        BY <3>4, <3>6, <3>7, <3>8, <4>2
      <4> QED
        BY <4>1, <4>2
    <3>10. \A r \in Query : r \notin live' =>
            handle'[r] = "none" \/ (arrived'[r] = Len(wire'[r]) /\ IsFinal(r)')
      BY <2>2, <2>3, <3>1, <3>2 DEF CountInv
    <3> QED
      BY <2>2, <2>4, <3>3, <3>9, <3>10 DEF CountInv
  <2> QED
    BY <2>5, <2>6
<1>6. CASE Cut
  <2>1. /\ UNCHANGED <<handle, wire, arrived, live, replies, get>> /\ get = "collect"
        /\ chan' = chan \/ chan' = Append(chan, None)
    BY <1>6 DEF Cut
  <2>2. \A q \in Query : Got(q)' = Got(q) /\ (IsFinal(q)' <=> IsFinal(q))
    BY <2>1 DEF Got, IsFinal
  <2>3. None \in Query \cup {None} /\ n \in Seq(Query \cup {None})
    BY <1>2
  <2>4. ASSUME NEW q \in Query PROVE From(Append(n, None), q) = From(n, q)
    <3>1. From(Append(n, None), q) = From(n, q) + (IF None = q THEN 1 ELSE 0)
      BY ONLY <2>3, FromAppend
    <3>2. From(n, q) \in Nat
      BY ONLY <2>3, FromType
    <3> QED
      BY <3>1, <3>2, NoneAssumption
  <2>5. replies' \o chan' = n \/ replies' \o chan' = Append(n, None)
    <3>1. None \in Query \cup {None}
      OBVIOUS
    <3>2. replies \o Append(chan, None) = Append(replies \o chan, None)
      BY ONLY <1>1, <3>1, AppendLast
    <3> QED
      BY <1>2, <2>1, <3>2
  <2>6. \A q \in Query : From(replies \o chan, q)' = From(n, q)
    BY <2>4, <2>5
  <2> QED
    BY <1>2, <2>1, <2>2, <2>6 DEF CountInv
<1>7. CASE Receive
  <2>1. /\ UNCHANGED <<handle, wire, arrived, live, get>> /\ get = "collect" /\ chan # <<>>
        /\ replies' = Append(replies, Head(chan)) /\ chan' = Tail(chan)
    BY <1>7 DEF Receive
  <2>2. \A q \in Query : Got(q)' = Got(q) /\ (IsFinal(q)' <=> IsFinal(q))
    BY <2>1 DEF Got, IsFinal
  <2>3. replies' \o chan' = replies \o chan
    BY <1>1, <2>1, MoveHead
  <2> QED
    BY <2>1, <2>2, <2>3 DEF CountInv
<1>8. CASE Timeout \/ Disconnected
  <2>1. UNCHANGED <<handle, wire, arrived, live, chan, replies>> /\ chan = <<>>
    BY <1>8 DEF Timeout, Disconnected, End
  <2>2. \A q \in Query : Got(q)' = Got(q) /\ (IsFinal(q)' <=> IsFinal(q))
    BY <2>1 DEF Got, IsFinal
  <2> QED
    BY <2>1, <2>2 DEF CountInv
<1> QED
  BY <1>3, <1>4, <1>5, <1>6, <1>7, <1>8, StepKinds

\* A get that ends because every queryable is done returns every reply that
\* any of them sent, and each once, however many there are and in whatever
\* order they come in, are collected or are overtaken by the last message.
THEOREM GetsAreComplete == Spec => []GetComplete
<1>1. Spec => [](QueryInv /\ CountInv)
  BY InitInv, CountInit, QueryStep, CountStep, PTL DEF Spec
<1>2. ASSUME QueryInv, CountInv, get = "ok", live = {}, NEW q \in Query
      PROVE  From(replies, q) = From(wire[q], "reply")
  <2>1. chan = <<>> /\ replies \o chan = replies
    BY <1>2, CountTypes DEF CountInv
  <2>2. wire[q] \in Seq({"reply", "final"}) /\ arrived[q] \in Nat /\ arrived[q] <= Len(wire[q])
    BY <1>2, CountTypes DEF CountInv
  <2>3. handle[q] = "none" => Len(wire[q]) = 0
    BY <1>2 DEF QueryInv, SentInv
  <2>4. arrived[q] = Len(wire[q])
    BY <1>2, <2>2, <2>3 DEF CountInv
  <2>5. Got(q) = {i \in DOMAIN wire[q] : wire[q][i] = "reply"}
    BY <2>2, <2>4 DEF Got
  <2>6. From(replies \o chan, q) = Cardinality(Got(q))
    BY <1>2 DEF CountInv
  <2>7. From(wire[q], "reply") = Cardinality(Got(q))
    BY <2>5 DEF From
  <2> QED
    BY <2>1, <2>6, <2>7
<1>3. QueryInv /\ CountInv => GetComplete
  BY <1>2 DEF GetComplete
<1> QED
  BY <1>1, <1>3, PTL
-----------------------------------------------------------------------------
(* ResponseFinal comes, and no get waits for it in vain.                   *)

\* What FinalSent is about: nothing refers to the query any more, or a final
\* reply has begun.  Until ResponseFinal is sent somebody has to send it; what
\* was sent is sent for good.
Owed(q) == handle[q] = "unreachable" \/ \E c \in Caller : Finishing(c, q)
SendsWhatItOwes(q) ==
  /\ Owed(q) => Owed(q)' \/ IsFinal(q)'
  /\ IsFinal(q) => IsFinal(q)'
FinalComes == [][\A q \in Query : SendsWhatItOwes(q)]_vars

\* A get waits only for a queryable it reached, and for one whose handle is gone
\* only while something that was sent has not come in.
NoVainWait ==
  \A q \in live : handle[q] # "none" /\ (handle[q] = "gone" => arrived[q] < Len(wire[q]))

\* The destructor empties the query, only the callback fills it, and the
\* argument of a call is held.
LEMMA HandleMoves ==
  ASSUME TypeOK, [Next]_vars, NEW q \in Query
  PROVE  /\ handle[q] = "unreachable" =>
              handle'[q] = "unreachable" \/ (handle'[q] = "gone" /\ ~option_query'[q])
         /\ handle[q] = "held" /\ (\E c \in Caller : call[c].query = q) => handle'[q] = "held"
         /\ ~option_query[q] /\ handle[q] # "callback" => ~option_query'[q]
         /\ handle'[q] = "gone" => handle[q] \in {"unreachable", "gone"}
         /\ handle'[q] = "none" => handle[q] = "none"
<1> DEFINE Moves == /\ handle[q] = "unreachable" =>
                         handle'[q] = "unreachable" \/ (handle'[q] = "gone" /\ ~option_query'[q])
                    /\ handle[q] = "held" /\ (\E c \in Caller : call[c].query = q) => handle'[q] = "held"
                    /\ ~option_query[q] /\ handle[q] # "callback" => ~option_query'[q]
                    /\ handle'[q] = "gone" => handle[q] \in {"unreachable", "gone"}
                    /\ handle'[q] = "none" => handle[q] = "none"
<1>1. handle \in [Query -> Handle] /\ option_query \in [Query -> BOOLEAN]
  BY DEF TypeOK
<1>2. CASE UNCHANGED <<handle, option_query>>
  BY <1>2
<1>3. ASSUME NEW r \in Query, Deliver(r) PROVE Moves
  BY <1>1, <1>3 DEF Deliver, Wrap
<1>4. ASSUME NEW r \in Query, Release(r) PROVE Moves
  BY <1>1, <1>4 DEF Release
<1>5. ASSUME NEW r \in Query, Destroy(r) PROVE Moves
  BY <1>1, <1>5 DEF Destroy
<1>6. ASSUME NEW c \in Caller, Begin(c) PROVE Moves
  <2>1. handle' = handle /\ option_query[call[c].query]
        /\ option_query' = [option_query EXCEPT ![call[c].query] = ~call[c].final]
    BY <1>6 DEF Begin
  <2>2. ~option_query[q] => option_query'[q] = option_query[q]
    BY <1>1, <2>1
  <2> QED
    BY <2>1, <2>2
<1> QED
  BY <1>2, <1>3, <1>4, <1>5, <1>6
     DEF Next, Replying, query_reply, query_reply_error, query_reply_delete, Enter, Lock, BadOption,
         Gone, ReturnGone, Reply, DropQuery, Arrive, Cut, Receive, Timeout, Disconnected, End,
         vars, getter

LEMMA WireSteps ==
  ASSUME QueryInv, [Next]_vars
  PROVE  wire' = wire \/ \E r \in Query, x \in {"reply", "final"} : Sends(r, x)
<1>1. ASSUME Cut \/ Receive \/ Timeout \/ Disconnected \/ \E r \in Query : Arrive(r)
      PROVE  wire' = wire
  BY <1>1 DEF Cut, Receive, Timeout, Disconnected, End, Arrive
<1> QED
  BY <1>1, StepKinds

\* Whoever sends, what is final stays so.
LEMMA FinalStays ==
  ASSUME QueryInv, [Next]_vars, NEW q \in Query, IsFinal(q)
  PROVE  IsFinal(q)'
<1>1. CASE wire' = wire
  BY <1>1, SendsNothing
<1>2. ASSUME NEW r \in Query, NEW x \in {"reply", "final"}, Sends(r, x) PROVE IsFinal(q)'
  <2>1. r # q /\ ~IsFinal(r) /\ Put(r, x)
    BY <1>2 DEF Sends
  <2> QED
    BY <2>1, PutSends DEF QueryInv
<1> QED
  BY <1>1, <1>2, WireSteps

LEMMA OwedStep ==
  ASSUME QueryInv, QueryInv', [Next]_vars, NEW q \in Query
  PROVE  SendsWhatItOwes(q)
<1>1. ASSUME Owed(q), ~Owed(q)' PROVE IsFinal(q)'
  <2>1. \A c \in Caller : ~Finishing(c, q)'
    BY <1>1 DEF Owed
  <2>2. handle'[q] \in {"held", "unreachable", "gone"} /\ ~option_query'[q] => IsFinal(q)'
    BY <2>1 DEF QueryInv, SentInv
  <2>3. CASE handle[q] = "unreachable"
    <3>1. handle'[q] = "gone" /\ ~option_query'[q]
      BY <1>1, <2>3, HandleMoves DEF QueryInv, Owed
    <3> QED
      BY <2>2, <3>1
  <2>4. ASSUME NEW c \in Caller, Finishing(c, q) PROVE IsFinal(q)'
    <3>1. call[c].query = q /\ handle[q] = "held" /\ ~option_query[q]
      BY <2>4, NoneAssumption DEF QueryInv, UseInv, ArgInv, Finishing, Uses
    <3>2. handle'[q] = "held" /\ ~option_query'[q]
      BY <3>1, HandleMoves DEF QueryInv
    <3> QED
      BY <2>2, <3>2
  <2> QED
    BY <1>1, <2>3, <2>4 DEF Owed
<1> QED
  BY <1>1, FinalStays DEF SendsWhatItOwes

\* Whatever the other callers, the owners of the handle and the getter do
\* meanwhile, and whether zenoh took the reply or not: a final reply that was
\* begun, and a query nothing refers to any more, are owed ResponseFinal until
\* it is sent.
THEOREM FinalIsOwed == Spec => FinalComes
<1>1. QueryInv /\ QueryInv' /\ [Next]_vars => \A q \in Query : SendsWhatItOwes(q)
  BY OwedStep
<1> QED
  BY <1>1, InitInv, QueryStep, PTL DEF Spec, FinalComes
-----------------------------------------------------------------------------
\* A getter waits for a query until its ResponseFinal comes in; a handle that is
\* gone has sent it.
WaitInv ==
  \A q \in Query :
    /\ q \in live => handle[q] # "none" /\ \A i \in 1 .. arrived[q] : wire[q][i] # "final"
    /\ handle[q] = "gone" => IsFinal(q)

LEMMA WaitStep ==
  ASSUME QueryInv, QueryInv', CountInv, WaitInv, [Next]_vars
  PROVE  WaitInv'
<1> SUFFICES ASSUME NEW q \in Query
             PROVE  /\ q \in live' => handle'[q] # "none" /\ \A i \in 1 .. arrived'[q] : wire'[q][i] # "final"
                    /\ handle'[q] = "gone" => IsFinal(q)'
  BY DEF WaitInv
<1>1. ASSUME handle'[q] = "gone" PROVE IsFinal(q)'
  <2>1. CASE handle[q] = "gone"
    BY <2>1, FinalStays DEF WaitInv
  <2>2. CASE handle[q] = "unreachable"
    <3>1. \A c \in Caller : ~Finishing(c, q)'
      BY <1>1, NoneAssumption DEF QueryInv, ArgInv, Finishing, Uses
    <3> QED
      BY <1>1, <2>2, <3>1, OwedStep DEF SendsWhatItOwes, Owed
  <2> QED
    BY <1>1, <2>1, <2>2, HandleMoves DEF QueryInv
<1>2. /\ wire \in [Query -> Seq({"reply", "final"})] /\ arrived \in [Query -> Nat]
      /\ wire[q] \in Seq({"reply", "final"}) /\ arrived[q] \in Nat /\ Len(wire[q]) \in Nat
      /\ handle \in [Query -> Handle] /\ arrived[q] <= Len(wire[q])
  BY CountTypes DEF CountInv
<1>3. ASSUME q \in live'
      PROVE  handle'[q] # "none" /\ \A i \in 1 .. arrived'[q] : wire'[q][i] # "final"
  <2>1. CASE Cut \/ Receive \/ Timeout \/ Disconnected
    BY <1>3, <2>1 DEF Cut, Receive, Timeout, Disconnected, End, WaitInv
  <2>2. ASSUME NEW r \in Query, Arrive(r)
        PROVE  handle'[q] # "none" /\ \A i \in 1 .. arrived'[q] : wire'[q][i] # "final"
    <3>1. /\ UNCHANGED <<handle, wire>> /\ arrived' = [arrived EXCEPT ![r] = @ + 1]
          /\ live' \subseteq live
          /\ wire[r][arrived[r] + 1] = "final" => r \notin live'
      BY <2>2 DEF Arrive
    <3>2. q \in live /\ handle[q] # "none" /\ \A i \in 1 .. arrived[q] : wire[q][i] # "final"
      BY <1>3, <3>1 DEF WaitInv
    <3>3. CASE q = r
      <4>1. arrived'[q] = arrived[q] + 1 /\ wire[q][arrived[q] + 1] # "final"
        BY <1>2, <1>3, <3>1, <3>3
      <4> QED
        BY <1>2, <3>1, <3>2, <4>1
    <3>4. CASE q # r
      BY <1>2, <3>1, <3>2, <3>4
    <3> QED
      BY <3>3, <3>4
  <2>3. CASE UNCHANGED getter
    <3>1. /\ handle[q] # "none" /\ arrived' = arrived
          /\ \A i \in 1 .. arrived[q] : wire[q][i] # "final"
      BY <1>3, <2>3 DEF WaitInv, getter
    <3>2. handle'[q] # "none"
      BY <2>3, <3>1, HandleMoves DEF QueryInv
    <3>3. \A i \in 1 .. Len(wire[q]) : wire'[q][i] = wire[q][i]
      <4>1. ASSUME NEW r \in Query, NEW x \in {"reply", "final"}, Put(r, x)
            PROVE  \A i \in 1 .. Len(wire[q]) : wire'[q][i] = wire[q][i]
        BY <1>2, <4>1 DEF Put
      <4> QED
        BY <4>1, WireSteps DEF Sends
    <3> QED
      BY <1>2, <3>1, <3>2, <3>3
  <2> QED
    BY <2>1, <2>2, <2>3, StepKinds
<1> QED
  BY <1>1, <1>3

\* No get waits in vain: a queryable whose handle is gone has sent the getter
\* all it will, ResponseFinal last, and the getter waits only until that came.
THEOREM NoGetWaitsInVain == Spec => []NoVainWait
<1>1. Init => WaitInv
  <2> SUFFICES ASSUME Init PROVE WaitInv
    OBVIOUS
  <2> QED
    BY DEF Init, WaitInv
<1>2. Spec => [](QueryInv /\ CountInv /\ WaitInv)
  BY <1>1, InitInv, CountInit, QueryStep, CountStep, WaitStep, PTL DEF Spec
<1>3. ASSUME QueryInv, CountInv, WaitInv, NEW q \in live
      PROVE  handle[q] # "none" /\ (handle[q] = "gone" => arrived[q] < Len(wire[q]))
  <2>1. /\ q \in Query /\ arrived[q] \in Nat /\ Len(wire[q]) \in Nat
        /\ handle[q] # "none" /\ \A i \in 1 .. arrived[q] : wire[q][i] # "final"
    BY <1>3, CountTypes DEF WaitInv
  <2>2. ASSUME handle[q] = "gone" PROVE arrived[q] < Len(wire[q])
    <3>1. PICK i \in 1 .. Len(wire[q]) : wire[q][i] = "final"
      BY <1>3, <2>1, <2>2 DEF WaitInv, IsFinal
    <3> QED
      BY <2>1, <3>1
  <2> QED
    BY <2>1, <2>2
<1>4. QueryInv /\ CountInv /\ WaitInv => NoVainWait
  BY <1>3 DEF NoVainWait
<1> QED
  BY <1>2, <1>4, PTL
==========================================================================
