--------------------------- MODULE QueryReply ---------------------------
(***************************************************************************)
(* One get and the queries it becomes (query.rs, session_get, querier_get, *)
(* the callback of session_declare_queryable).  Each queryable the get     *)
(* reaches has a query of its own, wrapped in a QueryResource: a mutex     *)
(* around an Option.  Any process that has the handle may reply, several   *)
(* at once.  Dropping the zenoh query sends ResponseFinal; when all have   *)
(* come in, the getter's channel is disconnected.                          *)
(*                                                                         *)
(* Replies to one get have different keys, so zenoh's consolidation leaves *)
(* them alone, and its transport keeps the order of one queryable's.       *)
(***************************************************************************)
EXTENDS Naturals, Sequences, FiniteSets

CONSTANTS
  Query,    \* the queries of the get
  Caller,   \* Elixir processes that reply
  MaxSent,  \* bound: no reply is begun on a query that sent this many
  None

ASSUME MaxSentAssumption == MaxSent \in Nat
ASSUME NoneAssumption == None \notin Query

VARIABLES
  handle,        \* the handle (ResourceArc<QueryResource>) of each query
  option_query,  \* the Option in the QueryResource is Some
  wire,          \* what was sent for each query, for good
  pc, call,      \* the reply each caller runs
  arrived,       \* how much of wire has come in at the getter
  live,          \* queries whose ResponseFinal has not come in
  cut,           \* zenoh has given up on the get
  chan,          \* channel_handler: who sent the replies in it
  replies,       \* what the getter has collected
  get            \* the getter: collecting, or how it ended

vars == <<handle, option_query, wire, pc, call, arrived, live, cut, chan,
          replies, get>>
getter == <<arrived, live, cut, chan, replies, get>>

Handle == {"none", "callback", "held", "unreachable", "gone"}
Call == [query : Query \cup {None}, final : BOOLEAN]
NoCall == [query |-> None, final |-> FALSE]

TypeOK ==
  /\ handle \in [Query -> Handle]
  /\ option_query \in [Query -> BOOLEAN]
  /\ wire \in [Query -> Seq({"reply", "final"})]
  /\ pc \in [Caller -> {"idle", "lock", "locked", "reply", "drop", "gone"}]
  /\ call \in [Caller -> Call]
  /\ \A c \in Caller : call[c].query = None <=> pc[c] = "idle"
  /\ arrived \in [Query -> Nat]
  /\ live \subseteq Query
  /\ cut \in BOOLEAN
  /\ chan \in Seq(Query \cup {None})
  /\ replies \in Seq(Query \cup {None})
  /\ get \in {"collect", "ok", "timeout", "disconnected"}

\* The get has reached the queryables of some of the queries.
Init ==
  /\ live \in SUBSET Query
  /\ handle = [q \in Query |-> IF q \in live THEN "callback" ELSE "none"]
  /\ option_query = [q \in Query |-> FALSE]
  /\ wire = [q \in Query |-> <<>>]
  /\ pc = [c \in Caller |-> "idle"]
  /\ call = [c \in Caller |-> NoCall]
  /\ arrived = [q \in Query |-> 0]
  /\ cut = FALSE /\ chan = <<>> /\ replies = <<>> /\ get = "collect"

Put(q, x) == wire' = [wire EXCEPT ![q] = Append(@, x)]
-----------------------------------------------------------------------------
(* The queryable.                                                          *)

\* ZenohexQuery::from wraps the query.
Wrap(q) == option_query' = [option_query EXCEPT ![q] = TRUE]

\* The thread of the callback sends the query to the process; if that is
\* dead, nothing refers to the handle.
Deliver(q) ==
  /\ handle[q] = "callback"
  /\ \E h \in {"held", "unreachable"} : handle' = [handle EXCEPT ![q] = h]
  /\ Wrap(q)
  /\ UNCHANGED <<wire, pc, call, getter>>

Enter(c, q, is_final) ==
  /\ pc[c] = "idle" /\ handle[q] = "held" /\ Len(wire[q]) < MaxSent
  /\ pc' = [pc EXCEPT ![c] = "lock"]
  /\ call' = [call EXCEPT ![c] = [query |-> q, final |-> is_final]]
  /\ UNCHANGED <<handle, option_query, wire, getter>>

query_reply(c, q, is_final) == Enter(c, q, is_final)
query_reply_error(c, q, is_final) == Enter(c, q, is_final)
query_reply_delete(c, q, is_final) == Enter(c, q, is_final)

\* handle_reply has the mutex from its first line to its last.
HasLock_WhileDeciding(c, q) == call[c].query = q /\ pc[c] = "locked"
HasLock(c, q) == call[c].query = q /\ pc[c] \in {"locked", "reply", "drop", "gone"}

Lock(c) ==
  /\ pc[c] = "lock" /\ \A d \in Caller : ~HasLock(d, call[c].query)
  /\ pc' = [pc EXCEPT ![c] = "locked"]
  /\ UNCHANGED <<handle, option_query, wire, call, getter>>

Return_KeepsHandle(c) ==
  /\ pc' = [pc EXCEPT ![c] = "idle"]
  /\ UNCHANGED call
Return(c) ==
  /\ pc' = [pc EXCEPT ![c] = "idle"]
  /\ call' = [call EXCEPT ![c] = NoCall]

\* opts is no keyword list, or final? no boolean.
BadOption(c) ==
  /\ pc[c] = "locked"
  /\ Return(c)
  /\ UNCHANGED <<handle, option_query, wire, getter>>

\* A final reply takes the query out, any other leaves it there.
Begin_Borrows(c) ==
  /\ pc[c] = "locked" /\ option_query[call[c].query]
  /\ pc' = [pc EXCEPT ![c] = "reply"]
  /\ UNCHANGED <<handle, option_query, wire, call, getter>>
Begin(c) ==
  /\ pc[c] = "locked" /\ option_query[call[c].query]
  /\ pc' = [pc EXCEPT ![c] = "reply"]
  /\ option_query' = [option_query EXCEPT ![call[c].query] = ~call[c].final]
  /\ UNCHANGED <<handle, wire, call, getter>>

Gone(c) ==
  /\ pc[c] = "locked" /\ ~option_query[call[c].query]
  /\ pc' = [pc EXCEPT ![c] = "gone"]
  /\ UNCHANGED <<handle, option_query, wire, call, getter>>

ReturnGone(c) ==
  /\ pc[c] = "gone"
  /\ Return(c)
  /\ UNCHANGED <<handle, option_query, wire, getter>>

\* reply_fn: it sends, or fails on an option or in zenoh.  The query of a
\* final reply is dropped either way.
Reply_KeepsOnError(c) ==
  /\ pc[c] = "reply"
  /\ \/ /\ Put(call[c].query, "reply")
        /\ IF call[c].final THEN pc' = [pc EXCEPT ![c] = "drop"] /\ UNCHANGED call
                            ELSE Return(c)
     \/ UNCHANGED wire /\ Return(c)
  /\ UNCHANGED <<handle, option_query, getter>>
Reply(c) ==
  /\ pc[c] = "reply"
  /\ Put(call[c].query, "reply") \/ UNCHANGED wire
  /\ IF call[c].final THEN pc' = [pc EXCEPT ![c] = "drop"] /\ UNCHANGED call
                      ELSE Return(c)
  /\ UNCHANGED <<handle, option_query, getter>>

DropQuery(c) ==
  /\ pc[c] = "drop"
  /\ Put(call[c].query, "final")
  /\ Return(c)
  /\ UNCHANGED <<handle, option_query, getter>>

\* No process has the handle any more; the arguments of a call are referred to.
Release(q) ==
  /\ handle[q] = "held" /\ \A c \in Caller : call[c].query # q
  /\ handle' = [handle EXCEPT ![q] = "unreachable"]
  /\ UNCHANGED <<option_query, wire, pc, call, getter>>

\* Dropping the QueryResource drops the query that is still in it.
Destroy_Forgets(q) ==
  /\ handle[q] = "unreachable"
  /\ handle' = [handle EXCEPT ![q] = "gone"]
  /\ UNCHANGED <<option_query, wire, pc, call, getter>>
Destroy(q) ==
  /\ handle[q] = "unreachable"
  /\ handle' = [handle EXCEPT ![q] = "gone"]
  /\ option_query' = [option_query EXCEPT ![q] = FALSE]
  /\ IF option_query[q] THEN Put(q, "final") ELSE UNCHANGED wire
  /\ UNCHANGED <<pc, call, getter>>
-----------------------------------------------------------------------------
(* The getter.                                                             *)

Arrive(q) ==
  /\ get = "collect" /\ ~cut /\ arrived[q] < Len(wire[q])
  /\ arrived' = [arrived EXCEPT ![q] = @ + 1]
  /\ IF wire[q][arrived[q] + 1] = "final"
     THEN live' = live \ {q} /\ UNCHANGED chan
     ELSE chan' = Append(chan, q) /\ UNCHANGED live
  /\ UNCHANGED <<handle, option_query, wire, pc, call, cut, replies, get>>

\* zenoh's own timeout ends the query with an error reply, the closing of
\* the session without one.
Cut ==
  /\ get = "collect" /\ ~cut /\ live # {}
  /\ cut' = TRUE
  /\ chan' \in {chan, Append(chan, None)}
  /\ UNCHANGED <<handle, option_query, wire, pc, call, arrived, live, replies, get>>

\* recv_deadline takes what is in the channel first, whatever the time.
Receive ==
  /\ get = "collect" /\ chan # <<>>
  /\ replies' = Append(replies, Head(chan))
  /\ chan' = Tail(chan)
  /\ UNCHANGED <<handle, option_query, wire, pc, call, arrived, live, cut, get>>

End(error) ==
  /\ get' = IF replies = <<>> THEN error ELSE "ok"
  /\ UNCHANGED <<handle, option_query, wire, pc, call, arrived, live, cut, chan, replies>>

Timeout ==
  /\ get = "collect" /\ chan = <<>> /\ live # {} /\ ~cut
  /\ End("timeout")

Disconnected_Undrained ==
  /\ get = "collect" /\ (live = {} \/ cut)
  /\ End("disconnected")
Disconnected ==
  /\ get = "collect" /\ chan = <<>> /\ (live = {} \/ cut)
  /\ End("disconnected")
-----------------------------------------------------------------------------
Replying(c) == \/ BadOption(c) \/ Begin(c) \/ Gone(c) \/ ReturnGone(c)
               \/ Reply(c) \/ DropQuery(c)
Next ==
  \/ \E q \in Query : Deliver(q) \/ Release(q) \/ Destroy(q) \/ Arrive(q)
  \/ \E c \in Caller, q \in Query, f \in BOOLEAN :
       query_reply(c, q, f) \/ query_reply_error(c, q, f) \/ query_reply_delete(c, q, f)
  \/ \E c \in Caller : Lock(c) \/ Replying(c)
  \/ Cut \/ Receive \/ Timeout \/ Disconnected

Spec == Init /\ [][Next]_vars

\* Threads run, mutexes are handed on, the network delivers.  No deadline
\* need pass, and no process need reply or let go of a handle.
Fairness ==
  /\ \A q \in Query : WF_vars(Deliver(q)) /\ WF_vars(Destroy(q)) /\ WF_vars(Arrive(q))
  /\ \A c \in Caller : SF_vars(Lock(c)) /\ WF_vars(Replying(c))
  /\ WF_vars(Receive) /\ WF_vars(Disconnected)
FairSpec == Spec /\ Fairness
-----------------------------------------------------------------------------
\* ResponseFinal is sent once, and no reply after it, however many processes
\* reply at once and whichever of them finally.
NothingAfterFinal ==
  \A q \in Query : \A i \in 1 .. Len(wire[q]) :
    wire[q][i] = "final" => i = Len(wire[q])

IsFinal(q) == \E i \in 1 .. Len(wire[q]) : wire[q][i] = "final"

\* What the error of handle_reply says: "QueryResource has already been
\* dropped, which means ResponseFinal has already been sent."
GoneMeansFinalSent ==
  \A c \in Caller : pc[c] = "gone" => IsFinal(call[c].query)

\* A get that ends because every queryable is done has every reply that any
\* of them sent.
From(s, x) == Cardinality({i \in DOMAIN s : s[i] = x})
GetComplete ==
  get = "ok" /\ live = {} =>
    \A q \in Query : From(replies, q) = From(wire[q], "reply")

\* A final reply that was begun, and a query nothing refers to any more,
\* bring ResponseFinal, though the reply may fail.
FinalSent ==
  \A q \in Query :
    (handle[q] = "unreachable"
      \/ \E c \in Caller : pc[c] = "reply" /\ call[c].query = q /\ call[c].final)
    ~> IsFinal(q)

\* A get does not wait for its deadline when no queryable has its query any
\* more.
GetEndsEarly ==
  (\A q \in Query : handle[q] \in {"none", "unreachable", "gone"}) ~> get # "collect"
==========================================================================
