----------------------------- MODULE Delivery -----------------------------
(***************************************************************************)
(* From zenoh's callbacks to the processes: each callback (of a            *)
(* subscriber, a liveliness subscriber, a queryable, a matching listener   *)
(* or a scout) spawns a thread, which sends one message.  The processes    *)
(* are the GenServers of lib/zenohex/examples, one incarnation after the   *)
(* other under one name, and processes, GenServers or not, that undeclare  *)
(* their source and live on.  Each has one source, declared on a session   *)
(* they share.                                                             *)
(***************************************************************************)
EXTENDS Naturals, Sequences, FiniteSets

CONSTANTS
  Incarnations, \* a GenServer and its restarts, in order
  Plain,        \* processes that may undeclare their source and live on
  Client,       \* processes that stop the GenServer
  MaxEvents,    \* bound: samples, queries, statuses or hellos zenoh has for them
  None

Server == {Incarnations[i] : i \in DOMAIN Incarnations}
Pid == Server \cup Plain

ASSUME NamesAssumption ==
  /\ Incarnations \in Seq(Server)
  /\ \A i, j \in DOMAIN Incarnations : Incarnations[i] = Incarnations[j] => i = j
  /\ None \notin Pid \cup Client /\ MaxEvents \in Nat
  /\ Pid \cap {"idle", "ok", "error", "exit"} = {}

VARIABLES
  session,    \* "open" or "closed"
  proc,       \* each process: "new", "alive" or "dead"
  declared,   \* processes whose source zenoh calls back
  refused,    \* those zenoh would not undeclare: their handles find nothing any more
  undeclared, \* processes that were told :ok by the undeclaration
  published,  \* events zenoh has had
  flying,     \* threads: the event each brings, and to whom
  mailbox,    \* the messages of each process
  serving,    \* the client each GenServer stops for, undeclared but not dead yet
  handled,    \* what each process gave to its callback
  client      \* each client: idle, waiting for a server, or its answer

vars == <<session, proc, declared, refused, undeclared, published, flying, mailbox, serving, handled, client>>

Event(n) == [n |-> n, from |-> None]
Stop(c) == [n |-> 0, from |-> c]
Message == [n : 0 .. MaxEvents, from : Client \cup {None}]

TypeOK ==
  /\ session \in {"open", "closed"}
  /\ proc \in [Pid -> {"new", "alive", "dead"}]
  /\ declared \subseteq {p \in Pid : proc[p] # "new"} /\ refused \subseteq declared
  /\ undeclared \subseteq Pid \ declared
  /\ published \in 0 .. MaxEvents
  /\ flying \subseteq [to : Pid, n : 1 .. published]
  /\ mailbox \in [Pid -> Seq(Message)]
  /\ serving \in [Pid -> [to : Client \cup {None}, answer : {"none", "ok", "error"}]]
  /\ \A p \in Pid : serving[p].to # None =>
       /\ proc[p] = "alive" /\ p \notin declared \ refused /\ serving[p].answer # "none"
  /\ handled \in [Pid -> Seq(1 .. published)]
  /\ client \in [Client -> Server \cup {"idle", "ok", "error", "exit"}]

Nobody == [to |-> None, answer |-> "none"]

Init ==
  /\ session = "open" /\ published = 0
  /\ proc = [p \in Pid |-> "new"]
  /\ declared = {} /\ refused = {} /\ undeclared = {} /\ flying = {}
  /\ mailbox = [p \in Pid |-> <<>>] /\ handled = [p \in Pid |-> <<>>]
  /\ serving = [p \in Pid |-> Nobody]
  /\ client = [c \in Client |-> "idle"]

Waiting(c) == client[c] \in Server
Free(p) == proc[p] = "alive" /\ serving[p].to = None
Dies(p) ==
  /\ proc' = [proc EXCEPT ![p] = "dead"]
  /\ mailbox' = [mailbox EXCEPT ![p] = <<>>]
  /\ serving' = [serving EXCEPT ![p] = Nobody]
-----------------------------------------------------------------------------
(* zenoh, and the callbacks.                                               *)

\* Every source there is gets the event; each callback spawns a thread.
Publish(n) ==
  /\ n = published + 1 /\ n <= MaxEvents /\ session = "open"
  /\ published' = n
  /\ flying' = flying \cup {[to |-> p, n |-> n] : p \in declared}
  /\ UNCHANGED <<session, proc, declared, refused, undeclared, mailbox, serving, handled, client>>

\* OwnedEnv::run; a send to a dead process does nothing.
Send_Again(f) ==
  /\ f \in flying
  /\ mailbox' = [mailbox EXCEPT ![f.to] =
                   IF proc[f.to] = "alive" THEN Append(@, Event(f.n)) ELSE @]
  /\ flying' = IF proc[f.to] = "alive" /\ mailbox[f.to] # <<>> THEN flying ELSE flying \ {f}
  /\ UNCHANGED <<session, proc, declared, refused, undeclared, published, serving, handled, client>>
Send_IfIdle(f) ==
  /\ f \in flying
  /\ flying' = flying \ {f}
  /\ mailbox' = [mailbox EXCEPT ![f.to] =
                   IF proc[f.to] = "alive" /\ @ = <<>> THEN Append(@, Event(f.n)) ELSE @]
  /\ UNCHANGED <<session, proc, declared, refused, undeclared, published, serving, handled, client>>
Send(f) ==
  /\ f \in flying
  /\ flying' = flying \ {f}
  /\ mailbox' = [mailbox EXCEPT ![f.to] =
                   IF proc[f.to] = "alive" THEN Append(@, Event(f.n)) ELSE @]
  /\ UNCHANGED <<session, proc, declared, refused, undeclared, published, serving, handled, client>>

\* Another process closes the session: nothing calls back any more.
CloseSession ==
  /\ session = "open"
  /\ session' = "closed" /\ declared' = {} /\ refused' = {}
  /\ UNCHANGED <<proc, undeclared, published, flying, mailbox, serving, handled, client>>
-----------------------------------------------------------------------------
(* The processes.                                                          *)

\* start_link registers the name first, so one incarnation lives at a time.
init(p) ==
  /\ proc[p] = "new" /\ session = "open"
  /\ \A i, j \in DOMAIN Incarnations :
       j < i /\ Incarnations[i] = p => proc[Incarnations[j]] = "dead"
  /\ proc' = [proc EXCEPT ![p] = "alive"]
  /\ declared' = declared \cup {p}
  /\ UNCHANGED <<session, refused, undeclared, published, flying, mailbox, serving, handled, client>>

handle_info(p) ==
  /\ Free(p) /\ mailbox[p] # <<>> /\ Head(mailbox[p]).from = None
  /\ handled' = [handled EXCEPT ![p] = Append(@, Head(mailbox[p]).n)]
  /\ mailbox' = [mailbox EXCEPT ![p] = Tail(@)]
  /\ UNCHANGED <<session, proc, declared, refused, undeclared, published, flying, serving, client>>

\* The undeclaration takes the source out of its session's table and answers
\* :ok, or an error: when it is in no table, or when zenoh refuses it, which may
\* end the callbacks or not.
Undeclaration(p, answer) ==
  \/ /\ answer = "ok" /\ p \in declared \ refused
     /\ declared' = declared \ {p} /\ undeclared' = undeclared \cup {p}
     /\ UNCHANGED refused
  \/ /\ answer = "error"
     /\ declared' = declared \ ({p} \ refused)
     /\ UNCHANGED <<refused, undeclared>>
  \/ /\ answer = "error" /\ p \in declared
     /\ refused' = refused \cup {p}
     /\ UNCHANGED <<declared, undeclared>>

\* Whatever it is answered, the server stops.
handle_call_stop_NoReply(p) ==
  /\ Free(p) /\ mailbox[p] # <<>> /\ Head(mailbox[p]).from # None
  /\ mailbox' = [mailbox EXCEPT ![p] = Tail(@)]
  /\ \E answer \in {"ok", "error"} :
       /\ Undeclaration(p, answer)
       /\ serving' = [serving EXCEPT ![p] =
            IF answer = "ok" THEN [to |-> Head(mailbox[p]).from, answer |-> "ok"] ELSE Nobody]
  /\ UNCHANGED <<session, proc, published, flying, handled, client>>
handle_call_stop_AlwaysOk(p) ==
  /\ Free(p) /\ mailbox[p] # <<>> /\ Head(mailbox[p]).from # None
  /\ mailbox' = [mailbox EXCEPT ![p] = Tail(@)]
  /\ \E answer \in {"ok", "error"} : Undeclaration(p, answer)
  /\ serving' = [serving EXCEPT ![p] = [to |-> Head(mailbox[p]).from, answer |-> "ok"]]
  /\ UNCHANGED <<session, proc, published, flying, handled, client>>
handle_call_stop(p) ==
  /\ Free(p) /\ mailbox[p] # <<>> /\ Head(mailbox[p]).from # None
  /\ mailbox' = [mailbox EXCEPT ![p] = Tail(@)]
  /\ \E answer \in {"ok", "error"} :
       /\ Undeclaration(p, answer)
       /\ serving' = [serving EXCEPT ![p] = [to |-> Head(mailbox[p]).from, answer |-> answer]]
  /\ UNCHANGED <<session, proc, published, flying, handled, client>>

Stopped(p) ==
  /\ serving[p].to # None
  /\ client' = [client EXCEPT ![serving[p].to] = serving[p].answer]
  /\ Dies(p)
  /\ UNCHANGED <<session, declared, refused, undeclared, published, flying, handled>>

\* Between two messages a process undeclares its source, and goes on.
Undeclare(p) ==
  /\ p \in Plain /\ Free(p)
  /\ \E answer \in {"ok", "error"} : Undeclaration(p, answer)
  /\ UNCHANGED <<session, proc, published, flying, mailbox, serving, handled, client>>

\* The callback raises, a link breaks, a kill comes, or a plain process ends:
\* at any moment, also between the undeclaration of a stop and its answer.
Crash(p) ==
  /\ proc[p] = "alive"
  /\ Dies(p)
  /\ UNCHANGED <<session, declared, refused, undeclared, published, flying, handled, client>>

\* The handle was in the state of the process: its destructor undeclares what
\* is still in the table.
Destroy(p) ==
  /\ proc[p] = "dead" /\ p \in declared \ refused
  /\ declared' = declared \ {p}
  /\ UNCHANGED <<session, proc, refused, undeclared, published, flying, mailbox, serving, handled, client>>
-----------------------------------------------------------------------------
(* stop(name): GenServer.call.                                             *)

stop(c) ==
  /\ client[c] = "idle"
  /\ \/ \E p \in Server :
          /\ proc[p] = "alive"
          /\ mailbox' = [mailbox EXCEPT ![p] = Append(@, Stop(c))]
          /\ client' = [client EXCEPT ![c] = p]
     \/ /\ \A p \in Server : proc[p] # "alive"
        /\ client' = [client EXCEPT ![c] = "exit"]
        /\ UNCHANGED mailbox
  /\ UNCHANGED <<session, proc, declared, refused, undeclared, published, flying, serving, handled>>

Down(c) ==
  /\ Waiting(c) /\ proc[client[c]] = "dead"
  /\ client' = [client EXCEPT ![c] = "exit"]
  /\ UNCHANGED <<session, proc, declared, refused, undeclared, published, flying, mailbox, serving, handled>>
-----------------------------------------------------------------------------
Serve(p) == handle_info(p) \/ handle_call_stop(p) \/ Stopped(p)

Next ==
  \/ \E n \in 1 .. MaxEvents : Publish(n)
  \/ \E f \in flying : Send(f)
  \/ CloseSession
  \/ \E p \in Pid : init(p) \/ Serve(p) \/ Undeclare(p) \/ Crash(p) \/ Destroy(p)
  \/ \E c \in Client : stop(c) \/ Down(c)

Spec == Init /\ [][Next]_vars

\* Threads, processes and monitors run.
Fairness ==
  /\ \A p \in Pid, n \in 1 .. MaxEvents : WF_vars(Send([to |-> p, n |-> n]))
  /\ \A p \in Pid : WF_vars(Serve(p))
  /\ \A c \in Client : WF_vars(Down(c))
FairSpec == Spec /\ Fairness
-----------------------------------------------------------------------------
\* However its thread is delayed, and whichever incarnations have sources, an
\* event is given to the callback of a server once at most.
HandledOnce ==
  \A p, q \in Server : \A i \in DOMAIN handled[p], j \in DOMAIN handled[q] :
    handled[p][i] = handled[q][j] => p = q /\ i = j

\* A client is told :ok only by a server that undeclared its source, and of
\* each server one client at most.
OkMeansUndeclared ==
  Cardinality({c \in Client : client[c] = "ok"}) <= Cardinality(undeclared \cap Server)

\* In whatever order the threads run, every event a callback was called with
\* is handled by its process, unless that dies or is stopped first.
NoneLost ==
  \A p \in Pid, n \in 1 .. MaxEvents :
    [to |-> p, n |-> n] \in flying
    ~> (\E i \in DOMAIN handled[p] : handled[p][i] = n) \/ proc[p] = "dead"

\* Who stops a server hears of it, whether its session is closed, it crashes,
\* or another client stops it first.
ClientsAnswered == \A c \in Client : Waiting(c) ~> ~Waiting(c)
==========================================================================
