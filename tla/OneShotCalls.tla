--------------------------- MODULE OneShotCalls ---------------------------
(***************************************************************************)
(* Zenohex.put, delete and get (lib/zenohex.ex): open a session, work on   *)
(* it, close it after.  They are clients of what SessionContract promises. *)
(* A caller makes one call; its process may be killed in between two NIFs. *)
(***************************************************************************)
EXTENDS Naturals

CONSTANTS Client, Sess, None

ASSUME NoneAssumption == None \notin Sess

EntId == {}

VARIABLES
  opened, open, decl, held, eheld, asked,  \* of SessionContract
  call,    \* "idle", "open", "work", "close", "closing", then how the call ended
  session  \* the session of each call

contract == <<opened, open, decl, held, eheld, asked>>
vars == <<contract, call, session>>

Contract == INSTANCE SessionContract

TypeOK ==
  /\ open \subseteq opened /\ opened \subseteq Sess /\ held \subseteq opened
  /\ decl = {} /\ eheld = {}
  /\ asked \in [Client -> Sess \cup {None}]
  /\ call \in [Client -> {"idle", "open", "work", "close", "closing", "returned", "raised", "killed"}]
  /\ session \in [Client -> Sess \cup {None}]
  /\ \A c, d \in Client : session[c] = session[d] /\ session[c] # None => c = d

Init ==
  /\ Contract!Init
  /\ call = [c \in Client |-> "idle"]
  /\ session = [c \in Client |-> None]

Running == {"open", "work", "close", "closing"}
Goes(c, from, to) == call[c] = from /\ call' = [call EXCEPT ![c] = to]

Start(c) == Goes(c, "idle", "open") /\ UNCHANGED <<contract, session>>

\* {:ok, session_id} = Session.open()
Open(c) ==
  /\ Goes(c, "open", "work")
  /\ \E s \in Sess : Contract!Open(s) /\ session' = [session EXCEPT ![c] = s]
OpenFails(c) == Goes(c, "open", "raised") /\ UNCHANGED <<contract, session>>

\* put, delete or get on the session: ok, an error, or a raise.
Work_NoAfter(c) ==
  /\ call[c] = "work"
  /\ \E next \in {"close", "raised"} : call' = [call EXCEPT ![c] = next]
  /\ UNCHANGED <<contract, session>>
Work(c) == Goes(c, "work", "close") /\ UNCHANGED <<contract, session>>

\* after: Session.close; what it answers is dropped.
Close(c) ==
  /\ Goes(c, "close", "closing")
  /\ \/ Contract!Close(c, session[c])
     \/ session[c] \notin open /\ UNCHANGED contract
  /\ UNCHANGED session

Return(c) ==
  /\ call[c] = "closing"
  /\ \E next \in {"returned", "raised"} : call' = [call EXCEPT ![c] = next]
  /\ asked[c] # None => Contract!Answer(c)
  /\ asked[c] = None => UNCHANGED contract
  /\ UNCHANGED session

\* A NIF that runs is not interrupted.
Kill(c) ==
  /\ call[c] \in Running \ {"closing"}
  /\ call' = [call EXCEPT ![c] = "killed"]
  /\ UNCHANGED <<contract, session>>

\* The handle is on the stack of the call: it is let go when that is over.
LetGo_AfterClose(c) ==
  /\ call[c] \in {"returned", "raised"} /\ session[c] \in held \ open
  /\ Contract!LetGoSession(session[c])
  /\ UNCHANGED <<call, session>>
LetGo(c) ==
  /\ call[c] \in {"returned", "raised", "killed"} /\ session[c] \in held
  /\ Contract!LetGoSession(session[c])
  /\ UNCHANGED <<call, session>>

Reclaim(s) == Contract!ReclaimSession(s) /\ UNCHANGED <<call, session>>

Step(c) == Open(c) \/ OpenFails(c) \/ Work(c) \/ Close(c) \/ Return(c)
Next ==
  \/ \E c \in Client : Start(c) \/ Step(c) \/ Kill(c) \/ LetGo(c)
  \/ \E s \in Sess : Reclaim(s)

Spec == Init /\ [][Next]_vars

\* Calls end (the gets have a timeout), and the BEAM collects handles.
Fairness ==
  /\ \A c \in Client : WF_vars(Step(c)) /\ WF_vars(LetGo(c))
  /\ \A s \in Sess : WF_vars(Reclaim(s))
FairSpec == Spec /\ Fairness
-----------------------------------------------------------------------------
\* "Internally opens a session, ... and ensures the session is closed": it is
\* closed when the call returns or raises, whatever the work did.
ClosedAtTheEnd ==
  \A c \in Client : call[c] \in {"returned", "raised"} => session[c] \notin open

\* Even when a caller is killed before it comes to close, its session closes.
NothingStaysOpen == \A c \in Client : call[c] \in Running ~> session[c] \notin open
                                                             /\ call[c] \notin Running
==========================================================================
