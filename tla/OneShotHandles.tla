-------------------------- MODULE OneShotHandles --------------------------
(***************************************************************************)
(* The handles that keep a zenoh object in a lock of their own: liveliness *)
(* tokens (Mutex), matching listeners (Mutex) and scouts (RwLock, only     *)
(* ever locked to write).  The three have the same code but for their      *)
(* destructors.  A token or a listener does not keep its parent (session;  *)
(* publisher or querier) alive, and a scout has none.                      *)
(***************************************************************************)
EXTENDS Naturals

CONSTANTS
  Resource, KindOf,
  Parent, ParentOf,
  Caller,            \* processes that call the NIFs
  TokenMayRefuse,    \* zenoh may refuse the undeclaration of an orphan token
  None

ASSUME KindAssumption == KindOf \in [Resource -> {"token", "listener", "scout"}]
ASSUME ParentAssumption ==
  /\ None \notin Parent \cup Resource
  /\ ParentOf \in [Resource -> Parent \cup {None}]
  /\ \A r \in Resource : ParentOf[r] = None <=> KindOf[r] = "scout"
ASSUME RefuseAssumption == TokenMayRefuse \in BOOLEAN

VARIABLES
  open,    \* parents that have not ended
  zenoh,   \* each zenoh object: "none", "live" or "ended"
  option,  \* handles whose lock has Some(object)
  handle,  \* each handle: "none", "held", "dropped", "freed", "panicked"
  pc, on,  \* the call each caller runs, and on what
  undeclared, \* the outcomes of the undeclarations of each object, as zenoh saw them
  told     \* what callers were answered

vars == <<open, zenoh, option, handle, pc, on, undeclared, told>>

TypeOK ==
  /\ open \subseteq Parent
  /\ zenoh \in [Resource -> {"none", "live", "ended"}]
  /\ option \subseteq Resource
  /\ handle \in [Resource -> {"none", "held", "dropped", "freed", "panicked"}]
  /\ pc \in [Caller -> {"idle", "lock", "undeclare"}]
  /\ on \in [Caller -> Resource \cup {None}]
  /\ \A c \in Caller : pc[c] = "idle" <=> on[c] = None
  /\ undeclared \in [Resource -> {"none", "ok", "error", "twice"}]
  /\ told \in [Resource -> SUBSET {"ok", "error", "already"}]

Init ==
  /\ open = Parent
  /\ zenoh = [r \in Resource |-> "none"]
  /\ option = {}
  /\ handle = [r \in Resource |-> "none"]
  /\ pc = [c \in Caller |-> "idle"] /\ on = [c \in Caller |-> None]
  /\ undeclared = [r \in Resource |-> "none"]
  /\ told = [r \in Resource |-> {}]

Orphan(r) == ParentOf[r] \in Parent \ open

\* liveliness_declare_token, matching_declare_listener, scouting_declare_scout:
\* the parent is looked up (SessionRegistry) and the object made.
Declare(r) ==
  /\ handle[r] = "none" /\ ~Orphan(r)
  /\ zenoh' = [zenoh EXCEPT ![r] = "live"]
  /\ option' = option \cup {r}
  /\ handle' = [handle EXCEPT ![r] = "held"]
  /\ UNCHANGED <<open, pc, on, undeclared, told>>

\* The session closes, or the publisher or querier is undeclared: zenoh takes
\* down what they have.
EndParent(p) ==
  /\ p \in open
  /\ open' = open \ {p}
  /\ zenoh' = [r \in Resource |->
                 IF ParentOf[r] = p /\ zenoh[r] = "live" THEN "ended" ELSE zenoh[r]]
  /\ UNCHANGED <<option, handle, pc, on, undeclared, told>>

\* zenoh's undeclare or stop of r, with its outcome.
MayRefuse(r) == Orphan(r) /\ (KindOf[r] = "listener" \/ (KindOf[r] = "token" /\ TokenMayRefuse))
Outcome(r) == {"ok"} \cup (IF MayRefuse(r) THEN {"error"} ELSE {})
Undeclare(r, outcome) ==
  /\ outcome \in Outcome(r)
  /\ zenoh' = [zenoh EXCEPT ![r] = "ended"]
  /\ undeclared' = [undeclared EXCEPT ![r] = IF @ = "none" THEN outcome ELSE "twice"]
-----------------------------------------------------------------------------
(* liveliness_token_undeclare, matching_undeclare_listener and             *)
(* scouting_stop_scout.                                                    *)

Enter(c, r) ==
  /\ pc[c] = "idle" /\ handle[r] = "held"
  /\ pc' = [pc EXCEPT ![c] = "lock"]
  /\ on' = [on EXCEPT ![c] = r]
  /\ UNCHANGED <<open, zenoh, option, handle, undeclared, told>>

Return_KeepsArgument(c, answer) ==
  /\ pc' = [pc EXCEPT ![c] = "idle"]
  /\ UNCHANGED on
  /\ told' = [told EXCEPT ![on[c]] = @ \cup {answer}]
Return(c, answer) ==
  /\ pc' = [pc EXCEPT ![c] = "idle"]
  /\ on' = [on EXCEPT ![c] = None]
  /\ told' = [told EXCEPT ![on[c]] = @ \cup {answer}]

\* The guard lives until the call returns.
Locked_Briefly(r) == FALSE
Locked(r) == \E c \in Caller : pc[c] = "undeclare" /\ on[c] = r

Take(c) ==
  /\ pc[c] = "lock" /\ ~Locked(on[c]) /\ on[c] \in option
  /\ option' = option \ {on[c]}
  /\ pc' = [pc EXCEPT ![c] = "undeclare"]
  /\ UNCHANGED <<open, zenoh, handle, on, undeclared, told>>

Already(c) ==
  /\ pc[c] = "lock" /\ ~Locked(on[c]) /\ on[c] \notin option
  /\ Return(c, "already")
  /\ UNCHANGED <<open, zenoh, option, handle, undeclared>>

Finish(c) ==
  /\ pc[c] = "undeclare"
  /\ \E outcome \in Outcome(on[c]) : Undeclare(on[c], outcome) /\ Return(c, outcome)
  /\ UNCHANGED <<open, option, handle>>
-----------------------------------------------------------------------------
(* The destructor.                                                         *)

LetGo(r) ==
  /\ handle[r] = "held"
  /\ handle' = [handle EXCEPT ![r] = "dropped"]
  /\ UNCHANGED <<open, zenoh, option, pc, on, undeclared, told>>

\* A running call has a reference of its own.
Unreachable(r) == handle[r] = "dropped" /\ \A c \in Caller : on[c] # r

DropEmpty_Unwraps(r) ==
  /\ Unreachable(r) /\ r \notin option
  /\ handle' = [handle EXCEPT ![r] = IF KindOf[r] = "token" THEN "panicked" ELSE "freed"]
  /\ UNCHANGED <<open, zenoh, option, pc, on, undeclared, told>>
DropEmpty(r) ==
  /\ Unreachable(r) /\ r \notin option
  /\ handle' = [handle EXCEPT ![r] = "freed"]
  /\ UNCHANGED <<open, zenoh, option, pc, on, undeclared, told>>

\* The destructor of a token unwraps the outcome, that of a listener logs it,
\* and stopping a scout has none.
Drop_Forgets(r) ==
  /\ Unreachable(r) /\ r \in option
  /\ option' = option \ {r}
  /\ handle' = [handle EXCEPT ![r] = "freed"]
  /\ UNCHANGED <<open, zenoh, pc, on, undeclared, told>>
Drop(r) ==
  /\ Unreachable(r) /\ r \in option
  /\ option' = option \ {r}
  /\ \E outcome \in Outcome(r) :
       /\ Undeclare(r, outcome)
       /\ handle' = [handle EXCEPT ![r] =
                       IF KindOf[r] = "token" /\ outcome = "error" THEN "panicked" ELSE "freed"]
  /\ UNCHANGED <<open, pc, on, told>>
-----------------------------------------------------------------------------
Running(c) == Take(c) \/ Already(c) \/ Finish(c)
Destroy(r) == DropEmpty(r) \/ Drop(r)

Next ==
  \/ \E r \in Resource : Declare(r) \/ LetGo(r) \/ Destroy(r)
  \/ \E p \in Parent : EndParent(p)
  \/ \E c \in Caller : Running(c) \/ \E r \in Resource : Enter(c, r)

Spec == Init /\ [][Next]_vars

\* Calls run, and the BEAM collects what nothing refers to.
Fairness ==
  /\ \A c \in Caller : WF_vars(Running(c))
  /\ \A r \in Resource : WF_vars(Destroy(r))
FairSpec == Spec /\ Fairness
-----------------------------------------------------------------------------
Asked ==
  {r \in Resource : handle[r] \in {"dropped", "freed", "panicked"}
                    \/ told[r] # {} \/ \E c \in Caller : on[c] = r}

Promise == INSTANCE OneShot WITH status <- zenoh, asked <- Asked, won <- undeclared

\* Whatever callers race for a handle, with each other and its destructor: its
\* object is taken down once and for a reason, one caller at most is answered
\* for that, and "already undeclared" is said only when it is done.
KeepsPromise == Promise!Spec

\* The destructor of a token panics on a refusal of zenoh: it never does after
\* a caller was answered by liveliness_token_undeclare, whatever it was.
AnsweredNeverPanics == \A r \in Resource : told[r] # {} => handle[r] # "panicked"

\* What nothing refers to any more is taken down in zenoh, with or without its
\* parent, and its handle is freed.
UnreachableEnds ==
  \A r \in Resource :
    handle[r] = "dropped" ~> zenoh[r] = "ended" /\ handle[r] \in {"freed", "panicked"}
==========================================================================
