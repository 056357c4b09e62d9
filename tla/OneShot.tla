----------------------------- MODULE OneShot -----------------------------
(***************************************************************************)
(* What liveliness tokens, matching listeners and scouts promise: a        *)
(* resource lives until somebody asks for its end, lets go of its handle   *)
(* or ends its parent; it is taken down once, with one answer; and who is  *)
(* told that this was done already can rely on it.                         *)
(***************************************************************************)
CONSTANTS Resource, Parent, ParentOf

VARIABLES
  open,   \* parents (sessions, publishers, queriers) that have not ended
  status, \* each resource in zenoh
  asked,  \* resources whose end somebody has asked for
  won,    \* the outcome of taking the resource down
  told    \* the answers callers were given

vars == <<open, status, asked, won, told>>

Init ==
  /\ open = Parent /\ asked = {}
  /\ status = [r \in Resource |-> "none"]
  /\ won = [r \in Resource |-> "none"]
  /\ told = [r \in Resource |-> {}]

Orphan(r) == ParentOf[r] \in Parent \ open

Declare(r) ==
  /\ status[r] = "none" /\ ~Orphan(r)
  /\ status' = [status EXCEPT ![r] = "live"]
  /\ UNCHANGED <<open, asked, won, told>>

Ask(r) ==
  /\ status[r] # "none"
  /\ asked' = asked \cup {r}
  /\ UNCHANGED <<open, status, won, told>>

\* Only for an orphan may zenoh refuse.
Finish(r, outcome, answer) ==
  /\ r \in asked /\ won[r] = "none"
  /\ outcome = "ok" \/ (outcome = "error" /\ Orphan(r))
  /\ status' = [status EXCEPT ![r] = "ended"]
  /\ won' = [won EXCEPT ![r] = outcome]
  /\ told' = [told EXCEPT ![r] = @ \cup answer]
  /\ UNCHANGED <<open, asked>>

Already(r) ==
  /\ r \in asked /\ won[r] # "none"
  /\ told' = [told EXCEPT ![r] = @ \cup {"already"}]
  /\ UNCHANGED <<open, status, asked, won>>

EndParent(p) ==
  /\ open' = open \ {p}
  /\ status' = [r \in Resource |->
                  IF ParentOf[r] = p /\ status[r] = "live" THEN "ended" ELSE status[r]]
  /\ UNCHANGED <<asked, won, told>>

Next ==
  \/ \E r \in Resource : Declare(r) \/ Ask(r) \/ Already(r)
  \/ \E r \in Resource, outcome \in {"ok", "error"} :
       Finish(r, outcome, {outcome}) \/ Finish(r, outcome, {})
  \/ \E p \in Parent : EndParent(p)

Spec == Init /\ [][Next]_vars
==========================================================================
