---------------------------- MODULE OneShotProofs ----------------------------
(***************************************************************************)
(* Theorems about OneShotHandles, for any resources, parents and callers:  *)
(* its types, that the destructor of a token does not panic once a caller  *)
(* was answered, that it implements OneShot, and that nothing is left      *)
(* behind in zenoh.                                                        *)
(***************************************************************************)
EXTENDS OneShotHandles, TLAPS

\* One caller at a time is past the lock of a handle.
MutexInv ==
  \A c, d \in Caller :
    pc[c] = "undeclare" /\ pc[d] = "undeclare" /\ on[c] = on[d] => c = d

\* A handle that was not declared has nothing.
Unborn(r) ==
  handle[r] = "none" =>
    /\ r \notin option /\ zenoh[r] = "none" /\ undeclared[r] = "none" /\ told[r] = {}
    /\ \A c \in Caller : on[c] # r

\* An object is in its handle, or with one caller, or was undeclared once.
OneOwner(r) ==
  /\ r \in option => undeclared[r] = "none" /\ handle[r] \in {"held", "dropped"}
  /\ Locked(r) => r \notin option /\ undeclared[r] = "none"
  /\ handle[r] # "none" /\ r \notin option /\ ~Locked(r) => undeclared[r] \in {"ok", "error"}

InUse(r) ==
  /\ handle[r] # "none" => zenoh[r] # "none"
  /\ (\E c \in Caller : on[c] = r) => handle[r] \in {"held", "dropped"}

Answered(r) ==
  /\ told[r] # {} => r \notin option
  /\ handle[r] = "panicked" => told[r] = {}

HandlesInv ==
  /\ TypeOK
  /\ MutexInv
  /\ \A r \in Resource : Unborn(r) /\ OneOwner(r) /\ InUse(r) /\ Answered(r)
-----------------------------------------------------------------------------
LEMMA InitHandles == Init => HandlesInv
BY ParentAssumption DEF Init, HandlesInv, TypeOK, MutexInv, Unborn, OneOwner, InUse, Answered, Locked

LEMMA OutcomeOf ==
  ASSUME NEW r, NEW outcome \in Outcome(r)
  PROVE  outcome = "ok" \/ (outcome = "error" /\ Orphan(r))
BY DEF Outcome, MayRefuse

\* Who runs a call on a handle, and what a call has to begin with.
LEMMA OnResource ==
  ASSUME TypeOK, NEW c \in Caller, pc[c] # "idle"
  PROVE  on[c] \in Resource
BY DEF TypeOK

LEMMA TypeStep == HandlesInv /\ [Next]_vars => TypeOK'
<1> SUFFICES ASSUME HandlesInv, [Next]_vars PROVE TypeOK'
  OBVIOUS
<1> USE DEF HandlesInv, TypeOK
<1>1. ASSUME NEW r \in Resource, Declare(r) PROVE TypeOK'
  BY <1>1 DEF Declare
<1>2. ASSUME NEW r \in Resource, LetGo(r) PROVE TypeOK'
  BY <1>2 DEF LetGo
<1>3. ASSUME NEW r \in Resource, DropEmpty(r) PROVE TypeOK'
  BY <1>3 DEF DropEmpty
<1>4. ASSUME NEW r \in Resource, Drop(r) PROVE TypeOK'
  <2>1. PICK outcome \in Outcome(r) :
          /\ Undeclare(r, outcome)
          /\ handle' = [handle EXCEPT ![r] =
                 IF KindOf[r] = "token" /\ outcome = "error" THEN "panicked" ELSE "freed"]
    BY <1>4 DEF Drop
  <2>2. undeclared[r] = "none"
    BY <1>4 DEF OneOwner, Drop
  <2> QED
    BY <1>4, <2>1, <2>2, OutcomeOf DEF Drop, Undeclare
<1>5. ASSUME NEW p \in Parent, EndParent(p) PROVE TypeOK'
  BY <1>5 DEF EndParent
<1>6. ASSUME NEW c \in Caller, Take(c) PROVE TypeOK'
  BY <1>6 DEF Take
<1>7. ASSUME NEW c \in Caller, Already(c) PROVE TypeOK'
  BY <1>7, OnResource DEF Already, Return
<1>8. ASSUME NEW c \in Caller, Finish(c) PROVE TypeOK'
  <2>1. PICK outcome \in Outcome(on[c]) : Undeclare(on[c], outcome) /\ Return(c, outcome)
    BY <1>8 DEF Finish
  <2>2. on[c] \in Resource
    BY <1>8, OnResource DEF Finish
  <2>3. undeclared[on[c]] = "none"
    BY <1>8, <2>2 DEF OneOwner, Locked, Finish
  <2> QED
    BY <1>8, <2>1, <2>2, <2>3, OutcomeOf DEF Finish, Undeclare, Return
<1>9. ASSUME NEW c \in Caller, NEW r \in Resource, Enter(c, r) PROVE TypeOK'
  BY <1>9, ParentAssumption DEF Enter
<1>10. CASE UNCHANGED vars
  BY <1>10 DEF vars
<1> QED
  BY <1>1, <1>2, <1>3, <1>4, <1>5, <1>6, <1>7, <1>8, <1>9, <1>10 DEF Next, Running, Destroy

LEMMA MutexStep == HandlesInv /\ [Next]_vars => MutexInv'
<1> SUFFICES ASSUME HandlesInv, [Next]_vars PROVE MutexInv'
  OBVIOUS
<1> USE DEF HandlesInv, TypeOK, MutexInv
<1>1. ASSUME UNCHANGED <<pc, on>> PROVE MutexInv'
  BY <1>1
<1>2. ASSUME NEW c \in Caller, Take(c) PROVE MutexInv'
  BY <1>2 DEF Take, Locked
<1>3. ASSUME NEW c \in Caller, Already(c) \/ Finish(c) PROVE MutexInv'
  BY <1>3 DEF Already, Finish, Return
<1>4. ASSUME NEW c \in Caller, NEW r \in Resource, Enter(c, r) PROVE MutexInv'
  BY <1>4 DEF Enter
<1> QED
  BY <1>1, <1>2, <1>3, <1>4
  DEF Next, Running, Destroy, Declare, LetGo, DropEmpty, Drop, EndParent, vars

\* What each action leaves of what is said of one handle.
LEMMA HandleStep ==
  ASSUME HandlesInv, [Next]_vars, NEW r \in Resource
  PROVE  Unborn(r)' /\ OneOwner(r)' /\ InUse(r)' /\ Answered(r)'
<1> USE DEF Unborn, OneOwner, InUse, Answered
<1>0. TypeOK /\ MutexInv /\ Unborn(r) /\ OneOwner(r) /\ InUse(r) /\ Answered(r)
  BY DEF HandlesInv
<1>1. ASSUME NEW s \in Resource, Declare(s)
      PROVE  Unborn(r)' /\ OneOwner(r)' /\ InUse(r)' /\ Answered(r)'
  BY <1>0, <1>1 DEF Declare, TypeOK, Locked
<1>2. ASSUME NEW s \in Resource, LetGo(s)
      PROVE  Unborn(r)' /\ OneOwner(r)' /\ InUse(r)' /\ Answered(r)'
  BY <1>0, <1>2 DEF LetGo, TypeOK, Locked
<1>3. ASSUME NEW s \in Resource, DropEmpty(s)
      PROVE  Unborn(r)' /\ OneOwner(r)' /\ InUse(r)' /\ Answered(r)'
  BY <1>0, <1>3 DEF DropEmpty, Unreachable, TypeOK, Locked
<1>4. ASSUME NEW s \in Resource, Drop(s)
      PROVE  Unborn(r)' /\ OneOwner(r)' /\ InUse(r)' /\ Answered(r)'
  <2>1. PICK outcome \in Outcome(s) :
          /\ Undeclare(s, outcome)
          /\ handle' = [handle EXCEPT ![s] =
                 IF KindOf[s] = "token" /\ outcome = "error" THEN "panicked" ELSE "freed"]
    BY <1>4 DEF Drop
  <2>2. outcome \in {"ok", "error"}
    BY OutcomeOf
  <2>3. CASE s = r
    <3>1. undeclared[r] = "none" /\ told[r] = {} /\ \A c \in Caller : on[c] # r
      BY <1>0, <1>4, <2>3 DEF Drop, Unreachable
    <3>2. /\ undeclared'[r] = outcome /\ r \notin option' /\ zenoh'[r] = "ended"
          /\ handle'[r] \in {"panicked", "freed"} /\ told' = told /\ pc' = pc /\ on' = on
      BY <1>0, <1>4, <2>1, <2>3, <3>1 DEF Drop, Undeclare, TypeOK
    <3> QED
      BY <2>2, <3>1, <3>2 DEF Locked
  <2>4. CASE s # r
    <3>1. /\ undeclared'[r] = undeclared[r] /\ (r \in option' <=> r \in option)
          /\ zenoh'[r] = zenoh[r] /\ handle'[r] = handle[r]
          /\ told' = told /\ pc' = pc /\ on' = on
      BY <1>0, <1>4, <2>1, <2>4 DEF Drop, Undeclare, TypeOK
    <3> QED
      BY <1>0, <3>1 DEF Locked
  <2> QED
    BY <2>3, <2>4
<1>5. ASSUME NEW p \in Parent, EndParent(p)
      PROVE  Unborn(r)' /\ OneOwner(r)' /\ InUse(r)' /\ Answered(r)'
  BY <1>0, <1>5 DEF EndParent, TypeOK, Locked
<1>6. ASSUME NEW c \in Caller, Take(c)
      PROVE  Unborn(r)' /\ OneOwner(r)' /\ InUse(r)' /\ Answered(r)'
  <2>1. CASE on[c] = r
    BY <1>0, <1>6, <2>1 DEF Take, TypeOK, Locked
  <2>2. CASE on[c] # r
    BY <1>0, <1>6, <2>2 DEF Take, TypeOK, Locked
  <2> QED
    BY <2>1, <2>2
<1>7. ASSUME NEW c \in Caller, Already(c)
      PROVE  Unborn(r)' /\ OneOwner(r)' /\ InUse(r)' /\ Answered(r)'
  <2>0. on[c] \in Resource /\ None \notin Resource
    BY <1>0, <1>7, OnResource, ParentAssumption DEF Already
  <2>1. Locked(r)' <=> Locked(r)
    BY <1>0, <1>7, <2>0 DEF Already, Return, TypeOK, Locked
  <2>2. CASE on[c] = r
    BY <1>0, <1>7, <2>0, <2>1, <2>2 DEF Already, Return, TypeOK
  <2>3. CASE on[c] # r
    BY <1>0, <1>7, <2>0, <2>1, <2>3 DEF Already, Return, TypeOK
  <2> QED
    BY <2>2, <2>3
<1>8. ASSUME NEW c \in Caller, Finish(c)
      PROVE  Unborn(r)' /\ OneOwner(r)' /\ InUse(r)' /\ Answered(r)'
  <2>0. on[c] \in Resource /\ None \notin Resource
    BY <1>0, <1>8, OnResource, ParentAssumption DEF Finish
  <2>1. PICK outcome \in Outcome(on[c]) : Undeclare(on[c], outcome) /\ Return(c, outcome)
    BY <1>8 DEF Finish
  <2>2. outcome \in {"ok", "error"}
    BY OutcomeOf
  <2>3. CASE on[c] = r
    <3>1. r \notin option /\ undeclared[r] = "none" /\ handle[r] \in {"held", "dropped"}
      BY <1>0, <1>8, <2>3 DEF Finish, Locked
    <3>2. ~Locked(r)'
      BY <1>0, <1>8, <2>0, <2>1, <2>3 DEF Finish, Return, TypeOK, MutexInv, Locked
    <3>3. undeclared'[r] = outcome /\ option' = option /\ handle' = handle /\ zenoh'[r] = "ended"
      BY <1>0, <1>8, <2>1, <2>3, <3>1 DEF Finish, Undeclare, TypeOK
    <3> QED
      BY <2>2, <3>1, <3>2, <3>3
  <2>4. CASE on[c] # r
    <3>1. Locked(r)' <=> Locked(r)
      BY <1>0, <1>8, <2>0, <2>1, <2>4 DEF Finish, Return, TypeOK, Locked
    <3>2. /\ undeclared'[r] = undeclared[r] /\ option' = option /\ handle' = handle
          /\ zenoh'[r] = zenoh[r] /\ told'[r] = told[r]
      BY <1>0, <1>8, <2>0, <2>1, <2>4 DEF Finish, Undeclare, Return, TypeOK
    <3>3. \A d \in Caller : on'[d] = r => on[d] = r
      BY <1>0, <1>8, <2>0, <2>1 DEF Finish, Return, TypeOK
    <3> QED
      BY <1>0, <3>1, <3>2, <3>3
  <2> QED
    BY <2>3, <2>4
<1>9. ASSUME NEW c \in Caller, NEW s \in Resource, Enter(c, s)
      PROVE  Unborn(r)' /\ OneOwner(r)' /\ InUse(r)' /\ Answered(r)'
  <2>1. Locked(r)' <=> Locked(r)
    BY <1>0, <1>9 DEF Enter, TypeOK, Locked
  <2> QED
    BY <1>0, <1>9, <2>1 DEF Enter, TypeOK
<1>10. CASE UNCHANGED vars
  BY <1>0, <1>10 DEF vars, Locked
<1> QED
  BY <1>1, <1>2, <1>3, <1>4, <1>5, <1>6, <1>7, <1>8, <1>9, <1>10 DEF Next, Running, Destroy

LEMMA HandlesAlways == Spec => []HandlesInv
<1>1. HandlesInv /\ [Next]_vars => HandlesInv'
  <2> SUFFICES ASSUME HandlesInv, [Next]_vars PROVE HandlesInv'
    OBVIOUS
  <2> QED
    BY TypeStep, MutexStep, HandleStep DEF HandlesInv
<1> QED
  BY InitHandles, <1>1, PTL DEF Spec
-----------------------------------------------------------------------------
\* Every variable keeps its type; undeclared is never "twice", so no object is
\* ever undeclared a second time, by calls or destructor.
THEOREM HandlesTypeCorrect == Spec => []TypeOK
<1>1. HandlesInv => TypeOK
  BY DEF HandlesInv
<1> QED
  BY <1>1, HandlesAlways, PTL

\* Whoever was answered by liveliness_token_undeclare has not left the
\* destructor a token to unwrap.
THEOREM AnsweredTokensAreSafe == Spec => []AnsweredNeverPanics
<1>1. HandlesInv => AnsweredNeverPanics
  BY DEF HandlesInv, Answered, AnsweredNeverPanics
<1> QED
  BY <1>1, HandlesAlways, PTL
-----------------------------------------------------------------------------
LEMMA InitPromise == Init => Promise!Init
BY ParentAssumption DEF Init, Promise!Init, Asked

\* Each step of the handles is a step of OneShot, or leaves what it sees.
LEMMA StepPromise ==
  ASSUME HandlesInv, HandlesInv', [Next]_vars
  PROVE  [Promise!Next]_(Promise!vars)
<1>0. TypeOK /\ MutexInv
  BY DEF HandlesInv
<1>i. \A r \in Resource : Unborn(r) /\ OneOwner(r) /\ InUse(r) /\ Answered(r)
  BY DEF HandlesInv
<1>1. ASSUME NEW s \in Resource, Declare(s) PROVE Promise!Declare(s)
  <2>1. zenoh[s] = "none" /\ ~Promise!Orphan(s)
    BY <1>i, <1>1 DEF Declare, Unborn, Orphan, Promise!Orphan
  <2>2. Asked' = Asked
    BY <1>0, <1>1 DEF Declare, Asked, TypeOK
  <2> QED
    BY <1>1, <2>1, <2>2 DEF Declare, Promise!Declare
<1>2. ASSUME NEW s \in Resource, LetGo(s) PROVE Promise!Ask(s)
  <2>1. Asked' = Asked \cup {s}
    BY <1>0, <1>2 DEF LetGo, Asked, TypeOK
  <2> QED
    BY <1>i, <1>2, <2>1 DEF LetGo, InUse, Promise!Ask
<1>3. ASSUME NEW s \in Resource, DropEmpty(s) PROVE UNCHANGED Promise!vars
  <2>1. Asked' = Asked
    BY <1>0, <1>3 DEF DropEmpty, Unreachable, Asked, TypeOK
  <2> QED
    BY <1>3, <2>1 DEF DropEmpty, Promise!vars
<1>4. ASSUME NEW s \in Resource, Drop(s)
      PROVE  \E outcome \in {"ok", "error"} : Promise!Finish(s, outcome, {})
  <2>1. PICK outcome \in Outcome(s) :
          /\ Undeclare(s, outcome)
          /\ handle' = [handle EXCEPT ![s] =
                 IF KindOf[s] = "token" /\ outcome = "error" THEN "panicked" ELSE "freed"]
    BY <1>4 DEF Drop
  <2>2. outcome = "ok" \/ (outcome = "error" /\ Promise!Orphan(s))
    BY OutcomeOf DEF Orphan, Promise!Orphan
  <2>3. s \in Asked /\ undeclared[s] = "none"
    BY <1>i, <1>4 DEF Drop, Unreachable, Asked, OneOwner
  <2>4. Asked' = Asked
    BY <1>0, <1>4, <2>1 DEF Drop, Unreachable, Asked, TypeOK
  <2>5. told' = [told EXCEPT ![s] = @ \cup {}]
    BY <1>0, <1>4 DEF Drop, TypeOK
  <2>6. undeclared' = [undeclared EXCEPT ![s] = outcome]
    BY <1>0, <2>1, <2>3 DEF Undeclare, TypeOK
  <2>7. Promise!Finish(s, outcome, {})
    BY <1>4, <2>1, <2>2, <2>3, <2>4, <2>5, <2>6 DEF Drop, Undeclare, Promise!Finish
  <2> QED
    BY <2>2, <2>7
<1>5. ASSUME NEW p \in Parent, EndParent(p) PROVE Promise!EndParent(p)
  <2>1. Asked' = Asked
    BY <1>0, <1>5 DEF EndParent, Asked, TypeOK
  <2> QED
    BY <1>5, <2>1 DEF EndParent, Promise!EndParent
<1>6. ASSUME NEW c \in Caller, Take(c) PROVE UNCHANGED Promise!vars
  <2>1. Asked' = Asked
    BY <1>6 DEF Take, Asked
  <2> QED
    BY <1>6, <2>1 DEF Take, Promise!vars
<1>7. ASSUME NEW c \in Caller, Already(c)
      PROVE  on[c] \in Resource /\ Promise!Already(on[c])
  <2>0. on[c] \in Resource
    BY <1>0, <1>7, OnResource DEF Already
  <2>1. on[c] \in Asked /\ undeclared[on[c]] # "none"
    BY <1>i, <1>7, <2>0 DEF Already, Asked, OneOwner, InUse
  <2>2. told' = [told EXCEPT ![on[c]] = @ \cup {"already"}]
    BY <1>7 DEF Already, Return
  <2>3. Asked' = Asked
    <3>1. told'[on[c]] # {} /\ \A r \in Resource : r # on[c] => told'[r] = told[r]
      BY <1>0, <2>0, <2>2 DEF TypeOK
    <3>2. \A r \in Resource : r # on[c] =>
            ((\E d \in Caller : on'[d] = r) <=> (\E d \in Caller : on[d] = r))
      BY <1>0, <1>7, <2>0, ParentAssumption DEF Already, Return, TypeOK
    <3> QED
      BY <1>7, <2>1, <3>1, <3>2 DEF Already, Asked
  <2> QED
    BY <1>7, <2>0, <2>1, <2>2, <2>3 DEF Already, Promise!Already
<1>8. ASSUME NEW c \in Caller, Finish(c)
      PROVE  \E outcome \in {"ok", "error"} :
               on[c] \in Resource /\ Promise!Finish(on[c], outcome, {outcome})
  <2>0. on[c] \in Resource
    BY <1>0, <1>8, OnResource DEF Finish
  <2>1. PICK outcome \in Outcome(on[c]) : Undeclare(on[c], outcome) /\ Return(c, outcome)
    BY <1>8 DEF Finish
  <2>2. outcome = "ok" \/ (outcome = "error" /\ Promise!Orphan(on[c]))
    BY OutcomeOf DEF Orphan, Promise!Orphan
  <2>3. on[c] \in Asked /\ undeclared[on[c]] = "none"
    BY <1>i, <1>8, <2>0 DEF Finish, Asked, OneOwner, Locked
  <2>4. told' = [told EXCEPT ![on[c]] = @ \cup {outcome}]
    BY <2>1 DEF Return
  <2>5. Asked' = Asked
    <3>1. told'[on[c]] # {} /\ \A r \in Resource : r # on[c] => told'[r] = told[r]
      BY <1>0, <2>0, <2>4 DEF TypeOK
    <3>2. \A r \in Resource : r # on[c] =>
            ((\E d \in Caller : on'[d] = r) <=> (\E d \in Caller : on[d] = r))
      BY <1>0, <1>8, <2>0, <2>1, ParentAssumption DEF Finish, Return, TypeOK
    <3> QED
      BY <1>8, <2>3, <3>1, <3>2 DEF Finish, Asked
  <2>6. undeclared' = [undeclared EXCEPT ![on[c]] = outcome]
    BY <1>0, <2>0, <2>1, <2>3 DEF Undeclare, TypeOK
  <2>7. Promise!Finish(on[c], outcome, {outcome})
    BY <1>8, <2>1, <2>2, <2>3, <2>4, <2>5, <2>6 DEF Finish, Undeclare, Promise!Finish
  <2> QED
    BY <2>0, <2>2, <2>7
<1>9. ASSUME NEW c \in Caller, NEW s \in Resource, Enter(c, s) PROVE Promise!Ask(s)
  <2>1. Asked' = Asked \cup {s}
    BY <1>0, <1>9, ParentAssumption DEF Enter, Asked, TypeOK
  <2> QED
    BY <1>i, <1>9, <2>1 DEF Enter, InUse, Promise!Ask
<1>10. CASE UNCHANGED vars
  BY <1>10 DEF vars, Promise!vars, Asked
<1> QED
  BY <1>1, <1>2, <1>3, <1>4, <1>5, <1>6, <1>7, <1>8, <1>9, <1>10
  DEF Next, Running, Destroy, Promise!Next

\* The handles keep what OneShot promises of tokens, listeners and scouts.
THEOREM HandlesKeepPromise == Spec => KeepsPromise
<1>1. HandlesInv /\ HandlesInv' /\ [Next]_vars => [Promise!Next]_(Promise!vars)
  BY StepPromise
<1> QED
  BY InitPromise, <1>1, HandlesAlways, PTL DEF Spec, KeepsPromise, Promise!Spec
-----------------------------------------------------------------------------
(* What UnreachableEnds rests on: nothing is left behind in zenoh.         *)

\* What lives in zenoh is in a handle that somebody holds or that a destructor
\* has yet to come for, or with a call that takes it down; a handle that was
\* freed, by a destructor that panicked or not, left nothing there.
NothingLeftBehind ==
  \A r \in Resource :
    /\ zenoh[r] = "live" => \/ r \in option /\ handle[r] \in {"held", "dropped"}
                            \/ \E c \in Caller : pc[c] = "undeclare" /\ on[c] = r
    /\ handle[r] \in {"freed", "panicked"} => zenoh[r] = "ended"

\* What was undeclared has ended, however zenoh took it.
EndedInv == \A r \in Resource : undeclared[r] # "none" => zenoh[r] = "ended"

LEMMA EndedStep == HandlesInv /\ EndedInv /\ [Next]_vars => EndedInv'
<1> SUFFICES ASSUME HandlesInv, EndedInv, [Next]_vars PROVE EndedInv'
  OBVIOUS
<1>1. /\ zenoh \in [Resource -> {"none", "live", "ended"}]
      /\ undeclared \in [Resource -> {"none", "ok", "error", "twice"}]
  BY DEF HandlesInv, TypeOK
<1>2. CASE UNCHANGED <<zenoh, undeclared>>
  BY <1>2 DEF EndedInv
<1>3. ASSUME NEW r \in Resource, Declare(r) PROVE EndedInv'
  <2>1. undeclared[r] = "none" /\ undeclared' = undeclared /\ zenoh' = [zenoh EXCEPT ![r] = "live"]
    BY <1>3 DEF Declare, HandlesInv, Unborn
  <2> QED
    BY <1>1, <2>1 DEF EndedInv
<1>4. ASSUME NEW p \in Parent, EndParent(p) PROVE EndedInv'
  BY <1>1, <1>4 DEF EndParent, EndedInv
<1>5. ASSUME NEW r \in Resource, NEW outcome, Undeclare(r, outcome) PROVE EndedInv'
  <2>1. /\ zenoh' = [zenoh EXCEPT ![r] = "ended"]
        /\ \A q \in Resource : q # r => undeclared'[q] = undeclared[q]
    BY <1>1, <1>5 DEF Undeclare
  <2> QED
    BY <1>1, <2>1 DEF EndedInv
<1>6. ASSUME NEW c \in Caller, Finish(c) PROVE EndedInv'
  <2>1. on[c] \in Resource
    BY <1>6, OnResource DEF Finish, HandlesInv
  <2> QED
    BY <1>5, <1>6, <2>1 DEF Finish
<1>7. ASSUME NEW r \in Resource, Drop(r) PROVE EndedInv'
  BY <1>5, <1>7 DEF Drop
<1> QED
  BY <1>2, <1>3, <1>4, <1>6, <1>7
     DEF Next, Running, Destroy, LetGo, Enter, Take, Already, Return, DropEmpty, vars

\* Whoever raced for it, whatever zenoh said to its undeclaration and whether
\* its parent ended first: nothing stays in zenoh that no handle and no call
\* will take down.
THEOREM NothingIsLeftBehind == Spec => []NothingLeftBehind
<1>1. Init => EndedInv
  BY DEF Init, EndedInv
<1>2. Spec => [](HandlesInv /\ EndedInv)
  <2>1. Spec => []HandlesInv
    BY HandlesAlways
  <2> QED
    BY <1>1, <2>1, EndedStep, PTL DEF Spec
<1>3. ASSUME HandlesInv, EndedInv, NEW r \in Resource
      PROVE  /\ zenoh[r] = "live" => \/ r \in option /\ handle[r] \in {"held", "dropped"}
                                     \/ \E c \in Caller : pc[c] = "undeclare" /\ on[c] = r
             /\ handle[r] \in {"freed", "panicked"} => zenoh[r] = "ended"
  <2>1. Unborn(r) /\ OneOwner(r) /\ InUse(r)
    BY <1>3 DEF HandlesInv
  <2>2. ASSUME Locked(r) PROVE handle[r] \in {"held", "dropped"}
    BY <2>1, <2>2 DEF Locked, InUse
  <2> QED
    BY <1>3, <2>1, <2>2 DEF Unborn, OneOwner, EndedInv, Locked
<1>4. HandlesInv /\ EndedInv => NothingLeftBehind
  BY <1>3 DEF NothingLeftBehind
<1> QED
  BY <1>2, <1>4, PTL
=============================================================================
