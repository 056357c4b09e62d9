------------------------- MODULE OneShotCallsProofs -------------------------
(***************************************************************************)
(* Theorems about OneShotCalls, for any callers and sessions: its types,   *)
(* that a call that is over has closed its session, and that no session    *)
(* is left to nobody.                                                      *)
(***************************************************************************)
EXTENDS OneShotCalls, TLAPS

\* A call has no session before it opened one.  A session that has left close
\* is closed for good: it was opened, and what was opened is not opened again.
ClosedInv ==
  \A c \in Client :
    /\ call[c] \in {"idle", "open"} => session[c] = None
    /\ session[c] # None => session[c] \in opened
    /\ call[c] \in {"closing", "returned", "raised"} => session[c] \notin open

CallsInv == TypeOK /\ ClosedInv

LEMMA InitCalls == Init => CallsInv
BY NoneAssumption DEF Init, Contract!Init, CallsInv, TypeOK, ClosedInv

\* What the steps on the contract do to what is open.
LEMMA OpenStep ==
  ASSUME CallsInv, NEW c \in Client, Open(c)
  PROVE  CallsInv'
<1> USE DEF CallsInv, TypeOK
<1>1. PICK s \in Sess : /\ s \notin opened /\ opened' = opened \cup {s} /\ open' = open \cup {s}
                        /\ held' = held \cup {s} /\ UNCHANGED <<decl, eheld, asked>>
                        /\ session' = [session EXCEPT ![c] = s]
  BY DEF Open, Contract!Open
<1>2. call[c] = "open" /\ call' = [call EXCEPT ![c] = "work"]
  BY DEF Open, Goes
<1>3. \A d \in Client : session[d] # s
  BY <1>1, NoneAssumption DEF ClosedInv
<1>4. TypeOK'
  BY <1>1, <1>2, <1>3
<1>5. ClosedInv'
  BY <1>1, <1>2, <1>3 DEF ClosedInv
<1> QED
  BY <1>4, <1>5

LEMMA CloseStep ==
  ASSUME CallsInv, NEW c \in Client, Close(c)
  PROVE  CallsInv'
<1> USE DEF CallsInv, TypeOK
<1>1. call' = [call EXCEPT ![c] = "closing"] /\ session' = session
  BY DEF Close, Goes
<1>2. CASE Contract!Close(c, session[c])
  <2>1. /\ session[c] \in open /\ open' = open \ {session[c]}
        /\ asked' = [asked EXCEPT ![c] = session[c]]
        /\ decl' = {} /\ UNCHANGED <<opened, held, eheld>>
    BY <1>2 DEF Contract!Close
  <2> QED
    BY <1>1, <2>1 DEF ClosedInv
<1>3. CASE session[c] \notin open /\ UNCHANGED contract
  BY <1>1, <1>3 DEF contract, ClosedInv
<1> QED
  BY <1>2, <1>3 DEF Close

LEMMA CallsStep == CallsInv /\ [Next]_vars => CallsInv'
<1> SUFFICES ASSUME CallsInv, [Next]_vars PROVE CallsInv'
  OBVIOUS
<1> USE DEF CallsInv, TypeOK
\* A step of a call that is not in open or close.
<1>1. ASSUME NEW c \in Client, NEW next \in {"open", "work", "close", "returned", "raised", "killed"},
             call' = [call EXCEPT ![c] = next], next = "open" => call[c] = "idle",
             next \in {"returned", "raised"} => call[c] = "closing" \/ session[c] = None,
             UNCHANGED <<opened, open, decl, held, eheld, session>>,
             asked' = asked \/ asked' = [asked EXCEPT ![c] = None]
      PROVE  CallsInv'
  BY <1>1, NoneAssumption DEF ClosedInv
<1>2. ASSUME NEW c \in Client, Start(c) PROVE CallsInv'
  BY <1>1, <1>2 DEF Start, Goes, contract
<1>3. ASSUME NEW c \in Client, OpenFails(c) PROVE CallsInv'
  <2>1. session[c] = None
    BY <1>3 DEF OpenFails, Goes, ClosedInv
  <2> QED
    BY <1>1, <1>3, <2>1 DEF OpenFails, Goes, contract
<1>4. ASSUME NEW c \in Client, Work(c) PROVE CallsInv'
  BY <1>1, <1>4 DEF Work, Goes, contract
<1>5. ASSUME NEW c \in Client, Return(c) PROVE CallsInv'
  <2>1. PICK next \in {"returned", "raised"} : call' = [call EXCEPT ![c] = next]
    BY <1>5 DEF Return
  <2>2. /\ call[c] = "closing" /\ UNCHANGED <<opened, open, decl, held, eheld, session>>
        /\ asked' = asked \/ asked' = [asked EXCEPT ![c] = None]
    BY <1>5 DEF Return, contract, Contract!Answer
  <2> QED
    BY <1>1, <2>1, <2>2
<1>6. ASSUME NEW c \in Client, Kill(c) PROVE CallsInv'
  BY <1>1, <1>6 DEF Kill, contract
<1>7. ASSUME NEW c \in Client, LetGo(c) PROVE CallsInv'
  BY <1>7 DEF LetGo, Contract!LetGoSession, ClosedInv
<1>8. ASSUME NEW s \in Sess, Reclaim(s) PROVE CallsInv'
  BY <1>8 DEF Reclaim, Contract!ReclaimSession, ClosedInv
<1>9. CASE UNCHANGED vars
  BY <1>9 DEF vars, contract, ClosedInv
<1> QED
  BY <1>2, <1>3, <1>4, <1>5, <1>6, <1>7, <1>8, <1>9, OpenStep, CloseStep DEF Next, Step
-----------------------------------------------------------------------------
\* However many calls run at once and whichever are killed, no two share a
\* session, and every variable keeps its type.
THEOREM CallsTypeCorrect == Spec => []TypeOK
<1>1. CallsInv => TypeOK
  BY DEF CallsInv
<1> QED
  BY <1>1, InitCalls, CallsStep, PTL DEF Spec

\* Whatever the work on it did, and whoever else opens and closes meanwhile:
\* a call that returned or raised left no open session.
THEOREM CallsCloseTheirSession == Spec => []ClosedAtTheEnd
<1>1. CallsInv => ClosedAtTheEnd
  BY DEF CallsInv, ClosedInv, ClosedAtTheEnd
<1> QED
  BY <1>1, InitCalls, CallsStep, PTL DEF Spec
-----------------------------------------------------------------------------
\* What NothingStaysOpen rests on: a session that is open is on the stack of a
\* call that has not closed it yet or was killed before it could, or its handle
\* was let go and its destructor closes it.
SomebodyCloses ==
  \A s \in open :
    s \in held => \E c \in Client : session[c] = s /\ call[c] \in {"work", "close", "killed"}

\* A handle is held on the stack of the call that opened the session.
HeldInv == \A s \in held : \E c \in Client : session[c] = s

LEMMA HeldStep == CallsInv /\ HeldInv /\ [Next]_vars => HeldInv'
<1> SUFFICES ASSUME CallsInv, HeldInv, [Next]_vars PROVE HeldInv'
  OBVIOUS
<1>1. session \in [Client -> Sess \cup {None}]
  BY DEF CallsInv, TypeOK
<1>2. CASE session' = session /\ held' \subseteq held
  BY <1>2 DEF HeldInv
<1>3. ASSUME NEW c \in Client, Open(c) PROVE HeldInv'
  <2>1. PICK s \in Sess : held' = held \cup {s} /\ session' = [session EXCEPT ![c] = s]
    BY <1>3 DEF Open, Contract!Open
  <2>2. session[c] = None /\ None \notin held
    BY <1>3, NoneAssumption DEF Open, Goes, CallsInv, ClosedInv, TypeOK
  <2> QED
    BY <1>1, <2>1, <2>2 DEF HeldInv
<1>4. ASSUME NEW c \in Client, Close(c) \/ Return(c) \/ LetGo(c)
      PROVE  session' = session /\ held' \subseteq held
  BY <1>4 DEF Close, Return, LetGo, contract, Contract!Close, Contract!Answer, Contract!LetGoSession
<1> QED
  BY <1>2, <1>3, <1>4
     DEF Next, Step, Start, OpenFails, Work, Kill, Reclaim, contract, vars, Contract!ReclaimSession

\* Whatever the work did, and wherever a call was killed: no open session is
\* left to nobody.
THEOREM OpenSessionsHaveTheirCall == Spec => []SomebodyCloses
<1>1. Init => HeldInv
  BY DEF Init, Contract!Init, HeldInv
<1>2. ASSUME CallsInv, HeldInv, NEW s \in open, s \in held
      PROVE  \E c \in Client : session[c] = s /\ call[c] \in {"work", "close", "killed"}
  <2>1. PICK c \in Client : session[c] = s
    BY <1>2 DEF HeldInv
  <2>2. s # None
    BY <1>2, NoneAssumption DEF CallsInv, TypeOK
  <2>3. call[c] \in {"idle", "open", "work", "close", "closing", "returned", "raised", "killed"}
    BY <1>2 DEF CallsInv, TypeOK
  <2> QED
    BY <1>2, <2>1, <2>2, <2>3 DEF CallsInv, ClosedInv
<1>3. CallsInv /\ HeldInv => SomebodyCloses
  BY <1>2 DEF SomebodyCloses
<1> QED
  BY <1>1, <1>3, InitCalls, CallsStep, HeldStep, PTL DEF Spec
=============================================================================
