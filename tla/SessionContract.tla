------------------------- MODULE SessionContract -------------------------
(***************************************************************************)
(* What Zenohex.Session promises its clients (lib/zenohex/session.ex): a   *)
(* session is open from open/1 until a client closes it, an entity         *)
(* declared until a client undeclares it, and the only other way either    *)
(* ends is that its handle was let go - for a session, once no entity      *)
(* declared on it is left either.  No locks, no map, no destructors.       *)
(***************************************************************************)
CONSTANTS Client, Sess, EntId, None

VARIABLES
  opened,   \* sessions ever opened
  open,     \* sessions a call through their handle reaches
  decl,     \* entities a call through their handle reaches
  held,     \* session handles the clients hold
  eheld,    \* entity handles the clients hold
  asked     \* the session or entity each client is just closing or undeclaring

vars == <<opened, open, decl, held, eheld, asked>>

On(D, s) == {e \in D : e[1] = s}

Init == /\ opened = {} /\ open = {} /\ decl = {} /\ held = {} /\ eheld = {}
        /\ asked = [c \in Client |-> None]

Open(s) ==
  /\ s \notin opened
  /\ opened' = opened \cup {s} /\ open' = open \cup {s} /\ held' = held \cup {s}
  /\ UNCHANGED <<decl, eheld, asked>>

\* A session is closed for everyone from the call of close on.
Close(c, s) ==
  /\ s \in held \cap open /\ asked[c] = None
  /\ asked' = [asked EXCEPT ![c] = s]
  /\ open' = open \ {s} /\ decl' = decl \ On(decl, s)
  /\ UNCHANGED <<opened, held, eheld>>

\* A declaration that a concurrent close overtakes may still succeed; its
\* handle reaches nothing.
Declare(e) ==
  /\ e[1] \in held /\ e \notin decl \cup eheld
  /\ decl' = IF e[1] \in open THEN decl \cup {e} ELSE decl
  /\ eheld' = eheld \cup {e}
  /\ UNCHANGED <<opened, open, held, asked>>

AskUndeclare(c, e) ==
  /\ e \in eheld /\ asked[c] = None
  /\ asked' = [asked EXCEPT ![c] = e]
  /\ UNCHANGED <<opened, open, decl, held, eheld>>

Undeclare(c) ==
  /\ asked[c] \in decl
  /\ decl' = decl \ {asked[c]}
  /\ asked' \in {asked, [asked EXCEPT ![c] = None]}
  /\ UNCHANGED <<opened, open, held, eheld>>

Answer(c) ==
  /\ asked[c] # None
  /\ asked' = [asked EXCEPT ![c] = None]
  /\ UNCHANGED <<opened, open, decl, held, eheld>>

LetGoSession(s) ==
  s \in held /\ held' = held \ {s} /\ UNCHANGED <<opened, open, decl, eheld, asked>>

LetGoEntity(e) ==
  e \in eheld /\ eheld' = eheld \ {e} /\ UNCHANGED <<opened, open, decl, held, asked>>

ReclaimSession(s) ==
  /\ s \in open \ held /\ On(decl, s) = {}
  /\ open' = open \ {s}
  /\ UNCHANGED <<opened, decl, held, eheld, asked>>

ReclaimEntity(e) ==
  /\ e \in decl \ eheld
  /\ decl' = decl \ {e}
  /\ UNCHANGED <<opened, open, held, eheld, asked>>

Next ==
  \/ \E s \in Sess : Open(s) \/ LetGoSession(s) \/ ReclaimSession(s)
  \/ \E e \in EntId : Declare(e) \/ LetGoEntity(e) \/ ReclaimEntity(e)
  \/ \E c \in Client : \/ Undeclare(c) \/ Answer(c)
                       \/ \E s \in Sess : Close(c, s)
                       \/ \E e \in EntId : AskUndeclare(c, e)

Spec == Init /\ [][Next]_vars
==========================================================================
