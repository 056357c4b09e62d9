--------------------------- MODULE DeliveryProofs ---------------------------
(***************************************************************************)
(* Theorems about Delivery, for any processes, clients and events: its     *)
(* types; that a server's event is handled once at most, whichever         *)
(* incarnation of it is called back when; that the clients that were told  *)
(* :ok have a server each that undeclared and is gone; that no event is    *)
(* lost on its way to a living process; and that no client is forgotten.   *)
(***************************************************************************)
EXTENDS Delivery, FiniteSetTheorems, TLAPS

Holds(s, x) == \E i \in DOMAIN s : s[i] = x
NoTwice(s, X) == \A i, j \in DOMAIN s : s[i] = s[j] /\ s[i] \in X => i = j

Events == {Event(n) : n \in 1 .. MaxEvents}
Flying(p, n) == [to |-> p, n |-> n] \in flying
Queued(p, n) == Holds(mailbox[p], Event(n))
Handled(p, n) == Holds(handled[p], n)

\* What TypeOK leaves open: messages are events that were published, or stops
\* of a server, and only processes that started were told anything.
Mail(p, m, n) == IF m.from = None THEN m.n \in 1 .. n ELSE p \in Server
TypeInv ==
  /\ TypeOK
  /\ \A p \in Pid : \A i \in DOMAIN mailbox[p] : Mail(p, mailbox[p][i], published)
  /\ \A p \in Pid : serving[p].to # None => p \in Server
  /\ undeclared \subseteq {p \in Pid : proc[p] # "new"}

\* An event of p is at one place: with its thread, in the mailbox or handled.
Once(p) ==
  /\ NoTwice(mailbox[p], Events) /\ NoTwice(handled[p], Nat)
  /\ \A n \in 1 .. MaxEvents :
       /\ Queued(p, n) => ~Flying(p, n) /\ ~Handled(p, n)
       /\ Handled(p, n) => ~Flying(p, n)

\* A process has nothing before it starts,
Unstarted(p) ==
  proc[p] = "new" => /\ mailbox[p] = <<>> /\ handled[p] = <<>>
                     /\ \A f \in flying : f.to # p

\* starts after the death of the incarnations before it,
Succession ==
  \A i, j \in DOMAIN Incarnations :
    j < i /\ proc[Incarnations[i]] # "new" => proc[Incarnations[j]] = "dead"

\* and so has no event one of these has handled.
Apart ==
  \A i, j \in DOMAIN Incarnations, n \in 1 .. MaxEvents :
    j < i /\ Handled(Incarnations[j], n) =>
      LET p == Incarnations[i] IN ~Flying(p, n) /\ ~Queued(p, n) /\ ~Handled(p, n)

OnceInv ==
  /\ TypeInv
  /\ \A p \in Pid : Once(p) /\ Unstarted(p)
  /\ Succession
  /\ Apart
-----------------------------------------------------------------------------
LEMMA InitTypes == Init => TypeInv
BY NamesAssumption DEF Init, TypeInv, TypeOK, Nobody, Pid, Message, Mail

LEMMA TailOf ==
  ASSUME NEW S, NEW s \in Seq(S), s # <<>>
  PROVE  /\ Head(s) \in S /\ Tail(s) \in Seq(S)
         /\ 1 \in DOMAIN s /\ Head(s) = s[1]
         /\ \A i \in DOMAIN Tail(s) : i + 1 \in DOMAIN s /\ Tail(s)[i] = s[i + 1]
OBVIOUS

LEMMA AppendOf ==
  ASSUME NEW S, NEW s \in Seq(S), NEW x \in S
  PROVE  /\ Append(s, x) \in Seq(S)
         /\ \A i \in DOMAIN Append(s, x) :
              \/ i \in DOMAIN s /\ Append(s, x)[i] = s[i]
              \/ i = Len(s) + 1 /\ Append(s, x)[i] = x
<1>1. Append(s, x) \in Seq(S) /\ Len(Append(s, x)) = Len(s) + 1
  OBVIOUS
<1>2. ASSUME NEW i \in 1 .. Len(s) + 1
      PROVE  \/ i \in 1 .. Len(s) /\ Append(s, x)[i] = s[i]
             \/ i = Len(s) + 1 /\ Append(s, x)[i] = x
  OBVIOUS
<1>3. DOMAIN s = 1 .. Len(s) /\ DOMAIN Append(s, x) = 1 .. Len(s) + 1
  BY <1>1
<1> QED
  BY <1>1, <1>2, <1>3

\* One mailbox at most changes: it is emptied, or by a tail or an append.
MailTail(p) == mailbox[p] # <<>> /\ mailbox' = [mailbox EXCEPT ![p] = Tail(@)]
MailAppend(p, m) == m \in Message /\ mailbox' = [mailbox EXCEPT ![p] = Append(@, m)]

LEMMA MailStep ==
  ASSUME TypeInv, published' = published, NEW p \in Pid,
         \/ mailbox' = mailbox
         \/ mailbox' = [mailbox EXCEPT ![p] = <<>>]
         \/ MailTail(p)
         \/ \E m \in Message : Mail(p, m, published) /\ MailAppend(p, m)
  PROVE  /\ mailbox' \in [Pid -> Seq(Message)]
         /\ \A q \in Pid : \A i \in DOMAIN mailbox'[q] : Mail(q, mailbox'[q][i], published')
<1> USE DEF TypeInv, TypeOK
<1>0. mailbox[p] \in Seq(Message)
  OBVIOUS
<1>1. CASE mailbox' = mailbox
  BY <1>1
<1>2. CASE mailbox' = [mailbox EXCEPT ![p] = <<>>]
  BY <1>2
<1>3. CASE MailTail(p)
  <2>1. Tail(mailbox[p]) \in Seq(Message)
    BY <1>0, <1>3, TailOf DEF MailTail
  <2>2. \A i \in DOMAIN Tail(mailbox[p]) : Mail(p, Tail(mailbox[p])[i], published)
    BY <1>0, <1>3, TailOf DEF MailTail
  <2> QED
    BY <1>3, <2>1, <2>2 DEF MailTail
<1>4. ASSUME NEW m \in Message, Mail(p, m, published), MailAppend(p, m)
      PROVE  /\ mailbox' \in [Pid -> Seq(Message)]
             /\ \A q \in Pid : \A i \in DOMAIN mailbox'[q] : Mail(q, mailbox'[q][i], published')
  <2>1. Append(mailbox[p], m) \in Seq(Message)
    BY <1>0, AppendOf
  <2>2. \A i \in DOMAIN Append(mailbox[p], m) : Mail(p, Append(mailbox[p], m)[i], published)
    BY <1>0, <1>4, AppendOf
  <2> QED
    BY <1>4, <2>1, <2>2 DEF MailAppend
<1> QED
  BY <1>1, <1>2, <1>3, <1>4

\* An undeclaration touches one source, and undeclares it or leaves it refused.
UndeclarationTypes(p) ==
  /\ declared' \subseteq declared /\ refused' \subseteq declared'
  /\ undeclared' \subseteq undeclared \cup {p} /\ undeclared' \cap declared' = {}

LEMMA UndeclarationOk ==
  ASSUME TypeInv, NEW p \in Pid, NEW answer \in {"ok", "error"}, Undeclaration(p, answer)
  PROVE  UndeclarationTypes(p)
BY DEF Undeclaration, UndeclarationTypes, TypeInv, TypeOK

LEMMA TypeStep == TypeInv /\ [Next]_vars => TypeInv'
<1> SUFFICES ASSUME TypeInv, [Next]_vars PROVE TypeInv'
  OBVIOUS
<1> USE NamesAssumption DEF TypeInv, TypeOK
<1>1. ASSUME NEW n \in 1 .. MaxEvents, Publish(n) PROVE TypeInv'
  BY <1>1 DEF Publish, Mail
<1>2. ASSUME NEW f \in flying, Send(f) PROVE TypeInv'
  <2>1. f.n \in 1 .. published /\ f.to \in Pid
    OBVIOUS
  <2>2. Event(f.n) \in Message /\ Mail(f.to, Event(f.n), published)
    BY <2>1 DEF Event, Message, Mail
  <2>3. mailbox' = mailbox \/ MailAppend(f.to, Event(f.n))
    BY <1>2, <2>2 DEF Send, MailAppend
  <2>4. published' = published
    BY <1>2 DEF Send
  <2>5. /\ mailbox' \in [Pid -> Seq(Message)]
        /\ \A q \in Pid : \A i \in DOMAIN mailbox'[q] : Mail(q, mailbox'[q][i], published')
    BY <2>1, <2>2, <2>3, <2>4, MailStep
  <2> QED
    BY <1>2, <2>5 DEF Send
<1>3. ASSUME CloseSession PROVE TypeInv'
  BY <1>3 DEF CloseSession
<1>4. ASSUME NEW p \in Pid, init(p) PROVE TypeInv'
  BY <1>4 DEF init
<1>5. ASSUME NEW p \in Pid, handle_info(p) PROVE TypeInv'
  <2>1. /\ mailbox[p] \in Seq(Message) /\ MailTail(p)
        /\ Head(mailbox[p]).from = None /\ published' = published
    BY <1>5 DEF handle_info, MailTail
  <2>2. Head(mailbox[p]).n \in 1 .. published
    BY <2>1, TailOf DEF Mail, MailTail
  <2>3. handled' \in [Pid -> Seq(1 .. published)]
    BY <1>5, <2>2 DEF handle_info
  <2>4. /\ mailbox' \in [Pid -> Seq(Message)]
        /\ \A q \in Pid : \A i \in DOMAIN mailbox'[q] : Mail(q, mailbox'[q][i], published')
    BY <2>1, MailStep
  <2> QED
    BY <1>5, <2>3, <2>4 DEF handle_info
<1>6. ASSUME NEW p \in Pid, handle_call_stop(p) PROVE TypeInv'
  <2>1. /\ mailbox[p] \in Seq(Message) /\ MailTail(p) /\ proc[p] = "alive"
        /\ Head(mailbox[p]).from # None /\ published' = published
    BY <1>6 DEF handle_call_stop, MailTail, Free
  <2>2. Head(mailbox[p]).from \in Client /\ p \in Server
    <3>1. Head(mailbox[p]) \in Message /\ Mail(p, Head(mailbox[p]), published)
      BY <2>1, TailOf DEF MailTail
    <3> QED
      BY <2>1, <3>1 DEF Mail, Message
  <2>3. /\ serving' \in [Pid -> [to : Client \cup {None}, answer : {"none", "ok", "error"}]]
        /\ \A q \in Pid : serving'[q].to # None =>
             proc'[q] = "alive" /\ q \notin declared' \ refused' /\ q \in Server
    BY <1>6, <2>1, <2>2 DEF handle_call_stop, Undeclaration
  <2>4. /\ mailbox' \in [Pid -> Seq(Message)]
        /\ \A q \in Pid : \A i \in DOMAIN mailbox'[q] : Mail(q, mailbox'[q][i], published')
    BY <2>1, MailStep
  <2>5. UndeclarationTypes(p)
    <3>1. PICK answer \in {"ok", "error"} : Undeclaration(p, answer)
      BY <1>6 DEF handle_call_stop
    <3> QED
      BY <3>1, UndeclarationOk
  <2> QED
    BY <1>6, <2>1, <2>3, <2>4, <2>5 DEF handle_call_stop, UndeclarationTypes
<1>7. ASSUME NEW p \in Pid, Stopped(p) PROVE TypeInv'
  <2>1. /\ mailbox' \in [Pid -> Seq(Message)]
        /\ \A q \in Pid : \A i \in DOMAIN mailbox'[q] : Mail(q, mailbox'[q][i], published')
    BY <1>7, MailStep DEF Stopped, Dies
  <2>2. /\ serving' \in [Pid -> [to : Client \cup {None}, answer : {"none", "ok", "error"}]]
        /\ \A q \in Pid : serving'[q].to # None =>
             proc'[q] = "alive" /\ q \notin declared' \ refused' /\ q \in Server
    BY <1>7 DEF Stopped, Dies, Nobody
  <2>3. client' \in [Client -> Server \cup {"idle", "ok", "error", "exit"}]
    <3>1. serving[p].to \in Client /\ serving[p].answer \in {"ok", "error"}
      BY <1>7 DEF Stopped
    <3> QED
      BY <1>7, <3>1 DEF Stopped
  <2> QED
    BY <1>7, <2>1, <2>2, <2>3 DEF Stopped, Dies
<1>8. ASSUME NEW p \in Pid, Undeclare(p) PROVE TypeInv'
  <2>1. PICK answer \in {"ok", "error"} : Undeclaration(p, answer)
    BY <1>8 DEF Undeclare
  <2>2. UndeclarationTypes(p)
    BY <2>1, UndeclarationOk
  <2>3. /\ UNCHANGED <<session, proc, published, flying, mailbox, serving, handled, client>>
        /\ proc[p] # "new"
    BY <1>8 DEF Undeclare, Free
  <2>4. \A q \in Pid : q \in declared' \ refused' => q \in declared \ refused
    BY <2>1 DEF Undeclaration
  <2> QED
    BY <2>2, <2>3, <2>4 DEF UndeclarationTypes
<1>13. ASSUME NEW p \in Pid, Destroy(p) PROVE TypeInv'
  BY <1>13 DEF Destroy
<1>9. ASSUME NEW p \in Pid, Crash(p) PROVE TypeInv'
  <2>1. /\ mailbox' \in [Pid -> Seq(Message)]
        /\ \A q \in Pid : \A i \in DOMAIN mailbox'[q] : Mail(q, mailbox'[q][i], published')
    BY <1>9, MailStep DEF Crash, Dies
  <2>2. /\ serving' \in [Pid -> [to : Client \cup {None}, answer : {"none", "ok", "error"}]]
        /\ \A q \in Pid : serving'[q].to # None =>
             proc'[q] = "alive" /\ q \notin declared' \ refused' /\ q \in Server
    BY <1>9 DEF Crash, Dies, Nobody
  <2> QED
    BY <1>9, <2>1, <2>2 DEF Crash, Dies
<1>10. ASSUME NEW c \in Client, stop(c) PROVE TypeInv'
  <2>1. ASSUME NEW p \in Server, mailbox' = [mailbox EXCEPT ![p] = Append(@, Stop(c))],
               client' = [client EXCEPT ![c] = p]
        PROVE  TypeInv'
    <3>1. Stop(c) \in Message /\ Mail(p, Stop(c), published) /\ p \in Pid
      BY DEF Stop, Message, Mail, Pid
    <3>2. MailAppend(p, Stop(c)) /\ published' = published
      BY <1>10, <2>1, <3>1 DEF stop, MailAppend
    <3>3. /\ mailbox' \in [Pid -> Seq(Message)]
          /\ \A q \in Pid : \A i \in DOMAIN mailbox'[q] : Mail(q, mailbox'[q][i], published')
      BY <3>1, <3>2, MailStep
    <3> QED
      BY <1>10, <2>1, <3>3 DEF stop
  <2>2. ASSUME mailbox' = mailbox, client' = [client EXCEPT ![c] = "exit"]
        PROVE  TypeInv'
    BY <1>10, <2>2 DEF stop
  <2> QED
    BY <1>10, <2>1, <2>2 DEF stop
<1>11. ASSUME NEW c \in Client, Down(c) PROVE TypeInv'
  BY <1>11 DEF Down
<1>12. ASSUME UNCHANGED vars PROVE TypeInv'
  BY <1>12 DEF vars
<1> QED
  BY <1>1, <1>2, <1>3, <1>4, <1>5, <1>6, <1>7, <1>8, <1>9, <1>10, <1>11, <1>12, <1>13 DEF Next, Serve

\* Every variable keeps its type.
THEOREM DeliveryTypeCorrect == Spec => []TypeOK
<1>1. TypeInv => TypeOK
  BY DEF TypeInv
<1> QED
  BY <1>1, InitTypes, TypeStep, PTL DEF Spec
-----------------------------------------------------------------------------
LEMMA TailHolds ==
  ASSUME NEW S, NEW s \in Seq(S), s # <<>>, NEW X
  PROVE  /\ \A x : Holds(Tail(s), x) => Holds(s, x)
         /\ Holds(s, Head(s))
         /\ NoTwice(s, X) => NoTwice(Tail(s), X) /\ (Head(s) \in X => ~Holds(Tail(s), Head(s)))
<1>1. /\ 1 \in DOMAIN s /\ Head(s) = s[1]
      /\ \A i \in DOMAIN Tail(s) : i \in Nat \ {0} /\ i + 1 \in DOMAIN s /\ Tail(s)[i] = s[i + 1]
  BY TailOf
<1> QED
  BY <1>1 DEF Holds, NoTwice

LEMMA AppendHolds ==
  ASSUME NEW S, NEW s \in Seq(S), NEW x \in S, NEW X
  PROVE  /\ \A y : Holds(Append(s, x), y) => Holds(s, y) \/ y = x
         /\ NoTwice(s, X) /\ (x \in X => ~Holds(s, x)) => NoTwice(Append(s, x), X)
<1>1. \A i \in DOMAIN Append(s, x) : \/ i \in DOMAIN s /\ Append(s, x)[i] = s[i]
                                     \/ i = Len(s) + 1 /\ Append(s, x)[i] = x
  BY AppendOf
<1> QED
  BY <1>1 DEF Holds, NoTwice

\* A step that takes events away, if anything.
Fewer ==
  /\ handled' = handled /\ flying' \subseteq flying
  /\ \A p \in Pid :
       /\ NoTwice(mailbox[p], Events) => NoTwice(mailbox'[p], Events)
       /\ \A n \in 1 .. MaxEvents : Holds(mailbox'[p], Event(n)) => Holds(mailbox[p], Event(n))

LEMMA FewerStep ==
  ASSUME OnceInv, Fewer
  PROVE  (\A p \in Pid : Once(p))' /\ Apart'
<1>1. ASSUME NEW p \in Pid PROVE Once(p)'
  BY <1>1 DEF OnceInv, Once, Fewer, Flying, Queued, Handled
<1>2. Apart'
  <2>1. \A i \in DOMAIN Incarnations : Incarnations[i] \in Pid
    BY DEF Pid, Server
  <2> QED
    BY <2>1 DEF OnceInv, Apart, Fewer, Flying, Queued, Handled
<1> QED
  BY <1>1, <1>2

LEMMA SameMail ==
  ASSUME TypeOK, handled' = handled, flying' = flying, mailbox' = mailbox
  PROVE  Fewer
BY DEF Fewer

LEMMA OneMail ==
  ASSUME TypeOK, handled' = handled, flying' = flying, NEW p \in Pid,
         \/ mailbox' = [mailbox EXCEPT ![p] = <<>>]
         \/ MailTail(p)
         \/ \E m \in Message : m \notin Events /\ MailAppend(p, m)
  PROVE  Fewer
<1> USE DEF TypeOK
<1>0. mailbox[p] \in Seq(Message)
  OBVIOUS
<1>1. CASE mailbox' = [mailbox EXCEPT ![p] = <<>>]
  BY <1>1 DEF Fewer, Holds, NoTwice
<1>2. CASE MailTail(p)
  BY <1>0, <1>2, TailHolds DEF Fewer, MailTail
<1>3. ASSUME NEW m \in Message, m \notin Events, MailAppend(p, m) PROVE Fewer
  <2>1. \A n \in 1 .. MaxEvents : m # Event(n)
    BY <1>3 DEF Events
  <2> QED
    BY <1>0, <1>3, <2>1, AppendHolds DEF Fewer, MailAppend
<1> QED
  BY <1>1, <1>2, <1>3

LEMMA InitOnce == Init => OnceInv
<1> SUFFICES ASSUME Init PROVE OnceInv
  OBVIOUS
<1>1. TypeInv
  BY InitTypes
<1>2. /\ flying = {} /\ \A p \in Pid : mailbox[p] = <<>> /\ handled[p] = <<>> /\ proc[p] = "new"
      /\ \A i \in DOMAIN Incarnations : Incarnations[i] \in Pid
  BY DEF Init, Pid, Server
<1>3. ASSUME NEW p \in Pid PROVE Once(p) /\ Unstarted(p)
  BY <1>2 DEF Once, NoTwice, Holds, Queued, Handled, Flying, Unstarted
<1>4. Succession /\ Apart
  BY <1>2 DEF Succession, Apart, Handled, Holds
<1> QED
  BY <1>1, <1>3, <1>4 DEF OnceInv

\* A process that has something is not new.
LEMMA Started ==
  ASSUME OnceInv, NEW p \in Pid, proc[p] = "new"
  PROVE  mailbox[p] = <<>> /\ handled[p] = <<>> /\ p \notin declared /\ serving[p].to = None
BY DEF OnceInv, Unstarted, TypeInv, TypeOK

LEMMA SuccessionStep ==
  ASSUME OnceInv, TypeInv', [Next]_vars
  PROVE  Succession'
<1> USE DEF OnceInv, Succession
<1>1. ASSUME NEW p \in Pid, init(p) PROVE Succession'
  <2>1. proc' = [proc EXCEPT ![p] = "alive"] /\ proc[p] = "new"
        /\ \A i, j \in DOMAIN Incarnations :
             j < i /\ Incarnations[i] = p => proc[Incarnations[j]] = "dead"
    BY <1>1 DEF init
  <2> QED
    BY <2>1 DEF TypeInv, TypeOK
<1>2. ASSUME NEW p \in Pid, Stopped(p) \/ Crash(p) PROVE Succession'
  <2>1. proc' = [proc EXCEPT ![p] = "dead"] /\ proc[p] = "alive"
    BY <1>2 DEF Stopped, Crash, Dies, Free, TypeInv, TypeOK
  <2> QED
    BY <2>1 DEF TypeInv, TypeOK
<1>3. ASSUME UNCHANGED proc PROVE Succession'
  BY <1>3
<1> QED
  BY <1>1, <1>2, <1>3
  DEF Next, vars, Serve, Publish, Send, CloseSession, handle_info, handle_call_stop, Undeclare, Destroy, stop, Down

LEMMA UnstartedStep ==
  ASSUME OnceInv, TypeInv', [Next]_vars, NEW q \in Pid
  PROVE  Unstarted(q)'
<1> USE DEF OnceInv, Unstarted, TypeInv, TypeOK
<1>1. ASSUME proc'[q] = "new"
      PROVE  proc[q] = "new"
  <2>1. ASSUME NEW p \in Pid, init(p) PROVE proc[q] = "new"
    BY <1>1, <2>1 DEF init
  <2>2. ASSUME NEW p \in Pid, Stopped(p) \/ Crash(p) PROVE proc[q] = "new"
    BY <1>1, <2>2 DEF Stopped, Crash, Dies
  <2>3. ASSUME UNCHANGED proc PROVE proc[q] = "new"
    BY <1>1, <2>3
  <2> QED
    BY <2>1, <2>2, <2>3
    DEF Next, vars, Serve, Publish, Send, CloseSession, handle_info, handle_call_stop, Undeclare, Destroy, stop, Down
<1> SUFFICES ASSUME proc'[q] = "new", proc[q] = "new",
                    mailbox[q] = <<>>, handled[q] = <<>>, \A f \in flying : f.to # q,
                    q \notin declared
             PROVE  mailbox'[q] = <<>> /\ handled'[q] = <<>> /\ \A f \in flying' : f.to # q
  BY <1>1, Started
<1>2. ASSUME NEW n \in 1 .. MaxEvents, Publish(n)
      PROVE  mailbox'[q] = <<>> /\ handled'[q] = <<>> /\ \A f \in flying' : f.to # q
  BY <1>2 DEF Publish
<1>3. ASSUME NEW f \in flying, Send(f)
      PROVE  mailbox'[q] = <<>> /\ handled'[q] = <<>> /\ \A g \in flying' : g.to # q
  BY <1>3 DEF Send
<1>4. ASSUME NEW p \in Pid, handle_info(p) \/ handle_call_stop(p)
      PROVE  mailbox'[q] = <<>> /\ handled'[q] = <<>> /\ \A f \in flying' : f.to # q
  <2>1. p # q /\ flying' = flying
    BY <1>4 DEF handle_info, handle_call_stop
  <2>2. mailbox'[q] = mailbox[q] /\ handled'[q] = handled[q]
    <3>1. CASE handle_info(p)
      BY <2>1, <3>1 DEF handle_info
    <3>2. CASE handle_call_stop(p)
      BY <2>1, <3>2 DEF handle_call_stop
    <3> QED
      BY <1>4, <3>1, <3>2
  <2> QED
    BY <2>1, <2>2
<1>5. ASSUME NEW p \in Pid, Stopped(p) \/ Crash(p)
      PROVE  mailbox'[q] = <<>> /\ handled'[q] = <<>> /\ \A f \in flying' : f.to # q
  BY <1>5 DEF Stopped, Crash, Dies
<1>6. ASSUME NEW c \in Client, stop(c)
      PROVE  mailbox'[q] = <<>> /\ handled'[q] = <<>> /\ \A f \in flying' : f.to # q
  BY <1>6 DEF stop
<1>7. ASSUME UNCHANGED <<mailbox, handled, flying>>
      PROVE  mailbox'[q] = <<>> /\ handled'[q] = <<>> /\ \A f \in flying' : f.to # q
  BY <1>7
<1> QED
  BY <1>2, <1>3, <1>4, <1>5, <1>6, <1>7
  DEF Next, vars, Serve, CloseSession, init, Undeclare, Destroy, Down

\* The steps that bring or move events.
LEMMA PublishOnce ==
  ASSUME OnceInv, NEW n \in 1 .. MaxEvents, Publish(n)
  PROVE  (\A p \in Pid : Once(p))' /\ Apart'
<1> USE DEF OnceInv, TypeInv, TypeOK
<1>1. /\ mailbox' = mailbox /\ handled' = handled
      /\ \A p \in Pid, m \in 1 .. MaxEvents :
           [to |-> p, n |-> m] \in flying' => [to |-> p, n |-> m] \in flying \/ m = published + 1
  BY DEF Publish
<1>2. ASSUME NEW p \in Pid
      PROVE  ~Holds(mailbox[p], Event(published + 1)) /\ ~Holds(handled[p], published + 1)
  <2>1. ASSUME NEW i \in DOMAIN mailbox[p] PROVE mailbox[p][i] # Event(published + 1)
    BY DEF Mail, Event
  <2>2. ASSUME NEW i \in DOMAIN handled[p] PROVE handled[p][i] # published + 1
    OBVIOUS
  <2> QED
    BY <2>1, <2>2 DEF Holds
<1>3. ASSUME NEW p \in Pid PROVE Once(p)'
  BY <1>1, <1>2 DEF Once, Flying, Queued, Handled
<1>4. \A i \in DOMAIN Incarnations : Incarnations[i] \in Pid
  BY DEF Pid, Server
<1>5. Apart'
  <2> SUFFICES ASSUME NEW i \in DOMAIN Incarnations, NEW j \in DOMAIN Incarnations,
                      NEW m \in 1 .. MaxEvents, j < i, Handled(Incarnations[j], m)
               PROVE  (~Flying(Incarnations[i], m) /\ ~Queued(Incarnations[i], m) /\ ~Handled(Incarnations[i], m))'
    BY <1>1 DEF Apart, Handled
  <2>1. ~Flying(Incarnations[i], m) /\ ~Queued(Incarnations[i], m) /\ ~Handled(Incarnations[i], m)
    BY DEF Apart
  <2>2. m # published + 1
    BY <1>2, <1>4 DEF Handled
  <2> QED
    BY <1>1, <1>4, <2>1, <2>2 DEF Flying, Queued, Handled
<1> QED
  BY <1>3, <1>5

LEMMA SendOnce ==
  ASSUME OnceInv, NEW f \in flying, Send(f)
  PROVE  (\A p \in Pid : Once(p))' /\ Apart'
<1> USE DEF OnceInv, TypeInv, TypeOK
<1>1. PICK p \in Pid, n \in 1 .. MaxEvents : f = [to |-> p, n |-> n] /\ n <= published
  <2>1. f \in [to : Pid, n : 1 .. published]
    OBVIOUS
  <2>2. f.to \in Pid /\ f.n \in 1 .. MaxEvents /\ f.n <= published
    BY <2>1, NamesAssumption
  <2> QED
    BY <2>1, <2>2
<1>2. /\ handled' = handled /\ flying' = flying \ {f}
      /\ Flying(p, n) /\ ~Flying(p, n)'
      /\ ~Queued(p, n) /\ ~Handled(p, n)
  BY <1>1 DEF Send, Flying, Once
<1>3. CASE mailbox' = mailbox
  BY <1>2, <1>3, FewerStep DEF Fewer
<1>4. CASE MailAppend(p, Event(n))
  <2>0. mailbox[p] \in Seq(Message) /\ \A m \in 1 .. MaxEvents : Event(m) = Event(n) => m = n
    BY DEF Event
  <2>1. /\ NoTwice(mailbox'[p], Events)
        /\ \A m \in 1 .. MaxEvents : Holds(mailbox'[p], Event(m)) => Holds(mailbox[p], Event(m)) \/ m = n
    BY <1>2, <1>4, <2>0, AppendHolds DEF MailAppend, Once, Queued
  <2>2. \A q \in Pid : q # p => mailbox'[q] = mailbox[q]
    BY <1>4 DEF MailAppend
  <2>3. ASSUME NEW q \in Pid PROVE Once(q)'
    BY <1>2, <2>1, <2>2 DEF Once, Flying, Queued, Handled
  <2>4. \A i \in DOMAIN Incarnations : Incarnations[i] \in Pid
    BY DEF Pid, Server
  <2>5. Apart'
    BY <1>2, <2>1, <2>2, <2>4 DEF Apart, Flying, Queued, Handled
  <2> QED
    BY <2>3, <2>5
<1>5. mailbox' = mailbox \/ MailAppend(p, Event(n))
  <2>1. f.to = p /\ f.n = n /\ Event(n) \in Message
    BY <1>1, NamesAssumption DEF Event, Message
  <2> QED
    BY <2>1 DEF Send, MailAppend
<1> QED
  BY <1>3, <1>4, <1>5

LEMMA HandleOnce ==
  ASSUME OnceInv, TypeInv', NEW p \in Pid, handle_info(p)
  PROVE  (\A q \in Pid : Once(q))' /\ Apart'
<1> USE DEF OnceInv, TypeInv, TypeOK
<1>1. /\ mailbox[p] \in Seq(Message) /\ handled[p] \in Seq(1 .. published)
      /\ MailTail(p) /\ mailbox[p] # <<>> /\ flying' = flying
      /\ Head(mailbox[p]).from = None /\ proc[p] = "alive"
  BY DEF handle_info, Free, MailTail
<1>2. PICK n \in 1 .. published : Head(mailbox[p]) = Event(n)
  <2>1. Head(mailbox[p]) \in Message /\ Mail(p, Head(mailbox[p]), published)
    BY <1>1, TailOf
  <2> QED
    BY <1>1, <2>1 DEF Mail, Message, Event
<1>3. n \in 1 .. MaxEvents /\ Event(n) \in Events /\ n \in Nat
  BY NamesAssumption DEF Events
<1>4. Queued(p, n) /\ ~Flying(p, n) /\ ~Handled(p, n)
  BY <1>1, <1>2, <1>3, TailHolds DEF Queued, Once
<1>5. /\ NoTwice(mailbox'[p], Events) /\ ~Holds(mailbox'[p], Event(n))
      /\ \A x : Holds(mailbox'[p], x) => Holds(mailbox[p], x)
  BY <1>1, <1>2, <1>3, TailHolds DEF MailTail, Once
<1>6. handled' = [handled EXCEPT ![p] = Append(@, n)]
  <2>1. Head(mailbox[p]).n = n
    BY <1>2 DEF Event
  <2> QED
    BY <2>1 DEF handle_info
<1>7. /\ NoTwice(handled'[p], Nat)
      /\ \A m : Holds(handled'[p], m) => Holds(handled[p], m) \/ m = n
  <2>1. handled'[p] = Append(handled[p], n)
    BY <1>6
  <2>2. NoTwice(handled[p], Nat) /\ ~Holds(handled[p], n)
    BY <1>4 DEF Once, Handled
  <2>3. handled[p] \in Seq(1 .. published) /\ n \in 1 .. published
    BY <1>1
  <2>4. /\ NoTwice(Append(handled[p], n), Nat)
        /\ \A m : Holds(Append(handled[p], n), m) => Holds(handled[p], m) \/ m = n
    BY ONLY <2>2, <2>3, AppendHolds
  <2> QED
    BY ONLY <2>1, <2>4
<1>8. \A q \in Pid : q # p => mailbox'[q] = mailbox[q] /\ handled'[q] = handled[q]
  BY <1>1, <1>6 DEF MailTail
<1>9. ASSUME NEW q \in Pid PROVE Once(q)'
  BY <1>1, <1>4, <1>5, <1>7, <1>8 DEF Once, Flying, Queued, Handled
<1>10. \A i \in DOMAIN Incarnations : Incarnations[i] \in Pid
  BY DEF Pid, Server
<1>11. ASSUME NEW i \in DOMAIN Incarnations, NEW j \in DOMAIN Incarnations, NEW m \in 1 .. MaxEvents,
              j < i, Handled(Incarnations[j], m)'
       PROVE  (~Flying(Incarnations[i], m) /\ ~Queued(Incarnations[i], m) /\ ~Handled(Incarnations[i], m))'
  <2>1. CASE Handled(Incarnations[j], m)
    <3>1. ~Flying(Incarnations[i], m) /\ ~Queued(Incarnations[i], m) /\ ~Handled(Incarnations[i], m)
      BY <1>11, <2>1 DEF Apart
    <3> QED
      BY <1>1, <1>4, <1>5, <1>7, <1>8, <1>10, <3>1 DEF Flying, Queued, Handled
  <2>2. CASE ~Handled(Incarnations[j], m)
    <3>1. Incarnations[j] = p /\ m = n
      BY <1>7, <1>8, <1>10, <1>11, <2>2 DEF Handled
    <3>2. proc[Incarnations[i]] = "new"
      BY <1>1, <1>11, <3>1 DEF Succession
    <3>3. /\ Incarnations[i] # p /\ mailbox[Incarnations[i]] = <<>> /\ handled[Incarnations[i]] = <<>>
          /\ \A f \in flying : f.to # Incarnations[i]
      BY <1>1, <1>10, <3>2 DEF Unstarted
    <3> QED
      BY <1>1, <1>8, <1>10, <3>3 DEF Flying, Queued, Handled, Holds
  <2> QED
    BY <2>1, <2>2
<1>12. Apart'
  BY <1>11 DEF Apart
<1> QED
  BY <1>9, <1>12

LEMMA OnceStep == OnceInv /\ [Next]_vars => OnceInv'
<1> SUFFICES ASSUME OnceInv, [Next]_vars PROVE OnceInv'
  OBVIOUS
<1>1. TypeInv' /\ TypeOK
  BY TypeStep DEF OnceInv, TypeInv
<1>2. Succession' /\ \A p \in Pid : Unstarted(p)'
  BY <1>1, SuccessionStep, UnstartedStep
<1>3. ASSUME Fewer PROVE (\A p \in Pid : Once(p))' /\ Apart'
  BY <1>3, FewerStep
<1>4. ASSUME NEW p \in Pid, handle_call_stop(p) PROVE Fewer
  BY <1>1, <1>4, OneMail DEF handle_call_stop, MailTail
<1>5. ASSUME NEW p \in Pid, Stopped(p) \/ Crash(p) PROVE Fewer
  BY <1>1, <1>5, OneMail DEF Stopped, Crash, Dies
<1>6. ASSUME NEW c \in Client, stop(c) PROVE Fewer
  <2>1. Stop(c) \in Message \ Events
    <3>1. Stop(c) \in Message
      BY NamesAssumption DEF Stop, Message
    <3>2. \A n \in 1 .. MaxEvents : Stop(c).from # Event(n).from
      BY NamesAssumption DEF Stop, Event
    <3> QED
      BY <3>1, <3>2 DEF Events
  <2> QED
    BY <1>1, <1>6, <2>1, OneMail, SameMail DEF stop, MailAppend, Pid
<1>7. ASSUME UNCHANGED <<mailbox, handled, flying>> PROVE Fewer
  BY <1>1, <1>7, SameMail
<1>8. (\A p \in Pid : Once(p))' /\ Apart'
  BY <1>3, <1>4, <1>5, <1>6, <1>7, PublishOnce, SendOnce, HandleOnce, <1>1
  DEF Next, vars, Serve, CloseSession, init, Undeclare, Destroy, Down
<1> QED
  BY <1>1, <1>2, <1>8 DEF OnceInv

\* However the threads of the callbacks are delayed, and however often the
\* server is started again: no event is handled twice, by one incarnation of
\* it or by two.
THEOREM EventsAreHandledOnce == Spec => []HandledOnce
<1>1. OnceInv => HandledOnce
  <2> SUFFICES ASSUME OnceInv, NEW p \in Server, NEW q \in Server,
                      NEW i \in DOMAIN handled[p], NEW j \in DOMAIN handled[q],
                      handled[p][i] = handled[q][j]
               PROVE  p = q /\ i = j
    BY DEF HandledOnce
  <2>1. p \in Pid /\ q \in Pid /\ handled[p][i] \in 1 .. MaxEvents /\ handled[p][i] \in Nat
    BY NamesAssumption DEF OnceInv, TypeInv, TypeOK, Pid
  <2>2. PICK k \in DOMAIN Incarnations, l \in DOMAIN Incarnations :
          p = Incarnations[k] /\ q = Incarnations[l]
    BY DEF Server
  <2>3. k \in Nat /\ l \in Nat
    BY NamesAssumption
  <2>4. Handled(p, handled[p][i]) /\ Handled(q, handled[p][i])
    BY DEF Handled, Holds
  <2>5. ~(k < l) /\ ~(l < k)
    BY <2>1, <2>2, <2>4 DEF OnceInv, Apart
  <2> QED
    BY <2>1, <2>2, <2>3, <2>5 DEF OnceInv, Once, NoTwice
<1> QED
  BY <1>1, InitOnce, OnceStep, PTL DEF Spec
-----------------------------------------------------------------------------
(* The answers of the servers.                                             *)

\* The clients that were told :ok, and the servers that may have told them.
Told == {c \in Client : client[c] = "ok"}
Done == {p \in undeclared \cap Server : proc[p] = "dead"}

\* A client waits for the server that has its message or serves it: one that
\* got its answer, or gave up, is in no mailbox any more.  A server that will
\* say :ok has undeclared its source.
Pending ==
  \A p \in Pid :
    /\ proc[p] # "alive" => mailbox[p] = <<>>
    /\ \A i \in DOMAIN mailbox[p] :
         mailbox[p][i].from # None => client[mailbox[p][i].from] = p
    /\ serving[p].to # None => client[serving[p].to] = p
    /\ serving[p].answer = "ok" => p \in undeclared
\* Each client that was told :ok has a dead server of its own.
Backed == \E f \in [Told -> Done] : IsInjective(f)

LEMMA InitPending == Init => Pending /\ Backed
<1> SUFFICES ASSUME Init PROVE Pending /\ Backed
  OBVIOUS
<1>1. Told = {}
  BY DEF Init, Told
<1>2. [c \in {} |-> c] \in [Told -> Done] /\ IsInjective([c \in {} |-> c])
  BY <1>1 DEF IsInjective
<1>3. \A p \in Pid : mailbox[p] = <<>> /\ serving[p] = Nobody
  BY DEF Init
<1>4. Pending
  BY <1>3 DEF Pending, Nobody
<1>5. Backed
  BY <1>2 DEF Backed
<1> QED
  BY <1>4, <1>5

LEMMA PendingMail ==
  ASSUME TypeInv, Pending, NEW p \in Pid, client' = client, proc' = proc,
         \/ mailbox' = mailbox
         \/ MailTail(p)
         \/ \E m \in Message : m.from = None /\ proc[p] = "alive" /\ MailAppend(p, m)
  PROVE  \A q \in Pid :
           /\ proc'[q] # "alive" => mailbox'[q] = <<>>
           /\ \A i \in DOMAIN mailbox'[q] :
                mailbox'[q][i].from # None => client'[mailbox'[q][i].from] = q
<1> USE DEF TypeInv, TypeOK
<1>0. mailbox[p] \in Seq(Message)
  OBVIOUS
<1>1. CASE mailbox' = mailbox
  BY <1>1 DEF Pending
<1>2. CASE MailTail(p)
  <2>1. \A i \in DOMAIN Tail(mailbox[p]) :
          Tail(mailbox[p])[i].from # None => client[Tail(mailbox[p])[i].from] = p
    BY <1>0, <1>2, TailOf DEF MailTail, Pending
  <2>2. mailbox'[p] = Tail(mailbox[p]) /\ proc[p] = "alive"
    BY <1>2 DEF MailTail, Pending
  <2>3. \A q \in Pid : q # p => mailbox'[q] = mailbox[q]
    BY <1>2 DEF MailTail
  <2>4. \A i \in DOMAIN mailbox'[p] :
          mailbox'[p][i].from # None => client'[mailbox'[p][i].from] = p
    BY <2>1, <2>2
  <2>5. \A q \in Pid : q # p =>
           /\ proc'[q] # "alive" => mailbox'[q] = <<>>
           /\ \A i \in DOMAIN mailbox'[q] :
                mailbox'[q][i].from # None => client'[mailbox'[q][i].from] = q
    BY <2>3 DEF Pending
  <2> QED
    BY <2>2, <2>4, <2>5
<1>3. ASSUME NEW m \in Message, m.from = None, proc[p] = "alive", MailAppend(p, m)
      PROVE  \A q \in Pid :
               /\ proc'[q] # "alive" => mailbox'[q] = <<>>
               /\ \A i \in DOMAIN mailbox'[q] :
                    mailbox'[q][i].from # None => client'[mailbox'[q][i].from] = q
  <2>1. \A i \in DOMAIN Append(mailbox[p], m) :
          Append(mailbox[p], m)[i].from # None => client[Append(mailbox[p], m)[i].from] = p
    BY <1>0, <1>3, AppendOf DEF Pending
  <2>2. mailbox'[p] = Append(mailbox[p], m)
    BY <1>3 DEF MailAppend
  <2>3. \A q \in Pid : q # p => mailbox'[q] = mailbox[q]
    BY <1>3 DEF MailAppend
  <2>4. \A i \in DOMAIN mailbox'[p] :
          mailbox'[p][i].from # None => client'[mailbox'[p][i].from] = p
    BY <2>1, <2>2
  <2>5. \A q \in Pid : q # p =>
           /\ proc'[q] # "alive" => mailbox'[q] = <<>>
           /\ \A i \in DOMAIN mailbox'[q] :
                mailbox'[q][i].from # None => client'[mailbox'[q][i].from] = q
    BY <2>3 DEF Pending
  <2> QED
    BY <1>3, <2>4, <2>5
<1> QED
  BY <1>1, <1>2, <1>3

LEMMA PendingStep ==
  ASSUME TypeInv, Pending, [Next]_vars
  PROVE  Pending'
<1> USE NamesAssumption DEF TypeInv, TypeOK
<1>1. ASSUME NEW f \in flying, Send(f) PROVE Pending'
  <2>1. f.to \in Pid /\ f.n \in 1 .. published
    OBVIOUS
  <2>2. Event(f.n) \in Message /\ Event(f.n).from = None
    BY <2>1 DEF Event, Message
  <2>3. mailbox' = mailbox \/ (proc[f.to] = "alive" /\ MailAppend(f.to, Event(f.n)))
    BY <1>1, <2>2 DEF Send, MailAppend
  <2>4. UNCHANGED <<proc, client, serving, undeclared>>
    BY <1>1 DEF Send
  <2> QED
    BY <2>1, <2>2, <2>3, <2>4, PendingMail DEF Pending
<1>2. ASSUME NEW p \in Pid, handle_info(p) PROVE Pending'
  <2>1. MailTail(p) /\ UNCHANGED <<proc, client, serving, undeclared>>
    BY <1>2 DEF handle_info, MailTail
  <2> QED
    BY <2>1, PendingMail DEF Pending
<1>3. ASSUME NEW p \in Pid, handle_call_stop(p) PROVE Pending'
  <2>1. MailTail(p) /\ UNCHANGED <<proc, client>> /\ mailbox[p] \in Seq(Message)
    BY <1>3 DEF handle_call_stop, MailTail
  <2>2. client[Head(mailbox[p]).from] = p
    BY <1>3, <2>1, TailOf DEF MailTail, Pending, handle_call_stop
  <2>3. /\ serving'[p].to = Head(mailbox[p]).from
        /\ serving'[p].answer = "ok" => p \in undeclared'
        /\ undeclared \subseteq undeclared'
        /\ \A q \in Pid : q # p => serving'[q] = serving[q]
    BY <1>3 DEF handle_call_stop, Undeclaration
  <2>4. ASSUME NEW q \in Pid
        PROVE  /\ serving'[q].to # None => client'[serving'[q].to] = q
               /\ serving'[q].answer = "ok" => q \in undeclared'
    <3>1. CASE q = p
      BY <2>1, <2>2, <2>3, <3>1
    <3>2. CASE q # p
      BY <2>1, <2>3, <3>2 DEF Pending
    <3> QED
      BY <3>1, <3>2
  <2>5. \A q \in Pid :
           /\ proc'[q] # "alive" => mailbox'[q] = <<>>
           /\ \A i \in DOMAIN mailbox'[q] :
                mailbox'[q][i].from # None => client'[mailbox'[q][i].from] = q
    BY <2>1, PendingMail
  <2> QED
    BY <2>4, <2>5 DEF Pending
\* The client that is answered has no message with another process.
<1>4. ASSUME NEW p \in Pid, Stopped(p) PROVE Pending'
  <2>1. PICK c \in Client : c = serving[p].to /\ client[c] = p
    BY <1>4 DEF Stopped, Pending
  <2>2. /\ mailbox' = [mailbox EXCEPT ![p] = <<>>] /\ proc' = [proc EXCEPT ![p] = "dead"]
        /\ serving' = [serving EXCEPT ![p] = Nobody] /\ undeclared' = undeclared
        /\ \A d \in Client : d # c => client'[d] = client[d]
    BY <1>4, <2>1 DEF Stopped, Dies
  <2>3. ASSUME NEW q \in Pid, q # p
        PROVE  /\ \A i \in DOMAIN mailbox[q] : mailbox[q][i].from \in Client \cup {None} /\ mailbox[q][i].from # c
               /\ serving[q].to \in Client \cup {None} /\ serving[q].to # c
    <3>1. ASSUME NEW i \in DOMAIN mailbox[q]
          PROVE  mailbox[q][i].from \in Client \cup {None} /\ mailbox[q][i].from # c
      <4>1. mailbox[q] \in Seq(Message)
        OBVIOUS
      <4>2. mailbox[q][i] \in Message
        BY <4>1
      <4>3. mailbox[q][i].from \in Client \cup {None}
        BY <4>2 DEF Message
      <4>4. mailbox[q][i].from # None => client[mailbox[q][i].from] = q
        BY DEF Pending
      <4> QED
        BY <2>1, <2>3, <4>3, <4>4
    <3> QED
      BY <2>1, <2>3, <3>1 DEF Pending
  <2>4. ASSUME NEW q \in Pid, q # p
        PROVE  /\ proc'[q] # "alive" => mailbox'[q] = <<>>
               /\ \A i \in DOMAIN mailbox'[q] :
                    mailbox'[q][i].from # None => client'[mailbox'[q][i].from] = q
               /\ serving'[q].to # None => client'[serving'[q].to] = q
               /\ serving'[q].answer = "ok" => q \in undeclared'
    BY <2>2, <2>3, <2>4 DEF Pending
  <2>5. mailbox'[p] = <<>> /\ serving'[p].to = None /\ serving'[p].answer # "ok"
    BY <2>2 DEF Nobody
  <2> QED
    BY <2>4, <2>5 DEF Pending
<1>5. ASSUME NEW p \in Pid, Crash(p) PROVE Pending'
  BY <1>5 DEF Crash, Dies, Nobody, Pending
<1>6. ASSUME NEW p \in Pid, init(p) PROVE Pending'
  BY <1>6 DEF init, Pending
<1>7. ASSUME NEW p \in Pid, Undeclare(p) PROVE Pending'
  BY <1>7 DEF Undeclare, Undeclaration, Pending
\* A client that starts or stops waiting has no message anywhere.
<1>8. ASSUME NEW c \in Client, \A p \in Pid : client[c] # p \/ proc[p] = "dead",
             UNCHANGED <<proc, serving, undeclared>>,
             \A d \in Client : d # c => client'[d] = client[d]
      PROVE  \A p \in Pid :
               /\ \A i \in DOMAIN mailbox[p] :
                    mailbox[p][i].from # None => client'[mailbox[p][i].from] = p
               /\ serving'[p].to # None => client'[serving'[p].to] = p
               /\ serving'[p].answer = "ok" => p \in undeclared'
  <2> TAKE p \in Pid
  <2>1. ASSUME NEW i \in DOMAIN mailbox[p], mailbox[p][i].from # None
        PROVE  client'[mailbox[p][i].from] = p
    <3>1. mailbox[p] \in Seq(Message) /\ mailbox[p] # <<>>
      BY <2>1
    <3>2. mailbox[p][i].from \in Client
      <4>1. mailbox[p][i] \in Message
        BY <2>1, <3>1
      <4> QED
        BY <2>1, <4>1 DEF Message
    <3>3. client[mailbox[p][i].from] = p /\ proc[p] # "dead"
      BY <2>1, <3>1 DEF Pending
    <3> QED
      BY <1>8, <3>2, <3>3
  <2>2. serving[p].to # None => client'[serving[p].to] = p
    <3>1. serving[p].to # None => serving[p].to \in Client /\ proc[p] = "alive"
      OBVIOUS
    <3> QED
      BY <1>8, <3>1 DEF Pending
  <2> QED
    BY <1>8, <2>1, <2>2 DEF Pending
<1>9. ASSUME NEW c \in Client, stop(c) PROVE Pending'
  <2>1. /\ UNCHANGED <<proc, serving, undeclared>> /\ client[c] = "idle"
        /\ \A d \in Client : d # c => client'[d] = client[d]
    BY <1>9 DEF stop
  <2>2. \A p \in Pid : client[c] # p \/ proc[p] = "dead"
    BY <2>1
  <2>3. \A p \in Pid :
          /\ \A i \in DOMAIN mailbox[p] :
               mailbox[p][i].from # None => client'[mailbox[p][i].from] = p
          /\ serving'[p].to # None => client'[serving'[p].to] = p
          /\ serving'[p].answer = "ok" => p \in undeclared'
    BY <1>8, <2>1, <2>2
  <2>4. CASE mailbox' = mailbox
    BY <2>1, <2>3, <2>4 DEF Pending
  <2>5. ASSUME NEW p \in Server, proc[p] = "alive", client'[c] = p,
               mailbox' = [mailbox EXCEPT ![p] = Append(@, Stop(c))]
        PROVE  Pending'
    <3>1. p \in Pid
      BY DEF Pid
    <3>2. mailbox[p] \in Seq(Message)
      BY <3>1
    <3>3. Stop(c) \in Message /\ Stop(c).from = c
      BY DEF Stop, Message
    <3>4. \A i \in DOMAIN Append(mailbox[p], Stop(c)) :
            Append(mailbox[p], Stop(c))[i].from # None
            => client'[Append(mailbox[p], Stop(c))[i].from] = p
      BY <2>3, <2>5, <3>1, <3>2, <3>3, AppendOf
    <3>5. mailbox'[p] = Append(mailbox[p], Stop(c)) /\ \A q \in Pid : q # p => mailbox'[q] = mailbox[q]
      BY <2>5, <3>1
    <3> QED
      BY <2>1, <2>3, <2>5, <3>4, <3>5 DEF Pending
  <2> QED
    BY <1>9, <2>4, <2>5 DEF stop
<1>10. ASSUME NEW c \in Client, Down(c) PROVE Pending'
  <2>1. /\ UNCHANGED <<proc, serving, undeclared, mailbox>> /\ proc[client[c]] = "dead"
        /\ \A d \in Client : d # c => client'[d] = client[d]
    BY <1>10 DEF Down
  <2>2. \A p \in Pid : client[c] # p \/ proc[p] = "dead"
    BY <2>1
  <2>3. \A p \in Pid :
          /\ \A i \in DOMAIN mailbox[p] :
               mailbox[p][i].from # None => client'[mailbox[p][i].from] = p
          /\ serving'[p].to # None => client'[serving'[p].to] = p
          /\ serving'[p].answer = "ok" => p \in undeclared'
    BY <1>8, <2>1, <2>2
  <2> QED
    BY <2>1, <2>3 DEF Pending
<1>11. ASSUME UNCHANGED <<proc, client, serving, undeclared, mailbox>> PROVE Pending'
  BY <1>11 DEF Pending
<1> QED
  BY <1>1, <1>2, <1>3, <1>4, <1>5, <1>6, <1>7, <1>9, <1>10, <1>11
     DEF Next, Serve, vars, Publish, CloseSession, Destroy

\* A step that answers nobody with :ok keeps every client's server.
LEMMA KeepBacked ==
  ASSUME Backed, Told' \subseteq Told, Done \subseteq Done'
  PROVE  Backed'
<1>1. PICK f \in [Told -> Done] : IsInjective(f)
  BY DEF Backed
<1>2. PICK g : g = [c \in Told' |-> f[c]]
  OBVIOUS
<1>3. g \in [Told' -> Done'] /\ IsInjective(g)
  BY <1>1, <1>2 DEF IsInjective
<1> QED
  BY <1>3 DEF Backed

LEMMA BackedStep ==
  ASSUME TypeInv, Pending, Backed, [Next]_vars
  PROVE  Backed'
<1> USE NamesAssumption DEF TypeInv, TypeOK
<1>1. ASSUME NEW p \in Pid, Stopped(p) PROVE Backed'
  <2>1. PICK c \in Client : c = serving[p].to /\ client[c] = p
    BY <1>1 DEF Stopped, Pending
  <2>2. /\ client' = [client EXCEPT ![c] = serving[p].answer] /\ undeclared' = undeclared
        /\ proc' = [proc EXCEPT ![p] = "dead"] /\ proc[p] = "alive" /\ p \in Server
    BY <1>1, <2>1 DEF Stopped, Dies
  <2>3. Done \subseteq Done' /\ p \notin Done
    BY <2>2 DEF Done
  <2>4. c \notin Told
    BY <2>1, <2>2 DEF Told
  <2>5. CASE serving[p].answer # "ok"
    <3>1. Told' \subseteq Told
      BY <2>2, <2>5 DEF Told
    <3> QED
      BY <2>3, <3>1, KeepBacked
  <2>6. CASE serving[p].answer = "ok"
    <3>1. PICK f \in [Told -> Done] : IsInjective(f)
      BY DEF Backed
    <3>2. Told' = Told \cup {c}
      BY <2>2, <2>6 DEF Told
    <3>3. p \in Done'
      BY <2>2, <2>6 DEF Done, Pending
    <3>4. PICK g : g = [d \in Told' |-> IF d = c THEN p ELSE f[d]]
      OBVIOUS
    <3>5. g \in [Told' -> Done']
      BY <2>3, <3>1, <3>2, <3>3, <3>4
    <3>6. IsInjective(g)
      BY <2>3, <2>4, <3>1, <3>2, <3>4 DEF IsInjective
    <3> QED
      BY <3>5, <3>6 DEF Backed
  <2> QED
    BY <2>5, <2>6
<1>2. ASSUME NEW c \in Client, stop(c) \/ Down(c) PROVE Told' \subseteq Told /\ Done' = Done
  <2>1. UNCHANGED <<proc, undeclared>> /\ client'[c] # "ok"
        /\ \A d \in Client : d # c => client'[d] = client[d]
    <3>1. \A p \in Server : p # "ok"
      BY DEF Pid
    <3> QED
      BY <1>2, <3>1 DEF stop, Down
  <2> QED
    BY <2>1 DEF Told, Done
<1>3. ASSUME NEW p \in Pid, Crash(p) \/ init(p) PROVE Told' = Told /\ Done \subseteq Done'
  BY <1>3 DEF Crash, Dies, Free, init, Told, Done
<1>4. ASSUME UNCHANGED <<proc, client>>, undeclared \subseteq undeclared'
      PROVE  Told' = Told /\ Done \subseteq Done'
  BY <1>4 DEF Told, Done
<1>5. ASSUME NEW p \in Pid, handle_info(p) \/ handle_call_stop(p) \/ Undeclare(p) \/ Destroy(p)
      PROVE  UNCHANGED <<proc, client>> /\ undeclared \subseteq undeclared'
  BY <1>5 DEF handle_info, handle_call_stop, Undeclare, Undeclaration, Destroy
<1>6. ASSUME NEW f \in flying, Send(f) PROVE UNCHANGED <<proc, client, undeclared>>
  BY <1>6 DEF Send
<1>7. ASSUME NEW n \in 1 .. MaxEvents, Publish(n) PROVE UNCHANGED <<proc, client, undeclared>>
  BY <1>7 DEF Publish
<1>8. CASE CloseSession \/ UNCHANGED vars
  BY <1>4, <1>8, KeepBacked DEF CloseSession, vars
<1> QED
  BY <1>1, <1>2, <1>3, <1>4, <1>5, <1>6, <1>7, <1>8, KeepBacked DEF Next, Serve

\* There are as many incarnations as they have names at most.
LEMMA ServersFinite == IsFiniteSet(Server)
<1>1. PICK n \in Nat : DOMAIN Incarnations = 1 .. n
  BY NamesAssumption
<1>2. Incarnations \in Surjection(1 .. n, Server)
  BY <1>1, NamesAssumption DEF Surjection, Server
<1> QED
  BY <1>2, FS_Interval, FS_Surjection

\* However many clients stop a server, and whatever becomes of it and its
\* session: at most as many are told :ok as servers undeclared their source.
THEOREM OkIsTrue == Spec => []OkMeansUndeclared
<1>1. Spec => [](TypeInv /\ Pending /\ Backed)
  BY InitTypes, InitPending, TypeStep, PendingStep, BackedStep, PTL DEF Spec
<1>2. Backed => OkMeansUndeclared
  <2> SUFFICES ASSUME Backed PROVE OkMeansUndeclared
    OBVIOUS
  <2> DEFINE U == undeclared \cap Server
  <2>1. PICK f \in [Told -> Done] : IsInjective(f)
    BY DEF Backed
  <2>2. f \in Injection(Told, U)
    <3>1. Done \subseteq U
      BY DEF Done
    <3>2. f \in [Told -> U]
      BY <2>1, <3>1
    <3> QED
      BY <2>1, <3>2 DEF Injection
  <2>3. IsFiniteSet(U)
    <3>1. U \in SUBSET Server
      OBVIOUS
    <3> QED
      BY <3>1, ServersFinite, FS_Subset
  <2> HIDE DEF U
  <2>4. Cardinality(Told) <= Cardinality(U)
    BY <2>2, <2>3, FS_Injection
  <2> QED
    BY <2>4 DEF OkMeansUndeclared, Told, U
<1> QED
  BY <1>1, <1>2, PTL
-----------------------------------------------------------------------------
(* No event is lost on its way, and no client is forgotten.                *)

\* An event its callback was called with goes from its thread to the mailbox
\* and from there to the process, and leaves this way only when the process is
\* dead; what was handled is.
OnItsWay(p, n) ==
  /\ Flying(p, n) => Flying(p, n)' \/ Queued(p, n)' \/ proc'[p] = "dead"
  /\ Queued(p, n) => Queued(p, n)' \/ Handled(p, n)' \/ proc'[p] = "dead"
  /\ Handled(p, n) => Handled(p, n)'
EventsArrive == [][\A p \in Pid, n \in 1 .. MaxEvents : OnItsWay(p, n)]_vars

LEMMA TailKeeps ==
  ASSUME NEW S, NEW s \in Seq(S), s # <<>>, NEW x, Holds(s, x), x # Head(s)
  PROVE  Holds(Tail(s), x)
<1>1. PICK i \in 1 .. Len(s) : s[i] = x
  BY DEF Holds
<1>2. i # 1
  BY <1>1
<1>3. i - 1 \in 1 .. Len(s) - 1 /\ Len(Tail(s)) = Len(s) - 1
  BY <1>1, <1>2
<1>4. Tail(s)[i - 1] = s[i]
  BY <1>1, <1>2, <1>3
<1>5. i - 1 \in DOMAIN Tail(s)
  BY <1>3
<1> QED
  BY <1>1, <1>4, <1>5 DEF Holds

LEMMA AppendKeeps ==
  ASSUME NEW S, NEW s \in Seq(S), NEW y \in S
  PROVE  /\ \A x : Holds(s, x) => Holds(Append(s, y), x)
         /\ Holds(Append(s, y), y)
<1>1. DOMAIN s = 1 .. Len(s) /\ DOMAIN Append(s, y) = 1 .. Len(s) + 1 /\ Len(s) \in Nat
  OBVIOUS
<1>2. (\A i \in 1 .. Len(s) : Append(s, y)[i] = s[i]) /\ Append(s, y)[Len(s) + 1] = y
  OBVIOUS
<1> QED
  BY <1>1, <1>2 DEF Holds

\* A mailbox loses its head, or everything when its process dies.
LEMMA MailKeeps ==
  ASSUME TypeOK, NEW p \in Pid, NEW q \in Pid, NEW x, Holds(mailbox[q], x),
         \/ mailbox' = mailbox
         \/ MailTail(p) /\ x # Head(mailbox[p])
         \/ \E m \in Message : MailAppend(p, m)
  PROVE  Holds(mailbox'[q], x)
<1>1. mailbox \in [Pid -> Seq(Message)] /\ mailbox[p] \in Seq(Message)
  BY DEF TypeOK
<1>2. CASE MailTail(p) /\ x # Head(mailbox[p])
  <2>1. Holds(mailbox[p], x) => Holds(Tail(mailbox[p]), x)
    BY <1>1, <1>2, TailKeeps DEF MailTail
  <2> QED
    BY <1>1, <1>2, <2>1 DEF MailTail
<1>3. ASSUME NEW m \in Message, MailAppend(p, m) PROVE Holds(mailbox'[q], x)
  <2>1. Holds(mailbox[p], x) => Holds(Append(mailbox[p], m), x)
    BY <1>1, AppendKeeps
  <2> QED
    BY <1>1, <1>3, <2>1 DEF MailAppend
<1> QED
  BY <1>2, <1>3

\* A step that sends nothing, handles nothing and takes no event from a
\* mailbox of a process that lives on.
LEMMA WayStutters ==
  ASSUME flying \subseteq flying', handled' = handled, NEW p \in Pid, NEW n \in 1 .. MaxEvents,
         Queued(p, n) => Queued(p, n)' \/ proc'[p] = "dead"
  PROVE  OnItsWay(p, n)
BY DEF OnItsWay, Flying, Handled

\* What is sent is a message, and a thread appends it or finds nobody.
LEMMA SentIs ==
  ASSUME TypeOK
  PROVE  /\ \A n \in 1 .. published : Event(n) \in Message
         /\ \A c \in Client : Stop(c) \in Message
         /\ \A f \in flying : Send(f) => mailbox' = mailbox \/ MailAppend(f.to, Event(f.n))
<1> USE NamesAssumption DEF TypeOK
<1>1. \A n \in 1 .. published : Event(n) \in Message
  BY DEF Event, Message
<1>2. \A c \in Client : Stop(c) \in Message
  BY DEF Stop, Message
<1>3. ASSUME NEW f \in flying, Send(f) PROVE mailbox' = mailbox \/ MailAppend(f.to, Event(f.n))
  <2>1. f.n \in 1 .. published /\ f.to \in Pid
    OBVIOUS
  <2>2. Event(f.n) \in Message
    BY <1>1, <2>1
  <2> QED
    BY <1>3, <2>2 DEF Send, MailAppend
<1> QED
  BY <1>1, <1>2, <1>3

LEMMA WayStep ==
  ASSUME OnceInv, [Next]_vars, NEW p \in Pid, NEW n \in 1 .. MaxEvents
  PROVE  OnItsWay(p, n)
<1>1. /\ TypeOK /\ None \notin Client
      /\ mailbox \in [Pid -> Seq(Message)] /\ handled \in [Pid -> Seq(1 .. published)]
  BY NamesAssumption DEF OnceInv, TypeInv, TypeOK
<1>2. Event(n).from = None /\ Event(n).n = n
  BY DEF Event
<1>3. ASSUME NEW f \in flying, Send(f) PROVE OnItsWay(p, n)
  <2>1. f.to \in Pid /\ f.n \in 1 .. published /\ published \in 0 .. MaxEvents
        /\ f = [to |-> f.to, n |-> f.n]
    BY <1>1 DEF TypeOK
  <2>2. Event(f.n) \in Message
    BY <1>1, <2>1, SentIs
  <2>3. mailbox' = mailbox \/ MailAppend(f.to, Event(f.n))
    BY <1>1, <1>3, SentIs
  <2>4. Queued(p, n) => Queued(p, n)'
    BY <1>1, <2>1, <2>2, <2>3, MailKeeps DEF Queued
  <2>5. CASE f = [to |-> p, n |-> n]
    <3>1. f.to = p /\ f.n = n
      BY <2>5
    <3>2. CASE proc[p] = "alive"
      <4>1. mailbox'[p] = Append(mailbox[p], Event(n))
        BY <1>1, <1>3, <3>1, <3>2 DEF Send
      <4>2. Queued(p, n)'
        BY <1>1, <2>2, <3>1, <4>1, AppendKeeps DEF Queued
      <4> QED
        BY <1>3, <4>2 DEF OnItsWay, Send, Handled
    <3>3. CASE proc[p] # "alive"
      <4>1. proc[p] # "new"
        BY <3>1 DEF OnceInv, Unstarted
      <4>2. proc'[p] = "dead"
        BY <1>1, <1>3, <3>3, <4>1 DEF Send, TypeOK
      <4> QED
        BY <1>3, <4>2 DEF OnItsWay, Send, Handled
    <3> QED
      BY <3>2, <3>3
  <2>6. CASE f # [to |-> p, n |-> n]
    BY <1>3, <2>4, <2>6 DEF Send, OnItsWay, Flying, Handled
  <2> QED
    BY <2>5, <2>6
<1>4. ASSUME NEW q \in Pid, handle_info(q) PROVE OnItsWay(p, n)
  <2>1. /\ MailTail(q) /\ flying' = flying
        /\ handled' = [handled EXCEPT ![q] = Append(@, Head(mailbox[q]).n)]
    BY <1>4 DEF handle_info, MailTail
  <2>2. Head(mailbox[q]).n \in 1 .. published
    <3>1. Head(mailbox[q]).from = None /\ mailbox[q] # <<>> /\ mailbox[q] \in Seq(Message)
      BY <1>1, <1>4 DEF handle_info
    <3> QED
      BY <3>1, TailOf DEF OnceInv, TypeInv, Mail
  <2>3. /\ \A x : Holds(handled[q], x) => Holds(Append(handled[q], Head(mailbox[q]).n), x)
        /\ Holds(Append(handled[q], Head(mailbox[q]).n), Head(mailbox[q]).n)
    <3> DEFINE S == 1 .. published
               s == handled[q]
               y == Head(mailbox[q]).n
    <3>1. s \in Seq(S) /\ y \in S
      BY <1>1, <2>2
    <3> HIDE DEF S, s, y
    <3>2. (\A x : Holds(s, x) => Holds(Append(s, y), x)) /\ Holds(Append(s, y), y)
      BY <3>1, AppendKeeps
    <3> QED
      BY <3>2 DEF s, y
  <2>4. Handled(p, n) => Handled(p, n)'
    BY <1>1, <2>1, <2>3 DEF Handled
  <2>5. Queued(p, n) => Queued(p, n)' \/ Handled(p, n)'
    <3>1. CASE p = q /\ Head(mailbox[q]) = Event(n)
      BY <1>1, <1>2, <2>1, <2>3, <3>1 DEF Handled
    <3>2. CASE p # q
      BY <1>1, <2>1, <3>2 DEF Queued, MailTail
    <3>3. CASE Head(mailbox[q]) # Event(n)
      BY <1>1, <2>1, <3>3, MailKeeps DEF Queued
    <3> QED
      BY <3>1, <3>2, <3>3
  <2> QED
    BY <2>1, <2>4, <2>5 DEF OnItsWay, Flying
<1>5. ASSUME NEW q \in Pid, handle_call_stop(q) PROVE OnItsWay(p, n)
  <2>1. MailTail(q) /\ UNCHANGED <<flying, handled>> /\ Head(mailbox[q]) # Event(n)
    BY <1>2, <1>5 DEF handle_call_stop, MailTail
  <2> QED
    BY <1>1, <2>1, MailKeeps, WayStutters DEF Queued
<1>6. ASSUME NEW q \in Pid, Stopped(q) \/ Crash(q) PROVE OnItsWay(p, n)
  <2>1. /\ UNCHANGED <<flying, handled>> /\ proc' = [proc EXCEPT ![q] = "dead"]
        /\ mailbox' = [mailbox EXCEPT ![q] = <<>>]
    BY <1>6 DEF Stopped, Crash, Dies
  <2>2. Queued(p, n) => Queued(p, n)' \/ proc'[p] = "dead"
    BY <1>1, <2>1 DEF Queued, TypeOK
  <2> QED
    BY <2>1, <2>2, WayStutters
<1>7. ASSUME NEW c \in Client, stop(c) PROVE OnItsWay(p, n)
  <2>1. Stop(c) \in Message /\ UNCHANGED <<flying, handled>> /\ Server \subseteq Pid
    BY <1>1, <1>7, SentIs DEF stop, Pid
  <2>2. mailbox' = mailbox \/ \E q \in Pid : MailAppend(q, Stop(c))
    BY <1>7, <2>1 DEF stop, MailAppend
  <2>3. Queued(p, n) => Queued(p, n)'
    BY <1>1, <2>1, <2>2, MailKeeps DEF Queued
  <2> QED
    BY <2>1, <2>3, WayStutters
<1>8. CASE UNCHANGED <<mailbox, handled>> /\ flying \subseteq flying'
  BY <1>8, WayStutters DEF Queued
<1> QED
  BY <1>3, <1>4, <1>5, <1>6, <1>7, <1>8
     DEF Next, Serve, vars, Publish, CloseSession, init, Undeclare, Destroy, Down

\* However late its thread runs, and whatever its process, another one, a
\* client or the session does meanwhile: an event a callback was called with
\* is on its way or handled as long as its process lives.
THEOREM NoEventLost == Spec => EventsArrive
<1>1. OnceInv /\ [Next]_vars => \A p \in Pid, n \in 1 .. MaxEvents : OnItsWay(p, n)
  BY WayStep
<1> QED
  BY <1>1, InitOnce, OnceStep, PTL DEF Spec, EventsArrive
-----------------------------------------------------------------------------
\* A client waits for a server that has its request, is stopping for it, or is
\* dead, so that the monitor tells.
Heard(c, p) == \/ Holds(mailbox[p], Stop(c))
               \/ serving[p].to = c
               \/ proc[p] = "dead"
NobodyForgotten == \A c \in Client, p \in Server : client[c] = p => Heard(c, p)

LEMMA HeardStep ==
  ASSUME TypeInv, NobodyForgotten, [Next]_vars
  PROVE  NobodyForgotten'
<1> SUFFICES ASSUME NEW c \in Client, NEW p \in Server, client'[c] = p PROVE Heard(c, p)'
  BY DEF NobodyForgotten
<1>1. /\ TypeOK /\ p \in Pid /\ None \notin Client /\ p \notin {"idle", "ok", "error", "exit"}
      /\ mailbox \in [Pid -> Seq(Message)] /\ proc \in [Pid -> {"new", "alive", "dead"}]
      /\ client \in [Client -> Server \cup {"idle", "ok", "error", "exit"}]
      /\ Stop(c).from = c
  BY NamesAssumption DEF TypeInv, TypeOK, Pid, Stop
<1>2. CASE client[c] # p
  <2>1. stop(c)
    <3>1. ASSUME NEW q \in Pid, Stopped(q) PROVE FALSE
      <4>1. serving[q].answer \in {"ok", "error"}
        BY <3>1, <1>1 DEF Stopped, TypeOK
      <4> QED
        BY <1>1, <1>2, <3>1, <4>1 DEF Stopped
    <3>2. ASSUME NEW d \in Client, Down(d) PROVE FALSE
      BY <1>1, <1>2, <3>2 DEF Down
    <3>3. ASSUME NEW d \in Client, stop(d) PROVE d = c
      BY <1>1, <1>2, <3>3 DEF stop
    <3> QED
      BY <1>1, <1>2, <3>1, <3>2, <3>3 DEF Next, Serve, vars, Publish, Send, CloseSession, init,
         handle_info, handle_call_stop, Undeclare, Crash, Destroy
  <2>2. mailbox' = [mailbox EXCEPT ![p] = Append(@, Stop(c))]
    <3>1. PICK q \in Server : /\ mailbox' = [mailbox EXCEPT ![q] = Append(@, Stop(c))]
                              /\ client' = [client EXCEPT ![c] = q]
      BY <1>1, <2>1 DEF stop
    <3>2. q = p
      BY <1>1, <3>1
    <3> QED
      BY <3>1, <3>2
  <2>3. Stop(c) \in Message
    BY <1>1, SentIs
  <2> QED
    BY <1>1, <2>2, <2>3, AppendKeeps DEF Heard
<1>3. CASE client[c] = p
  <2>1. Heard(c, p)
    BY <1>3 DEF NobodyForgotten
  <2>2. CASE UNCHANGED <<mailbox, serving, proc>>
    BY <2>1, <2>2 DEF Heard
  <2>3. ASSUME NEW f \in flying, Send(f) PROVE Heard(c, p)'
    <3>1. f.to \in Pid /\ f.n \in 1 .. published /\ UNCHANGED <<serving, proc>>
      BY <1>1, <2>3 DEF TypeOK, Send
    <3>2. Event(f.n) \in Message /\ (mailbox' = mailbox \/ MailAppend(f.to, Event(f.n)))
      BY <1>1, <2>3, <3>1, SentIs
    <3> QED
      BY <1>1, <2>1, <3>1, <3>2, MailKeeps DEF Heard
  <2>4. ASSUME NEW q \in Pid, init(q) PROVE Heard(c, p)'
    BY <1>1, <2>1, <2>4 DEF init, Heard
  <2>5. ASSUME NEW q \in Pid, handle_info(q) PROVE Heard(c, p)'
    <3>1. MailTail(q) /\ UNCHANGED <<serving, proc>> /\ Stop(c) # Head(mailbox[q])
      BY <1>1, <2>5 DEF handle_info, MailTail
    <3> QED
      BY <1>1, <2>1, <3>1, MailKeeps DEF Heard
  <2>6. ASSUME NEW q \in Pid, handle_call_stop(q) PROVE Heard(c, p)'
    <3>1. /\ MailTail(q) /\ proc' = proc /\ serving[q].to = None
          /\ serving'[q].to = Head(mailbox[q]).from
          /\ \A r \in Pid : r # q => serving'[r] = serving[r]
      BY <1>1, <2>6 DEF handle_call_stop, MailTail, Free, TypeOK
    <3>2. serving[p].to = c => serving'[p].to = c
      BY <1>1, <3>1
    <3>3. CASE p = q /\ Stop(c) = Head(mailbox[q])
      BY <1>1, <3>1, <3>3 DEF Heard
    <3>4. CASE Stop(c) # Head(mailbox[q])
      BY <1>1, <2>1, <3>1, <3>2, <3>4, MailKeeps DEF Heard
    <3>5. CASE p # q
      BY <1>1, <2>1, <3>1, <3>2, <3>5 DEF Heard, MailTail
    <3> QED
      BY <3>3, <3>4, <3>5
  <2>7. ASSUME NEW q \in Pid, Stopped(q) \/ Crash(q) PROVE Heard(c, p)'
    <3>1. /\ proc' = [proc EXCEPT ![q] = "dead"]
          /\ \A r \in Pid : r # q => serving'[r] = serving[r] /\ mailbox'[r] = mailbox[r]
      BY <1>1, <2>7 DEF Stopped, Crash, Dies, TypeOK
    <3> QED
      BY <1>1, <2>1, <3>1 DEF Heard
  <2>8. ASSUME NEW d \in Client, stop(d) PROVE Heard(c, p)'
    <3>1. Stop(d) \in Message /\ UNCHANGED <<serving, proc>> /\ Server \subseteq Pid
      BY <1>1, <2>8, SentIs DEF stop, Pid
    <3>2. mailbox' = mailbox \/ \E q \in Pid : MailAppend(q, Stop(d))
      BY <2>8, <3>1 DEF stop, MailAppend
    <3> QED
      BY <1>1, <2>1, <3>1, <3>2, MailKeeps DEF Heard
  <2> QED
    BY <2>2, <2>3, <2>4, <2>5, <2>6, <2>7, <2>8
       DEF Next, Serve, vars, Publish, CloseSession, Undeclare, Destroy, Down
<1> QED
  BY <1>2, <1>3

\* No client is forgotten: as long as it waits for a server, its request is in
\* the mailbox, is what the server stops for, or the server is dead, which ends
\* the call.
THEOREM NoClientForgotten == Spec => []NobodyForgotten
<1>1. Init => NobodyForgotten
  <2> SUFFICES ASSUME Init PROVE NobodyForgotten
    OBVIOUS
  <2>1. \A p \in Server : p # "idle"
    BY NamesAssumption DEF Pid
  <2> QED
    BY <2>1 DEF Init, NobodyForgotten
<1> QED
  BY <1>1, InitTypes, TypeStep, HeardStep, PTL DEF Spec
==========================================================================
