---------------------------- MODULE NifLogger ----------------------------
(***************************************************************************)
(* The NIF logger (helper/logger.rs) with the supervised GenServer its     *)
(* messages go to.  NIF_LOG_SENDER has the sender of one channel; a thread *)
(* per channel forwards it to the process that called nif_logger_init, and *)
(* a process does that once in its life: GenServer.init is the one caller. *)
(* So a channel and its thread are named by the process.                   *)
(*                                                                         *)
(* A target is a prefix of module paths: here, the set of the origins it   *)
(* is a prefix of.  Calls the maximum level of the log crate stops at once *)
(* change nothing and are no steps.                                        *)
(***************************************************************************)
EXTENDS Naturals, Sequences

CONSTANTS
  Pid,      \* processes that call nif_logger_init
  Server,   \* those the supervisor starts, one after the other's death
  Actor,    \* threads that log and processes that configure the logger
  Setter,   \* the actors that set the level
  Level,    \* 1 error .. 4 debug
  Origin,   \* module paths of log records
  Targets,  \* targets that are set
  MaxLog,   \* bound: log calls of an actor that come past the maximum level
  WriterFirst,  \* readers queue behind a waiting writer
  None

Off == 0
Debug == 4

ASSUME LevelAssumption == Level \subseteq Nat \ {Off} /\ Debug \in Level
ASSUME TargetAssumption == Targets \subseteq SUBSET Origin
ASSUME NamesAssumption ==
  /\ None \notin Pid /\ Server \subseteq Pid /\ Setter \subseteq Actor
  /\ Actor \cap Pid = {} /\ MaxLog \in Nat /\ WriterFirst \in BOOLEAN

VARIABLES
  enabled, target, level,  \* NIF_LOGGER.inner
  max_level,               \* the log crate's maximum level
  sender,                  \* NIF_LOG_SENDER: whose channel it sends to
  chan,                    \* the messages in each channel
  thread, hand,            \* each forwarding thread, and the message it has received
  got,                     \* what each process was sent
  started, alive,          \* processes that ever lived, and those that do
  pc, call,                \* the call each actor or process runs
  logged                   \* how many messages each actor has logged

inner == <<enabled, target, level>>
forwarding == <<thread, hand, got>>
vars == <<inner, max_level, sender, chan, forwarding, started, alive, pc, call, logged>>

Message == [by : Actor, n : Nat]
Call == [level : Level \cup {Off}, origin : Origin \cup {None}]
NoCall == [level |-> Off, origin |-> None]

TypeOK ==
  /\ enabled \in BOOLEAN /\ target \in SUBSET Origin
  /\ level \in Level /\ max_level \in Level \cup {Off}
  /\ sender \in started \cup {None}
  /\ chan \in [Pid -> Seq(Message)]
  /\ thread \in [Pid -> {"none", "check", "receive", "send", "ended"}]
  /\ hand \in [Pid -> Seq(Message)]
  /\ got \in [Pid -> Seq(Message)]
  /\ started \subseteq Pid /\ alive \subseteq started
  /\ pc \in [Actor \cup Pid -> {"idle", "log", "inner", "send", "level", "max"}]
  /\ call \in [Actor \cup Pid -> Call]
  /\ logged \in [Actor -> Nat]

Init ==
  /\ enabled = FALSE /\ target \in Targets /\ level = Debug
  /\ max_level = Off /\ sender = None
  /\ chan = [p \in Pid |-> <<>>]
  /\ thread = [p \in Pid |-> "none"]
  /\ hand = [p \in Pid |-> <<>>]
  /\ got = [p \in Pid |-> <<>>]
  /\ started = {} /\ alive = {}
  /\ pc = [x \in Actor \cup Pid |-> "idle"]
  /\ call = [x \in Actor \cup Pid |-> NoCall]
  /\ logged = [a \in Actor |-> 0]

Go(x, where) == pc' = [pc EXCEPT ![x] = where]
-----------------------------------------------------------------------------
(* The locks.  A guard lives for one step but for these.                   *)

\* nif_logger_init has NIF_LOG_SENDER until it returns.
WritesSender(p) == pc[p] \in {"level", "max"}

\* enabled has the inner lock until it returns.
ReadsInner_WhileSending(a) == pc[a] \in {"inner", "send"}
ReadsInner(a) == pc[a] = "inner"

SenderFree == \A p \in Pid : ~WritesSender(p)
InnerFree == \A a \in Actor : ~ReadsInner(a)
-----------------------------------------------------------------------------
(* Configuration.                                                          *)

nif_logger_enable(a) ==
  /\ pc[a] = "idle" /\ InnerFree
  /\ enabled' = TRUE
  /\ UNCHANGED <<target, level, max_level, sender, chan, forwarding, started, alive, pc, call, logged>>

nif_logger_disable(a) ==
  /\ pc[a] = "idle" /\ InnerFree
  /\ enabled' = FALSE
  /\ UNCHANGED <<target, level, max_level, sender, chan, forwarding, started, alive, pc, call, logged>>

nif_logger_set_target(a) ==
  /\ pc[a] = "idle" /\ InnerFree
  /\ target' \in Targets
  /\ UNCHANGED <<enabled, level, max_level, sender, chan, forwarding, started, alive, pc, call, logged>>

nif_logger_set_level(a, lv) ==
  /\ pc[a] = "idle"
  /\ Go(a, "level")
  /\ call' = [call EXCEPT ![a].level = lv]
  /\ UNCHANGED <<inner, max_level, sender, chan, forwarding, started, alive, logged>>

SetLevel(x) ==
  /\ pc[x] = "level" /\ InnerFree
  /\ level' = call[x].level
  /\ Go(x, "max")
  /\ UNCHANGED <<enabled, target, max_level, sender, chan, forwarding, started, alive, call, logged>>

SetMaxLevel(a) ==
  /\ pc[a] = "max"
  /\ max_level' = call[a].level
  /\ Go(a, "idle")
  /\ call' = [call EXCEPT ![a] = NoCall]
  /\ UNCHANGED <<inner, sender, chan, forwarding, started, alive, logged>>
-----------------------------------------------------------------------------
(* The processes.                                                          *)

\* GenServer.init: nif_logger_init(self(), :debug) drops the sender there
\* was.  The supervisor starts a server when there is none.
Start(p, lv) ==
  /\ p \notin started /\ SenderFree
  /\ p \in Server => Server \cap alive = {} /\ lv = Debug
  /\ started' = started \cup {p} /\ alive' = alive \cup {p}
  /\ Go(p, "level")
  /\ UNCHANGED <<inner, max_level, chan, forwarding, logged>>

nif_logger_init_NoLevel(p, lv) == Start(p, lv) /\ sender' = p /\ UNCHANGED call
nif_logger_init_KeepsSender(p, lv) ==
  /\ Start(p, lv)
  /\ sender' = IF sender = None THEN p ELSE sender
  /\ call' = [call EXCEPT ![p].level = lv]
nif_logger_init(p, lv) ==
  /\ Start(p, lv)
  /\ sender' = p
  /\ call' = [call EXCEPT ![p].level = lv]

InitReturns(p) ==
  /\ pc[p] = "max"
  /\ max_level' = call[p].level
  /\ thread' = [thread EXCEPT ![p] = "check"]
  /\ Go(p, "idle")
  /\ call' = [call EXCEPT ![p] = NoCall]
  /\ UNCHANGED <<inner, sender, chan, hand, got, started, alive, logged>>

\* A process that runs a NIF dies when that returns.
Crash(p) ==
  /\ p \in alive /\ pc[p] = "idle"
  /\ alive' = alive \ {p}
  /\ UNCHANGED <<inner, max_level, sender, chan, forwarding, started, pc, call, logged>>
-----------------------------------------------------------------------------
(* Logging.                                                                *)

log(a, lv, o) ==
  /\ pc[a] = "idle" /\ logged[a] < MaxLog /\ lv <= max_level
  /\ Go(a, "log")
  /\ call' = [call EXCEPT ![a].origin = o]
  /\ UNCHANGED <<inner, max_level, sender, chan, forwarding, started, alive, logged>>

LockInner(a) ==
  /\ pc[a] = "log"
  /\ WriterFirst => \A x \in Actor \cup Pid : pc[x] # "level"
  /\ Go(a, "inner")
  /\ UNCHANGED <<inner, max_level, sender, chan, forwarding, started, alive, call, logged>>

Open(a) == enabled /\ call[a].origin \in target

Enabled(a) ==
  /\ pc[a] = "inner"
  /\ IF Open(a) THEN Go(a, "send") /\ UNCHANGED call
                ELSE Go(a, "idle") /\ call' = [call EXCEPT ![a] = NoCall]
  /\ UNCHANGED <<inner, max_level, sender, chan, forwarding, started, alive, logged>>

\* A message sent to a channel whose thread has ended is dropped.
nif_logger_send(a) ==
  /\ pc[a] = "send" /\ SenderFree
  /\ logged' = [logged EXCEPT ![a] = @ + 1]
  /\ IF sender # None /\ thread[sender] # "ended"
     THEN chan' = [chan EXCEPT ![sender] = Append(@, [by |-> a, n |-> logged[a] + 1])]
     ELSE UNCHANGED chan
  /\ Go(a, "idle")
  /\ call' = [call EXCEPT ![a] = NoCall]
  /\ UNCHANGED <<inner, max_level, sender, forwarding, started, alive>>
-----------------------------------------------------------------------------
(* The forwarding thread.                                                  *)

Check(p) ==
  /\ thread[p] = "check"
  /\ thread' = [thread EXCEPT ![p] = IF p \in alive THEN "receive" ELSE "ended"]
  /\ UNCHANGED <<inner, max_level, sender, chan, hand, got, started, alive, pc, call, logged>>

Receive_Peeks(p) ==
  /\ thread[p] = "receive" /\ chan[p] # <<>>
  /\ hand' = [hand EXCEPT ![p] = <<Head(chan[p])>>]
  /\ thread' = [thread EXCEPT ![p] = "send"]
  /\ UNCHANGED <<inner, max_level, sender, chan, got, started, alive, pc, call, logged>>
Receive(p) ==
  /\ thread[p] = "receive" /\ chan[p] # <<>>
  /\ hand' = [hand EXCEPT ![p] = <<Head(chan[p])>>]
  /\ chan' = [chan EXCEPT ![p] = Tail(@)]
  /\ thread' = [thread EXCEPT ![p] = "send"]
  /\ UNCHANGED <<inner, max_level, sender, got, started, alive, pc, call, logged>>

Timeout_Ends(p) ==
  /\ thread[p] = "receive" /\ chan[p] = <<>> /\ sender = p
  /\ thread' = [thread EXCEPT ![p] = "ended"]
  /\ UNCHANGED <<inner, max_level, sender, chan, hand, got, started, alive, pc, call, logged>>
Timeout(p) ==
  /\ thread[p] = "receive" /\ chan[p] = <<>> /\ sender = p
  /\ thread' = [thread EXCEPT ![p] = "check"]
  /\ UNCHANGED <<inner, max_level, sender, chan, hand, got, started, alive, pc, call, logged>>

Disconnected_Undrained(p) ==
  /\ thread[p] = "receive" /\ sender # p
  /\ thread' = [thread EXCEPT ![p] = "ended"]
  /\ UNCHANGED <<inner, max_level, sender, chan, hand, got, started, alive, pc, call, logged>>
Disconnected_Continues(p) ==
  /\ thread[p] = "receive" /\ chan[p] = <<>> /\ sender # p
  /\ thread' = [thread EXCEPT ![p] = "check"]
  /\ UNCHANGED <<inner, max_level, sender, chan, hand, got, started, alive, pc, call, logged>>
\* The sender was dropped and the channel is empty.
Disconnected(p) ==
  /\ thread[p] = "receive" /\ chan[p] = <<>> /\ sender # p
  /\ thread' = [thread EXCEPT ![p] = "ended"]
  /\ UNCHANGED <<inner, max_level, sender, chan, hand, got, started, alive, pc, call, logged>>

Send(p) ==
  /\ thread[p] = "send"
  /\ got' = [got EXCEPT ![p] = IF p \in alive THEN @ \o hand[p] ELSE @]
  /\ hand' = [hand EXCEPT ![p] = <<>>]
  /\ thread' = [thread EXCEPT ![p] = "check"]
  /\ UNCHANGED <<inner, max_level, sender, chan, started, alive, pc, call, logged>>
-----------------------------------------------------------------------------
Forward(p) == Check(p) \/ Receive(p) \/ Timeout(p) \/ Disconnected(p) \/ Send(p)
Running(a) == LockInner(a) \/ Enabled(a) \/ nif_logger_send(a) \/ SetLevel(a) \/ SetMaxLevel(a)
Initialising(p) == SetLevel(p) \/ InitReturns(p)

Next ==
  \/ \E a \in Actor : nif_logger_enable(a) \/ nif_logger_disable(a) \/ nif_logger_set_target(a)
  \/ \E a \in Setter, lv \in Level : nif_logger_set_level(a, lv)
  \/ \E a \in Actor, lv \in Level, o \in Origin : log(a, lv, o)
  \/ \E a \in Actor : Running(a)
  \/ \E p \in Pid, lv \in Level : nif_logger_init(p, lv)
  \/ \E p \in Pid : Initialising(p) \/ Crash(p) \/ Forward(p)

Spec == Init /\ [][Next]_vars

\* Threads run, a reader is not passed over for ever, and the supervisor
\* restarts the server.  Nobody need log, configure the logger or die.
Fairness ==
  /\ \A a \in Actor : WF_vars(Running(a)) /\ SF_vars(LockInner(a))
  /\ \A p \in Pid : WF_vars(Forward(p)) /\ WF_vars(Initialising(p))
  /\ \A p \in Server : WF_vars(nif_logger_init(p, Debug))
FairSpec == Spec /\ Fairness
-----------------------------------------------------------------------------
\* What process p was sent, what its thread has in hand and what is in its
\* channel, in this order, is in the order the messages were logged: none
\* comes twice, and none overtakes an earlier one of its actor.
Journey(p) == got[p] \o hand[p] \o chan[p]
InOrder ==
  \A p \in Pid : \A i, j \in 1 .. Len(Journey(p)) :
    i < j /\ Journey(p)[i].by = Journey(p)[j].by => Journey(p)[i].n < Journey(p)[j].n

\* The thread of a living process ends only when its channel is empty and
\* nothing can be sent to it any more: a second nif_logger_init takes no
\* message away from the process of the first.
NothingStranded ==
  \A p \in alive : thread[p] = "ended" => chan[p] = <<>> /\ hand[p] = <<>> /\ sender # p

\* logger.ex: get_level "retrieves the current log level.  The log level
\* controls which messages are emitted from the NIF layer".  Once no call
\* that sets it is running, what get_level answers is what the log crate goes
\* by.  (True while only inits set it, one at a time under NIF_LOG_SENDER.)
GetLevelTellsTheTruth ==
  sender # None /\ (\A x \in Actor \cup Pid : pc[x] \notin {"level", "max"})
    => level = max_level

\* Every log call and every call that configures the logger returns, whichever
\* locks the others have.  (An init can only wait for one of these.)
CallsReturn == \A a \in Actor : pc[a] # "idle" ~> pc[a] = "idle"

\* logger.ex: "Once enabled, log messages from the NIF layer will be forwarded
\* to Elixir's Logger": a message that is logged comes to a process, unless
\* the logger is closed to it or the process it is queued for dies.
Has(s, a, n) == [by |-> a, n |-> n] \in {s[i] : i \in DOMAIN s}
EnabledIsForwarded ==
  \A a \in Actor, n \in 1 .. MaxLog :
    (pc[a] \in {"log", "inner", "send"} /\ logged[a] = n - 1)
    ~> \/ \E p \in Pid : Has(got[p], a, n)
       \/ ~enabled \/ target # Origin
       \/ sender \notin alive \/ \E p \in started \ alive : Has(Journey(p), a, n)

\* The thread of a dead or replaced process ends.
ForwardersEnd ==
  \A p \in Pid : (p \in started /\ (p \notin alive \/ sender # p)) ~> thread[p] = "ended"

\* When the server the logger sends to dies, it comes to send to a living
\* process again, while the supervisor has restarts left.
Reconnects ==
  sender \in Server \ alive ~> sender \in alive \/ Server \subseteq started \ alive
==========================================================================
