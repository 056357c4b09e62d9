# A TLA+ model of zenohex

zenohex is an Elixir client of the [zenoh](https://zenoh.io) protocol. An
Elixir library (`lib/`) calls a Rust NIF library (`native/zenohex_nif/src/`),
which keeps zenoh sessions and what is declared on them, and hands the BEAM
opaque *handles* (resources) that it garbage-collects. This directory has
TLA+ modules of that program: above all of the parts where threads, locks, reference
counts, destructors and restarts meet, and of two that are pure functions; the TLC
configurations that check them; and theorems that tlapm proves.

## 1. The system

| Part | Code | State | Operations | Model |
|---|---|---|---|---|
| Session registry | `session.rs` | `SESSION_MAP`: zid -> `Arc<RwLock<Session>>`; a `Session` has the zenoh session and its entity table | open, close, put, delete, get, timestamp, info, four declarations, two destructors | `SessionRegistry` |
| Entities | `publisher.rs`, `subscriber.rs`, `querier.rs`, `queryable.rs` | none: each call looks its entity up | put, delete, get, get_async, undeclarations | `SessionRegistry` |
| Matching | `matching.rs` | a listener per handle, `Mutex<Option<_>>` | status, declare and undeclare a listener, destructor | status and declaration in `SessionRegistry`, the listener in `OneShotHandles` |
| Liveliness | `liveliness.rs` | a token per handle, `Mutex<Option<_>>` | get, declare a subscriber or a token, undeclare, destructor | its use of the registry in `SessionRegistry`, the token in `OneShotHandles` |
| Queries | `query.rs`, the loops of the gets | a query per handle, `Mutex<Option<Query>>` | reply, reply_error, reply_delete, destructor | `QueryReply` |
| Delivery | the callbacks of `session.rs:484-492` and the like | a thread per message | send to a process | `Delivery` |
| Scouting | `scouting.rs` | a scout per handle, `RwLock<Option<_>>` | scout, declare, stop, destructor | `OneShotHandles`; the loop of `scouting_scout` is that of a get |
| NIF logger | `helper/logger.rs`, `lib/zenohex/nif/logger*` | `NIF_LOGGER`, `NIF_LOG_SENDER`, a forwarding thread, a supervised GenServer | init, enable, level, target, log, restart | `NifLogger` |
| Options | `builder.rs`, `helper/keyword.rs` | none | folding keyword lists into zenoh builders | `KeywordOpts` |
| Configuration | `config.ex`, `config_map.ex` | none | normalise, merge, get, insert | `ConfigMap` |
| Elixir API | `session.ex`, `zenohex.ex`, `nif.ex` | none | delegates; open-call-close wrappers | contract in `SessionContract`; wrappers in `OneShotCalls` |
| Examples | `lib/zenohex/examples/` | GenServers with a source, publishing ones without | start, receive, stop, restart | `Delivery` |
| Key expressions, samples, config NIFs, build files | | none | conversions | not modelled |

**How the parts interact.** Every NIF that takes a session or an entity handle
clones the session's `Arc` out of `SESSION_MAP` (locked for that lookup
alone), then takes the session's `RwLock`: declarations, undeclarations and
the destructor of an entity's handle to write, everything else to read. An
entity in the table holds a reference to its session's handle
(`ResourceArc<SessionIdResource>` in `enum Entity`). The destructor of a
session's handle removes the session *with that zid* from the map and closes
it. Zenoh calls back on its own threads; each callback spawns a thread that
sends one message to an Elixir process.

**What is hard.** Lookups happen before locking, so a call may work on a
session that has meanwhile left the map. References form the cycle
session -> table -> entity -> handle of the session. The last reference to a
handle may go inside a NIF, under its locks, and brings a destructor with it. Handles know zids, not
sessions. The gets block for their timeout. The list of hazards, each at its
line, is in `PROJECT.json`.

What makes each part correct:

- *Registry*: only open sessions are in the map; no session is left in it
  that nothing will ever take out; nothing whose handle is held disappears
  unasked; what nothing refers to is closed; no call waits forever.
- *Entities*: a call only ever works on an entity of its kind; the
  `unreachable!()` of the undeclarations is unreachable.
- *Queries*: at most one final reply, none after it, and `ResponseFinal` is sent
  when the query's handle goes; a get returns what arrived by its deadline.
- *Tokens, listeners, scouts*: taken down once, by a call or the destructor,
  and "already undeclared" is said only when that is done.
- *Delivery*: every callback brings one message, in no order; who stops a server
  is answered, and what a dead process declared does not stay declared.
- *Logger*: what is logged while the logger is enabled and its process lives
  reaches that process once and in order; no circle of waiting over its two locks;
  the two levels agree.
- *Options*: no documented option is ignored or refused, a bad one fails the call.
- *Configuration*: merge and insert change exactly what they say.
- *One-shot calls*: the session they open is closed, however they end.

## 2. Modules

### SessionRegistry

| Variable | Code |
|---|---|
| `map` | `SESSION_MAP`; its own lock is held for one access, so each access is a step |
| `zid` | the id in `SessionIdResource` and in `EntityGlobalId`, per incarnation of a session |
| `ents`, `nextEnt` | `Session.entities` and zenoh's counter for entity ids |
| `closed` | the inner zenoh session is closed (by `close()`, or by the drop of the last `Arc`) |
| `held`, `eheld` | handles an Elixir term refers to |
| `doomed`, `edoomed` | handles nothing refers to, destructor not yet started |
| `pc`, `call` | per thread: the point it is at; the NIF's lock mode, arguments and `Arc` |
| `darc`, `pend` | the `Arc` a session-handle destructor took from the map; destructors a thread runs nested in its NIF |

A call goes `idle -> lock -> body -> idle`, with `collect` for the reply
loop of a get (`Arc` kept, guard released), `checked` between the kind check and the
removal of an undeclaration, `nested` while destructors run inside a NIF. The NIFs
differ in lock mode, in the kinds of entity they accept and in their body, and
each has a definition of its name. Guards are not a variable: who holds which
session's lock follows from `pc` and `call` (`Locks`).

Reference counting is derived, not counted: an `Arc` of a session exists in the
map, in `call[p].arc` and in `darc[p]` (`StaysAlive`); a handle is referenced by a term or
by an entity (`Referenced`); a step that takes the last reference away computes
what goes with it (`Released`, `DropArc`).

### SessionContract

What `Zenohex.Session` documents, without locks, map or destructors: sessions
open and close, entities are declared and undeclared, and otherwise something
ends only after its handle was let go; for a session, after its last entity is gone
too. `asked` is what each client is just closing or undeclaring, so an
end is a client's doing only while that client asks for it. `SessionRegistry!Contract`
instantiates it with the refinement mapping `open <- Mapped`, `decl <- Declared`,
`asked <-` the argument of each running `session_close` or undeclaration: the linearisation point of close is the
removal from the map, and a declaration that is overtaken by a close succeeds without
effect.

### MCSessionRegistry

The symmetry set for TLC. Symmetry is used in safety runs only.

### SessionRegistryProofs, SessionRegistryContract

The theorems about `SessionRegistry` (section 5): its types and what lookups and
undeclarations find; then what clients can rely on, up to the refinement of
`SessionContract`.

### QueryReply, MCQueryReply, QueryReplyProofs

One get and the queries it becomes, one per queryable it reaches.

| Variable | Code |
|---|---|
| `handle` | the handle of each query: with the callback's thread, held by a process, unreachable, destructed |
| `option_query` | the `Option` in the `QueryResource` is `Some` |
| `pc`, `call` | per replying process: its place in `handle_reply`; who has the mutex follows from it (`HasLock`) |
| `wire`, `arrived` | what was sent for each query, for good, and how much of it has come in |
| `live`, `cut` | queries without `ResponseFinal` yet; zenoh gave up on the get (its own timeout, a closed session) |
| `chan`, `replies`, `get` | the getter's channel, what it collected, how it ended |

A reply goes `idle -> lock -> locked -> reply -> (drop ->) idle`: take or borrow the query
(`Begin`), send or fail (`Reply`), drop the query taken out (`DropQuery`, which
sends `ResponseFinal`), all under the mutex. `SessionRegistry` sees all of the get's
loop as its place `collect`; `QueryReply` is what happens there.
Dropping a zenoh query sends `ResponseFinal`; a channel is disconnected when
all have come in; `recv_deadline` looks into the channel before it looks at the
time. These three are zenoh's and flume's, and assumed.

### OneShot, OneShotHandles, MCOneShotHandles, OneShotProofs

Liveliness tokens, matching listeners and scouts have the same code: a handle with
a lock of its own around an `Option`, a call that takes the object out and undeclares
it, a destructor that does the same if it still finds it. `OneShot` is what they
promise; `OneShotHandles` is the code, and `Promise` the refinement mapping: the object's
state in zenoh is its status, and a caller or destructor that has the handle has *asked*.

| Variable | Code |
|---|---|
| `open` | parents: the session of a token, the publisher or querier of a listener |
| `zenoh`, `undeclared` | the zenoh object; how often and with what outcome it was undeclared |
| `option`, `handle` | `Some` in the resource; the handle: held, unreachable, destructed, or its destructor panicked |
| `pc`, `on`, `told` | the call of each caller, and the answers |

The three differ in their destructors only: a token's unwraps the outcome, a listener's
logs it, a scout has none. Whether zenoh refuses the undeclaration of a token whose
session is closed is a constant (`TokenMayRefuse`): the repository does not say.
A destructor may then panic: rustler catches it, and that no caller who was answered
meets it is `AnsweredNeverPanics`.

### Delivery, MCDelivery, DeliveryProofs

From zenoh's callbacks to the processes. `declared` is who zenoh calls back, `flying` the
threads spawned and not yet run, `mailbox` and `handled` the messages of each process. A
process is an incarnation of a GenServer of `lib/zenohex/examples` (`Incarnations`, restarted under one
name after a crash or a stop). Those in `Plain`, which may be such incarnations or other
processes, undeclare between two messages and live on, as users of the library do.
`stop` is the call the examples have: the server undeclares, then replies with what
that answered and terminates (`serving`). An undeclaration (`Undeclaration`) answers `:ok`, or
an error: because the source is in no table any more (a second one, a closed session, which calls
nobody back either), or because zenoh refused it. The entity has left the table by then, so
the handle finds it never again; whether zenoh goes on calling back the repository does not say, and
`refused` are the processes it does. A process may die at any moment, also
between the undeclaration of a stop and its reply (`Crash`). `SessionRegistry` has the
locks and lookups of the undeclaration; here it is one step.

### NifLogger, MCNifLogger, NifLoggerProofs

| Variable | Code |
|---|---|
| `enabled`, `target`, `level` | `NIF_LOGGER.inner`, under its `RwLock` |
| `max_level` | the maximum level of the `log` crate, set beside it |
| `sender`, `chan` | `NIF_LOG_SENDER` under its `RwLock`; the channel of each init |
| `thread`, `hand`, `got` | the forwarding thread of each init, its message, what its process was sent |
| `started`, `alive` | processes that initialise the logger: GenServers the supervisor starts, and others |
| `pc`, `call`, `logged` | the call each actor or process runs; how much each actor logged |

A log call takes the inner lock to see whether it is let through, returns it, then takes
the sender's; `nif_logger_init` takes the sender's and then, for the level, the inner one.

### KeywordOpts, MCKeywordOpts, KeywordOptsProofs

Each builder's `apply_opts` is a function from the keys it has an arm for to the terms
the arm decodes; `Option` arms leave `nil` out, `Must` arms fail on it. `Offered` are the documented terms of all
keys and some wrong ones, and a call is a list of pairs of them, folded left to right
until a pair fails. A reply first searches the list for `:final?` (`get_value`, which stops at the first).

### ConfigMap, MCConfigMap

`normalize_value`, `deep_merge`, `put_in_data` and `fetch_path_value` as recursive operators on
trees of maps, lists and leaves; `config` is a map passed through calls of `merge` and `insert` (`last` is the
call before). Leaves and keys that normalisation refuses are constants. Normalisation goes into
maps and lists and fails if anything in them is refused; `nil` is a leaf, and in the way of an
inserted path an empty map (`Access.key/2`). A string and an atom of one name in one map leave either's
value, by the order of the map, so `normalize_value` is the set of what may come.

### OneShotCalls, OneShotCallsProofs

`Zenohex.put`, `delete` and `get` as a client of `SessionContract`: open, work, close
in `after`; the process may be killed between two NIFs. Every step is one of the
contract or leaves it alone, so what holds here holds for any registry that keeps it.

### Modelling decisions

- **Where destructors run** (`Drops`). The NIF interface promises that a resource
  is destructed after its last reference is removed, not on which thread.
  Erlang's runtime queues the destructor and runs it on a scheduler between
  processes (`"scheduled"`). Under `"inline"` the release inside a NIF runs
  it there, holding that NIF's locks; nothing in the repository rules that out,
  so the safety properties are checked and proved for it too. The liveness of
  the code does depend on it, see section 4. Handles that
  become unreachable outside a NIF are destructed on any idle thread.
- **Which zids come** (`OpenPolicy`). A random zid never comes twice
  (`"fresh"`). A zid set in the configuration may come back after its session
  left the map (`"reopen"`) or while it is there (`"any"`).
- **Who lets go when** (`KeepSession`). The documentation asks clients to hold
  a handle while they use it; `TRUE` restricts clients to let a session's handle go
  after its entities are gone.
- **RwLock** (`WriterFirst`). Rust leaves it to the platform whether waiting
  writers keep new readers out; `FALSE` gives every order.
- Failing lookups change nothing and are not steps. A failing body (options,
  zenoh errors, no such entity, wrong kind) is `Return`.
- A declaration succeeds only while the zenoh session is open; zenoh numbers
  the entities of a session in order, and sessions number alike, which is why a stale
  entity handle may name an entity of a later session with the same zid.
- A replaced or removed `Arc` is dropped after the map's guard; the zenoh
  session closes when its last `Arc` goes.
- The arguments of a running NIF are reachable, so their handles are not
  released before it returns.
- Not modelled: failures of zenoh inside destructors (the code unwraps them),
  lock poisoning, the panic of a NIF, zenoh's own behaviour.

## 3. Runs

| Run | Configuration | Checks | Shows |
|---|---|---|---|
| `registry_main` | 2 threads, 2 sessions, 2 zids that may be reused at any time, publisher and querier, 1 entity per session, inline | `TypeOK`, `MappedIsOpen`, `NoOrphan`, `CheckedStaysFound` | the map has open sessions only, none is left behind, the removal finds what the kind check saw |
| `registry_contract` | the same with fresh zids | `KeepsContract`, `HeldSessionStays`, `HeldEntityStays` | `SessionRegistry` implements `SessionContract`; nothing held goes unasked |
| `registry_reclaim` | 2 threads, 1 session, all four kinds, scheduled, writers preferred, gets that may last forever, fair | `CallsReturn`, `SessionReclaimed`, `UnmappedGetsClosed`, `EntityReclaimed` | calls return however long a get collects (the WHY comments of the gets), garbage is closed, a removed session is closed even if `session_close` failed |
| `registry_reopen` | 2 sessions sharing 1 zid, one after the other | `HeldSessionSurvivesGC` (violated) | section 4 |
| `query` | 2 queries, 2 callers, replies begun while none was sent, fair | `TypeOK`, `NothingAfterFinal`, `GoneMeansFinalSent`, `GetComplete`, `FinalSent`, `GetEndsEarly` | `ResponseFinal` is once and last, its error message is true, a get that is not cut short has every reply; a failing final reply and a handle let go bring `ResponseFinal`; gets do not wait for their deadline in vain |
| `one_shot` | a token, a listener, a scout, 2 parents, 2 callers, fair | `TypeOK`, `AnsweredNeverPanics`, `KeepsPromise`, `UnreachableEnds` | `OneShotHandles` implements `OneShot`; what nothing refers to ends |
| `delivery` | a GenServer restarted once, the first of which may undeclare and live on, 2 clients, 2 events, fair | `HandledOnce`, `OkMeansUndeclared`, `NoneLost`, `ClientsAnswered` | every event comes once unless its process dies, in whatever order threads run; stops are answered and true, also the second of two and one whose server dies while it serves it |
| `logger` | 3 inits: 2 servers and another process; 1 thread that logs twice and configures, fair | `TypeOK`, `InOrder`, `NothingStranded`, `CallsReturn`, `EnabledIsForwarded`, `ForwardersEnd`, `Reconnects` | order and completeness across replacement, crash and restart; no circular wait |
| `logger_levels` | 1 init, 2 setters, 2 levels | `GetLevelTellsTheTruth` (violated) | section 4 |
| `keyword_opts` | every list of up to 2 options for each NIF | `RepeatedOpts`, `FailsIfBad`, `DocumentedOptsApply` | which value counts, when a call fails, that no list lacks a documented option |
| `one_shot_calls` | 3 callers, 3 sessions, fair | `ClosedAtTheEnd`, `NothingStaysOpen` | one-shot calls leave no session open |
| `config_map` | normalised bases of depth 2 with lists and `nil`, merged with maps of depth 2 over strings and atoms, 2 calls | `MergeOverwritesOrKeeps`, `InsertChangesOnlyThere`, `StaysNormal` | merge and insert against their definition by paths |

Every run sets `CHECK_DEADLOCK FALSE`: each of these systems really may stop, when its
bounded sessions, queries, processes or calls are used up. That calls return is stated as liveness.

**Bounds.** `Sess` bounds incarnations: two are needed for a stale handle to meet a
later session, and no property speaks of three. Two threads are one NIF
and a destructor or another NIF. One entity per session (`MaxEnt`) suffices for a stale handle
to meet an equally numbered entity; entities of one session do not otherwise interact
(the theorems hold for every `MaxEnt`). Two queries make the channel depend on both; two
callers are a final and another reply at once; a call may begin another reply while fewer than
`MaxSent` were sent for the query, so with 1 two replies still race for it. Kinds are symmetric except to the kind
check, for which two are used, and all four in the one-session run. Two callers per one-shot resource are the winner and the
one that is told it was done already. Two events can overtake each other; two incarnations
let an event of the first come while the second lives. Two clients are the one that stops
a server and the one that finds it stopped, stopping, started again or absent. A third process
beside the incarnations would make `delivery` millions of states; sources meet only in the session
and in `published`. Three inits are the fewest for a takeover of a living process
and a restart in one behaviour; two messages can be in the wrong order or channel. Two
options are the same key twice or a bad one behind a good one.

**Fairness.** A thread inside a NIF runs (`WF` of its body), and a thread that
waits for a lock that is free again and again takes it (`SF` of `Acquire` and
`CloseDropped`, of `LockInner` in the logger): the operating system schedules threads, and std's `RwLock` wakes
its waiters. std promises no more, so `registry_reclaim` and `logger` assume a writer preference
(Linux' futex lock has it). Waiting
destructors find an idle thread (`DropFairness`), unless all collect; gets need never reach their deadline, in
`registry_reclaim` and in `query`, where threads run, mutexes are handed on and the network
delivers. In `delivery` spawned threads, processes and monitors run; in
`logger` the supervisor starts a server when there is none. Clients never have to do
anything, no process has to die or live, and nothing forces a handle
to be collected: "nothing refers to it" is where `SessionReclaimed` and `UnreachableEnds` start.

## 4. Findings

**Collecting an old handle closes a new session** (`registry_reopen`).
With `id` in the configuration: open, close, open again, then collect the first handle. Its
destructor finds the second session under that zid (`session.rs:165`) and
closes it although its handle is held, against `session.ex:163-165`. With random zids this cannot
happen (`CollectionSparesHeldSessions`). With reused ones, what ends a session that a handle
refers to comes from its own zid: a `session_close` on one of its handles, the collection of
another, or an open that meets it in the map (`OnlyItsZidEndsASession`).

**What the code takes from the runtime.** Suppose a client declares an entity, lets the
session's handle go and keeps the entity's (the example GenServers do this:
their state has the entity only). Undeclaring the entity, or collecting its handle,
removes it from the table under `session.write()` (`publisher.rs:73-89`,
`session.rs:239-243`), and the last reference to the session's handle goes with it.
`SessionIdResource::drop` then waits in `session.read()` (`session.rs:167`).
Run in place it would wait for the guard of its own thread, forever:
`registry_reclaim` with `Drops = "inline"` fails, and one mutant of `CallsReturn`
(`Remove_Inline`) is exactly that. Since the runtime runs destructors later, on their own,
`registry_reclaim` passes. Dropping the removed entity after the guard would
make the code independent of it, and so would clients that keep a session's handle
until its last entity is gone (`KeepSession`): `NoDeadlock` proves that either is enough, for any
number of threads, sessions and entities and either kind of `RwLock`.

**The two levels of the logger** (`logger_levels`). `nif_logger_set_level` and
`nif_logger_init` set the level of `NIF_LOGGER` and then that of the `log` crate, with no
lock over both. Two of them that interleave leave one at the first value and the other at the
second, and `get_level` goes on answering a level that does not decide what is emitted,
against `logger.ex:80-84`. One at a time, as the example application does, they agree, and inits
alone always do, since each keeps the sender's lock over both (`InitsSetBothLevels`).

**Seen while modelling**, and not a run of their own:

- A subscriber may get samples after `undeclare` returned `:ok`: the threads of its
  callbacks (`session.rs:488`) are not waited for. `subscriber.ex:16` only says it
  "stops receiving". `Delivery` has these late messages; its properties hold with them.
- `ConfigMap.merge` normalises its second map only (`config_map.ex:147`): `%{mode: "client"}` merged with
  `%{mode: "peer"}` has `:mode` with the old value and `"mode"` with the new one, against "atom keys
  become strings" (`:13`), "Keys in `map` overwrite corresponding keys in `config`" (`:131`) and the
  `@spec`, which takes any `map()` (`:144`). `MergeOverwritesOrKeeps` is therefore checked of normalised
  configurations, and does not hold of others. Those are what the module's functions
  answer to normalised configurations (`StaysNormal`), and `Session.open` merges a map into the empty one, which normalises all of it.
- An option given twice counts last in the builders and first in the search for `:final?`;
  `RepeatedOpts` states both.

## 5. Theorems

Each theorem is about the `Spec` of one module, without fairness, for every value of its
constants that satisfies the assumptions declared in it.

| Theorem | States | About |
|---|---|---|
| `TypeCorrect` | `[]TypeOK` | `SessionRegistry` |
| `LookupsFindOpenSessions` | `[]MappedIsOpen` | `SessionRegistry` |
| `CheckedEntitiesStay` | `[]CheckedStaysFound` | `SessionRegistry` |
| `NoSessionLeftBehind` | `[]NoOrphan` | `SessionRegistry` |
| `UnmappedSessionsEnd` | `[]NoSessionLeaks`: a session that left the map has an `Arc` with a call or destructor, or is closed and empty | `SessionRegistry` |
| `EntitiesStayClaimed` | `[]NoEntityLeaks`: an entity of a session in the map has a handle held, or a destructor to come or at work on that session | `SessionRegistry` |
| `NoDeadlock` | `[]NoCircle`: who waits for a lock can have it, or a thread that waits for none is before it | `SessionRegistry`, if destructors run later or clients keep session handles (`NeverNested`) |
| `ReferencedSessionsStay` | `HeldSessionStays` | `SessionRegistry` with fresh zids; `registry_reopen` shows why |
| `HeldEntitiesStay` | `HeldEntityStays` | `SessionRegistry` with fresh zids |
| `CollectionSparesHeldSessions` | `HeldSessionSurvivesGC` | `SessionRegistry` with fresh zids |
| `OnlyItsZidEndsASession` | `EndsByItsZid`: a session a handle refers to leaves the map only by a close, a destructor or an open of its own zid | `SessionRegistry`, any zids |
| `RegistryKeepsContract` | `KeepsContract` | `SessionRegistry` with fresh zids implements `SessionContract` |
| `QueryTypeCorrect` | `[]TypeOK` | `QueryReply` |
| `FinalIsLast` | `[]NothingAfterFinal` | `QueryReply` |
| `GoneTellsTheTruth` | `[]GoneMeansFinalSent` | `QueryReply` |
| `GetsAreComplete` | `[]GetComplete` | `QueryReply` |
| `FinalIsOwed` | `FinalComes`: a query that owes `ResponseFinal` stays with who will send it until it is sent | `QueryReply` |
| `NoGetWaitsInVain` | `[]NoVainWait`: a get waits for a query whose handle is gone only for what is on its way | `QueryReply` |
| `HandlesTypeCorrect` | `[]TypeOK` | `OneShotHandles` |
| `AnsweredTokensAreSafe` | `[]AnsweredNeverPanics` | `OneShotHandles` |
| `HandlesKeepPromise` | `KeepsPromise` | `OneShotHandles` implements `OneShot` |
| `NothingIsLeftBehind` | `[]NothingLeftBehind`: what lives in zenoh is in a handle or with a call that ends it | `OneShotHandles` |
| `DeliveryTypeCorrect` | `[]TypeOK` | `Delivery` |
| `EventsAreHandledOnce` | `[]HandledOnce` | `Delivery` |
| `OkIsTrue` | `[]OkMeansUndeclared` | `Delivery` |
| `NoEventLost` | `EventsArrive`: an event goes from thread to mailbox to process, or the process is dead | `Delivery` |
| `NoClientForgotten` | `[]NobodyForgotten`: who waits for a server is in its mailbox, being served, or it is dead | `Delivery` |
| `LoggerTypeCorrect` | `[]TypeOK` | `NifLogger` |
| `TakeoverStrandsNothing` | `[]NothingStranded` | `NifLogger` |
| `MessagesComeInOrder` | `[]InOrder` | `NifLogger` |
| `NoMessageLost` | `MessagesArrive`: the journey of a living process only grows, by what is logged for it | `NifLogger` |
| `LoggerFollowsRestarts` | `[]NoRestartMissed`: no living server is missed while the logger sends to a dead one | `NifLogger` |
| `InitsSetBothLevels` | `[]GetLevelTellsTheTruth` | `NifLogger` while only inits set the level (`Setter = {}`) |
| `CallsTypeCorrect` | `[]TypeOK` | `OneShotCalls` |
| `CallsCloseTheirSession` | `[]ClosedAtTheEnd` | `OneShotCalls` |
| `OpenSessionsHaveTheirCall` | `[]SomebodyCloses`: no open session is left to nobody | `OneShotCalls` |
| `LastOptionCounts` | `[]RepeatedOpts` | `KeywordOpts` |
| `FailsExactlyIfBad` | `[]FailsIfBad` | `KeywordOpts` |
| `DocumentedOptionsApply` | `[]DocumentedOptsApply` | `KeywordOpts` |

The names that are no property of a run are defined beside their theorem, in the proof modules.
Most of them are what is left of a liveness property when fairness is taken away:

| Liveness property (model-checked) | Its safety core (proved) |
|---|---|
| `CallsReturn` of the registry | `NoDeadlock` |
| `SessionReclaimed` | `NoSessionLeftBehind`, `UnmappedSessionsEnd` |
| `UnmappedGetsClosed` | `UnmappedSessionsEnd` |
| `EntityReclaimed` | `EntitiesStayClaimed` |
| `FinalSent`, `GetEndsEarly` | `FinalIsOwed`, `NoGetWaitsInVain` |
| `UnreachableEnds` | `NothingIsLeftBehind` |
| `NoneLost`, `ClientsAnswered` | `NoEventLost`, `NoClientForgotten` |
| `EnabledIsForwarded`, `Reconnects` | `NoMessageLost`, `LoggerFollowsRestarts` |
| `NothingStaysOpen` | `OpenSessionsHaveTheirCall` |

Each says that what must happen stays owed, and to whom, until it has happened. That the
one who owes it runs is fairness, and only the runs, on small instances, put the two together.

The assumptions are those of each module and no others. Where a theorem has a further hypothesis
on constants (fresh zids, `NeverNested`, `Setter = {}`), the table says so, and
section 4 says what happens without it. `SessionRegistry`: `KindAssumption`,
`MaxEntAssumption`, `NoneAssumption` and `NoneIsNoEntity` (None is no session, zid or
entity), `ModeAssumption`. `QueryReply`: `MaxSentAssumption`, `NoneAssumption`.
`OneShotHandles`: `KindAssumption`, `ParentAssumption`, `RefuseAssumption`. `Delivery`:
`NamesAssumption` (incarnations are a sequence of different processes; no process
is called like a state of a client). `OneShotCalls`: `NoneAssumption`.
`KeywordOpts`: `BoundsAssumption` (terms are strings; any `MaxOpts`). `NifLogger`: `LevelAssumption`, `TargetAssumption`, `NamesAssumption`.

The argument, invariant by invariant (each is inductive; each was a TLC
invariant first):

- `TypeInv` = `TypeOK` and `KnownIds`. `TypeOK` alone is not inductive: a lookup is
  `map[zid[h]]`, so every handle that may be looked up or destructed must be of a
  session that was opened (`KnownIds`). It also says the map has every session
  under its own zid.
- `OpenInv` adds: what is closed, or about to be closed by a `session_close` or a
  destructor (`Closing`), is not in the map and was opened before, so a new session
  is never one of those. Without `Closing` the step that closes could not be
  shown to close an unmapped session. Closing happens a second way, when the last
  `Arc` goes; that case uses `StaysAlive`: a session in the map is never that.
- `LockInv` adds the exclusion of the `RwLock` (`Alone`): the thread between kind check and
  removal locks to write, so the steps of others that change the entity table, which
  lock to write or drop the last `Arc`, are not steps on that session.
- `HandleInv` adds: a handle with a destructor to come is not referenced again
  (a call that could refer to it has it as an argument, so it is held).
  `NoOrphan` follows with `LivelyStep`: a handle that is referenced or has a
  destructor to come stays so until the destructor runs, and that takes
  the session out of the map.
- `NoSessionLeaks` is inductive with `TypeInv`: every step that takes an `Arc` away goes
  through `DropArc`, which looks for another one and otherwise closes and empties
  (`DropArcEnds`), and no later step reopens or fills what is over (`Minds`): for that, the session of a
  declaration must still have its `Arc`.
- `ClaimInv` = `LockInv` and what is at work in a destructor: it has the write lock until the entity is out
  of the table (`DropCall`, `NestedGone`), and only a get collects (`Collects`). An entity enters a
  table with its handle held (`OnlyDeclarationsAdd`), a handle let go has a destructor to come, and a
  destructor that finds the session ends only when the entity is gone (`DropEnds`). One that
  finds the zid unmapped ends at once; then the entity is in no session of the map.
- `KeepInv` = `HandleInv` and that no thread runs a destructor inside its NIF. With `KeepSession` this
  needs `KeptHandles`: while an entity is in a table its owner is held, so removing it
  releases nothing. Whoever has a lock is then in the body of a NIF, where it waits for nothing.
- `StayInv` = `HandleInv` and, for fresh zids, `Distinct`: no two sessions share a
  zid, so a destructor or close of one handle cannot meet the session of another.
- `ContractInv` = `LockInv`, `StayInv` and `ArgInv`, which relates calls, tables and handles:
  a call's `Arc` is of the session its argument names (`ArgOK`), an entity is in the table
  of the session whose handle it keeps (`OwnTable`), and the number a session gives
  next is in no table, handle or call (`Numbers`). A stale handle therefore never names a
  later entity. `Gone` (the session left the map) is what turns the late steps of the code into stutters: an `Arc`
  may outlive the mapping, so a table may be changed or emptied, by a call that looked the session up before or
  by the drop of the `Arc`, after the contract's session ended. The refinement has one case per action. Opening is the
  write to the map; a `session_close` that finds its session is the contract's `Close`, the return of
  any call with an argument its `Answer`; a destructor is its `ReclaimSession`, since by `HandleInv`
  nothing refers to the handle any more and so the session's table is empty. `HeldEntityStays` is the same analysis
  of the only step that takes an entity out of an open session's table
  (`OnlyRemovalsTakeEntities`).

- `QueryInv`: the mutex excludes (`MutexInv`); a running reply found the query
  there and took it out exactly if it is final (`UseInv`); so a query is in its
  resource, or with one running final reply, or has sent `ResponseFinal`, and in the last
  case in neither of the others (`SentInv`). `NothingAfterFinal` needs the latter, for
  whoever sends has the query in hand; `GoneMeansFinalSent` needs the former and that the
  caller itself has the mutex.
- `CountInv` (with `QueryInv`): the channel and what was collected have, per query, as many
  replies as came in for it (`From` against `Got`), what came in was sent, and a query the getter does not wait
  for has sent its last message and all of it came in. A get that ended emptied its channel,
  so if no query is live it has them all. `GetComplete` compares counts, so the
  lemmas it needs are about cardinalities of index sets after one more message.
- `FinalComes` needs `QueryInv` before and after the step: only a destructor empties an
  unreachable query and only the end of `DropQuery` ends a final reply, and `SentInv'` then leaves nothing but
  `IsFinal`. `WaitInv` adds to `CountInv` that nothing final has come in for a query the
  getter waits for, and that a handle that is gone has sent `ResponseFinal`: so that is on its way.

- `HandlesInv` (one-shot handles): the lock excludes (`MutexInv`); what is not declared
  yet has no option, owner or handle (`Unborn`); the object is in its resource, or
  with one call or destructor that took it out, or undeclared (`OneOwner`), so it is undeclared once;
  a handle that a call uses is not destructed (`InUse`); whoever was answered finds the
  option empty (`Answered`), so the destructor has nothing to unwrap. The refinement has one
  case per action: it is a step of `OneShot` or leaves the statuses alone. `NothingLeftBehind` needs
  `EndedInv` besides: what was undeclared has ended, so by `OneOwner` what lives has an owner.
- `OnceInv` (delivery): an event of a process is with its thread, in the mailbox or
  handled, and at one of these places (`Once`). That is not enough for two incarnations
  of a server: a process has nothing before it starts (`Unstarted`) and starts after
  the death of those before it (`Succession`), so it never has an event they handled
  (`Apart`).
- `Pending` and `Backed` (delivery): a client whose stop is in a mailbox or served
  still waits for that very process, so nobody is answered twice; who serves a stop with `:ok`
  has undeclared its source. Each answer of `:ok` then ends a server that no other client
  was told `:ok` by: `Backed` says that there is an injection from those clients to the
  servers that undeclared and died, and that step extends it. `OkMeansUndeclared` counts
  both sides and is not inductive.
- `EventsArrive` follows from `OnceInv`, step by step: a thread that brings an event to a process
  that is not alive finds it dead, not unstarted (`Unstarted`). `NobodyForgotten` is inductive with
  `TypeInv`: a request leaves a mailbox at its head, into `serving`, or with the process.
- `ThreadInv` (logger): a process has no thread before its init returns, and a thread
  has no message in hand while it looks whether its channel is disconnected (`Fresh`),
  so what it leaves behind when it ends is empty. `OrderInv` adds that what a process
  was sent, what its thread holds and what its channel has are, read in this order,
  sorted per actor and not newer than what the actor logged: receiving and forwarding
  leave that sequence as it is, a dead process loses some of it, and a
  log call appends a newer message. `MessagesArrive` is the same analysis for a living process, with
  `ThreadInv`: nothing is received before the channel has its thread, nor sent to a thread that has ended.
- `ServerInv` (logger): one server lives at a time, and it is the one the logger sends to unless
  another process took the logger over. `LevelInv`: while an init has the sender's lock, what it is
  about to set as the maximum level is the level it has set.

- `CallsInv` (one-shot calls): a call has no session before it opened one, its session
  was opened, and one that left `close` is not open (`ClosedInv`). It stays so because the
  contract never opens a session twice; the proof uses the contract's actions and
  nothing of the registry. `HeldInv` adds that a handle is held by a call that opened it.
- `OptsInv` (options): the elements passed by the fold were good, those passed by the
  search are no `:final?`, what was set is the last value but `nil` of each key
  (`LastWins`), and what the search found is the first (`FinalIsFirst`). The theorems about documented
  options rest on facts about the fifteen builders, proved one builder at a time:
  no arm is called `final?`, no decoder takes what an `Option` leaves out
  (`BuildersSound`), and every documented term is one its arm understands (`AllUnderstood`).

Only model-checked:

- the liveness properties: `CallsReturn` of both modules, `SessionReclaimed`, `UnmappedGetsClosed`,
  `EntityReclaimed`, `FinalSent`, `GetEndsEarly`, `UnreachableEnds`, `NoneLost`,
  `ClientsAnswered`, `EnabledIsForwarded`, `ForwardersEnd`, `Reconnects`, `NothingStaysOpen`. tlapm
  has no rules for fairness. What is proved of them is in the table above;
- `MergeOverwritesOrKeeps`, `InsertChangesOnlyThere` and `StaysNormal`: `ConfigMap` is recursive
  over trees, which needs induction over data;
- `TypeOK` of `KeywordOpts`, which says that terms are strings: the provers know
  no fact of the form `"x" \in STRING`. `Shape`, which the proofs use instead, has the rest of it.

The refinement, `HeldSessionStays`, `HeldEntityStays` and `HeldSessionSurvivesGC` assume fresh zids: with
reused ones they are false, which `registry_reopen` shows of the last.

## 6. What is left

To prove: `CallsCloseTheirSession` is about the contract and `RegistryKeepsContract` about
the registry, but the one-shot calls and the registry are not composed into one specification, of
which the two together would be a theorem. For reused zids `MappedIsOpen`, `NoOrphan`,
`CheckedStaysFound`, `NoSessionLeaks`, `NoEntityLeaks`, `NoCircle` and `EndsByItsZid` are
proved; a contract for that policy is not stated. `ConfigMap`'s properties need induction over trees.

Partly modelled: `config.ex` and the readers of `config_map.ex` (files, environment,
JSON: I/O and zenoh's own typing, on which the quoting retry of `insert_json5` depends);
the example servers that only publish or query, which keep
nothing; the loop of `scouting_scout`, which is that of `session_get` without a
channel that is disconnected early.

Not modelled: key expressions, sample encoding, configuration NIFs (conversions
that call zenoh and keep nothing), build and release files, zenoh itself, failures
of zenoh inside the destructors of sessions and entities, lock poisoning.
