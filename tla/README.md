# A TLA+ model of SQL Relay's server

SQL Relay pools database connections: daemons hold logins to a database, a
listener accepts clients and hands each of them to a free daemon, and a scaler
opens more daemons when there are too few.  This directory holds TLA+ modules
translated from the server's code (`src/src/server/`, and what it needs of the
connection modules, the sqlrclient protocol, the client API, the router and the replay
trigger), TLC configurations that
check them on small instances, and TLAPS proofs of the properties that hold for
every instance.

Line numbers below and in the modules' comments are those of the repository's
files; `sqlrlistener.cpp`, `sqlrservercontroller.cpp`, `sqlr-scaler.cpp` and so
on are in `src/src/server/`.  `PROJECT.json` maps every definition to its lines,
and lists the runs, the hazards, the findings and the theorems.

## 1. Inventory

### Processes and what they share

| part | state it keeps | operations | talks to |
|---|---|---|---|
| sqlr-listener, main process | `handoffsocklist`, sockets, one child per client | accept a client and fork (or serve it inline), register, deregister, fixup | connections (handoff and removehandoff sockets), its children (fixup socket) |
| sqlr-listener, child or thread per client | the client, a copy of the list | wait for semaphores 1 and 2, read the announced pid, check the database, find the socket, pass the client, wait for the ack, try again | shared memory, connection |
| sqlr-connection | database login, its end of the handoff socket, one session, cursors | announce, wait to be read, receive a client, serve it, end the session, log in again, give up after its ttl | shared memory, listener, scaler, database |
| sqlr-scaler | attempts, the pid it is starting | reap children, compare counters, spawn, wait for ready, kill | shared memory, connections |
| shared memory (`shmdata`) | announced id and pid, `totalconnections`, `connectedclients`, `forked_listeners`, connection statistics | - | everybody |
| semaphores | 0 announce mutex, 1 listeners' mutex, 2 "announced", 3 "read", 4/5 counters, 6 wakes the scaler, 8 "ready", 9 statistics, 10 busy listeners | - | everybody |

Inside a connection daemon `sqlrservercontroller` runs one session at a time:
protocol modules decode requests, translations and filters rewrite queries,
cursors execute them, and the controller keeps the transaction state that the
database's own model lacks.

### Components, what is hard about them, what makes them correct

* **Client handoff** (`sqlrlistener.cpp:1156-2080`,
  `sqlrservercontroller.cpp:1686-2199, 8796-8872`).  Four semaphores, one slot in
  shared memory and a socket per connection pair clients with connections.  Hard:
  the slot is reused as soon as semaphore 3 is signalled; semaphores 2 and 3 are
  not undone when a process dies; reads time out after a second while the peer
  may still be at work; the main listener may act as a child itself.  Correct if
  a connection is promised to one client at a time, each client is picked up once
  or refused, a listener reads the pid of the connection that waits for the read,
  and nobody waits for what cannot come.
* **handoffsocklist** (`sqlrlistener.cpp:1316-1396, 1995-2040`).  An array of slots
  searched from the front; registrations and deregistrations arrive over two
  sockets in any order, pids are used again, proxy mode registers again after
  each session.  Correct if a live connection is found by its newest socket.
* **Dynamic scaling** (`sqlr-scaler.cpp`).  The scaler decides from two counters
  that connections, listeners and the scaler itself update, and that a death can
  leave wrong.  Correct if the counters are what they count, the pool returns to
  its minimum, grows for a queue, never exceeds `maxconnections`, and a loop of
  failed starts ends.
* **Transactions of a session** (`sqlrservercontroller.cpp:2575-3258, 8115-8228`).
  Five transaction models are offered over databases with four native ones, with
  or without an autocommit of their own, and pooled connections go from client to
  client.  Hard: long legal sequences of begin, commit, autocommit and switches;
  calls that fail halfway; the order of what `endSession` does.  Correct if the
  controller and the database agree on the transaction state, no work or lock
  leaks into the next session, every session starts as configured, and
  `endofsession` decides what becomes of open work.
* **Sessions, cursors, suspend and resume** (`sqlrservercontroller.cpp:1686-1759,
  2201-2572, 8115-8130, 8561-8595`, `sqlrclient.cpp:361-480, 848-940`, and the client API's
  `sqlrconnection.cpp`, `sqlrcursor.cpp`).  A pool of cursors that grows in steps and
  shrinks between sessions; client and daemon each remember who has which cursor;
  result sets and sessions outlive a disconnect.  Hard: ids that a client keeps
  over releases and reconnects; a timeout that races the client's return; a failure in
  the middle of growing; a 16 bit count.  Correct if a cursor is in one hand, what was
  suspended is there when it is resumed, a session is resumed by the client that
  started it, and the next session starts clean.
* **Router connection and routers** (`router.cpp`, `routers/`, `sqlrrouters.cpp`).  A daemon
  whose database is several other instances of SQL Relay: queries go to one of them,
  transactions run on all.  Hard: no two-phase commit, so a commit that succeeds on
  some and fails on others disables the instance, by a flag that other daemons read
  when they please; each backend has a transaction model and an `endofsession` of its
  own.  Correct if transactions are open on all backends or on none, a client is never
  told of a commit that did not happen, and sessions end alike on all of them.
* **Replay trigger** (`triggers/replay.cpp`).  Logs the queries of a transaction and runs them
  again after a deadlock or a lock wait timeout.  Hard: the replay fails itself; inserts
  generate new keys; some queries cannot be repeated; the log must be of this
  transaction and whole.  Correct if the database holds what the client was told.
* **Listener process limits** (`sqlrlistener.cpp:1432-1600, 2376-2433`):
  `forked_listeners` against `maxlisteners`, and the counts that a killed child
  leaves behind.  Semaphore 10 is part of the handoff; the rest is not modelled
  yet.
* **Connection statistics** (`sqlrservercontroller.cpp:8905-8960`): slots claimed by
  scan, under a semaphore for part of the time.  Not modelled yet.
* **Proxy relay** (`sqlrlistener.cpp:2080-2300`): state of its own, not modelled yet.
* **Other protocols, translations, filters, parsers, authentication, loggers,
  configuration, language bindings, command line tools**: wire formats,
  string rewriting, lookups and output, or clients of the server.  Not modelled;
  what they decide for the others appears as constants or as the choice of
  requests.
* **rudiments** is an external library; its semaphores, sockets and signals are
  modelled by what the callers rely on.

## 2. Modules

| module | models | lines of code it stands for |
|---|---|---|
| `Handoff` | listener, its children or threads, and connections pairing clients with connections (`handoff="pass"`) | `sqlrlistener.cpp`, `sqlrservercontroller.cpp` as above |
| `ClientPool` | abstract: what the two promise together | - |
| `HandoffPool` | the refinement mapping from `Handoff` to `ClientPool` | - |
| `HandoffList` | the slots of `handoffsocklist` | `registerHandoff`, `deRegisterHandoff`, `findMatchingSocket` |
| `Scaling` | scaler, counters, life of connection processes and of clients | `sqlr-scaler.cpp`, counters in the other two |
| `Transactions` | transaction state of one connection daemon over a database | `sqlrservercontroller.cpp`, `sqlrserverconnection.cpp`, `sqlrservercursor.cpp` |
| `TransactionModel` | abstract: what the five values of `transactionmodel` and `endofsession` promise | - |
| `Session` | one daemon's cursors and sessions, with the clients' side of both, suspended sessions | `sqlrservercontroller.cpp`, `sqlrclient.cpp`, `sqlrconnection.cpp`, `sqlrcursor.cpp` |
| `Router` | router daemons, their sessions on the backends, the disabled flag | `connections/router.cpp`, parts of the controller and of `sqlrclient.cpp` |
| `Replay` | the replay trigger between a client and a database with deadlocks | `triggers/replay.cpp` |
| `HandoffProofs`, `HandoffPoolProofs`, `HandoffListProofs`, `ScalingProofs`, `SessionProofs`, `RouterProofs`, `TransactionsProofs`, `ReplayProofs` | theorems about the module each is named after; `HandoffPoolProofs` has the refinement of `ClientPool` and what it needs | - |
| `DeploymentKinds` | the kinds of deployments of `Transactions` and `Replay` for which theorems hold | - |
| `MCHandoff`, `MCHandoffList`, `MCScaling`, `MCTransactions`, `MCSession`, `MCRouter`, `MCReplay` | instances for TLC | - |

Operators whose comment says *Mutant* are changed versions of a definition; they
are part of no specification, and show that a property notices the change.

### Handoff

One state per blocking point or shared access: `cpc[c]` is where connection `c` is
in `listen()`/`getAListener()`, `lpc[k]` where the listener process of client `k`
is in `handOffOrProxyClient()`.  `sem0`-`sem3` and `shmPid` are the shared memory;
`sock`, `hq` and `ack` the two directions of each handoff socket; `reg` the main
listener's list (a set, see `HandoffList`) with `pendreg` and `pendrem` the queued
registrations and deregistrations; `copy` the list a child was forked with;
`inline` the client the main listener serves itself, during which it accepts
nothing; `up` the `.up` files; `pings` the children forked to jog a connection
whose database was down.

Each action is one step of the code between two shared accesses.  For example
`acquireShmAccess`, `resetSemaphores`, the writes to the segment,
`signalListenerToRead`, `waitForListenerToFinishReading` and `releaseShmAccess` are
six actions, because a crash or another process may come between any two.  The
three writes of a handoff (mode, protocol, descriptor) are one message, and a pid
is not used twice (`HandoffList` is about pids that are).  `CheckUp` reads the
connection id of the segment after the mutex is gone, as the code does.

Timeouts are actions.  The one second reads may expire at any time if
`SlowHandoff`, and otherwise only when the peer is not about to answer:
`WaitForClientTimeout` needs that no listener holds the pid, `ReadAckFails` that the
connection is not about to read its socket.  That separates what the protocol
guarantees on a machine that keeps up from what it guarantees always.

A crash of a connection or of a listener undoes its wait on a mutex (`SEM_UNDO`)
and leaves semaphores 2, 3 and 10 alone (`sqlrlistener.cpp:643-690`).

### HandoffList

`list` is the array; `cur[p]` the newest socket of the live process with pid `p`,
`regq` and `remq` the queued messages.  `RegisterHandoff` takes the first slot that
is free *or* has the pid and grows the list if there is none, `DeRegisterHandoff`
frees the first with the pid.  `ReRegister` is `closeClientConnection` in proxy mode;
it is only taken once the listener has handled the previous registration, which
took place before the session it follows.

### Scaling

`pc` is where the scaler is in `openMoreConnections()`; its locals are variables,
since the counters change between its reading them and its acting on them.
`proc[p]` is the life of a process (a child of the scaler is a zombie until it is
reaped), `lpc[k]` that of a client, `serving` who serves whom.  Counters change in
one step, being under their semaphores, except that the scaler reads
`connectedclients` without one.  `killedConns` and `killedClients` are history: the
processes and clients that were killed before anyone could uncount them.

### Transactions

A request is one step: a connection daemon serves one session at a time, and
nothing else touches this state.  The calls it makes on the connection module are
operators from state to state, in the order in which the code makes them, with its
early returns (`Bail`).  A request chooses the set of database calls that fail during
it, which is how every error path is taken.

The database is external: a mode (autocommit or manual), a transaction a begin query
opened, uncommitted work.  A `Deployment` is a kind of backend with what the
configuration may say and what clients do.  The bundled modules come in seven kinds
(`MCTransactions`): oracle starts in manual mode, db2 (and informix, sap, ...) do
not; mysql defers autocommit; odbc has explicit transactions *and* an autocommit;
postgresql, sqlite and freetds have none, and the latter two fail a commit outside
of a transaction.

`SettingsOn` and `SettingsOff` are queries that set autocommit among other things: the
database runs them first and `executeQuery` changes the flags afterwards.  `tracked`
says of a deployment that controller and database are expected to agree; in the others
only the end of a session is checked.

`TransactionModel` is the documentation as a specification: an open transaction, the work
in it, and what begin, commit, rollback, autocommit, a switch of models, a lost connection
and the end of a session do to them in each of the five models.  It knows nothing of
native models, faked begins or deferred flags.  `ImplementsModel` maps a `Transactions`
state to it (a transaction is open if the *database* is not in autocommit or a begin
query is open) and says that every step is one of its steps.

### Session

`daemon` is the connection daemon: idle, in a session with `peer`, or waiting for a
suspended session to be resumed, with `waited` seconds so far; `cur` the states of its
cursors; `backlog` the clients connected to the sockets of a suspended session, which
outlive a session that times out; `home[k]` the session a client believes in, and
`hands[k]` the cursors of its program, each with the id of the daemon's cursor it has
(`_cursorid`, `_havecursorid`), whether it has rows left and whether it is suspended.
A request is one step, as the client waits for its answer; between requests the session
may be suspended, time out, or be resumed by whoever connects to its sockets.  The ids
in a client's hands and the daemon's pool are only tied by the code of both, and the
properties compare them.  `ExpandTo` computes with the width of the counter
(`CounterSize`), `GrowFails` leaves the cursors that did open.

### Router

Each daemon has a `Conn`: the controller's flags, the router's `currentcon`, and a `Link`
per backend, which keeps to `TransactionModel`.  `Call` is one of `begin`, `commit`,
`rollback`, `setAutoCommitOn`, `setAutoCommitOff` with the set of backends on which it
fails, `End`, `Begin` and `EndOfSession` the controller's procedures over it.  A command is
one step, since daemons share nothing but `disabled`; the look at the flag
(`WaitForCommand`) is a step of its own, so that another daemon may set it after the look
and before the command.

### Replay

`db` has the rows of the open transaction, the committed ones, and the next key to be
generated; `client` what the client was told of them; `tr` the trigger's log and flags;
`run` its replay, one query a step, so that each of them may meet a deadlock or a lock wait
timeout again.  The rows carry the number of the query that made them, so order, loss and
repetition show.

The database is external.  What it does with an error is what the trigger is made for: a
deadlock undoes the transaction and leaves it open, a lock wait timeout undoes one query.

## 3. Runs

All runs but `MCRouter` turn off the check for deadlock: the bounds below are on
behaviours, and clients, sockets, sessions and failures run out; in the code, too, a pool at
rest with no clients blocks in semaphore waits.  What must not block is stated as a property
(`NobodyWaitsForNothing`, `EveryClientServed`, `ScalerReturns`, `SuspensionEnds`, ...).

| run | instance | shows |
|---|---|---|
| `MCHandoffOrderly` | 2 connections of 2 databases, 2 clients, 2 database failures, listeners time out, die, serve inline or are forked | `TypeOK`, `OneClientPerConnection`, `ReadsWaitingConnection`, `NoClientLost`, `NobodyWaitsForNothing`, and that the protocol implements `ClientPool`, in which a client is picked up once |
| `MCHandoffServed` | 2 connections of which one may die, 1 client, a database failure, fairness | `EveryClientServed`: the client is picked up although the connection it was given to dies at any point |
| `MCHandoffTimeouts` | 2 connections that give up when idle or after a session, 2 clients, threads, one second reads that expire whenever they like | `NobodyWaitsForNothing`, `NeverPidZero`, `MutualExclusion` |
| `MCHandoffListLive` | 3 pids, 2 slots at first, 7 sockets, proxy mode | `LiveConnectionFound` |
| `MCScalingCounts` | 2 + 3 processes, 1 client, min 2, max 4, growby 2, 2 faults, spawns fail, clients are missed | `TypeOK`, `ConnectionCountRight`, `StartedIsReady` |
| `MCScalingLive` | 1 + 3 processes, 2 clients, three pools (growby 1; growby 3 past the maximum; minimum of 1, which a queue outgrows), 2 faults, fairness | `PoolWithinMax`, `ClientCountRight`, `MinimumRestored`, `QueueGrowsPool`, `ScalerReturns` |
| `MCTransactions` | the backends and models of `Agreeing`; failing calls, savepoints, hidden begins (`Clean`) | `TypeOK`, `NoWorkLeaks`, `EndOfSessionHonoured`, and for `Agreeing` `AgreesWithDatabase` and `ImplementsModel` |
| `MCSession` | 2 clients of 3 cursors, 2 sessions and what is resumed of them, five pools of 1 to 3 cursors | `TypeOK`, `CursorInOneHand`, `SuspendedResultSetsKept`, `SessionsStartClean`, `ResumesItsOwn`, `RefusedOnlyWhenFull`, `SuspensionEnds` |
| `MCRouter` | 2 daemons, 2 backends, up to 2 commands during which any set of calls fails, routing by query or of sessions | `TypeOK`, `InParallel`, `ToldTheTruth`, `SessionsEndTogether` |
| `MCReplay` | 5 queries, 2 or 3 deadlocks or timeouts, six deployments with one condition each | `TypeOK`, `AppliedAsTold`, `KeysAsTold`, `LogRebuildsTransaction`, `ReplayComesToAnEnd` |
| `MCHandoffInlineFixup` | 2 connections, 2 clients | `FixupOnlyFromChild` fails |
| `MCTransactionsHiddenBegin` | postgresql, explicit model, a begin in a block of queries | `NoWorkLeaks` fails |

### Bounds and why they are enough

* *Handoff*: a handoff involves one connection and one listener at a time on each
  side of the slot; a second of each is what can come between, and two of each let a
  token, a pid, a message or an ack of one meet the other.  `SocketBuffer` is 1 or 2
  messages: with 1 a second writer blocks, with 2 a client queues behind another.
  All safety properties are also proved for any numbers.  Connections and clients are symmetric where the configuration
  does not tell them apart, and symmetry is used in safety runs (and
  `ImplementsPool`, an action property whose mapping treats clients alike) only.
* *HandoffList*: two initial slots and three pids make the list grow, leave holes in
  front of old entries, and reuse pids; 7 sockets are two lives of each and one more.
  `LiveConnectionFound` is proved without bounds.
* *Scaling*: the faults (slow or failed starts, crashes, failures of the database) are
  limited to two, since with unlimited ones nothing would be promised; two suffice
  to fail one start in two ways or two starts.  `Attempts` is 2 instead of 10.
* *Transactions*: no bound but the failures, one request with any set of failing
  calls, in sessions of any length.
* *Session*: three cursors of a program over pools of at most three, so that a pool may be
  full, may grow, and may wrap around a counter of `CounterSize` 5 instead of 2^16; two
  sessions, since what leaks does so into the next; two clients, since a session is
  suspended by one while another is served or waits on the sockets.
* *Router*: two backends disagree as well as more do; two daemons, one to disable the
  instance and one to be disabled.  Sessions have any length.
* *Replay*: five queries in one or more transactions, with two errors so that a replay
  meets one itself, and three where `maxretries` is 1.

### Fairness

`Handoff.FairSpec`: every process keeps running (weak fairness of its steps as a
disjunction, so no branch is forced), sessions end, databases come back
(`reLogIn` repeats its login for as long as it takes).  The two mutexes are strongly
fair: System V semaphores wake sleepers in the order in which they went to sleep.
Arrivals of clients, crashes and failures are not fair.

`Scaling.FairSpec`: the scaler runs, starting processes get ready (or fail), a running
connection takes a waiting client, strongly, as a handoff takes milliseconds and a ttl
at least a second.  Sessions need not end, listeners need not give up, and a database
need not come back: `MinimumRestored` and `QueueGrowsPool` are promised if it stays up
from some time on.

`Session` and `Replay` state one fairness each, of what a single process does without
anybody's help: the daemon that waits for a client to resume goes on waiting a second at a
time (`Wait`), and the trigger that replays goes on replaying (`Replay`).  Clients need not do
anything.

## 4. Proofs

TLAPS checks these for every value of the constants that the assumptions
`HandoffAssumption`, `ListAssumption`, `ScalingAssumption`, `TransactionsAssumption`,
`SessionAssumption`, `RouterAssumption` and `ReplayAssumption` allow: any sets of
connections, clients and databases, finite or not; any finite sets of processes and clients
of the scaler, and any pools with `min <= max`; any kinds of databases in which a session can
begin a transaction; any timeouts, cursors, daemons, backends, queries and failures.
Together they state every invariant, action property and refinement that a passing run
checks.  Where a theorem has a further premise it is on the deployments alone; all that the
runs check meets it, and section 5 has what happens without most of them.

`HandoffProofs` and `HandoffListProofs`:

* `TypeCorrect`, `PidZeroNever`: `TypeOK` and `NeverPidZero`, without further
  conditions: with timeouts and crashes.  The invariant adds `PidWritten`: a token on
  semaphore 2, a connection about to signal and a listener about to read all imply
  that the segment has been written.  Without it a listener could read the initial
  pid 0, which matches every free slot.
* `MutexCorrect`: `MutualExclusion`, without further conditions.  The invariant
  `MutexInv` ties each mutex to its holders: semaphore 0 is 1 and nobody announces, or
  0 and one connection does; the same for semaphore 1 and the listeners.
* `ExclusiveHandoff`: `OneClientPerConnection`, assuming `Orderly`: no idle ttl, no expiry of
  the one second reads on a peer at work, no death of a connection; databases may fail, and
  listeners may time out, die or be the main listener.  Each condition is needed: TLC has a
  counterexample without it.  The invariant `OrderlyInv` says that an announcement is
  one token that moves: from semaphore 2 to a listener that reads, to semaphore 3 and a
  listener that holds the pid, to a message (or a ping) in the handoff socket.
  `Interlock` places the token while the connection waits, `OneToken` says that a
  connection has at most one of holder, message and ping, `Fresh` that it has none when
  it announces itself anew.  `OneClientPerConnection` alone is not inductive: nothing in it
  keeps two listeners from reading the same pid.
* `ReadIsCurrent`: `ReadsWaitingConnection`, assuming `Staying`: no idle ttl and no death of a
  connection, while reads may expire at any time.  `TurnInv` is the part of the interlock that
  is about the segment: at most one of semaphore 2, a reading listener and semaphore 3 has the
  turn, and the connection that wrote the segment waits for it.
* `LiveConnectionIsFound`: `LiveConnectionFound`, for any pids, any initial size and any
  number of sockets.  The invariant adds `QueuedIsCurrent`: what is queued for a live
  process is its newest socket and no deregistration.  The lemma `ReplaceFirst` says
  that replacing the first slot usable for a pid makes it the pid's first and moves no
  other pid's first slot.

`HandoffPoolProofs`:

* `ClientsAreKept`: `NoClientLost`, assuming `Staying`: reads may expire, an ack may be read by
  another listener than it was meant for, and listeners may die.  Its invariant `KeptInv`
  follows each client whose listener is done with it, or waits for its ack, until it is picked
  up.
* `NobodyWaitsInVain`: `NobodyWaitsForNothing`, without further conditions.  An ack carries no
  name, so nothing says which listener it wakes; `AckInv` counts instead: on an open handoff
  socket, no more listeners wait for an ack than there are acks and clients to be read.
  That acks and clients are counted right over `Append` and `Tail` are the lemmas
  `UnreadAppend` and `UnreadTail`; that the last of several messages keeps its place is a
  bijection.
* `HandoffImplementsPool`: `ImplementsPool`, the refinement of `ClientPool`, assuming `Orderly`.
  An accepted client is `Arrive`, a pid read is `Claim`, a client read from the handoff socket
  is `Serve`, the end of a session is `Leave`; a listener that gives its connection up (its
  database is down, a fixup or the passing of the descriptor fails, it dies) is `Unclaim`, one
  that gives its client up is `Refuse`, everything else stutters.  What needs an
  argument is what cannot happen: a listener would unclaim a connection that has its client if
  it gave up on the ack.  `AckComes` says that it does not: by `AckInv` a missing ack is of a
  client still in the socket, and by `ToldInv` a connection with something in its socket has
  been told so on semaphore 3 and reads next.  `PlaceInv` says that a client is in one place,
  and never goes back.
* `ServedOnce`: under the same conditions no client is picked up twice.

`ScalingProofs`:

* `TotalCountsConnections`: `ConnectionCountRight`, without further conditions: whatever exits,
  fails to start, is given up on or killed, `totalconnections` counts it once.  `TypeInv` adds to the
  types that `connpid` is a child of the scaler that it has not reaped, and that a connection
  serves nobody but while it runs.
* `ClientsAreCounted`: `ClientCountRight`, if no connection misses its client.
* `PoolStaysWithinMax`: `PoolWithinMax`, if sqlr-start's connections, at most `maxconnections`
  of them, log in before the scaler looks.  The bound is not inductive: `RoomInv` says that what
  is counted and what the scaler still means to open fit below the maximum together.
* `SignalIsOfTheSpawned`: the action property `StartedIsReady`.  `ReadyInv` says that the only
  child that may still be starting is the last one, and that semaphore 8 was 0 when it
  was spawned: a late signal is of no other.
* `ScalingTypeCorrect`: `TypeOK`.

`TransactionsProofs`.  The premises of the next three theorems are that a deployment is of one of
five kinds (`Follows`), of `NoWorkIsLeftBehind` and `EndOfSessionDecidesTheWork` also of a
sixth (`EndsWell`).  Each kind is a reason why the controller cannot lose track:

| kind | backends, and why |
|---|---|
| `BeginsAlways` | no autocommit of the database's own: the controller opens every transaction, by a begin query |
| `Implicitly` | an implicit native model: a transaction is open exactly while autocommit is off |
| `Deferred` | a deferred native model and no other: begin and autocommit-off both open one, calls may fail |
| `ByAutocommit` | the explicit model, driven by autocommit alone, also by queries that set it |
| `ByBegin` | an explicit native model, driven by begin alone |
| `EndsWell` | as `BeginsAlways`, but calls may fail, and autocommit may be configured: the controller may believe in a transaction that never began, and the end of a session is right nevertheless |

* `TransactionsTypeCorrect`: `TypeOK`, without further conditions.
* `ControllerAgreesWithDatabase`, `SessionsFollowTheModel`: `AgreesWithDatabase`, and the
  refinement of `TransactionModel`, for tracked deployments of the five kinds.
  `FollowInv` adds to the agreement what each kind needs between requests (`Tracks`), what
  the next end of a session relies on (work is known to it), and that an idle daemon is back
  at its initial settings.  The lemmas go along the calls: what a call on the database changes
  (`...Effect`), what each operation of a request keeps and what it does to the abstract
  transaction (`...Tracks`), and at last each request (`StepFollows`).
* `NoWorkIsLeftBehind`, `EndOfSessionDecidesTheWork`: `NoWorkLeaks` and `EndOfSessionHonoured`.
  Where calls fail, `EndInv` keeps less than the agreement: the controller knows of every
  open transaction (`Known`), not that there is one when it thinks so.

`MCTransactions` states as an `ASSUME` that every deployment it runs meets these premises.

`SessionProofs`.  Each premise is on the deployments, is met by all that `MCSession` runs,
and is needed: section 5 has what happens without it.

* `SessionTypeCorrect`: `TypeOK`, without conditions; in it, that `getCursor` never lets the
  pool outgrow `maxcursors`, whatever its 16 bit sum does (`GrowsWithinLimit`).
* `SessionResumesItsOwn`: `ResumesItsOwn`, if sessions are resumed before they time out
  (`NobodyResumesLate`).  The invariant adds `OwnersWait`: who is in the backlog of the
  sockets belongs to the session, and nobody is while the daemon is idle.
* `SessionStartsClean`: `SessionsStartClean`, if settings are not changed and logins not
  rejected where sessions are suspended (`SuspendedLeaveNothing`).
  `RemainsOnlyOfThisSession` says where work and settings may be; in particular that a
  session nobody resumed has none before its first query, so that a rejected login, after
  which `endSession` does not run, leaves none.
* `SessionCursorInOneHand`, `SessionSuspendedResultSetsKept`, if programs close or suspend
  their result sets before they suspend the session, and resume it in time
  (`ProgramsLetGo`).  The invariant `HandsRight` says of each cursor of the client whose
  session it is that the daemon's cursor it refers to exists, is not available, is suspended
  if the client thinks so, and is no other's; `SessionsDiffer` that a session is one
  client's.  A hand that is at the end of its result set is not mentioned in either
  property, yet a later query runs on its id.
* `SessionRefusedOnlyWhenFull`: the action property `RefusedOnlyWhenFull`, if a pool in which
  cursors may fail to open grows by one (`FailsAlone`).

`RouterProofs`.  `ExplicitAuto` is autocommit on by configuration and backends of the explicit
model, `FlagSeen` that the protocol looks at the disabled flag; section 5 has what happens
without each.

* `RouterTypeCorrect`: `TypeOK`, without further conditions.
* `TransactionsRunInParallel`: `InParallel`, with `ExplicitAuto`.  `RouterInv` says that the
  backends in reach are in a transaction exactly if the controller is, or a call failed in the
  session; that work is in open transactions only, with a commit or rollback to come; and
  that between sessions everything is closed.
* `EndOfSessionDecides`: the action property `SessionsEndTogether`, with `ExplicitAuto`.
* `ClientsAreToldTheTruth`: `ToldTheTruth`, with both.  `FlagInv` says why the look at
  the flag suffices although others set it after the look: a daemon that is out of parallel
  is yet to look before its next command, and its instance is disabled.

`ReplayProofs`.  The premise is that each deployment replays whole transactions after deadlocks,
or single queries after lock wait timeouts (`ReplaysTransactions`, `ReplaysQueries`, which also
say which queries may wait); section 5 has what happens otherwise.  `MCReplay` states as an
`ASSUME` that what it runs meets it.

* `ReplayTypeCorrect`: `TypeOK`, without further conditions.
* `ReplayAppliesAsTold`, `ReplayKeepsKeys`: `AppliedAsTold` and `KeysAsTold`.  Neither says
  anything while a replay goes on; `ReplayInv` says what the client will be told by then, and that
  it is so: `QueryInv` for a query, `TransactionInv` for a transaction, in which
  the replay has rebuilt a prefix of the log (`ReplaysLog`).  `KeyBound` says that keys in
  use have been generated: a new one is nobody's.
* `ReplayLogRebuilds`: `LogRebuildsTransaction`.  The invariant has a function `w` from
  prefixes of the log to the rows they make (`Rebuilt`); that the recursive function `Rebuild` is
  `w` at its end is by induction over the log, which `SetInduction` states for sets instead
  of predicates, from the well-foundedness of the naturals.

Only model-checked are the liveness properties (`EveryClientServed`, `MinimumRestored`,
`QueueGrowsPool`, `ScalerReturns`, `ReplayComesToAnEnd`, `SuspensionEnds`), which are out of
the prover's reach, as is what section 5 says of other deployments.

## 5. What the checks found

Two runs show a comment of the code contradicted by what it does (`findings` in
`PROJECT.json`):

* `MCHandoffInlineFixup`: the main listener serves a client itself when no listener is
  busy and a connection is announced (`sqlrlistener.cpp:1302`).  The connection's
  registration may still be queued on the main listener's own socket; it then asks
  itself for the socket (`requestFixup`) and waits for its own answer.
* `MCTransactionsHiddenBegin`: after a block of queries with a begin in it, `endSession`
  means to roll back, but `rollback()` returns at once as `_autocommit` is on.

Others are avoided by the constants of the passing runs, and appear when these are
changed:

| change | property that fails | because |
|---|---|---|
| `MCHandoffOrderly`, `Conns <- ThreeConns`, `DbOf <- SharedDb` | `ChecksItsOwnConnection` | `connectionIsUp(shm->connectionid)` (`sqlrlistener.cpp:1875`) runs after semaphore 3 was signalled and the mutex released, when another connection may have written its id: the wrong database is checked |
| `MCScalingLive`, `ManualFirst = FALSE` | `PoolWithinMax` | sqlr-start's connections count themselves only once they have logged in; a scaler that runs before that opens more on top of them (`sqlr-scaler.cpp:571`, `configreference.wt:56`) |
| `MCScalingLive`, `MissedClients = TRUE` | `ClientCountRight` | `listen()` decrements `connectedclients` also after `waitForClient()` returned -1 without a client (`sqlrservercontroller.cpp:1736-1759`) |
| `MCScalingLive`, `SpawnFails = TRUE` | `ScalerReturns` | an attempt is counted only for a process that was spawned (`sqlr-scaler.cpp:635-657`), so the loop over spawns that fail has no end |
| `MCScalingLive`, `MortalManual <- OneManual` | `MinimumRestored` | nobody uncounts a connection of sqlr-start that is killed by SIGKILL |
| `Deployed({oracle}, {"error"}, Default, {"begin"}, 0)` | `ImplementsModel` | the explicit-error model refuses the autocommit-on of `logIn`, as the database starts in a transaction (`sqlrservercontroller.cpp:1342`) |
| `Deployed({oracle}, {"none"}, Default, {"begin"}, 0)` | `AgreesWithDatabase` | with the model none autocommit is a flag that the database is not told of (`sqlrservercontroller.cpp:2586`) |
| `Deployed({oracle}, {"implicit"}, Default, {"begin", "savepoint"}, 0)` | `NoWorkLeaks` | `rollback to` is taken for the end of the transaction (`sqlrservercursor.cpp:1036`) |
| `Deployed({odbc}, {"explicit"}, Default, {"begin", "auto"}, 0)` | `AgreesWithDatabase` | after a begin query, autocommit-on tells a database that has had it on all along, and its transaction stays open (`sqlrservercontroller.cpp:2630`) |
| `Deployed({mysql}, {"implicit"}, Default, {"begin", "auto"}, 0)` | `AgreesWithDatabase` | on, begin, commit: `endTransaction` counts on an autocommit-off that never was (`sqlrservercontroller.cpp:2825`) |
| `Deployed({mysql}, {"explicit", "deferred"}, Default, {"begin", "switch"}, 0)` | `AgreesWithDatabase` | `setTransactionModel` judges by the native model a transaction that was begun in another (`sqlrservercontroller.cpp:3240`) |
| `Deployed(Implicits, {"explicit"}, Default, {"begin"}, 1)` | `AgreesWithDatabase` | `endTransaction` ignores that autocommit-on failed (`sqlrservercontroller.cpp:3061`) |
| `Deployed({sqlite}, {"implicit", "explicit"}, Default, {"begin", "switch"}, 1)` | `AgreesWithDatabase` | a begin that fails after a commit leaves a transaction that a strict database cannot commit, so the model cannot be reset |
| `Deployed({mysql}, {"explicit"}, Default, {"begin", "settings"}, 0)` | `AgreesWithDatabase` | a query that sets autocommit among other settings changes the flags after the database ran it (`sqlrservercontroller.cpp:6548`) |
| `Deployed({mysql}, {"deferred"}, Default, {"settings"}, 0)` | `ImplementsModel` | the same, as the FIXME there says, in the model that defers autocommit (`sqlrservercontroller.cpp:6551`) |
| `MCSession`, uses `{"suspend", "keep"}` | `CursorInOneHand`, `SuspendedResultSetsKept` | a program that suspends its session with a result set open keeps the id of a cursor that `suspendSession` released (`sqlrservercontroller.cpp:8571`) and the next query gets |
| `MCSession`, uses `{"suspend", "late"}` | `ResumesItsOwn`, and with it the two above | the sockets of a session that timed out stay open until the next session ends, and the next suspended one waits on them (`sqlrservercontroller.cpp:2243`) |
| `MCSession`, uses `{"suspend", "settings"}` or `{"suspend", "rejected"}` | `SessionsStartClean` | a timeout rolls back but undoes no settings; a rejected client that resumed a session leaves its work |
| `MCSession`, `[Base EXCEPT !.failures = 1]` | `RefusedOnlyWhenFull` | when a cursor does not open, those opened before it in the same call stay, but the client is refused (`sqlrservercontroller.cpp:2443`) |
| `MCRouter`, `auto = FALSE`, `failures = 0` | `InParallel` | with autocommit off by configuration, the router is told so before `endSession` ends the sessions on the backends, whose next sessions start with it on |
| `MCRouter`, `implicit = {b2}` | `InParallel`, `SessionsEndTogether` | backends of different transaction models begin at different times; `routing.wt:97` says to avoid that |
| `MCRouter`, `checks = FALSE` | `ToldTheTruth` | only the sqlrclient protocol looks whether the instance is disabled (`sqlrclient.cpp:397`) |
| `MCReplay`, two conditions (`BothConditions`, `MaxQueries = 4`) | `AppliedAsTold` | the scope of the condition that started a replay is kept when another occurs during it (`replay.cpp:898`), although `replay.wt:28` configures both |
| `MCReplay`, `[Base EXCEPT !.waits = {"update", "insert"}]` | `LogRebuildsTransaction`, `KeysAsTold` | an insert that meets the deadlock itself is logged without a key, and the log is not told of the key that its replay generates: the next replay generates another |
| `MCReplay`, `[Base EXCEPT !.kinds = {"update", "insertselect"}, !.waits = {"insertselect"}]` | `AppliedAsTold` | an insert-select is not logged: when it meets a deadlock there is nothing to replay, and that nothing succeeds is what the client is told |

With slow peers or after a crash an ack may be read by another listener than the one it
was meant for (an ack carries no name), and a client can be picked up twice, or wait in
a handoff socket until the next client makes that connection read it; hence
`NoClientLost` allows for the socket, `ClientPool` is implemented without them, and
`EveryClientServed` has one client where a connection dies (with two clients it holds
without deaths and database failures).

Read in the code, and not run: with the explicit transaction model a replay that exceeds
`maxretries` leaves the trigger inside a transaction that is over; a lock wait timeout at
`maxretries` rolls back the whole transaction, while the client is told that a query
failed; the replay log survives the end of the session; after a timeout of a suspended
session the pool is not shrunk, and `endofsession=commit` is not looked at; a suspended
session whose sockets opened partly leaves one behind.

## 6. Not modelled, and the plan

In the modelled parts: the relay and end-of-session handshake of `handoff="proxy"`; the
race of threads on the array of `handoffsocklist` (`sqlrlistener.cpp:1359`); stale IPC
objects of a listener that was killed; the choice among connect strings by metric;
connections that are stopped and continued by a signal; failures during `endSession`;
result set rows and their numbering, binds and errors, of which `Session` keeps whether a
result set is at its end; the cursors of the router, and queries that it sends to more than
one backend without a transaction; the suppression of queries by the replay trigger.
`PROJECT.json` lists each that is hard to test with its line under `hazards`.

Not modelled as they hold no state of their own that others depend on, or only the formats
of others: the remaining client protocols (each drives the controller that `Session` and
`Transactions` model, one request at a time), translations, filters, parsers,
authentication, password encryption, loggers, notifications, schedules, the configuration,
language bindings and the command line tools.  They are most of the repository's lines.

What is left, in the order in which it adds most:

1. `ListenerLimits`: `forked_listeners`, semaphore 10 and `maxlisteners` with children that
   die; property: the main listener neither refuses nor serves inline for ever.
2. `ConnStats`: two connections claiming slots; property: one slot per connection.
3. The thread mode of the list; the relay of proxy mode.

Theorems to come: of the first two, that the counts are right whoever dies, and that a slot has
one owner, for any number of processes.
